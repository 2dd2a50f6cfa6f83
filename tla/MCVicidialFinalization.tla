----------------------- MODULE MCVicidialFinalization -----------------------
\* Instances of VicidialFinalization for TLC.
EXTENDS VicidialFinalization
=============================================================================
