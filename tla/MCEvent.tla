------------------------------- MODULE MCEvent -------------------------------
\* Instances of EventPosix for TLC.
EXTENDS EventPosix
===============================================================================
