------------------------------- MODULE MCThread -------------------------------
\* Instances of ThreadPosix for TLC.
EXTENDS ThreadPosix
===============================================================================
