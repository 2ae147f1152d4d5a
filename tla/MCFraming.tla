------------------------------- MODULE MCFraming -------------------------------
\* Instances of Framing for TLC.
EXTENDS Framing

\* TCP cuts the stream anywhere.
AnyRead == 1 .. ChainSize

===============================================================================
