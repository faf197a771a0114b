------------------------------ MODULE MCHandover ------------------------------
\* Instances of Handover for TLC.
EXTENDS Handover

\* A root and a child stacked on it.
Pair == <<0, 1>>

\* A stack of three.
Chain == <<0, 1, 2>>

=============================================================================
