------------------------------ MODULE MCModules ------------------------------
\* An instance of Modules for TLC: the play names one object of each kind.
EXTENDS Modules

CONSTANTS i1, n1, t1, v1

MCWish == [id |-> i1, name |-> n1, tag |-> t1, value |-> v1]

=============================================================================
