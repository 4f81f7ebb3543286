-------------------------- MODULE MCUserOperations --------------------------
(* An instance of UserOperations for TLC.                                    *)
EXTENDS UserOperations

CONSTANTS r1, a

\* Every operation executes a plan of its own.
OwnPlans == [o \in Ops |-> o]

=============================================================================
