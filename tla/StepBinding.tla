----------------------------- MODULE StepBinding -----------------------------
(***************************************************************************)
(* What the transaction journal promises about each reviewed action of a   *)
(* plan: it permanently selects one executor (a signed transaction, a      *)
(* Relayr wave or a UserOperation), and only the selected executor is ever *)
(* set in motion for it.                                                   *)
(***************************************************************************)
CONSTANTS Actions, Executors, None

VARIABLES bound,    \* [Actions -> Executors \cup {None}]
          acted     \* <<action, executor>> pairs set in motion

Init == /\ bound = [a \in Actions |-> None]
        /\ acted = {}

\* Executor x is selected for the actions in S, all of them or none.
Bind(x, S) ==
    /\ \A a \in S : bound[a] \in {None, x}
    /\ bound' = [a \in Actions |-> IF a \in S THEN x ELSE bound[a]]
    /\ UNCHANGED acted

\* Executor x acts, or acts again, for actions it was selected for.
Act(x, S) ==
    /\ \A a \in S : bound[a] = x
    /\ acted' = acted \cup {<<a, x>> : a \in S}
    /\ UNCHANGED bound

Next == \E x \in Executors, S \in SUBSET Actions : Bind(x, S) \/ Act(x, S)

Spec == Init /\ [][Next]_<<bound, acted>>
==============================================================================
