------------------------- MODULE MCTransactionPlans -------------------------
(* Small instances of TransactionPlans for TLC. *)
EXTENDS TransactionPlans, TLC

Symmetric == Permutations(Requests)

Nothing == {}
NoFunction == [x \in {} |-> x]

\* Single: one plan, one step, one transaction.
SingleDepends == [s \in {1} |-> {}]
SingleFits == {<<"a", "p", 1>>}
SingleSlotOf == [t \in {"a"} |-> 0]
SingleEarlier == [n \in {0} |-> {}]

\* Rivals: two plans of one step; "a" fits both, "b" spends the nonce of "a".
RivalFits == {<<"a", "p", 1>>, <<"a", "q", 1>>, <<"b", "q", 1>>}
RivalSlotOf == [t \in {"a", "b"} |-> 0]

\* Contended: one plan whose second step depends on the first, with a transaction
\* for each; a Relayr wave also fits step 1 and an operation both steps.
ChainedDepends == [s \in {1, 2} |-> IF s = 2 THEN {1} ELSE {}]
ChainedFits == {<<"a", "p", 1>>, <<"b", "p", 2>>}
ChainedSlotOf == [t \in {"a", "b"} |-> IF t = "a" THEN 0 ELSE 1]
ChainedEarlier == [n \in {0, 1} |-> IF n = 1 THEN {0} ELSE {}]
ContendedWavePlan == [v \in {"R", "U"} |-> "p"]
ContendedWaveSteps == [v \in {"R", "U"} |-> IF v = "U" THEN {1, 2} ELSE {1}]
ContendedOuterWave == [o \in {"r", "u"} |-> IF o = "u" THEN "U" ELSE "R"]
ContendedOuterSteps == [o \in {"r", "u"} |-> IF o = "u" THEN {1, 2} ELSE {1}]

\* Sponsored: a Relayr wave, for which its provider may send two transactions,
\* carries out step 1 and an operation the dependent step 2.
SponsoredWaveSteps == [v \in {"R", "U"} |-> IF v = "U" THEN {2} ELSE {1}]
SponsoredOuterWave == [o \in {"r", "rr", "u"} |-> IF o = "u" THEN "U" ELSE "R"]
SponsoredOuterSteps == [o \in {"r", "rr", "u"} |-> IF o = "u" THEN {2} ELSE {1}]

\* Recovered: one step, a transaction and a wave.
RecoveredWavePlan == [v \in {"R"} |-> "p"]
RecoveredWaveSteps == [v \in {"R"} |-> {1}]
RecoveredOuterWave == [o \in {"r"} |-> "R"]
RecoveredOuterSteps == [o \in {"r"} |-> {1}]
=============================================================================
