----------------------- MODULE TransactionPlansProofs -----------------------
(* The theorems about TransactionPlans, without the bounds of the instances that *)
(* TLC checks.                                                                   *)
EXTENDS TransactionPlansRest

-----------------------------------------------------------------------------
(* The theorems. *)

\* The empty journal satisfies the invariant.
LEMMA InitIInv == Init => IInv
<1> SUFFICES ASSUME Init
             PROVE  IInv
  OBVIOUS
<1>1. Shape
  BY InitShape
<1>2. FreshIsCurrent
  BY DEF Init, FreshIsCurrent, IdleJob
<1>3. BindingRecorded
  BY DEF Init, BindingRecorded, NewStep, Bound
<1>4. SenderHolds /\ WaveHolds
  BY DEF Init, SenderHolds, WaveHolds, IdleJob
<1> QED
  BY <1>1, <1>2, <1>3, <1>4 DEF IInv

\* Every step preserves the inductive invariant.
LEMMA NextIInv ==
    ASSUME IInv, [Next]_vars
    PROVE  IInv'
<1>1. Shape'
  BY NextShape DEF IInv
<1>2. Rest'
  <2>1. ASSUME NEW w \in Workers, Work(w)
        PROVE  Rest'
    BY <2>1, ObserveRest, SaveRest, CheckRest, ClaimRest, SendRest, SettleRest DEF Work
  <2>2. ASSUME NEW w \in Requests, NEW p \in Plans, StartRead(w, p)
        PROVE  Rest'
    BY <2>2, ArrivalJobs, SyncRest DEF StartRead, Workers
  <2>3. ASSUME NEW w \in Requests, NEW p \in Plans, NEW s \in Steps, NEW t \in Txs,
               NEW k \in Keys \cup {None}, StartSubmit(w, p, s, t, k)
        PROVE  Rest'
    <3> DEFINE j == [Reading(p) EXCEPT !.kind = "submit", !.step = s, !.tx = t, !.key = k]
    <3>1. j \in Jobs /\ Submits(j)
      BY ArrivalJobs, Zenon
    <3>2. Sync(w, j)
      BY <2>3, Zenon DEF StartSubmit
    <3> HIDE DEF j
    <3> QED
      BY <3>1, <3>2, SyncRest DEF Workers
  <2>4. ASSUME NEW p \in Plans, StartRecovery(p)
        PROVE  Rest'
    BY <2>4, ArrivalJobs, SyncRest DEF StartRecovery, Workers
  <2> QED
    BY <2>1, <2>2, <2>3, <2>4, PassingRest, WaveRest DEF Next, Arrive
<1> QED
  BY <1>1, <1>2 DEF IInv, Rest

\* The inductive invariant holds in every reachable state.
THEOREM Invariance == Spec => []IInv
BY InitIInv, NextIInv, PTL DEF Spec

\* The state only ever has the documented types.
THEOREM TypeCorrect == Spec => []TypeOK
BY Invariance, PTL DEF IInv, Shape

\* A step is acted on by one executor at most, in every reachable state.
THEOREM OneExecutor == Spec => []OneExecutorPerStep
<1>1. IInv => OneExecutorPerStep
  <2> SUFFICES ASSUME IInv, NEW p \in Plans, NEW s \in Steps, NEW x \in Acted(p, s)
               PROVE  x = transport[p][s]
    BY DEF OneExecutorPerStep
  <2>1. published \subseteq Waves
    BY DEF IInv, Shape, TypeOK
  <2> QED
    BY <2>1 DEF Acted, IInv, SenderHolds, Holds, WaveHolds
<1> QED
  BY <1>1, Invariance, PTL

\* No two relayed transactions spend one nonce, in every reachable state.
THEOREM NonceOnce == Spec => []OneStepPerNonce
<1>1. IInv => OneStepPerNonce
  <2> SUFFICES ASSUME IInv, NEW x \in relayed, NEW y \in relayed, SlotOf[x[3]] = SlotOf[y[3]]
               PROVE  x = y
    BY DEF OneStepPerNonce
  <2>1. relayed \subseteq Plans \X Steps \X Txs
    BY DEF IInv, Shape, TypeOK
  <2>2. ASSUME NEW z \in relayed
        PROVE  nonceOwner[SlotOf[z[3]]] = z
    BY <2>1 DEF IInv, SenderHolds, Holds
  <2> QED
    BY <2>2
<1> QED
  BY <1>1, Invariance, PTL

\* The reservation table can always be merged into the plan.
THEOREM PlansStayReadable == Spec => []SyncNeverConflicts
<1>1. IInv => SyncNeverConflicts
  <2> SUFFICES ASSUME IInv, NEW p \in Plans, NEW s \in Steps, transport[p][s] \in Waves
               PROVE  /\ steps[p][s].attempt = None
                      /\ \/ steps[p][s].ext = transport[p][s]
                         \/ /\ steps[p][s].ext = None /\ steps[p][s].state = "waiting"
                            /\ steps[p][s].receipt = None /\ steps[p][s].semantic = "none"
    BY DEF SyncNeverConflicts, Attachable
  <2>1. steps[p][s] \in StepDocs
    BY DEF IInv, Shape, TypeOK
  <2>2. steps[p][s].attempt = None
    BY <2>1, ConstantsDistinct DEF IInv, BindingRecorded, StepDocs
  <2>3. steps[p][s].ext = None => steps[p][s] = NewStep
    BY <2>2 DEF IInv, BindingRecorded, Bound
  <2>4. steps[p][s].ext # None => steps[p][s].ext = transport[p][s]
    BY DEF IInv, BindingRecorded
  <2> QED
    BY <2>2, <2>3, <2>4 DEF NewStep
<1> QED
  BY <1>1, Invariance, PTL

-----------------------------------------------------------------------------
(* Which actions write reservations, and which act. *)

Admits(w) == /\ job[w].pc = "claim" /\ ClaimAdmitted(w) /\ Reserve(job[w])
             /\ UNCHANGED <<relayed, published>>

\* Only a claim, a send and a publication touch reservations or set a step in motion.
LEMMA Effects ==
    ASSUME [Next]_vars
    PROVE  \/ UNCHANGED <<transport, nonceOwner, relayed, published>>
           \/ \E w \in Workers : Admits(w) \/ Send(w)
           \/ \E v \in Waves : WaveClaim(v) \/ WavePublish(v)
<1> DEFINE Quiet == UNCHANGED <<transport, nonceOwner, relayed, published>>
<1>1. ASSUME NEW w, NEW mine, Sync(w, mine)
      PROVE  Quiet
  BY <1>1, Zenon DEF Sync, history
<1>2. ASSUME NEW w \in Workers, Work(w)
      PROVE  Quiet \/ Admits(w) \/ Send(w)
  <2>1. CASE \E s \in Steps : Observe(w, s)
    BY <2>1 DEF Observe, store, history
  <2>2. CASE Save(w)
    BY <1>1, <2>2 DEF Save, SaveDirect, SaveExternal, SaveConflict, store, history
  <2>3. CASE Check(w)
    BY <2>3, Zenon DEF Check, store, history
  <2>4. CASE Claim(w)
    BY <2>4, Zenon DEF Claim, ClaimKnown, ClaimRepeat, ClaimDispatch, ClaimRefused, Admits, store, history
  <2>5. CASE Settle(w)
    BY <2>5, Zenon DEF Settle, history
  <2> QED
    BY <1>2, <2>1, <2>2, <2>3, <2>4, <2>5 DEF Work
<1>3. ASSUME NEW w, Arrive(w)
      PROVE  Quiet
  BY <1>1, <1>3, Zenon DEF Arrive, StartRead, StartSubmit
<1>4. ASSUME NEW p, StartRecovery(p)
      PROVE  Quiet
  BY <1>1, <1>4 DEF StartRecovery
<1>5. ASSUME NEW v \in Waves, WaveStep(v)
      PROVE  Quiet \/ WaveClaim(v) \/ WavePublish(v)
  BY <1>5, Zenon DEF WaveStep, WaveCheck, WaveRefused, WaveTag, WaveAbandoned, WaveLapses, store, history
<1>6. CASE \/ \E p \in Plans, k \in Keys \cup {None} : CreatePlan(p, k)
           \/ \E w \in Workers : Crash(w)
           \/ Passing \/ ChainStep
  BY <1>6 DEF CreatePlan, Crash, Passing, PlanExpires, LeaseExpires, Revoke, ChainStep, Mine,
              Deepens, Reorg, Dropped, OwnerBroadcasts, ProviderSends, store, history
<1>7. CASE UNCHANGED vars
  BY <1>7 DEF vars, store, history
<1> QED
  BY <1>2, <1>3, <1>4, <1>5, <1>6, <1>7 DEF Next

-----------------------------------------------------------------------------
(* Plans implement StepBinding. *)

SelectedOf == [a \in Plans \X Steps |-> transport[a[1]][a[2]]]
DirectActs(R) == {<<<<x[1], x[2]>>, x[3]>> : x \in R}
WaveActs(P) == {<<<<WavePlan[x[1]], x[2]>>, x[1]>> :
                  x \in {y \in P \X Steps : y[2] \in WaveSteps[y[1]]}}
ActedOf == DirectActs(relayed) \cup WaveActs(published)

\* Publishing a wave adds its own steps to those the waves set in motion.
LEMMA WaveActsGrow ==
    ASSUME NEW P, NEW v, WaveSteps[v] \subseteq Steps
    PROVE  WaveActs(P \cup {v}) = WaveActs(P) \cup {<<<<WavePlan[v], s>>, v>> : s \in WaveSteps[v]}
<1> DEFINE W(Q) == {y \in Q \X Steps : y[2] \in WaveSteps[y[1]]}
<1>1. W(P \cup {v}) = W(P) \cup {<<v, s>> : s \in WaveSteps[v]}
  OBVIOUS
<1>2. ASSUME NEW A, NEW B
      PROVE  {<<<<WavePlan[x[1]], x[2]>>, x[1]>> : x \in A \cup B}
             = {<<<<WavePlan[x[1]], x[2]>>, x[1]>> : x \in A}
               \cup {<<<<WavePlan[x[1]], x[2]>>, x[1]>> : x \in B}
  BY Zenon
<1>3. {<<<<WavePlan[x[1]], x[2]>>, x[1]>> : x \in {<<v, s>> : s \in WaveSteps[v]}}
      = {<<<<WavePlan[v], s>>, v>> : s \in WaveSteps[v]}
  <2>1. \A s : <<v, s>>[1] = v /\ <<v, s>>[2] = s
    OBVIOUS
  <2> QED
    BY <2>1, ZenonT(120)
<1> QED
  BY <1>1, <1>2, <1>3 DEF WaveActs

\* Selecting executor x for a set A of actions.
LEMMA BindStep ==
    ASSUME NEW A \in SUBSET (Plans \X Steps), NEW x \in Executors,
           \A a \in A : SelectedOf[a] \in {None, x},
           SelectedOf' = [a \in Plans \X Steps |-> IF a \in A THEN x ELSE SelectedOf[a]],
           relayed' = relayed, published' = published
    PROVE  Binding!Next
<1>1. ActedOf' = ActedOf
  BY DEF ActedOf
<1>2. Binding!Bind(x, A)
  BY <1>1 DEF Binding!Bind, SelectedOf, ActedOf, DirectActs, WaveActs
<1> QED
  BY <1>2 DEF Binding!Next

\* Plan steps whose executor acts.
LEMMA ActStep ==
    ASSUME NEW p \in Plans, NEW S \in SUBSET Steps, NEW x \in Executors,
           \A s \in S : transport[p][s] = x,
           ActedOf' = ActedOf \cup {<<<<p, s>>, x>> : s \in S},
           UNCHANGED transport
    PROVE  Binding!Next
<1> DEFINE A == {p} \X S
<1>1. A \in SUBSET (Plans \X Steps)
  OBVIOUS
<1>2. \A a \in A : SelectedOf[a] = x
  BY DEF SelectedOf
<1>3. SelectedOf' = SelectedOf
  BY DEF SelectedOf
<1>4. {<<<<p, s>>, x>> : s \in S} = {<<a, x>> : a \in A}
  OBVIOUS
<1>5. Binding!Act(x, A)
  BY <1>2, <1>3, <1>4 DEF Binding!Act, SelectedOf, ActedOf, DirectActs, WaveActs
<1> QED
  BY <1>1, <1>5 DEF Binding!Next

\* Every step of the plans is a step of StepBinding or leaves it alone.
LEMMA NextBinds ==
    ASSUME IInv, [Next]_vars
    PROVE  Binding!Next \/ UNCHANGED <<SelectedOf, ActedOf>>
<1>1. CASE UNCHANGED <<transport, nonceOwner, relayed, published>>
  BY <1>1 DEF SelectedOf, ActedOf
<1>2. ASSUME NEW w \in Workers, Admits(w)
      PROVE  Binding!Next
  <2>0. PICK p, s, t : p = job[w].plan /\ s = job[w].step /\ t = job[w].tx
    OBVIOUS
  <2>1. p \in Plans /\ s \in Steps /\ t \in Txs /\ t \in Executors
    BY <1>2, <2>0, SubmitterShape DEF IInv, Admits, Executors
  <2>2. /\ transport'[p][s] = t
        /\ \A q \in Plans \ {p} : transport'[q] = transport[q]
        /\ \A r \in Steps \ {s} : transport'[p][r] = transport[p][r]
    BY <1>2, <2>0, ReserveStable DEF Admits
  <2>3. transport[p][s] \in {None, t} /\ relayed' = relayed /\ published' = published
    BY <1>2, <2>0, Zenon DEF Admits, ClaimAdmitted
  <2> DEFINE A == {<<p, s>>}
  <2>4. A \in SUBSET (Plans \X Steps) /\ \A a \in A : SelectedOf[a] \in {None, t}
    BY <2>1, <2>3 DEF SelectedOf
  <2>5. SelectedOf' = [a \in Plans \X Steps |-> IF a \in A THEN t ELSE SelectedOf[a]]
    BY <2>1, <2>2 DEF SelectedOf
  <2> HIDE DEF A
  <2> QED
    BY <2>1, <2>3, <2>4, <2>5, BindStep
<1>3. ASSUME NEW v \in Waves, WaveClaim(v)
      PROVE  Binding!Next
  <2> DEFINE p == WavePlan[v]
  <2>1. p \in Plans /\ v \in Executors /\ WaveSteps[v] \in SUBSET Steps
    BY ConstantShapes DEF Executors
  <2>2. /\ \A s \in WaveSteps[v] : transport[p][s] \in {None, v}
        /\ transport' = [transport EXCEPT ![p] =
                           [s \in Steps |-> IF s \in WaveSteps[v] THEN v ELSE @[s]]]
        /\ relayed' = relayed /\ published' = published
    BY <1>3, Zenon DEF WaveClaim, WaveAdmitted, history
  <2>3. /\ \A s \in WaveSteps[v] : transport'[p][s] = v
        /\ \A q \in Plans, s \in Steps :
              q # p \/ s \notin WaveSteps[v] => transport'[q][s] = transport[q][s]
    BY <2>1, <2>2 DEF IInv, Shape, TypeOK
  <2> DEFINE A == {p} \X WaveSteps[v]
  <2>4. A \in SUBSET (Plans \X Steps) /\ \A a \in A : SelectedOf[a] \in {None, v}
    BY <2>1, <2>2 DEF SelectedOf
  <2>5. SelectedOf' = [a \in Plans \X Steps |-> IF a \in A THEN v ELSE SelectedOf[a]]
    BY <2>1, <2>3 DEF SelectedOf
  <2> HIDE DEF A
  <2> QED
    BY <2>1, <2>2, <2>4, <2>5, BindStep
<1>4. ASSUME NEW w \in Workers, Send(w)
      PROVE  Binding!Next
  <2>0. PICK p, s, t : p = job[w].plan /\ s = job[w].step /\ t = job[w].tx
    OBVIOUS
  <2>1. p \in Plans /\ s \in Steps /\ t \in Executors /\ transport[p][s] = t
    BY <1>4, <2>0, SubmitterShape DEF IInv, Send, Executors, SenderHolds, Holds
  <2>2. relayed' = relayed \cup {<<p, s, t>>} /\ transport' = transport /\ published' = published
    BY <1>4, <2>0 DEF Send, store
  <2>3. ActedOf' = ActedOf \cup {<<<<p, r>>, t>> : r \in {s}}
    <3>1. DirectActs(relayed') = DirectActs(relayed) \cup {<<<<p, r>>, t>> : r \in {s}}
      <4>1. PICK R, R2 : R = relayed /\ R2 = relayed'
        OBVIOUS
      <4>2. DirectActs(R \cup {<<p, s, t>>}) = DirectActs(R) \cup {<<<<p, s>>, t>>}
        <5>1. DirectActs(R \cup {<<p, s, t>>}) = DirectActs(R) \cup DirectActs({<<p, s, t>>})
          BY Zenon DEF DirectActs
        <5>2. DirectActs({<<p, s, t>>}) = {<<<<p, s>>, t>>}
          BY DEF DirectActs
        <5> QED
          BY <5>1, <5>2
      <4>3. R2 = R \cup {<<p, s, t>>}
        BY <2>2, <4>1
      <4>4. DirectActs(relayed') = DirectActs(R2) /\ DirectActs(relayed) = DirectActs(R)
        BY <4>1, Zenon DEF DirectActs
      <4>5. DirectActs(R2) = DirectActs(R) \cup {<<<<p, r>>, t>> : r \in {s}}
        BY <4>2, <4>3
      <4> QED
        BY <4>4, <4>5, Zenon
    <3> QED
      BY <2>2, <3>1 DEF ActedOf, DirectActs, WaveActs
  <2>4. {s} \in SUBSET Steps /\ \A r \in {s} : transport[p][r] = t
    BY <2>1
  <2> QED
    BY <2>1, <2>2, <2>3, <2>4, ActStep, Zenon
<1>5. ASSUME NEW v \in Waves, WavePublish(v)
      PROVE  Binding!Next
  <2> DEFINE p == WavePlan[v]
  <2>1. p \in Plans /\ v \in Executors /\ WaveSteps[v] \in SUBSET Steps
    BY ConstantShapes DEF Executors
  <2>2. \A s \in WaveSteps[v] : transport[p][s] = v
    <3>1. wave[v] \notin {"idle", "checked"}
      BY <1>5 DEF WavePublish
    <3> QED
      BY <3>1 DEF IInv, WaveHolds
  <2>3. published' = published \cup {v} /\ UNCHANGED <<transport, relayed>>
    BY <1>5 DEF WavePublish, store
  <2>4. ActedOf' = ActedOf \cup {<<<<p, s>>, v>> : s \in WaveSteps[v]}
    <3>1. WaveActs(published') = WaveActs(published) \cup {<<<<p, s>>, v>> : s \in WaveSteps[v]}
      BY <2>1, <2>3, WaveActsGrow
    <3> QED
      BY <2>3, <3>1 DEF ActedOf, DirectActs, WaveActs
  <2> QED
    BY <2>1, <2>2, <2>3, <2>4, ActStep
<1> QED
  BY <1>1, <1>2, <1>3, <1>4, <1>5, Effects

\* TransactionPlans implements StepBinding: each action of a plan permanently
\* selects one executor, and only that executor acts for it.
THEOREM Implements == Spec => BindsOnce
<1>1. Init => Binding!Init
  BY DEF Init, Binding!Init
<1>2. IInv /\ [Next]_vars => [Binding!Next]_<<SelectedOf, ActedOf>>
  BY NextBinds
<1> QED
  BY <1>1, <1>2, Invariance, PTL DEF Spec, BindsOnce, Binding!Spec, SelectedOf, ActedOf, DirectActs, WaveActs
=============================================================================
