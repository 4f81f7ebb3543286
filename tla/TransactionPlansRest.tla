------------------------ MODULE TransactionPlansRest ------------------------
(* Claims, sends, answers and waves keep the rest of the inductive invariant. *)
EXTENDS TransactionPlansFrames

\* An admitted claim reserves what is free or its own.
LEMMA ReserveStable ==
    ASSUME IInv, NEW w \in Workers, job[w].pc = "claim", ClaimAdmitted(w), Reserve(job[w])
    PROVE  /\ Stable
           /\ transport'[job[w].plan][job[w].step] = job[w].tx
           /\ nonceOwner'[SlotOf[job[w].tx]] = <<job[w].plan, job[w].step, job[w].tx>>
           /\ \A q \in Plans \ {job[w].plan} : transport'[q] = transport[q]
           /\ \A s \in Steps \ {job[w].step} :
                 transport'[job[w].plan][s] = transport[job[w].plan][s]
<1> DEFINE p == job[w].plan  s == job[w].step  t == job[w].tx
<1>1. p \in Plans /\ s \in Steps /\ t \in Txs /\ SlotOf[t] \in Slots
  BY SubmitterShape DEF IInv
<1>2. /\ transport[p][s] \in {None, t} /\ nonceOwner[SlotOf[t]] \in {None, <<p, s, t>>}
      /\ transport' = [transport EXCEPT ![p][s] = t]
      /\ nonceOwner' = [nonceOwner EXCEPT ![SlotOf[t]] = <<p, s, t>>]
  BY Zenon DEF ClaimAdmitted, Reserve
<1>3. /\ transport \in [Plans -> [Steps -> Executors \cup {None}]]
      /\ nonceOwner \in [Slots -> (Plans \X Steps \X Txs) \cup {None}]
  BY DEF IInv, Shape, TypeOK
<1> HIDE DEF p, s, t
<1>4. \A q \in Plans, r \in Steps :
         transport'[q][r] = IF q = p /\ r = s THEN t ELSE transport[q][r]
  BY <1>1, <1>2, <1>3
<1>5. \A q \in Plans \ {p} : transport'[q] = transport[q]
  BY <1>1, <1>2, <1>3
<1>6. \A n \in Slots : nonceOwner'[n] = IF n = SlotOf[t] THEN <<p, s, t>> ELSE nonceOwner[n]
  BY <1>1, <1>2, <1>3
<1>7. Stable
  BY <1>1, <1>2, <1>4, <1>6 DEF Stable
<1>8. transport'[p][s] = t /\ nonceOwner'[SlotOf[t]] = <<p, s, t>>
  BY <1>1, <1>4, <1>6
<1>9. \A r \in Steps \ {s} : transport'[p][r] = transport[p][r]
  BY <1>1, <1>4
<1> QED
  BY <1>5, <1>7, <1>8, <1>9 DEF p, s, t

\* Rewriting the claimed step and nothing else.
LEMMA ClaimedRest ==
    ASSUME IInv, NEW w \in Workers, job[w].pc = "claim", ClaimAdmitted(w), Reserve(job[w]),
           NEW st \in StepDocs, st.attempt = job[w].tx, st.ext = None,
           steps' = [steps EXCEPT ![job[w].plan][job[w].step] = st],
           NEW j \in Jobs, Advance(job[w].plan, w, j), j.pc \in {"idle", "send"},
           j.pc = "send" => j.plan = job[w].plan /\ j.step = job[w].step /\ j.tx = job[w].tx,
           UNCHANGED <<world, history>>
    PROVE  Rest'
<1> DEFINE p == job[w].plan  s == job[w].step  t == job[w].tx
           next == [steps[p] EXCEPT ![s] = st]
<1>1. p \in Plans /\ s \in Steps /\ t \in Txs /\ t # None
  BY SubmitterShape, ConstantsDistinct DEF IInv
<1>2. steps \in [Plans -> [Steps -> StepDocs]]
  BY DEF IInv, Shape, TypeOK
<1>3. /\ next \in [Steps -> StepDocs] /\ steps' = [steps EXCEPT ![p] = next]
      /\ \A r \in Steps : next[r] = IF r = s THEN st ELSE steps[p][r]
  BY <1>1, <1>2
<1> HIDE DEF next
<1>4. /\ Stable /\ transport'[p][s] = t /\ nonceOwner'[SlotOf[t]] = <<p, s, t>>
      /\ \A q \in Plans \ {p} : transport'[q] = transport[q]
      /\ \A r \in Steps \ {s} : transport'[p][r] = transport[p][r]
  BY ReserveStable
<1>5. FreshIsCurrent' /\ (j.pc # "send" => NoNewSender)
  BY <1>1, <1>3, AdvanceFrame DEF Current
<1>6. BindingRecorded'
  <2>1. ASSUME NEW r \in Steps
        PROVE  Recorded(next[r], transport'[p][r])
    <3>1. CASE r = s
      BY <1>1, <1>3, <1>4, <3>1 DEF Recorded, Bound
    <3>2. CASE r # s
      <4>1. Recorded(steps[p][r], transport[p][r])
        BY <1>1 DEF IInv, BindingRecorded, Recorded
      <4> QED
        BY <1>3, <1>4, <3>2, <4>1
    <3> QED
      BY <3>1, <3>2
  <2> QED
    BY <1>1, <1>3, <1>4, <2>1, RecordedFrame
<1>7. WaveHolds'
  BY <1>4, WaveFrame DEF world, history
<1>8. SenderHolds'
  <2>1. ASSUME NEW x \in Workers, job'[x].pc = "send"
        PROVE  Holds(job[x].plan, job[x].step, job[x].tx)'
    <3>1. CASE x = w
      <4>1. job'[x] = j
        BY <3>1 DEF Advance
      <4> QED
        BY <1>4, <2>1, <3>1, <4>1 DEF Holds
    <3>2. CASE x # w
      <4>1. job[x] \in Jobs
        BY DEF IInv, Shape, TypeOK
      <4>2. /\ job'[x].pc = job[x].pc /\ job'[x].plan = job[x].plan /\ job'[x].step = job[x].step
            /\ job'[x].tx = job[x].tx
        BY <3>2, <4>1 DEF Advance, Jobs
      <4>3. job[x].plan \in Plans /\ job[x].step \in Steps /\ job[x].tx \in Txs
            /\ SlotOf[job[x].tx] \in Slots
        BY <2>1, <4>2, SubmitterShape DEF IInv
      <4>4. Holds(job[x].plan, job[x].step, job[x].tx)
        BY <2>1, <4>2 DEF IInv, SenderHolds
      <4>5. job[x].tx # None /\ <<job[x].plan, job[x].step, job[x].tx>> # None
        BY <4>3, ConstantsDistinct, Zenon
      <4> QED
        BY <1>4, <4>2, <4>3, <4>4, <4>5 DEF Holds, Stable
    <3> QED
      BY <3>1, <3>2
  <2>2. ASSUME NEW q \in Plans, NEW r \in Steps, NEW u \in Txs, <<q, r, u>> \in relayed'
        PROVE  Holds(q, r, u)'
    <3>1. Holds(q, r, u)
      BY <2>2 DEF IInv, SenderHolds, history
    <3>2. u # None /\ <<q, r, u>> # None /\ SlotOf[u] \in Slots
      BY ConstantsDistinct, ConstantShapes
    <3> QED
      BY <1>4, <3>1, <3>2 DEF Holds, Stable
  <2> QED
    BY <2>1, <2>2 DEF SenderHolds
<1> QED
  BY <1>5, <1>6, <1>7, <1>8 DEF Rest

\* Each outcome of claimSubmission keeps the rest of the invariant.
LEMMA ClaimRest ==
    ASSUME IInv, NEW w \in Workers, Claim(w)
    PROVE  Rest'
<1> DEFINE j == job[w]
           st == steps[j.plan][j.step]
<1>1. /\ j \in Jobs /\ j.pc = "claim" /\ st \in StepDocs
      /\ j.plan \in Plans /\ j.step \in Steps /\ j.tx \in Txs
  BY SubmitterShape DEF Claim, ClaimKnown, ClaimRepeat, ClaimDispatch, ClaimRefused, IInv
<1>2. IdleJob \in Jobs /\ IdleJob.pc = "idle"
  BY IdleShape DEF IdleJob
<1>3. CASE ClaimKnown(w)
  <2> DEFINE new == [NewStep EXCEPT !.state = "submitted", !.attempt = j.tx]
  <2>1. new \in StepDocs /\ new.attempt = j.tx /\ new.ext = None
    BY <1>1, NewStepType DEF StepDocs, StepStates, NewStep
  <2> HIDE DEF new
  <2>2. /\ ClaimAdmitted(w) /\ Reserve(j) /\ Advance(j.plan, w, IdleJob)
        /\ steps' = [steps EXCEPT ![j.plan][j.step] = new] /\ UNCHANGED <<world, history>>
    BY <1>3, Zenon DEF ClaimKnown, new
  <2> QED
    BY <1>1, <1>2, <2>1, <2>2, ClaimedRest
<1>4. CASE ClaimDispatch(w)
  <2> DEFINE new == [st EXCEPT !.state = "reserved", !.attempt = j.tx, !.token = @ + 1]
             k == [j EXCEPT !.pc = "send", !.token = st.token + 1, !.fresh = FALSE]
  <2>1. new \in StepDocs /\ new.attempt = j.tx /\ new.ext = st.ext
    <3>1. new \in StepDocs
      BY <1>1, DispatchedType
    <3> QED
      BY <1>1, <3>1 DEF StepDocs
  <2>2. k \in Jobs /\ k.pc = "send" /\ k.plan = j.plan /\ k.step = j.step /\ k.tx = j.tx
    BY <1>1, DispatchedType, ZenonT(120)
  <2> HIDE DEF new, k
  <2>3. /\ ClaimAdmitted(w) /\ Reserve(j) /\ Advance(j.plan, w, k)
        /\ steps' = [steps EXCEPT ![j.plan][j.step] = new] /\ UNCHANGED <<world, history>>
    BY <1>4, Zenon DEF ClaimDispatch, new, k
  <2>4. st.ext = None
    BY <2>3, Zenon DEF ClaimAdmitted
  <2> QED
    BY <1>1, <2>1, <2>2, <2>3, <2>4, ClaimedRest
<1>5. CASE ClaimRepeat(w)
  <2>1. ClaimAdmitted(w) /\ Reserve(j) /\ Goto(w, IdleJob) /\ UNCHANGED <<steps, world, history>>
    BY <1>5, Zenon DEF ClaimRepeat, Stop
  <2>2. /\ Stable /\ transport'[j.plan][j.step] = j.tx
        /\ \A q \in Plans \ {j.plan} : transport'[q] = transport[q]
        /\ \A r \in Steps \ {j.step} : transport'[j.plan][r] = transport[j.plan][r]
    BY <1>1, <2>1, ReserveStable
  <2>3. FreshIsCurrent' /\ NoNewSender
    BY <1>2, <2>1, GotoFrame DEF Current
  <2>4. BindingRecorded'
    <3> SUFFICES ASSUME NEW q \in Plans, NEW r \in Steps
                 PROVE  Recorded(steps[q][r], transport'[q][r])
      BY <2>1 DEF BindingRecorded, Recorded
    <3>1. Recorded(steps[q][r], transport[q][r])
      BY DEF IInv, BindingRecorded, Recorded
    <3>2. CASE q = j.plan /\ r = j.step
      <4>1. steps[q][r].ext = None /\ steps[q][r].attempt \in {None, j.tx}
        BY <2>1, <3>2, Zenon DEF ClaimAdmitted
      <4> QED
        BY <2>2, <3>1, <3>2, <4>1 DEF Recorded
    <3>3. CASE q # j.plan \/ r # j.step
      BY <2>2, <3>1, <3>3
    <3> QED
      BY <3>2, <3>3
  <2> QED
    BY <2>1, <2>2, <2>3, <2>4, SenderFrame, WaveFrame DEF Rest, world, history
<1>6. CASE ClaimRefused(w)
  BY <1>2, <1>6, MoveRest DEF ClaimRefused, Stop, store, world, history
<1> QED
  BY <1>3, <1>4, <1>5, <1>6 DEF Claim

\* The broadcast happens under the reservation that admitted it.
LEMMA SendRest ==
    ASSUME IInv, NEW w \in Workers, Send(w)
    PROVE  Rest'
<1> DEFINE j == job[w]
<1>1. j \in Jobs /\ j.plan \in Plans /\ j.step \in Steps /\ j.tx \in Txs /\ j.pc = "send"
  BY SubmitterShape DEF Send, IInv
<1>2. ASSUME NEW ok \in BOOLEAN
      PROVE  LET k == [j EXCEPT !.pc = "settle", !.sent = ok] IN k \in Jobs /\ k.pc = "settle"
  BY <1>1 DEF Jobs
<1>3. /\ Goto(w, [j EXCEPT !.pc = "settle", !.sent = TRUE])
         \/ Goto(w, [j EXCEPT !.pc = "settle", !.sent = FALSE])
      /\ relayed' = relayed \cup {<<j.plan, j.step, j.tx>>}
      /\ UNCHANGED <<store, wave, reorgs, published, deepened>>
  BY Zenon DEF Send
<1>4. FreshIsCurrent' /\ NoNewSender
  BY <1>2, <1>3, GotoFrame DEF Current, store
<1>5. Stable /\ BindingRecorded'
  BY <1>3 DEF Stable, IInv, BindingRecorded, store
<1>6. WaveHolds'
  BY <1>3, <1>5, WaveFrame
<1>7. SenderHolds'
  <2>1. ASSUME NEW x \in Workers, job'[x].pc = "send"
        PROVE  Holds(job[x].plan, job[x].step, job[x].tx)'
    <3>1. Holds(job[x].plan, job[x].step, job[x].tx)
      BY <1>4, <2>1 DEF NoNewSender, IInv, SenderHolds
    <3> QED
      BY <1>3, <1>4, <2>1, <3>1 DEF NoNewSender, Holds, store
  <2>2. ASSUME NEW q \in Plans, NEW r \in Steps, NEW u \in Txs, <<q, r, u>> \in relayed'
        PROVE  Holds(q, r, u)'
    <3>1. Holds(q, r, u)
      BY <1>1, <1>3, <2>2 DEF IInv, SenderHolds
    <3> QED
      BY <1>3, <3>1 DEF Holds, store
  <2> QED
    BY <2>1, <2>2 DEF SenderHolds
<1> QED
  BY <1>4, <1>5, <1>6, <1>7 DEF Rest

\* settleSubmission changes a state under an unchanged binding.
LEMMA SettleRest ==
    ASSUME IInv, NEW w \in Workers, Settle(w)
    PROVE  Rest'
<1> DEFINE j == job[w]
           st == steps[j.plan][j.step]
           new == [st EXCEPT !.state = SettledState(st, j.sent)]
           next == [steps[j.plan] EXCEPT ![j.step] = new]
<1>1. /\ st \in StepDocs /\ j.plan \in Plans /\ j.step \in Steps
      /\ steps \in [Plans -> [Steps -> StepDocs]]
  BY SubmitterShape DEF Settle, IInv, Shape, TypeOK
<1>2. SettledState(st, j.sent) \in StepStates
  BY <1>1 DEF SettledState, StepDocs, StepStates
<1>3. new \in StepDocs /\ new.attempt = st.attempt /\ new.ext = st.ext
  BY <1>1, <1>2 DEF StepDocs
<1>4. UNCHANGED <<transport, nonceOwner, world, history>>
  BY Zenon DEF Settle
<1>5. IdleJob \in Jobs /\ IdleJob.pc = "idle"
  BY IdleShape DEF IdleJob
<1>6. CASE st.attempt # None /\ st.token = j.token
  <2>1. steps' = [steps EXCEPT ![j.plan][j.step] = new] /\ Advance(j.plan, w, IdleJob)
    BY <1>1, <1>6 DEF Settle
  <2>2. /\ next \in [Steps -> StepDocs] /\ steps' = [steps EXCEPT ![j.plan] = next]
        /\ \A r \in Steps : next[r] = IF r = j.step THEN new ELSE steps[j.plan][r]
    BY <1>1, <1>3, <2>1
  <2> HIDE DEF next, new
  <2>3. FreshIsCurrent' /\ NoNewSender
    BY <1>1, <1>5, <2>1, <2>2, AdvanceFrame DEF Current
  <2>4. ASSUME NEW r \in Steps
        PROVE  Recorded(next[r], transport'[j.plan][r])
    <3>1. Recorded(steps[j.plan][r], transport[j.plan][r])
      BY <1>1 DEF IInv, BindingRecorded, Recorded
    <3>2. CASE r = j.step
      BY <1>3, <1>4, <1>6, <2>2, <3>1, <3>2 DEF Recorded, Bound
    <3> QED
      BY <1>4, <2>2, <3>1, <3>2
  <2>5. BindingRecorded'
    BY <1>1, <1>4, <2>2, <2>4, RecordedFrame
  <2>6. Stable
    BY <1>4 DEF Stable
  <2> QED
    BY <1>4, <2>3, <2>5, <2>6, SenderFrame, WaveFrame DEF Rest, world, history
<1>7. CASE ~(st.attempt # None /\ st.token = j.token)
  <2>1. Goto(w, IdleJob) /\ UNCHANGED steps
    BY <1>7 DEF Settle, Stop
  <2> QED
    BY <1>4, <1>5, <2>1, MoveRest DEF world, history
<1> QED
  BY <1>6, <1>7

\* Time, plan creation, crashes and the chain.
LEMMA PassingRest ==
    ASSUME IInv, \/ \E p \in Plans, k \in Keys \cup {None} : CreatePlan(p, k)
                 \/ \E w \in Workers : Crash(w)
                 \/ Passing
                 \/ ChainStep
                 \/ UNCHANGED vars
    PROVE  Rest'
<1>1. ASSUME NEW w \in Workers, Crash(w)
      PROVE  Rest'
  <2>1. IdleJob \in Jobs /\ IdleJob.pc = "idle"
    BY IdleShape DEF IdleJob
  <2> QED
    BY <1>1, <2>1, MoveRest DEF Crash, Stop, store, history
<1>2. ASSUME UNCHANGED <<steps, transport, nonceOwner, wave, relayed, published, job>>
      PROVE  Rest'
  BY <1>2, QuietRest DEF IInv, FreshIsCurrent, NoNewSender
<1>3. ASSUME NEW p \in Plans, NEW k \in Keys \cup {None}, CreatePlan(p, k)
      PROVE  Rest'
  BY <1>2, <1>3 DEF CreatePlan, world, history
<1>4. CASE Passing
  BY <1>2, <1>4 DEF Passing, PlanExpires, LeaseExpires, Revoke, world, history
<1>5. CASE ChainStep
  BY <1>2, <1>5 DEF ChainStep, Mine, Deepens, Reorg, Dropped, OwnerBroadcasts, ProviderSends,
                    store, history
<1>6. CASE UNCHANGED vars
  BY <1>2, <1>6 DEF vars, store, world, history
<1> QED
  BY <1>1, <1>3, <1>4, <1>5, <1>6

\* A wave claims free steps only, tags what it claimed, and publishes afterwards.
LEMMA WaveRest ==
    ASSUME IInv, NEW v \in Waves, WaveStep(v)
    PROVE  Rest'
<1> DEFINE p == WavePlan[v]
<1>1. p \in Plans /\ v \in Executors /\ v # None /\ WaveSteps[v] \subseteq Steps /\ v \notin Txs
  BY ConstantShapes, ConstantsDistinct DEF Executors
<1>2. wave \in [Waves -> WaveStates]
  BY DEF IInv, Shape, TypeOK
<1>3. CASE WaveClaim(v)
  <2>1. /\ \A s \in WaveSteps[v] : transport[p][s] \in {None, v}
        /\ transport' = [transport EXCEPT ![p] =
                           [s \in Steps |-> IF s \in WaveSteps[v] THEN v ELSE @[s]]]
        /\ wave' = [wave EXCEPT ![v] = "claimed"]
        /\ UNCHANGED <<steps, nonceOwner, job, history>>
    BY <1>3, Zenon DEF WaveClaim, WaveAdmitted, SetWave
  <2>2. \A q \in Plans, s \in Steps :
           transport'[q][s] = IF q = p /\ s \in WaveSteps[v] THEN v ELSE transport[q][s]
    BY <1>1, <2>1 DEF IInv, Shape, TypeOK
  <2>3. Stable
    <3>1. \A q \in Plans, s \in Steps : transport[q][s] # None => transport'[q][s] = transport[q][s]
      BY <2>1, <2>2
    <3>2. UNCHANGED nonceOwner
      BY <2>1
    <3> QED
      BY <3>1, <3>2 DEF Stable
  <2>4. FreshIsCurrent' /\ NoNewSender
    BY <2>1 DEF IInv, FreshIsCurrent, NoNewSender
  <2>5. BindingRecorded'
    <3> SUFFICES ASSUME NEW q \in Plans, NEW s \in Steps
                 PROVE  Recorded(steps[q][s], transport'[q][s])
      BY <2>1 DEF BindingRecorded, Recorded
    <3>1. Recorded(steps[q][s], transport[q][s]) /\ steps[q][s] \in StepDocs
      BY DEF IInv, BindingRecorded, Recorded, Shape, TypeOK
    <3>2. steps[q][s].attempt # None => transport'[q][s] = transport[q][s]
      BY <1>1, <2>1, <2>2, <3>1, ConstantsDistinct DEF Recorded, StepDocs
    <3>3. steps[q][s].ext # None => transport'[q][s] = transport[q][s]
      BY <1>1, <2>1, <2>2, <3>1 DEF Recorded
    <3> QED
      BY <3>1, <3>2, <3>3 DEF Recorded
  <2>6. WaveHolds'
    <3> SUFFICES ASSUME NEW u \in Waves, u \in published' \/ wave'[u] \notin {"idle", "checked"},
                        NEW s \in WaveSteps[u]
                 PROVE  transport'[WavePlan[u]][s] = u
      BY DEF WaveHolds
    <3>1. WavePlan[u] \in Plans /\ s \in Steps /\ u # None
      BY ConstantShapes, ConstantsDistinct
    <3>2. CASE u = v
      BY <2>2, <3>1, <3>2
    <3>3. CASE u # v
      <4>1. u \in published \/ wave[u] \notin {"idle", "checked"}
        BY <1>2, <2>1, <3>3 DEF history
      <4>2. transport[WavePlan[u]][s] = u
        BY <4>1 DEF IInv, WaveHolds
      <4> QED
        BY <2>3, <3>1, <4>2 DEF Stable
    <3> QED
      BY <3>2, <3>3
  <2> QED
    BY <2>1, <2>3, <2>4, <2>5, <2>6, SenderFrame DEF Rest, history
<1>4. CASE WaveTag(v)
  <2> DEFINE next == Attached(p, WaveRows(v))
  <2>1. WaveRows(v) \in [Steps -> Executors \cup {None}]
        /\ \A s \in Steps : WaveRows(v)[s] \in Waves => s \in WaveSteps[v] /\ WaveRows(v)[s] = v
    BY <1>1, ConstantsDistinct DEF WaveRows
  <2>2. /\ next \in [Steps -> StepDocs]
        /\ \A s \in Steps : /\ next[s].attempt = steps[p][s].attempt
                            /\ \/ next[s] = steps[p][s]
                               \/ s \in WaveSteps[v] /\ next[s].ext = v
    BY <1>1, <2>1, AttachedSteps DEF IInv, Shape
  <2> HIDE DEF next
  <2>3. /\ \/ /\ steps' = [steps EXCEPT ![p] = next]
              /\ (next = steps[p] /\ UNCHANGED job) \/ Advance(p, None, IdleJob)
           \/ UNCHANGED <<steps, job>>
        /\ wave[v] = "claimed"
        /\ wave' = [wave EXCEPT ![v] = "tagged"] \/ wave' = [wave EXCEPT ![v] = "unknown"]
        /\ UNCHANGED <<transport, nonceOwner, history>>
    BY <1>4, Zenon DEF WaveTag, next, SetWave
  <2>4. ASSUME NEW s \in Steps
        PROVE  Recorded(next[s], transport[p][s])
    <3>1. Recorded(steps[p][s], transport[p][s])
      BY <1>1 DEF IInv, BindingRecorded, Recorded
    <3>2. CASE s \in WaveSteps[v] /\ next[s].ext = v
      <4>1. transport[p][s] = v
        BY <2>3, <3>2 DEF IInv, WaveHolds
      <4> QED
        BY <1>1, <2>2, <3>1, <3>2, <4>1 DEF Recorded, Bound
    <3> QED
      BY <2>2, <3>1, <3>2
  <2>5. BindingRecorded'
    <3>1. CASE steps' = [steps EXCEPT ![p] = next]
      BY <1>1, <2>2, <2>3, <2>4, <3>1, RecordedFrame
    <3>2. CASE UNCHANGED steps
      BY <2>3, <3>2 DEF IInv, BindingRecorded
    <3> QED
      BY <2>3, <3>1, <3>2
  <2>6. FreshIsCurrent' /\ NoNewSender
    <3>1. CASE UNCHANGED <<steps, job>>
      BY <3>1 DEF IInv, FreshIsCurrent, NoNewSender
    <3>2. CASE steps' = [steps EXCEPT ![p] = next] /\ next = steps[p] /\ UNCHANGED job
      <4>1. steps' = steps
        BY <1>1, <3>2 DEF IInv, Shape, TypeOK
      <4> QED
        BY <3>1, <3>2, <4>1
    <3>3. CASE steps' = [steps EXCEPT ![p] = next] /\ Advance(p, None, IdleJob)
      <4>1. IdleJob \in Jobs /\ IdleJob.pc = "idle"
        BY IdleShape DEF IdleJob
      <4> QED
        BY <1>1, <3>3, <4>1, AdvanceFrame DEF Current
    <3> QED
      BY <2>3, <3>1, <3>2, <3>3
  <2>7. Stable
    BY <2>3 DEF Stable
  <2>8. \A u \in Waves : wave'[u] \notin {"idle", "checked"} => wave[u] \notin {"idle", "checked"}
    BY <1>2, <2>3
  <2> QED
    BY <2>3, <2>5, <2>6, <2>7, <2>8, SenderFrame, WaveFrame DEF Rest, history
<1>5. CASE \/ WaveCheck(v) \/ WaveRefused(v) \/ WavePublish(v) \/ WaveAbandoned(v) \/ WaveLapses(v)
  <2>1. UNCHANGED <<steps, transport, nonceOwner, job, relayed>>
    BY <1>5 DEF WaveCheck, WaveRefused, WavePublish, WaveAbandoned, WaveLapses, store, history
  <2>2. \A u \in Waves : u \in published' \/ wave'[u] \notin {"idle", "checked"} =>
                         u \in published \/ wave[u] \notin {"idle", "checked"}
    BY <1>2, <1>5 DEF WaveCheck, WaveRefused, WavePublish, WaveAbandoned, WaveLapses, SetWave, history
  <2>3. Stable /\ FreshIsCurrent' /\ NoNewSender /\ BindingRecorded'
    BY <2>1 DEF Stable, IInv, FreshIsCurrent, NoNewSender, BindingRecorded
  <2> QED
    BY <2>1, <2>2, <2>3, SenderFrame, WaveFrame DEF Rest
<1> QED
  BY <1>3, <1>4, <1>5 DEF WaveStep

=============================================================================
