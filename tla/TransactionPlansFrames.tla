----------------------- MODULE TransactionPlansFrames -----------------------
(* What stands when an action leaves reservations alone; reading, saving and     *)
(* checking keep the rest of the inductive invariant.                            *)
EXTENDS TransactionPlansShape

-----------------------------------------------------------------------------
(* Reservations and freshness. *)

\* Nothing that is reserved is released or given to another owner.
Stable ==
    /\ \A p \in Plans, s \in Steps : transport[p][s] # None => transport'[p][s] = transport[p][s]
    /\ \A n \in Slots : nonceOwner[n] # None => nonceOwner'[n] = nonceOwner[n]

\* No request becomes ready to send.
NoNewSender ==
    \A x \in Workers : job'[x].pc = "send" =>
        /\ job[x].pc = "send" /\ job'[x].plan = job[x].plan
        /\ job'[x].step = job[x].step /\ job'[x].tx = job[x].tx

\* Reservations that stand keep their holders.
LEMMA SenderFrame ==
    ASSUME IInv, Stable, NoNewSender, UNCHANGED relayed
    PROVE  SenderHolds'
<1>1. ASSUME NEW p \in Plans, NEW s \in Steps, NEW t \in Txs, Holds(p, s, t)
      PROVE  transport'[p][s] = t /\ nonceOwner'[SlotOf[t]] = <<p, s, t>>
  <2>1. t # None /\ <<p, s, t>> # None
    BY ConstantsDistinct, Zenon
  <2>2. SlotOf[t] \in Slots
    BY ConstantShapes
  <2> QED
    BY <1>1, <2>1, <2>2 DEF Holds, Stable
<1>2. ASSUME NEW x \in Workers, job'[x].pc = "send"
      PROVE  Holds(job[x].plan, job[x].step, job[x].tx)'
  <2>1. job[x].pc = "send"
    BY <1>2 DEF NoNewSender
  <2>2. job[x].plan \in Plans /\ job[x].step \in Steps /\ job[x].tx \in Txs
    BY <2>1, SubmitterShape DEF IInv
  <2>3. Holds(job[x].plan, job[x].step, job[x].tx)
    BY <2>1 DEF IInv, SenderHolds
  <2>4. job'[x].plan = job[x].plan /\ job'[x].step = job[x].step /\ job'[x].tx = job[x].tx
    BY <1>2 DEF NoNewSender
  <2>5. /\ transport'[job[x].plan][job[x].step] = job[x].tx
        /\ nonceOwner'[SlotOf[job[x].tx]] = <<job[x].plan, job[x].step, job[x].tx>>
    BY <1>1, <2>2, <2>3
  <2> QED
    BY <2>4, <2>5 DEF Holds
<1>3. ASSUME NEW p \in Plans, NEW s \in Steps, NEW t \in Txs, <<p, s, t>> \in relayed'
      PROVE  Holds(p, s, t)'
  BY <1>1, <1>3 DEF IInv, SenderHolds, Holds
<1> QED
  BY <1>2, <1>3 DEF SenderHolds

\* If no wave passes its claim, the waves past it hold their steps as before.
LEMMA WaveFrame ==
    ASSUME IInv, Stable,
           \A v \in Waves : v \in published' \/ wave'[v] \notin {"idle", "checked"} =>
                            v \in published \/ wave[v] \notin {"idle", "checked"}
    PROVE  WaveHolds'
<1> SUFFICES ASSUME NEW v \in Waves, v \in published' \/ wave'[v] \notin {"idle", "checked"},
                    NEW s \in WaveSteps[v]
             PROVE  transport'[WavePlan[v]][s] = v
  BY DEF WaveHolds
<1>1. WavePlan[v] \in Plans /\ s \in Steps /\ v # None
  BY ConstantShapes, ConstantsDistinct
<1>2. transport[WavePlan[v]][s] = v
  BY DEF IInv, WaveHolds
<1> QED
  BY <1>1, <1>2 DEF Stable

\* A request whose local copy, if still fresh, is the stored plan.
Current(j, doc) == j.pc \in {"observe", "save"} /\ j.fresh => j.snap = doc

\* A worker that moves on without a write and without a send disturbs nobody.
LEMMA GotoFrame ==
    ASSUME IInv, NEW w \in Workers, NEW j \in Jobs, Goto(w, j), UNCHANGED steps,
           Current(j, steps[j.plan]), j.pc # "send"
    PROVE  FreshIsCurrent' /\ NoNewSender
BY DEF IInv, FreshIsCurrent, NoNewSender, Current, Goto, Shape, TypeOK

\* Plan p was rewritten and every other copy of it became stale.
LEMMA AdvanceFrame ==
    ASSUME IInv, NEW p \in Plans, NEW next, steps' = [steps EXCEPT ![p] = next],
           NEW w, NEW j \in Jobs, Advance(p, w, j), j.pc \in {"observe", "save"} => j.plan = p,
           Current(j, next)
    PROVE  FreshIsCurrent' /\ (j.pc # "send" => NoNewSender)
<1>1. ASSUME NEW x \in Workers
      PROVE  /\ x = w => job'[x] = j
             /\ x # w => /\ job'[x].pc = job[x].pc /\ job'[x].plan = job[x].plan
                         /\ job'[x].step = job[x].step /\ job'[x].tx = job[x].tx
                         /\ job'[x].snap = job[x].snap
                         /\ job'[x].fresh => job[x].fresh /\ job[x].plan # p
  <2>1. job[x] \in Jobs
    BY DEF IInv, Shape, TypeOK
  <2> DEFINE b == job[x].fresh /\ job[x].plan # p
  <2>2. job'[x] = IF x = w THEN j ELSE [job[x] EXCEPT !.fresh = b]
    BY DEF Advance
  <2>3. b => job[x].fresh /\ job[x].plan # p
    OBVIOUS
  <2> HIDE DEF b
  <2> QED
    BY <2>1, <2>2, <2>3 DEF Jobs
<1>2. ASSUME NEW x \in Workers, job'[x].pc \in {"observe", "save"}, job'[x].fresh
      PROVE  job'[x].snap = steps'[job'[x].plan]
  <2>1. CASE x = w
    <3>1. job'[x] = j /\ j.plan = p /\ j.snap = next
      BY <1>1, <1>2, <2>1 DEF Current
    <3>2. steps'[p] = next
      BY DEF IInv, Shape, TypeOK
    <3> QED
      BY <3>1, <3>2
  <2>2. CASE x # w
    <3>1. /\ job[x].pc \in {"observe", "save"} /\ job[x].fresh /\ job[x].plan # p
          /\ job'[x].snap = job[x].snap /\ job'[x].plan = job[x].plan
      BY <1>1, <1>2, <2>2
    <3>2. job[x].plan \in Plans
      BY <3>1 DEF IInv, Shape, JobShape
    <3>3. steps'[job[x].plan] = steps[job[x].plan]
      BY <3>1, <3>2 DEF IInv, Shape, TypeOK
    <3> QED
      BY <3>1, <3>3 DEF IInv, FreshIsCurrent
  <2> QED
    BY <2>1, <2>2
<1>3. j.pc # "send" => NoNewSender
  BY <1>1 DEF NoNewSender
<1> QED
  BY <1>2, <1>3 DEF FreshIsCurrent

\* Document st and reservation x agree.
Recorded(st, x) == /\ st.attempt # None => x = st.attempt
                   /\ st.ext # None => x = st.ext
                   /\ ~Bound(st) => st = NewStep

\* If each rewritten step names the executor its transport selects, all steps do.
LEMMA RecordedFrame ==
    ASSUME IInv, NEW p \in Plans, NEW next \in [Steps -> StepDocs],
           steps' = [steps EXCEPT ![p] = next],
           \A s \in Steps : Recorded(next[s], transport'[p][s]),
           \A q \in Plans \ {p} : transport'[q] = transport[q]
    PROVE  BindingRecorded'
<1> SUFFICES ASSUME NEW q \in Plans, NEW s \in Steps
             PROVE  Recorded(steps'[q][s], transport'[q][s])
  BY DEF BindingRecorded, Recorded
<1>1. CASE q = p
  BY <1>1 DEF IInv, Shape, TypeOK
<1>2. CASE q # p
  <2>1. steps'[q] = steps[q] /\ transport'[q] = transport[q]
    BY <1>2 DEF IInv, Shape, TypeOK
  <2> QED
    BY <2>1 DEF IInv, BindingRecorded, Recorded
<1> QED
  BY <1>1, <1>2

-----------------------------------------------------------------------------
(* Each action preserves the rest of the inductive invariant. *)

Rest == FreshIsCurrent /\ BindingRecorded /\ SenderHolds /\ WaveHolds

\* A refresh: only step documents and local states move.
LEMMA SyncRest ==
    ASSUME IInv, NEW w \in Workers, NEW mine \in Jobs, Submits(mine), Sync(w, mine)
    PROVE  Rest'
<1> DEFINE p == mine.plan
           next == Attached(p, transport[p])
           unread == {s \in Steps : Bound(next[s])}
           obs == [s \in Steps |-> IF s \in unread THEN None ELSE next[s]]
           held == [mine EXCEPT !.pc = "observe", !.snap = next, !.fresh = TRUE, !.obs = obs]
           cont == IF unread # {} THEN held ELSE Refreshed(held)
<1>1. p \in Plans /\ transport[p] \in [Steps -> Executors \cup {None}] /\ TypeOK
  BY DEF Submits, IInv, Shape, TypeOK
<1>2. /\ next \in [Steps -> StepDocs]
      /\ \A s \in Steps : /\ next[s].attempt = steps[p][s].attempt
                          /\ \/ next[s] = steps[p][s]
                             \/ /\ transport[p][s] \in Waves /\ steps[p][s].ext = None
                                /\ next[s].ext = transport[p][s]
  BY <1>1, AttachedSteps
<1> HIDE DEF next
<1>3. obs \in [Steps -> StepDocs \cup {None}]
  BY <1>2
<1> HIDE DEF obs
<1>4. held \in Jobs /\ held.pc = "observe" /\ held.plan = p /\ held.snap = next
      /\ held.kind = mine.kind /\ held.step = mine.step /\ held.tx = mine.tx
  BY <1>2, <1>3 DEF Jobs
<1> HIDE DEF held
<1>5. Submits(held)
  BY <1>4 DEF Submits
<1>6. Refreshed(held) \in Jobs /\ Refreshed(held).pc \in {"check", "idle"}
  <2>1. Refreshed(held) \in Jobs
    BY <1>4, <1>5, RefreshedShape
  <2>2. [held EXCEPT !.pc = "check", !.obs = IdleJob.obs, !.left = 0].pc = "check"
        /\ IdleJob.pc = "idle"
    BY <1>4 DEF Jobs, IdleJob
  <2> QED
    BY <2>1, <2>2 DEF Refreshed
<1>7. cont \in Jobs /\ cont.pc # "send" /\ Current(cont, next)
      /\ (cont.pc \in {"observe", "save"} => cont.plan = p)
  BY <1>4, <1>6 DEF Current
<1> HIDE DEF cont
<1>8. \/ /\ steps' = [steps EXCEPT ![p] = next]
         /\ \/ next = steps[p] /\ Goto(w, cont)
            \/ Advance(p, w, cont)
      \/ UNCHANGED steps /\ Goto(w, IdleJob)
  BY Zenon DEF Sync, cont, held, obs, next, Stop
<1>9. UNCHANGED <<created, expired, transport, leased, nonceOwner, idem, active, world, history>>
  BY Zenon DEF Sync
<1>10. FreshIsCurrent' /\ NoNewSender
  <2>1. CASE UNCHANGED steps /\ Goto(w, IdleJob)
    BY <2>1, IdleShape, GotoFrame DEF IdleJob, Current
  <2>2. CASE steps' = [steps EXCEPT ![p] = next] /\ next = steps[p] /\ Goto(w, cont)
    <3>1. steps' = steps
      BY <1>1, <2>2 DEF TypeOK
    <3>2. Current(cont, steps[cont.plan])
      BY <1>7, <2>2 DEF Current
    <3> QED
      BY <1>7, <2>2, <3>1, <3>2, GotoFrame
  <2>3. CASE steps' = [steps EXCEPT ![p] = next] /\ Advance(p, w, cont)
    BY <1>1, <1>7, <2>3, AdvanceFrame
  <2> QED
    BY <1>8, <2>1, <2>2, <2>3
<1>11. BindingRecorded'
  <2>1. ASSUME NEW s \in Steps
        PROVE  Recorded(next[s], transport[p][s])
    <3>1. Recorded(steps[p][s], transport[p][s])
      BY <1>1 DEF IInv, BindingRecorded, Recorded
    <3>2. CASE next[s].ext = transport[p][s] /\ transport[p][s] \in Waves
      <4>1. transport[p][s] # None
        BY <3>2, ConstantsDistinct
      <4>2. next[s].attempt = steps[p][s].attempt
        BY <1>2
      <4> QED
        BY <3>1, <3>2, <4>1, <4>2 DEF Recorded, Bound
    <3> QED
      BY <1>2, <3>1, <3>2
  <2>2. CASE steps' = [steps EXCEPT ![p] = next]
    BY <1>1, <1>2, <1>9, <2>1, <2>2, RecordedFrame
  <2>3. CASE UNCHANGED steps
    BY <1>9, <2>3 DEF IInv, BindingRecorded
  <2> QED
    BY <1>8, <2>2, <2>3
<1>12. Stable
  BY <1>9 DEF Stable
<1> QED
  BY <1>9, <1>10, <1>11, <1>12, SenderFrame, WaveFrame DEF Rest, world, history

\* Steps that write no document and no reservation.
LEMMA QuietRest ==
    ASSUME IInv, UNCHANGED <<steps, transport, nonceOwner, wave, relayed, published>>,
           FreshIsCurrent', NoNewSender
    PROVE  Rest'
<1>1. Stable
  BY DEF Stable
<1>2. BindingRecorded'
  BY DEF IInv, BindingRecorded
<1> QED
  BY <1>1, <1>2, SenderFrame, WaveFrame DEF Rest

\* A finished refresh holds no copy to save.
LEMMA RefreshedPc ==
    ASSUME NEW j \in Jobs
    PROVE  Refreshed(j).pc \in {"check", "idle"}
<1>1. [j EXCEPT !.pc = "check", !.obs = IdleJob.obs, !.left = 0].pc = "check"
  BY DEF Jobs
<1>2. IdleJob.pc = "idle"
  BY DEF IdleJob
<1> QED
  BY <1>1, <1>2 DEF Refreshed

\* Reading the evidence of a step keeps the rest of the invariant.
LEMMA ObserveRest ==
    ASSUME IInv, NEW w \in Workers, NEW s \in Steps, Observe(w, s)
    PROVE  Rest'
<1>1. job[w] \in Jobs /\ JobShape(job[w]) /\ job[w].pc = "observe"
  BY DEF IInv, Shape, TypeOK, Observe
<1>2. job[w].snap[s] \in StepDocs /\ job[w].obs \in [Steps -> StepDocs \cup {None}]
  BY <1>1 DEF Jobs
<1>3. PICK st \in SameBinding(job[w].snap[s]) : Read(w, s, st)
  BY <1>2, ViewsBinding DEF Observe, IInv, Shape
<1> DEFINE j == [job[w] EXCEPT !.obs[s] = st]
           k == [j EXCEPT !.pc = "save"]
<1>4. [job[w].obs EXCEPT ![s] = st] \in [Steps -> StepDocs \cup {None}]
  BY <1>2 DEF SameBinding
<1>5. /\ j \in Jobs /\ j.pc = "observe" /\ j.plan = job[w].plan /\ j.snap = job[w].snap
      /\ j.fresh = job[w].fresh /\ j.kind = job[w].kind /\ j.step = job[w].step /\ j.tx = job[w].tx
  BY <1>1, <1>4 DEF Jobs
<1> HIDE DEF j
<1>6. k \in Jobs /\ k.pc = "save" /\ k.plan = j.plan /\ k.snap = j.snap /\ k.fresh = j.fresh
  BY <1>5 DEF Jobs
<1> HIDE DEF k
<1>7. Current(j, steps[j.plan]) /\ Current(k, steps[k.plan])
  BY <1>1, <1>5, <1>6 DEF Current, IInv, FreshIsCurrent
<1>8. Refreshed(j) \in Jobs /\ Refreshed(j).pc \in {"check", "idle"}
  BY <1>1, <1>5, RefreshedShape, RefreshedPc DEF Submits, JobShape
<1>9. Goto(w, j) \/ Goto(w, k) \/ Goto(w, Refreshed(j))
  BY <1>3, Zenon DEF Read, j, k
<1>10. UNCHANGED <<store, wave, chain, reorgs, history>>
  BY DEF Observe
<1>11. FreshIsCurrent' /\ NoNewSender
  BY <1>5, <1>6, <1>7, <1>8, <1>9, <1>10, GotoFrame DEF Current, store
<1> QED
  BY <1>10, <1>11, QuietRest DEF store, history

\* save and saveExternalExecution write observations of the very steps stored.
LEMMA SaveRest ==
    ASSUME IInv, NEW w \in Workers, Save(w)
    PROVE  Rest'
<1> DEFINE p == job[w].plan
<1>1. /\ job[w] \in Jobs /\ JobShape(job[w]) /\ job[w].pc = "save" /\ p \in Plans
      /\ Submits(job[w]) /\ steps \in [Plans -> [Steps -> StepDocs]]
  BY DEF Save, SaveDirect, SaveExternal, SaveConflict, IInv, Shape, TypeOK, JobShape, Submits
<1>2. ASSUME NEW done \in SUBSET Unsaved(job[w]), NEW next \in [Steps -> StepDocs],
             \A s \in Steps : next[s] = IF s \in done THEN job[w].obs[s] ELSE steps[p][s],
             job[w].fresh, steps' = [steps EXCEPT ![p] = next],
             Advance(p, w, Saved(w, done, next)),
             UNCHANGED <<transport, nonceOwner, world, history>>
      PROVE  Rest'
  <2>1. job[w].snap = steps[p] /\ job[w].snap \in [Steps -> StepDocs]
    BY <1>1, <1>2 DEF IInv, FreshIsCurrent, Jobs
  <2>2. \A s \in Steps : Recorded(next[s], transport'[p][s])
    <3> SUFFICES ASSUME NEW s \in Steps
                 PROVE  Recorded(next[s], transport[p][s])
      BY <1>2
    <3>1. Recorded(steps[p][s], transport[p][s])
      BY <1>1 DEF IInv, BindingRecorded, Recorded
    <3>2. CASE s \in done
      <4>1. job[w].obs[s] \in SameBinding(steps[p][s])
            /\ (~Bound(steps[p][s]) => job[w].obs[s] = steps[p][s])
        BY <1>1, <2>1, <3>2 DEF Unsaved, JobShape
      <4>2. next[s] = job[w].obs[s]
        BY <1>2, <3>2
      <4>3. Recorded(job[w].obs[s], transport[p][s])
        BY <3>1, <4>1 DEF SameBinding, Recorded, Bound
      <4> QED
        BY <4>2, <4>3
    <3>3. CASE s \notin done
      BY <1>2, <3>1, <3>3
    <3> QED
      BY <3>2, <3>3
  <2>3. BindingRecorded'
    BY <1>1, <1>2, <2>2, RecordedFrame
  <2> DEFINE obs == [s \in Steps |-> IF s \in done THEN None ELSE job[w].obs[s]]
             mine == [job[w] EXCEPT !.snap = next, !.obs = obs]
  <2>4. obs \in [Steps -> StepDocs \cup {None}]
    BY <1>1 DEF Jobs
  <2> HIDE DEF obs
  <2>5. mine \in Jobs /\ mine.pc = "save" /\ mine.plan = p /\ mine.snap = next
    BY <1>1, <2>4 DEF Jobs
  <2> HIDE DEF mine
  <2>6. Saved(w, done, next) \in {mine, Refreshed(mine)}
    BY Zenon DEF Saved, mine, obs
  <2>7. Saved(w, done, next) \in Jobs
    <3>1. \A s \in Steps \ done : next[s] = job[w].snap[s]
      BY <1>2, <2>1
    <3> QED
      BY <1>1, <1>2, <3>1, SavedShape DEF IInv, Unsaved
  <2>8. /\ Current(Saved(w, done, next), next) /\ Saved(w, done, next).pc # "send"
        /\ Saved(w, done, next).pc \in {"observe", "save"} => Saved(w, done, next).plan = p
    BY <2>5, <2>6, RefreshedPc DEF Current
  <2>9. FreshIsCurrent' /\ NoNewSender
    BY <1>1, <1>2, <2>7, <2>8, AdvanceFrame
  <2>10. Stable
    BY <1>2 DEF Stable
  <2> QED
    BY <1>2, <2>3, <2>9, <2>10, SenderFrame, WaveFrame DEF Rest, world, history
<1>3. CASE SaveDirect(w)
  <2> DEFINE done == UnsavedDirect(job[w])
             next == [s \in Steps |-> IF s \in done THEN job[w].obs[s] ELSE job[w].snap[s]]
  <2>1. job[w].fresh /\ job[w].snap = steps[p]
    BY <1>1, <1>3 DEF SaveDirect, IInv, FreshIsCurrent
  <2>2. done \in SUBSET Unsaved(job[w]) /\ Unsaved(job[w]) \subseteq Steps
        /\ \A s \in Unsaved(job[w]) : job[w].obs[s] \in StepDocs
    BY <1>1 DEF UnsavedDirect, Unsaved, Jobs
  <2>3. next \in [Steps -> StepDocs]
        /\ \A s \in Steps : next[s] = IF s \in done THEN job[w].obs[s] ELSE steps[p][s]
    BY <1>1, <2>1, <2>2
  <2> HIDE DEF next, done
  <2>4. steps' = [steps EXCEPT ![p] = next] /\ Advance(p, w, Saved(w, done, next))
        /\ UNCHANGED <<transport, nonceOwner, world, history>>
    BY <1>3, Zenon DEF SaveDirect, next, done
  <2> QED
    BY <1>2, <2>1, <2>2, <2>3, <2>4
<1>4. ASSUME NEW v \in Waves, SaveExternal(w, v)
      PROVE  Rest'
  <2> DEFINE done == {s \in Unsaved(job[w]) : job[w].snap[s].ext = v}
             next == [s \in Steps |-> IF s \in done THEN job[w].obs[s] ELSE steps[p][s]]
  <2>1. done \in SUBSET Unsaved(job[w]) /\ Unsaved(job[w]) \subseteq Steps
        /\ \A s \in Unsaved(job[w]) : job[w].obs[s] \in StepDocs
    BY <1>1 DEF Unsaved, Jobs
  <2>2. next \in [Steps -> StepDocs]
        /\ \A s \in Steps : next[s] = IF s \in done THEN job[w].obs[s] ELSE steps[p][s]
    BY <1>1, <2>1
  <2> HIDE DEF next, done
  <2>3. job[w].fresh /\ steps' = [steps EXCEPT ![p] = next] /\ Advance(p, w, Saved(w, done, next))
        /\ UNCHANGED <<transport, nonceOwner, world, history>>
    BY <1>4, Zenon DEF SaveExternal, next, done
  <2> QED
    BY <1>2, <2>1, <2>2, <2>3, Zenon
<1>5. CASE SaveConflict(w)
  <2>1. CASE job[w].left > 0
    <3> DEFINE mine == [job[w] EXCEPT !.left = @ - 1]
    <3>1. mine \in Jobs /\ mine.plan = p /\ mine.kind = job[w].kind /\ mine.step = job[w].step
          /\ mine.tx = job[w].tx
      BY <1>1, <2>1 DEF Jobs
    <3>2. Submits(mine)
      BY <1>1, <3>1 DEF Submits
    <3> HIDE DEF mine
    <3>3. Sync(w, mine)
      BY <1>5, <2>1, Zenon DEF SaveConflict, mine
    <3> QED
      BY <3>1, <3>2, <3>3, SyncRest
  <2>2. CASE ~(job[w].left > 0)
    <3>1. Goto(w, IdleJob) /\ UNCHANGED <<store, world, history>>
      BY <1>5, <2>2 DEF SaveConflict, Stop
    <3>2. IdleJob.pc = "idle"
      BY DEF IdleJob
    <3>3. FreshIsCurrent' /\ NoNewSender
      BY <3>1, <3>2, IdleShape, GotoFrame DEF Current, store
    <3> QED
      BY <3>1, <3>3, QuietRest DEF store, world, history
  <2> QED
    BY <2>1, <2>2
<1> QED
  BY <1>3, <1>4, <1>5 DEF Save

\* A request that only moves on, to a point where it holds no copy of the plan.
LEMMA MoveRest ==
    ASSUME IInv, NEW w \in Workers, NEW j \in Jobs, j.pc \in {"idle", "claim", "settle"}, Goto(w, j),
           UNCHANGED <<steps, transport, nonceOwner, wave, relayed, published>>
    PROVE  Rest'
<1>1. FreshIsCurrent' /\ NoNewSender
  BY GotoFrame DEF Current
<1> QED
  BY <1>1, QuietRest

\* The checks before a claim keep the rest of the invariant.
LEMMA CheckRest ==
    ASSUME IInv, NEW w \in Workers, Check(w)
    PROVE  Rest'
<1>1. job[w] \in Jobs /\ IdleJob.snap \in [Steps -> StepDocs]
  BY SubmitterShape, IdleShape DEF Check, Jobs, IInv
<1>2. ASSUME NEW d \in BOOLEAN
      PROVE  ToClaim(job[w], d) \in Jobs /\ ToClaim(job[w], d).pc = "claim"
  BY <1>1 DEF ToClaim, Jobs
<1>3. \/ Goto(w, ToClaim(job[w], FALSE)) \/ Goto(w, ToClaim(job[w], TRUE)) \/ Goto(w, IdleJob)
  BY Zenon DEF Check, Stop
<1>4. UNCHANGED <<store, world, history>>
  BY Zenon DEF Check
<1>5. IdleJob \in Jobs /\ IdleJob.pc = "idle"
  BY IdleShape DEF IdleJob
<1> QED
  BY <1>2, <1>3, <1>4, <1>5, MoveRest DEF store, world, history

=============================================================================
