----------------------- MODULE TransactionPlansShape ------------------------
(* Every action keeps the types and the shape of each request. *)
EXTENDS TransactionPlansViews

\* Reading one step.
LEMMA ObserveShape ==
    ASSUME Shape, NEW w \in Workers, NEW s \in Steps, Observe(w, s)
    PROVE  Shape'
<1>1. job[w] \in Jobs /\ JobShape(job[w]) /\ job[w].pc = "observe" /\ job[w].obs[s] = None
  BY DEF Shape, TypeOK, Observe
<1>2. job[w].snap[s] \in StepDocs /\ job[w].snap \in [Steps -> StepDocs]
      /\ job[w].obs \in [Steps -> StepDocs \cup {None}]
  BY <1>1 DEF Jobs
<1>3. PICK st \in SameBinding(job[w].snap[s]) : Read(w, s, st)
  BY <1>2, ViewsBinding DEF Observe, Shape
<1> DEFINE obs == [job[w].obs EXCEPT ![s] = st]
           j == [job[w] EXCEPT !.obs = obs]
<1>4. st \in StepDocs
  BY DEF SameBinding
<1>5. obs \in [Steps -> StepDocs \cup {None}]
  BY <1>2, <1>4
<1>6. /\ j \in Jobs /\ j.pc = "observe" /\ j.kind = job[w].kind /\ j.plan = job[w].plan
      /\ j.step = job[w].step /\ j.tx = job[w].tx /\ j.snap = job[w].snap /\ j.obs = obs
  BY <1>1, <1>5 DEF Jobs
<1>7. \A r \in Steps : obs[r] = IF r = s THEN st ELSE job[w].obs[r]
  BY <1>2
<1> HIDE DEF obs, j
<1>8. Bound(job[w].snap[s])
  BY <1>1 DEF JobShape
<1>9. \A r \in Steps : /\ obs[r] # None => obs[r] \in SameBinding(j.snap[r])
                       /\ obs[r] # None /\ ~Bound(j.snap[r]) => obs[r] = j.snap[r]
                       /\ obs[r] = None => Bound(j.snap[r])
  BY <1>1, <1>3, <1>6, <1>7, <1>8 DEF JobShape
<1>10. JobShape(j) /\ Submits(j)
  BY <1>1, <1>6, <1>9 DEF JobShape, Submits
<1> DEFINE k == [j EXCEPT !.pc = "save"]
<1>11. /\ k \in Jobs /\ k.pc = "save" /\ k.kind = j.kind /\ k.plan = j.plan
       /\ k.step = j.step /\ k.tx = j.tx /\ k.snap = j.snap /\ k.obs = j.obs
  BY <1>6 DEF Jobs
<1> HIDE DEF k
<1>12. JobShape(k)
  BY <1>6, <1>9, <1>10, <1>11 DEF JobShape, Submits
<1>13. Goto(w, j) \/ Goto(w, k) \/ Goto(w, Refreshed(j))
  BY <1>3, Zenon DEF Read, j, k, obs
<1>14. job' \in [Workers -> Jobs] /\ \A x \in Workers : JobShape(job'[x])
  BY <1>6, <1>10, <1>11, <1>12, <1>13, GotoShape, RefreshedShape
<1>15. UNCHANGED <<store, wave, chain, reorgs, history>> /\ faults' \in Nat
  <2>1. faults \in Nat
    BY DEF Shape, TypeOK
  <2> QED
    BY <2>1 DEF Observe
<1> QED
  BY <1>14, <1>15 DEF Shape, TypeOK, store, history

\* After a save the request holds what it wrote, and goes on.
LEMMA SavedShape ==
    ASSUME Shape, NEW w \in Workers, job[w].pc = "save",
           NEW done \in SUBSET Steps, NEW next \in [Steps -> StepDocs],
           \A s \in Steps \ done : next[s] = job[w].snap[s]
    PROVE  Saved(w, done, next) \in Jobs /\ JobShape(Saved(w, done, next))
<1> DEFINE obs == [s \in Steps |-> IF s \in done THEN None ELSE job[w].obs[s]]
           mine == [job[w] EXCEPT !.snap = next, !.obs = obs]
<1>1. job[w] \in Jobs /\ JobShape(job[w])
  BY DEF Shape, TypeOK
<1>2. obs \in [Steps -> StepDocs \cup {None}]
  BY <1>1 DEF Jobs
<1>3. \A s \in Steps : obs[s] = IF s \in done THEN None ELSE job[w].obs[s]
  OBVIOUS
<1> HIDE DEF obs
<1>4. /\ mine \in Jobs /\ mine.pc = "save" /\ mine.kind = job[w].kind /\ mine.plan = job[w].plan
      /\ mine.step = job[w].step /\ mine.tx = job[w].tx /\ mine.snap = next /\ mine.obs = obs
  BY <1>1, <1>2 DEF Jobs
<1> HIDE DEF mine
<1>5. JobShape(mine) /\ Submits(mine)
  BY <1>1, <1>3, <1>4 DEF JobShape, Submits
<1>6. Saved(w, done, next) \in {mine, Refreshed(mine)}
  BY Zenon DEF Saved, mine, obs
<1> QED
  BY <1>4, <1>5, <1>6, RefreshedShape

\* The three ways to end a save.
LEMMA SaveShape ==
    ASSUME Shape, FreshIsCurrent, NEW w \in Workers, Save(w)
    PROVE  Shape'
<1> DEFINE p == job[w].plan
<1>1. /\ job[w] \in Jobs /\ JobShape(job[w]) /\ job[w].pc = "save" /\ p \in Plans /\ Submits(job[w])
      /\ steps \in [Plans -> [Steps -> StepDocs]]
  BY DEF Save, SaveDirect, SaveExternal, SaveConflict, Shape, TypeOK, JobShape, Submits
<1>2. /\ job[w].snap \in [Steps -> StepDocs]
      /\ \A s \in Unsaved(job[w]) : job[w].obs[s] \in StepDocs
      /\ Unsaved(job[w]) \subseteq Steps
  BY <1>1 DEF Jobs, Unsaved
<1>3. CASE SaveDirect(w)
  <2> DEFINE next == [s \in Steps |-> IF s \in UnsavedDirect(job[w]) THEN job[w].obs[s]
                                      ELSE job[w].snap[s]]
             mine == Saved(w, UnsavedDirect(job[w]), next)
  <2>1. next \in [Steps -> StepDocs] /\ UnsavedDirect(job[w]) \in SUBSET Steps
    BY <1>2 DEF UnsavedDirect
  <2>2. mine \in Jobs /\ JobShape(mine)
    BY <1>1, <2>1, SavedShape
  <2> HIDE DEF next, mine
  <2>3. steps' = [steps EXCEPT ![p] = next] /\ Advance(p, w, mine)
    BY <1>3, Zenon DEF SaveDirect, next, mine
  <2>4. UNCHANGED <<created, expired, transport, leased, nonceOwner, idem, active, world, history>>
    BY <1>3, Zenon DEF SaveDirect
  <2> QED
    BY <1>1, <2>1, <2>2, <2>3, <2>4, AdvanceShape DEF Shape, TypeOK, world, history
<1>4. ASSUME NEW v \in Waves, SaveExternal(w, v)
      PROVE  Shape'
  <2> DEFINE done == {s \in Unsaved(job[w]) : job[w].snap[s].ext = v}
             next == [s \in Steps |-> IF s \in done THEN job[w].obs[s] ELSE steps[p][s]]
             mine == Saved(w, done, next)
  <2>1. next \in [Steps -> StepDocs] /\ done \in SUBSET Steps
    BY <1>1, <1>2
  <2>2. job[w].snap = steps[p]
    BY <1>1, <1>4 DEF SaveExternal, FreshIsCurrent
  <2>3. mine \in Jobs /\ JobShape(mine)
    BY <1>1, <2>1, <2>2, SavedShape
  <2> HIDE DEF next, mine, done
  <2>4. steps' = [steps EXCEPT ![p] = next] /\ Advance(p, w, mine)
    BY <1>4, Zenon DEF SaveExternal, next, mine, done
  <2>5. UNCHANGED <<created, expired, transport, leased, nonceOwner, idem, active, world, history>>
    BY <1>4, Zenon DEF SaveExternal
  <2> QED
    BY <1>1, <2>1, <2>3, <2>4, <2>5, AdvanceShape DEF Shape, TypeOK, world, history
<1>5. CASE SaveConflict(w)
  <2>1. CASE job[w].left > 0
    <3> DEFINE mine == [job[w] EXCEPT !.left = @ - 1]
    <3>1. mine \in Jobs /\ mine.plan = p /\ mine.kind = job[w].kind /\ mine.step = job[w].step
          /\ mine.tx = job[w].tx
      BY <1>1, <2>1 DEF Jobs
    <3>2. Submits(mine)
      BY <1>1, <3>1 DEF Submits
    <3> HIDE DEF mine
    <3>3. Sync(w, mine)
      BY <1>5, <2>1, Zenon DEF SaveConflict, mine
    <3> QED
      BY <3>1, <3>2, <3>3, SyncShape
  <2>2. CASE ~(job[w].left > 0)
    BY <1>5, <2>2, IdleShape, GotoShape
       DEF SaveConflict, Stop, Shape, TypeOK, store, world, history
  <2> QED
    BY <2>1, <2>2
<1> QED
  BY <1>3, <1>4, <1>5 DEF Save

\* A request past its refresh names a plan, a step and a transaction.
LEMMA SubmitterShape ==
    ASSUME Shape, NEW w \in Workers, job[w].pc \in {"check", "claim", "send", "settle"}
    PROVE  /\ job[w] \in Jobs /\ JobShape(job[w]) /\ job[w].kind = "submit"
           /\ job[w].plan \in Plans /\ job[w].step \in Steps /\ job[w].tx \in Txs
           /\ SlotOf[job[w].tx] \in Slots
           /\ steps[job[w].plan][job[w].step] \in StepDocs
<1>1. job[w] \in Jobs /\ JobShape(job[w]) /\ steps \in [Plans -> [Steps -> StepDocs]]
  BY DEF Shape, TypeOK
<1>2. /\ job[w].kind = "submit" /\ job[w].plan \in Plans
      /\ job[w].step \in Steps /\ job[w].tx \in Txs
  BY <1>1 DEF JobShape
<1> QED
  BY <1>1, <1>2, ConstantShapes

\* The checks before the claim.
LEMMA CheckShape ==
    ASSUME Shape, NEW w \in Workers, Check(w)
    PROVE  Shape'
<1>1. /\ job[w] \in Jobs /\ job[w].kind = "submit"
      /\ job[w].plan \in Plans /\ job[w].step \in Steps /\ job[w].tx \in Txs
  BY SubmitterShape DEF Check
<1>2. ASSUME NEW d \in BOOLEAN
      PROVE  ToClaim(job[w], d) \in Jobs /\ JobShape(ToClaim(job[w], d))
  <2>1. IdleJob.snap \in [Steps -> StepDocs]
    BY IdleShape DEF Jobs
  <2>2. LET k == ToClaim(job[w], d)
        IN  /\ k \in Jobs /\ k.pc = "claim" /\ k.kind = "submit"
            /\ k.plan = job[w].plan /\ k.step = job[w].step /\ k.tx = job[w].tx
    BY <1>1, <2>1 DEF ToClaim, Jobs
  <2> QED
    BY <1>1, <2>2 DEF JobShape
<1>3. \/ Goto(w, ToClaim(job[w], FALSE)) \/ Goto(w, ToClaim(job[w], TRUE)) \/ Goto(w, IdleJob)
  BY Zenon DEF Check, Stop
<1>4. UNCHANGED <<store, world, history>>
  BY Zenon DEF Check
<1> QED
  BY <1>2, <1>3, <1>4, GotoShape, IdleShape DEF Shape, TypeOK, store, world, history

\* The reservations a claim commits keep their shape.
LEMMA ReserveShape ==
    ASSUME Shape, NEW j \in Jobs, Reserve(j),
           j.plan \in Plans, j.step \in Steps, j.tx \in Txs
    PROVE  /\ transport' \in [Plans -> [Steps -> Executors \cup {None}]]
           /\ nonceOwner' \in [Slots -> (Plans \X Steps \X Txs) \cup {None}]
           /\ idem' \in [Keys -> Claims \cup {None}]
<1>1. transport' \in [Plans -> [Steps -> Executors \cup {None}]]
  <2>1. transport[j.plan] \in [Steps -> Executors \cup {None}]
    BY DEF Shape, TypeOK
  <2>2. [transport[j.plan] EXCEPT ![j.step] = j.tx] \in [Steps -> Executors \cup {None}]
    BY <2>1 DEF Executors
  <2> QED
    BY <2>2 DEF Reserve, Shape, TypeOK
<1>2. nonceOwner' \in [Slots -> (Plans \X Steps \X Txs) \cup {None}]
  BY DEF Reserve, Shape, TypeOK
<1>3. idem' \in [Keys -> Claims \cup {None}]
  BY DEF Reserve, ReserveKey, Outcome, Claims, Shape, TypeOK
<1> QED
  BY <1>1, <1>2, <1>3

\* One stored step is replaced by another document.
LEMMA StepUpdateShape ==
    ASSUME Shape, NEW p \in Plans, NEW s \in Steps, NEW st \in StepDocs,
           steps' = [steps EXCEPT ![p][s] = st]
    PROVE  steps' \in [Plans -> [Steps -> StepDocs]]
<1>1. [steps[p] EXCEPT ![s] = st] \in [Steps -> StepDocs]
  BY DEF Shape, TypeOK
<1> QED
  BY <1>1 DEF Shape, TypeOK

\* A dispatch claim's document and the claiming request's next local state.
LEMMA DispatchedType ==
    ASSUME NEW st \in StepDocs, NEW t \in Txs, NEW j \in Jobs
    PROVE  /\ [st EXCEPT !.state = "reserved", !.attempt = t, !.token = @ + 1] \in StepDocs
           /\ LET k == [j EXCEPT !.pc = "send", !.token = st.token + 1, !.fresh = FALSE]
              IN  /\ k \in Jobs /\ k.pc = "send" /\ k.kind = j.kind /\ k.plan = j.plan
                  /\ k.step = j.step /\ k.tx = j.tx
<1>1. st.token + 1 \in Nat
  BY DEF StepDocs
<1>2. [st EXCEPT !.state = "reserved", !.attempt = t, !.token = @ + 1] \in StepDocs
  BY <1>1 DEF StepDocs, StepStates
<1> DEFINE n == st.token + 1
<1> HIDE DEF n
<1>3. LET k == [j EXCEPT !.pc = "send", !.token = n, !.fresh = FALSE]
      IN  /\ k \in Jobs /\ k.pc = "send" /\ k.kind = j.kind /\ k.plan = j.plan
          /\ k.step = j.step /\ k.tx = j.tx
  BY <1>1 DEF Jobs, n
<1> QED
  BY <1>2, <1>3 DEF n

\* claimSubmission.
LEMMA ClaimShape ==
    ASSUME Shape, NEW w \in Workers, Claim(w)
    PROVE  Shape'
<1> DEFINE j == job[w]
           st == steps[j.plan][j.step]
<1>1. /\ j \in Jobs /\ JobShape(j) /\ j.kind = "submit" /\ st \in StepDocs
      /\ j.plan \in Plans /\ j.step \in Steps /\ j.tx \in Txs
  BY SubmitterShape DEF Claim, ClaimKnown, ClaimRepeat, ClaimDispatch, ClaimRefused
<1>2. CASE ClaimKnown(w)
  <2> DEFINE new == [NewStep EXCEPT !.state = "submitted", !.attempt = j.tx]
  <2>1. new \in StepDocs
    BY <1>1, NewStepType DEF StepDocs, StepStates
  <2> HIDE DEF new
  <2>2. Reserve(j) /\ Advance(j.plan, w, IdleJob) /\ steps' = [steps EXCEPT ![j.plan][j.step] = new]
        /\ UNCHANGED <<created, expired, leased, active, world, history>>
    BY <1>2, Zenon DEF ClaimKnown, new
  <2> QED
    BY <1>1, <2>1, <2>2, ReserveShape, StepUpdateShape, AdvanceShape, IdleShape
       DEF Shape, TypeOK, world, history
<1>3. CASE ClaimRepeat(w)
  <2>1. Reserve(j) /\ Goto(w, IdleJob)
        /\ UNCHANGED <<created, steps, expired, leased, active, world, history>>
    BY <1>3, Zenon DEF ClaimRepeat, Stop
  <2> QED
    BY <1>1, <2>1, ReserveShape, GotoShape, IdleShape DEF Shape, TypeOK, world, history
<1>4. CASE ClaimDispatch(w)
  <2> DEFINE new == [st EXCEPT !.state = "reserved", !.attempt = j.tx, !.token = @ + 1]
             k == [j EXCEPT !.pc = "send", !.token = st.token + 1, !.fresh = FALSE]
  <2>1. new \in StepDocs
    BY <1>1, DispatchedType
  <2>2. k \in Jobs /\ k.pc = "send" /\ k.kind = "submit" /\ k.plan = j.plan /\ k.step = j.step
        /\ k.tx = j.tx
    BY <1>1, DispatchedType, ZenonT(120)
  <2> HIDE DEF new, k
  <2>3. JobShape(k)
    BY <1>1, <2>2 DEF JobShape
  <2>4. Reserve(j) /\ Advance(j.plan, w, k) /\ steps' = [steps EXCEPT ![j.plan][j.step] = new]
        /\ leased' = leased \cup {<<j.plan, j.step>>}
        /\ UNCHANGED <<created, expired, active, world, history>>
    BY <1>4, Zenon DEF ClaimDispatch, new, k
  <2>5. leased' \subseteq Plans \X Steps
    <3>1. leased \subseteq Plans \X Steps
      BY DEF Shape, TypeOK
    <3> QED
      BY <1>1, <2>4, <3>1
  <2> QED
    BY <1>1, <2>1, <2>2, <2>3, <2>4, <2>5, ReserveShape, StepUpdateShape, AdvanceShape
       DEF Shape, TypeOK, world, history
<1>5. CASE ClaimRefused(w)
  BY <1>5, GotoShape, IdleShape DEF ClaimRefused, Stop, Shape, TypeOK, store, world, history
<1> QED
  BY <1>2, <1>3, <1>4, <1>5 DEF Claim

\* Sending, settling and crashing.
LEMMA SendShape ==
    ASSUME Shape, NEW w \in Workers, Send(w)
    PROVE  Shape'
<1> DEFINE j == job[w]
<1>1. /\ j \in Jobs /\ j.kind = "submit" /\ j.plan \in Plans /\ j.step \in Steps /\ j.tx \in Txs
  BY SubmitterShape DEF Send
<1>2. ASSUME NEW ok \in BOOLEAN
      PROVE  LET k == [j EXCEPT !.pc = "settle", !.sent = ok] IN k \in Jobs /\ JobShape(k)
  <2>1. LET k == [j EXCEPT !.pc = "settle", !.sent = ok]
        IN  /\ k \in Jobs /\ k.pc = "settle" /\ k.kind = "submit" /\ k.plan = j.plan
            /\ k.step = j.step /\ k.tx = j.tx
    BY <1>1 DEF Jobs
  <2> QED
    BY <1>1, <2>1 DEF JobShape
<1>3. /\ Goto(w, [j EXCEPT !.pc = "settle", !.sent = TRUE])
         \/ Goto(w, [j EXCEPT !.pc = "settle", !.sent = FALSE])
      /\ chain' = [chain EXCEPT ![j.tx].where = "pooled"] \/ UNCHANGED chain
      /\ faults' = faults + 1 \/ UNCHANGED faults
      /\ relayed' = relayed \cup {<<j.plan, j.step, j.tx>>}
      /\ UNCHANGED <<store, wave, reorgs, published, deepened>>
  BY Zenon DEF Send
<1>4. job' \in [Workers -> Jobs] /\ \A x \in Workers : JobShape(job'[x])
  BY <1>2, <1>3, GotoShape
<1>5. chain' \in [AllTxs -> [where : {"absent", "pooled", "mined"}, ok : BOOLEAN,
                             deep : BOOLEAN, block : Nat]]
  BY <1>1, <1>3 DEF Shape, TypeOK, AllTxs
<1> QED
  BY <1>1, <1>3, <1>4, <1>5 DEF Shape, TypeOK, store

\* settleSubmission stores a state that step documents may have.
LEMMA SettleShape ==
    ASSUME Shape, NEW w \in Workers, Settle(w)
    PROVE  Shape'
<1> DEFINE j == job[w]
           st == steps[j.plan][j.step]
           new == [st EXCEPT !.state = SettledState(st, j.sent)]
<1>1. /\ j \in Jobs /\ st \in StepDocs /\ j.plan \in Plans /\ j.step \in Steps
      /\ steps \in [Plans -> [Steps -> StepDocs]]
  BY SubmitterShape DEF Settle, Shape, TypeOK
<1>2. SettledState(st, j.sent) \in StepStates
  BY <1>1 DEF SettledState, StepDocs, StepStates
<1>3. new \in StepDocs
  BY <1>1, <1>2 DEF StepDocs
<1>4. \/ steps' = [steps EXCEPT ![j.plan][j.step] = new] /\ Advance(j.plan, w, IdleJob)
      \/ UNCHANGED steps /\ Goto(w, IdleJob)
  BY <1>1 DEF Settle, Stop
<1>5. UNCHANGED <<created, expired, transport, leased, nonceOwner, idem, active, world, history>>
  BY Zenon DEF Settle
<1> HIDE DEF new
<1>6. steps' \in [Plans -> [Steps -> StepDocs]]
  BY <1>1, <1>3, <1>4, StepUpdateShape
<1>7. job' \in [Workers -> Jobs] /\ \A x \in Workers : JobShape(job'[x])
  BY <1>4, AdvanceShape, GotoShape, IdleShape
<1> QED
  BY <1>5, <1>6, <1>7 DEF Shape, TypeOK, world, history

\* Everything that leaves the requests alone: plans and time, the chain.
LEMMA PassingShape ==
    ASSUME Shape, \/ \E p \in Plans, k \in Keys \cup {None} : CreatePlan(p, k)
                  \/ \E w \in Workers : Crash(w)
                  \/ Passing
    PROVE  Shape'
<1>1. ASSUME NEW p \in Plans, NEW k \in Keys \cup {None}, CreatePlan(p, k)
      PROVE  Shape'
  <2>1. idem' \in [Keys -> Claims \cup {None}]
    BY <1>1 DEF CreatePlan, ReserveKey, Outcome, Claims, Shape, TypeOK
  <2> QED
    BY <1>1, <2>1 DEF CreatePlan, Shape, TypeOK, world, history
<1>2. ASSUME NEW w \in Workers, Crash(w)
      PROVE  Shape'
  BY <1>2, GotoShape, IdleShape DEF Crash, Stop, Shape, TypeOK, store, history
<1>3. CASE Passing
  BY <1>3 DEF Passing, PlanExpires, LeaseExpires, Revoke, Shape, TypeOK, world, history
<1> QED
  BY <1>1, <1>2, <1>3

\* The chain keeps the type of its transactions, and writes nothing else.
LEMMA ChainShape ==
    ASSUME Shape, ChainStep
    PROVE  Shape'
<1> DEFINE Blocks == [where : {"absent", "pooled", "mined"}, ok : BOOLEAN, deep : BOOLEAN,
                      block : Nat]
<1>1. chain \in [AllTxs -> Blocks] /\ Txs \subseteq AllTxs /\ Outers \subseteq AllTxs
      /\ reorgs \in Nat /\ Results \subseteq BOOLEAN
  BY ConstantShapes DEF Shape, TypeOK, AllTxs
<1>3. chain' \in [AllTxs -> Blocks]
  <2>1. ASSUME NEW t \in AllTxs, Mine(t)
        PROVE  chain' \in [AllTxs -> Blocks]
    <3>1. PICK ok \in Results : chain' = [chain EXCEPT ![t] =
              [where |-> "mined", ok |-> ok, deep |-> FALSE, block |-> reorgs]]
      BY <2>1 DEF Mine
    <3> QED
      BY <1>1, <3>1
  <2>2. ASSUME NEW t \in AllTxs, Deepens(t) \/ Dropped(t)
        PROVE  chain' \in [AllTxs -> Blocks]
    <3>1. [chain[t] EXCEPT !.deep = TRUE] \in Blocks /\ [chain[t] EXCEPT !.where = "absent"] \in Blocks
      BY <1>1
    <3>2. \/ chain' = [chain EXCEPT ![t] = [chain[t] EXCEPT !.deep = TRUE]]
          \/ chain' = [chain EXCEPT ![t] = [chain[t] EXCEPT !.where = "absent"]]
      BY <2>2 DEF Deepens, Dropped
    <3> HIDE DEF Blocks
    <3> QED
      BY <1>1, <3>1, <3>2
  <2>3. ASSUME NEW t \in AllTxs, Reorg(t)
        PROVE  chain' \in [AllTxs -> Blocks]
    BY <1>1, <2>3 DEF Reorg
  <2>4. ASSUME NEW t \in AllTxs, OwnerBroadcasts(t) \/ ProviderSends(t)
        PROVE  chain' \in [AllTxs -> Blocks]
    BY <1>1, <2>4 DEF OwnerBroadcasts, ProviderSends
  <2> QED
    BY <1>1, <2>1, <2>2, <2>3, <2>4 DEF ChainStep
<1>4. deepened' \subseteq Receipts
  BY ReceiptType DEF ChainStep, Mine, Deepens, Reorg, Dropped, OwnerBroadcasts, ProviderSends,
                     Shape, TypeOK, history
<1>5. reorgs' \in Nat
  BY <1>1 DEF ChainStep, Mine, Deepens, Reorg, Dropped, OwnerBroadcasts, ProviderSends
<1>6. UNCHANGED <<store, wave, faults, job, relayed, published>>
  BY DEF ChainStep, Mine, Deepens, Reorg, Dropped, OwnerBroadcasts, ProviderSends, history
<1> QED
  BY <1>3, <1>4, <1>5, <1>6 DEF Shape, TypeOK, store

\* A step of a Relayr wave or of an operation keeps the types.
LEMMA WaveShape ==
    ASSUME Shape, NEW v \in Waves, WaveStep(v)
    PROVE  Shape'
<1>1. wave' \in [Waves -> WaveStates]
  BY DEF WaveStep, WaveCheck, WaveClaim, WaveRefused, WaveTag, WavePublish, WaveAbandoned,
         WaveLapses, SetWave, WaveStates, Shape, TypeOK
<1>2. CASE WaveClaim(v)
  <2>1. WavePlan[v] \in Plans /\ v \in Executors
    BY ConstantShapes DEF Executors
  <2>2. transport' \in [Plans -> [Steps -> Executors \cup {None}]]
    BY <1>2, <2>1 DEF WaveClaim, Shape, TypeOK
  <2> QED
    BY <1>1, <1>2, <2>2 DEF WaveClaim, Shape, TypeOK, history
<1>3. CASE WaveTag(v)
  <2> DEFINE p == WavePlan[v]
             next == Attached(p, WaveRows(v))
  <2>1. p \in Plans /\ WaveRows(v) \in [Steps -> Executors \cup {None}]
    BY ConstantShapes DEF WaveRows, Executors
  <2>2. next \in [Steps -> StepDocs]
    BY <2>1, AttachedSteps DEF Shape
  <2> HIDE DEF next
  <2>3. /\ steps' = [steps EXCEPT ![p] = next] \/ UNCHANGED steps
        /\ UNCHANGED job \/ Advance(p, None, IdleJob)
        /\ UNCHANGED <<created, expired, transport, leased, nonceOwner, idem, active,
                       chain, reorgs, faults, history>>
    BY <1>3, Zenon DEF WaveTag, next
  <2>4. steps' \in [Plans -> [Steps -> StepDocs]]
    BY <2>1, <2>2, <2>3 DEF Shape, TypeOK
  <2>5. job' \in [Workers -> Jobs] /\ \A x \in Workers : JobShape(job'[x])
    BY <2>3, AdvanceShape, IdleShape DEF Shape, TypeOK
  <2> QED
    BY <1>1, <2>3, <2>4, <2>5 DEF Shape, TypeOK, history
<1>4. CASE \/ WaveCheck(v) \/ WaveRefused(v) \/ WavePublish(v) \/ WaveAbandoned(v) \/ WaveLapses(v)
  <2>1. /\ UNCHANGED <<store, chain, reorgs, job, relayed, deepened>>
        /\ published' \in {published, published \cup {v}} /\ faults' \in {faults, faults + 1}
    BY <1>4 DEF WaveCheck, WaveRefused, WavePublish, WaveAbandoned, WaveLapses, history
  <2> QED
    BY <1>1, <2>1 DEF Shape, TypeOK, store
<1> QED
  BY <1>2, <1>3, <1>4 DEF WaveStep

\* Together: every step keeps the shape of the state and of each request.
LEMMA NextShape ==
    ASSUME Shape, FreshIsCurrent, [Next]_vars
    PROVE  Shape'
<1>1. ASSUME NEW w \in Workers, Work(w)
      PROVE  Shape'
  BY <1>1, ObserveShape, SaveShape, CheckShape, ClaimShape, SendShape, SettleShape DEF Work
<1>2. CASE UNCHANGED vars
  BY <1>2 DEF vars, store, world, history, Shape, TypeOK
<1> QED
  BY <1>1, <1>2, ArrivalShape, PassingShape, WaveShape, ChainShape DEF Next

\* The empty journal has the shape.
LEMMA InitShape == Init => Shape
<1> SUFFICES ASSUME Init
             PROVE  Shape
  OBVIOUS
<1>1. TypeOK
  BY NewStepType, IdleShape DEF Init, TypeOK, WaveStates
<1> QED
  BY <1>1, IdleShape DEF Init, Shape

=============================================================================
