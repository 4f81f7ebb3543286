----------------------- MODULE TransactionPlansViews ------------------------
(* What a request observes of a step, and what it holds when it arrives. First *)
(* part of the proofs about TransactionPlans, which hold for every set of      *)
(* plans, steps, executors, requests and keys.                                 *)
EXTENDS TransactionPlans, TLAPS

-----------------------------------------------------------------------------
(* Observing a step yields step documents with the step's own binding. *)

\* What observeReceipt returns is a receipt.
LEMMA ReceiptType ==
    ASSUME TypeOK, NEW t \in AllTxs
    PROVE  Receipt(t) \in Receipts
BY DEF Receipt, Receipts, TypeOK

\* The states and verdicts the reconciliation names are declared ones.
LEMMA NamedStates ==
    /\ {"waiting", "reserved", "submitted", "unknown", "confirming", "confirmed", "reverted",
        "reorged"} \subseteq StepStates
    /\ Verdicts \cup {"none", "ok", "failed", "unknown"} \subseteq Semantics
BY ConstantShapes DEF StepStates, Semantics

\* A new state and a new verdict leave the binding alone.
LEMMA Restated ==
    ASSUME NEW old, NEW st \in SameBinding(old), NEW a \in StepStates, NEW b \in Semantics
    PROVE  [st EXCEPT !.state = a, !.semantic = b] \in SameBinding(old)
BY DEF SameBinding, StepDocs

\* So does a new receipt.
LEMMA Rereceipted ==
    ASSUME NEW old, NEW st \in SameBinding(old), NEW r \in Receipts \cup {None}
    PROVE  [st EXCEPT !.receipt = r] \in SameBinding(old)
BY DEF SameBinding, StepDocs

\* Reconciling a step with one of its transactions.
LEMMA ReconciledBinding ==
    ASSUME TypeOK, NEW old, NEW st \in SameBinding(old), NEW t \in AllTxs
    PROVE  Reconciled(st, t) \subseteq SameBinding(old)
<1> DEFINE seen == [st EXCEPT !.receipt = Receipt(t)]
<1>1. seen \in SameBinding(old)
  BY ReceiptType, Rereceipted
<1> HIDE DEF seen
<1>2. SUFFICES ASSUME NEW x \in Reconciled(st, t)
               PROVE  x \in SameBinding(old)
  OBVIOUS
<1>3. PICK a \in StepStates, b \in Semantics : x = [seen EXCEPT !.state = a, !.semantic = b]
  BY <1>2, NamedStates, Zenon DEF Reconciled, seen
<1>4. [seen EXCEPT !.state = a, !.semantic = b] \in SameBinding(old)
  BY <1>1, Restated
<1> QED
  BY <1>3, <1>4, Zenon

\* A reorged step.
LEMMA OrphanedBinding ==
    ASSUME NEW old, NEW st \in SameBinding(old), st.receipt # None
    PROVE  Orphaned(st) \in SameBinding(old)
<1>1. [st.receipt EXCEPT !.canonical = FALSE] \in Receipts
  BY DEF SameBinding, StepDocs, Receipts
<1> QED
  BY <1>1 DEF Orphaned, SameBinding, StepDocs, StepStates, Semantics

\* refreshStep.
LEMMA RefreshStepBinding ==
    ASSUME TypeOK, NEW st \in StepDocs
    PROVE  RefreshStep(st) \subseteq SameBinding(st)
<1>1. st \in SameBinding(st)
  BY DEF SameBinding
<1>2. st.attempt # None => st.attempt \in AllTxs
  BY DEF StepDocs, AllTxs
<1> QED
  BY <1>1, <1>2, ReconciledBinding, OrphanedBinding DEF RefreshStep

\* The observed hash is not part of the binding.
LEMMA RebasedBinding ==
    ASSUME NEW st \in StepDocs, NEW t \in Outers \cup {None}
    PROVE  Rebased(st, t) \in SameBinding(st)
BY DEF Rebased, StepDocs, SameBinding

\* An inner execution that failed or could not be proved.
LEMMA UnprovenBinding ==
    ASSUME TypeOK, NEW old, NEW st \in SameBinding(old), NEW t \in AllTxs
    PROVE  Unproven(st, t) \subseteq SameBinding(old)
<1>1. SUFFICES ASSUME NEW x \in Unproven(st, t)
               PROVE  x \in SameBinding(old)
  OBVIOUS
<1>2. PICK v \in Verdicts : x = [st EXCEPT !.receipt = Receipt(t), !.semantic = v,
                                    !.state = IF v = "failed" THEN "reverted" ELSE "unknown"]
  BY <1>1 DEF Unproven
<1>3. v \in Semantics /\ Receipt(t) \in Receipts
  BY NamedStates, ReceiptType
<1> QED
  BY <1>2, <1>3 DEF SameBinding, StepDocs, StepStates

\* A kept result.
LEMMA KeptBinding ==
    ASSUME TypeOK, NEW st \in StepDocs, st.hash # None
    PROVE  Kept(st) \subseteq SameBinding(st)
<1>1. SUFFICES ASSUME NEW x \in Kept(st)
               PROVE  x \in SameBinding(st)
  OBVIOUS
<1>2. Rejudged(st) \subseteq Semantics
  BY NamedStates DEF StepDocs, Rejudged
<1>3. PICK v \in Rejudged(st) :
         x = [st EXCEPT !.state = IF chain[st.hash].deep THEN "confirmed" ELSE "confirming",
                        !.receipt = Receipt(st.hash), !.semantic = v]
  BY <1>1 DEF Kept
<1>4. Receipt(st.hash) \in Receipts
  BY ReceiptType DEF StepDocs, AllTxs
<1> QED
  BY <1>2, <1>3, <1>4 DEF SameBinding, StepDocs, StepStates

\* A torn read.
LEMMA TornBinding ==
    ASSUME TypeOK, NEW old, NEW st \in SameBinding(old), NEW t \in AllTxs
    PROVE  Torn(st, t) \in SameBinding(old)
<1>1. [Receipt(t) EXCEPT !.canonical = FALSE] \in Receipts
  <2>1. \A r \in Receipts : [r EXCEPT !.canonical = FALSE] \in Receipts
    BY DEF Receipts
  <2> QED
    BY <2>1, ReceiptType
<1> QED
  BY <1>1 DEF Torn, SameBinding, StepDocs, StepStates, Semantics

\* refreshExternalStep, once the observer has named a hash.
LEMMA ExternalViewBinding ==
    ASSUME TypeOK, NEW st \in StepDocs, NEW h \in Outers \cup {None}
    PROVE  ExternalView(st, h) \subseteq SameBinding(st)
<1> DEFINE t == IF h # None THEN h ELSE st.hash
           base == Rebased(st, t)
<1>1. t \in Outers \cup {None}
  BY DEF StepDocs
<1>2. base \in SameBinding(st)
  BY <1>1, RebasedBinding
<1>3. t # None => Reconciled(base, t) \cup Unproven(base, t) \subseteq SameBinding(st)
  BY <1>1, <1>2, ReconciledBinding, UnprovenBinding DEF AllTxs
<1> HIDE DEF base
<1>4. base.receipt # None => Orphaned(base) \in SameBinding(st)
  BY <1>2, OrphanedBinding
<1>6. KeepsResult(st, h) => Kept(st) \subseteq SameBinding(st)
  BY KeptBinding DEF KeepsResult
<1>7. /\ [base EXCEPT !.state = "reserved", !.semantic = "unknown"] \in SameBinding(st)
      /\ [base EXCEPT !.state = "unknown", !.semantic = "unknown"] \in SameBinding(st)
      /\ [base EXCEPT !.state = "submitted", !.semantic = "unknown"] \in SameBinding(st)
  BY <1>2, NamedStates, Restated
<1> QED
  BY <1>3, <1>4, <1>6, <1>7, Zenon DEF ExternalView, base

\* Whatever one look at the chain or the providers returns, faulty or not.
LEMMA ViewsBinding ==
    ASSUME TypeOK, NEW st \in StepDocs, NEW s \in Steps
    PROVE  Views(st, s) \cup FaultyViews(st, s) \subseteq SameBinding(st)
<1>1. ObservedHash(st, s) \subseteq Outers \cup {None} /\ Hints(st.ext, s) \subseteq Outers
  BY DEF ObservedHash, Hints, StepDocs
<1>2. NeverPublished(st) \in SameBinding(st)
  BY DEF NeverPublished, SameBinding, StepDocs, StepStates, Semantics
<1>3. Unverified(st) \in SameBinding(st)
  BY DEF Unverified, SameBinding, StepDocs, StepStates, Semantics
<1>4. RefreshExternalStep(st, s) \subseteq SameBinding(st)
  BY <1>1, <1>2, ExternalViewBinding DEF RefreshExternalStep
<1>5. Views(st, s) \subseteq SameBinding(st)
  BY <1>4, RefreshStepBinding DEF Views
<1>6. FaultyViews(st, s) \subseteq SameBinding(st)
  <2>1. st \in SameBinding(st)
    BY DEF SameBinding
  <2>2. \A t \in Txs : Torn(st, t) \in SameBinding(st)
    BY <2>1, TornBinding DEF AllTxs
  <2>3. \A t \in Outers : Torn(Rebased(st, t), t) \in SameBinding(st)
    BY RebasedBinding, TornBinding DEF AllTxs
  <2>4. \A h \in Outers : ExternalView(st, h) \subseteq SameBinding(st)
    BY ExternalViewBinding
  <2> QED
    BY <1>3, <2>2, <2>3, <2>4, Zenon DEF FaultyViews
<1> QED
  BY <1>5, <1>6

-----------------------------------------------------------------------------
(* Every request keeps its shape. *)

\* A job with the given plan, step and transaction.
Submits(j) == j.plan \in Plans /\ (j.kind = "submit" => j.step \in Steps /\ j.tx \in Txs)

\* The document that creates a step is a step document.
LEMMA NewStepType == NewStep \in StepDocs
BY DEF NewStep, StepDocs, StepStates, Semantics

\* A worker without a request has the shape of one.
LEMMA IdleShape == IdleJob \in Jobs /\ JobShape(IdleJob)
BY NewStepType, Zenon DEF IdleJob, Jobs, JobShape

\* One request moves on; the others keep their local state.
LEMMA GotoShape ==
    ASSUME Shape, NEW w \in Workers, NEW j \in Jobs, JobShape(j), Goto(w, j)
    PROVE  job' \in [Workers -> Jobs] /\ \A x \in Workers : JobShape(job'[x])
BY DEF Goto, Shape, TypeOK

\* Losing freshness does not change a job's shape.
LEMMA StaleShape ==
    ASSUME NEW j \in Jobs, JobShape(j), NEW b \in BOOLEAN
    PROVE  [j EXCEPT !.fresh = b] \in Jobs /\ JobShape([j EXCEPT !.fresh = b])
<1>1. [j EXCEPT !.fresh = b] \in Jobs
  BY DEF Jobs
<1>2. LET k == [j EXCEPT !.fresh = b]
      IN  /\ k.pc = j.pc /\ k.kind = j.kind /\ k.plan = j.plan /\ k.step = j.step
          /\ k.tx = j.tx /\ k.snap = j.snap /\ k.obs = j.obs
  BY DEF Jobs
<1> QED
  BY <1>1, <1>2, Zenon DEF JobShape

\* One request moves on and the others' copies of plan p become stale.
LEMMA AdvanceShape ==
    ASSUME Shape, NEW p, NEW w, NEW j \in Jobs, JobShape(j), Advance(p, w, j)
    PROVE  job' \in [Workers -> Jobs] /\ \A x \in Workers : JobShape(job'[x])
<1>1. ASSUME NEW x \in Workers
      PROVE  job'[x] \in Jobs /\ JobShape(job'[x])
  <2> DEFINE b == job[x].fresh /\ job[x].plan # p
  <2>1. b \in BOOLEAN
    OBVIOUS
  <2>2. job[x] \in Jobs /\ JobShape(job[x])
    BY DEF Shape, TypeOK
  <2>3. job'[x] = IF x = w THEN j ELSE [job[x] EXCEPT !.fresh = b]
    BY DEF Advance
  <2> HIDE DEF b
  <2> QED
    BY <2>1, <2>2, <2>3, StaleShape
<1>2. job' = [x \in Workers |-> job'[x]]
  BY DEF Advance
<1> QED
  BY <1>1, <1>2

\* A refresh that is done leaves a submission ready for its checks.
LEMMA RefreshedShape ==
    ASSUME NEW j \in Jobs, Submits(j)
    PROVE  Refreshed(j) \in Jobs /\ JobShape(Refreshed(j))
<1>1. CASE j.kind = "submit"
  <2> DEFINE k == [j EXCEPT !.pc = "check", !.obs = IdleJob.obs, !.left = 0]
  <2>1. IdleJob.obs \in [Steps -> StepDocs \cup {None}]
    BY IdleShape DEF Jobs
  <2>2. k \in Jobs
    BY <2>1 DEF Jobs
  <2>3. k.pc = "check" /\ k.kind = "submit" /\ k.plan = j.plan /\ k.step = j.step /\ k.tx = j.tx
    BY <1>1 DEF Jobs
  <2>4. JobShape(k)
    BY <1>1, <2>3 DEF JobShape, Submits
  <2> QED
    BY <1>1, <2>2, <2>4 DEF Refreshed
<1>2. CASE j.kind # "submit"
  BY <1>2, IdleShape DEF Refreshed
<1> QED
  BY <1>1, <1>2

\* Merging reservation rows into the steps yields step documents, keeps
\* attempts and bindings, and touches no other step.
LEMMA AttachedSteps ==
    ASSUME TypeOK, NEW p \in Plans, NEW rows \in [Steps -> Executors \cup {None}]
    PROVE  /\ Attached(p, rows) \in [Steps -> StepDocs]
           /\ \A s \in Steps :
                 /\ Attached(p, rows)[s].attempt = steps[p][s].attempt
                 /\ \/ Attached(p, rows)[s] = steps[p][s]
                    \/ /\ rows[s] \in Waves /\ steps[p][s].ext = None
                       /\ Attached(p, rows)[s].ext = rows[s]
<1>1. ASSUME NEW s \in Steps, rows[s] \in Waves
      PROVE  LET st == [steps[p][s] EXCEPT !.ext = rows[s], !.state = "reserved"]
             IN  st \in StepDocs /\ st.attempt = steps[p][s].attempt /\ st.ext = rows[s]
  <2>1. steps[p][s] \in StepDocs
    BY DEF TypeOK
  <2> QED
    BY <1>1, <2>1 DEF StepDocs, StepStates
<1>2. \A s \in Steps : steps[p][s] \in StepDocs
  BY DEF TypeOK
<1> QED
  BY <1>1, <1>2 DEF Attached

\* syncExternalExecutions, for a request that is well formed.
LEMMA SyncShape ==
    ASSUME Shape, NEW w \in Workers, NEW mine \in Jobs, Submits(mine), Sync(w, mine)
    PROVE  Shape'
<1> DEFINE p == mine.plan
           next == Attached(p, transport[p])
           unread == {s \in Steps : Bound(next[s])}
           obs == [s \in Steps |-> IF s \in unread THEN None ELSE next[s]]
           held == [mine EXCEPT !.pc = "observe", !.snap = next, !.fresh = TRUE, !.obs = obs]
           cont == IF unread # {} THEN held ELSE Refreshed(held)
<1>1. p \in Plans /\ transport[p] \in [Steps -> Executors \cup {None}]
  BY DEF Submits, Shape, TypeOK
<1>2. next \in [Steps -> StepDocs]
  BY <1>1, AttachedSteps DEF Shape
<1> HIDE DEF next
<1>3. obs \in [Steps -> StepDocs \cup {None}]
  BY <1>2
<1>4. \A s \in Steps : /\ obs[s] # None => obs[s] = next[s] /\ next[s] \in SameBinding(next[s])
                       /\ obs[s] = None => Bound(next[s]) \/ next[s] = None
  BY <1>2 DEF SameBinding
<1>5. \A s \in Steps : next[s] # None
  BY <1>2, ConstantsDistinct
<1> HIDE DEF obs
<1>6. held \in Jobs
  BY <1>2, <1>3 DEF Jobs
<1>7. /\ held.pc = "observe" /\ held.kind = mine.kind /\ held.plan = p /\ held.step = mine.step
      /\ held.tx = mine.tx /\ held.snap = next /\ held.obs = obs
  BY DEF Jobs
<1> HIDE DEF held
<1>8. JobShape(held) /\ Submits(held)
  BY <1>1, <1>4, <1>5, <1>7 DEF JobShape, Submits
<1>9. cont \in Jobs /\ JobShape(cont)
  BY <1>6, <1>8, RefreshedShape
<1> HIDE DEF cont
<1>10. \/ steps' = [steps EXCEPT ![p] = next] /\ (Goto(w, cont) \/ Advance(p, w, cont))
       \/ UNCHANGED steps /\ Goto(w, IdleJob)
  BY Zenon DEF Sync, cont, held, obs, next, Stop
<1>11. steps' \in [Plans -> [Steps -> StepDocs]]
  BY <1>2, <1>10 DEF Shape, TypeOK
<1>12. job' \in [Workers -> Jobs] /\ \A x \in Workers : JobShape(job'[x])
  BY <1>9, <1>10, GotoShape, AdvanceShape, IdleShape
<1>13. UNCHANGED <<created, expired, transport, leased, nonceOwner, idem, active, world, history>>
  BY Zenon DEF Sync
<1> QED
  BY <1>11, <1>12, <1>13 DEF Shape, TypeOK, world, history

\* A request's arrival is a Sync of a well-formed job.
LEMMA ArrivalJobs ==
    ASSUME NEW p \in Plans
    PROVE  /\ Reading(p) \in Jobs /\ Submits(Reading(p))
           /\ \A s \in Steps, t \in Txs, k \in Keys \cup {None} :
                LET j == [Reading(p) EXCEPT !.kind = "submit", !.step = s, !.tx = t, !.key = k]
                IN  j \in Jobs /\ Submits(j)
<1>1. Reading(p) \in Jobs /\ Reading(p).plan = p /\ Reading(p).kind = "read"
  BY IdleShape, ConstantShapes DEF Reading, Jobs, IdleJob
<1>2. ASSUME NEW s \in Steps, NEW t \in Txs, NEW k \in Keys \cup {None}
      PROVE  LET j == [Reading(p) EXCEPT !.kind = "submit", !.step = s, !.tx = t, !.key = k]
             IN  j \in Jobs /\ Submits(j)
  BY <1>1 DEF Jobs, Submits
<1>3. Submits(Reading(p))
  BY <1>1 DEF Submits
<1> QED
  BY <1>1, <1>2, <1>3, Zenon

\* The arrival of a request, with its sync, keeps the types.
LEMMA ArrivalShape ==
    ASSUME Shape,
           \/ \E w \in Requests : Arrive(w)
           \/ \E p \in Plans : StartRecovery(p)
    PROVE  Shape'
<1>1. ASSUME NEW w \in Requests, NEW p \in Plans, StartRead(w, p)
      PROVE  Shape'
  BY <1>1, ArrivalJobs, SyncShape DEF StartRead, Workers
<1>2. ASSUME NEW w \in Requests, NEW p \in Plans, NEW s \in Steps, NEW t \in Txs,
             NEW k \in Keys \cup {None}, StartSubmit(w, p, s, t, k)
      PROVE  Shape'
  <2> DEFINE j == [Reading(p) EXCEPT !.kind = "submit", !.step = s, !.tx = t, !.key = k]
  <2>1. j \in Jobs /\ Submits(j)
    BY ArrivalJobs, Zenon
  <2>2. Sync(w, j)
    BY <1>2, Zenon DEF StartSubmit
  <2> HIDE DEF j
  <2> QED
    BY <2>1, <2>2, SyncShape DEF Workers
<1>3. ASSUME NEW p \in Plans, StartRecovery(p)
      PROVE  Shape'
  BY <1>3, ArrivalJobs, SyncShape DEF StartRecovery, Workers
<1> QED
  BY <1>1, <1>2, <1>3 DEF Arrive

=============================================================================
