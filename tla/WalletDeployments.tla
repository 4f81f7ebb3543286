-------------------------- MODULE WalletDeployments --------------------------
(****************************************************************************)
(* The sender lane that pays for wallet creations (src/rest/wallet):         *)
(* deploymentPostgres.ts (the durable store), deploymentExecution.ts (sign,  *)
(* observe, dispatch), signup.ts (the worker's pass and the claims),         *)
(* deploymentChain.ts and deploymentTransport.ts (what a provider's answers  *)
(* are turned into) and deploymentSettlement.ts (the accounting rules).      *)
(*                                                                           *)
(* One treasury key signs every creation, so the operations share a nonce    *)
(* sequence. At most one operation is active (claimed, unreleased); it is    *)
(* released at canonical inclusion, joins a bounded queue that keeps its     *)
(* admitted cost reserved, and is debited at finality in nonce order. Any    *)
(* contradiction fences the pool for good. Several processes may run the     *)
(* worker against the same database.                                         *)
(*                                                                           *)
(* A store method is one action: it runs under the pool's row lock. What a   *)
(* process holds between two methods is in `held`, and `seen` says which of  *)
(* the rows it loaded are unchanged since: the revision (or the digest of    *)
(* the whole context) it presents is current exactly when the row is in      *)
(* `seen`. Amounts of wei are small numbers, the first nonce is 0, and a     *)
(* block carries at most one transaction of the treasury key.                *)
(****************************************************************************)
EXTENDS Integers, Sequences, FiniteSets, FiniteSetsExt

CONSTANTS
  None,           \* no value
  Ops,            \* deployment operations, one per enrollment and approval
  Workers,        \* processes running the signup worker
  Allocation,     \* configuration.allocationWei
  Funds,          \* the treasury key's balance when the accounting starts
  MaxCost,        \* signed.maximumExecutionCost of every operation
  Reservation,    \* admission.reservation.totalWei of every operation
  Costs,          \* total fees a receipt may carry
  MaxUnsettled,   \* walletDeploymentSettlementLimits.maximumUnsettled
  MaxAttempts,    \* walletDeploymentDispatchLimits.maximumAttempts
  Lag,            \* how many blocks behind the head a provider may answer from
  MaxReorgs, MaxForeign, MaxFaults   \* bounds on what the environment does

Pool == "pool"
Foreign == "foreign"

ASSUME DeploymentAssumption ==
  /\ IsFiniteSet(Ops) /\ None \notin Ops /\ Pool \notin Ops /\ Foreign \notin Ops
  /\ None \notin Workers
  /\ {Allocation, Funds, MaxCost, Reservation, MaxUnsettled, MaxAttempts} \subseteq Nat \ {0}
  /\ MaxCost <= Reservation /\ Allocation <= Funds
  /\ Costs \subseteq Nat \ {0}
  /\ {Lag, MaxReorgs, MaxForeign, MaxFaults} \subseteq Nat

VARIABLES
  ops,      \* rest_wallet_deployments and their dispatch rows
  pool,     \* the singleton rest_wallet_deployment_pools row and its accounting
  quote,    \* funding and admission evidence held for a claim, by operation
  pc, held, seen,             \* each worker: where its pass is and what it holds
  chain, final, mempool,      \* Base: blocks, finalized height, unmined sends
  sent,     \* every transaction ever handed to the provider
  reorgs, foreigns, faults    \* what the environment has done so far

store == <<ops, pool, quote>>
local == <<pc, held, seen>>
base == <<chain, final, mempool, reorgs, foreigns>>
vars == <<store, local, base, sent, faults>>

-----------------------------------------------------------------------------
(* Base, as the provider shows it.                                          *)

\* A view is a prefix of the canonical chain: the block a lagging provider
\* calls "latest".
Heights == {h \in 0..Len(chain) : h >= Len(chain) - Lag}

Anchor(h) == IF h = 0 THEN <<0, 0>> ELSE <<h, chain[h].fork>>

\* The anchor is still a block of the canonical chain.
Canonical(anchor) == anchor[1] <= Len(chain) /\ Anchor(anchor[1]) = anchor

\* eth_getTransactionCount of the treasury key at a height.
Confirmed(h) == Cardinality({i \in 1..h : chain[i].tx # None})

\* The same at "pending": the sends that follow on without a gap are counted.
Pending(h) ==
  LET waiting == {ops[m[1]].nonce : m \in mempool}
  IN  CHOOSE n \in Confirmed(h)..(Confirmed(h) + Cardinality(Ops)) :
        /\ n \notin waiting
        /\ \A k \in Confirmed(h)..(n - 1) : k \in waiting

\* The height at which o's signed bytes are included, within the view.
Included(o, h) == {i \in 1..h : chain[i].tx = <<o, ops[o].raw>>}

Balance(h) == Funds - MapThenSumSet(LAMBDA i : chain[i].cost, 1..h)

-----------------------------------------------------------------------------
(* The rows.                                                                *)

Unknown == [state |-> "unknown", head |-> None, conf |-> 0, pend |-> 0,
            final |-> "unknown"]

NoDispatch == [status |-> None, live |-> FALSE, attempts |-> 0, by |-> None]

Absent == [state |-> None, live |-> FALSE, nonce |-> None, from |-> <<0, 0>>,
           lease |-> None, raw |-> None, obs |-> None, hist |-> None, high |-> 0,
           released |-> FALSE, settled |-> FALSE, dispatch |-> NoDispatch]

Idle == [op |-> None, obs |-> None, cost |-> 0, nonce |-> 0, balance |-> 0]

Released == {o \in Ops : ops[o].released /\ ~ops[o].settled}

\* GREATEST(maximum_execution_cost, the dispatch's reservation): what a signed
\* operation keeps out of the allocation.
ReservedWei(o) == IF ops[o].dispatch.attempts = 0 THEN MaxCost ELSE Reservation

\* rest_wallet_deployment_reserved_wei: the released queue's reservations.
QueueReserved == MapThenSumSet(ReservedWei, Released)

\* Mutant: the released queue's reservations are forgotten.
RemainingUnreserved == Allocation - pool.spent

\* walletDeploymentRemainingWei.
RemainingWei ==
  LET committed == pool.spent + QueueReserved
  IN  IF committed > Allocation THEN 0 ELSE Allocation - committed


\* The active operation's admitted cost once it is signed.
ActiveReservation ==
  IF pool.active # None /\ ops[pool.active].state = "signed"
  THEN ReservedWei(pool.active) ELSE 0

CanonicalState(obs) == obs # None /\ obs.state = "canonical"

\* observeSigned: what the provider's answers for o's signed bytes become when
\* its latest block is at height h. Success and revert are both "canonical":
\* the lane and the accounting treat them alike.
ObserveSigned(o, h) ==
  LET nonce == ops[o].nonce
      read == [Unknown EXCEPT !.head = Anchor(h), !.conf = Confirmed(h), !.pend = Pending(h)]
  IN  IF Included(o, h) # {}
      THEN LET i == CHOOSE i \in Included(o, h) : TRUE
           IN  {[read EXCEPT !.state = "canonical",
                             !.final = IF i <= final THEN "finalized" ELSE "unfinalized"]}
      ELSE IF Confirmed(h) = nonce
      THEN {[read EXCEPT !.state = IF <<o, ops[o].raw>> \in mempool THEN "pending" ELSE "not-observed"]}
      ELSE IF Confirmed(h) < nonce \/ h < ops[o].from[1] \/ ~Canonical(ops[o].from)
      THEN {[read EXCEPT !.state = "reorged"]}
      \* Another transaction took the nonce; a small window is scanned for it.
      ELSE {[read EXCEPT !.state = "nonce-conflict"], read}

\* advanceObservation refuses evidence that contradicts what is retained.
Advances(row, obs) ==
  /\ obs.state = "canonical" => obs.head[1] >= row.high
  /\ row.hist = "finalized" =>
       /\ obs.state # "nonce-conflict"
       /\ obs.state = "canonical" => obs.final # "unfinalized"

\* Its result: the retained receipt and the highest head observed.
Advanced(row, obs) ==
  [row EXCEPT
     !.obs = obs,
     !.hist = IF obs.state = "canonical" /\ @ # "finalized" THEN obs.final ELSE @,
     !.high = IF obs.head = None THEN @ ELSE Max({@, obs.head[1]})]

\* initializeAccounting of a configured pool.
Initialized == [active |-> None, next |-> 0, sequence |-> 0, spent |-> 0, fence |-> None]

-----------------------------------------------------------------------------
Init ==
  /\ ops = [o \in Ops |-> Absent]
  /\ pool = Initialized
  /\ quote = [o \in Ops |-> None]
  /\ pc = [w \in Workers |-> "idle"]
  /\ held = [w \in Workers |-> Idle]
  /\ seen = [w \in Workers |-> {}]
  /\ chain = <<>> /\ final = 0 /\ mempool = {} /\ sent = {}
  /\ reorgs = 0 /\ foreigns = 0 /\ faults = 0

\* A write makes every other process's copy of those rows stale.
Writes(rows) == seen' = [v \in Workers |-> seen[v] \ rows]

\* A pool write ends the claims' evidence: it names the pool's revision.
NoQuotes == quote' = [o \in Ops |-> None]

Fenced(reason) == [pool EXCEPT !.fence = reason]

Goes(w, to) == pc' = [pc EXCEPT ![w] = to]
Keeps(w, what) == held' = [held EXCEPT ![w] = what]
Loads(w, rows) == seen' = [seen EXCEPT ![w] = rows]

\* One half of a pass is over: the process forgets what it loaded.
Ends(w, to) == Goes(w, to) /\ Keeps(w, Idle) /\ Loads(w, {})
EndsWriting(w, to, rows) ==
  /\ Goes(w, to) /\ Keeps(w, Idle)
  /\ seen' = [v \in Workers |-> IF v = w THEN {} ELSE seen[v] \ rows]

-----------------------------------------------------------------------------
(* Approvals and claims.                                                    *)

\* prepare: a review of this creation, waiting for the owner's passkey.
Prepare(o) ==
  /\ ops[o].state = None
  /\ ops' = [ops EXCEPT ![o] = [Absent EXCEPT !.state = "prepared", !.live = TRUE]]
  /\ UNCHANGED <<pool, quote, local, base, sent, faults>>

\* The approval expires; cleanup deletes the row a day later.
Lapse(o) ==
  /\ ops[o].state = "prepared" /\ faults < MaxFaults
  /\ ops' = [ops EXCEPT ![o] = IF @.live THEN [@ EXCEPT !.live = FALSE]
                               ELSE [Absent EXCEPT !.state = "deleted"]]
  /\ quote' = [quote EXCEPT ![o] = None]
  /\ faults' = faults + 1
  /\ UNCHANGED <<pool, local, base, sent>>

\* preflight: nothing of the key's is pending at the head. Its pins, code and
\* simulation checks hold for a creation that is not deployed yet.
Preflight(h) == Confirmed(h) = Pending(h)

\* observeFunding: the key's nonce and balance at one head.
FundingEvidence(h) == [nonce |-> Confirmed(h), balance |-> Balance(h), head |-> Anchor(h)]

\* chainReads: the funding read fixes a head and the preflight is pinned to it.
\* The evidence is read while the passkey prompt is up and carried to the claim.
ChainReads(o, h) ==
  /\ ops[o].state = "prepared" /\ ops[o].live
  /\ Preflight(h)
  /\ quote' = [quote EXCEPT ![o] = FundingEvidence(h)]
  /\ UNCHANGED <<ops, pool, local, base, sent, faults>>

\* What claim and walletDeploymentFundingConflict require of that evidence.
FundingAdmits(q) ==
  /\ q.nonce = pool.next
  /\ q.balance >= RemainingWei
  /\ MaxCost <= RemainingWei

\* approveDeployment: the owner answers while the approval and its evidence live.
Approvable(o) == ops[o].state = "prepared" /\ ops[o].live /\ quote[o] # None

\* Mutant: a claim that does not look at the lane.
LaneTakenOver == pool.fence = None

\* One claim at a time, and none after a fence.
LaneFree == pool.active = None /\ pool.fence = None

\* The queue is bounded and every member is still known to be canonical.
QueueAdmits ==
  /\ Cardinality(Released) < MaxUnsettled
  /\ \A o \in Released : CanonicalState(ops[o].obs)

\* claim: the lane, the nonce and the consumed ceremony commit together.
Claim(o) ==
  /\ Approvable(o) /\ LaneFree /\ QueueAdmits /\ FundingAdmits(quote[o])
  /\ ops' = [ops EXCEPT ![o].state = "claimed", ![o].nonce = quote[o].nonce,
                        ![o].from = quote[o].head]
  /\ pool' = [pool EXCEPT !.active = o]
  /\ NoQuotes /\ Writes({o, Pool})
  /\ UNCHANGED <<pc, held, base, sent, faults>>

-----------------------------------------------------------------------------
(* The worker's pass: the active operation first, then the released queue.  *)

Active(o) == pool.active = o /\ ops[o].state \in {"claimed", "signed"}

CanSign(o) == ops[o].state = "claimed" /\ ops[o].lease = None /\ pool.fence = None

\* sign, first half: leaseSigning.
LeaseSigning(w, o) ==
  /\ pc[w] = "idle" /\ Active(o) /\ CanSign(o)
  /\ ops' = [ops EXCEPT ![o].lease = w]
  /\ seen' = [v \in Workers |-> IF v = w THEN {o} ELSE seen[v] \ {o}]
  /\ Goes(w, "signing") /\ Keeps(w, [Idle EXCEPT !.op = o])
  /\ UNCHANGED <<pool, quote, base, sent, faults>>

\* What persistSigned requires of a signer's bytes that are not yet the winner.
SigningAdmits(w, o) ==
  /\ ops[o].state = "claimed" /\ ops[o].lease = w /\ o \in seen[w]

\* sign, second half: the signer answers and persistSigned records the winner.
\* A candidate that lost is dropped and the durable winner is loaded instead.
PersistSigned(w) ==
  LET o == held[w].op
  IN  /\ pc[w] = "signing"
      /\ pool.fence = None /\ pool.active = o
      /\ IF SigningAdmits(w, o)
         THEN /\ ops' = [ops EXCEPT ![o].state = "signed", ![o].raw = w, ![o].lease = None]
              /\ EndsWriting(w, "idle", {o})
         ELSE ops[o].state = "signed" /\ UNCHANGED ops /\ Ends(w, "idle")
      /\ UNCHANGED <<pool, quote, base, sent, faults>>

\* A lease is longer than the deadline of the call it covers, so it outlasts a
\* holder that is alive unless that process stalls, which is a fault.
Outlasts(stalls) ==
  IF stalls THEN faults < MaxFaults /\ faults' = faults + 1 ELSE UNCHANGED faults

\* The signing lease runs out.
ExpireSigning(o) ==
  /\ ops[o].lease # None
  /\ Outlasts(pc[ops[o].lease] = "signing")
  /\ ops' = [ops EXCEPT ![o].lease = None]
  /\ UNCHANGED <<pool, quote, local, base, sent>>

\* recover: load the signed operation, then read the chain for its inclusion.
\* A failed read is the empty observation.
Observe(w, o, h) ==
  /\ pc[w] = "idle" /\ Active(o) /\ ops[o].state = "signed"
  /\ \/ \E obs \in ObserveSigned(o, h) : Keeps(w, [Idle EXCEPT !.op = o, !.obs = obs])
        /\ UNCHANGED faults
     \/ /\ faults < MaxFaults /\ faults' = faults + 1
        /\ Keeps(w, [Idle EXCEPT !.op = o, !.obs = Unknown])
  /\ Loads(w, {o}) /\ Goes(w, "observed")
  /\ UNCHANGED <<store, base, sent>>

\* saveObservation: compare-and-swap on the operation's revision.
CanSave(w, o) == o \in seen[w] /\ ~ops[o].settled /\ Advances(ops[o], held[w].obs)

Saves(w, o) ==
  /\ CanSave(w, o)
  /\ ops' = [ops EXCEPT ![o] = Advanced(@, held[w].obs)]

SaveObservation(w) ==
  LET o == held[w].op
  IN  /\ pc[w] = "observed" /\ Saves(w, o)
      /\ Writes({o}) /\ Keeps(w, [Idle EXCEPT !.op = o]) /\ Goes(w, "saved")
      /\ UNCHANGED <<pool, quote, base, sent, faults>>

\* admit: the latest observation found nothing to send over, its head is still
\* canonical, the provider still knows neither receipt nor pending nonce, and
\* the complete reservation fits what the allocation and the balance hold.
Admits(o) ==
  LET obs == ops[o].obs IN
  /\ obs.state = "not-observed" /\ obs.conf = ops[o].nonce /\ obs.pend = ops[o].nonce
  /\ ops[o].hist # "finalized" /\ obs.head[1] >= ops[o].high
  /\ pool.fence = None /\ pool.next = ops[o].nonce
  /\ Canonical(obs.head)
  /\ <<o, ops[o].raw>> \notin mempool /\ Included(o, Len(chain)) = {}
  /\ Pending(Len(chain)) = ops[o].nonce
  /\ Balance(obs.head[1]) >= RemainingWei
  /\ Reservation <= RemainingWei /\ Reservation <= Balance(obs.head[1])

Admit(w) ==
  LET o == held[w].op
  IN  /\ pc[w] = "saved" /\ pool.active = o /\ Admits(o)
      /\ Keeps(w, [Idle EXCEPT !.op = o, !.obs = ops[o].obs])
      /\ Loads(w, {o, Pool}) /\ Goes(w, "admitted")
      /\ UNCHANGED <<store, base, sent, faults>>

\* assertWalletDeploymentDispatchAdmission: the operation's revision and the
\* accounting are the ones admitted.
AdmissionCurrent(w, o) == {o, Pool} \subseteq seen[w] /\ pool.active = o /\ pool.fence = None

\* The earlier attempt's lease and cooldown are over, and attempts are left.
DispatchAdmits(o) == ~ops[o].dispatch.live /\ ops[o].dispatch.attempts < MaxAttempts

\* leaseDispatch: the admission must describe the rows as they are, and an
\* earlier attempt's lease and cooldown must be over.
LeaseDispatch(w) ==
  LET o == held[w].op
      d == ops[o].dispatch
  IN  /\ pc[w] = "admitted" /\ AdmissionCurrent(w, o)
      /\ DispatchAdmits(o)
      /\ ops' = [ops EXCEPT ![o].dispatch =
                   [status |-> "in-flight", live |-> TRUE, attempts |-> d.attempts + 1, by |-> w]]
      /\ Loads(w, {}) /\ Goes(w, "leased")
      /\ UNCHANGED <<pool, quote, held, base, sent, faults>>

\* broadcast sends only while its own dispatch lease runs.
LeaseHeld(w, o) == ops[o].dispatch.live /\ ops[o].dispatch.by = w

\* broadcast: one physical send of the durable winner, if the admission's head
\* is still canonical. The provider may have taken it whatever it answers.
Broadcast(w) ==
  LET o == held[w].op
      m == <<o, ops[o].raw>>
      canonical == Canonical(held[w].obs.head)
  IN  /\ pc[w] = "leased" /\ LeaseHeld(w, o)
      /\ sent' = IF canonical THEN sent \cup {m} ELSE sent
      /\ \/ /\ mempool' = IF canonical /\ Confirmed(Len(chain)) <= ops[o].nonce
                          THEN mempool \cup {m} ELSE mempool
            /\ UNCHANGED faults
         \/ faults < MaxFaults /\ faults' = faults + 1 /\ UNCHANGED mempool
      /\ Goes(w, "sent")
      /\ UNCHANGED <<store, held, seen, chain, final, reorgs, foreigns>>

\* settleDispatch records the provider's answer ("accepted" or "unknown": no rule
\* tells them apart) while the lease runs.
SettleDispatch(w) ==
  LET o == held[w].op
  IN  /\ pc[w] = "sent" /\ LeaseHeld(w, o) /\ pool.active = o
      /\ ops' = [ops EXCEPT ![o].dispatch.status = "answered"]
      /\ Ends(w, "queue")
      /\ UNCHANGED <<pool, quote, base, sent, faults>>

\* A dispatch lease, and the cooldown after it, runs out.
ExpireDispatch(o) ==
  /\ ops[o].dispatch.live
  /\ Outlasts(pc[ops[o].dispatch.by] \in {"leased", "sent"})
  /\ ops' = [ops EXCEPT ![o].dispatch.live = FALSE, ![o].dispatch.by = None]
  /\ UNCHANGED <<pool, quote, local, base, sent>>

\* Mutants: release does not wait for a send, or waits beyond its lease.
NeverInFlight(o) == FALSE

\* An attempt still in flight keeps the lane.
InFlight(o) == ops[o].dispatch.status = "in-flight" /\ ops[o].dispatch.live

\* What release requires of the operation, as its latest observation shows it.
ReleaseAdmits(o) ==
  /\ pool.active = o /\ pool.fence = None /\ pool.next = ops[o].nonce
  /\ CanonicalState(ops[o].obs) /\ ~InFlight(o)
  /\ Cardinality(Released) < MaxUnsettled

\* release: the lane leaves the operation at its canonical inclusion, with the
\* sender's nonce exactly past it; anything else fences. The operation's own
\* revision does not move.
Release(w) ==
  LET o == held[w].op
      next == ops[o].nonce + 1
  IN  /\ pc[w] = "saved" /\ ReleaseAdmits(o)
      /\ IF ops[o].obs.conf # next \/ ops[o].obs.pend # next
         THEN pool' = Fenced("nonce-conflict") /\ UNCHANGED ops
         ELSE /\ ops' = [ops EXCEPT ![o].released = TRUE]
              /\ pool' = [pool EXCEPT !.next = next, !.active = None]
      /\ NoQuotes /\ EndsWriting(w, "queue", {Pool})
      /\ UNCHANGED <<base, sent, faults>>

-----------------------------------------------------------------------------
(* The pass's second half: the lowest released nonce.                       *)

\* The active part is over, or there is nothing it can do now.
Proceed(w) ==
  /\ \/ pc[w] = "idle" /\ ~\E o \in Ops : Active(o) /\ (ops[o].state = "signed" \/ CanSign(o))
     \/ pc[w] = "saved" /\ ~ReleaseAdmits(held[w].op)
                        /\ ~(pool.active = held[w].op /\ Admits(held[w].op))
  /\ Ends(w, "queue")
  /\ UNCHANGED <<store, base, sent, faults>>

Lowest(o) == o \in Released /\ \A p \in Released : ops[o].nonce <= ops[p].nonce

\* The queue is empty, or its head may not be read yet: the pass ends.
EndPass(w) ==
  /\ pc[w] = "queue" /\ \A o \in Released : Lowest(o) => ops[o].dispatch.live
  /\ Ends(w, "idle")
  /\ UNCHANGED <<store, base, sent, faults>>

\* loadSettlementContext, then the inclusion is read again.
ObserveReleased(w, o, h) ==
  /\ pc[w] = "queue" /\ Lowest(o) /\ ~ops[o].dispatch.live
  /\ \/ \E obs \in ObserveSigned(o, h) : Keeps(w, [Idle EXCEPT !.op = o, !.obs = obs])
        /\ UNCHANGED faults
     \/ /\ faults < MaxFaults /\ faults' = faults + 1
        /\ Keeps(w, [Idle EXCEPT !.op = o, !.obs = Unknown])
  /\ Loads(w, {o}) /\ Goes(w, "reread")
  /\ UNCHANGED <<store, base, sent>>

\* A sender nonce rewound below ours, or no inclusion at all, is a reorg.
LeftTheChain(o, obs) ==
  \/ obs.state = "reorged" /\ obs.conf < ops[o].nonce
  \/ obs.state \in {"nonce-conflict", "not-observed", "pending"}

\* saveObservation for the released row; what it shows decides the next step.
SaveReleased(w) ==
  LET o == held[w].op
      obs == held[w].obs
  IN  /\ pc[w] = "reread" /\ Saves(w, o)
      /\ \/ /\ LeftTheChain(o, obs) /\ Goes(w, "fencing") /\ Keeps(w, [Idle EXCEPT !.op = o])
            /\ seen' = [v \in Workers |-> IF v = w THEN {Pool} ELSE seen[v] \ {o}]
         \/ /\ obs.state = "canonical" /\ obs.final = "finalized"
            /\ Goes(w, "final") /\ Keeps(w, [Idle EXCEPT !.op = o]) /\ Writes({o})
         \/ /\ ~LeftTheChain(o, obs) /\ ~(obs.state = "canonical" /\ obs.final = "finalized")
            /\ EndsWriting(w, "idle", {o})
      /\ UNCHANGED <<pool, quote, base, sent, faults>>

\* fenceAccounting("inclusion-reorged"): the latest saved observation must say so.
FenceAdmits(w, o) ==
  /\ Pool \in seen[w] /\ pool.fence = None
  /\ ops[o].released /\ ~ops[o].settled
  /\ ops[o].obs.state \in {"reorged", "nonce-conflict", "not-observed", "pending"}

FenceReorged(w) ==
  LET o == held[w].op
  IN  /\ pc[w] = "fencing" /\ FenceAdmits(w, o)
      /\ pool' = Fenced("inclusion-reorged")
      /\ NoQuotes /\ EndsWriting(w, "idle", {Pool})
      /\ UNCHANGED <<ops, base, sent, faults>>

\* observeSettlement: the full context is loaded again, then the finalized
\* receipt, its complete fees, the funding read at the same head and the
\* sender's finalized nonce.
ObserveSettlement(w, h) ==
  LET o == held[w].op
  IN  /\ pc[w] = "final" /\ pool.fence = None
      /\ ops[o].released /\ ~ops[o].settled
      /\ \E i \in Included(o, h) :
           /\ i <= final
           /\ Keeps(w, [op |-> o, cost |-> chain[i].cost, nonce |-> Confirmed(Min({final, h})),
                        balance |-> Balance(h),
                        obs |-> [Unknown EXCEPT !.state = "canonical", !.final = "finalized",
                                   !.head = Anchor(h), !.conf = Confirmed(h), !.pend = Pending(h)]])
      /\ Loads(w, {o, Pool}) /\ Goes(w, "settling")
      /\ UNCHANGED <<store, base, sent, faults>>

\* assertWalletDeploymentSettlementEvidence and the context comparison.
SettlementAdmits(w, o) ==
  /\ {o, Pool} \subseteq seen[w]
  /\ pool.fence = None /\ pool.active # o
  /\ ops[o].released /\ ~ops[o].settled /\ ~ops[o].dispatch.live
  /\ ops[o].nonce = pool.sequence
  /\ held[w].obs.head[1] >= ops[o].high

\* Mutant: the reservation is debited instead of the fee.
DebitReserved(w) == Reservation

\* The debit is the complete finalized fee, not the admitted estimate.
Debit(w) == held[w].cost

\* walletDeploymentFundingConflict and walletDeploymentSettlementNonceConflict:
\* a balance below what the books say must be left, or a nonce out of bounds.
SettlementConflict(w, o) ==
  LET ceiling == pool.next + (IF pool.active = None THEN 0 ELSE 1)
      others == QueueReserved - ReservedWei(o) + ActiveReservation
      obs == held[w].obs
  IN  IF held[w].balance < Allocation - (pool.spent + Debit(w)) - others THEN "balance-deficit"
      ELSE IF \/ held[w].nonce < ops[o].nonce + 1 \/ obs.conf < held[w].nonce
              \/ obs.conf > ceiling \/ obs.pend < obs.conf \/ obs.pend > ceiling
      THEN "nonce-conflict"
      ELSE None

\* settle: the receipt, the operation's marker and the debit commit together. A
\* debit above the allocation is kept and fences.
Settle(w) ==
  LET o == held[w].op
      spent == pool.spent + Debit(w)
      conflict == SettlementConflict(w, o)
  IN  /\ pc[w] = "settling" /\ SettlementAdmits(w, o)
      /\ IF conflict # None
         THEN pool' = Fenced(conflict) /\ UNCHANGED ops
         ELSE /\ ops' = [ops EXCEPT ![o].settled = TRUE]
              /\ pool' = [pool EXCEPT !.sequence = @ + 1, !.spent = spent,
                            !.fence = IF spent > Allocation THEN "allocation-exceeded" ELSE None]
      /\ NoQuotes /\ EndsWriting(w, "idle", {o, Pool})
      /\ UNCHANGED <<base, sent, faults>>

\* The step a worker is at can still be taken; otherwise the store refuses it.
Refused(w) ==
  LET o == held[w].op IN
  CASE pc[w] = "signing" -> pool.fence # None \/ (~SigningAdmits(w, o) /\ ops[o].state # "signed")
                            \/ pool.active # o
    [] pc[w] = "observed" -> ~CanSave(w, o)
    [] pc[w] = "admitted" -> ~AdmissionCurrent(w, o) \/ ~DispatchAdmits(o)
    [] pc[w] \in {"leased", "sent"} -> ~LeaseHeld(w, o)
    [] pc[w] = "reread" -> ~CanSave(w, o)
    [] pc[w] = "fencing" -> ~FenceAdmits(w, o)
    [] pc[w] = "final" -> pool.fence # None \/ ops[o].settled \/ Included(o, Len(chain)) = {}
    [] pc[w] = "settling" -> ~SettlementAdmits(w, o)
    [] OTHER -> FALSE

\* A refused store call ends that half of the pass (failure); the worker's next
\* pass starts from the durable rows.
Refuse(w) ==
  /\ Refused(w)
  /\ Ends(w, IF pc[w] \in {"reread", "fencing", "final", "settling"} THEN "idle" ELSE "queue")
  /\ UNCHANGED <<store, base, sent, faults>>

\* The process dies, or a provider, signer or database call fails, in mid pass.
Crash(w) ==
  /\ pc[w] # "idle" /\ faults < MaxFaults
  /\ faults' = faults + 1
  /\ Ends(w, "idle")
  /\ UNCHANGED <<store, base, sent>>

-----------------------------------------------------------------------------
(* Base itself, and whoever else holds the key.                             *)

Mine(m, cost) ==
  /\ m \in mempool /\ ops[m[1]].nonce = Confirmed(Len(chain)) /\ cost <= Balance(Len(chain))
  /\ chain' = Append(chain, [tx |-> m, cost |-> cost, fork |-> reorgs])
  /\ mempool' = mempool \ {m}
  /\ UNCHANGED <<store, local, final, reorgs, foreigns, sent, faults>>

\* A transaction this service did not send takes the key's next nonce.
ForeignSend(cost) ==
  /\ foreigns < MaxForeign /\ foreigns' = foreigns + 1 /\ cost <= Balance(Len(chain))
  /\ chain' = Append(chain, [tx |-> <<Foreign, Foreign>>, cost |-> cost, fork |-> reorgs])
  /\ mempool' = {m \in mempool : ops[m[1]].nonce # Confirmed(Len(chain))}
  /\ UNCHANGED <<store, local, final, reorgs, sent, faults>>

Finalize ==
  /\ final < Len(chain) /\ final' = final + 1
  /\ UNCHANGED <<store, local, chain, mempool, reorgs, foreigns, sent, faults>>

\* The blocks after height h are replaced by blocks without our transactions,
\* which go back to the pool of pending ones or are lost.
Reorg(h) ==
  LET dropped == {chain[i].tx : i \in (h + 1)..Len(chain)} \ {None, <<Foreign, Foreign>>}
  IN  /\ reorgs < MaxReorgs /\ final <= h /\ h < Len(chain)
      /\ reorgs' = reorgs + 1
      /\ chain' = [i \in 1..Len(chain) |->
                     IF i <= h THEN chain[i] ELSE [tx |-> None, cost |-> 0, fork |-> reorgs + 1]]
      /\ \E kept \in SUBSET dropped : mempool' = mempool \cup kept
      /\ UNCHANGED <<store, local, final, foreigns, sent, faults>>

-----------------------------------------------------------------------------
Step(w) ==
  \/ \E o \in Ops : LeaseSigning(w, o)
  \/ PersistSigned(w)
  \/ \E o \in Ops, h \in Heights : Observe(w, o, h)
  \/ SaveObservation(w) \/ Admit(w) \/ LeaseDispatch(w) \/ Broadcast(w) \/ SettleDispatch(w)
  \/ Release(w) \/ Proceed(w) \/ EndPass(w)
  \/ \E o \in Ops, h \in Heights : ObserveReleased(w, o, h)
  \/ SaveReleased(w) \/ FenceReorged(w)
  \/ \E h \in Heights : ObserveSettlement(w, h)
  \/ Settle(w) \/ Refuse(w)

Expire == \E o \in Ops : ExpireSigning(o) \/ ExpireDispatch(o)

Chain ==
  \/ \E m \in mempool, cost \in Costs : Mine(m, cost)
  \/ Finalize

Next ==
  \/ \E o \in Ops : Prepare(o) \/ Lapse(o) \/ Claim(o)
  \/ \E o \in Ops, h \in Heights : ChainReads(o, h)
  \/ \E w \in Workers : Step(w) \/ Crash(w)
  \/ Expire
  \/ Chain
  \/ \E cost \in Costs : ForeignSend(cost)
  \/ \E h \in 0..Len(chain) : Reorg(h)

Spec == Init /\ [][Next]_vars

\* The worker's timer runs its pass for ever, leases end, and Base mines and
\* finalizes what it was sent.
Fairness ==
  /\ \A w \in Workers : WF_vars(Step(w))
  /\ WF_vars(Expire) /\ WF_vars(Chain)

FairSpec == Spec /\ Fairness

-----------------------------------------------------------------------------
(* Properties.                                                              *)

Unsettled == {o \in Ops : ops[o].state \in {"claimed", "signed"} /\ ~ops[o].settled}

\* rest_wallet_deployment_lane_consistent, the deferred constraint on the rows.
LaneRows ==
  /\ pool.active # None =>
       /\ pool.active \in Unsettled /\ ~ops[pool.active].released
       /\ ops[pool.active].nonce = pool.next
  /\ \A o \in Unsettled : o = pool.active \/ ops[o].released
  /\ \A n \in pool.sequence..(pool.next - 1) : \E o \in Released : ops[o].nonce = n
  /\ \A o \in Released : ops[o].nonce \in pool.sequence..(pool.next - 1)
  /\ \A o, p \in Released : ops[o].nonce = ops[p].nonce => o = p

\* Every row and every process holds values of its type.
TypeOK ==
  /\ pool.active \in Ops \cup {None} /\ pool.next \in Nat /\ pool.sequence \in Nat
  /\ \A o \in Ops :
       /\ ops[o].state \in {None, "prepared", "deleted", "claimed", "signed"}
       /\ ops[o].raw \in Workers \cup {None} /\ ops[o].lease \in Workers \cup {None}
       /\ ops[o].dispatch.attempts \in 0..MaxAttempts
  /\ \A w \in Workers : seen[w] \subseteq Ops \cup {Pool}

\* The lane's books balance: every unsettled operation is either the one active
\* operation, at the next nonce, or one of the released queue, whose nonces run
\* without gap or repetition from the next to settle up to the next to use. The
\* store's methods keep this without the deferred database trigger that would
\* abort a transaction breaking it.
LaneConsistent == TypeOK /\ LaneRows

\* The key never puts two different transactions behind one nonce, whatever the
\* signers answered, however often a worker crashed or a reorg undid a block.
OneTransactionPerNonce ==
  \A m, n \in sent : ops[m[1]].nonce = ops[n[1]].nonce => m = n

\* A settlement debits what Base finally charged: every settled operation is in
\* a finalized block and the recorded spending is the sum of those blocks' fees.
SpentIsFinal ==
  LET settledAt == {i \in 1..final : \E o \in Ops : ops[o].settled /\ chain[i].tx = <<o, ops[o].raw>>}
  IN  /\ \A o \in Ops : ops[o].settled => \E i \in settledAt : chain[i].tx[1] = o
      /\ pool.spent = MapThenSumSet(LAMBDA i : chain[i].cost, settledAt)

\* What creations have cost on the chain stays within the allocation, except for
\* fees above the admitted reservation, which Base does not cap.
OutlayWithinAllocation ==
  LET ours == {i \in 1..Len(chain) : chain[i].tx # None /\ chain[i].tx[1] # Foreign}
  IN  MapThenSumSet(LAMBDA i : Min({chain[i].cost, Reservation}), ours) <= Allocation


\* Nothing is sent for an operation that has left the lane: release waits out an
\* attempt in flight, and a sender whose lease ran out does not send.
SentWhileActive ==
  [][\A w \in Workers : pc[w] = "leased" /\ pc'[w] = "sent" => pool.active = held[w].op]_vars

=============================================================================
