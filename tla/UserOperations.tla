--------------------------- MODULE UserOperations ---------------------------
(****************************************************************************)
(* Operations of one smart account through a bundler (src/rest/             *)
(* userOperations): preparation, the review an application asks its owner   *)
(* for (wallet/paymentReviewsPostgres.ts), the claim of the nonce, the one  *)
(* publication, observation of the chain by every replica, and the sweep    *)
(* that keeps observing what is not settled.                                *)
(*                                                                          *)
(* A transaction of the database is one action. Network reads are actions   *)
(* of their own: the world moves between them and the write they lead to.   *)
(* A record's revision only serves to refuse a write that was computed from *)
(* an older record: here a write makes the looks taken before it stale.     *)
(*                                                                          *)
(* Time is the height of the chain. A block is the sequence of blocks up to *)
(* it and carries at most one operation of this account. What the local     *)
(* clock decides (a preparation has expired) may happen at any time, and    *)
(* does at the latest when the chain is past it. Behaviours begin with the  *)
(* first preparation.                                                       *)
(****************************************************************************)
EXTENDS Integers, Sequences, FiniteSets, SequencesExt

CONSTANTS
  None,
  Foreign,        \* an operation of the account that Center does not know
  Ops,            \* preparations, 1..n in the order of the sweep
  PlanOf,         \* the plan whose steps each one executes
  Reviewed,       \* those an application asks the owner to review
  Sigs,           \* signatures the owner may give
  Replicas,
  Sweepers,       \* those whose maintenance loop is on
  Callers,        \* submissions
  Lifetime,       \* of a preparation
  Margin,         \* beyond it, before it is declared expired
  Confirmations,
  MaxDepth,       \* of a reorganisation
  MaxHeight, MaxBundles,
  MaxDetours      \* how often something happens beside the ordinary course

ASSUME UserOperationsAssumption ==
  /\ Ops = 1..Cardinality(Ops) /\ Reviewed \subseteq Ops /\ Sweepers \subseteq Replicas
  /\ PlanOf \in [Ops -> Ops]
  /\ {Lifetime, Margin, Confirmations, MaxHeight, MaxBundles} \subseteq Nat \ {0}
  /\ {MaxDepth, MaxDetours} \subseteq Nat
  /\ MaxDepth < Confirmations /\ MaxDepth <= Margin

VARIABLES
  chain,      \* blocks [fork, tx, outcome, good]
  forks,
  records,    \* rest_user_operations
  nonceRow,   \* rest_user_operation_nonces
  review,     \* rest_wallet_payment_reviews
  calls,      \* submissions on their way
  inflight,   \* per replica and operation: the submission whose gates run
  pool,       \* what the bundler was sent and may include
  sends,      \* how often each operation was sent
  looks,      \* per replica and operation: an observation not yet stored
  checks,     \* per replica: account verifications at execution blocks
  cursor,     \* per replica: where the sweep goes on
  detours

network == <<chain, forks>>
tables == <<records, nonceRow, review>>
submitting == <<calls, inflight, pool, sends>>
observing == <<looks, checks, cursor>>
vars == <<network, tables, submitting, observing, detours>>

NoTx == [op |-> None, sig |-> None, bundle |-> 0]
ForeignTx == [op |-> Foreign, sig |-> None, bundle |-> 0]

Nonces == 0..MaxHeight
Prepared(nonce, height) ==
  [nonce |-> nonce, until |-> height + Lifetime, state |-> "prepared", sig |-> None, obs |-> None]
Unreviewed == [status |-> "none", sig |-> None]

Init ==
  /\ chain = <<[fork |-> 0, tx |-> NoTx, outcome |-> "success", good |-> TRUE]>>
  /\ forks = 0
  /\ records = [o \in Ops |-> IF o = 1 THEN Prepared(0, 1) ELSE None]
  /\ nonceRow = [n \in Nonces |-> None]
  /\ review = [o \in Ops |-> Unreviewed]
  /\ calls = [c \in Callers |-> None]
  /\ inflight = [r \in Replicas |-> [o \in Ops |-> None]]
  /\ pool = {} /\ sends = [o \in Ops |-> 0]
  /\ looks = [r \in Replicas |-> [o \in Ops |-> None]]
  /\ checks = [r \in Replicas |-> {}]
  /\ cursor = [r \in Sweepers |-> 0]
  /\ detours = 0

\* Something beside the ordinary course: a crash, a lost answer, a wrong or missing
\* hint, a reorganisation, a failed execution, a reader.
Detour == detours < MaxDetours /\ detours' = detours + 1

-----------------------------------------------------------------------------
(* The chain and the bundler (external). The EntryPoint executes an          *)
(* operation at its nonce and before its validity ends; a bundle that        *)
(* reverts as a whole executes none. The account's owners or modules may     *)
(* change: good says that they still are the reviewed ones.                  *)

Height == Len(chain)
Canonical(b) == IsPrefix(b, chain)
NonceAt(b) == Cardinality({i \in DOMAIN b : b[i].tx.op # None /\ b[i].outcome # "bundle"})
MinedAt(tx) == {i \in DOMAIN chain : chain[i].tx = tx}
Executions(o) == {i \in DOMAIN chain : chain[i].tx.op = o /\ chain[i].outcome # "bundle"}

\* The transactions an operation may be sent in.
Bundles(o) ==
  {[op |-> p.op, sig |-> p.sig, bundle |-> n] : p \in {q \in pool : q.op = o}, n \in 1..MaxBundles}

Includable ==
  UNION {Bundles(o) : o \in {p \in Ops : /\ records[p] # None /\ records[p].nonce = NonceAt(chain)
                                         /\ Height < records[p].until}}

Outcomes == {"success", "failed", "bundle"}

\* An operation that fails, one Center does not know and a change of the account
\* count as detours.
Mine(tx, outcome, good) ==
  /\ Height < MaxHeight /\ (good => Last(chain).good)
  /\ \/ tx \in {NoTx, ForeignTx} /\ outcome = "success"
     \/ tx \in Includable /\ MinedAt(tx) = {}
  /\ IF tx # ForeignTx /\ outcome = "success" /\ good = Last(chain).good
     THEN UNCHANGED detours ELSE Detour
  /\ chain' = Append(chain, [fork |-> forks, tx |-> tx, outcome |-> outcome, good |-> good])
  /\ UNCHANGED <<forks, tables, submitting, observing>>

\* The last blocks are replaced; what they included is in the pool again.
Reorganise(n) ==
  LET empty == [fork |-> forks + 1, tx |-> NoTx, outcome |-> "success", good |-> chain[n].good] IN
  /\ Detour /\ n \in 1..(Height - 1) /\ n >= Height - MaxDepth
  /\ chain' = SubSeq(chain, 1, n) \o [i \in 1..(Height - n) |-> empty]
  /\ forks' = forks + 1
  /\ UNCHANGED <<tables, submitting, observing>>

\* The bundler forgets what it was sent.
Forget(p) ==
  /\ p \in pool /\ Executions(p.op) = {} /\ Detour
  /\ pool' = pool \ {p}
  /\ UNCHANGED <<network, tables, calls, inflight, sends, observing>>

-----------------------------------------------------------------------------
(* Preparation: the nonce at a head, stored under the request's key; whoever *)
(* prepares under the same key gets the stored record.                       *)

Submitted(o) == records[o] # None /\ records[o].sig # None

\* Its record in force: submitted and not proven expired.
Live(o) == Submitted(o) /\ records[o].state # "expired"

\* assertPlan and claimPostgresTransport: a step is executed by one operation
\* for good, whatever becomes of it.
StepsFree(o) == \A p \in Ops \ {o} : PlanOf[p] = PlanOf[o] => ~Submitted(p)

Prepare(o) ==
  /\ records[o] = None /\ (\A p \in 1..(o - 1) : records[p] # None) /\ StepsFree(o)
  /\ records' = [records EXCEPT ![o] = Prepared(NonceAt(chain), Height)]
  /\ UNCHANGED <<network, nonceRow, review, submitting, observing, detours>>

-----------------------------------------------------------------------------
(* Reviews. The application gets the signature of an approved one.           *)

Expired(o) == records[o].until < Height

\* unspent: nothing was published for the operation or for its nonce.
Unspent(o) ==
  /\ records[o].state = "prepared" /\ StepsFree(o)
  /\ nonceRow[records[o].nonce] = None

AskReview(o) ==
  /\ o \in Reviewed /\ records[o] # None /\ review[o].status = "none"
  /\ Unspent(o) /\ ~Expired(o)
  /\ review' = [review EXCEPT ![o].status = "pending"]
  /\ UNCHANGED <<network, records, nonceRow, submitting, observing, detours>>

\* The same proof again is a replay and another one a conflict.
Approve(o, s) ==
  /\ review[o].status = "pending" /\ Unspent(o) /\ ~Expired(o)
  /\ review' = [review EXCEPT ![o] = [status |-> "approved", sig |-> s]]
  /\ UNCHANGED <<network, records, nonceRow, submitting, observing, detours>>

\* Mutant: an approved review is cancelled too.
CancellableAlways(o) == review[o].status \in {"pending", "approved"}

Cancellable(o) == review[o].status = "pending"

Cancel(o) ==
  /\ Cancellable(o) /\ ~Expired(o)
  /\ review' = [review EXCEPT ![o].status = "cancelled"]
  /\ UNCHANGED <<network, records, nonceRow, submitting, observing, detours>>

-----------------------------------------------------------------------------
(* Submission by the owner, by the approval itself (sendApproved, again at   *)
(* every look at the review) or by the application.                          *)

Signed(o, s) ==
  IF o \in Reviewed THEN review[o].status = "approved" /\ review[o].sig = s ELSE s \in Sigs

Call(o, s, r) == [op |-> o, sig |-> s, at |-> r, stage |-> "verified", on |-> None]
Done == [op |-> None, sig |-> None, at |-> None, stage |-> "done", on |-> None]


\* A submission ends, whatever became of its one publication.
Finished(c) == [calls EXCEPT ![c] = Done]

\* dispatch: the entry goes with the submission whose bytes it names.
Released(c) ==
  LET e == inflight[calls[c].at][calls[c].op] IN
  IF e # None /\ calls[e].sig = calls[c].sig
  THEN [inflight EXCEPT ![calls[c].at][calls[c].op] = None] ELSE inflight

\* admit: the account and the EntryPoint's validation at one head. Checks run
\* ahead of the approval (speculate) are a submission begun earlier.
Gates(o) == ~Expired(o) /\ Last(chain).good /\ NonceAt(chain) = records[o].nonce

\* Same bytes under way here: wait for them. A record that has a submission is
\* only observed.
Submit(c, r, o, s) ==
  LET e == inflight[r][o] IN
  /\ calls[c] = None /\ (\A d \in 1..(c - 1) : calls[d] # None)
  /\ records[o] # None /\ ~Submitted(o) /\ Signed(o, s)
  /\ IF e # None /\ calls[e].sig = s
     THEN /\ calls' = [calls EXCEPT ![c] = [Call(o, s, r) EXCEPT !.stage = "joined", !.on = e]]
          /\ UNCHANGED inflight
     ELSE /\ Gates(o)
          /\ calls' = [calls EXCEPT ![c] = Call(o, s, r)]
          /\ inflight' = [inflight EXCEPT ![r][o] = c]
  /\ UNCHANGED <<network, tables, pool, sends, observing, detours>>

\* The one waited for is done. It published these bytes, or this call tries.
Joined(c) ==
  LET k == calls[c] IN
  /\ k # None /\ k.stage = "joined" /\ calls[k.on].stage = "done"
  /\ IF records[k.op].sig = k.sig \/ ~Gates(k.op)
     THEN calls' = Finished(c) /\ UNCHANGED inflight
     ELSE /\ calls' = [calls EXCEPT ![c] = Call(k.op, k.sig, k.at)]
          /\ inflight' = [inflight EXCEPT ![k.at][k.op] = c]
  /\ UNCHANGED <<network, tables, pool, sends, observing, detours>>

\* The signature, the signed estimate or the claim refuses, or the operation is
\* claimed already.
Refused(c) ==
  /\ calls[c] # None /\ calls[c].stage = "verified"
  /\ calls' = Finished(c) /\ inflight' = Released(c)
  /\ UNCHANGED <<network, tables, pool, sends, observing, detours>>

\* Mutant: a nonce that is taken is taken over.
NonceTaken(o) == TRUE

\* The row of the full nonce is this operation's to insert.
NonceFree(o) == nonceRow[records[o].nonce] = None

\* Only the first claim of an operation dispatches.
Claim(c) ==
  LET k == calls[c]
      o == k.op IN
  /\ k # None /\ k.stage = "verified"
  /\ ~Submitted(o) /\ ~Expired(o) /\ StepsFree(o) /\ NonceFree(o)
  /\ records' = [records EXCEPT ![o].state = "submitting", ![o].sig = k.sig]
  /\ nonceRow' = [nonceRow EXCEPT ![records[o].nonce] = o]
  /\ calls' = [calls EXCEPT ![c].stage = "claimed"]
  /\ UNCHANGED <<network, review, inflight, pool, sends, observing, detours>>

\* The one publication. Its failure says nothing about what the bundler has.
Send(c, got, answered) ==
  LET k == calls[c] IN
  /\ k # None /\ k.stage = "claimed"
  /\ answered => got
  /\ IF answered THEN UNCHANGED detours ELSE Detour
  /\ pool' = IF got THEN pool \cup {[op |-> k.op, sig |-> k.sig]} ELSE pool
  /\ sends' = [sends EXCEPT ![k.op] = @ + 1]
  /\ calls' = [calls EXCEPT ![c].stage = IF answered THEN "pending" ELSE "submission_unknown"]
  /\ UNCHANGED <<network, tables, inflight, observing>>

\* A write to the record makes the looks taken before it stale.
Staled(o) ==
  [r \in Replicas |-> IF looks[r][o] = None THEN looks[r] ELSE [looks[r] EXCEPT ![o].stale = TRUE]]

\* settled: an observation stands.
Settled(rec, state) == IF rec.obs # None THEN rec ELSE [rec EXCEPT !.state = state]

Settle(c) ==
  LET k == calls[c]
      next == Settled(records[k.op], k.stage) IN
  /\ k # None /\ k.stage \in {"pending", "submission_unknown"}
  /\ records' = [records EXCEPT ![k.op] = next]
  /\ looks' = IF next # records[k.op] THEN Staled(k.op) ELSE looks
  /\ calls' = Finished(c) /\ inflight' = Released(c)
  /\ UNCHANGED <<network, nonceRow, review, pool, sends, checks, cursor, detours>>

\* The replica stops: what it had in memory is gone.
Crash(r) ==
  /\ Detour
  /\ calls' = [c \in Callers |-> IF calls[c] # None /\ calls[c].at = r THEN Done ELSE calls[c]]
  /\ inflight' = [inflight EXCEPT ![r] = [o \in Ops |-> None]]
  /\ looks' = [looks EXCEPT ![r] = [o \in Ops |-> None]]
  /\ checks' = [checks EXCEPT ![r] = {}]
  /\ cursor' = [s \in Sweepers |-> IF s = r THEN 0 ELSE cursor[s]]
  /\ UNCHANGED <<network, tables, pool, sends>>

-----------------------------------------------------------------------------
(* Observation (observeUserOperation). A replica has one observation of an   *)
(* operation at a time: whoever comes meanwhile joins it.                    *)

\* The count of confirmations is left out: a write that only renews it changes
\* nothing else.
Seen(state, tx, block, verified) ==
  [state |-> state, tx |-> tx, block |-> block, verified |-> verified]

\* Mutant: the nonce at the head is not read.
NeverIncludedUnread(o) == Height > records[o].until + Margin

\* The validity ended, with a margin for reorganisations, and the nonce was
\* not used.
NeverIncluded(o) == Height > records[o].until + Margin /\ NonceAt(chain) = records[o].nonce

\* unincluded
Unincluded(o, tx) ==
  IF Height <= records[o].until + Margin THEN Seen("pending", tx, None, FALSE)
  ELSE IF NeverIncluded(o) THEN Seen("expired", None, None, FALSE)
  ELSE Seen("unknown", tx, None, FALSE)

\* The hash a look goes by: the bundler's hint, or the one already observed.
HashOf(o, hint) ==
  IF hint # None THEN hint ELSE IF records[o].obs # None THEN records[o].obs.tx ELSE None

\* The account verifications of an operation at a block, by status.
Checked(r, o, b) == {k \in checks[r] : k.op = o /\ k.block = b}

\* verifyAccountAtBlock: verified before, on record or in memory.
VerifiedBefore(r, o, b) ==
  \/ records[o].obs # None /\ records[o].obs.verified /\ records[o].obs.block = b
  \/ \E k \in Checked(r, o, b) : k.status = "verified"

\* Whether the account counts as verified at b, and the verifications after
\* asking. A first question starts one and may get its answer at once; one that
\* failed is run again, in front: then there is no answer without success.
Verifications(r, o, b) ==
  LET rest == checks[r] \ Checked(r, o, b)
      status == {k.status : k \in Checked(r, o, b)}
      good == Last(b).good IN
  IF VerifiedBefore(r, o, b)
  THEN {[answer |-> TRUE, checks |-> {k \in checks[r] : k \in rest \/ k.status # "verified"}]}
  ELSE IF "running" \in status THEN {[answer |-> FALSE, checks |-> checks[r]]}
  ELSE IF "failed" \in status THEN (IF good THEN {[answer |-> TRUE, checks |-> rest]} ELSE {})
  ELSE {[answer |-> FALSE, checks |-> rest \cup {[op |-> o, block |-> b, status |-> "running"]}]}
       \cup (IF good THEN {[answer |-> TRUE, checks |-> rest]} ELSE {})

\* An executed operation: settled once it is deep enough and, if it succeeded,
\* the account was verified at its block.
Executed(r, o, tx, i) ==
  LET b == SubSeq(chain, 1, i)
      deep == Height - i + 1 >= Confirmations IN
  IF chain[i].outcome # "success"
  THEN {[obs |-> Seen(IF deep THEN "reverted" ELSE "confirming", tx, b, FALSE),
         checks |-> checks[r]]}
  ELSE {[obs |-> Seen(IF v.answer /\ deep THEN "confirmed" ELSE "confirming", tx, b, v.answer),
         checks |-> v.checks] : v \in Verifications(r, o, b)}

\* What a look may find. None of them: it ended in an error.
Observations(r, o, hint) ==
  LET tx == HashOf(o, hint) IN
  IF tx = None \/ MinedAt(tx) = {}
  THEN {[obs |-> Unincluded(o, tx), checks |-> checks[r]]}
  ELSE IF tx.op # o \/ tx.sig # records[o].sig
  THEN {[obs |-> Seen("unknown", tx, None, FALSE), checks |-> checks[r]]}
  ELSE UNION {Executed(r, o, tx, i) : i \in MinedAt(tx)}

\* The bundler knows the transaction of an included operation; it may know none,
\* one that is not in the chain or one of another operation.
Hints(o) ==
  IF Executions(o) # {} THEN {chain[i].tx : i \in Executions(o)}
  ELSE {None} \cup {tx \in Bundles(o) : MinedAt(tx) # {}}
AnyHints == {None} \cup UNION {Bundles(o) : o \in Ops}

\* refresh: an expired operation is not looked at again, and a confirmed one
\* not as long as its block is there.
Refreshed(o) ==
  /\ Live(o)
  /\ records[o].state = "confirmed" => ~Canonical(records[o].obs.block)

Observe(r, o, hint) ==
  /\ looks[r][o] = None /\ Refreshed(o)
  /\ \E f \in Observations(r, o, hint) :
       /\ looks' = [looks EXCEPT ![r][o] = [obs |-> f.obs, stale |-> FALSE]]
       /\ checks' = [checks EXCEPT ![r] = f.checks]

\* A reader of the operation or of its plan asks ahead of the sweep.
Poll(r, o, hint) ==
  /\ Detour /\ hint \in Hints(o)
  /\ Observe(r, o, hint)
  /\ UNCHANGED <<network, tables, submitting, cursor>>

\* The verification behind an answer lands. It causes a look at the operation,
\* which the sweep takes too.
Land(r, k) ==
  /\ k \in checks[r] /\ k.status = "running"
  /\ \E ok \in BOOLEAN :
       /\ ok => Last(k.block).good
       /\ IF ~ok /\ Last(k.block).good THEN Detour ELSE UNCHANGED detours
       /\ checks' = [checks EXCEPT ![r] =
            (@ \ {k}) \cup {[k EXCEPT !.status = IF ok THEN "verified" ELSE "failed"]}]
  /\ UNCHANGED <<network, tables, submitting, looks, cursor>>

\* observed, compared with the record the look began with. An expired
\* operation gives its nonce back and keeps its steps.
Store(r, o) ==
  LET l == looks[r][o] IN
  /\ UNCHANGED <<network, review, submitting, checks, cursor, detours>>
  /\ l # None
  /\ IF l.stale \/ l.obs = records[o].obs
     THEN looks' = [looks EXCEPT ![r][o] = None] /\ UNCHANGED <<records, nonceRow>>
     ELSE /\ records' = [records EXCEPT ![o].state = l.obs.state, ![o].obs = l.obs]
          /\ nonceRow' = IF l.obs.state = "expired"
               THEN [n \in Nonces |-> IF nonceRow[n] = o THEN None ELSE nonceRow[n]]
               ELSE nonceRow
          /\ looks' = [Staled(o) EXCEPT ![r][o] = None]

-----------------------------------------------------------------------------
(* The sweep (recoverPending), in batches of one.                            *)

\* Mutant: an operation that was claimed and not settled is left out.
RecoverableSettled(o) ==
  records[o] # None /\ records[o].state \in {"submission_unknown", "pending", "unknown", "confirming"}

Recoverable(o) ==
  /\ records[o] # None
  /\ records[o].state \in {"submitting", "submission_unknown", "pending", "unknown", "confirming"}

Due == {o \in Ops : Recoverable(o)}

\* In the order of the sweep, round and round.
NextDue(r) ==
  LET later == {o \in Due : o > cursor[r]} IN
  CHOOSE o \in IF later = {} THEN Due ELSE later :
    \A p \in IF later = {} THEN Due ELSE later : o <= p

\* The sweep joins a look under way; one that ends in an error does not hold it
\* up.
Sweep(r, hint) ==
  LET o == NextDue(r) IN
  /\ UNCHANGED <<network, tables, submitting>>
  /\ Due # {} /\ (cursor[r] # 0 => looks[r][cursor[r]] = None)
  /\ cursor' = [cursor EXCEPT ![r] = o]
  /\ IF hint \in Hints(o) THEN UNCHANGED detours ELSE Detour
  /\ IF looks[r][o] = None /\ Observations(r, o, hint) # {} THEN Observe(r, o, hint)
     ELSE UNCHANGED <<looks, checks>>

-----------------------------------------------------------------------------

MineAny ==
  \E tx \in {NoTx, ForeignTx} \cup Includable, outcome \in Outcomes,
     good \in BOOLEAN : Mine(tx, outcome, good)

SweepAny(r) == \E hint \in AnyHints : Sweep(r, hint)
LandAny(r) == \E k \in checks[r] : Land(r, k)

Next ==
  \/ MineAny \/ \E n \in 1..MaxHeight : Reorganise(n)
  \/ \E p \in pool : Forget(p)
  \/ \E o \in Ops : Prepare(o) \/ AskReview(o) \/ Cancel(o) \/ \E s \in Sigs : Approve(o, s)
  \/ \E c \in Callers :
       \/ \E r \in Replicas, o \in Ops, s \in Sigs : Submit(c, r, o, s)
       \/ Joined(c) \/ Refused(c) \/ Claim(c) \/ Settle(c)
       \/ \E got, answered \in BOOLEAN : Send(c, got, answered)
  \/ \E r \in Replicas :
       \/ Crash(r) \/ LandAny(r)
       \/ \E o \in Ops : Store(r, o) \/ \E hint \in AnyHints : Poll(r, o, hint)
  \/ \E r \in Sweepers : SweepAny(r)

Spec == Init /\ [][Next]_vars

\* The chain grows, verifications and observations end, and the maintenance
\* loops come round. Nobody has to submit or to ask.
FairSpec ==
  /\ Spec /\ WF_vars(MineAny)
  /\ \A r \in Sweepers :
       WF_vars(LandAny(r)) /\ WF_vars(SweepAny(r)) /\ WF_vars(\E o \in Ops : Store(r, o))

-----------------------------------------------------------------------------
(* Properties.                                                              *)

\* Records and tables agree with each other: an observation decides the state,
\* only what was claimed is observed, a review is signed when it is approved.
TypeOK ==
  /\ \A o \in Ops : records[o] # None =>
       /\ records[o].nonce \in Nonces
       /\ records[o].sig = None <=> records[o].state = "prepared"
       /\ records[o].obs # None => records[o].sig # None /\ records[o].state = records[o].obs.state
       /\ records[o].state \in {"prepared", "submitting", "pending", "submission_unknown", "unknown",
                               "confirming", "confirmed", "reverted", "expired"}
  /\ \A o \in Ops : review[o].status = "approved" => review[o].sig \in Sigs
  /\ detours \in 0..MaxDetours /\ cursor \in [Sweepers -> Ops \cup {0}]


\* Every operation that may still execute holds its nonce, alone: a nonce is
\* given to another operation only after the first was proven never to execute
\* (postgres.ts claim, observe).
NonceHeldWhileLive ==
  \A n \in Nonces : {o \in Ops : Live(o) /\ records[o].nonce = n} =
    IF nonceRow[n] = None THEN {} ELSE {nonceRow[n]}

\* What is recorded as final is so on the chain: an expired operation is not
\* executed, then or later; a confirmed one succeeded in the block on record,
\* with the reviewed account; a reverted one has a canonical block that says so
\* (execution.ts observeUserOperation). The records and tables keep their form.
FinalIsTrue ==
  TypeOK /\ \A o \in Ops : records[o] # None =>
    LET rec == records[o] IN
    /\ rec.state = "expired" => Executions(o) = {}
    /\ rec.state \in {"confirmed", "reverted"} =>
         /\ Canonical(rec.obs.block)
         /\ Last(rec.obs.block).tx.op = o /\ Last(rec.obs.block).tx.sig = rec.sig
    /\ rec.state = "confirmed" => Last(rec.obs.block).outcome = "success" /\ Last(rec.obs.block).good
    /\ rec.state = "reverted" => Last(rec.obs.block).outcome # "success"

\* What an application has executed is what the owner approved in its review:
\* that signature, and never after the review was cancelled
\* (paymentReviewsPostgres.ts approve, cancel).
ApprovedAsSent ==
  \A o \in Reviewed : Submitted(o) => review[o] = [status |-> "approved", sig |-> records[o].sig]

Final(o) == Submitted(o) /\ records[o].state \in {"confirmed", "reverted", "expired"}

\* The chain of the instance ends before this one can be settled.
CutOff(o) == records[o] # None /\ records[o].until + Margin >= MaxHeight

\* Nothing Center does can settle these: the nonce went to an operation it does
\* not know, the account at the block is not the reviewed one, or the bundler
\* named a transaction of something else and never the right one.
Unsettleable(o) ==
  \/ Executions(Foreign) # {}
  \/ \E i \in Executions(o) : ~chain[i].good
  \/ Submitted(o) /\ records[o].obs # None /\ records[o].obs.tx # None /\ records[o].obs.tx.op # o

\* Whatever was claimed is settled in the end, sent or not, although no reader
\* asks for it: the sweep reaches it, and an operation whose submission crashed
\* before it was sent expires (service.ts recoverPending).
EventuallyFinal ==
  []<>(\A o \in Ops : Submitted(o) => Final(o) \/ Unsettleable(o) \/ CutOff(o))

=============================================================================
