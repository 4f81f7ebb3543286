-------------------------- MODULE TransactionPlans --------------------------
(***************************************************************************)
(* Transaction plans: the durable journal that decides which executor acts *)
(* for each step of a reviewed plan.  A step is executed either by one     *)
(* owner-signed transaction that the service relays ("direct"), or by one  *)
(* external wave (a Relayr forwarding wave or an ERC-4337 operation).      *)
(* PostgreSQL rows are the shared variables; requests and the 30-second    *)
(* maintenance sweep are workers that read, call the network, and write    *)
(* back under a revision compare-and-set.                                  *)
(*                                                                         *)
(* Abstractions of data.  A signed transaction, a wave, a nonce slot and an *)
(* idempotency key are model values.  The plan's revision number is kept   *)
(* as job[w].fresh: "the revision this request holds is the stored one";   *)
(* every revision++ makes every other holder's copy stale.  A lease token  *)
(* (a fresh UUID per dispatch claim) is the dispatch count it was minted   *)
(* with.  Clocks are abstracted to the events LeaseExpires and PlanExpires.*)
(***************************************************************************)
EXTENDS Naturals, FiniteSets

CONSTANTS
    Plans, Steps,       \* plan identifiers and step indexes
    DependsOn,          \* [Steps -> SUBSET Steps], draft.calls[s].dependsOn
    Txs,                \* owner-signed transactions
    Fits,               \* <<tx, plan, step>> that validateSignedTransaction accepts
    SlotOf,             \* [Txs -> Slots], the (chain, sender, nonce) of a transaction
    Slots, Earlier,     \* nonce slots; [Slots -> SUBSET Slots], lower nonces of a sender
    Waves,              \* external bindings (bindingId)
    WavePlan, WaveSteps,\* the plan and the steps a wave executes
    Forwarded,          \* the waves whose transport is "relayr"; the others are "erc4337"
    Outers,             \* transactions a provider may send for a wave
    OuterWave, OuterSteps,
    Keys,               \* idempotency keys
    Requests, Sweeper,  \* HTTP requests in flight; the maintenance sweep
    Verdicts,           \* what the semantic verifier may answer for a success
    Results,            \* how executions may end: TRUE for success
    Events,             \* which of "sweep", "wallet", "drop", "lease", "expire", "revoke" happen
    None,
    Retries,            \* refreshStored's retries on a 409 (2 in the code)
    MaxDispatches,      \* bound: dispatch claims per step
    MaxReorgs,          \* bound: reorganisations
    MaxFaults           \* bound: lost replies, unreadable evidence and crashes

VARIABLES
    created,    \* plans stored (rest_transaction_plans)
    steps,      \* steps[p][s]: the stored step document
    expired,    \* plans whose expiresAt has passed
    transport,  \* transport[p][s]: rest_transaction_transports, None or its binding
    leased,     \* steps whose attempt holds an unexpired dispatch lease
    nonceOwner, \* rest_transaction_nonces: None or the reserving <<plan, step, tx>>
    idem,       \* rest_transaction_idempotency: None or the request it is bound to
    active,     \* the actor's grant is active
    wave,       \* lifecycle of each external binding
    chain,      \* what the chain holds of each transaction
    job,        \* local state of every request
    reorgs, faults,
    relayed,    \* history: <<plan, step, tx>> handed to eth_sendRawTransaction
    published,  \* history: waves handed to their provider
    deepened    \* history: receipts that reached the confirmation depth

store == <<created, steps, expired, transport, leased, nonceOwner, idem, active>>
world == <<wave, chain, reorgs, faults>>
history == <<relayed, published, deepened>>
vars == <<store, world, job, history>>

Workers == Requests \cup {Sweeper}
AllTxs == Txs \cup Outers
Executors == Txs \cup Waves

StepStates == {"waiting", "reserved", "submitted", "unknown", "confirming",
               "confirmed", "reverted", "reorged"}
Semantics == {"none", "ok", "failed", "unknown"}
WaveStates == {"idle", "checked", "claimed", "tagged", "quoted", "unknown", "lapsed"}

Receipts == [tx : AllTxs, block : Nat, ok : BOOLEAN, canonical : BOOLEAN]

StepDocs == [state : StepStates, attempt : Txs \cup {None}, token : Nat,
             ext : Waves \cup {None}, hash : Outers \cup {None},
             receipt : Receipts \cup {None}, semantic : Semantics]

Claims == [plan : Plans, step : Steps \cup {None}, tx : Txs \cup {None}]

Jobs == [pc : {"idle", "observe", "save", "check", "claim", "send", "settle"},
         kind : {"read", "submit"}, plan : Plans \cup {None}, step : Steps \cup {None},
         tx : Txs \cup {None}, key : Keys \cup {None}, fresh : BOOLEAN,
         snap : [Steps -> StepDocs], obs : [Steps -> StepDocs \cup {None}],
         left : Nat, dispatch : BOOLEAN, token : Nat, sent : BOOLEAN]

NewStep == [state |-> "waiting", attempt |-> None, token |-> 0, ext |-> None,
            hash |-> None, receipt |-> None, semantic |-> "none"]

IdleJob == [pc |-> "idle", kind |-> "read", plan |-> None, step |-> None,
            tx |-> None, key |-> None, fresh |-> FALSE,
            snap |-> [s \in Steps |-> NewStep], obs |-> [s \in Steps |-> None],
            left |-> 0, dispatch |-> FALSE, token |-> 0, sent |-> FALSE]

\* The constants have the shapes their comments say, and the names of
\* transactions and waves are distinct.
ASSUME ConstantShapes ==
    /\ DependsOn \in [Steps -> SUBSET Steps]
    /\ Fits \subseteq Txs \X Plans \X Steps
    /\ SlotOf \in [Txs -> Slots]
    /\ WavePlan \in [Waves -> Plans] /\ WaveSteps \in [Waves -> SUBSET Steps]
    /\ Forwarded \subseteq Waves
    /\ OuterWave \in [Outers -> Waves] /\ OuterSteps \in [Outers -> SUBSET Steps]
    /\ Verdicts \subseteq {"ok", "failed", "unknown"} /\ Results \subseteq BOOLEAN
    /\ Retries \in Nat

ASSUME ConstantsDistinct ==
    /\ Txs \cap Waves = {}
    /\ None \notin Txs \cup Waves \cup Outers /\ None \notin StepDocs
    /\ None \notin Plans /\ None \notin Steps /\ None \notin Keys /\ None \notin Workers
    /\ \A p \in Plans, s \in Steps, t \in Txs : None # <<p, s, t>>

Init ==
    /\ created = {}
    /\ steps = [p \in Plans |-> [s \in Steps |-> NewStep]]
    /\ expired = {}
    /\ transport = [p \in Plans |-> [s \in Steps |-> None]]
    /\ leased = {}
    /\ nonceOwner = [n \in Slots |-> None]
    /\ idem = [k \in Keys |-> None]
    /\ active = TRUE
    /\ wave = [v \in Waves |-> "idle"]
    /\ chain = [t \in AllTxs |-> [where |-> "absent", ok |-> FALSE, deep |-> FALSE, block |-> 0]]
    /\ job = [w \in Workers |-> IdleJob]
    /\ reorgs = 0 /\ faults = 0
    /\ relayed = {} /\ published = {} /\ deepened = {}

-----------------------------------------------------------------------------
(* Observations of the chain. *)

InFlight(t) == chain[t].where # "absent"
Mined(t) == chain[t].where = "mined"

\* knownTransaction: a node has the transaction or its receipt.
Known(t) == InFlight(t)

\* preflight's nonce test: the slot is exactly the sender's pending nonce.
NonceReady(t) ==
    /\ \A u \in Txs : SlotOf[u] = SlotOf[t] => ~InFlight(u)
    /\ \A n \in Earlier[SlotOf[t]] : \E u \in Txs : SlotOf[u] = n /\ InFlight(u)

\* observeReceipt on a transaction that is in a canonical block.
Receipt(t) == [tx |-> t, block |-> chain[t].block, ok |-> chain[t].ok, canonical |-> TRUE]

\* The catch of refreshStep and refreshExternalStep: evidence could not be read.
Unverified(st) == [st EXCEPT !.state = "unknown", !.semantic = "unknown"]

\* Mutant of Reconciled: the confirmation depth is not awaited.
ReconciledAtOnce(st, t) ==
    {[st EXCEPT !.receipt = Receipt(t), !.semantic = IF chain[t].ok THEN "ok" ELSE "failed",
                !.state = IF chain[t].ok THEN "confirmed" ELSE "reverted"]}

\* What a stored step becomes once its transaction t is found in a canonical block.
Reconciled(st, t) ==
    LET seen == [st EXCEPT !.receipt = Receipt(t)]
    IN  IF ~chain[t].deep
        THEN {[seen EXCEPT !.state = "confirming", !.semantic = "unknown"]}
        ELSE IF ~chain[t].ok
        THEN {[seen EXCEPT !.state = "reverted", !.semantic = "failed"]}
        ELSE {[seen EXCEPT !.state = "confirmed", !.semantic = v] : v \in Verdicts}

\* A receipt was stored and no node has one any more: its block was replaced.
Orphaned(st) == [st EXCEPT !.state = "reorged", !.semantic = "unknown",
                           !.receipt = [@ EXCEPT !.canonical = FALSE]]

RefreshStep(st) ==
    IF st.attempt = None THEN {st}
    ELSE IF Mined(st.attempt) THEN Reconciled(st, st.attempt)
    ELSE IF st.receipt = None THEN {st}
    ELSE {Orphaned(st)}

\* Transactions the provider of wave v has sent for step s.
Hints(v, s) == {o \in Outers : OuterWave[o] = v /\ s \in OuterSteps[o] /\ InFlight(o)}

\* The hash the observer of an external step reports.  Forwarded waves: a stored
\* hash that succeeded, then the provider's hint, then a stored hash's receipt;
\* without a recorded quote there is nothing to ask for.  Operations: a
\* confirmed hash, then the bundler's hint, then the stored hash.
ObservedHash(st, s) ==
    LET mined == st.hash # None /\ Mined(st.hash)
        stored == IF mined THEN st.hash ELSE None
    IN  IF st.ext \in Forwarded
        THEN IF wave[st.ext] # "quoted" THEN {None}
             ELSE IF mined /\ chain[st.hash].ok THEN {st.hash}
             ELSE Hints(st.ext, s) \cup {stored}
        ELSE IF mined /\ st.state = "confirmed" THEN {st.hash}
             ELSE Hints(st.ext, s) \cup {st.hash}

\* Mutant of KeepsResult: the provider's latest hash always wins.
NeverKeepsResult(st, h) == FALSE

\* The previously verified execution still occupies its canonical block, so a
\* later provider retry h must not replace it.
KeepsResult(st, h) ==
    /\ h # None /\ st.hash # None /\ h # st.hash
    /\ st.state = "confirmed" /\ st.receipt # None
    /\ st.receipt.canonical
    /\ Mined(st.hash) /\ chain[st.hash].ok /\ chain[st.hash].block = st.receipt.block

\* ... so that result is verified again; only forwarded steps are judged anew.
Rejudged(st) == IF st.ext \in Forwarded THEN Verdicts ELSE {st.semantic}

Kept(st) ==
    {[st EXCEPT !.state = IF chain[st.hash].deep THEN "confirmed" ELSE "confirming",
                !.receipt = Receipt(st.hash), !.semantic = v]
        : v \in Rejudged(st)}

\* Mutant of Rebased: the receipt of another hash is kept.
RebasedKeepingReceipt(st, t) == [st EXCEPT !.hash = t]

\* The observed hash replaces the stored one, and drops the receipt of another.
Rebased(st, t) == [st EXCEPT !.hash = t, !.receipt = IF @ # None /\ @.tx = t THEN @ ELSE None]

\* The outer transaction succeeded, but the bound inner execution failed or
\* could not be proved.
Unproven(st, t) ==
    {[st EXCEPT !.receipt = Receipt(t), !.semantic = v,
                !.state = IF v = "failed" THEN "reverted" ELSE "unknown"]
        : v \in {x \in Verdicts : x # "ok" /\ chain[t].deep /\ chain[t].ok}}

\* refreshExternalStep once the observer named hash h (None: nothing to name).
ExternalView(st, h) ==
    LET t == IF h # None THEN h ELSE st.hash
        base == Rebased(st, t)
        pending == st.ext \in Forwarded => wave[st.ext] = "quoted"
    IN  IF KeepsResult(st, h) THEN Kept(st)
        ELSE IF t = None
        THEN {[base EXCEPT !.state = IF pending THEN "reserved" ELSE "unknown",
                           !.semantic = "unknown"]}
        ELSE IF Mined(t) THEN Reconciled(base, t) \cup Unproven(base, t)
        ELSE IF base.receipt # None THEN {Orphaned(base)}
        ELSE {[base EXCEPT !.state = "submitted", !.semantic = "unknown"]}

\* An operation proven never to execute settles its steps as failed.
NeverPublished(st) == [st EXCEPT !.hash = None, !.receipt = None,
                                 !.state = "reverted", !.semantic = "failed"]

RefreshExternalStep(st, s) ==
    IF wave[st.ext] = "lapsed" THEN {NeverPublished(st)}
    ELSE UNION {ExternalView(st, h) : h \in ObservedHash(st, s)}

-----------------------------------------------------------------------------
(* Creating a plan. *)

Outcome(p, s, t) == [plan |-> p, step |-> s, tx |-> t]

\* Mutant of KeyAdmits: a used key may be spent on another request.
AnyKeyAdmits(k, request) == TRUE

\* checkIdempotency: a used key only ever repeats the request it was used for.
\* Keys are the ones clients reuse; None stands for a key used this once.
KeyAdmits(k, request) == k # None => idem[k] \in {None, request}

ReserveKey(k, request) == idem' = [x \in Keys |-> IF x = k THEN request ELSE idem[x]]

\* createBoundPlan and the store's create: one database transaction under the
\* account lock.  A repeated key returns the plan it already names.
CreatePlan(p, k) ==
    /\ active /\ p \notin created /\ p \notin expired
    /\ k # None => idem[k] = None
    /\ created' = created \cup {p}
    /\ ReserveKey(k, Outcome(p, None, None))
    /\ UNCHANGED <<steps, expired, transport, leased, nonceOwner, active, world, job, history>>

-----------------------------------------------------------------------------
(* The refresh shared by reads, submissions and the sweep (refreshStored). *)

\* A write to plan p by worker w, whose local state becomes mine: the stored
\* revision moves, so every other request's copy of p is stale.
Advance(p, w, mine) ==
    job' = [x \in Workers |->
              IF x = w THEN mine
              ELSE [job[x] EXCEPT !.fresh = @ /\ job[x].plan # p]]

Goto(w, mine) == job' = [job EXCEPT ![w] = mine]
Stop(w) == Goto(w, IdleJob)

\* Mutant of RecoverableStates: a lost answer is taken for a settled step.
RecoverableWithoutUnknown == {"reserved", "submitted", "confirming", "reorged"}

RecoverableStates == {"reserved", "submitted", "unknown", "confirming", "reorged"}

Bound(st) == st.attempt # None \/ st.ext # None

IsRecoverableStep(st) ==
    /\ Bound(st)
    /\ \/ st.state \in RecoverableStates
       \/ st.state = "confirmed" /\ st.semantic \in {"none", "unknown"}

\* Mutant of Recoverable: reservations that reached no step document are missed.
RecoverableBySteps(p) == \E s \in Steps : IsRecoverableStep(steps[p][s])

\* The store's recoverable(): pending steps, or an external reservation that no
\* step document shows yet.
Recoverable(p) ==
    \E s \in Steps : \/ IsRecoverableStep(steps[p][s])
                     \/ transport[p][s] \in Waves /\ steps[p][s].ext = None

\* attachExternalExecutions over the bindings rows.
Attachable(p, rows) ==
    \A s \in Steps : rows[s] \in Waves =>
        /\ steps[p][s].attempt = None
        /\ \/ steps[p][s].ext = rows[s]
           \/ /\ steps[p][s].ext = None /\ steps[p][s].state = "waiting"
              /\ steps[p][s].receipt = None /\ steps[p][s].semantic = "none"

Attached(p, rows) ==
    [s \in Steps |-> IF rows[s] \in Waves /\ steps[p][s].ext = None
                     THEN [steps[p][s] EXCEPT !.ext = rows[s], !.state = "reserved"]
                     ELSE steps[p][s]]

\* Where a request goes once its refresh has returned.
Refreshed(mine) == IF mine.kind = "submit"
                   THEN [mine EXCEPT !.pc = "check", !.obs = IdleJob.obs, !.left = 0] ELSE IdleJob

\* syncExternalExecutions, one transaction on the locked plan row: request w
\* then holds the merged plan and reads the evidence of each bound step.
Sync(w, mine) ==
    LET p == mine.plan
        next == Attached(p, transport[p])
        unread == {s \in Steps : Bound(next[s])}
        held == [mine EXCEPT !.pc = "observe", !.snap = next, !.fresh = TRUE,
                             !.obs = [s \in Steps |-> IF s \in unread THEN None ELSE next[s]]]
        cont == IF unread # {} THEN held ELSE Refreshed(held)
    IN  /\ IF Attachable(p, transport[p])
           THEN /\ steps' = [steps EXCEPT ![p] = next]
                /\ IF next = steps[p] THEN Goto(w, cont) ELSE Advance(p, w, cont)
           ELSE Stop(w) /\ UNCHANGED steps
        /\ UNCHANGED <<created, expired, transport, leased, nonceOwner, idem, active, world, history>>

Reading(p) == [IdleJob EXCEPT !.plan = p, !.left = Retries]

\* getPlan, listPlans, simulateStep, and the refresh that ends every submission.
StartRead(w, p) ==
    /\ job[w].pc = "idle" /\ p \in created
    /\ Sync(w, Reading(p))

\* submitStep: a step bound to another hash refuses before the refresh.
StartSubmit(w, p, s, t, k) ==
    /\ job[w].pc = "idle" /\ p \in created /\ <<t, p, s>> \in Fits
    /\ steps[p][s].attempt \in {None, t}
    /\ Sync(w, [Reading(p) EXCEPT !.kind = "submit", !.step = s, !.tx = t, !.key = k])

\* recoverPending visits a plan.
StartRecovery(p) ==
    /\ "sweep" \in Events
    /\ job[Sweeper].pc = "idle" /\ p \in created /\ Recoverable(p)
    /\ Sync(Sweeper, Reading(p))

Views(st, s) == IF st.ext # None THEN RefreshExternalStep(st, s) ELSE RefreshStep(st)

\* The receipt was read from one side of a reorganisation and its block from the
\* other.
Torn(st, t) == [st EXCEPT !.state = "reorged", !.semantic = "unknown",
                          !.receipt = [Receipt(t) EXCEPT !.canonical = FALSE]]

\* With a failing node or provider: no verdict, a torn read, or an observer that
\* missed the stored receipt and reports whatever its provider names.  What a
\* node says of a result that KeepsResult protects is taken to be true.
FaultyViews(st, s) ==
    LET open == st.ext # None /\ wave[st.ext] = "quoted"
    IN  {Unverified(st)}
        \cup {Torn(st, t) : t \in {x \in {st.attempt} \cap Txs : Mined(x)}}
        \cup {Torn(Rebased(st, t), t) : t \in {x \in Outers : /\ open /\ x \in Hints(st.ext, s)
                                                              /\ Mined(x) /\ ~KeepsResult(st, x)}}
        \cup UNION {ExternalView(st, h) : h \in {x \in Outers : open /\ x \in Hints(st.ext, s)}}

\* The canonical encodings differ: a receipt read again carries a new observedAt.
Rewritten(old, new) == old # new \/ (new.receipt # None /\ new.state # "unknown")

Unsaved(j) == {s \in Steps : j.obs[s] # None /\ Rewritten(j.snap[s], j.obs[s])}
UnsavedDirect(j) == {s \in Unsaved(j) : j.snap[s].ext = None}

\* One more step was read; after the last one there may be something to save.
Read(w, s, st) ==
    LET j == [job[w] EXCEPT !.obs[s] = st]
    IN  Goto(w, IF \E r \in Steps : j.obs[r] = None THEN j
                ELSE IF Unsaved(j) # {} THEN [j EXCEPT !.pc = "save"]
                ELSE Refreshed(j))

\* refreshStep or refreshExternalStep of one step, on the copy this request holds.
Observe(w, s) ==
    /\ job[w].pc = "observe" /\ job[w].obs[s] = None
    /\ \/ /\ \E st \in Views(job[w].snap[s], s) : Read(w, s, st)
          /\ UNCHANGED faults
       \/ /\ faults < MaxFaults /\ faults' = faults + 1
          /\ \E st \in FaultyViews(job[w].snap[s], s) : Read(w, s, st)
    /\ UNCHANGED <<store, wave, chain, reorgs, history>>

\* Saving what was observed for the steps in done; the request then holds next.
Saved(w, done, next) ==
    LET mine == [job[w] EXCEPT !.snap = next, !.obs = [s \in Steps |->
                                   IF s \in done THEN None ELSE job[w].obs[s]]]
    IN  IF Unsaved(job[w]) \subseteq done THEN Refreshed(mine) ELSE mine

\* assertSavedSteps: a save may change neither attempts nor external steps.
AssertSavedSteps(p, next) ==
    \A s \in Steps : /\ next[s].attempt = steps[p][s].attempt
                     /\ next[s].ext # None \/ steps[p][s].ext # None => next[s] = steps[p][s]

\* save(): the whole step list, if the revision is still the one read.
SaveDirect(w) ==
    LET p == job[w].plan
        next == [s \in Steps |-> IF s \in UnsavedDirect(job[w]) THEN job[w].obs[s] ELSE job[w].snap[s]]
    IN  /\ job[w].pc = "save" /\ UnsavedDirect(job[w]) # {}
        /\ job[w].fresh /\ AssertSavedSteps(p, next)
        /\ steps' = [steps EXCEPT ![p] = next]
        /\ Advance(p, w, Saved(w, UnsavedDirect(job[w]), next))
        /\ UNCHANGED <<created, expired, transport, leased, nonceOwner, idem, active, world, history>>

\* applyExternalObservations' demands on one observation of wave v.
AssertObservation(p, s, v, st) ==
    /\ steps[p][s].attempt = None /\ steps[p][s].ext = v
    /\ st.receipt # None => st.hash = st.receipt.tx
    /\ st.state = "confirmed" => st.receipt # None /\ st.receipt.canonical /\ st.receipt.ok
    /\ st.state = "reverted" =>
          \/ st.receipt = None /\ st.hash = None /\ st.semantic = "failed"
          \/ st.receipt # None /\ st.receipt.canonical /\ (~st.receipt.ok \/ st.semantic = "failed")

\* saveExternalExecution: the observations of one binding, after the direct save.
SaveExternal(w, v) ==
    LET p == job[w].plan
        done == {s \in Unsaved(job[w]) : job[w].snap[s].ext = v}
        next == [s \in Steps |-> IF s \in done THEN job[w].obs[s] ELSE steps[p][s]]
    IN  /\ job[w].pc = "save" /\ UnsavedDirect(job[w]) = {} /\ done # {}
        /\ job[w].fresh
        /\ \A s \in done : AssertObservation(p, s, v, job[w].obs[s]) /\ transport[p][s] = v
        /\ steps' = [steps EXCEPT ![p] = next]
        /\ Advance(p, w, Saved(w, done, next))
        /\ UNCHANGED <<created, expired, transport, leased, nonceOwner, idem, active, world, history>>

\* The revision moved: a 409, retried from a new read while retries are left.
SaveConflict(w) ==
    /\ job[w].pc = "save" /\ ~job[w].fresh
    /\ IF job[w].left > 0
       THEN Sync(w, [job[w] EXCEPT !.left = @ - 1])
       ELSE Stop(w) /\ UNCHANGED <<store, world, history>>

-----------------------------------------------------------------------------
(* Relaying one owner-signed transaction (submitStep after its refresh). *)

\* Mutant of Satisfied: a canonical successful receipt is enough.
SatisfiedWhenMined(st) == st.receipt # None /\ st.receipt.canonical /\ st.receipt.ok

Satisfied(st) == /\ st.state = "confirmed" /\ st.receipt # None
                 /\ st.receipt.canonical /\ st.receipt.ok /\ st.semantic = "ok"

DependenciesHold(doc, s) == \A d \in DependsOn[s] : Satisfied(doc[d])

\* May this request claim a dispatch?  The application clock only estimates the
\* lease, so any attempt that ever held one may look leased or not.
MayDispatch(w) ==
    LET j == job[w] st == j.snap[j.step]
    IN  /\ ~Known(j.tx)
        /\ j.plan \notin expired
        /\ DependenciesHold(j.snap, j.step)
        /\ st.state \notin {"confirmed", "reverted"}
        /\ NonceReady(j.tx)
        /\ st.token < MaxDispatches

\* The claim reads the plan again; of this copy it keeps the revision.
ToClaim(j, dispatch) == [j EXCEPT !.pc = "claim", !.dispatch = dispatch, !.snap = IdleJob.snap]

\* From the external-transport check to the preflight and the dispatch authority.
Check(w) ==
    LET j == job[w] st == j.snap[j.step]
    IN  /\ j.pc = "check"
        /\ \/ /\ st.ext = None /\ (Known(j.tx) \/ st.token > 0)
              /\ Goto(w, ToClaim(j, FALSE))
           \/ /\ st.ext = None /\ MayDispatch(w)
              /\ Goto(w, ToClaim(j, TRUE))
           \/ /\ st.ext # None \/ (~Known(j.tx) /\ ~MayDispatch(w))
              /\ Stop(w)
        /\ UNCHANGED <<store, world, history>>

\* Mutant of ClaimAdmitted: the nonce reservation is not compared.
ClaimAdmittedAnyNonce(w) ==
    LET j == job[w] st == steps[j.plan][j.step]
    IN  /\ active
        /\ KeyAdmits(j.key, Outcome(j.plan, j.step, j.tx))
        /\ st.ext = None /\ st.attempt \in {None, j.tx}
        /\ st.attempt = None => j.fresh
        /\ transport[j.plan][j.step] \in {None, j.tx}

\* Every refusal of claimSubmission that does not depend on dispatching.
ClaimAdmitted(w) ==
    LET j == job[w] st == steps[j.plan][j.step]
    IN  /\ active
        /\ KeyAdmits(j.key, Outcome(j.plan, j.step, j.tx))
        /\ st.ext = None
        /\ st.attempt \in {None, j.tx}
        /\ st.attempt = None => j.fresh
        /\ transport[j.plan][j.step] \in {None, j.tx}
        /\ nonceOwner[SlotOf[j.tx]] \in {None, <<j.plan, j.step, j.tx>>}

\* prepareClaim's early return: nothing to dispatch.
ClaimRepeats(w) ==
    LET j == job[w] st == steps[j.plan][j.step]
    IN  \/ ~j.dispatch /\ st.attempt # None
        \/ j.dispatch /\ st.state \in {"confirmed", "reverted"}
        \/ j.dispatch /\ <<j.plan, j.step>> \in leased

\* prepareClaim's conditions on a dispatch.
ClaimDispatches(w) ==
    LET j == job[w]
    IN  /\ j.dispatch /\ ~ClaimRepeats(w)
        /\ j.fresh
        /\ j.plan \notin expired
        /\ DependenciesHold(steps[j.plan], j.step)

\* The reservations every admitted claim writes or repeats.
Reserve(j) ==
    /\ transport' = [transport EXCEPT ![j.plan][j.step] = j.tx]
    /\ nonceOwner' = [nonceOwner EXCEPT ![SlotOf[j.tx]] = <<j.plan, j.step, j.tx>>]
    /\ ReserveKey(j.key, Outcome(j.plan, j.step, j.tx))

\* claimSubmission with an already known transaction: bind it, dispatch nothing.
ClaimKnown(w) ==
    LET j == job[w]
    IN  /\ j.pc = "claim" /\ ClaimAdmitted(w)
        /\ ~j.dispatch /\ steps[j.plan][j.step].attempt = None
        /\ Reserve(j)
        /\ steps' = [steps EXCEPT ![j.plan][j.step] =
                       [NewStep EXCEPT !.state = "submitted", !.attempt = j.tx]]
        /\ Advance(j.plan, w, IdleJob)
        /\ UNCHANGED <<created, expired, leased, active, world, history>>

ClaimRepeat(w) ==
    LET j == job[w]
    IN  /\ j.pc = "claim" /\ ClaimAdmitted(w) /\ ClaimRepeats(w)
        /\ Reserve(j)
        /\ Stop(w)
        /\ UNCHANGED <<created, steps, expired, leased, active, world, history>>

\* claimSubmission with a dispatch: the durable job is committed before any send.
ClaimDispatch(w) ==
    LET j == job[w] st == steps[j.plan][j.step]
    IN  /\ j.pc = "claim" /\ ClaimAdmitted(w) /\ ClaimDispatches(w)
        /\ Reserve(j)
        /\ steps' = [steps EXCEPT ![j.plan][j.step] =
                       [st EXCEPT !.state = "reserved", !.attempt = j.tx, !.token = @ + 1]]
        /\ leased' = leased \cup {<<j.plan, j.step>>}
        /\ Advance(j.plan, w, [j EXCEPT !.pc = "send", !.token = st.token + 1, !.fresh = FALSE])
        /\ UNCHANGED <<created, expired, active, world, history>>

\* Any refusal rolls the whole transaction back.
ClaimRefused(w) ==
    LET j == job[w]
    IN  /\ j.pc = "claim"
        /\ \/ ~ClaimAdmitted(w)
           \/ j.dispatch /\ ~ClaimRepeats(w) /\ ~ClaimDispatches(w)
        /\ Stop(w)
        /\ UNCHANGED <<store, world, history>>

\* A node takes a transaction when no other one occupies its nonce.
Acceptable(t) == /\ ~InFlight(t)
                 /\ \A u \in Txs : SlotOf[u] = SlotOf[t] => ~InFlight(u)

\* eth_sendRawTransaction: accepted and answered, accepted with the answer lost,
\* or refused.
Send(w) ==
    LET j == job[w]
        accept == chain' = [chain EXCEPT ![j.tx].where = "pooled"]
        reply(ok) == Goto(w, [j EXCEPT !.pc = "settle", !.sent = ok])
    IN  /\ j.pc = "send"
        /\ relayed' = relayed \cup {<<j.plan, j.step, j.tx>>}
        /\ \/ Acceptable(j.tx) /\ accept /\ reply(TRUE) /\ UNCHANGED faults
           \/ /\ Acceptable(j.tx) /\ faults < MaxFaults /\ faults' = faults + 1
              /\ reply(FALSE) /\ (accept \/ UNCHANGED chain)
           \/ ~Acceptable(j.tx) /\ reply(FALSE) /\ UNCHANGED <<chain, faults>>
        /\ UNCHANGED <<store, wave, reorgs, published, deepened>>

\* Mutant of SettledState: the answer overwrites whatever is stored.
LateAnswerWins(st, sent) == IF sent THEN "submitted" ELSE "unknown"

\* A late answer never replaces what reconciliation has found.
SettledState(st, sent) ==
    IF /\ st.receipt = None
       /\ st.state \notin {"confirmed", "reverted", "confirming", "reorged"}
    THEN IF sent THEN "submitted" ELSE "unknown"
    ELSE st.state

\* settleSubmission: only the holder of the current token writes.
Settle(w) ==
    LET j == job[w] st == steps[j.plan][j.step]
    IN  /\ j.pc = "settle"
        /\ IF st.attempt # None /\ st.token = j.token
           THEN /\ steps' = [steps EXCEPT ![j.plan][j.step].state = SettledState(st, j.sent)]
                /\ Advance(j.plan, w, IdleJob)
           ELSE Stop(w) /\ UNCHANGED steps
        /\ UNCHANGED <<created, expired, transport, leased, nonceOwner, idem, active, world, history>>

\* A request ends anywhere: crash, client abort, failed RPC or database call, or
\* an authorization window that closed.
Crash(w) ==
    /\ job[w].pc # "idle" /\ faults < MaxFaults
    /\ faults' = faults + 1 /\ Stop(w)
    /\ UNCHANGED <<store, wave, chain, reorgs, history>>

LeaseExpires(p, s) ==
    /\ "lease" \in Events /\ <<p, s>> \in leased
    /\ leased' = leased \ {<<p, s>>}
    /\ UNCHANGED <<created, steps, expired, transport, nonceOwner, idem, active, world, job, history>>

PlanExpires(p) ==
    /\ "expire" \in Events /\ p \in created \ expired
    /\ expired' = expired \cup {p}
    /\ UNCHANGED <<created, steps, transport, leased, nonceOwner, idem, active, world, job, history>>

Revoke ==
    /\ "revoke" \in Events /\ active /\ active' = FALSE
    /\ UNCHANGED <<created, steps, expired, transport, leased, nonceOwner, idem, world, job, history>>

-----------------------------------------------------------------------------
(* External waves: sponsorship submit() and the UserOperation publish(). *)

\* Mutant of WaveDependencies: an operation is taken to carry its prerequisites.
DependenciesOfForwarded(v) ==
    IF v \in Forwarded THEN UNION {DependsOn[s] : s \in WaveSteps[v]} ELSE {}

WaveDependencies(v) ==
    UNION {DependsOn[s] : s \in WaveSteps[v]} \ (IF v \in Forwarded THEN {} ELSE WaveSteps[v])

\* Prerequisites as stored, and as the chain still shows them.
WaveReady(v) ==
    LET p == WavePlan[v]
    IN  /\ p \in created \ expired
        /\ \A s \in WaveSteps[v] : steps[p][s] = NewStep
        /\ \A d \in WaveDependencies(v) : Satisfied(steps[p][d])

DependenciesOnChain(v) ==
    \A d \in WaveDependencies(v) :
        LET r == steps[WavePlan[v]][d].receipt
        IN  Mined(r.tx) /\ chain[r.tx].deep /\ chain[r.tx].block = r.block

SetWave(v, st) == wave' = [wave EXCEPT ![v] = st]

\* prepare() and the reads of submit(), on a snapshot.
WaveCheck(v) ==
    /\ wave[v] = "idle" /\ active /\ WaveReady(v) /\ DependenciesOnChain(v)
    /\ SetWave(v, "checked")
    /\ UNCHANGED <<store, chain, reorgs, faults, job, history>>

\* Mutant of WaveAdmitted: the transport of each step is overwritten.
WaveAdmittedAnyTransport(v) ==
    /\ active /\ WavePlan[v] \notin expired
    /\ v \in Forwarded \/ WaveReady(v)

\* The store's claim: one transaction that reserves the transport of every step.
\* Only the operation claim reads the plan again, under its row lock.
WaveAdmitted(v) ==
    /\ active /\ WavePlan[v] \notin expired
    /\ v \in Forwarded \/ WaveReady(v)
    /\ \A s \in WaveSteps[v] : transport[WavePlan[v]][s] \in {None, v}

WaveClaim(v) ==
    /\ wave[v] = "checked" /\ WaveAdmitted(v)
    /\ SetWave(v, "claimed")
    /\ transport' = [transport EXCEPT ![WavePlan[v]] =
                       [s \in Steps |-> IF s \in WaveSteps[v] THEN v ELSE @[s]]]
    /\ UNCHANGED <<created, steps, expired, leased, nonceOwner, idem, active,
                   chain, reorgs, faults, job, history>>

WaveRefused(v) ==
    /\ wave[v] = "checked" /\ ~WaveAdmitted(v)
    /\ SetWave(v, "idle")
    /\ UNCHANGED <<store, chain, reorgs, faults, job, history>>

WaveRows(v) == [s \in Steps |-> IF s \in WaveSteps[v] THEN v ELSE None]

\* reserveExternalExecution: tag the plan before the provider sees a signature.
WaveTag(v) ==
    LET p == WavePlan[v]
        next == Attached(p, WaveRows(v))
    IN  /\ wave[v] = "claimed" /\ v \in Forwarded
        /\ IF Attachable(p, WaveRows(v))
           THEN /\ SetWave(v, "tagged")
                /\ steps' = [steps EXCEPT ![p] = next]
                /\ IF next = steps[p] THEN UNCHANGED job ELSE Advance(p, None, IdleJob)
           ELSE SetWave(v, "unknown") /\ UNCHANGED <<steps, job>>
        /\ UNCHANGED <<created, expired, transport, leased, nonceOwner, idem, active,
                       chain, reorgs, faults, history>>

\* The only publication: its reply is recorded, or lost.
WavePublish(v) ==
    /\ wave[v] = IF v \in Forwarded THEN "tagged" ELSE "claimed"
    /\ v \in Forwarded => WavePlan[v] \notin expired
    /\ published' = published \cup {v}
    /\ \/ SetWave(v, "quoted") /\ UNCHANGED faults
       \/ SetWave(v, "unknown") /\ faults < MaxFaults /\ faults' = faults + 1
    /\ UNCHANGED <<store, chain, reorgs, job, relayed, deepened>>

\* Expiry, a crash or a failure between the claim and the publication.
WaveAbandoned(v) ==
    /\ wave[v] \in {"claimed", "tagged"}
    /\ \/ v \in Forwarded /\ WavePlan[v] \in expired /\ UNCHANGED faults
       \/ faults < MaxFaults /\ faults' = faults + 1
    /\ SetWave(v, "unknown")
    /\ UNCHANGED <<store, chain, reorgs, job, history>>

\* An operation's validity ended with its sender nonce still unused.
WaveLapses(v) ==
    /\ v \notin Forwarded /\ wave[v] \in {"quoted", "unknown"}
    /\ \A o \in Outers : OuterWave[o] = v => ~Mined(o)
    /\ SetWave(v, "lapsed")
    /\ UNCHANGED <<store, chain, reorgs, faults, job, history>>

-----------------------------------------------------------------------------
(* The chain, the providers and the owner's wallet (external to the service). *)

\* A provider sends, or resends, an outer transaction for a published wave.
ProviderSends(o) ==
    /\ OuterWave[o] \in published /\ ~InFlight(o)
    /\ chain' = [chain EXCEPT ![o].where = "pooled"]
    /\ UNCHANGED <<store, wave, reorgs, faults, job, history>>

\* The owner's wallet may broadcast a transaction it signed.
OwnerBroadcasts(t) ==
    /\ "wallet" \in Events /\ Acceptable(t)
    /\ chain' = [chain EXCEPT ![t].where = "pooled"]
    /\ UNCHANGED <<store, wave, reorgs, faults, job, history>>

\* Contracts enforce one use of a nonce slot, of a forwarding authorization and
\* of an operation, and an operation's validity window.
MayMine(t, ok) ==
    /\ t \in Txs => \A u \in Txs : SlotOf[u] = SlotOf[t] => ~Mined(u)
    /\ t \in Outers /\ ok =>
          /\ wave[OuterWave[t]] # "lapsed"
          /\ \A o \in Outers : /\ OuterWave[o] = OuterWave[t]
                               /\ OuterSteps[o] \cap OuterSteps[t] # {}
                               => ~(Mined(o) /\ chain[o].ok)

Mine(t) ==
    /\ chain[t].where = "pooled"
    /\ \E ok \in Results :
          /\ MayMine(t, ok)
          /\ chain' = [chain EXCEPT ![t] = [where |-> "mined", ok |-> ok, deep |-> FALSE,
                                            block |-> reorgs]]
    /\ UNCHANGED <<store, wave, reorgs, faults, job, history>>

\* The block of t reaches the confirmation depth.
Deepens(t) ==
    /\ Mined(t) /\ ~chain[t].deep
    /\ chain' = [chain EXCEPT ![t].deep = TRUE]
    /\ deepened' = deepened \cup {Receipt(t)}
    /\ UNCHANGED <<store, wave, reorgs, faults, job, relayed, published>>

\* The block of t is replaced and t goes back to the pool.
Reorg(t) ==
    /\ Mined(t) /\ reorgs < MaxReorgs
    /\ reorgs' = reorgs + 1
    /\ chain' = [chain EXCEPT ![t] = [where |-> "pooled", ok |-> FALSE, deep |-> FALSE, block |-> 0]]
    /\ UNCHANGED <<store, wave, faults, job, history>>

Dropped(t) ==
    /\ "drop" \in Events /\ chain[t].where = "pooled"
    /\ chain' = [chain EXCEPT ![t].where = "absent"]
    /\ UNCHANGED <<store, wave, reorgs, faults, job, history>>

-----------------------------------------------------------------------------
Claim(w) == ClaimKnown(w) \/ ClaimRepeat(w) \/ ClaimDispatch(w) \/ ClaimRefused(w)
Save(w) == \/ SaveDirect(w) \/ SaveConflict(w)
           \/ \E v \in Waves : SaveExternal(w, v)

\* One step of a running request.
Work(w) == \/ (\E s \in Steps : Observe(w, s)) \/ Save(w)
           \/ Check(w) \/ Claim(w) \/ Send(w) \/ Settle(w)

Arrive(w) == \/ \E p \in Plans : StartRead(w, p)
             \/ \E p \in Plans, s \in Steps, t \in Txs, k \in Keys \cup {None} : StartSubmit(w, p, s, t, k)

WaveStep(v) == \/ WaveCheck(v) \/ WaveClaim(v) \/ WaveRefused(v) \/ WaveTag(v)
               \/ WavePublish(v) \/ WaveAbandoned(v) \/ WaveLapses(v)

ChainStep == \/ \E t \in AllTxs : Mine(t) \/ Deepens(t) \/ Reorg(t) \/ Dropped(t)
             \/ \E t \in Txs : OwnerBroadcasts(t)
             \/ \E o \in Outers : ProviderSends(o)

Passing == \/ \E p \in Plans : PlanExpires(p)
           \/ \E p \in Plans, s \in Steps : LeaseExpires(p, s)
           \/ Revoke

Next == \/ \E p \in Plans, k \in Keys \cup {None} : CreatePlan(p, k)
        \/ \E w \in Requests : Arrive(w)
        \/ \E p \in Plans : StartRecovery(p)
        \/ \E w \in Workers : Work(w) \/ Crash(w)
        \/ \E v \in Waves : WaveStep(v)
        \/ Passing
        \/ ChainStep

Spec == Init /\ [][Next]_vars

\* Requests that have been accepted run to their end, and the maintenance timer
\* keeps sweeping every plan that is recoverable (runtime.ts, every 30 seconds).
Fairness == /\ \A w \in Workers : WF_vars(Work(w))
            /\ \A p \in Plans : WF_vars(StartRecovery(p))

FairSpec == Spec /\ Fairness

-----------------------------------------------------------------------------
(* Properties. *)

\* Every variable keeps its shape: the stored documents, the reservation tables
\* and each request's local copy.
TypeOK ==
    /\ created \subseteq Plans /\ expired \subseteq Plans
    /\ steps \in [Plans -> [Steps -> StepDocs]]
    /\ transport \in [Plans -> [Steps -> Executors \cup {None}]]
    /\ leased \subseteq Plans \X Steps
    /\ nonceOwner \in [Slots -> (Plans \X Steps \X Txs) \cup {None}]
    /\ idem \in [Keys -> Claims \cup {None}]
    /\ active \in BOOLEAN
    /\ wave \in [Waves -> WaveStates]
    /\ chain \in [AllTxs -> [where : {"absent", "pooled", "mined"}, ok : BOOLEAN,
                             deep : BOOLEAN, block : Nat]]
    /\ job \in [Workers -> Jobs]
    /\ reorgs \in Nat /\ faults \in Nat
    /\ relayed \subseteq Plans \X Steps \X Txs
    /\ published \subseteq Waves
    /\ deepened \subseteq Receipts

\* The executors that were really set in motion for a step: transactions handed
\* to a node and waves handed to their provider.
Acted(p, s) == {t \in Txs : <<p, s, t>> \in relayed}
               \cup {v \in published : WavePlan[v] = p /\ s \in WaveSteps[v]}

\* A step is acted on by one executor at most, whatever requests race, crash,
\* retry or expire: never two transactions, never a transaction and a wave
\* (claimSubmission and the two wave claims sharing rest_transaction_transports).
OneExecutorPerStep == \A p \in Plans, s \in Steps : \A x, y \in Acted(p, s) : x = y

\* Plans implement the abstract promise of StepBinding: the transport table is
\* the selection, and what was handed to a node or a provider are the acts.
Binding == INSTANCE StepBinding
             WITH Actions <- Plans \X Steps,
                  bound <- [a \in Plans \X Steps |-> transport[a[1]][a[2]]],
                  acted <- {<<<<x[1], x[2]>>, x[3]>> : x \in relayed}
                           \cup {<<<<WavePlan[x[1]], x[2]>>, x[1]>> :
                                    x \in {y \in published \X Steps : y[2] \in WaveSteps[y[1]]}}

BindsOnce == Binding!Spec

\* No two relayed transactions, of any plans, spend the same sender nonce
\* (rest_transaction_nonces in claimSubmission).
OneStepPerNonce ==
    \A x, y \in relayed : SlotOf[x[3]] = SlotOf[y[3]] => x = y

\* The reservation table and the step documents can always be merged, so
\* syncExternalExecutions never refuses and no plan becomes unreadable.
SyncNeverConflicts == \A p \in Plans : Attachable(p, transport[p])

\* What a current request has observed is never refused by the store it is saved
\* to, which would end every later read of the plan in an error
\* (refreshExternalStep against applyExternalObservations, refreshStep against
\* assertSavedSteps).
SavesAccepted ==
    \A w \in Workers : job[w].pc = "save" /\ job[w].fresh =>
        \A s \in Unsaved(job[w]) :
            IF job[w].snap[s].ext = None
            THEN steps[job[w].plan][s].attempt = job[w].obs[s].attempt /\ job[w].obs[s].ext = None
            ELSE /\ AssertObservation(job[w].plan, s, job[w].snap[s].ext, job[w].obs[s])
                 /\ transport[job[w].plan][s] = job[w].snap[s].ext

\* The transactions through which executor x may carry out step s.
CarriedBy(x, s) == IF x \in Txs THEN {x}
                   ELSE {o \in Outers : OuterWave[o] = x /\ s \in OuterSteps[o]}

\* A step is stored as confirmed only with a successful receipt of its own
\* executor's transaction that did reach the confirmation depth (refreshStep,
\* refreshExternalStep and the compare-and-set saves).
ConfirmedWasDeep ==
    \A p \in Plans, s \in Steps : steps[p][s].state = "confirmed" =>
        LET r == steps[p][s].receipt
        IN  /\ r \in deepened /\ r.ok
            /\ r.tx \in CarriedBy(transport[p][s], s)

\* Nothing is set in motion for a step before each prerequisite had succeeded
\* at the confirmation depth through its own executor (assertDependencies,
\* prepareClaim, dependencies() of a sponsored wave, assertPlan).
DependenciesFirst ==
    \A p \in Plans, s \in Steps : Acted(p, s) # {} =>
        \A d \in DependsOn[s] :
            \/ \E r \in deepened : r.ok /\ r.tx \in CarriedBy(transport[p][d], d)
            \/ \E v \in Acted(p, s) \cap Waves : v \notin Forwarded /\ d \in WaveSteps[v]

\* Request w is saving what it observed for this step.
ObservedChange(p, s) ==
    \E w \in Workers : /\ job[w].pc = "save" /\ job[w].plan = p
                       /\ job[w].snap[s] = steps[p][s] /\ job[w].obs[s] = steps'[p][s]

\* What reconciliation has found stands until another look at the chain: a late
\* settle, a repeated claim or a stale save never replaces it.  Only a step that
\* is still confirming or was reorged may be claimed for another dispatch.
ReconciledStands ==
    [][\A p \in Plans, s \in Steps :
        /\ steps[p][s].state \in {"confirming", "confirmed", "reverted", "reorged"}
        /\ steps'[p][s] # steps[p][s]
        => \/ ObservedChange(p, s)
           \/ /\ steps[p][s].state \in {"confirming", "reorged"}
              /\ steps'[p][s].token = steps[p][s].token + 1]_vars

\* A confirmed external execution whose block is still canonical keeps its
\* transaction: a provider's later retry never replaces it (refreshExternalStep),
\* as long as the node does not deny the confirmed receipt.
ConfirmedExecutionKept ==
    [][\A p \in Plans, s \in Steps :
        LET st == steps[p][s]
        IN  /\ st.state = "confirmed" /\ st.hash # None
            /\ Mined(st.hash) /\ chain[st.hash].block = st.receipt.block
            => steps'[p][s].hash = st.hash]_vars

\* Nonce and idempotency reservations, and a step's own binding, are never
\* released or rebound.
ReservationsPermanent ==
    [][/\ \A n \in Slots : nonceOwner[n] # None => nonceOwner'[n] = nonceOwner[n]
       /\ \A k \in Keys : idem[k] # None => idem'[k] = idem[k]
       /\ \A p \in Plans, s \in Steps :
             /\ steps[p][s].attempt # None => steps'[p][s].attempt = steps[p][s].attempt
             /\ steps[p][s].ext # None => steps'[p][s].ext = steps[p][s].ext]_vars

\* A bound transaction that stays at the confirmation depth is eventually
\* recorded as confirmed or reverted, although the submitting request may have
\* crashed anywhere: recovery finds it.
EventuallyReconciled ==
    \A p \in Plans, s \in Steps, t \in Txs :
        (steps[p][s].attempt = t /\ Mined(t) /\ chain[t].deep)
            ~> (steps[p][s].state \in {"confirmed", "reverted"} \/ ~Mined(t))

\* Every external reservation eventually shows in the plan, although the
\* publishing request may have crashed right after its claim.
EventuallyTagged ==
    \A p \in Plans, s \in Steps, v \in Waves :
        transport[p][s] = v ~> steps[p][s].ext = v

-----------------------------------------------------------------------------
(* The inductive invariant. *)

\* The step documents that bind the same executor, under the same lease, as st.
SameBinding(st) == {x \in StepDocs : x.attempt = st.attempt /\ x.ext = st.ext /\ x.token = st.token}

\* What a running request knows: its plan, and past its refresh the step and the
\* transaction it was sent; what it observed never changes a step's binding.
JobShape(j) ==
    /\ j.pc # "idle" => j.plan \in Plans
    /\ j.kind = "submit" => j.step \in Steps /\ j.tx \in Txs
    /\ j.pc \in {"check", "claim", "send", "settle"} => j.kind = "submit"
    /\ j.pc \in {"observe", "save"} =>
          \A s \in Steps : /\ j.obs[s] # None => j.obs[s] \in SameBinding(j.snap[s])
                           /\ j.obs[s] # None /\ ~Bound(j.snap[s]) => j.obs[s] = j.snap[s]
                           /\ j.pc = "observe" /\ j.obs[s] = None => Bound(j.snap[s])

Shape == TypeOK /\ \A w \in Workers : JobShape(job[w])

\* A request whose revision is the stored one holds the stored steps.
FreshIsCurrent ==
    \A w \in Workers : job[w].pc \in {"observe", "save"} /\ job[w].fresh
                       => job[w].snap = steps[job[w].plan]

\* A step document names the executor the transport table selects, and an
\* unbound step is untouched.
BindingRecorded ==
    \A p \in Plans, s \in Steps :
        /\ steps[p][s].attempt # None => transport[p][s] = steps[p][s].attempt
        /\ steps[p][s].ext # None => transport[p][s] = steps[p][s].ext
        /\ ~Bound(steps[p][s]) => steps[p][s] = NewStep

\* Transaction t holds step s of plan p and its own nonce.
Holds(p, s, t) == transport[p][s] = t /\ nonceOwner[SlotOf[t]] = <<p, s, t>>

\* Whoever is about to send, or has sent, holds its reservations.
SenderHolds ==
    /\ \A w \in Workers : job[w].pc = "send" => Holds(job[w].plan, job[w].step, job[w].tx)
    /\ \A p \in Plans, s \in Steps, t \in Txs : <<p, s, t>> \in relayed => Holds(p, s, t)

\* A wave past its claim holds every one of its steps.
WaveHolds ==
    \A v \in Waves : v \in published \/ wave[v] \notin {"idle", "checked"} =>
        \A s \in WaveSteps[v] : transport[WavePlan[v]][s] = v

\* The inductive invariant behind OneExecutorPerStep, OneStepPerNonce,
\* SyncNeverConflicts, ReservationsPermanent and BindsOnce: the reservations that
\* claimSubmission and the wave claims commit are what every later step relies on.
IInv == Shape /\ FreshIsCurrent /\ BindingRecorded /\ SenderHolds /\ WaveHolds
=============================================================================
