--------------------------- MODULE SponsorDeploys ---------------------------
(***************************************************************************)
(* The sponsored deploys of one intent: the queue rows and the recorded    *)
(* deployments in PostgreSQL, the deploy and deployment routes that write  *)
(* them, the one sponsor worker that leases the rows, and the Relayr lane  *)
(* it runs, which buys a bundle, pays for it and follows it to its         *)
(* destination receipts.                                                   *)
(*                                                                         *)
(* Every database statement and every network call is a step of its own.   *)
(* Center runs a single replica while sponsoring, so there is one lane;    *)
(* the routes, a wallet and the execution service interleave with it       *)
(* freely, and the process may die at any step.                            *)
(***************************************************************************)
EXTENDS Integers, FiniteSets, FiniteSetsExt

CONSTANTS
  Chains,      \* the sponsored chains of the intent, numbered in their order
  Others,      \* its chains that Center does not sponsor
  Requests,    \* deploy requests that may run at the same time
  Named,       \* whether requests name their chains, may leave them out, or both
  Budget,      \* SPONSOR_DAILY_BUDGET_WEI, in reservations of one chain
  MaxBundles,  \* bound: bundles the execution service quotes
  MaxFaults    \* bound: crashes and unreadable answers

ASSUME ConstantShapes ==
  /\ Chains \subseteq Nat /\ IsFiniteSet(Chains)
  /\ \A S \in (SUBSET Chains) \ {{}} : \E c \in S : \A d \in S : c <= d
  /\ Others \cap Chains = {}
  /\ Named \subseteq BOOLEAN
  /\ {Budget, MaxBundles, MaxFaults} \subseteq Nat

VARIABLES
  rows,         \* intent_deploys by chain
  leases,       \* leases that run: each the set of rows that one statement leased
  days,         \* the last 24 hours: each the set of rows that one request queued
  deployments,  \* the recorded deployment of each chain
  bundles,      \* what was quoted: its chains, its prepayment, its launches
  lane,         \* the sponsor worker: its claim and where it stands in it
  req,          \* what each deploy request holds between two calls
  faults        \* crashes and unreadable answers so far

vars == <<rows, leases, days, deployments, bundles, lane, req, faults>>

-----------------------------------------------------------------------------
\* Rows. Bundle 0 and the text "" stand for SQL's NULL.

MaxAttempts == 3

NoRow == [status |-> "absent", attempts |-> 0, bundle |-> 0, reserved |-> 0,
          spent |-> 0, error |-> "", hash |-> 0]

\* A launch is named by its bundle, so a stored hash is a bundle's number.
Rows == [status : {"absent", "queued", "sent", "confirmed", "failed"},
         attempts : 0..MaxAttempts, bundle : 0..MaxBundles, reserved : {0, 1}, spent : Nat,
         error : {"", "waiting", "unresolved", "final"}, hash : 0..MaxBundles]

Live(c) == rows[c].status \in {"queued", "sent"}

\* Rows that one statement leased, or queued, carry the same instant.
Leased(c) == c \in UNION leases
Aged(c) == rows[c].status # "absent" /\ c \notin UNION days
Without(groups, S) == {g \ S : g \in groups} \ {{}}
Restamped(groups, S) == Without(groups, S) \cup ({S} \ {{}})

NoDeployment == [by |-> "none", bundle |-> 0]
Own(b) == [by |-> "bundle", bundle |-> b]
Deployments == [by : {"none", "bundle", "relay", "wallet"}, bundle : 0..MaxBundles]

Recorded == {c \in Chains \cup Others : deployments[c].by # "none"}

\* Every deployment that was not forwarded came from a wallet.
WalletDeployed == \E c \in Chains \cup Others : deployments[c].by = "wallet"

\* A launch that created no project counts as reverted: its row fails alike.
Unquoted == [covers |-> {}, pay |-> "no", launch |-> [c \in Chains |-> "none"]]
Bundles == [covers : SUBSET Chains, pay : {"no", "sent", "paid", "reverted"},
            launch : [Chains -> {"none", "ok", "reverted"}]]

BundleIds == 1..MaxBundles
Paid(b) == bundles[b].pay = "paid"
Launched(b, c) == bundles[b].launch[c] # "none"

-----------------------------------------------------------------------------
\* updateDeploy: absent fields of the patch keep the column, the error never does.

Patch == [status |-> "", hash |-> 0, bundle |-> 0, error |-> "", spent |-> 0]

\* Mutant: the bundle of a failed row is forgotten.
ReleasesAnyFailure(row, patch) == patch.status \in {"confirmed", "failed"}

Releases(row, patch) ==
  \/ patch.status = "confirmed"
  \/ patch.status = "failed" /\ row.bundle = 0 /\ patch.bundle = 0

Patched(row, patch) ==
  [row EXCEPT !.status = IF patch.status = "" THEN @ ELSE patch.status,
              !.hash = IF patch.hash = 0 THEN @ ELSE patch.hash,
              !.bundle = IF patch.bundle = 0 THEN @ ELSE patch.bundle,
              !.error = patch.error,
              !.spent = IF patch.spent = 0 THEN @ ELSE patch.spent,
              !.reserved = IF Releases(row, patch) THEN 0 ELSE @]


\* A retired row refuses a bundle; the lane then gets a ConflictError.
Refuses(row, patch) == patch.bundle # 0 /\ row.status = "failed" /\ row.bundle = 0

UpdateDeploy(c, patch) ==
  rows' = [rows EXCEPT ![c] = IF Refuses(@, patch) THEN @ ELSE Patched(@, patch)]

FailedPatch == [Patch EXCEPT !.status = "failed", !.error = "final"]

\* A retirement releases the reservation of a row that never reached a bundle.
Retired(row, error) ==
  [row EXCEPT !.status = "failed", !.error = error,
              !.reserved = IF row.bundle = 0 THEN 0 ELSE @]

\* retireUnpaidForWallet: a lease does not protect a row.
RetireUnpaid(rs) ==
  [c \in Chains |-> IF rs[c].status = "queued" /\ rs[c].bundle = 0
                     THEN Retired(rs[c], "final") ELSE rs[c]]

-----------------------------------------------------------------------------
\* The deploy route: read the intent, check the budget, queue.

IdleRequest == [pc |-> "idle", deployed |-> {}, absent |-> {}, failed |-> {},
                fresh |-> {}, retry |-> FALSE]

Goto(r, k) == req' = [req EXCEPT ![r] = k]

\* sponsoredWeiSince: rows of the last day, reserved and spent.
Counted(c) == IF Aged(c) THEN 0 ELSE rows[c].reserved + rows[c].spent
SponsoredWei == MapThenSumSet(Counted, Chains)

\* What the route selects from the intent it read. With `named`, the body lists
\* the chains `want`; otherwise want is all of them.
Selects(r, deployed, absent, failed) ==
  \E want \in (SUBSET Chains) \ {{}}, named \in Named :
    LET fresh == (want \ deployed) \cap (absent \cup (IF named THEN failed ELSE {}))
    IN /\ IF named THEN want \cap deployed = {} ELSE want = Chains
       /\ fresh # {}
       /\ Goto(r, [IdleRequest EXCEPT !.pc = "budget", !.fresh = fresh, !.retry = named])

WithStatus(status) == {c \in Chains : rows[c].status = status}

\* getIntent asks for the deployments and for the rows at once, on two connections:
\* either answer may be the older one. A wallet's deployment ends the request.
ReadDeployments(r) ==
  /\ ~WalletDeployed
  /\ \/ /\ req[r].pc = "idle"
        /\ Goto(r, [IdleRequest EXCEPT !.pc = "rows", !.deployed = Recorded])
     \/ /\ req[r].pc = "deployments"
        /\ Selects(r, Recorded, req[r].absent, req[r].failed)
  /\ UNCHANGED <<rows, leases, days, deployments, bundles, lane, faults>>

ReadRows(r) ==
  /\ \/ /\ req[r].pc = "idle"
        /\ Goto(r, [IdleRequest EXCEPT !.pc = "deployments", !.absent = WithStatus("absent"),
                                       !.failed = WithStatus("failed")])
     \/ /\ req[r].pc = "rows"
        /\ Selects(r, req[r].deployed, WithStatus("absent"), WithStatus("failed"))
  /\ UNCHANGED <<rows, leases, days, deployments, bundles, lane, faults>>

\* The route answers without queueing: 400, 409, or 200 when nothing is left to queue.
Answer(r) ==
  /\ req[r].pc \in {"rows", "deployments"}
  /\ Goto(r, IdleRequest)
  /\ UNCHANGED <<rows, leases, days, deployments, bundles, lane, faults>>


\* Beyond the budget, or the requester's quota, the route answers 429.
CheckBudget(r) ==
  /\ req[r].pc = "budget"
  /\ \/ Goto(r, IdleRequest)
     \/ /\ SponsoredWei + Cardinality(req[r].fresh) <= Budget
        /\ Goto(r, [req[r] EXCEPT !.pc = "queue"])
  /\ UNCHANGED <<rows, leases, days, deployments, bundles, lane, faults>>

\* queueDeploys: a retry starts the row over but keeps what it spent.
Queued(row) == [NoRow EXCEPT !.status = "queued", !.reserved = 1, !.spent = row.spent]

Restarts(row, retry) ==
  \/ row.status = "absent"
  \/ retry /\ row.status = "failed" /\ row.bundle = 0

QueueDeploys(r) ==
  /\ req[r].pc = "queue"
  /\ LET again == {c \in req[r].fresh : Restarts(rows[c], req[r].retry)}
     IN /\ rows' = [c \in Chains |-> IF c \in again THEN Queued(rows[c]) ELSE rows[c]]
        /\ leases' = Without(leases, again)
        /\ days' = Restamped(days, again)
  /\ Goto(r, IdleRequest)
  /\ UNCHANGED <<deployments, bundles, lane, faults>>

-----------------------------------------------------------------------------
\* The deployments route. verify reads a final transaction of the chain: the
\* visitor's own, a relay request the visitor sent, or a launch of a bundle.

Verifiable(c) ==
  {[by |-> "wallet", bundle |-> 0]}
    \cup (IF c \in Others THEN {[by |-> "relay", bundle |-> 0]}
          ELSE {Own(b) : b \in {x \in BundleIds : bundles[x].launch[c] = "ok"}})

\* Mutant: the last deployment recorded for a chain wins.
NeverConflicts(c, d) == FALSE

\* recordDeployment, with the retirement in its transaction: the same deployment
\* again is fine, a different one a ConflictError.
Conflicts(c, d) == deployments[c] \notin {NoDeployment, d}

RecordDeployment(c, d) ==
  /\ deployments' = [deployments EXCEPT ![c] = d]
  /\ rows' = IF d.by = "wallet" THEN RetireUnpaid(rows) ELSE rows

PostDeployment(c) ==
  /\ \E d \in Verifiable(c) : ~Conflicts(c, d) /\ RecordDeployment(c, d)
  /\ UNCHANGED <<leases, days, bundles, lane, req, faults>>

-----------------------------------------------------------------------------
\* The worker. `chains` is its claim, `todo` what the loop at `pc` has left,
\* `done` the chains whose outcome is stored, `seen` the launches it learnt of.

Idle == [pc |-> "exhaust", chains |-> {}, todo |-> {}, done |-> {}, seen |-> {}, bundle |-> 0]

Pcs == {"exhaust", "expire", "retire", "claim", "read", "known", "prepare", "bundle",
        "pay", "await", "charge", "poll", "receipt", "verify", "record", "confirm",
        "reject", "failing", "defer", "release"}

Lanes == [pc : Pcs, chains : SUBSET Chains, todo : SUBSET Chains, done : SUBSET Chains,
          seen : SUBSET Chains, bundle : 0..MaxBundles]

First(S) == CHOOSE c \in S : \A d \in S : c <= d

At(pc) == lane.pc = pc
Next1 == First(lane.todo)
Enter(pc) == lane' = [lane EXCEPT !.pc = pc]

\* The rows not done fail: after a terminal error, and when the lane returns.
Fails(l) ==
  IF l.chains \ l.done = {} THEN Idle
  ELSE [l EXCEPT !.pc = "failing", !.todo = l.chains \ l.done]

\* The rows not done wait for a later claim, which is handed back.
Defers(l) ==
  [l EXCEPT !.pc = IF l.chains \ l.done = {} THEN "release" ELSE "defer",
            !.todo = l.chains \ l.done]

\* Mutant: a claim that carries a bundle is deployed again.
BeginAfresh(l) == IF l.chains = {} THEN Idle ELSE [l EXCEPT !.pc = "prepare", !.bundle = 0]

\* Where a claim goes once the chains recorded meanwhile are out of it: a claim
\* that carries a bundle resumes it, any other deploys.
Begin(l) ==
  IF l.chains = {} THEN Idle
  ELSE IF l.bundle # 0 THEN [l EXCEPT !.pc = "poll"]
  ELSE [l EXCEPT !.pc = "prepare"]

\* The receipt loop after the outcome of its chain is stored.
Settled(l) ==
  LET c == First(l.todo)
      k == [l EXCEPT !.done = @ \cup {c}, !.todo = @ \ {c}]
  IN IF k.todo = {} THEN Fails(k) ELSE [k EXCEPT !.pc = "receipt"]

-----------------------------------------------------------------------------
\* claimQueuedDeploys, statement by statement.

Exhausted(row, c) ==
  /\ row.status \in {"queued", "sent"}
  /\ row.attempts >= MaxAttempts
  /\ ~Leased(c)

ExhaustAttempts ==
  /\ At("exhaust")
  /\ rows' = [c \in Chains |->
                IF Exhausted(rows[c], c) THEN Retired(rows[c], "final") ELSE rows[c]]
  /\ Enter("expire")
  /\ UNCHANGED <<leases, days, deployments, bundles, req, faults>>

\* Mutant: a row that never reached a bundle is not retired.
ExpiredWithBundle(row, c) ==
  row.status \in {"queued", "sent"} /\ Aged(c) /\ row.bundle # 0 /\ ~Leased(c)

Expired(row, c) ==
  /\ row.status \in {"queued", "sent"}
  /\ Aged(c)
  /\ row.bundle # 0 \/ row.error # ""
  /\ ~Leased(c)

ExpireAged ==
  /\ At("expire")
  /\ rows' = [c \in Chains |->
                IF ~Expired(rows[c], c) THEN rows[c]
                ELSE Retired(rows[c], IF rows[c].bundle = 0 THEN "final" ELSE "unresolved")]
  /\ Enter("retire")
  /\ UNCHANGED <<leases, days, deployments, bundles, req, faults>>

RetireQueued ==
  /\ At("retire")
  /\ rows' = IF WalletDeployed THEN RetireUnpaid(rows) ELSE rows
  /\ Enter("claim")
  /\ UNCHANGED <<leases, days, deployments, bundles, req, faults>>

Claimable(c) ==
  /\ Live(c)
  /\ ~Leased(c)
  /\ rows[c].attempts < MaxAttempts
  /\ rows[c].bundle # 0 \/ ~WalletDeployed

ClaimQueued ==
  /\ At("claim")
  /\ LET mine == {c \in Chains : Claimable(c)}
     IN /\ rows' = [c \in Chains |->
                      IF c \in mine THEN [rows[c] EXCEPT !.attempts = @ + 1] ELSE rows[c]]
        /\ leases' = Restamped(leases, mine)
        /\ lane' = IF mine = {} THEN Idle ELSE [Idle EXCEPT !.pc = "read", !.chains = mine]
  /\ UNCHANGED <<days, deployments, bundles, req, faults>>

-----------------------------------------------------------------------------
\* runClaim up to the lane.

\* getIntent, and which of its branches the claim takes. Only the worker writes a
\* bundle, so its two answers are as good as one.
ReadClaim ==
  /\ At("read")
  /\ LET carried == {c \in lane.chains : rows[c].bundle # 0}
         known == lane.chains \cap Recorded
         k == [lane EXCEPT !.chains = @ \ known,
                           !.bundle = IF carried = {} THEN 0 ELSE rows[First(carried)].bundle]
     IN lane' = IF carried = {} /\ WalletDeployed THEN Fails(lane)
                ELSE IF known = {} THEN Begin(k)
                ELSE [k EXCEPT !.pc = "known", !.todo = known]
  /\ UNCHANGED <<rows, leases, days, deployments, bundles, req, faults>>

\* A chain that is deployed is done, whatever the rest of the intent is doing.
FailKnown ==
  /\ At("known")
  /\ UpdateDeploy(Next1, FailedPatch)
  /\ LET left == lane.todo \ {Next1}
     IN lane' = IF left = {} THEN Begin([lane EXCEPT !.todo = {}]) ELSE [lane EXCEPT !.todo = left]
  /\ UNCHANGED <<leases, days, deployments, bundles, req, faults>>

-----------------------------------------------------------------------------
\* deploy: prepare and sign every chain, quote a bundle, choose a payment.

Quote(b) ==
  /\ bundles[b] = Unquoted
  /\ \A x \in 1..(b - 1) : bundles[x] # Unquoted
  /\ bundles' = [bundles EXCEPT ![b].covers = lane.chains]

Prepare ==
  /\ At("prepare")
  /\ \/ lane' \in {Fails(lane), Defers(lane)} /\ UNCHANGED bundles
     \/ \E b \in BundleIds :
          /\ Quote(b)
          /\ lane' = [lane EXCEPT !.pc = "bundle", !.todo = lane.chains, !.bundle = b]
  /\ UNCHANGED <<rows, leases, days, deployments, req, faults>>

\* report.bundle, one row at a time: a refused row stops the lane for good.
ReportBundle ==
  /\ At("bundle")
  /\ LET patch == [Patch EXCEPT !.status = "queued", !.bundle = lane.bundle]
         left == lane.todo \ {Next1}
     IN /\ UpdateDeploy(Next1, patch)
        /\ lane' = IF Refuses(rows[Next1], patch) THEN Fails(lane)
                   ELSE [lane EXCEPT !.todo = left, !.pc = IF left = {} THEN "pay" ELSE @]
  /\ UNCHANGED <<leases, days, deployments, bundles, req, faults>>

\* The prepayment leaves the key, or the node refuses it or cannot be asked.
Pay ==
  /\ At("pay")
  /\ \/ /\ bundles' = [bundles EXCEPT ![lane.bundle].pay = "sent"]
        /\ Enter("await")
     \/ lane' \in {Fails(lane), Defers(lane)} /\ UNCHANGED bundles
  /\ UNCHANGED <<rows, leases, days, deployments, req, faults>>

\* The wait for its receipt: settled, reverted, or given up on.
AwaitPayment ==
  /\ At("await")
  /\ lane' \in {Defers(lane)}
            \cup (IF Paid(lane.bundle) THEN {[lane EXCEPT !.pc = "charge"]} ELSE {})
            \cup (IF bundles[lane.bundle].pay = "reverted" THEN {Fails(lane)} ELSE {})
  /\ UNCHANGED <<rows, leases, days, deployments, bundles, req, faults>>

\* report.paid: the whole cost on the first chain of the claim.
ReportPaid ==
  /\ At("charge")
  /\ UpdateDeploy(First(lane.chains),
                  [Patch EXCEPT !.status = "queued", !.spent = Cardinality(lane.chains)])
  /\ Enter("poll")
  /\ UNCHANGED <<leases, days, deployments, bundles, req, faults>>

-----------------------------------------------------------------------------
\* settle: every launch first, then every receipt.

\* One launch of the bundle that the status names, reported as sent.
ReportSent ==
  /\ At("poll")
  /\ \E c \in lane.chains \ lane.seen :
       LET patch == [Patch EXCEPT !.status = "sent", !.hash = lane.bundle, !.bundle = lane.bundle]
           k == [lane EXCEPT !.seen = @ \cup {c}]
       IN /\ Launched(lane.bundle, c)
          /\ UpdateDeploy(c, patch)
          /\ lane' = IF Refuses(rows[c], patch) THEN Fails(lane)
                     ELSE IF k.seen = k.chains THEN [k EXCEPT !.pc = "receipt", !.todo = k.chains]
                     ELSE k
  /\ UNCHANGED <<leases, days, deployments, bundles, req, faults>>

\* The poll gives up while a launch is missing: the claim waits for another pass.
PollTimeout ==
  /\ At("poll")
  /\ lane' = Defers(lane)
  /\ UNCHANGED <<rows, leases, days, deployments, bundles, req, faults>>

Receipt ==
  /\ At("receipt")
  /\ IF bundles[lane.bundle].launch[Next1] = "reverted"
     THEN UpdateDeploy(Next1, FailedPatch) /\ lane' = Settled(lane)
     ELSE Enter("verify") /\ UNCHANGED rows
  /\ UNCHANGED <<leases, days, deployments, bundles, req, faults>>

Verify ==
  /\ At("verify")
  /\ Enter("record")
  /\ UNCHANGED <<rows, leases, days, deployments, bundles, req, faults>>

RecordLaunch ==
  /\ At("record")
  /\ LET d == Own(lane.bundle)
     IN IF Conflicts(Next1, d) THEN Enter("reject") /\ UNCHANGED <<deployments, rows>>
        ELSE RecordDeployment(Next1, d) /\ Enter("confirm")
  /\ UNCHANGED <<leases, days, bundles, req, faults>>

Confirm ==
  /\ At("confirm")
  /\ UpdateDeploy(Next1, [Patch EXCEPT !.status = "confirmed", !.hash = lane.bundle])
  /\ lane' = Settled(lane)
  /\ UNCHANGED <<leases, days, deployments, bundles, req, faults>>

Reject ==
  /\ At("reject")
  /\ UpdateDeploy(Next1, [FailedPatch EXCEPT !.hash = lane.bundle])
  /\ lane' = Settled(lane)
  /\ UNCHANGED <<leases, days, deployments, bundles, req, faults>>

-----------------------------------------------------------------------------
\* The end of a claim.

FailRest ==
  /\ At("failing")
  /\ UpdateDeploy(Next1, FailedPatch)
  /\ LET left == lane.todo \ {Next1}
     IN lane' = IF left = {} THEN Idle ELSE [lane EXCEPT !.todo = left]
  /\ UNCHANGED <<leases, days, deployments, bundles, req, faults>>

\* The row keeps its status and its bundle, and says why it is waiting.
NoteWaiting ==
  /\ At("defer")
  /\ UpdateDeploy(Next1, [Patch EXCEPT !.error = "waiting"])
  /\ LET left == lane.todo \ {Next1}
     IN lane' = [lane EXCEPT !.todo = left, !.pc = IF left = {} THEN "release" ELSE @]
  /\ UNCHANGED <<leases, days, deployments, bundles, req, faults>>

\* releaseClaim: the attempt is given back, and the row leased for five minutes.
ReleaseClaim ==
  /\ At("release")
  /\ rows' = [c \in Chains |->
                IF c \in lane.chains /\ rows[c].attempts > 0
                THEN [rows[c] EXCEPT !.attempts = @ - 1] ELSE rows[c]]
  /\ leases' = Restamped(leases, lane.chains)
  /\ lane' = Idle
  /\ UNCHANGED <<days, deployments, bundles, req, faults>>

-----------------------------------------------------------------------------
\* Faults: the process or one of its statements dies and the claim is dropped,
\* a receipt cannot be read, a launch cannot be verified or stored.

Fault == faults < MaxFaults /\ faults' = faults + 1

Crash ==
  /\ Fault
  /\ lane # Idle
  /\ lane' = Idle
  /\ req' \in {req, [r \in Requests |-> IdleRequest]}
  /\ UNCHANGED <<rows, leases, days, deployments, bundles>>

LoseReceipt ==
  /\ Fault
  /\ At("receipt")
  /\ lane' = Defers(lane)
  /\ UNCHANGED <<rows, leases, days, deployments, bundles, req>>

\* Whatever goes wrong inside report.confirmed is caught and fails the row.
LoseConfirmation ==
  /\ Fault
  /\ lane.pc \in {"verify", "record", "confirm"}
  /\ Enter("reject")
  /\ UNCHANGED <<rows, leases, days, deployments, bundles, req>>

-----------------------------------------------------------------------------
\* The clock, the payment chain and the execution service.

\* Only a pass of the worker reads a lease, so one that lapses while a claim is
\* worked on is as good as lapsing after it.
LeaseLapses(g) ==
  /\ lane.chains = {}
  /\ leases' = leases \ {g}
  /\ UNCHANGED <<rows, days, deployments, bundles, lane, req, faults>>

DayPasses(g) ==
  /\ days' = days \ {g}
  /\ UNCHANGED <<rows, leases, deployments, bundles, lane, req, faults>>

PaymentLands(b) ==
  /\ bundles[b].pay = "sent"
  /\ \E result \in {"paid", "reverted"} : bundles' = [bundles EXCEPT ![b].pay = result]
  /\ UNCHANGED <<rows, leases, days, deployments, lane, req, faults>>

\* Relayr executes the launches of a bundle that was paid, and no other.
Launch(b, c) ==
  /\ Paid(b)
  /\ c \in bundles[b].covers
  /\ ~Launched(b, c)
  /\ \E result \in {"ok", "reverted"} : bundles' = [bundles EXCEPT ![b].launch[c] = result]
  /\ UNCHANGED <<rows, leases, days, deployments, lane, req, faults>>

-----------------------------------------------------------------------------
Init ==
  /\ rows = [c \in Chains |-> NoRow]
  /\ leases = {} /\ days = {}
  /\ deployments = [c \in Chains \cup Others |-> NoDeployment]
  /\ bundles = [b \in BundleIds |-> Unquoted]
  /\ lane = Idle
  /\ req = [r \in Requests |-> IdleRequest]
  /\ faults = 0

Worker ==
  \/ ExhaustAttempts \/ ExpireAged \/ RetireQueued \/ ClaimQueued
  \/ ReadClaim \/ FailKnown
  \/ Prepare \/ ReportBundle \/ Pay \/ AwaitPayment \/ ReportPaid
  \/ ReportSent \/ PollTimeout \/ Receipt \/ Verify \/ RecordLaunch \/ Confirm \/ Reject
  \/ FailRest \/ NoteWaiting \/ ReleaseClaim

Next ==
  \/ \E r \in Requests :
       \/ ReadDeployments(r) \/ ReadRows(r) \/ Answer(r) \/ CheckBudget(r) \/ QueueDeploys(r)
  \/ \E c \in Chains \cup Others : PostDeployment(c)
  \/ Worker
  \/ Crash \/ LoseReceipt \/ LoseConfirmation
  \/ \E g \in leases : LeaseLapses(g)
  \/ \E g \in days : DayPasses(g)
  \/ \E b \in BundleIds : PaymentLands(b)
  \/ \E b \in BundleIds, c \in Chains : Launch(b, c)

Spec == Init /\ [][Next]_vars

\* The worker keeps running (its timer, a restart after a crash), days pass,
\* and a lease does not forever lapse inside the few milliseconds of a pass.
FairSpec ==
  /\ Spec
  /\ WF_vars(Worker)
  /\ \A g \in SUBSET Chains :
       /\ WF_vars(g \in days /\ DayPasses(g))
       /\ SF_vars(g \in leases /\ lane = Idle /\ LeaseLapses(g))

-----------------------------------------------------------------------------
\* Every variable has its shape: no statement of the store or step of the worker
\* leaves a row, a claim or a bundle in a form the others do not expect.
TypeOK ==
  /\ rows \in [Chains -> Rows]
  /\ leases \in SUBSET SUBSET Chains /\ days \in SUBSET SUBSET Chains
  /\ deployments \in [Chains \cup Others -> Deployments]
  /\ bundles \in [BundleIds -> Bundles]
  /\ lane \in Lanes
  /\ req \in [Requests -> [pc : {"idle", "rows", "deployments", "budget", "queue"},
                            deployed : SUBSET (Chains \cup Others),
                            absent : SUBSET Chains, failed : SUBSET Chains,
                            fresh : SUBSET Chains, retry : BOOLEAN]]
  /\ faults \in Nat

\* No chain is paid for twice: however claims lapse, crash, resume and are retried,
\* at most one bundle that covers a chain ever has its prepayment sent.
PaidOnce ==
  \A c \in Chains, a, b \in BundleIds :
    (/\ c \in bundles[a].covers /\ bundles[a].pay # "no"
     /\ c \in bundles[b].covers /\ bundles[b].pay # "no") => a = b

\* Why no chain is paid for twice. A prepaid bundle is on the row of each of its
\* chains for good, and a row that is not there has none; only a paid bundle is
\* launched; a claim that deploys started without a bundle; and the lane records
\* its bundle on each row before it pays.
PaidIsRecorded ==
  \A b \in BundleIds : bundles[b].pay # "no" =>
    \A c \in bundles[b].covers : rows[c].bundle = b

AbsentIsBare == \A c \in Chains : rows[c].status = "absent" => rows[c].bundle = 0

LaunchedWasPaid ==
  \A b \in BundleIds, c \in Chains : Launched(b, c) => Paid(b) /\ c \in bundles[b].covers

ClaimIsBare ==
  /\ At("prepare") => lane.bundle = 0
  /\ lane.pc \in {"known", "prepare"} /\ lane.bundle = 0 =>
       \A c \in lane.chains : rows[c].bundle = 0

BundleFirst ==
  lane.pc \in {"bundle", "pay"} =>
    /\ lane.bundle \in BundleIds
    /\ bundles[lane.bundle].covers = lane.chains /\ bundles[lane.bundle].pay = "no"
    /\ lane.todo \subseteq lane.chains /\ (At("pay") => lane.todo = {})
    /\ \A c \in lane.chains : rows[c].bundle = IF c \in lane.todo THEN 0 ELSE lane.bundle

LaneReady ==
  /\ lane.pc \in {"await", "charge", "poll", "receipt", "verify", "record", "confirm", "reject"}
       => lane.bundle \in BundleIds
  /\ lane.pc \in {"known", "bundle", "receipt", "verify", "record", "confirm", "reject",
                  "failing", "defer"} => lane.todo # {}
  /\ lane.pc \in {"read", "prepare", "bundle", "pay", "await", "charge", "poll"}
       => lane.chains # {}

\* The inductive invariant: the type invariant and the reasons above, with what
\* each step of the worker may rely on when it starts.
IInv ==
  /\ TypeOK /\ PaidIsRecorded /\ AbsentIsBare /\ LaunchedWasPaid
  /\ ClaimIsBare /\ BundleFirst /\ LaneReady

\* What the budget counts for the chains of a bundle.
CountedFor(b) ==
  MapThenSumSet(LAMBDA c : rows[c].reserved + rows[c].spent, bundles[b].covers)

\* The budget keeps counting a prepayment that left the key for as long as a chain
\* of its bundle is not confirmed, whichever way its row fails or waits.
UnsettledIsCounted ==
  \A b \in BundleIds :
    (Paid(b) /\ \E c \in bundles[b].covers : rows[c].status # "confirmed") => CountedFor(b) > 0

\* The budget counts every prepayment that left the key: "The sponsor charges the
\* budget what it actually spent".
SpentIsCounted == \A b \in BundleIds : Paid(b) => CountedFor(b) > 0


\* A confirmed row is the recorded deployment of its chain, and stays so.
ConfirmedIsRecorded ==
  \A c \in Chains : rows[c].status = "confirmed" => deployments[c] = Own(rows[c].hash)


\* Every queued row is settled: confirmed or failed, whatever the sponsor's balance,
\* the execution service and a bounded number of crashes do.
QueuedSettles ==
  \A c \in Chains : Live(c) ~> rows[c].status \in {"confirmed", "failed"}

=============================================================================
