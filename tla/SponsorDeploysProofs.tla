------------------------ MODULE SponsorDeploysProofs ------------------------
(***************************************************************************)
(* No chain of an intent is paid for twice, for every number of chains,    *)
(* requests, bundles, crashes and unreadable answers.                      *)
(*                                                                         *)
(* Only the worker writes a bundle on a row, and only in report.bundle is  *)
(* that a new one: every other step leaves the bundle of every row as it   *)
(* is (RowsKept).  So the rows of a prepaid bundle keep naming it, and a   *)
(* claim that starts from rows without a bundle covers no paid chain.      *)
(***************************************************************************)
EXTENDS SponsorDeploys, FiniteSetTheorems, TLAPS

-----------------------------------------------------------------------------
\* Lemmas about the operators.

Patches == [status : {"", "queued", "sent", "confirmed", "failed"}, hash : 0..MaxBundles,
            bundle : 0..MaxBundles, error : {"", "waiting", "final"}, spent : Nat]

\* A patched row keeps its shape; it gets the bundle of the patch, if there is one,
\* and updateDeploy takes no row away.
LEMMA PatchedRow ==
  ASSUME NEW row \in Rows, NEW patch \in Patches
  PROVE  /\ Patched(row, patch) \in Rows
         /\ Patched(row, patch).bundle = IF patch.bundle = 0 THEN row.bundle ELSE patch.bundle
         /\ Patched(row, patch).status = "absent" => row.status = "absent" /\ patch.status = ""
<1> DEFINE s == IF patch.status = "" THEN row.status ELSE patch.status
           h == IF patch.hash = 0 THEN row.hash ELSE patch.hash
           b == IF patch.bundle = 0 THEN row.bundle ELSE patch.bundle
           w == IF patch.spent = 0 THEN row.spent ELSE patch.spent
           v == IF Releases(row, patch) THEN 0 ELSE row.reserved
<1>1. /\ s \in {"absent", "queued", "sent", "confirmed", "failed"}
      /\ s = "absent" => row.status = "absent" /\ patch.status = ""
  BY DEF Rows, Patches
<1>2. h \in 0..MaxBundles /\ b \in 0..MaxBundles /\ w \in Nat
  BY DEF Rows, Patches
<1>3. v \in {0, 1}
  BY DEF Rows, Releases
<1>4. patch.error \in {"", "waiting", "unresolved", "final"}
  BY DEF Patches
<1>5. Patched(row, patch) = [row EXCEPT !.status = s, !.hash = h, !.bundle = b,
                                        !.error = patch.error, !.spent = w, !.reserved = v]
  BY Zenon DEF Patched
<1> HIDE DEF s, h, b, w, v
<1>6. Patched(row, patch) \in Rows
  BY <1>1, <1>2, <1>3, <1>4, <1>5 DEF Rows
<1>7. Patched(row, patch).bundle = b /\ Patched(row, patch).status = s
  BY <1>5 DEF Rows
<1> QED
  BY <1>1, <1>6, <1>7 DEF b

\* A retired row keeps its bundle.
LEMMA RetiredRow ==
  ASSUME NEW row \in Rows, NEW error \in {"unresolved", "final"}
  PROVE  /\ Retired(row, error) \in Rows
         /\ Retired(row, error).bundle = row.bundle
         /\ Retired(row, error).status = "failed"
BY DEF Retired, Rows

\* The chain a loop takes next is one it has left.
LEMMA FirstIsIn ==
  ASSUME NEW S \in SUBSET Chains, S # {}
  PROVE  First(S) \in S
<1>1. PICK c \in S : \A d \in S : c <= d
  BY ConstantShapes
<1> QED
  BY <1>1 DEF First

\* What the step after a claim's end, or between two receipts, needs.
Calm(l) ==
  /\ l \in Lanes
  /\ l.pc \in {"exhaust", "expire", "retire", "claim", "receipt", "verify", "record",
               "confirm", "reject", "failing", "defer", "release"}
  /\ l.pc \in {"receipt", "verify", "record", "confirm", "reject"} => l.bundle \in BundleIds
  /\ l.pc \in {"receipt", "verify", "record", "confirm", "reject", "failing", "defer"}
       => l.todo # {}

LEMMA IdleIsCalm == Calm(Idle)
BY ConstantShapes DEF Calm, Idle, Lanes, Pcs

LEMMA FailsIsCalm ==
  ASSUME NEW l \in Lanes
  PROVE  Calm(Fails(l))
<1>1. CASE l.chains \ l.done = {}
  BY <1>1, IdleIsCalm DEF Fails
<1>2. CASE l.chains \ l.done # {}
  BY <1>2 DEF Fails, Calm, Lanes, Pcs
<1> QED
  BY <1>1, <1>2

LEMMA DefersIsCalm ==
  ASSUME NEW l \in Lanes
  PROVE  Calm(Defers(l))
BY DEF Defers, Calm, Lanes, Pcs

LEMMA SettledIsCalm ==
  ASSUME NEW l \in Lanes, l.todo # {}, l.bundle \in BundleIds
  PROVE  Calm(Settled(l))
<1> DEFINE c == First(l.todo)
           k == [l EXCEPT !.done = @ \cup {c}, !.todo = @ \ {c}]
<1>1. c \in Chains
  BY FirstIsIn DEF Lanes
<1>2. k \in Lanes /\ k.bundle = l.bundle
  BY <1>1 DEF Lanes
<1>3. Calm(Fails(k))
  BY <1>2, FailsIsCalm
<1>4. ASSUME k.todo # {}
      PROVE  Calm([k EXCEPT !.pc = "receipt"])
  BY <1>2, <1>4 DEF Calm, Lanes, Pcs
<1>5. Settled(l) = IF k.todo = {} THEN Fails(k) ELSE [k EXCEPT !.pc = "receipt"]
  BY DEF Settled
<1> QED
  BY <1>3, <1>4, <1>5

-----------------------------------------------------------------------------
\* Frames.

\* The step leaves the bundle of every row as it is, and takes no row away.
RowsKept ==
  /\ rows' \in [Chains -> Rows]
  /\ \A c \in Chains : /\ rows'[c].bundle = rows[c].bundle
                       /\ rows'[c].status = "absent" => rows[c].status = "absent"

\* updateDeploy with a patch that names no new bundle.
LEMMA UpdateKeepsRows ==
  ASSUME IInv, NEW c \in Chains, NEW patch \in Patches, UpdateDeploy(c, patch),
         patch.bundle \in {0, rows[c].bundle}
  PROVE  RowsKept
<1>1. rows \in [Chains -> Rows] /\ rows[c] \in Rows
  BY DEF IInv, TypeOK
<1>2. /\ Patched(rows[c], patch) \in Rows
      /\ Patched(rows[c], patch).bundle = rows[c].bundle
      /\ Patched(rows[c], patch).status = "absent" => rows[c].status = "absent"
  BY <1>1, PatchedRow
<1>3. rows' = [rows EXCEPT ![c] = IF Refuses(rows[c], patch) THEN rows[c]
                                  ELSE Patched(rows[c], patch)]
  BY DEF UpdateDeploy
<1> QED
  BY <1>1, <1>2, <1>3 DEF RowsKept

LEMMA SameRowsKept ==
  ASSUME IInv, UNCHANGED rows
  PROVE  RowsKept
BY DEF IInv, TypeOK, RowsKept

\* Retiring any of the rows keeps their bundles.
LEMMA RetiringKeepsRows ==
  ASSUME IInv, NEW S \in SUBSET Chains, NEW E \in [Chains -> {"unresolved", "final"}],
         rows' = [c \in Chains |-> IF c \in S THEN Retired(rows[c], E[c]) ELSE rows[c]]
  PROVE  RowsKept
<1>1. \A c \in Chains : rows[c] \in Rows
  BY DEF IInv, TypeOK
<1>2. \A c \in Chains : /\ Retired(rows[c], E[c]) \in Rows
                        /\ Retired(rows[c], E[c]).bundle = rows[c].bundle
                        /\ Retired(rows[c], E[c]).status = "failed"
  BY <1>1, RetiredRow
<1>3. rows' \in [Chains -> Rows]
  BY <1>1, <1>2
<1> QED
  BY <1>2, <1>3 DEF RowsKept

LEMMA RetireUnpaidKeepsRows ==
  ASSUME IInv, rows' = RetireUnpaid(rows)
  PROVE  RowsKept
<1> DEFINE S == {c \in Chains : rows[c].status = "queued" /\ rows[c].bundle = 0}
           E == [c \in Chains |-> "final"]
<1>1. rows' = [c \in Chains |-> IF c \in S THEN Retired(rows[c], E[c]) ELSE rows[c]]
  BY DEF RetireUnpaid
<1>2. S \in SUBSET Chains /\ E \in [Chains -> {"unresolved", "final"}]
  OBVIOUS
<1> HIDE DEF S, E
<1> QED
  BY <1>1, <1>2, RetiringKeepsRows

\* What the rows and the bundles say of each other survives a step that keeps both.
LEMMA KeptBooks ==
  ASSUME IInv, RowsKept, UNCHANGED bundles
  PROVE  PaidIsRecorded' /\ AbsentIsBare' /\ LaunchedWasPaid'
<1>1. \A b \in BundleIds : bundles[b].covers \subseteq Chains
  BY DEF IInv, TypeOK, Bundles
<1>2. PaidIsRecorded'
  BY <1>1 DEF IInv, PaidIsRecorded, RowsKept
<1>3. AbsentIsBare'
  BY DEF IInv, AbsentIsBare, RowsKept
<1>4. LaunchedWasPaid'
  BY DEF IInv, LaunchedWasPaid, Launched, Paid
<1> QED
  BY <1>2, <1>3, <1>4

\* A lane that stands still keeps what it relies on.
LEMMA KeptLane ==
  ASSUME IInv, RowsKept, UNCHANGED lane,
         \A b \in BundleIds : /\ bundles'[b].covers = bundles[b].covers
                              /\ bundles[b].pay = "no" => bundles'[b].pay = "no"
  PROVE  ClaimIsBare' /\ BundleFirst' /\ LaneReady'
<1>1. lane.chains \subseteq Chains
  BY DEF IInv, TypeOK, Lanes
<1>2. ClaimIsBare'
  BY <1>1 DEF IInv, ClaimIsBare, RowsKept, At
<1>3. BundleFirst'
  BY <1>1 DEF IInv, BundleFirst, RowsKept, At
<1>4. LaneReady'
  BY DEF IInv, LaneReady, BundleIds
<1> QED
  BY <1>2, <1>3, <1>4

\* A calm lane relies on nothing else.
LEMMA CalmLane ==
  ASSUME Calm(lane')
  PROVE  lane' \in Lanes /\ ClaimIsBare' /\ BundleFirst' /\ LaneReady'
<1>1. lane' \in Lanes
  BY DEF Calm
<1>2. ClaimIsBare' /\ BundleFirst'
  BY DEF Calm, ClaimIsBare, BundleFirst, At
<1>3. LaneReady'
  BY DEF Calm, LaneReady, BundleIds
<1> QED
  BY <1>1, <1>2, <1>3

-----------------------------------------------------------------------------
\* The types of what neither the rows, the bundles nor the lane are about.

Reqs == [pc : {"idle", "rows", "deployments", "budget", "queue"},
         deployed : SUBSET (Chains \cup Others),
         absent : SUBSET Chains, failed : SUBSET Chains,
         fresh : SUBSET Chains, retry : BOOLEAN]

RestOK ==
  /\ leases \in SUBSET SUBSET Chains /\ days \in SUBSET SUBSET Chains
  /\ deployments \in [Chains \cup Others -> Deployments]
  /\ req \in [Requests -> Reqs]
  /\ faults \in Nat

LEMMA TypeParts ==
  TypeOK <=> /\ rows \in [Chains -> Rows] /\ bundles \in [BundleIds -> Bundles]
             /\ lane \in Lanes /\ RestOK
BY DEF TypeOK, RestOK, Reqs

LEMMA TypePartsNext ==
  ASSUME rows' \in [Chains -> Rows], bundles' \in [BundleIds -> Bundles], lane' \in Lanes, RestOK'
  PROVE  TypeOK'
BY DEF TypeOK, RestOK, Reqs

LEMMA SameRest ==
  ASSUME IInv, UNCHANGED <<leases, days, deployments, req, faults>>
  PROVE  RestOK'
BY TypeParts DEF IInv, RestOK

LEMMA GroupsTyped ==
  ASSUME NEW groups \in SUBSET SUBSET Chains, NEW S \in SUBSET Chains
  PROVE  /\ Without(groups, S) \in SUBSET SUBSET Chains
         /\ Restamped(groups, S) \in SUBSET SUBSET Chains
BY DEF Without, Restamped

\* The two kinds of step there are beside those that write a new bundle.
LEMMA KeptStep ==
  ASSUME IInv, RowsKept, UNCHANGED <<bundles, lane>>, RestOK'
  PROVE  IInv'
<1>1. PaidIsRecorded' /\ AbsentIsBare' /\ LaunchedWasPaid'
  BY KeptBooks
<1>2. ClaimIsBare' /\ BundleFirst' /\ LaneReady'
  BY KeptLane
<1>3. TypeOK'
  BY TypeParts, TypePartsNext DEF IInv, RowsKept
<1> QED
  BY <1>1, <1>2, <1>3 DEF IInv

LEMMA LaneStep ==
  ASSUME IInv, RowsKept, UNCHANGED bundles, RestOK', lane' \in Lanes,
         ClaimIsBare', BundleFirst', LaneReady'
  PROVE  IInv'
<1>1. PaidIsRecorded' /\ AbsentIsBare' /\ LaunchedWasPaid'
  BY KeptBooks
<1>2. TypeOK'
  BY TypeParts, TypePartsNext DEF IInv, RowsKept
<1> QED
  BY <1>1, <1>2 DEF IInv

LEMMA CalmStep ==
  ASSUME IInv, RowsKept, UNCHANGED bundles, RestOK', Calm(lane')
  PROVE  IInv'
BY CalmLane, LaneStep

-----------------------------------------------------------------------------
\* The deploy route and the deployments route.

LEMMA GotoTyped ==
  ASSUME IInv, NEW r \in Requests, NEW k \in Reqs, Goto(r, k),
         UNCHANGED <<leases, days, deployments, faults>>
  PROVE  RestOK'
BY TypeParts DEF IInv, RestOK, Goto

LEMMA IdleTyped == IdleRequest \in Reqs
BY DEF IdleRequest, Reqs

LEMMA SelectsTyped ==
  ASSUME IInv, NEW r \in Requests, NEW D, NEW A, NEW F, Selects(r, D, A, F),
         UNCHANGED <<leases, days, deployments, faults>>
  PROVE  RestOK'
<1>1. PICK want \in (SUBSET Chains) \ {{}}, named \in Named :
        Goto(r, [IdleRequest EXCEPT !.pc = "budget",
                   !.fresh = (want \ D) \cap (A \cup (IF named THEN F ELSE {})),
                   !.retry = named])
  BY DEF Selects
<1> DEFINE fresh == (want \ D) \cap (A \cup (IF named THEN F ELSE {}))
           k == [IdleRequest EXCEPT !.pc = "budget", !.fresh = fresh, !.retry = named]
<1>2. fresh \in SUBSET Chains /\ named \in BOOLEAN
  BY ConstantShapes
<1>3. Goto(r, k)
  BY <1>1
<1> HIDE DEF fresh
<1>4. k \in Reqs
  BY <1>2, IdleTyped DEF Reqs
<1> QED
  BY <1>3, <1>4, GotoTyped

LEMMA ReadsKeep ==
  ASSUME IInv, NEW r \in Requests,
         ReadDeployments(r) \/ ReadRows(r) \/ Answer(r) \/ CheckBudget(r)
  PROVE  IInv'
<1>1. UNCHANGED <<rows, leases, days, deployments, bundles, lane, faults>>
  BY DEF ReadDeployments, ReadRows, Answer, CheckBudget
<1>2. RowsKept
  BY <1>1, SameRowsKept
<1>3. req[r] \in Reqs
  BY TypeParts DEF IInv, RestOK
<1>4. RestOK'
  <2>1. CASE ReadDeployments(r)
    <3>1. Recorded \in SUBSET (Chains \cup Others)
      BY DEF Recorded
    <3> DEFINE k == [IdleRequest EXCEPT !.pc = "rows", !.deployed = Recorded]
    <3>2. k \in Reqs
      BY <3>1, IdleTyped DEF Reqs
    <3>3. Goto(r, k) \/ Selects(r, Recorded, req[r].absent, req[r].failed)
      BY <2>1 DEF ReadDeployments
    <3> QED
      BY <1>1, <3>2, <3>3, GotoTyped, SelectsTyped
  <2>2. CASE ReadRows(r)
    <3>1. \A st : WithStatus(st) \in SUBSET Chains
      BY DEF WithStatus
    <3> DEFINE k == [IdleRequest EXCEPT !.pc = "deployments", !.absent = WithStatus("absent"),
                                        !.failed = WithStatus("failed")]
    <3>2. k \in Reqs
      BY <3>1, IdleTyped DEF Reqs
    <3>3. Goto(r, k) \/ Selects(r, req[r].deployed, WithStatus("absent"), WithStatus("failed"))
      BY <2>2 DEF ReadRows
    <3> QED
      BY <1>1, <3>2, <3>3, GotoTyped, SelectsTyped
  <2>3. CASE Answer(r)
    BY <1>1, <2>3, IdleTyped, GotoTyped DEF Answer
  <2>4. CASE CheckBudget(r)
    <3>1. [req[r] EXCEPT !.pc = "queue"] \in Reqs
      BY <1>3 DEF Reqs
    <3>2. Goto(r, IdleRequest) \/ Goto(r, [req[r] EXCEPT !.pc = "queue"])
      BY <2>4 DEF CheckBudget
    <3> QED
      BY <1>1, <3>1, <3>2, IdleTyped, GotoTyped
  <2> QED
    BY <2>1, <2>2, <2>3, <2>4
<1> QED
  BY <1>1, <1>2, <1>4, KeptStep

LEMMA NoRowTyped == NoRow \in Rows /\ NoRow.bundle = 0
<1>1. 0 \in 0..MaxBundles /\ 0 \in 0..MaxAttempts
  BY ConstantShapes DEF MaxAttempts
<1> QED
  BY <1>1 DEF NoRow, Rows

\* A row that starts over has no bundle to lose: an absent one never had any.
LEMMA QueueKeeps ==
  ASSUME IInv, NEW r \in Requests, QueueDeploys(r)
  PROVE  IInv'
<1> DEFINE again == {c \in req[r].fresh : Restarts(rows[c], req[r].retry)}
<1>1. /\ req[r].fresh \in SUBSET Chains /\ again \in SUBSET Chains
      /\ \A c \in Chains : rows[c] \in Rows
  BY TypeParts DEF IInv, RestOK, Reqs
<1>2. \A c \in again : rows[c].bundle = 0
  BY <1>1 DEF Restarts, IInv, AbsentIsBare
<1>3. /\ rows' = [c \in Chains |-> IF c \in again THEN Queued(rows[c]) ELSE rows[c]]
      /\ leases' = Without(leases, again) /\ days' = Restamped(days, again)
      /\ Goto(r, IdleRequest) /\ UNCHANGED <<deployments, bundles, lane, faults>>
  BY DEF QueueDeploys
<1> HIDE DEF again
<1>4. ASSUME NEW row \in Rows
      PROVE  Queued(row) \in Rows /\ Queued(row).bundle = 0 /\ Queued(row).status = "queued"
  <2>1. NoRow \in Rows /\ NoRow.bundle = 0
    BY NoRowTyped
  <2>2. row.spent \in Nat
    BY DEF Rows
  <2> QED
    BY <2>1, <2>2 DEF Queued, Rows
<1>5. RowsKept
  <2>1. rows' \in [Chains -> Rows]
    BY <1>1, <1>3, <1>4
  <2> QED
    BY <1>1, <1>2, <1>3, <1>4, <2>1 DEF RowsKept
<1>6. RestOK'
  BY <1>1, <1>3, TypeParts, IdleTyped, GroupsTyped DEF IInv, RestOK, Goto
<1> QED
  BY <1>3, <1>5, <1>6, KeptStep

\* recordDeployment and its retirement keep the bundles of the rows.
LEMMA RecordKeepsRows ==
  ASSUME IInv, NEW c \in Chains \cup Others, NEW d \in Deployments, RecordDeployment(c, d),
         UNCHANGED <<leases, days, req, faults>>
  PROVE  RowsKept /\ RestOK'
<1>1. RowsKept
  BY SameRowsKept, RetireUnpaidKeepsRows DEF RecordDeployment
<1>2. RestOK'
  BY TypeParts DEF IInv, RestOK, RecordDeployment
<1> QED
  BY <1>1, <1>2

LEMMA PostKeeps ==
  ASSUME IInv, NEW c \in Chains \cup Others, PostDeployment(c)
  PROVE  IInv'
<1>1. PICK d \in Verifiable(c) : RecordDeployment(c, d)
  BY DEF PostDeployment
<1>2. d \in Deployments
  BY <1>1, ConstantShapes DEF Verifiable, Deployments, Own, BundleIds
<1> QED
  BY <1>1, <1>2, RecordKeepsRows, KeptStep DEF PostDeployment

-----------------------------------------------------------------------------
\* The worker.

LEMMA LaneTyped ==
  ASSUME IInv
  PROVE  /\ lane \in Lanes
         /\ lane.chains \in SUBSET Chains /\ lane.todo \in SUBSET Chains
         /\ lane.bundle \in 0..MaxBundles
         /\ lane.todo # {} => Next1 \in lane.todo /\ Next1 \in Chains
<1>1. /\ lane \in Lanes
      /\ lane.chains \in SUBSET Chains /\ lane.todo \in SUBSET Chains
      /\ lane.bundle \in 0..MaxBundles
  BY DEF IInv, TypeOK, Lanes
<1> QED
  BY <1>1, FirstIsIn DEF Next1

\* The patches of the worker; none but the reports of a bundle names one.
LEMMA PatchTyped ==
  /\ Patch \in Patches /\ Patch.bundle = 0
  /\ FailedPatch \in Patches /\ FailedPatch.bundle = 0
<1>1. 0 \in 0..MaxBundles
  BY ConstantShapes
<1>2. Patch \in Patches /\ Patch.bundle = 0
  BY <1>1 DEF Patch, Patches
<1> QED
  BY <1>2 DEF FailedPatch, Patches

LEMMA EnterCalm ==
  ASSUME IInv, NEW pc \in {"expire", "retire", "claim"}, Enter(pc)
  PROVE  Calm(lane')
BY LaneTyped DEF Enter, Calm, Lanes, Pcs

LEMMA ExhaustKeeps ==
  ASSUME IInv, ExhaustAttempts
  PROVE  IInv'
<1> DEFINE S == {c \in Chains : Exhausted(rows[c], c)}
           E == [c \in Chains |-> "final"]
<1>1. rows' = [c \in Chains |-> IF c \in S THEN Retired(rows[c], E[c]) ELSE rows[c]]
  BY DEF ExhaustAttempts
<1>2. S \in SUBSET Chains /\ E \in [Chains -> {"unresolved", "final"}]
  OBVIOUS
<1> HIDE DEF S, E
<1>3. RowsKept
  BY <1>1, <1>2, RetiringKeepsRows
<1> QED
  BY <1>3, EnterCalm, SameRest, CalmStep DEF ExhaustAttempts

LEMMA ExpireKeeps ==
  ASSUME IInv, ExpireAged
  PROVE  IInv'
<1> DEFINE S == {c \in Chains : Expired(rows[c], c)}
           E == [c \in Chains |-> IF rows[c].bundle = 0 THEN "final" ELSE "unresolved"]
<1>1. rows' = [c \in Chains |-> IF c \in S THEN Retired(rows[c], E[c]) ELSE rows[c]]
  BY DEF ExpireAged
<1>2. S \in SUBSET Chains /\ E \in [Chains -> {"unresolved", "final"}]
  OBVIOUS
<1> HIDE DEF S, E
<1>3. RowsKept
  BY <1>1, <1>2, RetiringKeepsRows
<1> QED
  BY <1>3, EnterCalm, SameRest, CalmStep DEF ExpireAged

LEMMA RetireKeeps ==
  ASSUME IInv, RetireQueued
  PROVE  IInv'
<1>1. RowsKept
  BY SameRowsKept, RetireUnpaidKeepsRows DEF RetireQueued
<1> QED
  BY <1>1, EnterCalm, SameRest, CalmStep DEF RetireQueued

LEMMA ClaimKeeps ==
  ASSUME IInv, ClaimQueued
  PROVE  IInv'
<1> DEFINE mine == {c \in Chains : Claimable(c)}
<1>1. /\ rows' = [c \in Chains |->
                    IF c \in mine THEN [rows[c] EXCEPT !.attempts = @ + 1] ELSE rows[c]]
      /\ leases' = Restamped(leases, mine)
      /\ lane' = IF mine = {} THEN Idle ELSE [Idle EXCEPT !.pc = "read", !.chains = mine]
      /\ UNCHANGED <<days, deployments, bundles, req, faults>>
  BY DEF ClaimQueued
<1>2. mine \in SUBSET Chains /\ \A c \in mine : rows[c].attempts < MaxAttempts
  BY DEF Claimable
<1> HIDE DEF mine
<1>3. \A c \in Chains : rows[c] \in Rows
  BY DEF IInv, TypeOK
<1>4. ASSUME NEW row \in Rows, row.attempts < MaxAttempts
      PROVE  LET new == [row EXCEPT !.attempts = @ + 1]
             IN new \in Rows /\ new.bundle = row.bundle /\ new.status = row.status
  <2>1. row.attempts \in 0..MaxAttempts
    BY DEF Rows
  <2>2. row.attempts + 1 \in 0..MaxAttempts
    BY <1>4, <2>1 DEF MaxAttempts
  <2> QED
    BY <2>2 DEF Rows
<1>5. RowsKept
  <2>1. rows' \in [Chains -> Rows]
    BY <1>1, <1>2, <1>3, <1>4
  <2> QED
    BY <1>1, <1>2, <1>3, <1>4, <2>1 DEF RowsKept
<1>6. RestOK'
  BY <1>1, <1>2, TypeParts, GroupsTyped DEF IInv, RestOK
<1>7. CASE mine = {}
  BY <1>1, <1>5, <1>6, <1>7, IdleIsCalm, CalmStep
<1>8. CASE mine # {}
  <2>1. Idle \in Lanes
    BY IdleIsCalm DEF Calm
  <2>2. lane' \in Lanes /\ lane'.pc = "read" /\ lane'.chains # {}
    BY <1>1, <1>2, <1>8, <2>1 DEF Lanes, Pcs
  <2>3. ClaimIsBare' /\ BundleFirst' /\ LaneReady'
    BY <2>2 DEF ClaimIsBare, BundleFirst, LaneReady, At
  <2> QED
    BY <1>1, <1>5, <1>6, <2>2, <2>3, LaneStep
<1> QED
  BY <1>7, <1>8

\* A claim that begins without a bundle begins from rows without one.
LEMMA BeginReady ==
  ASSUME IInv, RowsKept, NEW l \in Lanes, lane' = Begin(l),
         l.bundle = 0 => \A c \in l.chains : rows[c].bundle = 0
  PROVE  lane' \in Lanes /\ ClaimIsBare' /\ BundleFirst' /\ LaneReady'
<1>1. CASE l.chains = {}
  BY <1>1, IdleIsCalm, CalmLane DEF Begin
<1>2. CASE l.chains # {} /\ l.bundle # 0
  <2>1. /\ lane' \in Lanes /\ lane'.pc = "poll" /\ lane'.bundle = l.bundle
        /\ lane'.chains = l.chains
    BY <1>2 DEF Begin, Lanes, Pcs
  <2>2. l.bundle \in BundleIds
    BY <1>2, ConstantShapes DEF Lanes, BundleIds
  <2> QED
    BY <1>2, <2>1, <2>2 DEF ClaimIsBare, BundleFirst, LaneReady, At, BundleIds
<1>3. CASE l.chains # {} /\ l.bundle = 0
  <2>1. /\ lane' \in Lanes /\ lane'.pc = "prepare" /\ lane'.bundle = 0
        /\ lane'.chains = l.chains
    BY <1>3 DEF Begin, Lanes, Pcs
  <2>2. \A c \in l.chains : rows'[c].bundle = 0
    BY <1>3 DEF RowsKept, Lanes
  <2> QED
    BY <1>3, <2>1, <2>2 DEF ClaimIsBare, BundleFirst, LaneReady, At
<1> QED
  BY <1>1, <1>2, <1>3

LEMMA ReadKeeps ==
  ASSUME IInv, ReadClaim
  PROVE  IInv'
<1> DEFINE carried == {c \in lane.chains : rows[c].bundle # 0}
           known == lane.chains \cap Recorded
           number == IF carried = {} THEN 0 ELSE rows[First(carried)].bundle
           k == [lane EXCEPT !.chains = @ \ known, !.bundle = number]
<1>1. RowsKept /\ RestOK' /\ UNCHANGED bundles
  BY SameRowsKept, SameRest DEF ReadClaim
<1>2. carried \in SUBSET Chains /\ known \in SUBSET Chains
  BY LaneTyped
<1>3. /\ number \in 0..MaxBundles
      /\ number = 0 => carried = {}
  <2>1. CASE carried = {}
    BY <2>1, ConstantShapes
  <2>2. CASE carried # {}
    <3>1. First(carried) \in carried
      BY <1>2, <2>2, FirstIsIn
    <3>2. rows[First(carried)] \in Rows
      BY <1>2, <3>1 DEF IInv, TypeOK
    <3> QED
      BY <2>2, <3>1, <3>2 DEF Rows
  <2> QED
    BY <2>1, <2>2
<1>4. lane' = IF carried = {} /\ WalletDeployed THEN Fails(lane)
              ELSE IF known = {} THEN Begin(k)
              ELSE [k EXCEPT !.pc = "known", !.todo = known]
  BY DEF ReadClaim
<1>5. carried = {} => \A c \in lane.chains : rows[c].bundle = 0
  OBVIOUS
<1> HIDE DEF carried, known, number
<1>6. /\ k \in Lanes /\ k.bundle = number /\ k.chains = lane.chains \ known
  BY <1>2, <1>3, LaneTyped DEF Lanes
<1>7. k.bundle = 0 => \A c \in k.chains : rows[c].bundle = 0
  BY <1>3, <1>5, <1>6
<1> HIDE DEF k
<1>8. CASE lane' = Fails(lane)
  BY <1>1, <1>8, LaneTyped, FailsIsCalm, CalmStep
<1>9. CASE lane' = Begin(k)
  BY <1>1, <1>6, <1>7, <1>9, BeginReady, LaneStep
<1>10. CASE known # {} /\ lane' = [k EXCEPT !.pc = "known", !.todo = known]
  <2>1. /\ lane' \in Lanes /\ lane'.pc = "known" /\ lane'.todo # {}
        /\ lane'.bundle = k.bundle /\ lane'.chains = k.chains
    BY <1>2, <1>6, <1>10 DEF Lanes, Pcs
  <2>2. rows' = rows
    BY DEF ReadClaim
  <2>3. ClaimIsBare' /\ BundleFirst' /\ LaneReady'
    BY <1>7, <2>1, <2>2 DEF ClaimIsBare, BundleFirst, LaneReady, At
  <2> QED
    BY <1>1, <2>1, <2>3, LaneStep
<1> QED
  BY <1>4, <1>8, <1>9, <1>10

LEMMA FailKnownKeeps ==
  ASSUME IInv, FailKnown
  PROVE  IInv'
<1> DEFINE left == lane.todo \ {Next1}
           l == [lane EXCEPT !.todo = {}]
<1>1. At("known") /\ lane.pc = "known" /\ lane.todo # {}
  BY DEF FailKnown, At, IInv, LaneReady
<1>2. Next1 \in Chains
  BY <1>1, LaneTyped
<1>3. RowsKept
  BY <1>2, PatchTyped, UpdateKeepsRows DEF FailKnown
<1>4. RestOK' /\ UNCHANGED bundles
  BY SameRest DEF FailKnown
<1>5. lane' = IF left = {} THEN Begin(l) ELSE [lane EXCEPT !.todo = left]
  BY DEF FailKnown
<1>6. lane.bundle = 0 => \A c \in lane.chains : rows[c].bundle = 0
  BY <1>1 DEF IInv, ClaimIsBare
<1>7. CASE left = {}
  <2>1. l \in Lanes /\ l.bundle = lane.bundle /\ l.chains = lane.chains
    BY LaneTyped DEF Lanes
  <2> HIDE DEF l
  <2>2. lane' = Begin(l)
    BY <1>5, <1>7
  <2> QED
    BY <1>3, <1>4, <1>6, <2>1, <2>2, BeginReady, LaneStep
<1>8. CASE left # {}
  <2>1. lane' = [lane EXCEPT !.todo = left] /\ left \in SUBSET Chains
    BY <1>5, <1>8, LaneTyped
  <2>2. /\ lane' \in Lanes /\ lane'.pc = "known" /\ lane'.todo # {}
        /\ lane'.bundle = lane.bundle /\ lane'.chains = lane.chains
    BY <1>1, <1>8, <2>1, LaneTyped DEF Lanes
  <2>3. ClaimIsBare' /\ BundleFirst' /\ LaneReady'
    BY <1>3, <1>6, <2>2, LaneTyped DEF ClaimIsBare, BundleFirst, LaneReady, At, RowsKept
  <2> QED
    BY <1>3, <1>4, <2>2, <2>3, LaneStep
<1> QED
  BY <1>7, <1>8

\* A fresh quote covers a claim none of whose rows has a bundle.
LEMMA PrepareKeeps ==
  ASSUME IInv, Prepare
  PROVE  IInv'
<1>1. /\ lane.pc = "prepare" /\ lane.chains # {}
      /\ \A c \in lane.chains : rows[c].bundle = 0
  BY DEF Prepare, At, IInv, LaneReady, ClaimIsBare
<1>2. RowsKept /\ RestOK' /\ rows' = rows
  BY SameRowsKept, SameRest DEF Prepare
<1>3. CASE lane' \in {Fails(lane), Defers(lane)} /\ UNCHANGED bundles
  BY <1>2, <1>3, LaneTyped, FailsIsCalm, DefersIsCalm, CalmStep
<1>4. ASSUME NEW b \in BundleIds, Quote(b),
             lane' = [lane EXCEPT !.pc = "bundle", !.todo = lane.chains, !.bundle = b]
      PROVE  IInv'
  <2>1. bundles \in [BundleIds -> Bundles]
    BY DEF IInv, TypeOK
  <2>2. bundles' = [bundles EXCEPT ![b].covers = lane.chains] /\ bundles[b] = Unquoted
    BY <1>4 DEF Quote
  <2>3. /\ bundles' \in [BundleIds -> Bundles]
        /\ \A x \in BundleIds : /\ bundles'[x].pay = bundles[x].pay
                                /\ bundles'[x].launch = bundles[x].launch
                                /\ x # b => bundles'[x] = bundles[x]
        /\ bundles'[b].covers = lane.chains
    BY <2>1, <2>2, LaneTyped DEF Bundles
  <2>4. bundles[b].pay = "no" /\ \A c \in Chains : bundles[b].launch[c] = "none"
    BY <2>2 DEF Unquoted
  <2>5. /\ lane' \in Lanes /\ lane'.pc = "bundle" /\ lane'.bundle = b
        /\ lane'.todo = lane.chains /\ lane'.chains = lane.chains
    <3>1. b \in 0..MaxBundles
      BY ConstantShapes DEF BundleIds
    <3> QED
      BY <1>4, <3>1, LaneTyped DEF Lanes, Pcs
  <2>6. PaidIsRecorded'
    BY <1>2, <2>3, <2>4 DEF IInv, PaidIsRecorded
  <2>7. AbsentIsBare'
    BY <1>2 DEF IInv, AbsentIsBare
  <2>8. LaunchedWasPaid'
    BY <2>3, <2>4 DEF IInv, LaunchedWasPaid, Launched, Paid
  <2>9. ClaimIsBare' /\ LaneReady'
    BY <1>1, <1>4, <2>5 DEF ClaimIsBare, LaneReady, At
  <2>10. BundleFirst'
    BY <1>1, <1>2, <2>3, <2>4, <2>5 DEF BundleFirst, At, BundleIds
  <2>11. TypeOK'
    BY <1>2, <2>3, <2>5, TypePartsNext DEF RowsKept
  <2> QED
    BY <2>6, <2>7, <2>8, <2>9, <2>10, <2>11 DEF IInv
<1> QED
  BY <1>3, <1>4 DEF Prepare

\* The one step that writes a new bundle: on a row that had none, so that no paid
\* bundle covers its chain.
LEMMA ReportBundleKeeps ==
  ASSUME IInv, ReportBundle
  PROVE  IInv'
<1> DEFINE n == Next1
           patch == [Patch EXCEPT !.status = "queued", !.bundle = lane.bundle]
           left == lane.todo \ {n}
<1>1. /\ lane.pc = "bundle" /\ lane.todo # {} /\ lane.chains # {}
      /\ lane.todo \subseteq lane.chains
      /\ lane.bundle \in BundleIds
      /\ bundles[lane.bundle].covers = lane.chains /\ bundles[lane.bundle].pay = "no"
      /\ \A c \in lane.chains : rows[c].bundle = IF c \in lane.todo THEN 0 ELSE lane.bundle
  BY DEF ReportBundle, At, IInv, LaneReady, BundleFirst
<1>2. n \in lane.todo /\ n \in Chains
  BY <1>1, LaneTyped
<1>3. /\ patch \in Patches /\ patch.bundle = lane.bundle /\ patch.status = "queued"
  BY PatchTyped, LaneTyped DEF Patches
<1>4. /\ UpdateDeploy(n, patch)
      /\ lane' = IF Refuses(rows[n], patch) THEN Fails(lane)
                 ELSE [lane EXCEPT !.todo = left, !.pc = IF left = {} THEN "pay" ELSE @]
      /\ UNCHANGED <<leases, days, deployments, bundles, req, faults>>
  BY DEF ReportBundle
<1>5. RestOK'
  BY <1>4, SameRest
<1> HIDE DEF n, patch
<1>6. rows \in [Chains -> Rows] /\ rows[n] \in Rows /\ bundles \in [BundleIds -> Bundles]
  BY <1>2 DEF IInv, TypeOK
<1>7. rows' = [rows EXCEPT ![n] = IF Refuses(rows[n], patch) THEN rows[n]
                                  ELSE Patched(rows[n], patch)]
  BY <1>4 DEF UpdateDeploy
<1>8. CASE Refuses(rows[n], patch)
  <2>1. rows' = rows
    BY <1>6, <1>7, <1>8
  <2> QED
    BY <1>4, <1>5, <1>8, <2>1, SameRowsKept, LaneTyped, FailsIsCalm, CalmStep
<1>9. CASE ~Refuses(rows[n], patch)
  <2>1. /\ Patched(rows[n], patch) \in Rows
        /\ Patched(rows[n], patch).bundle = lane.bundle
        /\ Patched(rows[n], patch).status # "absent"
    <3>1. lane.bundle # 0
      BY <1>1 DEF BundleIds
    <3>2. /\ Patched(rows[n], patch) \in Rows
          /\ Patched(rows[n], patch).bundle =
               IF patch.bundle = 0 THEN rows[n].bundle ELSE patch.bundle
          /\ Patched(rows[n], patch).status = "absent" => patch.status = ""
      BY <1>3, <1>6, PatchedRow
    <3> QED
      BY <1>3, <3>1, <3>2
  <2>2. /\ rows' \in [Chains -> Rows]
        /\ rows'[n].bundle = lane.bundle /\ rows'[n].status # "absent"
        /\ \A c \in Chains : c # n => rows'[c] = rows[c]
    BY <1>2, <1>6, <1>7, <1>9, <2>1
  <2>3. lane' = [lane EXCEPT !.todo = left, !.pc = IF left = {} THEN "pay" ELSE "bundle"]
    BY <1>1, <1>4, <1>9
  <2>4. /\ lane' \in Lanes /\ lane'.bundle = lane.bundle /\ lane'.chains = lane.chains
        /\ lane'.todo = left /\ lane'.pc = IF left = {} THEN "pay" ELSE "bundle"
    BY <2>3, LaneTyped DEF Lanes, Pcs
  <2>5. TypeOK'
    BY <1>4, <1>5, <1>6, <2>2, <2>4, TypePartsNext
  <2>6. PaidIsRecorded'
    <3> SUFFICES ASSUME NEW b \in BundleIds, bundles[b].pay # "no", NEW c \in bundles[b].covers
                 PROVE  rows'[c].bundle = b
      BY <1>4 DEF PaidIsRecorded
    <3>1. rows[c].bundle = b /\ c \in Chains
      BY <1>6 DEF IInv, PaidIsRecorded, Bundles
    <3>2. CASE c # n
      BY <2>2, <3>1, <3>2
    <3>3. CASE c = n
      <4>1. b # 0 /\ b # lane.bundle
        BY <1>1 DEF BundleIds
      <4>2. n \notin lane.chains
        BY <1>1, <1>2, <3>1, <3>3, <4>1
      <4> QED
        BY <1>1, <1>2, <4>2
    <3> QED
      BY <3>2, <3>3
  <2>7. AbsentIsBare'
    BY <2>2 DEF IInv, AbsentIsBare
  <2>8. LaunchedWasPaid'
    BY <1>4 DEF IInv, LaunchedWasPaid, Launched, Paid
  <2>9. ClaimIsBare' /\ LaneReady'
    BY <1>1, <2>4 DEF ClaimIsBare, LaneReady, At
  <2>10. BundleFirst'
    BY <1>1, <1>2, <1>4, <2>2, <2>4, LaneTyped DEF BundleFirst, At, BundleIds
  <2> QED
    BY <2>5, <2>6, <2>7, <2>8, <2>9, <2>10 DEF IInv
<1> QED
  BY <1>8, <1>9

\* The prepayment leaves with the bundle on every row it covers.
LEMMA PayKeeps ==
  ASSUME IInv, Pay
  PROVE  IInv'
<1>1. /\ lane.pc = "pay" /\ lane.chains # {} /\ lane.todo = {}
      /\ lane.bundle \in BundleIds
      /\ bundles[lane.bundle].covers = lane.chains /\ bundles[lane.bundle].pay = "no"
      /\ \A c \in lane.chains : rows[c].bundle = lane.bundle
  BY DEF Pay, At, IInv, LaneReady, BundleFirst
<1>2. RowsKept /\ RestOK' /\ rows' = rows
  BY SameRowsKept, SameRest DEF Pay
<1>3. CASE lane' \in {Fails(lane), Defers(lane)} /\ UNCHANGED bundles
  BY <1>2, <1>3, LaneTyped, FailsIsCalm, DefersIsCalm, CalmStep
<1>4. CASE bundles' = [bundles EXCEPT ![lane.bundle].pay = "sent"] /\ Enter("await")
  <2>1. bundles \in [BundleIds -> Bundles]
    BY DEF IInv, TypeOK
  <2>2. /\ bundles' \in [BundleIds -> Bundles]
        /\ \A x \in BundleIds : /\ bundles'[x].covers = bundles[x].covers
                                /\ bundles'[x].launch = bundles[x].launch
                                /\ x # lane.bundle => bundles'[x] = bundles[x]
    BY <1>1, <1>4, <2>1 DEF Bundles
  <2>3. /\ lane' \in Lanes /\ lane'.pc = "await" /\ lane'.bundle = lane.bundle
        /\ lane'.chains = lane.chains
    BY <1>4, LaneTyped DEF Enter, Lanes, Pcs
  <2>4. PaidIsRecorded'
    BY <1>1, <1>2, <2>2 DEF IInv, PaidIsRecorded
  <2>5. AbsentIsBare'
    BY <1>2 DEF IInv, AbsentIsBare
  <2>6. LaunchedWasPaid'
    BY <1>1, <2>2 DEF IInv, LaunchedWasPaid, Launched, Paid
  <2>7. ClaimIsBare' /\ BundleFirst' /\ LaneReady'
    BY <1>1, <2>3 DEF ClaimIsBare, BundleFirst, LaneReady, At, BundleIds
  <2>8. TypeOK'
    BY <1>2, <2>2, <2>3, TypePartsNext DEF RowsKept
  <2> QED
    BY <2>4, <2>5, <2>6, <2>7, <2>8 DEF IInv
<1> QED
  BY <1>3, <1>4 DEF Pay

\* A lane that goes on with its bundle.
LEMMA Onwards ==
  ASSUME IInv, NEW pc \in {"charge", "poll"}, Enter(pc),
         lane.bundle \in BundleIds, lane.chains # {}
  PROVE  lane' \in Lanes /\ ClaimIsBare' /\ BundleFirst' /\ LaneReady'
<1>1. /\ lane' \in Lanes /\ lane'.pc = pc /\ lane'.bundle = lane.bundle
      /\ lane'.chains = lane.chains
  BY LaneTyped DEF Enter, Lanes, Pcs
<1> QED
  BY <1>1 DEF ClaimIsBare, BundleFirst, LaneReady, At, BundleIds

LEMMA AwaitKeeps ==
  ASSUME IInv, AwaitPayment
  PROVE  IInv'
<1>1. lane.pc = "await" /\ lane.bundle \in BundleIds /\ lane.chains # {}
  BY DEF AwaitPayment, At, IInv, LaneReady
<1>2. RowsKept /\ RestOK' /\ UNCHANGED bundles
  BY SameRowsKept, SameRest DEF AwaitPayment
<1>3. lane' \in {Defers(lane), Fails(lane)} \/ Enter("charge")
  BY DEF AwaitPayment, Enter
<1>4. CASE lane' \in {Defers(lane), Fails(lane)}
  BY <1>2, <1>4, LaneTyped, FailsIsCalm, DefersIsCalm, CalmStep
<1>5. CASE Enter("charge")
  BY <1>1, <1>2, <1>5, Onwards, LaneStep
<1> QED
  BY <1>3, <1>4, <1>5

LEMMA ReportPaidKeeps ==
  ASSUME IInv, ReportPaid
  PROVE  IInv'
<1> DEFINE patch == [Patch EXCEPT !.status = "queued", !.spent = Cardinality(lane.chains)]
<1>1. lane.pc = "charge" /\ lane.bundle \in BundleIds /\ lane.chains # {}
  BY DEF ReportPaid, At, IInv, LaneReady
<1>2. First(lane.chains) \in Chains
  BY <1>1, LaneTyped, FirstIsIn
<1>3. Cardinality(lane.chains) \in Nat
  BY ConstantShapes, LaneTyped, FS_Subset, FS_CardinalityType
<1>4. patch \in Patches /\ patch.bundle = 0
  BY <1>3, PatchTyped DEF Patches
<1>5. UpdateDeploy(First(lane.chains), patch) /\ Enter("poll")
  BY DEF ReportPaid
<1> HIDE DEF patch
<1>6. RowsKept
  BY <1>2, <1>4, <1>5, UpdateKeepsRows
<1> QED
  BY <1>1, <1>5, <1>6, Onwards, SameRest, LaneStep DEF ReportPaid

\* A launch the status names belongs to a paid bundle, which its row names already.
LEMMA ReportSentKeeps ==
  ASSUME IInv, ReportSent
  PROVE  IInv'
<1>1. lane.pc = "poll" /\ lane.bundle \in BundleIds /\ lane.chains # {}
  BY DEF ReportSent, At, IInv, LaneReady
<1> DEFINE patch == [Patch EXCEPT !.status = "sent", !.hash = lane.bundle, !.bundle = lane.bundle]
<1>2. PICK c \in lane.chains \ lane.seen :
        /\ Launched(lane.bundle, c)
        /\ UpdateDeploy(c, patch)
        /\ LET k == [lane EXCEPT !.seen = @ \cup {c}]
           IN lane' = IF Refuses(rows[c], patch) THEN Fails(lane)
                      ELSE IF k.seen = k.chains THEN [k EXCEPT !.pc = "receipt", !.todo = k.chains]
                      ELSE k
  BY DEF ReportSent
<1> DEFINE k == [lane EXCEPT !.seen = @ \cup {c}]
<1>3. c \in Chains
  BY LaneTyped
<1>4. patch \in Patches /\ patch.bundle = lane.bundle
  BY PatchTyped, LaneTyped DEF Patches
<1>5. rows[c].bundle = lane.bundle
  BY <1>1, <1>2, <1>3 DEF IInv, LaunchedWasPaid, PaidIsRecorded, Paid
<1> HIDE DEF patch
<1>6. RowsKept
  BY <1>2, <1>3, <1>4, <1>5, UpdateKeepsRows
<1>7. RestOK' /\ UNCHANGED bundles
  BY SameRest DEF ReportSent
<1>8. /\ k \in Lanes /\ k.pc = "poll" /\ k.bundle = lane.bundle /\ k.chains = lane.chains
  BY <1>1, <1>3, LaneTyped DEF Lanes
<1>9. \/ lane' = Fails(lane)
      \/ lane' = [k EXCEPT !.pc = "receipt", !.todo = k.chains]
      \/ lane' = k
  BY <1>2
<1> HIDE DEF k
<1>10. CASE lane' = Fails(lane)
  BY <1>6, <1>7, <1>10, LaneTyped, FailsIsCalm, CalmStep
<1>11. CASE lane' = [k EXCEPT !.pc = "receipt", !.todo = k.chains]
  <2>1. Calm(lane')
    BY <1>1, <1>8, <1>11 DEF Calm, Lanes, Pcs
  <2> QED
    BY <1>6, <1>7, <2>1, CalmStep
<1>12. CASE lane' = k
  <2>1. ClaimIsBare' /\ BundleFirst' /\ LaneReady'
    BY <1>1, <1>8, <1>12 DEF ClaimIsBare, BundleFirst, LaneReady, At, BundleIds
  <2> QED
    BY <1>6, <1>7, <1>8, <1>12, <2>1, LaneStep
<1> QED
  BY <1>9, <1>10, <1>11, <1>12

\* The steps of the receipt loop, the failing loop and the waiting loop: each stands
\* at a chain it has left, and names no bundle it does not carry.
Looping == lane.pc \in {"receipt", "verify", "record", "confirm", "reject"}

LEMMA LoopReady ==
  ASSUME IInv, Looping
  PROVE  lane.todo # {} /\ lane.bundle \in BundleIds /\ Next1 \in Chains /\ Calm(Settled(lane))
<1>1. lane.todo # {} /\ lane.bundle \in BundleIds
  BY DEF Looping, IInv, LaneReady
<1> QED
  BY <1>1, LaneTyped, SettledIsCalm

LEMMA LoopEnter ==
  ASSUME IInv, Looping, NEW pc \in {"verify", "record", "confirm", "reject"}, Enter(pc)
  PROVE  Calm(lane')
BY LoopReady, LaneTyped DEF Enter, Calm, Lanes, Pcs

LEMMA ReceiptsKeep ==
  ASSUME IInv, Receipt \/ Verify \/ RecordLaunch \/ Confirm \/ Reject
  PROVE  IInv'
<1>1. Looping /\ UNCHANGED bundles
  BY DEF Looping, Receipt, Verify, RecordLaunch, Confirm, Reject, At
<1>2. Next1 \in Chains /\ Calm(Settled(lane))
  BY <1>1, LoopReady
<1>3. CASE Receipt
  <2>1. CASE UpdateDeploy(Next1, FailedPatch) /\ lane' = Settled(lane)
    BY <1>1, <1>2, <1>3, <2>1, PatchTyped, UpdateKeepsRows, SameRest, CalmStep DEF Receipt
  <2>2. CASE Enter("verify") /\ UNCHANGED rows
    BY <1>1, <1>3, <2>2, LoopEnter, SameRowsKept, SameRest, CalmStep DEF Receipt
  <2> QED
    BY <1>3, <2>1, <2>2 DEF Receipt
<1>4. CASE Verify
  BY <1>1, <1>4, LoopEnter, SameRowsKept, SameRest, CalmStep DEF Verify
<1>5. CASE RecordLaunch
  <2>1. CASE Enter("reject") /\ UNCHANGED <<deployments, rows>>
    BY <1>1, <1>5, <2>1, LoopEnter, SameRowsKept, SameRest, CalmStep DEF RecordLaunch
  <2>2. CASE RecordDeployment(Next1, Own(lane.bundle)) /\ Enter("confirm")
    <3>1. Own(lane.bundle) \in Deployments
      BY LaneTyped DEF Own, Deployments
    <3> QED
      BY <1>1, <1>2, <1>5, <2>2, <3>1, LoopEnter, RecordKeepsRows, CalmStep DEF RecordLaunch
  <2> QED
    BY <1>5, <2>1, <2>2 DEF RecordLaunch
<1>6. CASE Confirm
  <2> DEFINE patch == [Patch EXCEPT !.status = "confirmed", !.hash = lane.bundle]
  <2>1. patch \in Patches /\ patch.bundle = 0
    BY PatchTyped, LaneTyped DEF Patches
  <2>2. UpdateDeploy(Next1, patch) /\ lane' = Settled(lane)
    BY <1>6 DEF Confirm
  <2> HIDE DEF patch
  <2> QED
    BY <1>1, <1>2, <1>6, <2>1, <2>2, UpdateKeepsRows, SameRest, CalmStep DEF Confirm
<1>7. CASE Reject
  <2> DEFINE patch == [FailedPatch EXCEPT !.hash = lane.bundle]
  <2>1. patch \in Patches /\ patch.bundle = 0
    BY PatchTyped, LaneTyped DEF Patches
  <2>2. UpdateDeploy(Next1, patch) /\ lane' = Settled(lane)
    BY <1>7 DEF Reject
  <2> HIDE DEF patch
  <2> QED
    BY <1>1, <1>2, <1>7, <2>1, <2>2, UpdateKeepsRows, SameRest, CalmStep DEF Reject
<1> QED
  BY <1>3, <1>4, <1>5, <1>6, <1>7

LEMMA EndsKeep ==
  ASSUME IInv, PollTimeout \/ FailRest \/ NoteWaiting
  PROVE  IInv'
<1>1. CASE PollTimeout
  BY <1>1, LaneTyped, DefersIsCalm, SameRowsKept, SameRest, CalmStep DEF PollTimeout
<1> DEFINE left == lane.todo \ {Next1}
<1>2. left \in SUBSET Chains
  BY LaneTyped
<1>3. CASE FailRest
  <2>1. lane.pc = "failing" /\ lane.todo # {} /\ Next1 \in Chains
    BY <1>3, LaneTyped DEF FailRest, At, IInv, LaneReady
  <2>2. lane' = IF left = {} THEN Idle ELSE [lane EXCEPT !.todo = left]
    BY <1>3 DEF FailRest
  <2> HIDE DEF left
  <2>3. left # {} => Calm([lane EXCEPT !.todo = left])
    BY <1>2, <2>1, LaneTyped DEF Calm, Lanes
  <2>4. Calm(lane')
    BY <2>2, <2>3, IdleIsCalm
  <2> QED
    BY <1>3, <2>1, <2>4, PatchTyped, UpdateKeepsRows, SameRest, CalmStep DEF FailRest
<1>4. CASE NoteWaiting
  <2>1. lane.pc = "defer" /\ lane.todo # {} /\ Next1 \in Chains
    BY <1>4, LaneTyped DEF NoteWaiting, At, IInv, LaneReady
  <2>2. lane' = [lane EXCEPT !.todo = left, !.pc = IF left = {} THEN "release" ELSE "defer"]
    BY <1>4, <2>1 DEF NoteWaiting
  <2> DEFINE patch == [Patch EXCEPT !.error = "waiting"]
  <2>3. patch \in Patches /\ patch.bundle = 0
    BY PatchTyped DEF Patches
  <2>4. UpdateDeploy(Next1, patch)
    BY <1>4 DEF NoteWaiting
  <2> HIDE DEF left, patch
  <2>5. Calm(lane')
    BY <1>2, <2>2, LaneTyped DEF Calm, Lanes, Pcs
  <2> QED
    BY <1>4, <2>1, <2>3, <2>4, <2>5, UpdateKeepsRows, SameRest, CalmStep DEF NoteWaiting
<1> QED
  BY <1>1, <1>3, <1>4

LEMMA ReleaseKeeps ==
  ASSUME IInv, ReleaseClaim
  PROVE  IInv'
<1>1. \A c \in Chains : rows[c] \in Rows
  BY DEF IInv, TypeOK
<1>2. ASSUME NEW row \in Rows, row.attempts > 0
      PROVE  LET new == [row EXCEPT !.attempts = @ - 1]
             IN new \in Rows /\ new.bundle = row.bundle /\ new.status = row.status
  <2>1. row.attempts \in 0..MaxAttempts
    BY DEF Rows
  <2>2. row.attempts - 1 \in 0..MaxAttempts
    BY <1>2, <2>1 DEF MaxAttempts
  <2> QED
    BY <2>2 DEF Rows
<1>3. rows' = [c \in Chains |->
                 IF c \in lane.chains /\ rows[c].attempts > 0
                 THEN [rows[c] EXCEPT !.attempts = @ - 1] ELSE rows[c]]
  BY DEF ReleaseClaim
<1>4. RowsKept
  <2>1. rows' \in [Chains -> Rows]
    BY <1>1, <1>2, <1>3
  <2> QED
    BY <1>1, <1>2, <1>3, <2>1 DEF RowsKept
<1>5. RestOK'
  <2>1. /\ leases' = Restamped(leases, lane.chains)
        /\ UNCHANGED <<days, deployments, req, faults>>
    BY DEF ReleaseClaim
  <2>2. RestOK /\ lane.chains \in SUBSET Chains
    BY TypeParts, LaneTyped DEF IInv
  <2>3. leases \in SUBSET SUBSET Chains
    BY <2>2 DEF RestOK
  <2>4. Restamped(leases, lane.chains) \in SUBSET SUBSET Chains
    BY <2>2, <2>3, GroupsTyped
  <2>5. leases' \in SUBSET SUBSET Chains
    BY <2>1, <2>4
  <2> QED
    BY <2>1, <2>2, <2>5 DEF RestOK
<1> QED
  BY <1>4, <1>5, IdleIsCalm, CalmStep DEF ReleaseClaim

-----------------------------------------------------------------------------
\* Faults, the clock, the payment chain and the execution service.

LEMMA FaultsKeep ==
  ASSUME IInv, Crash \/ LoseReceipt \/ LoseConfirmation
  PROVE  IInv'
<1>1. UNCHANGED <<rows, leases, days, deployments, bundles>> /\ faults' = faults + 1
  BY DEF Crash, LoseReceipt, LoseConfirmation, Fault
<1>2. req' \in [Requests -> Reqs]
  BY TypeParts, IdleTyped DEF Crash, LoseReceipt, LoseConfirmation, IInv, RestOK
<1>3. RestOK'
  BY <1>1, <1>2, TypeParts DEF IInv, RestOK
<1>4. CASE Crash
  BY <1>1, <1>3, <1>4, IdleIsCalm, SameRowsKept, CalmStep DEF Crash
<1>5. CASE LoseReceipt
  BY <1>1, <1>3, <1>5, LaneTyped, DefersIsCalm, SameRowsKept, CalmStep DEF LoseReceipt
<1>6. CASE LoseConfirmation
  <2>1. Looping /\ Enter("reject")
    BY <1>6 DEF LoseConfirmation, Looping
  <2> QED
    BY <1>1, <1>3, <2>1, LoopEnter, SameRowsKept, CalmStep
<1> QED
  BY <1>4, <1>5, <1>6

LEMMA ClockKeeps ==
  ASSUME IInv, (\E g \in leases : LeaseLapses(g)) \/ (\E g \in days : DayPasses(g))
  PROVE  IInv'
<1>1. /\ UNCHANGED <<rows, deployments, bundles, lane, req, faults>>
      /\ leases' \subseteq leases /\ days' \subseteq days
  BY DEF LeaseLapses, DayPasses
<1>2. RestOK'
  BY <1>1, TypeParts DEF IInv, RestOK
<1> QED
  BY <1>1, <1>2, SameRowsKept, KeptStep

\* A bundle whose prepayment was sent moves on; what it covers does not.
LEMMA ServiceKeeps ==
  ASSUME IInv, NEW b \in BundleIds,
         PaymentLands(b) \/ \E c \in Chains : Launch(b, c)
  PROVE  IInv'
<1>1. UNCHANGED <<rows, leases, days, deployments, lane, req, faults>>
  BY DEF PaymentLands, Launch
<1>2. RowsKept /\ RestOK'
  BY <1>1, SameRowsKept, SameRest
<1>3. bundles \in [BundleIds -> Bundles]
  BY DEF IInv, TypeOK
<1> DEFINE Sound == /\ bundles' \in [BundleIds -> Bundles]
                    /\ \A x \in BundleIds : /\ bundles'[x].covers = bundles[x].covers
                                            /\ bundles[x].pay = "no" <=> bundles'[x].pay = "no"
                    /\ LaunchedWasPaid'
<1>4. Sound
  <2>1. CASE PaymentLands(b)
    <3>1. PICK result \in {"paid", "reverted"} : bundles' = [bundles EXCEPT ![b].pay = result]
      BY <2>1 DEF PaymentLands
    <3>2. bundles[b].pay = "sent"
      BY <2>1 DEF PaymentLands
    <3>3. /\ bundles' \in [BundleIds -> Bundles]
          /\ bundles'[b].covers = bundles[b].covers /\ bundles'[b].launch = bundles[b].launch
          /\ bundles'[b].pay # "no"
          /\ \A x \in BundleIds : x # b => bundles'[x] = bundles[x]
      BY <1>3, <3>1 DEF Bundles
    <3>4. LaunchedWasPaid'
      BY <3>2, <3>3 DEF IInv, LaunchedWasPaid, Launched, Paid
    <3> QED
      BY <3>2, <3>3, <3>4
  <2>2. ASSUME NEW c \in Chains, Launch(b, c)
        PROVE  Sound
    <3>1. PICK result \in {"ok", "reverted"} : bundles' = [bundles EXCEPT ![b].launch[c] = result]
      BY <2>2 DEF Launch
    <3>2. bundles[b].pay = "paid" /\ c \in bundles[b].covers
      BY <2>2 DEF Launch, Paid
    <3>3. /\ bundles' \in [BundleIds -> Bundles]
          /\ bundles'[b].covers = bundles[b].covers /\ bundles'[b].pay = bundles[b].pay
          /\ \A d \in Chains : d # c => bundles'[b].launch[d] = bundles[b].launch[d]
          /\ \A x \in BundleIds : x # b => bundles'[x] = bundles[x]
      BY <1>3, <3>1 DEF Bundles
    <3>4. LaunchedWasPaid'
      BY <3>2, <3>3 DEF IInv, LaunchedWasPaid, Launched, Paid
    <3> QED
      BY <3>3, <3>4
  <2> QED
    BY <2>1, <2>2
<1>5. ClaimIsBare' /\ BundleFirst' /\ LaneReady'
  BY <1>1, <1>2, <1>4, KeptLane
<1>6. PaidIsRecorded' /\ AbsentIsBare'
  BY <1>1, <1>4 DEF IInv, PaidIsRecorded, AbsentIsBare
<1>7. TypeOK'
  BY <1>1, <1>2, <1>4, LaneTyped, TypePartsNext DEF RowsKept
<1> QED
  BY <1>4, <1>5, <1>6, <1>7 DEF IInv

-----------------------------------------------------------------------------
\* The theorems.

LEMMA InitHolds == Init => IInv
<1> SUFFICES ASSUME Init
             PROVE  IInv
  OBVIOUS
<1>1. rows \in [Chains -> Rows] /\ \A c \in Chains : rows[c].bundle = 0
  BY NoRowTyped DEF Init
<1>2. /\ bundles \in [BundleIds -> Bundles]
      /\ \A b \in BundleIds : /\ bundles[b].pay = "no"
                              /\ \A c \in Chains : bundles[b].launch[c] = "none"
  BY DEF Init, Unquoted, Bundles
<1>3. lane \in Lanes /\ lane.pc = "exhaust"
  BY IdleIsCalm DEF Init, Idle, Calm
<1>4. RestOK
  <2>1. NoDeployment \in Deployments
    BY ConstantShapes DEF NoDeployment, Deployments
  <2> QED
    BY <2>1, IdleTyped DEF Init, RestOK
<1>5. TypeOK
  BY <1>1, <1>2, <1>3, <1>4, TypeParts
<1>6. PaidIsRecorded /\ AbsentIsBare /\ LaunchedWasPaid
  BY <1>1, <1>2 DEF PaidIsRecorded, AbsentIsBare, LaunchedWasPaid, Launched
<1>7. ClaimIsBare /\ BundleFirst /\ LaneReady
  BY <1>3 DEF ClaimIsBare, BundleFirst, LaneReady, At
<1> QED
  BY <1>5, <1>6, <1>7 DEF IInv

LEMMA WorkerKeeps ==
  ASSUME IInv, Worker
  PROVE  IInv'
BY ExhaustKeeps, ExpireKeeps, RetireKeeps, ClaimKeeps, ReadKeeps, FailKnownKeeps, PrepareKeeps,
   ReportBundleKeeps, PayKeeps, AwaitKeeps, ReportPaidKeeps, ReportSentKeeps, ReceiptsKeep,
   EndsKeep, ReleaseKeeps DEF Worker

LEMMA IInvStep == IInv /\ [Next]_vars => IInv'
<1> SUFFICES ASSUME IInv, [Next]_vars
             PROVE  IInv'
  OBVIOUS
<1>1. ASSUME NEW r \in Requests,
             ReadDeployments(r) \/ ReadRows(r) \/ Answer(r) \/ CheckBudget(r) \/ QueueDeploys(r)
      PROVE  IInv'
  BY <1>1, ReadsKeep, QueueKeeps
<1>2. ASSUME NEW c \in Chains \cup Others, PostDeployment(c)
      PROVE  IInv'
  BY <1>2, PostKeeps
<1>3. CASE Worker
  BY <1>3, WorkerKeeps
<1>4. CASE Crash \/ LoseReceipt \/ LoseConfirmation
  BY <1>4, FaultsKeep
<1>5. CASE (\E g \in leases : LeaseLapses(g)) \/ (\E g \in days : DayPasses(g))
  BY <1>5, ClockKeeps
<1>6. ASSUME NEW b \in BundleIds, PaymentLands(b) \/ \E c \in Chains : Launch(b, c)
      PROVE  IInv'
  BY <1>6, ServiceKeeps
<1>7. CASE UNCHANGED vars
  BY <1>7, SameRowsKept, SameRest, KeptStep DEF vars
<1> QED
  BY <1>1, <1>2, <1>3, <1>4, <1>5, <1>6, <1>7 DEF Next

\* Every reachable state has the shape the worker and the routes expect, and the
\* books of rows and bundles agree in it: the inductive invariant.
THEOREM BooksAgree == Spec => []IInv
<1> QED
  BY InitHolds, IInvStep, PTL DEF Spec

\* No chain is paid for twice: at most one bundle that covers a chain ever has its
\* prepayment sent, whatever claims lapse, crash, resume or are retried.
THEOREM ChainsArePaidOnce == Spec => []PaidOnce
<1>1. IInv => PaidOnce
  BY DEF IInv, PaidIsRecorded, PaidOnce
<1> QED
  BY <1>1, BooksAgree, PTL

=============================================================================
