-------------------------- MODULE WalletAuthority --------------------------
(****************************************************************************)
(* What Center believes about the owners of one wallet, and who may act on   *)
(* that belief (src/rest/wallet): the authority row and its reducer          *)
(* (authority.ts, authorityPostgres.ts, migration 020), the observer of the  *)
(* chain (authorityChain.ts), the refresh queue and its workers              *)
(* (authorityRefresh.ts, authorityRefreshPostgres.ts), passkey sessions      *)
(* (loginPostgres.ts), the hand-off of a session to an application           *)
(* (handoffPostgres.ts, appGrantsPostgres.ts), recovery of the passkey       *)
(* (recoveryPostgres.ts) and addition of a device (devicesPostgres.ts).      *)
(*                                                                           *)
(* The wallet's owners on chain are a primary passkey and a number of        *)
(* devices. A block is the sequence of all blocks up to it, so a block is an *)
(* ancestor of another when it is a prefix: that is what its hash commits to.*)
(*                                                                           *)
(* Every transaction of this code locks the account's row first and is one   *)
(* action. An observation reads the context in one transaction, the chain,   *)
(* and writes in a second transaction that compares the whole context. The   *)
(* revision of the row only serves that comparison: here a write makes every *)
(* context captured before it stale, and a context that is not stale is the  *)
(* current one.                                                              *)
(*                                                                           *)
(* Deadlines (of observations, leases, interest, backoff) pass at any time.  *)
(****************************************************************************)
EXTENDS Integers, Sequences, SequencesExt

CONSTANTS
  None,
  Workers,      \* slots of the refresh workers of all replicas
  Signup,       \* the observation a sign-up makes for itself
  Sessions,     \* sign-ins
  Grants,       \* hand-offs to applications
  MaxKeys, MaxDevices, MaxChanges,  \* of the owners
  MaxHeight, MaxForks, MaxFaults, MaxFailures

Slots == Workers \cup {Signup}

ASSUME WalletAuthorityAssumption ==
  /\ Signup \notin Workers /\ None \notin Slots \cup Sessions \cup Grants
  /\ {MaxHeight, MaxFailures} \subseteq Nat \ {0}
  /\ {MaxKeys, MaxDevices, MaxChanges, MaxForks, MaxFaults} \subseteq Nat

VARIABLES
  chain,       \* the canonical chain
  forks,       \* reorganisations so far
  row,         \* rest_wallet_authority and its snapshot
  binding,     \* rest_smart_account_bindings: consent, owners seen, block seen at
  cred,        \* rest_wallet_credentials: recorded owners, last consent, recovery's block
  job,         \* rest_wallet_authority_refresh_jobs
  worker,      \* what each slot is doing
  recovering,  \* a recovery's observation: "none", "fresh" or "stale"
  login,       \* a sign-in's captured context
  sessions,    \* rest_wallet_logins, completed
  handoff,     \* rest_wallet_handoffs, issued
  grants,      \* rest_wallet_app_grants
  faults

account == <<row, binding, cred>>
signin == <<login, sessions, handoff, grants>>
vars == <<chain, forks, account, job, worker, recovering, signin, faults>>

-----------------------------------------------------------------------------
(* Blocks and contexts.                                                     *)

Owners(b) == Last(b).owners
Canonical(b) == IsPrefix(b, chain)

\* A consent to bind the wallet: of a passkey, or of a device's addition.
KeyConsent(k) == [kind |-> "key", n |-> k]
DeviceConsent(n) == [kind |-> "device", n |-> n]

\* contextShape: the bound owners are the recorded ones, and were bound by the
\* last consent on record.
ContextValid(b, c) == b.owners = c.owners /\ b.consent = c.latest

\* A row that only has epochs: snapshotOf of a row without a snapshot.
EpochsOnly ==
  [authority |-> 1, session |-> 1, bootstrap |-> TRUE, readiness |-> "unknown",
   identity |-> None, anchor |-> None, highest |-> 0, fence |-> None]

Init ==
  LET first == [key |-> 0, devices |-> 0] IN
  /\ chain = <<[fork |-> 0, owners |-> first]>> /\ forks = 0
  /\ row = None
  /\ binding = [consent |-> KeyConsent(0), owners |-> first, at |-> chain]
  /\ cred = [owners |-> first, latest |-> KeyConsent(0), anchor |-> None]
  /\ job = None
  /\ worker = [w \in Slots |-> None]
  /\ recovering = "none"
  /\ login = [s \in Sessions |-> None] /\ sessions = [s \in Sessions |-> None]
  /\ handoff = [g \in Grants |-> None] /\ grants = [g \in Grants |-> None]
  /\ faults = 0

Fault == faults < MaxFaults /\ faults' = faults + 1

-----------------------------------------------------------------------------
(* The chain (external): blocks are mined, the last ones may be replaced.   *)

Mine(o) ==
  /\ Len(chain) < MaxHeight /\ o.key + o.devices <= MaxChanges
  /\ o.key \in Owners(chain).key .. MaxKeys /\ o.devices \in Owners(chain).devices .. MaxDevices
  /\ chain' = Append(chain, [fork |-> forks, owners |-> o])
  /\ UNCHANGED <<forks, account, job, worker, recovering, signin, faults>>

Reorganise(n) ==
  /\ forks < MaxForks /\ n < Len(chain)
  /\ chain' = SubSeq(chain, 1, n) /\ forks' = forks + 1
  /\ UNCHANGED <<account, job, worker, recovering, signin, faults>>

-----------------------------------------------------------------------------
(* An observation of the chain, under the context with row prior and        *)
(* recorded passkeys c. The head is None when it could not be completed.    *)

\* walletAuthorityExpectedAnchor
ExpectedAnchor(prior) ==
  IF prior = None THEN None
  ELSE IF prior.fence # None /\ prior.fence.recovery # None THEN prior.fence.recovery
  ELSE prior.anchor

Unread == [head |-> None, replaced |-> FALSE, owners |-> None, staged |-> FALSE]
CatchingUp == [Unread EXCEPT !.staged = TRUE]

\* The head is below what was seen before, or a recovery's block is not there.
Behind(prior, c, head) ==
  \/ prior # None /\ prior.highest > Len(head)
  \/ ExpectedAnchor(prior) # None /\ Len(ExpectedAnchor(prior)) > Len(head)
  \/ c.anchor # None /\ ~IsPrefix(c.anchor, head)

\* A replaced anchor is reported at once, unless an open fence still has to
\* learn the owners on the new branch.
Observed(prior, c, head) ==
  LET e == ExpectedAnchor(prior)
      replaced == e # None /\ ~IsPrefix(e, head) IN
  IF Behind(prior, c, head) THEN Unread
  ELSE [head |-> head, replaced |-> replaced, staged |-> FALSE,
        owners |-> IF replaced /\ (prior.fence = None \/ prior.fence.recovery # None)
                   THEN None ELSE Owners(head)]

-----------------------------------------------------------------------------
(* The reducer (reconcileWalletAuthority): prior is the row, b the binding,  *)
(* o the observation.                                                        *)

Identity(b, o) == [consent |-> b.consent, owners |-> o.owners]
\* Mutant: only the primary signer is compared.
MatchedSigner(b, o) == o.owners # None /\ o.owners.key = b.owners.key

Matched(b, o) == o.owners # None /\ o.owners = b.owners
ChangedIdentity(prior, b, o) == o.owners # None /\ prior.identity # Identity(b, o)
NewFence(prior, o) == o.replaced /\ prior.fence = None

\* Mutant: a replaced anchor raises the fence and leaves the epochs.
AdvancesOnNewOwners(prior, b, o) == ChangedIdentity(prior, b, o)

\* What ends every session and grant: new owners, or a replaced anchor.
Advances(prior, b, o) == NewFence(prior, o) \/ ChangedIdentity(prior, b, o)

Advanced(r) == [r EXCEPT !.authority = @ + 1, !.session = @ + 1]

\* Mutant: the first look at the new branch closes the fence.
RecoversAtOnce(prior, b, o) == prior.fence # None /\ Matched(b, o)

\* Mutant: the fence waits for its anchor to return to the chain.
RecoversNever(prior, b, o) ==
  prior.fence # None /\ ~o.replaced /\ Matched(b, o) /\ IsPrefix(prior.anchor, o.head)

\* The second look at the new branch finds the owners of the first one.
Recovers(prior, b, o) ==
  /\ prior.fence # None /\ prior.fence.recovery # None
  /\ ~o.replaced /\ Matched(b, o) /\ ~ChangedIdentity(prior, b, o)

\* The block from which an open fence is to recover.
RecoveryAnchor(prior, o) ==
  IF o.owners # None THEN o.head
  ELSE IF o.replaced \/ prior.fence = None THEN None ELSE prior.fence.recovery

\* Without a snapshot to build on only matching owners are accepted; the height
\* of the head never falls.
Reducible(prior, b, o) ==
  IF prior = None \/ (prior # None /\ prior.bootstrap)
  THEN Matched(b, o)
  ELSE o.head # None => Len(o.head) >= prior.highest

\* Mutant: the fence outlives the recovery.
AcceptedUnderFence(r, b, o) ==
  [r EXCEPT !.bootstrap = FALSE, !.identity = Identity(b, o), !.anchor = o.head,
            !.readiness = IF Matched(b, o) THEN "verified" ELSE "changed", !.highest = Len(o.head)]

Accepted(r, b, o) ==
  [r EXCEPT !.bootstrap = FALSE, !.identity = Identity(b, o), !.anchor = o.head,
            !.readiness = IF Matched(b, o) THEN "verified" ELSE "changed",
            !.fence = None, !.highest = Len(o.head)]

Reduced(prior, b, o) ==
  IF prior = None THEN Accepted(EpochsOnly, b, o)
  ELSE IF prior.bootstrap THEN Accepted(Advanced(prior), b, o)
  ELSE IF o.head = None
  THEN [prior EXCEPT !.readiness = IF prior.fence # None THEN "fenced" ELSE "unknown"]
  ELSE LET next == IF Advances(prior, b, o) THEN Advanced(prior) ELSE prior IN
    IF NewFence(prior, o) \/ (prior.fence # None /\ ~Recovers(prior, b, o))
    THEN [next EXCEPT !.readiness = "fenced", !.highest = Len(o.head),
                      !.identity = IF o.owners # None THEN Identity(b, o) ELSE @,
                      !.fence = [recovery |-> RecoveryAnchor(prior, o)]]
    ELSE Accepted(next, b, o)

-----------------------------------------------------------------------------
(* A refresh (refreshAuthority, and reconcile of the store).                *)

Claimed == [stage |-> "claimed", obs |-> None, outcome |-> None]
Looked(o) == [stage |-> "observed", obs |-> o, outcome |-> None]
Stale == [stage |-> "stale", obs |-> None, outcome |-> None]
Done(r) == [stage |-> "done", obs |-> None, outcome |-> r]

\* What a write to the account leaves of the contexts captured before it.
StaledContexts(ws) ==
  [w \in Slots |-> IF ws[w] # None /\ ws[w].stage = "observed" THEN Stale ELSE ws[w]]

StaleRecovery == recovering' = IF recovering = "fresh" THEN "stale" ELSE recovering

\* A sign-up has no lease to acknowledge.
Finished(w, r) == IF w = Signup THEN None ELSE Done(r)

\* A provider may be behind, fail, or be asked for a stage of a long history.
ObservationsOf(prior, c) ==
  {Unread, CatchingUp} \cup {Observed(prior, c, SubSeq(chain, 1, n)) : n \in 1..Len(chain)}

\* Loads and checks the context, and observes the chain. A stage of the
\* history is not stored over a verified identity.
Observe(w, o) ==
  /\ IF w = Signup THEN worker[w] = None /\ row = None ELSE worker[w] = Claimed
  /\ ContextValid(binding, cred)
  /\ IF o = Observed(row, cred, chain) THEN UNCHANGED faults ELSE Fault
  /\ worker' = [worker EXCEPT ![w] =
       IF o.staged /\ row # None /\ row.readiness = "verified" THEN Finished(w, "progress")
       ELSE Looked(o)]
  /\ UNCHANGED <<chain, forks, account, job, recovering, signin>>

\* loadContext refuses a context that is not consistent.
ObserveRefused(w) ==
  /\ worker[w] = Claimed /\ ~ContextValid(binding, cred)
  /\ worker' = [worker EXCEPT ![w] = Done("failed")]
  /\ UNCHANGED <<chain, forks, account, job, recovering, signin, faults>>

Outcome(r, o) ==
  IF o.staged THEN "progress"
  ELSE IF r.readiness = "verified" /\ ~r.bootstrap /\ r.fence = None THEN "verified"
  ELSE "unready"

\* The observation is stored; every other captured context is stale.
Commit(w) ==
  LET o == worker[w].obs
      next == Reduced(row, binding, o) IN
  /\ worker[w] # None /\ worker[w].stage = "observed" /\ Reducible(row, binding, o)
  /\ row' = next
  /\ worker' = [StaledContexts(worker) EXCEPT ![w] = Finished(w, Outcome(next, o))]
  /\ StaleRecovery
  /\ UNCHANGED <<chain, forks, binding, cred, job, signin, faults>>

\* The account changed since the context was captured, or the reducer refuses.
CommitRefused(w) ==
  /\ worker[w] # None
  /\ \/ worker[w].stage = "stale"
     \/ worker[w].stage = "observed" /\ ~Reducible(row, binding, worker[w].obs)
  /\ worker' = [worker EXCEPT ![w] = Finished(w, "conflict")]
  /\ UNCHANGED <<chain, forks, account, job, recovering, signin, faults>>

\* The observation's validity passes before the write: fresh().
CommitExpired(w) ==
  /\ worker[w] # None /\ worker[w].stage = "observed" /\ worker[w].obs.head # None
  /\ Fault
  /\ worker' = [worker EXCEPT ![w] = Finished(w, "failed")]
  /\ UNCHANGED <<chain, forks, account, job, recovering, signin>>

\* The replica stops, or loses its database: the lease stays.
Crash(w) ==
  /\ worker[w] # None /\ Fault
  /\ worker' = [worker EXCEPT ![w] = None]
  /\ UNCHANGED <<chain, forks, account, job, recovering, signin>>

-----------------------------------------------------------------------------
(* The refresh queue. A lease that has lapsed is as good as none.           *)

NewJob == [interested |-> TRUE, due |-> TRUE, lease |-> None, failures |-> 0]

\* cleanup: the end of every operation of the queue on this account.
Cleaned(j) == IF j # None /\ j.lease = None /\ ~j.interested THEN None ELSE j

\* Demand keeps the place in the queue and the backoff of a job.
Request ==
  /\ job' = IF Cleaned(job) = None THEN NewJob ELSE [job EXCEPT !.interested = TRUE]
  /\ job' # job
  /\ UNCHANGED <<chain, forks, account, worker, recovering, signin, faults>>

Claim(w) ==
  /\ worker[w] = None
  /\ Cleaned(job) # None /\ job.interested /\ job.due /\ job.lease = None
  /\ job' = [job EXCEPT !.due = FALSE, !.lease = w]
  /\ worker' = [worker EXCEPT ![w] = Claimed]
  /\ UNCHANGED <<chain, forks, account, recovering, signin, faults>>

\* The token and deadline of the lease are those of the job.
Acknowledges(w) == job # None /\ job.lease = w

\* At the cap of failures the queue gives up until the next request.
Completed(j, r) ==
  LET failures == IF r \in {"verified", "progress"} THEN 0
                  ELSE IF j.failures < MaxFailures THEN j.failures + 1 ELSE MaxFailures IN
  [j EXCEPT !.lease = None, !.due = FALSE, !.failures = failures,
            !.interested = @ /\ failures < MaxFailures]

\* A worker that lost its lease leaves the job alone.
Complete(w) ==
  /\ worker[w] # None /\ worker[w].stage = "done"
  /\ worker' = [worker EXCEPT ![w] = None]
  /\ job' = IF Acknowledges(w) THEN Cleaned(Completed(job, worker[w].outcome)) ELSE job
  /\ UNCHANGED <<chain, forks, account, recovering, signin, faults>>

\* The backoff, or the time to the next refresh, passes.
DueAgain ==
  /\ job # None /\ job.lease = None /\ ~job.due
  /\ job' = [job EXCEPT !.due = TRUE]
  /\ UNCHANGED <<chain, forks, account, worker, recovering, signin, faults>>

\* An expired job rejoins at its lease's deadline. The lease outlives an
\* attempt unless something is slow.
LeaseLapse ==
  /\ job # None /\ job.lease # None
  /\ IF worker[job.lease] = None THEN UNCHANGED faults ELSE Fault
  /\ job' = [job EXCEPT !.lease = None, !.due = TRUE]
  /\ UNCHANGED <<chain, forks, account, worker, recovering, signin>>

\* Interest lasts a day: it outlives an attempt unless something is slow.
InterestEnds ==
  /\ job # None /\ job.interested
  /\ IF ~job.due /\ job.lease = None THEN UNCHANGED faults ELSE Fault
  /\ job' = [job EXCEPT !.interested = FALSE]
  /\ UNCHANGED <<chain, forks, account, worker, recovering, signin>>

\* Another account's demand takes the slot of the account idle longest.
Evict ==
  /\ job # None /\ job.lease = None /\ Fault
  /\ job' = None
  /\ UNCHANGED <<chain, forks, account, worker, recovering, signin>>

-----------------------------------------------------------------------------
(* Sessions.                                                                *)

\* settled: a verified identity, of the binding in force.
Settled ==
  /\ row # None /\ row.readiness = "verified" /\ ~row.bootstrap /\ row.fence = None
  /\ row.identity # None /\ row.identity.consent = binding.consent

\* A passkey on record: the primary one, or a device's.
Current(p) ==
  IF p.kind = "key" THEN p.n = cred.owners.key ELSE p.n \in 1..cred.owners.devices

Passkeys == {KeyConsent(k) : k \in 0..MaxKeys} \cup {DeviceConsent(n) : n \in 1..MaxDevices}

\* active, at the level "identity".
Identified(s) ==
  LET r == sessions[s] IN
  /\ r # None /\ ~r.revoked
  /\ row # None /\ ~row.bootstrap /\ row.fence = None
  /\ Current(r.passkey)
  /\ r.authority = row.authority /\ r.session = row.session
  /\ r.identity = row.identity /\ r.identity.consent = binding.consent

\* active, at the level "settled".
ActiveSession(s) == Identified(s) /\ Settled

\* Verifies the assertion against the context of this moment.
LoginCapture(s, p) ==
  /\ login[s] = None /\ sessions[s] = None
  /\ ContextValid(binding, cred) /\ Current(p)
  /\ row # None /\ row.identity # None
  /\ login' = [login EXCEPT ![s] =
       [passkey |-> p, consent |-> binding.consent, key |-> cred.owners.key,
        authority |-> row.authority, session |-> row.session, identity |-> row.identity]]
  /\ UNCHANGED <<chain, forks, account, job, worker, recovering, sessions, handoff, grants,
                 faults>>

\* sameCaptured: binding, primary passkey and epochs, not the revision.
SameCaptured(c) ==
  /\ c.consent = binding.consent /\ c.key = cred.owners.key
  /\ row # None /\ c.authority = row.authority /\ c.session = row.session

LoginComplete(s) ==
  LET c == login[s] IN
  /\ c # None /\ login' = [login EXCEPT ![s] = None]
  /\ sessions' = IF SameCaptured(c) /\ Settled /\ row.identity = c.identity
       THEN [sessions EXCEPT ![s] =
              [passkey |-> c.passkey, authority |-> row.authority, session |-> row.session,
               identity |-> c.identity, revoked |-> FALSE]]
       ELSE sessions
  /\ UNCHANGED <<chain, forks, account, job, worker, recovering, handoff, grants,
                 faults>>

\* Signs the account out everywhere: its session epoch ends every session.
Logout(s) ==
  /\ Identified(s)
  /\ row' = [row EXCEPT !.session = @ + 1]
  /\ sessions' = [sessions EXCEPT ![s].revoked = TRUE]
  /\ worker' = StaledContexts(worker) /\ StaleRecovery
  /\ UNCHANGED <<chain, forks, binding, cred, job, login, handoff, grants, faults>>

-----------------------------------------------------------------------------
(* Applications. A hand-off is issued to a session and exchanged for a grant. *)
(* Both carry the generation of the application's policy at that time:        *)
(* permitted says that it is still the current one.                           *)

Issue(g, s) ==
  /\ handoff[g] = None /\ grants[g] = None
  /\ ActiveSession(s)
  /\ handoff' = [handoff EXCEPT ![g] = [by |-> s, permitted |-> TRUE]]
  /\ UNCHANGED <<chain, forks, account, job, worker, recovering, login, sessions, grants, faults>>

\* Consumes the code and inserts the grant, with the session's epochs.
Exchange(g) ==
  LET h == handoff[g] IN
  /\ h # None /\ h.permitted /\ ActiveSession(h.by)
  /\ grants' = [grants EXCEPT ![g] =
       [passkey |-> sessions[h.by].passkey, authority |-> sessions[h.by].authority,
        session |-> sessions[h.by].session, permitted |-> TRUE, revoked |-> FALSE]]
  /\ handoff' = [handoff EXCEPT ![g] = None]
  /\ UNCHANGED <<chain, forks, account, job, worker, recovering, login, sessions, faults>>

\* assertWalletAppGrantActiveInTransaction. It knows no passkey and no
\* identity: the epochs stand for them.
ActiveGrant(g) ==
  LET r == grants[g] IN
  /\ r # None /\ ~r.revoked /\ r.permitted
  /\ row # None /\ r.authority = row.authority /\ r.session = row.session
  /\ Settled

\* The operator changes the application's callbacks or disables it: a new
\* generation.
PolicyChange ==
  LET Lapsed(f) == [g \in Grants |-> IF f[g] = None THEN None ELSE [f[g] EXCEPT !.permitted = FALSE]] IN
  /\ handoff' = Lapsed(handoff) /\ grants' = Lapsed(grants)
  /\ <<handoff, grants>>' # <<handoff, grants>>
  /\ UNCHANGED <<chain, forks, account, job, worker, recovering, login, sessions, faults>>

-----------------------------------------------------------------------------
(* A replaced passkey and an added device. Both first bind the wallet under  *)
(* the owners that the consent names, in a transaction of its own.           *)

Rebound(consent) ==
  /\ binding.consent # consent
  /\ binding' = [consent |-> consent, owners |-> Owners(chain), at |-> chain]
  /\ worker' = StaledContexts(worker) /\ StaleRecovery
  /\ UNCHANGED <<chain, forks, row, cred, job, signin, faults>>

\* Recovery leaves the devices alone and checks none.
RebindRecovered ==
  /\ Owners(chain).key = cred.owners.key + 1
  /\ Rebound(KeyConsent(cred.owners.key + 1))

\* The addition names the whole set of devices.
RebindDevice ==
  /\ Owners(chain) = [cred.owners EXCEPT !.devices = @ + 1]
  /\ Rebound(DeviceConsent(cred.owners.devices + 1))

\* createWalletRecoveryMapping: the context once the recovery is activated.
RecoveredCred ==
  [owners |-> [cred.owners EXCEPT !.key = @ + 1], latest |-> KeyConsent(cred.owners.key + 1),
   anchor |-> binding.at]

\* Captures the context and observes it as it will be.
RecoveryObserve ==
  /\ recovering = "none" /\ ContextValid(binding, RecoveredCred)
  /\ Matched(binding, Observed(row, RecoveredCred, chain))
  /\ recovering' = "fresh"
  /\ UNCHANGED <<chain, forks, account, job, worker, signin, faults>>

\* Migration 020: an authority epoch on its own withdraws readiness.
RecoveredRow ==
  IF row = None THEN EpochsOnly
  ELSE [Advanced(row) EXCEPT !.readiness = IF row.fence # None THEN "fenced" ELSE "unknown"]

\* One commit switches the passkey and ends every session and grant.
RecoveryCommit ==
  /\ recovering = "fresh" /\ recovering' = "none"
  /\ cred' = RecoveredCred
  /\ row' = RecoveredRow
  /\ grants' = [g \in Grants |-> IF grants[g] = None THEN None ELSE [grants[g] EXCEPT !.revoked = TRUE]]
  /\ worker' = StaledContexts(worker)
  /\ UNCHANGED <<chain, forks, binding, job, login, sessions, handoff, faults>>

\* The context changed, or the observation expired.
RecoveryRefused ==
  /\ recovering # "none" /\ recovering' = "none"
  /\ IF recovering = "stale" THEN UNCHANGED faults ELSE Fault
  /\ UNCHANGED <<chain, forks, account, job, worker, signin>>

\* The new device is recorded: no epoch moves until the next observation.
ActivateDevice ==
  LET n == cred.owners.devices + 1
      next == [cred EXCEPT !.owners.devices = n, !.latest = DeviceConsent(n)] IN
  /\ binding.consent = DeviceConsent(n) /\ ContextValid(binding, next)
  /\ cred' = next
  /\ UNCHANGED <<chain, forks, row, binding, job, worker, recovering, signin, faults>>

-----------------------------------------------------------------------------

MineAny == \E k \in 0..MaxKeys, d \in 0..MaxDevices : Mine([key |-> k, devices |-> d])

Refresh(w) ==
  \/ \E o \in ObservationsOf(row, cred) : Observe(w, o)
  \/ ObserveRefused(w) \/ Commit(w) \/ CommitRefused(w)

Recovery == RebindRecovered \/ RecoveryObserve \/ RecoveryCommit \/ RecoveryRefused
Device == RebindDevice \/ ActivateDevice

Next ==
  \/ MineAny \/ \E n \in 1..MaxHeight : Reorganise(n)
  \/ \E w \in Slots : Refresh(w) \/ CommitExpired(w) \/ Crash(w)
  \/ \E w \in Workers : Claim(w) \/ Complete(w)
  \/ Request \/ DueAgain \/ LeaseLapse \/ InterestEnds \/ Evict
  \/ \E s \in Sessions : (\E p \in Passkeys : LoginCapture(s, p)) \/ LoginComplete(s) \/ Logout(s)
  \/ \E g \in Grants : (\E s \in Sessions : Issue(g, s)) \/ Exchange(g)
  \/ PolicyChange
  \/ Recovery \/ Device

Spec == Init /\ [][Next]_vars

\* What the refresh loop does, and what keeps it going: workers tick and finish
\* what they claim, deadlines pass, somebody uses the wallet again.
Loop ==
  \/ Request \/ DueAgain \/ LeaseLapse
  \/ \E w \in Workers : Claim(w) \/ Refresh(w) \/ Complete(w)

\* The chain grows and the loop runs.
FairSpec == Spec /\ WF_vars(MineAny) /\ WF_vars(Loop)

-----------------------------------------------------------------------------
(* Properties.                                                              *)

OwnerSet == [key : 0..MaxKeys, devices : 0..MaxDevices]

\* The authority row keeps the shape migration 020 asks of it: epochs from 1, a
\* verified row has an identity and an anchor and no fence, a fence goes with
\* readiness "fenced", a bootstrap row has nothing.
TypeOK ==
  /\ row # None =>
       /\ row.authority \in Nat \ {0} /\ row.session \in Nat \ {0}
       /\ row.readiness \in {"verified", "changed", "unknown", "fenced"}
       /\ row.bootstrap <=> row.anchor = None
       /\ row.bootstrap => row.identity = None /\ row.fence = None /\ row.readiness = "unknown"
       /\ row.readiness = "verified" => Matched(binding, [owners |-> row.identity.owners]) \/
            row.identity.consent # binding.consent
       /\ (row.fence # None) <=> (row.readiness = "fenced")
       /\ ~row.bootstrap => Len(row.anchor) <= row.highest
  /\ binding.owners \in OwnerSet /\ cred.owners \in OwnerSet
  /\ \A w \in Slots : worker[w] # None => worker[w].stage \in {"claimed", "observed", "stale", "done"}
  /\ job # None => job.failures \in 0..MaxFailures /\ job.lease \in Workers \cup {None}
  /\ faults \in 0..MaxFaults

Owns(p, o) == IF p.kind = "key" THEN p.n = o.key ELSE p.n <= o.devices

\* Whoever acts through a session or through an application's grant holds a
\* passkey that owned the wallet at the block Center last accepted, and that is
\* still on record: however log-ins, refreshes, recoveries and reorganisations
\* interleave (loginPostgres.ts active, appGrantsPostgres.ts settledAuthority).
ActiveIsOwner ==
  /\ \A s \in Sessions : ActiveSession(s) =>
       Owns(sessions[s].passkey, Owners(row.anchor)) /\ Owners(row.anchor) = binding.owners
  /\ \A g \in Grants : ActiveGrant(g) =>
       Owns(grants[g].passkey, Owners(row.anchor)) /\ Current(grants[g].passkey)

\* A session or grant that is refused stays refused, unless Center merely did
\* not know the owners for a while: a log-out, new owners, a replaced anchor, a
\* recovery or a policy change ends it for good, although reconcile writes whole
\* rows from contexts read long before (authorityPostgres.ts reconcile).
EndsForGood ==
  [][/\ \A s \in Sessions :
          sessions[s] # None /\ ~ActiveSession(s) /\ ActiveSession(s)' => row.readiness = "unknown"
     /\ \A g \in Grants :
          grants[g] # None /\ ~ActiveGrant(g) /\ ActiveGrant(g)' => row.readiness = "unknown"]_vars

\* A fence closes only after two looks at one branch: the block that was to be
\* recovered from is an ancestor of the block now accepted, and the owners at
\* both are the bound ones (authority.ts reconcileWalletAuthority).
FenceClosesOnSecondLook ==
  [][row # None /\ row.fence # None /\ row'.fence = None =>
       /\ row.fence.recovery # None /\ IsPrefix(row.fence.recovery, row'.anchor)
       /\ Owners(row.fence.recovery) = Owners(row'.anchor)
       /\ Owners(row'.anchor) = binding.owners]_vars

\* What is on chain is what is bound and recorded.
Consistent ==
  /\ Owners(chain) = binding.owners /\ ContextValid(binding, cred)
  /\ cred.anchor # None => Canonical(cred.anchor)

\* Once the chain, the binding and the record agree for good, the wallet becomes
\* usable again and stays so: fences close, unknown readiness is looked up, lost
\* leases and given-up jobs are taken up (authorityRefreshPostgres.ts).
EventuallySettled == <>[]Consistent => <>[]Settled

=============================================================================
