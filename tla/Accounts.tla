------------------------------ MODULE Accounts ------------------------------
(****************************************************************************)
(* Request authentication (src/rest/auth): service.ts (verification of a     *)
(* signed request), store.ts (who may do what) and postgres.ts (accounts,    *)
(* grants and request nonces in PostgreSQL), with the rows of                *)
(* wallet/appGrantsPostgres.ts that an application's request is checked on.  *)
(*                                                                           *)
(* A signed request names an account, possibly a grant, a nonce and a        *)
(* validity window. Any replica may receive it, any number of times. It is   *)
(* admitted in one transaction that locks the account's row, checks the      *)
(* authority, stores the nonce and checks again at a later time. Expired     *)
(* nonces are deleted by a sweep that takes no account lock, and a crash or  *)
(* an error rolls the transaction back.                                      *)
(*                                                                           *)
(* The transaction is three actions (Lock, Consume, Complete), because the   *)
(* clock moves and the sweep runs between its statements; what it has        *)
(* written but not committed is in draft. Statements of other transactions   *)
(* on the same account wait for the lock.                                    *)
(****************************************************************************)
EXTENDS Integers, FiniteSets

CONSTANTS
  None,
  Accounts,
  Enrolled,      \* accounts that exist already
  Grants,        \* grant ids
  AppGrants,     \* the grants that are wallet applications', already issued
  AppAccount,    \* the account of those
  Replicas,
  Requests,      \* signed requests: records with the fields below
  Skew,          \* how far a replica's clock may be from the database's
  Ahead,         \* how far in the future a request may be issued
  Levels,        \* cumulative scope profiles a bot may be granted
  MaxLife,       \* the longest a bot's grant may run
  MaxAccounts, MaxNonces, MaxGrants, OwnerNonceReserve,
  MaxTime, MaxEpoch, MaxFaults

\* kind     what the request is for: "enroll", "register", "revoke", "claim"
\* account, grant (None for the owner), signer, nonce, level
\* issued, expires
Fields == {"kind", "account", "grant", "signer", "nonce", "level", "issued", "expires"}

ASSUME AccountsAssumption ==
  /\ Enrolled \subseteq Accounts /\ AppGrants \subseteq Grants /\ None \notin Grants
  /\ None \notin Replicas /\ IsFiniteSet(Accounts) /\ IsFiniteSet(Grants)
  /\ \A r \in Requests :
       /\ DOMAIN r = Fields
       /\ r.kind \in {"enroll", "register", "revoke", "claim"}
       /\ r.account \in Accounts /\ r.grant \in Grants \cup {None}
       /\ r.issued \in Nat /\ r.expires \in Nat
       /\ r.kind # "claim" => r.grant = None
  /\ AppAccount \in [AppGrants -> Accounts]
  /\ {Skew, Ahead, MaxLife, MaxTime, MaxEpoch, MaxFaults} \subseteq Nat
  /\ {MaxAccounts, MaxNonces, MaxGrants, OwnerNonceReserve} \subseteq Nat \ {0}

VARIABLES
  clock,      \* the database's clock
  accounts,   \* rest_accounts: the accounts that exist
  grants,     \* rest_bot_grants and rest_wallet_app_grants
  nonces,     \* rest_request_nonces of each account; grant is not stored
  authority,  \* rest_wallet_authority: readiness and epoch
  enrolling,  \* holder of the advisory enrollment lock
  lock,       \* holder of each account's row lock
  pc, req, at, draft, context,   \* each replica's request
  answered,   \* how often a request was admitted (or refused after its nonce)
  claims,     \* requests whose durable work was accepted
  faults

rows == <<accounts, grants, nonces, authority>>
locks == <<enrolling, lock>>
local == <<pc, req, at, draft, context>>
vars == <<clock, rows, locks, local, answered, claims, faults>>

-----------------------------------------------------------------------------
(* Authority.                                                               *)

\* The database's clock, shared by the replicas.
DatabaseNow == clock

\* assertRequest: the validity window, at time t.
InWindow(r, t) == r.issued <= t + Ahead /\ t < r.expires

IsApp(g) == g \in AppGrants

\* Accounts with a wallet: they have an authority, and may have applications.
Wallets == {AppAccount[g] : g \in AppGrants}

\* The application's wallet authority is verified and of the grant's epoch.
Settled(a, g) == authority[a].ready /\ authority[a].epoch = grants[g].epoch

\* principalFor: the owner signed it, or an unrevoked live grant of this account
\* whose profile includes what the request needs.
PrincipalFor(r, t) ==
  IF r.grant = None THEN r.signer = r.account
  ELSE LET g == grants[r.grant] IN
       /\ r.kind = "claim"
       /\ g # None
       /\ g.account = r.account /\ g.signer = r.signer
       /\ g.revoked = None /\ g.from <= t /\ t < g.until
       /\ r.level <= g.level

\* assertRestActorActive: the same for work a principal was admitted for, with
\* an application's authority settled.
ActorActive(r, t) ==
  /\ PrincipalFor(r, t)
  /\ r.grant # None /\ IsApp(r.grant) => Settled(r.account, r.grant)

\* assertWalletAppRefreshIdentityInTransaction: the authority the request's
\* identity was checked on outside the transaction has not changed epoch.
SameIdentity(p, r) ==
  r.grant # None /\ IsApp(r.grant) =>
    /\ authority[r.account].epoch = grants[r.grant].epoch
    /\ authority[r.account].epoch = context[p]

\* nonceCapacity: grants leave slots for the owner.
NonceCapacity(r) ==
  LET half == IF MaxNonces \div 2 > 1 THEN MaxNonces \div 2 ELSE 1
      reserved == IF OwnerNonceReserve < half THEN OwnerNonceReserve ELSE half
  IN  IF r.grant = None THEN MaxNonces ELSE MaxNonces - reserved

-----------------------------------------------------------------------------
NoDraft == [purge |-> FALSE]

Init ==
  /\ clock = 0
  /\ accounts = Enrolled
  /\ grants = [g \in Grants |-> IF IsApp(g)
                THEN [account |-> AppAccount[g], signer |-> g, level |-> 3, from |-> 0,
                      until |-> MaxTime, revoked |-> None, epoch |-> 0]
                ELSE None]
  /\ nonces = [a \in Accounts |-> {}]
  /\ authority = [a \in Wallets |-> [ready |-> TRUE, epoch |-> 0]]
  /\ enrolling = None
  /\ lock = [a \in Accounts |-> None]
  /\ pc = [p \in Replicas |-> "idle"]
  /\ req = [p \in Replicas |-> None]
  /\ at = [p \in Replicas |-> 0]
  /\ draft = [p \in Replicas |-> NoDraft]
  /\ context = [p \in Replicas |-> 0]
  /\ answered = [r \in Requests |-> 0]
  /\ claims = {} /\ faults = 0

\* The replica's transaction ends and its locks go with it.
Unlocked(p) == [a \in Accounts |-> IF lock[a] = p THEN None ELSE lock[a]]

Ends(p, to) ==
  /\ pc' = [pc EXCEPT ![p] = to]
  /\ draft' = [draft EXCEPT ![p] = NoDraft]
  /\ at' = [at EXCEPT ![p] = 0] /\ context' = [context EXCEPT ![p] = 0]
  /\ req' = IF to = "idle" THEN [req EXCEPT ![p] = None] ELSE req
  /\ lock' = Unlocked(p)
  /\ enrolling' = IF enrolling = p THEN None ELSE enrolling

-----------------------------------------------------------------------------
(* A request is verified and admitted.                                      *)

\* verify, at the replica's own clock. An application's request also loads the
\* authority its identity is checked on.
Verify(p, r) ==
  /\ pc[p] = "idle"
  /\ \E s \in (clock - Skew)..(clock + Skew) : s >= 0 /\ InWindow(r, s)
  /\ pc' = [pc EXCEPT ![p] = "verified"]
  /\ req' = [req EXCEPT ![p] = r]
  /\ context' = IF r.grant # None /\ IsApp(r.grant) /\ r.account \in Wallets
                THEN [context EXCEPT ![p] = authority[r.account].epoch] ELSE context
  /\ UNCHANGED <<clock, rows, locks, at, draft, answered, claims, faults>>

\* Mutant: enrollments do not wait for each other.
EnrollmentUnserialized(p) == TRUE

\* Enrollments take a shared advisory lock before the account's row.
EnrollmentFree(p) == enrolling = None

TakeEnrollment(p) ==
  /\ pc[p] = "verified" /\ req[p].kind = "enroll" /\ EnrollmentFree(p)
  /\ enrolling' = p
  /\ pc' = [pc EXCEPT ![p] = "enrolling"]
  /\ UNCHANGED <<clock, rows, lock, req, at, draft, context, answered, claims, faults>>

\* The account exists, or this enrollment may create it.
AccountAdmits(p, r) ==
  IF r.kind = "enroll" THEN r.account \in accounts \/ Cardinality(accounts) < MaxAccounts
  ELSE r.account \in accounts

\* The account's row is there to be locked, or it is being created.
AtLock(p) == pc[p] = "enrolling" \/ (pc[p] = "verified" /\ req[p].kind # "enroll")

CanAdmit(p) ==
  LET r == req[p]
  IN  /\ AccountAdmits(p, r) /\ InWindow(r, DatabaseNow)
      /\ PrincipalFor(r, DatabaseNow) /\ SameIdentity(p, r)

\* lockedAccount, the grant and the first check, at the database's clock.
Lock(p) ==
  /\ AtLock(p) /\ lock[req[p].account] = None
  /\ CanAdmit(p)
  /\ lock' = [lock EXCEPT ![req[p].account] = p]
  /\ at' = [at EXCEPT ![p] = DatabaseNow]
  /\ pc' = [pc EXCEPT ![p] = "checked"]
  /\ UNCHANGED <<clock, rows, enrolling, req, draft, context, answered, claims, faults>>

\* At capacity this account's expired nonces go first.
Full(r) == Cardinality(nonces[r.account]) >= NonceCapacity(r)
Unexpired(a, t) == {n \in nonces[a] : n.exp > t}

\* The nonce is stored and still live: the request was used.
Replayed(r, t) == \E n \in nonces[r.account] : n.nonce = r.nonce /\ n.exp > t

CanConsume(p) ==
  LET r == req[p] IN
  /\ Full(r) => Cardinality(Unexpired(r.account, at[p])) < NonceCapacity(r)
  /\ ~Replayed(r, at[p])

\* consumeNonce: the row is written, or an expired one taken over.
Consume(p) ==
  /\ pc[p] = "checked" /\ CanConsume(p)
  /\ draft' = [draft EXCEPT ![p] = [purge |-> Full(req[p])]]
  /\ pc' = [pc EXCEPT ![p] = "consumed"]
  /\ UNCHANGED <<clock, rows, locks, req, at, context, answered, claims, faults>>

\* Mutant: the request is not checked again once its nonce is written.
CompletesUnchecked(p) == TRUE

\* The last check before COMMIT.
CanComplete(p) == InWindow(req[p], DatabaseNow) /\ PrincipalFor(req[p], DatabaseNow)

\* The nonce rows as this transaction leaves them.
Stored(p) ==
  LET r == req[p]
      kept == IF draft[p].purge THEN Unexpired(r.account, at[p]) ELSE nonces[r.account]
  IN  {n \in kept : n.nonce # r.nonce}
        \cup {[nonce |-> r.nonce, exp |-> r.expires, grant |-> r.grant]}

\* COMMIT. An application's request whose authority is not verified is refused
\* only now, so that its nonce is spent.
Complete(p) ==
  LET r == req[p]
      admitted == ActorActive(r, DatabaseNow)
  IN  /\ pc[p] = "consumed" /\ CanComplete(p)
      /\ nonces' = [nonces EXCEPT ![r.account] = Stored(p)]
      /\ accounts' = accounts \cup {r.account}
      /\ answered' = [answered EXCEPT ![r] = @ + 1]
      /\ Ends(p, IF admitted /\ r.kind # "enroll" THEN "admitted" ELSE "idle")
      /\ UNCHANGED <<clock, grants, authority, claims, faults>>

\* Any check that fails rolls the transaction back.
Refuse(p) ==
  /\ \/ AtLock(p) /\ ~CanAdmit(p) /\ lock[req[p].account] = None
     \/ AtLock(p) /\ ~AccountAdmits(p, req[p])
     \/ pc[p] = "checked" /\ ~CanConsume(p)
     \/ pc[p] = "consumed" /\ ~CanComplete(p)
  /\ Ends(p, "idle")
  /\ UNCHANGED <<clock, rows, answered, claims, faults>>

-----------------------------------------------------------------------------
(* What admitted requests do.                                               *)

Held(a) == {g \in Grants \ AppGrants : grants[g] # None /\ grants[g].account = a}

\* registerBot: a fresh id, within the account's limit, for at most a year.
RegisterBot(p, g, level, until) ==
  LET a == req[p].account
  IN  /\ pc[p] = "admitted" /\ req[p].kind = "register" /\ lock[a] = None
      /\ ~IsApp(g) /\ grants[g] = None
      /\ DatabaseNow < until /\ until <= DatabaseNow + MaxLife
      /\ Cardinality(Held(a)) < MaxGrants
      /\ grants' = [grants EXCEPT ![g] =
                      [account |-> a, signer |-> g, level |-> level, from |-> DatabaseNow,
                       until |-> until, revoked |-> None, epoch |-> 0]]
      /\ Ends(p, "idle")
      /\ UNCHANGED <<clock, accounts, nonces, authority, answered, claims, faults>>

\* revokeBot: the first revocation's time stays.
RevokeBot(p, g) ==
  LET a == req[p].account
  IN  /\ pc[p] = "admitted" /\ req[p].kind = "revoke" /\ lock[a] = None
      /\ g \in Held(a)
      /\ grants' = [grants EXCEPT ![g].revoked = IF @ = None THEN DatabaseNow ELSE @]
      /\ Ends(p, "idle")
      /\ UNCHANGED <<clock, accounts, nonces, authority, answered, claims, faults>>

\* Mutant: the authority is read without keeping the account's row.
UnlockedClaim(p, a) == lock

\* The account's row stays locked until the claim commits.
LockedClaim(p, a) == [lock EXCEPT ![a] = p]

\* The transaction of a durable claim: assertRestActorActive first ...
BeginClaim(p) ==
  LET r == req[p]
  IN  /\ pc[p] = "admitted" /\ r.kind = "claim" /\ lock[r.account] = None
      /\ ActorActive(r, DatabaseNow)
      /\ lock' = LockedClaim(p, r.account)
      /\ pc' = [pc EXCEPT ![p] = "claiming"]
      /\ UNCHANGED <<clock, rows, enrolling, req, at, draft, context, answered, claims, faults>>

\* ... and the caller's writes after it.
CommitClaim(p) ==
  /\ pc[p] = "claiming"
  /\ claims' = claims \cup {req[p]}
  /\ Ends(p, "idle")
  /\ UNCHANGED <<clock, rows, answered, faults>>

\* The service or the store refuses the work: its input is invalid, a limit is
\* reached, there is nothing to revoke, the authority is gone.
Finish(p) ==
  LET r == req[p]
  IN  /\ pc[p] = "admitted" /\ lock[r.account] = None
      /\ \/ r.kind = "register"
         \/ r.kind = "revoke" /\ Held(r.account) = {}
         \/ r.kind = "claim" /\ ~ActorActive(r, DatabaseNow)
      /\ Ends(p, "idle")
      /\ UNCHANGED <<clock, rows, answered, claims, faults>>

-----------------------------------------------------------------------------
\* cleanupExpiredNonces: a bounded number of expired rows, without the
\* account's lock, skipping rows another transaction has locked.
Sweep(a, n) ==
  /\ n \in nonces[a] /\ n.exp <= DatabaseNow
  /\ nonces' = [nonces EXCEPT ![a] = @ \ {n}]
  /\ UNCHANGED <<clock, accounts, grants, authority, locks, local, answered, claims, faults>>

\* The wallet authority of an account is observed anew, under its lock: it is
\* verified, unknown for now, or replaced.
ObserveAuthority(a) ==
  /\ lock[a] = None
  /\ \E ready \in BOOLEAN, e \in {authority[a].epoch, authority[a].epoch + 1} :
       /\ e <= MaxEpoch
       /\ authority' = [authority EXCEPT ![a] = [ready |-> ready, epoch |-> e]]
  /\ UNCHANGED <<clock, accounts, grants, nonces, locks, local, answered, claims, faults>>

\* The replica dies or loses its connection; PostgreSQL rolls back.
Crash(p) ==
  /\ pc[p] # "idle" /\ faults < MaxFaults
  /\ faults' = faults + 1
  /\ Ends(p, "idle")
  /\ UNCHANGED <<clock, rows, answered, claims>>

Tick ==
  /\ clock < MaxTime /\ clock' = clock + 1
  /\ UNCHANGED <<rows, locks, local, answered, claims, faults>>

Next ==
  \/ \E p \in Replicas :
       \/ \E r \in Requests : Verify(p, r)
       \/ TakeEnrollment(p) \/ Lock(p) \/ Consume(p) \/ Complete(p) \/ Refuse(p)
       \/ \E g \in Grants, level \in Levels, until \in 1..MaxTime : RegisterBot(p, g, level, until)
       \/ \E g \in Grants : RevokeBot(p, g)
       \/ BeginClaim(p) \/ CommitClaim(p) \/ Finish(p) \/ Crash(p)
  \/ \E a \in Wallets : ObserveAuthority(a)
  \/ \E a \in Accounts : \E n \in nonces[a] : Sweep(a, n)
  \/ Tick

Spec == Init /\ [][Next]_vars

-----------------------------------------------------------------------------
(* Properties.                                                              *)

\* Rows, locks and replicas hold values of their types.
TypeOK ==
  /\ clock \in 0..MaxTime /\ accounts \subseteq Accounts
  /\ \A a \in Accounts : lock[a] \in Replicas \cup {None}
  /\ \A p \in Replicas :
       /\ pc[p] \in {"idle", "verified", "enrolling", "checked", "consumed", "admitted", "claiming"}
       /\ pc[p] # "idle" => req[p] \in Requests
       /\ at[p] \in 0..clock

\* A signed request is admitted at most once, however often it is delivered,
\* to whichever replica, and whenever the sweep deletes its nonce. An attempt
\* refused after its nonce was stored counts too: it is spent.
AdmittedOnce == \A r \in Requests : answered[r] <= 1

\* While a request that was admitted can still be delivered in its window, its
\* nonce is stored; and a transaction past its nonce check holds the account's
\* row, where nobody else has stored the nonce since.
IInv ==
  /\ \A r \in Requests :
       answered[r] = 0 \/ /\ answered[r] = 1
                          /\ clock < r.expires => \E n \in nonces[r.account] :
                                                    n.nonce = r.nonce /\ n.exp >= r.expires
  /\ \A p \in Replicas : pc[p] \in {"checked", "consumed"} =>
       /\ lock[req[p].account] = p /\ at[p] <= clock
       /\ pc[p] = "consumed" => ~Replayed(req[p], at[p])

\* The storage limits hold whatever is enrolled, admitted or granted at once, and
\* grants can never use up the nonces of an account: slots remain in which the
\* owner may still sign, for instance to revoke them (store.ts nonceCapacity).
LimitsHold ==
  /\ TypeOK /\ Cardinality(accounts) <= MaxAccounts
  /\ \A a \in Accounts :
       /\ Cardinality(nonces[a]) <= MaxNonces /\ Cardinality(Held(a)) <= MaxGrants
       /\ Cardinality({n \in nonces[a] : n.grant # None}) < MaxNonces

\* No durable work is accepted for a grant after its revocation has committed,
\* nor for an application after its account's authority was replaced, although
\* the request was admitted, and checked, before.
ClaimedUnderAuthority ==
  [][\A c \in claims' \ claims :
       c.grant # None =>
         /\ grants[c.grant].revoked = None
         /\ IsApp(c.grant) => Settled(c.account, c.grant)]_vars
=============================================================================
