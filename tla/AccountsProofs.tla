--------------------------- MODULE AccountsProofs ---------------------------
(****************************************************************************)
(* Proofs about Accounts, for any number of accounts, grants, requests and   *)
(* replicas, any clock skew and any limits.                                  *)
(*                                                                           *)
(* A signed request is admitted at most once. The argument: a nonce row       *)
(* outlives the window of the request that stored it, because the sweep and   *)
(* the purge at capacity delete expired rows only; a transaction that passed  *)
(* its nonce check holds the account's row until it ends, so nobody stores    *)
(* the same nonce meanwhile; and the last check before COMMIT is made at the  *)
(* clock at which the row is expired.                                        *)
(*                                                                           *)
(* Durable work is accepted under standing authority only. The argument: the  *)
(* authority is checked with the account's row locked, and both a revocation  *)
(* and a new observation of the authority take that lock.                     *)
(****************************************************************************)
EXTENDS Accounts, TLAPS

Stages == {"idle", "verified", "enrolling", "checked", "consumed", "admitted", "claiming"}

Rows == [nonce : {r.nonce : r \in Requests}, exp : Nat, grant : Grants \cup {None}]

\* The variables as functions, for every clock: what the arithmetic of windows
\* and the updates of rows, locks and transactions need.
Typed ==
  /\ clock \in Nat
  /\ nonces \in [Accounts -> SUBSET Rows]
  /\ lock \in [Accounts -> Replicas \cup {None}]
  /\ pc \in [Replicas -> Stages]
  /\ req \in [Replicas -> Requests \cup {None}]
  /\ at \in [Replicas -> Nat]
  /\ draft \in [Replicas -> [purge : BOOLEAN]]
  /\ answered \in [Requests -> Nat]
  /\ \A p \in Replicas : pc[p] # "idle" => req[p] \in Requests

\* What a transaction that ends leaves behind is well typed again.
LEMMA EndsTyped ==
  ASSUME Typed, NEW p \in Replicas, NEW to \in {"idle", "admitted"}, pc[p] # "idle", Ends(p, to)
  PROVE  /\ lock' \in [Accounts -> Replicas \cup {None}]
         /\ pc' \in [Replicas -> Stages]
         /\ req' \in [Replicas -> Requests \cup {None}]
         /\ at' \in [Replicas -> Nat]
         /\ draft' \in [Replicas -> [purge : BOOLEAN]]
         /\ \A q \in Replicas : pc'[q] # "idle" => req'[q] \in Requests
<1>1. lock' \in [Accounts -> Replicas \cup {None}]
  BY DEF Typed, Ends, Unlocked
<1>2. pc' \in [Replicas -> Stages] /\ at' \in [Replicas -> Nat]
  BY DEF Typed, Ends, Stages
<1>3. req' \in [Replicas -> Requests \cup {None}]
  BY DEF Typed, Ends
<1>4. draft' \in [Replicas -> [purge : BOOLEAN]]
  BY DEF Typed, Ends, NoDraft
<1>5. \A q \in Replicas : pc'[q] # "idle" => req'[q] \in Requests
  BY DEF Typed, Ends
<1> QED BY <1>1, <1>2, <1>3, <1>4, <1>5

\* The rows a commit leaves are well typed.
LEMMA StoredTyped ==
  ASSUME Typed, NEW p \in Replicas, pc[p] # "idle"
  PROVE  Stored(p) \in SUBSET Rows
<1>1. req[p] \in Requests /\ req[p].account \in Accounts
  BY AccountsAssumption DEF Typed
<1>2. nonces[req[p].account] \in SUBSET Rows
  BY <1>1 DEF Typed
<1>3. [nonce |-> req[p].nonce, exp |-> req[p].expires, grant |-> req[p].grant] \in Rows
  BY <1>1, AccountsAssumption DEF Rows
<1> QED BY <1>2, <1>3 DEF Stored, Unexpired

LEMMA TypedStep == Typed /\ [Next]_vars => Typed'
<1> SUFFICES ASSUME Typed, [Next]_vars PROVE Typed'
  OBVIOUS
<1>1. ASSUME NEW p \in Replicas, NEW r \in Requests, Verify(p, r) PROVE Typed'
  BY <1>1 DEF Typed, Verify, rows, locks, Stages
<1>2. ASSUME NEW p \in Replicas, TakeEnrollment(p) PROVE Typed'
  BY <1>2 DEF Typed, TakeEnrollment, rows, Stages
<1>3. ASSUME NEW p \in Replicas, Lock(p) PROVE Typed'
  <2>1. pc[p] # "idle" /\ req[p] \in Requests
    BY <1>3 DEF Lock, AtLock, Typed
  <2> QED BY <1>3, <2>1, AccountsAssumption DEF Typed, Lock, rows, Stages, DatabaseNow
<1>4. ASSUME NEW p \in Replicas, Consume(p) PROVE Typed'
  BY <1>4 DEF Typed, Consume, rows, locks, Stages, Full
<1>5. ASSUME NEW p \in Replicas, Complete(p) PROVE Typed'
  <2>1. pc[p] # "idle" /\ req[p] \in Requests /\ req[p].account \in Accounts
    BY <1>5, AccountsAssumption DEF Complete, Typed
  <2>2. PICK to \in {"idle", "admitted"} : Ends(p, to)
    BY <1>5 DEF Complete
  <2>3. nonces' \in [Accounts -> SUBSET Rows]
    BY <1>5, <2>1, StoredTyped DEF Complete, Typed
  <2>4. answered' \in [Requests -> Nat]
    BY <1>5, <2>1 DEF Complete, Typed
  <2>5. clock' = clock
    BY <1>5 DEF Complete
  <2> QED BY <2>1, <2>2, <2>3, <2>4, <2>5, EndsTyped DEF Typed
<1>6. ASSUME NEW p \in Replicas, pc[p] # "idle", Ends(p, "idle"),
             UNCHANGED <<clock, nonces, answered>>
      PROVE  Typed'
  BY <1>6, EndsTyped DEF Typed
<1>7. ASSUME NEW p \in Replicas, Refuse(p) PROVE Typed'
  <2>1. pc[p] # "idle"
    BY <1>7 DEF Refuse, AtLock
  <2> QED BY <1>6, <1>7, <2>1 DEF Refuse, rows
<1>8. ASSUME NEW p \in Replicas, NEW g \in Grants, NEW l \in Levels, NEW u \in 1..MaxTime,
             RegisterBot(p, g, l, u)
      PROVE  Typed'
  BY <1>6, <1>8 DEF RegisterBot
<1>9. ASSUME NEW p \in Replicas, NEW g \in Grants, RevokeBot(p, g) PROVE Typed'
  BY <1>6, <1>9 DEF RevokeBot
<1>10. ASSUME NEW p \in Replicas, BeginClaim(p) PROVE Typed'
  <2>1. pc[p] # "idle" /\ req[p] \in Requests
    BY <1>10 DEF BeginClaim, Typed
  <2> QED BY <1>10, <2>1, AccountsAssumption DEF Typed, BeginClaim, LockedClaim, rows, Stages
<1>11. ASSUME NEW p \in Replicas, CommitClaim(p) PROVE Typed'
  BY <1>6, <1>11 DEF CommitClaim, rows
<1>12. ASSUME NEW p \in Replicas, Finish(p) PROVE Typed'
  BY <1>6, <1>12 DEF Finish, rows
<1>13. ASSUME NEW p \in Replicas, Crash(p) PROVE Typed'
  BY <1>6, <1>13 DEF Crash, rows
<1>14. ASSUME NEW a \in Wallets, ObserveAuthority(a) PROVE Typed'
  BY <1>14 DEF Typed, ObserveAuthority, locks, local
<1>15. ASSUME NEW a \in Accounts, NEW n \in nonces[a], Sweep(a, n) PROVE Typed'
  BY <1>15 DEF Typed, Sweep, locks, local
<1>16. ASSUME Tick PROVE Typed'
  BY <1>16 DEF Typed, Tick, rows, locks, local
<1>17. ASSUME UNCHANGED vars PROVE Typed'
  BY <1>17 DEF Typed, vars, rows, locks, local
<1> QED BY <1>1, <1>2, <1>3, <1>4, <1>5, <1>7, <1>8, <1>9, <1>10, <1>11, <1>12, <1>13, <1>14,
           <1>15, <1>16, <1>17 DEF Next

-----------------------------------------------------------------------------
(* Admitted at most once.                                                   *)

\* Two transactions past their first check are on different accounts.
LEMMA OneTransaction ==
  ASSUME IInv, NEW p \in Replicas, NEW q \in Replicas,
         pc[p] \in {"checked", "consumed"}, pc[q] \in {"checked", "consumed"},
         req[p].account = req[q].account
  PROVE  p = q
BY DEF IInv

\* The transactions' part of the invariant survives the end of one of them, if
\* the clock and the rows stay as they are.
LEMMA EndsKeeps ==
  ASSUME Typed, IInv, NEW p \in Replicas, NEW to \in {"idle", "admitted"}, Ends(p, to),
         UNCHANGED <<clock, nonces, answered>>
  PROVE  IInv'
<1>1. \A r \in Requests : answered'[r] = answered[r] /\ nonces'[r.account] = nonces[r.account]
  OBVIOUS
<1>2. ASSUME NEW q \in Replicas, pc'[q] \in {"checked", "consumed"}
      PROVE  /\ lock'[req'[q].account] = q /\ at'[q] <= clock'
             /\ pc'[q] = "consumed" => ~Replayed(req[q], at[q])'
  <2>1. q # p /\ pc'[q] = pc[q] /\ req'[q] = req[q] /\ at'[q] = at[q]
    BY <1>2 DEF Ends, Typed
  <2>2. lock[req[q].account] = q /\ at[q] <= clock /\ (pc[q] = "consumed" => ~Replayed(req[q], at[q]))
    BY <1>2, <2>1 DEF IInv
  <2>3. req[q] \in Requests /\ req[q].account \in Accounts
    BY <1>2, <2>1, AccountsAssumption DEF Typed
  <2>4. lock'[req'[q].account] = q
    BY <2>1, <2>2, <2>3 DEF Ends, Unlocked, Typed
  <2> QED BY <2>1, <2>2, <2>4 DEF Replayed
<1> QED BY <1>1, <1>2 DEF IInv

\* A live request that was answered is recognised: its nonce counts as replayed
\* at every earlier time.
LEMMA AnsweredIsReplayed ==
  ASSUME Typed, IInv, NEW r \in Requests, answered[r] # 0, clock < r.expires,
         NEW t \in Nat, t <= clock
  PROVE  Replayed(r, t)
<1>1. PICK n \in nonces[r.account] : n.nonce = r.nonce /\ n.exp >= r.expires
  BY DEF IInv
<1>2. n.exp \in Nat /\ r.expires \in Nat
  BY <1>1, AccountsAssumption DEF Typed, Rows
<1> QED BY <1>1, <1>2 DEF Replayed, Typed

\* COMMIT: the request had not been answered, every other answered request that
\* is still live keeps its nonce row, and no other transaction is affected.
LEMMA CompleteKeeps ==
  ASSUME Typed, IInv, NEW p \in Replicas, Complete(p)
  PROVE  IInv'
<1> DEFINE r == req[p]
<1>1. r \in Requests /\ r.account \in Accounts /\ r.expires \in Nat /\ at[p] \in Nat /\ clock \in Nat
  BY AccountsAssumption DEF Complete, Typed
<1>2. lock[r.account] = p /\ at[p] <= clock /\ ~Replayed(r, at[p])
  BY DEF Complete, IInv
<1>3. clock < r.expires /\ clock' = clock
  BY DEF Complete, CanComplete, InWindow, DatabaseNow
<1>4. answered[r] = 0
  BY <1>1, <1>2, <1>3, AnsweredIsReplayed
<1>5. answered' = [answered EXCEPT ![r] = 1]
  BY <1>1, <1>4 DEF Complete, Typed
<1>6. /\ nonces'[r.account] = Stored(p)
      /\ \A a \in Accounts : a # r.account => nonces'[a] = nonces[a]
  BY <1>1 DEF Complete, Typed
<1>7. ASSUME NEW s \in Requests
      PROVE  answered'[s] = 0 \/ /\ answered'[s] = 1
                                 /\ clock' < s.expires => \E n \in nonces'[s.account] :
                                                            n.nonce = s.nonce /\ n.exp >= s.expires
  <2>1. s.account \in Accounts /\ s.expires \in Nat
    BY AccountsAssumption
  <2>2. CASE s = r
    <3>1. [nonce |-> r.nonce, exp |-> r.expires, grant |-> r.grant] \in Stored(p)
      BY DEF Stored
    <3> QED BY <1>1, <1>5, <1>6, <2>2, <3>1 DEF Typed
  <2>3. CASE s # r /\ answered[s] = 0
    BY <1>1, <1>5, <2>3 DEF Typed
  <2>4. CASE s # r /\ answered[s] # 0 /\ ~(clock < s.expires)
    BY <1>1, <1>3, <1>5, <2>4 DEF Typed, IInv
  <2>5. CASE s # r /\ answered[s] # 0 /\ clock < s.expires /\ s.account # r.account
    BY <1>1, <1>5, <1>6, <2>1, <2>5 DEF Typed, IInv
  <2>6. CASE s # r /\ answered[s] # 0 /\ clock < s.expires /\ s.account = r.account
    <3>1. PICK n \in nonces[r.account] : n.nonce = s.nonce /\ n.exp >= s.expires
      BY <2>6 DEF IInv
    <3>2. n.exp \in Nat
      BY <1>1, <3>1 DEF Typed, Rows
    <3>3. n.exp > at[p]
      BY <1>1, <1>2, <2>1, <2>6, <3>1, <3>2
    <3>4. n.nonce # r.nonce
      BY <1>2, <3>1, <3>3 DEF Replayed
    <3>5. n \in Stored(p)
      BY <3>1, <3>3, <3>4 DEF Stored, Unexpired
    <3> QED BY <1>1, <1>5, <1>6, <2>6, <3>1, <3>5 DEF Typed, IInv
  <2> QED BY <2>2, <2>3, <2>4, <2>5, <2>6
<1>8. ASSUME NEW q \in Replicas, pc'[q] \in {"checked", "consumed"}
      PROVE  /\ lock'[req'[q].account] = q /\ at'[q] <= clock'
             /\ pc'[q] = "consumed" => ~Replayed(req[q], at[q])'
  <2>1. q # p /\ pc'[q] = pc[q] /\ req'[q] = req[q] /\ at'[q] = at[q]
    BY <1>8 DEF Complete, Ends, Typed
  <2>2. req[q] \in Requests /\ req[q].account \in Accounts
    BY <1>8, <2>1, AccountsAssumption DEF Typed
  <2>3. req[q].account # r.account
    BY <1>8, <2>1, OneTransaction DEF Complete
  <2>4. nonces'[req[q].account] = nonces[req[q].account]
    BY <1>6, <2>2, <2>3
  <2>5. lock'[req'[q].account] = q
    BY <1>8, <2>1, <2>2 DEF IInv, Complete, Ends, Unlocked, Typed
  <2> QED BY <1>3, <1>8, <2>1, <2>4, <2>5 DEF IInv, Replayed
<1> QED BY <1>7, <1>8 DEF IInv

\* The nonce check: what it lets through has no live row.
LEMMA ConsumeKeeps ==
  ASSUME Typed, IInv, NEW p \in Replicas, Consume(p)
  PROVE  IInv'
<1>1. ~Replayed(req[p], at[p])
  BY DEF Consume, CanConsume
<1>2. UNCHANGED <<clock, nonces, answered, lock, req, at>>
  BY DEF Consume, rows, locks
<1>3. pc' = [pc EXCEPT ![p] = "consumed"] /\ pc[p] = "checked"
  BY DEF Consume
<1> QED BY <1>1, <1>2, <1>3 DEF IInv, Replayed, Typed

\* The first check locks a row that nobody holds.
LEMMA LockKeeps ==
  ASSUME Typed, IInv, NEW p \in Replicas, Lock(p)
  PROVE  IInv'
<1>1. req[p] \in Requests /\ req[p].account \in Accounts
  BY AccountsAssumption DEF Lock, AtLock, Typed
<1>2. UNCHANGED <<clock, nonces, answered, req>>
  BY DEF Lock, rows
<1>3. ASSUME NEW q \in Replicas, pc'[q] \in {"checked", "consumed"}
      PROVE  /\ lock'[req'[q].account] = q /\ at'[q] <= clock'
             /\ pc'[q] = "consumed" => ~Replayed(req[q], at[q])'
  <2>1. CASE q = p
    BY <1>1, <1>2, <1>3, <2>1 DEF Lock, Typed, DatabaseNow
  <2>2. CASE q # p
    <3>1. pc'[q] = pc[q] /\ at'[q] = at[q] /\ lock[req[q].account] = q
      BY <1>3, <2>2 DEF Lock, Typed, IInv
    <3>2. req[q] \in Requests /\ req[q].account \in Accounts
      BY <1>3, <3>1, AccountsAssumption DEF Typed
    <3>3. req[q].account # req[p].account
      BY <3>1, AccountsAssumption DEF Lock
    <3>4. lock'[req[q].account] = q
      BY <1>1, <3>1, <3>2, <3>3 DEF Lock, Typed
    <3> QED BY <1>2, <1>3, <3>1, <3>4 DEF IInv, Replayed
  <2> QED BY <2>1, <2>2
<1> QED BY <1>2, <1>3 DEF IInv

\* A durable claim locks a row that nobody holds.
LEMMA BeginClaimKeeps ==
  ASSUME Typed, IInv, NEW p \in Replicas, BeginClaim(p)
  PROVE  IInv'
<1>1. req[p] \in Requests /\ req[p].account \in Accounts
  BY AccountsAssumption DEF BeginClaim, Typed
<1>2. UNCHANGED <<clock, nonces, answered, req, at>>
  BY DEF BeginClaim, rows
<1>3. ASSUME NEW q \in Replicas, pc'[q] \in {"checked", "consumed"}
      PROVE  /\ lock'[req'[q].account] = q /\ at'[q] <= clock'
             /\ pc'[q] = "consumed" => ~Replayed(req[q], at[q])'
  <2>1. q # p /\ pc'[q] = pc[q] /\ lock[req[q].account] = q
    BY <1>3 DEF BeginClaim, Typed, IInv
  <2>2. req[q] \in Requests /\ req[q].account \in Accounts
    BY <1>3, <2>1, AccountsAssumption DEF Typed
  <2>3. req[q].account # req[p].account
    BY <2>1, AccountsAssumption DEF BeginClaim
  <2>4. lock'[req[q].account] = q
    BY <1>1, <2>1, <2>2, <2>3 DEF BeginClaim, LockedClaim, Typed
  <2> QED BY <1>2, <1>3, <2>1, <2>4 DEF IInv, Replayed
<1> QED BY <1>2, <1>3 DEF IInv

\* The sweep deletes expired rows only, which no live request needs.
LEMMA SweepKeeps ==
  ASSUME Typed, IInv, NEW a \in Accounts, NEW n \in nonces[a], Sweep(a, n)
  PROVE  IInv'
<1>1. UNCHANGED <<clock, answered, lock, pc, req, at>>
  BY DEF Sweep, locks, local
<1>2. n.exp <= clock /\ n.exp \in Nat /\ clock \in Nat
  BY DEF Sweep, DatabaseNow, Typed, Rows
<1>3. \A b \in Accounts : nonces'[b] \subseteq nonces[b] /\ \A k \in nonces[b] : k # n => k \in nonces'[b]
  BY DEF Sweep, Typed
<1>4. ASSUME NEW r \in Requests, answered[r] # 0, clock < r.expires
      PROVE  \E k \in nonces'[r.account] : k.nonce = r.nonce /\ k.exp >= r.expires
  <2>1. PICK k \in nonces[r.account] : k.nonce = r.nonce /\ k.exp >= r.expires
    BY <1>4 DEF IInv
  <2>2. r.account \in Accounts /\ r.expires \in Nat
    BY AccountsAssumption
  <2>3. k # n
    BY <1>2, <1>4, <2>1, <2>2
  <2> QED BY <1>3, <2>1, <2>2, <2>3
<1>5. ASSUME NEW q \in Replicas, pc[q] = "consumed"
      PROVE  ~Replayed(req[q], at[q])'
  <2>1. req[q].account \in Accounts
    BY <1>5, AccountsAssumption DEF Typed
  <2> QED BY <1>1, <1>3, <1>5, <2>1 DEF IInv, Replayed
<1> QED BY <1>1, <1>4, <1>5 DEF IInv

LEMMA IInvStep == Typed /\ IInv /\ [Next]_vars => IInv'
<1> SUFFICES ASSUME Typed, IInv, [Next]_vars PROVE IInv'
  OBVIOUS
<1>1. ASSUME NEW p \in Replicas, NEW r \in Requests, Verify(p, r) PROVE IInv'
  BY <1>1 DEF Verify, rows, locks, IInv, Typed, Replayed
<1>2. ASSUME NEW p \in Replicas, TakeEnrollment(p) PROVE IInv'
  BY <1>2 DEF TakeEnrollment, rows, IInv, Typed, Replayed
<1>3. ASSUME NEW p \in Replicas, Ends(p, "idle"), UNCHANGED <<clock, nonces, answered>>
      PROVE  IInv'
  BY <1>3, EndsKeeps
<1>4. ASSUME NEW p \in Replicas, Refuse(p) \/ CommitClaim(p) \/ Finish(p) \/ Crash(p) PROVE IInv'
  BY <1>3, <1>4 DEF Refuse, CommitClaim, Finish, Crash, rows
<1>5. ASSUME NEW p \in Replicas, NEW g \in Grants, NEW l \in Levels, NEW u \in 1..MaxTime,
             RegisterBot(p, g, l, u)
      PROVE  IInv'
  BY <1>3, <1>5 DEF RegisterBot
<1>6. ASSUME NEW p \in Replicas, NEW g \in Grants, RevokeBot(p, g) PROVE IInv'
  BY <1>3, <1>6 DEF RevokeBot
<1>7. ASSUME NEW a \in Wallets, ObserveAuthority(a) PROVE IInv'
  BY <1>7 DEF ObserveAuthority, locks, local, IInv, Replayed
<1>8. ASSUME Tick PROVE IInv'
  <2>1. UNCHANGED <<nonces, lock, pc, req, at, answered>> /\ clock' = clock + 1
    BY <1>8 DEF Tick, rows, locks, local
  <2>2. \A r \in Requests : r.expires \in Nat /\ (clock' < r.expires => clock < r.expires)
    BY <2>1, AccountsAssumption DEF Typed
  <2>3. \A p \in Replicas : at[p] <= clock => at'[p] <= clock'
    BY <2>1 DEF Typed
  <2> QED BY <2>1, <2>2, <2>3 DEF IInv, Replayed
<1>9. ASSUME UNCHANGED vars PROVE IInv'
  BY <1>9 DEF vars, rows, locks, local, IInv, Replayed
<1> QED BY <1>1, <1>2, <1>4, <1>5, <1>6, <1>7, <1>8, <1>9, LockKeeps, ConsumeKeeps, CompleteKeeps,
           BeginClaimKeeps, SweepKeeps DEF Next

LEMMA InitHolds == Init => Typed /\ IInv
<1> SUFFICES ASSUME Init PROVE Typed /\ IInv
  OBVIOUS
<1>1. Typed
  BY DEF Init, Typed, Stages, NoDraft
<1> QED BY <1>1 DEF Init, IInv

\* A signed request is admitted at most once, on any number of replicas and
\* whatever expires, is swept or crashes (postgres.ts consumeNonce,
\* cleanupExpiredNonces).
THEOREM RequestsAreAdmittedOnce == Spec => []AdmittedOnce
<1>1. IInv => AdmittedOnce
  BY DEF IInv, AdmittedOnce
<1> QED BY <1>1, InitHolds, TypedStep, IInvStep, PTL DEF Spec

-----------------------------------------------------------------------------
(* Durable work is accepted under standing authority.                       *)

\* What BeginClaim checked of a request's grant still holds.
Stands(r) ==
  r.grant # None =>
    /\ grants[r.grant] # None /\ grants[r.grant].account = r.account
    /\ grants[r.grant].revoked = None
    /\ IsApp(r.grant) => Settled(r.account, r.grant)

\* A claim in progress holds its account's row, and its authority stands. An
\* application's grant stays with the account it was issued for.
ClaimInv ==
  /\ DOMAIN grants = Grants /\ DOMAIN authority = Wallets
  /\ \A g \in AppGrants : grants[g].account = AppAccount[g]
  /\ \A p \in Replicas : pc[p] = "claiming" => lock[req[p].account] = p /\ Stands(req[p])

\* An unlocked account has no claim in progress.
LEMMA UnlockedIsUnclaimed ==
  ASSUME Typed, ClaimInv, NEW p \in Replicas, pc[p] = "claiming", NEW a, lock[a] = None
  PROVE  req[p].account # a
BY AccountsAssumption DEF ClaimInv

\* The grant of a claim in progress, and its account's authority, are as they
\* were after a step that leaves those rows alone.
LEMMA StandsKept ==
  ASSUME Typed, NEW r \in Requests, Stands(r),
         r.grant # None => grants'[r.grant] = grants[r.grant],
         r.grant # None /\ IsApp(r.grant) => authority'[r.account] = authority[r.account]
  PROVE  Stands(r)'
BY DEF Stands, Settled, IsApp

\* A transaction that ends disturbs no claim but its own.
LEMMA EndsKeepsClaims ==
  ASSUME Typed, ClaimInv, NEW p \in Replicas, NEW to \in {"idle", "admitted"}, Ends(p, to),
         NEW q \in Replicas, pc'[q] = "claiming"
  PROVE  /\ pc[q] = "claiming" /\ req'[q] = req[q] /\ req[q] \in Requests
         /\ lock'[req[q].account] = q
<1>1. q # p /\ pc[q] = "claiming"
  BY DEF Ends, Typed
<1>2. req'[q] = req[q] /\ req[q] \in Requests
  BY <1>1 DEF Ends, Typed
<1>3. req[q].account \in Accounts /\ lock[req[q].account] = q
  BY <1>1, <1>2, AccountsAssumption DEF ClaimInv
<1> QED BY <1>1, <1>2, <1>3 DEF Ends, Unlocked

LEMMA ClaimInvStep == Typed /\ ClaimInv /\ [Next]_vars => ClaimInv'
<1> SUFFICES ASSUME Typed, ClaimInv, [Next]_vars PROVE ClaimInv'
  OBVIOUS
<1>1. ASSUME NEW p \in Replicas, NEW r \in Requests, Verify(p, r) PROVE ClaimInv'
  BY <1>1 DEF Verify, rows, locks, ClaimInv, Typed, Stands, Settled
<1>2. ASSUME NEW p \in Replicas, TakeEnrollment(p) PROVE ClaimInv'
  BY <1>2 DEF TakeEnrollment, rows, ClaimInv, Typed, Stands, Settled
<1>3. ASSUME NEW p \in Replicas, Lock(p) PROVE ClaimInv'
  <2>1. req[p] \in Requests /\ req[p].account \in Accounts
    BY <1>3, AccountsAssumption DEF Lock, AtLock, Typed
  <2>2. UNCHANGED <<grants, authority, req>>
    BY <1>3 DEF Lock, rows
  <2>3. ASSUME NEW q \in Replicas, pc'[q] = "claiming"
        PROVE  lock'[req[q].account] = q /\ Stands(req[q])'
    <3>1. q # p /\ pc[q] = "claiming"
      BY <1>3, <2>3 DEF Lock, Typed
    <3>2. req[q] \in Requests /\ req[q].account \in Accounts
      BY <3>1, AccountsAssumption DEF Typed
    <3>3. req[q].account # req[p].account
      BY <1>3, <3>1, UnlockedIsUnclaimed DEF Lock
    <3>4. lock'[req[q].account] = q
      BY <1>3, <2>1, <3>1, <3>2, <3>3 DEF Lock, Typed, ClaimInv
    <3> QED BY <2>2, <3>1, <3>2, <3>4 DEF ClaimInv, Stands, Settled
  <2> QED BY <2>2, <2>3 DEF ClaimInv
<1>4. ASSUME NEW p \in Replicas, Consume(p) PROVE ClaimInv'
  BY <1>4 DEF Consume, rows, locks, ClaimInv, Typed, Stands, Settled
<1>5. ASSUME NEW p \in Replicas, NEW to \in {"idle", "admitted"}, Ends(p, to),
             UNCHANGED <<grants, authority>>
      PROVE  ClaimInv'
  BY <1>5, EndsKeepsClaims, StandsKept DEF ClaimInv
<1>6. ASSUME NEW p \in Replicas, Complete(p) PROVE ClaimInv'
  BY <1>5, <1>6 DEF Complete
<1>7. ASSUME NEW p \in Replicas, Refuse(p) \/ CommitClaim(p) \/ Finish(p) \/ Crash(p) PROVE ClaimInv'
  BY <1>5, <1>7 DEF Refuse, CommitClaim, Finish, Crash, rows
<1>8. ASSUME NEW p \in Replicas, NEW g \in Grants, NEW l \in Levels, NEW u \in 1..MaxTime,
             RegisterBot(p, g, l, u)
      PROVE  ClaimInv'
  <2>1. Ends(p, "idle") /\ grants[g] = None /\ authority' = authority /\ DOMAIN grants' = Grants
    BY <1>8 DEF RegisterBot, ClaimInv
  <2>2. ~IsApp(g) /\ \A h \in Grants : h # g => grants'[h] = grants[h]
    BY <1>8 DEF RegisterBot, ClaimInv
  <2>3. ASSUME NEW q \in Replicas, pc'[q] = "claiming"
        PROVE  lock'[req'[q].account] = q /\ Stands(req[q])'
    <3>1. /\ pc[q] = "claiming" /\ req'[q] = req[q] /\ req[q] \in Requests
          /\ lock'[req[q].account] = q
      BY <2>1, <2>3, EndsKeepsClaims
    <3>2. Stands(req[q])
      BY <3>1 DEF ClaimInv
    <3>3. req[q].grant # None => grants'[req[q].grant] = grants[req[q].grant]
      BY <2>1, <2>2, <3>1, <3>2, AccountsAssumption DEF Stands
    <3> QED BY <2>1, <3>1, <3>2, <3>3, StandsKept
  <2> QED BY <2>1, <2>2, <2>3, AccountsAssumption DEF ClaimInv, IsApp
<1>9. ASSUME NEW p \in Replicas, NEW g \in Grants, RevokeBot(p, g) PROVE ClaimInv'
  <2>1. Ends(p, "idle") /\ authority' = authority /\ DOMAIN grants' = Grants
    BY <1>9 DEF RevokeBot, ClaimInv
  <2>2. ~IsApp(g) /\ \A h \in Grants : h # g => grants'[h] = grants[h]
    BY <1>9 DEF RevokeBot, ClaimInv, Held, IsApp
  <2>3. lock[grants[g].account] = None
    BY <1>9 DEF RevokeBot, Held
  <2>4. ASSUME NEW q \in Replicas, pc'[q] = "claiming"
        PROVE  lock'[req'[q].account] = q /\ Stands(req[q])'
    <3>1. /\ pc[q] = "claiming" /\ req'[q] = req[q] /\ req[q] \in Requests
          /\ lock'[req[q].account] = q
      BY <2>1, <2>4, EndsKeepsClaims
    <3>2. Stands(req[q])
      BY <3>1 DEF ClaimInv
    <3>3. req[q].grant # None => req[q].grant # g
      BY <2>3, <3>1, <3>2, UnlockedIsUnclaimed DEF Stands
    <3>4. req[q].grant # None => grants'[req[q].grant] = grants[req[q].grant]
      BY <2>2, <3>1, <3>3, AccountsAssumption
    <3> QED BY <2>1, <3>1, <3>2, <3>4, StandsKept
  <2> QED BY <2>1, <2>2, <2>4, AccountsAssumption DEF ClaimInv, IsApp
<1>10. ASSUME NEW p \in Replicas, BeginClaim(p) PROVE ClaimInv'
  <2>1. req[p] \in Requests /\ req[p].account \in Accounts
    BY <1>10, AccountsAssumption DEF BeginClaim, Typed
  <2>2. UNCHANGED <<grants, authority, req>>
    BY <1>10 DEF BeginClaim, rows
  <2>3. lock' = [lock EXCEPT ![req[p].account] = p] /\ lock[req[p].account] = None
    BY <1>10 DEF BeginClaim, LockedClaim
  <2>4. lock'[req[p].account] = p
    BY <2>1, <2>3 DEF Typed
  <2>5. Stands(req[p])
    BY <1>10 DEF BeginClaim, ActorActive, PrincipalFor, Stands
  <2>6. ASSUME NEW q \in Replicas, q # p, pc'[q] = "claiming"
        PROVE  lock'[req[q].account] = q /\ Stands(req[q])
    <3>1. pc[q] = "claiming"
      BY <1>10, <2>6 DEF BeginClaim, Typed
    <3>2. req[q].account # req[p].account
      BY <2>3, <3>1, UnlockedIsUnclaimed
    <3>3. req[q] \in Requests /\ req[q].account \in Accounts
      BY <3>1, AccountsAssumption DEF Typed
    <3> QED BY <2>1, <2>3, <3>1, <3>2, <3>3 DEF ClaimInv, Typed
  <2>7. \A q \in Replicas : pc'[q] = "claiming" => lock'[req[q].account] = q /\ Stands(req[q])
    BY <2>4, <2>5, <2>6
  <2> QED BY <2>2, <2>7 DEF ClaimInv, Stands, Settled
<1>11. ASSUME NEW a \in Wallets, ObserveAuthority(a) PROVE ClaimInv'
  <2>1. UNCHANGED <<grants, lock, pc, req>> /\ lock[a] = None
    BY <1>11 DEF ObserveAuthority, locks, local
  <2>2. DOMAIN authority' = Wallets /\ \A b \in Wallets : b # a => authority'[b] = authority[b]
    BY <1>11 DEF ObserveAuthority, ClaimInv
  <2>3. ASSUME NEW q \in Replicas, pc[q] = "claiming"
        PROVE  Stands(req[q])'
    <3>1. Stands(req[q]) /\ req[q] \in Requests
      BY <2>3 DEF ClaimInv, Typed
    <3>2. req[q].account # a
      BY <2>1, <2>3, UnlockedIsUnclaimed
    <3>3. req[q].grant # None /\ IsApp(req[q].grant) => req[q].account \in Wallets
      BY <3>1 DEF ClaimInv, IsApp, Wallets, Stands
    <3> QED BY <2>1, <2>2, <3>1, <3>2, <3>3, StandsKept
  <2> QED BY <2>1, <2>2, <2>3 DEF ClaimInv
<1>12. ASSUME UNCHANGED <<grants, authority, lock, pc, req>> PROVE ClaimInv'
  BY <1>12 DEF ClaimInv, Stands, Settled
<1>13. ASSUME NEW a \in Accounts, NEW n \in nonces[a], Sweep(a, n) PROVE ClaimInv'
  BY <1>12, <1>13 DEF Sweep, locks, local
<1>14. ASSUME Tick PROVE ClaimInv'
  BY <1>12, <1>14 DEF Tick, rows, locks, local
<1>15. ASSUME UNCHANGED vars PROVE ClaimInv'
  BY <1>12, <1>15 DEF vars, rows, locks, local
<1> QED BY <1>1, <1>2, <1>3, <1>4, <1>6, <1>7, <1>8, <1>9, <1>10, <1>11, <1>13, <1>14, <1>15 DEF Next

LEMMA InitClaims == Init => ClaimInv
BY AccountsAssumption DEF Init, ClaimInv, IsApp

\* Durable work is never accepted for a revoked grant, nor for an application
\* whose account's authority was replaced or is unverified, for any number of
\* replicas (store.ts assertRestActorActive under the account's row lock).
THEOREM ClaimsStandUnderAuthority == Spec => ClaimedUnderAuthority
<1> DEFINE Claimed == \A c \in claims' \ claims :
                        c.grant # None =>
                          /\ grants[c.grant].revoked = None
                          /\ IsApp(c.grant) => Settled(c.account, c.grant)
<1>1. Typed /\ ClaimInv /\ [Next]_vars => [Claimed]_vars
  <2> SUFFICES ASSUME Typed, ClaimInv, Next PROVE Claimed
    OBVIOUS
  <2>1. ASSUME claims' = claims PROVE Claimed
    BY <2>1
  <2>2. ASSUME NEW p \in Replicas, CommitClaim(p) PROVE Claimed
    <3>1. Stands(req[p]) /\ claims' = claims \cup {req[p]}
      BY <2>2 DEF CommitClaim, ClaimInv
    <3> QED BY <3>1 DEF Stands
  <2>3. claims' = claims \/ \E p \in Replicas : CommitClaim(p)
    BY DEF Next, Verify, TakeEnrollment, Lock, Consume, Complete, Refuse, RegisterBot, RevokeBot,
           BeginClaim, Finish, Crash, ObserveAuthority, Sweep, Tick
  <2> QED BY <2>1, <2>2, <2>3
<1> QED BY <1>1, InitHolds, InitClaims, TypedStep, ClaimInvStep, PTL
        DEF Spec, ClaimedUnderAuthority
=============================================================================
