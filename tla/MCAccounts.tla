----------------------------- MODULE MCAccounts -----------------------------
(* Instances of Accounts for TLC.                                          *)
EXTENDS Accounts, TLC

CONSTANTS alice, bob, carol, bot, app

Signed(kind, account, grant, nonce, issued, expires) ==
  [kind |-> kind, account |-> account, grant |-> grant,
   signer |-> IF grant = None THEN account ELSE grant,
   nonce |-> nonce, level |-> 2, issued |-> issued, expires |-> expires]

\* Two enrollments race for the last account. Alice's owner registers a bot and
\* revokes it; the bot and an application claim work.
AliceAndBot ==
  {Signed("enroll", bob, None, 1, 0, 1), Signed("enroll", carol, None, 1, 0, 1),
   Signed("register", alice, None, 1, 0, 1), Signed("revoke", alice, None, 2, 1, 2),
   Signed("claim", alice, bot, 3, 1, 2), Signed("claim", alice, app, 4, 0, 2)}

AppOfAlice == [g \in {app} |-> alice]
Symmetry == Permutations(Replicas) \cup Permutations({bob, carol})
=============================================================================
