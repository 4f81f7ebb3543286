------------------------- MODULE MCWalletAuthority -------------------------
\* Small instances of WalletAuthority.
EXTENDS WalletAuthority

CONSTANTS w1, s1, g1

=============================================================================
