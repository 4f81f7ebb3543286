--------------------------- MODULE MCSponsorDeploys --------------------------
\* Small instances of SponsorDeploys.
EXTENDS SponsorDeploys

OneChain == {1}
TwoChains == {1, 2}
EthereumOnly == {9}
NoOthers == {}

Either == {FALSE, TRUE}
Unnamed == {FALSE}

=============================================================================
