------------------------------ MODULE MCRenewal ------------------------------
EXTENDS Renewal, TLC

CONSTANTS mail, maps

MCTwoApps == {mail, maps}
Symmetry == Permutations(MCTwoApps)
=============================================================================
