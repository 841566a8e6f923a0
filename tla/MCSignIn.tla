------------------------------ MODULE MCSignIn ------------------------------
EXTENDS SignIn, TLC
MCSymmetry ==
  Permutations(People) \cup Permutations(Invites) \cup Permutations(Nonces)
    \cup Permutations(Flights)
=============================================================================
