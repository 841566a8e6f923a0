SPECIFICATION SignInSpec
CONSTANTS
  People = {ann, bob}
  Nonces = {n1, n2}
  Invites = {i1, i2}
  Flights = {f1, f2, f3}
  None = None
  MaxKeys = 1
  MaxLapses = 1
  MaxRestarts = 1
SYMMETRY MCSymmetry
INVARIANTS
  AccountsAreSound
  InviteAdmitsOne
  SessionsLast
CHECK_DEADLOCK FALSE
