\* A logout beside a refresh in another process; the keyring works throughout.
SPECIFICATION LogoutSpec
CONSTANTS
  alice = alice  c1 = c1  c2 = c2
  r1 = r1  r2 = r2  r3 = r3  r4 = r4
  Logins = {alice}
  User = alice
  Allowlist = {alice}
  Tokens = {r1, r2}
  RefreshSeconds = 2
  MaxTime = 0
  None = None
  Clients = {c1, c2}
  Commands = {"login", "refresh", "logout"}
  RingUp = TRUE
  MaxFlips = 0
  MaxFaults = 0
CHECK_DEADLOCK FALSE
SYMMETRY Symmetry
INVARIANT LogoutRemovesSession
