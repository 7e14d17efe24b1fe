\* Every command, one failure, a keyring that comes up and breaks down.
SPECIFICATION AuthSpec
CONSTANTS
  alice = alice  c1 = c1  c2 = c2
  r1 = r1  r2 = r2  r3 = r3  r4 = r4
  Logins = {alice}
  User = alice
  Allowlist = {}
  Tokens = {r1, r2, r3}
  RefreshSeconds = 1
  MaxTime = 1
  None = None
  Clients = {c1, c2}
  Commands = {"login", "refresh", "logout", "invite", "revoke", "tick"}
  RingUp = FALSE
  MaxFlips = 2
  MaxFaults = 1
CHECK_DEADLOCK FALSE
SYMMETRY Symmetry
INVARIANTS AuthTypeOK InvitedOnly OneLiveTokenPerSession SessionNotLost
PROPERTY SessionsStayOver
