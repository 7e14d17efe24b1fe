\* The gauge of the gateway against the requests being proxied.
SPECIFICATION RequestSpec
CONSTANTS
  c1 = c1  c2 = c2
  Callers = {c1, c2}
  Requests = {c1, c2}
  None = None
  AuthCalls = 2
  MaxIssued = 2
  MaxConnections = 1
CHECK_DEADLOCK FALSE
INVARIANT InflightIsProxied
