\* A delete beside the upload of a part, of one login.
SPECIFICATION Spec
CONSTANTS
  h1 = h1  h2 = h2
  alice = alice  bob = bob
  t1 = t1  v1 = v1
  Logins = {alice}
  Traces = {t1}
  Versions = {v1}
  Size <- MCSize
  PartBytes = 2
  Handlers = {h1, h2}
  Operations = {"create", "part", "delete"}
  None = None
SYMMETRY Symmetry
INVARIANT DeletedLeavesNothing
