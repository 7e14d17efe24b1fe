\* Two concurrent requests of any kind, of two logins, on one trace of two parts.
SPECIFICATION Spec
CONSTANTS
  h1 = h1  h2 = h2
  alice = alice  bob = bob
  t1 = t1  v1 = v1
  Logins = {alice, bob}
  Traces = {t1}
  Versions = {v1}
  Size <- MCSize
  PartBytes = 2
  Handlers = {h1, h2}
  Operations = {"create", "part", "complete", "delete"}
  None = None
SYMMETRY Symmetry
INVARIANTS TypeOK RowHasObject SessionHasConsent CompleteHasAllParts
PROPERTY CompletionIsFinal
