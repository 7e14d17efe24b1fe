\* Two launchers on one spool and one upload cache, without any failure.
SPECIFICATION UploadSpec
CONSTANTS
  h1 = h1  h2 = h2  alice = alice  p1 = p1  p2 = p2
  Logins = {alice}
  Traces = {1}
  Versions <- MCVersions
  Size <- MCSize
  PartBytes = 2
  Handlers = {h1, h2}
  Operations = {"create", "part", "complete"}
  None = None
  Launchers = {p1, p2}
  MaxTime = 2
  MaxFaults = 0
SYMMETRY Symmetry
INVARIANT CompleteMatchesHash
