\* One launcher, two bundles, no interruption.
SPECIFICATION FairUploadSpec
CONSTANTS
  h1 = h1  h2 = h2  alice = alice  p1 = p1  p2 = p2
  Logins = {alice}
  Traces = {1, 2}
  Versions <- MCVersions
  Size <- MCSize
  PartBytes = 2
  Handlers = {h1}
  Operations = {"create", "part", "complete"}
  None = None
  Launchers = {p1}
  MaxTime = 2
  MaxFaults = 0
PROPERTY EveryBundleUploaded
