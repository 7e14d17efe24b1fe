\* An item injected while a turn finishes.
SPECIFICATION Spec
CONSTANTS
  t1 = t1  t2 = t2  t3 = t3  t4 = t4
  s1 = s1  s2 = s2  s3 = s3  s4 = s4
  u1 = u1  u2 = u2  u3 = u3  v1 = v1  m1 = m1  m2 = m2  q1 = q1  q2 = q2  i1 = i1
  Turns = {t1, t2}
  States = {s1, s2, s3}
  Submission = Submission  Guardian = Guardian  None = None
  Users = {u1}
  Idlers = {}
  Triggers = {}
  Quiets = {}
  Blockable = {}
  Injects = {i1}
  Controls = {}
CHECK_DEADLOCK FALSE
INVARIANT InjectedKept
