\* Two questions of one turn.
SPECIFICATION ApprovalSpec
CONSTANTS
  t1 = t1  t2 = t2  t3 = t3  s1 = s1  s2 = s2  s3 = s3  s4 = s4
  u1 = u1  u2 = u2  i1 = i1  q1 = q1  q2 = q2  a1 = a1  p1 = p1  r1 = r1  k1 = k1  k2 = k2
  Turns = {t1, t2, t3}
  States = {s1, s2, s3, s4}
  Submission = Submission  Guardian = Guardian  None = None
  Users = {u1, u2}
  Idlers = {}
  Triggers = {}
  Quiets = {q1, q2}
  Blockable = {u2}
  Injects = {i1}
  Controls = {"interrupt", "compact", "guardian", "shutdown", "stop_hook"}
  Commands = {a1}
  Permissions = {p1}
  Reviewed = {r1}
  Questions = {k1, k2}
  Workloads <- MCWorkloads
CHECK_DEADLOCK FALSE
INVARIANT OwnQuestionAnswered
