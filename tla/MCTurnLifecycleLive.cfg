\* Four workloads run fairly: mail that starts turns, input, interrupts, the guardian.
SPECIFICATION LiveSpec
CONSTANTS
  t1 = t1  t2 = t2  t3 = t3  t4 = t4
  s1 = s1  s2 = s2  s3 = s3  s4 = s4
  u1 = u1  u2 = u2  u3 = u3  v1 = v1  m1 = m1  m2 = m2  q1 = q1  q2 = q2  i1 = i1
  Turns = {t1, t2, t3}
  States = {s1, s2, s3, s4}
  Submission = Submission  Guardian = Guardian  None = None
  Users = {u1}
  Idlers = {v1}
  Triggers = {m1, m2}
  Quiets = {q1}
  Blockable = {v1}
  Injects = {}
  Controls = {"start_hook", "stop_hook", "interrupt", "compact", "guardian", "shutdown"}
CHECK_DEADLOCK FALSE
INVARIANTS ReservationHeld NoItemLost
PROPERTIES OwnTaskTaken TurnsTakeTurns TriggerDelivered EveryTurnEnds
