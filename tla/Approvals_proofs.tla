-------------------------- MODULE Approvals_proofs --------------------------
(***************************************************************************)
(* What holds of Approvals for any number of turns, turn states, items and *)
(* calls, while no trigger mail competes for the turns and no finished     *)
(* turn takes the task of another.  The turns keep the invariants of       *)
(* TurnLifecycle_proofs although an answer may interrupt them.  A turn     *)
(* state belongs to one turn from the start of its task to the end of its  *)
(* release or abort, so what a call puts into the state of its turn is     *)
(* found there by its answer, is dropped after the terminal event of its   *)
(* turn and is in force in no other turn.                                  *)
(***************************************************************************)
EXTENDS Approvals, TurnLifecycle_proofs

\* The sessions the theorems are about: no mail asks for a turn, because an
\* answer may abort one.  With a guardian the theorems also assume Undisturbed
\* of TurnLifecycle_proofs (turns_takeover).
Calm == Triggers = {}

\* Such sessions are among those of TurnLifecycle_proofs.
LEMMA CalmUncontended == Calm => Uncontended
BY DEF Calm, Uncontended

\* What the assumption on the constants says of calls.
LEMMA CallKinds ==
  /\ None \notin Calls /\ Calls \intersect Turns = {}
  /\ Commands \subseteq Calls /\ Permissions \subseteq Calls /\ Reviewed \subseteq Calls /\ Questions \subseteq Calls
  /\ Reviewed \intersect (Commands \union Permissions \union Questions) = {}
  /\ Questions \intersect (Commands \union Permissions) = {}
BY CallAssumption DEF Calls

-----------------------------------------------------------------------------
(* The turn states and their turns *)

\* Turn state s is that of turn t: of the running turn, of one that finishes,
\* or of one that the submission loop or the guardian aborts.
Owns(t, s) ==
  \/ active.task = t /\ active.state = s
  \/ th[t].at \in Closing /\ th[t].st = s
  \/ /\ t \in cancelled
     /\ \E x \in Threads : th[x].at \in Aborts /\ th[x].victim = t /\ th[x].st = s

\* Turn t is aborted and has sent its terminal event.
Ended(t) == t \in cancelled /\ ends[t] = 1

\* What every step of the turns does to the calls: a turn keeps its turn state
\* until it is released or its abort is over, and then the state is freed.
Handed ==
  /\ cancelled \subseteq cancelled'
  /\ \A t \in Turns : ends[t] <= ends'[t]
  /\ \A t \in Turns : th[t].at = "answer" /\ t \notin cancelled => th'[t].at # "done"
  /\ \A t \in Turns, s \in States : Owns(t, s) =>
       \/ Owns(t, s)'
       \/ s \notin Referenced' /\ (th[t].at \in Closing \/ Ended(t))

\* A step that gives no turn state away.
Mild ==
  /\ active.task # None => active' = active
  /\ cancelled' = cancelled
  /\ \A t \in Turns : ends[t] <= ends'[t]
  /\ \A t \in Turns : th[t].at = "answer" /\ t \notin cancelled => th'[t].at # "done"
  /\ \A t \in Turns : th[t].at \in Closing => th'[t].at \in Closing /\ th'[t].st = th[t].st
  /\ \A x \in Threads : th[x].at \in Aborts =>
       th'[x].at \in Aborts /\ th'[x].victim = th[x].victim /\ th'[x].st = th[x].st

\* Such a step hands the turn states on.
LEMMA MildHands == ASSUME Mild PROVE Handed
<1>1. ASSUME NEW t \in Turns, NEW s \in States, Owns(t, s) PROVE Owns(t, s)'
  <2>1. t # None
    BY Distinct
  <2> QED
    BY <1>1, <2>1 DEF Owns, Mild
<1> QED
  BY <1>1 DEF Mild, Handed

\* One thread moves, from a point at which no turn state is given away.
LEMMA OneMild ==
  ASSUME Inv, NEW x \in Threads, th[x].at \notin Closing \union Aborts \union {"answer"},
         \A y \in Threads : y # x => th'[y] = th[y],
         active.task # None => active' = active,
         UNCHANGED <<cancelled, ends>>
  PROVE  Handed
<1>1. "answer" \notin Closing \union Aborts
  BY DEF Closing, Aborts
<1>2. \A t \in Turns : ends[t] <= ends'[t]
  BY Typed DEF Inv
<1>3. Mild
  BY <1>1, <1>2, Distinct DEF Mild
<1> QED
  BY <1>3, MildHands

\* No thread moves.
LEMMA NoneMild == ASSUME Inv, UNCHANGED <<th, active, cancelled, ends>> PROVE Handed
<1>2. \A t \in Turns : ends[t] <= ends'[t]
  BY Typed DEF Inv
<1>3. Mild
  BY <1>2, Kinds DEF Mild, Inv, Closing, Aborts
<1> QED
  BY <1>3, MildHands

\* The operations sent to the session.
LEMMA OperationHands ==
  ASSUME Inv, Operation PROVE Handed
<1> USE Distinct DEF Inv
<1>1. "idle" \notin Closing \union Aborts \union {"answer"}
  BY DEF Closing, Aborts
<1>2. ASSUME th[Submission].at = "idle", \A y \in Threads : y # Submission => th'[y] = th[y],
             UNCHANGED <<active, cancelled, ends>>
      PROVE  Handed
  BY <1>1, <1>2, OneMild
<1>3. ASSUME NEW r, th' = [th EXCEPT ![Submission] = r] PROVE \A y \in Threads : y # Submission => th'[y] = th[y]
  BY <1>3 DEF TInv, ThreadsOK
<1>4. ASSUME NEW u \in Users, StartTurn(u) PROVE Handed
  BY <1>2, <1>3, <1>4 DEF StartTurn, Submit, At, shared, turns
<1>5. ASSUME NEW u \in Users, Steer(u) \/ NotSteerable(u) PROVE Handed
  BY <1>5, NoneMild DEF Steer, NotSteerable, shared, turns
<1>6. ASSUME NEW u \in Idlers, IdleCheck(u) PROVE Handed
  <2>1. th[Submission].at = "idle" /\ UNCHANGED <<active, cancelled, ends>>
    BY <1>6 DEF IdleCheck, Submit, At, shared, turns
  <2> QED
    BY <1>2, <1>3, <1>6, <2>1 DEF IdleCheck
<1>7. ASSUME NEW m \in Mail, SendMail(m) PROVE Handed
  <2>1. th[Submission].at = "idle" /\ UNCHANGED <<active, cancelled, ends>>
    BY <1>7 DEF SendMail, Submit, At, turns
  <2>2. ASSUME Goto(Submission, "pending") PROVE Handed
    BY <1>2, <2>1, <2>2, Goes DEF TInv
  <2> QED
    BY <1>2, <1>7, <2>1, <2>2 DEF SendMail
<1>8. ASSUME NEW i \in Injects, Inject(i) PROVE Handed
  BY <1>8, NoneMild DEF Inject, turns
<1>9. ASSUME Interrupt \/ Compact \/ Shutdown PROVE Handed
  <2>1. th[Submission].at = "idle" /\ UNCHANGED <<active, cancelled, ends>>
    BY <1>9 DEF Interrupt, Compact, Shutdown, Submit, At, shared, turns
  <2> QED
    BY <1>2, <1>3, <1>9, <2>1 DEF Interrupt, Compact, Shutdown
<1>10. ASSUME NEW t \in Turns, GuardianTrips(t) PROVE Handed
  <2>1. th[Guardian].at = "idle" /\ UNCHANGED <<active, cancelled, ends>>
    BY <1>10 DEF GuardianTrips, At, shared, turns
  <2>2. \A y \in Threads : y # Guardian => th'[y] = th[y]
    BY <1>10 DEF GuardianTrips, TInv, ThreadsOK
  <2> QED
    BY <1>1, <2>1, <2>2, OneMild
<1> QED
  BY <1>4, <1>5, <1>6, <1>7, <1>8, <1>9, <1>10 DEF Operation

\* The steps that start a turn: a new task is put into a turn without one.
LEMMA StartingHands ==
  ASSUME Inv, NEW x \in Threads, Starting(x) PROVE Handed
<1> USE Distinct DEF Inv
<1>1. {"pending", "reserve", "gather", "gathermail", "deliver", "drain", "bind", "extend", "install"}
        \intersect (Closing \union Aborts \union {"answer"}) = {}
  BY DEF Closing, Aborts
<1>2. ASSUME NEW r, th' = [th EXCEPT ![x] = r] PROVE \A y \in Threads : y # x => th'[y] = th[y]
  BY <1>2 DEF TInv, ThreadsOK
<1>3. ASSUME NEW pt, Goto(x, pt) \/ Return(x) PROVE \A y \in Threads : y # x => th'[y] = th[y]
  BY <1>3, Goes, Returns DEF TInv
<1>4. CASE CheckMail(x)
  <2>1. th[x].at = "pending" /\ UNCHANGED <<active, cancelled, ends>>
    BY <1>4 DEF CheckMail, At, shared, turns
  <2> QED
    BY <1>1, <1>3, <1>4, <2>1, OneMild DEF CheckMail
<1>5. CASE Reserve(x)
  <2>1. th[x].at = "reserve" /\ (active # NoTurn => active' = active) /\ UNCHANGED <<cancelled, ends>>
    BY <1>5 DEF Reserve, At, turns
  <2>2. active.task # None => active # NoTurn
    BY DEF NoTurn
  <2>3. \A y \in Threads : y # x => th'[y] = th[y]
    BY <1>2, <1>3, <1>5 DEF Reserve
  <2> QED
    BY <1>1, <2>1, <2>2, <2>3, OneMild
<1>6. CASE Gather(x) \/ GatherMail(x) \/ Deliver(x) \/ Drain(x) \/ ExtendTurn(x)
  <2>1. /\ th[x].at \in {"gather", "gathermail", "deliver", "drain", "extend"}
        /\ UNCHANGED <<active, cancelled, ends>>
    BY <1>6 DEF Gather, GatherMail, Deliver, Drain, ExtendTurn, TakePending, DrainMailbox, At, turns
  <2>2. \A y \in Threads : y # x => th'[y] = th[y]
    BY <1>2, <1>3, <1>6 DEF Gather, GatherMail, Deliver, Drain, ExtendTurn, TakePending, DrainMailbox
  <2> QED
    BY <1>1, <2>1, <2>2, OneMild
<1>7. CASE Bind(x)
  <2>1. th[x].at = "bind" /\ active' = GetOrInsert /\ UNCHANGED <<cancelled, ends>>
    BY <1>7 DEF Bind, At, turns
  <2>2. active.task # None => active' = active
    BY <2>1 DEF GetOrInsert, NoTurn
  <2>3. \A y \in Threads : y # x => th'[y] = th[y]
    BY <1>2, <1>7 DEF Bind
  <2> QED
    BY <1>1, <2>1, <2>2, <2>3, OneMild
<1>8. CASE Install(x)
  <2> DEFINE t == CHOOSE u \in Unused : TRUE
  <2>1. th[x].at = "install" /\ "install" \in Claimed
    BY <1>8 DEF Install, At, Claimed
  <2>2. active.task = None
    BY <2>1 DEF Ordered, ClaimsOK
  <2>3. t \in Turns /\ kind[t] = "none"
    BY <1>8 DEF Install, Unused
  <2>4. /\ th' = [y \in Threads |->
                   CASE y = t -> [Thread("run", "done") EXCEPT !.input = th[x].input]
                     [] y = x -> Rest(x)
                     [] y = active.task -> Thread("done", "done")
                     [] OTHER -> th[y]]
        /\ UNCHANGED <<cancelled, ends>>
    BY <1>8 DEF Install
  <2> HIDE DEF t
  <2>5. th[t].at = "unborn"
    BY <2>3 DEF Ordered, TasksOK
  <2>6. \A y \in Threads : y # t /\ y # x => th'[y] = th[y]
    BY <2>2, <2>4
  <2>7. "unborn" \notin Closing \union Aborts \union {"answer"}
    BY DEF Closing, Aborts
  <2>8. \A u \in Turns : ends[u] <= ends'[u]
    BY <2>4, Typed
  <2>9. \A y \in Threads : th[y].at \in Closing \union Aborts \union {"answer"} => th'[y] = th[y]
    BY <1>1, <2>1, <2>5, <2>6, <2>7
  <2>10. Mild
    <3>1. "answer" # "done"
      OBVIOUS
    <3> QED
      BY <2>2, <2>4, <2>8, <2>9, <3>1 DEF Mild
  <2> QED
    BY <2>10, MildHands
<1> QED
  BY <1>4, <1>5, <1>6, <1>7, <1>8 DEF Starting

\* The steps that reserve an idle turn.
LEMMA IdlingHands ==
  ASSUME Inv, NEW x \in Threads, Idling(x) PROVE Handed
<1> USE Distinct DEF Inv
<1>1. {"idlereserve", "idlerecheck"} \intersect (Closing \union Aborts \union {"answer"}) = {}
  BY DEF Closing, Aborts
<1>2. \A y \in Threads : y # x => th'[y] = th[y]
  <2>1. ASSUME NEW r, th' = [th EXCEPT ![x] = r] PROVE \A y \in Threads : y # x => th'[y] = th[y]
    BY <2>1 DEF TInv, ThreadsOK
  <2>2. ASSUME NEW pt, Goto(x, pt) \/ Return(x) PROVE \A y \in Threads : y # x => th'[y] = th[y]
    BY <2>2, Goes, Returns DEF TInv
  <2> QED
    BY <2>1, <2>2 DEF Idling, IdleReserve, IdleRefused, IdleStarts
<1>3. th[x].at \in {"idlereserve", "idlerecheck"} /\ UNCHANGED <<cancelled, ends>>
  BY DEF Idling, IdleReserve, IdleRefused, IdleStarts, At, turns
<1>4. active.task # None => active' = active
  <2>1. active.task # None => active # NoTurn
    BY DEF NoTurn
  <2> QED
    BY <2>1 DEF Idling, IdleReserve, IdleRefused, IdleStarts, ClearReserved, shared
<1> QED
  BY <1>1, <1>2, <1>3, <1>4, OneMild

\* A turn state that neither the active turn nor a thread holds is freed.
LEMMA FreesState ==
  ASSUME NEW s \in States, active'.state # s, \A y \in Threads : th'[y].st # s
  PROVE  s \notin Referenced'
BY DEF Referenced

\* The holders of the turn state of a turn that finishes, or is aborted.
LEMMA SoleHolder ==
  ASSUME Inv, NEW x \in Threads, NEW y \in Threads, y # x,
         (x \in Turns /\ th[x].at \in Closing) \/ th[x].at \in Aborts
  PROVE  th[y].st # th[x].st
<1> USE Kinds, Distinct, Typed DEF Inv, Ordered
<1>1. th[x].st \in States
  OBVIOUS
<1>2. CASE th[y].at \in Starters
  <2>1. th[y].st # None => active.state = th[y].st
    BY <1>2 DEF ClaimsOK, Starters
  <2>2. CASE x \in Turns /\ th[x].at \in Closing
    BY <1>1, <1>2, <2>1, <2>2 DEF StatesOK
  <2>3. CASE th[x].at \in Aborts
    BY <1>1, <2>1, <2>3 DEF StatesOK
  <2> QED
    BY <2>2, <2>3
<1>3. CASE th[y].at \in Closing \union Aborts
  BY <1>1, <1>3 DEF StatesOK, PlacesOK
<1>4. CASE th[y].at \notin Starters \union Closing \union Aborts
  BY <1>1, <1>4 DEF StatesOK
<1> QED
  BY <1>2, <1>3, <1>4

\* The work of a task: it ends early only when its turn is aborted.
LEMMA SamplingHands ==
  ASSUME Inv, NEW t \in Turns, Sampling(t) PROVE Handed
<1> USE Distinct DEF Inv
<1>1. /\ th[t].at \in Working /\ UNCHANGED <<active, cancelled, ends>>
  BY DEF Sampling, Run, RunFails, StartHookStops, Sample, SampleMail, Record, FollowUp, FinalAnswer,
         EmptyAnswer, TurnFails, CheckPending, StopHookBlocks, RecheckPending, ObserveCancel,
         TakePending, DrainMailbox, At, Working, shared, turns
<1>2. /\ \A y \in Threads : y # t => th'[y] = th[y]
      /\ th[t].at = "answer" /\ t \notin cancelled => th'[t].at # "done"
  <2>1. ASSUME NEW r, th' = [th EXCEPT ![t] = r] PROVE \A y \in Threads : y # t => th'[y] = th[y]
    BY <2>1 DEF TInv, ThreadsOK
  <2>2. CASE Run(t) \/ RunFails(t) \/ StartHookStops(t) \/ Record(t)
    BY <2>1, <2>2 DEF Run, RunFails, StartHookStops, Record, At
  <2>3. CASE Sample(t) \/ SampleMail(t)
    <3>1. ASSUME NEW pt, Goto(t, pt) PROVE \A y \in Threads : y # t => th'[y] = th[y]
      BY <3>1, Goes DEF TInv
    <3> QED
      BY <2>1, <2>3, <3>1 DEF Sample, SampleMail, TakePending, DrainMailbox, At
  <2>4. CASE \/ FollowUp(t) \/ FinalAnswer(t) \/ EmptyAnswer(t) \/ TurnFails(t)
             \/ CheckPending(t) \/ StopHookBlocks(t) \/ RecheckPending(t)
    <3>1. PICK pt \in {"sample", "answer", "check", "recheck", "run", "finish"} : Goto(t, pt)
      BY <2>4 DEF FollowUp, FinalAnswer, EmptyAnswer, TurnFails, CheckPending, StopHookBlocks, RecheckPending
    <3> QED
      BY <3>1, Goes DEF TInv
  <2>5. CASE ObserveCancel(t)
    BY <2>1, <2>5 DEF ObserveCancel
  <2> QED
    BY <2>2, <2>3, <2>4, <2>5 DEF Sampling
<1>3. \A u \in Turns : ends[u] <= ends'[u]
  BY <1>1, Typed
<1>4. th[t].at \notin Closing \union Aborts
  BY <1>1 DEF Working, Closing, Aborts
<1>5. Mild
  BY <1>1, <1>2, <1>3, <1>4 DEF Mild
<1> QED
  BY <1>5, MildHands

\* The end of a turn: its task takes the turn state along and frees it.
LEMMA FinishingHands ==
  ASSUME Inv, OwnTask, NEW t \in Turns, Finishing(t) PROVE Handed
<1> USE Distinct DEF Inv
<1>0. {"finish", "taketask"} \intersect (Closing \union Aborts \union {"answer"}) = {}
      /\ Closing = {"takeinput", "complete", "release"} /\ "answer" \notin Closing
  BY DEF Closing, Aborts
<1>1. CASE Finish(t)
  <2>1. th[t].at = "finish" /\ UNCHANGED <<active, cancelled, ends>>
    BY <1>1 DEF Finish, At, shared, turns
  <2>2. \A y \in Threads : y # t => th'[y] = th[y]
    BY <1>1, Goes, Returns DEF Finish, TInv
  <2> QED
    BY <1>0, <2>1, <2>2, OneMild
<1>2. CASE TakeInput(t) \/ Complete(t)
  <2>1. /\ th[t].at \in Closing /\ th'[t].at \in Closing /\ th'[t].st = th[t].st
        /\ \A y \in Threads : y # t => th'[y] = th[y]
    <3>1. CASE TakeInput(t)
      BY <1>0, <3>1 DEF TakeInput, At, TInv, ThreadsOK, ThreadType
    <3>2. CASE Complete(t)
      <4>1. /\ th[t].at = "complete" /\ th'[t].at = "release" /\ th'[t].st = th[t].st
            /\ \A y \in Threads : y # t => th'[y] = th[y]
        BY <3>2, GoesOn DEF Complete, At, TInv
      <4> QED
        BY <1>0, <4>1
    <3> QED
      BY <1>2, <3>1, <3>2
  <2>2. active' = active /\ cancelled' = cancelled /\ \A u \in Turns : ends[u] <= ends'[u]
    BY <1>2, Typed DEF TakeInput, Complete, shared, turns
  <2>3. Mild
    BY <1>0, <2>1, <2>2, Kinds DEF Mild
  <2> QED
    BY <2>3, MildHands
<1>3. CASE TakeTask(t)
  <2>1. th[t].at = "taketask" /\ th[t].at \in Busy /\ UNCHANGED <<cancelled, ends>>
    BY <1>3 DEF TakeTask, At, Busy, turns
  <2>2. CASE active.task = None
    <3>1. Return(t) /\ active' = active
      BY <1>3, <2>2 DEF TakeTask
    <3> QED
      BY <1>0, <2>1, <3>1, Returns, OneMild DEF TInv
  <2>3. CASE active.task # None
    <3>1. active.task = t
      BY <1>3, <2>3 DEF OwnTask
    <3>2. /\ th'[t].at = "takeinput" /\ th'[t].st = active.state
          /\ \A y \in Threads : y # t => th'[y] = th[y]
      <4>1. /\ th[t] \in ThreadType
            /\ th' = [th EXCEPT ![t] = [th[t] EXCEPT !.at = "takeinput", !.st = active.state]]
        BY <1>3, <2>3 DEF TakeTask, TInv, ThreadsOK
      <4> QED
        BY <4>1 DEF TInv, ThreadsOK, ThreadType
    <3>3. ASSUME NEW u \in Turns, NEW s \in States, Owns(u, s) PROVE Owns(u, s)'
      BY <1>0, <2>1, <3>1, <3>2, <3>3 DEF Owns
    <3>4. \A u \in Turns : ends[u] <= ends'[u]
      BY <2>1, Typed
    <3> QED
      BY <2>1, <3>2, <3>3, <3>4 DEF Handed
  <2> QED
    BY <2>2, <2>3
<1>4. CASE Release(t)
  <2>1. th[t].at = "release" /\ th[t].at \in Closing /\ UNCHANGED <<cancelled, ends>>
    BY <1>0, <1>4 DEF Release, At, turns
  <2>2. th'[t].st = None /\ \A y \in Threads : y # t => th'[y] = th[y]
    BY <1>4 DEF Release, Return, Rest, Thread, TInv, ThreadsOK, ThreadType
  <2>3. active.task # None => active' = active
    BY <1>4 DEF Release
  <2>4. th[t].st \in States /\ active'.state # th[t].st
    <3>1. th[t].st \in States
      BY <2>1, Typed
    <3>2. active.task # None => active.state # th[t].st
      BY <2>1 DEF Ordered, StatesOK
    <3> QED
      BY <1>4, <3>1, <3>2 DEF Release, NoTurn
  <2>5. th[t].st \notin Referenced'
    <3>1. \A y \in Threads : th'[y].st # th[t].st
      BY <2>1, <2>2, <2>4, SoleHolder
    <3> QED
      BY <2>4, <3>1, FreesState
  <2>6. ASSUME NEW u \in Turns, NEW s \in States, Owns(u, s)
        PROVE  Owns(u, s)' \/ (s \notin Referenced' /\ th[u].at \in Closing)
    <3>1. CASE u = t /\ th[t].at \in Closing /\ th[t].st = s
      BY <2>1, <2>5, <3>1
    <3>2. CASE u # t \/ ~(th[t].at \in Closing /\ th[t].st = s)
      <4>1. th[t].at \notin Aborts
        BY <2>1, Kinds
      <4> QED
        BY <2>1, <2>2, <2>3, <2>6, <3>2, <4>1 DEF Owns
    <3> QED
      BY <3>1, <3>2
  <2>7. \A u \in Turns : ends[u] <= ends'[u]
    BY <2>1, Typed
  <2>8. \A u \in Turns : th[u].at = "answer" => th'[u].at = "answer"
    BY <2>1, <2>2
  <2> QED
    BY <2>1, <2>6, <2>7, <2>8 DEF Handed
<1> QED
  BY <1>1, <1>2, <1>3, <1>4 DEF Finishing

\* The turn state of a turn that is taken goes along to its abort.
LEMMA CancelHands ==
  ASSUME Inv, NEW x \in Threads, th[x].at \in {"take", "takeif"}, x \notin Turns,
         active.task # None, CancelTask(x), ends' = ends
  PROVE  Handed
<1> USE Distinct DEF Inv
<1>1. active.task \notin cancelled /\ active.task \in Turns
  BY Typed DEF Ordered, TasksOK
<1>2. /\ th' = [th EXCEPT ![x] = [th[x] EXCEPT !.at = "await", !.victim = active.task, !.st = active.state]]
      /\ cancelled' = cancelled \union {active.task}
  BY <1>1 DEF CancelTask
<1>3. /\ th'[x].at = "await" /\ th'[x].victim = active.task /\ th'[x].st = active.state
      /\ \A y \in Threads : y # x => th'[y] = th[y]
  BY <1>2 DEF TInv, ThreadsOK, ThreadType
<1>4. th[x].at \notin Closing \union Aborts
  BY Kinds
<1>5. ASSUME NEW u \in Turns, NEW s \in States, Owns(u, s) PROVE Owns(u, s)'
  <2>1. CASE active.task = u /\ active.state = s
    BY <1>2, <1>3, <2>1 DEF Owns, Aborts
  <2>2. CASE th[u].at \in Closing /\ th[u].st = s
    BY <1>3, <2>2 DEF Owns
  <2>3. CASE u \in cancelled /\ \E y \in Threads : th[y].at \in Aborts /\ th[y].victim = u /\ th[y].st = s
    BY <1>2, <1>3, <1>4, <2>3 DEF Owns
  <2> QED
    BY <1>5, <2>1, <2>2, <2>3 DEF Owns
<1>6. \A u \in Turns : ends[u] <= ends'[u]
  BY Typed
<1>7. \A u \in Turns : th'[u].at = th[u].at
  BY <1>3
<1> QED
  BY <1>2, <1>5, <1>6, <1>7 DEF Handed

\* An abort takes the turn state along and frees it.
LEMMA AbortingHands ==
  ASSUME Inv, NEW x \in Threads, Aborting(x) PROVE Handed
<1> USE Distinct DEF Inv
<1>0. {"take", "takeif"} \intersect (Closing \union Aborts \union {"answer"}) = {}
  BY DEF Closing, Aborts
<1>1. CASE TakeIfActive(x)
  <2>1. x \notin Turns /\ th[x].at = "takeif" /\ ends' = ends
    BY <1>1, Kinds DEF TakeIfActive, At, Ordered, PlacesOK, Busy, Working
  <2>2. CASE active.task = th[x].victim
    <3>1. th[x].victim # None
      BY <2>1 DEF TInv, ThreadsOK, Ready
    <3> QED
      BY <1>1, <2>1, <2>2, <3>1, CancelHands DEF TakeIfActive
  <2>3. CASE active.task # th[x].victim
    BY <1>0, <1>1, <2>1, <2>3, Returns, OneMild DEF TakeIfActive, TInv
  <2> QED
    BY <2>2, <2>3
<1>2. CASE TakeActive(x)
  <2>1. x \notin Turns /\ th[x].at = "take" /\ ends' = ends
    BY <1>2, Kinds DEF TakeActive, At, Ordered, PlacesOK
  <2>2. CASE active.task = None
    <3>1. cancelled' = cancelled /\ \A y \in Threads : y # x => th'[y] = th[y]
      BY <1>2, <2>2 DEF TakeActive, TInv, ThreadsOK
    <3> QED
      BY <1>0, <2>1, <2>2, <3>1, OneMild
  <2>3. CASE active.task # None
    BY <1>2, <2>1, <2>3, CancelHands DEF TakeActive
  <2> QED
    BY <2>2, <2>3
<1>3. CASE AwaitTask(x)
  <2> DEFINE v == th[x].victim
  <2>1. x \notin Turns /\ th[x].at = "await"
    BY <1>3, Kinds DEF AwaitTask, At, Ordered, PlacesOK
  <2>2. v \in cancelled /\ v \in Turns /\ th[v].at \in Busy \union {"done"}
    BY <2>1, Typed DEF Ordered, EndsOK
  <2>3. /\ th'[x].at = "clear" /\ th'[x].st = th[x].st /\ th'[x].victim = v
        /\ \A y \in Threads : y # x /\ y # v => th'[y] = th[y]
    BY <1>3, <2>1, <2>2 DEF AwaitTask, TInv, ThreadsOK, ThreadType
  <2>4. /\ active' = active /\ cancelled' = cancelled
        /\ \A u \in Turns : ends[u] <= ends'[u]
    BY <1>3, <2>2, Typed DEF AwaitTask, shared
  <2> HIDE DEF v
  <2>5. Mild
    BY <2>1, <2>2, <2>3, <2>4, Kinds DEF Mild, v
  <2> QED
    BY <2>5, MildHands
<1>4. CASE ClearPending(x)
  <2>1. x \notin Turns /\ th[x].at = "clear" /\ th[x].at \in Aborts /\ active.state # th[x].st
    BY <1>4, Kinds DEF ClearPending, At, Ordered, PlacesOK, StatesOK
  <2>2. th'[x].st = None /\ \A y \in Threads : y # x => th'[y] = th[y]
    BY <1>4, AfterAbortIs DEF ClearPending, TInv
  <2>3. UNCHANGED <<active, cancelled, ends>>
    BY <1>4 DEF ClearPending, turns
  <2>4. th[x].st \notin Referenced'
    <3>1. th[x].st \in States /\ active'.state # th[x].st
      BY <2>1, <2>3, Typed
    <3>2. \A y \in Threads : th'[y].st # th[x].st
      BY <2>1, <2>2, <3>1, SoleHolder
    <3> QED
      BY <3>1, <3>2, FreesState
  <2>5. ASSUME NEW u \in Turns, NEW s \in States, Owns(u, s)
        PROVE  Owns(u, s)' \/ (s \notin Referenced' /\ Ended(u))
    <3>1. CASE active.task = u /\ active.state = s
      BY <2>3, <3>1 DEF Owns
    <3>2. CASE th[u].at \in Closing /\ th[u].st = s
      BY <2>1, <2>2, <3>2 DEF Owns
    <3>3. ASSUME u \in cancelled, NEW y \in Threads, th[y].at \in Aborts, th[y].victim = u, th[y].st = s
          PROVE  Owns(u, s)' \/ (s \notin Referenced' /\ Ended(u))
      <4>1. CASE y = x
        BY <2>1, <2>4, <3>3, <4>1 DEF Ordered, EndsOK, Ended
      <4>2. CASE y # x
        BY <2>2, <2>3, <3>3, <4>2 DEF Owns
      <4> QED
        BY <4>1, <4>2
    <3> QED
      BY <2>5, <3>1, <3>2, <3>3 DEF Owns
  <2>6. \A u \in Turns : ends[u] <= ends'[u]
    BY <2>3, Typed
  <2>7. \A u \in Turns : th'[u] = th[u]
    BY <2>1, <2>2
  <2> QED
    BY <2>1, <2>3, <2>5, <2>6, <2>7 DEF Handed
<1> QED
  BY <1>1, <1>2, <1>3, <1>4 DEF Aborting

\* Every step of the turns hands their turn states on as it should.
LEMMA NextHands ==
  ASSUME Inv, Next, "guardian" \in Controls => [OwnTask]_vars PROVE Handed
<1>1. CASE UNCHANGED vars
  BY <1>1, NoneMild DEF vars, shared, turns
<1>2. CASE OwnTask
  BY <1>2, OperationHands, StartingHands, IdlingHands, AbortingHands, FinishingHands, SamplingHands DEF Next
<1> QED
  BY <1>1, <1>2, TakesOwnTask

-----------------------------------------------------------------------------
(* The turns, interrupted by answers *)

\* An answer that aborts acts on the turns as an interrupt does.
LEMMA AbortMoves ==
  ASSUME TInv, NEW c \in Calls, AnswerAbort(c)
  PROVE  /\ th[Submission].at = "idle" /\ th'[Submission].at = "take"
         /\ th'[Submission].st = th[Submission].st /\ th'[Submission].back = th[Submission].back
         /\ th'[Submission].items = th[Submission].items /\ th'[Submission].input = th[Submission].input
         /\ \A y \in Threads : y # Submission => th'[y] = th[y]
         /\ UNCHANGED <<active, pending, phase, mailbox, history, kind, cancelled, ends>>
         /\ UNCHANGED <<submitted, accepted, dropped, clash>>
<1>1. /\ th' = [th EXCEPT ![Submission] = [th[Submission] EXCEPT !.at = "take", !.reason = "Interrupted"]]
      /\ th[Submission] \in ThreadType /\ th \in [Threads -> ThreadType]
  BY Distinct DEF AnswerAbort, TInv, ThreadsOK
<1>2. /\ th'[Submission].at = "take" /\ th'[Submission].st = th[Submission].st
      /\ th'[Submission].back = th[Submission].back
      /\ th'[Submission].items = th[Submission].items /\ th'[Submission].input = th[Submission].input
      /\ \A y \in Threads : y # Submission => th'[y] = th[y]
  BY <1>1, Distinct DEF ThreadType
<1> QED
  BY <1>2 DEF AnswerAbort, At, shared, turns, ghosts

\* It keeps the types.
LEMMA AbortTyped ==
  ASSUME TInv, NEW c \in Calls, AnswerAbort(c) PROVE TInv'
<1> DEFINE r == [th[Submission] EXCEPT !.at = "take", !.reason = "Interrupted"]
<1>1. r \in ThreadType /\ Ready(r)
  <2>1. th[Submission] \in ThreadType /\ Ready(th[Submission])
    BY Members, ThreadIs DEF TInv
  <2>2. "take" \in Points /\ "take" \notin Holding \union {"takeif", "await"}
    BY Elsewhere
  <2> QED
    BY <2>1, <2>2, Members DEF ThreadType, Ready
<1>2. ThreadsOK'
  BY <1>1, OneMoves, Members DEF TInv, AnswerAbort, ThreadsOK
<1>8. SharedOK'
  BY DEF TInv, AnswerAbort, SharedOK, shared
<1>9. RestOK'
  BY DEF TInv, AnswerAbort, RestOK, turns, ghosts
<1> QED
  BY <1>2, <1>8, <1>9 DEF TInv

\* It keeps the turns in order.
LEMMA AbortOrdered ==
  ASSUME Inv, Calm, NEW c \in Calls, AnswerAbort(c) PROVE Ordered'
<1> USE Distinct DEF Inv
<1>1. th[Submission].at = "idle" => th[Submission].st = None /\ th[Submission].back \in {"idle", "closed"}
  BY Kinds DEF Ordered, StatesOK, PlacesOK
<1> QED
  BY <1>1, AbortMoves, FreeMoves DEF Calm

\* It keeps the items.
LEMMA AbortKeeps ==
  ASSUME Inv, ItemsOK, NEW c \in Calls, AnswerAbort(c) PROVE ItemsOK'
<1> USE Distinct DEF Inv
<1>1. th[Submission].at = "idle"
  BY AbortMoves
<1>2. th[Submission].items = {} /\ th[Submission].input = {} /\ th[Submission].st = None
  BY <1>1, CarriesNothing, Kinds DEF Carrying, Inputting, Ordered, StatesOK
<1>3. /\ th'[Submission].at = "take" /\ th'[Submission].items = {} /\ th'[Submission].input = {}
      /\ \A y \in Threads : y # Submission => th'[y] = th[y]
      /\ UNCHANGED <<active, pending, mailbox, history, submitted, accepted, dropped>>
  BY <1>2, AbortMoves
<1>4. Carries(th'[Submission]) /\ th'[Submission].at \notin Spent \union Offering
  BY <1>3 DEF Carries, Spent, Offering
<1> QED
  BY <1>1, <1>2, <1>3, <1>4, CarrierMoves

\* The invariant of the turns.
TurnInv == TInv /\ Ordered /\ ItemsOK

\* A step of a call or an answer other than an abort leaves the turns alone.
LEMMA CallStep ==
  ASSUME NEW c \in Calls, ToolStep(c) \/ Answer(c) PROVE UNCHANGED vars
BY DEF ToolStep, CallTool, Ask, Receive, ToolCancelled, Withdraw, StartReview, Reviews, RecordReviewed, Answer

\* Every step of the composed system keeps the invariant of the turns.
LEMMA ApprovalTurnStep ==
  ASSUME Calm, TurnInv, [ApprovalNext]_<<vars, calls>>, "guardian" \in Controls => [OwnTask]_vars
  PROVE  TurnInv'
<1> USE CalmUncontended DEF TurnInv
<1>1. CASE [Next]_vars
  BY <1>1, NextTyped, StutterTyped, NextOrdered, NextKeeps
<1>2. ASSUME NEW c \in Calls, AnswerAbort(c) PROVE TurnInv'
  BY <1>2, AbortTyped, AbortOrdered, AbortKeeps DEF Inv
<1> QED
  BY <1>1, <1>2, CallStep DEF ApprovalNext, Lifecycle

\* A new session has it, whatever the workload.
LEMMA ApprovalTurnInit == ApprovalInit => TurnInv
<1> SUFFICES ASSUME NEW w \in Workloads, InitWithout((Items \union Controls) \ w) PROVE TurnInv
  BY DEF ApprovalInit
<1> QED
  BY StartTyped, StartOrdered, StartKeeps DEF TurnInv

\* The turns stay in order and lose no item when the calls they make are
\* answered, aborted and cancelled while they run.
THEOREM CalledTurnsOrdered == Calm => (ApprovalSpec /\ Undisturbed => []TurnInv)
<1> SUFFICES ASSUME Calm PROVE ApprovalSpec /\ Undisturbed => []TurnInv
  OBVIOUS
<1>1. CASE "guardian" \in Controls
  <2>1. TurnInv /\ [ApprovalNext]_<<vars, calls>> /\ [OwnTask]_vars => TurnInv'
    BY ApprovalTurnStep
  <2>2. Undisturbed => [][OwnTask]_vars
    BY <1>1 DEF Undisturbed, OwnTaskTaken
  <2> QED
    BY <2>1, <2>2, ApprovalTurnInit, PTL DEF ApprovalSpec
<1>2. CASE "guardian" \notin Controls
  <2>1. TurnInv /\ [ApprovalNext]_<<vars, calls>> => TurnInv'
    BY <1>2, ApprovalTurnStep
  <2> QED
    BY <2>1, ApprovalTurnInit, PTL DEF ApprovalSpec
<1> QED
  BY <1>1, <1>2

-----------------------------------------------------------------------------
(* The calls *)

Stages == Over \union {"called", "registered", "waiting", "decided"}

CallTypes ==
  /\ stage \in [Calls -> Stages]
  /\ asker \in [Calls -> Turns \union {None}]
  /\ home \in [Calls -> States \union {None}]
  /\ prompt \in [Calls -> {"none", "shown", "answered", "aborted"}]
  /\ got \in [Calls -> Calls \union {None}]
  /\ granted \in [States -> SUBSET Calls]
  /\ strays \subseteq Calls

\* What a call has done at each stage.
ShapeOK ==
  \A c \in Calls :
    /\ stage[c] = "new" => asker[c] = None
    /\ asker[c] = None => stage[c] \in {"new", "cancelled"} /\ home[c] = None /\ prompt[c] = "none"
    /\ stage[c] \in {"new", "called"} => home[c] = None /\ got[c] = None
    /\ stage[c] \in {"new", "called", "registered"} \/ c \in Reviewed => prompt[c] = "none"
    /\ stage[c] = "waiting" /\ c \notin Reviewed => prompt[c] # "none"
    /\ stage[c] = "registered" => c \notin Reviewed
    /\ stage[c] = "decided" => c \in Reviewed
    /\ stage[c] \in {"answered", "rejected"} /\ c \notin Reviewed => home[c] = None

\* A call in flight holds its turn at the point where it was made, unless the
\* turn is aborted; only calls of aborted turns are cancelled.
FlightOK ==
  \A c \in Calls :
    /\ stage[c] \notin Over /\ asker[c] \notin cancelled => th[asker[c]].at = "answer"
    /\ stage[c] = "cancelled" => asker[c] \in cancelled \union {None}

\* Only a call of an aborted turn finds its turn not active.
StraysOK == \A c \in strays : asker[c] \in cancelled

\* Senders and grants are in the state of the turn that asked.
HomesOK ==
  /\ \A c \in Calls \ strays : home[c] # None => Owns(asker[c], home[c])
  /\ \A s \in States : \A c \in granted[s] \ strays : asker[c] # None /\ Owns(asker[c], s)

\* Which answers have arrived, and what became of their senders.
AnswersOK ==
  \A c \in Calls :
    /\ got[c] # None =>
         /\ c \notin Reviewed /\ home[c] = None /\ asker[c] # None /\ asker[got[c]] = asker[c]
         /\ c \notin Questions => got[c] = c /\ prompt[c] = "answered"
    /\ asker[c] \notin cancelled =>
         /\ prompt[c] = "shown" /\ c \notin Questions => stage[c] = "waiting"
         /\ prompt[c] = "answered" /\ c \notin Questions => got[c] = c
         /\ prompt[c] = "answered" => home[c] = None

\* The sender of a call is dropped after the terminal event of its turn.
RejectsOK ==
  \A c \in Calls \ (Questions \union strays) :
    /\ (stage[c] \in {"registered", "waiting"} /\ c \notin Reviewed /\ home[c] = None /\ got[c] = None)
         => Ended(asker[c])
    /\ stage[c] = "rejected" => Ended(asker[c])

\* The inductive invariant of the calls.
CallInv == CallTypes /\ ShapeOK /\ FlightOK /\ StraysOK /\ HomesOK /\ AnswersOK /\ RejectsOK

\* Stages before the end.
LEMMA StageNames ==
  /\ Over = {"new", "answered", "rejected", "cancelled"}
  /\ Stages = Over \union {"called", "registered", "waiting", "decided"}
  /\ {"called", "registered", "waiting", "decided"} \intersect Over = {}
  /\ "answer" \notin Closing /\ "answer" \in Busy
BY DEF Over, Stages, Closing, Busy, Working

\* Two calls have one key only if they are questions of one turn.
LEMMA SameKey ==
  ASSUME CallTypes, NEW c \in Calls, NEW d \in Calls, Key(d) = Key(c), d # c
  PROVE  c \in Questions /\ d \in Questions /\ asker[d] = asker[c]
BY CallKinds DEF CallTypes, Key

\* The turn of a call in flight, unless it is aborted, is the active one.
LEMMA AskerActive ==
  ASSUME TurnInv, CallInv, NEW c \in Calls, stage[c] \notin Over, asker[c] \notin cancelled
  PROVE  /\ asker[c] \in Turns /\ th[asker[c]].at = "answer"
         /\ active.task = asker[c] /\ active.state \in States /\ active # NoTurn
<1>1. asker[c] \in Turns
  BY StageNames DEF CallInv, CallTypes, ShapeOK
<1>2. th[asker[c]].at = "answer"
  BY DEF CallInv, FlightOK
<1>3. active.task = asker[c]
  BY <1>1, <1>2, StageNames DEF TurnInv, Ordered, TasksOK
<1> QED
  BY <1>1, <1>2, <1>3, Typed, Distinct DEF TurnInv

\* So is the turn state that holds its sender.
LEMMA HomeActive ==
  ASSUME TurnInv, CallInv, NEW c \in Calls, stage[c] \notin Over, asker[c] \notin cancelled, home[c] # None
  PROVE  home[c] = active.state
<1>1. asker[c] \in Turns /\ th[asker[c]].at = "answer"
  BY AskerActive
<1>2. Owns(asker[c], home[c])
  BY DEF CallInv, StraysOK, HomesOK
<1> QED
  BY <1>1, <1>2, StageNames DEF Owns

\* Whose a turn state is depends on the turns alone.
LEMMA OwnsSame ==
  ASSUME UNCHANGED <<active, th, cancelled>> PROVE \A t, s : Owns(t, s)' <=> Owns(t, s)
BY DEF Owns

\* A step of a call leaves the turns alone.
LEMMA TurnsSame ==
  ASSUME UNCHANGED vars
  PROVE  /\ UNCHANGED <<active, th, cancelled, ends>>
         /\ \A t, s : Owns(t, s)' <=> Owns(t, s)
BY OwnsSame DEF vars, shared, turns

-----------------------------------------------------------------------------
(* The steps of a call *)

\* A call is made.
LEMMA CallToolKeeps ==
  ASSUME TurnInv, CallInv, NEW t \in Turns, NEW c \in Calls, CallTool(t, c) PROVE CallInv'
<1> USE StageNames, CallKinds, Distinct DEF CallInv
<1>1. /\ stage[c] = "new" /\ stage' = [stage EXCEPT ![c] = "called"] /\ asker' = [asker EXCEPT ![c] = t]
      /\ th[t].at = "answer" /\ UNCHANGED <<home, prompt, got, granted, strays>>
  BY DEF CallTool, Become, At
<1>2. UNCHANGED <<active, th, cancelled, ends>> /\ \A u, s : Owns(u, s)' <=> Owns(u, s)
  BY TurnsSame DEF CallTool
<1>3. /\ stage'[c] = "called" /\ asker'[c] = t
      /\ \A d \in Calls : d # c => stage'[d] = stage[d] /\ asker'[d] = asker[d]
      /\ asker[c] = None /\ home[c] = None /\ got[c] = None /\ prompt[c] = "none"
      /\ c \notin strays
  <2>1. asker[c] = None /\ home[c] = None /\ got[c] = None /\ prompt[c] = "none"
    BY <1>1 DEF ShapeOK
  <2>2. cancelled \subseteq Turns
    BY Typed DEF TurnInv
  <2> QED
    BY <1>1, <2>1, <2>2 DEF CallTypes, StraysOK
<1>4. CallTypes'
  BY <1>1 DEF CallTypes
<1>5. ShapeOK'
  BY <1>1, <1>3 DEF ShapeOK
<1>6. FlightOK'
  BY <1>1, <1>2, <1>3 DEF FlightOK
<1>7. StraysOK'
  BY <1>1, <1>2, <1>3 DEF StraysOK, CallTypes
<1>8. HomesOK'
  BY <1>1, <1>2, <1>3 DEF HomesOK, CallTypes
<1>9. AnswersOK'
  <2>1. \A d \in Calls : got[d] # None => got[d] \in Calls /\ got[d] # c
    BY <1>3 DEF AnswersOK, CallTypes
  <2> QED
    BY <1>1, <1>2, <1>3, <2>1 DEF AnswersOK
<1>10. RejectsOK'
  BY <1>1, <1>2, <1>3 DEF RejectsOK, Ended
<1> QED
  BY <1>4, <1>5, <1>6, <1>7, <1>8, <1>9, <1>10

\* A call registers: its sender, or the turn state it keeps, is that of its
\* turn unless the turn is aborted.
LEMMA InsertKeeps ==
  ASSUME TurnInv, CallInv, NEW c \in Calls, NEW st,
         stage[c] = "called", Insert(c), stage' = [stage EXCEPT ![c] = st],
         (c \notin Reviewed /\ st = "registered") \/ (c \in Reviewed /\ st = "waiting"),
         UNCHANGED <<vars, asker, prompt, got, granted>>
  PROVE  CallInv'
<1> USE StageNames, CallKinds, Distinct DEF CallInv
<1>1. UNCHANGED <<active, th, cancelled, ends>> /\ \A u, s : Owns(u, s)' <=> Owns(u, s)
  BY TurnsSame
<1>2. /\ home'[c] = active.state
      /\ \A d \in Calls : d # c => home'[d] \in {home[d], None}
      /\ \A d \in Calls : d # c /\ d \notin Questions => home'[d] = home[d]
      /\ home' \in [Calls -> States \union {None}]
  <2>1. active.state \in States \union {None}
    BY Typed DEF TurnInv
  <2>2. home' = [d \in Calls |->
                  CASE d = c -> active.state
                    [] d # c /\ home[d] = active.state /\ Key(d) = Key(c) -> None
                    [] OTHER -> home[d]]
    BY DEF Insert
  <2>3. \A d \in Calls : d # c /\ d \notin Questions => Key(d) # Key(c)
    BY SameKey
  <2> QED
    BY <2>1, <2>2, <2>3 DEF CallTypes
<1>3. /\ stage'[c] = st /\ \A d \in Calls : d # c => stage'[d] = stage[d]
      /\ stage' \in [Calls -> Stages]
  BY DEF CallTypes
<1>4. /\ asker[c] \in Turns /\ got[c] = None /\ prompt[c] = "none"
  BY DEF ShapeOK, CallTypes
<1>5. asker[c] \notin cancelled => active.task = asker[c]
  BY AskerActive
<1>6. /\ strays \subseteq strays' /\ strays' \subseteq strays \union {c}
      /\ c \in strays' => c \in strays \/ active.task # asker[c]
      /\ c \notin strays' => active.task = asker[c]
  BY DEF Insert
<1>7. active.task = asker[c] => active.state # None /\ Owns(asker[c], active.state)
  BY <1>4, Typed DEF TurnInv, Owns
<1>11. CallTypes'
  BY <1>2, <1>3, <1>6 DEF CallTypes
<1>12. ShapeOK'
  BY <1>2, <1>3, <1>4 DEF ShapeOK
<1>13. FlightOK'
  BY <1>1, <1>3 DEF FlightOK
<1>14. StraysOK'
  BY <1>1, <1>5, <1>6 DEF StraysOK
<1>15. HomesOK'
  <2>1. ASSUME NEW d \in Calls, d \notin strays', home'[d] # None PROVE Owns(asker[d], home[d])'
    BY <1>1, <1>2, <1>6, <1>7, <2>1 DEF HomesOK
  <2>2. ASSUME NEW s \in States, NEW d \in granted'[s], d \notin strays' PROVE asker'[d] # None /\ Owns(asker[d], s)'
    BY <1>1, <1>6, <2>2 DEF HomesOK
  <2> QED
    BY <2>1, <2>2 DEF HomesOK
<1>16. AnswersOK'
  BY <1>1, <1>2, <1>3, <1>4 DEF AnswersOK
<1>17. RejectsOK'
  BY <1>1, <1>2, <1>3, <1>6, <1>7 DEF RejectsOK, Ended
<1> QED
  BY <1>11, <1>12, <1>13, <1>14, <1>15, <1>16, <1>17

\* A call registers, then shows its prompt.
LEMMA AskKeeps ==
  ASSUME TurnInv, CallInv, NEW c \in Calls, Ask(c) PROVE CallInv'
<1> USE StageNames, CallKinds, Distinct DEF CallInv
<1>1. CASE stage[c] = "called"
  BY <1>1, InsertKeeps DEF Ask, Become
<1>2. CASE stage[c] = "registered"
  <2>1. /\ c \notin Reviewed /\ stage' = [stage EXCEPT ![c] = "waiting"] /\ prompt' = [prompt EXCEPT ![c] = "shown"]
        /\ UNCHANGED <<asker, home, got, granted, strays>>
    BY <1>2 DEF Ask, Become, Show
  <2>2. UNCHANGED <<active, th, cancelled, ends>> /\ \A u, s : Owns(u, s)' <=> Owns(u, s)
    BY TurnsSame DEF Ask
  <2>3. /\ stage'[c] = "waiting" /\ prompt'[c] = "shown" /\ prompt[c] = "none" /\ asker[c] # None
        /\ \A d \in Calls : d # c => stage'[d] = stage[d] /\ prompt'[d] = prompt[d]
    BY <1>2, <2>1 DEF CallTypes, ShapeOK
  <2>4. CallTypes'
    BY <2>1 DEF CallTypes
  <2>5. ShapeOK'
    BY <1>2, <2>1, <2>3 DEF ShapeOK
  <2>6. FlightOK'
    BY <1>2, <2>1, <2>2, <2>3 DEF FlightOK
  <2>7. StraysOK'
    BY <2>1, <2>2 DEF StraysOK
  <2>8. HomesOK'
    BY <2>1, <2>2 DEF HomesOK
  <2>9. AnswersOK'
    BY <2>1, <2>2, <2>3 DEF AnswersOK
  <2>10. RejectsOK'
    BY <1>2, <2>1, <2>2, <2>3 DEF RejectsOK, Ended
  <2> QED
    BY <2>4, <2>5, <2>6, <2>7, <2>8, <2>9, <2>10
<1> QED
  BY <1>1, <1>2 DEF Ask

\* A call reaches a stage at which its channel is no longer looked at.
LEMMA StageKeeps ==
  ASSUME TurnInv, CallInv, NEW c \in Calls, NEW st,
         stage[c] \notin Over, stage[c] \in {"called", "registered"} => st = "cancelled",
         stage' = [stage EXCEPT ![c] = st],
         home' \in {home, [home EXCEPT ![c] = None]},
         \/ st = "cancelled" /\ asker[c] \in cancelled
         \/ st = "answered" /\ home'[c] = None /\ got[c] # None
         \/ /\ st = "rejected" /\ home'[c] = None /\ c \notin Reviewed
            /\ c \notin Questions \union strays => Ended(asker[c])
            /\ c \notin Questions => asker[c] \in cancelled
         \/ st = "decided" /\ c \in Reviewed /\ stage[c] = "waiting"
         \/ st = "answered" /\ c \in Reviewed,
         \/ granted' = granted
         \/ home[c] \in States /\ granted' = [granted EXCEPT ![home[c]] = @ \union {c}],
         UNCHANGED <<vars, asker, prompt, got, strays>>
  PROVE  CallInv'
<1> USE StageNames, CallKinds, Distinct DEF CallInv
<1>1. UNCHANGED <<active, th, cancelled, ends>> /\ \A u, s : Owns(u, s)' <=> Owns(u, s)
  BY TurnsSame
<1>2. /\ stage'[c] = st /\ st \in Stages /\ \A d \in Calls : d # c => stage'[d] = stage[d] /\ home'[d] = home[d]
      /\ home'[c] \in {home[c], None} /\ home' \in [Calls -> States \union {None}]
      /\ stage' \in [Calls -> Stages]
  BY DEF CallTypes
<1>10. /\ granted' \in [States -> SUBSET Calls]
       /\ \A s \in States : granted'[s] \subseteq granted[s] \union {c}
       /\ \A s \in States : c \in granted'[s] => c \in granted[s] \/ s = home[c]
  BY DEF CallTypes
<1>11. asker[c] # None
  BY DEF ShapeOK
<1>3. CallTypes'
  BY <1>2, <1>10 DEF CallTypes
<1>4. ShapeOK'
  BY <1>2, <1>11 DEF ShapeOK
<1>5. FlightOK'
  BY <1>1, <1>2 DEF FlightOK
<1>6. StraysOK'
  BY <1>1 DEF StraysOK
<1>7. HomesOK'
  <2>1. ASSUME NEW d \in Calls, d \notin strays', home'[d] # None PROVE Owns(asker[d], home[d])'
    BY <1>1, <1>2, <2>1 DEF HomesOK
  <2>2. ASSUME NEW s \in States, NEW d \in granted'[s], d \notin strays' PROVE asker'[d] # None /\ Owns(asker[d], s)'
    BY <1>1, <1>10, <1>11, <2>2 DEF HomesOK
  <2> QED
    BY <2>1, <2>2 DEF HomesOK
<1>8. AnswersOK'
  BY <1>1, <1>2 DEF AnswersOK, ShapeOK
<1>9. RejectsOK'
  BY <1>1, <1>2 DEF RejectsOK, Ended
<1> QED
  BY <1>3, <1>4, <1>5, <1>6, <1>7, <1>8, <1>9

\* Every step of a call keeps the invariant.
LEMMA ToolStepKeeps ==
  ASSUME TurnInv, CallInv, NEW c \in Calls, ToolStep(c) PROVE CallInv'
<1> USE StageNames, CallKinds, Distinct
<1>1. ASSUME NEW t \in Turns, CallTool(t, c) PROVE CallInv'
  BY <1>1, CallToolKeeps
<1>2. CASE Ask(c)
  BY <1>2, AskKeeps
<1>3. CASE Receive(c)
  <2>1. /\ c \notin Reviewed /\ stage[c] = "waiting" /\ home[c] = None
        /\ stage' = [stage EXCEPT ![c] = IF got[c] # None THEN "answered" ELSE "rejected"]
        /\ UNCHANGED <<vars, asker, home, prompt, got, granted, strays>>
    BY <1>3 DEF Receive, Become
  <2>2. CASE got[c] # None
    <3>1. stage' = [stage EXCEPT ![c] = "answered"]
      BY <2>1, <2>2
    <3> QED
      BY <2>1, <2>2, <3>1, StageKeeps
  <2>3. CASE got[c] = None
    <3>1. stage' = [stage EXCEPT ![c] = "rejected"]
      BY <2>1, <2>3
    <3>2. c \notin Questions \union strays => Ended(asker[c])
      BY <2>1, <2>3 DEF CallInv, RejectsOK
    <3>3. c \notin Questions => asker[c] \in cancelled
      BY <3>2 DEF CallInv, StraysOK, Ended
    <3> QED
      BY <2>1, <3>1, <3>2, <3>3, StageKeeps
  <2> QED
    BY <2>2, <2>3
<1>4. CASE ToolCancelled(c)
  <2>1. stage' = [stage EXCEPT ![c] = "cancelled"] /\ UNCHANGED <<vars, asker, home, prompt, got, granted, strays>>
    BY <1>4 DEF ToolCancelled, Become
  <2>2. asker[c] \in cancelled /\ stage[c] \notin Over
    BY <1>4 DEF ToolCancelled
  <2> QED
    BY <2>1, <2>2, StageKeeps
<1>5. CASE Withdraw(c)
  <2>1. /\ stage' = [stage EXCEPT ![c] = "cancelled"] /\ home' \in {home, [home EXCEPT ![c] = None]}
        /\ UNCHANGED <<vars, asker, prompt, got, granted, strays>>
    BY <1>5 DEF Withdraw, Become
  <2>2. asker[c] \in cancelled /\ stage[c] \notin Over
    BY <1>5 DEF Withdraw
  <2> QED
    BY <2>1, <2>2, StageKeeps
<1>6. CASE StartReview(c)
  <2>1. /\ stage[c] = "called" /\ Insert(c) /\ stage' = [stage EXCEPT ![c] = "waiting"] /\ c \in Reviewed
        /\ UNCHANGED <<vars, asker, prompt, got, granted>>
    BY <1>6 DEF StartReview, Become
  <2> QED
    BY <2>1, InsertKeeps
<1>7. CASE Reviews(c)
  <2>1. /\ stage[c] = "waiting" /\ c \in Reviewed /\ stage' = [stage EXCEPT ![c] = "decided"]
        /\ UNCHANGED <<vars, asker, home, prompt, got, granted, strays>>
    BY <1>7 DEF Reviews, Become
  <2> QED
    BY <2>1, StageKeeps
<1>8. CASE RecordReviewed(c)
  <2>1. /\ stage[c] = "decided" /\ stage' = [stage EXCEPT ![c] = "answered"]
        /\ UNCHANGED <<vars, asker, home, prompt, got, strays>>
    BY <1>8 DEF RecordReviewed, Become
  <2>2. granted' = granted \/ (home[c] \in States /\ granted' = [granted EXCEPT ![home[c]] = @ \union {c}])
    BY <1>8 DEF RecordReviewed, Grant
  <2>3. c \in Reviewed
    BY <2>1 DEF CallInv, ShapeOK
  <2> QED
    BY <2>1, <2>2, <2>3, StageKeeps
<1> QED
  BY <1>1, <1>2, <1>3, <1>4, <1>5, <1>6, <1>7, <1>8 DEF ToolStep

-----------------------------------------------------------------------------
(* The answers *)

\* The prompt of a call whose turn is not aborted is answered while the sender
\* is in the active turn, or gone.
LEMMA FindsSender ==
  ASSUME TurnInv, CallInv, NEW c \in Calls, prompt[c] = "shown", asker[c] \notin cancelled
  PROVE  /\ home[c] # None => home[c] = active.state /\ active # NoTurn
         /\ c \notin Questions => home[c] # None
<1> USE StageNames, CallKinds DEF CallInv
<1>1. c \notin Reviewed /\ asker[c] # None /\ stage[c] \in {"waiting", "answered", "rejected"}
  BY DEF ShapeOK, FlightOK, CallTypes
<1>2. home[c] # None => stage[c] = "waiting"
  BY <1>1 DEF ShapeOK
<1>3. ASSUME c \notin Questions PROVE home[c] # None
  <2>1. stage[c] = "waiting" /\ got[c] = None
    BY <1>3 DEF AnswersOK
  <2> QED
    BY <1>1, <1>3, <2>1 DEF StraysOK, RejectsOK, Ended
<1> QED
  BY <1>2, <1>3, HomeActive, AskerActive

\* An answer reaches the call that asked, or another question of its turn.
LEMMA AnswerKeeps ==
  ASSUME TurnInv, CallInv, NEW c \in Calls, Answer(c) PROVE CallInv'
<1> USE StageNames, CallKinds, Distinct DEF CallInv
<1>1. /\ prompt[c] = "shown" /\ prompt' = [prompt EXCEPT ![c] = "answered"]
      /\ got' = [d \in Calls |-> IF d \in Pending(c) THEN c ELSE got[d]]
      /\ home' = [d \in Calls |-> IF d \in Pending(c) THEN None ELSE home[d]]
      /\ UNCHANGED <<stage, asker, strays>>
  BY DEF Answer
<1>2. UNCHANGED <<active, th, cancelled, ends>> /\ \A u, s : Owns(u, s)' <=> Owns(u, s)
  BY TurnsSame DEF Answer
<1>3. /\ prompt'[c] = "answered" /\ \A d \in Calls : d # c => prompt'[d] = prompt[d]
      /\ \A d \in Calls : IF d \in Pending(c) THEN got'[d] = c /\ home'[d] = None
                                              ELSE got'[d] = got[d] /\ home'[d] = home[d]
  BY <1>1 DEF CallTypes
<1>4. asker[c] # None /\ c \notin Reviewed /\ stage[c] \notin {"new", "called", "registered"}
  BY <1>1 DEF ShapeOK
<1>5. \A d \in Pending(c) :
        /\ d \in Calls /\ d \notin Reviewed /\ home[d] # None /\ asker[d] = asker[c]
        /\ d \notin Questions => d = c
  <2> TAKE d \in Pending(c)
  <2>1. d \in Calls \ Reviewed /\ home[d] = active.state /\ active # NoTurn /\ Key(d) = Key(c)
    BY DEF Pending
  <2>2. home[d] # None
    BY <2>1, Typed DEF TurnInv
  <2> QED
    BY <2>1, <2>2, SameKey
<1>6. /\ granted' \in [States -> SUBSET Calls]
      /\ \A s \in States : granted'[s] \subseteq granted[s] \union {c}
      /\ \A s \in States : c \in granted'[s] => c \in granted[s] \/ s = home[c]
  <2>1. granted' = granted \/ (home[c] \in States /\ granted' = [granted EXCEPT ![home[c]] = @ \union {c}])
    BY DEF Answer, Grant
  <2> QED
    BY <2>1 DEF CallTypes
<1>7. \A d \in Pending(c) : stage[d] \notin {"new", "called"}
  BY <1>5 DEF ShapeOK
<1>11. CallTypes'
  BY <1>1, <1>6 DEF CallTypes
<1>12. ShapeOK'
  BY <1>1, <1>3, <1>4, <1>7 DEF ShapeOK
<1>13. FlightOK'
  BY <1>1, <1>2 DEF FlightOK
<1>14. StraysOK'
  BY <1>1, <1>2 DEF StraysOK
<1>15. HomesOK'
  <2>1. ASSUME NEW d \in Calls, d \notin strays', home'[d] # None PROVE Owns(asker[d], home[d])'
    BY <1>1, <1>2, <1>3, <2>1 DEF HomesOK
  <2>2. ASSUME NEW s \in States, NEW d \in granted'[s], d \notin strays' PROVE asker'[d] # None /\ Owns(asker[d], s)'
    BY <1>1, <1>2, <1>4, <1>6, <2>2 DEF HomesOK
  <2> QED
    BY <2>1, <2>2 DEF HomesOK
<1>16. AnswersOK'
  <2>1. asker[c] \notin cancelled =>
          /\ home[c] # None => c \in Pending(c)
          /\ c \notin Questions => c \in Pending(c)
    BY <1>1, <1>4, FindsSender DEF Pending
  <2>2. ASSUME NEW d \in Calls, got'[d] # None
        PROVE  /\ d \notin Reviewed /\ home'[d] = None /\ asker'[d] # None /\ asker'[got'[d]] = asker'[d]
               /\ d \notin Questions => got'[d] = d /\ prompt'[d] = "answered"
    <3>1. CASE d \in Pending(c)
      BY <1>1, <1>3, <1>4, <1>5, <3>1
    <3>2. CASE d \notin Pending(c)
      BY <1>1, <1>3, <2>2, <3>2 DEF AnswersOK
    <3> QED
      BY <3>1, <3>2
  <2>3. ASSUME NEW d \in Calls, asker'[d] \notin cancelled'
        PROVE  /\ prompt'[d] = "shown" /\ d \notin Questions => stage'[d] = "waiting"
               /\ prompt'[d] = "answered" /\ d \notin Questions => got'[d] = d
               /\ prompt'[d] = "answered" => home'[d] = None
    <3>1. CASE d = c
      BY <1>1, <1>2, <1>3, <2>1, <2>3, <3>1
    <3>2. CASE d # c
      BY <1>1, <1>2, <1>3, <1>5, <2>3, <3>2 DEF AnswersOK
    <3> QED
      BY <3>1, <3>2
  <2> QED
    BY <2>2, <2>3 DEF AnswersOK
<1>17. RejectsOK'
  BY <1>1, <1>2, <1>3 DEF RejectsOK, Ended
<1> QED
  BY <1>11, <1>12, <1>13, <1>14, <1>15, <1>16, <1>17

\* An abort changes the prompt and interrupts the turn.
LEMMA AnswerAbortKeeps ==
  ASSUME TurnInv, CallInv, NEW c \in Calls, AnswerAbort(c) PROVE CallInv'
<1> USE StageNames, CallKinds, Distinct DEF CallInv
<1>1. /\ prompt[c] = "shown" /\ prompt' = [prompt EXCEPT ![c] = "aborted"]
      /\ UNCHANGED <<stage, asker, home, got, granted, strays>>
  BY DEF AnswerAbort
<1>2. /\ th[Submission].at = "idle" /\ th'[Submission].at = "take"
      /\ \A y \in Threads : y # Submission => th'[y] = th[y]
      /\ UNCHANGED <<active, cancelled, ends>>
  BY AbortMoves DEF TurnInv
<1>3. \A t \in Turns, s \in States : Owns(t, s) => Owns(t, s)'
  BY <1>2, Kinds DEF Owns
<1>4. /\ prompt'[c] = "aborted" /\ \A d \in Calls : d # c => prompt'[d] = prompt[d]
      /\ asker[c] # None /\ c \notin Reviewed /\ stage[c] \notin {"new", "called", "registered"}
  BY <1>1 DEF CallTypes, ShapeOK
<1>11. CallTypes'
  BY <1>1 DEF CallTypes
<1>12. ShapeOK'
  BY <1>1, <1>4 DEF ShapeOK
<1>13. FlightOK'
  BY <1>1, <1>2 DEF FlightOK, CallTypes, ShapeOK
<1>14. StraysOK'
  BY <1>1, <1>2 DEF StraysOK
<1>15. HomesOK'
  <2>1. ASSUME NEW d \in Calls, d \notin strays', home'[d] # None PROVE Owns(asker[d], home[d])'
    BY <1>1, <1>3, <2>1 DEF HomesOK, CallTypes, ShapeOK
  <2>2. ASSUME NEW s \in States, NEW d \in granted'[s], d \notin strays' PROVE asker'[d] # None /\ Owns(asker[d], s)'
    BY <1>1, <1>3, <2>2 DEF HomesOK, CallTypes
  <2> QED
    BY <2>1, <2>2 DEF HomesOK
<1>16. AnswersOK'
  BY <1>1, <1>2, <1>4 DEF AnswersOK
<1>17. RejectsOK'
  BY <1>1, <1>2 DEF RejectsOK, Ended
<1> QED
  BY <1>11, <1>12, <1>13, <1>14, <1>15, <1>16, <1>17

-----------------------------------------------------------------------------
(* The steps of the turns *)

\* The turn state of a turn is referred to.
LEMMA OwnedStays ==
  ASSUME NEW t \in Turns, NEW s \in States, Owns(t, s)' PROVE s \in Referenced'
<1>1. \A y \in Threads : th'[y].at \in Closing \union Aborts => Live(y)'
  BY Kinds DEF Live
<1> QED
  BY <1>1, Distinct DEF Owns, Referenced

\* A turn that is aborted and has reported stays so.
LEMMA EndedStays ==
  ASSUME TurnInv, TurnInv', Handed, NEW t \in Turns, Ended(t) PROVE Ended(t)'
<1>1. ends'[t] \in Nat /\ ends[t] <= ends'[t] /\ t \in cancelled'
  BY DEF Handed, Ended, TurnInv, TInv, RestOK
<1>2. ends'[t] \in {0, 1}
  BY <1>1 DEF TurnInv, Ordered, EndsOK
<1> QED
  BY <1>1, <1>2 DEF Ended

\* Before that, neither a release nor the end of an abort takes the turn state
\* of a turn that waits for its calls.
LEMMA NotDropped ==
  ASSUME TurnInv, Handed, NEW t \in Turns, NEW s \in States, Owns(t, s), ~Ended(t),
         t \notin cancelled => th[t].at = "answer" /\ active.task = t
  PROVE  s \notin Freed /\ s \notin Cleared
<1> USE Kinds, Distinct, StageNames DEF TurnInv, Ordered
<1>1. th[t].at \notin Closing
  BY DEF EndsOK
<1>2. s \notin Freed
  BY <1>1, OwnedStays DEF Handed, Freed
<1>3. ASSUME NEW x \in Threads, th[x].at = "clear" PROVE th[x].st # s
  <2>1. CASE active.state = s
    BY <1>3, <2>1 DEF StatesOK
  <2>2. ASSUME t \in cancelled, NEW y \in Threads, th[y].at \in Aborts, th[y].victim = t, th[y].st = s
        PROVE  th[x].st # s
    <3>1. x # y
      BY <1>3, <2>2 DEF EndsOK, Ended
    <3> QED
      BY <1>3, <2>2, <3>1 DEF StatesOK
  <2> QED
    BY <1>1, <2>1, <2>2 DEF Owns
<1> QED
  BY <1>2, <1>3 DEF Cleared, At

\* Every step of the turns keeps the invariant of the calls.
LEMMA LifecycleKeeps ==
  ASSUME TurnInv, TurnInv', CallInv, Lifecycle, "guardian" \in Controls => [OwnTask]_vars PROVE CallInv'
<1> USE StageNames, CallKinds, Distinct DEF CallInv
<1>1. Handed
  BY NextHands DEF Lifecycle, TurnInv, Inv
<1>2. UNCHANGED <<stage, asker, prompt, got, strays>> /\ cancelled \subseteq cancelled'
  BY <1>1 DEF Lifecycle, Handed
<1>3. /\ home' \in [Calls -> States \union {None}] /\ \A c \in Calls : home'[c] \in {home[c], None}
      /\ \A c \in Calls : home'[c] # home[c] => home[c] \in Freed \union Cleared
      /\ \A c \in Calls : home'[c] # None => home'[c] \notin Freed
      /\ granted' \in [States -> SUBSET Calls] /\ \A s \in States : granted'[s] \subseteq granted[s]
      /\ \A s \in States : s \in Freed => granted'[s] = {}
  <2>1. None \notin Freed
    BY DEF Freed
  <2>2. home' = [c \in Calls |->
                   IF home[c] \in Freed \/ (c \notin Reviewed /\ home[c] \in Cleared) THEN None ELSE home[c]]
        /\ granted' = [s \in States |-> IF s \in Freed THEN {} ELSE granted[s]]
    BY DEF Lifecycle, Settle, Drop
  <2>3. home \in [Calls -> States \union {None}] /\ granted \in [States -> SUBSET Calls]
    BY DEF CallTypes
  <2> QED
    BY <2>1, <2>2, <2>3
<1>4. \A t \in Turns, s \in States : Owns(t, s) => Owns(t, s)' \/ s \in Freed
  BY <1>1 DEF Handed, Freed
<1>11. CallTypes'
  BY <1>2, <1>3 DEF CallTypes
<1>12. ShapeOK'
  BY <1>2, <1>3 DEF ShapeOK
<1>13. FlightOK'
  <2>1. ASSUME NEW c \in Calls, stage[c] \notin Over, asker[c] \notin cancelled'
        PROVE  th'[asker[c]].at = "answer"
    <3>1. asker[c] \in Turns /\ asker[c] \notin cancelled /\ th[asker[c]].at = "answer"
      BY <1>2, <2>1, AskerActive
    <3>2. th'[asker[c]].at # "done"
      BY <1>1, <3>1 DEF Handed
    <3>3. c \in InFlight(asker[c])
      BY <2>1 DEF InFlight
    <3> QED
      BY <3>1, <3>2, <3>3 DEF Lifecycle, Drained, At
  <2> QED
    BY <1>2, <2>1 DEF FlightOK
<1>14. StraysOK'
  BY <1>2 DEF StraysOK
<1>15. HomesOK'
  <2>1. ASSUME NEW d \in Calls, d \notin strays', home'[d] # None PROVE Owns(asker[d], home[d])'
    <3>1. home'[d] = home[d] /\ home[d] \in States /\ home[d] \notin Freed /\ asker[d] \in Turns
      BY <1>3, <2>1 DEF CallTypes, ShapeOK
    <3>2. Owns(asker[d], home[d])
      BY <1>2, <2>1, <3>1 DEF HomesOK
    <3>3. \A t \in Turns, s \in States : Owns(t, s) /\ s \notin Freed => Owns(t, s)'
      BY <1>4
    <3> QED
      BY <1>2, <3>1, <3>2, <3>3
  <2>2. ASSUME NEW s \in States, NEW d \in granted'[s], d \notin strays' PROVE asker'[d] # None /\ Owns(asker[d], s)'
    <3>1. d \in Calls /\ d \in granted[s] /\ s \notin Freed
      BY <1>3, <2>2
    <3>2. asker[d] # None /\ asker[d] \in Turns /\ Owns(asker[d], s)
      BY <1>2, <2>2, <3>1 DEF HomesOK, CallTypes
    <3> QED
      BY <1>2, <1>4, <3>1, <3>2
  <2> QED
    BY <2>1, <2>2 DEF HomesOK
<1>16. AnswersOK'
  BY <1>2, <1>3 DEF AnswersOK
<1>17. RejectsOK'
  <2>1. ASSUME NEW c \in Calls, Ended(asker[c]) PROVE Ended(asker[c])'
    <3>1. asker[c] \in Turns
      BY <2>1, Typed DEF Ended, TurnInv
    <3> QED
      BY <1>1, <1>2, <2>1, <3>1, EndedStays
  <2>2. ASSUME NEW c \in Calls, c \notin Questions \union strays \union Reviewed,
               stage[c] \in {"registered", "waiting"}, home'[c] = None, got[c] = None
        PROVE  Ended(asker[c])
    <3>1. CASE home[c] = None
      BY <2>2, <3>1 DEF RejectsOK
    <3>2. CASE home[c] # None
      <4>1. home[c] \in Freed \union Cleared
        BY <1>3, <2>2, <3>2
      <4>2. home[c] \in States /\ asker[c] \in Turns /\ Owns(asker[c], home[c])
        BY <2>2, <3>2 DEF CallTypes, ShapeOK, HomesOK
      <4>3. asker[c] \notin cancelled => th[asker[c]].at = "answer" /\ active.task = asker[c]
        BY <2>2, AskerActive
      <4> QED
        BY <1>1, <4>1, <4>2, <4>3, NotDropped
    <3> QED
      BY <3>1, <3>2
  <2> QED
    BY <1>2, <2>1, <2>2 DEF RejectsOK
<1> QED
  BY <1>11, <1>12, <1>13, <1>14, <1>15, <1>16, <1>17

-----------------------------------------------------------------------------
(* The theorems *)

\* A new session has made no call.
LEMMA CallInit == ApprovalInit => CallInv
<1> SUFFICES ASSUME ApprovalInit PROVE CallInv
  OBVIOUS
<1> USE StageNames, CallKinds, Distinct
<1>1. /\ \A c \in Calls : stage[c] \in {"new", "cancelled"}
      /\ stage \in [Calls -> Stages]
  BY DEF ApprovalInit
<1>2. /\ asker = [c \in Calls |-> None] /\ home = [c \in Calls |-> None] /\ prompt = [c \in Calls |-> "none"]
      /\ got = [c \in Calls |-> None] /\ granted = [s \in States |-> {}] /\ strays = {}
  BY DEF ApprovalInit
<1>3. CallTypes
  BY <1>1, <1>2 DEF CallTypes
<1>4. ShapeOK
  BY <1>1, <1>2 DEF ShapeOK
<1>5. FlightOK /\ StraysOK
  BY <1>1, <1>2 DEF FlightOK, StraysOK
<1>6. HomesOK
  BY <1>2 DEF HomesOK
<1>7. AnswersOK
  BY <1>2 DEF AnswersOK
<1>8. RejectsOK
  BY <1>1 DEF RejectsOK
<1> QED
  BY <1>3, <1>4, <1>5, <1>6, <1>7, <1>8 DEF CallInv

\* A step that changes nothing keeps the invariant.
LEMMA CallStays == ASSUME CallInv, UNCHANGED <<vars, calls>> PROVE CallInv'
<1>1. UNCHANGED <<stage, asker, home, prompt, got, granted, strays>>
  BY DEF calls
<1>2. UNCHANGED <<active, th, cancelled, ends>> /\ \A u, s : Owns(u, s)' <=> Owns(u, s)
  BY TurnsSame
<1>3. CallTypes' /\ ShapeOK' /\ StraysOK' /\ FlightOK'
  BY <1>1, <1>2 DEF CallInv, CallTypes, ShapeOK, StraysOK, FlightOK
<1>4. HomesOK'
  BY <1>1, <1>2 DEF CallInv, HomesOK
<1>5. AnswersOK' /\ RejectsOK'
  BY <1>1, <1>2 DEF CallInv, AnswersOK, RejectsOK, Ended
<1> QED
  BY <1>3, <1>4, <1>5 DEF CallInv

\* The calls of a session and their senders are where their turns are, for
\* any number of turns and calls.
THEOREM CallsInPlace == Calm => (ApprovalSpec /\ Undisturbed => [](TurnInv /\ CallInv))
<1> SUFFICES ASSUME Calm PROVE ApprovalSpec /\ Undisturbed => [](TurnInv /\ CallInv)
  OBVIOUS
<1>1. ASSUME TurnInv, CallInv, [ApprovalNext]_<<vars, calls>>, "guardian" \in Controls => [OwnTask]_vars
      PROVE  TurnInv' /\ CallInv'
  <2>1. TurnInv'
    BY <1>1, ApprovalTurnStep
  <2> QED
    BY <1>1, <2>1, LifecycleKeeps, ToolStepKeeps, AnswerKeeps, AnswerAbortKeeps, CallStays DEF ApprovalNext
<1>2. CASE "guardian" \in Controls
  <2>1. TurnInv /\ CallInv /\ [ApprovalNext]_<<vars, calls>> /\ [OwnTask]_vars => TurnInv' /\ CallInv'
    BY <1>1
  <2>2. Undisturbed => [][OwnTask]_vars
    BY <1>2 DEF Undisturbed, OwnTaskTaken
  <2> QED
    BY <2>1, <2>2, ApprovalTurnInit, CallInit, PTL DEF ApprovalSpec
<1>3. CASE "guardian" \notin Controls
  <2>1. TurnInv /\ CallInv /\ [ApprovalNext]_<<vars, calls>> => TurnInv' /\ CallInv'
    BY <1>1, <1>3
  <2> QED
    BY <2>1, ApprovalTurnInit, CallInit, PTL DEF ApprovalSpec
<1> QED
  BY <1>2, <1>3

\* AnswerReachesAsker: whatever turns end and start between a prompt and its
\* answer, the answer reaches a call of the turn that asked, and the very call
\* unless it is a question (notify_approval).
THEOREM AnswersReachAskers == Calm => (ApprovalSpec /\ Undisturbed => []AnswerReachesAsker)
<1>1. TurnInv /\ CallInv => AnswerReachesAsker
  BY DEF CallInv, AnswersOK, AnswerReachesAsker
<1> QED
  BY <1>1, CallsInPlace, PTL

\* WaitCanEnd: a call of a turn that is not aborted waits with its prompt open
\* and its sender in the active turn.
THEOREM WaitsCanEnd == Calm => (ApprovalSpec /\ Undisturbed => []WaitCanEnd)
<1>1. TurnInv /\ CallInv => WaitCanEnd
  <2> SUFFICES ASSUME TurnInv, CallInv, NEW c \in Calls \ Reviewed,
                      stage[c] = "waiting", home[c] # None, asker[c] \notin cancelled
               PROVE  prompt[c] \in {"shown", "aborted"} /\ home[c] = active.state
    BY DEF WaitCanEnd
  <2>1. home[c] = active.state
    BY HomeActive, StageNames
  <2> QED
    BY <2>1 DEF CallInv, CallTypes, ShapeOK, AnswersOK
<1> QED
  BY <1>1, CallsInPlace, PTL

\* NoEarlyRejection: no call is rejected for want of a sender before the
\* terminal event of its turn (abort_all_tasks clears the waiters last).
THEOREM RejectionsNotEarly == Calm => (ApprovalSpec /\ Undisturbed => []NoEarlyRejection)
<1>1. TurnInv /\ CallInv => NoEarlyRejection
  BY DEF CallInv, RejectsOK, Ended, NoEarlyRejection
<1> QED
  BY <1>1, CallsInPlace, PTL

\* GrantsStayInTurn: what is granted for a turn is in force in no other one.
THEOREM GrantsKeptApart == Calm => (ApprovalSpec /\ Undisturbed => []GrantsStayInTurn)
<1>1. TurnInv /\ CallInv => GrantsStayInTurn
  <2> SUFFICES ASSUME TurnInv, CallInv, active.task # None, NEW c \in granted[active.state] \ strays
               PROVE  asker[c] = active.task
    BY DEF GrantsStayInTurn
  <2>1. active.state \in States
    BY Typed, Distinct DEF TurnInv
  <2>2. c \in Calls /\ asker[c] \in Turns /\ Owns(asker[c], active.state)
    BY <2>1 DEF CallInv, HomesOK, CallTypes
  <2>3. ~(th[asker[c]].at \in Closing /\ th[asker[c]].st = active.state)
    BY <2>2 DEF TurnInv, Ordered, StatesOK
  <2>4. \A x \in Threads : th[x].at \in Aborts => th[x].st # active.state
    BY DEF TurnInv, Ordered, StatesOK
  <2> QED
    BY <2>2, <2>3, <2>4 DEF Owns
<1> QED
  BY <1>1, CallsInPlace, PTL

\* The invariants of the turns that the run of the composed system checks:
\* types, one turn at work, one terminal event for each and no item lost.
THEOREM CalledTurnsSound ==
  Calm => (ApprovalSpec /\ Undisturbed => [](TypeOK /\ OneRunning /\ OneTerminalEvent /\ NoItemLost))
<1>1. TurnInv => TypeOK /\ NoItemLost
  BY TInvTypeOK, KeptNotLost DEF TurnInv, ItemsOK
<1>2. TurnInv => OneRunning
  BY OrderedOneRunning DEF TurnInv
<1>3. TurnInv => OneTerminalEvent
  BY OrderedOneTerminal DEF TurnInv
<1> QED
  BY <1>1, <1>2, <1>3, CalledTurnsOrdered, PTL

\* Neither the steps of a call nor an answer show in the status of the turns.
LEMMA CallUnseen ==
  ASSUME NEW c \in Calls, ToolStep(c) \/ Answer(c) \/ AnswerAbort(c) PROVE Unseen
<1>1. CASE ToolStep(c) \/ Answer(c)
  BY <1>1, CallStep DEF vars, shared, turns, Unseen
<1>2. CASE AnswerAbort(c)
  BY <1>2 DEF AnswerAbort, shared, turns, Unseen
<1> QED
  BY <1>1, <1>2

\* TurnsTakeTurns: a session whose calls are answered, aborted and cancelled
\* still implements SessionTurns; an answer that aborts stops a turn only
\* through the take of its task.
THEOREM CalledSessionKeepsPromise == Calm => (ApprovalSpec /\ Undisturbed => TurnsTakeTurns)
<1> SUFFICES ASSUME Calm PROVE ApprovalSpec /\ Undisturbed => TurnsTakeTurns
  OBVIOUS
<1>1. ApprovalSpec /\ Undisturbed => []TurnInv
  BY CalledTurnsOrdered
<1>2. ApprovalInit => Promised!Init
  BY DEF ApprovalInit, InitWithout, Promised!Init, TurnStatus
<1>3. ASSUME TurnInv, [ApprovalNext]_<<vars, calls>>, "guardian" \in Controls => [OwnTask]_vars
      PROVE  [Promised!Next]_<<TurnStatus, ends>>
  <2>1. CASE [Next]_vars
    BY <1>3, <2>1, StepPromised DEF TurnInv, Inv
  <2>2. CASE Unseen
    BY <2>2, UnseenStays
  <2> QED
    BY <1>3, <2>1, <2>2, CallUnseen DEF ApprovalNext, Lifecycle
<1>4. CASE "guardian" \in Controls
  <2>1. TurnInv /\ [ApprovalNext]_<<vars, calls>> /\ [OwnTask]_vars => [Promised!Next]_<<TurnStatus, ends>>
    BY <1>3
  <2>2. Undisturbed => [][OwnTask]_vars
    BY <1>4 DEF Undisturbed, OwnTaskTaken
  <2> QED
    BY <1>1, <1>2, <2>1, <2>2, PTL DEF ApprovalSpec, TurnsTakeTurns, Promised!Spec
<1>5. CASE "guardian" \notin Controls
  <2>1. TurnInv /\ [ApprovalNext]_<<vars, calls>> => [Promised!Next]_<<TurnStatus, ends>>
    BY <1>3, <1>5
  <2> QED
    BY <1>1, <1>2, <2>1, PTL DEF ApprovalSpec, TurnsTakeTurns, Promised!Spec
<1> QED
  BY <1>4, <1>5
=============================================================================
