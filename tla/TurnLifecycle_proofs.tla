----------------------- MODULE TurnLifecycle_proofs -----------------------
(***************************************************************************)
(* What holds of TurnLifecycle for any number of turns, turn states and    *)
(* items.  Types: the fields of the session and the locals of every thread *)
(* keep their types, and a thread has the turn state, or the turn to       *)
(* abort, that it is about to use.  Order: while nothing competes for the  *)
(* turns of the session, one turn runs at a time, none is overwritten,     *)
(* each ends once and no reservation is forgotten.  Items: then no input   *)
(* and no mail that the session accepted is lost.                          *)
(***************************************************************************)
EXTENDS TurnLifecycle, TLAPS

\* The type of a thread's locals.
ThreadType ==
  [at : Points, st : States \union {None}, items : SUBSET Items,
   input : SUBSET Items, new : {"Regular", "Compact"},
   victim : Turns \union {None}, reason : {"Interrupted", "Replaced"},
   back : {"idle", "closed", "done"}]

\* A thread has a turn state where it uses one, and knows the turn it aborts.
Ready(r) ==
  /\ r.at \in Holding => r.st # None
  /\ r.at \in {"takeif", "await"} => r.victim # None

ThreadsOK ==
  /\ th \in [Threads -> ThreadType]
  /\ \A x \in Threads : Ready(th[x])

ActiveType == {a \in [task : Turns \union {None}, state : States \union {None}] :
                 a.task # None => a.state # None}

SharedOK ==
  /\ active \in ActiveType
  /\ pending \in [States -> SUBSET Items]
  /\ phase \in [States -> {"CurrentTurn", "NextTurn"}]
  /\ mailbox \subseteq Mail

RestOK ==
  /\ history \subseteq Items
  /\ kind \in [Turns -> {"none", "Regular", "Compact"}]
  /\ cancelled \subseteq Turns
  /\ ends \in [Turns -> Nat]
  /\ submitted \subseteq Items \union Controls
  /\ accepted \subseteq Items
  /\ dropped \subseteq Items
  /\ clash \in BOOLEAN

\* The inductive invariant: TypeOK, and a thread that aborts a turn knows which.
TInv == SharedOK /\ RestOK /\ ThreadsOK

-----------------------------------------------------------------------------
(* Threads *)

\* The inductive invariant gives the type invariant of the runs.
LEMMA TInvTypeOK == TInv => TypeOK
BY DEF TInv, SharedOK, RestOK, ThreadsOK, ActiveType, ThreadType, Ready, TypeOK

\* One thread moves on with typed locals.
LEMMA OneMoves ==
  ASSUME ThreadsOK, NEW x \in Threads, NEW r \in ThreadType, Ready(r),
         th' = [th EXCEPT ![x] = r]
  PROVE  ThreadsOK'
BY DEF ThreadsOK

\* Points at which a thread needs nothing.
LEMMA Elsewhere ==
  \A pt \in {"idle", "closed", "unborn", "done", "idlereserve", "take", "pending", "reserve",
             "drain", "bind", "run", "sample", "samplemail", "record", "answer", "check",
             "recheck", "finish", "taketask"} :
    pt \in Points /\ pt \notin Holding /\ pt \notin {"takeif", "await"}
BY DEF Points, Holding, Working

\* Points at which a thread uses its turn state, or the turn it aborts.
LEMMA Using ==
  /\ \A pt \in {"idlerecheck", "clear", "gather", "gathermail", "deliver", "extend", "install",
                "takeinput", "complete", "release"} : pt \in Points /\ pt \notin {"takeif", "await"}
  /\ "takeif" \in Points /\ "takeif" \notin Holding /\ "await" \in Points
BY DEF Points, Holding, Working

\* Each thread's locals are typed.
LEMMA ThreadIs ==
  ASSUME ThreadsOK, NEW x \in Threads
  PROVE  th[x] \in ThreadType /\ Ready(th[x])
BY DEF ThreadsOK

\* A thread with empty locals is typed at every point that needs none.
LEMMA FreshThread ==
  ASSUME NEW pt \in Points \ (Holding \union {"takeif", "await"}),
         NEW bk \in {"idle", "closed", "done"}
  PROVE  Thread(pt, bk) \in ThreadType /\ Ready(Thread(pt, bk))
BY DEF Thread, ThreadType, Ready

\* A thread rests at "idle", "closed" or "done".
LEMMA RestTyped ==
  ASSUME ThreadsOK, NEW x \in Threads
  PROVE  Rest(x) \in ThreadType /\ Ready(Rest(x)) /\ th[x].back \in {"idle", "closed", "done"}
<1>1. th[x].back \in {"idle", "closed", "done"}
  BY DEF ThreadsOK, ThreadType
<1>2. th[x].back \in Points \ (Holding \union {"takeif", "await"})
  BY <1>1 DEF Points, Holding
<1> QED
  BY <1>1, <1>2, FreshThread DEF Rest

\* A thread that returns to its resting point keeps the types.
LEMMA ReturnTyped ==
  ASSUME ThreadsOK, NEW x \in Threads, Return(x)
  PROVE  ThreadsOK'
BY RestTyped, OneMoves DEF Return

\* A thread that only moves on keeps the types, if it has the turn state it is
\* about to use.
LEMMA GotoTyped ==
  ASSUME ThreadsOK, NEW x \in Threads, NEW pt \in Points \ {"takeif", "await"},
         pt \in Holding => th[x].st # None, Goto(x, pt)
  PROVE  ThreadsOK'
<1> DEFINE r == [th[x] EXCEPT !.at = pt]
<1>1. r \in ThreadType /\ Ready(r)
  BY DEF ThreadsOK, ThreadType, Ready
<1> QED
  BY <1>1, OneMoves DEF Goto, ThreadsOK

\* No thread moves.
LEMMA ThreadsStay == ASSUME ThreadsOK, UNCHANGED th PROVE ThreadsOK'
BY DEF ThreadsOK

\* What the sets of threads and items contain.
LEMMA Members ==
  /\ Submission \in Threads /\ Guardian \in Threads /\ Turns \subseteq Threads
  /\ Mail \subseteq Items /\ Prompts \subseteq Items /\ Injects \subseteq Items
  /\ Users \subseteq Items /\ Idlers \subseteq Items
  /\ None \notin States /\ None \notin Turns
BY TurnAssumption DEF Threads, Items, Mail, Prompts

\* The turn state that is allocated is one.
LEMMA FreeTyped == ASSUME CanAllocate PROVE FreeState \in States
BY DEF CanAllocate, FreeState

\* get_or_insert_default: the active turn has a turn state, old or new.
LEMMA InsertTyped ==
  ASSUME SharedOK, Allocated
  PROVE  /\ GetOrInsert \in ActiveType /\ GetOrInsert.state \in States
         /\ pending' \in [States -> SUBSET Items]
         /\ phase' \in [States -> {"CurrentTurn", "NextTurn"}]
<1>1. CASE active = NoTurn
  BY <1>1, FreeTyped, Members DEF SharedOK, Allocated, GetOrInsert, ActiveType
<1>2. CASE active # NoTurn
  BY <1>2, Members DEF SharedOK, Allocated, GetOrInsert, ActiveType, NoTurn
<1> QED
  BY <1>1, <1>2

-----------------------------------------------------------------------------
(* The operations *)

\* User input that starts a turn.
LEMMA StartTurnTyped ==
  ASSUME TInv, NEW u \in Users, StartTurn(u) PROVE TInv'
<1> DEFINE r == [th[Submission] EXCEPT !.at = "take", !.reason = "Replaced", !.input = {u}, !.new = "Regular"]
<1>1. r \in ThreadType /\ Ready(r)
  <2>1. th[Submission] \in ThreadType /\ Ready(th[Submission])
    BY Members, ThreadIs DEF TInv
  <2>2. "take" \in Points /\ "take" \notin Holding \union {"takeif", "await"}
    BY Elsewhere
  <2> QED
    BY <2>1, <2>2, Members DEF ThreadType, Ready
<1>2. ThreadsOK'
  BY <1>1, OneMoves, Members DEF TInv, StartTurn, ThreadsOK
<1>8. SharedOK'
  BY DEF TInv, StartTurn, SharedOK, shared
<1>9. RestOK'
  BY Members DEF TInv, StartTurn, Submit, RestOK, turns
<1> QED
  BY <1>2, <1>8, <1>9 DEF TInv

\* Input appended to the pending input of a turn state.
LEMMA ExtendTyped ==
  ASSUME SharedOK, NEW s \in States, NEW new \in SUBSET Items, Extend(s, new)
  PROVE  pending' \in [States -> SUBSET Items] /\ phase' \in [States -> {"CurrentTurn", "NextTurn"}]
BY DEF SharedOK, Extend

\* An active turn has a turn state.
LEMMA ActiveState == ASSUME SharedOK, active # NoTurn PROVE active.state \in States
BY DEF SharedOK, ActiveType, NoTurn

\* User input that steers the running turn.
LEMMA SteerTyped ==
  ASSUME TInv, NEW u \in Users, Steer(u) PROVE TInv'
<1>1. active.state \in States
  BY DEF TInv, Steer, SharedOK, ActiveType
<1>2. ThreadsOK'
  BY ThreadsStay DEF TInv, Steer
<1>3. SharedOK'
  BY <1>1, ExtendTyped, Members DEF TInv, Steer, SharedOK
<1> QED
  BY <1>2, <1>3, Members DEF TInv, Steer, Submit, RestOK, turns

\* User input that is refused.
LEMMA NotSteerableTyped ==
  ASSUME TInv, NEW u \in Users, NotSteerable(u) PROVE TInv'
<1>1. ThreadsOK'
  BY ThreadsStay DEF TInv, NotSteerable
<1>8. SharedOK'
  BY DEF TInv, NotSteerable, SharedOK, shared
<1>9. RestOK'
  BY Members DEF TInv, NotSteerable, Submit, RestOK, turns, ghosts
<1> QED
  BY <1>1, <1>8, <1>9 DEF TInv

\* Input that may only start an idle session.
LEMMA IdleCheckTyped ==
  ASSUME TInv, NEW u \in Idlers, IdleCheck(u) PROVE TInv'
<1> DEFINE r == [th[Submission] EXCEPT !.at = "idlereserve", !.input = {u}]
<1>1. r \in ThreadType /\ Ready(r)
  <2>1. th[Submission] \in ThreadType /\ Ready(th[Submission])
    BY Members, ThreadIs DEF TInv
  <2>2. "idlereserve" \in Points /\ "idlereserve" \notin Holding \union {"takeif", "await"}
    BY Elsewhere
  <2> QED
    BY <2>1, <2>2, Members DEF ThreadType, Ready
<1>2. ThreadsOK'
  BY <1>1, OneMoves, ThreadsStay, Members DEF TInv, IdleCheck, ThreadsOK
<1>8. SharedOK'
  BY DEF TInv, IdleCheck, SharedOK, shared
<1>9. RestOK'
  BY Members DEF TInv, IdleCheck, Submit, RestOK, turns, ghosts
<1> QED
  BY <1>2, <1>8, <1>9 DEF TInv

\* Mail from another agent.
LEMMA SendMailTyped ==
  ASSUME TInv, NEW m \in Mail, SendMail(m) PROVE TInv'
<1>1. "pending" \in Points \ {"takeif", "await"} /\ "pending" \notin Holding
  BY DEF Points, Holding
<1>2. ThreadsOK'
  BY <1>1, GotoTyped, ThreadsStay, Members DEF TInv, SendMail
<1> QED
  BY <1>2, Members DEF TInv, SendMail, Submit, SharedOK, RestOK, turns

\* interrupt.
LEMMA InterruptTyped ==
  ASSUME TInv, Interrupt PROVE TInv'
<1> DEFINE r == [th[Submission] EXCEPT !.at = "take", !.reason = "Interrupted"]
<1>1. r \in ThreadType /\ Ready(r)
  <2>1. th[Submission] \in ThreadType /\ Ready(th[Submission])
    BY Members, ThreadIs DEF TInv
  <2>2. "take" \in Points /\ "take" \notin Holding \union {"takeif", "await"}
    BY Elsewhere
  <2> QED
    BY <2>1, <2>2, Members DEF ThreadType, Ready
<1>2. ThreadsOK'
  BY <1>1, OneMoves, Members DEF TInv, Interrupt, ThreadsOK
<1>8. SharedOK'
  BY DEF TInv, Interrupt, SharedOK, shared
<1>9. RestOK'
  BY DEF TInv, Interrupt, Submit, RestOK, turns, ghosts
<1> QED
  BY <1>2, <1>8, <1>9 DEF TInv

\* compact.
LEMMA CompactTyped ==
  ASSUME TInv, Compact PROVE TInv'
<1> DEFINE r == [th[Submission] EXCEPT !.at = "take", !.reason = "Replaced", !.new = "Compact"]
<1>1. r \in ThreadType /\ Ready(r)
  <2>1. th[Submission] \in ThreadType /\ Ready(th[Submission])
    BY Members, ThreadIs DEF TInv
  <2>2. "take" \in Points /\ "take" \notin Holding \union {"takeif", "await"}
    BY Elsewhere
  <2> QED
    BY <2>1, <2>2, Members DEF ThreadType, Ready
<1>2. ThreadsOK'
  BY <1>1, OneMoves, Members DEF TInv, Compact, ThreadsOK
<1>8. SharedOK'
  BY DEF TInv, Compact, SharedOK, shared
<1>9. RestOK'
  BY DEF TInv, Compact, Submit, RestOK, turns, ghosts
<1> QED
  BY <1>2, <1>8, <1>9 DEF TInv

\* shutdown.
LEMMA ShutdownTyped ==
  ASSUME TInv, Shutdown PROVE TInv'
<1> DEFINE r == [th[Submission] EXCEPT !.at = "take", !.reason = "Interrupted", !.back = "closed"]
<1>1. r \in ThreadType /\ Ready(r)
  <2>1. th[Submission] \in ThreadType /\ Ready(th[Submission])
    BY Members, ThreadIs DEF TInv
  <2>2. "take" \in Points /\ "take" \notin Holding \union {"takeif", "await"}
    BY Elsewhere
  <2> QED
    BY <2>1, <2>2, Members DEF ThreadType, Ready
<1>2. ThreadsOK'
  BY <1>1, OneMoves, Members DEF TInv, Shutdown, ThreadsOK
<1>8. SharedOK'
  BY DEF TInv, Shutdown, SharedOK, shared
<1>9. RestOK'
  BY DEF TInv, Shutdown, Submit, RestOK, turns, ghosts
<1> QED
  BY <1>2, <1>8, <1>9 DEF TInv

\* An item injected into the running turn.
LEMMA InjectTyped ==
  ASSUME TInv, NEW i \in Injects, Inject(i) PROVE TInv'
<1>1. ThreadsOK'
  BY ThreadsStay DEF TInv, Inject
<1>2. SharedOK'
  BY ActiveState, ExtendTyped, Members DEF TInv, Inject, SharedOK
<1> QED
  BY <1>1, <1>2, Members DEF TInv, Inject, RestOK, turns

\* The guardian gives up on a turn, and knows which one.
LEMMA GuardianTripsTyped ==
  ASSUME TInv, NEW t \in Turns, GuardianTrips(t) PROVE TInv'
<1> DEFINE r == [th[Guardian] EXCEPT !.at = "takeif", !.victim = t]
<1>1. r \in ThreadType /\ Ready(r)
  <2>1. th[Guardian] \in ThreadType /\ Ready(th[Guardian])
    BY Members, ThreadIs DEF TInv
  <2>2. "takeif" \in Points /\ "takeif" \notin Holding
    BY Using
  <2> QED
    BY <2>1, <2>2, Members DEF ThreadType, Ready
<1>2. ThreadsOK'
  BY <1>1, OneMoves, Members DEF TInv, GuardianTrips, ThreadsOK
<1>8. SharedOK'
  BY DEF TInv, GuardianTrips, SharedOK, shared
<1>9. RestOK'
  BY DEF TInv, GuardianTrips, RestOK, turns, ghosts
<1> QED
  BY <1>2, <1>8, <1>9 DEF TInv

-----------------------------------------------------------------------------
(* Starting a turn *)

\* A look at the mail that asks for a turn.
LEMMA CheckMailTyped ==
  ASSUME TInv, NEW x \in Threads, CheckMail(x) PROVE TInv'
<1>1. ThreadsOK'
  BY GotoTyped, ReturnTyped, Elsewhere DEF TInv, CheckMail
<1>2. SharedOK'
  BY DEF TInv, CheckMail, SharedOK, shared
<1>3. RestOK'
  BY DEF TInv, CheckMail, RestOK, turns, ghosts
<1> QED
  BY <1>1, <1>2, <1>3 DEF TInv

\* A turn reserved for pending work.
LEMMA ReserveTyped ==
  ASSUME TInv, NEW x \in Threads, Reserve(x) PROVE TInv'
<1>1. RestOK'
  BY DEF TInv, Reserve, RestOK, turns, ghosts
<1>2. CASE active # NoTurn
  <2>1. ThreadsOK'
    BY <1>2, ReturnTyped DEF TInv, Reserve
  <2>2. SharedOK'
    BY <1>2 DEF TInv, Reserve, SharedOK
  <2> QED
    BY <1>1, <2>1, <2>2 DEF TInv
<1>3. CASE active = NoTurn
  <2> DEFINE r == [th[x] EXCEPT !.at = "gather", !.st = FreeState]
  <2>1. FreeState \in States
    BY <1>3, FreeTyped DEF Reserve
  <2>2. r \in ThreadType /\ Ready(r)
    <3>1. th[x] \in ThreadType /\ Ready(th[x])
      BY Members, ThreadIs DEF TInv
    <3>2. "gather" \in Points /\ "gather" \notin {"takeif", "await"}
      BY Using
    <3> QED
      BY <2>1, <3>1, <3>2, Members DEF ThreadType, Ready
  <2>3. ThreadsOK'
    BY <1>3, <2>2, OneMoves DEF TInv, Reserve, ThreadsOK
  <2>4. SharedOK'
    BY <1>3, InsertTyped DEF TInv, Reserve, SharedOK
  <2> QED
    BY <1>1, <2>3, <2>4 DEF TInv
<1> QED
  BY <1>2, <1>3

\* more and none are the points that follow with and without a look at the mail.
LEMMA TakePendingTyped ==
  ASSUME TInv, NEW x \in Threads, NEW more, NEW none, TakePending(x, more, none),
         more \in Points \ {"takeif", "await"}, none \in Points \ {"takeif", "await"},
         {more, none} \intersect Holding # {} => th[x].st # None
  PROVE  TInv'
<1>1. RestOK'
  BY DEF TInv, TakePending, RestOK, turns, ghosts
<1>2. CASE active = NoTurn
  <2>1. ThreadsOK'
    BY <1>2, GotoTyped DEF TInv, TakePending
  <2>2. SharedOK'
    BY <1>2 DEF TInv, TakePending, SharedOK
  <2> QED
    BY <1>1, <2>1, <2>2 DEF TInv
<1>3. CASE active # NoTurn /\ phase[active.state] = "NextTurn"
  <2>1. ThreadsOK'
    BY <1>3, GotoTyped DEF TInv, TakePending
  <2>2. SharedOK'
    BY <1>3 DEF TInv, TakePending, SharedOK
  <2> QED
    BY <1>1, <2>1, <2>2 DEF TInv
<1>4. CASE active # NoTurn /\ phase[active.state] # "NextTurn"
  <2> DEFINE r == [th[x] EXCEPT !.at = more, !.items = pending[active.state]]
  <2>1. active.state \in States /\ pending[active.state] \subseteq Items
    BY <1>4, ActiveState DEF TInv, SharedOK
  <2>2. r \in ThreadType /\ Ready(r)
    <3>1. th[x] \in ThreadType
      BY ThreadIs DEF TInv
    <3>2. r \in ThreadType /\ r.at = more /\ r.st = th[x].st
      BY <2>1, <3>1 DEF ThreadType
    <3> QED
      BY <3>2 DEF Ready
  <2>3. ThreadsOK'
    BY <1>4, <2>2, OneMoves DEF TInv, TakePending, ThreadsOK
  <2>4. SharedOK'
    BY <1>4 DEF TInv, TakePending, SharedOK
  <2> QED
    BY <1>1, <2>3, <2>4 DEF TInv
<1> QED
  BY <1>2, <1>3, <1>4

\* The mailbox emptied into the items of a thread.
LEMMA DrainMailboxTyped ==
  ASSUME TInv, NEW x \in Threads, NEW next, DrainMailbox(x, next),
         next \in Points \ {"takeif", "await"}, next \in Holding => th[x].st # None
  PROVE  TInv'
<1> DEFINE r == [th[x] EXCEPT !.at = next, !.items = th[x].items \union mailbox]
<1>1. r \in ThreadType /\ Ready(r)
  <2>1. th[x] \in ThreadType /\ Ready(th[x]) /\ mailbox \subseteq Items
    BY Members, ThreadIs DEF TInv, SharedOK
  <2> QED
    BY <2>1 DEF ThreadType, Ready
<1>2. ThreadsOK'
  <2>1. th' = [th EXCEPT ![x] = r]
    BY ThreadIs DEF TInv, DrainMailbox, ThreadsOK, ThreadType
  <2> QED
    BY <1>1, <2>1, OneMoves DEF TInv
<1>3. SharedOK'
  BY DEF TInv, DrainMailbox, SharedOK
<1>4. RestOK'
  BY DEF TInv, DrainMailbox, RestOK, turns, ghosts
<1> QED
  BY <1>2, <1>3, <1>4 DEF TInv

\* The input gathered for a reserved turn.
LEMMA GatherTyped ==
  ASSUME TInv, NEW x \in Threads, Gather(x) \/ GatherMail(x) PROVE TInv'
<1>1. th[x].at \in {"gather", "gathermail"}
  BY DEF Gather, GatherMail, At
<1>2. th[x].st # None
  BY <1>1, ThreadIs DEF TInv, Ready, Holding
<1>3. TakePending(x, "gathermail", "deliver") \/ DrainMailbox(x, "deliver")
  BY DEF Gather, GatherMail
<1> QED
  BY <1>2, <1>3, Using, TakePendingTyped, DrainMailboxTyped

\* Items put into the pending input of a turn state.
LEMMA PutTyped ==
  ASSUME SharedOK, NEW s \in States, NEW new \in SUBSET Items,
         pending' = [pending EXCEPT ![s] = @ \union new], UNCHANGED <<active, phase, mailbox>>
  PROVE  SharedOK'
BY DEF SharedOK

\* The turn state a thread uses is one, and its items are items.
LEMMA HeldState ==
  ASSUME ThreadsOK, NEW x \in Threads, th[x].at \in Holding
  PROVE  th[x].st \in States
BY DEF ThreadsOK, ThreadType, Ready

\* The gathered input put into the reserved turn.
LEMMA DeliverTyped ==
  ASSUME TInv, NEW x \in Threads, Deliver(x) PROVE TInv'
<1> DEFINE r == [th[x] EXCEPT !.at = "drain", !.items = {}, !.st = None, !.input = {}, !.new = "Regular"]
<1>1. r \in ThreadType /\ Ready(r)
  BY Elsewhere, ThreadIs DEF TInv, ThreadType, Ready
<1>2. ThreadsOK'
  BY <1>1, OneMoves DEF TInv, Deliver, ThreadsOK
<1>3. th[x].at \in Holding
  BY DEF Deliver, At, Holding
<1>4. th[x].st \in States /\ th[x].items \subseteq Items
  BY <1>3, HeldState, ThreadIs DEF TInv, ThreadType
<1>5. SharedOK'
  BY <1>4, PutTyped DEF TInv, Deliver
<1>6. RestOK'
  BY DEF TInv, Deliver, RestOK, turns, ghosts
<1> QED
  BY <1>2, <1>5, <1>6 DEF TInv

\* The mailbox drained when a task starts.
LEMMA DrainTyped ==
  ASSUME TInv, NEW x \in Threads, Drain(x) PROVE TInv'
BY Elsewhere, DrainMailboxTyped DEF Drain

\* The task that starts is bound to the active turn.
LEMMA BindTyped ==
  ASSUME TInv, NEW x \in Threads, Bind(x) PROVE TInv'
<1> DEFINE r == [th[x] EXCEPT !.at = "extend", !.st = GetOrInsert.state]
<1>1. GetOrInsert \in ActiveType /\ GetOrInsert.state \in States
  BY InsertTyped DEF TInv, Bind
<1>2. r \in ThreadType /\ Ready(r)
  <2>1. th[x] \in ThreadType /\ "extend" \in Points /\ "extend" \notin {"takeif", "await"}
    BY Using, ThreadIs DEF TInv
  <2>2. r \in ThreadType /\ r.at = "extend" /\ r.st = GetOrInsert.state
    BY <1>1, <2>1 DEF ThreadType
  <2> QED
    BY <1>1, <2>1, <2>2, Members DEF Ready
<1>3. ThreadsOK'
  BY <1>2, OneMoves DEF TInv, Bind, ThreadsOK
<1>4. SharedOK'
  BY InsertTyped DEF TInv, Bind, SharedOK
<1>5. RestOK'
  BY DEF TInv, Bind, RestOK, turns
<1> QED
  BY <1>3, <1>4, <1>5 DEF TInv

\* The drained items put into the turn of the new task.
LEMMA ExtendTurnTyped ==
  ASSUME TInv, NEW x \in Threads, ExtendTurn(x) PROVE TInv'
<1> DEFINE r == [th[x] EXCEPT !.at = "install", !.items = {}]
<1>1. th[x].at \in Holding
  BY DEF ExtendTurn, At, Holding
<1>2. th[x].st \in States /\ th[x].items \subseteq Items
  BY <1>1, HeldState, ThreadIs DEF TInv, ThreadType
<1>3. r \in ThreadType /\ Ready(r)
  <2>1. th[x] \in ThreadType /\ "install" \in Points /\ "install" \notin {"takeif", "await"}
    BY Using, ThreadIs DEF TInv
  <2>2. r \in ThreadType /\ r.at = "install" /\ r.st = th[x].st
    BY <2>1 DEF ThreadType
  <2> QED
    BY <1>2, <2>1, <2>2, Members DEF Ready
<1>4. ThreadsOK'
  BY <1>3, OneMoves DEF TInv, ExtendTurn, ThreadsOK
<1>5. SharedOK'
  BY <1>2, PutTyped DEF TInv, ExtendTurn
<1>6. RestOK'
  BY DEF TInv, ExtendTurn, RestOK, turns, ghosts
<1> QED
  BY <1>4, <1>5, <1>6 DEF TInv

\* The task installed in the active turn.
LEMMA InstallTyped ==
  ASSUME TInv, NEW x \in Threads, Install(x) PROVE TInv'
<1> DEFINE t == CHOOSE u \in Unused : TRUE
<1> DEFINE r == [Thread("run", "done") EXCEPT !.input = th[x].input]
<1>1. t \in Turns
  BY DEF Install, Unused
<1>2. r \in ThreadType /\ Ready(r)
  BY ThreadIs, FreshThread, Elsewhere DEF TInv, ThreadType, Ready
<1>3. Rest(x) \in ThreadType /\ Ready(Rest(x))
  BY RestTyped DEF TInv
<1>4. Thread("done", "done") \in ThreadType /\ Ready(Thread("done", "done"))
  BY FreshThread, Elsewhere
<1>5. \A y \in Threads : th'[y] \in {r, Rest(x), Thread("done", "done"), th[y]}
  BY DEF Install
<1>6. ThreadsOK'
  <2>1. \A y \in Threads : th'[y] \in ThreadType /\ Ready(th'[y])
    BY <1>2, <1>3, <1>4, <1>5, ThreadIs DEF TInv
  <2>2. th' = [y \in Threads |-> th'[y]]
    BY DEF Install
  <2> QED
    BY <2>1, <2>2 DEF ThreadsOK
<1>7. SharedOK'
  <2>1. active' = [GetOrInsert EXCEPT !.task = t] /\ mailbox' = mailbox
    BY DEF Install
  <2>2. active' \in ActiveType
    BY <1>1, <2>1, InsertTyped, Members DEF TInv, Install, ActiveType
  <2> QED
    BY <2>1, <2>2, InsertTyped DEF TInv, Install, SharedOK
<1>8. RestOK'
  <2>1. kind' = [kind EXCEPT ![t] = th[x].new] /\ clash' \in BOOLEAN
    BY DEF Install
  <2>2. th[x].new \in {"Regular", "Compact"}
    BY ThreadIs DEF TInv, ThreadType
  <2> QED
    BY <1>1, <2>1, <2>2 DEF TInv, Install, RestOK
<1> QED
  BY <1>6, <1>7, <1>8 DEF TInv

-----------------------------------------------------------------------------
(* Aborting a turn, and starting one if idle *)

\* Where an abort leaves its thread.
LEMMA AfterAbortTyped ==
  ASSUME ThreadsOK, NEW x \in Threads, NEW aborted \in BOOLEAN
  PROVE  AfterAbort(x, aborted) \in ThreadType /\ Ready(AfterAbort(x, aborted))
<1> DEFINE d == [th[x] EXCEPT !.at = "drain", !.st = None, !.victim = None]
           p == [Rest(x) EXCEPT !.at = "pending"]
<1>1. d \in ThreadType /\ Ready(d)
  BY ThreadIs, Elsewhere DEF ThreadType, Ready
<1>2. p \in ThreadType /\ Ready(p)
  BY RestTyped, Elsewhere DEF ThreadType, Ready
<1>3. AfterAbort(x, aborted) \in {d, p, Rest(x)}
  <2>1. CASE th[x].reason = "Replaced"
    BY <2>1 DEF AfterAbort
  <2>2. CASE th[x].reason # "Replaced" /\ aborted
    BY <2>2 DEF AfterAbort
  <2>3. CASE th[x].reason # "Replaced" /\ ~aborted
    BY <2>3 DEF AfterAbort
  <2> QED
    BY <2>1, <2>2, <2>3
<1> QED
  BY <1>1, <1>2, <1>3, RestTyped

\* A turn whose task is cancelled.
LEMMA CancelTyped ==
  ASSUME TInv, NEW x \in Threads, CancelTask(x), active.task # None
  PROVE  ThreadsOK' /\ cancelled' \subseteq Turns
<1> DEFINE r == [th[x] EXCEPT !.at = IF active.task \in cancelled THEN "clear" ELSE "await",
                              !.victim = active.task, !.st = active.state]
<1>1. active.task \in Turns /\ active.state \in States
  BY DEF TInv, SharedOK, ActiveType
<1>2. r \in ThreadType /\ Ready(r)
  <2>1. CASE active.task \in cancelled
    <3>1. th[x] \in ThreadType /\ Ready(th[x])
      BY Members, ThreadIs DEF TInv
    <3>2. "clear" \in Points /\ "clear" \notin {"takeif", "await"}
      BY Using
    <3> QED
      BY <1>1, <2>1, <3>1, <3>2, Members DEF ThreadType, Ready
  <2>2. CASE active.task \notin cancelled
    <3>1. th[x] \in ThreadType /\ Ready(th[x])
      BY Members, ThreadIs DEF TInv
    <3>2. "await" \in Points
      BY Using
    <3> QED
      BY <1>1, <2>2, <3>1, <3>2, Members DEF ThreadType, Ready
  <2> QED
    BY <2>1, <2>2
<1>3. ThreadsOK'
  BY <1>2, OneMoves DEF TInv, CancelTask, ThreadsOK
<1> QED
  BY <1>1, <1>3 DEF TInv, RestOK, CancelTask

\* No active turn is a value of active_turn.
LEMMA NoTurnTyped == NoTurn \in ActiveType
BY DEF NoTurn, ActiveType

\* abort_all_tasks takes the active turn, and knows its task.
LEMMA TakeActiveTyped ==
  ASSUME TInv, NEW x \in Threads, TakeActive(x) PROVE TInv'
<1>1. SharedOK'
  BY NoTurnTyped DEF TInv, TakeActive, SharedOK
<1>2. ThreadsOK' /\ cancelled' \subseteq Turns
  <2>1. CASE active.task = None
    <3>1. th' = [th EXCEPT ![x] = AfterAbort(x, FALSE)] /\ cancelled' = cancelled
      BY <2>1 DEF TakeActive
    <3> QED
      BY <3>1, AfterAbortTyped, OneMoves DEF TInv, RestOK
  <2>2. CASE active.task # None
    BY <2>2, CancelTyped DEF TakeActive
  <2> QED
    BY <2>1, <2>2
<1>3. RestOK'
  BY <1>2 DEF TInv, TakeActive, RestOK, ghosts
<1> QED
  BY <1>1, <1>2, <1>3 DEF TInv

\* abort_turn_if_active takes the turn it was asked to.
LEMMA TakeIfActiveTyped ==
  ASSUME TInv, NEW x \in Threads, TakeIfActive(x) PROVE TInv'
<1>1. SharedOK'
  BY NoTurnTyped DEF TInv, TakeIfActive, SharedOK
<1>2. ThreadsOK' /\ cancelled' \subseteq Turns
  <2>1. CASE active.task = th[x].victim
    <3>1. th[x].victim # None
      BY ThreadIs DEF TInv, TakeIfActive, At, Ready
    <3> QED
      BY <2>1, <3>1, CancelTyped DEF TakeIfActive
  <2>2. CASE active.task # th[x].victim
    BY <2>2, ReturnTyped DEF TInv, RestOK, TakeIfActive
  <2> QED
    BY <2>1, <2>2
<1>3. RestOK'
  BY <1>2 DEF TInv, TakeIfActive, RestOK, ghosts
<1> QED
  BY <1>1, <1>2, <1>3 DEF TInv

\* The abort waits for the task and reports its end.
LEMMA AwaitTaskTyped ==
  ASSUME TInv, NEW x \in Threads, AwaitTask(x) PROVE TInv'
<1> DEFINE v == th[x].victim
           r == [th[x] EXCEPT !.at = "clear"]
           d == Thread("done", "done")
<1>1. v \in Turns /\ v \in Threads
  BY ThreadIs, Members DEF TInv, AwaitTask, At, ThreadType, Ready
<1>2. th[x].at \in Holding
  BY DEF AwaitTask, At, Holding
<1>3. r \in ThreadType /\ Ready(r)
  BY <1>2, Using, ThreadIs DEF TInv, ThreadType, Ready
<1>4. d \in ThreadType /\ Ready(d)
  BY FreshThread, Elsewhere
<1>5. ThreadsOK'
  <2>1. th' = [th EXCEPT ![x].at = "clear", ![v] = d]
    BY DEF AwaitTask
  <2>2. th' = [[th EXCEPT ![x] = r] EXCEPT ![v] = d]
    BY <2>1, <1>1 DEF TInv, ThreadsOK, ThreadType
  <2> QED
    BY <1>1, <1>3, <1>4, <2>2 DEF TInv, ThreadsOK
<1>6. SharedOK'
  BY DEF TInv, AwaitTask, SharedOK, shared
<1>7. RestOK'
  <2>1. th[v].input \subseteq Items /\ th[v].items \subseteq Items
    BY <1>1, ThreadIs DEF TInv, ThreadType
  <2>2. ends' \in [Turns -> Nat]
    BY <1>1 DEF TInv, RestOK, AwaitTask
  <2> QED
    BY <2>1, <2>2 DEF TInv, AwaitTask, RestOK
<1> QED
  BY <1>5, <1>6, <1>7 DEF TInv

\* The abort drops the input of the turn.
LEMMA ClearPendingTyped ==
  ASSUME TInv, NEW x \in Threads, ClearPending(x) PROVE TInv'
<1>1. th[x].at \in Holding
  BY DEF ClearPending, At, Holding
<1>2. th[x].st \in States
  BY <1>1, HeldState DEF TInv
<1>3. ThreadsOK'
  BY AfterAbortTyped, OneMoves DEF TInv, ClearPending
<1>4. SharedOK'
  BY <1>2 DEF TInv, ClearPending, SharedOK
<1>5. RestOK'
  BY <1>2 DEF TInv, ClearPending, SharedOK, RestOK, turns
<1> QED
  BY <1>3, <1>4, <1>5 DEF TInv

\* An idle session reserved for input.
LEMMA IdleReserveTyped ==
  ASSUME TInv, NEW x \in Threads, IdleReserve(x) PROVE TInv'
<1>1. RestOK'
  BY DEF TInv, IdleReserve, RestOK, turns, ghosts
<1>2. CASE active # NoTurn
  <2>1. ThreadsOK'
    BY <1>2, ReturnTyped DEF TInv, IdleReserve
  <2>2. SharedOK'
    BY <1>2 DEF TInv, IdleReserve, SharedOK
  <2> QED
    BY <1>1, <2>1, <2>2 DEF TInv
<1>3. CASE active = NoTurn
  <2> DEFINE r == [th[x] EXCEPT !.at = "idlerecheck", !.st = FreeState]
  <2>1. FreeState \in States
    BY <1>3, FreeTyped DEF IdleReserve
  <2>2. r \in ThreadType /\ Ready(r)
    <3>1. th[x] \in ThreadType /\ Ready(th[x])
      BY Members, ThreadIs DEF TInv
    <3>2. "idlerecheck" \in Points /\ "idlerecheck" \notin {"takeif", "await"}
      BY Using
    <3> QED
      BY <2>1, <3>1, <3>2, Members DEF ThreadType, Ready
  <2>3. ThreadsOK'
    BY <1>3, <2>2, OneMoves DEF TInv, IdleReserve, ThreadsOK
  <2>4. SharedOK'
    BY <1>3, InsertTyped DEF TInv, IdleReserve, SharedOK
  <2> QED
    BY <1>1, <2>3, <2>4 DEF TInv
<1> QED
  BY <1>2, <1>3

\* The reservation given back.
LEMMA IdleRefusedTyped ==
  ASSUME TInv, NEW x \in Threads, IdleRefused(x) PROVE TInv'
<1>1. ThreadsOK'
  BY ReturnTyped DEF TInv, IdleRefused
<1>2. SharedOK'
  BY NoTurnTyped DEF TInv, IdleRefused, ClearReserved, SharedOK
<1>3. RestOK'
  BY DEF TInv, IdleRefused, RestOK, turns, ghosts
<1> QED
  BY <1>1, <1>2, <1>3 DEF TInv

\* The reserved turn started.
LEMMA IdleStartsTyped ==
  ASSUME TInv, NEW x \in Threads, IdleStarts(x) PROVE TInv'
<1>1. ThreadsOK'
  BY GotoTyped, Elsewhere DEF TInv, IdleStarts
<1>2. SharedOK'
  BY DEF TInv, IdleStarts, SharedOK, shared
<1>3. th[x].input \subseteq Items
  BY ThreadIs DEF TInv, ThreadType
<1>4. RestOK'
  BY <1>3 DEF TInv, IdleStarts, RestOK, turns
<1> QED
  BY <1>1, <1>2, <1>4 DEF TInv

-----------------------------------------------------------------------------
(* The task of a turn *)

\* Inputs recorded in the history, or dropped by a hook.
LEMMA RecordTyped ==
  ASSUME RestOK, NEW new \in SUBSET Items, NEW blocked \in SUBSET new, RecordInputs(new, blocked)
  PROVE  history' \subseteq Items /\ dropped' \subseteq Items
BY DEF RestOK, RecordInputs

\* The task records its input and starts to sample.
LEMMA RunTyped ==
  ASSUME TInv, NEW t \in Turns, Run(t) PROVE TInv'
<1>1. t \in Threads /\ th[t] \in ThreadType /\ Ready(th[t]) /\ th[t].input \subseteq Items
  BY Members, ThreadIs DEF TInv, ThreadType
<1>2. PICK blocked \in SUBSET (th[t].input \intersect Blockable),
           pt \in {"finish", "recheck", "sample", "answer"} :
        /\ RecordInputs(th[t].input, blocked)
        /\ th' = [th EXCEPT ![t] = [@ EXCEPT !.at = pt, !.input = {}]]
  <2>1. PICK blocked \in SUBSET (th[t].input \intersect Blockable) :
          /\ RecordInputs(th[t].input, blocked)
          /\ th' = [th EXCEPT ![t] =
                   [@ EXCEPT !.at = CASE kind[t] = "Compact" -> "finish"
                                      [] kind[t] # "Compact" /\ Stopped(th[t].input, blocked) -> "recheck"
                                      [] kind[t] # "Compact" /\ th[t].input = {} -> "sample"
                                      [] OTHER -> "answer",
                             !.input = {}]]
    BY DEF Run
  <2> DEFINE pt == CASE kind[t] = "Compact" -> "finish"
                     [] kind[t] # "Compact" /\ Stopped(th[t].input, blocked) -> "recheck"
                     [] kind[t] # "Compact" /\ th[t].input = {} -> "sample"
                     [] OTHER -> "answer"
  <2>2. pt \in {"finish", "recheck", "sample", "answer"}
    OBVIOUS
  <2>3. th' = [th EXCEPT ![t] = [@ EXCEPT !.at = pt, !.input = {}]]
    BY <2>1
  <2> HIDE DEF pt
  <2> QED
    BY <2>1, <2>2, <2>3
<1> DEFINE r == [th[t] EXCEPT !.at = pt, !.input = {}]
<1>3. r \in ThreadType /\ Ready(r)
  BY <1>1, Elsewhere DEF ThreadType, Ready
<1>4. ThreadsOK'
  BY <1>1, <1>2, <1>3, OneMoves DEF TInv, ThreadsOK
<1>5. SharedOK'
  BY DEF TInv, Run, SharedOK, shared
<1>6. RestOK'
  BY <1>1, <1>2, RecordTyped DEF TInv, Run, RestOK, turns
<1> QED
  BY <1>4, <1>5, <1>6 DEF TInv

\* The turn ends its attempt and its input is given up.
LEMMA GivesUpInput ==
  ASSUME TInv, NEW t \in Turns, StartHookStops(t) \/ RunFails(t) PROVE TInv'
<1>1. t \in Threads /\ th[t] \in ThreadType /\ Ready(th[t]) /\ th[t].input \subseteq Items
  BY Members, ThreadIs DEF TInv, ThreadType
<1>2. PICK pt \in {"recheck", "finish"} : th' = [th EXCEPT ![t] = [@ EXCEPT !.at = pt, !.input = {}]]
  BY DEF StartHookStops, RunFails
<1> DEFINE r == [th[t] EXCEPT !.at = pt, !.input = {}]
<1>3. r \in ThreadType /\ Ready(r)
  BY <1>1, Elsewhere DEF ThreadType, Ready
<1>4. ThreadsOK'
  BY <1>1, <1>2, <1>3, OneMoves DEF TInv, ThreadsOK
<1>5. SharedOK'
  BY DEF TInv, StartHookStops, RunFails, SharedOK, shared
<1>6. RestOK'
  BY <1>1 DEF TInv, StartHookStops, RunFails, RestOK, turns
<1> QED
  BY <1>4, <1>5, <1>6 DEF TInv

\* The pending input and the mail taken for a sampling request.
LEMMA SampleTyped ==
  ASSUME TInv, NEW t \in Turns, Sample(t) \/ SampleMail(t) PROVE TInv'
<1>1. TakePending(t, "samplemail", "record") \/ DrainMailbox(t, "record")
  BY DEF Sample, SampleMail
<1>2. {"samplemail", "record"} \intersect Holding = {}
  BY Elsewhere
<1> QED
  BY <1>1, <1>2, Members, Elsewhere, TakePendingTyped, DrainMailboxTyped

\* What was taken is recorded before the request.
LEMMA RecordStepTyped ==
  ASSUME TInv, NEW t \in Turns, Record(t) PROVE TInv'
<1>1. t \in Threads /\ th[t] \in ThreadType /\ Ready(th[t]) /\ th[t].items \subseteq Items
  BY Members, ThreadIs DEF TInv, ThreadType
<1>2. PICK blocked \in SUBSET (th[t].items \intersect Blockable) :
        /\ RecordInputs(th[t].items, blocked)
        /\ th' = [th EXCEPT ![t] =
                   [@ EXCEPT !.at = IF Stopped(th[t].items, blocked) THEN "recheck" ELSE "answer",
                             !.items = {}]]
  BY DEF Record
<1>3. PICK pt \in {"recheck", "answer"} : th' = [th EXCEPT ![t] = [@ EXCEPT !.at = pt, !.items = {}]]
  BY <1>2
<1> DEFINE r == [th[t] EXCEPT !.at = pt, !.items = {}]
<1>4. r \in ThreadType /\ Ready(r)
  BY <1>1, Elsewhere DEF ThreadType, Ready
<1>5. ThreadsOK'
  BY <1>1, <1>3, <1>4, OneMoves DEF TInv, ThreadsOK
<1>6. SharedOK'
  BY DEF TInv, Record, SharedOK, shared
<1>7. RestOK'
  BY <1>1, <1>2, RecordTyped DEF TInv, Record, RestOK, turns
<1> QED
  BY <1>5, <1>6, <1>7 DEF TInv

\* Steps that only move the task on, and may change the delivery phase.
LEMMA MovesOn ==
  ASSUME TInv, NEW t \in Turns, NEW pt \in {"sample", "answer", "check", "recheck", "run", "finish", "taketask"},
         Goto(t, pt), phase' \in [States -> {"CurrentTurn", "NextTurn"}],
         submitted' \subseteq Items \union Controls,
         UNCHANGED <<active, pending, mailbox, history, turns, ghosts>>
  PROVE  TInv'
<1>1. ThreadsOK'
  BY GotoTyped, Members, Elsewhere DEF TInv
<1>2. SharedOK'
  BY DEF TInv, SharedOK
<1>3. RestOK'
  BY DEF TInv, RestOK, turns, ghosts
<1> QED
  BY <1>1, <1>2, <1>3 DEF TInv

\* Mail accepted by the current turn again.
LEMMA AcceptTyped ==
  ASSUME SharedOK, NEW t \in Turns, AcceptMail(t)
  PROVE  phase' \in [States -> {"CurrentTurn", "NextTurn"}]
BY DEF SharedOK, AcceptMail

\* The model answers, or the task looks for more input.
LEMMA AnswerTyped ==
  ASSUME TInv, NEW t \in Turns,
         FollowUp(t) \/ FinalAnswer(t) \/ EmptyAnswer(t) \/ TurnFails(t)
           \/ CheckPending(t) \/ StopHookBlocks(t) \/ RecheckPending(t)
  PROVE  TInv'
<1> USE DEF TInv
<1>0. phase \in [States -> {"CurrentTurn", "NextTurn"}] /\ submitted \subseteq Items \union Controls
  BY DEF SharedOK, RestOK
<1>1. CASE FollowUp(t)
  BY <1>0, <1>1, AcceptTyped, MovesOn DEF FollowUp
<1>2. CASE FinalAnswer(t)
  <2>1. phase' \in [States -> {"CurrentTurn", "NextTurn"}]
    BY <1>0, <1>2 DEF FinalAnswer
  <2> QED
    BY <1>0, <1>2, <2>1, MovesOn DEF FinalAnswer
<1>3. CASE EmptyAnswer(t)
  BY <1>0, <1>3, MovesOn DEF EmptyAnswer, shared
<1>4. CASE TurnFails(t)
  BY <1>0, <1>4, MovesOn DEF TurnFails, shared
<1>5. CASE CheckPending(t)
  BY <1>0, <1>5, MovesOn DEF CheckPending, shared
<1>6. CASE StopHookBlocks(t)
  <2>1. submitted' \subseteq Items \union Controls
    BY <1>0, <1>6 DEF StopHookBlocks
  <2> QED
    BY <1>6, <2>1, AcceptTyped, MovesOn DEF StopHookBlocks
<1>7. CASE RecheckPending(t)
  BY <1>0, <1>7, MovesOn DEF RecheckPending, shared
<1> QED
  BY <1>1, <1>2, <1>3, <1>4, <1>5, <1>6, <1>7

\* The task notices that it is cancelled.
LEMMA ObserveCancelTyped ==
  ASSUME TInv, NEW t \in Turns, ObserveCancel(t) PROVE TInv'
<1>1. t \in Threads /\ th[t].input \subseteq Items /\ th[t].items \subseteq Items
  BY Members, ThreadIs DEF TInv, ThreadType
<1>2. ThreadsOK'
  BY <1>1, FreshThread, Elsewhere, OneMoves DEF TInv, ObserveCancel
<1>3. SharedOK'
  BY DEF TInv, ObserveCancel, SharedOK, shared
<1>4. RestOK'
  BY <1>1 DEF TInv, ObserveCancel, RestOK, turns
<1> QED
  BY <1>2, <1>3, <1>4 DEF TInv

-----------------------------------------------------------------------------
(* Finishing a turn *)

\* The task is over and finishes unless it is cancelled.
LEMMA FinishTyped ==
  ASSUME TInv, NEW t \in Turns, Finish(t) PROVE TInv'
<1>1. ThreadsOK'
  BY Members, GotoTyped, ReturnTyped, Elsewhere DEF TInv, Finish
<1>2. SharedOK'
  BY DEF TInv, Finish, SharedOK, shared
<1>3. RestOK'
  BY DEF TInv, Finish, RestOK, turns, ghosts
<1> QED
  BY <1>1, <1>2, <1>3 DEF TInv

\* on_task_finished takes the task out of the active turn.
LEMMA TakeTaskTyped ==
  ASSUME TInv, NEW t \in Turns, TakeTask(t) PROVE TInv'
<1>1. RestOK'
  BY DEF TInv, TakeTask, RestOK, turns, ghosts
<1>2. CASE active.task = None
  <2>1. ThreadsOK'
    BY <1>2, Members, ReturnTyped DEF TInv, TakeTask
  <2>2. SharedOK'
    BY <1>2 DEF TInv, TakeTask, SharedOK
  <2> QED
    BY <1>1, <2>1, <2>2 DEF TInv
<1>3. CASE active.task # None
  <2> DEFINE r == [th[t] EXCEPT !.at = "takeinput", !.st = active.state]
  <2>1. active.state \in States /\ t \in Threads
    BY <1>3, Members DEF TInv, SharedOK, ActiveType
  <2>2. r \in ThreadType /\ Ready(r)
    <3>1. th[t] \in ThreadType /\ Ready(th[t])
      BY <2>1, Members, ThreadIs DEF TInv
    <3>2. "takeinput" \in Points /\ "takeinput" \notin {"takeif", "await"}
      BY Using
    <3> QED
      BY <2>1, <3>1, <3>2, Members DEF ThreadType, Ready
  <2>3. ThreadsOK'
    BY <1>3, <2>1, <2>2, OneMoves DEF TInv, TakeTask, ThreadsOK
  <2>4. SharedOK'
    BY <1>3 DEF TInv, TakeTask, SharedOK, ActiveType
  <2> QED
    BY <1>1, <2>3, <2>4 DEF TInv
<1> QED
  BY <1>2, <1>3

\* on_task_finished takes the pending input of the turn.
LEMMA TakeInputTyped ==
  ASSUME TInv, NEW t \in Turns, TakeInput(t) PROVE TInv'
<1> DEFINE r == [th[t] EXCEPT !.at = "complete", !.items = pending[th[t].st]]
<1>1. t \in Threads /\ th[t].at \in Holding
  BY Members DEF TakeInput, At, Holding
<1>2. th[t].st \in States /\ pending[th[t].st] \subseteq Items
  BY <1>1, HeldState DEF TInv, SharedOK
<1>3. r \in ThreadType /\ Ready(r)
  <2>1. th[t] \in ThreadType /\ Ready(th[t])
    BY <1>1, Members, ThreadIs DEF TInv
  <2>2. "complete" \in Points /\ "complete" \notin {"takeif", "await"}
    BY Using
  <2> QED
    BY <1>1, <1>2, <2>1, <2>2, Members DEF ThreadType, Ready
<1>4. ThreadsOK'
  BY <1>1, <1>3, OneMoves DEF TInv, TakeInput, ThreadsOK
<1>5. SharedOK'
  BY DEF TInv, TakeInput, SharedOK
<1>6. RestOK'
  BY DEF TInv, TakeInput, RestOK, turns, ghosts
<1> QED
  BY <1>4, <1>5, <1>6 DEF TInv

\* The leftover input recorded and the turn reported complete.
LEMMA CompleteTyped ==
  ASSUME TInv, NEW t \in Turns, Complete(t) PROVE TInv'
<1> DEFINE r == [th[t] EXCEPT !.at = "release", !.items = {}]
<1>1. t \in Threads /\ th[t].at \in Holding
  BY Members DEF Complete, At, Holding
<1>2. th[t].items \subseteq Items
  BY <1>1, ThreadIs DEF TInv, ThreadType
<1>3. r \in ThreadType /\ Ready(r)
  BY <1>1, ThreadIs, Using DEF TInv, ThreadType, Ready
<1>4. ThreadsOK'
  BY <1>1, <1>3, OneMoves DEF TInv, Complete, ThreadsOK
<1>5. SharedOK'
  BY DEF TInv, Complete, SharedOK, shared
<1>6. RestOK'
  <2>1. PICK blocked \in SUBSET (th[t].items \intersect Blockable) : RecordInputs(th[t].items, blocked)
    BY DEF Complete
  <2>2. history' \subseteq Items /\ dropped' \subseteq Items
    BY <1>2, <2>1, RecordTyped DEF TInv
  <2>3. ends' \in [Turns -> Nat]
    BY DEF TInv, Complete, RestOK
  <2> QED
    BY <2>2, <2>3 DEF TInv, Complete, RestOK
<1> QED
  BY <1>4, <1>5, <1>6 DEF TInv

\* The active turn cleared if no task was put in it.
LEMMA ReleaseTyped ==
  ASSUME TInv, NEW t \in Turns, Release(t) PROVE TInv'
<1> DEFINE r == [Rest(t) EXCEPT !.at = "pending"]
<1>1. r \in ThreadType /\ Ready(r)
  BY Members, RestTyped, Elsewhere DEF TInv, ThreadType, Ready
<1>2. ThreadsOK'
  BY <1>1, Members, OneMoves, ReturnTyped DEF TInv, Release
<1>3. SharedOK'
  BY NoTurnTyped DEF TInv, Release, SharedOK
<1>4. RestOK'
  BY DEF TInv, Release, RestOK, turns, ghosts
<1> QED
  BY <1>2, <1>3, <1>4 DEF TInv

-----------------------------------------------------------------------------
\* The invariant holds of a new session, whatever operations it is not sent.
LEMMA StartTyped ==
  ASSUME NEW never \in SUBSET (Items \union Controls), InitWithout(never) PROVE TInv
<1>1. \A x \in Threads : th[x] \in {Thread("unborn", "done"), Thread("idle", "idle")}
  BY DEF InitWithout
<1>2. ThreadsOK
  BY <1>1, FreshThread, Elsewhere DEF InitWithout, ThreadsOK
<1>3. SharedOK
  BY NoTurnTyped DEF InitWithout, SharedOK
<1>4. RestOK
  BY DEF InitWithout, RestOK
<1> QED
  BY <1>2, <1>3, <1>4 DEF TInv

\* So of the initial states.
LEMMA InitTyped == Init => TInv
BY StartTyped DEF Init

\* A step that changes nothing keeps the invariant.
LEMMA StutterTyped == ASSUME TInv, UNCHANGED vars PROVE TInv'
<1>1. ThreadsOK'
  BY ThreadsStay DEF TInv, vars
<1>2. SharedOK'
  BY DEF TInv, vars, SharedOK, shared
<1>3. RestOK'
  BY DEF TInv, vars, RestOK, turns, ghosts
<1> QED
  BY <1>1, <1>2, <1>3 DEF TInv

\* Every step of every thread keeps the invariant.
LEMMA NextTyped == ASSUME TInv, Next PROVE TInv'
<1>1. CASE Operation
  <2>1. Mail = Triggers \union Quiets
    BY DEF Mail
  <2> QED
    BY <1>1, StartTurnTyped, SteerTyped, NotSteerableTyped, IdleCheckTyped, SendMailTyped, InjectTyped,
       InterruptTyped, CompactTyped, ShutdownTyped, GuardianTripsTyped DEF Operation
<1>2. ASSUME NEW x \in Threads, Starting(x) PROVE TInv'
  BY <1>2, CheckMailTyped, ReserveTyped, GatherTyped, DeliverTyped, DrainTyped, BindTyped,
     ExtendTurnTyped, InstallTyped DEF Starting
<1>3. ASSUME NEW x \in Threads, Aborting(x) PROVE TInv'
  BY <1>3, TakeActiveTyped, TakeIfActiveTyped, AwaitTaskTyped, ClearPendingTyped DEF Aborting
<1>4. ASSUME NEW x \in Threads, Idling(x) PROVE TInv'
  BY <1>4, IdleReserveTyped, IdleRefusedTyped, IdleStartsTyped DEF Idling
<1>5. ASSUME NEW t \in Turns, Finishing(t) PROVE TInv'
  BY <1>5, FinishTyped, TakeTaskTyped, TakeInputTyped, CompleteTyped, ReleaseTyped DEF Finishing
<1>6. ASSUME NEW t \in Turns, Sampling(t) PROVE TInv'
  BY <1>6, RunTyped, GivesUpInput, SampleTyped, RecordStepTyped, AnswerTyped, ObserveCancelTyped
     DEF Sampling
<1> QED
  BY <1>1, <1>2, <1>3, <1>4, <1>5, <1>6 DEF Next

\* The fields of the session and the locals of every thread keep their types,
\* and a thread has the turn state it uses, for any number of turns and items
\* and whatever operations, aborts and mail interleave (tasks/mod.rs).
THEOREM TurnTypesCorrect == Spec => []TypeOK
<1>1. TInv /\ [Next]_vars => TInv'
  BY NextTyped, StutterTyped
<1> QED
  BY <1>1, InitTyped, TInvTypeOK, PTL DEF Spec

-----------------------------------------------------------------------------
(* The order of the turns *)

\* Nothing competes for the start of a turn: either no mail asks for one, or
\* turns are started by mail and by input that needs an idle session, and are
\* aborted by the guardian only.  Each case left out has a counterexample: mail
\* with user input (turns_overwrite), mail with an abort by the submission loop
\* (the reserved turn is taken).
Uncontended ==
  \/ Triggers = {}
  \/ Users = {} /\ Controls \intersect {"interrupt", "compact", "shutdown"} = {}

\* The guardian lets finished turns take their own tasks: it does not abort one
\* whose successor then starts between the last look at the cancellation token
\* and the take (turns_takeover).  Without a guardian nothing is assumed.
Undisturbed == "guardian" \in Controls => OwnTaskTaken

\* Points between the reservation of a turn and the task put into it: at the
\* claimed ones the thread knows the turn state of the turn it starts.
Claimed  == {"idlerecheck", "gather", "gathermail", "deliver", "extend", "install"}
Starters == Claimed \union {"drain", "bind"}

\* Points of on_task_finished after it took the task of its turn, points of a
\* task before that, and points of an abort after it took the active turn.
Closing  == {"takeinput", "complete", "release"}
Busy     == Working \union {"finish", "taketask"}
Aborts   == {"await", "clear"}

\* Which thread can be where.  The submission loop and the guardian abort, the
\* former only when no mail starts turns; only mail has a finished turn or the
\* guardian start another.
PlacesOK ==
  /\ th[Guardian].at \in (Starters \ {"idlerecheck"}) \union Aborts
                           \union {"idle", "takeif", "pending", "reserve"}
  /\ th[Guardian].back = "idle"
  /\ "guardian" \notin Controls => th[Guardian].at = "idle"
  /\ th[Guardian].at \in Aborts \union {"idle", "takeif"} => th[Guardian].reason = "Interrupted"
  /\ th[Submission].at \in Starters \union Aborts
                             \union {"idle", "closed", "idlereserve", "take", "pending", "reserve"}
  /\ th[Submission].back \in {"idle", "closed"}
  /\ \A t \in Turns : th[t].at \in (Starters \ {"idlerecheck"}) \union Busy \union Closing
                                     \union {"unborn", "done", "pending", "reserve"}
  /\ \A t \in Turns : th[t].back = "done"
  /\ Triggers = {} =>
       /\ \A x \in Threads : x # Submission => th[x].at \notin Starters \union {"reserve"}
       /\ th[Submission].at \notin {"reserve", "gather", "gathermail", "deliver"}
  /\ Triggers # {} => th[Submission].at \notin Aborts \union {"take"}

\* The task of the active turn is the one task at work that is not aborted.
TasksOK ==
  /\ \A t \in Turns : th[t].at \in Busy /\ t \notin cancelled => active.task = t
  /\ active.task # None => th[active.task].at \in Busy /\ active.task \notin cancelled
  /\ \A t \in Turns : kind[t] = "none" <=> th[t].at = "unborn"

\* One thread at a time starts a turn; the active turn is its reservation, and
\* an active turn without a task is one, or is being released by its own turn.
ClaimsOK ==
  /\ \A x \in Threads : th[x].at \in Claimed => active.task = None /\ active.state = th[x].st
  /\ \A x \in Threads : th[x].at \in {"drain", "bind"} =>
       /\ active.task = None
       /\ th[x].st # None => active.state = th[x].st
       /\ Triggers # {} => active # NoTurn
  /\ \A x, y \in Threads : th[x].at \in Starters /\ th[y].at \in Starters => x = y
  /\ th[Submission].at \in Aborts => active = NoTurn
  /\ (active # NoTurn /\ active.task = None) =>
       \/ \E x \in Threads : th[x].at \in Starters
       \/ \E t \in Turns : th[t].at \in Closing /\ th[t].st = active.state

\* The turn state of a turn that finishes is not shared with another such turn,
\* with a running or reserved turn, or with a turn being aborted; nor is that of
\* a turn being aborted.
StatesOK ==
  /\ \A t, u \in Turns : (th[t].at \in Closing /\ th[u].at \in Closing /\ t # u) => th[t].st # th[u].st
  /\ \A t \in Turns : th[t].at \in Closing =>
       /\ active.task # None => active.state # th[t].st
       /\ (\E x \in Threads : th[x].at \in Starters) => active.state # th[t].st
       /\ \A x \in Threads : th[x].at \in Aborts => th[x].st # th[t].st
  /\ \A x \in Threads : th[x].at \in Aborts =>
       /\ active.state # th[x].st
       /\ \A y \in Threads : th[y].at \in Aborts /\ x # y => th[x].st # th[y].st
  /\ \A x \in Threads : th[x].at \notin Starters \union Closing \union Aborts => th[x].st = None

\* When each turn has sent its terminal event: on_task_finished sends that of a
\* turn that is not aborted, handle_task_abort that of one that is.
EndsOK ==
  /\ \A t \in Turns :
       /\ th[t].at \in Busy \union {"unborn", "takeinput", "complete"} => ends[t] = 0
       /\ (th[t].at \in Starters \union {"release", "pending", "reserve", "done"} /\ t \notin cancelled)
            => ends[t] = 1
       /\ t \in cancelled =>
            \/ /\ th[t].at \in Busy \union {"done"} /\ ends[t] = 0
               /\ \E x \in Threads : th[x].at = "await" /\ th[x].victim = t
            \/ th[t].at = "done" /\ ends[t] = 1
  /\ \A x \in Threads : th[x].at = "await" => th[x].victim \in cancelled /\ ends[th[x].victim] = 0
  /\ \A x \in Threads : th[x].at = "clear" => th[x].victim \in cancelled /\ ends[th[x].victim] = 1
  /\ \A x, y \in Threads : (th[x].at = "await" /\ th[y].at = "await" /\ th[x].victim = th[y].victim) => x = y

\* The inductive invariant of the order of the turns.
Ordered == PlacesOK /\ TasksOK /\ ClaimsOK /\ StatesOK /\ EndsOK /\ ~clash

\* What every step is shown to keep.
Inv == TInv /\ Ordered

\* The kinds of points and which points are of them.
LEMMA Kinds ==
  /\ Busy \intersect (Starters \union Closing \union Aborts) = {}
  /\ Starters \intersect (Closing \union Aborts) = {}
  /\ Closing \intersect Aborts = {}
  /\ \A pt \in {"idle", "closed", "unborn", "done", "idlereserve", "take", "takeif", "pending", "reserve"} :
       pt \notin Busy \union Starters \union Closing \union Aborts
  /\ Starters = Claimed \union {"drain", "bind"} /\ Claimed \intersect {"drain", "bind"} = {}
  /\ Closing = {"takeinput", "complete", "release"} /\ Aborts = {"await", "clear"}
BY DEF Busy, Starters, Claimed, Closing, Aborts, Working

\* The threads are the turns, the submission loop and the guardian.
LEMMA Distinct ==
  /\ Submission \notin Turns /\ Guardian \notin Turns /\ Submission # Guardian
  /\ None \notin Threads /\ None \notin Turns /\ None \notin States
  /\ Submission \in Threads /\ Guardian \in Threads /\ Turns \subseteq Threads
  /\ \A x \in Threads : x \in Turns \/ x = Submission \/ x = Guardian
BY TurnAssumption DEF Threads

\* What the types say of the active turn and of the turn being aborted.
LEMMA Typed ==
  ASSUME TInv
  PROVE  /\ active.task \in Turns \union {None}
         /\ active.state \in States \union {None}
         /\ active.task # None => active.state # None
         /\ (active = NoTurn) = (active.task = None /\ active.state = None)
         /\ \A x \in Threads : th[x].at \in Claimed \union Closing \union Aborts => th[x].st \in States
         /\ \A x \in Threads : th[x].at = "await" => th[x].victim \in Turns
         /\ \A x \in Threads : th[x].st \in States \union {None}
         /\ cancelled \subseteq Turns
         /\ ends \in [Turns -> Nat]
<1>1. active \in ActiveType /\ th \in [Threads -> ThreadType] /\ \A x \in Threads : Ready(th[x])
  BY DEF TInv, SharedOK, ThreadsOK
<1>2. Claimed \union Closing \union Aborts \subseteq Holding
  BY DEF Claimed, Closing, Aborts, Holding
<1>3. \A x \in Threads : th[x].at \in Claimed \union Closing \union Aborts => th[x].st \in States
  BY <1>1, <1>2 DEF ThreadType, Ready
<1>4. \A x \in Threads : th[x].at = "await" => th[x].victim \in Turns
  BY <1>1 DEF ThreadType, Ready
<1>5. \A x \in Threads : th[x].st \in States \union {None}
  BY <1>1 DEF ThreadType
<1> QED
  BY <1>1, <1>3, <1>4, <1>5 DEF ActiveType, NoTurn, TInv, RestOK

\* A thread goes on at a point pt.
LEMMA Goes ==
  ASSUME ThreadsOK, NEW x \in Threads, NEW pt, Goto(x, pt)
  PROVE  /\ th'[x].at = pt /\ th'[x].st = th[x].st /\ th'[x].back = th[x].back
         /\ \A y \in Threads : y # x => th'[y] = th[y]
BY DEF ThreadsOK, ThreadType, Goto

\* A thread goes on at a point pt with other items or input.
LEMMA GoesOn ==
  ASSUME ThreadsOK, NEW x \in Threads, NEW pt, NEW s,
         \/ th' = [th EXCEPT ![x] = [@ EXCEPT !.at = pt, !.items = s]]
         \/ th' = [th EXCEPT ![x] = [@ EXCEPT !.at = pt, !.input = s]]
  PROVE  /\ th'[x].at = pt /\ th'[x].st = th[x].st /\ th'[x].back = th[x].back
         /\ \A y \in Threads : y # x => th'[y] = th[y]
BY DEF ThreadsOK, ThreadType

\* The operation of a thread is over.
LEMMA Returns ==
  ASSUME ThreadsOK, NEW x \in Threads, Return(x)
  PROVE  /\ th'[x] = Thread(th[x].back, th[x].back)
         /\ th'[x].at = th[x].back /\ th'[x].st = None /\ th'[x].back = th[x].back
         /\ th'[x].reason = "Interrupted"
         /\ \A y \in Threads : y # x => th'[y] = th[y]
BY DEF ThreadsOK, Return, Rest, Thread

\* A task goes on with its work.
LEMMA BusyMoves ==
  ASSUME Inv, NEW t \in Turns,
         th[t].at \in Busy, th'[t].at \in Busy, th'[t].st = th[t].st, th'[t].back = th[t].back,
         \A y \in Threads : y # t => th'[y] = th[y],
         UNCHANGED <<active, kind, cancelled, ends, clash>>
  PROVE  Ordered'
<1> USE Kinds, Distinct, Typed DEF Inv, Ordered
<1>1. PlacesOK'
  BY DEF PlacesOK
<1>2. TasksOK'
  BY DEF TasksOK
<1>3. ClaimsOK'
  BY DEF ClaimsOK
<1>4. StatesOK'
  BY DEF StatesOK
<1>5. EndsOK'
  BY DEF EndsOK
<1> QED
  BY <1>1, <1>2, <1>3, <1>4, <1>5

\* No thread moves and no turn changes.
LEMMA NobodyMoves ==
  ASSUME Inv, UNCHANGED <<th, active, kind, cancelled, ends, clash>>
  PROVE  Ordered'
BY DEF Inv, Ordered, PlacesOK, TasksOK, ClaimsOK, StatesOK, EndsOK

\* A thread moves between points at which it claims nothing.
LEMMA FreeMoves ==
  ASSUME Inv, NEW x \in Threads,
         x = Guardian => /\ "guardian" \in Controls
                         /\ th[x].at \in {"idle", "takeif", "pending", "reserve"}
                         /\ th'[x].at \in {"idle", "takeif", "pending", "reserve"}
                         /\ th'[x].back = "idle"
                         /\ th'[x].at \in {"idle", "takeif"} => th'[x].reason = "Interrupted",
         x \in Turns => /\ th[x].at \in {"pending", "reserve"}
                        /\ th'[x].at \in {"pending", "reserve", "done"}
                        /\ th'[x].back = "done",
         x = Submission => /\ th[x].at \in {"idle", "idlereserve", "take", "pending", "reserve"}
                           /\ th'[x].at \in {"idle", "closed", "idlereserve", "take", "pending", "reserve"}
                           /\ th'[x].back \in {"idle", "closed"},
         th'[x].at = "reserve" => Triggers # {},
         th'[x].at = "take" => Triggers = {},
         th'[x].st = None,
         \A y \in Threads : y # x => th'[y] = th[y],
         UNCHANGED <<active, kind, cancelled, ends, clash>>
  PROVE  Ordered'
<1> USE Kinds, Distinct, Typed DEF Inv, Ordered
<1>1. PlacesOK'
  BY DEF PlacesOK
<1>2. TasksOK'
  BY DEF TasksOK
<1>3. ClaimsOK'
  BY DEF ClaimsOK
<1>4. StatesOK'
  BY DEF StatesOK
<1>5. EndsOK'
  BY DEF EndsOK
<1> QED
  BY <1>1, <1>2, <1>3, <1>4, <1>5

\* A thread that starts a turn goes on with it.
LEMMA StarterMoves ==
  ASSUME Inv, NEW x \in Threads,
         th[x].at \in Starters, th'[x].at \in Starters \ {"idlerecheck"},
         th'[x].at \in Claimed => th[x].at \in Claimed /\ th'[x].st = th[x].st,
         th'[x].st \in {th[x].st, None},
         Triggers = {} => th'[x].at \in {"drain", "bind", "extend", "install"},
         th'[x].back = th[x].back,
         \A y \in Threads : y # x => th'[y] = th[y],
         UNCHANGED <<active, kind, cancelled, ends, clash>>
  PROVE  Ordered'
<1> USE Kinds, Distinct, Typed DEF Inv, Ordered
<1>0. active.task = None /\ (Triggers # {} => active # NoTurn)
  BY DEF ClaimsOK, Starters
<1>1. PlacesOK'
  BY <1>0 DEF PlacesOK
<1>2. TasksOK'
  BY <1>0 DEF TasksOK
<1>3. ClaimsOK'
  BY <1>0 DEF ClaimsOK
<1>4. StatesOK'
  BY <1>0 DEF StatesOK
<1>5. EndsOK'
  BY <1>0 DEF EndsOK
<1> QED
  BY <1>1, <1>2, <1>3, <1>4, <1>5

\* A task that is aborted ends.
LEMMA CancelledEnds ==
  ASSUME Inv, NEW t \in Turns, t \in cancelled,
         th[t].at \in Busy, th'[t] = Thread("done", "done"),
         \A y \in Threads : y # t => th'[y] = th[y],
         UNCHANGED <<active, kind, cancelled, ends, clash>>
  PROVE  Ordered'
<1> USE Kinds, Distinct, Typed DEF Inv, Ordered
<1>0. th'[t].at = "done" /\ th'[t].st = None /\ th'[t].back = "done"
  BY DEF Thread
<1>1. PlacesOK'
  BY <1>0 DEF PlacesOK
<1>2. TasksOK'
  BY <1>0 DEF TasksOK
<1>3. ClaimsOK'
  BY <1>0 DEF ClaimsOK
<1>4. StatesOK'
  BY <1>0 DEF StatesOK
<1>5. EndsOK'
  BY <1>0 DEF EndsOK
<1> QED
  BY <1>1, <1>2, <1>3, <1>4, <1>5

\* A thread claims a turn state s of its own for an idle session.
LEMMA Claims ==
  ASSUME Inv, NEW x \in Threads, NEW s \in States, active = NoTurn,
         \/ th[x].at = "reserve" /\ th'[x].at = "gather"
         \/ th[x].at = "idlereserve" /\ th'[x].at = "idlerecheck",
         th'[x].st = s, th'[x].back = th[x].back,
         \A y \in Threads : th[y].at \in Closing \union Aborts => th[y].st # s,
         \A y \in Threads : y # x => th'[y] = th[y],
         active' = [task |-> None, state |-> s],
         UNCHANGED <<kind, cancelled, ends, clash>>
  PROVE  Ordered'
<1> USE Kinds, Distinct, Typed DEF Inv, Ordered
<1>0. /\ active.task = None /\ active.state = None
      /\ active'.task = None /\ active'.state = s /\ active' # NoTurn
      /\ th'[x].at \in Claimed
  BY DEF NoTurn, Claimed
<1>9. \A y \in Threads : th[y].at \notin Starters
  BY <1>0 DEF ClaimsOK, Starters, PlacesOK
<1>8. (x # Submission /\ th[x].at = "reserve") \/ x = Submission
  BY DEF PlacesOK
<1>7. th[Submission].at \notin Aborts
  BY <1>8 DEF PlacesOK
<1>1. PlacesOK'
  BY <1>0, <1>7, <1>8, <1>9 DEF PlacesOK
<1>2. TasksOK'
  BY <1>0, <1>7, <1>8, <1>9 DEF TasksOK
<1>3. ClaimsOK'
  BY <1>0, <1>7, <1>8, <1>9 DEF ClaimsOK
<1>4. StatesOK'
  BY <1>0, <1>7, <1>8, <1>9 DEF StatesOK
<1>5. EndsOK'
  <2>1. /\ th[x].at \notin Busy \union {"done"}
        /\ th'[x].at \notin Busy \union Closing \union Aborts \union {"unborn", "done"}
    BY <1>0
  <2>2. th[x].at # "await" /\ th'[x].at # "await"
    BY <2>1
  <2>3. CASE x \in Turns
    <3>1. th[x].at = "reserve"
      BY <1>8, <2>3
    <3> QED
      BY <2>1, <2>2, <2>3, <3>1 DEF EndsOK
  <2>4. CASE x \notin Turns
    BY <2>1, <2>2, <2>4 DEF EndsOK
  <2> QED
    BY <2>3, <2>4
<1> QED
  BY <1>1, <1>2, <1>3, <1>4, <1>5


\* A new turn state is no thread's.
LEMMA FreshState ==
  ASSUME TInv, CanAllocate
  PROVE  /\ FreeState \in States /\ FreeState # None /\ FreeState # active.state
         /\ \A x \in Threads : th[x].at \in Closing \union Aborts \union Starters => th[x].st # FreeState
<1>1. FreeState \in States \ Referenced
  BY DEF CanAllocate, FreeState
<1>2. \A x \in Threads : th[x].at \in Closing \union Aborts \union Starters => Live(x)
  BY Kinds DEF Live
<1> QED
  BY <1>1, <1>2, Distinct DEF Referenced

\* start_task binds to the turn that is reserved, or to a new one.
LEMMA BindOrdered ==
  ASSUME Inv, NEW x \in Threads, Bind(x) PROVE Ordered'
<1> USE Kinds, Distinct, Typed DEF Inv, Ordered
<1>0. /\ th[x].at = "bind" /\ th'[x].at = "extend" /\ th'[x].st = GetOrInsert.state
      /\ th'[x].back = th[x].back /\ th'[x].at \in Claimed
      /\ \A y \in Threads : y # x => th'[y] = th[y]
  BY DEF Bind, At, TInv, ThreadsOK, ThreadType, Claimed
<1>9. /\ active.task = None /\ (Triggers # {} => active # NoTurn)
      /\ \A y \in Threads : th[y].at \in Starters => y = x
  BY <1>0 DEF ClaimsOK
<1>8. /\ active' = GetOrInsert /\ ~clash' /\ UNCHANGED <<kind, cancelled, ends>>
      /\ active = NoTurn => CanAllocate
  BY <1>9 DEF Bind, Allocated, turns
<1>7. /\ active'.task = None /\ active'.state \in States /\ active'.state = th'[x].st
      /\ \A t \in Turns : th[t].at \in Closing => th[t].st # active'.state
      /\ \A y \in Threads : th[y].at \in Aborts => th[y].st # active'.state
      /\ active # NoTurn => active' = active
  <2>1. CASE active = NoTurn
    BY <1>0, <1>8, <2>1, FreshState DEF GetOrInsert
  <2>2. CASE active # NoTurn
    BY <1>0, <1>8, <1>9, <2>2 DEF GetOrInsert, StatesOK
  <2> QED
    BY <2>1, <2>2
<1>6. (x # Submission /\ Triggers # {}) \/ x = Submission
  BY <1>0 DEF PlacesOK
<1>10. active' # NoTurn
  BY <1>7 DEF NoTurn
<1>11. th[Submission].at \notin Aborts
  BY <1>0, <1>6 DEF PlacesOK
<1>1. PlacesOK'
  BY <1>0, <1>6, <1>7, <1>8, <1>9, <1>10, <1>11 DEF PlacesOK
<1>2. TasksOK'
  BY <1>0, <1>6, <1>7, <1>8, <1>9, <1>10, <1>11 DEF TasksOK
<1>3. ClaimsOK'
  BY <1>0, <1>6, <1>7, <1>8, <1>9, <1>10, <1>11 DEF ClaimsOK
<1>4. StatesOK'
  BY <1>0, <1>6, <1>7, <1>8, <1>9, <1>10, <1>11 DEF StatesOK
<1>5. EndsOK'
  BY <1>0, <1>6, <1>7, <1>8, <1>9, <1>10, <1>11 DEF EndsOK
<1> QED
  BY <1>1, <1>2, <1>3, <1>4, <1>5, <1>8

\* The new task becomes the task of the reserved turn.
LEMMA InstallOrdered ==
  ASSUME Inv, NEW x \in Threads, Install(x) PROVE Ordered'
<1> USE Kinds, Distinct, Typed DEF Inv, Ordered
<1>1. th[x].at = "install" /\ "install" \in Claimed /\ "install" \notin {"drain", "bind"}
  BY DEF Install, At, Claimed
<1>9. /\ active.task = None /\ active.state = th[x].st /\ active.state \in States
      /\ active # NoTurn /\ \A y \in Threads : th[y].at \in Starters => y = x
  BY <1>1 DEF ClaimsOK
<1> DEFINE t == CHOOSE u \in Unused : TRUE
<1>2. t \in Turns /\ kind[t] = "none"
  BY DEF Install, Unused
<1>8. /\ kind' = [kind EXCEPT ![t] = th[x].new]
      /\ active' = [active EXCEPT !.task = t]
      /\ th' = [y \in Threads |->
                  CASE y = t -> [Thread("run", "done") EXCEPT !.input = th[x].input]
                    [] y = x -> Rest(x)
                    [] y = active.task -> Thread("done", "done")
                    [] OTHER -> th[y]]
  BY <1>9 DEF Install, GetOrInsert
<1>13. ~clash' /\ UNCHANGED <<cancelled, ends>>
  BY <1>9 DEF Install
<1> HIDE DEF t
<1>7. th[t].at = "unborn" /\ t # x /\ \A u \in Turns : th[u].at \in Busy => u \in cancelled
  BY <1>1, <1>2, <1>9 DEF TasksOK
<1>4. t \notin cancelled
  <2>1. "unborn" \notin Busy \union {"done"}
    OBVIOUS
  <2> QED
    BY <1>2, <1>7, <2>1 DEF EndsOK
<1>6. /\ th'[t].at = "run" /\ th'[t].st = None /\ th'[t].back = "done"
      /\ th'[x].at = th[x].back /\ th'[x].st = None /\ th'[x].back = th[x].back
      /\ \A y \in Threads : y # t /\ y # x => th'[y] = th[y]
  BY <1>2, <1>7, <1>8, <1>9 DEF Thread, Rest
<1>5. active'.task = t /\ active'.state = active.state /\ active' # NoTurn
  BY <1>2, <1>8, <1>9 DEF TInv, SharedOK, ActiveType, NoTurn
<1>3. kind'[t] # "none" /\ \A u \in Turns : u # t => kind'[u] = kind[u]
  BY <1>2, <1>8 DEF TInv, RestOK, ThreadsOK, ThreadType
<1>10. "run" \in Busy
  BY DEF Busy, Working
<1>11. \/ x = Submission /\ th[x].back \in {"idle", "closed"}
       \/ x = Guardian /\ th[x].back = "idle" /\ th'[x].reason = "Interrupted" /\ Triggers # {}
       \/ x \in Turns /\ th[x].back = "done" /\ Triggers # {}
  BY <1>1, <1>7, <1>8, <1>2 DEF PlacesOK, Rest, Thread
<1>12. th[Submission].at \notin Aborts
  BY <1>9 DEF ClaimsOK
<1>21. PlacesOK'
  BY <1>1, <1>2, <1>3, <1>4, <1>5, <1>6, <1>7, <1>9, <1>10, <1>11, <1>12, <1>13 DEF PlacesOK
<1>22. TasksOK'
  BY <1>1, <1>2, <1>3, <1>4, <1>5, <1>6, <1>7, <1>9, <1>10, <1>11, <1>12, <1>13 DEF TasksOK
<1>23. ClaimsOK'
  BY <1>1, <1>2, <1>3, <1>4, <1>5, <1>6, <1>7, <1>9, <1>10, <1>11, <1>12, <1>13 DEF ClaimsOK
<1>24. StatesOK'
  BY <1>1, <1>2, <1>3, <1>4, <1>5, <1>6, <1>7, <1>9, <1>10, <1>11, <1>12, <1>13 DEF StatesOK
<1>25. EndsOK'
  BY <1>1, <1>2, <1>3, <1>4, <1>5, <1>6, <1>7, <1>9, <1>10, <1>11, <1>12, <1>13 DEF EndsOK
<1> QED
  BY <1>13, <1>21, <1>22, <1>23, <1>24, <1>25


\* A thread that goes on to drain the mailbox for the turn it starts.
LEMMA DrainsNext ==
  ASSUME NEW r \in ThreadType
  PROVE  LET d == [r EXCEPT !.at = "drain", !.st = None, !.victim = None]
         IN  d.at = "drain" /\ d.st = None /\ d.back = r.back /\ d.items = r.items /\ d.input = r.input
BY DEF ThreadType

\* Where the thread goes after an abort.
LEMMA AfterAbortIs ==
  ASSUME ThreadsOK, NEW x \in Threads, NEW aborted, th' = [th EXCEPT ![x] = AfterAbort(x, aborted)]
  PROVE  /\ \/ th'[x].at = "drain" \/ th'[x].at = th[x].back
            \/ aborted /\ th'[x].at = "pending"
         /\ th'[x].st = None /\ th'[x].back = th[x].back
         /\ \A y \in Threads : y # x => th'[y] = th[y]
<1>1. th[x] \in ThreadType /\ th'[x] = AfterAbort(x, aborted) /\ \A y \in Threads : y # x => th'[y] = th[y]
  BY DEF ThreadsOK
<1>2. CASE th[x].reason = "Replaced"
  <2>1. AfterAbort(x, aborted) = [th[x] EXCEPT !.at = "drain", !.st = None, !.victim = None]
    BY <1>2 DEF AfterAbort
  <2>2. th'[x] = [th[x] EXCEPT !.at = "drain", !.st = None, !.victim = None]
    BY <1>1, <2>1
  <2>3. th'[x].at = "drain" /\ th'[x].st = None /\ th'[x].back = th[x].back
    <3>1. th[x] \in ThreadType
      BY <1>1
    <3> QED
      BY <2>2, <3>1, DrainsNext
  <2> QED
    BY <1>1, <2>3
<1>3. CASE th[x].reason # "Replaced" /\ aborted
  <2>1. AfterAbort(x, aborted) = [Rest(x) EXCEPT !.at = "pending"]
    BY <1>3 DEF AfterAbort
  <2>2. th'[x].at = "pending" /\ th'[x].st = None /\ th'[x].back = th[x].back
    BY <1>1, <2>1 DEF Rest, Thread
  <2> QED
    BY <1>1, <1>3, <2>2
<1>4. CASE th[x].reason # "Replaced" /\ ~aborted
  <2>1. AfterAbort(x, aborted) = Rest(x)
    BY <1>4 DEF AfterAbort
  <2> QED
    BY <1>1, <1>4, <2>1 DEF Rest, Thread
<1> QED
  BY <1>2, <1>3, <1>4

\* A thread that replaces nothing looks for pending mail after an abort.
LEMMA AfterAbortPends ==
  ASSUME ThreadsOK, NEW x \in Threads, th' = [th EXCEPT ![x] = AfterAbort(x, TRUE)],
         th[x].reason = "Interrupted"
  PROVE  th'[x].at = "pending"
<1>1. AfterAbort(x, TRUE) = [Rest(x) EXCEPT !.at = "pending"]
  BY DEF AfterAbort
<1>2. th'[x] = [Rest(x) EXCEPT !.at = "pending"]
  BY <1>1 DEF ThreadsOK
<1> QED
  BY <1>2 DEF Rest, Thread

\* The active turn is taken and its task is cancelled.
LEMMA CancelOrdered ==
  ASSUME Inv, NEW x \in Threads, active.task # None, CancelTask(x), active' = NoTurn,
         \/ x = Submission /\ th[x].at = "take"
         \/ x = Guardian /\ th[x].at = "takeif",
         UNCHANGED <<kind, ends, clash>>
  PROVE  Ordered'
<1> USE Kinds, Distinct, Typed DEF Inv, Ordered
<1>1. /\ th[x].at \notin Starters \union Busy \union Aborts \union Closing
      /\ \A y \in Threads : th[y].at \notin Starters
      /\ th[Submission].at \notin Aborts /\ x \notin Turns
      /\ x = Submission => Triggers = {} /\ th[x].back \in {"idle", "closed"}
      /\ x = Guardian => th[x].back = "idle" /\ th[x].reason = "Interrupted"
  BY DEF PlacesOK, ClaimsOK
<1>2. active'.task = None /\ active'.state = None /\ active' = NoTurn
  BY DEF NoTurn
<1>3. /\ active.task \in Turns /\ active.task \notin cancelled /\ th[active.task].at \in Busy
      /\ ends[active.task] = 0 /\ active.state \in States
  BY DEF TasksOK, EndsOK
<1>4. /\ th'[x].at = "await" /\ th'[x].st = active.state /\ th'[x].victim = active.task
      /\ th'[x].back = th[x].back /\ th'[x].reason = th[x].reason
      /\ \A y \in Threads : y # x => th'[y] = th[y]
      /\ cancelled' = cancelled \union {active.task}
  <2>1. th[x] \in ThreadType /\ th \in [Threads -> ThreadType]
    BY DEF TInv, ThreadsOK
  <2>2. /\ th' = [th EXCEPT ![x] = [th[x] EXCEPT !.at = "await", !.victim = active.task, !.st = active.state]]
        /\ cancelled' = cancelled \union {active.task}
    BY <1>3 DEF CancelTask
  <2> QED
    BY <2>1, <2>2 DEF ThreadType
<1>21. PlacesOK'
  BY <1>1, <1>2, <1>3, <1>4 DEF PlacesOK
<1>22. TasksOK'
  BY <1>1, <1>2, <1>3, <1>4 DEF TasksOK
<1>23. ClaimsOK'
  BY <1>1, <1>2, <1>3, <1>4 DEF ClaimsOK
<1>24. StatesOK'
  BY <1>1, <1>2, <1>3, <1>4 DEF StatesOK
<1>25. EndsOK'
  BY <1>1, <1>2, <1>3, <1>4 DEF EndsOK
<1> QED
  BY <1>21, <1>22, <1>23, <1>24, <1>25

\* abort_all_tasks takes the active turn; a reservation is only dropped.
LEMMA TakeActiveOrdered ==
  ASSUME Inv, NEW x \in Threads, TakeActive(x) PROVE Ordered'
<1> USE Kinds, Distinct, Typed DEF Inv, Ordered
<1>1. /\ x = Submission /\ th[x].at = "take" /\ th[x].back \in {"idle", "closed"} /\ Triggers = {}
      /\ \A y \in Threads : th[y].at \notin Starters
  BY DEF TakeActive, At, PlacesOK
<1>2. /\ active'.task = None /\ active'.state = None /\ active' = NoTurn
      /\ UNCHANGED <<kind, ends, clash>>
  BY DEF TakeActive, NoTurn, ghosts
<1>3. CASE active.task = None
  <2>1. /\ th'[x].at \in {"drain", th[x].back} /\ th'[x].st = None /\ th'[x].back = th[x].back
        /\ \A y \in Threads : y # x => th'[y] = th[y]
        /\ cancelled' = cancelled
    <3>1. th' = [th EXCEPT ![x] = AfterAbort(x, FALSE)] /\ cancelled' = cancelled /\ ThreadsOK
      BY <1>3 DEF TakeActive, TInv
    <3> HIDE DEF Inv
    <3> QED
      BY <3>1, AfterAbortIs
  <2>21. PlacesOK'
    BY <1>1, <1>2, <1>3, <2>1 DEF PlacesOK
  <2>22. TasksOK'
    BY <1>1, <1>2, <1>3, <2>1 DEF TasksOK
  <2>23. ClaimsOK'
    BY <1>1, <1>2, <1>3, <2>1 DEF ClaimsOK
  <2>24. StatesOK'
    BY <1>1, <1>2, <1>3, <2>1 DEF StatesOK
  <2>25. EndsOK'
    BY <1>1, <1>2, <1>3, <2>1 DEF EndsOK
  <2> QED
    BY <1>2, <2>21, <2>22, <2>23, <2>24, <2>25
<1>4. CASE active.task # None
  BY <1>1, <1>2, <1>4, CancelOrdered DEF TakeActive
<1> QED
  BY <1>3, <1>4

\* abort_turn_if_active takes the turn it was asked to, or nothing.
LEMMA TakeIfActiveOrdered ==
  ASSUME Inv, NEW x \in Threads, TakeIfActive(x) PROVE Ordered'
<1> USE Kinds, Distinct, Typed DEF Inv
<1>1. /\ x = Guardian /\ th[x].at = "takeif" /\ th[x].back = "idle" /\ "guardian" \in Controls
      /\ UNCHANGED <<kind, ends, clash>>
  BY DEF TakeIfActive, At, Ordered, PlacesOK, ghosts
<1>2. CASE active.task = th[x].victim
  <2>1. th[x].victim \in Turns
    BY <1>1 DEF TInv, ThreadsOK, ThreadType, Ready
  <2>2. active.task # None /\ active' = NoTurn /\ CancelTask(x)
    BY <1>2, <2>1 DEF TakeIfActive
  <2> QED
    BY <1>1, <2>2, CancelOrdered
<1>3. CASE active.task # th[x].victim
  <2>1. Return(x) /\ UNCHANGED <<active, cancelled>>
    BY <1>3 DEF TakeIfActive
  <2>2. /\ th'[x].at = "idle" /\ th'[x].st = None /\ th'[x].back = "idle" /\ th'[x].reason = "Interrupted"
        /\ \A y \in Threads : y # x => th'[y] = th[y]
    BY <1>1, <2>1, Returns DEF TInv
  <2> QED
    BY <1>1, <2>1, <2>2, FreeMoves
<1> QED
  BY <1>2, <1>3

\* The aborted turn is over and TurnAborted is sent.
LEMMA AwaitTaskOrdered ==
  ASSUME Inv, NEW x \in Threads, AwaitTask(x) PROVE Ordered'
<1> USE Kinds, Distinct, Typed DEF Inv, Ordered
<1> DEFINE v == th[x].victim
<1>1. /\ x \in {Submission, Guardian} /\ x \notin Turns /\ th[x].at = "await"
      /\ x = Submission => active = NoTurn
  BY DEF AwaitTask, At, PlacesOK, ClaimsOK
<1>2. v \in cancelled /\ ends[v] = 0 /\ v \in Turns /\ th[v].at \in Busy \union {"done"}
  BY <1>1 DEF EndsOK
<1>3. /\ th'[x].at = "clear" /\ th'[x].st = th[x].st /\ th'[x].back = th[x].back
      /\ th'[x].reason = th[x].reason /\ th'[x].victim = v
      /\ th'[v].at = "done" /\ th'[v].st = None /\ th'[v].back = "done"
      /\ \A y \in Threads : y # x /\ y # v => th'[y] = th[y]
  BY <1>1, <1>2 DEF AwaitTask, Thread, TInv, ThreadsOK, ThreadType
<1>4. /\ ends'[v] = 1 /\ (\A t \in Turns : t # v => ends'[t] = ends[t])
      /\ UNCHANGED <<active, kind, cancelled, clash>>
  BY <1>2 DEF AwaitTask, shared
<1> HIDE DEF v
<1>21. PlacesOK'
  BY <1>1, <1>2, <1>3, <1>4 DEF PlacesOK
<1>22. TasksOK'
  BY <1>1, <1>2, <1>3, <1>4 DEF TasksOK
<1>23. ClaimsOK'
  BY <1>1, <1>2, <1>3, <1>4 DEF ClaimsOK
<1>24. StatesOK'
  BY <1>1, <1>2, <1>3, <1>4 DEF StatesOK
<1>25. EndsOK'
  <2>1. \A y \in Threads : th'[y].at = "await" =>
          y # x /\ y # v /\ th'[y] = th[y] /\ th[y].at = "await" /\ th[y].victim # v
    BY <1>1, <1>2, <1>3 DEF EndsOK, v
  <2>2. \A y \in Threads : th[y].at = "await" /\ th[y].victim # v => y # x /\ th'[y] = th[y]
    BY <1>1, <1>2, <1>3 DEF PlacesOK, v
  <2>3. ASSUME NEW t \in Turns, t # v
        PROVE  /\ th'[t] = th[t] /\ ends'[t] = ends[t] /\ (t \in cancelled' <=> t \in cancelled)
               /\ (\E y \in Threads : th[y].at = "await" /\ th[y].victim = t) =>
                    \E y \in Threads : th'[y].at = "await" /\ th'[y].victim = t
    BY <1>1, <1>3, <1>4, <2>2, <2>3
  <2>4. ASSUME NEW t \in Turns
        PROVE  /\ th'[t].at \in Busy \union {"unborn", "takeinput", "complete"} => ends'[t] = 0
               /\ (th'[t].at \in Starters \union {"release", "pending", "reserve", "done"} /\ t \notin cancelled')
                    => ends'[t] = 1
               /\ t \in cancelled' =>
                    \/ /\ th'[t].at \in Busy \union {"done"} /\ ends'[t] = 0
                       /\ \E y \in Threads : th'[y].at = "await" /\ th'[y].victim = t
                    \/ th'[t].at = "done" /\ ends'[t] = 1
    <3>1. CASE t = v
      BY <1>2, <1>3, <1>4, <3>1
    <3>2. CASE t # v
      BY <2>3, <3>2 DEF EndsOK
    <3> QED
      BY <3>1, <3>2
  <2>5. \A y \in Threads : th'[y].at = "await" => th'[y].victim \in cancelled' /\ ends'[th'[y].victim] = 0
    BY <1>4, <2>1 DEF EndsOK
  <2>6. \A y, z \in Threads :
          (th'[y].at = "await" /\ th'[z].at = "await" /\ th'[y].victim = th'[z].victim) => y = z
    BY <2>1 DEF EndsOK
  <2>7. ASSUME NEW y \in Threads, th'[y].at = "clear"
        PROVE  th'[y].victim \in cancelled' /\ ends'[th'[y].victim] = 1
    <3>1. CASE y = x
      BY <1>2, <1>3, <1>4, <3>1
    <3>2. CASE y # x
      <4>1. th'[y] = th[y] /\ th[y].at = "clear"
        BY <1>3, <2>7, <3>2
      <4>2. th[y].victim \in cancelled /\ ends[th[y].victim] = 1 /\ th[y].victim # v
        BY <1>2, <4>1 DEF EndsOK
      <4> QED
        BY <1>4, <4>1, <4>2
    <3> QED
      BY <3>1, <3>2
  <2> QED
    BY <2>4, <2>5, <2>6, <2>7 DEF EndsOK
<1> QED
  BY <1>4, <1>21, <1>22, <1>23, <1>24, <1>25

\* The input pending in the aborted turn is given up.
LEMMA ClearPendingOrdered ==
  ASSUME Inv, NEW x \in Threads, ClearPending(x) PROVE Ordered'
<1> USE Kinds, Distinct, Typed DEF Inv, Ordered
<1>1. /\ th[x].at = "clear"
      /\ \/ /\ x = Submission /\ th[x].back \in {"idle", "closed"} /\ active = NoTurn
            /\ active.task = None /\ active.state = None
            /\ Triggers = {} /\ \A y \in Threads : th[y].at \notin Starters
         \/ x = Guardian /\ th[x].back = "idle" /\ th[x].reason = "Interrupted"
  BY DEF ClearPending, At, PlacesOK, ClaimsOK
<1>2. /\ th'[x].at \in {"drain", "pending", th[x].back} /\ th'[x].st = None /\ th'[x].back = th[x].back
      /\ \A y \in Threads : y # x => th'[y] = th[y]
  BY AfterAbortIs DEF ClearPending, TInv
<1>3. UNCHANGED <<active, kind, cancelled, ends, clash>>
  BY DEF ClearPending, turns
<1>4. x = Guardian => th'[x].at = "pending"
  BY <1>1, AfterAbortPends DEF ClearPending, TInv
<1>21. PlacesOK'
  BY <1>1, <1>2, <1>3, <1>4 DEF PlacesOK
<1>22. TasksOK'
  BY <1>1, <1>2, <1>3, <1>4 DEF TasksOK
<1>23. ClaimsOK'
  BY <1>1, <1>2, <1>3, <1>4 DEF ClaimsOK
<1>24. StatesOK'
  BY <1>1, <1>2, <1>3, <1>4 DEF StatesOK
<1>25. EndsOK'
  BY <1>1, <1>2, <1>3, <1>4 DEF EndsOK
<1> QED
  BY <1>3, <1>21, <1>22, <1>23, <1>24, <1>25

\* The reservation of an idle turn is given back.
LEMMA IdleRefusedOrdered ==
  ASSUME Inv, NEW x \in Threads, IdleRefused(x) PROVE Ordered'
<1> USE Kinds, Distinct, Typed DEF Inv, Ordered
<1>1. /\ /\ x = Submission /\ th[x].at = "idlerecheck" /\ th[x].at \in Starters
      /\ th[x].back \in {"idle", "closed"}
  BY DEF IdleRefused, At, PlacesOK, Claimed, Busy, Working
<1>2. /\ active.task = None /\ active.state = th[x].st
      /\ \A y \in Threads : th[y].at \in Starters => y = x
  BY <1>1 DEF ClaimsOK
<1>3. /\ th'[x].at = th[x].back /\ th'[x].st = None /\ th'[x].back = th[x].back
      /\ \A y \in Threads : y # x => th'[y] = th[y]
  BY DEF IdleRefused, Return, Rest, Thread, TInv, ThreadsOK, ThreadType
<1>4. active' = NoTurn /\ active'.task = None /\ active'.state = None
  BY <1>2 DEF IdleRefused, ClearReserved, NoTurn
<1>5. UNCHANGED <<kind, cancelled, ends, clash>>
  BY DEF IdleRefused, turns, ghosts
<1>21. PlacesOK'
  BY <1>1, <1>2, <1>3, <1>4, <1>5 DEF PlacesOK
<1>22. TasksOK'
  BY <1>1, <1>2, <1>3, <1>4, <1>5 DEF TasksOK
<1>23. ClaimsOK'
  BY <1>1, <1>2, <1>3, <1>4, <1>5 DEF ClaimsOK
<1>24. StatesOK'
  BY <1>1, <1>2, <1>3, <1>4, <1>5 DEF StatesOK
<1>25. EndsOK'
  BY <1>1, <1>2, <1>3, <1>4, <1>5 DEF EndsOK
<1> QED
  BY <1>5, <1>21, <1>22, <1>23, <1>24, <1>25

\* A turn that finishes takes its own task out of the active turn.
LEMMA TakeTaskOrdered ==
  ASSUME Inv, OwnTask, NEW t \in Turns, TakeTask(t) PROVE Ordered'
<1> USE Kinds, Distinct, Typed DEF Inv, Ordered
<1>1. th[t].at = "taketask" /\ th[t].at \in Busy /\ th[t].at \notin {"done"} /\ th[t].back = "done"
  BY DEF TakeTask, At, Busy, PlacesOK
<1>2. UNCHANGED <<kind, cancelled, ends, clash>>
  BY DEF TakeTask, turns, ghosts
<1>3. CASE active.task = None
  <2>1. t \in cancelled
    BY <1>1, <1>3 DEF TasksOK
  <2>2. th'[t] = Thread("done", "done") /\ (\A y \in Threads : y # t => th'[y] = th[y]) /\ active' = active
    BY <1>1, <1>3 DEF TakeTask, Return, Rest, TInv, ThreadsOK
  <2> QED
    BY <1>1, <1>2, <2>1, <2>2, CancelledEnds
<1>4. CASE active.task # None
  <2>1. t \notin cancelled /\ active.task = t /\ ends[t] = 0
    BY <1>1, <1>4 DEF OwnTask, TasksOK, EndsOK
  <2>2. /\ th'[t].at = "takeinput" /\ th'[t].st = active.state /\ th'[t].back = th[t].back
        /\ \A y \in Threads : y # t => th'[y] = th[y]
    <3>1. /\ th[t] \in ThreadType
          /\ th' = [th EXCEPT ![t] = [th[t] EXCEPT !.at = "takeinput", !.st = active.state]]
      BY <1>4 DEF TakeTask, TInv, ThreadsOK
    <3> QED
      BY <3>1 DEF TInv, ThreadsOK, ThreadType
  <2>3. active'.task = None /\ active'.state = active.state /\ active.state \in States /\ active' # NoTurn
    BY <1>4 DEF TakeTask, TInv, SharedOK, ActiveType, NoTurn
  <2>4. th[Submission].at \notin Aborts /\ \A y \in Threads : th[y].at \notin Starters
    BY <1>4 DEF ClaimsOK
  <2>5. \A u \in Turns : u # t /\ th[u].at \in Busy => u \in cancelled
    BY <2>1 DEF TasksOK
  <2>21. PlacesOK'
    BY <1>1, <1>2, <2>1, <2>2, <2>3, <2>4, <2>5 DEF PlacesOK
  <2>22. TasksOK'
    BY <1>1, <1>2, <2>1, <2>2, <2>3, <2>4, <2>5 DEF TasksOK
  <2>23. ClaimsOK'
    BY <1>1, <1>2, <2>1, <2>2, <2>3, <2>4, <2>5 DEF ClaimsOK
  <2>24. StatesOK'
    BY <1>1, <1>2, <2>1, <2>2, <2>3, <2>4, <2>5 DEF StatesOK
  <2>25. EndsOK'
    BY <1>1, <1>2, <2>1, <2>2, <2>3, <2>4, <2>5 DEF EndsOK
  <2> QED
    BY <1>2, <2>21, <2>22, <2>23, <2>24, <2>25
<1> QED
  BY <1>3, <1>4

\* A turn that finishes takes its leftover input and sends TurnComplete.
LEMMA CloserMoves ==
  ASSUME Inv, NEW t \in Turns,
         \/ th[t].at = "takeinput" /\ th'[t].at = "complete" /\ ends' = ends
         \/ th[t].at = "complete" /\ th'[t].at = "release" /\ ends' = [ends EXCEPT ![t] = @ + 1],
         th'[t].st = th[t].st, th'[t].back = th[t].back,
         \A y \in Threads : y # t => th'[y] = th[y],
         UNCHANGED <<active, kind, cancelled, clash>>
  PROVE  Ordered'
<1> USE Kinds, Distinct, Typed DEF Inv, Ordered
<1>1. th[t].at \in Closing /\ th'[t].at \in Closing /\ t \notin cancelled /\ ends[t] = 0
  BY DEF EndsOK, Closing
<1>2. /\ (\A u \in Turns : u # t => ends'[u] = ends[u]) /\ (th'[t].at = "release" => ends'[t] = 1)
      /\ (th'[t].at = "complete" => ends'[t] = 0)
  BY <1>1
<1>21. PlacesOK'
  BY <1>1, <1>2 DEF PlacesOK
<1>22. TasksOK'
  BY <1>1, <1>2 DEF TasksOK
<1>23. ClaimsOK'
  BY <1>1, <1>2 DEF ClaimsOK
<1>24. StatesOK'
  BY <1>1, <1>2 DEF StatesOK
<1>25. EndsOK'
  BY <1>1, <1>2 DEF EndsOK
<1> QED
  BY <1>21, <1>22, <1>23, <1>24, <1>25

\* The turn is released, and pending mail may start the next one.
LEMMA ReleaseOrdered ==
  ASSUME Inv, NEW t \in Turns, Release(t) PROVE Ordered'
<1> USE Kinds, Distinct, Typed DEF Inv, Ordered
<1>1. th[t].at = "release" /\ th[t].back = "done" /\ t \notin cancelled /\ ends[t] = 1
  <2>1. th[t].at = "release" /\ th[t].back = "done"
    BY DEF Release, At, PlacesOK
  <2>2. t \notin cancelled
    BY <2>1 DEF EndsOK
  <2> QED
    BY <2>1, <2>2 DEF EndsOK
<1>2. /\ th'[t].at \in {"pending", "done"} /\ th'[t].st = None /\ th'[t].back = "done"
      /\ \A y \in Threads : y # t => th'[y] = th[y]
  BY <1>1 DEF Release, Return, Rest, Thread, TInv, ThreadsOK, ThreadType
<1>3. UNCHANGED <<kind, cancelled, ends, clash>>
  BY DEF Release, turns, ghosts
<1>4. CASE active.task = None /\ active.state = th[t].st
  <2>1. active' = NoTurn /\ active'.task = None /\ active'.state = None
    BY <1>4 DEF Release, NoTurn
  <2>2. \A y \in Threads : th[y].at \notin Starters
    BY <1>1, <1>4 DEF StatesOK
  <2>21. PlacesOK'
    BY <1>1, <1>2, <1>3, <1>4, <2>1, <2>2 DEF PlacesOK
  <2>22. TasksOK'
    BY <1>1, <1>2, <1>3, <1>4, <2>1, <2>2 DEF TasksOK
  <2>23. ClaimsOK'
    BY <1>1, <1>2, <1>3, <1>4, <2>1, <2>2 DEF ClaimsOK
  <2>24. StatesOK'
    BY <1>1, <1>2, <1>3, <1>4, <2>1, <2>2 DEF StatesOK
  <2>25. EndsOK'
    BY <1>1, <1>2, <1>3, <1>4, <2>1, <2>2 DEF EndsOK
  <2> QED
    BY <1>3, <2>21, <2>22, <2>23, <2>24, <2>25
<1>5. CASE ~(active.task = None /\ active.state = th[t].st)
  <2>1. active' = active
    BY <1>5 DEF Release
  <2>21. PlacesOK'
    BY <1>1, <1>2, <1>3, <1>5, <2>1 DEF PlacesOK
  <2>22. TasksOK'
    BY <1>1, <1>2, <1>3, <1>5, <2>1 DEF TasksOK
  <2>23. ClaimsOK'
    BY <1>1, <1>2, <1>3, <1>5, <2>1 DEF ClaimsOK
  <2>24. StatesOK'
    BY <1>1, <1>2, <1>3, <1>5, <2>1 DEF StatesOK
  <2>25. EndsOK'
    BY <1>1, <1>2, <1>3, <1>5, <2>1 DEF EndsOK
  <2> QED
    BY <1>3, <2>21, <2>22, <2>23, <2>24, <2>25
<1> QED
  BY <1>4, <1>5


\* The operations sent to the session keep its turns in order.
LEMMA OperationOrdered ==
  ASSUME Inv, Uncontended, Operation PROVE Ordered'
<1> USE Distinct DEF Inv
<1>1. ASSUME At(Submission, "idle") PROVE th[Submission].st = None /\ th[Submission].back \in {"idle", "closed"}
  BY <1>1, Kinds DEF Ordered, StatesOK, PlacesOK, At
<1>2. ASSUME NEW pt, At(Submission, "idle"),
             pt \in {"take", "pending", "idlereserve"}, pt = "take" => Triggers = {},
             th'[Submission].at = pt, th'[Submission].st = None, th'[Submission].back \in {"idle", "closed"},
             \A y \in Threads : y # Submission => th'[y] = th[y],
             UNCHANGED <<active, kind, cancelled, ends, clash>>
      PROVE  Ordered'
  BY <1>2, FreeMoves DEF At
<1>3. ASSUME NEW u \in Users, StartTurn(u) PROVE Ordered'
  <2>1. /\ th'[Submission].at = "take" /\ th'[Submission].st = th[Submission].st
        /\ th'[Submission].back = th[Submission].back
        /\ \A y \in Threads : y # Submission => th'[y] = th[y]
    BY <1>3 DEF StartTurn, TInv, ThreadsOK, ThreadType
  <2>2. Triggers = {} /\ At(Submission, "idle") /\ UNCHANGED <<active, kind, cancelled, ends, clash>>
    BY <1>3 DEF StartTurn, Submit, Uncontended, shared, turns
  <2> QED
    BY <1>1, <1>2, <2>1, <2>2
<1>4. ASSUME NEW u \in Users, Steer(u) \/ NotSteerable(u) PROVE Ordered'
  BY <1>4, NobodyMoves DEF Steer, NotSteerable, shared, turns, ghosts
<1>5. ASSUME NEW u \in Idlers, IdleCheck(u) PROVE Ordered'
  <2>1. At(Submission, "idle") /\ UNCHANGED <<active, kind, cancelled, ends, clash>>
    BY <1>5 DEF IdleCheck, Submit, shared, turns, ghosts
  <2>2. CASE UNCHANGED th
    BY <2>1, <2>2, NobodyMoves
  <2>3. CASE th' = [th EXCEPT ![Submission] = [@ EXCEPT !.at = "idlereserve", !.input = {u}]]
    BY <1>1, <1>2, <2>1, <2>3, GoesOn DEF TInv
  <2> QED
    BY <1>5, <2>2, <2>3 DEF IdleCheck
<1>6. ASSUME NEW m \in Mail, SendMail(m) PROVE Ordered'
  <2>1. At(Submission, "idle") /\ UNCHANGED <<active, kind, cancelled, ends, clash>>
    BY <1>6 DEF SendMail, Submit, turns
  <2>2. CASE UNCHANGED th
    BY <2>1, <2>2, NobodyMoves
  <2>3. CASE Goto(Submission, "pending")
    BY <1>1, <1>2, <2>1, <2>3, Goes DEF TInv
  <2> QED
    BY <1>6, <2>2, <2>3 DEF SendMail
<1>7. ASSUME NEW i \in Injects, Inject(i) PROVE Ordered'
  BY <1>7, NobodyMoves DEF Inject, turns
<1>8. ASSUME Interrupt \/ Compact \/ Shutdown PROVE Ordered'
  <2>1. /\ th'[Submission].at = "take" /\ th'[Submission].st = th[Submission].st
        /\ th'[Submission].back \in {th[Submission].back, "closed"}
        /\ \A y \in Threads : y # Submission => th'[y] = th[y]
    <3>1. CASE Interrupt
      BY <3>1 DEF Interrupt, TInv, ThreadsOK, ThreadType
    <3>2. CASE Compact
      BY <3>2 DEF Compact, TInv, ThreadsOK, ThreadType
    <3>3. CASE Shutdown
      BY <3>3 DEF Shutdown, TInv, ThreadsOK, ThreadType
    <3> QED
      BY <1>8, <3>1, <3>2, <3>3
  <2>2. Triggers = {} /\ At(Submission, "idle") /\ UNCHANGED <<active, kind, cancelled, ends, clash>>
    BY <1>8 DEF Interrupt, Compact, Shutdown, Submit, Uncontended, shared, turns, ghosts
  <2> QED
    BY <1>1, <1>2, <2>1, <2>2
<1>9. ASSUME NEW t \in Turns, GuardianTrips(t) PROVE Ordered'
  <2>1. /\ th[Guardian].at = "idle" /\ th[Guardian].back = "idle" /\ th[Guardian].st = None
        /\ th[Guardian].reason = "Interrupted"
    BY <1>9, Kinds DEF GuardianTrips, At, Ordered, PlacesOK, StatesOK
  <2>2. /\ th'[Guardian].at = "takeif" /\ th'[Guardian].back = "idle" /\ th'[Guardian].st = None
        /\ th'[Guardian].reason = "Interrupted"
        /\ \A y \in Threads : y # Guardian => th'[y] = th[y]
    <3>1. /\ th[Guardian] \in ThreadType /\ th \in [Threads -> ThreadType]
          /\ th' = [th EXCEPT ![Guardian] = [th[Guardian] EXCEPT !.at = "takeif", !.victim = t]]
      BY <1>9 DEF GuardianTrips, TInv, ThreadsOK
    <3> QED
      BY <2>1, <3>1 DEF ThreadType
  <2>3. "guardian" \in Controls /\ UNCHANGED <<active, kind, cancelled, ends, clash>>
    BY <1>9 DEF GuardianTrips, shared, turns, ghosts
  <2> QED
    BY <2>1, <2>2, <2>3, FreeMoves
<1> QED
  BY <1>3, <1>4, <1>5, <1>6, <1>7, <1>8, <1>9 DEF Operation

\* Starting a turn keeps the turns in order.
LEMMA StartingOrdered ==
  ASSUME Inv, NEW x \in Threads, Starting(x) PROVE Ordered'
<1> USE Distinct DEF Inv
<1>1. ASSUME th[x].at \in {"pending", "reserve", "idlereserve"}
      PROVE  /\ th[x].st = None
             /\ x = Guardian => /\ th[x].at \in {"pending", "reserve"} /\ th[x].back = "idle"
                                /\ "guardian" \in Controls
             /\ x \in Turns => th[x].at \in {"pending", "reserve"} /\ th[x].back = "done"
             /\ x = Submission => th[x].back \in {"idle", "closed"}
  BY <1>1, Kinds DEF Ordered, PlacesOK, StatesOK
<1>2. ASSUME th[x].at \in {"pending", "reserve", "idlereserve"}, Return(x),
             UNCHANGED <<active, kind, cancelled, ends, clash>>
      PROVE  Ordered'
  <2>1. /\ th'[x].at = th[x].back /\ th'[x].back = th[x].back /\ th'[x].st = None
        /\ th'[x].reason = "Interrupted" /\ \A y \in Threads : y # x => th'[y] = th[y]
    BY <1>2, Returns DEF TInv
  <2> QED
    BY <1>1, <1>2, <2>1, FreeMoves
<1>3. CASE CheckMail(x)
  <2>1. th[x].at = "pending" /\ UNCHANGED <<active, kind, cancelled, ends, clash>>
    BY <1>3 DEF CheckMail, At, shared, turns, ghosts
  <2>2. CASE HasTriggerMail /\ Goto(x, "reserve")
    <3>1. Triggers # {}
      BY <2>2 DEF HasTriggerMail
    <3> QED
      BY <1>1, <2>1, <2>2, <3>1, Goes, FreeMoves DEF TInv
  <2>3. CASE Return(x)
    BY <1>2, <2>1, <2>3
  <2> QED
    BY <1>3, <2>2, <2>3 DEF CheckMail
<1>4. CASE Reserve(x)
  <2>1. th[x].at = "reserve" /\ UNCHANGED <<kind, cancelled, ends, clash>>
    BY <1>4 DEF Reserve, At, turns, ghosts
  <2>2. CASE active # NoTurn
    BY <1>2, <1>4, <2>1, <2>2 DEF Reserve
  <2>3. CASE active = NoTurn
    <3>1. CanAllocate /\ active' = [task |-> None, state |-> FreeState]
      BY <1>4, <2>3 DEF Reserve, GetOrInsert
    <3>2. th' = [th EXCEPT ![x] = [@ EXCEPT !.at = "gather", !.st = FreeState]]
      BY <1>4, <2>3 DEF Reserve
    <3>3. /\ th'[x].at = "gather" /\ th'[x].st = FreeState /\ th'[x].back = th[x].back
          /\ \A y \in Threads : y # x => th'[y] = th[y]
      BY <3>2 DEF TInv, ThreadsOK, ThreadType
    <3> QED
      BY <2>1, <2>3, <3>1, <3>3, FreshState, Claims
  <2> QED
    BY <2>2, <2>3
<1>5. CASE Gather(x) \/ GatherMail(x)
  <2>1. th[x].at \in {"gather", "gathermail"} /\ UNCHANGED <<active, kind, cancelled, ends, clash>>
    BY <1>5 DEF Gather, GatherMail, TakePending, DrainMailbox, At, turns, ghosts
  <2>2. PICK pt \in {"gathermail", "deliver"} :
          th'[x].at = pt /\ th'[x].st = th[x].st /\ th'[x].back = th[x].back /\ \A y \in Threads : y # x => th'[y] = th[y]
    <3>1. CASE \E pt \in {"gathermail", "deliver"} : Goto(x, pt)
      BY <3>1, Goes DEF TInv
    <3>2. CASE \E pt \in {"gathermail", "deliver"}, s \in {pending[active.state], th[x].items \union mailbox} :
                 th' = [th EXCEPT ![x] = [@ EXCEPT !.at = pt, !.items = s]]
      BY <3>2 DEF TInv, ThreadsOK, ThreadType
    <3> QED
      BY <1>5, <3>1, <3>2 DEF Gather, GatherMail, TakePending, DrainMailbox
  <2>3. Triggers # {}
    BY <2>1 DEF Ordered, PlacesOK, Starters, Claimed, Busy, Closing, Working
  <2>4. th[x].at \in Claimed /\ pt \in Claimed /\ pt # "idlerecheck"
    BY <2>1 DEF Claimed
  <2> QED
    BY <2>1, <2>2, <2>3, <2>4, StarterMoves DEF Starters
<1>6. CASE Deliver(x)
  <2>1. th[x].at = "deliver" /\ th[x].at \in Claimed /\ UNCHANGED <<active, kind, cancelled, ends, clash>>
    BY <1>6 DEF Deliver, At, turns, ghosts, Claimed
  <2>2. /\ th'[x].at = "drain" /\ th'[x].st = None /\ th'[x].back = th[x].back
        /\ \A y \in Threads : y # x => th'[y] = th[y]
    BY <1>6 DEF Deliver, TInv, ThreadsOK, ThreadType
  <2> QED
    BY <2>1, <2>2, StarterMoves, Kinds
<1>7. CASE Drain(x) \/ ExtendTurn(x)
  <2>1. /\ \/ th[x].at = "drain" /\ th'[x].at = "bind"
           \/ th[x].at = "extend" /\ th'[x].at = "install"
        /\ th'[x].st = th[x].st /\ th'[x].back = th[x].back
        /\ \A y \in Threads : y # x => th'[y] = th[y]
    <3>1. CASE Drain(x)
      BY <3>1, GoesOn DEF Drain, DrainMailbox, At, TInv
    <3>2. CASE ExtendTurn(x)
      BY <3>2, GoesOn DEF ExtendTurn, At, TInv
    <3> QED
      BY <1>7, <3>1, <3>2
  <2>2. UNCHANGED <<active, kind, cancelled, ends, clash>>
    BY <1>7 DEF Drain, DrainMailbox, ExtendTurn, turns, ghosts
  <2> QED
    BY <2>1, <2>2, StarterMoves DEF Starters, Claimed
<1>8. CASE Bind(x)
  BY <1>8, BindOrdered
<1>9. CASE Install(x)
  BY <1>9, InstallOrdered
<1> QED
  BY <1>3, <1>4, <1>5, <1>6, <1>7, <1>8, <1>9 DEF Starting

\* Aborting turns and reserving idle ones keeps the turns in order.
LEMMA AbortingIdlingOrdered ==
  ASSUME Inv, NEW x \in Threads, Aborting(x) \/ Idling(x) PROVE Ordered'
<1> USE Distinct DEF Inv
<1>1. CASE TakeIfActive(x)
  BY <1>1, TakeIfActiveOrdered
<1>2. CASE IdleReserve(x)
  <2>1. th[x].at = "idlereserve" /\ UNCHANGED <<kind, cancelled, ends, clash>>
    BY <1>2 DEF IdleReserve, At, turns, ghosts
  <2>2. CASE active # NoTurn
    <3>1. Return(x) /\ active' = active
      BY <1>2, <2>2 DEF IdleReserve
    <3>2. x = Submission /\ th[x].back \in {"idle", "closed"}
      BY <2>1, Kinds DEF Ordered, PlacesOK
    <3> QED
      BY <2>1, <3>1, <3>2, Returns, FreeMoves DEF TInv
  <2>3. CASE active = NoTurn
    <3>1. CanAllocate /\ active' = [task |-> None, state |-> FreeState]
      BY <1>2, <2>3 DEF IdleReserve, GetOrInsert
    <3>2. th' = [th EXCEPT ![x] = [@ EXCEPT !.at = "idlerecheck", !.st = FreeState]]
      BY <1>2, <2>3 DEF IdleReserve
    <3>3. /\ th'[x].at = "idlerecheck" /\ th'[x].st = FreeState /\ th'[x].back = th[x].back
          /\ \A y \in Threads : y # x => th'[y] = th[y]
      BY <3>2 DEF TInv, ThreadsOK, ThreadType
    <3> QED
      BY <2>1, <2>3, <3>1, <3>3, FreshState, Claims
  <2> QED
    BY <2>2, <2>3
<1>3. CASE IdleStarts(x)
  <2>1. /\ th[x].at = "idlerecheck" /\ th'[x].at = "drain"
        /\ th'[x].st = th[x].st /\ th'[x].back = th[x].back
        /\ \A y \in Threads : y # x => th'[y] = th[y]
    BY <1>3, Goes DEF IdleStarts, At, TInv
  <2>2. UNCHANGED <<active, kind, cancelled, ends, clash>>
    BY <1>3 DEF IdleStarts, shared, turns
  <2> QED
    BY <2>1, <2>2, StarterMoves DEF Starters, Claimed
<1> QED
  BY <1>1, <1>2, <1>3, TakeActiveOrdered, AwaitTaskOrdered, ClearPendingOrdered,
     IdleRefusedOrdered DEF Aborting, Idling

\* Finishing a turn keeps the turns in order.
LEMMA FinishingOrdered ==
  ASSUME Inv, OwnTask, NEW t \in Turns, Finishing(t) PROVE Ordered'
<1> USE Distinct DEF Inv
<1>1. CASE Finish(t)
  <2>1. /\ th[t].at = "finish" /\ th[t].at \in Busy /\ "taketask" \in Busy
        /\ UNCHANGED <<active, kind, cancelled, ends, clash>>
    BY <1>1 DEF Finish, At, Busy, shared, turns, ghosts
  <2>2. CASE t \in cancelled
    <3>1. th[t].back = "done" /\ Return(t)
      BY <1>1, <2>2 DEF Finish, Ordered, PlacesOK
    <3> QED
      BY <2>1, <2>2, <3>1, Returns, CancelledEnds DEF TInv
  <2>3. CASE t \notin cancelled
    BY <1>1, <2>1, <2>3, Goes, BusyMoves DEF Finish, TInv
  <2> QED
    BY <2>2, <2>3
<1>2. CASE TakeInput(t)
  <2>1. /\ th[t].at = "takeinput" /\ th'[t].at = "complete"
        /\ th'[t].st = th[t].st /\ th'[t].back = th[t].back
        /\ \A y \in Threads : y # t => th'[y] = th[y]
    BY <1>2 DEF TakeInput, At, TInv, ThreadsOK, ThreadType
  <2> QED
    BY <1>2, <2>1, CloserMoves DEF TakeInput, turns, ghosts
<1>3. CASE Complete(t)
  <2>1. /\ th[t].at = "complete" /\ th'[t].at = "release"
        /\ th'[t].st = th[t].st /\ th'[t].back = th[t].back
        /\ \A y \in Threads : y # t => th'[y] = th[y]
    BY <1>3, GoesOn DEF Complete, At, TInv
  <2> QED
    BY <1>3, <2>1, CloserMoves DEF Complete, shared
<1> QED
  BY <1>1, <1>2, <1>3, TakeTaskOrdered, ReleaseOrdered DEF Finishing

\* The work of a task keeps the turns in order.
LEMMA SamplingOrdered ==
  ASSUME Inv, NEW t \in Turns, Sampling(t) PROVE Ordered'
<1> USE Distinct DEF Inv
<1>1. "finish" \in Busy /\ \A pt \in Working : pt \in Busy
  BY DEF Busy
<1>2. ASSUME th[t].at \in Working, NEW pt \in Working \union {"finish"}, NEW s,
             \/ th' = [th EXCEPT ![t] = [@ EXCEPT !.at = pt, !.items = s]]
             \/ th' = [th EXCEPT ![t] = [@ EXCEPT !.at = pt, !.input = s]],
             UNCHANGED <<active, kind, cancelled, ends, clash>>
      PROVE  Ordered'
  <2>1. /\ th'[t].at = pt /\ th'[t].st = th[t].st /\ th'[t].back = th[t].back
        /\ \A y \in Threads : y # t => th'[y] = th[y]
    <3>1. ThreadsOK /\ t \in Threads
      BY DEF TInv
    <3>2. CASE th' = [th EXCEPT ![t] = [@ EXCEPT !.at = pt, !.items = s]]
      BY <3>1, <3>2 DEF ThreadsOK, ThreadType
    <3>3. CASE th' = [th EXCEPT ![t] = [@ EXCEPT !.at = pt, !.input = s]]
      BY <3>1, <3>3 DEF ThreadsOK, ThreadType
    <3> QED
      BY <1>2, <3>2, <3>3
  <2> QED
    BY <1>1, <1>2, <2>1, BusyMoves
<1>9. ASSUME th[t].at \in Working, NEW pt \in Working \union {"finish"}, Goto(t, pt),
             UNCHANGED <<active, kind, cancelled, ends, clash>>
      PROVE  Ordered'
  BY <1>1, <1>9, Goes, BusyMoves DEF TInv
<1>3. CASE ObserveCancel(t)
  <2>1. t \in cancelled /\ th[t].at \in Busy /\ UNCHANGED <<active, kind, cancelled, ends, clash>>
    BY <1>1, <1>3 DEF ObserveCancel, shared, turns
  <2>2. th'[t] = Thread("done", "done") /\ \A y \in Threads : y # t => th'[y] = th[y]
    BY <1>3 DEF ObserveCancel, TInv, ThreadsOK
  <2> QED
    BY <2>1, <2>2, CancelledEnds
<1>4. CASE Run(t)
  <2>1. PICK blocked \in SUBSET (th[t].input \intersect Blockable) :
          th' = [th EXCEPT ![t] =
                   [@ EXCEPT !.at = CASE kind[t] = "Compact" -> "finish"
                                      [] kind[t] # "Compact" /\ Stopped(th[t].input, blocked) -> "recheck"
                                      [] kind[t] # "Compact" /\ th[t].input = {} -> "sample"
                                      [] OTHER -> "answer",
                             !.input = {}]]
    BY <1>4 DEF Run
  <2> DEFINE pt == CASE kind[t] = "Compact" -> "finish"
                     [] kind[t] # "Compact" /\ Stopped(th[t].input, blocked) -> "recheck"
                     [] kind[t] # "Compact" /\ th[t].input = {} -> "sample"
                     [] OTHER -> "answer"
  <2>2. pt \in Working \union {"finish"}
    BY DEF Working
  <2>3. th[t].at \in Working /\ UNCHANGED <<active, kind, cancelled, ends, clash>>
    BY <1>4 DEF Run, At, Working, shared, turns
  <2>4. th' = [th EXCEPT ![t] = [@ EXCEPT !.at = pt, !.input = {}]]
    BY <2>1
  <2> HIDE DEF pt
  <2> QED
    BY <1>2, <2>2, <2>3, <2>4
<1>5. CASE Record(t)
  <2>1. PICK blocked \in SUBSET (th[t].items \intersect Blockable) :
          th' = [th EXCEPT ![t] =
                   [@ EXCEPT !.at = IF Stopped(th[t].items, blocked) THEN "recheck" ELSE "answer",
                             !.items = {}]]
    BY <1>5 DEF Record
  <2> DEFINE pt == IF Stopped(th[t].items, blocked) THEN "recheck" ELSE "answer"
  <2>2. pt \in Working \union {"finish"}
    BY DEF Working
  <2>3. th[t].at \in Working /\ UNCHANGED <<active, kind, cancelled, ends, clash>>
    BY <1>5 DEF Record, At, Working, shared, turns
  <2>4. th' = [th EXCEPT ![t] = [@ EXCEPT !.at = pt, !.items = {}]]
    BY <2>1
  <2> HIDE DEF pt
  <2> QED
    BY <1>2, <2>2, <2>3, <2>4
<1>6. CASE RunFails(t) \/ StartHookStops(t)
  <2>1. th[t].at \in Working /\ "recheck" \in Working /\ UNCHANGED <<active, kind, cancelled, ends, clash>>
    BY <1>6 DEF RunFails, StartHookStops, At, Working, shared, turns
  <2> QED
    BY <1>2, <1>6, <2>1 DEF RunFails, StartHookStops
<1>7. CASE Sample(t) \/ SampleMail(t)
  <2>1. /\ th[t].at \in Working /\ {"samplemail", "record"} \subseteq Working
        /\ UNCHANGED <<active, kind, cancelled, ends, clash>>
    BY <1>7 DEF Sample, SampleMail, TakePending, DrainMailbox, At, Working, turns, ghosts
  <2> QED
    BY <1>2, <1>9, <1>7, <2>1 DEF Sample, SampleMail, TakePending, DrainMailbox
<1>8. CASE \/ FollowUp(t) \/ FinalAnswer(t) \/ EmptyAnswer(t) \/ TurnFails(t)
           \/ CheckPending(t) \/ StopHookBlocks(t) \/ RecheckPending(t)
  <2>1. th[t].at \in Working /\ UNCHANGED <<active, kind, cancelled, ends, clash>>
    BY <1>8 DEF FollowUp, FinalAnswer, EmptyAnswer, TurnFails, CheckPending, StopHookBlocks, RecheckPending,
                At, Working, shared, turns, ghosts
  <2>2. PICK pt \in {"sample", "answer", "check", "recheck", "run", "finish"} : Goto(t, pt)
    BY <1>8 DEF FollowUp, FinalAnswer, EmptyAnswer, TurnFails, CheckPending, StopHookBlocks, RecheckPending
  <2>3. pt \in Working \union {"finish"}
    BY DEF Working
  <2> QED
    BY <1>9, <2>1, <2>2, <2>3
<1> QED
  BY <1>3, <1>4, <1>5, <1>6, <1>7, <1>8 DEF Sampling

\* An idle session is in order.
LEMMA StartOrdered == ASSUME NEW never, InitWithout(never) PROVE Ordered
<1> USE Kinds, Distinct DEF InitWithout
<1>1. /\ \A t \in Turns : th[t].at = "unborn" /\ th[t].st = None /\ th[t].back = "done"
      /\ th[Submission].at = "idle" /\ th[Submission].st = None /\ th[Submission].back = "idle"
      /\ th[Guardian].at = "idle" /\ th[Guardian].st = None /\ th[Guardian].back = "idle"
      /\ th[Guardian].reason = "Interrupted"
  BY DEF Thread
<1>2. active = NoTurn /\ active.task = None /\ active.state = None
  BY DEF NoTurn
<1>3. PlacesOK
  BY <1>1 DEF PlacesOK
<1>4. TasksOK
  BY <1>1, <1>2 DEF TasksOK
<1>5. ClaimsOK
  BY <1>1, <1>2 DEF ClaimsOK
<1>6. StatesOK
  BY <1>1 DEF StatesOK
<1>7. EndsOK
  BY <1>1 DEF EndsOK
<1> QED
  BY <1>3, <1>4, <1>5, <1>6, <1>7 DEF Ordered

\* So are the initial states.
LEMMA InitOrdered == Init => Ordered
BY StartOrdered DEF Init

\* Without the guardian no turn takes the task of another: a turn that is aborted
\* while it finishes leaves no active turn as long as its abort lasts.
LEMMA TakesOwnTask == ASSUME Inv, "guardian" \notin Controls PROVE OwnTask
<1> USE Kinds, Distinct DEF Inv, Ordered
<1> SUFFICES ASSUME NEW t \in Turns, TakeTask(t) PROVE active.task \in {t, None}
  BY DEF OwnTask
<1>1. th[t].at = "taketask" /\ th[t].at \in Busy
  BY DEF TakeTask, At, Busy
<1>2. CASE t \notin cancelled
  BY <1>1, <1>2 DEF TasksOK
<1>3. CASE t \in cancelled
  <2>1. PICK x \in Threads : th[x].at = "await" /\ th[x].victim = t
    BY <1>1, <1>3 DEF EndsOK
  <2>2. x = Submission
    BY <2>1 DEF PlacesOK
  <2> QED
    BY <2>1, <2>2, Typed DEF ClaimsOK
<1> QED
  BY <1>2, <1>3

\* Every step keeps the turns in order when nothing competes for them.
LEMMA NextOrdered ==
  ASSUME Uncontended, TInv, Ordered, [Next]_vars, "guardian" \in Controls => [OwnTask]_vars
  PROVE  Ordered'
<1> USE DEF Inv
<1>0. CASE UNCHANGED vars
  BY <1>0, NobodyMoves DEF vars, shared, turns, ghosts
<1>1. "guardian" \notin Controls => OwnTask
  BY TakesOwnTask
<1>2. CASE Next /\ OwnTask
  BY <1>2, OperationOrdered, StartingOrdered, AbortingIdlingOrdered, FinishingOrdered,
     SamplingOrdered DEF Next
<1> QED
  BY <1>0, <1>1, <1>2

\* When nothing competes for the start of a turn, and finished turns take no
\* task but their own, the turns stay in order: the threads that start, abort
\* and finish turns hand the active turn to one another.
THEOREM TurnsOrdered == Uncontended => (Spec /\ Undisturbed => [](TInv /\ Ordered))
<1> SUFFICES ASSUME Uncontended PROVE Spec /\ Undisturbed => [](TInv /\ Ordered)
  OBVIOUS
<1>1. Init => TInv /\ Ordered
  BY InitTyped, InitOrdered
<1>2. CASE "guardian" \in Controls
  <2>1. TInv /\ Ordered /\ [Next]_vars /\ [OwnTask]_vars => TInv' /\ Ordered'
    BY NextTyped, StutterTyped, NextOrdered
  <2>2. Undisturbed => [][OwnTask]_vars
    BY <1>2 DEF Undisturbed, OwnTaskTaken
  <2> QED
    BY <1>1, <2>1, <2>2, PTL DEF Spec
<1>3. CASE "guardian" \notin Controls
  <2>1. TInv /\ Ordered /\ [Next]_vars => TInv' /\ Ordered'
    BY <1>3, NextTyped, StutterTyped, NextOrdered
  <2> QED
    BY <1>1, <2>1, PTL DEF Spec
<1> QED
  BY <1>2, <1>3

\* OwnTaskTaken: without a guardian on_task_finished takes no task but that of
\* its own turn, although it does not compare them.
THEOREM OwnersTakeTasks ==
  Uncontended /\ "guardian" \notin Controls => (Spec => OwnTaskTaken)
<1> SUFFICES ASSUME Uncontended, "guardian" \notin Controls PROVE Spec => OwnTaskTaken
  OBVIOUS
<1>1. Spec => [](TInv /\ Ordered)
  <2>1. Undisturbed
    BY DEF Undisturbed
  <2> QED
    BY <2>1, TurnsOrdered
<1>2. TInv /\ Ordered /\ [Next]_vars => [OwnTask]_vars
  BY TakesOwnTask DEF Inv
<1> QED
  BY <1>1, <1>2, PTL DEF Spec, OwnTaskTaken

\* The tasks at work that are not aborted are the active one.
LEMMA OrderedOneRunning == Ordered => OneRunning
BY DEF Ordered, TasksOK, OneRunning, Busy

\* OneRunning: no two turns that are not aborted are at work.
THEOREM OneTurnRuns == Uncontended => (Spec /\ Undisturbed => []OneRunning)
BY OrderedOneRunning, TurnsOrdered, PTL

\* NoTaskOverwritten: start_task finds no task where it puts its own.
THEOREM TasksNotOverwritten == Uncontended => (Spec /\ Undisturbed => []NoTaskOverwritten)
<1>1. Ordered => NoTaskOverwritten
  BY DEF Ordered, NoTaskOverwritten
<1> QED
  BY <1>1, TurnsOrdered, PTL

\* A turn that is over has reported its end, or the thread that aborts it will.
LEMMA OrderedOneTerminal == TInv /\ Ordered => OneTerminalEvent
<1> SUFFICES ASSUME TInv, Ordered, NEW t \in Turns
             PROVE  /\ ends[t] <= 1
                    /\ At(t, "done") => (ends[t] = 1 \/ \E x \in Threads : At(x, "await") /\ th[x].victim = t)
  BY DEF OneTerminalEvent
<1>1. th[t].at \in Starters \union Busy \union Closing \union {"unborn", "done", "pending", "reserve"}
  BY DEF Ordered, PlacesOK
<1>2. ends[t] \in {0, 1}
  BY <1>1, Kinds DEF Ordered, EndsOK
<1>3. At(t, "done") => (ends[t] = 1 \/ \E x \in Threads : At(x, "await") /\ th[x].victim = t)
  BY Distinct DEF Ordered, EndsOK, At
<1> QED
  BY <1>2, <1>3

\* OneTerminalEvent: every turn that is over sends TurnComplete or TurnAborted
\* once, and the one that is missing is about to be sent.
THEOREM TurnsEndOnce == Uncontended => (Spec /\ Undisturbed => []OneTerminalEvent)
BY OrderedOneTerminal, TurnsOrdered, PTL

\* ReservationHeld: a turn without a task is some thread's to fill or to give
\* back.
THEOREM ReservationsHeld == Uncontended => (Spec /\ Undisturbed => []ReservationHeld)
<1>1. TInv /\ Ordered => ReservationHeld
  <2> SUFFICES ASSUME TInv, Ordered, active # NoTurn, active.task = None
               PROVE  \E x \in Threads :
                        \/ th[x].at \in {"drain", "bind", "extend", "install"}
                        \/ /\ th[x].at \in {"idlerecheck", "gather", "gathermail", "deliver",
                                           "takeinput", "complete", "release"}
                           /\ th[x].st = active.state
    BY DEF ReservationHeld
  <2>1. CASE \E x \in Threads : th[x].at \in Starters
    BY <2>1 DEF Ordered, ClaimsOK, Starters, Claimed
  <2>2. CASE \E t \in Turns : th[t].at \in Closing /\ th[t].st = active.state
    BY <2>2, Distinct DEF Closing
  <2> QED
    BY <2>1, <2>2 DEF Ordered, ClaimsOK
<1> QED
  BY <1>1, TurnsOrdered, PTL

-----------------------------------------------------------------------------
(* The items *)

\* Points whose thread may carry items it took from a queue.
Carrying == {"samplemail", "record", "complete", "gathermail", "deliver", "bind", "extend"}

\* Points whose thread may carry the input of a turn.
Inputting == {"run", "idlereserve", "idlerecheck", "drain", "bind", "extend", "install"}

\* A thread with locals r carries items and input only where it uses them.
Carries(r) ==
  /\ r.items # {} => r.at \in Carrying
  /\ r.input # {} => r.at \in Inputting \/ (r.at \in {"take", "await", "clear"} /\ r.reason = "Replaced")

CarriesOK == \A x \in Threads : Carries(th[x])

\* Once a turn took its pending input, and before a reserved idle turn starts,
\* only injected items are pending in its turn state.
Spent == {"complete", "release", "idlerecheck"}
SpentOK == \A x \in Threads : th[x].at \in Spent => pending[th[x].st] \subseteq Injects

\* The input of a turn that needs an idle session is not accepted before the
\* turn starts.
Offering == {"idlereserve", "idlerecheck"}
OffersOK == \A x \in Threads : th[x].at \in Offering => th[x].input \subseteq submitted \ accepted

\* Turn state s can be reached.
Refers(s) == active.state = s \/ \E x \in Threads : Live(x) /\ th[x].st = s

\* Item i is recorded, given up, or in a queue or a thread that can be reached.
Kept(i) ==
  \/ i \in history \union dropped \union mailbox
  \/ \E s \in States : Refers(s) /\ i \in pending[s]
  \/ \E x \in Threads : Live(x) /\ i \in th[x].items \union th[x].input

KeptOK == \A i \in accepted \ Injects : Kept(i)

ItemsOK == accepted \subseteq submitted /\ CarriesOK /\ SpentOK /\ OffersOK /\ KeptOK

\* The inductive invariant says what NoItemLost says.
LEMMA KeptNotLost == ASSUME TInv, KeptOK PROVE NoItemLost
<1> DEFINE Q == UNION {pending[s] : s \in Referenced}
           T == UNION {th[x].items \union th[x].input : x \in {y \in Threads : Live(y)}}
<1>1. \A s \in States : Refers(s) => s \in Referenced
  BY Distinct DEF Refers, Referenced
<1>2. ASSUME NEW i \in accepted \ Injects PROVE i \in history \union dropped \union mailbox \/ i \in Q \/ i \in T
  <2>1. Kept(i)
    BY DEF KeptOK
  <2>2. ASSUME NEW s \in States, Refers(s), i \in pending[s] PROVE i \in Q
    BY <1>1, <2>2
  <2>3. ASSUME NEW x \in Threads, Live(x), i \in th[x].items \union th[x].input PROVE i \in T
    BY <2>3
  <2> QED
    BY <2>1, <2>2, <2>3, Zenon DEF Kept
<1> HIDE DEF Q, T
<1>3. accepted \ Injects \subseteq history \union dropped \union mailbox \union Q \union T
  BY <1>2
<1> QED
  BY <1>3, Zenon DEF NoItemLost, Q, T

\* Points at which a thread runs.
LEMMA Lives ==
  \A x \in Threads :
    th[x].at \in Starters \union Busy \union Closing \union Aborts \union Carrying \union Inputting
                   \union {"pending", "reserve", "take", "idle", "takeif"}
       => Live(x)
BY DEF Live, Starters, Claimed, Busy, Working, Closing, Aborts, Carrying, Inputting

\* When one thread moves, the items are kept if what it carried, what was in
\* the mailbox and what was pending are.
LEMMA ItemsStep ==
  ASSUME Inv, ItemsOK, NEW x \in Threads, \A y \in Threads : y # x => th'[y] = th[y],
         accepted' \subseteq submitted', submitted \subseteq submitted',
         history \subseteq history', dropped \subseteq dropped',
         Carries(th'[x]),
         th'[x].at \in Spent => pending'[th'[x].st] \subseteq Injects,
         th'[x].at \in Offering => th'[x].input \subseteq submitted' \ accepted',
         \A y \in Threads : y # x /\ th[y].at \in Spent => pending'[th[y].st] \subseteq Injects,
         x = Submission \/ accepted' = accepted,
         \A i \in accepted' \ (accepted \union Injects) : Kept(i)',
         \A i \in accepted \ Injects : i \in mailbox => Kept(i)',
         \A i \in accepted \ Injects : Live(x) /\ i \in th[x].items \union th[x].input => Kept(i)',
         \A s \in States : \A i \in pending[s] \ Injects : Refers(s) => Kept(i)'
  PROVE  ItemsOK'
<1>1. CarriesOK'
  BY DEF ItemsOK, CarriesOK
<1>2. SpentOK'
  BY DEF SpentOK
<1>3. OffersOK'
  <2>1. \A y \in Threads : th[y].at \in Offering => y = Submission
    BY Distinct, Kinds DEF Inv, Ordered, PlacesOK, Offering, Starters, Busy, Closing, Aborts, Working
  <2> QED
    BY <2>1 DEF ItemsOK, OffersOK
<1>4. KeptOK'
  <2> SUFFICES ASSUME NEW i \in accepted' \ Injects PROVE Kept(i)'
    BY DEF KeptOK
  <2>1. CASE i \notin accepted
    BY <2>1
  <2>2. CASE i \in accepted
    <3>1. CASE i \in history \union dropped
      BY <3>1 DEF Kept
    <3>2. CASE i \in mailbox
      BY <2>2, <3>2
    <3>3. CASE \E s \in States : Refers(s) /\ i \in pending[s]
      BY <3>3
    <3>4. ASSUME NEW y \in Threads, Live(y), i \in th[y].items \union th[y].input PROVE Kept(i)'
      <4>1. CASE y = x
        BY <2>2, <3>4, <4>1
      <4>2. CASE y # x
        <5>1. Live(y)' /\ i \in th'[y].items \union th'[y].input
          BY <3>4, <4>2 DEF Live
        <5> QED
          BY <5>1 DEF Kept
      <4> QED
        BY <4>1, <4>2
    <3> QED
      BY <2>2, <3>1, <3>2, <3>3, <3>4 DEF ItemsOK, KeptOK, Kept
  <2> QED
    BY <2>1, <2>2
<1> QED
  BY <1>1, <1>2, <1>3, <1>4 DEF ItemsOK

\* A turn state that is not let go of can still be reached.
LEMMA StatesStay ==
  ASSUME NEW x \in Threads, \A y \in Threads : y # x => th'[y] = th[y],
         NEW s \in States, Refers(s), None \notin States,
         active.state = s => \/ active'.state = s
                             \/ th'[x].at \notin {"unborn", "done", "closed"} /\ th'[x].st = s,
         th[x].st = s => \/ active'.state = s
                         \/ th'[x].at \notin {"unborn", "done", "closed"} /\ th'[x].st = s
  PROVE  Refers(s)'
<1>1. CASE active.state = s \/ th[x].st = s
  BY <1>1 DEF Refers, Live
<1>2. CASE \E y \in Threads : y # x /\ Live(y) /\ th[y].st = s
  <2>1. PICK y \in Threads : y # x /\ Live(y) /\ th[y].st = s
    BY <1>2
  <2>2. Live(y)' /\ th'[y].st = s
    BY <2>1 DEF Live
  <2> QED
    BY <2>2 DEF Refers
<1> QED
  BY <1>1, <1>2 DEF Refers

\* A thread that keeps the turn states where they are, and the mailbox, keeps
\* the items if it keeps the ones it carries.
LEMMA CarrierMoves ==
  ASSUME Inv, ItemsOK, NEW x \in Threads, \A y \in Threads : y # x => th'[y] = th[y],
         accepted' = accepted, submitted \subseteq submitted',
         history \subseteq history', dropped \subseteq dropped',
         UNCHANGED <<active, pending, mailbox>>,
         th'[x].st = th[x].st \/ th[x].st \in {None, active.state},
         th'[x].at \notin {"unborn", "done", "closed"} \/ th[x].st \in {None, active.state},
         Carries(th'[x]),
         th'[x].at \in Spent => pending[th'[x].st] \subseteq Injects,
         th'[x].at \in Offering => th'[x].input \subseteq submitted' \ accepted,
         \A i \in th[x].items \union th[x].input :
            \/ i \notin accepted
            \/ i \in history' \union dropped'
            \/ th'[x].at \notin {"unborn", "done", "closed"} /\ i \in th'[x].items \union th'[x].input
  PROVE  ItemsOK'
<1>1. \A s \in States : Refers(s) => Refers(s)'
  BY StatesStay, Distinct
<1>2. \A s \in States : \A i \in pending[s] \ Injects : Refers(s) => Kept(i)'
  BY <1>1 DEF Kept
<1>3. \A i \in accepted \ Injects : Live(x) /\ i \in th[x].items \union th[x].input => Kept(i)'
  BY DEF Kept, Live
<1>4. \A i \in mailbox : Kept(i)'
  BY DEF Kept
<1>5. accepted' \subseteq submitted'
  BY DEF ItemsOK
<1> QED
  BY <1>2, <1>3, <1>4, <1>5, ItemsStep DEF ItemsOK, SpentOK

\* A thread carries nothing where it may not.
LEMMA CarriesNothing ==
  ASSUME TInv, ItemsOK, NEW x \in Threads
  PROVE  /\ th[x].at \notin Carrying => th[x].items = {}
         /\ th[x].at \notin Inputting \union {"take", "await", "clear"} => th[x].input = {}
         /\ th[x].at \in {"take", "await", "clear"} /\ th[x].reason # "Replaced" => th[x].input = {}
BY DEF ItemsOK, CarriesOK, Carries, Inputting

\* A task that goes on, or ends, keeps the items if it keeps the ones it
\* carries.
LEMMA WorkerMoves ==
  ASSUME Inv, ItemsOK, NEW t \in Turns, th[t].at \in Busy, \A y \in Threads : y # t => th'[y] = th[y],
         accepted' = accepted, submitted \subseteq submitted',
         history \subseteq history', dropped \subseteq dropped',
         UNCHANGED <<active, pending, mailbox>>,
         Carries(th'[t]), th'[t].at \notin Spent \union Offering,
         th[t].items \union th[t].input \subseteq history' \union dropped'
  PROVE  ItemsOK'
<1>1. th[t].st = None /\ t \in Threads
  BY Kinds, Distinct DEF Inv, Ordered, StatesOK
<1> QED
  BY <1>1, CarrierMoves

\* get_pending_input: what was pending in the active turn is carried on.
LEMMA TakePendingKeeps ==
  ASSUME Inv, ItemsOK, NEW x \in Threads, th[x].items = {}, th[x].input = {}, th[x].st \in {None, active.state},
         NEW more \in Carrying \ Spent, NEW none, none \notin Spent \union Offering \union {"unborn", "done", "closed"},
         TakePending(x, more, none)
  PROVE  ItemsOK'
<1>1. more \notin Spent \union Offering \union {"unborn", "done", "closed"}
  BY DEF Carrying, Spent, Offering
<1>2. UNCHANGED <<active, mailbox, history, submitted, accepted, dropped>>
  BY DEF TakePending, ghosts
<1>3. CASE \E pt \in {more, none} : Goto(x, pt) /\ UNCHANGED pending
  <2>1. PICK pt \in {more, none} : Goto(x, pt) /\ UNCHANGED pending
    BY <1>3
  <2>2. /\ /\ th'[x].at = pt /\ th'[x].st = th[x].st /\ th'[x].items = th[x].items
        /\ th'[x].input = th[x].input
        /\ \A y \in Threads : y # x => th'[y] = th[y]
    BY <2>1 DEF Goto, Inv, TInv, ThreadsOK, ThreadType
  <2>3. Carries(th'[x])
    BY <2>2 DEF Carries
  <2> QED
    BY <1>1, <1>2, <2>1, <2>2, <2>3, CarrierMoves
<1>4. CASE /\ active # NoTurn
           /\ th' = [th EXCEPT ![x] = [@ EXCEPT !.at = more, !.items = pending[active.state]]]
           /\ pending' = [pending EXCEPT ![active.state] = {}]
  <2>1. /\ /\ th'[x].at = more /\ th'[x].st = th[x].st /\ th'[x].items = pending[active.state]
        /\ th'[x].input = {}
        /\ \A y \in Threads : y # x => th'[y] = th[y]
    BY <1>4 DEF Inv, TInv, ThreadsOK, ThreadType
  <2>2. /\ active.state \in States /\ pending'[active.state] = {}
        /\ \A s \in States : s # active.state => pending'[s] = pending[s]
        /\ \A s \in States : pending'[s] \subseteq pending[s]
    BY <1>4, ActiveState DEF Inv, TInv, SharedOK
  <2>3. Carries(th'[x]) /\ Live(x)'
    BY <1>1, <2>1 DEF Carries, Live
  <2>4. \A s \in States : Refers(s) => Refers(s)'
    BY <1>2, <2>1, StatesStay, Distinct
  <2>5. \A s \in States : \A i \in pending[s] \ Injects : Refers(s) => Kept(i)'
    BY <2>1, <2>2, <2>3, <2>4 DEF Kept
  <2>6. \A i \in mailbox : Kept(i)'
    BY <1>2 DEF Kept
  <2>7. \A y \in Threads : y # x /\ th[y].at \in Spent => pending'[th[y].st] \subseteq Injects
    <3> SUFFICES ASSUME NEW y \in Threads, th[y].at \in Spent PROVE pending'[th[y].st] \subseteq Injects
      OBVIOUS
    <3>1. th[y].st \in States
      BY Typed DEF Inv, Spent, Closing, Claimed
    <3> QED
      BY <2>2, <3>1 DEF ItemsOK, SpentOK
  <2>8. accepted' \subseteq submitted'
    BY <1>2 DEF ItemsOK
  <2> QED
    BY <1>1, <1>2, <2>1, <2>3, <2>5, <2>6, <2>7, <2>8, ItemsStep
<1> QED
  BY <1>3, <1>4 DEF TakePending

\* The mailbox is carried on with what the thread carried.
LEMMA DrainMailboxKeeps ==
  ASSUME Inv, ItemsOK, NEW x \in Threads, NEW next \in Carrying \ Spent, DrainMailbox(x, next),
         th[x].input # {} => next \in Inputting
  PROVE  ItemsOK'
<1>1. next \notin Spent \union Offering \union {"unborn", "done", "closed"}
  BY DEF Carrying, Spent, Offering
<1>2. UNCHANGED <<active, pending, history, submitted, accepted, dropped>>
  BY DEF DrainMailbox, ghosts
<1>3. /\ /\ th'[x].at = next /\ th'[x].st = th[x].st /\ th'[x].items = th[x].items \union mailbox
      /\ th'[x].input = th[x].input
      /\ \A y \in Threads : y # x => th'[y] = th[y]
  BY DEF DrainMailbox, Inv, TInv, ThreadsOK, ThreadType
<1>4. Carries(th'[x]) /\ Live(x)'
  BY <1>1, <1>3 DEF Carries, Live
<1>5. \A s \in States : Refers(s) => Refers(s)'
  BY <1>1, <1>2, <1>3, StatesStay, Distinct
<1>6. \A s \in States : \A i \in pending[s] \ Injects : Refers(s) => Kept(i)'
  BY <1>2, <1>5 DEF Kept
<1>7. \A i \in th[x].items \union th[x].input \union mailbox : Kept(i)'
  BY <1>3, <1>4 DEF Kept
<1>8. \A y \in Threads : y # x /\ th[y].at \in Spent => pending'[th[y].st] \subseteq Injects
  BY <1>2 DEF ItemsOK, SpentOK
<1>9. accepted' \subseteq submitted'
  BY <1>2 DEF ItemsOK
<1> QED
  BY <1>1, <1>2, <1>3, <1>4, <1>6, <1>7, <1>8, <1>9, ItemsStep

\* The work of a task keeps the items.
LEMMA SamplingKeeps ==
  ASSUME Inv, ItemsOK, NEW t \in Turns, Sampling(t) PROVE ItemsOK'
<1> USE Distinct DEF Inv
<1>1. \A pt \in Working \union {"finish"} :
         /\ pt \in Busy /\ pt \notin Spent \union Offering \union {"unborn", "done", "closed"}
         /\ pt \notin {"take", "await", "clear"}
  BY DEF Busy, Working, Spent, Offering
<1>2. th[t].at \in {"sample", "answer", "check", "recheck"} => th[t].items = {} /\ th[t].input = {}
  BY CarriesNothing DEF Carrying, Inputting
<1>3. th[t].at = "run" => th[t].items = {}
  BY CarriesNothing DEF Carrying
<1>4. th[t].at = "record" => th[t].input = {}
  BY CarriesNothing DEF Inputting
<1>5. th[t].at \in Working => th[t].st = None
  BY <1>1, Kinds DEF Ordered, StatesOK
<1>6. CASE ObserveCancel(t)
  <2>1. /\ th'[t].items = {} /\ th'[t].input = {} /\ th'[t].at = "done" /\ th[t].at \in Working
        /\ \A y \in Threads : y # t => th'[y] = th[y]
    BY <1>6 DEF ObserveCancel, Thread, TInv, ThreadsOK
  <2>2. Carries(th'[t]) /\ th'[t].at \notin Spent \union Offering
    BY <2>1 DEF Carries, Spent, Offering
  <2> QED
    BY <1>1, <1>6, <2>1, <2>2, WorkerMoves DEF ObserveCancel, shared
<1>7. CASE Run(t) \/ RunFails(t) \/ StartHookStops(t)
  <2>1. /\ th[t].at = "run" /\ th[t].at \in Working
        /\ UNCHANGED <<active, pending, mailbox, accepted>> /\ submitted \subseteq submitted'
    BY <1>7 DEF Run, RunFails, StartHookStops, At, Working, shared
  <2>2. /\ history \subseteq history' /\ dropped \subseteq dropped'
        /\ th[t].input \subseteq history' \union dropped'
    BY <1>7 DEF Run, RunFails, StartHookStops, RecordInputs
  <2>3. PICK pt \in Working \union {"finish"} : th' = [th EXCEPT ![t] = [@ EXCEPT !.at = pt, !.input = {}]]
    BY <1>7 DEF Run, RunFails, StartHookStops, Working
  <2>4. /\ th'[t].at = pt /\ th'[t].items = {} /\ th'[t].input = {}
        /\ \A y \in Threads : y # t => th'[y] = th[y]
    BY <1>3, <2>1, <2>3 DEF TInv, ThreadsOK, ThreadType
  <2>5. Carries(th'[t]) /\ th'[t].at \notin Spent \union Offering
    BY <1>1, <2>4 DEF Carries
  <2> QED
    BY <1>1, <1>3, <2>1, <2>2, <2>4, <2>5, WorkerMoves
<1>8. CASE Record(t)
  <2>1. /\ th[t].at = "record" /\ th[t].at \in Working
        /\ UNCHANGED <<active, pending, mailbox, accepted, submitted>>
    BY <1>8 DEF Record, At, Working, shared
  <2>2. /\ history \subseteq history' /\ dropped \subseteq dropped'
        /\ th[t].items \subseteq history' \union dropped'
    BY <1>8 DEF Record, RecordInputs
  <2>3. PICK pt \in Working \union {"finish"} : th' = [th EXCEPT ![t] = [@ EXCEPT !.at = pt, !.items = {}]]
    BY <1>8 DEF Record, Working
  <2>4. /\ th'[t].at = pt /\ th'[t].items = {} /\ th'[t].input = {}
        /\ \A y \in Threads : y # t => th'[y] = th[y]
    BY <1>4, <2>1, <2>3 DEF TInv, ThreadsOK, ThreadType
  <2>5. Carries(th'[t]) /\ th'[t].at \notin Spent \union Offering
    BY <1>1, <2>4 DEF Carries
  <2> QED
    BY <1>1, <1>4, <2>1, <2>2, <2>4, <2>5, WorkerMoves
<1>9. CASE Sample(t)
  <2>1. th[t].at = "sample" /\ TakePending(t, "samplemail", "record") /\ th[t].at \in Working
    BY <1>9 DEF Sample, At, Working
  <2>2. /\ "samplemail" \in Carrying \ Spent
        /\ "record" \notin Spent \union Offering \union {"unborn", "done", "closed"}
    BY DEF Carrying, Spent, Offering
  <2> QED
    BY <1>2, <1>5, <2>1, <2>2, TakePendingKeeps
<1>10. CASE SampleMail(t)
  <2>1. th[t].at = "samplemail" /\ DrainMailbox(t, "record")
    BY <1>10 DEF SampleMail, At
  <2>2. "record" \in Carrying \ Spent /\ th[t].input = {}
    BY <2>1, CarriesNothing DEF Carrying, Spent, Inputting
  <2> QED
    BY <2>1, <2>2, DrainMailboxKeeps
<1>11. CASE \/ FollowUp(t) \/ FinalAnswer(t) \/ EmptyAnswer(t) \/ TurnFails(t)
            \/ CheckPending(t) \/ StopHookBlocks(t) \/ RecheckPending(t)
  <2>1. /\ th[t].at \in {"answer", "check", "recheck"}
        /\ UNCHANGED <<active, pending, mailbox, history, dropped, accepted>>
        /\ submitted \subseteq submitted'
    BY <1>11 DEF FollowUp, FinalAnswer, EmptyAnswer, TurnFails, CheckPending, StopHookBlocks,
       RecheckPending,
                 At, shared, ghosts
  <2>2. PICK pt \in Working \union {"finish"} : Goto(t, pt)
    BY <1>11 DEF FollowUp, FinalAnswer, EmptyAnswer, TurnFails, CheckPending, StopHookBlocks,
       RecheckPending, Working
  <2>3. /\ th'[t].at = pt /\ th'[t].items = {} /\ th'[t].input = {}
        /\ \A y \in Threads : y # t => th'[y] = th[y]
    BY <1>2, <2>1, <2>2 DEF Goto, TInv, ThreadsOK, ThreadType
  <2>4. Carries(th'[t]) /\ th'[t].at \notin Spent \union Offering
    BY <1>1, <2>3 DEF Carries
  <2>5. th[t].at \in Busy
    BY <1>1, <2>1 DEF Working
  <2> QED
    BY <1>2, <2>1, <2>3, <2>4, <2>5, WorkerMoves
<1> QED
  BY <1>6, <1>7, <1>8, <1>9, <1>10, <1>11 DEF Sampling

\* Where a thread rests it carries nothing.
LEMMA RestCarries ==
  ASSUME NEW x \in Threads, ThreadsOK, Return(x)
  PROVE  /\ th'[x].at = th[x].back /\ th'[x].items = {} /\ th'[x].input = {} /\ th'[x].st = None
         /\ Carries(th'[x])
         /\ \A y \in Threads : y # x => th'[y] = th[y]
BY DEF Return, Rest, Thread, Carries, ThreadsOK

\* The turn states of threads whose turn states are spent.
LEMMA SpentStates ==
  ASSUME Inv, NEW y \in Threads, th[y].at \in Spent
  PROVE  /\ th[y].st \in States /\ Live(y)
         /\ \/ y \in Turns /\ th[y].at \in Closing
            \/ y = Submission /\ th[y].at = "idlerecheck" /\ th[y].at \in Claimed
<1>1. th[y].at \in Closing \/ th[y].at = "idlerecheck"
  BY DEF Spent, Closing
<1>2. "idlerecheck" \in Claimed /\ "idlerecheck" \notin Busy \union Closing \union Aborts
  BY DEF Claimed, Busy, Working, Closing, Aborts
<1>3. CASE th[y].at \in Closing
  <2>1. y \in Turns
    BY <1>3, Distinct, Kinds DEF Inv, Ordered, PlacesOK
  <2> QED
    BY <1>3, <2>1, Typed, Lives DEF Inv
<1>4. CASE th[y].at = "idlerecheck"
  BY <1>2, <1>4, Typed, Lives, Distinct DEF Inv, Ordered, PlacesOK, Starters
<1> QED
  BY <1>1, <1>3, <1>4

\* Finishing a turn keeps the items.
LEMMA FinishingKeeps ==
  ASSUME Inv, ItemsOK, NEW t \in Turns, Finishing(t) PROVE ItemsOK'
<1> USE Distinct DEF Inv
<1>0. th[t].back = "done" /\ "done" \notin Spent \union Offering
  BY DEF Ordered, PlacesOK, Spent, Offering
<1>1. th[t].at \notin Carrying /\ th[t].at \notin Inputting \union {"take", "await", "clear"}
        => th[t].items = {} /\ th[t].input = {}
  BY CarriesNothing
<1>2. CASE Finish(t)
  <2>1. /\ th[t].at = "finish" /\ th[t].at \in Busy
        /\ UNCHANGED <<active, pending, mailbox, history, submitted, accepted, dropped>>
    BY <1>2 DEF Finish, At, Busy, shared, ghosts
  <2>2. th[t].items = {} /\ th[t].input = {}
    BY <1>1, <2>1 DEF Carrying, Inputting
  <2>3. /\ th'[t].at \in {"done", "taketask"} /\ th'[t].items = {} /\ th'[t].input = {}
        /\ \A y \in Threads : y # t => th'[y] = th[y]
    <3>1. CASE Return(t)
      BY <1>0, <3>1, RestCarries DEF TInv
    <3>2. CASE Goto(t, "taketask")
      BY <2>2, <3>2 DEF Goto, TInv, ThreadsOK, ThreadType
    <3> QED
      BY <1>2, <3>1, <3>2 DEF Finish
  <2>4. Carries(th'[t]) /\ th'[t].at \notin Spent \union Offering
    BY <2>3 DEF Carries, Spent, Offering
  <2> QED
    BY <2>1, <2>2, <2>3, <2>4, WorkerMoves
<1>3. CASE TakeTask(t)
  <2>1. /\ th[t].at = "taketask" /\ th[t].at \in Busy
        /\ UNCHANGED <<pending, mailbox, history, submitted, accepted, dropped>>
    BY <1>3 DEF TakeTask, At, Busy, shared, ghosts
  <2>2. th[t].items = {} /\ th[t].input = {} /\ th[t].st = None
    BY <1>1, <2>1, Kinds DEF Carrying, Inputting, Ordered, StatesOK
  <2>3. CASE active.task = None
    <3>1. Return(t) /\ active' = active
      BY <1>3, <2>3 DEF TakeTask
    <3> QED
      BY <1>0, <2>1, <2>2, <3>1, RestCarries, WorkerMoves DEF TInv
  <2>4. CASE active.task # None
    <3>1. /\ th'[t].at = "takeinput" /\ th'[t].items = {} /\ th'[t].input = {} /\ th'[t].st = active.state
          /\ \A y \in Threads : y # t => th'[y] = th[y]
      <4>1. /\ th[t] \in ThreadType
            /\ th' = [th EXCEPT ![t] = [th[t] EXCEPT !.at = "takeinput", !.st = active.state]]
        BY <1>3, <2>4 DEF TakeTask, TInv, ThreadsOK
      <4> QED
        BY <2>2, <4>1 DEF TInv, ThreadsOK, ThreadType
    <3>2. active'.state = active.state
      BY <1>3, <2>4 DEF TakeTask, TInv, SharedOK, ActiveType
    <3>3. \A s \in States : Refers(s) => Refers(s)'
      BY <2>2, <3>1, <3>2, StatesStay
    <3>4. /\ \A s \in States : \A i \in pending[s] \ Injects : Refers(s) => Kept(i)'
          /\ \A i \in mailbox : Kept(i)'
      BY <2>1, <3>3 DEF Kept
    <3>5. Carries(th'[t]) /\ th'[t].at \notin Spent \union Offering
      BY <3>1 DEF Carries, Spent, Offering
    <3>6. /\ accepted' \subseteq submitted'
          /\ \A y \in Threads : th[y].at \in Spent => pending'[th[y].st] \subseteq Injects
      BY <2>1 DEF ItemsOK, SpentOK
    <3> QED
      BY <2>1, <2>2, <3>1, <3>4, <3>5, <3>6, ItemsStep
  <2> QED
    BY <2>3, <2>4
<1>4. CASE TakeInput(t)
  <2>1. /\ th[t].at = "takeinput"
        /\ UNCHANGED <<active, mailbox, history, submitted, accepted, dropped>>
        /\ th[t].st \in States
    BY <1>4, Typed DEF TakeInput, At, ghosts, Closing
  <2>2. th[t].items = {} /\ th[t].input = {}
    BY <1>1, <2>1 DEF Carrying, Inputting
  <2>3. /\ /\ th'[t].at = "complete" /\ th'[t].items = pending[th[t].st] /\ th'[t].input = {}
        /\ th'[t].st = th[t].st
        /\ \A y \in Threads : y # t => th'[y] = th[y]
    BY <1>4, <2>2 DEF TakeInput, TInv, ThreadsOK, ThreadType
  <2>4. /\ pending'[th[t].st] = {} /\ \A s \in States : s # th[t].st => pending'[s] = pending[s]
        /\ \A s \in States : pending'[s] \subseteq pending[s]
    BY <1>4, <2>1 DEF TakeInput, TInv, SharedOK
  <2>5. \A s \in States : Refers(s) => Refers(s)'
    BY <2>1, <2>3, StatesStay
  <2>6. Live(t)' /\ Carries(th'[t]) /\ th'[t].at \notin Offering
    BY <2>3 DEF Live, Carries, Carrying, Offering
  <2>7. \A s \in States : \A i \in pending[s] \ Injects : Refers(s) => Kept(i)'
    BY <2>3, <2>4, <2>5, <2>6 DEF Kept
  <2>8. \A i \in mailbox : Kept(i)'
    BY <2>1 DEF Kept
  <2>9. /\ accepted' \subseteq submitted'
        /\ \A y \in Threads : th[y].at \in Spent => pending'[th[y].st] \subseteq Injects
    BY <2>1, <2>4, SpentStates DEF ItemsOK, SpentOK
  <2> QED
    BY <2>1, <2>2, <2>3, <2>4, <2>6, <2>7, <2>8, <2>9, ItemsStep
<1>5. CASE Complete(t)
  <2>1. th[t].at = "complete" /\ UNCHANGED <<active, pending, mailbox, submitted, accepted>>
    BY <1>5 DEF Complete, At, shared
  <2>2. /\ history \subseteq history' /\ dropped \subseteq dropped'
        /\ th[t].items \subseteq history' \union dropped'
    BY <1>5 DEF Complete, RecordInputs
  <2>3. th[t].input = {} /\ pending[th[t].st] \subseteq Injects
    BY <2>1, CarriesNothing DEF Inputting, ItemsOK, SpentOK, Spent
  <2>4. /\ th'[t].at = "release" /\ th'[t].items = {} /\ th'[t].input = {} /\ th'[t].st = th[t].st
        /\ \A y \in Threads : y # t => th'[y] = th[y]
    BY <1>5, <2>3 DEF Complete, TInv, ThreadsOK, ThreadType
  <2>5. Carries(th'[t]) /\ th'[t].at \notin Offering
    BY <2>4 DEF Carries, Offering
  <2> QED
    BY <2>1, <2>2, <2>3, <2>4, <2>5, CarrierMoves
<1>6. CASE Release(t)
  <2>1. th[t].at = "release" /\ UNCHANGED <<pending, mailbox, history, submitted, accepted, dropped>>
    BY <1>6 DEF Release, At, ghosts
  <2>2. th[t].items = {} /\ th[t].input = {} /\ pending[th[t].st] \subseteq Injects
    BY <1>1, <2>1 DEF Carrying, Inputting, ItemsOK, SpentOK, Spent
  <2>3. /\ th'[t].at \in {"pending", "done"} /\ th'[t].items = {} /\ th'[t].input = {} /\ th'[t].st = None
        /\ \A y \in Threads : y # t => th'[y] = th[y]
    <3>1. CASE Return(t)
      BY <1>0, <3>1, RestCarries DEF TInv
    <3>2. CASE th' = [th EXCEPT ![t] = [Rest(t) EXCEPT !.at = "pending"]]
      BY <3>2 DEF Rest, Thread, TInv, ThreadsOK
    <3> QED
      BY <1>6, <3>1, <3>2 DEF Release
  <2>4. active' = active \/ active.state = th[t].st
    BY <1>6 DEF Release
  <2>5. \A s \in States : s # th[t].st /\ Refers(s) => Refers(s)'
    BY <2>3, <2>4, StatesStay
  <2>6. /\ \A s \in States : \A i \in pending[s] \ Injects : Refers(s) => Kept(i)'
        /\ \A i \in mailbox : Kept(i)'
    BY <2>1, <2>2, <2>5 DEF Kept
  <2>7. Carries(th'[t]) /\ th'[t].at \notin Spent \union Offering
    BY <2>3 DEF Carries, Spent, Offering
  <2>8. /\ accepted' \subseteq submitted'
        /\ \A y \in Threads : th[y].at \in Spent => pending'[th[y].st] \subseteq Injects
    BY <2>1 DEF ItemsOK, SpentOK
  <2> QED
    BY <2>1, <2>2, <2>3, <2>6, <2>7, <2>8, ItemsStep
<1> QED
  BY <1>2, <1>3, <1>4, <1>5, <1>6 DEF Finishing

\* A thread that gets or inserts the active turn keeps the items.
LEMMA AllocKeeps ==
  ASSUME Inv, ItemsOK, NEW x \in Threads, \A y \in Threads : y # x => th'[y] = th[y],
         Allocated, active' = GetOrInsert,
         UNCHANGED <<mailbox, history, submitted, accepted, dropped>>,
         th'[x].items = th[x].items, th'[x].input = th[x].input, th[x].st \in {None, active.state},
         th'[x].at \notin {"unborn", "done", "closed"}, Carries(th'[x]),
         th'[x].at \in Spent => active = NoTurn /\ th'[x].st = FreeState,
         th'[x].at \in Offering => th[x].at \in Offering
  PROVE  ItemsOK'
<1> USE Distinct DEF Inv
<1>1. /\ active # NoTurn => active'.state = active.state /\ pending' = pending
      /\ active = NoTurn => CanAllocate /\ active.state = None /\ pending' = [pending EXCEPT ![FreeState] = {}]
  BY DEF Allocated, GetOrInsert, NoTurn
<1>2. CanAllocate => FreeState \in States /\ ~Refers(FreeState)
  <2>1. CanAllocate => FreeState \in States \ Referenced
    BY DEF CanAllocate, FreeState
  <2>2. \A s \in States : Refers(s) => s \in Referenced
    BY DEF Refers, Referenced
  <2> QED
    BY <2>1, <2>2
<1>3. \A s \in States : Refers(s) => pending'[s] = pending[s]
  BY <1>1, <1>2 DEF TInv, SharedOK
<1>4. \A s \in States : Refers(s) => Refers(s)'
  BY <1>1, StatesStay
<1>5. /\ \A s \in States : \A i \in pending[s] \ Injects : Refers(s) => Kept(i)'
      /\ \A i \in mailbox : Kept(i)'
  BY <1>3, <1>4 DEF Kept
<1>6. \A i \in th[x].items \union th[x].input : Kept(i)'
  BY DEF Kept, Live
<1>7. \A y \in Threads : th[y].at \in Spent => pending'[th[y].st] \subseteq Injects
  <2> SUFFICES ASSUME NEW y \in Threads, th[y].at \in Spent PROVE pending'[th[y].st] \subseteq Injects
    OBVIOUS
  <2>1. th[y].st \in States /\ Refers(th[y].st)
    BY SpentStates DEF Refers
  <2> QED
    BY <1>3, <2>1 DEF ItemsOK, SpentOK
<1>8. th'[x].at \in Spent => pending'[th'[x].st] \subseteq Injects
  BY <1>1, <1>2 DEF TInv, SharedOK
<1>9. /\ accepted' \subseteq submitted'
      /\ (th'[x].at \in Offering => th'[x].input \subseteq submitted' \ accepted')
  BY DEF ItemsOK, OffersOK
<1> QED
  BY <1>5, <1>6, <1>7, <1>8, <1>9, ItemsStep

\* A thread puts what it carries into the turn it claims.
LEMMA PutKeeps ==
  ASSUME Inv, ItemsOK, NEW x \in Threads, \A y \in Threads : y # x => th'[y] = th[y],
         th[x].at \in Claimed, pending' = [pending EXCEPT ![th[x].st] = @ \union th[x].items],
         UNCHANGED <<active, mailbox, history, submitted, accepted, dropped>>,
         th'[x].items = {}, th'[x].input = th[x].input,
         th'[x].at \in {"drain", "install"}
  PROVE  ItemsOK'
<1> USE Distinct DEF Inv
<1>1. active.task = None /\ active.state = th[x].st /\ th[x].st \in States
  BY Typed DEF Ordered, ClaimsOK
<1>2. /\ pending'[th[x].st] = pending[th[x].st] \union th[x].items
      /\ \A s \in States : s # th[x].st => pending'[s] = pending[s]
  BY <1>1 DEF TInv, SharedOK
<1>3. \A s \in States : Refers(s) => Refers(s)'
  BY <1>1, StatesStay
<1>4. /\ \A s \in States : \A i \in pending[s] \ Injects : Refers(s) => Kept(i)'
      /\ \A i \in mailbox : Kept(i)'
  BY <1>2, <1>3 DEF Kept
<1>5. Live(x)'
  BY DEF Live
<1>6. \A i \in th[x].items \union th[x].input : Kept(i)'
  <2>1. \A i \in th[x].input : Kept(i)'
    BY <1>5 DEF Kept
  <2>2. \E s \in States : Refers(s)' /\ th[x].items \subseteq pending'[s]
    BY <1>1, <1>2 DEF Refers
  <2>3. \A i \in th[x].items : Kept(i)'
    BY <2>2 DEF Kept
  <2> QED
    BY <2>1, <2>3
<1>7. \A y \in Threads : y # x /\ th[y].at \in Spent => pending'[th[y].st] \subseteq Injects
  <2> SUFFICES ASSUME NEW y \in Threads, y # x, th[y].at \in Spent PROVE pending'[th[y].st] \subseteq Injects
    OBVIOUS
  <2>1. th[y].st \in States /\ th[y].st # th[x].st
    BY <1>1, SpentStates, Kinds DEF Ordered, StatesOK, ClaimsOK
  <2> QED
    BY <1>2, <2>1 DEF ItemsOK, SpentOK
<1>8. accepted' \subseteq submitted' /\ th'[x].at \notin Spent \union Offering /\ Carries(th'[x])
  BY DEF ItemsOK, Spent, Offering, Carries, Inputting
<1> QED
  BY <1>4, <1>6, <1>7, <1>8, ItemsStep

\* The new task takes the input with which its turn is started.
LEMMA InstallKeeps ==
  ASSUME Inv, ItemsOK, NEW x \in Threads, Install(x) PROVE ItemsOK'
<1> USE Distinct DEF Inv
<1>1. /\ th[x].at = "install" /\ "install" \in Claimed
      /\ UNCHANGED <<mailbox, history, submitted, accepted, dropped>>
  BY DEF Install, At, Claimed
<1>2. active.task = None /\ active.state = th[x].st /\ active.state \in States /\ active # NoTurn
  BY <1>1, Typed DEF Ordered, ClaimsOK
<1> DEFINE t == CHOOSE u \in Unused : TRUE
<1>3. t \in Turns /\ kind[t] = "none"
  BY DEF Install, Unused
<1>4. /\ active' = [active EXCEPT !.task = t] /\ pending' = pending
      /\ th' = [y \in Threads |->
                  CASE y = t -> [Thread("run", "done") EXCEPT !.input = th[x].input]
                    [] y = x -> Rest(x)
                    [] y = active.task -> Thread("done", "done")
                    [] OTHER -> th[y]]
  BY <1>2 DEF Install, GetOrInsert, Allocated
<1> HIDE DEF t
<1>5. /\ th[t].at = "unborn" /\ t # x /\ ~Live(t) /\ th[x].items = {}
      /\ th[x].back \in {"idle", "closed", "done"}
  BY <1>1, <1>3, CarriesNothing DEF Ordered, TasksOK, Live, Carrying, TInv, ThreadsOK, ThreadType
<1>6. /\ th'[t].at = "run" /\ th'[t].items = {} /\ th'[t].input = th[x].input
      /\ th'[x].at = th[x].back /\ th'[x].items = {} /\ th'[x].input = {}
      /\ \A y \in Threads : y # t /\ y # x => th'[y] = th[y]
  BY <1>2, <1>3, <1>4, <1>5 DEF Thread, Rest
<1>7. active'.state = active.state
  BY <1>4 DEF TInv, SharedOK, ActiveType
<1>8. CarriesOK'
  BY <1>6 DEF ItemsOK, CarriesOK, Carries, Inputting
<1>9. SpentOK'
  BY <1>4, <1>5, <1>6 DEF ItemsOK, SpentOK, Spent
<1>10. OffersOK'
  BY <1>1, <1>5, <1>6 DEF ItemsOK, OffersOK, Offering
<1>11. \A y \in Threads : y # x /\ Live(y) => Live(y)' /\ th'[y] = th[y]
  BY <1>3, <1>5, <1>6 DEF Live
<1>12. \A s \in States : Refers(s) => Refers(s)'
  BY <1>2, <1>7, <1>11 DEF Refers
<1>13. KeptOK'
  <2> SUFFICES ASSUME NEW i \in accepted \ Injects PROVE Kept(i)'
    BY <1>1 DEF KeptOK
  <2>1. Kept(i)
    BY DEF ItemsOK, KeptOK
  <2>2. CASE i \in history \union dropped \union mailbox
    BY <1>1, <2>2 DEF Kept
  <2>3. CASE \E s \in States : Refers(s) /\ i \in pending[s]
    BY <1>4, <1>12, <2>3 DEF Kept
  <2>4. ASSUME NEW y \in Threads, Live(y), i \in th[y].items \union th[y].input PROVE Kept(i)'
    <3>1. CASE y = x
      <4>1. i \in th'[t].input /\ th'[t].at \notin {"unborn", "done", "closed"} /\ t \in Threads
        BY <1>3, <1>5, <1>6, <2>4, <3>1
      <4> QED
        BY <4>1 DEF Kept, Live
    <3>2. CASE y # x
      BY <1>11, <2>4, <3>2 DEF Kept
    <3> QED
      BY <3>1, <3>2
  <2> QED
    BY <2>1, <2>2, <2>3, <2>4 DEF Kept
<1> QED
  BY <1>1, <1>8, <1>9, <1>10, <1>13 DEF ItemsOK

\* Starting a turn keeps the items.
LEMMA StartingKeeps ==
  ASSUME Inv, ItemsOK, NEW x \in Threads, Starting(x) PROVE ItemsOK'
<1> USE Distinct DEF Inv
<1>1. ASSUME th[x].at \in {"pending", "reserve"}
      PROVE  th[x].items = {} /\ th[x].input = {} /\ th[x].st = None
  BY <1>1, CarriesNothing, Kinds DEF Carrying, Inputting, Ordered, StatesOK
<1>2. th[x].back \in {"idle", "closed", "done"} /\ th[x].back \notin Spent \union Offering
  BY DEF TInv, ThreadsOK, ThreadType, Spent, Offering
<1>3. ASSUME th[x].at \in {"pending", "reserve"}, Return(x),
             UNCHANGED <<active, pending, mailbox, history, submitted, accepted, dropped>>
      PROVE  ItemsOK'
  BY <1>1, <1>2, <1>3, RestCarries, CarrierMoves DEF TInv
<1>4. CASE CheckMail(x)
  <2>1. /\ th[x].at = "pending"
        /\ UNCHANGED <<active, pending, mailbox, history, submitted, accepted, dropped>>
    BY <1>4 DEF CheckMail, At, shared, ghosts
  <2>2. CASE Goto(x, "reserve")
    <3>1. /\ th'[x].at = "reserve" /\ th'[x].items = {} /\ th'[x].input = {}
          /\ \A y \in Threads : y # x => th'[y] = th[y]
      BY <1>1, <2>1, <2>2 DEF Goto, TInv, ThreadsOK, ThreadType
    <3>2. Carries(th'[x]) /\ th'[x].at \notin Spent \union Offering
      BY <3>1 DEF Carries, Spent, Offering
    <3> QED
      BY <1>1, <2>1, <3>1, <3>2, CarrierMoves
  <2> QED
    BY <1>3, <1>4, <2>1, <2>2 DEF CheckMail
<1>5. CASE Reserve(x)
  <2>1. th[x].at = "reserve" /\ UNCHANGED <<mailbox, history, submitted, accepted, dropped>>
    BY <1>5 DEF Reserve, At, ghosts
  <2>2. CASE active # NoTurn
    BY <1>3, <1>5, <2>1, <2>2 DEF Reserve
  <2>3. CASE active = NoTurn
    <3>1. /\ active' = GetOrInsert /\ Allocated
          /\ th' = [th EXCEPT ![x] = [@ EXCEPT !.at = "gather", !.st = FreeState]]
      BY <1>5, <2>3 DEF Reserve
    <3>2. /\ th'[x].at = "gather" /\ th'[x].items = th[x].items /\ th'[x].input = th[x].input
          /\ \A y \in Threads : y # x => th'[y] = th[y]
      BY <3>1 DEF TInv, ThreadsOK, ThreadType
    <3>3. Carries(th'[x]) /\ th'[x].at \notin Spent \union Offering
      BY <1>1, <2>1, <3>2 DEF Carries, Spent, Offering
    <3> QED
      BY <1>1, <2>1, <3>1, <3>2, <3>3, AllocKeeps
  <2> QED
    BY <2>2, <2>3
<1>6. CASE Gather(x)
  <2>1. th[x].at = "gather" /\ TakePending(x, "gathermail", "deliver") /\ th[x].at \in Claimed
    BY <1>6 DEF Gather, At, Claimed
  <2>2. th[x].items = {} /\ th[x].input = {} /\ th[x].st = active.state
    BY <2>1, CarriesNothing DEF Carrying, Inputting, Ordered, ClaimsOK
  <2>3. /\ "gathermail" \in Carrying \ Spent
        /\ "deliver" \notin Spent \union Offering \union {"unborn", "done", "closed"}
    BY DEF Carrying, Spent, Offering
  <2> QED
    BY <2>1, <2>2, <2>3, TakePendingKeeps
<1>7. CASE GatherMail(x)
  <2>1. th[x].at = "gathermail" /\ DrainMailbox(x, "deliver") /\ "deliver" \in Carrying \ Spent
    BY <1>7 DEF GatherMail, At, Carrying, Spent
  <2>2. th[x].input = {}
    BY <2>1, CarriesNothing DEF Inputting
  <2> QED
    BY <2>1, <2>2, DrainMailboxKeeps
<1>8. CASE Drain(x)
  <2>1. DrainMailbox(x, "bind") /\ "bind" \in Carrying \ Spent /\ "bind" \in Inputting
    BY <1>8 DEF Drain, Carrying, Spent, Inputting
  <2> QED
    BY <2>1, DrainMailboxKeeps
<1>9. CASE Deliver(x)
  <2>1. /\ th[x].at = "deliver" /\ th[x].at \in Claimed
        /\ UNCHANGED <<active, mailbox, history, submitted, accepted, dropped>>
    BY <1>9 DEF Deliver, At, Claimed, ghosts
  <2>2. th[x].input = {}
    BY <2>1, CarriesNothing DEF Inputting
  <2>3. /\ th'[x].at = "drain" /\ th'[x].items = {} /\ th'[x].input = {}
        /\ \A y \in Threads : y # x => th'[y] = th[y]
    BY <1>9 DEF Deliver, TInv, ThreadsOK, ThreadType
  <2> QED
    BY <1>9, <2>1, <2>2, <2>3, PutKeeps DEF Deliver
<1>10. CASE ExtendTurn(x)
  <2>1. /\ th[x].at = "extend" /\ th[x].at \in Claimed
        /\ UNCHANGED <<active, mailbox, history, submitted, accepted, dropped>>
    BY <1>10 DEF ExtendTurn, At, Claimed, ghosts
  <2>2. /\ th'[x].at = "install" /\ th'[x].items = {} /\ th'[x].input = th[x].input
        /\ \A y \in Threads : y # x => th'[y] = th[y]
    BY <1>10 DEF ExtendTurn, TInv, ThreadsOK, ThreadType
  <2> QED
    BY <1>10, <2>1, <2>2, PutKeeps DEF ExtendTurn
<1>11. CASE Bind(x)
  <2>1. /\ th[x].at = "bind" /\ UNCHANGED <<mailbox, history, submitted, accepted, dropped>>
        /\ active' = GetOrInsert /\ Allocated
    BY <1>11 DEF Bind, At
  <2>2. /\ th'[x].at = "extend" /\ th'[x].items = th[x].items /\ th'[x].input = th[x].input
        /\ \A y \in Threads : y # x => th'[y] = th[y]
    BY <1>11 DEF Bind, TInv, ThreadsOK, ThreadType
  <2>3. th[x].st \in {None, active.state}
    BY <2>1 DEF Ordered, ClaimsOK
  <2>4. Carries(th'[x]) /\ th'[x].at \notin Spent \union Offering
    BY <2>2 DEF Carries, Carrying, Inputting, Spent, Offering
  <2> QED
    BY <2>1, <2>2, <2>3, <2>4, AllocKeeps
<1> QED
  BY <1>4, <1>5, <1>6, <1>7, <1>8, <1>9, <1>10, <1>11, InstallKeeps DEF Starting

\* The aborted task is over; what it carried is given up.
LEMMA AwaitTaskKeeps ==
  ASSUME Inv, ItemsOK, NEW x \in Threads, AwaitTask(x) PROVE ItemsOK'
<1> USE Distinct DEF Inv
<1>1. /\ x \notin Turns /\ th[x].at = "await"
      /\ UNCHANGED <<active, pending, mailbox, history, submitted, accepted>>
  BY Kinds DEF AwaitTask, At, shared, Ordered, PlacesOK
<1> DEFINE v == th[x].victim
<1>2. v \in Turns /\ v # x /\ th[v].at \in Busy \union {"done"} /\ th[v].st = None
  <2>1. v \in Turns /\ v # x /\ th[v].at \in Busy \union {"done"}
    BY <1>1, Typed DEF Ordered, EndsOK
  <2> QED
    BY <2>1, Kinds DEF Ordered, StatesOK
<1>3. th' = [th EXCEPT ![x].at = "clear", ![v] = Thread("done", "done")]
  BY DEF AwaitTask
<1>4. dropped' = dropped \union th[v].input \union th[v].items
  BY DEF AwaitTask
<1> HIDE DEF v
<1>5. /\ th'[x].at = "clear" /\ th'[x].st = th[x].st /\ th'[x].reason = th[x].reason
      /\ th'[x].items = th[x].items /\ th'[x].input = th[x].input
      /\ th'[v].at = "done" /\ th'[v].items = {} /\ th'[v].input = {}
      /\ \A y \in Threads : y # x /\ y # v => th'[y] = th[y]
  BY <1>2, <1>3 DEF Thread, TInv, ThreadsOK, ThreadType
<1>6. CarriesOK'
  <2>1. Carries(th'[x])
    BY <1>1, <1>5, CarriesNothing DEF ItemsOK, CarriesOK, Carries, Carrying, Inputting
  <2>2. Carries(th'[v])
    BY <1>5 DEF Carries
  <2> QED
    BY <1>5, <2>1, <2>2 DEF ItemsOK, CarriesOK
<1>7. SpentOK'
  BY <1>1, <1>5 DEF ItemsOK, SpentOK, Spent
<1>8. OffersOK'
  BY <1>1, <1>5 DEF ItemsOK, OffersOK, Offering
<1>9. \A y \in Threads : y # v /\ Live(y) =>
         /\ Live(y)' /\ th'[y].st = th[y].st
         /\ th'[y].items = th[y].items /\ th'[y].input = th[y].input
  BY <1>5 DEF Live
<1>10. \A s \in States : Refers(s) => Refers(s)'
  BY <1>1, <1>2, <1>9 DEF Refers
<1>11. KeptOK'
  <2> SUFFICES ASSUME NEW i \in accepted \ Injects PROVE Kept(i)'
    BY <1>1 DEF KeptOK
  <2>1. Kept(i)
    BY DEF ItemsOK, KeptOK
  <2>2. CASE i \in history \union dropped \union mailbox
    BY <1>1, <1>4, <2>2 DEF Kept
  <2>3. CASE \E s \in States : Refers(s) /\ i \in pending[s]
    BY <1>1, <1>10, <2>3 DEF Kept
  <2>4. ASSUME NEW y \in Threads, Live(y), i \in th[y].items \union th[y].input PROVE Kept(i)'
    BY <1>4, <1>9, <2>4 DEF Kept
  <2> QED
    BY <2>1, <2>2, <2>3, <2>4 DEF Kept
<1> QED
  BY <1>1, <1>6, <1>7, <1>8, <1>11 DEF ItemsOK

\* After an abort the thread carries on with the input that replaces the turn.
LEMMA AfterAbortCarries ==
  ASSUME TInv, ItemsOK, NEW x \in Threads, NEW aborted, th' = [th EXCEPT ![x] = AfterAbort(x, aborted)],
         th[x].at \in {"take", "clear"}, th[x].back \in {"idle", "closed"}
  PROVE  /\ th'[x].at \notin Spent \union Offering /\ Carries(th'[x]) /\ th'[x].items = {}
         /\ th'[x].input = th[x].input
         /\ th[x].items = {}
         /\ th[x].input # {} => th'[x].at = "drain"
         /\ \A y \in Threads : y # x => th'[y] = th[y]
<1>1. th[x] \in ThreadType /\ th'[x] = AfterAbort(x, aborted) /\ \A y \in Threads : y # x => th'[y] = th[y]
  BY DEF TInv, ThreadsOK
<1>2. th[x].items = {}
  BY CarriesNothing DEF Carrying
<1>3. CASE th[x].reason = "Replaced"
  <2>1. AfterAbort(x, aborted) = [th[x] EXCEPT !.at = "drain", !.st = None, !.victim = None]
    BY <1>3 DEF AfterAbort
  <2>3. th'[x] = [th[x] EXCEPT !.at = "drain", !.st = None, !.victim = None]
    BY <1>1, <2>1
  <2>2. th'[x].at = "drain" /\ th'[x].items = {} /\ th'[x].input = th[x].input
    <3>1. th[x] \in ThreadType
      BY <1>1
    <3> QED
      BY <1>2, <2>3, <3>1, DrainsNext
  <2> QED
    BY <1>1, <1>2, <2>2 DEF Carries, Inputting, Spent, Offering
<1>4. CASE th[x].reason # "Replaced"
  <2>1. AfterAbort(x, aborted) \in {[Rest(x) EXCEPT !.at = "pending"], Rest(x)}
    BY <1>4 DEF AfterAbort
  <2>2. th'[x].at \in {"pending", "idle", "closed"} /\ th'[x].items = {} /\ th'[x].input = {}
    BY <1>1, <2>1 DEF Rest, Thread
  <2>3. th[x].input = {}
    BY <1>4, CarriesNothing
  <2> QED
    BY <1>1, <1>2, <2>2, <2>3 DEF Carries, Spent, Offering
<1> QED
  BY <1>3, <1>4

\* Cancelling the task of the active turn keeps the items: the thread that does
\* so holds the turn state.
LEMMA CancelKeeps ==
  ASSUME Inv, ItemsOK, NEW x \in Threads, th[x].at \in {"take", "takeif"}, CancelTask(x),
         active.task # None,
         UNCHANGED <<pending, mailbox, history, submitted, accepted, dropped>>
  PROVE  ItemsOK'
<1> USE Distinct DEF Inv
<1>1. active.task \notin cancelled /\ th[x].st = None
  BY Kinds DEF Ordered, TasksOK, StatesOK
<1>2. th' = [th EXCEPT ![x] = [th[x] EXCEPT !.at = "await", !.victim = active.task, !.st = active.state]]
  BY <1>1 DEF CancelTask
<1>3. /\ th'[x].at = "await" /\ th'[x].st = active.state /\ th'[x].items = th[x].items
      /\ th'[x].input = th[x].input
      /\ th'[x].reason = th[x].reason /\ \A y \in Threads : y # x => th'[y] = th[y]
  <2>1. th \in [Threads -> ThreadType] /\ th[x] \in ThreadType
    BY DEF TInv, ThreadsOK
  <2> QED
    BY <1>2, <2>1 DEF ThreadType
<1>4. th'[x].at \notin Spent \union Offering /\ Carries(th'[x])
  BY <1>3, CarriesNothing DEF Carries, Carrying, Spent, Offering, Inputting
<1>5. \A s \in States : Refers(s) => Refers(s)'
  BY <1>1, <1>3, StatesStay
<1>6. /\ \A s \in States : \A i \in pending[s] \ Injects : Refers(s) => Kept(i)'
      /\ \A i \in mailbox : Kept(i)'
  BY <1>5 DEF Kept
<1>7. \A i \in th[x].items \union th[x].input : Kept(i)'
  BY <1>3 DEF Kept, Live
<1>8. /\ accepted' \subseteq submitted'
      /\ \A y \in Threads : th[y].at \in Spent => pending'[th[y].st] \subseteq Injects
  BY DEF ItemsOK, SpentOK
<1> QED
  BY <1>3, <1>4, <1>6, <1>7, <1>8, ItemsStep

\* Aborting a turn keeps the items.
LEMMA AbortingKeeps ==
  ASSUME Inv, ItemsOK, NEW x \in Threads, Aborting(x) PROVE ItemsOK'
<1> USE Distinct DEF Inv
<1>1. CASE TakeIfActive(x)
  <2>1. /\ x = Guardian /\ th[x].at = "takeif" /\ th[x].back = "idle" /\ th[x].st = None
        /\ th[x].victim # None
        /\ UNCHANGED <<pending, mailbox, history, submitted, accepted, dropped>>
    BY <1>1, Kinds DEF TakeIfActive, At, ghosts, Ordered, PlacesOK, StatesOK, TInv, ThreadsOK, Ready
  <2>2. CASE active.task = th[x].victim
    BY <1>1, <2>1, <2>2, CancelKeeps DEF TakeIfActive
  <2>3. CASE active.task # th[x].victim
    <3>1. Return(x) /\ active' = active
      BY <1>1, <2>3 DEF TakeIfActive
    <3>2. /\ th'[x].at = "idle" /\ Carries(th'[x]) /\ th'[x].st = None
          /\ \A y \in Threads : y # x => th'[y] = th[y]
      BY <2>1, <3>1, RestCarries DEF TInv
    <3>3. th[x].items = {} /\ th[x].input = {}
      BY <2>1, CarriesNothing DEF Carrying, Inputting
    <3> QED
      BY <2>1, <3>1, <3>2, <3>3, CarrierMoves DEF Spent, Offering
  <2> QED
    BY <2>2, <2>3
<1>2. CASE TakeActive(x)
  <2>1. /\ x = Submission /\ th[x].at = "take" /\ th[x].back \in {"idle", "closed"} /\ th[x].st = None
        /\ \A y \in Threads : th[y].at \notin Starters
    BY <1>2, Kinds DEF TakeActive, At, Ordered, PlacesOK, StatesOK
  <2>2. UNCHANGED <<pending, mailbox, history, submitted, accepted, dropped>> /\ active' = NoTurn
    BY <1>2 DEF TakeActive, ghosts
  <2>3. /\ accepted' \subseteq submitted'
        /\ \A y \in Threads : th[y].at \in Spent => pending'[th[y].st] \subseteq Injects
    BY <2>2 DEF ItemsOK, SpentOK
  <2>4. CASE active.task = None
    <3>1. th' = [th EXCEPT ![x] = AfterAbort(x, FALSE)]
      BY <1>2, <2>4 DEF TakeActive
    <3>2. /\ th'[x].at \notin Spent \union Offering /\ Carries(th'[x]) /\ th'[x].input = th[x].input
          /\ th[x].items = {} /\ (th[x].input # {} => th'[x].at = "drain")
          /\ \A y \in Threads : y # x => th'[y] = th[y]
      BY <2>1, <3>1, AfterAbortCarries
    <3>3. active.state \in States => \E t \in Turns : t # x /\ Live(t) /\ th[t].st = active.state
      <4>1. active.state \in States => active # NoTurn
        BY DEF NoTurn
      <4> QED
        BY <2>1, <2>4, <4>1, Lives DEF Ordered, ClaimsOK
    <3>4. \A s \in States : Refers(s) => Refers(s)'
      <4> SUFFICES ASSUME NEW s \in States, Refers(s) PROVE Refers(s)'
        OBVIOUS
      <4>1. PICK y \in Threads : y # x /\ Live(y) /\ th[y].st = s
        BY <2>1, <3>3 DEF Refers
      <4> QED
        BY <3>2, <4>1 DEF Refers, Live
    <3>5. /\ \A s \in States : \A i \in pending[s] \ Injects : Refers(s) => Kept(i)'
          /\ \A i \in mailbox : Kept(i)'
      BY <2>2, <3>4 DEF Kept
    <3>6. \A i \in th[x].items \union th[x].input : Kept(i)'
      BY <3>2 DEF Kept, Live
    <3> QED
      BY <2>2, <2>3, <3>2, <3>5, <3>6, ItemsStep
  <2>5. CASE active.task # None
    BY <1>2, <2>1, <2>2, <2>5, CancelKeeps DEF TakeActive
  <2> QED
    BY <2>4, <2>5
<1>3. CASE ClearPending(x)
  <2>1. x \notin Turns /\ th[x].at = "clear" /\ th[x].back \in {"idle", "closed"} /\ th[x].st \in States
    BY <1>3, Kinds, Typed DEF ClearPending, At, Ordered, PlacesOK
  <2>2. UNCHANGED <<active, mailbox, history, submitted, accepted>>
    BY <1>3 DEF ClearPending
  <2>3. /\ dropped' = dropped \union pending[th[x].st]
        /\ \A s \in States : pending'[s] = IF s = th[x].st THEN {} ELSE pending[s]
    BY <1>3 DEF ClearPending, TInv, SharedOK
  <2>4. /\ th'[x].at \notin Spent \union Offering /\ Carries(th'[x]) /\ th'[x].input = th[x].input
        /\ th[x].items = {} /\ (th[x].input # {} => th'[x].at = "drain")
        /\ \A y \in Threads : y # x => th'[y] = th[y]
    BY <1>3, <2>1, AfterAbortCarries DEF ClearPending
  <2>5. \A s \in States : s # th[x].st /\ Refers(s) => Refers(s)'
    BY <2>2, <2>4, StatesStay
  <2>6. /\ \A s \in States : \A i \in pending[s] \ Injects : Refers(s) => Kept(i)'
        /\ \A i \in mailbox : Kept(i)'
    BY <2>2, <2>3, <2>5 DEF Kept
  <2>7. \A i \in th[x].items \union th[x].input : Kept(i)'
    BY <2>4 DEF Kept, Live
  <2>8. /\ accepted' \subseteq submitted'
        /\ \A y \in Threads : th[y].at \in Spent => pending'[th[y].st] \subseteq Injects
    BY <2>2, <2>3, SpentStates DEF ItemsOK, SpentOK
  <2> QED
    BY <2>2, <2>3, <2>4, <2>6, <2>7, <2>8, ItemsStep
<1> QED
  BY <1>1, <1>2, <1>3, AwaitTaskKeeps DEF Aborting

\* Reserving an idle turn, starting it or giving it back keeps the items.
LEMMA IdlingKeeps ==
  ASSUME Inv, ItemsOK, NEW x \in Threads, Idling(x) PROVE ItemsOK'
<1> USE Distinct DEF Inv
<1>1. /\ x = Submission /\ th[x].at \in Offering /\ th[x].back \in {"idle", "closed"} /\ th[x].items = {}
      /\ th[x].input \subseteq submitted \ accepted
  <2>1. th[x].at \in Offering
    BY DEF Idling, IdleReserve, IdleRefused, IdleStarts, At, Offering
  <2>2. x = Submission /\ th[x].back \in {"idle", "closed"}
    BY <2>1 DEF Ordered, PlacesOK, Offering, Starters, Claimed, Busy, Closing, Aborts, Working
  <2>3. th[x].items = {} /\ th[x].input \subseteq submitted \ accepted
    BY <2>1, CarriesNothing DEF Offering, Carrying, ItemsOK, OffersOK
  <2> QED
    BY <2>1, <2>2, <2>3
<1>2. th[x].back \notin Spent \union Offering
  BY <1>1 DEF Spent, Offering
<1>3. CASE IdleReserve(x)
  <2>1. /\ th[x].at = "idlereserve" /\ UNCHANGED <<mailbox, history, submitted, accepted, dropped>>
        /\ th[x].st = None
    BY <1>3, Kinds DEF IdleReserve, At, ghosts, Ordered, StatesOK
  <2>2. CASE active # NoTurn
    <3>1. Return(x) /\ UNCHANGED <<active, pending>>
      BY <1>3, <2>2 DEF IdleReserve
    <3> QED
      BY <1>1, <1>2, <2>1, <3>1, RestCarries, CarrierMoves DEF TInv
  <2>3. CASE active = NoTurn
    <3>1. /\ active' = GetOrInsert /\ Allocated
          /\ th' = [th EXCEPT ![x] = [@ EXCEPT !.at = "idlerecheck", !.st = FreeState]]
      BY <1>3, <2>3 DEF IdleReserve
    <3>2. /\ /\ th'[x].at = "idlerecheck" /\ th'[x].items = th[x].items
          /\ th'[x].input = th[x].input /\ th'[x].st = FreeState
          /\ \A y \in Threads : y # x => th'[y] = th[y]
      BY <3>1 DEF TInv, ThreadsOK, ThreadType
    <3>3. Carries(th'[x])
      BY <1>1, <3>2 DEF Carries, Inputting
    <3> QED
      BY <1>1, <2>1, <2>3, <3>1, <3>2, <3>3, AllocKeeps
  <2> QED
    BY <2>2, <2>3
<1>4. ASSUME th[x].at = "idlerecheck"
      PROVE  active.state = th[x].st /\ active.task = None /\ pending[th[x].st] \subseteq Injects
  BY <1>4 DEF Ordered, ClaimsOK, Claimed, ItemsOK, SpentOK, Spent
<1>5. CASE IdleRefused(x)
  <2>1. th[x].at = "idlerecheck" /\ UNCHANGED <<pending, mailbox, history, submitted, accepted, dropped>>
    BY <1>5 DEF IdleRefused, At, ghosts
  <2>2. /\ th'[x].at = th[x].back /\ Carries(th'[x]) /\ th'[x].st = None
        /\ \A y \in Threads : y # x => th'[y] = th[y]
    BY <1>5, RestCarries DEF IdleRefused, TInv
  <2>3. \A s \in States : s # th[x].st /\ Refers(s) => Refers(s)'
    BY <1>4, <2>1, <2>2, StatesStay
  <2>4. /\ \A s \in States : \A i \in pending[s] \ Injects : Refers(s) => Kept(i)'
        /\ \A i \in mailbox : Kept(i)'
    BY <1>4, <2>1, <2>3 DEF Kept
  <2>5. /\ accepted' \subseteq submitted'
        /\ \A y \in Threads : th[y].at \in Spent => pending'[th[y].st] \subseteq Injects
    BY <2>1 DEF ItemsOK, SpentOK
  <2> QED
    BY <1>1, <1>2, <2>1, <2>2, <2>4, <2>5, ItemsStep
<1>6. CASE IdleStarts(x)
  <2>1. /\ th[x].at = "idlerecheck"
        /\ UNCHANGED <<active, pending, mailbox, history, submitted, dropped>>
        /\ accepted' = accepted \union th[x].input
    BY <1>6 DEF IdleStarts, At, shared
  <2>2. /\ th'[x].at = "drain" /\ th'[x].items = {} /\ th'[x].input = th[x].input /\ th'[x].st = th[x].st
        /\ \A y \in Threads : y # x => th'[y] = th[y]
    BY <1>1, <1>6 DEF IdleStarts, Goto, TInv, ThreadsOK, ThreadType
  <2>3. \A s \in States : Refers(s) => Refers(s)'
    BY <2>1, <2>2, StatesStay
  <2>4. /\ \A s \in States : \A i \in pending[s] \ Injects : Refers(s) => Kept(i)'
        /\ \A i \in mailbox : Kept(i)'
    BY <2>1, <2>3 DEF Kept
  <2>5. \A i \in th[x].input : Kept(i)'
    BY <2>2 DEF Kept, Live
  <2>6. Carries(th'[x]) /\ th'[x].at \notin Spent \union Offering
    BY <2>2 DEF Carries, Inputting, Spent, Offering
  <2>7. /\ accepted' \subseteq submitted'
        /\ \A y \in Threads : th[y].at \in Spent => pending'[th[y].st] \subseteq Injects
    BY <1>1, <2>1 DEF ItemsOK, SpentOK
  <2> QED
    BY <1>1, <2>1, <2>2, <2>4, <2>5, <2>6, <2>7, ItemsStep
<1> QED
  BY <1>3, <1>5, <1>6 DEF Idling

\* The operations sent to the session keep the items.
LEMMA OperationKeeps ==
  ASSUME Inv, Uncontended, ItemsOK, Operation PROVE ItemsOK'
<1> USE Distinct DEF Inv
<1> DEFINE x == Submission
<1>1. ASSUME At(x, "idle") PROVE th[x].items = {} /\ th[x].input = {} /\ th[x].st = None
  BY <1>1, CarriesNothing, Kinds DEF At, Carrying, Inputting, Ordered, StatesOK
<1>2. \A s \in States : Refers(s) /\ active' = active /\ th' = th => Refers(s)'
  BY DEF Refers, Live
<1>3. /\ Carries(th[x]) /\ accepted \subseteq submitted
      /\ \A y \in Threads : th[y].at \in Spent => pending[th[y].st] \subseteq Injects
  BY DEF ItemsOK, CarriesOK, SpentOK
<1>4. ASSUME At(x, "idle"), NEW pt \in {"take", "idlereserve", "pending"},
             th'[x].at = pt, th'[x].items = {}, th'[x].input \intersect accepted = {},
             \A y \in Threads : y # x => th'[y] = th[y],
             th'[x].input # {} => pt = "idlereserve" /\ th'[x].input \subseteq submitted',
             submitted \subseteq submitted',
             UNCHANGED <<active, pending, mailbox, history, dropped, accepted>>
      PROVE  ItemsOK'
  <2>1. Carries(th'[x]) /\ th'[x].at \notin Spent
    BY <1>4 DEF Carries, Inputting, Spent
  <2> QED
    BY <1>1, <1>4, <2>1, CarrierMoves DEF Offering
<1>5. ASSUME NEW u \in Users, StartTurn(u) PROVE ItemsOK'
  <2>1. /\ At(x, "idle") /\ submitted' = submitted \union {u} /\ accepted' = accepted \union {u}
        /\ UNCHANGED <<active, pending, mailbox, history, dropped>>
    BY <1>5 DEF StartTurn, Submit, shared
  <2>2. /\ /\ th'[x].at = "take" /\ th'[x].items = th[x].items /\ th'[x].input = {u}
        /\ th'[x].st = th[x].st /\ th'[x].reason = "Replaced"
        /\ \A y \in Threads : y # x => th'[y] = th[y]
    BY <1>5 DEF StartTurn, TInv, ThreadsOK, ThreadType
  <2>3. \A s \in States : Refers(s) => Refers(s)'
    BY <1>1, <2>1, <2>2, StatesStay
  <2>4. /\ \A s \in States : \A i \in pending[s] \ Injects : Refers(s) => Kept(i)'
        /\ \A i \in mailbox : Kept(i)'
    BY <2>1, <2>3 DEF Kept
  <2>5. Kept(u)'
    BY <2>2 DEF Kept, Live
  <2>6. Carries(th'[x]) /\ th'[x].at \notin Spent \union Offering
    BY <1>1, <2>1, <2>2 DEF Carries, Spent, Offering
  <2> QED
    BY <1>1, <1>3, <2>1, <2>2, <2>4, <2>5, <2>6, ItemsStep
<1>6. ASSUME NEW u \in Users, Steer(u) PROVE ItemsOK'
  <2>1. /\ At(x, "idle") /\ submitted' = submitted \union {u} /\ accepted' = accepted \union {u}
        /\ UNCHANGED <<active, mailbox, history, dropped, th>> /\ active.task # None
    BY <1>6 DEF Steer, Submit
  <2>2. active.state \in States
    BY <2>1, Typed
  <2>3. /\ u \in pending'[active.state] /\ \A s \in States : pending[s] \subseteq pending'[s]
        /\ \A s \in States : s # active.state => pending'[s] = pending[s]
    BY <1>6, <2>2 DEF Steer, Extend, TInv, SharedOK
  <2>4. /\ \A s \in States : \A i \in pending[s] \ Injects : Refers(s) => Kept(i)'
        /\ \A i \in mailbox : Kept(i)'
    BY <1>2, <2>1, <2>3 DEF Kept
  <2>5. Kept(u)'
    <3>1. \E s \in States : Refers(s)' /\ u \in pending'[s]
      BY <2>1, <2>2, <2>3 DEF Refers
    <3> QED
      BY <3>1 DEF Kept
  <2>6. \A y \in Threads : th[y].at \in Spent => pending'[th[y].st] \subseteq Injects
    <3> SUFFICES ASSUME NEW y \in Threads, th[y].at \in Spent PROVE pending'[th[y].st] \subseteq Injects
      OBVIOUS
    <3>1. th[y].st \in States /\ th[y].st # active.state
      BY <2>1, SpentStates DEF Ordered, StatesOK, ClaimsOK
    <3> QED
      BY <1>3, <2>3, <3>1
  <2>7. th[x].at \notin Spent \union Offering
    BY <2>1 DEF At, Spent, Offering
  <2> QED
    BY <1>1, <1>3, <2>1, <2>4, <2>5, <2>6, <2>7, ItemsStep
<1>7. ASSUME NEW u \in Users, NotSteerable(u) PROVE ItemsOK'
  <2>1. /\ At(x, "idle") /\ submitted \subseteq submitted'
        /\ UNCHANGED <<active, pending, mailbox, history, accepted, dropped, th>>
    BY <1>7 DEF NotSteerable, Submit, shared, ghosts
  <2>2. th[x].at \notin Spent \union Offering \union {"unborn", "done", "closed"}
    BY <2>1 DEF At, Spent, Offering
  <2> QED
    BY <1>1, <1>3, <2>1, <2>2, CarrierMoves
<1>8. ASSUME NEW u \in Idlers, IdleCheck(u) PROVE ItemsOK'
  <2>1. /\ At(x, "idle") /\ u \notin submitted /\ submitted' = submitted \union {u}
        /\ UNCHANGED <<active, pending, mailbox, history, accepted, dropped>>
    BY <1>8 DEF IdleCheck, Submit, shared, ghosts
  <2>2. CASE UNCHANGED th
    <3>1. th[x].at \notin Spent \union Offering \union {"unborn", "done", "closed"}
      BY <2>1 DEF At, Spent, Offering
    <3> QED
      BY <1>1, <1>3, <2>1, <2>2, <3>1, CarrierMoves
  <2>3. CASE th' = [th EXCEPT ![Submission] = [@ EXCEPT !.at = "idlereserve", !.input = {u}]]
    <3>1. /\ th'[x].at = "idlereserve" /\ th'[x].items = th[x].items /\ th'[x].input = {u}
          /\ \A y \in Threads : y # x => th'[y] = th[y]
      BY <2>3 DEF TInv, ThreadsOK, ThreadType
    <3> QED
      BY <1>1, <1>3, <1>4, <2>1, <3>1
  <2> QED
    BY <1>8, <2>2, <2>3 DEF IdleCheck
<1>9. ASSUME NEW m \in Mail, SendMail(m) PROVE ItemsOK'
  <2>1. /\ /\ At(x, "idle") /\ submitted' = submitted \union {m} /\ accepted' = accepted \union {m}
        /\ mailbox' = mailbox \union {m}
        /\ UNCHANGED <<active, pending, history, dropped>>
    BY <1>9 DEF SendMail, Submit
  <2>2. /\ th'[x].at \in {"idle", "pending"} /\ th'[x].items = {} /\ th'[x].input = {} /\ th'[x].st = None
        /\ \A y \in Threads : y # x => th'[y] = th[y]
    BY <1>1, <1>9, <2>1 DEF SendMail, At, Goto, TInv, ThreadsOK, ThreadType
  <2>3. \A s \in States : Refers(s) => Refers(s)'
    BY <1>1, <2>1, <2>2, StatesStay
  <2>4. /\ \A s \in States : \A i \in pending[s] \ Injects : Refers(s) => Kept(i)'
        /\ \A i \in mailbox' : Kept(i)'
    BY <2>1, <2>3 DEF Kept
  <2>5. Carries(th'[x]) /\ th'[x].at \notin Spent \union Offering
    BY <2>2 DEF Carries, Spent, Offering
  <2> QED
    BY <1>1, <1>3, <2>1, <2>2, <2>4, <2>5, ItemsStep
<1>10. ASSUME NEW i \in Injects, Inject(i) PROVE ItemsOK'
  <2>1. /\ /\ i \notin submitted /\ submitted' = submitted \union {i}
        /\ accepted \subseteq accepted' /\ accepted' \subseteq accepted \union {i}
        /\ UNCHANGED <<active, mailbox, history, dropped, th>>
    BY <1>10 DEF Inject
  <2>2. \A s \in States : pending[s] \subseteq pending'[s] /\ pending'[s] \subseteq pending[s] \union {i}
    <3>1. CASE active = NoTurn
      BY <1>10, <3>1 DEF Inject
    <3>2. CASE active # NoTurn
      BY <1>10, <3>2, ActiveState DEF Inject, Extend, TInv, SharedOK
    <3> QED
      BY <3>1, <3>2
  <2>3. /\ \A s \in States : \A j \in pending[s] \ Injects : Refers(s) => Kept(j)'
        /\ \A j \in mailbox : Kept(j)'
    BY <1>2, <2>1, <2>2 DEF Kept
  <2>4. \A y \in Threads : th[y].at \in Spent => pending'[th[y].st] \subseteq Injects
    BY <1>3, <2>2, SpentStates
  <2>5. th[x].at \in Offering => th[x].input \subseteq submitted' \ accepted'
    BY <2>1 DEF ItemsOK, OffersOK
  <2>6. \A j \in th[x].items \union th[x].input : Live(x) => Kept(j)'
    BY <2>1 DEF Kept, Live
  <2> QED
    BY <1>3, <2>1, <2>3, <2>4, <2>5, <2>6, ItemsStep
<1>11. ASSUME Interrupt \/ Compact \/ Shutdown PROVE ItemsOK'
  <2>1. /\ th'[x].at = "take" /\ th'[x].items = th[x].items /\ th'[x].input = th[x].input
        /\ \A y \in Threads : y # x => th'[y] = th[y]
    <3>1. CASE Interrupt
      BY <3>1 DEF Interrupt, TInv, ThreadsOK, ThreadType
    <3>2. CASE Compact
      BY <3>2 DEF Compact, TInv, ThreadsOK, ThreadType
    <3>3. CASE Shutdown
      BY <3>3 DEF Shutdown, TInv, ThreadsOK, ThreadType
    <3> QED
      BY <1>11, <3>1, <3>2, <3>3
  <2>2. /\ At(x, "idle") /\ submitted \subseteq submitted'
        /\ UNCHANGED <<active, pending, mailbox, history, dropped, accepted>>
    BY <1>11 DEF Interrupt, Compact, Shutdown, Submit, shared, ghosts
  <2> QED
    BY <1>1, <1>4, <2>1, <2>2
<1>12. ASSUME NEW t \in Turns, GuardianTrips(t) PROVE ItemsOK'
  <2>1. /\ th[Guardian].at = "idle" /\ th[Guardian].st = None /\ Guardian \in Threads
        /\ th[Guardian].items = {} /\ th[Guardian].input = {}
    BY <1>12, CarriesNothing, Kinds DEF GuardianTrips, At, Carrying, Inputting, Ordered, StatesOK
  <2>2. /\ th'[Guardian].at = "takeif" /\ th'[Guardian].items = {} /\ th'[Guardian].input = {}
        /\ \A y \in Threads : y # Guardian => th'[y] = th[y]
    <3>1. /\ th[Guardian] \in ThreadType /\ th \in [Threads -> ThreadType]
          /\ th' = [th EXCEPT ![Guardian] = [th[Guardian] EXCEPT !.at = "takeif", !.victim = t]]
      BY <1>12 DEF GuardianTrips, TInv, ThreadsOK
    <3> QED
      BY <2>1, <3>1 DEF ThreadType
  <2>3. submitted \subseteq submitted' /\ UNCHANGED <<active, pending, mailbox, history, dropped, accepted>>
    BY <1>12 DEF GuardianTrips, shared, ghosts
  <2>4. Carries(th'[Guardian]) /\ th'[Guardian].at \notin Spent \union Offering
    BY <2>2 DEF Carries, Spent, Offering
  <2> QED
    BY <2>1, <2>2, <2>3, <2>4, CarrierMoves
<1> QED
  BY <1>5, <1>6, <1>7, <1>8, <1>9, <1>10, <1>11, <1>12 DEF Operation

\* A session that has accepted nothing has lost nothing.
LEMMA StartKeeps == ASSUME NEW never, InitWithout(never) PROVE ItemsOK
<1>1. \A y \in Threads : th[y].at \in {"idle", "unborn"} /\ th[y].items = {} /\ th[y].input = {}
  BY DEF InitWithout, Thread
<1> QED
  BY <1>1 DEF InitWithout, ItemsOK, CarriesOK, Carries, SpentOK, Spent, OffersOK, Offering, KeptOK

\* So in the initial states.
LEMMA InitKeeps == Init => ItemsOK
BY StartKeeps DEF Init

\* Every step keeps the items when nothing competes for the turns.
LEMMA NextKeeps ==
  ASSUME Uncontended, TInv, Ordered, ItemsOK, [Next]_vars PROVE ItemsOK'
<1> USE DEF Inv
<1>1. CASE UNCHANGED vars
  <2>1. UNCHANGED <<active, pending, mailbox, history, th, submitted, accepted, dropped>>
    BY <1>1 DEF vars, shared, ghosts
  <2> QED
    BY <2>1 DEF ItemsOK, CarriesOK, Carries, SpentOK, OffersOK, KeptOK, Kept, Refers, Live
<1>2. CASE Next
  BY <1>2, OperationKeeps, StartingKeeps, AbortingKeeps, IdlingKeeps, FinishingKeeps, SamplingKeeps DEF Next
<1> QED
  BY <1>1, <1>2

\* NoItemLost: every item the session accepted is recorded, given up with a
\* turn that said so, or where some thread finds it.
THEOREM ItemsNotLost == Uncontended => (Spec /\ Undisturbed => []NoItemLost)
<1> SUFFICES ASSUME Uncontended PROVE Spec /\ Undisturbed => []NoItemLost
  OBVIOUS
<1>1. Spec /\ Undisturbed => [](TInv /\ Ordered)
  BY TurnsOrdered
<1>2. TInv /\ Ordered /\ ItemsOK /\ [Next]_vars => ItemsOK'
  BY NextKeeps
<1>3. TInv /\ ItemsOK => NoItemLost
  BY KeptNotLost DEF ItemsOK
<1> QED
  BY <1>1, <1>2, <1>3, InitKeeps, PTL DEF Spec

-----------------------------------------------------------------------------
(* The promise of SessionTurns *)

\* The status of a turn, before and after a step.
LEMMA StatusOf ==
  ASSUME NEW t \in Turns
  PROVE  /\ kind[t] = "none" => TurnStatus[t] = "none"
         /\ kind[t] # "none" /\ active.task = t => TurnStatus[t] = "running"
         /\ kind[t] # "none" /\ active.task # t /\ t \in cancelled => TurnStatus[t] = "aborted"
         /\ kind[t] # "none" /\ active.task # t /\ t \notin cancelled => TurnStatus[t] = "finished"
BY DEF TurnStatus

LEMMA NextStatusOf ==
  ASSUME NEW t \in Turns
  PROVE  /\ kind'[t] = "none" => TurnStatus'[t] = "none"
         /\ kind'[t] # "none" /\ active'.task = t => TurnStatus'[t] = "running"
         /\ kind'[t] # "none" /\ active'.task # t /\ t \in cancelled' => TurnStatus'[t] = "aborted"
         /\ kind'[t] # "none" /\ active'.task # t /\ t \notin cancelled' => TurnStatus'[t] = "finished"
BY DEF TurnStatus

\* A step that sets the status of turn t alone.
LEMMA StatusSet ==
  ASSUME NEW t \in Turns, NEW how, TurnStatus'[t] = how,
         \A u \in Turns : u # t => TurnStatus'[u] = TurnStatus[u]
  PROVE  TurnStatus' = [TurnStatus EXCEPT ![t] = how]
<1>1. TurnStatus' = [u \in Turns |-> TurnStatus'[u]] /\ TurnStatus = [u \in Turns |-> TurnStatus[u]]
  BY DEF TurnStatus
<1> HIDE DEF TurnStatus
<1> QED
  BY <1>1

\* A step that neither puts a task into the active turn nor takes one out, nor
\* ends a turn, is not seen.
Unseen == active'.task = active.task /\ UNCHANGED <<kind, cancelled, ends>>

LEMMA UnseenStays == ASSUME Unseen PROVE UNCHANGED <<TurnStatus, ends>>
BY DEF Unseen, TurnStatus

\* The active task is taken by the turn that finishes or by an abort.
LEMMA TakenStops ==
  ASSUME NEW t \in Turns, kind[t] # "none", active.task = t, active'.task = None,
         cancelled' \in {cancelled, cancelled \union {t}}, UNCHANGED <<kind, ends>>
  PROVE  Promised!Next
<1>1. TurnStatus[t] = "running" /\ TurnStatus'[t] \in {"finished", "aborted"}
  BY StatusOf, NextStatusOf, Distinct
<1>2. ASSUME NEW u \in Turns, u # t PROVE TurnStatus'[u] = TurnStatus[u]
  BY <1>2, StatusOf, NextStatusOf, Distinct
<1>3. TurnStatus' = [TurnStatus EXCEPT ![t] = TurnStatus'[t]]
  BY <1>2, StatusSet
<1>4. Promised!Stop(t)
  BY <1>1, <1>3 DEF Promised!Stop
<1> QED
  BY <1>4 DEF Promised!Next

\* A turn that does not run sends its terminal event.
LEMMA EventReports ==
  ASSUME NEW t \in Turns, kind[t] # "none", active.task # t, ends[t] = 0,
         ends' = [ends EXCEPT ![t] = @ + 1], UNCHANGED <<active, kind, cancelled>>
  PROVE  Promised!Next
<1>1. TurnStatus[t] \in {"finished", "aborted"}
  BY StatusOf
<1>2. UNCHANGED TurnStatus
  BY DEF TurnStatus
<1>3. ends' = [ends EXCEPT ![t] = 1]
  OBVIOUS
<1>4. Promised!Report(t)
  BY <1>1, <1>2, <1>3 DEF Promised!Report
<1> QED
  BY <1>4 DEF Promised!Next

\* A new task is put into an active turn without one.
LEMMA InstallStarts ==
  ASSUME NEW t \in Turns, kind[t] = "none", active.task = None, active'.task = t, kind'[t] # "none",
         \A u \in Turns : u # t => kind'[u] = kind[u], UNCHANGED <<cancelled, ends>>
  PROVE  Promised!Next
<1>1. TurnStatus[t] = "none" /\ TurnStatus'[t] = "running"
  BY StatusOf, NextStatusOf
<1>2. \A u \in Turns : TurnStatus[u] # "running"
  BY StatusOf, Distinct
<1>3. ASSUME NEW u \in Turns, u # t PROVE TurnStatus'[u] = TurnStatus[u]
  BY <1>3, StatusOf, NextStatusOf, Distinct
<1>4. TurnStatus' = [TurnStatus EXCEPT ![t] = "running"]
  BY <1>1, <1>3, StatusSet
<1>5. Promised!Start(t)
  BY <1>1, <1>2, <1>4 DEF Promised!Start
<1> QED
  BY <1>5 DEF Promised!Next

\* What the starting of a turn shows.
LEMMA StartingSeen ==
  ASSUME Inv, NEW x \in Threads, Starting(x) PROVE Unseen \/ Promised!Next
<1> USE DEF Inv
<1>1. GetOrInsert.task = active.task
  BY DEF GetOrInsert, NoTurn
<1>2. CASE Install(x)
  <2> DEFINE t == CHOOSE u \in Unused : TRUE
  <2>1. th[x].at = "install" /\ "install" \in Claimed /\ th[x].new # "none"
    BY <1>2 DEF Install, At, Claimed, TInv, ThreadsOK, ThreadType
  <2>2. active.task = None
    BY <2>1 DEF Ordered, ClaimsOK
  <2>3. t \in Turns /\ kind[t] = "none"
    BY <1>2 DEF Install, Unused
  <2>4. /\ kind' = [kind EXCEPT ![t] = th[x].new] /\ kind \in [Turns -> {"none", "Regular", "Compact"}]
        /\ active' = [GetOrInsert EXCEPT !.task = t] /\ UNCHANGED <<cancelled, ends>>
    BY <1>2 DEF Install, TInv, RestOK
  <2> HIDE DEF t
  <2>5. active'.task = t
    <3>1. GetOrInsert \in [task : Turns \union {None}, state : {GetOrInsert.state}]
      BY DEF GetOrInsert, NoTurn, TInv, SharedOK, ActiveType
    <3> QED
      BY <2>4, <3>1
  <2> QED
    BY <2>1, <2>2, <2>3, <2>4, <2>5, InstallStarts
<1>3. CASE CheckMail(x) \/ Reserve(x) \/ Bind(x)
  BY <1>1, <1>3 DEF CheckMail, Reserve, Bind, Unseen, shared, turns
<1>4. CASE Gather(x) \/ GatherMail(x) \/ Deliver(x) \/ Drain(x) \/ ExtendTurn(x)
  BY <1>4 DEF Gather, GatherMail, Deliver, Drain, ExtendTurn, TakePending, DrainMailbox, Unseen, turns
<1> QED
  BY <1>2, <1>3, <1>4 DEF Starting

\* What an abort shows: the take of the active turn and TurnAborted.
LEMMA AbortingSeen ==
  ASSUME Inv, NEW x \in Threads, Aborting(x) PROVE Unseen \/ Promised!Next
<1> USE Kinds, Distinct, Typed DEF Inv, Ordered
<1>1. ASSUME active.task # None, active' = NoTurn, CancelTask(x), UNCHANGED <<kind, ends>>
      PROVE  Promised!Next
  <2>1. active.task \in Turns /\ kind[active.task] # "none"
    BY <1>1 DEF TasksOK
  <2>2. active'.task = None /\ cancelled' = cancelled \union {active.task}
    BY <1>1 DEF CancelTask, NoTurn
  <2> QED
    BY <1>1, <2>1, <2>2, TakenStops
<1>2. CASE TakeActive(x)
  <2>1. active' = NoTurn /\ UNCHANGED <<kind, ends>>
    BY <1>2 DEF TakeActive
  <2>2. CASE active.task = None
    BY <1>2, <2>1, <2>2 DEF TakeActive, NoTurn, Unseen
  <2>3. CASE active.task # None
    BY <1>1, <1>2, <2>1, <2>3 DEF TakeActive
  <2> QED
    BY <2>2, <2>3
<1>3. CASE TakeIfActive(x)
  <2>1. UNCHANGED <<kind, ends>> /\ th[x].victim # None
    BY <1>3 DEF TakeIfActive, At, TInv, ThreadsOK, Ready
  <2>2. CASE active.task # th[x].victim
    BY <1>3, <2>1, <2>2 DEF TakeIfActive, Unseen
  <2>3. CASE active.task = th[x].victim
    BY <1>1, <1>3, <2>1, <2>3 DEF TakeIfActive
  <2> QED
    BY <2>2, <2>3
<1>4. CASE AwaitTask(x)
  <2> DEFINE v == th[x].victim
  <2>1. th[x].at = "await" /\ v \in cancelled /\ v \in Turns /\ ends[v] = 0
    BY <1>4 DEF AwaitTask, At, EndsOK
  <2>2. th[v].at \in Busy \union {"done"} /\ kind[v] # "none" /\ active.task # v
    BY <2>1 DEF EndsOK, TasksOK
  <2>3. ends' = [ends EXCEPT ![v] = @ + 1] /\ UNCHANGED <<active, kind, cancelled>>
    BY <1>4 DEF AwaitTask, shared
  <2> QED
    BY <2>1, <2>2, <2>3, EventReports
<1>5. CASE ClearPending(x)
  BY <1>5 DEF ClearPending, Unseen, turns
<1> QED
  BY <1>2, <1>3, <1>4, <1>5 DEF Aborting

\* What the end of a turn shows: the take of its own task and TurnComplete.
LEMMA FinishingSeen ==
  ASSUME Inv, OwnTask, NEW t \in Turns, Finishing(t) PROVE Unseen \/ Promised!Next
<1> USE Kinds, Distinct, Typed DEF Inv, Ordered
<1>1. CASE Finish(t) \/ TakeInput(t)
  BY <1>1 DEF Finish, TakeInput, Unseen, shared, turns
<1>2. CASE TakeTask(t)
  <2>1. UNCHANGED <<kind, cancelled, ends>>
    BY <1>2 DEF TakeTask, turns
  <2>2. CASE active.task = None
    BY <1>2, <2>1, <2>2 DEF TakeTask, Unseen
  <2>3. CASE active.task # None
    <3>1. active.task = t /\ kind[t] # "none"
      BY <1>2, <2>3 DEF OwnTask, TasksOK
    <3>2. active'.task = None
      BY <1>2, <2>3 DEF TakeTask, TInv, SharedOK, ActiveType
    <3> QED
      BY <2>1, <3>1, <3>2, TakenStops
  <2> QED
    BY <2>2, <2>3
<1>3. CASE Complete(t)
  <2>1. th[t].at = "complete" /\ th[t].at \in Closing
    BY <1>3 DEF Complete, At
  <2>2. kind[t] # "none" /\ active.task # t /\ ends[t] = 0
    BY <2>1 DEF TasksOK, EndsOK
  <2> QED
    BY <1>3, <2>2, EventReports DEF Complete, shared
<1>4. CASE Release(t)
  BY <1>4 DEF Release, NoTurn, Unseen, turns
<1> QED
  BY <1>1, <1>2, <1>3, <1>4 DEF Finishing

\* The other steps show nothing.
LEMMA OthersUnseen ==
  ASSUME \/ Operation
         \/ \E x \in Threads : Idling(x)
         \/ \E t \in Turns : Sampling(t)
  PROVE  Unseen
<1>1. CASE Operation
  BY <1>1 DEF Operation, StartTurn, Steer, NotSteerable, IdleCheck, SendMail, Inject, Interrupt, Compact,
              Shutdown, GuardianTrips, Unseen, shared, turns
<1>2. ASSUME NEW x \in Threads, Idling(x) PROVE Unseen
  <2>1. GetOrInsert.task = active.task
    BY DEF GetOrInsert, NoTurn
  <2>2. CASE IdleReserve(x) \/ IdleStarts(x)
    BY <2>1, <2>2 DEF IdleReserve, IdleStarts, Unseen, shared, turns
  <2>3. CASE IdleRefused(x)
    BY <2>3 DEF IdleRefused, ClearReserved, NoTurn, Unseen, turns
  <2> QED
    BY <1>2, <2>2, <2>3 DEF Idling
<1>3. ASSUME NEW t \in Turns, Sampling(t) PROVE Unseen
  BY <1>3 DEF Sampling, Run, RunFails, StartHookStops, Sample, SampleMail, Record, FollowUp, FinalAnswer,
              EmptyAnswer, TurnFails, CheckPending, StopHookBlocks, RecheckPending, ObserveCancel,
              TakePending, DrainMailbox, Unseen, shared, turns
<1> QED
  BY <1>1, <1>2, <1>3

\* Every step is one of the promised ones or is not seen.
LEMMA StepPromised ==
  ASSUME Inv, [Next]_vars, "guardian" \in Controls => [OwnTask]_vars
  PROVE  [Promised!Next]_<<TurnStatus, ends>>
<1>1. CASE UNCHANGED vars
  <2>1. Unseen
    BY <1>1 DEF vars, Unseen, shared, turns
  <2> QED
    BY <2>1, UnseenStays
<1>2. CASE Next /\ OwnTask
  <2>1. Unseen \/ Promised!Next
    BY <1>2, StartingSeen, AbortingSeen, FinishingSeen, OthersUnseen DEF Next
  <2> QED
    BY <2>1, UnseenStays
<1> QED
  BY <1>1, <1>2, TakesOwnTask

\* Before the first turn all is as promised.
LEMMA InitPromised == Init => Promised!Init
BY DEF Init, InitWithout, Promised!Init, TurnStatus

\* TurnsTakeTurns: the session implements SessionTurns.  A turn starts when no
\* other one runs, the thread that takes its task alone settles whether it
\* finishes or is aborted, and its one terminal event comes after that.
THEOREM SessionKeepsPromise == Uncontended => (Spec /\ Undisturbed => TurnsTakeTurns)
<1> SUFFICES ASSUME Uncontended PROVE Spec /\ Undisturbed => TurnsTakeTurns
  OBVIOUS
<1>1. Spec /\ Undisturbed => [](TInv /\ Ordered)
  BY TurnsOrdered
<1>2. CASE "guardian" \in Controls
  <2>1. TInv /\ Ordered /\ [Next]_vars /\ [OwnTask]_vars => [Promised!Next]_<<TurnStatus, ends>>
    BY StepPromised DEF Inv
  <2>2. Undisturbed => [][OwnTask]_vars
    BY <1>2 DEF Undisturbed, OwnTaskTaken
  <2> QED
    BY <1>1, <2>1, <2>2, InitPromised, PTL DEF Spec, TurnsTakeTurns, Promised!Spec
<1>3. CASE "guardian" \notin Controls
  <2>1. TInv /\ Ordered /\ [Next]_vars => [Promised!Next]_<<TurnStatus, ends>>
    BY <1>3, StepPromised DEF Inv
  <2> QED
    BY <1>1, <2>1, InitPromised, PTL DEF Spec, TurnsTakeTurns, Promised!Spec
<1> QED
  BY <1>2, <1>3
=============================================================================
