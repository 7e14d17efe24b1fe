--------------------------- MODULE TurnLifecycle ---------------------------
(***************************************************************************)
(* How a session of the agent core starts, steers, aborts and finishes its *)
(* turns (codex-rs/core/src: tasks/mod.rs, tasks/regular.rs,               *)
(* session/turn_input.rs, session/input_queue.rs, session/inject.rs,       *)
(* session/handlers.rs).                                                   *)
(*                                                                         *)
(* Three kinds of threads work on one session: the submission loop, which  *)
(* handles one operation at a time; the tokio task of every turn, which    *)
(* ends by finishing its turn and may start the next one; and the task the *)
(* guardian spawns to abort a turn.  They share active_turn, the turn      *)
(* state it points to and the mailbox, each behind a mutex of its own.     *)
(* Every lock is released between two steps, so each critical section is   *)
(* one action, and what a thread read in one section is a local of th[x]   *)
(* when it enters the next.                                                *)
(*                                                                         *)
(* A turn state is an Arc shared by active_turn and by threads: a state    *)
(* that nothing refers to is gone, with the input pending in it.           *)
(***************************************************************************)
EXTENDS Naturals, FiniteSets

CONSTANTS
  Turns,       \* turns of the session (bound: no turn starts beyond them)
  States,      \* TurnState allocations
  Submission,  \* the submission loop
  Guardian,    \* the task spawned by the guardian's circuit breaker
  Users,       \* user inputs sent as start-or-steer
  Idlers,      \* user inputs sent as start-if-idle
  Triggers,    \* inter-agent mail with trigger_turn
  Quiets,      \* inter-agent mail without it
  Injects,     \* items given to inject_if_running
  Blockable,   \* user inputs that a UserPromptSubmit hook may block
  Controls,    \* the other operations, each performed at most once
  None

Threads == Turns \union {Submission, Guardian}
Mail    == Triggers \union Quiets
Prompts == Users \union Idlers
Items   == Prompts \union Mail \union Injects

ASSUME TurnAssumption ==
  /\ None \notin Threads \union States
  /\ Turns \intersect {Submission, Guardian} = {}
  /\ Submission # Guardian
  /\ Controls \subseteq {"interrupt", "compact", "shutdown", "guardian", "start_hook", "stop_hook"}
  /\ Blockable \subseteq Prompts
  /\ Items \intersect Controls = {}
  /\ Triggers \intersect Quiets = {}

VARIABLES
  active,     \* Session.active_turn: its task and its turn state
  pending,    \* pending[s]: pending_input of turn state s
  phase,      \* phase[s]: mailbox_delivery_phase of turn state s
  mailbox,    \* InputQueue.mailbox_pending_mails
  history,    \* items recorded in the conversation
  kind,       \* kind[t]: TaskKind of turn t, "none" until it is spawned
  cancelled,  \* turns whose cancellation token is cancelled
  ends,       \* ends[t]: TurnComplete and TurnAborted events sent for t
  th,         \* th[x]: program point and locals of thread x
  submitted,  \* operations sent to the session so far
  accepted,   \* items the session has taken responsibility for
  dropped,    \* items given up with a turn that was aborted or failed
  clash       \* a debug_assert!(turn.task.is_none()) of start_task failed

shared == <<active, pending, phase, mailbox>>
turns  == <<kind, cancelled, ends>>
ghosts == <<accepted, dropped, clash>>
vars   == <<shared, history, turns, th, submitted, ghosts>>

NoTurn == [task |-> None, state |-> None]

\* at: program point; st: turn state held; items: input taken from a queue;
\* input, new: input and kind of the turn to start; victim: turn to abort;
\* reason: TurnAbortReason; back: where the thread goes after its operation.
Thread(pt, bk) ==
  [at |-> pt, st |-> None, items |-> {}, input |-> {}, new |-> "Regular",
   victim |-> None, reason |-> "Interrupted", back |-> bk]

\* An idle session to which the operations in never are not sent.
InitWithout(never) ==
  /\ active = NoTurn
  /\ pending = [s \in States |-> {}]
  /\ phase = [s \in States |-> "CurrentTurn"]
  /\ mailbox = {}
  /\ history = {}
  /\ kind = [t \in Turns |-> "none"]
  /\ cancelled = {}
  /\ ends = [t \in Turns |-> 0]
  /\ th = [x \in Threads |-> IF x \in Turns THEN Thread("unborn", "done")
                                            ELSE Thread("idle", "idle")]
  /\ submitted = never
  /\ accepted = {}
  /\ dropped = {}
  /\ clash = FALSE

Init == InitWithout({})

-----------------------------------------------------------------------------
(* Helpers *)

At(x, pt) == th[x].at = pt

\* Thread x goes on at pt with its locals unchanged.
Goto(x, pt) == th' = [th EXCEPT ![x].at = pt]

\* The operation of thread x is over.
Rest(x)   == Thread(th[x].back, th[x].back)
Return(x) == th' = [th EXCEPT ![x] = Rest(x)]

Live(x) == th[x].at \notin {"unborn", "done", "closed"}

\* Turn states that active_turn or a running thread refers to.
Referenced == ({active.state} \union {th[x].st : x \in {y \in Threads : Live(y)}}) \ {None}

\* ActiveTurn::default() allocates a TurnState.
FreeState == CHOOSE s \in States \ Referenced : TRUE
CanAllocate == States \ Referenced # {}

\* active_turn after get_or_insert_with(ActiveTurn::default).
GetOrInsert == IF active = NoTurn THEN [task |-> None, state |-> FreeState] ELSE active

\* A newly inserted turn state is empty and accepts mail.
Allocated ==
  /\ active = NoTurn => CanAllocate
  /\ pending' = IF active = NoTurn THEN [pending EXCEPT ![FreeState] = {}] ELSE pending
  /\ phase' = IF active = NoTurn THEN [phase EXCEPT ![FreeState] = "CurrentTurn"] ELSE phase

\* Turns not yet spawned.
Unused == {t \in Turns : kind[t] = "none"}

HasTriggerMail == mailbox \intersect Triggers # {}

-----------------------------------------------------------------------------
(* Operations of the submission loop.  It is busy until its thread rests. *)

Submit(op) ==
  /\ At(Submission, "idle")
  /\ op \notin submitted
  /\ submitted' = submitted \union {op}

\* start_or_steer: with no running task the input starts a turn.
StartTurn(u) ==
  /\ Submit(u)
  /\ active.task = None
  /\ th' = [th EXCEPT ![Submission] =
              [@ EXCEPT !.at = "take", !.reason = "Replaced", !.input = {u}, !.new = "Regular"]]
  /\ accepted' = accepted \union {u}
  /\ UNCHANGED <<shared, history, turns, dropped, clash>>

\* The input joins pending and the turn accepts mail again.
Extend(s, new) ==
  /\ pending' = [pending EXCEPT ![s] = @ \union new]
  /\ phase' = [phase EXCEPT ![s] = "CurrentTurn"]

\* steer_input: the input joins the running regular turn.
Steer(u) ==
  /\ Submit(u)
  /\ active.task # None
  /\ kind[active.task] = "Regular"
  /\ Extend(active.state, {u})
  /\ accepted' = accepted \union {u}
  /\ UNCHANGED <<active, mailbox, history, turns, th, dropped, clash>>

\* steer_input: a compact turn takes no input; the caller is told so.
NotSteerable(u) ==
  /\ Submit(u)
  /\ active.task # None
  /\ kind[active.task] # "Regular"
  /\ UNCHANGED <<shared, history, turns, th, ghosts>>

\* start_if_idle, up to its reservation of an idle turn.
IdleCheck(u) ==
  /\ Submit(u)
  /\ th' = IF HasTriggerMail THEN th
           ELSE [th EXCEPT ![Submission] = [@ EXCEPT !.at = "idlereserve", !.input = {u}]]
  /\ UNCHANGED <<shared, history, turns, ghosts>>

IdleReserve(x) ==
  /\ At(x, "idlereserve")
  /\ active = NoTurn => CanAllocate
  /\ IF active # NoTurn
       THEN Return(x) /\ UNCHANGED <<active, pending, phase>>
       ELSE /\ active' = GetOrInsert
            /\ Allocated
            /\ th' = [th EXCEPT ![x] = [@ EXCEPT !.at = "idlerecheck", !.st = FreeState]]
  /\ UNCHANGED <<mailbox, history, turns, submitted, ghosts>>

\* clear_reserved_idle_turn
ClearReserved(s) ==
  active' = IF active.task = None /\ active.state = s THEN NoTurn ELSE active

\* start_if_idle looks for trigger mail a second time here, and would give the
\* reservation back.  Mail is enqueued by the submission loop, which is at this
\* point itself, so there is none: that branch has no action.

\* The reservation is kept when the settings are refused.
IdleRefusedKeeps(x) ==
  /\ At(x, "idlerecheck")
  /\ Return(x)
  /\ UNCHANGED <<shared, history, turns, submitted, ghosts>>

\* Its settings are refused: the reservation is given back.
IdleRefused(x) ==
  /\ At(x, "idlerecheck")
  /\ ClearReserved(th[x].st)
  /\ Return(x)
  /\ UNCHANGED <<pending, phase, mailbox, history, turns, submitted, ghosts>>

IdleStarts(x) ==
  /\ At(x, "idlerecheck")
  /\ accepted' = accepted \union th[x].input
  /\ Goto(x, "drain")
  /\ UNCHANGED <<shared, history, turns, submitted, dropped, clash>>

\* inter_agent_communication: enqueue, then maybe start a turn.
SendMail(m) ==
  /\ Submit(m)
  /\ mailbox' = mailbox \union {m}
  /\ accepted' = accepted \union {m}
  /\ IF m \in Triggers THEN Goto(Submission, "pending") ELSE UNCHANGED th
  /\ UNCHANGED <<active, pending, phase, history, turns, dropped, clash>>

\* interrupt
Interrupt ==
  /\ "interrupt" \in Controls
  /\ Submit("interrupt")
  /\ th' = [th EXCEPT ![Submission] = [@ EXCEPT !.at = "take", !.reason = "Interrupted"]]
  /\ UNCHANGED <<shared, history, turns, ghosts>>

\* compact: spawn_task without asking whether a turn is running.
Compact ==
  /\ "compact" \in Controls
  /\ Submit("compact")
  /\ th' = [th EXCEPT ![Submission] =
              [@ EXCEPT !.at = "take", !.reason = "Replaced", !.new = "Compact"]]
  /\ UNCHANGED <<shared, history, turns, ghosts>>

\* shutdown: the loop handles no operation after it.
Shutdown ==
  /\ "shutdown" \in Controls
  /\ Submit("shutdown")
  /\ th' = [th EXCEPT ![Submission] =
              [@ EXCEPT !.at = "take", !.reason = "Interrupted", !.back = "closed"]]
  /\ UNCHANGED <<shared, history, turns, ghosts>>

\* inject_if_running: any caller, at any time, under the lock of active_turn.
Inject(i) ==
  /\ i \notin submitted
  /\ submitted' = submitted \union {i}
  /\ IF active = NoTurn
       THEN UNCHANGED <<pending, phase, accepted>>
       ELSE /\ Extend(active.state, {i})
            /\ accepted' = accepted \union {i}
  /\ UNCHANGED <<active, mailbox, history, turns, th, dropped, clash>>

-----------------------------------------------------------------------------
(* abort_all_tasks and abort_turn_if_active *)

\* Where abort goes when it has nothing (more) to abort.
AfterAbort(x, aborted) ==
  CASE th[x].reason = "Replaced" -> [th[x] EXCEPT !.at = "drain", !.st = None, !.victim = None]
    [] th[x].reason # "Replaced" /\ aborted -> [Rest(x) EXCEPT !.at = "pending"]
    [] OTHER -> Rest(x)

\* Cancels the task of the active turn that was taken.
CancelTask(x) ==
  /\ cancelled' = cancelled \union {active.task}
  /\ th' = [th EXCEPT ![x] =
              [@ EXCEPT !.at = IF active.task \in cancelled THEN "clear" ELSE "await",
                        !.victim = active.task, !.st = active.state]]

\* take_active_turn: a reservation without a task is just dropped.
TakeActive(x) ==
  /\ At(x, "take")
  /\ active' = NoTurn
  /\ IF active.task = None
       THEN th' = [th EXCEPT ![x] = AfterAbort(x, FALSE)] /\ UNCHANGED cancelled
       ELSE CancelTask(x)
  /\ UNCHANGED <<pending, phase, mailbox, history, kind, ends, submitted, ghosts>>

\* The guardian counts too many denials in a tool call of turn t and spawns
\* abort_turn_if_active; the turn goes on meanwhile.
GuardianTrips(t) ==
  /\ "guardian" \in Controls
  /\ "guardian" \notin submitted
  /\ At(Guardian, "idle")
  /\ At(t, "answer")
  /\ submitted' = submitted \union {"guardian"}
  /\ th' = [th EXCEPT ![Guardian] = [@ EXCEPT !.at = "takeif", !.victim = t]]
  /\ UNCHANGED <<shared, history, turns, ghosts>>

\* The turn is cancelled but stays in active_turn.
TakeIfActiveKeeps(x) ==
  /\ At(x, "takeif")
  /\ IF active.task = th[x].victim THEN CancelTask(x) ELSE Return(x) /\ UNCHANGED cancelled
  /\ UNCHANGED <<shared, history, kind, ends, submitted, ghosts>>

\* abort_turn_if_active: the turn is taken only if it is still the active one.
TakeIfActive(x) ==
  /\ At(x, "takeif")
  /\ IF active.task = th[x].victim
       THEN active' = NoTurn /\ CancelTask(x)
       ELSE Return(x) /\ UNCHANGED <<active, cancelled>>
  /\ UNCHANGED <<pending, phase, mailbox, history, kind, ends, submitted, ghosts>>

\* handle_task_abort without handle.abort(): the task may outlive its abort.
AwaitTaskNoAbort(x) ==
  LET v == th[x].victim IN
  /\ At(x, "await")
  /\ ends' = [ends EXCEPT ![v] = @ + 1]
  /\ th' = [th EXCEPT ![x].at = "clear"]
  /\ UNCHANGED <<shared, history, kind, cancelled, submitted, ghosts>>

\* handle_task_abort: the task is done, or 100 ms have passed and its handle
\* is aborted; either way TurnAborted is sent.
AwaitTask(x) ==
  LET v == th[x].victim IN
  /\ At(x, "await")
  /\ ends' = [ends EXCEPT ![v] = @ + 1]
  /\ dropped' = dropped \union th[v].input \union th[v].items
  /\ th' = [th EXCEPT ![x].at = "clear", ![v] = Thread("done", "done")]
  /\ UNCHANGED <<shared, history, kind, cancelled, submitted, accepted, clash>>

\* clear_pending
ClearPending(x) ==
  /\ At(x, "clear")
  /\ dropped' = dropped \union pending[th[x].st]
  /\ pending' = [pending EXCEPT ![th[x].st] = {}]
  /\ th' = [th EXCEPT ![x] = AfterAbort(x, TRUE)]
  /\ UNCHANGED <<active, phase, mailbox, history, turns, submitted, accepted, clash>>

-----------------------------------------------------------------------------
(* maybe_start_turn_for_pending_work *)

CheckMail(x) ==
  /\ At(x, "pending")
  /\ IF HasTriggerMail THEN Goto(x, "reserve") ELSE Return(x)
  /\ UNCHANGED <<shared, history, turns, submitted, ghosts>>

\* An idle session gets a turn without a task; a busy one is left alone.
Reserve(x) ==
  /\ At(x, "reserve")
  /\ active = NoTurn => CanAllocate
  /\ IF active # NoTurn
       THEN Return(x) /\ UNCHANGED <<active, pending, phase>>
       ELSE /\ active' = GetOrInsert
            /\ Allocated
            /\ th' = [th EXCEPT ![x] = [@ EXCEPT !.at = "gather", !.st = FreeState]]
  /\ UNCHANGED <<mailbox, history, turns, submitted, ghosts>>

\* First section of get_pending_input: the pending input of the active turn,
\* whosever it is, unless that turn leaves new input to the next one.
TakePending(x, more, none) ==
  /\ UNCHANGED <<active, phase, mailbox, history, turns, submitted, ghosts>>
  /\ IF active = NoTurn
       THEN Goto(x, more) /\ UNCHANGED pending
       ELSE IF phase[active.state] = "NextTurn"
         THEN Goto(x, none) /\ UNCHANGED pending
         ELSE /\ th' = [th EXCEPT ![x] = [@ EXCEPT !.at = more, !.items = pending[active.state]]]
              /\ pending' = [pending EXCEPT ![active.state] = {}]

\* drain_mailbox_input_items
DrainMailbox(x, next) ==
  /\ mailbox' = {}
  /\ th' = [th EXCEPT ![x] = [@ EXCEPT !.at = next, !.items = th[x].items \union mailbox]]
  /\ UNCHANGED <<active, pending, phase, history, turns, submitted, ghosts>>

Gather(x)     == At(x, "gather") /\ TakePending(x, "gathermail", "deliver")
GatherMail(x) == At(x, "gathermail") /\ DrainMailbox(x, "deliver")

\* The reserved turn starts without the mail that was gathered for it.
DeliverNothing(x) ==
  /\ At(x, "deliver")
  /\ th' = [th EXCEPT ![x] = [@ EXCEPT !.at = "drain", !.items = {}, !.st = None,
                                       !.input = {}, !.new = "Regular"]]
  /\ UNCHANGED <<shared, history, turns, submitted, ghosts>>

\* extend_pending_input_for_turn_state
Deliver(x) ==
  /\ At(x, "deliver")
  /\ pending' = [pending EXCEPT ![th[x].st] = @ \union th[x].items]
  /\ th' = [th EXCEPT ![x] = [@ EXCEPT !.at = "drain", !.items = {}, !.st = None,
                                       !.input = {}, !.new = "Regular"]]
  /\ UNCHANGED <<active, phase, mailbox, history, turns, submitted, ghosts>>

-----------------------------------------------------------------------------
(* start_task *)

Drain(x) == At(x, "drain") /\ DrainMailbox(x, "bind")

\* Binds to the active turn without inserting one when there is none.
BindNoInsert(x) ==
  /\ At(x, "bind")
  /\ clash' = (clash \/ active.task # None)
  /\ th' = [th EXCEPT ![x] = [@ EXCEPT !.at = "extend", !.st = active.state]]
  /\ UNCHANGED <<shared, history, turns, submitted, accepted, dropped>>

\* The turn state that the new turn will have.
Bind(x) ==
  /\ At(x, "bind")
  /\ Allocated
  /\ active' = GetOrInsert
  /\ clash' = (clash \/ active.task # None)
  /\ th' = [th EXCEPT ![x] = [@ EXCEPT !.at = "extend", !.st = GetOrInsert.state]]
  /\ UNCHANGED <<mailbox, history, turns, submitted, accepted, dropped>>

ExtendTurn(x) ==
  /\ At(x, "extend")
  /\ pending' = [pending EXCEPT ![th[x].st] = @ \union th[x].items]
  /\ th' = [th EXCEPT ![x] = [@ EXCEPT !.at = "install", !.items = {}]]
  /\ UNCHANGED <<active, phase, mailbox, history, turns, submitted, ghosts>>

\* The task is spawned and becomes the task of the active turn.  A task that
\* was there is dropped, and its handle aborts it.
Install(x) ==
  /\ At(x, "install")
  /\ Allocated
  /\ Unused # {}
  /\ LET t == CHOOSE u \in Unused : TRUE IN
       /\ kind' = [kind EXCEPT ![t] = th[x].new]
       /\ active' = [GetOrInsert EXCEPT !.task = t]
       /\ th' = [y \in Threads |->
                   CASE y = t -> [Thread("run", "done") EXCEPT !.input = th[x].input]
                     [] y = x -> Rest(x)
                     [] y = active.task -> Thread("done", "done")
                     [] OTHER -> th[y]]
  /\ clash' = (clash \/ active.task # None)
  /\ UNCHANGED <<mailbox, history, cancelled, ends, submitted, accepted, dropped>>

-----------------------------------------------------------------------------
(* The task of turn t *)

\* run_hooks_and_record_inputs: what a hook blocks is given up, the rest is
\* recorded.
RecordInputs(new, blocked) ==
  /\ history' = history \union (new \ blocked)
  /\ dropped' = dropped \union blocked

\* Its result: the turn stops when the hook has let no user input through.
Stopped(new, blocked) == blocked # {} /\ (new \ blocked) \intersect Prompts = {}

\* run_turn records its input; input is sampled before any pending input.
Run(t) ==
  /\ At(t, "run")
  /\ \E blocked \in SUBSET (th[t].input \intersect Blockable) :
       /\ RecordInputs(th[t].input, blocked)
       /\ th' = [th EXCEPT ![t] =
                   [@ EXCEPT !.at = CASE kind[t] = "Compact" -> "finish"
                                      [] kind[t] # "Compact" /\ Stopped(th[t].input, blocked) -> "recheck"
                                      [] kind[t] # "Compact" /\ th[t].input = {} -> "sample"
                                      [] OTHER -> "answer",
                             !.input = {}]]
  /\ UNCHANGED <<shared, turns, submitted, accepted, clash>>

\* A SessionStart hook, run by the first turn that finds it pending, stops
\* the turn before its input is recorded.
StartHookStops(t) ==
  /\ "start_hook" \in Controls \ submitted
  /\ At(t, "run")
  /\ kind[t] = "Regular"
  /\ submitted' = submitted \union {"start_hook"}
  /\ dropped' = dropped \union th[t].input
  /\ th' = [th EXCEPT ![t] = [@ EXCEPT !.at = "recheck", !.input = {}]]
  /\ UNCHANGED <<shared, history, turns, accepted, clash>>

\* Compaction before the turn fails: the error is reported as terminal, the
\* input is not recorded, and the turn finishes.
RunFails(t) ==
  /\ At(t, "run")
  /\ dropped' = dropped \union th[t].input
  /\ th' = [th EXCEPT ![t] = [@ EXCEPT !.at = "finish", !.input = {}]]
  /\ UNCHANGED <<shared, history, turns, submitted, accepted, clash>>

Sample(t)     == At(t, "sample") /\ TakePending(t, "samplemail", "record")
SampleMail(t) == At(t, "samplemail") /\ DrainMailbox(t, "record")

Record(t) ==
  /\ At(t, "record")
  /\ \E blocked \in SUBSET (th[t].items \intersect Blockable) :
       /\ RecordInputs(th[t].items, blocked)
       /\ th' = [th EXCEPT ![t] =
                   [@ EXCEPT !.at = IF Stopped(th[t].items, blocked) THEN "recheck" ELSE "answer",
                             !.items = {}]]
  /\ UNCHANGED <<shared, turns, submitted, accepted, clash>>

\* accept_mailbox_delivery_for_current_turn
AcceptMail(t) ==
  phase' = IF active.task = t THEN [phase EXCEPT ![active.state] = "CurrentTurn"] ELSE phase

\* The model calls tools: the turn samples again, at once when the context
\* was compacted on the way, else after taking what is pending.
FollowUp(t) ==
  /\ At(t, "answer")
  /\ AcceptMail(t)
  /\ Goto(t, "sample") \/ Goto(t, "answer")
  /\ UNCHANGED <<active, pending, mailbox, history, turns, submitted, ghosts>>

\* A final answer: defer_mailbox_delivery_to_next_turn, unless input other
\* than queue-only mail is pending.
FinalAnswer(t) ==
  /\ At(t, "answer")
  /\ phase' = IF active.task = t /\ pending[active.state] \subseteq Quiets
                THEN [phase EXCEPT ![active.state] = "NextTurn"] ELSE phase
  /\ Goto(t, "check")
  /\ UNCHANGED <<active, pending, mailbox, history, turns, submitted, ghosts>>

\* The model answers with nothing that defers mail.
EmptyAnswer(t) ==
  /\ At(t, "answer")
  /\ Goto(t, "check")
  /\ UNCHANGED <<shared, history, turns, submitted, ghosts>>

\* has_pending_input that forgets the delivery phase.
HasPendingInputAnyPhase ==
  mailbox # {} \/ (active # NoTurn /\ pending[active.state] # {})

\* has_pending_input
HasPendingInput ==
  IF active = NoTurn THEN mailbox # {}
  ELSE phase[active.state] = "CurrentTurn" /\ (pending[active.state] # {} \/ mailbox # {})

\* The request fails, or the compaction before the next one, with an error
\* reported as terminal.
TurnFails(t) ==
  /\ At(t, "answer") \/ (At(t, "check") /\ HasPendingInput)
  /\ Goto(t, "finish")
  /\ UNCHANGED <<shared, history, turns, submitted, ghosts>>

\* run_turn goes on while input is pending.
CheckPending(t) ==
  /\ At(t, "check")
  /\ Goto(t, IF HasPendingInput THEN "sample" ELSE "recheck")
  /\ UNCHANGED <<shared, history, turns, submitted, ghosts>>

\* A Stop hook has the turn sample once more.
StopHookBlocks(t) ==
  /\ "stop_hook" \in Controls \ submitted
  /\ At(t, "check")
  /\ ~HasPendingInput
  /\ submitted' = submitted \union {"stop_hook"}
  /\ AcceptMail(t)
  /\ Goto(t, "sample")
  /\ UNCHANGED <<active, pending, mailbox, history, turns, ghosts>>

\* RegularTask calls run_turn again, without input, while input is pending.
RecheckPending(t) ==
  /\ At(t, "recheck")
  /\ Goto(t, IF HasPendingInput THEN "run" ELSE "finish")
  /\ UNCHANGED <<shared, history, turns, submitted, ghosts>>

Working == {"run", "sample", "samplemail", "record", "answer", "check", "recheck"}

\* The task sees its token cancelled and returns; whoever aborts it reports.
ObserveCancel(t) ==
  /\ t \in cancelled
  /\ th[t].at \in Working
  /\ dropped' = dropped \union th[t].input \union th[t].items
  /\ th' = [th EXCEPT ![t] = Thread("done", "done")]
  /\ UNCHANGED <<shared, history, turns, submitted, accepted, clash>>

-----------------------------------------------------------------------------
(* on_task_finished *)

\* The spawned future finishes its turn only if it is not cancelled.
Finish(t) ==
  /\ At(t, "finish")
  /\ IF t \in cancelled THEN Return(t) ELSE Goto(t, "taketask")
  /\ UNCHANGED <<shared, history, turns, submitted, ghosts>>

\* Takes the task of the active turn, whosever it is, and detaches it.
TakeTask(t) ==
  /\ At(t, "taketask")
  /\ IF active.task = None
       THEN Return(t) /\ UNCHANGED active
       ELSE /\ active' = [active EXCEPT !.task = None]
            /\ th' = [th EXCEPT ![t] = [@ EXCEPT !.at = "takeinput", !.st = active.state]]
  /\ UNCHANGED <<pending, phase, mailbox, history, turns, submitted, ghosts>>

\* take_pending_input_for_turn_state
TakeInput(t) ==
  /\ At(t, "takeinput")
  /\ pending' = [pending EXCEPT ![th[t].st] = {}]
  /\ th' = [th EXCEPT ![t] = [@ EXCEPT !.at = "complete", !.items = pending[th[t].st]]]
  /\ UNCHANGED <<active, phase, mailbox, history, turns, submitted, ghosts>>

\* TurnComplete is sent and the input left over is forgotten.
CompleteNoRecord(t) ==
  /\ At(t, "complete")
  /\ ends' = [ends EXCEPT ![t] = @ + 1]
  /\ th' = [th EXCEPT ![t] = [@ EXCEPT !.at = "release", !.items = {}]]
  /\ UNCHANGED <<shared, history, kind, cancelled, submitted, ghosts>>

\* The input left over is recorded and TurnComplete is sent.
Complete(t) ==
  /\ At(t, "complete")
  /\ \E blocked \in SUBSET (th[t].items \intersect Blockable) : RecordInputs(th[t].items, blocked)
  /\ ends' = [ends EXCEPT ![t] = @ + 1]
  /\ th' = [th EXCEPT ![t] = [@ EXCEPT !.at = "release", !.items = {}]]
  /\ UNCHANGED <<shared, kind, cancelled, submitted, accepted, clash>>

\* The turn is released and nothing looks for pending mail.
ReleaseNoRestart(t) ==
  /\ At(t, "release")
  /\ Return(t)
  /\ active' = IF active.task = None /\ active.state = th[t].st THEN NoTurn ELSE active
  /\ UNCHANGED <<pending, phase, mailbox, history, turns, submitted, ghosts>>

\* The active turn is cleared if it is still this one, and pending mail may
\* then start the next turn.
Release(t) ==
  /\ At(t, "release")
  /\ IF active.task = None /\ active.state = th[t].st
       THEN active' = NoTurn /\ th' = [th EXCEPT ![t] = [Rest(t) EXCEPT !.at = "pending"]]
       ELSE Return(t) /\ UNCHANGED active
  /\ UNCHANGED <<pending, phase, mailbox, history, turns, submitted, ghosts>>

-----------------------------------------------------------------------------
Operation ==
  \/ \E u \in Users : StartTurn(u) \/ Steer(u) \/ NotSteerable(u)
  \/ \E u \in Idlers : IdleCheck(u)
  \/ \E m \in Mail : SendMail(m)
  \/ \E i \in Injects : Inject(i)
  \/ Interrupt \/ Compact \/ Shutdown
  \/ \E t \in Turns : GuardianTrips(t)

Starting(x) ==
  \/ CheckMail(x) \/ Reserve(x) \/ Gather(x) \/ GatherMail(x) \/ Deliver(x)
  \/ Drain(x) \/ Bind(x) \/ ExtendTurn(x) \/ Install(x)

Aborting(x) == TakeActive(x) \/ TakeIfActive(x) \/ AwaitTask(x) \/ ClearPending(x)

Idling(x) == IdleReserve(x) \/ IdleRefused(x) \/ IdleStarts(x)

Finishing(t) == Finish(t) \/ TakeTask(t) \/ TakeInput(t) \/ Complete(t) \/ Release(t)

Sampling(t) ==
  \/ Run(t) \/ RunFails(t) \/ StartHookStops(t) \/ Sample(t) \/ SampleMail(t) \/ Record(t)
  \/ FollowUp(t) \/ FinalAnswer(t) \/ EmptyAnswer(t) \/ TurnFails(t)
  \/ CheckPending(t) \/ StopHookBlocks(t) \/ RecheckPending(t) \/ ObserveCancel(t)

Next ==
  \/ Operation
  \/ \E x \in Threads : Starting(x) \/ Aborting(x) \/ Idling(x)
  \/ \E t \in Turns : Finishing(t) \/ Sampling(t)

Spec == Init /\ [][Next]_vars

\* Every thread that can run is run by the runtime, and the model does not
\* call tools for ever: a turn that is asked again and again answers at last.
Fairness ==
  /\ \A x \in Threads : WF_vars(Starting(x) \/ Aborting(x) \/ Idling(x))
  /\ \A t \in Turns : WF_vars(Finishing(t) \/ Sampling(t)) /\ SF_vars(FinalAnswer(t))
-----------------------------------------------------------------------------
(* Properties *)

Points ==
  {"idle", "closed", "unborn", "done", "idlereserve", "idlerecheck", "take", "takeif",
   "await", "clear", "pending", "reserve", "gather", "gathermail", "deliver", "drain",
   "bind", "extend", "install", "finish", "taketask", "takeinput", "complete", "release"}
    \union Working

\* Points at which a thread uses the turn state it holds.
Holding ==
  {"idlerecheck", "await", "clear", "gather", "gathermail", "deliver", "extend", "install",
   "takeinput", "complete", "release"}

\* The types of the session's fields and of every thread's locals; a task is
\* only ever held by an active turn that has a turn state (state/turn.rs), and
\* a thread has a turn state wherever it uses one.
TypeOK ==
  /\ active \in [task : Turns \union {None}, state : States \union {None}]
  /\ active.task # None => active.state # None
  /\ pending \in [States -> SUBSET Items]
  /\ phase \in [States -> {"CurrentTurn", "NextTurn"}]
  /\ mailbox \subseteq Mail
  /\ history \subseteq Items
  /\ kind \in [Turns -> {"none", "Regular", "Compact"}]
  /\ cancelled \subseteq Turns
  /\ ends \in [Turns -> Nat]
  /\ th \in [Threads ->
             [at : Points, st : States \union {None}, items : SUBSET Items,
              input : SUBSET Items, new : {"Regular", "Compact"},
              victim : Turns \union {None}, reason : {"Interrupted", "Replaced"},
              back : {"idle", "closed", "done"}]]
  /\ \A x \in Threads : th[x].at \in Holding => th[x].st # None
  /\ submitted \subseteq Items \union Controls
  /\ accepted \subseteq Items
  /\ dropped \subseteq Items
  /\ clash \in BOOLEAN

\* start_task never finds a task in the turn it binds to or installs its task
\* in (the two debug_assert!(turn.task.is_none()) of tasks/mod.rs): no running
\* task is silently replaced.
NoTaskOverwritten == ~clash

\* At most one turn of the session is at work, aborted ones aside
\* (docs/protocol_v1.md: a session has at most one task running at a time).
OneRunning ==
  \A t, u \in Turns :
    (th[t].at \in Working /\ th[u].at \in Working /\ {t, u} \intersect cancelled = {}) => t = u

\* A turn whose task is over has sent exactly one of TurnComplete and
\* TurnAborted, or the thread that aborted it is about to send it; no turn
\* sends two (on_task_finished and handle_task_abort race for it).
OneTerminalEvent ==
  \A t \in Turns :
    /\ ends[t] <= 1
    /\ At(t, "done") =>
         (ends[t] = 1 \/ \E x \in Threads : At(x, "await") /\ th[x].victim = t)

\* An item the session accepted is recorded in the conversation, or still in
\* a queue that some thread can reach, or was given up with a turn that
\* reported its abort or failure.  Injected items are InjectedKept's.
NoItemLost ==
  accepted \ Injects \subseteq history \union dropped \union mailbox
                      \union (UNION {pending[s] : s \in Referenced})
                      \union (UNION {th[x].items \union th[x].input : x \in {y \in Threads : Live(y)}})

\* The same of an item given to inject_if_running, which either returns it or
\* injects it "into active work" (session/inject.rs): an item that it took is
\* recorded in the end, though the turn may be finishing.
InjectedKept ==
  accepted \intersect Injects \subseteq history \union dropped
                      \union (UNION {pending[s] : s \in Referenced})
                      \union (UNION {th[x].items \union th[x].input : x \in {y \in Threads : Live(y)}})

\* An active turn without a task is a reservation that some thread is about to
\* fill or give back.  Otherwise the session would look busy for ever and
\* maybe_start_turn_for_pending_work would never start a turn again.
ReservationHeld ==
  (active # NoTurn /\ active.task = None) =>
    \E x \in Threads :
      \/ th[x].at \in {"drain", "bind", "extend", "install"}
      \/ /\ th[x].at \in {"idlerecheck", "gather", "gathermail", "deliver",
                         "takeinput", "complete", "release"}
         /\ th[x].st = active.state

\* A turn that finishes takes no task but its own: an abort and the start of
\* the next turn do not come between its last look at the cancellation token
\* and the take, which does not compare the task (on_task_finished).
OwnTask == \A t \in Turns : TakeTask(t) => active.task \in {t, None}
OwnTaskTaken == [][OwnTask]_vars

\* What SessionTurns calls the status of a turn: it runs while its task is the
\* active one, and the thread that takes the task settles how the turn ends.
TurnStatus ==
  [t \in Turns |->
     CASE kind[t] = "none" -> "none"
       [] kind[t] # "none" /\ active.task = t -> "running"
       [] kind[t] # "none" /\ active.task # t /\ t \in cancelled -> "aborted"
       [] OTHER -> "finished"]

Promised == INSTANCE SessionTurns WITH status <- TurnStatus

\* The session keeps the promise of SessionTurns: on_task_finished, an abort
\* and start_task, each of several critical sections, take turns as if each
\* were one step, and a turn reports only after it was taken.
TurnsTakeTurns == Promised!Spec

\* Mail that asks for a turn leaves the mailbox: a running turn takes it or a
\* turn starts for it (maybe_start_turn_for_pending_work).
TriggerDelivered == \A m \in Triggers : m \in mailbox ~> m \notin mailbox

\* Every turn that is spawned sends a terminal event.
EveryTurnEnds == \A t \in Turns : kind[t] # "none" ~> ends[t] > 0
=============================================================================
