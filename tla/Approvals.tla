----------------------------- MODULE Approvals -----------------------------
(***************************************************************************)
(* The tool calls of a turn that wait for an answer (codex-rs/core/src:    *)
(* session/mod.rs request_* and notify_*, session/mcp.rs, state/turn.rs,   *)
(* tools/parallel.rs), composed with the turns of TurnLifecycle.           *)
(*                                                                         *)
(* A call runs in a tokio task of its own.  It puts the sender of a        *)
(* one-shot channel into the state of whatever turn is active, shows a     *)
(* prompt and awaits the channel.  The submission loop gives the user's    *)
(* answer to the sender it finds in the turn that is active then.  A call  *)
(* whose sender is dropped takes that for a rejection.  Aborting a turn    *)
(* cancels its calls, but a call notices that only at its next await: it   *)
(* may go on for a while, even after its turn is gone.                     *)
(***************************************************************************)
EXTENDS TurnLifecycle

CONSTANTS
  Commands,     \* calls keyed by their own id: command and patch approvals,
                \* dynamic tools, elicitations of MCP servers
  Permissions,  \* request_permissions calls answered by the user
  Reviewed,     \* request_permissions calls answered by the guardian
  Questions,    \* calls that ask by request_user_input, the tool or the approval
                \* of an MCP tool, keyed by the id of their turn
  Workloads     \* bound: sets of the operations and calls of one behaviour

Calls == Commands \union Permissions \union Reviewed \union Questions

\* A turn is no call: the code keeps questions, keyed by turn, in a map of
\* their own.
ASSUME CallAssumption ==
  /\ None \notin Calls /\ Calls \intersect Turns = {}
  /\ Reviewed \intersect (Commands \union Permissions \union Questions) = {}
  /\ Questions \intersect (Commands \union Permissions) = {}
  /\ UNION Workloads \subseteq Items \union Controls \union Calls

VARIABLES
  stage,    \* stage[c]: how far call c has got
  asker,    \* asker[c]: the turn that made call c
  home,     \* home[c]: the turn state that holds the sender of call c; for a
            \* reviewed call, the one it took for its own
  prompt,   \* prompt[c]: "none", "shown", "answered" or "aborted"
  got,      \* got[c]: the call whose prompt the answer to c was given to
  granted,  \* granted[s]: calls whose permissions are granted in turn state s
  strays    \* calls that registered when their turn was not active any more

calls == <<stage, asker, home, prompt, got, granted, strays>>

\* A call outside the workload never happens.
ApprovalInit ==
  /\ \E w \in Workloads :
       /\ InitWithout((Items \union Controls) \ w)
       /\ stage = [c \in Calls |-> IF c \in w THEN "new" ELSE "cancelled"]
  /\ asker = [c \in Calls |-> None]
  /\ home = [c \in Calls |-> None]
  /\ prompt = [c \in Calls |-> "none"]
  /\ got = [c \in Calls |-> None]
  /\ granted = [s \in States |-> {}]
  /\ strays = {}

-----------------------------------------------------------------------------
(* The calls *)

Over == {"new", "answered", "rejected", "cancelled"}

\* The calls of turn t that its task has in flight.
InFlight(t) == {c \in Calls : asker[c] = t /\ stage[c] \notin Over}

\* The key of call c in its map of the turn state.
Key(c) == IF c \in Questions THEN asker[c] ELSE c

Become(c, st) == stage' = [stage EXCEPT ![c] = st]

\* The model calls a tool and the task of turn t dispatches it.
CallTool(t, c) ==
  /\ At(t, "answer")
  /\ stage[c] = "new"
  /\ Become(c, "called")
  /\ asker' = [asker EXCEPT ![c] = t]
  /\ UNCHANGED <<vars, home, prompt, got, granted, strays>>

\* Under the lock of active_turn: without an active turn the sender of c is
\* dropped, and a sender under the same key is replaced.
Insert(c) ==
  /\ home' = [d \in Calls |->
                CASE d = c -> active.state
                  [] d # c /\ home[d] = active.state /\ Key(d) = Key(c) -> None
                  [] OTHER -> home[d]]
  /\ strays' = IF active.task = asker[c] THEN strays ELSE strays \union {c}

Show(c) == prompt' = [prompt EXCEPT ![c] = "shown"]

\* The prompt is shown before the sender is registered.
AskLate(c) ==
  /\ c \notin Reviewed
  /\ \/ stage[c] = "called" /\ Show(c) /\ Become(c, "registered") /\ UNCHANGED <<home, strays>>
     \/ stage[c] = "registered" /\ Insert(c) /\ Become(c, "waiting") /\ UNCHANGED prompt
  /\ UNCHANGED <<vars, asker, got, granted>>

\* request_command_approval and its like: register, show the prompt, wait.
Ask(c) ==
  /\ c \notin Reviewed
  /\ \/ stage[c] = "called" /\ Insert(c) /\ Become(c, "registered") /\ UNCHANGED prompt
     \/ stage[c] = "registered" /\ Show(c) /\ Become(c, "waiting") /\ UNCHANGED <<home, strays>>
  /\ UNCHANGED <<vars, asker, got, granted>>

\* The channel of c is answered, or its sender is gone.
Receive(c) ==
  /\ c \notin Reviewed
  /\ stage[c] = "waiting"
  /\ home[c] = None
  /\ Become(c, IF got[c] # None THEN "answered" ELSE "rejected")
  /\ UNCHANGED <<vars, asker, home, prompt, got, granted, strays>>

\* The call notices that its turn is cancelled, or is aborted with it.
ToolCancelled(c) ==
  /\ asker[c] \in cancelled
  /\ stage[c] \notin Over
  /\ Become(c, "cancelled")
  /\ UNCHANGED <<vars, asker, home, prompt, got, granted, strays>>

\* A permission request that notices it takes its sender out of the active
\* turn first.
Withdraw(c) ==
  /\ c \in Permissions
  /\ asker[c] \in cancelled
  /\ stage[c] = "waiting"
  /\ Become(c, "cancelled")
  /\ home' = IF home[c] = active.state THEN [home EXCEPT ![c] = None] ELSE home
  /\ UNCHANGED <<vars, asker, prompt, got, granted, strays>>

\* A request that the guardian reviews keeps the turn state it started with.
StartReview(c) ==
  /\ c \in Reviewed
  /\ stage[c] = "called"
  /\ Insert(c)
  /\ Become(c, "waiting")
  /\ UNCHANGED <<vars, asker, prompt, got, granted>>

\* The decision is taken unless the turn is seen to be cancelled.
Reviews(c) ==
  /\ c \in Reviewed
  /\ stage[c] = "waiting"
  /\ asker[c] \notin cancelled
  /\ Become(c, "decided")
  /\ UNCHANGED <<vars, asker, home, prompt, got, granted, strays>>

\* record_granted_request_permissions_for_turn: s is the turn state that the
\* permissions of call c are recorded in; they are not when they are empty, or
\* granted to the session.
Grant(s, c) ==
  \/ s \in States /\ granted' = [granted EXCEPT ![s] = @ \union {c}]
  \/ UNCHANGED granted

\* The permissions are recorded in the turn that is active by then.
RecordInActive(c) ==
  /\ stage[c] = "decided"
  /\ Grant(active.state, c)
  /\ Become(c, "answered")
  /\ UNCHANGED <<vars, asker, home, prompt, got, strays>>

RecordReviewed(c) ==
  /\ stage[c] = "decided"
  /\ Grant(home[c], c)
  /\ Become(c, "answered")
  /\ UNCHANGED <<vars, asker, home, prompt, got, strays>>

-----------------------------------------------------------------------------
(* The user's answers, handled by the submission loop *)

\* Senders that the answer to the prompt of call c finds.
Pending(c) == {d \in Calls \ Reviewed : home[d] = active.state /\ active # NoTurn /\ Key(d) = Key(c)}

\* notify_approval and its like.  The grant of a permission request is recorded
\* in the turn state its sender was found in before the answer is sent.
Answer(c) ==
  /\ At(Submission, "idle")
  /\ prompt[c] = "shown"
  /\ prompt' = [prompt EXCEPT ![c] = "answered"]
  /\ got' = [d \in Calls |-> IF d \in Pending(c) THEN c ELSE got[d]]
  /\ home' = [d \in Calls |-> IF d \in Pending(c) THEN None ELSE home[d]]
  /\ IF c \in Permissions \intersect Pending(c) THEN Grant(home[c], c) ELSE UNCHANGED granted
  /\ UNCHANGED <<vars, stage, asker, strays>>

\* ReviewDecision::Abort, as the answer to an approval, interrupts the turn.
AnswerAbort(c) ==
  /\ At(Submission, "idle")
  /\ c \in Commands
  /\ prompt[c] = "shown"
  /\ prompt' = [prompt EXCEPT ![c] = "aborted"]
  /\ th' = [th EXCEPT ![Submission] = [@ EXCEPT !.at = "take", !.reason = "Interrupted"]]
  /\ UNCHANGED <<shared, history, turns, submitted, ghosts, stage, asker, home, got, granted, strays>>

-----------------------------------------------------------------------------
(* The turns *)

\* A turn that does not wait for the tools it called.
DrainedNot == TRUE

\* drain_in_flight: the task goes on from its answer when its calls are over.
Drained ==
  \A t \in Turns :
    (At(t, "answer") /\ th'[t].at \notin {"answer", "done"}) => InFlight(t) = {}

\* Turn states that nothing refers to after the step.
Freed == States \ Referenced'

\* Turn states whose waiters clear_pending drops in the step.
Cleared == {th[x].st : x \in {y \in Threads : At(y, "clear") /\ th'[y].at # "clear"}}

\* The senders of states ds and the contents of the freed states are dropped.
Drop(ds) ==
  /\ home' = [c \in Calls |->
                IF home[c] \in Freed \/ (c \notin Reviewed /\ home[c] \in ds) THEN None ELSE home[c]]
  /\ granted' = [s \in States |-> IF s \in Freed THEN {} ELSE granted[s]]

\* The waiters are dropped before TurnAborted is sent.
SettleEarly == Drop(IF active' = NoTurn THEN {active.state} ELSE {})

Settle == Drop(Cleared)

Lifecycle ==
  /\ Next
  /\ Drained
  /\ Settle
  /\ UNCHANGED <<stage, asker, prompt, got, strays>>

ToolStep(c) ==
  \/ \E t \in Turns : CallTool(t, c)
  \/ Ask(c) \/ Receive(c) \/ ToolCancelled(c) \/ Withdraw(c)
  \/ StartReview(c) \/ Reviews(c) \/ RecordReviewed(c)

ApprovalNext ==
  \/ Lifecycle
  \/ \E c \in Calls : ToolStep(c) \/ Answer(c) \/ AnswerAbort(c)

ApprovalSpec == ApprovalInit /\ [][ApprovalNext]_<<vars, calls>>
-----------------------------------------------------------------------------
(* Properties *)

\* An answer reaches a call of the turn that asked, and the very call that
\* asked when calls are keyed by their own id: whatever turns ended and started
\* between the prompt and the answer, the answer to a call of a turn that was
\* not aborted is not lost (notify_approval looks in the turn active by then).
AnswerReachesAsker ==
  \A c \in Calls :
    /\ got[c] # None => asker[got[c]] = asker[c]
    /\ (prompt[c] = "answered" /\ c \notin Questions /\ asker[c] \notin cancelled) => got[c] = c

\* The answer to a question goes to the call that asked it, and the prompts of
\* one turn are answered one after the other (notify_user_input_response, which
\* looks for the turn; tui/src/app/pending_interactive_replay.rs).
OwnQuestionAnswered == \A c \in Questions : got[c] # None => got[c] = c

\* A call of a turn that is not aborted never waits in vain: while it waits
\* its prompt is still open and its sender is where the answer will look for
\* it ("Add the tx_approve callback to the map before sending the request").
WaitCanEnd ==
  \A c \in Calls \ Reviewed :
    (stage[c] = "waiting" /\ home[c] # None /\ asker[c] \notin cancelled) =>
      prompt[c] \in {"shown", "aborted"} /\ home[c] = active.state

\* A wait for an approval that ends without an answer does so after the
\* terminal event of its turn: no rejection reaches the model before
\* TurnAborted (abort_all_tasks clears the waiters last).  A call that
\* registers after its turn was taken is not covered, nor is a question, whose
\* sender another question of its turn replaces.
NoEarlyRejection ==
  \A c \in Calls \ (Questions \union strays) : stage[c] = "rejected" => ends[asker[c]] = 1

\* Permissions granted for a turn are not in force in another one, though the
\* decision may come when the next turn runs already (originating_turn_state).
\* A call that asks after its turn was taken is not covered: it registers in
\* the turn that is active.
GrantsStayInTurn ==
  active.task # None => \A c \in granted[active.state] \ strays : asker[c] = active.task
=============================================================================
