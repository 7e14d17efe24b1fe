---------------------------- MODULE UnifiedExec -----------------------------
(* The process manager of the core (core/src/unified_exec): exec_command     *)
(* starts a process under a reserved id and keeps it in a table when it      *)
(* outlives the call; write_stdin finds it there by its id; a watcher        *)
(* publishes its end; the table evicts processes at its cap; the API and the *)
(* session terminate them; a turn that is interrupted drops the calls at     *)
(* their awaits.  The store's mutex is held without awaiting, so one access  *)
(* to it is one step.  Every call is made once, with one process of its own. *)
EXTENDS Naturals, FiniteSets

CONSTANTS
    Procs,       \* the exec_command calls, and the processes they start
    Ids,         \* process ids, drawn at random
    Writers,     \* the write_stdin calls
    None,        \* no process, no id, no holder
    Watcher,     \* the exit watcher of a process, as holder of its lock
    MaxProcesses, Protected, \* the cap of the table, the most recent it keeps
    MaxFaults    \* bound: interruptions, failures and terminations

ASSUME ExecAssumption ==
    /\ None \notin Procs \cup Ids \cup Writers \cup {Watcher} /\ Watcher \notin Writers
    /\ MaxProcesses \in Nat \ {0} /\ Protected \in Nat /\ MaxFaults \in Nat

VARIABLES
    reserved_process_ids,
    processes,          \* ProcessStore.processes: the process under each id
    call, pid, active,  \* exec_command: its place, its id, initial_exec_command_active
    recency,            \* the entries with an older last_used, for each entry
    state,              \* of a process: has_exited, its token and its failure message
    interaction_lock,   \* who holds the lock of a process
    watch, ended,       \* the exit watcher; the end events published
    wpc, wid, locked_process, handle, \* write_stdin
    killer,             \* terminate_process: its place, its id and its process
    faults              \* interruptions, failures and terminations so far

store == <<reserved_process_ids, processes>>
execs == <<call, pid, active>>
ending == <<watch, ended>>
writing == <<wpc, wid, locked_process, handle>>
execVars == <<store, execs, recency, state, interaction_lock, ending, writing, killer, faults>>

Calls == {"new", "setup", "opened", "wait", "short", "done"}
(* running; has_exited; that, or a termination, signalled by the token; and  *)
(* that with a failure message.  A process that terminate() has signalled    *)
(* has left the table, and nothing asks whether it has exited yet.           *)
States == {"none", "running", "exited", "signalled", "failed"}
Holding == {"approving", "using", "settled"}

ExecTypeOK ==
    /\ reserved_process_ids \subseteq Ids
    /\ processes \in [Ids -> Procs \cup {None}]
    /\ call \in [Procs -> Calls] /\ pid \in [Procs -> Ids \cup {None}]
    /\ active \subseteq {p \in Procs : call[p] = "wait"}
    /\ recency \in [Procs -> SUBSET Procs]
    /\ state \in [Procs -> States]
    /\ interaction_lock \in [Procs -> Writers \cup {Watcher, None}]
    /\ watch \in [Procs -> {"none", "watching", "publishing", "ended"}]
    /\ ended \in [Procs -> Nat]
    /\ wpc \in [Writers -> Holding \cup {"idle", "waiting", "done"}]
    /\ wid \in [Writers -> Ids \cup {None}]
    /\ locked_process \in [Writers -> Procs \cup {None}]
    /\ handle \in [Writers -> Procs \cup {None}]
    /\ killer \in [at : {"idle", "confirm", "remove", "done"}, id : Ids \cup {None},
                   process : Procs \cup {None}]
    /\ faults \in 0..MaxFaults

ExecInit ==
    /\ reserved_process_ids = {} /\ processes = [i \in Ids |-> None]
    /\ call = [p \in Procs |-> "new"] /\ pid = [p \in Procs |-> None] /\ active = {}
    /\ recency = [p \in Procs |-> {}]
    /\ state = [p \in Procs |-> "none"]
    /\ interaction_lock = [p \in Procs |-> None]
    /\ watch = [p \in Procs |-> "none"] /\ ended = [p \in Procs |-> 0]
    /\ wpc = [w \in Writers |-> "idle"] /\ wid = [w \in Writers |-> None]
    /\ locked_process = [w \in Writers |-> None] /\ handle = [w \in Writers |-> None]
    /\ killer = [at |-> "idle", id |-> None, process |-> None]
    /\ faults = 0

----------------------------------------------------------------------------
Fault == faults < MaxFaults /\ faults' = faults + 1

(* ProcessStore::remove, and so release_process_id: by id, whatever is there *)
Remove(i) ==
    /\ reserved_process_ids' = reserved_process_ids \ {i}
    /\ processes' = [processes EXCEPT ![i] = None]

HasExited(p) == state[p] \in {"exited", "signalled", "failed"}
Signalled(p) == state[p] \in {"signalled", "failed"}

(* refresh_process_state: the entry goes when its process has exited. *)
Refresh(i) ==
    IF processes[i] # None /\ HasExited(processes[i]) THEN Remove(i) ELSE UNCHANGED store

(* last_used is now.  Only the entries of the table have one. *)
Touch(p) ==
    LET others == {q \in Procs \ {p} : \E i \in Ids : processes'[i] = q} IN
    recency' = [q \in Procs |-> IF q = p THEN others
                                ELSE IF q \in others THEN recency[q] \cap others ELSE {}]

(* terminate, and terminate_confirmed *)
Terminate(ps) ==
    state' = [p \in Procs |-> IF p \in ps /\ state[p] # "failed" THEN "signalled" ELSE state[p]]
(* fail_and_terminate *)
FailAndTerminate(p) == state' = [state EXCEPT ![p] = "failed"]

CallAt(p, place) == call' = [call EXCEPT ![p] = place]
(* The call returns or is dropped, and its InitialExecCommandGuard with it. *)
CallEnds(p) == CallAt(p, "done") /\ active' = active \ {p} /\ UNCHANGED pid

(* exec_command reserves an id before it resolves the command. *)
AllocateProcessId(p) ==
    /\ call[p] = "new"
    /\ \E i \in Ids \ reserved_process_ids :
        /\ reserved_process_ids' = reserved_process_ids \cup {i}
        /\ pid' = [pid EXCEPT ![p] = i]
    /\ CallAt(p, "setup")
    /\ UNCHANGED <<processes, active, recency, state, interaction_lock, ending, writing,
                   killer, faults>>

(* The policy, the patch that the command is, or the start of the process.   *)
Refuse(p) ==
    /\ call[p] = "setup" /\ Fault
    /\ Remove(pid[p])
    /\ CallEnds(p)
    /\ UNCHANGED <<recency, state, interaction_lock, ending, writing, killer>>

(* The command cannot be resolved: the reservation stays. *)
NoCommand(p) ==
    /\ call[p] = "setup" /\ Fault
    /\ CallEnds(p)
    /\ UNCHANGED <<store, recency, state, interaction_lock, ending, writing, killer>>

OpenSession(p) ==
    /\ call[p] = "setup"
    /\ CallAt(p, "opened")
    /\ state' = [state EXCEPT ![p] = "running"]
    /\ UNCHANGED <<store, pid, active, recency, interaction_lock, ending, writing, killer,
                   faults>>

(* process_started_alive is false: the process is not stored. *)
ExitedEarly(p) ==
    /\ call[p] = "opened" /\ HasExited(p)
    /\ CallAt(p, "short")
    /\ UNCHANGED <<store, pid, active, recency, state, interaction_lock, ending, writing, killer,
                   faults>>

----------------------------------------------------------------------------
(* prune_processes_if_needed and process_id_to_prune_from_meta *)
Stored == {i \in Ids : processes[i] # None}
Older(i, j) == processes[i] \in recency[processes[j]]
Unprotected == {i \in Stored : Cardinality({j \in Stored : Older(i, j)}) >= Protected}
Exited(is) == {i \in is : HasExited(processes[i])}
Unlocked(is) == {i \in is : interaction_lock[processes[i]] = None}

Oldest(is) == {i \in is : \A j \in is : ~Older(j, i)}

(* Mutant: a live one is evicted when every exited one is locked. *)
ToPruneAnyUnlocked ==
    IF Cardinality(Stored) < MaxProcesses THEN {}
    ELSE IF Unlocked(Exited(Unprotected)) # {} THEN Oldest(Unlocked(Exited(Unprotected)))
    ELSE Oldest(Unlocked(Unprotected))

(* The oldest exited one; a live one only if none has exited.  A locked one  *)
(* is passed over, but an exited one that is locked spares the live ones.    *)
ToPrune ==
    IF Cardinality(Stored) < MaxProcesses THEN {}
    ELSE IF Exited(Unprotected) # {} THEN Oldest(Unlocked(Exited(Unprotected)))
    ELSE Oldest(Unlocked(Unprotected))

(* store_process, with the process alive; last_used is the instant before. *)
StoreProcess(p) ==
    /\ call[p] = "opened" /\ state[p] = "running"
    /\ reserved_process_ids' = reserved_process_ids \ ToPrune
    /\ processes' = [i \in Ids |-> IF i = pid[p] THEN p
                                   ELSE IF i \in ToPrune THEN None ELSE processes[i]]
    /\ Terminate({processes[i] : i \in ToPrune})
    /\ active' = active \cup {p}
    /\ watch' = [watch EXCEPT ![p] = "watching"]
    /\ CallAt(p, "wait")
    /\ Touch(p)
    /\ UNCHANGED <<pid, interaction_lock, ended, writing, killer, faults>>

(* A one-shot command is stopped by its timeout or its cancellation. *)
OneShotStop(p) ==
    /\ call[p] = "wait" /\ state[p] = "running" /\ Fault
    /\ Terminate({p}) \/ FailAndTerminate(p)
    /\ UNCHANGED <<store, execs, recency, interaction_lock, ending, writing, killer>>

(* Mutant: the call publishes the end of a stored process too. *)
FinishFailedTwice(p) ==
    /\ call[p] \in {"wait", "short"} /\ state[p] = "failed"
    /\ ended' = [ended EXCEPT ![p] = @ + 1]
    /\ Remove(pid[p])
    /\ CallEnds(p)
    /\ UNCHANGED <<recency, state, interaction_lock, watch, writing, killer, faults>>

(* Network access was denied, or the process has failed: the watcher of a    *)
(* stored process publishes its end, of another one the call does.           *)
FinishFailed(p) ==
    /\ call[p] \in {"wait", "short"} /\ state[p] = "failed"
    /\ ended' = [ended EXCEPT ![p] = IF call[p] = "short" THEN @ + 1 ELSE @]
    /\ Remove(pid[p])
    /\ CallEnds(p)
    /\ UNCHANGED <<recency, state, interaction_lock, watch, writing, killer, faults>>

(* The yield time is over or the process has exited. *)
FinishStored(p) ==
    /\ call[p] = "wait" /\ state[p] # "failed"
    /\ Refresh(pid[p])
    /\ CallEnds(p)
    /\ UNCHANGED <<recency, state, interaction_lock, ending, writing, killer, faults>>

(* A short-lived command: its end is published and its id released here. *)
FinishShort(p) ==
    /\ call[p] = "short" /\ state[p] # "failed"
    /\ ended' = [ended EXCEPT ![p] = @ + 1]
    /\ Remove(pid[p])
    /\ CallEnds(p)
    /\ UNCHANGED <<recency, state, interaction_lock, watch, writing, killer, faults>>

(* Mutant: initial_exec_command_active is not reset by a drop. *)
AbortKeepsActive(p) ==
    /\ call[p] \in {"setup", "opened", "wait", "short"} /\ Fault
    /\ state' = [state EXCEPT ![p] = IF call[p] = "wait" THEN @ ELSE "none"]
    /\ CallAt(p, "done")
    /\ UNCHANGED <<store, pid, active, recency, interaction_lock, ending, writing, killer>>

(* The turn is interrupted and the call dropped: a process not yet stored is *)
(* terminated by its drop, unless the monitor of its network approval holds  *)
(* it; the short-lived one may have published its end already.               *)
Abort(p) ==
    /\ call[p] \in {"setup", "opened", "wait", "short"} /\ Fault
    /\ state' = [state EXCEPT ![p] = IF call[p] = "wait" THEN @ ELSE "none"]
    /\ \/ call[p] = "short" /\ ended' = [ended EXCEPT ![p] = @ + 1]
       \/ UNCHANGED ended
    /\ CallEnds(p)
    /\ UNCHANGED <<store, recency, interaction_lock, watch, writing, killer>>

----------------------------------------------------------------------------
(* The process exits; its exit is signalled; or it fails: its network access *)
(* is denied, or the exec server loses it.                                   *)
Exit(p) ==
    /\ state[p] = "running"
    /\ state' = [state EXCEPT ![p] = "exited"]
    /\ UNCHANGED <<store, execs, recency, interaction_lock, ending, writing, killer, faults>>

SignalExit(p) ==
    /\ state[p] = "exited"
    /\ Terminate({p})
    /\ UNCHANGED <<store, execs, recency, interaction_lock, ending, writing, killer, faults>>

NetworkDenial(p) ==
    /\ state[p] # "failed" /\ Fault
    /\ call[p] \in {"opened", "wait", "short"} \/ watch[p] = "watching"
    /\ FailAndTerminate(p)
    /\ UNCHANGED <<store, execs, recency, interaction_lock, ending, writing, killer>>

(* spawn_exit_watcher: one end event, under the interaction lock. *)
WatcherLocks(p) ==
    /\ watch[p] = "watching" /\ Signalled(p) /\ interaction_lock[p] = None
    /\ interaction_lock' = [interaction_lock EXCEPT ![p] = Watcher]
    /\ watch' = [watch EXCEPT ![p] = "publishing"]
    /\ UNCHANGED <<store, execs, recency, state, ended, writing, killer, faults>>

EmitExecEnd(p) ==
    /\ watch[p] = "publishing"
    /\ interaction_lock' = [interaction_lock EXCEPT ![p] = None]
    /\ watch' = [watch EXCEPT ![p] = "ended"]
    /\ ended' = [ended EXCEPT ![p] = @ + 1]
    /\ UNCHANGED <<store, execs, recency, state, writing, killer, faults>>

----------------------------------------------------------------------------
WriterAt(w, place) == wpc' = [wpc EXCEPT ![w] = place]
Unlock(w) ==
    interaction_lock' = [p \in Procs |-> IF interaction_lock[p] = w THEN None
                                         ELSE interaction_lock[p]]
(* write_stdin returns or is dropped, and its interaction guard with it. *)
WriterEnds(w) ==
    /\ WriterAt(w, "done") /\ Unlock(w)
    /\ wid' = [wid EXCEPT ![w] = None]
    /\ locked_process' = [locked_process EXCEPT ![w] = None]
    /\ handle' = [handle EXCEPT ![w] = None]

LookUp(w) ==
    /\ wpc[w] = "idle"
    /\ \E i \in Stored :
        /\ wid' = [wid EXCEPT ![w] = i]
        /\ locked_process' = [locked_process EXCEPT ![w] = processes[i]]
    /\ WriterAt(w, "waiting")
    /\ UNCHANGED <<store, execs, recency, state, interaction_lock, ending, handle, killer, faults>>

(* The lock is granted; the id may by now be gone, or another process's. *)
LockTerminal(w) ==
    LET p == locked_process[w] IN
    /\ wpc[w] = "waiting" /\ interaction_lock[p] = None
    /\ IF processes[wid[w]] = p
       THEN /\ WriterAt(w, "approving")
            /\ interaction_lock' = [interaction_lock EXCEPT ![p] = w]
            /\ UNCHANGED <<wid, locked_process, handle>>
       ELSE WriterEnds(w)
    /\ UNCHANGED <<store, execs, recency, state, ending, killer, faults>>

(* stdin_approval is refused, or the input is too large to review. *)
Rejected(w) ==
    /\ wpc[w] = "approving" /\ Fault
    /\ WriterEnds(w)
    /\ UNCHANGED <<store, execs, recency, state, ending, killer>>

(* Mutant: the identity is not revalidated after the approval. *)
PrepareUnchecked(w) ==
    /\ wpc[w] = "approving"
    /\ UNCHANGED store
    /\ IF processes[wid[w]] # None
       THEN /\ WriterAt(w, "using")
            /\ handle' = [handle EXCEPT ![w] = processes[wid[w]]]
            /\ Touch(processes[wid[w]])
            /\ UNCHANGED <<interaction_lock, wid, locked_process>>
       ELSE WriterEnds(w) /\ UNCHANGED recency
    /\ UNCHANGED <<execs, state, ending, killer, faults>>

(* Approved: prepare_process_handles takes the process from the table again. *)
PrepareProcessHandles(w) ==
    /\ wpc[w] = "approving"
    /\ UNCHANGED store
    /\ IF processes[wid[w]] = locked_process[w]
       THEN /\ WriterAt(w, "using")
            /\ handle' = [handle EXCEPT ![w] = processes[wid[w]]]
            /\ Touch(processes[wid[w]])
            /\ UNCHANGED <<interaction_lock, wid, locked_process>>
       ELSE WriterEnds(w) /\ UNCHANGED recency
    /\ UNCHANGED <<execs, state, ending, killer, faults>>

(* After a failed write the state under the id is refreshed first: when that *)
(* has exited, the writer still collects its output.                         *)
Settled(w) ==
    /\ Remove(wid[w])
    /\ WriterAt(w, "settled")
    /\ UNCHANGED <<interaction_lock, wid, locked_process, handle>>

(* The exec server no longer knows the process: it is marked as exited. *)
WriteToUnknown(w) ==
    LET p == handle[w]  q == processes[wid[w]] IN
    /\ wpc[w] = "using" /\ Fault
    /\ Terminate({p})
    /\ IF q # None /\ (q = p \/ HasExited(q)) THEN Settled(w)
       ELSE WriterEnds(w) /\ UNCHANGED store
    /\ UNCHANGED <<execs, recency, ending, killer>>

(* The process has exited; stdin is closed or cannot be signalled; or the    *)
(* exec server cannot be reached, which ends the process.                    *)
WriteFails(w) ==
    LET q == processes[wid[w]] IN
    /\ wpc[w] = "using" /\ Fault
    /\ \/ q # None /\ HasExited(q) /\ Settled(w) /\ UNCHANGED state
       \/ WriterEnds(w) /\ UNCHANGED <<store, state>>
       \/ /\ q # None => ~HasExited(q)
          /\ Terminate({handle[w]})
          /\ Remove(wid[w])
          /\ WriterEnds(w)
    /\ UNCHANGED <<execs, recency, ending, killer>>

(* The output is collected: the process was denied the network or failed ... *)
PollFailed(w) ==
    /\ wpc[w] \in {"using", "settled"} /\ state[handle[w]] = "failed"
    /\ Remove(wid[w])
    /\ WriterEnds(w)
    /\ UNCHANGED <<execs, recency, state, ending, killer, faults>>

(* ... or it runs on, or has exited. *)
Polled(w) ==
    /\ wpc[w] \in {"using", "settled"} /\ state[handle[w]] # "failed"
    /\ IF wpc[w] = "using" THEN Refresh(wid[w]) ELSE UNCHANGED store
    /\ WriterEnds(w)
    /\ UNCHANGED <<execs, recency, state, ending, killer, faults>>

(* Mutant: a dropped write_stdin keeps the lock. *)
AbortWriteKeepsLock(w) ==
    /\ wpc[w] \in Holding \cup {"waiting"} /\ Fault
    /\ WriterAt(w, "done")
    /\ UNCHANGED <<store, execs, recency, state, interaction_lock, ending, wid, locked_process,
                   handle, killer>>

AbortWrite(w) ==
    /\ wpc[w] \in Holding \cup {"waiting"} /\ Fault
    /\ WriterEnds(w)
    /\ UNCHANGED <<store, execs, recency, state, ending, killer>>

----------------------------------------------------------------------------
(* terminate_process of the API. *)
KillLookUp(i) ==
    /\ killer.at = "idle" /\ processes[i] # None /\ Fault
    /\ killer' = [at |-> IF HasExited(processes[i]) THEN "remove" ELSE "confirm",
                  id |-> i, process |-> processes[i]]
    /\ UNCHANGED <<store, execs, recency, state, interaction_lock, ending, writing>>

KillConfirmed ==
    /\ killer.at = "confirm"
    /\ Terminate({killer.process})
    /\ killer' = [killer EXCEPT !.at = "remove"]
    /\ UNCHANGED <<store, execs, recency, interaction_lock, ending, writing, faults>>

(* Mutant: the entry is removed although the process was not terminated. *)
KillFailsRemoves ==
    /\ killer.at = "confirm"
    /\ Remove(killer.id)
    /\ killer' = [at |-> "done", id |-> None, process |-> None]
    /\ UNCHANGED <<execs, recency, state, interaction_lock, ending, writing, faults>>

(* The exec server cannot be asked: the process stays in the table. *)
KillFails ==
    /\ killer.at = "confirm"
    /\ killer' = [at |-> "done", id |-> None, process |-> None]
    /\ UNCHANGED <<store, execs, recency, state, interaction_lock, ending, writing, faults>>

KillRemove ==
    /\ killer.at = "remove"
    /\ IF processes[killer.id] = killer.process /\ killer.process \notin active
       THEN Remove(killer.id) ELSE UNCHANGED store
    /\ killer' = [at |-> "done", id |-> None, process |-> None]
    /\ UNCHANGED <<execs, recency, state, interaction_lock, ending, writing, faults>>

(* terminate_all_processes: every reservation goes, also those of the calls  *)
(* that have not stored their process yet.                                   *)
TerminateAll ==
    /\ Fault
    /\ reserved_process_ids' = {} /\ processes' = [i \in Ids |-> None]
    /\ Terminate({processes[i] : i \in Stored})
    /\ UNCHANGED <<execs, recency, interaction_lock, ending, writing, killer>>

----------------------------------------------------------------------------
(* What the tasks do by themselves: a yield time runs out, a review is       *)
(* answered.  Nothing obliges a process to exit.                             *)
CallStep(p) ==
    \/ AllocateProcessId(p) \/ OpenSession(p) \/ ExitedEarly(p)
    \/ StoreProcess(p) \/ FinishFailed(p) \/ FinishStored(p) \/ FinishShort(p)

WatcherStep(p) == SignalExit(p) \/ WatcherLocks(p) \/ EmitExecEnd(p)

WriterStep(w) == LockTerminal(w) \/ PrepareProcessHandles(w) \/ PollFailed(w) \/ Polled(w)

TaskStep ==
    \/ \E p \in Procs : CallStep(p) \/ WatcherStep(p)
    \/ \E w \in Writers : WriterStep(w)

ExecNext ==
    \/ TaskStep
    \/ \E p \in Procs :
        \/ Refuse(p) \/ NoCommand(p) \/ Abort(p)
        \/ Exit(p) \/ NetworkDenial(p) \/ OneShotStop(p)
    \/ \E w \in Writers :
        LookUp(w) \/ Rejected(w) \/ WriteToUnknown(w) \/ WriteFails(w) \/ AbortWrite(w)
    \/ \E i \in Ids : KillLookUp(i)
    \/ KillConfirmed \/ KillFails \/ KillRemove \/ TerminateAll

ExecSpec == ExecInit /\ [][ExecNext]_execVars

----------------------------------------------------------------------------
(* Terminal input goes to the process whose permissions were reviewed, and   *)
(* only under that process's lock, although the id may have been removed and *)
(* given to another process during the review (write_stdin, which            *)
(* revalidates the identity after the lock and after the approval).          *)
ApprovedTerminal ==
    \A w \in Writers : wpc[w] \in {"using", "settled"} =>
        /\ handle[w] = locked_process[w]
        /\ interaction_lock[handle[w]] = w

(* No process is left running where nobody finds it: one that was stored,    *)
(* has not exited and was not terminated is in the table under its id, as    *)
(* long as that id was not drawn for two calls (store_process,               *)
(* terminate_process, release_process_id, terminate_all_processes).          *)
NoOrphan ==
    \A p \in Procs :
        /\ watch[p] # "none" /\ state[p] = "running"
        /\ \A q \in Procs \ {p} : pid[q] # pid[p]
        => processes[pid[p]] = p

(* The end of a process is published once, by its watcher or by the call     *)
(* that started it (emit_failed_initial_exec_end_if_unstored).               *)
OneEndEvent == \A p \in Procs : ended[p] <= 1

(* At the cap no process in use is evicted, and a live one only when every   *)
(* process that may be evicted is alive, exited ones that are publishing     *)
(* their end included (prune_processes_if_needed).                           *)
EvictionOrder ==
    [][\A p \in Procs : StoreProcess(p) =>
        \A i \in Stored \ {pid[p]} : processes'[i] = None =>
            /\ interaction_lock[processes[i]] = None
            /\ state[processes[i]] = "running" => Exited(Unprotected) = {}]_execVars

(* The end of a stored process is published: its watcher is over only when   *)
(* it has published, and the lock that it needs when the exit is signalled   *)
(* is free, or its own, or held by a write_stdin of this very process that   *)
(* is past every wait for a lock.  Whoever evicts or removes the process or  *)
(* drops the writer, the lock comes free (spawn_exit_watcher, the guard of   *)
(* write_stdin).                                                             *)
EndPublished ==
    \A p \in Procs :
        /\ watch[p] = "ended" => ended[p] = 1
        /\ (watch[p] = "watching" /\ Signalled(p) /\ interaction_lock[p] # None) =>
            \E w \in Writers :
                interaction_lock[p] = w /\ locked_process[w] = p /\ wpc[w] \in Holding
=============================================================================
