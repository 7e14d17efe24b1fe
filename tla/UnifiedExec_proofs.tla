------------------------ MODULE UnifiedExec_proofs --------------------------
(* Proofs about UnifiedExec, for any number of commands, ids and writers, any *)
(* cap of the table and any number of interruptions and failures.  The        *)
(* invariant is built in layers: types; where a call is and whether its       *)
(* process has a watcher; who holds which interaction lock; what has been     *)
(* published; what the table, the writers and terminate_process refer to.     *)
(* Each layer uses the ones before it, and the properties follow.             *)
EXTENDS UnifiedExec, TLAPS

(* A call has an id once it has allocated one, and a watcher exactly when it  *)
(* has stored its process.                                                    *)
ProcInv ==
  \A p \in Procs :
    /\ (call[p] = "new") = (pid[p] = None)
    /\ call[p] \in {"new", "setup", "opened", "short"} => watch[p] = "none"
    /\ call[p] = "wait" => watch[p] # "none"

(* A publishing watcher and a writer past LockTerminal hold the lock of their *)
(* process, and what a writer uses is what it locked.                         *)
LockInv ==
  /\ \A p \in Procs : watch[p] = "publishing" => interaction_lock[p] = Watcher
  /\ \A w \in Writers :
       /\ wpc[w] \in Holding \cup {"waiting"} => locked_process[w] \in Procs
       /\ wpc[w] \in Holding => interaction_lock[locked_process[w]] = w
       /\ wpc[w] \in {"using", "settled"} => handle[w] = locked_process[w]

(* Nothing has been published before the call or the watcher does.            *)
EndInv ==
  \A p \in Procs :
    /\ ended[p] <= 1
    /\ call[p] # "done" /\ watch[p] = "none" => ended[p] = 0
    /\ watch[p] \in {"watching", "publishing"} => ended[p] = 0

(* The table, the writers and terminate_process name a process by its own id, *)
(* and only processes that were stored; what terminate_process is about to    *)
(* remove has ended.                                                          *)
TableInv ==
  /\ \A i \in Ids : processes[i] # None =>
       pid[processes[i]] = i /\ watch[processes[i]] # "none"
  /\ \A w \in Writers : wpc[w] \in Holding \cup {"waiting"} =>
       wid[w] \in Ids /\ pid[locked_process[w]] = wid[w]
  /\ killer.at \in {"confirm", "remove"} =>
       killer.process \in Procs /\ watch[killer.process] # "none"
  /\ killer.at = "remove" => state[killer.process] # "running"

(* Nobody else holds a lock: the watcher only while it publishes, a writer    *)
(* only that of the process it uses.  A watcher that is over has published.   *)
HeldInv ==
  \A p \in Procs :
    /\ interaction_lock[p] = Watcher => watch[p] = "publishing"
    /\ \A w \in Writers : interaction_lock[p] = w => locked_process[w] = p /\ wpc[w] \in Holding
    /\ watch[p] = "ended" => ended[p] >= 1

ExecInv == ExecTypeOK /\ ProcInv /\ LockInv /\ HeldInv /\ EndInv /\ TableInv /\ NoOrphan

----------------------------------------------------------------------------
(* What the shared ends of the actions do to the types.                       *)
LEMMA RemoveType ==
  ASSUME ExecTypeOK, NEW i, Remove(i)
  PROVE  /\ reserved_process_ids' \subseteq Ids
         /\ processes' \in [Ids -> Procs \cup {None}]
BY DEF ExecTypeOK, Remove

(* A call that ends leaves no active guard behind.                            *)
LEMMA CallEndsType ==
  ASSUME ExecTypeOK, NEW p \in Procs, CallEnds(p)
  PROVE  /\ call' \in [Procs -> Calls] /\ pid' \in [Procs -> Ids \cup {None}]
         /\ active' \subseteq {q \in Procs : call'[q] = "wait"}
BY DEF ExecTypeOK, CallEnds, CallAt, Calls

(* A writer that ends gives up its lock and what it refers to.                *)
LEMMA WriterEndsType ==
  ASSUME ExecTypeOK, NEW w \in Writers, WriterEnds(w)
  PROVE  /\ wpc' \in [Writers -> Holding \cup {"idle", "waiting", "done"}]
         /\ wid' \in [Writers -> Ids \cup {None}]
         /\ locked_process' \in [Writers -> Procs \cup {None}]
         /\ handle' \in [Writers -> Procs \cup {None}]
         /\ interaction_lock' \in [Procs -> Writers \cup {Watcher, None}]
BY DEF ExecTypeOK, WriterEnds, WriterAt, Unlock

(* A use of an entry keeps the order of uses one between processes.           *)
LEMMA TouchType ==
  ASSUME ExecTypeOK, NEW p, Touch(p)
  PROVE  recency' \in [Procs -> SUBSET Procs]
BY DEF ExecTypeOK, Touch

(* Every step keeps the types.                                                *)
LEMMA TypeStep ==
  ASSUME ExecTypeOK, [ExecNext]_execVars
  PROVE  ExecTypeOK'
<1> USE ExecAssumption DEF ExecTypeOK, Calls, States, Holding,
        execVars, store, execs, ending, writing
<1>1. CASE \E p \in Procs : AllocateProcessId(p)
  BY <1>1 DEF AllocateProcessId, CallAt
<1>2. CASE \E p \in Procs : OpenSession(p)
  BY <1>2 DEF OpenSession, CallAt
<1>3. CASE \E p \in Procs : ExitedEarly(p)
  BY <1>3 DEF ExitedEarly, CallAt
<1>4. CASE \E p \in Procs : StoreProcess(p)
  BY <1>4 DEF StoreProcess, CallAt, Touch, Terminate
<1>5. ASSUME NEW p \in Procs, FinishFailed(p) PROVE ExecTypeOK'
  BY <1>5, RemoveType, CallEndsType DEF FinishFailed
<1>6. CASE \E p \in Procs : FinishStored(p)
  BY <1>6 DEF FinishStored, Refresh, Remove, CallEnds, CallAt
<1>7. ASSUME NEW p \in Procs, FinishShort(p) PROVE ExecTypeOK'
  BY <1>7, RemoveType, CallEndsType DEF FinishShort
<1>8. CASE \E p \in Procs : SignalExit(p)
  BY <1>8 DEF SignalExit, Terminate
<1>9. CASE \E p \in Procs : WatcherLocks(p)
  BY <1>9 DEF WatcherLocks
<1>10. CASE \E p \in Procs : EmitExecEnd(p)
  BY <1>10 DEF EmitExecEnd
<1>11. ASSUME NEW p \in Procs, Refuse(p) PROVE ExecTypeOK'
  BY <1>11, RemoveType, CallEndsType DEF Refuse, Fault
<1>12. CASE \E p \in Procs : NoCommand(p)
  BY <1>12 DEF NoCommand, Fault, CallEnds, CallAt
<1>13. CASE \E p \in Procs : Abort(p)
  BY <1>13 DEF Abort, Fault, CallEnds, CallAt
<1>14. CASE \E p \in Procs : Exit(p)
  BY <1>14 DEF Exit
<1>15. CASE \E p \in Procs : NetworkDenial(p)
  BY <1>15 DEF NetworkDenial, Fault, FailAndTerminate
<1>16. CASE \E p \in Procs : OneShotStop(p)
  BY <1>16 DEF OneShotStop, Fault, Terminate, FailAndTerminate
<1>17. CASE \E w \in Writers : LockTerminal(w)
  BY <1>17 DEF LockTerminal, WriterAt, WriterEnds, Unlock
<1>18. ASSUME NEW w \in Writers, PrepareProcessHandles(w) PROVE ExecTypeOK'
  <2>1. CASE processes[wid[w]] = locked_process[w]
    <3>1. recency' \in [Procs -> SUBSET Procs]
      BY <1>18, <2>1, TouchType DEF PrepareProcessHandles
    <3>2. handle' \in [Writers -> Procs \cup {None}]
      BY <1>18, <2>1 DEF PrepareProcessHandles
    <3>3. QED
      BY <1>18, <2>1, <3>1, <3>2 DEF PrepareProcessHandles, WriterAt
  <2>2. CASE processes[wid[w]] # locked_process[w]
    BY <1>18, <2>2, WriterEndsType DEF PrepareProcessHandles
  <2>3. QED
    BY <2>1, <2>2
<1>19. ASSUME NEW w \in Writers, PollFailed(w) PROVE ExecTypeOK'
  BY <1>19, RemoveType, WriterEndsType DEF PollFailed
<1>20. CASE \E w \in Writers : Polled(w)
  BY <1>20 DEF Polled, Refresh, Remove, WriterAt, WriterEnds, Unlock
<1>21. CASE \E w \in Writers : LookUp(w)
  BY <1>21 DEF LookUp, WriterAt, Stored
<1>22. CASE \E w \in Writers : Rejected(w)
  BY <1>22 DEF Rejected, Fault, WriterAt, WriterEnds, Unlock
<1>23. ASSUME NEW w \in Writers, WriteToUnknown(w) PROVE ExecTypeOK'
  <2>1. state' \in [Procs -> States]
    BY <1>23 DEF WriteToUnknown, Terminate
  <2>2. CASE Settled(w)
    <3>1. Remove(wid[w]) /\ WriterAt(w, "settled")
      BY <2>2 DEF Settled
    <3>2. QED
      BY <1>23, <2>1, <2>2, <3>1, RemoveType DEF WriteToUnknown, Fault, Settled, WriterAt
  <2>3. CASE WriterEnds(w) /\ UNCHANGED store
    BY <1>23, <2>1, <2>3, WriterEndsType DEF WriteToUnknown, Fault
  <2>4. QED
    BY <1>23, <2>2, <2>3 DEF WriteToUnknown
<1>24. ASSUME NEW w \in Writers, WriteFails(w) PROVE ExecTypeOK'
  <2>1. CASE Settled(w) /\ UNCHANGED state
    <3>1. Remove(wid[w]) /\ WriterAt(w, "settled")
      BY <2>1 DEF Settled
    <3>2. QED
      BY <1>24, <2>1, <3>1, RemoveType DEF WriteFails, Fault, Settled, WriterAt
  <2>2. CASE WriterEnds(w) /\ UNCHANGED <<store, state>>
    BY <1>24, <2>2, WriterEndsType DEF WriteFails, Fault
  <2>3. CASE Terminate({handle[w]}) /\ Remove(wid[w]) /\ WriterEnds(w)
    <3>1. state' \in [Procs -> States]
      BY <2>3 DEF Terminate
    <3>2. QED
      BY <1>24, <2>3, <3>1, RemoveType, WriterEndsType DEF WriteFails, Fault
  <2>4. QED
    BY <1>24, <2>1, <2>2, <2>3 DEF WriteFails
<1>25. CASE \E w \in Writers : AbortWrite(w)
  BY <1>25 DEF AbortWrite, Fault, WriterAt, WriterEnds, Unlock
<1>26. CASE \E i \in Ids : KillLookUp(i)
  BY <1>26 DEF KillLookUp, Fault
<1>27. CASE KillConfirmed
  BY <1>27 DEF KillConfirmed, Terminate
<1>28. CASE KillFails
  BY <1>28 DEF KillFails
<1>29. CASE KillRemove
  BY <1>29 DEF KillRemove, Remove
<1>30. CASE TerminateAll
  BY <1>30 DEF TerminateAll, Fault, Terminate, Stored
<1>31. CASE UNCHANGED execVars
  BY <1>31
<1>32. QED
  BY <1>1, <1>2, <1>3, <1>4, <1>5, <1>6, <1>7, <1>8, <1>9, <1>10, <1>11, <1>12, <1>13,
     <1>14, <1>15, <1>16, <1>17, <1>18, <1>19, <1>20, <1>21, <1>22, <1>23, <1>24, <1>25,
     <1>26, <1>27, <1>28, <1>29, <1>30, <1>31
  DEF ExecNext, TaskStep, CallStep, WatcherStep, WriterStep

(* StoreProcess starts the watcher; no step takes it away.                    *)
LEMMA ProcStep ==
  ASSUME ExecTypeOK, ExecTypeOK', ProcInv,
         [ExecNext]_execVars
  PROVE  ProcInv'
<1> USE ExecAssumption
    DEF ExecTypeOK, ProcInv, Calls, execVars, store, execs, ending, writing
<1>1. CASE \E p \in Procs : AllocateProcessId(p)
  BY <1>1 DEF AllocateProcessId, CallAt
<1>2. CASE \E p \in Procs : OpenSession(p)
  BY <1>2 DEF OpenSession, CallAt
<1>3. CASE \E p \in Procs : ExitedEarly(p)
  BY <1>3 DEF ExitedEarly, CallAt
<1>4. CASE \E p \in Procs : StoreProcess(p)
  BY <1>4 DEF StoreProcess, CallAt, Touch, Terminate
<1>5. CASE \E p \in Procs : FinishFailed(p)
  BY <1>5 DEF FinishFailed, Remove, CallEnds, CallAt
<1>6. CASE \E p \in Procs : FinishStored(p)
  BY <1>6 DEF FinishStored, Refresh, Remove, CallEnds, CallAt
<1>7. CASE \E p \in Procs : FinishShort(p)
  BY <1>7 DEF FinishShort, Remove, CallEnds, CallAt
<1>8. CASE \E p \in Procs : SignalExit(p)
  BY <1>8 DEF SignalExit, Terminate
<1>9. CASE \E p \in Procs : WatcherLocks(p)
  BY <1>9 DEF WatcherLocks
<1>10. CASE \E p \in Procs : EmitExecEnd(p)
  BY <1>10 DEF EmitExecEnd
<1>11. CASE \E p \in Procs : Refuse(p)
  BY <1>11 DEF Refuse, Fault, Remove, CallEnds, CallAt
<1>12. CASE \E p \in Procs : NoCommand(p)
  BY <1>12 DEF NoCommand, Fault, CallEnds, CallAt
<1>13. CASE \E p \in Procs : Abort(p)
  BY <1>13 DEF Abort, Fault, CallEnds, CallAt
<1>14. CASE \E p \in Procs : Exit(p)
  BY <1>14 DEF Exit
<1>15. CASE \E p \in Procs : NetworkDenial(p)
  BY <1>15 DEF NetworkDenial, Fault, FailAndTerminate
<1>16. CASE \E p \in Procs : OneShotStop(p)
  BY <1>16 DEF OneShotStop, Fault, Terminate, FailAndTerminate
<1>17. CASE \E w \in Writers : LockTerminal(w)
  BY <1>17 DEF LockTerminal, WriterAt, WriterEnds, Unlock
<1>18. CASE \E w \in Writers : PrepareProcessHandles(w)
  BY <1>18 DEF PrepareProcessHandles, WriterAt, WriterEnds, Unlock, Touch
<1>19. CASE \E w \in Writers : PollFailed(w)
  BY <1>19 DEF PollFailed, Remove, WriterAt, WriterEnds, Unlock
<1>20. CASE \E w \in Writers : Polled(w)
  BY <1>20 DEF Polled, Refresh, Remove, WriterAt, WriterEnds, Unlock
<1>21. CASE \E w \in Writers : LookUp(w)
  BY <1>21 DEF LookUp, WriterAt, Stored
<1>22. CASE \E w \in Writers : Rejected(w)
  BY <1>22 DEF Rejected, Fault, WriterAt, WriterEnds, Unlock
<1>23. CASE \E w \in Writers : WriteToUnknown(w)
  BY <1>23 DEF WriteToUnknown, Fault, Terminate, Settled, Remove, WriterAt, WriterEnds,
         Unlock
<1>24. CASE \E w \in Writers : WriteFails(w)
  BY <1>24 DEF WriteFails, Fault, Terminate, Settled, Remove, WriterAt, WriterEnds, Unlock
<1>25. CASE \E w \in Writers : AbortWrite(w)
  BY <1>25 DEF AbortWrite, Fault, WriterAt, WriterEnds, Unlock
<1>26. CASE \E i \in Ids : KillLookUp(i)
  BY <1>26 DEF KillLookUp, Fault
<1>27. CASE KillConfirmed
  BY <1>27 DEF KillConfirmed, Terminate
<1>28. CASE KillFails
  BY <1>28 DEF KillFails
<1>29. CASE KillRemove
  BY <1>29 DEF KillRemove, Remove
<1>30. CASE TerminateAll
  BY <1>30 DEF TerminateAll, Fault, Terminate, Stored
<1>31. CASE UNCHANGED execVars
  BY <1>31
<1>32. QED
  BY <1>1, <1>2, <1>3, <1>4, <1>5, <1>6, <1>7, <1>8, <1>9, <1>10, <1>11, <1>12, <1>13,
     <1>14, <1>15, <1>16, <1>17, <1>18, <1>19, <1>20, <1>21, <1>22, <1>23, <1>24, <1>25,
     <1>26, <1>27, <1>28, <1>29, <1>30, <1>31
  DEF ExecNext, TaskStep, CallStep, WatcherStep, WriterStep

(* Only a free lock is taken, and only its holder gives it up.                *)
LEMMA LockStep ==
  ASSUME ExecTypeOK, ExecTypeOK', LockInv,
         [ExecNext]_execVars
  PROVE  LockInv'
<1> USE ExecAssumption
    DEF ExecTypeOK, LockInv, Holding, execVars, store, execs, ending, writing
<1>1. CASE \E p \in Procs : AllocateProcessId(p)
  BY <1>1 DEF AllocateProcessId, CallAt
<1>2. CASE \E p \in Procs : OpenSession(p)
  BY <1>2 DEF OpenSession, CallAt
<1>3. CASE \E p \in Procs : ExitedEarly(p)
  BY <1>3 DEF ExitedEarly, CallAt
<1>4. CASE \E p \in Procs : StoreProcess(p)
  BY <1>4 DEF StoreProcess, CallAt, Touch, Terminate
<1>5. CASE \E p \in Procs : FinishFailed(p)
  BY <1>5 DEF FinishFailed, Remove, CallEnds, CallAt
<1>6. CASE \E p \in Procs : FinishStored(p)
  BY <1>6 DEF FinishStored, Refresh, Remove, CallEnds, CallAt
<1>7. CASE \E p \in Procs : FinishShort(p)
  BY <1>7 DEF FinishShort, Remove, CallEnds, CallAt
<1>8. CASE \E p \in Procs : SignalExit(p)
  BY <1>8 DEF SignalExit, Terminate
<1>9. CASE \E p \in Procs : WatcherLocks(p)
  BY <1>9 DEF WatcherLocks
<1>10. CASE \E p \in Procs : EmitExecEnd(p)
  BY <1>10 DEF EmitExecEnd
<1>11. CASE \E p \in Procs : Refuse(p)
  BY <1>11 DEF Refuse, Fault, Remove, CallEnds, CallAt
<1>12. CASE \E p \in Procs : NoCommand(p)
  BY <1>12 DEF NoCommand, Fault, CallEnds, CallAt
<1>13. CASE \E p \in Procs : Abort(p)
  BY <1>13 DEF Abort, Fault, CallEnds, CallAt
<1>14. CASE \E p \in Procs : Exit(p)
  BY <1>14 DEF Exit
<1>15. CASE \E p \in Procs : NetworkDenial(p)
  BY <1>15 DEF NetworkDenial, Fault, FailAndTerminate
<1>16. CASE \E p \in Procs : OneShotStop(p)
  BY <1>16 DEF OneShotStop, Fault, Terminate, FailAndTerminate
<1>17. CASE \E w \in Writers : LockTerminal(w)
  BY <1>17 DEF LockTerminal, WriterAt, WriterEnds, Unlock
<1>18. CASE \E w \in Writers : PrepareProcessHandles(w)
  BY <1>18 DEF PrepareProcessHandles, WriterAt, WriterEnds, Unlock, Touch
<1>19. CASE \E w \in Writers : PollFailed(w)
  BY <1>19 DEF PollFailed, Remove, WriterAt, WriterEnds, Unlock
<1>20. CASE \E w \in Writers : Polled(w)
  BY <1>20 DEF Polled, Refresh, Remove, WriterAt, WriterEnds, Unlock
<1>21. CASE \E w \in Writers : LookUp(w)
  BY <1>21 DEF LookUp, WriterAt, Stored
<1>22. CASE \E w \in Writers : Rejected(w)
  BY <1>22 DEF Rejected, Fault, WriterAt, WriterEnds, Unlock
<1>23. CASE \E w \in Writers : WriteToUnknown(w)
  BY <1>23 DEF WriteToUnknown, Fault, Terminate, Settled, Remove, WriterAt, WriterEnds,
         Unlock
<1>24. CASE \E w \in Writers : WriteFails(w)
  BY <1>24 DEF WriteFails, Fault, Terminate, Settled, Remove, WriterAt, WriterEnds, Unlock
<1>25. CASE \E w \in Writers : AbortWrite(w)
  BY <1>25 DEF AbortWrite, Fault, WriterAt, WriterEnds, Unlock
<1>26. CASE \E i \in Ids : KillLookUp(i)
  BY <1>26 DEF KillLookUp, Fault
<1>27. CASE KillConfirmed
  BY <1>27 DEF KillConfirmed, Terminate
<1>28. CASE KillFails
  BY <1>28 DEF KillFails
<1>29. CASE KillRemove
  BY <1>29 DEF KillRemove, Remove
<1>30. CASE TerminateAll
  BY <1>30 DEF TerminateAll, Fault, Terminate, Stored
<1>31. CASE UNCHANGED execVars
  BY <1>31
<1>32. QED
  BY <1>1, <1>2, <1>3, <1>4, <1>5, <1>6, <1>7, <1>8, <1>9, <1>10, <1>11, <1>12, <1>13,
     <1>14, <1>15, <1>16, <1>17, <1>18, <1>19, <1>20, <1>21, <1>22, <1>23, <1>24, <1>25,
     <1>26, <1>27, <1>28, <1>29, <1>30, <1>31
  DEF ExecNext, TaskStep, CallStep, WatcherStep, WriterStep

(* A lock is given up by every way in which its holder leaves. *)
LEMMA HeldStep ==
  ASSUME ExecTypeOK, ExecTypeOK', ProcInv, LockInv, HeldInv,
         [ExecNext]_execVars
  PROVE  HeldInv'
<1> USE ExecAssumption
    DEF ExecTypeOK, ProcInv, LockInv, HeldInv, Holding, execVars, store, execs, ending, writing
<1>1. CASE \E p \in Procs : AllocateProcessId(p)
  BY <1>1 DEF AllocateProcessId, CallAt
<1>2. CASE \E p \in Procs : OpenSession(p)
  BY <1>2 DEF OpenSession, CallAt
<1>3. CASE \E p \in Procs : ExitedEarly(p)
  BY <1>3 DEF ExitedEarly, CallAt
<1>4. CASE \E p \in Procs : StoreProcess(p)
  BY <1>4 DEF StoreProcess, CallAt, Touch, Terminate
<1>5. CASE \E p \in Procs : FinishFailed(p)
  BY <1>5 DEF FinishFailed, Remove, CallEnds, CallAt
<1>6. CASE \E p \in Procs : FinishStored(p)
  BY <1>6 DEF FinishStored, Refresh, Remove, CallEnds, CallAt
<1>7. CASE \E p \in Procs : FinishShort(p)
  BY <1>7 DEF FinishShort, Remove, CallEnds, CallAt
<1>8. CASE \E p \in Procs : SignalExit(p)
  BY <1>8 DEF SignalExit, Terminate
<1>9. CASE \E p \in Procs : WatcherLocks(p)
  BY <1>9 DEF WatcherLocks
<1>10. CASE \E p \in Procs : EmitExecEnd(p)
  BY <1>10 DEF EmitExecEnd
<1>11. CASE \E p \in Procs : Refuse(p)
  BY <1>11 DEF Refuse, Fault, Remove, CallEnds, CallAt
<1>12. CASE \E p \in Procs : NoCommand(p)
  BY <1>12 DEF NoCommand, Fault, CallEnds, CallAt
<1>13. CASE \E p \in Procs : Abort(p)
  BY <1>13 DEF Abort, Fault, CallEnds, CallAt
<1>14. CASE \E p \in Procs : Exit(p)
  BY <1>14 DEF Exit
<1>15. CASE \E p \in Procs : NetworkDenial(p)
  BY <1>15 DEF NetworkDenial, Fault, FailAndTerminate
<1>16. CASE \E p \in Procs : OneShotStop(p)
  BY <1>16 DEF OneShotStop, Fault, Terminate, FailAndTerminate
<1>17. CASE \E w \in Writers : LockTerminal(w)
  BY <1>17 DEF LockTerminal, WriterAt, WriterEnds, Unlock
<1>18. CASE \E w \in Writers : PrepareProcessHandles(w)
  BY <1>18 DEF PrepareProcessHandles, WriterAt, WriterEnds, Unlock, Touch
<1>19. CASE \E w \in Writers : PollFailed(w)
  BY <1>19 DEF PollFailed, Remove, WriterAt, WriterEnds, Unlock
<1>20. CASE \E w \in Writers : Polled(w)
  BY <1>20 DEF Polled, Refresh, Remove, WriterAt, WriterEnds, Unlock
<1>21. CASE \E w \in Writers : LookUp(w)
  BY <1>21 DEF LookUp, WriterAt, Stored
<1>22. CASE \E w \in Writers : Rejected(w)
  BY <1>22 DEF Rejected, Fault, WriterAt, WriterEnds, Unlock
<1>23. CASE \E w \in Writers : WriteToUnknown(w)
  BY <1>23 DEF WriteToUnknown, Fault, Terminate, Settled, Remove, WriterAt, WriterEnds,
         Unlock
<1>24. CASE \E w \in Writers : WriteFails(w)
  BY <1>24 DEF WriteFails, Fault, Terminate, Settled, Remove, WriterAt, WriterEnds, Unlock
<1>25. CASE \E w \in Writers : AbortWrite(w)
  BY <1>25 DEF AbortWrite, Fault, WriterAt, WriterEnds, Unlock
<1>26. CASE \E i \in Ids : KillLookUp(i)
  BY <1>26 DEF KillLookUp, Fault
<1>27. CASE KillConfirmed
  BY <1>27 DEF KillConfirmed, Terminate
<1>28. CASE KillFails
  BY <1>28 DEF KillFails
<1>29. CASE KillRemove
  BY <1>29 DEF KillRemove, Remove
<1>30. CASE TerminateAll
  BY <1>30 DEF TerminateAll, Fault, Terminate, Stored
<1>31. CASE UNCHANGED execVars
  BY <1>31
<1>32. QED
  BY <1>1, <1>2, <1>3, <1>4, <1>5, <1>6, <1>7, <1>8, <1>9, <1>10, <1>11, <1>12, <1>13,
     <1>14, <1>15, <1>16, <1>17, <1>18, <1>19, <1>20, <1>21, <1>22, <1>23, <1>24, <1>25,
     <1>26, <1>27, <1>28, <1>29, <1>30, <1>31
  DEF ExecNext, TaskStep, CallStep, WatcherStep, WriterStep

(* A call publishes only without a watcher, and then it is done.              *)
LEMMA EndStep ==
  ASSUME ExecTypeOK, ExecTypeOK', ProcInv, EndInv,
         [ExecNext]_execVars
  PROVE  EndInv'
<1> USE ExecAssumption
    DEF ExecTypeOK, ProcInv, EndInv, Calls, execVars, store, execs, ending, writing
<1>1. CASE \E p \in Procs : AllocateProcessId(p)
  BY <1>1 DEF AllocateProcessId, CallAt
<1>2. CASE \E p \in Procs : OpenSession(p)
  BY <1>2 DEF OpenSession, CallAt
<1>3. CASE \E p \in Procs : ExitedEarly(p)
  BY <1>3 DEF ExitedEarly, CallAt
<1>4. CASE \E p \in Procs : StoreProcess(p)
  BY <1>4 DEF StoreProcess, CallAt, Touch, Terminate
<1>5. CASE \E p \in Procs : FinishFailed(p)
  BY <1>5 DEF FinishFailed, Remove, CallEnds, CallAt
<1>6. CASE \E p \in Procs : FinishStored(p)
  BY <1>6 DEF FinishStored, Refresh, Remove, CallEnds, CallAt
<1>7. CASE \E p \in Procs : FinishShort(p)
  BY <1>7 DEF FinishShort, Remove, CallEnds, CallAt
<1>8. CASE \E p \in Procs : SignalExit(p)
  BY <1>8 DEF SignalExit, Terminate
<1>9. CASE \E p \in Procs : WatcherLocks(p)
  BY <1>9 DEF WatcherLocks
<1>10. CASE \E p \in Procs : EmitExecEnd(p)
  BY <1>10 DEF EmitExecEnd
<1>11. CASE \E p \in Procs : Refuse(p)
  BY <1>11 DEF Refuse, Fault, Remove, CallEnds, CallAt
<1>12. CASE \E p \in Procs : NoCommand(p)
  BY <1>12 DEF NoCommand, Fault, CallEnds, CallAt
<1>13. CASE \E p \in Procs : Abort(p)
  BY <1>13 DEF Abort, Fault, CallEnds, CallAt
<1>14. CASE \E p \in Procs : Exit(p)
  BY <1>14 DEF Exit
<1>15. CASE \E p \in Procs : NetworkDenial(p)
  BY <1>15 DEF NetworkDenial, Fault, FailAndTerminate
<1>16. CASE \E p \in Procs : OneShotStop(p)
  BY <1>16 DEF OneShotStop, Fault, Terminate, FailAndTerminate
<1>17. CASE \E w \in Writers : LockTerminal(w)
  BY <1>17 DEF LockTerminal, WriterAt, WriterEnds, Unlock
<1>18. CASE \E w \in Writers : PrepareProcessHandles(w)
  BY <1>18 DEF PrepareProcessHandles, WriterAt, WriterEnds, Unlock, Touch
<1>19. CASE \E w \in Writers : PollFailed(w)
  BY <1>19 DEF PollFailed, Remove, WriterAt, WriterEnds, Unlock
<1>20. CASE \E w \in Writers : Polled(w)
  BY <1>20 DEF Polled, Refresh, Remove, WriterAt, WriterEnds, Unlock
<1>21. CASE \E w \in Writers : LookUp(w)
  BY <1>21 DEF LookUp, WriterAt, Stored
<1>22. CASE \E w \in Writers : Rejected(w)
  BY <1>22 DEF Rejected, Fault, WriterAt, WriterEnds, Unlock
<1>23. CASE \E w \in Writers : WriteToUnknown(w)
  BY <1>23 DEF WriteToUnknown, Fault, Terminate, Settled, Remove, WriterAt, WriterEnds,
         Unlock
<1>24. CASE \E w \in Writers : WriteFails(w)
  BY <1>24 DEF WriteFails, Fault, Terminate, Settled, Remove, WriterAt, WriterEnds, Unlock
<1>25. CASE \E w \in Writers : AbortWrite(w)
  BY <1>25 DEF AbortWrite, Fault, WriterAt, WriterEnds, Unlock
<1>26. CASE \E i \in Ids : KillLookUp(i)
  BY <1>26 DEF KillLookUp, Fault
<1>27. CASE KillConfirmed
  BY <1>27 DEF KillConfirmed, Terminate
<1>28. CASE KillFails
  BY <1>28 DEF KillFails
<1>29. CASE KillRemove
  BY <1>29 DEF KillRemove, Remove
<1>30. CASE TerminateAll
  BY <1>30 DEF TerminateAll, Fault, Terminate, Stored
<1>31. CASE UNCHANGED execVars
  BY <1>31
<1>32. QED
  BY <1>1, <1>2, <1>3, <1>4, <1>5, <1>6, <1>7, <1>8, <1>9, <1>10, <1>11, <1>12, <1>13,
     <1>14, <1>15, <1>16, <1>17, <1>18, <1>19, <1>20, <1>21, <1>22, <1>23, <1>24, <1>25,
     <1>26, <1>27, <1>28, <1>29, <1>30, <1>31
  DEF ExecNext, TaskStep, CallStep, WatcherStep, WriterStep

(* Ids of calls never change, and a process that has ended never runs again.  *)
LEMMA TableStep ==
  ASSUME ExecTypeOK, ExecTypeOK', ProcInv, LockInv, TableInv,
         [ExecNext]_execVars
  PROVE  TableInv'
<1> USE ExecAssumption
    DEF ExecTypeOK, ProcInv, LockInv, TableInv, Calls, Holding, HasExited,
        execVars, store, execs, ending, writing
<1>1. CASE \E p \in Procs : AllocateProcessId(p)
  BY <1>1 DEF AllocateProcessId, CallAt
<1>2. CASE \E p \in Procs : OpenSession(p)
  BY <1>2 DEF OpenSession, CallAt
<1>3. CASE \E p \in Procs : ExitedEarly(p)
  BY <1>3 DEF ExitedEarly, CallAt
<1>4. CASE \E p \in Procs : StoreProcess(p)
  BY <1>4 DEF StoreProcess, CallAt, Touch, Terminate
<1>5. CASE \E p \in Procs : FinishFailed(p)
  BY <1>5 DEF FinishFailed, Remove, CallEnds, CallAt
<1>6. CASE \E p \in Procs : FinishStored(p)
  BY <1>6 DEF FinishStored, Refresh, Remove, CallEnds, CallAt
<1>7. CASE \E p \in Procs : FinishShort(p)
  BY <1>7 DEF FinishShort, Remove, CallEnds, CallAt
<1>8. CASE \E p \in Procs : SignalExit(p)
  BY <1>8 DEF SignalExit, Terminate
<1>9. CASE \E p \in Procs : WatcherLocks(p)
  BY <1>9 DEF WatcherLocks
<1>10. CASE \E p \in Procs : EmitExecEnd(p)
  BY <1>10 DEF EmitExecEnd
<1>11. CASE \E p \in Procs : Refuse(p)
  BY <1>11 DEF Refuse, Fault, Remove, CallEnds, CallAt
<1>12. CASE \E p \in Procs : NoCommand(p)
  BY <1>12 DEF NoCommand, Fault, CallEnds, CallAt
<1>13. CASE \E p \in Procs : Abort(p)
  BY <1>13 DEF Abort, Fault, CallEnds, CallAt
<1>14. CASE \E p \in Procs : Exit(p)
  BY <1>14 DEF Exit
<1>15. CASE \E p \in Procs : NetworkDenial(p)
  BY <1>15 DEF NetworkDenial, Fault, FailAndTerminate
<1>16. CASE \E p \in Procs : OneShotStop(p)
  BY <1>16 DEF OneShotStop, Fault, Terminate, FailAndTerminate
<1>17. CASE \E w \in Writers : LockTerminal(w)
  BY <1>17 DEF LockTerminal, WriterAt, WriterEnds, Unlock
<1>18. CASE \E w \in Writers : PrepareProcessHandles(w)
  BY <1>18 DEF PrepareProcessHandles, WriterAt, WriterEnds, Unlock, Touch
<1>19. CASE \E w \in Writers : PollFailed(w)
  BY <1>19 DEF PollFailed, Remove, WriterAt, WriterEnds, Unlock
<1>20. CASE \E w \in Writers : Polled(w)
  BY <1>20 DEF Polled, Refresh, Remove, WriterAt, WriterEnds, Unlock
<1>21. CASE \E w \in Writers : LookUp(w)
  BY <1>21 DEF LookUp, WriterAt, Stored
<1>22. CASE \E w \in Writers : Rejected(w)
  BY <1>22 DEF Rejected, Fault, WriterAt, WriterEnds, Unlock
<1>23. ASSUME NEW w \in Writers, WriteToUnknown(w) PROVE TableInv'
  <2>1. CASE Settled(w)
    BY <1>23, <2>1 DEF WriteToUnknown, Fault, Terminate, Settled, Remove, WriterAt
  <2>2. CASE WriterEnds(w) /\ UNCHANGED store
    BY <1>23, <2>2 DEF WriteToUnknown, Fault, Terminate, WriterAt, WriterEnds, Unlock
  <2>3. QED
    BY <1>23, <2>1, <2>2 DEF WriteToUnknown
<1>24. CASE \E w \in Writers : WriteFails(w)
  BY <1>24 DEF WriteFails, Fault, Terminate, Settled, Remove, WriterAt, WriterEnds, Unlock
<1>25. CASE \E w \in Writers : AbortWrite(w)
  BY <1>25 DEF AbortWrite, Fault, WriterAt, WriterEnds, Unlock
<1>26. CASE \E i \in Ids : KillLookUp(i)
  BY <1>26 DEF KillLookUp, Fault
<1>27. CASE KillConfirmed
  BY <1>27 DEF KillConfirmed, Terminate
<1>28. CASE KillFails
  BY <1>28 DEF KillFails
<1>29. CASE KillRemove
  BY <1>29 DEF KillRemove, Remove
<1>30. CASE TerminateAll
  BY <1>30 DEF TerminateAll, Fault, Terminate, Stored
<1>31. CASE UNCHANGED execVars
  BY <1>31
<1>32. QED
  BY <1>1, <1>2, <1>3, <1>4, <1>5, <1>6, <1>7, <1>8, <1>9, <1>10, <1>11, <1>12, <1>13,
     <1>14, <1>15, <1>16, <1>17, <1>18, <1>19, <1>20, <1>21, <1>22, <1>23, <1>24, <1>25,
     <1>26, <1>27, <1>28, <1>29, <1>30, <1>31
  DEF ExecNext, TaskStep, CallStep, WatcherStep, WriterStep

(* Whoever removes a running process from under its own id terminates it.     *)
LEMMA NoOrphanStep ==
  ASSUME ExecTypeOK, ExecTypeOK', ProcInv, LockInv, TableInv, NoOrphan,
         [ExecNext]_execVars
  PROVE  NoOrphan'
<1> USE ExecAssumption
    DEF ExecTypeOK, ProcInv, LockInv, TableInv, NoOrphan, Calls, Holding, HasExited,
        execVars, store, execs, ending, writing
<1>1. CASE \E p \in Procs : AllocateProcessId(p)
  BY <1>1 DEF AllocateProcessId, CallAt
<1>2. CASE \E p \in Procs : OpenSession(p)
  BY <1>2 DEF OpenSession, CallAt
<1>3. CASE \E p \in Procs : ExitedEarly(p)
  BY <1>3 DEF ExitedEarly, CallAt
<1>4. CASE \E p \in Procs : StoreProcess(p)
  BY <1>4 DEF StoreProcess, CallAt, Touch, Terminate
<1>5. CASE \E p \in Procs : FinishFailed(p)
  BY <1>5 DEF FinishFailed, Remove, CallEnds, CallAt
<1>6. CASE \E p \in Procs : FinishStored(p)
  BY <1>6 DEF FinishStored, Refresh, Remove, CallEnds, CallAt
<1>7. CASE \E p \in Procs : FinishShort(p)
  BY <1>7 DEF FinishShort, Remove, CallEnds, CallAt
<1>8. CASE \E p \in Procs : SignalExit(p)
  BY <1>8 DEF SignalExit, Terminate
<1>9. CASE \E p \in Procs : WatcherLocks(p)
  BY <1>9 DEF WatcherLocks
<1>10. CASE \E p \in Procs : EmitExecEnd(p)
  BY <1>10 DEF EmitExecEnd
<1>11. CASE \E p \in Procs : Refuse(p)
  BY <1>11 DEF Refuse, Fault, Remove, CallEnds, CallAt
<1>12. CASE \E p \in Procs : NoCommand(p)
  BY <1>12 DEF NoCommand, Fault, CallEnds, CallAt
<1>13. CASE \E p \in Procs : Abort(p)
  BY <1>13 DEF Abort, Fault, CallEnds, CallAt
<1>14. CASE \E p \in Procs : Exit(p)
  BY <1>14 DEF Exit
<1>15. CASE \E p \in Procs : NetworkDenial(p)
  BY <1>15 DEF NetworkDenial, Fault, FailAndTerminate
<1>16. CASE \E p \in Procs : OneShotStop(p)
  BY <1>16 DEF OneShotStop, Fault, Terminate, FailAndTerminate
<1>17. CASE \E w \in Writers : LockTerminal(w)
  BY <1>17 DEF LockTerminal, WriterAt, WriterEnds, Unlock
<1>18. CASE \E w \in Writers : PrepareProcessHandles(w)
  BY <1>18 DEF PrepareProcessHandles, WriterAt, WriterEnds, Unlock, Touch
<1>19. CASE \E w \in Writers : PollFailed(w)
  BY <1>19 DEF PollFailed, Remove, WriterAt, WriterEnds, Unlock
<1>20. CASE \E w \in Writers : Polled(w)
  BY <1>20 DEF Polled, Refresh, Remove, WriterAt, WriterEnds, Unlock
<1>21. CASE \E w \in Writers : LookUp(w)
  BY <1>21 DEF LookUp, WriterAt, Stored
<1>22. CASE \E w \in Writers : Rejected(w)
  BY <1>22 DEF Rejected, Fault, WriterAt, WriterEnds, Unlock
<1>23. CASE \E w \in Writers : WriteToUnknown(w)
  BY <1>23 DEF WriteToUnknown, Fault, Terminate, Settled, Remove, WriterAt, WriterEnds,
         Unlock
<1>24. CASE \E w \in Writers : WriteFails(w)
  BY <1>24 DEF WriteFails, Fault, Terminate, Settled, Remove, WriterAt, WriterEnds, Unlock
<1>25. CASE \E w \in Writers : AbortWrite(w)
  BY <1>25 DEF AbortWrite, Fault, WriterAt, WriterEnds, Unlock
<1>26. CASE \E i \in Ids : KillLookUp(i)
  BY <1>26 DEF KillLookUp, Fault
<1>27. CASE KillConfirmed
  BY <1>27 DEF KillConfirmed, Terminate
<1>28. CASE KillFails
  BY <1>28 DEF KillFails
<1>29. CASE KillRemove
  BY <1>29 DEF KillRemove, Remove
<1>30. CASE TerminateAll
  BY <1>30 DEF TerminateAll, Fault, Terminate, Stored
<1>31. CASE UNCHANGED execVars
  BY <1>31
<1>32. QED
  BY <1>1, <1>2, <1>3, <1>4, <1>5, <1>6, <1>7, <1>8, <1>9, <1>10, <1>11, <1>12, <1>13,
     <1>14, <1>15, <1>16, <1>17, <1>18, <1>19, <1>20, <1>21, <1>22, <1>23, <1>24, <1>25,
     <1>26, <1>27, <1>28, <1>29, <1>30, <1>31
  DEF ExecNext, TaskStep, CallStep, WatcherStep, WriterStep

----------------------------------------------------------------------------
(* The table starts empty, and every layer holds of it.                       *)
LEMMA ExecInvInit == ExecInit => ExecInv
BY ExecAssumption DEF ExecInit, ExecInv, ExecTypeOK, ProcInv, LockInv, HeldInv, EndInv, TableInv,
                      NoOrphan,
                      Calls, States, Holding

(* All layers together are inductive. *)
THEOREM ExecInvariant == ExecSpec => []ExecInv
<1>1. ExecInv /\ [ExecNext]_execVars => ExecInv'
  BY TypeStep, ProcStep, LockStep, HeldStep, EndStep, TableStep, NoOrphanStep DEF ExecInv
<1>2. QED
  BY ExecInvInit, <1>1, PTL DEF ExecSpec

(* Table, calls, locks and watchers keep their types, and an initial exec     *)
(* command is marked active only while its call waits (exec_command_inner,    *)
(* InitialExecCommandGuard).                                                  *)
THEOREM ExecTypeCorrect == ExecSpec => []ExecTypeOK
<1>1. ExecInv => ExecTypeOK
  BY DEF ExecInv
<1>2. QED
  BY ExecInvariant, <1>1, PTL

(* Terminal input reaches the process that was reviewed, under its lock, for  *)
(* any number of writers and any reuse of ids (write_stdin).                  *)
THEOREM InputReachesReviewed == ExecSpec => []ApprovedTerminal
<1>1. ExecInv => ApprovedTerminal
  BY DEF ExecInv, LockInv, ApprovedTerminal, Holding
<1>2. QED
  BY ExecInvariant, <1>1, PTL

(* No stored process that runs is lost from the table, unless its id was      *)
(* drawn for two calls (terminate_process, release_process_id, store_process).*)
THEOREM NothingOrphaned == ExecSpec => []NoOrphan
<1>1. ExecInv => NoOrphan
  BY DEF ExecInv
<1>2. QED
  BY ExecInvariant, <1>1, PTL

(* The watcher and the call never both publish the end of a process           *)
(* (emit_failed_initial_exec_end_if_unstored, spawn_exit_watcher).            *)
THEOREM EndsOnce == ExecSpec => []OneEndEvent
<1>1. ExecInv => OneEndEvent
  BY DEF ExecInv, EndInv, OneEndEvent
<1>2. QED
  BY ExecInvariant, <1>1, PTL

(* Nothing keeps the lock from the watcher that has an end to publish, and a  *)
(* watcher that is over has published it, for any number of writers, drops    *)
(* and failures (spawn_exit_watcher, write_stdin).                            *)
THEOREM EndsPublished == ExecSpec => []EndPublished
<1>1. ExecInv => EndPublished
  BY DEF ExecInv, ExecTypeOK, HeldInv, EndInv, EndPublished
<1>2. QED
  BY ExecInvariant, <1>1, PTL

(* Eviction takes nothing that is in use, and a live process only if none     *)
(* that may be evicted has exited, for every cap and every protected number   *)
(* (prune_processes_if_needed).                                               *)
THEOREM EvictsInOrder == ExecSpec => EvictionOrder
<1> DEFINE Order == \A p \in Procs : StoreProcess(p) =>
                      \A i \in Stored \ {pid[p]} : processes'[i] = None =>
                        /\ interaction_lock[processes[i]] = None
                        /\ state[processes[i]] = "running" => Exited(Unprotected) = {}
<1>1. ASSUME ExecTypeOK PROVE Order
  <2> SUFFICES ASSUME NEW p \in Procs, StoreProcess(p),
                      NEW i \in Stored \ {pid[p]}, processes'[i] = None
               PROVE  /\ interaction_lock[processes[i]] = None
                      /\ state[processes[i]] = "running" => Exited(Unprotected) = {}
    OBVIOUS
  <2>1. i \in ToPrune
    BY ExecAssumption DEF StoreProcess, Stored
  <2>2. CASE Exited(Unprotected) # {}
    <3>1. i \in Unlocked(Exited(Unprotected))
      BY <2>1, <2>2 DEF ToPrune, Oldest
    <3>2. QED
      BY <3>1 DEF Unlocked, Exited, HasExited
  <2>3. CASE Exited(Unprotected) = {}
    BY <2>1, <2>3 DEF ToPrune, Oldest, Unlocked
  <2>4. QED
    BY <2>2, <2>3
<1>2. ExecInv => ExecTypeOK
  BY DEF ExecInv
<1>3. QED
  BY ExecInvariant, <1>1, <1>2, PTL DEF EvictionOrder
=============================================================================
