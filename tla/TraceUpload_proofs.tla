------------------------- MODULE TraceUpload_proofs -------------------------
(* Proofs about TraceUpload, for any number of launchers, bundles, handlers   *)
(* and interruptions, and any length of time.                                 *)
EXTENDS TraceUpload, TraceIngest_proofs, WellFoundedInduction

(* The points at which a sync has a bundle in hand, and has hashed it.        *)
Hashed == {"post", "created", "parts", "put", "completed", "marker", "remove"}
InHand == {"archive", "hash"} \cup Hashed

(* The sync works on a rollout that has ended, with consent, and on an        *)
(* archive that it has; an open archive that is still linked is in the cache. *)
SyncInv(p) ==
  /\ proc[p].at \notin {"idle", "untraced"} => consent
  /\ proc[p].at \in InHand => proc[p].todo # {} /\ bundle[Current(p)] = "ended"
  /\ proc[p].at = "archive" => stamp[Current(p)] # None
  /\ proc[p].at \in Hashed => proc[p].sha # None
  /\ proc[p].at \in {"parts", "put", "completed"} => proc[p].file # None
  /\ proc[p].file = Linked => proc[p].at \in Hashed /\ cache[Current(p)] # None

LauncherInv == \A p \in Launchers : SyncInv(p)

(* The request that a launcher makes at each point where it waits.            *)
Asks(at) == CASE at = "created" -> "create" [] at = "put" -> "part" [] OTHER -> "complete"

(* A launcher that waits is served by a handler of its own.                   *)
CallInv ==
  /\ \A p \in Launchers :
       proc[p].call # None =>
         /\ proc[p].at \in {"created", "put", "completed"}
         /\ pc[proc[p].call] # "idle"
         /\ req[proc[p].call].trace = Current(p)
         /\ req[proc[p].call].op = Asks(proc[p].at)
  /\ \A p, q \in Launchers : proc[p].call # None /\ proc[p].call = proc[q].call => p = q

Complete(t) == sessions[t] # None /\ sessions[t].status = "complete"

(* What a request in service stands for.  No launcher deletes, so a session   *)
(* that was read is still there, and "complete" is true when it is answered.  *)
ServiceInv ==
  \A h \in Handlers :
    pc[h] # "idle" =>
      /\ req[h].op \in {"create", "part", "complete"}
      /\ consent /\ bundle[req[h].trace] = "ended"
      /\ pc[h] \in {"parts", "patch"} => sessions[req[h].trace] # None
      /\ pc[h] = "done" /\ resp[h] = "complete" => Complete(req[h].trace)
      /\ pc[h] = "done" /\ req[h].op = "complete" => resp[h] \in {"complete", "error"}

(* The marker is about to be written only for a completed upload.             *)
MarkerInv ==
  /\ MarkerMeansComplete
  /\ \A p \in Launchers : At(p, "marker") => Complete(Current(p))

UploadInv ==
  TypeInv /\ UploadTypeOK /\ LauncherInv /\ CallInv /\ ServiceInv /\ MarkerInv
    /\ UploadOnlyFinished

----------------------------------------------------------------------------
(* The sync takes its bundles in the order of their names: there is a least.  *)
LEMMA LeastTrace ==
  ASSUME NEW S \in SUBSET Traces, S # {}
  PROVE  Min(S) \in S
<1>1. S \subseteq Nat
  BY TraceUploadAssumption
<1> DEFINE Less == OpToRel(<, Nat)
<1>2. \E x \in S : \A y \in S : ~(<<y, x>> \in Less)
  BY <1>1, WFMin, NatLessThanWellFounded
<1>3. \A x, y \in S : <<y, x>> \in Less <=> y < x
  BY <1>1 DEF OpToRel
<1> HIDE DEF Less
<1>4. \E x \in S : \A y \in S : x =< y
  <2>1. PICK x \in S : \A y \in S : ~(<<y, x>> \in Less)
    BY <1>2
  <2>2. \A y \in S : ~(y < x)
    BY <1>3, <2>1
  <2>3. QED
    BY <1>1, <2>2
<1>5. QED
  BY <1>4 DEF Min

(* The bundle in hand is one of the spool's.                                  *)
LEMMA CurrentType ==
  ASSUME UploadTypeOK, NEW p \in Launchers, proc[p].todo # {}
  PROVE  Current(p) \in Traces
<1>1. proc[p].todo \in SUBSET Traces
  BY DEF UploadTypeOK, Launcher
<1>2. QED
  BY <1>1, LeastTrace DEF Current

(* A part that is sent has a number that the archive has.                     *)
LEMMA PartNumberSent ==
  ASSUME NEW v \in Versions, NEW n \in Nat, n < PartCount(v)
  PROVE  n \in PartNumbers
<1>1. PartCount(v) \in Int
  BY TraceIngestAssumption DEF PartCount
<1>2. n \in 0 .. PartCount(v) - 1
  BY <1>1
<1>3. QED
  BY <1>2 DEF PartNumbers

----------------------------------------------------------------------------
(* What a launcher reads from its archive is one version of it.               *)
LEMMA ContentsType ==
  ASSUME UploadTypeOK, LauncherInv, NEW p \in Launchers,
         proc[p].at \in {"parts", "put", "completed"}
  PROVE  Contents(p) \in Versions
<1>1. /\ proc[p].todo # {} /\ proc[p].file # None
      /\ proc[p].file = Linked => cache[Current(p)] # None
  BY DEF LauncherInv, SyncInv, InHand, Hashed
<1>2. Current(p) \in Traces
  BY <1>1, CurrentType
<1>3. /\ proc[p].file \in Versions \cup {None, Linked}
      /\ cache[Current(p)] \in Versions \cup {None}
  BY <1>2 DEF UploadTypeOK, Launcher
<1>4. QED
  BY <1>1, <1>3 DEF Contents

(* Launchers only send requests that the function is made for.                *)
LEMMA SendIsRequest ==
  ASSUME UploadTypeOK, LauncherInv, NEW p \in Launchers, NEW h \in Handlers,
         PostSession(p, h) \/ PutPart(p, h) \/ PostComplete(p, h)
  PROVE  \E r \in Request :
           /\ Receive(h, r)
           /\ r.trace = Current(p)
           /\ r.op \in {"create", "part", "complete"}
           /\ proc[p].call = None
           /\ proc[p].at \in Hashed
           /\ \E l \in {"created", "put", "completed"} :
                /\ r.op = Asks(l) /\ (l = "created" \/ proc[p].at = "parts")
                /\ proc' = [proc EXCEPT ![p].at = l, ![p].call = h]
           /\ UNCHANGED <<disk, clock, faults>>
<1>1. proc[p].at \in Hashed /\ proc[p].todo # {}
  BY DEF PostSession, PutPart, PostComplete, At, LauncherInv, SyncInv, InHand, Hashed
<1>2. Current(p) \in Traces
  BY <1>1, CurrentType
<1>3. CASE PostSession(p, h)
  <2>1. proc[p].sha \in Versions
    BY <1>1 DEF LauncherInv, SyncInv, UploadTypeOK, Launcher
  <2>2. PICK l \in Logins :
          Send(p, h, [op |-> "create", login |-> l, trace |-> Current(p),
                      ver |-> proc[p].sha], "created")
    BY <1>3 DEF PostSession
  <2> DEFINE r == [op |-> "create", login |-> l, trace |-> Current(p), ver |-> proc[p].sha]
  <2>3. r \in Request
    BY <1>2, <2>1 DEF Request
  <2>4. QED
    BY <1>1, <2>2, <2>3 DEF Send, Asks
<1>4. CASE PutPart(p, h)
  <2>1. Contents(p) \in Versions
    BY <1>4, ContentsType DEF PutPart, At
  <2>2. proc[p].part \in PartNumbers
    BY <1>4, <2>1, PartNumberSent DEF PutPart, UploadTypeOK, Launcher
  <2>3. PICK l \in Logins :
          Send(p, h, [op |-> "part", login |-> l, trace |-> Current(p),
                      ver |-> Contents(p), part |-> proc[p].part, intact |-> TRUE], "put")
    BY <1>4 DEF PutPart
  <2> DEFINE r == [op |-> "part", login |-> l, trace |-> Current(p),
                   ver |-> Contents(p), part |-> proc[p].part, intact |-> TRUE]
  <2>4. r \in Request
    BY <1>2, <2>1, <2>2 DEF Request
  <2>5. QED
    BY <1>1, <1>4, <2>3, <2>4 DEF Send, Asks, PutPart, At
<1>5. CASE PostComplete(p, h)
  <2>1. PICK l \in Logins :
          Send(p, h, [op |-> "complete", login |-> l, trace |-> Current(p)], "completed")
    BY <1>5 DEF PostComplete
  <2> DEFINE r == [op |-> "complete", login |-> l, trace |-> Current(p)]
  <2>2. r \in Request
    BY <1>2 DEF Request
  <2>3. QED
    BY <1>1, <1>5, <2>1, <2>2 DEF Send, Asks, PostComplete, At
<1>6. QED
  BY <1>3, <1>4, <1>5

(* What one call of a handler does to the requests and to the sessions.       *)
LEMMA HandleStep ==
  ASSUME TypeInv, ServiceInv, NEW h \in Handlers, Handle(h) \/ HandlerFails(h)
  PROVE  /\ req' = req /\ pc[h] # "idle" /\ pc'[h] # "idle"
         /\ \A g \in Handlers : g # h => pc'[g] = pc[g] /\ resp'[g] = resp[g]
         /\ \A t \in Traces : sessions[t] # None => sessions'[t] # None
         /\ \A t \in Traces : Complete(t) => Complete(t)'
         /\ \A t \in Traces : sessions'[t] # None => sessions[t] # None \/ t = req[h].trace
         /\ pc'[h] \in {"parts", "patch"} => sessions'[req[h].trace] # None
         /\ pc'[h] = "done" /\ resp'[h] = "complete" => Complete(req[h].trace)'
         /\ pc'[h] = "done" /\ req[h].op = "complete" => resp'[h] \in {"complete", "error"}
         /\ UNCHANGED <<disk, clock, proc>>
<1>1. TypeOK /\ Busy
  BY DEF TypeInv
<1>2. pc[h] # "idle"
  BY DEF Handle, HandlerFails, Authenticate, CreateSession, UploadPart, CompleteSession,
         CreateRead, CreateConsent, CreateUpsert, PartRead, PartStore, PartRow, CompleteRead,
         CompleteParts, CompletePatch, Serving, Fail
<1>3. req[h] \in Request /\ req[h].op \in {"create", "part", "complete"}
  BY <1>1, <1>2 DEF Busy, ServiceInv
<1>4. req[h].trace \in Traces
  BY <1>3, RequestFields
<1>5. sessions \in [Traces -> Session \cup {None}] /\ None \notin Session
  BY <1>1, NoneIsNoValue DEF TypeOK
<1>6. pc[h] = "patch" => sessions[req[h].trace] # None
  BY <1>2 DEF ServiceInv
<1>7. /\ pc \in [Handlers -> {"idle", "auth", "read", "consent", "insert", "store",
                          "row", "parts", "patch", "list", "objects", "remove", "done"}]
      /\ resp \in [Handlers -> Responses \cup {None}]
  BY <1>1 DEF TypeOK
<1> USE <1>2, <1>3, <1>4, <1>5, <1>7 DEF Complete, Serving, Respond, Goto, store, Session
<1>8. CASE HandlerFails(h)
  BY <1>8 DEF HandlerFails, Fail
<1>9. CASE Handle(h)
  <2>1. CASE Authenticate(h)
    BY <1>9, <2>1 DEF Authenticate, Handle
  <2>2. CASE CreateRead(h)
    BY <1>9, <2>2 DEF CreateRead, Handle
  <2>3. CASE CreateConsent(h)
    BY <1>9, <2>3 DEF CreateConsent, Handle
  <2>4. CASE CreateUpsert(h)
    <3>1. [login |-> req[h].login, ver |-> req[h].ver, status |-> "uploading"] \in Session
      BY <2>4, RequestFields DEF CreateUpsert
    <3>2. CASE UpsertViolatesCheck(sessions[req[h].trace])
      BY <1>9, <2>4, <3>2 DEF CreateUpsert, Handle
    <3>3. CASE ~UpsertViolatesCheck(sessions[req[h].trace])
      <4>1. /\ sessions' = [sessions EXCEPT ![req[h].trace] =
                 [login |-> req[h].login, ver |-> req[h].ver, status |-> "uploading"]]
            /\ ~Complete(req[h].trace) /\ req[h].op = "create"
            /\ resp' = [resp EXCEPT ![h] = "uploading"] /\ pc' = [pc EXCEPT ![h] = "done"]
            /\ req' = req /\ UNCHANGED <<disk, clock, proc>>
        BY <1>9, <2>4, <3>3 DEF CreateUpsert, Handle, UpsertViolatesCheck
      <4>2. QED
        BY <3>1, <4>1
    <3>4. QED
      BY <3>2, <3>3
  <2>5. CASE PartRead(h)
    BY <1>9, <2>5 DEF PartRead, Handle
  <2>6. CASE PartStore(h)
    BY <1>9, <2>6 DEF PartStore, Handle
  <2>7. CASE PartRow(h)
    BY <1>9, <2>7 DEF PartRow, Handle
  <2>8. CASE CompleteRead(h)
    BY <1>9, <2>8 DEF CompleteRead, Owned, Handle
  <2>9. CASE CompleteParts(h)
    BY <1>9, <2>9, <1>6 DEF CompleteParts, Handle, ServiceInv
  <2>10. CASE CompletePatch(h)
    BY <1>9, <2>10, <1>6 DEF CompletePatch, Handle
  <2>11. QED
    BY <1>9, <2>1, <2>2, <2>3, <2>4, <2>5, <2>6, <2>7, <2>8, <2>9, <2>10
       DEF Handle, CreateSession, UploadPart, CompleteSession
<1>10. QED
  BY <1>8, <1>9

----------------------------------------------------------------------------
(* The launchers after one of them has replaced its locals.                   *)
LEMMA Update ==
  ASSUME UploadTypeOK, NEW p \in Launchers, NEW r \in Launcher,
         proc' = [proc EXCEPT ![p] = r]
  PROVE  /\ proc' \in [Launchers -> Launcher]
         /\ proc'[p] = r
         /\ \A q \in Launchers : q # p => proc'[q] = proc[q]
BY DEF UploadTypeOK

(* What a launcher's step may do to the spool: consent and ended rollouts     *)
(* stay, and so do time stamps and archives.                                  *)
Grows ==
  /\ consent => consent'
  /\ \A t \in Traces : bundle[t] = "ended" => bundle'[t] = "ended"
  /\ \A t \in Traces : stamp[t] # None => stamp'[t] # None
  /\ \A t \in Traces : cache[t] # None => cache'[t] # None

(* Then the other launchers are not disturbed.                                *)
LEMMA OthersUndisturbed ==
  ASSUME UploadTypeOK, LauncherInv, Grows, NEW p \in Launchers,
         \A q \in Launchers : q # p => proc'[q] = proc[q], SyncInv(p)'
  PROVE  LauncherInv'
<1> SUFFICES ASSUME NEW q \in Launchers, q # p PROVE SyncInv(q)'
  BY DEF LauncherInv
<1>1. proc'[q] = proc[q] /\ SyncInv(q) /\ Current(q)' = Current(q)
  BY DEF LauncherInv, Current
<1>2. proc[q].todo # {} => Current(q) \in Traces
  BY CurrentType
<1>3. QED
  BY <1>1, <1>2 DEF SyncInv, Grows, Hashed, InHand

(* A step of p on the spool, as far as the server and the markers care.       *)
Local(p) ==
  /\ UploadTypeOK' /\ LauncherInv'
  /\ \A q \in Launchers :
       q # p => /\ proc'[q].at = proc[q].at
                /\ proc'[q].todo = proc[q].todo
                /\ proc'[q].call = proc[q].call
  /\ proc'[p].call = None
  /\ consent => consent'
  /\ \A t \in Traces : bundle[t] = "ended" => bundle'[t] = "ended"
  /\ UNCHANGED server \/ (proc[p].call # None /\ Release(proc[p].call))
  /\ \A t \in Traces : marker'[t] # None => marker[t] # None \/ Complete(t)
  /\ proc'[p].at = "marker" => Complete(Current(p)')

(* Such a step keeps the invariant.                                           *)
LEMMA LocalStep ==
  ASSUME UploadInv, NEW p \in Launchers, Local(p), TypeInv'
  PROVE  UploadInv'
<1> USE DEF UploadInv, Local
<1>1. UNCHANGED sessions
  BY DEF server, Release, store
<1>2. \A t \in Traces : Complete(t)' = Complete(t)
  BY <1>1 DEF Complete
<1>3. \A q \in Launchers : q # p => Current(q)' = Current(q)
  BY DEF Current
<1>4. CallInv'
  <2>1. \A q \in Launchers : proc'[q].call # None =>
          /\ q # p /\ proc'[q].call = proc[q].call /\ proc'[q].at = proc[q].at
          /\ pc'[proc[q].call] = pc[proc[q].call] /\ req'[proc[q].call] = req[proc[q].call]
    <3> SUFFICES ASSUME NEW q \in Launchers, proc'[q].call # None
                 PROVE  /\ q # p /\ proc'[q].call = proc[q].call /\ proc'[q].at = proc[q].at
                        /\ pc'[proc[q].call] = pc[proc[q].call]
                        /\ req'[proc[q].call] = req[proc[q].call]
      OBVIOUS
    <3>1. q # p /\ proc'[q].call = proc[q].call /\ proc'[q].at = proc[q].at
      OBVIOUS
    <3>2. CASE UNCHANGED server
      BY <3>1, <3>2 DEF server
    <3>3. CASE proc[p].call # None /\ Release(proc[p].call)
      <4>1. proc[q].call # proc[p].call
        BY <3>1, <3>3 DEF CallInv
      <4>2. proc[q].call \in Handlers /\ proc[p].call \in Handlers
        BY <3>1, <3>3 DEF UploadTypeOK, Launcher
      <4>3. QED
        BY <3>3, <4>1, <4>2 DEF Release, TypeInv, TypeOK
    <3>4. QED
      BY <3>1, <3>2, <3>3
  <2>2. QED
    BY <2>1, <1>3 DEF CallInv
<1>5. ServiceInv'
  <2>1. \A h \in Handlers : pc'[h] # "idle" =>
          pc'[h] = pc[h] /\ req'[h] = req[h] /\ resp'[h] = resp[h]
    <3>1. CASE UNCHANGED server
      BY <3>1 DEF server
    <3>2. CASE proc[p].call # None /\ Release(proc[p].call)
      BY <3>2 DEF Release, TypeInv, TypeOK, UploadTypeOK, Launcher
    <3>3. QED
      BY <3>1, <3>2
  <2>2. \A h \in Handlers : pc[h] # "idle" => req[h].trace \in Traces
    BY RequestFields DEF TypeInv, Busy
  <2>3. QED
    BY <1>1, <1>2, <2>1, <2>2 DEF ServiceInv
<1>6. MarkerInv'
  <2>1. MarkerMeansComplete'
    BY <1>1 DEF MarkerInv, MarkerMeansComplete, Complete
  <2>2. \A q \in Launchers : At(q, "marker")' => Complete(Current(q))'
    <3> SUFFICES ASSUME NEW q \in Launchers, proc'[q].at = "marker"
                 PROVE  Complete(Current(q))'
      BY DEF At
    <3>1. CASE q = p
      BY <3>1, <1>1 DEF Complete
    <3>2. CASE q # p
      BY <3>2, <1>1, <1>3 DEF Complete, MarkerInv, At
    <3>3. QED
      BY <3>1, <3>2
  <2>3. QED
    BY <2>1, <2>2 DEF MarkerInv
<1>7. UploadOnlyFinished'
  BY <1>1 DEF UploadOnlyFinished
<1>8. QED
  BY <1>4, <1>5, <1>6, <1>7

----------------------------------------------------------------------------
(* The steps of one launcher that start no request are such steps.            *)
LEMMA AloneLocal ==
  ASSUME UploadInv, NEW p \in Launchers,
         \/ Launch(p) \/ LaunchUntraced(p) \/ StartSync(p) \/ EndSync(p)
         \/ ExitUntraced(p) \/ CoreExit(p) \/ Skip(p) \/ WriteState(p)
         \/ CreateArchive(p) \/ WriteMarker(p) \/ GiveUp(p) \/ Kill(p) \/ NoToken(p)
  PROVE  Local(p)
<1> USE TraceUploadAssumption DEF UploadInv, At, disk
<1>1. proc[p].todo # {} => Current(p) \in Traces
  BY CurrentType
<1>2. SyncInv(p) /\ proc[p] \in Launcher
  BY DEF LauncherInv, UploadTypeOK
<1>3. proc[p].at \notin {"created", "put", "completed"} => proc[p].call = None
  BY DEF CallInv
<1>4. \A r \in Launcher : proc' = [proc EXCEPT ![p] = r]
        => /\ proc' \in [Launchers -> Launcher] /\ proc'[p] = r
           /\ \A q \in Launchers : q # p => proc'[q] = proc[q]
  BY Update
<1>5. ASSUME Grows, SyncInv(p)', \A q \in Launchers : q # p => proc'[q] = proc[q]
      PROVE  LauncherInv'
  BY <1>5, OthersUndisturbed
<1>6. CASE Launch(p)
  <2> DEFINE r == [proc[p] EXCEPT !.at = "token"]
  <2>1. /\ r \in Launcher /\ r.at = "token" /\ r.todo = proc[p].todo
        /\ r.sha = proc[p].sha /\ r.file = proc[p].file /\ r.call = proc[p].call
    BY <1>1, <1>2 DEF Launcher, Points, Idle
  <2>2. proc' = [proc EXCEPT ![p] = r]
    BY <1>6 DEF Launch, Go
  <2> HIDE DEF r
  <2>3. /\ proc' \in [Launchers -> Launcher] /\ proc'[p] = r
        /\ \A q \in Launchers : q # p => proc'[q] = proc[q]
    BY <1>4, <2>1, <2>2
  <2>4. Grows /\ UNCHANGED server
    BY <1>1, <1>2, <1>6 DEF Launch, Grows, UploadTypeOK, SyncInv, InHand, Launcher
  <2>5. UploadTypeOK'
    BY <1>1, <1>2, <2>3, <1>6 DEF Launch, UploadTypeOK, SyncInv, InHand, Hashed, Launcher
  <2>6. SyncInv(p)'
    BY <1>1, <1>2, <1>3, <2>1, <2>3, <1>6
       DEF Launch, SyncInv, InHand, Hashed, Current, UploadTypeOK, Linked
  <2>7. /\ \A t \in Traces : marker'[t] # None => marker[t] # None \/ Complete(t)
        /\ proc'[p].at # "marker" /\ proc'[p].call = None
    BY <1>1, <1>2, <1>3, <2>1, <2>3, <1>6
       DEF Launch, MarkerInv, UploadTypeOK, SyncInv, InHand, Hashed
  <2>8. QED
    BY <1>5, <2>3, <2>4, <2>5, <2>6, <2>7 DEF Local, Grows
<1>7. CASE LaunchUntraced(p)
  <2> DEFINE r == [proc[p] EXCEPT !.at = "untraced"]
  <2>1. /\ r \in Launcher /\ r.at = "untraced" /\ r.todo = proc[p].todo
        /\ r.sha = proc[p].sha /\ r.file = proc[p].file /\ r.call = proc[p].call
    BY <1>1, <1>2 DEF Launcher, Points, Idle
  <2>2. proc' = [proc EXCEPT ![p] = r]
    BY <1>7 DEF LaunchUntraced, Go
  <2> HIDE DEF r
  <2>3. /\ proc' \in [Launchers -> Launcher] /\ proc'[p] = r
        /\ \A q \in Launchers : q # p => proc'[q] = proc[q]
    BY <1>4, <2>1, <2>2
  <2>4. Grows /\ UNCHANGED server
    BY <1>1, <1>2, <1>7 DEF LaunchUntraced, Grows, UploadTypeOK, SyncInv, InHand, Launcher
  <2>5. UploadTypeOK'
    BY <1>1, <1>2, <2>3, <1>7
       DEF LaunchUntraced, UploadTypeOK, SyncInv, InHand, Hashed, Launcher
  <2>6. SyncInv(p)'
    BY <1>1, <1>2, <1>3, <2>1, <2>3, <1>7
       DEF LaunchUntraced, SyncInv, InHand, Hashed, Current, UploadTypeOK, Linked
  <2>7. /\ \A t \in Traces : marker'[t] # None => marker[t] # None \/ Complete(t)
        /\ proc'[p].at # "marker" /\ proc'[p].call = None
    BY <1>1, <1>2, <1>3, <2>1, <2>3, <1>7
       DEF LaunchUntraced, MarkerInv, UploadTypeOK, SyncInv, InHand, Hashed
  <2>8. QED
    BY <1>5, <2>3, <2>4, <2>5, <2>6, <2>7 DEF Local, Grows
<1>8. CASE StartSync(p)
  <2> DEFINE r == [proc[p] EXCEPT !.at = "sync", !.todo = {t \in Traces : bundle[t] # "absent"}]
  <2>1. /\ r \in Launcher /\ r.at = "sync" /\ r.file = proc[p].file
        /\ r.call = proc[p].call
    BY <1>1, <1>2 DEF Launcher, Points, Idle
  <2>2. proc' = [proc EXCEPT ![p] = r]
    BY <1>8 DEF StartSync
  <2> HIDE DEF r
  <2>3. /\ proc' \in [Launchers -> Launcher] /\ proc'[p] = r
        /\ \A q \in Launchers : q # p => proc'[q] = proc[q]
    BY <1>4, <2>1, <2>2
  <2>4. Grows /\ UNCHANGED server
    BY <1>1, <1>2, <1>8 DEF StartSync, Grows, UploadTypeOK, SyncInv, InHand, Launcher
  <2>5. UploadTypeOK'
    BY <1>1, <1>2, <2>3, <1>8 DEF StartSync, UploadTypeOK, SyncInv, InHand, Hashed, Launcher
  <2>6. SyncInv(p)'
    BY <1>1, <1>2, <1>3, <2>1, <2>3, <1>8
       DEF StartSync, SyncInv, InHand, Hashed, Current, UploadTypeOK, Linked
  <2>7. /\ \A t \in Traces : marker'[t] # None => marker[t] # None \/ Complete(t)
        /\ proc'[p].at # "marker" /\ proc'[p].call = None
    BY <1>1, <1>2, <1>3, <2>1, <2>3, <1>8
       DEF StartSync, MarkerInv, UploadTypeOK, SyncInv, InHand, Hashed
  <2>8. QED
    BY <1>5, <2>3, <2>4, <2>5, <2>6, <2>7 DEF Local, Grows
<1>9. CASE EndSync(p)
  <2> DEFINE r == IF proc[p].late THEN Idle ELSE [Idle EXCEPT !.at = "core"]
  <2>1. /\ r \in Launcher /\ r.at \in {"idle", "core"} /\ r.file = None /\ r.call = None
    BY <1>1, <1>2 DEF Launcher, Points, Idle
  <2>2. proc' = [proc EXCEPT ![p] = r]
    BY <1>9 DEF EndSync, Leave
  <2> HIDE DEF r
  <2>3. /\ proc' \in [Launchers -> Launcher] /\ proc'[p] = r
        /\ \A q \in Launchers : q # p => proc'[q] = proc[q]
    BY <1>4, <2>1, <2>2
  <2>4. Grows /\ UNCHANGED server
    BY <1>1, <1>2, <1>9 DEF EndSync, Grows, UploadTypeOK, SyncInv, InHand, Launcher
  <2>5. UploadTypeOK'
    BY <1>1, <1>2, <2>3, <1>9 DEF EndSync, UploadTypeOK, SyncInv, InHand, Hashed, Launcher
  <2>6. SyncInv(p)'
    BY <1>1, <1>2, <1>3, <2>1, <2>3, <1>9
       DEF EndSync, SyncInv, InHand, Hashed, Current, UploadTypeOK, Linked
  <2>7. /\ \A t \in Traces : marker'[t] # None => marker[t] # None \/ Complete(t)
        /\ proc'[p].at # "marker" /\ proc'[p].call = None
    BY <1>1, <1>2, <1>3, <2>1, <2>3, <1>9
       DEF EndSync, MarkerInv, UploadTypeOK, SyncInv, InHand, Hashed
  <2>8. QED
    BY <1>5, <2>3, <2>4, <2>5, <2>6, <2>7 DEF Local, Grows
<1>10. CASE ExitUntraced(p)
  <2> DEFINE r == [proc[p] EXCEPT !.at = "idle"]
  <2>1. /\ r \in Launcher /\ r.at = "idle" /\ r.todo = proc[p].todo /\ r.sha = proc[p].sha
        /\ r.file = proc[p].file /\ r.call = proc[p].call
    BY <1>1, <1>2 DEF Launcher, Points, Idle
  <2>2. proc' = [proc EXCEPT ![p] = r]
    BY <1>10 DEF ExitUntraced, Go
  <2> HIDE DEF r
  <2>3. /\ proc' \in [Launchers -> Launcher] /\ proc'[p] = r
        /\ \A q \in Launchers : q # p => proc'[q] = proc[q]
    BY <1>4, <2>1, <2>2
  <2>4. Grows /\ UNCHANGED server
    BY <1>1, <1>2, <1>10 DEF ExitUntraced, Grows, UploadTypeOK, SyncInv, InHand, Launcher
  <2>5. UploadTypeOK'
    BY <1>1, <1>2, <2>3, <1>10
       DEF ExitUntraced, UploadTypeOK, SyncInv, InHand, Hashed, Launcher
  <2>6. SyncInv(p)'
    BY <1>1, <1>2, <1>3, <2>1, <2>3, <1>10
       DEF ExitUntraced, SyncInv, InHand, Hashed, Current, UploadTypeOK, Linked
  <2>7. /\ \A t \in Traces : marker'[t] # None => marker[t] # None \/ Complete(t)
        /\ proc'[p].at # "marker" /\ proc'[p].call = None
    BY <1>1, <1>2, <1>3, <2>1, <2>3, <1>10
       DEF ExitUntraced, MarkerInv, UploadTypeOK, SyncInv, InHand, Hashed
  <2>8. QED
    BY <1>5, <2>3, <2>4, <2>5, <2>6, <2>7 DEF Local, Grows
<1>11. CASE CoreExit(p)
  <2> DEFINE r == [Idle EXCEPT !.at = "token", !.late = TRUE]
  <2>1. r \in Launcher /\ r.at = "token" /\ r.file = None /\ r.call = None
    BY <1>1, <1>2 DEF Launcher, Points, Idle
  <2>2. proc' = [proc EXCEPT ![p] = r]
    BY <1>11 DEF CoreExit
  <2> HIDE DEF r
  <2>3. /\ proc' \in [Launchers -> Launcher] /\ proc'[p] = r
        /\ \A q \in Launchers : q # p => proc'[q] = proc[q]
    BY <1>4, <2>1, <2>2
  <2>4. Grows /\ UNCHANGED server
    BY <1>1, <1>2, <1>11 DEF CoreExit, Grows, UploadTypeOK, SyncInv, InHand, Launcher
  <2>5. UploadTypeOK'
    BY <1>1, <1>2, <2>3, <1>11 DEF CoreExit, UploadTypeOK, SyncInv, InHand, Hashed, Launcher
  <2>6. SyncInv(p)'
    BY <1>1, <1>2, <1>3, <2>1, <2>3, <1>11
       DEF CoreExit, SyncInv, InHand, Hashed, Current, UploadTypeOK, Linked
  <2>7. /\ \A t \in Traces : marker'[t] # None => marker[t] # None \/ Complete(t)
        /\ proc'[p].at # "marker" /\ proc'[p].call = None
    BY <1>1, <1>2, <1>3, <2>1, <2>3, <1>11
       DEF CoreExit, MarkerInv, UploadTypeOK, SyncInv, InHand, Hashed
  <2>8. QED
    BY <1>5, <2>3, <2>4, <2>5, <2>6, <2>7 DEF Local, Grows
<1>12. CASE Skip(p)
  <2> DEFINE r == [proc[p] EXCEPT !.todo = proc[p].todo \ {Current(p)}]
  <2>1. /\ r \in Launcher /\ r.at = proc[p].at /\ r.file = proc[p].file
        /\ r.call = proc[p].call
    BY <1>1, <1>2 DEF Launcher, Points, Idle
  <2>2. proc' = [proc EXCEPT ![p] = r]
    BY <1>12 DEF Skip
  <2> HIDE DEF r
  <2>3. /\ proc' \in [Launchers -> Launcher] /\ proc'[p] = r
        /\ \A q \in Launchers : q # p => proc'[q] = proc[q]
    BY <1>4, <2>1, <2>2
  <2>4. Grows /\ UNCHANGED server
    BY <1>1, <1>2, <1>12 DEF Skip, Grows, UploadTypeOK, SyncInv, InHand, Launcher
  <2>5. UploadTypeOK'
    BY <1>1, <1>2, <2>3, <1>12 DEF Skip, UploadTypeOK, SyncInv, InHand, Hashed, Launcher
  <2>6. SyncInv(p)'
    BY <1>1, <1>2, <1>3, <2>1, <2>3, <1>12
       DEF Skip, SyncInv, InHand, Hashed, Current, UploadTypeOK, Linked
  <2>7. /\ \A t \in Traces : marker'[t] # None => marker[t] # None \/ Complete(t)
        /\ proc'[p].at # "marker" /\ proc'[p].call = None
    BY <1>1, <1>2, <1>3, <2>1, <2>3, <1>12
       DEF Skip, MarkerInv, UploadTypeOK, SyncInv, InHand, Hashed
  <2>8. QED
    BY <1>5, <2>3, <2>4, <2>5, <2>6, <2>7 DEF Local, Grows
<1>13. CASE WriteState(p)
  <2> DEFINE r == [proc[p] EXCEPT !.at = "archive"]
  <2>1. /\ r \in Launcher /\ r.at = "archive" /\ r.todo = proc[p].todo
        /\ r.sha = proc[p].sha /\ r.file = proc[p].file /\ r.call = proc[p].call
    BY <1>1, <1>2 DEF Launcher, Points, Idle
  <2>2. proc' = [proc EXCEPT ![p] = r]
    BY <1>13 DEF WriteState, Go
  <2> HIDE DEF r
  <2>3. /\ proc' \in [Launchers -> Launcher] /\ proc'[p] = r
        /\ \A q \in Launchers : q # p => proc'[q] = proc[q]
    BY <1>4, <2>1, <2>2
  <2>4. Grows /\ UNCHANGED server
    BY <1>1, <1>2, <1>13 DEF WriteState, Grows, UploadTypeOK, SyncInv, InHand, Launcher
  <2>5. UploadTypeOK'
    BY <1>1, <1>2, <2>3, <1>13 DEF WriteState, UploadTypeOK, SyncInv, InHand, Hashed, Launcher
  <2>6. SyncInv(p)'
    BY <1>1, <1>2, <1>3, <2>1, <2>3, <1>13
       DEF WriteState, SyncInv, InHand, Hashed, Current, UploadTypeOK, Linked
  <2>7. /\ \A t \in Traces : marker'[t] # None => marker[t] # None \/ Complete(t)
        /\ proc'[p].at # "marker" /\ proc'[p].call = None
    BY <1>1, <1>2, <1>3, <2>1, <2>3, <1>13
       DEF WriteState, MarkerInv, UploadTypeOK, SyncInv, InHand, Hashed
  <2>8. QED
    BY <1>5, <2>3, <2>4, <2>5, <2>6, <2>7 DEF Local, Grows
<1>14. CASE CreateArchive(p)
  <2> DEFINE r == [proc[p] EXCEPT !.at = "hash"]
  <2>1. /\ r \in Launcher /\ r.at = "hash" /\ r.todo = proc[p].todo /\ r.sha = proc[p].sha
        /\ r.file = proc[p].file /\ r.call = proc[p].call
    BY <1>1, <1>2 DEF Launcher, Points, Idle
  <2>2. proc' = [proc EXCEPT ![p] = r]
    BY <1>14 DEF CreateArchive, Go
  <2> HIDE DEF r
  <2>3. /\ proc' \in [Launchers -> Launcher] /\ proc'[p] = r
        /\ \A q \in Launchers : q # p => proc'[q] = proc[q]
    BY <1>4, <2>1, <2>2
  <2>4. Grows /\ UNCHANGED server
    BY <1>1, <1>2, <1>14 DEF CreateArchive, Grows, UploadTypeOK, SyncInv, InHand, Launcher
  <2>5. UploadTypeOK'
    BY <1>1, <1>2, <2>3, <1>14
       DEF CreateArchive, UploadTypeOK, SyncInv, InHand, Hashed, Launcher
  <2>6. SyncInv(p)'
    BY <1>1, <1>2, <1>3, <2>1, <2>3, <1>14
       DEF CreateArchive, SyncInv, InHand, Hashed, Current, UploadTypeOK, Linked
  <2>7. /\ \A t \in Traces : marker'[t] # None => marker[t] # None \/ Complete(t)
        /\ proc'[p].at # "marker" /\ proc'[p].call = None
    BY <1>1, <1>2, <1>3, <2>1, <2>3, <1>14
       DEF CreateArchive, MarkerInv, UploadTypeOK, SyncInv, InHand, Hashed
  <2>8. QED
    BY <1>5, <2>3, <2>4, <2>5, <2>6, <2>7 DEF Local, Grows
<1>15. CASE WriteMarker(p)
  <2> DEFINE r == [proc[p] EXCEPT !.at = "remove"]
  <2>1. /\ r \in Launcher /\ r.at = "remove" /\ r.todo = proc[p].todo
        /\ r.sha = proc[p].sha /\ r.file = proc[p].file /\ r.call = proc[p].call
    BY <1>1, <1>2 DEF Launcher, Points, Idle
  <2>2. proc' = [proc EXCEPT ![p] = r]
    BY <1>15 DEF WriteMarker, Go
  <2> HIDE DEF r
  <2>3. /\ proc' \in [Launchers -> Launcher] /\ proc'[p] = r
        /\ \A q \in Launchers : q # p => proc'[q] = proc[q]
    BY <1>4, <2>1, <2>2
  <2>4. Grows /\ UNCHANGED server
    BY <1>1, <1>2, <1>15 DEF WriteMarker, Grows, UploadTypeOK, SyncInv, InHand, Launcher
  <2>5. UploadTypeOK'
    BY <1>1, <1>2, <2>3, <1>15 DEF WriteMarker, UploadTypeOK, SyncInv, InHand, Hashed, Launcher
  <2>6. SyncInv(p)'
    BY <1>1, <1>2, <1>3, <2>1, <2>3, <1>15
       DEF WriteMarker, SyncInv, InHand, Hashed, Current, UploadTypeOK, Linked
  <2>7. /\ \A t \in Traces : marker'[t] # None => marker[t] # None \/ Complete(t)
        /\ proc'[p].at # "marker" /\ proc'[p].call = None
    BY <1>1, <1>2, <1>3, <2>1, <2>3, <1>15
       DEF WriteMarker, MarkerInv, UploadTypeOK, SyncInv, InHand, Hashed
  <2>8. QED
    BY <1>5, <2>3, <2>4, <2>5, <2>6, <2>7 DEF Local, Grows
<1>16. CASE GiveUp(p)
  <2> DEFINE r == IF proc[p].late THEN Idle ELSE [Idle EXCEPT !.at = "core"]
  <2>1. /\ r \in Launcher /\ r.at \in {"idle", "core"} /\ r.file = None /\ r.call = None
    BY <1>1, <1>2 DEF Launcher, Points, Idle
  <2>2. proc' = [proc EXCEPT ![p] = r]
    BY <1>16 DEF GiveUp, Leave, Fault
  <2> HIDE DEF r
  <2>3. /\ proc' \in [Launchers -> Launcher] /\ proc'[p] = r
        /\ \A q \in Launchers : q # p => proc'[q] = proc[q]
    BY <1>4, <2>1, <2>2
  <2>4. Grows /\ UNCHANGED server
    BY <1>1, <1>2, <1>16 DEF GiveUp, Grows, UploadTypeOK, SyncInv, InHand, Launcher, Fault
  <2>5. UploadTypeOK'
    BY <1>1, <1>2, <2>3, <1>16
       DEF GiveUp, UploadTypeOK, SyncInv, InHand, Hashed, Launcher, Fault
  <2>6. SyncInv(p)'
    BY <1>1, <1>2, <1>3, <2>1, <2>3, <1>16
       DEF GiveUp, SyncInv, InHand, Hashed, Current, UploadTypeOK, Linked, Fault
  <2>7. /\ \A t \in Traces : marker'[t] # None => marker[t] # None \/ Complete(t)
        /\ proc'[p].at # "marker" /\ proc'[p].call = None
    BY <1>1, <1>2, <1>3, <2>1, <2>3, <1>16
       DEF GiveUp, MarkerInv, UploadTypeOK, SyncInv, InHand, Hashed
  <2>8. QED
    BY <1>5, <2>3, <2>4, <2>5, <2>6, <2>7 DEF Local, Grows
<1>17. CASE Kill(p)
  <2> DEFINE r == Idle
  <2>1. r \in Launcher /\ r.at = "idle" /\ r.file = None /\ r.call = None
    BY <1>1, <1>2 DEF Launcher, Points, Idle
  <2>2. proc' = [proc EXCEPT ![p] = r]
    BY <1>17 DEF Kill, Fault
  <2> HIDE DEF r
  <2>3. /\ proc' \in [Launchers -> Launcher] /\ proc'[p] = r
        /\ \A q \in Launchers : q # p => proc'[q] = proc[q]
    BY <1>4, <2>1, <2>2
  <2>4. Grows /\ UNCHANGED server
    BY <1>1, <1>2, <1>17 DEF Kill, Grows, UploadTypeOK, SyncInv, InHand, Launcher, Fault
  <2>5. UploadTypeOK'
    <3>1. bundle' \in [Traces -> {"absent", "running", "ended"}]
      BY <1>2, <1>17 DEF Kill, UploadTypeOK, Launcher
    <3>2. QED
      BY <2>3, <3>1, <1>17 DEF Kill, Fault, UploadTypeOK
  <2>6. SyncInv(p)'
    BY <1>1, <1>2, <1>3, <2>1, <2>3, <1>17
       DEF Kill, SyncInv, InHand, Hashed, Current, UploadTypeOK, Linked, Fault
  <2>7. /\ \A t \in Traces : marker'[t] # None => marker[t] # None \/ Complete(t)
        /\ proc'[p].at # "marker" /\ proc'[p].call = None
    BY <1>1, <1>2, <1>3, <2>1, <2>3, <1>17
       DEF Kill, MarkerInv, UploadTypeOK, SyncInv, InHand, Hashed
  <2>8. QED
    BY <1>5, <2>3, <2>4, <2>5, <2>6, <2>7 DEF Local, Grows
<1>18. CASE NoToken(p)
  <2> DEFINE r == IF proc[p].late THEN Idle ELSE [Idle EXCEPT !.at = "core"]
  <2>1. /\ r \in Launcher /\ r.at \in {"idle", "core"} /\ r.file = None /\ r.call = None
    BY <1>1, <1>2 DEF Launcher, Points, Idle
  <2>2. proc' = [proc EXCEPT ![p] = r]
    BY <1>18 DEF NoToken, Leave, Fault
  <2> HIDE DEF r
  <2>3. /\ proc' \in [Launchers -> Launcher] /\ proc'[p] = r
        /\ \A q \in Launchers : q # p => proc'[q] = proc[q]
    BY <1>4, <2>1, <2>2
  <2>4. Grows /\ UNCHANGED server
    BY <1>1, <1>2, <1>18 DEF NoToken, Grows, UploadTypeOK, SyncInv, InHand, Launcher, Fault
  <2>5. UploadTypeOK'
    BY <1>1, <1>2, <2>3, <1>18
       DEF NoToken, UploadTypeOK, SyncInv, InHand, Hashed, Launcher, Fault
  <2>6. SyncInv(p)'
    BY <1>1, <1>2, <1>3, <2>1, <2>3, <1>18
       DEF NoToken, SyncInv, InHand, Hashed, Current, UploadTypeOK, Linked, Fault
  <2>7. /\ \A t \in Traces : marker'[t] # None => marker[t] # None \/ Complete(t)
        /\ proc'[p].at # "marker" /\ proc'[p].call = None
    BY <1>1, <1>2, <1>3, <2>1, <2>3, <1>18
       DEF NoToken, MarkerInv, UploadTypeOK, SyncInv, InHand, Hashed
  <2>8. QED
    BY <1>5, <2>3, <2>4, <2>5, <2>6, <2>7 DEF Local, Grows
<1>19. QED
  BY <1>6, <1>7, <1>8, <1>9, <1>10, <1>11, <1>12, <1>13, <1>14, <1>15, <1>16, <1>17, <1>18

(* So are hashing the archive and taking an answer.  Only an answer that says *)
(* the upload is complete leads to the marker.                                *)
LEMMA AnswerLocal ==
  ASSUME UploadInv, NEW p \in Launchers,
         HashArchive(p) \/ SessionCreated(p) \/ PartPut(p) \/ SessionCompleted(p)
  PROVE  Local(p)
<1> USE TraceUploadAssumption DEF UploadInv, At, disk
<1>1. proc[p].todo # {} => Current(p) \in Traces
  BY CurrentType
<1>2. SyncInv(p) /\ proc[p] \in Launcher
  BY DEF LauncherInv, UploadTypeOK
<1>3. \A r \in Launcher : proc' = [proc EXCEPT ![p] = r]
        => /\ proc' \in [Launchers -> Launcher] /\ proc'[p] = r
           /\ \A q \in Launchers : q # p => proc'[q] = proc[q]
  BY Update
<1>4. /\ proc[p].at \in {"hash", "created", "put", "completed"} /\ Current(p) \in Traces
      /\ proc[p].at = "hash" => proc[p].call = None
  BY <1>1, <1>2 DEF HashArchive, SessionCreated, PartPut, SessionCompleted, Answer, SyncInv,
                    InHand, Hashed, CallInv
<1>5. /\ consent /\ bundle[Current(p)] = "ended" /\ proc[p].todo # {}
      /\ proc[p].at # "hash" => proc[p].sha # None
      /\ proc[p].at \in {"put", "completed"} => proc[p].file # None
      /\ proc[p].file = Linked => cache[Current(p)] # None
      /\ proc[p].at = "hash" => proc[p].file # Linked
  BY <1>2, <1>4 DEF SyncInv, InHand, Hashed
<1>6. /\ UNCHANGED <<disk, clock, faults>>
      /\ UNCHANGED server \/ (proc[p].call # None /\ Release(proc[p].call))
  BY DEF HashArchive, SessionCreated, PartPut, SessionCompleted, Answer
<1>7. /\ cache[Current(p)] \in Versions \cup {None}
      /\ proc[p].part \in Nat /\ proc[p].sha \in Versions \cup {None}
      /\ proc[p].file \in Versions \cup {None, Linked}
  BY <1>2, <1>4 DEF UploadTypeOK, Launcher
(* Enough: the new locals of p, and what they must satisfy. *)
<1>8. ASSUME NEW r \in Launcher, proc' = [proc EXCEPT ![p] = r], r.call = None,
             \/ r.at \in {"idle", "core"} /\ r.file = None
             \/ /\ r.at \in {"post", "parts", "marker"} /\ r.todo = proc[p].todo
                /\ r.sha # None
                /\ r.at = "parts" => r.file # None
                /\ r.file = Linked => cache[Current(p)] # None
                /\ r.at = "marker" => Complete(Current(p))
      PROVE  Local(p)
  <2>1. /\ proc' \in [Launchers -> Launcher] /\ proc'[p] = r
        /\ \A q \in Launchers : q # p => proc'[q] = proc[q]
    BY <1>3, <1>8
  <2>2. UploadTypeOK'
    BY <1>6, <2>1 DEF UploadTypeOK
  <2>3. Grows
    BY <1>6 DEF Grows
  <2>4. SyncInv(p)'
    BY <1>5, <1>6, <1>8, <2>1 DEF SyncInv, InHand, Hashed, Current, Linked
  <2>5. LauncherInv'
    BY <2>1, <2>3, <2>4, OthersUndisturbed
  <2>6. proc'[p].at = "marker" => Complete(Current(p)')
    BY <1>8, <2>1 DEF Current
  <2>7. QED
    BY <1>6, <1>8, <2>1, <2>2, <2>5, <2>6 DEF Local
<1>9. ASSUME Leave(p) PROVE Local(p)
  <2> DEFINE r == IF proc[p].late THEN Idle ELSE [Idle EXCEPT !.at = "core"]
  <2>1. /\ r \in Launcher /\ r.at \in {"idle", "core"} /\ r.file = None /\ r.call = None
    BY DEF Idle, Launcher, Points
  <2>2. proc' = [proc EXCEPT ![p] = r]
    BY <1>9 DEF Leave
  <2> HIDE DEF r
  <2>3. QED
    BY <1>8, <2>1, <2>2
<1>10. CASE HashArchive(p)
  <2>1. CASE cache[Current(p)] = None
    BY <1>9, <1>10, <2>1 DEF HashArchive
  <2>2. CASE cache[Current(p)] # None
    <3> DEFINE r == [proc[p] EXCEPT !.at = "post", !.sha = cache[Current(p)]]
    <3>1. /\ r \in Launcher /\ r.at = "post" /\ r.todo = proc[p].todo
          /\ r.sha = cache[Current(p)] /\ r.file = proc[p].file /\ r.call = proc[p].call
      BY <1>2, <1>7 DEF Launcher, Points
    <3>2. proc' = [proc EXCEPT ![p] = r]
      BY <1>10, <2>2 DEF HashArchive
    <3>3. r.call = None
      BY <1>4, <1>10, <3>1 DEF HashArchive
    <3> HIDE DEF r
    <3>4. QED
      BY <1>5, <1>8, <2>2, <3>1, <3>2, <3>3
  <2>3. QED
    BY <2>1, <2>2
<1>11. ASSUME proc[p].call # None, pc[proc[p].call] = "done"
       PROVE  /\ resp[proc[p].call] = "complete" => Complete(Current(p))
              /\ proc[p].at = "completed" => resp[proc[p].call] \in {"complete", "error"}
  <2>1. proc[p].call \in Handlers
    BY <1>2, <1>11 DEF Launcher
  <2>2. req[proc[p].call].trace = Current(p) /\ req[proc[p].call].op = Asks(proc[p].at)
    BY <1>11 DEF CallInv
  <2>3. QED
    BY <1>11, <2>1, <2>2 DEF ServiceInv, Asks
(* The two ways to the marker. *)
<1>12. ASSUME proc' = [proc EXCEPT ![p].at = "marker", ![p].call = None],
              proc[p].at # "hash", Complete(Current(p))
       PROVE  Local(p)
  <2> DEFINE r == [proc[p] EXCEPT !.at = "marker", !.call = None]
  <2>1. /\ r \in Launcher /\ r.at = "marker" /\ r.todo = proc[p].todo
        /\ r.sha = proc[p].sha /\ r.file = proc[p].file /\ r.call = None
    BY <1>2, <1>7 DEF Launcher, Points
  <2>2. proc' = [proc EXCEPT ![p] = r]
    BY <1>12
  <2> HIDE DEF r
  <2>3. QED
    BY <1>5, <1>8, <1>12, <2>1, <2>2
<1>13. CASE SessionCreated(p)
  <2>1. CASE resp[proc[p].call] = "uploading" /\ cache[Current(p)] # None
    <3> DEFINE r == [proc[p] EXCEPT !.at = "parts", !.call = None, !.part = 0, !.file = Linked]
    <3>1. /\ r \in Launcher /\ r.at = "parts" /\ r.todo = proc[p].todo
          /\ r.sha = proc[p].sha /\ r.file = Linked /\ r.call = None
      BY <1>2, <1>7 DEF Launcher, Points
    <3>2. proc' = [proc EXCEPT ![p] = r] /\ proc[p].at = "created"
      BY <1>13, <2>1 DEF SessionCreated, Leave, Answer
    <3>3. Linked # None
      BY DEF Linked
    <3> HIDE DEF r
    <3>4. QED
      BY <1>5, <1>8, <2>1, <3>1, <3>2, <3>3
  <2>2. CASE resp[proc[p].call] = "complete"
    BY <1>11, <1>12, <1>13, <2>2 DEF SessionCreated, Answer
  <2>3. QED
    BY <1>9, <1>13, <2>1, <2>2 DEF SessionCreated
<1>14. CASE PartPut(p)
  <2>1. CASE resp[proc[p].call] = "error"
    BY <1>9, <1>14, <2>1 DEF PartPut
  <2>2. CASE resp[proc[p].call] # "error"
    <3>0. PICK n \in Nat : n = proc[p].part + 1
      BY <1>7
    <3> DEFINE r == [proc[p] EXCEPT !.at = "parts", !.call = None, !.part = n]
    <3>1. /\ r \in Launcher /\ r.at = "parts" /\ r.todo = proc[p].todo
          /\ r.sha = proc[p].sha /\ r.file = proc[p].file /\ r.call = None
      BY <1>2, <1>7 DEF Launcher, Points
    <3>2. proc' = [proc EXCEPT ![p] = r] /\ proc[p].at = "put"
      BY <1>14, <2>2, <3>0 DEF PartPut, Answer
    <3> HIDE DEF r
    <3>3. QED
      BY <1>5, <1>8, <3>1, <3>2
  <2>3. QED
    BY <2>1, <2>2
<1>15. CASE SessionCompleted(p)
  <2>1. CASE resp[proc[p].call] = "error"
    BY <1>9, <1>15, <2>1 DEF SessionCompleted
  <2>2. CASE resp[proc[p].call] # "error"
    BY <1>11, <1>12, <1>15, <2>2 DEF SessionCompleted, Answer
  <2>3. QED
    BY <2>1, <2>2
<1>16. QED
  BY <1>10, <1>13, <1>14, <1>15

(* Removing the archive leaves those who have it open with its bytes.         *)
LEMMA RemoveLocal ==
  ASSUME UploadInv, NEW p \in Launchers, RemoveArchive(p)
  PROVE  Local(p)
<1> USE TraceUploadAssumption DEF UploadInv, At, disk
<1>1. proc[p].todo # {} => Current(p) \in Traces
  BY CurrentType
<1>2. SyncInv(p) /\ proc[p] \in Launcher
  BY DEF LauncherInv, UploadTypeOK
<1>3. \A r \in Launcher : proc' = [proc EXCEPT ![p] = r]
        => /\ proc' \in [Launchers -> Launcher] /\ proc'[p] = r
           /\ \A q \in Launchers : q # p => proc'[q] = proc[q]
  BY Update
<1>4. /\ proc[p].at = "remove" /\ Current(p) \in Traces /\ consent /\ proc[p].call = None
      /\ UNCHANGED <<server, consent, bundle, stamp, marker, clock, faults>>
  BY <1>1, <1>2 DEF RemoveArchive, SyncInv, InHand, Hashed, CallInv
<1>5. CASE cache[Current(p)] = None
  <2> DEFINE r == IF proc[p].late THEN Idle ELSE [Idle EXCEPT !.at = "core"]
  <2>1. /\ r \in Launcher /\ r.at \in {"idle", "core"} /\ r.file = None /\ r.call = None
    BY DEF Idle, Launcher, Points
  <2>2. proc' = [proc EXCEPT ![p] = r] /\ UNCHANGED cache
    BY <1>5 DEF RemoveArchive, Leave
  <2> HIDE DEF r
  <2>3. /\ proc' \in [Launchers -> Launcher] /\ proc'[p] = r
        /\ \A q \in Launchers : q # p => proc'[q] = proc[q]
    BY <1>3, <2>1, <2>2
  <2>4. UploadTypeOK' /\ Grows
    BY <1>4, <2>2, <2>3 DEF UploadTypeOK, Grows
  <2>5. SyncInv(p)'
    BY <1>4, <2>1, <2>3 DEF SyncInv, InHand, Hashed, Linked
  <2>6. LauncherInv'
    BY <2>3, <2>4, <2>5, OthersUndisturbed
  <2>7. QED
    BY <1>4, <2>1, <2>3, <2>4, <2>6 DEF Local
<1>6. CASE cache[Current(p)] # None
  <2> DEFINE t == Current(p)
             r == [Idle EXCEPT !.at = "sync", !.late = proc[p].late,
                               !.todo = proc[p].todo \ {t}]
             s(q) == IF proc[q].file = Linked /\ Current(q) = t
                     THEN [proc[q] EXCEPT !.file = cache[t]] ELSE proc[q]
  <2>1. r \in Launcher /\ r.at = "sync" /\ r.file = None /\ r.call = None
    BY <1>2 DEF Idle, Launcher, Points
  <2>2. cache[t] \in Versions /\ cache[t] # Linked /\ cache[t] # None
    <3>1. cache[t] \in Versions
      BY <1>4, <1>6 DEF UploadTypeOK
    <3>2. Linked \notin Versions
      BY DEF Linked
    <3>3. QED
      BY <1>6, <3>1, <3>2
  <2>3. ASSUME NEW q \in Launchers
        PROVE  /\ s(q) \in Launcher
               /\ s(q).at = proc[q].at /\ s(q).todo = proc[q].todo
               /\ s(q).sha = proc[q].sha /\ s(q).call = proc[q].call
               /\ s(q).file # None <=> proc[q].file # None
               /\ s(q).file = Linked => proc[q].file = Linked /\ Current(q) # t
    <3>1. proc[q] \in Launcher
      BY DEF UploadTypeOK
    <3>2. CASE proc[q].file = Linked /\ Current(q) = t
      <4>1. s(q) = [proc[q] EXCEPT !.file = cache[t]]
        BY <3>2
      <4>2. Linked # None
        BY DEF Linked
      <4>3. QED
        BY <2>2, <3>1, <3>2, <4>1, <4>2 DEF Launcher
    <3>3. CASE ~(proc[q].file = Linked /\ Current(q) = t)
      BY <3>1, <3>3
    <3>4. QED
      BY <3>2, <3>3
  <2>4. /\ proc' = [q \in Launchers |-> IF q = p THEN r ELSE s(q)]
        /\ cache' = [cache EXCEPT ![t] = None]
    BY <1>6 DEF RemoveArchive
  <2> HIDE DEF r, s
  <2>5. proc'[p] = r /\ \A q \in Launchers : q # p => proc'[q] = s(q)
    BY <2>4
  <2>6. UploadTypeOK'
    <3>1. proc' \in [Launchers -> Launcher]
      BY <2>1, <2>3, <2>4
    <3>2. cache' \in [Traces -> Versions \cup {None}]
      BY <1>4, <2>4 DEF UploadTypeOK
    <3>3. QED
      BY <1>4, <3>1, <3>2 DEF UploadTypeOK
  <2>7. LauncherInv'
    <3>1. SyncInv(p)'
      BY <1>4, <2>1, <2>5 DEF SyncInv, InHand, Hashed, Linked
    <3>2. ASSUME NEW q \in Launchers, q # p PROVE SyncInv(q)'
      <4>1. SyncInv(q)
        BY DEF LauncherInv
      <4>2. /\ proc'[q].at = proc[q].at /\ proc'[q].todo = proc[q].todo
            /\ proc'[q].sha = proc[q].sha
            /\ proc'[q].file # None <=> proc[q].file # None
            /\ proc'[q].file = Linked => proc[q].file = Linked /\ Current(q) # t
        BY <2>3, <2>5, <3>2
      <4>3. Current(q)' = Current(q)
        BY <4>2 DEF Current
      <4>4. proc[q].todo # {} => Current(q) \in Traces
        BY CurrentType
      <4>5. proc'[q].file = Linked => proc'[q].at \in Hashed /\ cache'[Current(q)] # None
        BY <2>4, <4>1, <4>2, <4>4 DEF SyncInv, UploadTypeOK, InHand, Hashed
      <4>6. QED
        BY <1>4, <4>1, <4>2, <4>3, <4>5 DEF SyncInv
    <3>3. QED
      BY <3>1, <3>2 DEF LauncherInv
  <2>8. QED
    BY <1>4, <2>1, <2>3, <2>5, <2>6, <2>7 DEF Local
<1>7. QED
  BY <1>5, <1>6

(* A request that a launcher sends is served with its bundle in view.         *)
LEMMA AskStep ==
  ASSUME UploadInv, NEW p \in Launchers, NEW h \in Handlers,
         PostSession(p, h) \/ PutPart(p, h) \/ PostComplete(p, h), TypeInv'
  PROVE  UploadInv'
<1> USE TraceUploadAssumption DEF UploadInv
<1>1. PICK m \in Request :
           /\ Receive(h, m)
           /\ m.trace = Current(p)
           /\ m.op \in {"create", "part", "complete"}
           /\ proc[p].call = None
           /\ proc[p].at \in Hashed
           /\ \E l \in {"created", "put", "completed"} :
                /\ m.op = Asks(l) /\ (l = "created" \/ proc[p].at = "parts")
                /\ proc' = [proc EXCEPT ![p].at = l, ![p].call = h]
           /\ UNCHANGED <<disk, clock, faults>>
  BY SendIsRequest
<1>2. PICK l \in {"created", "put", "completed"} :
        /\ m.op = Asks(l) /\ (l = "created" \/ proc[p].at = "parts")
        /\ proc' = [proc EXCEPT ![p].at = l, ![p].call = h]
  BY <1>1
<1>3. UNCHANGED <<consent, bundle, stamp, cache, marker, clock, faults, sessions, resp>>
  BY <1>1 DEF disk, Receive, store
<1>4. SyncInv(p) /\ proc[p] \in Launcher
  BY DEF LauncherInv, UploadTypeOK
<1> DEFINE r == [proc[p] EXCEPT !.at = l, !.call = h]
<1>5. /\ r \in Launcher /\ r.at = l /\ r.todo = proc[p].todo
      /\ r.sha = proc[p].sha /\ r.file = proc[p].file /\ r.call = h
  BY <1>4 DEF Launcher, Points
<1>6. proc' = [proc EXCEPT ![p] = r]
  BY <1>2
<1> HIDE DEF r
<1>7. /\ proc' \in [Launchers -> Launcher] /\ proc'[p] = r
      /\ \A q \in Launchers : q # p => proc'[q] = proc[q]
  BY <1>5, <1>6, Update
<1>8. \A q \in Launchers : Current(q)' = Current(q)
  BY <1>5, <1>7 DEF Current
<1>9. UploadTypeOK'
  BY <1>3, <1>7 DEF UploadTypeOK
<1>10. LauncherInv'
  <2>1. Grows
    BY <1>3 DEF Grows
  <2>3. SyncInv(p)'
    BY <1>1, <1>2, <1>3, <1>4, <1>5, <1>7, <1>8 DEF SyncInv, InHand, Hashed
  <2>4. QED
    BY <1>7, <2>1, <2>3, OthersUndisturbed
<1>11. h # None /\ pc[h] = "idle" /\ pc'[h] = "auth" /\ req'[h] = m
       /\ \A g \in Handlers : g # h => pc'[g] = pc[g] /\ req'[g] = req[g]
  BY <1>1 DEF Receive, TypeInv, TypeOK
<1>12. CallInv'
  <2>1. \A q \in Launchers : q # p /\ proc[q].call # None =>
          proc[q].call # h /\ proc[q].call \in Handlers
    BY <1>11 DEF CallInv, UploadTypeOK, Launcher
  <2>2. QED
    <3>1. \A q \in Launchers : q # p /\ proc'[q].call # None =>
            /\ proc'[q].at \in {"created", "put", "completed"}
            /\ pc'[proc'[q].call] # "idle"
            /\ req'[proc'[q].call].trace = Current(q)'
            /\ req'[proc'[q].call].op = Asks(proc'[q].at)
      BY <1>7, <1>8, <1>11, <2>1 DEF CallInv
    <3>2. /\ proc'[p].at \in {"created", "put", "completed"}
          /\ pc'[proc'[p].call] # "idle"
          /\ req'[proc'[p].call].trace = Current(p)'
          /\ req'[proc'[p].call].op = Asks(proc'[p].at)
      BY <1>1, <1>2, <1>5, <1>7, <1>8, <1>11
    <3>3. \A q, s \in Launchers : proc'[q].call # None /\ proc'[q].call = proc'[s].call => q = s
      BY <1>5, <1>7, <2>1 DEF CallInv
    <3>4. QED
      BY <3>1, <3>2, <3>3 DEF CallInv, Asks
<1>13. ServiceInv'
  <2>1. consent /\ bundle[Current(p)] = "ended"
    BY <1>1, <1>4 DEF SyncInv, InHand, Hashed
  <2>2. QED
    BY <1>1, <1>3, <1>11, <2>1 DEF ServiceInv, Complete
<1>14. MarkerInv' /\ UploadOnlyFinished'
  BY <1>2, <1>3, <1>5, <1>7, <1>8
     DEF MarkerInv, MarkerMeansComplete, UploadOnlyFinished, Complete, At
<1>15. QED
  BY <1>9, <1>10, <1>12, <1>13, <1>14

----------------------------------------------------------------------------
(* A call of a handler answers "complete" for completed sessions only, and    *)
(* creates a session only for a rollout that has ended.                       *)
LEMMA ServeStep ==
  ASSUME UploadInv, NEW h \in Handlers, Handle(h) \/ HandlerFails(h), TypeInv'
  PROVE  UploadInv'
<1> USE DEF UploadInv
<1>1. /\ req' = req /\ pc[h] # "idle" /\ pc'[h] # "idle"
      /\ \A g \in Handlers : g # h => pc'[g] = pc[g] /\ resp'[g] = resp[g]
      /\ \A t \in Traces : sessions[t] # None => sessions'[t] # None
      /\ \A t \in Traces : Complete(t) => Complete(t)'
      /\ \A t \in Traces : sessions'[t] # None => sessions[t] # None \/ t = req[h].trace
      /\ pc'[h] \in {"parts", "patch"} => sessions'[req[h].trace] # None
      /\ pc'[h] = "done" /\ resp'[h] = "complete" => Complete(req[h].trace)'
      /\ pc'[h] = "done" /\ req[h].op = "complete" => resp'[h] \in {"complete", "error"}
      /\ UNCHANGED <<disk, clock, proc>>
  BY HandleStep
<1>2. UNCHANGED <<consent, bundle, stamp, cache, marker, clock, proc>>
  BY <1>1 DEF disk
<1>3. UploadTypeOK'
  <2>1. faults' \in 0 .. MaxFaults
    BY TraceUploadAssumption DEF UploadTypeOK, Handle, HandlerFails, Fault
  <2>2. QED
    BY <1>2, <2>1 DEF UploadTypeOK
<1>4. LauncherInv' /\ \A q \in Launchers : Current(q)' = Current(q)
  BY <1>2 DEF LauncherInv, SyncInv, Current
<1>5. CallInv'
  <2>1. \A q \in Launchers : proc[q].call # None => proc[q].call \in Handlers
    BY DEF UploadTypeOK, Launcher
  <2>2. \A g \in Handlers : pc[g] # "idle" => pc'[g] # "idle"
    BY <1>1
  <2>3. QED
    BY <1>1, <1>2, <1>4, <2>1, <2>2 DEF CallInv
<1>6. ServiceInv'
  <2>1. \A g \in Handlers : pc[g] # "idle" => req[g].trace \in Traces
    BY RequestFields DEF TypeInv, Busy
  <2>2. ASSUME NEW g \in Handlers, pc'[g] # "idle"
        PROVE  /\ req'[g].op \in {"create", "part", "complete"}
               /\ consent' /\ bundle'[req'[g].trace] = "ended"
               /\ pc'[g] \in {"parts", "patch"} => sessions'[req'[g].trace] # None
               /\ pc'[g] = "done" /\ resp'[g] = "complete" => Complete(req[g].trace)'
               /\ pc'[g] = "done" /\ req'[g].op = "complete"
                    => resp'[g] \in {"complete", "error"}
    <3>1. CASE g = h
      BY <1>1, <1>2, <3>1 DEF ServiceInv
    <3>2. CASE g # h
      BY <1>1, <1>2, <2>1, <2>2, <3>2 DEF ServiceInv
    <3>3. QED
      BY <3>1, <3>2
  <2>3. QED
    BY <1>1, <2>2 DEF ServiceInv, Complete
<1>7. MarkerInv'
  <2>1. MarkerMeansComplete'
    BY <1>1, <1>2 DEF MarkerInv, MarkerMeansComplete, Complete
  <2>2. ASSUME NEW q \in Launchers, At(q, "marker")' PROVE Complete(Current(q))'
    <3>1. At(q, "marker") /\ SyncInv(q)
      BY <1>2, <2>2 DEF At, LauncherInv
    <3>2. Current(q) \in Traces
      BY <3>1, CurrentType DEF At, SyncInv, InHand, Hashed
    <3>3. Complete(Current(q))
      BY <3>1 DEF MarkerInv
    <3>4. QED
      BY <1>1, <1>4, <3>2, <3>3 DEF Complete
  <2>3. QED
    BY <2>1, <2>2 DEF MarkerInv
<1>8. UploadOnlyFinished'
  BY <1>1, <1>2 DEF UploadOnlyFinished, ServiceInv
<1>9. QED
  BY <1>3, <1>4, <1>5, <1>6, <1>7, <1>8

(* The core's new bundle, the clock and an answer that nobody hears change    *)
(* nothing that the sync relies on.                                           *)
LEMMA RestStep ==
  ASSUME UploadInv, TypeInv',
         \/ \E p \in Launchers, t \in Traces : CoreTrace(p, t)
         \/ \E h \in Handlers : Unheard(h)
         \/ Tick \/ UNCHANGED uvars
  PROVE  UploadInv'
<1> USE DEF UploadInv
<1>1. ASSUME NEW p \in Launchers, NEW t \in Traces, CoreTrace(p, t) PROVE UploadInv'
  <2> DEFINE r == [proc[p] EXCEPT !.own = t]
  <2>1. SyncInv(p) /\ proc[p] \in Launcher /\ proc[p].at = "core"
    BY <1>1 DEF LauncherInv, UploadTypeOK, CoreTrace, At
  <2>2. /\ r \in Launcher /\ r.at = proc[p].at /\ r.todo = proc[p].todo
        /\ r.sha = proc[p].sha /\ r.file = proc[p].file /\ r.call = proc[p].call
    BY <2>1 DEF Launcher
  <2>3. /\ proc' = [proc EXCEPT ![p] = r]
        /\ bundle' = [bundle EXCEPT ![t] = "running"] /\ bundle[t] = "absent"
        /\ UNCHANGED <<server, consent, stamp, cache, marker, clock, faults>>
    BY <1>1 DEF CoreTrace
  <2> HIDE DEF r
  <2>4. /\ proc' \in [Launchers -> Launcher] /\ proc'[p] = r
        /\ \A q \in Launchers : q # p => proc'[q] = proc[q]
    BY <2>2, <2>3, Update
  <2>5. UploadTypeOK' /\ Grows
    BY <2>3, <2>4 DEF UploadTypeOK, Grows
  <2>6. SyncInv(p)' /\ proc[p].call = None
    BY <2>1, <2>2, <2>3, <2>4 DEF SyncInv, InHand, Hashed, CallInv
  <2>7. LauncherInv'
    BY <2>4, <2>5, <2>6, OthersUndisturbed
  <2>8. Local(p)
    BY <2>1, <2>2, <2>3, <2>4, <2>5, <2>6, <2>7 DEF Local, Grows
  <2>9. QED
    BY <2>8, LocalStep
<1>2. ASSUME NEW h \in Handlers, Unheard(h) PROVE UploadInv'
  <2>1. /\ UNCHANGED <<consent, bundle, stamp, cache, marker, clock, proc, faults, sessions>>
        /\ \A q \in Launchers : proc[q].call # h
        /\ pc'[h] = "idle"
        /\ \A g \in Handlers : g # h => pc'[g] = pc[g] /\ req'[g] = req[g] /\ resp'[g] = resp[g]
    BY <1>2 DEF Unheard, Release, disk, store, TypeInv, TypeOK
  <2>2. \A q \in Launchers : proc[q].call # None => proc[q].call \in Handlers
    BY DEF UploadTypeOK, Launcher
  <2>3. UploadTypeOK' /\ LauncherInv' /\ MarkerInv' /\ UploadOnlyFinished'
    BY <2>1 DEF UploadTypeOK, LauncherInv, SyncInv, Current, MarkerInv, MarkerMeansComplete,
                Complete, At, UploadOnlyFinished
  <2>4. CallInv'
    BY <2>1, <2>2 DEF CallInv, Current
  <2>5. ServiceInv'
    BY <2>1 DEF ServiceInv, Complete
  <2>6. QED
    BY <2>3, <2>4, <2>5
<1>3. ASSUME Tick \/ UNCHANGED uvars PROVE UploadInv'
  <2>1. UNCHANGED <<server, consent, bundle, stamp, cache, marker, proc, faults>>
    BY <1>3 DEF Tick, uvars, disk
  <2>2. clock' \in 1 .. MaxTime
    BY <1>3, TraceUploadAssumption DEF Tick, uvars, UploadTypeOK
  <2>3. UploadTypeOK'
    BY <2>1, <2>2 DEF UploadTypeOK
  <2>4. LauncherInv' /\ CallInv' /\ ServiceInv' /\ MarkerInv' /\ UploadOnlyFinished'
    BY <2>1 DEF server, LauncherInv, SyncInv, CallInv, ServiceInv, Current, MarkerInv,
                MarkerMeansComplete, Complete, At, UploadOnlyFinished
  <2>5. QED
    BY <2>3, <2>4
<1>4. QED
  BY <1>1, <1>2, <1>3

----------------------------------------------------------------------------
(* The steps of one launcher that start no request, and those that start one. *)
Alone(p) ==
  \/ Launch(p) \/ LaunchUntraced(p) \/ StartSync(p) \/ EndSync(p)
  \/ ExitUntraced(p) \/ CoreExit(p) \/ Skip(p) \/ WriteState(p)
  \/ CreateArchive(p) \/ WriteMarker(p) \/ GiveUp(p) \/ Kill(p) \/ NoToken(p)

Takes(p) == HashArchive(p) \/ SessionCreated(p) \/ PartPut(p) \/ SessionCompleted(p)

Asking(p, h) == PostSession(p, h) \/ PutPart(p, h) \/ PostComplete(p, h)

(* Every step is of one of these kinds.                                       *)
LEMMA StepKinds ==
  ASSUME [UploadNext]_uvars
  PROVE  \/ \E p \in Launchers : Alone(p) \/ Takes(p) \/ RemoveArchive(p)
         \/ \E p \in Launchers, h \in Handlers : Asking(p, h)
         \/ \E h \in Handlers : Handle(h) \/ HandlerFails(h)
         \/ \/ \E p \in Launchers, t \in Traces : CoreTrace(p, t)
            \/ \E h \in Handlers : Unheard(h)
            \/ Tick \/ UNCHANGED uvars
BY DEF UploadNext, Run, Interrupt, Alone, Takes, Asking

(* What a launcher does without asking anything is local to the spool.        *)
LEMMA LauncherLocal ==
  ASSUME UploadInv, NEW p \in Launchers, Alone(p) \/ Takes(p) \/ RemoveArchive(p)
  PROVE  Local(p)
<1>1. CASE Alone(p)
  BY <1>1, AloneLocal DEF Alone
<1>2. CASE Takes(p)
  BY <1>2, AnswerLocal DEF Takes
<1>3. CASE RemoveArchive(p)
  BY <1>3, RemoveLocal
<1>4. QED
  BY <1>1, <1>2, <1>3

(* To the function, every step is one of its own or none: the launchers only  *)
(* send requests it knows and take its answers.                               *)
LEMMA UploadIsIngest ==
  ASSUME UploadInv, [UploadNext]_uvars
  PROVE  [Next]_vars
<1>1. ASSUME UNCHANGED server PROVE [Next]_vars
  BY <1>1 DEF server, vars
<1>2. ASSUME NEW p \in Launchers, Alone(p) \/ Takes(p) \/ RemoveArchive(p) PROVE [Next]_vars
  <2>1. UNCHANGED server \/ (proc[p].call # None /\ Release(proc[p].call))
    BY <1>2, LauncherLocal DEF Local
  <2>2. proc[p].call # None => proc[p].call \in Handlers
    BY DEF UploadInv, UploadTypeOK, Launcher
  <2>3. QED
    BY <1>1, <2>1, <2>2 DEF Next
<1>3. ASSUME NEW p \in Launchers, NEW h \in Handlers, Asking(p, h) PROVE [Next]_vars
  <2>1. \E r \in Request : Receive(h, r)
    BY <1>3, SendIsRequest DEF Asking, UploadInv
  <2>2. QED
    BY <2>1 DEF Next
<1>4. ASSUME NEW h \in Handlers, Handle(h) \/ HandlerFails(h) PROVE [Next]_vars
  BY <1>4 DEF Handle, HandlerFails, Next, Serve
<1>5. ASSUME NEW h \in Handlers, Unheard(h) PROVE [Next]_vars
  BY <1>5 DEF Unheard, Next
<1>6. ASSUME \/ \E p \in Launchers, t \in Traces : CoreTrace(p, t)
             \/ Tick \/ UNCHANGED uvars
      PROVE  [Next]_vars
  BY <1>1, <1>6 DEF CoreTrace, Tick, uvars
<1>7. QED
  BY <1>2, <1>3, <1>4, <1>5, <1>6, StepKinds

(* The invariant holds on a fresh ~/.zipcode and an empty server ...          *)
LEMMA UploadInvInit == UploadInit => UploadInv
<1> SUFFICES ASSUME UploadInit PROVE UploadInv
  OBVIOUS
<1>1. TypeInv
  BY TypeInit DEF UploadInit
<1>2. /\ Idle \in Launcher /\ Idle.at = "idle" /\ Idle.file = None /\ Idle.call = None
      /\ None # Linked
  BY TraceUploadAssumption DEF Idle, Launcher, Points, Linked
<1>3. /\ proc \in [Launchers -> Launcher]
      /\ \A p \in Launchers : proc[p] = Idle
  BY <1>2 DEF UploadInit
<1>4. UploadTypeOK
  <2>1. clock = 1 /\ faults = 0 /\ consent = FALSE
    BY DEF UploadInit
  <2>2. /\ bundle \in [Traces -> {"absent", "running", "ended"}]
        /\ stamp \in [Traces -> Versions \cup {None}]
        /\ cache \in [Traces -> Versions \cup {None}]
        /\ marker \in [Traces -> Versions \cup {None}]
    BY DEF UploadInit
  <2>3. QED
    <3>1. clock \in 1 .. MaxTime /\ faults \in 0 .. MaxFaults
      BY <2>1, TraceUploadAssumption
    <3>2. consent \in BOOLEAN
      BY <2>1
    <3>3. QED
      BY <1>3, <2>2, <3>1, <3>2 DEF UploadTypeOK
<1>5. LauncherInv
  BY <1>2, <1>3 DEF LauncherInv, SyncInv, InHand, Hashed
<1>6. CallInv
  BY <1>2, <1>3 DEF CallInv
<1>7. ServiceInv
  BY DEF UploadInit, Init, ServiceInv
<1>8. MarkerInv /\ UploadOnlyFinished
  BY <1>2, <1>3 DEF UploadInit, Init, MarkerInv, MarkerMeansComplete, UploadOnlyFinished, At
<1>9. QED
  BY <1>1, <1>4, <1>5, <1>6, <1>7, <1>8 DEF UploadInv

(* ... and every step keeps it.                                               *)
LEMMA UploadInvStep == UploadInv /\ [UploadNext]_uvars => UploadInv'
<1> SUFFICES ASSUME UploadInv, [UploadNext]_uvars PROVE UploadInv'
  OBVIOUS
<1>1. TypeInv'
  BY UploadIsIngest, TypeStep DEF UploadInv
<1>2. ASSUME NEW p \in Launchers, Alone(p) \/ Takes(p) \/ RemoveArchive(p) PROVE UploadInv'
  BY <1>1, <1>2, LauncherLocal, LocalStep
<1>3. ASSUME NEW p \in Launchers, NEW h \in Handlers, Asking(p, h) PROVE UploadInv'
  BY <1>1, <1>3, AskStep DEF Asking
<1>4. ASSUME NEW h \in Handlers, Handle(h) \/ HandlerFails(h) PROVE UploadInv'
  BY <1>1, <1>4, ServeStep
<1>5. ASSUME \/ \E p \in Launchers, t \in Traces : CoreTrace(p, t)
             \/ \E h \in Handlers : Unheard(h)
             \/ Tick \/ UNCHANGED uvars
      PROVE  UploadInv'
  BY <1>1, <1>5, RestStep
<1>6. QED
  BY <1>2, <1>3, <1>4, <1>5, StepKinds

(* The invariant of the composed system.                                      *)
THEOREM UploadInvariant == UploadSpec => []UploadInv
  BY UploadInvInit, UploadInvStep, PTL DEF UploadSpec

(* The spool, the cache, the markers and the launchers' locals keep their     *)
(* types.                                                                     *)
THEOREM UploadTypeCorrect == UploadSpec => []UploadTypeOK
<1>1. UploadInv => UploadTypeOK
  BY DEF UploadInv
<1>2. QED
  BY <1>1, UploadInvariant, PTL

(* write_upload_marker is reached only when the server has the whole upload,  *)
(* whatever launchers run at once and whichever requests they gave up on.     *)
THEOREM MarkersSound == UploadSpec => []MarkerMeansComplete
<1>1. UploadInv => MarkerMeansComplete
  BY DEF UploadInv, MarkerInv
<1>2. QED
  BY <1>1, UploadInvariant, PTL

(* sync_completed_traces uploads with consent and ended rollouts only.        *)
THEOREM OnlyFinishedUploaded == UploadSpec => []UploadOnlyFinished
<1>1. UploadInv => UploadOnlyFinished
  BY DEF UploadInv
<1>2. QED
  BY <1>1, UploadInvariant, PTL

(* Under its launchers the function behaves as module TraceIngest allows, so  *)
(* that the theorems about it hold of the composed system.                    *)
THEOREM UploadImplementsIngest == UploadSpec => Spec
<1>1. UploadInit => Init
  BY DEF UploadInit
<1>2. UploadInv /\ [UploadNext]_uvars => [Next]_vars
  BY UploadIsIngest
<1>3. QED
  BY <1>1, <1>2, UploadInvariant, PTL DEF UploadSpec, Spec
=============================================================================
