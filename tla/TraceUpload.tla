---------------------------- MODULE TraceUpload ----------------------------
(***************************************************************************)
(* The launcher's trace spool and upload (zipcode-cli/src/trace_upload.rs  *)
(* and launch_core of main.rs) composed with the ingest function of module *)
(* TraceIngest.                                                            *)
(*                                                                         *)
(* Several launchers can run at once on one ~/.zipcode.  They share the    *)
(* spool, the upload cache and the markers without any lock.  A launcher   *)
(* talks to the function one request at a time; when it gives up on one    *)
(* (its 120 s timeout, Ctrl-C) the request goes on being served.           *)
(*                                                                         *)
(* sync_completed_traces rewrites state.json before it archives a bundle,  *)
(* and the tar header carries that file's modification time in seconds.    *)
(* The archive of a finished bundle is therefore determined by that        *)
(* second: Versions are seconds.                                           *)
(***************************************************************************)
EXTENDS TraceIngest

CONSTANTS
  Launchers,   \* launcher processes of one user on one ~/.zipcode
  MaxTime,     \* bound: the last second of the clock
  MaxFaults    \* bound: interruptions (timeout, kill, failed call, no token)

ASSUME TraceUploadAssumption ==
  /\ MaxTime \in Nat \ {0}
  /\ MaxFaults \in Nat
  /\ Versions = 1 .. MaxTime
  /\ Traces \subseteq Nat
  /\ IsFiniteSet(Traces)
  /\ None \notin Nat /\ None \notin Handlers

VARIABLES
  clock,    \* wall clock, in seconds
  consent,  \* full-trace-consent.json holds the current policy version
  bundle,   \* trace-spool: "absent", "running" (no end event) or "ended"
  stamp,    \* modification time of each bundle's state.json
  cache,    \* .upload-cache/<trace>.tar.gz, by the version of its bytes
  marker,   \* .supabase-uploaded.json: the bundle_sha256 it records
  proc,     \* proc[p]: where launcher p is, and its locals
  faults    \* interruptions so far

disk   == <<consent, bundle, stamp, cache, marker>>
server == <<consents, sessions, parts, objects, req, pc, seen, paths, resp, purged>>
uvars  == <<server, disk, clock, proc, faults>>

\* No version: an open file whose bytes are those of the cached file.
Linked == 0

\* at: program point; late: second sync, after the core has exited;
\* todo: bundles the sync has not looked at; sha: bundle_sha256 of the archive;
\* part: part_number; file: the archive opened by upload_parts, Linked while
\* it is still the file in the cache; call: the handler serving the request;
\* own: the bundle that this launcher's core writes.
Idle == [at |-> "idle", late |-> FALSE, todo |-> {}, sha |-> None, part |-> 0,
         file |-> None, call |-> None, own |-> None]

Points == {"idle", "token", "sync", "archive", "hash", "post", "created", "parts", "put",
           "completed", "marker", "remove", "core", "untraced"}
Launcher ==
  [at : Points, late : BOOLEAN, todo : SUBSET Traces, sha : Versions \cup {None}, part : Nat,
   file : Versions \cup {None, Linked}, call : Handlers \cup {None},
   own : Traces \cup {None}]

UploadInit ==
  /\ Init
  /\ clock = 1
  /\ consent = FALSE
  /\ bundle = [t \in Traces |-> "absent"]
  /\ stamp = [t \in Traces |-> None]
  /\ cache = [t \in Traces |-> None]
  /\ marker = [t \in Traces |-> None]
  /\ proc = [p \in Launchers |-> Idle]
  /\ faults = 0

At(p, l) == proc[p].at = l

\* bundles.sort(): the sync handles the smallest name first.
Current(p) == Min(proc[p].todo)

Go(p, l) == proc' = [proc EXCEPT ![p].at = l]

\* The sync ends, normally or through `?`.  Its error is only printed: the
\* launcher goes on to the core, or exits.
Leave(p) ==
  proc' = [proc EXCEPT ![p] =
             IF @.late THEN Idle ELSE [Idle EXCEPT !.at = "core"]]

----------------------------------------------------------------------------
(***************************************************************************)
(* launch_core                                                             *)
(***************************************************************************)

\* TraceSetup::prepare with ZIPCODE_DISABLE_TRACE_UPLOAD unset: the policy is
\* accepted now or was before.  A user who declines changes nothing.
Launch(p) ==
  /\ At(p, "idle")
  /\ consent' = TRUE
  /\ Go(p, "token")
  /\ UNCHANGED <<server, bundle, stamp, cache, marker, clock, faults>>

\* TraceUploadMode::Disabled: the core runs with CODEX_ROLLOUT_TRACE_ROOT
\* removed, and neither sync happens.
LaunchUntraced(p) ==
  /\ At(p, "idle")
  /\ Go(p, "untraced")
  /\ UNCHANGED <<server, disk, clock, faults>>

ExitUntraced(p) ==
  /\ At(p, "untraced")
  /\ Go(p, "idle")
  /\ UNCHANGED <<server, disk, clock, faults>>

\* access_token succeeds and sync_completed_traces lists the spool.
StartSync(p) ==
  /\ At(p, "token")
  /\ proc' = [proc EXCEPT ![p].at = "sync",
                          ![p].todo = {t \in Traces : bundle[t] # "absent"}]
  /\ UNCHANGED <<server, disk, clock, faults>>

EndSync(p) ==
  /\ At(p, "sync")
  /\ proc[p].todo = {}
  /\ Leave(p)
  /\ UNCHANGED <<server, disk, clock, faults>>

\* The core records one bundle per session ...
CoreTrace(p, t) ==
  /\ At(p, "core")
  /\ proc[p].own = None
  /\ bundle[t] = "absent"
  /\ bundle' = [bundle EXCEPT ![t] = "running"]
  /\ proc' = [proc EXCEPT ![p].own = t]
  /\ UNCHANGED <<server, consent, stamp, cache, marker, clock, faults>>

\* ... and ends it, unless it is killed; command.status() returns either way.
CoreExit(p) ==
  /\ At(p, "core")
  /\ LET t == proc[p].own IN
       \/ UNCHANGED bundle
       \/ t # None /\ bundle' = [bundle EXCEPT ![t] = "ended"]
  /\ proc' = [proc EXCEPT ![p] = [Idle EXCEPT !.at = "token", !.late = TRUE]]
  /\ UNCHANGED <<server, consent, stamp, cache, marker, clock, faults>>

----------------------------------------------------------------------------
(***************************************************************************)
(* sync_completed_traces: one bundle                                       *)
(***************************************************************************)

\* A bundle with a marker, and one whose rollout is still Running, are passed
\* over.
Skip(p) ==
  /\ At(p, "sync")
  /\ proc[p].todo # {}
  /\ marker[Current(p)] # None \/ bundle[Current(p)] = "running"
  /\ proc' = [proc EXCEPT ![p].todo = @ \ {Current(p)}]
  /\ UNCHANGED <<server, disk, clock, faults>>

\* Mutant: the status of the replayed rollout is not looked at.
WriteStateOfAny(p) ==
  /\ At(p, "sync")
  /\ proc[p].todo # {}
  /\ marker[Current(p)] = None
  /\ stamp' = [stamp EXCEPT ![Current(p)] = clock]
  /\ Go(p, "archive")
  /\ UNCHANGED <<server, consent, bundle, cache, marker, clock, faults>>

\* Mutant: the modification time is rounded up.
WriteStateLate(p) ==
  /\ At(p, "sync")
  /\ proc[p].todo # {}
  /\ marker[Current(p)] = None
  /\ bundle[Current(p)] = "ended"
  /\ stamp' = [stamp EXCEPT ![Current(p)] = clock + 1]
  /\ Go(p, "archive")
  /\ UNCHANGED <<server, consent, bundle, cache, marker, clock, faults>>

\* The reduced trace of an ended rollout is written over the last one.
WriteState(p) ==
  /\ At(p, "sync")
  /\ proc[p].todo # {}
  /\ marker[Current(p)] = None
  /\ bundle[Current(p)] = "ended"
  /\ stamp' = [stamp EXCEPT ![Current(p)] = clock]
  /\ Go(p, "archive")
  /\ UNCHANGED <<server, consent, bundle, cache, marker, clock, faults>>

\* create_archive truncates and rewrites the cached file in place.
CreateArchive(p) ==
  /\ At(p, "archive")
  /\ cache' = [cache EXCEPT ![Current(p)] = stamp[Current(p)]]
  /\ Go(p, "hash")
  /\ UNCHANGED <<server, consent, bundle, stamp, marker, clock, faults>>

\* file_sha256 reads the file again; another launcher may have removed it.
HashArchive(p) ==
  /\ At(p, "hash")
  /\ LET v == cache[Current(p)] IN
       IF v = None THEN Leave(p)
       ELSE proc' = [proc EXCEPT ![p].at = "post", ![p].sha = v]
  /\ UNCHANGED <<server, disk, clock, faults>>

\* A request is on the wire and is served by a free handler.
Send(p, h, r, l) ==
  /\ proc[p].call = None
  /\ Receive(h, r)
  /\ proc' = [proc EXCEPT ![p].at = l, ![p].call = h]
  /\ UNCHANGED <<disk, clock, faults>>

\* The answer arrives before the timeout.
Answer(p, l) == At(p, l) /\ proc[p].call # None /\ pc[proc[p].call] = "done"

PostSession(p, h) ==
  /\ At(p, "post")
  /\ \E l \in Logins :
       Send(p, h, [op |-> "create", login |-> l, trace |-> Current(p),
                   ver |-> proc[p].sha], "created")

\* "complete": nothing left to send.  "uploading": upload_parts opens the
\* archive.  A missing file or an error status aborts the sync.
SessionCreated(p) ==
  /\ Answer(p, "created")
  /\ Release(proc[p].call)
  /\ \/ /\ resp[proc[p].call] = "complete"
        /\ proc' = [proc EXCEPT ![p].at = "marker", ![p].call = None]
     \/ /\ resp[proc[p].call] = "uploading"
        /\ cache[Current(p)] # None
        /\ proc' = [proc EXCEPT ![p].at = "parts", ![p].call = None,
                                ![p].part = 0, ![p].file = Linked]
     \/ /\ \/ resp[proc[p].call] = "error"
           \/ resp[proc[p].call] = "uploading" /\ cache[Current(p)] = None
        /\ Leave(p)
  /\ UNCHANGED <<disk, clock, faults>>

\* The bytes that the next read of the open archive returns.
Contents(p) ==
  IF proc[p].file = Linked THEN cache[Current(p)] ELSE proc[p].file

PutPart(p, h) ==
  /\ At(p, "parts")
  /\ proc[p].part < PartCount(Contents(p))
  /\ \E l \in Logins :
       Send(p, h, [op |-> "part", login |-> l, trace |-> Current(p),
                   ver |-> Contents(p), part |-> proc[p].part, intact |-> TRUE],
            "put")

PartPut(p) ==
  /\ Answer(p, "put")
  /\ Release(proc[p].call)
  /\ IF resp[proc[p].call] = "error" THEN Leave(p)
     ELSE proc' = [proc EXCEPT ![p].at = "parts", ![p].call = None,
                               ![p].part = @ + 1]
  /\ UNCHANGED <<disk, clock, faults>>

\* read returned 0: every part was sent.
PostComplete(p, h) ==
  /\ At(p, "parts")
  /\ proc[p].part >= PartCount(Contents(p))
  /\ \E l \in Logins :
       Send(p, h, [op |-> "complete", login |-> l, trace |-> Current(p)], "completed")

\* Mutant: no error_for_status on the answer.
SessionCompletedUnchecked(p) ==
  /\ Answer(p, "completed")
  /\ Release(proc[p].call)
  /\ proc' = [proc EXCEPT ![p].at = "marker", ![p].call = None]
  /\ UNCHANGED <<disk, clock, faults>>

SessionCompleted(p) ==
  /\ Answer(p, "completed")
  /\ Release(proc[p].call)
  /\ IF resp[proc[p].call] = "error" THEN Leave(p)
     ELSE proc' = [proc EXCEPT ![p].at = "marker", ![p].call = None]
  /\ UNCHANGED <<disk, clock, faults>>

WriteMarker(p) ==
  /\ At(p, "marker")
  /\ marker' = [marker EXCEPT ![Current(p)] = proc[p].sha]
  /\ Go(p, "remove")
  /\ UNCHANGED <<server, consent, bundle, stamp, cache, clock, faults>>

\* Launchers that have the archive open keep reading the removed file.
RemoveArchive(p) ==
  /\ At(p, "remove")
  /\ LET t == Current(p)
         next == [Idle EXCEPT !.at = "sync", !.late = proc[p].late,
                              !.todo = proc[p].todo \ {t}]
     IN  IF cache[t] = None THEN Leave(p) /\ UNCHANGED cache
         ELSE /\ cache' = [cache EXCEPT ![t] = None]
              /\ proc' = [q \in Launchers |->
                   IF q = p THEN next
                   ELSE IF proc[q].file = Linked /\ Current(q) = t
                        THEN [proc[q] EXCEPT !.file = cache[t]]
                        ELSE proc[q]]
  /\ UNCHANGED <<server, consent, bundle, stamp, marker, clock, faults>>

----------------------------------------------------------------------------
(***************************************************************************)
(* Interruptions, and the clock                                            *)
(***************************************************************************)

Fault == faults < MaxFaults /\ faults' = faults + 1

\* The launcher's request times out or its connection breaks: `?` ends the
\* sync.  The handler still runs.
GiveUp(p) ==
  /\ proc[p].call # None
  /\ Fault
  /\ Leave(p)
  /\ UNCHANGED <<server, disk, clock>>

\* The launcher is killed anywhere.  A core it leaves behind may still end
\* its bundle.
Kill(p) ==
  /\ ~At(p, "idle")
  /\ Fault
  /\ \/ UNCHANGED bundle
     \/ proc[p].own # None /\ bundle' = [bundle EXCEPT ![proc[p].own] = "ended"]
  /\ proc' = [proc EXCEPT ![p] = Idle]
  /\ UNCHANGED <<server, consent, stamp, cache, marker, clock>>

\* access_token fails: that sync is left out.
NoToken(p) ==
  /\ At(p, "token")
  /\ Fault
  /\ Leave(p)
  /\ UNCHANGED <<server, disk, clock>>

\* A call that a handler makes fails.
HandlerFails(h) == Fail(h) /\ Fault /\ UNCHANGED <<disk, clock, proc>>

\* The answer to a request that nobody waits for any more.
Unheard(h) ==
  /\ \A p \in Launchers : proc[p].call # h
  /\ Release(h)
  /\ UNCHANGED <<disk, clock, proc, faults>>

Tick ==
  /\ clock < MaxTime
  /\ clock' = clock + 1
  /\ UNCHANGED <<server, disk, proc, faults>>

----------------------------------------------------------------------------
Handle(h) ==
  /\ \/ Authenticate(h) \/ CreateSession(h) \/ UploadPart(h) \/ CompleteSession(h)
  /\ UNCHANGED <<disk, clock, proc, faults>>

Run(p) ==
  \/ StartSync(p) \/ EndSync(p) \/ ExitUntraced(p) \/ CoreExit(p)
  \/ Skip(p) \/ WriteState(p) \/ CreateArchive(p) \/ HashArchive(p)
  \/ \E h \in Handlers : PostSession(p, h) \/ PutPart(p, h) \/ PostComplete(p, h)
  \/ SessionCreated(p) \/ PartPut(p) \/ SessionCompleted(p)
  \/ WriteMarker(p) \/ RemoveArchive(p)

Interrupt ==
  \/ \E p \in Launchers : GiveUp(p) \/ Kill(p) \/ NoToken(p)
  \/ \E h \in Handlers : HandlerFails(h)

UploadNext ==
  \/ \E p \in Launchers : Launch(p) \/ LaunchUntraced(p) \/ Run(p)
  \/ \E p \in Launchers, t \in Traces : CoreTrace(p, t)
  \/ \E h \in Handlers : Handle(h) \/ Unheard(h)
  \/ Interrupt
  \/ Tick

UploadSpec == UploadInit /\ [][UploadNext]_uvars

(***************************************************************************)
(* Fairness: the function serves what it received, a launcher that runs    *)
(* goes on, its user quits the core at some time, and launches a traced    *)
(* session again and again.                                                *)
(***************************************************************************)
Fairness ==
  /\ \A h \in Handlers : WF_uvars(Handle(h)) /\ WF_uvars(Unheard(h))
  /\ \A p \in Launchers : WF_uvars(Run(p)) /\ SF_uvars(Launch(p))

FairUploadSpec == UploadSpec /\ Fairness
----------------------------------------------------------------------------
(***************************************************************************)
(* Properties                                                              *)
(***************************************************************************)

\* Type invariant of the spool, the cache and the launchers.
UploadTypeOK ==
  /\ clock \in 1 .. MaxTime
  /\ consent \in BOOLEAN
  /\ bundle \in [Traces -> {"absent", "running", "ended"}]
  /\ stamp \in [Traces -> Versions \cup {None}]
  /\ cache \in [Traces -> Versions \cup {None}]
  /\ marker \in [Traces -> Versions \cup {None}]
  /\ faults \in 0 .. MaxFaults
  /\ proc \in [Launchers -> Launcher]

\* The marker is only written once the server has finished the upload: after
\* it, no sync looks at the bundle again, so a marker without a complete
\* session would lose the trace.  Launchers and abandoned requests interleave.
MarkerMeansComplete ==
  \A t \in Traces :
    marker[t] # None => sessions[t] # None /\ sessions[t].status = "complete"

\* What the server holds was recorded with consent and had ended: no running
\* rollout is uploaded, whichever launcher finds its bundle.
UploadOnlyFinished ==
  \A t \in Traces :
    sessions[t] # None => consent /\ bundle[t] = "ended"

\* The stored parts of a complete session are the archive whose SHA-256 the
\* session row records: every part was cut from that archive.
CompleteMatchesHash ==
  \A t \in Traces :
    sessions[t] # None /\ sessions[t].status = "complete"
      => \A n \in RowNumbers(parts[t]) :
           /\ parts[t][n].ver = sessions[t].ver
           /\ objects[Path(parts[t][n].login, t, n)] = sessions[t].ver

\* Every bundle that ended is uploaded in the end: an upload that did not
\* finish is retried by a later launch until it does.
EveryBundleUploaded ==
  \A t \in Traces : bundle[t] = "ended" ~> marker[t] # None
=============================================================================
