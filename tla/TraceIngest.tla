---------------------------- MODULE TraceIngest ----------------------------
(***************************************************************************)
(* The trace-ingest Edge Function (supabase/functions/zipcode-trace-ingest *)
(* /index.ts) and the tables and bucket it writes.                         *)
(*                                                                         *)
(* Every request is served by a handler that makes several independent     *)
(* REST and Storage calls.  Nothing holds a lock or a transaction across   *)
(* them, so one action of this module is one such call and handlers        *)
(* interleave between any two of them.                                     *)
(*                                                                         *)
(* An archive is identified by its version: the bytes, the SHA-256 and the *)
(* size of one tar.gz.  A part is named by the version it was cut from.    *)
(***************************************************************************)
EXTENDS Integers, FiniteSets, FiniteSetsExt

CONSTANTS
  Logins,       \* GitHub logins
  Traces,       \* trace ids
  Versions,     \* distinct archives (bundle_sha256 values)
  Size,         \* Size[v]: total_bytes of archive v
  PartBytes,    \* PART_BYTES of the client, MAX_PART_BYTES of the function
  Handlers,     \* request slots: concurrent invocations of the function
  Operations,   \* the request kinds that clients send
  None          \* absent row, absent object, idle slot

ASSUME TraceIngestAssumption ==
  /\ PartBytes \in Nat \ {0}
  /\ Size \in [Versions -> Nat \ {0}]
  /\ Operations \subseteq {"create", "part", "complete", "delete"}
  /\ None \notin Versions
  /\ None \notin [login : Logins, ver : Versions]
  /\ None \notin [login : Logins, ver : Versions, status : {"uploading", "complete"}]

VARIABLES
  consents,    \* zipcode_trace_consents: logins with an accepted policy
  sessions,    \* zipcode_trace_sessions
  parts,       \* zipcode_trace_parts, by trace and part number
  objects,     \* the zipcode-rollout-traces bucket
  req,         \* req[h]: the request handler h serves
  pc,          \* pc[h]: the next call handler h makes
  seen,        \* seen[h]: the archive version of the session row h read
  paths,       \* paths[h]: the object paths a delete listed
  resp,        \* resp[h]: the response, once pc[h] = "done"
  purged       \* history: traces whose objects a delete has removed

store == <<consents, sessions, parts, objects>>
local == <<req, pc, seen, paths, resp>>
vars  == <<consents, sessions, parts, objects, req, pc, seen, paths, resp, purged>>

(***************************************************************************)
(* part_count = total_bytes.div_ceil(PART_BYTES); every part is full but   *)
(* the last.                                                               *)
(***************************************************************************)
PartCount(v) == (Size[v] + PartBytes - 1) \div PartBytes

PartSize(v, n) ==
  IF n = PartCount(v) - 1 THEN Size[v] - n * PartBytes ELSE PartBytes

PartNumbers == UNION {0 .. PartCount(v) - 1 : v \in Versions}

Path(l, t, n) == <<l, t, n>>
Paths == Logins \X Traces \X PartNumbers

Session == [login : Logins, ver : Versions, status : {"uploading", "complete"}]
Row     == [login : Logins, ver : Versions]   \* object_path prefix and sha256

\* The body of a part request either hashes to its x-zipcode-part-sha256
\* header or was damaged on the way.
Request ==
  [op : {"create"}, login : Logins, trace : Traces, ver : Versions]
    \cup [op : {"part"}, login : Logins, trace : Traces, ver : Versions,
          part : PartNumbers, intact : BOOLEAN]
    \cup [op : {"complete", "delete"}, login : Logins, trace : Traces]

Responses == {"uploading", "complete", "ok", "error"}

NoRows == [n \in PartNumbers |-> None]
RowNumbers(rows) == {n \in PartNumbers : rows[n] # None}
TotalBytes(rows) ==
  MapThenSumSet(LAMBDA n : PartSize(rows[n].ver, n), RowNumbers(rows))

Init ==
  /\ consents = {}
  /\ sessions = [t \in Traces |-> None]
  /\ parts = [t \in Traces |-> NoRows]
  /\ objects = [p \in Paths |-> None]
  /\ req = [h \in Handlers |-> None]
  /\ pc = [h \in Handlers |-> "idle"]
  /\ seen = [h \in Handlers |-> None]
  /\ paths = [h \in Handlers |-> {}]
  /\ resp = [h \in Handlers |-> None]
  /\ purged = {}

----------------------------------------------------------------------------
(***************************************************************************)
(* Requests arrive and responses leave.                                    *)
(***************************************************************************)

\* A request reaches a free invocation of the function.
Receive(h, r) ==
  /\ pc[h] = "idle"
  /\ r.op \in Operations
  /\ req' = [req EXCEPT ![h] = r]
  /\ pc' = [pc EXCEPT ![h] = "auth"]
  /\ UNCHANGED <<store, seen, paths, resp, purged>>

\* Deno.serve: the caller's token is checked with /auth/me, then the request
\* is routed to its handler.  A refused token is Fail below.
Authenticate(h) ==
  /\ pc[h] = "auth"
  /\ pc' = [pc EXCEPT ![h] = "read"]
  /\ UNCHANGED <<store, req, seen, paths, resp, purged>>

Goto(h, l) == pc' = [pc EXCEPT ![h] = l] /\ UNCHANGED resp

Respond(h, r) ==
  /\ pc' = [pc EXCEPT ![h] = "done"]
  /\ resp' = [resp EXCEPT ![h] = r]

\* The response reaches the caller (or nobody) and the invocation ends.
Release(h) ==
  /\ pc[h] = "done"
  /\ req' = [req EXCEPT ![h] = None]
  /\ pc' = [pc EXCEPT ![h] = "idle"]
  /\ seen' = [seen EXCEPT ![h] = None]
  /\ paths' = [paths EXCEPT ![h] = {}]
  /\ resp' = [resp EXCEPT ![h] = None]
  /\ UNCHANGED <<store, purged>>

\* requireSuccess and the catch of Deno.serve: a refused token, a failed call
\* to a service or an invocation that is stopped ends the request between two
\* calls.  What earlier calls wrote stays.
Fail(h) ==
  /\ pc[h] \notin {"idle", "done"}
  /\ Respond(h, "error")
  /\ UNCHANGED <<store, req, seen, paths, purged>>

----------------------------------------------------------------------------
(***************************************************************************)
(* createSession                                                           *)
(***************************************************************************)

Serving(h, op, l) == pc[h] = l /\ req[h].op = op

SameUpload(s, r) ==
  s.ver = r.ver /\ Size[s.ver] = Size[r.ver] /\ PartCount(s.ver) = PartCount(r.ver)

CreateRead(h) ==
  /\ Serving(h, "create", "read")
  /\ LET s == sessions[req[h].trace] IN
       \/ s = None /\ Goto(h, "consent")
       \/ /\ s # None
          /\ Respond(h, IF s.login = req[h].login /\ SameUpload(s, req[h])
                        THEN s.status ELSE "error")
  /\ UNCHANGED <<store, req, seen, paths, purged>>

\* Mutant: the result of the consent upsert is not checked.
CreateConsentUnchecked(h) ==
  /\ Serving(h, "create", "consent")
  /\ consents' \in {consents, consents \cup {req[h].login}}
  /\ Goto(h, "insert")
  /\ UNCHANGED <<sessions, parts, objects, req, seen, paths, purged>>

\* The accepted policy is recorded before the session row is written.
CreateConsent(h) ==
  /\ Serving(h, "create", "consent")
  /\ consents' = consents \cup {req[h].login}
  /\ Goto(h, "insert")
  /\ UNCHANGED <<sessions, parts, objects, req, seen, paths, purged>>

\* Mutant: the table without its check on completed_at.
UpsertAlwaysAllowed(s) == FALSE

\* The upsert merges over a row that appeared after the read.  Only the check
\* "status <> 'complete' implies completed_at is null" stops it: the upsert
\* leaves completed_at alone.
UpsertViolatesCheck(s) == s # None /\ s.status = "complete"

CreateUpsert(h) ==
  /\ Serving(h, "create", "insert")
  /\ LET r == req[h] IN
       IF UpsertViolatesCheck(sessions[r.trace])
       THEN Respond(h, "error") /\ UNCHANGED sessions
       ELSE /\ sessions' = [sessions EXCEPT ![r.trace] =
                 [login |-> r.login, ver |-> r.ver, status |-> "uploading"]]
            /\ Respond(h, "uploading")
  /\ UNCHANGED <<consents, parts, objects, req, seen, paths, purged>>

----------------------------------------------------------------------------
(***************************************************************************)
(* uploadPart                                                              *)
(***************************************************************************)

\* ownedSession: a row of another login answers 404 like a missing one.
Owned(h) ==
  LET s == sessions[req[h].trace] IN s # None /\ s.login = req[h].login

PartRead(h) ==
  /\ Serving(h, "part", "read")
  /\ LET r == req[h]
         s == sessions[r.trace]
     IN  \/ ~Owned(h) /\ Respond(h, "error")
         \/ Owned(h) /\ s.status = "complete" /\ Respond(h, "ok")
         \/ /\ Owned(h) /\ s.status # "complete"
            /\ IF r.part < PartCount(s.ver) /\ r.intact
               THEN Goto(h, "store")
               ELSE Respond(h, "error")
  /\ UNCHANGED <<store, req, seen, paths, purged>>

\* Mutant: the result of the Storage call is not checked.
PartStoreUnchecked(h) ==
  /\ Serving(h, "part", "store")
  /\ LET r == req[h] IN
       \/ objects' = [objects EXCEPT ![Path(r.login, r.trace, r.part)] = r.ver]
       \/ UNCHANGED objects
  /\ Goto(h, "row")
  /\ UNCHANGED <<consents, sessions, parts, req, seen, paths, purged>>

\* The object is stored, with x-upsert, before its row.
PartStore(h) ==
  /\ Serving(h, "part", "store")
  /\ LET r == req[h] IN
       objects' = [objects EXCEPT ![Path(r.login, r.trace, r.part)] = r.ver]
  /\ Goto(h, "row")
  /\ UNCHANGED <<consents, sessions, parts, req, seen, paths, purged>>

\* The foreign key of zipcode_trace_parts refuses a row without a session.
PartRow(h) ==
  /\ Serving(h, "part", "row")
  /\ LET r == req[h] IN
       IF sessions[r.trace] = None
       THEN Respond(h, "error") /\ UNCHANGED parts
       ELSE /\ parts' = [parts EXCEPT ![r.trace][r.part] =
                           [login |-> r.login, ver |-> r.ver]]
            /\ Respond(h, "ok")
  /\ UNCHANGED <<consents, sessions, objects, req, seen, paths, purged>>

----------------------------------------------------------------------------
(***************************************************************************)
(* completeSession                                                         *)
(***************************************************************************)

CompleteRead(h) ==
  /\ Serving(h, "complete", "read")
  /\ \/ ~Owned(h) /\ Respond(h, "error") /\ UNCHANGED seen
     \/ /\ Owned(h)
        /\ seen' = [seen EXCEPT ![h] = sessions[req[h].trace].ver]
        /\ Goto(h, "parts")
  /\ UNCHANGED <<store, req, paths, purged>>

\* Mutant: the parts that are there are in range; their number is not compared.
PartsInRange(rows, v) == RowNumbers(rows) \subseteq 0 .. PartCount(v) - 1

\* Row count, contiguous part numbers and the byte total against the session
\* row read before.  The parts' hashes are not combined into bundle_sha256.
AllPartsPresent(rows, v) ==
  /\ Cardinality(RowNumbers(rows)) = PartCount(v)
  /\ RowNumbers(rows) = 0 .. PartCount(v) - 1
  /\ TotalBytes(rows) = Size[v]

CompleteParts(h) ==
  /\ Serving(h, "complete", "parts")
  /\ IF AllPartsPresent(parts[req[h].trace], seen[h])
     THEN Goto(h, "patch")
     ELSE Respond(h, "error")
  /\ UNCHANGED <<store, req, seen, paths, purged>>

\* Mutant: an upsert of the status column in place of the PATCH.
CompleteUpsert(h) ==
  /\ Serving(h, "complete", "patch")
  /\ LET t == req[h].trace IN
       sessions' = [sessions EXCEPT ![t] =
                      IF @ = None THEN [status |-> "complete"]
                      ELSE [@ EXCEPT !.status = "complete"]]
  /\ Respond(h, "complete")
  /\ UNCHANGED <<consents, parts, objects, req, seen, paths, purged>>

\* A PATCH whose filter matches no row succeeds and changes nothing.
CompletePatch(h) ==
  /\ Serving(h, "complete", "patch")
  /\ LET t == req[h].trace IN
       sessions' = IF sessions[t] = None THEN sessions
                   ELSE [sessions EXCEPT ![t].status = "complete"]
  /\ Respond(h, "complete")
  /\ UNCHANGED <<consents, parts, objects, req, seen, paths, purged>>

----------------------------------------------------------------------------
(***************************************************************************)
(* deleteSession                                                           *)
(***************************************************************************)

DeleteRead(h) ==
  /\ Serving(h, "delete", "read")
  /\ IF Owned(h) THEN Goto(h, "list") ELSE Respond(h, "error")
  /\ UNCHANGED <<store, req, seen, paths, purged>>

DeleteList(h) ==
  /\ Serving(h, "delete", "list")
  /\ LET t == req[h].trace IN
       paths' = [paths EXCEPT ![h] =
         {Path(parts[t][n].login, t, n) : n \in RowNumbers(parts[t])}]
  /\ Goto(h, "objects")
  /\ UNCHANGED <<store, req, seen, purged>>

\* Batches of 1000 paths; one batch here.
DeleteObjects(h) ==
  /\ Serving(h, "delete", "objects")
  /\ objects' = [p \in Paths |-> IF p \in paths[h] THEN None ELSE objects[p]]
  /\ purged' = purged \cup {req[h].trace}
  /\ Goto(h, "remove")
  /\ UNCHANGED <<consents, sessions, parts, req, seen, paths>>

\* on delete cascade removes the part rows with the session row.
DeleteRow(h) ==
  /\ Serving(h, "delete", "remove")
  /\ sessions' = [sessions EXCEPT ![req[h].trace] = None]
  /\ parts' = [parts EXCEPT ![req[h].trace] = NoRows]
  /\ Respond(h, "ok")
  /\ UNCHANGED <<consents, objects, req, seen, paths, purged>>

----------------------------------------------------------------------------
CreateSession(h)   == CreateRead(h) \/ CreateConsent(h) \/ CreateUpsert(h)
UploadPart(h)      == PartRead(h) \/ PartStore(h) \/ PartRow(h)
CompleteSession(h) == CompleteRead(h) \/ CompleteParts(h) \/ CompletePatch(h)
DeleteSession(h)   == DeleteRead(h) \/ DeleteList(h) \/ DeleteObjects(h) \/ DeleteRow(h)

Serve(h) ==
  \/ Authenticate(h) \/ Fail(h)
  \/ CreateSession(h) \/ UploadPart(h) \/ CompleteSession(h) \/ DeleteSession(h)

Next == \E h \in Handlers :
          \/ \E r \in Request : Receive(h, r)
          \/ Serve(h)
          \/ Release(h)

Spec == Init /\ [][Next]_vars
----------------------------------------------------------------------------
(***************************************************************************)
(* Properties                                                              *)
(***************************************************************************)

\* Type invariant of the tables, the bucket and the handlers' locals.
TypeOK ==
  /\ consents \subseteq Logins
  /\ sessions \in [Traces -> Session \cup {None}]
  /\ parts \in [Traces -> [PartNumbers -> Row \cup {None}]]
  /\ objects \in [Paths -> Versions \cup {None}]
  /\ req \in [Handlers -> Request \cup {None}]
  /\ pc \in [Handlers -> {"idle", "auth", "read", "consent", "insert", "store",
                          "row", "parts", "patch", "list", "objects", "remove",
                          "done"}]
  /\ seen \in [Handlers -> Versions \cup {None}]
  /\ paths \in [Handlers -> SUBSET Paths]
  /\ resp \in [Handlers -> Responses \cup {None}]
  /\ purged \subseteq Traces

\* No trace is stored without a recorded acceptance of the capture policy by
\* its owner: the consent row is written, and its write checked, in a call
\* before the one that creates the session.
SessionHasConsent ==
  \A t \in Traces : sessions[t] # None => sessions[t].login \in consents

\* The index never points at bytes that are not in the bucket: uploadPart
\* stores the object before it writes the row, whatever other handlers do and
\* wherever an invocation stops.  A delete that removed objects is excepted.
RowHasObject ==
  \A t \in Traces \ purged, n \in PartNumbers :
    parts[t][n] # None => objects[Path(parts[t][n].login, t, n)] # None

\* A finished upload is never reopened and never changes its archive: a
\* createSession that read no row and is overtaken by a whole upload of the
\* same trace cannot overwrite the complete row.
CompletionIsFinal ==
  [][\A t \in Traces :
       sessions[t] # None /\ sessions[t].status = "complete"
         => sessions'[t] \in {None, sessions[t]}]_vars

\* A session marked complete has exactly the part rows 0 .. part_count - 1,
\* although completeSession checks them in one call and marks the session in a
\* later one.  (While the archives that compete for a trace have one part
\* count.)  A delete that removed objects is excepted.
CompleteHasAllParts ==
  \A t \in Traces \ purged :
    sessions[t] # None /\ sessions[t].status = "complete"
      => RowNumbers(parts[t]) = 0 .. PartCount(sessions[t].ver) - 1

\* What a delete leaves behind: a session row that is gone has taken the objects
\* of its trace with it, once no request on the trace is under way
\* (deleteSession; TRACE_DATA.md on its order).
DeletedLeavesNothing ==
  \A t \in Traces :
    sessions[t] = None /\ (\A h \in Handlers : req[h] = None \/ req[h].trace # t)
      => \A l \in Logins, n \in PartNumbers : objects[Path(l, t, n)] = None
=============================================================================
