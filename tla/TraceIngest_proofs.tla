------------------------ MODULE TraceIngest_proofs ------------------------
(***************************************************************************)
(* Proofs about TraceIngest, for every set of logins, traces, archives and *)
(* concurrent handlers.                                                    *)
(***************************************************************************)
EXTENDS TraceIngest, TLAPS

(***************************************************************************)
(* A handler that is not idle serves a request of a kind clients send.     *)
(***************************************************************************)
Busy ==
  \A h \in Handlers :
    /\ pc[h] # "idle" => req[h] \in Request /\ req[h].op \in Operations
    /\ pc[h] \in {"store", "row"} => req[h].op = "part"

TypeInv == TypeOK /\ Busy

(***************************************************************************)
(* What the rest of a handler relies on: the object of the row it is about *)
(* to write is stored, and rows have sessions.                             *)
(***************************************************************************)
StoredBeforeRow ==
  \A h \in Handlers :
    pc[h] = "row" /\ req[h].trace \notin purged
      => objects[Path(req[h].login, req[h].trace, req[h].part)] # None

\* Part rows never outlive their session row: an uploadPart that is still
\* running when the trace is deleted is refused by the foreign key, and the
\* cascade takes the rows that were there.
RowsBelongToSession ==
  \A t \in Traces : sessions[t] = None => RowNumbers(parts[t]) = {}

\* A delete removes objects of its own trace only.
OwnPaths ==
  \A h \in Handlers : pc[h] = "objects" => \A p \in paths[h] : p[2] = req[h].trace

IndexInv ==
  TypeInv /\ RowsBelongToSession /\ RowHasObject /\ StoredBeforeRow /\ OwnPaths

\* The fields of a request of each kind.
LEMMA RequestFields ==
  ASSUME NEW r \in Request
  PROVE  /\ r.login \in Logins
         /\ r.trace \in Traces
         /\ r.op \in {"create", "part", "complete", "delete"}
         /\ r.op \in {"create", "part"} => r.ver \in Versions
         /\ r.op = "part" => r.part \in PartNumbers
  BY DEF Request

\* Object paths are determined by their three fields.
LEMMA PathFields ==
  /\ \A l \in Logins, t \in Traces, n \in PartNumbers : Path(l, t, n) \in Paths
  /\ \A l, m \in Logins, t, u \in Traces, n, k \in PartNumbers :
       Path(l, t, n) = Path(m, u, k) => l = m /\ t = u /\ n = k
  BY DEF Path, Paths

\* Part numbers count from zero.
LEMMA PartNumbersNat == PartNumbers \subseteq Nat
  BY DEF PartNumbers

\* Absent rows and objects are told apart from present ones.
LEMMA NoneIsNoValue ==
  /\ None \notin Versions
  /\ None \notin Row
  /\ None \notin Session
  BY TraceIngestAssumption DEF Row, Session

----------------------------------------------------------------------------
(***************************************************************************)
(* Type correctness.                                                       *)
(***************************************************************************)
LEMMA TypeInit == Init => TypeInv
  BY DEF Init, TypeInv, TypeOK, Busy, NoRows

LEMMA TypeStep == TypeInv /\ [Next]_vars => TypeInv'
<1> SUFFICES ASSUME TypeInv, [Next]_vars PROVE TypeInv'
  OBVIOUS
<1> USE DEF TypeInv, TypeOK, Busy, store, Responses
<1>1. ASSUME NEW h \in Handlers, NEW r \in Request, Receive(h, r) PROVE TypeInv'
  BY <1>1 DEF Receive
<1>2. ASSUME NEW h \in Handlers, Release(h) PROVE TypeInv'
  BY <1>2 DEF Release
<1>3. ASSUME NEW h \in Handlers, Serve(h) PROVE TypeInv'
  <2>0. pc[h] # "idle" => /\ req[h] \in Request
                          /\ req[h].login \in Logins
                          /\ req[h].trace \in Traces
                          /\ req[h].op \in {"create", "part"} => req[h].ver \in Versions
                          /\ req[h].op = "part" => req[h].part \in PartNumbers
    BY RequestFields
  <2>1. CASE Authenticate(h)
    BY <2>1 DEF Authenticate
  <2>2. CASE Fail(h)
    BY <2>2 DEF Fail, Respond
  <2>3. CASE CreateRead(h)
    <3> DEFINE s == sessions[req[h].trace]
    <3>1. s # None => s.status \in Responses
      BY <2>3, <2>0 DEF CreateRead, Serving, Session
    <3>2. \/ Goto(h, "consent")
          \/ \E x \in Responses : Respond(h, x)
      BY <2>3, <3>1 DEF CreateRead
    <3> HIDE DEF s
    <3>3. UNCHANGED <<consents, sessions, parts, objects, req, seen, paths, purged>>
      BY <2>3 DEF CreateRead
    <3> QED
      BY <3>2, <3>3, <2>3 DEF Goto, Respond, CreateRead, Serving
  <2>4. CASE CreateConsent(h)
    BY <2>4, <2>0 DEF CreateConsent, Serving, Goto
  <2>5. CASE CreateUpsert(h)
    <3>1. \/ sessions' = sessions
          \/ sessions' = [sessions EXCEPT ![req[h].trace] =
               [login |-> req[h].login, ver |-> req[h].ver, status |-> "uploading"]]
      BY <2>5 DEF CreateUpsert
    <3>2. sessions' \in [Traces -> Session \cup {None}]
      BY <3>1, <2>5, <2>0 DEF CreateUpsert, Serving, Session
    <3>3. \E x \in Responses : Respond(h, x)
      BY <2>5 DEF CreateUpsert
    <3>4. /\ UNCHANGED <<consents, parts, objects, req, seen, paths, purged>>
          /\ pc[h] # "idle"
      BY <2>5 DEF CreateUpsert, Serving
    <3> QED
      BY <3>2, <3>3, <3>4 DEF Respond
  <2>6. CASE PartRead(h)
    BY <2>6 DEF PartRead, Serving, Goto, Respond
  <2>7. CASE PartStore(h)
    BY <2>7, <2>0, PathFields DEF PartStore, Serving, Goto
  <2>8. CASE PartRow(h)
    <3>1. [login |-> req[h].login, ver |-> req[h].ver] \in Row
      BY <2>8, <2>0 DEF PartRow, Serving, Row
    <3>2. \/ parts' = parts
          \/ parts' = [parts EXCEPT ![req[h].trace][req[h].part] =
                         [login |-> req[h].login, ver |-> req[h].ver]]
      BY <2>8 DEF PartRow
    <3>3. parts' \in [Traces -> [PartNumbers -> Row \cup {None}]]
      <4>1. req[h].trace \in Traces /\ req[h].part \in PartNumbers
        BY <2>8, <2>0 DEF PartRow, Serving
      <4>2. parts \in [Traces -> [PartNumbers -> Row \cup {None}]]
        OBVIOUS
      <4> QED
        BY ONLY <3>1, <3>2, <4>1, <4>2
    <3>4. /\ \E x \in Responses : Respond(h, x)
          /\ UNCHANGED <<consents, sessions, objects, req, seen, paths, purged>>
          /\ pc[h] # "idle"
      BY <2>8 DEF PartRow, Serving
    <3> QED
      BY <3>3, <3>4 DEF Respond
  <2>9. CASE CompleteRead(h)
    BY <2>9, <2>0 DEF CompleteRead, Serving, Goto, Respond, Owned, Session
  <2>10. CASE CompleteParts(h)
    BY <2>10 DEF CompleteParts, Serving, Goto, Respond
  <2>11. CASE CompletePatch(h)
    <3>1. sessions' \in [Traces -> Session \cup {None}]
      <4>1. /\ req[h].trace \in Traces
            /\ sessions' = IF sessions[req[h].trace] = None THEN sessions
                           ELSE [sessions EXCEPT ![req[h].trace].status = "complete"]
        BY <2>11, <2>0 DEF CompletePatch, Serving
      <4>2. sessions \in [Traces -> Session \cup {None}]
        OBVIOUS
      <4> QED
        BY ONLY <4>1, <4>2 DEF Session
    <3>2. PICK x \in Responses : Respond(h, x)
      BY <2>11 DEF CompletePatch
    <3> QED
      BY <2>11, <3>1, <3>2 DEF CompletePatch, Serving, Respond
  <2>12. CASE DeleteRead(h)
    BY <2>12 DEF DeleteRead, Serving, Goto, Respond
  <2>13. CASE DeleteList(h)
    <3>1. \A n \in RowNumbers(parts[req[h].trace]) :
            Path(parts[req[h].trace][n].login, req[h].trace, n) \in Paths
      BY <2>13, <2>0, PathFields DEF RowNumbers, Row, DeleteList, Serving
    <3> QED
      BY <2>13, <2>0, <3>1 DEF DeleteList, Serving, Goto
  <2>14. CASE DeleteObjects(h)
    BY <2>14, <2>0 DEF DeleteObjects, Serving, Goto
  <2>15. CASE DeleteRow(h)
    BY <2>15, <2>0 DEF DeleteRow, Serving, Respond, NoRows
  <2> QED
    BY <1>3, <2>1, <2>2, <2>3, <2>4, <2>5, <2>6, <2>7, <2>8, <2>9, <2>10, <2>11,
       <2>12, <2>13, <2>14, <2>15
       DEF Serve, CreateSession, UploadPart, CompleteSession, DeleteSession
<1>4. CASE UNCHANGED vars
  BY <1>4 DEF vars
<1> QED
  BY <1>1, <1>2, <1>3, <1>4 DEF Next

\* Every reachable state is well typed.
THEOREM TypeCorrect == Spec => []TypeOK
<1>1. TypeInv => TypeOK
  BY DEF TypeInv
<1> QED
  BY TypeInit, TypeStep, <1>1, PTL DEF Spec

----------------------------------------------------------------------------
(***************************************************************************)
(* The index of parts.                                                     *)
(***************************************************************************)
LEMMA IndexInit == Init => IndexInv
  BY TypeInit DEF Init, IndexInv, RowsBelongToSession, RowHasObject,
                  StoredBeforeRow, OwnPaths, RowNumbers, NoRows

LEMMA OwnPathsStep == TypeInv /\ OwnPaths /\ [Next]_vars => OwnPaths'
<1> SUFFICES ASSUME TypeInv, OwnPaths, [Next]_vars,
                    NEW h \in Handlers, pc'[h] = "objects"
             PROVE  \A p \in paths'[h] : p[2] = req'[h].trace
  BY DEF OwnPaths
<1>1. CASE \E g \in Handlers : DeleteList(g)
  <2>1. PICK g \in Handlers : DeleteList(g)
    BY <1>1
  <2>2. CASE g = h
    BY <2>1, <2>2 DEF DeleteList, Path, TypeInv, TypeOK
  <2>3. CASE g # h
    BY <2>1, <2>3 DEF DeleteList, Goto, TypeInv, TypeOK, OwnPaths
  <2> QED
    BY <2>2, <2>3
<1>2. CASE ~\E g \in Handlers : DeleteList(g)
  <2>1. pc[h] = "objects" /\ paths'[h] = paths[h] /\ req'[h] = req[h]
    <3>1. ASSUME NEW g \in Handlers, NEW r \in Request, Receive(g, r)
          PROVE  pc[h] = "objects" /\ paths'[h] = paths[h] /\ req'[h] = req[h]
      BY <3>1 DEF Receive, TypeInv, TypeOK
    <3>2. ASSUME NEW g \in Handlers, Release(g)
          PROVE  pc[h] = "objects" /\ paths'[h] = paths[h] /\ req'[h] = req[h]
      BY <3>2 DEF Release, TypeInv, TypeOK
    <3>3. ASSUME NEW g \in Handlers, Serve(g)
          PROVE  pc[h] = "objects" /\ paths'[h] = paths[h] /\ req'[h] = req[h]
      <4>1. UNCHANGED <<req, paths>>
        BY <3>3, <1>2 DEF Serve, CreateSession, UploadPart, CompleteSession,
             DeleteSession, Authenticate, Fail, CreateRead, CreateConsent,
             CreateUpsert, PartRead, PartStore, PartRow, CompleteRead,
             CompleteParts, CompletePatch, DeleteRead, DeleteObjects, DeleteRow
      <4>2. \E l \in {"read", "consent", "insert", "store", "row", "parts",
                      "patch", "list", "remove", "done"} : pc' = [pc EXCEPT ![g] = l]
        BY <3>3, <1>2 DEF Serve, CreateSession, UploadPart, CompleteSession,
             DeleteSession, Authenticate, Fail, CreateRead, CreateConsent,
             CreateUpsert, PartRead, PartStore, PartRow, CompleteRead,
             CompleteParts, CompletePatch, DeleteRead, DeleteObjects, DeleteRow,
             Goto, Respond
      <4> QED
        BY <4>1, <4>2 DEF TypeInv, TypeOK
    <3>4. CASE UNCHANGED vars
      BY <3>4 DEF vars
    <3> QED
      BY <3>1, <3>2, <3>3, <3>4 DEF Next
  <2> QED
    BY <2>1 DEF OwnPaths
<1> QED
  BY <1>1, <1>2

LEMMA IndexStep == IndexInv /\ [Next]_vars => IndexInv'
<1> SUFFICES ASSUME IndexInv, [Next]_vars
             PROVE  RowsBelongToSession' /\ RowHasObject' /\ StoredBeforeRow'
  BY TypeStep, OwnPathsStep DEF IndexInv
<1> USE DEF IndexInv, RowsBelongToSession, RowHasObject, StoredBeforeRow
<1>t. TypeOK /\ Busy
  BY DEF TypeInv
\* Steps that touch neither the tables nor the bucket nor enter "row".
<1>q. ASSUME UNCHANGED store, UNCHANGED purged,
             \A g \in Handlers : pc'[g] = "row" => pc[g] = "row" /\ req'[g] = req[g]
      PROVE  RowsBelongToSession' /\ RowHasObject' /\ StoredBeforeRow'
  BY <1>q DEF store, RowNumbers
<1>1. ASSUME NEW h \in Handlers, NEW r \in Request, Receive(h, r)
      PROVE  RowsBelongToSession' /\ RowHasObject' /\ StoredBeforeRow'
  BY <1>1, <1>q, <1>t DEF Receive, TypeOK
<1>2. ASSUME NEW h \in Handlers, Release(h)
      PROVE  RowsBelongToSession' /\ RowHasObject' /\ StoredBeforeRow'
  BY <1>2, <1>q, <1>t DEF Release, TypeOK
<1>3. ASSUME NEW h \in Handlers, Serve(h)
      PROVE  RowsBelongToSession' /\ RowHasObject' /\ StoredBeforeRow'
  <2>0. pc[h] # "idle" => /\ req[h].login \in Logins
                          /\ req[h].trace \in Traces
                          /\ req[h].op \in {"create", "part"} => req[h].ver \in Versions
                          /\ req[h].op = "part" => req[h].part \in PartNumbers
    BY RequestFields, <1>t DEF Busy
  <2>1. CASE \/ Authenticate(h) \/ Fail(h) \/ CreateRead(h) \/ PartRead(h)
             \/ CompleteRead(h) \/ CompleteParts(h) \/ DeleteRead(h) \/ DeleteList(h)
    <3>1. UNCHANGED <<store, req, purged>>
      BY <2>1 DEF Authenticate, Fail, CreateRead, PartRead, CompleteRead,
                  CompleteParts, DeleteRead, DeleteList
    <3>2. \E l \in {"read", "consent", "store", "parts", "patch", "list",
                    "objects", "done"} : pc' = [pc EXCEPT ![h] = l]
      BY <2>1 DEF Authenticate, Fail, CreateRead, PartRead, CompleteRead,
                  CompleteParts, DeleteRead, DeleteList, Goto, Respond
    <3> QED
      BY <3>1, <3>2, <1>q, <1>t DEF TypeOK
  <2>2. CASE CreateConsent(h)
    BY <2>2, <1>t DEF CreateConsent, Goto, TypeOK, RowNumbers
  <2>3. CASE CreateUpsert(h)
    <3>1. \/ sessions' = sessions
          \/ \E x \in Session : sessions' = [sessions EXCEPT ![req[h].trace] = x]
      BY <2>3, <2>0 DEF CreateUpsert, Session, Serving
    <3>2. \A t \in Traces : sessions'[t] = None => sessions[t] = None
      BY <3>1, <1>t, NoneIsNoValue DEF TypeOK
    <3>3. pc' = [pc EXCEPT ![h] = "done"]
      BY <2>3 DEF CreateUpsert, Respond
    <3>4. UNCHANGED <<parts, objects, req, purged>>
      BY <2>3 DEF CreateUpsert
    <3> QED
      BY <3>2, <3>3, <3>4, <1>t DEF TypeOK, RowNumbers
  <2>4. CASE PartStore(h)
    <3>1. objects' = [objects EXCEPT ![Path(req[h].login, req[h].trace, req[h].part)] =
                        req[h].ver]
      BY <2>4 DEF PartStore
    <3>2. UNCHANGED <<sessions, parts, req, purged>> /\ pc' = [pc EXCEPT ![h] = "row"]
      BY <2>4 DEF PartStore, Goto
    <3>3. /\ req[h].ver # None
          /\ Path(req[h].login, req[h].trace, req[h].part) \in Paths
      BY <2>4, <2>0, NoneIsNoValue, PathFields DEF PartStore, Serving
    <3>4. \A p \in Paths : objects[p] # None => objects'[p] # None
      BY <3>1, <3>3, <1>t DEF TypeOK
    <3>5. objects'[Path(req[h].login, req[h].trace, req[h].part)] # None
      BY <3>1, <3>3, <1>t DEF TypeOK
    <3>6. RowHasObject'
      BY <3>2, <3>4, <1>t, PathFields, NoneIsNoValue DEF TypeOK, Row
    <3>7. StoredBeforeRow'
      <4> SUFFICES ASSUME NEW g \in Handlers, pc'[g] = "row", req[g].trace \notin purged
                   PROVE  objects'[Path(req[g].login, req[g].trace, req[g].part)] # None
        BY <3>2
      <4>1. CASE g = h
        BY <4>1, <3>5
      <4>2. CASE g # h
        <5>1. pc[g] = "row" /\ req[g] \in Request
          BY <4>2, <3>2, <1>t DEF TypeOK, Busy
        <5>2. objects[Path(req[g].login, req[g].trace, req[g].part)] # None
          BY <5>1
        <5> QED
          BY <5>2, <3>1, <3>3, <1>t, <3>5 DEF TypeOK
      <4> QED
        BY <4>1, <4>2
    <3> QED
      BY <3>2, <3>6, <3>7 DEF RowNumbers
  <2>5. CASE PartRow(h)
    <3>1. UNCHANGED <<sessions, objects, req, purged>> /\ pc' = [pc EXCEPT ![h] = "done"]
      BY <2>5 DEF PartRow, Respond
    <3>2. \/ parts' = parts
          \/ /\ sessions[req[h].trace] # None
             /\ parts' = [parts EXCEPT ![req[h].trace][req[h].part] =
                            [login |-> req[h].login, ver |-> req[h].ver]]
      BY <2>5 DEF PartRow
    <3>3. req[h].trace \in Traces /\ req[h].part \in PartNumbers /\ pc[h] = "row"
      BY <2>5, <2>0 DEF PartRow, Serving
    <3>4. RowsBelongToSession'
      BY <3>1, <3>2, <3>3, <1>t DEF TypeOK, RowNumbers
    <3>5. RowHasObject'
      BY <3>1, <3>2, <3>3, <1>t DEF TypeOK
    <3> QED
      BY <3>1, <3>4, <3>5, <1>t DEF TypeOK
  <2>6. CASE CompletePatch(h)
    <3>1. UNCHANGED <<parts, objects, req, purged>> /\ pc' = [pc EXCEPT ![h] = "done"]
      BY <2>6 DEF CompletePatch, Respond
    <3>2. \A t \in Traces : sessions'[t] = None => sessions[t] = None
      BY <2>6, <2>0, <1>t, NoneIsNoValue DEF CompletePatch, TypeOK, Session, Serving
    <3> QED
      BY <3>1, <3>2, <1>t DEF TypeOK, RowNumbers
  <2>7. CASE DeleteObjects(h)
    <3>1. /\ UNCHANGED <<sessions, parts, req>>
          /\ pc' = [pc EXCEPT ![h] = "remove"]
          /\ purged' = purged \cup {req[h].trace}
      BY <2>7 DEF DeleteObjects, Goto
    <3>2. \A p \in Paths : p[2] # req[h].trace => objects'[p] = objects[p]
      BY <2>7 DEF DeleteObjects, Serving, OwnPaths
    <3>3. \A l \in Logins, t \in Traces, n \in PartNumbers :
            t # req[h].trace => objects'[Path(l, t, n)] = objects[Path(l, t, n)]
      BY <3>2, PathFields DEF Path
    <3>4. RowHasObject'
      BY <3>1, <3>3, <1>t, NoneIsNoValue DEF TypeOK, Row
    <3>5. StoredBeforeRow'
      <4> SUFFICES ASSUME NEW g \in Handlers, pc'[g] = "row", req[g].trace \notin purged'
                   PROVE  objects'[Path(req[g].login, req[g].trace, req[g].part)] # None
        BY <3>1
      <4>1. pc[g] = "row" /\ req[g] \in Request /\ req[g].op = "part"
        BY <3>1, <1>t DEF TypeOK, Busy
      <4> QED
        BY <4>1, <3>1, <3>3, RequestFields
    <3> QED
      BY <3>1, <3>4, <3>5 DEF RowNumbers
  <2>8. CASE DeleteRow(h)
    BY <2>8, <2>0, <1>t DEF DeleteRow, Serving, Respond, TypeOK, RowNumbers, NoRows
  <2> QED
    BY <1>3, <2>1, <2>2, <2>3, <2>4, <2>5, <2>6, <2>7, <2>8
       DEF Serve, CreateSession, UploadPart, CompleteSession, DeleteSession
<1>4. CASE UNCHANGED vars
  BY <1>4 DEF vars, RowNumbers
<1> QED
  BY <1>1, <1>2, <1>3, <1>4 DEF Next

\* Part rows never outlive their session: deleteSession's cascade and the
\* foreign key hold against every interleaving of handlers.
THEOREM RowsHaveSessions == Spec => []RowsBelongToSession
<1>1. IndexInv => RowsBelongToSession
  BY DEF IndexInv
<1> QED
  BY IndexInit, IndexStep, <1>1, PTL DEF Spec

\* uploadPart's order (object, then row) keeps the index sound whatever
\* interleaves and wherever an invocation stops.
THEOREM RowsHaveObjects == Spec => []RowHasObject
<1>1. IndexInv => RowHasObject
  BY DEF IndexInv
<1> QED
  BY IndexInit, IndexStep, <1>1, PTL DEF Spec

----------------------------------------------------------------------------
(***************************************************************************)
(* Consent.                                                                *)
(***************************************************************************)

\* The consent row is there from the call that writes it to the one that
\* writes the session.
ConsentInv ==
  /\ SessionHasConsent
  /\ \A h \in Handlers : pc[h] = "insert" => req[h].login \in consents

LEMMA ConsentStep == TypeInv /\ ConsentInv /\ [Next]_vars => ConsentInv'
<1> SUFFICES ASSUME TypeInv, ConsentInv, [Next]_vars PROVE ConsentInv'
  OBVIOUS
<1>t. TypeOK /\ Busy
  BY DEF TypeInv
<1> USE DEF ConsentInv, SessionHasConsent
<1>q. ASSUME UNCHANGED <<consents, sessions>>,
             \A g \in Handlers : pc'[g] = "insert" => pc[g] = "insert" /\ req'[g] = req[g]
      PROVE  ConsentInv'
  BY <1>q
<1>1. ASSUME NEW h \in Handlers, NEW r \in Request, Receive(h, r) PROVE ConsentInv'
  BY <1>1, <1>q, <1>t DEF Receive, TypeOK, store
<1>2. ASSUME NEW h \in Handlers, Release(h) PROVE ConsentInv'
  BY <1>2, <1>q, <1>t DEF Release, TypeOK, store
<1>3. ASSUME NEW h \in Handlers, Serve(h) PROVE ConsentInv'
  <2>0. pc[h] # "idle" => req[h].trace \in Traces /\ req[h].login \in Logins
    BY RequestFields, <1>t DEF Busy
  <2>1. CASE Authenticate(h) \/ Fail(h) \/ CreateRead(h) \/ UploadPart(h)
             \/ CompleteRead(h) \/ CompleteParts(h) \/ DeleteRead(h)
             \/ DeleteList(h) \/ DeleteObjects(h)
    <3>1. UNCHANGED <<consents, sessions, req>>
      BY <2>1 DEF Authenticate, Fail, CreateRead, UploadPart, PartRead, PartStore,
                  PartRow, CompleteRead, CompleteParts, DeleteRead, DeleteList,
                  DeleteObjects, store
    <3>2. \E l \in {"read", "consent", "store", "row", "parts", "patch", "list",
                    "objects", "remove", "done"} : pc' = [pc EXCEPT ![h] = l]
      BY <2>1 DEF Authenticate, Fail, CreateRead, UploadPart, PartRead, PartStore,
                  PartRow, CompleteRead, CompleteParts, DeleteRead, DeleteList,
                  DeleteObjects, Goto, Respond
    <3> QED
      BY <3>1, <3>2, <1>q, <1>t DEF TypeOK
  <2>2. CASE CreateConsent(h)
    BY <2>2, <1>t DEF CreateConsent, Goto, TypeOK
  <2>3. CASE CreateUpsert(h)
    <3>1. UNCHANGED <<consents, req>> /\ pc' = [pc EXCEPT ![h] = "done"]
      BY <2>3 DEF CreateUpsert, Respond
    <3>2. \A t \in Traces : sessions'[t] # None
            => sessions'[t] = sessions[t] \/ sessions'[t].login = req[h].login
      BY <2>3, <2>0, <1>t DEF CreateUpsert, TypeOK, Serving
    <3>3. req[h].login \in consents
      BY <2>3 DEF CreateUpsert, Serving
    <3> QED
      BY <3>1, <3>2, <3>3, <1>t DEF TypeOK
  <2>4. CASE CompletePatch(h)
    <3>1. UNCHANGED <<consents, req>> /\ pc' = [pc EXCEPT ![h] = "done"]
      BY <2>4 DEF CompletePatch, Respond
    <3>2. \A t \in Traces : sessions'[t] # None
            => sessions[t] # None /\ sessions'[t].login = sessions[t].login
      BY <2>4, <2>0, <1>t DEF CompletePatch, TypeOK, Session, Serving
    <3> QED
      BY <3>1, <3>2, <1>t DEF TypeOK
  <2>5. CASE DeleteRow(h)
    BY <2>5, <2>0, <1>t DEF DeleteRow, Serving, Respond, TypeOK
  <2> QED
    BY <1>3, <2>1, <2>2, <2>3, <2>4, <2>5
       DEF Serve, CreateSession, CompleteSession, DeleteSession
<1>4. CASE UNCHANGED vars
  BY <1>4 DEF vars
<1> QED
  BY <1>1, <1>2, <1>3, <1>4 DEF Next

\* createSession records the acceptance of the policy before it stores a
\* session, whatever interleaves between its calls.
THEOREM ConsentRecorded == Spec => []SessionHasConsent
<1>1. Init => ConsentInv
  BY DEF Init, ConsentInv, SessionHasConsent
<1>2. ConsentInv => SessionHasConsent
  BY DEF ConsentInv
<1> QED
  BY TypeInit, TypeStep, ConsentStep, <1>1, <1>2, PTL DEF Spec

----------------------------------------------------------------------------
(***************************************************************************)
(* Completion.                                                             *)
(***************************************************************************)

\* Which calls write the session table.
LEMMA SessionWriters ==
  ASSUME TypeInv, [Next]_vars, sessions' # sessions
  PROVE  \E h \in Handlers : CreateUpsert(h) \/ CompletePatch(h) \/ DeleteRow(h)
  BY DEF Next, vars, store, Receive, Release, Serve, CreateSession, UploadPart,
         CompleteSession, DeleteSession, Authenticate, Fail, CreateRead,
         CreateConsent, PartRead, PartStore, PartRow, CompleteRead, CompleteParts,
         DeleteRead, DeleteList, DeleteObjects

\* The check constraint on completed_at makes completion final against every
\* createSession that read the table before the session existed.
THEOREM CompleteIsFinal == Spec => CompletionIsFinal
<1> DEFINE Final == \A t \in Traces :
                      sessions[t] # None /\ sessions[t].status = "complete"
                        => sessions'[t] \in {None, sessions[t]}
<1>1. TypeInv /\ [Next]_vars => [Final]_vars
  <2> SUFFICES ASSUME TypeInv, [Next]_vars, NEW t \in Traces,
                      sessions[t] # None, sessions[t].status = "complete",
                      sessions' # sessions
               PROVE  sessions'[t] \in {None, sessions[t]}
    OBVIOUS
  <2>1. PICK h \in Handlers : CreateUpsert(h) \/ CompletePatch(h) \/ DeleteRow(h)
    BY SessionWriters
  <2>2. CASE CreateUpsert(h)
    BY <2>2 DEF CreateUpsert, UpsertViolatesCheck, TypeInv, TypeOK
  <2>3. CASE CompletePatch(h)
    BY <2>3 DEF CompletePatch, TypeInv, TypeOK, Session
  <2>4. CASE DeleteRow(h)
    BY <2>4 DEF DeleteRow, TypeInv, TypeOK
  <2> QED
    BY <2>1, <2>2, <2>3, <2>4
<1> QED
  BY <1>1, TypeInit, TypeStep, PTL DEF Spec, CompletionIsFinal

(***************************************************************************)
(* Rows are only added until a delete begins to remove objects, and only   *)
(* below part_count, so what completeSession checked still holds when it   *)
(* marks the session.  A delete removes rows after it removed objects.     *)
(* Archives of one size have one part count N.                             *)
(***************************************************************************)
CompletionInv(N) ==
  /\ \A t \in Traces : RowNumbers(parts[t]) \subseteq 0 .. N - 1
  /\ \A h \in Handlers : pc[h] \in {"store", "row"} => req[h].part \in 0 .. N - 1
  /\ \A h \in Handlers : pc[h] = "patch" /\ req[h].trace \notin purged
                          => RowNumbers(parts[req[h].trace]) = 0 .. N - 1
  /\ \A h \in Handlers : pc[h] = "parts" => seen[h] \in Versions
  /\ \A h \in Handlers : pc[h] = "remove" => req[h].trace \in purged
  /\ \A t \in Traces \ purged : sessions[t] # None /\ sessions[t].status = "complete"
                                 => RowNumbers(parts[t]) = 0 .. N - 1

LEMMA CompletionStep ==
  ASSUME NEW N \in Int, \A v \in Versions : PartCount(v) = N
  PROVE  TypeInv /\ CompletionInv(N) /\ [Next]_vars => CompletionInv(N)'
<1> SUFFICES ASSUME TypeInv, CompletionInv(N), [Next]_vars PROVE CompletionInv(N)'
  OBVIOUS
<1>t. TypeOK /\ Busy
  BY DEF TypeInv
<1> USE DEF CompletionInv
<1>q. ASSUME UNCHANGED <<sessions, parts, purged>>,
             \A g \in Handlers : pc'[g] \in {"store", "row", "patch", "parts", "remove"}
               => pc[g] = pc'[g] /\ req'[g] = req[g] /\ seen'[g] = seen[g]
      PROVE  CompletionInv(N)'
  BY <1>q DEF RowNumbers
<1>1. ASSUME NEW h \in Handlers, NEW r \in Request, Receive(h, r) PROVE CompletionInv(N)'
  BY <1>1, <1>q, <1>t DEF Receive, TypeOK, store
<1>2. ASSUME NEW h \in Handlers, Release(h) PROVE CompletionInv(N)'
  BY <1>2, <1>q, <1>t DEF Release, TypeOK, store
<1>3. ASSUME NEW h \in Handlers, Serve(h) PROVE CompletionInv(N)'
  <2>0. pc[h] # "idle" => /\ req[h].trace \in Traces
                          /\ req[h].op \in Operations
                          /\ req[h].op \in {"create", "part"} => req[h].ver \in Versions
                          /\ req[h].op = "part" => req[h].part \in PartNumbers
    BY RequestFields, <1>t DEF Busy
  <2>1. CASE Authenticate(h) \/ Fail(h) \/ CreateRead(h) \/ CreateConsent(h)
    <3>1. UNCHANGED <<sessions, parts, req, seen, purged>>
      BY <2>1 DEF Authenticate, Fail, CreateRead, CreateConsent, store
    <3>2. \E l \in {"read", "consent", "insert", "done"} : pc' = [pc EXCEPT ![h] = l]
      BY <2>1 DEF Authenticate, Fail, CreateRead, CreateConsent, Goto, Respond
    <3> QED
      BY <3>1, <3>2, <1>q, <1>t DEF TypeOK
  <2>2. CASE CreateUpsert(h)
    <3>1. UNCHANGED <<parts, req, seen, purged>> /\ pc' = [pc EXCEPT ![h] = "done"]
      BY <2>2 DEF CreateUpsert, Respond
    <3>2. \A t \in Traces : sessions'[t] # None /\ sessions'[t].status = "complete"
                             => sessions[t] # None /\ sessions[t].status = "complete"
      BY <2>2, <2>0, <1>t DEF CreateUpsert, TypeOK, Serving
    <3> QED
      BY <3>1, <3>2, <1>t DEF TypeOK, RowNumbers
  <2>3. CASE PartRead(h)
    <3>1. UNCHANGED <<sessions, parts, req, seen, purged>>
      BY <2>3 DEF PartRead, store
    <3>2. \/ pc' = [pc EXCEPT ![h] = "done"]
          \/ /\ pc' = [pc EXCEPT ![h] = "store"]
             /\ sessions[req[h].trace] # None
             /\ req[h].part < PartCount(sessions[req[h].trace].ver)
      BY <2>3 DEF PartRead, Goto, Respond, Owned
    <3>3. pc'[h] = "store" => req[h].part \in 0 .. N - 1
      <4> SUFFICES ASSUME pc'[h] = "store" PROVE req[h].part \in 0 .. N - 1
        OBVIOUS
      <4>1. req[h].part \in PartNumbers /\ req[h].trace \in Traces
        BY <2>3, <2>0 DEF PartRead, Serving
      <4>2. req[h].part < N
        BY <3>2, <4>1, <1>t DEF TypeOK, Session
      <4>3. req[h].part \in Nat
        BY <4>1, PartNumbersNat
      <4> QED
        BY ONLY <4>2, <4>3, N \in Int
    <3> QED
      BY <3>1, <3>2, <3>3, <1>t DEF TypeOK, RowNumbers
  <2>4. CASE PartStore(h)
    <3>1. UNCHANGED <<sessions, parts, req, seen, purged>> /\ pc' = [pc EXCEPT ![h] = "row"]
          /\ pc[h] = "store"
      BY <2>4 DEF PartStore, Goto, Serving
    <3> QED
      BY <3>1, <1>t DEF TypeOK, RowNumbers
  <2>5. CASE PartRow(h)
    <3>1. UNCHANGED <<sessions, req, seen, purged>> /\ pc' = [pc EXCEPT ![h] = "done"]
      BY <2>5 DEF PartRow, Respond
    <3>3. \A t \in Traces : /\ RowNumbers(parts[t]) \subseteq RowNumbers(parts'[t])
                            /\ RowNumbers(parts'[t]) \subseteq
                                 RowNumbers(parts[t]) \cup (0 .. N - 1)
      <4>1. req[h].trace \in Traces /\ req[h].part \in PartNumbers
            /\ req[h].part \in 0 .. N - 1 /\ req[h].ver \in Versions /\ req[h].login \in Logins
        BY <2>5, <2>0, <1>t, RequestFields DEF PartRow, Serving, Busy
      <4>2. [login |-> req[h].login, ver |-> req[h].ver] # None
        BY <4>1, NoneIsNoValue DEF Row
      <4>3. \/ parts' = parts
            \/ parts' = [parts EXCEPT ![req[h].trace][req[h].part] =
                           [login |-> req[h].login, ver |-> req[h].ver]]
        BY <2>5 DEF PartRow
      <4>4. parts \in [Traces -> [PartNumbers -> Row \cup {None}]]
        BY <1>t DEF TypeOK
      <4> QED
        BY ONLY <4>1, <4>2, <4>3, <4>4 DEF RowNumbers
    <3>4. \A t \in Traces : RowNumbers(parts'[t]) \subseteq 0 .. N - 1
      BY <3>3
    <3>5. \A t \in Traces : RowNumbers(parts[t]) = 0 .. N - 1
                             => RowNumbers(parts'[t]) = 0 .. N - 1
      BY <3>3, <3>4
    <3>6. \A g \in Handlers : pc'[g] = "patch" => pc[g] = "patch" /\ req[g].trace \in Traces
      BY <3>1, <1>t, RequestFields DEF TypeOK, Busy
    <3> QED
      BY <3>1, <3>4, <3>5, <3>6, <1>t DEF TypeOK
  <2>6. CASE CompleteRead(h)
    <3>1. UNCHANGED <<sessions, parts, req, purged>>
      BY <2>6 DEF CompleteRead, store
    <3>2. \/ pc' = [pc EXCEPT ![h] = "done"] /\ seen' = seen
          \/ /\ pc' = [pc EXCEPT ![h] = "parts"]
             /\ sessions[req[h].trace] # None
             /\ seen' = [seen EXCEPT ![h] = sessions[req[h].trace].ver]
      BY <2>6 DEF CompleteRead, Goto, Respond, Owned
    <3>3. pc'[h] = "parts" => seen'[h] \in Versions
      BY <3>2, <2>6, <2>0, <1>t DEF TypeOK, Session, CompleteRead, Serving
    <3> QED
      BY <3>1, <3>2, <3>3, <1>t DEF TypeOK, RowNumbers
  <2>7. CASE CompleteParts(h)
    <3>1. UNCHANGED <<sessions, parts, req, seen, purged>>
      BY <2>7 DEF CompleteParts, store
    <3>2. \/ pc' = [pc EXCEPT ![h] = "done"]
          \/ /\ pc' = [pc EXCEPT ![h] = "patch"]
             /\ RowNumbers(parts[req[h].trace]) = 0 .. PartCount(seen[h]) - 1
      BY <2>7 DEF CompleteParts, Goto, Respond, AllPartsPresent
    <3>3. PartCount(seen[h]) = N
      BY <2>7 DEF CompleteParts, Serving
    <3>4. /\ \A g \in Handlers : g # h => pc'[g] = pc[g]
          /\ pc'[h] = "done" \/ (pc'[h] = "patch" /\ RowNumbers(parts[req[h].trace]) = 0 .. N - 1)
      BY <3>2, <3>3, <1>t DEF TypeOK
    <3> QED
      BY <3>1, <3>4
  <2>8. CASE CompletePatch(h)
    <3>1. UNCHANGED <<parts, req, seen, purged>> /\ pc' = [pc EXCEPT ![h] = "done"]
      BY <2>8 DEF CompletePatch, Respond
    <3>2. req[h].trace \notin purged => RowNumbers(parts[req[h].trace]) = 0 .. N - 1
      BY <2>8 DEF CompletePatch, Serving
    <3>3. \A t \in Traces : t # req[h].trace => sessions'[t] = sessions[t]
      BY <2>8, <2>0, <1>t DEF CompletePatch, Serving, TypeOK
    <3> QED
      BY <3>1, <3>2, <3>3, <1>t DEF TypeOK, RowNumbers
  <2>9. CASE DeleteRead(h) \/ DeleteList(h)
    <3>1. UNCHANGED <<sessions, parts, req, seen, purged>>
      BY <2>9 DEF DeleteRead, DeleteList, store
    <3>2. \E l \in {"list", "objects", "done"} : pc' = [pc EXCEPT ![h] = l]
      BY <2>9 DEF DeleteRead, DeleteList, Goto, Respond
    <3> QED
      BY <3>1, <3>2, <1>q, <1>t DEF TypeOK
  <2>10. CASE DeleteObjects(h)
    <3>1. /\ UNCHANGED <<sessions, parts, req, seen>>
          /\ pc' = [pc EXCEPT ![h] = "remove"]
          /\ purged' = purged \cup {req[h].trace}
      BY <2>10 DEF DeleteObjects, Goto
    <3> QED
      BY <3>1, <1>t DEF TypeOK, RowNumbers
  <2>11. CASE DeleteRow(h)
    <3>1. /\ UNCHANGED <<req, seen, purged>>
          /\ pc' = [pc EXCEPT ![h] = "done"]
          /\ req[h].trace \in purged
          /\ req[h].trace \in Traces
      BY <2>11, <2>0 DEF DeleteRow, Respond, Serving
    <3>2. \A t \in Traces : t # req[h].trace => sessions'[t] = sessions[t] /\ parts'[t] = parts[t]
      BY <2>11, <1>t DEF DeleteRow, TypeOK
    <3>3. RowNumbers(parts'[req[h].trace]) = {}
      BY <2>11, <3>1, <1>t DEF DeleteRow, TypeOK, RowNumbers, NoRows
    <3>4. \A t \in Traces : t \notin purged => t # req[h].trace
      BY <3>1
    <3>5. \A g \in Handlers : pc'[g] = "patch" => pc[g] = "patch" /\ req[g].trace \in Traces
      BY <3>1, <1>t, RequestFields DEF TypeOK, Busy
    <3> QED
      BY <3>1, <3>2, <3>3, <3>4, <3>5, <1>t DEF TypeOK, RowNumbers
  <2> QED
    BY <1>3, <2>1, <2>2, <2>3, <2>4, <2>5, <2>6, <2>7, <2>8, <2>9, <2>10, <2>11
       DEF Serve, CreateSession, UploadPart, CompleteSession, DeleteSession
<1>4. CASE UNCHANGED vars
  BY <1>4 DEF vars, RowNumbers
<1> QED
  BY <1>1, <1>2, <1>3, <1>4 DEF Next

\* A complete session has exactly its parts, for any number of concurrent
\* handlers, deletes included until they remove objects, as long as the archives
\* that compete for one trace have the same number of parts.
THEOREM CompletionSound ==
  ASSUME NEW N \in Int, \A v \in Versions : PartCount(v) = N
  PROVE  Spec => []CompleteHasAllParts
<1>1. Init => CompletionInv(N)
  BY DEF Init, CompletionInv, RowNumbers, NoRows
<1>2. TypeInv /\ CompletionInv(N) /\ [Next]_vars => CompletionInv(N)'
  BY CompletionStep
<1>3. TypeInv /\ CompletionInv(N) => CompleteHasAllParts
  BY DEF CompletionInv, CompleteHasAllParts, TypeInv, TypeOK, Session
<1> QED
  BY <1>1, <1>2, <1>3, TypeInit, TypeStep, PTL DEF Spec
=============================================================================
