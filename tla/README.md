# ZIPCODE: TLA+ specifications

Specifications, model-checking runs and proofs for the parts of ZIPCODE that
carry its own state and concurrency: the gateway's invitations and sessions, the
launcher's login and trace upload, the trace ingest function, the path of a model
request through the core's token caches and the two proxies, and the turn
lifecycle, approvals and process manager of the agent core.

Run one model with `tlc -config MCTraceIngest.cfg MCTraceIngest`; check one
module's proofs with `tlapm TraceIngest_proofs.tla`. `PROJECT.json` lists the
runs, what each definition models (file and lines), the hazards, the mutants
that show each property can fail, the findings and the theorems.

## 1. Inventory

| Part | State | Operations | Talks to | What is hard |
|---|---|---|---|---|
| Gateway authentication (`gateway/auth.py`, `invitations.py`) | SQLite tables `invitations`, `refresh_tokens` | exchange, refresh, logout, me; operator: invite, revoke, list | launcher (HTTP), operator CLI (another process on the same database) | check and issue in different transactions; replayed and concurrent refreshes |
| Launcher session (`zipcode-cli/src/main.rs`) | one session in the OS keyring or in `auth.json` | login, access_token (refresh), logout | gateway | two stores, several processes, a keyring that comes and goes |
| Launcher traces (`zipcode-cli/src/trace_upload.rs`) | consent file, spool, upload cache, marker files | sync before and after the core, archive, upload | core (writes bundles), ingest function | several launchers, no locks, timeouts, kill, retry |
| Trace ingest (`supabase/functions/zipcode-trace-ingest`, migration) | three tables and a bucket | create session, upload part, complete, delete | gateway `/me`, PostgREST, Storage | handlers of several calls without a transaction |
| Core turn lifecycle (`core/src/tasks`, `core/src/session`) | `active_turn`, turn state, mailbox, pending input, history | start or steer, start if idle, mail, interrupt, compact, shutdown, inject; finish, abort | clients, other agents, guardian, hooks | every lock is released between two steps of three kinds of threads |
| Proxies (`gateway/model_mux.py`, `codex_gateway.py`) | connection pools, upstream streams, in-flight gauge | authenticate, forward, stream, read | core, each other, inference server | exceptions, clients that leave at any time, pools without a timeout |
| Core token cache (`login/src/auth/external_bearer.rs`, external path of `manager.rs`) | cached token, the manager's cached auth, a refresh permit | resolve, refresh, auth, recovery from 401 | launcher's `auth-token` command | a command that runs inside one lock and outside another; interrupted requests |
| Core model client (`core/src/client.rs`) | a request's recovery step | set up, send, recover, stream | token cache, multiplexer | one retry, dropped futures |
| Core process manager (`core/src/unified_exec`) | process table, reserved ids, a lock per process | exec_command, write_stdin, terminate one or all, watch exits, evict | OS or exec server, clients, guardian | id reuse during reviews, eviction at the cap, calls dropped at any await |
| Core approvals (`session/mod.rs` `request_*` and `notify_*`, `state/turn.rs`) | one-shot waiters and granted permissions of a turn | ask, answer, review, cancel, clear | clients, guardian, turns | a call asks and is answered in whichever turn is active then; abort races answer |
| Core agents, rollout | registry, writer queue | reserve, flush | file system | limits, partial failure |
| Front ends, sandboxes, MCP, configuration, telemetry, vendored code | – | – | – | not modelled, section 8 |

What makes each part correct:

* **Authentication**: only invited logins get sessions; a session has one usable
  refresh token at a time; a session that ended stays over; revoking ends the
  login's sessions; a user who is logged in stays so.
* **Trace ingest**: rows, sessions, objects and consents never contradict one
  another; a completed upload is whole and final; deleting removes everything.
* **Trace upload**: only finished rollouts are sent; a marker stands for a
  completed upload; what is stored is what was hashed; every finished bundle is
  uploaded in the end.
* **Turns**: one task at a time, no task silently replaced, one terminal event
  per turn, no accepted input lost, mail that asks for a turn gets one, every
  turn ends.
* **Approvals**: an answer reaches the call that asked; no call waits in vain; no
  wait ends as a rejection before its turn is reported aborted; permissions granted
  for a turn stay in it.
* **Model requests**: a token that a recovery obtained is never replaced by an
  older one; the gauge counts what it says; every request ends; a stream whose
  client left is closed, up to the inference server.
* **Processes**: terminal input reaches the process whose permissions were
  reviewed; no running process is lost; its end is published once, and always;
  eviction spares what is in use.

## 2. Modules

    TraceIngest  <- TraceUpload          InvitationStore <- AuthSessions
        |            |                      |      \            |
        |            |     InvitationStore_proofs  SessionLife  AuthSessions_proofs
    TraceIngest_proofs <- TraceUpload_proofs

    SessionTurns <= TurnLifecycle <- Approvals
                         |              |
            TurnLifecycle_proofs <- Approvals_proofs

    ExternalBearer, Gateway <- ModelRequest              UnifiedExec
                                    |                        |
                             ModelRequest_proofs      UnifiedExec_proofs

`A <- B`: B extends A and composes it with more actors; `A <= B`: B implements A,
as InvitationStore does SessionLife. Each `MC*` module gives
model values; each `.cfg` gives one instance.

### TraceIngest
`consents`, `sessions`, `parts` are the tables, `objects` the bucket; `req`,
`pc`, `seen`, `paths`, `resp` are the locals of the handlers. One action is one
REST or Storage call (`CreateRead`, `CreateConsent`, `CreateUpsert`, `PartRead`,
`PartStore`, `PartRow`, `CompleteRead`, `CompleteParts`, `CompletePatch`,
`DeleteRead`, `DeleteList`, `DeleteObjects`, `DeleteRow`); handlers interleave
between any two, and `Fail` ends one anywhere. An archive is a *version* with a
size; a part is named by the version it was cut from, so that "which bytes are
stored" can be asked. The foreign key from parts to sessions and the check on
`completed_at` are part of the actions they constrain. The one from sessions to
consents (`github_login`) is left out: `createSession` writes the consent before
the row and nothing deletes consents, so it never refuses. Deletes use one batch of paths; the request
validation that precedes the first call is the refusal branch of the first step.

### TraceUpload
Launchers with a program point and locals (`proc`), the shared disk (`consent`,
`bundle`, `stamp`, `cache`, `marker`) and a clock in seconds. `WriteState` gives
`state.json` the current second, and an archive *is* that second, because the tar
header carries it: rewriting the file at another second gives another archive.
An archive that a launcher has open stays readable after another one removes it
(`Linked`). Requests are the actions of TraceIngest; `GiveUp` leaves a request
running without its caller, `Kill` ends a launcher anywhere, `NoToken` skips a
sync. Creating an archive and reading a part are single steps; a bundle that
cannot be replayed is passed over like one that is still running.

### SessionLife, InvitationStore
`SessionLife` is what the store promises a user: a session is `none`, `live` or
`over`, and never leaves `over`. `InvitationStore` has one action per transaction
of the class. A token remembers its *family*, the token that began the session;
the database does not record it, it is there to state the properties. Time is
`now`; the instant a transaction uses is the time it runs. (`rotate` reads the
clock at `auth.py:148`, before `BEGIN IMMEDIATE` at `:152`; the difference is the
wait for the database lock.)

### AuthSessions
Launcher processes (`client`), the keyring (`ring`, and whether it is `up`), the
fallback `file`, composed with the store. `login`, `access_token`, `save_session`
and `logout` are split where a process can be overtaken. GitHub's device flow is
external: it gives a GitHub token to a login. Whether an access token is about to
expire is a free choice. `MCAuthLogout` adds two history variables: who is signing out,
and whether the user has and no login has started since.

### SessionTurns, TurnLifecycle
`SessionTurns` is what a session promises about its turns: a turn starts when none
runs, stops running once, by finishing or by being aborted, and then sends one
terminal event. A turn of TurnLifecycle has the status `running` while its task is
the active one; what `start_task`, `on_task_finished` and `abort_all_tasks` do in
several critical sections is one step there, and nothing at the other sections.

`active` is `Session.active_turn` (task and turn state), `pending` and `phase` the
pending input and mailbox delivery phase of a turn state, `mailbox` the mail
queue, `history` what was recorded. `th[x]` is a thread: the submission loop, the
task of each turn, the guardian's abort task. One action is one critical section;
what it read is a local afterwards. `Referenced` are the turn states that
something still points to: the input of an unreferenced state is gone.

| Code | Actions |
|---|---|
| `start_or_steer`, `steer_input` | `StartTurn`, `Steer`, `NotSteerable` |
| `start_if_idle` | `IdleCheck`, `IdleReserve`, `IdleRefused`, `IdleStarts` |
| `inter_agent_communication`, `inject_if_running`, `interrupt`, `compact`, shutdown | `SendMail`, `Inject`, `Interrupt`, `Compact`, `Shutdown` |
| `abort_all_tasks`, `abort_turn_if_active`, `handle_task_abort` | `TakeActive`, `TakeIfActive`, `AwaitTask`, `ClearPending` |
| `maybe_start_turn_for_pending_work` | `CheckMail`, `Reserve`, `Gather`, `GatherMail`, `Deliver` |
| `start_task` | `Drain`, `Bind`, `ExtendTurn`, `Install` |
| `RegularTask::run`, `run_turn` | `Run`, `RunFails`, `StartHookStops`, `Sample`, `SampleMail`, `Record`, `FollowUp`, `FinalAnswer`, `EmptyAnswer`, `TurnFails`, `CheckPending`, `StopHookBlocks`, `RecheckPending`, `ObserveCancel` |
| `on_task_finished` | `Finish`, `TakeTask`, `TakeInput`, `Complete`, `Release` |

The second look for trigger mail in `start_if_idle` has no action: mail is enqueued
by the submission loop, which runs `start_if_idle` to its end first, so it finds
none.

Abstractions: queues are sets (no property is about order); `has_pending_input`
and `defer_mailbox_delivery_to_next_turn` are one step each; `JoinHandle::abort`
takes effect at once, and a task that ends by itself in the 100 ms and one that
is aborted after them are one step; the two `debug_assert!` are recorded in
`clash` and the step goes on as in a release build. `dropped` collects what the
code gives up on purpose: input of an aborted or failed turn, and input a hook
blocks. Review and user-shell tasks, steering with an expected turn id, the
automatic and recovery kinds of `start_if_idle`, durable sleep and realtime are
left out.

### Approvals
The tool calls of TurnLifecycle's turns that wait for an answer. `stage[c]` is how
far call `c` has got, `home[c]` the turn state that holds its sender (for a
request the guardian reviews, the state it keeps for the grant), `prompt[c]` what
the user sees, `got[c]` the call whose prompt the answer was given to, `granted[s]`
the permissions of a turn state. A call runs beside its turn: cancelling the turn
cancels it, but it notices at its next await only, so it may still register, even
in the next turn (`strays`). A lifecycle step of TurnLifecycle happens together
with `Drained` (the task leaves its answer when its calls are over) and `Settle`
(`clear_pending` and the end of a turn state drop the senders in it).

| Code | Actions |
|---|---|
| `handle_tool_call_with_source` | `CallTool`, `ToolCancelled` |
| `request_command_approval`, `request_patch_approval`, `request_user_input`, `request_mcp_server_elicitation`, `request_dynamic_tool` | `Ask`, `Receive` |
| `request_permissions_for_environment` | `Ask`, `Receive`, `Withdraw`; reviewed by the guardian: `StartReview`, `Reviews`, `RecordReviewed` |
| `notify_*`, `resolve_elicitation` | `Answer` |
| `exec_approval`, `patch_approval` with Abort | `AnswerAbort` |
| `drain_in_flight`, `clear_pending` | `Drained`, `Settle` |

Abstractions: the six kinds of waiters differ in their key only, a question's
being the id of its turn; what is granted is a free choice (nothing, for the
session, for the turn). The lock of `tools/parallel.rs:153`, which keeps calls of
tools without parallel support (`request_user_input`, `request_permissions`) from
overlapping, is left out: any two calls may overlap. Two questions of one turn do
overlap in the code when they are the approvals of two MCP tools that run in
parallel (`mcp_tool_call.rs:1580`) while the feature `tool_call_mcp_elicitation`,
on by default, is off. Recording a user's grant and sending the answer are one
step with the lookup, because nothing reads the turn's grants in between;
requests that a policy answers at once do not ask and are no calls here.

### ExternalBearer, Gateway, ModelRequest
`ExternalBearer` has the two caches (`cached_token` behind the mutex `locked`,
the manager's `auth`), the permit `refresh_lock` and the callers' places. Tokens
are numbered as the command prints them, and `fresh` stands for the age of the
cached one, which `Elapse` ends. `resolve()` is `ResolveCached` or `ResolveMiss`,
`FetchPrints`, `FetchStore`, `FetchFails`; `auth()` goes on with `SetCachedAuth`
and `AuthCached`; the recovery is `RefreshBegin`, `RefreshPrints`, `RefreshStore`,
`RefreshFails`, `Commit`. `Interrupt` drops the future of a request at any await,
and with it the guards it holds.

`Gateway` runs the same actions for both proxies (`Hops`): `Body`, `Invalid`,
`BodyRaises`, `Send`, `Unavailable`, `Head`, `Iterate`, `NeverIterates`, `End`,
`Read`, `ReadRaises`. The multiplexer's upstream is the gateway, so its `Send`
starts the gateway's handler and its `Head` waits for that handler's response.
`open[h]` are the upstream responses, each holding a connection of the pool.
`NeverIterates` is Starlette's: a `StreamingResponse` whose peer is already gone
may be cancelled before its iterator has started, and then no `finally` runs.

`ModelRequest` joins them: the token that the caches supplied is the one that
`authenticate_request` judges, a 401 goes back into the recovery, and an
interrupted request is a client that leaves. The server may refuse any token,
because tokens expire, and admits none where there is none. `refreshed` is a
history variable; `MCModelRequestRetry` adds another, the token that each request
was last refused with. The pools' bound (`PoolsBounded`) is part of the type invariant:
a proxy holds at most `MaxConnections` upstream responses, since its one client is
shared by all requests.

### UnifiedExec
`processes` and `reserved_process_ids` are the `ProcessStore`, `recency` the order
of `last_used`, `state` what a process's watch channel, cancellation token and
failure message say together, `interaction_lock` its lock. `call`, `wpc` and
`killer` are the places of `exec_command`, `write_stdin` and `terminate_process`.
The store's mutex is never held over an await that yields, so one access to it is
one step; between two of them every other task may run, and `Abort` and
`AbortWrite` drop a call there.

| Code | Actions |
|---|---|
| `exec_command`, `exec_command_inner` | `AllocateProcessId`, `Refuse`, `NoCommand`, `OpenSession`, `ExitedEarly`, `StoreProcess`, `OneShotStop`, `FinishFailed`, `FinishStored`, `FinishShort`, `Abort` |
| `prune_processes_if_needed` | `ToPrune` in `StoreProcess` |
| process, monitor and watcher | `Exit`, `SignalExit`, `NetworkDenial`, `WatcherLocks`, `EmitExecEnd` |
| `write_stdin` | `LookUp`, `LockTerminal`, `Rejected`, `PrepareProcessHandles`, `WriteToUnknown`, `WriteFails`, `PollFailed`, `Polled`, `AbortWrite` |
| `terminate_process`, `terminate_all_processes` | `KillLookUp`, `KillConfirmed`, `KillFails`, `KillRemove`, `TerminateAll` |

Abstractions: output and its buffers, the retry of a start in another sandbox,
metrics and network approval records are left out; a review is one step whose
answer is free; each call is made once, with a process of its own. `recency` is
ordered by the step that stores a process, the code's `last_used` by the
`started_at` read shortly before. When the network denies a command
(`process_manager.rs:624-646`) the code releases the id and then fails the process;
`FinishFailed` finds it failed already, so the moment in which the entry is gone
and the process not yet failed is missing.

## 3. Runs

Bounds are in the `.cfg` files. "States" are distinct states.

| Run | Checks | States | Bounds |
|---|---|---|---|
| `ingest` | `TypeOK`, `RowHasObject`, `SessionHasConsent`, `CompleteHasAllParts`, `CompletionIsFinal` | 1.4 M | 2 handlers, 2 logins, 1 trace, a two-part archive, all operations: any two requests overlap in every way |
| `upload` | `UploadTypeOK`, `MarkerMeansComplete`, `UploadOnlyFinished` | 363 k | 2 launchers, 1 interruption |
| `sessions` | `AuthTypeOK`, `InvitedOnly`, `OneLiveTokenPerSession`, `SessionNotLost`, `SessionsStayOver` | 1.2 M | 2 processes, every command, tokens for two rotations of a session or two sessions, invitations and tokens that expire, 1 failure, a keyring that comes up and breaks down |
| `turns` | `TypeOK`, `OneRunning`, `NoItemLost`, `OneTerminalEvent`, `AnswerReachesAsker`, `WaitCanEnd`, `NoEarlyRejection`, `GrantsStayInTurn` | 1.1 M | 3 turns and six workloads: 2 inputs with mail, interrupt, compact and a hook; 1 input with mail, an injected item, interrupt, guardian and shutdown; pairs of calls of every kind with 2 inputs and an interrupt, and with the guardian |
| `turns_live` | `ReservationHeld`, `NoItemLost`, `OwnTaskTaken`, `TurnsTakeTurns`, `TriggerDelivered`, `EveryTurnEnds` | 77 k | 3 turns and four workloads, fair: 2 trigger mails with start-if-idle and a hook; both kinds of input with an interrupt; input with interrupt, compact and shutdown; input with the guardian and a hook |
| `requests` | `RequestTypeOK`, `RefreshIsCurrent`, `EveryRequestEnds`, `AbandonedStreamsClose` | 209 k | 2 requests, 2 tokens, `auth()` twice per round, one connection in each pool, interruption anywhere, fair |
| `exec` | `ExecTypeOK`, `ApprovedTerminal`, `NoOrphan`, `OneEndEvent`, `EndPublished`, `EvictionOrder` | 1.5 M | 3 commands, 3 ids, 1 writer, a table of 2, 1 interruption, failure or termination |

Two concurrent actors are enough for these properties: each is about a pair of
requests, processes or threads that overlap, and the third actor (operator,
clock, guardian, a third turn) is there where a finding needs it. Every bound on
a counter (`MaxTime`, `MaxFaults`, `MaxFlips`, number of tokens and turns) only
ends a behaviour early. `sessions*`, `turns*`, `requests` and `exec` do not check
deadlock: tokens, turns, requests and operations are used up and the system then
rests.

`Workloads` (`LiveWorkloads` for `turns_live`) splits the `turns` run into the combinations that the properties are
about. Two calls are enough: a property relates a call to its own prompt, to the
turn that asked and to the turn that runs when the answer comes, or two questions
of one turn to each other.

`current_client_setup` calls `auth()` three times (for itself, for the provider
and for the signature) and the instance twice: a second call is what lets another
request's token come between two of them. The pools have 512 connections in the
code and one in the instance, so that waiting for one happens; two tokens let a
recovery overlap a fetch. The process table holds 64 processes in the code, of
which the 8 most recent are never evicted; the instance has a table of 2 and
protects none, because only a table with two candidates shows the order of
eviction, and eviction needs a third command.

Runs that are expected to fail; each shows what a document, comment or assertion
says and the code does not do:

| Run | Property | What happens |
|---|---|---|
| `upload_overlap` | `CompleteMatchesHash` | a second launcher rewrites the archive in the shared upload cache while the first one reads its parts; `completeSession` compares number and total size of the parts only, so a session completes with parts of two archives under the hash of one |
| `upload_retry` | `EveryBundleUploaded` | the retry's archive differs from the one the server knows: 409 for ever |
| `sessions_revoke` | `RevokedHasNoSession` | revoke between `is_allowed` and `create_refresh_token` |
| `turns_overwrite` | `NoTaskOverwritten` | user input while a finishing turn starts the next one for mail |
| `turns_takeover` | `OneRunning` | a turn that the guardian aborts while it finishes takes the task of the turn that replaced it |

### Limits of the passing instances

The passing instances leave out the combinations above (`turns` has no trigger
mail and no second input beside the guardian, `turns_live` no user start and no
interrupt beside trigger mail, `sessions` no keyring that comes back), those of the
further instances below, and these, in which a property fails for a similar reason:

* `TriggerDelivered` with an interrupt (`"interrupt"` in `Controls`):
  `abort_all_tasks` takes the active turn between the two sections of
  `on_task_finished`; it aborts no task, so it does not look for pending work, and
  `on_task_finished` finds the turn gone, so it does not either, and trigger mail
  stays in the mailbox of an idle session.
* `OneTerminalEvent` and `AnswerReachesAsker` fail where `OneRunning` does in
  `turns_takeover`: the aborted turn sends TurnComplete and TurnAborted, and the
  calls of the turn whose task it took are not found by their answers.
  `ReservationHeld` fails there too, and where an interrupt meets trigger mail;
  `OwnTaskTaken` fails there by definition, and `TurnsTakeTurns` there and in
  `turns_overwrite`.
  Mail in the hands of a reservation that an interrupt drops is lost; the code
  does not say whether an interrupt is meant to give it up as it gives up the
  pending input of the turn it aborts.
* `AnswerReachesAsker` asks of a question only that its answer goes to a call of
  the same turn, and `NoItemLost` leaves out injected items (further instances).
* `GrantsStayInTurn` and `NoEarlyRejection` leave out `strays`: a call that is
  between its start and its request when its turn is taken asks in whatever turn
  is active then, and what the user grants it is in force there. `AnswerAbort` to
  the prompt of a turn that is over interrupts the turn that is active.
* `NoOrphan` without its condition on ids: `terminate_all_processes` clears the
  reservations of calls that are still opening their process, and
  `release_process_id` removes whatever is stored under an id. An id that is drawn
  again meanwhile belongs to two calls, and the end of one removes the entry of
  the other, whose process goes on without an entry. An exec call whose command
  cannot be resolved, or that is dropped before it has stored its process, keeps
  its id reserved for ever; a process dropped there lives on as long as the
  monitor of its network approval holds it.
* `EveryRequestEnds` and `AbandonedStreamsClose` except states in which an iterator
  never started: its upstream connection stays open (`timeout=None`), and with
  every connection of a pool lost that way the next request waits for ever.

That an approval of a turn that is over, answered with Abort, interrupts the turn
that is active (`AnswerAbort`) has no property: `protocol/src/protocol.rs:4040`
describes Abort as the code does it, and nothing says which turn it may meet.

### Further instances

`PROJECT.json` lists one run per main question. These instances ask about single
interleavings of hazards that the passing runs leave out; each is checked with
`tlc -config <cfg> <module>`. The first holds (858 states), TLC finds the others
violated:

| Configuration (module) | Property | What happens |
|---|---|---|
| `MCTraceUploadLive` (`MCTraceUpload`) | `EveryBundleUploaded` | holds for one launcher with two bundles that is never interrupted |
| `MCTraceIngestDelete` (`MCTraceIngest`) | `DeletedLeavesNothing` | a part upload stops between Storage and its row, or is in flight; `deleteSession` removes what the rows list, and the object stays. `TRACE_DATA.md:53-55`: the operation "deletes Storage objects through the Storage API before removing Postgres metadata" |
| `MCAuthSessionsKeyring` (`MCAuthSessions`) | `SessionNotLost` | a keyring that is down for one refresh comes back with the replaced token, which `load_session` prefers to the newer session in `auth.json` |
| `MCAuthLogout` (`MCAuthLogout`) | `LogoutRemovesSession` | a refresh begun in another process stores its replacement after the logout revoked the old token and deleted the session. `docs/authentication.md:28-33`: "Check or remove the session" |
| `MCTurnLifecycleInject` (`MCTurnLifecycle`) | `InjectedKept` | `inject_if_running` accepts an item for a turn that has taken its pending input for the last time. `session/inject.rs:156`: "Injects items into active work, or records them without starting a turn." |
| `MCApprovalsQuestions` (`MCApprovals`) | `OwnQuestionAnswered` | two questions of one turn have one key: the second replaces the sender of the first, and the answer to the first prompt goes to the second call. `tui/src/app/pending_interactive_replay.rs:143-145`: "The UI answers queued prompts for the same turn in FIFO order" |
| `MCModelRequestGauge` (`MCModelRequest`) | `InflightIsProxied` | `INFLIGHT` keeps counting a request whose handler raised (`request.body()`, JSON that is not an object, `aread`) or whose iterator never started. `codex_gateway.py:135`: "Requests currently being proxied." |
| `MCModelRequestRetry` (`MCModelRequestRetry`) | `RetryIsFresh` | `reload` loads and stores in two steps and puts an older token over the one that another request's recovery committed; the only retry of that request is signed with the token that was refused. `docs/authentication.md:35-37`: "retries with a fresh access token after a 401 response" |

## 4. Fairness

* `FairUploadSpec`: the function goes on serving a request it received and a
  launcher that runs goes on (weak fairness: nothing disables them for ever but
  their own steps); the user launches traced sessions again and again (strong
  fairness, because untraced launches may come in between). No fairness is assumed
  of interruptions, of the core or of the clock.
* `RequestFairness` of ModelRequest: some process takes a step while one can (weak
  fairness of all their steps together; tokio and asyncio run what is ready). It
  includes that the provider command ends, which its timeout enforces, and that
  the inference server answers and ends its streams, which nothing enforces. No
  fairness between processes is needed, because each takes finitely many steps,
  and none is assumed of interruptions, of clients that leave or of new requests.
* `EndPublished` of UnifiedExec needs no fairness: it says of every state that a
  watcher that is over has published, and that the lock one still needs is free or
  held by a writer that waits for no lock, so that it comes free when that writer
  goes on or is dropped.
* `Fairness` of TurnLifecycle: the tokio runtime runs every thread that can run
  (weak fairness per thread, its steps being enabled until taken), and a model
  that is asked again and again answers without calling tools at last (strong
  fairness of `FinalAnswer`); a model that calls tools for ever does keep a turn
  running in the code too.

## 5. Proofs

All theorems are for any number of handlers, traces, logins, tokens, clients,
turns and items and any values of the bounds. Some state a condition on the
constants in so many words, because the property is false without it.

* **TraceIngest_proofs.** `TypeCorrect`; `RowsHaveSessions` (the tables' foreign key
  holds against every interleaving); `RowsHaveObjects`,
  by an invariant that a handler about to write a row has stored the object
  unless the trace was purged; `ConsentRecorded`, by an invariant that a handler
  about to upsert has recorded consent; `CompleteIsFinal`, an action property;
  `CompletionSound`, under the assumption that all archives have the same part
  count, by an invariant that a handler about to patch has seen all rows, that
  rows only grow until a delete has removed objects, and that a handler about to
  remove rows has removed objects.
* **InvitationStore_proofs.** `StoreTypeCorrect`; `SingleUse`, by the invariant
  that all unrevoked tokens of a family coincide and a family's root exists;
  `StoreImplementsSessionLife`, the refinement: initial states map to initial
  states and every transaction maps to a step of SessionLife or to a stutter.
* **AuthSessions_proofs.** `ServiceImplementsStore`: every step of clients,
  operator and keyring is a transaction of the store or leaves it alone; hence
  `ServiceSingleUse` and `ServiceSessionsStayOver`. `AuthTypeCorrect`, from the
  store's types and the invariant that a client about to present or save a
  session holds a token. `OnlyInvited`, by an invariant
  that a client past `ExchangeCheck` has a login that was allowed. `LoginSurvives`:
  if the keyring does not come back after it broke down (`Steady`: it changes once,
  or it comes up and breaks down), `SessionNotLost` holds.
  Its invariant `LoginInv`: a token that a process received and has not saved is
  the newest of its session and known to that process alone (`UnsharedOK`); until
  the availability changes, one of keyring and `auth.json` is unused (`OnePlace`);
  and without faults the working token of a stored session is the stored one or
  held by a process about to save it (`RingOK`, `FileOK`); a process that has put it
  into the keyring and not yet removed `auth.json` counts, so that the file is still
  right if the keyring breaks down then. For a keyring that comes back the property
  is false (`MCAuthSessionsKeyring`).
* **TraceUpload_proofs.** `UploadTypeCorrect`, `MarkersSound` and
  `OnlyFinishedUploaded`, from one inductive invariant: `LauncherInv`, what a sync
  relies on at each point (consent, an ended bundle in hand, a hash, an archive
  that is open or cached); `CallInv`, a launcher that waits is served by a handler
  of its own, with its bundle; `ServiceInv`, a request in service is for an ended
  bundle and its answer `complete` is true when it is given; `MarkerInv`, a
  launcher about to write a marker has such an answer. An answer must stay true
  until it is read, which holds because launchers never delete and
  `CompleteIsFinal`. `Local` says what a step of one launcher may do so that the
  others and the function are not disturbed, and every launcher action is shown
  to be such a step. `UploadImplementsIngest`: every step is one of the function's
  or none, so the theorems of TraceIngest_proofs hold of the composed system (and
  its type invariant is reused here). `LeastTrace` (the smallest bundle exists)
  comes from the well-foundedness of the naturals. `CompleteMatchesHash` has no theorem: it
  is false with two launchers (run `upload_overlap`), and also with one launcher
  when a create request that was given up and is still in service writes its
  archive's version over that of a later one.
* **UnifiedExec_proofs.** `ExecTypeCorrect`, `InputReachesReviewed`,
  `NothingOrphaned`, `EndsOnce`, `EndsPublished`, and the action property
  `EvictsInOrder`. The
  invariant has layers: where a call is and whether its process has a watcher
  (`ProcInv`), who holds which interaction lock (`LockInv`), that nobody
  else holds one and that a watcher ends only after publishing (`HeldInv`), what has
  been published (`EndInv`), what the table, the writers and `terminate_process` refer
  to (`TableInv`), and `NoOrphan` itself, which needs all of them.
* **ModelRequest_proofs.** `RequestTypeCorrect`; `RefreshStaysCurrent`, by
  `BearerInv`: holders of the mutex and of the permit, and a token on its way to
  the cache is at least as new as the last one a refresh returned; `GaugeDrift`,
  by `GatewayInv`: `INFLIGHT` is the number of requests being proxied plus the
  number of those whose handler raised or whose iterator never started, so it is
  exact until one of these happens; the gateway's handler of a request starts once;
  `PoolStep` keeps the pools within their bound; `LinkInv` ties a request on its way to its caller.
* **TurnLifecycle_proofs.** `TurnTypesCorrect`, one lemma per action. `TypeOK` alone
  is not inductive: `AwaitTask` writes `ends` and the locals of the turn it aborts,
  so the invariant `TInv` adds that a thread between taking a turn and reporting its
  end knows which turn that is, next to what `TypeOK` has already: a thread has the
  turn state that it is about to use, and an installed task has one. The safety
  invariants hold under `Uncontended`: either no mail asks for a turn, or turns are
  started only by mail and by input that needs an idle session (no user start,
  interrupt, compact or shutdown). This excludes the interleaving of
  `turns_overwrite`, in which the properties are false, and mail with an abort,
  which takes a reserved turn. The guardian may abort turns, for as long as no
  finished turn takes the task of another one (`Undisturbed`, a premise about the
  behaviour that excludes `turns_takeover` and nothing else; a session without the
  guardian needs no such premise: `OwnersTakeTasks`). `TurnsOrdered` is the
  inductive invariant `Ordered`: which thread can be where (`PlacesOK`); the task of
  the active turn is the one at work that is not aborted (`TasksOK`); one thread at
  a time starts a turn, and the active turn is its reservation (`ClaimsOK`); the
  turn state of a finishing turn is shared with no other turn (`StatesOK`); by its
  point one can tell whether a turn has sent its terminal event (`EndsOK`); and no
  task was overwritten. From it follow `OneTurnRuns` (`OneRunning`),
  `TasksNotOverwritten` (`NoTaskOverwritten`), `TurnsEndOnce` (`OneTerminalEvent`)
  and `ReservationsHeld` (`ReservationHeld`); `ItemsNotLost` (`NoItemLost`) needs
  `ItemsOK` besides: at which points a thread carries items (`CarriesOK`), that a
  turn state which is about to be released has only injected items pending
  (`SpentOK`), that input which needs an idle session is accepted only when its turn
  starts (`OffersOK`), and `NoItemLost` itself (`KeptOK`). `SessionKeepsPromise`
  (`TurnsTakeTurns`), the refinement, follows from `Ordered`: `Install` is a
  `Start`, because no task is active when it installs its own; `TakeTask`,
  `TakeActive` and `TakeIfActive` are the `Stop` of the turn whose task they take;
  `Complete` and the end of an abort are its `Report`, because it has not reported
  yet; all other steps change neither a status nor `ends`.
* **Approvals_proofs.** Under `Calm` (no trigger mail, since an answer may abort a
  turn) and `Undisturbed` (with the guardian only, as above) the composed system of
  the run `turns` keeps all its invariants. `CalledTurnsSound`: an answer that
  aborts acts on the turns as an interrupt does, so the invariants of
  TurnLifecycle_proofs are kept and `TypeOK`, `OneRunning`, `OneTerminalEvent` and
  `NoItemLost` hold of `ApprovalSpec` too, and `CalledSessionKeepsPromise`: so does
  the refinement of SessionTurns. `Owns(t, s)` says that turn state `s` is that of
  turn `t`: of the running turn, of one that finishes or of one being aborted; every
  step of the turns (`Handed`) passes it on, and when it ends the state is freed.
  `CallsInPlace` is the inductive invariant `CallInv`: what a call has done at each
  stage (`ShapeOK`); a call in flight holds its turn where it was made unless the
  turn is aborted (`FlightOK`, from `drain_in_flight`); only a call of an aborted
  turn finds another turn active (`StraysOK`); senders and grants are in states that
  the asking turn owns (`HomesOK`); which answers arrived (`AnswersOK`); a sender is
  dropped only after the terminal event (`RejectsOK`). `AnswersReachAskers`,
  `WaitsCanEnd`, `RejectionsNotEarly` and `GrantsKeptApart` follow.

The assumptions on constants are the named `ASSUME`s of the modules: bounds are
naturals, `None` and the watcher are no other value, a turn is no call, the allowlist is a set of
logins, traces are finitely many naturals (their sort order), requests are the
finitely many callers, a pool has at least one connection.

Only model-checked: liveness (`EveryBundleUploaded`, `TriggerDelivered`,
`EveryTurnEnds`, `EveryRequestEnds`, `AbandonedStreamsClose`), which this prover
does not do; `OwnTaskTaken`, and with it the premise of the theorems, for sessions
with the guardian, where it depends on the workload (`turns_live`, against
`turns_takeover`); and the findings, which are counterexamples.

## 6. Mutants

Every property of every passing run has a mutant in `PROJECT.json`: an operator
beside the definition it stands in for (a dropped check, a missing reset, a
swapped order) under which TLC reports the property violated.

## 7. Plan

1. *Done:* trace ingest and upload; invitations and sessions; turn lifecycle;
   model requests through token cache and proxies; unified exec; approvals; the
   abstract specification of a session's turns, and the proofs of section 5.
2. Agent registry (spawn reservations, nicknames) and the rollout writer (flush
   barriers, retry of failed writes).
3. Flattening and restoring of namespaced tools in the Responses gateway, as
   functions checked against their inverse.

## 8. Not modelled

Terminal UI, app server, SDKs (translation and rendering); sandboxes and network
proxy (the operating system's behaviour); MCP, hooks, skills, plugins, memories
(external programs; a hook's effect on a turn is modelled); configuration,
telemetry, state database (loading and write-only output); command parsing and
apply-patch (text); client scripts, deployment, benchmarks, vendored and build
code. `PROJECT.json` lists them one by one.
