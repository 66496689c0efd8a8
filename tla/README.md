# Turing OS: verification project

Turing OS runs AI agents as short-lived worker containers. A TypeScript
orchestrator (`orchestrator/src`) takes tickets from Plane, decides what runs,
starts and stops containers, watches their heartbeats and relays messages; a
Python worker (`base-worker/src`) works on one ticket and reports back. This
directory models the orchestrator's core in TLA+, checks it with TLC and proves
its safety properties with TLAPS.

Everything runs on one Node event loop, so a handler is atomic between two
awaits and interleaved with all the others at every await. Nearly all the
interesting behaviour comes from there: state read before an await and used
after it, a step that fails half-way, two activities recovering the same thing.

## 1. Inventory

| Part | State it keeps | Operations | What must hold |
|---|---|---|---|
| Ticket dispatch (`api/webhooks.ts`) | locals of the handlers in progress | `/plane`, `/completed`, `/blocked`, `spawnTask` | a ticket is provisioned once; an accepted ticket is not lost; no failure leaves an entry that blocks its ticket |
| Priority queue (`core/priority-queue.ts`) | queue, runningTask, pausedTasks; a copy in Redis | enqueue, dequeue, start, complete, block, remove, reorder, interrupt, save, load | priority order; FIFO within a priority; the copy follows the memory |
| PM state (`core/pm-state.ts`) | a file with the waiting tasks | save, inject after the PM's death | the injection merges: nothing twice, nothing that is finished |
| Registry (`core/registry.ts`) | one entry per ticket, in insertion order; copies on disk and in Redis | register, update, remove, reconcile | it names exactly the workers that exist |
| Docker service (`core/docker.ts`) | none of its own: the engine's containers | spawn, start, stop, delete, restart, kill zombies | at most MAX_WORKERS containers, one per ticket |
| Health monitor (`core/health-monitor.ts`) | missed beats, death times, cooldowns | heartbeat, the check of every minute, recovery with a Doctor, scaling, disk | dead workers come back, live ones are left alone, a crash loop ends |
| Admin control, scaling, auto-start (`index.ts`, `webhooks.ts`) | none | kill, unblock, recover, start, stop, delete, scale up/down | an entry's status and container agree afterwards |
| Matrix service (`core/matrix.ts`) | sync token, rooms, inboxes, pending questions | poll, push, drain, peek, ask | a message reaches its worker once |
| NATS (`core/nats.ts`, `nats_client.py`) | connection, set of seen ids | publish, subscribe, drain | both transports together deliver once |
| Worker program and agent loop (`index.py`, `hermes_loop.py`) | conversation, iteration | run, report, interactive loop | it reports its outcome; it beats while it works |
| Checkpoints (`checkpoint.py`) | a file | save, load, restore, clear | a crash leaves the old or the new one |
| Consumer tokens (`core/consumer-token.ts`) | metadata, windows, a mirror of the revoked ids; the ids in Redis | generate, validate, count, revoke, extend, clean up | a revoked token is refused; no more requests than the windows allow |
| Credential vault and rotator (`core/credential-vault.ts`, `credential-rotator.ts`) | credentials, cache, schedules; a file each | store, get, find, rotate, revoke, delete, import, load | the cache never gives out an old key; the files follow the memory |
| Gateway proxies (`core/gateway/proxy-handler.ts`, five proxies) | the requests in progress | admit, refuse, send, answer, abort, shut down | a silent upstream holds no request for ever; none is served without a good token |
| Audit log (`core/gateway/audit-logger.ts`) | a buffer; a file of lines | log, flush, shut down | no call goes unlogged, none is logged twice or out of order |
| Rate limiter (`core/gateway/rate-limiter.ts`) | token buckets | check, refill | (`handleRequest()` never asks it) |
| Alerts | cooldowns | send | no alert storm, no lost first alert |
| RBAC, middleware, logging, metrics, config, sandbox, worker tools | static tables or none | per request | (not protocol state) |

Interaction: the routes of `webhooks.ts` call the queue, the registry, the
Docker service and Matrix directly. The health monitor, on its own timer, calls
the registry, the Docker service and the PM state. Workers talk to the
orchestrator by HTTP posts that are sent once (`index.py:37`) and by heartbeats.
Every external call of a worker goes through the gateway with the token the
worker got when it was spawned; the gateway adds the key from the vault.
The engine removes a container when it exits (`AutoRemove`, `docker.ts:133`),
so its name becomes free and nothing of it is left to list.

What is hard to test here, in the order the models take it up: handlers
interleaving at their awaits; engine calls that fail half-way; overlapping
checks with snapshots of different ages; lost reports; Redis outages and
reloads; restarts. `PROJECT.json` lists each of these under `hazards`, at the
line where it bites.

## 2. Modules

| Module | What it is |
|---|---|
| `QueueOps` | the pure operations on the array of waiting tasks: in closed form for the actions, and as the loops they are in the source |
| `PriorityQueue` | the class with its unawaited saves, the link to Redis and the reload on connect |
| `PMState` | extends `PriorityQueue` with the PM's state file, the timer and the injection |
| `Dispatch` | the routes that start workers, with queue, registry and containers |
| `DispatchOnce` | `Dispatch` when Plane reports each ticket as ready at most once |
| `TicketLife` | what the dispatch promises of a ticket from its submission to the report of its worker |
| `Supervision` | the health monitor's checks and recoveries, with registry, containers and time |
| `Control` | admin routes and commands, auto-start, scaling, zombie timer, reconciliation, over one registry and the engine |
| `Inbox` | the way of an admin's message to a worker: sync loop, relay, inbox, NATS copy, chat loop, `ask_admin()` |
| `Mailbox` | what that way promises: at most once, in order |
| `Worker` | the lives of one worker: `main()`, the agent loops, the checkpoint file |
| `Clock` | the clock the gateway's parts read |
| `ConsumerTokens` | the tokens, their windows and revocations, and the link to Redis |
| `CredentialVault` | credentials, cache, files, and the rotator |
| `AuditLog` | the buffer and the file |
| `Gateway` | requests in progress, over the three modules above |
| `QueueOpsProofs`, `PriorityQueueProofs`, `DispatchProofs`, `ControlProofs`, `GatewayProofs`, `WorkerProofs`, `InboxProofs`, `SupervisionProofs` | lemmas and theorems |
| `MC...` | instances for TLC |

### Dispatch

An activation of a handler is a record in `call`. Its `pc` names the await it is
suspended at and one action runs the code up to the next await:

| Code | Actions |
|---|---|
| `/plane`, `webhooks.ts:218-347` | `PlaneInterrupt`, `PlaneImmediate`, `PlaneQueued`, then `Kill`, `List`, `Create`, `Start`, or `SpawnFails` / `SpawnFailsLate` / `KillFailsLate` |
| `spawnWorker`, `docker.ts:49-173` | `List` (count the containers), `Create`, `Start` |
| `/completed` 379, `/blocked` 350 | `Completed`, `CompletedNotified`; `Blocked`, `BlockedNotified` |
| `spawnTask` 848, `spawnNextQueuedTask` 886 | `SpawnTask`, `Catch` with flow `"spawn"` |
| the worker's report and exit | `WorkerReports`, `ReportLost`, `WorkerExits` |

A task that a handler has taken off the queue is only in the local variable of
that handler, and in the model only in its record. `acked` is a history
variable: the tickets Plane was told are accepted and no worker has reported on.
`Failures` selects what may go wrong: `"docker"` (any engine call throws),
`"report"` (a post is lost), `"crash"` (a container exits while it works). An engine
call that throws may have taken effect all the same, when only its reply was lost:
`KillFailsLate`, and `SpawnFailsLate`, after which a worker is at work that the handler
takes for one that could not be started; its entry is dropped, its task put back.

`TicketLife` is what all this amounts to for a ticket, without queue array, awaits or
engine: it waits, or one handler has it in hand; it is entered in the registry or
not; it has been accepted or not.

| `TicketLife` | Code |
|---|---|
| `Queue`, `Try` | `/plane` queues the task, or starts it before it answers |
| `Accept`, `TurnAway` | that start succeeds (and the task waits nevertheless), or fails |
| `Take` in `Done` and `TakeAndEnter` | `completeTask()`; `/blocked`, whose next task is registered in the same step |
| `Enter` | `spawnTask()` registers the task `/completed` took before its await |
| `Launch`, `GiveBack` | `spawnTask()` succeeds, or puts the task back |
| `Done`, `Stuck` | a worker reports that it has completed its ticket, or is blocked |

`ImplementsLife` is the refinement: `waiting` is the set of the tasks in the queue, a
hand is the `task` of an activation, `entered` the tickets with a registry entry and
`accepted` is `acked`; counting, creating, starting and every failure that moves no task
are stuttering. Dropping an accepted ticket is no step of `TicketLife`, nor is
handing out a task twice or before a more urgent one.

### PriorityQueue and PMState

`mem` holds the three fields of the class. `Becomes(<<m1, ..>>)` is a method:
the memory passes through the given states and each is saved, which is a command
appended to `wire` unless no connection has existed yet (`isRedisConnected` is
set on the first connect and never reset). `Execute` is Redis, `Disconnect`
rejects what was sent and keeps what was not, `Connect` issues the GET of
`_loadFromRedis()`, `Load` is its continuation, `Restart` the process. `held`
is what the callers hold between taking a task and starting it. The client's
order of commands is a property of the `redis` package, which is not in the
repository: `Execute` and `Disconnect` are marked external in the map.

`PMState` puts the state file, its timer and the death of the PM beside the same
methods, the same link (`LinkStep`) and the same restart, after which the file is
the old one, was written a last time by `stopAutoPersist()`, or is gone with its
container (`RestartStep`). `finished` is a history: the saved tickets that were
completed and not submitted again. `injectQueueState()` enqueues in a loop:
`Turns` is the function of the memories after each turn, `Injected` the sequence of
those that the turn changed, which is what is saved.

`IndexLoop`, `EnqueueLoop` and `FilterLoop` of `QueueOps` are the `for` with its break,
the splice and the filter of the source, as recursive functions of the number of
turns. `QueueOpsAreLoops` says that the closed forms the actions use are these.

### Supervision

A check (`checkAll()`) is a record in `call`: the tickets it has still to visit,
how their entries look to it, which of those entries are still the registry's
own (`live`: the array holds the live objects, and keeps the dropped ones), and
the worker it is recovering. `Visit` is the loop up to the next worker to
recover. `KillDead` .. `Respawn` are the awaits of `_handleDead()`. `Tick` is a
minute: entries grow older, the timer of the check fires and the two minutes of
the Doctor count down. `order` is the insertion order of the map, which the loop
follows; `Without` is what reconciliation leaves of it. spawnWorker is one step
here; `Dispatch` has its awaits. When it throws, the container may be up
(`LostSpawn`, in `PlaneFails`, `DoctorFails` and `RespawnLost`): a worker without an
entry, or a Doctor that nobody stops. `strays` is a history of the Doctors left up by a
stop that failed or by such a start.

### Control

A caller is an admin's request in progress or one of the four timers: `"boot"`
(auto-start), `"scale"`, `"check"` (the reconciliation at the end of a health check)
and `"zombies"`. `call[c].op` is the route or command, `pc` the await:

| Code | Actions |
|---|---|
| `stopWorker`, `docker.ts:301` | `StopFinds`, `StopReturns`, `StopFails` |
| `startWorker`, 335 | `Find`, `Restart`, `StartFails`, then spawnWorker |
| `spawnWorker`, 49 | `Room`, `Create`, `CreateFails`, `Launch`, `LaunchFails` |
| `deleteWorker`, 381 | `Look`, `Halted`, `Remove`, `DeleteFails` |
| `killZombies`, 422 | `ZombiesStart`, `ZombiesNext`, then deleteWorker |
| auto-start, `index.ts:247` | `BootNext`, then spawnWorker |
| `checkAll`, `health-monitor.ts:219` | `CheckLists`, `Reconcile` |
| the routes and commands | `Stop`, `Start`, `Delete`, `Recover`, `Unblock` (which begin a call) |
| `checkResources`, `onScaleNeeded` | `ScaleUp`, `ScaleDown` |

What a route does with the result of the service is in `Stopped`, `Spawned`,
`SpawnThrows` and `Forgotten`, by the route's `op`. `/unblock` restarts by
stopWorker and startWorker; `/recover` ignores a failing stop. A container id
matters to this code only for whether its container exists, so an id is
`"live"`, `"dead"` or null, and `Reap`, `Remove` and a failed launch turn the `"live"`
ids of a ticket `"dead"` wherever they are held (`Disowned`, `Lost`). A container's
name is its ticket's: `Create` needs the name to be free. `quiet` stands for no
sign of life for `idleTimeoutMinutes`, `old` for an age above
`docker.timeoutMinutes`; the average load, which has no rule, is left open. `mixed` is
a history variable: the tickets that two requests were ever about at once.

An engine call that fails is refused, or lost on its way there, or took effect and
lost its reply; in all three it throws. A container whose `start()` did so runs
(`Strays`, in `StartFails` and `LaunchFails`), and one created or removed by a call that
threw is there or gone (`CreateFails`, `DeleteFails`). `strays` is a history of the first
kind: the tickets whose container runs although its start threw, until it stops, is
removed, or a `/start` finds it running.

### Inbox and Mailbox

One ticket. The admin's `timeline` is what Matrix has; the listener
(`StartListening`, `InitialSync`, `Poll`, `HandleEvent`, `HandlerThrows`) reads it
from its `token`. Rooms are numbered; each worker gets a new one, the old ones
stay mapped. A message pushed is its number, which stands for its timestamp;
`mail[m].fate` is a history of what became of it. The worker is the record
`agent`: `task` and `chat` are the agent at work, `poll`, `response`, `handle` the
chat loop (`index.py:418`), `tool` the tool `poll_admin_inbox()`, `posting`, `asking`,
`answer` the three places where `ask_admin()` can be suspended. A drain takes
the messages out of the inbox in one step and they are in `flight` until the
answer arrives or is lost, a step later.

`ImplementsMailbox` is the refinement: seen through `waiting` (the mail whose
fate is open) and `log["http"]`, the messages handled that came over HTTP, every step is a step of
`Mailbox` or changes nothing of it. `EventId` is where the two transports meet:
the drain leaves the id out, so the second filter never recognises an HTTP copy.

### Worker

`agent.pc` walks through `main()` and the loop: `boot`, `think` (the model is
asked), `tool` / `called` (the calls of its answer), `check`
(`_is_task_complete()`), `report`, `post`, `chat`. `write`, `remove` and `rename`
are the three file operations of `save()`, wherever it is called from. `turn` is the
variable of the `for` loop and `iteration` is `context['iteration']`, which
`load_checkpoint` changes. `Volatile` says whether a new container finds the
file. As the orchestrator starts containers (removed on exit, `/tmp` emptied by
the entrypoint, no `CHECKPOINT_PATH`) it does not; the passing run checks the
checkpoint under the assumption the documents make, that the path is on a volume
of the worker's own.

### ConsumerTokens, CredentialVault, AuditLog

The methods of the three classes are synchronous, or await promises that are
already resolved (the file system is called synchronously), so each is one step.

`ConsumerTokens`: `jwt` is the expiry signed into a token, which the worker keeps
over a restart; `stored`, `rate`, `mirror` are the three maps of the manager.
`LetIn` is `validateToken()` followed by `checkRateLimit()`, for a request that
passes both; one that does not changes nothing. `ConnectTokens` and `LoadRevoked`
are the two awaits of `_initRedis()`; `sadds` are the SADDs nobody awaits.
`TokensRestart` keeps the JWTs and what has reached Redis. `revoked` and `served`
are histories.

`CredentialVault`: `creds` with the insertion `order` of the map, in which
`getCredentialByType()` looks; `cache` with the time up to which an entry is good;
`disk` with a file per id. `WrittenOver` is a save: done, failed (the file is one of
the old ones), or cut off. `VaultRestart` loads the files in the order of the
directory, up to the first that is not JSON. The rotator's methods are steps of
their own; its hourly check never has a new key, so all it does is to read the
old one.

`AuditLog`: `buffer` and `file` hold entries; `Appended(n, piece)` writes the first
n lines and perhaps a piece of the next, after which (`cut`) the next line to be
written is glued to the piece. `lost`, `spoilt` and `broke` are histories.

### Gateway

`req[r]` is where the request on connection r is suspended:

| Code | Actions |
|---|---|
| `handleRequest()` up to `fetch`, `proxy-handler.ts:52-172` with `proxy()` of the five proxies | `Forbidden`, `NoCredential`, `BadEndpoint`, `Proxy` |
| `makeRequest()`: the headers arrive and the timer is cleared | `Headers` |
| the timer aborts the call; the body arrives or breaks off; `handleRequest()` 174-234 | `Abort`, `Body` |
| `createWorker`, `docker.ts:92-116`, 264-278 | `Spawn` |
| the routes under `/gateway`, `index.ts:371-385` | `TokenStep`, `VaultStep` |
| `shutdown()`, `index.ts:726` | `Shutdown`, then `Exit` when no request is left, or `ForcedExit` after ten seconds |
| the process is killed | `Die` |

Between admission and `fetch` a handler awaits promises that are resolved, so it is
one step. `TokenStep` has the manager's whole interface, `VaultStep` only the
import: nothing in the application calls the vault's other methods, and the
rotate route answers 501. What they do is checked in `CredentialVault` by itself,
and `ImplementsVault` carries it over. `Credential` is the choice of each proxy:
by provider and then any for the models, else by type, with a key of the
environment to fall back on.

## 3. Runs

| Run | Kind | Question |
|---|---|---|
| `dispatch_safety` | pass | two handlers at once, every failure: types, queue order, BOOTING entries owned, overrun bounded; every BOOTING entry ends |
| `dispatch_once` | pass | no critical ticket, each submitted once: is a ticket provisioned by one handler only? do the handlers implement `TicketLife`, whatever fails? |
| `pmstate_safety` | pass | does Redis hold the memory when the link is quiet? does the injection merge, whatever happened since the save? do the closed forms of `QueueOps` equal the loops of the source on every queue met? |
| `supervision_safety` | pass | overlapping checks, every failure: types, respawns bounded by the flapping threshold, a Doctor ends with the recovery that started it, except one whose stop failed or whose start threw after it took effect |
| `supervision_liveness` | pass | is a silent worker noticed, does an entry without container end? |
| `control_safety` | pass | with crashes and lost engine calls: does a timer ever prune a STOPPED worker? does anything run that is shown as stopped, when requests did not overlap and no start took effect and threw? is the name of a container that never started freed? |
| `inbox_safety` | pass | is a message ever forgotten, delivered twice by one path, or out of order? is a waiting question visible and its answer younger than it? |
| `inbox_liveness` | pass | is what lies in the inbox taken out, although questions time out and posts fail? |
| `worker_safety` | pass | does a checkpoint on a path that lasts survive any crash, the prompt any trimming, is one outcome posted, does every run end? |
| `gateway_requests` | pass | two requests against revocation, a reloading Redis, failing appends, shutdown and crashes: is a revoked token ever let in, the limit exceeded, a call unaccounted for? does the wait for an upstream's headers end, and every request with a shutdown? |
| `vault_safety` | pass | with failing and torn writes: does the cache ever give out an old key, or an expired one too long? do files and memory agree? |
| `control_zombies` | violation | see Findings |

What some of them do not say:

* `OneProvisioner` and `ImplementsLife` hold without critical tickets and with each
  ticket submitted once. They do not say that a task that waits is ever looked at.
* `StoppedIsDown` and `DoctorOwned` except what a start left up that took effect and threw.
* `SavedSurvives` holds on a checkpoint path that lasts, which the deployed worker has not.
* `DiskKept` exempts the credentials that a failed write or a broken load touched.
* `OncePerPath` speaks of one transport at a time, `InboxIsRead` of what is in the inbox.

Further configurations, run by hand with `tlc -config`, each state properties
that do not hold. TLC stops at the first, so leave one in at a time:

| Configuration | Module | Properties, each with a counterexample |
|---|---|---|
| `Dispatch_mixed` | `MCDispatchOnce` | `OneProvisioner`, `WorkersTracked`, `NextIsAnother`, `MaxWorkersKept` |
| `Dispatch_fair` | `MCDispatchOnce` | `InterruptedResumes`, `QueuedStarts` |
| `PMState_back` | `MCPMState` | `NoneComesBack`, `PausedResumes` |
| `Supervision_snapshot` | `MCSupervision` | `OneBoxPerTicket`, `DoneStaysDone`, `DeathsAreReal` |
| `Supervision_crash`, `Supervision_room` | `MCSupervision` | `CrashedRespawns`; `SilentRespawns` |
| `Control_forgotten` | `MCControl` | `VictimKept`, `StrayShown`, `ListedAreKept` |
| `Inbox_chat` | `MCInbox` | `ChatReaches`, `HandledOnce`, `CommandsOnce` |
| `Worker_chat` | `MCWorker` | `TaskStaysSaved`, `CompletedIsMeant` |
| `Worker_crash` | `MCWorker` | `PromptAlways`, `NeverWithout` |
| `Worker_resume` | `MCWorker` | `Resumes` |
| `Gateway_exit` | `MCGateway` | `RevokedForGood`, `ExtendedLives`, `NoneSpoilt`, `ExitLosesNothing` |
| `Vault_expired` | `MCVault` | `ExpiredUnusable`, `ValidFound` |

**Bounds.** `Slots` is the number of handlers or checks in progress: two are
enough for every race we know of, and the theorems of section 5 cover any
number. Two tickets, one of them critical, give every branch of `/plane`;
`dispatch_once` has three ordinary ones so that one can wait behind two.
`MaxWorkers` is chosen so that the limit is met. In `Supervision`, container ids
are recycled once nothing remembers them, so four of them do not bound the
length of a behaviour; `misses` and `deaths` are capped where the code stops
distinguishing them; a behaviour is one flapping window of sixty minutes, so
`deaths` never expires. `FlappingThreshold`, `DoctorTime` and
`HeartbeatInterval` are the code's constants scaled down to the smallest values
that keep their order. A check that is due while all `Slots` are in use is
skipped. No run lets an engine call take longer than a minute (failure `"slow"`):
the model has it, its state space is too large for a run.
`pmstate_safety` is two instances in one (`part` of `MCPMState`): the link with one
ticket of two priorities, because it does not look into what is saved, and the
failover with two tickets and queues of up to three tasks, since the same ticket
may wait twice. `MaxWire` and `MaxQueue` bound the commands issued and the waiting
tasks. `PMSpec` has both at once; that composition is too large for TLC, and
`StoreKeepsUpInFailover` and `InjectionAlwaysMerges` are theorems about it.

`gateway_requests` has one token, two connections and two calls (`MaxCalls`), over
instants 0 to 3 (`MaxTime`) with a window of 1 and a limit of 1: a third request in two
windows would break the bound, and there is room for it. A token may expire in
the run or not (`Lives`). It is two instances in one (`part` of `MCGateway`): in one no
append breaks off, in the other one does and the tokens are left alone; one
broken append is enough to glue two lines. `vault_safety` has two credentials
(`MaxIds`), a rotation of each (`MaxKey`) and a cache lifetime as long as the run, which
lets an entry outlive an expiry of one instant; at most one schedule and one
failed file at a time (`Bounds`), as the two credentials do not meet in them.

In `inbox_safety` two messages, two rooms and one event of the timeline let a
message race a question, a death and a restart; the batches with several events
are in `inbox_liveness`, whose `Limit` is below the number of events so that a
window leaves one out. The 1024 and 2048 ids the worker remembers are not
reached. In `worker_safety` the numbers of the code (15 turns, 50 messages, 30 in a
checkpoint, every 5 iterations, 5 recent messages) are scaled down keeping their
order; answers may have any number of tool calls.

`control_safety` has one ticket. The tickets of `Control` meet only in three places:
the worker count, the order of the auto-start, and the turns of the loops; none of
them is in a property, and the theorems cover any number. `MaxRequests = 2` lets a request of the admin overlap auto-start or a
scale action; with the zombie timer and a reconciliation that makes four calls in
progress at once. `MaxFaults = 1` gives every failure path at every point, but not two
failures in one behaviour.

**Symmetry** is used for handlers and checks, and for tickets where they are
interchangeable, and never with a liveness property.

**Deadlock** is not checked in `Dispatch`, `Supervision` and `Control`: with every ticket
done and every worker gone the system has nothing to do. It is checked in the
other modules.

**Fairness.** `FairSpec` of `Dispatch` assumes of every activation that its
await settles (the engine answers, the Matrix client has a timeout) and nothing
of Plane or of the workers. `FairOnceSpec` adds, for the two configurations that
use it, that a worker reports sooner or later and that killZombies() ends one
that stays up: the counterexamples are not owed to a worker that does nothing.
`FairSpec` of `Inbox` assumes that the listener, once it runs, and the worker's
loops go on, that the runs of the model end (they have a limit) and that
`ask_admin()` gives up (it has a timeout); strong fairness for the last two,
since a tool call disables them for a while. `FairSpec` of `Worker` assumes that
every call returns (each has a timeout) and that an answer of the model has
finitely many tool calls.
`FairSpec` of `Control` assumes that the zombies' interval timer fires for ever, that
the awaits of a call settle (one way or the other) and that a container grows
older; nothing of the admin, the workers or the other timers.
`FairSpec` of `Supervision` assumes that the interval timer fires for ever and
that the awaits of a check settle.
`Spec` of `Gateway` assumes that the timer of a call fires (`Timers`) and that a shutdown
that has begun ends the process after ten seconds (`ShutdownTimer`: that timer does not
keep the process alive, but a request that hangs does, until it fires). Both are timers
the code sets. Nothing is assumed of an upstream that has sent its headers: the timer
of the call is cleared with them, and the body may never come. So `RequestsEnd` claims
no more than that a request does not wait for headers for ever and that none
outlives a shutdown. That a request is answered is not true of this code.

## 4. Findings

Each is a place where the code does not do what a document, a comment or a log
line of the repository says; the run gives a trace.

* `control_zombies`: killZombies() goes by the age of a container, not by its
  heartbeats, so every worker is deleted a quarter of an hour after its creation,
  whatever it does.

The further configurations show more:

* `Dispatch_mixed`: a task started at once stays in the queue, so its completion
  hands it over as the next task (`NextIsAnother`). The P0 branch leaves its task in
  the queue while it provisions it, so a completion provisions it again
  (`OneProvisioner`); the one that fails removes the registry entry of the worker
  that runs (`WorkersTracked`). The worker limit is a check-then-act over several
  awaits (`MaxWorkersKept`; `OverrunBounded` says by how much it can be overrun).
* `Dispatch_fair`: an interrupted task is in no queue and never resumes; a task that
  could not be started is put back and nothing looks at the queue before another
  worker reports.
* `Control_forgotten`: after `/unblock` or `/start` the entry keeps the id of the old
  container, so the next reconciliation drops the entry of a worker that runs,
  although `registry.ts:145` says that only workers whose container has disappeared are
  reconciled. While scale-down waits for the engine, the entry of its victim is
  still RUNNING; a reconciliation drops it, and the worker that should be kept as
  STOPPED is forgotten (`VictimKept`). And `registry.ts:139` says that "a STOPPED worker
  has NO container by design", but when the engine has started a container and its
  reply is lost, `/start` and `/recover` answer 500 and leave the entry STOPPED over a
  worker that runs (`StrayShown`), until another request or the zombie timer finds it.
* `PMState_back`: tickets completed since the save are queued again. `completeTask`
  looks up the paused task under the wrong ticket (`PausedResumes`), so
  `interruptWithP0`, which has no caller yet, would not help.
* `Supervision_snapshot`: a check acts on what it read minutes earlier: two
  containers for one ticket, a worker started for a completed ticket, a healthy
  worker declared dead.
* `Supervision_crash`: reconciliation removes the entry of a crashed worker
  before its death can be noticed, so it is never respawned.
* `Supervision_room`: a respawn that throws leaves no trace of the ticket.
* `Inbox_chat`: completing the first task removes the registry entry by which the
  relay recognises a PM or PO, so no chat reaches the worker that waits for it; and
  the drain leaves out the event id, so a message that comes by HTTP and by NATS is
  handled twice. When the first sync after a restart fails, old slash commands
  are executed again (`CommandsOnce`).
* `Worker_resume`: no container ever finds the checkpoint of the one before.
* `Worker_crash`: a crash between remove and rename loses the checkpoint; a restored
  conversation need not begin with the prompt, and the trimming then drops the
  new one.
* `Worker_chat`: a chat shares the checkpoint file with the task and replaces it; a
  tool that reads a ticket which is done completes the worker's own task, because
  the check looks for the word in the text of any result.
* `Gateway_exit`: `shutdown()` flushes the audit log before the server is closed
  and stops the timer, so the requests it then lets finish are logged into a buffer
  nobody writes, against "no data is lost on redeploy" (`index.ts:730`). An append that
  breaks off in a line spoils the line that follows (`NoneSpoilt`). A revocation
  whose SADD had not been executed, or came before the client was connected, is gone
  with a restart, and one Redis has is ignored until the ids are loaded
  (`RevokedForGood`; `consumer-token.ts:74` calls Redis "the source of truth across
  restarts"). `extendToken()` changes the metadata but not the expiry in the JWT, which
  is checked first (`ExtendedLives`).
* `Vault_expired`: a key is given out of the cache after its credential has
  expired, and one put into it in the millisecond of a revocation after that;
  `getCredentialByType()` takes the first credential of a type, although it may have
  expired and the next be good.

Two things need no run. `CredentialRotator.revokeCredential()` calls
`revokeWorkerTokens('*')`, "This revokes all" (`credential-rotator.ts:200`), but no
worker is called `*`, so no token is revoked. And a credential imported while the
import is called again is stored again: the vault keeps both, and the older is
found.

## 5. Proofs

TLAPS proves, for all values of the constants that satisfy the assumptions named
below (any number of tickets, handlers, checks, containers, messages and
credentials, any limits, any failures):

| Theorem | Property |
|---|---|
| `DispatchProofs!TypeCorrect`, `QueueStaysSorted`, `BootingAlwaysOwned`, `OverrunAlwaysBounded` | `TypeOK` (an activation holds the local variables its next step reads), `QueueSorted`, `BootingOwned`, `OverrunBounded` |
| `DispatchProofs!HandlersAlwaysGoOn` | `HandlersGoOn` (an action property): an activation only goes forward |
| `DispatchProofs!OneProvisionerOnce`, `AcceptedNeverLost` | `OneProvisioner`, `AcceptedNotLost` of `DispatchOnce`, without critical tickets (`Ordinary`) |
| `DispatchProofs!OnceImplementsLife` | `ImplementsLife`: under the same assumption the routes refine `TicketLife` |
| `DispatchProofs!LifeKeepsPromise`, `OnePlaceNoneLost` | `OnePlace` and `NoneLost` of `TicketLife`: from its own actions, and so of the routes |
| `PriorityQueueProofs!TypeCorrect`, `StoreAlwaysKeepsUp` | `TypeOK` of the queue with its link, `StoreKeepsUp` |
| `PriorityQueueProofs!LoopsAlwaysAgree` | `QueueOpsAreLoops`: the closed forms are the loops of the source |
| `PriorityQueueProofs!PMTypeCorrect`, `InjectionAlwaysMerges`, `StoreKeepsUpInFailover` | `PMTypeOK`, `InjectionMerges` (an action property), and `StoreKeepsUp` with the state file, its injections and restarts added |
| `ControlProofs!TypeCorrect`, `StoppedAlwaysKept`, `StoppedIsAlwaysDown` | `TypeOK`, `StoppedKept` (an action property), `StoppedIsDown` |
| `SupervisionProofs!SupervisionTypeCorrect`, `RespawnsAlwaysBounded`, `DoctorAlwaysOwned` | `TypeOK`, `RespawnsBounded`, `DoctorOwned` |
| `InboxProofs!InboxTypeCorrect`, `MailAlwaysAccounted`, `DeliveredOncePerPath`, `QuestionAlwaysVisible`, `AnswerAlwaysLater` | `TypeOK`, `Accounted`, `OncePerPath`, `QuestionVisible`, `AnswerIsLater` (an action property) |
| `InboxProofs!HttpIsMailbox` | `ImplementsMailbox`: the HTTP path refines `Mailbox` |
| `WorkerProofs!WorkerRunsOut` | `RunsOut` (an action property): a busy worker comes nearer to its end |
| `WorkerProofs!WorkerTypeCorrect`, `PromptAlwaysKept`, `OutcomeAlwaysReported`, `SavedAlwaysSurvives` | `TypeOK`, `PromptKept`, `OutcomeReported`, `SavedSurvives` |
| `GatewayProofs!TokensTypeCorrect`, `RevokedAlwaysRefused`, `RateAlwaysBounded` | types of the tokens, `RevokedRefused`, `RateBounded` |
| `GatewayProofs!VaultTypeCorrect`, `CacheAlwaysCurrent`, `StaleAlwaysBounded`, `DiskAlwaysKept` | types of the vault, `CacheCurrent`, `StaleBounded`, `DiskKept` |
| `GatewayProofs!ImplementsTokens`, `ImplementsVault` | the gateway implements the tokens and the vault |
| `GatewayProofs!GatewayTypeCorrect`, `RevokedRefusedAtGateway`, `RateBoundedAtGateway`, `CallsAccounted` | `TypeOK`, `RevokedRefused`, `RateBounded`, `AuditAccounted` of the gateway |

`QueueOpsProofs` holds what they rest on: `InsertIndexExists` and
`InsertIndexUnique` (there is one insertion position, so the closed form has no
choice), `EnqueueProperties` (the result is sorted and keeps every element),
`KeepProperties` and `WithoutProperties` (the closed form of a filter keeps
order and membership), `TailProperties`. `Keep` counts the positions kept up to
each position, so its lemmas are about the cardinality of initial segments
(`RankMonotone`, `RankOnto`, `RankInjective`), proved without recursion.
`EnqueueOnce`, `TailOnce` and `WithoutOnce` say that no ticket comes to wait twice,
`EnqueueMembers`, `TailMembers` and `WithoutMembers` what the operations do to the set of
waiting tasks, and that the one in front is the most urgent. The loops are recursive
functions, so their lemmas need induction over the queue. The library's induction
theorems cannot be instantiated here; `UpTo` is induction as a fact about sets, from
the least element of a set of naturals (`LeastNat`). `IndexLoopExists` and
`FilterLoopExists` show with it that the functions are what their definitions say,
`EnqueueIsLoop` and `WithoutIsLoop` that they end at the closed forms.

*Dispatch.* `TypeOK` is inductive; its last conjuncts tie the `pc` of an
activation to its local variables. `QueueSorted` is inductive with `TypeOK`. For
`BootingOwned`, the argument is that only the handler that registered an entry
can leave it BOOTING, and every way out of a provisioning `pc` removes the entry
or makes it RUNNING. `OverrunBounded` counts the live workers and the
activations past their check together: `List` adds one activation when there are
fewer than `MaxWorkers` live workers and at most `Cardinality(Slots) - 1` other
admitted activations; `Start` moves one from the second number to the first.
`HandlersGoOn` says that every step of an activation lowers `AwaitsLeft` and that a step
of another one leaves it alone or takes it from the start to its failure (`Kill` of the
worker it was starting): no path goes back to an await, so seven steps end it.

*DispatchOnce.* Both properties follow from one invariant, `OnceInv`: a task is in
one place at a time, the queue or the record of one activation (`PlaceInv`), so two
activations cannot provision it; an accepted ticket waits, is registered or is
held, keeps its entry while it is provisioned, and is not the one that `/plane` is still
provisioning itself (`AckInv`); `FlowInv` says that nothing is ever interrupted and
where an activation may hold a task. `FlowTurn` and `AckStay` say what a step of one activation leaves of
this for the others; the rest is one case per action. The theorems assume
`Ordinary`, that no submitted task is critical. This is a restriction of what Plane
sends, not of the code, and it is needed: with a critical ticket the P0 branch
starts a task it leaves in the queue, and `Dispatch_mixed` breaks `OneProvisioner`.

*TicketLife.* The refinement needs `OnceInv`, by which a turned-away ticket was never
accepted and a launched one is still entered, and `QueueSorted`, by which the task
shifted off the queue is the most urgent that waits. `LifeQueue`, `LifeHand` and
`LifeEntered` translate what a step does to the queue, to one activation and to the
registry into what the abstract state sees; then there is one lemma per group of
actions (`LifePlane`, `LifeStart`, `LifeCompleted`, `LifeNotified`, `LifeQuiet`).
`LifeKeepsPromise` uses none of this: `LifePromise`, that what waits or is held has been
submitted, `OnePlace` and `NoneLost`, is inductive over the abstract actions alone.

*PriorityQueue.* Every method but the first half of `interruptWithP0()` has the
shape `Becomes(<<m>>)` or `Becomes(<<m, n>>)` for memories of the right type
(`MethodShape`), so the link is reasoned about once for all of them.
`StoreKeepsUp` speaks of a quiet link and is not inductive. The invariant
`StoreInv` says what the link carries: unless `unsaved`, the newest
SET on the wire is the memory, or there is none and the store is; unless
`overlap`, no SET is behind a GET on the wire, and every answer on its way is
what the store holds with no SET to come.

*PMState.* `Turns` is a recursive function, so its lemmas need induction over the
saved queue: `TurnsExist` shows with `UpTo` that the function is what its definition
says. `AddProperties` is one turn of the loop, `TurnsProperties` the loop: types,
order and uniqueness are kept, and each saved ticket is known from its turn on.
`InjectedProperties` says that the last memory saved is the one after the last turn,
although only the turns that change something are saved. That is what the link needs:
an injection saves like any method, so `StoreInv` is kept by it too (`PMStoreStep`), and
the other steps of the failover leave memory and link alone (`QuietStore`).

*Control.* The invariant `IInv` is the types with two additions: a call that is
past its beginning has a ticket, and the zombie timer is only ever at the awaits
of deleteWorker(), so that it never marks or registers anything. Lemmas about
`EndsIn`, `Goto`, `Lost`, `SetStatus` and the like carry the steps. `StoppedKept` then
goes by cases: a step of a request changes only the entry of its own ticket
(`KeptByOthers`), losing a container changes only an id (`KeptById`), the zombies do
not forget entries, reconciliation only looks at RUNNING ones and the auto-start
only at PENDING ones. `StoppedIsDown` is not inductive: a stop in progress has no
status yet, and its container may be gone already. `DownInv` says, of a ticket that is not
`mixed`, that one request at most is about it, that a stop which has found its
container gone leaves none running, and that what is STOPPED is down whether or not
a request is about it. The other exception are the `strays`: a start that took effect
and threw puts its ticket there (`StraysRun`: what is there runs), and it stays there
while the container runs (`NoneFound`), until a `/start` finds it and marks the entry
RUNNING. Without it the property is false for one request and one fault. `StepKinds` divides the steps into those that stop a worker,
those that start one and those that do neither.

*Supervision.* The loop of a check stops at the first worker it has to recover; that
there is a first is `StopAtExists`. `RespawnsBounded` holds because a recovery is paid for by a
death: `BoundInv` adds that respawns done and recoveries in progress are at most the
deaths counted, and a death that reaches the threshold starts no recovery. Deaths are counted
before the first await, so overlapping checks cannot both miss one. `DoctorInv`
adds to `DoctorOwned` that only a recovery that waits for a diagnosis holds a Doctor, so
nobody else can drop one. It excepts the `strays`, which are exactly the Doctors that a failed
stop or a start that took effect and threw has left; the catch of the diagnosis knows no
container (`health-monitor.ts:438`). `LoopSpends` and `LostStep` are for
the respawn that throws: whether or not its worker is up, it is paid for.

*Inbox.* `TypeInv` ties what the agent holds to where it is (`HandInv`). `Accounted` is
inductive with it: each step that moves messages takes them from one place and puts
them in one. For `OncePerPath`, `OrderInv` puts the places of each path in a row
(handled, in hand, in the inbox; over NATS handled, in hand, in the queue, on the
wire) with everything in one before everything in the next; the loop takes the
inbox whole and only when its hands are empty. `QuestionInv` covers the moment between the post and the
registration, `AnswerInv` the answer that is on its way. The refinement
(`StepMailbox`) maps a push to a post, the handling of an HTTP message to the
mailbox's, and each other fate to a withdrawal; it needs `Accounted` and `OrderInv`, since
the mailbox hands out messages in order.

*Worker.* `TypeInv` adds to the types that calls and saves happen in a begun turn.
`PromptInv` says that a conversation in progress is not empty; `AddProperties` is
`_add_message()`, whose trimming keeps the first message for any limit above two.
`OutcomeInv` says that nothing is posted while the task runs. `SavedSurvives` is inductive
with `TypeInv`: its second half, that the temporary file is the state being saved,
is what makes the rename safe. `RunsOut` is about the measure `Left`: the turns left and
the place in the turn. Every step of a busy worker lowers it except those that go round
the calls of one answer, whose number the model does not bound. A run that restores a
checkpoint gets its messages and its iteration back but no turns, because run() loops
over a variable of its own.

*ConsumerTokens.* `RevokedRefused` needs that the ids revoked by this process are in
the mirror, and those Redis holds once they are loaded. `RateBounded` compares two
requests twice the limit apart in a history; what is inductive (`TokensInv`) is about
the last entries of that history: as many as the counter says came no earlier than
the window's start, and those before the counter's came before that window. A
cleaned-up counter is no exception, because its token is past its expiry, and a
revoked token is not let in again by this process.

*CredentialVault.* `VaultInv` adds to the three properties that the cache and the
order of the map name credentials that exist, each once, and that an entry of the
cache lives no longer than a TTL from now. Each operation has a lemma; `Rotated` and
`Revoked` are shared by the vault's own methods and the rotator's.

*Gateway.* The parts are composed by simulation: every step of the gateway is a step
of `TokensNext` or changes nothing of the tokens (`TokensSimulated`), and the same for
the vault (`VaultSimulated`), so the theorems of the parts are theorems of the whole.
The audit log is joined to the requests by `AuditInv`: the calls in progress are
different ones, made and not ended, and what the log holds (the file, then the buffer)
knows no call that was not made and no end that has not come. That is why an
appended entry is new and after its call. `FlushKeeps` says what any flush does,
broken off or not: it forgets nothing, adds nothing, and unless it is broken off it
moves the buffer to the end of the file.

Assumptions: the named ASSUMEs of the modules (finite sets of tickets, handlers,
checks and container ids; limits that are numbers, positive where the code needs it;
a null value that is not a task, an entry, a container or a checkpoint), and
`Ordinary` where it is written. TLC evaluates the ASSUMEs in every run.

**Only model-checked**: what is temporal (`BootingEnds`, `SilenceNoticed`, `PhantomsEnd`,
`NameFreed`, `InboxIsRead`, `WorkerEnds`, `RequestsEnd`), since liveness under
fairness is out of the prover's reach. Every other property of a passing run is
proved. Of `BootingEnds` and `WorkerEnds` the part that needs no fairness is proved:
`HandlersGoOn` and `RunsOut` exclude that a handler or a worker goes on for ever without
getting on, and what is left to TLC is that each of them does take its next step.

## 6. Not modelled yet, and the plan

In this order:

1. `/kill` in `Dispatch` and in `TicketLife`: it leaves its ticket in the queue.
2. The registry's copies on disk and in Redis and a restart of the orchestrator.
3. The sandbox executor: the containers it starts, their timeouts and cleanup.
4. `ToolRegistry`: tools registered, saved and reloaded by structured commands.
5. Alerts and their cooldowns; the monitor of Docker events.

Proofs planned: with the restart of item 2, what a reload leaves of `DownInv` and
`OnceInv`.

Left out for good: prompt building, parsing of model output, formatting,
logging and metrics; encryption; the static RBAC tables; the external services
(Plane, BookStack, the LLM providers) beyond the calls the models name; scripts,
Helm charts and role texts.
