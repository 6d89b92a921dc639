# Verification of Command Center (`prodeo`)

Command Center is a server that watches a fleet of coding agents, keeps their
sessions in one catalogue, and puts a human in the loop whenever an agent is
blocked on a permission or a question. This directory holds TLA+ modules of its
core, the TLC configurations that check them, and proofs checked by TLAPS. Every
definition is translated from the Python source; `PROJECT.json` maps each to its
lines.

## 1. The system

One process (`server.py`) runs every service on one asyncio event loop. A
handler runs without interruption from one real suspension to the next; services
talk through direct awaited calls and through an in-process event bus, and the
append-only event log in SQLite is the only durable state: catalogues are folds
of it, rebuilt at boot before the adapters start.

    agents --transcripts, SDK, hook--> adapters --observations--> AdapterManager
                                                                   |        |
              dashboard, voice client --HTTP--> API ---> Mediation <        v
                                                          |         SessionRegistry
                                                          v               |
        hub's NodeSync <--CCAN-- another node          EventBus <---------'
              |                                     (one queue per subscriber)
              '--> registry, mediation, bus              |-> EventRecorder -> SQLite
                                                         |-> WebSocket streams, notifier

### Inventory

| Component | State | Operations | What is hard | What makes it correct |
|---|---|---|---|---|
| **Mediation** (`mediation/`) | `_by_id`, `_pending_by_native`, `_deliver`, `_timeouts` | open, answer, cancel_native, timeout, close, rebuild, apply_remote | answer, timeout and withdrawal race while handlers are suspended in `publish()`; crashes between flip, delivery and append | one resolution, one delivery, no zombie in the inbox, memory = fold of the log, requests with a timeout end |
| **Sessions** (`sessions/`) | `_by_id`, `_by_native`, the state machine | upsert_discovered, observe_state, refresh, rebuild, apply_remote | several signals for one session, in any order; a publish suspended in the middle of an operation | one session per agent; catalogue = fold; the log is a legal history; a parked session is parked for a reason |
| **Adapter manager** (`adapters/manager.py`) | watches, launched sessions, per-adapter tasks | discovery pass, watch, observations, launch, control, interaction glue | discovery, launch and hook meet the same agent; answers race the parking of the session | as above; discovery never un-parks; no interaction nobody can answer |
| **Claude Code adapter** | launched SDK sessions, pending futures, transcript offsets | discover, watch, launch, respond, terminate | transcript age as a state signal; SDK stream ends while blocked | hints are weak; a terminated agent stays stopped |
| **Hook** (`hook.py`) | one HTTP request per question, the time since the last input | ask, watch for input, fall back to the terminal | three deadlines, disconnects, withdrawn requests | it speaks for a human only; an answer reaches the agent or the human is asked locally |
| **Codex, Aider adapters** | byte offsets, a parser per watch | observe only | partial lines, rewritten files, text held back | every whole line is reported once it ended; observations are what the agent wrote |
| **Event bus** (`bus/`) | a queue per subscription | publish, subscribe, close | a full blocking queue stalls the publisher; a full dropping one loses events | order per subscriber; a slow one does not block others |
| **Recorder, store** (`persistence/`) | queue, SQLite table | append, query, stop | loss of the queue in a crash; failing appends | every published event is stored once, at a clean stop all are |
| **Retention** | - | delete expired, archive sessions | deletes what a fold or a cursor needs | protected facts survive |
| **Node sync** (`machines/sync.py`) | a loop and a cursor per machine | reconcile, poll, fold, republish | derived cursor, cancelled loops, restarts, foreign events | the mirror has no gaps and converges; folds in order |
| **Machines, enrolment, pairing, identity** | records, tokens, certificates | add, rename, remove, mint, claim, pair | a claim before a registration; two files, one identity | one node per token; one machine per node |
| **CCAN node** (`packages/prodeo-ccan`) | the same services on another machine | event pages, forwarded commands | long polls | pages in log order |
| **Scheduler** | schedules, next run | create, delete, trigger, loop | the loop awaits launches over a snapshot | a due schedule fires once, a deleted one does not |
| **App supervisor** | wanted, task, process per app | start, stop, supervise | commands that overlap; crash loops | one process per app, none after a stop |
| **Notifier, presence** | queue, clients with a time to live | route, heartbeat | publishes into the bus it reads | no loop; an attentive user is not paged |
| **Summary** | last run | digest over a window | windows, failing runs | no event in two digests, none between two runs in neither |
| **Plugin host, extensions, environment** | installed plugins, settings, jobs | install, configure, download, probe | jobs that outlive what asked for them | apps are pointed at whole models; a chosen cache stays |
| **API, WebSocket** (`api/`) | subscriptions | catch-up and live stream | events between store and queue | a client that resumes at its cursor misses nothing |
| **Mjölnir** (voice client) | cache, dialog, what was read out, pipeline state | listen, announce, answer | a spoken answer races the stream; speaker and microphone are two tasks | it answers what it read out; it listens when called or invited |
| **Dashboard, speech plugins, scripts** | - | presentation, library wrappers | - | - |

`PROJECT.json` "hazards" lists what can go wrong, each at its line, with the
properties that cover it, and what they leave out.

## 2. The modules

| Module | Models | Composes |
|---|---|---|
| `Mediation` | the Mediation Service with the recorder and crashes | `INSTANCE InteractionOnce WITH` the log's view of it |
| `InteractionOnce` | what the durable log promises of an interaction | |
| `Sessions` | the registry's steps, the state machine, the event loop and the recorder | |
| `AdapterManager` | manager, agents and inbox; the handlers that call the registry | `EXTENDS Sessions` |
| `NodeSync` | a hub mirroring a node | |
| `AppSupervisor` | one app extension under commands that overlap | |
| `EventBus` | the bus, the recorder and one WebSocket stream | |
| `Cron` | cron expressions and the next run, with their reference | |
| `Scheduler` | the scheduler's loop | over `NextRun` of `Cron` |
| `Fleet` | identity, installers, enrolment, pairing, machines, commands | |
| `Retention` | a retention pass over the log and its archive | |
| `Notices` | notifier, presence, digests | |
| `Extensions` | extensions, their settings and downloads, the plugin host | |
| `Questions` | a question of the agent and the two ways its answer takes back | |
| `Hook` | the permission hook against its endpoint | |
| `Tailer` | the watch of a transcript | |
| `Transcripts` | the three parsers | |
| `Conversation` | the voice client's cache, intents and dialogs | |
| `VoicePipeline` | its microphone, loudspeaker and announcer | |
| `MediationProofs`, `AdapterManagerProofs`, `NodeSyncProofs`, `AppSupervisorProofs`, `EventBusProofs` | theorems about the module in the name | `EXTENDS` it |
| `ServicesProofs` | theorems about retention, cron, scheduler, notices, extensions and fleet, and that the bus of `MCServices` is `EventBus` | `EXTENDS MCServices`, `INSTANCE EventBusProofs` |
| `EdgesProofs` | theorems about questions, hook, tailer, parsers, conversation and voice pipeline | `EXTENDS MCEdges` |
| `PositionLemmas` | what the proofs share about positions, sequences and division | |
| `MC*` | instances for TLC; `MCServices` and `MCEdges` hold several of the small modules | `INSTANCE ... WITH` |

### Mediation

`status`, `pendingBy`, `deliver` and `timers` are the four dictionaries of the
service. Each handler is a synchronous flip (`Open`, `Answer`, `Timeout`,
`CancelNative`, `CancelOrphan`; the common part is `Resolve`) that leaves a record
in `calls` for what it still awaits: `PublishReturns`, then `Deliver` or
`DeliverFails`. `Append` and `AppendFails` are the recorder. `Crash` loses
everything but the store; `Close` and `Exit` are `Server.stop()`; `Rebuild`,
`CancelOrphan` and `RebuildDone` are the boot. `heard` records what blocked agents
were told, which no variable of the program does. A publish may always suspend
here, which is what the code does under backpressure and more than it does
otherwise.

### Sessions and AdapterManager

The event loop is explicit. `turn` is what is left of the running handler, a
sequence of steps; `suspended` holds the handlers waiting in `publish()` for room
in the recorder's queue, and only then does a handler leave the loop. `capacity`
is chosen once from `Capacities`, so the same run has servers with and without
backpressure, and `stalled` remembers whether a publish ever found the queue
full. `ObserveState`, `PublishLifecycle`, `ApplyHint`, `UpsertKnown`, `UpsertNew`,
`Refresh` and `RebuildRegistry` are the registry. `AdapterManager` adds the agents (owned by the server through the
SDK, or foreign and asking through the hook), their transcripts (`file`,
`unread`), watches, the inbox and the control calls.

What is abstracted:
- event ids increase with creation (`events/envelope.py:_new_id`), across
  restarts too;
- a discovery pass is one handler per descriptor;
- descriptive fields (title, model, usage) are not modelled: their events are
  `Other`, which no fold reads;
- the second attempt of `_handle_observation` after 0.5 s is a later
  `OpenInteraction`;
- agents started by the server end with it;
- `adapter.respond()` always suspends; it returns or fails later.

### NodeSync

One node, one of its sessions; an event is its position in the node's log.
`loops` is `_tasks` with the local variables of `_sync_machine`; `Reconcile`,
`Poll`, `PollRemoved`, `DropForeign`, `PublishRemote` (fold, then publish) and
`PublishReturns` are its steps, `LoopDies` an error it does not catch. The hub has
its recorder queue, its store and the folded `view`; `HubRestarts` folds the view
from the store and derives the cursor anew. `NodeRecords`, `Disconnect` and
`Reconnect` are the node; `Pair` and `Unpair` the machine catalogue; `Expire`
retention; `HubArchives` the archive endpoint of the hub. The node's log is served in the
order it was appended; when the recorder keeps that order is the subject of
`LogIsHistory`. `furthest`, the last fact folded since the boot, is a history
variable: `FoldsInOrder` compares a fold with it.

### AppSupervisor

`wanted`, `state`, `process` and `task` are the app's `_Running` record. `tasks`
holds every `_supervise()` coroutine, the ones the record has lost included, with
the place where it awaits; `calls` holds the commands that await a cancelled task or
a terminated process. `Start`, and `Command` up to its first suspension, then
`TaskEnded` and `Terminated`, are `start_app()`, `stop_app()`, `restart_app()` and
the server's `stop()`; `Loop`, `Spawned`, `SpawnFails`, `Reaped`, `BackoffEnds` and
`Cancelled` are the task. `start_app()` does not suspend: the readiness probe it
awaits is synchronous. `live` and `doomed` are the child processes. `contested`
remembers whether a start ever met another command under way; no variable of the
program does. What refuses a start, the environment of the child and its presence
heartbeats are abstracted. Tasks and process ids are used again, so nothing bounds
the number of launches; the two sets bound only how many can be lost at once.

### EventBus

Events are numbered by id. `Publish`, `PutResumes` and `Fan` are `publish()`: the
recorder's subscription blocks, so a publisher may wait in `putting`; the stream's
drops its oldest. `Take` and `Stored` are the recorder, `Stop` and `MarkerQueued`
its end, with whoever still waits for room. `Connect`, `ReadPage`, `Replay`, `Live`
and `Disconnect` are `event_stream()`: it subscribes, reads the store page by page from
the client's cursor and sends a page one event at a time (the rest of it, in the order
of the log, is the set `stream.page`), then follows its queue. A closed connection gets
nothing: a publisher that was waiting when it closed gives its event to no later one. `settled` (a returned `publish()`),
`sent` and `history` (what the store held when the client subscribed) are history
variables.

### Cron and Scheduler

`Parsed` and `NextFire` are translated from `parse_cron()` and `next_fire()`, with the
loops over days, hours and minutes as folds and the rule for day-of-month and
day-of-week in `MatchesDay`. `Fires` and `FirstFire` are the reference: the first
later minute of the wall clock that every field matches. The calendar is a
parameter: minutes, hours and days are few, a month lacks a day, and the clock
is put back once, so some minutes are shown twice. The reference looks as many days
ahead as the search does (`SearchLimit`). In `Scheduler`, `Create`, `Delete`, `Trigger`,
`Wake`, `LaunchEnds`, `Halt` and `Rebuild` are the operations; `loop.todo` is the
snapshot the pass still has to look at, in the order of creation. `NextRun` and `FirstRun` tabulate search
and reference once for every expression and instant.

### Fleet

`identityDir` and `identity` are the hub's key and certificate on disk and in memory
(`LoadIdentity`, `WriteCertificate`, `WriteKey`); `Download` mints a token into a zip,
`Install` unpacks it on a box, `Readdress` moves a box in the network, `Join` is the
whole handshake of Add Machine: TLS both ways, the claim, the registration.
`Obeys(m, b)` says that a command for machine `m` reaches box `b` and is obeyed.
`Restart` is a crash of the hub between any two of these, with the catalogue
folded from its facts. `enrolment` and `refused` remember who ever claimed a token.

### Retention

One pass is `StartPass`, then `NextPage`, `ArchiveBatch` (or `ArchiveFails`) and
`DeleteBatch` for every page of every rule, with events published and mirrored
between them and a `Crash` that ends the pass and derives the cursor from what is
left. `expired` remembers under which rule an event was deleted.

### Notices

`Take` and `Send` are the notifier: it chooses the channels of an event, each once, then tells
one after the other and publishes the outcome into the bus it reads from, which may
drop the oldest event of its own queue (`lost`). `Report` and `Forget` are the
clients' presence, which runs out by itself. `Fold`, `FoldFails` and `Summarized` are a
periodic digest.

### Extensions

`lib` is what is installed, `saved`, `disabled` and `root` the settings document,
`inventory` what the host loaded at its last boot (`Load`, from `Resolves` and
`Accepts`), `disk` the model files. `Install`, `Uninstall` and `Download` start a job
in `jobs` that ends later, whatever became of the settings; `ApplyConfig` then points
the app at the files (`wired`).

### Questions and Hook

`Questions` is a chain of functions: `InteractionContent` makes cards of the agent's
questions, `Resolve` is the human's answer through the API, `DecisionOutput` and
`CanUseTool` turn it into what the hook prints and what the SDK bridge returns, by
`QuestionsUpdatedInput` and `MatchLabel`. `Hook` is the process and its request: it asks
when nobody is at the machine (`Invoke`), reads the reply (`HookReads`), gives up when
somebody returns or its time is over, and is killed at the cap; the endpoint opens a
card, polls it and the connection (`PollSettled`, `PollDisconnected`), and the
server may crash and boot. Time is counted in ticks, and a tick waits for what is due.

### Tailer and Transcripts

`Tailer` is one poll of `watch()` in four awaits: stat, read, feed, save. The file is
a sequence of pieces (heads and tails of lines, line ends), so that a chunk ends
anywhere; `Rewrite` replaces it, `WatchFails` and `Reboot` take the watch up again from
the offsets kept in memory and on disk. With `Markdown` it is Aider's, whose parser
holds text back. `Transcripts` has one `Feed*` function per format, from a parser and a
record to a parser and its observations.

### Conversation and VoicePipeline

`Conversation` has the server's open interactions, the stream (`feed`, `link`,
`cursor`), the cache folded from it and the handlers: an utterance is heard (`Hear`),
offered to a pending dialog (`ResumeDialog`), routed (`Route`) and handled (`Handle`).
Handlers are functions from the talk so far to what they would say and call
(`Reply`), and `Settle` makes the calls, which may be refused. `readout` is what
was last read out to the user; no variable of the program does that. `VoicePipeline` is the
listen loop, the announcer and the lock, the echo guard and the follow-up window
they share; `owed` remembers an invitation not yet taken up.

## 3. Runs

| Run | Instance | Shows |
|---|---|---|
| `mediation` | 2 keys, 2 ids, 1 callback, 2 restarts | `OneResolution`, `HeardOnce`, `MemoryIsFoldOfLog`, `NoZombies`, and that the log refines `InteractionOnce` |
| `mediation_progress` | 1 key, 1 id, 2 callbacks, 2 restarts, 1 failed append | `TimedRequestsResolve`, `AcceptedAnswersLand` under `FairSpec` |
| `answer_is_durable` | 1 key, 2 ids | **violated**: an answer is delivered before it is durable |
| `sessions_and_manager` | 1 agent, 2 session ids, 1 interaction, queue of 1 or 3, 4 facts, 1 restart | `OneSessionPerNative`, `CatalogueIsFoldOfLog`, `LogIsHistory`, `ParkedForAReason`, `DiscoveryNeverUnparks` |
| `inbox_answerable` | 1 agent, 1 interaction | **violated**: terminating a session leaves its question in the inbox |
| `terminated_stays_stopped` | 1 agent | **violated**: discovery revives a terminated session |
| `node_sync` | log of 4, pages of 2, queue of 2, 2 pairings, 2 faults | `MirrorHasNoGaps`, `FoldsInOrder`, `MirrorConverges` under `FairSpec` |
| `remote_writer` | log of 3 | **violated**: the hub writes the state of a session it only mirrors |
| `app_supervisor` | 2 callers, 2 tasks, 2 processes, given up after 2 crashes | `OneProcess`, `StatusIsTrue`; `CommandsReturn`, `ComesUpOrFails`, `CrashLoopEnds` under `FairSpec` |
| `children_die_first` | the same | **violated**: a start during a stop leaves a process that survives the shutdown |
| `services` | 6 services side by side, below | `EventsAreKept`, `StreamInOrder`, `NextIsFirst`, `NoBackfill`, `OnlyThePaired`, `ToldAndCountedOnce`, `ModelsAreWhole` |
| `edges` | 6 edges side by side, below | `OnlyWhatWasSaid`, `NoLineSkipped`, `ObservationsAreFaithful`, `CacheCatchesUp`, `DoesAsTold`, `CaptureIsInvited`; `CardGoes` under `FairSpec` |

No run checks deadlock: a server with nothing to do is idle, and the bounds end
behaviours.

**Why the bounds are enough.** Handlers of Mediation meet only in one key or one
id: two of each give two interactions one after the other on one key, and two side
by side; two restarts give a crash during the recovery from a crash. In
`sessions_and_manager`, the races are about one agent and who meets it first, so
two session ids are enough to register it twice; four facts
are a discovery, a start, a parking and one more, and two suspended handlers with a
queue of one let a third overtake both. In `node_sync`, a log twice as long as a
page, a queue of two that blocks in the middle of a batch, and two faults allow
a cancelled loop, its successor and a restart in any order. In `app_supervisor`,
two callers are what it takes for commands to overlap, and two crashes tell the
first from the last.

In `services` and `edges`, a behaviour is of one part, chosen in the initial state;
the parts share no state in the code but the event log, of which each has its own
view, so nothing is lost by running them apart.

- *bus*: three events, a recorder queue of one and pages and a stream queue of two, so
  that publishers wait, a history takes two pages and the stream drops.
- *scheduler*: two schedules, four expressions, five minutes, a clock put back by two
  at minute four; one restart. *cron* is evaluated at every one of these minutes, over
  months of two days and of one and weeks of two days.
- *fleet*: two boxes, two identities, two installers, three facts, one handshake and one
  restart; and again with one installer and one box wiped.
- *retention*: four events of two types and two nodes, two rules, batches of one, one
  crash.
- *notices*: four events, a queue of two, one client, two channels of which one is for
  the absent, one restart.
- *extensions*: one with a schema and one with models and a licence, two roots, three
  writes.
- *questions*: two questions a call with three lists of options whose labels differ, differ in
  case, or read as a position. *hook*: one hook, a question that times out before
  the cap, one crash of the server.
- *tailer*: files of six pieces, replayed from the last three, one rewriting, one failure,
  for records and for markdown. *parsers*: every transcript of four lines.
- *conversation*: two utterances, two interactions of one session, one lost connection: an
  answer and what it answers may be separated by a dialog or by news.
  *pipeline*: three captures, three announcements.

**Conditions in the properties.** `LogIsHistory` assumes that a process in which a
publish found the queue full did not crash: handlers lost while suspended in `publish()`
lose events that came before ones already stored, so the log is then torn.
`DiscoveryNeverUnparks` and `ParkedForAReason` assume no such
publish (and the latter no restart, which may lose the resumption
with the queue): 1024 queued events separate the two. Without these conditions TLC
finds counterexamples; they are listed as hazards. `MirrorConverges` assumes that
the node recorded fewer events under another name than a page holds: events of
another name do not move the cursor, so a page full of them is fetched for ever.
`OneProcess`, `StatusIsTrue` and `ComesUpOrFails` assume that no start overlapped
another command (`contested`); `children_die_first` shows what such a start does.
`CommandsReturn` and `CrashLoopEnds` assume nothing of the kind. `StreamInOrder`
assumes no waiting publisher (`stalled`) for the order, not for the rest.
`NextIsFirst` and `NoBackfill` leave out the minutes shown a second time.
`NoLineSkipped` speaks of the edition of a file the watch has noticed, and
`CacheCatchesUp` of behaviours in which no event fell between the snapshot and the
first connection (`gap`). `CardGoes` allows for a server that is down.

**Fairness.** Weak fairness only, of what asyncio and the supervisor guarantee: a
ready task runs, a sleep ends, the recorder drains its queue, a stopped server is
started again, the reconcile timer fires, an outage ends; and a child told to
terminate exits, or is killed after five seconds. No fairness is assumed of humans, agents or
adapters, nor of crashes. For `Hook`: the clock ticks, the hook and the endpoint take
a poll or a deadline that is due, and a question's timer fires; the human and the boot
of a crashed server are not fair.

## 4. Proofs

TLAPS checks every theorem below for all values of the constants that meet the
named assumptions. None of the properties is inductive: each says what can be seen,
while the handlers look at something else. An invariant that is inductive was
written down for each module, checked by TLC on the module's run, and then proved.

| Theorem | States | Property |
|---|---|---|
| `MediationProofs` `ResolvedOnce` | at most one resolution of an interaction is published | `OneResolution` |
| `AgentHearsOnce` | an agent is answered once | `HeardOnce` |
| `MemoryFollowsTheLog` | the status in memory is the fold of what was published | `MemoryIsFoldOfLog` |
| `InboxHasNoZombies` | what is pending in a running server can be answered | `NoZombies` |
| `LogKeepsThePromise` | the log refines `InteractionOnce` | `ImplementsPromise` |
| `AdapterManagerProofs` `OneSessionEach` | one session per agent | `OneSessionPerNative` |
| `CatalogueFollowsTheLog` | the catalogue is the fold of what was published | `CatalogueIsFoldOfLog` |
| `LogTellsHistory` | the log of a session is a legal history, in order | `LogIsHistory` |
| `ParkedMeansAsked` | a parked session has a question that explains it | `ParkedForAReason` |
| `DiscoveryLeavesParked` | no step of discovery un-parks a session | `DiscoveryNeverUnparks` |
| `NodeSyncProofs` `MirrorIsWhole` | the mirror of a node's log has no gaps | `MirrorHasNoGaps` |
| `FoldsFollow` | a fold goes back only over what was folded before | `FoldsInOrder` |
| `AppSupervisorProofs` `NamesTheOneProcess` | one process and one task, known to the record | `OneProcess` |
| `ShowsWhatIs` | the status shown is that of the process | `StatusIsTrue` |
| `EventBusProofs` `StopKeepsEvents`, `ClientReadsInOrder`, `ClientReadsHistory` | the parts of the next two, for the bus alone | - |
| `ServicesProofs` `StreamReadsInOrder` | a stream is in order and its history complete | `StreamInOrder` |
| `NothingIsLost` | a clean stop stores all; retention keeps what it must | `EventsAreKept` |
| `NextRunIsFirst` | a next run is the first minute the expression matches | `NextIsFirst` |
| `NothingBackfilled` | no run of the past, none of a deleted schedule but one under way | `NoBackfill` |
| `EachIsToldOnce` | a channel hears of an event once, a digest counts it once | `ToldAndCountedOnce` |
| `ModelsAreWired` | an app is pointed at whole models, a chosen cache stays | `ModelsAreWhole` |
| `OnlyThePairedEnrol` | a token binds to its first node, a command reaches its own | `OnlyThePaired` |
| `ServicesWellTyped` | every service is well typed | `TypesOK` |
| `EdgesProofs` `ToldWhatWasSaid` | an agent is told what a human said; a hook ends before its cap | `OnlyWhatWasSaid` |
| `CacheFollows` | the voice client's cache comes to hold what the server holds open | `CacheCatchesUp` |
| `ToldAndConfirmed` | a verdict falls on what it meant, a launch is the confirmed one | `DoesAsTold` |
| `MicrophoneIsInvited` | a microphone opens on an invitation, once | `CaptureIsInvited` |
| `NoLineIsSkipped` | no whole line of a transcript is passed over | `NoLineSkipped` |
| `ReportsAreFaithful` | what is reported of a transcript is what it says | `ObservationsAreFaithful` |
| `EdgesWellTyped` | every edge is well typed | `TypesOK` |

`TypeCorrect` (`Spec => []TypeOK`) comes first in each of the five modules about one component.
With it, every invariant and every action property of a passing run is a theorem.

**Mediation.** The handlers look at `status` and `pendingBy` only. `IInv` says what
these mean for the events already published: a pending interaction has no resolution
anywhere (`PendingIsOpen`), the index names only pending interactions of its key
(`KeyOfPending`), ids are fresh (`EidsUsed`, `EventsDrawn`), a process that is down
holds nothing (`DownIsEmpty`), and, because a restart computes `status` from the
store, a request precedes its resolution (`RequestedFirst`). `HeardOnce` needs the life
of a callback on top: it is spent by the flip that resolves its interaction, and only
a pending interaction of a running server has one (`HeardInv`). `NoZombies` needs that
a running server serves every pending interaction: index, callback and timer
(`PendingIsServed`). The refinement maps each interaction to its fate in the store; an
append either shows a request or settles an interaction that has no other resolution,
by `ResolvedOnce`.

**AdapterManager.** `Sound` is about the loop and the log together. A handler has one
step that matters, its next (`TurnsShaped`), and whatever a step left to do, a watch or
a card names is in the catalogue (`StepsKnow`, `AgentsKnown`, `AsksKnown`, `IndexKnows`).
`Logged` says that ids are fresh, that a session is discovered once, and that store and
queue are in the order of creation until a publish finds the queue full (`InOrder`): that
is what makes the fold of the log, at any crash, the catalogue. `Parked` is about a loop
on which nothing stalled: a session is parked for a card that is pending, is still
waited for or ended unanswered, unless the handler that has the loop is about to take it
out (`ParkedHasReason`, `Leaving`); who parks has a reason, and an agent that is gone ends
its session next (`ParkHasReason`, `GoneLeaves`); and discovery's next step is not about
a parked session (`DiscoveryLooksAway`), because it read the state in the same turn.

**NodeSync.** Several loops may work on one log, cancelled ones included. What is
stored or queued has every earlier fact before it (`StoredNoGaps`, `QueueNoGaps`); a
loop applies consecutive events and has every fact behind it on record (`LoopShaped`,
`LoopCovered`), which holds for a new loop because its cursor comes from the store; and
a fact is folded before it is put on record (`RecordFolded`, `LoopFolded`).

**AppSupervisor.** `Base` holds always: slots at rest are cleared, and who cancels a
task awaits it. Unless a start met another command (`contested`), `Orderly` holds: the record names
the only task and the only process (`TaskNamed`, `ProcessNamed`), a task that waits
waits for that process and shows it running (`TaskTracked`), a command waits for
the task of the record, and past that wait no task is left (`Cancelling`, `Cleaning`,
`Terminating`), so with neither task nor command there is no process (`IdleIsEmpty`).

**EventBus.** `Kept` follows a settled event through every stage of the recorder's stop.
An event that waits in `publish()` has reached nobody, and the connection it will be
given to is the one it was published on (`Waiting`); what a replay still has to send
comes after what it has sent (`Replaying`); what the queue of a client holds is new to
it or will be skipped (`Ahead`); a page leaves out nothing of the history (`Whole`).
`ServicesProofs` carries the three theorems to `MCServices` by showing that its bus is an
instance of the same specification (`SameBus`).

**Retention.** A batch is deleted some steps after it was read: it stays old
enough and unprotected (`Doomed`), and is in the archive by then if its rule says so
(`Copied`). **Cron.** Lemmas lead from days, hours and minutes of the calendar to
`NextFireIsFirst`: on every day of the search, the nested loops return the first minute
that matches, and a day they skip has none. **Scheduler.** `SchedulerInv`: a stored next
run is the one computed at `base` (`IsComputed`); what was fired was due before the next
was computed, and what can be fired was computed since the start (`IsLater`); only the
pass under way runs a deleted schedule (`RunsOnce`, `PassIsCurrent`). **Notices.**
`NoticesInv`: the queue is in order and behind the event being routed (`QueueInOrder`),
outcomes are of earlier events and differ (`AboutThePast`, `OutcomesDiffer`), nothing is
told yet of what waits nor to the channels left (`Untold`, `TargetsLeft`), all others are
told (`AllTold`), and the windows of digests follow each other (`RunsFollow`).
**Extensions.** Both steps that wire an app look at the files in the same step; `ExtensionsInv`
has the shapes of the jobs, of the settings and of the inventory, for any order of jobs,
settings and restarts. **Fleet.** `FleetInv`: what the hub enrolled is read off its
tokens, and only others were refused (`TokensBind`); the pin of a machine is a
certificate of its own node (`CatalogueFits`), in every catalogue that a restart can fold,
because the first fact is the hub's own machine, which none removes. The fold
(`Rebuilt`) is reasoned about one fact after the other (`UpToBound`).

**Questions.** Every ruling is what `CanUseTool` makes of one recorded answer, and an
interaction has one (`OneAnswer`). **Hook.** What the thread was replied is what became
of the card, which is settled for good (`RepliesAreTrue`); a tick waits for an overdue
hook, so none grows older than its deadline, and that is below the cap. **Conversation.** `StreamTells`:
what the stream tells last of an interaction is how it is, a request is told before its
end, and of what is not told any more the cache has the truth; so an empty stream leaves
none to learn. `TalkFits`: the list positions count in is the one that was read out last, and a dialog is
one of four. On these each handler, through all it calls, leaves an outcome that is
`Warranted`: no verdict and no launch, or one that was told or confirmed. **VoicePipeline.** The
follow-up window is open exactly as long as an invitation is owed (`PipelineInv`).

**Tailer.** `TailerInv`: the agent writes whole lines but for the last (`FileFits`); an
offset that is kept, in memory or on disk, for the present edition has only lines before
it that are dealt with (`OffsetsFit`); and a watch of the present edition holds exactly the
unfinished line before its own offset, all earlier ones being dealt with or split off and
waiting to be fed (`Following`). What a chunk splits into is shown by counting: the
n-th line break of a chunk ends its n-th line. **Parsers.** `ParserInv`: the tools a parser
remembers are the calls of the transcript that are open (`ToolsFit`); one of the two buffers
of Aider's is empty, and what was reported followed by what they hold is the history
(`MarkdownInv`), for each of the handlers from any such state; the title is that of the
lines fed (`TitleInv`). **Types of the edges.** Two facts are more than shapes: the
read-out has each asked interaction once, because in a finite set of ids each rank is one
id's (`RankIsTaken`), and a session at work is in the cache, because the stream does not
tell its end before it ends (`SessionsFit`).

**Assumptions.** `None` is not one of the values it stands beside
(`NoneIsNoValue`, `NoneIsNoRequest`, `NoneIsNoSession`, `NoneIsNoMachine`,
`NoneIsNothing`), and `Other`, the event no fold reads, is not a fact (`OtherIsNoFact`);
bounds are natural numbers, sizes of queues and pages are positive (`BoundsAreNat`,
`SessionBounds`, `ManagerBounds`, `SyncBounds`, `MaxCrashIsPositive`, `BusBounds`). `ServicesBounds`
adds the calendar's shape (positive hours, days and search, a clock put back by no more
than has passed), the types of the retention rules, and that the routes of a
kind are different channels, as `_route()` makes them (`FleetBounds`: bounds are natural numbers, the first fact has room, and
no box is called `unclaimed` or `nowhere`; `ExtensionsBounds`: the default root is a root). `EdgesBounds` has the hook's deadline,
time-out and grace, below Claude Code's cap (`hook.py:40`), the types of what is asked and
said, and the shapes of transcript lines (`TranscriptsBounds`), among them that an info line of an
Aider history that is none of the known kinds has a text: one without is a blank
(`parser.py:108`). Every one is evaluated by TLC.

**What the proof attempts changed.** `FoldsInOrder` first compared a fold with the
view alone, and could not be shown for a hub that folds again after a restart; it now
speaks of `furthest`. A publisher that was waiting when a client reconnected would have
delivered to the new connection; the code gives it to the closed one, and so does
the model now. That a hook ends before its cap needs the three times to be ordered,
which nothing said before `HookBounds`. `MarkdownIsKept` needs an info line of no known kind to have a text, which nothing said before
`TranscriptsBounds`: an empty one would be reported, and be no text of the history. So that
it could be reasoned about, the fold of the machine catalogue is a recursive function now and the text
of a transcript is a `FlattenSeq`; the two fleets and the two tailers of the instances are one
instance each, with its bounds or its format as parameters.

**Only model-checked.** All liveness (out of the reach of TLAPS, like ENABLED):
`TimedRequestsResolve`, `AcceptedAnswersLand`, `MirrorConverges`, `CommandsReturn`, `ComesUpOrFails`,
`CrashLoopEnds`, `CardGoes`. The five runs that end in a violation state what does not hold.

## 5. Disagreements found

1. `answer()` calls the answer "the durable fact" (`mediation/service.py:147`), but
   a returned `publish()` has only queued it: the agent may act on an answer the log
   never gets, and the rebuild then cancels the interaction.
2. Terminating a session cancels the futures its agent was blocked on and withdraws
   nothing from the inbox (`launcher.py:308`), against ADR-0007's "never shows
   unanswerable zombies".
3. After a terminate, discovery takes the age of the transcript for activity and
   shows the stopped session running (`sessions/registry.py:91`).
4. The archive endpoint of the hub publishes session facts about sessions of other
   nodes (`api/app.py:825`), whose own registry "stays the only writer".
5. A start that overlaps a stop of the same app brings about a task or a process
   that the stop then forgets (`apps/supervisor.py:237`, `:430`); the shutdown does
   not find it, against ADR-0016's "has already killed the children first".

Seen while modelling and not kept as runs; each is in the hazards, at its line:

- half-duplex (`pipeline.py:4`) is not kept: the follow-up window a reply opens can
  start a capture while an announcement is played;
- a handler of a disconnected client may wait for ever in `close()`
  (`bus/inproc.py:77`);
- an event published before a client subscribed, and stored after its replay, is in
  neither part of its stream (`api/app.py:1247`);
- a file rewritten beyond its old size before the next stat is read on from the old
  offset, and a line with U+2028 in it is split (`_split_lines` of the adapters);
- a retried hook shares the interaction of its first attempt, whose
  disconnection withdraws it (`api/app.py:640`);
- in the hour shown twice, a next run may be computed that lies in the past
  (`scheduler/cron.py:119`);
- a digest that fails loses its period (`summary/service.py:130`);
- a retention pass may delete the event a cursor is read from; expired events are
  then mirrored again (`machines/sync.py:144`);
- a loop that is stopped while it folds facts again after a restart leaves the view
  where it was; its successor derives its cursor from the store and does not fold the
  facts in between (`machines/sync.py:94`);
- the config of an extension that failed without a manifest is saved without
  validation and rejected at the next boot (`extensions/service.py:131`).

## 6. Plan

Modelled, checked and proved: all modules above. What is left, the most important first:

1. `AdapterManager`: the second watch that a stale done-callback allows, and two
   questions of one session.
2. `Server`: the order of the services at a stop, with `EventBus` as its bus.
3. `Hook`: two hooks on one interaction (a retried request).
4. `Extensions`: what a failed extension makes of its saved settings.

## 7. Not modelled

The dashboard, the speech, wake-word and summary plugins, logging, configuration
parsing, authorisation and the environment probes keep no state that a step of
another component depends on. The composition of the server runs once, in order, at
boot. Of the voice client, what is said about status and about the night, the wording,
and the calibration are reading and presentation. Of the adapters, finding transcripts
on disk is reading too; installing the hook into the agent's settings is a one-time
edit of a file. Components marked `partly` in `PROJECT.json` say what they leave out.
