---------------------------- MODULE AppSupervisor ----------------------------
(***************************************************************************)
(* The App Supervisor (src/src/prodeo/apps/supervisor.py): one app         *)
(* extension, a child process that is kept running while the user wants    *)
(* it running, under start, stop and restart commands that may overlap.    *)
(*                                                                         *)
(* A command holds the event loop until it really suspends: stop_app()     *)
(* while it awaits the cancelled task, and again while it awaits the exit  *)
(* of the process.  start_app() does not suspend: the readiness probe it   *)
(* awaits reads files synchronously (extensions/assets.py:103).  Nor is a  *)
(* publish a suspension of its own here: each is followed or preceded by a *)
(* wait of the same task with the same effect of a cancellation.           *)
(***************************************************************************)
EXTENDS Naturals, FiniteSets

CONSTANTS
  Callers,  \* who issues commands: API requests, the server's shutdown
  Tasks,    \* asyncio tasks, used again when done; bounds the lost ones
  Procs,    \* process ids, used again when dead; bounds the orphans
  None,     \* Python's None
  MaxCrash  \* _MAX_CRASH_LOOP (5 in the code)

ASSUME NoneIsNothing == None \notin Tasks \cup Procs
ASSUME MaxCrashIsPositive == MaxCrash \in Nat \ {0}

VARIABLES
  wanted,   \* _Running.wanted
  state,    \* _Running.state
  process,  \* _Running.process
  task,     \* _Running.task
  tasks,    \* the _supervise() coroutines: where each is awaiting
  calls,    \* caller -> the command it awaits
  live,     \* child processes that have not exited
  doomed,   \* those told to terminate: they exit, or are killed in 5 s
  server,   \* "up" | "stopping" (stop() entered) | "stopped" (it returned)
  contested \* was a task ever created while another command was under way?

app == <<wanted, state, process, task>>
world == <<live, doomed>>
vars == <<app, tasks, calls, world, server, contested>>

NoTask == [at |-> "none", proc |-> None, crashes |-> 0, cancelled |-> FALSE]
NewTask == [NoTask EXCEPT !.at = "loop"]
NoCall == [do |-> "none", at |-> "none", on |-> None]

Running(t) == t # None /\ tasks[t].at # "none"
Busy == {c \in Callers : calls[c] # NoCall}

Init ==
  /\ wanted = FALSE
  /\ state \in {"stopped", "failed"} \* failed: autostart with incomplete setup
  /\ process = None
  /\ task = None
  /\ tasks = [t \in Tasks |-> NoTask]
  /\ calls = [c \in Callers |-> NoCall]
  /\ live = {}
  /\ doomed = {}
  /\ server = "up"
  /\ contested = FALSE

-----------------------------------------------------------------------------
(* Commands *)

\* The second half of start_app(): no task is running and nothing is missing.
Create(c) ==
  \E t \in Tasks :
    /\ tasks[t] = NoTask
    /\ tasks' = [tasks EXCEPT ![t] = NewTask]
    /\ task' = t
    /\ wanted' = TRUE
    /\ state' = "starting"
    /\ contested' = (contested \/ Busy \ {c} # {})

\* Defect: start_app() does not look for a running task.
StartUnchecked(c) ==
  /\ calls[c] = NoCall
  /\ Create(c)
  /\ UNCHANGED <<process, calls, world, server>>

\* start_app().  With a running task, or a setup step missing, it has no
\* effect.
Start(c) ==
  /\ calls[c] = NoCall
  /\ ~Running(task)
  /\ Create(c)
  /\ UNCHANGED <<process, calls, world, server>>

\* The command returns, with `tk` and `w` for task and wanted.  restart_app()
\* goes on to start_app(), which may do nothing, as above.
Return(c, do, tk, w) ==
  /\ calls' = [calls EXCEPT ![c] = NoCall]
  /\ \/ /\ do = "restart"
        /\ ~Running(tk)
        /\ Create(c)
     \/ /\ task' = tk
        /\ wanted' = w
        /\ state' = IF do = "shutdown" /\ calls[c].at # "terminating" THEN state ELSE "stopped"
        /\ UNCHANGED <<tasks, contested>>
  /\ server' = IF do = "shutdown" THEN "stopped" ELSE server

\* Defect: the tracked process is not terminated.
ForgetOnly(c, do, w) ==
  /\ Return(c, do, None, w)
  /\ UNCHANGED <<process, world>>

\* The task is out of the way: forget it and _terminate() the process.
\* Without a process the command returns at once.
Forget(c, do, w) ==
  \/ /\ process = None
     /\ Return(c, do, None, w)
     /\ UNCHANGED <<process, world>>
  \/ /\ process # None
     /\ task' = None
     /\ wanted' = w
     /\ doomed' = doomed \cup ({process} \cap live)
     /\ calls' = [calls EXCEPT ![c] = [do |-> do, at |-> "terminating", on |-> process]]
     /\ server' = IF do = "shutdown" THEN "stopping" ELSE server
     /\ UNCHANGED <<state, process, tasks, live, contested>>

\* stop_app(), restart_app() and stop(), up to the first suspension.
Command(c, do) ==
  /\ calls[c] = NoCall
  /\ do = "shutdown" => server = "up"
  /\ \/ /\ ~Running(task)
        /\ Forget(c, do, FALSE)
     \/ /\ Running(task)
        /\ wanted' = FALSE
        /\ tasks' = [tasks EXCEPT ![task].cancelled = TRUE]
        /\ calls' = [calls EXCEPT ![c] = [do |-> do, at |-> "cancelling", on |-> task]]
        /\ server' = IF do = "shutdown" THEN "stopping" ELSE server
        /\ UNCHANGED <<state, process, task, world, contested>>

\* The command comes back from its wait for the task.
TaskEnded(c) ==
  /\ calls[c].at = "resuming"
  /\ Forget(c, calls[c].do, wanted)

\* _terminate() returns: the process it was waiting for has exited.
Terminated(c) ==
  /\ calls[c].at = "terminating"
  /\ calls[c].on \notin live
  /\ process' = None
  /\ Return(c, calls[c].do, task, wanted)
  /\ UNCHANGED world

-----------------------------------------------------------------------------
(* The supervising task *)

Goto(t, where) == tasks' = [tasks EXCEPT ![t].at = where]
End(t) == tasks' = [tasks EXCEPT ![t] = NoTask]

At(t, where) == tasks[t].at = where /\ ~tasks[t].cancelled

\* Defect: a CancelledError ends the wait it interrupts, not the task.
CancelSwallowed(t) ==
  /\ tasks[t].cancelled
  /\ tasks' = [tasks EXCEPT ![t].cancelled = FALSE]
  /\ UNCHANGED <<app, calls, world, server, contested>>

\* The CancelledError ends the task wherever it is; a spawn under way leaves
\* no process behind.  The commands that awaited the task go on.
Cancelled(t) ==
  /\ tasks[t].cancelled
  /\ End(t)
  /\ calls' = [c \in Callers |->
       IF calls[c].at = "cancelling" /\ calls[c].on = t
         THEN [calls[c] EXCEPT !.at = "resuming", !.on = None]
         ELSE calls[c]]
  /\ UNCHANGED <<app, world, server, contested>>

\* The condition of the loop, then _launch() up to the spawn.
Loop(t) ==
  /\ At(t, "loop")
  /\ IF wanted /\ server = "up" THEN Goto(t, "spawning") ELSE End(t)
  /\ UNCHANGED <<app, calls, world, server, contested>>

\* Process ids nobody holds.
Fresh == {p \in Procs \ (live \cup {process}) :
            (\A c \in Callers : calls[c].on # p) /\ (\A t \in Tasks : tasks[t].proc # p)}

\* _launch() has a process.
Spawned(t) ==
  /\ At(t, "spawning")
  /\ \E p \in Fresh :
       /\ live' = live \cup {p}
       /\ process' = p
       /\ tasks' = [tasks EXCEPT ![t].at = "waiting", ![t].proc = p]
  /\ state' = "running"
  /\ UNCHANGED <<wanted, task, calls, doomed, server, contested>>

\* The executable is missing: reported, not retried.
SpawnFails(t) ==
  /\ At(t, "spawning")
  /\ state' = "failed"
  /\ wanted' = FALSE
  /\ End(t)
  /\ UNCHANGED <<process, task, calls, world, server, contested>>

\* Defect: the supervisor never gives up.
ReapedForever(t, healthy) ==
  LET crashes == IF healthy THEN 0
                 ELSE IF tasks[t].crashes < MaxCrash THEN tasks[t].crashes + 1 ELSE MaxCrash
  IN /\ At(t, "waiting")
     /\ tasks[t].proc \notin live
     /\ process' = None
     /\ state' = "exited"
     /\ tasks' = [tasks EXCEPT ![t] = [@ EXCEPT !.at = "backoff", !.proc = None,
                                                !.crashes = crashes]]
     /\ UNCHANGED <<wanted, task, calls, world, server, contested>>

\* Defect: a healthy run that ends is taken for work that is done.
ReapedForGood(t, healthy) ==
  /\ At(t, "waiting")
  /\ tasks[t].proc \notin live
  /\ process' = None
  /\ state' = "exited"
  /\ End(t)
  /\ UNCHANGED <<wanted, task, calls, world, server, contested>>

\* process.wait() returns; `healthy` if the run was a long one.
Reaped(t, healthy) ==
  LET crashes == IF healthy THEN 0 ELSE tasks[t].crashes + 1
  IN /\ At(t, "waiting")
     /\ tasks[t].proc \notin live
     /\ process' = None
     /\ \/ /\ ~wanted \/ server # "up"
           /\ state' = "stopped"
           /\ End(t)
           /\ UNCHANGED wanted
        \/ /\ wanted /\ server = "up"
           /\ crashes >= MaxCrash
           /\ state' = "failed"
           /\ wanted' = FALSE
           /\ End(t)
        \/ /\ wanted /\ server = "up"
           /\ crashes < MaxCrash
           /\ state' = "exited"
           /\ tasks' = [tasks EXCEPT ![t] = [@ EXCEPT !.at = "backoff", !.proc = None,
                                                      !.crashes = crashes]]
           /\ UNCHANGED wanted
  /\ UNCHANGED <<task, calls, world, server, contested>>

\* The backoff sleep ends.
BackoffEnds(t) ==
  /\ At(t, "backoff")
  /\ Goto(t, "loop")
  /\ UNCHANGED <<app, calls, world, server, contested>>

\* A child process exits.
Exits(p) ==
  /\ p \in live
  /\ live' = live \ {p}
  /\ doomed' = doomed \ {p}
  /\ UNCHANGED <<app, tasks, calls, server, contested>>

-----------------------------------------------------------------------------

Next ==
  \/ \E c \in Callers :
       \/ Start(c) \/ TaskEnded(c) \/ Terminated(c)
       \/ \E do \in {"stop", "restart", "shutdown"} : Command(c, do)
  \/ \E t \in Tasks :
       \/ Cancelled(t) \/ Loop(t) \/ Spawned(t) \/ SpawnFails(t) \/ BackoffEnds(t)
       \/ \E healthy \in BOOLEAN : Reaped(t, healthy)
  \/ \E p \in Procs : Exits(p)

Spec == Init /\ [][Next]_vars

\* Ready tasks run, sleeps end, and a process told to terminate exits, by
\* itself or killed.  Nothing makes a child exit otherwise or a user call.
Fairness ==
  /\ \A c \in Callers : WF_vars(TaskEnded(c)) /\ WF_vars(Terminated(c))
  /\ \A t \in Tasks :
       /\ WF_vars(Cancelled(t))
       /\ WF_vars(Loop(t))
       /\ WF_vars(Spawned(t) \/ SpawnFails(t))
       /\ WF_vars(\E healthy \in BOOLEAN : Reaped(t, healthy))
       /\ WF_vars(BackoffEnds(t))
  /\ \A p \in Procs : WF_vars(p \in doomed /\ Exits(p))

FairSpec == Spec /\ Fairness

-----------------------------------------------------------------------------

\* Type invariant of the app's record, its tasks and the commands.
TypeOK ==
  /\ wanted \in BOOLEAN
  /\ state \in {"stopped", "starting", "running", "exited", "failed"}
  /\ process \in Procs \cup {None}
  /\ task \in Tasks \cup {None}
  /\ tasks \in [Tasks -> [at: {"none", "loop", "spawning", "waiting", "backoff"},
                          proc: Procs \cup {None}, crashes: 0 .. MaxCrash - 1,
                          cancelled: BOOLEAN]]
  /\ calls \in [Callers -> [do: {"none", "stop", "restart", "shutdown"},
                            at: {"none", "cancelling", "resuming", "terminating"},
                            on: Tasks \cup Procs \cup {None}]]
  /\ live \subseteq Procs
  /\ doomed \subseteq live
  /\ server \in {"up", "stopping", "stopped"}
  /\ contested \in BOOLEAN

\* As long as no start overlapped another command, the app has one process
\* and one task at most, and the record names them: a stop always finds what
\* it has to stop.
OneProcess ==
  ~contested =>
    /\ \A p \in live : p = process
    /\ \A t \in Tasks : tasks[t] # NoTask => t = task

\* What the dashboard shows is so, as long as no start overlapped another
\* command: with no command under way, an app that is stopped or failed has
\* no process and none will come, and one with a process is running.
StatusIsTrue ==
  (~contested /\ Busy = {}) =>
    /\ state \in {"stopped", "failed"} => live = {} /\ tasks = [t \in Tasks |-> NoTask]
    /\ live # {} => state = "running"

\* "CancelledError re-raised first so shutdown never deadlocks"
\* (supervisor.py:6): every command returns, however commands overlap.
CommandsReturn ==
  \A c \in Callers : calls[c] # NoCall ~> calls[c] = NoCall

\* A wanted app comes up, or the supervisor gives up on it and says so,
\* or a command takes it back: an exit is not the end.
ComesUpOrFails ==
  (wanted /\ server = "up") ~> \/ process # None
                               \/ state = "failed"
                               \/ ~wanted
                               \/ server # "up"
                               \/ contested

\* "A crash loop gives up" (docs/adr/0015:80): an app that crashes again and
\* again must have had a healthy run, or a command, again and again.
CrashLoopEnds ==
  []<>(\E t \in Tasks : tasks[t].at = "backoff" /\ tasks[t].crashes > 0)
    => []<>(\/ \E t \in Tasks : tasks[t].at = "backoff" /\ tasks[t].crashes = 0
            \/ state = "starting"
            \/ Busy # {})

\* "By the time asyncio.run() returns, Server.stop() has already killed the
\* children first" (docs/adr/0016:42): no child survives the supervisor's
\* stop().
ChildrenDieFirst == server = "stopped" => live = {}

=============================================================================
