-------------------------- MODULE AppSupervisorProofs --------------------------
(***************************************************************************)
(* Proofs about AppSupervisor, for any sets of callers, tasks and process  *)
(* ids and any crash limit: as long as no start overlapped another         *)
(* command, the record names the one process and the one task there are,   *)
(* and the status shown is so.                                             *)
(*                                                                         *)
(* Neither property is inductive.  A command that found no running task    *)
(* may create one, so the proof needs that nothing is left to it then:     *)
(* what each stage of a task says of the tracked process (TaskTracked),    *)
(* what each stage of a command says of the tasks (Cancelling, Cleaning,   *)
(* Terminating), and that a process without a task has a command under way *)
(* that takes care of it (IdleIsEmpty, CancelsAwaited).                    *)
(***************************************************************************)
EXTENDS AppSupervisor, TLAPS

\* A task slot that is at rest is cleared.
RestIsClear == \A t \in Tasks : tasks[t].at = "none" => tasks[t] = NoTask

\* A command under way is one of the three.
CommandsNamed ==
  \A c \in Callers : calls[c].at # "none" => calls[c].do \in {"stop", "restart", "shutdown"}

\* Who cancels a task awaits it.
CancelsAwaited ==
  \A t \in Tasks : tasks[t].cancelled =>
    \E c \in Callers : calls[c].at = "cancelling" /\ calls[c].on = t

\* The record names the task there is, and the process there is.
TaskNamed == \A t \in Tasks : tasks[t] # NoTask => t = task
ProcessNamed == \A p \in live : p = process

\* The record names the process a task waits for, and none at other stages.
TaskTracked ==
  \A t \in Tasks :
    /\ tasks[t].at = "waiting" =>
         process # None /\ tasks[t].proc = process /\ state = "running"
    /\ tasks[t].at \in {"loop", "spawning", "backoff"} =>
         process = None /\ state \in {"starting", "exited"}

NoTaskRuns == \A t \in Tasks : tasks[t] = NoTask

\* With neither a task nor a command there is no process.
IdleIsEmpty == Busy = {} /\ NoTaskRuns => process = None

\* A command waits for the cancelled task of the record; past that wait no
\* task is left, and the process it terminates is the one of the record.
Cancelling ==
  \A c \in Callers : calls[c].at = "cancelling" =>
    task # None /\ calls[c].on = task /\ tasks[task].cancelled
Cleaning == \A c \in Callers : calls[c].at \in {"resuming", "terminating"} => NoTaskRuns
Terminating ==
  \A c \in Callers : calls[c].at = "terminating" => process \in {calls[c].on, None}

Orderly ==
  /\ TaskNamed
  /\ ProcessNamed
  /\ TaskTracked
  /\ IdleIsEmpty
  /\ Cancelling
  /\ Cleaning
  /\ Terminating

Base == TypeOK /\ RestIsClear /\ CommandsNamed /\ CancelsAwaited

IInv == Base /\ (~contested => Orderly)

-----------------------------------------------------------------------------

LEMMA NoTaskAt ==
  NoTask.at = "none" /\ NoTask.cancelled = FALSE /\ NewTask.at = "loop" /\ NoCall.at = "none"
BY DEF NoTask, NewTask, NoCall

LEMMA InitIInv == Init => IInv
<1> SUFFICES ASSUME Init PROVE IInv
  OBVIOUS
<1>1. Base
  <2>1. NoTask \in [at: {"none", "loop", "spawning", "waiting", "backoff"},
                   proc: Procs \cup {None}, crashes: 0 .. MaxCrash - 1, cancelled: BOOLEAN]
    BY MaxCrashIsPositive DEF NoTask
  <2>2. NoCall \in [do: {"none", "stop", "restart", "shutdown"},
                   at: {"none", "cancelling", "resuming", "terminating"},
                   on: Tasks \cup Procs \cup {None}]
    BY DEF NoCall
  <2>3. TypeOK
    BY <2>1, <2>2 DEF Init, TypeOK
  <2>4. RestIsClear /\ CommandsNamed /\ CancelsAwaited
    BY NoTaskAt DEF Init, RestIsClear, CommandsNamed, CancelsAwaited
  <2>5. QED
    BY <2>3, <2>4 DEF Base
<1>2. Orderly
  BY DEF Init, Orderly, TaskNamed, ProcessNamed, TaskTracked, IdleIsEmpty, Cancelling, Cleaning,
         Terminating, NoTask, NoCall
<1>3. QED
  BY <1>1, <1>2 DEF IInv

\* A task created by a command that ends, when nothing is left to it.
LEMMA CreateKeepsIInv ==
  ASSUME Base, NEW c \in Callers, Create(c),
         calls[c].at # "cancelling",
         calls' = [calls EXCEPT ![c] = NoCall],
         process' \in Procs \cup {None},
         server' \in {"up", "stopping", "stopped"},
         ~contested' => NoTaskRuns /\ live = {} /\ process' = None,
         UNCHANGED world
  PROVE  IInv'
<1> USE DEF Base, NoTask, NewTask, NoCall
<1>1. PICK t \in Tasks : /\ tasks[t] = NoTask
                         /\ tasks' = [tasks EXCEPT ![t] = NewTask]
                         /\ task' = t /\ wanted' = TRUE /\ state' = "starting"
                         /\ contested' = (contested \/ Busy \ {c} # {})
  BY DEF Create
<1>2. TypeOK'
  BY <1>1, MaxCrashIsPositive DEF TypeOK, world
<1>3. RestIsClear' /\ CommandsNamed'
  BY <1>1 DEF TypeOK, RestIsClear, CommandsNamed
<1>4. CancelsAwaited'
  <2> SUFFICES ASSUME NEW u \in Tasks, tasks'[u].cancelled
               PROVE  \E d \in Callers : calls'[d].at = "cancelling" /\ calls'[d].on = u
    BY DEF CancelsAwaited
  <2>1. tasks[u].cancelled
    BY <1>1 DEF TypeOK
  <2>2. PICK d \in Callers : calls[d].at = "cancelling" /\ calls[d].on = u
    BY <2>1 DEF CancelsAwaited
  <2>3. calls'[d] = calls[d]
    BY <2>2 DEF TypeOK
  <2>4. QED
    BY <2>2, <2>3
<1>5. ASSUME ~contested' PROVE Orderly'
  <2>1. /\ NoTaskRuns /\ live' = {} /\ process' = None
        /\ \A d \in Callers : calls'[d] = NoCall
    BY <1>1, <1>5 DEF Busy, TypeOK, world
  <2>2. \A u \in Tasks : tasks'[u] = IF u = t THEN NewTask ELSE NoTask
    BY <1>1, <2>1 DEF NoTaskRuns, TypeOK
  <2>3. TaskNamed' /\ TaskTracked' /\ ~NoTaskRuns'
    <3>1. NewTask.at = "loop" /\ NoTask.at = "none"
      OBVIOUS
    <3>2. tasks'[t] = NewTask /\ \A u \in Tasks : u # t => tasks'[u] = NoTask
      BY <2>2
    <3> HIDE DEF NewTask, NoTask
    <3>3. QED
      BY <1>1, <2>1, <3>1, <3>2 DEF TaskNamed, TaskTracked, NoTaskRuns
  <2>4. QED
    BY <2>1, <2>3 DEF Orderly, ProcessNamed, IdleIsEmpty, Cancelling, Cleaning, Terminating
<1>6. QED
  BY <1>2, <1>3, <1>4, <1>5 DEF IInv

LEMMA StartKeepsIInv ==
  ASSUME IInv, NEW c \in Callers, Start(c)
  PROVE  IInv'
<1>1. /\ calls[c] = NoCall /\ ~Running(task) /\ Create(c)
      /\ UNCHANGED <<process, calls, world, server>>
  BY DEF Start
<1>2. calls' = [calls EXCEPT ![c] = NoCall] /\ calls[c].at # "cancelling"
  BY <1>1 DEF IInv, Base, TypeOK, NoCall
<1>3. ASSUME ~contested' PROVE NoTaskRuns /\ live = {} /\ process' = None
  <2>1. ~contested /\ Busy = {}
    BY <1>1, <1>3 DEF Create, Busy
  <2>2. Orderly /\ RestIsClear
    BY <2>1 DEF IInv, Base
  <2>3. NoTaskRuns
    BY <1>1, <2>2, NoneIsNothing DEF Orderly, TaskNamed, RestIsClear, Running, NoTaskRuns
  <2>4. process = None
    BY <2>1, <2>2, <2>3 DEF Orderly, IdleIsEmpty
  <2>5. QED
    BY <1>1, <2>2, <2>3, <2>4, NoneIsNothing DEF Orderly, ProcessNamed, IInv, Base, TypeOK
<1>4. QED
  BY <1>1, <1>2, <1>3, CreateKeepsIInv DEF IInv, Base, TypeOK

\* A command that returns when nothing is left to it.
LEMMA ReturnKeepsIInv ==
  ASSUME IInv, NEW c \in Callers, NEW do \in {"stop", "restart", "shutdown"},
         NEW tk \in Tasks \cup {None}, NEW w \in BOOLEAN, Return(c, do, tk, w),
         calls[c].at # "cancelling",
         process' \in Procs \cup {None},
         ~contested => NoTaskRuns /\ live = {} /\ process' = None,
         UNCHANGED world
  PROVE  IInv'
<1> USE DEF IInv, Base
<1>1. /\ calls' = [calls EXCEPT ![c] = NoCall]
      /\ server' = IF do = "shutdown" THEN "stopped" ELSE server
  BY DEF Return
<1>2. CASE Create(c)
  BY <1>1, <1>2, CreateKeepsIInv DEF Create, TypeOK
<1>3. CASE /\ task' = tk
           /\ wanted' = w
           /\ state' = IF do = "shutdown" /\ calls[c].at # "terminating" THEN state ELSE "stopped"
           /\ UNCHANGED <<tasks, contested>>
  <2>1. TypeOK'
    <3>1. NoCall \in [do: {"none", "stop", "restart", "shutdown"},
                      at: {"none", "cancelling", "resuming", "terminating"},
                      on: Tasks \cup Procs \cup {None}]
      BY DEF NoCall
    <3>2. QED
      BY <1>1, <1>3, <3>1 DEF TypeOK, world
  <2>2. RestIsClear' /\ CommandsNamed'
    BY <1>1, <1>3, NoTaskAt DEF RestIsClear, CommandsNamed, TypeOK
  <2>3. CancelsAwaited'
    BY <1>1, <1>3 DEF CancelsAwaited, TypeOK
  <2>4. ASSUME ~contested' PROVE Orderly'
    <3>1. NoTaskRuns /\ NoTaskRuns' /\ live' = {} /\ process' = None
      BY <1>3, <2>4 DEF NoTaskRuns, world
    <3>2. \A d \in Callers : calls'[d].at # "cancelling"
      BY <1>1, <1>3, <2>4, <3>1, NoneIsNothing
      DEF Orderly, Cancelling, NoTaskRuns, TypeOK, NoTask, NoCall
    <3>3. TaskNamed' /\ TaskTracked'
      BY <3>1, NoTaskAt DEF TaskNamed, TaskTracked, NoTaskRuns
    <3>4. QED
      BY <3>1, <3>2, <3>3
      DEF Orderly, ProcessNamed, IdleIsEmpty, Cancelling, Cleaning, Terminating
  <2>5. QED
    BY <2>1, <2>2, <2>3, <2>4
<1>4. QED
  BY <1>2, <1>3 DEF Return

\* A command whose task is out of the way goes on to the process.
LEMMA ForgetKeepsIInv ==
  ASSUME IInv, NEW c \in Callers, NEW do \in {"stop", "restart", "shutdown"},
         NEW w \in BOOLEAN, Forget(c, do, w),
         calls[c].at # "cancelling",
         ~contested => NoTaskRuns
  PROVE  IInv'
<1> USE DEF IInv, Base
<1>1. CASE process = None /\ Return(c, do, None, w) /\ UNCHANGED <<process, world>>
  <2>1. ~contested => NoTaskRuns /\ live = {} /\ process' = None
    BY <1>1, NoneIsNothing DEF Orderly, ProcessNamed, TypeOK
  <2>2. process' \in Procs \cup {None} /\ UNCHANGED world
    BY <1>1 DEF TypeOK, world
  <2> HIDE DEF IInv, Base
  <2>3. QED
    BY <1>1, <2>1, <2>2, ReturnKeepsIInv
<1>2. CASE /\ process # None
           /\ task' = None
           /\ wanted' = w
           /\ doomed' = doomed \cup ({process} \cap live)
           /\ calls' = [calls EXCEPT ![c] = [do |-> do, at |-> "terminating", on |-> process]]
           /\ server' = IF do = "shutdown" THEN "stopping" ELSE server
           /\ UNCHANGED <<state, process, tasks, live, contested>>
  <2>1. TypeOK'
    BY <1>2 DEF TypeOK
  <2>2. RestIsClear' /\ CommandsNamed' /\ CancelsAwaited'
    BY <1>2 DEF RestIsClear, CommandsNamed, CancelsAwaited, TypeOK
  <2>3. ASSUME ~contested' PROVE Orderly'
    <3>1. NoTaskRuns /\ NoTaskRuns' /\ Orderly
      BY <1>2, <2>3 DEF NoTaskRuns
    <3>2. \A d \in Callers : calls'[d].at # "cancelling"
      BY <1>2, <3>1, NoneIsNothing DEF Orderly, Cancelling, NoTaskRuns, TypeOK, NoTask
    <3>3. TaskNamed' /\ TaskTracked'
      BY <3>1, NoTaskAt DEF TaskNamed, TaskTracked, NoTaskRuns
    <3>4. calls'[c] # NoCall
      BY <1>2 DEF TypeOK, NoCall
    <3>5. Terminating'
      BY <1>2, <3>1 DEF Orderly, Terminating, TypeOK
    <3>6. QED
      BY <1>2, <3>1, <3>2, <3>3, <3>4, <3>5
      DEF Orderly, ProcessNamed, IdleIsEmpty, Cancelling, Cleaning, Busy
  <2>4. QED
    BY <2>1, <2>2, <2>3
<1>3. QED
  BY <1>1, <1>2 DEF Forget

\* Without a running task of the record there is none.
LEMMA NotRunningIsNone ==
  ASSUME IInv, ~contested, ~Running(task)
  PROVE  NoTaskRuns
BY NoneIsNothing DEF IInv, Base, Orderly, TaskNamed, RestIsClear, Running, NoTaskRuns

LEMMA CommandKeepsIInv ==
  ASSUME IInv, NEW c \in Callers, NEW do \in {"stop", "restart", "shutdown"}, Command(c, do)
  PROVE  IInv'
<1> USE DEF IInv, Base
<1>1. calls[c] = NoCall /\ calls[c].at = "none"
  BY DEF Command, NoCall
<1>2. CASE ~Running(task) /\ Forget(c, do, FALSE)
  BY <1>1, <1>2, NotRunningIsNone, ForgetKeepsIInv
<1>3. CASE /\ Running(task)
           /\ wanted' = FALSE
           /\ tasks' = [tasks EXCEPT ![task].cancelled = TRUE]
           /\ calls' = [calls EXCEPT ![c] = [do |-> do, at |-> "cancelling", on |-> task]]
           /\ server' = IF do = "shutdown" THEN "stopping" ELSE server
           /\ UNCHANGED <<state, process, task, world, contested>>
  <2>1. task \in Tasks /\ tasks[task].at # "none"
    BY <1>3 DEF Running, TypeOK
  <2>2. /\ tasks'[task].cancelled
        /\ \A t \in Tasks : t # task => tasks'[t] = tasks[t]
    BY <1>3, <2>1 DEF TypeOK
  <2>3. \A t \in Tasks : tasks'[t].at = tasks[t].at /\ tasks'[t].proc = tasks[t].proc
    BY <1>3, <2>1 DEF TypeOK
  <2>4. calls'[c].at = "cancelling" /\ calls'[c].on = task
    BY <1>3 DEF TypeOK
  <2>5. \A d \in Callers : d # c => calls'[d] = calls[d]
    BY <1>3 DEF TypeOK
  <2>6. TypeOK'
    BY <1>3, <2>1 DEF TypeOK, world
  <2>7. RestIsClear' /\ CommandsNamed'
    BY <1>3, <2>1, <2>2, <2>3 DEF RestIsClear, CommandsNamed, TypeOK
  <2>8. CancelsAwaited'
    <3> SUFFICES ASSUME NEW t \in Tasks, tasks'[t].cancelled
                 PROVE  \E d \in Callers : calls'[d].at = "cancelling" /\ calls'[d].on = t
      BY DEF CancelsAwaited
    <3>1. CASE t = task
      BY <2>4, <3>1
    <3>2. CASE t # task
      <4>1. PICK d \in Callers : calls[d].at = "cancelling" /\ calls[d].on = t
        BY <2>2, <3>2 DEF CancelsAwaited
      <4>2. QED
        BY <1>1, <2>5, <4>1
    <3>3. QED
      BY <3>1, <3>2
  <2>9. ASSUME ~contested' PROVE Orderly'
    <3>1. Orderly /\ ~NoTaskRuns
      BY <1>3, <2>1, <2>9 DEF NoTaskRuns, NoTask
    <3>2. TaskNamed'
      BY <1>3, <2>2, <3>1 DEF Orderly, TaskNamed
    <3>3. TaskTracked'
      BY <1>3, <2>3, <3>1 DEF Orderly, TaskTracked
    <3>4. Cancelling'
      BY <1>3, <2>1, <2>2, <2>4, <2>5, <3>1, NoneIsNothing DEF Orderly, Cancelling, TypeOK
    <3>5. Cleaning' /\ Terminating'
      BY <2>4, <2>5, <3>1 DEF Orderly, Cleaning, Terminating
    <3>6. calls'[c] # NoCall
      BY <2>4 DEF NoCall
    <3>7. QED
      BY <1>3, <3>1, <3>2, <3>3, <3>4, <3>5, <3>6
      DEF Orderly, ProcessNamed, IdleIsEmpty, Busy, world
  <2>10. QED
    BY <2>6, <2>7, <2>8, <2>9
<1>4. QED
  BY <1>2, <1>3 DEF Command

LEMMA TaskEndedKeepsIInv ==
  ASSUME IInv, NEW c \in Callers, TaskEnded(c)
  PROVE  IInv'
<1>1. calls[c].at = "resuming" /\ Forget(c, calls[c].do, wanted)
  BY DEF TaskEnded
<1>2. ~contested => NoTaskRuns
  BY <1>1 DEF IInv, Orderly, Cleaning
<1>3. calls[c].do \in {"stop", "restart", "shutdown"} /\ wanted \in BOOLEAN
  BY <1>1 DEF IInv, Base, CommandsNamed, TypeOK
<1>4. QED
  BY <1>1, <1>2, <1>3, ForgetKeepsIInv

LEMMA TerminatedKeepsIInv ==
  ASSUME IInv, NEW c \in Callers, Terminated(c)
  PROVE  IInv'
<1>1. /\ calls[c].at = "terminating" /\ calls[c].on \notin live
      /\ process' = None
      /\ Return(c, calls[c].do, task, wanted)
      /\ UNCHANGED world
  BY DEF Terminated
<1>2. ~contested => NoTaskRuns /\ live = {}
  BY <1>1, NoneIsNothing DEF IInv, Base, TypeOK, Orderly, Cleaning, Terminating, ProcessNamed
<1>3. calls[c].do \in {"stop", "restart", "shutdown"} /\ wanted \in BOOLEAN
      /\ task \in Tasks \cup {None}
  BY <1>1 DEF IInv, Base, CommandsNamed, TypeOK
<1>4. QED
  BY <1>1, <1>2, <1>3, ReturnKeepsIInv

\* A step of a task that is neither created nor cancelled: what its next
\* stage says of the record is so, and at its end the record is clean.
LEMMA TaskStepKeepsIInv ==
  ASSUME IInv, TypeOK', NEW t \in Tasks, tasks[t].at # "none", ~tasks[t].cancelled,
         \A u \in Tasks \ {t} : tasks'[u] = tasks[u],
         ~tasks'[t].cancelled,
         tasks'[t].at = "none" => tasks'[t] = NoTask,
         ~contested =>
           /\ tasks'[t].at = "waiting" =>
                process' # None /\ tasks'[t].proc = process' /\ state' = "running"
           /\ tasks'[t].at \in {"loop", "spawning", "backoff"} =>
                process' = None /\ state' \in {"starting", "exited"}
           /\ tasks'[t].at = "none" => process' = None
           /\ \A p \in live' : p = process',
         UNCHANGED <<task, calls, contested>>
  PROVE  IInv'
<1> USE DEF IInv, Base
<1>1. RestIsClear' /\ CommandsNamed'
  BY DEF RestIsClear, CommandsNamed
<1>2. CancelsAwaited'
  BY DEF CancelsAwaited
<1>3. ASSUME ~contested' PROVE Orderly'
  <2>1. Orderly /\ t = task /\ tasks[t] # NoTask
    BY <1>3, NoTaskAt DEF Orderly, TaskNamed
  <2>2. \A u \in Tasks : u # t => tasks[u] = NoTask /\ tasks'[u] = NoTask
    BY <2>1 DEF Orderly, TaskNamed
  <2>3. \A c \in Callers : calls[c].at \notin {"cancelling", "resuming", "terminating"}
    BY <2>1 DEF Orderly, Cancelling, Cleaning, NoTaskRuns
  <2>4. TaskNamed'
    BY <2>1, <2>2 DEF TaskNamed
  <2>5. TaskTracked'
    BY <1>3, <2>2, NoTaskAt DEF TaskTracked
  <2>6. IdleIsEmpty'
    BY <1>3, NoTaskAt DEF IdleIsEmpty, NoTaskRuns
  <2>7. QED
    BY <1>3, <2>3, <2>4, <2>5, <2>6 DEF Orderly, ProcessNamed, Cancelling, Cleaning, Terminating
<1>4. QED
  BY <1>1, <1>2, <1>3

TaskRecords ==
  [at: {"none", "loop", "spawning", "waiting", "backoff"},
   proc: Procs \cup {None}, crashes: 0 .. MaxCrash - 1, cancelled: BOOLEAN]

LEMMA TaskRecordsHold == NoTask \in TaskRecords
BY MaxCrashIsPositive DEF NoTask, TaskRecords

\* What the record says of a task at a stage of its own, uncontested.
LEMMA Tracked ==
  ASSUME IInv, ~contested, NEW t \in Tasks
  PROVE  /\ tasks[t].at = "waiting" =>
              process # None /\ tasks[t].proc = process /\ state = "running"
         /\ tasks[t].at \in {"loop", "spawning", "backoff"} =>
              process = None /\ state \in {"starting", "exited"}
         /\ \A p \in live : p = process
BY DEF IInv, Orderly, TaskTracked, ProcessNamed

LEMMA LoopKeepsIInv ==
  ASSUME IInv, NEW t \in Tasks, Loop(t)
  PROVE  IInv'
<1>1. tasks[t].at = "loop" /\ ~tasks[t].cancelled /\ UNCHANGED <<app, calls, world, server, contested>>
  BY DEF Loop, At
<1>2. \/ tasks' = [tasks EXCEPT ![t].at = "spawning"]
      \/ tasks' = [tasks EXCEPT ![t] = NoTask]
  BY DEF Loop, Goto, End
<1>3. TypeOK'
  <2>1. tasks' \in [Tasks -> TaskRecords]
    BY <1>2, TaskRecordsHold DEF IInv, Base, TypeOK, TaskRecords
  <2>2. QED
    BY <1>1, <2>1 DEF IInv, Base, TypeOK, TaskRecords, app, world
<1>4. /\ \A u \in Tasks \ {t} : tasks'[u] = tasks[u]
      /\ ~tasks'[t].cancelled
      /\ tasks'[t].at = "none" => tasks'[t] = NoTask
      /\ tasks'[t].at \in {"none", "spawning"}
  BY <1>1, <1>2, NoTaskAt DEF IInv, Base, TypeOK
<1>5. QED
  BY <1>1, <1>3, <1>4, Tracked, TaskStepKeepsIInv DEF app, world

LEMMA SpawnedKeepsIInv ==
  ASSUME IInv, NEW t \in Tasks, Spawned(t)
  PROVE  IInv'
<1>1. PICK p \in Fresh : /\ live' = live \cup {p}
                         /\ process' = p
                         /\ tasks' = [tasks EXCEPT ![t].at = "waiting", ![t].proc = p]
  BY DEF Spawned
<1>2. /\ tasks[t].at = "spawning" /\ ~tasks[t].cancelled /\ state' = "running"
      /\ UNCHANGED <<wanted, task, calls, doomed, server, contested>>
  BY DEF Spawned, At
<1>3. p \in Procs /\ p # None
  BY NoneIsNothing DEF Fresh
<1>4. TypeOK'
  <2>1. [tasks[t] EXCEPT !.at = "waiting", !.proc = p] \in TaskRecords
    BY <1>3 DEF IInv, Base, TypeOK, TaskRecords
  <2>2. tasks' \in [Tasks -> TaskRecords]
    BY <1>1, <2>1 DEF IInv, Base, TypeOK, TaskRecords
  <2>3. QED
    BY <1>1, <1>2, <1>3, <2>2 DEF IInv, Base, TypeOK, TaskRecords
<1>5. /\ \A u \in Tasks \ {t} : tasks'[u] = tasks[u]
      /\ ~tasks'[t].cancelled
      /\ tasks'[t].at = "waiting" /\ tasks'[t].proc = p
  BY <1>1, <1>2 DEF IInv, Base, TypeOK
<1>6. ~contested => live = {}
  BY <1>2, Tracked, NoneIsNothing DEF IInv, Base, TypeOK
<1>7. QED
  BY <1>1, <1>2, <1>3, <1>4, <1>5, <1>6, TaskStepKeepsIInv

LEMMA SpawnFailsKeepsIInv ==
  ASSUME IInv, NEW t \in Tasks, SpawnFails(t)
  PROVE  IInv'
<1>1. /\ tasks[t].at = "spawning" /\ ~tasks[t].cancelled
      /\ state' = "failed" /\ wanted' = FALSE
      /\ tasks' = [tasks EXCEPT ![t] = NoTask]
      /\ UNCHANGED <<process, task, calls, world, server, contested>>
  BY DEF SpawnFails, At, End
<1>2. TypeOK'
  <2>1. tasks' \in [Tasks -> TaskRecords]
    BY <1>1, TaskRecordsHold DEF IInv, Base, TypeOK, TaskRecords
  <2>2. QED
    BY <1>1, <2>1 DEF IInv, Base, TypeOK, TaskRecords, world
<1>3. (\A u \in Tasks \ {t} : tasks'[u] = tasks[u]) /\ tasks'[t] = NoTask
  BY <1>1 DEF IInv, Base, TypeOK
<1>4. QED
  BY <1>1, <1>2, <1>3, NoTaskAt, Tracked, TaskStepKeepsIInv DEF world

LEMMA ReapedKeepsIInv ==
  ASSUME IInv, NEW t \in Tasks, NEW healthy \in BOOLEAN, Reaped(t, healthy)
  PROVE  IInv'
<1> DEFINE crashes == IF healthy THEN 0 ELSE tasks[t].crashes + 1
<1>1. /\ tasks[t].at = "waiting" /\ ~tasks[t].cancelled
      /\ tasks[t].proc \notin live
      /\ process' = None
      /\ UNCHANGED <<task, calls, world, server, contested>>
  BY DEF Reaped, At
<1>2. ~contested => live' = {}
  BY <1>1, Tracked DEF world
<1>3. CASE /\ tasks' = [tasks EXCEPT ![t] = NoTask]
           /\ state' \in {"stopped", "failed"}
           /\ wanted' \in BOOLEAN
  <2>1. TypeOK'
    BY <1>1, <1>3, MaxCrashIsPositive DEF IInv, Base, TypeOK, NoTask, world
  <2>2. (\A u \in Tasks \ {t} : tasks'[u] = tasks[u]) /\ tasks'[t] = NoTask
    BY <1>3 DEF IInv, Base, TypeOK
  <2>3. QED
    BY <1>1, <1>2, <2>1, <2>2, NoTaskAt, TaskStepKeepsIInv
<1>4. CASE /\ tasks' = [tasks EXCEPT ![t] = [@ EXCEPT !.at = "backoff", !.proc = None,
                                                      !.crashes = crashes]]
           /\ state' = "exited" /\ crashes < MaxCrash
           /\ UNCHANGED wanted
  <2>1. crashes \in 0 .. MaxCrash - 1
    BY <1>4, MaxCrashIsPositive DEF IInv, Base, TypeOK
  <2> HIDE DEF crashes
  <2>2. TypeOK'
    BY <1>1, <1>4, <2>1 DEF IInv, Base, TypeOK, world
  <2>3. /\ \A u \in Tasks \ {t} : tasks'[u] = tasks[u]
        /\ tasks'[t].at = "backoff" /\ ~tasks'[t].cancelled
    BY <1>1, <1>4 DEF IInv, Base, TypeOK
  <2>4. QED
    BY <1>1, <1>2, <1>4, <2>2, <2>3, TaskStepKeepsIInv
<1>5. QED
  BY <1>3, <1>4 DEF Reaped, End, IInv, Base, TypeOK

LEMMA BackoffEndsKeepsIInv ==
  ASSUME IInv, NEW t \in Tasks, BackoffEnds(t)
  PROVE  IInv'
<1>1. /\ tasks[t].at = "backoff" /\ ~tasks[t].cancelled
      /\ tasks' = [tasks EXCEPT ![t].at = "loop"]
      /\ UNCHANGED <<app, calls, world, server, contested>>
  BY DEF BackoffEnds, At, Goto
<1>2. TypeOK'
  BY <1>1 DEF IInv, Base, TypeOK, app, world
<1>3. /\ \A u \in Tasks \ {t} : tasks'[u] = tasks[u]
      /\ tasks'[t].at = "loop" /\ ~tasks'[t].cancelled
  BY <1>1 DEF IInv, Base, TypeOK
<1>4. QED
  BY <1>1, <1>2, <1>3, Tracked, TaskStepKeepsIInv DEF app, world

LEMMA CancelledKeepsIInv ==
  ASSUME IInv, NEW t \in Tasks, Cancelled(t)
  PROVE  IInv'
<1> USE DEF IInv, Base
<1>1. /\ tasks[t].cancelled
      /\ tasks' = [tasks EXCEPT ![t] = NoTask]
      /\ calls' = [c \in Callers |->
           IF calls[c].at = "cancelling" /\ calls[c].on = t
             THEN [calls[c] EXCEPT !.at = "resuming", !.on = None]
             ELSE calls[c]]
      /\ UNCHANGED <<app, world, server, contested>>
  BY DEF Cancelled, End
<1>2. (\A u \in Tasks \ {t} : tasks'[u] = tasks[u]) /\ tasks'[t] = NoTask
  BY <1>1 DEF TypeOK
<1>3. \A c \in Callers :
        \/ calls[c].at = "cancelling" /\ calls[c].on = t /\ calls'[c].at = "resuming"
             /\ calls'[c].do = calls[c].do /\ calls'[c].on = None
        \/ ~(calls[c].at = "cancelling" /\ calls[c].on = t) /\ calls'[c] = calls[c]
  BY <1>1 DEF TypeOK
<1>4. TypeOK'
  <2>1. tasks' \in [Tasks -> TaskRecords]
    BY <1>1, TaskRecordsHold DEF TypeOK, TaskRecords
  <2>2. calls' \in [Callers -> [do: {"none", "stop", "restart", "shutdown"},
                                at: {"none", "cancelling", "resuming", "terminating"},
                                on: Tasks \cup Procs \cup {None}]]
    <3> DEFINE CallRecords == [do: {"none", "stop", "restart", "shutdown"},
                               at: {"none", "cancelling", "resuming", "terminating"},
                               on: Tasks \cup Procs \cup {None}]
    <3>1. \A c \in Callers : [calls[c] EXCEPT !.at = "resuming", !.on = None] \in CallRecords
      BY DEF TypeOK
    <3>2. \A c \in Callers : calls[c] \in CallRecords
      BY DEF TypeOK
    <3> HIDE DEF CallRecords
    <3>3. calls' \in [Callers -> CallRecords]
      BY <1>1, <3>1, <3>2
    <3>4. QED
      BY <3>3 DEF CallRecords
  <2>3. QED
    BY <1>1, <2>1, <2>2 DEF TypeOK, TaskRecords, app, world
<1>5. RestIsClear' /\ CommandsNamed'
  BY <1>2, <1>3, NoTaskAt DEF RestIsClear, CommandsNamed
<1>6. CancelsAwaited'
  <2> SUFFICES ASSUME NEW u \in Tasks, tasks'[u].cancelled
               PROVE  \E d \in Callers : calls'[d].at = "cancelling" /\ calls'[d].on = u
    BY DEF CancelsAwaited
  <2>1. u # t /\ tasks[u].cancelled
    BY <1>2, NoTaskAt
  <2>2. PICK d \in Callers : calls[d].at = "cancelling" /\ calls[d].on = u
    BY <2>1 DEF CancelsAwaited
  <2>3. QED
    BY <1>3, <2>1, <2>2
<1>7. ASSUME ~contested' PROVE Orderly'
  <2>1. Orderly /\ UNCHANGED <<wanted, state, process, task, live>>
    BY <1>1, <1>7 DEF app, world
  <2>2. t = task
    BY <1>1, <2>1, NoTaskAt DEF Orderly, TaskNamed
  <2>3. NoTaskRuns'
    BY <1>2, <2>1, <2>2 DEF Orderly, TaskNamed, NoTaskRuns
  <2>4. Busy' # {}
    <3>1. PICK c \in Callers : calls[c].at = "cancelling" /\ calls[c].on = t
      BY <1>1 DEF CancelsAwaited
    <3>2. calls'[c].at = "resuming"
      BY <1>3, <3>1
    <3>3. QED
      BY <3>2, NoTaskAt DEF Busy
  <2>5. Cancelling'
    BY <1>3, <2>1, <2>2 DEF Orderly, Cancelling
  <2>6. Terminating'
    BY <1>3, <2>1 DEF Orderly, Terminating
  <2>7. TaskNamed' /\ TaskTracked'
    BY <2>3, NoTaskAt DEF TaskNamed, TaskTracked, NoTaskRuns
  <2>8. QED
    BY <2>1, <2>3, <2>4, <2>5, <2>6, <2>7 DEF Orderly, ProcessNamed, IdleIsEmpty, Cleaning
<1>8. QED
  BY <1>4, <1>5, <1>6, <1>7

LEMMA ExitsKeepsIInv ==
  ASSUME IInv, NEW p \in Procs, Exits(p)
  PROVE  IInv'
<1> USE DEF IInv, Base
<1>1. /\ live' = live \ {p} /\ doomed' = doomed \ {p}
      /\ UNCHANGED <<wanted, state, process, task, tasks, calls, server, contested>>
  BY DEF Exits, app
<1>2. TypeOK'
  BY <1>1 DEF TypeOK
<1>3. RestIsClear' /\ CommandsNamed' /\ CancelsAwaited'
  BY <1>1 DEF RestIsClear, CommandsNamed, CancelsAwaited
<1>4. ASSUME ~contested' PROVE Orderly'
  BY <1>1, <1>4 DEF Orderly, TaskNamed, ProcessNamed, TaskTracked, IdleIsEmpty, Cancelling,
                    Cleaning, Terminating, NoTaskRuns, Busy
<1>5. QED
  BY <1>2, <1>3, <1>4

LEMMA StutterKeepsIInv ==
  ASSUME IInv, UNCHANGED vars
  PROVE  IInv'
BY DEF vars, app, world, IInv, Base, TypeOK, RestIsClear, CommandsNamed, CancelsAwaited,
       Orderly, TaskNamed, ProcessNamed, TaskTracked, IdleIsEmpty, Cancelling, Cleaning,
       Terminating, NoTaskRuns, Busy

-----------------------------------------------------------------------------

LEMMA NextKeepsIInv == IInv /\ [Next]_vars => IInv'
<1> SUFFICES ASSUME IInv, [Next]_vars PROVE IInv'
  OBVIOUS
<1>1. ASSUME NEW c \in Callers, Start(c) PROVE IInv'
  BY <1>1, StartKeepsIInv
<1>2. ASSUME NEW c \in Callers, TaskEnded(c) PROVE IInv'
  BY <1>2, TaskEndedKeepsIInv
<1>3. ASSUME NEW c \in Callers, Terminated(c) PROVE IInv'
  BY <1>3, TerminatedKeepsIInv
<1>4. ASSUME NEW c \in Callers, NEW do \in {"stop", "restart", "shutdown"}, Command(c, do)
      PROVE  IInv'
  BY <1>4, CommandKeepsIInv
<1>5. ASSUME NEW t \in Tasks, Cancelled(t) PROVE IInv'
  BY <1>5, CancelledKeepsIInv
<1>6. ASSUME NEW t \in Tasks, Loop(t) PROVE IInv'
  BY <1>6, LoopKeepsIInv
<1>7. ASSUME NEW t \in Tasks, Spawned(t) PROVE IInv'
  BY <1>7, SpawnedKeepsIInv
<1>8. ASSUME NEW t \in Tasks, SpawnFails(t) PROVE IInv'
  BY <1>8, SpawnFailsKeepsIInv
<1>9. ASSUME NEW t \in Tasks, BackoffEnds(t) PROVE IInv'
  BY <1>9, BackoffEndsKeepsIInv
<1>10. ASSUME NEW t \in Tasks, NEW healthy \in BOOLEAN, Reaped(t, healthy) PROVE IInv'
  BY <1>10, ReapedKeepsIInv
<1>11. ASSUME NEW p \in Procs, Exits(p) PROVE IInv'
  BY <1>11, ExitsKeepsIInv
<1>12. CASE UNCHANGED vars
  BY <1>12, StutterKeepsIInv
<1>13. QED
  BY <1>1, <1>2, <1>3, <1>4, <1>5, <1>6, <1>7, <1>8, <1>9, <1>10, <1>11, <1>12 DEF Next

LEMMA InvariantHolds == Spec => []IInv
BY InitIInv, NextKeepsIInv, PTL DEF Spec

\* The record of the app, its tasks and the commands are well typed
\* (apps/supervisor.py, _Running), also when commands contest each other.
THEOREM TypeCorrect == Spec => []TypeOK
<1>1. IInv => TypeOK
  BY DEF IInv, Base
<1>2. QED
  BY <1>1, InvariantHolds, PTL

\* However many commands overlap, as long as none of them is a start the app
\* has one process and one task at most, and they are those a later stop finds
\* in the record (start_app, stop_app, _supervise, _terminate).
THEOREM NamesTheOneProcess == Spec => []OneProcess
<1>1. IInv => OneProcess
  BY DEF IInv, Orderly, OneProcess, ProcessNamed, TaskNamed
<1>2. QED
  BY <1>1, InvariantHolds, PTL

\* With no command under way, an app shown stopped or failed has no process
\* and no task that would bring one, and one with a process is shown running
\* (start_app, stop_app, _supervise; the status the dashboard reads).
THEOREM ShowsWhatIs == Spec => []StatusIsTrue
<1>1. IInv => StatusIsTrue
  <2> SUFFICES ASSUME IInv, ~contested, Busy = {}
               PROVE  /\ state \in {"stopped", "failed"} =>
                           live = {} /\ tasks = [t \in Tasks |-> NoTask]
                      /\ live # {} => state = "running"
    BY DEF StatusIsTrue
  <2>1. \A t \in Tasks : tasks[t] # NoTask =>
          \/ tasks[t].at = "waiting" /\ state = "running"
          \/ process = None /\ state \in {"starting", "exited"}
    BY DEF IInv, Base, TypeOK, RestIsClear, Orderly, TaskTracked
  <2>2. NoTaskRuns => live = {} /\ tasks = [t \in Tasks |-> NoTask]
    BY NoneIsNothing
    DEF IInv, Base, TypeOK, Orderly, IdleIsEmpty, ProcessNamed, NoTaskRuns
  <2>3. live # {} => process # None
    BY NoneIsNothing DEF IInv, Base, TypeOK, Orderly, ProcessNamed
  <2>4. QED
    BY <2>1, <2>2, <2>3 DEF NoTaskRuns
<1>2. QED
  BY <1>1, InvariantHolds, PTL

=============================================================================
