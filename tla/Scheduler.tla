----------------------------- MODULE Scheduler -----------------------------
(***************************************************************************)
(* The scheduler service (src/src/prodeo/scheduler/service.py): a loop     *)
(* that launches what is due, while schedules are created, deleted and run *)
(* by hand, and while the server crashes and restarts.                     *)
(*                                                                         *)
(* Awaited are the launches; a publish is taken to be durable at once, the *)
(* recorder being the subject of other modules.  The loop's sleep is       *)
(* capped, so that it may end at any time.                                 *)
(***************************************************************************)
EXTENDS Naturals, FiniteSetsExt

CONSTANTS
  Expressions,  \* the cron expressions users write
  NextRun,      \* what Cron's parser and search make of them: by expression
                \* and instant the next run, never for one that does not parse
  ShownTwice,   \* the instants whose minute the wall clock has shown before
  MaxSchedules, \* bound of the schedules created
  MaxTime,     \* bound of the clock
  MaxRestarts  \* bound of the restarts

Schedules == 1 .. MaxSchedules \* ids, in the order of creation

VARIABLES
  clock,      \* now
  defined,    \* schedule.created not followed by schedule.deleted in the log
  catalogue,  \* the keys of _schedules
  schedule,   \* the Schedule objects: parsed cron, next_run_at, and the
              \* instant next_run_at was computed from
  loop,       \* _run(): where it is, the instant of its pass, what it has left
  manual,     \* the schedule trigger_now() is launching, or NoSchedule
  fired,      \* the last next_run_at the loop has fired, per schedule
  booted,     \* the instant of the last start
  afterwards, \* runs that started after the schedule was deleted
  restarts

vars == <<clock, defined, catalogue, schedule, loop, manual, fired, afterwards, restarts, booted>>

SchedulerBounds ==
  /\ {MaxSchedules, MaxRestarts} \subseteq Nat
  /\ MaxTime \in Nat \ {0}

Never == 0                     \* None for an instant: those used are positive
NoCron == "none"
NoSchedule == [cron |-> NoCron, next |-> Never, base |-> Never]
Nobody == 0
Asleep == [at |-> "asleep", now |-> Never, todo |-> {}]
Down == [Asleep EXCEPT !.at = "down"]

Init ==
  /\ clock = 1
  /\ defined = {}
  /\ catalogue = {}
  /\ schedule = [s \in Schedules |-> NoSchedule]
  /\ loop = Asleep
  /\ manual = Nobody
  /\ fired = [s \in Schedules |-> Never]
  /\ booted = 1
  /\ afterwards = [s \in Schedules |-> 0]
  /\ restarts = 0

Computed(cron, now) == [cron |-> cron, next |-> NextRun[cron][now], base |-> now]

-----------------------------------------------------------------------------

\* create(): an expression that does not parse or never fires is refused.
Create(s) ==
  \E expr \in Expressions :
    /\ loop.at # "down"
    /\ schedule[s] = NoSchedule /\ \A t \in 1 .. s - 1 : schedule[t] # NoSchedule
    /\ NextRun[expr][clock] # Never
    /\ schedule' = [schedule EXCEPT ![s] = Computed(expr, clock)]
    /\ catalogue' = catalogue \cup {s}
    /\ defined' = defined \cup {s}
    /\ UNCHANGED <<clock, loop, manual, fired, afterwards, restarts, booted>>

\* Defect: only the log is told.
DeleteInLogOnly(s) ==
  /\ loop.at # "down"
  /\ s \in catalogue \cap defined
  /\ defined' = defined \ {s}
  /\ UNCHANGED <<clock, catalogue, schedule, loop, manual, fired, afterwards, restarts, booted>>

\* delete(): the object lives on in the pass that holds it.
Delete(s) ==
  /\ loop.at # "down"
  /\ s \in catalogue
  /\ catalogue' = catalogue \ {s}
  /\ defined' = defined \ {s}
  /\ UNCHANGED <<clock, schedule, loop, manual, fired, afterwards, restarts, booted>>

\* The first half of _fire(), up to the launch.
Fire(s, now) ==
  /\ schedule' = [schedule EXCEPT ![s] = Computed(@.cron, now)]
  /\ afterwards' = [afterwards EXCEPT ![s] = IF s \in defined THEN @ ELSE @ + 1]

\* trigger_now()
Trigger(s) ==
  /\ loop.at # "down"
  /\ s \in catalogue
  /\ manual = Nobody
  /\ manual' = s
  /\ Fire(s, clock)
  /\ UNCHANGED <<clock, defined, catalogue, loop, fired, restarts, booted>>

\* The launch by hand returns or fails: both are published.
TriggerEnds ==
  /\ manual # Nobody
  /\ manual' = Nobody
  /\ UNCHANGED <<clock, defined, catalogue, schedule, loop, fired, afterwards, restarts, booted>>

\* A pass over `todo`, in the order of creation and by the clock at its start,
\* up to the next launch: what is due is decided one by one, without a pause.
Pass(todo, now) ==
  LET due == {s \in todo : schedule[s].next \in 1 .. now}
      s == Min(due)
  IN IF due = {}
       THEN loop' = Asleep /\ UNCHANGED <<schedule, fired, afterwards>>
       ELSE /\ loop' = [at |-> "launching", now |-> now, todo |-> {t \in todo : t > s}]
            /\ fired' = [fired EXCEPT ![s] = schedule[s].next]
            /\ Fire(s, now)

\* A pass of _run() begins: it takes the list of the schedules.
Wake ==
  /\ loop.at = "asleep"
  /\ Pass(catalogue, clock)
  /\ UNCHANGED <<clock, defined, catalogue, manual, restarts, booted>>

\* A launch returns or fails: both are published, and the pass goes on.
LaunchEnds ==
  /\ loop.at = "launching"
  /\ Pass(loop.todo, loop.now)
  /\ UNCHANGED <<clock, defined, catalogue, manual, restarts, booted>>

\* A crash, or stop(), which cancels the loop wherever it is.
Halt ==
  /\ loop.at # "down"
  /\ restarts < MaxRestarts
  /\ loop' = Down
  /\ manual' = Nobody
  /\ catalogue' = {}
  /\ UNCHANGED <<clock, defined, schedule, fired, afterwards, restarts, booted>>

\* Defect: next_run_at is taken from the log.
RebuildAsLogged ==
  /\ loop.at = "down"
  /\ loop' = Asleep
  /\ restarts' = restarts + 1
  /\ booted' = clock
  /\ catalogue' = defined
  /\ UNCHANGED <<clock, defined, schedule, manual, fired, afterwards>>

\* rebuild() and start(): next runs are computed from now.
Rebuild ==
  /\ loop.at = "down"
  /\ loop' = Asleep
  /\ restarts' = restarts + 1
  /\ booted' = clock
  /\ catalogue' = defined
  /\ schedule' = [s \in Schedules |->
       IF s \in defined THEN Computed(schedule[s].cron, clock) ELSE schedule[s]]
  /\ UNCHANGED <<clock, defined, manual, fired, afterwards>>

\* Time passes, a minute or more: the machine may be suspended.
Tick ==
  \E minutes \in 1 .. 2 :
    /\ clock + minutes <= MaxTime
    /\ clock' = clock + minutes
    /\ UNCHANGED <<defined, catalogue, schedule, loop, manual, fired, afterwards, restarts, booted>>

-----------------------------------------------------------------------------

Next ==
  \/ \E s \in Schedules : Create(s) \/ Delete(s) \/ Trigger(s)
  \/ TriggerEnds
  \/ Wake \/ LaunchEnds
  \/ Halt \/ Rebuild
  \/ Tick

Spec == Init /\ [][Next]_vars

-----------------------------------------------------------------------------

\* Type invariant of the catalogue, the objects and the loop.
TypeOK ==
  /\ clock \in 1 .. MaxTime
  /\ catalogue \subseteq Schedules /\ defined \subseteq Schedules
  /\ loop \in [at : {"asleep", "launching", "down"}, now : 0 .. MaxTime, todo : SUBSET Schedules]
  /\ manual \in Schedules \cup {Nobody}
  /\ schedule \in [Schedules -> [cron : Expressions \cup {NoCron}, next : Nat, base : 0 .. MaxTime]]
  /\ fired \in [Schedules -> Nat] /\ afterwards \in [Schedules -> Nat]
  /\ booted \in 1 .. MaxTime
  /\ restarts \in 0 .. MaxRestarts

\* Runs missed while the server was down are skipped, not backfilled
\* (service.py:7), and no instant of a schedule is fired twice: what the loop
\* fires is later than the last it fired and than the server's start.  A schedule deleted
\* while the loop holds it may be launched by that pass, once, and never after.
NoBackfill ==
  [][\A s \in Schedules :
       /\ afterwards'[s] <= 1
       /\ (fired'[s] # fired[s] /\ schedule[s].base \notin ShownTwice) =>
            fired'[s] > fired[s] /\ fired'[s] > booted]_vars

=============================================================================
