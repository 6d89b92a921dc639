------------------------------ MODULE MCServices ------------------------------
(***************************************************************************)
(* TLC instances of the server's services, side by side: a behaviour is of *)
(* one of the parts, the others stay as they start.  They share no state   *)
(* in the code either but the event log, of which each module has its own  *)
(* view.                                                                   *)
(***************************************************************************)
EXTENDS Cron, Sequences, TLC

CONSTANTS b1, b2, \* the boxes of the fleet
          MaxEvents, QueueSize, InboxSize, PageSize,
          MaxSchedules, MaxRestarts,
          Boxes, Hub, MaxIdentities, MaxInstallers, MaxWipes, MaxHandshakes, MaxFacts, HubRestarts,
          Rules, Types, Protected, BatchSize, MaxInstants, MaxCrashes,
          Kinds, Routes, Channels, AwayOnly, QueueLimit, Clients, Ttl, Period, MaxNotified, MaxBoots,
          Catalog, Broken, Voice, Schema, Paid, Unmet, Cached, Models, Roots, DefaultRoot,
          Bundled, MaxWrites

VARIABLES part,
  created, putting, queue, writing, store, recorder, settled, stalled, stream, sent, history, dropped,
  clock, defined, catalogue, schedule, loop, manual, fired, booted, afterwards, restarts,
  identityDir, identity, tokens, zips, ccan, place, answers, machines, machineLog, enrolment,
  refused, hubRestarts,
  born, mirrored, log, cursor, archive, pass, expired, crashes,
  published, waiting, routing, lost, presence, digest, lastRun, digests, boots,
  lib, disk, saved, disabled, root, licensed, wired, inventory, jobs, writes, hostRestarts

busVars == <<created, putting, queue, writing, store, recorder, settled, stalled,
             stream, sent, history, dropped>>
schedulerVars == <<clock, defined, catalogue, schedule, loop, manual, fired, booted,
                   afterwards, restarts>>
fleetVars == <<identityDir, identity, tokens, zips, ccan, place, answers, machines, machineLog,
               enrolment, refused, hubRestarts>>
retentionVars == <<born, mirrored, log, cursor, archive, pass, expired, crashes>>
noticesVars == <<published, waiting, routing, lost, presence, digest, lastRun, digests, boots>>
extensionsVars == <<lib, disk, saved, disabled, root, licensed, wired, inventory, jobs, writes,
                    hostRestarts>>

-----------------------------------------------------------------------------
(* What a .cfg cannot write *)

\* Cron fields "*" and "n"; an expression names the fields that are not "*".
\* The month 2 has one day only, and the day 3 of a week is none.
Star == {[star |-> TRUE, lo |-> 0, hi |-> 0, step |-> 0]}
Only(v) == {[star |-> FALSE, lo |-> v, hi |-> v, step |-> 0]}
Every == [minute |-> Star, hour |-> Star, dom |-> Star, month |-> Star, dow |-> Star]
CronFields ==
  [minute1 |-> [Every EXCEPT !.minute = Only(1)],
   hour1dom2dow2 |-> [Every EXCEPT !.hour = Only(1), !.dom = Only(2), !.dow = Only(2)],
   dom2month2 |-> [Every EXCEPT !.dom = Only(2), !.month = Only(2)],
   dow3 |-> [Every EXCEPT !.dow = Only(3)]]
Expressions == DOMAIN Fields
Months == <<2, 1>>

RetentionRules ==
  <<[types |-> {"tool", "session"}, age |-> 1, archive |-> TRUE],
    [types |-> {"tool"}, age |-> 2, archive |-> FALSE]>>

NoticeRoutes == [kind \in {"ask", "summary", "notification"} |->
                   IF kind = "ask" THEN <<"phone", "log">> ELSE <<"log">>]

EnvOption == [x \in Catalog |-> "absent"]
Files == <<"onnx", "json">>

B == INSTANCE EventBus
S == INSTANCE Scheduler WITH ShownTwice <- {i \in 1 .. MaxTime : Repeated(i)}
F(installers, wipes) == INSTANCE Fleet WITH MaxInstallers <- installers, MaxWipes <- wipes
R == INSTANCE Retention
N == INSTANCE Notices WITH MaxEvents <- MaxNotified
X == INSTANCE Extensions WITH restarts <- hostRestarts

\* What the theorems about the instances take for granted.
ASSUME ServicesBounds ==
  /\ B!BusBounds /\ R!RetentionBounds
  /\ CronBounds /\ S!SchedulerBounds
  /\ N!NoticesBounds
  /\ X!ExtensionsBounds
  /\ F(MaxInstallers, MaxWipes)!FleetBounds /\ F(1, 1)!FleetBounds

Symmetry == Permutations(Boxes)

-----------------------------------------------------------------------------

Parts == {"bus", "scheduler", "fleet", "wiped fleet", "retention", "notices", "extensions"}

Init ==
  /\ part \in Parts
  /\ B!Init /\ S!Init /\ R!Init /\ N!Init /\ X!Init
  /\ IF part = "wiped fleet" THEN F(1, 1)!Init ELSE F(MaxInstallers, MaxWipes)!Init

Bus ==
  /\ part = "bus" /\ B!Next
  /\ UNCHANGED <<part, schedulerVars, fleetVars, retentionVars, noticesVars, extensionsVars>>

Scheduling ==
  /\ part = "scheduler" /\ S!Next
  /\ UNCHANGED <<part, busVars, fleetVars, retentionVars, noticesVars, extensionsVars>>

Pairing ==
  /\ \/ part = "fleet" /\ F(MaxInstallers, MaxWipes)!Next
     \/ part = "wiped fleet" /\ F(1, 1)!Next
  /\ UNCHANGED <<part, busVars, schedulerVars, retentionVars, noticesVars, extensionsVars>>

Retaining ==
  /\ part = "retention" /\ R!Next
  /\ UNCHANGED <<part, busVars, schedulerVars, fleetVars, noticesVars, extensionsVars>>

Notifying ==
  /\ part = "notices" /\ N!Next
  /\ UNCHANGED <<part, busVars, schedulerVars, fleetVars, retentionVars, extensionsVars>>

Extending ==
  /\ part = "extensions" /\ X!Next
  /\ UNCHANGED <<part, busVars, schedulerVars, fleetVars, retentionVars, noticesVars>>

Next == Bus \/ Scheduling \/ Pairing \/ Retaining \/ Notifying \/ Extending

vars == <<part, busVars, schedulerVars, fleetVars, retentionVars, noticesVars, extensionsVars>>

Spec == Init /\ [][Next]_vars

-----------------------------------------------------------------------------

\* Type invariant of the parts.
TypesOK ==
  /\ part \in Parts
  /\ part = "bus" => B!TypeOK
  /\ part = "scheduler" => S!TypeOK
  /\ part = "fleet" => F(MaxInstallers, MaxWipes)!TypeOK
  /\ part = "wiped fleet" => F(1, 1)!TypeOK
  /\ part = "retention" => R!TypeOK
  /\ part = "notices" => N!TypeOK
  /\ part = "extensions" => X!TypeOK

\* An event that was published is kept: by the recorder however it is stopped
\* (persistence/recorder.py), and by a retention pass whatever interrupts it
\* (persistence/retention.py).  See EventBus and Retention.
EventsAreKept == B!KeptAtStop /\ R!NothingLost

\* A client is sent its history whole, then the live events, each once and in
\* the order of the ids (api/app.py, event_stream).  See EventBus.
StreamInOrder == B!StreamInOrder /\ B!HistoryReplayed

\* next_run_at is the first instant after the one it was computed from at
\* which the expression fires by Cron's reference, whatever the calendar and
\* whichever of create, the loop, a run by hand or a restart computed it
\* (scheduler/cron.py, next_fire); except from a minute the wall clock shows
\* again, which is searched as if it were the first.
NextIsFirst ==
  \A s \in 1 .. MaxSchedules :
    (schedule[s].base # Never /\ ~Repeated(schedule[s].base)) =>
      schedule[s].next = FirstRun[schedule[s].cron][schedule[s].base]

\* No run is fired twice, nor one that was due while the server was down, nor
\* more than one of a deleted schedule (scheduler/service.py, rebuild, _run and
\* _fire).  See Scheduler.
NoBackfill == S!NoBackfill

\* A token enrols one machine and goes on doing so, and a command reaches the
\* machine it is for or none (machines/enrollments.py; machines/pairing.py,
\* pinned_client).  See Fleet.
OnlyThePaired ==
  F(MaxInstallers, MaxWipes)!TokenBindsToItsFirst /\ F(MaxInstallers, MaxWipes)!CommandsReachTheirNode

\* Every channel is told of an event once, and the digests of a boot count it
\* once (notify/service.py, _route; summary/service.py, run_once).  See Notices.
ToldAndCountedOnce == N!ToldOnce /\ N!DigestsPartition

\* An app is pointed at whole models, and no chosen cache is moved
\* (extensions/service.py).  See Extensions.
ModelsAreWhole == X!ModelsAreWhole

=============================================================================
