--------------------------- MODULE AdapterManager ---------------------------
(***************************************************************************)
(* The Adapter Manager (src/src/prodeo/adapters/manager.py) between the    *)
(* agents, the Session Registry and the inbox: discovery, watches, control *)
(* calls, and the parking of a session on a human and its resumption.      *)
(*                                                                         *)
(* The agents are those of the Claude Code adapter.  One started from the  *)
(* server is `owned`: it asks through the SDK, and its answers go back     *)
(* through adapter.respond().  One in a terminal is `foreign`: its hook    *)
(* asks over HTTP and carries the answer back itself.  Both write a        *)
(* transcript, from whose age discovery derives its state hint.            *)
(*                                                                         *)
(* Mediation is taken as what Mediation.tla shows of it: an interaction is *)
(* opened once and resolved once, and dies with the process.               *)
(***************************************************************************)
EXTENDS Sessions

CONSTANTS
  Ids,         \* interactions
  MaxRestarts  \* bound: restarts of the server

ASSUME ManagerBounds == MaxRestarts \in Nat /\ None \notin Ids

VARIABLES
  agent,      \* native -> what the agent is, see Agents
  file,       \* native -> its transcript: "none" | "fresh" | "idle"
  unread,     \* natives whose transcript has lines the watch has not read
  watched,    \* _watches: natives with a live watch task
  inbox,      \* id -> its status in mediation, "unknown" before it is opened
  ask,        \* id -> [sid, path] of the request, None before
  waiting,    \* ids whose agent is blocked on the answer
  responding, \* ids with an adapter.respond() under way
  restarts    \* restarts so far

world == <<agent, file, unread>>
desk == <<inbox, ask, waiting, responding>>
vars == <<registry, loop, stored, world, watched, desk, restarts>>

Agents == {"none", "launching", "owned", "foreign", "gone"}
Alive == {"launching", "owned", "foreign"}
Paths == {"sdk", "hook"}

ASSUME NoneIsNoRequest == None \notin [sid: Sids, path: Paths]

\* Steps of the manager's handlers.
Watch(n) == [do |-> "watch", native |-> n]
Return(n) == [do |-> "return", native |-> n]
Deliver(i) == [do |-> "deliver", id |-> i]
Park(s) == Observe(s, "waiting_on_user", "interaction_requested")
Resume(s, why) == Observe(s, "running", why)

\* The handler takes the loop without publishing first.
Begin(steps) ==
  /\ Free
  /\ turn' = steps
  /\ UNCHANGED <<registry, capacity, stored, suspended, queue, stalled, nextEid>>

Init ==
  /\ RegistryInit
  /\ agent = [n \in Natives |-> "none"]
  /\ file = [n \in Natives |-> "none"]
  /\ unread = {}
  /\ watched = {}
  /\ inbox = [i \in Ids |-> "unknown"]
  /\ ask = [i \in Ids |-> None]
  /\ waiting = {}
  /\ responding = {}
  /\ restarts = 0

-----------------------------------------------------------------------------
(* The agents *)

\* An agent appends to its transcript; one in a terminal appears by doing so.
AgentWrites(n) ==
  /\ Free
  /\ agent[n] \in Alive \cup {"none"}
  /\ agent' = [agent EXCEPT ![n] = IF @ = "none" THEN "foreign" ELSE @]
  /\ file' = [file EXCEPT ![n] = "fresh"]
  /\ unread' = unread \cup {n}
  /\ UNCHANGED <<registry, loop, stored, watched, desk, restarts>>

\* Nothing was written for the adapter's idle timeout.
TranscriptAges(n) ==
  /\ Free
  /\ file[n] = "fresh"
  /\ file' = [file EXCEPT ![n] = "idle"]
  /\ UNCHANGED <<registry, loop, stored, agent, unread, watched, desk, restarts>>

\* launch(): adapter.launch() has started an agent and is still awaited.
AgentStarts(n) ==
  /\ Free
  /\ agent[n] = "none"
  /\ agent' = [agent EXCEPT ![n] = "launching"]
  /\ UNCHANGED <<registry, loop, stored, file, unread, watched, desk, restarts>>

-----------------------------------------------------------------------------
(* Discovery, launch and watches *)

\* Defect: the hint is the adapter's own word for the state.
HeuristicRaw(n) == IF file[n] = "fresh" THEN "running" ELSE "idle"

\* _descriptor(), _with_live_state(): the hint is the transcript's age.
Heuristic(n) == IF file[n] = "fresh" THEN "running" ELSE "completed"

Upsert(n, hint, refreshed, rest) ==
  \/ UpsertKnown(n, hint, refreshed, rest)
  \/ \E s \in Sids : UpsertNew(n, s, hint, rest)

\* _discover(), one descriptor; also a watch's SessionObservation.
Discover(n, refreshed) ==
  /\ Free
  /\ file[n] # "none"
  /\ Upsert(n, Heuristic(n), refreshed, <<Watch(n)>>)
  /\ UNCHANGED <<world, watched, desk, restarts>>

\* launch(), once adapter.launch() returned: the title and the `controlled`
\* mark are new to a session that discovery found first.
LaunchReturns(n) ==
  /\ Free
  /\ agent[n] = "launching"
  /\ agent' = [agent EXCEPT ![n] = "owned"]
  /\ Upsert(n, "starting", TRUE, <<Watch(n)>>)
  /\ UNCHANGED <<file, unread, watched, desk, restarts>>

\* _ensure_watch()
EnsureWatch ==
  /\ Doing("watch")
  /\ LET n == Head(turn).native
     IN watched' = IF state[byNative[n]] \in EndStates THEN watched ELSE watched \cup {n}
  /\ turn' = Tail(turn)
  /\ UNCHANGED <<registry, capacity, suspended, queue, stored, stalled, nextEid, world, desk, restarts>>

\* A watch reads lines the agent wrote after the watch had caught up.
WatchSeesActivity(n) ==
  /\ n \in watched \cap unread
  /\ Begin(<<Resume(byNative[n], "activity")>>)
  /\ unread' = unread \ {n}
  /\ UNCHANGED <<agent, file, watched, desk, restarts>>

\* A watch replays history, or its first read: descriptive facts only.
WatchCatchesUp(n) ==
  /\ Free
  /\ n \in watched \cap unread
  /\ unread' = unread \ {n}
  /\ UNCHANGED <<registry, loop, stored, agent, file, watched, desk, restarts>>

\* A watch finds the transcript idle, or finds none, reports and returns.
WatchEnds(n) ==
  /\ n \in watched \ unread
  /\ file[n] # "fresh"
  /\ Begin(<<Observe(byNative[n], IF file[n] = "idle" THEN "completed" ELSE "stopped",
                     "watch"), Return(n)>>)
  /\ UNCHANGED <<world, watched, desk, restarts>>

WatchReturns ==
  /\ Doing("return")
  /\ watched' = watched \ {Head(turn).native}
  /\ turn' = Tail(turn)
  /\ UNCHANGED <<registry, capacity, suspended, queue, stored, stalled, nextEid, world, desk, restarts>>

-----------------------------------------------------------------------------
(* Interactions *)

\* _open_interaction(), open_external_interaction(): the agent is blocked and
\* its session is parked.
OpenInteraction(n, i) ==
  /\ Free
  /\ agent[n] \in Alive
  /\ byNative[n] # None
  /\ inbox[i] = "unknown"
  /\ LET s == byNative[n]
     IN /\ inbox' = [inbox EXCEPT ![i] = "pending"]
        /\ ask' = [ask EXCEPT ![i] =
             [sid |-> s, path |-> IF agent[n] = "foreign" THEN "hook" ELSE "sdk"]]
        /\ waiting' = waiting \cup {i}
        /\ Publish(Other, <<Park(s)>>)
  /\ UNCHANGED <<registry, stored, world, watched, responding, restarts>>

\* Mediation flips a pending interaction, publishes and goes on to `then`.
Settle(i, outcome, then) ==
  /\ Free
  /\ inbox[i] = "pending"
  /\ inbox' = [inbox EXCEPT ![i] = outcome]
  /\ Publish(Other, then)
  /\ UNCHANGED <<registry, stored, world, watched, ask, responding, restarts>>

Answer(i) == Settle(i, "answered", <<Deliver(i)>>) /\ UNCHANGED waiting

\* Only a permission is delivered when it expires.
TimeOut(i, permission) ==
  /\ Settle(i, "timed_out", IF permission THEN <<Deliver(i)>> ELSE <<>>)
  /\ UNCHANGED waiting

\* withdraw_external_interaction(): the hook's request was disconnected.
Withdraw(i) ==
  /\ ask[i] # None
  /\ ask[i].path = "hook"
  /\ Settle(i, "cancelled", <<>>)
  /\ waiting' = waiting \ {i}

\* An InteractionClosedObservation: cancel_native(), a no-op once resolved,
\* then the session runs.
InteractionClosed(i) ==
  /\ ask[i] # None
  /\ ask[i].path = "sdk"
  /\ i \in waiting
  /\ LET s == ask[i].sid
     IN \/ Settle(i, "cancelled", <<Resume(s, "interaction_closed")>>)
        \/ /\ inbox[i] # "pending"
           /\ Begin(<<Resume(s, "interaction_closed")>>)
           /\ UNCHANGED <<world, watched, inbox, ask, responding, restarts>>
  /\ waiting' = waiting \ {i}

\* The deliver closures.  The hook's resolves the future its request polls
\* and resumes the session on an answer, not on a timeout.  The SDK's awaits
\* adapter.respond().
DeliverAnswer ==
  /\ Doing("deliver")
  /\ LET i == Head(turn).id
         s == ask[i].sid
     IN \/ /\ ask[i].path = "hook"
           /\ waiting' = waiting \ {i}
           /\ turn' = IF inbox[i] = "answered"
                        THEN <<Resume(s, "interaction_resolved")>> \o Tail(turn)
                        ELSE Tail(turn)
           /\ UNCHANGED responding
        \/ /\ ask[i].path = "sdk"
           /\ responding' = responding \cup {i}
           /\ turn' = <<>>
           /\ UNCHANGED waiting
  /\ UNCHANGED <<registry, capacity, suspended, queue, stored, stalled, nextEid, world, watched,
                 inbox, ask, restarts>>

\* Defect: a delivered answer leaves the session to the watcher.
RespondReturnsSilently(i) ==
  /\ i \in responding
  /\ responding' = responding \ {i}
  /\ waiting' = waiting \ {i}
  /\ Free
  /\ UNCHANGED <<registry, loop, stored, world, watched, inbox, ask, restarts>>

\* adapter.respond() returns: the agent goes on and so does its session.
RespondReturns(i) ==
  /\ i \in responding \cap waiting
  /\ Begin(<<Resume(ask[i].sid, "interaction_resolved")>>)
  /\ responding' = responding \ {i}
  /\ waiting' = waiting \ {i}
  /\ UNCHANGED <<world, watched, inbox, ask, restarts>>

\* adapter.respond() raises: the agent is no longer there, or the call fails.
RespondFails(i) ==
  /\ Free
  /\ i \in responding
  /\ responding' = responding \ {i}
  /\ Publish(Other, <<>>)
  /\ UNCHANGED <<registry, stored, world, watched, inbox, ask, waiting, restarts>>

-----------------------------------------------------------------------------
(* Control calls *)

\* What the agent was blocked on goes with it.
Blocked(n) == {i \in waiting : native[ask[i].sid] = n}

\* terminate(): the launcher shuts the agent down and cancels the futures it
\* was blocked on, and the adapter reports it stopped.
Terminate(n) ==
  /\ agent[n] = "owned"
  /\ agent' = [agent EXCEPT ![n] = "gone"]
  /\ waiting' = waiting \ Blocked(n)
  /\ Begin(<<Observe(byNative[n], "stopped", "terminated")>>)
  /\ UNCHANGED <<file, unread, watched, inbox, ask, responding, restarts>>

\* _on_sdk_failed: the SDK stream of an agent broke.
AgentFails(n) ==
  /\ agent[n] = "owned"
  /\ agent' = [agent EXCEPT ![n] = "gone"]
  /\ Begin(<<Observe(byNative[n], "failed", "sdk")>>)
  /\ UNCHANGED <<file, unread, watched, desk, restarts>>

\* The person, or retention, archives a finished session.
Archive(s) ==
  /\ state[s] \in EndStates \ {"archived"}
  /\ Begin(<<Observe(s, "archived", "archive")>>)
  /\ UNCHANGED <<world, watched, desk, restarts>>

\* set_model(), set_permission_mode()
SetModel(s) == Refresh(s) /\ UNCHANGED <<world, watched, desk, restarts>>

\* Crash or shutdown, and boot.  The agents the server started go with it, a
\* hook's request is cut, and mediation cancels what was pending.
Restart ==
  /\ turn = <<>>
  /\ restarts < MaxRestarts
  /\ restarts' = restarts + 1
  /\ RebuildRegistry
  /\ agent' = [n \in Natives |-> IF agent[n] \in {"launching", "owned"} THEN "gone" ELSE agent[n]]
  /\ watched' = {}
  /\ inbox' = [i \in Ids |-> IF inbox[i] = "pending" THEN "cancelled" ELSE inbox[i]]
  /\ waiting' = {}
  /\ responding' = {}
  /\ UNCHANGED <<file, unread, ask>>

-----------------------------------------------------------------------------

RegistryStep ==
  /\ ObserveState \/ PublishLifecycle \/ ApplyHint \/ Record
       \/ \E c \in suspended : PublishReturns(c)
  /\ UNCHANGED <<world, watched, desk, restarts>>

Next ==
  \/ RegistryStep
  \/ EnsureWatch \/ WatchReturns \/ DeliverAnswer
  \/ \E n \in Natives :
       \/ AgentWrites(n) \/ TranscriptAges(n) \/ AgentStarts(n) \/ LaunchReturns(n)
       \/ \E refreshed \in BOOLEAN : Discover(n, refreshed)
       \/ WatchSeesActivity(n) \/ WatchCatchesUp(n) \/ WatchEnds(n)
       \/ Terminate(n) \/ AgentFails(n)
       \/ \E i \in Ids : OpenInteraction(n, i)
  \/ \E i \in Ids :
       \/ Answer(i) \/ Withdraw(i) \/ InteractionClosed(i)
       \/ \E permission \in BOOLEAN : TimeOut(i, permission)
       \/ RespondReturns(i) \/ RespondFails(i)
  \/ \E s \in Sids : Archive(s) \/ SetModel(s)
  \/ Restart

Spec == Init /\ [][Next]_vars

-----------------------------------------------------------------------------

Reasons ==
  {"discovered", "discovery", "activity", "watch", "terminated", "sdk", "archive",
   "interaction_requested", "interaction_resolved", "interaction_closed"}

Steps ==
  [do: {"observe"}, sid: Sids, to: States, why: Reasons]
    \cup [do: {"hint"}, sid: Sids, to: States]
    \cup [do: {"announce"}, sid: Sids]
    \cup [do: {"watch", "return"}, native: Natives]
    \cup [do: {"deliver"}, id: Ids]

\* Type invariant of the catalogue, the loop, the agents and the inbox.
TypeOK ==
  /\ native \in [Sids -> Natives \cup {None}]
  /\ state \in [Sids -> States \cup {"unknown"}]
  /\ byNative \in [Natives -> Sids \cup {None}]
  /\ turn \in Seq(Steps)
  /\ \A c \in suspended : c.event \in Facts \cup {Other} /\ c.rest \in Seq(Steps)
  /\ capacity \in Capacities
  /\ queue \in Seq(Facts \cup {Other})
  /\ stored \subseteq Facts
  /\ stalled \in BOOLEAN
  /\ nextEid \in Nat
  /\ agent \in [Natives -> Agents]
  /\ file \in [Natives -> {"none", "fresh", "idle"}]
  /\ unread \subseteq Natives
  /\ watched \subseteq Natives
  /\ inbox \in [Ids -> {"unknown", "pending", "answered", "timed_out", "cancelled"}]
  /\ ask \in [Ids -> [sid: Sids, path: Paths] \cup {None}]
  /\ waiting \subseteq Ids
  /\ responding \subseteq Ids
  /\ restarts \in Nat

\* No native identity has two sessions, and the index finds the one it has,
\* whoever met it first (discovery, a launch, a hook) and after any restart.
OneSessionPerNative ==
  \A s \in Sids : state[s] # "unknown" => byNative[native[s]] = s

\* The catalogue is the fold of the events created or read back by this
\* process: a restart changes no session by more than what was not appended.
CatalogueIsFoldOfLog ==
  \A s \in Sids : state[s] = FoldState(s, Published)

\* The log tells each session's history without a gap or a contradiction:
\* every change starts where the one before it ended, the first one at
\* `discovered`, and every one is legal.  A crash while handlers were
\* suspended in publish() may tear the log (see the README); nothing else does.
LogIsHistory ==
  (stalled => restarts = 0) =>
    \A s \in Sids : \A e \in ChangesOf(s, Published) :
      LET before == {f \in ChangesOf(s, Published) : f.eid < e.eid}
      IN /\ e.to \in Legal[e.from]
         /\ e.from = IF before = {} THEN "discovered" ELSE Newest(before).to

\* "Discovery never un-parks a session" (docs/architecture/mediation.md:53),
\* as long as no publish has found the recorder's queue full.
DiscoveryNeverUnparks ==
  [][\A s \in Sids :
       /\ ~stalled
       /\ Doing("observe")
       /\ state[s] = "waiting_on_user"
       /\ state'[s] # state[s]
       => Head(turn).why \notin {"discovery", "discovered"}]_vars

\* A session is not left parked by an answer that reached its agent: if it
\* waits on a human, some interaction of it is pending, is being delivered,
\* could not be delivered, or expired or was withdrawn with its agent left to
\* ask elsewhere.  As long as no publish has found the queue full and no
\* restart has lost the resumption.
ParkedForAReason ==
  \A s \in Sids :
    (turn = <<>> /\ ~stalled /\ restarts = 0 /\ state[s] = "waiting_on_user") =>
      \E i \in Ids :
        /\ ask[i] # None
        /\ ask[i].sid = s
        /\ \/ inbox[i] \in {"pending", "timed_out", "cancelled"}
           \/ i \in responding \cup waiting

\* "The inbox never shows unanswerable zombies" (docs/adr/0007:22): an agent
\* asked through the SDK is still there to hear the answer.
InboxAnswerable ==
  \A i \in Ids :
    (inbox[i] = "pending" /\ ask[i].path = "sdk") => i \in waiting

\* A session leaves an end state because it was seen to "start appending
\* output again" (docs/architecture/event-model.md:225): once an agent was
\* terminated, only lines of its transcript that were still unread may show
\* its session running.
TerminatedStaysStopped ==
  [][\A s \in Sids :
       /\ state[s] = "stopped"
       /\ agent[native[s]] = "gone"
       /\ Doing("observe")
       /\ Head(turn).why # "activity"
       => state'[s] # "running"]_vars

=============================================================================
