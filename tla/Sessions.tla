------------------------------ MODULE Sessions ------------------------------
(***************************************************************************)
(* The Session Registry (src/src/prodeo/sessions/): the catalogue of agent *)
(* sessions, the canonical state machine and the facts it publishes, on    *)
(* one event loop.                                                         *)
(*                                                                         *)
(* The loop runs one handler at a time, to its next real suspension.       *)
(* `turn` is what is left of the handler that holds the loop: a sequence   *)
(* of steps, empty when the loop is free.  `await bus.publish(event)` does *)
(* not suspend while the recorder's queue has room; on a full queue the    *)
(* handler leaves the loop, its event created but not queued, and any      *)
(* handler may run before it comes back (asyncio's waiting putters may be  *)
(* overtaken).                                                             *)
(*                                                                         *)
(* This module has the registry's steps.  AdapterManager has the handlers  *)
(* that call them.                                                         *)
(***************************************************************************)
EXTENDS Naturals, Sequences, FiniteSets

CONSTANTS
  Natives,    \* adapter-native session identities
  Sids,       \* session ids (ULIDs), each drawn at most once
  None,       \* Python's None
  Other,      \* an event no fold of the catalogue reads: lifecycle, updated,
              \*   adapter.error, interaction.*
  Capacities, \* capacities of the recorder's queue (1024 in the code)
  MaxFacts,   \* bound: no handler starts once this many facts exist
  MaxSuspended \* bound: nor while this many handlers are suspended

ASSUME NoneIsNoSession == None \notin Natives \cup Sids
ASSUME SessionBounds == Capacities \subseteq Nat \ {0} /\ MaxFacts \in Nat /\ MaxSuspended \in Nat

EndStates == {"completed", "failed", "stopped", "archived"}
States == {"discovered", "starting", "running", "waiting_on_user"} \cup EndStates

Legal ==
  [s \in States |->
    CASE s = "discovered" -> {"starting", "running", "waiting_on_user",
                              "completed", "failed", "stopped"}
      [] s = "starting" -> {"running", "failed", "stopped"}
      [] s = "running" -> {"waiting_on_user", "completed", "failed", "stopped"}
      [] s = "waiting_on_user" -> {"running", "completed", "failed", "stopped"}
      [] s \in EndStates \ {"archived"} -> {"running", "archived"}
      [] s = "archived" -> {}]

VARIABLES
  native,    \* sid -> native identity it was created for, None before; a
             \*   constant of the session, carried by its first event
  state,     \* _by_id: sid -> state, "unknown" when not in the catalogue
  byNative,  \* _by_native: native identity -> sid or None
  turn,      \* steps left of the handler that holds the loop
  suspended, \* handlers waiting in publish() for room in the queue
  capacity,  \* of the recorder's queue, chosen once
  queue,     \* the recorder's queue
  stored,    \* facts in the event store
  stalled,   \* has a publish ever found the queue full?
  nextEid    \* next event id

registry == <<native, state, byNative>>
loop == <<capacity, turn, suspended, queue, stalled, nextEid>>

\* What the fold reads; from, to: the session's state before and after.
Facts == [eid: Nat, type: {"discovered", "state_changed"}, sid: Sids,
          from: States \cup {"unknown"}, to: States]

ASSUME OtherIsNoFact == Other \notin Facts

Fact(type, s, from, to) ==
  [eid |-> nextEid, type |-> type, sid |-> s, from |-> from, to |-> to]

-----------------------------------------------------------------------------

(***************************************************************************)
(* The fold of the log, in event-id order.  Facts about a session whose    *)
(* `discovered` event is not in the log are ignored.                       *)
(***************************************************************************)

DiscoveredIn(s, log) == \E e \in log : e.sid = s /\ e.type = "discovered"

ChangesOf(s, log) == {e \in log : e.sid = s /\ e.type = "state_changed"}

Newest(es) == CHOOSE e \in es : \A f \in es : f.eid <= e.eid

FoldState(s, log) ==
  IF ~DiscoveredIn(s, log) THEN "unknown"
  ELSE IF ChangesOf(s, log) = {} THEN "discovered"
  ELSE Newest(ChangesOf(s, log)).to

FoldNative(n, log) ==
  LET found == {e \in log : e.type = "discovered" /\ native[e.sid] = n}
  IN IF found = {} THEN None ELSE Newest(found).sid

\* The facts this process has created or read back.
InFlight == {c.event : c \in suspended} \cup {queue[k] : k \in DOMAIN queue}
Published == (InFlight \ {Other}) \cup stored

-----------------------------------------------------------------------------

\* Steps of a handler.
Observe(s, to, why) == [do |-> "observe", sid |-> s, to |-> to, why |-> why]
Hint(s, to) == [do |-> "hint", sid |-> s, to |-> to]
Announce(s) == [do |-> "announce", sid |-> s]

Doing(step) == turn # <<>> /\ Head(turn).do = step

\* A handler may take the loop.
Free == turn = <<>> /\ nextEid < MaxFacts /\ Cardinality(suspended) < MaxSuspended

\* await bus.publish(event), then the steps `rest`.
Publish(event, rest) ==
  /\ UNCHANGED capacity
  /\ nextEid' = IF event = Other THEN nextEid ELSE nextEid + 1
  /\ \/ /\ Len(queue) < capacity
        /\ queue' = Append(queue, event)
        /\ turn' = rest
        /\ UNCHANGED <<suspended, stalled>>
     \/ /\ Len(queue) = capacity
        /\ suspended' = suspended \cup {[event |-> event, rest |-> rest]}
        /\ turn' = <<>>
        /\ stalled' = TRUE
        /\ UNCHANGED queue

\* The queue has room again and a waiting publish returns.
PublishReturns(c) ==
  /\ turn = <<>>
  /\ c \in suspended
  /\ Len(queue) < capacity
  /\ queue' = Append(queue, c.event)
  /\ suspended' = suspended \ {c}
  /\ turn' = c.rest
  /\ UNCHANGED <<registry, capacity, stored, stalled, nextEid>>

\* The recorder's task appends the oldest event on its queue to the store.
Record ==
  /\ turn = <<>>
  /\ queue # <<>>
  /\ stored' = stored \cup ({Head(queue)} \ {Other})
  /\ queue' = Tail(queue)
  /\ UNCHANGED <<registry, capacity, turn, suspended, stalled, nextEid>>

-----------------------------------------------------------------------------

\* _lifecycle_event: is this transition announced by an event of its own?
Announced(from, to) ==
  \/ to \in EndStates
  \/ to = "running" /\ from \in {"discovered", "starting"}

\* What an IllegalTransitionError leaves of a handler: every caller swallows
\* it, skips the rest, and a watch whose last step is to return still returns.
AfterRaise(steps) ==
  IF steps # <<>> /\ steps[Len(steps)].do = "return" THEN <<steps[Len(steps)]>> ELSE <<>>

\* Defect: the transition is applied although the state machine rejects it.
ObserveStateAnyway ==
  /\ Doing("observe")
  /\ LET s == Head(turn).sid
         to == Head(turn).to
     IN state' = [state EXCEPT ![s] = to]
        /\ Publish(Fact("state_changed", s, state[s], to), Tail(turn))
  /\ UNCHANGED <<native, byNative, stored>>

\* Defect: a rejected transition is reported and takes effect in memory.
ObserveStateLeaks ==
  /\ Doing("observe")
  /\ LET s == Head(turn).sid
         to == Head(turn).to
     IN /\ state' = [state EXCEPT ![s] = to]
        /\ \/ /\ to \in Legal[state[s]]
              /\ Publish(Fact("state_changed", s, state[s], to), Tail(turn))
           \/ to \notin Legal[state[s]] /\ Publish(Other, <<>>)
  /\ UNCHANGED <<native, byNative, stored>>

\* observe_state()
ObserveState ==
  /\ Doing("observe")
  /\ LET s == Head(turn).sid
         to == Head(turn).to
         from == state[s]
     IN \/ /\ to = from
           /\ turn' = Tail(turn)
           /\ UNCHANGED <<state, capacity, suspended, queue, stalled, nextEid>>
        \/ /\ to # from
           /\ to \notin Legal[from]
           /\ Publish(Other, AfterRaise(Tail(turn)))
           /\ UNCHANGED state
        \/ /\ to # from
           /\ to \in Legal[from]
           /\ state' = [state EXCEPT ![s] = to]
           /\ Publish(Fact("state_changed", s, from, to),
                      IF Announced(from, to) THEN <<Announce(s)>> \o Tail(turn)
                                             ELSE Tail(turn))
  /\ UNCHANGED <<native, byNative, stored>>

\* The lifecycle event, created when the first publish has returned.
PublishLifecycle ==
  /\ Doing("announce")
  /\ Publish(Other, Tail(turn))
  /\ UNCHANGED <<registry, stored>>

\* Defect: discovery's hint is applied to a parked session too.
ApplyHintParked ==
  /\ Doing("hint")
  /\ turn' = IF Head(turn).to \in Legal[state[Head(turn).sid]]
               THEN <<Observe(Head(turn).sid, Head(turn).to, "discovery")>> \o Tail(turn)
               ELSE Tail(turn)
  /\ UNCHANGED <<registry, capacity, suspended, queue, stored, stalled, nextEid>>

\* upsert_discovered() of a known session, second half: a weak signal, ignored
\* when the session is parked or the state machine rejects it.
ApplyHint ==
  /\ Doing("hint")
  /\ LET s == Head(turn).sid
         to == Head(turn).to
         heeded == state[s] # "waiting_on_user" /\ to \in Legal[state[s]]
     IN turn' = IF heeded THEN <<Observe(s, to, "discovery")>> \o Tail(turn)
                          ELSE Tail(turn)
  /\ UNCHANGED <<registry, capacity, suspended, queue, stored, stalled, nextEid>>

\* upsert_discovered() of a known session, first half; `refreshed` when a
\* descriptive field differs.
UpsertKnown(n, hint, refreshed, rest) ==
  /\ byNative[n] # None
  /\ LET s == byNative[n]
         next == <<Hint(s, hint)>> \o rest
     IN \/ refreshed /\ Publish(Other, next)
        \/ ~refreshed /\ turn' = next /\ UNCHANGED <<capacity, suspended, queue, stalled, nextEid>>
  /\ UNCHANGED <<registry, stored>>

\* upsert_discovered() on first sight.
UpsertNew(n, s, hint, rest) ==
  /\ byNative[n] = None
  /\ native[s] = None
  /\ native' = [native EXCEPT ![s] = n]
  /\ state' = [state EXCEPT ![s] = "discovered"]
  /\ byNative' = [byNative EXCEPT ![n] = s]
  /\ Publish(Fact("discovered", s, "unknown", "discovered"),
             <<Observe(s, hint, "discovered")>> \o rest)
  /\ UNCHANGED stored

\* refresh_model(), refresh_permission_mode()
Refresh(s) ==
  /\ Free
  /\ state[s] # "unknown"
  /\ Publish(Other, <<>>)
  /\ UNCHANGED <<registry, stored>>

\* Defect: the native index is not rebuilt.
RebuildRegistryNoIndex ==
  /\ state' = [s \in Sids |-> FoldState(s, stored)]
  /\ byNative' = [n \in Natives |-> None]
  /\ turn' = <<>>
  /\ suspended' = {}
  /\ queue' = <<>>
  /\ UNCHANGED <<native, capacity, stored, stalled, nextEid>>

\* The process is lost with its queue and its suspended handlers; the next
\* one rebuilds the catalogue from the store before it starts anything else.
RebuildRegistry ==
  /\ state' = [s \in Sids |-> FoldState(s, stored)]
  /\ byNative' = [n \in Natives |-> FoldNative(n, stored)]
  /\ turn' = <<>>
  /\ suspended' = {}
  /\ queue' = <<>>
  /\ UNCHANGED <<native, capacity, stored, stalled, nextEid>>

RegistryInit ==
  /\ native = [s \in Sids |-> None]
  /\ state = [s \in Sids |-> "unknown"]
  /\ byNative = [n \in Natives |-> None]
  /\ turn = <<>>
  /\ suspended = {}
  /\ capacity \in Capacities
  /\ queue = <<>>
  /\ stored = {}
  /\ stalled = FALSE
  /\ nextEid = 0

=============================================================================
