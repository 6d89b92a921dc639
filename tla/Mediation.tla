------------------------------ MODULE Mediation ------------------------------
(***************************************************************************)
(* The Mediation Service (src/src/prodeo/mediation/service.py): the        *)
(* life of an interaction, "an agent is blocked on a human", from open to  *)
(* its resolution by an answer, a timeout or a cancellation, across        *)
(* crashes and restarts of the server.                                     *)
(*                                                                         *)
(* The service runs on one event loop.  A handler is a synchronous prefix  *)
(* that changes the catalogue, then `await bus.publish(...)`, then, for an *)
(* answer or an expired permission, `await deliver(...)`.  Each prefix is  *)
(* one action here; the rest of the handler is a record of `calls` that    *)
(* any other handler may overtake.  publish() really suspends only while   *)
(* the recorder's queue is full (bus/inproc.py:38-43), so the              *)
(* interleavings at the publish are those of a server under backpressure.  *)
(*                                                                         *)
(* Events reach the log in two steps: publish() puts them on the           *)
(* recorder's queue, the recorder's task appends them to the store.  The   *)
(* store is read back ordered by event id, so the order of appends is      *)
(* immaterial and the queue is a set.                                      *)
(***************************************************************************)
EXTENDS Naturals, FiniteSets

CONSTANTS
  Keys,        \* adapter-native identities: pairs (adapter, native id)
  Ids,         \* interaction ids (ULIDs), each drawn at most once
  Callbacks,   \* deliver closures an adapter may register
  None,        \* Python's None
  MaxRestarts, \* bound: crashes and shutdowns in a behaviour
  MaxDrops     \* bound: appends the recorder fails to make

ASSUME NoneIsNoValue ==
  /\ None \notin Keys
  /\ None \notin Ids
  /\ None \notin Callbacks

ASSUME BoundsAreNat == MaxRestarts \in Nat /\ MaxDrops \in Nat

Kinds == {"permission", "question"}
Resolutions == {"answered", "timed_out", "cancelled"}

\* The part of an InteractionRequest that mediation's control depends on.
Requests == [key: Keys, kind: Kinds, timed: BOOLEAN]

ASSUME NoneIsNoRequest == None \notin Requests

Events == [eid: Nat, type: {"requested"} \cup Resolutions, id: Ids]

VARIABLES
  phase,      \* "rebuilding" | "running" | "closing" | "down"
  request,    \* id -> what it asks, or None while the id is not drawn; a
              \*   constant of the interaction, carried by its first event
  status,     \* _by_id: id -> status, "unknown" when not in the catalogue
  pendingBy,  \* _pending_by_native: key -> id or None
  deliver,    \* _deliver: id -> callback or None
  timers,     \* _timeouts: ids with a sleeping timeout task
  calls,      \* handlers suspended in publish() or in deliver()
  queued,     \* events on the recorder's queue
  stored,     \* events in the event store
  dropped,    \* events whose append raised, since the last boot
  heard,      \* deliveries made to blocked agents (the world outside)
  nextEid,    \* next event id
  restarts    \* crashes and shutdowns so far

vars == <<phase, request, status, pendingBy, deliver, timers, calls, queued,
          stored, dropped, heard, nextEid, restarts>>

catalogue == <<status, pendingBy, deliver, timers>>

-----------------------------------------------------------------------------

(***************************************************************************)
(* The fold of the log.  An interaction whose `requested` event is not in  *)
(* the log is unknown, whatever else is there (mediation.orphan_event).    *)
(***************************************************************************)

ResolutionsOf(i, log) == {e \in log : e.id = i /\ e.type \in Resolutions}

Requested(i, log) == \E e \in log : e.id = i /\ e.type = "requested"

\* The last of some resolutions, in event-id order.
Outcome(resolutions) ==
  (CHOOSE e \in resolutions : \A f \in resolutions : f.eid <= e.eid).type

\* Defect: the type of the last event is taken for the status.
FoldStatusRaw(i, log) ==
  IF \A e \in log : e.id # i THEN "unknown"
  ELSE (CHOOSE e \in log :
          e.id = i /\ \A f \in log : f.id = i => f.eid <= e.eid).type

\* Defect: the fold has no branch for interaction.timed_out.
FoldStatusNoTimeout(i, log) ==
  IF ~Requested(i, log) THEN "unknown"
  ELSE IF \A e \in ResolutionsOf(i, log) : e.type = "timed_out" THEN "pending"
  ELSE (CHOOSE e \in ResolutionsOf(i, log) : e.type # "timed_out").type

\* _apply over every event of one interaction, in event-id order.
FoldStatus(i, log) ==
  IF ~Requested(i, log) THEN "unknown"
  ELSE IF ResolutionsOf(i, log) = {} THEN "pending"
  ELSE Outcome(ResolutionsOf(i, log))

\* The events of the interactions on key k that the fold applies.
OnKey(k, log) == {e \in log : request[e.id].key = k /\ Requested(e.id, log)}

\* _apply keeps the native key of the last request on it, and a later
\* resolution of any interaction on the key removes it.
LastRequestOn(k, log) ==
  {e \in OnKey(k, log) :
     e.type = "requested" /\ \A f \in OnKey(k, log) : f.eid <= e.eid}

FoldPending(k, log) ==
  IF LastRequestOn(k, log) = {} THEN None
  ELSE (CHOOSE e \in LastRequestOn(k, log) : TRUE).id

\* Events this process has created and not lost to a crash.
InFlight == {c.event : c \in {d \in calls : d.at = "publish"}} \cup queued
Published == InFlight \cup stored \cup dropped

-----------------------------------------------------------------------------

Init ==
  /\ phase = "running"
  /\ request = [i \in Ids |-> None]
  /\ status = [i \in Ids |-> "unknown"]
  /\ pendingBy = [k \in Keys |-> None]
  /\ deliver = [i \in Ids |-> None]
  /\ timers = {}
  /\ calls = {}
  /\ queued = {}
  /\ stored = {}
  /\ dropped = {}
  /\ heard = {}
  /\ nextEid = 0
  /\ restarts = 0

\* Create an event and suspend in `await bus.publish(event)`; `to` is the
\* callback awaited afterwards, None when the handler ends with the publish.
Publish(type, i, to) ==
  /\ calls' = calls \cup
       {[event |-> [eid |-> nextEid, type |-> type, id |-> i],
         to |-> to, at |-> "publish"]}
  /\ nextEid' = nextEid + 1

\* Defect: the bookkeeping leaves the native key behind.
ResolveKeepsKey(i, outcome, to) ==
  /\ status' = [status EXCEPT ![i] = outcome]
  /\ deliver' = [deliver EXCEPT ![i] = None]
  /\ timers' = timers \ {i}
  /\ Publish(outcome, i, to)
  /\ UNCHANGED <<request, pendingBy, queued, stored, dropped, heard, restarts>>

\* The synchronous flip of answer(), _cancel() and _timeout(), with
\* _resolve_bookkeeping(): status first, then the pending key, the timeout
\* task and the callback, with no await before the publish.
Resolve(i, outcome, to) ==
  /\ status' = [status EXCEPT ![i] = outcome]
  /\ pendingBy' = [pendingBy EXCEPT ![request[i].key] = None]
  /\ deliver' = [deliver EXCEPT ![i] = None]
  /\ timers' = timers \ {i}
  /\ Publish(outcome, i, to)
  /\ UNCHANGED <<request, queued, stored, dropped, heard, restarts>>

\* Defect: no timeout task is created.
OpenUntimed(k, i, kind, timed, cb) ==
  /\ phase = "running"
  /\ pendingBy[k] = None
  /\ request[i] = None
  /\ request' = [request EXCEPT ![i] = [key |-> k, kind |-> kind, timed |-> timed]]
  /\ status' = [status EXCEPT ![i] = "pending"]
  /\ pendingBy' = [pendingBy EXCEPT ![k] = i]
  /\ deliver' = [deliver EXCEPT ![i] = cb]
  /\ Publish("requested", i, None)
  /\ UNCHANGED <<phase, timers, queued, stored, dropped, heard, restarts>>

\* open() of a native identity that has no pending interaction.
Open(k, i, kind, timed, cb) ==
  /\ phase = "running"
  /\ pendingBy[k] = None
  /\ request[i] = None
  /\ request' = [request EXCEPT ![i] = [key |-> k, kind |-> kind, timed |-> timed]]
  /\ status' = [status EXCEPT ![i] = "pending"]
  /\ pendingBy' = [pendingBy EXCEPT ![k] = i]
  /\ deliver' = [deliver EXCEPT ![i] = cb]
  /\ timers' = IF timed THEN timers \cup {i} ELSE timers
  /\ Publish("requested", i, None)
  /\ UNCHANGED <<phase, queued, stored, dropped, heard, restarts>>

\* open() of an identity still pending: the callback is refreshed, nothing
\* is published (the adapter restarted its watch).
Reopen(k, cb) ==
  /\ phase = "running"
  /\ pendingBy[k] # None
  /\ deliver' = [deliver EXCEPT ![pendingBy[k]] = cb]
  /\ UNCHANGED <<phase, request, status, pendingBy, timers, calls, queued,
                 stored, dropped, heard, nextEid, restarts>>

\* Defect: answer() does not look at the status.
AnswerUnchecked(i) ==
  /\ phase = "running"
  /\ status[i] # "unknown"
  /\ Resolve(i, "answered", deliver[i])
  /\ UNCHANGED phase

\* answer(): an unknown or resolved interaction is refused with no effect.
Answer(i) ==
  /\ phase = "running"
  /\ status[i] = "pending"
  /\ Resolve(i, "answered", deliver[i])
  /\ UNCHANGED phase

\* cancel_native(): the adapter withdrew the request.
CancelNative(k) ==
  /\ phase = "running"
  /\ pendingBy[k] # None
  /\ Resolve(pendingBy[k], "cancelled", None)
  /\ UNCHANGED phase

\* _timeout() after its sleep.  Only an expired permission is delivered, as
\* an automatic denial.
Timeout(i) ==
  /\ phase = "running"
  /\ i \in timers
  /\ status[i] = "pending"
  /\ Resolve(i, "timed_out",
             IF request[i].kind = "permission" THEN deliver[i] ELSE None)
  /\ UNCHANGED phase

-----------------------------------------------------------------------------

\* publish() returns: the event is on the recorder's queue.
PublishReturns(c) ==
  /\ c \in calls
  /\ c.at = "publish"
  /\ queued' = queued \cup {c.event}
  /\ calls' = (calls \ {c}) \cup
       (IF c.to = None THEN {} ELSE {[c EXCEPT !.at = "deliver"]})
  /\ UNCHANGED <<phase, request, catalogue, stored, dropped, heard, nextEid, restarts>>

\* deliver() reaches the blocked agent.
Deliver(c) ==
  /\ c \in calls
  /\ c.at = "deliver"
  /\ heard' = heard \cup {[event |-> c.event, by |-> c.to]}
  /\ calls' = calls \ {c}
  /\ UNCHANGED <<phase, request, catalogue, queued, stored, dropped, nextEid, restarts>>

\* deliver() raises: logged and contained, never rolled back.
DeliverFails(c) ==
  /\ c \in calls
  /\ c.at = "deliver"
  /\ calls' = calls \ {c}
  /\ UNCHANGED <<phase, request, catalogue, queued, stored, dropped, heard,
                 nextEid, restarts>>

\* Defect: an event leaves the queue and is never written.
AppendSwallowed(e) ==
  /\ e \in queued
  /\ queued' = queued \ {e}
  /\ UNCHANGED <<phase, request, catalogue, calls, stored, dropped, heard, nextEid, restarts>>

\* The recorder appends an event.
Append(e) ==
  /\ e \in queued
  /\ queued' = queued \ {e}
  /\ stored' = stored \cup {e}
  /\ UNCHANGED <<phase, request, catalogue, calls, dropped, heard, nextEid, restarts>>

\* The append raises: recorder.append_failed is logged, the event is gone.
AppendFails(e) ==
  /\ e \in queued
  /\ Cardinality(dropped) < MaxDrops
  /\ queued' = queued \ {e}
  /\ dropped' = dropped \cup {e}
  /\ UNCHANGED <<phase, request, catalogue, calls, stored, heard, nextEid, restarts>>

-----------------------------------------------------------------------------

\* The process and everything in its memory is gone.
Die ==
  /\ phase' = "down"
  /\ status' = [i \in Ids |-> "unknown"]
  /\ pendingBy' = [k \in Keys |-> None]
  /\ deliver' = [i \in Ids |-> None]
  /\ timers' = {}
  /\ calls' = {}
  /\ queued' = {}
  /\ dropped' = {}
  /\ UNCHANGED <<request, stored, heard, nextEid>>

Crash ==
  /\ phase # "down"
  /\ restarts < MaxRestarts
  /\ restarts' = restarts + 1
  /\ Die

\* Defect: the shutdown withdraws what is pending without saying so.
CloseSilently ==
  /\ phase = "running"
  /\ restarts < MaxRestarts
  /\ restarts' = restarts + 1
  /\ phase' = "closing"
  /\ timers' = {}
  /\ status' = [i \in Ids |-> IF status[i] = "pending" THEN "cancelled" ELSE status[i]]
  /\ UNCHANGED <<request, pendingBy, deliver, calls, queued, stored, dropped, heard, nextEid>>

\* close(), from Server.stop(): the API and the adapters are already stopped;
\* timeout tasks are cancelled and pending interactions are left pending.
Close ==
  /\ phase = "running"
  /\ restarts < MaxRestarts
  /\ restarts' = restarts + 1
  /\ phase' = "closing"
  /\ timers' = {}
  /\ UNCHANGED <<request, status, pendingBy, deliver, calls, queued, stored,
                 dropped, heard, nextEid>>

\* recorder.stop() returns once its queue is drained, then the process ends.
\* A handler still suspended in its publish ends with it.
Exit ==
  /\ phase = "closing"
  /\ queued = {}
  /\ Die
  /\ UNCHANGED restarts

\* rebuild(), first half: fold the interaction.* log into an empty catalogue.
Rebuild ==
  /\ phase = "down"
  /\ phase' = "rebuilding"
  /\ status' = [i \in Ids |-> FoldStatus(i, stored)]
  /\ pendingBy' = [k \in Keys |-> FoldPending(k, stored)]
  /\ UNCHANGED <<request, deliver, timers, calls, queued, stored, dropped,
                 heard, nextEid, restarts>>

\* rebuild(), second half: cancel the orphans one after the other, each
\* publish awaited before the next.
CancelOrphan(i) ==
  /\ phase = "rebuilding"
  /\ calls = {}
  /\ status[i] = "pending"
  /\ Resolve(i, "cancelled", None)
  /\ UNCHANGED phase

\* Defect: interactions pending in the log are resurrected (the alternative
\* ADR-0007 rejects).
RebuildResurrects ==
  /\ phase = "rebuilding"
  /\ calls = {}
  /\ phase' = "running"
  /\ UNCHANGED <<request, catalogue, calls, queued, stored, dropped, heard,
                 nextEid, restarts>>

\* rebuild() returns; the API and the adapters start after it.
RebuildDone ==
  /\ phase = "rebuilding"
  /\ calls = {}
  /\ \A i \in Ids : status[i] # "pending"
  /\ phase' = "running"
  /\ UNCHANGED <<request, catalogue, calls, queued, stored, dropped, heard,
                 nextEid, restarts>>

-----------------------------------------------------------------------------

Next ==
  \/ \E k \in Keys, i \in Ids, kind \in Kinds, timed \in BOOLEAN, cb \in Callbacks :
       Open(k, i, kind, timed, cb)
  \/ \E k \in Keys, cb \in Callbacks : Reopen(k, cb)
  \/ \E k \in Keys : CancelNative(k)
  \/ \E i \in Ids : Answer(i) \/ Timeout(i) \/ CancelOrphan(i)
  \/ \E c \in calls : PublishReturns(c) \/ Deliver(c) \/ DeliverFails(c)
  \/ \E e \in queued : Append(e) \/ AppendFails(e)
  \/ Crash
  \/ Close
  \/ Exit
  \/ Rebuild
  \/ RebuildDone

Spec == Init /\ [][Next]_vars

\* The event loop runs every ready task; a sleep ends; the recorder's task
\* runs; a stopped server is started again.  Nothing makes a human answer, an
\* adapter open or withdraw a request, or the process crash or stop.
Fairness ==
  /\ \A i \in Ids : WF_vars(Timeout(i)) /\ WF_vars(CancelOrphan(i))
  /\ WF_vars(\E c \in calls : PublishReturns(c))
  /\ WF_vars(\E c \in calls : Deliver(c) \/ DeliverFails(c))
  /\ WF_vars(\E e \in queued : Append(e))
  /\ WF_vars(Exit)
  /\ WF_vars(Rebuild)
  /\ WF_vars(RebuildDone)

FairSpec == Spec /\ Fairness

-----------------------------------------------------------------------------

Calls ==
  [event: Events, to: Callbacks \cup {None}, at: {"publish"}]
    \cup [event: Events, to: Callbacks, at: {"deliver"}]

\* Type invariant of the catalogue, the suspended handlers and the log.
TypeOK ==
  /\ phase \in {"rebuilding", "running", "closing", "down"}
  /\ request \in [Ids -> Requests \cup {None}]
  /\ status \in [Ids -> {"unknown", "pending"} \cup Resolutions]
  /\ pendingBy \in [Keys -> Ids \cup {None}]
  /\ deliver \in [Ids -> Callbacks \cup {None}]
  /\ timers \subseteq Ids
  /\ calls \subseteq Calls
  /\ queued \subseteq Events
  /\ stored \subseteq Events
  /\ dropped \subseteq Events
  /\ heard \subseteq [event: Events, by: Callbacks]
  /\ nextEid \in Nat
  /\ restarts \in Nat

\* Exactly-once resolution: whatever handlers race for an interaction, and
\* however often the server restarts, at most one resolution of it is ever
\* published (event-model.md:60, "exactly one resolution per interaction").
OneResolution ==
  \A e, f \in Published :
    (e.id = f.id /\ e.type \in Resolutions /\ f.type \in Resolutions) => e = f

\* A blocked agent is answered at most once per interaction: no second
\* delivery, not after a timeout raced an answer and not after a restart.
HeardOnce ==
  \A g, h \in heard : g.event.id = h.event.id => g = h

\* The catalogue is the fold of the events the running process has created
\* or read back: an interaction has in memory the status that a rebuild from
\* the same events would give it, so a restart loses only what was not yet
\* appended.
MemoryIsFoldOfLog ==
  phase \in {"running", "closing", "rebuilding"} =>
    \A i \in Ids : status[i] = FoldStatus(i, Published)

\* The inbox and its index agree, and the inbox never shows an unanswerable
\* zombie (ADR-0007): once the server accepts answers, an interaction is
\* pending exactly when its native key maps to it, and then it has a
\* callback to deliver the answer through, and a timer if it was to expire.
NoZombies ==
  phase = "running" =>
    \A i \in Ids :
      /\ status[i] = "pending" <=> \E k \in Keys : pendingBy[k] = i
      /\ status[i] = "pending" =>
           /\ pendingBy[request[i].key] = i
           /\ deliver[i] # None
           /\ i \in timers <=> request[i].timed

\* Every request with a timeout that reached the log is resolved there: by an
\* answer, the timeout, a withdrawal, or the restart that orphaned it; unless
\* the recorder itself failed to append the resolution.
TimedRequestsResolve ==
  \A i \in Ids :
    (Requested(i, stored) /\ request[i] # None /\ request[i].timed)
      ~> (ResolutionsOf(i, stored \cup dropped) # {})

\* An answer the server accepted is handed to the adapter and appended to the
\* log (or its append fails), unless the process that accepted it goes down.
AcceptedAnswersLand ==
  \A i \in Ids :
    (\E c \in calls : c.event.id = i /\ c.event.type = "answered")
      ~> \/ /\ \E e \in stored \cup dropped : e.id = i /\ e.type = "answered"
            /\ ~\E c \in calls : c.event.id = i /\ c.event.type = "answered"
         \/ phase = "down"

\* "The answer is the durable fact: interaction.answered publishes before
\* delivery is attempted" (service.py:147): what an agent was told is never
\* contradicted by what the log says of the same interaction.
DeliveredAnswerIsDurable ==
  \A h \in heard : \A e \in ResolutionsOf(h.event.id, stored) : e = h.event

-----------------------------------------------------------------------------

\* What a reader of the log sees of an interaction.
FateOf(i, log) ==
  IF ResolutionsOf(i, log) # {} THEN Outcome(ResolutionsOf(i, log))
  ELSE IF Requested(i, log) THEN "pending" ELSE "absent"

fate == [i \in Ids |-> FateOf(i, stored)]

\* The refinement mapping: an interaction's fate is what the store tells of it.
Promise == INSTANCE InteractionOnce WITH Ids <- Ids, fate <- fate
ImplementsPromise == Promise!Spec

=============================================================================
