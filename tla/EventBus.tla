------------------------------ MODULE EventBus ------------------------------
(***************************************************************************)
(* The in-process event bus (src/src/prodeo/bus/inproc.py), the recorder   *)
(* that makes events durable (persistence/recorder.py) and one WebSocket   *)
(* stream (api/app.py, event_stream): a blocking and a dropping            *)
(* subscription to the same events.                                        *)
(*                                                                         *)
(* Events are numbered in the order of their ids.  The recorder subscribes *)
(* first and alone can make a publisher wait, so a publish() is one step,  *)
(* or two when the recorder's queue is full.                               *)
(***************************************************************************)
EXTENDS Naturals, Sequences, FiniteSets, SequencesExt

CONSTANTS
  MaxEvents,  \* bound: events published
  QueueSize,  \* maxsize of the recorder's queue (1024 in the code)
  InboxSize,  \* maxsize of the stream's queue (1024 in the code)
  PageSize    \* events per page of the replay (500 in the code)

VARIABLES
  created,    \* events created so far
  putting,    \* publish() calls waiting for room: the event, and whether
              \* this connection was subscribed when the call began
  queue,      \* the recorder's queue
  writing,    \* the event the recorder is appending, or None
  store,      \* events in SQLite
  recorder,   \* "up" | "closing" (stop() waits for room) | "draining" | "stopped"
  settled,    \* events whose publish() had returned when recorder.stop() began
  stalled,    \* has a publish() ever waited?
  stream,     \* the handler of the client's connection
  sent,       \* what the client was sent on this connection
  history,    \* the store when the stream subscribed
  dropped     \* did this connection's queue drop an event?

recording == <<queue, writing, store, recorder, settled>>
streaming == <<stream, sent, history, dropped>>
vars == <<created, putting, stalled, recording, streaming>>

BusBounds ==
  /\ MaxEvents \in Nat
  /\ {QueueSize, InboxSize, PageSize} \subseteq Nat \ {0}

None == 0
Close == MaxEvents + 1 \* the _CLOSE marker in a queue
Event == 1 .. MaxEvents

NoStream == [at |-> "off", cursor |-> None, last |-> 0, page |-> {}, inbox |-> <<>>]
Subscribed == stream.at \in {"replay", "live"}

Init ==
  /\ created = 0
  /\ putting = {}
  /\ queue = <<>>
  /\ writing = None
  /\ store = {}
  /\ recorder = "up"
  /\ settled = {}
  /\ stalled = FALSE
  /\ stream = NoStream
  /\ sent = <<>>
  /\ history = {}
  /\ dropped = FALSE

-----------------------------------------------------------------------------
(* Publishing *)

HasRoom == Len(queue) < QueueSize

\* Defect: a slow client's queue grows.
FanUnbounded(e, subscribed) ==
  IF ~subscribed \/ ~Subscribed THEN UNCHANGED <<stream, dropped>>
  ELSE stream' = [stream EXCEPT !.inbox = Append(@, e)] /\ UNCHANGED dropped

\* _deliver() to the stream: DROP_OLDEST, or nothing when it has closed.
Fan(e, subscribed) ==
  IF ~subscribed \/ ~Subscribed THEN UNCHANGED <<stream, dropped>>
  ELSE LET full == Len(stream.inbox) = InboxSize
       IN /\ stream' = [stream EXCEPT !.inbox = Append(IF full THEN Tail(@) ELSE @, e)]
          /\ dropped' = (dropped \/ full)

\* publish() of a new event.  A recorder that is stopping has left the bus.
Publish ==
  LET e == created + 1
  IN /\ created < MaxEvents
     /\ recorder # "stopped"
     /\ created' = e
     /\ \/ /\ recorder = "up" => HasRoom
           /\ queue' = IF recorder = "up" THEN Append(queue, e) ELSE queue
           /\ Fan(e, TRUE)
           /\ UNCHANGED <<putting, stalled>>
        \/ /\ recorder = "up" /\ ~HasRoom
           /\ putting' = putting \cup {[event |-> e, subscribed |-> Subscribed]}
           /\ stalled' = TRUE
           /\ UNCHANGED <<queue, stream, dropped>>
     /\ UNCHANGED <<writing, store, recorder, settled, sent, history>>

\* A waiting publish() finds room, in any order, and goes on to the
\* subscribers it had at its start.
PutResumes ==
  \E p \in putting :
    /\ HasRoom
    /\ queue' = Append(queue, p.event)
    /\ putting' = putting \ {p}
    /\ Fan(p.event, p.subscribed)
    /\ UNCHANGED <<created, stalled, writing, store, recorder, settled, sent, history>>

-----------------------------------------------------------------------------
(* The recorder *)

Take ==
  /\ writing = None
  /\ queue # <<>>
  /\ recorder # "stopped"
  /\ queue' = Tail(queue)
  /\ IF Head(queue) = Close
       THEN recorder' = "stopped" /\ UNCHANGED writing
       ELSE writing' = Head(queue) /\ UNCHANGED recorder
  /\ UNCHANGED <<created, putting, stalled, store, settled, streaming>>

Stored ==
  /\ writing # None
  /\ store' = store \cup {writing}
  /\ writing' = None
  /\ UNCHANGED <<created, putting, stalled, queue, recorder, settled, streaming>>

Settled == 1 .. created \ {p.event : p \in putting}

\* Defect: stop() cancels the task that drains the queue.
StopAtOnce ==
  /\ recorder = "up"
  /\ settled' = Settled
  /\ recorder' = "stopped"
  /\ UNCHANGED <<created, putting, stalled, queue, writing, store, streaming>>

\* stop(): the subscription leaves the bus; its marker may have to wait.
Stop ==
  /\ recorder = "up"
  /\ settled' = Settled
  /\ IF HasRoom
       THEN recorder' = "draining" /\ queue' = Append(queue, Close)
       ELSE recorder' = "closing" /\ UNCHANGED queue
  /\ UNCHANGED <<created, putting, stalled, writing, store, streaming>>

MarkerQueued ==
  /\ recorder = "closing"
  /\ HasRoom
  /\ queue' = Append(queue, Close)
  /\ recorder' = "draining"
  /\ UNCHANGED <<created, putting, stalled, writing, store, settled, streaming>>

-----------------------------------------------------------------------------
(* The stream *)

\* event_stream(): subscribe, then replay from the cursor if there is one.
Connect ==
  \E cursor \in 0 .. created, resume \in BOOLEAN :
    /\ stream.at = "off"
    /\ recorder = "up"
    /\ ~resume => cursor = 0
    /\ stream' = [NoStream EXCEPT !.at = IF resume THEN "replay" ELSE "live",
                                  !.cursor = IF resume THEN cursor ELSE created,
                                  !.last = cursor]
    /\ sent' = <<>>
    /\ history' = store
    /\ dropped' = FALSE
    /\ UNCHANGED <<created, putting, stalled, recording>>

\* store.query(): the events after the cursor, as many as a page takes.
Page ==
  LET after == {e \in store : e > stream.last}
  IN {e \in after : Cardinality({f \in after : f < e}) < PageSize}

\* The loop of pump() over the pages, until one is empty.
ReadPage ==
  /\ stream.at = "replay"
  /\ stream.page = {}
  /\ stream' = IF Page = {} THEN [stream EXCEPT !.at = "live"]
                            ELSE [stream EXCEPT !.page = Page]
  /\ UNCHANGED <<created, putting, stalled, recording, sent, history, dropped>>

\* Defect: one page is taken for all there is.
ReplayOnce ==
  \E e \in stream.page :
    /\ \A f \in stream.page : e <= f
    /\ stream' = [stream EXCEPT !.page = @ \ {e}, !.last = e,
                                !.at = IF stream.page = {e} THEN "live" ELSE @]
    /\ sent' = Append(sent, e)
    /\ UNCHANGED <<created, putting, stalled, recording, history, dropped>>

\* The loop of pump() over a page, in id order; nothing reads `last` before
\* its end.
Replay ==
  \E e \in stream.page :
    /\ \A f \in stream.page : e <= f
    /\ stream' = [stream EXCEPT !.page = @ \ {e}, !.last = e]
    /\ sent' = Append(sent, e)
    /\ UNCHANGED <<created, putting, stalled, recording, history, dropped>>

\* Defect: the overlap of replay and queue is sent twice.
LiveTwice ==
  /\ stream.at = "live"
  /\ stream.inbox # <<>>
  /\ stream' = [stream EXCEPT !.inbox = Tail(@)]
  /\ sent' = Append(sent, Head(stream.inbox))
  /\ UNCHANGED <<created, putting, stalled, recording, history, dropped>>

\* The loop of pump() over the subscription; `last` does not move any more.
Live ==
  /\ stream.at = "live"
  /\ stream.inbox # <<>>
  /\ stream' = [stream EXCEPT !.inbox = Tail(@)]
  /\ sent' = IF Head(stream.inbox) > stream.last THEN Append(sent, Head(stream.inbox)) ELSE sent
  /\ UNCHANGED <<created, putting, stalled, recording, history, dropped>>

\* The client goes away: the pump is cancelled, the subscription closed, for
\* the publishers too that still have it before them.  The marker goes into a
\* queue nobody reads now: without room it waits for ever.
Disconnect ==
  /\ Subscribed
  /\ IF Len(stream.inbox) < InboxSize
       THEN stream' = NoStream
       ELSE stream' = [stream EXCEPT !.at = "closing", !.page = {}]
  /\ putting' = {[p EXCEPT !.subscribed = FALSE] : p \in putting}
  /\ sent' = <<>>
  /\ history' = {}
  /\ dropped' = FALSE
  /\ UNCHANGED <<created, stalled, recording>>

-----------------------------------------------------------------------------

Next ==
  \/ Publish \/ PutResumes
  \/ Take \/ Stored \/ Stop \/ MarkerQueued
  \/ Connect \/ ReadPage \/ Replay \/ Live \/ Disconnect

Spec == Init /\ [][Next]_vars

-----------------------------------------------------------------------------

\* Type invariant of the queues, the recorder and the stream.
TypeOK ==
  /\ created \in 0 .. MaxEvents
  /\ putting \subseteq [event : Event, subscribed : BOOLEAN]
  /\ queue \in Seq(Event \cup {Close}) /\ Len(queue) <= QueueSize
  /\ writing \in Event \cup {None}
  /\ store \subseteq Event
  /\ settled \subseteq Event
  /\ history \subseteq Event
  /\ recorder \in {"up", "closing", "draining", "stopped"}
  /\ stalled \in BOOLEAN /\ dropped \in BOOLEAN
  /\ stream \in [at : {"off", "replay", "live", "closing"}, cursor : 0 .. MaxEvents,
                 last : 0 .. MaxEvents, page : SUBSET Event, inbox : Seq(Event)]
  /\ Len(stream.inbox) <= InboxSize
  /\ sent \in Seq(Event)

\* "At-least-once" (recorder.py:4): when the recorder has stopped, every event
\* whose publish() had returned before is stored, however full the queue was
\* and whoever was waiting for it.
KeptAtStop == recorder = "stopped" => settled \subseteq store

\* "The ULID cursor deduplicates the overlap" (app.py:1239): no event reaches
\* a client twice on one connection, none from before its cursor, and in the
\* order of their ids unless a publisher ever had to wait.
StreamInOrder ==
  /\ IsInjective(sent)
  /\ \A e \in ToSet(sent) : e > stream.cursor
  /\ stalled \/ \A i, j \in DOMAIN sent : i < j => sent[i] < sent[j]

\* When the stream goes live, all that was stored when it subscribed has been
\* sent, over as many pages as it takes.
HistoryReplayed ==
  stream.at = "live" => \A e \in history : e > stream.cursor => e \in ToSet(sent)

=============================================================================
