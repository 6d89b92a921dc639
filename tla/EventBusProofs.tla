---------------------------- MODULE EventBusProofs ----------------------------
(***************************************************************************)
(* Proofs about EventBus, for any number of events and any size of queues  *)
(* and pages: nothing settled is lost when the recorder is stopped, and a  *)
(* client is sent its history whole, and every event once and in order.    *)
(*                                                                         *)
(* KeptAtStop needs to know where an event is until it is stored, and that *)
(* whatever was settled at the stop is before the marker (Kept).  For the  *)
(* stream, an event a publisher still holds has reached nobody (Waiting),  *)
(* what the client's queue still holds is behind what it was sent (Ahead), *)
(* and a page leaves out nothing of the history (Whole).                   *)
(***************************************************************************)
EXTENDS EventBus, PositionLemmas

Increasing(s) == \A i, j \in DOMAIN s : i < j => s[i] < s[j]

Inbox == ToSet(stream.inbox)
Sent == ToSet(sent)
Queued == ToSet(queue) \ {Close}

-----------------------------------------------------------------------------
(* The recorder *)

\* Before the marker of a stopping recorder, or being written, or stored.
BeforeMarker(k) == {queue[j] : j \in 1 .. k - 1} \cup {writing} \cup store

\* Where the settled events are, at every stage of the recorder's life.
Kept ==
  /\ recorder \in {"up", "closing"} => Close \notin ToSet(queue)
  /\ recorder = "up" => Settled \subseteq ToSet(queue) \cup {writing} \cup store
  /\ recorder = "closing" => settled \subseteq ToSet(queue) \cup {writing} \cup store
  /\ recorder = "draining" =>
       \E k \in DOMAIN queue :
         /\ queue[k] = Close
         /\ \A j \in DOMAIN queue : queue[j] = Close => j = k
         /\ settled \subseteq BeforeMarker(k)
  /\ recorder = "stopped" => settled \subseteq store

-----------------------------------------------------------------------------
(* The stream *)

\* Whatever is anywhere was created.
Drawn ==
  /\ \A e \in Queued \cup ({writing} \ {None}) \cup store \cup Inbox \cup Sent : e <= created
  /\ stream.cursor <= created

\* An event that waits in publish() has reached nobody, and the connection it
\* will be given to is the one it was published on.
Waiting ==
  /\ ~stalled => putting = {}
  /\ \A p \in putting :
       /\ p.event <= created
       /\ p.event \notin Queued \cup {writing} \cup store \cup Inbox \cup Sent
       /\ p.subscribed => Subscribed /\ p.event > stream.cursor
  /\ \A p, q \in putting : p.event = q.event => p = q

\* What a replay still has to send comes after what it has sent.
Replaying ==
  /\ stream.page # {} => stream.at = "replay"
  /\ \A e \in stream.page : e > stream.last /\ e \in store
  /\ stream.at = "replay" => stream.cursor <= stream.last /\ \A e \in Sent : e <= stream.last

\* What the client's queue holds is new to the client, or will be skipped.
Ahead ==
  Subscribed =>
    /\ IsInjective(stream.inbox)
    /\ \A f \in Inbox : f > stream.cursor
    /\ \A f \in Inbox : f > stream.last => f \notin Sent
    /\ ~stalled => Increasing(stream.inbox)
    /\ ~stalled => \A e \in Sent, f \in Inbox : f > stream.last => e < f

\* A replay has sent its history so far, and a page has no gaps in it.
Whole ==
  /\ history \subseteq store
  /\ stream.at = "replay" =>
       \A h \in history : h > stream.cursor => h \in Sent \/ h > stream.last
  /\ \A h \in history, f \in stream.page : stream.last < h /\ h < f => h \in stream.page
  /\ HistoryReplayed

IInv ==
  TypeOK /\ Kept /\ Drawn /\ Waiting /\ Replaying /\ Ahead /\ StreamInOrder /\ Whole

-----------------------------------------------------------------------------
(* Sequences *)

LEMMA AppendOnce ==
  ASSUME NEW S, NEW s \in Seq(S), NEW e \in S
  PROVE  /\ Append(s, e) \in Seq(S)
         /\ Len(Append(s, e)) = Len(s) + 1
         /\ ToSet(Append(s, e)) = ToSet(s) \cup {e}
         /\ IsInjective(s) /\ e \notin ToSet(s) => IsInjective(Append(s, e))
         /\ Increasing(s) /\ (\A f \in ToSet(s) : f < e) => Increasing(Append(s, e))
<1> DEFINE t == Append(s, e)
<1>1. /\ t \in Seq(S) /\ Len(s) \in Nat /\ Len(t) = Len(s) + 1
      /\ DOMAIN s = 1 .. Len(s) /\ DOMAIN t = 1 .. Len(s) + 1
      /\ \A k \in DOMAIN s : t[k] = s[k]
      /\ t[Len(s) + 1] = e
  BY AfterAppend
<1>2. \A k \in DOMAIN t : k \in DOMAIN s \/ k = Len(s) + 1
  BY <1>1
<1> HIDE DEF t
<1>3. ToSet(t) = ToSet(s) \cup {e}
  BY <1>1, <1>2 DEF ToSet
<1>4. IsInjective(s) /\ e \notin ToSet(s) => IsInjective(t)
  BY <1>1, <1>2 DEF ToSet, IsInjective
<1>5. Increasing(s) /\ (\A f \in ToSet(s) : f < e) => Increasing(t)
  <2> SUFFICES ASSUME Increasing(s), \A f \in ToSet(s) : f < e,
                      NEW i \in DOMAIN t, NEW j \in DOMAIN t, i < j
               PROVE  t[i] < t[j]
    BY DEF Increasing
  <2>1. i \in DOMAIN s
    BY <1>1
  <2>2. CASE j \in DOMAIN s
    BY <1>1, <2>1, <2>2 DEF Increasing
  <2>3. CASE j = Len(s) + 1
    BY <1>1, <2>1, <2>3 DEF ToSet
  <2>4. QED
    BY <1>2, <2>2, <2>3
<1>6. QED
  BY <1>1, <1>3, <1>4, <1>5 DEF t

LEMMA TailOnce ==
  ASSUME NEW S, NEW s \in Seq(S), s # <<>>
  PROVE  /\ Tail(s) \in Seq(S)
         /\ Len(Tail(s)) = Len(s) - 1
         /\ Head(s) \in S /\ Head(s) = s[1]
         /\ ToSet(s) = {Head(s)} \cup ToSet(Tail(s))
         /\ IsInjective(s) => IsInjective(Tail(s)) /\ Head(s) \notin ToSet(Tail(s))
         /\ Increasing(s) => Increasing(Tail(s)) /\ \A f \in ToSet(Tail(s)) : Head(s) < f
<1> DEFINE t == Tail(s)
<1>1. /\ t \in Seq(S) /\ Len(s) \in Nat \ {0} /\ Len(t) = Len(s) - 1
      /\ Head(s) \in S /\ Head(s) = s[1]
      /\ DOMAIN s = 1 .. Len(s) /\ DOMAIN t = 1 .. Len(s) - 1
      /\ \A k \in DOMAIN t : t[k] = s[k + 1]
  BY AfterTail
<1>2. /\ 1 \in DOMAIN s
      /\ \A k \in DOMAIN t : k + 1 \in DOMAIN s /\ k + 1 # 1 /\ 1 < k + 1
      /\ \A k \in DOMAIN s : k = 1 \/ (k - 1 \in DOMAIN t /\ s[k] = t[k - 1])
  <2>1. ASSUME NEW k \in DOMAIN s, k # 1 PROVE k - 1 \in DOMAIN t /\ s[k] = t[k - 1]
    <3>1. k - 1 \in DOMAIN t /\ (k - 1) + 1 = k
      BY <1>1, <2>1
    <3>2. QED
      BY <1>1, <3>1
  <2>2. QED
    BY <1>1, <2>1
<1> HIDE DEF t
<1>3. ToSet(s) = {Head(s)} \cup ToSet(t)
  <2>1. ToSet(s) \subseteq {Head(s)} \cup ToSet(t)
    BY <1>1, <1>2 DEF ToSet
  <2>2. {Head(s)} \cup ToSet(t) \subseteq ToSet(s)
    BY <1>1, <1>2 DEF ToSet
  <2>3. QED
    BY <2>1, <2>2
<1>4. IsInjective(s) => IsInjective(t) /\ Head(s) \notin ToSet(t)
  <2> SUFFICES ASSUME IsInjective(s) PROVE IsInjective(t) /\ Head(s) \notin ToSet(t)
    OBVIOUS
  <2>1. ASSUME NEW i \in DOMAIN t, NEW j \in DOMAIN t, t[i] = t[j] PROVE i = j
    <3>1. i + 1 = j + 1
      BY <1>1, <1>2, <2>1 DEF IsInjective
    <3>2. QED
      BY <1>1, <3>1
  <2>2. ASSUME NEW i \in DOMAIN t PROVE t[i] # Head(s)
    BY <1>1, <1>2 DEF IsInjective
  <2>3. QED
    BY <2>1, <2>2 DEF IsInjective, ToSet
<1>5. Increasing(s) => Increasing(t) /\ \A f \in ToSet(t) : Head(s) < f
  <2> SUFFICES ASSUME Increasing(s) PROVE Increasing(t) /\ \A f \in ToSet(t) : Head(s) < f
    OBVIOUS
  <2>1. ASSUME NEW i \in DOMAIN t, NEW j \in DOMAIN t, i < j PROVE t[i] < t[j]
    <3>1. i + 1 < j + 1
      BY <1>1, <2>1
    <3>2. QED
      BY <1>1, <1>2, <3>1 DEF Increasing
  <2>2. ASSUME NEW i \in DOMAIN t PROVE Head(s) < t[i]
    BY <1>1, <1>2 DEF Increasing
  <2>3. QED
    BY <2>1, <2>2 DEF Increasing, ToSet
<1>6. QED
  BY <1>1, <1>3, <1>4, <1>5 DEF t

-----------------------------------------------------------------------------
(* Types *)

\* What a subscription's queue becomes when an event is put into it.
LEMMA FanKeeps ==
  ASSUME BusBounds, TypeOK, NEW e \in Event, NEW subscribed \in BOOLEAN, Fan(e, subscribed)
  PROVE  \/ UNCHANGED <<stream, dropped>>
         \/ /\ subscribed /\ Subscribed
            /\ dropped' \in BOOLEAN
            /\ \E inbox \in {stream.inbox, Tail(stream.inbox)} :
                 /\ stream' = [stream EXCEPT !.inbox = Append(inbox, e)]
                 /\ inbox \in Seq(Event)
                 /\ inbox # stream.inbox => stream.inbox # <<>>
                 /\ Len(inbox) < InboxSize
<1> SUFFICES ASSUME subscribed, Subscribed
             PROVE  /\ dropped' \in BOOLEAN
                    /\ \E inbox \in {stream.inbox, Tail(stream.inbox)} :
                         /\ stream' = [stream EXCEPT !.inbox = Append(inbox, e)]
                         /\ inbox \in Seq(Event)
                         /\ inbox # stream.inbox => stream.inbox # <<>>
                         /\ Len(inbox) < InboxSize
  BY DEF Fan
<1> DEFINE full == Len(stream.inbox) = InboxSize
<1>1. /\ stream' = [stream EXCEPT !.inbox = Append(IF full THEN Tail(@) ELSE @, e)]
      /\ dropped' = (dropped \/ full)
  BY DEF Fan
<1>2. /\ stream.inbox \in Seq(Event) /\ Len(stream.inbox) \in Nat
      /\ Len(stream.inbox) <= InboxSize
      /\ InboxSize \in Nat \ {0}
      /\ dropped \in BOOLEAN
  BY DEF TypeOK, BusBounds
<1>3. CASE full
  <2>1. stream.inbox # <<>>
    BY <1>2, <1>3
  <2>2. Tail(stream.inbox) \in Seq(Event) /\ Len(Tail(stream.inbox)) < InboxSize
    BY <1>2, <1>3, <2>1, TailOnce
  <2>3. QED
    BY <1>1, <1>2, <1>3, <2>1, <2>2
<1>4. CASE ~full
  <2>1. Len(stream.inbox) < InboxSize
    BY <1>2, <1>4
  <2>2. QED
    BY <1>1, <1>2, <1>4, <2>1
<1>5. QED
  BY <1>3, <1>4

LEMMA FanTypes ==
  ASSUME BusBounds, TypeOK, NEW e \in Event, NEW subscribed \in BOOLEAN, Fan(e, subscribed)
  PROVE  /\ stream' \in [at : {"off", "replay", "live", "closing"}, cursor : 0 .. MaxEvents,
                         last : 0 .. MaxEvents, page : SUBSET Event, inbox : Seq(Event)]
         /\ Len(stream'.inbox) <= InboxSize
         /\ dropped' \in BOOLEAN
<1>1. CASE UNCHANGED <<stream, dropped>>
  BY <1>1 DEF TypeOK
<1>2. ASSUME dropped' \in BOOLEAN, NEW inbox \in Seq(Event), Len(inbox) < InboxSize,
             stream' = [stream EXCEPT !.inbox = Append(inbox, e)]
      PROVE  /\ stream' \in [at : {"off", "replay", "live", "closing"}, cursor : 0 .. MaxEvents,
                             last : 0 .. MaxEvents, page : SUBSET Event, inbox : Seq(Event)]
             /\ Len(stream'.inbox) <= InboxSize
  <2>1. Append(inbox, e) \in Seq(Event) /\ Len(Append(inbox, e)) = Len(inbox) + 1
    BY AppendOnce
  <2> DEFINE new == Append(inbox, e)
  <2> HIDE DEF new
  <2>2. stream' = [stream EXCEPT !.inbox = new]
    BY <1>2 DEF new
  <2>3. stream'.inbox = new
    BY <2>2 DEF TypeOK
  <2>4. Len(new) <= InboxSize
    BY <1>2, <2>1 DEF new, BusBounds
  <2>5. new \in Seq(Event)
    BY <2>1 DEF new
  <2>6. QED
    BY <2>2, <2>3, <2>4, <2>5 DEF TypeOK
<1>3. QED
  BY <1>1, <1>2, FanKeeps

LEMMA SubscribedIsTruth == Subscribed \in BOOLEAN
BY DEF Subscribed

\* What a connection starts as, and what is left when it is closed.
LEMMA NoStreamTypes ==
  ASSUME BusBounds
  PROVE  /\ NoStream \in [at : {"off", "replay", "live", "closing"}, cursor : 0 .. MaxEvents,
                          last : 0 .. MaxEvents, page : SUBSET Event, inbox : Seq(Event)]
         /\ NoStream.inbox = <<>> /\ NoStream.page = {} /\ NoStream.at = "off"
         /\ NoStream.cursor = 0
         /\ Len(NoStream.inbox) <= InboxSize
<1>1. 0 \in 0 .. MaxEvents /\ <<>> \in Seq(Event) /\ {} \in SUBSET Event /\ 0 <= InboxSize
  BY DEF BusBounds
<1>2. NoStream = [at |-> "off", cursor |-> 0, last |-> 0, page |-> {}, inbox |-> <<>>]
  BY DEF NoStream, None
<1>3. QED
  BY <1>1, <1>2

\* A put finds room, and the queue stays within its size.
LEMMA PutTypes ==
  ASSUME BusBounds, TypeOK, NEW e \in Event \cup {Close}, HasRoom
  PROVE  Append(queue, e) \in Seq(Event \cup {Close}) /\ Len(Append(queue, e)) <= QueueSize
<1>1. /\ queue \in Seq(Event \cup {Close}) /\ Len(queue) \in Nat
      /\ QueueSize \in Nat /\ Len(queue) < QueueSize
  BY DEF TypeOK, BusBounds, HasRoom
<1>2. QED
  BY <1>1, AppendOnce

LEMMA NextTypeOK == ASSUME BusBounds, TypeOK, [Next]_vars PROVE TypeOK'
<1> USE DEF None
<1>1. CASE Publish
  <2>1. created + 1 \in Event /\ created' = created + 1 /\ created' \in 0 .. MaxEvents
    BY <1>1 DEF Publish, TypeOK, BusBounds, Event
  <2>2. queue' \in Seq(Event \cup {Close}) /\ Len(queue') <= QueueSize
    <3>1. CASE recorder = "up" /\ HasRoom /\ queue' = Append(queue, created + 1)
      BY <2>1, <3>1, PutTypes
    <3>2. CASE queue' = queue
      BY <3>2 DEF TypeOK
    <3>3. QED
      BY <1>1, <3>1, <3>2 DEF Publish
  <2>3. /\ stream' \in [at : {"off", "replay", "live", "closing"}, cursor : 0 .. MaxEvents,
                        last : 0 .. MaxEvents, page : SUBSET Event, inbox : Seq(Event)]
        /\ Len(stream'.inbox) <= InboxSize
        /\ dropped' \in BOOLEAN
    <3>1. CASE Fan(created + 1, TRUE)
      BY <2>1, <3>1, FanTypes
    <3>2. CASE UNCHANGED <<stream, dropped>>
      BY <3>2 DEF TypeOK
    <3>3. QED
      BY <1>1, <3>1, <3>2 DEF Publish
  <2>4. putting' \subseteq [event : Event, subscribed : BOOLEAN] /\ stalled' \in BOOLEAN
    <3>1. PICK b \in BOOLEAN : b = Subscribed
      BY SubscribedIsTruth
    <3>2. b \in BOOLEAN
      OBVIOUS
    <3>3. [event |-> created + 1, subscribed |-> b] \in [event : Event, subscribed : BOOLEAN]
      BY <2>1, <3>2, Zenon
    <3>4. putting' = putting \/ putting' = putting \cup {[event |-> created + 1, subscribed |-> b]}
      BY <1>1, <3>1 DEF Publish
    <3>5. stalled' \in BOOLEAN
      BY <1>1 DEF Publish, TypeOK
    <3>6. putting \subseteq [event : Event, subscribed : BOOLEAN]
      BY DEF TypeOK
    <3>7. QED
      BY <3>3, <3>4, <3>5, <3>6, Zenon
  <2>5. UNCHANGED <<writing, store, recorder, settled, sent, history>>
    BY <1>1 DEF Publish
  <2>6. QED
    BY <2>1, <2>2, <2>3, <2>4, <2>5 DEF TypeOK
<1>2. CASE PutResumes
  <2>1. PICK p \in putting : /\ HasRoom
                             /\ queue' = Append(queue, p.event)
                             /\ putting' = putting \ {p}
                             /\ Fan(p.event, p.subscribed)
    BY <1>2 DEF PutResumes
  <2>2. p.event \in Event /\ p.subscribed \in BOOLEAN
    BY DEF TypeOK
  <2>3. queue' \in Seq(Event \cup {Close}) /\ Len(queue') <= QueueSize
    BY <2>1, <2>2, PutTypes
  <2>4. UNCHANGED <<created, stalled, writing, store, recorder, settled, sent, history>>
    BY <1>2 DEF PutResumes
  <2>5. QED
    BY <2>1, <2>2, <2>3, <2>4, FanTypes DEF TypeOK
<1>3. CASE Take
  <2>1. queue \in Seq(Event \cup {Close}) /\ queue # <<>> /\ queue' = Tail(queue)
    BY <1>3 DEF Take, TypeOK
  <2>2. /\ queue' \in Seq(Event \cup {Close}) /\ Len(queue') = Len(queue) - 1
        /\ Head(queue) \in Event \cup {Close} /\ Len(queue) \in Nat
    BY <2>1, TailOnce
  <2>3. Len(queue') <= QueueSize
    BY <2>2 DEF TypeOK, BusBounds
  <2>4. QED
    BY <1>3, <2>2, <2>3 DEF Take, TypeOK, streaming
<1>4. CASE Stored
  BY <1>4 DEF Stored, TypeOK, streaming
<1>5. CASE Stop
  <2>1. settled' \subseteq Event
    BY <1>5 DEF Stop, Settled, TypeOK, Event, BusBounds
  <2>2. queue' \in Seq(Event \cup {Close}) /\ Len(queue') <= QueueSize
    BY <1>5, PutTypes DEF Stop, TypeOK
  <2>3. QED
    BY <1>5, <2>1, <2>2 DEF Stop, TypeOK, streaming
<1>6. CASE MarkerQueued
  BY <1>6, PutTypes DEF MarkerQueued, TypeOK, streaming
<1>7. CASE Connect
  <2>1. PICK cursor \in 0 .. created, resume \in BOOLEAN :
          /\ stream' = [NoStream EXCEPT !.at = IF resume THEN "replay" ELSE "live",
                                        !.cursor = IF resume THEN cursor ELSE created,
                                        !.last = cursor]
          /\ sent' = <<>>
          /\ history' = store
          /\ dropped' = FALSE
          /\ UNCHANGED <<created, putting, stalled, recording>>
    BY <1>7 DEF Connect
  <2>2. cursor \in 0 .. MaxEvents /\ created \in 0 .. MaxEvents
    BY DEF TypeOK, BusBounds
  <2>3. /\ stream' \in [at : {"off", "replay", "live", "closing"}, cursor : 0 .. MaxEvents,
                        last : 0 .. MaxEvents, page : SUBSET Event, inbox : Seq(Event)]
        /\ stream'.inbox = <<>>
    BY <2>1, <2>2, NoStreamTypes
  <2>4. Len(stream'.inbox) <= InboxSize
    BY <2>3 DEF BusBounds
  <2>5. QED
    BY <2>1, <2>3, <2>4 DEF TypeOK, recording
<1>8. CASE ReadPage
  <2>1. Page \subseteq Event
    BY DEF Page, TypeOK
  <2>2. QED
    BY <1>8, <2>1 DEF ReadPage, TypeOK, recording
<1>9. CASE Replay
  <2>1. PICK e \in stream.page : /\ stream' = [stream EXCEPT !.page = @ \ {e}, !.last = e]
                                 /\ sent' = Append(sent, e)
    BY <1>9 DEF Replay
  <2>2. e \in Event /\ e \in 0 .. MaxEvents
    BY DEF TypeOK, Event
  <2>3. sent' \in Seq(Event)
    BY <2>1, <2>2, AppendOnce DEF TypeOK
  <2>4. UNCHANGED <<created, putting, stalled, recording, history, dropped>>
    BY <1>9 DEF Replay
  <2>5. QED
    BY <2>1, <2>2, <2>3, <2>4 DEF TypeOK, recording
<1>10. CASE Live
  <2>1. stream.inbox \in Seq(Event) /\ stream.inbox # <<>>
    BY <1>10 DEF Live, TypeOK
  <2>2. /\ Tail(stream.inbox) \in Seq(Event) /\ Len(Tail(stream.inbox)) = Len(stream.inbox) - 1
        /\ Head(stream.inbox) \in Event /\ Len(stream.inbox) \in Nat
    BY <2>1, TailOnce
  <2>3. sent' \in Seq(Event)
    BY <1>10, <2>2, AppendOnce DEF Live, TypeOK
  <2> DEFINE new == Tail(stream.inbox)
  <2>4. new \in Seq(Event) /\ Len(new) <= InboxSize
    BY <2>2 DEF TypeOK, BusBounds
  <2>5. stream' = [stream EXCEPT !.inbox = new]
    BY <1>10 DEF Live
  <2> HIDE DEF new
  <2>6. UNCHANGED <<created, putting, stalled, recording, history, dropped>>
    BY <1>10 DEF Live
  <2>7. QED
    BY <2>3, <2>4, <2>5, <2>6 DEF TypeOK, recording
<1>11. CASE Disconnect
  <2>1. putting' \subseteq [event : Event, subscribed : BOOLEAN]
    <3>1. ASSUME NEW p \in putting
          PROVE  [p EXCEPT !.subscribed = FALSE] \in [event : Event, subscribed : BOOLEAN]
      <4>1. p \in [event : Event, subscribed : BOOLEAN]
        BY DEF TypeOK
      <4>2. QED
        BY <4>1
    <3>2. putting' = {[p EXCEPT !.subscribed = FALSE] : p \in putting}
      BY <1>11 DEF Disconnect
    <3>3. QED
      BY <3>1, <3>2, Zenon
  <2>2. stream' = NoStream \/ stream' = [stream EXCEPT !.at = "closing", !.page = {}]
    BY <1>11 DEF Disconnect
  <2>3. /\ stream' \in [at : {"off", "replay", "live", "closing"}, cursor : 0 .. MaxEvents,
                        last : 0 .. MaxEvents, page : SUBSET Event, inbox : Seq(Event)]
        /\ Len(stream'.inbox) <= InboxSize
    <3>1. CASE stream' = NoStream
      BY <3>1, NoStreamTypes
    <3>2. CASE stream' = [stream EXCEPT !.at = "closing", !.page = {}]
      BY <3>2 DEF TypeOK
    <3>3. QED
      BY <2>2, <3>1, <3>2
  <2>4. sent' = <<>> /\ history' = {} /\ dropped' = FALSE /\ UNCHANGED <<created, stalled, recording>>
    BY <1>11 DEF Disconnect
  <2>5. sent' \in Seq(Event) /\ history' \subseteq Event /\ dropped' \in BOOLEAN
    <3>1. <<>> \in Seq(Event)
      OBVIOUS
    <3>2. QED
      BY <2>4, <3>1, Zenon
  <2>6. UNCHANGED <<created, stalled, queue, writing, store, recorder, settled>>
    BY <2>4 DEF recording
  <2> HIDE <2>4
  <2>7. QED
    BY <2>1, <2>3, <2>5, <2>6 DEF TypeOK
<1>12. CASE UNCHANGED vars
  BY <1>12 DEF TypeOK, vars, recording, streaming
<1>13. QED
  BY <1>1, <1>2, <1>3, <1>4, <1>5, <1>6, <1>7, <1>8, <1>9, <1>10, <1>11, <1>12 DEF Next

-----------------------------------------------------------------------------
(* The recorder keeps what was settled *)

\* The places an event is in before it is stored.
OnItsWay == ToSet(queue) \cup {writing} \cup store

LEMMA KeptSpelt ==
  Kept <=> /\ recorder \in {"up", "closing"} => Close \notin ToSet(queue)
           /\ recorder = "up" => Settled \subseteq OnItsWay
           /\ recorder = "closing" => settled \subseteq OnItsWay
           /\ recorder = "draining" =>
                \E k \in DOMAIN queue :
                  /\ queue[k] = Close
                  /\ \A j \in DOMAIN queue : queue[j] = Close => j = k
                  /\ settled \subseteq BeforeMarker(k)
           /\ recorder = "stopped" => settled \subseteq store
BY DEF Kept, OnItsWay

LEMMA KeptSpeltNext ==
  Kept' <=> /\ recorder' \in {"up", "closing"} => Close \notin ToSet(queue')
            /\ recorder' = "up" => Settled' \subseteq OnItsWay'
            /\ recorder' = "closing" => settled' \subseteq OnItsWay'
            /\ recorder' = "draining" =>
                 \E k \in DOMAIN queue' :
                   /\ queue'[k] = Close
                   /\ \A j \in DOMAIN queue' : queue'[j] = Close => j = k
                   /\ settled' \subseteq BeforeMarker(k)'
            /\ recorder' = "stopped" => settled' \subseteq store'
BY DEF Kept, OnItsWay

\* An event put behind the marker, or before it, takes nothing away.
LEMMA PutKeeps ==
  ASSUME BusBounds, TypeOK, Kept, NEW e \in Event, queue' = Append(queue, e),
         UNCHANGED <<writing, store, recorder, settled>>,
         recorder = "up" => Settled' \subseteq Settled \cup {e}
  PROVE  Kept'
<1>1. /\ queue \in Seq(Event \cup {Close}) /\ e \in Event \cup {Close} /\ e # Close
  BY DEF TypeOK, Event, Close, BusBounds
<1>2. /\ DOMAIN queue = 1 .. Len(queue) /\ DOMAIN queue' = 1 .. Len(queue) + 1
      /\ Len(queue) \in Nat
      /\ \A k \in DOMAIN queue : queue'[k] = queue[k]
      /\ queue'[Len(queue) + 1] = e
  <2>1. \A s : s \in Seq(Event \cup {Close}) =>
          /\ DOMAIN s = 1 .. Len(s) /\ DOMAIN Append(s, e) = 1 .. Len(s) + 1
          /\ Len(s) \in Nat
          /\ \A k \in DOMAIN s : Append(s, e)[k] = s[k]
          /\ Append(s, e)[Len(s) + 1] = e
    BY <1>1, AfterAppend
  <2>2. QED
    BY <1>1, <2>1
<1>3. ToSet(queue') = ToSet(queue) \cup {e}
  BY <1>1, AppendOnce
<1>4. OnItsWay' = OnItsWay \cup {e}
  BY <1>3 DEF OnItsWay
<1>5. ASSUME recorder = "draining"
      PROVE  \E k \in DOMAIN queue' :
               /\ queue'[k] = Close
               /\ \A j \in DOMAIN queue' : queue'[j] = Close => j = k
               /\ settled' \subseteq BeforeMarker(k)'
  <2>1. PICK k \in DOMAIN queue : /\ queue[k] = Close
                                  /\ \A j \in DOMAIN queue : queue[j] = Close => j = k
                                  /\ settled \subseteq BeforeMarker(k)
    BY <1>5 DEF Kept
  <2>2. k \in DOMAIN queue' /\ queue'[k] = Close
    BY <1>2, <2>1
  <2>3. ASSUME NEW j \in DOMAIN queue', queue'[j] = Close PROVE j = k
    <3>1. j # Len(queue) + 1
      BY <1>1, <1>2, <2>3
    <3>2. j \in DOMAIN queue
      BY <1>2, <3>1
    <3>3. QED
      BY <1>2, <2>1, <2>3, <3>2
  <2>4. \A j \in 1 .. k - 1 : queue'[j] = queue[j]
    BY <1>2
  <2>5. BeforeMarker(k)' = BeforeMarker(k)
    BY <2>4 DEF BeforeMarker
  <2>6. QED
    BY <2>1, <2>2, <2>3, <2>5
<1>6. QED
  BY <1>1, <1>3, <1>4, <1>5, KeptSpelt, KeptSpeltNext

LEMMA NextKept == ASSUME BusBounds, TypeOK, Kept, [Next]_vars PROVE Kept'
<1>1. CASE Publish
  <2> DEFINE e == created + 1
  <2>1. e \in Event /\ created' = e /\ created \in Nat
    BY <1>1 DEF Publish, TypeOK, BusBounds, Event
  <2>2. UNCHANGED <<writing, store, recorder, settled>>
    BY <1>1 DEF Publish
  <2>3. 1 .. created' = (1 .. created) \cup {e}
    BY <2>1
  <2>4. CASE recorder = "up" /\ HasRoom /\ queue' = Append(queue, e) /\ putting' = putting
    <3>1. Settled' \subseteq Settled \cup {e}
      BY <2>3, <2>4 DEF Settled
    <3>2. QED
      BY <2>1, <2>2, <2>4, <3>1, PutKeeps
  <2>5. CASE recorder # "up" /\ queue' = queue
    BY <2>2, <2>5 DEF Kept, BeforeMarker
  <2>6. CASE /\ recorder = "up" /\ queue' = queue
             /\ putting' = putting \cup {[event |-> e, subscribed |-> Subscribed]}
    <3>1. Settled' \subseteq Settled
      <4>1. e \in {p.event : p \in putting'}
        <5>1. PICK b \in BOOLEAN : b = Subscribed
          BY SubscribedIsTruth
        <5>2. [event |-> e, subscribed |-> b] \in putting'
          BY <2>6, <5>1
        <5>3. [event |-> e, subscribed |-> b].event = e
          OBVIOUS
        <5>4. QED
          BY <5>2, <5>3
      <4>2. {p.event : p \in putting} \subseteq {p.event : p \in putting'}
        BY <2>6
      <4>3. QED
        BY <2>3, <4>1, <4>2 DEF Settled
    <3>2. OnItsWay' = OnItsWay
      BY <2>2, <2>6 DEF OnItsWay
    <3>3. QED
      BY <2>2, <2>6, <3>1, <3>2, KeptSpelt, KeptSpeltNext
  <2>7. QED
    BY <1>1, <2>4, <2>5, <2>6 DEF Publish
<1>2. CASE PutResumes
  <2>1. PICK p \in putting : /\ queue' = Append(queue, p.event)
                             /\ putting' = putting \ {p}
    BY <1>2 DEF PutResumes
  <2>2. UNCHANGED <<created, writing, store, recorder, settled>>
    BY <1>2 DEF PutResumes
  <2>3. p.event \in Event
    BY DEF TypeOK
  <2>4. {q.event : q \in putting} \subseteq {q.event : q \in putting'} \cup {p.event}
    BY <2>1
  <2>5. Settled' \subseteq Settled \cup {p.event}
    BY <2>2, <2>4 DEF Settled
  <2>6. QED
    BY <2>1, <2>2, <2>3, <2>5, PutKeeps
<1>3. CASE Take
  <2>1. queue \in Seq(Event \cup {Close}) /\ queue # <<>> /\ queue' = Tail(queue)
    BY <1>3 DEF Take, TypeOK
  <2>2. /\ Head(queue) = queue[1]
        /\ DOMAIN queue = 1 .. Len(queue) /\ Len(queue) \in Nat \ {0}
        /\ DOMAIN queue' = 1 .. Len(queue) - 1
        /\ \A k \in DOMAIN queue' : queue'[k] = queue[k + 1]
    <3>1. \A s : s \in Seq(Event \cup {Close}) /\ s # <<>> =>
            /\ Head(s) = s[1]
            /\ DOMAIN s = 1 .. Len(s) /\ Len(s) \in Nat \ {0}
            /\ DOMAIN Tail(s) = 1 .. Len(s) - 1
            /\ \A k \in DOMAIN Tail(s) : Tail(s)[k] = s[k + 1]
      BY AfterTail
    <3>2. QED
      BY <2>1, <3>1
  <2>3. ToSet(queue) = {Head(queue)} \cup ToSet(queue')
    BY <2>1, TailOnce
  <2>4. /\ writing = None
        /\ IF Head(queue) = Close THEN recorder' = "stopped" /\ writing' = writing
                                  ELSE writing' = Head(queue) /\ recorder' = recorder
        /\ UNCHANGED <<created, putting, store, settled>>
        /\ recorder # "stopped"
    BY <1>3 DEF Take
  <2>5. None \notin settled /\ None \notin Settled
    BY DEF TypeOK, Settled, Event, None
  <2>6. Settled' = Settled
    BY <2>4 DEF Settled
  <2>7. CASE recorder \in {"up", "closing"}
    <3>1. Head(queue) # Close /\ Close \notin ToSet(queue')
      BY <2>3, <2>7 DEF Kept
    <3>2. OnItsWay \ {None} \subseteq OnItsWay'
      BY <2>3, <2>4, <3>1 DEF OnItsWay
    <3>3. QED
      BY <2>4, <2>5, <2>6, <2>7, <3>1, <3>2, KeptSpelt, KeptSpeltNext
  <2>8. CASE recorder = "draining"
    <3>1. PICK k \in DOMAIN queue : /\ queue[k] = Close
                                    /\ \A j \in DOMAIN queue : queue[j] = Close => j = k
                                    /\ settled \subseteq BeforeMarker(k)
      BY <2>8 DEF Kept
    <3>2. CASE Head(queue) = Close
      <4>1. k = 1
        BY <2>2, <3>1, <3>2
      <4>2. BeforeMarker(k) = {None} \cup store
        BY <2>4, <4>1 DEF BeforeMarker
      <4>3. settled' \subseteq store' /\ recorder' = "stopped"
        BY <2>4, <2>5, <3>1, <3>2, <4>2
      <4>4. QED
        BY <4>3, KeptSpeltNext
    <3>3. CASE Head(queue) # Close
      <4>1. k # 1 /\ k - 1 \in DOMAIN queue' /\ queue'[k - 1] = Close
        BY <2>2, <3>1, <3>3
      <4>2. ASSUME NEW j \in DOMAIN queue', queue'[j] = Close PROVE j = k - 1
        <5>1. j + 1 \in DOMAIN queue /\ queue[j + 1] = Close
          BY <2>2, <4>2
        <5>2. j + 1 = k
          BY <3>1, <5>1
        <5>3. QED
          BY <2>2, <5>2
      <4>3. \A j \in 2 .. k - 1 : queue[j] = queue'[j - 1] /\ j - 1 \in 1 .. (k - 1) - 1
        BY <2>2
      <4>4. \A j \in 1 .. k - 1 : j = 1 \/ j \in 2 .. k - 1
        OBVIOUS
      <4>5. {queue[j] : j \in 1 .. k - 1} \subseteq
              {writing'} \cup {queue'[j] : j \in 1 .. (k - 1) - 1}
        BY <2>2, <2>4, <3>3, <4>3, <4>4
      <4>6. settled' \subseteq BeforeMarker(k - 1)'
        BY <2>4, <2>5, <3>1, <4>5 DEF BeforeMarker
      <4>7. recorder' = "draining"
        BY <2>4, <2>8, <3>3
      <4>8. QED
        BY <4>1, <4>2, <4>6, <4>7, KeptSpeltNext
    <3>4. QED
      BY <3>2, <3>3
  <2>9. QED
    BY <2>4, <2>7, <2>8 DEF TypeOK
<1>4. CASE Stored
  <2>1. /\ store' = store \cup {writing} /\ writing' = None
        /\ UNCHANGED <<created, putting, queue, recorder, settled>>
    BY <1>4 DEF Stored
  <2>2. /\ Settled' = Settled /\ ToSet(queue') = ToSet(queue)
        /\ OnItsWay \subseteq OnItsWay'
        /\ \A k \in DOMAIN queue : BeforeMarker(k) \subseteq BeforeMarker(k)'
    BY <2>1 DEF Settled, OnItsWay, BeforeMarker
  <2>3. QED
    BY <2>1, <2>2, KeptSpelt, KeptSpeltNext
<1>5. ASSUME recorder \in {"up", "closing"}, settled' \subseteq OnItsWay,
             queue' = Append(queue, Close), recorder' = "draining",
             UNCHANGED <<writing, store>>
      PROVE  Kept'
  <2>1. queue \in Seq(Event \cup {Close})
    BY DEF TypeOK
  <2>2. /\ DOMAIN queue = 1 .. Len(queue) /\ DOMAIN queue' = 1 .. Len(queue) + 1
        /\ Len(queue) \in Nat
        /\ \A k \in DOMAIN queue : queue'[k] = queue[k]
        /\ queue'[Len(queue) + 1] = Close
    <3>1. \A s : s \in Seq(Event \cup {Close}) =>
            /\ DOMAIN s = 1 .. Len(s) /\ DOMAIN Append(s, Close) = 1 .. Len(s) + 1
            /\ Len(s) \in Nat
            /\ \A k \in DOMAIN s : Append(s, Close)[k] = s[k]
            /\ Append(s, Close)[Len(s) + 1] = Close
      BY AfterAppend
    <3>2. QED
      BY <1>5, <2>1, <3>1
  <2> PICK k \in Nat : k = Len(queue) + 1
    BY <2>2
  <2>3. k \in DOMAIN queue' /\ queue'[k] = Close
    BY <2>2
  <2>4. ASSUME NEW j \in DOMAIN queue', queue'[j] = Close PROVE j = k
    <3>1. j \in DOMAIN queue => queue[j] = Close
      BY <2>2, <2>4
    <3>2. j \notin DOMAIN queue
      BY <1>5, <3>1 DEF Kept, ToSet
    <3>3. QED
      BY <2>2, <3>2
  <2>5. \A j \in DOMAIN queue : j \in 1 .. k - 1 /\ queue'[j] = queue[j]
    BY <2>2
  <2>6. OnItsWay \subseteq BeforeMarker(k)'
    <3>1. ToSet(queue) \subseteq {queue'[j] : j \in 1 .. k - 1}
      BY <2>5 DEF ToSet
    <3>2. BeforeMarker(k)' = {queue'[j] : j \in 1 .. k - 1} \cup {writing} \cup store
      BY <1>5, <2>2 DEF BeforeMarker
    <3>3. QED
      BY <3>1, <3>2 DEF OnItsWay
  <2>7. QED
    BY <1>5, <2>3, <2>4, <2>6, KeptSpeltNext
<1>6. CASE Stop
  <2>1. recorder = "up" /\ settled' = Settled /\ UNCHANGED <<writing, store>>
    BY <1>6 DEF Stop
  <2>2. CASE HasRoom
    BY <1>5, <1>6, <2>1, <2>2, KeptSpelt DEF Stop
  <2>3. CASE ~HasRoom
    <3>1. recorder' = "closing" /\ queue' = queue
      BY <1>6, <2>3 DEF Stop
    <3>2. OnItsWay' = OnItsWay
      BY <2>1, <3>1 DEF OnItsWay
    <3>3. QED
      BY <2>1, <3>1, <3>2, KeptSpelt, KeptSpeltNext
  <2>4. QED
    BY <2>2, <2>3
<1>7. CASE MarkerQueued
  BY <1>5, <1>7, KeptSpelt DEF MarkerQueued
<1>8. CASE UNCHANGED <<created, queue, writing, store, recorder, settled>>
           /\ {p.event : p \in putting'} = {p.event : p \in putting}
  <2>1. Settled' = Settled
    BY <1>8 DEF Settled
  <2>2. QED
    BY <1>8, <2>1 DEF Kept, BeforeMarker
<1>9. CASE Connect
  BY <1>8, <1>9 DEF Connect, recording
<1>10. CASE ReadPage \/ Replay \/ Live
  BY <1>8, <1>10 DEF ReadPage, Replay, Live, recording
<1>11. CASE Disconnect
  <2>1. putting' = {[p EXCEPT !.subscribed = FALSE] : p \in putting}
    BY <1>11 DEF Disconnect
  <2>2. \A p \in putting : [p EXCEPT !.subscribed = FALSE].event = p.event
    BY DEF TypeOK
  <2>3. {p.event : p \in putting'} = {p.event : p \in putting}
    BY <2>1, <2>2
  <2>4. UNCHANGED <<created, queue, writing, store, recorder, settled>>
    BY <1>11 DEF Disconnect, recording
  <2>5. QED
    BY <1>8, <2>3, <2>4
<1>12. CASE UNCHANGED vars
  BY <1>8, <1>12 DEF vars, recording, streaming
<1>13. QED
  BY <1>1, <1>2, <1>3, <1>4, <1>6, <1>7, <1>9, <1>10, <1>11, <1>12 DEF Next

-----------------------------------------------------------------------------
(* Events arrive at the stream *)

\* All that is put in order for a client.
Streaming == Replaying /\ Ahead /\ StreamInOrder /\ Whole

\* Where the recorder takes an event says nothing to the stream.
LEMMA StreamLeftAlone ==
  ASSUME Streaming, UNCHANGED <<stream, sent, history>>, store \subseteq store',
         stalled => stalled', stalled \in BOOLEAN
  PROVE  Streaming'
<1>1. Replaying'
  BY DEF Streaming, Replaying, Sent
<1>2. Ahead'
  BY DEF Streaming, Ahead, Subscribed, Inbox, Sent
<1>3. StreamInOrder'
  BY DEF Streaming, StreamInOrder
<1>4. Whole'
  BY DEF Streaming, Whole, HistoryReplayed, Sent
<1>5. QED
  BY <1>1, <1>2, <1>3, <1>4 DEF Streaming

LEMMA FanEffect ==
  ASSUME BusBounds, TypeOK, NEW e \in Event, NEW subscribed \in BOOLEAN, Fan(e, subscribed),
         e \notin Inbox
  PROVE  /\ ~(subscribed /\ Subscribed) => stream' = stream
         /\ Inbox' \subseteq Inbox \cup {e}
         /\ stream'.at = stream.at /\ stream'.cursor = stream.cursor
         /\ stream'.last = stream.last /\ stream'.page = stream.page
         /\ IsInjective(stream.inbox) => IsInjective(stream'.inbox)
         /\ Increasing(stream.inbox) /\ (\A f \in Inbox : f < e) => Increasing(stream'.inbox)
<1>1. CASE UNCHANGED <<stream, dropped>>
  BY <1>1 DEF Inbox
<1>2. ASSUME subscribed, Subscribed, NEW inbox \in {stream.inbox, Tail(stream.inbox)},
             inbox \in Seq(Event), inbox # stream.inbox => stream.inbox # <<>>,
             stream' = [stream EXCEPT !.inbox = Append(inbox, e)]
      PROVE  /\ Inbox' \subseteq Inbox \cup {e}
             /\ stream'.at = stream.at /\ stream'.cursor = stream.cursor
             /\ stream'.last = stream.last /\ stream'.page = stream.page
             /\ IsInjective(stream.inbox) => IsInjective(stream'.inbox)
             /\ Increasing(stream.inbox) /\ (\A f \in Inbox : f < e) => Increasing(stream'.inbox)
  <2>1. /\ ToSet(inbox) \subseteq Inbox
        /\ IsInjective(stream.inbox) => IsInjective(inbox)
        /\ Increasing(stream.inbox) => Increasing(inbox)
    <3>1. CASE inbox = stream.inbox
      BY <3>1 DEF Inbox
    <3>2. CASE inbox # stream.inbox
      <4>1. stream.inbox \in Seq(Event) /\ stream.inbox # <<>> /\ inbox = Tail(stream.inbox)
        BY <1>2, <3>2 DEF TypeOK
      <4>2. QED
        BY <4>1, TailOnce DEF Inbox
    <3>3. QED
      BY <3>1, <3>2
  <2>2. /\ ToSet(Append(inbox, e)) = ToSet(inbox) \cup {e}
        /\ IsInjective(inbox) /\ e \notin ToSet(inbox) => IsInjective(Append(inbox, e))
        /\ Increasing(inbox) /\ (\A f \in ToSet(inbox) : f < e) => Increasing(Append(inbox, e))
    BY <1>2, AppendOnce
  <2> DEFINE new == Append(inbox, e)
  <2> HIDE DEF new
  <2>3. stream' = [stream EXCEPT !.inbox = new]
    BY <1>2 DEF new
  <2>4. /\ stream'.inbox = new
        /\ stream'.at = stream.at /\ stream'.cursor = stream.cursor
        /\ stream'.last = stream.last /\ stream'.page = stream.page
    BY <2>3 DEF TypeOK
  <2>5. /\ ToSet(new) = ToSet(inbox) \cup {e}
        /\ IsInjective(inbox) /\ e \notin ToSet(inbox) => IsInjective(new)
        /\ Increasing(inbox) /\ (\A f \in ToSet(inbox) : f < e) => Increasing(new)
    BY <2>2 DEF new
  <2>6. Inbox' = ToSet(new)
    BY <2>4 DEF Inbox
  <2>7. QED
    BY <2>1, <2>4, <2>5, <2>6
<1>3. QED
  BY <1>1, <1>2, FanKeeps

\* An event that reached nobody yet is given to the stream.
LEMMA ArrivalKeeps ==
  ASSUME BusBounds, TypeOK, Streaming,
         NEW e \in Event, NEW subscribed \in BOOLEAN, Fan(e, subscribed),
         e \notin Inbox \cup Sent,
         subscribed /\ Subscribed => e > stream.cursor,
         UNCHANGED <<sent, history, store, stalled>>,
         ~stalled => \A f \in Inbox \cup Sent : f < e
  PROVE  Streaming'
<1>1. /\ ~(subscribed /\ Subscribed) => stream' = stream
      /\ Inbox' \subseteq Inbox \cup {e}
      /\ stream'.at = stream.at /\ stream'.cursor = stream.cursor
      /\ stream'.last = stream.last /\ stream'.page = stream.page
      /\ IsInjective(stream.inbox) => IsInjective(stream'.inbox)
      /\ Increasing(stream.inbox) /\ (\A f \in Inbox : f < e) => Increasing(stream'.inbox)
  BY FanEffect
<1>2. CASE stream' = stream
  BY <1>2, StreamLeftAlone DEF TypeOK
<1>3. CASE subscribed /\ Subscribed
  <2>1. Replaying'
    BY <1>1 DEF Streaming, Replaying, Sent
  <2>2. Ahead'
    BY <1>1, <1>3 DEF Streaming, Ahead, Subscribed, Sent
  <2>3. StreamInOrder'
    BY <1>1 DEF Streaming, StreamInOrder
  <2>4. Whole'
    BY <1>1 DEF Streaming, Whole, HistoryReplayed, Sent
  <2>5. QED
    BY <2>1, <2>2, <2>3, <2>4 DEF Streaming
<1>4. QED
  BY <1>1, <1>2, <1>3

-----------------------------------------------------------------------------
(* What a step of the stream does to it *)

LEMMA ConnectEffect ==
  ASSUME TypeOK, Connect
  PROVE  /\ stream.at = "off"
         /\ \/ stream'.at = "replay" /\ stream'.cursor = stream'.last
            \/ stream'.at = "live" /\ stream'.cursor = created
         /\ stream'.cursor \in 0 .. created
         /\ stream'.page = {} /\ stream'.inbox = <<>> /\ sent' = <<>>
         /\ Inbox' = {} /\ Sent' = {}
         /\ history' = store
         /\ UNCHANGED <<created, putting, stalled, recording>>
<1>1. PICK cursor \in 0 .. created, resume \in BOOLEAN :
        /\ stream.at = "off"
        /\ stream' = [NoStream EXCEPT !.at = IF resume THEN "replay" ELSE "live",
                                      !.cursor = IF resume THEN cursor ELSE created,
                                      !.last = cursor]
        /\ sent' = <<>>
        /\ history' = store
        /\ UNCHANGED <<created, putting, stalled, recording>>
  BY DEF Connect
<1>2. /\ stream'.page = {} /\ stream'.inbox = <<>>
      /\ \/ stream'.at = "replay" /\ stream'.cursor = cursor /\ stream'.last = cursor
         \/ stream'.at = "live" /\ stream'.cursor = created
  BY <1>1 DEF NoStream
<1>3. created \in 0 .. created
  BY DEF TypeOK
<1>4. Inbox' = {} /\ Sent' = {}
  BY <1>1, <1>2 DEF Inbox, Sent, ToSet
<1>5. QED
  BY <1>1, <1>2, <1>3, <1>4

LEMMA ReplayEffect ==
  ASSUME TypeOK, Replay
  PROVE  \E e \in stream.page :
           /\ \A f \in stream.page : e <= f
           /\ stream'.at = stream.at /\ stream'.cursor = stream.cursor
           /\ stream'.inbox = stream.inbox
           /\ stream'.page = stream.page \ {e} /\ stream'.last = e
           /\ Sent' = Sent \cup {e}
           /\ IsInjective(sent) /\ e \notin Sent => IsInjective(sent')
           /\ Increasing(sent) /\ (\A f \in Sent : f < e) => Increasing(sent')
           /\ UNCHANGED <<created, putting, stalled, recording, history>>
<1>1. PICK e \in stream.page :
        /\ \A f \in stream.page : e <= f
        /\ stream' = [stream EXCEPT !.page = @ \ {e}, !.last = e]
        /\ sent' = Append(sent, e)
        /\ UNCHANGED <<created, putting, stalled, recording, history>>
  BY DEF Replay
<1>2. e \in Event /\ sent \in Seq(Event)
  BY DEF TypeOK
<1>3. /\ ToSet(sent') = ToSet(sent) \cup {e}
      /\ IsInjective(sent) /\ e \notin ToSet(sent) => IsInjective(sent')
      /\ Increasing(sent) /\ (\A f \in ToSet(sent) : f < e) => Increasing(sent')
  BY <1>1, <1>2, AppendOnce
<1>4. /\ stream'.at = stream.at /\ stream'.cursor = stream.cursor
      /\ stream'.inbox = stream.inbox
      /\ stream'.page = stream.page \ {e} /\ stream'.last = e
  BY <1>1 DEF TypeOK
<1>5. QED
  BY <1>1, <1>3, <1>4 DEF Sent

LEMMA LiveEffect ==
  ASSUME TypeOK, Live
  PROVE  \E e \in Event :
           /\ stream.at = "live" /\ stream'.at = "live" /\ stream'.cursor = stream.cursor
           /\ stream'.page = stream.page /\ stream'.last = stream.last
           /\ Inbox = {e} \cup Inbox'
           /\ IsInjective(stream.inbox) => IsInjective(stream'.inbox) /\ e \notin Inbox'
           /\ Increasing(stream.inbox) =>
                Increasing(stream'.inbox) /\ \A f \in Inbox' : e < f
           /\ \/ ~(e > stream.last) /\ UNCHANGED sent
              \/ /\ e > stream.last
                 /\ Sent' = Sent \cup {e}
                 /\ IsInjective(sent) /\ e \notin Sent => IsInjective(sent')
                 /\ Increasing(sent) /\ (\A f \in Sent : f < e) => Increasing(sent')
           /\ UNCHANGED <<created, putting, stalled, recording, history>>
<1> DEFINE e == Head(stream.inbox)
<1>1. /\ stream.at = "live" /\ stream.inbox # <<>>
      /\ stream' = [stream EXCEPT !.inbox = Tail(@)]
      /\ sent' = IF e > stream.last THEN Append(sent, e) ELSE sent
      /\ UNCHANGED <<created, putting, stalled, recording, history>>
  BY DEF Live
<1>2. stream.inbox \in Seq(Event) /\ sent \in Seq(Event)
  BY DEF TypeOK
<1> DEFINE new == Tail(stream.inbox)
<1>3. /\ e \in Event
      /\ Inbox = {e} \cup ToSet(new)
      /\ IsInjective(stream.inbox) => IsInjective(new) /\ e \notin ToSet(new)
      /\ Increasing(stream.inbox) => Increasing(new) /\ \A f \in ToSet(new) : e < f
  BY <1>1, <1>2, TailOnce DEF Inbox
<1>4. stream' = [stream EXCEPT !.inbox = new]
  BY <1>1
<1> HIDE DEF new
<1>5. /\ stream'.inbox = new /\ stream'.at = stream.at /\ stream'.cursor = stream.cursor
      /\ stream'.page = stream.page /\ stream'.last = stream.last
  BY <1>4 DEF TypeOK
<1>6. PICK h \in Event : h = e
  BY <1>3
<1>7. /\ ToSet(Append(sent, h)) = Sent \cup {h}
      /\ IsInjective(sent) /\ h \notin Sent => IsInjective(Append(sent, h))
      /\ Increasing(sent) /\ (\A f \in Sent : f < h) => Increasing(Append(sent, h))
  BY <1>2, AppendOnce DEF Sent
<1>8. Inbox' = ToSet(new)
  BY <1>5 DEF Inbox
<1> HIDE DEF e
<1>9. \/ ~(h > stream.last) /\ UNCHANGED sent
      \/ /\ h > stream.last
         /\ Sent' = Sent \cup {h}
         /\ IsInjective(sent) /\ h \notin Sent => IsInjective(sent')
         /\ Increasing(sent) /\ (\A f \in Sent : f < h) => Increasing(sent')
  BY <1>1, <1>6, <1>7 DEF Sent
<1>10. QED
  BY <1>1, <1>3, <1>5, <1>6, <1>8, <1>9

LEMMA DisconnectEffect ==
  ASSUME BusBounds, TypeOK, Disconnect
  PROVE  /\ stream'.at \in {"off", "closing"} /\ stream'.page = {}
         /\ Inbox' \subseteq Inbox /\ Sent' = {} /\ sent' = <<>>
         /\ history' = {}
         /\ putting' = {[p EXCEPT !.subscribed = FALSE] : p \in putting}
         /\ UNCHANGED <<created, stalled, recording>>
<1>1. /\ \/ stream' = NoStream
         \/ stream' = [stream EXCEPT !.at = "closing", !.page = {}]
      /\ putting' = {[p EXCEPT !.subscribed = FALSE] : p \in putting}
      /\ sent' = <<>> /\ history' = {}
      /\ UNCHANGED <<created, stalled, recording>>
  BY DEF Disconnect
<1>2. CASE stream' = NoStream
  <2>1. stream'.inbox = <<>>
    BY <1>2, NoStreamTypes
  <2>2. QED
    BY <1>1, <1>2, <2>1, NoStreamTypes DEF Inbox, Sent, ToSet
<1>3. CASE stream' = [stream EXCEPT !.at = "closing", !.page = {}]
  <2>1. stream'.at = "closing" /\ stream'.page = {} /\ stream'.inbox = stream.inbox
    BY <1>3 DEF TypeOK
  <2>2. QED
    BY <1>1, <2>1 DEF Inbox, Sent, ToSet
<1>4. QED
  BY <1>1, <1>2, <1>3

-----------------------------------------------------------------------------
(* What was created, and what waits *)

LEMMA ElementsAreEvents ==
  ASSUME BusBounds, TypeOK
  PROVE  Queued \cup Inbox \cup Sent \subseteq Event
<1>1. Queued \subseteq Event
  <2>1. queue \in Seq(Event \cup {Close})
    BY DEF TypeOK
  <2>2. \A k \in DOMAIN queue : queue[k] \in Event \cup {Close}
    BY <2>1
  <2>3. QED
    BY <2>2 DEF Queued, ToSet
<1>2. Inbox \subseteq Event
  <2>1. stream.inbox \in Seq(Event)
    BY DEF TypeOK
  <2>2. \A k \in DOMAIN stream.inbox : stream.inbox[k] \in Event
    BY <2>1
  <2>3. QED
    BY <2>2 DEF Inbox, ToSet
<1>3. Sent \subseteq Event
  <2>1. sent \in Seq(Event)
    BY DEF TypeOK
  <2>2. \A k \in DOMAIN sent : sent[k] \in Event
    BY <2>1
  <2>3. QED
    BY <2>2 DEF Sent, ToSet
<1>4. QED
  BY <1>1, <1>2, <1>3

LEMMA NextCursorDrawn ==
  ASSUME BusBounds, TypeOK, Drawn, [Next]_vars
  PROVE  stream'.cursor <= created'
<1> USE DEF Drawn
<1>1. created \in Nat /\ stream.cursor \in Nat
  BY DEF TypeOK
<1>2. CASE stream'.cursor = stream.cursor /\ created' \in {created, created + 1}
  BY <1>1, <1>2
<1>3. ASSUME NEW e \in Event, NEW subscribed \in BOOLEAN, Fan(e, subscribed)
      PROVE  stream'.cursor = stream.cursor
  <2>1. ASSUME NEW inbox, stream' = [stream EXCEPT !.inbox = inbox]
        PROVE  stream'.cursor = stream.cursor
    BY <2>1 DEF TypeOK
  <2>2. QED
    BY <1>3, <2>1, FanKeeps
<1>4. CASE Publish
  <2>1. created + 1 \in Event /\ created' = created + 1
    BY <1>4 DEF Publish, TypeOK, BusBounds, Event
  <2>2. QED
    BY <1>2, <1>3, <1>4, <2>1 DEF Publish
<1>5. CASE PutResumes
  <2>1. PICK p \in putting : Fan(p.event, p.subscribed)
    BY <1>5 DEF PutResumes
  <2>2. p.event \in Event /\ p.subscribed \in BOOLEAN
    BY DEF TypeOK
  <2>3. QED
    BY <1>2, <1>3, <1>5, <2>1, <2>2 DEF PutResumes
<1>6. CASE Take \/ Stored \/ Stop \/ MarkerQueued
  BY <1>2, <1>6 DEF Take, Stored, Stop, MarkerQueued, streaming
<1>7. CASE Connect
  BY <1>1, <1>7, ConnectEffect
<1>8. CASE ReadPage
  BY <1>2, <1>8 DEF ReadPage, TypeOK
<1>9. CASE Replay
  BY <1>2, <1>9, ReplayEffect
<1>10. CASE Live
  BY <1>2, <1>10, LiveEffect
<1>11. CASE Disconnect
  <2>1. stream' = NoStream \/ stream' = [stream EXCEPT !.at = "closing", !.page = {}]
    BY <1>11 DEF Disconnect
  <2>2. stream'.cursor \in {0, stream.cursor}
    BY <2>1, NoStreamTypes DEF TypeOK
  <2>3. QED
    BY <1>1, <1>11, <2>2 DEF Disconnect
<1>12. CASE UNCHANGED vars
  BY <1>2, <1>12 DEF vars, streaming
<1>13. QED
  BY <1>4, <1>5, <1>6, <1>7, <1>8, <1>9, <1>10, <1>11, <1>12 DEF Next

LEMMA NextDrawn ==
  ASSUME BusBounds, TypeOK, Drawn, Waiting, Replaying, [Next]_vars
  PROVE  Drawn'
<1> SUFFICES \A e \in Queued' \cup ({writing'} \ {None}) \cup store' \cup Inbox' \cup Sent' :
               e <= created'
  BY NextCursorDrawn DEF Drawn
<1>1. CASE Publish
  <2> DEFINE e == created + 1
  <2>1. e \in Event /\ created' = e /\ created \in Nat /\ UNCHANGED <<writing, store, sent>>
    BY <1>1 DEF Publish, TypeOK, BusBounds, Event
  <2>2. Queued' \subseteq Queued \cup {e}
    <3>1. queue' = Append(queue, e) \/ queue' = queue
      BY <1>1 DEF Publish
    <3>2. ToSet(Append(queue, e)) = ToSet(queue) \cup {e}
      BY <2>1, AppendOnce DEF TypeOK
    <3>3. QED
      BY <3>1, <3>2 DEF Queued
  <2>3. Inbox' \subseteq Inbox \cup {e}
    <3>1. CASE stream' = stream
      BY <3>1 DEF Inbox
    <3>2. CASE Fan(e, TRUE)
      <4>1. e \notin Inbox
        BY <2>1 DEF Drawn
      <4>2. QED
        BY <2>1, <3>2, <4>1, FanEffect
    <3>3. QED
      BY <1>1, <3>1, <3>2 DEF Publish
  <2>4. Sent' = Sent
    BY <2>1 DEF Sent
  <2>5. \A f \in Queued \cup ({writing} \ {None}) \cup store \cup Inbox \cup Sent : f \in Nat
    <3>1. /\ writing \in Event \cup {None} /\ store \subseteq Event
          /\ \A f \in Event : f \in Nat
      BY DEF TypeOK, Event, BusBounds
    <3>2. Queued \cup Inbox \cup Sent \subseteq Event
      BY ElementsAreEvents
    <3>3. QED
      BY <3>1, <3>2, Zenon
  <2>6. ASSUME NEW f \in Queued' \cup ({writing'} \ {None}) \cup store' \cup Inbox' \cup Sent'
        PROVE  f <= created'
    <3>1. f = e \/ f \in Queued \cup ({writing} \ {None}) \cup store \cup Inbox \cup Sent
      BY <2>1, <2>2, <2>3, <2>4, <2>6
    <3>2. f = e \/ (f \in Nat /\ f <= created)
      BY <2>5, <3>1 DEF Drawn
    <3>3. QED
      BY <2>1, <3>2
  <2>7. QED
    BY <2>6
<1>2. CASE PutResumes
  <2>1. PICK p \in putting : queue' = Append(queue, p.event) /\ Fan(p.event, p.subscribed)
    BY <1>2 DEF PutResumes
  <2>2. /\ p.event \in Event /\ p.subscribed \in BOOLEAN
        /\ p.event <= created /\ p.event \notin Inbox
        /\ UNCHANGED <<created, writing, store, sent>>
    BY <1>2 DEF PutResumes, TypeOK, Waiting
  <2>3. Inbox' \subseteq Inbox \cup {p.event}
    BY <2>1, <2>2, FanEffect
  <2>4. Queued' \subseteq Queued \cup {p.event}
    <3>1. ToSet(Append(queue, p.event)) = ToSet(queue) \cup {p.event}
      BY <2>2, AppendOnce DEF TypeOK
    <3>2. QED
      BY <2>1, <3>1 DEF Queued
  <2>5. QED
    BY <2>2, <2>3, <2>4 DEF Drawn, Sent
<1>3. CASE Take
  <2>1. queue \in Seq(Event \cup {Close}) /\ queue # <<>> /\ queue' = Tail(queue)
    BY <1>3 DEF Take, TypeOK
  <2>2. ToSet(queue) = {Head(queue)} \cup ToSet(queue')
    BY <2>1, TailOnce
  <2>3. writing' \in {writing, Head(queue)} /\ (writing' = Head(queue) => Head(queue) # Close \/ writing' = writing)
    BY <1>3 DEF Take
  <2>4. UNCHANGED <<created, store, stream, sent>>
    BY <1>3 DEF Take, streaming
  <2>5. Queued' \subseteq Queued /\ ({writing'} \ {None}) \subseteq Queued \cup ({writing} \ {None})
    BY <2>2, <2>3 DEF Queued
  <2>6. QED
    BY <2>4, <2>5 DEF Drawn, Inbox, Sent
<1>4. CASE Stored
  <2>1. UNCHANGED <<created, queue, stream, sent>> /\ store' = store \cup {writing} /\ writing' = None
        /\ writing # None
    BY <1>4 DEF Stored, streaming
  <2>2. QED
    BY <2>1 DEF Drawn, Queued, Inbox, Sent
<1>5. CASE Stop \/ MarkerQueued
  <2>1. queue' = queue \/ queue' = Append(queue, Close)
    BY <1>5 DEF Stop, MarkerQueued
  <2>2. ToSet(Append(queue, Close)) = ToSet(queue) \cup {Close}
    BY AppendOnce DEF TypeOK
  <2>3. Queued' = Queued
    BY <2>1, <2>2 DEF Queued
  <2>4. UNCHANGED <<created, writing, store, stream, sent>>
    BY <1>5 DEF Stop, MarkerQueued, streaming
  <2>5. QED
    BY <2>3, <2>4 DEF Drawn, Inbox, Sent
<1>6. ASSUME UNCHANGED <<created, recording>>, Inbox' \cup Sent' \subseteq Inbox \cup Sent \cup store
      PROVE  \A e \in Queued' \cup ({writing'} \ {None}) \cup store' \cup Inbox' \cup Sent' :
               e <= created'
  BY <1>6 DEF recording, Drawn, Queued
<1>7. CASE Connect
  BY <1>6, <1>7, ConnectEffect
<1>8. CASE ReadPage
  <2>1. stream'.inbox = stream.inbox /\ sent' = sent
    BY <1>8 DEF ReadPage, TypeOK
  <2>2. QED
    BY <1>6, <1>8, <2>1 DEF ReadPage, Inbox, Sent
<1>9. CASE Replay
  <2>1. PICK e \in stream.page :
          /\ stream'.inbox = stream.inbox /\ Sent' = Sent \cup {e}
          /\ UNCHANGED <<created, recording>>
    BY <1>9, ReplayEffect
  <2>2. e \in store
    BY DEF Replaying
  <2>3. QED
    BY <1>6, <2>1, <2>2 DEF Inbox
<1>10. CASE Live
  <2>1. /\ Inbox' \cup Sent' \subseteq Inbox \cup Sent
        /\ UNCHANGED <<created, recording>>
    BY <1>10, LiveEffect DEF Sent
  <2>2. QED
    BY <1>6, <2>1
<1>11. CASE Disconnect
  BY <1>6, <1>11, DisconnectEffect
<1>12. CASE UNCHANGED vars
  BY <1>6, <1>12 DEF vars, streaming, Inbox, Sent
<1>13. QED
  BY <1>1, <1>2, <1>3, <1>4, <1>5, <1>7, <1>8, <1>9, <1>10, <1>11, <1>12 DEF Next

\* The places of an event that has left its publisher.
Reached == Queued \cup {writing} \cup store \cup Inbox \cup Sent

LEMMA NextWaiting ==
  ASSUME BusBounds, TypeOK, Drawn, Waiting, Replaying, [Next]_vars
  PROVE  Waiting'
<1>1. /\ \A p \in putting : p.event \in Event /\ p.event \in Nat /\ p.event # None
      /\ putting \subseteq [event : Event, subscribed : BOOLEAN]
      /\ created \in Nat
  BY DEF TypeOK, Event, None, BusBounds
<1>2. ASSUME created' = created, putting' \subseteq putting,
             \A p \in putting' : p.event \notin Reached',
             \A p \in putting' : p.subscribed => Subscribed' /\ stream'.cursor = stream.cursor,
             stalled' = stalled
      PROVE  Waiting'
  BY <1>2 DEF Waiting, Reached
<1>3. ASSUME UNCHANGED <<created, putting, stalled>>,
             Reached' \subseteq Reached \cup {None},
             stream'.at = stream.at \/ (stream'.at = "live" /\ Subscribed),
             stream'.cursor = stream.cursor
      PROVE  Waiting'
  <2>1. \A p \in putting' : p.event \notin Reached'
    BY <1>1, <1>3 DEF Waiting, Reached
  <2>2. \A p \in putting' : p.subscribed => Subscribed' /\ stream'.cursor = stream.cursor
    BY <1>3 DEF Waiting, Subscribed
  <2>3. QED
    BY <1>2, <1>3, <2>1, <2>2
<1>4. CASE Publish
  <2> DEFINE e == created + 1
  <2>1. e \in Event /\ created' = e /\ UNCHANGED <<writing, store, sent>>
    BY <1>4 DEF Publish, TypeOK, BusBounds, Event
  <2>2. CASE /\ queue' \in {queue, Append(queue, e)} /\ Fan(e, TRUE)
             /\ UNCHANGED <<putting, stalled>>
    <3>1. e \notin Inbox
      BY <1>1 DEF Drawn
    <3>2. /\ Inbox' \subseteq Inbox \cup {e}
          /\ stream'.at = stream.at /\ stream'.cursor = stream.cursor
      BY <2>1, <2>2, <3>1, FanEffect
    <3>3. Queued' \subseteq Queued \cup {e}
      <4>1. ToSet(Append(queue, e)) = ToSet(queue) \cup {e}
        BY <2>1, AppendOnce DEF TypeOK
      <4>2. QED
        BY <2>2, <4>1 DEF Queued
    <3>4. Reached' \subseteq Reached \cup {e}
      BY <2>1, <3>2, <3>3 DEF Reached, Sent
    <3>5. \A p \in putting : p.event # e /\ p.event <= created'
      BY <1>1, <2>1 DEF Waiting
    <3>6. QED
      BY <2>2, <3>2, <3>4, <3>5 DEF Waiting, Reached, Subscribed
  <2>3. CASE /\ putting' = putting \cup {[event |-> e, subscribed |-> Subscribed]}
             /\ stalled' = TRUE
             /\ UNCHANGED <<queue, stream, dropped>>
    <3>1. PICK new : new = [event |-> e, subscribed |-> Subscribed]
      OBVIOUS
    <3>2. new.event = e /\ (new.subscribed => Subscribed)
      BY <3>1
    <3>3. e \notin Reached
      <4>1. e \notin Queued \cup store \cup Inbox \cup Sent /\ (writing # None => e # writing)
        BY <1>1 DEF Drawn
      <4>2. e # None
        BY <1>1 DEF None
      <4>3. QED
        BY <4>1, <4>2 DEF Reached
    <3>4. Reached' = Reached
      BY <2>1, <2>3 DEF Reached, Queued, Inbox, Sent
    <3>5. Subscribed' = Subscribed /\ stream'.cursor = stream.cursor
      BY <2>3 DEF Subscribed
    <3>6. e > stream.cursor
      BY <1>1 DEF Drawn, TypeOK
    <3>7. \A p \in putting : p.event # e /\ p.event <= created'
      BY <1>1, <2>1 DEF Waiting
    <3>8. ASSUME NEW p \in putting'
          PROVE  /\ p.event <= created' /\ p.event \notin Reached'
                 /\ p.subscribed => Subscribed' /\ p.event > stream'.cursor
      <4>1. p \in putting \/ p = new
        BY <2>3, <3>1
      <4>2. CASE p \in putting
        BY <3>4, <3>5, <3>7, <4>2 DEF Waiting, Reached
      <4>3. CASE p = new
        BY <1>1, <2>1, <3>2, <3>3, <3>4, <3>5, <3>6, <4>3
      <4>4. QED
        BY <4>1, <4>2, <4>3
    <3>9. \A p, q \in putting' : p.event = q.event => p = q
      BY <2>3, <3>1, <3>2, <3>7 DEF Waiting
    <3>10. QED
      BY <2>3, <3>8, <3>9 DEF Waiting, Reached
  <2>4. QED
    BY <1>4, <2>2, <2>3 DEF Publish
<1>5. CASE PutResumes
  <2>1. PICK p \in putting : /\ queue' = Append(queue, p.event) /\ Fan(p.event, p.subscribed)
                             /\ putting' = putting \ {p}
                             /\ UNCHANGED <<created, stalled, writing, store, sent>>
    BY <1>5 DEF PutResumes
  <2>2. p.event \in Event /\ p.subscribed \in BOOLEAN /\ p.event \notin Inbox
    BY DEF TypeOK, Waiting
  <2>3. /\ Inbox' \subseteq Inbox \cup {p.event}
        /\ stream'.at = stream.at /\ stream'.cursor = stream.cursor
    BY <2>1, <2>2, FanEffect
  <2>4. Queued' \subseteq Queued \cup {p.event}
    <3>1. ToSet(Append(queue, p.event)) = ToSet(queue) \cup {p.event}
      BY <2>2, AppendOnce DEF TypeOK
    <3>2. QED
      BY <2>1, <3>1 DEF Queued
  <2>5. Reached' \subseteq Reached \cup {p.event}
    BY <2>1, <2>3, <2>4 DEF Reached, Sent
  <2>6. \A q \in putting' : q \in putting /\ q.event # p.event
    BY <2>1 DEF Waiting
  <2>7. \A q \in putting' : q.event \notin Reached'
    BY <2>5, <2>6 DEF Waiting, Reached
  <2>8. \A q \in putting' : q.subscribed => Subscribed' /\ stream'.cursor = stream.cursor
    BY <2>3, <2>6 DEF Waiting, Subscribed
  <2>9. QED
    BY <1>2, <2>1, <2>7, <2>8
<1>6. CASE Take
  <2>1. queue \in Seq(Event \cup {Close}) /\ queue # <<>> /\ queue' = Tail(queue)
    BY <1>6 DEF Take, TypeOK
  <2>2. ToSet(queue) = {Head(queue)} \cup ToSet(queue')
    BY <2>1, TailOnce
  <2>3. writing' = writing \/ (writing' = Head(queue) /\ Head(queue) # Close)
    BY <1>6 DEF Take
  <2>4. UNCHANGED <<created, putting, stalled, store, stream, sent>>
    BY <1>6 DEF Take, streaming
  <2>5. Queued' \subseteq Queued /\ writing' \in Queued \cup {writing}
    BY <2>2, <2>3 DEF Queued
  <2>6. Reached' \subseteq Reached
    BY <2>4, <2>5 DEF Reached, Inbox, Sent
  <2>7. QED
    BY <1>3, <2>4, <2>6
<1>7. CASE Stored
  <2>1. /\ UNCHANGED <<created, putting, stalled, queue, stream, sent>>
        /\ store' = store \cup {writing} /\ writing' = None
    BY <1>7 DEF Stored, streaming
  <2>2. Reached' \subseteq Reached \cup {None}
    BY <2>1 DEF Reached, Queued, Inbox, Sent
  <2>3. QED
    BY <1>3, <2>1, <2>2
<1>8. CASE Stop \/ MarkerQueued
  <2>1. queue' = queue \/ queue' = Append(queue, Close)
    BY <1>8 DEF Stop, MarkerQueued
  <2>2. ToSet(Append(queue, Close)) = ToSet(queue) \cup {Close}
    BY AppendOnce DEF TypeOK
  <2>3. Queued' = Queued
    BY <2>1, <2>2 DEF Queued
  <2>4. UNCHANGED <<created, putting, stalled, writing, store, stream, sent>>
    BY <1>8 DEF Stop, MarkerQueued, streaming
  <2>5. Reached' = Reached
    BY <2>3, <2>4 DEF Reached, Inbox, Sent
  <2>6. QED
    BY <1>3, <2>4, <2>5
<1>9. CASE Connect
  <2>1. /\ stream.at = "off" /\ Inbox' = {} /\ Sent' = {}
        /\ UNCHANGED <<created, putting, stalled, queue, writing, store>>
    BY <1>9, ConnectEffect DEF recording
  <2>2. \A p \in putting' : ~p.subscribed
    BY <2>1 DEF Waiting, Subscribed
  <2>3. Reached' \subseteq Reached
    BY <2>1 DEF Reached, Queued
  <2>4. \A p \in putting' : p.event \notin Reached'
    BY <2>1, <2>3 DEF Waiting, Reached
  <2>5. QED
    BY <1>2, <2>1, <2>2, <2>4
<1>10. CASE ReadPage
  <2>1. /\ stream'.inbox = stream.inbox /\ sent' = sent /\ stream'.cursor = stream.cursor
        /\ stream'.at = stream.at \/ (stream'.at = "live" /\ Subscribed)
        /\ UNCHANGED <<created, putting, stalled, queue, writing, store>>
    BY <1>10 DEF ReadPage, TypeOK, recording, Subscribed
  <2>2. Reached' = Reached
    BY <2>1 DEF Reached, Queued, Inbox, Sent
  <2>3. QED
    BY <1>3, <2>1, <2>2
<1>11. CASE Replay
  <2>1. PICK e \in stream.page :
          /\ stream'.inbox = stream.inbox /\ Sent' = Sent \cup {e}
          /\ stream'.at = stream.at /\ stream'.cursor = stream.cursor
          /\ UNCHANGED <<created, putting, stalled, recording>>
    BY <1>11, ReplayEffect
  <2>2. e \in store
    BY DEF Replaying
  <2>3. Reached' \subseteq Reached
    BY <2>1, <2>2 DEF Reached, Queued, Inbox, recording
  <2>4. QED
    BY <1>3, <2>1, <2>3
<1>12. CASE Live
  <2>1. /\ Inbox' \cup Sent' \subseteq Inbox \cup Sent
        /\ stream'.at = stream.at /\ stream'.cursor = stream.cursor
        /\ UNCHANGED <<created, putting, stalled, recording>>
    BY <1>12, LiveEffect DEF Sent
  <2>2. Reached' \subseteq Reached
    BY <2>1 DEF Reached, Queued, recording
  <2>3. QED
    BY <1>3, <2>1, <2>2
<1>13. CASE Disconnect
  <2>1. /\ Inbox' \subseteq Inbox /\ Sent' = {}
        /\ putting' = {[p EXCEPT !.subscribed = FALSE] : p \in putting}
        /\ UNCHANGED <<created, stalled, queue, writing, store>>
    BY <1>13, DisconnectEffect DEF recording
  <2>2. Reached' \subseteq Reached
    BY <2>1 DEF Reached, Queued
  <2>3. \A p \in putting : /\ [p EXCEPT !.subscribed = FALSE].event = p.event
                           /\ [p EXCEPT !.subscribed = FALSE].subscribed = FALSE
    BY <1>1
  <2>4. \A p \in putting' : ~p.subscribed /\ \E q \in putting : p.event = q.event
    BY <2>1, <2>3
  <2>5. \A p \in putting' : p.event <= created' /\ p.event \notin Reached'
    BY <2>1, <2>2, <2>4 DEF Waiting, Reached
  <2>6. ASSUME NEW p \in putting', NEW q \in putting', p.event = q.event PROVE p = q
    <3>1. PICK a \in putting, b \in putting : /\ p = [a EXCEPT !.subscribed = FALSE]
                                              /\ q = [b EXCEPT !.subscribed = FALSE]
      BY <2>1
    <3>2. a.event = b.event
      BY <2>3, <2>6, <3>1
    <3>3. QED
      BY <3>1, <3>2 DEF Waiting
  <2>7. ~stalled' => putting' = {}
    BY <2>1 DEF Waiting
  <2>8. QED
    BY <2>4, <2>5, <2>6, <2>7 DEF Waiting, Reached
<1>14. CASE UNCHANGED vars
  <2>1. UNCHANGED <<created, putting, stalled, queue, writing, store, stream, sent>>
    BY <1>14 DEF vars, recording, streaming
  <2>2. Reached' = Reached
    BY <2>1 DEF Reached, Queued, Inbox, Sent
  <2>3. QED
    BY <1>3, <2>1, <2>2
<1>15. QED
  BY <1>4, <1>5, <1>6, <1>7, <1>8, <1>9, <1>10, <1>11, <1>12, <1>13, <1>14 DEF Next

-----------------------------------------------------------------------------
(* The stream stays in order *)

\* A page is empty only at the end, and leaves nothing out before its last.
LEMMA PageIsWhole ==
  ASSUME BusBounds, TypeOK
  PROVE  /\ Page \subseteq {e \in store : e > stream.last}
         /\ \A h \in store : h > stream.last => Page # {}
         /\ \A h \in store, f \in Page : stream.last < h /\ h < f => h \in Page
<1> DEFINE after == {e \in store : e > stream.last}
           Before(e) == {f \in after : f < e}
<1>1. Page = {e \in after : Cardinality(Before(e)) < PageSize}
  BY DEF Page
<1>2. /\ MaxEvents \in Nat /\ PageSize \in Nat \ {0}
      /\ after \subseteq Event /\ Event = 1 .. MaxEvents /\ stream.last \in Nat
  <2>1. MaxEvents \in Nat /\ PageSize \in Nat \ {0}
    BY DEF BusBounds
  <2>2. stream.last \in 0 .. MaxEvents /\ store \subseteq Event
    BY DEF TypeOK
  <2>3. Event = 1 .. MaxEvents
    BY DEF Event
  <2>4. after \subseteq Event
    BY <2>2
  <2>5. stream.last \in Nat
    BY <2>1, <2>2
  <2>6. QED
    BY <2>1, <2>3, <2>4, <2>5
<1>3. ASSUME NEW e \in after PROVE IsFiniteSet(Before(e)) /\ Cardinality(Before(e)) \in Nat
  <2>1. IsFiniteSet(1 .. MaxEvents)
    BY <1>2, FS_Interval
  <2>2. Before(e) \subseteq 1 .. MaxEvents
    BY <1>2
  <2>3. QED
    BY <2>1, <2>2, FS_Subset, FS_CardinalityType
<1>4. ASSUME NEW h \in store, h > stream.last PROVE Page # {}
  <2>1. after # {} /\ \A q \in after : q \in 0 .. MaxEvents
    BY <1>2, <1>4
  <2>2. PICK p \in after : \A q \in after : p <= q
    <3> HIDE DEF after
    <3>1. QED
      BY <1>2, <2>1, LeastExists
  <2>3. Before(p) = {}
    BY <1>2, <2>2
  <2>4. Cardinality(Before(p)) = 0
    BY <2>3, FS_EmptySet
  <2>5. p \in Page
    BY <1>1, <1>2, <2>4
  <2>6. QED
    BY <2>5
<1>5. ASSUME NEW h \in store, NEW f \in Page, stream.last < h, h < f PROVE h \in Page
  <2>1. h \in after /\ f \in after /\ Cardinality(Before(f)) < PageSize
    BY <1>1, <1>2, <1>5
  <2>2. Before(h) \subseteq Before(f)
    BY <1>2, <1>5, <2>1
  <2>3. Cardinality(Before(h)) <= Cardinality(Before(f))
    BY <1>3, <2>1, <2>2, FS_Subset
  <2>4. PICK m \in Nat, n \in Nat : m = Cardinality(Before(h)) /\ n = Cardinality(Before(f))
    BY <1>3, <2>1
  <2>5. Cardinality(Before(h)) < PageSize
    <3> HIDE DEF Before, after
    <3>1. m <= n /\ n < PageSize
      BY <2>1, <2>3, <2>4
    <3>2. m < PageSize
      BY <1>2, <2>4, <3>1
    <3>3. QED
      BY <2>4, <3>2
  <2>6. QED
    BY <1>1, <2>1, <2>5
<1>6. QED
  BY <1>1, <1>4, <1>5

LEMMA NextStreaming ==
  ASSUME BusBounds, TypeOK, Drawn, Waiting, Streaming, [Next]_vars
  PROVE  Streaming'
<1>1. /\ created \in Nat /\ stalled \in BOOLEAN
      /\ stream.cursor \in Nat /\ stream.last \in Nat
      /\ \A e \in Event : e \in Nat
      /\ Sent \subseteq Event /\ Inbox \subseteq Event
      /\ store \subseteq Event /\ history \subseteq Event /\ stream.page \subseteq Event
  <2>1. Sent \subseteq Event /\ Inbox \subseteq Event
    BY ElementsAreEvents
  <2>2. QED
    BY <2>1 DEF TypeOK, Event, BusBounds
<1>2. CASE Publish
  <2> DEFINE e == created + 1
  <2>1. e \in Event /\ UNCHANGED <<store, sent, history>>
    BY <1>2 DEF Publish, TypeOK, BusBounds, Event
  <2>2. CASE Fan(e, TRUE) /\ UNCHANGED <<putting, stalled>>
    <3>1. \A f \in Inbox \cup Sent : f < e
      BY <1>1 DEF Drawn
    <3>2. e > stream.cursor /\ e \notin Inbox \cup Sent
      BY <1>1, <3>1 DEF Drawn
    <3>3. QED
      BY <2>1, <2>2, <3>1, <3>2, ArrivalKeeps
  <2>3. CASE stalled' = TRUE /\ UNCHANGED <<queue, stream, dropped>>
    BY <1>1, <2>1, <2>3, StreamLeftAlone
  <2>4. QED
    BY <1>2, <2>2, <2>3 DEF Publish
<1>3. CASE PutResumes
  <2>1. PICK p \in putting : Fan(p.event, p.subscribed)
    BY <1>3 DEF PutResumes
  <2>2. /\ p.event \in Event /\ p.subscribed \in BOOLEAN
        /\ p.event \notin Inbox \cup Sent
        /\ p.subscribed => p.event > stream.cursor
        /\ stalled
        /\ UNCHANGED <<sent, history, store, stalled>>
    BY <1>3 DEF PutResumes, TypeOK, Waiting
  <2>3. QED
    BY <2>1, <2>2, ArrivalKeeps
<1>4. CASE Take \/ Stored \/ Stop \/ MarkerQueued \/ UNCHANGED vars
  <2>1. store \subseteq store' /\ UNCHANGED <<stream, sent, history, stalled>>
    BY <1>4 DEF Take, Stored, Stop, MarkerQueued, vars, streaming, recording
  <2>2. QED
    BY <1>1, <2>1, StreamLeftAlone
<1>5. CASE Connect
  <2>1. /\ \/ stream'.at = "replay" /\ stream'.cursor = stream'.last
           \/ stream'.at = "live" /\ stream'.cursor = created
        /\ stream'.page = {} /\ stream'.inbox = <<>> /\ sent' = <<>>
        /\ Inbox' = {} /\ Sent' = {} /\ history' = store /\ store' = store
        /\ stream'.cursor \in Nat
    BY <1>1, <1>5, ConnectEffect DEF recording
  <2>2. IsInjective(<<>>) /\ Increasing(<<>>)
    BY DEF IsInjective, Increasing
  <2>3. Replaying'
    BY <2>1 DEF Replaying
  <2>4. Ahead'
    BY <2>1, <2>2 DEF Ahead
  <2>5. StreamInOrder'
    BY <2>1, <2>2 DEF StreamInOrder, Sent, Increasing
  <2>6. \A h \in store : ~(h > created)
    BY <1>1 DEF Drawn
  <2>7. Whole'
    BY <2>1, <2>6 DEF Whole, HistoryReplayed
  <2>8. QED
    BY <2>3, <2>4, <2>5, <2>7 DEF Streaming
<1>6. CASE ReadPage
  <2>1. /\ stream.at = "replay" /\ stream.page = {}
        /\ stream'.inbox = stream.inbox /\ stream'.cursor = stream.cursor
        /\ stream'.last = stream.last
        /\ \/ Page = {} /\ stream'.at = "live" /\ stream'.page = {}
           \/ Page # {} /\ stream'.at = "replay" /\ stream'.page = Page
        /\ UNCHANGED <<store, stalled, sent, history>>
    BY <1>6 DEF ReadPage, TypeOK, recording
  <2>2. Inbox' = Inbox /\ Sent' = Sent
    BY <2>1 DEF Inbox, Sent
  <2>3. Replaying'
    BY <2>1, <2>2, PageIsWhole DEF Streaming, Replaying
  <2>4. Ahead'
    BY <2>1, <2>2 DEF Streaming, Ahead, Subscribed
  <2>5. StreamInOrder'
    BY <2>1 DEF Streaming, StreamInOrder
  <2>6. Whole'
    <3>1. CASE Page = {}
      <4>1. \A h \in history : h > stream.cursor => h \in Sent
        BY <2>1, <3>1, PageIsWhole DEF Streaming, Whole
      <4>2. QED
        BY <2>1, <2>2, <3>1, <4>1 DEF Streaming, Whole, HistoryReplayed, Sent
    <3>2. CASE Page # {}
      <4>1. \A h \in history, f \in Page : stream.last < h /\ h < f => h \in Page
        BY PageIsWhole DEF Streaming, Whole
      <4>2. QED
        BY <2>1, <2>2, <3>2, <4>1 DEF Streaming, Whole, HistoryReplayed
    <3>3. QED
      BY <3>1, <3>2
  <2>7. QED
    BY <2>3, <2>4, <2>5, <2>6 DEF Streaming
<1>7. CASE Replay
  <2>1. PICK e \in stream.page :
          /\ \A f \in stream.page : e <= f
          /\ stream'.at = stream.at /\ stream'.cursor = stream.cursor
          /\ stream'.inbox = stream.inbox
          /\ stream'.page = stream.page \ {e} /\ stream'.last = e
          /\ Sent' = Sent \cup {e}
          /\ IsInjective(sent) /\ e \notin Sent => IsInjective(sent')
          /\ Increasing(sent) /\ (\A f \in Sent : f < e) => Increasing(sent')
          /\ UNCHANGED <<created, putting, stalled, recording, history>>
    BY <1>7, ReplayEffect
  <2>2. /\ stream.at = "replay" /\ e > stream.last /\ e \in Nat
        /\ stream.cursor <= stream.last
        /\ \A f \in Sent : f < e
        /\ store' = store /\ Inbox' = Inbox /\ stalled' = stalled
    BY <1>1, <2>1 DEF Streaming, Replaying, Inbox, recording
  <2>3. e \notin Sent /\ e > stream.cursor
    BY <1>1, <2>2
  <2>4. Replaying'
    BY <1>1, <2>1, <2>2 DEF Streaming, Replaying
  <2>5. Ahead'
    <3>1. \A f \in Inbox : f > e => f > stream.last /\ f # e
      BY <1>1, <2>2
    <3>2. QED
      BY <1>1, <2>1, <2>2, <3>1 DEF Streaming, Ahead, Subscribed
  <2>6. StreamInOrder'
    <3>1. stalled \/ Increasing(sent)
      BY DEF Streaming, StreamInOrder, Increasing
    <3>2. QED
      BY <2>1, <2>2, <2>3, <3>1 DEF Streaming, StreamInOrder, Sent, Increasing
  <2>7. Whole'
    <3>1. ASSUME NEW h \in history, h > stream.cursor PROVE h \in Sent' \/ h > e
      <4>1. h \in Sent \/ h > stream.last
        BY <2>2, <3>1 DEF Streaming, Whole
      <4>2. h < e /\ h > stream.last => h \in stream.page
        BY <2>1 DEF Streaming, Whole
      <4>3. QED
        BY <1>1, <2>1, <2>2, <4>1, <4>2
    <3>2. \A h \in history, f \in stream.page \ {e} : e < h /\ h < f => h \in stream.page \ {e}
      BY <1>1, <2>2 DEF Streaming, Whole
    <3>3. QED
      BY <2>1, <2>2, <3>1, <3>2 DEF Streaming, Whole, HistoryReplayed
  <2>8. QED
    BY <2>4, <2>5, <2>6, <2>7 DEF Streaming
<1>8. CASE Live
  <2>1. PICK e \in Event :
          /\ stream.at = "live" /\ stream'.at = "live" /\ stream'.cursor = stream.cursor
          /\ stream'.page = stream.page /\ stream'.last = stream.last
          /\ Inbox = {e} \cup Inbox'
          /\ IsInjective(stream.inbox) => IsInjective(stream'.inbox) /\ e \notin Inbox'
          /\ Increasing(stream.inbox) =>
               Increasing(stream'.inbox) /\ \A f \in Inbox' : e < f
          /\ \/ ~(e > stream.last) /\ UNCHANGED sent
             \/ /\ e > stream.last
                /\ Sent' = Sent \cup {e}
                /\ IsInjective(sent) /\ e \notin Sent => IsInjective(sent')
                /\ Increasing(sent) /\ (\A f \in Sent : f < e) => Increasing(sent')
          /\ UNCHANGED <<created, putting, stalled, recording, history>>
    BY <1>8, LiveEffect
  <2>2. /\ store' = store /\ stalled' = stalled /\ Subscribed
        /\ Sent \subseteq Sent'
        /\ Sent' \subseteq Sent \cup {e}
    BY <2>1 DEF recording, Subscribed, Sent
  <2>3. e > stream.last => e \notin Sent /\ e > stream.cursor /\ (~stalled => \A f \in Sent : f < e)
    BY <2>1, <2>2 DEF Streaming, Ahead
  <2>4. Replaying'
    BY <2>1, <2>2 DEF Streaming, Replaying
  <2>5. Ahead'
    BY <2>1, <2>2 DEF Streaming, Ahead, Subscribed
  <2>6. StreamInOrder'
    <3>1. stalled \/ Increasing(sent)
      BY DEF Streaming, StreamInOrder, Increasing
    <3>2. CASE sent' = sent
      BY <2>1, <2>2, <3>2 DEF Streaming, StreamInOrder
    <3>3. CASE e > stream.last
      BY <2>1, <2>2, <2>3, <3>1, <3>3 DEF Streaming, StreamInOrder, Sent, Increasing
    <3>4. QED
      BY <2>1, <3>2, <3>3
  <2>7. Whole'
    BY <2>1, <2>2 DEF Streaming, Whole, HistoryReplayed, Sent
  <2>8. QED
    BY <2>4, <2>5, <2>6, <2>7 DEF Streaming
<1>9. CASE Disconnect
  <2>1. /\ stream'.at \in {"off", "closing"} /\ stream'.page = {}
        /\ Sent' = {} /\ sent' = <<>> /\ history' = {}
    BY <1>9, DisconnectEffect
  <2>2. Replaying' /\ Ahead'
    BY <2>1 DEF Replaying, Ahead, Subscribed
  <2>3. IsInjective(<<>>) /\ Increasing(<<>>)
    BY DEF IsInjective, Increasing
  <2>4. StreamInOrder'
    BY <2>1, <2>3 DEF StreamInOrder, Sent, Increasing
  <2>5. Whole'
    BY <2>1 DEF Whole, HistoryReplayed
  <2>6. QED
    BY <2>2, <2>4, <2>5 DEF Streaming
<1>10. QED
  BY <1>2, <1>3, <1>4, <1>5, <1>6, <1>7, <1>8, <1>9 DEF Next

-----------------------------------------------------------------------------

LEMMA InitSound == ASSUME BusBounds PROVE Init => IInv
<1> SUFFICES ASSUME Init PROVE IInv
  OBVIOUS
<1>1. /\ NoStream.inbox = <<>> /\ NoStream.page = {} /\ NoStream.at = "off"
      /\ NoStream.cursor = 0
      /\ stream = NoStream
  BY NoStreamTypes DEF Init
<1>2. <<>> \in Seq(Event) /\ <<>> \in Seq(Event \cup {Close}) /\ Len(<<>>) = 0
  OBVIOUS
<1>3. TypeOK
  <2>1. /\ created \in 0 .. MaxEvents
        /\ putting \subseteq [event : Event, subscribed : BOOLEAN]
        /\ store \subseteq Event /\ settled \subseteq Event /\ history \subseteq Event
    BY DEF Init, BusBounds
  <2>2. /\ writing \in Event \cup {None}
        /\ recorder \in {"up", "closing", "draining", "stopped"}
        /\ stalled \in BOOLEAN /\ dropped \in BOOLEAN
    BY DEF Init
  <2>3. 0 <= QueueSize /\ 0 <= InboxSize
    BY DEF BusBounds
  <2>4. queue \in Seq(Event \cup {Close}) /\ sent \in Seq(Event)
    BY <1>2, Zenon DEF Init
  <2>5. Len(queue) <= QueueSize /\ Len(stream.inbox) <= InboxSize
    BY <1>1, <1>2, <2>3 DEF Init
  <2>6. stream \in [at : {"off", "replay", "live", "closing"}, cursor : 0 .. MaxEvents,
                    last : 0 .. MaxEvents, page : SUBSET Event, inbox : Seq(Event)]
    BY <1>1, NoStreamTypes
  <2>7. QED
    BY <2>1, <2>2, <2>4, <2>5, <2>6 DEF TypeOK
<1>4. Queued = {} /\ Inbox = {} /\ Sent = {} /\ ToSet(queue) = {}
  BY <1>1 DEF Init, Queued, Inbox, Sent, ToSet
<1>5. Kept
  BY <1>4 DEF Init, Kept, Settled
<1>6. Drawn /\ Waiting /\ Replaying /\ Ahead
  BY <1>1, <1>4 DEF Init, Drawn, Waiting, Replaying, Ahead, Subscribed
<1>7. IsInjective(<<>>) /\ Increasing(<<>>)
  BY DEF IsInjective, Increasing
<1>8. StreamInOrder
  BY <1>4, <1>7 DEF Init, StreamInOrder, Sent, Increasing
<1>9. Whole
  BY <1>1 DEF Init, Whole, HistoryReplayed
<1>10. QED
  BY <1>3, <1>5, <1>6, <1>8, <1>9 DEF IInv

LEMMA NextSound == ASSUME BusBounds PROVE IInv /\ [Next]_vars => IInv'
<1> SUFFICES ASSUME IInv, [Next]_vars PROVE IInv'
  OBVIOUS
<1>1. TypeOK' /\ Kept'
  BY NextTypeOK, NextKept DEF IInv
<1>2. Drawn' /\ Waiting'
  BY NextDrawn, NextWaiting DEF IInv
<1>3. Streaming'
  BY NextStreaming DEF IInv, Streaming
<1>4. QED
  BY <1>1, <1>2, <1>3 DEF IInv, Streaming

\* The recorder's queue, the store, the waiting publishers and the connection
\* stay well typed, and the two queues within their sizes.
THEOREM TypeCorrect == ASSUME BusBounds PROVE Spec => []TypeOK
<1>1. IInv => TypeOK
  BY DEF IInv
<1>2. QED
  BY InitSound, NextSound, <1>1, PTL DEF Spec

\* "At-least-once" (recorder.py:4): what was published before the recorder was
\* told to stop is stored when it has stopped (EventRecorder.stop).
THEOREM StopKeepsEvents == ASSUME BusBounds PROVE Spec => []KeptAtStop
<1>1. IInv => KeptAtStop
  BY DEF IInv, Kept, KeptAtStop
<1>2. QED
  BY InitSound, NextSound, <1>1, PTL DEF Spec

\* "The ULID cursor deduplicates the overlap" (app.py:1239): what a client is
\* sent on one connection comes from after its cursor, once, and in order.
THEOREM ClientReadsInOrder == ASSUME BusBounds PROVE Spec => []StreamInOrder
<1>1. IInv => StreamInOrder
  BY DEF IInv
<1>2. QED
  BY InitSound, NextSound, <1>1, PTL DEF Spec

\* "Subscribe before replaying so nothing falls in the gap" (app.py:1238): a
\* client that goes live has been sent all that was stored when it subscribed.
THEOREM ClientReadsHistory == ASSUME BusBounds PROVE Spec => []HistoryReplayed
<1>1. IInv => HistoryReplayed
  BY DEF IInv, Whole
<1>2. QED
  BY InitSound, NextSound, <1>1, PTL DEF Spec

=============================================================================
