---------------------------- MODULE MediationProofs ----------------------------
(***************************************************************************)
(* Proofs about Mediation, for any sets of keys, interaction ids and       *)
(* callbacks and any bounds: the catalogue is well typed, an interaction   *)
(* is resolved at most once, and a blocked agent is answered at most once. *)
(*                                                                         *)
(* OneResolution is not inductive: a handler that resolves an interaction  *)
(* looks only at `status` and `pendingBy`, so the proof needs what these   *)
(* two say of the events already published (PendingIsOpen, KeyOfPending),  *)
(* and, for the fold that gives them their values after a restart, that a  *)
(* request precedes its resolution in event-id order (RequestedFirst).     *)
(*                                                                         *)
(* From the same invariant: memory is the fold of the log                  *)
(* (MemoryIsFoldOfLog), the log refines InteractionOnce, and, with what a  *)
(* running server keeps for a pending interaction (PendingIsServed), the   *)
(* inbox shows no zombies (NoZombies).                                     *)
(***************************************************************************)
EXTENDS Mediation, TLAPS

\* Event ids already used are below the counter.
EidsUsed == \A e \in Published : e.eid < nextEid

\* An event names an interaction that was drawn.
EventsDrawn == \A e \in Published : request[e.id] # None

\* A request precedes the resolution of the same interaction.
RequestedFirst ==
  \A e, f \in Published :
    (e.id = f.id /\ e.type = "requested" /\ f.type \in Resolutions) => e.eid < f.eid

\* A pending interaction has no resolution anywhere.
PendingIsOpen ==
  \A i \in Ids : status[i] = "pending" =>
    /\ request[i] # None
    /\ \A e \in Published : e.id = i => e.type = "requested"

\* The pending index only names pending interactions of that key.
KeyOfPending ==
  \A k \in Keys : pendingBy[k] # None =>
    /\ status[pendingBy[k]] = "pending"
    /\ request[pendingBy[k]].key = k

\* A process that is not running holds nothing.
DownIsEmpty == phase = "down" => calls = {} /\ queued = {} /\ dropped = {}

IInv ==
  /\ TypeOK
  /\ EidsUsed
  /\ EventsDrawn
  /\ RequestedFirst
  /\ PendingIsOpen
  /\ KeyOfPending
  /\ DownIsEmpty
  /\ OneResolution

-----------------------------------------------------------------------------

\* Publishing a fresh event adds exactly that event to the published ones.
LEMMA PublishAdds ==
  ASSUME TypeOK, NEW type, NEW i, NEW to, Publish(type, i, to),
         UNCHANGED <<queued, stored, dropped>>
  PROVE  Published' = Published \cup {[eid |-> nextEid, type |-> type, id |-> i]}
<1> DEFINE ev == [eid |-> nextEid, type |-> type, id |-> i]
           new == [event |-> ev, to |-> to, at |-> "publish"]
           Suspended == {d \in calls : d.at = "publish"}
<1> HIDE DEF ev
<1>1. calls' = calls \cup {new}
  BY DEF Publish, ev
<1>2. new.at = "publish" /\ new.event = ev
  OBVIOUS
<1> HIDE DEF new
<1>3. Suspended' = Suspended \cup {new}
  BY <1>1, <1>2
<1> HIDE DEF Suspended
<1>4. {c.event : c \in Suspended'} = {c.event : c \in Suspended} \cup {ev}
  BY <1>2, <1>3
<1>5. QED
  BY <1>4 DEF Published, InFlight, Suspended, ev

\* Resolving a pending interaction preserves the invariant.
LEMMA ResolveKeepsIInv ==
  ASSUME IInv, NEW i \in Ids, NEW o \in Resolutions, NEW to \in Callbacks \cup {None},
         status[i] = "pending", Resolve(i, o, to), phase # "down", phase' = phase
  PROVE  IInv'
<1> DEFINE ev == [eid |-> nextEid, type |-> o, id |-> i]
<1> USE DEF IInv
<1>1. /\ status' = [status EXCEPT ![i] = o]
      /\ pendingBy' = [pendingBy EXCEPT ![request[i].key] = None]
      /\ deliver' = [deliver EXCEPT ![i] = None]
      /\ timers' = timers \ {i}
      /\ Publish(o, i, to)
      /\ UNCHANGED <<request, queued, stored, dropped, heard, restarts>>
  BY DEF Resolve
<1>2. Published' = Published \cup {ev}
  BY <1>1, PublishAdds
<1>3. nextEid' = nextEid + 1 /\ nextEid \in Nat
  BY <1>1 DEF Publish, TypeOK
<1>4. Published \subseteq Events
  BY DEF TypeOK, Published, InFlight, Calls
<1>5. /\ request[i] # None
      /\ \A e \in Published : e.id = i => e.type = "requested"
  BY DEF PendingIsOpen
<1>6. TypeOK'
  <2>1. ev \in Events
    BY DEF TypeOK, Events
  <2>2. calls' \subseteq Calls
    BY <2>1, <1>1 DEF TypeOK, Publish, Calls
  <2>3. status' \in [Ids -> {"unknown", "pending"} \cup Resolutions]
    BY <1>1 DEF TypeOK
  <2>4. /\ pendingBy' \in [Keys -> Ids \cup {None}]
        /\ deliver' \in [Ids -> Callbacks \cup {None}]
        /\ timers' \subseteq Ids
    BY <1>1 DEF TypeOK
  <2>5. QED
    BY <1>1, <1>3, <2>2, <2>3, <2>4 DEF TypeOK
<1>7. EidsUsed'
  BY <1>2, <1>3, <1>4 DEF EidsUsed, Events
<1>8. EventsDrawn'
  BY <1>1, <1>2, <1>5 DEF EventsDrawn
<1>9. RequestedFirst'
  BY <1>2, <1>3, <1>4, <1>5 DEF RequestedFirst, EidsUsed, Events, Resolutions
<1>10. PendingIsOpen'
  BY <1>1, <1>2 DEF PendingIsOpen, TypeOK, Resolutions
<1>11. KeyOfPending'
  <2> SUFFICES ASSUME NEW k \in Keys, pendingBy'[k] # None
               PROVE  status'[pendingBy'[k]] = "pending" /\ request'[pendingBy'[k]].key = k
    BY DEF KeyOfPending
  <2>1. pendingBy'[k] = pendingBy[k] /\ k # request[i].key
    BY <1>1 DEF TypeOK
  <2>2. pendingBy[k] # i
    BY <2>1 DEF KeyOfPending
  <2>3. QED
    BY <1>1, <2>1, <2>2 DEF KeyOfPending, TypeOK
<1>12. OneResolution'
  BY <1>2, <1>5 DEF OneResolution, Resolutions
<1>13. QED
  BY <1>6, <1>7, <1>8, <1>9, <1>10, <1>11, <1>12 DEF DownIsEmpty

\* A step that moves events between handlers, queue, store and the dropped
\* ones, and leaves the catalogue alone, preserves the invariant.
LEMMA MovingKeepsIInv ==
  ASSUME IInv, TypeOK', Published' = Published, DownIsEmpty',
         UNCHANGED <<request, status, pendingBy, nextEid>>
  PROVE  IInv'
BY DEF IInv, EidsUsed, EventsDrawn, RequestedFirst, PendingIsOpen, KeyOfPending,
       OneResolution

-----------------------------------------------------------------------------

LEMMA InitIInv == Init => IInv
<1> SUFFICES ASSUME Init PROVE IInv
  OBVIOUS
<1>1. Published = {}
  BY DEF Init, Published, InFlight
<1>2. TypeOK
  BY DEF Init, TypeOK
<1>3. QED
  BY <1>1, <1>2 DEF Init, IInv, EidsUsed, EventsDrawn, RequestedFirst,
     PendingIsOpen, KeyOfPending, DownIsEmpty, OneResolution

LEMMA OpenKeepsIInv ==
  ASSUME IInv, NEW k \in Keys, NEW i \in Ids, NEW kind \in Kinds,
         NEW timed \in BOOLEAN, NEW cb \in Callbacks, Open(k, i, kind, timed, cb)
  PROVE  IInv'
<1> DEFINE ev == [eid |-> nextEid, type |-> "requested", id |-> i]
           req == [key |-> k, kind |-> kind, timed |-> timed]
<1> USE DEF IInv
<1>1. /\ phase = "running" /\ phase' = phase
      /\ pendingBy[k] = None /\ request[i] = None
      /\ request' = [request EXCEPT ![i] = req]
      /\ status' = [status EXCEPT ![i] = "pending"]
      /\ pendingBy' = [pendingBy EXCEPT ![k] = i]
      /\ deliver' = [deliver EXCEPT ![i] = cb]
      /\ timers' \subseteq timers \cup {i}
      /\ Publish("requested", i, None)
      /\ UNCHANGED <<queued, stored, dropped, heard, restarts>>
  BY DEF Open
<1>2. Published' = Published \cup {ev}
  BY <1>1, PublishAdds
<1>3. nextEid' = nextEid + 1 /\ nextEid \in Nat
  BY <1>1 DEF Publish, TypeOK
<1>4. Published \subseteq Events
  BY DEF TypeOK, Published, InFlight, Calls
<1>5. req \in Requests /\ req # None /\ req.key = k
  <2>1. req \in Requests
    BY DEF Requests
  <2>2. req # None
    BY NoneIsNoRequest, <2>1
  <2>3. QED
    BY <2>1, <2>2
<1>6. \A e \in Published : e.id # i
  BY <1>1 DEF EventsDrawn
<1>7. TypeOK'
  <2>1. ev \in Events
    BY DEF TypeOK, Events
  <2>2. calls' \subseteq Calls
    BY <2>1, <1>1 DEF TypeOK, Publish, Calls
  <2>3. request' \in [Ids -> Requests \cup {None}]
    BY <1>1, <1>5 DEF TypeOK
  <2>4. status' \in [Ids -> {"unknown", "pending"} \cup Resolutions]
    BY <1>1 DEF TypeOK
  <2>5. /\ pendingBy' \in [Keys -> Ids \cup {None}]
        /\ deliver' \in [Ids -> Callbacks \cup {None}]
        /\ timers' \subseteq Ids
    BY <1>1 DEF TypeOK
  <2>6. QED
    BY <1>1, <1>3, <2>2, <2>3, <2>4, <2>5 DEF TypeOK
<1>8. EidsUsed'
  BY <1>2, <1>3, <1>4 DEF EidsUsed, Events
<1>9. EventsDrawn'
  BY <1>1, <1>2, <1>5, <1>6, <1>4 DEF EventsDrawn, TypeOK, Events
<1>10. RequestedFirst'
  BY <1>2, <1>6 DEF RequestedFirst, Resolutions
<1>11. PendingIsOpen'
  BY <1>1, <1>2, <1>5, <1>6 DEF PendingIsOpen, TypeOK
<1>12. KeyOfPending'
  <2> SUFFICES ASSUME NEW q \in Keys, pendingBy'[q] # None
               PROVE  status'[pendingBy'[q]] = "pending" /\ request'[pendingBy'[q]].key = q
    BY DEF KeyOfPending
  <2>1. CASE q = k
    BY <2>1, <1>1, <1>5 DEF TypeOK
  <2>2. CASE q # k
    <3>1. pendingBy'[q] = pendingBy[q] /\ pendingBy[q] \in Ids
      BY <2>2, <1>1 DEF TypeOK
    <3>2. pendingBy[q] # i
      BY <3>1, <1>1 DEF KeyOfPending, PendingIsOpen
    <3>3. QED
      BY <1>1, <3>1, <3>2 DEF KeyOfPending, TypeOK
  <2>3. QED
    BY <2>1, <2>2
<1>13. OneResolution'
  BY <1>2 DEF OneResolution, Resolutions
<1>14. QED
  BY <1>1, <1>7, <1>8, <1>9, <1>10, <1>11, <1>12, <1>13 DEF DownIsEmpty

LEMMA ReopenKeepsIInv ==
  ASSUME IInv, NEW k \in Keys, NEW cb \in Callbacks, Reopen(k, cb)
  PROVE  IInv'
<1>1. TypeOK'
  BY DEF IInv, TypeOK, Reopen
<1>2. Published' = Published
  BY DEF Reopen, Published, InFlight
<1>3. QED
  BY <1>1, <1>2, MovingKeepsIInv DEF Reopen, IInv, DownIsEmpty

\* An event that goes from its publish to the queue stays published.
LEMMA PublishReturnsMoves ==
  ASSUME NEW c \in calls, c \in Calls, PublishReturns(c)
  PROVE  Published' = Published
<1> DEFINE Suspended == {d \in calls : d.at = "publish"}
<1>1. Suspended' = Suspended \ {c}
  <2>1. [c EXCEPT !.at = "deliver"].at = "deliver"
    BY DEF Calls
  <2>2. QED
    BY <2>1 DEF PublishReturns
<1>2. c \in Suspended
  BY DEF PublishReturns
<1> HIDE DEF Suspended
<1>3. {d.event : d \in Suspended'} \cup {c.event} = {d.event : d \in Suspended}
  BY <1>1, <1>2
<1>4. InFlight' = InFlight
  BY <1>3 DEF InFlight, PublishReturns, Suspended
<1>5. QED
  BY <1>4 DEF Published, PublishReturns

\* A delivery publishes nothing.
LEMMA DeliveryMoves ==
  ASSUME NEW c \in calls, Deliver(c) \/ DeliverFails(c)
  PROVE  Published' = Published
<1>1. c.at = "deliver" /\ calls' = calls \ {c} /\ UNCHANGED <<queued, stored, dropped>>
  BY DEF Deliver, DeliverFails
<1>2. {d \in calls' : d.at = "publish"} = {d \in calls : d.at = "publish"}
  BY <1>1
<1>3. QED
  BY <1>1, <1>2 DEF Published, InFlight

LEMMA PublishReturnsKeepsIInv ==
  ASSUME IInv, NEW c \in calls, PublishReturns(c)
  PROVE  IInv'
<1>1. /\ c.at = "publish" /\ c \in Calls
      /\ c.event \in Events /\ c.to \in Callbacks \cup {None}
  BY DEF IInv, TypeOK, PublishReturns, Calls
<1>2. phase # "down"
  BY DEF IInv, DownIsEmpty
<1>3. calls' \subseteq Calls
  <2>1. c.to # None => [c EXCEPT !.at = "deliver"] \in [event: Events, to: Callbacks, at: {"deliver"}]
    BY <1>1 DEF Calls
  <2>2. QED
    BY <2>1 DEF IInv, TypeOK, PublishReturns, Calls
<1>4. TypeOK'
  BY <1>1, <1>3 DEF IInv, TypeOK, PublishReturns, catalogue
<1>5. Published' = Published
  BY <1>1, PublishReturnsMoves
<1>6. QED
  BY <1>2, <1>4, <1>5, MovingKeepsIInv DEF PublishReturns, catalogue, DownIsEmpty

LEMMA DeliveryKeepsIInv ==
  ASSUME IInv, NEW c \in calls, Deliver(c) \/ DeliverFails(c)
  PROVE  IInv'
<1>1. c.at = "deliver" /\ calls' = calls \ {c} /\ UNCHANGED <<queued, stored, dropped, phase>>
  BY DEF Deliver, DeliverFails
<1>2. c.event \in Events /\ c.to \in Callbacks
  BY <1>1 DEF IInv, TypeOK, Calls
<1>3. TypeOK'
  BY <1>1, <1>2 DEF IInv, TypeOK, Deliver, DeliverFails, catalogue
<1>4. Published' = Published
  BY DeliveryMoves
<1>5. DownIsEmpty'
  BY <1>1 DEF IInv, DownIsEmpty
<1>6. UNCHANGED <<request, status, pendingBy, nextEid>>
  BY DEF Deliver, DeliverFails, catalogue
<1>7. QED
  BY <1>3, <1>4, <1>5, <1>6, MovingKeepsIInv

LEMMA AppendKeepsIInv ==
  ASSUME IInv, NEW e \in queued, Append(e) \/ AppendFails(e)
  PROVE  IInv'
<1>1. e \in Events /\ phase # "down"
  BY DEF IInv, TypeOK, DownIsEmpty
<1>2. TypeOK'
  BY <1>1 DEF IInv, TypeOK, Append, AppendFails, catalogue
<1>3. Published' = Published
  BY DEF Published, InFlight, Append, AppendFails
<1>4. UNCHANGED <<request, status, pendingBy, nextEid, phase>>
  BY DEF Append, AppendFails, catalogue
<1>5. QED
  BY <1>1, <1>2, <1>3, <1>4, MovingKeepsIInv DEF DownIsEmpty

\* Losing the process: what is left of the published events is the store.
LEMMA DieKeepsIInv ==
  ASSUME IInv, Die, restarts' \in Nat
  PROVE  IInv'
<1>1. TypeOK'
  BY DEF IInv, TypeOK, Die
<1>2. Published' \subseteq Published
  BY DEF Die, Published, InFlight
<1>3. UNCHANGED <<request, nextEid>>
  BY DEF Die
<1>4. PendingIsOpen' /\ KeyOfPending' /\ DownIsEmpty'
  BY DEF Die, PendingIsOpen, KeyOfPending, DownIsEmpty
<1>5. QED
  BY <1>1, <1>2, <1>3, <1>4 DEF IInv, EidsUsed, EventsDrawn, RequestedFirst, OneResolution

LEMMA RebuildKeepsIInv ==
  ASSUME IInv, Rebuild
  PROVE  IInv'
<1> USE DEF IInv
<1>1. calls = {} /\ queued = {} /\ dropped = {}
  BY DEF Rebuild, DownIsEmpty
<1>2. Published = stored /\ Published' = stored
  BY <1>1 DEF Published, InFlight, Rebuild
<1>3. \A i \in Ids : FoldStatus(i, stored) \in {"unknown", "pending"} \cup Resolutions
  <2> TAKE i \in Ids
  <2>1. CASE ResolutionsOf(i, stored) = {}
    BY <2>1 DEF FoldStatus
  <2>2. CASE ResolutionsOf(i, stored) # {}
    <3>1. \A e, f \in ResolutionsOf(i, stored) : f.eid <= e.eid
      BY <1>2 DEF OneResolution, ResolutionsOf, TypeOK, Events
    <3>2. PICK r \in ResolutionsOf(i, stored) :
            r = CHOOSE e \in ResolutionsOf(i, stored) :
                  \A f \in ResolutionsOf(i, stored) : f.eid <= e.eid
      BY <2>2, <3>1
    <3>3. r.type \in Resolutions
      BY DEF ResolutionsOf
    <3>4. QED
      BY <3>2, <3>3 DEF FoldStatus, Outcome
  <2>3. QED
    BY <2>1, <2>2
<1>4. \A k \in Keys : FoldPending(k, stored) # None =>
        \E e \in LastRequestOn(k, stored) : FoldPending(k, stored) = e.id
  BY DEF FoldPending
<1>5. \A k \in Keys : \A e \in LastRequestOn(k, stored) :
        /\ e \in stored /\ e.id \in Ids /\ request[e.id].key = k
        /\ FoldStatus(e.id, stored) = "pending"
  <2> TAKE k \in Keys
  <2> TAKE e \in LastRequestOn(k, stored)
  <2>1. /\ e \in stored /\ e \in Events /\ request[e.id].key = k
        /\ e.type = "requested" /\ \A f \in OnKey(k, stored) : f.eid <= e.eid
    BY DEF LastRequestOn, OnKey, TypeOK
  <2>2. Requested(e.id, stored)
    BY <2>1 DEF Requested
  <2>3. ResolutionsOf(e.id, stored) = {}
    <3> SUFFICES ASSUME NEW f \in ResolutionsOf(e.id, stored) PROVE FALSE
      OBVIOUS
    <3>1. f \in OnKey(k, stored)
      BY <2>1, <2>2 DEF ResolutionsOf, OnKey
    <3>2. e.eid < f.eid
      BY <1>2, <2>1 DEF ResolutionsOf, RequestedFirst
    <3>3. e.eid \in Nat /\ f.eid \in Nat
      BY <2>1 DEF ResolutionsOf, TypeOK, Events
    <3>4. QED
      BY <2>1, <3>1, <3>2, <3>3
  <2>4. QED
    BY <2>1, <2>2, <2>3 DEF FoldStatus, Events
<1>6. TypeOK'
  <2>1. status' \in [Ids -> {"unknown", "pending"} \cup Resolutions]
    BY <1>3 DEF Rebuild
  <2>2. pendingBy' \in [Keys -> Ids \cup {None}]
    BY <1>4, <1>5 DEF Rebuild
  <2>3. QED
    BY <2>1, <2>2 DEF TypeOK, Rebuild
<1>7. PendingIsOpen'
  <2> SUFFICES ASSUME NEW i \in Ids, status'[i] = "pending"
               PROVE  request[i] # None /\ \A e \in stored : e.id = i => e.type = "requested"
    BY <1>2 DEF PendingIsOpen, Rebuild
  <2>1. Requested(i, stored) /\ ResolutionsOf(i, stored) = {}
    <3>1. FoldStatus(i, stored) = "pending"
      BY DEF Rebuild
    <3>2. ResolutionsOf(i, stored) # {} => FoldStatus(i, stored) # "pending"
      <4> SUFFICES ASSUME ResolutionsOf(i, stored) # {}, Requested(i, stored)
                   PROVE  FoldStatus(i, stored) # "pending"
        BY DEF FoldStatus
      <4>1. \A e, f \in ResolutionsOf(i, stored) : f.eid <= e.eid
        BY <1>2 DEF OneResolution, ResolutionsOf, TypeOK, Events
      <4>2. PICK r \in ResolutionsOf(i, stored) :
              r = CHOOSE e \in ResolutionsOf(i, stored) :
                    \A f \in ResolutionsOf(i, stored) : f.eid <= e.eid
        BY <4>1
      <4>3. r.type \in Resolutions
        BY DEF ResolutionsOf
      <4>4. QED
        BY <4>2, <4>3 DEF FoldStatus, Outcome, Resolutions
    <3>3. QED
      BY <3>1, <3>2 DEF FoldStatus
  <2>2. QED
    BY <1>2, <2>1 DEF Requested, ResolutionsOf, EventsDrawn, TypeOK, Events
<1>8. KeyOfPending'
  BY <1>4, <1>5 DEF KeyOfPending, Rebuild
<1>9. QED
  BY <1>1, <1>2, <1>6, <1>7, <1>8
     DEF Rebuild, EidsUsed, EventsDrawn, RequestedFirst, OneResolution, DownIsEmpty

-----------------------------------------------------------------------------

LEMMA NextKeepsIInv == IInv /\ [Next]_vars => IInv'
<1> SUFFICES ASSUME IInv, [Next]_vars PROVE IInv'
  OBVIOUS
<1>1. ASSUME NEW k \in Keys, NEW i \in Ids, NEW kind \in Kinds, NEW timed \in BOOLEAN,
             NEW cb \in Callbacks, Open(k, i, kind, timed, cb)
      PROVE  IInv'
  BY <1>1, OpenKeepsIInv
<1>2. ASSUME NEW k \in Keys, NEW cb \in Callbacks, Reopen(k, cb) PROVE IInv'
  BY <1>2, ReopenKeepsIInv
<1>3. ASSUME NEW k \in Keys, CancelNative(k) PROVE IInv'
  <2>1. pendingBy[k] \in Ids /\ status[pendingBy[k]] = "pending"
    BY <1>3 DEF CancelNative, IInv, TypeOK, KeyOfPending
  <2>2. "cancelled" \in Resolutions
    BY DEF Resolutions
  <2>3. Resolve(pendingBy[k], "cancelled", None) /\ phase = "running" /\ phase' = phase
    BY <1>3 DEF CancelNative
  <2>4. QED
    BY <2>1, <2>2, <2>3, ResolveKeepsIInv
<1>4. ASSUME NEW i \in Ids, Answer(i) PROVE IInv'
  <2>1. deliver[i] \in Callbacks \cup {None} /\ "answered" \in Resolutions
    BY DEF IInv, TypeOK, Resolutions
  <2>2. QED
    BY <1>4, <2>1, ResolveKeepsIInv DEF Answer
<1>5. ASSUME NEW i \in Ids, Timeout(i) PROVE IInv'
  <2> DEFINE to == IF request[i].kind = "permission" THEN deliver[i] ELSE None
  <2>1. to \in Callbacks \cup {None} /\ "timed_out" \in Resolutions
    BY DEF IInv, TypeOK, Resolutions
  <2>2. Resolve(i, "timed_out", to) /\ status[i] = "pending" /\ phase = "running" /\ phase' = phase
    BY <1>5 DEF Timeout
  <2> HIDE DEF to
  <2>3. QED
    BY <2>1, <2>2, ResolveKeepsIInv
<1>6. ASSUME NEW i \in Ids, CancelOrphan(i) PROVE IInv'
  <2>1. "cancelled" \in Resolutions
    BY DEF Resolutions
  <2>2. QED
    BY <1>6, <2>1, ResolveKeepsIInv DEF CancelOrphan
<1>7. ASSUME NEW c \in calls, PublishReturns(c) PROVE IInv'
  BY <1>7, PublishReturnsKeepsIInv
<1>8. ASSUME NEW c \in calls, Deliver(c) \/ DeliverFails(c) PROVE IInv'
  BY <1>8, DeliveryKeepsIInv
<1>9. ASSUME NEW e \in queued, Append(e) \/ AppendFails(e) PROVE IInv'
  BY <1>9, AppendKeepsIInv
<1>10. CASE Crash
  BY <1>10, DieKeepsIInv DEF Crash, IInv, TypeOK
<1>11. CASE Close
  <2>1. TypeOK' /\ Published' = Published
    BY <1>11 DEF Close, IInv, TypeOK, Published, InFlight
  <2>2. QED
    BY <1>11, <2>1, MovingKeepsIInv DEF Close, DownIsEmpty
<1>12. CASE Exit
  BY <1>12, DieKeepsIInv DEF Exit, IInv, TypeOK
<1>13. CASE Rebuild
  BY <1>13, RebuildKeepsIInv
<1>14. CASE RebuildDone
  <2>1. TypeOK' /\ Published' = Published
    BY <1>14 DEF RebuildDone, catalogue, IInv, TypeOK, Published, InFlight
  <2>2. QED
    BY <1>14, <2>1, MovingKeepsIInv DEF RebuildDone, catalogue, DownIsEmpty
<1>15. CASE UNCHANGED vars
  <2>1. TypeOK' /\ Published' = Published
    BY <1>15 DEF vars, IInv, TypeOK, Published, InFlight
  <2>2. QED
    BY <1>15, <2>1, MovingKeepsIInv DEF vars, IInv, DownIsEmpty
<1>16. QED
  BY <1>1, <1>2, <1>3, <1>4, <1>5, <1>6, <1>7, <1>8, <1>9, <1>10, <1>11, <1>12,
     <1>13, <1>14, <1>15 DEF Next

LEMMA InvariantHolds == Spec => []IInv
BY InitIInv, NextKeepsIInv, PTL DEF Spec

\* The catalogue, the suspended handlers and the log are well typed in every
\* reachable state (the records and dictionaries of MediationService).
THEOREM TypeCorrect == Spec => []TypeOK
<1>1. IInv => TypeOK
  BY DEF IInv
<1>2. QED
  BY <1>1, InvariantHolds, PTL

\* MediationService resolves each interaction at most once, whatever
\* handlers race for it and however often the server restarts.
THEOREM ResolvedOnce == Spec => []OneResolution
<1>1. IInv => OneResolution
  BY DEF IInv
<1>2. QED
  BY <1>1, InvariantHolds, PTL

-----------------------------------------------------------------------------

(***************************************************************************)
(* HeardOnce.  A callback is spent by the flip that resolves its           *)
(* interaction, and only a pending interaction of a running server has     *)
(* one, so an interaction an agent has heard of never gets another.        *)
(***************************************************************************)

\* The handlers that will hand an answer to an agent.
Answering == {c \in calls : c.to # None}

\* Spent i: no callback is left for i and nothing will call one.
AnsweringSpent ==
  \A c \in Answering : /\ deliver[c.event.id] = None
                       /\ status[c.event.id] # "pending"
                       /\ request[c.event.id] # None

AnsweringOnce == \A c, d \in Answering : c.event.id = d.event.id => c = d

HeardSpent ==
  \A h \in heard : /\ deliver[h.event.id] = None
                   /\ request[h.event.id] # None
                   /\ \A c \in Answering : c.event.id # h.event.id
                   /\ phase = "running" => status[h.event.id] # "pending"

CallbacksLive ==
  /\ phase \in {"down", "rebuilding"} => \A i \in Ids : deliver[i] = None
  /\ phase = "rebuilding" => Answering = {}
  /\ \A i \in Ids : request[i] = None => deliver[i] = None

HeardInv == AnsweringSpent /\ AnsweringOnce /\ HeardSpent /\ CallbacksLive /\ HeardOnce

LEMMA ResolveKeepsHeardInv ==
  ASSUME IInv, HeardInv, NEW i \in Ids, NEW o \in Resolutions,
         NEW to \in {deliver[i], None},
         status[i] = "pending", Resolve(i, o, to), phase' = phase
  PROVE  HeardInv'
<1> DEFINE new == [event |-> [eid |-> nextEid, type |-> o, id |-> i],
                   to |-> to, at |-> "publish"]
<1>1. /\ status' = [status EXCEPT ![i] = o]
      /\ deliver' = [deliver EXCEPT ![i] = None]
      /\ calls' = calls \cup {new}
      /\ UNCHANGED <<request, heard>>
  BY DEF Resolve, Publish
<1>2. status \in [Ids -> {"unknown", "pending"} \cup Resolutions]
      /\ deliver \in [Ids -> Callbacks \cup {None}] /\ calls \subseteq Calls
      /\ heard \subseteq [event: Events, by: Callbacks] /\ request[i] # None
  BY DEF IInv, TypeOK, PendingIsOpen
<1>3. new.event.id = i /\ new.to = to
  OBVIOUS
<1>4. Answering' = Answering \cup (IF to = None THEN {} ELSE {new})
  <2> HIDE DEF new
  <2>1. QED
    BY <1>1, <1>3 DEF Answering
<1> HIDE DEF new
<1>5. \A c \in Answering : c.event.id # i /\ c.event.id \in Ids
  BY <1>2 DEF HeardInv, AnsweringSpent, Answering, Calls, Events
<1>6. \A h \in heard : h.event.id \in Ids
  BY <1>2 DEF Events
<1>7. to # None => deliver[i] # None
  OBVIOUS
<1>8. \A h \in heard : h.event.id = i => to = None
  BY <1>7 DEF HeardInv, HeardSpent
<1> USE DEF HeardInv
<1>9. AnsweringSpent'
  BY <1>1, <1>2, <1>3, <1>4, <1>5 DEF AnsweringSpent, Resolutions
<1>10. AnsweringOnce'
  BY <1>3, <1>4, <1>5 DEF AnsweringOnce
<1>11. HeardSpent'
  BY <1>1, <1>2, <1>3, <1>4, <1>6, <1>8 DEF HeardSpent, Resolutions
<1>12. CallbacksLive'
  BY <1>1, <1>2, <1>4, <1>7 DEF CallbacksLive
<1>13. HeardOnce'
  BY <1>1 DEF HeardOnce
<1>14. QED
  BY <1>9, <1>10, <1>11, <1>12, <1>13

LEMMA NextKeepsHeardInv == IInv /\ HeardInv /\ [Next]_vars => HeardInv'
<1> SUFFICES ASSUME IInv, HeardInv, [Next]_vars PROVE HeardInv'
  OBVIOUS
<1> USE DEF HeardInv, AnsweringSpent, AnsweringOnce, HeardSpent, CallbacksLive, HeardOnce
<1>0. /\ status \in [Ids -> {"unknown", "pending"} \cup Resolutions]
      /\ deliver \in [Ids -> Callbacks \cup {None}] /\ calls \subseteq Calls
      /\ request \in [Ids -> Requests \cup {None}]
      /\ \A h \in heard : h.event.id \in Ids
      /\ \A c \in calls : c.event.id \in Ids /\ c.event \in Events
  BY DEF IInv, TypeOK, Calls, Events
<1>1. ASSUME NEW k \in Keys, NEW i \in Ids, NEW kind \in Kinds, NEW timed \in BOOLEAN,
             NEW cb \in Callbacks, Open(k, i, kind, timed, cb)
      PROVE  HeardInv'
  <2>1. Answering' = Answering
    BY <1>1 DEF Open, Publish, Answering
  <2>2. \A c \in Answering : c.event.id # i /\ c.event.id \in Ids
    BY <1>0, <1>1 DEF Open, Answering
  <2>3. [key |-> k, kind |-> kind, timed |-> timed] # None
    BY NoneIsNoRequest DEF Requests
  <2>4. QED
    BY <1>0, <1>1, <2>1, <2>2, <2>3 DEF Open
<1>2. ASSUME NEW k \in Keys, NEW cb \in Callbacks, Reopen(k, cb) PROVE HeardInv'
  <2>1. /\ pendingBy[k] \in Ids /\ status[pendingBy[k]] = "pending"
        /\ request[pendingBy[k]] # None
    BY <1>2 DEF Reopen, IInv, TypeOK, KeyOfPending, PendingIsOpen
  <2>2. Answering' = Answering
    BY <1>2 DEF Reopen, Answering
  <2>3. \A c \in Answering : c.event.id # pendingBy[k] /\ c.event.id \in Ids
    BY <1>0, <2>1 DEF Answering
  <2>4. QED
    BY <1>0, <1>2, <2>1, <2>2, <2>3 DEF Reopen
<1>3. ASSUME NEW k \in Keys, CancelNative(k) PROVE HeardInv'
  <2>1. pendingBy[k] \in Ids /\ status[pendingBy[k]] = "pending"
    BY <1>3 DEF CancelNative, IInv, TypeOK, KeyOfPending
  <2>2. "cancelled" \in Resolutions
    BY DEF Resolutions
  <2>3. Resolve(pendingBy[k], "cancelled", None) /\ phase' = phase
    BY <1>3 DEF CancelNative
  <2>4. QED
    BY <2>1, <2>2, <2>3, ResolveKeepsHeardInv
<1>4. ASSUME NEW i \in Ids, Answer(i) PROVE HeardInv'
  <2>1. "answered" \in Resolutions
    BY DEF Resolutions
  <2>2. QED
    BY <1>4, <2>1, ResolveKeepsHeardInv DEF Answer
<1>5. ASSUME NEW i \in Ids, Timeout(i) PROVE HeardInv'
  <2> DEFINE to == IF request[i].kind = "permission" THEN deliver[i] ELSE None
  <2>1. to \in {deliver[i], None} /\ "timed_out" \in Resolutions
    BY DEF Resolutions
  <2>2. Resolve(i, "timed_out", to) /\ status[i] = "pending" /\ phase' = phase
    BY <1>5 DEF Timeout
  <2> HIDE DEF to
  <2>3. QED
    BY <2>1, <2>2, ResolveKeepsHeardInv
<1>6. ASSUME NEW i \in Ids, CancelOrphan(i) PROVE HeardInv'
  <2>1. "cancelled" \in Resolutions
    BY DEF Resolutions
  <2>2. QED
    BY <1>6, <2>1, ResolveKeepsHeardInv DEF CancelOrphan
<1>7. ASSUME NEW c \in calls, PublishReturns(c) PROVE HeardInv'
  <2> DEFINE d == [event |-> c.event, to |-> c.to, at |-> "deliver"]
  <2>1. calls' = (calls \ {c}) \cup (IF c.to = None THEN {} ELSE {d})
    <3>1. c \in [event: Events, to: Callbacks \cup {None}, at: {"publish", "deliver"}]
      BY <1>0 DEF Calls
    <3>2. [c EXCEPT !.at = "deliver"] = d
      BY <3>1
    <3>3. QED
      BY <1>7, <3>2 DEF PublishReturns
  <2>2. d.to = c.to /\ d.event = c.event
    OBVIOUS
  <2> HIDE DEF d
  <2>3. Answering' = IF c.to = None THEN Answering ELSE (Answering \ {c}) \cup {d}
    BY <2>1, <2>2 DEF Answering
  <2>4. UNCHANGED <<phase, request, status, deliver, heard>>
    BY <1>7 DEF PublishReturns, catalogue
  <2>5. c.to # None => c \in Answering
    BY DEF Answering
  <2>6. QED
    BY <2>2, <2>3, <2>4, <2>5
<1>8. ASSUME NEW c \in calls, Deliver(c) PROVE HeardInv'
  <2> DEFINE h == [event |-> c.event, by |-> c.to]
  <2>1. c \in Answering /\ c.to \in Callbacks
    BY <1>0, <1>8, NoneIsNoValue DEF Deliver, Answering, Calls
  <2>2. Answering' = Answering \ {c}
    BY <1>8 DEF Deliver, Answering
  <2>3. heard' = heard \cup {h} /\ h.event = c.event
    BY <1>8 DEF Deliver
  <2> HIDE DEF h
  <2>4. UNCHANGED <<phase, request, status, deliver>>
    BY <1>8 DEF Deliver, catalogue
  <2>5. QED
    BY <2>1, <2>2, <2>3, <2>4
<1>9. ASSUME NEW c \in calls, DeliverFails(c) PROVE HeardInv'
  <2>1. Answering' \subseteq Answering
    BY <1>9 DEF DeliverFails, Answering
  <2>2. QED
    BY <1>9, <2>1 DEF DeliverFails, catalogue
<1>10. ASSUME NEW e \in queued, Append(e) \/ AppendFails(e) PROVE HeardInv'
  BY <1>10 DEF Append, AppendFails, catalogue, Answering
<1>11. CASE Crash \/ Exit
  <2>1. Die
    BY <1>11 DEF Crash, Exit
  <2>2. QED
    BY <1>0, <2>1 DEF Die, Answering
<1>12. CASE Close
  BY <1>12 DEF Close, Answering
<1>13. CASE Rebuild
  <2>1. Answering = {} /\ Answering' = {}
    BY <1>13 DEF Rebuild, Answering, IInv, DownIsEmpty
  <2>2. QED
    BY <1>13, <2>1 DEF Rebuild
<1>14. CASE RebuildDone
  BY <1>0, <1>14 DEF RebuildDone, catalogue, Answering
<1>15. CASE UNCHANGED vars
  BY <1>15 DEF vars, Answering
<1>16. QED
  BY <1>1, <1>2, <1>3, <1>4, <1>5, <1>6, <1>7, <1>8, <1>9, <1>10, <1>11, <1>12,
     <1>13, <1>14, <1>15 DEF Next

\* Whatever races and restarts happen, a blocked agent is handed at most one
\* resolution of an interaction (answer() and _timeout() spend the callback).
THEOREM AgentHearsOnce == Spec => []HeardOnce
<1>1. Init => HeardInv
  BY DEF Init, HeardInv, AnsweringSpent, AnsweringOnce, HeardSpent, CallbacksLive,
     HeardOnce, Answering
<1>2. IInv /\ HeardInv /\ [Next]_vars => HeardInv'
  BY NextKeepsHeardInv
<1>3. HeardInv => HeardOnce
  BY DEF HeardInv
<1>4. QED
  BY <1>1, <1>2, <1>3, InvariantHolds, PTL DEF Spec

-----------------------------------------------------------------------------

\* The log's view of an interaction changes only with its own events.
LEMMA FateOfOther ==
  ASSUME NEW i \in Ids, NEW log, NEW e, e.id # i
  PROVE  FateOf(i, log \cup {e}) = FateOf(i, log)
<1>1. /\ ResolutionsOf(i, log \cup {e}) = ResolutionsOf(i, log)
      /\ Requested(i, log \cup {e}) <=> Requested(i, log)
  BY DEF ResolutionsOf, Requested
<1>2. QED
  BY <1>1 DEF FateOf

\* A request makes an unresolved interaction pending.
LEMMA FateOfRequest ==
  ASSUME NEW i \in Ids, NEW log, NEW e, e.id = i, e.type = "requested"
  PROVE  FateOf(i, log \cup {e}) =
           IF ResolutionsOf(i, log) # {} THEN FateOf(i, log) ELSE "pending"
<1>1. ResolutionsOf(i, log \cup {e}) = ResolutionsOf(i, log)
  BY DEF ResolutionsOf, Resolutions
<1>2. Requested(i, log \cup {e})
  BY DEF Requested
<1>3. QED
  BY <1>1, <1>2 DEF FateOf

\* Mediation implements InteractionOnce: read from the log, an interaction
\* appears once, settles once and keeps its outcome.
THEOREM LogKeepsThePromise == Spec => ImplementsPromise
<1>1. Init => Promise!Init
  BY DEF Init, Promise!Init, fate, FateOf, ResolutionsOf, Requested
<1>2. IInv /\ [Next]_vars => [Promise!Next]_fate
  <2> SUFFICES ASSUME IInv, [Next]_vars PROVE [Promise!Next]_fate
    OBVIOUS
  <2>1. CASE stored' = stored
    BY <2>1 DEF fate
  <2>2. ASSUME NEW e \in queued, Append(e) PROVE [Promise!Next]_fate
    <3> DEFINE i == e.id
    <3>1. stored' = stored \cup {e} /\ e \in Events /\ i \in Ids
      BY <2>2 DEF Append, IInv, TypeOK, Events
    <3>2. fate' = [fate EXCEPT ![i] = fate'[i]]
      <4>1. \A j \in Ids \ {i} : fate'[j] = fate[j]
        BY <3>1, FateOfOther DEF fate
      <4>2. QED
        BY <4>1, <3>1 DEF fate
    <3>3. CASE e.type = "requested"
      <4>2. fate'[i] = IF ResolutionsOf(i, stored) # {} THEN fate[i] ELSE "pending"
        BY <3>1, <3>3, FateOfRequest DEF fate
      <4>3. ResolutionsOf(i, stored) = {} => fate[i] \in {"absent", "pending"}
        BY <3>1 DEF fate, FateOf
      <4>4. fate \in [Ids -> {fate[j] : j \in Ids}]
        BY DEF fate
      <4>5. CASE ResolutionsOf(i, stored) # {} \/ fate[i] = "pending"
        BY <3>1, <3>2, <4>2, <4>4, <4>5
      <4>6. CASE ResolutionsOf(i, stored) = {} /\ fate[i] = "absent"
        BY <3>1, <3>2, <4>2, <4>6 DEF Promise!Next, Promise!Appear
      <4>7. QED
        BY <4>3, <4>5, <4>6
    <3>4. CASE e.type \in Resolutions /\ e \notin stored
      <4>1. ResolutionsOf(i, stored) = {}
        BY <3>4, <3>1 DEF ResolutionsOf, IInv, OneResolution, Published, InFlight
      <4>2. ResolutionsOf(i, stored') = {e}
        BY <3>1, <3>4, <4>1 DEF ResolutionsOf
      <4>3. fate'[i] = e.type /\ fate[i] \in {"absent", "pending"}
        <5>1. Outcome({e}) = e.type
          BY <3>1 DEF Outcome, Events
        <5>2. QED
          BY <3>1, <4>1, <4>2, <5>1 DEF fate, FateOf
      <4>4. e.type \in Promise!Outcomes
        BY <3>4 DEF Resolutions, Promise!Outcomes
      <4>5. Promise!Settle(i)
        BY <3>2, <4>3, <4>4 DEF Promise!Settle
      <4>6. QED
        BY <3>1, <4>5 DEF Promise!Next
    <3>5. CASE e \in stored
      <4>1. stored' = stored
        BY <3>1, <3>5
      <4>2. QED
        BY <4>1, <2>1
    <3>6. QED
      BY <3>1, <3>3, <3>4, <3>5 DEF Events
  <2>3. stored' = stored \/ \E e \in queued : Append(e)
    BY DEF Next, vars, Open, Reopen, CancelNative, Answer, Timeout, CancelOrphan,
       Resolve, Publish, PublishReturns, Deliver, DeliverFails, AppendFails, Crash,
       Die, Close, Exit, Rebuild, RebuildDone
  <2>4. QED
    BY <2>1, <2>2, <2>3
<1>3. QED
  BY <1>1, <1>2, InvariantHolds, PTL DEF Spec, ImplementsPromise, Promise!Spec

-----------------------------------------------------------------------------

(***************************************************************************)
(* MemoryIsFoldOfLog and NoZombies.  The first says what a status is worth *)
(* after a restart; with it, and with KeyOfPending, the second is          *)
(* inductive over the steps of a running server.                           *)
(***************************************************************************)

\* The handlers that resolve an interaction all go through Resolve.
Resolves ==
  \E i \in Ids, o \in Resolutions :
    \E to \in {deliver[i], None} :
      status[i] = "pending" /\ Resolve(i, o, to) /\ phase' = phase /\ phase # "down"

LEMMA ResolvingHandlers ==
  ASSUME IInv,
         \/ \E k \in Keys : CancelNative(k)
         \/ \E i \in Ids : Answer(i) \/ Timeout(i) \/ CancelOrphan(i)
  PROVE  Resolves
<1> USE DEF Resolves, Resolutions
<1>1. ASSUME NEW k \in Keys, CancelNative(k) PROVE Resolves
  <2>1. pendingBy[k] \in Ids /\ status[pendingBy[k]] = "pending"
    BY <1>1 DEF CancelNative, IInv, TypeOK, KeyOfPending
  <2>2. QED
    BY <1>1, <2>1 DEF CancelNative
<1>2. ASSUME NEW i \in Ids, Answer(i) PROVE Resolves
  BY <1>2 DEF Answer
<1>3. ASSUME NEW i \in Ids, Timeout(i) PROVE Resolves
  <2> DEFINE to == IF request[i].kind = "permission" THEN deliver[i] ELSE None
  <2>1. to \in {deliver[i], None} /\ Resolve(i, "timed_out", to)
        /\ status[i] = "pending" /\ phase = "running" /\ phase' = phase
    BY <1>3 DEF Timeout
  <2> HIDE DEF to
  <2>2. QED
    BY <2>1
<1>4. ASSUME NEW i \in Ids, CancelOrphan(i) PROVE Resolves
  BY <1>4 DEF CancelOrphan
<1>5. QED
  BY <1>1, <1>2, <1>3, <1>4

\* The other steps of a live process leave the catalogue's statuses and the
\* set of published events alone, or end or rebuild them.
LEMMA OtherSteps ==
  ASSUME IInv, [Next]_vars
  PROVE  \/ Resolves
         \/ \E k \in Keys, i \in Ids, kind \in Kinds, timed \in BOOLEAN, cb \in Callbacks :
              Open(k, i, kind, timed, cb)
         \/ Rebuild
         \/ phase' = "down"
         \/ /\ Published' = Published
            /\ UNCHANGED <<status, request>>
            /\ phase = "down" => phase' = "down"
<1> DEFINE Still == /\ Published' = Published
                    /\ UNCHANGED <<status, request>>
                    /\ phase = "down" => phase' = "down"
<1>1. ASSUME NEW k \in Keys, NEW cb \in Callbacks, Reopen(k, cb) PROVE Still
  BY <1>1 DEF Reopen, Published, InFlight
<1>2. ASSUME NEW c \in calls, PublishReturns(c) PROVE Still
  <2>1. c \in Calls
    BY DEF IInv, TypeOK
  <2>2. QED
    BY <1>2, <2>1, PublishReturnsMoves DEF PublishReturns, catalogue
<1>3. ASSUME NEW c \in calls, Deliver(c) \/ DeliverFails(c) PROVE Still
  BY <1>3, DeliveryMoves DEF Deliver, DeliverFails, catalogue
<1>4. ASSUME NEW e \in queued, Append(e) \/ AppendFails(e) PROVE Still
  BY <1>4 DEF Append, AppendFails, catalogue, Published, InFlight
<1>5. CASE Crash \/ Exit
  BY <1>5 DEF Crash, Exit, Die
<1>6. CASE Close \/ RebuildDone
  BY <1>6 DEF Close, RebuildDone, catalogue, Published, InFlight
<1>7. CASE UNCHANGED vars
  BY <1>7 DEF vars, Published, InFlight
<1> HIDE DEF Still
<1>8. QED
  BY <1>1, <1>2, <1>3, <1>4, <1>5, <1>6, <1>7, ResolvingHandlers DEF Next, Still

\* The status an interaction folds to depends on its own events only.
LEMMA FoldOfOther ==
  ASSUME NEW i \in Ids, NEW log, NEW e, e.id # i
  PROVE  FoldStatus(i, log \cup {e}) = FoldStatus(i, log)
<1>1. /\ ResolutionsOf(i, log \cup {e}) = ResolutionsOf(i, log)
      /\ Requested(i, log \cup {e}) <=> Requested(i, log)
  BY DEF ResolutionsOf, Requested
<1>2. QED
  BY <1>1 DEF FoldStatus

LEMMA NextKeepsMemory == IInv /\ IInv' /\ MemoryIsFoldOfLog /\ [Next]_vars => MemoryIsFoldOfLog'
<1> SUFFICES ASSUME IInv, IInv', MemoryIsFoldOfLog, [Next]_vars
             PROVE  MemoryIsFoldOfLog'
  OBVIOUS
<1>1. phase \in {"rebuilding", "running", "closing", "down"} /\ Published \subseteq Events
      /\ nextEid \in Nat
  BY DEF IInv, TypeOK, Published, InFlight, Calls
<1>2. ASSUME NEW i \in Ids, NEW o \in Resolutions, NEW to \in {deliver[i], None},
             status[i] = "pending", Resolve(i, o, to), phase' = phase, phase # "down"
      PROVE  MemoryIsFoldOfLog'
  <2> DEFINE ev == [eid |-> nextEid, type |-> o, id |-> i]
  <2>1. Published' = Published \cup {ev} /\ ev.id = i /\ ev.type = o
    BY <1>2, PublishAdds DEF IInv, Resolve
  <2> HIDE DEF ev
  <2>2. status' = [status EXCEPT ![i] = o]
    BY <1>2 DEF Resolve
  <2>3. \A j \in Ids : status[j] = FoldStatus(j, Published)
    BY <1>1, <1>2 DEF MemoryIsFoldOfLog
  <2>4. ASSUME NEW j \in Ids, j # i PROVE status'[j] = FoldStatus(j, Published')
    BY <2>1, <2>2, <2>3, <2>4, FoldOfOther DEF IInv, TypeOK
  <2>5. status'[i] = FoldStatus(i, Published')
    <3>1. Requested(i, Published)
      <4>1. FoldStatus(i, Published) = "pending"
        BY <1>2, <2>3
      <4>2. QED
        BY <4>1 DEF FoldStatus
    <3>2. ResolutionsOf(i, Published) = {}
      BY <1>2 DEF IInv, PendingIsOpen, ResolutionsOf, Resolutions
    <3>3. Requested(i, Published') /\ ResolutionsOf(i, Published') = {ev}
      BY <1>2, <2>1, <3>1, <3>2 DEF Requested, ResolutionsOf
    <3>4. Outcome({ev}) = o
      <4>1. ev.eid \in Nat
        BY <1>1 DEF ev
      <4>2. (CHOOSE e \in {ev} : \A f \in {ev} : f.eid <= e.eid) = ev
        BY <4>1
      <4>3. QED
        BY <2>1, <4>2 DEF Outcome
    <3>5. QED
      BY <2>2, <3>3, <3>4 DEF FoldStatus, IInv, TypeOK
  <2>6. QED
    BY <2>4, <2>5 DEF MemoryIsFoldOfLog
<1>3. ASSUME NEW k \in Keys, NEW i \in Ids, NEW kind \in Kinds, NEW timed \in BOOLEAN,
             NEW cb \in Callbacks, Open(k, i, kind, timed, cb)
      PROVE  MemoryIsFoldOfLog'
  <2> DEFINE ev == [eid |-> nextEid, type |-> "requested", id |-> i]
  <2>1. Published' = Published \cup {ev} /\ ev.id = i /\ ev.type = "requested"
    BY <1>3, PublishAdds DEF IInv, Open
  <2> HIDE DEF ev
  <2>2. status' = [status EXCEPT ![i] = "pending"] /\ phase = "running" /\ request[i] = None
    BY <1>3 DEF Open
  <2>3. \A j \in Ids : status[j] = FoldStatus(j, Published)
    BY <2>2 DEF MemoryIsFoldOfLog
  <2>4. ASSUME NEW j \in Ids, j # i PROVE status'[j] = FoldStatus(j, Published')
    BY <2>1, <2>2, <2>3, <2>4, FoldOfOther DEF IInv, TypeOK
  <2>5. status'[i] = FoldStatus(i, Published')
    <3>1. ResolutionsOf(i, Published') = {}
      BY <2>1, <2>2 DEF IInv, EventsDrawn, ResolutionsOf, Resolutions
    <3>2. Requested(i, Published')
      BY <2>1 DEF Requested
    <3>3. QED
      BY <2>2, <3>1, <3>2 DEF FoldStatus, IInv, TypeOK
  <2>6. QED
    BY <2>4, <2>5 DEF MemoryIsFoldOfLog
<1>4. CASE Rebuild
  <2>1. Published' = stored
    BY <1>4 DEF Rebuild, Published, InFlight, IInv, DownIsEmpty
  <2>2. QED
    BY <1>4, <2>1 DEF Rebuild, MemoryIsFoldOfLog
<1>5. CASE phase' = "down"
  BY <1>5 DEF MemoryIsFoldOfLog
<1>6. CASE /\ Published' = Published
           /\ UNCHANGED <<status, request>>
           /\ phase = "down" => phase' = "down"
  BY <1>1, <1>6 DEF MemoryIsFoldOfLog
<1>7. QED
  BY <1>2, <1>3, <1>4, <1>5, <1>6, OtherSteps DEF Resolves

\* A restart loses only what was not appended: the status of every interaction
\* is what a rebuild from the events of the running process would give it
\* (rebuild() and _apply() against open(), answer(), _cancel() and _timeout()).
THEOREM MemoryFollowsTheLog == Spec => []MemoryIsFoldOfLog
<1>1. Init => MemoryIsFoldOfLog
  BY DEF Init, MemoryIsFoldOfLog, FoldStatus, Requested, Published, InFlight
<1>2. IInv /\ IInv' /\ MemoryIsFoldOfLog /\ [Next]_vars => MemoryIsFoldOfLog'
  BY NextKeepsMemory
<1>3. QED
  BY <1>1, <1>2, InvariantHolds, PTL DEF Spec

-----------------------------------------------------------------------------

\* A timer is of an interaction that was drawn.
TimersDrawn == \A i \in timers : request[i] # None

\* What a running server knows of a pending interaction.
PendingIsServed ==
  phase = "running" =>
    \A i \in Ids : status[i] = "pending" =>
      /\ pendingBy[request[i].key] = i
      /\ deliver[i] # None
      /\ i \in timers <=> request[i].timed

LEMMA NextKeepsTimersDrawn == IInv /\ TimersDrawn /\ [Next]_vars => TimersDrawn'
<1> SUFFICES ASSUME IInv, TimersDrawn, [Next]_vars PROVE TimersDrawn'
  OBVIOUS
<1>1. /\ timers' \subseteq timers
      /\ UNCHANGED request
      => TimersDrawn'
  BY DEF TimersDrawn
<1>2. ASSUME NEW k \in Keys, NEW i \in Ids, NEW kind \in Kinds, NEW timed \in BOOLEAN,
             NEW cb \in Callbacks, Open(k, i, kind, timed, cb)
      PROVE  TimersDrawn'
  <2>1. [key |-> k, kind |-> kind, timed |-> timed] # None
    BY NoneIsNoRequest DEF Requests
  <2>2. QED
    BY <1>2, <2>1 DEF Open, TimersDrawn, IInv, TypeOK
<1>3. QED
  BY <1>1, <1>2
  DEF Next, vars, catalogue, Reopen, CancelNative, Answer, Timeout, CancelOrphan, Resolve,
      PublishReturns, Deliver, DeliverFails, Append, AppendFails, Crash, Die, Close, Exit,
      Rebuild, RebuildDone

LEMMA NextKeepsServed == TimersDrawn /\ IInv /\ PendingIsServed /\ [Next]_vars => PendingIsServed'
<1> SUFFICES ASSUME TimersDrawn, IInv, PendingIsServed, [Next]_vars PROVE PendingIsServed'
  OBVIOUS
<1> USE DEF PendingIsServed
<1>1. /\ status \in [Ids -> {"unknown", "pending"} \cup Resolutions]
      /\ pendingBy \in [Keys -> Ids \cup {None}]
      /\ deliver \in [Ids -> Callbacks \cup {None}]
      /\ request \in [Ids -> Requests \cup {None}]
      /\ \A i \in Ids : status[i] = "pending" => request[i] \in Requests
      /\ timers \subseteq Ids
  BY DEF IInv, TypeOK, PendingIsOpen
<1>2. ASSUME NEW i \in Ids, NEW o \in Resolutions, NEW to \in {deliver[i], None},
             status[i] = "pending", Resolve(i, o, to), phase' = phase
      PROVE  PendingIsServed'
  <2> SUFFICES ASSUME phase = "running", NEW j \in Ids, status'[j] = "pending"
               PROVE  /\ pendingBy'[request'[j].key] = j
                      /\ deliver'[j] # None
                      /\ j \in timers' <=> request'[j].timed
    BY <1>2
  <2>1. j # i /\ status[j] = "pending" /\ deliver'[j] = deliver[j]
    BY <1>1, <1>2 DEF Resolve, Resolutions
  <2>2. request[j].key # request[i].key
    BY <1>2, <2>1
  <2>3. QED
    BY <1>1, <1>2, <2>1, <2>2 DEF Resolve, Requests
<1>3. ASSUME NEW k \in Keys, NEW i \in Ids, NEW kind \in Kinds, NEW timed \in BOOLEAN,
             NEW cb \in Callbacks, Open(k, i, kind, timed, cb)
      PROVE  PendingIsServed'
  <2> SUFFICES ASSUME NEW j \in Ids, status'[j] = "pending"
               PROVE  /\ pendingBy'[request'[j].key] = j
                      /\ deliver'[j] # None
                      /\ j \in timers' <=> request'[j].timed
    OBVIOUS
  <2>1. CASE j = i
    <3>1. i \notin timers
      BY <1>3 DEF Open, TimersDrawn
    <3>2. QED
      BY <1>1, <1>3, <2>1, <3>1, NoneIsNoValue DEF Open
  <2>2. CASE j # i
    <3>1. status[j] = "pending" /\ request'[j] = request[j] /\ phase = "running"
      BY <1>1, <1>3, <2>2 DEF Open
    <3>2. request[j].key # k
      BY <1>3, <3>1, NoneIsNoValue DEF Open
    <3>3. QED
      BY <1>1, <1>3, <2>2, <3>1, <3>2 DEF Open, Requests
  <2>3. QED
    BY <2>1, <2>2
<1>4. ASSUME NEW k \in Keys, NEW cb \in Callbacks, Reopen(k, cb) PROVE PendingIsServed'
  BY <1>1, <1>4, NoneIsNoValue DEF Reopen
<1>5. ASSUME NEW c \in calls, PublishReturns(c) \/ Deliver(c) \/ DeliverFails(c)
      PROVE  PendingIsServed'
  BY <1>5 DEF PublishReturns, Deliver, DeliverFails, catalogue
<1>6. ASSUME NEW e \in queued, Append(e) \/ AppendFails(e) PROVE PendingIsServed'
  BY <1>6 DEF Append, AppendFails, catalogue
<1>7. CASE Crash \/ Close \/ Exit \/ Rebuild
  BY <1>7 DEF Crash, Close, Exit, Die, Rebuild
<1>8. CASE RebuildDone
  BY <1>8 DEF RebuildDone, catalogue
<1>9. CASE UNCHANGED vars
  BY <1>9 DEF vars
<1>10. CASE Resolves
  BY <1>2, <1>10 DEF Resolves
<1>11. QED
  BY <1>3, <1>4, <1>5, <1>6, <1>7, <1>8, <1>9, <1>10, ResolvingHandlers DEF Next

\* The inbox of a running server shows no interaction that nobody can answer,
\* and its index agrees with it (open(), _resolve_bookkeeping(), rebuild()).
THEOREM InboxHasNoZombies == Spec => []NoZombies
<1>1. Init => TimersDrawn /\ PendingIsServed
  BY DEF Init, TimersDrawn, PendingIsServed
<1>2. IInv /\ TimersDrawn /\ PendingIsServed /\ [Next]_vars => TimersDrawn' /\ PendingIsServed'
  BY NextKeepsTimersDrawn, NextKeepsServed
<1>3. IInv /\ PendingIsServed => NoZombies
  <2> SUFFICES ASSUME IInv, PendingIsServed, phase = "running", NEW i \in Ids
               PROVE  status[i] = "pending" <=> \E k \in Keys : pendingBy[k] = i
    BY DEF PendingIsServed, NoZombies
  <2>1. status[i] = "pending" => request[i].key \in Keys
    BY DEF IInv, TypeOK, PendingIsOpen, Requests
  <2>2. QED
    BY <2>1, NoneIsNoValue DEF PendingIsServed, IInv, KeyOfPending
<1>4. QED
  BY <1>1, <1>2, <1>3, InvariantHolds, PTL DEF Spec

=============================================================================
