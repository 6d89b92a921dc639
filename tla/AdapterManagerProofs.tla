------------------------- MODULE AdapterManagerProofs -------------------------
(***************************************************************************)
(* Proofs about AdapterManager and the Session Registry it drives, for any *)
(* agents, sessions, interactions, queue capacities and number of          *)
(* restarts.                                                               *)
(*                                                                         *)
(* None of the properties is inductive.  A handler acts on what it knew    *)
(* when it took the loop, so `Sound` says that whatever a step left to do, *)
(* a watch, an owned agent or an interaction names is in the catalogue;    *)
(* the catalogue is the fold of the log only because event ids are drawn   *)
(* once, a session is discovered once, and the newest fact of a session is *)
(* the last one created; and the log is a history after a restart only     *)
(* because, while nothing stalled, the store is a prefix of it.            *)
(*                                                                         *)
(* `Parked` adds, for a loop on which nothing stalled and no restart, why  *)
(* a session is parked and what the handler that has the loop does next.   *)
(***************************************************************************)
EXTENDS AdapterManager, PositionLemmas

Elems(steps) == {steps[k] : k \in DOMAIN steps}

\* Every step some handler has left to do, running or suspended.
AllSteps == Elems(turn) \cup UNION {Elems(c.rest) : c \in suspended}

\* A handler has one step that matters, its next; what may follow is to start
\* a watch or to return from one.
Shaped(steps) ==
  \A k \in DOMAIN steps : k > 1 => steps[k].do \in {"watch", "return"}

TurnsShaped == Shaped(turn) /\ \A c \in suspended : Shaped(c.rest)

-----------------------------------------------------------------------------
(* Whatever is named is known *)

StepsKnow ==
  \A x \in AllSteps :
    /\ x.do \in {"observe", "hint", "announce"} => state[x.sid] # "unknown"
    /\ x.do \in {"watch", "return"} => byNative[x.native] # None
    /\ x.do = "deliver" => ask[x.id] # None /\ state[ask[x.id].sid] # "unknown"

AgentsKnown ==
  \A n \in Natives : n \in watched \/ agent[n] = "owned" => byNative[n] # None

AsksKnown ==
  \A i \in Ids : inbox[i] = "pending" \/ i \in waiting \cup responding =>
    ask[i] # None /\ state[ask[i].sid] # "unknown"

\* The two indices of the catalogue agree.
IndexKnows ==
  \A n \in Natives : byNative[n] # None =>
    state[byNative[n]] # "unknown" /\ native[byNative[n]] = n

-----------------------------------------------------------------------------
(* The log *)

EidsDrawn == \A e \in Published : e.eid < nextEid
EidsUnique == \A e, f \in Published : e.eid = f.eid => e = f
SidsDrawn == \A e \in Published : native[e.sid] # None
DiscoveredOnce ==
  \A e, f \in Published :
    e.type = "discovered" /\ f.type = "discovered" /\ e.sid = f.sid => e = f

\* As long as no publish found the queue full, the store and the queue have
\* the facts in the order they were created in.
InOrder ==
  ~stalled =>
    /\ suspended = {}
    /\ \A j, k \in DOMAIN queue :
         j < k /\ queue[j] # Other /\ queue[k] # Other => queue[j].eid < queue[k].eid
    /\ \A e \in stored : \A k \in DOMAIN queue : queue[k] # Other => e.eid < queue[k].eid

LogSound == EidsDrawn /\ EidsUnique /\ SidsDrawn /\ DiscoveredOnce

-----------------------------------------------------------------------------
(* What else is known of the steps left *)

NoHintParks == \A x \in AllSteps : x.do = "hint" => x.to # "waiting_on_user"
DeliveriesSettled ==
  \A x \in AllSteps : x.do = "deliver" => inbox[x.id] \in {"answered", "timed_out"}

-----------------------------------------------------------------------------
(* Steps and sequences of steps *)

LEMMA StepsTyped ==
  /\ \A s \in Sids : \A to \in States : \A why \in Reasons : Observe(s, to, why) \in Steps
  /\ \A s \in Sids : \A to \in States : Hint(s, to) \in Steps
  /\ \A s \in Sids : Announce(s) \in Steps
  /\ \A n \in Natives : Watch(n) \in Steps /\ Return(n) \in Steps
  /\ \A i \in Ids : Deliver(i) \in Steps
BY DEF Steps, Observe, Hint, Announce, Watch, Return, Deliver

LEMMA StepFields ==
  /\ \A s, to, why :
       /\ Observe(s, to, why).do = "observe" /\ Observe(s, to, why).sid = s
       /\ Observe(s, to, why).to = to /\ Observe(s, to, why).why = why
  /\ \A s, to : Hint(s, to).do = "hint" /\ Hint(s, to).sid = s /\ Hint(s, to).to = to
  /\ \A s : Announce(s).do = "announce" /\ Announce(s).sid = s
  /\ \A n : Watch(n).do = "watch" /\ Watch(n).native = n
  /\ \A n : Return(n).do = "return" /\ Return(n).native = n
  /\ \A i : Deliver(i).do = "deliver" /\ Deliver(i).id = i
BY DEF Observe, Hint, Announce, Watch, Return, Deliver

LEMMA StepOfKind ==
  ASSUME NEW x \in Steps
  PROVE  /\ x.do \in {"observe", "hint", "announce", "watch", "return", "deliver"}
         /\ x.do \in {"observe", "hint", "announce"} => x.sid \in Sids
         /\ x.do \in {"observe", "hint"} => x.to \in States
         /\ x.do = "observe" => x.why \in Reasons
         /\ x.do \in {"watch", "return"} => x.native \in Natives
         /\ x.do = "deliver" => x.id \in Ids
BY DEF Steps

\* What may follow the first step of a handler.
Trailing(steps) == \A x \in Elems(steps) : x.do \in {"watch", "return"}

LEMMA NoSteps == <<>> \in Seq(Steps) /\ Elems(<<>>) = {} /\ Shaped(<<>>) /\ Trailing(<<>>)
BY DEF Elems, Shaped, Trailing

LEMMA OneStep ==
  ASSUME NEW x \in Steps
  PROVE  /\ <<x>> \in Seq(Steps) /\ Elems(<<x>>) = {x} /\ Shaped(<<x>>)
         /\ <<x>> # <<>> /\ Head(<<x>>) = x
BY DEF Elems, Shaped

LEMMA TwoSteps ==
  ASSUME NEW x \in Steps, NEW y \in Steps, y.do \in {"watch", "return"}
  PROVE  /\ <<x, y>> \in Seq(Steps) /\ Elems(<<x, y>>) = {x, y} /\ Shaped(<<x, y>>)
         /\ <<x, y>> # <<>> /\ Head(<<x, y>>) = x
<1>1. PICK two : two = <<x, y>>
  OBVIOUS
<1>2. /\ two \in Seq(Steps) /\ two # <<>> /\ Head(two) = x
      /\ DOMAIN two = {1, 2} /\ two[1] = x /\ two[2] = y
  BY <1>1
<1>3. Elems(two) = {x, y}
  BY <1>2 DEF Elems
<1>4. Shaped(two)
  BY <1>2 DEF Shaped
<1>5. QED
  BY <1>1, <1>2, <1>3, <1>4

\* A step before some trailing ones.
LEMMA StepBefore ==
  ASSUME NEW x \in Steps, NEW steps \in Seq(Steps), Trailing(steps)
  PROVE  /\ <<x>> \o steps \in Seq(Steps)
         /\ Elems(<<x>> \o steps) = {x} \cup Elems(steps)
         /\ Shaped(<<x>> \o steps)
         /\ <<x>> \o steps # <<>> /\ Head(<<x>> \o steps) = x
<1> DEFINE t == <<x>> \o steps
<1>1. /\ t \in Seq(Steps) /\ Len(steps) \in Nat
      /\ DOMAIN steps = 1 .. Len(steps) /\ DOMAIN t = 1 .. Len(steps) + 1
      /\ t[1] = x /\ \A k \in 1 .. Len(steps) : t[k + 1] = steps[k]
  <2>1. <<x>> \in Seq(Steps) /\ Len(<<x>>) = 1 /\ <<x>>[1] = x
    OBVIOUS
  <2>2. /\ t \in Seq(Steps) /\ Len(t) = 1 + Len(steps)
        /\ \A k \in 1 .. 1 + Len(steps) : t[k] = IF k <= 1 THEN <<x>>[k] ELSE steps[k - 1]
    BY <2>1, ConcatProperties
  <2>3. Len(steps) \in Nat /\ DOMAIN steps = 1 .. Len(steps) /\ DOMAIN t = 1 .. Len(t)
    BY <2>2, LenProperties
  <2> HIDE DEF t
  <2>4. QED
    BY <2>1, <2>2, <2>3
<1> HIDE DEF t
<1>2. \A k \in DOMAIN t : k = 1 \/ (k - 1 \in DOMAIN steps /\ t[k] = steps[k - 1])
  BY <1>1
<1>3. Elems(t) = {x} \cup Elems(steps)
  <2>1. Elems(t) \subseteq {x} \cup Elems(steps)
    BY <1>1, <1>2 DEF Elems
  <2>2. ASSUME NEW k \in DOMAIN steps PROVE k + 1 \in DOMAIN t /\ t[k + 1] = steps[k]
    BY <1>1
  <2>3. {x} \cup Elems(steps) \subseteq Elems(t)
    BY <1>1, <2>2 DEF Elems
  <2>4. QED
    BY <2>1, <2>3
<1>4. Shaped(t)
  BY <1>1, <1>2 DEF Shaped, Trailing, Elems
<1>5. t # <<>> /\ Head(t) = x
  BY <1>1
<1>6. QED
  BY <1>1, <1>3, <1>4, <1>5 DEF t

\* What is left after a handler's step trails.
LEMMA RestOfSteps ==
  ASSUME NEW steps \in Seq(Steps), steps # <<>>, Shaped(steps)
  PROVE  /\ Tail(steps) \in Seq(Steps)
         /\ Elems(Tail(steps)) \subseteq Elems(steps)
         /\ Trailing(Tail(steps)) /\ Shaped(Tail(steps))
         /\ Head(steps) \in Elems(steps) /\ Head(steps) \in Steps
<1>1. /\ Tail(steps) \in Seq(Steps) /\ Head(steps) = steps[1] /\ Head(steps) \in Steps
      /\ DOMAIN steps = 1 .. Len(steps) /\ Len(steps) \in Nat \ {0}
      /\ DOMAIN Tail(steps) = 1 .. Len(steps) - 1
      /\ \A k \in DOMAIN Tail(steps) : Tail(steps)[k] = steps[k + 1]
  BY AfterTail
<1>2. \A k \in DOMAIN Tail(steps) : k + 1 \in DOMAIN steps /\ k + 1 > 1 /\ Tail(steps)[k] = steps[k + 1]
  BY <1>1
<1>3. \A k \in DOMAIN Tail(steps) : Tail(steps)[k].do \in {"watch", "return"}
  BY <1>2 DEF Shaped
<1>4. Trailing(Tail(steps)) /\ Shaped(Tail(steps))
  BY <1>3 DEF Trailing, Shaped, Elems
<1>5. Elems(Tail(steps)) \subseteq Elems(steps)
  BY <1>2 DEF Elems
<1>6. Head(steps) \in Elems(steps)
  BY <1>1 DEF Elems
<1>7. QED
  BY <1>1, <1>4, <1>5, <1>6

LEMMA ReturnAfterRaise ==
  ASSUME NEW steps \in Seq(Steps), Trailing(steps)
  PROVE  /\ AfterRaise(steps) \in Seq(Steps)
         /\ Elems(AfterRaise(steps)) \subseteq Elems(steps)
         /\ Shaped(AfterRaise(steps)) /\ Trailing(AfterRaise(steps))
<1>1. CASE steps # <<>> /\ steps[Len(steps)].do = "return"
  <2>1. AfterRaise(steps) = <<steps[Len(steps)]>>
    BY <1>1 DEF AfterRaise
  <2>2. Len(steps) \in DOMAIN steps /\ steps[Len(steps)] \in Steps
    BY <1>1
  <2>3. steps[Len(steps)] \in Elems(steps)
    BY <2>2 DEF Elems
  <2>4. QED
    BY <2>1, <2>2, <2>3, OneStep DEF Trailing
<1>2. CASE ~(steps # <<>> /\ steps[Len(steps)].do = "return")
  <2>1. AfterRaise(steps) = <<>>
    BY <1>2 DEF AfterRaise
  <2>2. QED
    BY <2>1, NoSteps
<1>3. QED
  BY <1>1, <1>2

-----------------------------------------------------------------------------
(* What a step does to the loop *)

LoopTypes ==
  /\ turn \in Seq(Steps)
  /\ \A c \in suspended : c.event \in Facts \cup {Other} /\ c.rest \in Seq(Steps)
  /\ capacity \in Capacities
  /\ queue \in Seq(Facts \cup {Other})
  /\ stalled \in BOOLEAN
  /\ nextEid \in Nat

\* A handler goes on to `rest` without publishing.
Quiet(rest) == turn' = rest /\ UNCHANGED <<capacity, suspended, queue, stalled, nextEid>>

LoopStep(event, rest) == Publish(event, rest) \/ Quiet(rest)

\* The steps left after a handler's step are those there were and those of the
\* handler itself; as long as nothing is stalled they are the latter.
LEMMA LoopStepMoves ==
  ASSUME LoopTypes, TurnsShaped,
         NEW event \in Facts \cup {Other}, NEW rest \in Seq(Steps), Shaped(rest),
         LoopStep(event, rest)
  PROVE  /\ LoopTypes' /\ TurnsShaped'
         /\ AllSteps' \subseteq AllSteps \cup Elems(rest)
         /\ turn' \in {rest, <<>>}
         /\ stalled => stalled'
         /\ ~stalled' => turn' = rest /\ suspended' = suspended
<1>1. CASE Quiet(rest)
  BY <1>1 DEF Quiet, LoopTypes, TurnsShaped, AllSteps
<1>2. CASE Publish(event, rest)
  <2>1. nextEid' \in Nat /\ capacity' = capacity
    BY <1>2 DEF Publish, LoopTypes
  <2>2. CASE /\ queue' = Append(queue, event) /\ turn' = rest
             /\ UNCHANGED <<suspended, stalled>>
    <3>1. queue' \in Seq(Facts \cup {Other})
      BY <2>2, AppendProperties DEF LoopTypes
    <3>2. QED
      BY <2>1, <2>2, <3>1 DEF LoopTypes, TurnsShaped, AllSteps
  <2>3. CASE /\ suspended' = suspended \cup {[event |-> event, rest |-> rest]}
             /\ turn' = <<>> /\ stalled' = TRUE /\ UNCHANGED queue
    <3>1. PICK c : /\ c.event = event /\ c.rest = rest
                   /\ suspended' = suspended \cup {c}
      BY <2>3
    <3>2. LoopTypes'
      BY <2>1, <2>3, <3>1 DEF LoopTypes
    <3>3. TurnsShaped' /\ AllSteps' \subseteq AllSteps \cup Elems(rest)
      BY <2>3, <3>1, NoSteps DEF TurnsShaped, AllSteps
    <3>4. QED
      BY <2>3, <3>2, <3>3
  <2>4. QED
    BY <1>2, <2>2, <2>3 DEF Publish
<1>3. QED
  BY <1>1, <1>2 DEF LoopStep

\* What is known of the steps left.
StepsSound == TurnsShaped /\ StepsKnow /\ NoHintParks /\ DeliveriesSettled

\* What was known stays so.
Remembered ==
  /\ \A s \in Sids : state[s] # "unknown" => state'[s] # "unknown"
  /\ \A n \in Natives : byNative[n] # None => byNative'[n] # None
  /\ \A i \in Ids : inbox[i] \in {"answered", "timed_out"} => inbox'[i] = inbox[i] /\ ask'[i] = ask[i]

LEMMA AskTyped ==
  ASSUME TypeOK, NEW i \in Ids, ask[i] # None
  PROVE  ask[i].sid \in Sids /\ ask[i].path \in Paths
BY DEF TypeOK

LEMMA AllStepsTyped ==
  ASSUME TypeOK
  PROVE  AllSteps \subseteq Steps
<1>1. ASSUME NEW q \in Seq(Steps) PROVE Elems(q) \subseteq Steps
  BY ElementOfSeq, LenProperties DEF Elems
<1>2. QED
  BY <1>1 DEF AllSteps, TypeOK

\* Steps left that are among those there were and some new ones stay sound.
LEMMA StepsStaySound ==
  ASSUME TypeOK, StepsSound, TurnsShaped', Remembered, NEW new, AllSteps' \subseteq AllSteps \cup new,
         \A x \in new :
           /\ x.do \in {"observe", "hint", "announce"} => state'[x.sid] # "unknown"
           /\ x.do \in {"watch", "return"} => byNative'[x.native] # None
           /\ x.do = "deliver" => /\ ask'[x.id] # None /\ state'[ask'[x.id].sid] # "unknown"
                                  /\ inbox'[x.id] \in {"answered", "timed_out"}
           /\ x.do = "hint" => x.to # "waiting_on_user"
  PROVE  StepsSound'
<1>1. ASSUME NEW x \in AllSteps
      PROVE  /\ x.do \in {"observe", "hint", "announce"} => state'[x.sid] # "unknown"
             /\ x.do \in {"watch", "return"} => byNative'[x.native] # None
             /\ x.do = "deliver" => /\ ask'[x.id] # None /\ state'[ask'[x.id].sid] # "unknown"
                                    /\ inbox'[x.id] \in {"answered", "timed_out"}
             /\ x.do = "hint" => x.to # "waiting_on_user"
  <2>1. x \in Steps
    BY AllStepsTyped
  <2>2. x.do \in {"observe", "hint", "announce"} => state'[x.sid] # "unknown"
    BY <2>1, StepOfKind DEF StepsSound, StepsKnow, Remembered
  <2>3. x.do \in {"watch", "return"} => byNative'[x.native] # None
    BY <2>1, StepOfKind DEF StepsSound, StepsKnow, Remembered
  <2>4. ASSUME x.do = "deliver"
        PROVE  /\ ask'[x.id] # None /\ state'[ask'[x.id].sid] # "unknown"
               /\ inbox'[x.id] \in {"answered", "timed_out"}
    <3>1. x.id \in Ids /\ ask[x.id] # None /\ state[ask[x.id].sid] # "unknown"
          /\ inbox[x.id] \in {"answered", "timed_out"}
      BY <2>1, <2>4, StepOfKind DEF StepsSound, StepsKnow, DeliveriesSettled
    <3>2. ask[x.id].sid \in Sids
      BY <3>1, AskTyped
    <3>3. QED
      BY <3>1, <3>2 DEF Remembered
  <2>5. x.do = "hint" => x.to # "waiting_on_user"
    BY DEF StepsSound, NoHintParks
  <2>6. QED
    BY <2>2, <2>3, <2>4, <2>5
<1>2. \A x \in AllSteps' :
        /\ x.do \in {"observe", "hint", "announce"} => state'[x.sid] # "unknown"
        /\ x.do \in {"watch", "return"} => byNative'[x.native] # None
        /\ x.do = "deliver" => /\ ask'[x.id] # None /\ state'[ask'[x.id].sid] # "unknown"
                               /\ inbox'[x.id] \in {"answered", "timed_out"}
        /\ x.do = "hint" => x.to # "waiting_on_user"
  BY <1>1
<1>3. QED
  BY <1>2 DEF StepsSound, StepsKnow, NoHintParks, DeliveriesSettled

-----------------------------------------------------------------------------
(* Logs and their fold *)

LEMMA FactFields ==
  ASSUME NEW e \in Facts
  PROVE  e.eid \in Nat /\ e.sid \in Sids /\ e.type \in {"discovered", "state_changed"}
         /\ e.to \in States /\ e.from \in States \cup {"unknown"} /\ e # Other
BY OtherIsNoFact DEF Facts

\* A change newer than all of a log is where the fold of its session ends.
LEMMA ChangeFolds ==
  ASSUME NEW log \in SUBSET Facts, NEW e \in Facts, \A f \in log : f.eid < e.eid,
         e.type = "state_changed", DiscoveredIn(e.sid, log)
  PROVE  /\ FoldState(e.sid, log \cup {e}) = e.to
         /\ \A s \in Sids : s # e.sid => FoldState(s, log \cup {e}) = FoldState(s, log)
<1> DEFINE new == log \cup {e}
<1>1. \A s \in Sids : DiscoveredIn(s, new) <=> DiscoveredIn(s, log)
  BY DEF DiscoveredIn
<1>2. \A s \in Sids : s # e.sid => ChangesOf(s, new) = ChangesOf(s, log)
  BY DEF ChangesOf
<1>3. \A s \in Sids : s # e.sid => FoldState(s, new) = FoldState(s, log)
  <2> HIDE DEF new
  <2>1. QED
    BY <1>1, <1>2 DEF FoldState
<1>4. Newest(ChangesOf(e.sid, new)) = e
  <2>1. e \in ChangesOf(e.sid, new)
    BY DEF ChangesOf
  <2>2. \A f \in ChangesOf(e.sid, new) : f = e \/ f.eid < e.eid
    BY DEF ChangesOf
  <2>3. \A f \in ChangesOf(e.sid, new) : f.eid <= e.eid
    <3>1. \A f \in ChangesOf(e.sid, new) : f.eid \in Nat
      BY FactFields DEF ChangesOf
    <3>2. e.eid \in Nat
      BY FactFields
    <3> HIDE DEF new
    <3>3. QED
      BY <2>2, <3>1, <3>2
  <2>4. \A f \in ChangesOf(e.sid, new) :
          (\A g \in ChangesOf(e.sid, new) : g.eid <= f.eid) => f = e
    <3>1. \A f \in ChangesOf(e.sid, new) : f.eid \in Nat
      BY FactFields DEF ChangesOf
    <3>2. QED
      BY <2>1, <2>2, <3>1
  <2> HIDE DEF new
  <2>5. QED
    BY <2>1, <2>3, <2>4 DEF Newest
<1>5. FoldState(e.sid, new) = e.to
  <2>1. e \in ChangesOf(e.sid, new)
    BY DEF ChangesOf
  <2>2. DiscoveredIn(e.sid, new)
    BY <1>1, FactFields
  <2> HIDE DEF new
  <2>3. QED
    BY <1>4, <2>1, <2>2 DEF FoldState
<1>6. QED
  BY <1>3, <1>5

\* The discovery of a session of which the log has nothing.
LEMMA DiscoveryFolds ==
  ASSUME NEW log \in SUBSET Facts, NEW e \in Facts, \A f \in log : f.sid # e.sid,
         e.type = "discovered"
  PROVE  /\ FoldState(e.sid, log \cup {e}) = "discovered"
         /\ \A s \in Sids : s # e.sid => FoldState(s, log \cup {e}) = FoldState(s, log)
<1> DEFINE new == log \cup {e}
<1>1. \A s \in Sids : ChangesOf(s, new) = ChangesOf(s, log)
  BY DEF ChangesOf
<1>2. \A s \in Sids : s # e.sid => (DiscoveredIn(s, new) <=> DiscoveredIn(s, log))
  BY DEF DiscoveredIn
<1>3. DiscoveredIn(e.sid, new) /\ ChangesOf(e.sid, new) = {} /\ e.sid \in Sids
  BY FactFields DEF DiscoveredIn, ChangesOf
<1> HIDE DEF new
<1>4. FoldState(e.sid, new) = "discovered"
  BY <1>3 DEF FoldState
<1>5. \A s \in Sids : s # e.sid => FoldState(s, new) = FoldState(s, log)
  BY <1>1, <1>2 DEF FoldState
<1>6. QED
  BY <1>4, <1>5 DEF new

\* A log in which every change of a session starts where the one before ended.
Before(e, log) == {f \in ChangesOf(e.sid, log) : f.eid < e.eid}
IsHistory(log) ==
  \A e \in log : e.type = "state_changed" =>
    /\ e.to \in Legal[e.from]
    /\ e.from = IF Before(e, log) = {} THEN "discovered" ELSE Newest(Before(e, log)).to

LEMMA HistoryIsHistory ==
  ASSUME NEW log \in SUBSET Facts
  PROVE  IsHistory(log) <=>
           \A s \in Sids : \A e \in ChangesOf(s, log) :
             LET before == {f \in ChangesOf(s, log) : f.eid < e.eid}
             IN /\ e.to \in Legal[e.from]
                /\ e.from = IF before = {} THEN "discovered" ELSE Newest(before).to
<1>1. \A e \in log : e.sid \in Sids
  BY FactFields
<1>2. \A s \in Sids : \A e \in ChangesOf(s, log) :
        e.type = "state_changed" /\ e \in log /\ {f \in ChangesOf(s, log) : f.eid < e.eid} = Before(e, log)
  BY DEF ChangesOf, Before
<1>3. \A e \in log : e.type = "state_changed" => e \in ChangesOf(e.sid, log)
  BY DEF ChangesOf
<1> DEFINE Follows(e, before) ==
             /\ e.to \in Legal[e.from]
             /\ e.from = IF before = {} THEN "discovered" ELSE Newest(before).to
<1> HIDE DEF Follows
<1>4. (\A e \in log : e.type = "state_changed" => Follows(e, Before(e, log))) <=>
        \A s \in Sids : \A e \in ChangesOf(s, log) :
          Follows(e, {f \in ChangesOf(s, log) : f.eid < e.eid})
  <2>1. ASSUME \A e \in log : e.type = "state_changed" => Follows(e, Before(e, log)),
               NEW s \in Sids, NEW e \in ChangesOf(s, log)
        PROVE  Follows(e, {f \in ChangesOf(s, log) : f.eid < e.eid})
    BY <1>2, <2>1
  <2>2. ASSUME \A s \in Sids : \A e \in ChangesOf(s, log) :
                 Follows(e, {f \in ChangesOf(s, log) : f.eid < e.eid}),
               NEW e \in log, e.type = "state_changed"
        PROVE  Follows(e, Before(e, log))
    BY <1>1, <1>3, <2>2 DEF Before
  <2>3. QED
    BY <2>1, <2>2
<1>5. QED
  BY <1>4 DEF IsHistory, Follows

LEMMA ChangeExtendsHistory ==
  ASSUME NEW log \in SUBSET Facts, IsHistory(log), NEW e \in Facts, \A f \in log : f.eid < e.eid,
         e.type = "state_changed", DiscoveredIn(e.sid, log),
         e.from = FoldState(e.sid, log), e.to \in Legal[e.from]
  PROVE  IsHistory(log \cup {e})
<1>1. ASSUME NEW f \in log, f.type = "state_changed" PROVE Before(f, log \cup {e}) = Before(f, log)
  BY FactFields DEF Before, ChangesOf
<1>2. Before(e, log \cup {e}) = ChangesOf(e.sid, log)
  BY FactFields DEF Before, ChangesOf
<1>3. e.from = IF ChangesOf(e.sid, log) = {} THEN "discovered" ELSE Newest(ChangesOf(e.sid, log)).to
  BY DEF FoldState
<1>4. QED
  BY <1>1, <1>2, <1>3 DEF IsHistory

LEMMA DiscoveryExtendsHistory ==
  ASSUME NEW log \in SUBSET Facts, IsHistory(log), NEW e \in Facts, e.type = "discovered"
  PROVE  IsHistory(log \cup {e})
<1>1. ASSUME NEW f \in log PROVE Before(f, log \cup {e}) = Before(f, log)
  BY DEF Before, ChangesOf
<1>2. QED
  BY <1>1 DEF IsHistory

\* The first facts of a history are one.
LEMMA HistoryHasPrefixes ==
  ASSUME NEW log \in SUBSET Facts, IsHistory(log), NEW old \in SUBSET log,
         \A e \in old : \A f \in log : f.eid < e.eid => f \in old
  PROVE  IsHistory(old)
<1>1. ASSUME NEW e \in old PROVE Before(e, old) = Before(e, log)
  BY DEF Before, ChangesOf
<1>2. QED
  BY <1>1 DEF IsHistory

-----------------------------------------------------------------------------
(* What a step does to the log *)

LEMMA PublishedTyped ==
  ASSUME TypeOK
  PROVE  Published \subseteq Facts
<1>1. \A k \in DOMAIN queue : queue[k] \in Facts \cup {Other}
  BY ElementOfSeq, LenProperties DEF TypeOK
<1>2. QED
  BY <1>1 DEF Published, InFlight, TypeOK

\* A handler's step adds the event it publishes, if any.
LEMMA LoopStepAdds ==
  ASSUME TypeOK, UNCHANGED stored, NEW event \in Facts \cup {Other}, NEW rest
  PROVE  /\ Quiet(rest) => Published' = Published /\ nextEid' = nextEid
         /\ Publish(event, rest) =>
              /\ Published' = Published \cup ({event} \ {Other})
              /\ nextEid' = IF event = Other THEN nextEid ELSE nextEid + 1
<1>1. ASSUME Quiet(rest) PROVE Published' = Published /\ nextEid' = nextEid
  BY <1>1 DEF Quiet, Published, InFlight
<1>2. ASSUME Publish(event, rest) PROVE InFlight' = InFlight \cup {event}
  <2>1. CASE queue' = Append(queue, event) /\ suspended' = suspended
    <3>1. queue \in Seq(Facts \cup {Other})
      BY DEF TypeOK
    <3>2. /\ DOMAIN queue = 1 .. Len(queue) /\ Len(queue) \in Nat
          /\ DOMAIN queue' = 1 .. Len(queue) + 1
          /\ \A k \in DOMAIN queue : queue'[k] = queue[k]
          /\ queue'[Len(queue) + 1] = event
      BY <2>1, <3>1, AfterAppend
    <3>3. {queue'[k] : k \in DOMAIN queue'} = {queue[k] : k \in DOMAIN queue} \cup {event}
      <4>1. \A k \in DOMAIN queue' : k \in DOMAIN queue \/ k = Len(queue) + 1
        BY <3>2
      <4>2. \A k \in DOMAIN queue : k \in DOMAIN queue'
        BY <3>2
      <4>3. Len(queue) + 1 \in DOMAIN queue'
        BY <3>2
      <4>4. QED
        BY <3>2, <4>1, <4>2, <4>3
    <3>4. QED
      BY <2>1, <3>3 DEF InFlight
  <2>2. CASE suspended' = suspended \cup {[event |-> event, rest |-> rest]} /\ queue' = queue
    <3>1. PICK c : c.event = event /\ suspended' = suspended \cup {c}
      BY <2>2
    <3>2. {d.event : d \in suspended'} = {d.event : d \in suspended} \cup {event}
      BY <3>1
    <3>3. QED
      BY <2>2, <3>2 DEF InFlight
  <2>3. QED
    BY <1>2, <2>1, <2>2 DEF Publish
<1>3. ASSUME Publish(event, rest)
      PROVE  /\ Published' = Published \cup ({event} \ {Other})
             /\ nextEid' = IF event = Other THEN nextEid ELSE nextEid + 1
  <2>1. nextEid' = IF event = Other THEN nextEid ELSE nextEid + 1
    BY <1>3 DEF Publish
  <2>2. Published' = Published \cup ({event} \ {Other})
    BY <1>2, <1>3 DEF Published
  <2>3. QED
    BY <2>1, <2>2
<1>4. QED
  BY <1>1, <1>3

\* What is created later comes later on the queue.
LEMMA LoopStepInOrder ==
  ASSUME TypeOK, InOrder, EidsDrawn, UNCHANGED stored,
         NEW event \in Facts \cup {Other}, event # Other => event.eid = nextEid,
         NEW rest, LoopStep(event, rest)
  PROVE  InOrder'
<1> SUFFICES ASSUME ~stalled'
             PROVE  /\ suspended' = {}
                    /\ \A j, k \in DOMAIN queue' :
                         j < k /\ queue'[j] # Other /\ queue'[k] # Other => queue'[j].eid < queue'[k].eid
                    /\ \A e \in stored : \A k \in DOMAIN queue' :
                         queue'[k] # Other => e.eid < queue'[k].eid
  BY DEF InOrder
<1>1. CASE queue' = queue /\ suspended' = suspended /\ stalled' = stalled
  BY <1>1 DEF InOrder
<1>2. CASE queue' = Append(queue, event) /\ suspended' = suspended /\ stalled' = stalled
  <2>1. queue \in Seq(Facts \cup {Other})
    BY DEF TypeOK
  <2>2. /\ DOMAIN queue = 1 .. Len(queue) /\ Len(queue) \in Nat
        /\ DOMAIN queue' = 1 .. Len(queue) + 1
        /\ \A k \in DOMAIN queue : queue'[k] = queue[k]
        /\ queue'[Len(queue) + 1] = event
    BY <1>2, <2>1, AfterAppend
  <2>3. \A k \in DOMAIN queue : queue[k] # Other => queue[k].eid < nextEid
    BY DEF EidsDrawn, Published, InFlight
  <2>4. \A e \in stored : e.eid < nextEid
    BY DEF EidsDrawn, Published
  <2>5. \A k \in DOMAIN queue' : k \in DOMAIN queue \/ k = Len(queue) + 1
    BY <2>2
  <2>6. ASSUME NEW j \in DOMAIN queue', NEW k \in DOMAIN queue', j < k,
               queue'[j] # Other, queue'[k] # Other
        PROVE  queue'[j].eid < queue'[k].eid
    <3>1. j \in DOMAIN queue
      BY <2>2, <2>6
    <3>2. CASE k \in DOMAIN queue
      BY <1>2, <2>2, <2>6, <3>1, <3>2 DEF InOrder
    <3>3. CASE k = Len(queue) + 1
      BY <2>2, <2>3, <2>6, <3>1, <3>3
    <3>4. QED
      BY <2>5, <3>2, <3>3
  <2>7. ASSUME NEW e \in stored, NEW k \in DOMAIN queue', queue'[k] # Other
        PROVE  e.eid < queue'[k].eid
    <3>1. CASE k \in DOMAIN queue
      BY <1>2, <2>2, <2>7, <3>1 DEF InOrder
    <3>2. CASE k = Len(queue) + 1
      BY <2>2, <2>4, <2>7, <3>2
    <3>3. QED
      BY <2>5, <3>1, <3>2
  <2>8. QED
    BY <1>2, <2>6, <2>7 DEF InOrder
<1>3. CASE stalled' = TRUE
  BY <1>3
<1>4. QED
  BY <1>1, <1>2, <1>3 DEF LoopStep, Publish, Quiet

\* The log, the catalogue and what the log says of it.
Logged == LogSound /\ CatalogueIsFoldOfLog /\ InOrder /\ LogIsHistory

\* With the log as it was, so is what it says.
LEMMA LogStays ==
  ASSUME TypeOK, Logged, Published' = Published, nextEid' = nextEid,
         UNCHANGED <<native, state>>, stalled => stalled', UNCHANGED restarts, InOrder'
  PROVE  Logged'
<1>1. LogSound'
  BY DEF Logged, LogSound, EidsDrawn, EidsUnique, SidsDrawn, DiscoveredOnce
<1>2. CatalogueIsFoldOfLog'
  BY DEF Logged, CatalogueIsFoldOfLog
<1>3. LogIsHistory'
  BY DEF Logged, LogIsHistory
<1>4. QED
  BY <1>1, <1>2, <1>3 DEF Logged

\* The steps that create no fact.
LEMMA OtherStepLogs ==
  ASSUME TypeOK, Logged, UNCHANGED <<native, state, stored, restarts>>, NEW rest,
         Publish(Other, rest) \/ Quiet(rest)
  PROVE  Logged'
<1>1. Published' = Published /\ nextEid' = nextEid
  BY LoopStepAdds
<1>2. InOrder'
  BY LoopStepInOrder DEF LoopStep, Logged, LogSound
<1>3. stalled => stalled'
  BY DEF Publish, Quiet
<1>4. QED
  BY <1>1, <1>2, <1>3, LogStays

LEMMA LogHistory ==
  ASSUME TypeOK
  PROVE  LogIsHistory <=> ((stalled => restarts = 0) => IsHistory(Published))
BY PublishedTyped, HistoryIsHistory DEF LogIsHistory

LEMMA LogHistoryNext ==
  ASSUME NEW log \in SUBSET Facts, Published' = log, (stalled' => restarts' = 0) => IsHistory(log)
  PROVE  LogIsHistory'
<1>1. (stalled' => restarts' = 0) =>
        \A s \in Sids : \A e \in ChangesOf(s, log) :
          LET before == {f \in ChangesOf(s, log) : f.eid < e.eid}
          IN /\ e.to \in Legal[e.from]
             /\ e.from = IF before = {} THEN "discovered" ELSE Newest(before).to
  BY HistoryIsHistory
<1>2. QED
  BY <1>1 DEF LogIsHistory

\* A fact newer than all of the log keeps event ids apart.
LEMMA FactAdds ==
  ASSUME TypeOK, LogSound, NEW e \in Facts, e.eid = nextEid,
         Published' = Published \cup {e}, nextEid' = nextEid + 1
  PROVE  /\ EidsDrawn' /\ EidsUnique'
         /\ \A f \in Published : f.eid < e.eid
<1>1. \A f \in Published : f.eid \in Nat /\ f.eid < nextEid
  BY PublishedTyped, FactFields DEF LogSound, EidsDrawn
<1>2. nextEid \in Nat
  BY DEF TypeOK
<1>3. QED
  BY <1>1, <1>2 DEF EidsDrawn, EidsUnique, LogSound

\* A transition of a known session is logged.
LEMMA ChangeLogs ==
  ASSUME TypeOK, TypeOK', Logged, NEW s \in Sids, NEW to \in States,
         state[s] # "unknown", to \in Legal[state[s]],
         state' = [state EXCEPT ![s] = to],
         UNCHANGED <<native, stored, restarts>>, NEW rest,
         Publish(Fact("state_changed", s, state[s], to), rest)
  PROVE  Logged'
<1> DEFINE e == Fact("state_changed", s, state[s], to)
<1>1. /\ e \in Facts /\ e.eid = nextEid /\ e.sid = s /\ e.type = "state_changed"
      /\ e.from = state[s] /\ e.to = to
  BY DEF Fact, Facts, TypeOK
<1>2. Publish(e, rest)
  OBVIOUS
<1> HIDE DEF e
<1>3. Published' = Published \cup {e} /\ nextEid' = nextEid + 1
  BY <1>1, <1>2, LoopStepAdds, FactFields
<1>4. EidsDrawn' /\ EidsUnique' /\ (\A f \in Published : f.eid < e.eid) /\ Published \in SUBSET Facts
  BY <1>1, <1>3, FactAdds, PublishedTyped DEF Logged
<1>5. state[s] = FoldState(s, Published) /\ DiscoveredIn(s, Published)
  BY DEF Logged, CatalogueIsFoldOfLog, FoldState
<1>6. LogSound'
  <2>1. native[s] # None
    BY <1>5 DEF DiscoveredIn, Logged, LogSound, SidsDrawn
  <2>2. SidsDrawn'
    BY <1>1, <1>3, <2>1 DEF Logged, LogSound, SidsDrawn
  <2>3. DiscoveredOnce'
    BY <1>1, <1>3 DEF Logged, LogSound, DiscoveredOnce
  <2>4. QED
    BY <1>4, <2>2, <2>3 DEF LogSound
<1>7. CatalogueIsFoldOfLog'
  <2>1. /\ FoldState(s, Published \cup {e}) = to
        /\ \A t \in Sids : t # s => FoldState(t, Published \cup {e}) = FoldState(t, Published)
    BY <1>1, <1>4, <1>5, ChangeFolds
  <2>2. \A t \in Sids : state'[t] = IF t = s THEN to ELSE state[t]
    BY DEF TypeOK
  <2>3. QED
    BY <1>3, <2>1, <2>2 DEF Logged, CatalogueIsFoldOfLog
<1>8. InOrder'
  BY <1>1, <1>2, LoopStepInOrder DEF Logged, LogSound, LoopStep
<1>9. LogIsHistory'
  <2>1. stalled => stalled'
    BY <1>2 DEF Publish
  <2>2. SUFFICES ASSUME stalled' => restarts = 0 PROVE IsHistory(Published \cup {e})
    BY <1>3, <1>1, <1>4, LogHistoryNext
  <2>3. IsHistory(Published)
    BY <2>1, <2>2, LogHistory DEF Logged
  <2>4. QED
    BY <1>1, <1>4, <1>5, <2>3, ChangeExtendsHistory
<1>10. QED
  BY <1>6, <1>7, <1>8, <1>9 DEF Logged

\* So is the discovery of a new one.
LEMMA DiscoveryLogs ==
  ASSUME TypeOK, TypeOK', Logged, NEW s \in Sids, NEW n \in Natives, native[s] = None,
         native' = [native EXCEPT ![s] = n],
         state' = [state EXCEPT ![s] = "discovered"],
         UNCHANGED <<stored, restarts>>, NEW rest,
         Publish(Fact("discovered", s, "unknown", "discovered"), rest)
  PROVE  Logged'
<1> DEFINE e == Fact("discovered", s, "unknown", "discovered")
<1>1. e \in Facts /\ e.eid = nextEid /\ e.sid = s /\ e.type = "discovered"
  BY DEF Fact, Facts, TypeOK, States
<1>2. Publish(e, rest)
  OBVIOUS
<1> HIDE DEF e
<1>3. Published' = Published \cup {e} /\ nextEid' = nextEid + 1
  BY <1>1, <1>2, LoopStepAdds, FactFields
<1>4. EidsDrawn' /\ EidsUnique' /\ (\A f \in Published : f.eid < e.eid) /\ Published \in SUBSET Facts
  BY <1>1, <1>3, FactAdds, PublishedTyped DEF Logged
<1>5. \A f \in Published : f.sid # s
  BY DEF Logged, LogSound, SidsDrawn
<1>6. LogSound'
  <2>1. \A t \in Sids : native'[t] = IF t = s THEN n ELSE native[t]
    BY DEF TypeOK
  <2>2. SidsDrawn'
    BY <1>1, <1>3, <1>4, <2>1, FactFields, NoneIsNoSession DEF Logged, LogSound, SidsDrawn
  <2>3. DiscoveredOnce'
    BY <1>1, <1>3, <1>5 DEF Logged, LogSound, DiscoveredOnce
  <2>4. QED
    BY <1>4, <2>2, <2>3 DEF LogSound
<1>7. CatalogueIsFoldOfLog'
  <2>1. /\ FoldState(s, Published \cup {e}) = "discovered"
        /\ \A t \in Sids : t # s => FoldState(t, Published \cup {e}) = FoldState(t, Published)
    BY <1>1, <1>4, <1>5, DiscoveryFolds
  <2>2. \A t \in Sids : state'[t] = IF t = s THEN "discovered" ELSE state[t]
    BY DEF TypeOK
  <2>3. QED
    BY <1>3, <2>1, <2>2 DEF Logged, CatalogueIsFoldOfLog
<1>8. InOrder'
  BY <1>1, <1>2, LoopStepInOrder DEF Logged, LogSound, LoopStep
<1>9. LogIsHistory'
  <2>1. stalled => stalled'
    BY <1>2 DEF Publish
  <2>2. SUFFICES ASSUME stalled' => restarts = 0 PROVE IsHistory(Published \cup {e})
    BY <1>3, <1>1, <1>4, LogHistoryNext
  <2>3. IsHistory(Published)
    BY <2>1, <2>2, LogHistory DEF Logged
  <2>4. QED
    BY <1>1, <1>4, <2>3, DiscoveryExtendsHistory
<1>10. QED
  BY <1>6, <1>7, <1>8, <1>9 DEF Logged

\* A restart keeps what is stored, and that is a history of its own.
LEMMA RestartLogs ==
  ASSUME TypeOK, Logged, RebuildRegistry, restarts' = restarts + 1
  PROVE  Logged'
<1>1. Published' = stored /\ stored \subseteq Published /\ Published \in SUBSET Facts
  BY PublishedTyped DEF RebuildRegistry, Published, InFlight
<1>2. UNCHANGED <<native, stored, stalled, nextEid>> /\ suspended' = {} /\ queue' = <<>>
  BY DEF RebuildRegistry
<1>3. LogSound'
  BY <1>1, <1>2 DEF Logged, LogSound, EidsDrawn, EidsUnique, SidsDrawn, DiscoveredOnce
<1>4. CatalogueIsFoldOfLog'
  BY <1>1 DEF CatalogueIsFoldOfLog, RebuildRegistry
<1>5. InOrder'
  BY <1>2 DEF InOrder
<1>6. LogIsHistory'
  <2>1. SUFFICES ASSUME stalled => restarts + 1 = 0 PROVE IsHistory(stored)
    BY <1>1, <1>2, LogHistoryNext
  <2>2. ~stalled
    BY <2>1 DEF TypeOK
  <2>3. IsHistory(Published)
    BY <2>2, LogHistory DEF Logged
  <2>4. ASSUME NEW e \in stored, NEW f \in Published, f.eid < e.eid PROVE f \in stored
    <3>1. e.eid \in Nat /\ f.eid \in Nat /\ f # Other
      BY <1>1, FactFields
    <3>2. \A k \in DOMAIN queue : queue[k] # f
      BY <2>2, <2>4, <3>1 DEF Logged, InOrder
    <3>3. f \notin InFlight
      BY <2>2, <3>2 DEF Logged, InOrder, InFlight
    <3>4. QED
      BY <3>3 DEF Published
  <2>5. QED
    BY <1>1, <2>3, <2>4, HistoryHasPrefixes
<1>7. QED
  BY <1>3, <1>4, <1>5, <1>6 DEF Logged

LEMMA RecordLogs ==
  ASSUME TypeOK, Logged, Record, UNCHANGED restarts
  PROVE  Logged' /\ queue' \in Seq(Facts \cup {Other}) /\ stored' \in SUBSET Facts
<1>1. queue \in Seq(Facts \cup {Other}) /\ queue # <<>> /\ queue' = Tail(queue)
      /\ stored' = stored \cup ({Head(queue)} \ {Other})
      /\ UNCHANGED <<native, state, suspended, stalled, nextEid>>
  BY DEF TypeOK, Record, registry
<1>2. /\ queue' \in Seq(Facts \cup {Other})
      /\ Head(queue) \in Facts \cup {Other} /\ Head(queue) = queue[1]
      /\ DOMAIN queue = 1 .. Len(queue) /\ Len(queue) \in Nat \ {0}
      /\ DOMAIN queue' = 1 .. Len(queue) - 1
      /\ \A k \in DOMAIN queue' : queue'[k] = queue[k + 1]
  BY <1>1, AfterTail
<1>3. \A k \in DOMAIN queue' : k + 1 \in DOMAIN queue /\ queue'[k] = queue[k + 1]
  BY <1>2
<1>4. 1 \in DOMAIN queue /\ \A k \in DOMAIN queue : k = 1 \/ (k - 1 \in DOMAIN queue' /\ queue'[k - 1] = queue[k])
  BY <1>2
<1>5. {queue[k] : k \in DOMAIN queue} = {Head(queue)} \cup {queue'[k] : k \in DOMAIN queue'}
  BY <1>2, <1>3, <1>4
<1>6. Published' = Published
  BY <1>1, <1>5 DEF Published, InFlight
<1>7. stored' \in SUBSET Facts
  BY <1>1, <1>2 DEF TypeOK
<1>8. InOrder'
  <2> SUFFICES ASSUME ~stalled
               PROVE  /\ suspended = {}
                      /\ \A j, k \in DOMAIN queue' :
                           j < k /\ queue'[j] # Other /\ queue'[k] # Other => queue'[j].eid < queue'[k].eid
                      /\ \A e \in stored' : \A k \in DOMAIN queue' :
                           queue'[k] # Other => e.eid < queue'[k].eid
    BY <1>1 DEF InOrder
  <2>1. /\ suspended = {}
        /\ \A j, k \in DOMAIN queue :
             j < k /\ queue[j] # Other /\ queue[k] # Other => queue[j].eid < queue[k].eid
        /\ \A e \in stored : \A k \in DOMAIN queue : queue[k] # Other => e.eid < queue[k].eid
    BY DEF Logged, InOrder
  <2>2. \A j, k \in DOMAIN queue' : j < k => j + 1 < k + 1
    BY <1>2
  <2>3. \A k \in DOMAIN queue' : 1 < k + 1
    BY <1>2
  <2>4. \A e \in stored' : e \in stored \/ (e = queue[1] /\ e # Other)
    BY <1>1, <1>2
  <2>5. QED
    BY <1>3, <1>4, <2>1, <2>2, <2>3, <2>4
<1>9. Logged'
  BY <1>1, <1>6, <1>8, LogStays
<1>10. QED
  BY <1>2, <1>7, <1>9

LEMMA ReturnLogs ==
  ASSUME TypeOK, StepsSound, Logged, NEW c \in suspended, PublishReturns(c), UNCHANGED restarts
  PROVE  /\ Logged' /\ LoopTypes' /\ TurnsShaped' /\ AllSteps' \subseteq AllSteps
         /\ stalled /\ stalled'
<1>1. /\ queue' = Append(queue, c.event) /\ suspended' = suspended \ {c} /\ turn' = c.rest
      /\ UNCHANGED <<native, state, stored, capacity, stalled, nextEid>>
      /\ c.event \in Facts \cup {Other} /\ c.rest \in Seq(Steps)
  BY DEF PublishReturns, registry, TypeOK
<1>2. queue \in Seq(Facts \cup {Other})
  BY DEF TypeOK
<1>3. /\ queue' \in Seq(Facts \cup {Other})
      /\ DOMAIN queue = 1 .. Len(queue) /\ Len(queue) \in Nat
      /\ DOMAIN queue' = 1 .. Len(queue) + 1
      /\ \A k \in DOMAIN queue : queue'[k] = queue[k]
      /\ queue'[Len(queue) + 1] = c.event
  BY <1>1, <1>2, AfterAppend
<1>4. {queue'[k] : k \in DOMAIN queue'} = {queue[k] : k \in DOMAIN queue} \cup {c.event}
  <2>1. \A k \in DOMAIN queue' : k \in DOMAIN queue \/ k = Len(queue) + 1
    BY <1>3
  <2>2. \A k \in DOMAIN queue : k \in DOMAIN queue'
    BY <1>3
  <2>3. Len(queue) + 1 \in DOMAIN queue'
    BY <1>3
  <2>4. QED
    BY <1>3, <2>1, <2>2, <2>3
<1>5. {d.event : d \in suspended} = {d.event : d \in suspended'} \cup {c.event}
  BY <1>1
<1>6. Published' = Published
  BY <1>1, <1>4, <1>5 DEF Published, InFlight
<1>7. stalled = TRUE /\ stalled' = TRUE
  BY <1>1 DEF Logged, InOrder, TypeOK
<1>8. InOrder'
  BY <1>7 DEF InOrder
<1>9. Logged'
  BY <1>1, <1>6, <1>8, LogStays
<1>10. LoopTypes'
  BY <1>1, <1>3 DEF LoopTypes, TypeOK
<1>11. TurnsShaped' /\ AllSteps' \subseteq AllSteps
  BY <1>1 DEF TurnsShaped, AllSteps, StepsSound
<1>12. QED
  BY <1>7, <1>9, <1>10, <1>11

-----------------------------------------------------------------------------
(* The invariant of the catalogue *)

Sound ==
  /\ TypeOK
  /\ StepsSound
  /\ AgentsKnown
  /\ AsksKnown
  /\ IndexKnows
  /\ OneSessionPerNative
  /\ Logged

\* The types of what is neither the catalogue's nor the loop's.
DeskTypes ==
  /\ agent \in [Natives -> Agents]
  /\ file \in [Natives -> {"none", "fresh", "idle"}]
  /\ unread \subseteq Natives
  /\ watched \subseteq Natives
  /\ inbox \in [Ids -> {"unknown", "pending", "answered", "timed_out", "cancelled"}]
  /\ ask \in [Ids -> [sid: Sids, path: Paths] \cup {None}]
  /\ waiting \subseteq Ids
  /\ responding \subseteq Ids
  /\ restarts \in Nat

RegistryTypes ==
  /\ native \in [Sids -> Natives \cup {None}]
  /\ state \in [Sids -> States \cup {"unknown"}]
  /\ byNative \in [Natives -> Sids \cup {None}]
  /\ stored \subseteq Facts

LEMMA TypesSplit == TypeOK <=> LoopTypes /\ DeskTypes /\ RegistryTypes
BY DEF TypeOK, LoopTypes, DeskTypes, RegistryTypes

LEMMA TypesSplitNext == TypeOK' <=> LoopTypes' /\ DeskTypes' /\ RegistryTypes'
BY DEF TypeOK, LoopTypes, DeskTypes, RegistryTypes

\* A handler's step that neither changes the catalogue nor creates a fact.
LEMMA OtherStepKeepsSound ==
  ASSUME Sound, UNCHANGED <<registry, stored, restarts>>, DeskTypes',
         NEW rest \in Seq(Steps), Shaped(rest), Publish(Other, rest) \/ Quiet(rest),
         \A i \in Ids : inbox[i] \in {"answered", "timed_out"} => inbox'[i] = inbox[i] /\ ask'[i] = ask[i],
         \A x \in Elems(rest) :
           /\ x.do \in {"observe", "hint", "announce"} => state[x.sid] # "unknown"
           /\ x.do \in {"watch", "return"} => byNative[x.native] # None
           /\ x.do = "deliver" => /\ ask'[x.id] # None /\ state[ask'[x.id].sid] # "unknown"
                                  /\ inbox'[x.id] \in {"answered", "timed_out"}
           /\ x.do = "hint" => x.to # "waiting_on_user",
         \A n \in Natives : n \in watched' \/ agent'[n] = "owned" => byNative[n] # None,
         \A i \in Ids : inbox'[i] = "pending" \/ i \in waiting' \cup responding' =>
           ask'[i] # None /\ state[ask'[i].sid] # "unknown"
  PROVE  Sound'
<1>0. UNCHANGED <<native, state, byNative>>
  BY DEF registry
<1>1. LoopTypes /\ TurnsShaped /\ Other \in Facts \cup {Other}
  BY TypesSplit DEF Sound, StepsSound
<1>2. /\ LoopTypes' /\ TurnsShaped'
      /\ AllSteps' \subseteq AllSteps \cup Elems(rest)
  BY <1>1, LoopStepMoves DEF LoopStep
<1>3. TypeOK'
  BY <1>0, <1>2, TypesSplit, TypesSplitNext DEF Sound, RegistryTypes
<1>4. Logged'
  BY <1>0, OtherStepLogs DEF Sound
<1>5. Remembered
  BY <1>0 DEF Remembered
<1>6. StepsSound'
  BY <1>0, <1>2, <1>5, StepsStaySound DEF Sound
<1>7. IndexKnows' /\ OneSessionPerNative' /\ AgentsKnown' /\ AsksKnown'
  BY <1>0 DEF Sound, IndexKnows, OneSessionPerNative, AgentsKnown, AsksKnown
<1>8. QED
  BY <1>3, <1>4, <1>6, <1>7 DEF Sound

\* The same with the inbox left alone.
LEMMA SameDeskKeepsSound ==
  ASSUME Sound, UNCHANGED <<registry, stored, restarts, desk>>,
         agent' \in [Natives -> Agents], file' \in [Natives -> {"none", "fresh", "idle"}],
         unread' \subseteq Natives, watched' \subseteq Natives,
         NEW rest \in Seq(Steps), Shaped(rest), Publish(Other, rest) \/ Quiet(rest),
         \A x \in Elems(rest) :
           /\ x.do \in {"observe", "hint", "announce"} => state[x.sid] # "unknown"
           /\ x.do \in {"watch", "return"} => byNative[x.native] # None
           /\ x.do # "deliver"
           /\ x.do = "hint" => x.to # "waiting_on_user",
         \A n \in Natives : n \in watched' \/ agent'[n] = "owned" => byNative[n] # None
  PROVE  Sound'
<1>1. UNCHANGED <<inbox, ask, waiting, responding>>
  BY DEF desk
<1>2. DeskTypes'
  BY <1>1, TypesSplit DEF Sound, DeskTypes
<1>3. \A i \in Ids : inbox'[i] = "pending" \/ i \in waiting' \cup responding' =>
        ask'[i] # None /\ state[ask'[i].sid] # "unknown"
  BY <1>1 DEF Sound, AsksKnown
<1>4. QED
  BY <1>1, <1>2, <1>3, OtherStepKeepsSound

\* The step a handler does next, and what is left after it.
LEMMA NextStep ==
  ASSUME Sound, turn # <<>>
  PROVE  /\ Head(turn) \in Steps /\ Head(turn) \in AllSteps
         /\ Head(turn).do \in {"observe", "hint", "announce"} => state[Head(turn).sid] # "unknown"
         /\ Head(turn).do \in {"watch", "return"} => byNative[Head(turn).native] # None
         /\ Head(turn).do = "deliver" =>
              /\ ask[Head(turn).id] # None /\ state[ask[Head(turn).id].sid] # "unknown"
              /\ inbox[Head(turn).id] \in {"answered", "timed_out"}
         /\ Tail(turn) \in Seq(Steps) /\ Shaped(Tail(turn)) /\ Trailing(Tail(turn))
         /\ \A x \in Elems(Tail(turn)) :
              x.do \in {"watch", "return"} /\ x.native \in Natives /\ byNative[x.native] # None
<1>1. turn \in Seq(Steps) /\ Shaped(turn)
  BY DEF Sound, TypeOK, StepsSound, TurnsShaped
<1>2. /\ Tail(turn) \in Seq(Steps)
      /\ Elems(Tail(turn)) \subseteq Elems(turn)
      /\ Trailing(Tail(turn)) /\ Shaped(Tail(turn))
      /\ Head(turn) \in Elems(turn) /\ Head(turn) \in Steps
  BY <1>1, RestOfSteps
<1>3. Elems(turn) \subseteq AllSteps /\ AllSteps \subseteq Steps
  BY AllStepsTyped DEF AllSteps, Sound
<1>4. \A x \in Elems(Tail(turn)) :
        x.do \in {"watch", "return"} /\ x.native \in Natives /\ byNative[x.native] # None
  BY <1>2, <1>3, StepOfKind DEF Trailing, Sound, StepsSound, StepsKnow
<1>5. QED
  BY <1>2, <1>3, <1>4 DEF Sound, StepsSound, StepsKnow, DeliveriesSettled

\* Whoever has an entry in the index is in the catalogue.
LEMMA KnownNative ==
  ASSUME Sound, NEW n \in Natives, byNative[n] # None
  PROVE  /\ byNative[n] \in Sids /\ state[byNative[n]] # "unknown"
         /\ native[byNative[n]] = n
         /\ state[byNative[n]] \in States
BY DEF Sound, TypeOK, IndexKnows

LEMMA AgentWritesKeepsSound ==
  ASSUME Sound, NEW n \in Natives,
         AgentWrites(n) \/ TranscriptAges(n) \/ AgentStarts(n) \/ WatchCatchesUp(n)
  PROVE  Sound'
<1>1. /\ UNCHANGED <<registry, stored, restarts, desk, watched>> /\ Quiet(<<>>)
  BY DEF AgentWrites, TranscriptAges, AgentStarts, WatchCatchesUp, Free, Quiet, loop
<1>2. agent \in [Natives -> Agents] /\ file \in [Natives -> {"none", "fresh", "idle"}]
      /\ unread \subseteq Natives /\ watched \subseteq Natives
  BY DEF Sound, TypeOK
<1>3. agent' \in [Natives -> Agents] /\ \A m \in Natives : agent'[m] = "owned" => agent[m] = "owned"
  BY <1>2 DEF AgentWrites, TranscriptAges, AgentStarts, WatchCatchesUp, Agents, Alive
<1>4. file' \in [Natives -> {"none", "fresh", "idle"}] /\ unread' \subseteq Natives
  BY <1>2 DEF AgentWrites, TranscriptAges, AgentStarts, WatchCatchesUp
<1>5. \A m \in Natives : m \in watched' \/ agent'[m] = "owned" => byNative[m] # None
  BY <1>1, <1>3 DEF Sound, AgentsKnown
<1>6. QED
  BY <1>1, <1>2, <1>3, <1>4, <1>5, NoSteps, SameDeskKeepsSound

LEMMA EnsureWatchKeepsSound ==
  ASSUME Sound, EnsureWatch \/ WatchReturns
  PROVE  Sound'
<1>1. turn # <<>> /\ Head(turn).do \in {"watch", "return"}
  BY DEF EnsureWatch, WatchReturns, Doing
<1>2. Head(turn).native \in Natives /\ byNative[Head(turn).native] # None
  BY <1>1, NextStep, StepOfKind
<1>3. UNCHANGED <<registry, stored, restarts, desk, agent, file, unread>> /\ Quiet(Tail(turn))
  BY DEF EnsureWatch, WatchReturns, Quiet, world
<1>4. watched' \subseteq watched \cup {Head(turn).native}
  BY DEF EnsureWatch, WatchReturns
<1>5. agent \in [Natives -> Agents] /\ file \in [Natives -> {"none", "fresh", "idle"}]
      /\ unread \subseteq Natives /\ watched \subseteq Natives
  BY DEF Sound, TypeOK
<1>6. \A m \in Natives : m \in watched' \/ agent'[m] = "owned" => byNative[m] # None
  BY <1>2, <1>3, <1>4 DEF Sound, AgentsKnown
<1>7. PICK rest \in Seq(Steps) :
        /\ rest = Tail(turn) /\ Shaped(rest)
        /\ \A x \in Elems(rest) :
             x.do \in {"watch", "return"} /\ x.native \in Natives /\ byNative[x.native] # None
  BY <1>1, NextStep
<1>8. QED
  BY <1>2, <1>3, <1>4, <1>5, <1>6, <1>7, SameDeskKeepsSound

LEMMA HintThenWatch ==
  ASSUME NEW x \in Steps, NEW n \in Natives
  PROVE  /\ <<x>> \o <<Watch(n)>> \in Seq(Steps) /\ Shaped(<<x>> \o <<Watch(n)>>)
         /\ Elems(<<x>> \o <<Watch(n)>>) = {x, Watch(n)}
<1>1. Watch(n) \in Steps /\ Watch(n).do = "watch"
  BY StepsTyped, StepFields
<1>2. <<Watch(n)>> \in Seq(Steps) /\ Elems(<<Watch(n)>>) = {Watch(n)}
  BY <1>1, OneStep
<1>3. Trailing(<<Watch(n)>>)
  BY <1>1, <1>2 DEF Trailing
<1>4. QED
  BY <1>2, <1>3, StepBefore

LEMMA KnownHasNative ==
  ASSUME Sound, NEW s \in Sids, state[s] # "unknown"
  PROVE  native[s] \in Natives /\ state[s] \in States
<1>1. DiscoveredIn(s, Published)
  BY DEF Sound, Logged, CatalogueIsFoldOfLog, FoldState
<1>2. native[s] # None
  BY <1>1 DEF DiscoveredIn, Sound, Logged, LogSound, SidsDrawn
<1>3. QED
  BY <1>2 DEF Sound, TypeOK

\* First sight of an agent: a session of its own, found by the index.
LEMMA UpsertNewKeepsSound ==
  ASSUME Sound, NEW n \in Natives, NEW s \in Sids, NEW hint \in States,
         UpsertNew(n, s, hint, <<Watch(n)>>),
         UNCHANGED <<file, unread, watched, desk, restarts>>,
         agent' \in [Natives -> Agents],
         \A m \in Natives : agent'[m] = "owned" => agent[m] = "owned" \/ m = n
  PROVE  Sound'
<1> DEFINE x == Observe(s, hint, "discovered")
<1>1. /\ byNative[n] = None /\ native[s] = None
      /\ native' = [native EXCEPT ![s] = n]
      /\ state' = [state EXCEPT ![s] = "discovered"]
      /\ byNative' = [byNative EXCEPT ![n] = s]
      /\ UNCHANGED stored
  BY DEF UpsertNew
<1>2. x \in Steps /\ x.do = "observe" /\ x.sid = s
  <2>1. "discovered" \in Reasons
    BY DEF Reasons
  <2>2. x \in Steps
    BY <2>1, StepsTyped
  <2>3. QED
    BY <2>2, StepFields
<1>3. Watch(n).do = "watch" /\ Watch(n).native = n
  BY DEF Watch
<1>4. PICK rest \in Seq(Steps) : rest = <<x>> \o <<Watch(n)>> /\ Shaped(rest) /\ Elems(rest) = {x, Watch(n)}
  BY <1>2, HintThenWatch
<1>5. Publish(Fact("discovered", s, "unknown", "discovered"), rest)
  BY <1>4 DEF UpsertNew
<1> HIDE DEF x
<1>6. Fact("discovered", s, "unknown", "discovered") \in Facts
  BY DEF Fact, Facts, Sound, TypeOK, States
<1>7. /\ LoopTypes' /\ TurnsShaped'
      /\ AllSteps' \subseteq AllSteps \cup Elems(rest)
  BY <1>4, <1>5, <1>6, LoopStepMoves, TypesSplit DEF LoopStep, Sound, StepsSound
<1>8. /\ \A t \in Sids : native'[t] = IF t = s THEN n ELSE native[t]
      /\ \A t \in Sids : state'[t] = IF t = s THEN "discovered" ELSE state[t]
      /\ \A m \in Natives : byNative'[m] = IF m = n THEN s ELSE byNative[m]
  BY <1>1 DEF Sound, TypeOK
<1>9. TypeOK'
  <2>1. RegistryTypes'
    <3>1. native' \in [Sids -> Natives \cup {None}] /\ byNative' \in [Natives -> Sids \cup {None}]
      BY <1>1 DEF Sound, TypeOK
    <3>2. state' \in [Sids -> States \cup {"unknown"}]
      BY <1>1 DEF Sound, TypeOK, States
    <3>3. QED
      BY <1>1, <3>1, <3>2 DEF Sound, TypeOK, RegistryTypes
  <2>2. DeskTypes'
    BY TypesSplit DEF Sound, DeskTypes, desk
  <2>3. QED
    BY <1>7, <2>1, <2>2, TypesSplitNext
<1>10. Logged'
  BY <1>1, <1>5, <1>9, DiscoveryLogs DEF Sound
<1>11. Remembered
  BY <1>8, NoneIsNoSession DEF Remembered, desk
<1>12. StepsSound'
  <2>1. \A y \in Elems(rest) : y.do \in {"observe", "watch"}
          /\ (y.do = "observe" => y.sid = s) /\ (y.do = "watch" => y.native = n)
    BY <1>2, <1>3, <1>4
  <2>2. state'[s] # "unknown" /\ byNative'[n] # None
    BY <1>8, NoneIsNoSession
  <2>3. \A y \in Elems(rest) :
           /\ y.do \in {"observe", "hint", "announce"} => state'[y.sid] # "unknown"
           /\ y.do \in {"watch", "return"} => byNative'[y.native] # None
           /\ y.do = "deliver" => /\ ask'[y.id] # None /\ state'[ask'[y.id].sid] # "unknown"
                                  /\ inbox'[y.id] \in {"answered", "timed_out"}
           /\ y.do = "hint" => y.to # "waiting_on_user"
    BY <2>1, <2>2
  <2>4. QED
    BY <1>7, <1>11, <2>3, StepsStaySound DEF Sound
<1>13. AgentsKnown'
  BY <1>8, NoneIsNoSession DEF Sound, AgentsKnown
<1>14. AsksKnown'
  <2>1. ASSUME NEW i \in Ids, inbox[i] = "pending" \/ i \in waiting \cup responding
        PROVE  ask[i] # None /\ state'[ask[i].sid] # "unknown"
    BY <1>8, <2>1, AskTyped DEF Sound, AsksKnown
  <2>2. QED
    BY <2>1 DEF AsksKnown, desk
<1>15. IndexKnows'
  <2> SUFFICES ASSUME NEW m \in Natives, byNative'[m] # None
               PROVE  state'[byNative'[m]] # "unknown" /\ native'[byNative'[m]] = m
    BY DEF IndexKnows
  <2>1. CASE m = n
    BY <1>8, <2>1
  <2>2. CASE m # n
    BY <1>1, <1>8, <2>2, KnownNative, NoneIsNoSession
  <2>3. QED
    BY <2>1, <2>2
<1>16. OneSessionPerNative'
  <2> SUFFICES ASSUME NEW t \in Sids, state'[t] # "unknown" PROVE byNative'[native'[t]] = t
    BY DEF OneSessionPerNative
  <2>1. CASE t = s
    BY <1>8, <2>1
  <2>2. CASE t # s
    <3>1. state[t] # "unknown" /\ native'[t] = native[t]
      BY <1>8, <2>2
    <3>2. native[t] \in Natives /\ byNative[native[t]] = t
      BY <3>1, KnownHasNative DEF Sound, OneSessionPerNative
    <3>3. native[t] # n
      BY <1>1, <3>2, NoneIsNoSession
    <3>4. QED
      BY <1>8, <3>1, <3>2, <3>3
  <2>3. QED
    BY <2>1, <2>2
<1>17. QED
  BY <1>9, <1>10, <1>12, <1>13, <1>14, <1>15, <1>16 DEF Sound

\* An agent met again: the hint, then the watch.
LEMMA UpsertKnownKeepsSound ==
  ASSUME Sound, NEW n \in Natives, NEW hint \in States \ {"waiting_on_user"}, NEW refreshed \in BOOLEAN,
         UpsertKnown(n, hint, refreshed, <<Watch(n)>>),
         UNCHANGED <<file, unread, watched, desk, restarts>>,
         agent' \in [Natives -> Agents],
         \A m \in Natives : agent'[m] = "owned" => agent[m] = "owned" \/ m = n
  PROVE  Sound'
<1>1. byNative[n] # None /\ UNCHANGED <<registry, stored>>
  BY DEF UpsertKnown
<1>2. PICK s \in Sids : s = byNative[n] /\ state[s] # "unknown"
  BY <1>1, KnownNative
<1> DEFINE x == Hint(s, hint)
<1>3. x \in Steps /\ x.do = "hint" /\ x.sid = s /\ x.to # "waiting_on_user"
  BY DEF Steps, Hint
<1>4. PICK rest \in Seq(Steps) : rest = <<x>> \o <<Watch(n)>> /\ Shaped(rest) /\ Elems(rest) = {x, Watch(n)}
  BY <1>3, HintThenWatch
<1>5. Publish(Other, rest) \/ Quiet(rest)
  BY <1>2, <1>4 DEF UpsertKnown, Quiet
<1> HIDE DEF x
<1>6. Watch(n).do = "watch" /\ Watch(n).native = n
  BY DEF Watch
<1>7. file \in [Natives -> {"none", "fresh", "idle"}] /\ unread \subseteq Natives /\ watched \subseteq Natives
  BY DEF Sound, TypeOK
<1>8. \A m \in Natives : m \in watched' \/ agent'[m] = "owned" => byNative[m] # None
  BY <1>1 DEF Sound, AgentsKnown
<1>9. \A y \in Elems(rest) :
        /\ y.do \in {"observe", "hint", "announce"} => state[y.sid] # "unknown"
        /\ y.do \in {"watch", "return"} => byNative[y.native] # None
        /\ y.do # "deliver"
        /\ y.do = "hint" => y.to # "waiting_on_user"
  BY <1>1, <1>2, <1>3, <1>4, <1>6
<1>10. QED
  BY <1>1, <1>4, <1>5, <1>7, <1>8, <1>9, SameDeskKeepsSound

LEMMA DiscoverKeepsSound ==
  ASSUME Sound, NEW n \in Natives,
         LaunchReturns(n) \/ \E refreshed \in BOOLEAN : Discover(n, refreshed)
  PROVE  Sound'
<1>1. /\ UNCHANGED <<file, unread, watched, desk, restarts>>
      /\ agent' \in [Natives -> Agents]
      /\ \A m \in Natives : agent'[m] = "owned" => agent[m] = "owned" \/ m = n
  BY DEF LaunchReturns, Discover, world, Sound, TypeOK, Agents
<1>2. PICK hint \in {"running", "completed", "starting"}, refreshed \in BOOLEAN :
        Upsert(n, hint, refreshed, <<Watch(n)>>)
  BY DEF LaunchReturns, Discover, Heuristic
<1>3. hint \in States \ {"waiting_on_user"}
  BY DEF States, EndStates
<1>4. QED
  BY <1>1, <1>2, <1>3, UpsertKnownKeepsSound, UpsertNewKeepsSound DEF Upsert

\* A handler that has one state to observe.
LEMMA OneObservation ==
  ASSUME NEW s \in Sids, NEW to \in States, NEW why \in Reasons
  PROVE  /\ <<Observe(s, to, why)>> \in Seq(Steps) /\ Shaped(<<Observe(s, to, why)>>)
         /\ \A x \in Elems(<<Observe(s, to, why)>>) : x.do = "observe" /\ x.sid = s
<1>1. Observe(s, to, why) \in Steps
  BY StepsTyped
<1>2. QED
  BY <1>1, OneStep, StepFields

\* A handler that takes the loop to observe one state, the inbox left alone.
LEMMA BeginKeepsSound ==
  ASSUME Sound, NEW s \in Sids, state[s] # "unknown", NEW to \in States, NEW why \in Reasons,
         Begin(<<Observe(s, to, why)>>),
         UNCHANGED <<file, watched, desk, restarts>>, unread' \subseteq unread,
         agent' \in [Natives -> Agents],
         \A m \in Natives : agent'[m] = "owned" => agent[m] = "owned"
  PROVE  Sound'
<1>1. PICK rest \in Seq(Steps) : rest = <<Observe(s, to, why)>> /\ Shaped(rest)
                                 /\ \A x \in Elems(rest) : x.do = "observe" /\ x.sid = s
  <2> DEFINE one == <<Observe(s, to, why)>>
  <2>1. one \in Seq(Steps) /\ Shaped(one) /\ \A x \in Elems(one) : x.do = "observe" /\ x.sid = s
    BY OneObservation
  <2> HIDE DEF one
  <2>2. \E rest \in Seq(Steps) : rest = one /\ Shaped(rest)
                                 /\ \A x \in Elems(rest) : x.do = "observe" /\ x.sid = s
    BY <2>1
  <2>3. QED
    BY <2>2 DEF one
<1>2. Quiet(rest) /\ UNCHANGED <<registry, stored>>
  BY <1>1 DEF Begin, Quiet
<1>3. file \in [Natives -> {"none", "fresh", "idle"}] /\ unread \subseteq Natives /\ watched \subseteq Natives
  BY DEF Sound, TypeOK
<1>4. \A m \in Natives : m \in watched' \/ agent'[m] = "owned" => byNative[m] # None
  BY DEF Sound, AgentsKnown
<1>5. QED
  BY <1>1, <1>2, <1>3, <1>4, SameDeskKeepsSound

LEMMA WatchSeesKeepsSound ==
  ASSUME Sound, NEW n \in Natives, WatchSeesActivity(n) \/ AgentFails(n)
  PROVE  Sound'
<1>1. byNative[n] # None
  BY DEF WatchSeesActivity, AgentFails, Sound, AgentsKnown
<1>2. PICK s \in Sids : s = byNative[n] /\ state[s] # "unknown"
  BY <1>1, KnownNative
<1>3. PICK to \in States, why \in Reasons : Begin(<<Observe(s, to, why)>>)
  <2>1. CASE WatchSeesActivity(n)
    BY <1>2, <2>1 DEF WatchSeesActivity, Resume, States, Reasons
  <2>2. CASE AgentFails(n)
    BY <1>2, <2>2 DEF AgentFails, States, EndStates, Reasons
  <2>3. QED
    BY <2>1, <2>2
<1>4. /\ UNCHANGED <<file, watched, desk, restarts>> /\ unread' \subseteq unread
      /\ agent' \in [Natives -> Agents]
      /\ \A m \in Natives : agent'[m] = "owned" => agent[m] = "owned"
  BY DEF WatchSeesActivity, AgentFails, Sound, TypeOK, Agents
<1>5. QED
  BY <1>2, <1>3, <1>4, BeginKeepsSound

LEMMA ArchiveKeepsSound ==
  ASSUME Sound, NEW s \in Sids, Archive(s) \/ SetModel(s)
  PROVE  Sound'
<1>0. UNCHANGED <<agent, file, unread, watched, desk, restarts>>
  BY DEF Archive, SetModel, world
<1>1. state[s] # "unknown"
  BY DEF Archive, SetModel, Refresh, EndStates
<1>2. agent \in [Natives -> Agents] /\ file \in [Natives -> {"none", "fresh", "idle"}]
      /\ unread \subseteq Natives /\ watched \subseteq Natives
  BY DEF Sound, TypeOK
<1>3. CASE Archive(s)
  <2>1. Begin(<<Observe(s, "archived", "archive")>>)
    BY <1>3 DEF Archive
  <2>2. "archived" \in States /\ "archive" \in Reasons
    BY DEF States, EndStates, Reasons
  <2>3. QED
    BY <1>0, <1>1, <1>2, <2>1, <2>2, BeginKeepsSound
<1>4. CASE SetModel(s)
  <2>1. UNCHANGED <<registry, stored>> /\ Publish(Other, <<>>)
    BY <1>4 DEF SetModel, Refresh
  <2>2. \A m \in Natives : m \in watched' \/ agent'[m] = "owned" => byNative[m] # None
    BY <1>0 DEF Sound, AgentsKnown
  <2>3. QED
    BY <1>0, <1>2, <2>1, <2>2, NoSteps, SameDeskKeepsSound
<1>5. QED
  BY <1>3, <1>4

LEMMA WatchEndsKeepsSound ==
  ASSUME Sound, NEW n \in Natives, WatchEnds(n)
  PROVE  Sound'
<1>1. PICK to \in {"completed", "stopped"} : Begin(<<Observe(byNative[n], to, "watch"), Return(n)>>)
  BY DEF WatchEnds
<1>2. PICK s \in Sids : s = byNative[n] /\ state[s] # "unknown" /\ byNative[n] # None
  BY KnownNative DEF WatchEnds, Sound, AgentsKnown
<1> DEFINE x == Observe(s, to, "watch")
<1>3. x \in Steps /\ x.do = "observe" /\ x.sid = s
  <2>1. "watch" \in Reasons /\ to \in States
    BY DEF Reasons, States, EndStates
  <2>2. QED
    BY <2>1, StepsTyped, StepFields
<1>4. Return(n) \in Steps /\ Return(n).do = "return" /\ Return(n).native = n
  BY StepsTyped, StepFields
<1> HIDE DEF x
<1>5. PICK rest \in Seq(Steps) : rest = <<x, Return(n)>> /\ Shaped(rest) /\ Elems(rest) = {x, Return(n)}
  <2> DEFINE two == <<x, Return(n)>>
  <2>1. two \in Seq(Steps) /\ Shaped(two) /\ Elems(two) = {x, Return(n)}
    BY <1>3, <1>4, TwoSteps, Zenon
  <2> HIDE DEF two
  <2>2. \E rest \in Seq(Steps) : rest = two /\ Shaped(rest) /\ Elems(rest) = {x, Return(n)}
    BY <2>1
  <2>3. QED
    BY <2>2 DEF two
<1>6. Quiet(rest) /\ UNCHANGED <<registry, stored, agent, file, unread, watched, desk, restarts>>
  BY <1>1, <1>2, <1>5 DEF WatchEnds, Begin, Quiet, world, x
<1>7. agent \in [Natives -> Agents] /\ file \in [Natives -> {"none", "fresh", "idle"}]
      /\ unread \subseteq Natives /\ watched \subseteq Natives
  BY DEF Sound, TypeOK
<1>8. \A m \in Natives : m \in watched' \/ agent'[m] = "owned" => byNative[m] # None
  BY <1>6 DEF Sound, AgentsKnown
<1>9. \A y \in Elems(rest) :
        /\ y.do \in {"observe", "hint", "announce"} => state[y.sid] # "unknown"
        /\ y.do \in {"watch", "return"} => byNative[y.native] # None
        /\ y.do # "deliver"
        /\ y.do = "hint" => y.to # "waiting_on_user"
  BY <1>2, <1>3, <1>4, <1>5
<1>10. QED
  BY <1>5, <1>6, <1>7, <1>8, <1>9, SameDeskKeepsSound

\* The registry's own steps that create no fact.
LEMMA RegistryStepKeepsSound ==
  ASSUME Sound, PublishLifecycle \/ ApplyHint, UNCHANGED <<world, watched, desk, restarts>>
  PROVE  Sound'
<1>1. UNCHANGED <<agent, file, unread, watched, desk, restarts, registry, stored>> /\ turn # <<>>
  BY DEF PublishLifecycle, ApplyHint, Doing, world
<1>2. agent \in [Natives -> Agents] /\ file \in [Natives -> {"none", "fresh", "idle"}]
      /\ unread \subseteq Natives /\ watched \subseteq Natives
  BY DEF Sound, TypeOK
<1>3. \A m \in Natives : m \in watched' \/ agent'[m] = "owned" => byNative[m] # None
  BY <1>1 DEF Sound, AgentsKnown
<1>4. PICK tail \in Seq(Steps) :
        /\ tail = Tail(turn) /\ Shaped(tail) /\ Trailing(tail)
        /\ \A x \in Elems(tail) :
             x.do \in {"watch", "return"} /\ x.native \in Natives /\ byNative[x.native] # None
  BY <1>1, NextStep
<1>5. ASSUME Publish(Other, tail) \/ Quiet(tail) PROVE Sound'
  BY <1>1, <1>2, <1>3, <1>4, <1>5, SameDeskKeepsSound
<1>6. CASE PublishLifecycle
  BY <1>4, <1>5, <1>6 DEF PublishLifecycle
<1>7. CASE ApplyHint
  <2>1. Head(turn).do = "hint"
    BY <1>7 DEF ApplyHint, Doing
  <2>2. PICK s \in Sids, to \in States : s = Head(turn).sid /\ to = Head(turn).to
                                         /\ state[s] # "unknown"
    BY <1>1, <2>1, NextStep, StepOfKind
  <2>3. CASE turn' = tail
    BY <1>4, <1>5, <1>7, <2>3 DEF ApplyHint, Quiet
  <2>4. CASE turn' = <<Observe(s, to, "discovery")>> \o tail
    <3> DEFINE x == Observe(s, to, "discovery")
    <3>1. x \in Steps /\ x.do = "observe" /\ x.sid = s
      <4>1. "discovery" \in Reasons
        BY DEF Reasons
      <4>2. QED
        BY <4>1, StepsTyped, StepFields
    <3>2. turn' = <<x>> \o tail
      BY <2>4
    <3> HIDE DEF x
    <3>3. PICK rest \in Seq(Steps) : rest = <<x>> \o tail /\ Shaped(rest) /\ Elems(rest) = {x} \cup Elems(tail)
      BY <1>4, <3>1, StepBefore
    <3>4. Quiet(rest)
      BY <1>7, <3>2, <3>3 DEF ApplyHint, Quiet
    <3>5. \A y \in Elems(rest) :
            /\ y.do \in {"observe", "hint", "announce"} => state[y.sid] # "unknown"
            /\ y.do \in {"watch", "return"} => byNative[y.native] # None
            /\ y.do # "deliver"
            /\ y.do = "hint" => y.to # "waiting_on_user"
      BY <1>4, <2>2, <3>1, <3>3
    <3>6. QED
      BY <1>1, <1>2, <1>3, <3>3, <3>4, <3>5, SameDeskKeepsSound
  <2>5. QED
    BY <1>4, <1>7, <2>2, <2>3, <2>4 DEF ApplyHint
<1>8. QED
  BY <1>6, <1>7

\* The step of a transition, that of an illegal one, and no step at all.
LEMMA ObserveStateKeepsSound ==
  ASSUME Sound, ObserveState, UNCHANGED <<world, watched, desk, restarts>>
  PROVE  Sound'
<1>1. UNCHANGED <<agent, file, unread, watched, desk, restarts, native, byNative, stored>>
      /\ turn # <<>> /\ Head(turn).do = "observe"
  BY DEF ObserveState, Doing, world
<1>2. agent \in [Natives -> Agents] /\ file \in [Natives -> {"none", "fresh", "idle"}]
      /\ unread \subseteq Natives /\ watched \subseteq Natives
  BY DEF Sound, TypeOK
<1>3. \A m \in Natives : m \in watched' \/ agent'[m] = "owned" => byNative[m] # None
  BY <1>1 DEF Sound, AgentsKnown
<1>4. PICK tail \in Seq(Steps) :
        /\ tail = Tail(turn) /\ Shaped(tail) /\ Trailing(tail)
        /\ \A x \in Elems(tail) :
             x.do \in {"watch", "return"} /\ x.native \in Natives /\ byNative[x.native] # None
  BY <1>1, NextStep
<1>5. PICK s \in Sids, to \in States : s = Head(turn).sid /\ to = Head(turn).to
                                       /\ state[s] # "unknown" /\ state[s] \in States
  BY <1>1, NextStep, StepOfKind, KnownHasNative
<1>6. ASSUME UNCHANGED state, NEW rest \in Seq(Steps), Shaped(rest), Elems(rest) \subseteq Elems(tail),
             Publish(Other, rest) \/ Quiet(rest)
      PROVE  Sound'
  <2>1. UNCHANGED registry
    BY <1>1, <1>6 DEF registry
  <2>2. \A x \in Elems(rest) :
          /\ x.do \in {"observe", "hint", "announce"} => state[x.sid] # "unknown"
          /\ x.do \in {"watch", "return"} => byNative[x.native] # None
          /\ x.do # "deliver"
          /\ x.do = "hint" => x.to # "waiting_on_user"
    BY <1>4, <1>6
  <2>3. QED
    BY <1>1, <1>2, <1>3, <1>6, <2>1, <2>2, SameDeskKeepsSound
<1>7. CASE UNCHANGED state /\ Quiet(tail)
  BY <1>4, <1>6, <1>7
<1>8. CASE UNCHANGED state /\ Publish(Other, AfterRaise(tail))
  <2>1. PICK rest \in Seq(Steps) : rest = AfterRaise(tail) /\ Shaped(rest) /\ Elems(rest) \subseteq Elems(tail)
    BY <1>4, ReturnAfterRaise
  <2>2. QED
    BY <1>6, <1>8, <2>1
<1>9. CASE /\ to \in Legal[state[s]]
           /\ state' = [state EXCEPT ![s] = to]
           /\ Publish(Fact("state_changed", s, state[s], to),
                      IF Announced(state[s], to) THEN <<Announce(s)>> \o tail ELSE tail)
  <2>1. PICK rest \in Seq(Steps) :
          /\ rest = IF Announced(state[s], to) THEN <<Announce(s)>> \o tail ELSE tail
          /\ Shaped(rest)
          /\ \A y \in Elems(rest) : y \in Elems(tail) \/ (y.do = "announce" /\ y.sid = s)
    <3> DEFINE x == Announce(s)
    <3>1. x \in Steps /\ x.do = "announce" /\ x.sid = s
      BY StepsTyped, StepFields
    <3> HIDE DEF x
    <3> DEFINE t == <<x>> \o tail
    <3>2. t \in Seq(Steps) /\ Shaped(t) /\ Elems(t) = {x} \cup Elems(tail)
      BY <1>4, <3>1, StepBefore
    <3> HIDE DEF t
    <3> DEFINE q == IF Announced(state[s], to) THEN t ELSE tail
    <3>3. q \in Seq(Steps) /\ Shaped(q)
          /\ \A y \in Elems(q) : y \in Elems(tail) \/ (y.do = "announce" /\ y.sid = s)
      BY <1>4, <3>1, <3>2
    <3> HIDE DEF q
    <3>4. \E r \in Seq(Steps) : r = q /\ Shaped(r)
            /\ \A y \in Elems(r) : y \in Elems(tail) \/ (y.do = "announce" /\ y.sid = s)
      BY <3>3
    <3>5. QED
      BY <3>4 DEF q, t, x
  <2>2. Publish(Fact("state_changed", s, state[s], to), rest)
    BY <1>9, <2>1
  <2>3. Fact("state_changed", s, state[s], to) \in Facts
    BY <1>5 DEF Fact, Facts, Sound, TypeOK
  <2>4. /\ LoopTypes' /\ TurnsShaped'
        /\ AllSteps' \subseteq AllSteps \cup Elems(rest)
    BY <2>1, <2>2, <2>3, LoopStepMoves, TypesSplit DEF LoopStep, Sound, StepsSound
  <2>5. \A t \in Sids : state'[t] = IF t = s THEN to ELSE state[t]
    BY <1>9 DEF Sound, TypeOK
  <2>6. \A t \in Sids : (state'[t] = "unknown") <=> (state[t] = "unknown")
    BY <1>5, <2>5 DEF States, EndStates
  <2>7. TypeOK'
    <3>1. RegistryTypes'
      BY <1>1, <1>9 DEF Sound, TypeOK, RegistryTypes
    <3>2. DeskTypes'
      BY <1>1, TypesSplit DEF Sound, DeskTypes, desk
    <3>3. QED
      BY <2>4, <3>1, <3>2, TypesSplitNext
  <2>8. Logged'
    BY <1>1, <1>5, <1>9, <2>2, <2>7, ChangeLogs DEF Sound
  <2>9. Remembered
    BY <1>1, <2>6 DEF Remembered, desk
  <2>10. StepsSound'
    <3>1. \A y \in Elems(rest) :
           /\ y.do \in {"observe", "hint", "announce"} => state'[y.sid] # "unknown"
           /\ y.do \in {"watch", "return"} => byNative'[y.native] # None
           /\ y.do = "deliver" => /\ ask'[y.id] # None /\ state'[ask'[y.id].sid] # "unknown"
                                  /\ inbox'[y.id] \in {"answered", "timed_out"}
           /\ y.do = "hint" => y.to # "waiting_on_user"
      BY <1>1, <1>4, <1>5, <2>1, <2>6
    <3>2. QED
      BY <2>4, <2>9, <3>1, StepsStaySound DEF Sound
  <2>11. AgentsKnown'
    BY <1>1, <1>3 DEF AgentsKnown
  <2>12. AsksKnown'
    <3>1. ASSUME NEW i \in Ids, inbox[i] = "pending" \/ i \in waiting \cup responding
          PROVE  ask[i] # None /\ state'[ask[i].sid] # "unknown"
      BY <2>6, <3>1, AskTyped DEF Sound, AsksKnown
    <3>2. QED
      BY <1>1, <3>1 DEF AsksKnown, desk
  <2>13. IndexKnows'
    BY <1>1, <2>6, KnownNative DEF IndexKnows
  <2>14. OneSessionPerNative'
    BY <1>1, <2>6 DEF Sound, OneSessionPerNative
  <2>15. QED
    BY <2>7, <2>8, <2>10, <2>11, <2>12, <2>13, <2>14 DEF Sound
<1>10. QED
  BY <1>4, <1>5, <1>7, <1>8, <1>9 DEF ObserveState, Quiet

\* Who is asked about is in the catalogue.
LEMMA AskedIsKnown ==
  ASSUME Sound, NEW i \in Ids, inbox[i] = "pending" \/ i \in waiting \cup responding
  PROVE  /\ ask[i] # None /\ ask[i].sid \in Sids
         /\ state[ask[i].sid] # "unknown"
BY AskTyped DEF Sound, AsksKnown

LEMMA OpenInteractionKeepsSound ==
  ASSUME Sound, NEW n \in Natives, NEW i \in Ids, OpenInteraction(n, i)
  PROVE  Sound'
<1>1. PICK s \in Sids, path \in Paths :
        /\ s = byNative[n] /\ state[s] # "unknown"
        /\ ask' = [ask EXCEPT ![i] = [sid |-> s, path |-> path]]
  BY KnownNative DEF OpenInteraction, Paths
<1>2. /\ inbox[i] = "unknown" /\ inbox' = [inbox EXCEPT ![i] = "pending"]
      /\ waiting' = waiting \cup {i}
      /\ UNCHANGED <<registry, stored, agent, file, unread, watched, responding, restarts>>
      /\ Publish(Other, <<Park(s)>>)
  BY <1>1 DEF OpenInteraction, world
<1>3. /\ \A j \in Ids : inbox'[j] = IF j = i THEN "pending" ELSE inbox[j]
      /\ \A j \in Ids : ask'[j] = IF j = i THEN [sid |-> s, path |-> path] ELSE ask[j]
  BY <1>1, <1>2 DEF Sound, TypeOK
<1> DEFINE one == <<Observe(s, "waiting_on_user", "interaction_requested")>>
<1>4. one \in Seq(Steps) /\ Shaped(one) /\ \A x \in Elems(one) : x.do = "observe" /\ x.sid = s
  <2>1. "waiting_on_user" \in States /\ "interaction_requested" \in Reasons
    BY DEF States, Reasons
  <2>2. QED
    BY <2>1, OneObservation
<1>5. Publish(Other, one)
  BY <1>2 DEF Park
<1> HIDE DEF one
<1>6. [sid |-> s, path |-> path] \in [sid: Sids, path: Paths] \cup {None}
  OBVIOUS
<1>7. DeskTypes'
  <2>1. inbox' \in [Ids -> {"unknown", "pending", "answered", "timed_out", "cancelled"}]
    BY <1>2 DEF Sound, TypeOK
  <2>2. ask' \in [Ids -> [sid: Sids, path: Paths] \cup {None}]
    BY <1>1, <1>6 DEF Sound, TypeOK
  <2>3. QED
    BY <1>2, <2>1, <2>2, TypesSplit DEF Sound, DeskTypes
<1>8. ASSUME NEW j \in Ids, inbox'[j] = "pending" \/ j \in waiting' \cup responding'
      PROVE  ask'[j] # None /\ state[ask'[j].sid] # "unknown"
  <2>1. CASE j = i
    <3>1. ask'[j].sid = s
      BY <1>3, <2>1
    <3>2. ask'[j] # None
      BY <1>3, <2>1, NoneIsNoRequest
    <3>3. QED
      BY <1>1, <3>1, <3>2
  <2>2. CASE j # i
    BY <1>2, <1>3, <1>8, <2>2 DEF Sound, AsksKnown
  <2>3. QED
    BY <2>1, <2>2
<1>9. \A x \in Elems(one) :
        /\ x.do \in {"observe", "hint", "announce"} => state[x.sid] # "unknown"
        /\ x.do \in {"watch", "return"} => byNative[x.native] # None
        /\ x.do = "deliver" => /\ ask'[x.id] # None /\ state[ask'[x.id].sid] # "unknown"
                               /\ inbox'[x.id] \in {"answered", "timed_out"}
        /\ x.do = "hint" => x.to # "waiting_on_user"
  BY <1>1, <1>4
<1>10. \A m \in Natives : m \in watched' \/ agent'[m] = "owned" => byNative[m] # None
  BY <1>2 DEF Sound, AgentsKnown
<1>11. \A j \in Ids : inbox[j] \in {"answered", "timed_out"} => inbox'[j] = inbox[j] /\ ask'[j] = ask[j]
  BY <1>2, <1>3
<1>12. QED
  BY <1>2, <1>4, <1>5, <1>7, <1>8, <1>9, <1>10, <1>11, OtherStepKeepsSound

\* However an interaction ends, its delivery or the resumption of its session
\* is about something known.
LEMMA SettleKeepsSound ==
  ASSUME Sound, NEW i \in Ids, NEW outcome \in {"answered", "timed_out", "cancelled"},
         NEW rest \in Seq(Steps), Shaped(rest), Settle(i, outcome, rest), waiting' \subseteq waiting,
         \A x \in Elems(rest) :
           \/ x.do = "observe" /\ x.sid = ask[i].sid
           \/ x.do = "deliver" /\ x.id = i /\ outcome # "cancelled"
  PROVE  Sound'
<1>1. /\ inbox[i] = "pending" /\ inbox' = [inbox EXCEPT ![i] = outcome]
      /\ UNCHANGED <<registry, stored, agent, file, unread, watched, ask, responding, restarts>>
      /\ Publish(Other, rest)
  BY DEF Settle, world
<1>2. \A j \in Ids : inbox'[j] = IF j = i THEN outcome ELSE inbox[j]
  BY <1>1 DEF Sound, TypeOK
<1>3. ask[i] # None /\ state[ask[i].sid] # "unknown"
  BY <1>1, AskedIsKnown
<1>4. DeskTypes'
  <2>1. inbox' \in [Ids -> {"unknown", "pending", "answered", "timed_out", "cancelled"}]
    BY <1>1 DEF Sound, TypeOK
  <2>2. QED
    BY <1>1, <2>1, TypesSplit DEF Sound, DeskTypes
<1>5. \A j \in Ids : inbox'[j] = "pending" \/ j \in waiting' \cup responding' =>
        ask'[j] # None /\ state[ask'[j].sid] # "unknown"
  BY <1>1, <1>2, AskedIsKnown
<1>6. \A x \in Elems(rest) :
        /\ x.do \in {"observe", "hint", "announce"} => state[x.sid] # "unknown"
        /\ x.do \in {"watch", "return"} => byNative[x.native] # None
        /\ x.do = "deliver" => /\ ask'[x.id] # None /\ state[ask'[x.id].sid] # "unknown"
                               /\ inbox'[x.id] \in {"answered", "timed_out"}
        /\ x.do = "hint" => x.to # "waiting_on_user"
  BY <1>1, <1>2, <1>3
<1>7. \A m \in Natives : m \in watched' \/ agent'[m] = "owned" => byNative[m] # None
  BY <1>1 DEF Sound, AgentsKnown
<1>8. \A j \in Ids : inbox[j] \in {"answered", "timed_out"} => inbox'[j] = inbox[j] /\ ask'[j] = ask[j]
  BY <1>1, <1>2
<1>9. QED
  BY <1>1, <1>4, <1>5, <1>6, <1>7, <1>8, OtherStepKeepsSound

LEMMA OneDelivery ==
  ASSUME NEW i \in Ids
  PROVE  /\ <<Deliver(i)>> \in Seq(Steps) /\ Shaped(<<Deliver(i)>>)
         /\ \A x \in Elems(<<Deliver(i)>>) : x.do = "deliver" /\ x.id = i
<1>1. Deliver(i) \in Steps
  BY StepsTyped
<1>2. QED
  BY <1>1, OneStep, StepFields

LEMMA AnswerKeepsSound ==
  ASSUME Sound, NEW i \in Ids,
         Answer(i) \/ Withdraw(i) \/ \E permission \in BOOLEAN : TimeOut(i, permission)
  PROVE  Sound'
<1>1. waiting' \subseteq waiting
  BY DEF Answer, Withdraw, TimeOut
<1> DEFINE one == <<Deliver(i)>>
<1>2. one \in Seq(Steps) /\ Shaped(one) /\ \A x \in Elems(one) : x.do = "deliver" /\ x.id = i
  BY OneDelivery
<1>3. \/ Settle(i, "answered", one)
      \/ Settle(i, "timed_out", one)
      \/ Settle(i, "timed_out", <<>>)
      \/ Settle(i, "cancelled", <<>>)
  BY DEF Answer, Withdraw, TimeOut
<1> HIDE DEF one
<1>4. CASE Settle(i, "answered", one)
  BY <1>1, <1>2, <1>4, SettleKeepsSound
<1>5. CASE Settle(i, "timed_out", one)
  BY <1>1, <1>2, <1>5, SettleKeepsSound
<1>6. CASE Settle(i, "timed_out", <<>>)
  BY <1>1, <1>6, NoSteps, SettleKeepsSound
<1>7. CASE Settle(i, "cancelled", <<>>)
  BY <1>1, <1>7, NoSteps, SettleKeepsSound
<1>8. QED
  BY <1>3, <1>4, <1>5, <1>6, <1>7

\* A handler that resumes the session of an interaction.
LEMMA ResumeKeepsSound ==
  ASSUME Sound, NEW i \in Ids, i \in waiting \cup responding, NEW why \in Reasons,
         Begin(<<Resume(ask[i].sid, why)>>),
         UNCHANGED <<world, watched, inbox, ask, restarts>>,
         waiting' \subseteq waiting, responding' \subseteq responding
  PROVE  Sound'
<1>1. PICK s \in Sids : s = ask[i].sid /\ state[s] # "unknown"
  BY AskedIsKnown
<1> DEFINE one == <<Observe(s, "running", why)>>
<1>2. one \in Seq(Steps) /\ Shaped(one) /\ \A x \in Elems(one) : x.do = "observe" /\ x.sid = s
  <2>1. "running" \in States
    BY DEF States
  <2>2. QED
    BY <2>1, OneObservation
<1>3. Quiet(one) /\ UNCHANGED <<registry, stored, agent, file, unread, watched>>
  BY <1>1 DEF Begin, Quiet, Resume, world
<1> HIDE DEF one
<1>4. DeskTypes'
  BY <1>3, TypesSplit DEF Sound, DeskTypes
<1>5. \A j \in Ids : inbox'[j] = "pending" \/ j \in waiting' \cup responding' =>
        ask'[j] # None /\ state[ask'[j].sid] # "unknown"
  BY AskedIsKnown
<1>6. \A x \in Elems(one) :
        /\ x.do \in {"observe", "hint", "announce"} => state[x.sid] # "unknown"
        /\ x.do \in {"watch", "return"} => byNative[x.native] # None
        /\ x.do = "deliver" => /\ ask'[x.id] # None /\ state[ask'[x.id].sid] # "unknown"
                               /\ inbox'[x.id] \in {"answered", "timed_out"}
        /\ x.do = "hint" => x.to # "waiting_on_user"
  BY <1>1, <1>2
<1>7. \A m \in Natives : m \in watched' \/ agent'[m] = "owned" => byNative[m] # None
  BY <1>3 DEF Sound, AgentsKnown
<1>8. QED
  BY <1>2, <1>3, <1>4, <1>5, <1>6, <1>7, OtherStepKeepsSound

LEMMA InteractionClosedKeepsSound ==
  ASSUME Sound, NEW i \in Ids, InteractionClosed(i)
  PROVE  Sound'
<1>1. i \in waiting /\ waiting' \subseteq waiting /\ "interaction_closed" \in Reasons
  BY DEF InteractionClosed, Reasons
<1>2. CASE Settle(i, "cancelled", <<Resume(ask[i].sid, "interaction_closed")>>)
  <2>1. PICK s \in Sids : s = ask[i].sid
    BY <1>1, AskedIsKnown
  <2> DEFINE one == <<Observe(s, "running", "interaction_closed")>>
  <2>2. one \in Seq(Steps) /\ Shaped(one) /\ \A x \in Elems(one) : x.do = "observe" /\ x.sid = s
    <3>1. "running" \in States
      BY DEF States
    <3>2. QED
      BY <1>1, <3>1, OneObservation
  <2>3. Settle(i, "cancelled", one)
    BY <1>2, <2>1 DEF Resume
  <2> HIDE DEF one
  <2>4. QED
    BY <1>1, <2>1, <2>2, <2>3, SettleKeepsSound
<1>3. CASE /\ Begin(<<Resume(ask[i].sid, "interaction_closed")>>)
           /\ UNCHANGED <<world, watched, inbox, ask, responding, restarts>>
  BY <1>1, <1>3, ResumeKeepsSound
<1>4. QED
  BY <1>2, <1>3 DEF InteractionClosed

LEMMA RespondKeepsSound ==
  ASSUME Sound, NEW i \in Ids, RespondReturns(i) \/ RespondFails(i)
  PROVE  Sound'
<1>1. CASE RespondReturns(i)
  <2>1. "interaction_resolved" \in Reasons
    BY DEF Reasons
  <2>2. QED
    BY <1>1, <2>1, ResumeKeepsSound DEF RespondReturns
<1>2. CASE RespondFails(i)
  <2>1. /\ UNCHANGED <<registry, stored, agent, file, unread, watched, inbox, ask, waiting, restarts>>
        /\ responding' \subseteq responding /\ Publish(Other, <<>>)
    BY <1>2 DEF RespondFails, world
  <2>2. DeskTypes'
    BY <2>1, TypesSplit DEF Sound, DeskTypes
  <2>3. \A j \in Ids : inbox'[j] = "pending" \/ j \in waiting' \cup responding' =>
          ask'[j] # None /\ state[ask'[j].sid] # "unknown"
    BY <2>1, AskedIsKnown
  <2>4. \A m \in Natives : m \in watched' \/ agent'[m] = "owned" => byNative[m] # None
    BY <2>1 DEF Sound, AgentsKnown
  <2>5. QED
    BY <2>1, <2>2, <2>3, <2>4, NoSteps, OtherStepKeepsSound
<1>3. QED
  BY <1>1, <1>2

LEMMA TerminateKeepsSound ==
  ASSUME Sound, NEW n \in Natives, Terminate(n)
  PROVE  Sound'
<1>1. byNative[n] # None
  BY DEF Terminate, Sound, AgentsKnown
<1>2. PICK s \in Sids : s = byNative[n] /\ state[s] # "unknown"
  BY <1>1, KnownNative
<1> DEFINE one == <<Observe(s, "stopped", "terminated")>>
<1>3. one \in Seq(Steps) /\ Shaped(one) /\ \A x \in Elems(one) : x.do = "observe" /\ x.sid = s
  <2>1. "stopped" \in States /\ "terminated" \in Reasons
    BY DEF States, EndStates, Reasons
  <2>2. QED
    BY <2>1, OneObservation
<1>4. /\ Quiet(one) /\ UNCHANGED <<registry, stored, file, unread, watched, inbox, ask, responding, restarts>>
      /\ agent' = [agent EXCEPT ![n] = "gone"] /\ waiting' \subseteq waiting
  BY <1>2 DEF Terminate, Begin, Quiet
<1> HIDE DEF one
<1>5. agent' \in [Natives -> Agents] /\ \A m \in Natives : agent'[m] = "owned" => agent[m] = "owned"
  BY <1>4 DEF Sound, TypeOK, Agents
<1>6. DeskTypes'
  BY <1>4, <1>5, TypesSplit DEF Sound, DeskTypes
<1>7. \A j \in Ids : inbox'[j] = "pending" \/ j \in waiting' \cup responding' =>
        ask'[j] # None /\ state[ask'[j].sid] # "unknown"
  BY <1>4, AskedIsKnown
<1>8. \A x \in Elems(one) :
        /\ x.do \in {"observe", "hint", "announce"} => state[x.sid] # "unknown"
        /\ x.do \in {"watch", "return"} => byNative[x.native] # None
        /\ x.do = "deliver" => /\ ask'[x.id] # None /\ state[ask'[x.id].sid] # "unknown"
                               /\ inbox'[x.id] \in {"answered", "timed_out"}
        /\ x.do = "hint" => x.to # "waiting_on_user"
  BY <1>2, <1>3
<1>9. \A m \in Natives : m \in watched' \/ agent'[m] = "owned" => byNative[m] # None
  BY <1>4, <1>5 DEF Sound, AgentsKnown
<1>10. QED
  BY <1>3, <1>4, <1>6, <1>7, <1>8, <1>9, OtherStepKeepsSound

\* The deliver closure of the hook goes on to resume the session, that of the
\* SDK leaves the loop for adapter.respond().
LEMMA DeliverKeepsSound ==
  ASSUME Sound, DeliverAnswer
  PROVE  Sound'
<1>1. turn # <<>> /\ Head(turn).do = "deliver"
  BY DEF DeliverAnswer, Doing
<1>2. PICK i \in Ids : i = Head(turn).id /\ ask[i] # None /\ state[ask[i].sid] # "unknown"
  BY <1>1, NextStep, StepOfKind
<1>3. PICK s \in Sids : s = ask[i].sid /\ state[s] # "unknown"
  BY <1>2, AskTyped DEF Sound
<1>4. PICK tail \in Seq(Steps) :
        /\ tail = Tail(turn) /\ Shaped(tail) /\ Trailing(tail)
        /\ \A x \in Elems(tail) :
             x.do \in {"watch", "return"} /\ x.native \in Natives /\ byNative[x.native] # None
  BY <1>1, NextStep
<1>5. /\ UNCHANGED <<registry, stored, capacity, suspended, queue, stalled, nextEid>>
      /\ UNCHANGED <<agent, file, unread, watched, inbox, ask, restarts>>
      /\ waiting' \subseteq waiting /\ responding' \subseteq responding \cup {i}
      /\ turn' \in {<<Resume(s, "interaction_resolved")>> \o tail, tail, <<>>}
  BY <1>2, <1>3, <1>4 DEF DeliverAnswer, world
<1>6. ASSUME NEW rest \in Seq(Steps), Shaped(rest), turn' = rest,
             \A x \in Elems(rest) : x \in Elems(tail) \/ (x.do = "observe" /\ x.sid = s)
      PROVE  Sound'
  <2>1. DeskTypes'
    BY <1>5, TypesSplit DEF Sound, DeskTypes
  <2>2. \A j \in Ids : inbox'[j] = "pending" \/ j \in waiting' \cup responding' =>
          ask'[j] # None /\ state[ask'[j].sid] # "unknown"
    BY <1>2, <1>5, AskedIsKnown
  <2>3. \A x \in Elems(rest) :
          /\ x.do \in {"observe", "hint", "announce"} => state[x.sid] # "unknown"
          /\ x.do \in {"watch", "return"} => byNative[x.native] # None
          /\ x.do = "deliver" => /\ ask'[x.id] # None /\ state[ask'[x.id].sid] # "unknown"
                                 /\ inbox'[x.id] \in {"answered", "timed_out"}
          /\ x.do = "hint" => x.to # "waiting_on_user"
    BY <1>3, <1>4, <1>6
  <2>4. \A m \in Natives : m \in watched' \/ agent'[m] = "owned" => byNative[m] # None
    BY <1>5 DEF Sound, AgentsKnown
  <2>5. Quiet(rest)
    BY <1>5, <1>6 DEF Quiet
  <2>6. QED
    BY <1>5, <1>6, <2>1, <2>2, <2>3, <2>4, <2>5, OtherStepKeepsSound
<1>7. CASE turn' = <<Resume(s, "interaction_resolved")>> \o tail
  <2> DEFINE x == Observe(s, "running", "interaction_resolved")
  <2>1. x \in Steps /\ x.do = "observe" /\ x.sid = s
    <3>1. "interaction_resolved" \in Reasons /\ "running" \in States
      BY DEF Reasons, States
    <3>2. QED
      BY <3>1, StepsTyped, StepFields
  <2> DEFINE t == <<x>> \o tail
  <2>2. turn' = t
    BY <1>7 DEF Resume
  <2> HIDE DEF x
  <2>3. t \in Seq(Steps) /\ Shaped(t) /\ Elems(t) = {x} \cup Elems(tail)
    BY <1>4, <2>1, StepBefore
  <2> HIDE DEF t
  <2>4. QED
    BY <1>6, <2>1, <2>2, <2>3
<1>8. CASE turn' = tail
  BY <1>4, <1>6, <1>8
<1>9. CASE turn' = <<>>
  BY <1>6, <1>9, NoSteps
<1>10. QED
  BY <1>5, <1>7, <1>8, <1>9

\* The recorder's step.
LEMMA RecordKeepsSound ==
  ASSUME Sound, Record, UNCHANGED <<world, watched, desk, restarts>>
  PROVE  Sound'
<1>1. UNCHANGED <<native, state, byNative, capacity, turn, suspended, stalled, nextEid,
                  agent, file, unread, watched, inbox, ask, waiting, responding, restarts>>
  BY DEF Record, registry, world, desk
<1>2. Logged' /\ queue' \in Seq(Facts \cup {Other}) /\ stored' \in SUBSET Facts
  BY <1>1, RecordLogs DEF Sound
<1>3. TypeOK'
  BY <1>1, <1>2 DEF Sound, TypeOK
<1>4. StepsSound'
  BY <1>1 DEF Sound, StepsSound, TurnsShaped, StepsKnow, NoHintParks, DeliveriesSettled, AllSteps
<1>5. AgentsKnown' /\ AsksKnown' /\ IndexKnows' /\ OneSessionPerNative'
  BY <1>1 DEF Sound, AgentsKnown, AsksKnown, IndexKnows, OneSessionPerNative
<1>6. QED
  BY <1>2, <1>3, <1>4, <1>5 DEF Sound

\* A handler comes back from a publish that had to wait.
LEMMA ReturnKeepsSound ==
  ASSUME Sound, NEW c \in suspended, PublishReturns(c), UNCHANGED <<world, watched, desk, restarts>>
  PROVE  Sound'
<1>1. UNCHANGED <<native, state, byNative, stored,
                  agent, file, unread, watched, inbox, ask, waiting, responding, restarts>>
  BY DEF PublishReturns, registry, world, desk
<1>2. Logged' /\ LoopTypes' /\ TurnsShaped' /\ AllSteps' \subseteq AllSteps
  BY <1>1, ReturnLogs DEF Sound
<1>3. TypeOK'
  BY <1>1, <1>2, TypesSplit, TypesSplitNext DEF Sound, DeskTypes, RegistryTypes
<1>4. Remembered
  BY <1>1 DEF Remembered
<1>5. StepsSound'
  <2>1. PICK new : new = {}
    OBVIOUS
  <2>2. AllSteps' \subseteq AllSteps \cup new
    BY <1>2
  <2>3. TypeOK /\ StepsSound
    BY DEF Sound
  <2>4. QED
    BY <1>2, <1>4, <2>1, <2>2, <2>3, StepsStaySound
<1>6. AgentsKnown' /\ AsksKnown' /\ IndexKnows' /\ OneSessionPerNative'
  BY <1>1 DEF Sound, AgentsKnown, AsksKnown, IndexKnows, OneSessionPerNative
<1>7. QED
  BY <1>2, <1>3, <1>5, <1>6 DEF Sound

-----------------------------------------------------------------------------
(* Restart *)

\* Facts with event ids up to a bound have a newest.
LEMMA NewestExists ==
  ASSUME NEW es \in SUBSET Facts, es # {}, NEW n \in Nat, \A e \in es : e.eid <= n
  PROVE  Newest(es) \in es
<1> DEFINE eids == {e.eid : e \in es}
<1>1. eids # {} /\ \A q \in eids : q \in 0 .. n
  BY FactFields
<1> HIDE DEF eids
<1>2. PICK p \in eids : \A q \in eids : q <= p
  BY <1>1, GreatestExists
<1>3. PICK e \in es : e.eid = p
  BY DEF eids
<1>4. \A f \in es : f.eid <= e.eid
  BY <1>2, <1>3 DEF eids
<1>5. QED
  BY <1>4 DEF Newest

\* The fold knows the sessions whose discovery is in the log.
LEMMA FoldKnows ==
  ASSUME NEW log \in SUBSET Facts, NEW n \in Nat, \A e \in log : e.eid <= n, NEW s \in Sids
  PROVE  /\ FoldState(s, log) \in States \cup {"unknown"}
         /\ FoldState(s, log) # "unknown" <=> DiscoveredIn(s, log)
<1>1. CASE ChangesOf(s, log) = {}
  BY <1>1 DEF FoldState, States
<1>2. CASE ChangesOf(s, log) # {}
  <2>1. ChangesOf(s, log) \in SUBSET Facts /\ \A e \in ChangesOf(s, log) : e.eid <= n
    BY DEF ChangesOf
  <2>2. Newest(ChangesOf(s, log)) \in Facts
    BY <1>2, <2>1, NewestExists
  <2>3. Newest(ChangesOf(s, log)).to \in States
    BY <2>2, FactFields
  <2>4. "unknown" \notin States
    BY DEF States, EndStates
  <2>5. QED
    BY <1>2, <2>3, <2>4 DEF FoldState
<1>3. QED
  BY <1>1, <1>2

\* The native index of a rebuilt catalogue names a session of that identity.
LEMMA FoldIndexes ==
  ASSUME NEW log \in SUBSET Facts, NEW n \in Nat, \A e \in log : e.eid <= n, NEW m \in Natives
  PROVE  /\ FoldNative(m, log) # None =>
              /\ FoldNative(m, log) \in Sids
              /\ DiscoveredIn(FoldNative(m, log), log)
              /\ native[FoldNative(m, log)] = m
         /\ FoldNative(m, log) = None => \A e \in log : e.type = "discovered" => native[e.sid] # m
<1> DEFINE found == {e \in log : e.type = "discovered" /\ native[e.sid] = m}
<1>1. CASE found = {}
  BY <1>1 DEF FoldNative
<1>2. CASE found # {}
  <2>1. found \in SUBSET Facts /\ \A e \in found : e.eid <= n
    OBVIOUS
  <2>2. Newest(found) \in found
    <3> HIDE DEF found
    <3>1. QED
      BY <1>2, <2>1, NewestExists
  <2>3. PICK e \in log : e = Newest(found) /\ e.type = "discovered" /\ native[e.sid] = m
    BY <2>2
  <2>4. FoldNative(m, log) = e.sid
    BY <1>2, <2>3 DEF FoldNative
  <2>5. e.sid \in Sids /\ DiscoveredIn(e.sid, log)
    BY <2>3, FactFields DEF DiscoveredIn
  <2>6. e.sid # None
    BY <2>5, NoneIsNoSession
  <2>7. QED
    BY <2>3, <2>4, <2>5, <2>6
<1>3. QED
  BY <1>1, <1>2

\* Crash and boot: the catalogue and its index are rebuilt from the store.
LEMMA RestartKeepsSound ==
  ASSUME Sound, Restart
  PROVE  Sound'
<1>1. /\ RebuildRegistry /\ restarts' = restarts + 1
      /\ watched' = {} /\ waiting' = {} /\ responding' = {}
      /\ UNCHANGED <<file, unread, ask>>
  BY DEF Restart
<1>2. /\ native' = native /\ stored' = stored /\ turn' = <<>> /\ suspended' = {} /\ queue' = <<>>
      /\ UNCHANGED <<capacity, stalled, nextEid>>
      /\ \A s \in Sids : state'[s] = FoldState(s, stored)
      /\ \A m \in Natives : byNative'[m] = FoldNative(m, stored)
  BY <1>1 DEF RebuildRegistry
<1>3. Logged'
  BY <1>1, RestartLogs DEF Sound
<1>4. /\ stored \in SUBSET Facts /\ stored \subseteq Published /\ Published \in SUBSET Facts
      /\ nextEid \in Nat /\ \A e \in Published : e.eid <= nextEid
  <2>1. Published \in SUBSET Facts /\ nextEid \in Nat
    BY PublishedTyped DEF Sound, TypeOK
  <2>2. \A e \in Published : e.eid \in Nat /\ e.eid < nextEid
    BY <2>1, FactFields DEF Sound, Logged, LogSound, EidsDrawn
  <2>3. QED
    BY <2>1, <2>2 DEF Published
<1>5. \A s \in Sids : /\ FoldState(s, stored) \in States \cup {"unknown"}
                      /\ FoldState(s, stored) # "unknown" <=> DiscoveredIn(s, stored)
  BY <1>4, FoldKnows
<1>6. \A s \in Sids : DiscoveredIn(s, Published) => state[s] # "unknown"
  BY <1>4, FoldKnows DEF Sound, Logged, CatalogueIsFoldOfLog
<1>7. \A s \in Sids : DiscoveredIn(s, stored) => DiscoveredIn(s, Published)
  BY <1>4 DEF DiscoveredIn
<1>8. \A m \in Natives :
         /\ FoldNative(m, stored) # None =>
              /\ FoldNative(m, stored) \in Sids
              /\ DiscoveredIn(FoldNative(m, stored), stored)
              /\ native[FoldNative(m, stored)] = m
         /\ FoldNative(m, stored) = None => \A e \in stored : e.type = "discovered" => native[e.sid] # m
  BY <1>4, FoldIndexes
<1>9. TypeOK'
  <2>1. RegistryTypes'
    <3>1. state' \in [Sids -> States \cup {"unknown"}]
      BY <1>1, <1>5 DEF RebuildRegistry
    <3>2. byNative' \in [Natives -> Sids \cup {None}]
      BY <1>1, <1>8 DEF RebuildRegistry
    <3>3. QED
      BY <1>2, <3>1, <3>2 DEF Sound, TypeOK, RegistryTypes
  <2>2. LoopTypes'
    BY <1>2, NoSteps DEF Sound, TypeOK, LoopTypes
  <2>3. DeskTypes'
    <3>1. agent' \in [Natives -> Agents]
      BY DEF Restart, Sound, TypeOK, Agents
    <3>2. inbox' \in [Ids -> {"unknown", "pending", "answered", "timed_out", "cancelled"}]
      BY DEF Restart, Sound, TypeOK
    <3>3. QED
      BY <1>1, <3>1, <3>2 DEF Sound, TypeOK, DeskTypes
  <2>4. QED
    BY <2>1, <2>2, <2>3, TypesSplitNext
<1>10. StepsSound'
  <2>1. AllSteps' = {} /\ TurnsShaped'
    BY <1>2, NoSteps DEF AllSteps, TurnsShaped
  <2>2. QED
    BY <2>1 DEF StepsSound, StepsKnow, NoHintParks, DeliveriesSettled
<1>11. AgentsKnown'
  <2>1. \A m \in Natives : agent'[m] # "owned"
    BY DEF Restart, Sound, TypeOK
  <2>2. QED
    BY <1>1, <2>1 DEF AgentsKnown
<1>12. AsksKnown'
  <2>1. \A i \in Ids : inbox'[i] # "pending"
    BY DEF Restart, Sound, TypeOK
  <2>2. QED
    BY <1>1, <2>1 DEF AsksKnown
<1>13. IndexKnows'
  BY <1>2, <1>5, <1>8 DEF IndexKnows
<1>14. OneSessionPerNative'
  <2> SUFFICES ASSUME NEW s \in Sids, FoldState(s, stored) # "unknown"
               PROVE  native[s] \in Natives /\ FoldNative(native[s], stored) = s
    BY <1>2 DEF OneSessionPerNative
  <2>1. DiscoveredIn(s, stored) /\ state[s] # "unknown"
    BY <1>5, <1>6, <1>7
  <2>2. native[s] \in Natives /\ byNative[native[s]] = s
    BY <2>1, KnownHasNative DEF Sound, OneSessionPerNative
  <2>3. FoldNative(native[s], stored) # None
    BY <1>8, <2>1, <2>2 DEF DiscoveredIn
  <2>4. PICK t \in Sids : t = FoldNative(native[s], stored) /\ state[t] # "unknown"
                          /\ native[t] = native[s]
    BY <1>6, <1>7, <1>8, <2>2, <2>3
  <2>5. byNative[native[t]] = t
    BY <2>4 DEF Sound, OneSessionPerNative
  <2>6. QED
    BY <2>2, <2>4, <2>5
<1>15. QED
  BY <1>3, <1>9, <1>10, <1>11, <1>12, <1>13, <1>14 DEF Sound

-----------------------------------------------------------------------------
(* The theorems of the catalogue *)

LEMMA InitSound == Init => Sound
<1> SUFFICES ASSUME Init PROVE Sound
  OBVIOUS
<1>1. TypeOK
  <2>1. LoopTypes
    <3>1. queue \in Seq(Facts \cup {Other}) /\ turn \in Seq(Steps)
      BY DEF Init, RegistryInit
    <3>2. QED
      BY <3>1 DEF Init, RegistryInit, LoopTypes
  <2>2. DeskTypes
    BY DEF Init, DeskTypes, Agents
  <2>3. RegistryTypes
    BY DEF Init, RegistryInit, RegistryTypes
  <2>4. QED
    BY <2>1, <2>2, <2>3, TypesSplit
<1>2. AllSteps = {} /\ TurnsShaped
  BY NoSteps DEF Init, RegistryInit, AllSteps, TurnsShaped
<1>3. StepsSound
  BY <1>2 DEF StepsSound, StepsKnow, NoHintParks, DeliveriesSettled
<1>4. Published = {} /\ stored = {} /\ suspended = {} /\ queue = <<>>
  BY DEF Init, RegistryInit, Published, InFlight
<1>5. Logged
  <2>1. LogSound
    BY <1>4 DEF LogSound, EidsDrawn, EidsUnique, SidsDrawn, DiscoveredOnce
  <2>2. CatalogueIsFoldOfLog
    BY <1>4 DEF Init, RegistryInit, CatalogueIsFoldOfLog, FoldState, DiscoveredIn
  <2>3. InOrder
    BY <1>4 DEF InOrder
  <2>4. LogIsHistory
    BY <1>4 DEF LogIsHistory, ChangesOf
  <2>5. QED
    BY <2>1, <2>2, <2>3, <2>4 DEF Logged
<1>6. AgentsKnown /\ AsksKnown /\ IndexKnows /\ OneSessionPerNative
  BY DEF Init, RegistryInit, AgentsKnown, AsksKnown, IndexKnows, OneSessionPerNative
<1>7. QED
  BY <1>1, <1>3, <1>5, <1>6 DEF Sound

LEMMA StutterKeepsSound ==
  ASSUME Sound, UNCHANGED vars
  PROVE  Sound'
<1>1. UNCHANGED <<registry, stored, restarts, desk, agent, file, unread, watched>> /\ Quiet(turn)
  BY DEF vars, world, loop, Quiet
<1>2. UNCHANGED <<native, state, byNative, stored, capacity, turn, suspended, queue, stalled, nextEid,
                  agent, file, unread, watched, inbox, ask, waiting, responding, restarts>>
  BY <1>1 DEF registry, desk, Quiet
<1>3. TypeOK'
  BY <1>2 DEF Sound, TypeOK
<1>4. StepsSound'
  BY <1>2 DEF Sound, StepsSound, TurnsShaped, StepsKnow, NoHintParks, DeliveriesSettled, AllSteps
<1>5. AgentsKnown' /\ AsksKnown' /\ IndexKnows' /\ OneSessionPerNative'
  BY <1>2 DEF Sound, AgentsKnown, AsksKnown, IndexKnows, OneSessionPerNative
<1>6. Logged'
  BY <1>2, OtherStepLogs DEF Sound, Quiet
<1>7. QED
  BY <1>3, <1>4, <1>5, <1>6 DEF Sound

LEMMA NextKeepsSound ==
  ASSUME Sound, Next
  PROVE  Sound'
<1>1. CASE RegistryStep
  <2>1. UNCHANGED <<world, watched, desk, restarts>>
    BY <1>1 DEF RegistryStep
  <2>2. CASE ObserveState
    BY <2>1, <2>2, ObserveStateKeepsSound
  <2>3. CASE PublishLifecycle \/ ApplyHint
    BY <2>1, <2>3, RegistryStepKeepsSound
  <2>4. CASE Record
    BY <2>1, <2>4, RecordKeepsSound
  <2>5. CASE \E c \in suspended : PublishReturns(c)
    BY <2>1, <2>5, ReturnKeepsSound
  <2>6. QED
    BY <1>1, <2>2, <2>3, <2>4, <2>5 DEF RegistryStep
<1>2. CASE EnsureWatch \/ WatchReturns
  BY <1>2, EnsureWatchKeepsSound
<1>3. CASE DeliverAnswer
  BY <1>3, DeliverKeepsSound
<1>4. ASSUME NEW n \in Natives,
             AgentWrites(n) \/ TranscriptAges(n) \/ AgentStarts(n) \/ WatchCatchesUp(n)
      PROVE  Sound'
  BY <1>4, AgentWritesKeepsSound
<1>5. ASSUME NEW n \in Natives, LaunchReturns(n) \/ \E refreshed \in BOOLEAN : Discover(n, refreshed)
      PROVE  Sound'
  BY <1>5, DiscoverKeepsSound
<1>6. ASSUME NEW n \in Natives, WatchSeesActivity(n) \/ AgentFails(n)
      PROVE  Sound'
  BY <1>6, WatchSeesKeepsSound
<1>7. ASSUME NEW n \in Natives, WatchEnds(n)
      PROVE  Sound'
  BY <1>7, WatchEndsKeepsSound
<1>8. ASSUME NEW n \in Natives, Terminate(n)
      PROVE  Sound'
  BY <1>8, TerminateKeepsSound
<1>9. ASSUME NEW n \in Natives, NEW i \in Ids, OpenInteraction(n, i)
      PROVE  Sound'
  BY <1>9, OpenInteractionKeepsSound
<1>10. ASSUME NEW i \in Ids,
              Answer(i) \/ Withdraw(i) \/ \E permission \in BOOLEAN : TimeOut(i, permission)
       PROVE  Sound'
  BY <1>10, AnswerKeepsSound
<1>11. ASSUME NEW i \in Ids, InteractionClosed(i)
       PROVE  Sound'
  BY <1>11, InteractionClosedKeepsSound
<1>12. ASSUME NEW i \in Ids, RespondReturns(i) \/ RespondFails(i)
       PROVE  Sound'
  BY <1>12, RespondKeepsSound
<1>13. ASSUME NEW s \in Sids, Archive(s) \/ SetModel(s)
       PROVE  Sound'
  BY <1>13, ArchiveKeepsSound
<1>14. CASE Restart
  BY <1>14, RestartKeepsSound
<1>15. QED
  BY <1>1, <1>2, <1>3, <1>4, <1>5, <1>6, <1>7, <1>8, <1>9, <1>10, <1>11, <1>12, <1>13, <1>14
     DEF Next

LEMMA AlwaysSound == Spec => []Sound
<1>1. Sound /\ [Next]_vars => Sound'
  BY NextKeepsSound, StutterKeepsSound
<1>2. QED
  BY <1>1, InitSound, PTL DEF Spec

\* The state of the manager, the registry and the loop stays well-typed.
THEOREM TypeCorrect == Spec => []TypeOK
<1>1. Sound => TypeOK
  BY DEF Sound
<1>2. QED
  BY <1>1, AlwaysSound, PTL

\* Whoever meets an agent first (discovery, a launch, a hook), and after any
\* restart, a native identity has one session and the index finds it.
THEOREM OneSessionEach == Spec => []OneSessionPerNative
<1>1. Sound => OneSessionPerNative
  BY DEF Sound
<1>2. QED
  BY <1>1, AlwaysSound, PTL

\* The catalogue in memory is what a rebuild from the log would make of it.
THEOREM CatalogueFollowsTheLog == Spec => []CatalogueIsFoldOfLog
<1>1. Sound => CatalogueIsFoldOfLog
  BY DEF Sound, Logged
<1>2. QED
  BY <1>1, AlwaysSound, PTL

\* Unless a crash cut off a suspended handler, the log of every session is a
\* history of legal transitions without a gap.
THEOREM LogTellsHistory == Spec => []LogIsHistory
<1>1. Sound => LogIsHistory
  BY DEF Sound, Logged
<1>2. QED
  BY <1>1, AlwaysSound, PTL

-----------------------------------------------------------------------------
(* Parking.  As long as nothing stalled, the one handler that is under way *)
(* has the loop, and what it does next is the head of `turn`.              *)

\* The handler that has the loop is about to park a session, to end it, or to
\* take it out of the state it is parked in.
Parks(s) == Doing("observe") /\ Head(turn).sid = s /\ Head(turn).to = "waiting_on_user"
Ends(s) == Doing("observe") /\ Head(turn).sid = s /\ Head(turn).to \in {"stopped", "failed"}
Leaving(s) == Doing("observe") /\ Head(turn).sid = s /\ Head(turn).to \in {"running", "stopped", "failed"}

\* Discovery's next step is not about a parked session.
DiscoveryLooksAway ==
  ~stalled /\ Doing("observe") /\ Head(turn).why \in {"discovery", "discovered"} =>
    state[Head(turn).sid] # "waiting_on_user"

\* A reason to be parked: an interaction that is pending, or is no longer
\* pending but its agent still waits for it, or that ended without an answer.
WhyParked(s) ==
  \E i \in Ids :
    /\ ask[i] # None
    /\ ask[i].sid = s
    /\ inbox[i] \in {"pending", "timed_out", "cancelled"} \/ i \in waiting

InboxKnows ==
  /\ \A i \in waiting : inbox[i] # "unknown"
  /\ \A i \in responding : inbox[i] \notin {"unknown", "pending"}

PendingHeard ==
  \A i \in Ids : inbox[i] = "pending" => i \in waiting \/ agent[native[ask[i].sid]] = "gone"
GoneLeaves ==
  \A s \in Sids : state[s] = "waiting_on_user" /\ agent[native[s]] = "gone" => Ends(s)
ParkHasReason ==
  \A s \in Sids : Parks(s) => WhyParked(s) /\ agent[native[s]] # "gone"
ParkedHasReason ==
  \A s \in Sids : state[s] = "waiting_on_user" => WhyParked(s) \/ Leaving(s)

ParkingSound ==
  ~stalled /\ restarts = 0 => PendingHeard /\ GoneLeaves /\ ParkHasReason /\ ParkedHasReason

\* The next observation, if any, parks nothing and is not discovery's of a
\* parked session.
Cautious ==
  ~stalled /\ Doing("observe") =>
    /\ Head(turn).to # "waiting_on_user"
    /\ Head(turn).why \in {"discovery", "discovered"} => state[Head(turn).sid] # "waiting_on_user"

LEMMA CautiousLooksAwayNext == Cautious' => DiscoveryLooksAway'
BY DEF Cautious, DiscoveryLooksAway

\* As long as nothing stalls, a handler goes on to the steps it meant to.
LEMMA GoesOn ==
  ASSUME TypeOK, NEW event, NEW rest, Publish(event, rest) \/ Quiet(rest), ~stalled'
  PROVE  ~stalled /\ turn' = rest
BY DEF Publish, Quiet, TypeOK

LEMMA IdleIsCautious ==
  ASSUME turn' = <<>> \/ Head(turn').do # "observe"
  PROVE  Cautious' /\ ~Doing("observe")'
BY DEF Cautious, Doing

LEMMA TrailingIsIdle ==
  ASSUME NEW tail \in Seq(Steps), Trailing(tail)
  PROVE  tail = <<>> \/ Head(tail).do \in {"watch", "return"}
<1>1. CASE tail # <<>>
  <2>1. 1 \in DOMAIN tail /\ Head(tail) = tail[1]
    BY <1>1, AfterTail
  <2>2. QED
    BY <2>1 DEF Trailing, Elems
<1>2. QED
  BY <1>1

LEMMA BeginIsCautious ==
  ASSUME NEW s, NEW to, NEW why, turn' = <<Observe(s, to, why)>>,
         to # "waiting_on_user", why \notin {"discovery", "discovered"}
  PROVE  /\ Cautious' /\ Doing("observe")' /\ Head(turn').sid = s /\ Head(turn').to = to
         /\ Head(turn').why = why
<1>1. turn' # <<>> /\ Head(turn') = Observe(s, to, why)
  OBVIOUS
<1>2. QED
  BY <1>1, StepFields DEF Cautious, Doing

\* What is asked of an agent, and its session, stay as they were.
LEMMA CalmKeepsParking ==
  ASSUME Sound, ParkingSound, UNCHANGED <<inbox, ask, waiting, restarts>>,
         ~stalled' => ~stalled,
         \A n \in Natives : agent'[n] = "gone" => agent[n] = "gone",
         \A n \in Natives : agent[n] = "gone" => agent'[n] = "gone",
         \A s \in Sids : state[s] # "unknown" => native'[s] = native[s],
         \A s \in Sids : state'[s] = "waiting_on_user" => state[s] = "waiting_on_user",
         ~Doing("observe"), Cautious'
  PROVE  ParkingSound'
<1> SUFFICES ASSUME ~stalled', restarts = 0
             PROVE  PendingHeard' /\ GoneLeaves' /\ ParkHasReason' /\ ParkedHasReason'
  BY DEF ParkingSound
<1>1. PendingHeard /\ GoneLeaves /\ ParkHasReason /\ ParkedHasReason
  BY DEF ParkingSound
<1>2. PendingHeard'
  <2> SUFFICES ASSUME NEW i \in Ids, inbox[i] = "pending", i \notin waiting
               PROVE  agent'[native'[ask[i].sid]] = "gone"
    BY DEF PendingHeard
  <2>1. PICK s \in Sids : s = ask[i].sid /\ state[s] # "unknown"
    BY AskedIsKnown
  <2>2. native[s] \in Natives /\ native'[s] = native[s]
    BY <2>1, KnownHasNative
  <2>3. agent[native[s]] = "gone"
    BY <1>1, <2>1 DEF PendingHeard
  <2>4. QED
    BY <2>1, <2>2, <2>3
<1>3. GoneLeaves'
  <2> SUFFICES ASSUME NEW s \in Sids, state'[s] = "waiting_on_user", agent'[native'[s]] = "gone"
               PROVE  FALSE
    BY DEF GoneLeaves
  <2>1. state[s] = "waiting_on_user" /\ native[s] \in Natives /\ native'[s] = native[s]
    BY KnownHasNative
  <2>2. QED
    BY <1>1, <2>1 DEF GoneLeaves, Ends
<1>4. ParkHasReason'
  BY DEF ParkHasReason, Parks, Cautious
<1>5. ParkedHasReason'
  <2> SUFFICES ASSUME NEW s \in Sids, state'[s] = "waiting_on_user"
               PROVE  WhyParked(s)'
    BY DEF ParkedHasReason
  <2>1. WhyParked(s)
    BY <1>1 DEF ParkedHasReason, Leaving
  <2>2. QED
    BY <2>1 DEF WhyParked
<1>6. QED
  BY <1>2, <1>3, <1>4, <1>5

LEMMA AgentWritesKeepsParking ==
  ASSUME Sound, ParkingSound, NEW n \in Natives,
         AgentWrites(n) \/ TranscriptAges(n) \/ AgentStarts(n) \/ WatchCatchesUp(n)
  PROVE  ParkingSound' /\ Cautious'
<1>1. /\ UNCHANGED <<native, state, inbox, ask, waiting, restarts, stalled>> /\ turn = <<>> /\ turn' = <<>>
  BY DEF AgentWrites, TranscriptAges, AgentStarts, WatchCatchesUp, Free, registry, loop, desk
<1>2. \A m \in Natives : /\ agent'[m] = "gone" => agent[m] = "gone"
                         /\ agent[m] = "gone" => agent'[m] = "gone"
  BY DEF AgentWrites, TranscriptAges, AgentStarts, WatchCatchesUp, Alive, Sound, TypeOK
<1>3. ~Doing("observe") /\ Cautious'
  BY <1>1, IdleIsCautious DEF Doing
<1>4. QED
  BY <1>1, <1>2, <1>3, CalmKeepsParking

LEMMA SetModelKeepsParking ==
  ASSUME Sound, ParkingSound,
         \/ \E s \in Sids : SetModel(s)
         \/ \E i \in Ids : RespondFails(i)
         \/ Record /\ UNCHANGED <<world, watched, desk, restarts>>
  PROVE  ParkingSound' /\ Cautious'
<1>1. /\ UNCHANGED <<native, state, agent, inbox, ask, waiting, restarts>> /\ turn = <<>> /\ turn' = <<>>
  BY DEF SetModel, Refresh, RespondFails, Record, Publish, Free, registry, desk, world
<1>2. ~stalled' => ~stalled
  BY DEF SetModel, Refresh, RespondFails, Record, Publish
<1>3. ~Doing("observe") /\ Cautious'
  BY <1>1, IdleIsCautious DEF Doing
<1>4. QED
  BY <1>1, <1>2, <1>3, CalmKeepsParking

LEMMA TrailingStepKeepsParking ==
  ASSUME Sound, ParkingSound,
         \/ EnsureWatch
         \/ WatchReturns
         \/ PublishLifecycle /\ UNCHANGED <<world, watched, desk, restarts>>
  PROVE  ParkingSound' /\ Cautious'
<1>1. /\ UNCHANGED <<native, state, agent, inbox, ask, waiting, restarts>>
      /\ turn # <<>> /\ Head(turn).do # "observe"
      /\ turn' \in {Tail(turn), <<>>} /\ (~stalled' => ~stalled)
  BY DEF EnsureWatch, WatchReturns, PublishLifecycle, Publish, Doing, registry, desk, world
<1>2. Tail(turn) = <<>> \/ Head(Tail(turn)).do # "observe"
  BY <1>1, NextStep, TrailingIsIdle
<1>3. ~Doing("observe") /\ Cautious'
  BY <1>1, <1>2, IdleIsCautious DEF Doing
<1>4. QED
  BY <1>1, <1>3, CalmKeepsParking

LEMMA ApplyHintKeepsParking ==
  ASSUME Sound, ParkingSound, ApplyHint, UNCHANGED <<world, watched, desk, restarts>>
  PROVE  ParkingSound' /\ Cautious'
<1>1. /\ UNCHANGED <<native, state, agent, inbox, ask, waiting, restarts, stalled>>
      /\ turn # <<>> /\ Head(turn).do = "hint"
  BY DEF ApplyHint, Doing, registry, desk, world
<1>2. Head(turn).to # "waiting_on_user"
  BY <1>1, NextStep DEF Sound, StepsSound, NoHintParks
<1>3. PICK tail \in Seq(Steps) : tail = Tail(turn) /\ Trailing(tail)
  BY <1>1, NextStep
<1>4. PICK s \in Sids, to \in States : s = Head(turn).sid /\ to = Head(turn).to
  BY <1>1, NextStep, StepOfKind
<1>5. ASSUME turn' = tail PROVE Cautious'
  <2>1. turn' = <<>> \/ Head(turn').do # "observe"
    BY <1>3, <1>5, TrailingIsIdle
  <2>2. QED
    BY <2>1, IdleIsCautious
<1>6. ASSUME state[s] # "waiting_on_user" /\ turn' = <<Observe(s, to, "discovery")>> \o tail
      PROVE  Cautious'
  <2> DEFINE x == Observe(s, to, "discovery")
  <2>1. x \in Steps /\ x.do = "observe" /\ x.sid = s /\ x.to = to
    <3>1. "discovery" \in Reasons
      BY DEF Reasons
    <3>2. QED
      BY <3>1, StepsTyped, StepFields
  <2>2. turn' = <<x>> \o tail
    BY <1>6
  <2> HIDE DEF x
  <2>3. turn' # <<>> /\ Head(turn') = x
    BY <1>3, <2>1, <2>2, StepBefore
  <2>4. QED
    BY <1>1, <1>2, <1>4, <1>6, <2>1, <2>3 DEF Cautious
<1>7. Cautious'
  BY <1>3, <1>4, <1>5, <1>6 DEF ApplyHint
<1>8. ~Doing("observe")
  BY <1>1 DEF Doing
<1>9. QED
  BY <1>1, <1>7, <1>8, CalmKeepsParking

LEMMA DiscoverKeepsParking ==
  ASSUME Sound, ParkingSound, NEW n \in Natives,
         LaunchReturns(n) \/ \E refreshed \in BOOLEAN : Discover(n, refreshed)
  PROVE  ParkingSound' /\ Cautious'
<1>1. /\ UNCHANGED <<inbox, ask, waiting, restarts>> /\ turn = <<>>
      /\ \A m \in Natives : /\ agent'[m] = "gone" => agent[m] = "gone"
                            /\ agent[m] = "gone" => agent'[m] = "gone"
  BY DEF LaunchReturns, Discover, world, desk, Free, Sound, TypeOK
<1>2. PICK hint \in {"running", "completed", "starting"}, refreshed \in BOOLEAN :
        Upsert(n, hint, refreshed, <<Watch(n)>>)
  BY DEF LaunchReturns, Discover, Heuristic
<1>3. ~Doing("observe")
  BY <1>1 DEF Doing
<1>4. hint \in States
  BY DEF States, EndStates
<1>5. CASE UpsertKnown(n, hint, refreshed, <<Watch(n)>>)
  <2>1. PICK s \in Sids : s = byNative[n]
    BY <1>5, KnownNative DEF UpsertKnown
  <2> DEFINE x == Hint(s, hint)
             t == <<x>> \o <<Watch(n)>>
  <2>2. x \in Steps /\ x.do = "hint"
    BY <1>4, StepsTyped, StepFields
  <2>3. Publish(Other, t) \/ Quiet(t)
    BY <1>5, <2>1 DEF UpsertKnown, Quiet
  <2>4. UNCHANGED <<native, state>>
    BY <1>5 DEF UpsertKnown, registry
  <2> HIDE DEF x
  <2>5. t # <<>> /\ Head(t) = x
    <3>1. Watch(n) \in Steps /\ Watch(n).do = "watch"
      BY StepsTyped, StepFields
    <3>2. <<Watch(n)>> \in Seq(Steps) /\ Trailing(<<Watch(n)>>)
      BY <3>1, OneStep DEF Trailing
    <3>3. QED
      BY <2>2, <3>2, StepBefore
  <2> HIDE DEF t
  <2>6. ~stalled' => ~stalled /\ turn' = t
    BY <2>3, GoesOn DEF Sound
  <2>7. Cautious'
    BY <2>2, <2>5, <2>6 DEF Cautious, Doing
  <2>8. QED
    BY <1>1, <1>3, <2>4, <2>6, <2>7, CalmKeepsParking
<1>6. ASSUME NEW s \in Sids, UpsertNew(n, s, hint, <<Watch(n)>>)
      PROVE  ParkingSound' /\ Cautious'
  <2> DEFINE x == Observe(s, hint, "discovered")
             t == <<x>> \o <<Watch(n)>>
             e == Fact("discovered", s, "unknown", "discovered")
  <2>1. x \in Steps /\ x.do = "observe" /\ x.sid = s /\ x.to = hint
    <3>1. "discovered" \in Reasons
      BY DEF Reasons
    <3>2. QED
      BY <1>4, <3>1, StepsTyped, StepFields
  <2>2. Publish(e, t)
    BY <1>6 DEF UpsertNew
  <2>3. /\ native[s] = None /\ native' = [native EXCEPT ![s] = n]
        /\ state' = [state EXCEPT ![s] = "discovered"]
    BY <1>6 DEF UpsertNew
  <2>4. /\ \A r \in Sids : native'[r] = IF r = s THEN n ELSE native[r]
        /\ \A r \in Sids : state'[r] = IF r = s THEN "discovered" ELSE state[r]
    BY <2>3 DEF Sound, TypeOK
  <2>5. \A r \in Sids : state[r] # "unknown" => native'[r] = native[r]
    BY <2>3, <2>4, KnownHasNative, NoneIsNoSession
  <2>6. \A r \in Sids : state'[r] = "waiting_on_user" => state[r] = "waiting_on_user"
    BY <2>4
  <2> HIDE DEF x, e
  <2>7. t # <<>> /\ Head(t) = x
    <3>1. Watch(n) \in Steps /\ Watch(n).do = "watch"
      BY StepsTyped, StepFields
    <3>2. <<Watch(n)>> \in Seq(Steps) /\ Trailing(<<Watch(n)>>)
      BY <3>1, OneStep DEF Trailing
    <3>3. QED
      BY <2>1, <3>2, StepBefore
  <2> HIDE DEF t
  <2>8. ~stalled' => ~stalled /\ turn' = t
    BY <2>2, GoesOn DEF Sound
  <2>9. Cautious'
    BY <2>1, <2>4, <2>7, <2>8 DEF Cautious
  <2>10. QED
    BY <1>1, <1>3, <2>5, <2>6, <2>8, <2>9, CalmKeepsParking
<1>7. QED
  BY <1>2, <1>5, <1>6 DEF Upsert

LEMMA BeginKeepsParking ==
  ASSUME Sound, ParkingSound,
         \/ \E n \in Natives : WatchSeesActivity(n)
         \/ \E n \in Natives : WatchEnds(n)
         \/ \E s \in Sids : Archive(s)
  PROVE  ParkingSound' /\ Cautious'
<1>1. /\ UNCHANGED <<native, state, agent, inbox, ask, waiting, restarts, stalled>> /\ turn = <<>>
  BY DEF WatchSeesActivity, WatchEnds, Archive, Begin, Free, registry, desk, world
<1>2. ~Doing("observe")
  BY <1>1 DEF Doing
<1>3. CASE \E n \in Natives : WatchSeesActivity(n)
  <2>1. PICK s : turn' = <<Observe(s, "running", "activity")>>
    BY <1>3 DEF WatchSeesActivity, Begin, Resume
  <2>2. Cautious'
    BY <2>1, BeginIsCautious
  <2>3. QED
    BY <1>1, <1>2, <2>2, CalmKeepsParking
<1>4. CASE \E n \in Natives : WatchEnds(n)
  <2>1. PICK n \in Natives : WatchEnds(n)
    BY <1>4
  <2>2. PICK to \in {"completed", "stopped"} :
          turn' # <<>> /\ Head(turn') = Observe(byNative[n], to, "watch")
    BY <2>1 DEF WatchEnds, Begin
  <2>3. Cautious'
    <3>1. /\ Head(turn').to = to /\ Head(turn').why = "watch"
      BY <2>2, StepFields
    <3>2. QED
      BY <3>1 DEF Cautious
  <2>4. QED
    BY <1>1, <1>2, <2>3, CalmKeepsParking
<1>5. CASE \E s \in Sids : Archive(s)
  <2>1. PICK s : turn' = <<Observe(s, "archived", "archive")>>
    BY <1>5 DEF Archive, Begin
  <2>2. Cautious'
    BY <2>1, BeginIsCautious
  <2>3. QED
    BY <1>1, <1>2, <2>2, CalmKeepsParking
<1>6. QED
  BY <1>3, <1>4, <1>5

\* What holds while the loop is free.
LEMMA FreeLoopParks ==
  ASSUME Sound, ParkingSound, ~stalled, restarts = 0, turn = <<>> \/ Head(turn).do # "observe"
  PROVE  /\ PendingHeard
         /\ \A s \in Sids : state[s] = "waiting_on_user" =>
              agent[native[s]] # "gone" /\ WhyParked(s)
BY DEF ParkingSound, GoneLeaves, ParkedHasReason, Ends, Leaving, Doing

\* An interaction is opened: its session is about to be parked, for it.
LEMMA OpenInteractionKeepsParking ==
  ASSUME Sound, InboxKnows, ParkingSound, NEW n \in Natives, NEW i \in Ids, OpenInteraction(n, i)
  PROVE  ParkingSound' /\ DiscoveryLooksAway'
<1>1. PICK s \in Sids, path \in Paths :
        /\ s = byNative[n] /\ native[s] = n /\ agent[n] # "gone"
        /\ ask' = [ask EXCEPT ![i] = [sid |-> s, path |-> path]]
  BY KnownNative DEF OpenInteraction, Paths, Alive
<1>2. /\ inbox[i] = "unknown" /\ inbox' = [inbox EXCEPT ![i] = "pending"]
      /\ waiting' = waiting \cup {i} /\ turn = <<>>
      /\ UNCHANGED <<native, state, agent, restarts>>
      /\ Publish(Other, <<Observe(s, "waiting_on_user", "interaction_requested")>>)
  BY <1>1 DEF OpenInteraction, Park, Free, registry, world
<1>3. /\ \A j \in Ids : inbox'[j] = IF j = i THEN "pending" ELSE inbox[j]
      /\ \A j \in Ids : ask'[j] = IF j = i THEN [sid |-> s, path |-> path] ELSE ask[j]
  BY <1>1, <1>2 DEF Sound, TypeOK
<1>4. i \notin waiting
  BY <1>2 DEF InboxKnows
<1>5. ~stalled' => ~stalled /\ turn' = <<Observe(s, "waiting_on_user", "interaction_requested")>>
  BY <1>2, GoesOn DEF Sound
<1>6. ~stalled' =>
        /\ ~stalled /\ Doing("observe")' /\ Head(turn').sid = s /\ Head(turn').to = "waiting_on_user"
        /\ Head(turn').why = "interaction_requested"
  <2>1. ASSUME turn' = <<Observe(s, "waiting_on_user", "interaction_requested")>>
        PROVE  turn' # <<>> /\ Head(turn') = Observe(s, "waiting_on_user", "interaction_requested")
    BY <2>1
  <2>2. QED
    BY <1>5, <2>1, StepFields DEF Doing
<1>7. DiscoveryLooksAway'
  BY <1>6 DEF DiscoveryLooksAway
<1>8. ASSUME ~stalled', restarts = 0
      PROVE  PendingHeard' /\ GoneLeaves' /\ ParkHasReason' /\ ParkedHasReason'
  <2>1. /\ PendingHeard
        /\ \A t \in Sids : state[t] = "waiting_on_user" =>
             agent[native[t]] # "gone" /\ WhyParked(t)
    BY <1>2, <1>6, <1>8, FreeLoopParks
  <2>2. PendingHeard'
    BY <1>2, <1>3, <2>1 DEF PendingHeard
  <2>3. GoneLeaves'
    BY <1>2, <2>1 DEF GoneLeaves
  <2>4. WhyParked(s)'
    <3>1. ask'[i] # None /\ ask'[i].sid = s /\ inbox'[i] = "pending"
      BY <1>3, NoneIsNoRequest
    <3>2. QED
      BY <3>1 DEF WhyParked
  <2>5. ParkHasReason'
    BY <1>1, <1>2, <1>6, <1>8, <2>4 DEF ParkHasReason, Parks
  <2>6. ParkedHasReason'
    <3> SUFFICES ASSUME NEW t \in Sids, state[t] = "waiting_on_user" PROVE WhyParked(t)'
      BY <1>2 DEF ParkedHasReason
    <3>1. PICK j \in Ids : /\ ask[j] # None /\ ask[j].sid = t
                           /\ inbox[j] \in {"pending", "timed_out", "cancelled"} \/ j \in waiting
      BY <2>1 DEF WhyParked
    <3>2. j # i
      BY <1>2, <1>4, <3>1
    <3>3. ask'[j] = ask[j] /\ inbox'[j] = inbox[j] /\ (j \in waiting => j \in waiting')
      BY <1>2, <1>3, <3>2
    <3>4. QED
      BY <3>1, <3>3 DEF WhyParked
  <2>7. QED
    BY <2>2, <2>3, <2>5, <2>6
<1>9. QED
  BY <1>2, <1>6, <1>7, <1>8 DEF ParkingSound

\* However an interaction ends: one that was answered still has its agent
\* waiting for the answer.
LEMMA SettleKeepsParking ==
  ASSUME Sound, ParkingSound, NEW i \in Ids, NEW outcome \in {"answered", "timed_out", "cancelled"},
         NEW rest, Settle(i, outcome, rest),
         waiting' \in {waiting, waiting \ {i}}, outcome = "answered" => waiting' = waiting,
         \/ rest = <<>> \/ Head(rest).do = "deliver"
         \/ Head(rest).to = "running" /\ Head(rest).why = "interaction_closed"
  PROVE  ParkingSound' /\ Cautious'
<1>1. /\ inbox[i] = "pending" /\ inbox' = [inbox EXCEPT ![i] = outcome] /\ turn = <<>>
      /\ UNCHANGED <<native, state, agent, ask, restarts>>
      /\ Publish(Other, rest)
  BY DEF Settle, Free, registry, world
<1>2. \A j \in Ids : inbox'[j] = IF j = i THEN outcome ELSE inbox[j]
  BY <1>1 DEF Sound, TypeOK
<1>3. ~stalled' => ~stalled /\ turn' = rest
  BY <1>1, GoesOn DEF Sound
<1>4. Cautious'
  BY <1>3 DEF Cautious, Doing
<1>5. ASSUME ~stalled', restarts = 0
      PROVE  PendingHeard' /\ GoneLeaves' /\ ParkHasReason' /\ ParkedHasReason'
  <2>1. /\ PendingHeard
        /\ \A t \in Sids : state[t] = "waiting_on_user" =>
             agent[native[t]] # "gone" /\ WhyParked(t)
    BY <1>1, <1>3, <1>5, FreeLoopParks
  <2>2. PendingHeard'
    BY <1>1, <1>2, <2>1 DEF PendingHeard
  <2>3. GoneLeaves'
    BY <1>1, <2>1 DEF GoneLeaves
  <2>4. ParkHasReason'
    BY <1>4, <1>5 DEF ParkHasReason, Parks, Cautious
  <2>5. ParkedHasReason'
    <3> SUFFICES ASSUME NEW t \in Sids, state[t] = "waiting_on_user" PROVE WhyParked(t)'
      BY <1>1 DEF ParkedHasReason
    <3>1. PICK j \in Ids : /\ ask[j] # None /\ ask[j].sid = t
                           /\ inbox[j] \in {"pending", "timed_out", "cancelled"} \/ j \in waiting
      BY <2>1 DEF WhyParked
    <3>2. CASE j # i
      <4>1. ask'[j] = ask[j] /\ inbox'[j] = inbox[j] /\ (j \in waiting => j \in waiting')
        BY <1>1, <1>2, <3>2
      <4>2. QED
        BY <3>1, <4>1 DEF WhyParked
    <3>3. CASE j = i
      <4>1. i \in waiting
        BY <1>1, <2>1, <3>1, <3>3 DEF PendingHeard
      <4>2. inbox'[j] \in {"pending", "timed_out", "cancelled"} \/ j \in waiting'
        BY <1>2, <3>3, <4>1
      <4>3. QED
        BY <1>1, <3>1, <4>2 DEF WhyParked
    <3>4. QED
      BY <3>2, <3>3
  <2>6. QED
    BY <2>2, <2>3, <2>4, <2>5
<1>6. QED
  BY <1>1, <1>3, <1>4, <1>5 DEF ParkingSound

LEMMA AnswerKeepsParking ==
  ASSUME Sound, ParkingSound, NEW i \in Ids,
         Answer(i) \/ Withdraw(i) \/ \E permission \in BOOLEAN : TimeOut(i, permission)
  PROVE  ParkingSound' /\ Cautious'
<1> DEFINE one == <<Deliver(i)>>
<1>1. Head(one).do = "deliver"
  BY StepFields
<1>2. \/ Settle(i, "answered", one) /\ waiting' = waiting
      \/ Settle(i, "timed_out", one) /\ waiting' = waiting
      \/ Settle(i, "timed_out", <<>>) /\ waiting' = waiting
      \/ Settle(i, "cancelled", <<>>) /\ waiting' = waiting \ {i}
  BY DEF Answer, Withdraw, TimeOut
<1> HIDE DEF one
<1>3. CASE Settle(i, "answered", one) /\ waiting' = waiting
  BY <1>1, <1>3, SettleKeepsParking
<1>4. CASE Settle(i, "timed_out", one) /\ waiting' = waiting
  BY <1>1, <1>4, SettleKeepsParking
<1>5. CASE Settle(i, "timed_out", <<>>) /\ waiting' = waiting
  BY <1>5, SettleKeepsParking
<1>6. CASE Settle(i, "cancelled", <<>>) /\ waiting' = waiting \ {i}
  BY <1>6, SettleKeepsParking
<1>7. QED
  BY <1>2, <1>3, <1>4, <1>5, <1>6

\* An agent stops waiting, and its session is taken out of the parked state.
LEMMA ResumeKeepsParking ==
  ASSUME Sound, ParkingSound, NEW i \in Ids, inbox[i] # "pending", NEW why,
         why \notin {"discovery", "discovered"},
         Begin(<<Observe(ask[i].sid, "running", why)>>),
         UNCHANGED <<agent, inbox, ask, restarts>>, waiting' = waiting \ {i}
  PROVE  ParkingSound' /\ Cautious'
<1>1. /\ UNCHANGED <<native, state, stalled>> /\ turn = <<>>
      /\ turn' = <<Observe(ask[i].sid, "running", why)>>
  BY DEF Begin, Free, registry
<1>2. /\ Cautious' /\ Doing("observe")' /\ Head(turn').sid = ask[i].sid /\ Head(turn').to = "running"
  BY <1>1, BeginIsCautious
<1>3. ASSUME ~stalled, restarts = 0
      PROVE  PendingHeard' /\ GoneLeaves' /\ ParkHasReason' /\ ParkedHasReason'
  <2>1. /\ PendingHeard
        /\ \A t \in Sids : state[t] = "waiting_on_user" =>
             agent[native[t]] # "gone" /\ WhyParked(t)
    BY <1>1, <1>3, FreeLoopParks
  <2>2. PendingHeard'
    BY <1>1, <2>1 DEF PendingHeard
  <2>3. GoneLeaves'
    BY <1>1, <2>1 DEF GoneLeaves
  <2>4. ParkHasReason'
    BY <1>2 DEF ParkHasReason, Parks
  <2>5. ParkedHasReason'
    <3> SUFFICES ASSUME NEW t \in Sids, state[t] = "waiting_on_user" PROVE WhyParked(t)' \/ Leaving(t)'
      BY <1>1 DEF ParkedHasReason
    <3>1. PICK j \in Ids : /\ ask[j] # None /\ ask[j].sid = t
                           /\ inbox[j] \in {"pending", "timed_out", "cancelled"} \/ j \in waiting
      BY <2>1 DEF WhyParked
    <3>2. CASE j # i
      BY <3>1, <3>2 DEF WhyParked
    <3>3. CASE j = i
      BY <1>2, <3>1, <3>3 DEF Leaving
    <3>4. QED
      BY <3>2, <3>3
  <2>6. QED
    BY <2>2, <2>3, <2>4, <2>5
<1>4. QED
  BY <1>1, <1>2, <1>3 DEF ParkingSound

LEMMA InteractionClosedKeepsParking ==
  ASSUME Sound, ParkingSound, NEW i \in Ids, InteractionClosed(i)
  PROVE  ParkingSound' /\ Cautious'
<1> DEFINE one == <<Observe(ask[i].sid, "running", "interaction_closed")>>
<1>1. Head(one).to = "running" /\ Head(one).why = "interaction_closed"
  BY StepFields
<1>2. waiting' = waiting \ {i}
  BY DEF InteractionClosed
<1>3. \/ Settle(i, "cancelled", one)
      \/ /\ inbox[i] # "pending"
         /\ Begin(one)
         /\ UNCHANGED <<world, watched, inbox, ask, responding, restarts>>
  BY DEF InteractionClosed, Resume
<1>4. CASE Settle(i, "cancelled", one)
  <2> HIDE DEF one
  <2>1. QED
    BY <1>1, <1>2, <1>4, SettleKeepsParking
<1>5. CASE /\ inbox[i] # "pending"
           /\ Begin(one)
           /\ UNCHANGED <<world, watched, inbox, ask, responding, restarts>>
  <2>1. UNCHANGED agent
    BY <1>5 DEF world
  <2>2. QED
    BY <1>2, <1>5, <2>1, ResumeKeepsParking
<1>6. QED
  BY <1>3, <1>4, <1>5

LEMMA RespondReturnsKeepsParking ==
  ASSUME Sound, InboxKnows, ParkingSound, NEW i \in Ids, RespondReturns(i)
  PROVE  ParkingSound' /\ Cautious'
<1>1. inbox[i] # "pending"
  BY DEF RespondReturns, InboxKnows
<1>2. /\ Begin(<<Observe(ask[i].sid, "running", "interaction_resolved")>>)
      /\ UNCHANGED <<agent, inbox, ask, restarts>> /\ waiting' = waiting \ {i}
  BY DEF RespondReturns, Resume, world
<1>3. QED
  BY <1>1, <1>2, ResumeKeepsParking

\* An agent goes, and its session is taken to an end state.
LEMMA AgentGoesKeepsParking ==
  ASSUME Sound, ParkingSound, NEW n \in Natives, Terminate(n) \/ AgentFails(n)
  PROVE  ParkingSound' /\ Cautious'
<1>1. byNative[n] # None
  BY DEF Terminate, AgentFails, Sound, AgentsKnown
<1>2. PICK s \in Sids : s = byNative[n] /\ native[s] = n
  BY <1>1, KnownNative
<1>3. PICK to \in {"stopped", "failed"}, why \in {"terminated", "sdk"} :
        turn' = <<Observe(s, to, why)>>
  BY <1>2 DEF Terminate, AgentFails, Begin
<1>4. /\ Cautious' /\ Doing("observe")' /\ Head(turn').sid = s /\ Head(turn').to = to
  BY <1>3, BeginIsCautious
<1>5. /\ UNCHANGED <<native, state, stalled, inbox, ask, restarts>> /\ turn = <<>>
      /\ agent' = [agent EXCEPT ![n] = "gone"]
      /\ waiting' \in {waiting, waiting \ Blocked(n)}
  BY DEF Terminate, AgentFails, Begin, Free, registry, desk
<1>6. \A m \in Natives : agent'[m] = IF m = n THEN "gone" ELSE agent[m]
  BY <1>5 DEF Sound, TypeOK
<1>7. \A t \in Sids : state[t] # "unknown" => native[t] \in Natives /\ (native[t] = n => t = s)
  BY <1>2, KnownHasNative DEF Sound, OneSessionPerNative
<1>8. ASSUME ~stalled, restarts = 0
      PROVE  PendingHeard' /\ GoneLeaves' /\ ParkHasReason' /\ ParkedHasReason'
  <2>1. /\ PendingHeard
        /\ \A t \in Sids : state[t] = "waiting_on_user" =>
             agent[native[t]] # "gone" /\ WhyParked(t)
    BY <1>5, <1>8, FreeLoopParks
  <2>2. PendingHeard'
    <3> SUFFICES ASSUME NEW i \in Ids, inbox[i] = "pending", i \notin waiting'
                 PROVE  agent'[native[ask[i].sid]] = "gone"
      BY <1>5 DEF PendingHeard
    <3>1. PICK t \in Sids : t = ask[i].sid /\ state[t] # "unknown"
      BY AskedIsKnown
    <3>2. native[t] \in Natives
      BY <1>7, <3>1
    <3>3. agent[native[t]] = "gone" \/ i \in Blocked(n)
      BY <1>5, <2>1, <3>1 DEF PendingHeard
    <3>4. QED
      BY <1>6, <3>1, <3>2, <3>3 DEF Blocked
  <2>3. GoneLeaves'
    <3> SUFFICES ASSUME NEW t \in Sids, state[t] = "waiting_on_user", agent'[native[t]] = "gone"
                 PROVE  Ends(t)'
      BY <1>5 DEF GoneLeaves
    <3>1. t = s
      BY <1>6, <1>7, <2>1
    <3>2. QED
      BY <1>4, <3>1 DEF Ends
  <2>4. ParkHasReason'
    BY <1>4 DEF ParkHasReason, Parks
  <2>5. ParkedHasReason'
    <3> SUFFICES ASSUME NEW t \in Sids, state[t] = "waiting_on_user" PROVE WhyParked(t)' \/ Leaving(t)'
      BY <1>5 DEF ParkedHasReason
    <3>1. PICK j \in Ids : /\ ask[j] # None /\ ask[j].sid = t
                           /\ inbox[j] \in {"pending", "timed_out", "cancelled"} \/ j \in waiting
      BY <2>1 DEF WhyParked
    <3>2. CASE j \in Blocked(n)
      <4>1. t = s
        BY <1>7, <3>1, <3>2 DEF Blocked
      <4>2. QED
        BY <1>4, <4>1 DEF Leaving
    <3>3. CASE j \notin Blocked(n)
      <4>1. j \in waiting => j \in waiting'
        BY <1>5, <3>3
      <4>2. QED
        BY <1>5, <3>1, <4>1 DEF WhyParked
    <3>4. QED
      BY <3>2, <3>3
  <2>6. QED
    BY <2>2, <2>3, <2>4, <2>5
<1>9. QED
  BY <1>4, <1>5, <1>8 DEF ParkingSound

\* A hook's answer resumes its session unless it is none; the agent asked
\* through the SDK goes on waiting while adapter.respond() is under way.
LEMMA DeliverKeepsParking ==
  ASSUME Sound, ParkingSound, DeliverAnswer
  PROVE  ParkingSound' /\ Cautious'
<1>1. turn # <<>> /\ Head(turn).do = "deliver"
  BY DEF DeliverAnswer, Doing
<1>2. PICK i \in Ids : i = Head(turn).id /\ inbox[i] \in {"answered", "timed_out"}
  BY <1>1, NextStep, StepOfKind
<1>3. PICK tail \in Seq(Steps) : tail = Tail(turn) /\ Trailing(tail)
  BY <1>1, NextStep
<1>4. UNCHANGED <<native, state, agent, inbox, ask, restarts, stalled>>
  BY DEF DeliverAnswer, registry, world
<1>5. \/ waiting' = waiting \ {i} /\ inbox[i] # "answered" /\ turn' = tail
      \/ /\ waiting' = waiting \ {i} /\ inbox[i] = "answered"
         /\ turn' = <<Observe(ask[i].sid, "running", "interaction_resolved")>> \o tail
      \/ waiting' = waiting /\ turn' = <<>>
  BY <1>2, <1>3 DEF DeliverAnswer, Resume
<1>6. ~Doing("observe")
  BY <1>1 DEF Doing
<1>7. CASE waiting' = waiting /\ turn' = <<>>
  <2>1. Cautious'
    BY <1>7, IdleIsCautious
  <2>2. QED
    BY <1>4, <1>6, <1>7, <2>1, CalmKeepsParking
<1>8. ASSUME waiting' = waiting \ {i}, Cautious',
             inbox[i] = "timed_out" \/ (Doing("observe")' /\ Head(turn').sid = ask[i].sid /\ Head(turn').to = "running")
      PROVE  ParkingSound'
  <2> SUFFICES ASSUME ~stalled, restarts = 0
               PROVE  PendingHeard' /\ GoneLeaves' /\ ParkHasReason' /\ ParkedHasReason'
    BY <1>4 DEF ParkingSound
  <2>1. /\ PendingHeard
        /\ \A t \in Sids : state[t] = "waiting_on_user" =>
             agent[native[t]] # "gone" /\ WhyParked(t)
    BY <1>1, FreeLoopParks
  <2>2. PendingHeard'
    BY <1>2, <1>4, <1>8, <2>1 DEF PendingHeard
  <2>3. GoneLeaves'
    BY <1>4, <2>1 DEF GoneLeaves
  <2>4. ParkHasReason'
    BY <1>4, <1>8 DEF ParkHasReason, Parks, Cautious
  <2>5. ParkedHasReason'
    <3> SUFFICES ASSUME NEW t \in Sids, state[t] = "waiting_on_user" PROVE WhyParked(t)' \/ Leaving(t)'
      BY <1>4 DEF ParkedHasReason
    <3>1. PICK j \in Ids : /\ ask[j] # None /\ ask[j].sid = t
                           /\ inbox[j] \in {"pending", "timed_out", "cancelled"} \/ j \in waiting
      BY <2>1 DEF WhyParked
    <3>2. CASE j # i \/ inbox[i] = "timed_out"
      BY <1>4, <1>8, <3>1, <3>2 DEF WhyParked
    <3>3. CASE j = i /\ inbox[i] # "timed_out"
      BY <1>8, <3>1, <3>3 DEF Leaving
    <3>4. QED
      BY <3>2, <3>3
  <2>6. QED
    BY <2>2, <2>3, <2>4, <2>5
<1>9. CASE waiting' = waiting \ {i} /\ inbox[i] # "answered" /\ turn' = tail
  <2>1. turn' = <<>> \/ Head(turn').do # "observe"
    BY <1>3, <1>9, TrailingIsIdle
  <2>2. Cautious'
    BY <2>1, IdleIsCautious
  <2>3. QED
    BY <1>2, <1>8, <1>9, <2>2
<1>10. CASE /\ waiting' = waiting \ {i} /\ inbox[i] = "answered"
            /\ turn' = <<Observe(ask[i].sid, "running", "interaction_resolved")>> \o tail
  <2>1. ask[i].sid \in Sids
    BY <1>1, <1>2, NextStep, AskTyped DEF Sound
  <2> DEFINE x == Observe(ask[i].sid, "running", "interaction_resolved")
  <2>2. /\ x \in Steps /\ x.do = "observe" /\ x.sid = ask[i].sid /\ x.to = "running"
        /\ x.why = "interaction_resolved"
    <3>1. "interaction_resolved" \in Reasons /\ "running" \in States
      BY DEF Reasons, States
    <3>2. QED
      BY <2>1, <3>1, StepsTyped, StepFields
  <2>3. turn' = <<x>> \o tail
    BY <1>10
  <2> HIDE DEF x
  <2>4. turn' # <<>> /\ Head(turn') = x
    BY <1>3, <2>2, <2>3, StepBefore
  <2>5. Cautious' /\ Doing("observe")' /\ Head(turn').sid = ask[i].sid /\ Head(turn').to = "running"
    BY <2>2, <2>4 DEF Cautious, Doing
  <2>6. QED
    BY <1>8, <1>10, <2>5
<1>11. QED
  BY <1>5, <1>7, <1>9, <1>10

\* The observation itself.
LEMMA ObserveStateKeepsParking ==
  ASSUME Sound, ParkingSound, ObserveState, UNCHANGED <<world, watched, desk, restarts>>
  PROVE  ParkingSound' /\ Cautious'
<1>1. /\ turn # <<>> /\ Head(turn).do = "observe" /\ Doing("observe")
      /\ UNCHANGED <<native, agent, inbox, ask, waiting, restarts>>
  BY DEF ObserveState, Doing, world, desk
<1>2. PICK tail \in Seq(Steps) : tail = Tail(turn) /\ Trailing(tail)
  BY <1>1, NextStep
<1>3. PICK s \in Sids, to \in States : s = Head(turn).sid /\ to = Head(turn).to
                                       /\ state[s] # "unknown" /\ state[s] \in States
  BY <1>1, NextStep, StepOfKind, KnownHasNative
<1>4. \/ to = state[s] /\ UNCHANGED state /\ Quiet(tail)
      \/ to # state[s] /\ to \notin Legal[state[s]] /\ UNCHANGED state /\ Publish(Other, AfterRaise(tail))
      \/ /\ to # state[s] /\ to \in Legal[state[s]] /\ state' = [state EXCEPT ![s] = to]
         /\ \E e : \/ Publish(e, tail)
                   \/ Publish(e, <<Announce(s)>> \o tail)
  BY <1>2, <1>3 DEF ObserveState, Quiet
<1>5. ~stalled' => ~stalled /\ (turn' = <<>> \/ Head(turn').do # "observe")
  <2>1. ~stalled' => ~stalled /\ turn' \in {tail, AfterRaise(tail), <<Announce(s)>> \o tail}
    BY <1>4, GoesOn DEF Sound
  <2>2. tail = <<>> \/ Head(tail).do # "observe"
    BY <1>2, TrailingIsIdle
  <2>3. AfterRaise(tail) = <<>> \/ Head(AfterRaise(tail)).do # "observe"
    BY <1>2, ReturnAfterRaise, TrailingIsIdle
  <2>4. <<Announce(s)>> \o tail # <<>> /\ Head(<<Announce(s)>> \o tail).do # "observe"
    BY <1>2, StepsTyped, StepFields, StepBefore
  <2>5. QED
    BY <2>1, <2>2, <2>3, <2>4
<1>6. Cautious' /\ (~stalled' => ~Doing("observe")')
  BY <1>5 DEF Cautious, Doing
<1>7. /\ \A t \in Sids : t # s => state'[t] = state[t]
      /\ state'[s] = IF to \in Legal[state[s]] THEN to ELSE state[s]
  <2>1. state[s] \notin Legal[state[s]]
    BY <1>3 DEF Legal, States, EndStates
  <2>2. CASE UNCHANGED state
    BY <1>4, <2>1, <2>2 DEF Sound, TypeOK
  <2>3. CASE state' = [state EXCEPT ![s] = to] /\ to \in Legal[state[s]]
    BY <2>3 DEF Sound, TypeOK
  <2>4. QED
    BY <1>4, <2>1, <2>2, <2>3
<1>8. /\ "running" \in Legal["waiting_on_user"] /\ "stopped" \in Legal["waiting_on_user"]
      /\ "failed" \in Legal["waiting_on_user"]
  BY DEF Legal, States, EndStates
<1>9. ASSUME ~stalled', restarts = 0
      PROVE  PendingHeard' /\ GoneLeaves' /\ ParkHasReason' /\ ParkedHasReason'
  <2>1. PendingHeard /\ GoneLeaves /\ ParkHasReason /\ ParkedHasReason
    BY <1>5, <1>9 DEF ParkingSound
  <2>2. PendingHeard'
    BY <1>1, <2>1 DEF PendingHeard
  <2>3. \A t \in Sids : state'[t] = "waiting_on_user" => agent[native[t]] # "gone" /\ WhyParked(t)
    <3> SUFFICES ASSUME NEW t \in Sids, state'[t] = "waiting_on_user"
                 PROVE  agent[native[t]] # "gone" /\ WhyParked(t)
      OBVIOUS
    <3>1. CASE t # s
      <4>1. state[t] = "waiting_on_user" /\ ~Ends(t) /\ ~Leaving(t)
        BY <1>3, <1>7, <3>1 DEF Ends, Leaving
      <4>2. QED
        BY <2>1, <4>1 DEF GoneLeaves, ParkedHasReason
    <3>2. CASE t = s /\ to = "waiting_on_user"
      <4>1. Parks(s)
        BY <1>1, <1>3, <3>2 DEF Parks
      <4>2. QED
        BY <2>1, <3>2, <4>1 DEF ParkHasReason
    <3>3. CASE t = s /\ to # "waiting_on_user"
      <4>1. state[s] = "waiting_on_user" /\ to \notin {"running", "stopped", "failed"}
        BY <1>7, <1>8, <3>3
      <4>2. ~Ends(s) /\ ~Leaving(s)
        BY <1>3, <4>1 DEF Ends, Leaving
      <4>3. QED
        BY <2>1, <3>3, <4>1, <4>2 DEF GoneLeaves, ParkedHasReason
    <3>4. QED
      BY <3>1, <3>2, <3>3
  <2>4. GoneLeaves'
    BY <1>1, <2>3 DEF GoneLeaves
  <2>5. ParkHasReason'
    BY <1>6, <1>9 DEF ParkHasReason, Parks
  <2>6. ParkedHasReason'
    <3> SUFFICES ASSUME NEW t \in Sids, state'[t] = "waiting_on_user" PROVE WhyParked(t)'
      BY DEF ParkedHasReason
    <3>1. WhyParked(t)
      BY <2>3
    <3>2. QED
      BY <1>1, <3>1 DEF WhyParked
  <2>7. QED
    BY <2>2, <2>4, <2>5, <2>6
<1>10. QED
  BY <1>1, <1>6, <1>9 DEF ParkingSound

\* What is opened is not unknown again, and is answered or over before it is
\* delivered.
LEMMA InboxStaysKnown ==
  ASSUME Sound, InboxKnows, [Next]_vars
  PROVE  InboxKnows'
<1>1. CASE UNCHANGED desk
  BY <1>1 DEF InboxKnows, desk
<1>2. CASE \E n \in Natives, i \in Ids : OpenInteraction(n, i)
  BY <1>2 DEF OpenInteraction, InboxKnows, Sound, TypeOK
<1>3. CASE /\ \E i \in Ids, outcome \in {"answered", "timed_out", "cancelled"} : \E rest : Settle(i, outcome, rest)
           /\ waiting' \subseteq waiting
  BY <1>3 DEF Settle, InboxKnows, Sound, TypeOK
<1>4. CASE UNCHANGED inbox /\ waiting' \subseteq waiting /\ responding' \subseteq responding
  BY <1>4 DEF InboxKnows
<1>5. CASE DeliverAnswer
  <2>1. turn # <<>> /\ Head(turn).do = "deliver"
    BY <1>5 DEF DeliverAnswer, Doing
  <2>2. inbox[Head(turn).id] \in {"answered", "timed_out"}
    BY <2>1, NextStep
  <2>3. /\ UNCHANGED inbox /\ waiting' \subseteq waiting
        /\ responding' \subseteq responding \cup {Head(turn).id}
    BY <1>5 DEF DeliverAnswer
  <2>4. QED
    BY <2>2, <2>3 DEF InboxKnows
<1>6. CASE Restart
  BY <1>6 DEF Restart, InboxKnows
<1>7. CASE UNCHANGED vars
  BY <1>1, <1>7 DEF vars
<1>8. ASSUME RegistryStep \/ EnsureWatch \/ WatchReturns PROVE UNCHANGED desk
  BY <1>8 DEF RegistryStep, EnsureWatch, WatchReturns
<1>9. ASSUME NEW n \in Natives,
             \/ AgentWrites(n) \/ TranscriptAges(n) \/ AgentStarts(n) \/ LaunchReturns(n)
             \/ \E refreshed \in BOOLEAN : Discover(n, refreshed)
             \/ WatchSeesActivity(n) \/ WatchCatchesUp(n) \/ WatchEnds(n) \/ AgentFails(n)
      PROVE  UNCHANGED desk
  BY <1>9 DEF AgentWrites, TranscriptAges, AgentStarts, LaunchReturns, Discover,
              WatchSeesActivity, WatchCatchesUp, WatchEnds, AgentFails
<1>10. ASSUME NEW n \in Natives, Terminate(n)
       PROVE  UNCHANGED inbox /\ waiting' \subseteq waiting /\ responding' \subseteq responding
  BY <1>10 DEF Terminate
<1>11. ASSUME NEW i \in Ids, RespondReturns(i) \/ RespondFails(i)
       PROVE  UNCHANGED inbox /\ waiting' \subseteq waiting /\ responding' \subseteq responding
  BY <1>11 DEF RespondReturns, RespondFails
<1>12. ASSUME NEW i \in Ids,
              Answer(i) \/ Withdraw(i) \/ \E permission \in BOOLEAN : TimeOut(i, permission)
       PROVE  /\ \E outcome \in {"answered", "timed_out", "cancelled"} : \E rest : Settle(i, outcome, rest)
              /\ waiting' \subseteq waiting
  BY <1>12 DEF Answer, Withdraw, TimeOut
<1>13. ASSUME NEW i \in Ids, InteractionClosed(i)
       PROVE  InboxKnows'
  BY <1>3, <1>4, <1>13 DEF InteractionClosed
<1>14. ASSUME NEW s \in Sids, Archive(s) \/ SetModel(s) PROVE UNCHANGED desk
  BY <1>14 DEF Archive, SetModel
<1>15. QED
  BY <1>1, <1>2, <1>3, <1>4, <1>5, <1>6, <1>7, <1>8, <1>9, <1>10, <1>11, <1>12, <1>13, <1>14
     DEF Next

Parked == Sound /\ InboxKnows /\ DiscoveryLooksAway /\ ParkingSound

\* A restart, and a handler that comes back from a full queue, end the calm.
LEMMA CalmIsOver ==
  ASSUME Sound, Restart \/ \E c \in suspended : PublishReturns(c) /\ UNCHANGED <<world, watched, desk, restarts>>
  PROVE  ParkingSound' /\ DiscoveryLooksAway'
<1>1. CASE Restart
  BY <1>1 DEF Restart, RebuildRegistry, ParkingSound, DiscoveryLooksAway, Doing, Sound, TypeOK
<1>2. CASE \E c \in suspended : PublishReturns(c) /\ UNCHANGED <<world, watched, desk, restarts>>
  <2>1. stalled'
    BY <1>2, ReturnLogs DEF Sound
  <2>2. QED
    BY <2>1 DEF ParkingSound, DiscoveryLooksAway
<1>3. QED
  BY <1>1, <1>2

LEMMA NextKeepsParking ==
  ASSUME Parked, Next
  PROVE  ParkingSound' /\ DiscoveryLooksAway'
<1>0. Sound /\ InboxKnows /\ ParkingSound
  BY DEF Parked
<1>1. CASE RegistryStep
  <2>1. UNCHANGED <<world, watched, desk, restarts>>
    BY <1>1 DEF RegistryStep
  <2>2. CASE ObserveState
    BY <1>0, <2>1, <2>2, ObserveStateKeepsParking, CautiousLooksAwayNext
  <2>3. CASE PublishLifecycle
    BY <1>0, <2>1, <2>3, TrailingStepKeepsParking, CautiousLooksAwayNext
  <2>4. CASE ApplyHint
    BY <1>0, <2>1, <2>4, ApplyHintKeepsParking, CautiousLooksAwayNext
  <2>5. CASE Record
    BY <1>0, <2>1, <2>5, SetModelKeepsParking, CautiousLooksAwayNext
  <2>6. CASE \E c \in suspended : PublishReturns(c)
    BY <1>0, <2>1, <2>6, CalmIsOver
  <2>7. QED
    BY <1>1, <2>2, <2>3, <2>4, <2>5, <2>6 DEF RegistryStep
<1>2. CASE EnsureWatch \/ WatchReturns
  BY <1>0, <1>2, TrailingStepKeepsParking, CautiousLooksAwayNext
<1>3. CASE DeliverAnswer
  BY <1>0, <1>3, DeliverKeepsParking, CautiousLooksAwayNext
<1>4. ASSUME NEW n \in Natives,
             AgentWrites(n) \/ TranscriptAges(n) \/ AgentStarts(n) \/ WatchCatchesUp(n)
      PROVE  ParkingSound' /\ DiscoveryLooksAway'
  BY <1>0, <1>4, AgentWritesKeepsParking, CautiousLooksAwayNext
<1>5. ASSUME NEW n \in Natives, LaunchReturns(n) \/ \E refreshed \in BOOLEAN : Discover(n, refreshed)
      PROVE  ParkingSound' /\ DiscoveryLooksAway'
  BY <1>0, <1>5, DiscoverKeepsParking, CautiousLooksAwayNext
<1>6. CASE \/ \E n \in Natives : WatchSeesActivity(n) \/ WatchEnds(n)
           \/ \E s \in Sids : Archive(s)
  BY <1>0, <1>6, BeginKeepsParking, CautiousLooksAwayNext
<1>7. ASSUME NEW n \in Natives, Terminate(n) \/ AgentFails(n)
      PROVE  ParkingSound' /\ DiscoveryLooksAway'
  BY <1>0, <1>7, AgentGoesKeepsParking, CautiousLooksAwayNext
<1>8. ASSUME NEW n \in Natives, NEW i \in Ids, OpenInteraction(n, i)
      PROVE  ParkingSound' /\ DiscoveryLooksAway'
  BY <1>0, <1>8, OpenInteractionKeepsParking
<1>9. ASSUME NEW i \in Ids,
             Answer(i) \/ Withdraw(i) \/ \E permission \in BOOLEAN : TimeOut(i, permission)
      PROVE  ParkingSound' /\ DiscoveryLooksAway'
  BY <1>0, <1>9, AnswerKeepsParking, CautiousLooksAwayNext
<1>10. ASSUME NEW i \in Ids, InteractionClosed(i)
       PROVE  ParkingSound' /\ DiscoveryLooksAway'
  BY <1>0, <1>10, InteractionClosedKeepsParking, CautiousLooksAwayNext
<1>11. ASSUME NEW i \in Ids, RespondReturns(i)
       PROVE  ParkingSound' /\ DiscoveryLooksAway'
  BY <1>0, <1>11, RespondReturnsKeepsParking, CautiousLooksAwayNext
<1>12. CASE (\E i \in Ids : RespondFails(i)) \/ \E s \in Sids : SetModel(s)
  BY <1>0, <1>12, SetModelKeepsParking, CautiousLooksAwayNext
<1>13. CASE Restart
  BY <1>0, <1>13, CalmIsOver
<1>14. QED
  BY <1>1, <1>2, <1>3, <1>4, <1>5, <1>6, <1>7, <1>8, <1>9, <1>10, <1>11, <1>12, <1>13 DEF Next

LEMMA InitParked == Init => Parked
<1> SUFFICES ASSUME Init PROVE Parked
  OBVIOUS
<1>1. turn = <<>> /\ waiting = {} /\ responding = {}
      /\ (\A i \in Ids : inbox[i] = "unknown") /\ (\A s \in Sids : state[s] = "unknown")
  BY DEF Init, RegistryInit
<1>2. InboxKnows /\ DiscoveryLooksAway /\ ParkingSound
  BY <1>1 DEF InboxKnows, DiscoveryLooksAway, ParkingSound, PendingHeard, GoneLeaves, ParkHasReason,
              ParkedHasReason, Parks, Doing
<1>3. QED
  BY <1>2, InitSound DEF Parked

LEMMA StepKeepsParked ==
  ASSUME Parked, [Next]_vars
  PROVE  Parked'
<1>1. Sound' /\ InboxKnows'
  BY NextKeepsSound, StutterKeepsSound, InboxStaysKnown DEF Parked
<1>2. CASE Next
  BY <1>1, <1>2, NextKeepsParking DEF Parked
<1>3. CASE UNCHANGED vars
  <2>1. UNCHANGED <<native, state, turn, stalled, agent, inbox, ask, waiting, restarts>>
    BY <1>3 DEF vars, registry, loop, world, desk
  <2>2. DiscoveryLooksAway'
    BY <2>1 DEF Parked, DiscoveryLooksAway, Doing
  <2>3. ParkingSound'
    BY <2>1 DEF Parked, ParkingSound, PendingHeard, GoneLeaves, ParkHasReason, ParkedHasReason,
                Parks, Ends, Leaving, WhyParked, Doing
  <2>4. QED
    BY <1>1, <2>2, <2>3 DEF Parked
<1>4. QED
  BY <1>2, <1>3

LEMMA AlwaysParked == Spec => []Parked
<1>1. Parked /\ [Next]_vars => Parked'
  BY StepKeepsParked
<1>2. QED
  BY <1>1, InitParked, PTL DEF Spec

\* A session is not left parked by an answer that reached its agent.
THEOREM ParkedMeansAsked == Spec => []ParkedForAReason
<1>1. Parked => ParkedForAReason
  <2> SUFFICES ASSUME Parked, NEW s \in Sids,
                      turn = <<>>, ~stalled, restarts = 0, state[s] = "waiting_on_user"
               PROVE  WhyParked(s)
    BY DEF ParkedForAReason, WhyParked
  <2>1. QED
    BY FreeLoopParks DEF Parked
<1>2. QED
  BY <1>1, AlwaysParked, PTL

\* An observation is made by nobody but the handler that has the loop.
LEMMA ObservationHasTheLoop ==
  ASSUME Next, Doing("observe")
  PROVE  ObserveState
<1>0. turn # <<>> /\ Head(turn).do = "observe"
  BY DEF Doing
<1>1. ~Free
  BY <1>0 DEF Free
<1>2. ~RegistryStep \/ ObserveState
  BY <1>0 DEF RegistryStep, PublishLifecycle, ApplyHint, Record, PublishReturns, Doing
<1>3. ~EnsureWatch /\ ~WatchReturns /\ ~DeliverAnswer /\ ~Restart
  BY <1>0 DEF EnsureWatch, WatchReturns, DeliverAnswer, Restart, Doing
<1>4. ASSUME NEW n \in Natives
      PROVE  /\ ~AgentWrites(n) /\ ~TranscriptAges(n) /\ ~AgentStarts(n) /\ ~LaunchReturns(n)
             /\ \A refreshed \in BOOLEAN : ~Discover(n, refreshed)
             /\ ~WatchSeesActivity(n) /\ ~WatchCatchesUp(n) /\ ~WatchEnds(n)
             /\ ~Terminate(n) /\ ~AgentFails(n)
             /\ \A i \in Ids : ~OpenInteraction(n, i)
  BY <1>1 DEF AgentWrites, TranscriptAges, AgentStarts, LaunchReturns, Discover, WatchSeesActivity,
              WatchCatchesUp, WatchEnds, Terminate, AgentFails, OpenInteraction, Begin
<1>5. ASSUME NEW i \in Ids
      PROVE  /\ ~Answer(i) /\ ~Withdraw(i) /\ ~InteractionClosed(i)
             /\ \A permission \in BOOLEAN : ~TimeOut(i, permission)
             /\ ~RespondReturns(i) /\ ~RespondFails(i)
  BY <1>1 DEF Answer, Withdraw, InteractionClosed, TimeOut, RespondReturns, RespondFails, Settle, Begin
<1>6. ASSUME NEW s \in Sids PROVE ~Archive(s) /\ ~SetModel(s)
  BY <1>1 DEF Archive, SetModel, Refresh, Begin
<1>7. QED
  BY <1>2, <1>3, <1>4, <1>5, <1>6 DEF Next

\* Discovery never un-parks a session.
THEOREM DiscoveryLeavesParked == Spec => DiscoveryNeverUnparks
<1> DEFINE Step == \A s \in Sids :
                     /\ ~stalled
                     /\ Doing("observe")
                     /\ state[s] = "waiting_on_user"
                     /\ state'[s] # state[s]
                     => Head(turn).why \notin {"discovery", "discovered"}
<1>1. Parked /\ [Next]_vars => [Step]_vars
  <2> SUFFICES ASSUME Parked, Next, NEW s \in Sids, ~stalled, Doing("observe"),
                      state[s] = "waiting_on_user", state'[s] # state[s],
                      Head(turn).why \in {"discovery", "discovered"}
               PROVE  FALSE
    BY DEF Step
  <2>1. ObserveState
    BY ObservationHasTheLoop
  <2>2. s = Head(turn).sid
    BY <2>1 DEF ObserveState, Parked, Sound, TypeOK
  <2>3. QED
    BY <2>2 DEF Parked, DiscoveryLooksAway
<1>2. QED
  BY <1>1, AlwaysParked, PTL DEF Spec, DiscoveryNeverUnparks, Step

=============================================================================
