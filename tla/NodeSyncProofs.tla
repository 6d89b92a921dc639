---------------------------- MODULE NodeSyncProofs ----------------------------
(***************************************************************************)
(* Proofs about NodeSync, for any machines, page size, queue capacity and  *)
(* length of the node's log: the hub's copy of the facts of a node has no  *)
(* holes, and no fact is folded before every earlier one has been.         *)
(*                                                                         *)
(* Neither is inductive.  A fact reaches the store by way of a batch and   *)
(* the recorder's queue, and the cursor of a new loop is read off the      *)
(* store, so the proof follows the facts that are on record, stored or on  *)
(* the queue: what is on the queue completes what is stored (QueueNoGaps), *)
(* every fact that a loop has behind it is on record (LoopCovered), and    *)
(* every fact on record has been folded since the hub booted               *)
(* (RecordFolded, LoopFolded).                                             *)
(***************************************************************************)
EXTENDS NodeSync, PositionLemmas

\* The positions the hub holds, or will hold when its recorder has drained.
OnRecord == stored \cup {queue[k] : k \in DOMAIN queue}

\* Every fact before position n is on record.
Covered(n) == \A q \in OwnFacts : q < n => q \in OnRecord

\* Nothing runs ahead of the node's log.
HubBounded ==
  /\ \A k \in DOMAIN queue : queue[k] <= Len(log)
  /\ \A p \in stored : p <= Len(log)
  /\ view <= Len(log)
  /\ furthest <= Len(log)

\* Whatever is stored, every earlier fact is stored too.
StoredNoGaps == \A q \in stored : \A p \in OwnFacts : p < q => p \in stored

\* Whatever is on the queue, every earlier fact is stored or before it there.
QueueNoGaps ==
  \A k \in DOMAIN queue : \A p \in OwnFacts :
    p < queue[k] => p \in stored \/ \E j \in DOMAIN queue : j < k /\ queue[j] = p

\* A fact is folded before it is put on record.
RecordFolded == \A p \in OwnFacts : p \in OnRecord => p <= furthest

HubSound == HubBounded /\ StoredNoGaps /\ QueueNoGaps /\ RecordFolded

Applying(m) == loops[m].at \in {"apply", "blocked"}

LoopBounded(m) ==
  /\ loops[m].cursor <= Len(log)
  /\ \A k \in DOMAIN loops[m].batch : loops[m].batch[k] <= Len(log)

\* A loop that applies a batch has one, of consecutive events.
LoopShaped(m) ==
  Applying(m) =>
    /\ loops[m].batch # <<>>
    /\ \A k \in DOMAIN loops[m].batch : loops[m].batch[k] = loops[m].batch[1] + k - 1

\* Every fact a loop has behind it is on record.
LoopCovered(m) ==
  /\ loops[m].at # "none" => Covered(loops[m].cursor + 1)
  /\ Applying(m) => Covered(loops[m].batch[1])

\* A loop that waits to put a fact on record has folded it.
LoopFolded(m) ==
  loops[m].at = "blocked" /\ loops[m].batch[1] \in OwnFacts => loops[m].batch[1] <= furthest

LoopSound(m) == LoopBounded(m) /\ LoopShaped(m) /\ LoopCovered(m) /\ LoopFolded(m)

IInv == TypeOK /\ HubSound /\ \A m \in Machines : LoopSound(m)

\* Newest is what it says, of any positions up to a bound.
LEMMA NewestIsGreatest ==
  ASSUME NEW n \in Nat, NEW ps \in SUBSET (1 .. n)
  PROVE  /\ Newest(ps) \in 0 .. n
         /\ ps # {} => Newest(ps) \in ps
         /\ \A q \in ps : q <= Newest(ps)
<1>1. \A q \in ps : q \in 0 .. n
  OBVIOUS
<1>2. CASE ps = {}
  BY <1>2 DEF Newest
<1>3. CASE ps # {}
  <2>1. Newest(ps) = CHOOSE r \in ps : \A q \in ps : q <= r
    BY <1>3 DEF Newest
  <2>2. \E r \in ps : \A q \in ps : q <= r
    BY <1>1, <1>3, GreatestExists
  <2>3. Newest(ps) \in ps /\ \A q \in ps : q <= Newest(ps)
    BY <2>1, <2>2
  <2>4. Newest(ps) \in 0 .. n
    BY <1>1, <2>3
  <2>5. QED
    BY <2>3, <2>4
<1>4. QED
  BY <1>2, <1>3

-----------------------------------------------------------------------------
(* What a step leaves as it was *)

\* The log only grows, no fact leaves the record, what was folded stays so.
Kept ==
  /\ Len(log) <= Len(log')
  /\ \A p \in 1 .. Len(log) : log'[p] = log[p]
  /\ \A p \in OwnFacts : p \in OnRecord => p \in OnRecord'
  /\ furthest <= furthest'

\* The facts among the positions there were are the facts there were.
LEMMA FactsStay ==
  ASSUME TypeOK, TypeOK', Kept
  PROVE  /\ Len(log) \in Nat /\ DOMAIN log = 1 .. Len(log)
         /\ Len(log') \in Nat /\ DOMAIN log' = 1 .. Len(log')
         /\ OwnFacts \subseteq 1 .. Len(log)
         /\ OwnFacts' \subseteq 1 .. Len(log')
         /\ \A p \in 1 .. Len(log) : p \in OwnFacts' <=> p \in OwnFacts
<1>1. /\ Len(log) \in Nat /\ DOMAIN log = 1 .. Len(log)
      /\ Len(log') \in Nat /\ DOMAIN log' = 1 .. Len(log')
  BY DEF TypeOK
<1>2. \A p \in 1 .. Len(log) : p \in 1 .. Len(log')
  BY <1>1 DEF Kept
<1>3. OwnFacts \subseteq 1 .. Len(log) /\ OwnFacts' \subseteq 1 .. Len(log')
  BY <1>1 DEF OwnFacts
<1>4. \A p \in 1 .. Len(log) : p \in OwnFacts' <=> p \in OwnFacts
  BY <1>1, <1>2 DEF Kept, OwnFacts, IsFact, Own
<1>5. QED
  BY <1>1, <1>3, <1>4

LEMMA LoopTyped ==
  ASSUME TypeOK, NEW m \in Machines
  PROVE  /\ loops[m].at \in {"none", "poll", "apply", "blocked"}
         /\ loops[m].cursor \in 0 .. MaxLog
         /\ loops[m].batch \in Seq(1 .. MaxLog)
         /\ Len(loops[m].batch) \in Nat
         /\ DOMAIN loops[m].batch = 1 .. Len(loops[m].batch)
         /\ loops[m].batch # <<>> =>
              1 \in DOMAIN loops[m].batch /\ Head(loops[m].batch) = loops[m].batch[1]
         /\ \A k \in DOMAIN loops[m].batch : loops[m].batch[k] \in 1 .. MaxLog
<1>1. loops[m] \in Loops
  BY DEF TypeOK
<1>2. loops[m].batch \in Seq(1 .. MaxLog)
  BY <1>1 DEF Loops
<1>3. DOMAIN loops[m].batch = 1 .. Len(loops[m].batch) /\ Len(loops[m].batch) \in Nat
  BY <1>2
<1>4. \A k \in DOMAIN loops[m].batch : loops[m].batch[k] \in 1 .. MaxLog
  BY <1>2, <1>3, ElementOfSeq
<1>5. loops[m].batch # <<>> =>
        1 \in DOMAIN loops[m].batch /\ Head(loops[m].batch) = loops[m].batch[1]
  BY <1>2, <1>3
<1>6. QED
  BY <1>1, <1>2, <1>3, <1>4, <1>5 DEF Loops

LEMMA QueueTyped ==
  ASSUME TypeOK
  PROVE  /\ MaxLog \in Nat
         /\ Len(queue) \in Nat /\ DOMAIN queue = 1 .. Len(queue)
         /\ \A k \in DOMAIN queue : queue[k] \in 1 .. MaxLog
<1>1. MaxLog \in Nat
  BY SyncBounds
<1>2. queue \in Seq(1 .. MaxLog)
  BY DEF TypeOK
<1>3. Len(queue) \in Nat /\ DOMAIN queue = 1 .. Len(queue)
  BY <1>2
<1>4. \A k \in DOMAIN queue : queue[k] \in 1 .. MaxLog
  BY <1>2, <1>3, ElementOfSeq
<1>5. QED
  BY <1>1, <1>3, <1>4

\* A loop that a step leaves alone stays sound.
LEMMA LoopStays ==
  ASSUME TypeOK, TypeOK', Kept, NEW m \in Machines, LoopSound(m), loops'[m] = loops[m]
  PROVE  LoopSound(m)'
<1>1. ASSUME NEW n \in Nat, Covered(n), n <= Len(log) + 1
      PROVE  \A q \in OwnFacts' : q < n => q \in OnRecord'
  BY <1>1, FactsStay DEF Covered, Kept
<1>2. LoopBounded(m)' /\ LoopShaped(m)'
  BY LoopTyped, FactsStay DEF LoopSound, LoopBounded, LoopShaped, Applying, Kept
<1>3. LoopCovered(m)'
  <2>1. ASSUME loops[m].at # "none" PROVE Covered(loops[m].cursor + 1)'
    <3>1. loops[m].cursor + 1 \in Nat /\ loops[m].cursor + 1 <= Len(log) + 1
      BY LoopTyped, FactsStay DEF LoopSound, LoopBounded
    <3>2. QED
      BY <1>1, <2>1, <3>1 DEF LoopSound, LoopCovered, Covered
  <2>2. ASSUME Applying(m) PROVE Covered(loops[m].batch[1])'
    <3>1. loops[m].batch[1] \in 1 .. Len(log)
      BY <2>2, LoopTyped, FactsStay DEF LoopSound, LoopBounded, LoopShaped
    <3>2. loops[m].batch[1] \in Nat /\ loops[m].batch[1] <= Len(log) + 1
      BY <3>1, FactsStay
    <3>3. QED
      BY <1>1, <2>2, <3>2 DEF LoopSound, LoopCovered, Covered
  <2>3. QED
    BY <2>1, <2>2 DEF LoopCovered, Applying
<1>4. LoopFolded(m)'
  <2> SUFFICES ASSUME loops[m].at = "blocked", loops[m].batch[1] \in OwnFacts'
               PROVE  loops[m].batch[1] <= furthest'
    BY DEF LoopFolded
  <2>1. loops[m].batch[1] \in 1 .. Len(log)
    BY LoopTyped, FactsStay DEF LoopSound, LoopBounded, LoopShaped, Applying
  <2>2. loops[m].batch[1] \in OwnFacts
    BY <2>1, FactsStay
  <2>3. QED
    BY <2>1, <2>2, FactsStay DEF LoopSound, LoopFolded, Kept, TypeOK
<1>5. QED
  BY <1>2, <1>3, <1>4 DEF LoopSound

\* A slot without a loop is sound.
LEMMA NoLoopSound ==
  ASSUME TypeOK', NEW m \in Machines, loops'[m] = NoLoop
  PROVE  LoopSound(m)'
BY DEF LoopSound, LoopBounded, LoopShaped, LoopCovered, LoopFolded, Applying, NoLoop, TypeOK

\* The hub stays sound in a step that leaves its store and its queue alone.
LEMMA HubStays ==
  ASSUME TypeOK, TypeOK', Kept, HubSound, UNCHANGED <<stored, queue>>,
         view' <= Len(log'), furthest' <= Len(log')
  PROVE  HubSound'
<1>1. HubBounded'
  <2>1. \A k \in DOMAIN queue : queue[k] \in Nat
    BY QueueTyped
  <2>2. QED
    BY <2>1, FactsStay DEF HubSound, HubBounded, Kept, TypeOK
<1>2. StoredNoGaps'
  BY FactsStay DEF HubSound, HubBounded, StoredNoGaps, TypeOK
<1>3. QueueNoGaps'
  <2> SUFFICES ASSUME NEW k \in DOMAIN queue, NEW p \in OwnFacts', p < queue[k]
               PROVE  p \in stored \/ \E j \in DOMAIN queue : j < k /\ queue[j] = p
    BY DEF QueueNoGaps
  <2>1. queue[k] \in Nat
    BY QueueTyped
  <2>2. p \in OwnFacts
    BY <2>1, FactsStay DEF HubSound, HubBounded
  <2>3. QED
    BY <2>2 DEF HubSound, QueueNoGaps
<1>4. RecordFolded'
  <2> SUFFICES ASSUME NEW p \in OwnFacts', p \in OnRecord PROVE p <= furthest'
    BY DEF RecordFolded, OnRecord
  <2>1. p \in OwnFacts
    BY FactsStay DEF HubSound, HubBounded, OnRecord
  <2>2. p <= furthest /\ p \in Nat
    BY <2>1, FactsStay DEF HubSound, RecordFolded
  <2>3. QED
    BY <2>2 DEF Kept, TypeOK
<1>5. QED
  BY <1>1, <1>2, <1>3, <1>4 DEF HubSound

\* What is put on record after every earlier fact, and after it was folded,
\* leaves the hub sound and every fact on record.
LEMMA HubAppends ==
  ASSUME TypeOK, TypeOK', HubSound, UNCHANGED <<log, stored>>,
         NEW p \in 1 .. Len(log), queue' = Append(queue, p),
         Covered(p), p \in OwnFacts => p <= furthest',
         furthest <= furthest', view' <= Len(log), furthest' <= Len(log)
  PROVE  Kept /\ HubSound' /\ Covered(p + 1)' /\ Covered(p)'
<1>0. OwnFacts' = OwnFacts
  BY DEF OwnFacts, IsFact, Own
<1>1. /\ \A k \in DOMAIN queue : queue'[k] = queue[k] /\ queue[k] \in Nat /\ k \in DOMAIN queue'
      /\ DOMAIN queue = 1 .. Len(queue) /\ Len(queue) \in Nat
      /\ queue'[Len(queue) + 1] = p
      /\ DOMAIN queue' = 1 .. Len(queue) + 1
  <2>1. queue \in Seq(1 .. MaxLog) /\ p \in 1 .. MaxLog
    BY QueueTyped DEF TypeOK
  <2>2. QED
    BY <2>1, AfterAppend, QueueTyped
<1>2. OnRecord' = OnRecord \cup {p}
  BY <1>1 DEF OnRecord
<1>3. Kept
  BY <1>2 DEF Kept, TypeOK
<1>4. HubBounded'
  BY <1>1 DEF HubSound, HubBounded
<1>5. StoredNoGaps'
  BY <1>0 DEF HubSound, StoredNoGaps
<1>6. QueueNoGaps'
  <2> SUFFICES ASSUME NEW k \in DOMAIN queue', NEW q \in OwnFacts, q < queue'[k]
               PROVE  q \in stored \/ \E j \in DOMAIN queue' : j < k /\ queue'[j] = q
    BY <1>0 DEF QueueNoGaps
  <2>1. CASE k \in DOMAIN queue
    <3>1. q \in stored \/ \E j \in DOMAIN queue : j < k /\ queue[j] = q
      BY <1>1, <2>1 DEF HubSound, QueueNoGaps
    <3>2. QED
      BY <1>1, <3>1
  <2>2. CASE k = Len(queue) + 1
    <3>1. q \in stored \/ \E j \in DOMAIN queue : queue[j] = q
      BY <1>1, <2>2 DEF Covered, OnRecord
    <3>2. QED
      BY <1>1, <2>2, <3>1
  <2>3. QED
    BY <1>1, <2>1, <2>2
<1>7. RecordFolded'
  <2> SUFFICES ASSUME NEW q \in OwnFacts, q \in OnRecord \cup {p} PROVE q <= furthest'
    BY <1>0, <1>2 DEF RecordFolded
  <2>1. CASE q = p
    BY <2>1
  <2>2. CASE q \in OnRecord
    BY <2>2, FactsStay, <1>3 DEF HubSound, RecordFolded, TypeOK
  <2>3. QED
    BY <2>1, <2>2
<1>8. Covered(p + 1)' /\ Covered(p)'
  <2>1. OwnFacts \subseteq Nat
    BY DEF OwnFacts, TypeOK
  <2>2. QED
    BY <1>0, <1>2, <2>1 DEF Covered
<1>9. QED
  BY <1>3, <1>4, <1>5, <1>6, <1>7, <1>8 DEF HubSound

-----------------------------------------------------------------------------
(* The invariant *)

LEMMA InitIInv == Init => IInv
<1> SUFFICES ASSUME Init PROVE IInv
  OBVIOUS
<1>1. NoLoop \in Loops
  BY SyncBounds DEF NoLoop, Loops
<1>2. TypeOK
  <2>1. /\ log \in Seq([kind: Kinds, own: BOOLEAN]) /\ queue \in Seq(1 .. MaxLog)
        /\ Len(log) <= MaxLog
    BY SyncBounds DEF Init
  <2>2. loops \in [Machines -> Loops]
    BY <1>1 DEF Init
  <2>3. {view, furthest} \subseteq 0 .. MaxLog /\ archivedAt \in 0 .. MaxLog /\ faults \in 0 .. MaxFaults
    BY SyncBounds DEF Init
  <2>4. QED
    BY <2>1, <2>2, <2>3 DEF Init, TypeOK
<1>3. OwnFacts = {} /\ Len(log) = 0
  BY DEF Init, OwnFacts
<1>4. HubSound
  BY <1>3 DEF Init, HubSound, HubBounded, StoredNoGaps, QueueNoGaps, RecordFolded
<1>5. ASSUME NEW m \in Machines PROVE LoopSound(m)
  BY <1>3 DEF Init, LoopSound, LoopBounded, LoopShaped, LoopCovered, LoopFolded, Applying,
              Covered, NoLoop
<1>6. QED
  BY <1>2, <1>4, <1>5 DEF IInv

\* Moving on in a batch.
LEMMA AdvanceMoves ==
  ASSUME TypeOK, NEW m \in Machines, loops[m].batch # <<>>,
         NEW c \in 0 .. MaxLog, Advance(m, c)
  PROVE  /\ loops' \in [Machines -> Loops]
         /\ loops'[m].cursor = c
         /\ loops'[m].batch = Tail(loops[m].batch)
         /\ loops'[m].at = IF Len(loops[m].batch) = 1 THEN "poll" ELSE "apply"
         /\ \A n \in Machines : n # m => loops'[n] = loops[n]
<1> DEFINE l == [at |-> IF Len(loops[m].batch) = 1 THEN "poll" ELSE "apply",
                 cursor |-> c, batch |-> Tail(loops[m].batch)]
<1>1. Tail(loops[m].batch) \in Seq(1 .. MaxLog)
  BY LoopTyped, AfterTail
<1>2. l \in Loops
  BY <1>1 DEF Loops
<1>3. l.at = (IF Len(loops[m].batch) = 1 THEN "poll" ELSE "apply") /\ l.cursor = c
      /\ l.batch = Tail(loops[m].batch)
  OBVIOUS
<1>4. loops' = [loops EXCEPT ![m] = l]
  BY DEF Advance
<1> HIDE DEF l
<1>5. QED
  BY <1>2, <1>3, <1>4 DEF TypeOK

LEMMA AdvanceKeepsSound ==
  ASSUME TypeOK, TypeOK', UNCHANGED log, NEW m \in Machines, LoopSound(m), Applying(m),
         NEW c \in 0 .. MaxLog, c <= Len(log), Advance(m, c),
         Covered(c + 1)', NEW p, p = loops[m].batch[1], Covered(p + 1)'
  PROVE  LoopSound(m)'
<1> DEFINE b == loops[m].batch
<1>1. /\ b \in Seq(1 .. MaxLog) /\ b # <<>> /\ Len(b) \in Nat /\ DOMAIN b = 1 .. Len(b)
      /\ \A k \in DOMAIN b : b[k] \in 1 .. MaxLog /\ b[k] <= Len(log) /\ b[k] = b[1] + k - 1
  BY LoopTyped DEF LoopSound, LoopShaped, LoopBounded
<1>2. /\ loops'[m].cursor = c
      /\ loops'[m].batch = Tail(b)
      /\ loops'[m].at = IF Len(b) = 1 THEN "poll" ELSE "apply"
  BY <1>1, AdvanceMoves
<1>3. /\ DOMAIN Tail(b) = 1 .. Len(b) - 1 /\ Len(Tail(b)) = Len(b) - 1
      /\ \A k \in DOMAIN Tail(b) : Tail(b)[k] = b[k + 1]
  BY <1>1, AfterTail
<1> HIDE DEF b
<1>4. \A k \in DOMAIN Tail(b) : Tail(b)[k] <= Len(log) /\ Tail(b)[k] = b[1] + k
  BY <1>1, <1>3
<1>5. LoopBounded(m)'
  BY <1>2, <1>4 DEF LoopBounded
<1>6. ASSUME Applying(m)' PROVE Tail(b) # <<>> /\ 1 \in DOMAIN Tail(b) /\ Tail(b)[1] = b[1] + 1
  <2>1. Len(b) # 1
    BY <1>2, <1>6 DEF Applying
  <2>2. 1 \in DOMAIN Tail(b)
    BY <1>1, <1>3, <2>1
  <2>3. QED
    BY <1>4, <2>2
<1>7. LoopShaped(m)'
  <2> SUFFICES ASSUME Applying(m)'
               PROVE  Tail(b) # <<>> /\ \A k \in DOMAIN Tail(b) : Tail(b)[k] = Tail(b)[1] + k - 1
    BY <1>2 DEF LoopShaped
  <2>1. b[1] \in Nat
    BY <1>1, <1>6
  <2>2. QED
    BY <1>3, <1>4, <1>6, <2>1
<1>8. LoopCovered(m)'
  <2>1. loops'[m].cursor + 1 = c + 1
    BY <1>2
  <2>2. Covered(loops[m].cursor + 1)'
    BY <2>1 DEF Covered
  <2>3. ASSUME Applying(m)' PROVE Covered(loops[m].batch[1])'
    <3>1. loops'[m].batch[1] = p + 1
      BY <1>2, <1>6, <2>3 DEF b
    <3>2. \A q \in OwnFacts' : q < p + 1 => q \in OnRecord'
      BY DEF Covered
    <3>3. QED
      BY <3>1, <3>2 DEF Covered
  <2>4. QED
    BY <2>2, <2>3 DEF LoopCovered
<1>9. LoopFolded(m)'
  BY <1>2 DEF LoopFolded
<1>10. QED
  BY <1>5, <1>7, <1>8, <1>9 DEF LoopSound

LEMMA AppendGrows ==
  ASSUME TypeOK, NEW kind \in Kinds, NEW own \in BOOLEAN, NodeRecords(kind, own)
  PROVE  /\ log' \in Seq([kind: Kinds, own: BOOLEAN])
         /\ Len(log') = Len(log) + 1 /\ Len(log) \in Nat /\ Len(log') <= MaxLog
         /\ \A p \in 1 .. Len(log) : log'[p] = log[p]
<1> DEFINE e == [kind |-> kind, own |-> own]
<1>1. e \in [kind: Kinds, own: BOOLEAN] /\ log \in Seq([kind: Kinds, own: BOOLEAN])
  BY DEF TypeOK
<1>2. log' = Append(log, e) /\ Len(log) < MaxLog
  BY DEF NodeRecords
<1> HIDE DEF e
<1>3. QED
  BY <1>1, <1>2, AppendProperties, SyncBounds

LEMMA NodeRecordsKeepsIInv ==
  ASSUME IInv, NEW kind \in Kinds, NEW own \in BOOLEAN, NodeRecords(kind, own)
  PROVE  IInv'
<1> USE DEF IInv
<1>1. UNCHANGED <<machine, reachable, loops, queue, stored, view, furthest, archived, archivedAt, faults>>
  BY DEF NodeRecords, readModel
<1>2. TypeOK'
  BY <1>1, AppendGrows DEF TypeOK
<1>3. Kept
  BY <1>1, AppendGrows DEF Kept, OnRecord, TypeOK
<1>4. HubSound'
  <2>1. view' <= Len(log') /\ furthest' <= Len(log')
    BY <1>1, AppendGrows DEF HubSound, HubBounded, TypeOK
  <2>2. QED
    BY <1>1, <1>2, <1>3, <2>1, HubStays
<1>5. ASSUME NEW m \in Machines PROVE LoopSound(m)'
  BY <1>1, <1>2, <1>3, LoopStays
<1>6. QED
  BY <1>2, <1>4, <1>5

\* The steps of which neither the log, the loops nor the record see anything.
LEMMA OthersKeepIInv ==
  ASSUME IInv, TypeOK', UNCHANGED <<log, loops, queue, stored, view, furthest>>
  PROVE  IInv'
<1> USE DEF IInv
<1>1. Kept
  BY DEF Kept, OnRecord, TypeOK
<1>2. HubSound'
  BY <1>1, HubStays DEF HubSound, HubBounded
<1>3. ASSUME NEW m \in Machines PROVE LoopSound(m)'
  BY <1>1, LoopStays
<1>4. QED
  BY <1>2, <1>3

\* The steps that stop some loops, or start some where the store says.
LEMMA LoopsChangeKeepsIInv ==
  ASSUME IInv, TypeOK', UNCHANGED <<log, queue, stored, view, furthest>>,
         \A m \in Machines :
           \/ loops'[m] = loops[m]
           \/ loops'[m] = NoLoop
           \/ loops'[m] = [at |-> "poll", cursor |-> Newest(stored), batch |-> <<>>]
  PROVE  IInv'
<1> USE DEF IInv
<1>1. Kept
  BY DEF Kept, OnRecord, TypeOK
<1>2. HubSound'
  BY <1>1, HubStays DEF HubSound, HubBounded
<1>3. ASSUME NEW m \in Machines PROVE LoopSound(m)'
  <2>1. CASE loops'[m] = loops[m]
    BY <1>1, <2>1, LoopStays
  <2>2. CASE loops'[m] = NoLoop
    BY <2>2, NoLoopSound
  <2>3. CASE loops'[m] = [at |-> "poll", cursor |-> Newest(stored), batch |-> <<>>]
    <3>1. /\ Newest(stored) \in 0 .. Len(log)
          /\ stored # {} => Newest(stored) \in stored
          /\ \A q \in stored : q <= Newest(stored)
      <4>1. stored \in SUBSET (1 .. Len(log)) /\ Len(log) \in Nat
        BY SyncBounds DEF HubSound, HubBounded, TypeOK
      <4>2. QED
        BY <4>1, NewestIsGreatest
    <3>2. PICK c \in 0 .. Len(log) : c = Newest(stored)
      BY <3>1
    <3>3. \A q \in OwnFacts : q < c + 1 => q \in stored
      <4>1. OwnFacts \subseteq 1 .. Len(log) /\ Len(log) \in Nat
        BY DEF OwnFacts, TypeOK
      <4>2. CASE stored = {}
        BY <3>2, <4>1, <4>2 DEF Newest
      <4>3. CASE stored # {}
        <5>1. c \in stored
          BY <3>1, <3>2, <4>3
        <5>2. QED
          BY <4>1, <5>1 DEF HubSound, StoredNoGaps
      <4>4. QED
        BY <4>2, <4>3
    <3>4. OwnFacts' = OwnFacts /\ OnRecord' = OnRecord /\ stored \subseteq OnRecord
      BY DEF OwnFacts, IsFact, Own, OnRecord
    <3>5. /\ loops'[m].at = "poll" /\ loops'[m].cursor = c /\ loops'[m].batch = <<>>
      BY <2>3, <3>2
    <3>6. QED
      BY <3>2, <3>3, <3>4, <3>5
      DEF LoopSound, LoopBounded, LoopShaped, LoopCovered, LoopFolded, Applying, Covered
  <2>4. QED
    BY <2>1, <2>2, <2>3
<1>4. QED
  BY <1>2, <1>3

\* A page holds the positions after the cursor, in order.
LEMMA PageIs ==
  ASSUME TypeOK, NEW c \in 0 .. MaxLog, c <= Len(log), Page(c) # <<>>
  PROVE  /\ Page(c) \in Seq(1 .. MaxLog)
         /\ Page(c)[1] = c + 1
         /\ \A k \in DOMAIN Page(c) : Page(c)[k] = c + k /\ c + k <= Len(log)
<1> DEFINE last == IF Len(log) < c + BatchLimit THEN Len(log) ELSE c + BatchLimit
<1>1. /\ Len(log) \in Nat /\ Len(log) <= MaxLog /\ MaxLog \in Nat /\ c \in Nat
      /\ last \in Nat /\ last <= Len(log)
  BY SyncBounds DEF TypeOK
<1>2. Page(c) = [k \in 1 .. last - c |-> c + k]
  BY DEF Page
<1> HIDE DEF last
<1>3. CASE last - c < 1
  <2>1. 1 .. last - c = {}
    BY <1>1, <1>3
  <2>2. Page(c) = <<>>
    BY <1>2, <2>1
  <2>3. QED
    BY <2>2
<1>4. CASE last - c >= 1
  <2>1. /\ DOMAIN Page(c) = 1 .. last - c
        /\ \A k \in 1 .. last - c : Page(c)[k] = c + k /\ c + k <= last
    BY <1>1, <1>2
  <2>2. Page(c) \in Seq(1 .. MaxLog)
    <3>1. Page(c) \in [1 .. last - c -> 1 .. MaxLog]
      BY <1>1, <1>2
    <3>2. QED
      BY <1>1, <1>4, <3>1
  <2>3. QED
    BY <1>1, <1>4, <2>1, <2>2
<1>5. QED
  BY <1>1, <1>3, <1>4

LEMMA PollKeepsIInv ==
  ASSUME IInv, NEW m \in Machines, Poll(m)
  PROVE  IInv'
<1> USE DEF IInv
<1> DEFINE c == loops[m].cursor
<1>1. UNCHANGED <<log, reachable, machine, queue, stored, view, furthest, archived, archivedAt, faults>>
  BY DEF Poll, node, readModel
<1>2. c \in 0 .. MaxLog /\ c <= Len(log) /\ Page(c) # <<>>
  BY LoopTyped DEF Poll, LoopSound, LoopBounded
<1>3. /\ Page(c) \in Seq(1 .. MaxLog)
      /\ Page(c)[1] = c + 1
      /\ \A k \in DOMAIN Page(c) : Page(c)[k] = c + k /\ c + k <= Len(log)
  BY <1>2, PageIs
<1>4. PICK b \in Seq(1 .. MaxLog) : b = Page(c)
  BY <1>3
<1>5. /\ loops' \in [Machines -> Loops]
      /\ loops'[m].at = "apply" /\ loops'[m].cursor = c /\ loops'[m].batch = b
      /\ \A n \in Machines : n # m => loops'[n] = loops[n]
  <2>1. loops' = [loops EXCEPT ![m].at = "apply", ![m].batch = b]
    BY <1>4 DEF Poll
  <2>2. QED
    BY <1>4, <2>1 DEF TypeOK, Loops
<1>6. TypeOK'
  BY <1>1, <1>5 DEF TypeOK
<1>7. Kept
  BY <1>1 DEF Kept, OnRecord, TypeOK
<1>8. HubSound'
  BY <1>1, <1>6, <1>7, HubStays DEF HubSound, HubBounded
<1>9. LoopSound(m)'
  <2>1. LoopBounded(m)' /\ LoopShaped(m)' /\ LoopFolded(m)'
    BY <1>1, <1>2, <1>3, <1>4, <1>5 DEF LoopBounded, LoopShaped, LoopFolded, Applying
  <2>2. Covered(c + 1)
    BY DEF LoopSound, LoopCovered, Poll
  <2>3. PICK d \in 0 .. MaxLog : d = c
    BY <1>2
  <2>4. \A q \in OwnFacts' : q < d + 1 => q \in OnRecord'
    BY <1>1, <2>2, <2>3 DEF Covered, OwnFacts, IsFact, Own, OnRecord
  <2>5. loops'[m].cursor = d /\ loops'[m].batch[1] = d + 1
    BY <1>3, <1>4, <1>5, <2>3
  <2>6. LoopCovered(m)'
    BY <2>4, <2>5 DEF LoopCovered, Covered
  <2>7. QED
    BY <2>1, <2>6 DEF LoopSound
<1>10. ASSUME NEW n \in Machines, n # m PROVE LoopSound(n)'
  BY <1>5, <1>6, <1>7, <1>10, LoopStays
<1>11. QED
  BY <1>6, <1>8, <1>9, <1>10

\* The event a loop applies next.
LEMMA BatchHead ==
  ASSUME TypeOK, NEW m \in Machines, LoopSound(m), Applying(m)
  PROVE  /\ loops[m].batch # <<>>
         /\ Head(loops[m].batch) = loops[m].batch[1]
         /\ loops[m].batch[1] \in 1 .. Len(log)
         /\ loops[m].batch[1] \in 0 .. MaxLog
         /\ Covered(loops[m].batch[1])
         /\ Len(log) \in Nat
<1>1. Len(log) \in Nat /\ Len(log) <= MaxLog /\ MaxLog \in Nat
  BY SyncBounds DEF TypeOK
<1>2. loops[m].batch # <<>> /\ Covered(loops[m].batch[1])
  BY DEF LoopSound, LoopShaped, LoopCovered
<1>3. loops[m].batch[1] <= Len(log)
  BY <1>2, LoopTyped DEF LoopSound, LoopBounded
<1>4. QED
  BY <1>1, <1>2, <1>3, LoopTyped

LEMMA DropForeignKeepsIInv ==
  ASSUME IInv, NEW m \in Machines, DropForeign(m)
  PROVE  IInv'
<1> USE DEF IInv
<1>1. UNCHANGED <<log, reachable, machine, queue, stored, view, furthest, archived, archivedAt, faults>>
  BY DEF DropForeign, node, readModel
<1>2. Applying(m) /\ LoopSound(m)
  BY DEF DropForeign, Applying
<1>3. PICK p \in 1 .. Len(log) : p = loops[m].batch[1]
  BY <1>2, BatchHead
<1>4. PICK c \in 0 .. MaxLog : c = loops[m].cursor
  BY LoopTyped
<1>5. /\ Advance(m, c) /\ ~Own(p) /\ c <= Len(log)
      /\ Covered(c + 1) /\ Covered(p) /\ loops[m].batch # <<>>
  BY <1>2, <1>3, <1>4, BatchHead DEF DropForeign, LoopSound, LoopCovered, LoopBounded
<1>6. /\ loops' \in [Machines -> Loops]
      /\ \A n \in Machines : n # m => loops'[n] = loops[n]
  BY <1>5, AdvanceMoves
<1>7. TypeOK'
  BY <1>1, <1>6 DEF TypeOK
<1>8. Kept
  BY <1>1 DEF Kept, OnRecord, TypeOK
<1>9. HubSound'
  BY <1>1, <1>7, <1>8, HubStays DEF HubSound, HubBounded
<1>10. Covered(c + 1)' /\ Covered(p + 1)'
  <2>1. OwnFacts' = OwnFacts /\ OnRecord' = OnRecord
    BY <1>1 DEF OwnFacts, IsFact, Own, OnRecord
  <2>2. \A q \in OwnFacts : q \in Nat /\ q # p
    BY <1>5 DEF OwnFacts, IsFact, TypeOK
  <2>3. QED
    BY <1>5, <2>1, <2>2 DEF Covered
<1>11. LoopSound(m)'
  BY <1>1, <1>2, <1>3, <1>5, <1>7, <1>10, AdvanceKeepsSound
<1>12. ASSUME NEW n \in Machines, n # m PROVE LoopSound(n)'
  BY <1>6, <1>7, <1>8, <1>12, LoopStays
<1>13. QED
  BY <1>7, <1>9, <1>11, <1>12

\* What a loop folds: a fact that follows on every earlier one.
LEMMA FoldMoves ==
  ASSUME TypeOK, HubBounded, UNCHANGED log, NEW p \in 1 .. Len(log), Fold(p)
  PROVE  /\ view' \in 0 .. MaxLog /\ furthest' \in 0 .. MaxLog /\ archived' \in BOOLEAN
         /\ view' <= Len(log) /\ furthest' <= Len(log)
         /\ furthest <= furthest'
         /\ p \in OwnFacts => p <= furthest'
         /\ view' # view => p \in OwnFacts /\ view' = p
<1>1. /\ Len(log) \in Nat /\ Len(log) <= MaxLog /\ MaxLog \in Nat
      /\ view \in 0 .. MaxLog /\ furthest \in 0 .. MaxLog /\ archived \in BOOLEAN
      /\ view <= Len(log) /\ furthest <= Len(log) /\ DOMAIN log = 1 .. Len(log)
  BY SyncBounds DEF TypeOK, HubBounded
<1>2. p \in OwnFacts <=> IsFact(p)
  BY <1>1 DEF OwnFacts
<1>3. CASE IsFact(p)
  <2>1. view' = p /\ archived' = FALSE /\ furthest' = IF furthest < p THEN p ELSE furthest
    BY <1>3 DEF Fold
  <2>2. furthest' \in {furthest, p} /\ furthest <= furthest' /\ p <= furthest'
    BY <1>1, <2>1
  <2>3. view' # view => p \in OwnFacts /\ view' = p
    BY <1>2, <1>3, <2>1
  <2>4. archived' \in BOOLEAN
    BY <2>1
  <2>5. view' = p /\ p \in 0 .. MaxLog /\ p <= Len(log)
    BY <1>1, <2>1
  <2>6. QED
    BY <1>1, <2>2, <2>3, <2>4, <2>5
<1>4. CASE ~IsFact(p)
  BY <1>1, <1>2, <1>4 DEF Fold, readModel
<1>5. QED
  BY <1>3, <1>4

\* The loop puts its event on the recorder's queue and moves on.
LEMMA EnqueueKeepsIInv ==
  ASSUME IInv, NEW m \in Machines, Applying(m), NEW p \in 1 .. Len(log), p = loops[m].batch[1],
         Advance(m, p), queue' = Append(queue, p), archived' \in BOOLEAN,
         view' \in 0 .. MaxLog, furthest' \in 0 .. MaxLog,
         view' <= Len(log), furthest' <= Len(log), furthest <= furthest',
         p \in OwnFacts => p <= furthest',
         UNCHANGED <<log, reachable, machine, stored, archivedAt, faults>>
  PROVE  IInv'
<1> USE DEF IInv
<1>1. /\ loops[m].batch # <<>> /\ Covered(p) /\ p \in 0 .. MaxLog
      /\ p \in 1 .. MaxLog /\ Len(log) \in Nat
  <2>1. Covered(p)
    BY BatchHead
  <2>2. QED
    BY <2>1, BatchHead, SyncBounds DEF TypeOK
<1>2. /\ loops' \in [Machines -> Loops]
      /\ \A n \in Machines : n # m => loops'[n] = loops[n]
  BY <1>1, AdvanceMoves
<1>3. TypeOK'
  <2>1. queue' \in Seq(1 .. MaxLog)
    BY <1>1, AppendProperties DEF TypeOK
  <2>2. QED
    BY <1>2, <2>1 DEF TypeOK
<1>4. Kept /\ HubSound' /\ Covered(p + 1)' /\ Covered(p)'
  BY <1>1, <1>3, HubAppends
<1>5. LoopSound(m)'
  BY <1>1, <1>3, <1>4, AdvanceKeepsSound
<1>6. ASSUME NEW n \in Machines, n # m PROVE LoopSound(n)'
  BY <1>2, <1>3, <1>4, <1>6, LoopStays
<1>7. QED
  BY <1>3, <1>4, <1>5, <1>6

LEMMA PublishRemoteKeepsIInv ==
  ASSUME IInv, NEW m \in Machines, PublishRemote(m)
  PROVE  IInv'
<1> USE DEF IInv
<1>1. UNCHANGED <<log, reachable, machine, stored, archivedAt, faults>>
  BY DEF PublishRemote, node
<1>2. Applying(m) /\ LoopSound(m)
  BY DEF PublishRemote, Applying
<1>3. PICK p \in 1 .. Len(log) : p = loops[m].batch[1] /\ p = Head(loops[m].batch)
  BY <1>2, BatchHead
<1>4. Fold(p)
  BY <1>3 DEF PublishRemote
<1>5. /\ view' \in 0 .. MaxLog /\ furthest' \in 0 .. MaxLog /\ archived' \in BOOLEAN
      /\ view' <= Len(log) /\ furthest' <= Len(log)
      /\ furthest <= furthest'
      /\ p \in OwnFacts => p <= furthest'
  BY <1>1, <1>4, FoldMoves DEF HubSound
<1>6. CASE Len(queue) < Capacity
  <2>1. Advance(m, p) /\ queue' = Append(queue, p)
    BY <1>3, <1>6 DEF PublishRemote
  <2>2. QED
    <3> HIDE DEF IInv
    <3>1. QED
      BY <1>1, <1>2, <1>3, <1>5, <2>1, EnqueueKeepsIInv
<1>7. CASE ~(Len(queue) < Capacity)
  <2>1. loops' = [loops EXCEPT ![m].at = "blocked"] /\ queue' = queue
    BY <1>7 DEF PublishRemote
  <2>2. /\ loops' \in [Machines -> Loops]
        /\ loops'[m].at = "blocked" /\ loops'[m].cursor = loops[m].cursor
        /\ loops'[m].batch = loops[m].batch
        /\ \A n \in Machines : n # m => loops'[n] = loops[n]
    BY <2>1 DEF TypeOK, Loops
  <2>3. TypeOK'
    BY <1>1, <1>5, <2>1, <2>2 DEF TypeOK
  <2>4. Kept
    BY <1>1, <1>5, <2>1 DEF Kept, OnRecord, TypeOK
  <2>5. HubSound'
    BY <1>1, <1>5, <2>1, <2>3, <2>4, HubStays
  <2>6. OwnFacts' = OwnFacts /\ OnRecord' = OnRecord
    BY <1>1, <2>1 DEF OwnFacts, IsFact, Own, OnRecord
  <2>7. LoopBounded(m)' /\ LoopShaped(m)'
    BY <1>1, <1>2, <2>2 DEF LoopSound, LoopBounded, LoopShaped, Applying
  <2>8. LoopFolded(m)'
    BY <1>3, <1>5, <2>2, <2>6 DEF LoopFolded
  <2>9. LoopCovered(m)'
    BY <1>2, <2>2, <2>6 DEF LoopSound, LoopCovered, Covered, Applying
  <2>10. ASSUME NEW n \in Machines, n # m PROVE LoopSound(n)'
    BY <2>2, <2>3, <2>4, <2>10, LoopStays
  <2>11. QED
    BY <2>3, <2>5, <2>7, <2>8, <2>9, <2>10 DEF LoopSound
<1>8. QED
  BY <1>6, <1>7

LEMMA PublishReturnsKeepsIInv ==
  ASSUME IInv, NEW m \in Machines, PublishReturns(m)
  PROVE  IInv'
<1> USE DEF IInv
<1>1. UNCHANGED <<log, reachable, machine, stored, view, furthest, archived, archivedAt, faults>>
  BY DEF PublishReturns, node, readModel
<1>2. Applying(m) /\ LoopSound(m)
  BY DEF PublishReturns, Applying
<1>3. PICK p \in 1 .. Len(log) : p = loops[m].batch[1] /\ p = Head(loops[m].batch)
  BY <1>2, BatchHead
<1>4. Advance(m, p) /\ queue' = Append(queue, p)
  BY <1>3 DEF PublishReturns
<1>5. p \in OwnFacts => p <= furthest
  BY <1>2, <1>3 DEF PublishReturns, LoopSound, LoopFolded
<1>6. /\ view' \in 0 .. MaxLog /\ furthest' \in 0 .. MaxLog /\ archived' \in BOOLEAN
      /\ view' <= Len(log) /\ furthest' <= Len(log) /\ furthest <= furthest'
  BY <1>1 DEF HubSound, HubBounded, TypeOK
<1> HIDE DEF IInv
<1>7. QED
  BY <1>1, <1>2, <1>3, <1>4, <1>5, <1>6, EnqueueKeepsIInv

LEMMA RecordKeepsIInv ==
  ASSUME IInv, Record
  PROVE  IInv'
<1> USE DEF IInv
<1>1. UNCHANGED <<log, reachable, machine, loops, view, furthest, archived, archivedAt, faults>>
  BY DEF Record, node, readModel
<1>2. /\ queue # <<>> /\ Len(queue) \in Nat \ {0}
      /\ DOMAIN queue = 1 .. Len(queue) /\ DOMAIN queue' = 1 .. Len(queue) - 1
      /\ queue' \in Seq(1 .. MaxLog)
      /\ \A k \in DOMAIN queue' : queue'[k] = queue[k + 1] /\ k + 1 \in DOMAIN queue
      /\ stored' = stored \cup {queue[1]} /\ queue[1] \in 1 .. MaxLog
  <2>1. queue \in Seq(1 .. MaxLog) /\ queue # <<>> /\ queue' = Tail(queue)
    BY DEF TypeOK, Record
  <2>2. /\ Tail(queue) \in Seq(1 .. MaxLog)
        /\ Head(queue) \in 1 .. MaxLog /\ Head(queue) = queue[1]
        /\ DOMAIN queue = 1 .. Len(queue) /\ Len(queue) \in Nat \ {0}
        /\ DOMAIN Tail(queue) = 1 .. Len(queue) - 1
        /\ \A k \in DOMAIN Tail(queue) : Tail(queue)[k] = queue[k + 1]
    BY <2>1, AfterTail
  <2>3. \A k \in 1 .. Len(queue) - 1 : k + 1 \in 1 .. Len(queue)
    BY <2>2
  <2>4. stored' = stored \cup {queue[1]}
    BY <2>2 DEF Record
  <2>5. QED
    BY <2>1, <2>2, <2>3, <2>4
<1>3. TypeOK'
  BY <1>1, <1>2 DEF TypeOK
<1>4. OwnFacts' = OwnFacts
  BY <1>1 DEF OwnFacts, IsFact, Own
<1>5. OnRecord' = OnRecord
  <2>1. ASSUME NEW k \in DOMAIN queue PROVE queue[k] \in OnRecord'
    <3>1. CASE k = 1
      BY <1>2, <3>1 DEF OnRecord
    <3>2. CASE k # 1
      <4>1. k - 1 \in DOMAIN queue' /\ queue'[k - 1] = queue[k]
        BY <1>2, <3>2
      <4>2. QED
        BY <4>1 DEF OnRecord
    <3>3. QED
      BY <3>1, <3>2
  <2>2. 1 \in DOMAIN queue
    BY <1>2
  <2>3. QED
    BY <1>2, <2>1, <2>2 DEF OnRecord
<1>6. Kept
  BY <1>1, <1>5 DEF Kept, TypeOK
<1>7. HubBounded'
  BY <1>1, <1>2 DEF HubSound, HubBounded
<1>8. StoredNoGaps'
  <2> SUFFICES ASSUME NEW q \in stored \cup {queue[1]}, NEW p \in OwnFacts, p < q
               PROVE  p \in stored'
    BY <1>2, <1>4 DEF StoredNoGaps
  <2>1. CASE q \in stored
    BY <1>2, <2>1 DEF HubSound, StoredNoGaps
  <2>2. CASE q = queue[1]
    <3>1. 1 \in DOMAIN queue /\ \A j \in DOMAIN queue : ~(j < 1)
      BY <1>2
    <3>2. QED
      BY <1>2, <2>2, <3>1 DEF HubSound, QueueNoGaps
  <2>3. QED
    BY <2>1, <2>2
<1>9. QueueNoGaps'
  <2> SUFFICES ASSUME NEW k \in DOMAIN queue', NEW p \in OwnFacts, p < queue'[k]
               PROVE  p \in stored' \/ \E j \in DOMAIN queue' : j < k /\ queue'[j] = p
    BY <1>4 DEF QueueNoGaps
  <2>1. p \in stored \/ \E j \in DOMAIN queue : j < k + 1 /\ queue[j] = p
    BY <1>2 DEF HubSound, QueueNoGaps
  <2>2. ASSUME NEW j \in DOMAIN queue, j < k + 1, queue[j] = p, j # 1
        PROVE  j - 1 \in DOMAIN queue' /\ j - 1 < k /\ queue'[j - 1] = p
    BY <1>2, <2>2
  <2>3. QED
    BY <1>2, <2>1, <2>2
<1>10. HubSound'
  BY <1>1, <1>4, <1>5, <1>7, <1>8, <1>9 DEF HubSound, RecordFolded
<1>11. ASSUME NEW m \in Machines PROVE LoopSound(m)'
  BY <1>1, <1>3, <1>6, LoopStays
<1>12. QED
  BY <1>3, <1>10, <1>11

LEMMA ExpireKeepsIInv ==
  ASSUME IInv, Expire
  PROVE  IInv'
<1> USE DEF IInv
<1>1. UNCHANGED <<log, reachable, machine, loops, queue, view, furthest, archived, archivedAt>>
  BY DEF Expire, node, readModel
<1>2. PICK p \in stored : ~IsFact(p) /\ stored' = stored \ {p}
  BY DEF Expire
<1>3. faults' \in 0 .. MaxFaults
  BY SyncBounds DEF Expire, Fault, TypeOK
<1>4. TypeOK'
  BY <1>1, <1>2, <1>3 DEF TypeOK
<1>5. OwnFacts' = OwnFacts /\ p \notin OwnFacts
  BY <1>1, <1>2 DEF OwnFacts, IsFact, Own
<1>6. Kept
  BY <1>1, <1>2, <1>5 DEF Kept, OnRecord, TypeOK
<1>7. HubSound'
  <2>1. HubBounded' /\ StoredNoGaps' /\ QueueNoGaps'
    BY <1>1, <1>2, <1>5 DEF HubSound, HubBounded, StoredNoGaps, QueueNoGaps
  <2>2. RecordFolded'
    BY <1>1, <1>2, <1>5 DEF HubSound, RecordFolded, OnRecord
  <2>3. QED
    BY <2>1, <2>2 DEF HubSound
<1>8. ASSUME NEW m \in Machines PROVE LoopSound(m)'
  BY <1>1, <1>4, <1>6, LoopStays
<1>9. QED
  BY <1>4, <1>7, <1>8

LEMMA HubRestartsKeepsIInv ==
  ASSUME IInv, HubRestarts
  PROVE  /\ IInv'
         /\ \A p \in OwnFacts : p < view' => p <= furthest
<1> USE DEF IInv
<1>1. /\ UNCHANGED <<log, reachable, machine, stored, archivedAt>>
      /\ queue' = <<>> /\ furthest' = view' /\ view' = Newest(stored \cap OwnFacts)
      /\ archived' = (0 < view' /\ view' <= archivedAt)
      /\ loops' = [m \in Machines |-> NoLoop]
  BY DEF HubRestarts, node
<1>2. stored \cap OwnFacts \in SUBSET (1 .. Len(log)) /\ Len(log) \in Nat /\ Len(log) <= MaxLog
  BY DEF OwnFacts, TypeOK
<1>3. /\ view' \in 0 .. Len(log)
      /\ stored \cap OwnFacts # {} => view' \in stored \cap OwnFacts
      /\ \A q \in stored \cap OwnFacts : q <= view'
  BY <1>1, <1>2, NewestIsGreatest
<1>4. NoLoop \in Loops /\ <<>> \in Seq(1 .. MaxLog)
  BY SyncBounds DEF NoLoop, Loops
<1>5. TypeOK'
  <2>1. {view', furthest'} \subseteq 0 .. MaxLog
    BY <1>1, <1>2, <1>3, SyncBounds
  <2>2. faults' \in 0 .. MaxFaults
    BY SyncBounds DEF HubRestarts, Fault, TypeOK
  <2>3. archived' \in BOOLEAN
    BY <1>1
  <2>4. loops' \in [Machines -> Loops]
    BY <1>1, <1>4
  <2>5. QED
    BY <1>1, <1>4, <2>1, <2>2, <2>3, <2>4 DEF TypeOK
<1>6. OwnFacts' = OwnFacts /\ OnRecord' = stored
  BY <1>1 DEF OwnFacts, IsFact, Own, OnRecord
<1>7. HubSound'
  <2>1. HubBounded'
    BY <1>1, <1>3 DEF HubSound, HubBounded
  <2>2. StoredNoGaps' /\ QueueNoGaps'
    BY <1>1, <1>6 DEF HubSound, StoredNoGaps, QueueNoGaps
  <2>3. RecordFolded'
    BY <1>1, <1>3, <1>6 DEF RecordFolded
  <2>4. QED
    BY <2>1, <2>2, <2>3 DEF HubSound
<1>8. ASSUME NEW m \in Machines PROVE LoopSound(m)'
  <2>1. loops'[m] = NoLoop
    BY <1>1
  <2>2. QED
    BY <1>5, <2>1, NoLoopSound
<1>9. ASSUME NEW p \in OwnFacts, p < view' PROVE p <= furthest
  <2>1. OwnFacts \subseteq Nat
    BY DEF OwnFacts, TypeOK
  <2>2. view' \in stored
    BY <1>1, <1>3, <1>9, <2>1 DEF Newest
  <2>3. p \in stored
    BY <1>9, <2>2 DEF HubSound, StoredNoGaps
  <2>4. QED
    BY <2>3 DEF HubSound, RecordFolded, OnRecord
<1>10. QED
  BY <1>5, <1>7, <1>8, <1>9

LEMMA HubArchivesKeepsIInv ==
  ASSUME IInv, HubArchives
  PROVE  IInv'
<1>1. /\ UNCHANGED <<log, reachable, machine, loops, queue, stored, view, furthest, faults>>
      /\ archived' = TRUE /\ archivedAt' = view
  BY DEF HubArchives, node
<1>2. TypeOK'
  BY <1>1 DEF IInv, TypeOK
<1>3. QED
  BY <1>1, <1>2, OthersKeepIInv

LEMMA NextKeepsIInv ==
  ASSUME IInv, [Next]_vars
  PROVE  IInv'
<1>1. ASSUME NEW kind \in Kinds, NEW own \in BOOLEAN, NodeRecords(kind, own) PROVE IInv'
  BY <1>1, NodeRecordsKeepsIInv
<1>2. ASSUME Disconnect \/ Reconnect \/ Unpair PROVE IInv'
  <2>1. UNCHANGED <<log, loops, queue, stored, view, furthest, archived, archivedAt>>
    BY <1>2 DEF Disconnect, Reconnect, Unpair, node, readModel
  <2>2. reachable' \in BOOLEAN /\ machine' \in Machines \cup {None}
    BY <1>2 DEF Disconnect, Reconnect, Unpair, node, IInv, TypeOK
  <2>3. faults' \in 0 .. MaxFaults
    BY <1>2, SyncBounds DEF Disconnect, Reconnect, Unpair, Fault, IInv, TypeOK
  <2>4. TypeOK'
    BY <2>1, <2>2, <2>3 DEF IInv, TypeOK
  <2>5. QED
    BY <2>1, <2>4, OthersKeepIInv
<1>3. ASSUME NEW m \in Machines, Pair(m) PROVE IInv'
  <2>1. /\ UNCHANGED <<log, reachable, loops, queue, stored, view, furthest, archived, archivedAt, faults>>
        /\ machine' = m
    BY <1>3 DEF Pair, node, readModel
  <2>2. TypeOK'
    BY <2>1 DEF IInv, TypeOK
  <2>3. QED
    BY <2>1, <2>2, OthersKeepIInv
<1>4. ASSUME NEW m \in Machines, LoopDies(m) \/ PollRemoved(m) PROVE IInv'
  <2>1. /\ UNCHANGED <<log, reachable, machine, queue, stored, view, furthest, archived, archivedAt>>
        /\ loops' = [loops EXCEPT ![m] = NoLoop]
    BY <1>4 DEF LoopDies, PollRemoved, node, readModel
  <2>2. faults' \in 0 .. MaxFaults
    BY <1>4, SyncBounds DEF LoopDies, PollRemoved, Fault, IInv, TypeOK
  <2>3. NoLoop \in Loops
    BY SyncBounds DEF NoLoop, Loops
  <2>4. TypeOK'
    BY <2>1, <2>2, <2>3 DEF IInv, TypeOK
  <2>5. \A n \in Machines : loops'[n] = loops[n] \/ loops'[n] = NoLoop
    BY <2>1 DEF IInv, TypeOK
  <2>6. QED
    BY <2>1, <2>4, <2>5, LoopsChangeKeepsIInv
<1>5. ASSUME Reconcile PROVE IInv'
  <2> DEFINE new == [at |-> "poll", cursor |-> Newest(stored), batch |-> <<>>]
  <2>1. UNCHANGED <<log, reachable, machine, queue, stored, view, furthest, archived, archivedAt, faults>>
    BY <1>5 DEF Reconcile, node, readModel
  <2>2. \A n \in Machines : loops'[n] = loops[n] \/ loops'[n] = NoLoop \/ loops'[n] = new
    BY <1>5 DEF Reconcile
  <2>3. NoLoop \in Loops /\ new \in Loops
    <3>1. MaxLog \in Nat /\ stored \in SUBSET (1 .. MaxLog)
      BY SyncBounds DEF IInv, TypeOK
    <3>2. Newest(stored) \in 0 .. MaxLog
      BY <3>1, NewestIsGreatest
    <3>3. QED
      BY <3>1, <3>2 DEF NoLoop, Loops
  <2>4. loops' \in [Machines -> Loops]
    <3>1. loops' = [n \in Machines |-> loops'[n]]
      BY <1>5 DEF Reconcile
    <3>2. \A n \in Machines : loops'[n] \in Loops
      BY <2>2, <2>3 DEF IInv, TypeOK
    <3>3. QED
      BY <3>1, <3>2
  <2>5. TypeOK'
    BY <2>1, <2>4 DEF IInv, TypeOK
  <2>6. QED
    BY <2>1, <2>2, <2>5, LoopsChangeKeepsIInv
<1>6. ASSUME NEW m \in Machines,
             Poll(m) \/ DropForeign(m) \/ PublishRemote(m) \/ PublishReturns(m)
      PROVE  IInv'
  BY <1>6, PollKeepsIInv, DropForeignKeepsIInv, PublishRemoteKeepsIInv, PublishReturnsKeepsIInv
<1>7. ASSUME Record \/ Expire \/ HubArchives \/ HubRestarts PROVE IInv'
  BY <1>7, RecordKeepsIInv, ExpireKeepsIInv, HubArchivesKeepsIInv, HubRestartsKeepsIInv
<1>8. ASSUME UNCHANGED vars PROVE IInv'
  <2>1. UNCHANGED <<log, loops, queue, stored, view, furthest>>
    BY <1>8 DEF vars, node, readModel
  <2>2. TypeOK'
    BY <1>8 DEF vars, node, readModel, IInv, TypeOK
  <2>3. QED
    BY <2>1, <2>2, OthersKeepIInv
<1>9. QED
  BY <1>1, <1>2, <1>3, <1>4, <1>5, <1>6, <1>7, <1>8 DEF Next

-----------------------------------------------------------------------------

LEMMA Invariance == Spec => []IInv
BY InitIInv, NextKeepsIInv, PTL DEF Spec

\* The state keeps its types: every cursor, batch and queue holds positions of
\* the node's log, for any machines, page size and queue capacity.
THEOREM TypeCorrect == Spec => []TypeOK
<1>1. IInv => TypeOK
  BY DEF IInv
<1>2. QED
  BY <1>1, Invariance, PTL

\* The hub's copy of the facts of a node has no holes, wherever a loop was
\* stopped, the recorder's queue was full or the hub restarted.
THEOREM MirrorIsWhole == Spec => []MirrorHasNoGaps
<1>1. IInv => MirrorHasNoGaps
  BY DEF IInv, HubSound, StoredNoGaps, MirrorHasNoGaps
<1>2. QED
  BY <1>1, Invariance, PTL

\* Whatever fact the hub comes to show, it has folded every earlier one.
LEMMA NextFoldsInOrder ==
  ASSUME IInv, [Next]_vars, view' # view, NEW p \in OwnFacts, p < view'
  PROVE  p <= furthest
<1>1. ASSUME NEW m \in Machines, PublishRemote(m) PROVE p <= furthest
  <2>1. Applying(m) /\ LoopSound(m) /\ TypeOK /\ HubSound
    BY <1>1 DEF PublishRemote, Applying, IInv
  <2>2. PICK q \in 1 .. Len(log) : q = loops[m].batch[1] /\ q = Head(loops[m].batch) /\ Covered(q)
    BY <2>1, BatchHead
  <2>3. Fold(q) /\ UNCHANGED log
    BY <1>1, <2>2 DEF PublishRemote, node
  <2>4. view' = q
    BY <2>1, <2>3, FoldMoves DEF HubSound
  <2>5. p \in OnRecord
    BY <2>2, <2>4 DEF Covered
  <2>6. QED
    BY <2>1, <2>5 DEF HubSound, RecordFolded
<1>2. CASE HubRestarts
  BY <1>2, HubRestartsKeepsIInv
<1>3. QED
  BY <1>1, <1>2
  DEF Next, vars, node, readModel, NodeRecords, Disconnect, Reconnect, Pair, Unpair, Reconcile,
      LoopDies, Poll, PollRemoved, DropForeign, PublishReturns, Record, Expire, HubArchives

\* No fact is folded before its antecedents, in any step of the hub: neither
\* by a loop that starts where the store says, nor by a restart.
THEOREM FoldsFollow == Spec => FoldsInOrder
<1>1. IInv /\ [Next]_vars => [\A p \in OwnFacts : p < view' => p <= furthest]_<<view>>
  BY NextFoldsInOrder
<1>2. QED
  BY <1>1, Invariance, PTL DEF Spec, FoldsInOrder

=============================================================================
