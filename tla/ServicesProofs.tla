---------------------------- MODULE ServicesProofs ----------------------------
(***************************************************************************)
(* Theorems about the server's services as MCServices puts them side by    *)
(* side: what the recorder and a retention pass keep, what a client of the *)
(* event stream reads, when a schedule fires, whom the notifier tells,     *)
(* which node a token enrols and a command reaches, and which models an    *)
(* app is pointed at.                                                      *)
(* The bus is proved in EventBusProofs; the other parts are proved here,   *)
(* over MCServices' own instances of them.                                 *)
(*                                                                         *)
(* The constants are MCServices' own, of any value that ServicesBounds     *)
(* allows; TLC evaluates that assumption for the instance it checks.       *)
(***************************************************************************)
EXTENDS MCServices, PositionLemmas

-----------------------------------------------------------------------------
(* Retention *)

\* NothingLost does not carry itself over a deletion: what is about to be
\* deleted must be old enough for its rule and outside the protected
\* namespaces, though the page was read some steps ago, ...
Doomed ==
  /\ pass.at # "idle" => pass.rule \in DOMAIN Rules /\ pass.now <= R!Now
  /\ \A e \in pass.batch : /\ e \in DOMAIN born
                           /\ e + Rules[pass.rule].age < R!Now
                           /\ born[e].type \notin Protected

\* ... and archived by now if its rule says so.
Copied ==
  pass.at = "deleting" => /\ pass.rule \in DOMAIN Rules
                          /\ Rules[pass.rule].archive => \A e \in pass.batch : archive[e] > 0

\* Between two pages, and between two passes, there is no batch.
WalkingHasNone == pass.at \in {"idle", "walking"} => pass.batch = {}

RetentionInv == R!TypeOK /\ Doomed /\ Copied /\ WalkingHasNone /\ R!NothingLost

\* What RetentionInv says of the types, as the proofs use it.
LEMMA RetentionTypes ==
  ASSUME R!TypeOK
  PROVE  /\ MaxInstants \in Nat /\ MaxCrashes \in Nat
         /\ Rules \in Seq([types : SUBSET Types, age : Nat, archive : BOOLEAN])
         /\ R!Now \in Nat /\ R!Now <= MaxInstants /\ DOMAIN born = 1 .. R!Now
         /\ R!Instants = 1 .. MaxInstants /\ DOMAIN born \subseteq R!Instants
         /\ DOMAIN Rules = 1 .. Len(Rules) /\ Len(Rules) \in Nat
         /\ \A r \in DOMAIN Rules : Rules[r].age \in Nat /\ Rules[r].archive \in BOOLEAN
         /\ pass.now \in Nat
         /\ R!OfOther \subseteq 1 .. R!Now
<1>1. /\ MaxInstants \in Nat /\ MaxCrashes \in Nat
      /\ Rules \in Seq([types : SUBSET Types, age : Nat, archive : BOOLEAN])
  BY ServicesBounds DEF R!RetentionBounds
<1>2. born \in Seq(R!Happening) /\ R!Now <= MaxInstants /\ pass.now \in 0 .. MaxInstants
  BY DEF R!TypeOK
<1>3. R!Now = Len(born) /\ R!Instants = 1 .. MaxInstants
  BY DEF R!Now, R!Instants
<1>4. R!Now \in Nat /\ DOMAIN born = 1 .. R!Now
  BY <1>2, <1>3
<1>5. DOMAIN Rules = 1 .. Len(Rules) /\ Len(Rules) \in Nat
  BY <1>1
<1>6. ASSUME NEW r \in DOMAIN Rules PROVE Rules[r].age \in Nat /\ Rules[r].archive \in BOOLEAN
  <2>1. Rules[r] \in [types : SUBSET Types, age : Nat, archive : BOOLEAN]
    BY <1>1, <1>5, ElementOfSeq, Zenon
  <2>2. QED
    BY <2>1
<1>7. R!OfOther \subseteq DOMAIN born
  BY DEF R!OfOther
<1>8. QED
  BY <1>1, <1>2, <1>3, <1>4, <1>5, <1>6, <1>7

LEMMA RetentionInit == R!Init => RetentionInv
<1> SUFFICES ASSUME R!Init PROVE RetentionInv
  OBVIOUS
<1>1. /\ MaxInstants \in Nat /\ MaxCrashes \in Nat
      /\ Rules \in Seq([types : SUBSET Types, age : Nat, archive : BOOLEAN])
  BY ServicesBounds DEF R!RetentionBounds
<1>2. /\ born = <<>> /\ mirrored = {} /\ log = {} /\ expired = {} /\ cursor = 0 /\ crashes = 0
      /\ archive = [e \in R!Instants |-> 0]
      /\ pass = [at |-> "idle", now |-> 0, rule |-> 0, cursor |-> 0, batch |-> {}]
  BY DEF R!Init, R!Idle
<1>3. <<>> \in Seq(R!Happening) /\ Len(<<>>) = 0 /\ DOMAIN <<>> = {}
  OBVIOUS
<1>4. born \in Seq(R!Happening)
  BY <1>2, <1>3, Zenon
<1>5. R!Now = 0 /\ DOMAIN born = {}
  BY <1>2, <1>3 DEF R!Now
<1>6. pass \in [at : {"idle", "walking", "archiving", "deleting"}, now : 0 .. MaxInstants,
                rule : 0 .. Len(Rules), cursor : 0 .. MaxInstants, batch : SUBSET R!Instants]
  <2>1. 0 \in 0 .. MaxInstants /\ 0 \in 0 .. Len(Rules)
    BY <1>1
  <2>2. QED
    BY <1>2, <2>1
<1>7. archive \in [R!Instants -> Nat]
  BY <1>2
<1>8. R!TypeOK
  BY <1>1, <1>2, <1>4, <1>5, <1>6, <1>7 DEF R!TypeOK
<1>9. Doomed /\ Copied /\ WalkingHasNone
  BY <1>2 DEF Doomed, Copied, WalkingHasNone
<1>10. R!NothingLost
  BY <1>2, <1>5 DEF R!NothingLost
<1>11. QED
  BY <1>8, <1>9, <1>10 DEF RetentionInv

\* What _archive_events() has written adds to the archive.
LEMMA ArchiveGrows ==
  ASSUME R!TypeOK, NEW last, R!Archived(last)
  PROVE  /\ archive' \in [R!Instants -> Nat]
         /\ \A e \in R!Instants : archive[e] > 0 => archive'[e] > 0
         /\ \A e \in R!Instants : e \in pass.batch /\ e <= last => archive'[e] > 0
<1>1. archive \in [R!Instants -> Nat]
  BY DEF R!TypeOK
<1>2. archive' = [e \in R!Instants |->
                    archive[e] + (IF e \in pass.batch /\ e <= last THEN 1 ELSE 0)]
  BY DEF R!Archived
<1>3. ASSUME NEW e \in R!Instants
      PROVE  /\ archive[e] \in Nat /\ archive'[e] \in Nat
             /\ archive[e] > 0 => archive'[e] > 0
             /\ e \in pass.batch /\ e <= last => archive'[e] > 0
  <2>1. archive[e] \in Nat
    BY <1>1
  <2>2. archive'[e] = archive[e] + (IF e \in pass.batch /\ e <= last THEN 1 ELSE 0)
    BY <1>2
  <2>3. CASE e \in pass.batch /\ e <= last
    BY <2>1, <2>2, <2>3
  <2>4. CASE ~(e \in pass.batch /\ e <= last)
    BY <2>1, <2>2, <2>4
  <2>5. QED
    BY <2>3, <2>4
<1>4. QED
  BY <1>2, <1>3

\* While no instant passes, NothingLost depends on what leaves the log only.
LEMMA LossIsDeletion ==
  ASSUME R!TypeOK, R!NothingLost, born' = born,
         mirrored' \subseteq mirrored \cup log',
         expired \subseteq expired',
         \A e \in R!Instants : archive[e] > 0 => archive'[e] > 0,
         \A e \in log \ log' :
           /\ born[e].type \notin Protected
           /\ \E x \in expired' : /\ x.event = e
                                  /\ e + Rules[x.rule].age < R!Now
                                  /\ Rules[x.rule].archive => archive'[e] > 0
  PROVE  R!NothingLost'
<1> DEFINE Told == {i \in DOMAIN born : born[i].node = "hub"}
           Gone(e) == /\ born[e].type \notin Protected
                      /\ \E x \in expired : /\ x.event = e
                                            /\ e + Rules[x.rule].age < R!Now
                                            /\ Rules[x.rule].archive => archive[e] > 0
           GoneThen(e) == /\ born[e].type \notin Protected
                          /\ \E x \in expired' : /\ x.event = e
                                                 /\ e + Rules[x.rule].age < R!Now
                                                 /\ Rules[x.rule].archive => archive'[e] > 0
<1>1. R!Now' = R!Now
  BY DEF R!Now
<1>2. Told \subseteq R!Instants /\ mirrored \subseteq R!Instants
  BY RetentionTypes DEF R!TypeOK
<1>3. \A e \in mirrored \cup Told : e \in log \/ Gone(e)
  BY DEF R!NothingLost
<1>4. \A e \in R!Instants : Gone(e) => GoneThen(e)
  OBVIOUS
<1>5. \A e \in log \ log' : GoneThen(e)
  OBVIOUS
<1>6. \A e \in mirrored' \cup Told : e \in log' \/ GoneThen(e)
  <2> HIDE DEF Gone, GoneThen, Told
  <2>1. QED
    BY <1>2, <1>3, <1>4, <1>5
<1>7. QED
  BY <1>1, <1>6 DEF R!NothingLost

LEMMA NextInstant == ASSUME RetentionInv, R!Instant PROVE RetentionInv'
<1> USE DEF RetentionInv
<1>1. PICK h \in R!Happening :
        /\ R!Now < MaxInstants
        /\ born' = Append(born, h)
        /\ log' = IF h.node = "hub" THEN log \cup {R!Now + 1} ELSE log
        /\ UNCHANGED <<mirrored, cursor, archive, pass, expired, crashes>>
  BY DEF R!Instant
<1>2. born \in Seq(R!Happening) /\ R!Now = Len(born)
  BY DEF R!TypeOK, R!Now
<1>3. /\ born' \in Seq(R!Happening) /\ R!Now \in Nat /\ R!Now' = R!Now + 1
      /\ DOMAIN born = 1 .. R!Now /\ DOMAIN born' = 1 .. R!Now + 1
      /\ \A k \in 1 .. R!Now : born'[k] = born[k]
      /\ born'[R!Now + 1] = h
  <2>1. R!Now' = Len(born')
    BY DEF R!Now
  <2>2. QED
    BY <1>1, <1>2, <2>1, AfterAppend
<1>4. R!Now' <= MaxInstants
  BY <1>1, <1>3, RetentionTypes
<1>5. R!OfOther \subseteq R!OfOther'
  BY <1>3 DEF R!OfOther
<1>6. R!TypeOK'
  <2>1. log' \subseteq DOMAIN born' /\ mirrored' \subseteq R!OfOther'
    BY <1>1, <1>3, <1>5 DEF R!TypeOK
  <2>2. cursor' \in 0 .. R!Now'
    BY <1>1, <1>3 DEF R!TypeOK
  <2>3. R!Instants' = R!Instants
    BY DEF R!Instants
  <2>4. QED
    BY <1>1, <1>3, <1>4, <2>1, <2>2, <2>3 DEF R!TypeOK, R!Instants
<1>7. Doomed'
  <2>1. pass'.at # "idle" => pass'.rule \in DOMAIN Rules /\ pass'.now <= R!Now'
    BY <1>1, <1>3, RetentionTypes DEF Doomed
  <2>2. ASSUME NEW e \in pass'.batch
        PROVE  /\ e \in DOMAIN born'
               /\ e + Rules[pass'.rule].age < R!Now'
               /\ born'[e].type \notin Protected
    <3>1. /\ pass' = pass /\ e \in pass.batch /\ e \in DOMAIN born
          /\ e + Rules[pass.rule].age < R!Now
          /\ born[e].type \notin Protected
      BY <1>1, <2>2 DEF Doomed
    <3>2. pass.rule \in DOMAIN Rules
      BY <3>1 DEF Doomed, WalkingHasNone
    <3>3. Rules[pass.rule].age \in Nat /\ e \in Nat
      BY <1>3, <3>1, <3>2, RetentionTypes
    <3>4. QED
      BY <1>3, <3>1, <3>3
  <2>3. QED
    BY <2>1, <2>2 DEF Doomed
<1>8. Copied' /\ WalkingHasNone'
  BY <1>1 DEF Copied, WalkingHasNone
<1>9. R!NothingLost'
  <2>1. ASSUME NEW e \in mirrored' \cup {i \in DOMAIN born' : born'[i].node = "hub"}, e \notin log'
        PROVE  /\ born'[e].type \notin Protected
               /\ \E x \in expired' : /\ x.event = e
                                      /\ e + Rules[x.rule].age < R!Now'
                                      /\ Rules[x.rule].archive => archive'[e] > 0
    <3>1. e \in 1 .. R!Now /\ born'[e] = born[e] /\ e \notin log
      <4>1. mirrored \subseteq 1 .. R!Now
        BY RetentionTypes DEF R!TypeOK
      <4>2. CASE e \in mirrored
        BY <1>1, <1>3, <2>1, <4>1, <4>2
      <4>3. CASE e \notin mirrored
        BY <1>1, <1>3, <2>1, <4>3
      <4>4. QED
        BY <4>2, <4>3
    <3>2. e \in mirrored \cup {i \in DOMAIN born : born[i].node = "hub"}
      BY <1>1, <1>3, <2>1, <3>1
    <3>3. PICK x \in expired : /\ born[e].type \notin Protected
                               /\ x.event = e
                               /\ e + Rules[x.rule].age < R!Now
                               /\ Rules[x.rule].archive => archive[e] > 0
      BY <3>1, <3>2 DEF R!NothingLost
    <3>4. x.rule \in DOMAIN Rules
      BY DEF R!TypeOK
    <3>5. Rules[x.rule].age \in Nat
      BY <3>4, RetentionTypes
    <3>6. e + Rules[x.rule].age < R!Now'
      BY <1>3, <3>1, <3>3, <3>5
    <3>7. QED
      BY <1>1, <3>1, <3>3, <3>6
  <2>2. QED
    BY <2>1 DEF R!NothingLost
<1>10. QED
  BY <1>6, <1>7, <1>8, <1>9

LEMMA NextMirror == ASSUME RetentionInv, R!Mirror PROVE RetentionInv'
<1> USE DEF RetentionInv
<1>1. PICK after : /\ after = {e \in R!OfOther : e > cursor} /\ after # {}
                   /\ cursor' = R!Min(after)
                   /\ log' = log \cup {R!Min(after)}
                   /\ mirrored' = mirrored \cup {R!Min(after)}
                   /\ UNCHANGED <<born, archive, pass, expired, crashes>>
  BY DEF R!Mirror
<1>2. R!Min(after) \in after
  <2>1. \A e \in after : e \in 0 .. MaxInstants
    BY <1>1, RetentionTypes
  <2>2. \E p \in after : \A q \in after : p <= q
    BY <1>1, <2>1, LeastExists, RetentionTypes
  <2>3. QED
    BY <2>2 DEF R!Min
<1>3. R!Min(after) \in R!OfOther /\ R!Min(after) \in 1 .. R!Now /\ R!Min(after) \in DOMAIN born
  BY <1>1, <1>2, RetentionTypes
<1>4. R!Now' = R!Now /\ R!OfOther' = R!OfOther /\ R!Instants' = R!Instants
  BY <1>1 DEF R!Now, R!OfOther, R!Instants
<1>5. R!TypeOK'
  <2>1. log' \subseteq DOMAIN born' /\ mirrored' \subseteq R!OfOther' /\ cursor' \in 0 .. R!Now'
    <3> DEFINE e == R!Min(after)
    <3>1. e \in R!OfOther /\ e \in 1 .. R!Now /\ e \in DOMAIN born
      BY <1>3
    <3>2. log' = log \cup {e} /\ mirrored' = mirrored \cup {e} /\ cursor' = e /\ born' = born
      BY <1>1
    <3>3. log \subseteq DOMAIN born /\ mirrored \subseteq R!OfOther /\ R!Now \in Nat
      BY RetentionTypes DEF R!TypeOK
    <3>4. e \in 0 .. R!Now
      BY <3>1, <3>3
    <3> HIDE DEF e
    <3>5. QED
      BY <1>4, <3>1, <3>2, <3>3, <3>4
  <2>2. QED
    BY <1>1, <1>4, <2>1 DEF R!TypeOK
<1>6. Doomed' /\ Copied' /\ WalkingHasNone'
  BY <1>1, <1>4 DEF Doomed, Copied, WalkingHasNone
<1>7. R!NothingLost'
  BY <1>1, LossIsDeletion
<1>8. QED
  BY <1>5, <1>6, <1>7

\* A pass that ends where it is has nothing in hand.
LEMMA IdlePass ==
  /\ R!Idle = [at |-> "idle", now |-> 0, rule |-> 0, cursor |-> 0, batch |-> {}]
  /\ R!Idle \in [at : {"idle", "walking", "archiving", "deleting"}, now : 0 .. MaxInstants,
                 rule : 0 .. Len(Rules), cursor : 0 .. MaxInstants, batch : SUBSET R!Instants]
<1>1. 0 \in 0 .. MaxInstants /\ 0 \in 0 .. Len(Rules)
  BY ServicesBounds DEF R!RetentionBounds
<1>2. R!Idle = [at |-> "idle", now |-> 0, rule |-> 0, cursor |-> 0, batch |-> {}]
  BY DEF R!Idle
<1>3. QED
  BY <1>1, <1>2

LEMMA NextStartPass == ASSUME RetentionInv, R!StartPass PROVE RetentionInv'
<1> USE DEF RetentionInv
<1>1. /\ Rules # <<>>
      /\ pass' = [R!Idle EXCEPT !.at = "walking", !.now = R!Now, !.rule = 1]
      /\ UNCHANGED <<born, mirrored, log, cursor, archive, expired, crashes>>
  BY DEF R!StartPass
<1>2. pass' = [at |-> "walking", now |-> R!Now, rule |-> 1, cursor |-> 0, batch |-> {}]
  BY <1>1, IdlePass
<1>3. 1 \in DOMAIN Rules /\ R!Now \in 0 .. MaxInstants
  <2>1. Rules \in Seq([types : SUBSET Types, age : Nat, archive : BOOLEAN])
    BY RetentionTypes
  <2>2. 1 \in DOMAIN Rules
    BY <1>1, <2>1, AfterTail
  <2>3. QED
    BY <2>2, RetentionTypes
<1>4. R!Now' = R!Now /\ R!OfOther' = R!OfOther /\ R!Instants' = R!Instants
  BY <1>1 DEF R!Now, R!OfOther, R!Instants
<1>5. pass' \in [at : {"idle", "walking", "archiving", "deleting"}, now : 0 .. MaxInstants,
                 rule : 0 .. Len(Rules), cursor : 0 .. MaxInstants, batch : SUBSET R!Instants]
  <2>1. 0 \in 0 .. MaxInstants /\ 1 \in 0 .. Len(Rules)
    BY <1>3, RetentionTypes
  <2>2. QED
    BY <1>2, <1>3, <2>1
<1>6. R!TypeOK'
  BY <1>1, <1>4, <1>5 DEF R!TypeOK
<1>7. Doomed' /\ Copied' /\ WalkingHasNone'
  BY <1>2, <1>3, <1>4, RetentionTypes DEF Doomed, Copied, WalkingHasNone
<1>8. R!NothingLost'
  BY <1>1, LossIsDeletion
<1>9. QED
  BY <1>6, <1>7, <1>8

LEMMA NextNextPage == ASSUME RetentionInv, R!NextPage PROVE RetentionInv'
<1> USE DEF RetentionInv
<1>1. PICK rule, page :
        /\ rule = Rules[pass.rule] /\ page = R!Page(rule)
        /\ pass.at = "walking"
        /\ pass' =
             IF page = {}
               THEN IF pass.rule = Len(Rules) THEN R!Idle
                    ELSE [pass EXCEPT !.rule = pass.rule + 1, !.cursor = 0]
               ELSE [pass EXCEPT !.cursor = R!Max(page),
                                 !.batch = R!Expendable(page),
                                 !.at = IF R!Expendable(page) = {} THEN "walking"
                                        ELSE IF rule.archive THEN "archiving" ELSE "deleting"]
        /\ UNCHANGED <<born, mirrored, log, cursor, archive, expired, crashes>>
  BY DEF R!NextPage
<1>2. R!Now' = R!Now /\ R!OfOther' = R!OfOther /\ R!Instants' = R!Instants
  BY <1>1 DEF R!Now, R!OfOther, R!Instants
<1>3. /\ pass \in [at : {"idle", "walking", "archiving", "deleting"}, now : 0 .. MaxInstants,
                   rule : 0 .. Len(Rules), cursor : 0 .. MaxInstants, batch : SUBSET R!Instants]
      /\ log \subseteq DOMAIN born
  BY DEF R!TypeOK
<1>4. pass.rule \in DOMAIN Rules /\ pass.now <= R!Now
  BY <1>1 DEF Doomed
<1>5. rule.age \in Nat /\ pass.now \in Nat /\ R!Now \in Nat
  BY <1>1, <1>4, RetentionTypes
<1>6. \A e \in page : e \in log /\ e + rule.age < pass.now
  BY <1>1 DEF R!Page
<1>7. R!Expendable(page) = {e \in page : born[e].type \notin Protected}
  BY DEF R!Expendable
<1>8. CASE page = {} /\ pass.rule = Len(Rules)
  <2>1. pass' = R!Idle
    BY <1>1, <1>8
  <2>2. R!TypeOK'
    BY <1>1, <1>2, <2>1, IdlePass DEF R!TypeOK
  <2>3. Doomed' /\ Copied' /\ WalkingHasNone'
    BY <2>1, IdlePass DEF Doomed, Copied, WalkingHasNone
  <2>4. QED
    BY <1>1, <2>2, <2>3, LossIsDeletion
<1>9. CASE page = {} /\ pass.rule # Len(Rules)
  <2>1. pass' = [pass EXCEPT !.rule = pass.rule + 1, !.cursor = 0]
    BY <1>1, <1>9
  <2>2. pass.rule + 1 \in DOMAIN Rules /\ pass.rule + 1 \in 0 .. Len(Rules) /\ 0 \in 0 .. MaxInstants
    BY <1>4, <1>9, RetentionTypes
  <2>3. R!TypeOK'
    BY <1>1, <1>2, <1>3, <2>1, <2>2 DEF R!TypeOK
  <2>4. pass.batch = {}
    BY <1>1 DEF WalkingHasNone
  <2>5. /\ pass'.at = "walking" /\ pass'.rule \in DOMAIN Rules /\ pass'.now = pass.now
        /\ pass'.batch = {}
    BY <1>1, <1>3, <2>1, <2>2, <2>4
  <2>6. Doomed' /\ Copied' /\ WalkingHasNone'
    BY <1>2, <1>4, <2>5 DEF Doomed, Copied, WalkingHasNone
  <2>7. QED
    BY <1>1, <2>3, <2>6, LossIsDeletion
<1>10. CASE page # {}
  <2>1. pass' = [pass EXCEPT !.cursor = R!Max(page),
                             !.batch = R!Expendable(page),
                             !.at = IF R!Expendable(page) = {} THEN "walking"
                                    ELSE IF rule.archive THEN "archiving" ELSE "deleting"]
    BY <1>1, <1>10
  <2>2. R!Max(page) \in 0 .. MaxInstants
    <3>1. \A e \in page : e \in 0 .. MaxInstants
      BY <1>3, <1>6, RetentionTypes
    <3>2. \E p \in page : \A q \in page : q <= p
      BY <1>10, <3>1, GreatestExists, RetentionTypes
    <3>3. R!Max(page) \in page
      BY <3>2 DEF R!Max
    <3>4. QED
      BY <3>1, <3>3
  <2>3. R!Expendable(page) \subseteq R!Instants
    BY <1>3, <1>6, <1>7, RetentionTypes
  <2>4. /\ pass'.at \in {"walking", "archiving", "deleting"}
        /\ pass'.at = "deleting" => ~rule.archive
        /\ pass'.at = "walking" => R!Expendable(page) = {}
        /\ pass'.rule = pass.rule /\ pass'.now = pass.now
        /\ pass'.batch = R!Expendable(page)
    BY <1>3, <2>1
  <2>5. pass' \in [at : {"idle", "walking", "archiving", "deleting"}, now : 0 .. MaxInstants,
                   rule : 0 .. Len(Rules), cursor : 0 .. MaxInstants, batch : SUBSET R!Instants]
    BY <1>3, <2>1, <2>2, <2>3
  <2>6. R!TypeOK'
    BY <1>1, <1>2, <2>5 DEF R!TypeOK
  <2>7. ASSUME NEW e \in R!Expendable(page)
        PROVE  /\ e \in DOMAIN born
               /\ e + rule.age < R!Now
               /\ born[e].type \notin Protected
    <3>1. e \in page /\ e \in log /\ e + rule.age < pass.now
      BY <1>6, <1>7
    <3>2. e \in Nat
      BY <1>3, <3>1, RetentionTypes
    <3>3. e + rule.age < R!Now
      BY <1>4, <1>5, <3>1, <3>2
    <3>4. QED
      BY <1>3, <1>7, <3>1, <3>3
  <2>8. Doomed'
    BY <1>1, <1>2, <1>4, <2>4, <2>7 DEF Doomed
  <2>9. Copied' /\ WalkingHasNone'
    BY <1>1, <1>4, <2>4 DEF Copied, WalkingHasNone
  <2>10. QED
    BY <1>1, <2>6, <2>8, <2>9, LossIsDeletion
<1>11. QED
  BY <1>8, <1>9, <1>10

LEMMA NextArchiveBatch == ASSUME RetentionInv, R!ArchiveBatch PROVE RetentionInv'
<1> USE DEF RetentionInv
<1>1. /\ pass.at = "archiving"
      /\ R!Archived(MaxInstants)
      /\ pass' = [pass EXCEPT !.at = "deleting"]
      /\ UNCHANGED <<born, mirrored, log, cursor, expired, crashes>>
  BY DEF R!ArchiveBatch
<1>2. R!Now' = R!Now /\ R!OfOther' = R!OfOther /\ R!Instants' = R!Instants
  BY <1>1 DEF R!Now, R!OfOther, R!Instants
<1>3. /\ archive' \in [R!Instants -> Nat]
      /\ \A e \in R!Instants : archive[e] > 0 => archive'[e] > 0
      /\ \A e \in R!Instants : e \in pass.batch /\ e <= MaxInstants => archive'[e] > 0
  BY <1>1, ArchiveGrows
<1>4. pass \in [at : {"idle", "walking", "archiving", "deleting"}, now : 0 .. MaxInstants,
                rule : 0 .. Len(Rules), cursor : 0 .. MaxInstants, batch : SUBSET R!Instants]
  BY DEF R!TypeOK
<1>5. /\ pass'.at = "deleting" /\ pass'.rule = pass.rule /\ pass'.now = pass.now
      /\ pass'.batch = pass.batch
  BY <1>1, <1>4
<1>6. R!TypeOK'
  BY <1>1, <1>2, <1>3, <1>4 DEF R!TypeOK
<1>7. Doomed' /\ WalkingHasNone'
  BY <1>1, <1>2, <1>5 DEF Doomed, WalkingHasNone
<1>8. \A e \in pass.batch : archive'[e] > 0
  <2>1. \A e \in pass.batch : e \in R!Instants /\ e <= MaxInstants
    BY <1>4, RetentionTypes
  <2>2. QED
    BY <1>3, <2>1
<1>9. Copied'
  BY <1>1, <1>5, <1>8 DEF Copied, Doomed
<1>10. R!NothingLost'
  BY <1>1, <1>3, LossIsDeletion
<1>11. QED
  BY <1>6, <1>7, <1>9, <1>10

LEMMA NextArchiveFails == ASSUME RetentionInv, R!ArchiveFails PROVE RetentionInv'
<1> USE DEF RetentionInv
<1>1. PICK last : /\ crashes < MaxCrashes /\ crashes' = crashes + 1
                  /\ R!Archived(last)
                  /\ pass' = R!Idle
                  /\ UNCHANGED <<born, mirrored, log, cursor, expired>>
  BY DEF R!ArchiveFails
<1>2. R!Now' = R!Now /\ R!OfOther' = R!OfOther /\ R!Instants' = R!Instants
  BY <1>1 DEF R!Now, R!OfOther, R!Instants
<1>3. /\ archive' \in [R!Instants -> Nat]
      /\ \A e \in R!Instants : archive[e] > 0 => archive'[e] > 0
  BY <1>1, ArchiveGrows
<1>4. crashes' \in 0 .. MaxCrashes
  <2>1. crashes \in 0 .. MaxCrashes
    BY DEF R!TypeOK
  <2>2. MaxCrashes \in Nat
    BY RetentionTypes
  <2>3. QED
    BY <1>1, <2>1, <2>2
<1>5. R!TypeOK'
  BY <1>1, <1>2, <1>3, <1>4, IdlePass DEF R!TypeOK
<1>6. Doomed' /\ Copied' /\ WalkingHasNone'
  BY <1>1, IdlePass DEF Doomed, Copied, WalkingHasNone
<1>7. R!NothingLost'
  BY <1>1, <1>3, LossIsDeletion
<1>8. QED
  BY <1>5, <1>6, <1>7

\* The step that could lose something.
LEMMA NextDeleteBatch == ASSUME RetentionInv, R!DeleteBatch PROVE RetentionInv'
<1> USE DEF RetentionInv
<1>1. /\ pass.at = "deleting"
      /\ log' = log \ pass.batch
      /\ expired' = expired \cup {[event |-> e, rule |-> pass.rule] : e \in pass.batch \cap log}
      /\ pass' = [pass EXCEPT !.at = "walking", !.batch = {}]
      /\ UNCHANGED <<born, mirrored, cursor, archive, crashes>>
  BY DEF R!DeleteBatch, R!Delete
<1>2. R!Now' = R!Now /\ R!OfOther' = R!OfOther /\ R!Instants' = R!Instants
  BY <1>1 DEF R!Now, R!OfOther, R!Instants
<1>3. /\ pass \in [at : {"idle", "walking", "archiving", "deleting"}, now : 0 .. MaxInstants,
                   rule : 0 .. Len(Rules), cursor : 0 .. MaxInstants, batch : SUBSET R!Instants]
      /\ log \subseteq DOMAIN born
      /\ expired \subseteq [event : R!Instants, rule : DOMAIN Rules]
  BY DEF R!TypeOK
<1>4. /\ pass'.at = "walking" /\ pass'.rule = pass.rule /\ pass'.now = pass.now
      /\ pass'.batch = {}
  BY <1>1, <1>3
<1>5. pass.rule \in DOMAIN Rules /\ pass.now <= R!Now
  BY <1>1 DEF Doomed
<1>6. expired' \subseteq [event : R!Instants, rule : DOMAIN Rules]
  BY <1>1, <1>3, <1>5
<1>7. R!TypeOK'
  BY <1>1, <1>2, <1>3, <1>6 DEF R!TypeOK
<1>8. Doomed' /\ Copied' /\ WalkingHasNone'
  BY <1>2, <1>4, <1>5 DEF Doomed, Copied, WalkingHasNone
<1>9. ASSUME NEW e \in log \ log'
      PROVE  /\ born[e].type \notin Protected
             /\ \E x \in expired' : /\ x.event = e
                                    /\ e + Rules[x.rule].age < R!Now
                                    /\ Rules[x.rule].archive => archive'[e] > 0
  <2>1. e \in pass.batch \cap log
    BY <1>1
  <2>2. [event |-> e, rule |-> pass.rule] \in expired'
    BY <1>1, <2>1
  <2>3. born[e].type \notin Protected /\ e + Rules[pass.rule].age < R!Now
    BY <2>1 DEF Doomed
  <2>4. Rules[pass.rule].archive => archive'[e] > 0
    BY <1>1, <2>1 DEF Copied
  <2>5. QED
    BY <2>2, <2>3, <2>4
<1>10. R!NothingLost'
  BY <1>1, <1>9, LossIsDeletion
<1>11. QED
  BY <1>7, <1>8, <1>10

LEMMA NextCrash == ASSUME RetentionInv, R!Crash PROVE RetentionInv'
<1> USE DEF RetentionInv
<1>1. PICK last : /\ crashes < MaxCrashes /\ crashes' = crashes + 1
                  /\ R!Archived(last)
                  /\ pass' = R!Idle
                  /\ cursor' = R!Max({0} \cup (log \cap R!OfOther))
                  /\ UNCHANGED <<born, mirrored, log, expired>>
  BY DEF R!Crash
<1>2. R!Now' = R!Now /\ R!OfOther' = R!OfOther /\ R!Instants' = R!Instants
  BY <1>1 DEF R!Now, R!OfOther, R!Instants
<1>3. /\ archive' \in [R!Instants -> Nat]
      /\ \A e \in R!Instants : archive[e] > 0 => archive'[e] > 0
  BY <1>1, ArchiveGrows
<1>4. crashes' \in 0 .. MaxCrashes
  <2>1. crashes \in 0 .. MaxCrashes
    BY DEF R!TypeOK
  <2>2. MaxCrashes \in Nat
    BY RetentionTypes
  <2>3. QED
    BY <1>1, <2>1, <2>2
<1>5. cursor' \in 0 .. R!Now
  <2>1. PICK held : held = {0} \cup (log \cap R!OfOther)
    OBVIOUS
  <2>2. (\A e \in held : e \in 0 .. R!Now) /\ held # {}
    BY <2>1, RetentionTypes
  <2>3. \E p \in held : \A q \in held : q <= p
    BY <2>2, GreatestExists, RetentionTypes
  <2>4. R!Max(held) \in held
    BY <2>3 DEF R!Max
  <2>5. QED
    BY <1>1, <2>1, <2>2, <2>4
<1>6. R!TypeOK'
  BY <1>1, <1>2, <1>3, <1>4, <1>5, IdlePass DEF R!TypeOK
<1>7. Doomed' /\ Copied' /\ WalkingHasNone'
  BY <1>1, IdlePass DEF Doomed, Copied, WalkingHasNone
<1>8. R!NothingLost'
  BY <1>1, <1>3, LossIsDeletion
<1>9. QED
  BY <1>6, <1>7, <1>8

LEMMA RetentionNext == RetentionInv /\ [R!Next]_(R!vars) => RetentionInv'
<1> SUFFICES ASSUME RetentionInv, [R!Next]_(R!vars) PROVE RetentionInv'
  OBVIOUS
<1>1. CASE UNCHANGED R!vars
  BY <1>1 DEF R!vars, RetentionInv, R!TypeOK, Doomed, Copied, WalkingHasNone, R!NothingLost,
              R!Now, R!OfOther, R!Instants
<1>2. CASE R!Next
  BY <1>2, NextInstant, NextMirror, NextStartPass, NextNextPage, NextArchiveBatch,
     NextArchiveFails, NextDeleteBatch, NextCrash DEF R!Next
<1>3. QED
  BY <1>1, <1>2

LEMMA RetentionStep ==
  ASSUME [Next]_vars
  PROVE  [R!Next]_(R!vars)
<1>1. ASSUME UNCHANGED retentionVars PROVE UNCHANGED R!vars
  BY <1>1 DEF retentionVars, R!vars
<1>2. CASE UNCHANGED vars \/ Bus \/ Scheduling \/ Pairing \/ Notifying \/ Extending
  BY <1>1, <1>2 DEF vars, Bus, Scheduling, Pairing, Notifying, Extending
<1>3. CASE Retaining
  BY <1>3 DEF Retaining
<1>4. QED
  BY <1>2, <1>3 DEF Next

LEMMA RetentionSound == Spec => []RetentionInv
<1>1. Init => RetentionInv
  BY RetentionInit DEF Init
<1>2. RetentionInv /\ [Next]_vars => RetentionInv'
  BY RetentionStep, RetentionNext
<1>3. QED
  BY <1>1, <1>2, PTL DEF Spec

-----------------------------------------------------------------------------
(* Cron: the search finds the first instant that fires *)

LEMMA CronTypes ==
  /\ MinutesPerHour \in Nat \ {0} /\ HoursPerDay \in Nat \ {0} /\ SearchLimit \in Nat \ {0}
  /\ ChangeAt \in Nat /\ PutBack \in Nat /\ PutBack <= ChangeAt
  /\ DayLength = HoursPerDay * MinutesPerHour /\ DayLength \in Nat \ {0}
<1>1. /\ MinutesPerHour \in Nat \ {0} /\ HoursPerDay \in Nat \ {0} /\ SearchLimit \in Nat \ {0}
      /\ ChangeAt \in Nat /\ PutBack \in Nat /\ PutBack <= ChangeAt
  BY ServicesBounds DEF CronBounds
<1>2. DayLength = HoursPerDay * MinutesPerHour
  BY DEF DayLength
<1>3. 1 * MinutesPerHour <= HoursPerDay * MinutesPerHour
  BY <1>1, ProductGrows
<1>4. HoursPerDay * MinutesPerHour \in Nat
  BY <1>1
<1>5. QED
  BY <1>1, <1>2, <1>3, <1>4

\* A day, an hour and a minute make a minute of the wall clock, ...
LEMMA TimeOfDay ==
  ASSUME NEW h \in 0 .. HoursPerDay - 1, NEW m \in 0 .. MinutesPerHour - 1
  PROVE  /\ h * MinutesPerHour + m \in 0 .. DayLength - 1
         /\ (h * MinutesPerHour + m) \div MinutesPerHour = h
         /\ (h * MinutesPerHour + m) % MinutesPerHour = m
<1>1. h \in Nat /\ h + 1 \in Nat /\ h + 1 <= HoursPerDay /\ HoursPerDay \in Nat
  BY CronTypes
<1>2. (h + 1) * MinutesPerHour <= HoursPerDay * MinutesPerHour
  BY <1>1, CronTypes, ProductGrows
<1>3. (h + 1) * MinutesPerHour = h * MinutesPerHour + MinutesPerHour /\ h * MinutesPerHour \in Nat
  BY <1>1, CronTypes
<1>4. h * MinutesPerHour + m \in 0 .. DayLength - 1
  BY <1>2, <1>3, CronTypes
<1>5. QED
  BY <1>1, <1>4, CronTypes, DivisionIsUnique

\* ... each its own.
LEMMA WallOfTime ==
  ASSUME NEW d \in Nat, NEW h \in 0 .. HoursPerDay - 1, NEW m \in 0 .. MinutesPerHour - 1,
         NEW w, w = d * DayLength + (h * MinutesPerHour + m)
  PROVE  w \in Nat /\ DayOf(w) = d /\ HourOf(w) = h /\ MinuteOf(w) = m
<1>1. PICK t \in 0 .. DayLength - 1 : t = h * MinutesPerHour + m
  BY TimeOfDay
<1>2. w = d * DayLength + t
  BY <1>1
<1>3. w \div DayLength = d /\ w % DayLength = t
  BY <1>2, CronTypes, DivisionIsUnique
<1>4. t \div MinutesPerHour = h
  BY <1>1, TimeOfDay
<1>5. PICK q \in Nat : q = d * HoursPerDay + h
  BY CronTypes
<1>6. w = q * MinutesPerHour + m
  <2>1. d * (HoursPerDay * MinutesPerHour) = (d * HoursPerDay) * MinutesPerHour
    BY CronTypes
  <2>2. q * MinutesPerHour = (d * HoursPerDay) * MinutesPerHour + h * MinutesPerHour
    BY <1>5, CronTypes
  <2>3. d * HoursPerDay \in Nat /\ h * MinutesPerHour \in Nat
    BY CronTypes
  <2>4. QED
    BY <1>1, <1>2, <2>1, <2>2, <2>3, CronTypes
<1>7. w % MinutesPerHour = m
  BY <1>6, CronTypes, DivisionIsUnique
<1>8. w \in Nat
  BY <1>2, CronTypes
<1>9. QED
  BY <1>3, <1>4, <1>7, <1>8 DEF DayOf, HourOf, MinuteOf

LEMMA TimeOfWall ==
  ASSUME NEW w \in Nat
  PROVE  /\ DayOf(w) \in Nat
         /\ HourOf(w) \in 0 .. HoursPerDay - 1 /\ MinuteOf(w) \in 0 .. MinutesPerHour - 1
         /\ w = DayOf(w) * DayLength + (HourOf(w) * MinutesPerHour + MinuteOf(w))
<1>1. PICK d \in Nat, t \in 0 .. DayLength - 1 : w = d * DayLength + t
  <2>1. w \div DayLength \in Nat /\ w % DayLength \in 0 .. DayLength - 1
        /\ w = (w \div DayLength) * DayLength + (w % DayLength)
    BY CronTypes, Division
  <2>2. QED
    BY <2>1
<1>2. PICK h \in Nat, m \in 0 .. MinutesPerHour - 1 : t = h * MinutesPerHour + m
  <2>1. t \in Nat
    BY CronTypes
  <2>2. t \div MinutesPerHour \in Nat /\ t % MinutesPerHour \in 0 .. MinutesPerHour - 1
        /\ t = (t \div MinutesPerHour) * MinutesPerHour + (t % MinutesPerHour)
    BY <2>1, CronTypes, Division
  <2>3. QED
    BY <2>2
<1>3. h \in 0 .. HoursPerDay - 1
  <2>1. CASE HoursPerDay <= h
    <3>1. HoursPerDay * MinutesPerHour <= h * MinutesPerHour
      BY <2>1, CronTypes, ProductGrows
    <3>2. h * MinutesPerHour \in Nat
      BY CronTypes
    <3>3. QED
      BY <1>1, <1>2, <3>1, <3>2, CronTypes
  <2>2. CASE h < HoursPerDay
    BY <2>2, CronTypes
  <2>3. QED
    BY <2>1, <2>2, CronTypes
<1>4. DayOf(w) = d /\ HourOf(w) = h /\ MinuteOf(w) = m
  BY <1>1, <1>2, <1>3, WallOfTime
<1>5. QED
  BY <1>1, <1>2, <1>3, <1>4

\* What fires: the minutes of the wall clock that match.
Matches(spec, w) ==
  MatchesDay(spec, DayOf(w)) /\ HourOf(w) \in spec.hours /\ MinuteOf(w) \in spec.minutes

\* The parser's hours and minutes are hours and minutes.
IsParsed(spec) ==
  spec.hours \subseteq 0 .. HoursPerDay - 1 /\ spec.minutes \subseteq 0 .. MinutesPerHour - 1

\* The last minute of the days of the search.
LastWall(c) == (DayOf(c) + SearchLimit) * DayLength - 1

LEMMA MinIs ==
  ASSUME NEW U, U \subseteq Nat, NEW m \in U, \A x \in U : m <= x
  PROVE  Min(U) = m
<1>1. Min(U) = CHOOSE x \in U : \A y \in U : x <= y
  BY DEF Min
<1>2. \E x \in U : \A y \in U : x <= y
  OBVIOUS
<1>3. Min(U) \in U /\ \A y \in U : Min(U) <= y
  BY <1>1, <1>2
<1>4. Min(U) <= m /\ m <= Min(U) /\ m \in Nat /\ Min(U) \in Nat
  BY <1>3
<1>5. QED
  BY <1>4

\* The fields of one part after another: their values lie within the limits.
LEMMA FieldWithin ==
  ASSUME NEW field, field \subseteq Part, NEW lo \in Nat, NEW hi \in Nat,
         FieldIsValid(field, lo, hi)
  PROVE  FieldValues(field, lo, hi) \subseteq lo .. hi
<1>1. SUFFICES ASSUME NEW p \in field, NEW v \in PartValues(p, lo, hi) PROVE v \in lo .. hi
  BY DEF FieldValues
<1>2. /\ p.lo \in Nat /\ p.hi \in Nat /\ p.step \in Nat
  BY DEF Part
<1>3. PICK b : b = PartBounds(p, lo, hi)
  OBVIOUS
<1>4. b[1] \in Nat /\ b[2] \in Nat
  BY <1>2, <1>3 DEF PartBounds
<1>5. lo <= b[1] /\ b[2] <= hi
  BY <1>3 DEF FieldIsValid, PartIsValid
<1>6. v \in b[1] .. b[2]
  BY <1>3 DEF PartValues
<1>7. QED
  BY <1>4, <1>5, <1>6

LEMMA ParserIsSound ==
  ASSUME NEW e \in DOMAIN Fields, IsValid(Fields[e])
  PROVE  IsParsed(Parsed(Fields[e]))
<1>1. Fields[e].hour \subseteq Part /\ Fields[e].minute \subseteq Part
  <2>1. Fields[e] \in [minute : SUBSET Part, hour : SUBSET Part, dom : SUBSET Part,
                       month : SUBSET Part, dow : SUBSET Part]
    BY ServicesBounds DEF CronBounds
  <2>2. QED
    BY <2>1
<1>2. MinutesPerHour - 1 \in Nat /\ HoursPerDay - 1 \in Nat /\ 0 \in Nat
  BY CronTypes
<1>3. /\ FieldIsValid(Fields[e].minute, 0, MinutesPerHour - 1)
      /\ FieldIsValid(Fields[e].hour, 0, HoursPerDay - 1)
  BY DEF IsValid
<1>4. /\ FieldValues(Fields[e].minute, 0, MinutesPerHour - 1) \subseteq 0 .. MinutesPerHour - 1
      /\ FieldValues(Fields[e].hour, 0, HoursPerDay - 1) \subseteq 0 .. HoursPerDay - 1
  BY <1>1, <1>2, <1>3, FieldWithin
<1>5. QED
  BY <1>4 DEF Parsed, IsParsed

\* The loops of next_fire() over hours and minutes leave out, of the candidate's
\* day, what is before the candidate.
LEMMA TimesFromCandidate ==
  ASSUME NEW spec, IsParsed(spec), NEW c \in Nat, NEW d \in Nat, DayOf(c) <= d,
         NEW h \in spec.hours, NEW m \in spec.minutes, NEW w,
         w = d * DayLength + (h * MinutesPerHour + m)
  PROVE  (h * MinutesPerHour + m \in TimesOn(spec, d, c)) <=> c <= w
<1>1. h \in 0 .. HoursPerDay - 1 /\ m \in 0 .. MinutesPerHour - 1
  BY DEF IsParsed
<1>2. PICK t : /\ t = h * MinutesPerHour + m /\ t \in 0 .. DayLength - 1
               /\ t \div MinutesPerHour = h /\ t % MinutesPerHour = m
  BY <1>1, TimeOfDay
<1>3. PICK D \in Nat, H \in 0 .. HoursPerDay - 1, M \in 0 .. MinutesPerHour - 1 :
        /\ D = DayOf(c) /\ H = HourOf(c) /\ M = MinuteOf(c)
        /\ c = D * DayLength + (H * MinutesPerHour + M)
  BY TimeOfWall
<1>4. (t \in TimesOn(spec, d, c)) <=> (D = d => h >= H /\ (h = H => m >= M))
  BY <1>2, <1>3 DEF TimesOn
<1>5. CASE D < d
  <2>1. (D + 1) * DayLength <= d * DayLength
    BY <1>3, <1>5, CronTypes, ProductGrows
  <2>2. (D + 1) * DayLength = D * DayLength + DayLength
    BY CronTypes
  <2>3. H * MinutesPerHour + M \in 0 .. DayLength - 1
    BY <1>3, TimeOfDay
  <2>4. D * DayLength \in Nat /\ d * DayLength \in Nat
    BY CronTypes
  <2>5. c <= w
    BY <1>2, <1>3, <2>1, <2>2, <2>3, <2>4, CronTypes
  <2>6. QED
    BY <1>2, <1>3, <1>4, <1>5, <2>5
<1>6. CASE D = d
  <2>1. D * DayLength \in Nat /\ h * MinutesPerHour \in Nat /\ H * MinutesPerHour \in Nat
        /\ h \in Nat /\ H \in Nat /\ m \in Nat /\ M \in Nat /\ m < MinutesPerHour /\ M < MinutesPerHour
        /\ MinutesPerHour \in Nat
    BY <1>1, <1>3, CronTypes
  <2>2. c <= w <=> H * MinutesPerHour + M <= h * MinutesPerHour + m
    BY <1>3, <1>6, <2>1
  <2>3. CASE h < H
    <3>1. (h + 1) * MinutesPerHour <= H * MinutesPerHour
      BY <2>1, <2>3, ProductGrows
    <3>2. (h + 1) * MinutesPerHour = h * MinutesPerHour + MinutesPerHour
      BY <2>1
    <3>3. ~(c <= w)
      BY <2>1, <2>2, <3>1, <3>2
    <3>4. QED
      BY <1>2, <1>4, <1>6, <2>1, <2>3, <3>3
  <2>4. CASE H < h
    <3>1. (H + 1) * MinutesPerHour <= h * MinutesPerHour
      BY <2>1, <2>4, ProductGrows
    <3>2. (H + 1) * MinutesPerHour = H * MinutesPerHour + MinutesPerHour
      BY <2>1
    <3>3. c <= w
      BY <2>1, <2>2, <3>1, <3>2
    <3>4. QED
      BY <1>2, <1>4, <1>6, <2>1, <2>4, <3>3
  <2>5. CASE H = h
    BY <1>2, <1>4, <1>6, <2>1, <2>2, <2>5
  <2>6. QED
    BY <2>1, <2>3, <2>4, <2>5
<1>7. QED
  BY <1>3, <1>5, <1>6

\* next_fire(): of the minutes that match from the candidate to the end of the
\* last day, the first.
LEMMA SearchFinds ==
  ASSUME NEW spec, IsParsed(spec), NEW c \in Nat, NEW hits,
         hits = {w \in c .. LastWall(c) : Matches(spec, w)}
  PROVE  /\ hits = {} => Search(spec, c) = Never
         /\ \A w \in hits : (\A v \in hits : w <= v) => Search(spec, c) = Instant(w)
<1> DEFINE days == {d \in DayOf(c) .. DayOf(c) + SearchLimit - 1 :
                      MatchesDay(spec, d) /\ TimesOn(spec, d, c) # {}}
           Least == Min(TimesOn(spec, Min(days), c))
<1>1. Search(spec, c) = IF days = {} THEN Never ELSE Instant(Min(days) * DayLength + Least)
  BY DEF Search
<1>2. DayOf(c) \in Nat /\ SearchLimit \in Nat \ {0} /\ DayLength \in Nat \ {0}
  BY TimeOfWall, CronTypes
<1>3. ASSUME NEW d \in days, NEW t \in TimesOn(spec, d, c)
      PROVE  d \in Nat /\ t \in Nat /\ d * DayLength + t \in hits
  <2>1. PICK h \in spec.hours, m \in spec.minutes : t = h * MinutesPerHour + m
    BY DEF TimesOn
  <2>2. PICK w : w = d * DayLength + (h * MinutesPerHour + m)
    OBVIOUS
  <2>3. d \in Nat /\ DayOf(c) <= d /\ d + 1 <= DayOf(c) + SearchLimit
    BY <1>2
  <2>4. h \in 0 .. HoursPerDay - 1 /\ m \in 0 .. MinutesPerHour - 1
    BY DEF IsParsed
  <2>5. w \in Nat /\ DayOf(w) = d /\ HourOf(w) = h /\ MinuteOf(w) = m
    BY <2>2, <2>3, <2>4, WallOfTime
  <2>6. t \in 0 .. DayLength - 1
    BY <2>1, <2>4, TimeOfDay
  <2>7. c <= w
    BY <2>1, <2>2, <2>3, TimesFromCandidate
  <2>8. w <= LastWall(c)
    <3>1. (d + 1) * DayLength <= (DayOf(c) + SearchLimit) * DayLength
      BY <1>2, <2>3, ProductGrows
    <3>2. (d + 1) * DayLength = d * DayLength + DayLength /\ d * DayLength \in Nat
      BY <1>2, <2>3
    <3>3. PICK z \in Nat : z = (DayOf(c) + SearchLimit) * DayLength
      BY <1>2
    <3>4. w = d * DayLength + t /\ LastWall(c) = z - 1
      BY <2>1, <2>2, <3>3 DEF LastWall
    <3>5. QED
      BY <1>2, <2>6, <3>1, <3>2, <3>3, <3>4
  <2>9. LastWall(c) \in Int
    BY <1>2 DEF LastWall
  <2>10. Matches(spec, w)
    BY <2>5 DEF Matches
  <2>11. t \in Nat
    BY <1>2, <2>6
  <2>12. QED
    BY <2>1, <2>2, <2>3, <2>5, <2>7, <2>8, <2>9, <2>10, <2>11
<1>4. ASSUME NEW w \in hits
      PROVE  \E t \in TimesOn(spec, DayOf(w), c) :
               DayOf(w) \in days /\ w = DayOf(w) * DayLength + t
  <2>1. LastWall(c) \in Int
    BY <1>2 DEF LastWall
  <2>2. w \in Nat /\ c <= w /\ w <= LastWall(c) /\ Matches(spec, w)
    BY <2>1
  <2>3. PICK d, h, m : /\ d \in Nat /\ d = DayOf(w) /\ h = HourOf(w) /\ m = MinuteOf(w)
                       /\ w = d * DayLength + (h * MinutesPerHour + m)
    BY <2>2, TimeOfWall
  <2>4. h \in spec.hours /\ m \in spec.minutes /\ MatchesDay(spec, d)
    BY <2>2, <2>3 DEF Matches
  <2>5. h \in 0 .. HoursPerDay - 1 /\ m \in 0 .. MinutesPerHour - 1
    BY <2>4 DEF IsParsed
  <2>6. h * MinutesPerHour + m \in 0 .. DayLength - 1
    BY <2>5, TimeOfDay
  <2>7. DayOf(c) <= d
    <3>1. CASE d + 1 <= DayOf(c)
      <4>1. (d + 1) * DayLength <= DayOf(c) * DayLength
        BY <1>2, <2>3, <3>1, ProductGrows
      <4>2. (d + 1) * DayLength = d * DayLength + DayLength /\ d * DayLength \in Nat
        BY <1>2, <2>3
      <4>3. w < DayOf(c) * DayLength
        BY <1>2, <2>3, <2>6, <4>1, <4>2
      <4>4. PICK r \in Nat : c = DayOf(c) * DayLength + r
        <5>1. c = DayOf(c) * DayLength + (HourOf(c) * MinutesPerHour + MinuteOf(c))
          BY TimeOfWall
        <5>2. HourOf(c) * MinutesPerHour + MinuteOf(c) \in 0 .. DayLength - 1
          BY TimeOfWall, TimeOfDay
        <5>3. QED
          BY <5>1, <5>2
      <4>5. DayOf(c) * DayLength \in Nat
        BY <1>2
      <4>6. QED
        BY <2>2, <4>3, <4>4, <4>5
    <3>2. CASE ~(d + 1 <= DayOf(c))
      BY <1>2, <2>3, <3>2
    <3>3. QED
      BY <3>1, <3>2
  <2>8. d <= DayOf(c) + SearchLimit - 1
    <3>1. CASE DayOf(c) + SearchLimit <= d
      <4>1. (DayOf(c) + SearchLimit) * DayLength <= d * DayLength
        BY <1>2, <2>3, <3>1, ProductGrows
      <4>2. PICK z \in Nat : z = (DayOf(c) + SearchLimit) * DayLength
        BY <1>2
      <4>3. w < d * DayLength
        BY <1>2, <2>2, <2>3, <4>1, <4>2 DEF LastWall
      <4>4. d * DayLength \in Nat /\ d * DayLength <= w
        BY <1>2, <2>3, <2>6
      <4>5. QED
        BY <2>2, <4>3, <4>4
    <3>2. CASE ~(DayOf(c) + SearchLimit <= d)
      BY <1>2, <2>3, <3>2
    <3>3. QED
      BY <3>1, <3>2
  <2>9. h * MinutesPerHour + m \in TimesOn(spec, d, c)
    BY <2>2, <2>3, <2>4, <2>7, TimesFromCandidate
  <2>10. d \in days
    BY <1>2, <2>3, <2>4, <2>7, <2>8, <2>9
  <2>11. QED
    BY <2>3, <2>9, <2>10
<1>5. ASSUME hits = {} PROVE Search(spec, c) = Never
  <2>1. days = {}
    <3>1. SUFFICES ASSUME NEW d \in days PROVE FALSE
      OBVIOUS
    <3>2. PICK t : t \in TimesOn(spec, d, c)
      BY <3>1
    <3>3. QED
      BY <1>3, <1>5, <3>1, <3>2
  <2>2. QED
    BY <1>1, <2>1
<1>6. ASSUME NEW w \in hits, \A v \in hits : w <= v PROVE Search(spec, c) = Instant(w)
  <2>1. PICK d, t : /\ d = DayOf(w) /\ d \in days /\ t \in TimesOn(spec, d, c)
                    /\ w = d * DayLength + t
    BY <1>4
  <2>2. d \in Nat /\ t \in Nat
    BY <1>3, <2>1
  <2>3. ASSUME NEW e \in days PROVE d <= e
    <3>1. PICK u : u \in TimesOn(spec, e, c)
      OBVIOUS
    <3>2. e \in Nat /\ u \in Nat /\ e * DayLength + u \in hits
      BY <1>3, <3>1
    <3>3. u \in 0 .. DayLength - 1
      <4>1. PICK h \in spec.hours, m \in spec.minutes : u = h * MinutesPerHour + m
        BY <3>1 DEF TimesOn
      <4>2. QED
        BY <4>1, TimeOfDay DEF IsParsed
    <3>4. CASE e + 1 <= d
      <4>1. (e + 1) * DayLength <= d * DayLength
        BY <1>2, <2>2, <3>2, <3>4, ProductGrows
      <4>2. (e + 1) * DayLength = e * DayLength + DayLength
        BY <1>2, <3>2
      <4>3. e * DayLength \in Nat /\ d * DayLength \in Nat
        BY <1>2, <2>2, <3>2
      <4>4. e * DayLength + u < w
        BY <1>2, <2>1, <2>2, <3>3, <4>1, <4>2, <4>3
      <4>5. QED
        BY <1>6, <1>2, <2>1, <2>2, <3>2, <4>3, <4>4
    <3>5. CASE ~(e + 1 <= d)
      BY <2>2, <3>2, <3>5
    <3>6. QED
      BY <3>4, <3>5
  <2>4. days \subseteq Nat
    BY <1>2
  <2>5. Min(days) = d
    <3> HIDE DEF days
    <3>1. QED
      BY <2>1, <2>3, <2>4, MinIs
  <2>6. ASSUME NEW u \in TimesOn(spec, d, c) PROVE u \in Nat /\ t <= u
    <3>1. u \in Nat /\ d * DayLength + u \in hits
      BY <1>3, <2>1
    <3>2. w <= d * DayLength + u /\ d * DayLength \in Nat
      BY <1>2, <1>6, <2>2, <3>1
    <3>3. QED
      BY <2>1, <2>2, <3>1, <3>2
  <2>7. Min(TimesOn(spec, d, c)) = t
    <3>1. TimesOn(spec, d, c) \subseteq Nat
      BY <2>6
    <3>2. QED
      BY <2>1, <2>6, <3>1, MinIs
  <2>8. QED
    <3> HIDE DEF days
    <3>1. days # {}
      BY <2>1
    <3>2. QED
      BY <1>1, <2>1, <2>5, <2>7, <3>1
<1>7. QED
  BY <1>5, <1>6

\* The wall clock, and the first instant at which it shows a minute.
LEMMA InstantOfWall ==
  ASSUME NEW w \in Nat
  PROVE  Instant(w) \in Nat /\ ~Repeated(Instant(w)) /\ Wall(Instant(w)) = w
<1>1. CASE w < ChangeAt
  BY <1>1, CronTypes DEF Instant, Wall, Repeated
<1>2. CASE ~(w < ChangeAt)
  BY <1>2, CronTypes DEF Instant, Wall, Repeated
<1>3. QED
  BY <1>1, <1>2

LEMMA WallOfInstant ==
  ASSUME NEW i \in Nat, ~Repeated(i)
  PROVE  Wall(i) \in Nat /\ Instant(Wall(i)) = i
<1>1. CASE i < ChangeAt
  BY <1>1, CronTypes DEF Instant, Wall, Repeated
<1>2. CASE ~(i < ChangeAt)
  BY <1>2, CronTypes DEF Instant, Wall, Repeated
<1>3. QED
  BY <1>1, <1>2

LEMMA InstantsInOrder ==
  ASSUME NEW v \in Nat, NEW w \in Nat
  PROVE  v <= w <=> Instant(v) <= Instant(w)
BY CronTypes DEF Instant

\* next_fire() is the reference, but from a minute the wall clock shows again.
LEMMA NextFireIsFirst ==
  ASSUME NEW spec, IsParsed(spec), NEW after \in Nat, ~Repeated(after)
  PROVE  NextFire(spec, after) = FirstFire(spec, after)
<1>1. PICK a \in Nat : a = Wall(after) /\ Instant(a) = after
  BY WallOfInstant
<1>2. PICK c \in Nat : c = a + 1
  OBVIOUS
<1>3. PICK l \in Nat : l = LastWall(c)
  <2>1. DayOf(c) \in Nat /\ SearchLimit \in Nat \ {0} /\ DayLength \in Nat \ {0}
    BY TimeOfWall, CronTypes
  <2>2. 1 * DayLength <= (DayOf(c) + SearchLimit) * DayLength
    BY <2>1, ProductGrows
  <2>3. (DayOf(c) + SearchLimit) * DayLength \in Nat
    BY <2>1
  <2>4. LastWall(c) \in Nat
    BY <2>1, <2>2, <2>3 DEF LastWall
  <2>5. QED
    BY <2>4
<1>4. PICK hits : hits = {w \in c .. l : Matches(spec, w)}
  OBVIOUS
<1>5. PICK found : found = {t \in after + 1 .. Instant(l) : Fires(spec, t)}
  OBVIOUS
<1>6. NextFire(spec, after) = Search(spec, c)
  BY <1>1, <1>2 DEF NextFire
<1>7. FirstFire(spec, after) = IF found = {} THEN Never ELSE Min(found)
  <2>1. Horizon(after) = Instant(l)
    BY <1>1, <1>2, <1>3 DEF Horizon, LastWall
  <2>2. QED
    BY <1>5, <2>1 DEF FirstFire
<1>8. Instant(l) \in Nat
  BY InstantOfWall
<1>9. ASSUME NEW t \in found PROVE t \in Nat /\ Wall(t) \in hits /\ Instant(Wall(t)) = t
  <2>1. t \in Nat /\ after + 1 <= t /\ t <= Instant(l)
    BY <1>5, <1>8
  <2>2. ~Repeated(t) /\ Matches(spec, Wall(t))
    BY <1>5 DEF Fires, Matches
  <2>3. Wall(t) \in Nat /\ Instant(Wall(t)) = t
    BY <2>1, <2>2, WallOfInstant
  <2>4. Wall(t) <= l
    BY <2>1, <2>3, InstantsInOrder
  <2>5. ~(Wall(t) <= a)
    BY <1>1, <2>1, <2>3, InstantsInOrder
  <2>6. Wall(t) \in c .. l
    BY <1>2, <2>3, <2>4, <2>5
  <2>7. QED
    BY <1>4, <2>1, <2>2, <2>3, <2>6
<1>10. ASSUME NEW w \in hits PROVE w \in Nat /\ Instant(w) \in found
  <2>1. w \in Nat /\ ~(w <= a) /\ w <= l /\ Matches(spec, w)
    BY <1>2, <1>4
  <2>2. Instant(w) \in Nat /\ ~Repeated(Instant(w)) /\ Wall(Instant(w)) = w
    BY <2>1, InstantOfWall
  <2>3. ~(Instant(w) <= after) /\ Instant(w) <= Instant(l)
    BY <1>1, <2>1, InstantsInOrder
  <2>4. Instant(w) \in after + 1 .. Instant(l)
    BY <1>8, <2>2, <2>3
  <2>5. Fires(spec, Instant(w))
    BY <2>1, <2>2 DEF Fires, Matches
  <2>6. QED
    BY <1>5, <2>1, <2>4, <2>5
<1>11. hits = {w \in c .. LastWall(c) : Matches(spec, w)}
  BY <1>3, <1>4
<1>12. CASE hits = {}
  <2>1. found = {}
    BY <1>9, <1>12
  <2>2. Search(spec, c) = Never
    BY <1>11, <1>12, SearchFinds
  <2>3. QED
    BY <1>6, <1>7, <2>1, <2>2
<1>13. CASE hits # {}
  <2>1. \A q \in hits : q \in 0 .. l
    BY <1>4
  <2>2. PICK w \in hits : \A v \in hits : w <= v
    BY <1>13, <2>1, LeastExists
  <2>3. Search(spec, c) = Instant(w)
    BY <1>11, <2>2, SearchFinds
  <2>4. Instant(w) \in found /\ found \subseteq Nat
    BY <1>9, <1>10, <2>2
  <2>5. ASSUME NEW t \in found PROVE Instant(w) <= t
    BY <1>9, <1>10, <2>2, InstantsInOrder
  <2>6. Min(found) = Instant(w)
    BY <2>4, <2>5, MinIs
  <2>7. QED
    BY <1>6, <1>7, <2>3, <2>4, <2>6
<1>14. QED
  BY <1>12, <1>13

\* What the scheduler takes for the next run is the first, and in the future.
LEMMA NextRunTypes ==
  ASSUME NEW e \in DOMAIN Fields, NEW now \in 1 .. MaxTime
  PROVE  /\ NextRun[e][now] \in Nat
         /\ NextRun[e][now] # Never => IsValid(Fields[e])
         /\ IsValid(Fields[e]) /\ ~Repeated(now) => NextRun[e][now] = FirstRun[e][now]
         /\ NextRun[e][now] # Never /\ ~Repeated(now) => NextRun[e][now] > now
<1>1. /\ NextRun[e][now] = IF IsValid(Fields[e]) THEN NextFire(Parsed(Fields[e]), now) ELSE Never
      /\ FirstRun[e][now] = FirstFire(Parsed(Fields[e]), now)
  BY DEF NextRun, FirstRun
<1>2. now \in Nat
  BY ServicesBounds DEF CronBounds
<1>3. NextRun[e][now] # Never => IsValid(Fields[e])
  BY <1>1
<1>4. IsValid(Fields[e]) /\ ~Repeated(now) => NextRun[e][now] = FirstRun[e][now]
  BY <1>1, <1>2, ParserIsSound, NextFireIsFirst
<1>5. ASSUME IsValid(Fields[e]) PROVE NextFire(Parsed(Fields[e]), now) \in Nat
  <2>1. PICK spec : spec = Parsed(Fields[e]) /\ IsParsed(spec)
    BY <1>5, ParserIsSound
  <2>2. PICK c \in Nat : c = Wall(now) + 1
    <3>1. Wall(now) \in Nat
      BY <1>2, CronTypes DEF Wall
    <3>2. QED
      BY <3>1
  <2>3. PICK hits : hits = {w \in c .. LastWall(c) : Matches(spec, w)}
    OBVIOUS
  <2>4. NextFire(spec, now) = Search(spec, c)
    BY <2>2 DEF NextFire
  <2>5. CASE hits = {}
    BY <2>1, <2>3, <2>4, <2>5, SearchFinds DEF Never
  <2>6. CASE hits # {}
    <3>1. PICK l \in Nat : LastWall(c) <= l /\ LastWall(c) \in Int
      <4>1. DayOf(c) \in Nat /\ SearchLimit \in Nat /\ DayLength \in Nat
        BY TimeOfWall, CronTypes
      <4>2. (DayOf(c) + SearchLimit) * DayLength \in Nat
        BY <4>1
      <4>3. QED
        BY <4>2 DEF LastWall
    <3>2. \A q \in hits : q \in 0 .. l
      BY <2>3, <3>1
    <3>3. PICK w \in hits : \A v \in hits : w <= v
      BY <2>6, <3>2, LeastExists
    <3>4. Search(spec, c) = Instant(w)
      BY <2>1, <2>3, <3>3, SearchFinds
    <3>5. w \in Nat
      BY <3>2
    <3>6. QED
      BY <2>1, <2>4, <3>4, <3>5, InstantOfWall
  <2>7. QED
    BY <2>5, <2>6
<1>6. NextRun[e][now] \in Nat
  <2>1. CASE IsValid(Fields[e])
    BY <1>1, <1>5, <2>1
  <2>2. CASE ~IsValid(Fields[e])
    BY <1>1, <2>2 DEF Never
  <2>3. QED
    BY <2>1, <2>2
<1>7. ASSUME NextRun[e][now] # Never, ~Repeated(now) PROVE NextRun[e][now] > now
  <2>1. PICK found : /\ found = {t \in now + 1 .. Horizon(now) : Fires(Parsed(Fields[e]), t)}
                     /\ NextRun[e][now] = IF found = {} THEN Never ELSE Min(found)
    BY <1>1, <1>3, <1>4, <1>7 DEF FirstFire
  <2>2. found # {}
    BY <1>7, <2>1
  <2>3. PICK h : h = Horizon(now) /\ h \in Int
    <3>1. \A i \in Nat : Wall(i) \in Int
      BY CronTypes DEF Wall
    <3>2. \A i \in Int : Instant(i) \in Int
      BY CronTypes DEF Instant
    <3>3. Wall(now) + 1 \in Nat
      BY <1>2, CronTypes DEF Wall
    <3>4. DayOf(Wall(now) + 1) \in Nat
      BY <3>3, TimeOfWall
    <3>5. (DayOf(Wall(now) + 1) + SearchLimit) * DayLength - 1 \in Int
      BY <3>4, CronTypes
    <3>6. QED
      BY <3>2, <3>5 DEF Horizon
  <2>4. found \subseteq now + 1 .. h /\ \A t \in found : t \in Nat /\ t > now
    <3>1. found \subseteq now + 1 .. h
      BY <2>1, <2>3
    <3>2. QED
      BY <1>2, <2>3, <3>1
  <2>5. NextRun[e][now] \in found
    <3>1. \A q \in found : q \in 0 .. h
      BY <1>2, <2>3, <2>4
    <3>2. h \in Nat
      <4>1. PICK q \in Nat : q \in now + 1 .. h
        BY <2>2, <2>4
      <4>2. QED
        BY <1>2, <2>3, <4>1
    <3>3. PICK w \in found : \A v \in found : w <= v
      BY <2>2, <3>1, <3>2, LeastExists
    <3>4. Min(found) = w
      BY <2>4, <3>3, MinIs
    <3>5. QED
      BY <2>1, <2>2, <3>3, <3>4
  <2>6. QED
    BY <2>4, <2>5
<1>8. QED
  BY <1>3, <1>4, <1>6, <1>7

-----------------------------------------------------------------------------
(* The scheduler *)

LEMMA SchedulerStep ==
  /\ Init => S!Init
  /\ [Next]_vars => [S!Next]_(S!vars)
<1>1. Init => S!Init
  BY DEF Init
<1>2. ASSUME [Next]_vars PROVE [S!Next]_(S!vars)
  <2>1. ASSUME UNCHANGED schedulerVars PROVE UNCHANGED S!vars
    BY <2>1 DEF schedulerVars, S!vars
  <2>2. CASE UNCHANGED vars \/ Bus \/ Pairing \/ Retaining \/ Notifying \/ Extending
    BY <2>1, <2>2 DEF vars, Bus, Pairing, Retaining, Notifying, Extending
  <2>3. CASE Scheduling
    BY <2>3 DEF Scheduling
  <2>4. QED
    BY <1>2, <2>2, <2>3 DEF Next
<1>3. QED
  BY <1>1, <1>2

\* A schedule is none, or has the next run that was computed at its base.
IsComputed(s) ==
  \/ schedule[s] = S!NoSchedule /\ s \notin defined \cup loop.todo
  \/ LET o == schedule[s]
     IN /\ o.cron \in DOMAIN Fields /\ IsValid(Fields[o.cron])
        /\ o.base \in 1 .. clock
        /\ o.next = NextRun[o.cron][o.base]

\* What is fired was due before the next run was computed; what can be fired
\* has been computed since the start.
IsLater(s) ==
  /\ fired[s] <= schedule[s].base
  /\ s \in catalogue \cup loop.todo => booted <= schedule[s].base

\* Only a pass that holds a deleted schedule runs it, and it does so once.
RunsOnce(s) ==
  /\ afterwards[s] <= 1
  /\ s \in defined \cup loop.todo \/ schedule[s] = S!NoSchedule => afterwards[s] = 0

PassIsCurrent ==
  /\ booted <= clock
  /\ catalogue \subseteq defined
  /\ loop.at = "launching" => booted <= loop.now /\ loop.now <= clock
  /\ loop.at # "launching" => loop.todo = {}
  /\ loop.at = "down" => catalogue = {} /\ restarts < MaxRestarts

SchedulerInv ==
  /\ S!TypeOK /\ PassIsCurrent
  /\ \A s \in S!Schedules : IsComputed(s) /\ IsLater(s) /\ RunsOnce(s)

LEMMA SchedulerInit == S!Init => SchedulerInv
<1> SUFFICES ASSUME S!Init PROVE SchedulerInv
  OBVIOUS
<1>1. MaxTime \in Nat \ {0} /\ MaxSchedules \in Nat /\ MaxRestarts \in Nat
  BY ServicesBounds DEF S!SchedulerBounds
<1>2. /\ clock = 1 /\ defined = {} /\ catalogue = {} /\ booted = 1 /\ restarts = 0
      /\ manual = S!Nobody
      /\ schedule = [s \in S!Schedules |-> S!NoSchedule]
      /\ loop = [at |-> "asleep", now |-> 0, todo |-> {}]
      /\ fired = [s \in S!Schedules |-> 0]
      /\ afterwards = [s \in S!Schedules |-> 0]
  BY DEF S!Init, S!Asleep, S!Never
<1>3. /\ S!NoSchedule \in [cron : Expressions \cup {S!NoCron}, next : Nat, base : 0 .. MaxTime]
      /\ S!NoSchedule.base = 0
  <2>1. 0 \in 0 .. MaxTime
    BY <1>1
  <2>2. S!NoSchedule = [cron |-> S!NoCron, next |-> 0, base |-> 0]
    BY DEF S!NoSchedule, S!Never
  <2>3. QED
    BY <2>1, <2>2
<1>4. S!TypeOK
  <2>1. loop \in [at : {"asleep", "launching", "down"}, now : 0 .. MaxTime, todo : SUBSET S!Schedules]
    BY <1>1, <1>2
  <2>2. clock \in 1 .. MaxTime /\ booted \in 1 .. MaxTime /\ restarts \in 0 .. MaxRestarts
    BY <1>1, <1>2
  <2>3. /\ schedule \in [S!Schedules -> [cron : Expressions \cup {S!NoCron}, next : Nat, base : 0 .. MaxTime]]
        /\ fired \in [S!Schedules -> Nat] /\ afterwards \in [S!Schedules -> Nat]
    BY <1>2, <1>3
  <2>4. QED
    BY <1>2, <2>1, <2>2, <2>3 DEF S!TypeOK
<1>5. PassIsCurrent
  BY <1>2 DEF PassIsCurrent
<1>6. ASSUME NEW s \in S!Schedules PROVE IsComputed(s) /\ IsLater(s) /\ RunsOnce(s)
  BY <1>2, <1>3 DEF IsComputed, IsLater, RunsOnce
<1>7. QED
  BY <1>4, <1>5, <1>6 DEF SchedulerInv

\* A step of the scheduler keeps this of the last runs (service.py:7).
NoneBackfilled ==
  \A s \in S!Schedules :
    /\ afterwards'[s] <= 1
    /\ (fired'[s] # fired[s] /\ schedule[s].base \notin {i \in 1 .. MaxTime : Repeated(i)}) =>
         fired'[s] > fired[s] /\ fired'[s] > booted

LEMMA SchedulerTypes ==
  ASSUME SchedulerInv
  PROVE  /\ MaxTime \in Nat \ {0} /\ MaxSchedules \in Nat /\ MaxRestarts \in Nat
         /\ S!Schedules = 1 .. MaxSchedules
         /\ clock \in Nat /\ clock <= MaxTime /\ booted \in Nat /\ 1 <= booted /\ booted <= clock
         /\ S!NoSchedule = [cron |-> "none", next |-> 0, base |-> 0]
         /\ schedule \in [S!Schedules -> [cron : Expressions \cup {S!NoCron}, next : Nat, base : 0 .. MaxTime]]
         /\ \A s \in S!Schedules : fired[s] \in Nat /\ afterwards[s] \in Nat
         /\ \A s \in S!Schedules : schedule[s].base \in Nat /\ schedule[s].next \in Nat
         /\ catalogue \subseteq defined /\ defined \subseteq S!Schedules /\ loop.todo \subseteq S!Schedules
<1>1. S!TypeOK /\ PassIsCurrent
  BY DEF SchedulerInv
<1>2. MaxTime \in Nat \ {0} /\ MaxSchedules \in Nat /\ MaxRestarts \in Nat
  BY ServicesBounds DEF S!SchedulerBounds
<1>3. clock \in 1 .. MaxTime /\ booted \in 1 .. MaxTime /\ booted <= clock
  BY <1>1 DEF S!TypeOK, PassIsCurrent
<1>4. /\ schedule \in [S!Schedules -> [cron : Expressions \cup {S!NoCron}, next : Nat, base : 0 .. MaxTime]]
      /\ fired \in [S!Schedules -> Nat] /\ afterwards \in [S!Schedules -> Nat]
      /\ catalogue \subseteq defined /\ defined \subseteq S!Schedules /\ loop.todo \subseteq S!Schedules
  BY <1>1 DEF S!TypeOK, PassIsCurrent
<1>5. ASSUME NEW s \in S!Schedules
      PROVE  /\ fired[s] \in Nat /\ afterwards[s] \in Nat
             /\ schedule[s].base \in Nat /\ schedule[s].next \in Nat
  <2>1. schedule[s] \in [cron : Expressions \cup {S!NoCron}, next : Nat, base : 0 .. MaxTime]
    BY <1>4
  <2>2. schedule[s].base \in 0 .. MaxTime /\ schedule[s].next \in Nat
    BY <2>1
  <2>3. QED
    BY <1>2, <1>4, <2>2
<1>6. S!NoSchedule = [cron |-> "none", next |-> 0, base |-> 0]
  BY DEF S!NoSchedule, S!NoCron, S!Never
<1>7. S!Schedules = 1 .. MaxSchedules
  BY DEF S!Schedules
<1>8. QED
  BY <1>2, <1>3, <1>4, <1>5, <1>6, <1>7

\* The new next run, wherever it is computed.
LEMMA ComputedTypes ==
  ASSUME SchedulerInv, NEW cron \in DOMAIN Fields, NEW now \in 1 .. clock
  PROVE  /\ S!Computed(cron, now) = [cron |-> cron, next |-> NextRun[cron][now], base |-> now]
         /\ S!Computed(cron, now) \in [cron : Expressions \cup {S!NoCron}, next : Nat, base : 0 .. MaxTime]
         /\ S!Computed(cron, now).base = now /\ S!Computed(cron, now).cron = cron
         /\ S!Computed(cron, now).next = NextRun[cron][now]
         /\ S!Computed(cron, now) # S!NoSchedule
<1>1. S!Computed(cron, now) = [cron |-> cron, next |-> NextRun[cron][now], base |-> now]
  BY DEF S!Computed
<1>2. now \in 1 .. MaxTime
  BY SchedulerTypes
<1>3. NextRun[cron][now] \in Nat
  BY <1>2, NextRunTypes
<1>4. now \in 0 .. MaxTime /\ now # 0
  BY <1>2, SchedulerTypes
<1>5. cron \in Expressions
  BY DEF Expressions
<1>6. QED
  BY <1>1, <1>3, <1>4, <1>5, SchedulerTypes

LEMMA FireEffect ==
  ASSUME SchedulerInv, NEW s \in S!Schedules, schedule[s] # S!NoSchedule,
         NEW now \in 1 .. clock, S!Fire(s, now)
  PROVE  /\ schedule' \in [S!Schedules -> [cron : Expressions \cup {S!NoCron}, next : Nat, base : 0 .. MaxTime]]
         /\ afterwards' \in [S!Schedules -> Nat]
         /\ schedule'[s] # S!NoSchedule
         /\ schedule'[s].cron \in DOMAIN Fields /\ IsValid(Fields[schedule'[s].cron])
         /\ schedule'[s].base = now /\ schedule'[s].next = NextRun[schedule'[s].cron][now]
         /\ afterwards'[s] = IF s \in defined THEN afterwards[s] ELSE afterwards[s] + 1
         /\ \A t \in S!Schedules \ {s} : schedule'[t] = schedule[t] /\ afterwards'[t] = afterwards[t]
<1>1. PICK cron : cron = schedule[s].cron /\ cron \in DOMAIN Fields /\ IsValid(Fields[cron])
  BY DEF SchedulerInv, IsComputed
<1>2. PICK o : /\ o = S!Computed(cron, now)
               /\ o \in [cron : Expressions \cup {S!NoCron}, next : Nat, base : 0 .. MaxTime]
               /\ o.base = now /\ o.cron = cron /\ o.next = NextRun[cron][now] /\ o # S!NoSchedule
  BY <1>1, ComputedTypes
<1>3. schedule' = [schedule EXCEPT ![s] = o]
  BY <1>1, <1>2 DEF S!Fire
<1>4. PICK n : n = (IF s \in defined THEN afterwards[s] ELSE afterwards[s] + 1) /\ n \in Nat
  BY SchedulerTypes
<1>5. afterwards' = [afterwards EXCEPT ![s] = n]
  BY <1>4 DEF S!Fire
<1>6. afterwards \in [S!Schedules -> Nat]
  BY DEF SchedulerInv, S!TypeOK
<1>7. schedule'[s] = o /\ afterwards'[s] = n
  BY <1>3, <1>5, <1>6, SchedulerTypes
<1>8. QED
  BY <1>1, <1>2, <1>3, <1>4, <1>5, <1>6, <1>7, SchedulerTypes

\* One pass up to the next launch, of the list or of what is left of it.
LEMMA PassKeeps ==
  ASSUME SchedulerInv, NEW todo, NEW now \in 1 .. clock, booted <= now, loop.at # "down",
         todo = catalogue \/ todo = loop.todo,
         S!Pass(todo, now), UNCHANGED <<clock, defined, catalogue, manual, restarts, booted>>
  PROVE  SchedulerInv' /\ NoneBackfilled
<1>1. PICK due : due = {s \in todo : schedule[s].next \in 1 .. now}
  OBVIOUS
<1>2. todo \subseteq S!Schedules /\ todo \subseteq catalogue \cup loop.todo /\ now \in Nat
  BY SchedulerTypes
<1>3. \A s \in S!Schedules : IsComputed(s) /\ IsLater(s) /\ RunsOnce(s)
  BY DEF SchedulerInv
<1>4. S!TypeOK /\ PassIsCurrent
  BY DEF SchedulerInv
<1>5. CASE due = {}
  <2>1. loop' = S!Asleep /\ UNCHANGED <<schedule, fired, afterwards>>
    BY <1>1, <1>5 DEF S!Pass
  <2>2. loop' = [at |-> "asleep", now |-> 0, todo |-> {}]
    BY <2>1 DEF S!Asleep, S!Never
  <2>3. loop' \in [at : {"asleep", "launching", "down"}, now : 0 .. MaxTime, todo : SUBSET S!Schedules]
    BY <2>2, SchedulerTypes
  <2>4. S!TypeOK'
    BY <1>4, <2>1, <2>3 DEF S!TypeOK, S!Schedules
  <2>5. PassIsCurrent'
    BY <1>4, <2>2 DEF PassIsCurrent
  <2>6. \A s \in S!Schedules : IsComputed(s)' /\ IsLater(s)' /\ RunsOnce(s)'
    BY <1>3, <2>1, <2>2 DEF IsComputed, IsLater, RunsOnce
  <2>7. SchedulerInv'
    BY <2>4, <2>5, <2>6 DEF SchedulerInv, S!Schedules
  <2>8. NoneBackfilled
    BY <1>3, <2>1, SchedulerTypes DEF NoneBackfilled, RunsOnce
  <2>9. QED
    BY <2>7, <2>8
<1>6. CASE due # {}
  <2>1. PICK s : s = S!Min(due)
    OBVIOUS
  <2>2. s \in due
    <3>1. \A q \in due : q \in 0 .. MaxSchedules
      BY <1>1, <1>2, SchedulerTypes
    <3>2. \E p \in due : \A q \in due : p <= q
      BY <1>6, <3>1, LeastExists, SchedulerTypes
    <3>3. QED
      BY <2>1, <3>2 DEF S!Min
  <2>3. /\ loop' = [at |-> "launching", now |-> now, todo |-> {t \in todo : t > s}]
        /\ fired' = [fired EXCEPT ![s] = schedule[s].next]
        /\ S!Fire(s, now)
    BY <1>1, <1>6, <2>1 DEF S!Pass
  <2>4. /\ s \in todo /\ s \in S!Schedules /\ s \in catalogue \cup loop.todo
        /\ schedule[s].next \in 1 .. now
    BY <1>1, <1>2, <2>2
  <2>5. schedule[s] # S!NoSchedule /\ s \in defined \cup loop.todo
    BY <1>3, <2>4, SchedulerTypes DEF IsComputed
  <2>6. /\ schedule' \in [S!Schedules -> [cron : Expressions \cup {S!NoCron}, next : Nat, base : 0 .. MaxTime]]
        /\ afterwards' \in [S!Schedules -> Nat]
        /\ schedule'[s] # S!NoSchedule
        /\ schedule'[s].cron \in DOMAIN Fields /\ IsValid(Fields[schedule'[s].cron])
        /\ schedule'[s].base = now /\ schedule'[s].next = NextRun[schedule'[s].cron][now]
        /\ afterwards'[s] = IF s \in defined THEN afterwards[s] ELSE afterwards[s] + 1
        /\ \A t \in S!Schedules \ {s} : schedule'[t] = schedule[t] /\ afterwards'[t] = afterwards[t]
    BY <2>3, <2>4, <2>5, FireEffect
  <2>7. /\ loop'.at = "launching" /\ loop'.now = now
        /\ loop'.todo \subseteq todo /\ loop'.todo \subseteq catalogue \cup loop.todo
        /\ s \notin loop'.todo
    <3>1. s \in Nat
      BY <2>4, SchedulerTypes
    <3>2. QED
      BY <1>2, <2>3, <3>1
  <2>8. S!TypeOK'
    <3>1. loop' \in [at : {"asleep", "launching", "down"}, now : 0 .. MaxTime, todo : SUBSET S!Schedules]
      <4>1. {t \in todo : t > s} \subseteq S!Schedules /\ now \in 0 .. MaxTime
        BY <1>2, SchedulerTypes
      <4>2. QED
        BY <2>3, <4>1
    <3>2. fired' \in [S!Schedules -> Nat]
      BY <1>4, <2>3, <2>4, SchedulerTypes DEF S!TypeOK
    <3>3. QED
      BY <1>4, <2>6, <3>1, <3>2 DEF S!TypeOK, S!Schedules
  <2>9. PassIsCurrent'
    BY <1>4, <2>7, SchedulerTypes DEF PassIsCurrent
  <2>10. afterwards[s] = 0 /\ fired'[s] = schedule[s].next
    <3>1. fired \in [S!Schedules -> Nat]
      BY <1>4 DEF S!TypeOK
    <3>2. QED
      BY <1>3, <2>3, <2>4, <2>5, <3>1 DEF RunsOnce
  <2>11. ASSUME NEW t \in S!Schedules \ {s}
         PROVE  fired'[t] = fired[t] /\ schedule'[t] = schedule[t] /\ afterwards'[t] = afterwards[t]
    BY <1>4, <2>3, <2>6 DEF S!TypeOK
  <2>12. ASSUME NEW t \in S!Schedules PROVE IsComputed(t)' /\ IsLater(t)' /\ RunsOnce(t)'
    <3>1. CASE t = s
      <4>1. IsComputed(t)'
        BY <2>6, <3>1 DEF IsComputed
      <4>2. IsLater(t)'
        BY <1>2, <2>4, <2>6, <2>10, <3>1, SchedulerTypes DEF IsLater
      <4>3. RunsOnce(t)'
        BY <2>6, <2>7, <2>10, <3>1 DEF RunsOnce
      <4>4. QED
        BY <4>1, <4>2, <4>3
    <3>2. CASE t # s
      <4>1. IsComputed(t) /\ IsLater(t) /\ RunsOnce(t)
        BY <1>3
      <4>2. fired'[t] = fired[t] /\ schedule'[t] = schedule[t] /\ afterwards'[t] = afterwards[t]
        BY <2>11, <3>2
      <4>3. (t \in catalogue' \cup loop'.todo => t \in catalogue \cup loop.todo)
            /\ (t \in defined' \cup loop'.todo => t \in defined \cup loop.todo)
        BY <2>7, SchedulerTypes
      <4>4. QED
        BY <4>1, <4>2, <4>3 DEF IsComputed, IsLater, RunsOnce
    <3>3. QED
      BY <3>1, <3>2
  <2>13. SchedulerInv'
    BY <2>8, <2>9, <2>12 DEF SchedulerInv, S!Schedules
  <2>14. ASSUME NEW t \in S!Schedules, fired'[t] # fired[t],
                schedule[t].base \notin {i \in 1 .. MaxTime : Repeated(i)}
         PROVE  fired'[t] > fired[t] /\ fired'[t] > booted
    <3>1. t = s
      BY <2>11, <2>14
    <3>2. PICK o : o = schedule[s]
      OBVIOUS
    <3>3. o.cron \in DOMAIN Fields /\ o.base \in 1 .. MaxTime /\ o.next = NextRun[o.cron][o.base]
      BY <1>3, <2>4, <2>5, <3>2, SchedulerTypes DEF IsComputed
    <3>4. o.next > o.base
      <4>1. ~Repeated(o.base)
        BY <2>14, <3>1, <3>2, <3>3
      <4>2. o.next # Never
        BY <2>4, <3>2 DEF Never
      <4>3. QED
        BY <3>3, <4>1, <4>2, NextRunTypes
    <3>5. fired[s] <= o.base /\ booted <= o.base
      BY <1>3, <2>4, <3>2 DEF IsLater
    <3>6. o.base \in Nat /\ o.next \in Nat /\ fired[s] \in Nat /\ booted \in Nat
      BY <2>4, <3>2, SchedulerTypes
    <3>7. QED
      BY <2>10, <3>1, <3>2, <3>4, <3>5, <3>6
  <2>15. \A t \in S!Schedules : afterwards'[t] <= 1
    BY <2>12 DEF RunsOnce
  <2>16. QED
    BY <2>13, <2>14, <2>15 DEF NoneBackfilled
<1>7. QED
  BY <1>5, <1>6

LEMMA SchedulerCreate ==
  ASSUME SchedulerInv, NEW s \in S!Schedules, S!Create(s)
  PROVE  SchedulerInv' /\ NoneBackfilled
<1>1. PICK expr \in Expressions :
        /\ loop.at # "down"
        /\ schedule[s] = S!NoSchedule
        /\ NextRun[expr][clock] # 0
        /\ schedule' = [schedule EXCEPT ![s] = S!Computed(expr, clock)]
        /\ catalogue' = catalogue \cup {s}
        /\ defined' = defined \cup {s}
        /\ UNCHANGED <<clock, loop, manual, fired, afterwards, restarts, booted>>
  BY DEF S!Create, S!Never
<1>2. expr \in DOMAIN Fields /\ clock \in 1 .. clock /\ clock \in 1 .. MaxTime
  <2>1. clock \in 1 .. MaxTime
    BY DEF SchedulerInv, S!TypeOK
  <2>2. QED
    BY <2>1, SchedulerTypes DEF Expressions
<1>3. PICK o : /\ o = S!Computed(expr, clock)
               /\ o \in [cron : Expressions \cup {S!NoCron}, next : Nat, base : 0 .. MaxTime]
               /\ o.base = clock /\ o.cron = expr /\ o.next = NextRun[expr][clock] /\ o # S!NoSchedule
  BY <1>2, ComputedTypes
<1>4. IsValid(Fields[expr])
  BY <1>1, <1>2, NextRunTypes DEF Never
<1>5. /\ schedule' \in [S!Schedules -> [cron : Expressions \cup {S!NoCron}, next : Nat, base : 0 .. MaxTime]]
      /\ schedule'[s] = o
      /\ \A t \in S!Schedules \ {s} : schedule'[t] = schedule[t]
  BY <1>1, <1>3, SchedulerTypes
<1>6. S!TypeOK'
  <2>1. S!TypeOK
    BY DEF SchedulerInv
  <2>2. catalogue' \subseteq S!Schedules /\ defined' \subseteq S!Schedules
    BY <1>1, SchedulerTypes
  <2>3. QED
    BY <1>1, <1>5, <2>1, <2>2 DEF S!TypeOK, S!Schedules
<1>7. PassIsCurrent'
  BY <1>1 DEF SchedulerInv, PassIsCurrent
<1>8. ASSUME NEW t \in S!Schedules PROVE IsComputed(t)' /\ IsLater(t)' /\ RunsOnce(t)'
  <2>1. IsComputed(t) /\ IsLater(t) /\ RunsOnce(t)
    BY DEF SchedulerInv
  <2>2. CASE t = s
    <3>1. IsComputed(t)'
      BY <1>1, <1>2, <1>3, <1>4, <1>5, <2>2 DEF IsComputed
    <3>2. IsLater(t)'
      <4>1. fired[t] <= schedule[t].base /\ schedule[t].base = 0
        BY <1>1, <2>1, <2>2, SchedulerTypes DEF IsLater
      <4>2. schedule'[t].base = clock /\ fired'[t] = fired[t] /\ booted' = booted
        BY <1>1, <1>3, <1>5, <2>2
      <4>3. QED
        BY <4>1, <4>2, SchedulerTypes DEF IsLater
    <3>3. RunsOnce(t)'
      BY <1>1, <2>1, <2>2 DEF RunsOnce
    <3>4. QED
      BY <3>1, <3>2, <3>3
  <2>3. CASE t # s
    <3>1. /\ t \in catalogue' => t \in catalogue
          /\ t \in defined' => t \in defined
          /\ schedule'[t] = schedule[t]
      BY <1>1, <1>5, <2>3
    <3>2. QED
      BY <1>1, <2>1, <3>1 DEF IsComputed, IsLater, RunsOnce
  <2>4. QED
    BY <2>2, <2>3
<1>9. SchedulerInv'
  BY <1>6, <1>7, <1>8 DEF SchedulerInv, S!Schedules
<1>10. NoneBackfilled
  BY <1>1 DEF SchedulerInv, RunsOnce, NoneBackfilled
<1>11. QED
  BY <1>9, <1>10

LEMMA SchedulerDelete ==
  ASSUME SchedulerInv, NEW s \in S!Schedules, S!Delete(s)
  PROVE  SchedulerInv' /\ NoneBackfilled
<1>1. /\ catalogue' = catalogue \ {s} /\ defined' = defined \ {s}
      /\ UNCHANGED <<clock, schedule, loop, manual, fired, afterwards, restarts, booted>>
  BY DEF S!Delete
<1>2. S!TypeOK' /\ PassIsCurrent'
  BY <1>1 DEF SchedulerInv, S!TypeOK, PassIsCurrent, S!Schedules
<1>3. ASSUME NEW t \in S!Schedules PROVE IsComputed(t)' /\ IsLater(t)' /\ RunsOnce(t)'
  <2>1. IsComputed(t) /\ IsLater(t) /\ RunsOnce(t)
    BY DEF SchedulerInv
  <2>2. QED
    BY <1>1, <2>1 DEF IsComputed, IsLater, RunsOnce
<1>4. SchedulerInv'
  BY <1>2, <1>3 DEF SchedulerInv, S!Schedules
<1>5. NoneBackfilled
  BY <1>1 DEF SchedulerInv, RunsOnce, NoneBackfilled
<1>6. QED
  BY <1>4, <1>5

LEMMA DefinedIsComputed ==
  ASSUME SchedulerInv, NEW s \in defined
  PROVE  schedule[s] # S!NoSchedule
<1>1. s \in S!Schedules /\ s \in defined \cup loop.todo
  BY SchedulerTypes
<1>2. \A t \in S!Schedules : IsComputed(t)
  BY DEF SchedulerInv
<1>3. IsComputed(s)
  BY <1>1, <1>2
<1>4. PICK o : o = schedule[s]
  OBVIOUS
<1>5. CASE o = S!NoSchedule /\ s \notin defined \cup loop.todo
  BY <1>1, <1>5
<1>6. CASE o.base \in 1 .. clock
  <2>1. o.base # 0
    BY <1>6, SchedulerTypes
  <2>2. S!NoSchedule.base = 0
    BY SchedulerTypes
  <2>3. QED
    BY <1>4, <2>1, <2>2
<1>7. QED
  BY <1>3, <1>4, <1>5, <1>6 DEF IsComputed

LEMMA SchedulerTrigger ==
  ASSUME SchedulerInv, NEW s \in S!Schedules, S!Trigger(s)
  PROVE  SchedulerInv' /\ NoneBackfilled
<1>1. /\ s \in catalogue
      /\ manual' = s
      /\ S!Fire(s, clock)
      /\ UNCHANGED <<clock, defined, catalogue, loop, fired, restarts, booted>>
  BY DEF S!Trigger
<1>2. clock \in 1 .. clock /\ s \in defined
  BY <1>1, SchedulerTypes
<1>3. schedule[s] # S!NoSchedule
  BY <1>2, DefinedIsComputed
<1>4. /\ schedule' \in [S!Schedules -> [cron : Expressions \cup {S!NoCron}, next : Nat, base : 0 .. MaxTime]]
      /\ afterwards' \in [S!Schedules -> Nat]
      /\ schedule'[s] # S!NoSchedule
      /\ schedule'[s].cron \in DOMAIN Fields /\ IsValid(Fields[schedule'[s].cron])
      /\ schedule'[s].base = clock /\ schedule'[s].next = NextRun[schedule'[s].cron][clock]
      /\ afterwards'[s] = afterwards[s]
      /\ \A t \in S!Schedules \ {s} : schedule'[t] = schedule[t] /\ afterwards'[t] = afterwards[t]
  BY <1>1, <1>2, <1>3, FireEffect
<1>5. S!TypeOK' /\ PassIsCurrent'
  <2>1. S!TypeOK /\ PassIsCurrent
    BY DEF SchedulerInv
  <2>2. S!TypeOK'
    BY <1>1, <1>4, <2>1 DEF S!TypeOK, S!Schedules
  <2>3. PassIsCurrent'
    BY <1>1, <2>1 DEF PassIsCurrent
  <2>4. QED
    BY <2>2, <2>3
<1>6. ASSUME NEW t \in S!Schedules PROVE IsComputed(t)' /\ IsLater(t)' /\ RunsOnce(t)'
  <2>1. IsComputed(t) /\ IsLater(t) /\ RunsOnce(t)
    BY DEF SchedulerInv
  <2>2. CASE t = s
    <3>1. IsComputed(t)'
      BY <1>1, <1>2, <1>4, <2>2 DEF IsComputed
    <3>2. IsLater(t)'
      <4>1. PICK b \in Nat : b = schedule[t].base /\ b <= clock /\ fired[t] <= b
        BY <1>3, <2>1, <2>2, SchedulerTypes DEF IsComputed, IsLater
      <4>2. fired[t] <= clock
        BY <4>1, SchedulerTypes
      <4>3. QED
        BY <1>1, <1>4, <2>2, <4>2, SchedulerTypes DEF IsLater
    <3>3. RunsOnce(t)'
      BY <1>1, <1>2, <1>4, <2>1, <2>2 DEF RunsOnce
    <3>4. QED
      BY <3>1, <3>2, <3>3
  <2>3. CASE t # s
    BY <1>1, <1>4, <2>1, <2>3 DEF IsComputed, IsLater, RunsOnce
  <2>4. QED
    BY <2>2, <2>3
<1>7. SchedulerInv'
  BY <1>5, <1>6 DEF SchedulerInv, S!Schedules
<1>8. NoneBackfilled
  BY <1>1, <1>6 DEF RunsOnce, NoneBackfilled
<1>9. QED
  BY <1>7, <1>8

\* rebuild(): a start computes every next run anew.
LEMMA SchedulerRebuild ==
  ASSUME SchedulerInv, S!Rebuild
  PROVE  SchedulerInv' /\ NoneBackfilled
<1>1. /\ loop.at = "down" /\ loop' = S!Asleep
      /\ restarts' = restarts + 1 /\ booted' = clock /\ catalogue' = defined
      /\ schedule' = [s \in S!Schedules |->
           IF s \in defined THEN S!Computed(schedule[s].cron, clock) ELSE schedule[s]]
      /\ UNCHANGED <<clock, defined, manual, fired, afterwards>>
  BY DEF S!Rebuild
<1>2. loop' = [at |-> "asleep", now |-> 0, todo |-> {}]
  BY <1>1 DEF S!Asleep, S!Never
<1>3. clock \in 1 .. clock /\ clock \in 1 .. MaxTime
  <2>1. clock \in 1 .. MaxTime
    BY DEF SchedulerInv, S!TypeOK
  <2>2. QED
    BY <2>1, SchedulerTypes
<1>4. ASSUME NEW s \in defined
      PROVE  /\ s \in S!Schedules /\ schedule'[s] # S!NoSchedule
             /\ schedule'[s] \in [cron : Expressions \cup {S!NoCron}, next : Nat, base : 0 .. MaxTime]
             /\ schedule'[s].cron \in DOMAIN Fields /\ IsValid(Fields[schedule'[s].cron])
             /\ schedule'[s].base = clock /\ schedule'[s].next = NextRun[schedule'[s].cron][clock]
  <2>1. s \in S!Schedules
    BY SchedulerTypes
  <2>2. PICK cron : cron = schedule[s].cron /\ cron \in DOMAIN Fields /\ IsValid(Fields[cron])
    BY <2>1 DEF SchedulerInv, IsComputed
  <2>3. PICK o : /\ o = S!Computed(cron, clock)
                 /\ o \in [cron : Expressions \cup {S!NoCron}, next : Nat, base : 0 .. MaxTime]
                 /\ o.base = clock /\ o.cron = cron /\ o.next = NextRun[cron][clock] /\ o # S!NoSchedule
    BY <1>3, <2>2, ComputedTypes
  <2>4. schedule'[s] = o
    BY <1>1, <2>1, <2>2, <2>3
  <2>5. QED
    BY <2>1, <2>2, <2>3, <2>4
<1>5. ASSUME NEW s \in S!Schedules \ defined PROVE schedule'[s] = schedule[s]
  BY <1>1
<1>6. schedule' \in [S!Schedules -> [cron : Expressions \cup {S!NoCron}, next : Nat, base : 0 .. MaxTime]]
  <2>1. schedule' = [s \in S!Schedules |-> schedule'[s]]
    BY <1>1
  <2>2. \A s \in S!Schedules :
          schedule'[s] \in [cron : Expressions \cup {S!NoCron}, next : Nat, base : 0 .. MaxTime]
    BY <1>4, <1>5, SchedulerTypes
  <2>3. QED
    BY <2>1, <2>2
<1>7. S!TypeOK'
  <2>1. S!TypeOK
    BY DEF SchedulerInv
  <2>2. restarts' \in 0 .. MaxRestarts
    BY <1>1, SchedulerTypes DEF SchedulerInv, S!TypeOK, PassIsCurrent
  <2>3. QED
    BY <1>1, <1>2, <1>3, <1>6, <2>1, <2>2, SchedulerTypes DEF S!TypeOK, S!Schedules
<1>8. PassIsCurrent'
  BY <1>1, <1>2, SchedulerTypes DEF PassIsCurrent
<1>9. ASSUME NEW t \in S!Schedules PROVE IsComputed(t)' /\ IsLater(t)' /\ RunsOnce(t)'
  <2>1. IsComputed(t) /\ IsLater(t) /\ RunsOnce(t)
    BY DEF SchedulerInv
  <2>2. IsComputed(t)'
    <3>1. CASE t \in defined
      BY <1>1, <1>2, <1>3, <1>4, <3>1 DEF IsComputed
    <3>2. CASE t \notin defined
      <4>1. schedule'[t] = schedule[t] /\ t \notin defined' \cup loop'.todo
        BY <1>1, <1>2, <1>5, <3>2
      <4>2. QED
        BY <1>1, <2>1, <4>1 DEF IsComputed
    <3>3. QED
      BY <3>1, <3>2
  <2>3. IsLater(t)'
    <3>1. CASE t \in defined
      <4>1. schedule[t] # S!NoSchedule
        BY <3>1, DefinedIsComputed
      <4>2. PICK b \in Nat : b = schedule[t].base /\ b <= clock /\ fired[t] <= b
        BY <2>1, <4>1, SchedulerTypes DEF IsComputed, IsLater
      <4>3. PICK f : f = fired[t] /\ f \in Nat
        BY SchedulerTypes
      <4>4. clock \in Nat /\ f <= clock
        BY <4>2, <4>3, SchedulerTypes
      <4>5. fired'[t] = f
        BY <1>1, <4>3
      <4>6. schedule'[t].base = clock
        BY <1>4, <3>1
      <4>7. booted' = clock
        BY <1>1
      <4>8. fired'[t] <= schedule'[t].base /\ booted' <= schedule'[t].base
        BY <4>4, <4>5, <4>6, <4>7
      <4>9. QED
        BY <4>8 DEF IsLater
    <3>2. CASE t \notin defined
      BY <1>1, <1>2, <1>5, <2>1, <3>2 DEF IsLater
    <3>3. QED
      BY <3>1, <3>2
  <2>4. RunsOnce(t)'
    BY <1>1, <1>2, <1>4, <1>5, <2>1 DEF RunsOnce
  <2>5. QED
    BY <2>2, <2>3, <2>4
<1>10. SchedulerInv'
  BY <1>7, <1>8, <1>9 DEF SchedulerInv, S!Schedules
<1>11. NoneBackfilled
  BY <1>1, <1>9 DEF RunsOnce, NoneBackfilled
<1>12. QED
  BY <1>10, <1>11

LEMMA SchedulerHalt ==
  ASSUME SchedulerInv, S!Halt
  PROVE  SchedulerInv' /\ NoneBackfilled
<1>1. /\ restarts < MaxRestarts /\ loop' = S!Down /\ manual' = S!Nobody /\ catalogue' = {}
      /\ UNCHANGED <<clock, defined, schedule, fired, afterwards, restarts, booted>>
  BY DEF S!Halt
<1>2. loop' = [at |-> "down", now |-> 0, todo |-> {}]
  BY <1>1 DEF S!Down, S!Asleep, S!Never
<1>3. S!TypeOK' /\ PassIsCurrent'
  <2>1. loop' \in [at : {"asleep", "launching", "down"}, now : 0 .. MaxTime, todo : SUBSET S!Schedules]
    BY <1>2, SchedulerTypes
  <2>2. S!TypeOK'
    BY <1>1, <2>1 DEF SchedulerInv, S!TypeOK, S!Schedules
  <2>3. PassIsCurrent'
    BY <1>1, <1>2 DEF SchedulerInv, PassIsCurrent
  <2>4. QED
    BY <2>2, <2>3
<1>4. ASSUME NEW t \in S!Schedules PROVE IsComputed(t)' /\ IsLater(t)' /\ RunsOnce(t)'
  <2>1. IsComputed(t) /\ IsLater(t) /\ RunsOnce(t)
    BY DEF SchedulerInv
  <2>2. QED
    BY <1>1, <1>2, <2>1 DEF IsComputed, IsLater, RunsOnce
<1>5. SchedulerInv'
  BY <1>3, <1>4 DEF SchedulerInv, S!Schedules
<1>6. NoneBackfilled
  BY <1>1 DEF SchedulerInv, RunsOnce, NoneBackfilled
<1>7. QED
  BY <1>5, <1>6

LEMMA SchedulerTick ==
  ASSUME SchedulerInv, S!Tick
  PROVE  SchedulerInv' /\ NoneBackfilled
<1>1. PICK minutes \in 1 .. 2 :
        /\ clock + minutes <= MaxTime
        /\ clock' = clock + minutes
        /\ UNCHANGED <<defined, catalogue, schedule, loop, manual, fired, afterwards, restarts, booted>>
  BY DEF S!Tick
<1>2. clock' \in 1 .. MaxTime /\ clock <= clock' /\ \A b \in 1 .. clock : b \in 1 .. clock'
  BY <1>1, SchedulerTypes
<1>3. S!TypeOK'
  BY <1>1, <1>2 DEF SchedulerInv, S!TypeOK, S!Schedules
<1>4. PassIsCurrent'
  <2>1. loop.at = "launching" => loop.now \in Nat
    BY SchedulerTypes DEF SchedulerInv, S!TypeOK
  <2>2. QED
    BY <1>1, <1>2, <2>1, SchedulerTypes DEF SchedulerInv, PassIsCurrent
<1>5. ASSUME NEW t \in S!Schedules PROVE IsComputed(t)' /\ IsLater(t)' /\ RunsOnce(t)'
  <2>1. IsComputed(t) /\ IsLater(t) /\ RunsOnce(t)
    BY DEF SchedulerInv
  <2>2. IsComputed(t)'
    BY <1>1, <1>2, <2>1 DEF IsComputed
  <2>3. QED
    BY <1>1, <2>1, <2>2 DEF IsLater, RunsOnce
<1>6. SchedulerInv'
  BY <1>3, <1>4, <1>5 DEF SchedulerInv, S!Schedules
<1>7. NoneBackfilled
  BY <1>1 DEF SchedulerInv, RunsOnce, NoneBackfilled
<1>8. QED
  BY <1>6, <1>7

LEMMA SchedulerStays ==
  ASSUME SchedulerInv, UNCHANGED <<clock, defined, catalogue, schedule, loop, fired, afterwards,
                                   restarts, booted>>,
         manual' \in S!Schedules \cup {S!Nobody}
  PROVE  SchedulerInv' /\ NoneBackfilled
<1>1. S!TypeOK' /\ PassIsCurrent'
  BY DEF SchedulerInv, S!TypeOK, PassIsCurrent, S!Schedules
<1>2. ASSUME NEW t \in S!Schedules PROVE IsComputed(t)' /\ IsLater(t)' /\ RunsOnce(t)'
  <2>1. IsComputed(t) /\ IsLater(t) /\ RunsOnce(t)
    BY DEF SchedulerInv
  <2>2. QED
    BY <2>1 DEF IsComputed, IsLater, RunsOnce
<1>3. SchedulerInv'
  BY <1>1, <1>2 DEF SchedulerInv, S!Schedules
<1>4. NoneBackfilled
  BY DEF SchedulerInv, RunsOnce, NoneBackfilled
<1>5. QED
  BY <1>3, <1>4

LEMMA SchedulerNext == SchedulerInv /\ [S!Next]_(S!vars) => SchedulerInv' /\ NoneBackfilled
<1> SUFFICES ASSUME SchedulerInv, [S!Next]_(S!vars) PROVE SchedulerInv' /\ NoneBackfilled
  OBVIOUS
<1>1. manual \in S!Schedules \cup {S!Nobody} /\ PassIsCurrent
  BY DEF SchedulerInv, S!TypeOK
<1>2. CASE UNCHANGED S!vars
  BY <1>1, <1>2, SchedulerStays DEF S!vars
<1>3. ASSUME NEW s \in S!Schedules, S!Create(s) \/ S!Delete(s) \/ S!Trigger(s)
      PROVE  SchedulerInv' /\ NoneBackfilled
  BY <1>3, SchedulerCreate, SchedulerDelete, SchedulerTrigger
<1>4. CASE S!TriggerEnds
  BY <1>4, SchedulerStays DEF S!TriggerEnds
<1>5. CASE S!Wake
  <2>1. /\ loop.at = "asleep" /\ S!Pass(catalogue, clock)
        /\ UNCHANGED <<clock, defined, catalogue, manual, restarts, booted>>
    BY <1>5 DEF S!Wake
  <2>2. clock \in 1 .. clock /\ booted <= clock
    BY SchedulerTypes
  <2>3. QED
    BY <2>1, <2>2, PassKeeps
<1>6. CASE S!LaunchEnds
  <2>1. /\ loop.at = "launching" /\ S!Pass(loop.todo, loop.now)
        /\ UNCHANGED <<clock, defined, catalogue, manual, restarts, booted>>
    BY <1>6 DEF S!LaunchEnds
  <2>2. loop.now \in 1 .. clock /\ booted <= loop.now
    <3>1. loop.now \in 0 .. MaxTime
      BY DEF SchedulerInv, S!TypeOK
    <3>2. QED
      BY <1>1, <2>1, <3>1, SchedulerTypes DEF PassIsCurrent
  <2>3. QED
    BY <2>1, <2>2, PassKeeps
<1>7. CASE S!Halt \/ S!Rebuild \/ S!Tick
  BY <1>7, SchedulerHalt, SchedulerRebuild, SchedulerTick
<1>8. QED
  BY <1>2, <1>3, <1>4, <1>5, <1>6, <1>7 DEF S!Next

LEMMA SchedulerSound == Spec => []SchedulerInv
<1>1. Init => SchedulerInv
  BY SchedulerStep, SchedulerInit
<1>2. SchedulerInv /\ [Next]_vars => SchedulerInv'
  BY SchedulerStep, SchedulerNext
<1>3. QED
  BY <1>1, <1>2, PTL DEF Spec

\* "The first instant strictly after" (cron.py, next_fire): for any calendar,
\* any expression that parses and any change of the clock, what a schedule
\* waits for is the first minute that matches after the instant it was computed
\* from, whichever of create, the loop, a run by hand or a restart computed it.
THEOREM NextRunIsFirst == Spec => []NextIsFirst
<1>1. ASSUME SchedulerInv PROVE NextIsFirst
  <2>1. SUFFICES ASSUME NEW s \in 1 .. MaxSchedules,
                        schedule[s].base # Never, ~Repeated(schedule[s].base)
                 PROVE  schedule[s].next = FirstRun[schedule[s].cron][schedule[s].base]
    BY DEF NextIsFirst
  <2>2. IsComputed(s)
    BY <1>1 DEF SchedulerInv, S!Schedules
  <2>3. schedule[s] # S!NoSchedule
    BY <1>1, <2>1, SchedulerTypes DEF Never
  <2>4. PICK o : /\ o = schedule[s]
                 /\ o.cron \in DOMAIN Fields /\ IsValid(Fields[o.cron])
                 /\ o.base \in 1 .. clock
                 /\ o.next = NextRun[o.cron][o.base]
    BY <2>2, <2>3 DEF IsComputed
  <2>5. o.base \in 1 .. MaxTime
    BY <1>1, <2>4, SchedulerTypes
  <2>6. QED
    BY <2>1, <2>4, <2>5, NextRunTypes
<1>2. QED
  BY SchedulerSound, <1>1, PTL

\* An action property: no instant of a schedule is fired twice, none from before
\* the server's start, and a deleted schedule runs at most once after it was
\* deleted (scheduler/service.py:7).
THEOREM NothingBackfilled == Spec => NoBackfill
<1>1. ASSUME SchedulerInv, [Next]_vars
      PROVE  [\A s \in S!Schedules :
                /\ afterwards'[s] <= 1
                /\ (fired'[s] # fired[s] /\ schedule[s].base \notin {i \in 1 .. MaxTime : Repeated(i)}) =>
                     fired'[s] > fired[s] /\ fired'[s] > booted]_(S!vars)
  BY <1>1, SchedulerStep, SchedulerNext DEF NoneBackfilled
<1>2. QED
  BY SchedulerSound, <1>1, PTL DEF Spec, NoBackfill, S!NoBackfill

-----------------------------------------------------------------------------
(* Notices *)

\* The notifier's queue is in the order of the events, and behind the event
\* that _route() holds.
QueueInOrder ==
  /\ \A i, j \in DOMAIN waiting : i < j => waiting[i] < waiting[j]
  /\ \A i \in DOMAIN waiting : routing.event < waiting[i]

\* An outcome is about an earlier event, which is no notification.
AboutThePast ==
  \A n \in DOMAIN published :
    LET e == published[n].about
    IN e = 0 \/ (e \in 1 .. n - 1 /\ published[e].kind # "notification")

\* No two outcomes are of the same event and channel.
OutcomesDiffer ==
  \A n, m \in DOMAIN published :
    (published[n].about # 0 /\ published[n].about = published[m].about
     /\ published[n].channel = published[m].channel) => n = m

\* Nothing is told yet of what waits, nor to the channels that are left.
Untold ==
  \A n \in DOMAIN published :
    /\ \A i \in DOMAIN waiting : published[n].about # waiting[i]
    /\ \A k \in DOMAIN routing.targets :
         ~(published[n].about = routing.event /\ published[n].channel = routing.targets[k])

\* The channels left are different ones, of the event that is being routed.
TargetsLeft ==
  /\ \A i, j \in DOMAIN routing.targets : routing.targets[i] = routing.targets[j] => i = j
  /\ routing.targets # <<>> =>
       routing.event \in DOMAIN published /\ published[routing.event].kind # "notification"

\* What is neither lost nor waiting has been told to its channels, but for
\* those that are left.
AllTold ==
  \A e \in DOMAIN published :
    (published[e].kind # "notification" /\ e \notin lost /\ \A i \in DOMAIN waiting : waiting[i] # e) =>
      \A k \in DOMAIN Routes[published[e].kind] :
        LET c == Routes[published[e].kind][k]
        IN \/ \E n \in DOMAIN published : published[n].about = e /\ published[n].channel = c
           \/ e = routing.event /\ \E j \in DOMAIN routing.targets : routing.targets[j] = c

NoticesSafe ==
  QueueInOrder /\ AboutThePast /\ OutcomesDiffer /\ Untold /\ TargetsLeft /\ AllTold

\* The runs of the summary, with the one that is being summarized.
Runs == IF digest = N!NoDigest THEN digests ELSE Append(digests, digest)

\* They follow each other: each counts from the one before it, and all since
\* then if that is within the period.
RunsFollow ==
  /\ lastRun = IF Runs = <<>> THEN 0 ELSE Runs[Len(Runs)].to
  /\ \A i \in DOMAIN Runs : 0 < Runs[i].to /\ \A e \in Runs[i].counted : e < Runs[i].to
  /\ \A i, j \in DOMAIN Runs : i < j =>
       /\ Runs[i].to < Runs[j].to
       /\ \A e \in Runs[j].counted : Runs[i].to <= e
  /\ \A i \in DOMAIN Runs :
       (i - 1 \in DOMAIN Runs /\ Runs[i].counted # {} /\ Runs[i].to <= Runs[i - 1].to + Period) =>
         Runs[i - 1].to .. Runs[i].to - 1 \subseteq Runs[i].counted

NoticesInv == N!TypeOK /\ NoticesSafe /\ RunsFollow

LEMMA NoticesStep ==
  /\ Init => N!Init
  /\ [Next]_vars => [N!Next]_(N!vars)
<1>1. Init => N!Init
  BY DEF Init
<1>2. ASSUME [Next]_vars PROVE [N!Next]_(N!vars)
  <2>1. ASSUME UNCHANGED noticesVars PROVE UNCHANGED N!vars
    BY <2>1 DEF noticesVars, N!vars
  <2>2. CASE UNCHANGED vars \/ Bus \/ Scheduling \/ Pairing \/ Retaining \/ Extending
    BY <2>1, <2>2 DEF vars, Bus, Scheduling, Pairing, Retaining, Extending
  <2>3. CASE Notifying
    BY <2>3 DEF Notifying
  <2>4. QED
    BY <1>2, <2>2, <2>3 DEF Next
<1>3. QED
  BY <1>1, <1>2

\* What the type invariant says, as the proofs use it.
LEMMA NoticesTypes ==
  ASSUME N!TypeOK
  PROVE  /\ QueueLimit \in Nat \ {0} /\ MaxBoots \in Nat \ {0} /\ Period \in Nat /\ Ttl \in Nat
         /\ N!Time \in Nat /\ N!Time = Len(published) /\ DOMAIN published = 1 .. N!Time
         /\ Len(waiting) \in Nat /\ DOMAIN waiting = 1 .. Len(waiting)
         /\ \A i \in DOMAIN waiting : waiting[i] \in 1 .. N!Time
         /\ \A n \in DOMAIN published : published[n] \in N!Event
         /\ \A n \in DOMAIN published :
              published[n].about \in Nat
              /\ (published[n].kind # "notification" => published[n].kind \in DOMAIN Routes)
         /\ routing.event \in 0 .. N!Time /\ routing.targets \in Seq(STRING)
<1>1. /\ QueueLimit \in Nat \ {0} /\ MaxBoots \in Nat \ {0} /\ Period \in Nat /\ Ttl \in Nat
      /\ Kinds \cup {"summary"} \subseteq DOMAIN Routes
  BY ServicesBounds DEF N!NoticesBounds
<1>2. /\ published \in Seq(N!Event)
      /\ waiting \in Seq(DOMAIN published)
      /\ routing \in [event : {0} \cup DOMAIN published, targets : Seq(STRING), present : BOOLEAN]
  BY DEF N!TypeOK
<1>3. N!Time = Len(published) /\ N!Time \in Nat /\ DOMAIN published = 1 .. N!Time
  BY <1>2 DEF N!Time
<1>4. Len(waiting) \in Nat /\ DOMAIN waiting = 1 .. Len(waiting)
  BY <1>2
<1>5. \A i \in DOMAIN waiting : waiting[i] \in 1 .. N!Time
  BY <1>2, <1>3, <1>4, ElementOfSeq, Zenon
<1>6. \A n \in DOMAIN published : published[n] \in N!Event
  BY <1>2, <1>3, ElementOfSeq, Zenon
<1>7. ASSUME NEW n \in DOMAIN published
      PROVE  published[n].about \in Nat
             /\ (published[n].kind # "notification" => published[n].kind \in DOMAIN Routes)
  <2>1. published[n] \in N!Event
    BY <1>6
  <2>2. published[n].about \in Nat /\ published[n].kind \in Kinds \cup {"summary", "notification"}
    BY <2>1 DEF N!Event
  <2>3. QED
    BY <1>1, <2>2
<1>8. routing.event \in {0} \cup 1 .. N!Time /\ routing.targets \in Seq(STRING)
  BY <1>2, <1>3
<1>9. routing.event \in 0 .. N!Time
  BY <1>3, <1>8
<1>10. QED
  BY <1>1, <1>3, <1>4, <1>5, <1>6, <1>7, <1>8, <1>9

LEMMA NoticesInit == N!Init => NoticesInv
<1> SUFFICES ASSUME N!Init PROVE NoticesInv
  OBVIOUS
<1>1. /\ published = <<>> /\ waiting = <<>> /\ lost = {} /\ digests = <<>> /\ lastRun = 0 /\ boots = 1
      /\ routing = [event |-> 0, targets |-> <<>>, present |-> FALSE]
      /\ presence = [c \in Clients |-> [attentive |-> FALSE, expires |-> 0]]
      /\ digest = [to |-> 0, counted |-> {}] /\ digest = N!NoDigest
  BY DEF N!Init, N!NoRoute, N!Gone, N!NoDigest
<1>2. \A U : <<>> \in Seq(U)
  OBVIOUS
<1>3. Len(<<>>) = 0 /\ DOMAIN <<>> = {}
  OBVIOUS
<1>4. N!Time = 0 /\ DOMAIN published = {}
  BY <1>1, <1>3 DEF N!Time
<1>5. MaxBoots \in Nat \ {0} /\ QueueLimit \in Nat \ {0} /\ Ttl \in Nat
  BY ServicesBounds DEF N!NoticesBounds
<1>6. published \in Seq(N!Event) /\ waiting \in Seq(DOMAIN published)
  BY <1>1, <1>2, Zenon
<1>7. routing.targets \in Seq(STRING) /\ digests \in Seq(N!Digest)
  <2>1. routing.targets = <<>>
    BY <1>1
  <2>2. QED
    BY <1>1, <1>2, <2>1, Zenon
<1>8. routing \in [event : {0} \cup DOMAIN published, targets : Seq(STRING), present : BOOLEAN]
  BY <1>1, <1>7
<1>9. digest \in N!Digest
  BY <1>1 DEF N!Digest
<1>10. presence \in [Clients -> [attentive : BOOLEAN, expires : 0 .. N!Time + Ttl]]
  <2>1. 0 \in 0 .. N!Time + Ttl
    BY <1>4, <1>5
  <2>2. QED
    BY <1>1, <2>1
<1>11. N!TypeOK
  BY <1>1, <1>3, <1>4, <1>5, <1>6, <1>7, <1>8, <1>9, <1>10 DEF N!TypeOK
<1>12. NoticesSafe
  <2>1. DOMAIN waiting = {} /\ DOMAIN routing.targets = {} /\ routing.targets = <<>>
    BY <1>1, <1>3
  <2>2. QED
    BY <1>4, <2>1 DEF NoticesSafe, QueueInOrder, AboutThePast, OutcomesDiffer, Untold, TargetsLeft, AllTold
<1>13. RunsFollow
  <2>1. Runs = <<>>
    BY <1>1 DEF Runs
  <2>2. QED
    BY <1>1, <1>3, <2>1 DEF RunsFollow
<1>14. QED
  BY <1>11, <1>12, <1>13 DEF NoticesInv

\* What a publish does to the log and to the notifier's queue.
LEMMA PublishEffect ==
  ASSUME N!TypeOK, QueueInOrder, NEW event \in N!Event, N!Publish(event)
  PROVE  /\ published' \in Seq(N!Event) /\ N!Time' = N!Time + 1 /\ DOMAIN published' = 1 .. N!Time + 1
         /\ \A n \in 1 .. N!Time : published'[n] = published[n]
         /\ published'[N!Time + 1] = event
         /\ waiting' \in Seq(DOMAIN published') /\ Len(waiting') <= QueueLimit
         /\ lost' \subseteq DOMAIN published' /\ lost \subseteq lost'
         /\ \A i, j \in DOMAIN waiting' : i < j => waiting'[i] < waiting'[j]
         /\ \A i \in DOMAIN waiting' :
              waiting'[i] = N!Time + 1 \/ \E j \in DOMAIN waiting : waiting'[i] = waiting[j]
         /\ \E i \in DOMAIN waiting' : waiting'[i] = N!Time + 1
         /\ \A j \in DOMAIN waiting :
              waiting[j] \in lost' \/ \E i \in DOMAIN waiting' : waiting'[i] = waiting[j]
<1> DEFINE full == Len(waiting) = QueueLimit
           last == N!Time + 1
           kept == IF full THEN Tail(waiting) ELSE waiting
<1>1. /\ published' = Append(published, event) /\ waiting' = Append(kept, last)
      /\ lost' = IF full THEN lost \cup {Head(waiting)} ELSE lost
  BY DEF N!Publish
<1>2. /\ QueueLimit \in Nat \ {0} /\ N!Time \in Nat /\ N!Time = Len(published)
      /\ DOMAIN published = 1 .. N!Time
      /\ Len(waiting) \in Nat /\ DOMAIN waiting = 1 .. Len(waiting)
      /\ \A i \in DOMAIN waiting : waiting[i] \in 1 .. N!Time
  BY NoticesTypes
<1>3. /\ published \in Seq(N!Event) /\ waiting \in Seq(DOMAIN published)
      /\ Len(waiting) <= QueueLimit /\ lost \subseteq DOMAIN published
  BY DEF N!TypeOK
<1>4. /\ published' \in Seq(N!Event) /\ DOMAIN published' = 1 .. last /\ Len(published') = last
      /\ \A n \in 1 .. N!Time : published'[n] = published[n]
      /\ published'[last] = event
  <2>1. PICK p : p = published' /\ p = Append(published, event)
    BY <1>1
  <2>2. /\ p \in Seq(N!Event) /\ DOMAIN p = 1 .. Len(published) + 1
        /\ \A n \in DOMAIN published : p[n] = published[n]
        /\ p[Len(published) + 1] = event
    BY <1>3, <2>1, AfterAppend
  <2>3. Len(p) = last
    BY <1>2, <2>2
  <2>4. QED
    BY <1>2, <2>1, <2>2, <2>3
<1>5. N!Time' = last
  BY <1>4 DEF N!Time
\* The queue keeps all it has, or all but its first.
<1>6. PICK d, k : d = (IF full THEN 1 ELSE 0) /\ k = kept
  OBVIOUS
<1>7. /\ k \in Seq(1 .. N!Time) /\ waiting' = Append(k, last)
      /\ Len(k) = Len(waiting) - d /\ Len(k) < QueueLimit
      /\ DOMAIN k = 1 .. Len(k) /\ Len(k) \in Nat
      /\ \A i \in DOMAIN k : k[i] = waiting[i + d]
      /\ d \in {0, 1} /\ d <= Len(waiting)
      /\ lost' = IF d = 1 THEN lost \cup {waiting[1]} ELSE lost
  <2>1. CASE full
    <3>1. waiting # <<>> /\ d = 1
      BY <1>2, <1>6, <2>1
    <3>2. /\ Tail(waiting) \in Seq(1 .. N!Time) /\ Head(waiting) = waiting[1]
          /\ Len(Tail(waiting)) = Len(waiting) - 1 /\ DOMAIN Tail(waiting) = 1 .. Len(waiting) - 1
          /\ \A i \in DOMAIN Tail(waiting) : Tail(waiting)[i] = waiting[i + 1]
      BY <1>2, <1>3, <3>1, AfterTail
    <3>3. k = Tail(waiting)
      BY <1>6, <2>1
    <3>4. waiting' = Append(k, last) /\ lost' = lost \cup {waiting[1]}
      BY <1>1, <2>1, <3>2, <3>3
    <3>5. Len(k) = Len(waiting) - 1 /\ Len(k) < QueueLimit /\ Len(k) \in Nat /\ 1 <= Len(waiting)
      BY <1>2, <2>1, <3>2, <3>3
    <3>6. QED
      BY <3>1, <3>2, <3>3, <3>4, <3>5
  <2>2. CASE ~full
    <3>1. waiting' = Append(waiting, last) /\ lost' = lost /\ d = 0 /\ k = waiting
      BY <1>1, <1>6, <2>2
    <3>2. Len(waiting) < QueueLimit /\ Len(waiting) = Len(waiting) - 0
      <4>1. Len(waiting) # QueueLimit
        BY <2>2
      <4>2. Len(waiting) \in Nat /\ QueueLimit \in Nat /\ Len(waiting) <= QueueLimit
        BY <1>2, <1>3
      <4>3. QED
        BY <4>1, <4>2
    <3>3. \A i \in DOMAIN waiting : waiting[i] = waiting[i + 0]
      BY <1>2
    <3>4. QED
      BY <1>2, <1>3, <3>1, <3>2, <3>3
  <2>3. QED
    BY <2>1, <2>2
<1> HIDE DEF full, kept
<1>8. /\ waiting' \in Seq(1 .. last) /\ DOMAIN waiting' = 1 .. Len(k) + 1
      /\ \A i \in 1 .. Len(k) : waiting'[i] = waiting[i + d]
      /\ waiting'[Len(k) + 1] = last /\ Len(waiting') = Len(k) + 1
  <2>1. PICK t \in Nat : t = N!Time /\ last = t + 1
    BY <1>2
  <2>2. PICK T : T = 1 .. t + 1
    OBVIOUS
  <2>3. t + 1 \in T /\ 1 .. t \subseteq T
    BY <2>2
  <2>4. k \in Seq(1 .. t)
    BY <1>7, <2>1
  <2>5. k \in Seq(T)
    BY <2>3, <2>4
  <2>6. /\ Append(k, t + 1) \in Seq(T) /\ DOMAIN Append(k, t + 1) = 1 .. Len(k) + 1
        /\ \A i \in DOMAIN k : Append(k, t + 1)[i] = k[i]
        /\ Append(k, t + 1)[Len(k) + 1] = t + 1
    BY <2>3, <2>5, AfterAppend
  <2>7. Len(Append(k, t + 1)) = Len(k) + 1
    BY <2>3, <2>5
  <2>8. waiting' = Append(k, t + 1)
    BY <1>7, <2>1
  <2>9. QED
    BY <1>7, <2>1, <2>2, <2>6, <2>7, <2>8
<1>9. waiting' \in Seq(DOMAIN published') /\ Len(waiting') <= QueueLimit
  BY <1>2, <1>4, <1>7, <1>8
<1>10. lost' \subseteq DOMAIN published' /\ lost \subseteq lost'
  BY <1>2, <1>3, <1>4, <1>7
<1>11. \A i \in 1 .. Len(k) : i + d \in DOMAIN waiting
  BY <1>2, <1>7
<1>12. ASSUME NEW i \in DOMAIN waiting', NEW j \in DOMAIN waiting', i < j
       PROVE  waiting'[i] < waiting'[j]
  <2>1. i \in 1 .. Len(k) /\ waiting'[i] = waiting[i + d] /\ i + d \in DOMAIN waiting
    <3>1. i \in 1 .. Len(k)
      BY <1>7, <1>8, <1>12
    <3>2. QED
      BY <1>8, <1>11, <3>1
  <2>2. CASE j \in 1 .. Len(k)
    <3>1. j + d \in DOMAIN waiting /\ waiting'[j] = waiting[j + d]
      BY <1>8, <1>11, <2>2
    <3>2. i + d < j + d
      BY <1>7, <1>12, <2>1, <2>2
    <3>3. QED
      BY <2>1, <3>1, <3>2 DEF QueueInOrder
  <2>3. CASE j = Len(k) + 1
    BY <1>2, <1>8, <2>1, <2>3
  <2>4. QED
    BY <1>7, <1>8, <2>2, <2>3
<1>13. ASSUME NEW i \in DOMAIN waiting'
       PROVE  waiting'[i] = last \/ \E j \in DOMAIN waiting : waiting'[i] = waiting[j]
  <2>1. CASE i \in 1 .. Len(k)
    <3>1. waiting'[i] = waiting[i + d] /\ i + d \in DOMAIN waiting
      BY <1>8, <1>11, <2>1
    <3>2. QED
      BY <3>1
  <2>2. CASE i = Len(k) + 1
    BY <1>8, <2>2
  <2>3. QED
    BY <1>7, <1>8, <2>1, <2>2
<1>14. \E i \in DOMAIN waiting' : waiting'[i] = last
  <2>1. Len(k) + 1 \in DOMAIN waiting'
    BY <1>7, <1>8
  <2>2. QED
    BY <1>8, <2>1
<1>15. ASSUME NEW j \in DOMAIN waiting
       PROVE  waiting[j] \in lost' \/ \E i \in DOMAIN waiting' : waiting'[i] = waiting[j]
  <2>1. CASE j - d \in 1 .. Len(k)
    <3>1. PICK i : i = j - d
      OBVIOUS
    <3>2. i \in DOMAIN waiting' /\ waiting'[i] = waiting[i + d] /\ i + d = j
      <4>1. j \in Int /\ d \in Int
        BY <1>2, <1>7
      <4>2. i + d = j /\ i \in 1 .. Len(k)
        BY <2>1, <3>1, <4>1
      <4>3. i \in 1 .. Len(k) + 1
        BY <1>7, <4>2
      <4>4. QED
        BY <1>8, <4>2, <4>3
    <3>3. QED
      BY <3>2
  <2>2. CASE j - d \notin 1 .. Len(k)
    <3>1. j = 1 /\ d = 1
      BY <1>2, <1>7, <2>2
    <3>2. QED
      BY <1>7, <3>1
  <2>3. QED
    BY <2>1, <2>2
<1>16. QED
  BY <1>4, <1>5, <1>9, <1>10, <1>12, <1>13, <1>14, <1>15

\* A publish keeps the queue in order and tells nothing of what waits.
LEMMA PublishKeeps ==
  ASSUME N!TypeOK, NoticesSafe, NEW event \in N!Event, N!Publish(event),
         routing'.event = routing.event,
         event.about = 0 \/ (/\ event.about = routing.event /\ event.about \in DOMAIN published
                             /\ published[event.about].kind # "notification")
  PROVE  /\ QueueInOrder' /\ AboutThePast'
         /\ \A n \in DOMAIN published', i \in DOMAIN waiting' : published'[n].about # waiting'[i]
         /\ \A e \in DOMAIN published' :
              (e \notin lost' /\ \A i \in DOMAIN waiting' : waiting'[i] # e) =>
                e \in DOMAIN published /\ e \notin lost /\ \A i \in DOMAIN waiting : waiting[i] # e
<1>1. QueueInOrder /\ AboutThePast /\ Untold
  BY DEF NoticesSafe
<1>2. PICK t \in Nat : /\ t = N!Time /\ DOMAIN published = 1 .. t
                       /\ \A i \in DOMAIN waiting : waiting[i] \in 1 .. t
                       /\ routing.event \in 0 .. t
  BY NoticesTypes
<1>3. /\ DOMAIN published' = 1 .. t + 1
      /\ \A n \in 1 .. t : published'[n] = published[n]
      /\ published'[t + 1] = event
      /\ lost \subseteq lost'
      /\ \A i, j \in DOMAIN waiting' : i < j => waiting'[i] < waiting'[j]
      /\ \A i \in DOMAIN waiting' :
           waiting'[i] = t + 1 \/ \E j \in DOMAIN waiting : waiting'[i] = waiting[j]
      /\ \E i \in DOMAIN waiting' : waiting'[i] = t + 1
      /\ \A j \in DOMAIN waiting :
           waiting[j] \in lost' \/ \E i \in DOMAIN waiting' : waiting'[i] = waiting[j]
  BY <1>1, <1>2, PublishEffect
<1>4. ASSUME NEW i \in DOMAIN waiting' PROVE routing.event < waiting'[i]
  <2>1. CASE waiting'[i] = t + 1
    BY <1>2, <2>1
  <2>2. CASE \E j \in DOMAIN waiting : waiting'[i] = waiting[j]
    BY <1>1, <2>2 DEF QueueInOrder
  <2>3. QED
    BY <1>3, <2>1, <2>2
<1>5. QueueInOrder'
  BY <1>3, <1>4 DEF QueueInOrder
<1>6. ASSUME NEW n \in 1 .. t PROVE published[n].about \in 0 .. n - 1
  <2>1. published[n].about = 0 \/ published[n].about \in 1 .. n - 1
    BY <1>1, <1>2 DEF AboutThePast
  <2>2. QED
    BY <1>2, <2>1
<1>7. AboutThePast'
  <2>1. ASSUME NEW n \in DOMAIN published', NEW e, e = published'[n].about
        PROVE  e = 0 \/ (e \in 1 .. n - 1 /\ published'[e].kind # "notification")
    <3>1. CASE n \in 1 .. t
      <4>1. e = published[n].about
        BY <1>3, <2>1, <3>1
      <4>2. e = 0 \/ (e \in 1 .. n - 1 /\ published[e].kind # "notification")
        BY <1>1, <1>2, <3>1, <4>1 DEF AboutThePast
      <4>3. e \in 1 .. n - 1 => e \in 1 .. t
        BY <1>2, <3>1
      <4>4. QED
        BY <1>3, <4>2, <4>3
    <3>2. CASE n = t + 1
      <4>1. e = event.about /\ n - 1 = t
        BY <1>2, <1>3, <2>1, <3>2
      <4>2. QED
        BY <1>2, <1>3, <4>1
    <3>3. QED
      BY <1>2, <1>3, <3>1, <3>2
  <2>2. QED
    BY <2>1 DEF AboutThePast
<1>8. ASSUME NEW n \in DOMAIN published', NEW i \in DOMAIN waiting' PROVE published'[n].about # waiting'[i]
  <2>1. CASE n = t + 1
    <3>1. published'[n].about \in {0, routing.event}
      BY <1>3, <2>1
    <3>2. PICK w : w = waiting'[i] /\ routing.event < w /\ w \in Nat \ {0}
      BY <1>2, <1>3, <1>4
    <3>3. routing.event # w
      BY <1>2, <3>2
    <3>4. QED
      BY <3>1, <3>2, <3>3
  <2>2. CASE n \in 1 .. t
    <3>1. published'[n].about = published[n].about /\ published[n].about \in 0 .. n - 1
      BY <1>3, <1>6, <2>2
    <3>2. CASE waiting'[i] = t + 1
      <4>1. t + 1 \notin 0 .. n - 1
        BY <1>2, <2>2
      <4>2. QED
        BY <3>1, <3>2, <4>1
    <3>3. CASE \E j \in DOMAIN waiting : waiting'[i] = waiting[j]
      BY <1>1, <1>2, <2>2, <3>1, <3>3 DEF Untold
    <3>4. QED
      BY <1>3, <3>2, <3>3
  <2>3. QED
    BY <1>2, <1>3, <2>1, <2>2
<1>9. ASSUME NEW e \in DOMAIN published', e \notin lost', \A i \in DOMAIN waiting' : waiting'[i] # e
      PROVE  e \in DOMAIN published /\ e \notin lost /\ \A i \in DOMAIN waiting : waiting[i] # e
  <2>1. e # t + 1
    BY <1>3, <1>9
  <2>2. e \in 1 .. t
    BY <1>2, <1>3, <2>1
  <2>3. QED
    BY <1>2, <1>3, <1>9, <2>2
<1>10. QED
  BY <1>5, <1>7, <1>8, <1>9

LEMMA PlainIsSafe ==
  ASSUME N!TypeOK, NoticesSafe, NEW kind \in Kinds \cup {"summary"}, N!Publish(N!Plain(kind)),
         UNCHANGED routing
  PROVE  NoticesSafe' /\ N!Plain(kind) \in N!Event
<1>1. PICK event : event = N!Plain(kind) /\ event \in N!Event /\ event.about = 0
  <2>1. PICK event : event = [kind |-> kind, about |-> 0, channel |-> N!None, outcome |-> N!None]
    OBVIOUS
  <2>2. event \in N!Event /\ event.about = 0
    BY <2>1 DEF N!Event
  <2>3. QED
    BY <2>1, <2>2 DEF N!Plain
<1>2. N!Publish(event)
  BY <1>1
<1>3. QueueInOrder /\ OutcomesDiffer /\ Untold /\ TargetsLeft /\ AllTold
  BY DEF NoticesSafe
<1>4. PICK t \in Nat : /\ t = N!Time /\ DOMAIN published = 1 .. t
                       /\ routing.targets \in Seq(STRING)
                       /\ \A n \in DOMAIN published :
                            published[n].kind # "notification" => published[n].kind \in DOMAIN Routes
  BY NoticesTypes
<1>5. /\ DOMAIN published' = 1 .. t + 1 /\ published'[t + 1] = event
      /\ \A n \in 1 .. t : published'[n] = published[n]
  BY <1>1, <1>2, <1>3, <1>4, PublishEffect
<1>6. /\ QueueInOrder' /\ AboutThePast'
      /\ \A n \in DOMAIN published', i \in DOMAIN waiting' : published'[n].about # waiting'[i]
      /\ \A e \in DOMAIN published' :
           (e \notin lost' /\ \A i \in DOMAIN waiting' : waiting'[i] # e) =>
             e \in DOMAIN published /\ e \notin lost /\ \A i \in DOMAIN waiting : waiting[i] # e
  BY <1>1, <1>2, PublishKeeps
<1>7. \A n \in DOMAIN published' : published'[n].about # 0 => n \in DOMAIN published /\ published'[n] = published[n]
  <2>1. \A n \in 1 .. t + 1 : n # t + 1 => n \in 1 .. t
    BY <1>4
  <2>2. QED
    BY <1>1, <1>4, <1>5, <2>1
<1>8. OutcomesDiffer'
  BY <1>3, <1>7 DEF OutcomesDiffer
<1>9. TargetsLeft'
  BY <1>3, <1>4, <1>5 DEF TargetsLeft
<1>10. Untold'
  <2>1. ASSUME NEW n \in DOMAIN published', NEW k \in DOMAIN routing.targets
        PROVE  ~(published'[n].about = routing.event /\ published'[n].channel = routing.targets[k])
    <3>1. routing.targets # <<>>
      BY <1>4, <2>1
    <3>2. routing.event # 0
      BY <1>3, <1>4, <3>1 DEF TargetsLeft
    <3>3. QED
      BY <1>3, <1>7, <3>2 DEF Untold
  <2>2. QED
    BY <1>6, <2>1 DEF Untold
<1>11. AllTold'
  <2>1. ASSUME NEW e \in DOMAIN published', published'[e].kind # "notification", e \notin lost',
               \A i \in DOMAIN waiting' : waiting'[i] # e,
               NEW k \in DOMAIN Routes[published'[e].kind], NEW c, c = Routes[published'[e].kind][k]
        PROVE  \/ \E n \in DOMAIN published' : published'[n].about = e /\ published'[n].channel = c
               \/ e = routing.event /\ \E j \in DOMAIN routing.targets : routing.targets[j] = c
    <3>1. e \in DOMAIN published /\ e \notin lost /\ \A i \in DOMAIN waiting : waiting[i] # e
      BY <1>6, <2>1
    <3>2. published'[e] = published[e]
      BY <1>4, <1>5, <3>1
    <3>3. \/ \E n \in DOMAIN published : published[n].about = e /\ published[n].channel = c
          \/ e = routing.event /\ \E j \in DOMAIN routing.targets : routing.targets[j] = c
      BY <1>3, <2>1, <3>1, <3>2 DEF AllTold
    <3>4. \A n \in DOMAIN published : n \in DOMAIN published' /\ published'[n] = published[n]
      BY <1>4, <1>5
    <3>5. QED
      BY <3>3, <3>4
  <2>2. QED
    BY <2>1 DEF AllTold
<1>12. QED
  BY <1>1, <1>6, <1>8, <1>9, <1>10, <1>11 DEF NoticesSafe

LEMMA SendIsSafe ==
  ASSUME N!TypeOK, NoticesSafe, N!Send
  PROVE  /\ NoticesSafe' /\ UNCHANGED <<presence, digest, lastRun, digests, boots>>
         /\ \E event \in N!Event : N!Publish(event)
         /\ routing' \in [event : {0} \cup DOMAIN published, targets : Seq(STRING), present : BOOLEAN]
<1>1. PICK outcome \in {"sent", "failed", "suppressed"} :
        /\ routing.targets # <<>>
        /\ N!Publish(N!Notification(routing.event, Head(routing.targets), outcome))
        /\ routing' = [routing EXCEPT !.targets = Tail(@)]
        /\ UNCHANGED <<presence, digest, lastRun, digests, boots>>
  BY DEF N!Send
<1>2. QueueInOrder /\ OutcomesDiffer /\ Untold /\ TargetsLeft /\ AllTold
  BY DEF NoticesSafe
<1>3. PICK t \in Nat : /\ t = N!Time /\ DOMAIN published = 1 .. t
                       /\ \A n \in DOMAIN published :
                            published[n].kind # "notification" => published[n].kind \in DOMAIN Routes
  BY NoticesTypes
<1>4. PICK r, targets : /\ r = routing.event /\ targets = routing.targets
                        /\ targets \in Seq(STRING) /\ targets # <<>>
                        /\ r \in DOMAIN published /\ published[r].kind # "notification" /\ r # 0
  BY <1>1, <1>2, <1>3, NoticesTypes DEF TargetsLeft
<1>5. /\ Tail(targets) \in Seq(STRING) /\ Head(targets) = targets[1] /\ Head(targets) \in STRING
      /\ DOMAIN targets = 1 .. Len(targets) /\ Len(targets) \in Nat \ {0}
      /\ DOMAIN Tail(targets) = 1 .. Len(targets) - 1
      /\ \A k \in DOMAIN Tail(targets) : Tail(targets)[k] = targets[k + 1]
  BY <1>4, AfterTail
<1>6. PICK event : /\ event = N!Notification(r, targets[1], outcome) /\ event \in N!Event
                   /\ event.about = r /\ event.channel = targets[1] /\ event.kind = "notification"
  <2>1. PICK event : event = [kind |-> "notification", about |-> r, channel |-> targets[1], outcome |-> outcome]
    OBVIOUS
  <2>2. event \in N!Event /\ event.about = r /\ event.channel = targets[1] /\ event.kind = "notification"
    <3>1. r \in Nat /\ targets[1] \in STRING
      BY <1>3, <1>4, <1>5
    <3>2. QED
      BY <2>1, <3>1 DEF N!Event
  <2>3. QED
    BY <2>1, <2>2 DEF N!Notification
<1>7. N!Publish(event)
  BY <1>1, <1>4, <1>5, <1>6
<1>8. /\ DOMAIN published' = 1 .. t + 1 /\ published'[t + 1] = event
      /\ \A n \in 1 .. t : published'[n] = published[n]
  BY <1>2, <1>3, <1>6, <1>7, PublishEffect
<1>9. PICK rest : /\ rest = Tail(targets) /\ rest = routing'.targets /\ routing'.event = r
                  /\ rest \in Seq(STRING) /\ DOMAIN rest = 1 .. Len(targets) - 1
                  /\ \A k \in DOMAIN rest : rest[k] = targets[k + 1] /\ k + 1 \in DOMAIN targets
                  /\ routing' \in [event : {0} \cup DOMAIN published, targets : Seq(STRING), present : BOOLEAN]
  <2>1. routing \in [event : {0} \cup DOMAIN published, targets : Seq(STRING), present : BOOLEAN]
    BY DEF N!TypeOK
  <2>2. PICK rest : rest = Tail(targets) /\ rest \in Seq(STRING) /\ DOMAIN rest = 1 .. Len(targets) - 1
                    /\ \A k \in DOMAIN rest : rest[k] = targets[k + 1]
    BY <1>5
  <2>3. routing' = [routing EXCEPT !.targets = rest]
    BY <1>1, <1>4, <2>2
  <2>4. \A k \in DOMAIN rest : k + 1 \in DOMAIN targets
    BY <1>5, <2>2
  <2>5. routing'.targets = rest /\ routing'.event = r
    BY <1>4, <2>1, <2>3
  <2>6. routing' \in [event : {0} \cup DOMAIN published, targets : Seq(STRING), present : BOOLEAN]
    BY <2>1, <2>2, <2>3
  <2>7. QED
    BY <2>2, <2>4, <2>5, <2>6
<1>10. /\ QueueInOrder' /\ AboutThePast'
       /\ \A n \in DOMAIN published', i \in DOMAIN waiting' : published'[n].about # waiting'[i]
       /\ \A e \in DOMAIN published' :
            (e \notin lost' /\ \A i \in DOMAIN waiting' : waiting'[i] # e) =>
              e \in DOMAIN published /\ e \notin lost /\ \A i \in DOMAIN waiting : waiting[i] # e
  BY <1>4, <1>6, <1>7, <1>9, PublishKeeps
<1>11. \A n \in DOMAIN published' : n = t + 1 \/ (n \in DOMAIN published /\ published'[n] = published[n])
  <2>1. \A n \in 1 .. t + 1 : n # t + 1 => n \in 1 .. t
    BY <1>3
  <2>2. QED
    BY <1>3, <1>8, <2>1
<1>12. \A k \in DOMAIN targets, n \in DOMAIN published :
         ~(published[n].about = r /\ published[n].channel = targets[k])
  BY <1>2, <1>4 DEF Untold
<1>13. \A i, j \in DOMAIN targets : targets[i] = targets[j] => i = j
  BY <1>2, <1>4 DEF TargetsLeft
<1>14. OutcomesDiffer'
  <2>1. 1 \in DOMAIN targets
    BY <1>5
  <2>2. ASSUME NEW n \in DOMAIN published', NEW m \in DOMAIN published', published'[n].about # 0,
               published'[n].about = published'[m].about, published'[n].channel = published'[m].channel
        PROVE  n = m
    <3>1. CASE n \in DOMAIN published /\ m \in DOMAIN published
      BY <1>2, <1>3, <1>8, <2>2, <3>1 DEF OutcomesDiffer
    <3>2. CASE n = t + 1 /\ m \in DOMAIN published
      BY <1>3, <1>6, <1>8, <1>12, <2>1, <2>2, <3>2
    <3>3. CASE m = t + 1 /\ n \in DOMAIN published
      BY <1>3, <1>6, <1>8, <1>12, <2>1, <2>2, <3>3
    <3>4. QED
      BY <1>11, <2>2, <3>1, <3>2, <3>3
  <2>3. QED
    BY <2>2 DEF OutcomesDiffer
<1>15. Untold'
  <2>1. ASSUME NEW n \in DOMAIN published', NEW k \in DOMAIN rest
        PROVE  ~(published'[n].about = r /\ published'[n].channel = rest[k])
    <3>1. rest[k] = targets[k + 1] /\ k + 1 \in DOMAIN targets /\ k + 1 # 1 /\ 1 \in DOMAIN targets
      BY <1>5, <1>9, <2>1
    <3>2. CASE n = t + 1
      BY <1>6, <1>8, <1>13, <3>1, <3>2
    <3>3. CASE n \in DOMAIN published /\ published'[n] = published[n]
      BY <1>12, <3>1, <3>3
    <3>4. QED
      BY <1>11, <2>1, <3>2, <3>3
  <2>2. QED
    BY <1>9, <1>10, <2>1 DEF Untold
<1>16. TargetsLeft'
  <2>1. ASSUME NEW i \in DOMAIN rest, NEW j \in DOMAIN rest, rest[i] = rest[j] PROVE i = j
    <3>1. i + 1 = j + 1
      BY <1>9, <1>13, <2>1
    <3>2. i \in Int /\ j \in Int
      BY <1>9, <2>1
    <3>3. QED
      BY <3>1, <3>2
  <2>2. r \in DOMAIN published' /\ published'[r].kind # "notification"
    <3>1. 1 .. t \subseteq 1 .. t + 1
      BY <1>3
    <3>2. QED
      BY <1>3, <1>4, <1>8, <3>1
  <2>3. QED
    BY <1>9, <2>1, <2>2 DEF TargetsLeft
<1>17. AllTold'
  <2>1. ASSUME NEW e \in DOMAIN published', published'[e].kind # "notification", e \notin lost',
               \A i \in DOMAIN waiting' : waiting'[i] # e,
               NEW k \in DOMAIN Routes[published'[e].kind], NEW c, c = Routes[published'[e].kind][k]
        PROVE  \/ \E n \in DOMAIN published' : published'[n].about = e /\ published'[n].channel = c
               \/ e = r /\ \E j \in DOMAIN rest : rest[j] = c
    <3>1. e \in DOMAIN published /\ e \notin lost /\ \A i \in DOMAIN waiting : waiting[i] # e
      BY <1>10, <2>1
    <3>2. published'[e] = published[e]
      BY <1>3, <1>8, <3>1
    <3>3. \/ \E n \in DOMAIN published : published[n].about = e /\ published[n].channel = c
          \/ e = r /\ \E j \in DOMAIN targets : targets[j] = c
      BY <1>2, <1>4, <2>1, <3>1, <3>2 DEF AllTold
    <3>4. \A n \in DOMAIN published : n \in DOMAIN published' /\ published'[n] = published[n]
      BY <1>3, <1>8
    <3>5. ASSUME e = r, NEW j \in DOMAIN targets, targets[j] = c
          PROVE  \/ \E n \in DOMAIN published' : published'[n].about = e /\ published'[n].channel = c
                 \/ e = r /\ \E i \in DOMAIN rest : rest[i] = c
      <4>1. CASE j = 1
        <5>1. t + 1 \in DOMAIN published' /\ published'[t + 1].about = e /\ published'[t + 1].channel = c
          BY <1>3, <1>6, <1>8, <3>5, <4>1
        <5>2. QED
          BY <5>1
      <4>2. CASE j # 1
        <5>1. j - 1 \in DOMAIN rest /\ j - 1 + 1 = j
          BY <1>5, <1>9, <3>5, <4>2
        <5>2. rest[j - 1] = c
          BY <1>9, <3>5, <5>1
        <5>3. QED
          BY <3>5, <5>1, <5>2
      <4>3. QED
        BY <4>1, <4>2
    <3>6. QED
      BY <3>3, <3>4, <3>5
  <2>2. QED
    <3>1. routing'.targets = rest /\ routing'.event = r
      BY <1>9
    <3>2. QED
      BY <2>1, <3>1 DEF AllTold
<1>18. NoticesSafe'
  BY <1>10, <1>14, <1>15, <1>16, <1>17 DEF NoticesSafe
<1>19. QED
  BY <1>1, <1>6, <1>7, <1>9, <1>18

LEMMA TakeIsSafe ==
  ASSUME N!TypeOK, NoticesSafe, N!Take
  PROVE  /\ NoticesSafe' /\ UNCHANGED <<published, lost, presence, digest, lastRun, digests, boots>>
         /\ waiting' \in Seq(DOMAIN published) /\ Len(waiting') <= QueueLimit
         /\ routing' \in [event : {0} \cup DOMAIN published, targets : Seq(STRING), present : BOOLEAN]
<1>1. PICK present \in BOOLEAN :
        /\ routing.targets = <<>> /\ waiting # <<>> /\ waiting' = Tail(waiting)
        /\ routing' = [event |-> Head(waiting), targets |-> N!Targets(Head(waiting)), present |-> present]
        /\ UNCHANGED <<published, lost, presence, digest, lastRun, digests, boots>>
  BY DEF N!Take
<1>2. QueueInOrder /\ AboutThePast /\ OutcomesDiffer /\ Untold /\ TargetsLeft /\ AllTold
  BY DEF NoticesSafe
<1>3. /\ waiting \in Seq(DOMAIN published) /\ Len(waiting) <= QueueLimit /\ QueueLimit \in Nat
      /\ \A n \in DOMAIN published :
           published[n].kind # "notification" => published[n].kind \in DOMAIN Routes
  BY NoticesTypes DEF N!TypeOK
<1>4. /\ Tail(waiting) \in Seq(DOMAIN published) /\ Head(waiting) \in DOMAIN published
      /\ Head(waiting) = waiting[1] /\ Len(Tail(waiting)) = Len(waiting) - 1
      /\ DOMAIN waiting = 1 .. Len(waiting) /\ Len(waiting) \in Nat \ {0}
      /\ DOMAIN Tail(waiting) = 1 .. Len(waiting) - 1
      /\ \A k \in DOMAIN Tail(waiting) : Tail(waiting)[k] = waiting[k + 1]
  BY <1>1, <1>3, AfterTail
<1>5. PICK r, rest : /\ r = waiting[1] /\ rest = Tail(waiting)
                     /\ r \in DOMAIN published /\ rest = waiting' /\ rest \in Seq(DOMAIN published)
                     /\ Len(rest) <= QueueLimit /\ 1 \in DOMAIN waiting
                     /\ DOMAIN rest = 1 .. Len(waiting) - 1
                     /\ \A k \in DOMAIN rest : k + 1 \in DOMAIN waiting /\ 1 < k + 1 /\ rest[k] = waiting[k + 1]
  <2>1. PICK r, rest : r = waiting[1] /\ rest = Tail(waiting)
    OBVIOUS
  <2>2. /\ r \in DOMAIN published /\ rest = waiting' /\ rest \in Seq(DOMAIN published)
        /\ Len(rest) <= QueueLimit /\ 1 \in DOMAIN waiting
    BY <1>1, <1>3, <1>4, <2>1
  <2>3. /\ DOMAIN rest = 1 .. Len(waiting) - 1
        /\ \A k \in DOMAIN rest : rest[k] = waiting[k + 1]
    BY <1>4, <2>1
  <2>4. \A k \in 1 .. Len(waiting) - 1 : k + 1 \in 1 .. Len(waiting) /\ 1 < k + 1
    BY <1>4
  <2>5. QED
    BY <1>4, <2>1, <2>2, <2>3, <2>4
<1>6. PICK targets :
        /\ targets = IF published[r].kind = "notification" THEN <<>> ELSE Routes[published[r].kind]
        /\ routing'.targets = targets /\ routing'.event = r
        /\ routing' = [event |-> r, targets |-> targets, present |-> present]
  BY <1>1, <1>4, <1>5 DEF N!Targets
<1>7. /\ targets \in Seq(STRING)
      /\ \A i, j \in DOMAIN targets : targets[i] = targets[j] => i = j
  <2>1. CASE published[r].kind = "notification"
    <3>1. targets = <<>> /\ DOMAIN <<>> = {}
      BY <1>6, <2>1
    <3>2. <<>> \in Seq(STRING)
      OBVIOUS
    <3>3. QED
      BY <3>1, <3>2, Zenon
  <2>2. CASE published[r].kind # "notification"
    <3>1. targets = Routes[published[r].kind] /\ published[r].kind \in DOMAIN Routes
      BY <1>3, <1>5, <1>6, <2>2
    <3>2. QED
      BY <3>1, ServicesBounds DEF N!NoticesBounds
  <2>3. QED
    BY <2>1, <2>2
<1>8. routing' \in [event : {0} \cup DOMAIN published, targets : Seq(STRING), present : BOOLEAN]
  BY <1>5, <1>6, <1>7
<1>9. QueueInOrder'
  <2>1. ASSUME NEW i \in DOMAIN rest, NEW j \in DOMAIN rest, i < j PROVE rest[i] < rest[j]
    <3>1. i + 1 < j + 1
      BY <1>5, <2>1
    <3>2. QED
      BY <1>2, <1>5, <2>1, <3>1 DEF QueueInOrder
  <2>2. ASSUME NEW i \in DOMAIN rest PROVE r < rest[i]
    BY <1>2, <1>5, <2>2 DEF QueueInOrder
  <2>3. QED
    BY <1>5, <1>6, <2>1, <2>2 DEF QueueInOrder
<1>10. AboutThePast' /\ OutcomesDiffer'
  BY <1>1, <1>2 DEF AboutThePast, OutcomesDiffer
<1>11. Untold'
  <2>1. ASSUME NEW n \in DOMAIN published
        PROVE  published[n].about # r /\ \A i \in DOMAIN rest : published[n].about # rest[i]
    BY <1>2, <1>5, <2>1 DEF Untold
  <2>2. QED
    BY <1>1, <1>5, <1>6, <2>1 DEF Untold
<1>12. TargetsLeft'
  BY <1>1, <1>5, <1>6, <1>7 DEF TargetsLeft
<1>13. AllTold'
  <2>1. ASSUME NEW e \in DOMAIN published, published[e].kind # "notification", e \notin lost,
               \A i \in DOMAIN rest : rest[i] # e,
               NEW k \in DOMAIN Routes[published[e].kind], NEW c, c = Routes[published[e].kind][k]
        PROVE  \/ \E n \in DOMAIN published : published[n].about = e /\ published[n].channel = c
               \/ e = r /\ \E j \in DOMAIN targets : targets[j] = c
    <3>1. CASE e = r
      BY <1>6, <2>1, <3>1
    <3>2. CASE e # r
      <4>1. ASSUME NEW i \in DOMAIN waiting PROVE waiting[i] # e
        <5>1. CASE i = 1
          BY <1>5, <3>2, <5>1
        <5>2. CASE i # 1
          <6>1. i - 1 \in DOMAIN rest /\ i - 1 + 1 = i
            BY <1>4, <1>5, <4>1, <5>2
          <6>2. rest[i - 1] = waiting[i]
            BY <1>5, <6>1
          <6>3. QED
            BY <2>1, <6>1, <6>2
        <5>3. QED
          BY <5>1, <5>2
      <4>2. DOMAIN routing.targets = {}
        BY <1>1
      <4>3. QED
        BY <1>2, <2>1, <4>1, <4>2 DEF AllTold
    <3>3. QED
      BY <3>1, <3>2
  <2>2. published' = published /\ lost' = lost /\ waiting' = rest /\ routing'.event = r /\ routing'.targets = targets
    BY <1>1, <1>5, <1>6
  <2>3. QED
    BY <2>1, <2>2 DEF AllTold
<1>14. QED
  BY <1>1, <1>5, <1>8, <1>9, <1>10, <1>11, <1>12, <1>13 DEF NoticesSafe

LEMMA RestartIsSafe ==
  ASSUME N!TypeOK, NoticesSafe, N!Restart
  PROVE  NoticesSafe'
<1>1. /\ waiting' = <<>> /\ routing' = [event |-> 0, targets |-> <<>>, present |-> FALSE]
      /\ lost' = lost \cup N!ToSet(waiting) \cup (IF routing.targets # <<>> THEN {routing.event} ELSE {})
      /\ published' = published
  BY DEF N!Restart, N!NoRoute
<1>2. /\ QueueInOrder /\ AboutThePast /\ OutcomesDiffer /\ AllTold
      /\ DOMAIN <<>> = {} /\ routing.targets \in Seq(STRING)
  BY NoticesTypes DEF NoticesSafe
<1>3. DOMAIN waiting' = {} /\ DOMAIN routing'.targets = {} /\ routing'.targets = <<>>
  BY <1>1, <1>2
<1>4. QueueInOrder' /\ AboutThePast' /\ OutcomesDiffer' /\ Untold' /\ TargetsLeft'
  BY <1>1, <1>2, <1>3 DEF QueueInOrder, AboutThePast, OutcomesDiffer, Untold, TargetsLeft
<1>5. \A e : e \notin lost' => /\ e \notin lost /\ \A i \in DOMAIN waiting : waiting[i] # e
                               /\ routing.targets # <<>> => e # routing.event
  BY <1>1 DEF N!ToSet
<1>6. AllTold'
  <2>1. routing.targets = <<>> => DOMAIN routing.targets = {}
    BY <1>2
  <2>2. \A e \in DOMAIN published : e \notin lost' =>
          ~(e = routing.event /\ \E j \in DOMAIN routing.targets : TRUE)
    BY <1>5, <2>1
  <2>3. QED
    BY <1>1, <1>2, <1>5, <2>2 DEF AllTold
<1>7. QED
  BY <1>4, <1>6 DEF NoticesSafe

LEMMA RunAdded ==
  ASSUME N!TypeOK, RunsFollow, NEW d \in N!Digest, Runs' = Append(Runs, d),
         lastRun' = d.to, lastRun < d.to,
         \A e \in d.counted : lastRun <= e /\ e < d.to,
         (0 < lastRun /\ d.counted # {} /\ d.to <= lastRun + Period) => lastRun .. d.to - 1 \subseteq d.counted
  PROVE  RunsFollow'
<1>1. PICK runs, len : runs = Runs /\ runs \in Seq(N!Digest) /\ len = Len(runs) /\ len \in Nat
                       /\ DOMAIN runs = 1 .. len
  <2>1. digest \in N!Digest /\ digests \in Seq(N!Digest)
    BY DEF N!TypeOK
  <2>2. Append(digests, digest) \in Seq(N!Digest)
    BY <2>1
  <2>3. Runs \in Seq(N!Digest)
    BY <2>1, <2>2 DEF Runs
  <2>4. QED
    BY <2>3
<1>2. PICK now : /\ now = Runs' /\ DOMAIN now = 1 .. len + 1 /\ Len(now) = len + 1 /\ now # <<>>
                 /\ \A i \in 1 .. len : now[i] = runs[i]
                 /\ now[len + 1] = d
  <2>1. PICK now : now = Runs' /\ now = Append(runs, d)
    BY <1>1
  <2>2. /\ DOMAIN now = 1 .. len + 1 /\ now[len + 1] = d /\ now \in Seq(N!Digest)
        /\ \A i \in 1 .. len : now[i] = runs[i]
    BY <1>1, <2>1, AfterAppend
  <2>3. Len(now) = len + 1 /\ now # <<>>
    BY <1>1, <2>2
  <2>4. QED
    BY <2>1, <2>2, <2>3
<1>3. \A i \in 1 .. len : runs[i].to \in Nat
  <2>1. \A i \in 1 .. len : runs[i] \in N!Digest
    BY <1>1, ElementOfSeq, Zenon
  <2>2. QED
    BY <2>1 DEF N!Digest
<1>4. lastRun \in Nat /\ d.to \in Nat /\ \A e \in d.counted : e \in Nat
  BY NoticesTypes DEF N!TypeOK, N!Digest
<1>5. /\ lastRun = IF runs = <<>> THEN 0 ELSE runs[len].to
      /\ \A i \in 1 .. len : 0 < runs[i].to /\ \A e \in runs[i].counted : e < runs[i].to
      /\ \A i, j \in 1 .. len : i < j =>
           /\ runs[i].to < runs[j].to
           /\ \A e \in runs[j].counted : runs[i].to <= e
      /\ \A i \in 1 .. len :
           (i - 1 \in 1 .. len /\ runs[i].counted # {} /\ runs[i].to <= runs[i - 1].to + Period) =>
             runs[i - 1].to .. runs[i].to - 1 \subseteq runs[i].counted
  BY <1>1 DEF RunsFollow
<1>6. len > 0 => lastRun = runs[len].to /\ 0 < lastRun
  <2>1. len > 0 => runs # <<>> /\ len \in 1 .. len
    BY <1>1
  <2>2. QED
    BY <1>5, <2>1
<1>7. \A i \in 1 .. len : runs[i].to <= lastRun
  <2>1. ASSUME NEW i \in 1 .. len PROVE runs[i].to <= lastRun
    <3>1. len > 0 /\ len \in 1 .. len /\ (i < len \/ i = len)
      BY <1>1, <2>1
    <3>2. runs[i].to <= runs[len].to
      BY <1>3, <1>5, <3>1
    <3>3. QED
      BY <1>6, <3>1, <3>2
  <2>2. QED
    BY <2>1
<1>8. ASSUME NEW i \in 1 .. len + 1
      PROVE  0 < now[i].to /\ \A e \in now[i].counted : e < now[i].to
  <2>1. CASE i \in 1 .. len
    BY <1>2, <1>5, <2>1
  <2>2. CASE i = len + 1
    BY <1>2, <1>4, <2>2
  <2>3. QED
    BY <1>1, <2>1, <2>2
<1>9. ASSUME NEW i \in 1 .. len + 1, NEW j \in 1 .. len + 1, i < j
      PROVE  now[i].to < now[j].to /\ \A e \in now[j].counted : now[i].to <= e
  <2>1. i \in 1 .. len /\ now[i] = runs[i]
    BY <1>1, <1>2, <1>9
  <2>2. CASE j \in 1 .. len
    BY <1>2, <1>5, <1>9, <2>1, <2>2
  <2>3. CASE j = len + 1
    <3>1. now[j] = d /\ now[i].to <= lastRun /\ now[i].to \in Nat
      BY <1>2, <1>3, <1>7, <2>1, <2>3
    <3>2. QED
      BY <1>4, <3>1
  <2>4. QED
    BY <1>1, <2>2, <2>3
<1>10. ASSUME NEW i \in 1 .. len + 1, i - 1 \in 1 .. len + 1, now[i].counted # {},
              now[i].to <= now[i - 1].to + Period
       PROVE  now[i - 1].to .. now[i].to - 1 \subseteq now[i].counted
  <2>1. i - 1 \in 1 .. len /\ now[i - 1] = runs[i - 1]
    BY <1>1, <1>2, <1>10
  <2>2. CASE i \in 1 .. len
    <3>1. now[i] = runs[i]
      BY <1>2, <2>2
    <3>2. QED
      BY <1>5, <1>10, <2>1, <2>2, <3>1
  <2>3. CASE i = len + 1
    <3>1. i - 1 = len /\ len > 0 /\ now[i] = d
      BY <1>1, <1>2, <2>1, <2>3
    <3>2. now[i - 1].to = lastRun /\ 0 < lastRun
      BY <1>6, <2>1, <3>1
    <3>3. QED
      BY <1>10, <3>1, <3>2
  <2>4. QED
    BY <1>1, <2>2, <2>3
<1>11. lastRun' = IF now = <<>> THEN 0 ELSE now[Len(now)].to
  BY <1>2
<1>12. QED
  BY <1>2, <1>8, <1>9, <1>10, <1>11 DEF RunsFollow

\* The period of a digest starts at the last run if that is within it.
LEMMA FoldFollows ==
  ASSUME N!TypeOK, RunsFollow, N!Fold
  PROVE  RunsFollow' /\ digest' \in N!Digest
<1>1. PICK t \in Nat : /\ t = N!Time /\ DOMAIN published = 1 .. t
                       /\ lastRun \in Nat /\ Period \in Nat
                       /\ digests \in Seq(N!Digest)
  BY NoticesTypes DEF N!TypeOK
<1>2. PICK x : x \in Nat /\ x = (IF t > Period THEN t - Period ELSE 0)
  BY <1>1
<1>3. PICK start : start = N!Max({lastRun} \cup {x})
  OBVIOUS
<1>4. start \in Nat /\ lastRun <= start /\ (start = lastRun \/ start = x)
  <2>1. start = CHOOSE y \in {lastRun} \cup {x} : \A z \in {lastRun} \cup {x} : y >= z
    BY <1>3 DEF N!Max
  <2>2. \E y \in {lastRun} \cup {x} : \A z \in {lastRun} \cup {x} : y >= z
    <3>1. CASE lastRun >= x
      BY <1>1, <1>2, <3>1
    <3>2. CASE x >= lastRun
      BY <1>1, <1>2, <3>2
    <3>3. QED
      BY <1>1, <1>2, <3>1, <3>2
  <2>3. start \in {lastRun} \cup {x} /\ \A z \in {lastRun} \cup {x} : start >= z
    BY <2>1, <2>2
  <2>4. QED
    BY <1>1, <1>2, <2>3
<1>5. PICK d : /\ d = [to |-> t, counted |-> {e \in DOMAIN published : start <= e /\ e < t}]
               /\ digest = N!NoDigest /\ t > lastRun /\ lastRun' = t /\ digest' = d
               /\ UNCHANGED <<published, waiting, routing, lost, presence, digests, boots>>
  <2>1. (IF t > Period THEN {t - Period} ELSE {0}) = {x}
    BY <1>2
  <2>2. PICK d : d = [to |-> t, counted |-> {e \in DOMAIN published : start <= e /\ e < t}]
    OBVIOUS
  <2>3. QED
    BY <1>1, <1>3, <2>1, <2>2 DEF N!Fold
<1>6. /\ d \in N!Digest /\ d.to = t
      /\ \A e : e \in d.counted <=> e \in 1 .. t /\ start <= e /\ e < t
  <2>1. {e \in DOMAIN published : start <= e /\ e < t} \subseteq Nat
    BY <1>1
  <2>2. d \in N!Digest /\ d.to = t
    BY <1>1, <1>5, <2>1 DEF N!Digest
  <2>3. QED
    BY <1>1, <1>5, <2>2
<1>7. d # N!NoDigest
  BY <1>1, <1>5, <1>6 DEF N!NoDigest
<1>8. Runs' = Append(Runs, d)
  BY <1>5, <1>7 DEF Runs, N!NoDigest
<1>9. \A e \in d.counted : lastRun <= e /\ e < d.to
  BY <1>1, <1>4, <1>6
<1>10. ASSUME 0 < lastRun, d.to <= lastRun + Period
       PROVE  lastRun .. d.to - 1 \subseteq d.counted
  <2>1. x <= lastRun
    BY <1>1, <1>2, <1>6, <1>10
  <2>2. start = lastRun
    BY <1>1, <1>2, <1>4, <2>1
  <2>3. QED
    BY <1>1, <1>6, <1>10, <2>2
<1>11. RunsFollow'
  BY <1>1, <1>5, <1>6, <1>8, <1>9, <1>10, RunAdded
<1>12. QED
  BY <1>5, <1>6, <1>11

LEMMA FoldFailsFollows ==
  ASSUME N!TypeOK, RunsFollow, N!FoldFails
  PROVE  RunsFollow' /\ digests' \in Seq(N!Digest)
<1>1. PICK t \in Nat : t = N!Time /\ lastRun \in Nat /\ Period \in Nat /\ digests \in Seq(N!Digest)
  BY NoticesTypes DEF N!TypeOK
<1>2. PICK d : /\ d = [to |-> t, counted |-> {}]
               /\ digest = N!NoDigest /\ t > lastRun /\ lastRun' = t
               /\ digests' = Append(digests, d) /\ digest' = digest
  BY <1>1 DEF N!FoldFails
<1>3. d \in N!Digest /\ d.to = t /\ d.counted = {}
  BY <1>2 DEF N!Digest
<1>4. Runs' = Append(Runs, d)
  BY <1>2 DEF Runs, N!NoDigest
<1>5. RunsFollow'
  BY <1>1, <1>2, <1>3, <1>4, RunAdded
<1>6. digests' \in Seq(N!Digest)
  BY <1>1, <1>2, <1>3
<1>7. QED
  BY <1>5, <1>6

LEMMA RunsStay ==
  ASSUME RunsFollow, Runs' = Runs, lastRun' = lastRun
  PROVE  RunsFollow'
<1>1. PICK runs : runs = Runs /\ runs = Runs'
  OBVIOUS
<1>2. QED
  BY <1>1 DEF RunsFollow

\* The notices are safe however they are told of.
LEMMA SafeStays ==
  ASSUME NoticesSafe, UNCHANGED <<published, waiting, routing, lost>>
  PROVE  NoticesSafe'
BY DEF NoticesSafe, QueueInOrder, AboutThePast, OutcomesDiffer, Untold, TargetsLeft, AllTold

LEMMA PublishTypes ==
  ASSUME N!TypeOK, NoticesSafe, NEW event \in N!Event, N!Publish(event)
  PROVE  /\ published' \in Seq(N!Event)
         /\ waiting' \in Seq(DOMAIN published') /\ Len(waiting') <= QueueLimit
         /\ lost' \subseteq DOMAIN published'
         /\ DOMAIN published \subseteq DOMAIN published'
         /\ UNCHANGED presence => presence' \in [Clients -> [attentive : BOOLEAN, expires : 0 .. N!Time' + Ttl]]
         /\ UNCHANGED lastRun => lastRun' \in 0 .. N!Time'
<1>1. PICK t \in Nat : t = N!Time /\ DOMAIN published = 1 .. t /\ Ttl \in Nat
  BY NoticesTypes
<1>2. /\ published' \in Seq(N!Event) /\ N!Time' = t + 1 /\ DOMAIN published' = 1 .. t + 1
      /\ waiting' \in Seq(DOMAIN published') /\ Len(waiting') <= QueueLimit
      /\ lost' \subseteq DOMAIN published'
  BY <1>1, PublishEffect DEF NoticesSafe
<1>3. DOMAIN published \subseteq DOMAIN published' /\ 0 .. t + Ttl \subseteq 0 .. t + 1 + Ttl
      /\ 0 .. t \subseteq 0 .. t + 1
  BY <1>1, <1>2
<1>4. presence \in [Clients -> [attentive : BOOLEAN, expires : 0 .. t + Ttl]] /\ lastRun \in 0 .. t
  BY <1>1 DEF N!TypeOK
<1>5. presence \in [Clients -> [attentive : BOOLEAN, expires : 0 .. t + 1 + Ttl]] /\ lastRun \in 0 .. t + 1
  BY <1>3, <1>4
<1>6. QED
  BY <1>2, <1>3, <1>5

LEMMA NoticesNext == NoticesInv /\ [N!Next]_(N!vars) => NoticesInv'
<1> SUFFICES ASSUME NoticesInv, [N!Next]_(N!vars) PROVE NoticesInv'
  OBVIOUS
<1>1. N!TypeOK /\ NoticesSafe /\ RunsFollow
  BY DEF NoticesInv
<1>2. /\ published \in Seq(N!Event) /\ waiting \in Seq(DOMAIN published) /\ Len(waiting) <= QueueLimit
      /\ lost \subseteq DOMAIN published
      /\ routing \in [event : {0} \cup DOMAIN published, targets : Seq(STRING), present : BOOLEAN]
      /\ presence \in [Clients -> [attentive : BOOLEAN, expires : 0 .. N!Time + Ttl]]
      /\ digest \in N!Digest /\ digests \in Seq(N!Digest)
      /\ lastRun \in 0 .. N!Time /\ boots \in 1 .. MaxBoots
  BY <1>1 DEF N!TypeOK
<1>3. N!Time \in Nat /\ Ttl \in Nat /\ MaxBoots \in Nat
  BY <1>1, NoticesTypes
<1>4. ASSUME N!Happens PROVE NoticesInv'
  <2>1. PICK kind \in Kinds : /\ N!Publish(N!Plain(kind))
                              /\ UNCHANGED <<routing, presence, digest, lastRun, digests, boots>>
    BY <1>4 DEF N!Happens
  <2>2. NoticesSafe' /\ N!Plain(kind) \in N!Event
    BY <1>1, <2>1, PlainIsSafe
  <2>3. /\ published' \in Seq(N!Event) /\ waiting' \in Seq(DOMAIN published') /\ Len(waiting') <= QueueLimit
        /\ lost' \subseteq DOMAIN published' /\ DOMAIN published \subseteq DOMAIN published'
        /\ presence' \in [Clients -> [attentive : BOOLEAN, expires : 0 .. N!Time' + Ttl]]
        /\ lastRun' \in 0 .. N!Time'
    BY <1>1, <2>1, <2>2, PublishTypes
  <2>4. routing' \in [event : {0} \cup DOMAIN published', targets : Seq(STRING), present : BOOLEAN]
    BY <1>2, <2>1, <2>3
  <2>5. N!TypeOK'
    BY <1>2, <2>1, <2>3, <2>4 DEF N!TypeOK
  <2>6. RunsFollow'
    BY <1>1, <2>1, RunsStay DEF Runs
  <2>7. QED
    BY <2>2, <2>5, <2>6 DEF NoticesInv
<1>5. ASSUME N!Summarized PROVE NoticesInv'
  <2>1. /\ digest # N!NoDigest /\ N!Publish(N!Plain("summary"))
        /\ digests' = Append(digests, digest) /\ digest' = N!NoDigest
        /\ UNCHANGED <<routing, presence, lastRun, boots>>
    BY <1>5 DEF N!Summarized
  <2>2. NoticesSafe' /\ N!Plain("summary") \in N!Event
    BY <1>1, <2>1, PlainIsSafe
  <2>3. /\ published' \in Seq(N!Event) /\ waiting' \in Seq(DOMAIN published') /\ Len(waiting') <= QueueLimit
        /\ lost' \subseteq DOMAIN published' /\ DOMAIN published \subseteq DOMAIN published'
        /\ presence' \in [Clients -> [attentive : BOOLEAN, expires : 0 .. N!Time' + Ttl]]
        /\ lastRun' \in 0 .. N!Time'
    BY <1>1, <2>1, <2>2, PublishTypes
  <2>4. routing' \in [event : {0} \cup DOMAIN published', targets : Seq(STRING), present : BOOLEAN]
    BY <1>2, <2>1, <2>3
  <2>5. digest' \in N!Digest /\ digests' \in Seq(N!Digest)
    <3>1. N!NoDigest \in N!Digest
      BY DEF N!NoDigest, N!Digest
    <3>2. QED
      BY <1>2, <2>1, <3>1
  <2>6. N!TypeOK'
    BY <1>2, <2>1, <2>3, <2>4, <2>5 DEF N!TypeOK
  <2>7. RunsFollow'
    BY <1>1, <2>1, RunsStay DEF Runs, N!NoDigest
  <2>8. QED
    BY <2>2, <2>6, <2>7 DEF NoticesInv
<1>6. ASSUME N!Send PROVE NoticesInv'
  <2>1. /\ NoticesSafe' /\ UNCHANGED <<presence, digest, lastRun, digests, boots>>
        /\ \E event \in N!Event : N!Publish(event)
        /\ routing' \in [event : {0} \cup DOMAIN published, targets : Seq(STRING), present : BOOLEAN]
    BY <1>1, <1>6, SendIsSafe
  <2>2. /\ published' \in Seq(N!Event) /\ waiting' \in Seq(DOMAIN published') /\ Len(waiting') <= QueueLimit
        /\ lost' \subseteq DOMAIN published' /\ DOMAIN published \subseteq DOMAIN published'
        /\ presence' \in [Clients -> [attentive : BOOLEAN, expires : 0 .. N!Time' + Ttl]]
        /\ lastRun' \in 0 .. N!Time'
    BY <1>1, <2>1, PublishTypes
  <2>3. routing' \in [event : {0} \cup DOMAIN published', targets : Seq(STRING), present : BOOLEAN]
    BY <2>1, <2>2
  <2>4. N!TypeOK'
    BY <1>2, <2>1, <2>2, <2>3 DEF N!TypeOK
  <2>5. RunsFollow'
    BY <1>1, <2>1, RunsStay DEF Runs
  <2>6. QED
    BY <2>1, <2>4, <2>5 DEF NoticesInv
<1>7. ASSUME N!Take PROVE NoticesInv'
  <2>1. /\ NoticesSafe' /\ UNCHANGED <<published, lost, presence, digest, lastRun, digests, boots>>
        /\ waiting' \in Seq(DOMAIN published) /\ Len(waiting') <= QueueLimit
        /\ routing' \in [event : {0} \cup DOMAIN published, targets : Seq(STRING), present : BOOLEAN]
    BY <1>1, <1>7, TakeIsSafe
  <2>2. N!TypeOK'
    BY <1>2, <2>1 DEF N!TypeOK, N!Time
  <2>3. RunsFollow'
    BY <1>1, <2>1, RunsStay DEF Runs
  <2>4. QED
    BY <2>1, <2>2, <2>3 DEF NoticesInv
<1>8. ASSUME NEW c \in Clients, N!Report(c) \/ N!Forget(c) PROVE NoticesInv'
  <2>1. /\ UNCHANGED <<published, waiting, routing, lost, digest, lastRun, digests, boots>>
        /\ presence' \in [Clients -> [attentive : BOOLEAN, expires : 0 .. N!Time + Ttl]]
    <3>1. CASE N!Report(c)
      <4>1. PICK attentive \in BOOLEAN :
              /\ presence' = [presence EXCEPT ![c] = [attentive |-> attentive, expires |-> N!Time + Ttl]]
              /\ UNCHANGED <<published, waiting, routing, lost, digest, lastRun, digests, boots>>
        BY <3>1 DEF N!Report
      <4>2. N!Time + Ttl \in 0 .. N!Time + Ttl
        BY <1>3
      <4>3. QED
        BY <1>2, <4>1, <4>2
    <3>2. CASE N!Forget(c)
      <4>1. /\ presence' = [presence EXCEPT ![c] = [attentive |-> FALSE, expires |-> 0]]
            /\ UNCHANGED <<published, waiting, routing, lost, digest, lastRun, digests, boots>>
        BY <3>2 DEF N!Forget, N!Gone
      <4>2. 0 \in 0 .. N!Time + Ttl
        BY <1>3
      <4>3. QED
        BY <1>2, <4>1, <4>2
    <3>3. QED
      BY <1>8, <3>1, <3>2
  <2>2. N!TypeOK'
    BY <1>2, <2>1 DEF N!TypeOK, N!Time
  <2>3. NoticesSafe' /\ RunsFollow'
    BY <1>1, <2>1, SafeStays, RunsStay DEF Runs
  <2>4. QED
    BY <2>2, <2>3 DEF NoticesInv
<1>9. ASSUME N!Fold \/ N!FoldFails PROVE NoticesInv'
  <2>1. /\ UNCHANGED <<published, waiting, routing, lost, presence, boots>>
        /\ lastRun' = N!Time
    BY <1>9 DEF N!Fold, N!FoldFails
  <2>2. RunsFollow' /\ digest' \in N!Digest /\ digests' \in Seq(N!Digest)
    <3>1. CASE N!Fold
      <4>1. digests' = digests
        BY <3>1 DEF N!Fold
      <4>2. QED
        BY <1>1, <1>2, <3>1, <4>1, FoldFollows
    <3>2. CASE N!FoldFails
      <4>1. digest' = digest
        BY <3>2 DEF N!FoldFails
      <4>2. QED
        BY <1>1, <1>2, <3>2, <4>1, FoldFailsFollows
    <3>3. QED
      BY <1>9, <3>1, <3>2
  <2>3. lastRun' \in 0 .. N!Time
    BY <1>3, <2>1
  <2>4. N!TypeOK'
    BY <1>2, <2>1, <2>2, <2>3 DEF N!TypeOK, N!Time
  <2>5. NoticesSafe'
    BY <1>1, <2>1, SafeStays
  <2>6. QED
    BY <2>2, <2>4, <2>5 DEF NoticesInv
<1>10. ASSUME N!Restart PROVE NoticesInv'
  <2>1. /\ boots < MaxBoots /\ boots' = boots + 1 /\ waiting' = <<>> /\ digests' = <<>> /\ lastRun' = 0
        /\ lost' = lost \cup N!ToSet(waiting) \cup (IF routing.targets # <<>> THEN {routing.event} ELSE {})
        /\ routing' = [event |-> 0, targets |-> <<>>, present |-> FALSE]
        /\ presence' = [c \in Clients |-> [attentive |-> FALSE, expires |-> 0]]
        /\ digest' = N!NoDigest
        /\ published' = published
    BY <1>10 DEF N!Restart, N!NoRoute, N!Gone
  <2>2. \A U : <<>> \in Seq(U)
    OBVIOUS
  <2>3. Len(<<>>) = 0 /\ DOMAIN <<>> = {}
    OBVIOUS
  <2>4. waiting' \in Seq(DOMAIN published) /\ digests' \in Seq(N!Digest) /\ <<>> \in Seq(STRING)
    BY <2>1, <2>2, Zenon
  <2>5. N!NoDigest \in N!Digest
    BY DEF N!NoDigest, N!Digest
  <2>6. routing' \in [event : {0} \cup DOMAIN published, targets : Seq(STRING), present : BOOLEAN]
    BY <2>1, <2>4
  <2>7. 0 \in 0 .. N!Time + Ttl /\ 0 \in 0 .. N!Time /\ boots' \in 1 .. MaxBoots
    BY <1>2, <1>3, <2>1
  <2>8. Len(waiting') <= QueueLimit
    BY <1>1, <2>1, <2>3, NoticesTypes
  <2>9. lost' \subseteq DOMAIN published
    <3>1. N!ToSet(waiting) \subseteq DOMAIN published
      BY <1>1, <1>2, NoticesTypes DEF N!ToSet
    <3>2. routing.targets # <<>> => routing.event \in DOMAIN published
      BY <1>1 DEF NoticesSafe, TargetsLeft
    <3>3. QED
      BY <1>2, <2>1, <3>1, <3>2
  <2>10. presence' \in [Clients -> [attentive : BOOLEAN, expires : 0 .. N!Time + Ttl]]
    BY <2>1, <2>7
  <2>11. N!TypeOK'
    BY <1>2, <2>1, <2>4, <2>5, <2>6, <2>7, <2>8, <2>9, <2>10 DEF N!TypeOK, N!Time
  <2>12. NoticesSafe'
    BY <1>1, <1>10, RestartIsSafe
  <2>13. RunsFollow'
    <3>1. Runs' = <<>>
      BY <2>1 DEF Runs, N!NoDigest
    <3>2. QED
      BY <2>1, <2>3, <3>1 DEF RunsFollow
  <2>14. QED
    BY <2>11, <2>12, <2>13 DEF NoticesInv
<1>11. CASE UNCHANGED N!vars
  <2>1. UNCHANGED <<published, waiting, routing, lost, presence, digest, lastRun, digests, boots>>
    BY <1>11 DEF N!vars
  <2>2. N!TypeOK'
    BY <1>2, <2>1 DEF N!TypeOK, N!Time
  <2>3. NoticesSafe' /\ RunsFollow'
    BY <1>1, <2>1, SafeStays, RunsStay DEF Runs
  <2>4. QED
    BY <2>2, <2>3 DEF NoticesInv
<1>12. QED
  BY <1>4, <1>5, <1>6, <1>7, <1>8, <1>9, <1>10, <1>11 DEF N!Next

LEMMA NoticesSound == Spec => []NoticesInv
<1>1. Init => NoticesInv
  BY NoticesStep, NoticesInit
<1>2. NoticesInv /\ [Next]_vars => NoticesInv'
  BY NoticesStep, NoticesNext
<1>3. QED
  BY <1>1, <1>2, PTL DEF Spec

\* "Loop guard" (service.py:8) and "since the previous run" (summary/service.py:4):
\* for any rules, channels and sizes of the queue, wherever the server is
\* stopped, the log has at most one outcome per event and channel, none about
\* a notification, and one for each channel of what was not lost; and the
\* digests of a boot share no event and leave none out between two runs that
\* are no more than a period apart.
THEOREM EachIsToldOnce == Spec => []ToldAndCountedOnce
<1>1. ASSUME NoticesInv PROVE ToldAndCountedOnce
  <2>1. N!TypeOK /\ NoticesSafe /\ RunsFollow
    BY <1>1 DEF NoticesInv
  <2>2. PICK t \in Nat : /\ DOMAIN published = 1 .. t /\ DOMAIN waiting = 1 .. Len(waiting)
                         /\ routing.targets \in Seq(STRING)
    BY <2>1, NoticesTypes
  <2>3. ASSUME NEW e \in DOMAIN published, NEW c \in Channels,
               NEW n \in N!Told(e, c), NEW m \in N!Told(e, c)
        PROVE  n = m
    <3>1. /\ n \in DOMAIN published /\ published[n].about = e /\ published[n].channel = c
          /\ m \in DOMAIN published /\ published[m].about = e /\ published[m].channel = c
      BY DEF N!Told
    <3>2. e # 0
      BY <2>2
    <3>3. QED
      BY <2>1, <3>1, <3>2 DEF NoticesSafe, OutcomesDiffer
  <2>4. ASSUME NEW e \in DOMAIN published, NEW c \in Channels, published[e].kind = "notification"
        PROVE  N!Told(e, c) = {}
    <3>1. ASSUME NEW n \in N!Told(e, c) PROVE FALSE
      <4>1. n \in DOMAIN published /\ published[n].about = e
        BY <3>1 DEF N!Told
      <4>2. e # 0
        BY <2>2
      <4>3. QED
        BY <2>1, <2>4, <4>1, <4>2 DEF NoticesSafe, AboutThePast
    <3>2. QED
      BY <3>1
  <2>5. ASSUME NEW e \in DOMAIN published \ (lost \cup N!ToSet(waiting) \cup {routing.event}),
               published[e].kind # "notification", NEW c \in N!ToSet(Routes[published[e].kind])
        PROVE  N!Told(e, c) # {}
    <3>1. PICK k \in DOMAIN Routes[published[e].kind] : c = Routes[published[e].kind][k]
      BY <2>5 DEF N!ToSet
    <3>2. e \notin lost /\ e # routing.event /\ \A i \in DOMAIN waiting : waiting[i] # e
      BY <2>5 DEF N!ToSet
    <3>3. \E n \in DOMAIN published : published[n].about = e /\ published[n].channel = c
      BY <2>1, <2>5, <3>1, <3>2 DEF NoticesSafe, AllTold
    <3>4. QED
      BY <3>3 DEF N!Told
  <2>6. N!ToldOnce
    BY <2>3, <2>4, <2>5 DEF N!ToldOnce
  <2>7. PICK len \in Nat : /\ DOMAIN digests = 1 .. len /\ DOMAIN digests \subseteq DOMAIN Runs
                           /\ \A i \in DOMAIN digests : Runs[i] = digests[i]
    <3>1. digest \in N!Digest /\ digests \in Seq(N!Digest)
      BY <2>1 DEF N!TypeOK
    <3>2. /\ DOMAIN digests = 1 .. Len(digests) /\ Len(digests) \in Nat
          /\ DOMAIN Append(digests, digest) = 1 .. Len(digests) + 1
          /\ \A i \in DOMAIN digests : Append(digests, digest)[i] = digests[i]
      BY <3>1, AfterAppend
    <3>3. 1 .. Len(digests) \subseteq 1 .. Len(digests) + 1
      BY <3>2
    <3>4. QED
      BY <3>2, <3>3 DEF Runs
  <2>8. \A i \in DOMAIN digests : digests[i].to \in Nat /\ \A e \in digests[i].counted : e \in Nat
    <3>1. digests \in Seq(N!Digest)
      BY <2>1 DEF N!TypeOK
    <3>2. \A i \in DOMAIN digests : digests[i] \in N!Digest
      <4>1. DOMAIN digests = 1 .. Len(digests)
        BY <3>1
      <4>2. QED
        BY <3>1, <4>1, ElementOfSeq, Zenon
    <3>3. QED
      BY <3>2 DEF N!Digest
  <2>9. ASSUME NEW i \in DOMAIN digests, NEW j \in DOMAIN digests, i # j
        PROVE  digests[i].counted \cap digests[j].counted = {}
    <3>1. ASSUME NEW p \in DOMAIN digests, NEW q \in DOMAIN digests, p < q,
                 NEW e, e \in digests[p].counted, e \in digests[q].counted
          PROVE  FALSE
      <4>1. e < digests[p].to /\ digests[p].to <= e
        BY <2>1, <2>7, <3>1 DEF RunsFollow
      <4>2. QED
        BY <2>8, <3>1, <4>1
    <3>2. i < j \/ j < i
      BY <2>7, <2>9
    <3>3. QED
      BY <3>1, <3>2
  <2>10. ASSUME NEW i \in DOMAIN digests \ {1}, digests[i].counted # {},
                digests[i].to <= digests[i - 1].to + Period
         PROVE  digests[i - 1].to .. digests[i].to - 1 \subseteq digests[i].counted
    <3>1. i - 1 \in DOMAIN digests
      BY <2>7, <2>10
    <3>2. i - 1 \in DOMAIN Runs /\ i \in DOMAIN Runs /\ Runs[i] = digests[i] /\ Runs[i - 1] = digests[i - 1]
      BY <2>7, <2>10, <3>1
    <3>3. QED
      BY <2>1, <2>10, <3>2 DEF RunsFollow
  <2>11. N!DigestsPartition
    BY <2>9, <2>10 DEF N!DigestsPartition
  <2>12. QED
    BY <2>6, <2>11 DEF ToldAndCountedOnce
<1>2. QED
  BY <1>1, NoticesSound, PTL

-----------------------------------------------------------------------------
(* The bus *)

BP == INSTANCE EventBusProofs

\* The bus of the proofs is the bus of the runs.
LEMMA SameBus ==
  /\ B!Init => BP!Init
  /\ B!Next => BP!Next
  /\ BP!KeptAtStop => B!KeptAtStop
  /\ BP!StreamInOrder => B!StreamInOrder
  /\ BP!HistoryReplayed => B!HistoryReplayed
<1>1. B!Init => BP!Init
  BY DEF B!Init, BP!Init, B!NoStream, BP!NoStream, B!None, BP!None
<1>2. B!Next => BP!Next
  BY DEF B!Next, BP!Next, B!Publish, BP!Publish, B!PutResumes, BP!PutResumes, B!Take,
         BP!Take, B!Stored, BP!Stored, B!Stop, BP!Stop, B!MarkerQueued, BP!MarkerQueued,
         B!Connect, BP!Connect, B!ReadPage, BP!ReadPage, B!Replay, BP!Replay, B!Live,
         BP!Live, B!Disconnect, BP!Disconnect, B!HasRoom, BP!HasRoom, B!Fan, BP!Fan,
         B!Subscribed, BP!Subscribed, B!Page, BP!Page, B!NoStream, BP!NoStream, B!None,
         BP!None, B!Close, BP!Close, B!Settled, BP!Settled, B!recording, BP!recording,
         B!streaming, BP!streaming, B!vars, BP!vars, B!Event, BP!Event,
         B!Cardinality, BP!Cardinality
<1>3. /\ BP!KeptAtStop => B!KeptAtStop
      /\ BP!StreamInOrder => B!StreamInOrder
      /\ BP!HistoryReplayed => B!HistoryReplayed
  BY DEF B!KeptAtStop, BP!KeptAtStop, B!StreamInOrder, BP!StreamInOrder, B!HistoryReplayed,
         BP!HistoryReplayed, B!ToSet, BP!ToSet, B!IsInjective, BP!IsInjective
<1>4. QED
  BY <1>1, <1>2, <1>3

LEMMA BusStep ==
  ASSUME [Next]_vars
  PROVE  [BP!Next]_(BP!vars)
<1>1. ASSUME UNCHANGED busVars PROVE UNCHANGED BP!vars
  BY <1>1 DEF busVars, BP!vars, BP!recording, BP!streaming
<1>2. CASE UNCHANGED vars \/ Retaining \/ Scheduling \/ Pairing \/ Notifying \/ Extending
  BY <1>1, <1>2 DEF vars, Retaining, Scheduling, Pairing, Notifying, Extending
<1>3. CASE Bus
  BY <1>3, SameBus DEF Bus
<1>4. QED
  BY <1>2, <1>3 DEF Next

LEMMA BusSound == Spec => [](BP!KeptAtStop /\ BP!StreamInOrder /\ BP!HistoryReplayed)
<1>1. BP!BusBounds
  BY ServicesBounds DEF BP!BusBounds, B!BusBounds
<1>2. Init => BP!Init
  BY SameBus DEF Init
<1>3. [Next]_vars => [BP!Next]_(BP!vars)
  BY BusStep
<1>4. Spec => BP!Spec
  BY <1>2, <1>3, PTL DEF Spec, BP!Spec
<1>5. BP!Spec => [](BP!KeptAtStop /\ BP!StreamInOrder /\ BP!HistoryReplayed)
  BY <1>1, BP!StopKeepsEvents, BP!ClientReadsInOrder, BP!ClientReadsHistory, PTL
<1>6. QED
  BY <1>4, <1>5, PTL

\* A client of the stream is sent its history whole, then the live events, each
\* once and in the order of the ids, whatever was published, queued, dropped or
\* made to wait meanwhile (api/app.py, event_stream).
THEOREM StreamReadsInOrder == Spec => []StreamInOrder
<1>1. BP!StreamInOrder /\ BP!HistoryReplayed => StreamInOrder
  BY SameBus DEF StreamInOrder
<1>2. QED
  BY BusSound, <1>1, PTL

\* An event that was published is kept: stored when the recorder has stopped,
\* and by a retention pass until it is as old as a rule says, outside the
\* protected namespaces and archived if the rule archives, wherever a pass was
\* interrupted (persistence/recorder.py; persistence/retention.py:6-15).
THEOREM NothingIsLost == Spec => []EventsAreKept
<1>1. BP!KeptAtStop /\ RetentionInv => EventsAreKept
  BY SameBus DEF EventsAreKept, RetentionInv
<1>2. QED
  BY BusSound, RetentionSound, <1>1, PTL

-----------------------------------------------------------------------------
(* Extensions *)

LEMMA ExtensionsStep ==
  /\ Init => X!Init
  /\ [Next]_vars => [X!Next]_(X!vars)
<1>1. Init => X!Init
  BY DEF Init
<1>2. ASSUME [Next]_vars PROVE [X!Next]_(X!vars)
  <2>1. ASSUME UNCHANGED extensionsVars PROVE UNCHANGED X!vars
    BY <2>1 DEF extensionsVars, X!vars, X!stored
  <2>2. CASE UNCHANGED vars \/ Bus \/ Scheduling \/ Pairing \/ Retaining \/ Notifying
    BY <2>1, <2>2 DEF vars, Bus, Scheduling, Pairing, Retaining, Notifying
  <2>3. CASE Extending
    BY <2>3 DEF Extending
  <2>4. QED
    BY <1>2, <2>2, <2>3 DEF Next
<1>3. QED
  BY <1>1, <1>2

\* The overlay, the model paths and the jobs are about extensions; what is
\* being installed can run here, and what is downloaded has a place.
Overlay == [opt : X!Options \cup {X!Absent}, cache : Roots \cup {X!Absent}]
JobFits(j) ==
  /\ j \in [op : {"install", "download"}, of : Catalog \cup Models,
            root : Roots \cup {X!Absent}, watched : BOOLEAN]
  /\ j.op = "install" => j.of \in Catalog \ Unmet
  /\ j.op = "download" => j.root \in Roots
JobsFit == \A j \in jobs : JobFits(j)

ExtensionsInv ==
  /\ X!TypeOK /\ JobsFit
  /\ saved \in [Catalog -> Overlay]
  /\ wired \in [Models -> [root : Roots \cup {X!Absent}]]

\* What the host finds has one of the four fates.
LEMMA InventoryFits ==
  \A x \in DOMAIN X!Load : X!Load[x].status \in {"loaded", "failed", "hosted_by_client", "disabled"}
BY DEF X!Load, X!Resolve

LEMMA ExtensionsInit == X!Init => ExtensionsInv
<1> SUFFICES ASSUME X!Init PROVE ExtensionsInv
  OBVIOUS
<1>1. /\ saved \in [Catalog -> Overlay]
      /\ wired \in [Models -> [root : Roots \cup {X!Absent}]]
      /\ JobsFit
  BY DEF X!Init, X!NoOverlay, X!NoFile, Overlay, JobsFit
<1>2. X!TypeOK
  BY <1>1, InventoryFits DEF X!Init, X!TypeOK, Overlay
<1>3. QED
  BY <1>1, <1>2 DEF ExtensionsInv

\* The model path that is written is that of a whole model.
LEMMA WiringKeeps ==
  ASSUME wired \in [Models -> [root : Roots \cup {X!Absent}]],
         NEW x, NEW r \in Roots \cup {X!Absent}, X!Missing(x, r) = {}, X!ApplyConfig(x, r)
  PROVE  /\ wired' \in [Models -> [root : Roots \cup {X!Absent}]]
         /\ \A y \in Models : wired'[y] # wired[y] => X!Missing(y, wired'[y].root) = {}
BY DEF X!ApplyConfig

LEMMA ExtensionsNext ==
  ASSUME ExtensionsInv, [X!Next]_(X!vars)
  PROVE  ExtensionsInv' /\ (X!WiresWhole \/ UNCHANGED X!vars)
<1> DEFINE Goal == ExtensionsInv' /\ X!WiresWhole
<1>1. ASSUME NEW x \in Catalog, NEW opt \in X!Options \cup {X!Absent},
             NEW cache \in Roots \cup {X!Absent}, X!SetConfig(x, opt, cache)
      PROVE  Goal
  BY <1>1 DEF X!SetConfig, ExtensionsInv, X!TypeOK, JobsFit, Overlay, X!WiresWhole
<1>2. ASSUME NEW x \in Catalog, NEW enabled \in BOOLEAN, X!SetEnabled(x, enabled)
      PROVE  Goal
  BY <1>2 DEF X!SetEnabled, ExtensionsInv, X!TypeOK, JobsFit, Overlay, X!WiresWhole
<1>3. ASSUME NEW x \in Catalog, X!Install(x) PROVE Goal
  <2>1. JobFits(X!Job("install", x, X!Absent))
    BY <1>3 DEF X!Install, X!Job, X!CanRun, JobFits
  <2>2. JobsFit'
    BY <1>3, <2>1 DEF X!Install, ExtensionsInv, JobsFit
  <2>3. QED
    BY <1>3, <2>2 DEF X!Install, X!stored, ExtensionsInv, X!TypeOK, Overlay, X!WiresWhole
<1>4. ASSUME NEW x \in Catalog, X!Uninstall(x) PROVE Goal
  BY <1>4 DEF X!Uninstall, X!Removal, X!NoOverlay, ExtensionsInv, X!TypeOK, JobsFit, Overlay,
              X!WiresWhole
<1>5. X!ModelsDir \in Roots
  BY ServicesBounds DEF X!ExtensionsBounds, X!ModelsDir, ExtensionsInv, X!TypeOK
<1>6. ASSUME NEW x \in Catalog, X!Download(x) PROVE Goal
  <2>1. /\ x \in Models
        /\ jobs' \in {jobs, jobs \cup {X!Job("download", x, X!ModelsDir)}}
    BY <1>6 DEF X!Download
  <2>2. JobFits(X!Job("download", x, X!ModelsDir))
    BY <1>5, <2>1 DEF X!Job, JobFits
  <2>3. JobsFit'
    BY <2>1, <2>2 DEF ExtensionsInv, JobsFit
  <2>4. /\ wired' \in [Models -> [root : Roots \cup {X!Absent}]]
        /\ \A y \in Models : wired'[y] # wired[y] => X!Missing(y, wired'[y].root) = {}
    BY <1>5, <1>6, WiringKeeps DEF X!Download, ExtensionsInv
  <2>5. QED
    BY <1>6, <2>3, <2>4 DEF X!Download, ExtensionsInv, X!TypeOK, X!WiresWhole
<1>7. ASSUME NEW r \in Roots, NEW licence \in BOOLEAN \cup {licensed}, X!SetSettings(r, licence)
      PROVE  Goal
  <2>1. saved' = [x \in Catalog |-> IF x \in Cached /\ r # X!Absent /\ saved[x].cache = X!Absent
                                    THEN [saved[x] EXCEPT !.cache = r] ELSE saved[x]]
    BY <1>7 DEF X!SetSettings, X!ApplyConfigDefaults
  <2>2. saved' \in [Catalog -> Overlay]
    BY <2>1 DEF ExtensionsInv, Overlay
  <2>3. \A x \in Catalog : saved[x].cache # X!Absent => saved'[x] = saved[x]
    BY <2>1
  <2>4. QED
    BY <1>7, <2>2, <2>3 DEF X!SetSettings, ExtensionsInv, X!TypeOK, JobsFit, Overlay, X!WiresWhole
<1>8. ASSUME NEW j \in jobs, X!InstallEnds(j) \/ X!FileArrives(j) PROVE Goal
  <2>1. j.op = "install" => j.of \in Catalog \ Unmet
    BY DEF ExtensionsInv, JobsFit, JobFits
  <2>2. QED
    BY <1>8, <2>1 DEF X!InstallEnds, X!FileArrives, X!stored, ExtensionsInv, X!TypeOK, JobsFit,
                      Overlay, X!WiresWhole
<1>9. ASSUME NEW j \in jobs, NEW ok \in BOOLEAN, X!DownloadEnds(j, ok) PROVE Goal
  <2>1. /\ wired' \in [Models -> [root : Roots \cup {X!Absent}]]
        /\ \A y \in Models : wired'[y] # wired[y] => X!Missing(y, wired'[y].root) = {}
    BY <1>9, WiringKeeps DEF X!DownloadEnds, ExtensionsInv, JobsFit, JobFits
  <2>2. QED
    BY <1>9, <2>1 DEF X!DownloadEnds, ExtensionsInv, X!TypeOK, JobsFit, X!WiresWhole
<1>10. ASSUME NEW f \in disk, X!FileLost(f) PROVE Goal
  BY <1>10 DEF X!FileLost, X!stored, ExtensionsInv, X!TypeOK, JobsFit, Overlay, X!WiresWhole
<1>11. ASSUME X!Restart PROVE Goal
  <2>1. JobsFit'
    <3>1. ASSUME NEW k \in jobs'
          PROVE  JobFits(k)
      <4>1. PICK j \in jobs : k = [j EXCEPT !.watched = FALSE]
        BY <1>11 DEF X!Restart
      <4>2. j \in [op : {"install", "download"}, of : Catalog \cup Models,
                   root : Roots \cup {X!Absent}, watched : BOOLEAN]
        BY DEF ExtensionsInv, JobsFit, JobFits
      <4>3. k.op = j.op /\ k.of = j.of /\ k.root = j.root
        BY <4>1, <4>2
      <4>4. QED
        BY <4>1, <4>2, <4>3 DEF ExtensionsInv, JobsFit, JobFits
    <3>2. QED
      BY <3>1 DEF JobsFit
  <2>2. QED
    BY <1>11, <2>1, InventoryFits DEF X!Restart, X!stored, ExtensionsInv, X!TypeOK, Overlay, X!WiresWhole
<1>12. ASSUME UNCHANGED X!vars PROVE ExtensionsInv'
  BY <1>12 DEF X!vars, X!stored, ExtensionsInv, X!TypeOK, JobsFit, Overlay
<1>13. ASSUME X!SetAutostart PROVE Goal
  BY <1>5, <1>7, <1>13 DEF X!SetAutostart
<1>14. QED
  BY <1>1, <1>2, <1>3, <1>4, <1>6, <1>7, <1>8, <1>9, <1>10, <1>11, <1>12, <1>13 DEF X!Next

LEMMA ExtensionsSound == Spec => []ExtensionsInv
<1>1. Init => ExtensionsInv
  BY ExtensionsStep, ExtensionsInit
<1>2. ExtensionsInv /\ [Next]_vars => ExtensionsInv'
  BY ExtensionsStep, ExtensionsNext
<1>3. QED
  BY <1>1, <1>2, PTL DEF Spec

\* An action property: an app is pointed only at a model that has every file it
\* declares, and a cache that was chosen stays where it is when the models'
\* root is (extensions/service.py, _apply_config, _apply_config_defaults).
THEOREM ModelsAreWired == Spec => ModelsAreWhole
<1>1. ExtensionsInv /\ [Next]_vars => [X!WiresWhole]_(X!vars)
  BY ExtensionsStep, ExtensionsNext
<1>2. QED
  BY ExtensionsSound, <1>1, PTL DEF Spec, ModelsAreWhole, X!ModelsAreWhole

-----------------------------------------------------------------------------
(* The fleet, whatever its bounds on installers and wipes *)

\* A machine of the catalogue of n facts: the hub's own is the first, and has no
\* address; the pin of another is a certificate of its node.
Pins == {<<>>} \cup (Boxes \X Nat)
Fitting(n) ==
  {m \in [id : 1 .. n, node : Boxes \cup {Hub}, address : Boxes \cup {"nowhere"},
          pin : Pins, renamed : BOOLEAN] :
     /\ m.id = 1 <=> m.address = "nowhere"
     /\ m.address # "nowhere" => m.pin[1] = m.node}

\* The n-th fact about the machines: none removes the hub's own.
Fact == [type : {"machine.added", "machine.renamed", "machine.removed"}, machine : Fitting(MaxFacts)]
FactFits(fact, n) ==
  /\ fact \in Fact /\ fact.machine \in Fitting(n)
  /\ fact.type = "machine.removed" => fact.machine.id # 1

HasOwn(known) == \E m \in known : m.id = 1

\* The facts begin with the hub's own machine, which is never gone.
CatalogueFits(i, w) ==
  /\ machineLog \in Seq(Fact) /\ Len(machineLog) \in 1 .. MaxFacts
  /\ \A k \in 1 .. Len(machineLog) : FactFits(machineLog[k], k)
  /\ machineLog[1] = F(i, w)!Added(F(i, w)!OwnMachine)
  /\ machines \subseteq Fitting(Len(machineLog)) /\ HasOwn(machines)

LEMMA FittingGrows ==
  ASSUME NEW n \in Nat, NEW k \in Nat, n <= k
  PROVE  Fitting(n) \subseteq Fitting(k)
<1>1. 1 .. n \subseteq 1 .. k
  OBVIOUS
<1>2. QED
  BY <1>1 DEF Fitting

LEMMA OwnFits ==
  ASSUME NEW i, NEW w, NEW n \in Nat \ {0}
  PROVE  /\ F(i, w)!OwnMachine \in Fitting(n) /\ F(i, w)!OwnMachine.id = 1
         /\ MaxFacts \in Nat \ {0} => FactFits(F(i, w)!Added(F(i, w)!OwnMachine), n)
<1>1. ASSUME NEW k \in Nat \ {0}
      PROVE  F(i, w)!OwnMachine \in Fitting(k) /\ F(i, w)!OwnMachine.id = 1
  <2>1. <<>> \in Pins
    BY DEF Pins
  <2>2. QED
    BY <2>1 DEF F!OwnMachine, F!Machine, F!Nowhere, Fitting
<1>2. QED
  BY <1>1 DEF FactFits, Fact, F!Added

\* What a fact makes of the machines that are known.
LEMMA ApplyFits ==
  ASSUME NEW i, NEW w, NEW n \in Nat, NEW known \in SUBSET Fitting(n), NEW fact, FactFits(fact, n)
  PROVE  /\ F(i, w)!Apply(known, fact) \in SUBSET Fitting(n)
         /\ HasOwn(known) => HasOwn(F(i, w)!Apply(known, fact))
<1>1. ASSUME NEW m \in Fitting(n)
      PROVE  [m EXCEPT !.renamed = TRUE] \in Fitting(n) /\ [m EXCEPT !.renamed = TRUE].id = m.id
  BY DEF Fitting
<1>2. CASE fact.type = "machine.added"
  <2>1. F(i, w)!Apply(known, fact) = known \cup {fact.machine}
    BY <1>2 DEF F!Apply
  <2>2. QED
    BY <2>1 DEF FactFits, HasOwn
<1>3. CASE fact.type = "machine.renamed"
  <2>1. F(i, w)!Apply(known, fact) =
          {IF m.id = fact.machine.id THEN [m EXCEPT !.renamed = TRUE] ELSE m : m \in known}
    BY <1>3 DEF F!Apply
  <2>2. F(i, w)!Apply(known, fact) \in SUBSET Fitting(n)
    BY <1>1, <2>1
  <2>3. ASSUME HasOwn(known) PROVE HasOwn(F(i, w)!Apply(known, fact))
    BY <1>1, <2>1, <2>3 DEF HasOwn
  <2>4. QED
    BY <2>2, <2>3
<1>4. CASE fact.type = "machine.removed"
  <2>1. F(i, w)!Apply(known, fact) = {m \in known : m.id # fact.machine.id}
    BY <1>4 DEF F!Apply
  <2>2. QED
    BY <1>4, <2>1 DEF FactFits, HasOwn
<1>5. QED
  BY <1>2, <1>3, <1>4 DEF FactFits, Fact

\* A catalogue rebuilt from such facts is like the one they were taken from.
LEMMA RebuiltFits ==
  ASSUME NEW i, NEW w, NEW facts \in Seq(Fact), Len(facts) > 0,
         \A k \in 1 .. Len(facts) : FactFits(facts[k], k),
         facts[1] = F(i, w)!Added(F(i, w)!OwnMachine)
  PROVE  /\ F(i, w)!Rebuilt(facts) \subseteq Fitting(Len(facts))
         /\ HasOwn(F(i, w)!Rebuilt(facts))
<1> DEFINE count == Len(facts)
           T == SUBSET Fitting(count)
           step == [k \in 1 .. count |-> [known \in T |-> F(i, w)!Apply(known, facts[k])]]
           Known(known) == [n \in 0 .. count |-> IF n = 0 THEN {} ELSE F(i, w)!Apply(known[n - 1], facts[n])]
<1>1. count \in Nat \ {0}
  OBVIOUS
<1>2. ASSUME NEW k \in 1 .. count PROVE FactFits(facts[k], count)
  <2>1. Fitting(k) \subseteq Fitting(count)
    BY <1>1, FittingGrows
  <2>2. QED
    BY <2>1 DEF FactFits
<1>3. ASSUME NEW k \in 1 .. count, NEW known \in T
      PROVE  F(i, w)!Apply(known, facts[k]) \in T
  BY <1>1, <1>2, ApplyFits
<1>4. step \in [1 .. count -> [T -> T]]
  BY <1>3
<1>5. \E g \in [0 .. count -> T] : g = Known(g)
  <2>1. PICK s \in [1 .. count -> [T -> T]] :
          \A k \in 1 .. count : \A known \in T : s[k][known] = F(i, w)!Apply(known, facts[k])
    BY <1>4
  <2>2. PICK none \in T : none = {}
    OBVIOUS
  <2>3. PICK g \in [0 .. count -> T] : GoesBySteps(g, count, none, s)
    <3>1. count \in Nat /\ s \in [1 .. count -> [T -> T]] /\ none \in T
      BY <1>1, <2>1, <2>2
    <3> HIDE DEF T, count
    <3>2. QED
      BY <3>1, StepByStep
  <2>4. ASSUME NEW k \in 0 .. count
        PROVE  g[k] = IF k = 0 THEN {} ELSE F(i, w)!Apply(g[k - 1], facts[k])
    <3>1. CASE k = 0
      BY <2>2, <2>3, <3>1 DEF GoesBySteps
    <3>2. CASE k # 0
      <4>1. k \in 1 .. count /\ k - 1 \in 0 .. count
        BY <3>2
      <4>2. g[k - 1] \in T
        BY <4>1
      <4>3. g[k] = s[k][g[k - 1]]
        BY <2>3, <4>1 DEF GoesBySteps
      <4>4. QED
        BY <2>1, <3>2, <4>1, <4>2, <4>3
    <3>3. QED
      BY <3>1, <3>2
  <2>5. g = [k \in 0 .. count |-> g[k]]
    OBVIOUS
  <2>6. QED
    BY <2>4, <2>5
<1>6. PICK known : known = Known(known) /\ F(i, w)!Rebuilt(facts) = known[count]
  BY <1>5 DEF F!Rebuilt
<1>7. known[0] = {}
  BY <1>6
<1>8. ASSUME NEW k \in 1 .. count PROVE known[k] = F(i, w)!Apply(known[k - 1], facts[k])
  BY <1>6
<1> DEFINE Good == {k \in 0 .. count : known[k] \in T /\ (k > 0 => HasOwn(known[k]))}
<1>9. 0 \in Good
  BY <1>7
<1>10. ASSUME NEW k \in 0 .. count - 1, k \in Good PROVE k + 1 \in Good
  <2>1. k + 1 \in 1 .. count /\ (k + 1) - 1 = k /\ known[k] \in T
    BY <1>10
  <2>2. known[k + 1] = F(i, w)!Apply(known[k], facts[k + 1])
    BY <1>8, <2>1
  <2>3. known[k + 1] \in T
    BY <1>3, <2>1, <2>2
  <2>4. HasOwn(known[k + 1])
    <3>1. CASE k = 0
      <4>1. F(i, w)!Apply({}, facts[1]) = {F(i, w)!OwnMachine}
        BY DEF F!Apply, F!Added
      <4>2. QED
        <5>1. known[k] = {} /\ facts[k + 1] = facts[1]
          BY <1>7, <3>1
        <5>2. known[k + 1] = {F(i, w)!OwnMachine}
          BY <2>2, <4>1, <5>1
        <5>3. QED
          BY <5>2, OwnFits, <1>1 DEF HasOwn
    <3>2. CASE k > 0
      <4>1. HasOwn(known[k])
        BY <1>10, <3>2
      <4>2. QED
        BY <1>1, <1>2, <2>1, <2>2, <4>1, ApplyFits
    <3>3. QED
      BY <3>1, <3>2
  <2>5. QED
    BY <2>1, <2>3, <2>4
<1>11. \A k \in 0 .. count : k \in Good
  <2> HIDE DEF Good, count
  <2>1. QED
    BY <1>1, <1>9, <1>10, UpToBound
<1>12. QED
  BY <1>1, <1>6, <1>11

\* The identity, its files and what carries its certificate.
IdentityFits ==
  /\ identityDir \in [cert : 0 .. MaxIdentities, key : 0 .. MaxIdentities + 1, minting : BOOLEAN]
  /\ identity \in 0 .. MaxIdentities

\* The tokens and the installers are numbered alike, boxes and answers carry
\* tokens there are, and an answer the certificate of the box that gave it.
Answer(n) ==
  {r \in [address : Boxes, node : Boxes, pin : Boxes \X Nat, token : 1 .. n] : r.pin[1] = r.node}
PairingFits(i, w) ==
  /\ tokens \in Seq(Boxes \cup {"unclaimed"}) /\ zips \in Seq([ca : 0 .. MaxIdentities, token : Nat])
  /\ Len(tokens) = Len(zips) /\ Len(zips) <= i
  /\ \A k \in DOMAIN zips : zips[k].token \in 1 .. Len(zips)
  /\ ccan \in [Boxes -> [ca : 0 .. MaxIdentities, token : 0 .. Len(zips), own : 1 .. w + 1]]
  /\ place \in [Boxes -> Boxes] /\ \A a, b \in Boxes : place[a] = place[b] => a = b
  /\ answers \subseteq Answer(Len(tokens))

\* A token that was claimed has enrolled the node that claimed it, and refused
\* only others.
Claimed(t) == t \in DOMAIN tokens /\ tokens[t] # "unclaimed"
TokensBind(i) ==
  /\ enrolment \in [1 .. i -> SUBSET Boxes]
  /\ \A t \in 1 .. i : enrolment[t] = IF Claimed(t) THEN {tokens[t]} ELSE {}
  /\ \A r \in refused : r[1] \in 1 .. i /\ Claimed(r[1]) /\ tokens[r[1]] # r[2]

FleetInv(i, w) == IdentityFits /\ PairingFits(i, w) /\ TokensBind(i) /\ CatalogueFits(i, w)

LEMMA FleetInit ==
  ASSUME NEW i \in Nat, NEW w \in Nat, F(i, w)!FleetBounds, F(i, w)!Init
  PROVE  FleetInv(i, w)
<1>1. IdentityFits
  BY DEF F!FleetBounds, F!Init, F!Absent, IdentityFits
<1>2. PairingFits(i, w)
  <2>1. tokens = <<>> /\ zips = <<>>
    BY DEF F!Init
  <2>2. tokens \in Seq(Boxes \cup {"unclaimed"})
    BY <2>1
  <2>3. zips \in Seq([ca : 0 .. MaxIdentities, token : Nat])
    BY <2>1
  <2>4. QED
    BY <2>1, <2>2, <2>3 DEF F!FleetBounds, F!Init, F!Absent, F!Bare, F!Addresses, PairingFits
<1>3. TokensBind(i)
  BY DEF F!Init, F!Token, TokensBind, Claimed
<1>4. CatalogueFits(i, w)
  <2>1. MaxFacts \in Nat \ {0}
    BY DEF F!FleetBounds
  <2>2. PICK own : /\ own = F(i, w)!OwnMachine /\ own \in Fitting(1) /\ own.id = 1
                   /\ FactFits(F(i, w)!Added(own), 1)
    BY <2>1, OwnFits
  <2>3. machineLog = <<F(i, w)!Added(own)>> /\ machines = {own}
    BY <2>2 DEF F!Init
  <2>4. F(i, w)!Added(own) \in Fact
    BY <2>2 DEF FactFits
  <2>5. machineLog \in Seq(Fact) /\ Len(machineLog) = 1 /\ machineLog[1] = F(i, w)!Added(own)
    BY <2>3, <2>4
  <2>6. QED
    BY <2>1, <2>2, <2>3, <2>5 DEF CatalogueFits, HasOwn
<1>5. QED
  BY <1>1, <1>2, <1>3, <1>4 DEF FleetInv

\* What is minted is a number of a mint, or no key.
LEMMA IdentityNext ==
  ASSUME NEW i \in Nat, NEW w \in Nat, F(i, w)!FleetBounds, IdentityFits, F(i, w)!Next
  PROVE  IdentityFits'
<1>1. MaxIdentities \in Nat
  BY DEF F!FleetBounds
<1>2. CASE F(i, w)!LoadIdentity
  BY <1>2 DEF F!LoadIdentity, IdentityFits
<1>3. CASE F(i, w)!WriteCertificate
  <2>1. identityDir' = [cert |-> identityDir.cert + 1, key |-> identityDir.key, minting |-> TRUE]
    BY <1>3 DEF F!WriteCertificate, IdentityFits
  <2>2. identityDir.cert < MaxIdentities /\ identity' = identity
    BY <1>3 DEF F!WriteCertificate
  <2>3. QED
    BY <1>1, <2>1, <2>2 DEF IdentityFits
<1>4. CASE F(i, w)!WriteKey
  <2>1. PICK key \in {identityDir.cert, MaxIdentities + 1} :
          /\ identityDir' = [identityDir EXCEPT !.key = key, !.minting = FALSE]
          /\ identity' = IF key = MaxIdentities + 1 THEN 0 ELSE key
    BY <1>4 DEF F!WriteKey, F!Torn, F!Absent
  <2>2. key \in 0 .. MaxIdentities + 1 /\ identity' \in 0 .. MaxIdentities
    BY <1>1, <2>1 DEF IdentityFits
  <2>3. identityDir' = [cert |-> identityDir.cert, key |-> key, minting |-> FALSE]
    <3>1. PICK d : d = [identityDir EXCEPT !.key = key]
      OBVIOUS
    <3>2. d = [cert |-> identityDir.cert, key |-> key, minting |-> identityDir.minting]
      BY <3>1 DEF IdentityFits
    <3>3. identityDir' = [d EXCEPT !.minting = FALSE]
      BY <2>1, <3>1, Zenon
    <3>4. QED
      BY <3>2, <3>3
  <2>4. QED
    BY <2>2, <2>3 DEF IdentityFits
<1>5. CASE F(i, w)!Restart
  <2>1. identityDir' = [identityDir EXCEPT !.minting = FALSE] /\ identity' = 0
    BY <1>5 DEF F!Restart, F!Absent
  <2>2. identityDir' = [cert |-> identityDir.cert, key |-> identityDir.key, minting |-> FALSE]
    BY <2>1 DEF IdentityFits
  <2>3. identity' \in 0 .. MaxIdentities
    BY <1>1, <2>1
  <2>4. QED
    BY <2>2, <2>3 DEF IdentityFits
<1>6. CASE UNCHANGED <<identityDir, identity>>
  BY <1>6 DEF IdentityFits
<1>7. QED
  BY <1>2, <1>3, <1>4, <1>5, <1>6
     DEF F!Next, F!Download, F!Install, F!Readdress, F!Answered, F!Join, F!RenameMachine,
         F!RemoveMachine, F!mint

\* Handshakes and what they go through.
LEMMA PairingNext ==
  ASSUME NEW i \in Nat, NEW w \in Nat, F(i, w)!FleetBounds, IdentityFits, PairingFits(i, w),
         F(i, w)!Next
  PROVE  PairingFits(i, w)'
<1>1. /\ Len(tokens) \in Nat /\ DOMAIN tokens = 1 .. Len(tokens)
      /\ DOMAIN zips = 1 .. Len(tokens) /\ Len(zips) = Len(tokens)
  BY DEF PairingFits
<1>2. CASE F(i, w)!Download
  <2>1. PICK zip : zip = F(i, w)!Installer
    OBVIOUS
  <2>2. /\ zips' = Append(zips, zip) /\ tokens' = Append(tokens, "unclaimed")
        /\ zip = [ca |-> identity, token |-> Len(tokens) + 1]
        /\ Len(zips) < i /\ UNCHANGED <<ccan, place, answers>>
    BY <1>1, <1>2, <2>1 DEF F!Download, F!Minted, F!Unclaimed, F!Installer, F!network, PairingFits
  <2>3. zip \in [ca : 0 .. MaxIdentities, token : Nat]
    BY <1>1, <2>2 DEF IdentityFits
  <2>4. /\ zips' \in Seq([ca : 0 .. MaxIdentities, token : Nat])
        /\ Len(zips') = Len(tokens) + 1 /\ DOMAIN zips' = 1 .. Len(tokens) + 1
        /\ \A k \in 1 .. Len(tokens) : zips'[k] = zips[k]
        /\ zips'[Len(tokens) + 1] = zip
    BY <1>1, <2>2, <2>3 DEF PairingFits
  <2>5. tokens' \in Seq(Boxes \cup {"unclaimed"}) /\ Len(tokens') = Len(tokens) + 1
    BY <1>1, <2>2 DEF PairingFits
  <2>6. \A k \in DOMAIN zips' : zips'[k].token \in 1 .. Len(zips')
    BY <1>1, <2>2, <2>4 DEF PairingFits
  <2>7. ccan' \in [Boxes -> [ca : 0 .. MaxIdentities, token : 0 .. Len(zips'), own : 1 .. w + 1]]
    BY <1>1, <2>2, <2>4 DEF PairingFits
  <2>8. answers' \subseteq Answer(Len(tokens'))
    BY <1>1, <2>2, <2>5 DEF PairingFits, Answer
  <2>9. QED
    BY <1>1, <2>2, <2>4, <2>5, <2>6, <2>7, <2>8 DEF PairingFits
<1>3. ASSUME NEW b \in Boxes, F(i, w)!Install(b) PROVE PairingFits(i, w)'
  <2>1. PICK k \in DOMAIN zips, wiped \in BOOLEAN :
          /\ wiped => ccan[b].own <= w
          /\ ccan' = [ccan EXCEPT ![b] = [ca |-> zips[k].ca, token |-> zips[k].token,
                                          own |-> IF wiped THEN @.own + 1 ELSE @.own]]
    BY <1>3 DEF F!Install
  <2>2. zips[k] \in [ca : 0 .. MaxIdentities, token : Nat] /\ zips[k].token \in 1 .. Len(zips)
    <3>1. k \in 1 .. Len(zips) /\ zips \in Seq([ca : 0 .. MaxIdentities, token : Nat])
      BY <1>1 DEF PairingFits
    <3>2. QED
      BY <3>1, ElementOfSeq DEF PairingFits
  <2>3. UNCHANGED <<tokens, zips, place, answers>>
    BY <1>3 DEF F!Install, F!issued
  <2>4. PICK own \in 1 .. w + 1 : own = IF wiped THEN ccan[b].own + 1 ELSE ccan[b].own
    BY <2>1 DEF PairingFits
  <2>5. ccan' = [ccan EXCEPT ![b] = [ca |-> zips[k].ca, token |-> zips[k].token, own |-> own]]
    BY <2>1, <2>4 DEF PairingFits
  <2>6. ccan' \in [Boxes -> [ca : 0 .. MaxIdentities, token : 0 .. Len(zips), own : 1 .. w + 1]]
    BY <1>1, <2>2, <2>5 DEF PairingFits
  <2>7. QED
    BY <2>3, <2>6 DEF PairingFits
<1>4. CASE F(i, w)!Readdress
  <2>1. PICK a \in Boxes, b \in Boxes :
          /\ a # b /\ place' = [place EXCEPT ![a] = place[b], ![b] = place[a]]
          /\ UNCHANGED <<tokens, zips, ccan, answers>>
    BY <1>4 DEF F!Readdress, F!Addresses, F!issued
  <2>2. /\ place' \in [Boxes -> Boxes]
        /\ \A c \in Boxes : place'[c] = IF c = a THEN place[b] ELSE IF c = b THEN place[a] ELSE place[c]
    BY <2>1 DEF PairingFits
  <2>3. \A c, d \in Boxes : place'[c] = place'[d] => c = d
    BY <2>1, <2>2 DEF PairingFits
  <2>4. QED
    BY <2>1, <2>2, <2>3 DEF PairingFits
<1>5. ASSUME NEW a \in Boxes, F(i, w)!Answered(a) PROVE PairingFits(i, w)'
  <2>1. PICK b : b = place[a]
    OBVIOUS
  <2>2. /\ b \in Boxes /\ ccan[b].token \in 1 .. Len(tokens) /\ ccan[b].own \in Nat
    BY <1>1, <1>5, <2>1 DEF F!Answered, F!KnowsHub, F!Absent, PairingFits
  <2>3. PICK r : /\ r = [address |-> a, node |-> b, pin |-> <<b, ccan[b].own>>, token |-> ccan[b].token]
                 /\ answers' = answers \cup {r}
    BY <1>5, <2>1 DEF F!Answered, F!Own
  <2>4. r \in Answer(Len(tokens))
    BY <2>2, <2>3 DEF Answer
  <2>5. QED
    BY <1>5, <2>3, <2>4 DEF F!Answered, F!issued, F!network, PairingFits
<1>6. ASSUME NEW r \in answers, F(i, w)!Join(r) PROVE PairingFits(i, w)'
  <2>1. r.token \in 1 .. Len(tokens) /\ r.node \in Boxes
    BY DEF PairingFits, Answer
  <2>2. /\ answers' = answers \ {r} /\ UNCHANGED <<zips, ccan, place>>
        /\ tokens' \in {tokens, [tokens EXCEPT ![r.token] = r.node]}
    BY <1>6 DEF F!Join, F!network
  <2>3. tokens' \in Seq(Boxes \cup {"unclaimed"}) /\ Len(tokens') = Len(tokens)
    <3>1. tokens \in Seq(Boxes \cup {"unclaimed"}) /\ r.node \in Boxes \cup {"unclaimed"}
      BY <2>1 DEF PairingFits
    <3>2. QED
      BY <2>1, <2>2, <3>1, ExceptSeq
  <2>4. QED
    BY <2>2, <2>3 DEF PairingFits
<1>7. CASE F(i, w)!Restart
  BY <1>7 DEF F!Restart, F!issued, F!network, PairingFits
<1>8. CASE UNCHANGED <<tokens, zips, ccan, place, answers>>
  BY <1>8 DEF PairingFits
<1>9. QED
  BY <1>2, <1>3, <1>4, <1>5, <1>6, <1>7, <1>8
     DEF F!Next, F!LoadIdentity, F!WriteCertificate, F!WriteKey, F!RenameMachine, F!RemoveMachine,
         F!Addresses, F!issued, F!network

\* Tokens bind: a claim that is let through is the first, or of the same node.
LEMMA TokensNext ==
  ASSUME NEW i \in Nat, NEW w \in Nat, F(i, w)!FleetBounds, PairingFits(i, w), TokensBind(i),
         F(i, w)!Next
  PROVE  TokensBind(i)'
<1>1. /\ Len(tokens) \in Nat /\ DOMAIN tokens = 1 .. Len(tokens) /\ Len(tokens) <= i
      /\ "unclaimed" \notin Boxes
  BY DEF F!FleetBounds, F!Unclaimed, PairingFits
<1>2. CASE F(i, w)!Download
  <2>1. tokens' = Append(tokens, "unclaimed") /\ UNCHANGED <<enrolment, refused>>
    BY <1>2 DEF F!Download, F!Minted, F!Unclaimed, F!history
  <2>2. /\ DOMAIN tokens' = 1 .. Len(tokens) + 1 /\ tokens'[Len(tokens) + 1] = "unclaimed"
        /\ \A t \in 1 .. Len(tokens) : tokens'[t] = tokens[t]
    BY <1>1, <2>1 DEF PairingFits
  <2>3. ASSUME NEW t \in 1 .. i
        PROVE  Claimed(t)' = Claimed(t) /\ (Claimed(t) => tokens'[t] = tokens[t])
    BY <1>1, <2>2 DEF Claimed
  <2>4. QED
    BY <2>1, <2>3 DEF TokensBind
<1>3. ASSUME NEW r \in answers, F(i, w)!Join(r) PROVE TokensBind(i)'
  <2>1. r.token \in 1 .. Len(tokens) /\ r.node \in Boxes /\ r.token \in 1 .. i
    <3>1. r \in Answer(Len(tokens))
      BY DEF PairingFits
    <3>2. QED
      BY <1>1, <3>1 DEF Answer
  <2>2. CASE F(i, w)!Claims(r.token, r.node)
    <3>1. /\ tokens' = [tokens EXCEPT ![r.token] = r.node]
          /\ enrolment' = [enrolment EXCEPT ![r.token] = @ \cup {r.node}]
          /\ refused' = refused /\ tokens[r.token] \in {"unclaimed", r.node}
      BY <1>3, <2>2 DEF F!Join, F!Claims, F!Unclaimed
    <3>2. /\ DOMAIN tokens' = DOMAIN tokens
          /\ \A t \in DOMAIN tokens : tokens'[t] = IF t = r.token THEN r.node ELSE tokens[t]
      BY <1>1, <2>1, <3>1 DEF PairingFits
    <3>3. ASSUME NEW t \in 1 .. i, t # r.token
          PROVE  Claimed(t)' = Claimed(t) /\ (Claimed(t) => tokens'[t] = tokens[t])
      BY <3>2, <3>3 DEF Claimed
    <3>4. Claimed(r.token)' /\ tokens'[r.token] = r.node
      BY <1>1, <2>1, <3>2 DEF Claimed
    <3>5. enrolment' \in [1 .. i -> SUBSET Boxes]
      BY <2>1, <3>1 DEF TokensBind
    <3>6. ASSUME NEW t \in 1 .. i
          PROVE  enrolment'[t] = IF Claimed(t)' THEN {tokens'[t]} ELSE {}
      <4>1. CASE t = r.token
        <5>1. enrolment[r.token] \subseteq {r.node}
          BY <2>1, <3>1 DEF TokensBind, Claimed
        <5>2. enrolment'[t] = enrolment[r.token] \cup {r.node}
          BY <2>1, <3>1, <4>1 DEF TokensBind
        <5>3. QED
          BY <3>4, <4>1, <5>1, <5>2
      <4>2. CASE t # r.token
        BY <2>1, <3>1, <3>3, <4>2 DEF TokensBind
      <4>3. QED
        BY <4>1, <4>2
    <3>7. ASSUME NEW p \in refused
          PROVE  p[1] \in 1 .. i /\ Claimed(p[1])' /\ tokens'[p[1]] # p[2]
      <4>1. p[1] \in 1 .. i /\ Claimed(p[1]) /\ tokens[p[1]] # p[2]
        BY DEF TokensBind
      <4>2. CASE p[1] = r.token
        <5>1. tokens[r.token] = r.node
          BY <3>1, <4>1, <4>2 DEF Claimed
        <5>2. QED
          BY <3>4, <4>1, <4>2, <5>1
      <4>3. CASE p[1] # r.token
        BY <3>3, <4>1, <4>3
      <4>4. QED
        BY <4>2, <4>3
    <3>8. QED
      BY <3>1, <3>5, <3>6, <3>7 DEF TokensBind
  <2>3. CASE ~F(i, w)!Claims(r.token, r.node)
    <3>1. /\ refused' = refused \cup {<<r.token, r.node>>} /\ UNCHANGED <<tokens, enrolment>>
          /\ tokens[r.token] \notin {"unclaimed", r.node}
      BY <1>3, <2>3 DEF F!Join, F!Claims, F!Unclaimed
    <3>2. Claimed(r.token)
      BY <1>1, <2>1, <3>1 DEF Claimed
    <3>3. ASSUME NEW p \in refused'
          PROVE  p[1] \in 1 .. i /\ Claimed(p[1]) /\ tokens[p[1]] # p[2]
      <4>1. CASE p \in refused
        BY <4>1 DEF TokensBind
      <4>2. CASE p = <<r.token, r.node>>
        BY <2>1, <3>1, <3>2, <4>2
      <4>3. QED
        BY <3>1, <4>1, <4>2
    <3>4. QED
      BY <3>1, <3>3 DEF TokensBind, Claimed
  <2>4. QED
    BY <2>2, <2>3
<1>4. CASE UNCHANGED <<tokens, enrolment, refused>>
  BY <1>4 DEF TokensBind, Claimed
<1>5. QED
  BY <1>2, <1>3, <1>4
     DEF F!Next, F!LoadIdentity, F!WriteCertificate, F!WriteKey, F!Install, F!Readdress,
         F!Answered, F!RenameMachine, F!RemoveMachine, F!Restart, F!issued, F!history

\* A number that no machine had yet, greater than that of the hub's own.
LEMMA NextNumber ==
  ASSUME NEW i, NEW w, MaxFacts \in Nat, CatalogueFits(i, w)
  PROVE  F(i, w)!Max({f.machine.id : f \in F(i, w)!Range(machineLog)}) \in 1 .. Len(machineLog)
<1> DEFINE ids == {f.machine.id : f \in F(i, w)!Range(machineLog)}
<1>1. /\ Len(machineLog) \in Nat \ {0}
      /\ F(i, w)!Range(machineLog) = {machineLog[k] : k \in 1 .. Len(machineLog)}
  BY DEF CatalogueFits, F!Range
<1>2. ASSUME NEW k \in 1 .. Len(machineLog)
      PROVE  machineLog[k].machine.id \in 1 .. Len(machineLog)
  BY <1>1 DEF CatalogueFits, FactFits, Fitting
<1>3. ids \subseteq 1 .. Len(machineLog) /\ machineLog[1].machine.id \in ids
  BY <1>1, <1>2
<1>4. \E p \in ids : \A q \in ids : q <= p
  <2> HIDE DEF ids
  <2>1. ids # {} /\ \A q \in ids : q \in 0 .. Len(machineLog)
    BY <1>1, <1>3
  <2>2. QED
    BY <1>1, <2>1, GreatestExists
<1>5. F(i, w)!Max(ids) \in ids
  <2>1. \E p \in ids : \A q \in ids : p >= q
    BY <1>1, <1>3, <1>4
  <2> HIDE DEF ids
  <2>2. QED
    BY <2>1 DEF F!Max
<1>6. QED
  BY <1>3, <1>5

\* A fact that fits, published with what becomes of the machines.
LEMMA PublishFits ==
  ASSUME NEW i, NEW w, MaxFacts \in Nat \ {0}, CatalogueFits(i, w),
         NEW fact, FactFits(fact, Len(machineLog) + 1), F(i, w)!Publish(fact),
         machines' \subseteq Fitting(Len(machineLog) + 1), HasOwn(machines')
  PROVE  CatalogueFits(i, w)'
<1> DEFINE n == Len(machineLog)
<1>1. /\ machineLog \in Seq(Fact) /\ fact \in Fact /\ n \in 1 .. MaxFacts /\ n < MaxFacts
      /\ machineLog' = Append(machineLog, fact)
  BY DEF CatalogueFits, FactFits, F!Publish
<1>2. /\ machineLog' \in Seq(Fact) /\ Len(machineLog') = n + 1
      /\ \A k \in 1 .. n : machineLog'[k] = machineLog[k]
      /\ machineLog'[n + 1] = fact
  BY <1>1
<1>3. ASSUME NEW k \in 1 .. n + 1 PROVE FactFits(machineLog'[k], k)
  <2>1. CASE k = n + 1
    BY <1>2, <2>1
  <2>2. CASE k \in 1 .. n
    BY <1>2, <2>2 DEF CatalogueFits
  <2>3. QED
    BY <1>1, <2>1, <2>2
<1>4. machineLog'[1] = F(i, w)!Added(F(i, w)!OwnMachine)
  BY <1>1, <1>2 DEF CatalogueFits
<1>5. HasOwn(machines)'
  BY DEF HasOwn
<1>6. QED
  BY <1>1, <1>2, <1>3, <1>4, <1>5 DEF CatalogueFits, F!Added, F!OwnMachine, F!Machine, F!Nowhere

\* The machines and the facts about them, also as rebuilt after a crash.
LEMMA CatalogueNext ==
  ASSUME NEW i \in Nat, NEW w \in Nat, F(i, w)!FleetBounds, PairingFits(i, w),
         CatalogueFits(i, w), F(i, w)!Next
  PROVE  CatalogueFits(i, w)'
<1> DEFINE n == Len(machineLog)
<1>1. /\ MaxFacts \in Nat \ {0} /\ n \in Nat \ {0} /\ "nowhere" \notin Boxes
      /\ Fitting(n) \subseteq Fitting(n + 1)
      /\ machines \subseteq Fitting(n) /\ HasOwn(machines)
  <2>1. n \in Nat \ {0}
    BY DEF F!FleetBounds, CatalogueFits
  <2>2. QED
    BY <2>1, FittingGrows DEF F!FleetBounds, F!Nowhere, CatalogueFits
<1>2. ASSUME NEW m \in Fitting(n + 1), NEW fact, F(i, w)!Publish(fact),
             fact \in {F(i, w)!Added(m), F(i, w)!Renamed(m), F(i, w)!Removed(m)},
             fact = F(i, w)!Removed(m) => m.id # 1
      PROVE  FactFits(fact, n + 1)
  <2>1. n + 1 \in Nat /\ n + 1 <= MaxFacts
    BY <1>1, <1>2 DEF F!Publish
  <2>2. m \in Fitting(MaxFacts)
    BY <1>1, <2>1, FittingGrows
  <2>3. fact.machine = m /\ fact \in Fact /\ (fact.type = "machine.removed" => m.id # 1)
    BY <1>2, <2>2 DEF Fact, F!Added, F!Renamed, F!Removed
  <2>4. QED
    BY <2>3 DEF FactFits
<1>4. ASSUME NEW r \in answers, F(i, w)!Join(r) PROVE CatalogueFits(i, w)'
  <2>1. CASE UNCHANGED <<machines, machineLog>>
    BY <2>1 DEF CatalogueFits, HasOwn, F!Added, F!OwnMachine, F!Machine, F!Nowhere
  <2>2. PICK m : /\ m = F(i, w)!Machine(F(i, w)!Max({f.machine.id : f \in F(i, w)!Range(machineLog)}) + 1,
                                     r.node, r.address, r.pin)
    OBVIOUS
  <2>3. CASE machines' = machines \cup {m} /\ F(i, w)!Publish(F(i, w)!Added(m))
    <3>1. PICK id \in 2 .. n + 1 : m = [id |-> id, node |-> r.node, address |-> r.address,
                                       pin |-> r.pin, renamed |-> FALSE]
      <4>1. PICK top \in 1 .. n : top = F(i, w)!Max({f.machine.id : f \in F(i, w)!Range(machineLog)})
        BY <1>1, NextNumber
      <4>2. top + 1 \in 2 .. n + 1
        BY <1>1
      <4>3. QED
        BY <2>2, <4>1, <4>2 DEF F!Machine
    <3>2. r.node \in Boxes /\ r.address \in Boxes /\ r.pin \in Pins /\ r.pin[1] = r.node
      BY DEF PairingFits, Answer, Pins
    <3>3. m \in Fitting(n + 1)
      BY <1>1, <3>1, <3>2 DEF Fitting
    <3>4. FactFits(F(i, w)!Added(m), n + 1)
      BY <1>2, <2>3, <3>1, <3>3 DEF F!Added, F!Removed
    <3>5. machines' \subseteq Fitting(n + 1) /\ HasOwn(machines')
      BY <1>1, <2>3, <3>3 DEF HasOwn
    <3>6. QED
      BY <1>1, <2>3, <3>4, <3>5, PublishFits
  <2>4. QED
    BY <1>4, <2>1, <2>2, <2>3 DEF F!Join, F!fleet
<1>5. ASSUME NEW m \in machines, F(i, w)!RenameMachine(m) PROVE CatalogueFits(i, w)'
  <2>1. PICK named : named = [m EXCEPT !.renamed = TRUE]
    OBVIOUS
  <2>2. named \in Fitting(n + 1) /\ named.id = m.id /\ m \in Fitting(n + 1)
    BY <1>1, <2>1 DEF Fitting
  <2>3. machines' = (machines \ {m}) \cup {named} /\ F(i, w)!Publish(F(i, w)!Renamed(m))
    BY <1>5, <2>1 DEF F!RenameMachine
  <2>4. FactFits(F(i, w)!Renamed(m), n + 1)
    BY <1>2, <2>2, <2>3 DEF F!Renamed, F!Removed
  <2>5. machines' \subseteq Fitting(n + 1) /\ HasOwn(machines')
    BY <1>1, <2>2, <2>3 DEF HasOwn
  <2>6. QED
    BY <1>1, <2>3, <2>4, <2>5, PublishFits
<1>6. ASSUME NEW m \in machines, F(i, w)!RemoveMachine(m) PROVE CatalogueFits(i, w)'
  <2>1. m \in Fitting(n + 1) /\ m.id # 1
    BY <1>1, <1>6 DEF F!RemoveMachine, F!Nowhere, Fitting
  <2>2. machines' = machines \ {m} /\ F(i, w)!Publish(F(i, w)!Removed(m))
    BY <1>6 DEF F!RemoveMachine
  <2>3. FactFits(F(i, w)!Removed(m), n + 1)
    BY <1>2, <2>1, <2>2
  <2>4. machines' \subseteq Fitting(n + 1) /\ HasOwn(machines')
    BY <1>1, <2>1, <2>2 DEF HasOwn
  <2>5. QED
    BY <1>1, <2>2, <2>3, <2>4, PublishFits
<1>7. CASE F(i, w)!Restart
  <2>1. PICK l \in 0 .. 1 : /\ machineLog' = SubSeq(machineLog, 1, n - l)
                            /\ Len(machineLog') > 0
                            /\ machines' = F(i, w)!Rebuilt(machineLog')
    BY <1>7 DEF F!Restart
  <2>2. PICK k \in 0 .. n : k = n - l
    <3>1. n - l \in 0 .. n
      BY <1>1
    <3>2. QED
      BY <3>1
  <2>3. /\ machineLog' \in Seq(Fact) /\ Len(machineLog') = k
        /\ \A j \in 1 .. k : machineLog'[j] = machineLog[j]
    <3>1. machineLog \in Seq(Fact) /\ k <= Len(machineLog) /\ machineLog' = SubSeq(machineLog, 1, k)
      BY <1>1, <2>1, <2>2 DEF CatalogueFits
    <3>2. QED
      BY <3>1
  <2>4. k \in 1 .. n /\ \A j \in 1 .. k : FactFits(machineLog'[j], j)
    BY <1>1, <2>1, <2>3 DEF CatalogueFits
  <2>5. machineLog'[1] = F(i, w)!Added(F(i, w)!OwnMachine)
    BY <2>3, <2>4 DEF CatalogueFits
  <2>6. /\ F(i, w)!Rebuilt(machineLog') \subseteq Fitting(Len(machineLog'))
        /\ HasOwn(F(i, w)!Rebuilt(machineLog'))
    BY <2>1, <2>3, <2>4, <2>5, RebuiltFits
  <2>7. k \in 1 .. MaxFacts
    BY <1>1, <2>4 DEF CatalogueFits
  <2>8. QED
    BY <2>1, <2>3, <2>4, <2>5, <2>6, <2>7
       DEF CatalogueFits, HasOwn, F!Added, F!OwnMachine, F!Machine, F!Nowhere
<1>8. CASE UNCHANGED <<machines, machineLog>>
  BY <1>8 DEF CatalogueFits, HasOwn, F!Added, F!OwnMachine, F!Machine, F!Nowhere
<1>9. QED
  BY <1>4, <1>5, <1>6, <1>7, <1>8
     DEF F!Next, F!LoadIdentity, F!WriteCertificate, F!WriteKey, F!Download, F!Install,
         F!Readdress, F!Answered, F!fleet

LEMMA FleetNext ==
  ASSUME NEW i \in Nat, NEW w \in Nat, F(i, w)!FleetBounds, FleetInv(i, w),
         [F(i, w)!Next]_fleetVars
  PROVE  FleetInv(i, w)'
<1>1. CASE F(i, w)!Next
  BY <1>1, IdentityNext, PairingNext, TokensNext, CatalogueNext DEF FleetInv
<1>2. CASE UNCHANGED fleetVars
  BY <1>2 DEF fleetVars, FleetInv, IdentityFits, PairingFits, TokensBind, Claimed, CatalogueFits,
              HasOwn, F!Added, F!OwnMachine, F!Machine, F!Nowhere
<1>3. QED
  BY <1>1, <1>2

LEMMA FleetTypes ==
  ASSUME NEW i \in Nat, NEW w \in Nat, F(i, w)!FleetBounds, FleetInv(i, w)
  PROVE  F(i, w)!TypeOK
<1>1. /\ identityDir \in [cert : 0 .. MaxIdentities, key : 0 .. F(i, w)!Torn, minting : BOOLEAN]
      /\ identity \in 0 .. MaxIdentities
  BY DEF FleetInv, IdentityFits, F!Torn
<1>2. /\ Len(tokens) = Len(zips) /\ F(i, w)!Range(tokens) \subseteq Boxes \cup {F(i, w)!Unclaimed}
      /\ \A b \in Boxes : ccan[b].token \in 0 .. Len(zips) /\ ccan[b].own \in 1 .. w + 1
      /\ F(i, w)!IsInjective(place)
  BY DEF FleetInv, PairingFits, F!Range, F!Unclaimed, F!IsInjective
<1>3. /\ \A m \in machines : m.node \in Boxes \cup {Hub}
      /\ Len(machineLog) <= MaxFacts
      /\ F(i, w)!OwnMachine.id \in {m.id : m \in machines}
  BY DEF FleetInv, CatalogueFits, Fitting, HasOwn, F!OwnMachine, F!Machine
<1>4. QED
  BY <1>1, <1>2, <1>3 DEF F!TypeOK

\* The properties say nothing of the bounds, so they carry over to others.
LEMMA FleetSafe ==
  ASSUME NEW i \in Nat, NEW w \in Nat, F(i, w)!FleetBounds, FleetInv(i, w), NEW j, NEW v
  PROVE  F(j, v)!TokenBindsToItsFirst /\ F(j, v)!CommandsReachTheirNode
<1>1. F(j, v)!TokenBindsToItsFirst
  <2>1. ASSUME NEW t \in DOMAIN enrolment PROVE F(j, v)!Cardinality(enrolment[t]) <= 1
    <3>1. enrolment[t] = {tokens[t]} \/ enrolment[t] = {}
      BY DEF FleetInv, TokensBind
    <3>2. Cardinality(enrolment[t]) <= 1
      <4>1. Cardinality({}) = 0 /\ Cardinality({tokens[t]}) = 1
        BY FS_Singleton, FS_EmptySet
      <4>2. QED
        BY <3>1, <4>1
    <3>3. QED
      BY <3>2 DEF F!Cardinality, Cardinality
  <2>2. ASSUME NEW r \in refused PROVE r[2] \notin enrolment[r[1]]
    BY DEF FleetInv, TokensBind
  <2>3. QED
    BY <2>1, <2>2 DEF F!TokenBindsToItsFirst
<1>2. ASSUME NEW m \in machines, NEW b \in Boxes, F(j, v)!Obeys(m, b)
      PROVE  b = m.node
  <2>1. m \in Fitting(Len(machineLog))
    BY DEF FleetInv, CatalogueFits
  <2>2. m.address # "nowhere" /\ m.pin = <<b, ccan[b].own>>
    BY <1>2 DEF F!Obeys, F!Forwarded, F!Pinned, F!Own, F!Nowhere
  <2>3. QED
    BY <2>1, <2>2 DEF Fitting
<1>3. QED
  BY <1>1, <1>2 DEF F!CommandsReachTheirNode

\* The two fleets of the run have other bounds, and are one at a time.
EitherFleet == IF part = "wiped fleet" THEN FleetInv(1, 1) ELSE FleetInv(MaxInstallers, MaxWipes)

LEMMA FleetSound == Spec => []EitherFleet
<1>1. /\ F(MaxInstallers, MaxWipes)!FleetBounds /\ F(1, 1)!FleetBounds
      /\ MaxInstallers \in Nat /\ MaxWipes \in Nat /\ 1 \in Nat
  BY ServicesBounds DEF F!FleetBounds
<1>2. Init => EitherFleet
  BY <1>1, FleetInit DEF Init, EitherFleet
<1>3. ASSUME EitherFleet, [Next]_vars PROVE EitherFleet'
  <2>1. part' = part
    BY <1>3 DEF Next, vars, Bus, Scheduling, Pairing, Retaining, Notifying, Extending
  <2>2. CASE UNCHANGED fleetVars
    BY <1>1, <1>3, <2>1, <2>2, FleetNext DEF EitherFleet
  <2>3. CASE Pairing
    BY <1>1, <1>3, <2>1, <2>3, FleetNext DEF Pairing, EitherFleet
  <2>4. QED
    BY <1>3, <2>2, <2>3 DEF Next, vars, Bus, Scheduling, Retaining, Notifying, Extending
<1>4. QED
  BY <1>2, <1>3, PTL DEF Spec

\* A token enrols the node that claimed it first, again and again, and no other
\* ("a token lifted from one machine cannot enroll a second one",
\* machines/enrollments.py:10), and a command that is obeyed is obeyed by the
\* node it is for, whatever answers at its address (machines/pairing.py:131).
THEOREM OnlyThePairedEnrol == Spec => []OnlyThePaired
<1>1. /\ F(MaxInstallers, MaxWipes)!FleetBounds /\ F(1, 1)!FleetBounds
      /\ MaxInstallers \in Nat /\ MaxWipes \in Nat /\ 1 \in Nat
  BY ServicesBounds DEF F!FleetBounds
<1>2. EitherFleet => OnlyThePaired
  BY <1>1, FleetSafe DEF EitherFleet, OnlyThePaired
<1>3. QED
  BY FleetSound, <1>2, PTL

-----------------------------------------------------------------------------
(* The parts together *)

\* Every part stays well typed and within its bounds; what the type invariants
\* of the queues, the tokens, the schedules and the overlay say is what each
\* part's own invariant needs.
THEOREM ServicesWellTyped == Spec => []TypesOK
<1>1. Spec => []BP!TypeOK
  <2>1. BP!BusBounds
    BY ServicesBounds DEF BP!BusBounds, B!BusBounds
  <2>2. Init => BP!Init
    BY SameBus DEF Init
  <2>3. [Next]_vars => [BP!Next]_(BP!vars)
    BY BusStep
  <2>4. BP!Spec => []BP!TypeOK
    BY <2>1, BP!TypeCorrect
  <2>5. QED
    BY <2>2, <2>3, <2>4, PTL DEF Spec, BP!Spec
<1>2. BP!TypeOK => B!TypeOK
  BY DEF BP!TypeOK, B!TypeOK, BP!Event, B!Event, BP!Close, B!Close, BP!None, B!None
<1>3. EitherFleet =>
        /\ part = "fleet" => F(MaxInstallers, MaxWipes)!TypeOK
        /\ part = "wiped fleet" => F(1, 1)!TypeOK
  <2>1. /\ F(MaxInstallers, MaxWipes)!FleetBounds /\ F(1, 1)!FleetBounds
        /\ MaxInstallers \in Nat /\ MaxWipes \in Nat /\ 1 \in Nat
    BY ServicesBounds DEF F!FleetBounds
  <2>2. QED
    BY <2>1, FleetTypes DEF EitherFleet
<1>4. Spec => [](part \in Parts)
  <2>1. Init => part \in Parts
    BY DEF Init
  <2>2. part \in Parts /\ [Next]_vars => (part \in Parts)'
    BY DEF Next, vars, Bus, Scheduling, Pairing, Retaining, Notifying, Extending
  <2>3. QED
    BY <2>1, <2>2, PTL DEF Spec
<1>5. /\ part \in Parts /\ BP!TypeOK /\ SchedulerInv /\ RetentionInv /\ NoticesInv
      /\ ExtensionsInv /\ EitherFleet
      => TypesOK
  BY <1>2, <1>3 DEF TypesOK, SchedulerInv, RetentionInv, NoticesInv, ExtensionsInv
<1>6. QED
  BY <1>1, <1>4, <1>5, SchedulerSound, RetentionSound, NoticesSound, ExtensionsSound, FleetSound, PTL

=============================================================================
