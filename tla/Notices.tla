------------------------------ MODULE Notices ------------------------------
(***************************************************************************)
(* What tells people: the notifier (src/src/prodeo/notify/service.py), the *)
(* presence of clients that it asks (presence/tracker.py), and the daily   *)
(* digest (summary/service.py), which is an event like the others.         *)
(*                                                                         *)
(* An event is the instant of its id; it is in the log and in the          *)
(* notifier's queue as soon as it is published.  A send and the publishing *)
(* of its outcome are one step, and so are the pages of a digest.          *)
(***************************************************************************)
EXTENDS Naturals, Sequences, SequencesExt, FiniteSetsExt

CONSTANTS
  Kinds,      \* events published by the rest of the system
  Routes,     \* PRODEO_NOTIFY_RULES: per event kind, the channels of the rules
              \* that match it, each once (_route passes over one it has)
  Channels,   \* the channels that exist
  AwayOnly,   \* PRODEO_NOTIFY_AWAY_ONLY_CHANNELS
  QueueLimit, \* maxsize of the notifier's queue (1024 in the code)
  Clients,    \* clients that report their presence
  Ttl,        \* how long a heartbeat holds
  Period,     \* the length of a digest's period (24 hours in the code)
  MaxEvents,  \* bound of the clock and of the events
  MaxBoots    \* bound of the starts of the server

VARIABLES
  published, \* per instant, the event: its kind, and for a notification.*
             \* event the event and channel it is about and the outcome
  waiting,   \* the notifier's queue
  routing,   \* _route(): its event, the channels left, was a user present?
  lost,      \* events DROP_OLDEST has dropped
  presence,  \* per client: attentive, and when its heartbeat expires
  digest,    \* run_once() of the summary, between the fold and the publish:
             \* the end of its period and the events it has counted
  lastRun,   \* _last_run_at, or 0
  digests,   \* the runs of this boot: their digest, with nothing counted
             \* when the run failed
  boots

vars == <<published, waiting, routing, lost, presence, digest, lastRun, digests, boots>>

NoticesBounds ==
  /\ QueueLimit \in Nat \ {0} /\ MaxBoots \in Nat \ {0}
  /\ {Ttl, Period, MaxEvents} \subseteq Nat
  /\ Kinds \cup {"summary"} \subseteq DOMAIN Routes
  /\ \A kind \in DOMAIN Routes :
       /\ Routes[kind] \in Seq(STRING)
       /\ \A i, j \in DOMAIN Routes[kind] : Routes[kind][i] = Routes[kind][j] => i = j

Time == Len(published)
None == ""
Plain(kind) == [kind |-> kind, about |-> 0, channel |-> None, outcome |-> None]
Notification(e, channel, outcome) ==
  [kind |-> "notification", about |-> e, channel |-> channel, outcome |-> outcome]
Gone == [attentive |-> FALSE, expires |-> 0]
NoRoute == [event |-> 0, targets |-> <<>>, present |-> FALSE]
NoDigest == [to |-> 0, counted |-> {}]

Init ==
  /\ published = <<>>
  /\ waiting = <<>>
  /\ routing = NoRoute
  /\ lost = {}
  /\ presence = [c \in Clients |-> Gone]
  /\ digest = NoDigest
  /\ lastRun = 0
  /\ digests = <<>>
  /\ boots = 1

-----------------------------------------------------------------------------

\* publish(): into the log, and into the notifier's queue.
Publish(event) ==
  LET full == Len(waiting) = QueueLimit
  IN /\ Time < MaxEvents
     /\ published' = Append(published, event)
     /\ waiting' = Append(IF full THEN Tail(waiting) ELSE waiting, Time + 1)
     /\ lost' = IF full THEN lost \cup {Head(waiting)} ELSE lost

Happens ==
  \E kind \in Kinds :
    /\ Publish(Plain(kind))
    /\ UNCHANGED <<routing, presence, digest, lastRun, digests, boots>>

-----------------------------------------------------------------------------
(* Presence *)

\* report(): a heartbeat replaces the client's entry.
Report(c) ==
  \E attentive \in BOOLEAN :
    /\ presence' = [presence EXCEPT ![c] = [attentive |-> attentive, expires |-> Time + Ttl]]
    /\ UNCHANGED <<published, waiting, routing, lost, digest, lastRun, digests, boots>>

\* forget(): a clean goodbye.
Forget(c) ==
  /\ presence' = [presence EXCEPT ![c] = Gone]
  /\ UNCHANGED <<published, waiting, routing, lost, digest, lastRun, digests, boots>>

\* any_attentive(), after _prune().
AnyAttentive == \E c \in Clients : presence[c].attentive /\ presence[c].expires > Time

-----------------------------------------------------------------------------
(* The notifier *)

\* Defect: without the loop guard.
TargetsUnguarded(event) == Routes[published[event].kind]

\* The rules of _route(); a notification.* event is never routed.
Targets(event) ==
  IF published[event].kind = "notification" THEN <<>> ELSE Routes[published[event].kind]

\* _route() begins: whether a user is present is asked once for the event.
Take ==
  /\ routing.targets = <<>>
  /\ waiting # <<>>
  /\ waiting' = Tail(waiting)
  /\ routing' = [event |-> Head(waiting), targets |-> Targets(Head(waiting)),
                 present |-> AwayOnly # {} /\ AnyAttentive]
  /\ UNCHANGED <<published, lost, presence, digest, lastRun, digests, boots>>

Outcomes(channel) ==
  IF routing.present /\ channel \in AwayOnly THEN {"suppressed"}
  ELSE IF channel \notin Channels THEN {"failed"}
  ELSE {"sent", "failed"}

\* Defect: a failed send does not `continue`.
SendOn ==
  /\ routing.targets # <<>>
  /\ \E outcome \in Outcomes(Head(routing.targets)) :
       /\ Publish(Notification(routing.event, Head(routing.targets), outcome))
       /\ routing' = IF outcome = "failed" THEN routing ELSE [routing EXCEPT !.targets = Tail(@)]
  /\ UNCHANGED <<presence, digest, lastRun, digests, boots>>

\* The loop of _route() over the channels.
Send ==
  \E outcome \in {"sent", "failed", "suppressed"} :
    /\ routing.targets # <<>>
    /\ outcome \in Outcomes(Head(routing.targets))
    /\ Publish(Notification(routing.event, Head(routing.targets), outcome))
    /\ routing' = [routing EXCEPT !.targets = Tail(@)]
    /\ UNCHANGED <<presence, digest, lastRun, digests, boots>>

-----------------------------------------------------------------------------
(* The digest *)

\* Defect: every digest is of a whole period.
FoldPeriod ==
  LET start == IF Time > Period THEN Time - Period ELSE 0
  IN /\ digest = NoDigest
     /\ Time > lastRun
     /\ lastRun' = Time
     /\ digest' = [to |-> Time, counted |-> {e \in DOMAIN published : start <= e /\ e < Time}]
     /\ UNCHANGED <<published, waiting, routing, lost, presence, digests, boots>>

\* run_once() up to the summarizer: the period starts with the last run, and
\* the fold reads the log from there up to now.
Fold ==
  LET start == Max({lastRun} \cup (IF Time > Period THEN {Time - Period} ELSE {0}))
  IN /\ digest = NoDigest
     /\ Time > lastRun
     /\ lastRun' = Time
     /\ digest' = [to |-> Time, counted |-> {e \in DOMAIN published : start <= e /\ e < Time}]
     /\ UNCHANGED <<published, waiting, routing, lost, presence, digests, boots>>

\* The fold raises, when the log cannot be read: the run ends without a
\* digest, and its period is past.
FoldFails ==
  /\ digest = NoDigest
  /\ Time > lastRun
  /\ lastRun' = Time
  /\ digests' = Append(digests, [to |-> Time, counted |-> {}])
  /\ UNCHANGED <<published, waiting, routing, lost, presence, digest, boots>>

\* The summarizer answers, fails or times out: the digest is published.
Summarized ==
  /\ digest # NoDigest
  /\ Publish(Plain("summary"))
  /\ digests' = Append(digests, digest)
  /\ digest' = NoDigest
  /\ UNCHANGED <<routing, presence, lastRun, boots>>

\* The server stops, without ceremony, and starts again.
Restart ==
  /\ boots < MaxBoots
  /\ boots' = boots + 1
  /\ waiting' = <<>>
  /\ lost' = lost \cup ToSet(waiting) \cup (IF routing.targets # <<>> THEN {routing.event} ELSE {})
  /\ routing' = NoRoute
  /\ presence' = [c \in Clients |-> Gone]
  /\ digest' = NoDigest
  /\ lastRun' = 0
  /\ digests' = <<>>
  /\ UNCHANGED published

-----------------------------------------------------------------------------

Next ==
  \/ Happens
  \/ \E c \in Clients : Report(c) \/ Forget(c)
  \/ Take \/ Send
  \/ Fold \/ FoldFails \/ Summarized
  \/ Restart

Spec == Init /\ [][Next]_vars

-----------------------------------------------------------------------------

Event == [kind : Kinds \cup {"summary", "notification"}, about : Nat,
          channel : STRING \cup {None}, outcome : {None, "sent", "failed", "suppressed"}]
Digest == [to : Nat, counted : SUBSET Nat]

\* Type invariant of the queue, the route and the digest.
TypeOK ==
  /\ published \in Seq(Event)
  /\ waiting \in Seq(DOMAIN published) /\ Len(waiting) <= QueueLimit
  /\ lost \subseteq DOMAIN published
  /\ routing \in [event : {0} \cup DOMAIN published, targets : Seq(STRING), present : BOOLEAN]
  /\ presence \in [Clients -> [attentive : BOOLEAN, expires : 0 .. Time + Ttl]]
  /\ digest \in Digest /\ digests \in Seq(Digest)
  /\ lastRun \in 0 .. Time
  /\ boots \in 1 .. MaxBoots

Told(e, channel) == {n \in DOMAIN published : published[n].about = e /\ published[n].channel = channel}

\* Of every event, every channel it is routed to is told once: the log has one
\* outcome per event and channel, none about a notification.* event
\* (service.py:8), and none is missing once the notifier is past the event.
ToldOnce ==
  /\ \A e \in DOMAIN published, c \in Channels :
       /\ \A n, m \in Told(e, c) : n = m
       /\ published[e].kind = "notification" => Told(e, c) = {}
  /\ \A e \in DOMAIN published \ (lost \cup ToSet(waiting) \cup {routing.event}) :
       published[e].kind # "notification" =>
         \A c \in ToSet(Routes[published[e].kind]) : Told(e, c) # {}

\* "Since the previous run, capped at the period length" (summary/service.py:4):
\* the digests of one boot share no event, and leave none out that happened
\* between one and the run before it, unless they are more than a period apart.
DigestsPartition ==
  /\ \A i, j \in DOMAIN digests : i # j => digests[i].counted \cap digests[j].counted = {}
  /\ \A i \in DOMAIN digests \ {1} :
       LET from == digests[i - 1].to
           to == digests[i].to
       IN (digests[i].counted # {} /\ to <= from + Period) => from .. to - 1 \subseteq digests[i].counted

=============================================================================
