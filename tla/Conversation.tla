--------------------------- MODULE Conversation ---------------------------
(***************************************************************************)
(* What the voice client understands and does: the cache it keeps of the   *)
(* server's open interactions and sessions from the event stream, the      *)
(* intents an utterance is routed to (the grammar first, then a classifier *)
(* that may only name one), and the command handlers with their dialogs.   *)
(* Microphone and loudspeaker are VoicePipeline's; here utterances arrive  *)
(* one after the other, and an interaction in the cache may be announced   *)
(* between any two steps.                                                  *)
(*                                                                         *)
(* An utterance is what the grammar and the dialogs tell apart: the intent *)
(* the first matching pattern yields ("unknown" when none does), the       *)
(* position its target names, the position it would pick from a list, the  *)
(* sessions it names, whether it opens with a yes or a no, its verbs and   *)
(* whether it carries a task.  A session is named by its project.          *)
(***************************************************************************)
EXTENDS Naturals, FiniteSets, Sequences, SequencesExt

CONSTANTS Sessions,    \* the sessions of the history, each with its project
          Adapters,    \* the adapters that can launch, in the server's order
          Utterances,  \* what the user may say
          Allowed,     \* intents the LLM classifier may name (llm_intents)
          Requests,    \* what the agents will ask: Seq of [session, kind],
                       \* the kind "permission", "question" or "multi"
          MaxSaid, MaxDrops   \* bounds on the environment

ConversationBounds ==
  /\ {MaxSaid, MaxDrops} \subseteq Nat
  /\ Requests \in Seq([session : Sessions, kind : {"permission", "question", "multi"}])
  /\ Utterances \subseteq [verb : STRING, at : Nat, ordinal : Nat, names : SUBSET Sessions,
                           sense : STRING, words : SUBSET STRING, task : BOOLEAN]
  /\ Allowed \subseteq STRING

VARIABLES asked,       \* interactions so far: Seq of [session, kind]
          settled,     \* the server's verdict on each, "open" before one
          running,     \* sessions the server sees at work
          launched,    \* Seq of [adapter, project] the server was told to launch
          feed,        \* events on their way to the cache
          link,        \* the event stream: "up" or "down"
          cursor,      \* the stream has seen an event to resume after
          gap,         \* some event was published that no stream will deliver
          drops,       \* how often the stream broke
          cached,      \* LocalCache._pending
          live,        \* LocalCache: the sessions in an active state
          lastPending, \* CommandHandlers._last_pending
          dialog,      \* CommandHandlers._dialog
          announced,   \* CommandHandlers._announced: an interaction, or 0
          readout,     \* history: the interactions a reply last listed
          turn,        \* where the utterance stands: "none", "resume", "route", "handle"
          said,        \* the utterance
          spokenTo     \* how many there were

server == <<asked, settled, running, launched>>
stream == <<feed, link, cursor, gap, drops>>
cache == <<cached, live>>
talk == <<lastPending, dialog, announced, readout>>
listening == <<turn, said, spokenTo>>
vars == <<server, stream, cache, talk, listening>>

NoDialog == [kind |-> "none"]
Silence == [verb |-> "silence"]
Open == {i \in DOMAIN asked : settled[i] = "open"}
Sorted(S) == [k \in 1 .. Cardinality(S) |-> CHOOSE i \in S : Cardinality({j \in S : j <= i}) = k]
Ordered(S) == SetToSeq(S)

(***************************************************************************)
(* The server as the client sees it: facts it publishes, calls it takes.   *)
(* The stream delivers what it was told, and after a reconnect what it     *)
(* missed, provided it had a cursor to resume after.                       *)
(***************************************************************************)
Publish(e) ==
  IF link = "up" \/ cursor
  THEN feed' = Append(feed, e) /\ UNCHANGED gap
  ELSE gap' = TRUE /\ UNCHANGED feed

Ask(request) ==
  /\ request.session \in running
  /\ asked' = Append(asked, request)
  /\ settled' = Append(settled, "open")
  /\ Publish([type |-> "requested", id |-> Len(asked) + 1])
  /\ UNCHANGED <<running, launched, link, cursor, drops, cache, talk, listening>>

SettledElsewhere(i) ==
  /\ i \in Open
  /\ settled' = [settled EXCEPT ![i] = "elsewhere"]
  /\ Publish([type |-> "closed", id |-> i])
  /\ UNCHANGED <<asked, running, launched, link, cursor, drops, cache, talk, listening>>

AnswerInteraction(i, verdict) ==
  /\ i \in Open
  /\ settled' = [settled EXCEPT ![i] = verdict]
  /\ Publish([type |-> "closed", id |-> i])
  /\ UNCHANGED <<asked, running, launched>>

TerminateSession(s) ==
  /\ s \in running
  /\ running' = running \ {s}
  /\ Publish([type |-> "ended", id |-> s])
  /\ UNCHANGED <<asked, settled, launched>>

LaunchSession(adapter, project) ==
  /\ launched' = Append(launched, [adapter |-> adapter, project |-> project])
  /\ UNCHANGED <<asked, settled, running, feed, gap>>

\* The client's requests.
Call(c) ==
  \/ c.do = "answer" /\ AnswerInteraction(c.id, c.verdict)
  \/ c.do = "stop" /\ TerminateSession(c.session)
  \/ c.do = "launch" /\ LaunchSession(c.adapter, c.project)
  \/ UNCHANGED <<server, feed, gap>>   \* nothing to call, refused (409) or failed

(***************************************************************************)
(* The cache: a snapshot at the start, then the stream.                    *)
(***************************************************************************)
Connect ==
  /\ link = "down" /\ link' = "up"
  /\ UNCHANGED <<server, feed, cursor, gap, drops, cache, talk, listening>>

\* Defect: the stream is opened again without the cursor.
DisconnectForgets ==
  /\ link = "up" /\ drops < MaxDrops
  /\ link' = "down" /\ drops' = drops + 1
  /\ feed' = <<>> /\ gap' = (gap \/ (feed # <<>> /\ ~cursor))
  /\ UNCHANGED <<server, cursor, cache, talk, listening>>

Disconnect ==
  /\ link = "up" /\ drops < MaxDrops
  /\ link' = "down" /\ drops' = drops + 1
  /\ IF cursor \/ feed = <<>> THEN UNCHANGED <<feed, gap>> ELSE feed' = <<>> /\ gap' = TRUE
  /\ UNCHANGED <<server, cursor, cache, talk, listening>>

Apply(e) ==
  CASE e.type = "requested" -> cached' = cached \cup {e.id} /\ UNCHANGED live
    [] e.type = "closed" -> cached' = cached \ {e.id} /\ UNCHANGED live
    [] OTHER -> live' = live \ {e.id} /\ UNCHANGED cached

Follow ==
  /\ link = "up" /\ feed # <<>>
  /\ Apply(Head(feed))
  /\ feed' = Tail(feed) /\ cursor' = TRUE
  /\ UNCHANGED <<server, link, gap, drops, talk, listening>>

(***************************************************************************)
(* Handlers.  h is what a handler leaves: the conversation's variables, the*)
(* call it makes of the server and whether it handed the utterance back. *)
(***************************************************************************)
NoCall == [do |-> "none"]
Standing == [dialog |-> dialog, list |-> lastPending, about |-> announced, reads |-> readout,
             call |-> NoCall, declined |-> FALSE]
Reply(h) == {h}
Answer(h, i, v) == Reply([h EXCEPT !.call = [do |-> "answer", id |-> i, verdict |-> v]])

ReadPending(h) ==
  [h EXCEPT !.list = Sorted(cached), !.reads = Sorted(cached)]

\* What a launch knows already goes along with the choice.
Choose(h, action, candidates, project, task) ==
  Reply([h EXCEPT !.dialog = [kind |-> "choose", action |-> action, candidates |-> candidates,
                              project |-> project, task |-> task, again |-> FALSE]])
ChooseOnly(h, action, candidates) == Choose(h, action, candidates, "", FALSE)

AskWhichInteraction(h, matches, action) ==
  ChooseOnly([h EXCEPT !.list = matches, !.reads = matches], action, matches)

\* Defect: a position counts in the list as it is by now.
MatchInteractionsNow(u) ==
  IF u.at > 0
  THEN {i \in cached : u.at <= Cardinality(cached) /\ Sorted(cached)[u.at] = i}
  ELSE {i \in cached : asked[i].session \in u.names}

MatchInteractions(u) ==
  IF u.at > 0
  THEN LET source == IF lastPending # <<>> THEN lastPending ELSE Sorted(cached)
       IN  {i \in cached : u.at <= Len(source) /\ source[u.at] = i}
  ELSE {i \in cached : asked[i].session \in u.names}

NoTarget(u) == u.at = 0 /\ u.names = {}

\* The interactions an utterance may mean, and what is said unless it is one.
Meant(u) == IF NoTarget(u) THEN cached ELSE MatchInteractions(u)
Undecided(h, u, action) ==
  IF Meant(u) = {} THEN Reply(h)
  ELSE IF NoTarget(u) THEN Reply(ReadPending(h))
  ELSE AskWhichInteraction(h, Sorted(Meant(u)), action)

Resolve(h, u, verdict) ==
  IF Cardinality(Meant(u)) = 1 THEN UNION {Answer(h, i, verdict) : i \in Meant(u)}
  ELSE Undecided(h, u, verdict)

RespondTo(h, i) == IF asked[i].kind = "multi" THEN Reply(h) ELSE Answer(h, i, "text")
Respond(h, u) ==
  IF Cardinality(Meant(u)) = 1 THEN UNION {RespondTo(h, i) : i \in Meant(u)}
  ELSE Undecided(h, u, "respond")

StopCall(h, s) == Reply([h EXCEPT !.call = [do |-> "stop", session |-> s]])
Stop(h, u) ==
  LET matches == IF u.names = {} THEN live ELSE live \cap u.names
  IN  IF matches = {} THEN Reply(h)
      ELSE IF Cardinality(matches) = 1 THEN UNION {StopCall(h, s) : s \in matches}
      ELSE ChooseOnly(h, "stop", Ordered(matches))

(***************************************************************************)
(* Launching: project, then task, then adapter, then the confirmation that *)
(* every path funnels through.                                             *)
(***************************************************************************)
ConfirmLaunch(h, adapter, project) ==
  Reply([h EXCEPT !.dialog = [kind |-> "confirm", adapter |-> adapter, project |-> project]])

LaunchProjectKnown(h, project, task) ==
  IF ~task
  THEN Reply([h EXCEPT !.dialog = [kind |-> "prompt", project |-> project]])
  ELSE CASE Len(Adapters) = 0 -> Reply(h)
         [] Len(Adapters) = 1 -> ConfirmLaunch(h, Adapters[1], project)
         [] OTHER -> Choose(h, "adapter", Adapters, project, TRUE)

\* The projects an utterance names: one goes on, several are read out.
OneProject(h, matches, task) ==
  IF Cardinality(matches) = 1
  THEN UNION {LaunchProjectKnown(h, p, task) : p \in matches}
  ELSE Choose(h, "project", Ordered(matches), "", task)

Launch(h, u) ==
  IF u.names = {}
  THEN Reply([h EXCEPT !.dialog = [kind |-> "project", task |-> u.task, again |-> FALSE]])
  ELSE OneProject(h, u.names, u.task)

(***************************************************************************)
(* A pending dialog takes the utterance first, and may hand it back.       *)
(***************************************************************************)
Closed(h) == [h EXCEPT !.dialog = NoDialog]
Declined(h) == [Closed(h) EXCEPT !.declined = TRUE]

Contradicts(action, u) ==
  \/ action = "allow" /\ "deny" \in u.words
  \/ action = "deny" /\ "approve" \in u.words

NameOf(c, action) == IF action \in {"allow", "deny", "respond"} THEN asked[c].session ELSE c
PickCandidate(d, u) ==
  IF u.ordinal \in DOMAIN d.candidates THEN {d.candidates[u.ordinal]}
  ELSE LET named == {c \in Range(d.candidates) : NameOf(c, d.action) \in u.names}
       IN  IF Cardinality(named) = 1 THEN named ELSE {}

ExecuteChoice(h, d, c) ==
  CASE d.action \in {"allow", "deny"} -> Answer(h, c, d.action)
    [] d.action = "respond" -> IF c \in cached THEN RespondTo(h, c) ELSE Reply(h)
    [] d.action = "stop" -> StopCall(h, c)
    [] d.action = "project" -> LaunchProjectKnown(h, c, d.task)
    [] OTHER -> ConfirmLaunch(h, c, d.project)

\* One more question, then the dialog is given up.
AskAgain(h) ==
  IF dialog.again THEN Reply(Closed(h))
  ELSE Reply([h EXCEPT !.dialog.again = TRUE])

\* Defect: whatever is no refusal confirms.
ResumeConfirmLoosely(h, u) ==
  IF u.sense # "no"
  THEN Reply([Closed(h) EXCEPT !.call = [do |-> "launch", adapter |-> dialog.adapter,
                                         project |-> dialog.project]])
  ELSE Reply(Closed(h))

ResumeConfirm(h, u) ==
  IF u.sense = "yes"
  THEN Reply([Closed(h) EXCEPT !.call = [do |-> "launch", adapter |-> dialog.adapter,
                                         project |-> dialog.project]])
  ELSE Reply(IF u.sense = "no" THEN Closed(h) ELSE Declined(h))

ResumeProject(h, u) ==
  IF u.names = {} THEN AskAgain(h) ELSE OneProject(Closed(h), u.names, dialog.task)

ResumeChoose(h, u) ==
  IF Contradicts(dialog.action, u) THEN Reply(Declined(h))
  ELSE LET chosen == PickCandidate(dialog, u)
       IN  IF chosen = {} THEN AskAgain(h)
           ELSE UNION {ExecuteChoice(Closed(h), dialog, c) : c \in chosen}

Resume(u) ==
  IF u.verb = "cancel" THEN Reply(Closed(Standing))
  ELSE CASE dialog.kind = "confirm" -> ResumeConfirm(Standing, u)
         [] dialog.kind = "project" -> ResumeProject(Standing, u)
         [] dialog.kind = "prompt" -> LaunchProjectKnown(Closed(Standing), dialog.project, TRUE)
         [] OTHER -> ResumeChoose(Standing, u)

(***************************************************************************)
(* Fresh intents.  What no pattern and no classifier named may still be    *)
(* the answer to the question that was just read out.                      *)
(***************************************************************************)
Options == 1..2
MatchOption(u) == {o \in Options : u.ordinal = o}

Unmatched(h, u) ==
  IF announced \in cached /\ asked[announced].kind = "multi"
  THEN Reply([h EXCEPT !.about = 0])
  ELSE IF announced \in cached /\ asked[announced].kind = "question" /\ MatchOption(u) # {}
  THEN Answer([h EXCEPT !.about = 0], announced, "text")
  ELSE Reply(h)

Dispatch(u) ==
  CASE u.verb = "pending" -> Reply(ReadPending(Standing))
    [] u.verb = "approve" -> Resolve(Standing, u, "allow")
    [] u.verb = "deny" -> Resolve(Standing, u, "deny")
    [] u.verb = "respond" -> Respond(Standing, u)
    [] u.verb = "stop" -> Stop(Standing, u)
    [] u.verb = "launch" -> Launch(Standing, u)
    [] u.verb = "cancel" -> Reply(Closed(Standing))
    [] u.verb = "unknown" -> Unmatched(Standing, u)
    [] OTHER -> Reply(Standing)   \* status, overnight, help

\* The patterns named u.verb; only an unknown goes to the classifier, whose
\* target is a hint the handlers resolve like a spoken one.
Named(u, verb, names) == [u EXCEPT !.verb = verb, !.names = names]
Routed(u) ==
  {u} \cup (IF u.verb # "unknown" THEN {}
            ELSE {Named(u, v, n) : v \in Allowed, n \in {{}} \cup {{s} : s \in Sessions}})

\* What a handler leaves, put in place; handed back, the utterance is routed.
Settle(outcomes) ==
  \E h \in outcomes :
     /\ dialog' = h.dialog /\ lastPending' = h.list /\ announced' = h.about
     /\ readout' = h.reads
     /\ IF h.declined THEN turn' = "route" /\ UNCHANGED <<said, server, feed, gap>>
        ELSE turn' = "none" /\ said' = Silence /\ Call(h.call)
     /\ UNCHANGED <<spokenTo, link, cursor, drops, cache>>

(***************************************************************************)
(* One utterance: a pending dialog, then the router, then its handler; the *)
(* router's call of the classifier takes time.                             *)
(***************************************************************************)
Hear(u) ==
  /\ turn = "none" /\ spokenTo < MaxSaid
  /\ said' = u /\ spokenTo' = spokenTo + 1
  /\ turn' = IF dialog # NoDialog THEN "resume" ELSE "route"
  /\ UNCHANGED <<server, stream, cache, talk>>

ResumeDialog == turn = "resume" /\ Settle(Resume(said))

Route ==
  /\ turn = "route" /\ turn' = "handle" /\ said' \in Routed(said)
  /\ UNCHANGED <<server, stream, cache, talk, spokenTo>>

Handle == turn = "handle" /\ Settle(Dispatch(said))

NoteAnnouncedInteraction(i) ==
  /\ announced # i /\ announced' = i
  /\ UNCHANGED <<server, stream, cache, lastPending, dialog, readout, listening>>

\* The time to live of a dialog or of an announcement runs out.
Expire ==
  /\ turn = "none" /\ (dialog # NoDialog \/ announced # 0)
  /\ \/ dialog' = NoDialog /\ UNCHANGED announced
     \/ announced' = 0 /\ UNCHANGED dialog
  /\ UNCHANGED <<server, stream, cache, lastPending, readout, listening>>

Init ==
  /\ asked = <<>> /\ settled = <<>> /\ running = Sessions /\ launched = <<>>
  /\ feed = <<>> /\ link = "down" /\ cursor = FALSE /\ gap = FALSE /\ drops = 0
  /\ cached = {} /\ live = Sessions
  /\ lastPending = <<>> /\ dialog = NoDialog /\ announced = 0 /\ readout = <<>>
  /\ turn = "none" /\ said = Silence /\ spokenTo = 0

Next ==
  \/ Len(asked) < Len(Requests) /\ Ask(Requests[Len(asked) + 1])
  \/ \E i \in Open : SettledElsewhere(i)
  \/ Connect \/ Disconnect \/ Follow
  \/ (\E u \in Utterances : Hear(u)) \/ ResumeDialog \/ Route \/ Handle
  \/ \E i \in cached : NoteAnnouncedInteraction(i)
  \/ Expire

Spec == Init /\ [][Next]_vars

-----------------------------------------------------------------------------
TypeOK ==
  /\ DOMAIN settled = DOMAIN asked
  /\ Range(settled) \subseteq {"open", "allow", "deny", "text", "elsewhere"}
  /\ running \subseteq Sessions /\ running \subseteq live
  /\ cached \subseteq DOMAIN asked /\ link \in {"up", "down"}
  /\ announced \in {0} \cup DOMAIN asked
  /\ Range(lastPending) \subseteq DOMAIN asked
  /\ dialog.kind \in {"none", "confirm", "project", "prompt", "choose"}
  /\ turn \in {"none", "resume", "route", "handle"}

\* The cache is what the server holds open once everything on its way has
\* arrived, through any reconnect, unless an event was published while no
\* stream and no cursor could deliver it (LocalCache, stream_events).
CacheCatchesUp == feed = <<>> /\ ~gap => cached = Open

\* A verdict spoken by position falls on the interaction that position had
\* when it was read out, whatever was asked or settled since; a reply in a
\* dialog never does the opposite of its verb; and a launch happens on a yes
\* to a confirmation, once, for the agent and project it named
\* (_match_interactions, _contradicts, _resume_confirm).
VerdictsAreTold ==
  \A i \in Open : settled'[i] \in {"allow", "deny"} =>
    \/ /\ turn = "handle" /\ said.verb = IF settled'[i] = "allow" THEN "approve" ELSE "deny"
       /\ said.at > 0 /\ readout # <<>> => said.at \in DOMAIN readout /\ i = readout[said.at]
    \/ /\ turn = "resume" /\ dialog.kind = "choose" /\ i \in Range(dialog.candidates)
       /\ IF settled'[i] = "allow" THEN "deny" \notin said.words ELSE "approve" \notin said.words

LaunchesAreConfirmed ==
  launched' # launched =>
    /\ turn = "resume" /\ said.sense = "yes" /\ dialog.kind = "confirm"
    /\ launched' = Append(launched, [adapter |-> dialog.adapter, project |-> dialog.project])
    /\ dialog' = NoDialog

DoesAsTold == [][VerdictsAreTold /\ LaunchesAreConfirmed]_vars

=============================================================================
