----------------------------- MODULE EdgesProofs -----------------------------
(***************************************************************************)
(* Theorems about the edges of the server as MCEdges puts them side by     *)
(* side: what an agent is told of a human's answer, what is reported of    *)
(* the transcript it writes, what the voice client knows and does, and     *)
(* what opens its microphone.                                              *)
(*                                                                         *)
(* The constants are MCEdges' own, of any value that EdgesBounds allows;   *)
(* TLC evaluates that assumption for the instance it checks.               *)
(***************************************************************************)
EXTENDS MCEdges, PositionLemmas

-----------------------------------------------------------------------------
(* The voice client's pipeline *)

LEMMA PipelineStep ==
  /\ Init => V!Init
  /\ [Next]_vars => [V!Next]_(V!vars)
<1>1. Init => V!Init
  BY DEF Init
<1>2. ASSUME [Next]_vars PROVE [V!Next]_(V!vars)
  <2>1. ASSUME UNCHANGED pipelineVars PROVE UNCHANGED V!vars
    BY <2>1 DEF pipelineVars, V!vars, V!mic, V!sound, V!feed
  <2>2. CASE UNCHANGED vars \/ Asking \/ Hooking \/ Tailing \/ Parsing \/ Conversing
    BY <2>1, <2>2 DEF vars, Asking, Hooking, Tailing, Parsing, Conversing
  <2>3. CASE Listening
    BY <2>3 DEF Listening
  <2>4. QED
    BY <1>2, <2>2, <2>3 DEF Next
<1>3. QED
  BY <1>1, <1>2

\* The follow-up window is open exactly as long as an invitation is neither
\* taken up nor over, and the loop holds the speak lock only to speak.
PipelineInv ==
  /\ owed = window
  /\ speaker = "loop" => loop \in {"ack", "reply"}

\* What opens the microphone (pipeline.py, _invite_reply, _followup_until).
Invited == loop = "idle" /\ loop' = "capture" => owed /\ ~owed' /\ ~muted

LEMMA PipelineNext ==
  ASSUME PipelineInv, V!Next
  PROVE  PipelineInv' /\ Invited
<1>1. CASE V!Wake \/ V!OpenFollowup
  BY <1>1 DEF V!Wake, V!OpenFollowup, V!Listening, V!sound, V!feed, PipelineInv, Invited
<1>2. CASE V!Utterance \/ V!Handle
  BY <1>2 DEF V!Utterance, V!Handle, V!sound, V!feed, PipelineInv, Invited
<1>3. ASSUME NEW who \in {"loop", "notifier"}, V!Speak(who)
      PROVE  PipelineInv' /\ Invited
  BY <1>3 DEF V!Speak, V!Wants, V!mic, V!feed, PipelineInv, Invited
<1>4. ASSUME NEW who \in {"loop", "notifier"}, V!Spoken(who) \/ V!SynthesisFails(who)
      PROVE  PipelineInv' /\ Invited
  BY <1>4 DEF V!Spoken, V!SynthesisFails, V!AfterSpeech, V!Inviting, V!Wants, PipelineInv, Invited
<1>5. ASSUME NEW e \in V!Events, V!Deliver(e)
      PROVE  PipelineInv' /\ Invited
  BY <1>5 DEF V!Deliver, V!mic, V!sound, PipelineInv, Invited
<1>6. CASE V!Announce
  BY <1>6 DEF V!Announce, V!mic, V!sound, PipelineInv, Invited
<1>7. CASE V!CooldownEnds \/ V!WindowCloses \/ V!AttentionLapses
  BY <1>7 DEF V!CooldownEnds, V!WindowCloses, V!AttentionLapses, V!mic, V!sound, V!feed,
              PipelineInv, Invited
<1>8. QED
  BY <1>1, <1>2, <1>3, <1>4, <1>5, <1>6, <1>7 DEF V!Next

\* An action property: whatever the order of speech, notifications and time
\* limits, a microphone that opens without the wake word takes up an invitation
\* that was uttered and is not over, once (pipeline.py, _invite_reply).
THEOREM MicrophoneIsInvited == Spec => CaptureIsInvited
<1>1. Init => PipelineInv
  BY PipelineStep DEF V!Init, PipelineInv
<1>2. ASSUME PipelineInv, [Next]_vars
      PROVE  /\ PipelineInv'
             /\ [loop = "idle" /\ loop' = "capture" => owed /\ ~owed' /\ ~muted]_(V!vars)
  <2>1. CASE V!Next
    BY <1>2, <2>1, PipelineNext DEF Invited
  <2>2. CASE UNCHANGED V!vars
    BY <1>2, <2>2 DEF V!vars, V!mic, V!sound, PipelineInv
  <2>3. QED
    BY <1>2, <2>1, <2>2, PipelineStep
<1>3. QED
  BY <1>1, <1>2, PTL DEF Spec, CaptureIsInvited, V!CaptureIsInvited

-----------------------------------------------------------------------------
(* The permission hook *)

LEMMA HookStep ==
  /\ Init => H!Init
  /\ [Next]_vars => [H!Next]_(H!vars)
<1>1. Init => H!Init
  BY DEF Init
<1>2. ASSUME [Next]_vars PROVE [H!Next]_(H!vars)
  <2>1. ASSUME UNCHANGED hookVars PROVE UNCHANGED H!vars
    BY <2>1 DEF hookVars, H!vars, H!local, H!remote
  <2>2. CASE UNCHANGED vars \/ Asking \/ Listening \/ Tailing \/ Parsing \/ Conversing
    BY <2>1, <2>2 DEF vars, Asking, Listening, Tailing, Parsing, Conversing
  <2>3. CASE Hooking
    BY <2>3 DEF Hooking
  <2>4. QED
    BY <1>2, <2>2, <2>3 DEF Next
<1>3. QED
  BY <1>1, <1>2

\* A card comes of a request; what is replied is what became of the card, which
\* is settled for good; and a hook that asks has a request, and had time zero
\* when it began.
CardHasEndpoint == \A h \in Hooks : card[h] # "none" => endpoint[h] # "none"
RepliesAreTrue ==
  \A h \in Hooks : reply[h].status \in H!Settled =>
    card[h] = reply[h].status /\ answer[h] = reply[h].answer
AskingHasRequest ==
  \A h \in Hooks : /\ hook[h] = "asking" => request[h] # "none"
                   /\ hook[h] = "none" => age[h] = 0

HookInv ==
  /\ H!TypeOK
  /\ CardHasEndpoint /\ RepliesAreTrue /\ AskingHasRequest
  /\ H!SpeaksForAHuman /\ H!EndsBeforeCap

LEMMA HookInit == H!Init => HookInv
<1> SUFFICES ASSUME H!Init PROVE HookInv
  OBVIOUS
<1>1. {Timeout, Grace, Cap, MaxDowns} \subseteq Nat
  BY EdgesBounds DEF H!HookBounds
<1>2. H!TypeOK
  BY <1>1 DEF H!Init, H!TypeOK, H!NoReply, H!Ends, H!Settled, H!Answers
<1>3. CardHasEndpoint /\ RepliesAreTrue /\ AskingHasRequest
  BY DEF H!Init, H!NoReply, H!Settled, CardHasEndpoint, RepliesAreTrue, AskingHasRequest
<1>4. H!SpeaksForAHuman /\ H!EndsBeforeCap
  BY DEF H!Init, H!SpeaksForAHuman, H!EndsBeforeCap, H!Asking
<1>5. QED
  BY <1>2, <1>3, <1>4 DEF HookInv

\* A hook that ends says nothing, or what it was replied.
LEMMA EndKeeps ==
  ASSUME HookInv, NEW h \in Hooks, NEW how \in H!Ends, H!End(h, how),
         how \in {"allow", "deny"} => card[h] = "answered" /\ answer[h] = how
  PROVE  HookInv'
<1>1. /\ hook' = [hook EXCEPT ![h] = how]
      /\ UNCHANGED <<present, age, request, reply, endpoint, card, answer, left, server, downs>>
  BY DEF H!End, H!remote
<1>2. H!TypeOK'
  BY <1>1 DEF HookInv, H!TypeOK
<1>3. CardHasEndpoint' /\ RepliesAreTrue'
  BY <1>1 DEF HookInv, CardHasEndpoint, RepliesAreTrue
<1>4. hook \in [Hooks -> {"none", "asking"} \cup H!Ends] /\ how \notin {"asking", "none"}
  BY DEF HookInv, H!TypeOK, H!Ends
<1>5. AskingHasRequest' /\ H!EndsBeforeCap'
  BY <1>1, <1>4 DEF HookInv, AskingHasRequest, H!EndsBeforeCap, H!Asking
<1>6. H!SpeaksForAHuman'
  BY <1>1, <1>4 DEF HookInv, H!SpeaksForAHuman
<1>7. QED
  BY <1>2, <1>3, <1>5, <1>6 DEF HookInv

LEMMA HookEnds ==
  ASSUME HookInv, NEW h \in Hooks,
         H!HookReads(h) \/ H!ReturnToStation(h) \/ H!Deadline(h) \/ H!Kill(h)
  PROVE  HookInv'
<1>1. CASE H!HookReads(h)
  <2> DEFINE how == IF request[h] = "replied" THEN H!DecisionOutput(reply[h]) ELSE "prompt"
  <2>1. H!End(h, how)
    BY <1>1 DEF H!HookReads
  <2>2. how \in H!Ends /\ (how \in {"allow", "deny"} => card[h] = "answered" /\ answer[h] = how)
    BY DEF H!DecisionOutput, H!Ends, H!Settled, HookInv, RepliesAreTrue
  <2>3. QED
    BY <2>1, <2>2, EndKeeps
<1>2. CASE H!ReturnToStation(h) \/ H!Deadline(h) \/ H!Kill(h)
  <2>1. H!End(h, "prompt") \/ H!End(h, "killed")
    BY <1>2 DEF H!ReturnToStation, H!Deadline, H!Kill
  <2>2. {"prompt", "killed"} \subseteq H!Ends
    BY DEF H!Ends
  <2>3. QED
    BY <2>1, <2>2, EndKeeps
<1>3. QED
  BY <1>1, <1>2

LEMMA HookAsks ==
  ASSUME HookInv, NEW h \in Hooks, H!Invoke(h) \/ H!RequestFails(h)
  PROVE  HookInv'
<1>1. CASE H!Invoke(h)
  <2>1. /\ hook[h] = "none"
        /\ UNCHANGED <<present, age, reply, endpoint, card, answer, left, server, downs>>
        /\ \/ hook' = [hook EXCEPT ![h] = "prompt"] /\ UNCHANGED request
           \/ hook' = [hook EXCEPT ![h] = "asking"] /\ request' = [request EXCEPT ![h] = "posted"]
    BY <1>1 DEF H!Invoke, H!remote
  <2>2. H!TypeOK'
    BY <2>1 DEF HookInv, H!TypeOK, H!Ends
  <2>3. CardHasEndpoint' /\ RepliesAreTrue'
    BY <2>1 DEF HookInv, CardHasEndpoint, RepliesAreTrue
  <2>4. /\ hook \in [Hooks -> {"none", "asking"} \cup H!Ends]
        /\ request \in [Hooks -> {"none", "posted", "replied", "failed"}]
        /\ 0 < Cap
    BY EdgesBounds DEF HookInv, H!TypeOK, H!HookBounds
  <2>5. AskingHasRequest' /\ H!EndsBeforeCap'
    BY <2>1, <2>4 DEF HookInv, AskingHasRequest, H!EndsBeforeCap, H!Asking
  <2>6. H!SpeaksForAHuman'
    BY <2>1, <2>4 DEF HookInv, H!SpeaksForAHuman
  <2>7. QED
    BY <2>2, <2>3, <2>5, <2>6 DEF HookInv
<1>2. CASE H!RequestFails(h)
  <2>1. /\ request' = [request EXCEPT ![h] = "failed"]
        /\ UNCHANGED <<present, hook, age, reply, endpoint, card, answer, left, server, downs>>
    BY <1>2 DEF H!RequestFails, H!remote
  <2>2. QED
    BY <2>1 DEF HookInv, H!TypeOK, CardHasEndpoint, RepliesAreTrue, AskingHasRequest,
                H!SpeaksForAHuman, H!EndsBeforeCap, H!Asking
<1>3. QED
  BY <1>1, <1>2

LEMMA CardOpens ==
  ASSUME HookInv, NEW h \in Hooks, H!Open(h)
  PROVE  HookInv'
<1>1. /\ endpoint[h] = "none"
      /\ endpoint' = [endpoint EXCEPT ![h] = "polling"]
      /\ card' = [card EXCEPT ![h] = "pending"]
      /\ left' = [left EXCEPT ![h] = Timeout]
      /\ UNCHANGED <<present, hook, age, request, reply, answer, server, downs>>
  BY DEF H!Open, H!local
<1>2. card[h] = "none"
  BY <1>1 DEF HookInv, CardHasEndpoint
<1>3. Timeout \in 0 .. Timeout
  BY EdgesBounds DEF H!HookBounds
<1>4. H!TypeOK'
  BY <1>1, <1>3 DEF HookInv, H!TypeOK
<1>5. RepliesAreTrue' /\ H!SpeaksForAHuman'
  BY <1>1, <1>2 DEF HookInv, RepliesAreTrue, H!SpeaksForAHuman, H!Settled
<1>6. CardHasEndpoint' /\ AskingHasRequest' /\ H!EndsBeforeCap'
  BY <1>1 DEF HookInv, H!TypeOK, CardHasEndpoint, AskingHasRequest, H!EndsBeforeCap, H!Asking
<1>7. QED
  BY <1>4, <1>5, <1>6 DEF HookInv

\* A pending card is settled, by an answer or without; the poll may end with it.
LEMMA CardSettles ==
  ASSUME HookInv, NEW h \in Hooks, NEW status \in H!Settled,
         card[h] = "pending", card' = [card EXCEPT ![h] = status],
         \/ UNCHANGED answer
         \/ \E a \in H!Answers : answer' = [answer EXCEPT ![h] = a],
         endpoint' \in {endpoint, [endpoint EXCEPT ![h] = "done"]},
         UNCHANGED <<present, hook, age, request, reply, left, server, downs>>
  PROVE  HookInv'
<1>1. H!TypeOK'
  BY DEF HookInv, H!TypeOK
<1>2. CardHasEndpoint'
  BY DEF HookInv, H!TypeOK, CardHasEndpoint
<1>3. \A g \in Hooks : g # h => card'[g] = card[g] /\ answer'[g] = answer[g]
  BY DEF HookInv, H!TypeOK
<1>4. reply[h].status \notin H!Settled /\ hook[h] \notin {"allow", "deny"}
  BY DEF HookInv, RepliesAreTrue, H!SpeaksForAHuman, H!Settled
<1>5. RepliesAreTrue' /\ H!SpeaksForAHuman'
  BY <1>3, <1>4 DEF HookInv, RepliesAreTrue, H!SpeaksForAHuman
<1>6. AskingHasRequest' /\ H!EndsBeforeCap'
  BY DEF HookInv, AskingHasRequest, H!EndsBeforeCap, H!Asking
<1>7. QED
  BY <1>1, <1>2, <1>5, <1>6 DEF HookInv

LEMMA CardEnds ==
  ASSUME HookInv, NEW h \in Hooks,
         (\E a \in H!Answers : H!Answer(h, a)) \/ H!TimeOut(h) \/ H!PollDisconnected(h)
  PROVE  HookInv'
<1>1. {"answered", "timed_out", "cancelled"} = H!Settled
  BY DEF H!Settled
<1>2. ASSUME NEW a \in H!Answers, H!Answer(h, a) PROVE HookInv'
  BY <1>1, <1>2, CardSettles DEF H!Answer, H!Settle, H!Unsettled, H!local
<1>3. CASE H!TimeOut(h)
  BY <1>1, <1>3, CardSettles DEF H!TimeOut, H!Settle, H!Unsettled, H!local
<1>4. CASE H!PollDisconnected(h)
  BY <1>1, <1>4, CardSettles DEF H!PollDisconnected, H!Withdraw, H!Settle, H!Unsettled, H!local
<1>5. QED
  BY <1>2, <1>3, <1>4

LEMMA PollReplies ==
  ASSUME HookInv, NEW h \in Hooks, H!PollSettled(h)
  PROVE  HookInv'
<1>1. /\ card[h] \in H!Settled /\ endpoint' = [endpoint EXCEPT ![h] = "done"]
      /\ UNCHANGED <<present, hook, age, card, answer, left, server, downs>>
      /\ \/ UNCHANGED <<request, reply>>
         \/ /\ request' = [request EXCEPT ![h] = "replied"]
            /\ reply' = [reply EXCEPT ![h] = [status |-> card[h], answer |-> answer[h]]]
  BY DEF H!PollSettled, H!Found, H!Respond
<1>2. H!TypeOK'
  BY <1>1 DEF HookInv, H!TypeOK
<1>3. RepliesAreTrue'
  BY <1>1 DEF HookInv, H!TypeOK, RepliesAreTrue
<1>4. CardHasEndpoint' /\ AskingHasRequest'
  BY <1>1 DEF HookInv, H!TypeOK, CardHasEndpoint, AskingHasRequest
<1>5. H!SpeaksForAHuman' /\ H!EndsBeforeCap'
  BY <1>1 DEF HookInv, H!SpeaksForAHuman, H!EndsBeforeCap, H!Asking
<1>6. QED
  BY <1>2, <1>3, <1>4, <1>5 DEF HookInv

LEMMA ServerRestarts ==
  ASSUME HookInv, H!Crash \/ H!Boot
  PROVE  HookInv'
<1>1. CASE H!Crash
  <2>1. /\ endpoint' = [h \in Hooks |-> IF endpoint[h] = "none" THEN "none" ELSE "done"]
        /\ request' = [h \in Hooks |-> IF endpoint[h] = "polling" /\ request[h] = "posted"
                                       THEN "failed" ELSE request[h]]
        /\ server' = "down" /\ downs' = downs + 1 /\ downs < MaxDowns
        /\ UNCHANGED <<present, hook, age, reply, card, answer, left>>
    BY <1>1 DEF H!Crash
  <2>2. downs' \in 0 .. MaxDowns
    BY <2>1, EdgesBounds DEF HookInv, H!TypeOK, H!HookBounds
  <2>3. H!TypeOK'
    BY <2>1, <2>2 DEF HookInv, H!TypeOK
  <2>4. CardHasEndpoint' /\ AskingHasRequest'
    BY <2>1 DEF HookInv, CardHasEndpoint, AskingHasRequest
  <2>5. RepliesAreTrue' /\ H!SpeaksForAHuman' /\ H!EndsBeforeCap'
    BY <2>1 DEF HookInv, RepliesAreTrue, H!SpeaksForAHuman, H!EndsBeforeCap, H!Asking
  <2>6. QED
    BY <2>3, <2>4, <2>5 DEF HookInv
<1>2. CASE H!Boot
  <2>1. /\ card' = [h \in Hooks |-> IF card[h] = "pending" THEN "cancelled" ELSE card[h]]
        /\ server' = "up"
        /\ UNCHANGED <<present, hook, age, request, reply, endpoint, answer, left, downs>>
    BY <1>2 DEF H!Boot, H!local
  <2>2. H!TypeOK'
    BY <2>1 DEF HookInv, H!TypeOK, H!Settled
  <2>3. CardHasEndpoint' /\ AskingHasRequest' /\ H!EndsBeforeCap'
    BY <2>1 DEF HookInv, CardHasEndpoint, AskingHasRequest, H!EndsBeforeCap, H!Asking
  <2>4. RepliesAreTrue' /\ H!SpeaksForAHuman'
    BY <2>1 DEF HookInv, RepliesAreTrue, H!SpeaksForAHuman, H!Settled
  <2>5. QED
    BY <2>2, <2>3, <2>4 DEF HookInv
<1>3. QED
  BY <1>1, <1>2

\* Time does not pass a deadline that is due.
LEMMA HookTick == ASSUME HookInv, H!Tick PROVE HookInv'
<1>1. /\ age' = [h \in Hooks |-> IF H!Asking(h) /\ age[h] < Cap THEN age[h] + 1 ELSE age[h]]
      /\ left' = [h \in Hooks |-> IF card[h] = "pending" /\ left[h] > 0 THEN left[h] - 1 ELSE left[h]]
      /\ UNCHANGED <<present, hook, request, reply, endpoint, card, answer, server, downs>>
  BY DEF H!Tick
<1>2. Timeout \in Nat /\ Grace \in Nat /\ Cap \in Nat /\ Timeout + Grace < Cap
  BY EdgesBounds DEF H!HookBounds
<1>3. age \in [Hooks -> 0 .. Cap] /\ left \in [Hooks -> 0 .. Timeout]
  BY DEF HookInv, H!TypeOK
<1>4. age' \in [Hooks -> 0 .. Cap] /\ left' \in [Hooks -> 0 .. Timeout]
  <2>1. ASSUME NEW h \in Hooks
        PROVE  /\ (IF H!Asking(h) /\ age[h] < Cap THEN age[h] + 1 ELSE age[h]) \in 0 .. Cap
               /\ (IF card[h] = "pending" /\ left[h] > 0 THEN left[h] - 1 ELSE left[h]) \in 0 .. Timeout
    BY <1>2, <1>3
  <2>2. QED
    BY <1>1, <2>1
<1>5. H!TypeOK'
  BY <1>1, <1>4 DEF HookInv, H!TypeOK
<1>6. H!EndsBeforeCap'
  <2>1. SUFFICES ASSUME NEW h \in Hooks, hook[h] = "asking" PROVE age'[h] < Cap
    BY <1>1 DEF H!EndsBeforeCap, H!Asking
  <2>2. ~H!WorkerDone(h) /\ ~H!Overdue(h)
    BY DEF H!Tick, H!Due
  <2>3. request[h] = "posted"
    BY <2>1, <2>2 DEF H!WorkerDone, H!Asking, HookInv, H!TypeOK, AskingHasRequest
  <2>4. age[h] < Timeout + Grace
    BY <1>2, <1>3, <2>1, <2>2, <2>3 DEF H!Overdue, H!Waiting, H!Asking
  <2>5. QED
    BY <1>1, <1>2, <1>3, <2>4
<1>7. AskingHasRequest'
  BY <1>1 DEF HookInv, AskingHasRequest, H!Asking
<1>8. CardHasEndpoint' /\ RepliesAreTrue' /\ H!SpeaksForAHuman'
  BY <1>1 DEF HookInv, CardHasEndpoint, RepliesAreTrue, H!SpeaksForAHuman
<1>9. QED
  BY <1>5, <1>6, <1>7, <1>8 DEF HookInv

LEMMA HookNext == HookInv /\ [H!Next]_(H!vars) => HookInv'
<1> SUFFICES ASSUME HookInv, [H!Next]_(H!vars) PROVE HookInv'
  OBVIOUS
<1>1. CASE UNCHANGED H!vars
  BY <1>1 DEF H!vars, H!local, H!remote, HookInv, H!TypeOK, CardHasEndpoint, RepliesAreTrue,
              AskingHasRequest, H!SpeaksForAHuman, H!EndsBeforeCap, H!Asking
<1>2. CASE H!InputChanges
  BY <1>2 DEF H!InputChanges, H!local, H!remote, HookInv, H!TypeOK, CardHasEndpoint, RepliesAreTrue,
              AskingHasRequest, H!SpeaksForAHuman, H!EndsBeforeCap, H!Asking
<1>3. QED
  BY <1>1, <1>2, HookEnds, HookAsks, CardOpens, CardEnds, PollReplies, ServerRestarts, HookTick
     DEF H!Next

LEMMA HookSound == Spec => []HookInv
<1>1. Init => HookInv
  BY HookStep, HookInit
<1>2. HookInv /\ [Next]_vars => HookInv'
  BY HookStep, HookNext
<1>3. QED
  BY <1>1, <1>2, PTL DEF Spec

-----------------------------------------------------------------------------
(* A question of the agent and what it is told of the answer *)

LEMMA QuestionsStep ==
  /\ Init => Q!Init
  /\ [Next]_vars => [Q!Next]_(Q!vars)
<1>1. Init => Q!Init
  BY DEF Init
<1>2. ASSUME [Next]_vars PROVE [Q!Next]_(Q!vars)
  <2>1. ASSUME UNCHANGED questionsVars PROVE UNCHANGED Q!vars
    BY <2>1 DEF questionsVars, Q!vars
  <2>2. CASE UNCHANGED vars \/ Hooking \/ Listening \/ Tailing \/ Parsing \/ Conversing
    BY <2>1, <2>2 DEF vars, Hooking, Listening, Tailing, Parsing, Conversing
  <2>3. CASE Asking
    BY <2>3 DEF Asking
  <2>4. QED
    BY <1>2, <2>2, <2>3 DEF Next
<1>3. QED
  BY <1>1, <1>2

\* A label that matches some words is a label they name.
LEMMA MatchIsNamed ==
  ASSUME NEW question, question.labels \in Seq(Phrases), NEW words,
         Q!MatchLabel(question.labels, words) # Nothing
  PROVE  Q!Names(question, words, Q!MatchLabel(question.labels, words))
<1> DEFINE labels == question.labels
           alike == {k \in DOMAIN labels : Fold[labels[k]] = Fold[words]}
<1>1. CASE \E k \in DOMAIN labels : labels[k] = words
  BY <1>1 DEF Q!MatchLabel, Q!Names
<1>2. CASE ~(\E k \in DOMAIN labels : labels[k] = words) /\ alike # {}
  <2>1. DOMAIN labels = 1 .. Len(labels) /\ Len(labels) \in Nat
    OBVIOUS
  <2>2. \A k \in alike : k \in 0 .. Len(labels)
    BY <2>1
  <2>3. \E k \in alike : \A j \in alike : k <= j
    BY <1>2, <2>1, <2>2, LeastExists
  <2>4. PICK k \in alike : k = CHOOSE first \in alike : \A j \in alike : first <= j
    BY <2>3
  <2>5. Q!MatchLabel(labels, words) = labels[k]
    BY <1>2, <2>4 DEF Q!MatchLabel
  <2>6. words \notin {labels[j] : j \in DOMAIN labels} /\ Fold[labels[k]] = Fold[words]
    BY <1>2, <2>4
  <2>7. QED
    BY <2>5, <2>6 DEF Q!Names
<1>3. CASE ~(\E k \in DOMAIN labels : labels[k] = words) /\ alike = {}
  <2>1. Ordinal[words] \in DOMAIN labels /\ Q!MatchLabel(labels, words) = labels[Ordinal[words]]
    BY <1>3 DEF Q!MatchLabel
  <2>2. words \notin {labels[j] : j \in DOMAIN labels}
    BY <1>3
  <2>3. QED
    BY <2>1, <2>2 DEF Q!Names
<1>4. QED
  BY <1>1, <1>2, <1>3

\* What is taken for the answer to one question is what these words name.
Answers(question, words, labels) ==
  /\ \A l \in labels : \E w \in words : Q!Names(question, w, l)
  /\ \A w \in words : \E l \in labels : Q!Names(question, w, l)
  /\ labels # {}
  /\ ~question.multi => \A l, m \in labels : l = m

LEMMA MatchedAnswers ==
  ASSUME NEW question, question.labels \in Seq(Phrases), NEW choices,
         Q!Matched(question, choices) # Nothing
  PROVE  Answers(question, {choices[j] : j \in DOMAIN choices}, Q!Matched(question, choices).labels)
<1> DEFINE labels == {Q!MatchLabel(question.labels, choices[j]) : j \in DOMAIN choices}
<1>1. /\ labels # {} /\ Nothing \notin labels
      /\ ~question.multi => \A l, m \in labels : l = m
      /\ Q!Matched(question, choices) = [labels |-> labels]
  BY DEF Q!Matched
<1>2. Q!Matched(question, choices).labels = labels
  BY <1>1
<1>3. ASSUME NEW j \in DOMAIN choices
      PROVE  Q!Names(question, choices[j], Q!MatchLabel(question.labels, choices[j]))
  BY <1>1, <1>3, MatchIsNamed
<1>4. QED
  BY <1>1, <1>2, <1>3 DEF Answers

\* The last of the questions with one text speaks for all of them.
LastOf(k) == \A j \in k + 1 .. Len(asked) : asked[j].text # asked[k].text

LEMMA EachAsked ==
  ASSUME asked \in Seq([text : Prompts, labels : LabelLists, multi : BOOLEAN]),
         NEW k \in DOMAIN asked
  PROVE  asked[k].labels \in Seq(Phrases)
<1> DEFINE S == [text : Prompts, labels : LabelLists, multi : BOOLEAN]
<1>1. asked[k] \in S
  <2> HIDE DEF S
  <2>1. asked \in Seq(S)
    BY DEF S
  <2>2. k \in 1 .. Len(asked)
    BY <2>1
  <2>3. QED
    BY <2>1, <2>2, ElementOfSeq, Zenon
<1>2. asked[k].labels \in LabelLists
  BY <1>1
<1>3. QED
  BY <1>2, EdgesBounds DEF Q!QuestionsBounds

LEMMA LastSpeaks ==
  ASSUME asked \in Seq([text : Prompts, labels : LabelLists, multi : BOOLEAN]),
         NEW k \in DOMAIN asked, LastOf(k)
  PROVE  k = CHOOSE i \in DOMAIN asked :
               asked[i].text = asked[k].text
               /\ \A j \in i + 1 .. Len(asked) : asked[j].text # asked[k].text
<1>1. DOMAIN asked = 1 .. Len(asked) /\ Len(asked) \in Nat
  OBVIOUS
<1>2. ASSUME NEW i \in DOMAIN asked,
             asked[i].text = asked[k].text
             /\ \A j \in i + 1 .. Len(asked) : asked[j].text # asked[k].text
      PROVE  i = k
  <2>1. ~(k \in i + 1 .. Len(asked)) /\ ~(i \in k + 1 .. Len(asked))
    BY <1>2 DEF LastOf
  <2>2. QED
    BY <1>1, <2>1
<1>3. QED
  BY <1>2 DEF LastOf

\* What an allowance with these answers must be of what the human said.
TellsWhatWasSaid(answers) ==
  \A k \in DOMAIN asked : LastOf(k) =>
    /\ asked[k].text \in DOMAIN answers
    /\ Answers(asked[k], Q!Said(k), answers[asked[k].text])

LEMMA SelectionsTell ==
  ASSUME asked \in Seq([text : Prompts, labels : LabelLists, multi : BOOLEAN]),
         outcome.selections # Nothing,
         Q!QuestionsUpdatedInput(asked, outcome.selections) # Nothing
  PROVE  TellsWhatWasSaid(Q!QuestionsUpdatedInput(asked, outcome.selections))
<1> DEFINE MatchedAt(k) == Q!Matched(asked[k], Q!Chosen(outcome.selections, Q!GroupId(asked, k)))
           LastWith(t) == CHOOSE i \in DOMAIN asked :
                            asked[i].text = t /\ \A j \in i + 1 .. Len(asked) : asked[j].text # t
           answers == Q!QuestionsUpdatedInput(asked, outcome.selections)
<1>1. /\ \A k \in DOMAIN asked : MatchedAt(k) # Nothing
      /\ answers = [t \in {asked[k].text : k \in DOMAIN asked} |-> MatchedAt(LastWith(t)).labels]
  BY DEF Q!QuestionsUpdatedInput
<1>2. SUFFICES ASSUME NEW k \in DOMAIN asked, LastOf(k)
               PROVE  /\ asked[k].text \in DOMAIN answers
                      /\ Answers(asked[k], Q!Said(k), answers[asked[k].text])
  BY DEF TellsWhatWasSaid
<1>3. LastWith(asked[k].text) = k
  BY <1>2, LastSpeaks
<1>4. asked[k].text \in DOMAIN answers /\ answers[asked[k].text] = MatchedAt(k).labels
  BY <1>1, <1>2, <1>3
<1>5. asked[k].labels \in Seq(Phrases)
  BY EachAsked
<1> DEFINE choices == Q!Chosen(outcome.selections, Q!GroupId(asked, k))
<1>6. Q!Said(k) = {choices[j] : j \in DOMAIN choices}
  BY DEF Q!Said
<1>7. Q!Matched(asked[k], choices) # Nothing
  BY <1>1, <1>2
<1>8. Answers(asked[k], {choices[j] : j \in DOMAIN choices}, Q!Matched(asked[k], choices).labels)
  BY <1>5, <1>7, MatchedAnswers
<1>9. QED
  BY <1>4, <1>6, <1>8

LEMMA TextTells ==
  ASSUME asked \in Seq([text : Prompts, labels : LabelLists, multi : BOOLEAN]),
         outcome.selections = Nothing,
         Q!QuestionUpdatedInput(asked, outcome.text) # Nothing
  PROVE  TellsWhatWasSaid(Q!QuestionUpdatedInput(asked, outcome.text))
<1> DEFINE label == Q!MatchLabel(asked[1].labels, outcome.text)
<1>1. /\ Len(asked) = 1 /\ ~asked[1].multi /\ label # Nothing
      /\ Q!QuestionUpdatedInput(asked, outcome.text) = [t \in {asked[1].text} |-> {label}]
  BY DEF Q!QuestionUpdatedInput
<1>2. DOMAIN asked = {1} /\ asked[1].labels \in Seq(Phrases)
  <2>1. DOMAIN asked = {1}
    BY <1>1
  <2>2. QED
    BY <2>1, EachAsked
<1>3. Q!Names(asked[1], outcome.text, label)
  BY <1>1, <1>2, MatchIsNamed
<1>4. Q!Said(1) = {outcome.text}
  BY DEF Q!Said
<1>5. Answers(asked[1], Q!Said(1), {label})
  BY <1>3, <1>4 DEF Answers
<1>6. QED
  BY <1>1, <1>2, <1>5 DEF TellsWhatWasSaid

\* A decision is a decision, and words are either a text or selections.
OneAnswer ==
  outcome.decision # "allow" /\ outcome.text # "" => outcome.selections = Nothing

\* The answer of either path, whichever of them guesses less.
RulingOf(path) ==
  IF path = "hook" THEN Q!DecisionOutput(asked, outcome) ELSE Q!CanUseTool(asked, outcome)

\* What an allowance may say.
Founded(answers) ==
  \/ answers = Q!AsAsked /\ outcome.decision = "allow"
  \/ TellsWhatWasSaid(answers)

LEMMA RulingIsFounded ==
  ASSUME asked \in Seq([text : Prompts, labels : LabelLists, multi : BOOLEAN]),
         OneAnswer, NEW path \in {"hook", "sdk"}, RulingOf(path).behavior = "allow",
         RulingOf(path) # Nothing
  PROVE  Founded(RulingOf(path).answers)
<1> DEFINE bySelections == Q!QuestionsUpdatedInput(asked, outcome.selections)
           byText == Q!QuestionUpdatedInput(asked, outcome.text)
<1>1. \/ RulingOf(path) = Q!Allow(Q!AsAsked) /\ outcome.decision = "allow"
      \/ /\ outcome.selections # Nothing /\ bySelections # Nothing
         /\ RulingOf(path) = Q!Allow(bySelections)
      \/ /\ outcome.decision # "allow" /\ outcome.text # "" /\ byText # Nothing
         /\ RulingOf(path) = Q!Allow(byText)
  <2>1. CASE path = "hook"
    BY <2>1 DEF RulingOf, Q!DecisionOutput, Q!Carrying, Q!Terminal, Q!Deny
  <2>2. CASE path = "sdk"
    BY <2>2 DEF RulingOf, Q!CanUseTool, Q!Carrying, Q!Deny
  <2>3. QED
    BY <2>1, <2>2
<1>2. \A a : Q!Allow(a).answers = a
  BY DEF Q!Allow
<1>3. QED
  BY <1>1, <1>2, SelectionsTell, TextTells DEF Founded, OneAnswer

QuestionsInv ==
  /\ asked \in Seq([text : Prompts, labels : LabelLists, multi : BOOLEAN])
  /\ outcome # Nothing => OneAnswer
  /\ ruling \in [{"hook", "sdk"} -> {Nothing, RulingOf("hook"), RulingOf("sdk")}]
  /\ \A path \in {"hook", "sdk"} :
       ruling[path] # Nothing => outcome # Nothing /\ ruling[path] = RulingOf(path)

LEMMA QuestionsInit == Q!Init => QuestionsInv
<1> SUFFICES ASSUME Q!Init PROVE QuestionsInv
  OBVIOUS
<1> DEFINE S == [text : Prompts, labels : LabelLists, multi : BOOLEAN]
<1>1. PICK k \in 0 .. MaxAsked : asked \in [1 .. k -> S]
  BY DEF Q!Init, Q!Questionnaires
<1>2. k \in Nat
  BY EdgesBounds DEF Q!QuestionsBounds
<1>3. asked \in Seq(S)
  <2> HIDE DEF S
  <2>1. QED
    BY <1>1, <1>2
<1>4. QED
  BY <1>3 DEF Q!Init, QuestionsInv

LEMMA QuestionsNext == QuestionsInv /\ [Q!Next]_(Q!vars) => QuestionsInv'
<1> SUFFICES ASSUME QuestionsInv, [Q!Next]_(Q!vars) PROVE QuestionsInv'
  OBVIOUS
<1>1. CASE UNCHANGED Q!vars \/ Q!Present
  <2>1. UNCHANGED <<asked, outcome, ruling>>
    BY <1>1 DEF Q!vars, Q!Present
  <2>2. OneAnswer' = OneAnswer /\ \A path \in {"hook", "sdk"} : RulingOf(path)' = RulingOf(path)
    BY <2>1 DEF OneAnswer, RulingOf
  <2>3. QED
    BY <2>1, <2>2 DEF QuestionsInv
<1>2. CASE Q!Resolve
  <2>1. outcome = Nothing /\ UNCHANGED <<asked, ruling>>
    BY <1>2 DEF Q!Resolve
  <2>2. \A path \in {"hook", "sdk"} : ruling[path] = Nothing
    BY <2>1 DEF QuestionsInv
  <2>3. OneAnswer'
    <3>1. PICK status, decision, text, selections :
            /\ outcome' = Q!Response(status, decision, text, selections)
            /\ text = "" \/ selections = Nothing
      BY <1>2 DEF Q!Resolve
    <3>2. QED
      BY <3>1 DEF Q!Response, OneAnswer
  <2>4. ruling' \in [{"hook", "sdk"} -> {Nothing, RulingOf("hook")', RulingOf("sdk")'}]
    BY <2>1, <2>2 DEF QuestionsInv
  <2>5. QED
    BY <2>1, <2>2, <2>3, <2>4 DEF QuestionsInv
<1>3. ASSUME NEW path \in {"hook", "sdk"}, Q!Rule(path) PROVE QuestionsInv'
  <2>1. /\ outcome # Nothing /\ UNCHANGED <<asked, outcome>>
        /\ ruling' = [ruling EXCEPT ![path] = RulingOf(path)]
    BY <1>3 DEF Q!Rule, RulingOf
  <2>2. OneAnswer' = OneAnswer /\ \A p \in {"hook", "sdk"} : RulingOf(p)' = RulingOf(p)
    BY <2>1 DEF OneAnswer, RulingOf
  <2>3. QED
    BY <2>1, <2>2 DEF QuestionsInv
<1>4. QED
  BY <1>1, <1>2, <1>3 DEF Q!Next

LEMMA QuestionsSafe == QuestionsInv => Q!NothingFabricated
<1> SUFFICES ASSUME QuestionsInv, NEW path \in {"hook", "sdk"},
                    ruling[path] # Nothing, ruling[path].behavior = "allow"
             PROVE  LET answers == ruling[path].answers
                    IN \/ answers = Q!AsAsked /\ outcome.decision = "allow"
                       \/ \A k \in DOMAIN asked :
                            (\A j \in k + 1 .. Len(asked) : asked[j].text # asked[k].text) =>
                              /\ asked[k].text \in DOMAIN answers
                              /\ \A l \in answers[asked[k].text] :
                                   \E w \in Q!Said(k) : Q!Names(asked[k], w, l)
                              /\ \A w \in Q!Said(k) :
                                   \E l \in answers[asked[k].text] : Q!Names(asked[k], w, l)
                              /\ answers[asked[k].text] # {}
                              /\ ~asked[k].multi => \A l, m \in answers[asked[k].text] : l = m
  BY DEF Q!NothingFabricated
<1>1. ruling[path] = RulingOf(path) /\ OneAnswer
  BY DEF QuestionsInv
<1>2. Founded(ruling[path].answers)
  BY <1>1, RulingIsFounded DEF QuestionsInv
<1>3. QED
  BY <1>2 DEF Founded, TellsWhatWasSaid, LastOf, Answers

LEMMA QuestionsSound == Spec => []QuestionsInv
<1>1. Init => QuestionsInv
  BY QuestionsStep, QuestionsInit
<1>2. QuestionsInv /\ [Next]_vars => QuestionsInv'
  BY QuestionsStep, QuestionsNext
<1>3. QED
  BY <1>1, <1>2, PTL DEF Spec

\* "The caller must not fabricate a choice the human did not make"
\* (format.py:133) and "fail-open" (hook.py): whatever is asked and answered, in
\* whatever words, an agent is told what a human said on its own card, each
\* label named and nothing named left out; a hook says nothing else, and it
\* is out of the way before it would be killed, whatever becomes of the server.
THEOREM ToldWhatWasSaid == Spec => []OnlyWhatWasSaid
<1>1. HookInv => H!SpeaksForAHuman /\ H!EndsBeforeCap
  BY DEF HookInv
<1>2. QED
  BY <1>1, QuestionsSafe, QuestionsSound, HookSound, PTL DEF OnlyWhatWasSaid

-----------------------------------------------------------------------------
(* The voice client's conversation *)

LEMMA ConversationStep ==
  /\ Init => C!Init
  /\ [Next]_vars => [C!Next]_(C!vars)
<1>1. Init => C!Init
  BY DEF Init
<1>2. ASSUME [Next]_vars PROVE [C!Next]_(C!vars)
  <2>1. ASSUME UNCHANGED conversationVars PROVE UNCHANGED C!vars
    BY <2>1 DEF conversationVars, C!vars, C!server, C!stream, C!cache, C!talk, C!listening
  <2>2. CASE UNCHANGED vars \/ Asking \/ Hooking \/ Listening \/ Tailing \/ Parsing
    BY <2>1, <2>2 DEF vars, Asking, Hooking, Listening, Tailing, Parsing
  <2>3. CASE Conversing
    BY <2>3 DEF Conversing
  <2>4. QED
    BY <1>2, <2>2, <2>3 DEF Next
<1>3. QED
  BY <1>1, <1>2

Interaction == [session : Sessions, kind : {"permission", "question", "multi"}]
Verdicts == {"open", "allow", "deny", "text", "elsewhere"}
News == [type : {"requested", "closed", "ended"}, id : Nat \cup Sessions]
Utterance == [verb : STRING, at : Nat, ordinal : Nat, names : SUBSET Sessions,
              sense : STRING, words : SUBSET STRING, task : BOOLEAN]

ServerTypes ==
  /\ requested \in Seq(Interaction)
  /\ settled \in Seq(Verdicts)
  /\ Len(settled) = Len(requested)
  /\ running \subseteq Sessions
  /\ feed \in Seq(News)
  /\ \A k \in DOMAIN feed : feed[k].type # "ended" => feed[k].id \in DOMAIN requested
  /\ cached \subseteq DOMAIN requested

\* The stream still has to tell this of interaction i.
ToTell(type, i) == \E k \in DOMAIN feed : feed[k].type = type /\ feed[k].id = i

\* What the stream tells last of an interaction is how it is; what it does not
\* tell is known.
StreamTells ==
  ~gap => \A i \in DOMAIN requested :
    /\ \A j, k \in DOMAIN feed :
         (/\ feed[j].type = "requested" /\ feed[j].id = i
          /\ feed[k].type = "closed" /\ feed[k].id = i) => j < k
    /\ ToTell("closed", i) => settled[i] # "open"
    /\ ToTell("requested", i) /\ ~ToTell("closed", i) => settled[i] = "open"
    /\ ~ToTell("requested", i) /\ ~ToTell("closed", i) => (i \in cached <=> settled[i] = "open")

\* What is said is an utterance, a list read out is the one positions count in,
\* what it lists was asked, and a dialog is one of four.
DialogFits(d) ==
  \/ d = C!NoDialog
  \/ "kind" \in DOMAIN d /\ d.kind \in {"confirm", "project", "prompt", "choose"}
IsReadout(s) == Len(s) \in Nat /\ DOMAIN s = 1 .. Len(s) /\ C!Range(s) \subseteq DOMAIN requested

TalkFits ==
  /\ readout = lastPending
  /\ IsReadout(lastPending)
  /\ announced \in {0} \cup DOMAIN requested
  /\ DialogFits(dialog)
  /\ turn \in {"none", "resume", "route", "handle"}
  /\ turn = "resume" => dialog # C!NoDialog
  /\ turn # "none" => said \in Utterance

ConversationInv == ServerTypes /\ StreamTells /\ TalkFits

LEMMA BoundsOfTalk ==
  /\ Requests \in Seq(Interaction)
  /\ Utterances \subseteq Utterance
  /\ Allowed \subseteq STRING
BY EdgesBounds DEF C!ConversationBounds, Interaction, Utterance

LEMMA ConversationInit == C!Init => ConversationInv
<1> SUFFICES ASSUME C!Init PROVE ConversationInv
  OBVIOUS
<1>1. /\ requested = <<>> /\ settled = <<>> /\ running = Sessions /\ feed = <<>> /\ cached = {}
      /\ lastPending = <<>> /\ dialog = C!NoDialog /\ readout = <<>> /\ turn = "none"
      /\ announced = 0
  BY DEF C!Init
<1>2. /\ requested \in Seq(Interaction) /\ settled \in Seq(Verdicts) /\ feed \in Seq(News)
  <2>1. \A S : <<>> \in Seq(S)
    OBVIOUS
  <2>2. QED
    BY <1>1, <2>1, Zenon
<1>3. DOMAIN feed = {} /\ DOMAIN requested = {}
  BY <1>1
<1>4. ServerTypes
  BY <1>1, <1>2, <1>3 DEF ServerTypes
<1>5. StreamTells
  BY <1>3 DEF StreamTells
<1>6. IsReadout(<<>>)
  <2>1. Len(<<>>) = 0 /\ DOMAIN <<>> = {}
    OBVIOUS
  <2>2. QED
    BY <2>1 DEF IsReadout, C!Range
<1>7. TalkFits
  BY <1>1, <1>6 DEF TalkFits, DialogFits
<1>8. QED
  BY <1>4, <1>5, <1>7 DEF ConversationInv

\* What a sequence has after an element was appended, or the first taken.
LEMMA FeedGrows ==
  ASSUME ServerTypes, NEW e \in News, feed' = Append(feed, e)
  PROVE  /\ feed' \in Seq(News)
         /\ \E n \in Nat : /\ DOMAIN feed = 1 .. n /\ DOMAIN feed' = 1 .. n + 1
                           /\ feed'[n + 1] = e
         /\ \A k \in DOMAIN feed : feed'[k] = feed[k]
<1>1. feed \in Seq(News)
  BY DEF ServerTypes
<1>2. QED
  BY <1>1, AfterAppend

LEMMA FeedShrinks ==
  ASSUME ServerTypes, feed # <<>>, feed' = Tail(feed)
  PROVE  /\ feed' \in Seq(News)
         /\ \E n \in Nat : DOMAIN feed = 1 .. n + 1 /\ DOMAIN feed' = 1 .. n
         /\ Head(feed) = feed[1]
         /\ \A k \in DOMAIN feed' : feed'[k] = feed[k + 1]
<1>1. feed \in Seq(News)
  BY DEF ServerTypes
<1>2. /\ Tail(feed) \in Seq(News)
      /\ Head(feed) = feed[1]
      /\ DOMAIN feed = 1 .. Len(feed) /\ Len(feed) \in Nat \ {0}
      /\ DOMAIN Tail(feed) = 1 .. Len(feed) - 1
      /\ \A k \in DOMAIN Tail(feed) : Tail(feed)[k] = feed[k + 1]
  BY <1>1, AfterTail
<1>3. Len(feed) - 1 \in Nat /\ Len(feed) = (Len(feed) - 1) + 1
  BY <1>2
<1>4. QED
  BY <1>2, <1>3

\* An event goes to the stream, or the client will never hear of it.
LEMMA PublishTells ==
  ASSUME ServerTypes, NEW e \in News, C!Publish(e), e.type # "ended" => e.id \in DOMAIN requested',
         DOMAIN requested \subseteq DOMAIN requested'
  PROVE  /\ feed' \in Seq(News)
         /\ \A k \in DOMAIN feed' : feed'[k].type # "ended" => feed'[k].id \in DOMAIN requested'
         /\ ~gap' => /\ ~gap /\ feed' = Append(feed, e)
<1>1. CASE feed' = Append(feed, e) /\ UNCHANGED gap
  <2>1. PICK n \in Nat : /\ DOMAIN feed = 1 .. n /\ DOMAIN feed' = 1 .. n + 1
                         /\ feed'[n + 1] = e
    BY <1>1, FeedGrows
  <2>2. feed' \in Seq(News) /\ \A k \in DOMAIN feed : feed'[k] = feed[k]
    BY <1>1, FeedGrows
  <2>3. \A k \in DOMAIN feed' : feed'[k].type # "ended" => feed'[k].id \in DOMAIN requested'
    BY <2>1, <2>2 DEF ServerTypes
  <2>4. QED
    BY <1>1, <2>2, <2>3
<1>2. CASE gap' = TRUE /\ UNCHANGED feed
  BY <1>2 DEF ServerTypes
<1>3. QED
  BY <1>1, <1>2 DEF C!Publish

\* The steps of the server and the stream, as the cache sees them.
Unheard == UNCHANGED <<requested, settled, running, feed, gap, cached>>
Settled ==
  \E i \in C!Open, v \in Verdicts \ {"open"} :
    /\ settled' = [settled EXCEPT ![i] = v]
    /\ C!Publish([type |-> "closed", id |-> i])
    /\ UNCHANGED <<requested, running, cached>>
Terminated ==
  \E s \in running :
    /\ running' = running \ {s}
    /\ C!Publish([type |-> "ended", id |-> s])
    /\ UNCHANGED <<requested, settled, cached>>
Requested ==
  \E what \in Interaction :
    /\ requested' = Append(requested, what)
    /\ settled' = Append(settled, "open")
    /\ C!Publish([type |-> "requested", id |-> Len(requested) + 1])
    /\ UNCHANGED <<running, cached>>

LEMMA SettledKeeps ==
  ASSUME ServerTypes, StreamTells, Settled
  PROVE  ServerTypes' /\ StreamTells'
<1>1. PICK i \in C!Open, v \in Verdicts \ {"open"} :
        /\ settled' = [settled EXCEPT ![i] = v]
        /\ C!Publish([type |-> "closed", id |-> i])
        /\ UNCHANGED <<requested, running, cached>>
  BY DEF Settled
<1> DEFINE e == [type |-> "closed", id |-> i]
<1>2. /\ DOMAIN requested = 1 .. Len(requested) /\ Len(requested) \in Nat
      /\ DOMAIN settled = DOMAIN requested /\ settled \in Seq(Verdicts)
  BY DEF ServerTypes
<1>3. i \in DOMAIN requested /\ settled[i] = "open"
  BY DEF C!Open
<1>4. e \in News
  BY <1>2, <1>3 DEF News
<1>5. /\ feed' \in Seq(News)
      /\ \A k \in DOMAIN feed' : feed'[k].type # "ended" => feed'[k].id \in DOMAIN requested'
      /\ ~gap' => ~gap /\ feed' = Append(feed, e)
  <2> HIDE DEF e
  <2>1. e.id \in DOMAIN requested'
    BY <1>1, <1>3 DEF e
  <2>2. C!Publish(e)
    BY <1>1 DEF e
  <2>3. QED
    BY <1>1, <1>4, <2>1, <2>2, PublishTells
<1>6. /\ settled' \in Seq(Verdicts) /\ Len(settled') = Len(settled)
      /\ settled'[i] # "open"
      /\ \A j \in DOMAIN requested : j # i => settled'[j] = settled[j]
  BY <1>1, <1>2, <1>3
<1>7. ServerTypes'
  BY <1>1, <1>5, <1>6 DEF ServerTypes
<1>8. StreamTells'
  <2>1. SUFFICES ASSUME ~gap', NEW j \in DOMAIN requested
                 PROVE  /\ \A m, k \in DOMAIN feed' :
                             (/\ feed'[m].type = "requested" /\ feed'[m].id = j
                              /\ feed'[k].type = "closed" /\ feed'[k].id = j) => m < k
                        /\ ToTell("closed", j)' => settled'[j] # "open"
                        /\ ToTell("requested", j)' /\ ~ToTell("closed", j)' => settled'[j] = "open"
                        /\ ~ToTell("requested", j)' /\ ~ToTell("closed", j)' =>
                             (j \in cached' <=> settled'[j] = "open")
    BY <1>1 DEF StreamTells
  <2>2. PICK n \in Nat : /\ DOMAIN feed = 1 .. n /\ DOMAIN feed' = 1 .. n + 1
                         /\ feed'[n + 1] = e
    BY <1>4, <1>5, <2>1, FeedGrows
  <2>3. \A k \in DOMAIN feed : feed'[k] = feed[k]
    BY <1>4, <1>5, <2>1, FeedGrows
  <2>4. /\ ToTell("requested", j)' <=> ToTell("requested", j)
        /\ ToTell("closed", j)' <=> ToTell("closed", j) \/ j = i
    BY <2>2, <2>3 DEF ToTell
  <2>5. \A m, k \in DOMAIN feed' :
             (/\ feed'[m].type = "requested" /\ feed'[m].id = j
              /\ feed'[k].type = "closed" /\ feed'[k].id = j) => m < k
    BY <1>5, <2>1, <2>2, <2>3 DEF StreamTells
  <2>6. QED
    BY <1>1, <1>5, <1>6, <2>1, <2>4, <2>5 DEF StreamTells
<1>9. QED
  BY <1>7, <1>8

LEMMA RequestedKeeps ==
  ASSUME ServerTypes, StreamTells, Requested
  PROVE  ServerTypes' /\ StreamTells'
<1>1. PICK what \in Interaction :
        /\ requested' = Append(requested, what)
        /\ settled' = Append(settled, "open")
        /\ C!Publish([type |-> "requested", id |-> Len(requested) + 1])
        /\ UNCHANGED <<running, cached>>
  BY DEF Requested
<1> DEFINE n == Len(requested)
           e == [type |-> "requested", id |-> n + 1]
<1>2. /\ DOMAIN requested = 1 .. n /\ n \in Nat
      /\ DOMAIN settled = 1 .. n /\ Len(settled) = n /\ settled \in Seq(Verdicts)
      /\ requested \in Seq(Interaction)
  BY DEF ServerTypes
<1>3. /\ requested' \in Seq(Interaction) /\ settled' \in Seq(Verdicts)
      /\ DOMAIN requested' = 1 .. n + 1 /\ Len(requested') = n + 1 /\ Len(settled') = n + 1
      /\ settled'[n + 1] = "open" /\ \A j \in 1 .. n : settled'[j] = settled[j]
  <2>1. "open" \in Verdicts
    BY DEF Verdicts
  <2>2. QED
    BY <1>1, <1>2, <2>1
<1>4. e \in News
  BY <1>2 DEF News
<1>5. /\ feed' \in Seq(News)
      /\ \A k \in DOMAIN feed' : feed'[k].type # "ended" => feed'[k].id \in DOMAIN requested'
      /\ ~gap' => ~gap /\ feed' = Append(feed, e)
  <2>1. e.id \in DOMAIN requested' /\ DOMAIN requested \subseteq DOMAIN requested'
    BY <1>2, <1>3
  <2>2. C!Publish(e)
    BY <1>1
  <2> HIDE DEF e
  <2>3. QED
    BY <1>4, <2>1, <2>2, PublishTells
<1>6. ServerTypes'
  BY <1>1, <1>2, <1>3, <1>5 DEF ServerTypes
<1>7. StreamTells'
  <2>1. SUFFICES ASSUME ~gap', NEW j \in 1 .. n + 1
                 PROVE  /\ \A m, k \in DOMAIN feed' :
                             (/\ feed'[m].type = "requested" /\ feed'[m].id = j
                              /\ feed'[k].type = "closed" /\ feed'[k].id = j) => m < k
                        /\ ToTell("closed", j)' => settled'[j] # "open"
                        /\ ToTell("requested", j)' /\ ~ToTell("closed", j)' => settled'[j] = "open"
                        /\ ~ToTell("requested", j)' /\ ~ToTell("closed", j)' =>
                             (j \in cached' <=> settled'[j] = "open")
    BY <1>3 DEF StreamTells
  <2>2. PICK l \in Nat : /\ DOMAIN feed = 1 .. l /\ DOMAIN feed' = 1 .. l + 1
                         /\ feed'[l + 1] = e
    BY <1>4, <1>5, <2>1, FeedGrows
  <2>3. \A k \in DOMAIN feed : feed'[k] = feed[k]
    BY <1>4, <1>5, <2>1, FeedGrows
  <2>4. /\ ToTell("closed", j)' <=> ToTell("closed", j)
        /\ ToTell("requested", j)' <=> ToTell("requested", j) \/ j = n + 1
    BY <2>2, <2>3 DEF ToTell
  <2>5. CASE j = n + 1
    <3>1. \A k \in DOMAIN feed : feed[k].type # "ended" => feed[k].id # j
      BY <1>2, <2>5 DEF ServerTypes
    <3>2. ~ToTell("closed", j)
      BY <3>1 DEF ToTell
    <3>3. \A k \in DOMAIN feed' : ~(feed'[k].type = "closed" /\ feed'[k].id = j)
      BY <2>2, <2>3, <3>1
    <3>4. QED
      BY <1>3, <2>4, <2>5, <3>2, <3>3
  <2>6. CASE j \in 1 .. n
    <3>1. \A m, k \in DOMAIN feed' :
             (/\ feed'[m].type = "requested" /\ feed'[m].id = j
              /\ feed'[k].type = "closed" /\ feed'[k].id = j) => m < k
      BY <1>2, <1>5, <2>1, <2>2, <2>3, <2>6 DEF StreamTells
    <3>2. j # n + 1 /\ j \in DOMAIN requested /\ settled'[j] = settled[j] /\ cached' = cached
      BY <1>1, <1>2, <1>3, <2>6
    <3>3. QED
      BY <1>5, <2>1, <2>4, <3>1, <3>2 DEF StreamTells
  <2>7. QED
    BY <1>2, <2>5, <2>6
<1>8. QED
  BY <1>6, <1>7

LEMMA TerminatedKeeps ==
  ASSUME ServerTypes, StreamTells, Terminated
  PROVE  ServerTypes' /\ StreamTells'
<1>1. PICK s \in running :
        /\ running' = running \ {s}
        /\ C!Publish([type |-> "ended", id |-> s])
        /\ UNCHANGED <<requested, settled, cached>>
  BY DEF Terminated
<1> DEFINE e == [type |-> "ended", id |-> s]
<1>2. e \in News
  BY DEF News, ServerTypes
<1>3. /\ feed' \in Seq(News)
      /\ \A k \in DOMAIN feed' : feed'[k].type # "ended" => feed'[k].id \in DOMAIN requested'
      /\ ~gap' => ~gap /\ feed' = Append(feed, e)
  <2>1. e.type = "ended" /\ DOMAIN requested \subseteq DOMAIN requested'
    BY <1>1
  <2>2. C!Publish(e)
    BY <1>1
  <2> HIDE DEF e
  <2>3. QED
    BY <1>2, <2>1, <2>2, PublishTells
<1>4. ServerTypes'
  BY <1>1, <1>3 DEF ServerTypes
<1>5. StreamTells'
  <2>1. SUFFICES ASSUME ~gap' PROVE StreamTells'
    BY DEF StreamTells
  <2>2. PICK n \in Nat : /\ DOMAIN feed = 1 .. n /\ DOMAIN feed' = 1 .. n + 1
                         /\ feed'[n + 1] = e
    BY <1>2, <1>3, <2>1, FeedGrows
  <2>3. \A k \in DOMAIN feed : feed'[k] = feed[k]
    BY <1>2, <1>3, <2>1, FeedGrows
  <2>4. \A i : /\ ToTell("requested", i)' <=> ToTell("requested", i)
               /\ ToTell("closed", i)' <=> ToTell("closed", i)
    BY <2>2, <2>3 DEF ToTell
  <2>5. \A i \in DOMAIN requested : \A m, k \in DOMAIN feed' :
             (/\ feed'[m].type = "requested" /\ feed'[m].id = i
              /\ feed'[k].type = "closed" /\ feed'[k].id = i) => m < k
    BY <1>3, <2>1, <2>2, <2>3 DEF StreamTells
  <2>6. QED
    BY <1>1, <1>3, <2>1, <2>4, <2>5 DEF StreamTells
<1>6. QED
  BY <1>4, <1>5

LEMMA FollowKeeps ==
  ASSUME ServerTypes, StreamTells, C!Follow
  PROVE  ServerTypes' /\ StreamTells'
<1> DEFINE e == Head(feed)
<1>1. /\ feed # <<>> /\ feed' = Tail(feed)
      /\ UNCHANGED <<requested, settled, running, gap>>
      /\ cached' = IF e.type = "requested" THEN cached \cup {e.id}
                   ELSE IF e.type = "closed" THEN cached \ {e.id} ELSE cached
  BY DEF C!Follow, C!Apply, C!server
<1>2. PICK n \in Nat : DOMAIN feed = 1 .. n + 1 /\ DOMAIN feed' = 1 .. n
  BY <1>1, FeedShrinks
<1>3. feed' \in Seq(News) /\ e = feed[1] /\ \A k \in DOMAIN feed' : feed'[k] = feed[k + 1]
  BY <1>1, FeedShrinks
<1>4. e.type \in {"requested", "closed"} => e.id \in DOMAIN requested
  BY <1>2, <1>3 DEF ServerTypes
<1>5. \A k \in DOMAIN feed' : feed'[k].type # "ended" => feed'[k].id \in DOMAIN requested
  BY <1>2, <1>3 DEF ServerTypes
<1>6. cached' \subseteq DOMAIN requested
  BY <1>1, <1>4 DEF ServerTypes
<1>7. ServerTypes'
  BY <1>1, <1>3, <1>5, <1>6 DEF ServerTypes
<1>8. ASSUME ~gap, NEW i \in DOMAIN requested
      PROVE  /\ \A m, k \in DOMAIN feed' :
                  (/\ feed'[m].type = "requested" /\ feed'[m].id = i
                   /\ feed'[k].type = "closed" /\ feed'[k].id = i) => m < k
             /\ ToTell("closed", i)' => settled[i] # "open"
             /\ ToTell("requested", i)' /\ ~ToTell("closed", i)' => settled[i] = "open"
             /\ ~ToTell("requested", i)' /\ ~ToTell("closed", i)' =>
                  (i \in cached' <=> settled[i] = "open")
  <2>1. /\ ToTell("closed", i) <=> ToTell("closed", i)' \/ (e.type = "closed" /\ e.id = i)
        /\ ToTell("requested", i) <=> ToTell("requested", i)' \/ (e.type = "requested" /\ e.id = i)
    <3>1. \A type : ToTell(type, i) <=> ToTell(type, i)' \/ (e.type = type /\ e.id = i)
      <4>1. \A k \in DOMAIN feed : k = 1 \/ (k - 1 \in DOMAIN feed' /\ feed'[k - 1] = feed[k])
        BY <1>2, <1>3
      <4>2. 1 \in DOMAIN feed /\ \A k \in DOMAIN feed' : k + 1 \in DOMAIN feed
        BY <1>2
      <4>3. QED
        BY <1>3, <4>1, <4>2 DEF ToTell
    <3>2. QED
      BY <3>1
  <2>2. \A m, k \in DOMAIN feed' :
            (/\ feed'[m].type = "requested" /\ feed'[m].id = i
             /\ feed'[k].type = "closed" /\ feed'[k].id = i) => m < k
    <3>1. SUFFICES ASSUME NEW m \in DOMAIN feed', NEW k \in DOMAIN feed',
                          feed'[m].type = "requested", feed'[m].id = i,
                          feed'[k].type = "closed", feed'[k].id = i
                   PROVE  m < k
      OBVIOUS
    <3>2. m + 1 \in DOMAIN feed /\ k + 1 \in DOMAIN feed
      BY <1>2, <3>1
    <3>3. m + 1 < k + 1
      BY <1>3, <1>8, <3>1, <3>2 DEF StreamTells
    <3>4. QED
      BY <1>2, <3>1, <3>3
  <2>3. e.type = "closed" /\ e.id = i => ~ToTell("requested", i)'
    <3>1. ASSUME e.type = "closed", e.id = i, NEW m \in DOMAIN feed',
                 feed'[m].type = "requested", feed'[m].id = i
          PROVE  FALSE
      <4>1. m + 1 \in DOMAIN feed /\ 1 \in DOMAIN feed
        BY <1>2, <3>1
      <4>2. m + 1 < 1
        BY <1>3, <1>8, <3>1, <4>1 DEF StreamTells
      <4>3. QED
        BY <1>2, <3>1, <4>2
    <3>2. QED
      BY <3>1 DEF ToTell
  <2>4. QED
    BY <1>1, <1>8, <2>1, <2>2, <2>3 DEF StreamTells
<1>9. StreamTells'
  BY <1>1, <1>8 DEF StreamTells
<1>10. QED
  BY <1>7, <1>9

LEMMA DisconnectKeeps ==
  ASSUME ServerTypes, StreamTells, C!Disconnect
  PROVE  ServerTypes' /\ StreamTells'
<1>1. /\ UNCHANGED <<requested, settled, running, cached>>
      /\ UNCHANGED <<feed, gap>> \/ (feed' = <<>> /\ gap' = TRUE)
  BY DEF C!Disconnect, C!server, C!cache
<1>2. CASE UNCHANGED <<feed, gap>>
  BY <1>1, <1>2 DEF ServerTypes, StreamTells, ToTell
<1>3. CASE feed' = <<>> /\ gap' = TRUE
  <2>1. <<>> \in Seq(News)
    OBVIOUS
  <2>2. QED
    BY <1>1, <1>3, <2>1 DEF ServerTypes, StreamTells
<1>4. QED
  BY <1>1, <1>2, <1>3

LEMMA UnheardKeeps ==
  ASSUME ServerTypes, StreamTells, Unheard
  PROVE  ServerTypes' /\ StreamTells'
BY DEF Unheard, ServerTypes, StreamTells, ToTell

-----------------------------------------------------------------------------
(* What the handlers leave *)

\* A handler leaves a record of the conversation's variables, in which one list
\* was read out and the dialog is one of the four.
Fits(h) ==
  /\ h = [dialog |-> h.dialog, list |-> h.list, about |-> h.about, reads |-> h.reads,
          call |-> h.call, declined |-> h.declined]
  /\ h.reads = h.list /\ IsReadout(h.list)
  /\ h.about \in {0} \cup DOMAIN requested
  /\ DialogFits(h.dialog)

\* It calls for nothing that needs a warrant, or for one verdict.
Harmless(h) == Fits(h) /\ h.call.do \in {"none", "stop"}
Gives(h, i, verdict) ==
  Fits(h) /\ h.call = [do |-> "answer", id |-> i, verdict |-> verdict]

LEMMA StandingFits == ASSUME TalkFits PROVE Harmless(C!Standing)
<1>1. C!Standing = [dialog |-> dialog, list |-> lastPending, about |-> announced,
                    reads |-> readout, call |-> [do |-> "none"], declined |-> FALSE]
  BY DEF C!Standing, C!NoCall
<1>2. /\ readout = lastPending /\ IsReadout(lastPending) /\ DialogFits(dialog)
      /\ announced \in {0} \cup DOMAIN requested
  BY DEF TalkFits
<1> HIDE DEF IsReadout, DialogFits
<1>3. QED
  BY <1>1, <1>2 DEF Harmless, Fits

LEMMA ClosedFits ==
  ASSUME NEW h, Harmless(h)
  PROVE  /\ Harmless(C!Closed(h)) /\ C!Closed(h).dialog = C!NoDialog
         /\ Harmless(C!Declined(h))
         /\ C!Closed(h).declined = h.declined
<1>1. /\ C!Closed(h) = [h EXCEPT !.dialog = C!NoDialog]
      /\ C!Declined(h) = [C!Closed(h) EXCEPT !.declined = TRUE]
  BY DEF C!Closed, C!Declined
<1>2. DialogFits(C!NoDialog)
  BY DEF DialogFits
<1>3. QED
  BY <1>1, <1>2 DEF Harmless, Fits

\* A list of interactions in their order is one to read out: each of its
\* positions has one of them.
LEMMA SortedIsReadout ==
  ASSUME NEW S, IsFiniteSet(S), S \subseteq DOMAIN requested, ServerTypes
  PROVE  IsReadout(C!Sorted(S))
<1>1. PICK n \in Nat : n = Cardinality(S)
  BY FS_CardinalityType
<1>2. PICK s : s = C!Sorted(S)
  OBVIOUS
<1>3. s = [k \in 1 .. n |-> CHOOSE i \in S : Cardinality({j \in S : j <= i}) = k]
  <2>1. C!Sorted(S) = [k \in 1 .. Cardinality(S) |->
                         CHOOSE i \in S : Cardinality({j \in S : j <= i}) = k]
    BY DEF C!Sorted, C!Cardinality, Cardinality
  <2>2. QED
    BY <1>1, <1>2, <2>1
<1>4. ASSUME NEW k \in 1 .. n PROVE s[k] \in S
  <2>1. S \in SUBSET Nat
    BY DEF ServerTypes
  <2>2. \E i \in S : Cardinality({j \in S : j <= i}) = k
    BY <1>1, <2>1, RankIsTaken
  <2>3. QED
    BY <1>3, <2>2
<1>5. s \in [1 .. n -> S]
  BY <1>3, <1>4
<1>6. s \in Seq(S) /\ Len(s) = n /\ DOMAIN s = 1 .. n
  BY <1>5
<1>7. C!Range(s) \subseteq S
  BY <1>4, <1>6 DEF C!Range
<1>8. QED
  BY <1>2, <1>6, <1>7 DEF IsReadout

LEMMA CachedIsFinite ==
  ASSUME ServerTypes
  PROVE  \A S \in SUBSET cached : IsFiniteSet(S)
<1>1. cached \subseteq 1 .. Len(requested) /\ Len(requested) \in Nat
  BY DEF ServerTypes
<1>2. IsFiniteSet(1 .. Len(requested))
  BY <1>1, FS_Interval
<1>3. QED
  BY <1>1, <1>2, FS_Subset

LEMMA ReadPendingFits ==
  ASSUME ServerTypes, NEW h, Harmless(h)
  PROVE  Harmless(C!ReadPending(h))
<1>1. IsReadout(C!Sorted(cached))
  <2>1. IsFiniteSet(cached) /\ cached \subseteq DOMAIN requested
    BY CachedIsFinite DEF ServerTypes
  <2>2. QED
    BY <2>1, SortedIsReadout
<1>2. PICK s : s = C!Sorted(cached)
  OBVIOUS
<1>3. C!ReadPending(h) = [h EXCEPT !.list = s, !.reads = s]
  BY <1>2 DEF C!ReadPending
<1> HIDE DEF IsReadout, DialogFits
<1>4. QED
  BY <1>1, <1>2, <1>3 DEF Harmless, Fits

LEMMA DialogOpens ==
  ASSUME NEW h, Harmless(h), NEW d, DialogFits(d)
  PROVE  Harmless([h EXCEPT !.dialog = d])
<1> HIDE DEF IsReadout, DialogFits
<1>1. QED
  BY DEF Harmless, Fits

LEMMA ChooseFits ==
  ASSUME NEW h, Harmless(h), NEW action, NEW candidates, NEW project, NEW task,
         NEW o \in C!Choose(h, action, candidates, project, task)
  PROVE  Harmless(o)
<1> DEFINE d == [kind |-> "choose", action |-> action, candidates |-> candidates,
                 project |-> project, task |-> task, again |-> FALSE]
<1>1. o = [h EXCEPT !.dialog = d]
  BY DEF C!Choose, C!Reply
<1>2. DialogFits(d)
  BY DEF DialogFits
<1> HIDE DEF d
<1>3. QED
  BY <1>1, <1>2, DialogOpens

LEMMA AskWhichFits ==
  ASSUME NEW h, Harmless(h), NEW matches, IsReadout(matches), NEW action,
         NEW o \in C!AskWhichInteraction(h, matches, action)
  PROVE  Harmless(o)
<1> DEFINE r == [h EXCEPT !.list = matches, !.reads = matches]
<1>1. Harmless(r)
  <2>1. h = [dialog |-> h.dialog, list |-> h.list, about |-> h.about, reads |-> h.reads,
             call |-> h.call, declined |-> h.declined]
    BY DEF Harmless, Fits
  <2>2. PICK listed : listed = [h EXCEPT !.list = matches]
    OBVIOUS
  <2>3. r = [listed EXCEPT !.reads = matches]
    BY <2>2, Zenon
  <2> HIDE DEF r, IsReadout, DialogFits
  <2>4. r = [dialog |-> h.dialog, list |-> matches, about |-> h.about, reads |-> matches,
             call |-> h.call, declined |-> h.declined]
    BY <2>1, <2>2, <2>3
  <2>5. QED
    BY <2>4 DEF Harmless, Fits
<1>2. o \in C!Choose(r, action, matches, "", FALSE)
  BY DEF C!AskWhichInteraction, C!ChooseOnly
<1> HIDE DEF r
<1>3. QED
  BY <1>1, <1>2, ChooseFits

LEMMA UndecidedFits ==
  ASSUME ServerTypes, NEW h, Harmless(h), NEW u, NEW action,
         NEW o \in C!Undecided(h, u, action)
  PROVE  Harmless(o)
<1>1. C!Meant(u) \subseteq cached
  BY DEF C!Meant, C!MatchInteractions
<1>2. IsReadout(C!Sorted(C!Meant(u)))
  <2>1. IsFiniteSet(C!Meant(u)) /\ C!Meant(u) \subseteq DOMAIN requested
    BY <1>1, CachedIsFinite DEF ServerTypes
  <2>2. QED
    BY <2>1, SortedIsReadout
<1>3. \/ o = h
      \/ o = C!ReadPending(h)
      \/ o \in C!AskWhichInteraction(h, C!Sorted(C!Meant(u)), action)
  BY DEF C!Undecided, C!Reply
<1>4. QED
  BY <1>2, <1>3, ReadPendingFits, AskWhichFits

LEMMA AnswerGives ==
  ASSUME NEW h, Harmless(h), NEW i, NEW verdict, NEW o \in C!Answer(h, i, verdict)
  PROVE  Gives(o, i, verdict)
<1>1. o = [h EXCEPT !.call = [do |-> "answer", id |-> i, verdict |-> verdict]]
  BY DEF C!Answer, C!Reply
<1> HIDE DEF IsReadout, DialogFits
<1>2. QED
  BY <1>1 DEF Harmless, Gives, Fits

LEMMA ResolveGives ==
  ASSUME ServerTypes, NEW h, Harmless(h), NEW u, NEW verdict, NEW o \in C!Resolve(h, u, verdict)
  PROVE  Harmless(o) \/ \E i \in C!Meant(u) : Gives(o, i, verdict)
<1>1. CASE o \in C!Undecided(h, u, verdict)
  BY <1>1, UndecidedFits
<1>2. CASE \E i \in C!Meant(u) : o \in C!Answer(h, i, verdict)
  BY <1>2, AnswerGives
<1>3. QED
  BY <1>1, <1>2 DEF C!Resolve

LEMMA RespondToGives ==
  ASSUME NEW h, Harmless(h), NEW i, NEW o \in C!RespondTo(h, i)
  PROVE  Harmless(o) \/ Gives(o, i, "text")
<1>1. o = h \/ o \in C!Answer(h, i, "text")
  BY DEF C!RespondTo, C!Reply
<1>2. QED
  BY <1>1, AnswerGives

LEMMA RespondGives ==
  ASSUME ServerTypes, NEW h, Harmless(h), NEW u, NEW o \in C!Respond(h, u)
  PROVE  Harmless(o) \/ \E i : Gives(o, i, "text")
<1>1. CASE o \in C!Undecided(h, u, "respond")
  BY <1>1, UndecidedFits
<1>2. CASE \E i \in C!Meant(u) : o \in C!RespondTo(h, i)
  BY <1>2, RespondToGives
<1>3. QED
  BY <1>1, <1>2 DEF C!Respond

LEMMA StopCallFits ==
  ASSUME NEW h, Harmless(h), NEW s, NEW o \in C!StopCall(h, s)
  PROVE  Harmless(o)
<1>1. o = [h EXCEPT !.call = [do |-> "stop", session |-> s]]
  BY DEF C!StopCall, C!Reply
<1> HIDE DEF IsReadout, DialogFits
<1>2. QED
  BY <1>1 DEF Harmless, Fits

LEMMA StopFits ==
  ASSUME NEW h, Harmless(h), NEW u, NEW o \in C!Stop(h, u)
  PROVE  Harmless(o)
<1> DEFINE matches == IF u.names = {} THEN live ELSE live \cap u.names
<1>1. \/ o = h
      \/ \E s \in matches : o \in C!StopCall(h, s)
      \/ o \in C!Choose(h, "stop", C!Ordered(matches), "", FALSE)
  BY DEF C!Stop, C!Reply, C!ChooseOnly
<1>2. QED
  BY <1>1, StopCallFits, ChooseFits

LEMMA LaunchKnownFits ==
  ASSUME NEW h, Harmless(h), NEW project, NEW task, NEW o \in C!LaunchProjectKnown(h, project, task)
  PROVE  Harmless(o)
<1>1. \/ o = h
      \/ o = [h EXCEPT !.dialog = [kind |-> "prompt", project |-> project]]
      \/ o = [h EXCEPT !.dialog = [kind |-> "confirm", adapter |-> Adapters[1], project |-> project]]
      \/ o \in C!Choose(h, "adapter", Adapters, project, TRUE)
  BY DEF C!LaunchProjectKnown, C!Reply, C!ConfirmLaunch
<1>2. /\ DialogFits([kind |-> "prompt", project |-> project])
      /\ DialogFits([kind |-> "confirm", adapter |-> Adapters[1], project |-> project])
  BY DEF DialogFits
<1>3. QED
  BY <1>1, <1>2, DialogOpens, ChooseFits

LEMMA OneProjectFits ==
  ASSUME NEW h, Harmless(h), NEW matches, NEW task, NEW o \in C!OneProject(h, matches, task)
  PROVE  Harmless(o)
<1>1. \/ \E p \in matches : o \in C!LaunchProjectKnown(h, p, task)
      \/ o \in C!Choose(h, "project", C!Ordered(matches), "", task)
  BY DEF C!OneProject
<1>2. QED
  BY <1>1, LaunchKnownFits, ChooseFits

LEMMA LaunchFits ==
  ASSUME NEW h, Harmless(h), NEW u, NEW o \in C!Launch(h, u)
  PROVE  Harmless(o)
<1>1. \/ o = [h EXCEPT !.dialog = [kind |-> "project", task |-> u.task, again |-> FALSE]]
      \/ o \in C!OneProject(h, u.names, u.task)
  BY DEF C!Launch, C!Reply
<1>2. DialogFits([kind |-> "project", task |-> u.task, again |-> FALSE])
  BY DEF DialogFits
<1>3. QED
  BY <1>1, <1>2, DialogOpens, OneProjectFits

LEMMA AskAgainFits ==
  ASSUME NEW h, Harmless(h), h.dialog # C!NoDialog, NEW o \in C!AskAgain(h)
  PROVE  Harmless(o)
<1>1. o = C!Closed(h) \/ o = [h EXCEPT !.dialog.again = TRUE]
  BY DEF C!AskAgain, C!Reply
<1>2. CASE o = [h EXCEPT !.dialog.again = TRUE]
  <2> DEFINE d == [h.dialog EXCEPT !.again = TRUE]
  <2>1. o = [h EXCEPT !.dialog = d]
    BY <1>2
  <2>2. DialogFits(d)
    BY DEF DialogFits, Harmless, Fits
  <2> HIDE DEF d
  <2>3. QED
    BY <2>1, <2>2, DialogOpens
<1>3. QED
  BY <1>1, <1>2, ClosedFits

-----------------------------------------------------------------------------
(* What warrants a call *)

\* A verdict was told by its verb, of the interaction its position has in the
\* list that was read out, or chosen from those a dialog offers.
Told(i, verdict) ==
  \/ /\ turn = "handle" /\ said.verb = IF verdict = "allow" THEN "approve" ELSE "deny"
     /\ said.at > 0 /\ readout # <<>> => said.at \in DOMAIN readout /\ i = readout[said.at]
  \/ /\ turn = "resume" /\ dialog.kind = "choose" /\ i \in C!Range(dialog.candidates)
     /\ IF verdict = "allow" THEN "deny" \notin said.words ELSE "approve" \notin said.words

HumanVerdicts == {"allow", "deny", "text"}
GivesTold(h) ==
  \E i : \E verdict \in HumanVerdicts : Gives(h, i, verdict) /\ (verdict # "text" => Told(i, verdict))

\* A launch is what the confirmation named, on a yes, and ends the dialog.
Confirmed(h) ==
  /\ Fits(h)
  /\ turn = "resume" /\ said.sense = "yes" /\ dialog.kind = "confirm"
  /\ h.dialog = C!NoDialog /\ ~h.declined
  /\ h.call = [do |-> "launch", adapter |-> dialog.adapter, project |-> dialog.project]

Warranted(h) == Harmless(h) \/ GivesTold(h) \/ Confirmed(h)

LEMMA ResolveIsTold ==
  ASSUME ServerTypes, TalkFits, turn = "handle",
         NEW verdict \in {"allow", "deny"},
         said.verb = IF verdict = "allow" THEN "approve" ELSE "deny",
         NEW o \in C!Resolve(C!Standing, said, verdict)
  PROVE  Warranted(o)
<1>1. CASE Harmless(o)
  BY <1>1 DEF Warranted
<1>2. ASSUME NEW i \in C!Meant(said), Gives(o, i, verdict)
      PROVE  Warranted(o)
  <2>1. /\ said.at \in Nat /\ readout = lastPending
        /\ DOMAIN readout = 1 .. Len(readout) /\ Len(readout) \in Nat
    BY DEF TalkFits, Utterance, IsReadout
  <2>2. ASSUME said.at > 0, readout # <<>>
        PROVE  said.at \in DOMAIN readout /\ i = readout[said.at]
    <3>1. i \in C!MatchInteractions(said)
      BY <1>2, <2>1, <2>2 DEF C!Meant, C!NoTarget
    <3>2. said.at <= Len(readout) /\ readout[said.at] = i
      BY <2>1, <2>2, <3>1 DEF C!MatchInteractions
    <3>3. QED
      BY <2>1, <2>2, <3>2
  <2>3. Told(i, verdict)
    BY <2>2 DEF Told
  <2>4. QED
    BY <1>2, <2>3 DEF Warranted, GivesTold, HumanVerdicts
<1>3. QED
  BY <1>1, <1>2, StandingFits, ResolveGives

LEMMA TextIsWarranted ==
  ASSUME NEW h, NEW i, Gives(h, i, "text")
  PROVE  Warranted(h)
BY DEF Warranted, GivesTold, HumanVerdicts

LEMMA DispatchIsWarranted ==
  ASSUME ServerTypes, TalkFits, turn = "handle", NEW o \in C!Dispatch(said)
  PROVE  Warranted(o)
<1> DEFINE s == C!Standing
<1>1. Harmless(s)
  BY StandingFits
<1> HIDE DEF s
<1>2. \/ o \in C!Reply(C!ReadPending(s))
      \/ said.verb = "approve" /\ o \in C!Resolve(s, said, "allow")
      \/ said.verb = "deny" /\ o \in C!Resolve(s, said, "deny")
      \/ o \in C!Respond(s, said)
      \/ o \in C!Stop(s, said)
      \/ o \in C!Launch(s, said)
      \/ o \in C!Reply(C!Closed(s))
      \/ o \in C!Unmatched(s, said)
      \/ o \in C!Reply(s)
  BY DEF C!Dispatch, s
<1>3. CASE o \in C!Reply(C!ReadPending(s)) \/ o \in C!Reply(C!Closed(s)) \/ o \in C!Reply(s)
  BY <1>1, <1>3, ReadPendingFits, ClosedFits DEF C!Reply, Warranted
<1>4. CASE said.verb = "approve" /\ o \in C!Resolve(s, said, "allow")
  BY <1>4, ResolveIsTold DEF s
<1>5. CASE said.verb = "deny" /\ o \in C!Resolve(s, said, "deny")
  BY <1>5, ResolveIsTold DEF s
<1>6. CASE o \in C!Respond(s, said)
  BY <1>1, <1>6, RespondGives, TextIsWarranted DEF Warranted
<1>7. CASE o \in C!Stop(s, said) \/ o \in C!Launch(s, said)
  BY <1>1, <1>7, StopFits, LaunchFits DEF Warranted
<1>8. CASE o \in C!Unmatched(s, said)
  <2> DEFINE r == [s EXCEPT !.about = 0]
  <2>1. Harmless(r)
    <3> HIDE DEF IsReadout, DialogFits
    <3>1. QED
      BY <1>1 DEF Harmless, Fits
  <2>2. o = r \/ o = s \/ o \in C!Answer(r, announced, "text")
    BY <1>8 DEF C!Unmatched, C!Reply
  <2> HIDE DEF r
  <2>3. QED
    BY <1>1, <2>1, <2>2, AnswerGives, TextIsWarranted DEF Warranted
<1>9. QED
  BY <1>2, <1>3, <1>4, <1>5, <1>6, <1>7, <1>8

LEMMA ResumeIsWarranted ==
  ASSUME TalkFits, turn = "resume", NEW o \in C!Resume(said)
  PROVE  Warranted(o)
<1> DEFINE s == C!Standing
<1>1. Harmless(s) /\ s.dialog = dialog /\ ~s.declined
  BY StandingFits DEF C!Standing
<1>2. /\ Harmless(C!Closed(s)) /\ C!Closed(s).dialog = C!NoDialog /\ ~C!Closed(s).declined
      /\ Harmless(C!Declined(s))
  BY <1>1, ClosedFits
<1> HIDE DEF s
<1>3. dialog.kind \in {"confirm", "project", "prompt", "choose"} /\ dialog # C!NoDialog
  BY DEF TalkFits, DialogFits
<1>4. \/ o = C!Closed(s)
      \/ dialog.kind = "confirm" /\ o \in C!ResumeConfirm(s, said)
      \/ o \in C!ResumeProject(s, said)
      \/ o \in C!LaunchProjectKnown(C!Closed(s), dialog.project, TRUE)
      \/ dialog.kind = "choose" /\ o \in C!ResumeChoose(s, said)
  BY <1>3 DEF C!Resume, C!Reply, s
<1>5. CASE o = C!Closed(s) \/ o \in C!LaunchProjectKnown(C!Closed(s), dialog.project, TRUE)
  BY <1>2, <1>5, LaunchKnownFits DEF Warranted
<1>6. CASE dialog.kind = "confirm" /\ o \in C!ResumeConfirm(s, said)
  <2>1. CASE said.sense # "yes"
    <3>1. o = C!Closed(s) \/ o = C!Declined(s)
      BY <1>6, <2>1 DEF C!ResumeConfirm, C!Reply
    <3>2. QED
      BY <1>2, <3>1 DEF Warranted
  <2>2. CASE said.sense = "yes"
    <3> DEFINE c == C!Closed(s)
               launch == [do |-> "launch", adapter |-> dialog.adapter,
                          project |-> dialog.project]
    <3>1. Harmless(c) /\ c.dialog = C!NoDialog /\ ~c.declined
      BY <1>2
    <3>2. o = [c EXCEPT !.call = launch]
      BY <1>6, <2>2 DEF C!ResumeConfirm, C!Reply
    <3> HIDE DEF c, launch, IsReadout, DialogFits
    <3>3. Fits(o) /\ o.dialog = C!NoDialog /\ ~o.declined /\ o.call = launch
      BY <3>1, <3>2 DEF Harmless, Fits
    <3>4. QED
      BY <1>6, <2>2, <3>3 DEF Warranted, Confirmed, launch
  <2>3. QED
    BY <2>1, <2>2
<1>7. CASE o \in C!ResumeProject(s, said)
  <2>1. o \in C!AskAgain(s) \/ o \in C!OneProject(C!Closed(s), said.names, dialog.task)
    BY <1>7 DEF C!ResumeProject
  <2>2. QED
    BY <1>1, <1>2, <1>3, <2>1, AskAgainFits, OneProjectFits DEF Warranted
<1>8. CASE dialog.kind = "choose" /\ o \in C!ResumeChoose(s, said)
  <2>1. CASE o = C!Declined(s) \/ o \in C!AskAgain(s)
    BY <1>1, <1>2, <1>3, <2>1, AskAgainFits DEF Warranted
  <2>2. ASSUME ~C!Contradicts(dialog.action, said),
               NEW c \in C!PickCandidate(dialog, said),
               o \in C!ExecuteChoice(C!Closed(s), dialog, c)
        PROVE  Warranted(o)
    <3>1. c \in C!Range(dialog.candidates)
      BY DEF C!PickCandidate, C!Range
    <3>2. \/ dialog.action \in {"allow", "deny"} /\ o \in C!Answer(C!Closed(s), c, dialog.action)
          \/ o \in C!RespondTo(C!Closed(s), c)
          \/ o = C!Closed(s)
          \/ o \in C!StopCall(C!Closed(s), c)
          \/ o \in C!LaunchProjectKnown(C!Closed(s), c, dialog.task)
          \/ o \in C!ConfirmLaunch(C!Closed(s), c, dialog.project)
      BY <2>2 DEF C!ExecuteChoice, C!Reply
    <3>3. CASE dialog.action \in {"allow", "deny"} /\ o \in C!Answer(C!Closed(s), c, dialog.action)
      <4>1. Told(c, dialog.action)
        BY <1>8, <2>2, <3>1, <3>3 DEF Told, C!Contradicts
      <4>2. Gives(o, c, dialog.action)
        BY <1>2, <3>3, AnswerGives
      <4>3. QED
        BY <3>3, <4>1, <4>2 DEF Warranted, GivesTold, HumanVerdicts
    <3>4. CASE o \in C!RespondTo(C!Closed(s), c)
      BY <1>2, <3>4, RespondToGives, TextIsWarranted DEF Warranted
    <3>5. CASE o \in C!ConfirmLaunch(C!Closed(s), c, dialog.project)
      <4> DEFINE d == [kind |-> "confirm", adapter |-> c, project |-> dialog.project]
      <4>1. o = [C!Closed(s) EXCEPT !.dialog = d]
        BY <3>5 DEF C!ConfirmLaunch, C!Reply
      <4>2. DialogFits(d)
        BY DEF DialogFits
      <4> HIDE DEF d
      <4>3. QED
        BY <1>2, <4>1, <4>2, DialogOpens DEF Warranted
    <3>6. CASE \/ o = C!Closed(s) \/ o \in C!StopCall(C!Closed(s), c)
               \/ o \in C!LaunchProjectKnown(C!Closed(s), c, dialog.task)
      BY <1>2, <3>6, StopCallFits, LaunchKnownFits DEF Warranted
    <3>7. QED
      BY <3>2, <3>3, <3>4, <3>5, <3>6
  <2>3. QED
    BY <1>8, <2>1, <2>2 DEF C!ResumeChoose, C!Reply
<1>9. QED
  BY <1>4, <1>5, <1>6, <1>7, <1>8

-----------------------------------------------------------------------------
(* The steps of the conversation *)

\* What a step may do to verdicts and launches.
Tells == C!VerdictsAreTold /\ C!LaunchesAreConfirmed

LEMMA SilentTells ==
  ASSUME UNCHANGED <<settled, launched>>
  PROVE  Tells
BY DEF Tells, C!VerdictsAreTold, C!LaunchesAreConfirmed, C!Open

\* A warranted call changes what the server holds in one of three ways, and is
\* what was told.
LEMMA CallTells ==
  ASSUME ServerTypes, NEW h, Warranted(h), ~h.declined, dialog' = h.dialog, C!Call(h.call),
         UNCHANGED cached
  PROVE  (Settled \/ Terminated \/ Unheard) /\ Tells
<1>1. CASE UNCHANGED <<C!server, feed, gap>>
  BY <1>1, SilentTells DEF Unheard, C!server
<1>2. CASE h.call.do = "stop" /\ C!TerminateSession(h.call.session)
  <2>1. UNCHANGED <<settled, launched>>
    BY <1>2 DEF C!TerminateSession
  <2>2. Terminated
    BY <1>2 DEF C!TerminateSession, Terminated
  <2>3. QED
    BY <2>1, <2>2, SilentTells
<1>3. CASE h.call.do = "launch" /\ C!LaunchSession(h.call.adapter, h.call.project)
  <2>1. Confirmed(h)
    <3>1. ~Harmless(h)
      BY <1>3 DEF Harmless
    <3>2. \A i, verdict : ~Gives(h, i, verdict)
      BY <1>3 DEF Gives
    <3>3. QED
      BY <3>1, <3>2 DEF Warranted, GivesTold
  <2>2. h.call.adapter = dialog.adapter /\ h.call.project = dialog.project
    BY <2>1 DEF Confirmed
  <2>3. /\ launched' = Append(launched, [adapter |-> dialog.adapter, project |-> dialog.project])
        /\ UNCHANGED <<requested, settled, running, feed, gap>>
    BY <1>3, <2>2 DEF C!LaunchSession
  <2>4. Tells
    BY <2>1, <2>3 DEF Tells, C!VerdictsAreTold, C!LaunchesAreConfirmed, C!Open, Confirmed
  <2>5. QED
    BY <2>3, <2>4 DEF Unheard
<1>4. CASE h.call.do = "answer" /\ C!AnswerInteraction(h.call.id, h.call.verdict)
  <2>1. PICK i : \E verdict \in HumanVerdicts :
          h.call = [do |-> "answer", id |-> i, verdict |-> verdict]
          /\ (verdict # "text" => Told(i, verdict))
    <3>1. ~Harmless(h)
      BY <1>4 DEF Harmless
    <3>2. ~Confirmed(h)
      BY <1>4 DEF Confirmed
    <3>3. QED
      BY <3>1, <3>2 DEF Warranted, GivesTold, Gives
  <2>2. PICK verdict \in HumanVerdicts :
          h.call = [do |-> "answer", id |-> i, verdict |-> verdict]
          /\ (verdict # "text" => Told(i, verdict))
    BY <2>1
  <2>3. h.call.id = i /\ h.call.verdict = verdict
    BY <2>2
  <2>4. /\ i \in C!Open
        /\ settled' = [settled EXCEPT ![i] = verdict]
        /\ C!Publish([type |-> "closed", id |-> i])
        /\ UNCHANGED <<requested, running, launched>>
    BY <1>4, <2>3 DEF C!AnswerInteraction
  <2>5. Settled
    BY <2>4 DEF Settled, Verdicts, HumanVerdicts
  <2>6. \A j \in C!Open : settled'[j] \in {"allow", "deny"} => j = i /\ settled'[j] = verdict
    <3>1. DOMAIN requested = DOMAIN settled
      BY DEF ServerTypes
    <3>2. QED
      BY <2>4, <3>1 DEF C!Open
  <2>7. Tells
    BY <2>2, <2>4, <2>6 DEF Tells, Told, C!VerdictsAreTold, C!LaunchesAreConfirmed
  <2>8. QED
    BY <2>5, <2>7
<1>5. QED
  BY <1>1, <1>2, <1>3, <1>4 DEF C!Call

LEMMA HeardKeeps ==
  ASSUME ServerTypes, StreamTells, Settled \/ Terminated \/ Requested \/ Unheard
  PROVE  ServerTypes' /\ StreamTells'
BY SettledKeeps, TerminatedKeeps, RequestedKeeps, UnheardKeeps

LEMMA SettleKeeps ==
  ASSUME ConversationInv, turn \in {"resume", "handle"}, NEW outcomes,
         \A h \in outcomes : Warranted(h), C!Settle(outcomes)
  PROVE  ConversationInv' /\ Tells
<1>1. PICK h \in outcomes :
        /\ dialog' = h.dialog /\ lastPending' = h.list /\ readout' = h.reads
        /\ announced' = h.about
        /\ IF h.declined THEN turn' = "route" /\ UNCHANGED <<said, C!server, feed, gap>>
           ELSE turn' = "none" /\ said' = C!Silence /\ C!Call(h.call)
        /\ UNCHANGED <<link, cursor, drops, C!cache>>
  BY DEF C!Settle
<1>2. Warranted(h) /\ ServerTypes /\ StreamTells /\ TalkFits
  BY <1>1 DEF ConversationInv
<1>3. (Settled \/ Terminated \/ Unheard) /\ Tells
  <2>1. UNCHANGED cached
    BY <1>1 DEF C!cache
  <2>2. CASE h.declined
    BY <1>1, <2>1, <2>2, SilentTells DEF Unheard, C!server
  <2>3. CASE ~h.declined
    BY <1>1, <1>2, <2>1, <2>3, CallTells
  <2>4. QED
    BY <2>2, <2>3
<1>4. /\ h.reads = h.list /\ IsReadout(h.list) /\ DialogFits(h.dialog)
      /\ h.about \in {0} \cup DOMAIN requested
  BY <1>2 DEF Warranted, Harmless, GivesTold, Gives, Confirmed, Fits
<1>5. turn' \in {"none", "route"} /\ (turn' = "route" => said' = said)
  BY <1>1
<1>6. said \in Utterance
  BY <1>2 DEF TalkFits
<1>7. TalkFits'
  <2>1. UNCHANGED requested
    BY <1>3 DEF Settled, Terminated, Unheard
  <2>2. IsReadout(lastPending)'
    BY <1>1, <1>4, <2>1 DEF IsReadout
  <2>3. DialogFits(dialog)' /\ (announced \in {0} \cup DOMAIN requested)'
    BY <1>1, <1>4, <2>1 DEF DialogFits
  <2>4. QED
    BY <1>1, <1>4, <1>5, <1>6, <2>2, <2>3 DEF TalkFits
<1>8. QED
  BY <1>2, <1>3, <1>7, HeardKeeps DEF ConversationInv

LEMMA RoutedIsUtterance ==
  ASSUME NEW u \in Utterance, NEW r \in C!Routed(u)
  PROVE  r \in Utterance
<1>1. CASE r = u
  BY <1>1
<1>2. ASSUME NEW verb \in Allowed, NEW n \in {{}} \cup {{s} : s \in Sessions},
             r = C!Named(u, verb, n)
      PROVE  r \in Utterance
  <2>1. verb \in STRING /\ n \in SUBSET Sessions
    BY BoundsOfTalk
  <2>2. PICK spoken : spoken = [u EXCEPT !.verb = verb]
    OBVIOUS
  <2>3. r = [spoken EXCEPT !.names = n]
    BY <1>2, <2>2, Zenon DEF C!Named
  <2>4. spoken \in Utterance
    BY <2>1, <2>2 DEF Utterance
  <2>5. QED
    BY <2>1, <2>3, <2>4 DEF Utterance
<1>3. \/ r = u
      \/ \E verb \in Allowed, n \in {{}} \cup {{s} : s \in Sessions} :
           r = C!Named(u, verb, n)
  BY DEF C!Routed
<1>4. QED
  BY <1>1, <1>2, <1>3, Zenon

\* The talk is as it was.
LEMMA TalkStands ==
  ASSUME TalkFits, DOMAIN requested \subseteq DOMAIN requested',
         UNCHANGED <<lastPending, readout, dialog, turn, said>>,
         announced' = announced \/ announced' \in DOMAIN requested
  PROVE  TalkFits'
<1>1. IsReadout(lastPending)'
  BY DEF TalkFits, IsReadout, C!Range
<1>2. QED
  BY <1>1 DEF TalkFits, DialogFits

LEMMA ConversationNext ==
  ASSUME ConversationInv, C!Next
  PROVE  ConversationInv' /\ Tells
<1>1. ServerTypes /\ StreamTells /\ TalkFits
  BY DEF ConversationInv
<1>2. CASE Len(requested) < Len(Requests) /\ C!Ask(Requests[Len(requested) + 1])
  <2> DEFINE n == Len(requested) + 1
             r == Requests[n]
  <2>1. r \in Interaction
    <3>1. Len(requested) \in Nat
      BY <1>1 DEF ServerTypes
    <3>2. n \in 1 .. Len(Requests)
      BY <1>2, <3>1, BoundsOfTalk
    <3> HIDE DEF n
    <3>3. QED
      BY <3>2, BoundsOfTalk, ElementOfSeq
  <2>2. /\ requested' = Append(requested, r)
        /\ settled' = Append(settled, "open")
        /\ C!Publish([type |-> "requested", id |-> n])
        /\ UNCHANGED <<running, launched, cached>>
        /\ UNCHANGED <<announced, lastPending, readout, dialog, turn, said>>
    BY <1>2 DEF C!Ask, C!cache, C!talk, C!listening
  <2> HIDE DEF r
  <2>3. Requested
    BY <2>1, <2>2 DEF Requested
  <2>4. Tells
    <3>1. /\ settled \in Seq(Verdicts) /\ DOMAIN settled = DOMAIN requested
          /\ DOMAIN settled = 1 .. Len(settled)
      BY <1>1 DEF ServerTypes
    <3>2. \A i \in DOMAIN settled : settled'[i] = settled[i]
      BY <2>2, <3>1
    <3>3. QED
      BY <2>2, <3>1, <3>2 DEF Tells, C!VerdictsAreTold, C!LaunchesAreConfirmed, C!Open
  <2>5. DOMAIN requested \subseteq DOMAIN requested'
    <3>1. requested \in Seq(Interaction)
      BY <1>1 DEF ServerTypes
    <3>2. QED
      BY <2>1, <2>2, <3>1
  <2>6. QED
    BY <1>1, <2>2, <2>3, <2>4, <2>5, HeardKeeps, TalkStands DEF ConversationInv
<1>3. ASSUME NEW i \in C!Open, C!SettledElsewhere(i)
      PROVE  ConversationInv' /\ Tells
  <2>1. /\ settled' = [settled EXCEPT ![i] = "elsewhere"]
        /\ C!Publish([type |-> "closed", id |-> i])
        /\ UNCHANGED <<requested, running, launched, cached>>
        /\ UNCHANGED <<announced, lastPending, readout, dialog, turn, said>>
    BY <1>3 DEF C!SettledElsewhere, C!cache, C!talk, C!listening
  <2>2. Settled
    BY <2>1 DEF Settled, Verdicts
  <2>3. Tells
    BY <1>1, <2>1 DEF Tells, C!VerdictsAreTold, C!LaunchesAreConfirmed, C!Open, ServerTypes
  <2>4. QED
    BY <1>1, <2>1, <2>2, <2>3, HeardKeeps, TalkStands DEF ConversationInv
<1>4. CASE C!Connect
  <2>1. Unheard /\ UNCHANGED <<launched, announced, lastPending, readout, dialog, turn, said>>
    BY <1>4 DEF C!Connect, Unheard, C!server, C!cache, C!talk, C!listening
  <2>2. QED
    BY <1>1, <2>1, HeardKeeps, TalkStands, SilentTells DEF ConversationInv, Unheard
<1>5. CASE C!Disconnect
  <2>1. UNCHANGED <<requested, settled, launched, announced, lastPending, readout, dialog, turn,
                   said>>
    BY <1>5 DEF C!Disconnect, C!server, C!talk, C!listening
  <2>2. QED
    BY <1>1, <1>5, <2>1, DisconnectKeeps, TalkStands, SilentTells DEF ConversationInv
<1>6. CASE C!Follow
  <2>1. UNCHANGED <<requested, settled, launched, announced, lastPending, readout, dialog, turn,
                   said>>
    BY <1>6 DEF C!Follow, C!server, C!talk, C!listening
  <2>2. QED
    BY <1>1, <1>6, <2>1, FollowKeeps, TalkStands, SilentTells DEF ConversationInv
<1>7. ASSUME NEW u \in Utterances, C!Hear(u)
      PROVE  ConversationInv' /\ Tells
  <2>1. /\ Unheard /\ UNCHANGED <<launched, announced, lastPending, readout, dialog>>
        /\ said' = u /\ turn' = IF dialog # C!NoDialog THEN "resume" ELSE "route"
    BY <1>7 DEF C!Hear, Unheard, C!server, C!stream, C!cache, C!talk
  <2>2. TalkFits'
    BY <1>1, <2>1, BoundsOfTalk DEF TalkFits, IsReadout, DialogFits, Unheard
  <2>3. QED
    BY <1>1, <2>1, <2>2, HeardKeeps, SilentTells DEF ConversationInv, Unheard
<1>8. CASE C!ResumeDialog
  BY <1>1, <1>8, SettleKeeps, ResumeIsWarranted DEF C!ResumeDialog
<1>9. CASE C!Handle
  BY <1>1, <1>9, SettleKeeps, DispatchIsWarranted DEF C!Handle
<1>10. CASE C!Route
  <2>1. /\ Unheard /\ UNCHANGED <<launched, announced, lastPending, readout, dialog>>
        /\ turn = "route" /\ turn' = "handle" /\ said' \in C!Routed(said)
    BY <1>10 DEF C!Route, Unheard, C!server, C!stream, C!cache, C!talk
  <2>2. said' \in Utterance
    BY <1>1, <2>1, RoutedIsUtterance DEF TalkFits
  <2>3. TalkFits'
    BY <1>1, <2>1, <2>2 DEF TalkFits, IsReadout, DialogFits, Unheard
  <2>4. QED
    BY <1>1, <2>1, <2>3, HeardKeeps, SilentTells DEF ConversationInv, Unheard
<1>11. ASSUME NEW i \in cached, C!NoteAnnouncedInteraction(i)
       PROVE  ConversationInv' /\ Tells
  <2>1. /\ Unheard /\ UNCHANGED <<launched, lastPending, readout, dialog, turn, said>>
        /\ announced' = i /\ i \in DOMAIN requested
    BY <1>1, <1>11 DEF ServerTypes, C!NoteAnnouncedInteraction, Unheard, C!server, C!stream, C!cache, C!listening
  <2>2. QED
    BY <1>1, <2>1, HeardKeeps, TalkStands, SilentTells DEF ConversationInv, Unheard
<1>12. CASE C!Expire
  <2>1. /\ Unheard /\ UNCHANGED <<launched, lastPending, readout, turn, said>>
        /\ turn = "none" /\ (dialog' = C!NoDialog \/ dialog' = dialog)
        /\ announced' = announced \/ announced' = 0
    BY <1>12 DEF C!Expire, Unheard, C!server, C!stream, C!cache, C!listening
  <2>2. TalkFits'
    BY <1>1, <2>1 DEF TalkFits, IsReadout, DialogFits, Unheard
  <2>3. QED
    BY <1>1, <2>1, <2>2, HeardKeeps, SilentTells DEF ConversationInv, Unheard
<1>13. QED
  BY <1>2, <1>3, <1>4, <1>5, <1>6, <1>7, <1>8, <1>9, <1>10, <1>11, <1>12 DEF C!Next

LEMMA ConversationStands ==
  ASSUME ConversationInv, UNCHANGED C!vars
  PROVE  ConversationInv'
<1>1. Unheard /\ UNCHANGED <<announced, lastPending, readout, dialog, turn, said>>
  BY DEF C!vars, Unheard, C!server, C!stream, C!cache, C!talk, C!listening
<1>2. QED
  BY <1>1, HeardKeeps, TalkStands DEF ConversationInv, Unheard

LEMMA ConversationAlways == Spec => []ConversationInv
<1>1. Init => ConversationInv
  BY ConversationStep, ConversationInit
<1>2. ConversationInv /\ [Next]_vars => ConversationInv'
  BY ConversationStep, ConversationNext, ConversationStands
<1>3. QED
  BY <1>1, <1>2, PTL DEF Spec

\* Invariant: through any break and reconnect of the stream the voice client's
\* cache comes to hold what the server holds open, except where an event was
\* published that neither a stream nor a cursor could deliver (cache.py _follow,
\* client.py stream_events).
THEOREM CacheFollows == Spec => []CacheCatchesUp
<1>1. ConversationInv => CacheCatchesUp
  <2>1. SUFFICES ASSUME ConversationInv, feed = <<>>, ~gap PROVE cached = C!Open
    BY DEF CacheCatchesUp, C!CacheCatchesUp
  <2>2. \A type, i : ~ToTell(type, i)
    BY <2>1 DEF ToTell
  <2>3. QED
    BY <2>1, <2>2 DEF ConversationInv, ServerTypes, StreamTells, C!Open
<1>2. QED
  BY <1>1, ConversationAlways, PTL

\* An action property: a verdict falls on the interaction its position had when
\* the list was read out, or on one the dialog offered and not against the words
\* of the reply; and a launch is the one that was confirmed, on a yes, once
\* (handlers.py, _match_interactions, _contradicts, _resume_confirm).
THEOREM ToldAndConfirmed == Spec => DoesAsTold
<1>1. ConversationInv /\ [C!Next]_(C!vars) => [Tells]_(C!vars)
  BY ConversationNext
<1>2. [Tells]_(C!vars) => [C!VerdictsAreTold /\ C!LaunchesAreConfirmed]_(C!vars)
  BY DEF Tells
<1>3. [Next]_vars => [C!Next]_(C!vars)
  BY ConversationStep
<1>4. QED
  BY <1>1, <1>2, <1>3, ConversationAlways, PTL DEF Spec, DoesAsTold, C!DoesAsTold

-----------------------------------------------------------------------------
(* The watch of a file *)

\* What stands in a file, and what may follow a piece there (Tailer,
\* NextPieces).
PiecesOf(markdown) == IF markdown THEN {"text", "mark", "nl"} ELSE {"head", "tail", "sep", "nl"}
AfterPiece(markdown, last) ==
  IF markdown THEN IF last = "nl" THEN {"text", "mark"} ELSE {"nl"}
  ELSE CASE last = "nl" -> {"head"}
         [] last = "head" -> {"tail", "sep"}
         [] last = "sep" -> {"tail"}
         [] last = "tail" -> {"nl"}
Written(markdown, f) ==
  /\ f \in Seq(PiecesOf(markdown))
  /\ \A k \in 1 .. Len(f) : f[k] \in AfterPiece(markdown, IF k = 1 THEN "nl" ELSE f[k - 1])

\* The lines of a file from one offset to another, as NoLineSkipped counts
\* them, and those that were all dealt with.
LineEnds(f, k, e) ==
  /\ k <= Len(f)
  /\ f[k] \in {"head", "text", "mark"}
  /\ k = 1 \/ f[k - 1] = "nl"
  /\ e <= Len(f) /\ f[e] = "nl" /\ \A j \in k .. e - 1 : f[j] \notin {"nl", "sep"}
LinesIn(f, from, upto) == {k \in from + 1 .. upto : \E e \in k .. upto : LineEnds(f, k, e)}
LineAt(e, k) == [edition |-> e, from |-> k - 1]
Dealt(f, e, dealt, from, upto) == \A k \in LinesIn(f, from, upto) : LineAt(e, k) \in dealt

\* No line begins before b and ends after it.
Between(f, from, b) == b = 0 \/ b = from \/ f[b] = "nl"

\* An offset that was kept: of another edition, or everything before it was
\* dealt with.
OffsetFits(record, f, e, dealt) ==
  /\ record.at \in 0 .. MaxPieces /\ record.edition \in Nat /\ record.since \in Nat
  /\ record.edition <= e
  /\ record.edition = e =>
       /\ record.at <= Len(f) /\ record.since <= record.at
       /\ Between(f, record.since, record.at)
       /\ Dealt(f, e, dealt, record.since, record.at)

LEMMA SameLines ==
  ASSUME NEW f, NEW g, NEW from \in Nat, NEW upto \in Nat,
         Len(f) \in Nat, Len(g) \in Nat, upto <= Len(f), Len(f) <= Len(g),
         \A k \in 1 .. Len(f) : g[k] = f[k]
  PROVE  LinesIn(g, from, upto) = LinesIn(f, from, upto)
<1>1. ASSUME NEW k \in from + 1 .. upto, NEW e \in k .. upto
      PROVE  LineEnds(g, k, e) <=> LineEnds(f, k, e)
  <2>1. k \in 1 .. Len(f) /\ e \in 1 .. Len(f) /\ (k # 1 => k - 1 \in 1 .. Len(f))
    OBVIOUS
  <2>2. g[k] = f[k] /\ g[e] = f[e] /\ (k # 1 => g[k - 1] = f[k - 1])
    BY <2>1
  <2>3. \A j \in k .. e - 1 : g[j] = f[j]
    OBVIOUS
  <2>4. k <= Len(f) /\ k <= Len(g) /\ e <= Len(f) /\ e <= Len(g)
    BY <2>1
  <2>5. QED
    BY <2>2, <2>3, <2>4 DEF LineEnds
<1>2. QED
  BY <1>1 DEF LinesIn

LEMMA NoLines ==
  ASSUME NEW f, NEW from \in Nat
  PROVE  LinesIn(f, from, from) = {}
BY DEF LinesIn

\* What was kept holds while the file grows and more is dealt with.
LEMMA OffsetKeeps ==
  ASSUME NEW record, NEW f, NEW g, NEW e, NEW dealt, NEW more,
         OffsetFits(record, f, e, dealt), dealt \subseteq more,
         Len(f) \in Nat, Len(g) \in Nat, Len(f) <= Len(g), \A k \in 1 .. Len(f) : g[k] = f[k]
  PROVE  OffsetFits(record, g, e, more)
<1>1. CASE record.edition # e
  BY <1>1 DEF OffsetFits
<1>2. CASE record.edition = e
  <2>1. LinesIn(g, record.since, record.at) = LinesIn(f, record.since, record.at)
    BY <1>2, SameLines DEF OffsetFits
  <2>2. Dealt(g, e, more, record.since, record.at)
    BY <1>2, <2>1 DEF OffsetFits, Dealt
  <2>3. record.at = 0 \/ record.at \in 1 .. Len(f)
    BY <1>2 DEF OffsetFits
  <2>4. Between(g, record.since, record.at)
    BY <1>2, <2>3 DEF OffsetFits, Between
  <2>5. QED
    BY <1>2, <2>2, <2>4 DEF OffsetFits
<1>3. QED
  BY <1>1, <1>2

\* ... and when the file is written anew.
LEMMA OffsetOutdated ==
  ASSUME NEW record, NEW f, NEW g, NEW e \in Nat, NEW dealt, OffsetFits(record, f, e, dealt)
  PROVE  OffsetFits(record, g, e + 1, dealt)
BY DEF OffsetFits

\* The grammar of the writer leaves one form for a line without a separator.
TextsOf(markdown) == IF markdown THEN {<<"text">>, <<"mark">>} ELSE {<<"head", "tail">>}

LEMMA LineForm ==
  ASSUME NEW markdown \in BOOLEAN, NEW f, Written(markdown, f),
         NEW k \in Nat \ {0}, NEW e \in Nat, k <= e, LineEnds(f, k, e)
  PROVE  /\ markdown => e = k + 1 /\ f[k] \in {"text", "mark"}
         /\ ~markdown => e = k + 2 /\ f[k] = "head" /\ f[k + 1] = "tail"
<1>1. /\ k \in 1 .. Len(f) /\ Len(f) \in Nat /\ e <= Len(f) /\ k # e
      /\ f[k] \in PiecesOf(markdown)
      /\ f[k] \in {"head", "text", "mark"} /\ f[e] = "nl"
      /\ \A j \in k .. e - 1 : f[j] # "nl" /\ f[j] # "sep"
  BY DEF LineEnds, Written
<1>2. k + 1 \in 1 .. Len(f) /\ k + 1 # 1 /\ (k + 1) - 1 = k
  BY <1>1
<1>3. f[k + 1] \in AfterPiece(markdown, f[k])
  BY <1>2 DEF Written
<1>4. CASE markdown
  <2>1. f[k] \in {"text", "mark"} /\ f[k + 1] = "nl"
    BY <1>1, <1>3, <1>4 DEF AfterPiece, PiecesOf
  <2>2. k + 1 \notin k .. e - 1
    BY <1>1, <2>1
  <2>3. QED
    BY <1>1, <1>4, <2>1, <2>2
<1>5. CASE ~markdown
  <2>1. f[k] = "head" /\ f[k + 1] \in {"tail", "sep"}
    BY <1>1, <1>3, <1>5 DEF AfterPiece, PiecesOf
  <2>2. k + 1 # e /\ k + 1 \in k .. e - 1
    BY <1>1, <2>1
  <2>3. f[k + 1] = "tail"
    BY <1>1, <2>1, <2>2
  <2>4. k + 2 \in 1 .. Len(f) /\ k + 2 # 1 /\ (k + 2) - 1 = k + 1
    BY <1>1, <2>2
  <2>5. f[k + 2] \in AfterPiece(markdown, f[k + 1])
    BY <2>4 DEF Written
  <2>6. f[k + 2] = "nl"
    BY <1>5, <2>3, <2>5 DEF AfterPiece
  <2>7. k + 2 \notin k .. e - 1
    BY <1>1, <2>6
  <2>8. QED
    BY <1>1, <1>5, <2>1, <2>2, <2>3, <2>7
<1>6. QED
  BY <1>4, <1>5

HasLine(s, line) == \E n \in DOMAIN s : s[n] = line

\* Every line that ends in a text is split off (Tailer, SplitLines).
LEMMA SplitFinds ==
  ASSUME NEW markdown \in BOOLEAN, NEW S, NEW text \in Seq(S), NEW from \in Nat,
         NEW a \in 1 .. Len(text), NEW b \in a .. Len(text),
         text[b] = "nl", \A j \in a .. b - 1 : text[j] \notin {"nl", "sep"},
         a = 1 \/ text[a - 1] = "nl"
  PROVE  HasLine(W(markdown)!SplitLines(text, from),
                 [edition |-> seen, from |-> from + a - 1, text |-> SubSeq(text, a, b - 1)])
<1> DEFINE Br == W(markdown)!Breaks(text)
           Rank(p) == RankIn(Br, p)
           Nth(n) == CHOOSE p \in Br : Rank(p) = n
           First(n) == IF n = 1 THEN 1 ELSE Nth(n - 1) + 1
<1>1. /\ Len(text) \in Nat
      /\ Br = {k \in 1 .. Len(text) : text[k] \in {"nl", "sep"}}
      /\ Br \in SUBSET (1 .. Len(text))
  BY DEF W!Breaks
<1> HIDE DEF Br
<1>2. W(markdown)!SplitLines(text, from) =
        [n \in 1 .. Cardinality(Br) |->
           [edition |-> seen, from |-> from + First(n) - 1, text |-> SubSeq(text, First(n), Nth(n) - 1)]]
  BY DEF W!SplitLines, W!Cardinality, Cardinality, RankIn, Br
<1>3. b \in Br /\ \A k \in Br : k < a \/ b <= k
  <2>1. b \in 1 .. Len(text) /\ a \in Nat /\ b \in Br
    BY <1>1
  <2>2. ASSUME NEW k \in Br, ~(k < a), ~(b <= k) PROVE FALSE
    <3>1. k \in a .. b - 1
      BY <1>1, <2>1, <2>2
    <3>2. QED
      BY <1>1, <3>1
  <2>3. QED
    BY <2>1, <2>2
<1>4. a # 1 => a - 1 \in Br
  BY <1>1
<1>5. \A p \in Br : Nth(Rank(p)) = p
  <2>1. \A p, q \in Br : p # q => Rank(p) # Rank(q)
    <3>1. QED
      BY <1>1, RankTells
  <2> HIDE DEF Rank
  <2>2. QED
    BY <2>1
<1>6. Rank(b) \in 1 .. Cardinality(Br) /\ First(Rank(b)) = a
  <2>1. Rank(b) \in 1 .. Cardinality(Br)
    <3>1. QED
      BY <1>1, <1>3, RankCounts
  <2>2. CASE a = 1
    <3>1. Rank(b) = 1
      <4>1. \A k \in Br : b <= k
        <5>1. \A k \in Br : ~(k < 1)
          BY <1>1
        <5>2. QED
          BY <1>3, <2>2, <5>1
      <4>2. QED
        BY <1>1, <1>3, <4>1, RankCounts
    <3>2. QED
      BY <2>1, <2>2, <3>1
  <2>3. CASE a # 1
    <3>1. /\ a - 1 \in Br /\ a - 1 < b
          /\ \A k \in Br : k <= a - 1 \/ b <= k
      BY <1>3, <1>4, <2>3
    <3>2. Rank(b) = Rank(a - 1) + 1 /\ Rank(a - 1) \in 1 .. Cardinality(Br)
          /\ Cardinality(Br) \in Nat
      <4>1. PICK c : c = a - 1
        OBVIOUS
      <4>2. c \in Br /\ c < b /\ \A k \in Br : k <= c \/ b <= k
        BY <3>1, <4>1
      <4>3. Rank(b) = Rank(c) + 1
        BY <1>1, <1>3, <4>2, RankSucceeds
      <4>4. Rank(c) \in 1 .. Cardinality(Br) /\ Cardinality(Br) \in Nat
        BY <1>1, <4>2, RankCounts
      <4> HIDE DEF Rank
      <4>5. QED
        BY <4>1, <4>3, <4>4
    <3>3. Nth(Rank(a - 1)) = a - 1
      BY <1>5, <3>1
    <3>4. PICK r \in Nat : r = Rank(a - 1) /\ r # 0 /\ Rank(b) = r + 1
      <4> HIDE DEF Rank
      <4>1. QED
        BY <3>2
    <3>5. Nth(r) = a - 1
      BY <3>3, <3>4
    <3> HIDE DEF Nth
    <3>6. (r + 1) - 1 = r /\ r + 1 # 1 /\ (a - 1) + 1 = a
      BY <3>4
    <3>7. First(r + 1) = a
      BY <3>5, <3>6
    <3> HIDE DEF First
    <3>8. QED
      BY <2>1, <3>4, <3>7
  <2>4. QED
    BY <2>1, <2>2, <2>3
<1>7. Nth(Rank(b)) = b
  BY <1>3, <1>5
<1>8. PICK m \in 1 .. Cardinality(Br) : First(m) = a /\ Nth(m) = b
  <2> HIDE DEF First, Nth, Rank
  <2>1. QED
    BY <1>6, <1>7
<1> HIDE DEF First, Nth
<1>9. QED
  BY <1>2, <1>8 DEF HasLine

LEMMA SplitLists ==
  ASSUME NEW markdown \in BOOLEAN, NEW S, NEW text \in Seq(S), NEW from \in Nat
  PROVE  Listing(W(markdown)!SplitLines(text, from))
<1> DEFINE Br == W(markdown)!Breaks(text)
<1>1. Cardinality(Br) \in Nat
  <2>1. Br \in SUBSET (1 .. Len(text))
    BY DEF W!Breaks
  <2>2. IsFiniteSet(1 .. Len(text))
    BY FS_Interval
  <2> HIDE DEF Br
  <2>3. IsFiniteSet(Br)
    BY <2>1, <2>2, FS_Subset
  <2>4. QED
    BY <2>3, FS_CardinalityType
<1>2. \E g : W(markdown)!SplitLines(text, from) = [n \in 1 .. Cardinality(Br) |-> g[n]]
  <2> DEFINE Nth(n) == CHOOSE p \in Br : Cardinality({k \in Br : k <= p}) = n
             First(n) == IF n = 1 THEN 1 ELSE Nth(n - 1) + 1
             Line(n) == [edition |-> seen, from |-> from + First(n) - 1,
                         text |-> SubSeq(text, First(n), Nth(n) - 1)]
  <2>1. W(markdown)!SplitLines(text, from) = [n \in 1 .. Cardinality(Br) |-> Line(n)]
    BY DEF W!SplitLines, W!Cardinality, Cardinality
  <2> DEFINE g == [n \in 1 .. Cardinality(Br) |-> Line(n)]
  <2>2. g = [n \in 1 .. Cardinality(Br) |-> g[n]]
    <3> HIDE DEF Line
    <3>1. QED
      OBVIOUS
  <2>3. QED
    BY <2>1, <2>2
<1>3. PICK g : W(markdown)!SplitLines(text, from) = [n \in 1 .. Cardinality(Br) |-> g[n]]
  BY <1>2
<1> DEFINE h == [n \in 1 .. Cardinality(Br) |-> g[n]]
<1>4. h \in Seq({h[n] : n \in DOMAIN h})
  <2> HIDE DEF Br
  <2>1. QED
    BY <1>1
<1>5. QED
  BY <1>3, <1>4 DEF Listing

Handled == told \cup buffer \cup lost

FileFits(markdown) ==
  /\ Written(markdown, file)
  /\ budget \in Nat /\ Len(file) + budget <= MaxPieces
  /\ edition \in 1 .. MaxRewrites + 1

WatchFits(markdown) ==
  /\ watch \in {"off", "stat", "read", "feed", "write", "over"}
  /\ offset \in 0 .. MaxPieces
  /\ held \in Seq(PiecesOf(markdown)) /\ Len(held) <= offset
  /\ size \in 0 .. MaxPieces
  /\ caughtUp \in BOOLEAN /\ quiet \in 0 .. 2
  /\ seen \in Nat /\ seen <= edition /\ since \in Nat
  /\ Listing(lines)
  /\ failures \in 0 .. MaxFailures

\* The offset in memory and the one on the disk.
OffsetsFit ==
  OffsetFits(known, file, edition, Handled) /\ OffsetFits(onDisk, file, edition, Handled)

\* A line that was split off and is still to be fed.
Pending(markdown, k) ==
  \E n \in DOMAIN lines : /\ lines[n].edition = edition /\ lines[n].from = k - 1
                          /\ lines[n].text \in TextsOf(markdown)

Attended(markdown, k) ==
  LineAt(edition, k) \in Handled \/ (watch = "feed" /\ Pending(markdown, k))

\* A watch of the present edition: what it holds is the unfinished line before
\* its offset, and the whole lines before that are dealt with, or read and
\* still to be fed.
Follows(markdown, b) ==
  /\ offset <= Len(file) /\ since <= b /\ Between(file, since, b)
  /\ \A j \in 1 .. Len(held) : held[j] = file[b + j] /\ held[j] # "nl"
  /\ \A k \in LinesIn(file, since, b) : Attended(markdown, k)

Following(markdown) ==
  watch \in {"stat", "read", "feed", "write"} /\ seen = edition =>
    Follows(markdown, offset - Len(held))

TailerInv(markdown) ==
  FileFits(markdown) /\ WatchFits(markdown) /\ OffsetsFit /\ Following(markdown)

LEMMA BoundsOfTail == {MaxReplay, MaxPieces, MaxRewrites, MaxFailures} \subseteq Nat
BY EdgesBounds DEF W!TailerBounds

LEMMA FileTypes ==
  ASSUME NEW markdown \in BOOLEAN, FileFits(markdown)
  PROVE  /\ file \in Seq(PiecesOf(markdown)) /\ Len(file) \in 0 .. MaxPieces
         /\ MaxPieces \in Nat /\ edition \in Nat \ {0}
         /\ (file = <<>> => Len(file) = 0) /\ (Len(file) = 0 => file = <<>>)
<1>1. file \in Seq(PiecesOf(markdown)) /\ budget \in Nat /\ Len(file) + budget <= MaxPieces
      /\ edition \in 1 .. MaxRewrites + 1
  BY DEF FileFits, Written
<1>2. Len(file) \in Nat
  BY <1>1
<1>3. QED
  BY <1>1, <1>2, BoundsOfTail

LEMMA TailerInit ==
  ASSUME NEW markdown \in BOOLEAN, W(markdown)!Init
  PROVE  TailerInv(markdown)
<1>1. <<>> \in Seq(PiecesOf(markdown)) /\ Len(<<>>) = 0
  OBVIOUS
<1>2. FileFits(markdown)
  BY <1>1, BoundsOfTail DEF W!Init, FileFits, Written
<1>3. Listing(<<>>)
  BY DEF Listing
<1>4. WatchFits(markdown)
  <2>1. /\ watch = "off" /\ offset = 0 /\ held = <<>> /\ size = 0 /\ lines = <<>>
        /\ caughtUp = FALSE /\ quiet = 0 /\ seen = 1 /\ edition = 1 /\ since = 0 /\ failures = 0
    BY DEF W!Init
  <2>2. held \in Seq(PiecesOf(markdown)) /\ Len(held) <= offset /\ Listing(lines)
    BY <1>1, <1>3, <2>1
  <2>3. caughtUp \in BOOLEAN
    BY <2>1, Zenon
  <2>4. /\ watch \in {"off", "stat", "read", "feed", "write", "over"}
        /\ offset \in 0 .. MaxPieces /\ size \in 0 .. MaxPieces /\ quiet \in 0 .. 2
        /\ seen \in Nat /\ seen <= edition /\ since \in Nat /\ failures \in 0 .. MaxFailures
    BY <2>1, BoundsOfTail
  <2>5. QED
    BY <2>2, <2>3, <2>4, Zenon DEF WatchFits
<1>5. OffsetsFit
  BY BoundsOfTail DEF W!Init, OffsetsFit, OffsetFits, W!None
<1>6. Following(markdown)
  BY DEF W!Init, Following
<1>7. QED
  BY <1>2, <1>4, <1>5, <1>6 DEF TailerInv

\* While the file stands and no more is lost sight of, what was kept holds.
LEMMA OffsetsKeep ==
  ASSUME NEW markdown \in BOOLEAN, FileFits(markdown), OffsetsFit,
         UNCHANGED <<file, edition, known, onDisk>>, Handled \subseteq Handled'
  PROVE  OffsetsFit'
<1>1. Len(file) \in Nat
  BY FileTypes
<1>2. ASSUME NEW r, OffsetFits(r, file, edition, Handled)
      PROVE  OffsetFits(r, file, edition, Handled')
  BY <1>1, <1>2, OffsetKeeps
<1>3. QED
  BY <1>2 DEF OffsetsFit

LEMMA FileStands ==
  ASSUME NEW markdown \in BOOLEAN, FileFits(markdown), UNCHANGED <<file, edition, budget>>
  PROVE  FileFits(markdown)'
BY DEF FileFits

LEMMA WriteKeeps ==
  ASSUME NEW markdown \in BOOLEAN, TailerInv(markdown), W(markdown)!Write
  PROVE  TailerInv(markdown)'
<1>1. PICK p \in W(markdown)!NextPieces : file' = Append(file, p)
  BY DEF W!Write
<1>2. /\ file \in Seq(PiecesOf(markdown)) /\ Len(file) \in Nat /\ MaxPieces \in Nat
      /\ FileFits(markdown) /\ WatchFits(markdown) /\ OffsetsFit /\ Following(markdown)
      /\ edition \in Nat
  BY FileTypes DEF TailerInv
<1>3. p \in AfterPiece(markdown, IF file = <<>> THEN "nl" ELSE file[Len(file)])
  BY DEF W!NextPieces, AfterPiece
<1>4. file # <<>> => Len(file) \in 1 .. Len(file) /\ file[Len(file)] \in PiecesOf(markdown)
  BY <1>2
<1>5. p \in PiecesOf(markdown)
  BY <1>3, <1>4 DEF AfterPiece, PiecesOf
<1>6. /\ file' \in Seq(PiecesOf(markdown)) /\ Len(file') = Len(file) + 1
      /\ \A k \in 1 .. Len(file) : file'[k] = file[k]
      /\ file'[Len(file) + 1] = p
  BY <1>1, <1>2, <1>5, AfterAppend
<1>7. Written(markdown, file')
  <2>1. ASSUME NEW k \in 1 .. Len(file')
        PROVE  file'[k] \in AfterPiece(markdown, IF k = 1 THEN "nl" ELSE file'[k - 1])
    <3>1. CASE k = Len(file) + 1
      <4>1. k = 1 <=> file = <<>>
        BY <1>2, <3>1
      <4>2. k # 1 => k - 1 \in 1 .. Len(file) /\ k - 1 = Len(file)
        BY <1>2, <3>1
      <4>3. QED
        BY <1>3, <1>6, <3>1, <4>1, <4>2
    <3>2. CASE k # Len(file) + 1
      <4>1. k \in 1 .. Len(file) /\ (k # 1 => k - 1 \in 1 .. Len(file))
        BY <1>2, <1>6, <3>2
      <4>2. file[k] \in AfterPiece(markdown, IF k = 1 THEN "nl" ELSE file[k - 1])
        BY <1>2, <4>1 DEF FileFits, Written
      <4>3. QED
        BY <1>6, <4>1, <4>2
    <3>3. QED
      BY <3>1, <3>2
  <2>2. QED
    BY <1>6, <2>1 DEF Written
<1>8. FileFits(markdown)'
  <2>1. budget \in Nat /\ budget > 0 /\ budget' = budget - 1 /\ edition' = edition
        /\ Len(file) + budget <= MaxPieces /\ edition \in 1 .. MaxRewrites + 1
    BY <1>2 DEF W!Write, FileFits
  <2>2. QED
    BY <1>2, <1>6, <1>7, <2>1 DEF FileFits
<1>9. UNCHANGED <<edition, watch, offset, held, size, lines, caughtUp, quiet, buffer,
                  known, onDisk, seen, since, told, lost, failures>>
  BY DEF W!Write, W!book
<1>10. WatchFits(markdown)'
  BY <1>2, <1>9 DEF WatchFits
<1>11. OffsetsFit'
  <2>1. ASSUME NEW r, OffsetFits(r, file, edition, Handled)
        PROVE  OffsetFits(r, file', edition, Handled)
    <3>1. Len(file') \in Nat /\ Len(file) <= Len(file')
      BY <1>2, <1>6
    <3>2. QED
      BY <1>2, <1>6, <2>1, <3>1, OffsetKeeps
  <2>2. Handled' = Handled
    BY <1>9 DEF Handled
  <2>3. QED
    BY <1>2, <1>9, <2>1, <2>2 DEF OffsetsFit
<1>12. Following(markdown)'
  <2>1. SUFFICES ASSUME watch \in {"stat", "read", "feed", "write"}, seen = edition
                 PROVE  Follows(markdown, offset - Len(held))'
    BY <1>9 DEF Following
  <2>2. PICK b : b = offset - Len(held)
    OBVIOUS
  <2>3. Follows(markdown, b)
    BY <1>2, <2>1, <2>2 DEF Following
  <2>4. b \in Nat /\ b + Len(held) = offset /\ Len(held) \in Nat /\ offset <= Len(file)
        /\ since \in Nat
    BY <1>2, <2>2, <2>3 DEF WatchFits, Follows
  <2>5. LinesIn(file', since, b) = LinesIn(file, since, b)
    <3>1. Len(file') \in Nat /\ Len(file) <= Len(file') /\ b <= Len(file)
      BY <1>2, <1>6, <2>4
    <3>2. QED
      BY <1>2, <1>6, <2>4, <3>1, SameLines
  <2>6. \A k \in LinesIn(file', since, b) : Attended(markdown, k)'
    BY <1>9, <2>3, <2>5 DEF Follows, Attended, Handled, Pending
  <2>7. \A j \in 1 .. Len(held) : held[j] = file'[b + j] /\ held[j] # "nl"
    <3>1. \A j \in 1 .. Len(held) : b + j \in 1 .. Len(file)
      BY <1>2, <2>4
    <3>2. QED
      BY <1>6, <2>3, <3>1 DEF Follows
  <2>8. Between(file', since, b)
    <3>1. b = 0 \/ b \in 1 .. Len(file)
      BY <1>2, <2>4
    <3>2. QED
      BY <1>6, <2>3, <3>1 DEF Follows, Between
  <2>9. offset <= Len(file') /\ since <= b
    BY <1>2, <1>6, <2>3, <2>4 DEF Follows, WatchFits
  <2>10. b = (offset - Len(held))'
    BY <1>9, <2>2
  <2>11. Follows(markdown, b)'
    BY <1>9, <2>6, <2>7, <2>8, <2>9 DEF Follows
  <2>12. QED
    BY <2>10, <2>11
<1>13. QED
  BY <1>8, <1>10, <1>11, <1>12 DEF TailerInv

LEMMA RewriteKeeps ==
  ASSUME NEW markdown \in BOOLEAN, TailerInv(markdown), W(markdown)!Rewrite
  PROVE  TailerInv(markdown)'
<1>1. /\ edition \in 1 .. MaxRewrites + 1 /\ edition <= MaxRewrites /\ edition' = edition + 1
      /\ file' = <<>> /\ MaxRewrites \in Nat
      /\ UNCHANGED <<budget, watch, offset, held, size, lines, caughtUp, quiet, buffer,
                     known, onDisk, seen, since, told, lost, failures>>
      /\ FileFits(markdown) /\ WatchFits(markdown) /\ OffsetsFit
  BY BoundsOfTail DEF W!Rewrite, W!book, TailerInv, FileFits
<1>2. FileFits(markdown)'
  <2>1. <<>> \in Seq(PiecesOf(markdown)) /\ Len(<<>>) = 0
    OBVIOUS
  <2>2. Written(markdown, <<>>)
    BY <2>1 DEF Written
  <2>3. budget <= MaxPieces /\ budget \in Nat
    BY <1>1, FileTypes DEF FileFits
  <2>4. 0 + budget <= MaxPieces /\ edition + 1 \in 1 .. MaxRewrites + 1
    BY <1>1, <2>3
  <2>5. QED
    BY <1>1, <2>1, <2>2, <2>3, <2>4 DEF FileFits
<1>3. WatchFits(markdown)'
  BY <1>1 DEF WatchFits
<1>4. OffsetsFit'
  <2>1. ASSUME NEW r, OffsetFits(r, file, edition, Handled)
        PROVE  OffsetFits(r, file', edition + 1, Handled)
    BY <1>1, <2>1, OffsetOutdated
  <2>2. Handled' = Handled
    BY <1>1 DEF Handled
  <2>3. QED
    BY <1>1, <2>1, <2>2 DEF OffsetsFit
<1>5. Following(markdown)'
  <2>1. seen' # edition'
    BY <1>1 DEF WatchFits
  <2>2. QED
    BY <2>1 DEF Following
<1>6. QED
  BY <1>2, <1>3, <1>4, <1>5 DEF TailerInv

\* What a step of the watch leaves alone, and what it adds to.
Watching ==
  /\ UNCHANGED <<file, edition, budget>>
  /\ Handled \subseteq Handled'

LEMMA StartKeeps ==
  ASSUME NEW markdown \in BOOLEAN, TailerInv(markdown), W(markdown)!StartWatch
  PROVE  TailerInv(markdown)'
<1>1. /\ FileFits(markdown) /\ WatchFits(markdown) /\ OffsetsFit
      /\ Len(file) \in 0 .. MaxPieces /\ edition \in Nat /\ MaxPieces \in Nat
  BY FileTypes DEF TailerInv
<1>2. /\ UNCHANGED <<file, edition, budget, size, known, onDisk, told, failures>>
      /\ watch' = "stat" /\ held' = <<>> /\ lines' = <<>> /\ caughtUp' = FALSE /\ quiet' = 0
      /\ buffer' = {} /\ lost' = lost \cup buffer
      /\ known = W(markdown)!None =>
           /\ offset' = W(markdown)!InitialOffset /\ seen' = edition
           /\ since' = W(markdown)!InitialOffset
      /\ known # W(markdown)!None =>
           offset' = known.at /\ seen' = known.edition /\ since' = known.since
  BY DEF W!StartWatch
<1>3. Handled \subseteq Handled'
  BY <1>2 DEF Handled
<1>4. FileFits(markdown)' /\ OffsetsFit'
  BY <1>1, <1>2, <1>3, FileStands, OffsetsKeep
<1>5. W(markdown)!InitialOffset \in 0 .. Len(file)
  <2>1. CASE Len(file) <= MaxReplay
    BY <1>1, <2>1 DEF W!InitialOffset
  <2>2. CASE ~(Len(file) <= MaxReplay)
    <3>1. PICK p \in Nat : p = Len(file) - MaxReplay /\ p <= Len(file)
      BY <1>1, <2>2, BoundsOfTail
    <3> DEFINE ends == {k \in p + 1 .. Len(file) : file[k] = "nl"}
    <3>2. W(markdown)!InitialOffset =
            IF ends = {} THEN Len(file) ELSE CHOOSE k \in ends : \A j \in ends : k <= j
      BY <2>2, <3>1 DEF W!InitialOffset, W!LineAfter
    <3>3. \A k \in ends : k \in 0 .. Len(file)
      BY <1>1, <3>1
    <3>4. ASSUME ends # {}
          PROVE  (CHOOSE k \in ends : \A j \in ends : k <= j) \in ends
      <4> HIDE DEF ends
      <4>1. \E k \in ends : \A j \in ends : k <= j
        BY <1>1, <3>3, <3>4, LeastExists
      <4>2. QED
        BY <4>1
    <3> HIDE DEF ends
    <3>5. QED
      BY <1>1, <3>2, <3>3, <3>4
  <2>3. QED
    BY <2>1, <2>2
<1>6. <<>> \in Seq(PiecesOf(markdown)) /\ Len(<<>>) = 0 /\ Listing(<<>>)
  BY DEF Listing
<1>7. offset' \in 0 .. MaxPieces /\ seen' \in Nat /\ seen' <= edition /\ since' \in Nat
  <2>1. CASE known = W(markdown)!None
    BY <1>1, <1>2, <1>5, <2>1
  <2>2. CASE known # W(markdown)!None
    BY <1>1, <1>2, <2>2 DEF OffsetsFit, OffsetFits
  <2>3. QED
    BY <2>1, <2>2
<1>8. WatchFits(markdown)'
  <2>1. held' \in Seq(PiecesOf(markdown)) /\ Len(held') <= offset' /\ Listing(lines')
    BY <1>2, <1>6, <1>7
  <2>2. caughtUp' \in BOOLEAN
    BY <1>2, Zenon
  <2>3. watch' \in {"off", "stat", "read", "feed", "write", "over"} /\ quiet' \in 0 .. 2
    BY <1>2
  <2>4. QED
    BY <1>1, <1>2, <1>7, <2>1, <2>2, <2>3, Zenon DEF WatchFits
<1>9. Following(markdown)'
  <2>1. SUFFICES ASSUME seen' = edition PROVE Follows(markdown, offset - Len(held))'
    BY <1>2 DEF Following
  <2>2. (offset - Len(held))' = offset'
    <3>1. Len(held') = 0 /\ offset' \in Nat
      BY <1>2, <1>6, <1>7
    <3>2. (offset - Len(held))' = offset' - Len(held')
      OBVIOUS
    <3>3. PICK o \in Nat : o = offset'
      BY <3>1
    <3>4. o - 0 = o
      OBVIOUS
    <3>5. QED
      BY <3>1, <3>2, <3>3, <3>4, Zenon
  <2>3. /\ offset' <= Len(file) /\ since' <= offset' /\ Between(file, since', offset')
        /\ Dealt(file, edition, Handled, since', offset')
    <3>1. CASE known = W(markdown)!None
      <4>1. LinesIn(file, since', offset') = {}
        BY <1>2, <1>7, <3>1, NoLines
      <4>2. offset' <= Len(file) /\ since' <= offset' /\ offset' = since'
        BY <1>1, <1>2, <1>5, <3>1
      <4>3. QED
        BY <4>1, <4>2 DEF Dealt, Between
    <3>2. CASE known # W(markdown)!None
      BY <1>1, <1>2, <2>1, <3>2 DEF OffsetsFit, OffsetFits
    <3>3. QED
      BY <3>1, <3>2
  <2>4. \A k \in LinesIn(file, since', offset') : LineAt(edition, k) \in Handled'
    BY <1>3, <2>3 DEF Dealt
  <2>5. PICK b : b = offset'
    OBVIOUS
  <2>6. Follows(markdown, b)'
    <3>1. \A j \in 1 .. Len(held') : FALSE
      BY <1>2, <1>6
    <3>2. QED
      BY <1>2, <2>3, <2>4, <2>5, <3>1 DEF Follows, Attended
  <2>7. QED
    BY <2>2, <2>5, <2>6
<1>10. QED
  BY <1>4, <1>8, <1>9 DEF TailerInv

\* A watch that goes on from the same offset, or from the beginning.
LEMMA SameWatch ==
  ASSUME NEW markdown \in BOOLEAN, FileFits(markdown), WatchFits(markdown), Following(markdown),
         Watching, watch = "stat", watch' \in {"stat", "read", "over"},
         \/ offset' = 0 /\ since' = 0 /\ held' = <<>>
         \/ UNCHANGED <<offset, held, seen, since>>
  PROVE  Following(markdown)'
<1>1. SUFFICES ASSUME seen' = edition PROVE Follows(markdown, offset - Len(held))'
  BY DEF Watching, Following
<1>2. PICK b : b = (offset - Len(held))'
  OBVIOUS
<1>3. Len(file) \in Nat /\ edition' = edition /\ file' = file
  BY FileTypes DEF Watching
<1>4. CASE offset' = 0 /\ since' = 0 /\ held' = <<>>
  <2>1. b = 0 /\ Len(held') = 0
    <3>1. Len(<<>>) = 0
      OBVIOUS
    <3>2. Len(held') = 0
      BY <1>4, <3>1
    <3>3. b = 0 - 0
      BY <1>2, <1>4, <3>2
    <3>4. QED
      BY <3>2, <3>3
  <2>2. LinesIn(file, 0, 0) = {}
    BY NoLines
  <2>3. \A j \in 1 .. Len(held') : FALSE
    BY <2>1
  <2>4. Follows(markdown, b)'
    BY <1>3, <1>4, <2>1, <2>2, <2>3 DEF Follows, Between
  <2>5. QED
    BY <1>2, <2>4
<1>5. CASE UNCHANGED <<offset, held, seen, since>>
  <2>1. Follows(markdown, b)
    BY <1>1, <1>2, <1>3, <1>5 DEF Following
  <2>2. \A k \in LinesIn(file, since, b) : LineAt(edition, k) \in Handled'
    BY <2>1 DEF Follows, Attended, Watching
  <2>3. Follows(markdown, b)'
    BY <1>3, <1>5, <2>1, <2>2 DEF Follows, Attended
  <2>4. QED
    BY <1>2, <2>3
<1>6. QED
  BY <1>4, <1>5

LEMMA StatKeeps ==
  ASSUME NEW markdown \in BOOLEAN, TailerInv(markdown),
         \/ W(markdown)!StatGrown
         \/ \E idle \in BOOLEAN : W(markdown)!StatQuiet(idle)
  PROVE  TailerInv(markdown)'
<1>1. /\ FileFits(markdown) /\ WatchFits(markdown) /\ OffsetsFit /\ Following(markdown)
      /\ Len(file) \in 0 .. MaxPieces /\ edition \in Nat /\ MaxPieces \in Nat
  BY FileTypes DEF TailerInv
<1>2. <<>> \in Seq(PiecesOf(markdown)) /\ Len(<<>>) = 0
  OBVIOUS
<1>3. offset \in Nat /\ (file = <<>> => Len(file) = 0)
  BY <1>1, FileTypes DEF WatchFits
<1>4. /\ watch = "stat" /\ watch' \in {"stat", "read", "over"} /\ size' = Len(file)
      /\ UNCHANGED <<file, edition, budget, lines, known, onDisk, failures>>
      /\ Handled \subseteq Handled'
      /\ quiet' \in 0 .. 2 /\ caughtUp' \in BOOLEAN
      /\ \/ offset' = 0 /\ since' = 0 /\ held' = <<>> /\ seen' = edition
         \/ UNCHANGED <<offset, held, seen, since>>
  <2>1. CASE W(markdown)!StatGrown
    <3>1. /\ watch = "stat" /\ watch' = "read" /\ size' = Len(file) /\ quiet' = 0
          /\ UNCHANGED <<file, edition, budget, lines, caughtUp, buffer, known, onDisk, told,
                         lost, failures>>
      BY <2>1 DEF W!StatGrown
    <3>2. \/ offset' = 0 /\ since' = 0 /\ held' = <<>> /\ seen' = edition
          \/ UNCHANGED <<offset, held, seen, since>>
      <4>1. PICK from : /\ from = (IF Len(file) < offset THEN 0 ELSE offset)
                        /\ offset' = from
                        /\ held' = (IF from = offset THEN held ELSE <<>>)
                        /\ seen' = (IF from = offset THEN seen ELSE edition)
                        /\ since' = (IF from = offset THEN since ELSE 0)
        BY <2>1 DEF W!StatGrown
      <4>2. QED
        BY <4>1
    <3>3. Handled' = Handled
      BY <3>1 DEF Handled
    <3>4. QED
      BY <1>1, <3>1, <3>2, <3>3 DEF WatchFits
  <2>2. ASSUME NEW idle \in BOOLEAN, W(markdown)!StatQuiet(idle)
        PROVE  <1>4!:
    <3>1. /\ watch = "stat" /\ watch' \in {"stat", "over"} /\ size' = Len(file)
          /\ caughtUp' = TRUE
          /\ UNCHANGED <<file, edition, budget, lines, known, onDisk, lost, failures>>
      BY <2>2 DEF W!StatQuiet
    <3>2. quiet' \in 0 .. 2
      BY <1>1, <2>2 DEF W!StatQuiet, WatchFits
    <3>3. told' \cup buffer' = told \cup buffer
      BY <2>2 DEF W!StatQuiet
    <3>4. Handled' = Handled
      BY <3>1, <3>3 DEF Handled
    <3>5. /\ Len(file) = offset \/ Len(file) = 0
          /\ offset' = Len(file)
          /\ held' = (IF Len(file) < offset THEN <<>> ELSE held)
          /\ seen' = (IF Len(file) < offset THEN edition ELSE seen)
          /\ since' = (IF Len(file) < offset THEN 0 ELSE since)
      BY <1>3, <2>2 DEF W!StatQuiet
    <3>6. \/ offset' = 0 /\ since' = 0 /\ held' = <<>> /\ seen' = edition
          \/ UNCHANGED <<offset, held, seen, since>>
      BY <1>1, <1>3, <3>5
    <3>7. QED
      BY <3>1, <3>2, <3>4, <3>6
  <2>3. QED
    BY <2>1, <2>2
<1>5. FileFits(markdown)' /\ OffsetsFit'
  BY <1>1, <1>4, FileStands, OffsetsKeep
<1>6. WatchFits(markdown)'
  <2>1. /\ offset' \in 0 .. MaxPieces
        /\ held' \in Seq(PiecesOf(markdown)) /\ Len(held') <= offset'
        /\ seen' \in Nat /\ seen' <= edition /\ since' \in Nat
    <3>1. CASE offset' = 0 /\ since' = 0 /\ held' = <<>> /\ seen' = edition
      <4>1. Len(held') = 0 /\ held' \in Seq(PiecesOf(markdown))
        BY <1>2, <3>1
      <4>2. QED
        BY <1>1, <3>1, <4>1
    <3>2. CASE UNCHANGED <<offset, held, seen, since>>
      BY <1>1, <3>2 DEF WatchFits
    <3>3. QED
      BY <1>4, <3>1, <3>2
  <2>2. QED
    BY <1>1, <1>4, <2>1 DEF WatchFits
<1>7. Following(markdown)'
  BY <1>1, <1>4, SameWatch DEF Watching
<1>8. QED
  BY <1>5, <1>6, <1>7 DEF TailerInv

\* What Read takes from the file, put together with what it held: the pieces
\* from b on, cut after the last line end.
LEMMA TakenFrom ==
  ASSUME NEW markdown \in BOOLEAN, FileFits(markdown), WatchFits(markdown),
         W(markdown)!Read, NEW b, b = offset - Len(held)
  PROVE  \E text \in Seq(PiecesOf(markdown)), cut \in Nat :
           /\ b \in Nat /\ cut <= Len(text) /\ offset' = b + Len(text) /\ offset <= offset'
           /\ offset <= Len(file) => offset' <= Len(file)
           /\ offset' <= MaxPieces
           /\ \A j \in 1 .. Len(held) : text[j] = held[j]
           /\ \A j \in Len(held) + 1 .. Len(text) : text[j] = file[b + j]
           /\ cut # 0 => text[cut] = "nl"
           /\ \A j \in cut + 1 .. Len(text) : text[j] # "nl"
           /\ lines' = W(markdown)!SplitLines(SubSeq(text, 1, cut), b)
           /\ held' = SubSeq(text, cut + 1, Len(text))
<1> DEFINE S == PiecesOf(markdown)
<1>1. /\ file \in Seq(S) /\ Len(file) \in Nat /\ Len(file) <= MaxPieces
      /\ offset \in Nat /\ offset <= MaxPieces /\ held \in Seq(S) /\ Len(held) <= offset
      /\ Len(held) \in Nat /\ size \in Nat /\ MaxPieces \in Nat
  BY FileTypes DEF WatchFits
<1> DEFINE upto0 == IF size < Len(file) THEN size ELSE Len(file)
           text0 == held \o SubSeq(file, offset + 1, upto0)
           ends0 == {k \in DOMAIN text0 : text0[k] = "nl"}
           cut0 == IF ends0 = {} THEN 0 ELSE CHOOSE k \in ends0 : \A j \in ends0 : j <= k
<1>2. /\ offset' = (IF upto0 > offset THEN upto0 ELSE offset)
      /\ lines' = W(markdown)!SplitLines(SubSeq(text0, 1, cut0), offset - Len(held))
      /\ held' = SubSeq(text0, cut0 + 1, Len(text0))
  BY Zenon DEF W!Read
<1>3. PICK upto \in Nat : upto = upto0 /\ upto <= Len(file)
  BY <1>1
<1>4. PICK piece : piece = SubSeq(file, offset + 1, upto)
  OBVIOUS
<1>5. /\ piece \in Seq(S) /\ Len(piece) = IF upto > offset THEN upto - offset ELSE 0
      /\ \A j \in 1 .. Len(piece) : piece[j] = file[offset + j]
  <2> HIDE DEF S
  <2>1. \A j \in offset + 1 .. upto : file[j] \in S
    BY <1>1, <1>3
  <2>2. /\ piece \in Seq(S)
        /\ Len(piece) = (IF offset + 1 <= upto THEN upto - (offset + 1) + 1 ELSE 0)
        /\ \A j \in 1 .. upto - (offset + 1) + 1 : piece[j] = file[(offset + 1) + j - 1]
    <3>1. offset + 1 \in Int /\ upto \in Int
      BY <1>1, <1>3
    <3>2. QED
      BY <1>4, <2>1, <3>1, SubSeqProperties
  <2>3. Len(piece) = IF upto > offset THEN upto - offset ELSE 0
    BY <1>1, <1>3, <2>2
  <2>4. ASSUME NEW j \in 1 .. Len(piece) PROVE piece[j] = file[offset + j]
    <3>1. j \in 1 .. upto - (offset + 1) + 1 /\ (offset + 1) + j - 1 = offset + j
      BY <1>1, <1>3, <2>3
    <3>2. QED
      BY <2>2, <3>1
  <2>5. QED
    BY <2>2, <2>3, <2>4
<1>6. PICK text : text = text0
  OBVIOUS
<1>7. /\ text \in Seq(S) /\ Len(text) = Len(held) + Len(piece) /\ Len(text) \in Nat
      /\ \A j \in 1 .. Len(held) : text[j] = held[j]
      /\ \A j \in Len(held) + 1 .. Len(text) : text[j] = piece[j - Len(held)]
  <2> HIDE DEF S
  <2>1. text = held \o piece /\ Len(piece) \in Nat
    BY <1>1, <1>3, <1>4, <1>5, <1>6
  <2>2. /\ text \in Seq(S) /\ Len(text) = Len(held) + Len(piece)
        /\ \A j \in 1 .. Len(held) + Len(piece) :
             text[j] = IF j <= Len(held) THEN held[j] ELSE piece[j - Len(held)]
    BY <1>1, <1>5, <2>1, ConcatProperties
  <2>3. QED
    BY <1>1, <2>1, <2>2
<1>8. ends0 = {k \in 1 .. Len(text) : text[k] = "nl"}
  <2>1. DOMAIN text = 1 .. Len(text)
    BY <1>7
  <2>2. ends0 = {k \in DOMAIN text : text[k] = "nl"}
    BY <1>6
  <2>3. QED
    BY <2>1, <2>2
<1> HIDE DEF text0, ends0
<1>9. PICK cut : cut = cut0
  <2> HIDE DEF cut0
  <2>1. QED
    OBVIOUS
<1>10. cut \in Nat /\ cut <= Len(text) /\ (cut # 0 => text[cut] = "nl")
       /\ \A j \in cut + 1 .. Len(text) : text[j] # "nl"
  <2>1. CASE ends0 = {}
    <3>1. cut = 0
      BY <1>9, <2>1
    <3>2. QED
      BY <1>7, <1>8, <2>1, <3>1
  <2>2. CASE ends0 # {}
    <3>1. \A k \in ends0 : k \in 0 .. Len(text)
      BY <1>7, <1>8
    <3>2. cut \in ends0 /\ \A j \in ends0 : j <= cut
      <4>1. \E k \in ends0 : \A j \in ends0 : j <= k
        BY <1>7, <2>2, <3>1, GreatestExists
      <4>2. QED
        BY <1>9, <2>2, <4>1
    <3>3. cut \in Nat /\ cut \in 1 .. Len(text) /\ text[cut] = "nl"
      BY <1>7, <1>8, <3>2
    <3>4. ASSUME NEW j \in cut + 1 .. Len(text) PROVE text[j] # "nl"
      <4>1. j \in 1 .. Len(text) /\ ~(j <= cut)
        BY <1>7, <3>3
      <4>2. QED
        BY <1>8, <3>2, <4>1
    <3>5. QED
      BY <3>3, <3>4
  <2>3. QED
    BY <2>1, <2>2
<1>11. /\ offset' = IF upto > offset THEN upto ELSE offset
      /\ lines' = W(markdown)!SplitLines(SubSeq(text, 1, cut), b)
      /\ held' = SubSeq(text, cut + 1, Len(text))
  <2> HIDE DEF cut0, upto0
  <2>1. QED
    BY <1>2, <1>3, <1>6, <1>9
<1>12. b \in Nat /\ b + Len(held) = offset
  BY <1>1
<1>13. /\ offset' = b + Len(text) /\ offset <= offset'
       /\ offset <= Len(file) => offset' <= Len(file)
       /\ offset' <= MaxPieces
  <2>1. CASE upto > offset
    <3>1. Len(text) = Len(held) + (upto - offset) /\ offset' = upto
      BY <1>3, <1>5, <1>7, <1>11, <2>1
    <3>2. QED
      BY <1>1, <1>3, <1>12, <2>1, <3>1
  <2>2. CASE ~(upto > offset)
    <3>1. Len(text) = Len(held) + 0 /\ offset' = offset
      BY <1>3, <1>5, <1>7, <1>11, <2>2
    <3>2. QED
      BY <1>1, <1>12, <3>1
  <2>3. QED
    BY <2>1, <2>2
<1>14. ASSUME NEW j \in Len(held) + 1 .. Len(text) PROVE text[j] = file[b + j]
  <2>1. Len(piece) \in Nat
    BY <1>1, <1>3, <1>5
  <2>2. j - Len(held) \in 1 .. Len(piece) /\ offset + (j - Len(held)) = b + j
    BY <1>1, <1>7, <1>12, <2>1
  <2>3. QED
    BY <1>5, <1>7, <2>2
<1> HIDE DEF S, cut0, upto0
<1>15. QED
  BY <1>7, <1>10, <1>11, <1>12, <1>13, <1>14 DEF S

LEMMA ReadKeeps ==
  ASSUME NEW markdown \in BOOLEAN, TailerInv(markdown), W(markdown)!Read
  PROVE  TailerInv(markdown)'
<1>1. /\ FileFits(markdown) /\ WatchFits(markdown) /\ OffsetsFit /\ Following(markdown)
      /\ file \in Seq(PiecesOf(markdown)) /\ Len(file) \in 0 .. MaxPieces
      /\ edition \in Nat /\ MaxPieces \in Nat
  BY FileTypes DEF TailerInv
<1>2. /\ watch = "read" /\ watch' = "feed"
      /\ UNCHANGED <<file, edition, budget, size, caughtUp, quiet, buffer, known, onDisk, seen,
                     since, told, lost, failures>>
  BY DEF W!Read, W!book
<1>3. Handled' = Handled
  BY <1>2 DEF Handled
<1>4. FileFits(markdown)' /\ OffsetsFit'
  BY <1>1, <1>2, <1>3, FileStands, OffsetsKeep
<1>5. PICK b : b = offset - Len(held)
  OBVIOUS
<1>6. PICK text \in Seq(PiecesOf(markdown)), cut \in Nat :
           /\ b \in Nat /\ cut <= Len(text) /\ offset' = b + Len(text) /\ offset <= offset'
           /\ offset <= Len(file) => offset' <= Len(file)
           /\ offset' <= MaxPieces
           /\ \A j \in 1 .. Len(held) : text[j] = held[j]
           /\ \A j \in Len(held) + 1 .. Len(text) : text[j] = file[b + j]
           /\ cut # 0 => text[cut] = "nl"
           /\ \A j \in cut + 1 .. Len(text) : text[j] # "nl"
           /\ lines' = W(markdown)!SplitLines(SubSeq(text, 1, cut), b)
           /\ held' = SubSeq(text, cut + 1, Len(text))
  BY <1>1, <1>5, TakenFrom
<1>7. PICK whole : whole = SubSeq(text, 1, cut)
  OBVIOUS
<1>8. /\ whole \in Seq(PiecesOf(markdown)) /\ Len(whole) = cut
      /\ \A j \in 1 .. cut : whole[j] = text[j]
  BY <1>6, <1>7
<1>9. /\ held' \in Seq(PiecesOf(markdown)) /\ Len(held') = Len(text) - cut
      /\ \A j \in 1 .. Len(held') : held'[j] = text[cut + j]
  BY <1>6
<1>10. Listing(lines')
  BY <1>6, <1>7, <1>8, SplitLists
<1>11. WatchFits(markdown)'
  <2>1. Len(text) \in Nat /\ offset' \in 0 .. MaxPieces /\ Len(held') <= offset'
    BY <1>1, <1>6, <1>9
  <2>2. QED
    BY <1>1, <1>2, <1>9, <1>10, <2>1 DEF WatchFits
<1>12. (offset - Len(held))' = b + cut
  <2>1. Len(text) \in Nat /\ offset' = b + Len(text) /\ Len(held') = Len(text) - cut
    BY <1>6, <1>9
  <2>2. (b + Len(text)) - (Len(text) - cut) = b + cut
    BY <1>6, <2>1
  <2>3. QED
    BY <2>1, <2>2
<1>13. ASSUME seen = edition PROVE Follows(markdown, b + cut)'
  <2>1. Follows(markdown, b)
    BY <1>1, <1>2, <1>5, <1>13 DEF Following
  <2>2. /\ offset <= Len(file) /\ since <= b /\ Between(file, since, b) /\ since \in Nat
        /\ offset' <= Len(file) /\ Len(text) \in Nat /\ Len(held) \in Nat
        /\ \A k \in LinesIn(file, since, b) : LineAt(edition, k) \in Handled
    BY <1>1, <1>2, <1>6, <2>1 DEF Follows, Attended, WatchFits
  <2>3. \A j \in 1 .. Len(text) : text[j] = file[b + j]
    <3>1. \A j \in 1 .. Len(held) : text[j] = file[b + j]
      BY <1>6, <2>1 DEF Follows
    <3>2. QED
      BY <1>6, <2>2, <3>1
  <2>4. Between(file, since, b + cut)
    <3>1. CASE cut = 0
      BY <1>6, <2>2, <3>1
    <3>2. CASE cut # 0
      BY <1>6, <2>2, <2>3, <3>2 DEF Between
    <3>3. QED
      BY <3>1, <3>2
  <2>5. \A j \in 1 .. Len(held') : held'[j] = file[(b + cut) + j] /\ held'[j] # "nl"
    <3>1. ASSUME NEW j \in 1 .. Len(held')
          PROVE  held'[j] = file[(b + cut) + j] /\ held'[j] # "nl"
      <4>1. cut + j \in 1 .. Len(text) /\ cut + j \in cut + 1 .. Len(text)
            /\ b + (cut + j) = (b + cut) + j
        BY <1>6, <1>9, <2>2
      <4>2. QED
        BY <1>6, <1>9, <2>3, <4>1
    <3>2. QED
      BY <3>1
  <2>6. ASSUME NEW k \in LinesIn(file, since, b + cut)
        PROVE  LineAt(edition, k) \in Handled \/ Pending(markdown, k)'
    <3>1. PICK e \in k .. b + cut : LineEnds(file, k, e)
      BY DEF LinesIn
    <3>2. /\ k \in Nat \ {0} /\ e \in Nat /\ k <= e /\ e <= b + cut /\ k > since
      BY <1>6, <2>2 DEF LinesIn
    <3>3. /\ k <= Len(file) /\ file[e] = "nl" /\ \A j \in k .. e - 1 : file[j] \notin {"nl", "sep"}
          /\ k = 1 \/ file[k - 1] = "nl"
      BY <3>1 DEF LineEnds
    <3>4. CASE k <= b
      <4>1. e <= b
        <5>1. SUFFICES ASSUME ~(e <= b) PROVE FALSE
          OBVIOUS
        <5>2. b \in k .. e - 1 /\ b # 0 /\ b # since
          BY <1>6, <2>2, <3>2, <3>4, <5>1
        <5>3. QED
          BY <2>2, <3>3, <5>2 DEF Between
      <4>2. k \in LinesIn(file, since, b)
        BY <1>6, <2>2, <3>1, <3>2, <3>4, <4>1 DEF LinesIn
      <4>3. QED
        BY <2>2, <4>2
    <3>5. CASE ~(k <= b)
      <4>1. PICK m \in Nat \ {0}, n \in Nat : k = b + m /\ e = b + n
        <5>1. k - b \in Nat \ {0} /\ e - b \in Nat /\ k = b + (k - b) /\ e = b + (e - b)
          BY <1>6, <3>2, <3>5
        <5>2. QED
          BY <5>1
      <4>2. m \in 1 .. Len(whole) /\ n \in m .. Len(whole) /\ Len(whole) \in Nat
        BY <1>6, <1>8, <3>2, <4>1
      <4>3. \A j \in 1 .. Len(whole) : whole[j] = file[b + j]
        <5>1. \A j \in 1 .. Len(whole) : j \in 1 .. cut /\ j \in 1 .. Len(text)
          BY <1>6, <1>8, <2>2
        <5>2. QED
          BY <1>8, <2>3, <5>1
      <4>4. whole[n] = "nl" /\ \A j \in m .. n - 1 : whole[j] \notin {"nl", "sep"}
        <5>1. n \in 1 .. Len(whole)
          BY <4>2
        <5>2. ASSUME NEW j \in m .. n - 1 PROVE whole[j] \notin {"nl", "sep"}
          <6>1. j \in 1 .. Len(whole) /\ b + j \in k .. e - 1
            BY <1>6, <4>1, <4>2
          <6>2. QED
            BY <3>3, <4>3, <6>1
        <5>3. QED
          BY <3>3, <4>1, <4>3, <5>1, <5>2
      <4>5. m = 1 \/ whole[m - 1] = "nl"
        <5>1. SUFFICES ASSUME m # 1 PROVE whole[m - 1] = "nl"
          OBVIOUS
        <5>2. m - 1 \in 1 .. Len(whole) /\ b + (m - 1) = k - 1 /\ k # 1
          BY <1>6, <4>1, <4>2, <5>1
        <5>3. QED
          BY <3>3, <4>3, <5>2
      <4>6. HasLine(W(markdown)!SplitLines(whole, b),
                    [edition |-> seen, from |-> b + m - 1, text |-> SubSeq(whole, m, n - 1)])
        <5>1. b \in Nat /\ whole \in Seq(PiecesOf(markdown))
          BY <1>6, <1>8
        <5>2. QED
          BY <4>2, <4>4, <4>5, <5>1, SplitFinds
      <4>7. \E i \in DOMAIN lines' : lines'[i].edition = edition /\ lines'[i].from = k - 1
                                   /\ lines'[i].text = SubSeq(whole, m, n - 1)
        <5>1. b + m - 1 = k - 1
          BY <1>6, <4>1
        <5>2. lines' = W(markdown)!SplitLines(whole, b)
          BY <1>6, <1>7
        <5>3. HasLine(lines', [edition |-> edition, from |-> k - 1, text |-> SubSeq(whole, m, n - 1)])
          BY <1>13, <4>6, <5>1, <5>2
        <5>4. QED
          BY <5>3 DEF HasLine
      <4>8. SubSeq(whole, m, n - 1) \in TextsOf(markdown)
        <5>1. /\ markdown => n = m + 1 /\ whole[m] \in {"text", "mark"}
              /\ ~markdown => n = m + 2 /\ whole[m] = "head" /\ whole[m + 1] = "tail"
          <6>1. /\ markdown => e = k + 1 /\ file[k] \in {"text", "mark"}
                /\ ~markdown => e = k + 2 /\ file[k] = "head" /\ file[k + 1] = "tail"
            BY <1>1, <3>1, <3>2, LineForm DEF FileFits
          <6>2. CASE markdown
            BY <1>6, <4>1, <4>2, <4>3, <6>1, <6>2
          <6>3. CASE ~markdown
            <7>1. n = m + 2 /\ whole[m] = "head"
              BY <1>6, <4>1, <4>2, <4>3, <6>1, <6>3
            <7>2. m + 1 \in 1 .. Len(whole) /\ b + (m + 1) = k + 1
              BY <1>6, <4>1, <4>2, <7>1
            <7>3. QED
              BY <4>3, <6>1, <6>3, <7>1, <7>2
          <6>4. QED
            BY <6>2, <6>3
        <5>2. CASE markdown
          <6>1. SubSeq(whole, m, m) = <<whole[m]>>
            BY <1>8, <4>2, StretchOfOne
          <6>2. n - 1 = m
            BY <5>1, <5>2
          <6>3. QED
            BY <5>1, <5>2, <6>1, <6>2 DEF TextsOf
        <5>3. CASE ~markdown
          <6>1. m + 1 \in 1 .. Len(whole) /\ n - 1 = m + 1
            BY <4>2, <5>1, <5>3
          <6>2. SubSeq(whole, m, m + 1) = <<whole[m], whole[m + 1]>>
            BY <1>8, <4>2, <6>1, StretchOfTwo
          <6>3. QED
            BY <5>1, <5>3, <6>1, <6>2 DEF TextsOf
        <5>4. QED
          BY <5>2, <5>3
      <4>9. QED
        BY <1>2, <4>7, <4>8 DEF Pending
    <3>6. QED
      BY <3>4, <3>5
  <2>7. since <= b + cut
    BY <1>6, <2>2
  <2>8. QED
    BY <1>2, <1>3, <2>2, <2>4, <2>5, <2>6, <2>7 DEF Follows, Attended
<1>14. Following(markdown)'
  BY <1>2, <1>12, <1>13 DEF Following
<1>15. QED
  BY <1>4, <1>11, <1>14 DEF TailerInv

\* A step of the watch that leaves its place in the file.
LEMMA PlaceStands ==
  ASSUME NEW markdown \in BOOLEAN, TailerInv(markdown), Watching,
         UNCHANGED <<offset, held, size, seen, since, known, onDisk, failures, quiet>>,
         watch' \in {"off", "stat", "read", "feed", "write", "over"}, caughtUp' \in BOOLEAN,
         Listing(lines'),
         watch' \notin {"off", "over"} =>
           /\ watch \in {"stat", "read", "feed", "write"}
           /\ seen = edition => \A k : Attended(markdown, k) => Attended(markdown, k)'
  PROVE  TailerInv(markdown)'
<1>1. /\ FileFits(markdown) /\ WatchFits(markdown) /\ OffsetsFit /\ Following(markdown)
      /\ UNCHANGED <<file, edition, budget>>
  BY DEF TailerInv, Watching
<1>2. FileFits(markdown)' /\ OffsetsFit'
  BY <1>1, FileStands, OffsetsKeep DEF Watching
<1>3. WatchFits(markdown)'
  BY <1>1, Zenon DEF WatchFits
<1>4. Following(markdown)'
  <2>1. SUFFICES ASSUME watch' \in {"stat", "read", "feed", "write"}, seen = edition
                 PROVE  Follows(markdown, offset - Len(held))'
    BY <1>1 DEF Following
  <2>2. PICK b : b = offset - Len(held)
    OBVIOUS
  <2>3. Follows(markdown, b)
    BY <1>1, <2>1, <2>2 DEF Following
  <2>4. \A k \in LinesIn(file, since, b) : Attended(markdown, k)'
    BY <2>1, <2>3 DEF Follows
  <2>5. Follows(markdown, b)'
    BY <1>1, <2>3, <2>4 DEF Follows
  <2>6. QED
    BY <2>2, <2>5
<1>5. QED
  BY <1>2, <1>3, <1>4 DEF TailerInv

LEMMA FeedKeeps ==
  ASSUME NEW markdown \in BOOLEAN, TailerInv(markdown), W(markdown)!Feed
  PROVE  TailerInv(markdown)'
<1>1. /\ watch = "feed" /\ watch' = "feed" /\ lines # <<>> /\ lines' = Tail(lines)
      /\ UNCHANGED <<file, edition, budget, offset, held, size, caughtUp, quiet, known, onDisk,
                     seen, since, lost, failures>>
  BY DEF W!Feed, W!book
<1>2. PICK line : line = Head(lines)
  OBVIOUS
<1>3. PICK id : id = [edition |-> line.edition, from |-> line.from]
  OBVIOUS
<1>4. /\ Handled \subseteq Handled'
      /\ line.text \in TextsOf(markdown) => id \in Handled'
  <2>1. CASE ~markdown
    <3>1. CASE line.text = <<"head", "tail">>
      <4>1. told' = told \cup {id} /\ buffer' = buffer
        BY <1>2, <1>3, <2>1, <3>1 DEF W!Feed, W!Id
      <4>2. QED
        BY <1>1, <4>1 DEF Handled
    <3>2. CASE line.text # <<"head", "tail">>
      <4>1. told' = told /\ buffer' = buffer
        BY <1>2, <2>1, <3>2 DEF W!Feed
      <4>2. QED
        BY <1>1, <2>1, <3>2, <4>1 DEF Handled, TextsOf
    <3>3. QED
      BY <3>1, <3>2
  <2>2. CASE markdown
    <3>0. <<"text">> # <<"mark">>
      OBVIOUS
    <3>1. CASE line.text = <<"text">>
      <4>1. told' = told /\ buffer' = buffer \cup {id}
        BY <1>2, <1>3, <2>2, <3>0, <3>1 DEF W!Feed, W!Id
      <4>2. QED
        BY <1>1, <4>1 DEF Handled
    <3>2. CASE line.text = <<"mark">>
      <4>1. told' = told \cup buffer \cup {id} /\ buffer' = {}
        BY <1>2, <1>3, <2>2, <3>0, <3>2 DEF W!Feed, W!Id
      <4>2. QED
        BY <1>1, <4>1 DEF Handled
    <3>3. CASE line.text \notin {<<"text">>, <<"mark">>}
      <4>1. told' = told /\ buffer' = buffer
        BY <1>2, <2>2, <3>3 DEF W!Feed
      <4>2. QED
        BY <1>1, <2>2, <3>3, <4>1 DEF Handled, TextsOf
    <3>4. QED
      BY <3>1, <3>2, <3>3
  <2>3. QED
    BY <2>1, <2>2
<1>5. Listing(lines)
  BY DEF TailerInv, WatchFits
<1>6. /\ Listing(lines') /\ 1 \in DOMAIN lines /\ line = lines[1]
      /\ \A n \in DOMAIN lines : n # 1 => n - 1 \in DOMAIN lines' /\ lines'[n - 1] = lines[n]
  BY <1>1, <1>2, <1>5, TailLists
<1>7. ASSUME NEW k, Attended(markdown, k) PROVE Attended(markdown, k)'
  <2>1. CASE LineAt(edition, k) \in Handled
    BY <1>1, <1>4, <2>1 DEF Attended
  <2>2. ASSUME NEW n \in DOMAIN lines, lines[n].edition = edition, lines[n].from = k - 1,
               lines[n].text \in TextsOf(markdown)
        PROVE  Attended(markdown, k)'
    <3>1. CASE n = 1
      <4>1. id = LineAt(edition, k) /\ id \in Handled'
        BY <1>3, <1>4, <1>6, <2>2, <3>1 DEF LineAt
      <4>2. QED
        BY <1>1, <4>1 DEF Attended
    <3>2. CASE n # 1
      <4>1. PICK m \in DOMAIN lines' : lines'[m] = lines[n]
        BY <1>6, <3>2
      <4>2. Pending(markdown, k)'
        BY <1>1, <2>2, <4>1 DEF Pending
      <4>3. QED
        BY <1>1, <4>2 DEF Attended
    <3>3. QED
      BY <3>1, <3>2
  <2>3. QED
    BY <1>7, <2>1, <2>2 DEF Attended, Pending
<1>8. caughtUp' \in BOOLEAN
  BY <1>1, Zenon DEF TailerInv, WatchFits
<1>9. QED
  BY <1>1, <1>4, <1>6, <1>7, <1>8, PlaceStands DEF Watching

LEMMA SaveKeeps ==
  ASSUME NEW markdown \in BOOLEAN, TailerInv(markdown), W(markdown)!Save
  PROVE  TailerInv(markdown)'
<1>1. /\ FileFits(markdown) /\ WatchFits(markdown) /\ OffsetsFit /\ Following(markdown)
      /\ Len(file) \in 0 .. MaxPieces /\ edition \in Nat /\ MaxPieces \in Nat
  BY FileTypes DEF TailerInv
<1>2. /\ watch = "feed" /\ watch' = "write" /\ lines = <<>>
      /\ known' = [at |-> offset - Len(held), edition |-> seen, since |-> since]
      /\ UNCHANGED <<file, edition, budget, offset, held, size, lines, quiet, buffer, onDisk,
                     seen, since, told, lost, failures>>
  BY DEF W!Save, W!At
<1>3. caughtUp' \in BOOLEAN
  <2>1. PICK more : more = (offset >= size)
    OBVIOUS
  <2>2. caughtUp' = (caughtUp \/ offset >= size)
    BY DEF W!Save
  <2>3. QED
    BY <2>2, Zenon
<1>4. Handled' = Handled
  BY <1>2 DEF Handled
<1>5. PICK b : b = offset - Len(held)
  OBVIOUS
<1>6. b \in 0 .. MaxPieces /\ b <= offset /\ seen \in Nat /\ seen <= edition /\ since \in Nat
  <2>1. offset \in 0 .. MaxPieces /\ Len(held) \in Nat /\ Len(held) <= offset
    BY <1>1 DEF WatchFits
  <2>2. QED
    BY <1>1, <1>5, <2>1 DEF WatchFits
<1>7. seen = edition => Follows(markdown, b)
  BY <1>1, <1>2, <1>5 DEF Following
<1>8. ASSUME NEW k PROVE ~Pending(markdown, k)
  BY <1>2 DEF Pending
<1>9. OffsetFits(known', file, edition, Handled)
  <2>1. known'.at = b /\ known'.edition = seen /\ known'.since = since
    BY <1>2, <1>5
  <2>2. seen = edition => /\ b <= Len(file) /\ since <= b /\ Between(file, since, b)
                          /\ Dealt(file, edition, Handled, since, b)
    <3>1. SUFFICES ASSUME seen = edition
                   PROVE  /\ b <= Len(file) /\ since <= b /\ Between(file, since, b)
                          /\ Dealt(file, edition, Handled, since, b)
      OBVIOUS
    <3>2. offset <= Len(file) /\ offset \in Nat
      BY <1>1, <1>7, <3>1 DEF Follows, WatchFits
    <3>3. b <= Len(file)
      BY <1>1, <1>6, <3>2
    <3>4. QED
      BY <1>7, <1>8, <3>1, <3>3 DEF Follows, Attended, Dealt
  <2>3. QED
    BY <1>6, <2>1, <2>2 DEF OffsetFits
<1>10. FileFits(markdown)' /\ OffsetsFit'
  BY <1>1, <1>2, <1>4, <1>9, FileStands DEF OffsetsFit
<1>11. WatchFits(markdown)'
  <2>1. watch' \in {"off", "stat", "read", "feed", "write", "over"}
    BY <1>2
  <2>2. QED
    BY <1>1, <1>2, <1>3, <2>1, Zenon DEF WatchFits
<1>12. Following(markdown)'
  <2>1. ASSUME seen = edition PROVE Follows(markdown, b)'
    <3>1. Follows(markdown, b)
      BY <1>7, <2>1
    <3>2. \A k \in LinesIn(file, since, b) : LineAt(edition, k) \in Handled
      BY <1>8, <3>1 DEF Follows, Attended
    <3>3. QED
      BY <1>2, <1>4, <3>1, <3>2 DEF Follows, Attended
  <2>2. (offset - Len(held))' = b
    BY <1>2, <1>5
  <2>3. QED
    BY <1>2, <2>1, <2>2 DEF Following
<1>13. QED
  BY <1>10, <1>11, <1>12 DEF TailerInv

LEMMA WriteOffsetsKeeps ==
  ASSUME NEW markdown \in BOOLEAN, TailerInv(markdown), W(markdown)!WriteOffsets
  PROVE  TailerInv(markdown)'
<1>1. /\ FileFits(markdown) /\ WatchFits(markdown) /\ OffsetsFit /\ Following(markdown)
  BY DEF TailerInv
<1>2. /\ watch = "write" /\ watch' = "stat" /\ onDisk' = known
      /\ UNCHANGED <<file, edition, budget, offset, held, size, lines, caughtUp, quiet, buffer,
                     known, seen, since, told, lost, failures>>
  BY DEF W!WriteOffsets
<1>3. Handled' = Handled
  BY <1>2 DEF Handled
<1>4. FileFits(markdown)' /\ OffsetsFit'
  BY <1>1, <1>2, <1>3, FileStands DEF OffsetsFit
<1>5. WatchFits(markdown)'
  <2>1. watch' \in {"off", "stat", "read", "feed", "write", "over"}
    BY <1>2
  <2>2. QED
    BY <1>1, <1>2, <2>1, Zenon DEF WatchFits
<1>6. Following(markdown)'
  <2>1. SUFFICES ASSUME seen = edition PROVE Follows(markdown, offset - Len(held))'
    BY <1>2 DEF Following
  <2>2. PICK b : b = offset - Len(held)
    OBVIOUS
  <2>3. Follows(markdown, b)
    BY <1>1, <1>2, <2>1, <2>2 DEF Following
  <2>4. \A k : Attended(markdown, k) => Attended(markdown, k)'
    BY <1>2, <1>3 DEF Attended
  <2>5. Follows(markdown, b)'
    BY <1>2, <2>3, <2>4 DEF Follows
  <2>6. QED
    BY <1>2, <2>2, <2>5
<1>7. QED
  BY <1>4, <1>5, <1>6 DEF TailerInv

\* A failure ends the watch, and what is on the disk was kept before.
LEMMA FailingKeeps ==
  ASSUME NEW markdown \in BOOLEAN, TailerInv(markdown), W(markdown)!Failing,
         known' \in {known, onDisk, W(markdown)!None},
         onDisk' \in {known, onDisk, W(markdown)!None}
  PROVE  TailerInv(markdown)'
<1>1. /\ FileFits(markdown) /\ WatchFits(markdown) /\ OffsetsFit
      /\ edition \in Nat \ {0} /\ MaxPieces \in Nat
  BY FileTypes DEF TailerInv
<1>2. /\ watch' = "off" /\ failures' = failures + 1 /\ failures < MaxFailures
      /\ UNCHANGED <<file, edition, budget, offset, held, size, lines, caughtUp, quiet, buffer,
                     seen, since, told, lost>>
  BY DEF W!Failing
<1>3. Handled' = Handled
  BY <1>2 DEF Handled
<1>4. OffsetFits(W(markdown)!None, file, edition, Handled)
  BY <1>1 DEF W!None, OffsetFits
<1>5. FileFits(markdown)' /\ OffsetsFit'
  BY <1>1, <1>2, <1>3, <1>4, FileStands DEF OffsetsFit
<1>6. WatchFits(markdown)'
  <2>1. watch' \in {"off", "stat", "read", "feed", "write", "over"}
    BY <1>2
  <2>2. failures' \in 0 .. MaxFailures
    BY <1>1, <1>2, BoundsOfTail DEF WatchFits
  <2>3. QED
    BY <1>1, <1>2, <2>1, <2>2, Zenon DEF WatchFits
<1>7. Following(markdown)'
  BY <1>2 DEF Following
<1>8. QED
  BY <1>5, <1>6, <1>7 DEF TailerInv

LEMMA TailerNext ==
  ASSUME NEW markdown \in BOOLEAN, TailerInv(markdown), W(markdown)!Next
  PROVE  TailerInv(markdown)'
<1>1. CASE W(markdown)!Write \/ W(markdown)!Rewrite \/ W(markdown)!StartWatch
  BY <1>1, WriteKeeps, RewriteKeeps, StartKeeps
<1>2. CASE W(markdown)!StatGrown \/ \E idle \in BOOLEAN : W(markdown)!StatQuiet(idle)
  BY <1>2, StatKeeps
<1>3. CASE W(markdown)!Read \/ W(markdown)!Feed \/ W(markdown)!Save \/ W(markdown)!WriteOffsets
  BY <1>3, ReadKeeps, FeedKeeps, SaveKeeps, WriteOffsetsKeeps
<1>4. CASE W(markdown)!WatchFails
  BY <1>4, FailingKeeps DEF W!WatchFails
<1>5. CASE W(markdown)!Reboot
  <2>1. W(markdown)!Failing /\ known' = onDisk' /\ onDisk' \in {known, onDisk, W(markdown)!None}
    BY <1>5 DEF W!Reboot
  <2>2. QED
    BY <2>1, FailingKeeps
<1>6. QED
  BY <1>1, <1>2, <1>3, <1>4, <1>5 DEF W!Next

LEMMA TailerStands ==
  ASSUME NEW markdown \in BOOLEAN, TailerInv(markdown), UNCHANGED tailerVars
  PROVE  TailerInv(markdown)'
<1>1. UNCHANGED <<file, edition, budget, watch, offset, held, size, lines, caughtUp, quiet,
                  buffer, known, onDisk, seen, since, told, lost, failures>>
  BY DEF tailerVars
<1>2. FileFits(markdown)' /\ OffsetsFit'
  <2>1. Handled' = Handled
    BY <1>1 DEF Handled
  <2>2. QED
    BY <1>1, <2>1, FileStands DEF TailerInv, OffsetsFit
<1>3. WatchFits(markdown)'
  BY <1>1, Zenon DEF TailerInv, WatchFits
<1>4. Following(markdown)'
  <2>1. Following(markdown)
    BY DEF TailerInv
  <2>2. QED
    BY <1>1, <2>1, Zenon DEF Following, Follows, Attended, Pending, Handled
<1>5. QED
  BY <1>2, <1>3, <1>4 DEF TailerInv

\* What the invariant says of a watch at the top of its loop, and of types.
LEMMA TailerTells ==
  ASSUME NEW markdown \in BOOLEAN, TailerInv(markdown)
  PROVE  W(markdown)!TypeOK /\ W(markdown)!NoLineSkipped
<1>1. /\ FileFits(markdown) /\ WatchFits(markdown) /\ OffsetsFit /\ Following(markdown)
      /\ Len(file) \in 0 .. MaxPieces
  BY FileTypes DEF TailerInv
<1>2. W(markdown)!TypeOK
  <2>1. \A record \in {known, onDisk} : record.at \in 0 .. MaxPieces
    BY <1>1 DEF OffsetsFit, OffsetFits
  <2>2. Len(file) <= MaxPieces
    BY <1>1, FileTypes
  <2>3. QED
    BY <1>1, <2>1, <2>2, Zenon DEF FileFits, WatchFits, W!TypeOK
<1>3. W(markdown)!NoLineSkipped
  <2>1. SUFFICES ASSUME watch = "stat", seen = edition, NEW k \in W(markdown)!WholeLines(offset)
                 PROVE  [edition |-> edition, from |-> k - 1] \in told \cup buffer \cup lost
    BY DEF W!NoLineSkipped
  <2>2. PICK b : b = offset - Len(held)
    OBVIOUS
  <2>3. Follows(markdown, b)
    BY <1>1, <2>1, <2>2 DEF Following
  <2>4. b \in Nat /\ offset = b + Len(held) /\ Len(held) \in Nat /\ since \in Nat
    <3>1. offset \in Nat /\ Len(held) \in Nat /\ Len(held) <= offset
      BY <1>1, FileTypes DEF WatchFits
    <3>2. QED
      BY <1>1, <2>2, <3>1 DEF WatchFits
  <2>5. PICK e \in k .. offset : LineEnds(file, k, e)
    BY DEF W!WholeLines, LineEnds
  <2>6. k \in since + 1 .. offset /\ k \in Nat /\ e \in Nat /\ k <= e
    BY <2>4, <2>5 DEF W!WholeLines
  <2>7. e <= b
    <3>1. SUFFICES ASSUME ~(e <= b) PROVE FALSE
      OBVIOUS
    <3>2. PICK j : j = e - b
      OBVIOUS
    <3>3. j \in 1 .. Len(held) /\ b + j = e
      BY <2>4, <2>5, <2>6, <3>1, <3>2
    <3>4. QED
      BY <2>3, <2>5, <3>3 DEF Follows, LineEnds
  <2>8. k \in LinesIn(file, since, b)
    BY <2>4, <2>5, <2>6, <2>7 DEF LinesIn
  <2>9. LineAt(edition, k) \in Handled
    BY <2>1, <2>3, <2>8 DEF Follows, Attended
  <2>10. QED
    BY <2>9 DEF LineAt, Handled
<1>4. QED
  BY <1>2, <1>3

FollowedInv ==
  /\ part = "records" => TailerInv(FALSE)
  /\ part = "history" => TailerInv(TRUE)

LEMMA FollowedAlways == Spec => []FollowedInv
<1>1. Init => FollowedInv
  <2>1. SUFFICES ASSUME Init PROVE FollowedInv
    OBVIOUS
  <2>2. W(FALSE)!Init
    BY <2>1 DEF Init
  <2>3. W(TRUE)!Init
    BY <2>2 DEF W!Init, W!None
  <2>4. QED
    BY <2>2, <2>3, TailerInit DEF FollowedInv
<1>2. ASSUME FollowedInv, [Next]_vars PROVE FollowedInv'
  <2>1. CASE Tailing
    <3>1. UNCHANGED part
      BY <2>1 DEF Tailing
    <3>2. CASE part = "records" /\ W(FALSE)!Next
      BY <1>2, <3>1, <3>2, TailerNext DEF FollowedInv
    <3>3. CASE part = "history" /\ W(TRUE)!Next
      BY <1>2, <3>1, <3>3, TailerNext DEF FollowedInv
    <3>4. QED
      BY <2>1, <3>2, <3>3 DEF Tailing
  <2>2. CASE UNCHANGED vars \/ Asking \/ Hooking \/ Parsing \/ Conversing \/ Listening
    <3>1. UNCHANGED <<part, tailerVars>>
      BY <2>2 DEF vars, Asking, Hooking, Parsing, Conversing, Listening
    <3>2. QED
      BY <1>2, <3>1, TailerStands DEF FollowedInv
  <2>3. QED
    BY <1>2, <2>1, <2>2 DEF Next
<1>3. QED
  BY <1>1, <1>2, PTL DEF Spec

\* Invariant: however a file is written in pieces, read in chunks, rewritten and
\* taken up again after failures and restarts, every whole line before the
\* offset was reported, is in the parser's buffer, or was there when a watch
\* ended, unless the file was rewritten and grew past the offset unnoticed (the
\* adapters' watch(), _read_range, _split_lines, _save_offsets).
THEOREM NoLineIsSkipped == Spec => []NoLineSkipped
<1>1. FollowedInv => NoLineSkipped
  BY TailerTells DEF FollowedInv, NoLineSkipped
<1>2. QED
  BY <1>1, FollowedAlways, PTL

-----------------------------------------------------------------------------
(* The parsers *)

\* What a sequence of sequences adds up to, from the left.
Adds(g, s) == g[0] = <<>> /\ \A k \in 1 .. Len(s) : g[k] = g[k - 1] \o s[k]

LEMMA FlattenAdds ==
  ASSUME NEW X, NEW s \in Seq(Seq(X))
  PROVE  \E g \in [0 .. Len(s) -> Seq(X)] : Adds(g, s) /\ P!FlattenSeq(s) = g[Len(s)]
<1> DEFINE n == Len(s)
           T == Seq(X)
           Sum(f) == [k \in 1 .. n |-> IF k = 1 THEN s[k] ELSE f[k - 1] \o s[k]]
<1>1. n \in Nat /\ \A k \in 1 .. n : s[k] \in T
  OBVIOUS
<1>2. <<>> \in T
  OBVIOUS
<1>3. PICK g \in [0 .. n -> T] : Adds(g, s)
  <2>1. PICK step \in [1 .. n -> [T -> T]] : \A k \in 1 .. n : \A t \in T : step[k][t] = t \o s[k]
    <3> DEFINE st == [k \in 1 .. n |-> [t \in T |-> t \o s[k]]]
    <3>1. \A k \in 1 .. n : \A t \in T : t \o s[k] \in T
      BY <1>1, ConcatProperties
    <3>2. st \in [1 .. n -> [T -> T]] /\ \A k \in 1 .. n : \A t \in T : st[k][t] = t \o s[k]
      <4> HIDE DEF T, n
      <4>1. QED
        BY <3>1
    <3> HIDE DEF st
    <3>3. QED
      BY <3>2
  <2>2. PICK none \in T : none = <<>>
    BY <1>2
  <2>3. PICK g \in [0 .. n -> T] : GoesBySteps(g, n, none, step)
    <3> HIDE DEF T, n
    <3>1. QED
      BY <1>1, StepByStep
  <2>4. ASSUME NEW k \in 1 .. n PROVE g[k] = g[k - 1] \o s[k]
    <3>1. k - 1 \in 0 .. n
      BY <1>1
    <3>2. g[k - 1] \in T
      BY <3>1
    <3>3. QED
      BY <2>1, <2>3, <3>2 DEF GoesBySteps
  <2>5. g[0] = <<>>
    BY <2>2, <2>3 DEF GoesBySteps
  <2>6. QED
    BY <2>4, <2>5 DEF Adds
<1>4. \A k \in 0 .. n : g[k] \in T
  OBVIOUS
<1>5. CASE n = 0
  <2>1. P!FlattenSeq(s) = s /\ s = <<>>
    BY <1>5 DEF P!FlattenSeq
  <2>2. QED
    BY <1>3, <1>5, <2>1 DEF Adds
<1>6. CASE n # 0
  <2>1. \E f : f = Sum(f)
    <3> DEFINE h == [k \in 1 .. n |-> g[k]]
    <3>1. ASSUME NEW k \in 1 .. n PROVE h[k] = IF k = 1 THEN s[k] ELSE h[k - 1] \o s[k]
      <4>1. g[k] = g[k - 1] \o s[k]
        BY <1>3 DEF Adds
      <4>2. CASE k = 1
        <5>1. g[0] = <<>> /\ s[1] \in T /\ k - 1 = 0
          BY <1>1, <1>3, <1>6, <4>2 DEF Adds
        <5>2. <<>> \o s[1] = s[1]
          BY <5>1, ConcatEmptySeq
        <5>3. QED
          BY <4>1, <4>2, <5>1, <5>2
      <4>3. CASE k # 1
        <5>1. k - 1 \in 1 .. n
          BY <1>1, <4>3
        <5>2. QED
          BY <4>1, <4>3, <5>1
      <4>4. QED
        BY <4>2, <4>3
    <3>2. h = [k \in 1 .. n |-> h[k]]
      OBVIOUS
    <3> HIDE DEF h
    <3>3. h = Sum(h)
      BY <3>1, <3>2
    <3>4. QED
      BY <3>3
  <2>2. PICK f : f = Sum(f) /\ P!FlattenSeq(s) = f[n]
    BY <1>6, <2>1 DEF P!FlattenSeq
  <2>3. \A k \in 1 .. n : f[k] = IF k = 1 THEN s[k] ELSE f[k - 1] \o s[k]
    BY <2>2
  <2> DEFINE Good == {k \in 0 .. n : k = 0 \/ f[k] = g[k]}
  <2>4. 0 \in Good
    BY <1>1
  <2>5. ASSUME NEW k \in 0 .. n - 1, k \in Good PROVE k + 1 \in Good
    <3>1. k + 1 \in 1 .. n /\ k + 1 \in 0 .. n /\ (k + 1) - 1 = k
      BY <1>1
    <3>2. g[k + 1] = g[k] \o s[k + 1]
      BY <1>3, <3>1 DEF Adds
    <3>3. CASE k = 0
      <4>1. g[0] = <<>> /\ s[1] \in T
        BY <1>1, <1>3, <3>1, <3>3 DEF Adds
      <4>2. <<>> \o s[1] = s[1]
        BY <4>1, ConcatEmptySeq
      <4>3. f[1] = s[1] /\ g[1] = s[1] /\ k + 1 = 1
        BY <2>3, <3>1, <3>2, <3>3, <4>1, <4>2
      <4>4. QED
        BY <3>1, <4>3
    <3>4. CASE k # 0
      <4>1. f[k] = g[k] /\ k + 1 # 1
        BY <2>5, <3>4
      <4>2. f[k + 1] = g[k + 1]
        BY <2>3, <3>1, <3>2, <4>1
      <4>3. QED
        BY <3>1, <4>2
    <3>5. QED
      BY <3>3, <3>4
  <2>6. n \in Good
    <3>1. n \in Nat
      BY <1>1
    <3> HIDE DEF Good, n
    <3>2. \A k \in 0 .. n : k \in Good
      BY <2>4, <2>5, <3>1, UpToBound
    <3>3. QED
      BY <3>1, <3>2
  <2>7. f[n] = g[n]
    BY <1>6, <2>6
  <2>8. QED
    BY <1>3, <2>2, <2>7
<1>7. QED
  BY <1>5, <1>6

LEMMA FlattenEmpty == P!FlattenSeq(<<>>) = <<>>
BY DEF P!FlattenSeq

LEMMA FlattenFits ==
  ASSUME NEW X, NEW s \in Seq(Seq(X))
  PROVE  P!FlattenSeq(s) \in Seq(X)
<1>1. PICK g \in [0 .. Len(s) -> Seq(X)] : P!FlattenSeq(s) = g[Len(s)]
  BY FlattenAdds
<1>2. Len(s) \in 0 .. Len(s)
  OBVIOUS
<1>3. QED
  BY <1>1, <1>2

LEMMA FlattenAppend ==
  ASSUME NEW X, NEW s \in Seq(Seq(X)), NEW e \in Seq(X)
  PROVE  P!FlattenSeq(Append(s, e)) = P!FlattenSeq(s) \o e
<1> DEFINE n == Len(s)
<1>1. PICK t : t = Append(s, e)
  OBVIOUS
<1>2. /\ t \in Seq(Seq(X)) /\ n \in Nat /\ Len(t) = n + 1
      /\ t[n + 1] = e /\ \A k \in 1 .. n : t[k] = s[k]
  <2>1. \A T : \A u \in Seq(T) : \A x \in T :
          /\ Append(u, x) \in Seq(T) /\ Len(u) \in Nat /\ Len(Append(u, x)) = Len(u) + 1
          /\ Append(u, x)[Len(u) + 1] = x /\ \A k \in 1 .. Len(u) : Append(u, x)[k] = u[k]
    OBVIOUS
  <2>2. QED
    BY <1>1, <2>1
<1>3. PICK g \in [0 .. n -> Seq(X)] : Adds(g, s) /\ P!FlattenSeq(s) = g[n]
  BY FlattenAdds
<1>4. PICK h \in [0 .. n + 1 -> Seq(X)] : Adds(h, t) /\ P!FlattenSeq(t) = h[n + 1]
  BY <1>2, FlattenAdds
<1> DEFINE Good == {k \in 0 .. n : h[k] = g[k]}
<1>5. 0 \in Good
  BY <1>2, <1>3, <1>4 DEF Adds
<1>6. ASSUME NEW k \in 0 .. n - 1, k \in Good PROVE k + 1 \in Good
  <2>1. k + 1 \in 1 .. n /\ k + 1 \in 1 .. n + 1 /\ k + 1 \in 0 .. n /\ (k + 1) - 1 = k
    BY <1>2
  <2>2. h[k + 1] = h[k] \o t[k + 1] /\ g[k + 1] = g[k] \o s[k + 1]
    BY <1>2, <1>3, <1>4, <2>1 DEF Adds
  <2>3. QED
    BY <1>2, <1>6, <2>1, <2>2
<1>7. h[n] = g[n]
  <2>1. n \in Nat
    BY <1>2
  <2> HIDE DEF Good, n
  <2>2. \A k \in 0 .. n : k \in Good
    BY <1>5, <1>6, <2>1, UpToBound
  <2>3. n \in Good
    BY <2>1, <2>2
  <2>4. QED
    BY <2>3 DEF Good
<1>8. h[n + 1] = h[n] \o t[n + 1]
  <2>1. n + 1 \in 1 .. Len(t) /\ (n + 1) - 1 = n
    BY <1>2
  <2>2. QED
    BY <1>4, <2>1 DEF Adds
<1>9. QED
  BY <1>1, <1>2, <1>3, <1>4, <1>7, <1>8

LEMMA SumsRegroup ==
  ASSUME NEW X, NEW s \in Seq(Seq(X)), NEW u \in Seq(Seq(X)), NEW x \in Seq(X)
  PROVE  (P!FlattenSeq(s) \o P!FlattenSeq(u)) \o x = P!FlattenSeq(s) \o (P!FlattenSeq(u) \o x)
<1>1. PICK v, w : v = P!FlattenSeq(s) /\ w = P!FlattenSeq(u)
  OBVIOUS
<1>2. v \in Seq(X) /\ w \in Seq(X)
  BY <1>1, FlattenFits
<1>3. (v \o w) \o x = v \o (w \o x)
  BY <1>2, Regroup
<1>4. QED
  BY <1>1, <1>3

LEMMA FlattenConcat ==
  ASSUME NEW X, NEW s \in Seq(Seq(X)), NEW t \in Seq(Seq(X))
  PROVE  P!FlattenSeq(s \o t) = P!FlattenSeq(s) \o P!FlattenSeq(t)
<1> DEFINE T == Seq(X)
           Front(k) == SubSeq(t, 1, k)
           Good == {k \in 0 .. Len(t) :
                      P!FlattenSeq(s \o Front(k)) = P!FlattenSeq(s) \o P!FlattenSeq(Front(k))}
<1>1. Len(t) \in Nat /\ P!FlattenSeq(s) \in T
  BY FlattenFits
<1>2. \A k \in 0 .. Len(t) : Front(k) \in Seq(T)
  <2>1. ASSUME NEW k \in 0 .. Len(t) PROVE SubSeq(t, 1, k) \in Seq(T)
    <3>1. k \in Int /\ 1 \in Int /\ \A j \in 1 .. k : t[j] \in T
      BY <1>1
    <3> HIDE DEF T
    <3>2. QED
      BY <3>1, SubSeqProperties
  <2>2. QED
    BY <2>1
<1>3. 0 \in Good
  <2>1. Front(0) = <<>>
    <3>1. 0 < 1 /\ 0 \in Int /\ 1 \in Int
      OBVIOUS
    <3>2. QED
      BY <3>1, SubSeqEmpty
  <2>2. s \o <<>> = s /\ P!FlattenSeq(s) \o <<>> = P!FlattenSeq(s)
    BY <1>1, ConcatEmptySeq
  <2>3. P!FlattenSeq(s \o Front(0)) = P!FlattenSeq(s) \o P!FlattenSeq(Front(0))
    <3> HIDE DEF Front
    <3>1. P!FlattenSeq(s \o Front(0)) = P!FlattenSeq(s)
      BY <2>1, <2>2
    <3>2. P!FlattenSeq(Front(0)) = <<>>
      BY <2>1, FlattenEmpty
    <3>3. QED
      BY <2>2, <3>1, <3>2
  <2>4. 0 \in 0 .. Len(t)
    BY <1>1
  <2> HIDE DEF Front
  <2>5. QED
    BY <2>3, <2>4
<1>4. ASSUME NEW k \in 0 .. Len(t) - 1, k \in Good PROVE k + 1 \in Good
  <2>1. k \in 0 .. Len(t) /\ k + 1 \in 1 .. Len(t) /\ k + 1 \in 0 .. Len(t)
    BY <1>1
  <2>2. PICK u \in Seq(T) : u = Front(k)
    BY <1>2, <2>1
  <2>3. PICK x \in T : x = t[k + 1]
    BY <2>1
  <2>4. Front(k + 1) = Append(u, x)
    <3> HIDE DEF T
    <3>1. QED
      BY <1>1, <2>1, <2>2, <2>3, FrontGrows DEF T
  <2>5. s \o Append(u, x) = Append(s \o u, x)
    BY ConcatAppend
  <2>6. s \o u \in Seq(T)
    BY ConcatProperties
  <2>7. /\ P!FlattenSeq(Append(s \o u, x)) = P!FlattenSeq(s \o u) \o x
        /\ P!FlattenSeq(Append(u, x)) = P!FlattenSeq(u) \o x
    BY <2>6, FlattenAppend
  <2>8. P!FlattenSeq(s \o u) = P!FlattenSeq(s) \o P!FlattenSeq(u)
    BY <1>4, <2>2
  <2>9. (P!FlattenSeq(s) \o P!FlattenSeq(u)) \o x = P!FlattenSeq(s) \o (P!FlattenSeq(u) \o x)
    <3>1. s \in Seq(Seq(X)) /\ u \in Seq(Seq(X)) /\ x \in Seq(X)
      OBVIOUS
    <3>2. PICK v \in Seq(X) : v = P!FlattenSeq(s)
      BY <1>1
    <3>3. PICK w \in Seq(X) : w = P!FlattenSeq(u)
      BY <3>1, FlattenFits
    <3>4. (v \o w) \o x = v \o (w \o x)
      BY ONLY <3>1, <3>2, <3>3, SMTT(30)
    <3>5. QED
      BY <3>2, <3>3, <3>4
  <2>10. QED
    BY <2>1, <2>4, <2>5, <2>7, <2>8, <2>9
<1>5. Len(t) \in Good
  <2> HIDE DEF Good
  <2>1. \A k \in 0 .. Len(t) : k \in Good
    BY <1>1, <1>3, <1>4, UpToBound
  <2>2. QED
    BY <1>1, <2>1
<1>6. Front(Len(t)) = t
  BY WholeFront
<1>7. QED
  BY <1>5, <1>6

\* Strings; no prover knows that a literal is one.
Str ==
  STRING \cup {"", "unknown", "started", "finished", "failed", "completed", "user", "assistant",
              "system", "edit"}

\* What a parser remembers, and what it says.
Pend == [id : Str, name : Str]
Memory == [tools : SUBSET Pend, title : Str, model : Str, user : Seq(Str),
           agent : Seq(Str)]
TurnSaid == [obs : {"turn"}, phase : Str]
TextSaid == [obs : {"output"}, role : Str, texts : Seq(Str)]
ToolSaid == [obs : {"tool"}, phase : Str, id : Str, name : Str]
AllSaid == TurnSaid \cup TextSaid \cup ToolSaid

ClaudeRecord ==
  [type : {"noise", "ai-title", "summary", "user", "assistant", "other"}, text : STRING,
   tool : STRING, name : STRING, failed : BOOLEAN, plain : BOOLEAN, hidden : BOOLEAN,
   stop : BOOLEAN, model : STRING]
CodexRecord ==
  [type : {"turn_context", "message", "call", "call_output", "task_started",
           "task_complete", "error", "noise", "other"}, role : STRING, text : STRING,
   tool : STRING, name : STRING, failed : BOOLEAN, synthetic : BOOLEAN, model : STRING]
AiderRecord ==
  {r \in [type : {"started", "prompt", "info", "markdown"}, text : STRING,
          info : {"", "blank", "model", "edit", "tokens", "other"}] :
     r.type = "info" => r.info # "" /\ (r.info = "other" => r.text # "")}

LEMMA RecordForms ==
  /\ P!LinesOf("claude") = ClaudeRecord
  /\ P!LinesOf("codex") = CodexRecord
  /\ P!LinesOf("aider") = AiderRecord
BY DEF P!LinesOf, ClaudeRecord, CodexRecord, AiderRecord

\* The record of a tool's call, and that of its result.
ToolId(f, id) == f = "codex" \/ id # ""
Calls(f, r, id) ==
  /\ f = "claude" => ~r.hidden
  /\ r.type \in {"assistant", "call"} /\ r.tool = id
Returns(f, r, id) ==
  /\ f = "claude" => ~r.hidden
  /\ r.type \in {"user", "call_output"} /\ r.tool = id

\* What a parser may say of the tools when it reads record r remembering p, and
\* what it then remembers of them.
Honest(f, p, r) ==
  {o \in AllSaid : (o.obs = "tool" /\ o.phase # "started") =>
     ToolId(f, o.id) /\ Returns(f, r, o.id) /\ o.name = P!NameOf(p, o.id)}
Remembers(f, p, r, q) ==
  \A t \in Pend :
    t \in q.tools <=>
      \/ ToolId(f, t.id) /\ Calls(f, r, t.id) /\ t.name = r.name
      \/ /\ t \in p.tools
         /\ ~(ToolId(f, t.id) /\ (Calls(f, r, t.id) \/ Returns(f, r, t.id)))

LEMMA SaysOf ==
  /\ \A phase \in Str : P!Turn(phase) \in TurnSaid
  /\ \A role \in Str, texts \in Seq(Str) : P!Output(role, texts) \in TextSaid
  /\ \A phase, id, name \in Str : P!Tool(phase, id, name) \in ToolSaid
BY DEF P!Turn, P!Output, P!Tool, TurnSaid, TextSaid, ToolSaid

LEMMA SingleSays == ASSUME NEW S, NEW o \in S PROVE <<o>> \in Seq(S)
OBVIOUS

LEMMA NothingSays == ASSUME NEW S PROVE <<>> \in Seq(S)
OBVIOUS

\* Turns, texts and calls say nothing of a tool's result.
LEMMA TextsAreHonest ==
  ASSUME NEW f, NEW p, NEW r, NEW o \in AllSaid, o.obs # "tool" \/ o.phase = "started"
  PROVE  <<o>> \in Seq(Honest(f, p, r))
<1>1. o \in Honest(f, p, r)
  BY DEF Honest
<1>2. QED
  BY <1>1, SingleSays

LEMMA PlainSays ==
  ASSUME NEW f, NEW p, NEW r
  PROVE  /\ \A phase \in Str : <<P!Turn(phase)>> \in Seq(Honest(f, p, r))
         /\ \A role, text \in Str : <<P!Output(role, <<text>>)>> \in Seq(Honest(f, p, r))
         /\ \A id, name \in Str : <<P!Tool("started", id, name)>> \in Seq(Honest(f, p, r))
<1>1. ASSUME NEW phase \in Str PROVE <<P!Turn(phase)>> \in Seq(Honest(f, p, r))
  <2>1. PICK o : o = P!Turn(phase)
    OBVIOUS
  <2>2. o \in AllSaid /\ o.obs # "tool"
    BY <2>1 DEF P!Turn, AllSaid, TurnSaid
  <2>3. QED
    BY <2>1, <2>2, TextsAreHonest
<1>2. ASSUME NEW role \in Str, NEW text \in Str
      PROVE  <<P!Output(role, <<text>>)>> \in Seq(Honest(f, p, r))
  <2>1. PICK o : o = P!Output(role, <<text>>)
    OBVIOUS
  <2>2. <<text>> \in Seq(Str)
    BY SingleSays
  <2>3. o \in AllSaid /\ o.obs # "tool"
    BY <2>1, <2>2 DEF P!Output, AllSaid, TextSaid
  <2>4. QED
    BY <2>1, <2>3, TextsAreHonest
<1>3. ASSUME NEW id \in Str, NEW name \in Str
      PROVE  <<P!Tool("started", id, name)>> \in Seq(Honest(f, p, r))
  <2>1. PICK o : o = P!Tool("started", id, name)
    OBVIOUS
  <2>2. o \in ToolSaid
    <3>1. "started" \in Str
      BY DEF Str
    <3>2. QED
      BY <2>1, <3>1, SaysOf
  <2>3. o \in AllSaid /\ o.phase = "started"
    BY <2>1, <2>2 DEF AllSaid, P!Tool
  <2>4. QED
    BY <2>1, <2>2, <2>3, TextsAreHonest
<1>4. QED
  BY <1>1, <1>2, <1>3

LEMMA NameIsString ==
  ASSUME NEW p \in Memory, NEW id
  PROVE  P!NameOf(p, id) \in Str
<1>1. ASSUME \E t \in p.tools : t.id = id
      PROVE  (CHOOSE t \in p.tools : t.id = id).name \in Str
  <2>1. PICK t : t = CHOOSE u \in p.tools : u.id = id
    OBVIOUS
  <2>2. t \in p.tools
    BY <1>1, <2>1
  <2>3. t \in Pend
    BY <2>2 DEF Memory
  <2>4. QED
    BY <2>1, <2>3 DEF Pend
<1>2. CASE \E t \in p.tools : t.id = id
  <2>1. P!NameOf(p, id) = (CHOOSE t \in p.tools : t.id = id).name
    BY <1>2 DEF P!NameOf
  <2>2. QED
    BY <1>1, <1>2, <2>1
<1>3. CASE ~\E t \in p.tools : t.id = id
  <2>1. P!NameOf(p, id) = "unknown"
    BY <1>3 DEF P!NameOf
  <2>2. QED
    BY <2>1 DEF Str
<1>4. QED
  BY <1>2, <1>3

\* A tool's call and its result.
LEMMA ToolStartsGives ==
  ASSUME NEW p \in Memory, NEW id \in Str, NEW name \in Str
  PROVE  /\ P!ToolStarts(p, id, name) \in Memory
         /\ P!ToolStarts(p, id, name) =
              [p EXCEPT !.tools = {t \in p.tools : t.id # id} \cup {[id |-> id, name |-> name]}]
<1>1. P!ToolStarts(p, id, name) =
        [p EXCEPT !.tools = {t \in p.tools : t.id # id} \cup {[id |-> id, name |-> name]}]
  BY DEF P!ToolStarts, P!Without, Memory
<1>2. [id |-> id, name |-> name] \in Pend
  BY DEF Pend
<1>3. {t \in p.tools : t.id # id} \cup {[id |-> id, name |-> name]} \in SUBSET Pend
  BY <1>2 DEF Memory
<1>4. QED
  BY <1>1, <1>3 DEF Memory

LEMMA ToolEndsGives ==
  ASSUME NEW f, NEW p \in Memory, NEW s \in Memory, s.tools = p.tools, NEW r,
         NEW id \in Str, NEW failed, ToolId(f, id), Returns(f, r, id)
  PROVE  /\ P!ToolEnds(s, id, failed).parser \in Memory
         /\ P!ToolEnds(s, id, failed).parser = [s EXCEPT !.tools = {t \in p.tools : t.id # id}]
         /\ P!ToolEnds(s, id, failed).out \in Seq(Honest(f, p, r))
<1>1. P!ToolEnds(s, id, failed).parser = [s EXCEPT !.tools = {t \in p.tools : t.id # id}]
  BY DEF P!ToolEnds, P!Says, P!Without, Memory
<1>2. [s EXCEPT !.tools = {t \in p.tools : t.id # id}] \in Memory
  BY DEF Memory
<1>3. PICK o : o = P!Tool(IF failed THEN "failed" ELSE "finished", id, P!NameOf(s, id))
  OBVIOUS
<1>4. P!NameOf(s, id) = P!NameOf(p, id) /\ P!NameOf(p, id) \in Str
  BY NameIsString DEF P!NameOf
<1>5. o \in AllSaid /\ o.id = id /\ o.name = P!NameOf(p, id)
  <2>1. o \in ToolSaid
    <3>1. PICK name \in Str : name = P!NameOf(s, id)
      BY <1>4
    <3>2. PICK phase : phase = IF failed THEN "failed" ELSE "finished"
      OBVIOUS
    <3> phase \in Str
      BY <3>2 DEF Str
    <3>3. o = P!Tool(phase, id, name)
      BY <1>3, <3>1, <3>2
    <3>4. QED
      BY <3>3, SaysOf
  <2>2. o.id = id /\ o.name = P!NameOf(p, id)
    BY <1>3, <1>4 DEF P!Tool
  <2>3. QED
    BY <2>1, <2>2 DEF AllSaid
<1>6. o \in Honest(f, p, r)
  BY <1>5 DEF Honest
<1>7. P!ToolEnds(s, id, failed).out = <<o>>
  BY <1>3 DEF P!ToolEnds, P!Says
<1>8. QED
  BY <1>1, <1>2, <1>6, <1>7, SingleSays

LEMMA RemembersSame ==
  ASSUME NEW f, NEW p, NEW q, q.tools = p.tools, NEW r,
         ToolId(f, r.tool) => ~Calls(f, r, r.tool) /\ ~Returns(f, r, r.tool)
  PROVE  Remembers(f, p, r, q)
<1>1. \A id : ToolId(f, id) => ~Calls(f, r, id) /\ ~Returns(f, r, id)
  BY DEF Calls, Returns
<1>2. QED
  BY <1>1 DEF Remembers

LEMMA RemembersCall ==
  ASSUME NEW f, NEW p, NEW q, NEW r, ToolId(f, r.tool), Calls(f, r, r.tool),
         q.tools = {t \in p.tools : t.id # r.tool} \cup {[id |-> r.tool, name |-> r.name]}
  PROVE  Remembers(f, p, r, q)
<1>1. \A id : Calls(f, r, id) <=> id = r.tool
  BY DEF Calls
<1>2. \A id : ~Returns(f, r, id)
  BY DEF Calls, Returns
<1>3. ASSUME NEW t \in Pend
      PROVE  t = [id |-> r.tool, name |-> r.name] <=> t.id = r.tool /\ t.name = r.name
  BY DEF Pend
<1>4. QED
  BY <1>1, <1>2, <1>3 DEF Remembers

LEMMA RemembersReturn ==
  ASSUME NEW f, NEW p, NEW q, NEW r, ToolId(f, r.tool), Returns(f, r, r.tool),
         q.tools = {t \in p.tools : t.id # r.tool}
  PROVE  Remembers(f, p, r, q)
<1>1. \A id : Returns(f, r, id) <=> id = r.tool
  BY DEF Returns
<1>2. \A id : ~Calls(f, r, id)
  BY DEF Calls, Returns
<1>3. QED
  BY <1>1, <1>2 DEF Remembers

\* What a line of a Claude Code transcript makes of the title.
TitleAfter(p, r) ==
  IF r.hidden \/ r.text = "" THEN p.title
  ELSE IF r.type = "ai-title" THEN r.text
  ELSE IF p.title = "" /\ (r.type = "summary" \/ (r.type = "user" /\ r.plain)) THEN r.text
  ELSE p.title

Fed(f, p, r, result) ==
  /\ result.parser \in Memory /\ result.out \in Seq(Honest(f, p, r))
  /\ Remembers(f, p, r, result.parser)

LEMMA QuietFeeds ==
  ASSUME NEW f, NEW p \in Memory, NEW q \in Memory, q.tools = p.tools, NEW r, NEW out,
         out \in Seq(Honest(f, p, r)),
         ToolId(f, r.tool) => ~Calls(f, r, r.tool) /\ ~Returns(f, r, r.tool)
  PROVE  Fed(f, p, r, P!Says(q, out)) /\ P!Says(q, out).parser = q
<1>1. P!Says(q, out).parser = q /\ P!Says(q, out).out = out
  BY DEF P!Says
<1>2. QED
  BY <1>1, RemembersSame DEF Fed

LEMMA SetTitleGives ==
  ASSUME NEW p \in Memory, NEW text \in Str, NEW authoritative \in BOOLEAN
  PROVE  /\ P!SetTitle(p, text, authoritative) \in Memory
         /\ P!SetTitle(p, text, authoritative).tools = p.tools
         /\ P!SetTitle(p, text, authoritative).title =
              IF text # "" /\ (authoritative \/ p.title = "") THEN text ELSE p.title
<1>1. CASE text # "" /\ (authoritative \/ p.title = "")
  BY <1>1 DEF P!SetTitle, Memory
<1>2. CASE ~(text # "" /\ (authoritative \/ p.title = ""))
  BY <1>2 DEF P!SetTitle, Memory
<1>3. QED
  BY <1>1, <1>2

LEMMA ClaudeUserFeeds ==
  ASSUME NEW p \in Memory, NEW r \in ClaudeRecord, r.type = "user", ~r.hidden
  PROVE  /\ Fed("claude", p, r, P!ClaudeUser(p, r))
         /\ P!ClaudeUser(p, r).parser.title = TitleAfter(p, r)
<1> DEFINE named == IF r.plain THEN P!SetTitle(p, r.text, FALSE) ELSE p
           result == IF r.tool = "" THEN P!Quiet(named) ELSE P!ToolEnds(named, r.tool, r.failed)
           S == Honest("claude", p, r)
<1>1. r.text \in Str /\ r.tool \in Str /\ r.failed \in BOOLEAN /\ FALSE \in BOOLEAN
  BY DEF ClaudeRecord, Str
<1>2. PICK s : s = named
  OBVIOUS
<1>3. s \in Memory /\ s.tools = p.tools /\ s.title = TitleAfter(p, r)
  <2>1. CASE r.plain
    <3>1. s = P!SetTitle(p, r.text, FALSE)
      BY <1>2, <2>1
    <3>2. s \in Memory /\ s.tools = p.tools
          /\ s.title = IF r.text # "" /\ (FALSE \/ p.title = "") THEN r.text ELSE p.title
      BY <1>1, <3>1, SetTitleGives
    <3>3. QED
      BY <2>1, <3>2 DEF TitleAfter
  <2>2. CASE ~r.plain
    BY <1>2, <2>2 DEF TitleAfter
  <2>3. QED
    BY <2>1, <2>2
<1>4. PICK res : res = result
  OBVIOUS
<1>5. /\ res.parser \in Memory /\ res.parser.title = s.title /\ res.out \in Seq(S)
      /\ Remembers("claude", p, r, res.parser)
  <2>1. CASE r.tool = ""
    <3>1. res.parser = s /\ res.out = <<>>
      BY <1>2, <1>4, <2>1 DEF P!Quiet
    <3>2. ~ToolId("claude", r.tool)
      BY <2>1 DEF ToolId
    <3>3. Remembers("claude", p, r, s)
      BY <1>3, <3>2, RemembersSame
    <3>4. QED
      BY <1>3, <3>1, <3>3, NothingSays
  <2>2. CASE r.tool # ""
    <3>1. res = P!ToolEnds(s, r.tool, r.failed)
      BY <1>2, <1>4, <2>2
    <3>2. ToolId("claude", r.tool) /\ Returns("claude", r, r.tool)
      BY <2>2 DEF ToolId, Returns
    <3>3. /\ res.parser \in Memory /\ res.out \in Seq(S)
          /\ res.parser = [s EXCEPT !.tools = {t \in p.tools : t.id # r.tool}]
      <4>1. PICK id, failed : id = r.tool /\ failed = r.failed
        OBVIOUS
      <4>2. id \in Str /\ ToolId("claude", id) /\ Returns("claude", r, id)
        BY <1>1, <3>2, <4>1
      <4>3. /\ P!ToolEnds(s, id, failed).parser \in Memory
            /\ P!ToolEnds(s, id, failed).parser = [s EXCEPT !.tools = {t \in p.tools : t.id # id}]
            /\ P!ToolEnds(s, id, failed).out \in Seq(Honest("claude", p, r))
        BY <1>3, <4>2, ToolEndsGives
      <4>4. QED
        BY <3>1, <4>1, <4>3
    <3>4. res.parser.tools = {t \in p.tools : t.id # r.tool} /\ res.parser.title = s.title
      BY <1>3, <3>3 DEF Memory
    <3>5. Remembers("claude", p, r, res.parser)
      BY <3>2, <3>4, RemembersReturn
    <3>6. QED
      BY <3>3, <3>4, <3>5
  <2>3. QED
    BY <2>1, <2>2
<1>6. CASE r.text = ""
  <2>1. P!ClaudeUser(p, r) = res
    BY <1>4, <1>6 DEF P!ClaudeUser
  <2>2. QED
    BY <1>3, <1>5, <2>1 DEF Fed
<1>7. CASE r.text # ""
  <2>1. PICK a, b : a = <<P!Turn("started")>> /\ b = <<P!Output("user", <<r.text>>)>>
    OBVIOUS
  <2>2. a \in Seq(S) /\ b \in Seq(S)
    <3>1. "started" \in Str /\ "user" \in Str
      BY DEF Str
    <3>2. QED
      BY <1>1, <2>1, <3>1, PlainSays
  <2>3. P!ClaudeUser(p, r) = P!Says(res.parser, a \o res.out \o b)
    BY <1>4, <1>7, <2>1 DEF P!ClaudeUser
  <2>4. a \o res.out \o b \in Seq(S)
    <3> HIDE DEF S
    <3>1. a \o res.out \in Seq(S)
      BY <1>5, <2>2, ConcatProperties
    <3>2. QED
      BY <2>2, <3>1, ConcatProperties
  <2>5. QED
    BY <1>3, <1>5, <2>3, <2>4 DEF Fed, P!Says
<1>8. QED
  BY <1>6, <1>7

LEMMA ClaudeAssistantFeeds ==
  ASSUME NEW p \in Memory, NEW r \in ClaudeRecord, r.type = "assistant", ~r.hidden
  PROVE  /\ Fed("claude", p, r, P!ClaudeAssistant(p, r))
         /\ P!ClaudeAssistant(p, r).parser.title = TitleAfter(p, r)
<1> DEFINE S == Honest("claude", p, r)
<1>1. r.text \in Str /\ r.tool \in Str /\ r.name \in Str /\ r.model \in Str
  BY DEF ClaudeRecord, Str
<1>2. PICK text, tool, end :
        /\ text = IF r.text = "" THEN <<>> ELSE <<P!Output("assistant", <<r.text>>)>>
        /\ tool = IF r.tool = "" THEN <<>> ELSE <<P!Tool("started", r.tool, r.name)>>
        /\ end = IF r.stop THEN <<P!Turn("completed")>> ELSE <<>>
  OBVIOUS
<1>3. text \o tool \o end \in Seq(S)
  <2>1. "assistant" \in Str /\ "completed" \in Str
    BY DEF Str
  <2>2. <<>> \in Seq(S)
    BY NothingSays
  <2>3. /\ <<P!Output("assistant", <<r.text>>)>> \in Seq(S)
        /\ <<P!Tool("started", r.tool, r.name)>> \in Seq(S)
        /\ <<P!Turn("completed")>> \in Seq(S)
    BY <1>1, <2>1, PlainSays
  <2> HIDE DEF S
  <2>4. text \in Seq(S) /\ tool \in Seq(S) /\ end \in Seq(S)
    BY <1>2, <2>2, <2>3
  <2>5. text \o tool \in Seq(S)
    BY <2>4, ConcatProperties
  <2>6. QED
    BY <2>4, <2>5, ConcatProperties
<1>4. PICK used : used = IF r.tool = "" THEN p ELSE P!ToolStarts(p, r.tool, r.name)
  OBVIOUS
<1>5. used \in Memory /\ Remembers("claude", p, r, used) /\ used.title = p.title
  <2>1. CASE r.tool = ""
    <3>1. used = p /\ ~ToolId("claude", r.tool)
      BY <1>4, <2>1 DEF ToolId
    <3>2. QED
      BY <3>1, RemembersSame
  <2>2. CASE r.tool # ""
    <3>1. used = P!ToolStarts(p, r.tool, r.name)
      BY <1>4, <2>2
    <3>2. /\ used \in Memory
          /\ used = [p EXCEPT !.tools =
                       {t \in p.tools : t.id # r.tool} \cup {[id |-> r.tool, name |-> r.name]}]
      BY <1>1, <3>1, ToolStartsGives
    <3>3. /\ used.tools = {t \in p.tools : t.id # r.tool} \cup {[id |-> r.tool, name |-> r.name]}
          /\ used.title = p.title
      BY <3>2 DEF Memory
    <3>4. ToolId("claude", r.tool) /\ Calls("claude", r, r.tool)
      BY <2>2 DEF ToolId, Calls
    <3>5. QED
      BY <3>2, <3>3, <3>4, RemembersCall
  <2>3. QED
    BY <2>1, <2>2
<1>6. PICK q : q = [used EXCEPT !.model = IF r.model = "" THEN @ ELSE r.model]
  OBVIOUS
<1>7. q \in Memory /\ q.tools = used.tools /\ q.title = used.title
  BY <1>1, <1>5, <1>6 DEF Memory
<1>8. P!ClaudeAssistant(p, r) = P!Says(q, text \o tool \o end)
  BY <1>2, <1>4, <1>6 DEF P!ClaudeAssistant
<1>9. Remembers("claude", p, r, q)
  BY <1>5, <1>7 DEF Remembers
<1>10. TitleAfter(p, r) = p.title
  BY DEF TitleAfter
<1>11. QED
  BY <1>3, <1>5, <1>7, <1>8, <1>9, <1>10 DEF Fed, P!Says

LEMMA ClaudeFeeds ==
  ASSUME NEW p \in Memory, NEW r \in ClaudeRecord
  PROVE  /\ Fed("claude", p, r, P!FeedClaude(p, r))
         /\ P!FeedClaude(p, r).parser.title = TitleAfter(p, r)
<1> DEFINE S == Honest("claude", p, r)
<1>1. r.text \in Str /\ r.type \in {"noise", "ai-title", "summary", "user", "assistant", "other"}
  BY DEF ClaudeRecord, Str
<1>2. ASSUME r.hidden \/ r.type \notin {"user", "assistant"}
      PROVE  ~Calls("claude", r, r.tool) /\ ~Returns("claude", r, r.tool)
  BY <1>1, <1>2 DEF Calls, Returns
<1>3. <<>> \in Seq(S)
  BY NothingSays
<1>4. CASE r.type = "noise" \/ r.hidden
  <2>1. P!FeedClaude(p, r) = P!Says(p, <<>>)
    BY <1>4 DEF P!FeedClaude, P!Quiet, P!Says
  <2>2. TitleAfter(p, r) = p.title
    BY <1>4 DEF TitleAfter
  <2>3. ~Calls("claude", r, r.tool) /\ ~Returns("claude", r, r.tool)
    BY <1>2, <1>4
  <2>4. Fed("claude", p, r, P!Says(p, <<>>)) /\ P!Says(p, <<>>).parser = p
    <3>1. PICK out : out = <<>>
      OBVIOUS
    <3>2. out \in Seq(S) /\ p.tools = p.tools
      BY <1>3, <3>1
    <3>3. Fed("claude", p, r, P!Says(p, out)) /\ P!Says(p, out).parser = p
      BY <2>3, <3>2, QuietFeeds
    <3>4. QED
      BY <3>1, <3>3
  <2>5. QED
    BY <2>1, <2>2, <2>4
<1>5. CASE r.type \in {"ai-title", "summary"} /\ ~r.hidden
  <2>1. PICK first \in BOOLEAN : first = (r.type = "ai-title")
    OBVIOUS
  <2>2. PICK q : q = P!SetTitle(p, r.text, first)
    OBVIOUS
  <2>3. P!FeedClaude(p, r) = P!Says(q, <<>>)
    <3>1. CASE r.type = "ai-title"
      <4>1. P!FeedClaude(p, r) = P!Quiet(P!SetTitle(p, r.text, TRUE)) /\ first = TRUE
        BY <1>5, <2>1, <3>1 DEF P!FeedClaude
      <4>2. QED
        BY <2>2, <4>1 DEF P!Quiet, P!Says
    <3>2. CASE r.type = "summary"
      <4>1. P!FeedClaude(p, r) = P!Quiet(P!SetTitle(p, r.text, FALSE)) /\ first = FALSE
        BY <1>5, <2>1, <3>2 DEF P!FeedClaude
      <4>2. QED
        BY <2>2, <4>1 DEF P!Quiet, P!Says
    <3>3. QED
      BY <1>5, <3>1, <3>2
  <2>4. /\ q \in Memory /\ q.tools = p.tools
        /\ q.title = IF r.text # "" /\ (first \/ p.title = "") THEN r.text ELSE p.title
    BY <1>1, <2>2, SetTitleGives
  <2>5. q.title = TitleAfter(p, r)
    BY <1>5, <2>1, <2>4 DEF TitleAfter
  <2>6. ~Calls("claude", r, r.tool) /\ ~Returns("claude", r, r.tool)
    BY <1>2, <1>5
  <2>7. Fed("claude", p, r, P!Says(q, <<>>)) /\ P!Says(q, <<>>).parser = q
    <3>1. PICK out : out = <<>>
      OBVIOUS
    <3>2. out \in Seq(S) /\ q \in Memory /\ q.tools = p.tools
      BY <1>3, <2>4, <3>1
    <3>3. Fed("claude", p, r, P!Says(q, out)) /\ P!Says(q, out).parser = q
      BY <2>6, <3>2, QuietFeeds
    <3>4. QED
      BY <3>1, <3>3
  <2>8. QED
    BY <2>3, <2>5, <2>7
<1>6. CASE r.type = "user" /\ ~r.hidden
  <2>1. P!FeedClaude(p, r) = P!ClaudeUser(p, r)
    BY <1>6 DEF P!FeedClaude
  <2>2. QED
    BY <1>6, <2>1, ClaudeUserFeeds
<1>7. CASE r.type = "assistant" /\ ~r.hidden
  <2>1. P!FeedClaude(p, r) = P!ClaudeAssistant(p, r)
    BY <1>7 DEF P!FeedClaude
  <2>2. QED
    BY <1>7, <2>1, ClaudeAssistantFeeds
<1>8. CASE r.type = "other" /\ ~r.hidden
  <2>1. PICK out : out = <<P!Output("system", <<r.text>>)>>
    OBVIOUS
  <2>2. P!FeedClaude(p, r) = P!Says(p, out)
    BY <1>8, <2>1 DEF P!FeedClaude
  <2>3. TitleAfter(p, r) = p.title
    BY <1>8 DEF TitleAfter
  <2>4. out \in Seq(S)
    <3>1. "system" \in Str
      BY DEF Str
    <3>2. QED
      BY <1>1, <2>1, <3>1, PlainSays
  <2>5. QED
    BY <1>2, <1>8, <2>2, <2>3, <2>4, QuietFeeds
<1>9. QED
  BY <1>1, <1>4, <1>5, <1>6, <1>7, <1>8

LEMMA CodexFeeds ==
  ASSUME NEW p \in Memory, NEW r \in CodexRecord
  PROVE  Fed("codex", p, r, P!FeedCodex(p, r))
<1> DEFINE S == Honest("codex", p, r)
<1>1. /\ r.text \in Str /\ r.tool \in Str /\ r.name \in Str /\ r.model \in Str /\ r.role \in Str
      /\ r.type \in {"turn_context", "message", "call", "call_output", "task_started",
                     "task_complete", "error", "noise", "other"}
  BY DEF CodexRecord, Str
<1>2. ASSUME r.type \notin {"call", "call_output"}
      PROVE  ~Calls("codex", r, r.tool) /\ ~Returns("codex", r, r.tool)
  BY <1>1, <1>2 DEF Calls, Returns
<1>3. <<>> \in Seq(S) /\ \A text \in {"user", "assistant", "system", "started", "completed"} : text \in Str
  BY NothingSays DEF Str
<1>4. ASSUME NEW q \in Memory, q.tools = p.tools, NEW out \in Seq(S),
             r.type \notin {"call", "call_output"}, P!FeedCodex(p, r) = P!Says(q, out)
      PROVE  Fed("codex", p, r, P!FeedCodex(p, r))
  <2>1. ~Calls("codex", r, r.tool) /\ ~Returns("codex", r, r.tool)
    BY <1>2, <1>4
  <2>2. Fed("codex", p, r, P!Says(q, out))
    BY <1>4, <2>1, QuietFeeds
  <2>3. QED
    BY <1>4, <2>2
<1>5. PICK none : none = <<>>
  OBVIOUS
<1>6. none \in Seq(S)
  BY <1>3, <1>5
<1>7. CASE r.type = "turn_context"
  <2>1. PICK q : q = [p EXCEPT !.model = IF r.model = "" THEN @ ELSE r.model]
    OBVIOUS
  <2>2. q \in Memory /\ q.tools = p.tools
    BY <1>1, <2>1 DEF Memory
  <2>3. P!FeedCodex(p, r) = P!Says(q, none)
    BY <1>5, <1>7, <2>1 DEF P!FeedCodex, P!Quiet, P!Says
  <2>4. QED
    BY <1>4, <1>6, <1>7, <2>2, <2>3
<1>8. CASE r.type = "message"
  <2>1. P!FeedCodex(p, r) = P!CodexMessage(p, r)
    BY <1>8 DEF P!FeedCodex
  <2>2. CASE \/ r.text = "" \/ r.role \notin {"user", "assistant"}
             \/ r.role = "user" /\ r.synthetic
    <3>1. P!FeedCodex(p, r) = P!Says(p, none)
      BY <1>5, <2>1, <2>2 DEF P!CodexMessage, P!Quiet, P!Says
    <3>2. QED
      BY <1>4, <1>6, <1>8, <3>1
  <2>3. CASE ~(\/ r.text = "" \/ r.role \notin {"user", "assistant"}
               \/ r.role = "user" /\ r.synthetic)
    <3>1. PICK q : q = IF r.role = "user" THEN P!TitledBy(p, r.text) ELSE p
      OBVIOUS
    <3>2. q \in Memory /\ q.tools = p.tools
      BY <1>1, <3>1 DEF P!TitledBy, Memory
    <3>3. PICK out : out = <<P!Output(r.role, <<r.text>>)>>
      OBVIOUS
    <3>4. out \in Seq(S)
      BY <1>1, <3>3, PlainSays
    <3>5. P!FeedCodex(p, r) = P!Says(q, out)
      BY <2>1, <2>3, <3>1, <3>3 DEF P!CodexMessage
    <3>6. QED
      BY <1>4, <1>8, <3>2, <3>4, <3>5
  <2>4. QED
    BY <2>2, <2>3
<1>9. CASE r.type = "call"
  <2>1. PICK q, out : /\ q = P!ToolStarts(p, r.tool, r.name)
                      /\ out = <<P!Tool("started", r.tool, r.name)>>
    OBVIOUS
  <2>2. P!FeedCodex(p, r) = P!Says(q, out)
    BY <1>9, <2>1 DEF P!FeedCodex
  <2>3. /\ q \in Memory
        /\ q = [p EXCEPT !.tools =
                  {t \in p.tools : t.id # r.tool} \cup {[id |-> r.tool, name |-> r.name]}]
    BY <1>1, <2>1, ToolStartsGives
  <2>4. q.tools = {t \in p.tools : t.id # r.tool} \cup {[id |-> r.tool, name |-> r.name]}
    BY <2>3 DEF Memory
  <2>5. ToolId("codex", r.tool) /\ Calls("codex", r, r.tool)
    BY <1>9 DEF ToolId, Calls
  <2>6. Remembers("codex", p, r, q)
    BY <2>4, <2>5, RemembersCall
  <2>7. out \in Seq(S)
    BY <1>1, <2>1, PlainSays
  <2>8. QED
    BY <2>2, <2>3, <2>6, <2>7 DEF Fed, P!Says
<1>10. CASE r.type = "call_output"
  <2>1. PICK id, failed : id = r.tool /\ failed = r.failed
    OBVIOUS
  <2>2. id \in Str /\ ToolId("codex", id) /\ Returns("codex", r, id)
    BY <1>1, <1>10, <2>1 DEF ToolId, Returns
  <2>3. PICK res : res = P!ToolEnds(p, id, failed)
    OBVIOUS
  <2>4. /\ P!ToolEnds(p, id, failed).parser \in Memory
        /\ P!ToolEnds(p, id, failed).parser = [p EXCEPT !.tools = {t \in p.tools : t.id # id}]
        /\ P!ToolEnds(p, id, failed).out \in Seq(Honest("codex", p, r))
    BY <2>2, ToolEndsGives
  <2>5. res.parser.tools = {t \in p.tools : t.id # r.tool}
    BY <2>1, <2>3, <2>4 DEF Memory
  <2>6. Remembers("codex", p, r, res.parser)
    BY <2>1, <2>2, <2>5, RemembersReturn
  <2>7. P!FeedCodex(p, r) = res
    BY <1>10, <2>1, <2>3 DEF P!FeedCodex
  <2>8. QED
    BY <2>3, <2>4, <2>6, <2>7 DEF Fed
<1>11. CASE r.type \in {"task_started", "task_complete"}
  <2>1. PICK out : out = <<P!Turn(IF r.type = "task_started" THEN "started" ELSE "completed")>>
    OBVIOUS
  <2>2. out \in Seq(S)
    BY <1>3, <2>1, PlainSays
  <2>3. P!FeedCodex(p, r) = P!Says(p, out)
    BY <1>11, <2>1 DEF P!FeedCodex
  <2>4. QED
    BY <1>4, <1>11, <2>2, <2>3
<1>12. CASE r.type = "error" \/ r.type = "other"
  <2>1. PICK out : out = <<P!Output("system", <<r.text>>)>>
    OBVIOUS
  <2>2. out \in Seq(S)
    BY <1>1, <1>3, <2>1, PlainSays
  <2>3. CASE r.type = "error" /\ r.text = ""
    <3>1. P!FeedCodex(p, r) = P!Says(p, none)
      BY <1>5, <2>3 DEF P!FeedCodex, P!Quiet, P!Says
    <3>2. QED
      BY <1>4, <1>6, <2>3, <3>1
  <2>4. CASE ~(r.type = "error" /\ r.text = "")
    <3>1. P!FeedCodex(p, r) = P!Says(p, out)
      BY <1>12, <2>1, <2>4 DEF P!FeedCodex
    <3>2. QED
      BY <1>4, <1>12, <2>2, <3>1
  <2>5. QED
    BY <2>3, <2>4
<1>13. CASE r.type = "noise"
  <2>1. P!FeedCodex(p, r) = P!Says(p, none)
    BY <1>5, <1>13 DEF P!FeedCodex, P!Quiet, P!Says
  <2>2. QED
    BY <1>4, <1>6, <1>13, <2>1
<1>14. QED
  BY <1>1, <1>7, <1>8, <1>9, <1>10, <1>11, <1>12, <1>13

-----------------------------------------------------------------------------

\* The calls of tool id among the first n lines that nothing answered and no
\* other call followed.
OpenCalls(f, h, n, id) ==
  {i \in 1 .. n : /\ Calls(f, h[i], id)
                  /\ \A j \in i + 1 .. n : ~Calls(f, h[j], id) /\ ~Returns(f, h[j], id)}

\* Each remembered tool is an open call, and each open call is remembered.
ToolsFit(f, h, p) ==
  \A t \in Pend :
    IF ToolId(f, t.id)
    THEN t \in p.tools <=> \E i \in OpenCalls(f, h, Len(h), t.id) : h[i].name = t.name
    ELSE t \notin p.tools

LEMMA OneOpenCall ==
  ASSUME NEW f, NEW h, NEW n \in Nat, NEW id,
         NEW i \in OpenCalls(f, h, n, id), NEW j \in OpenCalls(f, h, n, id)
  PROVE  i = j
<1>1. i \in 1 .. n /\ j \in 1 .. n
  BY DEF OpenCalls
<1>2. ~(i < j) /\ ~(j < i)
  BY <1>1 DEF OpenCalls
<1>3. QED
  BY <1>1, <1>2

\* The name given to a result is that of the open call.
LEMMA NameOfOpen ==
  ASSUME NEW f, NEW S, NEW h \in Seq(S), \A i \in 1 .. Len(h) : h[i].name \in Str,
         NEW p \in Memory, ToolsFit(f, h, p), NEW id \in Str, ToolId(f, id)
  PROVE  P!NameOf(p, id) =
           LET open == OpenCalls(f, h, Len(h), id)
           IN IF open = {} THEN "unknown" ELSE h[CHOOSE i \in open : TRUE].name
<1>1. PICK open : open = OpenCalls(f, h, Len(h), id)
  OBVIOUS
<1>2. Len(h) \in Nat /\ open \subseteq 1 .. Len(h)
  BY <1>1 DEF OpenCalls
<1>3. \A t \in Pend : t.id = id => (t \in p.tools <=> \E i \in open : h[i].name = t.name)
  BY <1>1 DEF ToolsFit
<1>4. CASE open = {}
  <2>1. ~\E t \in p.tools : t.id = id
    BY <1>3, <1>4 DEF Memory
  <2>2. P!NameOf(p, id) = "unknown"
    BY <2>1 DEF P!NameOf
  <2>3. QED
    BY <1>1, <1>4, <2>2
<1>5. CASE open # {}
  <2>1. PICK i : i = CHOOSE j \in open : TRUE
    OBVIOUS
  <2>2. i \in open /\ h[i].name \in Str
    BY <1>2, <1>5, <2>1
  <2>3. PICK t \in Pend : t.id = id /\ t.name = h[i].name
    <3>1. [id |-> id, name |-> h[i].name] \in Pend
      BY <2>2 DEF Pend
    <3>2. QED
      BY <3>1
  <2>4. t \in p.tools
    BY <1>3, <2>2, <2>3
  <2>5. PICK u : u = CHOOSE v \in p.tools : v.id = id
    OBVIOUS
  <2>6. u \in p.tools /\ u.id = id
    BY <2>3, <2>4, <2>5
  <2>7. PICK j \in open : h[j].name = u.name
    BY <1>3, <2>6 DEF Memory
  <2>8. j = i
    BY <1>1, <1>2, <2>2, <2>7, OneOpenCall
  <2>9. P!NameOf(p, id) = u.name
    BY <2>3, <2>4, <2>5 DEF P!NameOf
  <2>10. QED
    BY <1>1, <1>5, <2>1, <2>7, <2>8, <2>9
<1>6. QED
  BY <1>4, <1>5

LEMMA OpenCallsAfter ==
  ASSUME NEW f, NEW S, NEW h \in Seq(S), NEW r \in S, NEW id
  PROVE  LET g == Append(h, r)
             n == Len(g)
         IN /\ Calls(f, r, id) => OpenCalls(f, g, n, id) = {n}
            /\ ~Calls(f, r, id) /\ Returns(f, r, id) => OpenCalls(f, g, n, id) = {}
            /\ ~Calls(f, r, id) /\ ~Returns(f, r, id) =>
                 OpenCalls(f, g, n, id) = OpenCalls(f, h, Len(h), id)
<1>0. PICK g, n : g = Append(h, r) /\ n = Len(g)
  OBVIOUS
<1>1. /\ Len(h) \in Nat /\ n = Len(h) + 1 /\ n \in Nat /\ g[n] = r
      /\ \A i \in 1 .. Len(h) : g[i] = h[i]
  BY <1>0, AfterAppend
<1>2. ASSUME NEW i \in 1 .. n
      PROVE  i \in OpenCalls(f, g, n, id) <=>
               \/ i = n /\ Calls(f, r, id)
               \/ i \in OpenCalls(f, h, Len(h), id) /\ ~Calls(f, r, id) /\ ~Returns(f, r, id)
  <2>1. CASE i = n
    BY <1>1, <2>1 DEF OpenCalls
  <2>2. CASE i # n
    <3>1. i \in 1 .. Len(h) /\ n \in i + 1 .. n
      BY <1>1, <2>2
    <3>2. \A j \in i + 1 .. n : j = n \/ j \in i + 1 .. Len(h)
      BY <1>1
    <3>3. \A j \in i + 1 .. Len(h) : j \in i + 1 .. n /\ g[j] = h[j]
      BY <1>1, <3>1
    <3>4. QED
      BY <1>1, <2>2, <3>1, <3>2, <3>3 DEF OpenCalls
  <2>3. QED
    BY <2>1, <2>2
<1>3. OpenCalls(f, g, n, id) \subseteq 1 .. n /\ OpenCalls(f, h, Len(h), id) \subseteq 1 .. n
  BY <1>1 DEF OpenCalls
<1>4. n \in 1 .. n
  BY <1>1
<1>5. QED
  BY <1>0, <1>2, <1>3, <1>4

LEMMA ToolsFitAfter ==
  ASSUME NEW f, NEW S, NEW h \in Seq(S), NEW r \in S, NEW p, NEW q,
         ToolsFit(f, h, p), Remembers(f, p, r, q)
  PROVE  ToolsFit(f, Append(h, r), q)
<1>1. PICK g : g = Append(h, r)
  OBVIOUS
<1>2. /\ Len(h) \in Nat /\ Len(g) = Len(h) + 1 /\ g[Len(g)] = r
      /\ \A i \in 1 .. Len(h) : g[i] = h[i]
  BY <1>1, AfterAppend
<1>3. ASSUME NEW t \in Pend
      PROVE  IF ToolId(f, t.id)
             THEN t \in q.tools <=> \E i \in OpenCalls(f, g, Len(g), t.id) : g[i].name = t.name
             ELSE t \notin q.tools
  <2>1. t \in q.tools <=>
          \/ ToolId(f, t.id) /\ Calls(f, r, t.id) /\ t.name = r.name
          \/ t \in p.tools /\ ~(ToolId(f, t.id) /\ (Calls(f, r, t.id) \/ Returns(f, r, t.id)))
    BY DEF Remembers
  <2>2. IF ToolId(f, t.id)
        THEN t \in p.tools <=> \E i \in OpenCalls(f, h, Len(h), t.id) : h[i].name = t.name
        ELSE t \notin p.tools
    BY DEF ToolsFit
  <2>3. Len(g) \in Nat
    BY <1>2
  <2>4. /\ Calls(f, r, t.id) => OpenCalls(f, g, Len(g), t.id) = {Len(g)}
        /\ ~Calls(f, r, t.id) /\ Returns(f, r, t.id) => OpenCalls(f, g, Len(g), t.id) = {}
        /\ ~Calls(f, r, t.id) /\ ~Returns(f, r, t.id) =>
             OpenCalls(f, g, Len(g), t.id) = OpenCalls(f, h, Len(h), t.id)
    BY <1>1, OpenCallsAfter
  <2>5. \A i \in OpenCalls(f, h, Len(h), t.id) : g[i] = h[i]
    BY <1>2 DEF OpenCalls
  <2>6. QED
    BY <1>2, <2>1, <2>2, <2>4, <2>5
<1>4. QED
  BY <1>1, <1>3 DEF ToolsFit

-----------------------------------------------------------------------------

\* The lines that give a title, and those that suggest one.
Given(h) == {k \in DOMAIN h : ~h[k].hidden /\ h[k].text # "" /\ h[k].type = "ai-title"}
Suggested(h) ==
  {k \in DOMAIN h : /\ ~h[k].hidden /\ h[k].text # ""
                    /\ h[k].type = "summary" \/ (h[k].type = "user" /\ h[k].plain)}
TitleOf(h) ==
  IF Given(h) # {} THEN h[P!Max(Given(h))].text
  ELSE IF Suggested(h) # {} THEN h[P!Min(Suggested(h))].text ELSE ""

LEMMA GreatestIs ==
  ASSUME NEW n \in Nat, NEW S, S \subseteq 1 .. n, S # {}
  PROVE  P!Max(S) \in S /\ \A y \in S : y <= P!Max(S)
<1>1. PICK p \in S : \A q \in S : q <= p
  <2>1. \A q \in S : q \in 0 .. n
    OBVIOUS
  <2>2. QED
    BY <2>1, GreatestExists
<1>2. \A q \in S : q \in Nat
  OBVIOUS
<1>3. \A q \in S : p >= q
  BY <1>1, <1>2
<1>4. P!Max(S) \in S /\ \A q \in S : P!Max(S) >= q
  BY <1>3 DEF P!Max
<1>5. QED
  BY <1>2, <1>4

LEMMA LeastIs ==
  ASSUME NEW n \in Nat, NEW S, S \subseteq 1 .. n, S # {}
  PROVE  P!Min(S) \in S /\ \A y \in S : P!Min(S) <= y
<1>1. PICK p \in S : \A q \in S : p <= q
  <2>1. \A q \in S : q \in 0 .. n
    OBVIOUS
  <2>2. QED
    BY <2>1, LeastExists
<1>2. P!Min(S) \in S /\ \A q \in S : P!Min(S) <= q
  BY <1>1 DEF P!Min
<1>3. QED
  BY <1>2

LEMMA TitleFollows ==
  ASSUME NEW h \in Seq(ClaudeRecord), NEW r \in ClaudeRecord, NEW p, p.title = TitleOf(h)
  PROVE  TitleAfter(p, r) = TitleOf(Append(h, r))
<1>1. PICK g, n : g = Append(h, r) /\ n = Len(g)
  OBVIOUS
<1>2. /\ Len(h) \in Nat /\ n = Len(h) + 1 /\ n \in Nat /\ g[n] = r
      /\ \A i \in 1 .. Len(h) : g[i] = h[i]
  BY <1>1, AfterAppend
<1>3. DOMAIN h = 1 .. Len(h) /\ DOMAIN g = 1 .. n
  <2>1. g \in Seq(ClaudeRecord)
    BY <1>1, AfterAppend
  <2>2. QED
    BY <1>1, <2>1
<1>4. PICK titles : titles = (~r.hidden /\ r.text # "" /\ r.type = "ai-title")
  OBVIOUS
<1>5. PICK suggests :
        suggests = (/\ ~r.hidden /\ r.text # ""
                    /\ r.type = "summary" \/ (r.type = "user" /\ r.plain))
  OBVIOUS
<1>6. \A i \in 1 .. n : i = n \/ i \in 1 .. Len(h)
  BY <1>2
<1>7. n \in 1 .. n /\ n \notin 1 .. Len(h) /\ 1 .. Len(h) \subseteq 1 .. n
  BY <1>2
<1>8. Given(g) = IF titles THEN Given(h) \cup {n} ELSE Given(h)
  <2>1. \A i \in 1 .. Len(h) : i \in Given(g) <=> i \in Given(h)
    BY <1>2, <1>3, <1>7 DEF Given
  <2>2. n \in Given(g) <=> titles
    BY <1>2, <1>3, <1>4, <1>7 DEF Given
  <2>3. Given(g) \subseteq 1 .. n /\ Given(h) \subseteq 1 .. Len(h)
    BY <1>3 DEF Given
  <2>4. CASE titles
    BY <1>6, <1>7, <2>1, <2>2, <2>3, <2>4
  <2>5. CASE ~titles
    <3>1. \A i \in 1 .. n : i \in Given(g) <=> i \in Given(h)
      BY <1>6, <1>7, <2>1, <2>2, <2>3, <2>5
    <3>2. QED
      BY <1>7, <2>3, <2>5, <3>1
  <2>6. QED
    BY <2>4, <2>5
<1>9. Suggested(g) = IF suggests THEN Suggested(h) \cup {n} ELSE Suggested(h)
  <2>1. \A i \in 1 .. Len(h) : i \in Suggested(g) <=> i \in Suggested(h)
    BY <1>2, <1>3, <1>7 DEF Suggested
  <2>2. n \in Suggested(g) <=> suggests
    BY <1>2, <1>3, <1>5, <1>7 DEF Suggested
  <2>3. Suggested(g) \subseteq 1 .. n /\ Suggested(h) \subseteq 1 .. Len(h)
    BY <1>3 DEF Suggested
  <2>4. QED
    BY <1>6, <1>7, <2>1, <2>2, <2>3
<1>10. ASSUME Given(h) # {}
       PROVE  /\ P!Max(Given(h)) \in 1 .. Len(h)
              /\ h[P!Max(Given(h))].text # ""
  <2>1. Given(h) \subseteq 1 .. Len(h)
    BY <1>3 DEF Given
  <2>2. P!Max(Given(h)) \in Given(h)
    BY <1>2, <1>10, <2>1, GreatestIs
  <2>3. QED
    BY <2>1, <2>2 DEF Given
<1>11. ASSUME Suggested(h) # {}
       PROVE  /\ P!Min(Suggested(h)) \in 1 .. Len(h)
              /\ h[P!Min(Suggested(h))].text # ""
              /\ \A i \in Suggested(h) : P!Min(Suggested(h)) <= i
  <2>1. Suggested(h) \subseteq 1 .. Len(h)
    BY <1>3 DEF Suggested
  <2>2. P!Min(Suggested(h)) \in Suggested(h) /\ \A i \in Suggested(h) : P!Min(Suggested(h)) <= i
    BY <1>2, <1>11, <2>1, LeastIs
  <2>3. QED
    BY <2>1, <2>2 DEF Suggested
<1>12. CASE titles
  <2>1. TitleAfter(p, r) = r.text
    BY <1>4, <1>12 DEF TitleAfter
  <2>2. PICK m : m = P!Max(Given(g))
    OBVIOUS
  <2>3. m \in Given(g) /\ \A y \in Given(g) : y <= m
    <3>1. Given(g) \subseteq 1 .. n /\ Given(g) # {}
      BY <1>3, <1>8, <1>12 DEF Given
    <3>2. QED
      BY <1>2, <2>2, <3>1, GreatestIs
  <2>4. m = n
    <3>1. m \in 1 .. n /\ n <= m
      BY <1>3, <1>8, <1>12, <2>3 DEF Given
    <3>2. QED
      BY <1>2, <3>1
  <2>5. QED
    BY <1>1, <1>2, <1>8, <1>12, <2>1, <2>2, <2>4 DEF TitleOf
<1>13. CASE ~titles /\ (Given(h) # {} \/ ~suggests)
  <2>1. TitleOf(g) = TitleOf(h)
    <3>1. CASE Given(h) # {}
      BY <1>2, <1>8, <1>10, <1>13, <3>1 DEF TitleOf
    <3>2. CASE Given(h) = {} /\ Suggested(h) # {}
      BY <1>2, <1>8, <1>9, <1>11, <1>13, <3>2 DEF TitleOf
    <3>3. CASE Given(h) = {} /\ Suggested(h) = {}
      BY <1>8, <1>9, <1>13, <3>3 DEF TitleOf
    <3>4. QED
      BY <3>1, <3>2, <3>3
  <2>2. Given(h) # {} => p.title # ""
    BY <1>10 DEF TitleOf
  <2>3. TitleAfter(p, r) = p.title
    BY <1>4, <1>5, <1>13, <2>2 DEF TitleAfter
  <2>4. QED
    BY <1>1, <2>1, <2>3
<1>14. CASE ~titles /\ Given(h) = {} /\ suggests
  <2>1. CASE Suggested(h) = {}
    <3>1. p.title = "" /\ TitleAfter(p, r) = r.text
      BY <1>4, <1>5, <1>14, <2>1 DEF TitleOf, TitleAfter
    <3>2. Suggested(g) = {n}
      BY <1>9, <1>14, <2>1
    <3>3. P!Min(Suggested(g)) = n
      <4>1. {n} \subseteq 1 .. n /\ {n} # {}
        BY <1>7
      <4>2. P!Min({n}) \in {n}
        BY <1>2, <4>1, LeastIs
      <4>3. QED
        BY <3>2, <4>2
    <3>4. QED
      BY <1>1, <1>2, <1>8, <1>14, <3>1, <3>2, <3>3 DEF TitleOf
  <2>2. CASE Suggested(h) # {}
    <3>1. p.title # "" /\ TitleAfter(p, r) = p.title
      BY <1>4, <1>5, <1>11, <1>14, <2>2 DEF TitleOf, TitleAfter
    <3>2. PICK m, l : m = P!Min(Suggested(g)) /\ l = P!Min(Suggested(h))
      OBVIOUS
    <3>3. Suggested(g) = Suggested(h) \cup {n}
      BY <1>9, <1>14
    <3>4. m \in Suggested(g) /\ \A y \in Suggested(g) : m <= y
      <4>1. Suggested(g) \subseteq 1 .. n /\ Suggested(g) # {}
        BY <1>3, <3>3 DEF Suggested
      <4>2. QED
        BY <1>2, <3>2, <4>1, LeastIs
    <3>5. l \in Suggested(h) /\ l \in 1 .. Len(h) /\ \A y \in Suggested(h) : l <= y
      <4>1. Suggested(h) \subseteq 1 .. Len(h)
        BY <1>3 DEF Suggested
      <4>2. QED
        BY <1>2, <2>2, <3>2, <4>1, LeastIs
    <3>6. m = l
      <4>1. m <= l /\ m \in 1 .. n
        BY <1>7, <3>3, <3>4, <3>5
      <4>2. m # n
        BY <1>2, <3>5, <4>1
      <4>3. l <= m
        BY <3>3, <3>4, <3>5, <4>2
      <4>4. QED
        BY <1>2, <3>5, <4>1, <4>3
    <3>7. TitleOf(g) = g[m].text
      BY <1>8, <1>14, <2>2, <3>2, <3>3 DEF TitleOf
    <3>8. TitleOf(h) = h[l].text
      BY <1>14, <2>2, <3>2 DEF TitleOf
    <3>9. QED
      BY <1>1, <1>2, <3>1, <3>5, <3>6, <3>7, <3>8
  <2>3. QED
    BY <2>1, <2>2
<1>15. QED
  BY <1>12, <1>13, <1>14

-----------------------------------------------------------------------------

\* Texts and who said them, those of a report and those of the buffers.
Attributed == Str \X Str
ReportsOf(out) == [k \in DOMAIN out |-> P!ReportOf(out[k])]
TextOf(out) == P!FlattenSeq(ReportsOf(out))
BufferText(p) == P!By("user", P!Texts(p.user)) \o P!By("assistant", P!Texts(p.agent))
OneBuffer(p) == P!Texts(p.user) = <<>> \/ P!Texts(p.agent) = <<>>

LEMMA FlattenSingle == ASSUME NEW X, NEW s \in Seq(X) PROVE P!FlattenSeq(<<s>>) = s
<1>1. PICK none : none = <<>>
  OBVIOUS
<1>2. none \in Seq(Seq(X)) /\ Append(none, s) = <<s>>
  <2>1. none \in Seq(Seq(X))
    BY <1>1, NothingSays
  <2>2. QED
    BY <1>1, <2>1
<1>3. P!FlattenSeq(Append(none, s)) = P!FlattenSeq(none) \o s
  BY <1>2, FlattenAppend
<1>4. P!FlattenSeq(none) = <<>>
  BY <1>1, FlattenEmpty
<1>5. <<>> \o s = s
  BY ConcatEmptySeq
<1>6. QED
  BY <1>2, <1>3, <1>4, <1>5

\* A sequence that is one sequence followed by another.
LEMMA Joined ==
  ASSUME NEW X, NEW a \in Seq(X), NEW b \in Seq(X), NEW c \in Seq(X), Len(c) = Len(a) + Len(b),
         \A k \in 1 .. Len(a) : c[k] = a[k], \A k \in 1 .. Len(b) : c[Len(a) + k] = b[k]
  PROVE  c = a \o b
<1>1. /\ a \o b \in Seq(X) /\ Len(a \o b) = Len(a) + Len(b)
      /\ \A i \in 1 .. Len(a) + Len(b) : (a \o b)[i] = IF i <= Len(a) THEN a[i] ELSE b[i - Len(a)]
  BY ConcatProperties
<1>2. Len(a) \in Nat /\ Len(b) \in Nat
  OBVIOUS
<1>3. ASSUME NEW i \in 1 .. Len(c) PROVE c[i] = (a \o b)[i]
  <2>1. CASE i <= Len(a)
    <3>1. i \in 1 .. Len(a) /\ i \in 1 .. Len(a) + Len(b)
      BY <1>2, <2>1
    <3>2. QED
      BY <1>1, <2>1, <3>1
  <2>2. CASE ~(i <= Len(a))
    <3>1. PICK k : k = i - Len(a)
      OBVIOUS
    <3>2. k \in 1 .. Len(b) /\ Len(a) + k = i /\ i \in 1 .. Len(a) + Len(b)
      BY <1>2, <2>2, <3>1
    <3>3. QED
      BY <1>1, <2>2, <3>1, <3>2
  <2>3. QED
    BY <2>1, <2>2
<1>4. QED
  BY <1>1, <1>3, SeqEqual

LEMMA ByFits ==
  ASSUME NEW role \in Str, NEW t \in Seq(Str)
  PROVE  /\ P!By(role, t) \in Seq(Attributed) /\ Len(P!By(role, t)) = Len(t)
         /\ \A k \in 1 .. Len(t) : P!By(role, t)[k] = <<role, t[k]>>
<1>1. PICK n \in Nat : n = Len(t)
  OBVIOUS
<1>2. DOMAIN t = 1 .. n /\ \A k \in 1 .. n : <<role, t[k]>> \in Attributed
  BY <1>1 DEF Attributed
<1>3. PICK b : b = [k \in 1 .. n |-> <<role, t[k]>>]
  OBVIOUS
<1>4. b \in [1 .. n -> Attributed] /\ \A k \in 1 .. n : b[k] = <<role, t[k]>>
  BY <1>2, <1>3
<1>5. b \in Seq(Attributed) /\ Len(b) = n
  BY <1>3, <1>4
<1>6. P!By(role, t) = b
  BY <1>2, <1>3 DEF P!By
<1>7. QED
  BY <1>1, <1>4, <1>5, <1>6

LEMMA ByNothing == ASSUME NEW role \in Str PROVE P!By(role, <<>>) = <<>>
BY DEF P!By

LEMMA ByAppend ==
  ASSUME NEW role \in Str, NEW t \in Seq(Str), NEW x \in Str
  PROVE  P!By(role, Append(t, x)) = P!By(role, t) \o <<<<role, x>>>>
<1>1. PICK u : u = Append(t, x)
  OBVIOUS
<1>2. /\ u \in Seq(Str) /\ Len(t) \in Nat /\ Len(u) = Len(t) + 1 /\ u[Len(t) + 1] = x
      /\ \A k \in 1 .. Len(t) : u[k] = t[k]
  BY <1>1, AfterAppend
<1>3. PICK a, b, c : a = P!By(role, t) /\ b = <<<<role, x>>>> /\ c = P!By(role, u)
  OBVIOUS
<1>4. <<role, x>> \in Attributed
  BY DEF Attributed
<1>5. b \in Seq(Attributed) /\ Len(b) = 1 /\ b[1] = <<role, x>>
  BY <1>3, <1>4
<1>6. /\ a \in Seq(Attributed) /\ Len(a) = Len(t)
      /\ \A k \in 1 .. Len(t) : a[k] = <<role, t[k]>>
  BY <1>3, ByFits
<1>7. /\ c \in Seq(Attributed) /\ Len(c) = Len(u)
      /\ \A k \in 1 .. Len(u) : c[k] = <<role, u[k]>>
  BY <1>2, <1>3, ByFits
<1>8. /\ Len(c) = Len(a) + Len(b)
      /\ \A k \in 1 .. Len(a) : c[k] = a[k]
      /\ \A k \in 1 .. Len(b) : c[Len(a) + k] = b[k]
  <2>1. Len(c) = Len(a) + Len(b) /\ Len(u) \in Nat /\ Len(a) = Len(t)
    BY <1>2, <1>5, <1>6, <1>7
  <2>2. ASSUME NEW k \in 1 .. Len(a) PROVE c[k] = a[k]
    <3>1. k \in 1 .. Len(t) /\ k \in 1 .. Len(u)
      BY <1>2, <2>1
    <3>2. QED
      BY <1>2, <1>6, <1>7, <3>1
  <2>3. ASSUME NEW k \in 1 .. Len(b) PROVE c[Len(a) + k] = b[k]
    <3>1. k = 1 /\ Len(a) + k = Len(t) + 1 /\ Len(t) + 1 \in 1 .. Len(u)
      BY <1>2, <1>5, <2>1
    <3>2. QED
      BY <1>2, <1>5, <1>7, <3>1
  <2>4. QED
    BY <2>1, <2>2, <2>3
<1>9. c = a \o b
  BY <1>5, <1>6, <1>7, <1>8, Joined
<1>10. QED
  BY <1>1, <1>3, <1>9

\* The texts of a buffer.
Kept(b) == [k \in DOMAIN b |-> IF P!Blank(b[k]) THEN <<>> ELSE <<b[k]>>]

LEMMA KeptFits ==
  ASSUME NEW b \in Seq(Str)
  PROVE  /\ Kept(b) \in Seq(Seq(Str)) /\ Len(Kept(b)) = Len(b)
         /\ \A k \in 1 .. Len(b) : Kept(b)[k] = IF b[k] = "" THEN <<>> ELSE <<b[k]>>
<1>1. PICK n \in Nat : n = Len(b)
  OBVIOUS
<1>2. DOMAIN b = 1 .. n
  BY <1>1
<1>3. ASSUME NEW k \in 1 .. n PROVE (IF b[k] = "" THEN <<>> ELSE <<b[k]>>) \in Seq(Str)
  <2>1. b[k] \in Str
    BY <1>1
  <2>2. <<>> \in Seq(Str) /\ <<b[k]>> \in Seq(Str)
    BY <2>1, NothingSays, SingleSays
  <2>3. QED
    BY <2>2
<1>4. PICK c : c = [k \in 1 .. n |-> IF b[k] = "" THEN <<>> ELSE <<b[k]>>]
  OBVIOUS
<1>5. c \in [1 .. n -> Seq(Str)]
  BY <1>3, <1>4
<1>6. c \in Seq(Seq(Str)) /\ Len(c) = n
  <2>1. \A T : \A d \in [1 .. n -> T] : d \in Seq(T) /\ Len(d) = n
    OBVIOUS
  <2>2. QED
    BY <1>5, <2>1
<1>7. Kept(b) = c
  BY <1>2, <1>4 DEF Kept, P!Blank
<1>8. QED
  BY <1>1, <1>4, <1>6, <1>7

LEMMA TextsFits == ASSUME NEW b \in Seq(Str) PROVE P!Texts(b) \in Seq(Str)
BY KeptFits, FlattenFits DEF P!Texts, Kept

LEMMA TextsNothing == P!Texts(<<>>) = <<>>
<1>1. [k \in DOMAIN <<>> |-> IF P!Blank(<<>>[k]) THEN <<>> ELSE <<<<>>[k]>>] = <<>>
  OBVIOUS
<1>2. QED
  BY <1>1, FlattenEmpty DEF P!Texts

LEMMA TextsAppend ==
  ASSUME NEW b \in Seq(Str), NEW x \in Str
  PROVE  P!Texts(Append(b, x)) = IF x = "" THEN P!Texts(b) ELSE Append(P!Texts(b), x)
<1>1. PICK e : e = IF x = "" THEN <<>> ELSE <<x>>
  OBVIOUS
<1>2. PICK u : u = Append(b, x)
  OBVIOUS
<1>3. /\ u \in Seq(Str) /\ Len(b) \in Nat /\ Len(u) = Len(b) + 1 /\ u[Len(b) + 1] = x
      /\ \A k \in 1 .. Len(b) : u[k] = b[k]
  BY <1>2, AfterAppend
<1>4. e \in Seq(Str)
  BY <1>1, NothingSays, SingleSays
<1>5. PICK s : s = Kept(b)
  OBVIOUS
<1>6. /\ s \in Seq(Seq(Str)) /\ Len(s) = Len(b)
      /\ \A k \in 1 .. Len(b) : s[k] = IF b[k] = "" THEN <<>> ELSE <<b[k]>>
  BY <1>5, KeptFits
<1>7. PICK t : t = Append(s, e)
  OBVIOUS
<1>8. /\ t \in Seq(Seq(Str)) /\ Len(t) = Len(s) + 1 /\ t[Len(s) + 1] = e
      /\ \A k \in 1 .. Len(s) : t[k] = s[k]
  <2>1. \A T : \A d \in Seq(T) : \A y \in T :
          /\ Append(d, y) \in Seq(T) /\ Len(Append(d, y)) = Len(d) + 1
          /\ Append(d, y)[Len(d) + 1] = y /\ \A k \in 1 .. Len(d) : Append(d, y)[k] = d[k]
    OBVIOUS
  <2>2. s \in Seq(Seq(Str))
    BY <1>6
  <2>3. QED
    BY <1>4, <1>7, <2>1, <2>2
<1>9. PICK v : v = Kept(u)
  OBVIOUS
<1>10. /\ v \in Seq(Seq(Str)) /\ Len(v) = Len(u)
      /\ \A k \in 1 .. Len(u) : v[k] = IF u[k] = "" THEN <<>> ELSE <<u[k]>>
  BY <1>3, <1>9, KeptFits
<1>11. Len(v) = Len(b) + 1 /\ Len(u) = Len(b) + 1 /\ Len(s) = Len(b) /\ Len(t) = Len(v)
  BY <1>3, <1>6, <1>8, <1>10
<1>12. ASSUME NEW k \in 1 .. Len(v) PROVE v[k] = t[k]
  <2>1. CASE k = Len(b) + 1
    <3>1. k \in 1 .. Len(u) /\ t[k] = e /\ u[k] = x
      BY <1>3, <1>8, <1>11, <2>1
    <3>2. QED
      BY <1>1, <1>10, <3>1
  <2>2. CASE k # Len(b) + 1
    <3>1. k \in 1 .. Len(b) /\ k \in 1 .. Len(u)
      BY <1>3, <1>11, <2>2
    <3>2. t[k] = s[k] /\ u[k] = b[k]
      BY <1>3, <1>8, <1>11, <3>1
    <3>3. QED
      BY <1>6, <1>10, <3>1, <3>2
  <2>3. QED
    BY <2>1, <2>2
<1>13. v = t
  <2>1. v \in Seq(Seq(Str)) /\ t \in Seq(Seq(Str))
    BY <1>8, <1>10
  <2>2. QED
    BY <1>12, <1>11, <2>1, SeqEqual
<1>14. P!FlattenSeq(Append(s, e)) = P!FlattenSeq(s) \o e
  BY <1>4, <1>6, FlattenAppend
<1>15. P!Texts(u) = P!FlattenSeq(v) /\ P!Texts(b) = P!FlattenSeq(s)
  BY <1>5, <1>9 DEF P!Texts, Kept
<1>16. PICK w \in Seq(Str) : w = P!Texts(b)
  BY TextsFits
<1>17. P!Texts(u) = w \o e
  BY <1>7, <1>13, <1>14, <1>15, <1>16
<1>18. CASE x = ""
  <2>1. w \o <<>> = w
    BY ConcatEmptySeq
  <2>2. QED
    BY <1>1, <1>2, <1>16, <1>17, <1>18, <2>1
<1>19. CASE x # ""
  <2>1. w \o <<x>> = Append(w, x)
    OBVIOUS
  <2>2. QED
    BY <1>1, <1>2, <1>16, <1>17, <1>19, <2>1
<1>20. QED
  BY <1>18, <1>19

LEMMA ReportFits ==
  ASSUME NEW o \in AllSaid
  PROVE  P!ReportOf(o) \in Seq(Attributed)
<1>1. CASE o.obs = "output"
  <2>1. o.role \in Str /\ o.texts \in Seq(Str)
    BY <1>1 DEF AllSaid, TurnSaid, TextSaid, ToolSaid
  <2>2. P!ReportOf(o) = P!By(o.role, o.texts)
    BY <1>1 DEF P!ReportOf
  <2>3. QED
    BY <2>1, <2>2, ByFits
<1>2. CASE o.obs # "output"
  BY <1>2, NothingSays DEF P!ReportOf
<1>3. QED
  BY <1>1, <1>2

LEMMA ReportsFit ==
  ASSUME NEW out \in Seq(AllSaid)
  PROVE  /\ ReportsOf(out) \in Seq(Seq(Attributed)) /\ Len(ReportsOf(out)) = Len(out)
         /\ \A k \in 1 .. Len(out) : ReportsOf(out)[k] = P!ReportOf(out[k])
<1>1. PICK n \in Nat : n = Len(out)
  OBVIOUS
<1>2. DOMAIN out = 1 .. n /\ \A k \in 1 .. n : P!ReportOf(out[k]) \in Seq(Attributed)
  BY <1>1, ReportFits
<1>3. PICK c : c = [k \in 1 .. n |-> P!ReportOf(out[k])]
  OBVIOUS
<1>4. c \in [1 .. n -> Seq(Attributed)]
  BY <1>2, <1>3
<1>5. c \in Seq(Seq(Attributed)) /\ Len(c) = n
  BY <1>3, <1>4
<1>6. ReportsOf(out) = c
  BY <1>2, <1>3 DEF ReportsOf
<1>7. QED
  BY <1>1, <1>3, <1>5, <1>6

LEMMA TextOfFits == ASSUME NEW out \in Seq(AllSaid) PROVE TextOf(out) \in Seq(Attributed)
BY ReportsFit, FlattenFits DEF TextOf

LEMMA TextOfNothing == TextOf(<<>>) = <<>>
<1>1. ReportsOf(<<>>) = <<>>
  BY DEF ReportsOf
<1>2. QED
  BY <1>1, FlattenEmpty DEF TextOf

LEMMA TextOfSingle == ASSUME NEW o \in AllSaid PROVE TextOf(<<o>>) = P!ReportOf(o)
<1>1. ReportsOf(<<o>>) = <<P!ReportOf(o)>>
  BY DEF ReportsOf
<1>2. QED
  BY <1>1, ReportFits, FlattenSingle DEF TextOf

LEMMA TextOfJoined ==
  ASSUME NEW a \in Seq(AllSaid), NEW b \in Seq(AllSaid)
  PROVE  TextOf(a \o b) = TextOf(a) \o TextOf(b)
<1>1. /\ a \o b \in Seq(AllSaid) /\ Len(a \o b) = Len(a) + Len(b)
      /\ \A i \in 1 .. Len(a) + Len(b) : (a \o b)[i] = IF i <= Len(a) THEN a[i] ELSE b[i - Len(a)]
  BY ConcatProperties
<1>2. PICK r, s, t : r = ReportsOf(a) /\ s = ReportsOf(b) /\ t = ReportsOf(a \o b)
  OBVIOUS
<1>3. /\ r \in Seq(Seq(Attributed)) /\ Len(r) = Len(a)
      /\ \A k \in 1 .. Len(a) : r[k] = P!ReportOf(a[k])
  BY <1>2, ReportsFit
<1>4. /\ s \in Seq(Seq(Attributed)) /\ Len(s) = Len(b)
      /\ \A k \in 1 .. Len(b) : s[k] = P!ReportOf(b[k])
  BY <1>2, ReportsFit
<1>5. /\ t \in Seq(Seq(Attributed)) /\ Len(t) = Len(a \o b)
      /\ \A k \in 1 .. Len(a \o b) : t[k] = P!ReportOf((a \o b)[k])
  BY <1>1, <1>2, ReportsFit
<1>6. Len(a) \in Nat /\ Len(b) \in Nat
  OBVIOUS
<1>7. \A k \in 1 .. Len(r) : t[k] = r[k]
  BY <1>1, <1>3, <1>5, <1>6
<1>8. ASSUME NEW k \in 1 .. Len(s) PROVE t[Len(r) + k] = s[k]
  <2>1. PICK i : i = Len(a) + k
    OBVIOUS
  <2>2. i \in 1 .. Len(a) + Len(b) /\ ~(i <= Len(a)) /\ i - Len(a) = k
    BY <1>4, <1>6, <2>1
  <2>3. (a \o b)[i] = b[k] /\ t[i] = P!ReportOf((a \o b)[i])
    BY <1>1, <1>5, <2>2
  <2>4. QED
    BY <1>3, <1>4, <2>1, <2>3
<1>9. t = r \o s
  <2>1. Len(t) = Len(r) + Len(s)
    BY <1>1, <1>3, <1>4, <1>5
  <2>2. QED
    BY <1>3, <1>4, <1>5, <1>7, <1>8, <2>1, Joined
<1>10. P!FlattenSeq(r \o s) = P!FlattenSeq(r) \o P!FlattenSeq(s)
  BY <1>3, <1>4, FlattenConcat
<1>11. QED
  BY <1>2, <1>9, <1>10 DEF TextOf

LEMMA TextOfPair ==
  ASSUME NEW a \in AllSaid, NEW b \in AllSaid
  PROVE  <<a, b>> \in Seq(AllSaid) /\ TextOf(<<a, b>>) = P!ReportOf(a) \o P!ReportOf(b)
<1>1. PICK s, t : s = <<a>> /\ t = <<b>>
  OBVIOUS
<1>2. s \in Seq(AllSaid) /\ t \in Seq(AllSaid)
  BY <1>1, SingleSays
<1>3. TextOf(s \o t) = TextOf(s) \o TextOf(t)
  BY <1>2, TextOfJoined
<1>4. TextOf(s) = P!ReportOf(a) /\ TextOf(t) = P!ReportOf(b)
  BY <1>1, TextOfSingle
<1>5. s \o t = <<a, b>>
  <2>1. PICK c : c = <<a, b>>
    OBVIOUS
  <2>2. c \in Seq(AllSaid) /\ Len(c) = 2 /\ c[1] = a /\ c[2] = b
    BY <2>1
  <2>3. Len(s) = 1 /\ Len(t) = 1 /\ s[1] = a /\ t[1] = b
    BY <1>1
  <2>4. (\A k \in 1 .. Len(s) : c[k] = s[k]) /\ \A k \in 1 .. Len(t) : c[Len(s) + k] = t[k]
    BY <2>2, <2>3
  <2>5. Len(c) = Len(s) + Len(t)
    BY <2>2, <2>3
  <2>6. c = s \o t
    BY <1>2, <2>2, <2>4, <2>5, Joined
  <2>7. QED
    BY <2>1, <2>6
<1>6. s \o t \in Seq(AllSaid)
  BY <1>2, ConcatProperties
<1>7. QED
  BY <1>3, <1>4, <1>5, <1>6

LEMMA SaidForms ==
  /\ \A phase \in Str : P!Turn(phase) \in AllSaid /\ P!ReportOf(P!Turn(phase)) = <<>>
  /\ \A role \in Str, texts \in Seq(Str) :
       /\ P!Output(role, texts) \in AllSaid
       /\ P!ReportOf(P!Output(role, texts)) = P!By(role, texts)
  /\ \A phase, id, name \in Str :
       P!Tool(phase, id, name) \in AllSaid /\ P!ReportOf(P!Tool(phase, id, name)) = <<>>
<1>1. ASSUME NEW phase \in Str PROVE P!Turn(phase) \in AllSaid /\ P!ReportOf(P!Turn(phase)) = <<>>
  <2>1. P!Turn(phase) \in AllSaid
    BY SaysOf DEF AllSaid
  <2>2. QED
    BY <2>1 DEF P!Turn, P!ReportOf
<1>2. ASSUME NEW role \in Str, NEW texts \in Seq(Str)
      PROVE  /\ P!Output(role, texts) \in AllSaid
             /\ P!ReportOf(P!Output(role, texts)) = P!By(role, texts)
  <2>1. P!Output(role, texts) \in AllSaid
    BY SaysOf DEF AllSaid
  <2>2. QED
    BY <2>1 DEF P!Output, P!ReportOf
<1>3. ASSUME NEW phase \in Str, NEW id \in Str, NEW name \in Str
      PROVE  P!Tool(phase, id, name) \in AllSaid /\ P!ReportOf(P!Tool(phase, id, name)) = <<>>
  <2>1. P!Tool(phase, id, name) \in AllSaid
    BY SaysOf DEF AllSaid
  <2>2. QED
    BY <2>1 DEF P!Tool, P!ReportOf
<1>4. QED
  BY <1>1, <1>2, <1>3

LEMMA TitledByGives ==
  ASSUME NEW p \in Memory, NEW text \in Str
  PROVE  /\ P!TitledBy(p, text) \in Memory
         /\ P!TitledBy(p, text).user = p.user /\ P!TitledBy(p, text).agent = p.agent
BY DEF P!TitledBy, Memory

LEMMA FlushUserGives ==
  ASSUME NEW p \in Memory
  PROVE  /\ P!FlushUser(p).parser \in Memory
         /\ P!FlushUser(p).parser.user = <<>> /\ P!FlushUser(p).parser.agent = p.agent
         /\ P!FlushUser(p).out \in Seq(AllSaid)
         /\ TextOf(P!FlushUser(p).out) = P!By("user", P!Texts(p.user))
         /\ p.user = <<>> => P!FlushUser(p).out = <<>>
<1>1. p.user \in Seq(Str) /\ p.agent \in Seq(Str) /\ "user" \in Str /\ "started" \in Str
  BY DEF Memory, Str
<1>2. PICK texts \in Seq(Str) : texts = P!Texts(p.user)
  BY <1>1, TextsFits
<1>3. PICK empty : empty = [p EXCEPT !.user = <<>>]
  OBVIOUS
<1>4. empty \in Memory /\ empty.user = <<>> /\ empty.agent = p.agent
  BY <1>3, NothingSays DEF Memory
<1>5. CASE texts = <<>>
  <2>1. P!FlushUser(p) = P!Quiet(empty)
    BY <1>2, <1>3, <1>5 DEF P!FlushUser
  <2>2. P!FlushUser(p).parser = empty /\ P!FlushUser(p).out = <<>>
    BY <2>1 DEF P!Quiet
  <2>3. P!By("user", texts) = <<>>
    BY <1>1, <1>5, ByNothing
  <2>4. QED
    BY <1>2, <1>4, <2>2, <2>3, TextOfNothing, NothingSays
<1>6. CASE texts # <<>>
  <2>1. PICK first \in Str : first = texts[1]
    BY <1>6
  <2>2. PICK q : q = P!TitledBy(empty, first)
    OBVIOUS
  <2>3. q \in Memory /\ q.user = <<>> /\ q.agent = p.agent
    BY <1>4, <2>2, TitledByGives
  <2>4. PICK a, b : a = P!Turn("started") /\ b = P!Output("user", texts)
    OBVIOUS
  <2>5. /\ a \in AllSaid /\ b \in AllSaid
        /\ P!ReportOf(a) = <<>> /\ P!ReportOf(b) = P!By("user", texts)
    BY <1>1, <2>4, SaidForms
  <2>6. P!FlushUser(p) = P!Says(q, <<a, b>>)
    BY <1>2, <1>3, <1>6, <2>1, <2>2, <2>4 DEF P!FlushUser
  <2>7. P!FlushUser(p).parser = q /\ P!FlushUser(p).out = <<a, b>>
    BY <2>6 DEF P!Says
  <2>8. <<a, b>> \in Seq(AllSaid) /\ TextOf(<<a, b>>) = <<>> \o P!By("user", texts)
    BY <2>5, TextOfPair
  <2>9. <<>> \o P!By("user", texts) = P!By("user", texts)
    BY <1>1, ByFits, ConcatEmptySeq
  <2>10. p.user # <<>>
    BY <1>2, <1>6, TextsNothing
  <2>11. QED
    BY <1>2, <2>3, <2>7, <2>8, <2>9, <2>10
<1>7. QED
  BY <1>5, <1>6

LEMMA FlushAssistantGives ==
  ASSUME NEW p \in Memory
  PROVE  /\ P!FlushAssistant(p).parser \in Memory
         /\ P!FlushAssistant(p).parser.user = p.user /\ P!FlushAssistant(p).parser.agent = <<>>
         /\ P!FlushAssistant(p).out \in Seq(AllSaid)
         /\ TextOf(P!FlushAssistant(p).out) = P!By("assistant", P!Texts(p.agent))
         /\ p.agent = <<>> => P!FlushAssistant(p).out = <<>>
<1>1. p.user \in Seq(Str) /\ p.agent \in Seq(Str) /\ "assistant" \in Str
  BY DEF Memory, Str
<1>2. PICK texts \in Seq(Str) : texts = P!Texts(p.agent)
  BY <1>1, TextsFits
<1>3. PICK empty : empty = [p EXCEPT !.agent = <<>>]
  OBVIOUS
<1>4. empty \in Memory /\ empty.user = p.user /\ empty.agent = <<>>
  BY <1>3, NothingSays DEF Memory
<1>5. CASE texts = <<>>
  <2>1. P!FlushAssistant(p) = P!Quiet(empty)
    BY <1>2, <1>3, <1>5 DEF P!FlushAssistant
  <2>2. P!FlushAssistant(p).parser = empty /\ P!FlushAssistant(p).out = <<>>
    BY <2>1 DEF P!Quiet
  <2>3. P!By("assistant", texts) = <<>>
    BY <1>1, <1>5, ByNothing
  <2>4. QED
    BY <1>2, <1>4, <2>2, <2>3, TextOfNothing, NothingSays
<1>6. CASE texts # <<>>
  <2>1. PICK b : b = P!Output("assistant", texts)
    OBVIOUS
  <2>2. b \in AllSaid /\ P!ReportOf(b) = P!By("assistant", texts)
    BY <1>1, <2>1, SaidForms
  <2>3. P!FlushAssistant(p) = P!Says(empty, <<b>>)
    BY <1>2, <1>3, <1>6, <2>1 DEF P!FlushAssistant
  <2>4. P!FlushAssistant(p).parser = empty /\ P!FlushAssistant(p).out = <<b>>
    BY <2>3 DEF P!Says
  <2>5. <<b>> \in Seq(AllSaid) /\ TextOf(<<b>>) = P!By("assistant", texts)
    BY <2>2, SingleSays, TextOfSingle
  <2>6. p.agent # <<>>
    BY <1>2, <1>6, TextsNothing
  <2>7. QED
    BY <1>2, <1>4, <2>4, <2>5, <2>6
<1>7. QED
  BY <1>5, <1>6

LEMMA FlushGives ==
  ASSUME NEW p \in Memory
  PROVE  /\ P!Flush(p).parser \in Memory
         /\ P!Flush(p).parser.user = <<>> /\ P!Flush(p).parser.agent = <<>>
         /\ P!Flush(p).out \in Seq(AllSaid) /\ TextOf(P!Flush(p).out) = BufferText(p)
         /\ p.user = <<>> /\ p.agent = <<>> => P!Flush(p).out = <<>>
<1>1. PICK user : user = P!FlushUser(p)
  OBVIOUS
<1>2. /\ user.parser \in Memory /\ user.parser.user = <<>> /\ user.parser.agent = p.agent
      /\ user.out \in Seq(AllSaid) /\ TextOf(user.out) = P!By("user", P!Texts(p.user))
      /\ p.user = <<>> => user.out = <<>>
  BY <1>1, FlushUserGives
<1>3. PICK agent : agent = P!FlushAssistant(user.parser)
  OBVIOUS
<1>4. /\ agent.parser \in Memory /\ agent.parser.user = <<>> /\ agent.parser.agent = <<>>
      /\ agent.out \in Seq(AllSaid)
      /\ TextOf(agent.out) = P!By("assistant", P!Texts(p.agent))
      /\ p.agent = <<>> => agent.out = <<>>
  BY <1>2, <1>3, FlushAssistantGives
<1>5. P!Flush(p) = P!Says(agent.parser, user.out \o agent.out)
  BY <1>1, <1>3 DEF P!Flush
<1>6. P!Flush(p).parser = agent.parser /\ P!Flush(p).out = user.out \o agent.out
  <2>1. \A q, out : P!Says(q, out).parser = q /\ P!Says(q, out).out = out
    BY DEF P!Says
  <2>2. QED
    BY <1>5, <2>1
<1>7. PICK s, t \in Seq(AllSaid) : s = user.out /\ t = agent.out
  BY <1>2, <1>4
<1>8. s \o t \in Seq(AllSaid) /\ TextOf(s \o t) = TextOf(s) \o TextOf(t)
  BY ConcatProperties, TextOfJoined
<1>9. s = <<>> /\ t = <<>> => s \o t = <<>>
  OBVIOUS
<1>10. QED
  BY <1>2, <1>4, <1>6, <1>7, <1>8, <1>9 DEF BufferText

LEMMA NoBufferText ==
  ASSUME NEW p, p.user = <<>>, p.agent = <<>>
  PROVE  BufferText(p) = <<>> /\ OneBuffer(p)
<1>1. P!Texts(p.user) = <<>> /\ P!Texts(p.agent) = <<>>
  BY TextsNothing
<1>2. P!By("user", <<>>) = <<>> /\ P!By("assistant", <<>>) = <<>>
  BY DEF P!By
<1>3. <<>> \o <<>> = <<>>
  OBVIOUS
<1>4. QED
  BY <1>1, <1>2, <1>3 DEF BufferText, OneBuffer

LEMMA BufferTextFits == ASSUME NEW p \in Memory PROVE BufferText(p) \in Seq(Attributed)
<1>1. /\ P!Texts(p.user) \in Seq(Str) /\ P!Texts(p.agent) \in Seq(Str)
      /\ "user" \in Str /\ "assistant" \in Str
  BY TextsFits DEF Memory, Str
<1>2. /\ P!By("user", P!Texts(p.user)) \in Seq(Attributed)
      /\ P!By("assistant", P!Texts(p.agent)) \in Seq(Attributed)
  BY <1>1, ByFits
<1>3. QED
  BY <1>2, ConcatProperties DEF BufferText

AiderFed(p, r, result) ==
  /\ result.parser \in Memory /\ result.out \in Seq(AllSaid)
  /\ TextOf(result.out) \o BufferText(result.parser) = BufferText(p) \o P!Written(r)
  /\ OneBuffer(result.parser)

LEMMA SaysGives ==
  ASSUME NEW q, NEW out
  PROVE  P!Says(q, out).parser = q /\ P!Says(q, out).out = out
BY DEF P!Says

LEMMA WrittenForms ==
  ASSUME NEW r \in AiderRecord
  PROVE  /\ P!Written(r) \in Seq(Attributed)
         /\ r.type = "started" => P!Written(r) = <<>>
         /\ r.type = "prompt" =>
              P!Written(r) = IF r.text = "" THEN <<>> ELSE <<<<"user", r.text>>>>
         /\ r.type = "markdown" =>
              P!Written(r) = IF r.text = "" THEN <<>> ELSE <<<<"assistant", r.text>>>>
         /\ r.type = "info" =>
              P!Written(r) = IF r.info = "other" THEN <<<<"system", r.text>>>> ELSE <<>>
<1>1. /\ r.text \in Str /\ r.type \in {"started", "prompt", "info", "markdown"}
      /\ r.type = "info" /\ r.info = "other" => r.text # ""
  BY DEF AiderRecord, Str
<1>2. ASSUME NEW role \in {"user", "assistant", "system"}
      PROVE  <<<<role, r.text>>>> \in Seq(Attributed)
  <2>1. <<role, r.text>> \in Attributed
    BY <1>1 DEF Attributed, Str
  <2>2. QED
    BY <2>1, SingleSays
<1>3. <<>> \in Seq(Attributed)
  BY NothingSays
<1>4. CASE r.type = "started"
  <2>1. P!Written(r) = <<>>
    BY <1>4 DEF P!Written
  <2>2. QED
    BY <1>3, <1>4, <2>1
<1>5. CASE r.type = "prompt"
  <2>1. P!Written(r) = IF r.text = "" THEN <<>> ELSE <<<<"user", r.text>>>>
    BY <1>5 DEF P!Written, P!Blank
  <2>2. QED
    BY <1>2, <1>3, <1>5, <2>1
<1>6. CASE r.type = "markdown"
  <2>1. P!Written(r) = IF r.text = "" THEN <<>> ELSE <<<<"assistant", r.text>>>>
    BY <1>6 DEF P!Written, P!Blank
  <2>2. QED
    BY <1>2, <1>3, <1>6, <2>1
<1>7. CASE r.type = "info"
  <2>1. P!Written(r) = IF r.info = "other" THEN <<<<"system", r.text>>>> ELSE <<>>
    BY <1>1, <1>7 DEF P!Written, P!Blank
  <2>2. QED
    BY <1>2, <1>3, <1>7, <2>1
<1>8. QED
  BY <1>1, <1>4, <1>5, <1>6, <1>7

\* After a flush, what is said of a line is the text of the line.
LEMMA FlushedFeeds ==
  ASSUME NEW p \in Memory, NEW r \in AiderRecord, NEW q \in Memory, q.user = <<>>, q.agent = <<>>,
         NEW out \in Seq(AllSaid), TextOf(out) = P!Written(r)
  PROVE  AiderFed(p, r, P!Says(q, P!Flush(p).out \o out))
<1>1. PICK s \in Seq(AllSaid) : s = P!Flush(p).out
  BY FlushGives
<1>2. s \o out \in Seq(AllSaid) /\ TextOf(s \o out) = TextOf(s) \o TextOf(out)
  BY ConcatProperties, TextOfJoined
<1>3. TextOf(s) = BufferText(p)
  BY <1>1, FlushGives
<1>4. BufferText(q) = <<>> /\ OneBuffer(q)
  BY NoBufferText
<1>5. PICK t \in Seq(Attributed) : t = TextOf(s \o out)
  BY <1>2, TextOfFits
<1>6. t \o <<>> = t
  BY ConcatEmptySeq
<1>7. PICK x : x = s \o out
  OBVIOUS
<1>8. P!Says(q, x).parser = q /\ P!Says(q, x).out = x
  BY SaysGives
<1>9. TextOf(x) \o BufferText(q) = BufferText(p) \o P!Written(r)
  BY <1>2, <1>3, <1>4, <1>5, <1>6, <1>7
<1>10. AiderFed(p, r, P!Says(q, x))
  BY <1>2, <1>4, <1>7, <1>8, <1>9 DEF AiderFed
<1>11. QED
  BY <1>1, <1>7, <1>10

LEMMA AiderPromptFeeds ==
  ASSUME NEW p \in Memory, NEW r \in AiderRecord, r.type = "prompt", OneBuffer(p)
  PROVE  AiderFed(p, r, P!AiderPrompt(p, r))
<1>1. r.text \in Str /\ p.user \in Seq(Str) /\ p.agent \in Seq(Str)
  BY DEF AiderRecord, Memory, Str
<1>2. PICK flushed : flushed = IF P!Blank(r.text) THEN P!Quiet(p) ELSE P!FlushAssistant(p)
  OBVIOUS
<1>3. PICK q : q = [flushed.parser EXCEPT !.user = Append(@, r.text)]
  OBVIOUS
<1>4. P!AiderPrompt(p, r) = P!Says(q, flushed.out)
  BY <1>2, <1>3 DEF P!AiderPrompt
<1>5. P!AiderPrompt(p, r).parser = q /\ P!AiderPrompt(p, r).out = flushed.out
  BY <1>4, SaysGives
<1>6. Append(p.user, r.text) \in Seq(Str)
  BY <1>1, AfterAppend
<1>7. "user" \in Str /\ "assistant" \in Str
  BY DEF Str
<1>8. PICK texts \in Seq(Str) : texts = P!Texts(p.user)
  BY <1>1, TextsFits
<1>9. CASE r.text = ""
  <2>1. flushed.parser = p /\ flushed.out = <<>>
    BY <1>2, <1>9 DEF P!Blank, P!Quiet
  <2>2. q \in Memory /\ q.user = Append(p.user, r.text) /\ q.agent = p.agent
    BY <1>3, <1>6, <2>1 DEF Memory
  <2>3. P!Texts(q.user) = P!Texts(p.user)
    BY <1>1, <1>9, <2>2, TextsAppend
  <2>4. BufferText(q) = BufferText(p) /\ OneBuffer(q)
    BY <2>2, <2>3 DEF BufferText, OneBuffer
  <2>5. PICK t \in Seq(Attributed) : t = BufferText(p)
    BY BufferTextFits
  <2>6. <<>> \o t = t /\ t \o <<>> = t
    BY ConcatEmptySeq
  <2>7. P!Written(r) = <<>>
    BY <1>9, WrittenForms
  <2>8. QED
    BY <1>5, <2>1, <2>2, <2>4, <2>5, <2>6, <2>7, TextOfNothing, NothingSays DEF AiderFed
<1>10. CASE r.text # ""
  <2>1. flushed = P!FlushAssistant(p)
    BY <1>2, <1>10 DEF P!Blank
  <2>2. /\ flushed.parser \in Memory /\ flushed.parser.user = p.user
        /\ flushed.parser.agent = <<>> /\ flushed.out \in Seq(AllSaid)
        /\ TextOf(flushed.out) = P!By("assistant", P!Texts(p.agent))
    BY <2>1, FlushAssistantGives
  <2>3. q \in Memory /\ q.user = Append(p.user, r.text) /\ q.agent = <<>>
    BY <1>3, <1>6, <2>2 DEF Memory
  <2>4. P!Texts(q.agent) = <<>> /\ P!Texts(q.user) = Append(texts, r.text)
    BY <1>1, <1>8, <1>10, <2>3, TextsAppend, TextsNothing
  <2>5. PICK u \in Seq(Attributed) : u = P!By("user", texts)
    BY <1>7, ByFits
  <2>6. PICK a \in Seq(Attributed) : a = P!By("assistant", P!Texts(p.agent))
    BY <1>1, <1>7, TextsFits, ByFits
  <2>7. PICK w \in Seq(Attributed) : w = <<<<"user", r.text>>>>
    BY <1>10, WrittenForms
  <2>8. BufferText(q) = (u \o w) \o <<>>
    <3>1. P!By("user", Append(texts, r.text)) = P!By("user", texts) \o <<<<"user", r.text>>>>
      BY <1>1, <1>7, ByAppend
    <3>2. P!By("assistant", <<>>) = <<>>
      BY <1>7, ByNothing
    <3>3. QED
      BY <2>4, <2>5, <2>7, <3>1, <3>2 DEF BufferText
  <2>9. (u \o w) \o <<>> = u \o w
    BY ConcatProperties, ConcatEmptySeq
  <2>10. BufferText(p) = u \o a
    BY <1>8, <2>5, <2>6 DEF BufferText
  <2>11. a \o (u \o w) = (u \o a) \o w
    <3>1. u = <<>> \/ a = <<>>
      <4>1. texts = <<>> \/ P!Texts(p.agent) = <<>>
        BY <1>8 DEF OneBuffer
      <4>2. P!By("user", <<>>) = <<>> /\ P!By("assistant", <<>>) = <<>>
        BY <1>7, ByNothing
      <4>3. QED
        BY <2>5, <2>6, <4>1, <4>2
    <3>2. CASE u = <<>>
      <4>1. <<>> \o w = w /\ <<>> \o a = a
        BY ConcatEmptySeq
      <4>2. QED
        BY <3>2, <4>1
    <3>3. CASE a = <<>>
      <4>1. u \o <<>> = u /\ <<>> \o (u \o w) = u \o w
        BY ConcatEmptySeq, ConcatProperties
      <4>2. QED
        BY <3>3, <4>1
    <3>4. QED
      BY <3>1, <3>2, <3>3
  <2>12. P!Written(r) = w
    BY <1>10, <2>7, WrittenForms
  <2>13. OneBuffer(q)
    BY <2>4 DEF OneBuffer
  <2>14. QED
    BY <1>5, <2>2, <2>3, <2>6, <2>8, <2>9, <2>10, <2>11, <2>12, <2>13 DEF AiderFed
<1>11. QED
  BY <1>9, <1>10

LEMMA AiderInfoFeeds ==
  ASSUME NEW p \in Memory, NEW r \in AiderRecord, r.type = "info"
  PROVE  AiderFed(p, r, P!AiderInfo(p, r))
<1>1. /\ r.text \in Str /\ r.info \in {"blank", "model", "edit", "tokens", "other"}
      /\ P!Written(r) = IF r.info = "other" THEN <<<<"system", r.text>>>> ELSE <<>>
  BY WrittenForms DEF AiderRecord, Str
<1>2. PICK flushed : flushed = P!Flush(p)
  OBVIOUS
<1>3. PICK q : q = flushed.parser
  OBVIOUS
<1>4. q \in Memory /\ q.user = <<>> /\ q.agent = <<>> /\ flushed.out \in Seq(AllSaid)
  BY <1>2, <1>3, FlushGives
<1>5. PICK none : none = <<>>
  OBVIOUS
<1>6. none \in Seq(AllSaid) /\ TextOf(none) = <<>>
  BY <1>5, NothingSays, TextOfNothing
<1>7. {"finished", "edit", "completed", "system"} \subseteq Str
  BY DEF Str
<1>8. CASE r.info = "blank"
  <2>1. P!AiderInfo(p, r) = P!Says(q, P!Flush(p).out \o none)
    BY <1>2, <1>3, <1>5, <1>8 DEF P!AiderInfo
  <2>2. TextOf(none) = P!Written(r)
    BY <1>1, <1>6, <1>8
  <2>3. QED
    BY <1>4, <1>6, <2>1, <2>2, FlushedFeeds
<1>9. CASE r.info = "model"
  <2>1. PICK m : m = [q EXCEPT !.model = r.text]
    OBVIOUS
  <2>2. m \in Memory /\ m.user = <<>> /\ m.agent = <<>>
    BY <1>1, <1>4, <2>1 DEF Memory
  <2>3. P!Flush(p).out = P!Flush(p).out \o none
    <3>1. PICK s \in Seq(AllSaid) : s = P!Flush(p).out
      BY <1>2, <1>4
    <3>2. s \o <<>> = s
      BY ConcatEmptySeq
    <3>3. QED
      BY <1>5, <3>1, <3>2
  <2>4. P!AiderInfo(p, r) = P!Says(m, P!Flush(p).out)
    BY <1>2, <1>3, <1>9, <2>1 DEF P!AiderInfo
  <2>5. TextOf(none) = P!Written(r)
    BY <1>1, <1>6, <1>9
  <2>6. AiderFed(p, r, P!Says(m, P!Flush(p).out \o none))
    BY <1>6, <2>2, <2>5, FlushedFeeds
  <2>7. QED
    BY <2>3, <2>4, <2>6
<1>10. ASSUME NEW o \in AllSaid, P!ReportOf(o) = P!Written(r),
              P!AiderInfo(p, r) = P!Says(q, P!Flush(p).out \o <<o>>)
       PROVE  AiderFed(p, r, P!AiderInfo(p, r))
  <2>1. PICK out : out = <<o>>
    OBVIOUS
  <2>2. out \in Seq(AllSaid) /\ TextOf(out) = P!Written(r)
    BY <1>10, <2>1, SingleSays, TextOfSingle
  <2>3. AiderFed(p, r, P!Says(q, P!Flush(p).out \o out))
    BY <1>4, <2>2, FlushedFeeds
  <2>4. QED
    BY <1>10, <2>1, <2>3
<1>11. CASE r.info = "edit"
  <2>1. PICK o : o = P!Tool("finished", r.text, "edit")
    OBVIOUS
  <2>2. o \in AllSaid /\ P!ReportOf(o) = P!Written(r)
    BY <1>1, <1>7, <1>11, <2>1, SaidForms
  <2>3. P!AiderInfo(p, r) = P!Says(q, P!Flush(p).out \o <<o>>)
    BY <1>2, <1>3, <1>11, <2>1 DEF P!AiderInfo
  <2>4. QED
    BY <1>10, <2>2, <2>3
<1>12. CASE r.info = "tokens"
  <2>1. PICK o : o = P!Turn("completed")
    OBVIOUS
  <2>2. o \in AllSaid /\ P!ReportOf(o) = P!Written(r)
    BY <1>1, <1>7, <1>12, <2>1, SaidForms
  <2>3. P!AiderInfo(p, r) = P!Says(q, P!Flush(p).out \o <<o>>)
    BY <1>2, <1>3, <1>12, <2>1 DEF P!AiderInfo
  <2>4. QED
    BY <1>10, <2>2, <2>3
<1>13. CASE r.info = "other"
  <2>1. PICK texts : texts = <<r.text>>
    OBVIOUS
  <2>2. texts \in Seq(Str)
    BY <1>1, <2>1, SingleSays
  <2>3. PICK o : o = P!Output("system", texts)
    OBVIOUS
  <2>4. o \in AllSaid /\ P!ReportOf(o) = P!By("system", texts)
    BY <1>7, <2>2, <2>3, SaidForms
  <2>5. P!By("system", texts) = <<<<"system", r.text>>>>
    <3>1. DOMAIN texts = 1 .. 1 /\ texts[1] = r.text
      BY <2>1
    <3>2. [k \in 1 .. 1 |-> <<"system", texts[k]>>] = <<<<"system", r.text>>>>
      BY <3>1
    <3>3. QED
      BY <3>1, <3>2 DEF P!By
  <2>6. P!AiderInfo(p, r) = P!Says(q, P!Flush(p).out \o <<o>>)
    BY <1>2, <1>3, <1>13, <2>1, <2>3 DEF P!AiderInfo
  <2>7. QED
    BY <1>1, <1>10, <1>13, <2>4, <2>5, <2>6
<1>14. QED
  BY <1>1, <1>8, <1>9, <1>11, <1>12, <1>13

LEMMA TextsRegroup == \A a, b, c \in Seq(Attributed) : a \o (b \o c) = (a \o b) \o c
BY Regroup

LEMMA AiderMarkdownFeeds ==
  ASSUME NEW p \in Memory, NEW r \in AiderRecord, r.type = "markdown"
  PROVE  AiderFed(p, r, P!FeedAider(p, r))
<1>1. r.text \in Str /\ p.user \in Seq(Str) /\ p.agent \in Seq(Str)
  BY DEF AiderRecord, Memory, Str
<1>2. PICK user : user = P!FlushUser(p)
  OBVIOUS
<1>3. PICK s : s = user.parser
  OBVIOUS
<1>4. /\ s \in Memory /\ s.user = <<>> /\ s.agent = p.agent
      /\ user.out \in Seq(AllSaid) /\ TextOf(user.out) = P!By("user", P!Texts(p.user))
  BY <1>2, <1>3, FlushUserGives
<1>5. "user" \in Str /\ "assistant" \in Str
  BY DEF Str
<1>6. PICK texts \in Seq(Str) : texts = P!Texts(p.agent)
  BY <1>1, TextsFits
<1>7. PICK u \in Seq(Attributed) : u = P!By("user", P!Texts(p.user))
  BY <1>1, <1>5, TextsFits, ByFits
<1>8. PICK a \in Seq(Attributed) : a = P!By("assistant", texts)
  BY <1>5, ByFits
<1>9. PICK w \in Seq(Attributed) : w = P!Written(r)
  BY WrittenForms
<1>10. ASSUME NEW q \in Memory, q.user = <<>>, NEW b \in Seq(Attributed),
              b = P!By("assistant", P!Texts(q.agent)), b = a \o w,
              P!FeedAider(p, r) = P!Says(q, user.out)
       PROVE  AiderFed(p, r, P!FeedAider(p, r))
  <2>1. P!Texts(q.user) = <<>>
    BY <1>10, TextsNothing
  <2>2. BufferText(q) = <<>> \o b /\ OneBuffer(q)
    BY <1>5, <1>10, <2>1, ByNothing DEF BufferText, OneBuffer
  <2>3. <<>> \o b = b
    BY ConcatEmptySeq
  <2>4. u \o (a \o w) = (u \o a) \o w
    BY TextsRegroup, Zenon
  <2>5. BufferText(p) = u \o a
    BY <1>6, <1>7, <1>8 DEF BufferText
  <2>6. TextOf(user.out) \o BufferText(q) = BufferText(p) \o P!Written(r)
    BY <1>4, <1>7, <1>9, <1>10, <2>2, <2>3, <2>4, <2>5
  <2>7. P!FeedAider(p, r).parser = q /\ P!FeedAider(p, r).out = user.out
    BY <1>10, SaysGives
  <2>8. QED
    BY <1>4, <1>10, <2>2, <2>6, <2>7 DEF AiderFed
<1>11. CASE P!Blank(r.text) /\ s.agent = <<>>
  <2>1. P!FeedAider(p, r) = user
    BY <1>2, <1>3, <1>11 DEF P!FeedAider
  <2>2. a \o w = a
    <3>1. w = <<>>
      BY <1>9, <1>11, WrittenForms DEF P!Blank
    <3>2. QED
      BY <3>1, ConcatEmptySeq
  <2>3. a = P!By("assistant", P!Texts(s.agent))
    BY <1>4, <1>6, <1>8
  <2>4. BufferText(s) = <<>> \o a /\ OneBuffer(s)
    <3>1. P!Texts(s.user) = <<>>
      BY <1>4, TextsNothing
    <3>2. QED
      BY <1>5, <2>3, <3>1, ByNothing DEF BufferText, OneBuffer
  <2>5. <<>> \o a = a
    BY ConcatEmptySeq
  <2>6. BufferText(p) = u \o a
    BY <1>6, <1>7, <1>8 DEF BufferText
  <2>7. (u \o a) \o w = u \o a
    <3>1. w = <<>>
      BY <1>9, <1>11, WrittenForms DEF P!Blank
    <3>2. u \o a \in Seq(Attributed)
      BY ConcatProperties
    <3>3. (u \o a) \o <<>> = u \o a
      BY <3>2, ConcatEmptySeq
    <3>4. QED
      BY <3>1, <3>3
  <2>8. TextOf(user.out) \o BufferText(s) = BufferText(p) \o P!Written(r)
    BY <1>4, <1>7, <1>9, <2>4, <2>5, <2>6, <2>7
  <2>9. QED
    BY <1>3, <1>4, <2>1, <2>4, <2>8 DEF AiderFed
<1>12. CASE ~(P!Blank(r.text) /\ s.agent = <<>>)
  <2>1. PICK q : q = [s EXCEPT !.agent = Append(@, r.text)]
    OBVIOUS
  <2>2. P!FeedAider(p, r) = P!Says(q, user.out)
    BY <1>2, <1>3, <1>12, <2>1 DEF P!FeedAider
  <2>3. Append(p.agent, r.text) \in Seq(Str)
    BY <1>1, AfterAppend
  <2>4. q \in Memory /\ q.user = <<>> /\ q.agent = Append(p.agent, r.text)
    BY <1>4, <2>1, <2>3 DEF Memory
  <2>5. P!Texts(q.agent) = IF r.text = "" THEN texts ELSE Append(texts, r.text)
    BY <1>1, <1>6, <2>4, TextsAppend
  <2>6. P!By("assistant", P!Texts(q.agent)) = a \o w
    <3>1. CASE r.text = ""
      <4>1. w = <<>> /\ a \o <<>> = a
        BY <1>9, <3>1, WrittenForms, ConcatEmptySeq
      <4>2. QED
        BY <1>8, <2>5, <3>1, <4>1
    <3>2. CASE r.text # ""
      <4>1. P!By("assistant", Append(texts, r.text))
              = P!By("assistant", texts) \o <<<<"assistant", r.text>>>>
        BY <1>1, <1>5, ByAppend
      <4>2. w = <<<<"assistant", r.text>>>>
        BY <1>9, <3>2, WrittenForms
      <4>3. QED
        BY <1>8, <2>5, <3>2, <4>1, <4>2
    <3>3. QED
      BY <3>1, <3>2
  <2>7. a \o w \in Seq(Attributed)
    BY ConcatProperties
  <2>8. QED
    BY <1>10, <2>2, <2>4, <2>6, <2>7
<1>13. QED
  BY <1>11, <1>12

LEMMA AiderFeeds ==
  ASSUME NEW p \in Memory, NEW r \in AiderRecord, OneBuffer(p)
  PROVE  AiderFed(p, r, P!FeedAider(p, r))
<1>1. r.type \in {"started", "prompt", "info", "markdown"}
  BY DEF AiderRecord
<1>2. CASE r.type = "started"
  <2>1. PICK none, q : none = <<>> /\ q = P!Flush(p).parser
    OBVIOUS
  <2>2. none \in Seq(AllSaid) /\ TextOf(none) = P!Written(r)
    BY <1>2, <2>1, NothingSays, TextOfNothing, WrittenForms
  <2>3. /\ q \in Memory /\ q.user = <<>> /\ q.agent = <<>>
        /\ P!Flush(p).out \in Seq(AllSaid)
    BY <2>1, FlushGives
  <2>4. AiderFed(p, r, P!Says(q, P!Flush(p).out \o none))
    BY <2>2, <2>3, FlushedFeeds
  <2>5. P!Flush(p).out \o none = P!Flush(p).out
    <3>1. PICK s \in Seq(AllSaid) : s = P!Flush(p).out
      BY <2>3
    <3>2. s \o <<>> = s
      BY ConcatEmptySeq
    <3>3. QED
      BY <2>1, <3>1, <3>2
  <2>6. P!FeedAider(p, r) = P!Flush(p)
    BY <1>2 DEF P!FeedAider
  <2>7. PICK out : out = P!Flush(p).out
    OBVIOUS
  <2>8. P!Says(q, out).parser = q /\ P!Says(q, out).out = out /\ AiderFed(p, r, P!Says(q, out))
    BY <2>4, <2>5, <2>7, SaysGives
  <2>9. QED
    BY <2>1, <2>6, <2>7, <2>8 DEF AiderFed
<1>3. CASE r.type = "prompt"
  <2>1. P!FeedAider(p, r) = P!AiderPrompt(p, r)
    BY <1>3 DEF P!FeedAider
  <2>2. QED
    BY <1>3, <2>1, AiderPromptFeeds
<1>4. CASE r.type = "info"
  <2>1. P!FeedAider(p, r) = P!AiderInfo(p, r)
    BY <1>4 DEF P!FeedAider
  <2>2. QED
    BY <1>4, <2>1, AiderInfoFeeds
<1>5. CASE r.type = "markdown"
  BY <1>5, AiderMarkdownFeeds
<1>6. QED
  BY <1>1, <1>2, <1>3, <1>4, <1>5

-----------------------------------------------------------------------------

\* What was reported, and what was said in it.
Entry == [line : Nat, said : AllSaid]
Entries(out, n) == [k \in DOMAIN out |-> [line |-> n, said |-> out[k]]]
SaidOf(obs) == [k \in DOMAIN obs |-> obs[k].said]

\* A result is reported under its call's name.
NamedByCall(f, h, o) ==
  o.said.obs = "tool" /\ o.said.phase # "started" =>
    o.said.name =
      LET open == OpenCalls(f, h, o.line - 1, o.said.id)
      IN IF open = {} THEN "unknown" ELSE h[CHOOSE i \in open : TRUE].name

WrittenOf(h) == [k \in DOMAIN h |-> P!Written(h[k])]

ParserTypes ==
  /\ format \in P!Formats
  /\ fed \in Seq(P!LinesOf(format)) /\ Len(fed) <= MaxLines
  /\ parser \in Memory
  /\ observations \in Seq(Entry)
  /\ \A k \in DOMAIN observations : observations[k].line \in 1 .. Len(fed)
  /\ fed = <<>> => parser.user = <<>> /\ parser.agent = <<>>

ToolsInv ==
  format \in {"claude", "codex"} =>
    /\ ToolsFit(format, fed, parser)
    /\ \A k \in DOMAIN observations : NamedByCall(format, fed, observations[k])

TitleInv == format = "claude" => parser.title = TitleOf(fed)

MarkdownInv ==
  format = "aider" =>
    /\ OneBuffer(parser)
    /\ TextOf(SaidOf(observations)) \o BufferText(parser) = P!FlattenSeq(WrittenOf(fed))

ParserInv == ParserTypes /\ ToolsInv /\ TitleInv /\ MarkdownInv

LEMMA FormatsOf == P!Formats \subseteq {"claude", "codex", "aider"} /\ MaxLines \in Nat
BY EdgesBounds DEF P!TranscriptsBounds

LEMMA SaidOfFits ==
  ASSUME NEW obs \in Seq(Entry)
  PROVE  /\ SaidOf(obs) \in Seq(AllSaid) /\ Len(SaidOf(obs)) = Len(obs)
         /\ \A k \in 1 .. Len(obs) : SaidOf(obs)[k] = obs[k].said
<1>1. PICK n \in Nat : n = Len(obs)
  OBVIOUS
<1>2. DOMAIN obs = 1 .. n /\ \A k \in 1 .. n : obs[k].said \in AllSaid
  <2>1. DOMAIN obs = 1 .. n /\ \A k \in 1 .. n : obs[k] \in Entry
    BY <1>1
  <2>2. \A o \in Entry : o.said \in AllSaid
    BY DEF Entry
  <2>3. QED
    BY <2>1, <2>2
<1>3. PICK c : c = [k \in 1 .. n |-> obs[k].said]
  OBVIOUS
<1>4. c \in [1 .. n -> AllSaid]
  BY <1>2, <1>3
<1>5. c \in Seq(AllSaid) /\ Len(c) = n
  BY <1>3, <1>4
<1>6. SaidOf(obs) = c
  BY <1>2, <1>3 DEF SaidOf
<1>7. QED
  BY <1>1, <1>3, <1>5, <1>6

LEMMA EntriesFit ==
  ASSUME NEW out \in Seq(AllSaid), NEW n \in Nat
  PROVE  /\ Entries(out, n) \in Seq(Entry) /\ Len(Entries(out, n)) = Len(out)
         /\ \A k \in 1 .. Len(out) : Entries(out, n)[k] = [line |-> n, said |-> out[k]]
<1>1. PICK m \in Nat : m = Len(out)
  OBVIOUS
<1>2. DOMAIN out = 1 .. m /\ \A k \in 1 .. m : [line |-> n, said |-> out[k]] \in Entry
  BY <1>1 DEF Entry
<1>3. PICK c : c = [k \in 1 .. m |-> [line |-> n, said |-> out[k]]]
  OBVIOUS
<1>4. c \in [1 .. m -> Entry]
  BY <1>2, <1>3
<1>5. c \in Seq(Entry) /\ Len(c) = m
  BY <1>3, <1>4
<1>6. Entries(out, n) = c
  BY <1>2, <1>3 DEF Entries
<1>7. QED
  BY <1>1, <1>3, <1>5, <1>6

LEMMA ReportAdds ==
  ASSUME NEW obs \in Seq(Entry), NEW out \in Seq(AllSaid), NEW n \in Nat
  PROVE  LET now == obs \o Entries(out, n)
         IN /\ now \in Seq(Entry) /\ SaidOf(now) = SaidOf(obs) \o out
            /\ \A k \in DOMAIN now :
                 \/ k \in DOMAIN obs /\ now[k] = obs[k]
                 \/ \E j \in 1 .. Len(out) : now[k] = [line |-> n, said |-> out[j]]
<1>1. PICK new : new = Entries(out, n)
  OBVIOUS
<1>2. /\ new \in Seq(Entry) /\ Len(new) = Len(out)
      /\ \A k \in 1 .. Len(out) : new[k] = [line |-> n, said |-> out[k]]
  BY <1>1, EntriesFit
<1>3. PICK now : now = obs \o new
  OBVIOUS
<1>4. /\ now \in Seq(Entry) /\ Len(now) = Len(obs) + Len(new)
      /\ \A i \in 1 .. Len(obs) + Len(new) :
           now[i] = IF i <= Len(obs) THEN obs[i] ELSE new[i - Len(obs)]
  <2>1. new \in Seq(Entry)
    BY <1>2
  <2>2. QED
    BY <1>3, <2>1, ConcatProperties
<1>5. Len(obs) \in Nat /\ Len(out) \in Nat
  OBVIOUS
<1>6. DOMAIN obs = 1 .. Len(obs) /\ DOMAIN now = 1 .. Len(now)
  BY <1>4
<1>7. ASSUME NEW k \in DOMAIN now
      PROVE  \/ k \in DOMAIN obs /\ now[k] = obs[k]
             \/ \E j \in 1 .. Len(out) : now[k] = [line |-> n, said |-> out[j]]
  <2>1. k \in 1 .. Len(obs) + Len(new)
    BY <1>4, <1>6
  <2>2. CASE k <= Len(obs)
    BY <1>4, <1>5, <1>6, <2>1, <2>2
  <2>3. CASE ~(k <= Len(obs))
    <3>1. PICK j : j = k - Len(obs)
      OBVIOUS
    <3>2. j \in 1 .. Len(out) /\ now[k] = new[j]
      BY <1>2, <1>4, <1>5, <2>1, <2>3, <3>1
    <3>3. QED
      BY <1>2, <3>2
  <2>4. QED
    BY <2>2, <2>3
<1>8. SaidOf(now) = SaidOf(obs) \o out
  <2>1. PICK a, c : a = SaidOf(obs) /\ c = SaidOf(now)
    OBVIOUS
  <2>2. /\ a \in Seq(AllSaid) /\ Len(a) = Len(obs)
        /\ \A k \in 1 .. Len(obs) : a[k] = obs[k].said
    BY <2>1, SaidOfFits
  <2>3. /\ c \in Seq(AllSaid) /\ Len(c) = Len(now)
        /\ \A k \in 1 .. Len(now) : c[k] = now[k].said
    BY <1>4, <2>1, SaidOfFits
  <2>4. Len(c) = Len(a) + Len(out)
    BY <1>2, <1>4, <2>2, <2>3
  <2>5. ASSUME NEW k \in 1 .. Len(a) PROVE c[k] = a[k]
    <3>1. k \in 1 .. Len(now) /\ k <= Len(obs) /\ k \in 1 .. Len(obs) + Len(new)
      BY <1>2, <1>4, <1>5, <2>2
    <3>2. now[k] = obs[k]
      BY <1>4, <3>1
    <3>3. QED
      BY <2>2, <2>3, <3>1, <3>2
  <2>6. ASSUME NEW k \in 1 .. Len(out) PROVE c[Len(a) + k] = out[k]
    <3>1. PICK i : i = Len(a) + k
      OBVIOUS
    <3>2. i \in 1 .. Len(now) /\ ~(i <= Len(obs)) /\ i - Len(obs) = k
          /\ i \in 1 .. Len(obs) + Len(new)
      BY <1>2, <1>4, <1>5, <2>2, <3>1
    <3>3. now[i] = new[k]
      BY <1>4, <3>2
    <3>4. c[i] = out[k]
      <4>1. c[i] = now[i].said
        BY <2>3, <3>2
      <4>2. new[k].said = out[k]
        <5>1. new[k] = [line |-> n, said |-> out[k]]
          BY <1>2
        <5>2. QED
          BY <5>1
      <4>3. QED
        BY <3>3, <4>1, <4>2
    <3>5. QED
      BY <3>1, <3>4
  <2>7. c = a \o out
    BY <2>2, <2>3, <2>4, <2>5, <2>6, Joined
  <2>8. QED
    BY <2>1, <2>7
<1>9. QED
  BY <1>1, <1>3, <1>4, <1>7, <1>8

LEMMA WrittenAdds ==
  ASSUME NEW h \in Seq(AiderRecord), NEW r \in AiderRecord
  PROVE  /\ WrittenOf(h) \in Seq(Seq(Attributed))
         /\ P!FlattenSeq(WrittenOf(Append(h, r))) = P!FlattenSeq(WrittenOf(h)) \o P!Written(r)
<1>1. ASSUME NEW g \in Seq(AiderRecord)
      PROVE  /\ WrittenOf(g) \in Seq(Seq(Attributed)) /\ Len(WrittenOf(g)) = Len(g)
             /\ \A k \in 1 .. Len(g) : WrittenOf(g)[k] = P!Written(g[k])
  <2>1. PICK n \in Nat : n = Len(g)
    OBVIOUS
  <2>2. DOMAIN g = 1 .. n /\ \A k \in 1 .. n : P!Written(g[k]) \in Seq(Attributed)
    <3>1. DOMAIN g = 1 .. n /\ \A k \in 1 .. n : g[k] \in AiderRecord
      BY <2>1
    <3>2. \A o \in AiderRecord : P!Written(o) \in Seq(Attributed)
      BY WrittenForms
    <3>3. QED
      BY <3>1, <3>2
  <2>3. PICK c : c = [k \in 1 .. n |-> P!Written(g[k])]
    OBVIOUS
  <2>4. c \in [1 .. n -> Seq(Attributed)]
    BY <2>2, <2>3
  <2>5. c \in Seq(Seq(Attributed)) /\ Len(c) = n
    <3>1. \A T : \A d \in [1 .. n -> T] : d \in Seq(T) /\ Len(d) = n
      OBVIOUS
    <3>2. QED
      BY <2>4, <3>1
  <2>6. WrittenOf(g) = c
    BY <2>2, <2>3 DEF WrittenOf
  <2>7. QED
    BY <2>1, <2>3, <2>5, <2>6
<1>2. PICK w \in Seq(Attributed) : w = P!Written(r)
  BY WrittenForms
<1>3. PICK g : g = Append(h, r)
  OBVIOUS
<1>4. /\ g \in Seq(AiderRecord) /\ Len(h) \in Nat /\ Len(g) = Len(h) + 1 /\ g[Len(h) + 1] = r
      /\ \A k \in 1 .. Len(h) : g[k] = h[k]
  BY <1>3, AfterAppend
<1>5. PICK s : s = WrittenOf(h)
  OBVIOUS
<1>6. s \in Seq(Seq(Attributed)) /\ Len(s) = Len(h) /\ \A k \in 1 .. Len(h) : s[k] = P!Written(h[k])
  BY <1>1, <1>5
<1>7. PICK c : c = WrittenOf(g)
  OBVIOUS
<1>8. c \in Seq(Seq(Attributed)) /\ Len(c) = Len(g) /\ \A k \in 1 .. Len(g) : c[k] = P!Written(g[k])
  BY <1>1, <1>4, <1>7
<1>9. PICK t : t = Append(s, w)
  OBVIOUS
<1>10. /\ t \in Seq(Seq(Attributed)) /\ Len(t) = Len(s) + 1 /\ t[Len(s) + 1] = w
       /\ \A k \in 1 .. Len(s) : t[k] = s[k]
  <2>1. \A T : \A d \in Seq(T) : \A y \in T :
          /\ Append(d, y) \in Seq(T) /\ Len(Append(d, y)) = Len(d) + 1
          /\ Append(d, y)[Len(d) + 1] = y /\ \A k \in 1 .. Len(d) : Append(d, y)[k] = d[k]
    OBVIOUS
  <2>2. s \in Seq(Seq(Attributed))
    BY <1>6
  <2>3. QED
    BY <1>9, <2>1, <2>2
<1>11. ASSUME NEW k \in 1 .. Len(c) PROVE c[k] = t[k]
  <2>1. CASE k = Len(h) + 1
    BY <1>2, <1>4, <1>6, <1>8, <1>10, <2>1
  <2>2. CASE k # Len(h) + 1
    <3>1. k \in 1 .. Len(h) /\ k \in 1 .. Len(g)
      BY <1>4, <1>8, <2>2
    <3>2. QED
      BY <1>4, <1>6, <1>8, <1>10, <3>1
  <2>3. QED
    BY <2>1, <2>2
<1>12. c = t
  BY <1>4, <1>6, <1>8, <1>10, <1>11, SeqEqual
<1>13. P!FlattenSeq(Append(s, w)) = P!FlattenSeq(s) \o w
  BY <1>6, FlattenAppend
<1>14. QED
  BY <1>2, <1>3, <1>5, <1>6, <1>7, <1>9, <1>12, <1>13

LEMMA ParserInit == P!Init => ParserInv
<1>1. SUFFICES ASSUME P!Init PROVE ParserInv
  OBVIOUS
<1>2. /\ format \in P!Formats /\ fed = <<>> /\ parser = P!New /\ observations = <<>>
  BY <1>1 DEF P!Init
<1>3. /\ parser.tools = {} /\ parser.title = "" /\ parser.user = <<>> /\ parser.agent = <<>>
      /\ parser \in Memory
  <2>1. "" \in Str /\ <<>> \in Seq(Str)
    BY NothingSays DEF Str
  <2>2. QED
    BY <1>2, <2>1 DEF P!New, Memory
<1>4. ParserTypes
  <2>1. fed \in Seq(P!LinesOf(format)) /\ observations \in Seq(Entry) /\ Len(fed) = 0
    BY <1>2, NothingSays
  <2>2. DOMAIN observations = {}
    BY <1>2
  <2>3. Len(fed) <= MaxLines
    BY <2>1, FormatsOf
  <2>4. QED
    BY <1>2, <1>3, <2>1, <2>2, <2>3 DEF ParserTypes
<1>5. ToolsInv
  <2>1. \A f, id : OpenCalls(f, fed, Len(fed), id) = {}
    BY <1>2 DEF OpenCalls
  <2>2. ToolsFit(format, fed, parser)
    BY <1>3, <2>1 DEF ToolsFit
  <2>3. DOMAIN observations = {}
    BY <1>2
  <2>4. QED
    BY <2>2, <2>3 DEF ToolsInv
<1>6. TitleInv
  <2>1. Given(fed) = {} /\ Suggested(fed) = {}
    BY <1>2 DEF Given, Suggested
  <2>2. QED
    BY <1>3, <2>1 DEF TitleInv, TitleOf
<1>7. MarkdownInv
  <2>1. SaidOf(observations) = <<>> /\ WrittenOf(fed) = <<>>
    BY <1>2 DEF SaidOf, WrittenOf
  <2>2. BufferText(parser) = <<>> /\ OneBuffer(parser)
    BY <1>3, NoBufferText
  <2>3. <<>> \o <<>> = <<>>
    OBVIOUS
  <2>4. QED
    BY <2>1, <2>2, <2>3, TextOfNothing, FlattenEmpty DEF MarkdownInv
<1>8. QED
  BY <1>4, <1>5, <1>6, <1>7 DEF ParserInv

\* What an adapter's parser does with a line.
Result(f, p, r) ==
  CASE f = "claude" -> P!FeedClaude(p, r)
    [] f = "codex" -> P!FeedCodex(p, r)
    [] f = "aider" -> P!FeedAider(p, r)

LEMMA HonestSays == ASSUME NEW f, NEW p, NEW r, NEW s \in Seq(Honest(f, p, r)) PROVE s \in Seq(AllSaid)
<1>1. Honest(f, p, r) \subseteq AllSaid
  BY DEF Honest
<1>2. QED
  BY <1>1, SeqMonotonic

LEMMA ResultFits ==
  ASSUME NEW f \in {"claude", "codex", "aider"}, NEW p \in Memory, NEW r \in P!LinesOf(f),
         f = "aider" => OneBuffer(p)
  PROVE  /\ Result(f, p, r).parser \in Memory /\ Result(f, p, r).out \in Seq(AllSaid)
         /\ f \in {"claude", "codex"} => Fed(f, p, r, Result(f, p, r))
         /\ f = "claude" => r \in ClaudeRecord /\ Result(f, p, r).parser.title = TitleAfter(p, r)
         /\ f = "aider" => r \in AiderRecord /\ AiderFed(p, r, Result(f, p, r))
<1>1. CASE f = "claude"
  <2>1. r \in ClaudeRecord /\ Result(f, p, r) = P!FeedClaude(p, r)
    BY <1>1, RecordForms DEF Result
  <2>2. Fed(f, p, r, P!FeedClaude(p, r)) /\ P!FeedClaude(p, r).parser.title = TitleAfter(p, r)
    BY <1>1, <2>1, ClaudeFeeds
  <2>3. P!FeedClaude(p, r).out \in Seq(AllSaid)
    BY <2>2, HonestSays DEF Fed
  <2>4. QED
    BY <1>1, <2>1, <2>2, <2>3 DEF Fed
<1>2. CASE f = "codex"
  <2>1. r \in CodexRecord /\ Result(f, p, r) = P!FeedCodex(p, r)
    BY <1>2, RecordForms DEF Result
  <2>2. Fed(f, p, r, P!FeedCodex(p, r))
    BY <1>2, <2>1, CodexFeeds
  <2>3. P!FeedCodex(p, r).out \in Seq(AllSaid)
    BY <2>2, HonestSays DEF Fed
  <2>4. QED
    BY <1>2, <2>1, <2>2, <2>3 DEF Fed
<1>3. CASE f = "aider"
  <2>1. r \in AiderRecord /\ Result(f, p, r) = P!FeedAider(p, r)
    BY <1>3, RecordForms DEF Result
  <2>2. AiderFed(p, r, P!FeedAider(p, r))
    BY <1>3, <2>1, AiderFeeds
  <2>3. QED
    BY <1>3, <2>1, <2>2 DEF AiderFed
<1>4. QED
  BY <1>1, <1>2, <1>3

\* The calls that were open at an earlier line do not change.
LEMMA OpenCallsStand ==
  ASSUME NEW f, NEW S, NEW h \in Seq(S), NEW r \in S, NEW n \in 0 .. Len(h), NEW id
  PROVE  OpenCalls(f, Append(h, r), n, id) = OpenCalls(f, h, n, id)
<1>1. PICK g : g = Append(h, r)
  OBVIOUS
<1>2. Len(h) \in Nat /\ \A i \in 1 .. Len(h) : g[i] = h[i]
  BY <1>1, AfterAppend
<1>3. \A i \in 1 .. n : /\ i \in 1 .. Len(h) /\ g[i] = h[i]
                        /\ \A j \in i + 1 .. n : j \in 1 .. Len(h) /\ g[j] = h[j]
  BY <1>2
<1>4. OpenCalls(f, g, n, id) = OpenCalls(f, h, n, id)
  BY <1>3 DEF OpenCalls
<1>5. QED
  BY <1>1, <1>4

LEMMA NamedStands ==
  ASSUME NEW f, NEW S, NEW h \in Seq(S), NEW r \in S, NEW o, o.line \in 1 .. Len(h),
         NamedByCall(f, h, o)
  PROVE  NamedByCall(f, Append(h, r), o)
<1>1. PICK n, id : n = o.line - 1 /\ id = o.said.id
  OBVIOUS
<1>2. n \in 0 .. Len(h)
  BY <1>1
<1>3. PICK g : g = Append(h, r)
  OBVIOUS
<1>4. /\ OpenCalls(f, g, n, id) = OpenCalls(f, h, n, id)
      /\ \A i \in OpenCalls(f, h, n, id) : g[i] = h[i]
  <2>1. OpenCalls(f, Append(h, r), n, id) = OpenCalls(f, h, n, id)
    BY <1>2, OpenCallsStand, Zenon
  <2>2. ASSUME NEW i \in OpenCalls(f, h, n, id) PROVE Append(h, r)[i] = h[i]
    <3>1. i \in 1 .. n
      BY DEF OpenCalls
    <3>2. i \in 1 .. Len(h)
      BY <1>2, <3>1
    <3>3. QED
      BY <3>2, AfterAppend
  <2>3. QED
    BY <1>3, <2>1, <2>2, Zenon
<1>5. SUFFICES ASSUME o.said.obs = "tool" /\ o.said.phase # "started"
               PROVE  o.said.name = LET open == OpenCalls(f, g, n, id)
                                    IN IF open = {} THEN "unknown"
                                       ELSE g[CHOOSE i \in open : TRUE].name
  BY <1>1, <1>3 DEF NamedByCall
<1>6. PICK open : open = OpenCalls(f, h, n, id)
  OBVIOUS
<1>7. o.said.name = IF open = {} THEN "unknown" ELSE h[CHOOSE i \in open : TRUE].name
  BY <1>1, <1>5, <1>6 DEF NamedByCall
<1>8. CASE open = {}
  BY <1>4, <1>6, <1>7, <1>8
<1>9. CASE open # {}
  <2>1. PICK i : i = CHOOSE j \in open : TRUE
    OBVIOUS
  <2>2. i \in open
    BY <1>9, <2>1
  <2>3. g[i] = h[i]
    BY <1>4, <1>6, <2>2
  <2>4. QED
    BY <1>4, <1>6, <1>7, <1>9, <2>1, <2>3
<1>10. QED
  BY <1>8, <1>9

LEMMA NamedAnew ==
  ASSUME NEW f, NEW S, NEW h \in Seq(S), \A i \in 1 .. Len(h) : h[i].name \in Str, NEW r \in S,
         NEW p \in Memory, ToolsFit(f, h, p), NEW o \in Honest(f, p, r), NEW e,
         e.line - 1 = Len(h), e.said = o
  PROVE  NamedByCall(f, Append(h, r), e)
<1>1. SUFFICES ASSUME o.obs = "tool" /\ o.phase # "started"
               PROVE  o.name = LET open == OpenCalls(f, Append(h, r), Len(h), o.id)
                               IN IF open = {} THEN "unknown"
                                  ELSE Append(h, r)[CHOOSE i \in open : TRUE].name
  BY DEF NamedByCall
<1>2. /\ o \in AllSaid /\ ToolId(f, o.id) /\ o.name = P!NameOf(p, o.id)
  BY <1>1 DEF Honest
<1>3. PICK id : id = o.id
  OBVIOUS
<1>4. id \in Str
  BY <1>1, <1>2, <1>3 DEF AllSaid, TurnSaid, TextSaid, ToolSaid
<1>5. PICK g : g = Append(h, r)
  OBVIOUS
<1>6. Len(h) \in 0 .. Len(h)
  OBVIOUS
<1>7. /\ OpenCalls(f, g, Len(h), id) = OpenCalls(f, h, Len(h), id)
      /\ \A i \in OpenCalls(f, h, Len(h), id) : g[i] = h[i]
  <2>1. OpenCalls(f, Append(h, r), Len(h), id) = OpenCalls(f, h, Len(h), id)
    BY <1>6, OpenCallsStand, Zenon
  <2>2. ASSUME NEW i \in OpenCalls(f, h, Len(h), id) PROVE Append(h, r)[i] = h[i]
    <3>1. i \in 1 .. Len(h)
      BY DEF OpenCalls
    <3>2. QED
      BY <3>1, AfterAppend
  <2>3. QED
    BY <1>5, <2>1, <2>2, Zenon
<1>8. PICK open : open = OpenCalls(f, h, Len(h), id)
  OBVIOUS
<1>9. o.name = IF open = {} THEN "unknown" ELSE h[CHOOSE i \in open : TRUE].name
  <2>1. P!NameOf(p, id) =
          LET calls == OpenCalls(f, h, Len(h), id)
          IN IF calls = {} THEN "unknown" ELSE h[CHOOSE i \in calls : TRUE].name
    BY <1>2, <1>3, <1>4, NameOfOpen
  <2>2. QED
    BY <1>2, <1>3, <1>8, <2>1
<1>10. CASE open = {}
  BY <1>3, <1>5, <1>7, <1>8, <1>9, <1>10
<1>11. CASE open # {}
  <2>1. PICK i : i = CHOOSE j \in open : TRUE
    OBVIOUS
  <2>2. i \in open
    BY <1>11, <2>1
  <2>3. g[i] = h[i]
    BY <1>7, <1>8, <2>2
  <2>4. QED
    BY <1>3, <1>5, <1>7, <1>8, <1>9, <1>11, <2>1, <2>3
<1>12. QED
  BY <1>10, <1>11

-----------------------------------------------------------------------------

\* A line is read.
LEMMA LineKeeps ==
  ASSUME ParserInv, NEW i \in DOMAIN Lines[format], P!FeedLine(Lines[format][i])
  PROVE  ParserInv'
<1>1. /\ format \in P!Formats /\ format \in {"claude", "codex", "aider"}
      /\ fed \in Seq(P!LinesOf(format)) /\ Len(fed) <= MaxLines
      /\ parser \in Memory /\ observations \in Seq(Entry)
      /\ \A k \in DOMAIN observations : observations[k].line \in 1 .. Len(fed)
  BY FormatsOf DEF ParserInv, ParserTypes
<1>2. PICK r \in P!LinesOf(format) : r = Lines[format][i]
  <2>1. Lines[format] \in Seq(P!LinesOf(format))
    BY <1>1, EdgesBounds DEF P!TranscriptsBounds
  <2>2. QED
    BY <2>1
<1>3. PICK res : res = Result(format, parser, r)
  OBVIOUS
<1>4. /\ Len(fed) < MaxLines /\ fed' = Append(fed, r) /\ format' = format
      /\ parser' = res.parser
      /\ observations' = observations \o Entries(res.out, Len(fed'))
  BY <1>2, <1>3 DEF P!FeedLine, P!Report, Entries, Result
<1>5. format = "aider" => OneBuffer(parser)
  BY DEF ParserInv, MarkdownInv
<1>6. /\ res.parser \in Memory /\ res.out \in Seq(AllSaid)
      /\ format \in {"claude", "codex"} => Fed(format, parser, r, res)
      /\ format = "claude" => r \in ClaudeRecord /\ res.parser.title = TitleAfter(parser, r)
      /\ format = "aider" => r \in AiderRecord /\ AiderFed(parser, r, res)
  <2>1. PICK f \in {"claude", "codex", "aider"} : f = format
    BY <1>1
  <2>2. r \in P!LinesOf(f) /\ (f = "aider" => OneBuffer(parser)) /\ res = Result(f, parser, r)
    BY <1>3, <1>5, <2>1
  <2>3. QED
    BY <1>1, <2>1, <2>2, ResultFits
<1>7. PICK g : g = Append(fed, r)
  OBVIOUS
<1>8. /\ g \in Seq(P!LinesOf(format)) /\ Len(fed) \in Nat /\ Len(g) = Len(fed) + 1
      /\ DOMAIN fed = 1 .. Len(fed)
      /\ \A k \in 1 .. Len(fed) : g[k] = fed[k]
  BY <1>1, <1>7, AfterAppend
<1>9. PICK out \in Seq(AllSaid) : out = res.out
  BY <1>6
<1>10. PICK now : now = observations \o Entries(out, Len(g))
  OBVIOUS
<1>11. /\ now \in Seq(Entry) /\ SaidOf(now) = SaidOf(observations) \o out
       /\ \A k \in DOMAIN now :
            \/ k \in DOMAIN observations /\ now[k] = observations[k]
            \/ \E j \in 1 .. Len(out) : now[k] = [line |-> Len(g), said |-> out[j]]
  <2>1. Len(g) \in Nat
    BY <1>8
  <2>2. QED
    BY <1>1, <1>10, <2>1, ReportAdds
<1>12. fed' = g /\ observations' = now /\ parser' = res.parser /\ format' = format
  BY <1>4, <1>7, <1>9, <1>10
<1>13. ParserTypes'
  <2>1. Len(g) <= MaxLines
    BY <1>4, <1>8, FormatsOf
  <2>2. \A k \in DOMAIN now : now[k].line \in 1 .. Len(g)
    <3>1. ASSUME NEW k \in DOMAIN now PROVE now[k].line \in 1 .. Len(g)
      <4>1. CASE k \in DOMAIN observations /\ now[k] = observations[k]
        BY <1>1, <1>8, <4>1
      <4>2. CASE \E j \in 1 .. Len(out) : now[k] = [line |-> Len(g), said |-> out[j]]
        BY <1>8, <4>2
      <4>3. QED
        BY <1>11, <4>1, <4>2
    <3>2. QED
      BY <3>1
  <2>3. g # <<>>
    BY <1>8
  <2>4. QED
    BY <1>1, <1>6, <1>8, <1>11, <1>12, <2>1, <2>2, <2>3 DEF ParserTypes
<1>14. ToolsInv'
  <2>1. SUFFICES ASSUME format \in {"claude", "codex"}
                 PROVE  /\ ToolsFit(format, g, res.parser)
                        /\ \A k \in DOMAIN now : NamedByCall(format, g, now[k])
    BY <1>12 DEF ToolsInv
  <2>2. /\ ToolsFit(format, fed, parser)
        /\ \A k \in DOMAIN observations : NamedByCall(format, fed, observations[k])
    BY <2>1 DEF ParserInv, ToolsInv
  <2>3. Remembers(format, parser, r, res.parser) /\ out \in Seq(Honest(format, parser, r))
    BY <1>6, <1>9, <2>1 DEF Fed
  <2>4. ToolsFit(format, g, res.parser)
    BY <1>1, <1>7, <2>2, <2>3, ToolsFitAfter
  <2>5. \A k \in 1 .. Len(fed) : fed[k].name \in Str
    <3>1. \A o \in P!LinesOf(format) : o.name \in Str
      <4>1. \A o \in ClaudeRecord \cup CodexRecord : o.name \in Str
        BY DEF ClaudeRecord, CodexRecord, Str
      <4>2. P!LinesOf(format) \subseteq ClaudeRecord \cup CodexRecord
        BY <2>1, RecordForms
      <4>3. QED
        BY <4>1, <4>2
    <3>2. \A k \in 1 .. Len(fed) : fed[k] \in P!LinesOf(format)
      BY <1>1
    <3>3. QED
      BY <3>1, <3>2
  <2>6. ASSUME NEW k \in DOMAIN now PROVE NamedByCall(format, g, now[k])
    <3>1. CASE k \in DOMAIN observations /\ now[k] = observations[k]
      <4>1. PICK o : o = observations[k]
        OBVIOUS
      <4>2. o.line \in 1 .. Len(fed) /\ NamedByCall(format, fed, o)
        BY <1>1, <2>2, <3>1, <4>1
      <4>3. NamedByCall(format, Append(fed, r), o)
        BY <1>1, <4>2, NamedStands
      <4>4. QED
        BY <1>7, <3>1, <4>1, <4>3
    <3>2. CASE \E j \in 1 .. Len(out) : now[k] = [line |-> Len(g), said |-> out[j]]
      <4>1. PICK j \in 1 .. Len(out) : now[k] = [line |-> Len(g), said |-> out[j]]
        BY <3>2
      <4>2. PICK o \in Honest(format, parser, r) : o = out[j]
        BY <2>3
      <4>3. PICK e : e = now[k]
        OBVIOUS
      <4>4. e.line - 1 = Len(fed) /\ e.said = o
        BY <1>8, <4>1, <4>2, <4>3
      <4>5. NamedByCall(format, Append(fed, r), e)
        BY <1>1, <2>2, <2>5, <4>4, NamedAnew
      <4>6. QED
        BY <1>7, <4>3, <4>5
    <3>3. QED
      BY <1>11, <3>1, <3>2
  <2>7. QED
    BY <2>4, <2>6
<1>15. TitleInv'
  <2>1. SUFFICES ASSUME format = "claude" PROVE res.parser.title = TitleOf(g)
    BY <1>12 DEF TitleInv
  <2>2. fed \in Seq(ClaudeRecord) /\ r \in ClaudeRecord /\ parser.title = TitleOf(fed)
    BY <1>1, <1>6, <2>1, RecordForms DEF ParserInv, TitleInv
  <2>3. TitleAfter(parser, r) = TitleOf(Append(fed, r))
    BY <2>2, TitleFollows
  <2>4. QED
    BY <1>6, <1>7, <2>1, <2>3
<1>16. MarkdownInv'
  <2>1. SUFFICES ASSUME format = "aider"
                 PROVE  /\ OneBuffer(res.parser)
                        /\ TextOf(SaidOf(now)) \o BufferText(res.parser)
                             = P!FlattenSeq(WrittenOf(g))
    BY <1>12 DEF MarkdownInv
  <2>2. /\ fed \in Seq(AiderRecord) /\ r \in AiderRecord /\ AiderFed(parser, r, res)
        /\ TextOf(SaidOf(observations)) \o BufferText(parser) = P!FlattenSeq(WrittenOf(fed))
    BY <1>1, <1>6, <2>1, RecordForms DEF ParserInv, MarkdownInv
  <2>3. PICK s \in Seq(AllSaid) : s = SaidOf(observations)
    BY <1>1, SaidOfFits
  <2>4. TextOf(s \o out) = TextOf(s) \o TextOf(out)
    BY TextOfJoined
  <2>5. P!FlattenSeq(WrittenOf(g)) = P!FlattenSeq(WrittenOf(fed)) \o P!Written(r)
    BY <1>7, <2>2, WrittenAdds
  <2>6. /\ OneBuffer(res.parser)
        /\ TextOf(out) \o BufferText(res.parser) = BufferText(parser) \o P!Written(r)
    BY <1>9, <2>2 DEF AiderFed
  <2>7. PICK a, b, c, d, w \in Seq(Attributed) :
          /\ a = TextOf(s) /\ b = TextOf(out) /\ c = BufferText(res.parser)
          /\ d = BufferText(parser) /\ w = P!Written(r)
    BY <1>1, <1>6, <2>2, TextOfFits, BufferTextFits, WrittenForms
  <2>8. a \o (b \o c) = (a \o b) \o c /\ a \o (d \o w) = (a \o d) \o w
    <3>1. /\ a \in Seq(Attributed) /\ b \in Seq(Attributed) /\ c \in Seq(Attributed)
          /\ d \in Seq(Attributed) /\ w \in Seq(Attributed)
      OBVIOUS
    <3>2. a \o (b \o c) = (a \o b) \o c
      BY <3>1, TextsRegroup, Zenon
    <3>3. a \o (d \o w) = (a \o d) \o w
      BY <3>1, TextsRegroup, Zenon
    <3>4. QED
      BY <3>2, <3>3, Zenon
  <2>9. QED
    BY <1>11, <2>2, <2>3, <2>4, <2>5, <2>6, <2>7, <2>8, Zenon
<1>17. QED
  BY <1>13, <1>14, <1>15, <1>16 DEF ParserInv

\* The history has been quiet.
LEMMA QuietKeeps == ASSUME ParserInv, P!FlushQuiet PROVE ParserInv'
<1>1. /\ format \in P!Formats /\ format = "aider"
      /\ fed \in Seq(AiderRecord) /\ Len(fed) <= MaxLines
      /\ parser \in Memory /\ observations \in Seq(Entry)
      /\ \A k \in DOMAIN observations : observations[k].line \in 1 .. Len(fed)
      /\ fed = <<>> => parser.user = <<>> /\ parser.agent = <<>>
  BY RecordForms DEF ParserInv, ParserTypes, P!FlushQuiet
<1>2. PICK res : res = P!Flush(parser)
  OBVIOUS
<1>3. /\ res.parser \in Memory
      /\ res.parser.user = <<>> /\ res.parser.agent = <<>>
      /\ res.out \in Seq(AllSaid) /\ TextOf(res.out) = BufferText(parser)
      /\ parser.user = <<>> /\ parser.agent = <<>> => res.out = <<>>
  BY <1>1, <1>2, FlushGives
<1>4. /\ fed' = fed /\ format' = format /\ parser' = res.parser
      /\ observations' = observations \o Entries(res.out, Len(fed'))
  BY <1>2 DEF P!FlushQuiet, P!Report, Entries
<1>5. PICK out \in Seq(AllSaid) : out = res.out
  BY <1>3
<1>6. PICK now : now = observations \o Entries(out, Len(fed))
  OBVIOUS
<1>7. /\ now \in Seq(Entry) /\ SaidOf(now) = SaidOf(observations) \o out
      /\ \A k \in DOMAIN now :
           \/ k \in DOMAIN observations /\ now[k] = observations[k]
           \/ \E j \in 1 .. Len(out) : now[k] = [line |-> Len(fed), said |-> out[j]]
  <2>1. Len(fed) \in Nat
    BY <1>1
  <2>2. QED
    BY <1>1, <1>6, <2>1, ReportAdds
<1>8. observations' = now
  BY <1>4, <1>5, <1>6
<1>9. ParserTypes'
  <2>1. Len(fed) \in Nat /\ (fed = <<>> <=> Len(fed) = 0)
    BY <1>1
  <2>2. ASSUME NEW k \in DOMAIN now PROVE now[k].line \in 1 .. Len(fed)
    <3>1. CASE k \in DOMAIN observations /\ now[k] = observations[k]
      BY <1>1, <3>1
    <3>2. CASE \E j \in 1 .. Len(out) : now[k] = [line |-> Len(fed), said |-> out[j]]
      <4>1. Len(out) # 0
        BY <3>2
      <4>2. fed # <<>>
        BY <1>1, <1>3, <1>5, <4>1
      <4>3. QED
        BY <2>1, <3>2, <4>2
    <3>3. QED
      BY <1>7, <3>1, <3>2
  <2>3. fed \in Seq(P!LinesOf(format))
    BY <1>1, RecordForms
  <2>4. QED
    BY <1>1, <1>3, <1>4, <1>7, <1>8, <2>2, <2>3 DEF ParserTypes
<1>10. ToolsInv' /\ TitleInv'
  BY <1>1, <1>4 DEF ToolsInv, TitleInv
<1>11. MarkdownInv'
  <2>1. BufferText(res.parser) = <<>> /\ OneBuffer(res.parser)
    BY <1>3, NoBufferText
  <2>2. PICK s \in Seq(AllSaid) : s = SaidOf(observations)
    BY <1>1, SaidOfFits
  <2>3. TextOf(s \o out) = TextOf(s) \o TextOf(out)
    BY TextOfJoined
  <2>4. s \o out \in Seq(AllSaid)
    BY ConcatProperties
  <2>5. PICK t \in Seq(Attributed) : t = TextOf(s \o out)
    BY <2>4, TextOfFits
  <2>6. t \o <<>> = t
    BY ConcatEmptySeq
  <2>7. TextOf(SaidOf(observations)) \o BufferText(parser) = P!FlattenSeq(WrittenOf(fed))
    BY <1>1 DEF ParserInv, MarkdownInv
  <2>8. TextOf(SaidOf(now)) \o BufferText(res.parser) = P!FlattenSeq(WrittenOf(fed))
    BY <1>3, <1>5, <1>7, <2>1, <2>2, <2>3, <2>5, <2>6, <2>7, Zenon
  <2>9. QED
    BY <1>4, <1>8, <2>1, <2>8 DEF MarkdownInv
<1>12. QED
  BY <1>9, <1>10, <1>11 DEF ParserInv

LEMMA ParserStands == ASSUME ParserInv, UNCHANGED parserVars PROVE ParserInv'
<1>1. format' = format /\ fed' = fed /\ parser' = parser /\ observations' = observations
  BY DEF parserVars
<1>2. QED
  BY <1>1 DEF ParserInv, ParserTypes, ToolsInv, TitleInv, MarkdownInv

LEMMA ParserAlways == Spec => []ParserInv
<1>1. Init => ParserInv
  BY ParserInit DEF Init
<1>2. ParserInv /\ [Next]_vars => ParserInv'
  <2>1. SUFFICES ASSUME ParserInv, Next \/ UNCHANGED vars PROVE ParserInv'
    OBVIOUS
  <2>2. CASE UNCHANGED parserVars
    BY <2>1, <2>2, ParserStands
  <2>3. CASE Parsing
    <3>1. CASE P!FlushQuiet
      BY <2>1, <3>1, QuietKeeps
    <3>2. CASE \E k \in DOMAIN Lines[format] : P!FeedLine(Lines[format][k])
      BY <2>1, <3>2, LineKeeps
    <3>3. QED
      BY <2>3, <3>1, <3>2 DEF Parsing, P!Next
  <2>4. UNCHANGED parserVars \/ Parsing
    BY <2>1 DEF Next, Asking, Hooking, Tailing, Conversing, Listening, vars
  <2>5. QED
    BY <2>2, <2>3, <2>4
<1>3. QED
  BY <1>1, <1>2, PTL DEF Spec

LEMMA ToolsAreNamed == ASSUME ParserInv PROVE P!ToolsKeepTheirNames
<1>1. SUFFICES ASSUME format \in {"claude", "codex"}, NEW k \in DOMAIN observations,
                      observations[k].said.obs = "tool", observations[k].said.phase # "started"
               PROVE  LET o == observations[k].said
                          calls == {i \in 1 .. observations[k].line - 1 :
                                      /\ P!StartsTool(fed[i], o.id)
                                      /\ \A j \in i + 1 .. observations[k].line - 1 :
                                           ~P!StartsTool(fed[j], o.id) /\ ~P!EndsTool(fed[j], o.id)}
                      IN o.name = IF calls = {} THEN "unknown"
                                  ELSE fed[CHOOSE i \in calls : TRUE].name
  BY DEF P!ToolsKeepTheirNames
<1>2. \A r, id : /\ P!StartsTool(r, id) <=> Calls(format, r, id)
                 /\ P!EndsTool(r, id) <=> Returns(format, r, id)
  BY DEF P!StartsTool, P!EndsTool, P!Visible, Calls, Returns
<1>3. NamedByCall(format, fed, observations[k])
  BY <1>1 DEF ParserInv, ToolsInv
<1>4. PICK n, o : n = observations[k].line - 1 /\ o = observations[k].said
  OBVIOUS
<1>5. {i \in 1 .. n : /\ P!StartsTool(fed[i], o.id)
                      /\ \A j \in i + 1 .. n :
                           ~P!StartsTool(fed[j], o.id) /\ ~P!EndsTool(fed[j], o.id)}
        = OpenCalls(format, fed, n, o.id)
  BY <1>2 DEF OpenCalls
<1>6. o.name = LET open == OpenCalls(format, fed, n, o.id)
               IN IF open = {} THEN "unknown" ELSE fed[CHOOSE i \in open : TRUE].name
  BY <1>1, <1>3, <1>4 DEF NamedByCall
<1>7. QED
  BY <1>4, <1>5, <1>6

LEMMA TextIsKept == ASSUME ParserInv PROVE P!MarkdownIsKept
<1>1. SUFFICES ASSUME format = "aider"
               PROVE  (P!ReportedText \o P!By("user", P!Texts(parser.user)))
                        \o P!By("assistant", P!Texts(parser.agent)) = P!HistoryText
  BY DEF P!MarkdownIsKept
<1>2. /\ parser \in Memory /\ observations \in Seq(Entry)
      /\ TextOf(SaidOf(observations)) \o BufferText(parser) = P!FlattenSeq(WrittenOf(fed))
  BY <1>1 DEF ParserInv, ParserTypes, MarkdownInv
<1>3. P!HistoryText = P!FlattenSeq(WrittenOf(fed))
  BY DEF P!HistoryText, WrittenOf
<1>4. PICK s \in Seq(AllSaid) : /\ s = SaidOf(observations) /\ Len(s) = Len(observations)
                                /\ \A k \in 1 .. Len(observations) : s[k] = observations[k].said
  BY <1>2, SaidOfFits
<1>5. P!ReportedText = TextOf(s)
  <2>1. PICK n \in Nat : n = Len(observations)
    BY <1>2
  <2>2. DOMAIN observations = 1 .. n /\ DOMAIN s = 1 .. n
    BY <1>2, <1>4, <2>1
  <2>3. [k \in DOMAIN observations |-> P!ReportOf(observations[k].said)] = ReportsOf(s)
    BY <1>4, <2>1, <2>2 DEF ReportsOf
  <2>4. QED
    BY <2>3 DEF P!ReportedText, TextOf
<1>6. PICK a, u, v \in Seq(Attributed) :
        /\ a = TextOf(s) /\ u = P!By("user", P!Texts(parser.user))
        /\ v = P!By("assistant", P!Texts(parser.agent))
  <2>1. /\ P!Texts(parser.user) \in Seq(Str) /\ P!Texts(parser.agent) \in Seq(Str)
        /\ "user" \in Str /\ "assistant" \in Str
    BY <1>2, TextsFits DEF Memory, Str
  <2>2. QED
    BY <2>1, TextOfFits, ByFits
<1>7. a \o (u \o v) = (a \o u) \o v
  <2>1. a \in Seq(Attributed) /\ u \in Seq(Attributed) /\ v \in Seq(Attributed)
    OBVIOUS
  <2>2. QED
    BY <2>1, TextsRegroup, Zenon
<1>8. QED
  BY <1>2, <1>3, <1>4, <1>5, <1>6, <1>7, Zenon DEF BufferText

LEMMA TitleIsGiven == ASSUME ParserInv PROVE P!TitleIsAuthoritative
<1>1. SUFFICES ASSUME format = "claude" PROVE P!TitleIsAuthoritative
  BY DEF P!TitleIsAuthoritative
<1>2. parser.title = TitleOf(fed)
  BY <1>1 DEF ParserInv, TitleInv
<1>3. QED
  BY <1>2 DEF P!TitleIsAuthoritative, TitleOf, Given, Suggested

LEMMA ParserTells == ASSUME ParserInv PROVE P!TypeOK /\ P!ObservationsAreFaithful
<1>1. P!TypeOK
  BY DEF ParserInv, ParserTypes, P!TypeOK
<1>2. QED
  BY <1>1, ToolsAreNamed, TextIsKept, TitleIsGiven DEF P!ObservationsAreFaithful

\* What an adapter reports of a session is what its agent wrote: the result of a
\* tool goes under the name its call gave, buffered markdown is neither lost nor
\* repeated nor given to another speaker, and the title is the one the agent gave.
THEOREM ReportsAreFaithful == Spec => []ObservationsAreFaithful
<1>1. ParserInv => ObservationsAreFaithful
  BY ParserTells DEF ObservationsAreFaithful
<1>2. QED
  BY <1>1, ParserAlways, PTL

-----------------------------------------------------------------------------
(* Types *)

\* What is asked and shown, and how it ended.
AskedFits ==
  /\ asked \in Q!Questionnaires
  /\ shown # Nothing => shown.kind \in {"permission", "question"}
  /\ outcome # Nothing => outcome.status \in {"answered", "timed_out", "cancelled"}

LEMMA AskedAlways == Spec => []AskedFits
<1>1. Init => AskedFits
  BY QuestionsStep DEF Q!Init, AskedFits
<1>2. ASSUME AskedFits, [Next]_vars PROVE AskedFits'
  <2>1. CASE UNCHANGED Q!vars
    BY <1>2, <2>1 DEF Q!vars, AskedFits
  <2>2. CASE Q!Present
    BY <1>2, <2>2 DEF Q!Present, Q!InteractionContent, AskedFits
  <2>3. CASE Q!Resolve
    <3>1. outcome'.status \in {"answered", "timed_out", "cancelled"}
      <4>1. \/ \E d : outcome' = Q!Response("answered", d, "", Nothing)
            \/ \E t : outcome' = Q!Response("answered", Nothing, t, Nothing)
            \/ \E s : outcome' = Q!Response("answered", Nothing, "", s)
            \/ \E status \in {"timed_out", "cancelled"} :
                 outcome' = Q!Response(status, Nothing, "", Nothing)
        BY <2>3, Zenon DEF Q!Resolve
      <4>2. \E status \in {"answered", "timed_out", "cancelled"} :
              \E d, t, s : outcome' = Q!Response(status, d, t, s)
        BY <4>1, Zenon
      <4>3. PICK status \in {"answered", "timed_out", "cancelled"} :
              \E d, t, s : outcome' = Q!Response(status, d, t, s)
        BY <4>2
      <4>4. PICK d, t, s : outcome' = Q!Response(status, d, t, s)
        BY <4>3
      <4>5. outcome'.status = status
        BY <4>4 DEF Q!Response
      <4>6. QED
        BY <4>5
    <3>2. UNCHANGED <<asked, shown>>
      BY <2>3 DEF Q!Resolve
    <3>3. QED
      BY <1>2, <3>1, <3>2 DEF AskedFits
  <2>4. CASE \E path \in {"hook", "sdk"} : Q!Rule(path)
    BY <1>2, <2>4 DEF Q!Rule, AskedFits
  <2>5. QED
    BY <1>2, <2>1, <2>2, <2>3, <2>4, QuestionsStep DEF Q!Next
<1>3. QED
  BY <1>1, <1>2, PTL DEF Spec

LEMMA RulingForms ==
  ASSUME NEW path \in {"hook", "sdk"}, RulingOf(path) # Nothing
  PROVE  RulingOf(path).behavior \in {"allow", "deny", "prompt"}
<1>1. \/ \E answers : RulingOf(path) = Q!Allow(answers)
      \/ RulingOf(path) \in {Q!Deny, Q!Terminal}
  BY DEF RulingOf, Q!DecisionOutput, Q!CanUseTool, Q!Carrying
<1>2. QED
  BY <1>1 DEF Q!Allow, Q!Deny, Q!Terminal

LEMMA QuestionsTypes == ASSUME AskedFits, QuestionsInv PROVE Q!TypeOK
BY RulingForms DEF AskedFits, QuestionsInv, Q!TypeOK

\* Who speaks has something to say.
Sounding ==
  /\ loop \in {"idle", "ack", "capture", "handle", "reply"}
  /\ speaker \in {"free", "loop", "notifier"}
  /\ notifier \in V!Events \cup {"nothing"}
  /\ speaker = "notifier" => notifier # "nothing"
  /\ speaker = "loop" => loop \in {"ack", "reply"}

\* The queue of notices.
Queued == notices \in Seq(V!Events) /\ Len(notices) <= NoticeLimit

\* The switches.
Switched ==
  /\ expects \in BOOLEAN /\ followup \in BOOLEAN /\ muted \in BOOLEAN
  /\ window \in BOOLEAN /\ attentive \in BOOLEAN /\ owed \in BOOLEAN

LEMMA SwitchedKeeps == ASSUME Switched, V!Next PROVE Switched'
<1>1. CASE V!Wake \/ V!OpenFollowup \/ V!Utterance \/ V!Handle
  BY <1>1 DEF V!Wake, V!OpenFollowup, V!Utterance, V!Handle, V!Listening, V!sound, V!feed, Switched
<1>2. ASSUME NEW who \in {"loop", "notifier"}, V!Speak(who) PROVE Switched'
  BY <1>2 DEF V!Speak, V!mic, V!feed, Switched
<1>3. ASSUME NEW who \in {"loop", "notifier"}, V!Spoken(who) \/ V!SynthesisFails(who)
      PROVE  Switched'
  <2>1. UNCHANGED <<expects, followup, attentive>> /\ (muted' = TRUE \/ muted' = muted)
    BY <1>3 DEF V!Spoken, V!SynthesisFails, V!AfterSpeech
  <2>2. window' = (window \/ V!Inviting(who)) /\ owed' = (owed \/ V!Inviting(who))
    BY <1>3 DEF V!Spoken, V!SynthesisFails, V!AfterSpeech
  <2>3. window' \in BOOLEAN /\ owed' \in BOOLEAN
    BY <2>2
  <2>4. QED
    BY <2>1, <2>3 DEF Switched
<1>4. CASE (\E e \in V!Events : V!Deliver(e)) \/ V!Announce
  BY <1>4 DEF V!Deliver, V!Announce, V!mic, V!sound, Switched
<1>5. CASE V!CooldownEnds \/ V!WindowCloses \/ V!AttentionLapses
  BY <1>5 DEF V!CooldownEnds, V!WindowCloses, V!AttentionLapses, V!mic, V!feed, Switched
<1>6. QED
  BY <1>1, <1>2, <1>3, <1>4, <1>5 DEF V!Next

LEMMA QueuedKeeps == ASSUME Queued, V!Next PROVE Queued'
<1>1. CASE UNCHANGED notices
  BY <1>1 DEF Queued
<1>2. ASSUME NEW e \in V!Events, V!Deliver(e) PROVE Queued'
  <2>1. NoticeLimit \in Nat
    BY EdgesBounds DEF V!PipelineBounds
  <2>2. notices' = IF Len(notices) < NoticeLimit THEN Append(notices, e) ELSE notices
    BY <1>2 DEF V!Deliver
  <2>3. QED
    BY <2>1, <2>2 DEF Queued
<1>3. CASE V!Announce
  <2>1. notices # <<>> /\ notices' = Tail(notices) /\ NoticeLimit \in Nat
    BY <1>3, EdgesBounds DEF V!Announce, V!PipelineBounds
  <2>2. QED
    BY <2>1 DEF Queued
<1>4. UNCHANGED notices \/ (\E e \in V!Events : V!Deliver(e)) \/ V!Announce
  BY DEF V!Next, V!Wake, V!OpenFollowup, V!Utterance, V!Handle, V!Speak, V!Spoken,
         V!SynthesisFails, V!AfterSpeech, V!CooldownEnds, V!WindowCloses, V!AttentionLapses, V!feed
<1>5. QED
  BY <1>1, <1>2, <1>3, <1>4

LEMMA SoundingKeeps == ASSUME Sounding, Queued, V!Next PROVE Sounding'
<1>1. CASE V!Wake \/ V!OpenFollowup \/ V!Utterance \/ V!Handle
  BY <1>1 DEF V!Wake, V!OpenFollowup, V!Utterance, V!Handle, V!Listening, V!sound, V!feed, Sounding
<1>2. ASSUME NEW who \in {"loop", "notifier"}, V!Speak(who) PROVE Sounding'
  BY <1>2 DEF V!Speak, V!Wants, V!mic, V!feed, Sounding
<1>3. ASSUME NEW who \in {"loop", "notifier"}, V!Spoken(who) \/ V!SynthesisFails(who)
      PROVE  Sounding'
  BY <1>3 DEF V!Spoken, V!SynthesisFails, V!AfterSpeech, V!Wants, Sounding
<1>4. CASE \E e \in V!Events : V!Deliver(e)
  BY <1>4 DEF V!Deliver, V!mic, V!sound, Sounding
<1>5. CASE V!Announce
  <2>1. Head(notices) \in V!Events
    BY <1>5 DEF V!Announce, Queued
  <2>2. notifier' \in V!Events \cup {"nothing"} /\ notifier = "nothing"
    BY <1>5, <2>1 DEF V!Announce
  <2>3. UNCHANGED <<loop, speaker>>
    BY <1>5 DEF V!Announce, V!mic, V!sound
  <2>4. QED
    BY <2>2, <2>3 DEF Sounding
<1>6. CASE V!CooldownEnds \/ V!WindowCloses \/ V!AttentionLapses
  BY <1>6 DEF V!CooldownEnds, V!WindowCloses, V!AttentionLapses, V!mic, V!feed, Sounding
<1>7. QED
  BY <1>1, <1>2, <1>3, <1>4, <1>5, <1>6 DEF V!Next

LEMMA PipelineTyped == Spec => [](Sounding /\ Queued /\ Switched)
<1>1. Init => Sounding /\ Queued /\ Switched
  <2>1. SUFFICES ASSUME V!Init PROVE Sounding /\ Queued /\ Switched
    BY PipelineStep
  <2>2. Sounding /\ Switched
    BY <2>1 DEF V!Init, Sounding, Switched
  <2>3. <<>> \in Seq(V!Events) /\ Len(<<>>) = 0 /\ NoticeLimit \in Nat
    BY EdgesBounds DEF V!PipelineBounds
  <2>4. QED
    BY <2>1, <2>2, <2>3 DEF V!Init, Queued
<1>2. ASSUME Sounding, Queued, Switched, [Next]_vars
      PROVE  Sounding' /\ Queued' /\ Switched'
  <2>1. CASE V!Next
    BY <1>2, <2>1, SoundingKeeps, QueuedKeeps, SwitchedKeeps
  <2>2. CASE UNCHANGED V!vars
    BY <1>2, <2>2 DEF V!vars, V!mic, V!sound, V!feed, Sounding, Queued, Switched
  <2>3. QED
    BY <1>2, <2>1, <2>2, PipelineStep
<1>3. QED
  BY <1>1, <1>2, PTL DEF Spec

LEMMA PipelineTypes == ASSUME Sounding, Queued, Switched PROVE V!TypeOK
BY DEF Sounding, Queued, Switched, V!TypeOK

\* A session the server sees at work is in the cache, and the stream does not
\* tell its end.
SessionsFit ==
  /\ running \subseteq live /\ link \in {"up", "down"}
  /\ \A k \in DOMAIN feed : feed[k].type = "ended" => feed[k].id \notin running

LEMMA EventKeeps ==
  ASSUME ServerTypes, SessionsFit, NEW e \in News, C!Publish(e), running' \subseteq running,
         UNCHANGED <<live, link>>, e.type = "ended" => e.id \notin running'
  PROVE  SessionsFit'
<1>1. CASE feed' = Append(feed, e)
  <2>1. PICK n \in Nat : /\ DOMAIN feed = 1 .. n /\ DOMAIN feed' = 1 .. n + 1
                         /\ feed'[n + 1] = e
    BY <1>1, FeedGrows
  <2>2. \A k \in DOMAIN feed : feed'[k] = feed[k]
    BY <1>1, FeedGrows
  <2>3. \A k \in DOMAIN feed' : feed'[k].type = "ended" => feed'[k].id \notin running'
    BY <2>1, <2>2 DEF SessionsFit
  <2>4. QED
    BY <2>3 DEF SessionsFit
<1>2. CASE UNCHANGED feed
  BY <1>2 DEF SessionsFit
<1>3. QED
  BY <1>1, <1>2 DEF C!Publish

LEMMA ClosedIsNews ==
  ASSUME ServerTypes, NEW i \in C!Open
  PROVE  [type |-> "closed", id |-> i] \in News
<1>1. i \in Nat
  BY DEF C!Open, ServerTypes
<1>2. QED
  BY <1>1 DEF News

LEMMA CallKeepsSessions ==
  ASSUME ServerTypes, SessionsFit, NEW c, C!Call(c), UNCHANGED <<live, link>>
  PROVE  SessionsFit'
<1>1. ASSUME NEW i, NEW verdict, C!AnswerInteraction(i, verdict) PROVE SessionsFit'
  <2>1. i \in C!Open /\ C!Publish([type |-> "closed", id |-> i]) /\ UNCHANGED running
    BY <1>1 DEF C!AnswerInteraction
  <2>2. PICK e \in News : e = [type |-> "closed", id |-> i]
    BY <2>1, ClosedIsNews
  <2>3. C!Publish(e) /\ e.type = "closed"
    BY <2>1, <2>2
  <2>4. QED
    BY <2>1, <2>3, EventKeeps
<1>2. ASSUME NEW s, C!TerminateSession(s) PROVE SessionsFit'
  <2>1. s \in running /\ running' = running \ {s} /\ C!Publish([type |-> "ended", id |-> s])
    BY <1>2 DEF C!TerminateSession
  <2>2. PICK e \in News : e = [type |-> "ended", id |-> s]
    BY <2>1 DEF News, ServerTypes
  <2>3. C!Publish(e) /\ e.id = s
    BY <2>1, <2>2
  <2>4. QED
    BY <2>1, <2>3, EventKeeps
<1>3. CASE UNCHANGED <<running, feed>>
  BY <1>3 DEF SessionsFit
<1>4. \/ \E i, verdict : C!AnswerInteraction(i, verdict)
      \/ \E s : C!TerminateSession(s)
      \/ UNCHANGED <<running, feed>>
  BY DEF C!Call, C!LaunchSession, C!server
<1>5. QED
  BY <1>1, <1>2, <1>3, <1>4

LEMMA SessionsNext ==
  ASSUME ServerTypes, SessionsFit, [C!Next]_(C!vars)
  PROVE  SessionsFit'
<1>1. CASE UNCHANGED <<running, feed, live, link>>
  BY <1>1 DEF SessionsFit
<1>2. ASSUME NEW r, C!Ask(r) PROVE SessionsFit'
  <2>1. PICK e \in News : e = [type |-> "requested", id |-> Len(requested) + 1]
    <3>1. PICK n \in Nat : n = Len(requested) + 1
      BY DEF ServerTypes
    <3>2. [type |-> "requested", id |-> n] \in News
      BY DEF News
    <3>3. QED
      BY <3>1, <3>2
  <2>2. /\ C!Publish([type |-> "requested", id |-> Len(requested) + 1])
        /\ UNCHANGED <<running, live, link>>
    BY <1>2 DEF C!Ask, C!cache
  <2>3. C!Publish(e) /\ e.type = "requested"
    BY <2>1, <2>2
  <2>4. QED
    BY <2>2, <2>3, EventKeeps
<1>3. ASSUME NEW i \in C!Open, C!SettledElsewhere(i) PROVE SessionsFit'
  <2>1. PICK e \in News : e = [type |-> "closed", id |-> i]
    BY ClosedIsNews
  <2>2. C!Publish([type |-> "closed", id |-> i]) /\ UNCHANGED <<running, live, link>>
    BY <1>3 DEF C!SettledElsewhere, C!cache
  <2>3. C!Publish(e) /\ e.type = "closed"
    BY <2>1, <2>2
  <2>4. QED
    BY <2>2, <2>3, EventKeeps
<1>4. CASE C!Connect
  BY <1>4 DEF C!Connect, C!server, C!cache, SessionsFit
<1>5. CASE C!Disconnect
  <2>1. /\ link' = "down" /\ UNCHANGED <<running, live>>
        /\ UNCHANGED feed \/ feed' = <<>>
    BY <1>5 DEF C!Disconnect, C!server, C!cache
  <2>2. CASE UNCHANGED feed
    BY <2>1, <2>2 DEF SessionsFit
  <2>3. CASE feed' = <<>>
    BY <2>1, <2>3 DEF SessionsFit
  <2>4. QED
    BY <2>1, <2>2, <2>3
<1>6. CASE C!Follow
  <2>1. /\ feed # <<>> /\ feed' = Tail(feed) /\ UNCHANGED <<running, link>>
        /\ C!Apply(Head(feed))
    BY <1>6 DEF C!Follow, C!server
  <2>2. PICK n \in Nat : DOMAIN feed = 1 .. n + 1 /\ DOMAIN feed' = 1 .. n
    BY <2>1, FeedShrinks
  <2>3. Head(feed) = feed[1] /\ \A k \in DOMAIN feed' : feed'[k] = feed[k + 1]
    BY <2>1, FeedShrinks
  <2>4. /\ \A k \in DOMAIN feed' : feed'[k].type = "ended" => feed'[k].id \notin running
        /\ 1 \in DOMAIN feed
    BY <2>2, <2>3 DEF SessionsFit
  <2>5. feed[1].type \in {"requested", "closed", "ended"}
    <3>1. feed \in Seq(News) /\ 1 \in DOMAIN feed
      BY <2>2 DEF ServerTypes
    <3>2. feed[1] \in News
      BY <3>1
    <3>3. QED
      BY <3>2 DEF News
  <2>6. running \subseteq live'
    <3>1. PICK e : e = feed[1]
      OBVIOUS
    <3>2. live' = live \/ (e.type = "ended" /\ live' = live \ {e.id})
      BY <2>1, <2>3, <2>5, <3>1 DEF C!Apply
    <3>3. e.type = "ended" => e.id \notin running
      BY <2>4, <3>1 DEF SessionsFit
    <3>4. QED
      BY <3>2, <3>3 DEF SessionsFit
  <2>7. QED
    BY <2>1, <2>4, <2>6 DEF SessionsFit
<1>7. ASSUME NEW outcomes, C!Settle(outcomes) PROVE SessionsFit'
  <2>1. PICK h \in outcomes : /\ UNCHANGED <<live, link>>
                              /\ UNCHANGED <<running, feed>> \/ C!Call(h.call)
    BY <1>7 DEF C!Settle, C!cache, C!server
  <2>2. QED
    BY <1>1, <2>1, CallKeepsSessions
<1>8. CASE \/ UNCHANGED C!vars \/ C!Route \/ C!Expire
           \/ (\E u \in Utterances : C!Hear(u))
           \/ (\E i \in cached : C!NoteAnnouncedInteraction(i))
  <2>1. UNCHANGED <<running, feed, live, link>>
    BY <1>8 DEF C!vars, C!server, C!stream, C!cache, C!Route, C!Expire, C!Hear,
                C!NoteAnnouncedInteraction
  <2>2. QED
    BY <1>1, <2>1
<1>9. QED
  BY <1>2, <1>3, <1>4, <1>5, <1>6, <1>7, <1>8 DEF C!Next, C!ResumeDialog, C!Handle

LEMMA SessionsAlways == Spec => []SessionsFit
<1>1. Init => SessionsFit
  <2>1. SUFFICES ASSUME C!Init PROVE SessionsFit
    BY ConversationStep
  <2>2. running = Sessions /\ live = Sessions /\ link = "down" /\ feed = <<>>
    BY <2>1 DEF C!Init
  <2>3. QED
    BY <2>2 DEF SessionsFit
<1>2. ConversationInv /\ SessionsFit /\ [Next]_vars => SessionsFit'
  BY ConversationStep, SessionsNext DEF ConversationInv
<1>3. QED
  BY <1>1, <1>2, ConversationAlways, PTL DEF Spec

LEMMA ConversationTypes == ASSUME ConversationInv, SessionsFit PROVE C!TypeOK
<1>1. /\ DOMAIN settled = DOMAIN requested /\ running \subseteq Sessions
      /\ cached \subseteq DOMAIN requested
  BY DEF ConversationInv, ServerTypes
<1>2. C!Range(settled) \subseteq {"open", "allow", "deny", "text", "elsewhere"}
  <2>1. \A k \in DOMAIN settled : settled[k] \in Verdicts
    BY DEF ConversationInv, ServerTypes
  <2>2. QED
    BY <2>1 DEF C!Range, Verdicts
<1>3. dialog.kind \in {"none", "confirm", "project", "prompt", "choose"}
  BY DEF ConversationInv, TalkFits, DialogFits, C!NoDialog
<1>4. /\ announced \in {0} \cup DOMAIN requested /\ C!Range(lastPending) \subseteq DOMAIN requested
      /\ turn \in {"none", "resume", "route", "handle"}
  BY DEF ConversationInv, TalkFits, IsReadout
<1>5. running \subseteq live /\ link \in {"up", "down"}
  BY DEF SessionsFit
<1>6. QED
  BY <1>1, <1>2, <1>3, <1>4, <1>5 DEF C!TypeOK

LEMMA PartIsNamed == Spec => [](part \in Parts)
<1>1. Init => part \in Parts
  BY DEF Init
<1>2. part \in Parts /\ [Next]_vars => (part \in Parts)'
  BY DEF Next, Asking, Hooking, Tailing, Parsing, Conversing, Listening, vars
<1>3. QED
  BY <1>1, <1>2, PTL DEF Spec

\* Type invariant: each part's variables hold what that part's module says,
\* whichever part runs (MCEdges; the adapters' questions, hook, tailer and
\* parsers, and the voice client's conversation and pipeline).
THEOREM EdgesWellTyped == Spec => []TypesOK
<1>1. /\ part \in Parts /\ AskedFits /\ QuestionsInv /\ HookInv /\ FollowedInv /\ ParserInv
      /\ ConversationInv /\ SessionsFit /\ Sounding /\ Queued /\ Switched
      => TypesOK
  <2>1. SUFFICES ASSUME part \in Parts, AskedFits, QuestionsInv, HookInv, FollowedInv, ParserInv,
                        ConversationInv, SessionsFit, Sounding, Queued, Switched
                 PROVE  TypesOK
    OBVIOUS
  <2>2. Q!TypeOK /\ P!TypeOK /\ C!TypeOK /\ V!TypeOK
    BY <2>1, QuestionsTypes, ParserTells, ConversationTypes, PipelineTypes
  <2>3. H!TypeOK
    BY <2>1 DEF HookInv
  <2>4. /\ part = "records" => W(FALSE)!TypeOK
        /\ part = "history" => W(TRUE)!TypeOK
    BY <2>1, TailerTells DEF FollowedInv
  <2>5. QED
    BY <2>1, <2>2, <2>3, <2>4 DEF TypesOK
<1>2. QED
  BY <1>1, PartIsNamed, AskedAlways, QuestionsSound, HookSound, FollowedAlways, ParserAlways,
     ConversationAlways, SessionsAlways, PipelineTyped, PTL

=============================================================================
