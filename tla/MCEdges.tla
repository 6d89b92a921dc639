-------------------------------- MODULE MCEdges --------------------------------
(***************************************************************************)
(* TLC instances of what stands at the edges of the server, side by side:  *)
(* the adapters' parsers, tailers and questions, the permission hook, and  *)
(* the voice client.  A behaviour is of one of the parts, the others stay  *)
(* as they start; they meet only in the server, which the other modules    *)
(* are about.                                                              *)
(***************************************************************************)
EXTENDS Naturals, Sequences, TLC

CONSTANTS Phrases, Fold, Ordinal, Prompts, LabelLists, MaxAsked, MaxChosen, Nothing,
          Hooks, Timeout, Grace, Cap, MaxDowns,
          MaxReplay, MaxPieces, MaxRewrites, MaxFailures,
          Lines, MaxLines,
          Sessions, Allowed, Adapters, Utterances, Requests, MaxSaid, MaxDrops,
          NoticeLimit, MaxNotices, MaxTurns

VARIABLES part,
  asked, shown, outcome, ruling,
  present, hook, age, request, reply, endpoint, card, answer, left, server, downs,
  file, edition, budget, watch, offset, held, size, lines, caughtUp, quiet, buffer, known, onDisk,
  seen, since, told, lost, failures,
  format, fed, parser, observations,
  requested, settled, running, launched, feed, link, cursor, gap, drops, cached, live,
  lastPending, dialog, announced, readout, turn, said, spokenTo,
  loop, expects, followup, speaker, muted, window, attentive, notices, notifier, delivered, turns,
  owed

questionsVars == <<asked, shown, outcome, ruling>>
hookVars == <<present, hook, age, request, reply, endpoint, card, answer, left, server, downs>>
tailerVars == <<file, edition, budget, watch, offset, held, size, lines, caughtUp, quiet, buffer,
                known, onDisk, seen, since, told, lost, failures>>
parserVars == <<format, fed, parser, observations>>
conversationVars == <<requested, settled, running, launched, feed, link, cursor, gap, drops,
                      cached, live, lastPending, dialog, announced, readout, turn, said, spokenTo>>
pipelineVars == <<loop, expects, followup, speaker, muted, window, attentive, notices, notifier,
                  delivered, turns, owed>>

-----------------------------------------------------------------------------
(* What a .cfg cannot write *)

\* Labels and words that differ, that differ in case only, and one that reads
\* as a position.
Words == {"Yes", "yes", "No", "2"}
Folded == [w \in Words \cup {""} |-> IF w \in {"Yes", "yes"} THEN "yes" ELSE w]
Position == [w \in Words \cup {""} |-> IF w = "2" THEN 2 ELSE 0]
OptionLists == {<<"Yes", "No">>, <<"yes", "Yes">>, <<"2", "No">>}

\* Lines of the three formats.
Claude(type, text, tool) ==
  [type |-> type, text |-> text, tool |-> tool, name |-> "", failed |-> FALSE, plain |-> tool = "",
   hidden |-> FALSE, stop |-> FALSE, model |-> ""]
Call(tool, name) == [Claude("assistant", "", tool) EXCEPT !.name = name]
Codex(type, role, text, tool, name) ==
  [type |-> type, role |-> role, text |-> text, tool |-> tool, name |-> name, failed |-> FALSE,
   synthetic |-> text = "context", model |-> ""]
Aider(type, info, text) == [type |-> type, info |-> info, text |-> text]

TranscriptLines ==
  [claude |->
     <<Claude("noise", "", ""), Claude("other", "raw", ""),
       Claude("user", "hi", ""), Claude("user", "and", "i1"),
       [Claude("user", "", "i1") EXCEPT !.failed = TRUE],
       [Call("i1", "bash") EXCEPT !.text = "ok"], [Call("i1", "edit") EXCEPT !.stop = TRUE],
       [Call("i1", "grep") EXCEPT !.hidden = TRUE],
       Claude("ai-title", "T1", ""), Claude("ai-title", "T2", ""), Claude("summary", "S", "")>>,
   codex |->
     <<Codex("turn_context", "", "", "", ""), Codex("noise", "", "", "", ""),
       Codex("message", "user", "hi", "", ""), Codex("message", "user", "context", "", ""),
       Codex("message", "assistant", "ok", "", ""), Codex("message", "system", "s", "", ""),
       Codex("call", "", "", "i1", "shell"), Codex("call", "", "", "i1", "patch"),
       Codex("call_output", "", "", "i1", ""),
       [Codex("call_output", "", "", "i2", "") EXCEPT !.failed = TRUE],
       Codex("task_started", "", "", "", ""), Codex("task_complete", "", "", "", ""),
       Codex("error", "", "e", "", ""), Codex("other", "", "raw", "", "")>>,
   aider |->
     <<Aider("started", "", ""), Aider("prompt", "", "p1"), Aider("prompt", "", "p2"),
       Aider("prompt", "", ""), Aider("info", "blank", ""), Aider("info", "model", "m"),
       Aider("info", "edit", "f"), Aider("info", "tokens", ""), Aider("info", "other", "w"),
       Aider("markdown", "", "x"), Aider("markdown", "", "y"), Aider("markdown", "", "")>>]

\* What is said to the voice client, and what its agents ask.
Nil == [verb |-> "unknown", at |-> 0, ordinal |-> 0, names |-> {}, sense |-> "none", words |-> {},
        task |-> FALSE]
Plain(verb) == [Nil EXCEPT !.verb = verb]
Verdict(verb) == [Plain(verb) EXCEPT !.words = {verb}]
At(u, k) == [u EXCEPT !.at = k, !.ordinal = k]
Spoken ==
  {[Nil EXCEPT !.sense = "yes"], [Nil EXCEPT !.ordinal = 2],
   Verdict("approve"), At(Verdict("approve"), 1), At(Verdict("approve"), 2),
   At(Verdict("deny"), 2), [Verdict("approve") EXCEPT !.names = {"s1"}],
   Plain("pending"), Plain("stop"), At(Plain("respond"), 1), Plain("cancel"), Plain("launch"),
   [Plain("launch") EXCEPT !.names = {"s1", "s2"}, !.task = TRUE],
   [Plain("launch") EXCEPT !.names = {"s1"}, !.task = TRUE]}
Agents == <<"a1">>
Asks == <<[session |-> "s1", kind |-> "permission"], [session |-> "s1", kind |-> "question"]>>

Q == INSTANCE Questions
H == INSTANCE Hook
W(markdown) == INSTANCE Tailer WITH Markdown <- markdown
P == INSTANCE Transcripts
C == INSTANCE Conversation WITH asked <- requested
V == INSTANCE VoicePipeline WITH told <- delivered

ASSUME EdgesBounds ==
  /\ Q!QuestionsBounds /\ H!HookBounds /\ W(FALSE)!TailerBounds /\ P!TranscriptsBounds
  /\ C!ConversationBounds /\ V!PipelineBounds

-----------------------------------------------------------------------------

Parts == {"questions", "hook", "records", "history", "parsers", "conversation", "pipeline"}

\* The parts that do not run have one initial state each.
Init ==
  /\ part \in Parts
  /\ IF part = "questions" THEN Q!Init ELSE Q!Init /\ asked = <<>>
  /\ IF part = "hook" THEN H!Init ELSE H!Init /\ present = FALSE
  /\ IF part = "parsers" THEN P!Init ELSE P!Init /\ format = "codex"
  /\ W(FALSE)!Init /\ C!Init /\ V!Init

Asking ==
  /\ part = "questions" /\ Q!Next
  /\ UNCHANGED <<part, hookVars, tailerVars, parserVars, conversationVars, pipelineVars>>

Hooking ==
  /\ part = "hook" /\ H!Next
  /\ UNCHANGED <<part, questionsVars, tailerVars, parserVars, conversationVars, pipelineVars>>

Tailing ==
  /\ \/ part = "records" /\ W(FALSE)!Next
     \/ part = "history" /\ W(TRUE)!Next
  /\ UNCHANGED <<part, questionsVars, hookVars, parserVars, conversationVars, pipelineVars>>

Parsing ==
  /\ part = "parsers" /\ P!Next
  /\ UNCHANGED <<part, questionsVars, hookVars, tailerVars, conversationVars, pipelineVars>>

Conversing ==
  /\ part = "conversation" /\ C!Next
  /\ UNCHANGED <<part, questionsVars, hookVars, tailerVars, parserVars, pipelineVars>>

Listening ==
  /\ part = "pipeline" /\ V!Next
  /\ UNCHANGED <<part, questionsVars, hookVars, tailerVars, parserVars, conversationVars>>

Next == Asking \/ Hooking \/ Tailing \/ Parsing \/ Conversing \/ Listening

vars == <<part, questionsVars, hookVars, tailerVars, parserVars, conversationVars, pipelineVars>>

Spec == Init /\ [][Next]_vars

\* Only the hook's liveness is checked; nothing of it can happen elsewhere.
FairSpec == Spec /\ H!Fairness

-----------------------------------------------------------------------------

\* Type invariant of the parts.
TypesOK ==
  /\ part \in Parts
  /\ part = "questions" => Q!TypeOK
  /\ part = "hook" => H!TypeOK
  /\ part = "records" => W(FALSE)!TypeOK
  /\ part = "history" => W(TRUE)!TypeOK
  /\ part = "parsers" => P!TypeOK
  /\ part = "conversation" => C!TypeOK
  /\ part = "pipeline" => V!TypeOK

\* An agent is told what a human said, nothing else and nothing less: the
\* selections of a question (claude-code format.py) and the hook's decisions
\* (hook.py, decision_output).  See Questions and Hook.
OnlyWhatWasSaid == Q!NothingFabricated /\ H!SpeaksForAHuman /\ H!EndsBeforeCap

\* A card outlives its hook by a poll (api/app.py, external_interaction).  See
\* Hook.
CardGoes == H!CardGoes

\* No whole line of a watched file is passed over (the adapters' watch()).  See
\* Tailer.
NoLineSkipped ==
  /\ part = "records" => W(FALSE)!NoLineSkipped
  /\ part = "history" => W(TRUE)!NoLineSkipped

\* What an adapter reports of a session is what its agent wrote (the adapters'
\* parsers).  See Transcripts.
ObservationsAreFaithful == P!ObservationsAreFaithful

\* The voice client's cache catches up with the server (prodeo_mjolnir
\* cache.py, client.py).  See Conversation.
CacheCatchesUp == C!CacheCatchesUp

\* The voice client does what was said about what was read out, and launches
\* what was confirmed (prodeo_mjolnir handlers.py).  See Conversation.
DoesAsTold == C!DoesAsTold

\* A microphone opens by a wake word or by an invitation (prodeo_mjolnir
\* pipeline.py).  See VoicePipeline.
CaptureIsInvited == V!CaptureIsInvited

=============================================================================
