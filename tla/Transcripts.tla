----------------------------- MODULE Transcripts -----------------------------
(***************************************************************************)
(* The parsers of the adapters: what one line of a Claude Code transcript, *)
(* of a Codex rollout or of an Aider history becomes, and what a parser    *)
(* remembers from line to line (the names of the tools that are running,   *)
(* the title, buffered markdown).  A parser lives as long as its watch.    *)
(*                                                                         *)
(* A line is the record it decodes to, reduced to what the parser tells    *)
(* apart.  One that does not decode is no record and yields nothing.       *)
(***************************************************************************)
EXTENDS Naturals, Sequences, SequencesExt

CONSTANTS
  Lines,     \* format -> the lines to feed, a sequence of records
  MaxLines   \* bound: lines fed

Formats == DOMAIN Lines

\* The records of the three formats.  An info line of a history without text is
\* a blank one.
LinesOf(f) ==
  CASE f = "claude" ->
         [type : {"noise", "ai-title", "summary", "user", "assistant", "other"}, text : STRING,
          tool : STRING, name : STRING, failed : BOOLEAN, plain : BOOLEAN, hidden : BOOLEAN,
          stop : BOOLEAN, model : STRING]
    [] f = "codex" ->
         [type : {"turn_context", "message", "call", "call_output", "task_started",
                  "task_complete", "error", "noise", "other"}, role : STRING, text : STRING,
          tool : STRING, name : STRING, failed : BOOLEAN, synthetic : BOOLEAN, model : STRING]
    [] f = "aider" ->
         {r \in [type : {"started", "prompt", "info", "markdown"}, text : STRING,
                 info : {"", "blank", "model", "edit", "tokens", "other"}] :
            r.type = "info" => r.info # "" /\ (r.info = "other" => r.text # "")}

TranscriptsBounds ==
  /\ Formats \subseteq {"claude", "codex", "aider"}
  /\ \A f \in Formats : Lines[f] \in Seq(LinesOf(f))
  /\ MaxLines \in Nat

VARIABLES
  format,       \* the parser in use
  fed,          \* the lines fed so far
  parser,       \* what it remembers
  observations  \* what it has reported, each with the number of its line

vars == <<format, fed, parser, observations>>

New == [tools |-> {}, title |-> "", model |-> "", user |-> <<>>, agent |-> <<>>]

Turn(phase) == [obs |-> "turn", phase |-> phase]
Output(role, texts) == [obs |-> "output", role |-> role, texts |-> texts]
Tool(phase, id, name) == [obs |-> "tool", phase |-> phase, id |-> id, name |-> name]

Quiet(p) == [parser |-> p, out |-> <<>>]
Says(p, out) == [parser |-> p, out |-> out]

-----------------------------------------------------------------------------
(* Tools: _pending_tools *)

NameOf(p, id) ==
  IF \E t \in p.tools : t.id = id THEN (CHOOSE t \in p.tools : t.id = id).name ELSE "unknown"

Without(p, id) == [p EXCEPT !.tools = {t \in @ : t.id # id}]

ToolStarts(p, id, name) == [Without(p, id) EXCEPT !.tools = @ \cup {[id |-> id, name |-> name]}]

\* Defect: the tool stays pending after its result.
ToolEndsPeeking(p, id, failed) ==
  Says(p, <<Tool(IF failed THEN "failed" ELSE "finished", id, NameOf(p, id))>>)

ToolEnds(p, id, failed) ==
  Says(Without(p, id), <<Tool(IF failed THEN "failed" ELSE "finished", id, NameOf(p, id))>>)

\* The first text of the user names the session.
TitledBy(p, text) == IF p.title = "" THEN [p EXCEPT !.title = text] ELSE p

-----------------------------------------------------------------------------
(* Claude Code: TranscriptParser *)

\* _set_title(): the agent's own title replaces any other.
SetTitle(p, text, authoritative) ==
  IF text # "" /\ (authoritative \/ p.title = "") THEN [p EXCEPT !.title = text] ELSE p

\* _parse_user(): a text starts a turn; results of tools are reported between
\* the start and the text.  Only a plain text can become the title.
ClaudeUser(p, r) ==
  LET named == IF r.plain THEN SetTitle(p, r.text, FALSE) ELSE p
      result == IF r.tool = "" THEN Quiet(named) ELSE ToolEnds(named, r.tool, r.failed)
  IN IF r.text = "" THEN result
     ELSE Says(result.parser,
               <<Turn("started")>> \o result.out \o <<Output("user", <<r.text>>)>>)

\* _parse_assistant(): texts and starting tools, then the end of the turn.
ClaudeAssistant(p, r) ==
  LET text == IF r.text = "" THEN <<>> ELSE <<Output("assistant", <<r.text>>)>>
      tool == IF r.tool = "" THEN <<>> ELSE <<Tool("started", r.tool, r.name)>>
      end == IF r.stop THEN <<Turn("completed")>> ELSE <<>>
      used == IF r.tool = "" THEN p ELSE ToolStarts(p, r.tool, r.name)
  IN Says([used EXCEPT !.model = IF r.model = "" THEN @ ELSE r.model], text \o tool \o end)

\* _feed_record(): noise, sidechains and meta records are skipped, a record
\* of an unknown type is passed on as it is.
FeedClaude(p, r) ==
  CASE r.type = "noise" \/ r.hidden -> Quiet(p)
    [] r.type = "ai-title" /\ ~r.hidden -> Quiet(SetTitle(p, r.text, TRUE))
    [] r.type = "summary" /\ ~r.hidden -> Quiet(SetTitle(p, r.text, FALSE))
    [] r.type = "user" /\ ~r.hidden -> ClaudeUser(p, r)
    [] r.type = "assistant" /\ ~r.hidden -> ClaudeAssistant(p, r)
    [] r.type = "other" /\ ~r.hidden -> Says(p, <<Output("system", <<r.text>>)>>)

-----------------------------------------------------------------------------
(* Codex: RolloutParser *)

\* _parse_message(): the texts Codex injects for itself, and the messages of
\* other roles, are skipped.
CodexMessage(p, r) ==
  IF r.text = "" \/ r.role \notin {"user", "assistant"} \/ (r.role = "user" /\ r.synthetic)
    THEN Quiet(p)
    ELSE Says(IF r.role = "user" THEN TitledBy(p, r.text) ELSE p, <<Output(r.role, <<r.text>>)>>)

\* _parse_response_item(), _parse_event_msg(), _feed_record()
FeedCodex(p, r) ==
  CASE r.type = "turn_context" -> Quiet([p EXCEPT !.model = IF r.model = "" THEN @ ELSE r.model])
    [] r.type = "message" -> CodexMessage(p, r)
    [] r.type = "call" -> Says(ToolStarts(p, r.tool, r.name), <<Tool("started", r.tool, r.name)>>)
    [] r.type = "call_output" -> ToolEnds(p, r.tool, r.failed)
    [] r.type = "task_started" -> Says(p, <<Turn("started")>>)
    [] r.type = "task_complete" -> Says(p, <<Turn("completed")>>)
    [] r.type = "error" ->
         IF r.text = "" THEN Quiet(p) ELSE Says(p, <<Output("system", <<r.text>>)>>)
    [] r.type = "noise" -> Quiet(p)
    [] r.type = "other" -> Says(p, <<Output("system", <<r.text>>)>>)

-----------------------------------------------------------------------------
(* Aider: HistoryParser *)

Blank(t) == t = ""
Texts(buffer) == FlattenSeq([k \in DOMAIN buffer |-> IF Blank(buffer[k]) THEN <<>> ELSE <<buffer[k]>>])

\* _flush_user(): the prompt block starts a turn; one of blank lines is none.
FlushUser(p) ==
  LET empty == [p EXCEPT !.user = <<>>]
  IN IF Texts(p.user) = <<>> THEN Quiet(empty)
     ELSE Says(TitledBy(empty, Texts(p.user)[1]),
               <<Turn("started"), Output("user", Texts(p.user))>>)

FlushAssistant(p) ==
  LET empty == [p EXCEPT !.agent = <<>>]
  IN IF Texts(p.agent) = <<>> THEN Quiet(empty)
     ELSE Says(empty, <<Output("assistant", Texts(p.agent))>>)

\* flush()
Flush(p) ==
  LET user == FlushUser(p)
      agent == FlushAssistant(user.parser)
  IN Says(agent.parser, user.out \o agent.out)

\* Defect: a prompt does not end the answer before it.
AiderPromptUnflushed(p, r) == Quiet([p EXCEPT !.user = Append(@, r.text)])

\* "#### <text>" ends the answer before it; "####" alone does not.
AiderPrompt(p, r) ==
  LET flushed == IF Blank(r.text) THEN Quiet(p) ELSE FlushAssistant(p)
  IN Says([flushed.parser EXCEPT !.user = Append(@, r.text)], flushed.out)

\* _parse_info(), after a flush.
AiderInfo(p, r) ==
  LET flushed == Flush(p)
      Then(out) == Says(flushed.parser, flushed.out \o out)
  IN CASE r.info = "blank" -> Then(<<>>)
       [] r.info = "model" -> Says([flushed.parser EXCEPT !.model = r.text], flushed.out)
       [] r.info = "edit" -> Then(<<Tool("finished", r.text, "edit")>>)
       [] r.info = "tokens" -> Then(<<Turn("completed")>>)
       [] r.info = "other" -> Then(<<Output("system", <<r.text>>)>>)

\* feed_line(): anything without a mark is the agent's markdown.
FeedAider(p, r) ==
  CASE r.type = "started" -> Flush(p)
    [] r.type = "prompt" -> AiderPrompt(p, r)
    [] r.type = "info" -> AiderInfo(p, r)
    [] r.type = "markdown" ->
         LET user == FlushUser(p)
         IN IF Blank(r.text) /\ user.parser.agent = <<>> THEN user
            ELSE Says([user.parser EXCEPT !.agent = Append(@, r.text)], user.out)

-----------------------------------------------------------------------------

Init ==
  /\ format \in Formats
  /\ fed = <<>>
  /\ parser = New
  /\ observations = <<>>

Report(out) ==
  observations' = observations \o [k \in DOMAIN out |-> [line |-> Len(fed'), said |-> out[k]]]

FeedLine(r) ==
  /\ Len(fed) < MaxLines
  /\ fed' = Append(fed, r)
  /\ LET result == CASE format = "claude" -> FeedClaude(parser, r)
                     [] format = "codex" -> FeedCodex(parser, r)
                     [] format = "aider" -> FeedAider(parser, r)
     IN parser' = result.parser /\ Report(result.out)
  /\ UNCHANGED format

\* The history has been quiet for two polls.
FlushQuiet ==
  /\ format = "aider"
  /\ UNCHANGED <<format, fed>>
  /\ LET result == Flush(parser) IN parser' = result.parser /\ Report(result.out)

Next == (\E k \in DOMAIN Lines[format] : FeedLine(Lines[format][k])) \/ FlushQuiet

Spec == Init /\ [][Next]_vars

-----------------------------------------------------------------------------

\* Type invariant.
TypeOK ==
  /\ format \in Formats
  /\ Len(fed) <= MaxLines
  /\ \A k \in DOMAIN observations : observations[k].line \in 1 .. Len(fed)

Visible(r) == format # "claude" \/ ~r.hidden

StartsTool(r, id) ==
  Visible(r) /\ r.type \in {"assistant", "call"} /\ r.tool = id
EndsTool(r, id) ==
  Visible(r) /\ r.type \in {"user", "call_output"} /\ r.tool = id

\* A result is reported under the name its call gave the tool, that is the
\* last call with its id, unless a result came between them, also when ids are
\* used again.
ToolsKeepTheirNames ==
  format \in {"claude", "codex"} =>
    \A k \in DOMAIN observations :
      LET o == observations[k].said
          calls == {i \in 1 .. observations[k].line - 1 :
                      /\ StartsTool(fed[i], o.id)
                      /\ \A j \in i + 1 .. observations[k].line - 1 :
                           ~StartsTool(fed[j], o.id) /\ ~EndsTool(fed[j], o.id)}
      IN (o.obs = "tool" /\ o.phase # "started") =>
           o.name = IF calls = {} THEN "unknown" ELSE fed[CHOOSE i \in calls : TRUE].name

By(role, texts) == [k \in DOMAIN texts |-> <<role, texts[k]>>]

\* The text of the history, line by line, and who said it.
Written(r) ==
  CASE r.type = "prompt" /\ ~Blank(r.text) -> <<<<"user", r.text>>>>
    [] r.type = "markdown" /\ ~Blank(r.text) -> <<<<"assistant", r.text>>>>
    [] r.type = "info" /\ r.info = "other" /\ ~Blank(r.text) -> <<<<"system", r.text>>>>
    [] OTHER -> <<>>

HistoryText == FlattenSeq([k \in DOMAIN fed |-> Written(fed[k])])

ReportOf(said) == IF said.obs = "output" THEN By(said.role, said.texts) ELSE <<>>

ReportedText == FlattenSeq([k \in DOMAIN observations |-> ReportOf(observations[k].said)])

\* Buffering loses, repeats, reorders and misattributes nothing: what was
\* reported, with what the buffers hold, is the history's text.
MarkdownIsKept ==
  format = "aider" =>
    ReportedText \o By("user", Texts(parser.user)) \o By("assistant", Texts(parser.agent))
      = HistoryText

\* The title is the last one the agent gave the session, or the first the user's
\* words or a summary suggested as long as it gave none.
TitleIsAuthoritative ==
  format = "claude" =>
    LET Titles(k) == ~fed[k].hidden /\ fed[k].text # ""
        given == {k \in DOMAIN fed : Titles(k) /\ fed[k].type = "ai-title"}
        suggested == {k \in DOMAIN fed :
          Titles(k) /\ (fed[k].type = "summary" \/ (fed[k].type = "user" /\ fed[k].plain))}
    IN parser.title =
         IF given # {} THEN fed[Max(given)].text
         ELSE IF suggested # {} THEN fed[Min(suggested)].text ELSE ""

\* What an adapter reports of a session is what its agent wrote.
ObservationsAreFaithful == ToolsKeepTheirNames /\ MarkdownIsKept /\ TitleIsAuthoritative

=============================================================================
