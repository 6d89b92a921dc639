------------------------------- MODULE Tailer -------------------------------
(***************************************************************************)
(* watch() of the adapters that follow a file another program writes: the  *)
(* transcripts of Claude Code and the rollouts of Codex (JSON records, one *)
(* to a line), and the chat history of Aider (markdown, whose text is held *)
(* back by the parser until it is complete).                               *)
(*                                                                         *)
(* A file is a sequence of pieces, and a size or an offset a number of     *)
(* them.  A record is written as a head and a tail, and may hold a         *)
(* character between the two that ends a line for str.splitlines() but not *)
(* for the writer (U+2028).  What the parsers make of whole lines is in    *)
(* Transcripts.                                                            *)
(***************************************************************************)
EXTENDS Naturals, Sequences, FiniteSets

CONSTANTS
  Markdown,     \* TRUE for Aider's history, FALSE for records
  MaxReplay,    \* max_replay_bytes
  MaxPieces,    \* bound: pieces written in all
  MaxRewrites,  \* bound: times the file is emptied and written anew
  MaxFailures   \* bound: failures of a watch, stops and crashes of the server

VARIABLES
  file,      \* the pieces of the file
  edition,   \* times it was rewritten
  budget,    \* pieces that may still be written
  watch,     \* what the watch does: "off" | "stat" | "read" | "feed" | "save" | "write" | "over"
  offset,    \* offset: pieces read
  held,      \* remainder: the pieces of an unfinished line
  size,      \* stat.st_size as of the last stat
  lines,     \* lines read and not fed yet
  caughtUp,  \* caught_up
  quiet,     \* quiet_cycles
  buffer,    \* lines in the buffer of the markdown parser
  known,     \* _offsets: offset of this session, or None
  onDisk,    \* offsets.json
  seen,      \* the edition the offset is about
  since,     \* where the first watch began to read it
  told,      \* lines whose observations were reported
  lost,      \* lines in the buffer of a parser when its watch ended
  failures   \* failures so far

book == <<known, onDisk, seen, since>>
vars == <<file, edition, budget, watch, offset, held, size, lines, caughtUp, quiet,
          buffer, book, told, lost, failures>>

None == [at |-> 0, edition |-> 0, since |-> 0]
At(o) == [at |-> o, edition |-> seen, since |-> since]

\* What the writer may append.
NextPieces ==
  LET last == IF file = <<>> THEN "nl" ELSE file[Len(file)]
  IN IF Markdown THEN IF last = "nl" THEN {"text", "mark"} ELSE {"nl"}
     ELSE CASE last = "nl" -> {"head"}
            [] last = "head" -> {"tail", "sep"}
            [] last = "sep" -> {"tail"}
            [] last = "tail" -> {"nl"}

Init ==
  /\ file = <<>>
  /\ edition = 1
  /\ budget = MaxPieces
  /\ watch = "off"
  /\ offset = 0
  /\ held = <<>>
  /\ size = 0
  /\ lines = <<>>
  /\ caughtUp = FALSE
  /\ quiet = 0
  /\ buffer = {}
  /\ known = None
  /\ onDisk = None
  /\ seen = 1
  /\ since = 0
  /\ told = {}
  /\ lost = {}
  /\ failures = 0

-----------------------------------------------------------------------------
(* The program that writes the file *)

Write ==
  /\ budget > 0
  /\ budget' = budget - 1
  /\ \E p \in NextPieces : file' = Append(file, p)
  /\ UNCHANGED <<edition, watch, offset, held, size, lines, caughtUp, quiet, buffer,
                 book, told, lost, failures>>

Rewrite ==
  /\ edition <= MaxRewrites
  /\ edition' = edition + 1
  /\ file' = <<>>
  /\ UNCHANGED <<budget, watch, offset, held, size, lines, caughtUp, quiet, buffer,
                 book, told, lost, failures>>

-----------------------------------------------------------------------------
(* The watch *)

\* The offset after the first line end past p, the end of the file if none.
LineAfter(p) ==
  LET ends == {k \in p + 1 .. Len(file) : file[k] = "nl"}
  IN IF ends = {} THEN Len(file) ELSE CHOOSE k \in ends : \A j \in ends : k <= j

\* _initial_offset(): the whole history, or the lines in its last bytes.
InitialOffset == IF Len(file) <= MaxReplay THEN 0 ELSE LineAfter(Len(file) - MaxReplay)

\* watch() up to its loop: a new parser, from the offset saved or the first one.
StartWatch ==
  /\ watch \in {"off", "over"}
  /\ watch' = "stat"
  /\ offset' = IF known = None THEN InitialOffset ELSE known.at
  /\ seen' = IF known = None THEN edition ELSE known.edition
  /\ since' = IF known = None THEN InitialOffset ELSE known.since
  /\ held' = <<>>
  /\ lines' = <<>>
  /\ caughtUp' = FALSE
  /\ quiet' = 0
  /\ buffer' = {}
  /\ lost' = lost \cup buffer
  /\ UNCHANGED <<file, edition, budget, size, known, onDisk, told, failures>>

\* The top of the loop, when there is something to read.  A file smaller than
\* the offset was rewritten: it is read from its beginning.
StatGrown ==
  /\ watch = "stat"
  /\ size' = Len(file)
  /\ LET from == IF Len(file) < offset THEN 0 ELSE offset
     IN /\ Len(file) > from
        /\ offset' = from
        /\ held' = IF from = offset THEN held ELSE <<>>
        /\ seen' = IF from = offset THEN seen ELSE edition
        /\ since' = IF from = offset THEN since ELSE 0
  /\ watch' = "read"
  /\ quiet' = 0
  /\ UNCHANGED <<file, edition, budget, lines, caughtUp, buffer, known, onDisk, told, lost, failures>>

\* Nothing new: the second time in a row a markdown parser is flushed.  When
\* the file is older than the idle timeout the session is reported completed
\* and the watch returns, also before that second time.
StatQuiet(idle) ==
  /\ watch = "stat"
  /\ Len(file) = offset \/ file = <<>>
  /\ size' = Len(file)
  /\ offset' = Len(file)
  /\ held' = IF Len(file) < offset THEN <<>> ELSE held
  /\ seen' = IF Len(file) < offset THEN edition ELSE seen
  /\ since' = IF Len(file) < offset THEN 0 ELSE since
  /\ caughtUp' = TRUE
  /\ quiet' = IF Markdown /\ quiet < 2 THEN quiet + 1 ELSE quiet
  /\ IF Markdown /\ quiet = 1
       THEN told' = told \cup buffer /\ buffer' = {}
       ELSE UNCHANGED <<told, buffer>>
  /\ watch' = IF idle THEN "over" ELSE "stat"
  /\ UNCHANGED <<file, edition, budget, lines, known, onDisk, lost, failures>>

\* Where a text ends for str.splitlines(), given that the writer ends its
\* lines with "nl" and the reader splits whole lines off at the last of them.
Breaks(text) == {k \in DOMAIN text : text[k] \in {"nl", "sep"}}

\* The lines of a text that ends with a line end, at the given offset.
SplitLines(text, from) ==
  LET Upto(b) == {k \in Breaks(text) : k <= b}
      Nth(n) == CHOOSE b \in Breaks(text) : Cardinality(Upto(b)) = n
      First(n) == IF n = 1 THEN 1 ELSE Nth(n - 1) + 1
  IN [n \in 1 .. Cardinality(Breaks(text)) |->
        [edition |-> seen, from |-> from + First(n) - 1,
         text |-> SubSeq(text, First(n), Nth(n) - 1)]]

\* Defect: the unfinished line is handed on with the whole ones.
ReadAll ==
  /\ watch = "read"
  /\ LET upto == IF size < Len(file) THEN size ELSE Len(file)
         text == held \o SubSeq(file, offset + 1, upto)
     IN /\ offset' = IF upto > offset THEN upto ELSE offset
        /\ lines' = SplitLines(Append(text, "nl"), offset - Len(held))
        /\ held' = <<>>
  /\ watch' = "feed"
  /\ UNCHANGED <<file, edition, budget, size, caughtUp, quiet, buffer, book, told, lost, failures>>

\* _read_range(), _split_lines(): up to the size of the stat, or what is left
\* of the file by now; whole lines, and the rest is held.
Read ==
  /\ watch = "read"
  /\ LET upto == IF size < Len(file) THEN size ELSE Len(file)
         text == held \o SubSeq(file, offset + 1, upto)
         ends == {k \in DOMAIN text : text[k] = "nl"}
         cut == IF ends = {} THEN 0 ELSE CHOOSE k \in ends : \A j \in ends : j <= k
     IN /\ offset' = IF upto > offset THEN upto ELSE offset
        /\ lines' = SplitLines(SubSeq(text, 1, cut), offset - Len(held))
        /\ held' = SubSeq(text, cut + 1, Len(text))
  /\ watch' = "feed"
  /\ UNCHANGED <<file, edition, budget, size, caughtUp, quiet, buffer, book, told, lost, failures>>

Id(line) == [edition |-> line.edition, from |-> line.from]

\* feed_line() and the reports of what it makes of the line: a record that
\* does not parse is nothing, markdown text waits in the buffer for a mark.
Feed ==
  /\ watch = "feed"
  /\ lines # <<>>
  /\ lines' = Tail(lines)
  /\ LET line == Head(lines)
     IN CASE ~Markdown /\ line.text = <<"head", "tail">> ->
               told' = told \cup {Id(line)} /\ UNCHANGED buffer
          [] Markdown /\ line.text = <<"text">> -> buffer' = buffer \cup {Id(line)} /\ UNCHANGED told
          [] Markdown /\ line.text = <<"mark">> ->
               told' = told \cup buffer \cup {Id(line)} /\ buffer' = {}
          [] OTHER -> UNCHANGED <<told, buffer>>
  /\ UNCHANGED <<file, edition, budget, watch, offset, held, size, caughtUp, quiet, book, lost, failures>>

\* Defect: the offset counts the line that is still held back.
SaveAll ==
  /\ watch = "feed"
  /\ lines = <<>>
  /\ known' = At(offset)
  /\ caughtUp' = (caughtUp \/ offset >= size)
  /\ watch' = "write"
  /\ UNCHANGED <<file, edition, budget, offset, held, size, lines, quiet, buffer, onDisk, seen,
                 since, told, lost, failures>>

\* Once all are fed: descriptive facts and activity are reported, and the
\* offset of the last whole line is kept.
Save ==
  /\ watch = "feed"
  /\ lines = <<>>
  /\ known' = At(offset - Len(held))
  /\ caughtUp' = (caughtUp \/ offset >= size)
  /\ watch' = "write"
  /\ UNCHANGED <<file, edition, budget, offset, held, size, lines, quiet, buffer, onDisk, seen,
                 since, told, lost, failures>>

\* _save_offsets()
WriteOffsets ==
  /\ watch = "write"
  /\ onDisk' = known
  /\ watch' = "stat"
  /\ UNCHANGED <<file, edition, budget, offset, held, size, lines, caughtUp, quiet, buffer,
                 known, seen, since, told, lost, failures>>

Failing ==
  /\ watch \notin {"off"}
  /\ failures < MaxFailures
  /\ failures' = failures + 1
  /\ watch' = "off"
  /\ UNCHANGED <<file, edition, budget, offset, held, size, lines, caughtUp, quiet, buffer,
                 seen, since, told, lost>>

\* The watch raises; the manager will start it again.
WatchFails == Failing /\ UNCHANGED <<known, onDisk>>

\* The server stops or crashes, and _load_offsets() reads what is on the disk:
\* nothing, when the file was being written.
Reboot ==
  /\ Failing
  /\ \/ UNCHANGED onDisk
     \/ watch = "write" /\ onDisk' \in {None, known}
  /\ known' = onDisk'

Next ==
  \/ Write \/ Rewrite \/ StartWatch \/ StatGrown \/ (\E idle \in BOOLEAN : StatQuiet(idle))
  \/ Read \/ Feed \/ Save \/ WriteOffsets \/ WatchFails \/ Reboot

Spec == Init /\ [][Next]_vars

-----------------------------------------------------------------------------

TailerBounds == {MaxReplay, MaxPieces, MaxRewrites, MaxFailures} \subseteq Nat

\* Type invariant.
TypeOK ==
  /\ Len(file) <= MaxPieces
  /\ edition \in 1 .. MaxRewrites + 1
  /\ watch \in {"off", "stat", "read", "feed", "write", "over"}
  /\ offset \in 0 .. MaxPieces
  /\ size \in 0 .. MaxPieces
  /\ caughtUp \in BOOLEAN
  /\ quiet \in 0 .. 2
  /\ \A record \in {known, onDisk} : record.at \in 0 .. MaxPieces
  /\ failures \in 0 .. MaxFailures

\* The lines of the file that ended by some offset, from where the first watch
\* began; a line with a separator in it is not one record to the reader.
WholeLines(upto) ==
  {k \in since + 1 .. upto :
     /\ k <= Len(file)
     /\ file[k] \in {"head", "text", "mark"}
     /\ k = 1 \/ file[k - 1] = "nl"
     /\ \E e \in k .. upto :
          e <= Len(file) /\ file[e] = "nl" /\ \A j \in k .. e - 1 : file[j] \notin {"nl", "sep"}}

\* No line is passed over: however a file is written in pieces, read in
\* chunks, rewritten, and taken up again after failures and restarts, every
\* whole line up to the offset is reported or in the parser's buffer, unless
\* the file was rewritten and grew past the offset unnoticed.  What is lost is
\* only the text a parser still held back when its watch ended.
NoLineSkipped ==
  (watch = "stat" /\ seen = edition) =>
    \A k \in WholeLines(offset) :
      [edition |-> edition, from |-> k - 1] \in told \cup buffer \cup lost

=============================================================================
