\* Two questions a call; a hook that waits two ticks and a cap of four; files of
\* six pieces, replayed from the last three, rewritten once, with one failure of
\* the watch; four lines a transcript; two utterances and one lost connection; three captures.
CONSTANTS
  Phrases <- Words
  Fold <- Folded
  Ordinal <- Position
  Prompts = {"q"}
  LabelLists <- OptionLists
  MaxAsked = 2
  MaxChosen = 2
  Nothing = Nothing
  Hooks = {"h1"}
  Timeout = 2
  Grace = 1
  Cap = 4
  MaxDowns = 1
  MaxReplay = 3
  MaxPieces = 6
  MaxRewrites = 1
  MaxFailures = 1
  Lines <- TranscriptLines
  MaxLines = 4
  Sessions = {"s1", "s2"}
  Allowed = {"approve"}
  Adapters <- Agents
  Utterances <- Spoken
  Requests <- Asks
  MaxSaid = 2
  MaxDrops = 1
  NoticeLimit = 1
  MaxNotices = 3
  MaxTurns = 3

CHECK_DEADLOCK FALSE
SPECIFICATION FairSpec

INVARIANTS
  TypesOK
  OnlyWhatWasSaid
  NoLineSkipped
  ObservationsAreFaithful
  

PROPERTIES
  CardGoes
  DoesAsTold
  
