--------------------------- MODULE VoicePipeline ---------------------------
(***************************************************************************)
(* The voice client's pipeline: the listen loop that owns the microphone,  *)
(* the notification speaker, and the speak lock, echo cooldown, follow-up  *)
(* window and attention they share.  What is understood is Conversation's; *)
(* here a reply may or may not invite an answer.  A time limit is a step   *)
(* that may come at any moment the order of the limits allows.             *)
(***************************************************************************)
EXTENDS Naturals, Sequences

CONSTANTS NoticeLimit,          \* size of the notification speaker's queue (256)
          MaxNotices, MaxTurns  \* bounds on the environment

PipelineBounds == NoticeLimit \in Nat \ {0} /\ {MaxNotices, MaxTurns} \subseteq Nat

VARIABLES loop,       \* the listen loop: "idle", "ack", "capture", "handle", "reply"
          expects,    \* the reply it is to speak invites an answer
          followup,   \* the capture was opened without a wake word
          speaker,    \* who holds the speak lock: "loop", "notifier", "free"
          muted,      \* the echo cooldown runs
          window,     \* the follow-up window is open
          attentive,  \* the attentive window is open
          notices,    \* the notification speaker's queue
          notifier,   \* the event it is speaking about, "nothing" when none
          told,       \* how many events the cache's feed delivered
          turns,      \* how many captures were opened
          owed        \* history: an invitation was uttered and not yet taken up

mic == <<loop, expects, followup, turns>>
sound == <<speaker, muted, window, attentive>>
feed == <<notices, notifier, told>>
vars == <<mic, sound, feed, owed>>

Events == {"requested", "finished", "closed"}

(***************************************************************************)
(* The listen loop, one frame after the other: the echo guard, then the    *)
(* follow-up window, then the wake word.                                   *)
(***************************************************************************)
Listening == loop = "idle" /\ ~muted /\ turns < MaxTurns

Wake ==
  /\ Listening /\ ~window
  /\ loop' = "ack" /\ followup' = FALSE /\ attentive' = TRUE /\ turns' = turns + 1
  /\ UNCHANGED <<expects, speaker, muted, window, feed, owed>>

\* Defect: the window stays open for the next capture.
OpenFollowupStays ==
  /\ Listening /\ window
  /\ loop' = "capture" /\ followup' = TRUE /\ attentive' = TRUE
  /\ turns' = turns + 1 /\ owed' = FALSE
  /\ UNCHANGED <<expects, speaker, muted, window, feed>>

OpenFollowup ==
  /\ Listening /\ window
  /\ loop' = "capture" /\ followup' = TRUE /\ window' = FALSE /\ attentive' = TRUE
  /\ turns' = turns + 1 /\ owed' = FALSE
  /\ UNCHANGED <<expects, speaker, muted, feed>>

\* The endpointer has the utterance.  Silence after an invitation is not an
\* error; otherwise it is said that nothing was heard, or understood.
Utterance ==
  /\ loop = "capture"
  /\ \/ loop' = "handle" /\ UNCHANGED expects
     \/ loop' = "reply" /\ expects' = FALSE
     \/ followup /\ loop' = "idle" /\ UNCHANGED expects
  /\ UNCHANGED <<followup, turns, sound, feed, owed>>

\* A dialog, the router and a handler; the user was just heard.
Handle ==
  /\ loop = "handle" /\ loop' = "reply"
  /\ expects' \in BOOLEAN /\ attentive' = TRUE
  /\ UNCHANGED <<followup, turns, speaker, muted, window, feed, owed>>

(***************************************************************************)
(* Speaking, under the lock.  Speech ends with the echo guard; a text that *)
(* cannot be synthesized is skipped, and what follows it still happens.    *)
(***************************************************************************)
Wants(who) ==
  IF who = "loop" THEN loop \in {"ack", "reply"} ELSE notifier # "nothing"

Inviting(who) ==
  IF who = "loop" THEN loop = "reply" /\ expects ELSE notifier = "requested"

AfterSpeech(who) ==
  /\ window' = (window \/ Inviting(who))
  /\ owed' = (owed \/ Inviting(who))
  /\ IF who = "loop"
     THEN loop' = (IF loop = "ack" THEN "capture" ELSE "idle") /\ UNCHANGED notifier
     ELSE notifier' = "nothing" /\ UNCHANGED loop
  /\ UNCHANGED <<expects, followup, turns, attentive, notices, told>>

Speak(who) ==
  /\ Wants(who) /\ speaker = "free" /\ speaker' = who
  /\ UNCHANGED <<mic, muted, window, attentive, feed, owed>>

Spoken(who) ==
  /\ speaker = who /\ speaker' = "free" /\ muted' = TRUE
  /\ AfterSpeech(who)

SynthesisFails(who) ==
  /\ Wants(who) /\ speaker = "free"
  /\ AfterSpeech(who)
  /\ UNCHANGED <<speaker, muted>>

(***************************************************************************)
(* Notifications: the cache's feed fills the queue, dropping what does not *)
(* fit; only what has a text is spoken, and only to an attentive user.     *)
(***************************************************************************)
\* Defect: put_nowait() on a queue without a size.
DeliverUnbounded(e) ==
  /\ told < MaxNotices /\ told' = told + 1
  /\ notices' = Append(notices, e)
  /\ UNCHANGED <<mic, sound, notifier, owed>>

Deliver(e) ==
  /\ told < MaxNotices /\ told' = told + 1
  /\ notices' = IF Len(notices) < NoticeLimit THEN Append(notices, e) ELSE notices
  /\ UNCHANGED <<mic, sound, notifier, owed>>

Announce ==
  /\ notifier = "nothing" /\ notices # <<>>
  /\ notices' = Tail(notices)
  /\ notifier' = IF attentive /\ Head(notices) # "closed" THEN Head(notices) ELSE "nothing"
  /\ UNCHANGED <<mic, sound, told, owed>>

(***************************************************************************)
(* Time.  The window is anchored after the cooldown.                       *)
(***************************************************************************)
CooldownEnds ==
  muted /\ muted' = FALSE /\ UNCHANGED <<mic, speaker, window, attentive, feed, owed>>

WindowCloses ==
  /\ window /\ ~muted /\ window' = FALSE /\ owed' = FALSE
  /\ UNCHANGED <<mic, speaker, muted, attentive, feed>>

AttentionLapses ==
  attentive /\ attentive' = FALSE /\ UNCHANGED <<mic, speaker, muted, window, feed, owed>>

Init ==
  /\ loop = "idle" /\ expects = FALSE /\ followup = FALSE /\ turns = 0
  /\ speaker = "free" /\ muted = FALSE /\ window = FALSE /\ attentive = FALSE
  /\ notices = <<>> /\ notifier = "nothing" /\ told = 0 /\ owed = FALSE

Next ==
  \/ Wake \/ OpenFollowup \/ Utterance \/ Handle
  \/ \E who \in {"loop", "notifier"} : Speak(who) \/ Spoken(who) \/ SynthesisFails(who)
  \/ (\E e \in Events : Deliver(e)) \/ Announce
  \/ CooldownEnds \/ WindowCloses \/ AttentionLapses

Spec == Init /\ [][Next]_vars

-----------------------------------------------------------------------------
TypeOK ==
  /\ loop \in {"idle", "ack", "capture", "handle", "reply"}
  /\ speaker \in {"free", "loop", "notifier"}
  /\ {expects, followup, muted, window, attentive, owed} \subseteq BOOLEAN
  /\ Len(notices) <= NoticeLimit /\ notifier \in Events \cup {"nothing"}
  /\ (speaker = "notifier" => notifier # "nothing")
  /\ (speaker = "loop" => loop \in {"ack", "reply"})

\* A microphone opened without the wake word answers an invitation: one
\* that was uttered, is not over, and was not taken up before (_invite_reply,
\* _followup_until).
CaptureIsInvited ==
  [][loop = "idle" /\ loop' = "capture" => owed /\ ~owed' /\ ~muted]_vars

=============================================================================
