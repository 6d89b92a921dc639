-------------------------------- MODULE Hook --------------------------------
(***************************************************************************)
(* The PermissionRequest hook of Claude Code (hook.py, ADR-0011) against   *)
(* POST /api/interactions/external (api/app.py).  A hook is a process that *)
(* lives for one permission prompt: it steps aside when somebody is at the *)
(* machine, else a thread of it waits for the server's answer while the    *)
(* hook watches for input.  The server opens an interaction for the        *)
(* request, the card, and polls it and the requester's connection.         *)
(*                                                                         *)
(* Time is counted in ticks since a hook started.  A tick waits for what   *)
(* the code does within a poll interval (Due), as a second is far shorter  *)
(* than the three time-outs, of which only the order matters.              *)
(***************************************************************************)
EXTENDS Naturals

CONSTANTS
  Hooks,        \* invocations of the hook
  Timeout,      \* PRODEO_HOOK_TIMEOUT_S: the interaction's time-out (570 s)
  Grace,        \* HTTP_GRACE_S: how much longer the hook waits (15 s)
  Cap,          \* Claude Code's own limit on a hook (600 s)
  MaxDowns      \* bound: crashes of the server

\* The deadline is "< Claude Code's 600s hook cap, with margin" (hook.py:40).
HookBounds ==
  /\ {Timeout, Grace, Cap, MaxDowns} \subseteq Nat
  /\ Timeout + Grace < Cap

Ends == {"prompt", "allow", "deny", "killed"}
Settled == {"answered", "timed_out", "cancelled"}
\* "unmatched" answers a question with words that match no option.
Answers == {"allow", "deny", "unmatched"}

VARIABLES
  present,   \* somebody touched the machine within the threshold
  hook,      \* hook -> "none" | "asking" | how it ended
  age,       \* hook -> ticks since it started
  request,   \* the worker thread: "none" | "posted" | "replied" | "failed"
  reply,     \* hook -> [status, answer] of the response
  endpoint,  \* the request handler: "none" | "polling" | "done"
  card,      \* hook -> its interaction: "none" | "pending" | settled
  answer,    \* hook -> the human's answer, "none" before
  left,      \* hook -> ticks left of the interaction's time-out
  server,    \* "up" | "down"
  downs      \* crashes so far

local == <<hook, age, request, reply>>
remote == <<endpoint, card, answer, left>>
vars == <<present, local, remote, server, downs>>

NoReply == [status |-> "none", answer |-> "none"]

Init ==
  /\ present \in BOOLEAN
  /\ hook = [h \in Hooks |-> "none"]
  /\ age = [h \in Hooks |-> 0]
  /\ request = [h \in Hooks |-> "none"]
  /\ reply = [h \in Hooks |-> NoReply]
  /\ endpoint = [h \in Hooks |-> "none"]
  /\ card = [h \in Hooks |-> "none"]
  /\ answer = [h \in Hooks |-> "none"]
  /\ left = [h \in Hooks |-> 0]
  /\ server = "up"
  /\ downs = 0

Asking(h) == hook[h] = "asking"
Waiting(h) == Asking(h) /\ request[h] = "posted"

\* The process ends and its connection with it.
End(h, how) ==
  /\ hook' = [hook EXCEPT ![h] = how]
  /\ UNCHANGED <<present, age, request, reply, remote, server, downs>>

-----------------------------------------------------------------------------
(* The hook's process *)

\* A permission prompt is about to show.  A managed session, a payload that
\* is no permission request and a person at the machine end the hook at once.
Invoke(h) ==
  /\ hook[h] = "none"
  /\ \/ /\ hook' = [hook EXCEPT ![h] = "prompt"]
        /\ UNCHANGED request
     \/ /\ ~present
        /\ hook' = [hook EXCEPT ![h] = "asking"]
        /\ request' = [request EXCEPT ![h] = "posted"]
  /\ UNCHANGED <<present, age, reply, remote, server, downs>>

\* Connect or HTTP errors: the server is down or answers with an error.
RequestFails(h) ==
  /\ Waiting(h)
  /\ server = "down" \/ endpoint[h] = "none"
  /\ request' = [request EXCEPT ![h] = "failed"]
  /\ UNCHANGED <<present, hook, age, reply, remote, server, downs>>

\* Defect: anything but a denial lets the tool run.
DecisionOutputLoose(r) ==
  IF r.status = "answered" /\ r.answer = "deny" THEN "deny"
  ELSE IF r.status \in {"answered", "timed_out"} THEN "allow" ELSE "prompt"

\* decision_output(): only an explicit answer produces output, see Questions.
DecisionOutput(r) ==
  IF r.status = "answered" /\ r.answer \in {"allow", "deny"} THEN r.answer ELSE "prompt"

\* The worker is done: its response decides, an error falls through.
WorkerDone(h) == Asking(h) /\ request[h] \in {"replied", "failed"}
HookReads(h) ==
  /\ WorkerDone(h)
  /\ End(h, IF request[h] = "replied" THEN DecisionOutput(reply[h]) ELSE "prompt")

\* Input resumed while the request is under way: the client is closed.
ReturnToStation(h) ==
  /\ Waiting(h)
  /\ present
  /\ End(h, "prompt")

\* Defect: the deadline allows for the answer to arrive at Claude Code's cap.
OverdueLate(h) == Waiting(h) /\ age[h] >= Timeout + Cap

\* The deadline of the loop, which is also the client's read time-out.
Overdue(h) == Waiting(h) /\ age[h] >= Timeout + Grace
Deadline(h) ==
  /\ Overdue(h)
  /\ End(h, "prompt")

\* Claude Code kills the hook: its dialog was answered in the terminal, its
\* session ended, or the hook reached the cap.
Kill(h) ==
  /\ Asking(h)
  /\ End(h, "killed")

InputChanges ==
  /\ present' = ~present
  /\ UNCHANGED <<local, remote, server, downs>>

-----------------------------------------------------------------------------
(* The server *)

\* external_interaction() up to its poll: the session is found, at once or by
\* a discovery, and the interaction opened.  An unknown session is an error.
Open(h) ==
  /\ server = "up"
  /\ Waiting(h)
  /\ endpoint[h] = "none"
  /\ endpoint' = [endpoint EXCEPT ![h] = "polling"]
  /\ card' = [card EXCEPT ![h] = "pending"]
  /\ left' = [left EXCEPT ![h] = Timeout]
  /\ UNCHANGED <<present, local, answer, server, downs>>

Unsettled(h) == server = "up" /\ card[h] = "pending"
Settle(h, status) ==
  /\ Unsettled(h)
  /\ card' = [card EXCEPT ![h] = status]

\* A human answers the card.
Answer(h, a) ==
  /\ Settle(h, "answered")
  /\ answer' = [answer EXCEPT ![h] = a]
  /\ UNCHANGED <<present, local, endpoint, left, server, downs>>

\* The interaction's timer.
TimeOut(h) ==
  /\ left[h] = 0
  /\ Settle(h, "timed_out")
  /\ UNCHANGED <<present, local, endpoint, answer, left, server, downs>>

\* The response of a finished poll; a requester that is gone does not get it.
Respond(h, response) ==
  /\ endpoint' = [endpoint EXCEPT ![h] = "done"]
  /\ IF Waiting(h)
       THEN /\ request' = [request EXCEPT ![h] = "replied"]
            /\ reply' = [reply EXCEPT ![h] = response]
       ELSE UNCHANGED <<request, reply>>

\* A poll finds the interaction settled.
Found(h) == endpoint[h] = "polling" /\ card[h] \in Settled
\* Defect: the response carries an outcome without looking at its status.
PollSettledCarelessly(h) ==
  /\ Found(h)
  /\ Respond(h, [status |-> "answered", answer |-> IF answer[h] = "none" THEN "deny" ELSE answer[h]])
  /\ UNCHANGED <<present, hook, age, card, answer, left, server, downs>>

PollSettled(h) ==
  /\ Found(h)
  /\ Respond(h, [status |-> card[h], answer |-> answer[h]])
  /\ UNCHANGED <<present, hook, age, card, answer, left, server, downs>>

\* withdraw_external_interaction()
Withdraw(h) ==
  /\ Settle(h, "cancelled")
  /\ endpoint' = [endpoint EXCEPT ![h] = "done"]
  /\ UNCHANGED <<present, local, answer, left, server, downs>>

\* A poll finds the interaction pending and the requester gone.
Abandoned(h) == endpoint[h] = "polling" /\ ~Asking(h)
PollDisconnected(h) ==
  /\ Abandoned(h)
  /\ Withdraw(h)

\* The process dies; connections are cut.
Crash ==
  /\ server = "up"
  /\ downs < MaxDowns
  /\ downs' = downs + 1
  /\ server' = "down"
  /\ endpoint' = [h \in Hooks |-> IF endpoint[h] = "none" THEN "none" ELSE "done"]
  /\ request' = [h \in Hooks |-> IF endpoint[h] = "polling" /\ request[h] = "posted" THEN "failed"
                                 ELSE request[h]]
  /\ UNCHANGED <<present, hook, age, reply, card, answer, left>>

\* Defect: what was pending before the crash is pending again.
BootKeepsPending ==
  /\ server = "down"
  /\ server' = "up"
  /\ UNCHANGED <<present, local, remote, downs>>

\* The server is started again: what was pending is cancelled (Mediation).
Boot ==
  /\ server = "down"
  /\ server' = "up"
  /\ card' = [h \in Hooks |-> IF card[h] = "pending" THEN "cancelled" ELSE card[h]]
  /\ UNCHANGED <<present, local, endpoint, answer, left, downs>>

-----------------------------------------------------------------------------

\* What the two processes do within a poll interval, a tick waits for.
Due ==
  \E h \in Hooks :
    \/ WorkerDone(h) \/ Overdue(h) \/ (Waiting(h) /\ present)
    \/ Found(h)
    \/ Unsettled(h) /\ (Abandoned(h) \/ left[h] = 0)

Tick ==
  /\ ~Due
  /\ \E h \in Hooks : Asking(h) /\ age[h] < Cap
  /\ age' = [h \in Hooks |-> IF Asking(h) /\ age[h] < Cap THEN age[h] + 1 ELSE age[h]]
  /\ left' = [h \in Hooks |-> IF card[h] = "pending" /\ left[h] > 0 THEN left[h] - 1 ELSE left[h]]
  /\ UNCHANGED <<present, hook, request, reply, endpoint, card, answer, server, downs>>

Next ==
  \/ \E h \in Hooks :
       \/ Invoke(h) \/ RequestFails(h) \/ HookReads(h) \/ ReturnToStation(h)
       \/ Deadline(h) \/ Kill(h)
       \/ Open(h) \/ (\E a \in Answers : Answer(h, a)) \/ TimeOut(h)
       \/ PollSettled(h) \/ PollDisconnected(h)
  \/ InputChanges \/ Crash \/ Boot \/ Tick

Spec == Init /\ [][Next]_vars

\* The event loop and the operating system run what can run; nobody has to
\* answer, to kill a hook or to start a server again.
Fairness ==
  /\ WF_vars(Tick)
  /\ \A h \in Hooks :
       /\ WF_vars(HookReads(h)) /\ WF_vars(Deadline(h)) /\ WF_vars(ReturnToStation(h))
       /\ WF_vars(PollSettled(h)) /\ WF_vars(PollDisconnected(h)) /\ WF_vars(TimeOut(h))

LiveSpec == Spec /\ Fairness

-----------------------------------------------------------------------------

\* Type invariant.
TypeOK ==
  /\ present \in BOOLEAN
  /\ hook \in [Hooks -> {"none", "asking"} \cup Ends]
  /\ age \in [Hooks -> 0 .. Cap]
  /\ request \in [Hooks -> {"none", "posted", "replied", "failed"}]
  /\ reply \in [Hooks -> [status: Settled \cup {"none"}, answer: Answers \cup {"none"}]]
  /\ endpoint \in [Hooks -> {"none", "polling", "done"}]
  /\ card \in [Hooks -> {"none", "pending"} \cup Settled]
  /\ answer \in [Hooks -> Answers \cup {"none"}]
  /\ left \in [Hooks -> 0 .. Timeout]
  /\ server \in {"up", "down"}
  /\ downs \in 0 .. MaxDowns

\* A hook speaks only for a human: it allows or denies what a human allowed or
\* denied on its own card, and nothing else, an expired or withdrawn card, an
\* error, a crash, ever comes out as a decision (hook.py, "fail-open").
SpeaksForAHuman ==
  \A h \in Hooks :
    hook[h] \in {"allow", "deny"} => card[h] = "answered" /\ answer[h] = hook[h]

\* A hook is out of the way before Claude Code would kill it, whatever the
\* server does, also when it dies or never opens a card.
EndsBeforeCap == \A h \in Hooks : Asking(h) => age[h] < Cap

\* A card outlives its hook by a poll at most: nobody is left a card of an
\* agent that went on, unless the server is down.
CardGoes ==
  \A h \in Hooks :
    (card[h] = "pending" /\ ~Asking(h)) ~> (card[h] # "pending" \/ server = "down")

=============================================================================
