------------------------------ MODULE NodeSync ------------------------------
(***************************************************************************)
(* Node sync (src/src/prodeo/machines/sync.py): the hub mirrors the event  *)
(* log of a paired machine.  One loop per machine record polls the         *)
(* machine's CCAN for the events after its cursor, folds each into the     *)
(* hub's read-models and republishes it on the hub's bus, whose recorder   *)
(* persists it.  The cursor is not stored: a loop starts at the newest     *)
(* event the hub's store holds for the node.                               *)
(*                                                                         *)
(* One node and one of its sessions.  An event is its position in the      *)
(* node's log; the log is served in that order (the node's recorder is     *)
(* taken not to be overtaken, see Sessions.tla).  The session as the hub   *)
(* shows it is the position of the last fact folded.                       *)
(***************************************************************************)
EXTENDS Naturals, Sequences, FiniteSets, SequencesExt

CONSTANTS
  Machines,   \* machine records (ULIDs) the node is paired under, in turn
  None,       \* no machine is paired
  BatchLimit, \* events per poll (500 in the code)
  Capacity,   \* of the hub recorder's queue (1024 in the code)
  MaxLog,     \* bound: length of the node's log
  MaxForeign, \* bound: events the node recorded under another node name
  MaxFaults   \* bound: hub restarts, dying loops, outages, unpairings

ASSUME NoneIsNoMachine == None \notin Machines

ASSUME SyncBounds ==
  /\ BatchLimit \in Nat \ {0}
  /\ Capacity \in Nat \ {0}
  /\ {MaxLog, MaxForeign, MaxFaults} \subseteq Nat

Kinds == {"runs", "ends", "activity"}
SessionFacts == {"runs", "ends"}

VARIABLES
  log,        \* the node's event log: what each event is, and whether it
              \*   carries the node name the machine was paired under
  reachable,  \* does the node answer?
  machine,    \* the machine record the node is paired under, or None
  loops,      \* _tasks: machine -> its sync loop
  queue,      \* positions on the hub recorder's queue
  stored,     \* positions in the hub's store
  view,       \* last session fact folded into the hub's registry, 0 if none
  furthest,   \* newest session fact folded since the hub booted
  archived,   \* does the hub's registry show the session archived by itself?
  archivedAt, \* the hub's own archive fact: the view it was made at
  faults

node == <<log, reachable>>
readModel == <<view, furthest, archived>>
vars == <<node, machine, loops, queue, stored, readModel, archivedAt, faults>>

NoLoop == [at |-> "none", cursor |-> 0, batch |-> <<>>]

Own(p) == log[p].own
IsFact(p) == Own(p) /\ log[p].kind \in SessionFacts
OwnFacts == {p \in DOMAIN log : IsFact(p)}

\* The greatest of some positions, 0 if there is none.
Newest(ps) == IF ps = {} THEN 0 ELSE CHOOSE p \in ps : \A q \in ps : q <= p

Init ==
  /\ log = <<>>
  /\ reachable = TRUE
  /\ machine = None
  /\ loops = [m \in Machines |-> NoLoop]
  /\ queue = <<>>
  /\ stored = {}
  /\ view = 0
  /\ furthest = 0
  /\ archived = FALSE
  /\ archivedAt = 0
  /\ faults = 0

Fault ==
  /\ faults < MaxFaults
  /\ faults' = faults + 1

-----------------------------------------------------------------------------
(* The node *)

\* An event reaches the node's store.  Those recorded before the node was
\* renamed carry another node name and come first.
NodeRecords(kind, own) ==
  /\ Len(log) < MaxLog
  /\ own \/ /\ Len(log) < MaxForeign
            /\ \A p \in DOMAIN log : ~Own(p)
  /\ log' = Append(log, [kind |-> kind, own |-> own])
  /\ UNCHANGED <<reachable, machine, loops, queue, stored, readModel, archivedAt, faults>>

Disconnect ==
  /\ reachable
  /\ Fault
  /\ reachable' = FALSE
  /\ UNCHANGED <<log, machine, loops, queue, stored, readModel, archivedAt>>

Reconnect ==
  /\ ~reachable
  /\ reachable' = TRUE
  /\ UNCHANGED <<log, machine, loops, queue, stored, readModel, archivedAt, faults>>

-----------------------------------------------------------------------------
(* The machine catalogue and the supervision of the loops *)

\* add(): a record of its own each time the node is paired.
Pair(m) ==
  /\ machine = None
  /\ loops[m].at = "none"
  /\ machine' = m
  /\ UNCHANGED <<node, loops, queue, stored, readModel, archivedAt, faults>>

\* remove()
Unpair ==
  /\ machine # None
  /\ Fault
  /\ machine' = None
  /\ UNCHANGED <<node, loops, queue, stored, readModel, archivedAt>>

\* Defect: the cursor of a new loop is the newest event the hub has seen, not
\* the newest it holds.
ReconcileFromView ==
  /\ loops' = [m \in Machines |->
       IF m # machine THEN NoLoop
       ELSE IF loops[m].at = "none" THEN [at |-> "poll", cursor |-> view + 1, batch |-> <<>>]
       ELSE loops[m]]
  /\ UNCHANGED <<node, machine, queue, stored, readModel, archivedAt, faults>>

\* _reconcile(): cancel the loops of removed machines, wherever they are, and
\* start one for the paired machine if none runs; _initial_cursor().
Reconcile ==
  /\ loops' = [m \in Machines |->
       IF m # machine THEN NoLoop
       ELSE IF loops[m].at = "none"
         THEN [at |-> "poll", cursor |-> Newest(stored), batch |-> <<>>]
       ELSE loops[m]]
  /\ UNCHANGED <<node, machine, queue, stored, readModel, archivedAt, faults>>

\* An error that is not a ProdeoError ends the task.
LoopDies(m) ==
  /\ loops[m].at # "none"
  /\ Fault
  /\ loops' = [loops EXCEPT ![m] = NoLoop]
  /\ UNCHANGED <<node, machine, queue, stored, readModel, archivedAt>>

-----------------------------------------------------------------------------
(* One loop *)

\* The page of the log after a cursor.
Page(cursor) ==
  LET last == IF Len(log) < cursor + BatchLimit THEN Len(log) ELSE cursor + BatchLimit
  IN [k \in 1 .. last - cursor |-> cursor + k]

\* _fetch(): a long poll returns a page; empty, or the node unreachable, the
\* loop polls again.
Poll(m) ==
  /\ loops[m].at = "poll"
  /\ machine = m
  /\ reachable
  /\ Page(loops[m].cursor) # <<>>
  /\ loops' = [loops EXCEPT ![m].at = "apply", ![m].batch = Page(loops[m].cursor)]
  /\ UNCHANGED <<node, machine, queue, stored, readModel, archivedAt, faults>>

\* The machine was removed: the loop returns at the next poll.
PollRemoved(m) ==
  /\ loops[m].at = "poll"
  /\ machine # m
  /\ loops' = [loops EXCEPT ![m] = NoLoop]
  /\ UNCHANGED <<node, machine, queue, stored, readModel, archivedAt, faults>>

\* The rest of the batch, or the next poll.
Advance(m, cursor) ==
  loops' = [loops EXCEPT ![m] =
    [at |-> IF Len(loops[m].batch) = 1 THEN "poll" ELSE "apply",
     cursor |-> cursor,
     batch |-> Tail(loops[m].batch)]]

\* An event of another node name is dropped; the cursor stays.
DropForeign(m) ==
  /\ loops[m].at = "apply"
  /\ ~Own(Head(loops[m].batch))
  /\ Advance(m, loops[m].cursor)
  /\ UNCHANGED <<node, machine, queue, stored, readModel, archivedAt, faults>>

\* apply_remote(): fold a session fact.
Fold(p) ==
  IF IsFact(p)
    THEN /\ view' = p
         /\ archived' = FALSE
         /\ furthest' = IF furthest < p THEN p ELSE furthest
    ELSE UNCHANGED readModel

\* Defect: the cursor moves before the publish.
PublishRemoteEarly(m) ==
  /\ loops[m].at = "apply"
  /\ LET p == Head(loops[m].batch)
     IN /\ Own(p)
        /\ Fold(p)
        /\ Advance(m, p)
        /\ queue' = IF Len(queue) < Capacity THEN Append(queue, p) ELSE queue
  /\ UNCHANGED <<node, machine, stored, archivedAt, faults>>

\* Fold first, then publish.  On a full queue the loop waits inside publish().
PublishRemote(m) ==
  /\ loops[m].at = "apply"
  /\ LET p == Head(loops[m].batch)
     IN /\ Own(p)
        /\ Fold(p)
        /\ IF Len(queue) < Capacity
             THEN Advance(m, p) /\ queue' = Append(queue, p)
             ELSE loops' = [loops EXCEPT ![m].at = "blocked"] /\ UNCHANGED queue
  /\ UNCHANGED <<node, machine, stored, archivedAt, faults>>

PublishReturns(m) ==
  /\ loops[m].at = "blocked"
  /\ Len(queue) < Capacity
  /\ queue' = Append(queue, Head(loops[m].batch))
  /\ Advance(m, Head(loops[m].batch))
  /\ UNCHANGED <<node, machine, stored, readModel, archivedAt, faults>>

-----------------------------------------------------------------------------
(* The hub *)

\* The recorder appends; the store ignores an id it has (INSERT OR IGNORE).
Record ==
  /\ queue # <<>>
  /\ stored' = stored \cup {Head(queue)}
  /\ queue' = Tail(queue)
  /\ UNCHANGED <<node, machine, loops, readModel, archivedAt, faults>>

\* Defect: retention deletes session facts too.
ExpireAnything ==
  /\ \E p \in stored : stored' = stored \ {p}
  /\ Fault
  /\ UNCHANGED <<node, machine, loops, queue, readModel, archivedAt>>

\* Retention deletes events of unprotected types, the oldest first.
Expire ==
  /\ \E p \in stored :
       /\ ~IsFact(p)
       /\ \A q \in stored : q < p => IsFact(q)
       /\ stored' = stored \ {p}
  /\ Fault
  /\ UNCHANGED <<node, machine, loops, queue, readModel, archivedAt>>

\* POST /api/sessions/{id}/archive: the hub's registry moves a finished
\* session to archived, whichever node owns it.
HubArchives ==
  /\ view # 0
  /\ log[view].kind = "ends"
  /\ ~archived
  /\ archived' = TRUE
  /\ archivedAt' = view
  /\ UNCHANGED <<node, machine, loops, queue, stored, view, furthest, faults>>

\* Defect: the read-models start empty.
RestartForgets ==
  /\ Fault
  /\ loops' = [m \in Machines |-> NoLoop]
  /\ queue' = <<>>
  /\ view' = 0
  /\ furthest' = 0
  /\ archived' = FALSE
  /\ UNCHANGED <<node, machine, stored, archivedAt>>

\* The hub goes down and boots: its registry is folded from its store.
HubRestarts ==
  /\ Fault
  /\ loops' = [m \in Machines |-> NoLoop]
  /\ queue' = <<>>
  /\ view' = Newest(stored \cap OwnFacts)
  /\ furthest' = view'
  /\ archived' = (0 < view' /\ view' <= archivedAt)
  /\ UNCHANGED <<node, machine, stored, archivedAt>>

-----------------------------------------------------------------------------

Next ==
  \/ \E kind \in Kinds, own \in BOOLEAN : NodeRecords(kind, own)
  \/ Disconnect \/ Reconnect
  \/ \E m \in Machines :
       \/ Pair(m) \/ LoopDies(m) \/ Poll(m) \/ PollRemoved(m)
       \/ DropForeign(m) \/ PublishRemote(m) \/ PublishReturns(m)
  \/ Unpair
  \/ Reconcile
  \/ Record \/ Expire \/ HubArchives \/ HubRestarts

Spec == Init /\ [][Next]_vars

\* The supervisor reconciles on a timer, every ready task runs, the recorder
\* drains its queue and an outage ends.  Nothing else is promised.
Fairness ==
  /\ WF_vars(Reconnect)
  /\ WF_vars(Reconcile)
  /\ WF_vars(Record)
  /\ \A m \in Machines :
       /\ WF_vars(Poll(m))
       /\ WF_vars(DropForeign(m))
       /\ WF_vars(PublishRemote(m))
       /\ WF_vars(PublishReturns(m))

FairSpec == Spec /\ Fairness

-----------------------------------------------------------------------------

Loops == [at: {"none", "poll", "apply", "blocked"}, cursor: 0 .. MaxLog,
          batch: Seq(1 .. MaxLog)]

\* Type invariant of the node's log, the loops and the hub's store.
TypeOK ==
  /\ log \in Seq([kind: Kinds, own: BOOLEAN])
  /\ Len(log) <= MaxLog
  /\ reachable \in BOOLEAN
  /\ machine \in Machines \cup {None}
  /\ loops \in [Machines -> Loops]
  /\ queue \in Seq(1 .. MaxLog)
  /\ stored \subseteq 1 .. MaxLog
  /\ {view, furthest} \subseteq 0 .. MaxLog
  /\ archived \in BOOLEAN
  /\ archivedAt \in 0 .. MaxLog
  /\ faults \in 0 .. MaxFaults

\* The hub's copy has no holes: when it holds a fact of the node it holds
\* every earlier one, whatever restarted, was unpaired or was cancelled in
\* the middle of a batch, and although the cursor is read off the copy.
MirrorHasNoGaps ==
  \A p, q \in OwnFacts : (q \in stored /\ p < q) => p \in stored

\* "Folds never see a fact before its antecedents" (sync.py:9): whatever fact
\* of its node the hub comes to show of a session, it has folded every earlier
\* one since it booted.  It may go back to facts it has folded before, and on
\* from there without them.
FoldsInOrder ==
  [][\A p \in OwnFacts : p < view' => p <= furthest]_<<view>>

\* A node that stays paired is mirrored completely: at some point the hub
\* holds and has folded all its facts, for ever, and shows its session as it is;
\* but with two disturbances it may go on showing an earlier state, a loop that
\* folds old facts again having been stopped before it got to the newest.  The
\* node has recorded fewer events under another name than a page holds.
MirrorConverges ==
  <>[](machine = None \/ /\ OwnFacts \subseteq stored
                         /\ furthest = Newest(OwnFacts)
                         /\ view = furthest \/ faults > 1)

\* "The remote registry stays the only *writer* for its sessions"
\* (sessions/registry.py:260): with every fact of the node folded, the hub
\* shows the state the node's own registry has.
TheirStateOnly ==
  view = Newest(OwnFacts) => ~archived

=============================================================================
