----------------------------- MODULE Retention -----------------------------
(***************************************************************************)
(* A retention pass (src/src/prodeo/persistence/retention.py) over the     *)
(* event log (persistence/sqlite.py), while events arrive, also late ones  *)
(* mirrored from a paired machine (machines/sync.py), and while the hub    *)
(* crashes and restarts.                                                   *)
(*                                                                         *)
(* An event is the instant of its id.  A mirrored event is fetched and     *)
(* stored in one step; both are separate steps in NodeSync.                *)
(***************************************************************************)
EXTENDS Naturals, Sequences, FiniteSets, FiniteSetsExt

CONSTANTS
  Rules,       \* PRODEO_RETENTION_RULES: [types, age, archive]
  Types,       \* event types
  Protected,   \* those in the namespaces of PROTECTED_PREFIXES
  BatchSize,   \* events per page of a pass (500 in the code)
  MaxInstants, \* bound of the clock
  MaxCrashes   \* bound of the crashes of the hub

VARIABLES
  born,      \* per instant, the event created then: its node and type
  mirrored,  \* events of the other node that the hub has fetched
  log,       \* the events table
  cursor,    \* node sync's cursor: the last event mirrored
  archive,   \* per event, its copies in the gzip archives
  pass,      \* run_once(): where it is, its instant, rule, cursor and batch
  expired,   \* history: events deleted, with the rule that deleted them
  crashes

vars == <<born, mirrored, log, cursor, archive, pass, expired, crashes>>

RetentionBounds ==
  /\ Rules \in Seq([types : SUBSET Types, age : Nat, archive : BOOLEAN])
  /\ {MaxInstants, MaxCrashes} \subseteq Nat

Now == Len(born)
Instants == 1 .. MaxInstants
Silence == [node |-> "none", type |-> "none"]
Happening == [node : {"hub", "other"}, type : Types] \cup {Silence}
Idle == [at |-> "idle", now |-> 0, rule |-> 0, cursor |-> 0, batch |-> {}]

Init ==
  /\ born = <<>>
  /\ mirrored = {}
  /\ log = {}
  /\ cursor = 0
  /\ archive = [e \in Instants |-> 0]
  /\ pass = Idle
  /\ expired = {}
  /\ crashes = 0

-----------------------------------------------------------------------------

\* An instant passes, in which the hub or the other node publishes an event.
Instant ==
  \E e \in Happening :
    /\ Now < MaxInstants
    /\ born' = Append(born, e)
    /\ log' = IF e.node = "hub" THEN log \cup {Now + 1} ELSE log
    /\ UNCHANGED <<mirrored, cursor, archive, pass, expired, crashes>>

OfOther == {e \in DOMAIN born : born[e].node = "other"}

\* The loop of node sync: the next event after the cursor is published, and
\* recorded unless the log has it.
Mirror ==
  LET after == {e \in OfOther : e > cursor}
  IN /\ after # {}
     /\ cursor' = Min(after)
     /\ log' = log \cup {Min(after)}
     /\ mirrored' = mirrored \cup {Min(after)}
     /\ UNCHANGED <<born, archive, pass, expired, crashes>>

-----------------------------------------------------------------------------

\* run_once()
StartPass ==
  /\ pass.at = "idle"
  /\ Rules # <<>>
  /\ pass' = [Idle EXCEPT !.at = "walking", !.now = Now, !.rule = 1]
  /\ UNCHANGED <<born, mirrored, log, cursor, archive, expired, crashes>>

\* EventStore.query(): what a rule expires, as many events as a page takes.
Page(rule) ==
  LET found == {e \in log : /\ e > pass.cursor
                            /\ e + rule.age < pass.now
                            /\ born[e].type \in rule.types}
  IN {e \in found : Cardinality({f \in found : f < e}) < BatchSize}

Expendable(events) == {e \in events : born[e].type \notin Protected}

\* EventStore.delete() of the batch, in one transaction.
Delete(batch) ==
  /\ log' = log \ batch
  /\ expired' = expired \cup {[event |-> e, rule |-> pass.rule] : e \in batch \cap log}

\* Defect: deleted as soon as the page is known, archived after that.
NextPageDeletes ==
  LET page == Page(Rules[pass.rule])
  IN /\ pass.at = "walking"
     /\ page # {}
     /\ Delete(Expendable(page))
     /\ pass' = [pass EXCEPT !.cursor = Max(page), !.batch = Expendable(page), !.at = "archiving"]
     /\ UNCHANGED <<born, mirrored, cursor, archive, crashes>>

\* The loop of _apply_rule(): the next page, or the next rule.
NextPage ==
  LET rule == Rules[pass.rule]
      page == Page(rule)
  IN /\ pass.at = "walking"
     /\ pass' =
          IF page = {}
            THEN IF pass.rule = Len(Rules) THEN Idle
                 ELSE [pass EXCEPT !.rule = @ + 1, !.cursor = 0]
            ELSE [pass EXCEPT !.cursor = Max(page),
                              !.batch = Expendable(page),
                              !.at = IF Expendable(page) = {} THEN "walking"
                                     ELSE IF rule.archive THEN "archiving" ELSE "deleting"]
     /\ UNCHANGED <<born, mirrored, log, cursor, archive, expired, crashes>>

\* _archive_events() has written the batch up to an event.
Archived(last) ==
  archive' = [e \in Instants |->
    archive[e] + (IF e \in pass.batch /\ e <= last THEN 1 ELSE 0)]

ArchiveBatch ==
  /\ pass.at = "archiving"
  /\ Archived(MaxInstants)
  /\ pass' = [pass EXCEPT !.at = "deleting"]
  /\ UNCHANGED <<born, mirrored, log, cursor, expired, crashes>>

\* The disk is full: the pass ends where it is, and the next begins anew.
ArchiveFails ==
  \E last \in {0} \cup pass.batch :
    /\ pass.at = "archiving"
    /\ crashes < MaxCrashes
    /\ crashes' = crashes + 1
    /\ Archived(last)
    /\ pass' = Idle
    /\ UNCHANGED <<born, mirrored, log, cursor, expired>>

DeleteBatch ==
  /\ pass.at = "deleting"
  /\ Delete(pass.batch)
  /\ pass' = [pass EXCEPT !.at = "walking", !.batch = {}]
  /\ UNCHANGED <<born, mirrored, cursor, archive, crashes>>

\* The hub crashes and restarts: a pass ends where it is, and node sync takes
\* the newest event it still holds of the other node for its cursor.
Crash ==
  \E last \in {0} \cup pass.batch :
    /\ crashes < MaxCrashes
    /\ crashes' = crashes + 1
    /\ last > 0 => pass.at = "archiving"
    /\ Archived(last)
    /\ pass' = Idle
    /\ cursor' = Max({0} \cup (log \cap OfOther))
    /\ UNCHANGED <<born, mirrored, log, expired>>

-----------------------------------------------------------------------------

Next ==
  \/ Instant \/ Mirror
  \/ StartPass \/ NextPage \/ ArchiveBatch \/ ArchiveFails \/ DeleteBatch
  \/ Crash

Spec == Init /\ [][Next]_vars

-----------------------------------------------------------------------------

\* Type invariant of the log, the archive and the pass.
TypeOK ==
  /\ born \in Seq(Happening) /\ Now <= MaxInstants
  /\ log \subseteq DOMAIN born /\ mirrored \subseteq OfOther
  /\ cursor \in 0 .. Now
  /\ archive \in [Instants -> Nat]
  /\ pass \in [at : {"idle", "walking", "archiving", "deleting"}, now : 0 .. MaxInstants,
               rule : 0 .. Len(Rules), cursor : 0 .. MaxInstants, batch : SUBSET Instants]
  /\ expired \subseteq [event : Instants, rule : DOMAIN Rules]
  /\ crashes \in 0 .. MaxCrashes

\* "Expired events are appended to monthly gzip JSONL archives before deletion"
\* and what the core rebuilds its state from is never deleted
\* (retention.py:6-15): an event that was published here or mirrored is in the
\* log, or expired under a rule older than it and archived if the rule says so,
\* whenever the hub crashed or the disk was full.
NothingLost ==
  \A e \in mirrored \cup {i \in DOMAIN born : born[i].node = "hub"} :
    \/ e \in log
    \/ /\ born[e].type \notin Protected
       /\ \E x \in expired : /\ x.event = e
                             /\ e + Rules[x.rule].age < Now
                             /\ Rules[x.rule].archive => archive[e] > 0

=============================================================================
