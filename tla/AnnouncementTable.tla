------------------------- MODULE AnnouncementTable -------------------------
(***************************************************************************)
(* The announcements table of app/db.py: the only thing the web handlers   *)
(* and the player thread share across a restart.  Each operation below is  *)
(* one SQL statement, or one BEGIN IMMEDIATE transaction, and so is one    *)
(* atomic step; the modules that extend this one say who performs it and   *)
(* when.                                                                   *)
(*                                                                         *)
(* A row is kept as one entry of each of three functions.  Timestamps,     *)
(* error texts and durations are left out: no decision reads them.         *)
(***************************************************************************)
EXTENDS Integers, FiniteSets

CONSTANTS
  MaxRows,   \* Bound: how many rows are ever inserted.
  Person,    \* Accounts.
  Clip,      \* Sound files that can be played as announcements.
  None,      \* SQL NULL and Python None.
  Unknown    \* The text "unknown" in stopped_by.

ASSUME RowsAssumption == MaxRows \in Nat \ {0}
ASSUME NullAssumption == /\ None \notin Person \cup Clip
                         /\ Unknown \notin Person
                         /\ None # Unknown
                         /\ None \notin Nat

Id == 1 .. MaxRows

Terminal == {"done", "failed", "stopped", "interrupted"}

(* "none": the id has not been handed out yet.  "purged": the row was      *)
(* deleted; AUTOINCREMENT never hands its id out again.                    *)
RowState == {"none", "queued", "playing", "purged"} \cup Terminal

Spoken == {"announcement", "drill", "scheduled", "startup"}

Content == [owner    : Person \cup {None},
            priority : 0 .. 1,
            kind     : Spoken \cup {"sound", "test"},
            clip     : Clip \cup {None},
            chime    : BOOLEAN]

ASSUME NoRowAssumption == None \notin Content

Row(owner, priority, kind, clip, chime) ==
  [owner |-> owner, priority |-> priority, kind |-> kind, clip |-> clip, chime |-> chime]

VARIABLES
  state,      \* [Id -> RowState]
  content,    \* [Id -> Content \cup {None}], None once the row is gone
  stoppedBy,  \* [Id -> Person \cup {Unknown, None}], the stopped_by column
  nextId      \* the next AUTOINCREMENT value

table == <<state, content, stoppedBy, nextId>>

TableInit ==
  /\ state = [i \in Id |-> "none"]
  /\ content = [i \in Id |-> None]
  /\ stoppedBy = [i \in Id |-> None]
  /\ nextId = 1

TableTypeOK ==
  /\ state \in [Id -> RowState]
  /\ content \in [Id -> Content \cup {None}]
  /\ stoppedBy \in [Id -> Person \cup {Unknown, None}]
  /\ nextId \in 1 .. MaxRows + 1

----------------------------------------------------------------------------
(* Reads.                                                                  *)

Present(i) == state[i] \notin {"none", "purged"}

Queued == {i \in Id : state[i] = "queued"}

\* Mutant of Ahead: the id order reversed inside a tier.
AheadLifo(i, j) ==
  \/ content[i].priority > content[j].priority
  \/ content[i].priority = content[j].priority /\ i > j

\* ORDER BY priority DESC, id ASC.
Ahead(i, j) ==
  \/ content[i].priority > content[j].priority
  \/ content[i].priority = content[j].priority /\ i < j

IsHead(i) == i \in Queued /\ \A j \in Queued \ {i} : Ahead(i, j)

----------------------------------------------------------------------------
(* Writes.                                                                 *)

Enqueue(c) ==
  /\ nextId <= MaxRows
  /\ state' = [state EXCEPT ![nextId] = "queued"]
  /\ content' = [content EXCEPT ![nextId] = c]
  /\ nextId' = nextId + 1
  /\ UNCHANGED stoppedBy

ClaimNext(i) ==
  /\ IsHead(i)
  /\ state' = [state EXCEPT ![i] = "playing"]
  /\ UNCHANGED <<content, stoppedBy, nextId>>

(* The two UPDATEs of the player do not look at the state they overwrite;  *)
(* on a row that has been deleted they change nothing.                     *)
ReleaseToQueue(i) ==
  /\ state' = IF Present(i) THEN [state EXCEPT ![i] = "queued"] ELSE state
  /\ UNCHANGED <<content, stoppedBy, nextId>>

Finish(i, s, by) ==
  /\ state' = IF Present(i) THEN [state EXCEPT ![i] = s] ELSE state
  /\ stoppedBy' = IF Present(i) THEN [stoppedBy EXCEPT ![i] = by] ELSE stoppedBy
  /\ UNCHANGED <<content, nextId>>

Cancellable(i) == state[i] = "queued"

CancelQueued(i, by) ==
  /\ Cancellable(i)
  /\ state' = [state EXCEPT ![i] = "stopped"]
  /\ stoppedBy' = [stoppedBy EXCEPT ![i] = by]
  /\ UNCHANGED <<content, nextId>>

\* Mutant of RecoverOrphanedItems: the startup sweep is forgotten.
RecoverOrphanedItemsSkipped == UNCHANGED table

RecoverOrphanedItems ==
  /\ state' = [i \in Id |-> IF state[i] = "playing" THEN "interrupted" ELSE state[i]]
  /\ UNCHANGED <<content, stoppedBy, nextId>>

\* Mutant of Purgeable: the WHERE clause forgets the playing row.
PurgeableTooMuch(last) ==
  {i \in 1 .. last : Present(i) /\ state[i] # "queued"}

(* created_at grows with id, so "older than" keeps a prefix of the ids.    *)
Purgeable(last) == {i \in 1 .. last : state[i] \in Terminal}

PurgeAnnouncements(last) ==
  /\ Purgeable(last) # {}
  /\ state' = [i \in Id |-> IF i \in Purgeable(last) THEN "purged" ELSE state[i]]
  /\ content' = [i \in Id |-> IF i \in Purgeable(last) THEN None ELSE content[i]]
  /\ stoppedBy' = [i \in Id |-> IF i \in Purgeable(last) THEN None ELSE stoppedBy[i]]
  /\ UNCHANGED nextId
=============================================================================
