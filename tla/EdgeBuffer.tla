----------------------------- MODULE EdgeBuffer -----------------------------
(***************************************************************************)
(* apps/edge-agent/src/event-buffer.ts: the SQLite table edge_events, here *)
(* a set of rows [row, event, synced].  node:sqlite calls are synchronous, *)
(* so each method is one step.  Payload sizes are left out: the byte cap   *)
(* of a batch may end it anywhere after its first row.                     *)
(***************************************************************************)
EXTENDS Naturals, FiniteSets

CONSTANTS
  NumEvents,       \* bound: device-health events ever appended
  LocalOnly,       \* stands for the id of any detection, which is never sent
  BatchMaxEvents,  \* EDGE_SYNC_BATCH_MAX_EVENTS
  BufferMaxRows    \* EDGE_BUFFER_MAX_ROWS

\* Their event ids, numbered in the order they are generated.
Events == 1..NumEvents

ASSUME NumEventsAssumption == NumEvents \in Nat
ASSUME LocalOnlyAssumption == LocalOnly \notin Events
ASSUME BatchMaxEventsAssumption == BatchMaxEvents \in Nat \ {0}
ASSUME BufferMaxRowsAssumption == BufferMaxRows \in Nat

BufferRow == [row : Nat, event : Events \cup {LocalOnly}, synced : BOOLEAN]

Unsynced(buffer) == {r \in buffer : ~r.synced}
Synced(buffer) == {r \in buffer : r.synced}

\* Mutant: row_id INTEGER PRIMARY KEY without AUTOINCREMENT, which reuses ids.
NextRowReused(buffer, lastRow) ==
  CHOOSE n \in 1..(lastRow + 1) :
    /\ \A r \in buffer : r.row < n
    /\ n = 1 \/ \E r \in buffer : r.row = n - 1

\* row_id INTEGER PRIMARY KEY AUTOINCREMENT: larger than any id ever used.
NextRow(buffer, lastRow) == lastRow + 1

\* append: INSERT of an unsynced row; every caller passes a fresh event id, so
\* OR IGNORE has nothing to ignore.
Appended(buffer, n, e) == buffer \cup {[row |-> n, event |-> e, synced |-> FALSE]}

\* appendLocalOnly: INSERT of a row that counts as synced already.
AppendedLocalOnly(buffer, n) ==
  buffer \cup {[row |-> n, event |-> LocalOnly, synced |-> TRUE]}

\* Mutant: the byte cap applies to the first row too.
IsNextBatchUnlessTooBig(buffer, S) ==
  /\ S \subseteq Unsynced(buffer)
  /\ \A r \in S, q \in Unsynced(buffer) \ S : r.row < q.row
  /\ Cardinality(S) <= BatchMaxEvents

\* nextUnsyncedBatch: the oldest unsynced rows up to both caps, at least one.
IsNextBatch(buffer, S) ==
  /\ S \subseteq Unsynced(buffer)
  /\ S # {}
  /\ \A r \in S, q \in Unsynced(buffer) \ S : r.row < q.row
  /\ Cardinality(S) <= BatchMaxEvents

\* markSynced: UPDATE .. WHERE row_id IN (..); ids no longer there are ignored.
WithSynced(buffer, rowIds) ==
  {[r EXCEPT !.synced = @ \/ r.row \in rowIds] : r \in buffer}

\* ORDER BY row_id LIMIT n.
Oldest(rows, n) == {r \in rows : Cardinality({q \in rows : q.row < r.row}) < n}

\* Mutant: one row too few is deleted.
PrunedByOneTooFew(buffer, aged) ==
  LET kept == buffer \ aged
      total == Cardinality(kept)
  IN  IF total > BufferMaxRows
        THEN kept \ Oldest(Synced(kept), total - BufferMaxRows - 1) ELSE kept

\* prune: the synced rows past their retention, then, if the table is still too
\* large, the oldest synced rows of the rest.
Pruned(buffer, aged) ==
  LET kept == buffer \ aged
      total == Cardinality(kept)
  IN  IF total > BufferMaxRows
        THEN kept \ Oldest(Synced(kept), total - BufferMaxRows) ELSE kept
=============================================================================
