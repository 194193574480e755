---------------------------- MODULE VersionedRows ----------------------------
(***************************************************************************)
(* The versioned-document collection that instruction-service and          *)
(* payment-service both keep in MongoDB.  A document is a row              *)
(*     [id, ver, open, body]                                               *)
(* whose `_id` is "id|ver"; `open` says that its `out` field still holds   *)
(* the far-future marker, i.e. that it is the current version of `id`.     *)
(* Rows are never deleted; a mutation closes the current row and inserts   *)
(* its successor.                                                          *)
(***************************************************************************)
EXTENDS Integers

(* The row get_current returns: the one whose `out` is the marker. *)
CurrentRows(rows, i) == {r \in rows : r.id = i /\ r.open}

Row(i, v, open, b) == [id |-> i, ver |-> v, open |-> open, body |-> b]

InsertInitial(rows, i, b) == rows \cup {Row(i, 1, TRUE, b)}

Closed(r) == [r EXCEPT !.open = FALSE]

(* Faulty variant: the current row is overwritten. *)
AppendVersion_InPlace(rows, cur, b) ==
  (rows \ {cur}) \cup {Row(cur.id, cur.ver, TRUE, b)}

(* append_version: close `cur`, the row found in the transaction, and      *)
(* insert the next version with the body the caller has computed -         *)
(* whatever version that body was computed from.                           *)
AppendVersion(rows, cur, b) ==
  (rows \ {cur}) \cup {Closed(cur), Row(cur.id, cur.ver + 1, TRUE, b)}

-----------------------------------------------------------------------------
(* No two rows share an `_id`. *)
UniqueRowIds(rows) ==
  \A r, s \in rows : r.id = s.id /\ r.ver = s.ver => r = s

(* The current row of an id is exactly its newest one. *)
NewestIsCurrent(rows) ==
  \A r \in rows : r.open <=> \A s \in rows : s.id = r.id => s.ver <= r.ver

(* Versions count up from 1 without a gap. *)
NoVersionGap(rows) ==
  \A r \in rows : r.ver > 1 =>
    \E s \in rows : s.id = r.id /\ s.ver = r.ver - 1

VersionChain(rows) ==
  /\ UniqueRowIds(rows)
  /\ NewestIsCurrent(rows)
  /\ NoVersionGap(rows)
=============================================================================
