--------------------------- MODULE Int64WalDamage ---------------------------
(***************************************************************************)
(* A completely committed log one field of which is altered at rest.       *)
(* Replay is meant to tell a torn tail, which it ignores, from a damaged   *)
(* committed record, which it must refuse.                                 *)
(***************************************************************************)
EXTENDS Int64WalCodec

VARIABLES
    cells,     \* the file: whole committed frames
    records,   \* how many
    rows,      \* the rows they amount to
    damaged    \* has a field been altered?

damageVars == <<cells, records, rows, damaged>>

Frame(op, sequence) == EncodeBody(op, sequence) \o EncodeFooter(sequence)

Init ==
    /\ rows \in RowsType
    /\ cells = Frame(BootstrapOp(rows), 0)
    /\ records = 1
    /\ damaged = FALSE

(* A committed append_record: limits, then body and footer, then publish. *)
CommitRecord ==
    /\ ~damaged
    /\ \E op \in Ops :
        /\ Accepts(op, rows)
        /\ FitsLimits(Len(EncodePayload(op)), Len(cells), records)
        /\ cells' = cells \o Frame(op, records)
        /\ rows' = Apply(op, rows)
    /\ records' = records + 1
    /\ UNCHANGED damaged

(* Every other content the fields of one cell may be given. *)
Altered(c) ==
    CASE c.t = "magic" ->
            {ZeroCell} \cup {[c EXCEPT !.version = 2], [c EXCEPT !.reserved = 1]}
            \cup {[c EXCEPT !.kind = k] : k \in (Kinds \cup {"unknown"}) \ {c.kind}}
            \cup {[c EXCEPT !.sequence = n] : n \in (0..MaxRecords) \ {c.sequence}}
      [] c.t = "length" ->
            {[c EXCEPT !.checksum = << >>]}
            \cup {[c EXCEPT !.len = n] : n \in (0..MaxFileBytes) \ {c.len}}
      [] c.t = "count" -> {CountCell(n) : n \in (0..MaxFileBytes) \ {c.n}}
      [] c.t = "row" -> {RowCell(n) : n \in (0..RowCap) \ {c.n}}
      [] c.t \in {"value", "null"} -> {ValueCell(v) : v \in RowValues} \ {c}
      [] c.t = "settings" -> {[c EXCEPT !.cap = RowCap + 1]}
      [] c.t = "commit" -> {ZeroCell}
      [] c.t = "commit_sequence" ->
            {[c EXCEPT !.sequence = n] : n \in (0..MaxRecords) \ {c.sequence}}

Damage ==
    /\ ~damaged
    /\ \E i \in DOMAIN cells : \E a \in Altered(cells[i]) :
         cells' = [cells EXCEPT ![i] = a]
    /\ damaged' = TRUE
    /\ UNCHANGED <<records, rows>>

Next == CommitRecord \/ Damage

Spec == Init /\ [][Next]_damageVars

-----------------------------------------------------------------------------
(* Replay of an intact log returns exactly the rows and the record count of
   the operations that append_record committed (replay against the reference
   Apply), and one altered field in any committed record, intermediate or
   final, is an error: it is never taken for a torn tail and never drops or
   changes a record silently. *)
ReplayIsExact ==
    LET replay == RecoverFile(cells, MaxRecords)
    IN  IF damaged
          THEN replay.err # "none"
          ELSE replay = [err |-> "none", rows |-> rows, records |-> records]
=============================================================================
