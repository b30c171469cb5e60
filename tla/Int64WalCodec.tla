--------------------------- MODULE Int64WalCodec ---------------------------
(***************************************************************************)
(* The frame format of the bounded Int64 write-ahead log and the replay    *)
(* loop that recovers a table from it (src/batch/wal.rs).                  *)
(*                                                                         *)
(* A file is a sequence of cells, the smallest units a torn write can      *)
(* split.  The 32-byte header is two cells, so is the 16-byte footer, and  *)
(* a length, row index or value inside a payload is one cell each.  Byte   *)
(* limits are counted in cells.  The CRC is idealised: a checksum is the   *)
(* tuple of everything it covers, so two records collide only when equal.  *)
(***************************************************************************)
EXTENDS Naturals, Sequences, FiniteSets

CONSTANTS
    Values,          \* the Int64 values a row may hold
    Null,            \* the NULL of a nullable column
    Nullable,        \* is the logged column Nullable(Int64)?
    RowCap,          \* min(max_rows, max_cells) of the logged one-column table
    MaxFileBytes,    \* Int64WriteAheadLogLimits, in cells
    MaxRecordBytes,
    MaxRecords,
    MaxBatch         \* bound: values in one append, replacements in one record

ASSUME NullAssumption == Null \notin Values

ASSUME LimitAssumption ==
    /\ Nullable \in BOOLEAN
    /\ RowCap \in Nat
    /\ MaxFileBytes \in Nat
    /\ MaxRecordBytes \in Nat
    /\ MaxRecords \in Nat
    /\ MaxBatch \in Nat

HeaderLen == 2
CommitLen == 2
FrameOverhead == HeaderLen + CommitLen

(* What a row of the logged column may hold. *)
RowValues == IF Nullable THEN Values \cup {Null} ELSE Values

RowsType == UNION {[1..n -> RowValues] : n \in 0..RowCap}

-----------------------------------------------------------------------------
(* Operations that reach the log.  `row' is zero-based, as in the format.  *)

BootstrapOp(rows) == [kind |-> "bootstrap", values |-> rows]
AppendOp(vs)  == [kind |-> IF Nullable THEN "nullable_append" ELSE "append",
                  values |-> vs]
TruncateOp    == [kind |-> "truncate"]
ReplaceOp(rs) == [kind |-> IF Nullable THEN "nullable_replace" ELSE "replace",
                  replacements |-> rs]

(* The operations of the bounded instance. *)
AppendOps == {AppendOp(vs) : vs \in UNION {[1..n -> RowValues] : n \in 0..MaxBatch}}

(* Replacement lists name strictly increasing rows of the table. *)
ReplaceOps ==
    {ReplaceOp(rs) : rs \in
        {r \in UNION {[1..n -> [row : 0..RowCap - 1, value : RowValues]] :
                        n \in 0..MaxBatch} :
            \A i, j \in DOMAIN r : i < j => r[i].row < r[j].row}}

Ops == AppendOps \cup {TruncateOp} \cup ReplaceOps

(* validate_row_capacity, and validate_row_selection. *)
Accepts(op, rows) ==
    CASE op.kind \in {"append", "nullable_append"} ->
            Len(rows) + Len(op.values) <= RowCap
      [] op.kind = "truncate" -> TRUE
      [] op.kind \in {"replace", "nullable_replace"} ->
            \A k \in DOMAIN op.replacements : op.replacements[k].row < Len(rows)

(* The in-memory effect of one operation on the rows of the table. *)
ReplaceRows(rows, rs) ==
    [i \in DOMAIN rows |->
        IF \E k \in DOMAIN rs : rs[k].row + 1 = i
        THEN rs[CHOOSE k \in DOMAIN rs : rs[k].row + 1 = i].value
        ELSE rows[i]]

Apply(op, rows) ==
    CASE op.kind = "bootstrap" -> op.values
      [] op.kind \in {"append", "nullable_append"} -> rows \o op.values
      [] op.kind = "truncate" -> << >>
      [] op.kind \in {"replace", "nullable_replace"} ->
            ReplaceRows(rows, op.replacements)

-----------------------------------------------------------------------------
(* Encoding. *)

CountCell(n) == [t |-> "count", n |-> n]
RowCell(r)   == [t |-> "row", n |-> r]
ValueCell(v) == IF v = Null THEN [t |-> "null"] ELSE [t |-> "value", v |-> v]

(* The names, limits, worker cap and nullability of encode_bootstrap. *)
SettingsCell == [t |-> "settings", nullable |-> Nullable, cap |-> RowCap]

ValueCells(vs) == [i \in DOMAIN vs |-> ValueCell(vs[i])]

ReplacementCells(rs) ==
    [i \in 1..(2 * Len(rs)) |->
        LET r == rs[(i + 1) \div 2]
        IN  IF i % 2 = 1 THEN RowCell(r.row) ELSE ValueCell(r.value)]

EncodePayload(op) ==
    CASE op.kind = "bootstrap" ->
            <<SettingsCell, CountCell(Len(op.values))>> \o ValueCells(op.values)
      [] op.kind \in {"append", "nullable_append"} ->
            <<CountCell(Len(op.values))>> \o ValueCells(op.values)
      [] op.kind = "truncate" -> << >>
      [] op.kind \in {"replace", "nullable_replace"} ->
            <<CountCell(Len(op.replacements))>>
                \o ReplacementCells(op.replacements)

Version == 1

Checksum(version, kind, reserved, sequence, payload) ==
    <<version, kind, reserved, sequence, payload>>

HeaderCells(kind, sequence, payload) ==
    << [t |-> "magic", version |-> Version, kind |-> kind, reserved |-> 0,
        sequence |-> sequence],
       [t |-> "length", len |-> Len(payload),
        checksum |-> Checksum(Version, kind, 0, sequence, payload)] >>

EncodeBody(op, sequence) ==
    HeaderCells(op.kind, sequence, EncodePayload(op)) \o EncodePayload(op)

EncodeFooter(sequence) ==
    << [t |-> "commit"], [t |-> "commit_sequence", sequence |-> sequence] >>

(* A cell whose bytes never reached storage although a later one did. *)
ZeroCell == [t |-> "zero"]

(* Fault: the frame around the payload is not charged to the file. *)
FitsLimits_PayloadOnly(payloadLen, fileBytes, records) ==
    /\ payloadLen <= MaxRecordBytes
    /\ records + 1 <= MaxRecords
    /\ fileBytes + payloadLen <= MaxFileBytes

(***************************************************************************)
(* validate_record_limits: does the next record fit?  The three inclusive  *)
(* limits of the writer; the machine's u64 overflow guards around them     *)
(* cannot be reached before the limits are.                                *)
(***************************************************************************)
FitsLimits(payloadLen, fileBytes, records) ==
    /\ payloadLen <= MaxRecordBytes
    /\ records + 1 <= MaxRecords
    /\ fileBytes + FrameOverhead + payloadLen <= MaxFileBytes

-----------------------------------------------------------------------------
(* Decoding one record.  A decoder yields [err |-> "none" or an error,     *)
(* rows |-> the rows after the record].                                    *)

Decoded(rows) == [err |-> "none", rows |-> rows]
Malformed(what) == [err |-> what, rows |-> << >>]

(* PayloadReader::usize and ::nullable_i64 on one cell of any content. *)
ReadCount(c) == IF c.t \in {"count", "row"} THEN c.n ELSE 0
ReadValue(c) ==
    CASE c.t = "value" -> c.v
      [] c.t = "null" -> Null
      [] OTHER -> CHOOSE v \in Values : TRUE

ReadValues(cells) == [i \in DOMAIN cells |-> ReadValue(cells[i])]

DecodeBootstrap(payload) ==
    LET rows == ReadValues(SubSeq(payload, 3, Len(payload)))
    IN  IF Len(payload) < 2 THEN Malformed("settings")
        ELSE IF ReadCount(payload[2]) > payload[1].cap
             THEN Malformed("table resource limits")
        ELSE IF Len(rows) # ReadCount(payload[2]) THEN Malformed("row values")
        ELSE Decoded(rows)

ApplyAppend(rows, payload, kindNullable) ==
    LET vs == ReadValues(SubSeq(payload, 2, Len(payload)))
    IN  IF Len(payload) < 1 THEN Malformed("append row count")
        ELSE IF kindNullable # Nullable THEN Malformed("append kind")
        ELSE IF Len(vs) # ReadCount(payload[1]) THEN Malformed("append values")
        ELSE IF Len(rows) + Len(vs) > RowCap
             THEN Malformed("append table resource limits")
        ELSE Decoded(rows \o vs)

ApplyTruncate(rows, payload) ==
    IF payload # << >> THEN Malformed("truncate payload") ELSE Decoded(<< >>)

ApplyReplace(rows, payload, kindNullable) ==
    LET n  == IF payload = << >> THEN 0 ELSE ReadCount(payload[1])
        rs == [k \in 1..n |-> [row   |-> ReadCount(payload[2 * k]),
                               value |-> ReadValue(payload[2 * k + 1])]]
    IN  IF Len(payload) < 1 THEN Malformed("replacement count")
        ELSE IF kindNullable # Nullable THEN Malformed("replacement kind")
        ELSE IF Len(payload) # 1 + 2 * n THEN Malformed("replacement values")
        ELSE IF \E k \in 1..n : \/ rs[k].row >= Len(rows)
                                \/ k > 1 /\ rs[k].row <= rs[k - 1].row
             THEN Malformed("replacement row selection")
        ELSE Decoded(ReplaceRows(rows, rs))

(* `booted' is bootstrap.is_some(): a mutation needs one, a second is an error. *)
Kinds == {"bootstrap", "append", "nullable_append", "truncate", "replace",
          "nullable_replace"}

ApplyRecord(kind, sequence, payload, booted, rows) ==
    IF kind \notin Kinds THEN Malformed("unsupported kind")
    ELSE IF kind = "bootstrap"
         THEN IF booted \/ sequence # 0 THEN Malformed("unexpected bootstrap")
              ELSE DecodeBootstrap(payload)
    ELSE IF ~booted THEN Malformed("missing bootstrap")
    ELSE CASE kind \in {"append", "nullable_append"} ->
                ApplyAppend(rows, payload, kind = "nullable_append")
           [] kind = "truncate" -> ApplyTruncate(rows, payload)
           [] kind \in {"replace", "nullable_replace"} ->
                ApplyReplace(rows, payload, kind = "nullable_replace")

-----------------------------------------------------------------------------
(* Replay. *)

LengthOf(c)   == IF c.t = "length" THEN c.len ELSE 0
ChecksumOf(c) == IF c.t = "length" THEN c.checksum ELSE << >>
SequenceOf(c) == IF c.t = "commit_sequence" THEN c.sequence ELSE 0

(* encoded_payload_len: the one payload length the writer emits for a kind,
   or nothing when the available cells are too short to tell. *)
EncodedPayloadLen(kind, available) ==
    CASE kind = "truncate" -> [some |-> TRUE, len |-> 0]
      [] kind = "bootstrap" /\ Len(available) >= 2 ->
            [some |-> TRUE, len |-> 2 + ReadCount(available[2])]
      [] kind \in {"append", "nullable_append"} /\ Len(available) >= 1 ->
            [some |-> TRUE, len |-> 1 + ReadCount(available[1])]
      [] kind \in {"replace", "nullable_replace"} /\ Len(available) >= 1 ->
            [some |-> TRUE, len |-> 1 + 2 * ReadCount(available[1])]
      [] OTHER -> [some |-> FALSE, len |-> 0]

(* Fault: every frame that leaves the file is taken for a torn tail. *)
IsAuthenticated_Never(bytes, offset) == FALSE

(* authenticated_payload_len(..).is_some(): a frame whose declared length
   leaves the file is a committed record with a damaged length field. *)
IsAuthenticated(bytes, offset) ==
    LET head == bytes[offset + 1]
        available == SubSeq(bytes, offset + HeaderLen + 1, Len(bytes))
        derived == EncodedPayloadLen(head.kind, available)
        end == derived.len + CommitLen
    IN  /\ derived.some
        /\ derived.len <= MaxRecordBytes
        /\ end <= Len(available)
        /\ available[derived.len + 1].t = "commit"
        /\ SequenceOf(available[derived.len + 2]) = head.sequence
        /\ ChecksumOf(bytes[offset + 2])
             = Checksum(head.version, head.kind, head.reserved, head.sequence,
                        SubSeq(available, 1, derived.len))

(* The loop state of replay: the frame at `offset' is examined next. *)
ReplayStart == [offset |-> 0, records |-> 0, booted |-> FALSE, rows |-> << >>,
                done |-> FALSE, err |-> "none"]

Stop(s, err) == [s EXCEPT !.done = TRUE, !.err = err]

(* One iteration of replay's while loop; `maxRecords' is limits.max_records,
   which a registry narrows per member. *)
ReplayFrame(bytes, maxRecords, s) ==
    LET head     == bytes[s.offset + 1]
        len      == LengthOf(bytes[s.offset + 2])
        frameEnd == s.offset + FrameOverhead + len
        payload  == SubSeq(bytes, s.offset + HeaderLen + 1,
                           s.offset + HeaderLen + len)
        applied  == ApplyRecord(head.kind, head.sequence, payload, s.booted, s.rows)
    IN  IF Len(bytes) - s.offset < HeaderLen THEN Stop(s, "none")
        ELSE IF head.t # "magic" THEN Stop(s, "incompatible magic")
        ELSE IF head.version # Version THEN Stop(s, "unsupported version")
        ELSE IF head.reserved # 0 THEN Stop(s, "reserved byte")
        ELSE IF head.sequence # s.records THEN Stop(s, "sequence")
        ELSE IF len > MaxRecordBytes THEN Stop(s, "record bytes limit")
        ELSE IF frameEnd > Len(bytes)
             THEN Stop(s, IF IsAuthenticated(bytes, s.offset)
                          THEN "payload length" ELSE "none")
        ELSE IF s.records + 1 > maxRecords THEN Stop(s, "records limit")
        ELSE IF bytes[frameEnd - 1].t # "commit" THEN Stop(s, "commit magic")
        ELSE IF SequenceOf(bytes[frameEnd]) # head.sequence
             THEN Stop(s, "commit sequence")
        ELSE IF ChecksumOf(bytes[s.offset + 2])
                  # Checksum(head.version, head.kind, head.reserved,
                             head.sequence, payload)
             THEN Stop(s, "checksum")
        ELSE IF applied.err # "none" THEN Stop(s, applied.err)
        ELSE [offset |-> frameEnd, records |-> s.records + 1, booted |-> TRUE,
              rows |-> applied.rows, done |-> FALSE, err |-> "none"]

(* Every iteration that goes on consumes at least one frame, so Len(bytes)
   iterations reach the end of the loop. *)
Replay(bytes, maxRecords) ==
    LET state[i \in Nat] ==
            IF i = 0 THEN ReplayStart
            ELSE LET s == state[i - 1]
                 IN  IF s.done THEN s ELSE ReplayFrame(bytes, maxRecords, s)
        last == state[Len(bytes) + 1]
    IN  [err     |-> IF last.err = "none" /\ ~last.booted
                     THEN "missing bootstrap" ELSE last.err,
         rows    |-> last.rows,
         records |-> last.records]

(* recover and recover_file: the size check precedes the replay. *)
RecoverFile(bytes, maxRecords) ==
    IF Len(bytes) > MaxFileBytes
    THEN [err |-> "file bytes limit", rows |-> << >>, records |-> 0]
    ELSE Replay(bytes, maxRecords)
=============================================================================
