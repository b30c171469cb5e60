-------------------------- MODULE SnapshotPayload --------------------------
(***************************************************************************)
(* The snapshot codecs (src/src/snapshot.rs): the fixed payload of         *)
(* nullable Int64 rows, the run-length payload, the self-describing table  *)
(* payload, and the checksummed envelope around each.                      *)
(*                                                                         *)
(* A payload is a sequence of bytes.  A byte has Base values and a word    *)
(* (u64 and i64) two bytes, little end first, so that every offset, length *)
(* limit and overflow of the code has its counterpart here.  The checksum  *)
(* is abstracted to the payload it was computed from: it tells apart any   *)
(* two payloads, as CRC-32 tells apart those that differ in few bytes.     *)
(***************************************************************************)
EXTENDS Integers, Sequences, SequencesExt

CONSTANTS
  Base,        \* the values of a byte
  SavedValues,   \* Int64 values stored, as words
  Null,        \* None of Option<i64>
  MaxLength,   \* bound: rows stored
  CodecLimits    \* codec limits: [max_rows, max_runs, max_name_len, max_payload_len]

ASSUME PayloadAssumption ==
  /\ Base \in Nat /\ Base > 2
  /\ SavedValues \subseteq 0 .. Base * Base - 1
  /\ Null \notin 0 .. Base * Base - 1
  /\ MaxLength \in Nat /\ MaxLength + 1 < Base * Base   \* lengths and caps are u64
  /\ CodecLimits \subseteq [max_rows : Nat, max_runs : Nat, max_name_len : Nat, max_payload_len : Nat]

Bytes == 0 .. Base - 1
WordMax == Base * Base - 1
Word(n) == <<n % Base, n \div Base>>
WordAt(p, offset) == p[offset + 1] + Base * p[offset + 2]   \* offset from 0
WordLen == 2

\* An attempt yields a value, or "error".
Ok(v) == [status |-> "ok", value |-> v]
Error == [status |-> "error", value |-> <<>>]
IsOk(r) == r.status = "ok"

NullTag == 0
ValueTag == 1
Magic == 1
Version == 1
TypeTag == 1
NotNull == 0
Nullable == 1
ValidName(name) == \A k \in DOMAIN name : name[k] # Base - 1   \* UTF-8

EncodeRow(v) == IF v = Null THEN <<NullTag>> ELSE <<ValueTag>> \o Word(v)

(***************************************************************************)
(* NullableI64PayloadCodec: the row count, then a tag and value per row.   *)
(***************************************************************************)
EncodeNullable(limits, rows) ==
  LET payload == Word(Len(rows)) \o FlattenSeq([k \in DOMAIN rows |-> EncodeRow(rows[k])])
  IN  IF Len(rows) > limits.max_rows \/ Len(payload) > limits.max_payload_len
      THEN Error ELSE Ok(payload)

\* One row at an offset: a known tag, NULL only where it is allowed, and the
\* value's bytes all there.
ScanRow(payload, nullable, acc) ==
  LET tag == payload[acc.offset + 1]
      end == acc.offset + 1 + (IF tag = ValueTag THEN WordLen ELSE 0)
  IN  IF acc.status # "ok" THEN acc
      ELSE IF acc.offset >= Len(payload) THEN [acc EXCEPT !.status = "error"]
      ELSE IF tag \notin {NullTag, ValueTag} \/ (tag = NullTag /\ ~nullable) \/ end > Len(payload)
      THEN [acc EXCEPT !.status = "error"]
      ELSE [acc EXCEPT !.offset = end,
                       !.rows = Append(@, IF tag = NullTag THEN Null ELSE WordAt(payload, acc.offset + 1))]

\* The rows from an offset to the end of the payload.
ScanRows(payload, offset, count, nullable) ==
  LET all == FoldLeft(LAMBDA acc, k : ScanRow(payload, nullable, acc),
                      [status |-> "ok", offset |-> offset, rows |-> <<>>], [k \in 1 .. count |-> k])
  IN  IF all.status = "ok" /\ Len(payload) > all.offset THEN [all EXCEPT !.status = "error"] ELSE all

DecodeNullable(limits, payload) ==
  LET count == WordAt(payload, 0)
      all   == ScanRows(payload, WordLen, count, TRUE)
  IN  IF Len(payload) > limits.max_payload_len \/ Len(payload) < WordLen THEN Error
      ELSE IF count > limits.max_rows THEN Error
      ELSE IF WordLen + count > limits.max_payload_len \/ Len(payload) < WordLen + count THEN Error
      ELSE IF all.status = "ok" THEN Ok(all.rows) ELSE Error

(***************************************************************************)
(* NullableI64RlePayloadCodec: magic, version, row and run counts, then a  *)
(* tag, a length and perhaps a value for each maximal run.                 *)
(***************************************************************************)
\* Mutant of Extends: NULL and a value are not told apart.
Extends_Null(run, v) == run.value = v \/ v = Null

Extends(run, v) == run.value = v

\* The runs of equal neighbours, in order.
Runs(rows) ==
  FoldLeft(LAMBDA runs, v :
             IF runs # <<>> /\ Extends(Last(runs), v)
             THEN [runs EXCEPT ![Len(runs)].length = @ + 1]
             ELSE Append(runs, [value |-> v, length |-> 1]),
           <<>>, rows)

EncodeRun(run) ==
  IF run.value = Null THEN <<NullTag>> \o Word(run.length)
                      ELSE <<ValueTag>> \o Word(run.length) \o Word(run.value)

RleHeaderLen == 2 + 2 * WordLen
RunHeaderLen == 1 + WordLen

EncodeRle(limits, rows) ==
  LET runs    == Runs(rows)
      payload == <<Magic, Version>> \o Word(Len(rows)) \o Word(Len(runs))
                   \o FlattenSeq([k \in DOMAIN runs |-> EncodeRun(runs[k])])
  IN  IF \/ Len(rows) > limits.max_rows
         \/ Len(runs) > limits.max_runs
         \/ Len(payload) > limits.max_payload_len
      THEN Error ELSE Ok(payload)

\* One run at an offset; an empty run is malformed and the rows so far must
\* not overflow a word.
ScanRun(payload, acc) ==
  LET tag    == payload[acc.offset + 1]
      body   == acc.offset + RunHeaderLen
      length == WordAt(payload, acc.offset + 1)
      end    == body + (IF tag = ValueTag THEN WordLen ELSE 0)
  IN  IF acc.status # "ok" THEN acc
      ELSE IF acc.offset >= Len(payload) THEN [acc EXCEPT !.status = "error"]
      ELSE IF tag \notin {NullTag, ValueTag} \/ body > Len(payload)
      THEN [acc EXCEPT !.status = "error"]
      ELSE IF length = 0 \/ end > Len(payload) \/ acc.count + length > WordMax
      THEN [acc EXCEPT !.status = "error"]
      ELSE [acc EXCEPT !.offset = end, !.count = @ + length,
                       !.runs = Append(@, [length |-> length,
                                           value |-> IF tag = NullTag THEN Null ELSE WordAt(payload, body)])]

ScanRuns(payload, count) ==
  FoldLeft(LAMBDA acc, k : ScanRun(payload, acc),
           [status |-> "ok", offset |-> RleHeaderLen, count |-> 0, runs |-> <<>>],
           [k \in 1 .. count |-> k])

DecodeRle(limits, payload) ==
  LET declared == WordAt(payload, 2)
      runs     == WordAt(payload, 2 + WordLen)
      all      == ScanRuns(payload, runs)
  IN  IF Len(payload) > limits.max_payload_len \/ Len(payload) < RleHeaderLen THEN Error
      ELSE IF payload[1] # Magic \/ payload[2] # Version THEN Error
      ELSE IF declared > limits.max_rows \/ runs > limits.max_runs THEN Error
      ELSE IF RleHeaderLen + runs * RunHeaderLen > limits.max_payload_len THEN Error
      ELSE IF all.status # "ok" \/ all.count > limits.max_rows \/ all.count # declared THEN Error
      ELSE IF Len(payload) > all.offset THEN Error
      ELSE Ok(FlattenSeq([k \in DOMAIN all.runs |-> [j \in 1 .. all.runs[k].length |-> all.runs[k].value]]))

(***************************************************************************)
(* Int64TablePayloadCodec: the rows with the column's name, nullability    *)
(* and row cap.  A table is [name, nullable, row_cap, rows].               *)
(***************************************************************************)
NameOffset == 4 + WordLen

EncodeTable(limits, t) ==
  LET payload == <<Magic, Version, TypeTag, IF t.nullable THEN Nullable ELSE NotNull>>
                   \o Word(Len(t.name)) \o t.name \o Word(t.row_cap) \o Word(Len(t.rows))
                   \o FlattenSeq([k \in DOMAIN t.rows |-> EncodeRow(t.rows[k])])
  IN  IF \/ Len(t.name) > limits.max_name_len
         \/ t.row_cap > limits.max_rows
         \/ Len(t.rows) > limits.max_rows
         \/ Len(payload) > limits.max_payload_len
      THEN Error ELSE Ok(payload)

CapAdmits(limits, count, cap) ==
  cap <= limits.max_rows /\ count <= limits.max_rows /\ count <= cap

DecodeTable(limits, payload) ==
  LET nameLen  == WordAt(payload, 4)
      nameEnd  == NameOffset + nameLen
      name     == SubSeq(payload, NameOffset + 1, nameEnd)
      rowsAt   == nameEnd + 2 * WordLen
      cap      == WordAt(payload, nameEnd)
      count    == WordAt(payload, nameEnd + WordLen)
      nullable == payload[4] = Nullable
      all      == ScanRows(payload, rowsAt, count, nullable)
  IN  IF Len(payload) > limits.max_payload_len \/ Len(payload) < NameOffset THEN Error
      ELSE IF payload[1] # Magic \/ payload[2] # Version \/ payload[3] # TypeTag THEN Error
      ELSE IF payload[4] \notin {NotNull, Nullable} THEN Error
      ELSE IF nameLen > limits.max_name_len \/ Len(payload) < nameEnd THEN Error
      ELSE IF ~ValidName(name) THEN Error
      ELSE IF rowsAt > limits.max_payload_len \/ Len(payload) < rowsAt THEN Error
      ELSE IF ~CapAdmits(limits, count, cap) THEN Error
      ELSE IF rowsAt + count > limits.max_payload_len \/ Len(payload) < rowsAt + count THEN Error
      ELSE IF all.status # "ok" THEN Error
      ELSE Ok([name |-> name, nullable |-> nullable, row_cap |-> cap, rows |-> all.rows])

(***************************************************************************)
(* SnapshotCodec: magic, version, payload length, checksum, payload.       *)
(***************************************************************************)
EncodeEnvelope(limits, payload) ==
  IF Len(payload) > limits.max_payload_len \/ Len(payload) > WordMax THEN Error
  ELSE Ok([magic |-> Magic, version |-> Version, length |-> Len(payload), checksum |-> payload,
           payload |-> payload])

DecodeEnvelope(limits, e) ==
  IF e.magic # Magic \/ e.version # Version \/ e.length > limits.max_payload_len THEN Error
  ELSE IF Len(e.payload) # e.length THEN Error
  ELSE IF e.checksum # e.payload THEN Error
  ELSE Ok(e.payload)

(***************************************************************************)
(* A table is saved with one of the codecs, its file is altered at rest,   *)
(* and it is read back.                                                    *)
(***************************************************************************)
VARIABLES
  codec,     \* "nullable", "rle" or "table"
  limits,    \* the limits it is saved and read with
  table,     \* what is saved
  file,      \* the envelope, or None if encoding was refused
  damage     \* alterations so far

payloadVars == <<codec, limits, table, file, damage>>

Encode(c, l, t) ==
  CASE c = "nullable" -> EncodeNullable(l, t.rows)
    [] c = "rle"      -> EncodeRle(l, t.rows)
    [] c = "table"    -> EncodeTable(l, t)

Decode(c, l, payload) ==
  CASE c = "nullable" -> DecodeNullable(l, payload)
    [] c = "rle"      -> DecodeRle(l, payload)
    [] c = "table"    -> DecodeTable(l, payload)

\* Int64Table::append_batch on an empty table: all of the rows or none.
AppendBatch(t, rows) ==
  IF \/ Len(rows) > t.row_cap
     \/ ~t.nullable /\ \E k \in DOMAIN rows : rows[k] = Null
  THEN Error ELSE Ok([t EXCEPT !.rows = rows])

\* The envelope, then the payload, then the table: a row-only payload is
\* appended to an empty table of the caller's name, nullability and cap.
Restore(c, l, t, e) ==
  LET payload == DecodeEnvelope(l, e)
      decoded == Decode(c, l, payload.value)
  IN  IF ~IsOk(payload) THEN Error
      ELSE IF ~IsOk(decoded) \/ c = "table" THEN decoded
      ELSE AppendBatch(t, decoded.value)

Tables ==
  {t \in [name : {<<>>, <<0>>, <<1, 0>>}, nullable : BOOLEAN, row_cap : {MaxLength, MaxLength + 1},
          rows : UNION {[1 .. n -> SavedValues \cup {Null}] : n \in 0 .. MaxLength}] :
     t.nullable \/ \A k \in DOMAIN t.rows : t.rows[k] # Null}

NoFile == Error

Save ==
  /\ codec = "none"
  /\ \E c \in {"nullable", "rle", "table"}, l \in CodecLimits, t \in Tables :
       LET payload == Encode(c, l, t) IN
       /\ codec' = c /\ limits' = l /\ table' = t
       /\ file' = IF IsOk(payload) THEN EncodeEnvelope(l, payload.value) ELSE NoFile
  /\ UNCHANGED damage

AlteredBytes(b) ==
  {[b EXCEPT ![k] = v] : k \in DOMAIN b, v \in Bytes}
  \cup {SubSeq(b, 1, n) : n \in 0 .. Len(b)}
  \cup {Append(b, v) : v \in Bytes}

Alter ==
  /\ codec # "none" /\ IsOk(file)
  /\ damage = 0
  /\ \/ \E b \in AlteredBytes(file.value.payload) : file' = [file EXCEPT !.value.payload = b]
     \/ \E v \in {0, 2} : file' = [file EXCEPT !.value.magic = v]
     \/ \E v \in {0, 2} : file' = [file EXCEPT !.value.version = v]
     \/ \E n \in 0 .. WordMax : file' = [file EXCEPT !.value.length = n]
  /\ damage' = damage + 1
  /\ UNCHANGED <<codec, limits, table>>

Init ==
  /\ codec = "none"
  /\ limits = <<>>
  /\ table = <<>>
  /\ file = NoFile
  /\ damage = 0

Next == Save \/ Alter

Spec == Init /\ [][Next]_payloadVars

(***************************************************************************)
(* Properties.                                                             *)
(***************************************************************************)
\* What is saved is read back the same under the limits it was saved with:
\* no length, count or cap that the encoder accepts is one that the decoder
\* refuses, an altered file is refused or unchanged in meaning, and a table
\* whose cap is too small for the rows is refused whole.
SnapshotsRoundTrip ==
  codec # "none" /\ IsOk(file) =>
    LET same  == Restore(codec, limits, [table EXCEPT !.rows = <<>>], file.value)
        small == Restore(codec, limits, [table EXCEPT !.rows = <<>>, !.row_cap = 1], file.value)
    IN  /\ IF damage = 0 THEN same = Ok(table) ELSE IsOk(same) => same = Ok(table)
        /\ codec # "table" /\ Len(table.rows) > 1 => ~IsOk(small)

\* A payload that no checksum protects, whatever its bytes, is decoded only
\* to what an encoder with the same limits could have meant by it: within the
\* limits, NULL only where allowed, every byte accounted for.
AcceptedPayloadsAreMeaningful ==
  codec # "none" /\ IsOk(file) =>
    LET b  == file.value.payload
        d  == Decode(codec, limits, b)
        again == Encode(codec, limits, IF codec = "table" THEN d.value ELSE [table EXCEPT !.rows = d.value])
    IN  IsOk(d) =>
          /\ IsOk(again)
          /\ IF codec = "rle" THEN Len(again.value) <= Len(b) ELSE again.value = b
          /\ codec = "table" => /\ Len(d.value.rows) <= d.value.row_cap
                                /\ d.value.nullable \/ \A k \in DOMAIN d.value.rows : d.value.rows[k] # Null

\* Saving and restoring rows is exact: what was written is what is read back,
\* and whatever else is accepted an encoder could have written.
PayloadsAreExact == SnapshotsRoundTrip /\ AcceptedPayloadsAreMeaningful
=============================================================================
