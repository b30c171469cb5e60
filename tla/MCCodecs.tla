------------------------------ MODULE MCCodecs ------------------------------
(* Everything that turns rows into bytes or text and back, each in a scene of
   its own: the write-ahead log's frames and the snapshot payloads, damaged at
   rest; the text inputs and outputs; and the driver of a batch. *)
EXTENDS SnapshotPayload

CONSTANTS Values, RowCap, MaxFileBytes, MaxRecordBytes, MaxRecords, MaxBatch,
          I64Min, I64Max, F64Max, SqlNull, MaxPieces,
          MaxInputBytes, OutputLimits

VARIABLES cells, records, rows, damaged,
          target, before, format, text, typed, outcome,
          output_format, max_output_bytes, input, done, output, state,
          scene

Log == INSTANCE Int64WalDamage WITH Null <- 0, Nullable <- FALSE
Text == INSTANCE TextIngest WITH table <- target
Driver == INSTANCE BatchDriver

logVars == <<cells, records, rows, damaged>>
textVars == <<target, before, format, text, typed, outcome>>
driverVars == <<output_format, max_output_bytes, input, done, output, state>>

EveryLimits ==
    {[max_rows |-> r, max_runs |-> n, max_name_len |-> 1, max_payload_len |-> p] :
        r \in {2, 3, 4}, n \in {1, 3}, p \in {8, 12, 15}}
MinInt64 == -2

(* A scene that is not played is blank. *)
NoLog == cells = <<>> /\ records = 0 /\ rows = <<>> /\ damaged = FALSE
NoText ==
    /\ target = [schema |-> <<>>, rows |-> <<>>, max_rows |-> 0]
    /\ before = <<>> /\ format = "none" /\ text = <<>> /\ typed = 0 /\ outcome = Text!Idle
NoBatch ==
    /\ output_format = "none" /\ max_output_bytes = 0 /\ input = "none"
    /\ done = 0 /\ output = <<>> /\ state = "none"

CodecsInit ==
    /\ scene \in {"log", "payload", "text", "driver"}
    /\ IF scene = "log" THEN Log!Init ELSE NoLog
    /\ Init
    /\ IF scene = "text" THEN Text!Init ELSE NoText
    /\ IF scene = "driver" THEN Driver!Init ELSE NoBatch

CodecsNext ==
    /\ UNCHANGED scene
    /\ \/ scene = "log" /\ Log!Next /\ UNCHANGED <<payloadVars, textVars, driverVars>>
       \/ scene = "payload" /\ Next /\ UNCHANGED <<logVars, textVars, driverVars>>
       \/ scene = "text" /\ Text!Next /\ UNCHANGED <<payloadVars, logVars, driverVars>>
       \/ scene = "driver" /\ Driver!Next /\ UNCHANGED <<payloadVars, logVars, textVars>>

CodecsSpec == CodecsInit /\ [][CodecsNext]_<<payloadVars, logVars, textVars, driverVars, scene>>

(* Replay of an intact log returns exactly the rows and the record count of
   the operations that append_record committed, and one altered field in any
   committed record is an error of replay. *)
ReplayIsExact == scene = "log" => Log!ReplayIsExact

(* What a format's writer wrote, its reader reads back as the same rows,
   whatever the values hold and whichever columns were selected; only CSV with
   a bare carriage return is refused. *)
FormatsRoundTrip == scene = "text" => Text!FormatsRoundTrip

(* An ingested text is taken whole or not at all, and is refused as malformed
   exactly where the grammar of CSV or JSON says so. *)
IngestIsExact == scene = "text" => Text!IngestIsExact

(* The output of a batch is the whole results of the statements executed so
   far, within the output bounds, unless the writer itself failed. *)
OutputIsWhole == scene = "driver" => Driver!OutputIsWhole
=============================================================================
