------------------------------ MODULE Int64Wal ------------------------------
(***************************************************************************)
(* One table logged through Int64WriteAheadLog (src/batch/wal.rs) by       *)
(* Database (src/batch/engine.rs): opt-in, the four-step commit of every   *)
(* record, write and sync failures, poisoning, crashes, and recovery.      *)
(*                                                                         *)
(* Database methods take &mut self, so no other operation of the database  *)
(* runs between the steps of a commit; only a failure or a crash does.     *)
(***************************************************************************)
EXTENDS Int64WalCodec

CONSTANTS
    Paths,       \* destinations a WAL may be created at
    Holes        \* may a crash lose an unsynced cell and keep a later one?

ASSUME WalAssumption == Holes \in BOOLEAN

VARIABLES
    up,        \* is a Database object live in a running process?
    rows,      \* the in-memory rows of the logged table
    wal,       \* Database.int64_write_ahead_log
    pc,        \* program point inside create / append_record
    pending,   \* the operation being committed
    files,     \* per path: directory entry, content, synced length
    promised,  \* history: the rows each path's last acknowledged record left
    indoubt    \* history: the rows an unacknowledged record may have left

vars == <<up, rows, wal, pc, pending, files, promised, indoubt>>

-----------------------------------------------------------------------------
NoFile == [entry |-> "absent", cells |-> << >>, synced |-> 0, acked |-> 0]
NoWal == [mode |-> "none"]
NoOp == [kind |-> "none"]
NoRows == [some |-> FALSE]
SomeRows(r) == [some |-> TRUE, rows |-> r]

(* The writer handle: "creating" until Int64WriteAheadLog::create returns,
   then "ready" until a failed record makes it "poisoned". *)
Writer(p, bytes, n, mode) ==
    [mode |-> mode, path |-> p, file_bytes |-> bytes, records |-> n]

TheFile == files[wal.path]
Body == EncodeBody(pending, wal.records)
Footer == EncodeFooter(wal.records)

Init ==
    /\ up = TRUE
    /\ rows \in RowsType
    /\ wal = NoWal
    /\ pc = "idle"
    /\ pending = NoOp
    /\ files = [p \in Paths |-> NoFile]
    /\ promised = [p \in Paths |-> NoRows]
    /\ indoubt = [p \in Paths |-> NoRows]

-----------------------------------------------------------------------------
(* The operations.  Each validates against the table before it logs. *)

(* Fault: a mutation path that forgets to ask whether a WAL tracks the table. *)
MutateUnlogged_Bypass ==
    /\ up /\ pc = "idle"
    /\ \E op \in Ops :
        /\ Accepts(op, rows)
        /\ rows' = Apply(op, rows)
    /\ UNCHANGED <<up, wal, pc, pending, files, promised, indoubt>>

(* A mutation of a table no WAL tracks is applied at once. *)
MutateUnlogged ==
    /\ up /\ pc = "idle" /\ wal.mode = "none"
    /\ \E op \in Ops :
        /\ Accepts(op, rows)
        /\ rows' = Apply(op, rows)
    /\ UNCHANGED <<up, wal, pc, pending, files, promised, indoubt>>

(* A mutation of the tracked table: append_values, truncate or
   replace_values up to the first write of write_committed_record. *)
BeginCommit ==
    /\ up /\ pc = "idle" /\ wal.mode = "ready"
    /\ \E op \in Ops :
        /\ Accepts(op, rows)
        /\ FitsLimits(Len(EncodePayload(op)), wal.file_bytes, wal.records)
        /\ pending' = op
        /\ indoubt' = [indoubt EXCEPT ![wal.path] = SomeRows(Apply(op, rows))]
    /\ pc' = "write_body"
    /\ UNCHANGED <<up, rows, wal, files, promised>>

(* enable_int64_write_ahead_log: size check, exclusive creation, bootstrap. *)
Enable ==
    /\ up /\ pc = "idle" /\ wal.mode = "none"
    /\ FitsLimits(Len(EncodePayload(BootstrapOp(rows))), 0, 0)
    /\ \E p \in Paths :
        /\ files[p].entry = "absent"
        /\ files' = [files EXCEPT ![p].entry = "created"]
        /\ wal' = Writer(p, 0, 0, "creating")
        /\ indoubt' = [indoubt EXCEPT ![p] = SomeRows(rows)]
    /\ pending' = BootstrapOp(rows)
    /\ pc' = "write_body"
    /\ UNCHANGED <<up, rows, promised>>

-----------------------------------------------------------------------------
(* write_committed_record: body, sync, footer, sync. *)

WriteBody ==
    /\ pc = "write_body"
    /\ files' = [files EXCEPT ![wal.path].cells = @ \o Body]
    /\ pc' = "sync_body"
    /\ UNCHANGED <<up, rows, wal, pending, promised, indoubt>>

SyncBody ==
    /\ pc = "sync_body"
    /\ files' = [files EXCEPT ![wal.path].synced = Len(TheFile.cells)]
    /\ pc' = "write_footer"
    /\ UNCHANGED <<up, rows, wal, pending, promised, indoubt>>

WriteFooter ==
    /\ pc = "write_footer"
    /\ files' = [files EXCEPT ![wal.path].cells = @ \o Footer]
    /\ pc' = "sync_footer"
    /\ UNCHANGED <<up, rows, wal, pending, promised, indoubt>>

(* The record is acknowledged: the caller sees Ok and the rows are published. *)
Acknowledge(p, newRows) ==
    /\ rows' = newRows
    /\ promised' = [promised EXCEPT ![p] = SomeRows(newRows)]
    /\ indoubt' = [indoubt EXCEPT ![p] = NoRows]
    /\ pc' = "idle"
    /\ pending' = NoOp

(* append_record returns Ok with the file synced up to `synced'; it charges
   `bytes' to the file and the engine applies the operation in memory. *)
FinishCommit(synced, bytes) ==
    /\ pc = "sync_footer" /\ wal.mode = "ready"
    /\ files' = [files EXCEPT ![wal.path] =
                    [entry |-> TheFile.entry, cells |-> TheFile.cells,
                     synced |-> synced, acked |-> Len(TheFile.cells)]]
    /\ wal' = [wal EXCEPT !.file_bytes = @ + bytes, !.records = @ + 1]
    /\ Acknowledge(wal.path, Apply(pending, rows))
    /\ UNCHANGED up

FrameLen == FrameOverhead + Len(EncodePayload(pending))

(* Faults: the second sync is left out; only the payload is charged. *)
SyncFooter_NoSync == FinishCommit(TheFile.synced, FrameLen)
SyncFooter_PayloadOnly == FinishCommit(Len(TheFile.cells), Len(EncodePayload(pending)))

(* The final sync of a mutation. *)
SyncFooter == FinishCommit(Len(TheFile.cells), FrameLen)

SyncBootstrapFooter ==
    /\ pc = "sync_footer" /\ wal.mode = "creating"
    /\ files' = [files EXCEPT ![wal.path].synced = Len(TheFile.cells)]
    /\ pc' = "sync_parent"
    /\ UNCHANGED <<up, rows, wal, pending, promised, indoubt>>

(* Int64WriteAheadLog::create returns Ok; `entry' is the durability of the
   directory entry. *)
FinishCreate(entry) ==
    /\ pc = "sync_parent"
    /\ files' = [files EXCEPT ![wal.path] =
                    [entry |-> entry, cells |-> TheFile.cells,
                     synced |-> TheFile.synced, acked |-> Len(TheFile.cells)]]
    /\ wal' = Writer(wal.path, FrameLen, 1, "ready")
    /\ Acknowledge(wal.path, rows)
    /\ UNCHANGED up

(* Fault: creation does not sync the parent directory. *)
SyncParent_NoSync == FinishCreate("created")

(* create_committed_wal_file makes the directory entry durable last. *)
SyncParent == FinishCreate("durable")

-----------------------------------------------------------------------------
(* Failures: a short write leaves a prefix, a failed sync promises nothing.
   append_record poisons the writer; a failed create leaves the file behind
   and no writer. *)

Poison ==
    /\ wal' = IF wal.mode = "creating" THEN NoWal ELSE [wal EXCEPT !.mode = "poisoned"]
    /\ pc' = "idle"
    /\ pending' = NoOp
    /\ UNCHANGED <<up, rows, promised, indoubt>>

WriteFails ==
    /\ pc \in {"write_body", "write_footer"}
    /\ LET data == IF pc = "write_body" THEN Body ELSE Footer
       IN  \E n \in 0..Len(data) - 1 :
             files' = [files EXCEPT ![wal.path].cells = @ \o SubSeq(data, 1, n)]
    /\ Poison

SyncFails ==
    /\ pc \in {"sync_body", "sync_footer", "sync_parent"}
    /\ Poison
    /\ UNCHANGED files

(* disable_int64_write_ahead_log drops the writer; the file stays. *)
Disable ==
    /\ up /\ pc = "idle" /\ wal.mode # "none"
    /\ wal' = NoWal
    /\ UNCHANGED <<up, rows, pc, pending, files, promised, indoubt>>

-----------------------------------------------------------------------------
(* What storage may hold after a crash: every synced cell, and of the rest a
   prefix, or with Holes any cells up to some length. *)
Lost(f, n) == IF Holes THEN SUBSET ((f.synced + 1)..n) ELSE {{}}

Image(f, n, lost) == [i \in 1..n |-> IF i \in lost THEN ZeroCell ELSE f.cells[i]]

Images(f) ==
    UNION {{Image(f, n, lost) : lost \in Lost(f, n)} : n \in f.synced..Len(f.cells)}

(* An entry whose directory was never synced may vanish. *)
AfterCrash(f) ==
    {[entry |-> IF f.entry = "absent" THEN "absent" ELSE "durable",
      cells |-> img, synced |-> Len(img), acked |-> f.acked] : img \in Images(f)}
    \cup (IF f.entry = "created" THEN {NoFile} ELSE {})

Crash ==
    /\ up
    /\ \E choice \in [Paths -> UNION {AfterCrash(files[p]) : p \in Paths}] :
        /\ \A p \in Paths : choice[p] \in AfterCrash(files[p])
        /\ files' = choice
    /\ up' = FALSE
    /\ rows' = << >>
    /\ wal' = NoWal
    /\ pc' = "idle"
    /\ pending' = NoOp
    /\ UNCHANGED <<promised, indoubt>>

(* Table::with_int64_values and ::with_nullable_int64_values check the rows
   against the limits stored in the bootstrap. *)
TableAccepts(rs) == rs \in Seq(RowValues) /\ Len(rs) <= RowCap

(* recover_int64_write_ahead_log: a fresh database with no writer attached;
   on any error no database is returned. *)
Recover ==
    /\ ~up
    /\ \E p \in Paths :
        /\ files[p].entry # "absent"
        /\ LET r == RecoverFile(files[p].cells, MaxRecords)
           IN  /\ r.err = "none"
               /\ TableAccepts(r.rows)
               /\ up' = TRUE
               /\ rows' = r.rows
    /\ UNCHANGED <<wal, pc, pending, files, promised, indoubt>>

Next ==
    \/ MutateUnlogged \/ BeginCommit \/ Enable \/ Disable
    \/ WriteBody \/ SyncBody \/ WriteFooter
    \/ SyncFooter \/ SyncBootstrapFooter \/ SyncParent
    \/ WriteFails \/ SyncFails
    \/ Crash \/ Recover

Spec == Init /\ [][Next]_vars
-----------------------------------------------------------------------------
(* Properties. *)

IsSeq(s) == s \in Seq({s[i] : i \in DOMAIN s})

FileTypeOK(f) ==
    /\ f \in [entry : {"absent", "created", "durable"}, cells : {f.cells},
              synced : Nat, acked : Nat]
    /\ IsSeq(f.cells)
    /\ f.acked <= f.synced
    /\ f.synced <= Len(f.cells)

(* The rows fit the table's cap, a commit is under way only in a live
   database with a healthy writer, and of every file the acknowledged part is
   synced and the synced part is there. *)
TypeOK ==
    /\ up \in BOOLEAN
    /\ rows \in Seq(RowValues)
    /\ Len(rows) <= RowCap
    /\ \/ wal = NoWal
       \/ wal \in [mode : {"creating", "ready", "poisoned"}, path : Paths,
                   file_bytes : Nat, records : Nat]
    /\ pc \in {"idle", "write_body", "sync_body", "write_footer", "sync_footer",
               "sync_parent"}
    /\ pc = "idle" => pending = NoOp
    /\ pc # "idle" => /\ up /\ wal.mode \in {"creating", "ready"}
                     /\ IF wal.mode = "creating" THEN pending = BootstrapOp(rows)
                        ELSE pending \in Ops /\ Accepts(pending, rows)
    /\ files = [p \in Paths |-> files[p]]
    /\ \A p \in Paths : FileTypeOK(files[p])
    /\ promised = [p \in Paths |-> promised[p]]
    /\ indoubt = [p \in Paths |-> indoubt[p]]

(* Recovery soundness: whatever storage holds, a successful recovery returns
   the rows of the last acknowledged record or of the one record whose commit
   was attempted and not acknowledged; never a mixture, a stale state or an
   operation that was refused. *)
RecoverySound ==
    \A p \in Paths :
        LET r == RecoverFile(files[p].cells, MaxRecords)
        IN  files[p].entry # "absent" /\ r.err = "none"
                => SomeRows(r.rows) \in {promised[p], indoubt[p]}

(* Recovery completeness: a log whose creation was acknowledged can always be
   recovered under the limits it was written with, whatever was torn by a
   failed write or a crash since. *)
RecoveryComplete ==
    \A p \in Paths :
        promised[p].some =>
            /\ files[p].entry = "durable"
            /\ RecoverFile(files[p].cells, MaxRecords).err = "none"

(* While a writer is attached and no commit is under way, the rows that
   queries see are the rows the log promises: no mutation bypasses the log
   and no refused or failed one is published. *)
MemoryMatchesLog ==
    (wal.mode # "none" /\ pc = "idle") => promised[wal.path] = SomeRows(rows)

(* The writer's cached file_bytes and records, from which the limits of the
   next record are computed, agree with the file, and no file outgrows the
   limit recovery will hold it to. *)
WriterAccounting ==
    /\ (wal.mode \in {"ready", "poisoned"} /\ pc = "idle") =>
        /\ wal.file_bytes = TheFile.acked
        /\ wal.mode = "ready" => Len(TheFile.cells) = wal.file_bytes
        /\ wal.records <= MaxRecords
    /\ \A p \in Paths : Len(files[p].cells) <= MaxFileBytes

(* Acknowledged bytes are immutable: no write, failure or crash changes or
   shortens the part of a file that an acknowledged commit covers. *)
AckedBytesStable ==
    [][\A p \in Paths :
         /\ files'[p].acked >= files[p].acked
         /\ Len(files'[p].cells) >= files[p].acked
         /\ \A i \in 1..files[p].acked : files'[p].cells[i] = files[p].cells[i]]_vars

(* What is known of the file at each program point of a commit: the part of
   the inductive invariant that TypeOK, WriterAccounting, MemoryMatchesLog and
   AckedBytesStable rest on. *)
Written ==
    IF pc = "write_body" THEN 0
    ELSE IF pc \in {"sync_body", "write_footer"}
         THEN HeaderLen + Len(EncodePayload(pending))
    ELSE FrameLen

FilesBounded ==
    \A p \in Paths :
        /\ files[p].entry = "absent" => files[p] = NoFile
        /\ files[p].acked > 0 => files[p].entry = "durable"
        /\ Len(files[p].cells) <= MaxFileBytes

WriterConsistent ==
    /\ ~up => wal.mode = "none"
    /\ wal.mode # "none" => /\ TheFile.entry # "absent"
                            /\ wal.records <= MaxRecords
    /\ wal.mode = "creating" => /\ pc # "idle"
                                /\ wal.file_bytes = 0 /\ wal.records = 0
                                /\ TheFile.acked = 0
    /\ wal.mode \in {"ready", "poisoned"} =>
        /\ pc # "sync_parent"
        /\ TheFile.entry = "durable"
        /\ TheFile.acked = wal.file_bytes
        /\ promised[wal.path] = SomeRows(rows)
    /\ (wal.mode = "ready" /\ pc = "idle") => Len(TheFile.cells) = wal.file_bytes

RecordFits ==
    pc # "idle" =>
        /\ Len(TheFile.cells) = wal.file_bytes + Written
        /\ wal.file_bytes + FrameLen <= MaxFileBytes
        /\ wal.records + 1 <= MaxRecords
        /\ pc = "sync_parent" => TheFile.synced = Len(TheFile.cells)

CommitProgress == FilesBounded /\ WriterConsistent /\ RecordFits

(* The abstract promise of a logged table. *)
Durable == INSTANCE DurableTable
    WITH log <- IF wal.mode \in {"ready", "poisoned"} THEN {wal.path} ELSE {},
         RowStates <- RowsType

(* Int64Wal implements DurableTable: bytes, syncs, frames and replay amount
   to an atomic commit that a failure or a crash may leave in doubt. *)
ImplementsDurableTable == Durable!Spec
=============================================================================
