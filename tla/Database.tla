------------------------------ MODULE Database ------------------------------
(***************************************************************************)
(* Database and Catalog (src/batch/engine.rs, src/batch/catalog.rs): the   *)
(* statements and library calls that change a database, one action each.   *)
(* A statement that fails any of its checks changes nothing, so only the   *)
(* accepted calls appear as steps.                                         *)
(*                                                                         *)
(* Names are the lower-cased keys of the catalog.  The write-ahead log is  *)
(* reduced to what the engine owes it: `replayed' is what its records      *)
(* amount to, a log call that fails refuses the statement.                 *)
(***************************************************************************)
EXTENDS Introspection

CONSTANTS
    Names,        \* table names
    MaxBatch,     \* bound: rows of one INSERT
    IndexLimits,  \* the Int64MinMaxIndexLimits offered
    MaxParts,     \* bound: partitions of one range-partitioned table
    RestoredCaps  \* the row caps a restored snapshot may come with

ASSUME DatabaseAssumption == RestoredCaps \subseteq Nat

VARIABLES
    tables,    \* Catalog.tables
    measure,   \* Database.measurements
    replayed   \* per logged table, the rows its log records amount to

dbVars == <<tables, measure, replayed>>

-----------------------------------------------------------------------------
(* DatabaseMeasurements and TableMeasurements. *)

Reading(t) == [columns |-> Len(t.schema), rows |-> t.row_count, bytes |-> t.bytes]
NoReading == [columns |-> 0, rows |-> 0, bytes |-> 0]

Plus(m, r) == [k \in DOMAIN m |-> m[k] + r[k]]
Minus(m, r) == [k \in DOMAIN m |-> SatSub(m[k], r[k])]

(* wal_tracks. *)
Logged(n) == n \in DOMAIN replayed

Put(n, t) == [m \in DOMAIN tables \cup {n} |-> IF m = n THEN t ELSE tables[m]]

(* table_mut: the guard re-measures the table when it is dropped. *)
Mutate(n, t) ==
    /\ tables' = Put(n, t)
    /\ measure' = Plus(Minus(measure, Reading(tables[n])), Reading(t))

(* register_table and the measurements added after it. *)
Register(n, t) ==
    /\ n \notin DOMAIN tables
    /\ tables' = Put(n, t)
    /\ measure' = Plus(measure, Reading(t))

Init ==
    /\ tables = [n \in {} |-> n]
    /\ measure = NoReading
    /\ replayed = [n \in {} |-> n]

-----------------------------------------------------------------------------
(* CREATE, DROP and RENAME TABLE. *)

Fields == [name : ColumnNames, type : Types]

CreateTable(n) ==
    /\ \E k \in 1..MaxColumns : \E schema \in [1..k -> Fields] :
        /\ ValidSchema(schema)
        /\ Register(n, EmptyTable(schema))
    /\ UNCHANGED replayed

(* create_int64_range_partitioned_table. *)
CreatePartitioned(n) ==
    /\ n \notin DOMAIN tables
    /\ \E k \in 1..MaxParts, name \in ColumnNames :
       \E bounds \in [1..k -> [lower : Int64, upper : Int64]] :
       \E values \in [1..k -> BoundedSeq(Int64, MaxBatch)] :
         LET ps == [i \in 1..k |-> [lower |-> bounds[i].lower, upper |-> bounds[i].upper,
                                    values |-> values[i]]]
         IN  /\ ValidPartitions(ps)
             /\ ValidSchema(<<[name |-> name, type |-> "Int64"]>>)
             /\ RowCapacity(EmptyTable(<<[name |-> name, type |-> "Int64"]>>),
                            Len(PartitionValues(ps)))
             /\ Register(n, PartitionedTable(name, ps))
    /\ UNCHANGED replayed

(* reject_unlogged_wal_mutation guards everything but appends, truncation
   and replacement. *)
DropTable(n) ==
    /\ n \in DOMAIN tables /\ ~Logged(n)
    /\ tables' = [m \in DOMAIN tables \ {n} |-> tables[m]]
    /\ measure' = Minus(measure, Reading(tables[n]))
    /\ UNCHANGED replayed

RenameTable(n, m) ==
    /\ n \in DOMAIN tables /\ ~Logged(n)
    /\ n # m /\ m \notin DOMAIN tables
    /\ tables' = [k \in (DOMAIN tables \ {n}) \cup {m} |->
                    IF k = m THEN tables[n] ELSE tables[k]]
    /\ UNCHANGED <<measure, replayed>>

-----------------------------------------------------------------------------
(* ALTER TABLE on columns. *)

AddColumnTo(n) ==
    /\ n \in DOMAIN tables /\ ~Logged(n)
    /\ \E f \in Fields :
        /\ CanShowAfterAdding(tables[n], f.type)
        /\ CanAddColumn(tables[n], f.name)
        /\ Mutate(n, AddColumn(tables[n], f.name, f.type))
    /\ UNCHANGED replayed

DropColumnOf(n) ==
    /\ n \in DOMAIN tables /\ ~Logged(n)
    /\ CanDropColumn(tables[n])
    /\ \E c \in DOMAIN tables[n].schema : Mutate(n, DropColumn(tables[n], c))
    /\ UNCHANGED replayed

(* Goes to the catalog without the measuring guard. *)
RenameColumnOf(n) ==
    /\ n \in DOMAIN tables /\ ~Logged(n)
    /\ \E c \in DOMAIN tables[n].schema, name \in ColumnNames :
        /\ CanRenameColumn(tables[n], c, name)
        /\ tables' = Put(n, RenameColumn(tables[n], c, name))
    /\ UNCHANGED <<measure, replayed>>

-----------------------------------------------------------------------------
(* Row statements: each logs first when the table is tracked. *)

(* The rows a statement may supply for the columns it names; prepare_insert_rows
   fills the others with defaults. *)
RowsFor(t, cols, k) ==
    {[r \in 1..k |-> [c \in DOMAIN t.schema |->
        IF c \in cols THEN given[r][c] ELSE Default(t.schema[c].type)]] :
     given \in [1..k -> {g \in [cols -> UNION {ValuesOf(t.schema[c].type) : c \in cols}] :
                            \A c \in cols : g[c] \in ValuesOf(t.schema[c].type)}]}

InsertRows(t) ==
    UNION {UNION {RowsFor(t, cols, k) : k \in 0..MaxBatch} : cols \in (SUBSET DOMAIN t.schema) \ {{}}}

(* The log record of an append: the one column of a tracked table. *)
LogAppend(n, rows) ==
    replayed' = IF Logged(n)
                THEN [replayed EXCEPT ![n] = @ \o [r \in DOMAIN rows |-> rows[r][1]]]
                ELSE replayed

(* INSERT, append_nullable_int64_values and every ingest_* call. *)
Insert(n) ==
    /\ n \in DOMAIN tables
    /\ \E rows \in InsertRows(tables[n]) :
        /\ RowCapacity(tables[n], Len(rows))
        /\ Mutate(n, AppendRows(tables[n], rows))
        /\ LogAppend(n, rows)

(* Fault: every INSERT of a batch is held to the capacity on its own. *)
BatchCapacity_Separate(n, first, second) ==
    RowCapacity(tables[n], Len(first)) /\ RowCapacity(tables[n], Len(second))

(* prepare_insert_rows charges the rows of the whole batch so far. *)
BatchCapacity(n, first, second) ==
    RowCapacity(tables[n], Len(first)) /\ RowCapacity(tables[n], Len(first) + Len(second))

(* execute_insert_statements on two INSERTs into one table: both prepared
   before either is applied, one log record for both. *)
InsertBatch(n) ==
    /\ n \in DOMAIN tables
    /\ \E first, second \in InsertRows(tables[n]) :
        /\ BatchCapacity(n, first, second)
        /\ Mutate(n, AppendRows(AppendRows(tables[n], first), second))
        /\ LogAppend(n, first \o second)

(* ... and into two tables, at most one of them tracked. *)
InsertBatchAcross(n, m) ==
    /\ n # m /\ n \in DOMAIN tables /\ m \in DOMAIN tables
    /\ ~(Logged(n) /\ Logged(m))
    /\ \E first \in InsertRows(tables[n]), second \in InsertRows(tables[m]) :
        LET t == AppendRows(tables[n], first)
            u == AppendRows(tables[m], second)
        IN  /\ RowCapacity(tables[n], Len(first))
            /\ RowCapacity(tables[m], Len(second))
            /\ tables' = [tables EXCEPT ![n] = t, ![m] = u]
            /\ measure' = Plus(Minus(Plus(Minus(measure, Reading(tables[n])), Reading(t)),
                                     Reading(tables[m])), Reading(u))
            /\ IF Logged(n) THEN LogAppend(n, first) ELSE LogAppend(m, second)

Truncate(n) ==
    /\ n \in DOMAIN tables
    /\ Mutate(n, TruncateTable(tables[n]))
    /\ replayed' = IF Logged(n) THEN [replayed EXCEPT ![n] = << >>] ELSE replayed

(* Fault: DELETE forgets that it cannot be logged. *)
Delete_Unguarded(n) ==
    /\ n \in DOMAIN tables
    /\ \E rows \in SUBSET (1..tables[n].row_count) : Mutate(n, DeleteRows(tables[n], rows))
    /\ UNCHANGED replayed

(* DELETE with any predicate: the rows it matches, in order. *)
Delete(n) ==
    /\ n \in DOMAIN tables /\ ~Logged(n)
    /\ \E rows \in SUBSET (1..tables[n].row_count) : Mutate(n, DeleteRows(tables[n], rows))
    /\ UNCHANGED replayed

(* Replacements are logged row by row, then applied. *)
ReplaceIn(n, column, new) ==
    /\ Mutate(n, ReplaceValues(tables[n], column, new))
    /\ replayed' = IF Logged(n)
                   THEN [replayed EXCEPT ![n] =
                            [r \in DOMAIN @ |-> IF r \in DOMAIN new THEN new[r] ELSE @[r]]]
                   ELSE replayed

(* ALTER TABLE UPDATE c = v WHERE d = w. *)
Update(n) ==
    /\ n \in DOMAIN tables
    /\ LET t == tables[n]
       IN  \E c, d \in DOMAIN t.schema :
           \E v \in ValuesOf(t.schema[c].type), w \in ValuesOf(t.schema[d].type) \ {Null} :
             ReplaceIn(n, c, [r \in {x \in 1..t.row_count : t.columns[d][x] = w} |-> v])

(* replace_nullable_int64_values: any selection, a value of its own per row. *)
ReplaceNullable(n) ==
    /\ n \in DOMAIN tables
    /\ Len(tables[n].schema) = 1 /\ tables[n].schema[1].type = "NullableInt64"
    /\ \E rows \in SUBSET (1..tables[n].row_count) :
       \E new \in [rows -> ValuesOf("NullableInt64")] : ReplaceIn(n, 1, new)

-----------------------------------------------------------------------------
(* The sparse index: one slot in the whole database. *)

(* int64_min_max_index_owner is this table or nobody. *)
SlotFree(n) == \A m \in DOMAIN tables : tables[m].index.some => m = n

CreateIndex(n) ==
    /\ n \in DOMAIN tables
    /\ SlotFree(n)
    /\ \E c \in DOMAIN tables[n].schema, limits \in IndexLimits :
        /\ IsInt64(tables[n].schema[c].type)
        /\ BuildIndex(tables[n], c, limits).some
        /\ Mutate(n, [tables[n] EXCEPT !.index = BuildIndex(tables[n], c, limits)])
    /\ UNCHANGED replayed

DropIndex(n) ==
    /\ n \in DOMAIN tables
    /\ Mutate(n, [tables[n] EXCEPT !.index = NoIndex])
    /\ UNCHANGED replayed

-----------------------------------------------------------------------------
(* Snapshots.  prepare_decoded_int64_table turns a decoded one-column table
   with its own row cap into a batch table. *)
Restored ==
    [name : ColumnNames, type : Types \cap {"Int64", "NullableInt64"},
     row_cap : RestoredCaps, values : BoundedSeq(Int64 \cup {Null}, MaxRows)]

RestoredTables ==
    {NewTable(<<[name |-> s.name, type |-> s.type]>>, s.row_cap, <<s.values>>) : s \in Restored}

Decoded ==
    {t \in RestoredTables :
        /\ t.max_rows <= MaxRows
        /\ ValidSchema(t.schema)
        /\ t.row_count <= t.max_rows
        /\ t.row_count <= MaxCells
        /\ \A r \in DOMAIN t.columns[1] :
             t.columns[1][r] \in ValuesOf(t.schema[1].type)}

Restore(n) ==
    /\ \E t \in Decoded : Register(n, t)
    /\ UNCHANGED replayed

(* restore_int64_tables_from_files: every entry staged, then all published. *)
RestoreSet(n, m) ==
    /\ n # m /\ {n, m} \cap DOMAIN tables = {}
    /\ \E t, u \in Decoded :
        /\ tables' = [k \in DOMAIN tables \cup {n, m} |->
                        IF k = n THEN t ELSE IF k = m THEN u ELSE tables[k]]
        /\ measure' = Plus(measure, Plus(Plus(NoReading, Reading(t)), Reading(u)))
    /\ UNCHANGED replayed

(* replace_int64_table_from_file, with or without a backup. *)
ReplaceRestored(n) ==
    /\ n \in DOMAIN tables /\ ~Logged(n)
    /\ \E t \in Decoded : Mutate(n, t)
    /\ UNCHANGED replayed

-----------------------------------------------------------------------------
(* enable_int64_write_ahead_log(_registry): one-column Int64 tables only, one
   WAL or registry at a time; disable drops it. *)
EnableWal(S) ==
    /\ S # {} /\ DOMAIN replayed = {}
    /\ S \subseteq DOMAIN tables
    /\ \A n \in S : Len(tables[n].schema) = 1 /\ IsInt64(tables[n].schema[1].type)
    /\ replayed' = [n \in S |-> tables[n].columns[1]]
    /\ UNCHANGED <<tables, measure>>

DisableWal ==
    /\ DOMAIN replayed # {}
    /\ replayed' = [n \in {} |-> n]
    /\ UNCHANGED <<tables, measure>>

Next ==
    \/ \E n \in Names :
        \/ CreateTable(n) \/ CreatePartitioned(n) \/ DropTable(n)
        \/ AddColumnTo(n) \/ DropColumnOf(n) \/ RenameColumnOf(n)
        \/ Insert(n) \/ InsertBatch(n) \/ Truncate(n) \/ Delete(n)
        \/ Update(n) \/ ReplaceNullable(n)
        \/ CreateIndex(n) \/ DropIndex(n)
        \/ Restore(n) \/ ReplaceRestored(n)
        \/ \E m \in Names : RenameTable(n, m) \/ InsertBatchAcross(n, m) \/ RestoreSet(n, m)
    \/ \E S \in SUBSET Names : EnableWal(S)
    \/ DisableWal

Spec == Init /\ [][Next]_dbVars
-----------------------------------------------------------------------------
(* Properties. *)

(* Every table is rectangular, typed by its schema, and inside the row,
   column and cell limits: no statement, batch or restore gets around one. *)
TablesWellFormed ==
    \A n \in DOMAIN tables :
        LET t == tables[n]
        IN  /\ ValidSchema(t.schema)
            /\ DOMAIN t.columns = DOMAIN t.schema
            /\ \A c \in DOMAIN t.columns :
                 /\ Len(t.columns[c]) = t.row_count
                 /\ \A r \in DOMAIN t.columns[c] :
                      t.columns[c][r] \in ValuesOf(t.schema[c].type)
            /\ t.row_count <= t.max_rows
            /\ t.row_count * Len(t.schema) <= MaxCells

(* What the database reports of itself agrees: system.metrics, kept by
   increments, is what system.tables, system.columns and a recount of every
   value in the catalog give. *)
MeasurementsExact ==
    SystemMetrics(tables, measure) =
        [tables  |-> Cardinality(SystemTables(tables)),
         columns |-> Cardinality(SystemColumns(tables)),
         rows    |-> MapThenSumSet(LAMBDA row : row.total_rows, SystemTables(tables)),
         bytes   |-> MapThenSumSet(LAMBDA n : TotalBytes(tables[n].schema, tables[n].columns), DOMAIN tables)]

(* A tracked table is still one Int64 column and holds exactly what its log
   records amount to: no statement reaches it behind the log's back. *)
LoggedTablesFollowLog ==
    \A n \in DOMAIN replayed :
        /\ n \in DOMAIN tables
        /\ Len(tables[n].schema) = 1 /\ IsInt64(tables[n].schema[1].type)
        /\ tables[n].columns[1] = replayed[n]

(* The one sparse index of the database is never stale: whatever was created,
   dropped, renamed, replaced or altered, at most one table holds an index,
   and it describes the current generation, the current rows and an Int64
   column, block for block. *)
IndexFresh ==
    \A n \in DOMAIN tables :
        LET t == tables[n]
        IN  t.index.some =>
              /\ \A m \in DOMAIN tables : tables[m].index.some => m = n
              /\ t.index.column \in DOMAIN t.schema
              /\ IsInt64(t.schema[t.index.column].type)
              /\ t.index = BuildIndex(t, t.index.column, t.index.limits)
=============================================================================
