------------------------------- MODULE Table -------------------------------
(***************************************************************************)
(* The in-memory columnar table of src/batch/storage.rs: typed columns,    *)
(* retained-byte accounting, resource limits, range-partition metadata and *)
(* the sparse min-max index with its generation stamp.                     *)
(*                                                                         *)
(* Every operator maps a table to the table the method leaves behind.      *)
(* Rows are numbered from 1.  A String is represented by its byte length,  *)
(* the only thing storage looks at.                                        *)
(***************************************************************************)
EXTENDS Integers, Sequences, FiniteSets, FiniteSetsExt, SequencesExt

CONSTANTS
    I64Min, I64Max,   \* the range of i64
    Null,             \* the NULL of a Nullable(Int64) column
    MaxString,        \* bound: bytes of a String value
    Types,            \* column types in use
    ColumnNames,
    MaxRows,          \* TableLimits of the database
    MaxColumns,
    MaxCells,
    GenerationMod     \* 2^64 in the code: mutation_generation wraps

ASSUME TableAssumption ==
    /\ I64Min \in Int /\ I64Max \in Int /\ I64Min <= 0 /\ 0 <= I64Max
    /\ Null \notin Int
    /\ Types \subseteq {"Int64", "NullableInt64", "Float64", "Bool", "String"}
    /\ MaxString \in Nat
    /\ MaxRows \in Nat /\ MaxColumns \in Nat /\ MaxCells \in Nat
    /\ GenerationMod \in Nat \ {0}

Int64 == I64Min..I64Max

ValuesOf(type) ==
    CASE type = "Int64" -> Int64
      [] type = "NullableInt64" -> Int64 \cup {Null}
      [] type = "String" -> 0..MaxString
      [] type \in {"Float64", "Bool"} -> {0, 1}

IsInt64(type) == type \in {"Int64", "NullableInt64"}

(* Column::push: the bytes one value retains. *)
ValueBytes(type, v) ==
    CASE type \in {"Int64", "Float64"} -> 8
      [] type = "NullableInt64" -> 9
      [] type = "Bool" -> 1
      [] type = "String" -> v

ColumnBytes(type, column) ==
    MapThenSumSet(LAMBDA r : ValueBytes(type, column[r]), DOMAIN column)

TotalBytes(schema, columns) ==
    MapThenSumSet(LAMBDA c : ColumnBytes(schema[c].type, columns[c]), DOMAIN columns)

(* The value an omitted or added column is filled with. *)
Default(type) == IF type = "NullableInt64" THEN Null ELSE 0

SatSub(a, b) == IF a > b THEN a - b ELSE 0

NoIndex == [some |-> FALSE]
NoPartitions == [some |-> FALSE]

DivCeil(a, b) == (a + b - 1) \div b

-----------------------------------------------------------------------------
(* Construction: with_limits and with_*int64_values. *)

NewTable(schema, maxRows, columns) ==
    [schema     |-> schema,
     columns    |-> columns,
     row_count  |-> IF columns = << >> THEN 0 ELSE Len(columns[1]),
     bytes      |-> TotalBytes(schema, columns),
     max_rows   |-> maxRows,
     generation |-> 0,
     index      |-> NoIndex,
     partitions |-> NoPartitions]

EmptyTable(schema) == NewTable(schema, MaxRows, [c \in DOMAIN schema |-> << >>])

ValidSchema(schema) ==
    /\ schema # << >>
    /\ Len(schema) <= MaxColumns
    /\ \A i, j \in DOMAIN schema : i # j => schema[i].name # schema[j].name

(* validate_row_capacity: rows first, then cells. *)
RowCapacity(t, incoming) ==
    /\ incoming <= SatSub(t.max_rows, t.row_count)
    /\ (t.row_count + incoming) * Len(t.schema) <= MaxCells

-----------------------------------------------------------------------------
(* The sparse index: per block of block_rows rows, minimum, maximum and
   number of NULLs. *)

SummarizeBlock(first, values) ==
    LET present == {values[i] : i \in {j \in DOMAIN values : values[j] # Null}}
    IN  [first_row  |-> first,
         row_count  |-> Len(values),
         min        |-> IF present = {} THEN Null ELSE Min(present),
         max        |-> IF present = {} THEN Null ELSE Max(present),
         null_count |-> Cardinality({i \in DOMAIN values : values[i] = Null})]

(* build_int64_min_max_index; `limits.max_blocks' also stands for max_bytes,
   which the code compares with a fixed multiple of the same block count. *)
BuildIndex(t, column, limits) ==
    LET n == DivCeil(t.row_count, limits.block_rows)
        block(b) == SummarizeBlock(
                        (b - 1) * limits.block_rows,
                        SubSeq(t.columns[column], (b - 1) * limits.block_rows + 1,
                               Min({b * limits.block_rows, t.row_count})))
    IN  IF n > limits.max_blocks THEN NoIndex
        ELSE [some |-> TRUE, column |-> column, limits |-> limits,
              indexed_rows |-> t.row_count,
              source_generation |-> t.generation,
              blocks |-> [b \in 1..n |-> block(b)]]

NextGeneration(t) == (t.generation + 1) % GenerationMod

(* Fault: the partition metadata survives a mutation. *)
MarkMutated_KeepsPartitions(t) == [t EXCEPT !.generation = NextGeneration(t)]

(* mark_values_mutated: partitions go, the generation advances, the index is
   rebuilt within its own limits or given up. *)
MarkMutated(t) ==
    LET m == [t EXCEPT !.partitions = NoPartitions, !.generation = NextGeneration(t)]
    IN  IF t.index.some
        THEN [m EXCEPT !.index = BuildIndex(m, t.index.column, t.index.limits)]
        ELSE m

-----------------------------------------------------------------------------
(* Row operations. *)

(* append_validated_rows and append_prepared_insert_rows: `rows' are complete
   rows, a function from column positions to values each. *)
AppendRows(t, rows) ==
    LET added == [c \in DOMAIN t.columns |-> [r \in DOMAIN rows |-> rows[r][c]]]
        u == [t EXCEPT
                !.columns = [c \in DOMAIN t.columns |-> t.columns[c] \o added[c]],
                !.row_count = @ + Len(rows),
                !.bytes = @ + TotalBytes(t.schema, added)]
    IN  IF rows = << >> THEN t ELSE MarkMutated(u)

(* The bytes of the strings in some rows: a String is its length. *)
TextBytes(column, rows) == MapThenSumSet(LAMBDA r : column[r], rows)

(* Fault: the bytes of replaced values stay charged. *)
ReplaceValues_NoRefund(t, column, new) ==
    LET u == [t EXCEPT
                !.columns[column] = [r \in DOMAIN @ |-> IF r \in DOMAIN new THEN new[r] ELSE @[r]],
                !.bytes = IF t.schema[column].type = "String"
                          THEN @ + TextBytes(new, DOMAIN new) ELSE @]
    IN  IF DOMAIN new = {} THEN t ELSE MarkMutated(u)

(* replace_column_values: `new' maps the selected rows to their values; only a
   String changes the retained bytes. *)
ReplaceValues(t, column, new) ==
    LET u == [t EXCEPT
                !.columns[column] = [r \in DOMAIN @ |-> IF r \in DOMAIN new THEN new[r] ELSE @[r]],
                !.bytes = IF t.schema[column].type = "String"
                          THEN SatSub(@, TextBytes(t.columns[column], DOMAIN new))
                                 + TextBytes(new, DOMAIN new)
                          ELSE @]
    IN  IF DOMAIN new = {} THEN t ELSE MarkMutated(u)

(* compact_deleted_rows: one pass over the column retains the other rows. *)
Compact(column, rows) ==
    LET retained[r \in 0..Len(column)] ==
            IF r = 0 THEN << >>
            ELSE IF r \in rows THEN retained[r - 1] ELSE Append(retained[r - 1], column[r])
    IN  retained[Len(column)]

DeletedBytes(t, rows) ==
    MapThenSumSet(LAMBDA c : MapThenSumSet(
                      LAMBDA r : ValueBytes(t.schema[c].type, t.columns[c][r]), rows),
                  DOMAIN t.columns)

DeleteRows(t, rows) ==
    LET u == [t EXCEPT
                !.columns = [c \in DOMAIN t.columns |-> Compact(t.columns[c], rows)],
                !.row_count = @ - Cardinality(rows),
                !.bytes = SatSub(@, DeletedBytes(t, rows))]
    IN  IF rows = {} THEN t ELSE MarkMutated(u)

TruncateTable(t) ==
    LET u == [t EXCEPT !.columns = [c \in DOMAIN t.columns |-> << >>],
                       !.row_count = 0, !.bytes = 0]
    IN  IF t.row_count = 0 THEN u ELSE MarkMutated(u)

-----------------------------------------------------------------------------
(* Column operations. *)

(* validate_add_column. *)
CanAddColumn(t, name) ==
    /\ \A c \in DOMAIN t.schema : t.schema[c].name # name
    /\ Len(t.schema) + 1 <= MaxColumns
    /\ t.row_count * (Len(t.schema) + 1) <= MaxCells

(* add_column, add_nullable_int64_column and publish_added_column. *)
AddColumn(t, name, type) ==
    LET column == [r \in 1..t.row_count |-> Default(type)]
    IN  MarkMutated(
            [t EXCEPT !.schema = Append(@, [name |-> name, type |-> type]),
                      !.columns = Append(@, column),
                      !.bytes = @ + ColumnBytes(type, column)])

CanDropColumn(t) == Len(t.schema) > 1

(* Fault: a dropped column leaves the index of the table alone. *)
DropColumn_KeepsIndex(t, column) ==
    [t EXCEPT !.schema = RemoveAt(@, column),
              !.columns = RemoveAt(@, column),
              !.bytes = SatSub(@, ColumnBytes(t.schema[column].type, t.columns[column])),
              !.partitions = NoPartitions]

(* drop_column: positions shift, so all metadata goes. *)
DropColumn(t, column) ==
    [t EXCEPT !.schema = RemoveAt(@, column),
              !.columns = RemoveAt(@, column),
              !.bytes = SatSub(@, ColumnBytes(t.schema[column].type, t.columns[column])),
              !.index = NoIndex,
              !.partitions = NoPartitions,
              !.generation = NextGeneration(t)]

CanRenameColumn(t, column, name) ==
    \A c \in DOMAIN t.schema : c # column => t.schema[c].name # name

RenameColumn(t, column, name) ==
    [t EXCEPT !.schema[column].name = name, !.partitions = NoPartitions]

-----------------------------------------------------------------------------
(* Range partitions: ordered, disjoint, and every value inside its range. *)

ValidPartitions(ps) ==
    \A i \in DOMAIN ps :
        /\ ps[i].lower <= ps[i].upper
        /\ i > 1 => ps[i].lower > ps[i - 1].upper
        /\ \A r \in DOMAIN ps[i].values :
             ps[i].values[r] \in ps[i].lower..ps[i].upper

PartitionValues(ps) == FlattenSeq([i \in DOMAIN ps |-> ps[i].values])

(* with_int64_range_partitions. *)
PartitionedTable(name, ps) ==
    [NewTable(<<[name |-> name, type |-> "Int64"]>>, MaxRows, <<PartitionValues(ps)>>)
     EXCEPT !.partitions =
        [some |-> TRUE, column |-> 1,
         parts |-> [i \in DOMAIN ps |->
            [lower |-> ps[i].lower, upper |-> ps[i].upper,
             first |-> Len(PartitionValues(SubSeq(ps, 1, i - 1))) + 1,
             last  |-> Len(PartitionValues(SubSeq(ps, 1, i)))]]]]
=============================================================================
