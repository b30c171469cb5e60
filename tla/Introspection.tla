--------------------------- MODULE Introspection ---------------------------
(***************************************************************************)
(* What the database says about itself (src/batch/engine.rs): the system   *)
(* tables, DESCRIBE, and SHOW CREATE TABLE with the shapes of CREATE TABLE *)
(* the parser of src/batch/sql.rs accepts.  Strings are left out: a result *)
(* is the rows it stands for.                                              *)
(***************************************************************************)
EXTENDS Table

CONSTANTS
    MaxStatements,   \* statements of one batch
    MaxListItems     \* list items of one batch, at least the column limit

IsNullable(field) == field.type = "NullableInt64"

Nullables(schema) == {c \in DOMAIN schema : IsNullable(schema[c])}

(* parse_create: Nullable(Int64) only as the last one or two columns. *)
ParsesAsCreate(fields) ==
    /\ Len(fields) \in 1..MaxListItems
    /\ Cardinality(Nullables(fields)) <= 2
    /\ \A c \in Nullables(fields) : c..Len(fields) \subseteq Nullables(fields)

(* show_create_column_count: the columns of the CREATE, the others being
   added by ALTER TABLE. *)
ShowCreateColumns(schema) ==
    LET first == Min(Nullables(schema))
        supported == /\ Len(schema) - first <= 1
                     /\ first..Len(schema) \subseteq Nullables(schema)
    IN  IF Nullables(schema) = {} \/ (supported /\ Len(schema) <= MaxListItems)
        THEN Len(schema)
        ELSE Max({first - 1, 1})

(* Fault: the column being added is not counted. *)
StatementsAfterAdding_Before(schema, nullable) ==
    1 + Len(schema) - ShowCreateColumns(schema)

(* show_create_statement_count_after_addition, from the old schema. *)
StatementsAfterAdding(schema, nullable) ==
    LET columns == Len(schema) + 1
        first == IF Nullables(schema) # {} THEN Min(Nullables(schema)) ELSE columns
        supported == /\ columns - first <= 1 /\ nullable
                     /\ first..Len(schema) \subseteq Nullables(schema)
    IN  IF Nullables(schema) = {} /\ ~nullable THEN 1
        ELSE IF supported /\ columns <= MaxListItems THEN 1
        ELSE 1 + columns - Max({first - 1, 1})

(* validate_show_create_addition. *)
CanShowAfterAdding(t, type) ==
    StatementsAfterAdding(t.schema, type = "NullableInt64") <= MaxStatements

(* execute_show_create_table. *)
ShowCreate(t) ==
    LET n == ShowCreateColumns(t.schema)
    IN  [create |-> SubSeq(t.schema, 1, n), alters |-> SubSeq(t.schema, n + 1, Len(t.schema))]

-----------------------------------------------------------------------------
(* execute_describe_table. *)
Describe(t) == [c \in DOMAIN t.schema |-> <<t.schema[c].name, t.schema[c].type>>]

(* execute_show_tables and execute_system_tables. *)
SystemTables(tables) == {[name |-> n, total_rows |-> tables[n].row_count] : n \in DOMAIN tables}

(* execute_system_columns. *)
SystemColumns(tables) ==
    UNION {{[table |-> n, name |-> Describe(tables[n])[c][1], type |-> Describe(tables[n])[c][2], position |-> c] :
              c \in DOMAIN tables[n].schema} : n \in DOMAIN tables}

(* execute_system_metrics reads the totals kept beside the catalog. *)
SystemMetrics(tables, measure) ==
    [tables |-> Cardinality(DOMAIN tables), columns |-> measure.columns,
     rows |-> measure.rows, bytes |-> measure.bytes]
=============================================================================
