----------------------------- MODULE MCDatabase -----------------------------
(* Small instances for TLC of the two engines of the crate, each in a scene of
   its own: the batch database, and the catalog of single-column tables. *)
EXTENDS Database

VARIABLES catalog, poisoned, scene

(* Table and column names of the database are interchangeable. *)
NameSymmetry == Permutations(Names) \cup Permutations(ColumnNames)

OneRowBlocks == {[block_rows |-> 1, max_blocks |-> 1]}

-----------------------------------------------------------------------------
(* CSV inputs: a header, at most one sound row, and then a line of any kind. *)
Line(text, end) == [text |-> text, end |-> end]
Headers == {Line(h, e) : h \in {"v", "w"}, e \in {"\n", "\r\n"}}
SoundRows == {<<>>, <<Line("1", "\n")>>, <<Line("NULL", "\r\n")>>}
LastLines ==
    {<<>>} \cup {<<l>> : l \in [text : {"", "NULL", "1", "-2", "+2", "1,1", "v"},
                               end : {"\n", "\r\n", "\r", ""}] \ {Line("", "")}}
Inputs == {<<>>} \cup {<<h>> \o r \o l : h \in Headers, r \in SoundRows, l \in LastLines}
InputLimits == {[max_bytes |-> 20, max_rows |-> 3], [max_bytes |-> 8, max_rows |-> 1]}

(* Statements.  The Int64 range is -2..1: 1 + 1 overflows, 1 + 1 - 2 does not. *)
Nothing == "none"
NoWhere == [column |-> Nothing, test |-> Nothing, value |-> 0]
Compared == [column : {"v"}, test : {"=", "<>", "<", "<=", ">", ">="}, value : {0 - 2, 0, 1}]
Wheres ==
    {NoWhere, [column |-> "w", test |-> "=", value |-> 1]} \cup Compared
    \cup [column : {"v"}, test : {"IS NULL", "IS NOT NULL"}, value : {0}]
Orders == [direction : {"ASC", "DESC"}, nulls : {"FIRST", "LAST"}]
Scans == {[input |-> 3, result |-> 3], [input |-> 3, result |-> 1], [input |-> 2, result |-> 3]}
Bounds == {[input |-> 3, selected |-> 3], [input |-> 2, selected |-> 3], [input |-> 3, selected |-> 1]}

Plain ==
    [kind |-> "select", table |-> "t", column |-> "v", where |-> NoWhere,
     scan |-> [input |-> 3, result |-> 3], order |-> [direction |-> Nothing, nulls |-> Nothing],
     limit |-> 0 - 1, limits |-> [input |-> 3, selected |-> 3]]
Selects ==
    {[Plain EXCEPT !.table = n, !.column = c] : n \in {"t", "T"}, c \in {"v", "w"}}
    \cup {[Plain EXCEPT !.where = w, !.scan = s, !.limit = l] : w \in Wheres, s \in Scans, l \in {0 - 1, 0, 2}}
    \cup {[Plain EXCEPT !.where = w, !.order = o, !.limit = l] : w \in Wheres, o \in Orders, l \in {0, 1, 2, 4}}
Scalars ==
    {[Plain EXCEPT !.kind = k, !.where = w, !.scan = s, !.limits = b] :
        k \in {"count", "sum"}, w \in {NoWhere} \cup Compared, s \in Scans, b \in Bounds}
    \cup {[Plain EXCEPT !.kind = k, !.column = c, !.limits = b] :
        k \in {"count", "sum", "min"}, c \in {"v", "w"}, b \in Bounds}
    \cup {[Plain EXCEPT !.kind = "count", !.column = Nothing, !.where = w] : w \in {NoWhere} \cup Compared}
Distincts == {[Plain EXCEPT !.kind = "distinct", !.limits = l] : l \in [input : {2, 3}, groups : 1..3]}
Joins ==
    [kind : {"join"}, table : {"t", "T"}, other : {"t", "T"}, column : {"v"}, other_column : {"v", "w"},
     projected : {"v", "w"}, outer : BOOLEAN, where : {NoWhere},
     limits : [input : {1, 3}, output : {1, 2, 4, 9}]]

Legacy == INSTANCE Catalog WITH
    tables <- catalog, I64Min <- 0 - 2, I64Max <- 1,
    Names <- {"t", "T", "u"}, ColumnNames <- {"v"}, Values <- {0 - 2, 1},
    CsvInputs <- Inputs, CsvLimits <- InputLimits,
    Statements <- Selects \cup Scalars \cup Distincts \cup Joins,
    MaxTables <- 2, MaxRowsPerTable <- 3, MaxTotalRows <- 3

-----------------------------------------------------------------------------
(* A scene that is not played keeps its initial state. *)
EnginesInit == Init /\ Legacy!Init /\ scene \in {"database", "catalog"}
EnginesNext ==
    /\ UNCHANGED scene
    /\ \/ scene = "database" /\ Next /\ UNCHANGED <<catalog, poisoned>>
       \/ scene = "catalog" /\ Legacy!Next /\ UNCHANGED dbVars
EnginesSpec == EnginesInit /\ [][EnginesNext]_<<dbVars, catalog, poisoned, scene>>

(* Whatever was created, restored, inserted and ingested before, no call got a
   table of the single-column catalog past its limits, and every statement is
   answered with exactly its meaning or refused for a stated reason. *)
CatalogIsExact == scene = "catalog" => Legacy!CatalogIsExact
=============================================================================
