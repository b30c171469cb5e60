------------------------------ MODULE MCQuery ------------------------------
(* Three scenes.  "statements": one table under every statement of Database,
   its WHERE clauses asked in every state.  "rows": a two-column relation
   grown row by row, whole queries asked of it.  "schema": one relation's
   columns come and go, and SHOW CREATE TABLE is asked of it. *)
EXTENDS Database, SelectReference

VARIABLES scene, relation

mcVars == <<dbVars, scene, relation>>

BlockLimits == {[block_rows |-> 1, max_blocks |-> 3], [block_rows |-> 2, max_blocks |-> 1]}

MinInt64 == 0 - 2

(* The relation: a key of one of three types beside an Int64 value. *)
KeyValues(type) == CASE type = "NullableInt64" -> {Null, I64Min, I64Max}
                     [] type = "Bool" -> {0, 1}
                     [] type = "String" -> {0, 1, 2}
Relation(type) == EmptyTable(<<[name |-> "k", type |-> type], [name |-> "v", type |-> "Int64"]>>)

MCInit ==
    /\ Init
    /\ \/ scene = "statements" /\ relation = Relation("Bool")
       \/ scene = "schema" /\ relation = EmptyTable(<<[name |-> 1, type |-> "Int64"]>>)
       \/ scene = "rows" /\ relation \in {Relation(type) : type \in {"NullableInt64", "Bool", "String"}}

(* Bound: the rows of the relation. *)
RelationRows(type) == IF type = "String" THEN 2 ELSE MaxRows

InsertRow ==
    /\ scene = "rows" /\ relation.row_count < RelationRows(relation.schema[1].type)
    /\ \E k \in KeyValues(relation.schema[1].type), v \in {I64Min, I64Max} :
        relation' = AppendRows(relation, <<<<k, v>>>>)
    /\ UNCHANGED <<dbVars, scene>>

(* Column names are numbers; bound: the columns of the scene.  CREATE TABLE is parsed, ALTER TABLE ADD COLUMN preflighted. *)
SchemaColumns == 4
FreshName(t) == Min((1..SchemaColumns) \ {t.schema[c].name : c \in DOMAIN t.schema})
ColumnTypes == {"Int64", "NullableInt64"}

CreateRelation ==
    /\ scene = "schema"
    /\ \E n \in 1..SchemaColumns : \E types \in [1..n -> ColumnTypes] :
        LET schema == [c \in 1..n |-> [name |-> c, type |-> types[c]]]
        IN  ParsesAsCreate(schema) /\ relation' = EmptyTable(schema)
    /\ UNCHANGED <<dbVars, scene>>

AlterRelation ==
    /\ scene = "schema"
    /\ \/ \E type \in ColumnTypes :
            /\ Len(relation.schema) < SchemaColumns
            /\ CanShowAfterAdding(relation, type)
            /\ relation' = AddColumn(relation, FreshName(relation), type)
       \/ CanDropColumn(relation) /\ \E c \in DOMAIN relation.schema : relation' = DropColumn(relation, c)
    /\ UNCHANGED <<dbVars, scene>>

Statement == scene = "statements" /\ Next /\ UNCHANGED <<scene, relation>>

MCNext == Statement \/ InsertRow \/ CreateRelation \/ AlterRelation

MCSpec == MCInit /\ [][MCNext]_mcVars

-----------------------------------------------------------------------------
(* The WHERE clauses asked: comparisons either way round, nullness, and NOT,
   AND and OR of two bounds at the ends of Int64. *)
Bounds(t, ops, values) ==
    {Compare(c, op, v, FALSE) :
        c \in {x \in DOMAIN t.schema : IsInt64(t.schema[x].type)},
        op \in ops, v \in values}
    \cup {Compare(1, "<", I64Max, TRUE), Compare(1, ">=", 0, TRUE), Compare(1, "!=", 0, FALSE)}
    \cup {Nullness(c, b) : c \in DOMAIN t.schema, b \in BOOLEAN}

Atoms(t) == Bounds(t, {"<", "<=", ">", ">=", "=", "!="}, Int64)

Clauses(t) ==
    LET parts == Bounds(t, {"<=", ">"}, {I64Min, I64Max})
        pairs == {And(p, q) : p, q \in parts} \cup {Or(p, q) : p, q \in parts}
    IN  Atoms(t) \cup pairs \cup {Not(p) : p \in Atoms(t) \cup pairs}

(* Whatever statements built the table, its partitions and its index, the
   rows SELECT collects are exactly those for which the written WHERE clause
   is true: no stale or misread metadata ever hides or adds a row. *)
PruningIsExact ==
    \A n \in DOMAIN tables :
        \A p \in Clauses(tables[n]) :
            MatchingRows(tables[n], p)
                = {row \in 1..tables[n].row_count : Truth(tables[n], p, row) = "true"}

-----------------------------------------------------------------------------
(* The queries asked of the relation. *)
Plain(items) ==
    [distinct |-> FALSE, items |-> items, where |-> << >>, group |-> << >>,
     having |-> [test |-> None, name |-> << >>, value |-> 0],
     order |-> << >>, limit |-> NoCount, offset |-> NoCount]
Paged(q, p) == [q EXCEPT !.limit = p[1], !.offset = p[2]]
Sorted(q, os) == [q EXCEPT !.order = os]
By(i, d) == [name |-> Name(i), descending |-> d]

AllRows == <<NoCount, NoCount>>
Pages == {AllRows, <<1, NoCount>>, <<1, 1>>}
EdgePages == {<<0, NoCount>>, <<0, 1>>, <<2, 0>>, <<UsizeMax, 1>>}

K == Item("column", 1, 0, NoAlias)
V == Item("column", 2, 0, NoAlias)
\* K under the name of V
Shadow == Item("column", 1, 0, Name(V))

ScalarItems ==
    {Item(kind, c, 0, NoAlias) : kind \in {"isNull", "isNotNull", "castInt64", "abs", "toBool",
                                           "textToInt64", "length", "lengthUtf8", "empty", "ifNull"}, c \in 1..2}
    \cup {Item("subtract", 2, 1, <<"a">>)}

RowQueries ==
    {Paged(Sorted(Plain(<<K, V>>), os), p) :
        os \in {<<>>, <<By(K, TRUE)>>, <<By(V, FALSE)>>, <<By(V, TRUE), By(K, FALSE)>>},
        p \in Pages \cup EdgePages}
    \cup {Paged(Sorted(Plain(<<i, K>>), os), p) :
            i \in ScalarItems, os \in {<< >>, <<By(Item("column", 2, 0, NoAlias), TRUE)>>}, p \in {AllRows}}
    \cup UNION {{Paged(Sorted(Plain(<<i, V>>), <<By(i, d)>>), p) :
                    d \in BOOLEAN, p \in {<<0, NoCount>>, <<1, NoCount>>, <<1, 1>>}} : i \in ScalarItems}
    \cup {Sorted(Plain(<<Shadow>>), <<By(V, FALSE)>>), Sorted(Plain(<<Shadow, V>>), <<By(V, FALSE)>>)}
    \cup {Paged(Plain(<<Item("rowNumber", c, d, NoAlias), K, V>>), p) :
            c \in 0..2, d \in 0..1, p \in {AllRows, <<0, NoCount>>, <<2, NoCount>>}}
    \cup {[Plain(<<K, V>>) EXCEPT !.where = <<p>>] :
            p \in {Compare(2, ">", 0, FALSE), Not(Nullness(1, TRUE))}}

AggregateLists ==
    {<<Item("count", 0, 0, NoAlias)>>, <<Item("sum", 2, 0, <<"a">>)>>, <<Item("avg", 2, 0, NoAlias)>>,
     <<Item("min", 2, 0, NoAlias)>>, <<Item("max", 1, 0, NoAlias)>>, <<Item("count", 1, 0, NoAlias)>>,
     <<Item("count", 0, 0, NoAlias), Item("sum", 1, 0, NoAlias)>>,
     <<Item("avg", 1, 0, NoAlias), Item("count", 1, 0, NoAlias)>>,
     <<Item("countIf", 1, 0, NoAlias), Item("max", 2, 0, NoAlias)>>}

Groupings == {<< >>, <<1>>, <<2>>, <<2, 1>>}

GroupQueries ==
    UNION {LET q == [Plain([c \in DOMAIN g |-> Item("column", g[c], 0, NoAlias)] \o as) EXCEPT !.group = g]
               having(test) == [test |-> test, name |-> Name(as[1]), value |-> 0]
           IN  {Paged(Sorted(q, os), p) : os \in {<< >>, <<By(as[1], TRUE)>>}, p \in Pages}
               \cup {[q EXCEPT !.having = having(test)] : test \in {">", "isNull"}}
               \cup {[q EXCEPT !.where = <<Compare(2, ">", 0, FALSE)>>]} :
           g \in Groupings, as \in AggregateLists}

KeyQueries ==
    {[Plain(<<Item("ifNull", 1, 1, <<"a">>), Item("isNull", 1, 0, NoAlias), Item("castInt64", 1, 0, NoAlias)>>)
        EXCEPT !.group = <<1>>, !.order = os] : os \in {<< >>, <<[name |-> <<"a">>, descending |-> TRUE]>>}}
    \cup {Paged(Sorted([Plain(items) EXCEPT !.distinct = TRUE], os), p) :
            items \in {<<K>>, <<V>>, <<V, K>>}, os \in {<< >>, <<By(V, TRUE)>>}, p \in Pages}

Queries == RowQueries \cup GroupQueries \cup KeyQueries

Roomy == [max_scan_rows |-> 9, max_groups |-> 9, max_group_key_cells |-> 99,
          max_aggregate_state_cells |-> 99, max_ordering_rows |-> 9, max_rows |-> 99, max_values |-> 99,
          max_bytes |-> 999]

IsMeant(outcomes, m) ==
    IF m.ok THEN outcomes = {Answer(m.rows)}
    ELSE \A o \in outcomes : o.status \in {Overflow, "syntax"}

(* A query has one possible answer however the library's unstable selection
   and sort treat equal elements, and it is the declarative one: grouping by
   hash index, incremental aggregate states, the global and Bool fast paths,
   bounded ordering and OFFSET compute what the query says.  It fails exactly
   when a value it must return is not representable. *)
SelectIsExact ==
    scene = "rows" => \A q \in Queries : Legal(relation, q) =>
        IsMeant(SelectOutcomes(relation, q, Roomy, NoPrefix), Meaning(relation, q))

-----------------------------------------------------------------------------
(* The operands of UNION, each with its answer. *)
Operands ==
    {Plain(<<K, V>>), Plain(<<V>>), [Plain(<<K>>) EXCEPT !.distinct = TRUE],
     Paged(Sorted(Plain(<<V, K>>), <<By(V, TRUE)>>), <<2, NoCount>>),
     [Plain(<<K, Item("count", 0, 0, NoAlias)>>) EXCEPT !.group = <<1>>]}

IsUnion(outcomes, distinct, all) ==
    IF ~distinct THEN outcomes = {Answer(all)}
    ELSE \A o \in outcomes :
           /\ o.status = "ok" /\ ToSet(o.rows) = ToSet(all)
           /\ \A i, j \in DOMAIN o.rows : i < j =>
                 SelectInSeq(all, LAMBDA x : x = o.rows[i]) < SelectInSeq(all, LAMBDA x : x = o.rows[j])

(* UNION ALL is the concatenation of its operands' answers, UNION DISTINCT
   keeps each row of it once, where it first appears, and CROSS JOIN is the
   prefix of the product its LIMIT asks for, refused only when its size is
   no usize. *)
CombinationsAreExact ==
    scene = "rows" =>
        /\ \A l, r \in Operands, distinct \in BOOLEAN : SchemasAgree(relation, l, r) =>
             IsUnion(UnionOutcomes(relation, l, r, distinct, Roomy), distinct,
                     Meaning(relation, l).rows \o Meaning(relation, r).rows)
        /\ \A limit \in {NoCount, 0, 1, UsizeMax} :
             LET n == relation.row_count
                 o == CrossJoin(relation, limit, Roomy)
                 pairs == IF limit = NoCount THEN n * n ELSE Min({limit, n * n})
                 rowOf(r) == [c \in 1..2 |-> relation.columns[c][r]]
             IN  IF limit = NoCount /\ n * n > UsizeMax THEN o.status = Overflow
                 ELSE /\ o.status = "ok" /\ Len(o.rows) = pairs
                      /\ \A i, j \in 1..n : (i - 1) * n + j <= pairs =>
                            o.rows[(i - 1) * n + j] = rowOf(i) \o rowOf(j)

-----------------------------------------------------------------------------
(* A caller asks for each limit in turn, 0 for none, of a database that has a
   row limit of its own or room for all. *)
NoRequest == [l \in DOMAIN Roomy |-> 0]
Asking(l, n) == [NoRequest EXCEPT ![l] = n]
Requests ==
    {<<Roomy, NoRequest>>} \cup {<<Roomy, Asking(l, n)>> : l \in DOMAIN Roomy, n \in 1..3}
    \cup {<<Roomy, Asking("max_bytes", n)>> : n \in {5, 9, 14}}
    \cup {<<[Roomy EXCEPT !.max_rows = 2], Asking("max_rows", n)>> : n \in {0, 1, 3}}

LimitQueries ==
    {Paged(Plain(<<K, V>>), p) : p \in {AllRows, <<1, 1>>}}
    \cup {Sorted(Plain(<<i>>), <<By(i, FALSE)>>) : i \in {Item("lengthUtf8", 1, 0, NoAlias), K}}
    \cup {Paged(Plain(<<Item("rowNumber", 2, 0, NoAlias), K>>), <<1, NoCount>>)}
    \cup {[Plain(<<V, Item("count", 0, 0, NoAlias)>>) EXCEPT !.group = g] : g \in {<<2>>, <<2, 1>>}}
    \cup {[Plain(<<K, Item("max", 2, 0, NoAlias)>>) EXCEPT !.group = <<1>>],
          [Plain(<<V, K>>) EXCEPT !.distinct = TRUE]}

Limits(ask) == EffectiveLimits(ask[1], ask[2])
Allowed(ask) == [l \in DOMAIN Roomy |-> IF ask[2][l] \in 1..ask[1][l] THEN ask[2][l] ELSE ask[1][l]]
Within(ask, items, rows) ==
    LET allowed == Allowed(ask)
    IN  /\ Len(rows) <= allowed.max_rows
        /\ Len(rows) * Len(items) <= allowed.max_values
        /\ Len(rows) * Len(items) + StringBytes(relation, items, rows) <= allowed.max_bytes

(* Every answer to q is the whole of m and within the limits. *)
Obeys(q, m, groups) ==
    \A ask \in Requests : \A o \in SelectOutcomes(relation, q, Limits(ask), NoPrefix) :
        LET allowed == Allowed(ask)
        IN  \/ o.status = "limit"
            \/ /\ IsMeant({o}, m)
               /\ Within(ask, q.items, o.rows)
               /\ relation.row_count <= allowed.max_scan_rows
               /\ groups <= allowed.max_groups
               /\ groups * Len(GroupColumns(q)) <= allowed.max_group_key_cells

(* A resource limit refuses a query or has no effect: no answer is ever cut
   short by one, and every answer given stays within all of them, the
   database's own and the caller's, a UNION counting both its operands. *)
LimitsOnlyRefuse ==
    scene = "rows" =>
        /\ \A q \in LimitQueries : Legal(relation, q) =>
             Obeys(q, Meaning(relation, q), IF Grouped(q) THEN Cardinality(GroupsOf(relation, q)) ELSE 0)
        /\ \A ask \in Requests, distinct \in BOOLEAN :
             LET left == Plain(<<K>>)
                 right == Paged(Plain(<<K>>), <<1, 1>>)
             IN  \A o \in UnionOutcomes(relation, left, right, distinct, Limits(ask)) :
                   o.status = "ok" => /\ Within(ask, <<K>>, o.rows)
                                      /\ o \in UnionOutcomes(relation, left, right, distinct, Roomy)
        /\ \A ask \in Requests :
             LET o == CrossJoin(relation, 3, Limits(ask))
             IN  o.status = "ok" => Within(ask, <<K, V, K, V>>, o.rows) /\ o = CrossJoin(relation, 3, Roomy)
-----------------------------------------------------------------------------
(* Executing a batch of ALTER TABLE ... ADD COLUMN. *)
AddAll(t, fields) ==
    FoldLeft(LAMBDA acc, f :
                [ok |-> acc.ok /\ CanShowAfterAdding(acc.table, f.type),
                 table |-> AddColumn(acc.table, f.name, f.type)],
             [ok |-> TRUE, table |-> t], fields)

(* What SHOW CREATE TABLE prints can be executed as one batch, under the same
   parser and the same preflight of ADD COLUMN, and recreates the columns in
   their order, however columns were added and dropped before. *)
ShowCreateReplays ==
    scene = "schema" =>
        LET shown == ShowCreate(relation)
            again == AddAll(EmptyTable(shown.create), shown.alters)
        IN  /\ 1 + Len(shown.alters) <= MaxStatements
            /\ ParsesAsCreate(shown.create)
            /\ again.ok
            /\ Describe(again.table) = Describe(relation)
=============================================================================
