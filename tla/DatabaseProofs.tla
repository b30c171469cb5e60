--------------------------- MODULE DatabaseProofs ---------------------------
(***************************************************************************)
(* Proofs about Table and Database for every set of names, types and       *)
(* limits and tables of any size.  The first part is what each storage     *)
(* method leaves behind of one table; the second is the invariant of the   *)
(* catalog, its one sparse index and its write-ahead log; the third is     *)
(* what the database measures of itself, which rests on sums over finite   *)
(* sets and on what each storage method does to the retained bytes.        *)
(***************************************************************************)
EXTENDS Database, TLAPS, SequenceTheorems, FiniteSetTheorems, WellFoundedInduction

(***************************************************************************)
(* One table.                                                              *)
(***************************************************************************)
\* The fields of struct Table.
TableFields == {"schema", "columns", "row_count", "bytes", "max_rows", "generation",
                "index", "partitions"}

\* The types of the columns: those in use, and that of a partitioned table.
DataTypes == Types \cup {"Int64"}
ColumnDefs == [name : ColumnNames, type : DataTypes]

\* The values of every column type.
Values == UNION {ValuesOf(type) : type \in DataTypes}

\* A column of a type, as long as its table.
IsColumn(column, type, rows) ==
  /\ column \in Seq(Values)
  /\ Len(column) = rows
  /\ \A r \in 1 .. rows : column[r] \in ValuesOf(type)

\* The columns have the types of the schema and one length.
Typed(schema, columns, rows) ==
  /\ schema \in Seq(ColumnDefs) /\ ValidSchema(schema)
  /\ rows \in Nat
  /\ columns \in Seq(Seq(Values)) /\ Len(columns) = Len(schema)
  /\ \A c \in 1 .. Len(schema) : IsColumn(columns[c], schema[c].type, rows)

\* The row and cell limits of a table, which are within those of the database.
Sized(schema, rows, cap) ==
  /\ cap \in Nat /\ cap <= MaxRows /\ rows <= cap
  /\ rows * Len(schema) <= MaxCells

Shaped(t) ==
  /\ DOMAIN t = TableFields
  /\ Typed(t.schema, t.columns, t.row_count)
  /\ Sized(t.schema, t.row_count, t.max_rows)

\* An index is of an Int64 column that the table has.
Indexable(t) ==
  t.index.some => /\ t.index.column \in DOMAIN t.schema
                  /\ IsInt64(t.schema[t.index.column].type)

\* An index is what building it again would give.
Current(t) == t.index.some => t.index = BuildIndex(t, t.index.column, t.index.limits)

Sound(t) == Shaped(t) /\ Indexable(t) /\ Current(t)

\* What a method makes of a table is sound, and has no index the table had not.
Follows(t, u) == Sound(u) /\ (u.index.some => t.index.some)

\* Building an index reads the rows and the generation of a table only.
LEMMA BuildReadsRows ==
  ASSUME NEW t, NEW u, NEW column, NEW limits,
         t.row_count = u.row_count, t.columns = u.columns, t.generation = u.generation
  PROVE  BuildIndex(t, column, limits) = BuildIndex(u, column, limits)
  BY DEF BuildIndex

\* mark_values_mutated changes no row, and the index it leaves is up to date.
LEMMA MarkKeepsRows ==
  ASSUME NEW u, DOMAIN u = TableFields
  PROVE  /\ DOMAIN MarkMutated(u) = TableFields
         /\ MarkMutated(u).schema = u.schema
         /\ MarkMutated(u).columns = u.columns
         /\ MarkMutated(u).row_count = u.row_count
         /\ MarkMutated(u).max_rows = u.max_rows
  BY DEF MarkMutated, TableFields

\* The index mark_values_mutated leaves: none where there was none, and none or
\* a new one of the same column where there was one.
LEMMA MarkRebuilds ==
  ASSUME NEW u, DOMAIN u = TableFields, MarkMutated(u).index.some
  PROVE  /\ u.index.some
         /\ MarkMutated(u).index.column = u.index.column
         /\ Current(MarkMutated(u))
<1> DEFINE m == [u EXCEPT !.partitions = NoPartitions, !.generation = NextGeneration(u)]
           k == [m EXCEPT !.index = BuildIndex(m, u.index.column, u.index.limits)]
<1>1. u.index.some
  <2>1. SUFFICES ASSUME ~u.index.some PROVE FALSE
    OBVIOUS
  <2>2. MarkMutated(u) = m /\ m.index = u.index
    BY <2>1 DEF MarkMutated, TableFields
  <2> QED
    BY <2>1, <2>2
<1>2. MarkMutated(u) = k
  BY <1>1 DEF MarkMutated
<1>3. /\ k.index = BuildIndex(m, u.index.column, u.index.limits)
      /\ k.row_count = m.row_count /\ k.columns = m.columns /\ k.generation = m.generation
  BY DEF TableFields
<1> HIDE DEF m, k
<1>4. BuildIndex(k, u.index.column, u.index.limits) = BuildIndex(m, u.index.column, u.index.limits)
  BY <1>3, BuildReadsRows
<1>5. k.index.column = u.index.column /\ k.index.limits = u.index.limits
  <2>1. k.index # NoIndex
    BY <1>2 DEF NoIndex
  <2> QED
    BY <1>3, <2>1 DEF BuildIndex
<1> QED
  BY <1>1, <1>2, <1>3, <1>4, <1>5 DEF Current

\* Whatever a method has done to the rows, marking the table as mutated leaves
\* it sound, however the generation wraps.
LEMMA MarkIsSound ==
  ASSUME NEW u, Shaped(u), Indexable(u)
  PROVE  Follows(u, MarkMutated(u))
<1>1. DOMAIN u = TableFields
  BY DEF Shaped
<1>2. Shaped(MarkMutated(u))
  BY <1>1, MarkKeepsRows DEF Shaped
<1>3. MarkMutated(u).index.some => Indexable(MarkMutated(u)) /\ Current(MarkMutated(u)) /\ u.index.some
  BY <1>1, MarkKeepsRows, MarkRebuilds DEF Indexable
<1>4. ~MarkMutated(u).index.some => Indexable(MarkMutated(u)) /\ Current(MarkMutated(u))
  BY DEF Indexable, Current
<1> QED
  BY <1>2, <1>3, <1>4 DEF Follows, Sound
(***************************************************************************)
(* Rows.                                                                   *)
(***************************************************************************)
\* Complete rows of a schema, as prepare_insert_rows passes them on.
AreRows(schema, rows) ==
  /\ rows \in Seq([1 .. Len(schema) -> Values])
  /\ DOMAIN rows = 1 .. Len(rows) /\ Len(rows) \in Nat
  /\ \A r \in 1 .. Len(rows), c \in 1 .. Len(schema) :
       rows[r][c] \in ValuesOf(schema[c].type)

\* A default is a value of its type: NULL of a nullable column, zero, false or
\* the empty string of another.
LEMMA DefaultIsTyped ==
  ASSUME NEW type \in DataTypes
  PROVE  Default(type) \in ValuesOf(type)
<1>1. type \in {"Int64", "NullableInt64", "Float64", "Bool", "String"}
  BY TableAssumption DEF DataTypes
<1>2. 0 \in Int64 /\ 0 \in 0 .. MaxString
  BY TableAssumption DEF Int64
<1>3. CASE type = "NullableInt64"
  BY <1>3 DEF Default, ValuesOf
<1>4. CASE type # "NullableInt64"
  BY <1>1, <1>2, <1>4 DEF Default, ValuesOf
<1> QED
  BY <1>3, <1>4

\* The types of a schema are types in use, whose values are values.
LEMMA SchemaIsTyped ==
  ASSUME NEW schema \in Seq(ColumnDefs), NEW c \in 1 .. Len(schema)
  PROVE  /\ schema[c].type \in DataTypes /\ schema[c].name \in ColumnNames
         /\ ValuesOf(schema[c].type) \subseteq Values
<1>1. schema[c] \in ColumnDefs
  BY ElementOfSeq
<1> QED
  BY <1>1 DEF ColumnDefs, Values

\* A function on the first naturals is a sequence.
LEMMA FunctionIsSeq ==
  ASSUME NEW S, NEW n \in Nat, NEW f \in [1 .. n -> S]
  PROVE  f \in Seq(S) /\ Len(f) = n
  OBVIOUS

\* The rows of an INSERT are complete, whichever columns it names: the others
\* hold their defaults.
LEMMA InsertRowsAreRows ==
  ASSUME NEW t, t.schema \in Seq(ColumnDefs), NEW rows \in InsertRows(t)
  PROVE  AreRows(t.schema, rows)
<1>1. PICK cols \in SUBSET DOMAIN t.schema, k \in 0 .. MaxBatch : rows \in RowsFor(t, cols, k)
  BY DEF InsertRows
<1>2. PICK given \in [1 .. k -> {g \in [cols -> UNION {ValuesOf(t.schema[c].type) : c \in cols}] :
                                  \A c \in cols : g[c] \in ValuesOf(t.schema[c].type)}] :
        rows = [r \in 1 .. k |-> [c \in DOMAIN t.schema |->
                  IF c \in cols THEN given[r][c] ELSE Default(t.schema[c].type)]]
  BY <1>1 DEF RowsFor
<1>3. DOMAIN t.schema = 1 .. Len(t.schema)
  BY LenProperties
<1>4. k \in Nat /\ Len(rows) = k /\ DOMAIN rows = 1 .. k
  BY <1>2
<1>5. ASSUME NEW r \in 1 .. k, NEW c \in 1 .. Len(t.schema)
      PROVE  rows[r][c] \in ValuesOf(t.schema[c].type)
  <2>1. rows[r][c] = IF c \in cols THEN given[r][c] ELSE Default(t.schema[c].type)
    BY <1>2, <1>3
  <2>2. c \in cols => given[r][c] \in ValuesOf(t.schema[c].type)
    BY <1>2
  <2>3. Default(t.schema[c].type) \in ValuesOf(t.schema[c].type)
    BY SchemaIsTyped, DefaultIsTyped
  <2> QED
    BY <2>1, <2>2, <2>3
<1>6. rows \in Seq([1 .. Len(t.schema) -> Values])
  <2>1. ASSUME NEW r \in 1 .. k
        PROVE  rows[r] \in [1 .. Len(t.schema) -> Values]
    <3>1. \A c \in 1 .. Len(t.schema) : rows[r][c] \in Values
      BY <1>5, SchemaIsTyped
    <3> DEFINE row == [c \in DOMAIN t.schema |->
                         IF c \in cols THEN given[r][c] ELSE Default(t.schema[c].type)]
    <3>2. rows[r] = row
      BY <1>2
    <3>3. DOMAIN row = 1 .. Len(t.schema) /\ row = [c \in DOMAIN row |-> row[c]]
      BY <1>3
    <3> HIDE DEF row
    <3> QED
      BY <3>1, <3>2, <3>3
  <2>2. rows = [r \in 1 .. k |-> rows[r]]
    BY <1>2
  <2>3. rows \in [1 .. k -> [1 .. Len(t.schema) -> Values]]
    BY <2>1, <2>2
  <2> QED
    BY <1>4, <2>3, FunctionIsSeq
<1> QED
  BY <1>4, <1>5, <1>6 DEF AreRows

\* Fewer rows take no more cells.
LEMMA FewerCells ==
  ASSUME NEW m \in Nat, NEW n \in Nat, NEW k \in Nat, m <= n
  PROVE  m * k <= n * k /\ m * k \in Nat /\ n * k \in Nat
<1>1. n = m + (n - m) /\ n - m \in Nat
  OBVIOUS
<1>2. n * k = m * k + (n - m) * k
  BY <1>1
<1>3. m * k \in Nat /\ (n - m) * k \in Nat
  BY <1>1
<1> QED
  BY <1>2, <1>3

\* The column of a table without rows.
LEMMA EmptyColumn ==
  ASSUME NEW type
  PROVE  IsColumn(<< >>, type, 0)
<1>1. << >> \in Seq(Values) /\ Len(<< >>) = 0
  BY EmptySeq
<1>2. \A r \in 1 .. 0 : FALSE
  OBVIOUS
<1> QED
  BY <1>1, <1>2 DEF IsColumn

\* One column grows by the values of the rows in its place.
LEMMA ColumnGrows ==
  ASSUME NEW schema \in Seq(ColumnDefs), NEW c \in 1 .. Len(schema), NEW n \in Nat, NEW column,
         IsColumn(column, schema[c].type, n), NEW rows, AreRows(schema, rows)
  PROVE  IsColumn(column \o [r \in DOMAIN rows |-> rows[r][c]], schema[c].type, n + Len(rows))
<1> DEFINE added == [r \in DOMAIN rows |-> rows[r][c]]
           type == schema[c].type
<1>0. ValuesOf(type) \subseteq Values
  BY SchemaIsTyped
<1>1. \A r \in 1 .. Len(rows) : added[r] \in ValuesOf(type)
  BY DEF AreRows
<1>2. added \in [1 .. Len(rows) -> Values] /\ Len(rows) \in Nat
  BY <1>0, <1>1 DEF AreRows
<1> HIDE DEF added
<1>3. added \in Seq(Values) /\ Len(added) = Len(rows)
  BY <1>2
<1>4. column \in Seq(Values) /\ Len(column) = n
  BY DEF IsColumn
<1>5. /\ column \o added \in Seq(Values)
      /\ Len(column \o added) = n + Len(rows)
      /\ \A r \in 1 .. n + Len(rows) :
           (column \o added)[r] = IF r <= n THEN column[r] ELSE added[r - n]
  <2>1. /\ column \o added \in Seq(Values)
        /\ Len(column \o added) = Len(column) + Len(added)
        /\ \A r \in 1 .. Len(column) + Len(added) :
             (column \o added)[r] = IF r <= Len(column) THEN column[r] ELSE added[r - Len(column)]
    BY <1>3, <1>4, ConcatProperties
  <2> QED
    BY <1>3, <1>4, <2>1
<1>6. ASSUME NEW r \in 1 .. n + Len(rows)
      PROVE  (column \o added)[r] \in ValuesOf(type)
  <2>1. CASE r <= n
    BY <1>5, <2>1 DEF IsColumn
  <2>2. CASE ~(r <= n)
    <3>1. r - n \in 1 .. Len(rows)
      BY <1>2, <2>2
    <3> QED
      BY <1>1, <1>5, <2>2, <3>1
  <2> QED
    BY <2>1, <2>2
<1>7. IsColumn(column \o added, type, n + Len(rows))
  BY <1>5, <1>6 DEF IsColumn
<1> QED
  BY <1>7 DEF added

\* A function of the positions of a schema into columns is a sequence of them.
LEMMA ColumnsAreTyped ==
  ASSUME NEW schema, schema \in Seq(ColumnDefs), ValidSchema(schema), NEW n \in Nat, NEW f,
         DOMAIN f = 1 .. Len(schema), f = [c \in DOMAIN f |-> f[c]],
         \A c \in 1 .. Len(schema) : IsColumn(f[c], schema[c].type, n)
  PROVE  Typed(schema, f, n)
<1>1. f \in [1 .. Len(schema) -> Seq(Values)] /\ Len(schema) \in Nat
  BY DEF IsColumn
<1>2. f \in Seq(Seq(Values)) /\ Len(f) = Len(schema)
  BY <1>1
<1> QED
  BY <1>2 DEF Typed

\* A table has a first column, and as many columns as its schema has fields.
LEMMA FirstColumn ==
  ASSUME NEW t, Shaped(t)
  PROVE  DOMAIN t.columns = 1 .. Len(t.schema) /\ 1 \in 1 .. Len(t.schema)
<1>1. t.schema \in Seq(ColumnDefs) /\ t.schema # << >> /\ Len(t.columns) = Len(t.schema)
  BY DEF Shaped, Typed, ValidSchema
<1>2. DOMAIN t.columns = 1 .. Len(t.schema)
  BY <1>1, LenProperties DEF Shaped, Typed
<1>3. Len(t.schema) \in Nat \ {0}
  BY <1>1, EmptySeq
<1> QED
  BY <1>2, <1>3

\* The room checked before an INSERT is room after it.
LEMMA RoomIsEnough ==
  ASSUME NEW t, Shaped(t), NEW n \in Nat, RowCapacity(t, n)
  PROVE  Sized(t.schema, t.row_count + n, t.max_rows)
<1>1. t.row_count \in Nat /\ t.max_rows \in Nat /\ t.row_count <= t.max_rows
  BY DEF Shaped, Typed, Sized
<1>2. n <= t.max_rows - t.row_count
  BY <1>1 DEF RowCapacity, SatSub
<1>3. t.row_count + n <= t.max_rows
  BY <1>1, <1>2
<1> QED
  BY <1>1, <1>3 DEF Shaped, Sized, RowCapacity

\* What an INSERT within the limits leaves: the table with its rows at the end.
LEMMA AppendIsSound ==
  ASSUME NEW t, Sound(t), NEW rows, AreRows(t.schema, rows), RowCapacity(t, Len(rows))
  PROVE  /\ Follows(t, AppendRows(t, rows))
         /\ AppendRows(t, rows).schema = t.schema
         /\ AppendRows(t, rows).max_rows = t.max_rows
         /\ AppendRows(t, rows).row_count = t.row_count + Len(rows)
         /\ AppendRows(t, rows).columns[1] = t.columns[1] \o [r \in DOMAIN rows |-> rows[r][1]]
<1> DEFINE added == [c \in DOMAIN t.columns |-> [r \in DOMAIN rows |-> rows[r][c]]]
           grown == [c \in DOMAIN t.columns |-> t.columns[c] \o added[c]]
           u == [t EXCEPT !.columns = grown, !.row_count = @ + Len(rows),
                          !.bytes = @ + TotalBytes(t.schema, added)]
<1>1. /\ DOMAIN t = TableFields /\ t.schema \in Seq(ColumnDefs) /\ ValidSchema(t.schema)
      /\ t.row_count \in Nat /\ Len(rows) \in Nat
      /\ t.columns \in Seq(Seq(Values)) /\ Len(t.columns) = Len(t.schema)
  BY DEF Sound, Shaped, Typed, AreRows
<1>2. DOMAIN t.columns = 1 .. Len(t.schema) /\ 1 \in 1 .. Len(t.schema)
  BY FirstColumn DEF Sound
<1>3. CASE rows = << >>
  <2>1. AppendRows(t, rows) = t
    BY <1>3 DEF AppendRows
  <2>2. Len(rows) = 0 /\ [r \in DOMAIN rows |-> rows[r][1]] = << >>
    BY <1>3
  <2>3. t.columns[1] \in Seq(Values)
    BY <1>1, <1>2, ElementOfSeq
  <2>4. t.columns[1] \o << >> = t.columns[1]
    BY <2>3, ConcatEmptySeq
  <2>5. t.row_count + Len(rows) = t.row_count
    BY <1>1, <2>2
  <2>6. Follows(t, t)
    BY DEF Follows
  <2> HIDE DEF u, grown, added
  <2>7. t.columns[1] \o [r \in DOMAIN rows |-> rows[r][1]] = t.columns[1]
    BY <2>2, <2>4
  <2> QED
    BY <2>1, <2>5, <2>6, <2>7
<1>4. CASE rows # << >>
  <2>1. AppendRows(t, rows) = MarkMutated(u)
    BY <1>4 DEF AppendRows
  <2>2. /\ DOMAIN u = TableFields /\ u.schema = t.schema /\ u.max_rows = t.max_rows
        /\ u.columns = grown /\ u.row_count = t.row_count + Len(rows) /\ u.index = t.index
    BY <1>1 DEF TableFields
  <2>3. \A c \in 1 .. Len(t.schema) : grown[c] = t.columns[c] \o [r \in DOMAIN rows |-> rows[r][c]]
    BY <1>2
  <2>4. DOMAIN grown = 1 .. Len(t.schema) /\ grown = [c \in DOMAIN grown |-> grown[c]]
    BY <1>2
  <2> HIDE DEF grown, u, added
  <2>5. \A c \in 1 .. Len(t.schema) : IsColumn(grown[c], t.schema[c].type, t.row_count + Len(rows))
    <3>1. ASSUME NEW c \in 1 .. Len(t.schema)
          PROVE  IsColumn(grown[c], t.schema[c].type, t.row_count + Len(rows))
      <4>1. IsColumn(t.columns[c], t.schema[c].type, t.row_count)
        BY DEF Sound, Shaped, Typed
      <4>2. IsColumn(t.columns[c] \o [r \in DOMAIN rows |-> rows[r][c]], t.schema[c].type,
                     t.row_count + Len(rows))
        BY <1>1, <4>1, ColumnGrows
      <4> QED
        BY <2>3, <4>2
    <3> QED
      BY <3>1
  <2>6. Typed(t.schema, grown, t.row_count + Len(rows))
    <3>1. t.row_count + Len(rows) \in Nat
      BY <1>1
    <3> QED
      BY <1>1, <2>4, <2>5, <3>1, ColumnsAreTyped
  <2>7. Sized(t.schema, t.row_count + Len(rows), t.max_rows)
    BY <1>1, RoomIsEnough DEF Sound
  <2>8. Shaped(u) /\ Indexable(u)
    BY <2>2, <2>6, <2>7 DEF Shaped, Sound, Indexable
  <2>9. Follows(u, MarkMutated(u))
    BY <2>8, MarkIsSound
  <2>10. Follows(t, MarkMutated(u))
    BY <2>2, <2>9 DEF Follows
  <2> QED
    BY <1>2, <2>1, <2>2, <2>3, <2>10, MarkKeepsRows
<1> QED
  BY <1>3, <1>4

\* What TRUNCATE leaves: a sound table without rows.
LEMMA TruncateIsSound ==
  ASSUME NEW t, Sound(t)
  PROVE  /\ Follows(t, TruncateTable(t))
         /\ TruncateTable(t).schema = t.schema
         /\ TruncateTable(t).columns[1] = << >>
<1> DEFINE bare == [c \in DOMAIN t.columns |-> << >>]
           u == [t EXCEPT !.columns = bare, !.row_count = 0, !.bytes = 0]
<1>1. /\ DOMAIN t = TableFields /\ t.schema \in Seq(ColumnDefs) /\ ValidSchema(t.schema)
      /\ t.row_count \in Nat /\ Typed(t.schema, t.columns, t.row_count)
      /\ t.columns \in Seq(Seq(Values)) /\ Len(t.columns) = Len(t.schema)
  BY DEF Sound, Shaped, Typed
<1>2. DOMAIN t.columns = 1 .. Len(t.schema) /\ 1 \in 1 .. Len(t.schema)
  BY FirstColumn DEF Sound
<1>3. /\ DOMAIN u = TableFields /\ u.schema = t.schema /\ u.max_rows = t.max_rows
      /\ u.columns = bare /\ u.row_count = 0 /\ u.index = t.index /\ u.generation = t.generation
  BY <1>1 DEF TableFields
<1>4. \A c \in 1 .. Len(t.schema) : bare[c] = << >>
  BY <1>2
<1>5. DOMAIN bare = 1 .. Len(t.schema) /\ bare = [c \in DOMAIN bare |-> bare[c]]
  BY <1>2
<1> HIDE DEF bare, u
<1>6. \A c \in 1 .. Len(t.schema) : IsColumn(bare[c], t.schema[c].type, 0)
  BY <1>4, EmptyColumn
<1>7. Typed(t.schema, bare, 0)
  BY <1>1, <1>5, <1>6, ColumnsAreTyped
<1>8. Sized(t.schema, 0, t.max_rows)
  BY <1>1, TableAssumption, LenProperties DEF Sound, Shaped, Sized
<1>9. Shaped(u) /\ Indexable(u)
  BY <1>3, <1>7, <1>8 DEF Shaped, Sound, Indexable
<1>10. CASE t.row_count = 0
  <2>1. TruncateTable(t) = u
    BY <1>10 DEF TruncateTable, u, bare
  <2>2. t.columns = bare
    <3>1. ASSUME NEW c \in 1 .. Len(t.schema)
          PROVE  t.columns[c] = bare[c]
      <4>1. t.columns[c] \in Seq(Values) /\ Len(t.columns[c]) = 0
        BY <1>1, <1>10 DEF Typed, IsColumn
      <4> QED
        BY <1>4, <4>1, EmptySeq
    <3>2. bare \in Seq(Seq(Values)) /\ Len(bare) = Len(t.schema)
      BY <1>7 DEF Typed
    <3> QED
      BY <1>1, <3>1, <3>2, SeqEqual
  <2>3. u.index.some => BuildIndex(u, u.index.column, u.index.limits)
                          = BuildIndex(t, u.index.column, u.index.limits)
    BY <1>3, <1>10, <2>2, BuildReadsRows
  <2>4. Current(u)
    BY <1>3, <2>3 DEF Sound, Current
  <2> QED
    BY <1>2, <1>3, <1>4, <1>9, <2>1, <2>4 DEF Follows, Sound
<1>11. CASE t.row_count # 0
  <2>1. TruncateTable(t) = MarkMutated(u)
    BY <1>11 DEF TruncateTable, u, bare
  <2>2. Follows(t, MarkMutated(u))
    BY <1>3, <1>9, MarkIsSound DEF Follows
  <2> QED
    BY <1>2, <1>3, <1>4, <2>1, <2>2, MarkKeepsRows
<1> QED
  BY <1>10, <1>11

\* What replacing the values of some rows of a column leaves.
LEMMA ReplaceIsSound ==
  ASSUME NEW t, Sound(t), NEW column \in DOMAIN t.schema, NEW new,
         DOMAIN new \subseteq 1 .. t.row_count,
         \A r \in DOMAIN new : new[r] \in ValuesOf(t.schema[column].type)
  PROVE  LET v == ReplaceValues(t, column, new)
         IN  /\ Follows(t, v)
             /\ v.schema = t.schema
             /\ v.columns[column] = [r \in DOMAIN t.columns[column] |->
                                       IF r \in DOMAIN new THEN new[r] ELSE t.columns[column][r]]
<1> DEFINE old == t.columns[column]
           fresh == [r \in DOMAIN old |-> IF r \in DOMAIN new THEN new[r] ELSE old[r]]
           changed == [t.columns EXCEPT ![column] = fresh]
           u(b) == [t EXCEPT !.columns = changed, !.bytes = b]
<1>1. /\ DOMAIN t = TableFields /\ t.schema \in Seq(ColumnDefs) /\ ValidSchema(t.schema)
      /\ t.row_count \in Nat /\ Typed(t.schema, t.columns, t.row_count)
      /\ t.columns \in Seq(Seq(Values)) /\ Len(t.columns) = Len(t.schema)
  BY DEF Sound, Shaped, Typed
<1>2. DOMAIN t.columns = 1 .. Len(t.schema) /\ column \in 1 .. Len(t.schema)
  BY <1>1, FirstColumn, LenProperties DEF Sound
<1>3. IsColumn(old, t.schema[column].type, t.row_count)
  BY <1>1, <1>2 DEF Typed
<1>4. old \in [1 .. t.row_count -> Values] /\ DOMAIN old = 1 .. t.row_count
  BY <1>3, LenProperties DEF IsColumn
<1>5. DOMAIN new = {} => fresh = old
  <2>1. SUFFICES ASSUME DOMAIN new = {} PROVE fresh = old
    OBVIOUS
  <2>2. fresh = [r \in DOMAIN old |-> old[r]]
    BY <2>1
  <2>3. old = [r \in DOMAIN old |-> old[r]]
    BY <1>4
  <2> QED
    BY <2>2, <2>3
<1>6. CASE DOMAIN new = {}
  <2>1. ReplaceValues(t, column, new) = t
    BY <1>6 DEF ReplaceValues
  <2> QED
    BY <1>5, <1>6, <2>1 DEF Follows
<1>7. CASE DOMAIN new # {}
  <2>1. PICK b : ReplaceValues(t, column, new) = MarkMutated(u(b))
    BY <1>7, <1>1 DEF ReplaceValues, TableFields
  <2>2. /\ DOMAIN u(b) = TableFields /\ u(b).schema = t.schema /\ u(b).max_rows = t.max_rows
        /\ u(b).columns = changed /\ u(b).row_count = t.row_count /\ u(b).index = t.index
    BY <1>1 DEF TableFields
  <2>3. IsColumn(fresh, t.schema[column].type, t.row_count)
    <3>0. ValuesOf(t.schema[column].type) \subseteq Values
      BY <1>1, <1>2, SchemaIsTyped
    <3>1. \A r \in 1 .. t.row_count : fresh[r] \in ValuesOf(t.schema[column].type)
      BY <1>3, <1>4 DEF IsColumn
    <3>2. fresh \in [1 .. t.row_count -> Values]
      BY <1>4, <3>0, <3>1
    <3> HIDE DEF fresh
    <3>3. fresh \in Seq(Values) /\ Len(fresh) = t.row_count
      BY <1>1, <3>2, FunctionIsSeq
    <3> QED
      BY <3>1, <3>3 DEF IsColumn
  <2>4. \A c \in 1 .. Len(t.schema) : changed[c] = IF c = column THEN fresh ELSE t.columns[c]
    BY <1>2
  <2>5. DOMAIN changed = 1 .. Len(t.schema) /\ changed = [c \in DOMAIN changed |-> changed[c]]
    BY <1>2
  <2> DEFINE w == u(b)
  <2>6. DOMAIN w = TableFields /\ w.schema = t.schema /\ w.max_rows = t.max_rows
        /\ w.columns = changed /\ w.row_count = t.row_count /\ w.index = t.index
    BY <2>2
  <2>7. ReplaceValues(t, column, new) = MarkMutated(w)
    BY <2>1
  <2> HIDE DEF changed, w, u
  <2>8. \A c \in 1 .. Len(t.schema) : IsColumn(changed[c], t.schema[c].type, t.row_count)
    BY <1>1, <2>3, <2>4 DEF Typed
  <2>9. Typed(t.schema, changed, t.row_count)
    BY <1>1, <2>5, <2>8, ColumnsAreTyped
  <2>10. Shaped(w) /\ Indexable(w)
    BY <2>6, <2>9 DEF Shaped, Sound, Indexable
  <2>11. Follows(t, MarkMutated(w))
    BY <2>6, <2>10, MarkIsSound DEF Follows
  <2> QED
    BY SMTT(60), <1>2, <2>4, <2>6, <2>7, <2>11, MarkKeepsRows
<1> QED
  BY <1>6, <1>7

(***************************************************************************)
(* The rows that DELETE leaves.                                            *)
(***************************************************************************)
\* The order of the naturals is well founded: used for rows and partitions, of
\* which there is any number.
LEMMA LeastElement ==
  ASSUME NEW S \in SUBSET Nat, S # {}
  PROVE  \E n \in S : \A m \in S : n <= m
<1> DEFINE R == OpToRel(<, Nat)
<1>1. IsWellFoundedOn(R, Nat)
  BY NatLessThanWellFounded
<1>2. PICK n \in S : \A m \in S : <<m, n>> \notin R
  BY <1>1, WFMin
<1>3. \A m \in S : m < n => <<m, n>> \in R
  BY DEF OpToRel
<1> HIDE DEF R
<1>4. \A m \in S : ~ (m < n)
  BY <1>2, <1>3
<1> QED
  BY <1>4

\* Induction up to the number of rows or partitions, from either end of a loop.
LEMMA InductionUpTo ==
  ASSUME NEW a \in Nat, NEW L \in Nat, NEW S, a \in S, \A n \in a + 1 .. L : n - 1 \in S => n \in S
  PROVE  a .. L \subseteq S
<1> DEFINE B == (a .. L) \ S
<1>1. SUFFICES ASSUME B # {} PROVE FALSE
  OBVIOUS
<1>2. PICK n \in B : \A m \in B : n <= m
  <2>1. B \in SUBSET Nat
    OBVIOUS
  <2> HIDE DEF B
  <2> QED
    BY <1>1, <2>1, LeastElement
<1>3. n \in a + 1 .. L /\ n - 1 \in a .. L /\ n - 1 \notin B
  BY <1>2
<1> QED
  BY <1>2, <1>3

\* f is what compact_deleted_rows has retained after each row, up to n.
RetainedUpTo(f, column, rows, n) ==
  f = [r \in 0 .. n |-> IF r = 0 THEN << >>
                        ELSE IF r \in rows THEN f[r - 1] ELSE Append(f[r - 1], column[r])]

Retained(column, rows) == CHOOSE f : RetainedUpTo(f, column, rows, Len(column))

\* Compact is what is retained after the last row.
LEMMA CompactIsLast ==
  ASSUME NEW column, NEW rows
  PROVE  Compact(column, rows) = Retained(column, rows)[Len(column)]
  BY DEF Compact, Retained, RetainedUpTo

\* The pass over a column is well defined for every column.
LEMMA RetainedUpToExists ==
  ASSUME NEW column, NEW rows, Len(column) \in Nat
  PROVE  \E f : RetainedUpTo(f, column, rows, Len(column))
<1> DEFINE L == Len(column)
           N == {n \in 0 .. L : \E f : RetainedUpTo(f, column, rows, n)}
           Next1(g, r) == IF r \in rows THEN g[r - 1] ELSE Append(g[r - 1], column[r])
<1>1. 0 \in N
  <2>1. \A k \in 0 .. 0 : k = 0
    OBVIOUS
  <2>2. RetainedUpTo([k \in 0 .. 0 |-> << >>], column, rows, 0)
    BY <2>1 DEF RetainedUpTo
  <2>3. 0 \in 0 .. L
    OBVIOUS
  <2> QED
    BY <2>2, <2>3
<1>2. ASSUME NEW n \in 1 .. L, n - 1 \in N
      PROVE  n \in N
  <2>1. PICK f : RetainedUpTo(f, column, rows, n - 1)
    BY <1>2
  <2> DEFINE g == [k \in 0 .. n |-> IF k = n THEN Next1(f, n) ELSE f[k]]
  <2>2. ASSUME NEW k \in 0 .. n
        PROVE  g[k] = IF k = 0 THEN << >> ELSE Next1(g, k)
    <3>1. CASE k = n
      <4>1. n # 0 /\ n - 1 \in 0 .. n /\ n - 1 # n
        OBVIOUS
      <4>2. g[n - 1] = f[n - 1] /\ g[n] = Next1(f, n)
        BY <4>1
      <4> QED
        BY <3>1, <4>1, <4>2
    <3>2. CASE k # n
      <4>1. k \in 0 .. n - 1 /\ (k # 0 => k - 1 \in 0 .. n /\ k - 1 # n)
        BY <3>2
      <4>2. f[k] = IF k = 0 THEN << >> ELSE Next1(f, k)
        BY <4>1, <2>1 DEF RetainedUpTo
      <4>3. g[k] = f[k] /\ (k # 0 => g[k - 1] = f[k - 1])
        BY <3>2, <4>1
      <4> QED
        BY <4>2, <4>3
    <3> QED
      BY <3>1, <3>2
  <2>3. g = [k \in 0 .. n |-> g[k]]
    OBVIOUS
  <2> HIDE DEF g
  <2>4. RetainedUpTo(g, column, rows, n)
    BY <2>2, <2>3 DEF RetainedUpTo
  <2> QED
    BY <2>4
<1>3. 0 .. L \subseteq N
  <2>1. \A n \in 0 + 1 .. L : n - 1 \in N => n \in N
    BY <1>2
  <2> HIDE DEF N, L
  <2> QED
    BY <1>1, <2>1, InductionUpTo DEF L
<1>4. L \in N
  BY <1>3
<1> QED
  BY <1>4

\* One row after another.
LEMMA RetainedStep ==
  ASSUME NEW column, NEW rows, Len(column) \in Nat
  PROVE  /\ Retained(column, rows)[0] = << >>
         /\ \A r \in 1 .. Len(column) :
              Retained(column, rows)[r] =
                IF r \in rows THEN Retained(column, rows)[r - 1]
                ELSE Append(Retained(column, rows)[r - 1], column[r])
<1>1. RetainedUpTo(Retained(column, rows), column, rows, Len(column))
  BY RetainedUpToExists DEF Retained
<1>2. 0 \in 0 .. Len(column) /\ \A r \in 1 .. Len(column) : r \in 0 .. Len(column) /\ r # 0
  OBVIOUS
<1> QED
  BY <1>1, <1>2 DEF RetainedUpTo

\* Of every column as many values are left as of every other.
LEMMA CompactIsColumn ==
  ASSUME NEW schema \in Seq(ColumnDefs), NEW c \in 1 .. Len(schema), NEW n \in Nat, NEW column,
         IsColumn(column, schema[c].type, n), NEW rows \in SUBSET (1 .. n)
  PROVE  IsColumn(Compact(column, rows), schema[c].type, n - Cardinality(rows))
<1> DEFINE V == ValuesOf(schema[c].type)
           kept == Retained(column, rows)
           gone(k) == Cardinality(rows \cap (1 .. k))
           N == {k \in 0 .. n : kept[k] \in Seq(V) /\ Len(kept[k]) = k - gone(k)}
<1>1. Len(column) = n /\ \A r \in 1 .. n : column[r] \in V
  BY DEF IsColumn
<1>2. V \subseteq Values
  BY SchemaIsTyped
<1>3. \A k \in 0 .. n : IsFiniteSet(rows \cap (1 .. k))
  <2>1. ASSUME NEW k \in 0 .. n
        PROVE  IsFiniteSet(rows \cap (1 .. k))
    <3>1. IsFiniteSet(1 .. k)
      BY FS_Interval
    <3> QED
      BY <3>1, FS_Intersection
  <2> QED
    BY <2>1
<1>4. \A k \in 0 .. n : gone(k) \in Nat
  BY <1>3, FS_CardinalityType
<1>5. 0 \in N
  <2>1. kept[0] = << >>
    BY <1>1, RetainedStep
  <2>2. rows \cap (1 .. 0) = {}
    OBVIOUS
  <2>3. gone(0) = 0
    BY <2>2, FS_EmptySet
  <2>4. << >> \in Seq(V) /\ Len(<< >>) = 0
    BY EmptySeq
  <2> HIDE DEF kept, gone, V
  <2>5. kept[0] \in Seq(V) /\ Len(kept[0]) = 0 - gone(0)
    BY <2>1, <2>3, <2>4
  <2>6. 0 \in 0 .. n
    OBVIOUS
  <2> QED
    BY <2>5, <2>6
<1>6. ASSUME NEW k \in 0 + 1 .. n, k - 1 \in N
      PROVE  k \in N
  <2>1. kept[k] = IF k \in rows THEN kept[k - 1] ELSE Append(kept[k - 1], column[k])
    BY <1>1, RetainedStep
  <2>2. k \in 0 .. n /\ k - 1 \in 0 .. n /\ kept[k - 1] \in Seq(V)
        /\ Len(kept[k - 1]) = (k - 1) - gone(k - 1)
    BY <1>6
  <2>3. gone(k - 1) \in Nat
    BY <1>4, <2>2
  <2>4. CASE k \in rows
    <3>1. rows \cap (1 .. k) = (rows \cap (1 .. k - 1)) \cup {k} /\ k \notin rows \cap (1 .. k - 1)
      BY <2>4
    <3>2. gone(k) = gone(k - 1) + 1
      BY <1>3, <2>2, <3>1, FS_AddElement
    <3>3. kept[k] = kept[k - 1]
      BY <2>1, <2>4
    <3> HIDE DEF gone, kept
    <3>4. Len(kept[k]) = k - gone(k)
      BY <2>2, <2>3, <3>2, <3>3
    <3> QED
      BY <2>2, <3>3, <3>4
  <2>5. CASE k \notin rows
    <3>1. rows \cap (1 .. k) = rows \cap (1 .. k - 1)
      BY <2>5
    <3>2. gone(k) = gone(k - 1)
      BY <3>1
    <3>3. kept[k] = Append(kept[k - 1], column[k]) /\ column[k] \in V
      BY <1>1, <2>1, <2>5
    <3> HIDE DEF gone, kept, V
    <3>4. kept[k] \in Seq(V) /\ Len(kept[k]) = Len(kept[k - 1]) + 1
      BY <2>2, <3>3, AppendProperties
    <3>5. Len(kept[k]) = k - gone(k)
      BY <2>2, <2>3, <3>2, <3>4
    <3> QED
      BY <2>2, <3>4, <3>5
  <2> QED
    BY <2>4, <2>5
<1>7. n \in N
  <2>1. 0 \in Nat /\ n \in 0 .. n
    OBVIOUS
  <2> HIDE DEF N
  <2>2. 0 .. n \subseteq N
    BY <1>5, <1>6, <2>1, InductionUpTo
  <2> QED
    BY <2>1, <2>2
<1>8. gone(n) = Cardinality(rows)
  <2>1. rows \cap (1 .. n) = rows
    OBVIOUS
  <2> QED
    BY <2>1
<1>9. Compact(column, rows) = kept[n]
  BY <1>1, CompactIsLast
<1> DEFINE d == Compact(column, rows)
<1>10. d \in Seq(V) /\ Len(d) = n - Cardinality(rows)
  BY <1>7, <1>8, <1>9
<1> HIDE DEF d, V
<1>11. d \in Seq(Values) /\ \A r \in 1 .. Len(d) : d[r] \in V
  BY <1>2, <1>10, SeqMonotonic, ElementOfSeq
<1>12. IsColumn(d, schema[c].type, n - Cardinality(rows))
  BY <1>10, <1>11 DEF IsColumn, V
<1> QED
  BY <1>12 DEF d

\* What DELETE leaves: as many rows fewer as it matched.
LEMMA DeleteIsSound ==
  ASSUME NEW t, Sound(t), NEW rows \in SUBSET (1 .. t.row_count)
  PROVE  Follows(t, DeleteRows(t, rows))
<1> DEFINE left == [c \in DOMAIN t.columns |-> Compact(t.columns[c], rows)]
           n == t.row_count - Cardinality(rows)
           u == [t EXCEPT !.columns = left, !.row_count = @ - Cardinality(rows),
                          !.bytes = SatSub(@, DeletedBytes(t, rows))]
<1>1. /\ DOMAIN t = TableFields /\ t.schema \in Seq(ColumnDefs) /\ ValidSchema(t.schema)
      /\ t.row_count \in Nat /\ Typed(t.schema, t.columns, t.row_count)
      /\ Sized(t.schema, t.row_count, t.max_rows)
  BY DEF Sound, Shaped, Typed
<1>2. DOMAIN t.columns = 1 .. Len(t.schema)
  BY FirstColumn DEF Sound
<1>3. CASE rows = {}
  BY <1>3 DEF DeleteRows, Follows
<1>4. CASE rows # {}
  <2>1. DeleteRows(t, rows) = MarkMutated(u)
    BY <1>4 DEF DeleteRows
  <2>2. /\ DOMAIN u = TableFields /\ u.schema = t.schema /\ u.max_rows = t.max_rows
        /\ u.columns = left /\ u.row_count = n /\ u.index = t.index
    BY <1>1 DEF TableFields
  <2>3. Cardinality(rows) \in Nat /\ n \in Nat
    <3>1. IsFiniteSet(1 .. t.row_count) /\ Cardinality(1 .. t.row_count) = t.row_count
      BY <1>1, FS_Interval
    <3>2. IsFiniteSet(rows) /\ Cardinality(rows) <= t.row_count
      BY <3>1, FS_Subset
    <3>3. Cardinality(rows) \in Nat
      BY <3>2, FS_CardinalityType
    <3> QED
      BY <1>1, <3>2, <3>3
  <2>4. \A c \in 1 .. Len(t.schema) : left[c] = Compact(t.columns[c], rows)
    BY <1>2
  <2>5. DOMAIN left = 1 .. Len(t.schema) /\ left = [c \in DOMAIN left |-> left[c]]
    BY <1>2
  <2> HIDE DEF left, u
  <2>6. ASSUME NEW c \in 1 .. Len(t.schema)
        PROVE  IsColumn(left[c], t.schema[c].type, n)
    <3>1. IsColumn(t.columns[c], t.schema[c].type, t.row_count)
      BY <1>1 DEF Typed
    <3>2. IsColumn(Compact(t.columns[c], rows), t.schema[c].type, n)
      BY <1>1, <3>1, CompactIsColumn
    <3> QED
      BY <2>4, <3>2
  <2>7. Typed(t.schema, left, n)
    <3> HIDE DEF n
    <3> QED
      BY <1>1, <2>3, <2>5, <2>6, ColumnsAreTyped
  <2>8. Sized(t.schema, n, t.max_rows)
    <3>1. Len(t.schema) \in Nat
      BY <1>1, LenProperties
    <3>2. n <= t.row_count
      BY <1>1, <2>3
    <3>3. n * Len(t.schema) <= t.row_count * Len(t.schema)
      <4> HIDE DEF n
      <4> QED
        BY <1>1, <2>3, <3>1, <3>2, FewerCells
    <3>4. n * Len(t.schema) \in Nat /\ t.row_count * Len(t.schema) \in Nat
      <4> HIDE DEF n
      <4> QED
        BY <1>1, <2>3, <3>1, FewerCells
    <3> HIDE DEF n
    <3>5. n * Len(t.schema) <= MaxCells
      BY <1>1, <3>3, <3>4, TableAssumption DEF Sized
    <3> QED
      BY <1>1, <2>3, <3>2, <3>5 DEF Sized
  <2>9. Shaped(u) /\ Indexable(u)
    BY <2>2, <2>7, <2>8 DEF Shaped, Sound, Indexable
  <2>10. Follows(t, MarkMutated(u))
    BY <2>2, <2>9, MarkIsSound DEF Follows
  <2> QED
    BY <2>1, <2>10
<1> QED
  BY <1>3, <1>4

(***************************************************************************)
(* Columns.                                                                *)
(***************************************************************************)
\* ALTER TABLE ADD COLUMN: a column of defaults, under a name not in use and
\* within the column and cell limits.
LEMMA AddColumnIsSound ==
  ASSUME NEW t, Sound(t), NEW name \in ColumnNames, NEW type \in DataTypes, CanAddColumn(t, name)
  PROVE  Follows(t, AddColumn(t, name, type))
<1> DEFINE field == [name |-> name, type |-> type]
           column == [r \in 1 .. t.row_count |-> Default(type)]
           schema == Append(t.schema, field)
           columns == Append(t.columns, column)
           L == Len(t.schema)
           u == [t EXCEPT !.schema = schema, !.columns = columns,
                          !.bytes = @ + ColumnBytes(type, column)]
<1>1. /\ DOMAIN t = TableFields /\ t.schema \in Seq(ColumnDefs) /\ ValidSchema(t.schema)
      /\ t.row_count \in Nat /\ Typed(t.schema, t.columns, t.row_count)
      /\ t.columns \in Seq(Seq(Values)) /\ Len(t.columns) = L
      /\ Sized(t.schema, t.row_count, t.max_rows)
  BY DEF Sound, Shaped, Typed
<1>2. DOMAIN t.schema = 1 .. L /\ L \in Nat
  BY <1>1, LenProperties
<1>3. AddColumn(t, name, type) = MarkMutated(u)
  BY DEF AddColumn
<1>4. /\ DOMAIN u = TableFields /\ u.schema = schema /\ u.max_rows = t.max_rows
      /\ u.columns = columns /\ u.row_count = t.row_count /\ u.index = t.index
  BY <1>1 DEF TableFields
<1>5. field \in ColumnDefs /\ field.name = name /\ field.type = type
  BY DEF ColumnDefs
<1>6. IsColumn(column, type, t.row_count)
  <2>1. Default(type) \in ValuesOf(type) /\ Default(type) \in Values
    BY DefaultIsTyped DEF Values
  <2>2. \A r \in 1 .. t.row_count : column[r] \in ValuesOf(type)
    BY <2>1
  <2>3. column \in [1 .. t.row_count -> Values]
    BY <2>1
  <2> HIDE DEF column
  <2>4. column \in Seq(Values) /\ Len(column) = t.row_count
    BY <1>1, <2>3, FunctionIsSeq
  <2> QED
    BY <2>2, <2>4 DEF IsColumn
<1> HIDE DEF field, column
<1>7. /\ schema \in Seq(ColumnDefs) /\ schema # << >> /\ Len(schema) = L + 1
      /\ schema[L + 1] = field /\ \A c \in 1 .. L : schema[c] = t.schema[c]
  <2>1. /\ schema \in Seq(ColumnDefs) /\ Len(schema) = L + 1
        /\ schema[L + 1] = field /\ \A c \in 1 .. L : schema[c] = t.schema[c]
    BY <1>1, <1>5, AppendProperties
  <2> HIDE DEF schema
  <2>2. schema # << >>
    BY <1>2, <2>1, EmptySeq
  <2> QED
    BY <2>1, <2>2
<1>8. /\ columns \in Seq(Seq(Values)) /\ Len(columns) = L + 1
      /\ columns[L + 1] = column /\ \A c \in 1 .. L : columns[c] = t.columns[c]
  <2>1. column \in Seq(Values)
    BY <1>6 DEF IsColumn
  <2> QED
    BY <1>1, <2>1, AppendProperties
<1> HIDE DEF schema, columns, u
<1>9. DOMAIN schema = 1 .. L + 1
  BY <1>7, LenProperties
<1>10. \A c \in 1 .. L + 1 : c \in 1 .. L \/ c = L + 1
  BY <1>2
<1>11. ValidSchema(schema)
  <2>1. Len(schema) <= MaxColumns
    BY <1>7 DEF CanAddColumn
  <2>2. ASSUME NEW i \in 1 .. L + 1, NEW j \in 1 .. L + 1, i # j
        PROVE  schema[i].name # schema[j].name
    <3>1. \A c \in 1 .. L : t.schema[c].name # name
      BY <1>2 DEF CanAddColumn
    <3>2. CASE i \in 1 .. L /\ j \in 1 .. L
      BY <1>1, <1>2, <1>7, <2>2, <3>2 DEF ValidSchema
    <3>3. CASE i = L + 1 /\ j \in 1 .. L
      BY <1>5, <1>7, <3>1, <3>3
    <3>4. CASE j = L + 1 /\ i \in 1 .. L
      BY <1>5, <1>7, <3>1, <3>4
    <3> QED
      BY <1>10, <2>2, <3>2, <3>3, <3>4
  <2> QED
    BY <1>7, <1>9, <2>1, <2>2 DEF ValidSchema
<1>12. Typed(schema, columns, t.row_count)
  <2>1. ASSUME NEW c \in 1 .. L + 1
        PROVE  IsColumn(columns[c], schema[c].type, t.row_count)
    <3>1. CASE c \in 1 .. L
      BY <1>1, <1>7, <1>8, <3>1 DEF Typed
    <3>2. CASE c = L + 1
      BY <1>5, <1>6, <1>7, <1>8, <3>2
    <3> QED
      BY <1>10, <3>1, <3>2
  <2> QED
    BY <1>1, <1>7, <1>8, <1>11, <2>1 DEF Typed
<1>13. Sized(schema, t.row_count, t.max_rows)
  BY <1>1, <1>7 DEF Sized, CanAddColumn
<1>14. Shaped(u) /\ Indexable(u)
  <2>1. t.index.some => /\ t.index.column \in 1 .. L + 1
                        /\ schema[t.index.column] = t.schema[t.index.column]
                        /\ IsInt64(t.schema[t.index.column].type)
    BY <1>2, <1>7 DEF Sound, Indexable
  <2> QED
    BY <1>4, <1>9, <1>12, <1>13, <2>1 DEF Shaped, Indexable
<1> QED
  BY <1>3, <1>4, <1>14, MarkIsSound DEF Follows

\* What is left of a sequence without one of its elements.
LEMMA RemoveAtIsSeq ==
  ASSUME NEW S, NEW s \in Seq(S), NEW i \in 1 .. Len(s)
  PROVE  /\ RemoveAt(s, i) \in Seq(S) /\ Len(RemoveAt(s, i)) = Len(s) - 1
         /\ \A k \in 1 .. Len(s) - 1 : RemoveAt(s, i)[k] = s[IF k < i THEN k ELSE k + 1]
<1> DEFINE a == SubSeq(s, 1, i - 1)
           b == SubSeq(s, i + 1, Len(s))
<1>0. Len(s) \in Nat /\ \A k \in 1 .. Len(s) : s[k] \in S
  BY LenProperties, ElementOfSeq
<1>1. a \in Seq(S) /\ Len(a) = i - 1 /\ \A k \in 1 .. i - 1 : a[k] = s[k]
  <2>1. \A k \in 1 .. i - 1 : s[k] \in S
    BY <1>0
  <2>2. 1 \in Int /\ i - 1 \in Int /\ (1 <= i - 1 \/ i - 1 = 0)
    BY <1>0
  <2>3. /\ a \in Seq(S) /\ Len(a) = IF 1 <= i - 1 THEN (i - 1) - 1 + 1 ELSE 0
        /\ \A k \in 1 .. (i - 1) - 1 + 1 : a[k] = s[1 + k - 1]
    BY <2>1, <2>2, SubSeqProperties
  <2> HIDE DEF a
  <2> QED
    BY <2>2, <2>3
<1>2. b \in Seq(S) /\ Len(b) = Len(s) - i /\ \A k \in 1 .. Len(s) - i : b[k] = s[i + k]
  <2>1. \A k \in i + 1 .. Len(s) : s[k] \in S
    BY <1>0
  <2>2. i + 1 \in Int /\ Len(s) \in Int /\ (i + 1 <= Len(s) \/ i = Len(s))
    BY <1>0
  <2>3. /\ b \in Seq(S) /\ Len(b) = IF i + 1 <= Len(s) THEN Len(s) - (i + 1) + 1 ELSE 0
        /\ \A k \in 1 .. Len(s) - (i + 1) + 1 : b[k] = s[(i + 1) + k - 1]
    BY <2>1, <2>2, SubSeqProperties
  <2> HIDE DEF b
  <2>4. Len(b) = Len(s) - i
    BY <1>0, <2>2, <2>3
  <2>5. ASSUME NEW k \in 1 .. Len(s) - i
        PROVE  b[k] = s[i + k]
    <3>1. k \in 1 .. Len(s) - (i + 1) + 1 /\ (i + 1) + k - 1 = i + k
      BY <1>0
    <3> QED
      BY <2>3, <3>1
  <2> QED
    BY <2>3, <2>4, <2>5
<1>3. RemoveAt(s, i) = a \o b
  BY DEF RemoveAt
<1> HIDE DEF a, b
<1>4. /\ a \o b \in Seq(S) /\ Len(a \o b) = Len(a) + Len(b)
      /\ \A k \in 1 .. Len(a) + Len(b) : (a \o b)[k] = IF k <= Len(a) THEN a[k] ELSE b[k - Len(a)]
  BY <1>1, <1>2, ConcatProperties
<1>5. Len(a) + Len(b) = Len(s) - 1
  BY <1>0, <1>1, <1>2
<1>6. ASSUME NEW k \in 1 .. Len(s) - 1
      PROVE  (a \o b)[k] = s[IF k < i THEN k ELSE k + 1]
  <2>1. (a \o b)[k] = IF k <= i - 1 THEN a[k] ELSE b[k - (i - 1)]
    BY <1>1, <1>4, <1>5
  <2>2. CASE k < i
    <3>1. k \in 1 .. i - 1 /\ k <= i - 1
      BY <2>2
    <3> QED
      BY <1>1, <2>1, <2>2, <3>1
  <2>3. CASE ~(k < i)
    <3>1. ~(k <= i - 1) /\ k - (i - 1) \in 1 .. Len(s) - i /\ i + (k - (i - 1)) = k + 1
      BY <1>0, <2>3
    <3>2. b[k - (i - 1)] = s[k + 1]
      BY <1>2, <3>1
    <3> QED
      BY <2>1, <2>3, <3>1, <3>2
  <2> QED
    BY <2>2, <2>3
<1> QED
  BY <1>3, <1>4, <1>5, <1>6

\* ALTER TABLE DROP COLUMN: the later columns move up, and the index is gone.
LEMMA DropColumnIsSound ==
  ASSUME NEW t, Sound(t), NEW column \in DOMAIN t.schema, CanDropColumn(t)
  PROVE  Follows(t, DropColumn(t, column))
<1> DEFINE schema == RemoveAt(t.schema, column)
           columns == RemoveAt(t.columns, column)
           L == Len(t.schema)
           u == DropColumn(t, column)
           old(k) == IF k < column THEN k ELSE k + 1
<1>1. /\ DOMAIN t = TableFields /\ t.schema \in Seq(ColumnDefs) /\ ValidSchema(t.schema)
      /\ t.row_count \in Nat /\ Typed(t.schema, t.columns, t.row_count)
      /\ t.columns \in Seq(Seq(Values)) /\ Len(t.columns) = L
      /\ Sized(t.schema, t.row_count, t.max_rows)
  BY DEF Sound, Shaped, Typed
<1>2. DOMAIN t.schema = 1 .. L /\ L \in Nat /\ L > 1 /\ column \in 1 .. L
  BY <1>1, LenProperties DEF CanDropColumn
<1>3. /\ DOMAIN u = TableFields /\ u.schema = schema /\ u.max_rows = t.max_rows
      /\ u.columns = columns /\ u.row_count = t.row_count /\ ~u.index.some
  BY <1>1 DEF TableFields, DropColumn, NoIndex
<1>4. /\ schema \in Seq(ColumnDefs) /\ Len(schema) = L - 1
      /\ \A k \in 1 .. L - 1 : schema[k] = t.schema[old(k)]
  BY SMTT(60), <1>1, <1>2, RemoveAtIsSeq
<1>5. /\ columns \in Seq(Seq(Values)) /\ Len(columns) = L - 1
      /\ \A k \in 1 .. L - 1 : columns[k] = t.columns[old(k)]
  <2>1. column \in 1 .. Len(t.columns)
    BY <1>1, <1>2
  <2> QED
    BY <1>1, <2>1, RemoveAtIsSeq
<1>6. /\ \A k \in 1 .. L - 1 : old(k) \in 1 .. L
      /\ \A j, k \in 1 .. L - 1 : j # k => old(j) # old(k)
  BY <1>2
<1> HIDE DEF schema, columns, u, old
<1>7. DOMAIN schema = 1 .. L - 1 /\ schema # << >>
  <2>1. DOMAIN schema = 1 .. L - 1
    BY <1>4, LenProperties
  <2>2. 1 \in DOMAIN schema
    BY <1>2, <2>1
  <2> QED
    BY <1>2, <1>4, <2>1, EmptySeq
<1>8. ValidSchema(schema)
  <2>1. Len(schema) <= MaxColumns
    BY <1>1, <1>2, <1>4, TableAssumption DEF ValidSchema
  <2>2. ASSUME NEW i \in 1 .. L - 1, NEW j \in 1 .. L - 1, i # j
        PROVE  schema[i].name # schema[j].name
    <3>1. t.schema[old(i)].name # t.schema[old(j)].name
      BY <1>1, <1>2, <1>6, <2>2 DEF ValidSchema
    <3> QED
      BY <1>4, <3>1
  <2> QED
    BY <1>7, <2>1, <2>2 DEF ValidSchema
<1>9. Typed(schema, columns, t.row_count)
  <2>1. ASSUME NEW c \in 1 .. L - 1
        PROVE  IsColumn(columns[c], schema[c].type, t.row_count)
    BY <1>1, <1>4, <1>5, <1>6 DEF Typed
  <2> QED
    BY <1>1, <1>4, <1>5, <1>8, <2>1 DEF Typed
<1>10. Sized(schema, t.row_count, t.max_rows)
  <2>1. L - 1 \in Nat /\ L - 1 <= L
    BY <1>2
  <2>2. t.row_count * (L - 1) <= t.row_count * L /\ t.row_count * (L - 1) \in Nat
        /\ t.row_count * L \in Nat
    <3>1. (L - 1) * t.row_count <= L * t.row_count /\ (L - 1) * t.row_count \in Nat
          /\ L * t.row_count \in Nat
      BY <1>1, <1>2, <2>1, FewerCells
    <3>2. (L - 1) * t.row_count = t.row_count * (L - 1) /\ L * t.row_count = t.row_count * L
      BY <1>1, <1>2
    <3> QED
      BY <3>1, <3>2
  <2>3. t.row_count * (L - 1) <= MaxCells
    BY <1>1, <2>2, TableAssumption DEF Sized
  <2> QED
    BY <1>1, <1>4, <2>3 DEF Sized
<1> QED
  BY <1>3, <1>9, <1>10 DEF Follows, Sound, Shaped, Indexable, Current, u

\* ALTER TABLE RENAME COLUMN: another name, no other change.
LEMMA RenameColumnIsSound ==
  ASSUME NEW t, Sound(t), NEW column \in DOMAIN t.schema, NEW name \in ColumnNames,
         CanRenameColumn(t, column, name)
  PROVE  Follows(t, RenameColumn(t, column, name))
<1> DEFINE field == [t.schema[column] EXCEPT !.name = name]
           schema == [t.schema EXCEPT ![column] = field]
           L == Len(t.schema)
           u == RenameColumn(t, column, name)
<1>1. /\ DOMAIN t = TableFields /\ t.schema \in Seq(ColumnDefs) /\ ValidSchema(t.schema)
      /\ t.row_count \in Nat /\ Typed(t.schema, t.columns, t.row_count)
      /\ Sized(t.schema, t.row_count, t.max_rows)
  BY DEF Sound, Shaped, Typed
<1>2. DOMAIN t.schema = 1 .. L /\ L \in Nat /\ column \in 1 .. L
  BY <1>1, LenProperties
<1>3. /\ DOMAIN u = TableFields /\ u.schema = schema /\ u.max_rows = t.max_rows
      /\ u.columns = t.columns /\ u.row_count = t.row_count /\ u.index = t.index
      /\ u.generation = t.generation
  BY <1>1 DEF TableFields, RenameColumn
<1>4. field \in ColumnDefs /\ field.name = name /\ field.type = t.schema[column].type
  <2>1. t.schema[column] \in ColumnDefs
    BY <1>1, <1>2, ElementOfSeq
  <2> QED
    BY <2>1 DEF ColumnDefs
<1> HIDE DEF field
<1>5. /\ schema \in Seq(ColumnDefs) /\ Len(schema) = L
      /\ \A c \in 1 .. L : schema[c] = IF c = column THEN field ELSE t.schema[c]
  BY <1>1, <1>2, <1>4, ExceptSeq
<1> HIDE DEF schema, u
<1>6. DOMAIN schema = 1 .. L /\ schema # << >>
  BY <1>2, <1>5, LenProperties, EmptySeq
<1>7. \A c \in 1 .. L : schema[c].type = t.schema[c].type
  BY <1>4, <1>5
<1>8. ValidSchema(schema)
  <2>1. ASSUME NEW i \in 1 .. L, NEW j \in 1 .. L, i # j
        PROVE  schema[i].name # schema[j].name
    <3>1. \A c \in 1 .. L : c # column => t.schema[c].name # name
      BY <1>2 DEF CanRenameColumn
    <3> QED
      BY <1>1, <1>2, <1>4, <1>5, <2>1, <3>1 DEF ValidSchema
  <2> QED
    BY <1>1, <1>5, <1>6, <2>1 DEF ValidSchema
<1>9. Typed(schema, t.columns, t.row_count)
  BY <1>1, <1>5, <1>7, <1>8 DEF Typed
<1>10. Shaped(u) /\ Indexable(u)
  BY <1>1, <1>2, <1>3, <1>5, <1>6, <1>7, <1>9 DEF Shaped, Sized, Sound, Indexable
<1>11. Current(u)
  <2>1. t.index.some => BuildIndex(u, t.index.column, t.index.limits)
                          = BuildIndex(t, t.index.column, t.index.limits)
    BY <1>3, BuildReadsRows
  <2> QED
    BY <1>3, <2>1 DEF Sound, Current
<1> QED
  BY <1>3, <1>10, <1>11 DEF Follows, Sound, u

(***************************************************************************)
(* The index, and new tables.                                              *)
(***************************************************************************)
\* CREATE INDEX on an Int64 column, within its limits.
LEMMA CreateIndexIsSound ==
  ASSUME NEW t, Sound(t), NEW column \in DOMAIN t.schema, IsInt64(t.schema[column].type),
         NEW limits, BuildIndex(t, column, limits).some
  PROVE  LET u == [t EXCEPT !.index = BuildIndex(t, column, limits)]
         IN  Sound(u) /\ u.schema = t.schema /\ u.columns = t.columns
<1> DEFINE built == BuildIndex(t, column, limits)
           u == [t EXCEPT !.index = built]
<1>1. DOMAIN t = TableFields
  BY DEF Sound, Shaped
<1>2. built.column = column /\ built.limits = limits
  <2>1. built # NoIndex
    BY DEF NoIndex
  <2> QED
    BY <2>1 DEF BuildIndex
<1> HIDE DEF built
<1>3. /\ DOMAIN u = TableFields /\ u.schema = t.schema /\ u.max_rows = t.max_rows
      /\ u.columns = t.columns /\ u.row_count = t.row_count /\ u.index = built
      /\ u.generation = t.generation
  BY <1>1 DEF TableFields
<1> HIDE DEF u
<1>4. BuildIndex(u, column, limits) = built
  BY <1>3, BuildReadsRows DEF built
<1>5. Shaped(u)
  BY <1>3 DEF Sound, Shaped
<1>6. Sound(u)
  BY <1>2, <1>3, <1>4, <1>5 DEF Sound, Indexable, Current
<1> QED
  BY <1>3, <1>6 DEF u, built

\* DROP INDEX.
LEMMA DropIndexIsSound ==
  ASSUME NEW t, Sound(t)
  PROVE  LET u == [t EXCEPT !.index = NoIndex]
         IN  Follows(t, u) /\ u.schema = t.schema /\ u.columns = t.columns
<1> DEFINE u == [t EXCEPT !.index = NoIndex]
<1>1. DOMAIN t = TableFields
  BY DEF Sound, Shaped
<1>2. /\ DOMAIN u = TableFields /\ u.schema = t.schema /\ u.max_rows = t.max_rows
      /\ u.columns = t.columns /\ u.row_count = t.row_count /\ ~u.index.some
  BY <1>1 DEF TableFields, NoIndex
<1> HIDE DEF u
<1>3. Follows(t, u)
  BY <1>2 DEF Sound, Shaped, Indexable, Current, Follows
<1> QED
  BY <1>2, <1>3 DEF u

\* A table as it is made: sound if its columns are, and without an index.
LEMMA NewTableIsSound ==
  ASSUME NEW schema \in Seq(ColumnDefs), ValidSchema(schema), NEW n \in Nat, NEW cap, NEW columns,
         Typed(schema, columns, n), Sized(schema, n, cap)
  PROVE  /\ Sound(NewTable(schema, cap, columns)) /\ ~NewTable(schema, cap, columns).index.some
         /\ NewTable(schema, cap, columns).row_count = n
<1> DEFINE u == NewTable(schema, cap, columns)
<1>1. Len(schema) \in Nat \ {0}
  BY EmptySeq DEF ValidSchema
<1>2. columns # << >> /\ Len(columns[1]) = n
  <2>1. 1 \in 1 .. Len(schema) /\ Len(columns) = Len(schema)
    BY <1>1 DEF Typed
  <2>2. Len(columns[1]) = n
    BY <2>1 DEF Typed, IsColumn
  <2>3. columns # << >>
    BY <1>1, <2>1, EmptySeq
  <2> QED
    BY <2>2, <2>3
<1>3. /\ DOMAIN u = TableFields /\ u.schema = schema /\ u.max_rows = cap
      /\ u.columns = columns /\ u.row_count = n /\ ~u.index.some
  BY <1>2 DEF TableFields, NewTable, NoIndex
<1> HIDE DEF u
<1>4. Sound(u)
  BY <1>3 DEF Sound, Shaped, Indexable, Current
<1> QED
  BY <1>3, <1>4 DEF u

\* CREATE TABLE.
LEMMA EmptyTableIsSound ==
  ASSUME NEW schema \in Seq(ColumnDefs), ValidSchema(schema)
  PROVE  Sound(EmptyTable(schema)) /\ ~EmptyTable(schema).index.some
<1> DEFINE columns == [c \in DOMAIN schema |-> << >>]
<1>1. DOMAIN schema = 1 .. Len(schema) /\ Len(schema) \in Nat
  BY LenProperties
<1>2. \A c \in 1 .. Len(schema) : columns[c] = << >>
  BY <1>1
<1>3. DOMAIN columns = 1 .. Len(schema) /\ columns = [c \in DOMAIN columns |-> columns[c]]
  BY <1>1
<1> HIDE DEF columns
<1>4. \A c \in 1 .. Len(schema) : IsColumn(columns[c], schema[c].type, 0)
  BY <1>2, EmptyColumn
<1>5. Typed(schema, columns, 0)
  BY <1>3, <1>4, ColumnsAreTyped
<1>6. Sized(schema, 0, MaxRows)
  BY <1>1, TableAssumption DEF Sized
<1> QED
  BY <1>5, <1>6, NewTableIsSound DEF EmptyTable, columns

\* A schema of one column.
LEMMA OneColumnSchema ==
  ASSUME NEW name \in ColumnNames, NEW type \in DataTypes
  PROVE  LET schema == <<[name |-> name, type |-> type]>>
         IN  schema \in Seq(ColumnDefs) /\ Len(schema) = 1 /\ schema[1].type = type
             /\ DOMAIN schema = {1}
  BY DEF ColumnDefs

\* A table of one column, restored or partitioned.
LEMMA OneColumnIsSound ==
  ASSUME NEW name \in ColumnNames, NEW type \in DataTypes,
         ValidSchema(<<[name |-> name, type |-> type]>>),
         NEW values, NEW n \in Nat, IsColumn(values, type, n), NEW cap \in Nat, cap <= MaxRows, n <= cap,
         n <= MaxCells
  PROVE  /\ Sound(NewTable(<<[name |-> name, type |-> type]>>, cap, <<values>>))
         /\ ~NewTable(<<[name |-> name, type |-> type]>>, cap, <<values>>).index.some
<1> DEFINE schema == <<[name |-> name, type |-> type]>>
           columns == <<values>>
<1>1. schema \in Seq(ColumnDefs) /\ Len(schema) = 1 /\ schema[1].type = type
  BY OneColumnSchema
<1>2. columns \in Seq(Seq(Values)) /\ Len(columns) = 1 /\ columns[1] = values
  BY DEF IsColumn
<1> HIDE DEF schema, columns
<1>3. Typed(schema, columns, n)
  <2>1. ASSUME NEW c \in 1 .. Len(schema)
        PROVE  IsColumn(columns[c], schema[c].type, n)
    BY <1>1, <1>2
  <2> QED
    BY <1>1, <1>2, <2>1 DEF Typed, schema
<1>4. Sized(schema, n, cap)
  BY <1>1 DEF Sized
<1> QED
  BY <1>1, <1>3, <1>4, NewTableIsSound DEF schema, columns

(***************************************************************************)
(* Range partitions.                                                       *)
(***************************************************************************)
\* f is what the values amount to after each partition, up to n.
FlatUpTo(f, seqs, n) ==
  f = [i \in 1 .. n |-> IF i = 1 THEN seqs[i] ELSE f[i - 1] \o seqs[i]]

Flat(seqs) == CHOOSE f : FlatUpTo(f, seqs, Len(seqs))

\* The values of all partitions are what there is after the last.
LEMMA FlattenIsLast ==
  ASSUME NEW seqs, Len(seqs) # 0
  PROVE  FlattenSeq(seqs) = Flat(seqs)[Len(seqs)]
  BY DEF FlattenSeq, Flat, FlatUpTo

\* The loop over the partitions is well defined.
LEMMA FlatUpToExists ==
  ASSUME NEW seqs, Len(seqs) \in Nat \ {0}
  PROVE  \E f : FlatUpTo(f, seqs, Len(seqs))
<1> DEFINE L == Len(seqs)
           N == {n \in 1 .. L : \E f : FlatUpTo(f, seqs, n)}
<1>1. 1 \in N
  <2>1. \A k \in 1 .. 1 : k = 1
    OBVIOUS
  <2>2. FlatUpTo([k \in 1 .. 1 |-> seqs[k]], seqs, 1)
    BY <2>1 DEF FlatUpTo
  <2>3. 1 \in 1 .. L
    OBVIOUS
  <2> QED
    BY <2>2, <2>3
<1>2. ASSUME NEW n \in 1 + 1 .. L, n - 1 \in N
      PROVE  n \in N
  <2>1. PICK f : FlatUpTo(f, seqs, n - 1)
    BY <1>2
  <2> DEFINE v == f[n - 1] \o seqs[n]
             g == [k \in 1 .. n |-> IF k = n THEN v ELSE f[k]]
  <2>2. ASSUME NEW k \in 1 .. n
        PROVE  g[k] = IF k = 1 THEN seqs[k] ELSE g[k - 1] \o seqs[k]
    <3>1. CASE k = n
      <4>1. n # 1 /\ n \in 1 .. n /\ n - 1 \in 1 .. n /\ n - 1 # n
        OBVIOUS
      <4>2. g[n - 1] = f[n - 1] /\ g[n] = v
        <5> HIDE DEF v
        <5> QED
          BY <4>1
      <4> QED
        BY <3>1, <4>1, <4>2
    <3>2. CASE k # n
      <4>1. k \in 1 .. n - 1 /\ (k # 1 => k - 1 \in 1 .. n /\ k - 1 # n)
        BY <3>2
      <4>2. f[k] = IF k = 1 THEN seqs[k] ELSE f[k - 1] \o seqs[k]
        BY <4>1, <2>1 DEF FlatUpTo
      <4>3. g[k] = f[k] /\ (k # 1 => g[k - 1] = f[k - 1])
        BY <3>2, <4>1
      <4> QED
        BY <4>2, <4>3
    <3> QED
      BY <3>1, <3>2
  <2>3. g = [k \in 1 .. n |-> g[k]]
    OBVIOUS
  <2> HIDE DEF g
  <2>4. FlatUpTo(g, seqs, n)
    BY <2>2, <2>3 DEF FlatUpTo
  <2>5. n \in 1 .. L
    OBVIOUS
  <2> QED
    BY <2>4, <2>5
<1>3. 1 .. L \subseteq N
  <2>1. 1 \in Nat /\ L \in Nat
    OBVIOUS
  <2> HIDE DEF N, L
  <2> QED
    BY <1>1, <1>2, <2>1, InductionUpTo
<1>4. L \in N
  BY <1>3
<1> QED
  BY <1>4

\* The values of all partitions together are values of each of them.
LEMMA FlattenIsTyped ==
  ASSUME NEW S, NEW n \in Nat \ {0}, NEW seqs \in [1 .. n -> Seq(S)]
  PROVE  FlattenSeq(seqs) \in Seq(S)
<1>1. Len(seqs) = n
  OBVIOUS
<1> DEFINE f == Flat(seqs)
           N == {i \in 1 .. n : f[i] \in Seq(S)}
<1>2. FlatUpTo(f, seqs, n)
  BY <1>1, FlatUpToExists DEF Flat
<1> HIDE DEF f
<1>3. 1 \in N
  BY <1>2 DEF FlatUpTo
<1>4. ASSUME NEW i \in 1 + 1 .. n, i - 1 \in N
      PROVE  i \in N
  <2>1. i \in 1 .. n /\ i # 1
    OBVIOUS
  <2>2. f[i] = f[i - 1] \o seqs[i]
    BY <1>2, <2>1 DEF FlatUpTo
  <2>3. f[i - 1] \in Seq(S) /\ seqs[i] \in Seq(S)
    BY <1>4, <2>1
  <2>4. f[i] \in Seq(S)
    BY <2>2, <2>3, ConcatProperties
  <2> QED
    BY <2>1, <2>4
<1>5. n \in N
  <2>1. 1 \in Nat /\ n \in Nat /\ n \in 1 .. n
    OBVIOUS
  <2> HIDE DEF N
  <2>2. 1 .. n \subseteq N
    BY <1>3, <1>4, <2>1, InductionUpTo
  <2> QED
    BY <2>1, <2>2
<1> QED
  BY <1>1, <1>5, FlattenIsLast DEF f

\* A partitioned table within the row and cell limits.
LEMMA PartitionedIsSound ==
  ASSUME NEW name \in ColumnNames,
         ValidSchema(<<[name |-> name, type |-> "Int64"]>>),
         NEW k \in Nat \ {0}, NEW ps, DOMAIN ps = 1 .. k, \A i \in 1 .. k : ps[i].values \in Seq(Int64),
         RowCapacity(EmptyTable(<<[name |-> name, type |-> "Int64"]>>), Len(PartitionValues(ps)))
  PROVE  Sound(PartitionedTable(name, ps)) /\ ~PartitionedTable(name, ps).index.some
<1> DEFINE values == PartitionValues(ps)
           schema == <<[name |-> name, type |-> "Int64"]>>
           t == NewTable(schema, MaxRows, <<values>>)
           u == PartitionedTable(name, ps)
<1>1. values \in Seq(Int64)
  <2> DEFINE seqs == [i \in DOMAIN ps |-> ps[i].values]
  <2>1. seqs \in [1 .. k -> Seq(Int64)]
    OBVIOUS
  <2>2. values = FlattenSeq(seqs)
    BY DEF PartitionValues
  <2> HIDE DEF seqs, values
  <2> QED
    BY <2>1, <2>2, FlattenIsTyped
<1>2. PICK n \in Nat : n = Len(values)
  BY <1>1, LenProperties
<1>3. Int64 = ValuesOf("Int64") /\ Int64 \subseteq Values
  BY DEF ValuesOf, Values, DataTypes
<1>4. IsColumn(values, "Int64", n)
  <2> HIDE DEF values
  <2>1. values \in Seq(Values)
    BY <1>1, <1>3, SeqMonotonic
  <2>2. \A r \in 1 .. n : values[r] \in Int64
    BY <1>1, <1>2, ElementOfSeq
  <2> QED
    BY <1>2, <1>3, <2>1, <2>2 DEF IsColumn
<1>5. n <= MaxRows /\ n <= MaxCells
  <2> DEFINE e == EmptyTable(schema)
  <2>1. Len(schema) = 1 /\ DOMAIN schema = {1}
    BY OneColumnSchema
  <2>2. e.max_rows = MaxRows /\ e.schema = schema /\ e.row_count = 0
    <3>1. [c \in DOMAIN schema |-> << >>][1] = << >>
      BY <2>1
    <3>2. Len(<< >>) = 0
      OBVIOUS
    <3> HIDE DEF schema
    <3> QED
      BY <3>1, <3>2 DEF EmptyTable, NewTable
  <2>3. RowCapacity(e, n)
    BY <1>2
  <2> HIDE DEF e, schema
  <2>4. n <= SatSub(MaxRows, 0) /\ (0 + n) * 1 <= MaxCells
    BY <2>1, <2>2, <2>3 DEF RowCapacity
  <2> QED
    BY <1>2, <2>4, TableAssumption DEF SatSub
<1>6. Sound(t) /\ ~t.index.some
  <2> HIDE DEF values
  <2>1. MaxRows \in Nat /\ MaxRows <= MaxRows
    BY TableAssumption
  <2> QED
    BY <1>4, <1>5, <2>1, OneColumnIsSound DEF DataTypes
<1>7. DOMAIN t = TableFields
  BY <1>6 DEF Sound, Shaped
<1> HIDE DEF t, values
<1>8. PICK p : u = [t EXCEPT !.partitions = p]
  BY DEF PartitionedTable, t, values
<1>9. /\ DOMAIN u = TableFields /\ u.schema = t.schema /\ u.max_rows = t.max_rows
      /\ u.columns = t.columns /\ u.row_count = t.row_count /\ u.index = t.index
  BY <1>7, <1>8 DEF TableFields
<1> HIDE DEF u
<1>10. Sound(u) /\ ~u.index.some
  BY <1>6, <1>9 DEF Sound, Shaped, Indexable, Current
<1> QED
  BY <1>10 DEF u

(***************************************************************************)
(* Restored tables.                                                        *)
(***************************************************************************)
\* Every decoded snapshot becomes a sound table, or is refused.
LEMMA DecodedIsSound ==
  ASSUME NEW t \in Decoded
  PROVE  Sound(t) /\ ~t.index.some
<1>1. t \in RestoredTables /\ t.max_rows <= MaxRows /\ ValidSchema(t.schema)
      /\ t.row_count <= t.max_rows /\ t.row_count <= MaxCells
      /\ \A r \in DOMAIN t.columns[1] : t.columns[1][r] \in ValuesOf(t.schema[1].type)
  BY DEF Decoded
<1>2. PICK s \in Restored : t = NewTable(<<[name |-> s.name, type |-> s.type]>>, s.row_cap, <<s.values>>)
  BY <1>1 DEF RestoredTables
<1> DEFINE name == s.name
           type == s.type
           cap == s.row_cap
           values == s.values
<1>3. /\ name \in ColumnNames /\ type \in Types \cap {"Int64", "NullableInt64"}
      /\ cap \in RestoredCaps /\ values \in BoundedSeq(Int64 \cup {Null}, MaxRows)
  BY DEF Restored
<1>4. t = NewTable(<<[name |-> name, type |-> type]>>, cap, <<values>>)
  BY <1>2
<1> HIDE DEF name, type, cap, values
<1>5. PICK n \in Nat : values \in [1 .. n -> Int64 \cup {Null}]
  BY <1>3, TableAssumption DEF BoundedSeq, SeqOf
<1> DEFINE schema == <<[name |-> name, type |-> type]>>
           columns == <<values>>
<1>6. columns # << >> /\ columns[1] = values /\ Len(values) = n /\ DOMAIN values = 1 .. n
  BY <1>5
<1>7. t.schema = schema /\ t.max_rows = cap /\ t.columns = columns /\ t.row_count = n
  <2> HIDE DEF columns, schema
  <2> QED
    BY <1>4, <1>6 DEF NewTable, columns, schema
<1>8. cap \in Nat /\ schema[1].type = type /\ type \in DataTypes
  BY <1>3, DatabaseAssumption DEF DataTypes
<1>9. \A r \in 1 .. n : values[r] \in ValuesOf(type)
  <2> HIDE DEF columns, schema
  <2> QED
    BY <1>1, <1>6, <1>7, <1>8
<1>10. IsColumn(values, type, n)
  <2>1. ValuesOf(type) \subseteq Values
    BY <1>8 DEF Values
  <2>2. values \in [1 .. n -> Values]
    BY <1>5, <1>9, <2>1
  <2>3. values \in Seq(Values) /\ Len(values) = n
    BY <2>2, FunctionIsSeq
  <2> QED
    BY <1>9, <2>3 DEF IsColumn
<1> QED
  BY <1>1, <1>3, <1>4, <1>7, <1>8, <1>10, OneColumnIsSound

(***************************************************************************)
(* The database.                                                           *)
(***************************************************************************)
\* Every table of the catalog is sound.
TablesSound == \A n \in DOMAIN tables : Sound(tables[n])

\* The database has one index at most.
OneIndex ==
  \A n, m \in DOMAIN tables : tables[n].index.some /\ tables[m].index.some => n = m

IInv == TablesSound /\ OneIndex /\ LoggedTablesFollowLog

\* What a statement on table n logs: nothing of other tables, and of this one
\* what it leaves in it, without another schema.
LogStep(n, u) ==
  /\ DOMAIN replayed' = DOMAIN replayed
  /\ \A m \in DOMAIN replayed : m # n => replayed'[m] = replayed[m]
  /\ Logged(n) => u.schema = tables[n].schema /\ replayed'[n] = u.columns[1]

\* A statement that leaves the log alone, on a table that is not logged.
LEMMA Unlogged ==
  ASSUME NEW n, NEW u, ~Logged(n), UNCHANGED replayed
  PROVE  LogStep(n, u)
  BY DEF LogStep

\* A statement on one table keeps the invariant if it leaves that table sound,
\* without a new index, and in step with the log.
LEMMA TableStep ==
  ASSUME IInv, NEW n \in DOMAIN tables, NEW u, Follows(tables[n], u), tables' = Put(n, u),
         LogStep(n, u)
  PROVE  IInv'
<1>1. /\ DOMAIN tables' = DOMAIN tables
      /\ tables'[n] = u /\ \A m \in DOMAIN tables : m # n => tables'[m] = tables[m]
  BY DEF Put
<1>2. TablesSound'
  BY <1>1 DEF IInv, TablesSound, Follows
<1>3. OneIndex'
  BY <1>1 DEF IInv, OneIndex, Follows
<1>4. LoggedTablesFollowLog'
  <2>1. ASSUME NEW m \in DOMAIN replayed'
        PROVE  /\ m \in DOMAIN tables' /\ Len(tables'[m].schema) = 1
               /\ IsInt64(tables'[m].schema[1].type) /\ tables'[m].columns[1] = replayed'[m]
    <3>1. /\ m \in DOMAIN replayed /\ m \in DOMAIN tables /\ Len(tables[m].schema) = 1
          /\ IsInt64(tables[m].schema[1].type) /\ tables[m].columns[1] = replayed[m]
      BY DEF LogStep, IInv, LoggedTablesFollowLog
    <3>2. CASE m = n
      BY <1>1, <3>1, <3>2 DEF LogStep, Logged
    <3>3. CASE m # n
      BY <1>1, <3>1, <3>3 DEF LogStep
    <3> QED
      BY <3>2, <3>3
  <2> QED
    BY <2>1 DEF LoggedTablesFollowLog
<1> QED
  BY <1>2, <1>3, <1>4 DEF IInv

\* A new table keeps the invariant if it is sound and has no index.
LEMMA NewStep ==
  ASSUME IInv, NEW n, n \notin DOMAIN tables, NEW u, Sound(u), ~u.index.some, tables' = Put(n, u),
         UNCHANGED replayed
  PROVE  IInv'
<1>1. /\ DOMAIN tables' = DOMAIN tables \cup {n}
      /\ tables'[n] = u /\ \A m \in DOMAIN tables : m # n /\ tables'[m] = tables[m]
  BY DEF Put
<1>2. TablesSound'
  BY <1>1 DEF IInv, TablesSound
<1>3. OneIndex'
  BY <1>1 DEF IInv, OneIndex
<1>4. LoggedTablesFollowLog'
  BY <1>1 DEF IInv, LoggedTablesFollowLog
<1> QED
  BY <1>2, <1>3, <1>4 DEF IInv

\* What the invariant says of one table.
LEMMA TableIsSound ==
  ASSUME IInv, NEW n \in DOMAIN tables
  PROVE  /\ Sound(tables[n]) /\ Shaped(tables[n])
         /\ tables[n].schema \in Seq(ColumnDefs) /\ tables[n].row_count \in Nat
         /\ DOMAIN tables[n].schema = 1 .. Len(tables[n].schema)
<1>1. Sound(tables[n]) /\ Shaped(tables[n]) /\ tables[n].schema \in Seq(ColumnDefs)
      /\ tables[n].row_count \in Nat
  BY DEF IInv, TablesSound, Sound, Shaped, Typed
<1> QED
  BY <1>1, LenProperties

\* CREATE TABLE registers an empty table under a free name.
LEMMA CreateTableIInv ==
  ASSUME IInv, NEW n, CreateTable(n)
  PROVE  IInv'
<1>1. PICK k \in 1 .. MaxColumns : \E schema \in [1 .. k -> Fields] :
        ValidSchema(schema) /\ Register(n, EmptyTable(schema))
  BY DEF CreateTable
<1>2. PICK schema \in [1 .. k -> Fields] : ValidSchema(schema) /\ Register(n, EmptyTable(schema))
  BY <1>1
<1>3. schema \in Seq(ColumnDefs)
  <2>1. k \in Nat
    OBVIOUS
  <2>2. schema \in Seq(Fields)
    BY <1>2, <2>1, FunctionIsSeq
  <2>3. Fields \subseteq ColumnDefs
    BY DEF Fields, ColumnDefs, DataTypes
  <2> QED
    BY <2>2, <2>3, SeqMonotonic
<1>4. Sound(EmptyTable(schema)) /\ ~EmptyTable(schema).index.some
  BY <1>2, <1>3, EmptyTableIsSound
<1> QED
  BY <1>2, <1>4, NewStep DEF Register, CreateTable

\* create_int64_range_partitioned_table registers a table of one Int64 column.
LEMMA CreatePartitionedIInv ==
  ASSUME IInv, NEW n, CreatePartitioned(n)
  PROVE  IInv'
<1>1. PICK k \in 1 .. MaxParts, name \in ColumnNames :
        \E bounds \in [1 .. k -> [lower : Int64, upper : Int64]] :
        \E values \in [1 .. k -> BoundedSeq(Int64, MaxBatch)] :
          LET ps == [i \in 1 .. k |-> [lower |-> bounds[i].lower, upper |-> bounds[i].upper,
                                       values |-> values[i]]]
          IN  /\ ValidPartitions(ps)
              /\ ValidSchema(<<[name |-> name, type |-> "Int64"]>>)
              /\ RowCapacity(EmptyTable(<<[name |-> name, type |-> "Int64"]>>),
                             Len(PartitionValues(ps)))
              /\ Register(n, PartitionedTable(name, ps))
  BY DEF CreatePartitioned
<1>2. PICK bounds \in [1 .. k -> [lower : Int64, upper : Int64]],
           values \in [1 .. k -> BoundedSeq(Int64, MaxBatch)] :
        LET ps == [i \in 1 .. k |-> [lower |-> bounds[i].lower, upper |-> bounds[i].upper,
                                     values |-> values[i]]]
        IN  /\ ValidPartitions(ps)
            /\ ValidSchema(<<[name |-> name, type |-> "Int64"]>>)
            /\ RowCapacity(EmptyTable(<<[name |-> name, type |-> "Int64"]>>),
                           Len(PartitionValues(ps)))
            /\ Register(n, PartitionedTable(name, ps))
  BY <1>1
<1> DEFINE ps == [i \in 1 .. k |-> [lower |-> bounds[i].lower, upper |-> bounds[i].upper,
                                    values |-> values[i]]]
           schema == <<[name |-> name, type |-> "Int64"]>>
<1>3. k \in Nat \ {0} /\ DOMAIN ps = 1 .. k
  OBVIOUS
<1>4. \A i \in 1 .. k : ps[i].values \in Seq(Int64)
  <2>1. \A i \in 1 .. k : ps[i].values = values[i] /\ values[i] \in BoundedSeq(Int64, MaxBatch)
    OBVIOUS
  <2>2. ASSUME NEW s \in BoundedSeq(Int64, MaxBatch)
        PROVE  s \in Seq(Int64)
    <3>1. PICK l \in 0 .. MaxBatch : s \in [1 .. l -> Int64]
      BY DEF BoundedSeq, SeqOf
    <3>2. l \in Nat
      OBVIOUS
    <3> QED
      BY <3>1, <3>2, FunctionIsSeq
  <2> HIDE DEF ps
  <2> QED
    BY <2>1, <2>2
<1> HIDE DEF ps
<1>5. /\ ValidSchema(<<[name |-> name, type |-> "Int64"]>>)
      /\ RowCapacity(EmptyTable(<<[name |-> name, type |-> "Int64"]>>), Len(PartitionValues(ps)))
      /\ Register(n, PartitionedTable(name, ps))
  BY <1>2 DEF ps
<1>6. Sound(PartitionedTable(name, ps)) /\ ~PartitionedTable(name, ps).index.some
  BY <1>3, <1>4, <1>5, PartitionedIsSound
<1> QED
  BY <1>5, <1>6, NewStep DEF Register, CreatePartitioned

\* DROP TABLE takes a table that is not logged, and its index with it.
LEMMA DropTableIInv ==
  ASSUME IInv, NEW n, DropTable(n)
  PROVE  IInv'
<1>1. /\ DOMAIN tables' = DOMAIN tables \ {n} /\ ~Logged(n)
      /\ \A m \in DOMAIN tables' : m \in DOMAIN tables /\ tables'[m] = tables[m]
      /\ UNCHANGED replayed
  BY DEF DropTable
<1>2. TablesSound'
  BY <1>1 DEF IInv, TablesSound
<1>3. OneIndex'
  BY <1>1 DEF IInv, OneIndex
<1>4. LoggedTablesFollowLog'
  BY <1>1 DEF IInv, LoggedTablesFollowLog, Logged
<1> QED
  BY <1>2, <1>3, <1>4 DEF IInv

\* RENAME TABLE moves a table that is not logged to a free name; its index moves along.
LEMMA RenameTableIInv ==
  ASSUME IInv, NEW n, NEW m, RenameTable(n, m)
  PROVE  IInv'
<1> DEFINE old(k) == IF k = m THEN n ELSE k
<1>1. /\ DOMAIN tables' = (DOMAIN tables \ {n}) \cup {m} /\ ~Logged(n)
      /\ n \in DOMAIN tables /\ m \notin DOMAIN tables
      /\ \A k \in DOMAIN tables' : old(k) \in DOMAIN tables /\ tables'[k] = tables[old(k)]
      /\ \A j, k \in DOMAIN tables' : old(j) = old(k) => j = k
      /\ UNCHANGED replayed
  BY DEF RenameTable
<1>2. \A k \in DOMAIN replayed : k \in DOMAIN tables' /\ old(k) = k
  BY <1>1 DEF IInv, LoggedTablesFollowLog, Logged
<1> HIDE DEF old
<1>3. TablesSound'
  BY <1>1 DEF IInv, TablesSound
<1>4. OneIndex'
  BY <1>1 DEF IInv, OneIndex
<1>5. LoggedTablesFollowLog'
  BY <1>1, <1>2 DEF IInv, LoggedTablesFollowLog
<1> QED
  BY <1>3, <1>4, <1>5 DEF IInv

\* ALTER TABLE ADD COLUMN, within the column and cell limits.
LEMMA AddColumnIInv ==
  ASSUME IInv, NEW n, AddColumnTo(n)
  PROVE  IInv'
<1>1. PICK f \in Fields : /\ CanShowAfterAdding(tables[n], f.type)
                          /\ CanAddColumn(tables[n], f.name)
                          /\ Mutate(n, AddColumn(tables[n], f.name, f.type))
  BY DEF AddColumnTo
<1>2. f.name \in ColumnNames /\ f.type \in DataTypes
  BY DEF Fields, DataTypes
<1>3. n \in DOMAIN tables /\ ~Logged(n) /\ UNCHANGED replayed
  BY DEF AddColumnTo
<1> DEFINE u == AddColumn(tables[n], f.name, f.type)
<1>4. Follows(tables[n], u)
  BY <1>1, <1>2, <1>3, TableIsSound, AddColumnIsSound
<1>5. tables' = Put(n, u) /\ LogStep(n, u)
  BY <1>1, <1>3, Unlogged DEF Mutate
<1> HIDE DEF u
<1> QED
  BY <1>3, <1>4, <1>5, TableStep

\* ALTER TABLE DROP COLUMN of a table of several columns.
LEMMA DropColumnIInv ==
  ASSUME IInv, NEW n, DropColumnOf(n)
  PROVE  IInv'
<1>1. PICK c \in DOMAIN tables[n].schema : Mutate(n, DropColumn(tables[n], c))
  BY DEF DropColumnOf
<1>2. n \in DOMAIN tables /\ ~Logged(n) /\ CanDropColumn(tables[n]) /\ UNCHANGED replayed
  BY DEF DropColumnOf
<1> DEFINE u == DropColumn(tables[n], c)
<1>3. Follows(tables[n], u)
  BY <1>1, <1>2, TableIsSound, DropColumnIsSound
<1>4. tables' = Put(n, u) /\ LogStep(n, u)
  BY <1>1, <1>2, Unlogged DEF Mutate
<1> HIDE DEF u
<1> QED
  BY <1>2, <1>3, <1>4, TableStep

\* ALTER TABLE RENAME COLUMN to a free name.
LEMMA RenameColumnIInv ==
  ASSUME IInv, NEW n, RenameColumnOf(n)
  PROVE  IInv'
<1>1. PICK c \in DOMAIN tables[n].schema, name \in ColumnNames :
        CanRenameColumn(tables[n], c, name) /\ tables' = Put(n, RenameColumn(tables[n], c, name))
  BY DEF RenameColumnOf
<1>2. n \in DOMAIN tables /\ ~Logged(n) /\ UNCHANGED replayed
  BY DEF RenameColumnOf
<1> DEFINE u == RenameColumn(tables[n], c, name)
<1>3. Follows(tables[n], u)
  BY <1>1, <1>2, TableIsSound, RenameColumnIsSound
<1>4. tables' = Put(n, u) /\ LogStep(n, u)
  BY <1>1, <1>2, Unlogged
<1> HIDE DEF u
<1> QED
  BY <1>2, <1>3, <1>4, TableStep

\* What an INSERT logs is what it appends to the one column of a logged table.
LEMMA AppendIsLogged ==
  ASSUME IInv, NEW n \in DOMAIN tables, NEW rows, NEW u, LogAppend(n, rows),
         u.schema = tables[n].schema,
         u.columns[1] = tables[n].columns[1] \o [r \in DOMAIN rows |-> rows[r][1]]
  PROVE  LogStep(n, u)
<1>1. CASE ~Logged(n)
  BY <1>1, Unlogged DEF LogAppend
<1>2. CASE Logged(n)
  <2>1. n \in DOMAIN replayed /\ replayed[n] = tables[n].columns[1]
    BY <1>2 DEF Logged, IInv, LoggedTablesFollowLog
  <2> DEFINE added == [r \in DOMAIN rows |-> rows[r][1]]
             v == replayed[n] \o added
  <2>2. replayed' = [replayed EXCEPT ![n] = v]
    BY <1>2 DEF LogAppend
  <2>3. u.columns[1] = v
    BY <2>1
  <2> HIDE DEF added, v
  <2> QED
    BY <2>1, <2>2, <2>3 DEF LogStep
<1> QED
  BY <1>1, <1>2

\* INSERT, the nullable append and the ingest calls, logged before they are applied.
LEMMA InsertIInv ==
  ASSUME IInv, NEW n, Insert(n)
  PROVE  IInv'
<1>1. PICK rows \in InsertRows(tables[n]) : /\ RowCapacity(tables[n], Len(rows))
                                            /\ Mutate(n, AppendRows(tables[n], rows))
                                            /\ LogAppend(n, rows)
  BY DEF Insert
<1>2. n \in DOMAIN tables
  BY DEF Insert
<1> DEFINE u == AppendRows(tables[n], rows)
<1>3. AreRows(tables[n].schema, rows)
  BY <1>2, TableIsSound, InsertRowsAreRows
<1>4. /\ Follows(tables[n], u) /\ u.schema = tables[n].schema
      /\ u.columns[1] = tables[n].columns[1] \o [r \in DOMAIN rows |-> rows[r][1]]
  BY <1>1, <1>2, <1>3, TableIsSound, AppendIsSound
<1>5. tables' = Put(n, u) /\ LogAppend(n, rows)
  BY <1>1 DEF Mutate
<1> HIDE DEF u
<1>6. LogStep(n, u)
  BY <1>2, <1>4, <1>5, AppendIsLogged
<1> QED
  BY <1>2, <1>4, <1>5, <1>6, TableStep

\* What rows hold in their first column.
FirstValues(rows) == [r \in DOMAIN rows |-> rows[r][1]]

\* They are values, as many as rows.
LEMMA FirstValuesAre ==
  ASSUME NEW k \in Nat \ {0}, NEW rows \in Seq([1 .. k -> Values])
  PROVE  /\ FirstValues(rows) \in Seq(Values) /\ Len(FirstValues(rows)) = Len(rows)
         /\ \A r \in 1 .. Len(rows) : FirstValues(rows)[r] = rows[r][1]
<1>1. DOMAIN rows = 1 .. Len(rows) /\ Len(rows) \in Nat
  BY LenProperties
<1>2. \A r \in 1 .. Len(rows) : rows[r][1] \in Values
  <2>1. \A r \in 1 .. Len(rows) : rows[r] \in [1 .. k -> Values]
    BY ElementOfSeq
  <2> QED
    BY <2>1
<1>3. FirstValues(rows) \in [1 .. Len(rows) -> Values]
  BY <1>1, <1>2 DEF FirstValues
<1>4. \A r \in 1 .. Len(rows) : FirstValues(rows)[r] = rows[r][1]
  BY <1>1 DEF FirstValues
<1> QED
  BY <1>1, <1>3, <1>4, FunctionIsSeq

\* One log record for the rows of two INSERTs holds what each appends, in order.
LEMMA BatchIsLogged ==
  ASSUME NEW k \in Nat \ {0}, NEW first \in Seq([1 .. k -> Values]),
         NEW second \in Seq([1 .. k -> Values]), NEW column \in Seq(Values)
  PROVE  (column \o FirstValues(first)) \o FirstValues(second)
           = column \o FirstValues(first \o second)
<1> DEFINE a == FirstValues(first)
           b == FirstValues(second)
           both == first \o second
           c == FirstValues(both)
<1>1. /\ a \in Seq(Values) /\ Len(a) = Len(first)
      /\ \A r \in 1 .. Len(first) : a[r] = first[r][1]
  BY FirstValuesAre
<1>2. /\ b \in Seq(Values) /\ Len(b) = Len(second)
      /\ \A r \in 1 .. Len(second) : b[r] = second[r][1]
  BY FirstValuesAre
<1>3. /\ both \in Seq([1 .. k -> Values]) /\ Len(both) = Len(first) + Len(second)
      /\ \A r \in 1 .. Len(first) + Len(second) :
           both[r] = IF r <= Len(first) THEN first[r] ELSE second[r - Len(first)]
  BY ConcatProperties
<1> HIDE DEF a, b, both
<1>4. /\ c \in Seq(Values) /\ Len(c) = Len(both)
      /\ \A r \in 1 .. Len(both) : c[r] = both[r][1]
  BY <1>3, FirstValuesAre
<1>5. Len(first) \in Nat /\ Len(second) \in Nat
  BY LenProperties
<1>6. c = a \o b
  <2>1. /\ a \o b \in Seq(Values) /\ Len(a \o b) = Len(a) + Len(b)
        /\ \A r \in 1 .. Len(a) + Len(b) :
             (a \o b)[r] = IF r <= Len(a) THEN a[r] ELSE b[r - Len(a)]
    BY ZenonT(60), <1>1, <1>2, ConcatProperties
  <2>2. ASSUME NEW r \in 1 .. Len(first) + Len(second)
        PROVE  c[r] = (a \o b)[r]
    <3> HIDE DEF c
    <3>1. CASE r <= Len(first)
      <4>1. r \in 1 .. Len(first)
        BY <3>1
      <4> QED
        BY ZenonT(60), <1>1, <1>2, <1>3, <1>4, <2>1, <3>1, <4>1
    <3>2. CASE ~(r <= Len(first))
      <4> DEFINE q == r - Len(first)
      <4>1. q \in 1 .. Len(second) /\ r \in 1 .. Len(both)
        BY <1>3, <1>5, <3>2
      <4>2. both[r] = second[q]
        BY <1>3, <3>2
      <4>3. (a \o b)[r] = b[q]
        BY <1>1, <1>2, <2>1, <3>2
      <4> HIDE DEF q
      <4>4. c[r] = second[q][1]
        BY <1>4, <4>1, <4>2
      <4>5. b[q] = second[q][1]
        BY <1>2, <4>1
      <4> QED
        BY <4>3, <4>4, <4>5
    <3> QED
      BY <3>1, <3>2
  <2> HIDE DEF c
  <2>3. Len(c) = Len(a \o b)
    BY <1>1, <1>2, <1>3, <1>4, <2>1
  <2>4. \A r \in 1 .. Len(c) : c[r] = (a \o b)[r]
    BY <1>3, <1>4, <2>2
  <2> QED
    BY <1>4, <2>1, <2>3, <2>4, SeqEqual
<1>7. (column \o a) \o b = column \o (a \o b)
  BY SMTT(60), <1>1, <1>2, ConcatAssociative
<1> QED
  BY <1>6, <1>7 DEF a, b, both

\* Two INSERTs of one batch into one table, charged together and logged as one.
LEMMA InsertBatchIInv ==
  ASSUME IInv, NEW n, InsertBatch(n)
  PROVE  IInv'
<1> DEFINE t == tables[n]
<1>1. PICK first \in InsertRows(t), second \in InsertRows(t) :
        /\ BatchCapacity(n, first, second)
        /\ Mutate(n, AppendRows(AppendRows(t, first), second))
        /\ LogAppend(n, first \o second)
  BY DEF InsertBatch
<1>2. n \in DOMAIN tables /\ Sound(t) /\ Shaped(t) /\ t.schema \in Seq(ColumnDefs)
  BY TableIsSound DEF InsertBatch
<1> DEFINE u == AppendRows(t, first)
           v == AppendRows(u, second)
<1>3. AreRows(t.schema, first) /\ AreRows(t.schema, second)
  BY <1>2, InsertRowsAreRows
<1>4. RowCapacity(t, Len(first)) /\ RowCapacity(t, Len(first) + Len(second))
  BY <1>1 DEF BatchCapacity
<1>5. /\ Follows(t, u) /\ u.schema = t.schema /\ u.max_rows = t.max_rows
      /\ u.row_count = t.row_count + Len(first)
      /\ u.columns[1] = t.columns[1] \o FirstValues(first)
  BY <1>2, <1>3, <1>4, AppendIsSound DEF FirstValues
<1> HIDE DEF u
<1>6. RowCapacity(u, Len(second))
  <2>1. /\ Len(first) \in Nat /\ Len(second) \in Nat /\ t.row_count \in Nat
        /\ t.max_rows \in Nat /\ t.row_count <= t.max_rows
    BY <1>2, <1>3 DEF AreRows, Shaped, Typed, Sized
  <2>2. Len(first) + Len(second) <= t.max_rows - t.row_count
    BY <1>4, <2>1 DEF RowCapacity, SatSub
  <2>3. Len(second) <= SatSub(u.max_rows, u.row_count)
    BY SMTT(60), <1>5, <2>1, <2>2 DEF SatSub
  <2>4. u.row_count + Len(second) = t.row_count + (Len(first) + Len(second))
    BY <1>5, <2>1
  <2> QED
    BY <1>4, <1>5, <2>3, <2>4 DEF RowCapacity
<1>7. /\ Follows(u, v) /\ v.schema = t.schema
      /\ v.columns[1] = u.columns[1] \o FirstValues(second)
  BY <1>3, <1>5, <1>6, AppendIsSound DEF FirstValues, Follows
<1>8. Follows(t, v)
  BY <1>5, <1>7 DEF Follows
<1>9. tables' = Put(n, v)
  BY <1>1 DEF Mutate, u
<1> HIDE DEF v
<1>10. v.columns[1] = t.columns[1] \o FirstValues(first \o second)
  <2>1. Len(t.schema) \in Nat \ {0} /\ t.columns[1] \in Seq(Values)
    <3>1. 1 \in 1 .. Len(t.schema) /\ Len(t.schema) \in Nat
      BY <1>2, FirstColumn, LenProperties
    <3>2. t.columns[1] \in Seq(Values)
      BY <1>2, <3>1, ElementOfSeq DEF Shaped, Typed
    <3> QED
      BY <3>1, <3>2
  <2>2. /\ first \in Seq([1 .. Len(t.schema) -> Values])
        /\ second \in Seq([1 .. Len(t.schema) -> Values])
    BY <1>3 DEF AreRows
  <2>3. (t.columns[1] \o FirstValues(first)) \o FirstValues(second)
          = t.columns[1] \o FirstValues(first \o second)
    BY <2>1, <2>2, BatchIsLogged
  <2> QED
    BY <1>5, <1>7, <2>3
<1>11. LogStep(n, v)
  BY <1>1, <1>2, <1>7, <1>10, AppendIsLogged DEF FirstValues
<1> QED
  BY <1>2, <1>8, <1>9, <1>11, TableStep

\* A statement on two tables of which the second is not logged.
LEMMA TwoTablesStep ==
  ASSUME IInv, NEW n \in DOMAIN tables, NEW m \in DOMAIN tables, n # m, NEW t, NEW u,
         Follows(tables[n], t), Follows(tables[m], u), LogStep(n, t), ~Logged(m),
         DOMAIN tables' = DOMAIN tables, tables'[n] = t, tables'[m] = u,
         \A k \in DOMAIN tables : k # n /\ k # m => tables'[k] = tables[k]
  PROVE  IInv'
<1>1. TablesSound'
  BY DEF IInv, TablesSound, Follows
<1>2. OneIndex'
  BY DEF IInv, OneIndex, Follows
<1>3. LoggedTablesFollowLog'
  <2>1. ASSUME NEW k \in DOMAIN replayed'
        PROVE  /\ k \in DOMAIN tables' /\ Len(tables'[k].schema) = 1
               /\ IsInt64(tables'[k].schema[1].type) /\ tables'[k].columns[1] = replayed'[k]
    <3>1. /\ k \in DOMAIN replayed /\ k \in DOMAIN tables /\ Len(tables[k].schema) = 1
          /\ IsInt64(tables[k].schema[1].type) /\ tables[k].columns[1] = replayed[k]
      BY DEF LogStep, IInv, LoggedTablesFollowLog
    <3>2. CASE k = n
      BY <3>1, <3>2 DEF LogStep, Logged
    <3>3. CASE k # n
      BY <3>1, <3>3 DEF LogStep, Logged
    <3> QED
      BY <3>2, <3>3
  <2> QED
    BY <2>1 DEF LoggedTablesFollowLog
<1> QED
  BY <1>1, <1>2, <1>3 DEF IInv

\* Two INSERTs of one batch into two tables, at most one of them logged.
LEMMA InsertBatchAcrossIInv ==
  ASSUME IInv, NEW n, NEW m, InsertBatchAcross(n, m)
  PROVE  IInv'
<1>1. PICK first \in InsertRows(tables[n]), second \in InsertRows(tables[m]) :
        /\ RowCapacity(tables[n], Len(first)) /\ RowCapacity(tables[m], Len(second))
        /\ tables' = [tables EXCEPT ![n] = AppendRows(tables[n], first),
                                    ![m] = AppendRows(tables[m], second)]
        /\ IF Logged(n) THEN LogAppend(n, first) ELSE LogAppend(m, second)
  BY DEF InsertBatchAcross
<1>2. n # m /\ n \in DOMAIN tables /\ m \in DOMAIN tables /\ ~(Logged(n) /\ Logged(m))
  BY DEF InsertBatchAcross
<1> DEFINE t == AppendRows(tables[n], first)
           u == AppendRows(tables[m], second)
<1>3. AreRows(tables[n].schema, first) /\ AreRows(tables[m].schema, second)
  BY <1>2, TableIsSound, InsertRowsAreRows
<1>4. /\ Follows(tables[n], t) /\ t.schema = tables[n].schema
      /\ t.columns[1] = tables[n].columns[1] \o [r \in DOMAIN first |-> first[r][1]]
  BY <1>1, <1>2, <1>3, TableIsSound, AppendIsSound
<1>5. /\ Follows(tables[m], u) /\ u.schema = tables[m].schema
      /\ u.columns[1] = tables[m].columns[1] \o [r \in DOMAIN second |-> second[r][1]]
  BY <1>1, <1>2, <1>3, TableIsSound, AppendIsSound
<1>6. tables' = [tables EXCEPT ![n] = t, ![m] = u]
  BY <1>1
<1> HIDE DEF t, u
<1>7. /\ DOMAIN tables' = DOMAIN tables /\ tables'[n] = t /\ tables'[m] = u
      /\ \A k \in DOMAIN tables : k # n /\ k # m => tables'[k] = tables[k]
  BY <1>2, <1>6
<1>8. CASE Logged(n)
  <2>1. LogStep(n, t)
    BY <1>1, <1>2, <1>4, <1>8, AppendIsLogged
  <2> QED
    BY <1>2, <1>4, <1>5, <1>7, <1>8, <2>1, TwoTablesStep
<1>9. CASE ~Logged(n)
  <2>1. LogStep(m, u)
    BY <1>1, <1>2, <1>5, <1>9, AppendIsLogged
  <2> QED
    BY <1>2, <1>4, <1>5, <1>7, <1>9, <2>1, TwoTablesStep
<1> QED
  BY <1>8, <1>9

\* TRUNCATE, logged as the empty column.
LEMMA TruncateIInv ==
  ASSUME IInv, NEW n, Truncate(n)
  PROVE  IInv'
<1>1. n \in DOMAIN tables /\ tables' = Put(n, TruncateTable(tables[n]))
  BY DEF Truncate, Mutate
<1> DEFINE u == TruncateTable(tables[n])
<1>2. Follows(tables[n], u) /\ u.schema = tables[n].schema /\ u.columns[1] = << >>
  BY <1>1, TableIsSound, TruncateIsSound
<1> HIDE DEF u
<1>3. LogStep(n, u)
  BY <1>2 DEF Truncate, LogStep, Logged
<1> QED
  BY <1>1, <1>2, <1>3, TableStep DEF u

\* DELETE, which a logged table refuses.
LEMMA DeleteIInv ==
  ASSUME IInv, NEW n, Delete(n)
  PROVE  IInv'
<1>1. PICK rows \in SUBSET (1 .. tables[n].row_count) : Mutate(n, DeleteRows(tables[n], rows))
  BY DEF Delete
<1>2. n \in DOMAIN tables /\ ~Logged(n) /\ UNCHANGED replayed
  BY DEF Delete
<1> DEFINE u == DeleteRows(tables[n], rows)
<1>3. Follows(tables[n], u)
  BY <1>1, <1>2, TableIsSound, DeleteIsSound
<1>4. tables' = Put(n, u) /\ LogStep(n, u)
  BY <1>1, <1>2, Unlogged DEF Mutate
<1> HIDE DEF u
<1> QED
  BY <1>2, <1>3, <1>4, TableStep

\* What a replacement logs is what it leaves in the one column of a logged table.
LEMMA ReplaceInIInv ==
  ASSUME IInv, NEW n \in DOMAIN tables, NEW column \in DOMAIN tables[n].schema, NEW new,
         DOMAIN new \subseteq 1 .. tables[n].row_count,
         \A r \in DOMAIN new : new[r] \in ValuesOf(tables[n].schema[column].type),
         ReplaceIn(n, column, new)
  PROVE  IInv'
<1> DEFINE t == tables[n]
           u == ReplaceValues(t, column, new)
           Over(old) == [r \in DOMAIN old |-> IF r \in DOMAIN new THEN new[r] ELSE old[r]]
<1>1. Sound(t) /\ DOMAIN t.schema = 1 .. Len(t.schema)
  BY TableIsSound
<1>2. Follows(t, u) /\ u.schema = t.schema /\ u.columns[column] = Over(t.columns[column])
  BY <1>1, ReplaceIsSound
<1>3. tables' = Put(n, u)
  BY DEF ReplaceIn, Mutate
<1> HIDE DEF u
<1>4. CASE ~Logged(n)
  <2>1. UNCHANGED replayed
    BY <1>4 DEF ReplaceIn
  <2> QED
    BY <1>2, <1>3, <1>4, <2>1, Unlogged, TableStep
<1>5. CASE Logged(n)
  <2>1. n \in DOMAIN replayed /\ Len(t.schema) = 1 /\ t.columns[1] = replayed[n]
    BY <1>5 DEF IInv, LoggedTablesFollowLog, Logged
  <2>2. column = 1
    BY <1>1, <2>1
  <2>3. replayed' = [replayed EXCEPT ![n] = Over(replayed[n])]
    BY <1>5 DEF ReplaceIn
  <2>4. u.columns[1] = Over(replayed[n])
    BY <1>2, <2>1, <2>2
  <2> HIDE DEF Over
  <2>5. LogStep(n, u)
    BY <1>2, <2>1, <2>3, <2>4 DEF LogStep
  <2> QED
    BY <1>2, <1>3, <2>5, TableStep
<1> QED
  BY <1>4, <1>5

\* ALTER TABLE UPDATE writes one value of the type of the column.
LEMMA UpdateIInv ==
  ASSUME IInv, NEW n, Update(n)
  PROVE  IInv'
<1> DEFINE t == tables[n]
           Hits(d, w) == {x \in 1 .. t.row_count : t.columns[d][x] = w}
<1>1. PICK c \in DOMAIN t.schema, d \in DOMAIN t.schema :
        \E v \in ValuesOf(t.schema[c].type), w \in ValuesOf(t.schema[d].type) \ {Null} :
          ReplaceIn(n, c, [r \in Hits(d, w) |-> v])
  BY DEF Update
<1>2. PICK v \in ValuesOf(t.schema[c].type), w \in ValuesOf(t.schema[d].type) \ {Null} :
        ReplaceIn(n, c, [r \in Hits(d, w) |-> v])
  BY <1>1
<1>3. n \in DOMAIN tables
  BY DEF Update
<1> DEFINE new == [r \in Hits(d, w) |-> v]
<1>4. DOMAIN new \subseteq 1 .. t.row_count /\ \A r \in DOMAIN new : new[r] \in ValuesOf(t.schema[c].type)
  OBVIOUS
<1>5. ReplaceIn(n, c, new)
  BY <1>2
<1> HIDE DEF new
<1> QED
  BY <1>3, <1>4, <1>5, ReplaceInIInv

\* replace_nullable_int64_values writes a value of its own per row.
LEMMA ReplaceNullableIInv ==
  ASSUME IInv, NEW n, ReplaceNullable(n)
  PROVE  IInv'
<1>1. PICK rows \in SUBSET (1 .. tables[n].row_count) :
        \E new \in [rows -> ValuesOf("NullableInt64")] : ReplaceIn(n, 1, new)
  BY DEF ReplaceNullable
<1>2. PICK new \in [rows -> ValuesOf("NullableInt64")] : ReplaceIn(n, 1, new)
  BY <1>1
<1>3. n \in DOMAIN tables /\ Len(tables[n].schema) = 1 /\ tables[n].schema[1].type = "NullableInt64"
  BY DEF ReplaceNullable
<1>4. 1 \in DOMAIN tables[n].schema
  BY <1>3, TableIsSound
<1>5. /\ DOMAIN new \subseteq 1 .. tables[n].row_count
      /\ \A r \in DOMAIN new : new[r] \in ValuesOf(tables[n].schema[1].type)
  BY <1>2, <1>3
<1> QED
  BY <1>2, <1>3, <1>4, <1>5, ReplaceInIInv

\* CREATE INDEX finds the one slot of the database free or its own.
LEMMA CreateIndexIInv ==
  ASSUME IInv, NEW n, CreateIndex(n)
  PROVE  IInv'
<1>1. PICK c \in DOMAIN tables[n].schema, limits \in IndexLimits :
        /\ IsInt64(tables[n].schema[c].type) /\ BuildIndex(tables[n], c, limits).some
        /\ Mutate(n, [tables[n] EXCEPT !.index = BuildIndex(tables[n], c, limits)])
  BY DEF CreateIndex
<1>2. n \in DOMAIN tables /\ SlotFree(n) /\ UNCHANGED replayed
  BY DEF CreateIndex
<1> DEFINE u == [tables[n] EXCEPT !.index = BuildIndex(tables[n], c, limits)]
<1>3. Sound(u) /\ u.schema = tables[n].schema /\ u.columns = tables[n].columns
  BY <1>1, <1>2, TableIsSound, CreateIndexIsSound
<1>4. tables' = Put(n, u)
  BY <1>1 DEF Mutate
<1> HIDE DEF u
<1>5. /\ DOMAIN tables' = DOMAIN tables
      /\ tables'[n] = u /\ \A m \in DOMAIN tables : m # n => tables'[m] = tables[m]
  BY <1>2, <1>4 DEF Put
<1>6. TablesSound'
  BY <1>3, <1>5 DEF IInv, TablesSound
<1>7. OneIndex'
  BY <1>2, <1>5 DEF OneIndex, SlotFree
<1>8. LoggedTablesFollowLog'
  BY <1>2, <1>3, <1>5 DEF IInv, LoggedTablesFollowLog
<1> QED
  BY <1>6, <1>7, <1>8 DEF IInv

\* DROP INDEX, with or without an index, on a logged table too.
LEMMA DropIndexIInv ==
  ASSUME IInv, NEW n, DropIndex(n)
  PROVE  IInv'
<1>1. /\ n \in DOMAIN tables /\ UNCHANGED replayed
      /\ tables' = Put(n, [tables[n] EXCEPT !.index = NoIndex])
  BY DEF DropIndex, Mutate
<1> DEFINE u == [tables[n] EXCEPT !.index = NoIndex]
<1>2. Follows(tables[n], u) /\ u.schema = tables[n].schema /\ u.columns = tables[n].columns
  BY <1>1, TableIsSound, DropIndexIsSound
<1> HIDE DEF u
<1>3. LogStep(n, u)
  BY <1>1, <1>2 DEF LogStep, Logged, IInv, LoggedTablesFollowLog
<1> QED
  BY <1>1, <1>2, <1>3, TableStep DEF u

\* restore_int64_table_from_file registers a decoded table under a free name.
LEMMA RestoreIInv ==
  ASSUME IInv, NEW n, Restore(n)
  PROVE  IInv'
<1>1. PICK t \in Decoded : Register(n, t)
  BY DEF Restore
<1> QED
  BY <1>1, DecodedIsSound, NewStep DEF Restore, Register

\* restore_int64_tables_from_files publishes two decoded tables at once.
LEMMA RestoreSetIInv ==
  ASSUME IInv, NEW n, NEW m, RestoreSet(n, m)
  PROVE  IInv'
<1>1. PICK t \in Decoded, u \in Decoded :
        tables' = [k \in DOMAIN tables \cup {n, m} |->
                     IF k = n THEN t ELSE IF k = m THEN u ELSE tables[k]]
  BY DEF RestoreSet
<1>2. n # m /\ n \notin DOMAIN tables /\ m \notin DOMAIN tables /\ UNCHANGED replayed
  BY DEF RestoreSet
<1>3. Sound(t) /\ ~t.index.some /\ Sound(u) /\ ~u.index.some
  BY DecodedIsSound
<1>4. /\ DOMAIN tables' = DOMAIN tables \cup {n, m}
      /\ tables'[n] = t /\ tables'[m] = u
      /\ \A k \in DOMAIN tables : k # n /\ k # m /\ tables'[k] = tables[k]
  BY <1>1, <1>2
<1>5. TablesSound'
  BY <1>3, <1>4 DEF IInv, TablesSound
<1>6. OneIndex'
  BY <1>3, <1>4 DEF IInv, OneIndex
<1>7. LoggedTablesFollowLog'
  BY <1>2, <1>4 DEF IInv, LoggedTablesFollowLog
<1> QED
  BY <1>5, <1>6, <1>7 DEF IInv

\* replace_int64_table_from_file exchanges a table that is not logged for a decoded one.
LEMMA ReplaceRestoredIInv ==
  ASSUME IInv, NEW n, ReplaceRestored(n)
  PROVE  IInv'
<1>1. PICK t \in Decoded : Mutate(n, t)
  BY DEF ReplaceRestored
<1>2. n \in DOMAIN tables /\ LogStep(n, t)
  BY Unlogged DEF ReplaceRestored
<1>3. Follows(tables[n], t)
  BY DecodedIsSound DEF Follows
<1> QED
  BY <1>1, <1>2, <1>3, TableStep DEF Mutate

\* Enabling a log starts it from the columns of the tables it takes.
LEMMA EnableWalIInv ==
  ASSUME IInv, NEW S, EnableWal(S)
  PROVE  IInv'
  BY DEF IInv, TablesSound, OneIndex, LoggedTablesFollowLog, EnableWal

\* Disabling the log releases every table.
LEMMA DisableWalIInv ==
  ASSUME IInv, DisableWal
  PROVE  IInv'
  BY DEF IInv, TablesSound, OneIndex, LoggedTablesFollowLog, DisableWal

\* An empty database.
LEMMA InitIInv ==
  ASSUME Init
  PROVE  IInv
  BY DEF Init, IInv, TablesSound, OneIndex, LoggedTablesFollowLog

\* Every accepted statement and library call keeps the invariant.
LEMMA NextIInv ==
  ASSUME IInv, [Next]_dbVars
  PROVE  IInv'
<1>1. CASE UNCHANGED dbVars
  BY <1>1 DEF dbVars, IInv, TablesSound, OneIndex, LoggedTablesFollowLog
<1>2. CASE DisableWal
  BY <1>2, DisableWalIInv
<1>3. ASSUME NEW S \in SUBSET Names, EnableWal(S)
      PROVE  IInv'
  BY <1>3, EnableWalIInv
<1>4. ASSUME NEW n \in Names,
             \/ CreateTable(n) \/ CreatePartitioned(n) \/ DropTable(n)
             \/ AddColumnTo(n) \/ DropColumnOf(n) \/ RenameColumnOf(n)
      PROVE  IInv'
  BY <1>4, CreateTableIInv, CreatePartitionedIInv, DropTableIInv, AddColumnIInv, DropColumnIInv,
     RenameColumnIInv
<1>5. ASSUME NEW n \in Names,
             \/ Insert(n) \/ InsertBatch(n) \/ Truncate(n) \/ Delete(n)
             \/ Update(n) \/ ReplaceNullable(n)
      PROVE  IInv'
  BY <1>5, InsertIInv, InsertBatchIInv, TruncateIInv, DeleteIInv, UpdateIInv, ReplaceNullableIInv
<1>6. ASSUME NEW n \in Names,
             CreateIndex(n) \/ DropIndex(n) \/ Restore(n) \/ ReplaceRestored(n)
      PROVE  IInv'
  BY <1>6, CreateIndexIInv, DropIndexIInv, RestoreIInv, ReplaceRestoredIInv
<1>7. ASSUME NEW n \in Names, NEW m \in Names,
             RenameTable(n, m) \/ InsertBatchAcross(n, m) \/ RestoreSet(n, m)
      PROVE  IInv'
  BY <1>7, RenameTableIInv, InsertBatchAcrossIInv, RestoreSetIInv
<1> QED
  BY <1>1, <1>2, <1>3, <1>4, <1>5, <1>6, <1>7 DEF Next

\* Whatever statements, batches, restores and log switches a database accepts,
\* its tables are sound, it has one index at most, and the log keeps up.
THEOREM DatabaseInvariance == Spec => []IInv
<1>1. Init => IInv
  BY InitIInv
<1>2. IInv /\ [Next]_dbVars => IInv'
  BY NextIInv
<1> QED
  BY <1>1, <1>2, PTL DEF Spec

\* Every table stays rectangular, typed by its schema and inside the row, column
\* and cell limits (Table::validate_row_capacity and its callers).
THEOREM DatabaseTablesWellFormed == Spec => []TablesWellFormed
<1>1. ASSUME IInv
      PROVE  TablesWellFormed
  <2>1. ASSUME NEW n \in DOMAIN tables
        PROVE  LET t == tables[n]
               IN  /\ ValidSchema(t.schema)
                   /\ DOMAIN t.columns = DOMAIN t.schema
                   /\ \A c \in DOMAIN t.columns :
                        /\ Len(t.columns[c]) = t.row_count
                        /\ \A r \in DOMAIN t.columns[c] :
                             t.columns[c][r] \in ValuesOf(t.schema[c].type)
                   /\ t.row_count <= t.max_rows
                   /\ t.row_count * Len(t.schema) <= MaxCells
    <3> DEFINE t == tables[n]
    <3>1. Typed(t.schema, t.columns, t.row_count) /\ Sized(t.schema, t.row_count, t.max_rows)
      BY <1>1, TableIsSound DEF Shaped
    <3> HIDE DEF t
    <3>2. DOMAIN t.columns = 1 .. Len(t.schema) /\ DOMAIN t.schema = 1 .. Len(t.schema)
      BY <3>1, LenProperties DEF Typed
    <3>3. ASSUME NEW c \in 1 .. Len(t.schema)
          PROVE  /\ Len(t.columns[c]) = t.row_count
                 /\ \A r \in DOMAIN t.columns[c] :
                      t.columns[c][r] \in ValuesOf(t.schema[c].type)
      BY <3>1, LenProperties DEF Typed, IsColumn
    <3> QED
      BY <3>1, <3>2, <3>3 DEF Typed, Sized, t
  <2> QED
    BY <2>1 DEF TablesWellFormed
<1> QED
  BY <1>1, DatabaseInvariance, PTL

\* The one sparse index of the database is of the current rows and generation,
\* block for block (mark_values_mutated rebuilds it or gives it up).
THEOREM DatabaseIndexIsFresh == Spec => []IndexFresh
<1>1. IInv => IndexFresh
  BY DEF IInv, TablesSound, Sound, Indexable, Current, OneIndex, IndexFresh
<1> QED
  BY <1>1, DatabaseInvariance, PTL

\* A tracked table holds exactly what its log records amount to
\* (reject_unlogged_wal_mutation and the statements that log).
THEOREM DatabaseFollowsLog == Spec => []LoggedTablesFollowLog
<1>1. IInv => LoggedTablesFollowLog
  BY DEF IInv
<1> QED
  BY <1>1, DatabaseInvariance, PTL

(***************************************************************************)
(* Sums over finite sets: what MapThenSumSet computes.                     *)
(***************************************************************************)

(* MapThenSumSet, as a sum of the values of a function. *)
Total(f, S) == MapThenSumSet(LAMBDA x : f[x], S)

\* The term a sum takes next.
Picked(s) == CHOOSE x \in s : TRUE

\* One unfolding of the recursion that defines it.
Unfold(f, S, g) ==
  [s \in SUBSET S |-> IF s = {} THEN 0
                      ELSE LET x == CHOOSE x \in s : TRUE IN f[x] + g[s \ {x}]]

\* A solution of the recursion.
IsTotal(it, f, S) == it = Unfold(f, S, it)

\* g unfolds on the subsets of up to n elements.
UnfoldsUpTo(g, f, S, n) ==
  /\ DOMAIN g = SUBSET S
  /\ \A s \in SUBSET S : Cardinality(s) <= n => g[s] = Unfold(f, S, g)[s]

\* A finite sum of numbers.
Counts(f, S) == IsFiniteSet(S) /\ \A x \in S : f[x] \in Nat

\* A set of subsets that grows by single elements contains the whole.
LEMMA SetInduction ==
  ASSUME NEW S, IsFiniteSet(S), NEW Good, {} \in Good,
         \A s \in SUBSET S : \A x \in S \ s : s \in Good => s \cup {x} \in Good
  PROVE  S \in Good
<1> DEFINE Left == {Cardinality(S \ s) : s \in Good \cap SUBSET S}
<1>1. Left \subseteq Nat
  <2>1. ASSUME NEW s \in SUBSET S PROVE Cardinality(S \ s) \in Nat
    <3>1. S \ s \in SUBSET S
      OBVIOUS
    <3>. QED BY <3>1, FS_Subset, FS_CardinalityType
  <2>. QED BY <2>1
<1>2. Cardinality(S \ {}) \in Left
  OBVIOUS
<1>3. PICK least \in Left : \A m \in Left : least <= m
  BY <1>1, <1>2, LeastElement
<1>4. PICK s \in Good \cap SUBSET S : least = Cardinality(S \ s)
  BY <1>3
<1>5. ASSUME NEW x \in S \ s PROVE FALSE
  <2>1. s \cup {x} \in Good \cap SUBSET S
    BY <1>4, <1>5
  <2>2. S \ (s \cup {x}) = (S \ s) \ {x}
    OBVIOUS
  <2>3. IsFiniteSet(S \ s)
    <3>1. S \ s \in SUBSET S
      OBVIOUS
    <3>. QED BY <3>1, FS_Subset
  <2>4. Cardinality((S \ s) \ {x}) = Cardinality(S \ s) - 1
    BY <2>3, <1>5, FS_RemoveElement
  <2>5. Cardinality(S \ (s \cup {x})) \in Left
    BY <2>1
  <2>6. least \in Nat /\ least <= least - 1
    BY <2>2, <2>4, <2>5, <1>1, <1>3, <1>4
  <2>. QED BY <2>6
<1>6. s = S
  BY <1>4, <1>5
<1>. QED BY <1>4, <1>6

\* The recursion has a solution on the subsets of a finite set.
LEMMA TotalExists ==
  ASSUME NEW f, NEW S, IsFiniteSet(S)
  PROVE  \E it : IsTotal(it, f, S)
<1> DEFINE N == Cardinality(S)
           Good == {n \in 0 .. N : \E g : UnfoldsUpTo(g, f, S, n)}
<1>1. N \in Nat
  BY FS_CardinalityType
<1>2. ASSUME NEW s \in SUBSET S PROVE IsFiniteSet(s) /\ Cardinality(s) \in 0 .. N
  BY <1>1, FS_Subset, FS_CardinalityType
<1>3. 0 \in Good
  <2> DEFINE g == [s \in SUBSET S |-> 0]
  <2>1. UnfoldsUpTo(g, f, S, 0)
    <3>1. ASSUME NEW s \in SUBSET S, Cardinality(s) <= 0 PROVE s = {}
      <4>1. Cardinality(s) = 0
        BY <3>1, <1>1, <1>2
      <4>. QED BY <4>1, <1>2, FS_EmptySet
    <3>. QED BY <3>1 DEF UnfoldsUpTo, Unfold
  <2>2. 0 \in 0 .. N
    BY <1>1
  <2>. QED BY <2>1, <2>2
<1>4. ASSUME NEW n \in 0 .. N, n \in Good, n + 1 \in 0 .. N PROVE n + 1 \in Good
  <2>1. PICK g : UnfoldsUpTo(g, f, S, n)
    BY <1>4
  <2> DEFINE h == Unfold(f, S, g)
  <2>2. UnfoldsUpTo(h, f, S, n + 1)
    <3>1. DOMAIN h = SUBSET S
      BY DEF Unfold
    <3>2. ASSUME NEW s \in SUBSET S, Cardinality(s) <= n + 1 PROVE h[s] = Unfold(f, S, h)[s]
      <4>1. CASE s = {}
        BY <4>1 DEF Unfold
      <4>2. CASE s # {}
        <5> DEFINE x == CHOOSE x \in s : TRUE
        <5>1. x \in s
          BY <4>2
        <5>2. s \ {x} \in SUBSET S /\ Cardinality(s \ {x}) <= n
          <6>1. Cardinality(s \ {x}) = Cardinality(s) - 1
            BY <5>1, <1>2, FS_RemoveElement
          <6>2. Cardinality(s) \in 0 .. N
            BY <1>2
          <6>. QED BY <6>1, <6>2, <3>2, <1>1
        <5>3. g[s \ {x}] = h[s \ {x}]
          BY <5>2, <2>1 DEF UnfoldsUpTo
        <5>4. h[s] = f[x] + g[s \ {x}]
          BY <4>2 DEF Unfold
        <5>5. Unfold(f, S, h)[s] = f[x] + h[s \ {x}]
          BY <4>2 DEF Unfold
        <5>. QED BY <5>3, <5>4, <5>5
      <4>. QED BY <4>1, <4>2
    <3>. QED BY <3>1, <3>2 DEF UnfoldsUpTo
  <2>. QED BY <2>2, <1>4
<1>5. N \in Good
  <2>1. \A n \in 0 + 1 .. N : n - 1 \in Good => n \in Good
    <3>1. ASSUME NEW n \in 0 + 1 .. N, n - 1 \in Good PROVE n \in Good
      <4>1. n - 1 \in 0 .. N /\ (n - 1) + 1 = n /\ n \in 0 .. N
        BY <1>1
      <4> HIDE DEF Good
      <4>. QED BY <4>1, <3>1, <1>4
    <3>. QED BY <3>1
  <2> HIDE DEF Good
  <2>2. 0 .. N \subseteq Good
    BY <1>1, <1>3, <2>1, InductionUpTo
  <2>. QED BY <1>1, <2>2
<1>6. PICK g : UnfoldsUpTo(g, f, S, N)
  BY <1>5
<1> DEFINE h == Unfold(f, S, g)
<1>7. \A s \in SUBSET S : g[s] = h[s]
  BY <1>6, <1>2, <1>1 DEF UnfoldsUpTo
<1>8. Unfold(f, S, h) = h
  <2>1. ASSUME NEW s \in SUBSET S, s # {}
        PROVE  h[s \ {CHOOSE x \in s : TRUE}] = g[s \ {CHOOSE x \in s : TRUE}]
    BY <1>7
  <2> HIDE DEF h
  <2>2. Unfold(f, S, h) = Unfold(f, S, g)
    BY <2>1 DEF Unfold
  <2>. QED BY <2>2 DEF h
<1>. QED BY <1>8 DEF IsTotal

\* Of the subsets of a finite set with a property, one has no smaller such subset.
LEMMA SmallestSubset ==
  ASSUME NEW S, IsFiniteSet(S), NEW Bad \in SUBSET (SUBSET S), Bad # {}
  PROVE  \E s \in Bad : \A x \in s : s \ {x} \notin Bad
<1> DEFINE Sizes == {Cardinality(s) : s \in Bad}
<1>1. ASSUME NEW s \in SUBSET S PROVE IsFiniteSet(s) /\ Cardinality(s) \in Nat
  BY FS_Subset, FS_CardinalityType
<1>2. Sizes \in SUBSET Nat /\ Sizes # {}
  BY <1>1
<1>3. PICK n \in Sizes : \A m \in Sizes : n <= m
  <2> HIDE DEF Sizes
  <2>. QED BY <1>2, LeastElement
<1>4. PICK s \in Bad : n = Cardinality(s)
  BY <1>3
<1>5. ASSUME NEW x \in s, s \ {x} \in Bad PROVE FALSE
  <2>1. Cardinality(s \ {x}) = Cardinality(s) - 1
    BY <1>1, FS_RemoveElement
  <2>2. Cardinality(s \ {x}) \in Sizes
    BY <1>5
  <2>3. n <= Cardinality(s \ {x})
    BY <2>2, <1>3
  <2>4. n \in Nat
    BY <1>1, <1>4
  <2>. QED BY <2>1, <2>3, <2>4, <1>4
<1>. QED BY <1>4, <1>5

\* The recursion has one solution.
LEMMA TotalUnique ==
  ASSUME NEW f, NEW S, IsFiniteSet(S), NEW it, NEW jt, IsTotal(it, f, S), IsTotal(jt, f, S)
  PROVE  it = jt
<1> DEFINE Bad == {s \in SUBSET S : it[s] # jt[s]}
<1>1. SUFFICES ASSUME Bad # {} PROVE FALSE
  <2>1. it = [s \in SUBSET S |-> it[s]] /\ jt = [s \in SUBSET S |-> jt[s]]
    BY DEF IsTotal, Unfold
  <2>. QED BY <2>1
<1>2. PICK s \in Bad : \A x \in s : s \ {x} \notin Bad
  <2>1. Bad \in SUBSET (SUBSET S)
    OBVIOUS
  <2> HIDE DEF Bad
  <2>. QED BY <1>1, <2>1, SmallestSubset
<1>3. s # {} => it[s \ {CHOOSE x \in s : TRUE}] = jt[s \ {CHOOSE x \in s : TRUE}]
  BY <1>2
<1>4. it[s] = jt[s]
  BY SMTT(60), <1>2, <1>3 DEF IsTotal, Unfold
<1>. QED BY <1>2, <1>4

\* A sum over a part of S is the solution's value there.
LEMMA TotalOfPart ==
  ASSUME NEW f, NEW S, IsFiniteSet(S), NEW it, IsTotal(it, f, S), NEW T \in SUBSET S
  PROVE  Total(f, T) = it[T]
<1> DEFINE jt == [s \in SUBSET T |-> it[s]]
           kt == CHOOSE kt : IsTotal(kt, f, T)
<1>1. IsFiniteSet(T)
  BY FS_Subset
<1>2. IsTotal(jt, f, T)
  <2>1. ASSUME NEW s \in SUBSET T
        PROVE  jt[s] = IF s = {} THEN 0
                       ELSE LET x == CHOOSE x \in s : TRUE IN f[x] + jt[s \ {x}]
    <3>1. s \in SUBSET S
      OBVIOUS
    <3>2. s # {} => jt[s \ {CHOOSE x \in s : TRUE}] = it[s \ {CHOOSE x \in s : TRUE}]
      OBVIOUS
    <3>3. jt[s] = it[s]
      OBVIOUS
    <3> HIDE DEF jt
    <3>. QED BY <3>1, <3>2, <3>3 DEF IsTotal, Unfold
  <2>2. jt = [s \in SUBSET T |-> jt[s]]
    OBVIOUS
  <2> HIDE DEF jt
  <2>. QED BY <2>1, <2>2 DEF IsTotal, Unfold
<1>3. IsTotal(kt, f, T)
  BY <1>2
<1>4. Total(f, T) = kt[T]
  BY DEF Total, MapThenSumSet, MapThenFoldSet, IsTotal, Unfold
<1>5. kt = jt
  <2> HIDE DEF kt, jt
  <2>. QED BY <1>1, <1>2, <1>3, TotalUnique
<1>. QED BY <1>4, <1>5

\* What the recursion of MapThenSumSet computes.
LEMMA TotalRecursion ==
  ASSUME NEW f, NEW S, IsFiniteSet(S)
  PROVE  /\ S = {} => Total(f, S) = 0
         /\ S # {} => Total(f, S) = f[Picked(S)] + Total(f, S \ {Picked(S)})
<1>1. PICK it : IsTotal(it, f, S)
  BY TotalExists
<1>2. S \in SUBSET S /\ S \ {Picked(S)} \in SUBSET S
  OBVIOUS
<1>3. Total(f, S) = it[S] /\ Total(f, S \ {Picked(S)}) = it[S \ {Picked(S)}]
  BY <1>1, <1>2, TotalOfPart
<1>. QED BY <1>1, <1>2, <1>3 DEF IsTotal, Unfold, Picked

\* A sum of counts is a count, whichever term is taken first.
LEMMA TotalTerm ==
  ASSUME NEW f, NEW S, Counts(f, S)
  PROVE  /\ Total(f, S) \in Nat
         /\ \A x \in S : Total(f, S) = f[x] + Total(f, S \ {x})
<1> DEFINE Good(s) == /\ Total(f, s) \in Nat
                      /\ \A x \in s : /\ Total(f, s \ {x}) \in Nat
                                     /\ Total(f, s) = f[x] + Total(f, s \ {x})
           Bad == {s \in SUBSET S : ~ Good(s)}
<1>1. SUFFICES ASSUME Bad # {} PROVE FALSE
  OBVIOUS
<1>2. PICK s \in Bad : \A x \in s : s \ {x} \notin Bad
  <2>1. Bad \in SUBSET (SUBSET S)
    OBVIOUS
  <2> HIDE DEF Bad
  <2>. QED BY <1>1, <2>1, SmallestSubset DEF Counts
<1>3. IsFiniteSet(s) /\ \A x \in s : f[x] \in Nat
  BY FS_Subset DEF Counts
<1>4. ASSUME NEW x \in s PROVE Good(s \ {x})
  BY <1>2, <1>4
<1>5. CASE s = {}
  <2>1. Total(f, s) = 0
    BY <1>3, <1>5, TotalRecursion
  <2>2. Good(s)
    BY <2>1, <1>5
  <2>. QED BY <2>2
<1>6. CASE s # {}
  <2> DEFINE y == Picked(s)
  <2>1. y \in s
    BY <1>6 DEF Picked
  <2>2. Total(f, s) = f[y] + Total(f, s \ {y})
    BY <1>3, <1>6, TotalRecursion
  <2>3. Total(f, s) \in Nat
    BY <2>1, <2>2, <1>3, <1>4
  <2>4. ASSUME NEW x \in s, x # y PROVE Total(f, s) = f[x] + Total(f, s \ {x})
    <3>1. x \in s \ {y} /\ y \in s \ {x} /\ (s \ {y}) \ {x} = (s \ {x}) \ {y}
      BY <2>1, <2>4
    <3>2. Total(f, s \ {y}) = f[x] + Total(f, (s \ {y}) \ {x})
      BY <3>1, <2>1, <1>4
    <3>3. Total(f, s \ {x}) = f[y] + Total(f, (s \ {x}) \ {y})
      BY <3>1, <1>4
    <3>4. Total(f, s \ {x}) \in Nat /\ Total(f, s \ {y}) \in Nat /\ f[x] \in Nat /\ f[y] \in Nat
      BY <1>3, <1>4, <2>1
    <3>5. Total(f, (s \ {x}) \ {y}) \in Nat
      BY <3>1, <1>4
    <3>6. Total(f, s \ {y}) = f[x] + Total(f, (s \ {x}) \ {y})
      BY <3>1, <3>2
    <3> HIDE DEF y
    <3>. QED BY <2>2, <3>3, <3>4, <3>5, <3>6
  <2>5. Good(s)
    BY <2>2, <2>3, <2>4, <1>4
  <2>. QED BY <2>5
<1>. QED BY <1>5, <1>6

\* A sum reads its terms only.
LEMMA TotalReadsTerms ==
  ASSUME NEW S, NEW f, NEW g, \A x \in S : f[x] = g[x]
  PROVE  Total(f, S) = Total(g, S)
<1>1. Total(f, S) = (CHOOSE it : IsTotal(it, f, S))[S] /\ Total(g, S) = (CHOOSE it : IsTotal(it, g, S))[S]
  BY DEF Total, MapThenSumSet, MapThenFoldSet, IsTotal, Unfold
<1>2. ASSUME NEW it PROVE IsTotal(it, f, S) <=> IsTotal(it, g, S)
  <2>1. ASSUME NEW s \in SUBSET S, s # {}
        PROVE  f[CHOOSE x \in s : TRUE] = g[CHOOSE x \in s : TRUE]
    <3>1. (CHOOSE x \in s : TRUE) \in S
      BY <2>1
    <3>. QED BY <3>1
  <2>2. Unfold(f, S, it) = Unfold(g, S, it)
    BY <2>1 DEF Unfold
  <2>. QED BY <2>2 DEF IsTotal
<1>3. (CHOOSE it : IsTotal(it, f, S)) = (CHOOSE it : IsTotal(it, g, S))
  BY <1>2
<1>. QED BY <1>1, <1>3

\* A sum of no terms.
LEMMA TotalOfNone ==
  ASSUME NEW f
  PROVE  Total(f, {}) = 0
  BY TotalRecursion, FS_EmptySet

\* Some of the terms of a sum are the terms of a sum.
LEMMA PartCounts ==
  ASSUME NEW f, NEW S, Counts(f, S), NEW T \in SUBSET S
  PROVE  Counts(f, T)
  BY FS_Subset DEF Counts

\* One more term.
LEMMA TotalAdd ==
  ASSUME NEW f, NEW S, Counts(f, S), NEW x, x \notin S, f[x] \in Nat
  PROVE  /\ Counts(f, S \cup {x})
         /\ Total(f, S \cup {x}) = f[x] + Total(f, S)
<1>1. Counts(f, S \cup {x})
  BY FS_AddElement DEF Counts
<1>2. (S \cup {x}) \ {x} = S /\ x \in S \cup {x}
  OBVIOUS
<1>. QED BY <1>1, <1>2, TotalTerm

\* The terms of two disjoint sets.
LEMMA TotalUnion ==
  ASSUME NEW f, NEW A, NEW B, Counts(f, A), Counts(f, B), A \cap B = {}
  PROVE  /\ Counts(f, A \cup B)
         /\ Total(f, A \cup B) = Total(f, A) + Total(f, B)
<1> DEFINE Good == {b \in SUBSET B : Total(f, A \cup b) = Total(f, A) + Total(f, b)}
<1>1. Total(f, A) \in Nat
  BY TotalTerm
<1>2. Counts(f, A \cup B)
  BY FS_Union DEF Counts
<1>3. {} \in Good
  <2>1. A \cup {} = A
    OBVIOUS
  <2>. QED BY <1>1, <2>1, TotalOfNone
<1>4. ASSUME NEW b \in SUBSET B, NEW x \in B \ b, b \in Good PROVE b \cup {x} \in Good
  <2>1. Counts(f, b) /\ Counts(f, A \cup b)
    <3>1. A \cup b \in SUBSET (A \cup B)
      OBVIOUS
    <3>. QED BY <1>2, <3>1, PartCounts
  <2>2. x \notin b /\ x \notin A \cup b /\ f[x] \in Nat
    BY DEF Counts
  <2>3. Total(f, (A \cup b) \cup {x}) = f[x] + Total(f, A \cup b)
    BY <2>1, <2>2, TotalAdd
  <2>4. Total(f, b \cup {x}) = f[x] + Total(f, b)
    BY <2>1, <2>2, TotalAdd
  <2>5. Total(f, b) \in Nat
    BY <2>1, TotalTerm
  <2>6. (A \cup b) \cup {x} = A \cup (b \cup {x})
    OBVIOUS
  <2>7. Total(f, A \cup (b \cup {x})) = Total(f, A) + Total(f, b \cup {x})
    BY <1>1, <1>4, <2>2, <2>3, <2>4, <2>5, <2>6
  <2>. QED BY <2>7
<1>5. B \in Good
  <2> HIDE DEF Good
  <2>. QED BY <1>3, <1>4, SetInduction DEF Counts
<1>. QED BY <1>2, <1>5

\* What h makes of a set.
Renamed(h, A) == {h[x] : x \in A}

\* The same terms under other names.
LEMMA TotalRenamed ==
  ASSUME NEW f, NEW g, NEW A, Counts(g, A), NEW h,
         \A x \in A : f[h[x]] = g[x], \A x, y \in A : h[x] = h[y] => x = y
  PROVE  /\ Counts(f, Renamed(h, A))
         /\ Total(f, Renamed(h, A)) = Total(g, A)
<1> DEFINE Good == {a \in SUBSET A : Counts(f, Renamed(h, a)) /\ Total(f, Renamed(h, a)) = Total(g, a)}
<1>1. {} \in Good
  <2>1. Renamed(h, {}) = {}
    BY DEF Renamed
  <2>2. Counts(f, {})
    BY FS_EmptySet DEF Counts
  <2>. QED BY <2>1, <2>2, TotalOfNone
<1>2. ASSUME NEW a \in SUBSET A, NEW x \in A \ a, a \in Good PROVE a \cup {x} \in Good
  <2>1. Counts(f, Renamed(h, a)) /\ Total(f, Renamed(h, a)) = Total(g, a)
    BY <1>2
  <2>2. Counts(g, a) /\ g[x] \in Nat /\ x \notin a
    BY PartCounts DEF Counts
  <2>3. h[x] \notin Renamed(h, a) /\ f[h[x]] \in Nat
    BY <2>2 DEF Renamed
  <2>4. Renamed(h, a \cup {x}) = Renamed(h, a) \cup {h[x]}
    BY DEF Renamed
  <2>5. Counts(f, Renamed(h, a \cup {x})) /\ Total(f, Renamed(h, a \cup {x})) = f[h[x]] + Total(f, Renamed(h, a))
    BY SMTT(60), <2>1, <2>3, <2>4, TotalAdd
  <2>6. Total(g, a \cup {x}) = g[x] + Total(g, a)
    BY <2>2, TotalAdd
  <2>. QED BY <2>1, <2>5, <2>6
<1>3. A \in Good
  <2> HIDE DEF Good
  <2>. QED BY <1>1, <1>2, SetInduction DEF Counts
<1>. QED BY <1>3

\* Every term of k is the sum of those of f and g.
AddsUp(k, f, g, S) == \A x \in S : k[x] = f[x] + g[x]

\* Sums are added term by term.
LEMMA TotalOfSums ==
  ASSUME NEW f, NEW g, NEW k, NEW S, Counts(f, S), Counts(g, S), AddsUp(k, f, g, S)
  PROVE  /\ Counts(k, S)
         /\ Total(k, S) = Total(f, S) + Total(g, S)
<1> DEFINE Good == {s \in SUBSET S : Total(k, s) = Total(f, s) + Total(g, s)}
<1>1. Counts(k, S)
  BY DEF Counts, AddsUp
<1>2. {} \in Good
  BY TotalOfNone
<1>3. ASSUME NEW s \in SUBSET S, NEW x \in S \ s, s \in Good PROVE s \cup {x} \in Good
  <2>1. Counts(f, s) /\ Counts(g, s) /\ Counts(k, s)
    BY <1>1, PartCounts
  <2>2. x \notin s /\ f[x] \in Nat /\ g[x] \in Nat /\ k[x] = f[x] + g[x] /\ k[x] \in Nat
    BY DEF Counts, AddsUp
  <2>3. /\ Total(f, s \cup {x}) = f[x] + Total(f, s)
        /\ Total(g, s \cup {x}) = g[x] + Total(g, s)
        /\ Total(k, s \cup {x}) = k[x] + Total(k, s)
    BY <2>1, <2>2, TotalAdd
  <2>4. Total(f, s) \in Nat /\ Total(g, s) \in Nat
    BY <2>1, TotalTerm
  <2>5. Total(k, s) = Total(f, s) + Total(g, s)
    BY <1>3
  <2>. QED BY <2>2, <2>3, <2>4, <2>5
<1>4. S \in Good
  <2> HIDE DEF Good
  <2>. QED BY <1>2, <1>3, SetInduction DEF Counts
<1>. QED BY <1>1, <1>4

\* The sets of a family, put together.
Gathered(F, s) == UNION {F[x] : x \in s}

\* Disjoint sets are counted one by one.
LEMMA UnionIsTotal ==
  ASSUME NEW S, IsFiniteSet(S), NEW F, NEW k, \A x \in S : IsFiniteSet(F[x]) /\ k[x] = Cardinality(F[x]),
         \A x, y \in S : x # y => F[x] \cap F[y] = {}
  PROVE  Cardinality(Gathered(F, S)) = Total(k, S)
<1> DEFINE Good == {s \in SUBSET S : IsFiniteSet(Gathered(F, s)) /\ Cardinality(Gathered(F, s)) = Total(k, s)}
<1>1. Counts(k, S)
  BY FS_CardinalityType DEF Counts
<1>2. {} \in Good
  <2>1. Gathered(F, {}) = {}
    BY DEF Gathered
  <2>. QED BY <2>1, TotalOfNone, FS_EmptySet
<1>3. ASSUME NEW s \in SUBSET S, NEW x \in S \ s, s \in Good PROVE s \cup {x} \in Good
  <2>1. IsFiniteSet(Gathered(F, s)) /\ Cardinality(Gathered(F, s)) = Total(k, s)
    BY <1>3
  <2>2. Gathered(F, s \cup {x}) = Gathered(F, s) \cup F[x]
    BY DEF Gathered
  <2>3. Gathered(F, s) \cap F[x] = {}
    BY DEF Gathered
  <2>0. IsFiniteSet(F[x]) /\ k[x] = Cardinality(F[x])
    OBVIOUS
  <2> HIDE DEF Good
  <2>4. IsFiniteSet(Gathered(F, s) \cup F[x])
    BY <2>1, <2>0, FS_Union
  <2>5. Cardinality(Gathered(F, s) \cup F[x]) = Cardinality(Gathered(F, s)) + Cardinality(F[x])
    <3>1. /\ Cardinality({}) = 0
          /\ Cardinality(Gathered(F, s)) \in Nat /\ Cardinality(F[x]) \in Nat
      BY <2>1, <2>0, FS_EmptySet, FS_CardinalityType
    <3>2. Cardinality(Gathered(F, s) \cup F[x]) = Cardinality(Gathered(F, s)) + Cardinality(F[x]) - Cardinality(Gathered(F, s) \cap F[x])
      BY <2>1, <2>0, FS_Union
    <3>3. Cardinality(Gathered(F, s) \cap F[x]) = 0
      BY <2>3, <3>1
    <3>. QED BY <3>1, <3>2, <3>3
  <2>6. Total(k, s \cup {x}) = k[x] + Total(k, s)
    <3>1. Counts(k, s) /\ x \notin s /\ k[x] \in Nat
      BY <1>1, PartCounts DEF Counts
    <3>. QED BY <3>1, TotalAdd
  <2>7. Cardinality(Gathered(F, s)) \in Nat /\ Cardinality(F[x]) \in Nat /\ k[x] = Cardinality(F[x])
    BY <2>1, <2>0, FS_CardinalityType
  <2>8. IsFiniteSet(Gathered(F, s \cup {x})) /\ Cardinality(Gathered(F, s \cup {x})) = Total(k, s \cup {x})
    <3>1. Total(k, s \cup {x}) = Cardinality(Gathered(F, s) \cup F[x])
      <4> DEFINE a == Cardinality(Gathered(F, s))
                 b == Cardinality(F[x])
                 c == Cardinality(Gathered(F, s) \cup F[x])
      <4>1. a \in Nat /\ b \in Nat /\ c = a + b /\ Total(k, s \cup {x}) = k[x] + Total(k, s)
            /\ a = Total(k, s) /\ k[x] = b
        BY <2>1, <2>5, <2>6, <2>7, Zenon
      <4> HIDE DEF a, b, c
      <4>2. Total(k, s \cup {x}) = c
        BY <4>1
      <4>. QED BY <4>2 DEF c
    <3>. QED BY <3>1, <2>2, <2>4, Zenon
  <2>9. s \cup {x} \in SUBSET S
    OBVIOUS
  <2>. QED BY <2>8, <2>9 DEF Good
<1>4. S \in Good
  <2> HIDE DEF Good
  <2>. QED BY <1>2, <1>3, SetInduction
<1>. QED BY <1>4

(***************************************************************************)
(* The bytes a table retains.                                              *)
(***************************************************************************)

\* The bytes of the values of a column, and of the columns of a table.
ValueSizes(type, column) == [r \in DOMAIN column |-> ValueBytes(type, column[r])]
ColumnSizes(schema, columns) == [c \in DOMAIN columns |-> ColumnBytes(schema[c].type, columns[c])]

\* Column::retained_bytes is a sum over the rows.
LEMMA ColumnBytesIsTotal ==
  ASSUME NEW type, NEW column
  PROVE  ColumnBytes(type, column) = Total(ValueSizes(type, column), DOMAIN column)
<1> DEFINE S == DOMAIN column
           f == ValueSizes(type, column)
           Step(it) == [s \in SUBSET S |-> IF s = {} THEN 0
                          ELSE LET x == CHOOSE x \in s : TRUE IN ValueBytes(type, column[x]) + it[s \ {x}]]
           P(it) == it = Step(it)
<1>1. ColumnBytes(type, column) = (CHOOSE it : P(it))[S]
  BY DEF ColumnBytes, MapThenSumSet, MapThenFoldSet
<1>2. Total(f, S) = (CHOOSE it : IsTotal(it, f, S))[S]
  BY DEF Total, MapThenSumSet, MapThenFoldSet, IsTotal, Unfold
<1>3. ASSUME NEW s \in SUBSET S, s # {}
      PROVE  f[CHOOSE x \in s : TRUE] = ValueBytes(type, column[CHOOSE x \in s : TRUE])
  <2>1. (CHOOSE x \in s : TRUE) \in S
    BY <1>3
  <2>. QED BY <2>1 DEF ValueSizes
<1>4. ASSUME NEW it PROVE P(it) <=> IsTotal(it, f, S)
  <2> HIDE DEF f
  <2>1. Step(it) = Unfold(f, S, it)
    BY <1>3 DEF Unfold
  <2>. QED BY <2>1 DEF IsTotal
<1> HIDE DEF P, f
<1>5. (CHOOSE it : P(it)) = (CHOOSE it : IsTotal(it, f, S))
  BY <1>4
<1>. QED BY <1>1, <1>2, <1>5 DEF f

\* Table::bytes is a sum over the columns.
LEMMA TotalBytesIsTotal ==
  ASSUME NEW schema, NEW columns
  PROVE  TotalBytes(schema, columns) = Total(ColumnSizes(schema, columns), DOMAIN columns)
<1> DEFINE S == DOMAIN columns
           f == ColumnSizes(schema, columns)
           Step(it) == [s \in SUBSET S |-> IF s = {} THEN 0
                          ELSE LET x == CHOOSE x \in s : TRUE
                               IN  ColumnBytes(schema[x].type, columns[x]) + it[s \ {x}]]
           P(it) == it = Step(it)
<1>1. TotalBytes(schema, columns) = (CHOOSE it : P(it))[S]
  BY DEF TotalBytes, MapThenSumSet, MapThenFoldSet
<1>2. Total(f, S) = (CHOOSE it : IsTotal(it, f, S))[S]
  BY DEF Total, MapThenSumSet, MapThenFoldSet, IsTotal, Unfold
<1>3. ASSUME NEW s \in SUBSET S, s # {}
      PROVE  f[CHOOSE x \in s : TRUE]
               = ColumnBytes(schema[CHOOSE x \in s : TRUE].type, columns[CHOOSE x \in s : TRUE])
  <2>1. (CHOOSE x \in s : TRUE) \in S
    BY <1>3
  <2>. QED BY <2>1 DEF ColumnSizes
<1>4. ASSUME NEW it PROVE P(it) <=> IsTotal(it, f, S)
  <2> HIDE DEF f
  <2>1. Step(it) = Unfold(f, S, it)
    BY <1>3 DEF Unfold
  <2>. QED BY <2>1 DEF IsTotal
<1> HIDE DEF P, f
<1>5. (CHOOSE it : P(it)) = (CHOOSE it : IsTotal(it, f, S))
  BY <1>4
<1>. QED BY <1>1, <1>2, <1>5 DEF f

\* The bytes of the strings of some rows.
LEMMA TextBytesIsTotal ==
  ASSUME NEW column, NEW rows
  PROVE  TextBytes(column, rows) = Total(column, rows)
  BY DEF TextBytes, Total

\* The bytes that some rows of a column retain.
RowBytes(type, column, rows) == MapThenSumSet(LAMBDA r : ValueBytes(type, column[r]), rows)

\* So are the bytes of some of the rows.
LEMMA RowBytesIsTotal ==
  ASSUME NEW type, NEW column, NEW rows, rows \subseteq DOMAIN column
  PROVE  RowBytes(type, column, rows) = Total(ValueSizes(type, column), rows)
<1> DEFINE S == rows
           f == ValueSizes(type, column)
           Step(it) == [s \in SUBSET S |-> IF s = {} THEN 0
                          ELSE LET x == CHOOSE x \in s : TRUE IN ValueBytes(type, column[x]) + it[s \ {x}]]
           P(it) == it = Step(it)
<1>1. RowBytes(type, column, rows) = (CHOOSE it : P(it))[S]
  BY DEF RowBytes, MapThenSumSet, MapThenFoldSet
<1>2. Total(f, S) = (CHOOSE it : IsTotal(it, f, S))[S]
  BY DEF Total, MapThenSumSet, MapThenFoldSet, IsTotal, Unfold
<1>3. ASSUME NEW s \in SUBSET S, s # {}
      PROVE  f[CHOOSE x \in s : TRUE] = ValueBytes(type, column[CHOOSE x \in s : TRUE])
  <2>1. (CHOOSE x \in s : TRUE) \in DOMAIN column
    BY <1>3
  <2>. QED BY <2>1 DEF ValueSizes
<1>4. ASSUME NEW it PROVE P(it) <=> IsTotal(it, f, S)
  <2> HIDE DEF f
  <2>1. Step(it) = Unfold(f, S, it)
    BY <1>3 DEF Unfold
  <2>. QED BY <2>1 DEF IsTotal
<1> HIDE DEF P, f
<1>5. (CHOOSE it : P(it)) = (CHOOSE it : IsTotal(it, f, S))
  BY <1>4
<1>. QED BY <1>1, <1>2, <1>5 DEF f

\* delete_rows adds up the bytes of the rows it takes, column by column.
LEMMA DeletedBytesIsTotal ==
  ASSUME NEW t, NEW rows
  PROVE  DeletedBytes(t, rows)
           = Total([c \in DOMAIN t.columns |-> RowBytes(t.schema[c].type, t.columns[c], rows)], DOMAIN t.columns)
<1> DEFINE S == DOMAIN t.columns
           f == [c \in S |-> RowBytes(t.schema[c].type, t.columns[c], rows)]
           Step(it) == [s \in SUBSET S |-> IF s = {} THEN 0
                          ELSE LET x == CHOOSE x \in s : TRUE
                               IN  RowBytes(t.schema[x].type, t.columns[x], rows) + it[s \ {x}]]
           P(it) == it = Step(it)
<1>1. DeletedBytes(t, rows) = MapThenSumSet(LAMBDA c : RowBytes(t.schema[c].type, t.columns[c], rows), S)
  BY DEF DeletedBytes, RowBytes
<1>2. DeletedBytes(t, rows) = (CHOOSE it : P(it))[S]
  BY <1>1 DEF MapThenSumSet, MapThenFoldSet
<1>3. Total(f, S) = (CHOOSE it : IsTotal(it, f, S))[S]
  BY DEF Total, MapThenSumSet, MapThenFoldSet, IsTotal, Unfold
<1>4. ASSUME NEW s \in SUBSET S, s # {}
      PROVE  f[CHOOSE x \in s : TRUE]
               = RowBytes(t.schema[CHOOSE x \in s : TRUE].type, t.columns[CHOOSE x \in s : TRUE], rows)
  <2>1. (CHOOSE x \in s : TRUE) \in S
    BY <1>4
  <2>. QED BY <2>1
<1>5. ASSUME NEW it PROVE P(it) <=> IsTotal(it, f, S)
  <2> HIDE DEF f
  <2>1. Step(it) = Unfold(f, S, it)
    BY <1>4 DEF Unfold
  <2>. QED BY <2>1 DEF IsTotal
<1> HIDE DEF P, f
<1>6. (CHOOSE it : P(it)) = (CHOOSE it : IsTotal(it, f, S))
  BY <1>5
<1>. QED BY <1>2, <1>3, <1>6 DEF f

\* Every value retains some number of bytes.
LEMMA ValueBytesAreNat ==
  ASSUME NEW type \in DataTypes, NEW v \in ValuesOf(type)
  PROVE  ValueBytes(type, v) \in Nat
<1>1. type \in {"Int64", "NullableInt64", "Float64", "Bool", "String"} /\ MaxString \in Nat
  BY TableAssumption DEF DataTypes
<1>2. type = "String" => v \in Nat
  BY <1>1 DEF ValuesOf
<1>. QED BY <1>1, <1>2 DEF ValueBytes

\* Only a String is as long as its value says.
LEMMA FixedBytes ==
  ASSUME NEW type \in DataTypes, type # "String", NEW v, NEW w
  PROVE  ValueBytes(type, v) = ValueBytes(type, w)
<1>1. type \in {"Int64", "NullableInt64", "Float64", "Bool"}
  BY TableAssumption DEF DataTypes
<1>. QED BY <1>1 DEF ValueBytes

\* A String retains its length.
LEMMA StringBytes ==
  ASSUME NEW v
  PROVE  ValueBytes("String", v) = v
  BY DEF ValueBytes

\* The rows of a column are counted once each.
LEMMA ColumnCounts ==
  ASSUME NEW type \in DataTypes, NEW n \in Nat, NEW column, IsColumn(column, type, n)
  PROVE  /\ DOMAIN column = 1 .. n
         /\ Counts(ValueSizes(type, column), 1 .. n)
         /\ ColumnBytes(type, column) = Total(ValueSizes(type, column), 1 .. n)
         /\ ColumnBytes(type, column) \in Nat
<1>1. DOMAIN column = 1 .. n
  BY LenProperties DEF IsColumn
<1>2. ASSUME NEW r \in 1 .. n PROVE ValueSizes(type, column)[r] \in Nat
  BY <1>1, ValueBytesAreNat DEF ValueSizes, IsColumn
<1>3. Counts(ValueSizes(type, column), 1 .. n)
  <2>1. 1 \in Int /\ n \in Int
    OBVIOUS
  <2>2. IsFiniteSet(1 .. n)
    BY <2>1, FS_Interval
  <2>. QED BY <1>2, <2>2 DEF Counts
<1>. QED BY <1>1, <1>3, ColumnBytesIsTotal, TotalTerm

\* The bytes of two columns put together.
LEMMA ConcatBytes ==
  ASSUME NEW type \in DataTypes, NEW m \in Nat, NEW n \in Nat, NEW a, NEW b,
         IsColumn(a, type, m), IsColumn(b, type, n)
  PROVE  /\ IsColumn(a \o b, type, m + n)
         /\ ColumnBytes(type, a \o b) = ColumnBytes(type, a) + ColumnBytes(type, b)
<1> DEFINE c == a \o b
           f == ValueSizes(type, c)
           fa == ValueSizes(type, a)
           fb == ValueSizes(type, b)
           h == [r \in 1 .. n |-> r + m]
<1>1. a \in Seq(Values) /\ b \in Seq(Values) /\ Len(a) = m /\ Len(b) = n
  BY DEF IsColumn
<1>2. /\ c \in Seq(Values) /\ Len(c) = m + n
      /\ \A r \in 1 .. m + n : c[r] = IF r <= m THEN a[r] ELSE b[r - m]
  BY <1>1, ConcatProperties
<1> HIDE DEF c
<1>3. IsColumn(c, type, m + n)
  <2>1. ASSUME NEW r \in 1 .. m + n PROVE c[r] \in ValuesOf(type)
    <3>1. CASE r <= m
      BY <1>2, <3>1 DEF IsColumn
    <3>2. CASE ~(r <= m)
      <4>1. r - m \in 1 .. n
        BY <3>2
      <4>. QED BY <1>2, <3>2, <4>1 DEF IsColumn
    <3>. QED BY <3>1, <3>2
  <2>. QED BY <1>2, <2>1 DEF IsColumn
<1>4. m + n \in Nat
  OBVIOUS
<1>5. /\ DOMAIN c = 1 .. m + n /\ Counts(f, 1 .. m + n)
      /\ ColumnBytes(type, c) = Total(f, 1 .. m + n)
  BY <1>3, <1>4, ColumnCounts
<1>6. /\ DOMAIN a = 1 .. m /\ ColumnBytes(type, a) = Total(fa, 1 .. m)
      /\ DOMAIN b = 1 .. n /\ ColumnBytes(type, b) = Total(fb, 1 .. n) /\ Counts(fb, 1 .. n)
  BY ColumnCounts
<1>7. Total(f, 1 .. m) = Total(fa, 1 .. m)
  <2>1. \A r \in 1 .. m : r \in 1 .. m + n /\ r <= m
    OBVIOUS
  <2>2. \A r \in 1 .. m : f[r] = fa[r]
    BY <1>2, <1>5, <1>6, <2>1 DEF ValueSizes
  <2> HIDE DEF f, fa
  <2>. QED BY <2>2, TotalReadsTerms
<1>8. Total(f, m + 1 .. m + n) = Total(fb, 1 .. n)
  <2>1. Renamed(h, 1 .. n) = m + 1 .. m + n
    <3>1. ASSUME NEW k \in m + 1 .. m + n PROVE k \in {h[r] : r \in 1 .. n}
      <4>1. k - m \in 1 .. n /\ h[k - m] = k
        OBVIOUS
      <4>. QED BY <4>1
    <3>. QED BY <3>1 DEF Renamed
  <2>2. \A r, s \in 1 .. n : h[r] = h[s] => r = s
    OBVIOUS
  <2>3. \A r \in 1 .. n : f[h[r]] = fb[r]
    <3>1. ASSUME NEW r \in 1 .. n PROVE f[h[r]] = fb[r]
      <4>1. h[r] = r + m /\ r + m \in 1 .. m + n /\ ~(r + m <= m) /\ (r + m) - m = r
        OBVIOUS
      <4> HIDE DEF h
      <4>. QED BY <1>2, <1>5, <1>6, <4>1 DEF ValueSizes
    <3>. QED BY <3>1
  <2> HIDE DEF f, fb, h
  <2>4. Total(f, Renamed(h, 1 .. n)) = Total(fb, 1 .. n)
    <3>1. Counts(fb, 1 .. n)
      BY <1>6
    <3>. QED BY <3>1, <2>2, <2>3, TotalRenamed
  <2>. QED BY <2>1, <2>4
<1>9. /\ 1 .. m + n = (1 .. m) \cup (m + 1 .. m + n) /\ (1 .. m) \cap (m + 1 .. m + n) = {}
      /\ 1 .. m \in SUBSET (1 .. m + n) /\ m + 1 .. m + n \in SUBSET (1 .. m + n)
  OBVIOUS
<1> HIDE DEF f, fa, fb
<1>10. Total(f, 1 .. m + n) = Total(f, 1 .. m) + Total(f, m + 1 .. m + n)
  <2>1. Counts(f, 1 .. m) /\ Counts(f, m + 1 .. m + n)
    BY <1>5, <1>9, PartCounts
  <2>. QED BY ZenonT(60), <1>9, <2>1, TotalUnion
<1>. QED BY <1>3, <1>5, <1>6, <1>7, <1>8, <1>10 DEF c

\* The bytes of a column with one value more.
LEMMA AppendBytes ==
  ASSUME NEW type \in DataTypes, NEW n \in Nat, NEW a, IsColumn(a, type, n), NEW v \in ValuesOf(type)
  PROVE  /\ IsColumn(Append(a, v), type, n + 1)
         /\ ColumnBytes(type, Append(a, v)) = ColumnBytes(type, a) + ValueBytes(type, v)
<1>1. v \in Values
  BY DEF Values
<1>2. IsColumn(<<v>>, type, 1)
  BY <1>1 DEF IsColumn
<1>3. Append(a, v) = a \o <<v>>
  BY <1>1, AppendIsConcat DEF IsColumn
<1>4. ColumnBytes(type, <<v>>) = ValueBytes(type, v)
  <2> DEFINE f == ValueSizes(type, <<v>>)
  <2>1. /\ Counts(f, 1 .. 1) /\ ColumnBytes(type, <<v>>) = Total(f, 1 .. 1)
    BY <1>2, ColumnCounts
  <2>2. 1 \in 1 .. 1 /\ (1 .. 1) \ {1} = {}
    OBVIOUS
  <2>3. f[1] = ValueBytes(type, v) /\ ValueBytes(type, v) \in Nat
    BY ValueBytesAreNat DEF ValueSizes
  <2> HIDE DEF f
  <2>. QED BY <2>1, <2>2, <2>3, TotalTerm, TotalOfNone
<1>. QED BY <1>2, <1>3, <1>4, ConcatBytes

\* The columns of a table are counted once each.
LEMMA TableCounts ==
  ASSUME NEW schema, NEW columns, NEW n, Typed(schema, columns, n)
  PROVE  /\ DOMAIN columns = 1 .. Len(schema) /\ Len(schema) \in Nat
         /\ \A c \in 1 .. Len(schema) :
              /\ schema[c].type \in DataTypes
              /\ ColumnSizes(schema, columns)[c] = ColumnBytes(schema[c].type, columns[c])
         /\ Counts(ColumnSizes(schema, columns), 1 .. Len(schema))
         /\ TotalBytes(schema, columns) = Total(ColumnSizes(schema, columns), 1 .. Len(schema))
         /\ TotalBytes(schema, columns) \in Nat
<1> DEFINE L == Len(schema)
           f == ColumnSizes(schema, columns)
<1>1. schema \in Seq(ColumnDefs) /\ columns \in Seq(Seq(Values)) /\ Len(columns) = L /\ n \in Nat
  BY DEF Typed
<1>2. L \in Nat /\ DOMAIN columns = 1 .. L
  BY <1>1, LenProperties
<1>3. \A c \in 1 .. L : schema[c].type \in DataTypes /\ f[c] = ColumnBytes(schema[c].type, columns[c])
  BY <1>1, <1>2, SchemaIsTyped DEF ColumnSizes
<1>4. \A c \in 1 .. L : f[c] \in Nat
  <2>1. ASSUME NEW c \in 1 .. L PROVE ColumnBytes(schema[c].type, columns[c]) \in Nat
    <3>1. IsColumn(columns[c], schema[c].type, n)
      BY DEF Typed
    <3>. QED BY <1>1, <1>3, <3>1, ColumnCounts
  <2>. QED BY <1>3, <2>1
<1> HIDE DEF f
<1>5. Counts(f, 1 .. L)
  <2>1. IsFiniteSet(1 .. L)
    BY <1>2, FS_Interval
  <2>. QED BY <1>4, <2>1 DEF Counts
<1>. QED BY <1>2, <1>3, <1>5, TotalBytesIsTotal, TotalTerm DEF f

\* The retained bytes of a table are those of its values.
BytesExact(t) == t.bytes = TotalBytes(t.schema, t.columns)

\* mark_values_mutated leaves them alone.
LEMMA MarkKeepsBytes ==
  ASSUME NEW u, DOMAIN u = TableFields, BytesExact(u)
  PROVE  BytesExact(MarkMutated(u))
<1>1. MarkMutated(u).bytes = u.bytes
  BY DEF MarkMutated, TableFields
<1>. QED BY <1>1, MarkKeepsRows DEF BytesExact

\* An INSERT charges what it appends.
LEMMA AppendIsExact ==
  ASSUME NEW t, Shaped(t), BytesExact(t), NEW rows, AreRows(t.schema, rows)
  PROVE  BytesExact(AppendRows(t, rows))
<1> DEFINE added == [c \in DOMAIN t.columns |-> [r \in DOMAIN rows |-> rows[r][c]]]
           grown == [c \in DOMAIN t.columns |-> t.columns[c] \o added[c]]
           u == [t EXCEPT !.columns = grown, !.row_count = @ + Len(rows),
                          !.bytes = @ + TotalBytes(t.schema, added)]
           L == Len(t.schema)
           n == t.row_count
           m == Len(rows)
<1>1. /\ DOMAIN t = TableFields /\ t.schema \in Seq(ColumnDefs) /\ ValidSchema(t.schema)
      /\ n \in Nat /\ Typed(t.schema, t.columns, n)
      /\ DOMAIN rows = 1 .. m /\ m \in Nat
      /\ \A c \in 1 .. L : IsColumn(t.columns[c], t.schema[c].type, n)
  BY DEF Shaped, Typed, AreRows
<1>2. /\ DOMAIN t.columns = 1 .. L /\ L \in Nat
      /\ \A c \in 1 .. L : t.schema[c].type \in DataTypes
  BY <1>1, TableCounts
<1>3. CASE rows = << >>
  BY <1>3 DEF AppendRows
<1>4. CASE rows # << >>
  <2>1. AppendRows(t, rows) = MarkMutated(u)
    BY <1>4 DEF AppendRows
  <2>2. /\ DOMAIN u = TableFields /\ u.schema = t.schema /\ u.columns = grown
        /\ u.bytes = t.bytes + TotalBytes(t.schema, added)
    BY <1>1 DEF TableFields
  <2>3. ASSUME NEW c \in 1 .. L PROVE IsColumn(added[c], t.schema[c].type, m)
    <3> DEFINE a == [r \in DOMAIN rows |-> rows[r][c]]
    <3>1. \A r \in 1 .. m : a[r] \in ValuesOf(t.schema[c].type)
      BY <1>1 DEF AreRows
    <3>2. ValuesOf(t.schema[c].type) \subseteq Values
      BY <1>1, SchemaIsTyped
    <3>3. a \in [1 .. m -> Values]
      BY <1>1, <3>1, <3>2
    <3>4. added[c] = a
      BY <1>2
    <3> HIDE DEF a, added
    <3>5. a \in Seq(Values) /\ Len(a) = m
      BY SMTT(60), <1>1, <3>3, FunctionIsSeq
    <3>. QED BY <3>1, <3>4, <3>5 DEF IsColumn
  <2>4. /\ \A c \in 1 .. L : grown[c] = t.columns[c] \o added[c]
        /\ DOMAIN added = 1 .. L /\ added = [c \in DOMAIN added |-> added[c]]
        /\ DOMAIN grown = 1 .. L /\ grown = [c \in DOMAIN grown |-> grown[c]]
    BY <1>2
  <2> HIDE DEF added, grown, u
  <2>5. ASSUME NEW c \in 1 .. L
        PROVE  /\ IsColumn(grown[c], t.schema[c].type, n + m)
               /\ ColumnBytes(t.schema[c].type, grown[c])
                    = ColumnBytes(t.schema[c].type, t.columns[c]) + ColumnBytes(t.schema[c].type, added[c])
    <3>1. /\ IsColumn(t.columns[c], t.schema[c].type, n) /\ IsColumn(added[c], t.schema[c].type, m)
          /\ t.schema[c].type \in DataTypes /\ grown[c] = t.columns[c] \o added[c]
      BY <1>1, <1>2, <2>3, <2>4
    <3> HIDE DEF n, m
    <3>. QED BY <1>1, <3>1, ConcatBytes
  <2>6. Typed(t.schema, added, m) /\ Typed(t.schema, grown, n + m)
    <3>1. n + m \in Nat
      BY <1>1
    <3>. QED BY <1>1, <2>3, <2>4, <2>5, <3>1, ColumnsAreTyped
  <2> DEFINE f == ColumnSizes(t.schema, t.columns)
             g == ColumnSizes(t.schema, added)
             k == ColumnSizes(t.schema, grown)
  <2>7. /\ Counts(f, 1 .. L) /\ TotalBytes(t.schema, t.columns) = Total(f, 1 .. L)
        /\ \A c \in 1 .. L : f[c] = ColumnBytes(t.schema[c].type, t.columns[c])
    BY <1>1, TableCounts
  <2>8. /\ Counts(g, 1 .. L) /\ TotalBytes(t.schema, added) = Total(g, 1 .. L)
        /\ \A c \in 1 .. L : g[c] = ColumnBytes(t.schema[c].type, added[c])
    BY <2>6, TableCounts
  <2>9. /\ TotalBytes(t.schema, grown) = Total(k, 1 .. L)
        /\ \A c \in 1 .. L : k[c] = ColumnBytes(t.schema[c].type, grown[c])
    BY <2>6, TableCounts
  <2> HIDE DEF f, g, k
  <2>10. Total(k, 1 .. L) = Total(f, 1 .. L) + Total(g, 1 .. L)
    <3>1. AddsUp(k, f, g, 1 .. L)
      BY <2>5, <2>7, <2>8, <2>9 DEF AddsUp
    <3>. QED BY <2>7, <2>8, <3>1, TotalOfSums
  <2>11. BytesExact(u)
    BY <2>2, <2>7, <2>8, <2>9, <2>10 DEF BytesExact
  <2>. QED BY <2>1, <2>2, <2>11, MarkKeepsBytes
<1>. QED BY <1>3, <1>4

\* An empty column retains nothing.
LEMMA EmptyBytes ==
  ASSUME NEW type
  PROVE  ColumnBytes(type, << >>) = 0
<1>1. DOMAIN << >> = {}
  OBVIOUS
<1>. QED BY <1>1, ColumnBytesIsTotal, TotalOfNone

\* A sum of nothing but zeros.
LEMMA TotalOfZeros ==
  ASSUME NEW f, NEW S, Counts(f, S), \A x \in S : f[x] = 0
  PROVE  Total(f, S) = 0
<1> DEFINE Good == {s \in SUBSET S : Total(f, s) = 0}
<1>1. {} \in Good
  BY TotalOfNone
<1>2. ASSUME NEW s \in SUBSET S, NEW x \in S \ s, s \in Good PROVE s \cup {x} \in Good
  <2>1. Counts(f, s) /\ x \notin s /\ f[x] = 0 /\ f[x] \in Nat
    BY PartCounts
  <2>2. Total(f, s \cup {x}) = f[x] + Total(f, s)
    BY <2>1, TotalAdd
  <2>. QED BY <1>2, <2>1, <2>2
<1>3. S \in Good
  <2> HIDE DEF Good
  <2>. QED BY <1>1, <1>2, SetInduction DEF Counts
<1>. QED BY <1>3

\* Columns without rows retain nothing.
LEMMA NoRowsNoBytes ==
  ASSUME NEW schema, NEW columns, NEW n, Typed(schema, columns, n),
         \A c \in 1 .. Len(schema) : columns[c] = << >>
  PROVE  TotalBytes(schema, columns) = 0
  BY TableCounts, EmptyBytes, TotalOfZeros

\* TRUNCATE returns every byte.
LEMMA TruncateIsExact ==
  ASSUME NEW t, Shaped(t)
  PROVE  BytesExact(TruncateTable(t))
<1> DEFINE bare == [c \in DOMAIN t.columns |-> << >>]
           u == [t EXCEPT !.columns = bare, !.row_count = 0, !.bytes = 0]
<1>1. /\ DOMAIN t = TableFields /\ t.schema \in Seq(ColumnDefs) /\ ValidSchema(t.schema)
      /\ Typed(t.schema, t.columns, t.row_count)
  BY DEF Shaped, Typed
<1>2. DOMAIN t.columns = 1 .. Len(t.schema)
  BY <1>1, TableCounts
<1>3. DOMAIN u = TableFields /\ u.schema = t.schema /\ u.columns = bare /\ u.bytes = 0
  BY <1>1 DEF TableFields
<1>4. /\ \A c \in 1 .. Len(t.schema) : bare[c] = << >>
      /\ DOMAIN bare = 1 .. Len(t.schema) /\ bare = [c \in DOMAIN bare |-> bare[c]]
  BY <1>2
<1>5. TruncateTable(t) = u \/ TruncateTable(t) = MarkMutated(u)
  BY DEF TruncateTable
<1> HIDE DEF bare, u
<1>6. \A c \in 1 .. Len(t.schema) : IsColumn(bare[c], t.schema[c].type, 0)
  BY <1>4, EmptyColumn
<1>7. Typed(t.schema, bare, 0)
  BY <1>1, <1>4, <1>6, ColumnsAreTyped
<1>8. BytesExact(u)
  BY <1>3, <1>4, <1>7, NoRowsNoBytes DEF BytesExact
<1>. QED BY <1>3, <1>5, <1>8, MarkKeepsBytes

\* Some rows of a column and the others make up the column.
LEMMA RowsAndRest ==
  ASSUME NEW type \in DataTypes, NEW n \in Nat, NEW column, IsColumn(column, type, n),
         NEW rows \in SUBSET (1 .. n)
  PROVE  /\ RowBytes(type, column, rows) \in Nat
         /\ RowBytes(type, column, rows) = Total(ValueSizes(type, column), rows)
         /\ Total(ValueSizes(type, column), (1 .. n) \ rows) \in Nat
         /\ ColumnBytes(type, column)
              = Total(ValueSizes(type, column), (1 .. n) \ rows) + RowBytes(type, column, rows)
<1> DEFINE f == ValueSizes(type, column)
           rest == (1 .. n) \ rows
<1>1. /\ DOMAIN column = 1 .. n /\ Counts(f, 1 .. n)
      /\ ColumnBytes(type, column) = Total(f, 1 .. n)
  BY ColumnCounts
<1>2. RowBytes(type, column, rows) = Total(f, rows)
  BY <1>1, RowBytesIsTotal
<1> HIDE DEF f
<1>3. Counts(f, rows) /\ Counts(f, rest)
  <2>1. rest \in SUBSET (1 .. n)
    OBVIOUS
  <2> HIDE DEF rest
  <2>. QED BY <1>1, <2>1, PartCounts
<1>4. rest \cup rows = 1 .. n /\ rest \cap rows = {}
  OBVIOUS
<1> HIDE DEF rest
<1>5. Total(f, rest \cup rows) = Total(f, rest) + Total(f, rows)
  BY <1>3, <1>4, TotalUnion
<1>6. Total(f, rest) \in Nat /\ Total(f, rows) \in Nat
  BY <1>3, TotalTerm
<1>. QED BY <1>1, <1>2, <1>4, <1>5, <1>6 DEF f, rest

\* What compact_deleted_rows keeps of a column and what it deletes make up the column.
LEMMA CompactBytes ==
  ASSUME NEW type \in DataTypes, NEW n \in Nat, NEW column, IsColumn(column, type, n),
         NEW rows \in SUBSET (1 .. n)
  PROVE  ColumnBytes(type, column)
           = ColumnBytes(type, Compact(column, rows)) + RowBytes(type, column, rows)
<1> DEFINE f == ValueSizes(type, column)
           kept == Retained(column, rows)
           Exact(k) == \E l \in Nat : /\ IsColumn(kept[k], type, l)
                                      /\ ColumnBytes(type, kept[k]) = Total(f, (1 .. k) \ rows)
           N == {k \in 0 .. n : Exact(k)}
<1>1. /\ Len(column) = n /\ Len(column) \in Nat
      /\ DOMAIN column = 1 .. n /\ Counts(f, 1 .. n)
      /\ \A r \in 1 .. n : column[r] \in ValuesOf(type) /\ f[r] = ValueBytes(type, column[r])
  BY ColumnCounts DEF IsColumn, ValueSizes
<1>2. /\ kept[0] = << >>
      /\ \A r \in 1 .. n : kept[r] = IF r \in rows THEN kept[r - 1] ELSE Append(kept[r - 1], column[r])
  BY <1>1, RetainedStep
<1> HIDE DEF f, kept
<1>3. 0 \in N
  <2>1. (1 .. 0) \ rows = {}
    OBVIOUS
  <2>2. IsColumn(kept[0], type, 0) /\ ColumnBytes(type, kept[0]) = 0
    BY <1>2, EmptyColumn, EmptyBytes
  <2>3. Exact(0)
    BY <2>1, <2>2, TotalOfNone
  <2> HIDE DEF Exact
  <2>. QED BY <2>3
<1>4. ASSUME NEW k \in 1 .. n, k - 1 \in N PROVE k \in N
  <2>1. PICK l \in Nat : /\ IsColumn(kept[k - 1], type, l)
                         /\ ColumnBytes(type, kept[k - 1]) = Total(f, (1 .. k - 1) \ rows)
    BY <1>4
  <2>2. CASE k \in rows
    <3>1. kept[k] = kept[k - 1]
      BY <1>2, <2>2
    <3>2. (1 .. k) \ rows = (1 .. k - 1) \ rows
      <4>1. ASSUME NEW r \in (1 .. k) \ rows PROVE r \in 1 .. k - 1
        <5>1. r # k
          BY <2>2
        <5>. QED BY <5>1
      <4>. QED BY <4>1
    <3>3. Exact(k)
      BY <2>1, <3>1, <3>2
    <3> HIDE DEF Exact
    <3>. QED BY <3>3
  <2>3. CASE k \notin rows
    <3> DEFINE before == (1 .. k - 1) \ rows
               v == column[k]
    <3>1. kept[k] = Append(kept[k - 1], v) /\ v \in ValuesOf(type) /\ f[k] = ValueBytes(type, v)
      BY <1>1, <1>2, <2>3
    <3>2. (1 .. k) \ rows = before \cup {k} /\ k \notin before /\ before \in SUBSET (1 .. n)
      BY <2>3
    <3>9. ColumnBytes(type, kept[k - 1]) = Total(f, before)
      BY <2>1
    <3> HIDE DEF before, v
    <3>3. IsColumn(kept[k], type, l + 1)
          /\ ColumnBytes(type, kept[k]) = ColumnBytes(type, kept[k - 1]) + ValueBytes(type, v)
      BY <2>1, <3>1, AppendBytes
    <3>4. Counts(f, before) /\ f[k] \in Nat
      BY <1>1, <3>2, PartCounts DEF Counts
    <3>5. Total(f, before \cup {k}) = f[k] + Total(f, before) /\ Total(f, before) \in Nat
      BY <3>2, <3>4, TotalAdd, TotalTerm
    <3>6. ColumnBytes(type, kept[k]) = Total(f, (1 .. k) \ rows)
      <4>1. Total(f, (1 .. k) \ rows) = Total(f, before \cup {k})
        BY <3>2
      <4>. QED BY <3>1, <3>3, <3>4, <3>5, <3>9, <4>1
    <3>7. l + 1 \in Nat
      OBVIOUS
    <3>8. Exact(k)
      BY <3>3, <3>6, <3>7
    <3> HIDE DEF Exact
    <3>. QED BY <3>8
  <2>. QED BY <2>2, <2>3
<1>5. 0 .. n \subseteq N
  <2>1. \A k \in 0 + 1 .. n : k - 1 \in N => k \in N
    <3>1. 0 + 1 = 1
      OBVIOUS
    <3> HIDE DEF N
    <3>. QED BY <1>4, <3>1
  <2> HIDE DEF N
  <2>. QED BY <1>3, <2>1, InductionUpTo
<1>6. Exact(n)
  <2> HIDE DEF Exact
  <2>1. n \in 0 .. n
    OBVIOUS
  <2>. QED BY <1>5, <2>1
<1>7. ColumnBytes(type, Compact(column, rows)) = Total(f, (1 .. n) \ rows)
  BY <1>1, <1>6, CompactIsLast DEF kept
<1>. QED BY <1>7, RowsAndRest DEF f

\* saturating_sub is exact on what was added before.
LEMMA SatSubExact ==
  ASSUME NEW a \in Nat, NEW b \in Nat
  PROVE  SatSub(a + b, b) = a /\ SatSub(a + b, a) = b
  BY DEF SatSub

\* DELETE returns the bytes of the rows it takes.
LEMMA DeleteIsExact ==
  ASSUME NEW t, Sound(t), BytesExact(t), NEW rows \in SUBSET (1 .. t.row_count)
  PROVE  BytesExact(DeleteRows(t, rows))
<1> DEFINE left == [c \in DOMAIN t.columns |-> Compact(t.columns[c], rows)]
           L == Len(t.schema)
           n == t.row_count
           gone == [c \in DOMAIN t.columns |-> RowBytes(t.schema[c].type, t.columns[c], rows)]
           u == [t EXCEPT !.columns = left, !.row_count = @ - Cardinality(rows),
                          !.bytes = SatSub(@, DeletedBytes(t, rows))]
<1>1. /\ DOMAIN t = TableFields /\ t.schema \in Seq(ColumnDefs) /\ ValidSchema(t.schema)
      /\ n \in Nat /\ Typed(t.schema, t.columns, n)
      /\ \A c \in 1 .. L : IsColumn(t.columns[c], t.schema[c].type, n)
  BY DEF Sound, Shaped, Typed
<1>2. /\ DOMAIN t.columns = 1 .. L /\ L \in Nat
      /\ \A c \in 1 .. L : t.schema[c].type \in DataTypes
  BY <1>1, TableCounts
<1>3. CASE rows = {}
  BY <1>3 DEF DeleteRows
<1>4. CASE rows # {}
  <2>1. DeleteRows(t, rows) = MarkMutated(u)
    BY <1>4 DEF DeleteRows
  <2>2. /\ DOMAIN u = TableFields /\ u.schema = t.schema /\ u.columns = left
        /\ u.bytes = SatSub(t.bytes, DeletedBytes(t, rows))
    BY <1>1 DEF TableFields
  <2>3. /\ \A c \in 1 .. L : left[c] = Compact(t.columns[c], rows)
        /\ DOMAIN left = 1 .. L /\ left = [c \in DOMAIN left |-> left[c]]
        /\ \A c \in 1 .. L : gone[c] = RowBytes(t.schema[c].type, t.columns[c], rows)
        /\ DeletedBytes(t, rows) = Total(gone, 1 .. L)
    BY <1>2, DeletedBytesIsTotal
  <2> HIDE DEF left, gone, u
  <2>4. PICK l \in Nat : l = n - Cardinality(rows)
    <3>1. IsFiniteSet(1 .. n) /\ Cardinality(1 .. n) = n
      BY <1>1, FS_Interval
    <3>2. IsFiniteSet(rows) /\ Cardinality(rows) <= n
      BY <3>1, FS_Subset
    <3>3. Cardinality(rows) \in Nat
      BY <3>2, FS_CardinalityType
    <3>. QED BY <1>1, <3>2, <3>3
  <2>5. ASSUME NEW c \in 1 .. L PROVE IsColumn(left[c], t.schema[c].type, l)
    BY <1>1, <2>3, <2>4, CompactIsColumn
  <2>6. Typed(t.schema, left, l)
    BY <1>1, <2>3, <2>5, ColumnsAreTyped
  <2> DEFINE f == ColumnSizes(t.schema, t.columns)
             k == ColumnSizes(t.schema, left)
  <2>7. /\ TotalBytes(t.schema, t.columns) = Total(f, 1 .. L)
        /\ \A c \in 1 .. L : f[c] = ColumnBytes(t.schema[c].type, t.columns[c])
    BY <1>1, TableCounts
  <2>8. /\ Counts(k, 1 .. L) /\ TotalBytes(t.schema, left) = Total(k, 1 .. L)
        /\ \A c \in 1 .. L : k[c] = ColumnBytes(t.schema[c].type, left[c])
    BY <2>6, TableCounts
  <2> HIDE DEF f, k
  <2>9. ASSUME NEW c \in 1 .. L PROVE gone[c] \in Nat /\ f[c] = k[c] + gone[c]
    <3>1. /\ IsColumn(t.columns[c], t.schema[c].type, n) /\ t.schema[c].type \in DataTypes
          /\ f[c] = ColumnBytes(t.schema[c].type, t.columns[c])
          /\ k[c] = ColumnBytes(t.schema[c].type, Compact(t.columns[c], rows))
          /\ gone[c] = RowBytes(t.schema[c].type, t.columns[c], rows)
      BY <1>1, <1>2, <2>3, <2>7, <2>8
    <3>2. RowBytes(t.schema[c].type, t.columns[c], rows) \in Nat
      BY <1>1, <3>1, RowsAndRest
    <3>3. ColumnBytes(t.schema[c].type, t.columns[c])
            = ColumnBytes(t.schema[c].type, Compact(t.columns[c], rows))
                + RowBytes(t.schema[c].type, t.columns[c], rows)
      BY <1>1, <3>1, CompactBytes
    <3>. QED BY <3>1, <3>2, <3>3
  <2>10. Counts(gone, 1 .. L) /\ AddsUp(f, k, gone, 1 .. L)
    BY <2>8, <2>9 DEF Counts, AddsUp
  <2>11. Total(f, 1 .. L) = Total(k, 1 .. L) + Total(gone, 1 .. L)
    BY <2>8, <2>10, TotalOfSums
  <2>12. Total(k, 1 .. L) \in Nat /\ Total(gone, 1 .. L) \in Nat
    BY <2>8, <2>10, TotalTerm
  <2>13. BytesExact(u)
    BY <2>2, <2>3, <2>7, <2>8, <2>11, <2>12, SatSubExact DEF BytesExact
  <2>. QED BY <2>1, <2>2, <2>13, MarkKeepsBytes
<1>. QED BY <1>3, <1>4

\* The columns agree, but for one.
SameBut(changed, columns, column, L) == \A c \in 1 .. L : c # column => changed[c] = columns[c]

\* The values of some rows are exchanged for new ones.
Replaced(fresh, old, new, n) ==
  /\ DOMAIN new \subseteq 1 .. n
  /\ \A r \in 1 .. n : fresh[r] = IF r \in DOMAIN new THEN new[r] ELSE old[r]

\* Tables that differ in one column differ by the bytes of that column.
LEMMA ColumnExchange ==
  ASSUME NEW schema, NEW columns, NEW changed, NEW n, Typed(schema, columns, n), Typed(schema, changed, n),
         NEW column \in 1 .. Len(schema),
         SameBut(changed, columns, column, Len(schema))
  PROVE  /\ ColumnBytes(schema[column].type, columns[column]) \in Nat
         /\ ColumnBytes(schema[column].type, columns[column]) <= TotalBytes(schema, columns)
         /\ TotalBytes(schema, changed) + ColumnBytes(schema[column].type, columns[column])
              = TotalBytes(schema, columns) + ColumnBytes(schema[column].type, changed[column])
<1> DEFINE L == Len(schema)
           f == ColumnSizes(schema, columns)
           g == ColumnSizes(schema, changed)
           others == (1 .. L) \ {column}
<1>1. /\ Counts(f, 1 .. L) /\ TotalBytes(schema, columns) = Total(f, 1 .. L)
      /\ \A c \in 1 .. L : f[c] = ColumnBytes(schema[c].type, columns[c])
  BY TableCounts
<1>2. /\ Counts(g, 1 .. L) /\ TotalBytes(schema, changed) = Total(g, 1 .. L)
      /\ \A c \in 1 .. L : g[c] = ColumnBytes(schema[c].type, changed[c])
  BY TableCounts
<1> HIDE DEF f, g
<1>3. \A c \in others : f[c] = g[c]
  BY <1>1, <1>2 DEF SameBut
<1>4. others \in SUBSET (1 .. L)
  OBVIOUS
<1>5. Total(f, 1 .. L) = f[column] + Total(f, others) /\ Total(g, 1 .. L) = g[column] + Total(g, others)
  <2>1. Counts(f, 1 .. L) /\ Counts(g, 1 .. L) /\ column \in 1 .. L
    BY <1>1, <1>2
  <2> DEFINE S == 1 .. L
  <2>2. Counts(f, S) /\ Counts(g, S) /\ column \in S
    BY <2>1
  <2> HIDE DEF S
  <2>3. Total(f, S) = f[column] + Total(f, S \ {column})
    BY <2>2, TotalTerm
  <2>4. Total(g, S) = g[column] + Total(g, S \ {column})
    BY <2>2, TotalTerm
  <2>. QED BY <2>3, <2>4 DEF S
<1> HIDE DEF others
<1>6. Total(f, others) = Total(g, others)
  BY <1>3, TotalReadsTerms
<1>7. Total(f, others) \in Nat
  BY <1>1, <1>4, PartCounts, TotalTerm
<1>8. f[column] \in Nat /\ g[column] \in Nat
  BY <1>1, <1>2 DEF Counts
<1>9. /\ f[column] = ColumnBytes(schema[column].type, columns[column])
      /\ g[column] = ColumnBytes(schema[column].type, changed[column])
  BY <1>1, <1>2
<1> DEFINE o == Total(f, others)
           x == ColumnBytes(schema[column].type, columns[column])
           y == ColumnBytes(schema[column].type, changed[column])
<1>10. /\ TotalBytes(schema, columns) = x + o /\ TotalBytes(schema, changed) = y + o
       /\ o \in Nat /\ x \in Nat /\ y \in Nat
  BY <1>1, <1>2, <1>5, <1>6, <1>7, <1>8, <1>9
<1> HIDE DEF o, x, y
<1>11. /\ x \in Nat /\ x <= TotalBytes(schema, columns)
       /\ TotalBytes(schema, changed) + x = TotalBytes(schema, columns) + y
  BY <1>10
<1>. QED BY <1>11 DEF x, y

\* A column in which some rows have new values: strings give back the old
\* bytes and take the new, the other types are as long as before.
LEMMA ReplacedBytes ==
  ASSUME NEW type \in DataTypes, NEW n \in Nat, NEW old, NEW fresh, NEW new,
         IsColumn(old, type, n), IsColumn(fresh, type, n), Replaced(fresh, old, new, n)
  PROVE  /\ type # "String" => ColumnBytes(type, fresh) = ColumnBytes(type, old)
         /\ type = "String" =>
              /\ TextBytes(old, DOMAIN new) \in Nat /\ TextBytes(new, DOMAIN new) \in Nat
              /\ TextBytes(old, DOMAIN new) <= ColumnBytes(type, old)
              /\ ColumnBytes(type, fresh) + TextBytes(old, DOMAIN new)
                   = ColumnBytes(type, old) + TextBytes(new, DOMAIN new)
<1> DEFINE f == ValueSizes(type, old)
           g == ValueSizes(type, fresh)
           rows == DOMAIN new
           others == (1 .. n) \ rows
<1>1. /\ DOMAIN old = 1 .. n /\ DOMAIN fresh = 1 .. n
      /\ ColumnBytes(type, old) = Total(f, 1 .. n) /\ ColumnBytes(type, fresh) = Total(g, 1 .. n)
  BY ColumnCounts
<1>2. \A r \in 1 .. n : f[r] = ValueBytes(type, old[r]) /\ g[r] = ValueBytes(type, fresh[r])
  BY <1>1 DEF ValueSizes
<1>3. ASSUME type # "String" PROVE ColumnBytes(type, fresh) = ColumnBytes(type, old)
  <2>1. \A r \in 1 .. n : f[r] = g[r]
    BY <1>2, <1>3, FixedBytes
  <2> HIDE DEF f, g
  <2>. QED BY <1>1, <2>1, TotalReadsTerms
<1>4. ASSUME type = "String"
      PROVE  /\ TextBytes(old, rows) \in Nat /\ TextBytes(new, rows) \in Nat
             /\ TextBytes(old, rows) <= ColumnBytes(type, old)
             /\ ColumnBytes(type, fresh) + TextBytes(old, rows)
                  = ColumnBytes(type, old) + TextBytes(new, rows)
  <2>1. rows \in SUBSET (1 .. n)
    BY DEF Replaced
  <2>2. /\ Total(f, rows) \in Nat /\ Total(f, others) \in Nat
        /\ ColumnBytes(type, old) = Total(f, others) + Total(f, rows)
    BY <2>1, RowsAndRest
  <2>3. /\ Total(g, rows) \in Nat
        /\ ColumnBytes(type, fresh) = Total(g, others) + Total(g, rows)
    BY <2>1, RowsAndRest
  <2>4. \A r \in rows : f[r] = old[r] /\ g[r] = new[r]
    BY <1>2, <1>4, <2>1, StringBytes DEF Replaced
  <2>5. \A r \in others : f[r] = g[r]
    BY <1>2 DEF Replaced
  <2> HIDE DEF f, g, rows, others
  <2>6. Total(f, rows) = Total(old, rows) /\ Total(g, rows) = Total(new, rows)
    BY <2>4, TotalReadsTerms
  <2>7. Total(f, others) = Total(g, others)
    BY <2>5, TotalReadsTerms
  <2> DEFINE a == TextBytes(old, rows)
             b == TextBytes(new, rows)
             c == Total(f, others)
  <2>8. /\ a \in Nat /\ b \in Nat /\ c \in Nat
        /\ ColumnBytes(type, old) = c + a /\ ColumnBytes(type, fresh) = c + b
    BY <2>2, <2>3, <2>6, <2>7, TextBytesIsTotal
  <2> HIDE DEF a, b, c
  <2>9. /\ a \in Nat /\ b \in Nat /\ a <= ColumnBytes(type, old)
        /\ ColumnBytes(type, fresh) + a = ColumnBytes(type, old) + b
    BY <2>8
  <2>. QED BY <2>9 DEF a, b
<1>. QED BY <1>3, <1>4

\* A replacement refunds the strings it overwrites.
LEMMA ReplaceIsExact ==
  ASSUME NEW t, Sound(t), BytesExact(t), NEW column \in DOMAIN t.schema, NEW new,
         DOMAIN new \subseteq 1 .. t.row_count,
         \A r \in DOMAIN new : new[r] \in ValuesOf(t.schema[column].type)
  PROVE  BytesExact(ReplaceValues(t, column, new))
<1> DEFINE old == t.columns[column]
           type == t.schema[column].type
           L == Len(t.schema)
           n == t.row_count
           fresh == [r \in DOMAIN old |-> IF r \in DOMAIN new THEN new[r] ELSE old[r]]
           changed == [t.columns EXCEPT ![column] = fresh]
           b == IF type = "String"
                THEN SatSub(t.bytes, TextBytes(old, DOMAIN new)) + TextBytes(new, DOMAIN new)
                ELSE t.bytes
           u == [t EXCEPT !.columns = changed, !.bytes = b]
<1>1. /\ DOMAIN t = TableFields /\ t.schema \in Seq(ColumnDefs) /\ ValidSchema(t.schema)
      /\ n \in Nat /\ Typed(t.schema, t.columns, n)
      /\ \A c \in 1 .. L : IsColumn(t.columns[c], t.schema[c].type, n)
  BY DEF Sound, Shaped, Typed
<1>2. /\ DOMAIN t.columns = 1 .. L /\ column \in 1 .. L /\ type \in DataTypes
      /\ \A c \in 1 .. L : t.schema[c].type \in DataTypes
  BY <1>1, TableCounts, LenProperties
<1>3. IsColumn(old, type, n) /\ DOMAIN old = 1 .. n
  BY <1>1, <1>2, ColumnCounts
<1>4. CASE DOMAIN new = {}
  BY <1>4 DEF ReplaceValues
<1>5. CASE DOMAIN new # {}
  <2>1. ReplaceValues(t, column, new) = MarkMutated(u)
    BY <1>5, <1>1 DEF ReplaceValues, TableFields
  <2>2. DOMAIN u = TableFields /\ u.schema = t.schema /\ u.columns = changed /\ u.bytes = b
    BY <1>1 DEF TableFields
  <2>3. Replaced(fresh, old, new, n)
    BY <1>3 DEF Replaced
  <2>4. IsColumn(fresh, type, n)
    <3>0. ValuesOf(type) \subseteq Values
      BY <1>1, <1>2, SchemaIsTyped
    <3>1. \A r \in 1 .. n : fresh[r] \in ValuesOf(type)
      BY <1>3, <2>3 DEF IsColumn, Replaced
    <3>2. fresh \in [1 .. n -> Values]
      BY <1>3, <3>0, <3>1
    <3> HIDE DEF fresh
    <3>3. fresh \in Seq(Values) /\ Len(fresh) = n
      BY <1>1, <3>2, FunctionIsSeq
    <3>. QED BY <3>1, <3>3 DEF IsColumn
  <2>5. /\ \A c \in 1 .. L : changed[c] = IF c = column THEN fresh ELSE t.columns[c]
        /\ DOMAIN changed = 1 .. L /\ changed = [c \in DOMAIN changed |-> changed[c]]
    BY <1>2
  <2> HIDE DEF fresh, changed, u, b
  <2>6. \A c \in 1 .. L : IsColumn(changed[c], t.schema[c].type, n)
    BY <1>1, <2>4, <2>5
  <2>7. Typed(t.schema, changed, n)
    BY <1>1, <2>5, <2>6, ColumnsAreTyped
  <2>8. changed[column] = fresh /\ SameBut(changed, t.columns, column, L)
    BY <1>2, <2>5 DEF SameBut
  <2> DEFINE x == ColumnBytes(type, old)
             y == ColumnBytes(type, fresh)
             p == TextBytes(old, DOMAIN new)
             q == TextBytes(new, DOMAIN new)
             after == TotalBytes(t.schema, changed)
  <2>9. /\ x \in Nat /\ x <= t.bytes /\ after + x = t.bytes + y
        /\ y \in Nat /\ t.bytes \in Nat /\ after \in Nat
    <3>1. /\ x \in Nat /\ x <= TotalBytes(t.schema, t.columns)
          /\ after + x = TotalBytes(t.schema, t.columns) + ColumnBytes(type, changed[column])
      BY <1>1, <1>2, <2>7, <2>8, ColumnExchange
    <3>2. y \in Nat
      BY <1>1, <1>2, <2>4, ColumnCounts
    <3>3. TotalBytes(t.schema, t.columns) \in Nat /\ after \in Nat
      BY <1>1, <2>7, TableCounts
    <3>. QED BY <2>8, <3>1, <3>2, <3>3 DEF BytesExact
  <2>10. /\ type # "String" => y = x
         /\ type = "String" => p \in Nat /\ q \in Nat /\ p <= x /\ y + p = x + q
    BY <1>1, <1>2, <1>3, <2>3, <2>4, ReplacedBytes
  <2>11. b = IF type = "String" THEN SatSub(t.bytes, p) + q ELSE t.bytes
    BY DEF b
  <2> HIDE DEF x, y, p, q, after, type
  <2>12. b = after
    <3>1. CASE type = "String"
      BY <2>9, <2>10, <2>11, <3>1 DEF SatSub
    <3>2. CASE type # "String"
      BY <2>9, <2>10, <2>11, <3>2
    <3>. QED BY <3>1, <3>2
  <2>13. BytesExact(u)
    BY <2>2, <2>12 DEF BytesExact, after
  <2>. QED BY <2>1, <2>2, <2>13, MarkKeepsBytes
<1>. QED BY <1>4, <1>5

\* A column of defaults.
LEMMA DefaultColumn ==
  ASSUME NEW type \in DataTypes, NEW n \in Nat
  PROVE  IsColumn([r \in 1 .. n |-> Default(type)], type, n)
<1> DEFINE column == [r \in 1 .. n |-> Default(type)]
<1>1. Default(type) \in ValuesOf(type) /\ Default(type) \in Values
  BY DefaultIsTyped DEF Values
<1>2. /\ \A r \in 1 .. n : column[r] \in ValuesOf(type)
      /\ column \in [1 .. n -> Values]
  BY <1>1
<1> HIDE DEF column
<1>3. column \in Seq(Values) /\ Len(column) = n
  BY <1>2, FunctionIsSeq
<1>. QED BY <1>2, <1>3 DEF IsColumn, column

\* ADD COLUMN charges the defaults of the new column.
LEMMA AddColumnIsExact ==
  ASSUME NEW t, Sound(t), BytesExact(t), NEW name \in ColumnNames, NEW type \in DataTypes,
         CanAddColumn(t, name)
  PROVE  BytesExact(AddColumn(t, name, type))
<1> DEFINE field == [name |-> name, type |-> type]
           column == [r \in 1 .. t.row_count |-> Default(type)]
           schema == Append(t.schema, field)
           columns == Append(t.columns, column)
           L == Len(t.schema)
           n == t.row_count
           u == [t EXCEPT !.schema = schema, !.columns = columns,
                          !.bytes = @ + ColumnBytes(type, column)]
<1>1. /\ DOMAIN t = TableFields /\ t.schema \in Seq(ColumnDefs) /\ Len(t.columns) = L
      /\ n \in Nat /\ Typed(t.schema, t.columns, n) /\ t.columns \in Seq(Seq(Values))
  BY DEF Sound, Shaped, Typed
<1>2. AddColumn(t, name, type) = MarkMutated(u)
  BY DEF AddColumn
<1>3. /\ DOMAIN u = TableFields /\ u.schema = schema /\ u.columns = columns
      /\ u.row_count = n /\ u.bytes = t.bytes + ColumnBytes(type, column)
  BY <1>1 DEF TableFields
<1>4. IsColumn(column, type, n)
  BY <1>1, DefaultColumn
<1>5. field \in ColumnDefs /\ field.type = type
  BY DEF ColumnDefs
<1> HIDE DEF u, column, field
<1>6. Typed(schema, columns, n)
  <2>1. Shaped(MarkMutated(u))
    BY <1>2, AddColumnIsSound DEF Follows, Sound
  <2> HIDE DEF schema, columns, n
  <2>. QED BY <1>3, <2>1, MarkKeepsRows DEF Shaped
<1>7. /\ Len(schema) = L + 1 /\ L \in Nat
      /\ schema[L + 1] = field /\ \A c \in 1 .. L : schema[c] = t.schema[c]
  BY <1>1, <1>5, AppendProperties, LenProperties
<1>8. columns[L + 1] = column /\ \A c \in 1 .. L : columns[c] = t.columns[c]
  <2>1. column \in Seq(Values)
    BY <1>4 DEF IsColumn
  <2>. QED BY <1>1, <2>1, AppendProperties
<1> DEFINE f == ColumnSizes(t.schema, t.columns)
           g == ColumnSizes(schema, columns)
<1> HIDE DEF schema, columns
<1>9. /\ Counts(f, 1 .. L) /\ TotalBytes(t.schema, t.columns) = Total(f, 1 .. L)
      /\ \A c \in 1 .. L : f[c] = ColumnBytes(t.schema[c].type, t.columns[c])
  BY ZenonT(60), <1>1, TableCounts
<1>10. /\ Counts(g, 1 .. L + 1) /\ TotalBytes(schema, columns) = Total(g, 1 .. L + 1)
       /\ \A c \in 1 .. L + 1 : g[c] = ColumnBytes(schema[c].type, columns[c])
  BY <1>6, <1>7, TableCounts
<1> HIDE DEF f, g
<1>11. \A c \in 1 .. L : c \in 1 .. L + 1 /\ g[c] = f[c]
  <2>1. \A c \in 1 .. L : c \in 1 .. L + 1
    BY <1>7
  <2>. QED BY <1>7, <1>8, <1>9, <1>10, <2>1
<1>12. L + 1 \in 1 .. L + 1 /\ (1 .. L + 1) \ {L + 1} = 1 .. L
  BY <1>7
<1>13. g[L + 1] = ColumnBytes(type, column)
  BY <1>5, <1>7, <1>8, <1>10, <1>12
<1>14. Total(g, 1 .. L + 1) = g[L + 1] + Total(g, 1 .. L)
  <2> DEFINE S == 1 .. L + 1
             x == L + 1
  <2>1. Counts(g, S) /\ x \in S
    BY <1>10, <1>12
  <2> HIDE DEF S, x
  <2>2. Total(g, S) = g[x] + Total(g, S \ {x})
    BY <2>1, TotalTerm
  <2>. QED BY <1>12, <2>2 DEF S, x
<1>15. Total(g, 1 .. L) = Total(f, 1 .. L)
  BY <1>11, TotalReadsTerms
<1>16. Total(f, 1 .. L) \in Nat /\ g[L + 1] \in Nat
  BY <1>9, <1>10, <1>12, TotalTerm DEF Counts
<1>17. BytesExact(u)
  <2>1. t.bytes = Total(f, 1 .. L)
    BY <1>9 DEF BytesExact
  <2>2. u.bytes = Total(g, 1 .. L + 1)
    BY <1>3, <1>13, <1>14, <1>15, <1>16, <2>1
  <2>. QED BY <1>3, <1>10, <2>2 DEF BytesExact
<1>. QED BY <1>2, <1>3, <1>17, MarkKeepsBytes

\* DROP COLUMN returns the bytes of the column.
LEMMA DropColumnIsExact ==
  ASSUME NEW t, Sound(t), BytesExact(t), NEW column \in DOMAIN t.schema, CanDropColumn(t)
  PROVE  BytesExact(DropColumn(t, column))
<1> DEFINE schema == RemoveAt(t.schema, column)
           columns == RemoveAt(t.columns, column)
           L == Len(t.schema)
           n == t.row_count
           u == DropColumn(t, column)
           h == [k \in 1 .. L - 1 |-> IF k < column THEN k ELSE k + 1]
           others == (1 .. L) \ {column}
<1>1. /\ DOMAIN t = TableFields /\ t.schema \in Seq(ColumnDefs) /\ Len(t.columns) = L
      /\ n \in Nat /\ Typed(t.schema, t.columns, n) /\ t.columns \in Seq(Seq(Values))
  BY DEF Sound, Shaped, Typed
<1>2. DOMAIN t.schema = 1 .. L /\ L \in Nat /\ L > 1 /\ column \in 1 .. L
  BY <1>1, LenProperties DEF CanDropColumn
<1>3. /\ u.schema = schema /\ u.columns = columns /\ u.row_count = n
      /\ u.bytes = SatSub(t.bytes, ColumnBytes(t.schema[column].type, t.columns[column]))
  BY <1>1 DEF TableFields, DropColumn
<1>4. Typed(schema, columns, n)
  <2>1. Shaped(u)
    BY DropColumnIsSound DEF Follows, Sound
  <2> HIDE DEF schema, columns, n, u
  <2>. QED BY <1>3, <2>1 DEF Shaped
<1>5. \A k \in 1 .. L - 1 : h[k] = IF k < column THEN k ELSE k + 1
  OBVIOUS
<1>6. Len(schema) = L - 1 /\ \A k \in 1 .. L - 1 : schema[k] = t.schema[h[k]]
  <2>1. /\ Len(schema) = L - 1
        /\ \A k \in 1 .. L - 1 : schema[k] = t.schema[IF k < column THEN k ELSE k + 1]
    BY SMTT(60), <1>1, <1>2, RemoveAtIsSeq
  <2> HIDE DEF schema, h
  <2>. QED BY <1>5, <2>1
<1>7. \A k \in 1 .. L - 1 : columns[k] = t.columns[h[k]]
  <2>1. column \in 1 .. Len(t.columns)
    BY <1>1, <1>2
  <2>2. \A k \in 1 .. L - 1 : columns[k] = t.columns[IF k < column THEN k ELSE k + 1]
    BY <1>1, <2>1, RemoveAtIsSeq
  <2> HIDE DEF columns, h
  <2>. QED BY <1>5, <2>2
<1>8. /\ Renamed(h, 1 .. L - 1) = others
      /\ \A j, k \in 1 .. L - 1 : h[j] = h[k] => j = k
      /\ \A k \in 1 .. L - 1 : h[k] \in 1 .. L
  <2>1. ASSUME NEW c \in others PROVE c \in {h[k] : k \in 1 .. L - 1}
    <3>1. CASE c < column
      <4>1. c \in 1 .. L - 1 /\ h[c] = c
        BY <1>2, <3>1
      <4>. QED BY <4>1
    <3>2. CASE ~(c < column)
      <4>1. c - 1 \in 1 .. L - 1 /\ h[c - 1] = c
        BY <1>2, <3>2
      <4>. QED BY <4>1
    <3>. QED BY <3>1, <3>2
  <2>2. ASSUME NEW k \in 1 .. L - 1 PROVE h[k] \in others
    BY <1>2
  <2>3. \A j, k \in 1 .. L - 1 : h[j] = h[k] => j = k
    BY <1>2
  <2> HIDE DEF h, others
  <2>4. \A k \in 1 .. L - 1 : h[k] \in 1 .. L
    BY <2>2 DEF others
  <2>. QED BY <2>1, <2>2, <2>3, <2>4 DEF Renamed
<1> DEFINE f == ColumnSizes(t.schema, t.columns)
           g == ColumnSizes(schema, columns)
           x == ColumnBytes(t.schema[column].type, t.columns[column])
<1> HIDE DEF schema, columns, u, h
<1>9. /\ Counts(f, 1 .. L) /\ TotalBytes(t.schema, t.columns) = Total(f, 1 .. L)
      /\ \A c \in 1 .. L : f[c] = ColumnBytes(t.schema[c].type, t.columns[c])
  BY <1>1, TableCounts
<1>10. /\ Counts(g, 1 .. L - 1) /\ TotalBytes(schema, columns) = Total(g, 1 .. L - 1)
       /\ \A c \in 1 .. L - 1 : g[c] = ColumnBytes(schema[c].type, columns[c])
  BY <1>4, <1>6, TableCounts
<1> HIDE DEF f, g
<1>11. \A k \in 1 .. L - 1 : f[h[k]] = g[k]
  <2>1. ASSUME NEW k \in 1 .. L - 1 PROVE f[h[k]] = g[k]
    <3>1. schema[k] = t.schema[h[k]] /\ columns[k] = t.columns[h[k]] /\ h[k] \in 1 .. L
      BY <1>6, <1>7, <1>8
    <3>2. f[h[k]] = ColumnBytes(t.schema[h[k]].type, t.columns[h[k]])
      BY <1>9, <3>1
    <3>3. g[k] = ColumnBytes(schema[k].type, columns[k])
      BY <1>10
    <3>. QED BY <3>1, <3>2, <3>3
  <2>. QED BY <2>1
<1>12. Total(f, others) = Total(g, 1 .. L - 1) /\ Total(g, 1 .. L - 1) \in Nat
  <2> DEFINE A == 1 .. L - 1
  <2>1. Counts(g, A) /\ Renamed(h, A) = others
    BY <1>8, <1>10
  <2>2. \A k \in A : f[h[k]] = g[k]
    BY <1>11
  <2>3. \A j, k \in A : h[j] = h[k] => j = k
    BY <1>8
  <2> HIDE DEF A, others
  <2>4. Total(f, Renamed(h, A)) = Total(g, A)
    BY <2>1, <2>2, <2>3, TotalRenamed
  <2>. QED BY <2>1, <2>4, TotalTerm DEF A
<1>13. Total(f, 1 .. L) = x + Total(f, others) /\ x \in Nat
  <2> DEFINE S == 1 .. L
  <2>1. Counts(f, S) /\ column \in S
    BY <1>2, <1>9
  <2> HIDE DEF S, x
  <2>2. Total(f, S) = f[column] + Total(f, S \ {column}) /\ f[column] \in Nat
    BY <2>1, TotalTerm DEF Counts
  <2>3. f[column] = x
    BY <1>2, <1>9 DEF x
  <2>. QED BY <2>2, <2>3 DEF S
<1> HIDE DEF others, x
<1>14. SatSub(Total(f, 1 .. L), x) = Total(g, 1 .. L - 1)
  BY <1>12, <1>13, SatSubExact
<1>15. u.bytes = SatSub(t.bytes, x)
  BY <1>3 DEF x
<1>. QED BY <1>3, <1>9, <1>10, <1>14, <1>15 DEF BytesExact, u

\* RENAME COLUMN changes no type, and so no byte.
LEMMA RenameColumnIsExact ==
  ASSUME NEW t, Sound(t), BytesExact(t), NEW column \in DOMAIN t.schema, NEW name \in ColumnNames,
         CanRenameColumn(t, column, name)
  PROVE  /\ BytesExact(RenameColumn(t, column, name))
         /\ Reading(RenameColumn(t, column, name)) = Reading(t)
<1> DEFINE field == [t.schema[column] EXCEPT !.name = name]
           schema == [t.schema EXCEPT ![column] = field]
           L == Len(t.schema)
           n == t.row_count
           u == RenameColumn(t, column, name)
<1>1. /\ DOMAIN t = TableFields /\ t.schema \in Seq(ColumnDefs)
      /\ n \in Nat /\ Typed(t.schema, t.columns, n)
  BY DEF Sound, Shaped, Typed
<1>2. DOMAIN t.schema = 1 .. L /\ L \in Nat /\ column \in 1 .. L
  BY <1>1, LenProperties
<1>3. /\ u.schema = schema /\ u.columns = t.columns /\ u.row_count = n /\ u.bytes = t.bytes
  BY <1>1 DEF TableFields, RenameColumn
<1>4. field \in ColumnDefs /\ field.type = t.schema[column].type
  <2>1. t.schema[column] \in ColumnDefs
    BY <1>1, <1>2, ElementOfSeq
  <2>. QED BY <2>1 DEF ColumnDefs
<1> HIDE DEF field
<1>5. /\ Len(schema) = L
      /\ \A c \in 1 .. L : schema[c] = IF c = column THEN field ELSE t.schema[c]
  BY <1>1, <1>2, <1>4, ExceptSeq
<1>6. Typed(schema, t.columns, n)
  <2>1. Shaped(u)
    BY RenameColumnIsSound DEF Follows, Sound
  <2> HIDE DEF schema, n, u
  <2>. QED BY <1>3, <2>1 DEF Shaped
<1> DEFINE f == ColumnSizes(t.schema, t.columns)
           g == ColumnSizes(schema, t.columns)
<1> HIDE DEF schema, u
<1>7. /\ TotalBytes(t.schema, t.columns) = Total(f, 1 .. L)
      /\ \A c \in 1 .. L : f[c] = ColumnBytes(t.schema[c].type, t.columns[c])
  BY <1>1, TableCounts
<1>8. /\ TotalBytes(schema, t.columns) = Total(g, 1 .. L)
      /\ \A c \in 1 .. L : g[c] = ColumnBytes(schema[c].type, t.columns[c])
  BY <1>5, <1>6, TableCounts
<1> HIDE DEF f, g
<1>9. \A c \in 1 .. L : f[c] = g[c]
  BY <1>4, <1>5, <1>7, <1>8
<1>10. Total(f, 1 .. L) = Total(g, 1 .. L)
  BY <1>9, TotalReadsTerms
<1>11. BytesExact(u)
  BY <1>3, <1>7, <1>8, <1>10 DEF BytesExact
<1>12. Reading(u) = Reading(t)
  BY <1>3, <1>5 DEF Reading
<1>. QED BY <1>11, <1>12 DEF u

\* An index retains no bytes that are counted.
LEMMA IndexKeepsBytes ==
  ASSUME NEW t, Sound(t), BytesExact(t), NEW index
  PROVE  BytesExact([t EXCEPT !.index = index])
<1> DEFINE u == [t EXCEPT !.index = index]
<1>1. u.bytes = t.bytes /\ u.schema = t.schema /\ u.columns = t.columns
  BY DEF Sound, Shaped, TableFields
<1>. QED BY <1>1 DEF BytesExact

\* A table as it is made counts what it is given.
LEMMA NewTableIsExact ==
  ASSUME NEW schema, NEW cap, NEW columns
  PROVE  BytesExact(NewTable(schema, cap, columns))
  BY DEF BytesExact, NewTable

\* A range-partitioned table counts the values of its partitions.
LEMMA PartitionedIsExact ==
  ASSUME NEW name, NEW ps
  PROVE  BytesExact(PartitionedTable(name, ps))
<1> DEFINE t == NewTable(<<[name |-> name, type |-> "Int64"]>>, MaxRows, <<PartitionValues(ps)>>)
           u == PartitionedTable(name, ps)
<1>1. BytesExact(t)
  BY NewTableIsExact
<1>2. DOMAIN t = TableFields
  BY DEF TableFields, NewTable
<1> HIDE DEF t
<1>3. PICK p : u = [t EXCEPT !.partitions = p]
  BY DEF PartitionedTable, t
<1>4. u.bytes = t.bytes /\ u.schema = t.schema /\ u.columns = t.columns
  BY <1>2, <1>3 DEF TableFields
<1>. QED BY <1>1, <1>4 DEF BytesExact

\* So does a table decoded from a snapshot.
LEMMA DecodedIsExact ==
  ASSUME NEW t \in Decoded
  PROVE  BytesExact(t)
<1>1. t \in RestoredTables
  BY DEF Decoded
<1>2. PICK s \in Restored : t = NewTable(<<[name |-> s.name, type |-> s.type]>>, s.row_cap, <<s.values>>)
  BY <1>1 DEF RestoredTables
<1>. QED BY <1>2, NewTableIsExact

(***************************************************************************)
(* What the database measures of itself.                                   *)
(***************************************************************************)

\* What is measured of a table.
Measures == {"columns", "rows", "bytes"}

\* One measurement, table by table.
Readings(k, ts) == [n \in DOMAIN ts |-> Reading(ts[n])[k]]

\* The totals kept beside the catalog are those of its tables.
AreTotals(m, ts) == \A k \in Measures : m[k] = Total(Readings(k, ts), DOMAIN ts)

\* Every table of the catalog counts its bytes, and the database counts its tables.
Measured ==
  /\ IsFiniteSet(DOMAIN tables)
  /\ \A n \in DOMAIN tables : BytesExact(tables[n])
  /\ DOMAIN measure = Measures
  /\ AreTotals(measure, tables)

\* What is measured of a table are numbers.
LEMMA ReadingIsCount ==
  ASSUME NEW t, Sound(t), BytesExact(t)
  PROVE  /\ DOMAIN Reading(t) = Measures
         /\ \A k \in Measures : Reading(t)[k] \in Nat
<1>1. Typed(t.schema, t.columns, t.row_count)
  BY DEF Sound, Shaped
<1>2. Len(t.schema) \in Nat /\ t.row_count \in Nat /\ t.bytes \in Nat
  <2>1. t.row_count \in Nat
    BY <1>1 DEF Typed
  <2>2. Len(t.schema) \in Nat /\ TotalBytes(t.schema, t.columns) \in Nat
    BY <1>1, TableCounts
  <2>. QED BY <2>1, <2>2 DEF BytesExact
<1>3. /\ DOMAIN Reading(t) = Measures
      /\ Reading(t)["columns"] = Len(t.schema) /\ Reading(t)["rows"] = t.row_count
      /\ Reading(t)["bytes"] = t.bytes
  BY DEF Reading, Measures
<1>. QED BY <1>2, <1>3 DEF Measures

\* A catalog whose tables are sound and count their bytes.
Countable(ts) ==
  /\ IsFiniteSet(DOMAIN ts)
  /\ \A n \in DOMAIN ts : Sound(ts[n]) /\ BytesExact(ts[n])

\* One measurement of the tables of a catalog is a sum of numbers.
LEMMA ReadingsAreCounts ==
  ASSUME NEW ts, Countable(ts), NEW k \in Measures
  PROVE  /\ Counts(Readings(k, ts), DOMAIN ts)
         /\ Total(Readings(k, ts), DOMAIN ts) \in Nat
<1>1. \A n \in DOMAIN ts : Readings(k, ts)[n] \in Nat
  BY ReadingIsCount DEF Countable, Readings
<1>2. Counts(Readings(k, ts), DOMAIN ts)
  BY <1>1 DEF Counts, Countable
<1>. QED BY <1>2, TotalTerm

\* us is ts with the table of name n exchanged for u, or with a new table u.
With(us, ts, n, u) ==
  /\ DOMAIN us = DOMAIN ts \cup {n}
  /\ us[n] = u
  /\ \A m \in DOMAIN ts : m # n => us[m] = ts[m]

\* What is left of the totals without a table.
Rest(k, ts, n) == Total(Readings(k, ts), DOMAIN ts \ {n})

\* A table made or exchanged leaves the measurements of the others alone.
LEMMA WithIsCountable ==
  ASSUME NEW ts, Countable(ts), NEW us, NEW n, NEW u, Sound(u), BytesExact(u), With(us, ts, n, u)
  PROVE  /\ Countable(us)
         /\ \A k \in Measures : Rest(k, us, n) = Rest(k, ts, n) /\ Rest(k, us, n) \in Nat
<1>1. Countable(us)
  <2>1. IsFiniteSet(DOMAIN us)
    BY FS_AddElement DEF Countable, With
  <2>. QED BY <2>1 DEF Countable, With
<1>2. ASSUME NEW k \in Measures
      PROVE  Rest(k, us, n) = Rest(k, ts, n) /\ Rest(k, us, n) \in Nat
  <2> DEFINE S == DOMAIN ts \ {n}
             f == Readings(k, ts)
             g == Readings(k, us)
  <2>1. DOMAIN us \ {n} = S /\ S \in SUBSET DOMAIN us
    BY DEF With
  <2>2. \A m \in S : f[m] = g[m]
    BY DEF With, Readings
  <2>3. Counts(g, DOMAIN us)
    BY <1>1, ReadingsAreCounts
  <2> HIDE DEF S, f, g
  <2>4. Total(f, S) = Total(g, S)
    BY <2>2, TotalReadsTerms
  <2>5. Total(g, S) \in Nat
    BY <2>1, <2>3, PartCounts, TotalTerm
  <2>. QED BY <2>1, <2>4, <2>5 DEF Rest, S, f, g
<1>. QED BY <1>1, <1>2

\* One table and the others.
LEMMA TotalWith ==
  ASSUME NEW ts, Countable(ts), NEW n \in DOMAIN ts, NEW k \in Measures
  PROVE  /\ Total(Readings(k, ts), DOMAIN ts) = Reading(ts[n])[k] + Rest(k, ts, n)
         /\ Reading(ts[n])[k] \in Nat /\ Rest(k, ts, n) \in Nat
<1> DEFINE f == Readings(k, ts)
           S == DOMAIN ts
<1>1. Counts(f, S) /\ n \in S
  BY ReadingsAreCounts
<1>2. f[n] = Reading(ts[n])[k]
  BY DEF Readings
<1> HIDE DEF f, S
<1>3. Total(f, S) = f[n] + Total(f, S \ {n})
  BY <1>1, TotalTerm
<1>4. f[n] \in Nat
  BY <1>1 DEF Counts
<1>5. Total(f, S \ {n}) \in Nat
  <2>1. S \ {n} \in SUBSET S
    OBVIOUS
  <2> DEFINE T == S \ {n}
  <2> HIDE DEF T
  <2>2. Counts(f, T)
    BY <1>1, <2>1, PartCounts DEF T
  <2>. QED BY <2>2, TotalTerm DEF T
<1>. QED BY <1>2, <1>3, <1>4, <1>5 DEF Rest, f, S

\* A table that is not there measures nothing.
LEMMA TotalWithout ==
  ASSUME NEW ts, NEW n, n \notin DOMAIN ts, NEW k
  PROVE  Rest(k, ts, n) = Total(Readings(k, ts), DOMAIN ts)
<1>1. DOMAIN ts \ {n} = DOMAIN ts
  OBVIOUS
<1>. QED BY <1>1 DEF Rest

\* TableGuard::drop takes the old measurements out and puts the new ones in.
LEMMA ExchangeKeepsTotals ==
  ASSUME NEW ts, Countable(ts), NEW us, NEW n \in DOMAIN ts, NEW u, Sound(u), BytesExact(u),
         With(us, ts, n, u), NEW m, DOMAIN m = Measures, AreTotals(m, ts)
  PROVE  LET new == Plus(Minus(m, Reading(ts[n])), Reading(u))
         IN  Countable(us) /\ DOMAIN new = Measures /\ AreTotals(new, us)
<1> DEFINE new == Plus(Minus(m, Reading(ts[n])), Reading(u))
<1>1. Countable(us) /\ n \in DOMAIN us /\ us[n] = u
  BY WithIsCountable DEF With
<1>2. DOMAIN new = Measures
  BY DEF Plus, Minus
<1>3. ASSUME NEW k \in Measures PROVE new[k] = Total(Readings(k, us), DOMAIN us)
  <2> DEFINE a == Reading(ts[n])[k]
             b == Reading(u)[k]
             r == Rest(k, ts, n)
  <2>1. m[k] = a + r /\ a \in Nat /\ r \in Nat
    BY TotalWith DEF AreTotals
  <2>2. Total(Readings(k, us), DOMAIN us) = b + r /\ b \in Nat
    BY <1>1, TotalWith, WithIsCountable
  <2>3. new[k] = SatSub(m[k], a) + b
    BY DEF Plus, Minus
  <2> HIDE DEF a, b, r, new
  <2>4. SatSub(m[k], a) = r
    BY <2>1, SatSubExact
  <2>. QED BY <2>1, <2>2, <2>3, <2>4
<1> HIDE DEF new
<1>4. AreTotals(new, us)
  BY <1>3 DEF AreTotals
<1>. QED BY <1>1, <1>2, <1>4 DEF new

\* A new table is added to the measurements.
LEMMA AdditionKeepsTotals ==
  ASSUME NEW ts, Countable(ts), NEW us, NEW n, n \notin DOMAIN ts, NEW u, Sound(u), BytesExact(u),
         With(us, ts, n, u), NEW m, DOMAIN m = Measures, AreTotals(m, ts)
  PROVE  Countable(us) /\ DOMAIN Plus(m, Reading(u)) = Measures /\ AreTotals(Plus(m, Reading(u)), us)
<1> DEFINE new == Plus(m, Reading(u))
<1>1. Countable(us) /\ n \in DOMAIN us /\ us[n] = u
  BY WithIsCountable DEF With
<1>2. DOMAIN new = Measures
  BY DEF Plus
<1>3. ASSUME NEW k \in Measures PROVE new[k] = Total(Readings(k, us), DOMAIN us)
  <2> DEFINE b == Reading(u)[k]
             r == Rest(k, ts, n)
  <2>1. m[k] = r /\ r \in Nat
    BY TotalWithout, ReadingsAreCounts DEF AreTotals
  <2>2. Total(Readings(k, us), DOMAIN us) = b + r /\ b \in Nat
    BY <1>1, TotalWith, WithIsCountable
  <2>3. new[k] = m[k] + b
    BY DEF Plus
  <2> HIDE DEF b, r, new
  <2>. QED BY <2>1, <2>2, <2>3
<1> HIDE DEF new
<1>4. AreTotals(new, us)
  BY <1>3 DEF AreTotals
<1>. QED BY <1>1, <1>2, <1>4 DEF new

\* A dropped table is taken out of the measurements.
LEMMA RemovalKeepsTotals ==
  ASSUME NEW ts, Countable(ts), NEW us, NEW n \in DOMAIN ts, DOMAIN us = DOMAIN ts \ {n},
         With(ts, us, n, ts[n]), NEW m, DOMAIN m = Measures, AreTotals(m, ts)
  PROVE  LET new == Minus(m, Reading(ts[n]))
         IN  Countable(us) /\ DOMAIN new = Measures /\ AreTotals(new, us)
<1> DEFINE new == Minus(m, Reading(ts[n]))
<1>1. Countable(us)
  <2>1. DOMAIN us \in SUBSET DOMAIN ts
    OBVIOUS
  <2>2. IsFiniteSet(DOMAIN us)
    BY <2>1, FS_Subset DEF Countable
  <2>3. \A k \in DOMAIN us : us[k] = ts[k] /\ k \in DOMAIN ts
    BY DEF With
  <2>. QED BY <2>2, <2>3 DEF Countable
<1>2. DOMAIN new = Measures
  BY DEF Minus
<1>3. ASSUME NEW k \in Measures PROVE new[k] = Total(Readings(k, us), DOMAIN us)
  <2> DEFINE a == Reading(ts[n])[k]
             r == Rest(k, ts, n)
  <2>1. m[k] = a + r /\ a \in Nat /\ r \in Nat
    BY TotalWith DEF AreTotals
  <2>2. Sound(ts[n]) /\ BytesExact(ts[n]) /\ n \notin DOMAIN us
    BY DEF Countable
  <2>3. r = Rest(k, us, n)
    BY <1>1, <2>2, WithIsCountable
  <2>4. r = Total(Readings(k, us), DOMAIN us)
    BY <2>2, <2>3, TotalWithout
  <2>5. new[k] = SatSub(m[k], a)
    BY DEF Minus
  <2> HIDE DEF a, r, new
  <2>6. SatSub(m[k], a) = r
    BY <2>1, SatSubExact
  <2>. QED BY <2>4, <2>5, <2>6
<1> HIDE DEF new
<1>4. AreTotals(new, us)
  BY <1>3 DEF AreTotals
<1>. QED BY <1>1, <1>2, <1>4 DEF new

\* The invariants make the catalog countable.
LEMMA CatalogIsCountable ==
  ASSUME IInv, Measured
  PROVE  Countable(tables)
  BY DEF IInv, TablesSound, Measured, Countable

\* What the accounting of a catalog amounts to.
LEMMA CountableIsMeasured ==
  ASSUME Countable(tables'), DOMAIN measure' = Measures, AreTotals(measure', tables')
  PROVE  Measured'
  BY DEF Countable, Measured, AreTotals, Readings, Reading

\* Every statement on one table of the catalog (table_mut).
LEMMA MutateMeasured ==
  ASSUME IInv, Measured, NEW n \in DOMAIN tables, NEW u, Sound(u), BytesExact(u), Mutate(n, u)
  PROVE  Measured'
<1>1. With(tables', tables, n, u)
  BY DEF Mutate, Put, With
<1>2. measure' = Plus(Minus(measure, Reading(tables[n])), Reading(u))
  BY DEF Mutate
<1>3. Countable(tables) /\ DOMAIN measure = Measures /\ AreTotals(measure, tables)
  BY CatalogIsCountable DEF Measured
<1>4. Countable(tables') /\ DOMAIN measure' = Measures /\ AreTotals(measure', tables')
  BY <1>1, <1>2, <1>3, ExchangeKeepsTotals
<1>. QED BY <1>4, CountableIsMeasured

\* Every new table (register_table).
LEMMA RegisterMeasured ==
  ASSUME IInv, Measured, NEW n, NEW u, Sound(u), BytesExact(u), Register(n, u)
  PROVE  Measured'
<1>1. With(tables', tables, n, u) /\ n \notin DOMAIN tables
  BY DEF Register, Put, With
<1>2. measure' = Plus(measure, Reading(u))
  BY DEF Register
<1>3. Countable(tables) /\ DOMAIN measure = Measures /\ AreTotals(measure, tables)
  BY CatalogIsCountable DEF Measured
<1>4. Countable(tables') /\ DOMAIN measure' = Measures /\ AreTotals(measure', tables')
  BY <1>1, <1>2, <1>3, AdditionKeepsTotals
<1>. QED BY <1>4, CountableIsMeasured

\* What the two invariants say of one table.
LEMMA TableIsExact ==
  ASSUME IInv, Measured, NEW n \in DOMAIN tables
  PROVE  /\ Sound(tables[n]) /\ BytesExact(tables[n]) /\ Shaped(tables[n])
         /\ tables[n].schema \in Seq(ColumnDefs) /\ tables[n].row_count \in Nat
         /\ DOMAIN tables[n].schema = 1 .. Len(tables[n].schema)
  BY TableIsSound DEF Measured

\* CREATE TABLE adds an empty table.
LEMMA CreateTableMeasured ==
  ASSUME IInv, Measured, NEW n, CreateTable(n)
  PROVE  Measured'
<1>1. PICK k \in 1 .. MaxColumns : \E schema \in [1 .. k -> Fields] :
        ValidSchema(schema) /\ Register(n, EmptyTable(schema))
  BY DEF CreateTable
<1>2. PICK schema \in [1 .. k -> Fields] : ValidSchema(schema) /\ Register(n, EmptyTable(schema))
  BY <1>1
<1>3. schema \in Seq(ColumnDefs)
  <2>1. k \in Nat
    OBVIOUS
  <2>2. schema \in Seq(Fields)
    BY <1>2, <2>1, FunctionIsSeq
  <2>3. Fields \subseteq ColumnDefs
    BY DEF Fields, ColumnDefs, DataTypes
  <2>. QED BY <2>2, <2>3, SeqMonotonic
<1>4. Sound(EmptyTable(schema))
  BY <1>2, <1>3, EmptyTableIsSound
<1>5. BytesExact(EmptyTable(schema))
  BY NewTableIsExact DEF EmptyTable
<1>. QED BY <1>2, <1>4, <1>5, RegisterMeasured

\* create_int64_range_partitioned_table adds a table with its partitions.
LEMMA CreatePartitionedMeasured ==
  ASSUME IInv, Measured, NEW n, CreatePartitioned(n), IInv'
  PROVE  Measured'
<1>1. PICK k, name, ps : Register(n, PartitionedTable(name, ps))
  BY DEF CreatePartitioned
<1> DEFINE u == PartitionedTable(name, ps)
<1>2. Register(n, u) /\ BytesExact(u)
  BY <1>1, PartitionedIsExact
<1> HIDE DEF u
<1>3. n \in DOMAIN tables' /\ tables'[n] = u
  BY <1>2 DEF Register, Put
<1>4. Sound(u)
  BY <1>3 DEF IInv, TablesSound
<1>. QED BY <1>2, <1>4, RegisterMeasured

\* DROP TABLE takes the table out of the totals.
LEMMA DropTableMeasured ==
  ASSUME IInv, Measured, NEW n, DropTable(n)
  PROVE  Measured'
<1>1. /\ n \in DOMAIN tables /\ DOMAIN tables' = DOMAIN tables \ {n}
      /\ With(tables, tables', n, tables[n])
      /\ measure' = Minus(measure, Reading(tables[n]))
  BY DEF DropTable, With
<1>2. Countable(tables) /\ DOMAIN measure = Measures /\ AreTotals(measure, tables)
  BY CatalogIsCountable DEF Measured
<1>3. Countable(tables') /\ DOMAIN measure' = Measures /\ AreTotals(measure', tables')
  BY <1>1, <1>2, RemovalKeepsTotals
<1>. QED BY <1>3, CountableIsMeasured

\* RENAME TABLE measures the same tables under other names.
LEMMA RenameTableMeasured ==
  ASSUME IInv, Measured, NEW n, NEW m, RenameTable(n, m)
  PROVE  Measured'
<1> DEFINE A == DOMAIN tables
           h == [k \in A |-> IF k = n THEN m ELSE k]
<1>1. /\ n \in A /\ m \notin A /\ measure' = measure
      /\ DOMAIN tables' = (A \ {n}) \cup {m}
      /\ \A k \in A : tables'[h[k]] = tables[k] /\ h[k] \in DOMAIN tables'
  BY DEF RenameTable
<1>2. Renamed(h, A) = DOMAIN tables'
  <2>1. ASSUME NEW x \in DOMAIN tables' PROVE x \in {h[k] : k \in A}
    <3>1. CASE x = m
      <4>1. h[n] = m
        BY <1>1
      <4>. QED BY <1>1, <3>1, <4>1
    <3>2. CASE x # m
      <4>1. x \in A /\ h[x] = x
        BY <1>1, <3>2
      <4>. QED BY <4>1
    <3>. QED BY <3>1, <3>2
  <2> HIDE DEF h
  <2>. QED BY <1>1, <2>1 DEF Renamed
<1>3. \A j, k \in A : h[j] = h[k] => j = k
  BY <1>1
<1>4. Countable(tables) /\ DOMAIN measure = Measures /\ AreTotals(measure, tables)
  BY CatalogIsCountable DEF Measured
<1>5. Countable(tables')
  <2>1. IsFiniteSet(DOMAIN tables')
    <3>1. IsFiniteSet(A \ {n})
      BY <1>4, FS_RemoveElement DEF Countable
    <3>. QED BY <1>1, <3>1, FS_AddElement
  <2> HIDE DEF h
  <2>2. ASSUME NEW x \in DOMAIN tables' PROVE Sound(tables'[x]) /\ BytesExact(tables'[x])
    <3>1. PICK k \in A : x = h[k]
      BY <1>2 DEF Renamed
    <3>. QED BY <1>1, <1>4, <3>1 DEF Countable
  <2>. QED BY <2>1, <2>2 DEF Countable
<1>6. ASSUME NEW k \in Measures PROVE measure'[k] = Total(Readings(k, tables'), DOMAIN tables')
  <2> DEFINE f == Readings(k, tables')
             g == Readings(k, tables)
  <2>1. \A x \in A : f[h[x]] = g[x]
    <3> HIDE DEF h
    <3>. QED BY <1>1 DEF Readings
  <2>2. Counts(g, A) /\ measure'[k] = Total(g, A)
    BY <1>1, <1>4, ReadingsAreCounts DEF AreTotals
  <2> HIDE DEF f, g, h, A
  <2>3. Total(f, Renamed(h, A)) = Total(g, A)
    BY <1>3, <2>1, <2>2, TotalRenamed
  <2>. QED BY <1>2, <2>2, <2>3 DEF f
<1>7. AreTotals(measure', tables') /\ DOMAIN measure' = Measures
  BY <1>1, <1>4, <1>6 DEF AreTotals
<1>. QED BY <1>5, <1>7, CountableIsMeasured

\* ALTER TABLE ADD COLUMN.
LEMMA AddColumnMeasured ==
  ASSUME IInv, Measured, NEW n, AddColumnTo(n)
  PROVE  Measured'
<1>1. PICK f \in Fields : /\ CanAddColumn(tables[n], f.name)
                          /\ Mutate(n, AddColumn(tables[n], f.name, f.type))
  BY DEF AddColumnTo
<1>2. f.name \in ColumnNames /\ f.type \in DataTypes
  BY DEF Fields, DataTypes
<1>3. n \in DOMAIN tables
  BY DEF AddColumnTo
<1>4. Sound(AddColumn(tables[n], f.name, f.type)) /\ BytesExact(AddColumn(tables[n], f.name, f.type))
  BY <1>1, <1>2, <1>3, TableIsExact, AddColumnIsSound, AddColumnIsExact DEF Follows
<1>. QED BY <1>1, <1>3, <1>4, MutateMeasured

\* ALTER TABLE DROP COLUMN.
LEMMA DropColumnMeasured ==
  ASSUME IInv, Measured, NEW n, DropColumnOf(n)
  PROVE  Measured'
<1>1. PICK c \in DOMAIN tables[n].schema : Mutate(n, DropColumn(tables[n], c))
  BY DEF DropColumnOf
<1>2. n \in DOMAIN tables /\ CanDropColumn(tables[n])
  BY DEF DropColumnOf
<1>3. Sound(DropColumn(tables[n], c)) /\ BytesExact(DropColumn(tables[n], c))
  BY <1>2, TableIsExact, DropColumnIsSound, DropColumnIsExact DEF Follows
<1>. QED BY <1>1, <1>2, <1>3, MutateMeasured

\* A renamed column goes past the measuring guard, and changes nothing measured.
LEMMA RenameColumnMeasured ==
  ASSUME IInv, Measured, NEW n, RenameColumnOf(n)
  PROVE  Measured'
<1>1. PICK c \in DOMAIN tables[n].schema, name \in ColumnNames :
        CanRenameColumn(tables[n], c, name) /\ tables' = Put(n, RenameColumn(tables[n], c, name))
  BY DEF RenameColumnOf
<1>2. n \in DOMAIN tables /\ measure' = measure
  BY DEF RenameColumnOf
<1> DEFINE u == RenameColumn(tables[n], c, name)
<1>3. Sound(u) /\ BytesExact(u) /\ Reading(u) = Reading(tables[n])
  BY <1>1, <1>2, TableIsExact, RenameColumnIsSound, RenameColumnIsExact DEF Follows
<1>4. With(tables', tables, n, u)
  BY <1>1, <1>2 DEF Put, With
<1> HIDE DEF u
<1>5. Countable(tables) /\ DOMAIN measure = Measures /\ AreTotals(measure, tables)
  BY CatalogIsCountable DEF Measured
<1>6. Countable(tables')
  BY <1>3, <1>4, <1>5, WithIsCountable
<1>7. DOMAIN tables' = DOMAIN tables /\ \A k \in DOMAIN tables : Reading(tables'[k]) = Reading(tables[k])
  BY <1>2, <1>3, <1>4 DEF With
<1>8. ASSUME NEW k \in Measures PROVE measure'[k] = Total(Readings(k, tables'), DOMAIN tables')
  <2> DEFINE f == Readings(k, tables')
             g == Readings(k, tables)
             S == DOMAIN tables
  <2>1. \A x \in S : f[x] = g[x]
    BY <1>7 DEF Readings
  <2>2. measure'[k] = Total(g, S) /\ DOMAIN tables' = S
    BY <1>2, <1>5, <1>7 DEF AreTotals
  <2> HIDE DEF f, g, S
  <2>3. Total(f, S) = Total(g, S)
    BY <2>1, TotalReadsTerms
  <2>. QED BY <2>2, <2>3 DEF f
<1>9. AreTotals(measure', tables')
  BY <1>8 DEF AreTotals
<1>. QED BY <1>2, <1>5, <1>6, <1>9, CountableIsMeasured

\* INSERT, the nullable append and the ingest calls.
LEMMA InsertMeasured ==
  ASSUME IInv, Measured, NEW n, Insert(n)
  PROVE  Measured'
<1>1. PICK rows \in InsertRows(tables[n]) : /\ RowCapacity(tables[n], Len(rows))
                                            /\ Mutate(n, AppendRows(tables[n], rows))
  BY DEF Insert
<1>2. n \in DOMAIN tables
  BY DEF Insert
<1>3. AreRows(tables[n].schema, rows)
  BY <1>2, TableIsSound, InsertRowsAreRows
<1>4. Sound(AppendRows(tables[n], rows)) /\ BytesExact(AppendRows(tables[n], rows))
  BY <1>1, <1>2, <1>3, TableIsExact, AppendIsSound, AppendIsExact DEF Follows
<1>. QED BY <1>1, <1>2, <1>4, MutateMeasured

\* Two INSERTs of one batch into one table, measured once.
LEMMA InsertBatchMeasured ==
  ASSUME IInv, Measured, NEW n, InsertBatch(n), IInv'
  PROVE  Measured'
<1> DEFINE t == tables[n]
<1>1. PICK first \in InsertRows(t), second \in InsertRows(t) :
        /\ BatchCapacity(n, first, second)
        /\ Mutate(n, AppendRows(AppendRows(t, first), second))
  BY DEF InsertBatch
<1>2. n \in DOMAIN tables /\ Sound(t) /\ Shaped(t) /\ t.schema \in Seq(ColumnDefs) /\ BytesExact(t)
  BY TableIsExact DEF InsertBatch
<1> DEFINE u == AppendRows(t, first)
           v == AppendRows(u, second)
<1>3. AreRows(t.schema, first) /\ AreRows(t.schema, second)
  BY <1>2, InsertRowsAreRows
<1>4. RowCapacity(t, Len(first))
  BY <1>1 DEF BatchCapacity
<1>5. Sound(u) /\ u.schema = t.schema /\ BytesExact(u)
  BY <1>2, <1>3, <1>4, AppendIsSound, AppendIsExact DEF Follows
<1> HIDE DEF u
<1>6. BytesExact(v)
  BY <1>3, <1>5, AppendIsExact DEF Sound
<1>7. Mutate(n, v)
  BY <1>1 DEF u
<1> HIDE DEF v
<1>8. Sound(v)
  <2>1. n \in DOMAIN tables' /\ tables'[n] = v
    BY <1>7 DEF Mutate, Put
  <2>. QED BY <2>1 DEF IInv, TablesSound
<1>. QED BY <1>2, <1>6, <1>7, <1>8, MutateMeasured

\* Two INSERTs of one batch into two tables, measured one after the other.
LEMMA InsertBatchAcrossMeasured ==
  ASSUME IInv, Measured, NEW n, NEW m, InsertBatchAcross(n, m)
  PROVE  Measured'
<1>1. PICK first \in InsertRows(tables[n]), second \in InsertRows(tables[m]) :
        /\ RowCapacity(tables[n], Len(first)) /\ RowCapacity(tables[m], Len(second))
        /\ tables' = [tables EXCEPT ![n] = AppendRows(tables[n], first),
                                    ![m] = AppendRows(tables[m], second)]
        /\ measure' = Plus(Minus(Plus(Minus(measure, Reading(tables[n])), Reading(AppendRows(tables[n], first))),
                                 Reading(tables[m])), Reading(AppendRows(tables[m], second)))
  BY DEF InsertBatchAcross
<1>2. n # m /\ n \in DOMAIN tables /\ m \in DOMAIN tables
  BY DEF InsertBatchAcross
<1> DEFINE t == AppendRows(tables[n], first)
           u == AppendRows(tables[m], second)
<1>3. AreRows(tables[n].schema, first) /\ AreRows(tables[m].schema, second)
  BY <1>2, TableIsSound, InsertRowsAreRows
<1>4. Sound(t) /\ BytesExact(t)
  BY <1>1, <1>2, <1>3, TableIsExact, AppendIsSound, AppendIsExact DEF Follows
<1>5. Sound(u) /\ BytesExact(u)
  BY <1>1, <1>2, <1>3, TableIsExact, AppendIsSound, AppendIsExact DEF Follows
<1>6. /\ tables' = [tables EXCEPT ![n] = t, ![m] = u]
      /\ measure' = Plus(Minus(Plus(Minus(measure, Reading(tables[n])), Reading(t)), Reading(tables[m])),
                         Reading(u))
  BY <1>1
<1> HIDE DEF t, u
<1> DEFINE mid == [tables EXCEPT ![n] = t]
           sum == Plus(Minus(measure, Reading(tables[n])), Reading(t))
<1>7. /\ With(mid, tables, n, t) /\ With(tables', mid, m, u)
      /\ m \in DOMAIN mid /\ mid[m] = tables[m]
  BY <1>2, <1>6 DEF With
<1>8. measure' = Plus(Minus(sum, Reading(mid[m])), Reading(u))
  BY <1>6, <1>7
<1>9. Countable(tables) /\ DOMAIN measure = Measures /\ AreTotals(measure, tables)
  BY CatalogIsCountable DEF Measured
<1> HIDE DEF mid
<1>10. Countable(mid) /\ DOMAIN sum = Measures /\ AreTotals(sum, mid)
  BY <1>2, <1>4, <1>7, <1>9, ExchangeKeepsTotals
<1> HIDE DEF sum
<1>11. Countable(tables') /\ DOMAIN measure' = Measures /\ AreTotals(measure', tables')
  BY <1>5, <1>7, <1>8, <1>10, ExchangeKeepsTotals
<1>. QED BY <1>11, CountableIsMeasured

\* TRUNCATE.
LEMMA TruncateMeasured ==
  ASSUME IInv, Measured, NEW n, Truncate(n)
  PROVE  Measured'
<1>1. n \in DOMAIN tables /\ Mutate(n, TruncateTable(tables[n]))
  BY DEF Truncate
<1>2. Sound(TruncateTable(tables[n])) /\ BytesExact(TruncateTable(tables[n]))
  BY <1>1, TableIsExact, TruncateIsSound, TruncateIsExact DEF Follows
<1>. QED BY <1>1, <1>2, MutateMeasured

\* DELETE.
LEMMA DeleteMeasured ==
  ASSUME IInv, Measured, NEW n, Delete(n)
  PROVE  Measured'
<1>1. PICK rows \in SUBSET (1 .. tables[n].row_count) : Mutate(n, DeleteRows(tables[n], rows))
  BY DEF Delete
<1>2. n \in DOMAIN tables
  BY DEF Delete
<1>3. Sound(DeleteRows(tables[n], rows)) /\ BytesExact(DeleteRows(tables[n], rows))
  BY <1>2, TableIsExact, DeleteIsSound, DeleteIsExact DEF Follows
<1>. QED BY <1>1, <1>2, <1>3, MutateMeasured

\* A replacement, which only a String column charges.
LEMMA ReplaceInMeasured ==
  ASSUME IInv, Measured, NEW n \in DOMAIN tables, NEW column \in DOMAIN tables[n].schema, NEW new,
         DOMAIN new \subseteq 1 .. tables[n].row_count,
         \A r \in DOMAIN new : new[r] \in ValuesOf(tables[n].schema[column].type),
         ReplaceIn(n, column, new)
  PROVE  Measured'
<1> DEFINE t == tables[n]
           u == ReplaceValues(t, column, new)
<1>1. Sound(t) /\ BytesExact(t)
  BY TableIsExact
<1>2. Sound(u) /\ BytesExact(u)
  BY <1>1, ReplaceIsSound, ReplaceIsExact DEF Follows
<1>3. Mutate(n, u)
  BY DEF ReplaceIn
<1> HIDE DEF u
<1>. QED BY <1>2, <1>3, MutateMeasured

\* ALTER TABLE UPDATE.
LEMMA UpdateMeasured ==
  ASSUME IInv, Measured, NEW n, Update(n)
  PROVE  Measured'
<1> DEFINE t == tables[n]
           Hits(d, w) == {x \in 1 .. t.row_count : t.columns[d][x] = w}
<1>1. PICK c \in DOMAIN t.schema, d \in DOMAIN t.schema :
        \E v \in ValuesOf(t.schema[c].type), w \in ValuesOf(t.schema[d].type) \ {Null} :
          ReplaceIn(n, c, [r \in Hits(d, w) |-> v])
  BY DEF Update
<1>2. PICK v \in ValuesOf(t.schema[c].type), w \in ValuesOf(t.schema[d].type) \ {Null} :
        ReplaceIn(n, c, [r \in Hits(d, w) |-> v])
  BY <1>1
<1>3. n \in DOMAIN tables
  BY DEF Update
<1> DEFINE new == [r \in Hits(d, w) |-> v]
<1>4. DOMAIN new \subseteq 1 .. t.row_count /\ \A r \in DOMAIN new : new[r] \in ValuesOf(t.schema[c].type)
  OBVIOUS
<1>5. ReplaceIn(n, c, new)
  BY <1>2
<1> HIDE DEF new
<1>. QED BY <1>3, <1>4, <1>5, ReplaceInMeasured

\* replace_nullable_int64_values.
LEMMA ReplaceNullableMeasured ==
  ASSUME IInv, Measured, NEW n, ReplaceNullable(n)
  PROVE  Measured'
<1>1. PICK rows \in SUBSET (1 .. tables[n].row_count) :
        \E new \in [rows -> ValuesOf("NullableInt64")] : ReplaceIn(n, 1, new)
  BY DEF ReplaceNullable
<1>2. PICK new \in [rows -> ValuesOf("NullableInt64")] : ReplaceIn(n, 1, new)
  BY <1>1
<1>3. n \in DOMAIN tables /\ Len(tables[n].schema) = 1 /\ tables[n].schema[1].type = "NullableInt64"
  BY DEF ReplaceNullable
<1>4. 1 \in DOMAIN tables[n].schema
  BY <1>3, TableIsSound
<1>5. /\ DOMAIN new \subseteq 1 .. tables[n].row_count
      /\ \A r \in DOMAIN new : new[r] \in ValuesOf(tables[n].schema[1].type)
  BY <1>2, <1>3
<1>. QED BY <1>2, <1>3, <1>4, <1>5, ReplaceInMeasured

\* CREATE INDEX.
LEMMA CreateIndexMeasured ==
  ASSUME IInv, Measured, NEW n, CreateIndex(n)
  PROVE  Measured'
<1>1. PICK c \in DOMAIN tables[n].schema, limits \in IndexLimits :
        /\ IsInt64(tables[n].schema[c].type) /\ BuildIndex(tables[n], c, limits).some
        /\ Mutate(n, [tables[n] EXCEPT !.index = BuildIndex(tables[n], c, limits)])
  BY DEF CreateIndex
<1>2. n \in DOMAIN tables
  BY DEF CreateIndex
<1> DEFINE u == [tables[n] EXCEPT !.index = BuildIndex(tables[n], c, limits)]
<1>3. Sound(u) /\ BytesExact(u)
  BY <1>1, <1>2, TableIsExact, CreateIndexIsSound, IndexKeepsBytes
<1>4. Mutate(n, u)
  BY <1>1
<1> HIDE DEF u
<1>. QED BY <1>2, <1>3, <1>4, MutateMeasured

\* DROP INDEX.
LEMMA DropIndexMeasured ==
  ASSUME IInv, Measured, NEW n, DropIndex(n)
  PROVE  Measured'
<1> DEFINE u == [tables[n] EXCEPT !.index = NoIndex]
<1>1. n \in DOMAIN tables /\ Mutate(n, u)
  BY DEF DropIndex
<1>2. Sound(u) /\ BytesExact(u)
  BY <1>1, TableIsExact, DropIndexIsSound, IndexKeepsBytes DEF Follows
<1> HIDE DEF u
<1>. QED BY <1>1, <1>2, MutateMeasured

\* restore_int64_table_from_file.
LEMMA RestoreMeasured ==
  ASSUME IInv, Measured, NEW n, Restore(n)
  PROVE  Measured'
<1>1. PICK t \in Decoded : Register(n, t)
  BY DEF Restore
<1>. QED BY <1>1, DecodedIsSound, DecodedIsExact, RegisterMeasured

\* replace_int64_table_from_file.
LEMMA ReplaceRestoredMeasured ==
  ASSUME IInv, Measured, NEW n, ReplaceRestored(n)
  PROVE  Measured'
<1>1. PICK t \in Decoded : Mutate(n, t)
  BY DEF ReplaceRestored
<1>2. n \in DOMAIN tables
  BY DEF ReplaceRestored
<1>. QED BY <1>1, <1>2, DecodedIsSound, DecodedIsExact, MutateMeasured

\* Measurements are added in any grouping.
LEMMA PlusGrouped ==
  ASSUME NEW m, NEW a, NEW b, DOMAIN m = Measures, DOMAIN a = Measures,
         \A k \in Measures : m[k] \in Nat /\ a[k] \in Nat /\ b[k] \in Nat
  PROVE  Plus(m, Plus(Plus(NoReading, a), b)) = Plus(Plus(m, a), b)
<1>1. DOMAIN NoReading = Measures
  BY DEF NoReading, Measures
<1>2. \A k \in Measures : NoReading[k] = 0
  BY DEF NoReading, Measures
<1> DEFINE x == Plus(Plus(NoReading, a), b)
<1>3. \A k \in Measures : x[k] = a[k] + b[k]
  <2>1. \A k \in Measures : x[k] = (0 + a[k]) + b[k]
    BY <1>1, <1>2 DEF Plus
  <2> HIDE DEF x
  <2>. QED BY <2>1
<1> HIDE DEF x
<1>4. Plus(m, x) = [k \in Measures |-> m[k] + x[k]]
  BY DEF Plus
<1>5. Plus(Plus(m, a), b) = [k \in Measures |-> (m[k] + a[k]) + b[k]]
  BY DEF Plus
<1>6. \A k \in Measures : m[k] + x[k] = (m[k] + a[k]) + b[k]
  BY <1>3
<1>. QED BY <1>4, <1>5, <1>6 DEF x

\* restore_int64_tables_from_files adds the sum of what it publishes.
LEMMA RestoreSetMeasured ==
  ASSUME IInv, Measured, NEW n, NEW m, RestoreSet(n, m)
  PROVE  Measured'
<1>1. PICK t \in Decoded, u \in Decoded :
        /\ tables' = [k \in DOMAIN tables \cup {n, m} |->
                        IF k = n THEN t ELSE IF k = m THEN u ELSE tables[k]]
        /\ measure' = Plus(measure, Plus(Plus(NoReading, Reading(t)), Reading(u)))
  BY DEF RestoreSet
<1>2. n # m /\ n \notin DOMAIN tables /\ m \notin DOMAIN tables
  BY DEF RestoreSet
<1>3. Sound(t) /\ BytesExact(t) /\ Sound(u) /\ BytesExact(u)
  BY DecodedIsSound, DecodedIsExact
<1> DEFINE mid == Put(n, t)
           sum == Plus(measure, Reading(t))
<1>4. With(mid, tables, n, t) /\ With(tables', mid, m, u) /\ m \notin DOMAIN mid
  BY <1>1, <1>2 DEF Put, With
<1>5. Countable(tables) /\ DOMAIN measure = Measures /\ AreTotals(measure, tables)
  BY CatalogIsCountable DEF Measured
<1>6. measure' = Plus(sum, Reading(u))
  <2>1. \A k \in Measures : measure[k] \in Nat
    BY <1>5, ReadingsAreCounts DEF AreTotals
  <2>2. /\ DOMAIN Reading(t) = Measures /\ \A k \in Measures : Reading(t)[k] \in Nat
        /\ \A k \in Measures : Reading(u)[k] \in Nat
    BY <1>3, ReadingIsCount
  <2>. QED BY <1>1, <1>5, <2>1, <2>2, PlusGrouped
<1> HIDE DEF mid, sum
<1>7. Countable(mid) /\ DOMAIN sum = Measures /\ AreTotals(sum, mid)
  BY <1>2, <1>3, <1>4, <1>5, AdditionKeepsTotals DEF sum
<1>8. Countable(tables') /\ DOMAIN measure' = Measures /\ AreTotals(measure', tables')
  BY <1>3, <1>4, <1>6, <1>7, AdditionKeepsTotals
<1>. QED BY <1>8, CountableIsMeasured

\* Switching the log on or off measures nothing.
LEMMA SameTablesMeasured ==
  ASSUME Measured, UNCHANGED <<tables, measure>>
  PROVE  Measured'
  BY DEF Measured, AreTotals, Readings, Reading

\* An empty database measures nothing.
LEMMA InitMeasured ==
  ASSUME Init
  PROVE  Measured
<1>1. DOMAIN tables = {} /\ measure = NoReading
  BY DEF Init
<1>2. DOMAIN measure = Measures /\ \A k \in Measures : measure[k] = 0
  BY <1>1 DEF NoReading, Measures
<1>3. AreTotals(measure, tables)
  BY <1>1, <1>2, TotalOfNone DEF AreTotals
<1>. QED BY <1>1, <1>2, <1>3, FS_EmptySet DEF Measured

\* Every accepted statement and library call keeps the measurements exact.
LEMMA NextMeasured ==
  ASSUME IInv, Measured, [Next]_dbVars, IInv'
  PROVE  Measured'
<1>1. CASE UNCHANGED dbVars
  BY <1>1, SameTablesMeasured DEF dbVars
<1>2. CASE DisableWal
  BY <1>2, SameTablesMeasured DEF DisableWal
<1>3. ASSUME NEW S \in SUBSET Names, EnableWal(S)
      PROVE  Measured'
  BY <1>3, SameTablesMeasured DEF EnableWal
<1>4. ASSUME NEW n \in Names,
             \/ CreateTable(n) \/ CreatePartitioned(n) \/ DropTable(n)
             \/ AddColumnTo(n) \/ DropColumnOf(n) \/ RenameColumnOf(n)
      PROVE  Measured'
  BY <1>4, CreateTableMeasured, CreatePartitionedMeasured, DropTableMeasured, AddColumnMeasured,
     DropColumnMeasured, RenameColumnMeasured
<1>5. ASSUME NEW n \in Names,
             \/ Insert(n) \/ InsertBatch(n) \/ Truncate(n) \/ Delete(n)
             \/ Update(n) \/ ReplaceNullable(n)
      PROVE  Measured'
  BY <1>5, InsertMeasured, InsertBatchMeasured, TruncateMeasured, DeleteMeasured, UpdateMeasured,
     ReplaceNullableMeasured
<1>6. ASSUME NEW n \in Names,
             CreateIndex(n) \/ DropIndex(n) \/ Restore(n) \/ ReplaceRestored(n)
      PROVE  Measured'
  BY <1>6, CreateIndexMeasured, DropIndexMeasured, RestoreMeasured, ReplaceRestoredMeasured
<1>7. ASSUME NEW n \in Names, NEW m \in Names,
             RenameTable(n, m) \/ InsertBatchAcross(n, m) \/ RestoreSet(n, m)
      PROVE  Measured'
  BY <1>7, RenameTableMeasured, InsertBatchAcrossMeasured, RestoreSetMeasured
<1>. QED BY <1>1, <1>2, <1>3, <1>4, <1>5, <1>6, <1>7 DEF Next

\* Distinct names count as many things as there are names.
LEMMA RenamedCount ==
  ASSUME NEW A, IsFiniteSet(A), NEW h, \A x, y \in A : h[x] = h[y] => x = y
  PROVE  /\ IsFiniteSet(Renamed(h, A))
         /\ Cardinality(Renamed(h, A)) = Cardinality(A)
<1> DEFINE f == [x \in A |-> h[x]]
           T == Renamed(h, A)
<1>1. f \in Bijection(A, T)
  BY DEF Bijection, Injection, Surjection, IsInjective, Renamed
<1>2. ExistsBijection(A, T)
  BY <1>1 DEF ExistsBijection
<1>. QED BY <1>2, FS_Bijection

\* What system.tables adds up over its rows is a sum.
LEMMA RowsAreTotal ==
  ASSUME NEW S
  PROVE  MapThenSumSet(LAMBDA row : row.total_rows, S) = Total([row \in S |-> row.total_rows], S)
<1> DEFINE f == [row \in S |-> row.total_rows]
           Step(it) == [s \in SUBSET S |-> IF s = {} THEN 0
                          ELSE LET x == CHOOSE x \in s : TRUE IN x.total_rows + it[s \ {x}]]
           P(it) == it = Step(it)
<1>1. MapThenSumSet(LAMBDA row : row.total_rows, S) = (CHOOSE it : P(it))[S]
  BY DEF MapThenSumSet, MapThenFoldSet
<1>2. Total(f, S) = (CHOOSE it : IsTotal(it, f, S))[S]
  BY DEF Total, MapThenSumSet, MapThenFoldSet, IsTotal, Unfold
<1>3. ASSUME NEW s \in SUBSET S, s # {}
      PROVE  f[CHOOSE x \in s : TRUE] = (CHOOSE x \in s : TRUE).total_rows
  <2>1. (CHOOSE x \in s : TRUE) \in S
    BY <1>3
  <2>. QED BY <2>1
<1>4. ASSUME NEW it PROVE P(it) <=> IsTotal(it, f, S)
  <2> HIDE DEF f
  <2>1. Step(it) = Unfold(f, S, it)
    BY <1>3 DEF Unfold
  <2>. QED BY <2>1 DEF IsTotal
<1> HIDE DEF P, f
<1>5. (CHOOSE it : P(it)) = (CHOOSE it : IsTotal(it, f, S))
  BY <1>4
<1>. QED BY <1>1, <1>2, <1>5 DEF f

\* The recount of every value of the catalog is a sum.
LEMMA RecountIsTotal ==
  ASSUME NEW ts
  PROVE  MapThenSumSet(LAMBDA n : TotalBytes(ts[n].schema, ts[n].columns), DOMAIN ts)
           = Total([n \in DOMAIN ts |-> TotalBytes(ts[n].schema, ts[n].columns)], DOMAIN ts)
<1> DEFINE S == DOMAIN ts
           f == [n \in S |-> TotalBytes(ts[n].schema, ts[n].columns)]
           Step(it) == [s \in SUBSET S |-> IF s = {} THEN 0
                          ELSE LET x == CHOOSE x \in s : TRUE
                               IN  TotalBytes(ts[x].schema, ts[x].columns) + it[s \ {x}]]
           P(it) == it = Step(it)
<1>1. MapThenSumSet(LAMBDA n : TotalBytes(ts[n].schema, ts[n].columns), S) = (CHOOSE it : P(it))[S]
  BY DEF MapThenSumSet, MapThenFoldSet
<1>2. Total(f, S) = (CHOOSE it : IsTotal(it, f, S))[S]
  BY DEF Total, MapThenSumSet, MapThenFoldSet, IsTotal, Unfold
<1>3. ASSUME NEW s \in SUBSET S, s # {}
      PROVE  f[CHOOSE x \in s : TRUE]
               = TotalBytes(ts[CHOOSE x \in s : TRUE].schema, ts[CHOOSE x \in s : TRUE].columns)
  <2>1. (CHOOSE x \in s : TRUE) \in S
    BY <1>3
  <2>. QED BY <2>1
<1>4. ASSUME NEW it PROVE P(it) <=> IsTotal(it, f, S)
  <2> HIDE DEF f
  <2>1. Step(it) = Unfold(f, S, it)
    BY <1>3 DEF Unfold
  <2>. QED BY <2>1 DEF IsTotal
<1> HIDE DEF P, f
<1>5. (CHOOSE it : P(it)) = (CHOOSE it : IsTotal(it, f, S))
  BY <1>4
<1>. QED BY <1>1, <1>2, <1>5 DEF f

\* One row of system.tables per table.
LEMMA SystemTablesAreCounted ==
  ASSUME NEW ts, Countable(ts)
  PROVE  /\ Cardinality(SystemTables(ts)) = Cardinality(DOMAIN ts)
         /\ MapThenSumSet(LAMBDA row : row.total_rows, SystemTables(ts))
              = Total(Readings("rows", ts), DOMAIN ts)
<1> DEFINE A == DOMAIN ts
           h == [n \in A |-> [name |-> n, total_rows |-> ts[n].row_count]]
           f == [row \in SystemTables(ts) |-> row.total_rows]
           g == Readings("rows", ts)
<1>1. Renamed(h, A) = SystemTables(ts)
  BY DEF Renamed, SystemTables
<1>2. \A x, y \in A : h[x] = h[y] => x = y
  <2>1. \A x \in A : h[x].name = x
    OBVIOUS
  <2> HIDE DEF h
  <2>. QED BY <2>1
<1>3. \A x \in A : f[h[x]] = g[x]
  <2>1. ASSUME NEW x \in A PROVE f[h[x]] = g[x]
    <3>1. h[x] \in SystemTables(ts) /\ h[x].total_rows = ts[x].row_count
      BY DEF SystemTables
    <3>2. g[x] = ts[x].row_count
      BY DEF Readings, Reading
    <3> HIDE DEF h, g
    <3>. QED BY <3>1, <3>2
  <2>. QED BY <2>1
<1>4. Counts(g, A) /\ IsFiniteSet(A)
  BY ReadingsAreCounts DEF Measures, Countable
<1> HIDE DEF A, h, g
<1>5. Cardinality(Renamed(h, A)) = Cardinality(A)
  BY <1>2, <1>4, RenamedCount
<1>6. MapThenSumSet(LAMBDA row : row.total_rows, SystemTables(ts)) = Total(f, SystemTables(ts))
  BY RowsAreTotal
<1> HIDE DEF f
<1>7. Total(f, Renamed(h, A)) = Total(g, A)
  BY <1>2, <1>3, <1>4, TotalRenamed
<1>. QED BY <1>1, <1>5, <1>6, <1>7 DEF A, g

\* The rows of system.columns for one table.
ColumnRows(ts, n) ==
  {[table |-> n, name |-> Describe(ts[n])[c][1], type |-> Describe(ts[n])[c][2], position |-> c] :
     c \in DOMAIN ts[n].schema}

\* One row of system.columns per column of a table.
LEMMA ColumnRowsAreCounted ==
  ASSUME NEW ts, Countable(ts), NEW n \in DOMAIN ts
  PROVE  /\ IsFiniteSet(ColumnRows(ts, n))
         /\ Cardinality(ColumnRows(ts, n)) = Len(ts[n].schema)
<1> DEFINE L == Len(ts[n].schema)
           row(c) == [table |-> n, name |-> Describe(ts[n])[c][1], type |-> Describe(ts[n])[c][2],
                      position |-> c]
           h == [c \in 1 .. L |-> row(c)]
<1>1. DOMAIN ts[n].schema = 1 .. L /\ L \in Nat
  <2>1. ts[n].schema \in Seq(ColumnDefs)
    BY DEF Countable, Sound, Shaped, Typed
  <2>. QED BY <2>1, LenProperties
<1>2. Renamed(h, 1 .. L) = ColumnRows(ts, n)
  <2>1. \A c \in 1 .. L : h[c] = row(c)
    OBVIOUS
  <2>2. ColumnRows(ts, n) = {row(c) : c \in 1 .. L}
    BY <1>1 DEF ColumnRows
  <2> HIDE DEF h, row
  <2>. QED BY <2>1, <2>2 DEF Renamed
<1>3. \A c, d \in 1 .. L : h[c] = h[d] => c = d
  <2>1. \A c \in 1 .. L : h[c].position = c
    OBVIOUS
  <2> HIDE DEF h
  <2>. QED BY <2>1
<1>4. IsFiniteSet(1 .. L) /\ Cardinality(1 .. L) = L
  BY <1>1, FS_Interval
<1> HIDE DEF h, L
<1>5. IsFiniteSet(Renamed(h, 1 .. L)) /\ Cardinality(Renamed(h, 1 .. L)) = Cardinality(1 .. L)
  BY <1>3, <1>4, RenamedCount
<1>. QED BY <1>2, <1>4, <1>5 DEF L

\* system.columns has as many rows as the tables have columns.
LEMMA SystemColumnsAreCounted ==
  ASSUME NEW ts, Countable(ts)
  PROVE  Cardinality(SystemColumns(ts)) = Total(Readings("columns", ts), DOMAIN ts)
<1> DEFINE S == DOMAIN ts
           F == [n \in S |-> ColumnRows(ts, n)]
           k == Readings("columns", ts)
<1>1. SystemColumns(ts) = Gathered(F, S)
  <2>1. SystemColumns(ts) = UNION {ColumnRows(ts, n) : n \in S}
    BY DEF SystemColumns, ColumnRows
  <2>2. \A n \in S : F[n] = ColumnRows(ts, n)
    OBVIOUS
  <2> HIDE DEF F
  <2>3. {F[n] : n \in S} = {ColumnRows(ts, n) : n \in S}
    BY <2>2
  <2>. QED BY <2>1, <2>3 DEF Gathered
<1>2. \A n \in S : IsFiniteSet(F[n]) /\ k[n] = Cardinality(F[n])
  <2>1. ASSUME NEW n \in S PROVE IsFiniteSet(F[n]) /\ k[n] = Cardinality(F[n])
    <3>1. k[n] = Len(ts[n].schema) /\ F[n] = ColumnRows(ts, n)
      BY DEF Readings, Reading
    <3>. QED BY <3>1, ColumnRowsAreCounted
  <2>. QED BY <2>1
<1>3. \A m, n \in S : m # n => F[m] \cap F[n] = {}
  <2>1. ASSUME NEW n \in S, NEW row \in F[n] PROVE row.table = n
    BY DEF ColumnRows
  <2> HIDE DEF F
  <2>. QED BY <2>1
<1>4. IsFiniteSet(S)
  BY DEF Countable
<1> HIDE DEF S, F, k
<1>5. Cardinality(Gathered(F, S)) = Total(k, S)
  BY <1>2, <1>3, <1>4, UnionIsTotal
<1>. QED BY <1>1, <1>5 DEF S, k

\* The bytes kept are those a recount gives.
LEMMA RecountIsKept ==
  ASSUME NEW ts, Countable(ts)
  PROVE  MapThenSumSet(LAMBDA n : TotalBytes(ts[n].schema, ts[n].columns), DOMAIN ts)
           = Total(Readings("bytes", ts), DOMAIN ts)
<1> DEFINE f == [n \in DOMAIN ts |-> TotalBytes(ts[n].schema, ts[n].columns)]
           g == Readings("bytes", ts)
           S == DOMAIN ts
<1>1. \A n \in S : f[n] = g[n]
  BY DEF Readings, Reading, Countable, BytesExact
<1>2. MapThenSumSet(LAMBDA n : TotalBytes(ts[n].schema, ts[n].columns), DOMAIN ts) = Total(f, S)
  BY RecountIsTotal
<1> HIDE DEF f, g, S
<1>3. Total(f, S) = Total(g, S)
  BY <1>1, TotalReadsTerms
<1>. QED BY <1>2, <1>3 DEF g, S

\* What the metrics report is what a recount gives.
LEMMA MeasuredIsExact ==
  ASSUME IInv, Measured
  PROVE  MeasurementsExact
<1>1. Countable(tables) /\ AreTotals(measure, tables)
  BY CatalogIsCountable DEF Measured
<1>2. /\ measure.columns = Total(Readings("columns", tables), DOMAIN tables)
      /\ measure.rows = Total(Readings("rows", tables), DOMAIN tables)
      /\ measure.bytes = Total(Readings("bytes", tables), DOMAIN tables)
  BY <1>1 DEF AreTotals, Measures
<1>. QED BY <1>1, <1>2, SystemTablesAreCounted, SystemColumnsAreCounted, RecountIsKept
     DEF MeasurementsExact, SystemMetrics

\* Every table counts its retained bytes, and the totals beside the catalog are
\* those of its tables, through every statement, batch, restore and saturating
\* subtraction (DatabaseMeasurements, TableMeasurements and TableGuard::drop).
THEOREM DatabaseIsMeasured == Spec => []Measured
<1>1. Init => Measured
  BY InitMeasured
<1>2. IInv /\ Measured /\ IInv' /\ [Next]_dbVars => Measured'
  BY NextMeasured
<1>. QED BY <1>1, <1>2, DatabaseInvariance, PTL DEF Spec

\* What system.metrics reports by increments is what system.tables,
\* system.columns and a recount of every value of the catalog give.
THEOREM DatabaseMeasurementsAreExact == Spec => []MeasurementsExact
<1>1. IInv /\ Measured => MeasurementsExact
  BY MeasuredIsExact
<1>. QED BY <1>1, DatabaseInvariance, DatabaseIsMeasured, PTL

=============================================================================
