----------------------------- MODULE BatchDriver -----------------------------
(* run_batch_with_limit (src/src/batch/mod.rs): one bounded input of
   statements, executed in order, the result of every query written in the
   chosen format before the next statement runs. *)
EXTENDS TextFormats

CONSTANTS
    MaxInputBytes,    \* max_input_bytes
    OutputLimits,     \* what DEFAULT_MAX_TABLE_OUTPUT_BYTES and
                      \* DEFAULT_MAX_JSON_EACH_ROW_OUTPUT_BYTES may be
    MaxBatch          \* bound: statements

VARIABLES
    output_format,
    max_output_bytes,
    input,     \* [bytes, utf8, parses, statements]
    done,      \* statements executed, their results written
    output,    \* what the caller's writer has taken
    state      \* "reading", "running", or how the call ended

driverVars == <<output_format, max_output_bytes, input, done, output, state>>

OutputFormats == {"Table", "Csv", "Tsv", "Json", "JsonEachRow", "JsonCompactEachRow"}

Result(names, types, rows) ==
    [columns |-> [k \in DOMAIN names |-> [name |-> names[k], type |-> types[k]]], rows |-> rows]
Results == {
    Result(<< <<"a">> >>, <<"String">>, << << <<"nul", "wide">> >> >>),
    Result(<< <<"a">>, <<"wide">> >>, <<"Int64", "String">>,
           << <<SqlNull, <<Backslash>> >>, <<I64Min, <<LF, Quote>> >> >>),
    Result(<< <<"a">> >>, <<"Bool">>, <<>>)}

(* A statement is silent, fails, or is a query with a result. *)
Statements == [kind : {"silent", "fails"}] \cup [kind : {"query"}, result : Results]
Inputs == {[bytes |-> 1, utf8 |-> TRUE, parses |-> TRUE, statements |-> s] : s \in BoundedSeq(Statements, MaxBatch)}
          \cup [bytes : {1, MaxInputBytes + 1}, utf8 : BOOLEAN, parses : {FALSE}, statements : {<<>>}]

Init ==
    /\ output_format \in OutputFormats
    /\ max_output_bytes \in OutputLimits
    /\ input \in Inputs
    /\ done = 0
    /\ output = <<>>
    /\ state = "reading"

(* The whole input is read, then the whole batch parsed, before anything
   runs. *)
Read ==
    /\ state = "reading"
    /\ state' = CASE input.bytes > MaxInputBytes -> "InputLimitExceeded"
                  [] ~input.utf8 -> "InvalidUtf8"
                  [] ~input.parses -> "Sql"
                  [] OTHER -> "running"
    /\ UNCHANGED <<output_format, max_output_bytes, input, done, output>>

ReadFails ==
    /\ state = "reading"
    /\ state' = "Read"
    /\ UNCHANGED <<output_format, max_output_bytes, input, done, output>>

(* A blank line precedes every table but the first. *)
EmittedTable(n) == \E k \in 1 .. n : input.statements[k].kind = "query"
Rendering(k) ==
    LET result == input.statements[k].result
    IN  CASE output_format = "Table" ->
                 (IF EmittedTable(k - 1) THEN <<LF>> ELSE <<>>) \o TableText(result) \o <<LF>>
          [] output_format = "Csv" -> WriteCsv(result)
          [] output_format = "Tsv" -> WriteTsv(result)
          [] output_format = "Json" -> Append(WriteJson(result), LF)
          [] output_format = "JsonEachRow" -> JsonEachRowText(result)
          [] output_format = "JsonCompactEachRow" -> WriteJsonCompactEachRow(result)

(* write_table_with_affixes and write_json_each_row_with_limit compute the
   exact size first; the other writers have no bound of their own. *)
Refused(k) ==
    LET result == input.statements[k].result
    IN  \/ /\ output_format = "Table"
           /\ (IF EmittedTable(k - 1) THEN 1 ELSE 0) + TableBytes(result) + 1 > max_output_bytes
        \/ output_format = "JsonEachRow" /\ JsonEachRowBytes(result) > max_output_bytes

Running == state = "running" /\ done < Len(input.statements)
Upcoming == input.statements[done + 1]

Silent ==
    /\ Running /\ Upcoming.kind = "silent"
    /\ done' = done + 1
    /\ UNCHANGED <<output_format, max_output_bytes, input, output, state>>

Fails ==
    /\ Running /\ Upcoming.kind = "fails"
    /\ state' = "Sql"
    /\ UNCHANGED <<output_format, max_output_bytes, input, done, output>>

Emit ==
    /\ Running /\ Upcoming.kind = "query"
    /\ IF Refused(done + 1)
       THEN state' = "OutputLimitExceeded" /\ UNCHANGED <<done, output>>
       ELSE done' = done + 1 /\ output' = output \o Rendering(done + 1) /\ UNCHANGED state
    /\ UNCHANGED <<output_format, max_output_bytes, input>>

(* The caller's writer fails after it has taken a part. *)
WriteFails ==
    /\ Running /\ Upcoming.kind = "query" /\ ~Refused(done + 1)
    /\ LET text == Rendering(done + 1)
       IN  \E taken \in 0 .. Len(text) - 1 : output' = output \o SubSeq(text, 1, taken)
    /\ state' = "Write"
    /\ UNCHANGED <<output_format, max_output_bytes, input, done>>

Return ==
    /\ state = "running" /\ done = Len(input.statements)
    /\ state' = "Ok"
    /\ UNCHANGED <<output_format, max_output_bytes, input, done, output>>

Next == Read \/ ReadFails \/ Silent \/ Fails \/ Emit \/ WriteFails \/ Return

-----------------------------------------------------------------------------
Queries(n) == SelectSeq([k \in 1 .. n |-> k], LAMBDA k : input.statements[k].kind = "query")

(* The output is always the whole results of the statements executed so far,
   in their order, unless the writer itself failed: a statement that fails
   leaves the results before it, a result that is refused leaves nothing of
   itself.  Tables and JSONEachRow are refused exactly when the bytes they
   would write exceed the bound, although the size is computed apart from the
   writing. *)
OutputIsWhole ==
    LET shown == Queries(done)
        whole == FlattenSeq([k \in DOMAIN shown |-> Rendering(shown[k])])
        Bounded(k) == output_format \in {"Table", "JsonEachRow"} => Utf8Len(Rendering(k)) <= max_output_bytes
    IN  /\ IF state = "Write" THEN IsPrefix(whole, output) ELSE output = whole
        /\ \A k \in DOMAIN shown : Bounded(shown[k])
        /\ state = "OutputLimitExceeded" => ~Bounded(done + 1)
        /\ state = "Ok" => done = Len(input.statements)
=============================================================================
