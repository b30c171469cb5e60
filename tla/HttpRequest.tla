---------------------------- MODULE HttpRequest ----------------------------
(***************************************************************************)
(* What one HTTP request is taken for (src/src/http.rs): the request line, *)
(* the header fields, the credentials, the URL parameters and the SQL text *)
(* are examined in this order, and the first fault decides the status.     *)
(*                                                                         *)
(* A request is a record.                                                  *)
(*   method, target, version   the request line; target is "query" (/ and  *)
(*        /query), "params" (/?...), "insert", "table" (/insert/<table>),  *)
(*        "badtable", "ping", "ready", "metrics" or "elsewhere"            *)
(*   fields   the header fields, in order: [name, value, number]           *)
(*   params   the URL parameters, in order: [name, value, number]          *)
(*   sql      [statements, format, utf8, bytes], the statement kinds and   *)
(*            the terminal FORMAT clause; it is the query parameter of a   *)
(*            "params" target and the body of the other query targets      *)
(*   rows     what a table insert's body holds: "good" or "bad"            *)
(*                                                                         *)
(* A handler is [auth, access, principals]: the kind of authentication,    *)
(* "ro" or "rw", and the configured set of [user, key, role].              *)
(***************************************************************************)
EXTENDS Integers, Sequences, SequencesExt

CONSTANTS
  None,         \* no value
  UsizeMax,     \* the largest Content-Length or parameter usize can hold
  MaxHeaders,   \* limits.max_header_count
  MaxSqlBytes,  \* limits.max_sql_bytes
  MaxIngestBytes  \* max_bytes of the CSV and TSV ingest limits

ASSUME RequestAssumption ==
  /\ UsizeMax \in Nat /\ MaxHeaders \in Nat /\ MaxSqlBytes \in Nat /\ MaxIngestBytes \in Nat
  /\ MaxSqlBytes <= UsizeMax

InputFormats == {"CSV", "CSVWithNames", "TabSeparated", "TabSeparatedWithNames"}
HeaderFormats == InputFormats \cup {"JSONEachRow", "JSONCompactEachRow"}
OutputFormats == HeaderFormats \cup {"JSON"}
WorkloadNames == {"max_result_rows", "max_rows_to_read"}

Configured(h) == h.auth # "none"
AllowsInsert(access) == access = "rw"

\* The handlers there are: only those that authenticate can write, and a
\* principal that is not one of a set has its handler's access.
Handlers ==
  {h \in [auth : {"none", "bearer", "key", "principal", "set"}, access : {"ro", "rw"},
          principals : SUBSET [user : STRING, key : STRING, role : {"ro", "rw"}]] :
     /\ AllowsInsert(h.access) => Configured(h)
     /\ h.auth # "set" => \A p \in h.principals : p.role = h.access}

\* The requests there are: only a target with a query string has parameters.
Named == [name : STRING, value : STRING, number : Int]
HttpRequests ==
  {r \in [method : STRING, target : STRING, version : STRING, fields : Seq(Named),
          params : Seq(Named), rows : {"good", "bad"}, header_bytes : Nat,
          sql : [statements : Seq(STRING), format : STRING \cup {None},
                 utf8 : BOOLEAN, bytes : Nat]] :
     r.target # "params" => r.params = <<>>}

TightenForRequest(access, readonly) == IF readonly = "yes" THEN "ro" ELSE access

(***************************************************************************)
(* A step of the parse either goes on with a value or fails with a status. *)
(***************************************************************************)
Good(v) == [status |-> 200, value |-> v]
Fail(status) == [status |-> status, value |-> None]
IsGood(r) == r.status = 200

(***************************************************************************)
(* The request line.  The insert targets exist only for handlers that      *)
(* authenticate, and there for every access, so that the credentials are   *)
(* judged before the target.                                               *)
(***************************************************************************)
ParseRequestLine(h, r) ==
  LET inserts == Configured(h) /\ r.target \in {"insert", "table"}
      routes  == [query |-> {"POST"}, params |-> {"GET", "POST"}, ping |-> {"GET"},
                  ready |-> {"GET"}, metrics |-> {"GET"}, insert |-> {"POST"},
                  table |-> {"POST"}]
  IN  CASE r.method = "malformed" -> Fail(400)
        [] r.method # "malformed" /\ r.version # "HTTP/1.1" -> Fail(505)
        [] r.method # "malformed" /\ r.version = "HTTP/1.1" ->
             IF inserts \/ r.target \in {"query", "params", "ping", "ready", "metrics"}
             THEN IF r.method \in routes[r.target] THEN Good(r.target) ELSE Fail(405)
             ELSE IF r.method \in {"GET", "POST"} THEN Fail(404) ELSE Fail(405)

(***************************************************************************)
(* The header fields, one after another.                                   *)
(***************************************************************************)
NoFields ==
  [status |-> 200, count |-> 0, content_length |-> <<>>, host |-> "no", te |-> "no",
   expect |-> "no", authorization |-> <<>>, user |-> <<>>, key |-> <<>>,
   format |-> <<>>, database |-> <<>>]

ParseContentLength(n) ==
  IF n < 0 THEN Fail(400) ELSE IF n > UsizeMax THEN Fail(413) ELSE Good(n)

\* The credentials of the configured kind are collected with their repeats;
\* the others are ordinary fields.
Credential(auth, name) ==
  \/ name = "authorization" /\ auth = "bearer"
  \/ name = "user" /\ auth \in {"principal", "set"}
  \/ name = "key" /\ auth \in {"key", "principal", "set"}

ParseField(auth, acc, f) ==
  LET a == [acc EXCEPT !.count = @ + 1]
      failed(status) == [a EXCEPT !.status = status]
      length == ParseContentLength(f.number)
  IN  IF acc.status # 200 THEN acc
      ELSE IF a.count > MaxHeaders THEN failed(431)
      ELSE CASE f.name = "malformed" -> failed(400)
             [] f.name = "content_length" ->
                  IF a.content_length # <<>> THEN failed(400)
                  ELSE IF IsGood(length) THEN [a EXCEPT !.content_length = <<length.value>>]
                  ELSE failed(length.status)
             [] f.name = "host" ->
                  IF a.host = "yes" \/ f.value = "" THEN failed(400) ELSE [a EXCEPT !.host = "yes"]
             [] f.name \in {"te", "expect"} -> [a EXCEPT ![f.name] = "yes"]
             [] Credential(auth, f.name) \/ f.name \in {"format", "database"} ->
                  [a EXCEPT ![f.name] = Append(@, f.value)]
             [] OTHER -> a

ParseFields(auth, r) ==
  LET parsed[k \in 0 .. Len(r.fields)] ==
        IF k = 0 THEN NoFields ELSE ParseField(auth, parsed[k - 1], r.fields[k])
  IN  parsed[Len(r.fields)]

(***************************************************************************)
(* Authentication: the access a request gets, or "denied".                 *)
(***************************************************************************)
\* Mutant of Sent: the last of several equal-named credentials counts.
Sent_Last(values) == IF values = <<>> THEN "" ELSE Last(values)

\* What a credential header says: nothing if it is missing or repeated.
Sent(values) == IF Len(values) = 1 THEN values[1] ELSE ""

\* The configured credentials are never empty, so "" matches none of them.
Authenticate(h, a) ==
  LET match(p) ==
        CASE h.auth = "bearer"  -> Sent(a.authorization) = p.key
          [] h.auth = "key"     -> Sent(a.key) = p.key
          [] OTHER              -> Sent(a.user) = p.user /\ Sent(a.key) = p.key
      matched == {p \in h.principals : match(p)}
  IN  IF ~Configured(h) THEN h.access
      ELSE IF matched = {} THEN "denied"
      ELSE IF h.auth # "set" THEN h.access
      ELSE IF \E p \in matched : p.role = "rw" THEN "rw" ELSE "ro"

(***************************************************************************)
(* parse_headers as a whole: [kind, content_length, format, access].       *)
(***************************************************************************)
UsesDatabaseName(kind) == kind \in {"query", "params", "insert", "table"}

FormatField(kind, formats) ==
  LET known == IF kind = "table" THEN InputFormats ELSE HeaderFormats
  IN  IF kind \notin {"query", "params", "table"} THEN Good(None)
      ELSE IF Len(formats) > 1 THEN Fail(400)
      ELSE IF formats = <<>> THEN Good(IF kind = "table" THEN "CSVWithNames" ELSE None)
      ELSE IF formats[1] \in known THEN Good(formats[1]) ELSE Fail(400)

ParseHeaders(h, r) ==
  LET line   == ParseRequestLine(h, r)
      a      == ParseFields(h.auth, r)
      access == Authenticate(h, a)
      format == FormatField(line.value, a.format)
      named  == UsesDatabaseName(line.value)
  IN  IF ~IsGood(line) THEN line
      ELSE IF a.status # 200 THEN Fail(a.status)
      ELSE IF access = "denied" THEN Fail(401)
      ELSE IF line.value \in {"insert", "table"} /\ ~AllowsInsert(access) THEN Fail(404)
      ELSE IF named /\ a.database \notin {<<>>, <<"default">>} THEN Fail(400)
      ELSE IF a.te = "yes" THEN Fail(400)
      ELSE IF a.expect = "yes" THEN Fail(417)
      ELSE IF a.host = "no" THEN Fail(400)
      ELSE IF ~IsGood(format) THEN format
      ELSE Good([kind |-> line.value, content_length |-> a.content_length,
                 format |-> format.value, access |-> access])

(***************************************************************************)
(* The URL parameters, one after another.                                  *)
(***************************************************************************)
NoParams ==
  [status |-> 200, seen |-> {}, format |-> None, readonly |-> "no",
   workload |-> [n \in WorkloadNames |-> 0]]

ParseParam(r, acc, p) ==
  LET a == [acc EXCEPT !.seen = @ \cup {p.name}]
      failed(status) == [acc EXCEPT !.status = status]
      decimal == p.number \in 0 .. UsizeMax
  IN  CASE acc.status # 200 -> acc
        [] acc.status = 200 /\ (p.name \in acc.seen \cup {"empty"}) -> failed(400)
        [] acc.status = 200 /\ p.name \notin acc.seen \cup {"empty"} ->
             CASE p.value = "malformed" -> failed(400)
               [] p.value # "malformed" /\ p.name = "query" ->
                    IF r.sql.bytes > MaxSqlBytes THEN failed(413) ELSE a
               [] p.value # "malformed" /\ p.name = "database" ->
                    IF p.value # "default" THEN failed(400) ELSE a
               [] p.value # "malformed" /\ p.name = "default_format" ->
                    IF p.value \in OutputFormats THEN [a EXCEPT !.format = p.value]
                                                 ELSE failed(400)
               [] p.value # "malformed" /\ p.name \in WorkloadNames ->
                    IF decimal THEN [a EXCEPT !.workload[p.name] = p.number] ELSE failed(400)
               [] p.value # "malformed" /\ p.name = "readonly" ->
                    IF p.number \in {0, 1}
                    THEN [a EXCEPT !.readonly = IF p.number = 1 THEN "yes" ELSE "no"]
                    ELSE failed(400)
               [] OTHER -> failed(400)

DecodeQueryParameters(r) ==
  LET decoded[k \in 0 .. Len(r.params)] ==
        IF k = 0 THEN NoParams ELSE ParseParam(r, decoded[k - 1], r.params[k])
      a == decoded[Len(r.params)]
  IN  IF a.status # 200 THEN Fail(a.status)
      ELSE IF "query" \notin a.seen THEN Fail(400)
      ELSE Good(a)

(***************************************************************************)
(* The SQL text.  The terminal FORMAT clause belongs to the transport: it  *)
(* is cut off, and what is left is what the database parses.               *)
(***************************************************************************)
\* INSERT INTO <table> FORMAT <input format>, and nothing else.
ParameterizedTableInsert(sql) ==
  sql.statements = <<"insert_into">> /\ sql.format \in InputFormats

Parses(sql) ==
  /\ sql.format = None
  /\ \A k \in DOMAIN sql.statements : sql.statements[k] \notin {"insert_into", "junk"}
Inserts(sql) == \E k \in DOMAIN sql.statements : sql.statements[k] \in {"insert", "insert_bad"}

\* What a request asks of the database.
Query(sql, workload) == [kind |-> "query", sql |-> sql, workload |-> workload]
Insert(sql) == [kind |-> "insert", sql |-> sql, workload |-> NoParams.workload]

ClassifyStandardQuery(sql, format, workload, insertEnabled) ==
  LET cut == [sql EXCEPT !.format = None]
  IN  IF sql.format # None /\ format # None THEN Fail(400)
      ELSE IF insertEnabled /\ Parses(sql) /\ Inserts(sql)
           THEN Good(Insert(cut))
           ELSE Good(Query(cut, workload))

(***************************************************************************)
(* The body: how many bytes may be read.                                   *)
(***************************************************************************)
BoundedBodyLength(lengths, limit) ==
  IF lengths = <<>> THEN Fail(411)
  ELSE IF lengths[1] > limit THEN Fail(413) ELSE Good(lengths[1])

TableInsertBodyLength(lengths) ==
  LET bounded == BoundedBodyLength(lengths, MaxSqlBytes)
  IN  IF IsGood(bounded) /\ bounded.value > MaxIngestBytes THEN Fail(400) ELSE bounded

(***************************************************************************)
(* read_request up to the body: the bytes to read and what the request     *)
(* becomes once they are there (whose own fault is then a 400).            *)
(***************************************************************************)
Plan(length, after) == [length |-> length, after |-> after]
Ingest == [kind |-> "table", sql |-> [statements |-> <<>>, format |-> None, utf8 |-> TRUE, bytes |-> 0],
           workload |-> NoParams.workload]
Probe(kind) == [Ingest EXCEPT !.kind = kind]

ReadTableInsert(parsed) ==
  LET length == TableInsertBodyLength(parsed.content_length)
  IN  IF IsGood(length) THEN Good(Plan(length.value, Good(Ingest))) ELSE length

ReadParameterized(r, parsed) ==
  LET decoded == DecodeQueryParameters(r)
      params  == decoded.value
      access  == TightenForRequest(parsed.access, params.readonly)
      format  == IF parsed.format # None THEN parsed.format ELSE params.format
      empty   == parsed.content_length \in {<<>>, <<0>>}
      post    == r.method = "POST"
  IN  IF ~IsGood(decoded) THEN decoded
      ELSE IF parsed.format # None /\ params.format # None THEN Fail(400)
      ELSE IF ~r.sql.utf8 THEN Fail(400)
      ELSE IF post /\ AllowsInsert(access) /\ ParameterizedTableInsert(r.sql)
           THEN IF format # None THEN Fail(400) ELSE ReadTableInsert(parsed)
      ELSE IF ~empty THEN Fail(400)
      ELSE Good(Plan(0, ClassifyStandardQuery(r.sql, format, params.workload,
                                              AllowsInsert(access) /\ post /\ format = None)))

\* A body that is not UTF-8 is refused when it has been read.
ReadSqlBody(r, parsed, after) ==
  LET length == BoundedBodyLength(parsed.content_length, MaxSqlBytes)
  IN  IF IsGood(length)
      THEN Good(Plan(length.value, IF r.sql.utf8 THEN after ELSE Fail(400)))
      ELSE length

ReadRequest(r, parsed) ==
  CASE parsed.kind \in {"ping", "ready", "metrics"} ->
         IF parsed.content_length \in {<<>>, <<0>>}
         THEN Good(Plan(0, Good(Probe(parsed.kind)))) ELSE Fail(400)
    [] parsed.kind = "query" ->
         ReadSqlBody(r, parsed,
           ClassifyStandardQuery(r.sql, parsed.format, NoParams.workload,
                                 AllowsInsert(parsed.access) /\ parsed.format = None))
    [] parsed.kind = "insert" -> ReadSqlBody(r, parsed, Good(Insert(r.sql)))
    [] parsed.kind = "table"  -> ReadTableInsert(parsed)
    [] parsed.kind = "params" -> ReadParameterized(r, parsed)
=============================================================================
