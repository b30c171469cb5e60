--------------------------- MODULE MCHttpExchange ---------------------------
(* Exchange "a" is served by every kind of handler and sends every kind of
   request; "b" and "c" insert, select or read the metrics at the same time. *)
EXTENDS HttpExchange

Handler(auth, access, principals) == [auth |-> auth, access |-> access, principals |-> principals]
Principal(user, key, role) == [user |-> user, key |-> key, role |-> role]
Profile(handler, cap, timeout) ==
    [handler |-> handler, cap |-> cap, read_timeout |-> timeout, write_timeout |-> timeout + 1]

Open      == Handler("none", "ro", {})
KeyRW     == Handler("key", "rw", {Principal("", "k", "rw")})
KeyRO     == Handler("key", "ro", {Principal("", "k", "ro")})
BearerRW  == Handler("bearer", "rw", {Principal("", "k", "rw")})
OneRO     == Handler("principal", "ro", {Principal("u", "k", "ro")})
Set       == Handler("set", "ro", {Principal("u", "k", "ro"), Principal("v", "k", "rw")})
Invalid   == Handler("key", "rw", {Principal("", "", "rw")})

Wide == 9        \* a response cap that everything fits

MCProfiles(e) ==
    IF e = "a"
    THEN {Profile(h, Wide, 1) : h \in {Open, KeyRW, KeyRO, BearerRW, OneRO, Set, Invalid}}
         \cup {Profile(KeyRW, cap, 1) : cap \in {0, 1, 2, 3}}
         \cup {Profile(KeyRW, Wide, 9)}
    ELSE {Profile(KeyRW, cap, 1) : cap \in IF e = "b" THEN {2, Wide} ELSE {Wide}}

(***************************************************************************)
Field(name, value) == [name |-> name, value |-> value, number |-> 0]
Length(n) == [name |-> "content_length", value |-> "", number |-> n]
Param(name, value, number) == [name |-> name, value |-> value, number |-> number]
Sql(statements, format) == [statements |-> statements, format |-> format, utf8 |-> TRUE, bytes |-> 1]

Request(method, target, fields, params, sql) ==
    [method |-> method, target |-> target, version |-> "HTTP/1.1",
     fields |-> <<Field("host", "h")>> \o fields, params |-> params, sql |-> sql,
     rows |-> "good", header_bytes |-> 1]

Select == Sql(<<"select">>, None)
One    == Sql(<<"insert">>, None)
Texts  == {Select, One, Sql(<<"select">>, "CSV"), Sql(<<"insert">>, "CSV"), Sql(<<"junk">>, None),
           Sql(<<"insert", "select">>, None), Sql(<<"insert", "insert_bad">>, None),
           Sql(<<"insert_into">>, "CSV"), [One EXCEPT !.utf8 = FALSE]}
Ask(text) == <<Param("query", "text", 0)>>

(* Requests with good framing, without their credentials. *)
Posts(sql) ==
    {Request("POST", t, <<Length(n)>>, <<>>, sql) : t \in {"query", "insert"}, n \in {1, 2}}
    \cup {Request(m, "params", <<>>, Ask(sql), sql) : m \in {"GET", "POST"}}
    \cup {Request("POST", "params", <<>>, Ask(sql) \o <<Param("readonly", "text", n)>>, sql) : n \in {0, 1, 2}}

Probes == {Request("GET", t, <<>>, <<>>, Select) : t \in {"ping", "ready", "metrics", "elsewhere", "insert"}}

Routes ==
    UNION {Posts(sql) : sql \in Texts}
    \cup Probes
    \cup {Request("PUT", t, <<>>, <<>>, Select) : t \in {"query", "params", "table", "elsewhere"}}
    \cup {[Request("POST", "table", <<Length(1)>>, <<>>, Select) EXCEPT !.rows = k] : k \in {"good", "bad"}}
    \cup {[Request("POST", "params", <<Length(n)>>, Ask(0), Sql(<<"insert_into">>, "TabSeparated"))
             EXCEPT !.rows = k] : k \in {"good", "bad"}, n \in {0, 1}}

(* Faults of the header fields and parameters, more than one at a time. *)
Faults ==
    {Request("POST", t, f, <<>>, One) :
        t \in {"query", "insert", "table"},
        f \in {<<>>, <<Length(1), Length(1)>>, <<Length(0 - 1)>>, <<Length(UsizeMax + 1)>>,
               <<Length(MaxSqlBytes + 1)>>, <<Length(MaxSqlBytes)>>,
               <<Length(1), Field("host", "h")>>, <<Field("malformed", ""), Length(1)>>,
               <<Length(1), Field("te", ""), Field("expect", "")>>, <<Length(1), Field("expect", "")>>,
               <<Length(1), Field("database", "default")>>, <<Length(1), Field("database", "x")>>,
               <<Length(1), Field("database", "default"), Field("database", "default")>>,
               <<Length(1), Field("format", "CSV")>>, <<Length(1), Field("format", "JSON")>>,
               <<Length(1), Field("format", "CSV"), Field("format", "CSV")>>,
               [k \in 1..6 |-> Field("other", "")]}}
    \cup {Request("POST", "params", <<>>, p, One) :
        p \in {<<>>, Ask(0) \o Ask(0), Ask(0) \o <<Param("unknown", "text", 0)>>,
               <<Param("empty", "", 0)>>, <<Param("query", "malformed", 0)>>,
               Ask(0) \o <<Param("database", "default", 0)>>, Ask(0) \o <<Param("database", "x", 0)>>,
               Ask(0) \o <<Param("default_format", "JSON", 0)>>, Ask(0) \o <<Param("default_format", "x", 0)>>,
               Ask(0) \o <<Param("max_result_rows", "text", 0 - 1)>>}}
    \cup {Request("GET", "params", f, Ask(0) \o p, Select) :
        f \in {<<>>, <<Field("format", "CSV")>>, <<Length(1)>>},
        p \in {<<>>, <<Param("default_format", "CSV", 0)>>, <<Param("max_result_rows", "text", 1)>>,
               <<Param("max_rows_to_read", "text", 3)>>}}
    \cup {[Request("POST", "params", <<>>, Ask(0), Select) EXCEPT !.sql.bytes = MaxSqlBytes + 1],
          [Request("GET", "ping", <<>>, <<>>, Select) EXCEPT !.version = "HTTP/1.0"],
          [Request("GET", "ping", <<>>, <<>>, Select) EXCEPT !.fields = <<>>],
          Request("malformed", "ping", <<>>, <<>>, Select),
          Request("GET", "ping", <<Length(1)>>, <<>>, Select),
          [Request("GET", "ready", <<>>, <<>>, Select) EXCEPT !.header_bytes = 2],
          [Request("GET", "ready", <<>>, <<>>, Select) EXCEPT !.header_bytes = MaxHeaderBytes + 1]}

(* The ways to present credentials: right, for another role, wrong, partly
   right, repeated, empty and missing. *)
Credentials(h) ==
    LET key(k) == Field("key", k)
        user(u) == Field("user", u)
    IN  CASE h.auth = "none"   -> {<<>>}
          [] h.auth = "key"    -> {<<key("k")>>, <<key("x")>>, <<key("x"), key("k")>>, <<key("")>>, <<>>}
          [] h.auth = "bearer" -> {<<Field("authorization", "k")>>, <<key("k")>>,
                                   <<Field("authorization", "x"), Field("authorization", "k")>>}
          [] OTHER -> {<<user("u"), key("k")>>, <<user("v"), key("k")>>, <<user("u"), key("x")>>,
                       <<user("v"), user("u"), key("k")>>, <<key("k")>>}

With(r, credentials) == [r EXCEPT !.fields = @ \o credentials]

MCRequests(e, h, cap) ==
    IF e # "a"
    THEN {With(r, <<Field("key", "k")>>) :
            r \in IF e = "b"
                  THEN {Request("GET", "params", <<>>, Ask(0), Select),
                        Request("POST", "params", <<Length(1)>>, Ask(0), Sql(<<"insert_into">>, "CSV"))}
                  ELSE {Request("POST", "insert", <<Length(2)>>, <<>>, One),
                        Request("GET", "metrics", <<>>, <<>>, Select)}}
    ELSE IF cap = Wide /\ h = KeyRW
    THEN {With(r, <<Field("key", "k")>>) : r \in Routes \cup Faults}
         \cup {With(r, c) : r \in Posts(One) \cup Probes, c \in Credentials(h)}
    ELSE IF cap = Wide THEN {With(r, c) : r \in Posts(One) \cup Posts(Select), c \in Credentials(h)}
    ELSE {With(r, <<Field("key", "k")>>) : r \in Routes}
=============================================================================
