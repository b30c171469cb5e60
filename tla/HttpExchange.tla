---------------------------- MODULE HttpExchange ----------------------------
(***************************************************************************)
(* HTTP exchanges over one SharedDatabase (src/src/http.rs,                *)
(* handle_http_listener_connection and handle_http_query_exchange).        *)
(*                                                                         *)
(* Each exchange reads a header block byte by byte, decides what the       *)
(* request is (HttpRequest), reads the declared body, tries the database's *)
(* lock once, prepares the whole response and writes it.  Reads and writes *)
(* block until the peer acts or the exchange's absolute deadline passes.   *)
(* The lock is shared with the other exchanges and with the embedding      *)
(* application, which may hold it for writing for any time and may panic.  *)
(*                                                                         *)
(* Lengths are counted in units: a response is ResponseHead units plus its *)
(* body, an error message is one unit, the fixed response-limit message    *)
(* two.  An exchange is a record of the request its peer sends, what the   *)
(* handler knows, and what the peer and the caller have got.               *)
(***************************************************************************)
EXTENDS HttpRequest, FiniteSets

CONSTANTS
  Exchanges,
  Lineups,          \* the sets of exchanges that may take place together
  Profiles(_),      \* how an exchange may be served: [handler, cap,
                    \* read_timeout, write_timeout], the cap being
                    \* limits.max_response_bytes
  Requests(_, _, _),  \* the requests an exchange's peer may send to a
                    \* handler with a cap
  MaxHeaderBytes,   \* limits.max_header_bytes
  ClockMax,         \* the last instant the clock can represent
  StoredUnits       \* units of a SELECT's result before any insert

ASSUME ExchangeAssumption ==
  /\ Lineups \subseteq SUBSET Exchanges
  /\ MaxHeaderBytes \in Nat
  /\ ClockMax \in Nat /\ StoredUnits \in Nat
  /\ \A e \in Exchanges : \A p \in Profiles(e) :
       /\ p.handler \in Handlers \ {None}
       /\ p.cap \in Nat /\ p.read_timeout \in Nat /\ p.write_timeout \in Nat
       /\ Requests(e, p.handler, p.cap) \subseteq HttpRequests \ {None}

ResponseHead == 1
ErrorBody == 1
LimitErrorBody == 2

VARIABLES
  x,      \* the exchanges
  lock,   \* [mode: "free", "read", "write" or "poisoned", holders]
  rows,   \* the exchanges whose rows the database holds, in order
  now     \* the clock

vars == <<x, lock, rows, now>>

Other == "application"   \* the embedding application's writer

(***************************************************************************)
(* Deadlines.                                                              *)
(***************************************************************************)
\* Mutant of DeadlineRemaining: every call may wait as long as the first.
DeadlineRemaining_PerCall(e, side) == x[e][side]

\* Both deadlines count from the moment the connection was accepted.
DeadlineRemaining(e, side) ==
  LET deadline == x[e].accepted_at + x[e][side] IN IF deadline > now THEN deadline - now ELSE 0

\* The exchange goes on to a blocking call on that side, or times out at once.
Blocking(e, next, side, error) ==
  IF DeadlineRemaining(e, side) = 0
  THEN [next EXCEPT !.phase = "done", !.result = error]
  ELSE [next EXCEPT !.wake = now + DeadlineRemaining(e, side)]

(***************************************************************************)
(* Responses are prepared whole, and replaced by the fixed limit error if  *)
(* they do not fit; if that does not fit either, nothing is written.       *)
(***************************************************************************)
Fits(e, body) == ResponseHead + body <= x[e].cap

Respond(e, next, status, body) ==
  IF Fits(e, body)
  THEN Blocking(e, [next EXCEPT !.phase = "write", !.status = status, !.unsent = ResponseHead + body],
                "write_timeout", "write_error")
  ELSE IF Fits(e, LimitErrorBody)
  THEN Blocking(e, [next EXCEPT !.phase = "write", !.status = 500,
                                !.unsent = ResponseHead + LimitErrorBody],
                "write_timeout", "write_error")
  ELSE [next EXCEPT !.phase = "done", !.result = "limit_error"]

Refuse(e, next, status) == Respond(e, next, status, ErrorBody)
ExceedsLimit(e, next) == Respond(e, next, 500, LimitErrorBody)

Fresh ==
  [phase |-> "idle", handler |-> None, request |-> None, cap |-> 0,
   accepted_at |-> 0, read_timeout |-> 0, write_timeout |-> 0, wake |-> 0,
   header_read |-> 0, body_read |-> 0, plan |-> None, task |-> None,
   touched |-> FALSE, status |-> 0, unsent |-> 0, result |-> "none"]

\* The configured credentials are validated before any input is read.
ValidConfiguration(h) ==
  /\ Configured(h) => h.principals # {}
  /\ \A p \in h.principals : p.key # "" /\ (h.auth \in {"principal", "set"} => p.user # "")
  /\ \A p, q \in h.principals : p.user = q.user /\ p.key = q.key => p = q

Start(e) ==
  /\ x[e].phase = "idle"
  /\ \E p \in Profiles(e) :
       x' = [x EXCEPT ![e] = [Fresh EXCEPT !.phase = "start", !.accepted_at = now,
                               !.handler = p.handler, !.cap = p.cap,
                               !.read_timeout = p.read_timeout,
                               !.write_timeout = p.write_timeout]]
  /\ UNCHANGED <<lock, rows, now>>

\* deadline_after for both sides, then the configuration, then the first read.
Begin(e) ==
  /\ x[e].phase = "start"
  /\ LET b == x[e] IN
     x' = [x EXCEPT ![e] =
       IF b.accepted_at + b.read_timeout > ClockMax
       THEN [b EXCEPT !.phase = "done", !.result = "read_error"]
       ELSE IF b.accepted_at + b.write_timeout > ClockMax
       THEN [b EXCEPT !.phase = "done", !.result = "write_error"]
       ELSE IF ~ValidConfiguration(b.handler) THEN Refuse(e, b, 500)
       ELSE IF MaxHeaderBytes = 0 THEN Refuse(e, b, 431)
       ELSE Blocking(e, [b EXCEPT !.phase = "header"], "read_timeout", "read_error")]
  /\ UNCHANGED <<lock, rows, now>>

(***************************************************************************)
(* Reading.  The peer sends a byte, closes, or the connection fails.       *)
(***************************************************************************)
\* The request is known once the header block is complete.
Decide(e, next) ==
  LET parsed  == ParseHeaders(next.handler, next.request)
      planned == ReadRequest(next.request, parsed.value)
  IN  IF ~IsGood(parsed) THEN Refuse(e, next, parsed.status)
      ELSE IF ~IsGood(planned) THEN Refuse(e, next, planned.status)
      ELSE IF planned.value.length = 0
      THEN [next EXCEPT !.plan = planned.value, !.phase = "body_read"]
      ELSE Blocking(e, [next EXCEPT !.plan = planned.value, !.phase = "body"],
                    "read_timeout", "read_error")

\* One more header byte: it breaks the CRLF framing, completes the block,
\* reaches the byte limit, or is followed by another read.
ReadHeaderByte(e) ==
  /\ x[e].phase = "header"
  /\ \E r \in Requests(e, x[e].handler, x[e].cap), framed \in BOOLEAN :
       LET b == [x[e] EXCEPT !.header_read = @ + 1] IN
       x' = [x EXCEPT ![e] =
         IF ~framed THEN Refuse(e, b, 400)
         ELSE IF b.header_read = r.header_bytes THEN Decide(e, [b EXCEPT !.request = r])
         ELSE IF b.header_read >= MaxHeaderBytes THEN Refuse(e, b, 431)
         ELSE Blocking(e, b, "read_timeout", "read_error")]
  /\ UNCHANGED <<lock, rows, now>>

ReadBodyBytes(e) ==
  /\ x[e].phase = "body"
  /\ \E n \in 1 .. x[e].plan.length - x[e].body_read :
       LET b == [x[e] EXCEPT !.body_read = @ + n] IN
       x' = [x EXCEPT ![e] =
         IF b.body_read = b.plan.length THEN [b EXCEPT !.phase = "body_read"]
         ELSE Blocking(e, b, "read_timeout", "read_error")]
  /\ UNCHANGED <<lock, rows, now>>

PeerCloses(e) ==
  /\ x[e].phase \in {"header", "body"}
  /\ x' = [x EXCEPT ![e] = Refuse(e, x[e], 400)]
  /\ UNCHANGED <<lock, rows, now>>

ReadFails(e) ==
  /\ x[e].phase \in {"header", "body"}
  /\ x' = [x EXCEPT ![e] = [@ EXCEPT !.phase = "done", !.result = "read_error"]]
  /\ UNCHANGED <<lock, rows, now>>

\* The body is complete: the request becomes a task, or its text is refused.
TakeTask(e) ==
  /\ x[e].phase = "body_read"
  /\ LET after == x[e].plan.after IN
     x' = [x EXCEPT ![e] = IF IsGood(after)
                            THEN [@ EXCEPT !.phase = "task", !.task = after.value]
                            ELSE Refuse(e, @, after.status)]
  /\ UNCHANGED <<lock, rows, now>>

(***************************************************************************)
(* The database: one nonblocking attempt at its lock.                      *)
(***************************************************************************)
CanRead == lock.mode \in {"free", "read"}
CanWrite == lock.mode = "free"
Acquire(e, mode) == lock' = [mode |-> mode, holders |-> lock.holders \cup {e}]
Release(e) ==
  lock' = [mode |-> IF lock.mode = "poisoned" \/ lock.holders # {e} THEN lock.mode ELSE "free",
           holders |-> lock.holders \ {e}]
Busy == IF lock.mode = "poisoned" THEN 500 ELSE 503

\* GET /ping does not look at the database, GET /ready only tries its lock.
Ping(e) ==
  /\ x[e].phase = "task" /\ x[e].task.kind = "ping"
  /\ x' = [x EXCEPT ![e] = Respond(e, @, 200, 1)]
  /\ UNCHANGED <<lock, rows, now>>

Ready(e) ==
  /\ x[e].phase = "task" /\ x[e].task.kind = "ready"
  /\ LET b == [x[e] EXCEPT !.touched = TRUE] IN
     x' = [x EXCEPT ![e] = IF CanRead THEN Respond(e, b, 200, 1) ELSE Refuse(e, b, 503)]
  /\ UNCHANGED <<lock, rows, now>>

\* Mutant of PreparesFirst: the success response is built after the insert.
PreparesFirst_Later(e) == TRUE

\* An insert's success response is prepared, and so known to fit, first.
PreparesFirst(e) == Fits(e, 0)

IsInsert(task) == task.kind \in {"insert", "table"}

\* The text is parsed before the lock is tried; a table insert's body is
\* only parsed under it.
TryLock(e) ==
  /\ x[e].phase = "task" /\ x[e].task.kind \in {"insert", "table", "query", "metrics"}
  /\ LET b     == [x[e] EXCEPT !.touched = TRUE]
         task  == b.task
         mode  == IF IsInsert(task) THEN "write" ELSE "read"
         junk  == \/ task.kind = "insert" /\ ~Parses(task.sql)
                  \/ task.kind = "query" /\ task.sql.statements # <<"select">>
     IN  IF IsInsert(task) /\ ~PreparesFirst(e)
         THEN x' = [x EXCEPT ![e] = ExceedsLimit(e, @)] /\ UNCHANGED lock
         ELSE IF junk
         THEN x' = [x EXCEPT ![e] = Refuse(e, @, 400)] /\ UNCHANGED lock
         ELSE IF IF mode = "write" THEN CanWrite ELSE CanRead
         THEN x' = [x EXCEPT ![e] = [b EXCEPT !.phase = "locked"]] /\ Acquire(e, mode)
         ELSE /\ x' = [x EXCEPT ![e] = Refuse(e, b, IF task.kind = "metrics" THEN 503 ELSE Busy)]
              /\ UNCHANGED lock
  /\ UNCHANGED <<rows, now>>

\* An INSERT batch is all inserts, each acceptable; a body is all good rows.
Applies(e) ==
  IF x[e].task.kind = "table" THEN x[e].request.rows = "good"
  ELSE /\ x[e].task.sql.statements # <<>>
       /\ \A k \in DOMAIN x[e].task.sql.statements : x[e].task.sql.statements[k] = "insert"

FinishInsert(e) ==
  /\ x[e].phase = "locked" /\ IsInsert(x[e].task)
  /\ rows' = IF Applies(e) THEN Append(rows, e) ELSE rows
  /\ x' = [x EXCEPT ![e] = IF Applies(e) THEN Respond(e, @, 200, 0) ELSE Refuse(e, @, 400)]
  /\ Release(e)
  /\ UNCHANGED now

\* A query fails at a requested limit (0 asks for none); otherwise its result
\* is formatted into a buffer of at most cap units.
ResultUnits == StoredUnits + Len(rows)

FinishQuery(e) ==
  /\ x[e].phase = "locked" /\ x[e].task.kind = "query"
  /\ LET exceeded == \E n \in WorkloadNames :
                        x[e].task.workload[n] # 0 /\ ResultUnits > x[e].task.workload[n]
     IN  x' = [x EXCEPT ![e] = IF exceeded THEN Refuse(e, @, 400)
                                ELSE Respond(e, @, 200, ResultUnits)]
  /\ Release(e)
  /\ UNCHANGED <<rows, now>>

\* The metrics' size is computed and checked under the lock, before the
\* tables are copied.
FinishMetrics(e) ==
  /\ x[e].phase = "locked" /\ x[e].task.kind = "metrics"
  /\ x' = [x EXCEPT ![e] = IF Fits(e, ResultUnits) THEN Respond(e, @, 200, ResultUnits)
                            ELSE ExceedsLimit(e, @)]
  /\ Release(e)
  /\ UNCHANGED <<rows, now>>

(***************************************************************************)
(* Writing.  The peer takes some of the bytes, or the connection fails.    *)
(***************************************************************************)
Write(e) ==
  /\ x[e].phase = "write"
  /\ \E n \in 1 .. x[e].unsent :
       LET b == [x[e] EXCEPT !.unsent = @ - n] IN
       x' = [x EXCEPT ![e] = IF b.unsent = 0 THEN [b EXCEPT !.phase = "done", !.result = "ok"]
                              ELSE Blocking(e, b, "write_timeout", "write_error")]
  /\ UNCHANGED <<lock, rows, now>>

WriteFails(e) ==
  /\ x[e].phase = "write"
  /\ x' = [x EXCEPT ![e] = [@ EXCEPT !.phase = "done", !.result = "write_error"]]
  /\ UNCHANGED <<lock, rows, now>>

\* Mutant of TimesOut: a blocked write is left without a timeout.
TimesOut_NotWriting(e) ==
  /\ x[e].phase \in {"header", "body"} /\ now = x[e].wake
  /\ x' = [x EXCEPT ![e] = [@ EXCEPT !.phase = "done", !.result = "read_error"]]
  /\ UNCHANGED <<lock, rows, now>>

\* The socket timeout of a blocked call fires.
TimesOut(e) ==
  /\ x[e].phase \in {"header", "body", "write"} /\ now = x[e].wake
  /\ x' = [x EXCEPT ![e] =
       [@ EXCEPT !.phase = "done",
                 !.result = IF x[e].phase = "write" THEN "write_error" ELSE "read_error"]]
  /\ UNCHANGED <<lock, rows, now>>

(***************************************************************************)
(* The rest of the world.                                                  *)
(***************************************************************************)
AppLocks ==
  /\ CanWrite
  /\ Acquire(Other, "write")
  /\ UNCHANGED <<x, rows, now>>

AppUnlocks ==
  /\ Other \in lock.holders
  /\ Release(Other)
  /\ UNCHANGED <<x, rows, now>>

AppPanics ==
  /\ Other \in lock.holders
  /\ lock' = [mode |-> "poisoned", holders |-> {}]
  /\ UNCHANGED <<x, rows, now>>

\* Time does not pass a socket timeout that is due.
Tick ==
  /\ now < ClockMax
  /\ \A e \in Exchanges : x[e].phase \in {"header", "body", "write"} => now # x[e].wake
  /\ now' = now + 1
  /\ UNCHANGED <<x, lock, rows>>

Init ==
  /\ \E lineup \in Lineups :
       x = [e \in Exchanges |-> IF e \in lineup THEN Fresh ELSE [Fresh EXCEPT !.phase = "absent"]]
  /\ lock = [mode |-> "free", holders |-> {}]
  /\ rows = <<>>
  /\ now = 0

\* What the exchange's own thread does; the peer owes nothing.
Proceed(e) ==
  \/ Begin(e) \/ TakeTask(e) \/ Ping(e) \/ Ready(e) \/ TryLock(e)
  \/ FinishInsert(e) \/ FinishQuery(e) \/ FinishMetrics(e) \/ TimesOut(e)

Peer(e) ==
  \/ Start(e) \/ ReadHeaderByte(e) \/ ReadBodyBytes(e) \/ PeerCloses(e) \/ ReadFails(e)
  \/ Write(e) \/ WriteFails(e)

Next ==
  \/ \E e \in Exchanges : Proceed(e) \/ Peer(e)
  \/ AppLocks \/ AppUnlocks \/ AppPanics
  \/ Tick

Spec == Init /\ [][Next]_vars

\* Threads run and time passes.  Nothing is assumed of peers or of the
\* application, which may keep the lock for ever.
FairSpec == Spec /\ WF_vars(Tick) /\ \A e \in Exchanges : WF_vars(Proceed(e))

(***************************************************************************)
(* Properties.                                                             *)
(***************************************************************************)
\* The access the request's credentials really carry, from the configuration:
\* exactly one header of each required name, with a configured pair's value.
Presents(r, name, value) ==
  \E k \in DOMAIN r.fields :
    /\ r.fields[k].name = name /\ r.fields[k].value = value
    /\ \A j \in DOMAIN r.fields : r.fields[j].name = name => j = k

Granted(h, r) ==
  {p.role : p \in {q \in h.principals :
     /\ h.auth = "bearer" => Presents(r, "authorization", q.key)
     /\ h.auth \in {"key", "principal", "set"} => Presents(r, "key", q.key)
     /\ h.auth \in {"principal", "set"} => Presents(r, "user", q.user)}}

Known(e) == x[e].request # None
Allowed(e) == Configured(x[e].handler) => Granted(x[e].handler, x[e].request) # {}
MayWrite(e) ==
  /\ Configured(x[e].handler)
  /\ "rw" \in Granted(x[e].handler, x[e].request)
  /\ x[e].request.method = "POST"
  /\ ~\E k \in DOMAIN x[e].request.params :
        x[e].request.params[k].name = "readonly" /\ x[e].request.params[k].number = 1

\* Before the credentials are found good no byte of the body is read and the
\* database, its lock included, is not touched; a refused request is refused
\* alike whatever the handler's access, so that a read-only handler does not
\* show that it lacks the insert routes; and no request without write access,
\* through any route, method, FORMAT clause or mixed batch, changes the
\* database, and none changes it twice.
AccessIsEnforced ==
  /\ \A e \in Exchanges : Known(e) =>
       /\ x[e].body_read > 0 \/ x[e].touched => Allowed(e)
       /\ ~Allowed(e) =>
            \A access \in {"ro", "rw"} :
              ParseHeaders([x[e].handler EXCEPT !.access = access], x[e].request)
                = ParseHeaders(x[e].handler, x[e].request)
  /\ \A k \in DOMAIN rows : MayWrite(rows[k])
  /\ \A j, k \in DOMAIN rows : rows[j] = rows[k] => j = k

\* What the peer is told is what happened: rows are in the database exactly
\* when their insert is answered 200, the caller's other errors leave nothing
\* behind, and only a failed write leaves the peer in doubt.
AnswersAreTruthful ==
  \A e \in Exchanges :
    LET applied == \E k \in DOMAIN rows : rows[k] = e
        inserting == x[e].task # None /\ IsInsert(x[e].task)
    IN  /\ x[e].phase \in {"write", "done"} /\ x[e].status = 200 /\ inserting => applied
        /\ applied => x[e].status = 200 /\ x[e].result \in {"none", "ok", "write_error"}
        /\ x[e].result = "ok" => x[e].status # 0 /\ x[e].unsent = 0
        /\ x[e].result = "limit_error" => x[e].status = 0

\* No exchange waits for its peer beyond the deadline counted from the moment
\* it was accepted, however the peer spaces its bytes.
DeadlinesAreAbsolute ==
  \A e \in Exchanges :
    /\ x[e].phase \in {"header", "body"} => now <= x[e].accepted_at + x[e].read_timeout
    /\ x[e].phase = "write" => now <= x[e].accepted_at + x[e].write_timeout

\* Every exchange that is accepted ends, with a silent peer, with the
\* application holding the lock for ever, or with the lock poisoned.
EveryExchangeEnds ==
  \A e \in Exchanges : x[e].phase = "start" ~> x[e].phase = "done"
=============================================================================
