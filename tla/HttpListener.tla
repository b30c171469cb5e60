---------------------------- MODULE HttpListener ----------------------------
(***************************************************************************)
(* The bounded HTTP listeners (src/src/http.rs).                           *)
(*                                                                         *)
(*   "sequential"   serve_http_connections: one exchange at a time, on the *)
(*                  listener's own thread;                                 *)
(*   "blocking"     serve_http_concurrently: a scoped thread per           *)
(*                  connection, at most Cap of them, a blocking accept;    *)
(*   "cancellable"  serve_http_concurrently_until_cancelled: the same with *)
(*                  a nonblocking accept, a stop flag that another thread  *)
(*                  sets, and the listening socket closed before draining. *)
(*                                                                         *)
(* Workers report on a channel.  An exchange ends "ok", with a transport   *)
(* error "err", or with a "panic", which the worker reports before it      *)
(* unwinds and which the listener propagates after the scope has joined    *)
(* the other workers.                                                      *)
(***************************************************************************)
EXTENDS Integers, Sequences, FiniteSets, Functions

CONSTANTS
  Variants,        \* the listeners that may be started
  MaxConnections,  \* HttpListenerLimits::max_connections
  Cap,             \* max_in_flight_connections
  MaxClients       \* bound: connections that clients attempt

ASSUME ListenerAssumption ==
  /\ Variants \subseteq {"sequential", "blocking", "cancellable"}
  /\ MaxConnections \in Nat
  /\ Cap \in Nat \ {0}
  /\ MaxClients \in Nat

Connections == 1 .. MaxConnections
Outcomes == {"ok", "err", "panic"}

VARIABLES
  variant,
  phase,       \* where the listener's thread is
  stop,        \* stop_requested: "no", "yes"
  socket,      \* the listening socket: "open", "closed"
  arrived,     \* connection attempts so far
  backlog,     \* connections waiting to be accepted
  accepted,    \* report.accepted_connections
  succeeded,   \* report.successful_exchanges
  failures,    \* report.connection_failures, by connection number
  broken,      \* whether accept failed: "no", "yes"
  workers,     \* in-flight connections, as the listener knows them
  running,     \* connections whose exchange has not ended
  channel      \* completions not received yet

report == <<accepted, succeeded, failures, broken>>
clients == <<stop, arrived, backlog>>
vars == <<variant, phase, clients, socket, report, workers, running, channel>>

Concurrent == variant # "sequential"
Cancellable == variant = "cancellable"

(***************************************************************************)
(* The callers.                                                            *)
(***************************************************************************)
Connect ==
  /\ socket = "open"
  /\ arrived < MaxClients
  /\ arrived' = arrived + 1
  /\ backlog' = backlog + 1
  /\ UNCHANGED <<variant, phase, stop, socket, report, workers, running, channel>>

RequestStop ==
  /\ Cancellable
  /\ stop' = "yes"
  /\ UNCHANGED <<variant, phase, arrived, backlog, socket, report, workers, running, channel>>

(***************************************************************************)
(* The listener's thread.                                                  *)
(***************************************************************************)
\* Return at once, fail to make the socket nonblocking, or enter the loop.
Start ==
  /\ phase = "start"
  /\ \/ /\ MaxConnections = 0 \/ (Cancellable /\ stop = "yes")
        /\ phase' = "returned"
        /\ UNCHANGED broken
     \/ /\ Cancellable /\ stop = "no" /\ MaxConnections # 0
        /\ phase' = "returned"
        /\ broken' = "yes"
     \/ /\ Cancellable => stop = "no"
        /\ MaxConnections # 0
        /\ phase' = "loop"
        /\ UNCHANGED broken
  /\ socket' = IF phase' = "returned" /\ Cancellable THEN "closed" ELSE socket
  /\ UNCHANGED <<variant, clients, accepted, succeeded, failures, workers, running, channel>>

\* The budget is spent, or the stop flag is seen at the top of the loop.  The
\* cancellable listener owns its socket and closes it before it drains.
CloseAdmission ==
  /\ phase = "loop"
  /\ accepted = MaxConnections \/ (Cancellable /\ stop = "yes")
  /\ phase' = "drain"
  /\ socket' = IF Cancellable THEN "closed" ELSE socket
  /\ UNCHANGED <<variant, clients, report, workers, running, channel>>

\* Mutant of HasCapacity: the cap is tested one connection late.
HasCapacity_Late == Cardinality(workers) <= Cap

HasCapacity == Cardinality(workers) # Cap

\* A connection is taken from the backlog.
Accept ==
  /\ phase = "loop"
  /\ accepted < MaxConnections
  /\ Concurrent => HasCapacity
  /\ backlog > 0
  /\ backlog' = backlog - 1
  /\ phase' = "accepted"
  /\ UNCHANGED <<variant, stop, arrived, socket, report, workers, running, channel>>

\* Any accept error but Interrupted and WouldBlock ends admission.
AcceptFails ==
  /\ phase = "loop"
  /\ accepted < MaxConnections
  /\ Concurrent => HasCapacity
  /\ broken' = "yes"
  /\ phase' = "drain"
  /\ socket' = IF Cancellable THEN "closed" ELSE socket
  /\ UNCHANGED <<variant, clients, accepted, succeeded, failures, workers, running, channel>>

\* The stop flag is set between accept and dispatch: the connection is closed
\* and does not count.
DropRaced ==
  /\ phase = "accepted"
  /\ Cancellable /\ stop = "yes"
  /\ phase' = "drain"
  /\ socket' = "closed"
  /\ UNCHANGED <<variant, clients, report, workers, running, channel>>

\* Otherwise the connection is numbered and its exchange started.
Dispatch ==
  /\ phase = "accepted"
  /\ Cancellable => stop = "no"
  /\ accepted' = accepted + 1
  /\ running' = running \cup {accepted + 1}
  /\ IF Concurrent THEN workers' = workers \cup {accepted + 1} /\ phase' = "loop"
                   ELSE phase' = "serving" /\ UNCHANGED workers
  /\ UNCHANGED <<variant, clients, socket, succeeded, failures, broken, channel>>

\* scope.spawn panics when the thread cannot be started.
SpawnFails ==
  /\ phase = "accepted"
  /\ Concurrent
  /\ Cancellable => stop = "no"
  /\ accepted' = accepted + 1
  /\ phase' = "unwind"
  /\ socket' = IF Cancellable THEN "closed" ELSE socket
  /\ UNCHANGED <<variant, clients, succeeded, failures, broken, workers, running, channel>>

\* record_http_listener_exchange.
Record(c, outcome) ==
  IF outcome = "ok" THEN succeeded' = succeeded + 1 /\ UNCHANGED failures
                    ELSE failures' = Append(failures, c) /\ UNCHANGED succeeded

\* The listener waits for a completion: at capacity, while draining, and, if
\* it can be cancelled, when there is nothing to accept.
Awaits ==
  \/ phase = "loop" /\ accepted < MaxConnections /\ ~HasCapacity
  \/ phase = "loop" /\ accepted < MaxConnections /\ Cancellable /\ backlog = 0
  \/ phase = "drain"

\* receive_http_listener_completion: join the worker, record the exchange or
\* pass its panic on.
Receive ==
  /\ Awaits
  /\ workers # {}
  /\ channel # <<>>
  /\ channel' = Tail(channel)
  /\ workers' = workers \ {Head(channel)[1]}
  /\ IF Head(channel)[2] = "panic"
     THEN /\ phase' = "unwind"
          /\ socket' = IF Cancellable THEN "closed" ELSE socket
          /\ UNCHANGED <<succeeded, failures>>
     ELSE Record(Head(channel)[1], Head(channel)[2]) /\ UNCHANGED <<phase, socket>>
  /\ UNCHANGED <<variant, clients, accepted, broken, running>>

\* The sequential listener's exchange.
Serve(outcome) ==
  /\ phase = "serving"
  /\ running' = {}
  /\ IF outcome = "panic"
     THEN phase' = "panicked" /\ UNCHANGED <<succeeded, failures>>
     ELSE phase' = "loop" /\ Record(accepted, outcome)
  /\ UNCHANGED <<variant, clients, socket, accepted, broken, workers, channel>>

\* Mutant of Return: the failures keep the order they came in.
Return_Unsorted ==
  /\ phase = "drain"
  /\ workers = {}
  /\ phase' = "returned"
  /\ UNCHANGED <<variant, clients, socket, report, workers, running, channel>>

\* Everything is received: the failures are sorted, the report is returned.
Return ==
  /\ phase = "drain"
  /\ workers = {}
  /\ phase' = "returned"
  /\ \E order \in Bijection(DOMAIN failures, DOMAIN failures) :
       /\ failures' = [k \in DOMAIN failures |-> failures[order[k]]]
       /\ \A j, k \in DOMAIN failures : j < k => failures'[j] <= failures'[k]
  /\ UNCHANGED <<variant, clients, socket, accepted, succeeded, broken, workers, running, channel>>

\* thread::scope joins every worker before a panic leaves it.
Unwound ==
  /\ phase = "unwind"
  /\ running = {}
  /\ phase' = "panicked"
  /\ UNCHANGED <<variant, clients, socket, report, workers, running, channel>>

(***************************************************************************)
(* A worker: the exchange ends and is reported; nobody may be listening.   *)
(***************************************************************************)
\* Mutant of Complete: a worker that panics does not report first.
Complete_SilentPanic(c, outcome) ==
  /\ Concurrent
  /\ c \in running
  /\ running' = running \ {c}
  /\ channel' = IF phase = "unwind" \/ outcome = "panic"
                THEN channel ELSE Append(channel, <<c, outcome>>)
  /\ UNCHANGED <<variant, phase, clients, socket, report, workers>>

Complete(c, outcome) ==
  /\ Concurrent
  /\ c \in running
  /\ running' = running \ {c}
  /\ channel' = IF phase = "unwind" THEN channel ELSE Append(channel, <<c, outcome>>)
  /\ UNCHANGED <<variant, phase, clients, socket, report, workers>>

Init ==
  /\ variant \in Variants
  /\ phase = "start"
  /\ stop = "no"
  /\ socket = "open"
  /\ arrived = 0
  /\ backlog = 0
  /\ accepted = 0
  /\ succeeded = 0
  /\ failures = <<>>
  /\ broken = "no"
  /\ workers = {}
  /\ running = {}
  /\ channel = <<>>

\* What the listener's thread does by itself; failing is up to the system.
Proceed ==
  \/ Start \/ CloseAdmission \/ Accept \/ DropRaced \/ Dispatch \/ Receive \/ Return
  \/ Unwound
  \/ \E outcome \in Outcomes : Serve(outcome)

Work(c) == \E outcome \in Outcomes : Complete(c, outcome)

Next ==
  \/ Connect \/ RequestStop \/ Proceed \/ AcceptFails \/ SpawnFails
  \/ \E c \in Connections : Work(c)

Spec == Init /\ [][Next]_vars

\* The listener's thread runs; an exchange ends because its reads and writes
\* have absolute deadlines.  Clients and the stop flag promise nothing.
FairSpec ==
  /\ Spec
  /\ WF_vars(Proceed)
  /\ \A c \in Connections : WF_vars(Work(c))

(***************************************************************************)
(* Properties.                                                             *)
(***************************************************************************)
Ended == phase \in {"returned", "panicked"}
Reported == {channel[k][1] : k \in DOMAIN channel}

TypeOK ==
  /\ accepted \in 0 .. MaxConnections
  /\ workers \subseteq 1 .. accepted
  /\ running \subseteq 1 .. accepted
  /\ \A k \in DOMAIN failures : failures[k] \in 1 .. accepted
  /\ backlog \in 0 .. arrived

\* At most max_in_flight_connections exchanges are under way, however
\* completions and new connections interleave, and none outlives the call, not
\* even one that another worker's panic made the listener unwind from.
WorkersAreBounded ==
  /\ Cardinality(running) <= IF Concurrent THEN Cap ELSE 1
  /\ Ended => running = {}

\* Every connection is accounted for exactly once.  While the listener runs,
\* each one it still waits for is being served or has its one completion in
\* the channel: recv never waits for a completion that does not come, and
\* finish_http_listener_completion always finds the worker.  The report then
\* holds all of them, the failures in acceptance order, also after an accept
\* error or a stop.
ReportIsComplete ==
  /\ Concurrent /\ phase \notin {"unwind", "panicked"} =>
       /\ workers = running \cup Reported
       /\ running \cap Reported = {}
       /\ Cardinality(Reported) = Len(channel)
  /\ phase = "returned" =>
       /\ accepted = succeeded + Len(failures)
       /\ \A j, k \in DOMAIN failures : j < k => failures[j] < failures[k]

\* A stop request ends the cancellable listener, with clients or without, at
\* capacity or idle, and every listener that starts to drain returns,
\* whatever the exchanges end with.
ListenerEnds ==
  phase = "drain" \/ (Cancellable /\ stop = "yes") ~> Ended

=============================================================================
