---------------------------- MODULE ServerProofs ----------------------------
(***************************************************************************)
(* Proofs about the threads of a server: the listener that accepts         *)
(* connections and runs their exchanges, and the database that those       *)
(* exchanges share.  The two specifications have no variable in common;    *)
(* each part below is about one of them.                                   *)
(***************************************************************************)
EXTENDS HttpListener, SharedDatabase,
        FiniteSetTheorems, FunctionTheorems, SequenceTheorems, TLAPS

(***************************************************************************)
(* The three listeners of HttpListener for any budget of connections, any  *)
(* cap and any number of clients: no more exchanges run than the cap       *)
(* allows, and every connection is accounted for exactly once.             *)
(***************************************************************************)
Phases ==
  {"start", "loop", "accepted", "serving", "drain", "unwind", "returned", "panicked"}

Unwinding == phase \in {"unwind", "panicked"}

Typed ==
  /\ variant \in {"sequential", "blocking", "cancellable"}
  /\ phase \in Phases
  /\ stop \in {"no", "yes"}
  /\ arrived \in Nat
  /\ backlog \in Nat
  /\ backlog <= arrived
  /\ accepted \in Nat
  /\ accepted <= MaxConnections
  /\ succeeded \in Nat
  /\ failures \in Seq(Connections)
  /\ workers \subseteq 1 .. accepted
  /\ running \subseteq 1 .. accepted
  /\ channel \in Seq(Connections \X Outcomes)

(* What the place of the listener's thread says of the rest. *)
ThreadInv ==
  /\ phase = "start" =>
       accepted = 0 /\ succeeded = 0 /\ workers = {} /\ failures = <<>> /\ channel = <<>>
  /\ phase = "accepted" => accepted < MaxConnections
  /\ phase = "accepted" => (Concurrent => HasCapacity)
  /\ phase = "serving" => ~Concurrent /\ accepted > 0 /\ running = {accepted}
  /\ phase = "unwind" => Concurrent
  /\ phase = "returned" => workers = {}
  /\ phase = "panicked" => running = {}

(* The sequential listener has no workers; a worker's thread outlives its  *)
(* exchange, never the other way round.                                    *)
WorkerInv ==
  /\ Concurrent => running \subseteq workers
  /\ ~Concurrent => workers = {} /\ channel = <<>>
  /\ ~Concurrent /\ phase # "serving" => running = {}
  /\ Cardinality(workers) <= Cap

(* Until a panic unwinds it the listener waits for exactly the connections *)
(* that run or have their one completion in the channel.                   *)
ChannelInv ==
  Concurrent /\ ~Unwinding =>
    /\ workers = running \cup Reported
    /\ running \cap Reported = {}
    /\ \A j, k \in DOMAIN channel : channel[j][1] = channel[k][1] => j = k

(* A recorded failure is a connection that is over, recorded once. *)
SettledInv ==
  /\ \A k \in DOMAIN failures :
       /\ failures[k] <= accepted
       /\ failures[k] \notin workers
       /\ phase = "serving" => failures[k] # accepted
  /\ \A j, k \in DOMAIN failures : failures[j] = failures[k] => j = k

CountInv ==
  ~Unwinding =>
    accepted = succeeded + Len(failures) + Cardinality(workers)
                 + (IF phase = "serving" THEN 1 ELSE 0)

SortedInv ==
  phase = "returned" =>
    \A j, k \in DOMAIN failures : j < k => failures[j] < failures[k]

IInv == Typed /\ ThreadInv /\ WorkerInv /\ ChannelInv /\ SettledInv /\ CountInv /\ SortedInv

-----------------------------------------------------------------------------
(* Cardinalities. *)

(* Connections are numbered from 1, so the sets of them are finite. *)
LEMMA SetsFinite ==
  ASSUME Typed
  PROVE  /\ IsFiniteSet(workers) /\ Cardinality(workers) \in Nat
         /\ IsFiniteSet(running) /\ Cardinality(running) \in Nat
<1>1. 1 \in Int /\ accepted \in Int
  BY DEF Typed
<1>2. IsFiniteSet(1 .. accepted)
  BY <1>1, FS_Interval
<1>3. IsFiniteSet(workers) /\ IsFiniteSet(running)
  BY <1>2, FS_Subset DEF Typed
<1>. QED BY <1>3, FS_CardinalityType

(* Failures are numbered like connections. *)
LEMMA FailureNumbers ==
  ASSUME Typed
  PROVE  /\ Len(failures) \in Nat
         /\ DOMAIN failures = 1 .. Len(failures)
         /\ \A k \in DOMAIN failures : failures[k] \in Nat
<1>1. failures \in Seq(Connections)
  BY DEF Typed
<1>2. Connections \subseteq Nat
  BY DEF Connections
<1>. QED BY <1>1, <1>2, LenProperties, ElementOfSeq

(* recv gets the oldest completion; the others keep their order. *)
LEMMA ChannelHead ==
  ASSUME Typed, channel # <<>>
  PROVE  /\ Len(channel) \in Nat \ {0}
         /\ DOMAIN channel = 1 .. Len(channel)
         /\ Head(channel) = channel[1]
         /\ Head(channel) \in Connections \X Outcomes
         /\ Tail(channel) \in Seq(Connections \X Outcomes)
         /\ DOMAIN Tail(channel) = 1 .. Len(channel) - 1
         /\ \A k \in DOMAIN Tail(channel) : k + 1 \in DOMAIN channel /\ Tail(channel)[k] = channel[k + 1]
<1>1. channel \in Seq(Connections \X Outcomes)
  BY DEF Typed
<1> HIDE DEF Typed
<1>. QED BY <1>1

(* What the channel holds without its oldest completion. *)
LEMMA ReportedTail ==
  ASSUME Typed, channel # <<>>, channel' = Tail(channel),
         \A j, k \in DOMAIN channel : channel[j][1] = channel[k][1] => j = k
  PROVE  /\ Head(channel)[1] \in Reported
         /\ Reported' = Reported \ {Head(channel)[1]}
         /\ \A j, k \in DOMAIN channel' : channel'[j][1] = channel'[k][1] => j = k
<1> DEFINE n == Len(channel)
<1>1. /\ n \in Nat \ {0}
      /\ DOMAIN channel = 1 .. n
      /\ Head(channel) = channel[1]
      /\ DOMAIN channel' = 1 .. n - 1
      /\ \A k \in 1 .. n - 1 : k + 1 \in 1 .. n /\ channel'[k] = channel[k + 1]
  BY ChannelHead
<1> HIDE DEF n
<1>2. Head(channel)[1] \in Reported
  BY <1>1 DEF Reported
<1>3. Reported' \subseteq Reported \ {Head(channel)[1]}
  <2> SUFFICES ASSUME NEW k \in 1 .. n - 1
               PROVE  channel'[k][1] \in Reported \ {Head(channel)[1]}
    BY <1>1 DEF Reported
  <2>1. k + 1 \in 1 .. n /\ k + 1 # 1 /\ 1 \in 1 .. n /\ channel'[k] = channel[k + 1]
    BY <1>1
  <2>. QED BY <1>1, <2>1 DEF Reported
<1>4. Reported \ {Head(channel)[1]} \subseteq Reported'
  <2> SUFFICES ASSUME NEW k \in 1 .. n, channel[k][1] # channel[1][1]
               PROVE  channel[k][1] \in Reported'
    BY <1>1 DEF Reported
  <2>1. k - 1 \in 1 .. n - 1 /\ (k - 1) + 1 = k
    BY <1>1
  <2>2. channel'[k - 1] = channel[k]
    BY <1>1, <2>1
  <2>. QED BY <1>1, <2>1, <2>2 DEF Reported
<1>5. ASSUME NEW j \in 1 .. n - 1, NEW k \in 1 .. n - 1, channel'[j][1] = channel'[k][1]
      PROVE  j = k
  <2>1. channel[j + 1][1] = channel[k + 1][1] /\ j + 1 \in 1 .. n /\ k + 1 \in 1 .. n
    BY <1>1, <1>5
  <2>2. j + 1 = k + 1
    BY <1>1, <2>1
  <2>. QED BY <1>1, <2>2
<1>. QED BY <1>1, <1>2, <1>3, <1>4, <1>5

(* A worker's report adds its connection, once. *)
LEMMA ReportedAppend ==
  ASSUME Typed, NEW c \in Connections, NEW outcome \in Outcomes, c \notin Reported,
         channel' = Append(channel, <<c, outcome>>),
         \A j, k \in DOMAIN channel : channel[j][1] = channel[k][1] => j = k
  PROVE  /\ Reported' = Reported \cup {c}
         /\ \A j, k \in DOMAIN channel' : channel'[j][1] = channel'[k][1] => j = k
<1> DEFINE n == Len(channel)
<1>0. channel \in Seq(Connections \X Outcomes) /\ <<c, outcome>> \in Connections \X Outcomes
  BY DEF Typed
<1>1. /\ n \in Nat
      /\ DOMAIN channel = 1 .. n
      /\ DOMAIN channel' = 1 .. n + 1
      /\ \A k \in 1 .. n : channel'[k] = channel[k]
      /\ channel'[n + 1] = <<c, outcome>>
  BY <1>0
<1> HIDE DEF n
<1>2. \A k \in 1 .. n + 1 : k \in 1 .. n \/ k = n + 1
  BY <1>1
<1>3. n + 1 \in 1 .. n + 1 /\ 1 .. n \subseteq 1 .. n + 1 /\ n + 1 \notin 1 .. n
  BY <1>1
<1>4. channel'[n + 1][1] = c
  BY <1>1
<1>5. Reported' = Reported \cup {c}
  BY <1>1, <1>2, <1>3, <1>4 DEF Reported
<1>6. \A k \in 1 .. n : channel'[k][1] # c
  BY <1>1 DEF Reported
<1>. QED BY <1>1, <1>2, <1>4, <1>5, <1>6

(* One completion per reported connection, as Cardinality says it. *)
LEMMA ReportedCardinality ==
  ASSUME Typed, \A j, k \in DOMAIN channel : channel[j][1] = channel[k][1] => j = k
  PROVE  Cardinality(Reported) = Len(channel)
<1> DEFINE n == Len(channel)
           f == [k \in 1 .. n |-> channel[k][1]]
<1>1. n \in Nat /\ DOMAIN channel = 1 .. n
  BY LenProperties DEF Typed
<1>2. Reported = {channel[k][1] : k \in 1 .. n}
  BY <1>1 DEF Reported
<1>3. f \in [1 .. n -> Reported] /\ \A t \in Reported : \E k \in 1 .. n : f[k] = t
  BY <1>2
<1>4. \A j, k \in 1 .. n : f[j] = f[k] => j = k
  BY <1>1
<1> HIDE DEF f
<1>5. f \in Surjection(1 .. n, Reported)
  BY <1>3, Fun_IsSurj
<1>6. f \in Injection(1 .. n, Reported)
  BY <1>3, <1>4, Fun_IsInj
<1>7. IsFiniteSet(1 .. n) /\ Cardinality(1 .. n) = n
  <2>1. 1 \in Int /\ n \in Int
    BY <1>1
  <2>2. IsFiniteSet(1 .. n) /\ Cardinality(1 .. n) = IF 1 > n THEN 0 ELSE n - 1 + 1
    BY <2>1, FS_Interval
  <2>. QED BY <1>1, <2>2
<1>8. Cardinality(Reported) = Cardinality(1 .. n)
  BY <1>5, <1>6, <1>7, FS_Surjection
<1>. QED BY <1>7, <1>8

-----------------------------------------------------------------------------
(* The inductive step, one lemma per kind of step. *)

(* Nothing is accepted before the listener is called. *)
LEMMA InitIInv == Init => IInv
<1> SUFFICES ASSUME Init PROVE IInv
  OBVIOUS
<1>1. Typed
  BY ListenerAssumption DEF Init, Typed, Phases
<1>2. Cardinality(workers) = 0 /\ Len(failures) = 0
  BY FS_EmptySet DEF Init
<1>3. ThreadInv /\ SettledInv /\ SortedInv
  BY DEF Init, ThreadInv, SettledInv, SortedInv
<1>4. WorkerInv /\ CountInv
  BY <1>2, ListenerAssumption DEF Init, WorkerInv, CountInv, Unwinding
<1>5. ChannelInv
  BY DEF Init, ChannelInv, Reported
<1>. QED BY <1>1, <1>3, <1>4, <1>5 DEF IInv

(* Clients, the stop flag and the steps that only move the listener's      *)
(* thread: connections, workers, completions and the report's counts stay. *)
LEMMA ControlStep ==
  ASSUME IInv,
         UNCHANGED <<variant, accepted, succeeded, failures, workers, running, channel>>,
         \/ Connect \/ RequestStop \/ Start \/ CloseAdmission \/ Accept \/ AcceptFails
         \/ DropRaced \/ Unwound \/ UNCHANGED vars
  PROVE  IInv'
<1>1. phase' \in Phases
  BY DEF IInv, Typed, Phases, Connect, RequestStop, Start, CloseAdmission, Accept,
         AcceptFails, DropRaced, Unwound, vars
<1>2. Typed'
  <2>1. stop' \in {"no", "yes"}
    BY DEF IInv, Typed, Connect, RequestStop, Start, CloseAdmission, Accept, AcceptFails,
           DropRaced, Unwound, vars, clients
  <2>2. arrived' \in Nat /\ backlog' \in Nat /\ backlog' <= arrived'
    BY DEF IInv, Typed, Connect, RequestStop, Start, CloseAdmission, Accept, AcceptFails,
           DropRaced, Unwound, vars, clients
  <2>. QED BY <1>1, <2>1, <2>2 DEF IInv, Typed
<1>3. /\ Concurrent' = Concurrent
      /\ Reported' = Reported
      /\ HasCapacity' = HasCapacity
  BY DEF Concurrent, Reported, HasCapacity
<1>4. phase' = "accepted" => accepted < MaxConnections /\ (Concurrent => HasCapacity)
  BY DEF IInv, ThreadInv, Connect, RequestStop, Start, CloseAdmission, Accept, AcceptFails,
         DropRaced, Unwound, vars
<1>5. /\ phase' = "start" => phase = "start"
      /\ phase' = "serving" => phase = "serving"
      /\ phase = "serving" => phase' = "serving"
      /\ phase' = "unwind" => phase = "unwind"
      /\ phase = "unwind" => Unwinding'
      /\ phase = "panicked" => phase' = "panicked"
  BY DEF Connect, RequestStop, Start, CloseAdmission, Accept, AcceptFails, DropRaced,
         Unwound, vars, Unwinding
<1>6. phase' = "returned" /\ phase # "returned" => phase = "start"
  BY DEF Connect, RequestStop, Start, CloseAdmission, Accept, AcceptFails, DropRaced,
         Unwound, vars
<1>7. phase' = "panicked" /\ phase # "panicked" => phase = "unwind" /\ running = {}
  BY DEF Connect, RequestStop, Start, CloseAdmission, Accept, AcceptFails, DropRaced,
         Unwound, vars
<1>8. Unwinding' => phase \in {"unwind", "panicked"}
  BY <1>5, <1>7 DEF Unwinding
<1>9. Unwinding' = Unwinding
  BY <1>5, <1>8 DEF Unwinding
<1>10. ThreadInv'
  BY <1>3, <1>4, <1>5, <1>6, <1>7 DEF IInv, ThreadInv
<1>11. WorkerInv'
  BY <1>3, <1>5 DEF IInv, WorkerInv
<1>12. ChannelInv'
  BY <1>3, <1>9 DEF IInv, ChannelInv
<1>13. SettledInv' /\ CountInv'
  BY <1>5, <1>9 DEF IInv, SettledInv, CountInv
<1>14. SortedInv'
  BY <1>6 DEF IInv, SortedInv, ThreadInv
<1>. QED BY <1>2, <1>10, <1>11, <1>12, <1>13, <1>14 DEF IInv

(* A connection is numbered and its exchange starts. *)
LEMMA DispatchStep == IInv /\ Dispatch => IInv'
<1> SUFFICES ASSUME IInv, Dispatch PROVE IInv'
  OBVIOUS
<1> DEFINE c == accepted + 1
<1>1. /\ accepted \in Nat /\ accepted < MaxConnections /\ MaxConnections \in Nat
      /\ c \notin workers /\ c \notin running /\ 1 .. accepted \subseteq 1 .. c
      /\ c \in 1 .. c
  BY ListenerAssumption DEF IInv, Typed, ThreadInv, Dispatch
<1>2. Typed'
  <2>1. accepted' \in Nat /\ accepted' <= MaxConnections /\ accepted' = c
    BY <1>1 DEF Dispatch
  <2>2. phase' \in Phases
    BY DEF Dispatch, Phases
  <2>3. workers' \subseteq 1 .. c /\ running' \subseteq 1 .. c
    BY <1>1 DEF IInv, Typed, Dispatch
  <2>. QED BY <2>1, <2>2, <2>3 DEF IInv, Typed, Dispatch, clients
<1>3. /\ Concurrent' = Concurrent
      /\ Reported' = Reported
      /\ Reported \subseteq workers \/ ~Concurrent
  BY DEF Dispatch, Concurrent, Reported, IInv, ChannelInv, Unwinding
<1>4. ~Unwinding /\ ~Unwinding'
  BY DEF Dispatch, Unwinding
<1>5. CASE Concurrent
  <2>1. workers' = workers \cup {c} /\ running' = running \cup {c} /\ phase' = "loop"
    BY <1>5 DEF Dispatch
  <2>2. Cardinality(workers') = Cardinality(workers) + 1 /\ Cardinality(workers) \in Nat
    BY <1>1, <2>1, SetsFinite, FS_AddElement DEF IInv
  <2>3. Cardinality(workers) <= Cap /\ Cardinality(workers) # Cap
    BY <1>5 DEF IInv, WorkerInv, ThreadInv, Dispatch, HasCapacity
  <2>4. ThreadInv'
    BY <2>1 DEF ThreadInv
  <2>5. WorkerInv'
    BY <1>3, <1>5, <2>1, <2>2, <2>3, ListenerAssumption DEF IInv, WorkerInv
  <2>6. ChannelInv'
    BY <1>1, <1>3, <1>4, <1>5, <2>1 DEF IInv, ChannelInv, Dispatch
  <2>7. SettledInv'
    BY <1>1, <2>1, FailureNumbers DEF IInv, SettledInv, Dispatch
  <2>8. CountInv'
    BY <1>1, <1>4, <2>1, <2>2 DEF IInv, CountInv, Dispatch, Typed
  <2>9. SortedInv'
    BY <2>1 DEF SortedInv
  <2>. QED BY <1>2, <2>4, <2>5, <2>6, <2>7, <2>8, <2>9 DEF IInv
<1>6. CASE ~Concurrent
  <2>1. workers' = workers /\ running' = running \cup {c} /\ phase' = "serving"
    BY <1>6 DEF Dispatch
  <2>2. running = {} /\ workers = {}
    BY <1>6 DEF IInv, WorkerInv, Dispatch
  <2>3. ThreadInv'
    BY <1>1, <1>3, <1>6, <2>1, <2>2 DEF ThreadInv, Dispatch
  <2>4. WorkerInv'
    BY <1>3, <1>6, <2>1 DEF IInv, WorkerInv, Dispatch
  <2>5. ChannelInv'
    BY <1>3, <1>6 DEF ChannelInv
  <2>6. SettledInv'
    BY <1>1, <2>1, FailureNumbers DEF IInv, SettledInv, Dispatch
  <2>7. CountInv'
    <3>1. Cardinality(workers) \in Nat
      BY SetsFinite DEF IInv
    <3>2. Len(failures) \in Nat /\ succeeded \in Nat
      BY FailureNumbers DEF IInv, Typed
    <3>3. accepted = succeeded + Len(failures) + Cardinality(workers)
      BY <1>4, <3>1, <3>2 DEF IInv, CountInv, Dispatch
    <3>. QED BY <1>1, <1>4, <2>1, <3>1, <3>2, <3>3 DEF CountInv, Dispatch
  <2>8. SortedInv'
    BY <2>1 DEF SortedInv
  <2>. QED BY <1>2, <2>3, <2>4, <2>5, <2>6, <2>7, <2>8 DEF IInv
<1>. QED BY <1>5, <1>6

(* A thread that cannot be started: its connection counts, no worker runs. *)
LEMMA SpawnFailsStep == IInv /\ SpawnFails => IInv'
<1> SUFFICES ASSUME IInv, SpawnFails PROVE IInv'
  OBVIOUS
<1>1. /\ accepted \in Nat /\ accepted' = accepted + 1 /\ accepted' <= MaxConnections
      /\ 1 .. accepted \subseteq 1 .. accepted'
  BY ListenerAssumption DEF IInv, Typed, ThreadInv, SpawnFails
<1>2. Typed'
  <2>1. phase' \in Phases
    BY DEF SpawnFails, Phases
  <2>2. workers' \subseteq 1 .. accepted' /\ running' \subseteq 1 .. accepted'
    BY <1>1 DEF IInv, Typed, SpawnFails
  <2>. QED BY <1>1, <2>1, <2>2 DEF IInv, Typed, SpawnFails, clients
<1>3. Concurrent /\ Concurrent' /\ phase' = "unwind" /\ Unwinding'
  BY DEF SpawnFails, Concurrent, Unwinding
<1>4. ThreadInv' /\ WorkerInv' /\ ChannelInv' /\ CountInv' /\ SortedInv'
  BY <1>3 DEF IInv, ThreadInv, WorkerInv, ChannelInv, CountInv, SortedInv, SpawnFails
<1>5. SettledInv'
  BY <1>1, <1>3, FailureNumbers DEF IInv, SettledInv, SpawnFails
<1>. QED BY <1>2, <1>4, <1>5 DEF IInv

(* record_http_listener_exchange counts one exchange, and a failure is new. *)
LEMMA RecordStep ==
  ASSUME Typed, Typed', NEW c \in Nat, NEW outcome \in {"ok", "err"}, Record(c, outcome),
         \A k \in DOMAIN failures : failures[k] # c,
         \A j, k \in DOMAIN failures : failures[j] = failures[k] => j = k
  PROVE  /\ succeeded' + Len(failures') = succeeded + Len(failures) + 1
         /\ \A k \in DOMAIN failures' :
              failures'[k] = c \/ \E j \in DOMAIN failures : failures'[k] = failures[j]
         /\ \A j, k \in DOMAIN failures' : failures'[j] = failures'[k] => j = k
<1> DEFINE n == Len(failures)
<1>1. n \in Nat /\ DOMAIN failures = 1 .. n /\ succeeded \in Nat
  BY FailureNumbers DEF Typed
<1>2. CASE outcome = "ok"
  BY <1>1, <1>2 DEF Record
<1>3. CASE outcome = "err"
  <2>1. failures' = Append(failures, c) /\ succeeded' = succeeded
    BY <1>3 DEF Record
  <2>2. /\ DOMAIN failures' = 1 .. n + 1 /\ Len(failures') = n + 1
        /\ \A k \in 1 .. n : failures'[k] = failures[k]
        /\ failures'[n + 1] = c
    BY <2>1 DEF Typed
  <2> HIDE DEF n
  <2>3. \A k \in 1 .. n + 1 : k \in 1 .. n \/ k = n + 1
    BY <1>1
  <2>. QED BY <1>1, <2>1, <2>2, <2>3
<1>. QED BY <1>2, <1>3

(* The report keeps its type, whether an exchange is recorded or not. *)
LEMMA RecordTyped ==
  ASSUME Typed, NEW c \in Connections, NEW outcome,
         Record(c, outcome) \/ UNCHANGED <<succeeded, failures>>
  PROVE  failures' \in Seq(Connections) /\ succeeded' \in Nat
<1>1. failures \in Seq(Connections) /\ succeeded \in Nat
  BY DEF Typed
<1>2. CASE UNCHANGED <<succeeded, failures>>
  BY <1>1, <1>2
<1>3. CASE succeeded' = succeeded + 1 /\ failures' = failures
  BY <1>1, <1>3
<1>4. CASE succeeded' = succeeded /\ failures' = Append(failures, c)
  BY <1>1, <1>4
<1>. QED BY <1>2, <1>3, <1>4 DEF Record

(* A completion is received and recorded, or its panic is passed on. *)
LEMMA ReceiveStep == IInv /\ Receive => IInv'
<1> SUFFICES ASSUME IInv, Receive PROVE IInv'
  OBVIOUS
<1> DEFINE c == Head(channel)[1]
           outcome == Head(channel)[2]
<1>1. c \in Connections /\ outcome \in Outcomes /\ c \in Nat
  BY ChannelHead DEF IInv, Receive, Connections
<1>2. /\ Concurrent /\ Concurrent'
      /\ phase \in {"loop", "drain"} /\ ~Unwinding
      /\ phase' = IF outcome = "panic" THEN "unwind" ELSE phase
      /\ workers' = workers \ {c}
  BY DEF IInv, WorkerInv, Receive, Awaits, Unwinding, Concurrent
<1>3. /\ c \in Reported
      /\ Reported' = Reported \ {c}
      /\ \A j, k \in DOMAIN channel' : channel'[j][1] = channel'[k][1] => j = k
  BY <1>2, ReportedTail DEF IInv, ChannelInv, Receive
<1>4. c \in workers /\ c \notin running
  BY <1>2, <1>3 DEF IInv, ChannelInv
<1>5. /\ Cardinality(workers') = Cardinality(workers) - 1
      /\ Cardinality(workers) \in Nat
      /\ Cardinality(workers) <= Cap
  BY <1>2, <1>4, SetsFinite, FS_RemoveElement DEF IInv, WorkerInv
<1>6. Typed'
  <2>1. phase' \in Phases
    BY <1>2 DEF Phases
  <2>2. channel' \in Seq(Connections \X Outcomes)
    BY ChannelHead DEF IInv, Receive
  <2>3. failures' \in Seq(Connections) /\ succeeded' \in Nat
    <3>1. Record(c, outcome) \/ UNCHANGED <<succeeded, failures>>
      BY DEF Receive
    <3>. QED BY <1>1, <3>1, RecordTyped DEF IInv
  <2>. QED BY <2>1, <2>2, <2>3 DEF IInv, Typed, Receive, clients
<1> HIDE DEF c, outcome
<1>7. ThreadInv'
  BY <1>2 DEF ThreadInv
<1>8. WorkerInv'
  BY <1>2, <1>4, <1>5, ListenerAssumption DEF IInv, WorkerInv, Receive
<1>9. ChannelInv'
  BY <1>2, <1>3, <1>4 DEF IInv, ChannelInv, Receive
<1>10. SortedInv'
  BY <1>2 DEF SortedInv
<1>11. CASE outcome = "panic"
  <2>1. failures' = failures /\ accepted' = accepted /\ phase' = "unwind"
    BY <1>2, <1>11 DEF Receive, outcome
  <2>2. SettledInv'
    BY <1>2, <2>1 DEF IInv, SettledInv
  <2>3. CountInv'
    BY <2>1 DEF CountInv, Unwinding
  <2>. QED BY <1>6, <1>7, <1>8, <1>9, <1>10, <2>2, <2>3 DEF IInv
<1>12. CASE outcome # "panic"
  <2>1. /\ Record(c, outcome) /\ outcome \in {"ok", "err"}
        /\ accepted' = accepted /\ phase' = phase /\ c <= accepted
    BY <1>1, <1>2, <1>4, <1>12 DEF Receive, outcome, c, Outcomes, IInv, Typed
  <2>2. \A k \in DOMAIN failures : failures[k] # c
    BY <1>4 DEF IInv, SettledInv
  <2>3. /\ succeeded' + Len(failures') = succeeded + Len(failures) + 1
        /\ \A k \in DOMAIN failures' :
             failures'[k] = c \/ \E j \in DOMAIN failures : failures'[k] = failures[j]
        /\ \A j, k \in DOMAIN failures' : failures'[j] = failures'[k] => j = k
    BY <1>1, <1>6, <2>1, <2>2, RecordStep DEF IInv, SettledInv
  <2>4. SettledInv'
    BY <1>2, <2>1, <2>3 DEF IInv, SettledInv
  <2>5. CountInv'
    <3>1. Len(failures) \in Nat /\ succeeded \in Nat /\ Len(failures') \in Nat /\ succeeded' \in Nat
      BY <1>6, FailureNumbers DEF IInv, Typed
    <3>2. accepted = succeeded + Len(failures) + Cardinality(workers)
      BY <1>2, <1>5, <3>1 DEF IInv, CountInv
    <3>3. accepted' = succeeded' + Len(failures') + Cardinality(workers') + 0
      BY <1>5, <2>1, <2>3, <3>1, <3>2
    <3>. QED BY <1>2, <2>1, <3>3 DEF CountInv
  <2>. QED BY <1>6, <1>7, <1>8, <1>9, <1>10, <2>4, <2>5 DEF IInv
<1>. QED BY <1>11, <1>12

(* The sequential listener serves the connection it just numbered. *)
LEMMA ServeStep == ASSUME IInv, NEW outcome \in Outcomes, Serve(outcome) PROVE IInv'
<1>1. /\ ~Concurrent /\ ~Concurrent' /\ phase = "serving" /\ accepted \in Nat
      /\ workers = {} /\ workers' = {} /\ channel' = channel /\ channel = <<>>
      /\ running' = {} /\ accepted' = accepted
      /\ phase' = IF outcome = "panic" THEN "panicked" ELSE "loop"
  BY DEF IInv, Typed, ThreadInv, WorkerInv, Serve, Concurrent
<1>2. Cardinality(workers') = Cardinality(workers) /\ Cardinality(workers) = 0
  BY <1>1, FS_EmptySet
<1>3. Typed'
  <2>1. phase' \in Phases /\ running' \subseteq 1 .. accepted'
    BY <1>1 DEF Phases
  <2>2. accepted \in Connections
    BY <1>1, ListenerAssumption DEF IInv, Typed, ThreadInv, Connections
  <2>3. failures' \in Seq(Connections) /\ succeeded' \in Nat
    <3>1. Record(accepted, outcome) \/ UNCHANGED <<succeeded, failures>>
      BY DEF Serve
    <3>. QED BY <2>2, <3>1, RecordTyped DEF IInv
  <2>. QED BY <2>1, <2>3 DEF IInv, Typed, Serve, clients
<1>4. ThreadInv' /\ ChannelInv' /\ SortedInv'
  BY <1>1 DEF ThreadInv, ChannelInv, SortedInv
<1>5. WorkerInv'
  BY <1>1, <1>2 DEF IInv, WorkerInv
<1>6. CASE outcome = "panic"
  <2>1. failures' = failures /\ phase' = "panicked" /\ Unwinding'
    BY <1>1, <1>6 DEF Serve, Unwinding
  <2>2. SettledInv' /\ CountInv'
    BY <1>1, <2>1 DEF IInv, SettledInv, CountInv
  <2>. QED BY <1>3, <1>4, <1>5, <2>2 DEF IInv
<1>7. CASE outcome # "panic"
  <2>1. Record(accepted, outcome) /\ outcome \in {"ok", "err"} /\ phase' = "loop"
    BY <1>1, <1>7 DEF Serve, Outcomes
  <2>2. \A k \in DOMAIN failures : failures[k] # accepted
    BY <1>1 DEF IInv, SettledInv
  <2>3. /\ succeeded' + Len(failures') = succeeded + Len(failures) + 1
        /\ \A k \in DOMAIN failures' :
             failures'[k] = accepted \/ \E j \in DOMAIN failures : failures'[k] = failures[j]
        /\ \A j, k \in DOMAIN failures' : failures'[j] = failures'[k] => j = k
    BY <1>1, <1>3, <2>1, <2>2, RecordStep DEF IInv, SettledInv
  <2>4. SettledInv'
    BY <1>1, <2>1, <2>3 DEF IInv, SettledInv
  <2>5. CountInv'
    <3>1. Len(failures) \in Nat /\ succeeded \in Nat /\ Len(failures') \in Nat /\ succeeded' \in Nat
      BY <1>3, FailureNumbers DEF IInv, Typed
    <3>2. accepted = succeeded + Len(failures) + 1
      BY <1>1, <1>2, <3>1 DEF IInv, CountInv, Unwinding
    <3>3. accepted' = succeeded' + Len(failures') + Cardinality(workers') + 0
      BY <1>1, <1>2, <2>3, <3>1, <3>2
    <3>. QED BY <2>1, <3>3 DEF CountInv
  <2>. QED BY <1>3, <1>4, <1>5, <2>4, <2>5 DEF IInv
<1>. QED BY <1>6, <1>7

(* The failures are put in order: the same connections, each once. *)
LEMMA ReturnStep == IInv /\ Return => IInv'
<1> SUFFICES ASSUME IInv, Return PROVE IInv'
  OBVIOUS
<1> DEFINE n == Len(failures)
<1>1. n \in Nat /\ DOMAIN failures = 1 .. n /\ failures \in [1 .. n -> Connections]
  BY LenProperties DEF IInv, Typed
<1>2. PICK order \in Bijection(1 .. n, 1 .. n) :
        /\ failures' = [k \in 1 .. n |-> failures[order[k]]]
        /\ \A j, k \in 1 .. n : j < k => failures'[j] <= failures'[k]
  BY <1>1 DEF Return
<1>3. order \in [1 .. n -> 1 .. n]
  BY Fun_BijectionProperties
<1>4. \A j, k \in 1 .. n : order[j] = order[k] => j = k
  <2>1. order \in Injection(1 .. n, 1 .. n)
    BY Fun_BijectionProperties
  <2>. QED BY <2>1, Fun_InjectionProperties
<1>5. /\ failures' \in Seq(Connections)
      /\ Len(failures') = n
      /\ DOMAIN failures' = 1 .. n
      /\ \A k \in 1 .. n : order[k] \in 1 .. n /\ failures'[k] = failures[order[k]]
  <2>1. failures' \in [1 .. n -> Connections]
    BY <1>1, <1>2, <1>3
  <2>2. failures' \in Seq(Connections)
    BY <1>1, <2>1, SeqDef
  <2>3. DOMAIN failures' = 1 .. n /\ DOMAIN failures' = 1 .. Len(failures')
    BY <2>1, <2>2, LenProperties
  <2>4. Len(failures') = n
    BY <1>1, <2>1, <2>2
  <2>. QED BY <1>2, <1>3, <2>2, <2>3, <2>4
<1> HIDE DEF n
<1>6. phase = "drain" /\ phase' = "returned" /\ workers = {} /\ workers' = {} /\ ~Unwinding /\ ~Unwinding'
  BY DEF Return, Unwinding
<1>7. /\ UNCHANGED <<variant, accepted, succeeded, running, channel>>
      /\ Concurrent' = Concurrent /\ Reported' = Reported
  BY DEF Return, Concurrent, Reported
<1>8. \A j, k \in 1 .. n : failures'[j] = failures'[k] => j = k
  BY <1>1, <1>4, <1>5 DEF IInv, SettledInv
<1>9. Typed'
  BY <1>5, <1>6 DEF IInv, Typed, Phases, Return, clients
<1>10. ThreadInv'
  BY <1>6 DEF ThreadInv
<1>11. WorkerInv'
  BY <1>6, <1>7 DEF IInv, WorkerInv
<1>12. ChannelInv'
  BY <1>6, <1>7 DEF IInv, ChannelInv, Return
<1>13. SettledInv'
  BY <1>1, <1>5, <1>6, <1>7, <1>8 DEF IInv, SettledInv
<1>14. CountInv'
  <2>1. Len(failures') = Len(failures)
    BY <1>5 DEF n
  <2>. QED BY <1>6, <1>7, <2>1 DEF IInv, CountInv
<1>15. SortedInv'
  <2>1. \A k \in 1 .. n : failures'[k] \in Nat
    <3>1. \A k \in 1 .. Len(failures') : failures'[k] \in Connections
      BY <1>5, ElementOfSeq
    <3>. QED BY <1>5, <3>1 DEF Connections
  <2> SUFFICES ASSUME NEW j \in 1 .. n, NEW k \in 1 .. n, j < k
               PROVE  failures'[j] < failures'[k]
    BY <1>5 DEF SortedInv
  <2>2. failures'[j] <= failures'[k]
    BY <1>2
  <2>3. failures'[j] # failures'[k]
    BY <1>1, <1>8
  <2>. QED BY <2>1, <2>2, <2>3
<1>. QED BY <1>9, <1>10, <1>11, <1>12, <1>13, <1>14, <1>15 DEF IInv

(* An exchange ends, whatever its outcome, and reports if anyone listens. *)
LEMMA CompleteStep ==
  ASSUME IInv, NEW c \in Connections, NEW outcome \in Outcomes, Complete(c, outcome)
  PROVE  IInv'
<1>1. /\ Concurrent /\ Concurrent' /\ c \in running /\ c \in workers
      /\ running' = running \ {c}
      /\ UNCHANGED <<variant, phase, clients, socket, report, workers>>
  BY DEF IInv, WorkerInv, Complete, Concurrent
<1>2. UNCHANGED <<stop, arrived, backlog, accepted, succeeded, failures>>
  BY <1>1 DEF clients, report
<1>3. phase \notin {"serving", "returned", "panicked"}
  BY <1>1 DEF IInv, ThreadInv
<1>4. Unwinding' = Unwinding /\ HasCapacity' = HasCapacity
  BY <1>1 DEF Unwinding, HasCapacity
<1>5. Typed'
  <2>1. channel' \in Seq(Connections \X Outcomes)
    <3>1. channel \in Seq(Connections \X Outcomes) /\ <<c, outcome>> \in Connections \X Outcomes
      BY DEF IInv, Typed
    <3>. QED BY <3>1 DEF Complete
  <2>. QED BY <1>1, <1>2, <2>1 DEF IInv, Typed
<1>6. ThreadInv'
  <2>1. phase # "start"
    BY <1>1 DEF IInv, ThreadInv
  <2>. QED BY <1>1, <1>2, <1>3, <1>4, <2>1 DEF IInv, ThreadInv
<1>7. WorkerInv'
  BY <1>1 DEF IInv, WorkerInv
<1>8. ChannelInv'
  <2> SUFFICES ASSUME ~Unwinding PROVE ChannelInv'
    BY <1>4 DEF ChannelInv
  <2>1. channel' = Append(channel, <<c, outcome>>)
    BY DEF Complete, Unwinding
  <2>2. /\ workers = running \cup Reported /\ running \cap Reported = {}
        /\ \A j, k \in DOMAIN channel : channel[j][1] = channel[k][1] => j = k
    BY <1>1 DEF IInv, ChannelInv
  <2>3. /\ Reported' = Reported \cup {c}
        /\ \A j, k \in DOMAIN channel' : channel'[j][1] = channel'[k][1] => j = k
    BY <1>1, <2>1, <2>2, ReportedAppend DEF IInv
  <2>. QED BY <1>1, <2>2, <2>3 DEF ChannelInv
<1>9. SettledInv' /\ CountInv' /\ SortedInv'
  BY <1>1, <1>2, <1>4 DEF IInv, SettledInv, CountInv, SortedInv
<1>. QED BY <1>5, <1>6, <1>7, <1>8, <1>9 DEF IInv

(* Every step keeps the invariant. *)
LEMMA NextIInv == IInv /\ [Next]_vars => IInv'
<1> SUFFICES ASSUME IInv, [Next]_vars PROVE IInv'
  OBVIOUS
<1>1. CASE Connect
  BY <1>1, ControlStep DEF Connect, report
<1>2. CASE RequestStop
  BY <1>2, ControlStep DEF RequestStop, report
<1>3. CASE Start
  BY <1>3, ControlStep DEF Start
<1>4. CASE CloseAdmission
  BY <1>4, ControlStep DEF CloseAdmission, report
<1>5. CASE Accept
  BY <1>5, ControlStep DEF Accept, report
<1>6. CASE AcceptFails
  BY <1>6, ControlStep DEF AcceptFails
<1>7. CASE DropRaced
  BY <1>7, ControlStep DEF DropRaced, report
<1>8. CASE Unwound
  BY <1>8, ControlStep DEF Unwound, report
<1>9. CASE UNCHANGED vars
  BY <1>9, ControlStep DEF vars, report
<1>10. CASE Dispatch
  BY <1>10, DispatchStep
<1>11. CASE SpawnFails
  BY <1>11, SpawnFailsStep
<1>12. CASE Receive
  BY <1>12, ReceiveStep
<1>13. CASE \E outcome \in Outcomes : Serve(outcome)
  BY <1>13, ServeStep
<1>14. CASE Return
  BY <1>14, ReturnStep
<1>15. CASE \E c \in Connections : Work(c)
  BY <1>15, CompleteStep DEF Work
<1>. QED BY <1>1, <1>2, <1>3, <1>4, <1>5, <1>6, <1>7, <1>8, <1>9, <1>10, <1>11, <1>12, <1>13,
            <1>14, <1>15 DEF Next, Proceed

-----------------------------------------------------------------------------
(* The theorems. *)

(* The listener's bookkeeping agrees with the threads it started, at every *)
(* step of any of the three loops.                                         *)
THEOREM ListenerInvariance == Spec => []IInv
<1>. QED BY InitIInv, NextIInv, PTL DEF Spec

(* What the invariant says of the cap and of the end of the call. *)
LEMMA BoundedFromInvariant == IInv => WorkersAreBounded
<1> SUFFICES ASSUME IInv PROVE WorkersAreBounded
  OBVIOUS
<1>1. IsFiniteSet(running) /\ IsFiniteSet(workers)
      /\ Cardinality(running) \in Nat /\ Cardinality(workers) \in Nat
  BY SetsFinite DEF IInv
<1>2. CASE Concurrent
  <2>1. Cardinality(running) <= Cardinality(workers)
    BY <1>1, <1>2, FS_Subset DEF IInv, WorkerInv
  <2>2. Cardinality(running) <= Cap
    <3>1. Cardinality(workers) <= Cap
      BY DEF IInv, WorkerInv
    <3>. QED BY <1>1, <2>1, <3>1, ListenerAssumption
  <2>3. Ended => running = {}
    BY <1>2 DEF IInv, ThreadInv, WorkerInv, Ended
  <2>. QED BY <1>2, <2>2, <2>3 DEF WorkersAreBounded
<1>3. CASE ~Concurrent
  <2>1. running = {} \/ running = {accepted}
    BY <1>3 DEF IInv, ThreadInv, WorkerInv
  <2>2. Cardinality(running) <= 1
    <3>1. Cardinality({}) = 0 /\ Cardinality({accepted}) = 1
      BY FS_EmptySet, FS_Singleton
    <3>. QED BY <2>1, <3>1
  <2>3. Ended => running = {}
    BY <1>3 DEF IInv, ThreadInv, WorkerInv, Ended
  <2>. QED BY <1>3, <2>2, <2>3 DEF WorkersAreBounded
<1>. QED BY <1>2, <1>3

(* serve_http_concurrently never has more exchanges under way than         *)
(* max_in_flight_connections, the sequential listener never more than one, *)
(* and none outlives the call, for every budget, cap and interleaving.     *)
THEOREM ListenerIsBounded == Spec => []WorkersAreBounded
<1>. QED BY ListenerInvariance, BoundedFromInvariant, PTL

(* What the invariant says of the channel and of the report. *)
LEMMA CompleteFromInvariant == IInv => ReportIsComplete
<1> SUFFICES ASSUME IInv PROVE ReportIsComplete
  OBVIOUS
<1>1. ASSUME Concurrent, phase \notin {"unwind", "panicked"}
      PROVE  /\ workers = running \cup Reported
             /\ running \cap Reported = {}
             /\ Cardinality(Reported) = Len(channel)
  BY <1>1, ReportedCardinality DEF IInv, ChannelInv, Unwinding
<1>2. ASSUME phase = "returned"
      PROVE  accepted = succeeded + Len(failures)
  <2>1. workers = {} /\ Cardinality(workers) = 0
    BY <1>2, FS_EmptySet DEF IInv, ThreadInv
  <2>2. Len(failures) \in Nat /\ succeeded \in Nat
    BY FailureNumbers DEF IInv, Typed
  <2>. QED BY <1>2, <2>1, <2>2 DEF IInv, CountInv, Unwinding
<1>3. ASSUME phase = "returned"
      PROVE  \A j, k \in DOMAIN failures : j < k => failures[j] < failures[k]
  BY <1>3 DEF IInv, SortedInv
<1>. QED BY <1>1, <1>2, <1>3 DEF ReportIsComplete

(* The report of a listener that returns accounts for every connection it  *)
(* accepted, in acceptance order, and until then recv waits only for       *)
(* completions that come, for every budget, cap and interleaving.          *)
THEOREM ListenerReportIsComplete == Spec => []ReportIsComplete
<1>. QED BY ListenerInvariance, CompleteFromInvariant, PTL

(***************************************************************************)
(* SharedDatabase implements AtomicDatabase, for any set of threads and    *)
(* batches of any length.  The refinement maps the visible state to the    *)
(* one the writer found while somebody writes or wrote and panicked, and   *)
(* to the catalog itself otherwise.                                        *)
(***************************************************************************)
Writing == {"preflight", "apply"}
Reading == {"read", "load", "exchange", "read_on"}
Positions == {"parse", "lock", "done"} \cup Writing \cup Reading

(* A statement of a batch, whole or torn by a panic. *)
Effects == (Threads \X Nat) \cup (Threads \X Nat \X {"torn"})

SharedTypeInv ==
    /\ db \in Seq(Effects) /\ base \in Seq(Effects)
    /\ writer \in Threads \cup {NoThread}
    /\ readers \subseteq Threads
    /\ poisoned \in {"no", "yes"}
    /\ kind \in [Threads -> AllKinds]
    /\ pc \in [Threads -> Positions]
    /\ applied \in [Threads -> Nat]
    /\ seen = [t \in Threads |-> seen[t]]
    /\ answer = [t \in Threads |-> answer[t]]

(* The lock agrees with where the threads are. *)
LockInv ==
    /\ \A t \in Threads : pc[t] \in Writing <=> writer = t
    /\ \A t \in Threads : pc[t] \in Reading <=> t \in readers
    /\ writer # NoThread => readers = {} /\ poisoned = "no"
    /\ readers # {} => poisoned = "no"

(* What the writer added is a prefix of its batch, after what it found. *)
WriterInv ==
    \A t \in Threads :
        /\ pc[t] \in {"parse", "lock", "preflight"} => applied[t] = 0
        /\ applied[t] <= Statements
        /\ pc[t] = "preflight" => kind[t] # "execute"
        /\ writer = t => Writes(t) /\ db = base \o Atomic!Batch(t, applied[t])

(* A query between its two reads still sees what it saw first. *)
ReaderInv ==
    \A t \in Threads :
        /\ pc[t] \in {"load", "exchange", "read_on"} => seen[t] = db
        /\ pc[t] # "done" => answer[t] = NoAnswer

SharedInv == SharedTypeInv /\ LockInv /\ WriterInv /\ ReaderInv

(* No call has begun: the lock is free and nothing is applied. *)
LEMMA InitShared == SharedInit => SharedInv
BY SharedAssumption DEF SharedInit, SharedInv, SharedTypeInv, LockInv, WriterInv, ReaderInv,
   Positions, Writing, Reading

-----------------------------------------------------------------------------
(* Appending an element of the right type. *)
LEMMA AppendTyped ==
    ASSUME NEW S, NEW a \in Seq(S), NEW x \in S
    PROVE  Append(a, x) \in Seq(S)
OBVIOUS

(* Append and concatenation associate. *)
LEMMA AppendConcat ==
    ASSUME NEW S, NEW a \in Seq(S), NEW b \in Seq(S), NEW x \in S
    PROVE  Append(a \o b, x) = a \o Append(b, x)
OBVIOUS

(* Applying the next statement of a batch makes its prefix one longer. *)
LEMMA BatchGrows ==
    ASSUME NEW t \in Threads, NEW k \in Nat, base \in Seq(Effects)
    PROVE  Append(base \o Atomic!Batch(t, k), <<t, k + 1>>) = base \o Atomic!Batch(t, k + 1)
<1>1. Atomic!Batch(t, k) \in Seq(Effects) /\ <<t, k + 1>> \in Effects
  BY DEF Atomic!Batch, Effects
<1>2. Append(Atomic!Batch(t, k), <<t, k + 1>>) = Atomic!Batch(t, k + 1)
  BY DEF Atomic!Batch
<1>3. Append(base \o Atomic!Batch(t, k), <<t, k + 1>>)
        = base \o Append(Atomic!Batch(t, k), <<t, k + 1>>)
  BY <1>1, AppendConcat
<1>. QED BY <1>2, <1>3

(* A batch of which no statement was applied adds nothing. *)
LEMMA EmptyBatch ==
    ASSUME NEW t \in Threads, base \in Seq(Effects)
    PROVE  base \o Atomic!Batch(t, 0) = base
BY DEF Atomic!Batch

(* Each kind of step keeps the types. *)
LEMMA StepType ==
    ASSUME SharedInv, NEW t \in Threads, Step(t)
    PROVE  SharedTypeInv'
<1>1. CASE Parse(t)
  BY <1>1, SharedAssumption DEF Parse, Goto, Answer, SharedInv, SharedTypeInv, lockVars,
     Positions, Writing, Reading
<1>2. CASE LockRead(t)
  BY <1>2, SharedAssumption DEF LockRead, Goto, Answer, SharedInv, SharedTypeInv, lockVars,
     Positions, Writing, Reading
<1>3. CASE LockWrite(t)
  BY <1>3, SharedAssumption DEF LockWrite, Goto, Answer, SharedInv, SharedTypeInv, lockVars,
     Positions, Writing, Reading
<1>4. CASE Busy(t)
  BY <1>4, SharedAssumption DEF Busy, Goto, Answer, SharedInv, SharedTypeInv, lockVars,
     Positions, Writing, Reading
<1>5. CASE FindPoison(t)
  BY <1>5, SharedAssumption DEF FindPoison, Goto, Answer, SharedInv, SharedTypeInv, lockVars,
     Positions, Writing, Reading
<1>6. CASE Preflight(t)
  BY <1>6, SharedAssumption DEF Preflight, Goto, Answer, Unlock, SharedInv, SharedTypeInv,
     lockVars, Positions, Writing, Reading
<1>7. CASE Apply(t)
  BY <1>7, SharedAssumption DEF Apply, Goto, Answer, SharedInv, SharedTypeInv, lockVars,
     Positions, Writing, Reading, Effects
<1>8. CASE StatementFails(t)
  BY <1>8, SharedAssumption DEF StatementFails, Goto, Answer, Unlock, SharedInv, SharedTypeInv,
     lockVars, Positions, Writing, Reading
<1>9. CASE Finish(t)
  BY <1>9, SharedAssumption DEF Finish, Goto, Answer, Unlock, SharedInv, SharedTypeInv, lockVars,
     Positions, Writing, Reading
<1>10. CASE WriterPanics(t)
  <2>1. <<t, applied[t] + 1, "torn">> \in Effects
    BY DEF SharedInv, SharedTypeInv, Effects
  <2>2. db' \in Seq(Effects)
    <3>1. db' = db \/ db' = Append(db, <<t, applied[t] + 1, "torn">>)
      BY <1>10 DEF WriterPanics
    <3>2. db \in Seq(Effects)
      BY DEF SharedInv, SharedTypeInv
    <3>3. Append(db, <<t, applied[t] + 1, "torn">>) \in Seq(Effects)
      BY <2>1, <3>2, AppendTyped
    <3>. QED BY <3>1, <3>2, <3>3
  <2>3. pc' \in [Threads -> Positions] /\ answer' = [u \in Threads |-> answer'[u]]
    BY <1>10 DEF WriterPanics, Goto, Answer, SharedInv, SharedTypeInv, Positions
  <2>. QED BY <1>10, <2>2, <2>3 DEF WriterPanics, SharedInv, SharedTypeInv
<1>11. CASE ReadFirst(t)
  BY <1>11, SharedAssumption DEF ReadFirst, Goto, Answer, SharedInv, SharedTypeInv, lockVars,
     Positions, Writing, Reading
<1>12. CASE LoadCounter(t)
  BY <1>12, SharedAssumption DEF LoadCounter, Goto, Answer, SharedInv, SharedTypeInv, lockVars,
     Positions, Writing, Reading
<1>13. CASE ExchangeCounter(t)
  BY <1>13, SharedAssumption DEF ExchangeCounter, Goto, Answer, SharedInv, SharedTypeInv,
     lockVars, Positions, Writing, Reading
<1>14. CASE ReadOn(t)
  BY <1>14, SharedAssumption DEF ReadOn, Goto, Answer, SharedInv, SharedTypeInv, lockVars,
     Positions, Writing, Reading
<1>15. CASE ReaderPanics(t)
  BY <1>15, SharedAssumption DEF ReaderPanics, Goto, Answer, SharedInv, SharedTypeInv, lockVars,
     Positions, Writing, Reading
<1>. QED BY <1>1, <1>2, <1>3, <1>4, <1>5, <1>6, <1>7, <1>8, <1>9, <1>10, <1>11, <1>12, <1>13,
         <1>14, <1>15 DEF Step

(* Each kind of step keeps the lock in agreement with the threads. *)
LEMMA StepLock ==
    ASSUME SharedInv, NEW t \in Threads, Step(t)
    PROVE  LockInv'
<1>1. CASE Parse(t)
  BY <1>1, SharedAssumption DEF Parse, Goto, Answer, SharedInv, SharedTypeInv, LockInv, lockVars,
     Positions, Writing, Reading
<1>2. CASE LockRead(t)
  BY <1>2, SharedAssumption DEF LockRead, Goto, Answer, SharedInv, SharedTypeInv, LockInv, lockVars,
     Positions, Writing, Reading, ReadLockable
<1>3. CASE LockWrite(t)
  BY <1>3, SharedAssumption DEF LockWrite, Goto, Answer, SharedInv, SharedTypeInv, LockInv,
     lockVars,
     Positions, Writing, Reading, WriteLockable
<1>4. CASE Busy(t)
  BY <1>4, SharedAssumption DEF Busy, Goto, Answer, SharedInv, SharedTypeInv, LockInv, lockVars,
     Positions, Writing, Reading
<1>5. CASE FindPoison(t)
  BY <1>5, SharedAssumption DEF FindPoison, Goto, Answer, SharedInv, SharedTypeInv, LockInv,
     lockVars,
     Positions, Writing, Reading
<1>6. CASE Preflight(t)
  <2>1. CASE pc[t] = "preflight" /\ pc' = [pc EXCEPT ![t] = "apply"] /\ UNCHANGED lockVars
    BY <2>1 DEF SharedInv, SharedTypeInv, LockInv, lockVars, Positions, Writing, Reading
  <2>2. CASE pc[t] = "preflight" /\ pc' = [pc EXCEPT ![t] = "done"] /\ Unlock(t)
    BY <2>2, SharedAssumption DEF Unlock, SharedInv, SharedTypeInv, LockInv, Positions, Writing,
       Reading
  <2>. QED BY <1>6, <2>1, <2>2 DEF Preflight, Goto, Answer
<1>7. CASE Apply(t)
  BY <1>7, SharedAssumption DEF Apply, Goto, Answer, SharedInv, SharedTypeInv, LockInv, lockVars,
     Positions, Writing, Reading
<1>8. CASE StatementFails(t)
  BY <1>8, SharedAssumption DEF StatementFails, Goto, Answer, Unlock, SharedInv, SharedTypeInv,
     LockInv, lockVars,
     Positions, Writing, Reading
<1>9. CASE Finish(t)
  BY <1>9, SharedAssumption DEF Finish, Goto, Answer, Unlock, SharedInv, SharedTypeInv, LockInv,
     lockVars,
     Positions, Writing, Reading
<1>10. CASE WriterPanics(t)
  BY <1>10, SharedAssumption DEF WriterPanics, Goto, Answer, SharedInv, SharedTypeInv, LockInv,
     lockVars,
     Positions, Writing, Reading
<1>11. CASE ReadFirst(t)
  BY <1>11, SharedAssumption DEF ReadFirst, Goto, Answer, SharedInv, SharedTypeInv, LockInv,
     lockVars,
     Positions, Writing, Reading
<1>12. CASE LoadCounter(t)
  BY <1>12, SharedAssumption DEF LoadCounter, Goto, Answer, SharedInv, SharedTypeInv, LockInv,
     lockVars,
     Positions, Writing, Reading
<1>13. CASE ExchangeCounter(t)
  BY <1>13, SharedAssumption DEF ExchangeCounter, Goto, Answer, SharedInv, SharedTypeInv,
     LockInv, lockVars,
     Positions, Writing, Reading
<1>14. CASE ReadOn(t)
  BY <1>14, SharedAssumption DEF ReadOn, Goto, Answer, SharedInv, SharedTypeInv, LockInv, lockVars,
     Positions, Writing, Reading
<1>15. CASE ReaderPanics(t)
  BY <1>15, SharedAssumption DEF ReaderPanics, Goto, Answer, SharedInv, SharedTypeInv, LockInv,
     lockVars,
     Positions, Writing, Reading
<1>. QED BY <1>1, <1>2, <1>3, <1>4, <1>5, <1>6, <1>7, <1>8, <1>9, <1>10, <1>11, <1>12, <1>13,
         <1>14, <1>15 DEF Step

(* A step of t says nothing about the batch of another writer. *)
LEMMA StepWriter ==
    ASSUME SharedInv, NEW t \in Threads, Step(t)
    PROVE  WriterInv'
<1>a. SharedTypeInv /\ LockInv /\ WriterInv
  BY DEF SharedInv
<1>1. CASE Parse(t)
  BY <1>1, <1>a, SharedAssumption DEF Parse, Goto, Answer, SharedTypeInv, LockInv, WriterInv,
     lockVars,
     Writes, Writing, Atomic!Batch
<1>2. CASE LockRead(t)
  BY <1>2, <1>a, SharedAssumption DEF LockRead, Goto, Answer, SharedTypeInv, LockInv, WriterInv,
     lockVars,
     Writes, Writing, Atomic!Batch
<1>3. CASE LockWrite(t)
  <2>1. base' \o Atomic!Batch(t, 0) = base'
    BY <1>3, <1>a DEF LockWrite, SharedTypeInv, Atomic!Batch
  <2>. QED BY <1>3, <1>a, <2>1, SharedAssumption DEF LockWrite, Goto, SharedTypeInv, LockInv,
           WriterInv,
           Writes, Writing, Atomic!Batch
<1>4. CASE Busy(t)
  BY <1>4, <1>a, SharedAssumption DEF Busy, Goto, Answer, SharedTypeInv, LockInv, WriterInv,
     lockVars,
     Writes, Writing, Atomic!Batch
<1>5. CASE FindPoison(t)
  BY <1>5, <1>a, SharedAssumption DEF FindPoison, Goto, Answer, SharedTypeInv, LockInv,
     WriterInv, lockVars,
     Writes, Writing, Atomic!Batch
<1>6. CASE Preflight(t)
  BY <1>6, <1>a, SharedAssumption DEF Preflight, Goto, Answer, Unlock, SharedTypeInv, LockInv,
     WriterInv, lockVars,
     Writes, Writing, Atomic!Batch
<1>7. CASE Apply(t)
  <2>1. writer = t /\ db = base \o Atomic!Batch(t, applied[t]) /\ applied[t] \in Nat
    BY <1>7, <1>a DEF Apply, SharedTypeInv, LockInv, WriterInv, Writing
  <2>2. db' = base \o Atomic!Batch(t, applied[t] + 1)
    BY <1>7, <1>a, <2>1, BatchGrows DEF Apply, SharedTypeInv
  <2>3. /\ pc[t] = "apply" /\ applied[t] < Statements
        /\ applied' = [applied EXCEPT ![t] = applied[t] + 1]
        /\ UNCHANGED <<base, writer, kind, pc>>
    BY <1>7 DEF Apply, lockVars
  <2>4. applied'[t] = applied[t] + 1 /\ \A u \in Threads : u # t => applied'[u] = applied[u]
    BY <1>a, <2>3 DEF SharedTypeInv
  <2>5. ASSUME NEW u \in Threads
        PROVE  /\ pc'[u] \in {"parse", "lock", "preflight"} => applied'[u] = 0
               /\ applied'[u] <= Statements
               /\ pc'[u] = "preflight" => kind'[u] # "execute"
    BY <1>a, <2>1, <2>3, <2>4, SharedAssumption DEF SharedTypeInv, WriterInv
  <2>6. ASSUME NEW u \in Threads, writer' = u
        PROVE  Writes(u)' /\ db' = base' \o Atomic!Batch(u, applied'[u])
    <3>1. u = t
      BY <2>1, <2>3, <2>6
    <3>2. Writes(u)'
      BY <1>a, <2>1, <2>3, <3>1 DEF WriterInv, Writes
    <3>. QED BY <2>2, <2>3, <2>4, <3>1, <3>2
  <2>. QED BY <2>5, <2>6 DEF WriterInv
<1>8. CASE StatementFails(t)
  BY <1>8, <1>a, SharedAssumption DEF StatementFails, Goto, Answer, Unlock, SharedTypeInv,
     LockInv, WriterInv, lockVars,
     Writes, Writing, Atomic!Batch
<1>9. CASE Finish(t)
  BY <1>9, <1>a, SharedAssumption DEF Finish, Goto, Answer, Unlock, SharedTypeInv, LockInv,
     WriterInv, lockVars,
     Writes, Writing, Atomic!Batch
<1>10. CASE WriterPanics(t)
  BY <1>10, <1>a, SharedAssumption DEF WriterPanics, Goto, Answer, SharedTypeInv, LockInv,
     WriterInv, lockVars,
     Writes, Writing, Atomic!Batch
<1>11. CASE ReadFirst(t)
  BY <1>11, <1>a, SharedAssumption DEF ReadFirst, Goto, Answer, SharedTypeInv, LockInv,
     WriterInv, lockVars,
     Writes, Writing, Atomic!Batch
<1>12. CASE LoadCounter(t)
  BY <1>12, <1>a, SharedAssumption DEF LoadCounter, Goto, Answer, SharedTypeInv, LockInv,
     WriterInv, lockVars,
     Writes, Writing, Atomic!Batch
<1>13. CASE ExchangeCounter(t)
  BY <1>13, <1>a, SharedAssumption DEF ExchangeCounter, Goto, Answer, SharedTypeInv, LockInv,
     WriterInv, lockVars,
     Writes, Writing, Atomic!Batch
<1>14. CASE ReadOn(t)
  BY <1>14, <1>a, SharedAssumption DEF ReadOn, Goto, Answer, SharedTypeInv, LockInv, WriterInv,
     lockVars,
     Writes, Writing, Atomic!Batch
<1>15. CASE ReaderPanics(t)
  BY <1>15, <1>a, SharedAssumption DEF ReaderPanics, Goto, Answer, SharedTypeInv, LockInv,
     WriterInv, lockVars,
     Writes, Writing, Atomic!Batch
<1>. QED BY <1>1, <1>2, <1>3, <1>4, <1>5, <1>6, <1>7, <1>8, <1>9, <1>10, <1>11, <1>12, <1>13,
         <1>14, <1>15 DEF Step

(* Readers keep the catalog as they found it: a step that changes it holds the
   write lock, and then there is no reader. *)
LEMMA StepReader ==
    ASSUME SharedInv, NEW t \in Threads, Step(t)
    PROVE  ReaderInv'
<1>a. SharedTypeInv /\ LockInv /\ ReaderInv
  BY DEF SharedInv
<1>1. CASE Parse(t)
  BY <1>1, <1>a, SharedAssumption DEF Parse, Goto, Answer, SharedTypeInv, LockInv, ReaderInv,
     lockVars,
     Writing, Reading
<1>2. CASE LockRead(t)
  BY <1>2, <1>a, SharedAssumption DEF LockRead, Goto, Answer, SharedTypeInv, LockInv, ReaderInv,
     lockVars,
     Writing, Reading
<1>3. CASE LockWrite(t)
  BY <1>3, <1>a, SharedAssumption DEF LockWrite, Goto, Answer, SharedTypeInv, LockInv, ReaderInv,
     lockVars,
     Writing, Reading
<1>4. CASE Busy(t)
  BY <1>4, <1>a, SharedAssumption DEF Busy, Goto, Answer, SharedTypeInv, LockInv, ReaderInv,
     lockVars,
     Writing, Reading
<1>5. CASE FindPoison(t)
  BY <1>5, <1>a, SharedAssumption DEF FindPoison, Goto, Answer, SharedTypeInv, LockInv,
     ReaderInv, lockVars,
     Writing, Reading
<1>6. CASE Preflight(t)
  BY <1>6, <1>a, SharedAssumption DEF Preflight, Goto, Answer, Unlock, SharedTypeInv, LockInv,
     ReaderInv, lockVars,
     Writing, Reading
<1>7. CASE Apply(t)
  BY <1>7, <1>a, SharedAssumption DEF Apply, Goto, Answer, SharedTypeInv, LockInv, ReaderInv,
     lockVars,
     Writing, Reading
<1>8. CASE StatementFails(t)
  BY <1>8, <1>a, SharedAssumption DEF StatementFails, Goto, Answer, Unlock, SharedTypeInv,
     LockInv, ReaderInv, lockVars,
     Writing, Reading
<1>9. CASE Finish(t)
  BY <1>9, <1>a, SharedAssumption DEF Finish, Goto, Answer, Unlock, SharedTypeInv, LockInv,
     ReaderInv, lockVars,
     Writing, Reading
<1>10. CASE WriterPanics(t)
  BY <1>10, <1>a, SharedAssumption DEF WriterPanics, Goto, Answer, SharedTypeInv, LockInv,
     ReaderInv, lockVars,
     Writing, Reading
<1>11. CASE ReadFirst(t)
  BY <1>11, <1>a, SharedAssumption DEF ReadFirst, Goto, Answer, SharedTypeInv, LockInv,
     ReaderInv, lockVars,
     Writing, Reading
<1>12. CASE LoadCounter(t)
  BY <1>12, <1>a, SharedAssumption DEF LoadCounter, Goto, Answer, SharedTypeInv, LockInv,
     ReaderInv, lockVars,
     Writing, Reading
<1>13. CASE ExchangeCounter(t)
  BY <1>13, <1>a, SharedAssumption DEF ExchangeCounter, Goto, Answer, SharedTypeInv, LockInv,
     ReaderInv, lockVars,
     Writing, Reading
<1>14. CASE ReadOn(t)
  BY <1>14, <1>a, SharedAssumption DEF ReadOn, Goto, Answer, SharedTypeInv, LockInv, ReaderInv,
     lockVars,
     Writing, Reading
<1>15. CASE ReaderPanics(t)
  BY <1>15, <1>a, SharedAssumption DEF ReaderPanics, Goto, Answer, SharedTypeInv, LockInv,
     ReaderInv, lockVars,
     Writing, Reading
<1>. QED BY <1>1, <1>2, <1>3, <1>4, <1>5, <1>6, <1>7, <1>8, <1>9, <1>10, <1>11, <1>12, <1>13,
         <1>14, <1>15 DEF Step

(* Every step of a call, and a stutter, keeps the invariant. *)
LEMMA NextShared == SharedInv /\ [SharedNext]_sharedVars => SharedInv'
<1> SUFFICES ASSUME SharedInv, [SharedNext]_sharedVars PROVE SharedInv'
  OBVIOUS
<1>1. ASSUME NEW t \in Threads, Step(t) PROVE SharedInv'
  BY <1>1, StepType, StepLock, StepWriter, StepReader DEF SharedInv
<1>2. CASE UNCHANGED sharedVars
  BY <1>2 DEF sharedVars, lockVars, SharedInv, SharedTypeInv, LockInv, WriterInv, ReaderInv, Writes
<1>. QED BY <1>1, <1>2 DEF SharedNext

(* The inductive invariant of the lock protocol. *)
THEOREM SharedInvariance == SharedSpec => []SharedInv
<1>1. SharedInit => SharedInv
  BY InitShared
<1>2. SharedInv /\ [SharedNext]_sharedVars => SharedInv'
  BY NextShared
<1>. QED BY <1>1, <1>2, PTL DEF SharedSpec

-----------------------------------------------------------------------------
(* The refinement. *)

Visible == IF writer # NoThread \/ poisoned = "yes" THEN base ELSE db

(* The refinement begins in an initial state of AtomicDatabase. *)
LEMMA InitAtomic == SharedInit => Atomic!Init
BY DEF SharedInit, Atomic!Init

(* What a writer that leaves in good order makes visible. *)
LEMMA Published ==
    ASSUME SharedInv, NEW t \in Threads, pc[t] \in Writing, writer' = NoThread,
           UNCHANGED <<db, poisoned>>
    PROVE  /\ Visible = base /\ poisoned = "no"
           /\ Visible' = Visible \o Atomic!Batch(t, applied[t])
<1>1. writer = t /\ t # NoThread /\ poisoned = "no"
  BY SharedAssumption DEF SharedInv, LockInv
<1>2. db = base \o Atomic!Batch(t, applied[t])
  BY <1>1 DEF SharedInv, WriterInv
<1>. QED BY <1>1, <1>2 DEF Visible

(* Every step of a call is one of AtomicDatabase, or does not show there. *)
LEMMA StepAtomic ==
    ASSUME SharedInv, NEW t \in Threads, Step(t)
    PROVE  Atomic!Next \/ UNCHANGED Atomic!atomicVars
<1>a. pc[t] # "done" => answer[t] = NoAnswer
  BY DEF SharedInv, ReaderInv
<1>b. pc[t] \in Writing => writer = t /\ t # NoThread /\ poisoned = "no"
  BY SharedAssumption DEF SharedInv, LockInv
<1>c. pc[t] \in Reading => writer = NoThread /\ poisoned = "no"
  BY SharedAssumption DEF SharedInv, SharedTypeInv, LockInv
<1>1. CASE Parse(t)
  <2>1. CASE UNCHANGED answer
    BY <1>1, <2>1 DEF Parse, lockVars, Atomic!atomicVars
  <2>2. CASE Answer(t, "parse", [status |-> "rejected"])
    <3>1. Atomic!Refuse(t)
      BY <1>1, <1>a, <2>2 DEF Parse, lockVars, Answer, Goto, Atomic!Refuse, Atomic!Returns,
         Atomic!Refusals
    <3>. QED BY <3>1 DEF Atomic!Next
  <2>. QED BY <1>1, <2>1, <2>2 DEF Parse
<1>2. CASE LockRead(t)
  BY <1>2 DEF LockRead, Atomic!atomicVars
<1>3. CASE LockWrite(t)
  BY <1>3, SharedAssumption DEF LockWrite, WriteLockable, Atomic!atomicVars
<1>4. CASE Busy(t)
  <2>1. Atomic!Refuse(t)
    BY <1>4, <1>a DEF Busy, lockVars, Answer, Goto, Atomic!Refuse, Atomic!Returns, Atomic!Refusals
  <2>. QED BY <2>1 DEF Atomic!Next
<1>5. CASE FindPoison(t)
  <2>1. Atomic!Refuse(t)
    BY <1>5, <1>a DEF FindPoison, lockVars, Answer, Goto, Atomic!Refuse, Atomic!Returns,
       Atomic!Refusals
  <2>. QED BY <2>1 DEF Atomic!Next
<1>6. CASE Preflight(t)
  <2>1. CASE UNCHANGED <<lockVars, answer>>
    BY <1>6, <2>1 DEF Preflight, lockVars, Atomic!atomicVars
  <2>2. CASE Answer(t, "preflight", [status |-> "not_inserted", applied |-> 0]) /\ Unlock(t)
    <3>1. applied[t] = 0 /\ base \in Seq(Effects) /\ pc[t] \in Writing
      BY <2>2 DEF Answer, Goto, Writing, SharedInv, SharedTypeInv, WriterInv
    <3>2. Visible' = Visible \o Atomic!Batch(t, applied[t]) /\ Visible = base /\ poisoned = "no"
      BY <1>6, <2>2, <3>1, Published DEF Preflight, Unlock
    <3>3. Visible' = Visible
      BY <3>1, <3>2, EmptyBatch
    <3>4. Atomic!InsertBatch(t)
      BY <1>6, <1>a, <2>2, <3>2, <3>3 DEF Answer, Goto, Unlock, Visible, Atomic!InsertBatch,
         Atomic!Returns
    <3>. QED BY <3>4 DEF Atomic!Next
  <2>. QED BY <1>6, <2>1, <2>2 DEF Preflight
<1>7. CASE Apply(t)
  BY <1>7, <1>b DEF Apply, lockVars, Writing, Atomic!atomicVars
<1>8. CASE StatementFails(t)
  <2>1. applied[t] \in 0..Statements /\ pc[t] \in Writing
    BY <1>8, SharedAssumption DEF StatementFails, Answer, Goto, Writing, SharedInv,
       SharedTypeInv, WriterInv
  <2>2. Visible' = Visible \o Atomic!Batch(t, applied[t]) /\ poisoned = "no"
    BY <1>8, <2>1, Published DEF StatementFails, Unlock
  <2>3. Atomic!Execute(t)
    BY <1>8, <1>a, <2>1, <2>2 DEF StatementFails, Answer, Goto, Unlock, Visible, Atomic!Execute,
       Atomic!Returns
  <2>. QED BY <2>3 DEF Atomic!Next
<1>9. CASE Finish(t)
  <2>1. applied[t] = Statements /\ Statements \in 0..Statements /\ pc[t] \in Writing
    BY <1>9, SharedAssumption DEF Finish, Answer, Goto, Writing
  <2>2. Visible' = Visible \o Atomic!Batch(t, Statements) /\ poisoned = "no"
    BY <1>9, <2>1, Published DEF Finish, Unlock
  <2>3. CASE kind[t] = "execute"
    <3>1. Atomic!Execute(t)
      BY <1>9, <1>a, <2>1, <2>2, <2>3 DEF Finish, Answer, Goto, Unlock, Visible, Atomic!Execute,
         Atomic!Returns
    <3>. QED BY <3>1 DEF Atomic!Next
  <2>4. CASE kind[t] # "execute"
    <3>1. Atomic!InsertBatch(t)
      BY <1>9, <1>a, <2>1, <2>2, <2>4 DEF Finish, Answer, Goto, Unlock, Visible,
         Atomic!InsertBatch, Atomic!Returns
    <3>. QED BY <3>1 DEF Atomic!Next
  <2>. QED BY <2>3, <2>4
<1>10. CASE WriterPanics(t)
  <2>1. pc[t] # "done" /\ t # NoThread
    BY <1>10, SharedAssumption DEF WriterPanics, SharedInv, LockInv, Writing
  <2>2. Atomic!WriterPanics(t)
    BY <1>10, <1>a, <2>1 DEF WriterPanics, Answer, Goto, Atomic!WriterPanics, Atomic!Returns
  <2>. QED BY <2>2 DEF Atomic!Next
<1>11. CASE ReadFirst(t)
  BY <1>11 DEF ReadFirst, lockVars, Atomic!atomicVars
<1>12. CASE LoadCounter(t)
  BY <1>12 DEF LoadCounter, lockVars, Atomic!atomicVars
<1>13. CASE ExchangeCounter(t)
  BY <1>13 DEF ExchangeCounter, lockVars, Atomic!atomicVars
<1>14. CASE ReadOn(t)
  <2>1. seen[t] = db /\ pc[t] \in Reading
    BY <1>14 DEF ReadOn, Answer, Goto, Reading, SharedInv, ReaderInv
  <2>2. Atomic!Query(t)
    BY <1>14, <1>a, <1>c, <2>1 DEF ReadOn, Answer, Goto, Atomic!Query, Atomic!Returns
  <2>. QED BY <2>2 DEF Atomic!Next
<1>15. CASE ReaderPanics(t)
  <2>1. pc[t] # "done"
    BY <1>15 DEF ReaderPanics, SharedInv, LockInv, Reading
  <2>2. Atomic!Refuse(t)
    BY <1>15, <1>a, <2>1 DEF ReaderPanics, Answer, Goto, Atomic!Refuse, Atomic!Returns,
       Atomic!Refusals
  <2>. QED BY <2>2 DEF Atomic!Next
<1>. QED BY <1>1, <1>2, <1>3, <1>4, <1>5, <1>6, <1>7, <1>8, <1>9, <1>10, <1>11, <1>12, <1>13,
         <1>14, <1>15 DEF Step

(* The calls through SharedDatabase handles are atomic, for any threads and any
   batch length. *)
THEOREM SharedIsAtomic == SharedSpec => ImplementsAtomicDatabase
<1>1. SharedInit => Atomic!Init
  BY InitAtomic
<1>2. SharedInv /\ [SharedNext]_sharedVars => [Atomic!Next]_(Atomic!atomicVars)
  <2> SUFFICES ASSUME SharedInv, [SharedNext]_sharedVars PROVE [Atomic!Next]_(Atomic!atomicVars)
    OBVIOUS
  <2>1. ASSUME NEW t \in Threads, Step(t) PROVE Atomic!Next \/ UNCHANGED Atomic!atomicVars
    BY <2>1, StepAtomic
  <2>2. CASE UNCHANGED sharedVars
    BY <2>2 DEF sharedVars, lockVars, Atomic!atomicVars
  <2>. QED BY <2>1, <2>2 DEF SharedNext
<1>. QED BY <1>1, <1>2, SharedInvariance, PTL DEF SharedSpec, Atomic!Spec, ImplementsAtomicDatabase

-----------------------------------------------------------------------------
(* The pruning counters, which readers share without a lock. *)

(* The counter, and what each reader believes it to be. *)
CounterInv ==
    /\ scanned \in Nat /\ added \in Nat
    /\ current \in [Threads -> Nat]
    /\ NoLostScans

(* An addition that finds the counter as it read it counts one more; one that
   does not reads it again. *)
LEMMA ExchangeCounts ==
    ASSUME CounterInv, NEW t \in Threads, ExchangeCounter(t)
    PROVE  CounterInv'
<1>1. /\ scanned \in Nat /\ added \in Nat /\ current \in [Threads -> Nat] /\ CounterMax \in Nat
      /\ scanned = IF added < CounterMax THEN added ELSE CounterMax
  BY SharedAssumption DEF CounterInv, NoLostScans
<1>2. CASE /\ scanned = current[t]
           /\ scanned' = IF current[t] < CounterMax THEN current[t] + 1 ELSE CounterMax
           /\ added' = added + 1
           /\ UNCHANGED current
  <2>1. scanned' = IF added' < CounterMax THEN added' ELSE CounterMax
    BY <1>1, <1>2
  <2>2. scanned' \in Nat /\ added' \in Nat
    BY <1>1, <1>2
  <2>. QED BY <1>1, <1>2, <2>1, <2>2 DEF CounterInv, NoLostScans
<1>3. CASE current' = [current EXCEPT ![t] = scanned] /\ UNCHANGED <<scanned, added>>
  BY <1>1, <1>3 DEF CounterInv, NoLostScans
<1>. QED BY <1>2, <1>3 DEF ExchangeCounter

(* No other step touches the counter; a reader may read it at any time. *)
LEMMA StepCounts ==
    ASSUME CounterInv, NEW t \in Threads, Step(t)
    PROVE  CounterInv'
<1>1. CASE ExchangeCounter(t)
  BY <1>1, ExchangeCounts
<1>2. CASE LoadCounter(t)
  BY <1>2 DEF LoadCounter, CounterInv, NoLostScans
<1>3. CASE UNCHANGED <<scanned, added, current>>
  BY <1>3 DEF CounterInv, NoLostScans
<1>. QED BY <1>1, <1>2, <1>3 DEF Step, Parse, LockRead, LockWrite, Busy, FindPoison, Preflight,
     Apply, StatementFails, Finish, WriterPanics, ReadFirst, ReadOn, ReaderPanics

(* saturating_atomic_add loses no scan, however its readers interleave and
   wherever they panic. *)
THEOREM SharedCounterLosesNothing == SharedSpec => []NoLostScans
<1>1. SharedInit => CounterInv
  BY SharedAssumption DEF SharedInit, CounterInv, NoLostScans
<1>2. CounterInv /\ [SharedNext]_sharedVars => CounterInv'
  <2>1. CounterInv /\ UNCHANGED sharedVars => CounterInv'
    BY DEF sharedVars, CounterInv, NoLostScans
  <2>. QED BY <2>1, StepCounts DEF SharedNext
<1>3. CounterInv => NoLostScans
  BY DEF CounterInv
<1>. QED BY <1>1, <1>2, <1>3, PTL DEF SharedSpec
=============================================================================
