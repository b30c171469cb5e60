------------------------- MODULE AggregateScheduler -------------------------
(***************************************************************************)
(* Parallel aggregation (src/batch/aggregate_scheduler.rs): queries on     *)
(* different threads compete for one process-wide budget of helper         *)
(* threads, split their rows over the lanes they were admitted, and fall   *)
(* back to a sequential scan when a helper cannot be spawned or panics.    *)
(*                                                                         *)
(* A compare-and-exchange that fails spuriously leaves the state as it     *)
(* was, so it is a stuttering step.                                        *)
(***************************************************************************)
EXTENDS AggregateReducers, FiniteSets

CONSTANTS
    Queries,        \* query threads
    Inputs,         \* matched rows a query may have
    HelperLimit,    \* helper_limit of the budget
    WorkerCaps,     \* worker caps in force, database and max_threads together
    RowThreshold,   \* GLOBAL_AGGREGATE_PARALLEL_ROW_THRESHOLD
    RowsPerWorker,  \* GLOBAL_AGGREGATE_PARALLEL_ROWS_PER_WORKER
    MaxWorkers      \* MAX_GLOBAL_AGGREGATE_PARALLEL_WORKERS

ASSUME SchedulerAssumption ==
    /\ IsFiniteSet(Queries)
    /\ Inputs \subseteq Seq(Rows)
    /\ HelperLimit \in Nat
    /\ WorkerCaps \subseteq Nat \ {0}
    /\ RowThreshold \in Nat
    /\ RowsPerWorker \in Nat \ {0}
    /\ MaxWorkers \in Nat \ {0}

VARIABLES
    helpers_in_use,  \* the atomic counter of the budget
    pc,              \* where each query is
    rows,            \* matching_rows
    requested,       \* helpers asked for
    seen,            \* `in_use' as try_acquire read it last
    permit,          \* helper_threads of the permit held, 0 for none
    spawned,         \* helpers spawned so far
    joined,          \* helpers joined so far
    failed,          \* "yes" when worker_failed
    partials,        \* partials of the query thread and the joined helpers
    helper,          \* state of each helper thread of each query
    answer           \* what the aggregate returned

queryVars == <<pc, rows, requested, seen, permit, spawned, joined, failed, partials, helper, answer>>
schedVars == <<helpers_in_use, queryVars>>

-----------------------------------------------------------------------------
Min2(a, b) == IF a < b THEN a ELSE b

(* worker_count. *)
WorkerCount(n, cap) ==
    LET useful == (n + RowsPerWorker - 1) \div RowsPerWorker
        limit == Min2(Min2(HelperLimit + 1, cap), MaxWorkers)
    IN  IF n <= RowThreshold THEN 1 ELSE Min2(Min2(limit, useful), n)

(* parallel_aggregate_partition: lane i of 0..workers-1. *)
Partition(input, workers, i) ==
    LET q == Len(input) \div workers
        r == Len(input) % workers
        start == i * q + Min2(i, r)
    IN  SubSeq(input, start + 1, start + q + (IF i < r THEN 1 ELSE 0))

Lanes(q) == permit[q] + 1

Helpers == 1..HelperLimit

Init ==
    /\ helpers_in_use = 0
    /\ pc = [q \in Queries |-> "admit"]
    /\ rows \in [Queries -> Inputs]
    /\ \E caps \in [Queries -> WorkerCaps] :
         requested = [q \in Queries |-> WorkerCount(Len(rows[q]), caps[q]) - 1]
    /\ seen = [q \in Queries |-> 0]
    /\ permit = [q \in Queries |-> 0]
    /\ spawned = [q \in Queries |-> 0]
    /\ joined = [q \in Queries |-> 0]
    /\ failed = [q \in Queries |-> "no"]
    /\ partials = [q \in Queries |-> << >>]
    /\ helper = [q \in Queries |-> [i \in Helpers |-> "none"]]
    /\ answer = [q \in Queries |-> Null]

Goto(q, from, to) == pc[q] = from /\ pc' = [pc EXCEPT ![q] = to]

-----------------------------------------------------------------------------
(* try_admit and try_acquire. *)

Load(q) ==
    /\ Goto(q, "admit", IF requested[q] = 0 THEN "sequential" ELSE "acquire")
    /\ seen' = [seen EXCEPT ![q] = helpers_in_use]
    /\ UNCHANGED <<helpers_in_use, rows, requested, permit, spawned, joined, failed, partials,
                   helper, answer>>

(* What the value read last leaves room for. *)
Grant(q) == Min2(requested[q], IF seen[q] < HelperLimit THEN HelperLimit - seen[q] ELSE 0)

(* No room: the query goes on alone, it never waits. *)
Refused(q) ==
    /\ Grant(q) = 0
    /\ Goto(q, "acquire", "sequential")
    /\ UNCHANGED <<helpers_in_use, rows, requested, seen, permit, spawned, joined, failed,
                   partials, helper, answer>>

(* Fault: the counter is stored without looking at it again. *)
Acquire_Blind(q) ==
    /\ Grant(q) > 0
    /\ Goto(q, "acquire", "spawn")
    /\ helpers_in_use' = seen[q] + Grant(q)
    /\ permit' = [permit EXCEPT ![q] = Grant(q)]
    /\ UNCHANGED <<rows, requested, seen, spawned, joined, failed, partials, helper, answer>>

Acquire(q) ==
    /\ Grant(q) > 0
    /\ helpers_in_use = seen[q]
    /\ Goto(q, "acquire", "spawn")
    /\ helpers_in_use' = seen[q] + Grant(q)
    /\ permit' = [permit EXCEPT ![q] = Grant(q)]
    /\ UNCHANGED <<rows, requested, seen, spawned, joined, failed, partials, helper, answer>>

(* The exchange lost: its value is the new `in_use'. *)
Retry(q) ==
    /\ pc[q] = "acquire" /\ Grant(q) > 0
    /\ helpers_in_use # seen[q]
    /\ seen' = [seen EXCEPT ![q] = helpers_in_use]
    /\ UNCHANGED <<helpers_in_use, pc, rows, requested, permit, spawned, joined, failed, partials,
                   helper, answer>>

-----------------------------------------------------------------------------
(* run_grouped_aggregate inside the thread scope. *)

Spawn(q) ==
    /\ pc[q] = "spawn" /\ spawned[q] < permit[q]
    /\ spawned' = [spawned EXCEPT ![q] = @ + 1]
    /\ helper' = [helper EXCEPT ![q][spawned[q] + 1] = "running"]
    /\ UNCHANGED <<helpers_in_use, pc, rows, requested, seen, permit, joined, failed, partials,
                   answer>>

(* Fault: the helpers already running are taken for the whole admission. *)
SpawnFails_Ignored(q) ==
    /\ spawned[q] < permit[q]
    /\ Goto(q, "spawn", "local")
    /\ UNCHANGED <<helpers_in_use, rows, requested, seen, permit, spawned, joined, failed,
                   partials, helper, answer>>

SpawnFails(q) ==
    /\ spawned[q] < permit[q]
    /\ Goto(q, "spawn", "local")
    /\ failed' = [failed EXCEPT ![q] = "yes"]
    /\ UNCHANGED <<helpers_in_use, rows, requested, seen, permit, spawned, joined, partials,
                   helper, answer>>

AllSpawned(q) ==
    /\ spawned[q] = permit[q]
    /\ Goto(q, "spawn", "local")
    /\ UNCHANGED <<helpers_in_use, rows, requested, seen, permit, spawned, joined, failed,
                   partials, helper, answer>>

(* The query thread scans lane 0 itself. *)
LocalChunk(q) ==
    /\ Goto(q, "local", "join")
    /\ partials' = [partials EXCEPT ![q] = <<Chunk(Partition(rows[q], Lanes(q), 0))>>]
    /\ UNCHANGED <<helpers_in_use, rows, requested, seen, permit, spawned, joined, failed, helper,
                   answer>>

(* Its own panic unwinds out of the scope, which still waits for the helpers. *)
LocalPanics(q) ==
    /\ Goto(q, "local", "unwind")
    /\ UNCHANGED <<helpers_in_use, rows, requested, seen, permit, spawned, joined, failed,
                   partials, helper, answer>>

HelperEnds(q, i) ==
    /\ helper[q][i] = "running"
    /\ \E end \in {"returned", "panicked"} : helper' = [helper EXCEPT ![q][i] = end]
    /\ UNCHANGED <<helpers_in_use, pc, rows, requested, seen, permit, spawned, joined, failed,
                   partials, answer>>

(* handle.join(), in spawn order; it blocks while the helper runs. *)
Join(q) ==
    LET i == joined[q] + 1
    IN  /\ pc[q] = "join" /\ joined[q] < spawned[q]
        /\ helper[q][i] # "running"
        /\ joined' = [joined EXCEPT ![q] = i]
        /\ IF helper[q][i] = "panicked"
           THEN failed' = [failed EXCEPT ![q] = "yes"] /\ UNCHANGED partials
           ELSE /\ partials' = [partials EXCEPT ![q] =
                                    Append(@, Chunk(Partition(rows[q], Lanes(q), i)))]
                /\ UNCHANGED failed
        /\ UNCHANGED <<helpers_in_use, pc, rows, requested, seen, permit, spawned, helper, answer>>

(* The scope is left: with the reduced answer, or without one. *)
LeaveScope(q) ==
    /\ joined[q] = spawned[q]
    /\ Goto(q, "join", IF failed[q] = "yes" THEN "fallback" ELSE "release")
    /\ answer' = [answer EXCEPT ![q] = IF failed[q] = "yes" THEN @ ELSE ReduceOrdered(partials[q])]
    /\ UNCHANGED <<helpers_in_use, rows, requested, seen, permit, spawned, joined, failed,
                   partials, helper>>

-----------------------------------------------------------------------------
(* Leaving: drop(admission), then the sequential scan if it is needed. *)

(* thread::scope waits for every helper before it resumes the panic. *)
Unwinding(q) == pc[q] = "unwind" /\ \A i \in Helpers : helper[q][i] # "running"

(* Fault: the permit is leaked when the query thread unwinds. *)
DropPermit_Leaks(q) ==
    /\ permit' = [permit EXCEPT ![q] = 0]
    /\ helpers_in_use' = IF pc[q] = "unwind" THEN helpers_in_use ELSE helpers_in_use - permit[q]

(* Drop for GlobalAggregateWorkerPermit. *)
DropPermit(q) ==
    /\ permit' = [permit EXCEPT ![q] = 0]
    /\ helpers_in_use' = helpers_in_use - permit[q]

Release(q) ==
    /\ DropPermit(q)
    /\ \/ Goto(q, "release", "done")
       \/ Goto(q, "fallback", "sequential")
       \/ Unwinding(q) /\ Goto(q, "unwind", "panicked")
    /\ UNCHANGED <<rows, requested, seen, spawned, joined, failed, partials, helper, answer>>

(* chunk(matching_rows) on the query thread. *)
Sequential(q) ==
    /\ Goto(q, "sequential", "done")
    /\ answer' = [answer EXCEPT ![q] = Chunk(rows[q])]
    /\ UNCHANGED <<helpers_in_use, rows, requested, seen, permit, spawned, joined, failed,
                   partials, helper>>

SequentialPanics(q) ==
    /\ Goto(q, "sequential", "panicked")
    /\ UNCHANGED <<helpers_in_use, rows, requested, seen, permit, spawned, joined, failed,
                   partials, helper, answer>>

-----------------------------------------------------------------------------
QueryStep(q) ==
    \/ Load(q) \/ Refused(q) \/ Acquire(q) \/ Retry(q)
    \/ Spawn(q) \/ SpawnFails(q) \/ AllSpawned(q)
    \/ LocalChunk(q) \/ LocalPanics(q) \/ Join(q) \/ LeaveScope(q)
    \/ Release(q) \/ Sequential(q) \/ SequentialPanics(q)

Next == \E q \in Queries : QueryStep(q) \/ \E i \in Helpers : HelperEnds(q, i)

Spec == Init /\ [][Next]_schedVars

(* Every thread keeps running. *)
Fairness ==
    \A q \in Queries :
        /\ WF_schedVars(QueryStep(q))
        /\ \A i \in Helpers : WF_schedVars(HelperEnds(q, i))

FairSpec == Spec /\ Fairness

-----------------------------------------------------------------------------
(* Properties. *)

Phases == {"admit", "acquire", "sequential", "spawn", "local", "join", "release", "fallback",
           "unwind", "done", "panicked"}

(* The variables the budget depends on hold values of their types. *)
TypeOK ==
    /\ helpers_in_use \in Nat
    /\ pc \in [Queries -> Phases]
    /\ requested \in [Queries -> Nat]
    /\ seen \in [Queries -> Nat]
    /\ permit \in [Queries -> 0..HelperLimit]
    /\ spawned \in [Queries -> Nat]
    /\ joined \in [Queries -> Nat]
    /\ helper \in [Queries -> [Helpers -> {"none", "running", "returned", "panicked"}]]

(* Helper slots of the permits held now. *)
Held == UNION {{q} \X (1..permit[q]) : q \in Queries}

(* Helper threads that are running now. *)
Live == {l \in Queries \X Helpers : helper[l[1]][l[2]] = "running"}

(* Whatever races for the counter, it is the sum of the permits held and never
   passes the limit: no helper slot is lost or handed out twice. *)
BudgetExact == helpers_in_use = Cardinality(Held) /\ helpers_in_use <= HelperLimit

(* A helper thread runs only under a permit of its own query, and the permits
   are within the budget: the process never has more helpers than the budget
   allows, raced acquisitions, panics and failed spawns included. *)
HelpersAreAdmitted == BudgetExact /\ Live \subseteq Held

(* A query that returns answers with what the sequential scan of its rows
   gives, first-seen groups and ties of extrema included, whatever the lanes
   were and whichever helper failed. *)
AnswerIsSequential ==
    \A q \in Queries : pc[q] = "done" => answer[q] = Chunk(rows[q])

(* Every query ends, without waiting for the budget, and in the end every
   permit is back. *)
EveryQueryEnds == <>[](helpers_in_use = 0 /\ \A q \in Queries : pc[q] \in {"done", "panicked"})
=============================================================================
