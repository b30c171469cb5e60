---------------------- MODULE AggregateSchedulerProofs ----------------------
(***************************************************************************)
(* AggregateScheduler for any number of queries, any limit and any rows.   *)
(* The helper budget: the counter is exact, never passes the limit, and    *)
(* covers every running helper thread.  The answers: whatever the lanes    *)
(* were and whichever failed, they are those of one sequential scan.       *)
(***************************************************************************)
EXTENDS AggregateScheduler, FiniteSetTheorems, SequenceTheorems, WellFoundedInduction, TLAPS

(* The slots of one permit of k helpers. *)
Slots(q, k) == {q} \X (1..k)

(* A permit exists only between its acquisition and its release. *)
Unpermitted == {"admit", "acquire", "sequential", "done", "panicked"}

PermitPhase ==
    \A q \in Queries : pc[q] \in Unpermitted => permit[q] = 0

(* Before the scope nothing is spawned, inside it no more than the permit. *)
SpawnBound ==
    \A q \in Queries :
        /\ pc[q] \in {"admit", "acquire"} => spawned[q] = 0 /\ joined[q] = 0
        /\ pc[q] \in {"spawn", "local", "join", "release", "fallback", "unwind"} =>
              spawned[q] <= permit[q]
        /\ pc[q] \in {"spawn", "local"} => joined[q] = 0

(* A running helper was spawned and not joined, and its scope is open. *)
RunningInScope ==
    \A q \in Queries, i \in Helpers :
        helper[q][i] = "running" =>
            /\ i <= spawned[q] /\ i > joined[q]
            /\ pc[q] \in {"spawn", "local", "join", "unwind"}

IInv == TypeOK /\ PermitPhase /\ SpawnBound /\ RunningInScope /\ BudgetExact

-----------------------------------------------------------------------------
(* Cardinalities of permits. *)

(* A permit has as many slots as helpers. *)
LEMMA SlotsCardinality ==
    ASSUME NEW q, NEW k \in Nat
    PROVE  IsFiniteSet(Slots(q, k)) /\ Cardinality(Slots(q, k)) = k
<1>1. IsFiniteSet({q}) /\ Cardinality({q}) = 1
  BY FS_Singleton
<1>2. IsFiniteSet(1..k) /\ Cardinality(1..k) = k
  <2>1. 1 \in Int /\ k \in Int
    OBVIOUS
  <2>2. IsFiniteSet(1..k) /\ Cardinality(1..k) = IF 1 > k THEN 0 ELSE k - 1 + 1
    BY <2>1, FS_Interval
  <2>. QED BY <2>2
<1>3. /\ IsFiniteSet({q} \X (1..k))
      /\ Cardinality({q} \X (1..k)) = Cardinality({q}) * Cardinality(1..k)
  BY <1>1, <1>2, FS_Product
<1>4. Cardinality({q} \X (1..k)) = k
  BY <1>1, <1>2, <1>3
<1>. QED BY <1>3, <1>4 DEF Slots

(* Held splits into the slots of one query and the rest. *)
HeldBut(q) == {l \in Held : l[1] # q}

(* Only finitely many permits are held: try_reserve grants from a bounded
   budget. *)
LEMMA HeldFinite ==
    ASSUME permit \in [Queries -> 0..HelperLimit]
    PROVE  IsFiniteSet(Held)
<1>1. IsFiniteSet(Queries)
  BY SchedulerAssumption
<1>2. IsFiniteSet(Helpers)
  <2>1. 1 \in Int /\ HelperLimit \in Int
    BY SchedulerAssumption
  <2>. QED BY <2>1, FS_Interval DEF Helpers
<1>3. IsFiniteSet(Queries \X Helpers)
  BY <1>1, <1>2, FS_Product
<1>4. Held \subseteq Queries \X Helpers
  BY SchedulerAssumption DEF Held, Helpers
<1>. QED BY <1>3, <1>4, FS_Subset

(* The permits held, one query apart from the others. *)
LEMMA HeldSplit ==
    ASSUME permit \in [Queries -> 0..HelperLimit], NEW q \in Queries
    PROVE  /\ IsFiniteSet(HeldBut(q))
           /\ Cardinality(HeldBut(q)) \in Nat
           /\ Cardinality(Held) = Cardinality(HeldBut(q)) + permit[q]
<1>1. IsFiniteSet(Held)
  BY HeldFinite
<1>2. IsFiniteSet(HeldBut(q))
  BY <1>1, FS_Subset DEF HeldBut
<1>3. IsFiniteSet(Slots(q, permit[q])) /\ Cardinality(Slots(q, permit[q])) = permit[q]
  BY SlotsCardinality
<1>4. Held = HeldBut(q) \cup Slots(q, permit[q])
  BY DEF Held, HeldBut, Slots
<1>5. HeldBut(q) \cap Slots(q, permit[q]) = {}
  BY DEF HeldBut, Slots
<1>6. Cardinality(HeldBut(q)) \in Nat
  BY <1>2, FS_CardinalityType
<1>7. Cardinality(HeldBut(q) \cup Slots(q, permit[q]))
        = Cardinality(HeldBut(q)) + Cardinality(Slots(q, permit[q]))
  <2>1. Cardinality(HeldBut(q) \cup Slots(q, permit[q]))
          = Cardinality(HeldBut(q)) + Cardinality(Slots(q, permit[q]))
              - Cardinality(HeldBut(q) \cap Slots(q, permit[q]))
    BY <1>2, <1>3, FS_Union
  <2>2. Cardinality(HeldBut(q) \cap Slots(q, permit[q])) = 0
    BY <1>5, FS_EmptySet
  <2>. QED BY <1>3, <1>6, <2>1, <2>2
<1>. QED BY <1>2, <1>3, <1>4, <1>6, <1>7

(* A step that changes the permit of one query changes the total by as much. *)
LEMMA HeldUpdate ==
    ASSUME permit \in [Queries -> 0..HelperLimit], NEW q \in Queries, NEW k \in 0..HelperLimit,
           permit' = [permit EXCEPT ![q] = k]
    PROVE  Cardinality(Held') = Cardinality(Held) - permit[q] + k
<1>1. permit' \in [Queries -> 0..HelperLimit] /\ permit'[q] = k
  OBVIOUS
<1>2. \A p \in Queries : p # q => permit'[p] = permit[p]
  OBVIOUS
<1>3. HeldBut(q)' = HeldBut(q)
  BY <1>2 DEF HeldBut, Held
<1>4. Cardinality(Held) = Cardinality(HeldBut(q)) + permit[q]
      /\ Cardinality(HeldBut(q)) \in Nat
  BY HeldSplit
<1>5. IsFiniteSet(HeldBut(q)) /\ IsFiniteSet(Slots(q, k)) /\ Cardinality(Slots(q, k)) = k
  BY HeldSplit, SlotsCardinality
<1>6. Held' = HeldBut(q) \cup Slots(q, k)
  BY <1>1, <1>2 DEF Held, HeldBut, Slots
<1>7. HeldBut(q) \cap Slots(q, k) = {}
  BY DEF HeldBut, Slots
<1>8. Cardinality(HeldBut(q) \cup Slots(q, k)) = Cardinality(HeldBut(q)) + k
  <2>1. Cardinality(HeldBut(q) \cup Slots(q, k))
          = Cardinality(HeldBut(q)) + Cardinality(Slots(q, k))
              - Cardinality(HeldBut(q) \cap Slots(q, k))
    BY <1>5, FS_Union
  <2>2. Cardinality(HeldBut(q) \cap Slots(q, k)) = 0
    BY <1>7, FS_EmptySet
  <2>. QED BY <1>4, <1>5, <2>1, <2>2
<1>9. permit[q] \in Nat
  OBVIOUS
<1>. QED BY <1>4, <1>6, <1>8, <1>9

-----------------------------------------------------------------------------
(* A query never asks for a negative number of helpers. *)
LEMMA WorkerCountPositive ==
    ASSUME NEW n \in Nat, NEW cap \in WorkerCaps
    PROVE  WorkerCount(n, cap) - 1 \in Nat
<1>1. CASE n <= RowThreshold
  BY <1>1, SchedulerAssumption DEF WorkerCount
<1>2. CASE ~(n <= RowThreshold)
  <2>1. n >= 1
    BY <1>2, SchedulerAssumption
  <2> DEFINE useful == (n + RowsPerWorker - 1) \div RowsPerWorker
             limit == Min2(Min2(HelperLimit + 1, cap), MaxWorkers)
  <2>2. useful \in Nat /\ useful >= 1
    <3>1. RowsPerWorker \in Nat /\ RowsPerWorker > 0
      BY SchedulerAssumption
    <3>2. n + RowsPerWorker - 1 \in Nat /\ n + RowsPerWorker - 1 >= RowsPerWorker
      BY <2>1, <3>1
    <3>. QED BY <3>1, <3>2
  <2>3. limit \in Nat /\ limit >= 1
    BY SchedulerAssumption DEF Min2
  <2>4. WorkerCount(n, cap) = Min2(Min2(limit, useful), n)
    BY <1>2 DEF WorkerCount
  <2> HIDE DEF useful, limit
  <2>. QED BY <2>1, <2>2, <2>3, <2>4 DEF Min2
<1>. QED BY <1>1, <1>2

(* No query has started: nothing is reserved, spawned or computed. *)
LEMMA InitIInv == Init => IInv
<1> SUFFICES ASSUME Init PROVE IInv
  OBVIOUS
<1>1. TypeOK
  <2>1. requested \in [Queries -> Nat]
    <3>1. PICK caps \in [Queries -> WorkerCaps] :
            requested = [q \in Queries |-> WorkerCount(Len(rows[q]), caps[q]) - 1]
      BY DEF Init
    <3>2. \A q \in Queries : Len(rows[q]) \in Nat
      BY SchedulerAssumption DEF Init
    <3>3. \A q \in Queries : WorkerCount(Len(rows[q]), caps[q]) - 1 \in Nat
      BY <3>2, WorkerCountPositive
    <3>. QED BY <3>1, <3>3
  <2>. QED BY <2>1, SchedulerAssumption DEF Init, TypeOK, Phases
<1>2. PermitPhase /\ SpawnBound /\ RunningInScope
  BY DEF Init, PermitPhase, SpawnBound, RunningInScope
<1>3. BudgetExact
  <2>1. Held = {}
    BY DEF Init, Held
  <2>2. Cardinality(Held) = 0
    BY <2>1, FS_EmptySet
  <2>. QED BY <2>2, SchedulerAssumption DEF Init, BudgetExact
<1>. QED BY <1>1, <1>2, <1>3 DEF IInv

(* A step that leaves permits and counter alone keeps the budget exact. *)
LEMMA BudgetUntouched ==
    ASSUME BudgetExact, UNCHANGED <<helpers_in_use, permit>>
    PROVE  BudgetExact'
<1>1. Held' = Held
  BY DEF Held
<1>. QED BY <1>1 DEF BudgetExact

-----------------------------------------------------------------------------
(* What the steps do to the parts of IInv other than the counter. *)
ControlInv == TypeOK /\ PermitPhase /\ SpawnBound /\ RunningInScope

(* Every step of a query keeps the control part of the invariant. *)
LEMMA QueryStepControl ==
    ASSUME IInv, NEW q \in Queries, QueryStep(q)
    PROVE  ControlInv'
<1>1. CASE Load(q)
  BY <1>1, SchedulerAssumption DEF Load, Goto, IInv, ControlInv, BudgetExact,
     TypeOK, Phases, PermitPhase, Unpermitted, SpawnBound, RunningInScope
<1>2. CASE Refused(q)
  BY <1>2, SchedulerAssumption DEF Refused, Goto, IInv, ControlInv, BudgetExact,
     TypeOK, Phases, PermitPhase, Unpermitted, SpawnBound, RunningInScope
<1>3. CASE Acquire(q)
  BY <1>3, SchedulerAssumption DEF Acquire, Goto, Grant, Min2, IInv, ControlInv, BudgetExact,
     TypeOK, Phases, PermitPhase, Unpermitted, SpawnBound, RunningInScope
<1>4. CASE Retry(q)
  BY <1>4, SchedulerAssumption DEF Retry, Goto, IInv, ControlInv, BudgetExact,
     TypeOK, Phases, PermitPhase, Unpermitted, SpawnBound, RunningInScope
<1>5. CASE Spawn(q)
  BY SMTT(60), <1>5, SchedulerAssumption DEF Spawn, Goto, Helpers, IInv, ControlInv, BudgetExact,
     TypeOK, Phases, PermitPhase, Unpermitted, SpawnBound, RunningInScope
<1>6. CASE SpawnFails(q)
  BY <1>6, SchedulerAssumption DEF SpawnFails, Goto, IInv, ControlInv, BudgetExact,
     TypeOK, Phases, PermitPhase, Unpermitted, SpawnBound, RunningInScope
<1>7. CASE AllSpawned(q)
  BY <1>7, SchedulerAssumption DEF AllSpawned, Goto, IInv, ControlInv, BudgetExact,
     TypeOK, Phases, PermitPhase, Unpermitted, SpawnBound, RunningInScope
<1>8. CASE LocalChunk(q)
  BY <1>8, SchedulerAssumption DEF LocalChunk, Goto, IInv, ControlInv, BudgetExact,
     TypeOK, Phases, PermitPhase, Unpermitted, SpawnBound, RunningInScope
<1>9. CASE LocalPanics(q)
  BY <1>9, SchedulerAssumption DEF LocalPanics, Goto, IInv, ControlInv, BudgetExact,
     TypeOK, Phases, PermitPhase, Unpermitted, SpawnBound, RunningInScope
<1>10. CASE Join(q)
  <2>a. /\ joined' = [joined EXCEPT ![q] = joined[q] + 1]
        /\ pc[q] = "join" /\ joined[q] < spawned[q]
        /\ helper[q][joined[q] + 1] # "running"
        /\ UNCHANGED <<helpers_in_use, pc, requested, seen, permit, spawned, helper>>
    BY <1>10 DEF Join
  <2>1. TypeOK'
    BY <2>a DEF IInv, TypeOK, Phases, BudgetExact
  <2>2. PermitPhase'
    BY <2>a DEF IInv, TypeOK, Phases, PermitPhase, Unpermitted
  <2>3. SpawnBound'
    BY <2>a DEF IInv, TypeOK, Phases, SpawnBound, PermitPhase, Unpermitted
  <2>4. RunningInScope'
    BY <2>a, SchedulerAssumption DEF IInv, TypeOK, Phases, RunningInScope, Helpers
  <2>. QED BY <2>1, <2>2, <2>3, <2>4 DEF ControlInv
<1>11. CASE LeaveScope(q)
  <2>1. TypeOK'
    BY <1>11, SchedulerAssumption DEF LeaveScope, Goto, IInv, TypeOK, Phases, BudgetExact
  <2>2. PermitPhase'
    BY <1>11, SchedulerAssumption DEF LeaveScope, Goto, IInv, TypeOK, Phases, PermitPhase, Unpermitted
  <2>3. SpawnBound'
    BY <1>11, SchedulerAssumption DEF LeaveScope, Goto, IInv, TypeOK, Phases, SpawnBound, PermitPhase, Unpermitted
  <2>4. RunningInScope'
    BY SMTT(60), <1>11, SchedulerAssumption DEF LeaveScope, Goto, IInv, TypeOK, RunningInScope, Helpers
  <2>. QED BY <2>1, <2>2, <2>3, <2>4 DEF ControlInv
<1>12. CASE Release(q)
  <2>a. /\ permit' = [permit EXCEPT ![q] = 0]
        /\ helpers_in_use' = helpers_in_use - permit[q]
        /\ \/ pc[q] = "release" /\ pc' = [pc EXCEPT ![q] = "done"]
           \/ pc[q] = "fallback" /\ pc' = [pc EXCEPT ![q] = "sequential"]
           \/ /\ pc[q] = "unwind" /\ pc' = [pc EXCEPT ![q] = "panicked"]
              /\ \A i \in Helpers : helper[q][i] # "running"
        /\ UNCHANGED <<requested, seen, spawned, joined, helper>>
    BY <1>12 DEF Release, DropPermit, Goto, Unwinding
  <2>b. Cardinality(Held) = Cardinality(HeldBut(q)) + permit[q] /\ Cardinality(HeldBut(q)) \in Nat
    BY HeldSplit DEF IInv, TypeOK
  <2>c. helpers_in_use - permit[q] \in Nat
    <3>1. permit[q] \in Nat /\ helpers_in_use = Cardinality(HeldBut(q)) + permit[q]
      BY <2>b, SchedulerAssumption DEF IInv, TypeOK, BudgetExact
    <3>. QED BY <2>b, <3>1
  <2>1. TypeOK'
    <3>1. pc' \in [Queries -> Phases]
      BY <2>a DEF IInv, TypeOK, Phases
    <3>2. permit' \in [Queries -> 0..HelperLimit]
      BY <2>a, SchedulerAssumption DEF IInv, TypeOK
    <3>3. helpers_in_use' \in Nat
      BY <2>a, <2>c
    <3>. QED BY <2>a, <3>1, <3>2, <3>3 DEF IInv, TypeOK
  <2>2. PermitPhase'
    BY <2>a, SchedulerAssumption DEF IInv, TypeOK, Phases, PermitPhase, Unpermitted
  <2>3. SpawnBound'
    BY <2>a, SchedulerAssumption DEF IInv, TypeOK, Phases, SpawnBound, PermitPhase, Unpermitted
  <2>4. RunningInScope'
    BY <2>a, SchedulerAssumption DEF IInv, TypeOK, Phases, RunningInScope
  <2>. QED BY <2>1, <2>2, <2>3, <2>4 DEF ControlInv
<1>13. CASE Sequential(q)
  BY <1>13, SchedulerAssumption DEF Sequential, Goto, IInv, ControlInv, BudgetExact,
     TypeOK, Phases, PermitPhase, Unpermitted, SpawnBound, RunningInScope
<1>14. CASE SequentialPanics(q)
  BY <1>14, SchedulerAssumption DEF SequentialPanics, Goto, IInv, ControlInv, BudgetExact,
     TypeOK, Phases, PermitPhase, Unpermitted, SpawnBound, RunningInScope
<1>. QED BY <1>1, <1>2, <1>3, <1>4, <1>5, <1>6, <1>7, <1>8, <1>9, <1>10, <1>11, <1>12, <1>13, <1>14 DEF QueryStep

(* A helper that ends, by success or panic, disturbs only its own status. *)
LEMMA HelperEndsControl ==
    ASSUME IInv, NEW q \in Queries, NEW i \in Helpers, HelperEnds(q, i)
    PROVE  ControlInv'
BY DEF HelperEnds, IInv, ControlInv, TypeOK, PermitPhase, SpawnBound, RunningInScope

(* Only Acquire and Release touch the counter, each by exactly one permit. *)
LEMMA QueryStepBudget ==
    ASSUME IInv, NEW q \in Queries, QueryStep(q)
    PROVE  BudgetExact'
<1>1. CASE Acquire(q)
  <2>1. /\ Grant(q) \in 1..(HelperLimit - seen[q]) /\ seen[q] = helpers_in_use
        /\ permit' = [permit EXCEPT ![q] = Grant(q)]
        /\ helpers_in_use' = helpers_in_use + Grant(q)
    BY <1>1, SchedulerAssumption DEF Acquire, Grant, Min2, IInv, TypeOK
  <2>2. permit[q] = 0
    BY <1>1 DEF Acquire, Goto, IInv, PermitPhase, Unpermitted
  <2>3. Grant(q) \in 0..HelperLimit /\ permit \in [Queries -> 0..HelperLimit]
    BY <2>1, SchedulerAssumption DEF IInv, TypeOK
  <2>4. Cardinality(Held') = Cardinality(Held) - permit[q] + Grant(q)
    BY <2>1, <2>3, HeldUpdate
  <2>. QED BY <2>1, <2>2, <2>4, SchedulerAssumption DEF IInv, TypeOK, BudgetExact
<1>2. CASE Release(q)
  <2>1. permit' = [permit EXCEPT ![q] = 0] /\ helpers_in_use' = helpers_in_use - permit[q]
    BY <1>2 DEF Release, DropPermit
  <2>2. permit \in [Queries -> 0..HelperLimit] /\ 0 \in 0..HelperLimit
    BY SchedulerAssumption DEF IInv, TypeOK
  <2>3. Cardinality(Held') = Cardinality(Held) - permit[q] + 0
    BY <2>1, <2>2, HeldUpdate
  <2>. QED BY <2>1, <2>2, <2>3, SchedulerAssumption DEF IInv, TypeOK, BudgetExact
<1>3. CASE UNCHANGED <<helpers_in_use, permit>>
  BY <1>3, BudgetUntouched DEF IInv
<1>. QED BY <1>1, <1>2, <1>3 DEF QueryStep, Load, Refused, Retry, Spawn, SpawnFails, AllSpawned,
         LocalChunk, LocalPanics, Join, LeaveScope, Sequential, SequentialPanics

(* Every step of the scheduler keeps the invariant. *)
LEMMA NextIInv == IInv /\ [Next]_schedVars => IInv'
<1> SUFFICES ASSUME IInv, [Next]_schedVars PROVE IInv'
  OBVIOUS
<1>1. ASSUME NEW q \in Queries, QueryStep(q) PROVE IInv'
  BY <1>1, QueryStepControl, QueryStepBudget DEF IInv, ControlInv
<1>2. ASSUME NEW q \in Queries, NEW i \in Helpers, HelperEnds(q, i) PROVE IInv'
  <2>1. ControlInv'
    BY <1>2, HelperEndsControl
  <2>2. BudgetExact'
    BY <1>2, BudgetUntouched DEF HelperEnds, IInv
  <2>. QED BY <2>1, <2>2 DEF IInv, ControlInv
<1>3. CASE UNCHANGED schedVars
  <2>1. BudgetExact'
    BY <1>3, BudgetUntouched DEF schedVars, queryVars, IInv
  <2>2. ControlInv'
    BY <1>3 DEF schedVars, queryVars, IInv, ControlInv, TypeOK, PermitPhase, SpawnBound,
       RunningInScope
  <2>. QED BY <2>1, <2>2 DEF IInv, ControlInv
<1>. QED BY <1>1, <1>2, <1>3 DEF Next

(* The inductive invariant behind the budget of try_acquire and of the permit
   that is dropped. *)
THEOREM SchedulerInvariance == Spec => []IInv
<1>1. Init => IInv
  BY InitIInv
<1>2. IInv /\ [Next]_schedVars => IInv'
  BY NextIInv
<1>. QED BY <1>1, <1>2, PTL DEF Spec

(* Types, for any number of queries. *)
THEOREM SchedulerTyping == Spec => []TypeOK
<1>1. IInv => TypeOK
  BY DEF IInv
<1>. QED BY <1>1, SchedulerInvariance, PTL

(* helpers_in_use is the sum of the permits held and within helper_limit, and a
   running helper thread always belongs to a permit its query still holds. *)
THEOREM RunningHelpersAreAdmitted == Spec => []HelpersAreAdmitted
<1>1. IInv => HelpersAreAdmitted
  <2> SUFFICES ASSUME IInv, NEW l \in Live PROVE l \in Held
    BY DEF HelpersAreAdmitted, IInv
  <2>1. PICK q \in Queries, i \in Helpers : l = <<q, i>>
    BY DEF Live
  <2>2. helper[q][i] = "running"
    BY <2>1 DEF Live
  <2>3. i <= spawned[q] /\ spawned[q] <= permit[q]
    BY <2>2, SchedulerAssumption DEF IInv, RunningInScope, SpawnBound
  <2>4. i \in 1..permit[q]
    BY <2>3, SchedulerAssumption DEF IInv, TypeOK, Helpers
  <2>. QED BY <2>1, <2>4 DEF Held
<1>. QED BY <1>1, SchedulerInvariance, PTL

-----------------------------------------------------------------------------
(* Induction over positions, with sets in place of predicates. *)

(* The naturals are well ordered: positions of a sequence have a first one. *)
LEMMA LeastElement ==
    ASSUME NEW S \in SUBSET Nat, S # {}
    PROVE  \E n \in S : \A m \in S : n <= m
<1> DEFINE R == OpToRel(<, Nat)
<1>1. IsWellFoundedOn(R, Nat)
  BY NatLessThanWellFounded
<1>2. PICK n \in S : \A m \in S : <<m, n>> \notin R
  BY <1>1, WFMin
<1>3. \A m \in S : m < n => <<m, n>> \in R
  BY DEF OpToRel
<1> HIDE DEF R
<1>4. \A m \in S : ~(m < n)
  BY <1>2, <1>3
<1>. QED BY <1>4

(* What holds at 0 and is passed on from each position to the next holds at
   every position. *)
LEMMA InductionUpTo ==
    ASSUME NEW n \in Nat, NEW S, 0 \in S, \A k \in 1..n : k - 1 \in S => k \in S
    PROVE  0..n \subseteq S
<1> DEFINE B == (0..n) \ S
<1>1. SUFFICES ASSUME B # {} PROVE FALSE
  OBVIOUS
<1>2. PICK k \in B : \A m \in B : k <= m
  <2>1. B \in SUBSET Nat
    OBVIOUS
  <2> HIDE DEF B
  <2>. QED BY <1>1, <2>1, LeastElement
<1>3. k \in 1..n /\ k - 1 \in 0..n /\ k - 1 \notin B
  BY <1>2
<1>. QED BY <1>2, <1>3

(* A set of positions has a last one. *)
LEMMA LastPosition ==
    ASSUME NEW n \in Nat, NEW s \in SUBSET (1..n), s # {}
    PROVE  Max(s) \in s /\ \A y \in s : y <= Max(s)
<1> DEFINE U == {m \in Nat : \A y \in s : y <= m}
<1>1. U \in SUBSET Nat /\ n \in U
  OBVIOUS
<1>2. PICK m \in U : \A k \in U : m <= k
  BY <1>1, LeastElement
<1>3. m \in s
  <2> SUFFICES ASSUME m \notin s PROVE FALSE
    OBVIOUS
  <2>1. m \in Nat /\ \A y \in s : y \in 1..n /\ y <= m /\ y # m
    OBVIOUS
  <2>2. \A y \in s : y <= m - 1
    BY <2>1
  <2>3. m - 1 \in Nat
    <3>1. PICK y \in s : TRUE
      OBVIOUS
    <3>2. y \in 1..n /\ y <= m
      BY <2>1
    <3>. QED BY <2>1, <3>2
  <2>4. m <= m - 1
    BY <1>2, <2>2, <2>3
  <2>. QED BY <2>1, <2>4
<1>4. \E x \in s : \A y \in s : x >= y
  BY <1>2, <1>3
<1>5. Max(s) \in s /\ \A y \in s : Max(s) >= y
  <2>1. Max(s) = CHOOSE x \in s : \A y \in s : x >= y
    BY DEF Max
  <2>2. \E x : x \in s /\ \A y \in s : x >= y
    BY <1>4
  <2>3. Max(s) = CHOOSE x : x \in s /\ \A y \in s : x >= y
    BY <2>1, Zenon
  <2>. QED BY <2>2, <2>3, Zenon
<1>6. \A y \in s : y <= Max(s)
  BY <1>5
<1>. QED BY <1>5, <1>6

-----------------------------------------------------------------------------
(* Folds. *)

(* it is the recursion behind FoldLeft: over sets of positions, last first. *)
Iterates(it, n, base, step) ==
    it = [s \in SUBSET (1..n) |-> IF s = {} THEN base ELSE step[<<Max(s), it[s \ {Max(s)}]>>]]

(* That recursion is well defined. *)
LEMMA IterationExists ==
    ASSUME NEW n \in Nat, NEW V, NEW base \in V, NEW step \in [(1..n) \X V -> V]
    PROVE  \E it \in [SUBSET (1..n) -> V] : Iterates(it, n, base, step)
<1> DEFINE K == {k \in 0..n : \E it \in [SUBSET (1..k) -> V] : Iterates(it, k, base, step)}
<1>1. 0 \in K
  <2> DEFINE it == [s \in SUBSET (1..0) |-> base]
  <2>1. \A s \in SUBSET (1..0) : s = {}
    OBVIOUS
  <2>2. it \in [SUBSET (1..0) -> V] /\ Iterates(it, 0, base, step)
    BY <2>1 DEF Iterates
  <2>. QED BY <2>2
<1>2. ASSUME NEW k \in 1..n, k - 1 \in K PROVE k \in K
  <2>1. PICK f \in [SUBSET (1..(k - 1)) -> V] : Iterates(f, k - 1, base, step)
    BY <1>2
  <2> DEFINE it == [s \in SUBSET (1..k) |->
                      IF k \in s THEN step[<<k, f[s \ {k}]>>] ELSE f[s]]
  <2>2. \A s \in SUBSET (1..k) : s \ {k} \in SUBSET (1..(k - 1)) /\ (k \notin s => s \in SUBSET (1..(k - 1)))
    OBVIOUS
  <2>3. \A s \in SUBSET (1..k) : k \in s => Max(s) = k
    <3> SUFFICES ASSUME NEW s \in SUBSET (1..k), k \in s PROVE Max(s) = k
      OBVIOUS
    <3>1. k \in Nat /\ s # {}
      OBVIOUS
    <3>2. Max(s) \in s /\ \A y \in s : y <= Max(s)
      BY <3>1, LastPosition
    <3>3. Max(s) \in 1..k /\ k <= Max(s)
      BY <3>2
    <3>. QED BY <3>3
  <2>4. it \in [SUBSET (1..k) -> V]
    BY <2>1, <2>2
  <2>5. ASSUME NEW s \in SUBSET (1..k)
        PROVE  it[s] = IF s = {} THEN base ELSE step[<<Max(s), it[s \ {Max(s)}]>>]
    <3>1. CASE k \in s
      <4>1. Max(s) = k /\ s # {} /\ s \ {k} \in SUBSET (1..k) /\ k \notin s \ {k}
        BY <2>3, <3>1
      <4>2. it[s] = step[<<k, f[s \ {k}]>>] /\ it[s \ {k}] = f[s \ {k}]
        BY <3>1, <4>1
      <4>. QED BY <4>1, <4>2
    <3>2. CASE k \notin s /\ s # {}
      <4>0. k \in Nat
        OBVIOUS
      <4>1. s \in SUBSET (1..(k - 1)) /\ Max(s) \in s
        BY <2>2, <3>2, <4>0, LastPosition
      <4>2. f[s] = step[<<Max(s), f[s \ {Max(s)}]>>]
        BY <2>1, <3>2, <4>1 DEF Iterates
      <4>3. s \ {Max(s)} \in SUBSET (1..k) /\ k \notin s \ {Max(s)}
        BY <3>2, <4>1
      <4>. QED BY <3>2, <4>2, <4>3
    <3>3. CASE s = {}
      <4>1. s \in SUBSET (1..(k - 1)) /\ k \notin s
        BY <3>3
      <4>2. f[s] = base
        BY <2>1, <3>3, <4>1 DEF Iterates
      <4>. QED BY <3>3, <4>1, <4>2
    <3>. QED BY <3>1, <3>2, <3>3
  <2> HIDE DEF it
  <2>6. Iterates(it, k, base, step)
    BY <2>4, <2>5 DEF Iterates
  <2>. QED BY <2>4, <2>6
<1> HIDE DEF K
<1>3. 0..n \subseteq K
  BY <1>1, <1>2, InductionUpTo
<1>4. n \in 0..n
  OBVIOUS
<1>5. n \in K
  BY <1>3, <1>4
<1>. QED BY <1>5 DEF K

(* Up to each position there is exactly one last one. *)
LEMMA LastUpTo ==
    ASSUME NEW n \in Nat, NEW k \in 1..n
    PROVE  /\ 1..k \in SUBSET (1..n) /\ 1..k # {} /\ Max(1..k) = k
           /\ (1..k) \ {k} = 1..(k - 1)
<1>1. 1..k \in SUBSET (1..n) /\ 1..k # {} /\ k \in 1..k
  OBVIOUS
<1>2. Max(1..k) \in 1..k /\ \A y \in 1..k : y <= Max(1..k)
  BY <1>1, LastPosition
<1>3. Max(1..k) = k
  BY <1>1, <1>2
<1>4. (1..k) \ {k} = 1..(k - 1)
  OBVIOUS
<1>. QED BY <1>1, <1>3, <1>4

-----------------------------------------------------------------------------
(* Partials of a scan. *)

(* Partial: what a scan of rows can have gathered. *)
Partials ==
    [first_seen : BOOLEAN \cup {Null},
     rows  : [BOOLEAN -> Int],
     count : [BOOLEAN -> Int],
     sum   : [BOOLEAN -> Int],
     min   : [BOOLEAN -> Values],
     max   : [BOOLEAN -> Values]]

(* What a scan starts from. *)
LEMMA EmptyPartialType == EmptyPartial \in Partials
BY DEF EmptyPartial, Partials, Values

(* An extremum is one of the two values. *)
LEMMA MergeExtremaType ==
    ASSUME NEW a \in Values, NEW b \in Values
    PROVE  MergeMin(a, b) \in Values /\ MergeMax(a, b) \in Values
BY DEF MergeMin, MergeMax, FirstMinimum, FirstMaximum

(* What observing a row changes, field by field. *)
LEMMA ObserveFields ==
    ASSUME NEW p \in Partials, NEW row \in Rows
    PROVE  Observe(p, row) =
             [first_seen |-> IF p.first_seen = Null THEN row.group ELSE p.first_seen,
              rows  |-> [p.rows EXCEPT ![row.group] = @ + 1],
              count |-> IF row.value = Null THEN p.count ELSE [p.count EXCEPT ![row.group] = @ + 1],
              sum   |-> IF row.value = Null THEN p.sum
                        ELSE [p.sum EXCEPT ![row.group] = @ + row.value.key],
              min   |-> IF row.value = Null THEN p.min
                        ELSE [p.min EXCEPT ![row.group] = MergeMin(@, row.value)],
              max   |-> IF row.value = Null THEN p.max
                        ELSE [p.max EXCEPT ![row.group] = MergeMax(@, row.value)]]
<1> DEFINE g == row.group
           noted == [p EXCEPT !.first_seen = IF @ = Null THEN g ELSE @,
                              !.rows[g] = @ + 1]
<1>1. noted = [first_seen |-> IF p.first_seen = Null THEN g ELSE p.first_seen,
               rows |-> [p.rows EXCEPT ![g] = @ + 1],
               count |-> p.count, sum |-> p.sum, min |-> p.min, max |-> p.max]
  <2> DEFINE first == [p EXCEPT !.first_seen = IF @ = Null THEN g ELSE @]
  <2>1. p = [first_seen |-> p.first_seen, rows |-> p.rows, count |-> p.count, sum |-> p.sum,
             min |-> p.min, max |-> p.max]
    BY DEF Partials
  <2>2. first = [first_seen |-> IF p.first_seen = Null THEN g ELSE p.first_seen,
                 rows |-> p.rows, count |-> p.count, sum |-> p.sum, min |-> p.min, max |-> p.max]
    BY <2>1
  <2>3. noted = [first EXCEPT !.rows[g] = p.rows[g] + 1]
    BY <2>2
  <2> HIDE DEF first
  <2>4. noted = [first_seen |-> IF p.first_seen = Null THEN g ELSE p.first_seen,
                rows |-> [p.rows EXCEPT ![g] = p.rows[g] + 1],
                count |-> p.count, sum |-> p.sum, min |-> p.min, max |-> p.max]
    BY <2>2, <2>3
  <2>. QED BY <2>4
<1>2. CASE row.value = Null
  <2>1. Observe(p, row) = noted
    BY <1>2 DEF Observe
  <2>. QED BY <1>1, <1>2, <2>1
<1>3. CASE row.value # Null
  <2>1. Observe(p, row) =
          [noted EXCEPT !.count[g] = @ + 1,
                        !.sum[g] = @ + row.value.key,
                        !.min[g] = MergeMin(@, row.value),
                        !.max[g] = MergeMax(@, row.value)]
    BY <1>3 DEF Observe
  <2> HIDE DEF noted
  <2>. QED BY ZenonT(60), <1>1, <1>3, <2>1
<1>. QED BY <1>2, <1>3

(* Observing a row leads from a partial to a partial. *)
LEMMA ObserveType ==
    ASSUME NEW p \in Partials, NEW row \in Rows
    PROVE  Observe(p, row) \in Partials
<1>1. row.group \in BOOLEAN /\ row.value \in Values /\ (row.value # Null => row.value.key \in Int)
  BY DEF Rows, Values
<1>2. p.rows \in [BOOLEAN -> Int] /\ p.count \in [BOOLEAN -> Int] /\ p.sum \in [BOOLEAN -> Int]
  BY DEF Partials
<1>3. p.min \in [BOOLEAN -> Values] /\ p.max \in [BOOLEAN -> Values]
  BY DEF Partials
<1>4. /\ MergeMin(p.min[row.group], row.value) \in Values
      /\ MergeMax(p.max[row.group], row.value) \in Values
  BY <1>1, <1>3, MergeExtremaType
<1>5. p.first_seen \in BOOLEAN \cup {Null}
  BY DEF Partials
<1>. QED BY <1>1, <1>2, <1>3, <1>4, <1>5, ObserveFields DEF Partials

(* Merging two partials gives a partial. *)
LEMMA MergeType ==
    ASSUME NEW p \in Partials, NEW q \in Partials
    PROVE  Merge(p, q) \in Partials
BY MergeExtremaType DEF Merge, Partials

(* it is the recursion behind Chunk. *)
ScanOf(it, seq) ==
    it = [s \in SUBSET DOMAIN seq |->
            IF s = {} THEN EmptyPartial
            ELSE Observe(it[s \ {Max(s)}], seq[Max(s)])]

(* FoldLeft, unfolded: Chunk is that recursion at all the positions. *)
LEMMA ChunkIsScan ==
    ASSUME NEW seq
    PROVE  Chunk(seq) = (CHOOSE it : ScanOf(it, seq))[DOMAIN seq]
BY DEF Chunk, FoldLeft, MapThenFoldSet, ScanOf

(* The pass over a sequence of rows: what Chunk has gathered after each row. *)
Pass(g, seq) ==
    /\ g \in [0..Len(seq) -> Partials]
    /\ g[0] = EmptyPartial
    /\ \A k \in 1..Len(seq) : g[k] = Observe(g[k - 1], seq[k])

(* For every sequence of rows, Chunk is the last value of its pass. *)
LEMMA ChunkIsPass ==
    ASSUME NEW seq \in Seq(Rows)
    PROVE  \E g : Pass(g, seq) /\ Chunk(seq) = g[Len(seq)]
<1> DEFINE n == Len(seq)
           step == [x \in (1..n) \X Partials |-> Observe(x[2], seq[x[1]])]
           c == CHOOSE it : ScanOf(it, seq)
           g == [k \in 0..n |-> c[1..k]]
<1>1. n \in Nat /\ DOMAIN seq = 1..n /\ \A k \in 1..n : seq[k] \in Rows
  OBVIOUS
<1>2. step \in [(1..n) \X Partials -> Partials]
  BY <1>1, ObserveType
<1>3. EmptyPartial \in Partials
  BY EmptyPartialType
<1>4. PICK it \in [SUBSET (1..n) -> Partials] : Iterates(it, n, EmptyPartial, step)
  <2> HIDE DEF n, step
  <2>. QED BY <1>1, <1>2, <1>3, IterationExists
<1>5. ASSUME NEW s \in SUBSET (1..n)
      PROVE  it[s] = IF s = {} THEN EmptyPartial ELSE Observe(it[s \ {Max(s)}], seq[Max(s)])
  <2>1. CASE s = {}
    BY <1>4, <2>1 DEF Iterates
  <2>2. CASE s # {}
    <3>1. Max(s) \in 1..n
      BY <1>1, <2>2, LastPosition
    <3>2. s \ {Max(s)} \in SUBSET (1..n)
      OBVIOUS
    <3>3. it[s \ {Max(s)}] \in Partials
      BY <3>2
    <3>4. it[s] = step[<<Max(s), it[s \ {Max(s)}]>>]
      BY <1>4, <2>2 DEF Iterates
    <3>5. <<Max(s), it[s \ {Max(s)}]>> \in (1..n) \X Partials
      BY <3>1, <3>3
    <3>6. step[<<Max(s), it[s \ {Max(s)}]>>] = Observe(it[s \ {Max(s)}], seq[Max(s)])
      BY <3>5
    <3>. QED BY <2>2, <3>4, <3>6
  <2>. QED BY <2>1, <2>2
<1>6. ScanOf(it, seq)
  <2>1. it = [s \in SUBSET (1..n) |-> it[s]]
    BY <1>4
  <2>. QED BY <1>1, <1>5, <2>1 DEF ScanOf
<1>7. ScanOf(c, seq)
  BY <1>6
<1> HIDE DEF c
<1>8. \A s \in SUBSET (1..n) :
        c[s] = IF s = {} THEN EmptyPartial ELSE Observe(c[s \ {Max(s)}], seq[Max(s)])
  BY <1>1, <1>7 DEF ScanOf
<1>9. g[0] = EmptyPartial
  <2>1. 1..0 = {} /\ 0 \in 0..n
    BY <1>1
  <2>. QED BY <1>8, <2>1
<1>10. ASSUME NEW k \in 1..n PROVE g[k] = Observe(g[k - 1], seq[k])
  <2>1. 1..k \in SUBSET (1..n) /\ 1..k # {} /\ Max(1..k) = k /\ (1..k) \ {k} = 1..(k - 1)
    BY <1>1, LastUpTo
  <2>2. c[1..k] = Observe(c[1..(k - 1)], seq[k])
    BY <1>8, <2>1
  <2>3. k \in 0..n /\ k - 1 \in 0..n
    BY <1>1
  <2>. QED BY <2>2, <2>3
<1>11. g \in [0..n -> Partials]
  <2> DEFINE K == {k \in 0..n : g[k] \in Partials}
  <2> HIDE DEF g
  <2>1. 0 \in K
    BY <1>1, <1>3, <1>9
  <2>2. ASSUME NEW k \in 1..n, k - 1 \in K PROVE k \in K
    BY <1>1, <1>10, <2>2, ObserveType
  <2> HIDE DEF K
  <2>3. 0..n \subseteq K
    BY <1>1, <2>1, <2>2, InductionUpTo
  <2>4. \A k \in 0..n : g[k] \in Partials
    BY <2>3 DEF K
  <2>. QED BY <2>4 DEF g
<1>12. Chunk(seq) = g[n]
  <2>1. Chunk(seq) = c[1..n]
    BY <1>1, ChunkIsScan DEF c
  <2>. QED BY <1>1, <2>1
<1> HIDE DEF g, c, step
<1>. QED BY <1>9, <1>10, <1>11, <1>12 DEF Pass

(* The scan of any rows is a partial. *)
LEMMA ChunkType ==
    ASSUME NEW seq \in Seq(Rows)
    PROVE  Chunk(seq) \in Partials
<1>1. PICK g : Pass(g, seq) /\ Chunk(seq) = g[Len(seq)]
  BY ChunkIsPass
<1>2. Len(seq) \in 0..Len(seq)
  OBVIOUS
<1>. QED BY <1>1, <1>2 DEF Pass

-----------------------------------------------------------------------------
(* The reduction is a homomorphism: scanning after merging is merging after
   scanning. *)

(* Which of three values is the extremum, the first one on ties, does not
   depend on how they are paired. *)
LEMMA MergeExtremaAssociative ==
    ASSUME NEW a \in Values, NEW b \in Values, NEW v \in Values
    PROVE  /\ MergeMin(MergeMin(a, b), v) = MergeMin(a, MergeMin(b, v))
           /\ MergeMax(MergeMax(a, b), v) = MergeMax(a, MergeMax(b, v))
<1>1. \A x \in Values : x # Null => x.key \in Int
  BY DEF Values
<1>. QED BY <1>1 DEF MergeMin, MergeMax, FirstMinimum, FirstMaximum

(* Observing a row after a merge is merging after it was observed. *)
LEMMA MergeObserve ==
    ASSUME NEW p \in Partials, NEW q \in Partials, NEW row \in Rows
    PROVE  Merge(p, Observe(q, row)) = Observe(Merge(p, q), row)
<1> DEFINE g == row.group
           l == Merge(p, Observe(q, row))
           r == Observe(Merge(p, q), row)
<1>1. g \in BOOLEAN /\ row.value \in Values /\ (row.value # Null => row.value.key \in Int)
  BY DEF Rows, Values
<1>2. /\ p.rows \in [BOOLEAN -> Int] /\ p.count \in [BOOLEAN -> Int] /\ p.sum \in [BOOLEAN -> Int]
      /\ q.rows \in [BOOLEAN -> Int] /\ q.count \in [BOOLEAN -> Int] /\ q.sum \in [BOOLEAN -> Int]
  BY DEF Partials
<1>3. /\ p.min \in [BOOLEAN -> Values] /\ p.max \in [BOOLEAN -> Values]
      /\ q.min \in [BOOLEAN -> Values] /\ q.max \in [BOOLEAN -> Values]
  BY DEF Partials
<1>4. Merge(p, q) \in Partials
  BY MergeType
<1>5. l = [first_seen |-> l.first_seen, rows |-> l.rows, count |-> l.count, sum |-> l.sum,
           min |-> l.min, max |-> l.max]
  BY DEF Merge
<1>6. r = [first_seen |-> r.first_seen, rows |-> r.rows, count |-> r.count, sum |-> r.sum,
           min |-> r.min, max |-> r.max]
  BY <1>4, ObserveFields
<1>7. l.first_seen = r.first_seen
  BY <1>4, ObserveFields DEF Merge
<1> DEFINE o == Observe(q, row)
           m == Merge(p, q)
<1>8. l.rows = r.rows
  <2>1. l.rows = [h \in BOOLEAN |-> p.rows[h] + o.rows[h]]
    BY DEF Merge
  <2>2. o.rows = [q.rows EXCEPT ![g] = @ + 1]
    BY ObserveFields
  <2>3. m.rows = [h \in BOOLEAN |-> p.rows[h] + q.rows[h]]
    BY DEF Merge
  <2>4. r.rows = [m.rows EXCEPT ![g] = @ + 1]
    BY <1>4, ObserveFields
  <2> HIDE DEF l, r, o, m
  <2>5. ASSUME NEW h \in BOOLEAN PROVE l.rows[h] = r.rows[h]
    BY <1>1, <1>2, <2>1, <2>2, <2>3, <2>4
  <2>6. l.rows = [h \in BOOLEAN |-> l.rows[h]] /\ r.rows = [h \in BOOLEAN |-> r.rows[h]]
    BY <1>1, <1>2, <2>1, <2>2, <2>3, <2>4
  <2>. QED BY <2>5, <2>6
<1>9. l.count = r.count
  <2>1. l.count = [h \in BOOLEAN |-> p.count[h] + o.count[h]]
    BY DEF Merge
  <2>2. o.count = IF row.value = Null THEN q.count ELSE [q.count EXCEPT ![g] = @ + 1]
    BY ObserveFields
  <2>3. m.count = [h \in BOOLEAN |-> p.count[h] + q.count[h]]
    BY DEF Merge
  <2>4. r.count = IF row.value = Null THEN m.count ELSE [m.count EXCEPT ![g] = @ + 1]
    BY <1>4, ObserveFields
  <2> HIDE DEF l, r, o, m
  <2>. QED BY <1>1, <1>2, <2>1, <2>2, <2>3, <2>4
<1>10. l.sum = r.sum
  <2>1. l.sum = [h \in BOOLEAN |-> p.sum[h] + o.sum[h]]
    BY DEF Merge
  <2>2. o.sum = IF row.value = Null THEN q.sum ELSE [q.sum EXCEPT ![g] = @ + row.value.key]
    BY ObserveFields
  <2>3. m.sum = [h \in BOOLEAN |-> p.sum[h] + q.sum[h]]
    BY DEF Merge
  <2>4. r.sum = IF row.value = Null THEN m.sum ELSE [m.sum EXCEPT ![g] = @ + row.value.key]
    BY <1>4, ObserveFields
  <2> HIDE DEF l, r, o, m
  <2>. QED BY <1>1, <1>2, <2>1, <2>2, <2>3, <2>4
<1>11. l.min = r.min
  <2>1. l.min = [h \in BOOLEAN |-> MergeMin(p.min[h], o.min[h])]
    BY DEF Merge
  <2>2. o.min = IF row.value = Null THEN q.min ELSE [q.min EXCEPT ![g] = MergeMin(@, row.value)]
    BY ObserveFields
  <2>3. m.min = [h \in BOOLEAN |-> MergeMin(p.min[h], q.min[h])]
    BY DEF Merge
  <2>4. r.min = IF row.value = Null THEN m.min ELSE [m.min EXCEPT ![g] = MergeMin(@, row.value)]
    BY <1>4, ObserveFields
  <2> HIDE DEF l, r, o, m
  <2>5. ASSUME NEW h \in BOOLEAN PROVE l.min[h] = r.min[h]
    <3>1. p.min[h] \in Values /\ q.min[h] \in Values
      BY <1>3
    <3>2. l.min[h] = MergeMin(p.min[h], o.min[h]) /\ m.min[h] = MergeMin(p.min[h], q.min[h])
      BY <2>1, <2>3
    <3>3. CASE row.value = Null \/ h # g
      <4>1. o.min[h] = q.min[h] /\ r.min[h] = m.min[h]
        BY <1>3, <2>2, <2>3, <2>4, <3>3
      <4>. QED BY <3>2, <4>1
    <3>4. CASE row.value # Null /\ h = g
      <4>1. o.min[h] = MergeMin(q.min[h], row.value) /\ r.min[h] = MergeMin(m.min[h], row.value)
        BY <1>1, <1>3, <2>2, <2>3, <2>4, <3>4
      <4>. QED BY <1>1, <3>1, <3>2, <4>1, MergeExtremaAssociative
    <3>. QED BY <3>3, <3>4
  <2>6. l.min = [h \in BOOLEAN |-> l.min[h]] /\ r.min = [h \in BOOLEAN |-> r.min[h]]
    BY <1>1, <1>3, <2>1, <2>2, <2>3, <2>4
  <2>. QED BY <2>5, <2>6
<1>12. l.max = r.max
  <2>1. l.max = [h \in BOOLEAN |-> MergeMax(p.max[h], o.max[h])]
    BY DEF Merge
  <2>2. o.max = IF row.value = Null THEN q.max ELSE [q.max EXCEPT ![g] = MergeMax(@, row.value)]
    BY ObserveFields
  <2>3. m.max = [h \in BOOLEAN |-> MergeMax(p.max[h], q.max[h])]
    BY DEF Merge
  <2>4. r.max = IF row.value = Null THEN m.max ELSE [m.max EXCEPT ![g] = MergeMax(@, row.value)]
    BY <1>4, ObserveFields
  <2> HIDE DEF l, r, o, m
  <2>5. ASSUME NEW h \in BOOLEAN PROVE l.max[h] = r.max[h]
    <3>1. p.max[h] \in Values /\ q.max[h] \in Values
      BY <1>3
    <3>2. l.max[h] = MergeMax(p.max[h], o.max[h]) /\ m.max[h] = MergeMax(p.max[h], q.max[h])
      BY <2>1, <2>3
    <3>3. CASE row.value = Null \/ h # g
      <4>1. o.max[h] = q.max[h] /\ r.max[h] = m.max[h]
        BY <1>3, <2>2, <2>3, <2>4, <3>3
      <4>. QED BY <3>2, <4>1
    <3>4. CASE row.value # Null /\ h = g
      <4>1. o.max[h] = MergeMax(q.max[h], row.value) /\ r.max[h] = MergeMax(m.max[h], row.value)
        BY <1>1, <1>3, <2>2, <2>3, <2>4, <3>4
      <4>. QED BY <1>1, <3>1, <3>2, <4>1, MergeExtremaAssociative
    <3>. QED BY <3>3, <3>4
  <2>6. l.max = [h \in BOOLEAN |-> l.max[h]] /\ r.max = [h \in BOOLEAN |-> r.max[h]]
    BY <1>1, <1>3, <2>1, <2>2, <2>3, <2>4
  <2>. QED BY <2>5, <2>6
<1> HIDE DEF l, r
<1>. QED BY <1>5, <1>6, <1>7, <1>8, <1>9, <1>10, <1>11, <1>12 DEF l, r

(* Merging with a lane that saw nothing, on either side. *)
LEMMA MergeEmpty ==
    ASSUME NEW p \in Partials
    PROVE  Merge(p, EmptyPartial) = p /\ Merge(EmptyPartial, p) = p
<1>1. p = [first_seen |-> p.first_seen, rows |-> p.rows, count |-> p.count, sum |-> p.sum,
           min |-> p.min, max |-> p.max]
  BY DEF Partials
<1>2. /\ p.rows = [g \in BOOLEAN |-> p.rows[g] + 0] /\ p.rows = [g \in BOOLEAN |-> 0 + p.rows[g]]
      /\ p.count = [g \in BOOLEAN |-> p.count[g] + 0] /\ p.count = [g \in BOOLEAN |-> 0 + p.count[g]]
      /\ p.sum = [g \in BOOLEAN |-> p.sum[g] + 0] /\ p.sum = [g \in BOOLEAN |-> 0 + p.sum[g]]
  BY DEF Partials
<1>3. /\ p.min = [g \in BOOLEAN |-> MergeMin(p.min[g], Null)]
      /\ p.min = [g \in BOOLEAN |-> MergeMin(Null, p.min[g])]
      /\ p.max = [g \in BOOLEAN |-> MergeMax(p.max[g], Null)]
      /\ p.max = [g \in BOOLEAN |-> MergeMax(Null, p.max[g])]
  BY DEF Partials, MergeMin, MergeMax
<1>4. Merge(p, EmptyPartial) = p
  BY <1>1, <1>2, <1>3 DEF Merge, EmptyPartial
<1>5. Merge(EmptyPartial, p) = p
  BY <1>1, <1>2, <1>3 DEF Merge, EmptyPartial
<1>. QED BY <1>4, <1>5

(* The scan of two lanes in a row is the merge of their scans. *)
LEMMA ChunkConcat ==
    ASSUME NEW a \in Seq(Rows), NEW b \in Seq(Rows)
    PROVE  Chunk(a \o b) = Merge(Chunk(a), Chunk(b))
<1> DEFINE n == Len(a)
           m == Len(b)
           ab == a \o b
<1>1. /\ n \in Nat /\ m \in Nat /\ ab \in Seq(Rows) /\ Len(ab) = n + m
      /\ \A k \in 1..n : ab[k] = a[k]
      /\ \A k \in 1..m : ab[n + k] = b[k]
  OBVIOUS
<1>2. PICK f : Pass(f, a) /\ Chunk(a) = f[n]
  BY ChunkIsPass
<1>3. PICK g : Pass(g, b) /\ Chunk(b) = g[m]
  BY ChunkIsPass
<1>4. PICK h : Pass(h, ab) /\ Chunk(ab) = h[n + m]
  BY <1>1, ChunkIsPass
<1> HIDE DEF n, m, ab
<1>5. /\ f[0] = EmptyPartial /\ \A k \in 1..n : f[k] = Observe(f[k - 1], a[k])
      /\ g[0] = EmptyPartial /\ \A k \in 1..m : g[k] = Observe(g[k - 1], b[k])
      /\ \A k \in 0..m : g[k] \in Partials
  BY <1>2, <1>3 DEF Pass, n, m
<1>6. h[0] = EmptyPartial /\ \A k \in 1..(n + m) : h[k] = Observe(h[k - 1], ab[k])
  BY <1>1, <1>4 DEF Pass
<1>7. h[n] = Chunk(a)
  <2> DEFINE K == {k \in 0..n : h[k] = f[k]}
  <2>1. 0 \in K
    BY <1>1, <1>5, <1>6
  <2>2. ASSUME NEW k \in 1..n, k - 1 \in K PROVE k \in K
    <3>1. k \in 1..(n + m) /\ k \in 0..n
      BY <1>1
    <3>2. h[k] = Observe(h[k - 1], a[k]) /\ f[k] = Observe(f[k - 1], a[k])
      BY <1>1, <1>5, <1>6, <3>1
    <3>. QED BY <2>2, <3>1, <3>2
  <2> HIDE DEF K
  <2>3. 0..n \subseteq K
    BY <1>1, <2>1, <2>2, InductionUpTo
  <2>4. n \in K
    BY <1>1, <2>3
  <2>. QED BY <1>2, <2>4 DEF K
<1>8. h[n + m] = Merge(Chunk(a), Chunk(b))
  <2> DEFINE K == {k \in 0..m : h[n + k] = Merge(Chunk(a), g[k])}
  <2>1. 0 \in K
    BY <1>1, <1>5, <1>7, ChunkType, MergeEmpty
  <2>2. ASSUME NEW k \in 1..m, k - 1 \in K PROVE k \in K
    <3>1. n + k \in 1..(n + m) /\ n + k - 1 = n + (k - 1) /\ k - 1 \in 0..m
      BY <1>1
    <3>2. h[n + k] = Observe(h[n + (k - 1)], b[k])
      BY <1>1, <1>6, <3>1
    <3>3. h[n + (k - 1)] = Merge(Chunk(a), g[k - 1])
      BY <2>2
    <3>4. b[k] \in Rows /\ k \in 0..m
      BY <1>1 DEF m
    <3>5. Observe(Merge(Chunk(a), g[k - 1]), b[k]) = Merge(Chunk(a), g[k])
      BY <1>5, <3>1, <3>4, ChunkType, MergeObserve
    <3>. QED BY <3>2, <3>3, <3>4, <3>5
  <2> HIDE DEF K
  <2>3. 0..m \subseteq K
    BY <1>1, <2>1, <2>2, InductionUpTo
  <2>4. m \in K
    BY <1>1, <2>3
  <2>. QED BY <1>3, <2>4 DEF K
<1>. QED BY <1>4, <1>8 DEF ab

-----------------------------------------------------------------------------
(* The reduction of the lanes. *)

(* it is the recursion behind ReduceOrdered. *)
ReductionOf(it, ps) ==
    it = [s \in SUBSET DOMAIN ps |->
            IF s = {} THEN EmptyPartial
            ELSE Merge(it[s \ {Max(s)}], ps[Max(s)])]

(* FoldLeft, unfolded: ReduceOrdered is that recursion at all the lanes. *)
LEMMA ReduceIsReduction ==
    ASSUME NEW ps
    PROVE  ReduceOrdered(ps) = (CHOOSE it : ReductionOf(it, ps))[DOMAIN ps]
BY DEF ReduceOrdered, FoldLeft, MapThenFoldSet, ReductionOf

(* What reduce_ordered has merged after each lane. *)
LEMMA ReduceIsPass ==
    ASSUME NEW ps \in Seq(Partials)
    PROVE  \E g : /\ g[0] = EmptyPartial
                  /\ \A k \in 1..Len(ps) : g[k] = Merge(g[k - 1], ps[k])
                  /\ ReduceOrdered(ps) = g[Len(ps)]
<1> DEFINE n == Len(ps)
           step == [x \in (1..n) \X Partials |-> Merge(x[2], ps[x[1]])]
           c == CHOOSE it : ReductionOf(it, ps)
           g == [k \in 0..n |-> c[1..k]]
<1>1. n \in Nat /\ DOMAIN ps = 1..n /\ \A k \in 1..n : ps[k] \in Partials
  OBVIOUS
<1>2. step \in [(1..n) \X Partials -> Partials]
  BY <1>1, MergeType
<1>3. EmptyPartial \in Partials
  BY EmptyPartialType
<1>4. PICK it \in [SUBSET (1..n) -> Partials] : Iterates(it, n, EmptyPartial, step)
  <2> HIDE DEF n, step
  <2>. QED BY <1>1, <1>2, <1>3, IterationExists
<1>5. ASSUME NEW s \in SUBSET (1..n)
      PROVE  it[s] = IF s = {} THEN EmptyPartial ELSE Merge(it[s \ {Max(s)}], ps[Max(s)])
  <2>1. CASE s = {}
    BY <1>4, <2>1 DEF Iterates
  <2>2. CASE s # {}
    <3>1. Max(s) \in 1..n
      BY <1>1, <2>2, LastPosition
    <3>2. s \ {Max(s)} \in SUBSET (1..n)
      OBVIOUS
    <3>3. it[s \ {Max(s)}] \in Partials
      BY <3>2
    <3>4. it[s] = step[<<Max(s), it[s \ {Max(s)}]>>]
      BY <1>4, <2>2 DEF Iterates
    <3>5. <<Max(s), it[s \ {Max(s)}]>> \in (1..n) \X Partials
      BY <3>1, <3>3
    <3>6. step[<<Max(s), it[s \ {Max(s)}]>>] = Merge(it[s \ {Max(s)}], ps[Max(s)])
      BY <3>5
    <3>. QED BY <2>2, <3>4, <3>6
  <2>. QED BY <2>1, <2>2
<1>6. ReductionOf(it, ps)
  <2>1. it = [s \in SUBSET (1..n) |-> it[s]]
    BY <1>4
  <2>. QED BY <1>1, <1>5, <2>1 DEF ReductionOf
<1>7. ReductionOf(c, ps)
  BY <1>6
<1> HIDE DEF c
<1>8. \A s \in SUBSET (1..n) :
        c[s] = IF s = {} THEN EmptyPartial ELSE Merge(c[s \ {Max(s)}], ps[Max(s)])
  BY <1>1, <1>7 DEF ReductionOf
<1>9. g[0] = EmptyPartial
  <2>1. 1..0 = {} /\ 0 \in 0..n
    BY <1>1
  <2>. QED BY <1>8, <2>1
<1>10. ASSUME NEW k \in 1..n PROVE g[k] = Merge(g[k - 1], ps[k])
  <2>1. 1..k \in SUBSET (1..n) /\ 1..k # {} /\ Max(1..k) = k /\ (1..k) \ {k} = 1..(k - 1)
    BY <1>1, LastUpTo
  <2>2. c[1..k] = Merge(c[1..(k - 1)], ps[k])
    BY <1>8, <2>1
  <2>3. k \in 0..n /\ k - 1 \in 0..n
    BY <1>1
  <2>. QED BY <2>2, <2>3
<1>11. ReduceOrdered(ps) = g[n]
  <2>1. ReduceOrdered(ps) = c[1..n]
    BY <1>1, ReduceIsReduction DEF c
  <2>. QED BY <1>1, <2>1
<1> HIDE DEF g, c, step
<1>. QED BY <1>9, <1>10, <1>11

-----------------------------------------------------------------------------
(* The lanes of a query. *)

(* Rows before lane i of w lanes. *)
RowsBefore(n, w, i) == i * (n \div w) + Min2(i, n % w)

(* The lanes share the rows out: from the first row to the last one, each where
   the one before it ends. *)
LEMMA LanesAreAdjacent ==
    ASSUME NEW n \in Nat, NEW w \in Nat, w > 0
    PROVE  /\ RowsBefore(n, w, 0) = 0
           /\ RowsBefore(n, w, w) = n
           /\ \A i \in 0..w : RowsBefore(n, w, i) \in 0..n
           /\ \A i \in 0..(w - 1) :
                 /\ RowsBefore(n, w, i + 1) =
                      RowsBefore(n, w, i) + (n \div w) + (IF i < n % w THEN 1 ELSE 0)
                 /\ RowsBefore(n, w, i) <= RowsBefore(n, w, i + 1)
<1> DEFINE q == n \div w
           r == n % w
<1>1. q \in Nat /\ r \in 0..(w - 1) /\ n = w * q + r
  OBVIOUS
<1> HIDE DEF q, r
<1>2. \A i \in 0..w : i * q \in Nat /\ i * q <= w * q
  <2> SUFFICES ASSUME NEW i \in 0..w PROVE i * q \in Nat /\ i * q <= w * q
    OBVIOUS
  <2>1. i * q \in Nat /\ (w - i) * q \in Nat
    BY <1>1
  <2>2. (w - i) * q = w * q - i * q
    BY <1>1
  <2>. QED BY <1>1, <2>1, <2>2
<1>3. \A i \in 0..(w - 1) : (i + 1) * q = i * q + q
  BY <1>1
<1>4. RowsBefore(n, w, 0) = 0
  BY <1>1 DEF RowsBefore, Min2, q, r
<1>5. RowsBefore(n, w, w) = n
  BY <1>1 DEF RowsBefore, Min2, q, r
<1>6. ASSUME NEW i \in 0..w PROVE RowsBefore(n, w, i) \in 0..n
  <2>1. RowsBefore(n, w, i) = i * q + Min2(i, r)
    BY DEF RowsBefore, q, r
  <2>2. Min2(i, r) \in 0..r
    BY <1>1 DEF Min2
  <2>3. i * q \in Nat /\ i * q <= w * q /\ w * q \in Nat
    BY <1>1, <1>2
  <2>. QED BY <1>1, <2>1, <2>2, <2>3
<1>7. ASSUME NEW i \in 0..(w - 1)
      PROVE  /\ RowsBefore(n, w, i + 1) = RowsBefore(n, w, i) + q + (IF i < r THEN 1 ELSE 0)
             /\ RowsBefore(n, w, i) <= RowsBefore(n, w, i + 1)
  <2>1. /\ RowsBefore(n, w, i) = i * q + Min2(i, r)
        /\ RowsBefore(n, w, i + 1) = (i + 1) * q + Min2(i + 1, r)
    BY DEF RowsBefore, q, r
  <2>2. Min2(i, r) \in Nat /\ Min2(i + 1, r) = Min2(i, r) + (IF i < r THEN 1 ELSE 0)
    BY <1>1 DEF Min2
  <2>3. i * q \in Nat /\ (i + 1) * q = i * q + q
    BY <1>1, <1>2, <1>3
  <2>. QED BY <1>1, <2>1, <2>2, <2>3
<1>. QED BY <1>4, <1>5, <1>6, <1>7 DEF q, r

(* Each lane is the rows between its bounds. *)
LEMMA PartitionBounds ==
    ASSUME NEW input \in Seq(Rows), NEW w \in Nat, w > 0, NEW i \in 0..(w - 1)
    PROVE  Partition(input, w, i) =
             SubSeq(input, RowsBefore(Len(input), w, i) + 1, RowsBefore(Len(input), w, i + 1))
<1> DEFINE b == RowsBefore(Len(input), w, i)
<1>1. Len(input) \in Nat
  OBVIOUS
<1>2. RowsBefore(Len(input), w, i + 1) =
        b + (Len(input) \div w) + (IF i < Len(input) % w THEN 1 ELSE 0)
  BY <1>1, LanesAreAdjacent
<1>3. Partition(input, w, i) =
        SubSeq(input, b + 1, b + (Len(input) \div w) + (IF i < Len(input) % w THEN 1 ELSE 0))
  BY DEF Partition, RowsBefore
<1>. QED BY <1>2, <1>3

(* Reducing the scans of the lanes gives the scan of all rows. *)
LEMMA LanesReduceToScan ==
    ASSUME NEW input \in Seq(Rows), NEW w \in Nat, w > 0,
           NEW ps, ps = [k \in 1..w |-> Chunk(Partition(input, w, k - 1))]
    PROVE  ReduceOrdered(ps) = Chunk(input)
<1> DEFINE n == Len(input)
           upto(k) == SubSeq(input, 1, RowsBefore(n, w, k))
<1>1. n \in Nat
  OBVIOUS
<1>2. \A k \in 0..w : RowsBefore(n, w, k) \in 0..n
  BY <1>1, LanesAreAdjacent
<1>3. \A k \in 0..w : upto(k) \in Seq(Rows)
  <2> SUFFICES ASSUME NEW k \in 0..w PROVE upto(k) \in Seq(Rows)
    OBVIOUS
  <2> DEFINE b == RowsBefore(n, w, k)
  <2>1. b \in 0..n
    BY <1>2
  <2> HIDE DEF b
  <2>2. SubSeq(input, 1, b) \in Seq(Rows)
    BY <2>1
  <2>. QED BY <2>2 DEF b
<1>4. ASSUME NEW k \in 1..w
      PROVE  Partition(input, w, k - 1) \in Seq(Rows) /\ upto(k) = upto(k - 1) \o Partition(input, w, k - 1)
  <2> DEFINE a == RowsBefore(n, w, k - 1)
             b == RowsBefore(n, w, k)
  <2>1. k - 1 \in 0..(w - 1) /\ k - 1 \in 0..w /\ k \in 0..w /\ (k - 1) + 1 = k
    OBVIOUS
  <2>2. a \in 0..n /\ b \in 0..n /\ a <= b
    BY <1>1, <1>2, <2>1, LanesAreAdjacent
  <2>3. Partition(input, w, k - 1) = SubSeq(input, a + 1, b)
    BY <2>1, PartitionBounds
  <2> HIDE DEF a, b
  <2>4. SubSeq(input, 1, a) \o SubSeq(input, a + 1, b) = SubSeq(input, 1, b)
    <3>1. 1 \in 1..(n + 1) /\ a \in 1 - 1..n /\ b \in a..n
      BY <1>1, <2>2
    <3>. QED BY <3>1, ConcatAdjacentSubSeq
  <2>5. SubSeq(input, a + 1, b) \in Seq(Rows)
    <3>1. a + 1 \in Int /\ b \in Int /\ (a + 1)..b \subseteq 1..n
      BY <1>1, <2>2
    <3>2. \A i \in 1..n : input[i] \in Rows
      OBVIOUS
    <3>. QED BY <3>1, <3>2, SubSeqProperties
  <2>. QED BY <2>3, <2>4, <2>5 DEF a, b
<1>5. ps \in Seq(Partials) /\ Len(ps) = w
  <2>1. \A k \in 1..w : Chunk(Partition(input, w, k - 1)) \in Partials
    BY <1>4, ChunkType
  <2>. QED BY <2>1
<1>6. PICK g : /\ g[0] = EmptyPartial
               /\ \A k \in 1..w : g[k] = Merge(g[k - 1], ps[k])
               /\ ReduceOrdered(ps) = g[w]
  BY <1>5, ReduceIsPass
<1>7. g[w] = Chunk(upto(w))
  <2> DEFINE L == {k \in 0..w : g[k] = Chunk(upto(k))}
  <2>1. 0 \in L
    <3>1. upto(0) = << >> /\ << >> \in Seq(Rows) /\ Len(<< >>) = 0
      <4>1. RowsBefore(n, w, 0) = 0
        BY <1>1, LanesAreAdjacent
      <4>. QED BY <4>1
    <3>2. Chunk(<< >>) = EmptyPartial
      <4>1. PICK h : Pass(h, << >>) /\ Chunk(<< >>) = h[Len(<< >>)]
        BY <3>1, ChunkIsPass
      <4>. QED BY <3>1, <4>1 DEF Pass
    <3>3. 0 \in 0..w
      OBVIOUS
    <3>4. g[0] = Chunk(upto(0))
      BY <1>6, <3>1, <3>2
    <3> HIDE DEF upto
    <3>. QED BY <3>3, <3>4
  <2>2. ASSUME NEW k \in 1..w, k - 1 \in L PROVE k \in L
    <3>1. upto(k - 1) \in Seq(Rows) /\ k \in 0..w
      BY <1>3
    <3>2. Chunk(upto(k)) = Merge(Chunk(upto(k - 1)), Chunk(Partition(input, w, k - 1)))
      <4> HIDE DEF upto
      <4>. QED BY <1>4, <3>1, ChunkConcat
    <3>3. g[k] = Merge(g[k - 1], Chunk(Partition(input, w, k - 1)))
      BY <1>6
    <3>. QED BY <2>2, <3>1, <3>2, <3>3
  <2> HIDE DEF L, upto
  <2>3. 0..w \subseteq L
    BY <2>1, <2>2, InductionUpTo
  <2>4. w \in L
    BY <2>3
  <2>. QED BY <2>4 DEF L
<1>8. upto(w) = input
  <2>1. RowsBefore(n, w, w) = n
    BY <1>1, LanesAreAdjacent
  <2>. QED BY <2>1, SubSeqFull
<1>. QED BY <1>6, <1>7, <1>8

-----------------------------------------------------------------------------
(* The answers. *)

(* The scans of the first k lanes. *)
LaneScans(q, k) == [i \in 1..k |-> Chunk(Partition(rows[q], Lanes(q), i - 1))]

(* Unless a helper failed, every lane got its thread and the partials are the
   scans of the lanes joined so far, in order; whatever has been answered is
   the scan of all rows. *)
ScansInOrder ==
    \A q \in Queries :
        /\ pc[q] \in {"local", "join"} /\ failed[q] = "no" => spawned[q] = permit[q]
        /\ pc[q] = "join" /\ failed[q] = "no" => partials[q] = LaneScans(q, joined[q] + 1)
        /\ pc[q] \in {"release", "done"} => answer[q] = Chunk(rows[q])

AnswerInv ==
    /\ rows \in [Queries -> Inputs]
    /\ failed \in [Queries -> {"yes", "no"}]
    /\ partials \in [Queries -> Seq(Partials)]
    /\ answer \in [Queries -> Partials \cup {Null}]
    /\ ScansInOrder

(* What a query scans is typed as its rows are. *)
LEMMA LaneScanType ==
    ASSUME IInv, AnswerInv, NEW q \in Queries, NEW i \in 0..permit[q]
    PROVE  Chunk(Partition(rows[q], Lanes(q), i)) \in Partials
<1>1. rows[q] \in Seq(Rows) /\ permit[q] \in Nat
  BY SchedulerAssumption DEF IInv, TypeOK, AnswerInv
<1>2. Lanes(q) \in Nat /\ Lanes(q) > 0 /\ i \in 0..(Lanes(q) - 1)
  BY <1>1 DEF Lanes
<1> DEFINE n == Len(rows[q])
           a == RowsBefore(n, Lanes(q), i)
           b == RowsBefore(n, Lanes(q), i + 1)
<1>3. Partition(rows[q], Lanes(q), i) = SubSeq(rows[q], a + 1, b)
  BY <1>1, <1>2, PartitionBounds
<1>4. n \in Nat
  BY <1>1
<1>5. i \in 0..Lanes(q) /\ i + 1 \in 0..Lanes(q)
  BY <1>2
<1>6. a \in 0..n /\ b \in 0..n
  BY <1>2, <1>4, <1>5, LanesAreAdjacent
<1> HIDE DEF a, b
<1>7. a + 1 \in Int /\ b \in Int /\ (a + 1)..b \subseteq 1..n
  BY <1>4, <1>6
<1>8. \A k \in 1..n : rows[q][k] \in Rows
  BY <1>1
<1>9. Partition(rows[q], Lanes(q), i) \in Seq(Rows)
  BY <1>3, <1>7, <1>8, SubSeqProperties
<1>. QED BY <1>9, ChunkType

(* No query has scanned or answered anything. *)
LEMMA InitAnswerInv == Init => AnswerInv
<1> SUFFICES ASSUME Init PROVE AnswerInv
  OBVIOUS
<1>1. rows \in [Queries -> Inputs] /\ failed \in [Queries -> {"yes", "no"}]
  BY DEF Init
<1>2. partials \in [Queries -> Seq(Partials)] /\ answer \in [Queries -> Partials \cup {Null}]
  BY DEF Init
<1>3. ScansInOrder
  BY DEF Init, ScansInOrder
<1>. QED BY <1>1, <1>2, <1>3 DEF AnswerInv

(* Steps that scan, join and answer nothing. *)
LEMMA AnswersUntouched ==
    ASSUME IInv, AnswerInv, NEW q \in Queries,
           UNCHANGED <<rows, failed, partials, answer, joined, permit, spawned>>,
           \A p \in Queries : p # q => pc'[p] = pc[p],
           pc'[q] \in {"local", "join"} => failed[q] = "yes" \/ spawned[q] = permit[q],
           pc'[q] \in {"join", "release", "done"} => pc'[q] = pc[q]
    PROVE  AnswerInv'
<1>1. \A p \in Queries : LaneScans(p, joined[p] + 1)' = LaneScans(p, joined[p] + 1)
  BY DEF LaneScans, Lanes
<1>2. ScansInOrder'
  BY <1>1 DEF AnswerInv, ScansInOrder
<1>. QED BY <1>2 DEF AnswerInv

(* Every step of a query keeps its partials in order and its answer exact. *)
LEMMA QueryStepAnswers ==
    ASSUME IInv, AnswerInv, NEW q \in Queries, QueryStep(q)
    PROVE  AnswerInv'
<1> USE DEF Goto
<1>0. pc \in [Queries -> Phases]
  BY DEF IInv, TypeOK
<1>1. CASE Load(q)
  BY <1>0, <1>1, AnswersUntouched DEF Load
<1>2. CASE Refused(q)
  BY <1>0, <1>2, AnswersUntouched DEF Refused
<1>3. CASE Acquire(q)
  <2>1. \A p \in Queries : p # q => Lanes(p)' = Lanes(p) /\ pc'[p] = pc[p] /\ permit'[p] = permit[p]
    BY <1>0, <1>3 DEF Acquire, Lanes, IInv, TypeOK
  <2>2. \A p \in Queries : p # q => LaneScans(p, joined[p] + 1)' = LaneScans(p, joined[p] + 1)
    BY <1>3, <2>1 DEF Acquire, LaneScans
  <2>3. pc'[q] = "spawn"
    BY <1>0, <1>3 DEF Acquire
  <2>4. ScansInOrder'
    BY <1>3, <2>1, <2>2, <2>3 DEF Acquire, AnswerInv, ScansInOrder
  <2>. QED BY <1>3, <2>4 DEF Acquire, AnswerInv
<1>4. CASE Retry(q)
  BY <1>0, <1>4, AnswersUntouched DEF Retry
<1>5. CASE Spawn(q)
  <2>1. \A p \in Queries : LaneScans(p, joined[p] + 1)' = LaneScans(p, joined[p] + 1)
    BY <1>5 DEF Spawn, LaneScans, Lanes
  <2>2. pc[q] = "spawn" /\ pc' = pc /\ \A p \in Queries : p # q => spawned'[p] = spawned[p]
    BY <1>5 DEF Spawn, IInv, TypeOK
  <2>3. ScansInOrder'
    BY <1>5, <2>1, <2>2 DEF Spawn, AnswerInv, ScansInOrder
  <2>. QED BY <1>5, <2>3 DEF Spawn, AnswerInv
<1>6. CASE SpawnFails(q)
  <2>1. \A p \in Queries : LaneScans(p, joined[p] + 1)' = LaneScans(p, joined[p] + 1)
    BY <1>6 DEF SpawnFails, LaneScans, Lanes
  <2>2. failed' \in [Queries -> {"yes", "no"}] /\ failed'[q] = "yes" /\ pc'[q] = "local"
    BY <1>0, <1>6 DEF SpawnFails, AnswerInv
  <2>3. \A p \in Queries : p # q => failed'[p] = failed[p] /\ pc'[p] = pc[p]
    BY <1>0, <1>6 DEF SpawnFails, AnswerInv
  <2>4. ScansInOrder'
    BY <1>6, <2>1, <2>2, <2>3 DEF SpawnFails, AnswerInv, ScansInOrder
  <2>. QED BY <1>6, <2>2, <2>4 DEF SpawnFails, AnswerInv
<1>7. CASE AllSpawned(q)
  BY <1>0, <1>7, AnswersUntouched DEF AllSpawned
<1>8. CASE LocalChunk(q)
  <2>1. pc[q] = "local" /\ pc'[q] = "join" /\ \A p \in Queries : p # q => pc'[p] = pc[p]
    BY <1>0, <1>8 DEF LocalChunk
  <2>2. joined[q] = 0 /\ 0 \in 0..permit[q]
    BY <2>1, SchedulerAssumption DEF IInv, TypeOK, SpawnBound
  <2> DEFINE c == Chunk(Partition(rows[q], Lanes(q), 0))
  <2>3. c \in Partials
    BY <2>2, LaneScanType
  <2>4. partials' = [partials EXCEPT ![q] = <<c>>]
    BY <1>8 DEF LocalChunk
  <2>5. partials' \in [Queries -> Seq(Partials)]
    BY <2>3, <2>4 DEF AnswerInv
  <2>6. \A p \in Queries : LaneScans(p, joined[p] + 1)' = LaneScans(p, joined[p] + 1)
    BY <1>8 DEF LocalChunk, LaneScans, Lanes
  <2>7. partials'[q] = LaneScans(q, joined[q] + 1)
    <3>1. LaneScans(q, joined[q] + 1) = [i \in 1..1 |-> c]
      <4>1. LaneScans(q, joined[q] + 1) = [i \in 1..1 |-> Chunk(Partition(rows[q], Lanes(q), i - 1))]
        BY <2>2 DEF LaneScans
      <4>2. \A i \in 1..1 : i - 1 = 0
        OBVIOUS
      <4>. QED BY <4>1, <4>2
    <3> HIDE DEF c
    <3>2. <<c>> = [i \in 1..1 |-> c]
      OBVIOUS
    <3>. QED BY <2>4, <3>1, <3>2 DEF AnswerInv
  <2>8. ScansInOrder'
    <3> SUFFICES ASSUME NEW p \in Queries
                 PROVE  /\ pc'[p] \in {"local", "join"} /\ failed'[p] = "no" => spawned'[p] = permit'[p]
                        /\ pc'[p] = "join" /\ failed'[p] = "no" =>
                              partials'[p] = LaneScans(p, joined[p] + 1)
                        /\ pc'[p] \in {"release", "done"} => answer'[p] = Chunk(rows'[p])
      BY <2>6 DEF ScansInOrder
    <3>1. UNCHANGED <<rows, permit, spawned, failed, answer>>
      BY <1>8 DEF LocalChunk
    <3>2. CASE p = q
      BY <2>1, <2>7, <3>1, <3>2 DEF AnswerInv, ScansInOrder
    <3>3. CASE p # q
      <4>1. partials'[p] = partials[p]
        BY <2>4, <3>3 DEF AnswerInv
      <4>. QED BY <2>1, <3>1, <3>3, <4>1 DEF AnswerInv, ScansInOrder
    <3>. QED BY <3>2, <3>3
  <2>. QED BY <1>8, <2>5, <2>8 DEF LocalChunk, AnswerInv
<1>9. CASE LocalPanics(q)
  BY <1>0, <1>9, AnswersUntouched DEF LocalPanics
<1>10. CASE Join(q)
  <2> DEFINE i == joined[q] + 1
             c == Chunk(Partition(rows[q], Lanes(q), i))
  <2>1. /\ pc[q] = "join" /\ joined[q] < spawned[q] /\ joined' = [joined EXCEPT ![q] = i]
        /\ UNCHANGED <<pc, rows, permit, spawned, answer>>
    BY <1>10 DEF Join
  <2>2. joined[q] \in Nat /\ spawned[q] \in Nat /\ spawned[q] <= permit[q] /\ permit[q] \in Nat
    BY <2>1, SchedulerAssumption DEF IInv, TypeOK, SpawnBound
  <2>3. i \in 0..permit[q]
    BY <2>1, <2>2
  <2>4. c \in Partials
    BY <2>3, LaneScanType
  <2>5. /\ \A p \in Queries : p # q => joined'[p] = joined[p]
        /\ joined'[q] = i
    BY <2>1 DEF IInv, TypeOK
  <2>6. \A p \in Queries : \A k : LaneScans(p, k)' = LaneScans(p, k)
    BY <2>1 DEF LaneScans, Lanes
  <2>7. CASE helper[q][i] = "panicked"
    <3>1. failed' = [failed EXCEPT ![q] = "yes"] /\ UNCHANGED partials
      BY <1>10, <2>7 DEF Join
    <3>2. failed' \in [Queries -> {"yes", "no"}] /\ failed'[q] = "yes"
          /\ \A p \in Queries : p # q => failed'[p] = failed[p]
      BY <3>1 DEF AnswerInv
    <3>3. \A p \in Queries : p # q => LaneScans(p, joined[p] + 1)' = LaneScans(p, joined[p] + 1)
      BY <2>1, <2>5 DEF LaneScans, Lanes
    <3>4. ScansInOrder'
      BY <2>1, <3>1, <3>2, <3>3 DEF AnswerInv, ScansInOrder
    <3>. QED BY <2>1, <3>1, <3>2, <3>4 DEF AnswerInv
  <2>8. CASE helper[q][i] # "panicked"
    <3>1. partials' = [partials EXCEPT ![q] = Append(@, c)] /\ UNCHANGED failed
      BY <1>10, <2>8 DEF Join
    <3> HIDE DEF c
    <3>2. /\ partials' \in [Queries -> Seq(Partials)] /\ partials'[q] = Append(partials[q], c)
          /\ \A p \in Queries : p # q => partials'[p] = partials[p]
      BY <2>4, <3>1 DEF AnswerInv
    <3>3. \A p \in Queries : p # q => LaneScans(p, joined[p] + 1)' = LaneScans(p, joined[p] + 1)
      BY <2>1, <2>5 DEF LaneScans, Lanes
    <3>4. ASSUME failed[q] = "no"
          PROVE  partials'[q] = LaneScans(q, joined[q] + 1)'
      <4>1. partials[q] = LaneScans(q, i)
        BY <2>1, <3>4 DEF AnswerInv, ScansInOrder
      <4>2. LaneScans(q, joined[q] + 1)' = LaneScans(q, i + 1)
        BY <2>1, <2>5 DEF LaneScans, Lanes
      <4>3. Append(LaneScans(q, i), c) = LaneScans(q, i + 1)
        <5>1. i \in Nat /\ (i + 1) - 1 = i
          BY <2>2
        <5> HIDE DEF i
        <5> DEFINE s(k) == Chunk(Partition(rows[q], Lanes(q), k - 1))
        <5>2. LaneScans(q, i) = [k \in 1..i |-> s(k)] /\ LaneScans(q, i + 1) = [k \in 1..(i + 1) |-> s(k)]
          BY DEF LaneScans
        <5>3. c = s(i + 1)
          BY <5>1 DEF c
        <5> HIDE DEF s
        <5>4. Append([k \in 1..i |-> s(k)], s(i + 1)) = [k \in 1..(i + 1) |-> s(k)]
          BY <5>1
        <5>. QED BY <5>2, <5>3, <5>4
      <4>. QED BY <3>2, <4>1, <4>2, <4>3
    <3>5. ScansInOrder'
      <4> SUFFICES ASSUME NEW p \in Queries
                   PROVE  /\ pc'[p] \in {"local", "join"} /\ failed'[p] = "no" => spawned'[p] = permit'[p]
                          /\ pc'[p] = "join" /\ failed'[p] = "no" =>
                                partials'[p] = LaneScans(p, joined[p] + 1)'
                          /\ pc'[p] \in {"release", "done"} => answer'[p] = Chunk(rows'[p])
        BY DEF ScansInOrder
      <4>1. CASE p = q
        BY <2>1, <3>1, <3>4, <4>1 DEF AnswerInv, ScansInOrder
      <4>2. CASE p # q
        BY <2>1, <3>1, <3>2, <3>3, <4>2 DEF AnswerInv, ScansInOrder
      <4>. QED BY <4>1, <4>2
    <3>. QED BY <2>1, <3>1, <3>2, <3>5 DEF AnswerInv
  <2>. QED BY <2>7, <2>8
<1>11. CASE LeaveScope(q)
  <2>1. /\ pc[q] = "join" /\ joined[q] = spawned[q]
        /\ pc' = [pc EXCEPT ![q] = IF failed[q] = "yes" THEN "fallback" ELSE "release"]
        /\ answer' = [answer EXCEPT ![q] = IF failed[q] = "yes" THEN @ ELSE ReduceOrdered(partials[q])]
        /\ UNCHANGED <<rows, permit, spawned, joined, failed, partials>>
    BY <1>11 DEF LeaveScope
  <2>2. failed[q] # "yes" => ReduceOrdered(partials[q]) = Chunk(rows[q]) /\ Chunk(rows[q]) \in Partials
    <3> SUFFICES ASSUME failed[q] # "yes"
                 PROVE  ReduceOrdered(partials[q]) = Chunk(rows[q]) /\ Chunk(rows[q]) \in Partials
      OBVIOUS
    <3>1. failed[q] = "no"
      BY DEF AnswerInv
    <3>2. partials[q] = LaneScans(q, Lanes(q))
      BY <2>1, <3>1 DEF AnswerInv, ScansInOrder, Lanes
    <3>3. rows[q] \in Seq(Rows) /\ Lanes(q) \in Nat /\ Lanes(q) > 0
      BY SchedulerAssumption DEF IInv, TypeOK, AnswerInv, Lanes
    <3>4. partials[q] = [k \in 1..Lanes(q) |-> Chunk(Partition(rows[q], Lanes(q), k - 1))]
      BY <3>2 DEF LaneScans
    <3>. QED BY <3>3, <3>4, LanesReduceToScan, ChunkType
  <2>3. \A p \in Queries : LaneScans(p, joined[p] + 1)' = LaneScans(p, joined[p] + 1)
    BY <2>1 DEF LaneScans, Lanes
  <2>4. answer' \in [Queries -> Partials \cup {Null}]
    BY <2>1, <2>2 DEF AnswerInv
  <2>5. /\ pc'[q] \in {"fallback", "release"}
        /\ pc'[q] = "release" => answer'[q] = Chunk(rows[q])
        /\ \A p \in Queries : p # q => pc'[p] = pc[p] /\ answer'[p] = answer[p]
    BY <1>0, <2>1, <2>2 DEF AnswerInv
  <2>6. ScansInOrder'
    BY <2>1, <2>3, <2>5 DEF AnswerInv, ScansInOrder
  <2>. QED BY <2>1, <2>4, <2>6 DEF AnswerInv
<1>12. CASE Release(q)
  <2>1. /\ permit' = [permit EXCEPT ![q] = 0]
        /\ \/ pc[q] = "release" /\ pc' = [pc EXCEPT ![q] = "done"]
           \/ pc[q] = "fallback" /\ pc' = [pc EXCEPT ![q] = "sequential"]
           \/ pc[q] = "unwind" /\ pc' = [pc EXCEPT ![q] = "panicked"]
        /\ UNCHANGED <<rows, spawned, joined, failed, partials, answer>>
    BY <1>12 DEF Release, DropPermit, Unwinding
  <2>2. \A p \in Queries : p # q => pc'[p] = pc[p] /\ permit'[p] = permit[p]
    BY <1>0, <2>1 DEF IInv, TypeOK
  <2>3. \A p \in Queries : p # q => LaneScans(p, joined[p] + 1)' = LaneScans(p, joined[p] + 1)
    BY <2>1, <2>2 DEF LaneScans, Lanes
  <2>4. pc'[q] \in {"done", "sequential", "panicked"} /\ (pc'[q] = "done" => pc[q] = "release")
    BY <1>0, <2>1
  <2>5. ScansInOrder'
    BY <2>1, <2>2, <2>3, <2>4 DEF AnswerInv, ScansInOrder
  <2>. QED BY <2>1, <2>5 DEF AnswerInv
<1>13. CASE Sequential(q)
  <2>1. /\ pc' = [pc EXCEPT ![q] = "done"] /\ answer' = [answer EXCEPT ![q] = Chunk(rows[q])]
        /\ UNCHANGED <<rows, permit, spawned, joined, failed, partials>>
    BY <1>13 DEF Sequential
  <2>2. Chunk(rows[q]) \in Partials
    BY SchedulerAssumption, ChunkType DEF AnswerInv
  <2>3. \A p \in Queries : LaneScans(p, joined[p] + 1)' = LaneScans(p, joined[p] + 1)
    BY <2>1 DEF LaneScans, Lanes
  <2>4. answer' \in [Queries -> Partials \cup {Null}]
    BY <2>1, <2>2 DEF AnswerInv
  <2>5. /\ pc'[q] = "done" /\ answer'[q] = Chunk(rows[q])
        /\ \A p \in Queries : p # q => pc'[p] = pc[p] /\ answer'[p] = answer[p]
    BY <1>0, <2>1 DEF AnswerInv
  <2>6. ScansInOrder'
    BY <2>1, <2>3, <2>5 DEF AnswerInv, ScansInOrder
  <2>. QED BY <2>1, <2>4, <2>6 DEF AnswerInv
<1>14. CASE SequentialPanics(q)
  BY <1>0, <1>14, AnswersUntouched DEF SequentialPanics
<1>. QED BY <1>1, <1>2, <1>3, <1>4, <1>5, <1>6, <1>7, <1>8, <1>9, <1>10, <1>11, <1>12, <1>13, <1>14 DEF QueryStep

(* So does every step of the scheduler. *)
LEMMA NextAnswerInv == IInv /\ AnswerInv /\ [Next]_schedVars => AnswerInv'
<1> SUFFICES ASSUME IInv, AnswerInv, [Next]_schedVars PROVE AnswerInv'
  OBVIOUS
<1>1. ASSUME NEW q \in Queries, QueryStep(q) PROVE AnswerInv'
  BY <1>1, QueryStepAnswers
<1>2. ASSUME NEW q \in Queries, NEW i \in Helpers, HelperEnds(q, i) PROVE AnswerInv'
  <2>1. UNCHANGED <<pc, rows, permit, spawned, joined, failed, partials, answer>>
    BY <1>2 DEF HelperEnds
  <2>. QED BY <2>1 DEF AnswerInv, ScansInOrder, LaneScans, Lanes
<1>3. CASE UNCHANGED schedVars
  BY <1>3 DEF schedVars, queryVars, AnswerInv, ScansInOrder, LaneScans, Lanes
<1>. QED BY <1>1, <1>2, <1>3 DEF Next

(* Whatever lanes a query was admitted, in whatever order they end and
   whichever of them fails, run_grouped_aggregate returns what one scan of all
   the rows would have gathered. *)
THEOREM AnswersAreSequential == Spec => []AnswerIsSequential
<1>1. IInv /\ AnswerInv => AnswerIsSequential
  BY DEF AnswerInv, ScansInOrder, AnswerIsSequential
<1>. QED BY <1>1, SchedulerInvariance, InitAnswerInv, NextAnswerInv, PTL DEF Spec
=============================================================================
