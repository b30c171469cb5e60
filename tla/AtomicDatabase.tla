--------------------------- MODULE AtomicDatabase ---------------------------
(***************************************************************************)
(* What SharedDatabase promises the holders of its handles: every call     *)
(* takes effect at one instant.  A query answers from one state; a batch   *)
(* becomes visible at once, as a prefix of its statements; an INSERT-only  *)
(* batch as all of them or none; a refused call changes nothing; after a   *)
(* writer panicked nothing is ever answered from what it left behind.      *)
(***************************************************************************)
EXTENDS Integers, Sequences

CONSTANTS Threads, Statements, NoAnswer

VARIABLES
    visible,   \* the statements whose effects the next query sees
    broken,    \* "yes" once a writer panicked
    answer     \* what each call returned

atomicVars == <<visible, broken, answer>>

(* The first k statements of a batch of t. *)
Batch(t, k) == [i \in 1..k |-> <<t, i>>]

Refusals == {"rejected", "busy", "poisoned", "panicked"}

Init ==
    /\ visible = << >>
    /\ broken = "no"
    /\ answer = [t \in Threads |-> NoAnswer]

Returns(t, a) == answer[t] = NoAnswer /\ answer' = [answer EXCEPT ![t] = a]

Query(t) ==
    /\ broken = "no"
    /\ Returns(t, [status |-> "rows", first |-> visible, second |-> visible])
    /\ UNCHANGED <<visible, broken>>

(* execute: a failing statement ends the batch and undoes nothing.  The result
   limit may fail the batch after its last statement. *)
Execute(t) ==
    /\ broken = "no"
    /\ \E k \in 0..Statements :
        /\ visible' = visible \o Batch(t, k)
        /\ \/ Returns(t, [status |-> "failed", applied |-> k])
           \/ k = Statements /\ Returns(t, [status |-> "ok", applied |-> k])
    /\ UNCHANGED broken

(* execute_insert_batch: all or nothing. *)
InsertBatch(t) ==
    /\ broken = "no"
    /\ \/ /\ visible' = visible \o Batch(t, Statements)
          /\ Returns(t, [status |-> "inserted", applied |-> Statements])
       \/ UNCHANGED visible /\ Returns(t, [status |-> "not_inserted", applied |-> 0])
    /\ UNCHANGED broken

Refuse(t) ==
    /\ \E why \in Refusals : Returns(t, [status |-> why])
    /\ UNCHANGED <<visible, broken>>

WriterPanics(t) ==
    /\ broken' = "yes"
    /\ Returns(t, [status |-> "panicked"])
    /\ UNCHANGED visible

Next ==
    \E t \in Threads :
        Query(t) \/ Execute(t) \/ InsertBatch(t) \/ Refuse(t) \/ WriterPanics(t)

Spec == Init /\ [][Next]_atomicVars
=============================================================================
