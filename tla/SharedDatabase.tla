--------------------------- MODULE SharedDatabase ---------------------------
(***************************************************************************)
(* SharedDatabase (src/batch/shared_database.rs): cloned handles of one    *)
(* Arc<RwLock<Database>>, each thread making one call.  The catalog is     *)
(* reduced to the statements applied to it, in order; a statement is       *)
(* <<thread, position in its batch>>, and a torn one has a third entry.    *)
(*                                                                         *)
(* RwLock is std's: shared readers or one writer, poisoned when a writer   *)
(* panics, and a waiting writer may keep new readers out.                  *)
(***************************************************************************)
EXTENDS Integers, Sequences

CONSTANTS
    Threads,
    NoThread,      \* nobody holds the write lock
    NoAnswer,      \* the call has not returned
    Statements,    \* statements of every batch
    CounterMax,    \* usize::MAX, where the pruning counters saturate
    Kinds          \* the calls made, out of AllKinds

AllKinds == {"execute", "insert", "try_insert", "query", "try_query", "scan", "metrics"}

ASSUME SharedAssumption ==
    /\ Statements \in Nat /\ CounterMax \in Nat
    /\ Kinds \subseteq AllKinds
    /\ NoThread \notin Threads

VARIABLES
    db,        \* what the catalog holds: the statements applied
    base,      \* db when the writer that holds (or poisoned) the lock took it
    writer, readers, poisoned,   \* the RwLock
    kind, pc,  \* call and position of each thread
    applied,   \* statements its batch applied so far
    seen,      \* what its query read first
    answer,    \* what its call returned
    scanned,   \* index_pruning_counters.scanned_blocks
    added,     \* history: additions to scanned that finished
    current    \* the value saturating_atomic_add read last

lockVars == <<writer, readers, poisoned>>
sharedVars == <<db, base, lockVars, kind, pc, applied, seen, answer, scanned, added, current>>

Writes(t) == kind[t] \in {"execute", "insert", "try_insert"}
Tries(t) == kind[t] \in {"try_insert", "try_query", "metrics"}

SharedInit ==
    /\ db = << >> /\ base = << >>
    /\ writer = NoThread /\ readers = {} /\ poisoned = "no"
    /\ kind \in [Threads -> Kinds]
    /\ pc = [t \in Threads |-> "parse"]
    /\ applied = [t \in Threads |-> 0]
    /\ seen = [t \in Threads |-> << >>]
    /\ answer = [t \in Threads |-> NoAnswer]
    /\ scanned = 0 /\ added = 0
    /\ current = [t \in Threads |-> 0]

Goto(t, from, to) == pc[t] = from /\ pc' = [pc EXCEPT ![t] = to]
Answer(t, from, a) == Goto(t, from, "done") /\ answer' = [answer EXCEPT ![t] = a]

-----------------------------------------------------------------------------
(* Parsing and read-only validation come before the lock; metrics parse nothing. *)
Parse(t) ==
    /\ \/ Goto(t, "parse", "lock") /\ UNCHANGED answer
       \/ kind[t] # "metrics" /\ Answer(t, "parse", [status |-> "rejected"])
    /\ UNCHANGED <<db, base, lockVars, kind, applied, seen, scanned, added, current>>

ReadLockable == writer = NoThread
WriteLockable == writer = NoThread /\ readers = {}

(* A blocking writer that queues. *)
WriterWaits == \E w \in Threads : pc[w] = "lock" /\ kind[w] \in {"execute", "insert"}

LockRead(t) ==
    /\ ~Writes(t) /\ ReadLockable /\ poisoned = "no"
    /\ Goto(t, "lock", "read")
    /\ readers' = readers \cup {t}
    /\ UNCHANGED <<db, base, writer, poisoned, kind, applied, seen, answer, scanned, added, current>>

LockWrite(t) ==
    /\ Writes(t) /\ WriteLockable /\ poisoned = "no"
    /\ Goto(t, "lock", IF kind[t] = "execute" THEN "apply" ELSE "preflight")
    /\ writer' = t
    /\ base' = db
    /\ UNCHANGED <<db, readers, poisoned, kind, applied, seen, answer, scanned, added, current>>

(* try_read and try_write: WouldBlock. *)
Busy(t) ==
    /\ Tries(t)
    /\ IF Writes(t) THEN ~WriteLockable ELSE ~ReadLockable \/ WriterWaits
    /\ Answer(t, "lock", [status |-> "busy"])
    /\ UNCHANGED <<db, base, lockVars, kind, applied, seen, scanned, added, current>>

(* Fault: a writer that finds the lock poisoned tries again. *)
FindPoison_Retries(t) ==
    /\ poisoned = "yes" /\ ~Writes(t) /\ ReadLockable
    /\ Answer(t, "lock", [status |-> "poisoned"])
    /\ UNCHANGED <<db, base, lockVars, kind, applied, seen, scanned, added, current>>

(* The lock was obtained, its guard is dropped at once. *)
FindPoison(t) ==
    /\ poisoned = "yes"
    /\ IF Writes(t) THEN WriteLockable ELSE ReadLockable
    /\ Answer(t, "lock", [status |-> "poisoned"])
    /\ UNCHANGED <<db, base, lockVars, kind, applied, seen, scanned, added, current>>

-----------------------------------------------------------------------------
(* Under the write lock. *)

Unlock(t) == writer' = NoThread /\ UNCHANGED <<readers, poisoned>>

(* execute_insert_statements: every statement prepared and logged first. *)
Preflight(t) ==
    /\ \/ Goto(t, "preflight", "apply") /\ UNCHANGED <<lockVars, answer>>
       \/ /\ Answer(t, "preflight", [status |-> "not_inserted", applied |-> 0])
          /\ Unlock(t)
    /\ UNCHANGED <<db, base, kind, applied, seen, scanned, added, current>>

Apply(t) ==
    /\ pc[t] = "apply" /\ applied[t] < Statements
    /\ db' = Append(db, <<t, applied[t] + 1>>)
    /\ applied' = [applied EXCEPT ![t] = @ + 1]
    /\ UNCHANGED <<base, lockVars, kind, pc, seen, answer, scanned, added, current>>

(* Fault: an INSERT-only batch is executed statement by statement. *)
StatementFails_AnyBatch(t) ==
    /\ pc[t] = "apply"
    /\ Answer(t, "apply", IF kind[t] = "execute"
                          THEN [status |-> "failed", applied |-> applied[t]]
                          ELSE [status |-> "not_inserted", applied |-> 0])
    /\ Unlock(t)
    /\ UNCHANGED <<db, base, kind, applied, seen, scanned, added, current>>

(* A statement, or the result limit after one, fails the rest of an `execute'. *)
StatementFails(t) ==
    /\ kind[t] = "execute"
    /\ Answer(t, "apply", [status |-> "failed", applied |-> applied[t]])
    /\ Unlock(t)
    /\ UNCHANGED <<db, base, kind, applied, seen, scanned, added, current>>

Finish(t) ==
    /\ applied[t] = Statements
    /\ Answer(t, "apply", [status |-> IF kind[t] = "execute" THEN "ok" ELSE "inserted",
                           applied |-> Statements])
    /\ Unlock(t)
    /\ UNCHANGED <<db, base, kind, applied, seen, scanned, added, current>>

(* A panic may tear the statement it interrupts; the guard poisons the lock. *)
WriterPanics(t) ==
    /\ writer = t
    /\ Answer(t, pc[t], [status |-> "panicked"])
    /\ db' \in {db, Append(db, <<t, applied[t] + 1, "torn">>)}
    /\ writer' = NoThread /\ poisoned' = "yes"
    /\ UNCHANGED <<base, readers, kind, applied, seen, scanned, added, current>>

-----------------------------------------------------------------------------
(* Under a read lock: a query reads the catalog more than once. *)

ReadFirst(t) ==
    /\ Goto(t, "read", IF kind[t] = "scan" THEN "load" ELSE "read_on")
    /\ seen' = [seen EXCEPT ![t] = db]
    /\ UNCHANGED <<db, base, lockVars, kind, applied, answer, scanned, added, current>>

(* saturating_atomic_add of one block; other readers do the same. *)
LoadCounter(t) ==
    /\ Goto(t, "load", "exchange")
    /\ current' = [current EXCEPT ![t] = scanned]
    /\ UNCHANGED <<db, base, lockVars, kind, applied, seen, answer, scanned, added>>

(* Fault: load and store instead of compare-and-exchange. *)
ExchangeCounter_Blind(t) ==
    /\ Goto(t, "exchange", "read_on")
    /\ scanned' = IF current[t] < CounterMax THEN current[t] + 1 ELSE CounterMax
    /\ added' = added + 1
    /\ UNCHANGED <<db, base, lockVars, kind, applied, seen, answer, current>>

ExchangeCounter(t) ==
    /\ \/ /\ scanned = current[t]
          /\ Goto(t, "exchange", "read_on")
          /\ scanned' = IF current[t] < CounterMax THEN current[t] + 1 ELSE CounterMax
          /\ added' = added + 1
          /\ UNCHANGED current
       \/ /\ scanned # current[t]
          /\ pc[t] = "exchange"
          /\ current' = [current EXCEPT ![t] = scanned]
          /\ UNCHANGED <<scanned, added, pc>>
    /\ UNCHANGED <<db, base, lockVars, kind, applied, seen, answer>>

ReadOn(t) ==
    /\ Answer(t, "read_on", [status |-> "rows", first |-> seen[t], second |-> db])
    /\ readers' = readers \ {t}
    /\ UNCHANGED <<db, base, writer, poisoned, kind, applied, seen, scanned, added, current>>

(* A query that panics drops its guard and poisons nothing. *)
ReaderPanics(t) ==
    /\ t \in readers
    /\ Answer(t, pc[t], [status |-> "panicked"])
    /\ readers' = readers \ {t}
    /\ UNCHANGED <<db, base, writer, poisoned, kind, applied, seen, scanned, added, current>>

-----------------------------------------------------------------------------
Step(t) ==
    \/ Parse(t) \/ LockRead(t) \/ LockWrite(t) \/ Busy(t) \/ FindPoison(t)
    \/ Preflight(t) \/ Apply(t) \/ StatementFails(t) \/ Finish(t) \/ WriterPanics(t)
    \/ ReadFirst(t) \/ LoadCounter(t) \/ ExchangeCounter(t) \/ ReadOn(t) \/ ReaderPanics(t)

SharedNext == \E t \in Threads : Step(t)

SharedSpec == SharedInit /\ [][SharedNext]_sharedVars

(* Every thread keeps running, and a lock that stays free is handed out. *)
SharedFairSpec == SharedSpec /\ \A t \in Threads : WF_sharedVars(Step(t))

-----------------------------------------------------------------------------
(* Properties. *)

(* The calls of all threads behave as AtomicDatabase: consistent queries,
   batches visible at once, all-or-nothing INSERT batches, nothing answered
   from behind a poisoned lock. *)
Atomic == INSTANCE AtomicDatabase WITH
    visible <- IF writer # NoThread \/ poisoned = "yes" THEN base ELSE db,
    broken <- poisoned

ImplementsAtomicDatabase == Atomic!Spec

(* No scanned block is lost to a race between readers: the counter is the
   number of finished additions, up to where it saturates. *)
NoLostScans == scanned = IF added < CounterMax THEN added ELSE CounterMax

(* Every call returns, also the ones that block for the lock and those that
   find it poisoned. *)
EveryCallReturns == <>[](\A t \in Threads : pc[t] = "done")
=============================================================================
