---------------------------- MODULE DurableTable ----------------------------
(***************************************************************************)
(* What a table with a write-ahead log promises its caller, with no bytes, *)
(* syncs or frames in sight.  A commit is atomic.  One that is not         *)
(* acknowledged never shows in memory, leaves its outcome in doubt until   *)
(* recovery settles it, and ends logging at that path.                     *)
(***************************************************************************)
CONSTANTS
    Paths,      \* places a log may be kept
    RowStates   \* the contents a table may have

VARIABLES
    up,         \* is there a live database?
    rows,       \* what queries see
    log,        \* {} or the one path the table is logged to
    promised,   \* per path, the rows recovery owes the caller
    indoubt     \* per path, the rows of an unacknowledged commit

absVars == <<up, rows, log, promised, indoubt>>

None == [some |-> FALSE]
Some(r) == [some |-> TRUE, rows |-> r]

Init ==
    /\ up = TRUE
    /\ rows \in RowStates
    /\ log = {}
    /\ promised = [p \in Paths |-> None]
    /\ indoubt = [p \in Paths |-> None]

(* An unlogged mutation. *)
Mutate ==
    /\ up /\ log = {}
    /\ rows' \in RowStates
    /\ UNCHANGED <<up, log, promised, indoubt>>

(* A commit, or the creation of a log, starts; a path with an unsettled
   commit takes no other. *)
Attempt(p) ==
    /\ up
    /\ log = {p} \/ (log = {} /\ promised[p] = None)
    /\ log = {p} => indoubt[p] = None
    /\ \E r \in RowStates :
        /\ log = {} => r = rows
        /\ indoubt' = [indoubt EXCEPT ![p] = Some(r)]
    /\ UNCHANGED <<up, rows, log, promised>>

(* The log at p now holds the rows of the database. *)
Attach(p) ==
    /\ up /\ log = {}
    /\ indoubt[p] = Some(rows)
    /\ log' = {p}
    /\ promised' = [promised EXCEPT ![p] = Some(rows)]
    /\ indoubt' = [indoubt EXCEPT ![p] = None]
    /\ UNCHANGED <<up, rows>>

(* Acknowledgement: durable and visible in one step. *)
Commit(p) ==
    /\ up /\ log = {p}
    /\ indoubt[p].some
    /\ rows' = indoubt[p].rows
    /\ promised' = [promised EXCEPT ![p] = indoubt[p]]
    /\ indoubt' = [indoubt EXCEPT ![p] = None]
    /\ UNCHANGED <<up, log>>

Detach ==
    /\ up /\ log' = {}
    /\ UNCHANGED <<up, rows, promised, indoubt>>

Crash ==
    /\ up /\ up' = FALSE
    /\ rows' = << >>
    /\ log' = {}
    /\ UNCHANGED <<promised, indoubt>>

Recover(p) ==
    /\ ~up /\ up' = TRUE
    /\ \E r \in RowStates :
        /\ Some(r) \in {promised[p], indoubt[p]}
        /\ rows' = r
    /\ UNCHANGED <<log, promised, indoubt>>

Next ==
    \/ Mutate \/ Detach \/ Crash
    \/ \E p \in Paths : Attempt(p) \/ Attach(p) \/ Commit(p) \/ Recover(p)

Spec == Init /\ [][Next]_absVars
=============================================================================
