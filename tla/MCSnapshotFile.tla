--------------------------- MODULE MCSnapshotFile ---------------------------
(* Two savers and a restorer on an ordinary filesystem, or one saver with more
   files on one that resolves a candidate to the destination. *)
EXTENDS SnapshotFile, TLC

CONSTANT OrdinaryFiles    \* bound: files ever created on an ordinary filesystem

MCNext ==
  /\ Next
  /\ IF aliases = {} THEN Len(files') <= OrdinaryFiles
     ELSE /\ Cardinality({s \in Savers : pc'[s] # "idle" \/ result'[s] # "none"}) <= 1
          /\ \A r \in Readers : reader'[r] = "idle"

MCSpec == Init /\ [][MCNext]_vars

\* The two savers run the same code.
SaverSymmetry == Permutations(Savers)
=============================================================================
