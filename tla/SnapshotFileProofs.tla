-------------------------- MODULE SnapshotFileProofs --------------------------
(***************************************************************************)
(* Snapshot files for any number of savers and readers, any bound on files *)
(* and crashes, any numbering of temporaries and any filesystem: what the  *)
(* primary path shows, what results say, what is left in the directory,    *)
(* and that every call comes closer to its end.                            *)
(*                                                                         *)
(* On a filesystem that resolves a candidate to the destination the savers *)
(* have to take turns: see Serialized.                                     *)
(***************************************************************************)
EXTENDS SnapshotFile, SequenceTheorems, TLAPS

(* Two savers that overlap on such a filesystem undo each other: one may   *)
(* rename its save over the other's candidate, which the other then takes  *)
(* for a temporary and removes.                                            *)
Serialized ==
  aliases # {} => \A s, t \in Savers : pc[s] # "idle" /\ pc[t] # "idle" => s = t

(* Where a saver holds its candidate under the candidate's name. *)
Holding == {"check", "discard", "cleanup", "write", "sync", "rename"}
WritingNew == {"writeNew", "syncNew"}
Labels == {"idle", "create", "syncDirectory"} \cup Holding \cup WritingNew

Contents == {"empty", "partial", "whole"}
Results == {"none", "Ok", "OkNew", "Err", "SyncDirectory", "CleanupTemporary"}
ReaderLabels == {"idle", "openPrimary", "readPrimary", "openBackup", "readBackup"}

Replaced == {"Ok", "SyncDirectory"}

Typed ==
  /\ files \in Seq(Contents)
  /\ rank \in Seq(Nat)
  /\ Len(rank) = Len(files)
  /\ synced \subseteq DOMAIN files
  /\ entry \in [Names -> 0 .. Len(files)]
  /\ onDisk \in [Names -> SUBSET (0 .. Len(files))]
  /\ next \in Numbers
  /\ pc \in [Savers -> Labels]
  /\ name \in [Savers -> Names]
  /\ fd \in [Savers -> 0 .. Len(files)]
  /\ tries \in [Savers -> 0 .. Attempts]
  /\ result \in [Savers -> Results]
  /\ reader \in [Readers -> ReaderLabels]
  /\ rfd \in [Readers -> 0 .. Len(files)]
  /\ renames \in Nat
  /\ floor \in Nat
  /\ left \subseteq Names

(* Every call has a file of its own, from its creation to its next call. *)
FdInv ==
  \A s \in Savers :
    /\ pc[s] = "create" => fd[s] = None
    /\ pc[s] \notin {"idle", "create"} => fd[s] # None
    /\ \A t \in Savers : s # t /\ fd[s] # None => fd[s] # fd[t]

(* A candidate is denoted by its own name, and not yet renamed; it is      *)
(* written only after it was seen not to be the destination.               *)
Owns(s) ==
  /\ pc[s] \in Holding =>
       entry[name[s]] = fd[s] /\ rank[fd[s]] = 0 /\ name[s] # Backup
  /\ pc[s] \in {"write", "sync", "rename"} => name[s] # Primary
  /\ pc[s] \in WritingNew => rank[fd[s]] = 0
  /\ pc[s] \in {"sync", "rename"} => files[fd[s]] = "whole"
  /\ pc[s] = "rename" => fd[s] \in synced

(* What a saver knows of the rename it did, or did not do. *)
Knows(s) ==
  /\ pc[s] = "syncDirectory" =>
       /\ entry[Primary] # None
       /\ rank[fd[s]] > 0
       /\ rank[entry[Primary]] >= rank[fd[s]]
  /\ pc[s] = "idle" => (Rank(fd[s]) > 0 <=> result[s] \in Replaced)

SaverInv == \A s \in Savers : Owns(s) /\ Knows(s)

(* A file that was ever renamed is complete and on disk. *)
RankInv ==
  \A f \in DOMAIN files :
    /\ rank[f] > 0 => files[f] = "whole" /\ f \in synced
    /\ rank[f] <= renames

(* What a crash may leave under the primary name: no candidate, and        *)
(* nothing older than the newest acknowledged save.                        *)
DiskInv ==
  /\ \A n \in Names : entry[n] \in onDisk[n]
  /\ \A f \in onDisk[Primary] : f # None /\ rank[f] = 0 => aliases # {}
  /\ floor > 0 => \A f \in onDisk[Primary] : f # None /\ rank[f] >= floor
  /\ floor <= renames

ReaderInv ==
  \A r \in Readers :
    reader[r] = "readPrimary" =>
      rfd[r] # None /\ (rank[rfd[r]] = 0 => aliases # {})

(* The owner of an unrenamed file is a saver that holds it. *)
CandidateInv ==
  \A n \in Names \ {Backup} :
    entry[n] # None /\ rank[entry[n]] = 0 /\ n \notin left =>
      \E s \in Savers : pc[s] \in Holding /\ name[s] = n /\ fd[s] = entry[n]

IInv ==
  /\ Typed /\ FdInv /\ SaverInv /\ RankInv /\ DiskInv /\ ReaderInv
  /\ CandidateInv

-----------------------------------------------------------------------------
(* Lemmas about the operators. *)

(* Files are numbered from 1, and None is no file. *)
LEMMA FileNumbers ==
  ASSUME Typed
  PROVE  /\ Len(files) \in Nat
         /\ DOMAIN files = 1 .. Len(files)
         /\ DOMAIN rank = 1 .. Len(files)
         /\ \A f \in DOMAIN files : files[f] \in Contents /\ rank[f] \in Nat
         /\ \A f \in 0 .. Len(files) : f # None <=> f \in DOMAIN files
         /\ None \in 0 .. Len(files)
<1>1. files \in Seq(Contents) /\ rank \in Seq(Nat) /\ Len(rank) = Len(files)
  BY DEF Typed
<1>2. /\ Len(files) \in Nat
      /\ DOMAIN files = 1 .. Len(files)
      /\ DOMAIN rank = 1 .. Len(files)
      /\ files \in [1 .. Len(files) -> Contents]
      /\ rank \in [1 .. Len(files) -> Nat]
  BY <1>1, LenProperties
<1>. QED BY <1>2 DEF None

(* The paths and the temporaries have different names. *)
LEMMA NameFacts ==
  /\ Primary \in Names /\ Backup \in Names /\ Primary # Backup
  /\ \A n \in Numbers : n \in Names /\ n # Primary /\ n # Backup
  /\ \A n \in Numbers : Resolve(n) \in Names /\ Resolve(n) # Backup
<1>. QED BY SnapshotAssumption DEF Names, Numbers, Primary, Backup, Resolve

(* openat(O_CREAT | O_EXCL) makes a file that nothing else refers to. *)
LEMMA CreateEffect ==
  ASSUME Typed, NEW n \in Names, Create(n)
  PROVE  /\ files' \in Seq(Contents) /\ rank' \in Seq(Nat)
         /\ Len(rank') = Len(files') /\ Len(files') = Len(files) + 1
         /\ DOMAIN files' = DOMAIN files \cup {Len(files) + 1}
         /\ Len(files) + 1 \notin DOMAIN files
         /\ Len(files) + 1 # None
         /\ \A f \in DOMAIN files : files'[f] = files[f] /\ rank'[f] = rank[f]
         /\ rank'[Len(files) + 1] = 0
         /\ entry' \in [Names -> 0 .. Len(files')]
         /\ onDisk' \in [Names -> SUBSET (0 .. Len(files'))]
         /\ entry[n] = None
         /\ entry'[n] = Len(files) + 1
         /\ \A m \in Names : m # n => entry'[m] = entry[m] /\ onDisk'[m] = onDisk[m]
         /\ onDisk'[n] = onDisk[n] \cup {Len(files) + 1}
<1> DEFINE k == Len(files)
<1>1. files \in Seq(Contents) /\ rank \in Seq(Nat) /\ Len(rank) = k
  BY DEF Typed
<1>2. k \in Nat /\ DOMAIN files = 1 .. k /\ DOMAIN rank = 1 .. k
  BY FileNumbers
<1>3. files' = Append(files, "empty") /\ rank' = Append(rank, 0) /\ "empty" \in Contents
  BY DEF Create, Contents
<1>4. /\ files' \in Seq(Contents) /\ Len(files') = k + 1 /\ DOMAIN files' = 1 .. k + 1
      /\ \A f \in 1 .. k : files'[f] = files[f]
  BY <1>1, <1>2, <1>3, AppendProperties, LenProperties
<1>5. /\ rank' \in Seq(Nat) /\ Len(rank') = k + 1 /\ rank'[k + 1] = 0
      /\ \A f \in 1 .. k : rank'[f] = rank[f]
  BY <1>1, <1>2, <1>3
<1>6. /\ entry \in [Names -> 0 .. k] /\ onDisk \in [Names -> SUBSET (0 .. k)]
      /\ entry' = [entry EXCEPT ![n] = k + 1]
      /\ onDisk' = [onDisk EXCEPT ![n] = onDisk[n] \cup {k + 1}]
      /\ entry[n] = None
  BY DEF Typed, Create
<1> HIDE DEF k
<1>7. 0 .. k \subseteq 0 .. k + 1 /\ k + 1 \in 0 .. k + 1
  BY <1>2
<1>8. /\ entry' \in [Names -> 0 .. k + 1]
      /\ entry'[n] = k + 1
      /\ \A m \in Names : m # n => entry'[m] = entry[m]
  BY <1>6, <1>7
<1>9. /\ onDisk' \in [Names -> SUBSET (0 .. k + 1)]
      /\ onDisk'[n] = onDisk[n] \cup {k + 1}
      /\ \A m \in Names : m # n => onDisk'[m] = onDisk[m]
  BY <1>6, <1>7
<1>10. 1 .. k + 1 = 1 .. k \cup {k + 1} /\ k + 1 \notin 1 .. k /\ k + 1 # None
  BY <1>2 DEF None
<1>. QED BY <1>2, <1>4, <1>5, <1>6, <1>8, <1>9, <1>10 DEF k

(* unlinkat leaves the file of every other name alone. *)
LEMMA UnlinkEffect ==
  ASSUME Typed, NEW n \in Names, Unlink(n)
  PROVE  /\ entry' \in [Names -> 0 .. Len(files)]
         /\ onDisk' \in [Names -> SUBSET (0 .. Len(files))]
         /\ entry'[n] = None
         /\ \A m \in Names : m # n => entry'[m] = entry[m] /\ onDisk'[m] = onDisk[m]
         /\ onDisk'[n] = onDisk[n] \cup {None}
<1>1. /\ entry \in [Names -> 0 .. Len(files)] /\ onDisk \in [Names -> SUBSET (0 .. Len(files))]
      /\ entry' = [entry EXCEPT ![n] = None]
      /\ onDisk' = [onDisk EXCEPT ![n] = onDisk[n] \cup {None}]
  BY DEF Typed, Unlink
<1>2. None \in 0 .. Len(files)
  BY FileNumbers
<1>. QED BY <1>1, <1>2

-----------------------------------------------------------------------------
(* Frames: what a step of one saver leaves of the others. *)

OthersKept(s) ==
  \A t \in Savers \ {s} :
    pc'[t] = pc[t] /\ name'[t] = name[t] /\ fd'[t] = fd[t] /\ result'[t] = result[t]

(* A saver gives up its file or gets a new one. *)
LEMMA FdStep ==
  ASSUME IInv, NEW s \in Savers, OthersKept(s),
         fd'[s] = fd[s] \/ fd'[s] = None \/ fd'[s] = Len(files) + 1,
         pc'[s] = "create" => fd'[s] = None,
         pc'[s] \notin {"idle", "create"} => fd'[s] # None
  PROVE  FdInv'
<1>1. \A t \in Savers : fd[t] \in 0 .. Len(files)
  BY DEF IInv, Typed
<1>2. Len(files) \in Nat /\ Len(files) + 1 \notin 0 .. Len(files)
  BY FileNumbers DEF IInv
<1>3. \A t \in Savers : t # s =>
        /\ pc'[t] = pc[t] /\ fd'[t] = fd[t]
        /\ fd'[t] # None => fd'[t] # fd'[s]
  BY <1>1, <1>2 DEF OthersKept, IInv, FdInv
<1>4. \A t, u \in Savers : t # u /\ fd'[t] # None => fd'[t] # fd'[u]
  BY <1>3 DEF IInv, FdInv
<1>. QED BY <1>3, <1>4 DEF IInv, FdInv

(* A saver that did not step keeps what it has if its file, its name and   *)
(* the destination's rank are kept.                                        *)
LEMMA OtherStep ==
  ASSUME IInv, NEW t \in Savers,
         pc'[t] = pc[t], name'[t] = name[t], fd'[t] = fd[t], result'[t] = result[t],
         fd[t] # None => /\ rank'[fd[t]] = rank[fd[t]]
                         /\ files'[fd[t]] = files[fd[t]]
                         /\ fd[t] \in synced => fd[t] \in synced',
         pc[t] \in Holding => entry'[name[t]] = entry[name[t]],
         pc[t] = "syncDirectory" => /\ entry'[Primary] # None
                                    /\ rank'[entry'[Primary]] >= rank[entry[Primary]],
         Typed'
  PROVE  (Owns(t) /\ Knows(t))'
<1>1. Owns(t) /\ Knows(t)
  BY DEF IInv, SaverInv
<1>2. pc[t] \notin {"idle", "create"} => fd[t] # None
  BY DEF IInv, FdInv
<1>3. Owns(t)'
  BY <1>1, <1>2 DEF Owns, Holding, WritingNew
<1>4. pc[t] = "syncDirectory" => /\ rank'[fd[t]] = rank[fd[t]] /\ rank[fd[t]] \in Nat
                                 /\ rank[entry[Primary]] \in Nat
                                 /\ rank'[entry'[Primary]] \in Nat
  <2> SUFFICES ASSUME pc[t] = "syncDirectory"
               PROVE  /\ rank'[fd[t]] = rank[fd[t]] /\ rank[fd[t]] \in Nat
                      /\ rank[entry[Primary]] \in Nat
                      /\ rank'[entry'[Primary]] \in Nat
    OBVIOUS
  <2>1. fd[t] \in 0 .. Len(files) /\ entry[Primary] \in 0 .. Len(files)
    BY NameFacts DEF IInv, Typed
  <2>2. entry'[Primary] \in 0 .. Len(files')
    BY NameFacts DEF Typed
  <2>3. entry[Primary] # None /\ entry'[Primary] # None /\ fd[t] # None
    BY <1>1, <1>2 DEF Knows
  <2>4. rank[fd[t]] \in Nat /\ rank[entry[Primary]] \in Nat
    BY <2>1, <2>3, FileNumbers DEF IInv
  <2>5. rank'[entry'[Primary]] \in Nat
    <3>1. \A f \in 0 .. Len(files') : f # None => f \in 1 .. Len(rank')
      BY DEF Typed, None
    <3>2. entry'[Primary] \in 1 .. Len(rank')
      BY <2>2, <2>3, <3>1
    <3>. QED BY <3>2, ElementOfSeq DEF Typed
  <2>. QED BY <2>3, <2>4, <2>5
<1>5. Knows(t)'
  BY <1>1, <1>2, <1>4 DEF Knows, Rank
<1>. QED BY <1>3, <1>5

(* A step that leaves the directory and the files' contents alone. *)
LEMMA QuietStep ==
  ASSUME IInv, Typed', NEW s \in Savers, OthersKept(s),
         UNCHANGED <<files, rank, entry, onDisk, left, renames, floor, reader, rfd, aliases>>,
         synced \subseteq synced',
         fd'[s] = fd[s] \/ fd'[s] = None,
         pc'[s] = "create" => fd'[s] = None,
         pc'[s] \notin {"idle", "create"} => fd'[s] # None,
         pc[s] \in Holding => pc'[s] \in Holding /\ name'[s] = name[s] /\ fd'[s] = fd[s],
         Owns(s)', Knows(s)'
  PROVE  IInv'
<1>1. FdInv'
  BY FdStep
<1>2. SaverInv'
  <2> SUFFICES ASSUME NEW t \in Savers, t # s PROVE (Owns(t) /\ Knows(t))'
    BY DEF SaverInv
  <2>1. Owns(t) /\ Knows(t)
    BY DEF IInv, SaverInv
  <2>2. /\ pc'[t] = pc[t] /\ name'[t] = name[t] /\ fd'[t] = fd[t] /\ result'[t] = result[t]
    BY DEF OthersKept
  <2>3. Owns(t)'
    BY <2>1, <2>2 DEF Owns
  <2>4. Knows(t)'
    BY <2>1, <2>2 DEF Knows, Rank
  <2>. QED BY <2>3, <2>4
<1>3. RankInv' /\ DiskInv' /\ ReaderInv'
  BY DEF IInv, RankInv, DiskInv, ReaderInv
<1>4. CandidateInv'
  <2> SUFFICES ASSUME NEW n \in Names \ {Backup}, entry[n] # None, rank[entry[n]] = 0, n \notin left
               PROVE  \E t \in Savers : pc'[t] \in Holding /\ name'[t] = n /\ fd'[t] = entry[n]
    BY DEF CandidateInv
  <2>1. PICK t \in Savers : pc[t] \in Holding /\ name[t] = n /\ fd[t] = entry[n]
    BY DEF IInv, CandidateInv
  <2>2. CASE t # s
    BY <2>1, <2>2 DEF OthersKept
  <2>3. CASE t = s
    BY <2>1, <2>3
  <2>. QED BY <2>2, <2>3
<1>. QED BY <1>1, <1>2, <1>3, <1>4 DEF IInv

-----------------------------------------------------------------------------
(* The steps of a saver that are quiet. *)

(* Of the other savers a step keeps everything. *)
LEMMA OthersKeptBy ==
  ASSUME Typed, NEW s \in Savers,
         \/ \E p \in Labels : pc' = [pc EXCEPT ![s] = p]
         \/ pc' = pc,
         \/ \E n \in Names : name' = [name EXCEPT ![s] = n]
         \/ name' = name,
         \/ \E f \in Nat : fd' = [fd EXCEPT ![s] = f]
         \/ fd' = fd,
         \/ \E x \in Results : result' = [result EXCEPT ![s] = x]
         \/ result' = result
  PROVE  OthersKept(s)
<1>1. \A t \in Savers \ {s} : pc'[t] = pc[t]
  BY DEF Typed
<1>2. \A t \in Savers \ {s} : name'[t] = name[t]
  BY DEF Typed
<1>3. \A t \in Savers \ {s} : fd'[t] = fd[t]
  BY DEF Typed
<1>4. \A t \in Savers \ {s} : result'[t] = result[t]
  BY DEF Typed
<1>. QED BY <1>1, <1>2, <1>3, <1>4 DEF OthersKept

(* A call that returns. *)
LEMMA ReturnEffect ==
  ASSUME Typed, NEW s \in Savers, NEW outcome \in Results, Return(s, outcome)
  PROVE  /\ pc' \in [Savers -> Labels] /\ name' \in [Savers -> Names]
         /\ tries' \in [Savers -> 0 .. Attempts] /\ result' \in [Savers -> Results]
         /\ pc'[s] = "idle" /\ result'[s] = outcome
         /\ \E p \in Labels : pc' = [pc EXCEPT ![s] = p]
         /\ \E n \in Names : name' = [name EXCEPT ![s] = n]
         /\ \E x \in Results : result' = [result EXCEPT ![s] = x]
<1>1. "idle" \in Labels /\ Primary \in Names /\ 0 \in 0 .. Attempts
  BY NameFacts, SnapshotAssumption DEF Labels
<1>. QED BY <1>1 DEF Typed, Return

(* A step of a call to another label. *)
LEMMA GotoEffect ==
  ASSUME Typed, NEW s \in Savers, NEW label \in Labels, Goto(s, label)
  PROVE  /\ pc' \in [Savers -> Labels]
         /\ pc'[s] = label
         /\ \E p \in Labels : pc' = [pc EXCEPT ![s] = p]
<1>. QED BY DEF Typed, Goto

(* A saver owns and knows nothing between calls but whether it replaced. *)
LEMMA IdleSaver ==
  ASSUME NEW s \in Savers, pc[s] = "idle", Rank(fd[s]) > 0 <=> result[s] \in Replaced
  PROVE  Owns(s) /\ Knows(s)
<1>. QED BY DEF Owns, Knows, Holding, WritingNew

(* A call that fails before the directory is touched, or starts. *)
LEMMA ReplaceStep == ASSUME IInv, NEW s \in Savers, Replace(s), UNCHANGED aliases PROVE IInv'
<1>1. /\ pc[s] = "idle" /\ fd' = [fd EXCEPT ![s] = None]
      /\ UNCHANGED <<files, synced, rank, entry, onDisk, left, next, reader, rfd, renames, floor>>
  BY DEF Replace, dirVars, readerVars, history
<1>2. Typed /\ None \in 0 .. Len(files) /\ fd \in [Savers -> 0 .. Len(files)]
  BY FileNumbers DEF IInv, Typed
<1>3. fd' \in [Savers -> 0 .. Len(files)] /\ fd'[s] = None /\ \E f \in Nat : fd' = [fd EXCEPT ![s] = f]
  BY <1>1, <1>2 DEF None
<1>4. CASE Return(s, "Err")
  <2>1. "Err" \in Results /\ "Err" \notin Replaced
    BY DEF Results, Replaced
  <2>2. Typed'
    BY <1>1, <1>2, <1>3, <1>4, <2>1, ReturnEffect DEF Typed
  <2>3. OthersKept(s)
    BY <1>2, <1>3, <1>4, <2>1, ReturnEffect, OthersKeptBy
  <2>4. pc'[s] = "idle" /\ result'[s] = "Err"
    BY <1>2, <1>4, <2>1, ReturnEffect
  <2>5. Owns(s)' /\ Knows(s)'
    BY <1>3, <2>1, <2>4 DEF Owns, Knows, Holding, WritingNew, Rank
  <2>. QED BY <1>1, <1>3, <2>2, <2>3, <2>4, <2>5, QuietStep DEF Holding
<1>5. CASE /\ Goto(s, "create")
           /\ result' = [result EXCEPT ![s] = "none"]
           /\ UNCHANGED <<name, tries>>
  <2>1. "create" \in Labels /\ "none" \in Results
    BY DEF Labels, Results
  <2>2. Typed'
    BY <1>1, <1>2, <1>3, <1>5, <2>1, GotoEffect DEF Typed
  <2>3. OthersKept(s)
    BY <1>2, <1>3, <1>5, <2>1, GotoEffect, OthersKeptBy
  <2>4. pc'[s] = "create"
    BY <1>2, <1>5, <2>1, GotoEffect
  <2>5. Owns(s)' /\ Knows(s)'
    BY <2>4 DEF Owns, Knows, Holding, WritingNew
  <2>. QED BY <1>1, <1>3, <2>2, <2>3, <2>4, <2>5, QuietStep DEF Holding
<1>. QED BY <1>4, <1>5 DEF Replace

(* The loop of create_temporary_snapshot has run out. *)
LEMMA OutOfNamesStep == ASSUME IInv, NEW s \in Savers, OutOfNames(s), UNCHANGED aliases PROVE IInv'
<1>1. /\ pc[s] = "create" /\ Return(s, "Err")
      /\ UNCHANGED <<files, synced, rank, entry, onDisk, left, next, reader, rfd, renames, floor, fd>>
  BY DEF OutOfNames, dirVars, readerVars, history
<1>2. Typed /\ fd[s] = None
  BY <1>1 DEF IInv, FdInv
<1>3. "Err" \in Results /\ "Err" \notin Replaced
  BY DEF Results, Replaced
<1>4. pc'[s] = "idle" /\ result'[s] = "Err" /\ OthersKept(s) /\ Typed'
  <2>1. Typed'
    BY <1>1, <1>2, <1>3, ReturnEffect DEF Typed
  <2>. QED BY <1>1, <1>2, <1>3, <2>1, ReturnEffect, OthersKeptBy
<1>5. Owns(s)' /\ Knows(s)'
  BY <1>1, <1>2, <1>3, <1>4 DEF Owns, Knows, Holding, WritingNew, Rank
<1>. QED BY <1>1, <1>4, <1>5, QuietStep DEF Holding

(* A step that only moves the call along. *)
LEMMA MoveStep ==
  ASSUME IInv, NEW s \in Savers, NEW label \in Labels \ {"idle", "create", "syncDirectory"},
         Goto(s, label), pc[s] \notin {"idle", "create"},
         UNCHANGED <<files, rank, entry, onDisk, left, next, reader, rfd, renames, floor,
                     aliases, name, fd, tries, result>>,
         synced \subseteq synced', synced' \subseteq DOMAIN files,
         pc[s] \in Holding => label \in Holding,
         Owns(s)'
  PROVE  IInv'
<1>1. Typed /\ fd[s] # None
  BY DEF IInv, FdInv
<1>2. pc' \in [Savers -> Labels] /\ pc'[s] = label /\ \E p \in Labels : pc' = [pc EXCEPT ![s] = p]
  BY <1>1, GotoEffect
<1>3. Typed'
  BY <1>1, <1>2 DEF Typed
<1>4. OthersKept(s)
  BY <1>1, <1>2, OthersKeptBy
<1>5. Knows(s)'
  BY <1>2 DEF Knows
<1>. QED BY <1>1, <1>2, <1>3, <1>4, <1>5, QuietStep

(* entry_aliases_file: a candidate that is the destination is discarded. *)
LEMMA CheckAliasStep == ASSUME IInv, NEW s \in Savers, CheckAlias(s), UNCHANGED aliases PROVE IInv'
<1>1. /\ pc[s] = "check"
      /\ UNCHANGED <<files, synced, rank, entry, onDisk, left, next, reader, rfd, renames, floor,
                     name, fd, tries, result>>
  BY DEF CheckAlias, dirVars, readerVars, history
<1>2. Typed /\ Owns(s) /\ synced \subseteq DOMAIN files
  BY DEF IInv, SaverInv, Typed
<1>3. PICK label \in {"write", "discard", "cleanup"} :
        Goto(s, label) /\ (label = "write" => entry[Primary] # fd[s])
  BY DEF CheckAlias
<1>4. label \in Labels \ {"idle", "create", "syncDirectory"} /\ label \in Holding
  BY DEF Labels, Holding
<1>5. pc'[s] = label
  BY <1>2, <1>3, <1>4, GotoEffect
<1>6. Owns(s)'
  BY <1>1, <1>2, <1>3, <1>5 DEF Owns, Holding, WritingNew
<1>. QED BY <1>1, <1>2, <1>3, <1>4, <1>6, MoveStep

(* sync_all of the temporary. *)
LEMMA SyncTemporaryStep ==
  ASSUME IInv, NEW s \in Savers, SyncTemporary(s), UNCHANGED aliases PROVE IInv'
<1>1. /\ pc[s] = "sync"
      /\ UNCHANGED <<files, rank, entry, onDisk, left, next, reader, rfd, renames, floor,
                     name, fd, tries, result>>
  BY DEF SyncTemporary, dirVars, readerVars, history
<1>2. Typed /\ Owns(s) /\ synced \subseteq DOMAIN files /\ fd[s] \in DOMAIN files
  <2>1. fd[s] \in 0 .. Len(files) /\ fd[s] # None
    BY <1>1 DEF IInv, FdInv, Typed
  <2>. QED BY <2>1, FileNumbers DEF IInv, SaverInv, Typed
<1>3. PICK label \in {"rename", "cleanup"} :
        /\ Goto(s, label)
        /\ IF label = "rename" THEN synced' = synced \cup {fd[s]} ELSE synced' = synced
  BY DEF SyncTemporary
<1>4. label \in Labels \ {"idle", "create", "syncDirectory"} /\ label \in Holding
  BY DEF Labels, Holding
<1>5. pc'[s] = label
  BY <1>2, <1>3, <1>4, GotoEffect
<1>6. Owns(s)'
  BY <1>1, <1>2, <1>3, <1>5 DEF Owns, Holding, WritingNew
<1>7. synced \subseteq synced' /\ synced' \subseteq DOMAIN files
  BY <1>2, <1>3
<1>. QED BY <1>1, <1>3, <1>4, <1>6, <1>7, MoveStep

(* A call that returns without having renamed, and what it had stays. *)
LEMMA GiveUpStep ==
  ASSUME IInv, NEW s \in Savers, NEW outcome \in Results \ Replaced, Return(s, outcome),
         pc[s] \notin Holding, fd[s] # None => rank[fd[s]] = 0,
         UNCHANGED <<files, rank, entry, onDisk, left, reader, rfd, renames, floor,
                     aliases, fd>>,
         next' \in Numbers,
         synced \subseteq synced', synced' \subseteq DOMAIN files
  PROVE  IInv'
<1>1. Typed /\ outcome \in Results
  BY DEF IInv
<1>2. pc'[s] = "idle" /\ result'[s] = outcome /\ OthersKept(s)
  BY <1>1, ReturnEffect, OthersKeptBy
<1>3. Typed'
  BY <1>1, ReturnEffect DEF Typed
<1>4. Owns(s)' /\ Knows(s)'
  BY <1>2 DEF Owns, Knows, Holding, WritingNew, Rank
<1>. QED BY <1>2, <1>3, <1>4, QuietStep

(* The backup's sync_all. *)
LEMMA SyncNewStep == ASSUME IInv, NEW s \in Savers, SyncNew(s), UNCHANGED aliases PROVE IInv'
<1>1. /\ pc[s] = "syncNew" /\ pc[s] \notin Holding
      /\ UNCHANGED <<files, rank, entry, onDisk, left, next, reader, rfd, renames, floor, fd>>
  BY DEF SyncNew, dirVars, readerVars, history, Holding
<1>2. rank[fd[s]] = 0 /\ fd[s] # None /\ fd[s] \in 0 .. Len(files) /\ synced \subseteq DOMAIN files
      /\ next \in Numbers
  BY <1>1 DEF IInv, SaverInv, Owns, WritingNew, FdInv, Typed
<1>3. fd[s] \in DOMAIN files
  BY <1>2, FileNumbers DEF IInv
<1>4. "OkNew" \in Results \ Replaced /\ "Err" \in Results \ Replaced
  BY DEF Results, Replaced
<1>5. CASE synced' = synced \cup {fd[s]} /\ Return(s, "OkNew")
  BY <1>1, <1>2, <1>3, <1>4, <1>5, GiveUpStep
<1>6. CASE Return(s, "Err") /\ UNCHANGED synced
  BY <1>1, <1>2, <1>4, <1>6, GiveUpStep
<1>. QED BY <1>5, <1>6 DEF SyncNew

-----------------------------------------------------------------------------
(* The steps that change a file, the directory or the disk. *)

(* A write reaches only the writer's own file, which was never renamed. *)
LEMMA ContentStep ==
  ASSUME IInv, NEW s \in Savers, NEW c \in Contents, NEW label \in Labels \ {"idle", "create", "syncDirectory"},
         files' = [files EXCEPT ![fd[s]] = c], fd[s] # None, rank[fd[s]] = 0,
         pc' = [pc EXCEPT ![s] = label],
         UNCHANGED <<rank, synced, entry, onDisk, left, next, reader, rfd, renames, floor,
                     aliases, name, fd, tries, result>>,
         pc[s] \in Holding => label \in Holding,
         Owns(s)'
  PROVE  IInv'
<1>1. Typed /\ fd[s] \in DOMAIN files
  BY FileNumbers DEF IInv, Typed
<1>2. /\ files' \in Seq(Contents) /\ Len(files') = Len(files) /\ DOMAIN files' = DOMAIN files
      /\ \A f \in DOMAIN files : f # fd[s] => files'[f] = files[f]
  BY <1>1, FileNumbers, ExceptSeq DEF Typed
<1>3. pc' \in [Savers -> Labels] /\ pc'[s] = label
  BY <1>1 DEF Typed
<1>4. Typed'
  BY <1>1, <1>2, <1>3 DEF Typed
<1>5. OthersKept(s)
  BY <1>1, OthersKeptBy
<1>6. FdInv'
  BY <1>3, <1>5, FdStep
<1>7. SaverInv'
  <2> SUFFICES ASSUME NEW t \in Savers, t # s PROVE (Owns(t) /\ Knows(t))'
    BY <1>3 DEF SaverInv, Knows
  <2>1. fd[t] # None => fd[t] \in DOMAIN files /\ fd[t] # fd[s]
    BY <1>1, FileNumbers DEF IInv, FdInv, Typed
  <2>2. /\ pc'[t] = pc[t] /\ name'[t] = name[t] /\ fd'[t] = fd[t] /\ result'[t] = result[t]
    BY <1>5 DEF OthersKept
  <2>3. pc[t] = "syncDirectory" => entry[Primary] # None /\ rank[entry[Primary]] >= rank[entry[Primary]]
    <3> SUFFICES ASSUME pc[t] = "syncDirectory"
                 PROVE  entry[Primary] # None /\ rank[entry[Primary]] >= rank[entry[Primary]]
      OBVIOUS
    <3>1. entry[Primary] # None /\ entry[Primary] \in 0 .. Len(files)
      BY NameFacts DEF IInv, SaverInv, Knows, Typed
    <3>2. rank[entry[Primary]] \in Nat
      BY <1>1, <3>1, FileNumbers
    <3>. QED BY <3>1, <3>2
  <2>. QED BY <1>2, <1>4, <2>1, <2>2, <2>3, OtherStep
<1>8. RankInv'
  <2> SUFFICES ASSUME NEW f \in DOMAIN files
               PROVE  /\ rank[f] > 0 => files'[f] = "whole" /\ f \in synced
                      /\ rank[f] <= renames
    BY <1>2 DEF RankInv
  <2>1. rank[f] > 0 => f # fd[s]
    BY <1>1, FileNumbers
  <2>. QED BY <1>2, <2>1 DEF IInv, RankInv
<1>9. DiskInv' /\ ReaderInv'
  BY DEF IInv, DiskInv, ReaderInv
<1>10. CandidateInv'
  BY <1>3, <1>5 DEF IInv, CandidateInv, OthersKept
<1>. QED BY <1>4, <1>6, <1>7, <1>8, <1>9, <1>10 DEF IInv

(* write_all: a piece of the envelope arrives. *)
LEMMA WriteSomeStep == ASSUME IInv, NEW s \in Savers, WriteSome(s), UNCHANGED aliases PROVE IInv'
<1>1. /\ pc[s] \in {"write", "writeNew"}
      /\ files' = [files EXCEPT ![fd[s]] = "partial"]
      /\ UNCHANGED <<rank, synced, entry, onDisk, left, next, reader, rfd, renames, floor,
                     pc, name, fd, tries, result>>
  BY DEF WriteSome, dirVars, readerVars, history, saverVars
<1>2. Owns(s) /\ fd[s] # None /\ pc \in [Savers -> Labels]
  BY <1>1 DEF IInv, SaverInv, FdInv, Typed
<1>3. rank[fd[s]] = 0
  BY <1>1, <1>2 DEF Owns, Holding, WritingNew
<1>4. pc' = [pc EXCEPT ![s] = pc[s]] /\ pc[s] \in Labels \ {"idle", "create", "syncDirectory"}
  BY <1>1, <1>2
<1>5. Owns(s)'
  BY <1>1, <1>2 DEF Owns
<1>6. "partial" \in Contents
  BY DEF Contents
<1>. QED BY <1>1, <1>2, <1>3, <1>4, <1>5, <1>6, ContentStep

(* The rest of the envelope arrives, or an error does. *)
LEMMA WriteTemporaryStep ==
  ASSUME IInv, NEW s \in Savers, WriteTemporary(s), UNCHANGED aliases PROVE IInv'
<1>1. /\ pc[s] = "write"
      /\ UNCHANGED <<rank, synced, entry, onDisk, left, next, reader, rfd, renames, floor,
                     name, fd, tries, result>>
  BY DEF WriteTemporary, dirVars, readerVars, history
<1>2. /\ Typed /\ Owns(s) /\ fd[s] # None /\ pc \in [Savers -> Labels] /\ synced \subseteq DOMAIN files
      /\ fd[s] \in DOMAIN files
  BY <1>1, FileNumbers DEF IInv, SaverInv, FdInv, Typed
<1>3. rank[fd[s]] = 0
  BY <1>1, <1>2 DEF Owns, Holding
<1>4. CASE files' = [files EXCEPT ![fd[s]] = "whole"] /\ Goto(s, "sync")
  <2>1. "sync" \in Labels \ {"idle", "create", "syncDirectory"} /\ "sync" \in Holding /\ "whole" \in Contents
    BY DEF Labels, Holding, Contents
  <2>2. pc' = [pc EXCEPT ![s] = "sync"] /\ pc'[s] = "sync" /\ files'[fd[s]] = "whole"
    BY <1>2, <1>4 DEF Goto
  <2>3. Owns(s)'
    BY <1>1, <1>2, <2>2 DEF Owns, Holding, WritingNew
  <2>. QED BY <1>1, <1>2, <1>3, <1>4, <2>1, <2>2, <2>3, ContentStep
<1>5. CASE Goto(s, "cleanup") /\ UNCHANGED files
  <2>1. "cleanup" \in Labels \ {"idle", "create", "syncDirectory"} /\ "cleanup" \in Holding
    BY DEF Labels, Holding
  <2>2. pc'[s] = "cleanup"
    BY <1>2, <1>5, <2>1, GotoEffect
  <2>3. Owns(s)'
    BY <1>1, <1>2, <1>5, <2>2 DEF Owns, Holding, WritingNew
  <2>. QED BY <1>1, <1>2, <1>5, <2>1, <2>3, MoveStep
<1>. QED BY <1>4, <1>5 DEF WriteTemporary

(* The same for a backup, whose file stays when the write fails. *)
LEMMA WriteNewStep == ASSUME IInv, NEW s \in Savers, WriteNew(s), UNCHANGED aliases PROVE IInv'
<1>1. /\ pc[s] = "writeNew" /\ pc[s] \notin Holding
      /\ UNCHANGED <<rank, synced, entry, onDisk, left, next, reader, rfd, renames, floor, fd>>
  BY DEF WriteNew, dirVars, readerVars, history, Holding
<1>2. /\ Typed /\ Owns(s) /\ fd[s] # None /\ pc \in [Savers -> Labels] /\ synced \subseteq DOMAIN files
      /\ next \in Numbers
  BY <1>1 DEF IInv, SaverInv, FdInv, Typed
<1>3. rank[fd[s]] = 0
  BY <1>1, <1>2 DEF Owns, WritingNew
<1>4. CASE /\ files' = [files EXCEPT ![fd[s]] = "whole"]
           /\ Goto(s, "syncNew")
           /\ UNCHANGED <<name, tries, result>>
  <2>1. "syncNew" \in Labels \ {"idle", "create", "syncDirectory"} /\ "whole" \in Contents
    BY DEF Labels, WritingNew, Contents
  <2>2. pc' = [pc EXCEPT ![s] = "syncNew"] /\ pc'[s] = "syncNew"
    BY <1>2, <1>4 DEF Goto
  <2>3. Owns(s)'
    BY <1>1, <1>3, <2>2 DEF Owns, Holding, WritingNew
  <2>. QED BY <1>1, <1>2, <1>3, <1>4, <2>1, <2>2, <2>3, ContentStep
<1>5. CASE Return(s, "Err") /\ UNCHANGED files
  <2>1. "Err" \in Results \ Replaced
    BY DEF Results, Replaced
  <2>. QED BY <1>1, <1>2, <1>3, <1>5, <2>1, GiveUpStep
<1>. QED BY <1>4, <1>5 DEF WriteNew

(* renameat: the destination takes the candidate's file. *)
LEMMA RenamedStep ==
  ASSUME IInv, Serialized, NEW s \in Savers, pc[s] = "rename", UNCHANGED aliases,
         entry' = [n \in Names |->
            IF n = Primary THEN entry[name[s]] ELSE IF n = name[s] THEN None ELSE entry[n]],
         onDisk' = [n \in Names |-> onDisk[n] \cup {entry'[n]}],
         renames' = renames + 1,
         rank' = [rank EXCEPT ![entry[name[s]]] = renames + 1],
         Goto(s, "syncDirectory"),
         UNCHANGED <<files, synced, next, name, fd, tries, result, left, reader, rfd, floor>>
  PROVE  IInv'
<1> DEFINE f == fd[s]
           m == name[s]
<1>1. Typed /\ Owns(s) /\ f # None
  BY DEF IInv, SaverInv, FdInv
<1>2. /\ entry[m] = f /\ rank[f] = 0 /\ m # Backup /\ m # Primary /\ m \in Names
      /\ files[f] = "whole" /\ f \in synced
  BY <1>1 DEF Owns, Holding, Typed
<1>3. /\ f \in DOMAIN files /\ f \in 0 .. Len(files) /\ renames \in Nat /\ floor \in Nat
      /\ floor <= renames
  BY <1>1, FileNumbers DEF Typed, IInv, DiskInv
<1>4. /\ rank' = [rank EXCEPT ![f] = renames + 1]
      /\ rank' \in Seq(Nat) /\ Len(rank') = Len(files) /\ rank'[f] = renames + 1
      /\ \A g \in DOMAIN files : g # f => rank'[g] = rank[g]
  BY <1>1, <1>2, <1>3, FileNumbers, ExceptSeq DEF Typed
<1>5. /\ entry'[Primary] = f /\ entry'[m] = None
      /\ \A n \in Names : n # Primary /\ n # m => entry'[n] = entry[n]
      /\ \A n \in Names : onDisk'[n] = onDisk[n] \cup {entry'[n]}
      /\ \A n \in Names : entry'[n] \in 0 .. Len(files)
  BY <1>1, <1>2, NameFacts, FileNumbers DEF Typed
<1>6. entry' \in [Names -> 0 .. Len(files)] /\ onDisk' \in [Names -> SUBSET (0 .. Len(files))]
  <2>1. \A n \in Names : onDisk'[n] \in SUBSET (0 .. Len(files))
    BY <1>5 DEF IInv, Typed
  <2>. QED BY <1>5, <2>1
<1>7. "syncDirectory" \in Labels
  BY DEF Labels
<1>8. pc' \in [Savers -> Labels] /\ pc'[s] = "syncDirectory" /\ OthersKept(s)
  BY <1>1, <1>7, GotoEffect, OthersKeptBy
<1>9. Typed'
  BY <1>1, <1>3, <1>4, <1>6, <1>8 DEF Typed
<1>10. FdInv'
  BY <1>1, <1>8, FdStep
<1> HIDE DEF f, m
<1>11. ASSUME NEW t \in Savers, t # s, pc[t] \in Holding
       PROVE  name[t] # Primary /\ name[t] # m /\ name[t] \in Names
  <2>1. /\ entry[name[t]] = fd[t] /\ rank[fd[t]] = 0 /\ fd[t] # None /\ fd[t] # f
        /\ name[t] \in Names
    BY <1>11 DEF IInv, SaverInv, Owns, FdInv, Typed, Holding, f
  <2>2. ASSUME name[t] = Primary PROVE FALSE
    <3>1. fd[t] \in onDisk[Primary]
      BY <2>1, <2>2, NameFacts DEF IInv, DiskInv
    <3>2. aliases # {}
      BY <2>1, <3>1 DEF IInv, DiskInv
    <3>. QED BY <1>11, <3>2 DEF Serialized, Holding
  <2>. QED BY <1>2, <2>1, <2>2
<1>12. SaverInv'
  <2>1. ASSUME NEW t \in Savers, t # s PROVE (Owns(t) /\ Knows(t))'
    <3>1. /\ pc'[t] = pc[t] /\ name'[t] = name[t] /\ fd'[t] = fd[t] /\ result'[t] = result[t]
      BY <1>8, <2>1 DEF OthersKept
    <3>2. fd[t] # None => fd[t] # f /\ fd[t] \in DOMAIN files
      BY <1>1, <2>1, FileNumbers DEF IInv, FdInv, Typed, f
    <3>3. pc[t] \in Holding => entry'[name[t]] = entry[name[t]]
      BY <1>5, <1>11, <2>1
    <3>4. pc[t] = "syncDirectory" => rank'[entry'[Primary]] >= rank[entry[Primary]]
      <4> SUFFICES ASSUME pc[t] = "syncDirectory" PROVE rank'[f] >= rank[entry[Primary]]
        BY <1>5
      <4>1. entry[Primary] # None /\ entry[Primary] \in 0 .. Len(files)
        BY NameFacts DEF IInv, SaverInv, Knows, Typed
      <4>2. rank[entry[Primary]] \in Nat /\ rank[entry[Primary]] <= renames
        BY <1>1, <4>1, FileNumbers DEF IInv, RankInv
      <4>. QED BY <1>3, <1>4, <4>2
    <3>5. entry'[Primary] # None
      BY <1>1, <1>5 DEF f
    <3>. QED BY <1>4, <1>9, <3>1, <3>2, <3>3, <3>4, <3>5, OtherStep
  <2>2. Owns(s)'
    BY <1>8 DEF Owns, Holding, WritingNew
  <2>3. Knows(s)'
    <3>1. rank'[f] > 0 /\ rank'[f] >= rank'[f]
      BY <1>3, <1>4
    <3>. QED BY <1>1, <1>5, <1>8, <3>1 DEF Knows, f
  <2>. QED BY <2>1, <2>2, <2>3 DEF SaverInv
<1>13. RankInv'
  <2> SUFFICES ASSUME NEW g \in DOMAIN files
               PROVE  /\ rank'[g] > 0 => files[g] = "whole" /\ g \in synced
                      /\ rank'[g] <= renames + 1
    BY DEF RankInv
  <2>1. rank[g] \in Nat /\ rank[g] <= renames
    BY <1>1, FileNumbers DEF IInv, RankInv
  <2>. QED BY <1>2, <1>3, <1>4, <2>1 DEF IInv, RankInv
<1>14. DiskInv'
  <2>1. \A n \in Names : entry'[n] \in onDisk'[n]
    BY <1>5
  <2>2. \A g \in onDisk'[Primary] : g = f \/ g \in onDisk[Primary]
    BY <1>5, NameFacts
  <2>3. \A g \in onDisk[Primary] : g # None => g \in DOMAIN files
    BY <1>1, NameFacts, FileNumbers DEF Typed
  <2>4. rank'[f] # 0 /\ rank'[f] >= floor /\ f # None
    BY <1>1, <1>3, <1>4 DEF f
  <2>5. \A g \in onDisk[Primary] : g # None /\ g # f => rank'[g] = rank[g]
    BY <1>4, <2>3
  <2>6. \A g \in onDisk'[Primary] : g # None /\ rank'[g] = 0 => aliases # {}
    BY <2>2, <2>4, <2>5 DEF IInv, DiskInv
  <2>7. floor > 0 => \A g \in onDisk'[Primary] : g # None /\ rank'[g] >= floor
    BY <2>2, <2>4, <2>5 DEF IInv, DiskInv
  <2>8. floor <= renames'
    BY <1>3
  <2>. QED BY <2>1, <2>6, <2>7, <2>8 DEF DiskInv
<1>15. ReaderInv'
  <2> SUFFICES ASSUME NEW r \in Readers, reader[r] = "readPrimary"
               PROVE  rfd[r] # None /\ (rank'[rfd[r]] = 0 => aliases # {})
    BY DEF ReaderInv
  <2>1. rfd[r] # None /\ (rank[rfd[r]] = 0 => aliases # {})
    BY DEF IInv, ReaderInv
  <2>2. rfd[r] \in DOMAIN files
    BY <1>1, <2>1, FileNumbers DEF Typed
  <2>3. rank'[f] # 0
    BY <1>3, <1>4
  <2>. QED BY <1>4, <2>1, <2>2, <2>3
<1>16. CandidateInv'
  <2> SUFFICES ASSUME NEW n \in Names \ {Backup}, entry'[n] # None, rank'[entry'[n]] = 0, n \notin left
               PROVE  \E t \in Savers : pc'[t] \in Holding /\ name'[t] = n /\ fd'[t] = entry'[n]
    BY DEF CandidateInv
  <2>1. rank'[f] # 0
    BY <1>3, <1>4
  <2>2. n # Primary /\ n # m /\ entry'[n] = entry[n] /\ entry[n] # f
    BY <1>5, <2>1
  <2>3. entry[n] \in DOMAIN files
    BY <1>1, <2>2, FileNumbers DEF Typed
  <2>4. rank[entry[n]] = 0
    BY <1>4, <2>2, <2>3
  <2>5. PICK t \in Savers : pc[t] \in Holding /\ name[t] = n /\ fd[t] = entry[n]
    BY <2>2, <2>4 DEF IInv, CandidateInv
  <2>6. t # s
    BY <2>2, <2>5 DEF f
  <2>. QED BY <1>8, <2>2, <2>5, <2>6 DEF OthersKept
<1>. QED BY <1>9, <1>10, <1>12, <1>13, <1>14, <1>15, <1>16 DEF IInv

(* renameat succeeds, or the candidate has to go. *)
LEMMA RenameStep ==
  ASSUME IInv, Serialized, NEW s \in Savers, Rename(s), UNCHANGED aliases PROVE IInv'
<1>1. /\ pc[s] = "rename"
      /\ UNCHANGED <<files, synced, next, name, fd, tries, result, left, reader, rfd, floor>>
  BY DEF Rename, readerVars
<1>2. CASE Goto(s, "cleanup") /\ UNCHANGED <<entry, onDisk, renames, rank>>
  <2>1. "cleanup" \in Labels \ {"idle", "create", "syncDirectory"} /\ "cleanup" \in Holding
    BY DEF Labels, Holding
  <2>2. Typed /\ Owns(s) /\ synced \subseteq DOMAIN files
    BY DEF IInv, SaverInv, Typed
  <2>3. pc'[s] = "cleanup"
    BY <1>2, <2>1, <2>2, GotoEffect
  <2>4. Owns(s)'
    BY <1>1, <1>2, <2>2, <2>3 DEF Owns, Holding, WritingNew
  <2>. QED BY <1>1, <1>2, <2>1, <2>2, <2>4, MoveStep
<1>3. CASE ~(Goto(s, "cleanup") /\ UNCHANGED <<entry, onDisk, renames, rank>>)
  BY <1>1, <1>3, RenamedStep DEF Rename
<1>. QED BY <1>2, <1>3

(* The directory's sync: what it shows is on disk, and the save counts. *)
LEMMA SyncDirectoryStep ==
  ASSUME IInv, NEW s \in Savers, SyncDirectory(s), UNCHANGED aliases PROVE IInv'
<1>1. /\ pc[s] = "syncDirectory" /\ pc[s] \notin Holding
      /\ UNCHANGED <<files, synced, rank, entry, left, next, fd, reader, rfd, renames>>
  BY DEF SyncDirectory, readerVars, Holding
<1>2. Typed /\ Knows(s) /\ fd[s] # None /\ fd[s] \in DOMAIN files
  BY <1>1, FileNumbers DEF IInv, SaverInv, FdInv, Typed
<1>3. /\ rank[fd[s]] > 0 /\ rank[fd[s]] \in Nat /\ rank[fd[s]] <= renames
      /\ entry[Primary] # None /\ rank[entry[Primary]] >= rank[fd[s]]
      /\ rank[entry[Primary]] \in Nat /\ floor \in Nat /\ renames \in Nat
  <2>1. entry[Primary] \in 0 .. Len(files)
    BY NameFacts DEF IInv, Typed
  <2>2. entry[Primary] # None /\ entry[Primary] \in DOMAIN files
    BY <1>1, <1>2, <2>1, FileNumbers DEF Knows
  <2>. QED BY <1>1, <1>2, <2>2, FileNumbers DEF Knows, IInv, RankInv, Typed
<1>4. PICK outcome \in Replaced : Return(s, outcome)
  BY DEF SyncDirectory, Replaced
<1>5. outcome \in Results
  BY DEF Results, Replaced
<1>6. pc'[s] = "idle" /\ result'[s] \in Replaced /\ OthersKept(s)
  BY <1>1, <1>2, <1>4, <1>5, ReturnEffect, OthersKeptBy
<1>7. Owns(s)' /\ Knows(s)'
  BY <1>1, <1>2, <1>3, <1>6 DEF Owns, Knows, Holding, WritingNew, Rank
<1>8. CASE UNCHANGED <<onDisk, floor>>
  <2>1. Typed'
    BY <1>1, <1>2, <1>4, <1>5, <1>8, ReturnEffect DEF Typed
  <2>. QED BY <1>1, <1>6, <1>7, <1>8, <2>1, QuietStep
<1>9. CASE /\ onDisk' = [n \in Names |-> {entry[n]}]
           /\ floor' = IF rank[fd[s]] > floor THEN rank[fd[s]] ELSE floor
  <2>1. /\ onDisk' \in [Names -> SUBSET (0 .. Len(files))]
        /\ \A n \in Names : onDisk'[n] = {entry[n]}
    BY <1>2, <1>9 DEF Typed
  <2>2. floor' \in Nat /\ floor' <= renames'
    BY <1>1, <1>3, <1>9 DEF IInv, DiskInv
  <2>3. Typed'
    BY <1>1, <1>2, <1>4, <1>5, <2>1, <2>2, ReturnEffect DEF Typed
  <2>4. FdInv'
    BY <1>1, <1>6, FdStep
  <2>5. SaverInv'
    <3> SUFFICES ASSUME NEW t \in Savers, t # s PROVE (Owns(t) /\ Knows(t))'
      BY <1>7 DEF SaverInv
    <3>1. /\ pc'[t] = pc[t] /\ name'[t] = name[t] /\ fd'[t] = fd[t] /\ result'[t] = result[t]
      BY <1>6 DEF OthersKept
    <3>2. Owns(t) /\ Knows(t)
      BY DEF IInv, SaverInv
    <3>. QED BY <1>1, <3>1, <3>2 DEF Owns, Knows, Rank
  <2>6. RankInv' /\ ReaderInv'
    BY <1>1 DEF IInv, RankInv, ReaderInv
  <2>7. DiskInv'
    <3>1. entry[Primary] \in onDisk[Primary]
      BY NameFacts DEF IInv, DiskInv
    <3>2. \A f \in onDisk'[Primary] : f = entry[Primary]
      BY <2>1, NameFacts
    <3>3. floor' > 0 => entry[Primary] # None /\ rank[entry[Primary]] >= floor'
      BY <1>3, <1>9, <3>1 DEF IInv, DiskInv
    <3>4. \A f \in onDisk'[Primary] : f # None /\ rank'[f] = 0 => aliases' # {}
      BY <1>1, <3>1, <3>2 DEF IInv, DiskInv
    <3>5. \A n \in Names : entry'[n] \in onDisk'[n]
      BY <1>1, <2>1
    <3>. QED BY <1>1, <2>2, <3>2, <3>3, <3>4, <3>5 DEF DiskInv
  <2>8. CandidateInv'
    BY <1>1, <1>6 DEF IInv, CandidateInv, OthersKept
  <2>. QED BY <2>3, <2>4, <2>5, <2>6, <2>7, <2>8 DEF IInv
<1>. QED BY <1>8, <1>9 DEF SyncDirectory

(* A new file, under a free name that only its maker uses. *)
LEMMA CreateStep ==
  ASSUME IInv, NEW s \in Savers, NEW n \in Names, Create(n), UNCHANGED aliases,
         Typed', OthersKept(s), fd'[s] = Len(files) + 1,
         pc[s] \in {"idle", "create"},
         \/ pc'[s] = "check" /\ name'[s] = n /\ n # Backup
         \/ pc'[s] = "writeNew" /\ n = Backup,
         n = Primary => aliases # {},
         UNCHANGED <<synced, left, renames, floor, reader, rfd>>
  PROVE  IInv'
<1> DEFINE k == Len(files) + 1
<1>1. Typed
  BY DEF IInv
<1>2. /\ DOMAIN files' = DOMAIN files \cup {k} /\ k \notin DOMAIN files /\ k # None
      /\ \A f \in DOMAIN files : files'[f] = files[f] /\ rank'[f] = rank[f]
      /\ rank'[k] = 0
      /\ entry[n] = None /\ entry'[n] = k
      /\ \A m \in Names : m # n => entry'[m] = entry[m] /\ onDisk'[m] = onDisk[m]
      /\ onDisk'[n] = onDisk[n] \cup {k}
  BY <1>1, CreateEffect
<1>3. \A f \in 0 .. Len(files) : f # None => f \in DOMAIN files
  BY <1>1, FileNumbers
<1>4. \A f \in 0 .. Len(files) : f # None => rank[f] \in Nat /\ rank'[f] = rank[f]
  BY <1>1, <1>2, FileNumbers
<1> HIDE DEF k
<1>5. FdInv'
  BY <1>2, FdStep DEF k
<1>6. SaverInv'
  <2>1. ASSUME NEW t \in Savers, t # s PROVE (Owns(t) /\ Knows(t))'
    <3>1. /\ pc'[t] = pc[t] /\ name'[t] = name[t] /\ fd'[t] = fd[t] /\ result'[t] = result[t]
      BY <2>1 DEF OthersKept
    <3>2. fd[t] # None => rank'[fd[t]] = rank[fd[t]] /\ files'[fd[t]] = files[fd[t]]
      BY <1>1, <1>2, <1>3 DEF Typed
    <3>3. pc[t] \in Holding => entry'[name[t]] = entry[name[t]]
      <4> SUFFICES ASSUME pc[t] \in Holding PROVE entry'[name[t]] = entry[name[t]]
        OBVIOUS
      <4>1. entry[name[t]] # None /\ name[t] \in Names
        BY <1>1 DEF IInv, SaverInv, Owns, FdInv, Typed, Holding
      <4>. QED BY <1>2, <4>1
    <3>4. pc[t] = "syncDirectory" =>
            entry'[Primary] # None /\ rank'[entry'[Primary]] >= rank[entry[Primary]]
      <4> SUFFICES ASSUME pc[t] = "syncDirectory"
                   PROVE entry'[Primary] # None /\ rank'[entry'[Primary]] >= rank[entry[Primary]]
        OBVIOUS
      <4>1. entry[Primary] # None /\ entry[Primary] \in 0 .. Len(files)
        BY <1>1, NameFacts DEF IInv, SaverInv, Knows, Typed
      <4>2. entry'[Primary] = entry[Primary]
        BY <1>2, <4>1, NameFacts
      <4>. QED BY <1>4, <4>1, <4>2
    <3>. QED BY <3>1, <3>2, <3>3, <3>4, OtherStep
  <2>2. Owns(s)'
    BY <1>2 DEF Owns, Holding, WritingNew, k
  <2>3. Knows(s)'
    BY DEF Knows
  <2>. QED BY <2>1, <2>2, <2>3 DEF SaverInv
<1>7. RankInv'
  <2>1. rank'[k] = 0 /\ renames \in Nat
    BY <1>1, <1>2 DEF Typed
  <2>2. \A f \in DOMAIN files : /\ rank'[f] > 0 => files'[f] = "whole" /\ f \in synced
                                /\ rank'[f] <= renames
    BY <1>2 DEF IInv, RankInv
  <2>3. rank'[k] <= renames /\ ~(rank'[k] > 0)
    BY <2>1
  <2>. QED BY <1>2, <2>2, <2>3 DEF RankInv
<1>8. DiskInv'
  <2>1. \A m \in Names : entry'[m] \in onDisk'[m]
    BY <1>2 DEF IInv, DiskInv
  <2>2. CASE n # Primary
    <3>1. onDisk'[Primary] = onDisk[Primary] /\ \A f \in onDisk[Primary] : f \in 0 .. Len(files)
      BY <1>1, <1>2, <2>2, NameFacts DEF Typed
    <3>2. \A f \in onDisk[Primary] : f # None => rank'[f] = rank[f]
      BY <1>4, <3>1
    <3>. QED BY <2>1, <3>1, <3>2 DEF IInv, DiskInv
  <2>3. CASE n = Primary
    <3>1. aliases # {} /\ None \in onDisk[Primary]
      BY <1>2, <2>3, NameFacts DEF IInv, DiskInv
    <3>2. ~(floor > 0)
      BY <3>1 DEF IInv, DiskInv
    <3>. QED BY <2>1, <3>1, <3>2 DEF IInv, DiskInv
  <2>. QED BY <2>2, <2>3
<1>9. ReaderInv'
  <2> SUFFICES ASSUME NEW r \in Readers, reader[r] = "readPrimary"
               PROVE  rfd[r] # None /\ (rank'[rfd[r]] = 0 => aliases # {})
    BY DEF ReaderInv
  <2>1. rfd[r] # None /\ (rank[rfd[r]] = 0 => aliases # {}) /\ rfd[r] \in 0 .. Len(files)
    BY <1>1 DEF IInv, ReaderInv, Typed
  <2>. QED BY <1>4, <2>1
<1>10. CandidateInv'
  <2> SUFFICES ASSUME NEW m \in Names \ {Backup}, entry'[m] # None, rank'[entry'[m]] = 0, m \notin left
               PROVE  \E t \in Savers : pc'[t] \in Holding /\ name'[t] = m /\ fd'[t] = entry'[m]
    BY DEF CandidateInv
  <2>1. CASE m = n
    BY <1>2, <2>1 DEF Holding, k
  <2>2. CASE m # n
    <3>1. entry'[m] = entry[m] /\ entry[m] \in 0 .. Len(files)
      BY <1>1, <1>2, <2>2 DEF Typed
    <3>2. rank[entry[m]] = 0
      BY <1>4, <3>1
    <3>3. PICK t \in Savers : pc[t] \in Holding /\ name[t] = m /\ fd[t] = entry[m]
      BY <3>1, <3>2 DEF IInv, CandidateInv
    <3>4. t # s
      BY <3>3 DEF Holding
    <3>. QED BY <3>1, <3>3, <3>4 DEF OthersKept
  <2>. QED BY <2>1, <2>2
<1>. QED BY <1>5, <1>6, <1>7, <1>8, <1>9, <1>10 DEF IInv

(* A candidate is removed by the saver that made it. *)
LEMMA UnlinkStep ==
  ASSUME IInv, NEW s \in Savers, pc[s] \in Holding, Unlink(name[s]), UNCHANGED aliases,
         Typed', OthersKept(s), fd'[s] = fd[s] \/ fd'[s] = None,
         \/ pc'[s] = "create" /\ fd'[s] = None
         \/ pc'[s] = "idle" /\ result'[s] \notin Replaced,
         UNCHANGED <<files, rank, synced, left, renames, floor, reader, rfd>>
  PROVE  IInv'
<1> DEFINE m == name[s]
<1>1. Typed /\ m \in Names
  BY DEF IInv, Typed
<1>2. /\ entry[m] = fd[s] /\ rank[fd[s]] = 0 /\ m # Backup /\ fd[s] # None
  BY DEF IInv, SaverInv, Owns, FdInv, Holding
<1>3. /\ entry'[m] = None
      /\ \A n \in Names : n # m => entry'[n] = entry[n] /\ onDisk'[n] = onDisk[n]
      /\ onDisk'[m] = onDisk[m] \cup {None}
  BY <1>1, UnlinkEffect
<1> HIDE DEF m
<1>4. FdInv'
  BY FdStep
<1>5. SaverInv'
  <2>1. ASSUME NEW t \in Savers, t # s PROVE (Owns(t) /\ Knows(t))'
    <3>1. /\ pc'[t] = pc[t] /\ name'[t] = name[t] /\ fd'[t] = fd[t] /\ result'[t] = result[t]
      BY <2>1 DEF OthersKept
    <3>2. pc[t] \in Holding => entry'[name[t]] = entry[name[t]]
      <4> SUFFICES ASSUME pc[t] \in Holding PROVE entry'[name[t]] = entry[name[t]]
        OBVIOUS
      <4>1. entry[name[t]] = fd[t] /\ name[t] \in Names /\ fd[t] # None
        BY <1>1 DEF IInv, SaverInv, Owns, FdInv, Typed, Holding
      <4>2. name[t] # m
        BY <1>2, <2>1, <4>1 DEF IInv, FdInv
      <4>. QED BY <1>3, <4>1, <4>2
    <3>3. pc[t] = "syncDirectory" =>
            entry'[Primary] # None /\ rank'[entry'[Primary]] >= rank[entry[Primary]]
      <4> SUFFICES ASSUME pc[t] = "syncDirectory"
                   PROVE entry'[Primary] # None /\ rank'[entry'[Primary]] >= rank[entry[Primary]]
        OBVIOUS
      <4>1. /\ entry[Primary] # None /\ entry[Primary] \in 0 .. Len(files)
            /\ rank[fd[t]] > 0 /\ rank[entry[Primary]] >= rank[fd[t]]
            /\ fd[t] # None /\ fd[t] \in 0 .. Len(files)
        BY <1>1, NameFacts DEF IInv, SaverInv, Knows, FdInv, Typed
      <4>2. rank[fd[t]] \in Nat /\ rank[entry[Primary]] \in Nat
        BY <1>1, <4>1, FileNumbers
      <4>3. m # Primary
        BY <1>2, <4>1, <4>2
      <4>4. entry'[Primary] = entry[Primary]
        BY <1>3, <4>3, NameFacts
      <4>. QED BY <4>1, <4>2, <4>4
    <3>. QED BY <3>1, <3>2, <3>3, OtherStep
  <2>2. Owns(s)'
    BY DEF Owns, Holding, WritingNew
  <2>3. Knows(s)'
    BY <1>2 DEF Knows, Rank
  <2>. QED BY <2>1, <2>2, <2>3 DEF SaverInv
<1>6. RankInv' /\ ReaderInv'
  BY DEF IInv, RankInv, ReaderInv
<1>7. DiskInv'
  <2>1. \A n \in Names : entry'[n] \in onDisk'[n]
    BY <1>1, <1>3 DEF IInv, DiskInv
  <2>2. CASE m # Primary
    <3>1. onDisk'[Primary] = onDisk[Primary]
      BY <1>3, <2>2, NameFacts
    <3>. QED BY <2>1, <3>1 DEF IInv, DiskInv
  <2>3. CASE m = Primary
    <3>1. fd[s] \in onDisk[Primary] /\ floor \in Nat
      BY <1>1, <1>2, <2>3 DEF IInv, DiskInv, Typed
    <3>2. ~(floor > 0)
      BY <1>2, <3>1 DEF IInv, DiskInv
    <3>3. \A f \in onDisk'[Primary] : f # None => f \in onDisk[Primary]
      BY <1>3, <2>3
    <3>. QED BY <2>1, <3>2, <3>3 DEF IInv, DiskInv
  <2>. QED BY <2>2, <2>3
<1>8. CandidateInv'
  <2> SUFFICES ASSUME NEW n \in Names \ {Backup}, entry'[n] # None, rank[entry'[n]] = 0, n \notin left
               PROVE  \E t \in Savers : pc'[t] \in Holding /\ name'[t] = n /\ fd'[t] = entry'[n]
    BY DEF CandidateInv
  <2>1. n # m /\ entry'[n] = entry[n]
    BY <1>3
  <2>2. PICK t \in Savers : pc[t] \in Holding /\ name[t] = n /\ fd[t] = entry[n]
    BY <2>1 DEF IInv, CandidateInv
  <2>. QED BY <2>1, <2>2 DEF OthersKept, m
<1>. QED BY <1>4, <1>5, <1>6, <1>7, <1>8 DEF IInv

(* The removal fails: the call says so, and the name stays behind. *)
LEMMA StrandStep ==
  ASSUME IInv, NEW s \in Savers, pc[s] \in Holding, UNCHANGED aliases,
         Return(s, "CleanupTemporary"),
         left' = left \cup {name[s]},
         \/ fd' = fd \/ fd' = [fd EXCEPT ![s] = None],
         UNCHANGED <<files, synced, rank, entry, onDisk, next, reader, rfd, renames, floor>>
  PROVE  IInv'
<1>1. Typed /\ Owns(s) /\ fd[s] # None /\ rank[fd[s]] = 0
  BY DEF IInv, SaverInv, Owns, FdInv, Holding
<1>2. "CleanupTemporary" \in Results /\ "CleanupTemporary" \notin Replaced
  BY DEF Results, Replaced
<1>3. /\ fd' \in [Savers -> 0 .. Len(files)] /\ fd'[s] \in {fd[s], None}
      /\ (\E f \in Nat : fd' = [fd EXCEPT ![s] = f]) \/ fd' = fd
  BY <1>1, FileNumbers DEF Typed, None
<1>4. pc'[s] = "idle" /\ result'[s] = "CleanupTemporary" /\ OthersKept(s)
  BY <1>1, <1>2, <1>3, ReturnEffect, OthersKeptBy
<1>5. Typed'
  <2>1. left' \subseteq Names
    BY <1>1 DEF Typed
  <2>. QED BY <1>1, <1>2, <1>3, <2>1, ReturnEffect DEF Typed
<1>6. FdInv'
  BY <1>3, <1>4, FdStep
<1>7. SaverInv'
  <2>1. Owns(s)' /\ Knows(s)'
    BY <1>1, <1>2, <1>3, <1>4 DEF Owns, Knows, Holding, WritingNew, Rank
  <2> SUFFICES ASSUME NEW t \in Savers, t # s PROVE (Owns(t) /\ Knows(t))'
    BY <2>1 DEF SaverInv
  <2>2. /\ pc'[t] = pc[t] /\ name'[t] = name[t] /\ fd'[t] = fd[t] /\ result'[t] = result[t]
    BY <1>4 DEF OthersKept
  <2>3. Owns(t) /\ Knows(t)
    BY DEF IInv, SaverInv
  <2>. QED BY <2>2, <2>3 DEF Owns, Knows, Rank
<1>8. RankInv' /\ DiskInv' /\ ReaderInv'
  BY DEF IInv, RankInv, DiskInv, ReaderInv
<1>9. CandidateInv'
  <2> SUFFICES ASSUME NEW n \in Names \ {Backup}, entry[n] # None, rank[entry[n]] = 0,
                      n \notin left, n # name[s]
               PROVE  \E t \in Savers : pc'[t] \in Holding /\ name'[t] = n /\ fd'[t] = entry[n]
    BY DEF CandidateInv
  <2>1. PICK t \in Savers : pc[t] \in Holding /\ name[t] = n /\ fd[t] = entry[n]
    BY DEF IInv, CandidateInv
  <2>. QED BY <1>4, <2>1 DEF OthersKept
<1>. QED BY <1>5, <1>6, <1>7, <1>8, <1>9 DEF IInv

(* A turn of the loop: a candidate is made, its name is taken, or an error *)
(* ends the call.                                                          *)
LEMMA CreateTemporaryStep ==
  ASSUME IInv, NEW s \in Savers, CreateTemporary(s), UNCHANGED aliases PROVE IInv'
<1>1. /\ pc[s] = "create" /\ pc[s] \notin Holding
      /\ tries[s] < Attempts /\ next' = (next + 1) % SeqSpace
      /\ UNCHANGED <<synced, left, reader, rfd, renames, floor>>
  BY DEF CreateTemporary, readerVars, history, HasTriesLeft, Holding
<1>2. Typed /\ fd[s] = None /\ next \in Numbers /\ synced \subseteq DOMAIN files
  BY <1>1 DEF IInv, FdInv, Typed
<1>3. next' \in Numbers
  BY <1>1, <1>2, SnapshotAssumption DEF Numbers
<1>4. tries[s] + 1 \in 0 .. Attempts
  BY <1>1, <1>2, SnapshotAssumption DEF Typed
<1>5. Resolve(next) \in Names /\ Resolve(next) # Backup
      /\ (Resolve(next) = Primary => aliases # {})
  BY <1>2, NameFacts DEF Resolve
<1>6. CASE /\ Create(Resolve(next))
           /\ name' = [name EXCEPT ![s] = Resolve(next)]
           /\ fd' = [fd EXCEPT ![s] = Len(files) + 1]
           /\ tries' = [tries EXCEPT ![s] = @ + 1]
           /\ Goto(s, "check")
           /\ UNCHANGED result
  <2>1. "check" \in Labels /\ Len(files) + 1 \in Nat
    BY <1>2, FileNumbers DEF Labels, Holding
  <2>2. OthersKept(s)
    BY <1>2, <1>5, <1>6, <2>1, GotoEffect, OthersKeptBy
  <2>3. Typed'
    <3>1. /\ Len(files') = Len(files) + 1 /\ DOMAIN files \subseteq DOMAIN files'
          /\ 0 .. Len(files) \subseteq 0 .. Len(files') /\ Len(files) + 1 \in 0 .. Len(files')
      BY <1>2, <1>5, <1>6, CreateEffect, FileNumbers
    <3>2. fd' \in [Savers -> 0 .. Len(files')] /\ rfd' \in [Readers -> 0 .. Len(files')]
      BY <1>1, <1>2, <1>6, <3>1 DEF Typed
    <3>3. name' \in [Savers -> Names] /\ tries' \in [Savers -> 0 .. Attempts]
      BY <1>2, <1>4, <1>5, <1>6 DEF Typed
    <3>4. synced' \subseteq DOMAIN files'
      BY <1>1, <1>2, <3>1
    <3>5. pc' \in [Savers -> Labels]
      BY <1>2, <1>6, <2>1, GotoEffect
    <3>6. /\ files' \in Seq(Contents) /\ rank' \in Seq(Nat) /\ Len(rank') = Len(files')
          /\ entry' \in [Names -> 0 .. Len(files')]
          /\ onDisk' \in [Names -> SUBSET (0 .. Len(files'))]
      BY <1>2, <1>5, <1>6, CreateEffect
    <3>. QED BY <1>1, <1>2, <1>3, <1>6, <3>2, <3>3, <3>4, <3>5, <3>6 DEF Typed
  <2>4. pc'[s] = "check" /\ name'[s] = Resolve(next) /\ fd'[s] = Len(files) + 1
    BY <1>2, <1>6, <2>1, GotoEffect DEF Typed
  <2>. QED BY <1>1, <1>5, <1>6, <2>2, <2>3, <2>4, CreateStep
<1>7. CASE /\ tries' = [tries EXCEPT ![s] = @ + 1]
           /\ UNCHANGED <<files, rank, entry, onDisk, name, fd, pc, result>>
  <2>1. tries' \in [Savers -> 0 .. Attempts]
    BY <1>2, <1>4, <1>7 DEF Typed
  <2>2. Typed'
    BY <1>1, <1>2, <1>3, <1>7, <2>1 DEF Typed
  <2>3. OthersKept(s)
    BY <1>7 DEF OthersKept
  <2>4. Owns(s)' /\ Knows(s)'
    BY <1>1, <1>7 DEF Owns, Knows, Holding, WritingNew
  <2>. QED BY <1>1, <1>2, <1>7, <2>2, <2>3, <2>4, QuietStep
<1>8. CASE /\ Return(s, "Err")
           /\ UNCHANGED <<files, rank, entry, onDisk, fd>>
  <2>1. "Err" \in Results \ Replaced
    BY DEF Results, Replaced
  <2>. QED BY <1>1, <1>2, <1>3, <1>8, <2>1, GiveUpStep
<1>. QED BY <1>6, <1>7, <1>8 DEF CreateTemporary

(* create_new_file: the path must not exist. *)
LEMMA CreateNewStep == ASSUME IInv, NEW s \in Savers, CreateNew(s), UNCHANGED aliases PROVE IInv'
<1>1. /\ pc[s] = "idle" /\ pc[s] \notin Holding
      /\ UNCHANGED <<synced, next, left, reader, rfd, renames, floor>>
  BY DEF CreateNew, readerVars, history, Holding
<1>2. Typed /\ synced \subseteq DOMAIN files
  BY DEF IInv, Typed
<1>3. CASE /\ Return(s, "Err")
           /\ fd' = [fd EXCEPT ![s] = None]
           /\ UNCHANGED <<files, rank, entry, onDisk>>
  <2>1. /\ fd' \in [Savers -> 0 .. Len(files)] /\ fd'[s] = None
        /\ \E f \in Nat : fd' = [fd EXCEPT ![s] = f]
    BY <1>2, <1>3, FileNumbers DEF Typed, None
  <2>2. "Err" \in Results /\ "Err" \notin Replaced
    BY DEF Results, Replaced
  <2>3. pc'[s] = "idle" /\ result'[s] = "Err" /\ OthersKept(s)
    BY <1>2, <1>3, <2>1, <2>2, ReturnEffect, OthersKeptBy
  <2>4. Typed'
    BY <1>1, <1>2, <1>3, <2>1, <2>2, ReturnEffect DEF Typed
  <2>5. Owns(s)' /\ Knows(s)'
    BY <2>1, <2>2, <2>3 DEF Owns, Knows, Holding, WritingNew, Rank
  <2>. QED BY <1>1, <1>3, <2>1, <2>3, <2>4, <2>5, QuietStep
<1>4. CASE /\ Create(Backup)
           /\ fd' = [fd EXCEPT ![s] = Len(files) + 1]
           /\ Goto(s, "writeNew")
           /\ result' = [result EXCEPT ![s] = "none"]
           /\ UNCHANGED <<name, tries>>
  <2>1. "writeNew" \in Labels /\ "none" \in Results /\ Len(files) + 1 \in Nat
    BY <1>2, FileNumbers DEF Labels, WritingNew, Results
  <2>2. OthersKept(s)
    BY <1>2, <1>4, <2>1, GotoEffect, OthersKeptBy
  <2>3. Typed'
    <3>1. /\ Len(files') = Len(files) + 1 /\ DOMAIN files \subseteq DOMAIN files'
          /\ 0 .. Len(files) \subseteq 0 .. Len(files') /\ Len(files) + 1 \in 0 .. Len(files')
      BY <1>2, <1>4, NameFacts, CreateEffect, FileNumbers
    <3>2. fd' \in [Savers -> 0 .. Len(files')] /\ rfd' \in [Readers -> 0 .. Len(files')]
      BY <1>1, <1>2, <1>4, <3>1 DEF Typed
    <3>3. result' \in [Savers -> Results]
      BY <1>2, <1>4, <2>1 DEF Typed
    <3>4. synced' \subseteq DOMAIN files'
      BY <1>1, <1>2, <3>1
    <3>5. pc' \in [Savers -> Labels]
      BY <1>2, <1>4, <2>1, GotoEffect
    <3>6. /\ files' \in Seq(Contents) /\ rank' \in Seq(Nat) /\ Len(rank') = Len(files')
          /\ entry' \in [Names -> 0 .. Len(files')]
          /\ onDisk' \in [Names -> SUBSET (0 .. Len(files'))]
      BY <1>2, <1>4, NameFacts, CreateEffect
    <3>. QED BY <1>1, <1>2, <1>4, <3>2, <3>3, <3>4, <3>5, <3>6 DEF Typed
  <2>4. pc'[s] = "writeNew" /\ fd'[s] = Len(files) + 1
    BY <1>2, <1>4, <2>1, GotoEffect DEF Typed
  <2>. QED BY <1>1, <1>4, <2>2, <2>3, <2>4, NameFacts, CreateStep
<1>. QED BY <1>3, <1>4 DEF CreateNew

(* A candidate that is the destination is removed, and the loop goes on. *)
LEMMA DiscardStep == ASSUME IInv, NEW s \in Savers, Discard(s), UNCHANGED aliases PROVE IInv'
<1>1. /\ pc[s] = "discard" /\ pc[s] \in Holding
      /\ fd' = [fd EXCEPT ![s] = None]
      /\ UNCHANGED <<files, synced, rank, next, reader, rfd, renames, floor>>
  BY DEF Discard, readerVars, history, Holding
<1>2. Typed /\ name[s] \in Names
  BY DEF IInv, Typed
<1>3. CASE /\ Unlink(name[s])
           /\ Goto(s, "create")
           /\ name' = [name EXCEPT ![s] = Primary]
           /\ UNCHANGED <<result, tries, left>>
  <2>1. /\ fd' \in [Savers -> 0 .. Len(files)] /\ fd'[s] = None
        /\ \E f \in Nat : fd' = [fd EXCEPT ![s] = f]
    BY <1>1, <1>2, FileNumbers DEF Typed, None
  <2>2. "create" \in Labels /\ Primary \in Names
    BY NameFacts DEF Labels
  <2>3. name' \in [Savers -> Names]
    BY <1>2, <1>3, <2>2 DEF Typed
  <2>4. pc'[s] = "create" /\ OthersKept(s)
    BY <1>2, <1>3, <2>1, <2>2, GotoEffect, OthersKeptBy
  <2>5. Typed'
    BY <1>1, <1>2, <1>3, <2>1, <2>2, <2>3, GotoEffect, UnlinkEffect DEF Typed
  <2>. QED BY <1>1, <1>3, <2>1, <2>4, <2>5, UnlinkStep
<1>4. CASE /\ Return(s, "CleanupTemporary")
           /\ left' = left \cup {name[s]}
           /\ UNCHANGED <<entry, onDisk>>
  BY <1>1, <1>4, StrandStep
<1>. QED BY <1>3, <1>4 DEF Discard

(* A failed save removes its temporary, or says that it could not. *)
LEMMA CleanupStep == ASSUME IInv, NEW s \in Savers, Cleanup(s), UNCHANGED aliases PROVE IInv'
<1>1. /\ pc[s] = "cleanup" /\ pc[s] \in Holding
      /\ UNCHANGED <<files, synced, rank, next, fd, reader, rfd, renames, floor>>
  BY DEF Cleanup, readerVars, history, Holding
<1>2. Typed /\ name[s] \in Names
  BY DEF IInv, Typed
<1>3. CASE Unlink(name[s]) /\ Return(s, "Err") /\ UNCHANGED left
  <2>1. "Err" \in Results /\ "Err" \notin Replaced
    BY DEF Results, Replaced
  <2>2. pc'[s] = "idle" /\ result'[s] = "Err" /\ OthersKept(s)
    BY <1>1, <1>2, <1>3, <2>1, ReturnEffect, OthersKeptBy
  <2>3. Typed'
    BY <1>1, <1>2, <1>3, <2>1, ReturnEffect, UnlinkEffect DEF Typed
  <2>. QED BY <1>1, <1>3, <2>1, <2>2, <2>3, UnlinkStep
<1>4. CASE /\ left' = left \cup {name[s]}
           /\ Return(s, "CleanupTemporary")
           /\ UNCHANGED <<entry, onDisk>>
  BY <1>1, <1>4, StrandStep
<1>. QED BY <1>3, <1>4 DEF Cleanup

-----------------------------------------------------------------------------
(* Readers, and what ends every call at once. *)

(* A restore changes nothing on disk; what it has opened stays opened. *)
LEMMA ReaderStep ==
  ASSUME IInv, NEW r \in Readers, Restore(r) \/ OpenFile(r) \/ ReadFile(r), UNCHANGED aliases
  PROVE  IInv'
<1>1. /\ UNCHANGED <<files, synced, rank, entry, onDisk, left, next, pc, name, fd, tries, result,
                     renames, floor>>
  BY DEF Restore, OpenFile, ReadFile, dirVars, saverVars, history
<1>2. Typed
  BY DEF IInv
<1>3. PICK label \in ReaderLabels, f \in 0 .. Len(files) :
        /\ reader' = [reader EXCEPT ![r] = label]
        /\ rfd' = [rfd EXCEPT ![r] = f]
        /\ label = "readPrimary" => f = entry[Primary] /\ f # None
  <2>1. /\ rfd \in [Readers -> 0 .. Len(files)] /\ reader \in [Readers -> ReaderLabels]
        /\ entry[Primary] \in 0 .. Len(files) /\ entry[Backup] \in 0 .. Len(files)
        /\ None \in 0 .. Len(files)
    BY <1>2, NameFacts, FileNumbers DEF Typed
  <2>2. rfd = [rfd EXCEPT ![r] = rfd[r]] /\ rfd[r] \in 0 .. Len(files)
    BY <2>1
  <2>3. CASE Restore(r)
    <3>1. reader' = [reader EXCEPT ![r] = "openPrimary"] /\ rfd' = rfd
      BY <2>3 DEF Restore
    <3>. QED BY <2>2, <3>1 DEF ReaderLabels
  <2>4. Fails(r) \in {"openBackup", "idle"}
    BY DEF Fails
  <2>5. CASE OpenFile(r)
    <3>1. CASE reader' = [reader EXCEPT ![r] = Fails(r)] /\ UNCHANGED rfd
      BY <2>2, <2>4, <3>1 DEF ReaderLabels
    <3>2. CASE /\ reader[r] = "openPrimary" /\ entry[Path(r)] # None
               /\ rfd' = [rfd EXCEPT ![r] = entry[Path(r)]]
               /\ reader' = [reader EXCEPT ![r] = "readPrimary"]
      <4>1. Path(r) = Primary
        BY <3>2 DEF Path
      <4>. QED BY <2>1, <3>2, <4>1 DEF ReaderLabels
    <3>3. CASE /\ reader[r] = "openBackup" /\ entry[Path(r)] # None
               /\ rfd' = [rfd EXCEPT ![r] = entry[Path(r)]]
               /\ reader' = [reader EXCEPT ![r] = "readBackup"]
      <4>1. Path(r) = Backup
        BY <3>3 DEF Path
      <4>. QED BY <2>1, <3>3, <4>1 DEF ReaderLabels
    <3>. QED BY <2>5, <3>1, <3>2, <3>3 DEF OpenFile
  <2>6. CASE ReadFile(r)
    <3>1. rfd' = [rfd EXCEPT ![r] = None]
          /\ \E label \in {"openBackup", "idle"} : reader' = [reader EXCEPT ![r] = label]
      BY <2>4, <2>6 DEF ReadFile
    <3>. QED BY <2>1, <3>1 DEF ReaderLabels
  <2>. QED BY <2>3, <2>5, <2>6
<1>4. Typed'
  BY <1>1, <1>2, <1>3 DEF Typed
<1>5. FdInv' /\ RankInv' /\ DiskInv' /\ CandidateInv'
  BY <1>1 DEF IInv, FdInv, RankInv, DiskInv, CandidateInv
<1>6. SaverInv'
  BY <1>1 DEF IInv, SaverInv, Owns, Knows, Rank
<1>7. ReaderInv'
  <2> SUFFICES ASSUME NEW q \in Readers, reader'[q] = "readPrimary"
               PROVE  rfd'[q] # None /\ (rank[rfd'[q]] = 0 => aliases # {})
    BY <1>1 DEF ReaderInv
  <2>1. CASE q = r
    <3>1. rfd'[r] = entry[Primary] /\ entry[Primary] # None
      BY <1>2, <1>3, <2>1 DEF Typed
    <3>2. entry[Primary] \in onDisk[Primary]
      BY NameFacts DEF IInv, DiskInv
    <3>. QED BY <2>1, <3>1, <3>2 DEF IInv, DiskInv
  <2>2. CASE q # r
    BY <1>2, <1>3, <2>2 DEF Typed, IInv, ReaderInv
  <2>. QED BY <2>1, <2>2
<1>. QED BY <1>4, <1>5, <1>6, <1>7 DEF IInv

(* After a restart no call runs and no file is open. *)
LEMMA RestartEffect ==
  ASSUME IInv, Restarted
  PROVE  /\ FdInv' /\ SaverInv' /\ ReaderInv'
         /\ next' \in Numbers /\ pc' \in [Savers -> Labels] /\ name' \in [Savers -> Names]
         /\ fd' = [s \in Savers |-> None] /\ tries' \in [Savers -> 0 .. Attempts]
         /\ result' \in [Savers -> Results]
         /\ reader' \in [Readers -> ReaderLabels] /\ rfd' = [r \in Readers |-> None]
         /\ rank' = rank /\ renames' = renames /\ floor' = floor
<1>1. \A s \in Savers : pc'[s] = "idle" /\ fd'[s] = None /\ result'[s] = "none"
  BY DEF Restarted
<1>2. FdInv'
  BY <1>1 DEF FdInv
<1>3. SaverInv'
  <2>1. ~(0 > 0) /\ "none" \notin Replaced
    BY DEF Replaced
  <2>. QED BY <1>1, <2>1 DEF SaverInv, Owns, Knows, Holding, WritingNew, Rank, None
<1>4. ReaderInv'
  BY DEF Restarted, ReaderInv
<1>5. 0 \in Numbers /\ 0 \in 0 .. Attempts /\ Primary \in Names /\ "idle" \in Labels
      /\ "none" \in Results /\ "idle" \in ReaderLabels
  BY SnapshotAssumption, NameFacts DEF Numbers, Labels, Results, ReaderLabels
<1>. QED BY <1>2, <1>3, <1>4, <1>5 DEF Restarted, history

(* The process is killed: what is in the directory stays there. *)
LEMMA ProcessDiesStep == IInv /\ ProcessDies /\ UNCHANGED aliases => IInv'
<1> SUFFICES ASSUME IInv, ProcessDies, UNCHANGED aliases PROVE IInv'
  OBVIOUS
<1>1. Restarted /\ UNCHANGED <<files, synced, entry, onDisk>> /\ left' = left \cup Orphans(entry)
  BY DEF ProcessDies
<1>2. Typed /\ None \in 0 .. Len(files)
  BY FileNumbers DEF IInv
<1>3. Typed'
  <2>1. left' \subseteq Names
    BY <1>1, <1>2 DEF Typed, Orphans
  <2>. QED BY <1>1, <1>2, <2>1, RestartEffect DEF Typed
<1>4. RankInv' /\ DiskInv'
  BY <1>1, RestartEffect DEF IInv, RankInv, DiskInv
<1>5. CandidateInv'
  BY <1>1 DEF CandidateInv, Orphans
<1>. QED BY <1>1, <1>3, <1>4, <1>5, RestartEffect DEF IInv

(* The machine crashes: each name denotes something it has denoted since   *)
(* the last sync, and only what was synchronized keeps its content.        *)
LEMMA CrashStep == IInv /\ Crash /\ UNCHANGED aliases => IInv'
<1> SUFFICES ASSUME IInv, Crash, UNCHANGED aliases PROVE IInv'
  OBVIOUS
<1>1. /\ Restarted
      /\ entry' \in [Names -> UNION {onDisk[n] : n \in Names}]
      /\ \A n \in Names : entry'[n] \in onDisk[n]
      /\ onDisk' = [n \in Names |-> {entry'[n]}]
      /\ left' = left \cup Orphans(entry')
      /\ synced' = DOMAIN files
  BY DEF Crash
<1>2. PICK lost \in SUBSET (DOMAIN files \ synced) :
        files' = [f \in DOMAIN files |-> IF f \in lost THEN "empty" ELSE files[f]]
  BY DEF Crash
<1>3. Typed /\ None \in 0 .. Len(files) /\ Len(files) \in Nat /\ DOMAIN files = 1 .. Len(files)
  BY FileNumbers DEF IInv
<1>4. /\ files' \in Seq(Contents) /\ Len(files') = Len(files) /\ DOMAIN files' = DOMAIN files
      /\ \A f \in DOMAIN files : f \notin lost => files'[f] = files[f]
  <2>1. files' \in [1 .. Len(files) -> Contents]
    BY <1>2, <1>3, FileNumbers DEF Contents
  <2>2. files' \in Seq(Contents)
    BY <1>3, <2>1, SeqDef
  <2>3. DOMAIN files' = 1 .. Len(files) /\ Len(files') = Len(files)
    BY <1>3, <2>1, <2>2, LenProperties
  <2>. QED BY <1>2, <1>3, <2>2, <2>3
<1>5. Typed'
  <2>1. left' \subseteq Names
    BY <1>1, <1>3 DEF Typed, Orphans
  <2>2. \A n \in Names : entry'[n] \in 0 .. Len(files)
    BY <1>1, <1>3 DEF Typed
  <2>3. entry' \in [Names -> 0 .. Len(files)] /\ onDisk' \in [Names -> SUBSET (0 .. Len(files))]
    BY <1>1, <2>2
  <2>4. fd' \in [Savers -> 0 .. Len(files)] /\ rfd' \in [Readers -> 0 .. Len(files)]
    BY <1>1, <1>3, RestartEffect
  <2>. QED BY <1>1, <1>3, <1>4, <2>1, <2>3, <2>4, RestartEffect DEF Typed
<1>6. rank' = rank /\ renames' = renames /\ floor' = floor
  BY <1>1, RestartEffect
<1>7. RankInv'
  BY <1>1, <1>2, <1>4, <1>6 DEF IInv, RankInv
<1>8. DiskInv'
  <2>1. \A n \in Names : onDisk'[n] = {entry'[n]} /\ entry'[n] \in onDisk[n]
    BY <1>1
  <2>2. \A f \in onDisk'[Primary] : f \in onDisk[Primary]
    BY <2>1, NameFacts
  <2>. QED BY <1>6, <2>1, <2>2 DEF IInv, DiskInv
<1>9. CandidateInv'
  BY <1>1 DEF CandidateInv, Orphans
<1>. QED BY <1>1, <1>5, <1>7, <1>8, <1>9, RestartEffect DEF IInv

-----------------------------------------------------------------------------
(* The theorems. *)

(* An empty directory. *)
LEMMA InitIInv == Init => IInv
<1> SUFFICES ASSUME Init PROVE IInv
  OBVIOUS
<1>1. 0 \in Numbers /\ 0 \in 0 .. Attempts /\ "idle" \in Labels /\ "none" \in Results
      /\ "none" \notin Replaced /\ "idle" \in ReaderLabels
  BY SnapshotAssumption DEF Numbers, Labels, Results, Replaced, ReaderLabels
<1>2. files = <<>> /\ rank = <<>> /\ Len(files) = 0 /\ Len(rank) = 0 /\ DOMAIN files = {}
  BY DEF Init
<1>3. Typed
  BY <1>1, <1>2, NameFacts DEF Init, Typed, None
<1>4. FdInv /\ RankInv /\ ReaderInv /\ CandidateInv
  BY <1>2 DEF Init, FdInv, RankInv, ReaderInv, CandidateInv
<1>5. SaverInv
  BY <1>1 DEF Init, SaverInv, Owns, Knows, Holding, WritingNew, Rank
<1>6. DiskInv
  <2>1. floor = 0 /\ renames = 0 /\ \A f \in onDisk[Primary] : f = None
    BY NameFacts DEF Init
  <2>2. \A n \in Names : entry[n] \in onDisk[n]
    BY DEF Init
  <2>. QED BY <2>1, <2>2 DEF DiskInv
<1>. QED BY <1>3, <1>4, <1>5, <1>6 DEF IInv

(* Every step keeps the invariant, savers taking turns where they have to. *)
LEMMA NextIInv == IInv /\ Serialized /\ [Next]_vars => IInv'
<1> SUFFICES ASSUME IInv, Serialized, [Next]_vars PROVE IInv'
  OBVIOUS
<1>1. ASSUME NEW s \in Savers, Replace(s), UNCHANGED aliases PROVE IInv'
  BY <1>1, ReplaceStep
<1>2. ASSUME NEW s \in Savers, CreateNew(s), UNCHANGED aliases PROVE IInv'
  BY <1>2, CreateNewStep
<1>3. ASSUME NEW s \in Savers, Proceed(s) PROVE IInv'
  BY <1>3, OutOfNamesStep, CreateTemporaryStep, CheckAliasStep, DiscardStep, WriteSomeStep,
     WriteTemporaryStep, SyncTemporaryStep, RenameStep, SyncDirectoryStep, CleanupStep,
     WriteNewStep, SyncNewStep DEF Proceed
<1>4. ASSUME NEW r \in Readers, Restore(r) \/ OpenFile(r) \/ ReadFile(r), UNCHANGED aliases PROVE IInv'
  BY <1>4, ReaderStep
<1>5. CASE UNCHANGED vars
  BY <1>5 DEF vars, dirVars, saverVars, readerVars, history, IInv, Typed, FdInv, SaverInv, Owns,
              Knows, Rank, RankInv, DiskInv, ReaderInv, CandidateInv
<1>. QED BY <1>1, <1>2, <1>3, <1>4, <1>5, ProcessDiesStep, CrashStep DEF Next

(* What a saver holds, knows and leaves behind, after every step of any    *)
(* saver and reader, every I/O error, kill and crash.                      *)
THEOREM SnapshotInvariance == Spec /\ []Serialized => []IInv
<1>. QED BY InitIInv, NextIInv, PTL DEF Spec

(* What the invariant says of the primary path. *)
LEMMA WholeFromInvariant == IInv => PrimaryIsWhole
<1> SUFFICES ASSUME IInv PROVE PrimaryIsWhole
  OBVIOUS
<1>1. Typed
  BY DEF IInv
<1>2. ASSUME NEW f \in DOMAIN files, rank[f] = 0 => aliases # {}
      PROVE  Finished(f)
  <2>1. rank[f] \in Nat
    BY <1>1, FileNumbers
  <2>. QED BY <1>2, <2>1 DEF IInv, RankInv, Finished
<1>3. entry[Primary] # None => Finished(entry[Primary])
  <2>1. entry[Primary] \in onDisk[Primary] /\ entry[Primary] \in 0 .. Len(files)
    BY <1>1, NameFacts DEF IInv, DiskInv, Typed
  <2>. QED BY <1>1, <1>2, <2>1, FileNumbers DEF IInv, DiskInv
<1>4. \A r \in Readers : reader[r] = "readPrimary" => Finished(rfd[r])
  BY <1>1, <1>2, FileNumbers DEF IInv, ReaderInv, Typed
<1>. QED BY <1>3, <1>4 DEF PrimaryIsWhole

(* replace_file never shows an unfinished envelope under the destination's *)
(* name, whatever fails or crashes, and a restore that has opened the      *)
(* destination reads a whole one.                                          *)
THEOREM SnapshotPrimaryIsWhole == Spec /\ []Serialized => []PrimaryIsWhole
<1>. QED BY SnapshotInvariance, WholeFromInvariant, PTL

(* What the invariant says of the results. *)
LEMMA TruthfulFromInvariant == IInv => ResultsAreTruthful
<1>1. IInv => (floor > 0 => Rank(entry[Primary]) >= floor)
  BY NameFacts DEF IInv, DiskInv, Rank
<1>. QED BY <1>1 DEF IInv, SaverInv, Knows, Replaced, ResultsAreTruthful

(* An acknowledged save is never lost to a crash or to another saver's     *)
(* failure, and SnapshotReplaceError says whether the destination was      *)
(* replaced.                                                               *)
THEOREM SnapshotResultsAreTruthful == Spec /\ []Serialized => []ResultsAreTruthful
<1>. QED BY SnapshotInvariance, TruthfulFromInvariant, PTL

(* What the invariant says of the temporaries. *)
LEMMA NoneStrandedFromInvariant == IInv => NoStrandedTemporary
<1>. QED BY DEF IInv, CandidateInv, NoStrandedTemporary, Holding

(* TemporarySnapshot leaves no candidate behind without saying so. *)
THEOREM SnapshotLeavesNoTemporary == Spec /\ []Serialized => []NoStrandedTemporary
<1>. QED BY SnapshotInvariance, NoneStrandedFromInvariant, PTL

-----------------------------------------------------------------------------
(* Every call comes closer to its end. *)

(* Distance as a function of a call's place, its candidates and the write. *)
Remaining(label, used, pieces) ==
  IF label = "idle" THEN 0
  ELSE (Attempts - used) * 2 * Len(Stages)
         + 2 * (CHOOSE i \in DOMAIN Stages : Stages[i] = label) + pieces

(* The stages of a call are numbered, each label once. *)
LEMMA StageNumber ==
  ASSUME NEW label, NEW k \in 1 .. 10, Stages[k] = label
  PROVE  (CHOOSE i \in DOMAIN Stages : Stages[i] = label) = k
<1>1. DOMAIN Stages = 1 .. 10
  BY DEF Stages
<1>2. \A i \in 1 .. 10 : Stages[i] = Stages[k] => i = k
  <2>1. \A i \in 1 .. 10 : i \in {1, 2, 3, 4, 5, 6, 7, 8, 9, 10}
    OBVIOUS
  <2>2. /\ Stages[1] = "create" /\ Stages[2] = "discard" /\ Stages[3] = "cleanup"
        /\ Stages[4] = "syncDirectory" /\ Stages[5] = "rename" /\ Stages[6] = "sync"
        /\ Stages[7] = "write" /\ Stages[8] = "check" /\ Stages[9] = "syncNew"
        /\ Stages[10] = "writeNew"
    BY DEF Stages
  <2>. QED BY <2>1, <2>2
<1>. QED BY <1>1, <1>2

(* The steps left at a label, written as the place of the label among the
   stages. *)
LEMMA RemainingIs ==
  ASSUME NEW label, NEW k \in 1 .. 10, Stages[k] = label,
         NEW used \in 0 .. Attempts, NEW pieces \in {0, 1}
  PROVE  /\ Remaining(label, used, pieces) = (Attempts - used) * 20 + 2 * k + pieces
         /\ Remaining(label, used, pieces) \in Nat
         /\ Remaining(label, used, pieces) > 0
<1>1. label # "idle"
  <2>1. k \in {1, 2, 3, 4, 5, 6, 7, 8, 9, 10}
    OBVIOUS
  <2>. QED BY <2>1 DEF Stages
<1>2. Len(Stages) = 10
  BY DEF Stages
<1>3. Attempts - used \in Nat
  BY SnapshotAssumption
<1>4. Remaining(label, used, pieces) = (Attempts - used) * 2 * 10 + 2 * k + pieces
  BY <1>1, <1>2, StageNumber DEF Remaining
<1>. QED BY <1>3, <1>4

(* The labels in the order a call passes them. *)
LEMMA RemainingOf ==
  ASSUME NEW used \in 0 .. Attempts, NEW pieces \in {0, 1}
  PROVE  LET base == (Attempts - used) * 20 + pieces
         IN  /\ base \in Nat
             /\ Remaining("idle", used, pieces) = 0
             /\ Remaining("create", used, pieces) = base + 2
             /\ Remaining("discard", used, pieces) = base + 4
             /\ Remaining("cleanup", used, pieces) = base + 6
             /\ Remaining("syncDirectory", used, pieces) = base + 8
             /\ Remaining("rename", used, pieces) = base + 10
             /\ Remaining("sync", used, pieces) = base + 12
             /\ Remaining("write", used, pieces) = base + 14
             /\ Remaining("check", used, pieces) = base + 16
             /\ Remaining("syncNew", used, pieces) = base + 18
             /\ Remaining("writeNew", used, pieces) = base + 20
<1> DEFINE base == (Attempts - used) * 20
<1>1. base \in Nat
  BY SnapshotAssumption
<1>2. ASSUME NEW k \in 1 .. 10
      PROVE  Remaining(Stages[k], used, pieces) = base + 2 * k + pieces
  BY RemainingIs
<1> HIDE DEF base
<1>3. /\ Stages[1] = "create" /\ Stages[2] = "discard" /\ Stages[3] = "cleanup"
      /\ Stages[4] = "syncDirectory" /\ Stages[5] = "rename" /\ Stages[6] = "sync"
      /\ Stages[7] = "write" /\ Stages[8] = "check" /\ Stages[9] = "syncNew"
      /\ Stages[10] = "writeNew"
  BY DEF Stages
<1>4. /\ Remaining("create", used, pieces) = base + 2 * 1 + pieces
      /\ Remaining("discard", used, pieces) = base + 2 * 2 + pieces
      /\ Remaining("cleanup", used, pieces) = base + 2 * 3 + pieces
      /\ Remaining("syncDirectory", used, pieces) = base + 2 * 4 + pieces
      /\ Remaining("rename", used, pieces) = base + 2 * 5 + pieces
      /\ Remaining("sync", used, pieces) = base + 2 * 6 + pieces
      /\ Remaining("write", used, pieces) = base + 2 * 7 + pieces
      /\ Remaining("check", used, pieces) = base + 2 * 8 + pieces
      /\ Remaining("syncNew", used, pieces) = base + 2 * 9 + pieces
      /\ Remaining("writeNew", used, pieces) = base + 2 * 10 + pieces
  BY <1>2, <1>3
<1>5. Remaining("idle", used, pieces) = 0
  BY DEF Remaining
<1>6. pieces \in Nat
  OBVIOUS
<1>. QED BY <1>1, <1>4, <1>5, <1>6 DEF base

(* The same for a saver: how far it is from the end of its save. *)
LEMMA DistanceIs ==
  ASSUME Typed, NEW s \in Savers
  PROVE  /\ Distance(s) = Remaining(pc[s], tries[s], Pieces(s))
         /\ Pieces(s) \in {0, 1}
         /\ tries[s] \in 0 .. Attempts
         /\ pc[s] \in Labels
         /\ pc[s] # "idle" => Distance(s) \in Nat /\ Distance(s) > 0
         /\ pc[s] = "idle" => Distance(s) = 0
<1>1. Distance(s) = Remaining(pc[s], tries[s], Pieces(s))
  BY DEF Distance, Remaining, Stage
<1>2. Pieces(s) \in {0, 1}
  BY DEF Pieces
<1>3. tries[s] \in 0 .. Attempts /\ pc[s] \in Labels
  BY DEF Typed
<1>4. ASSUME pc[s] # "idle" PROVE Distance(s) \in Nat /\ Distance(s) > 0
  <2>1. (Attempts - tries[s]) * 20 + Pieces(s) \in Nat
    BY <1>2, <1>3, RemainingOf
  <2>. QED BY <1>1, <1>2, <1>3, <1>4, <2>1, RemainingOf DEF Labels, Holding, WritingNew
<1>5. pc[s] = "idle" => Distance(s) = 0
  BY DEF Distance
<1>. QED BY <1>1, <1>2, <1>3, <1>4, <1>5

Closer(s) ==
  /\ Distance(s)' <= Distance(s)
  /\ <<pc[s], tries[s], name[s], fd[s]>>' # <<pc[s], tries[s], name[s], fd[s]>>
       => Distance(s)' < Distance(s)

(* A call that returns is at its end. *)
LEMMA ReturnIsCloser ==
  ASSUME Typed, NEW s \in Savers, pc[s] # "idle", pc'[s] = "idle"
  PROVE  Closer(s)
<1>1. Distance(s)' = 0
  BY DEF Distance
<1>2. Distance(s) \in Nat /\ Distance(s) > 0
  BY DistanceIs
<1>. QED BY <1>1, <1>2 DEF Closer

(* Along the labels of one candidate, or with a new candidate. *)
LEMMA MoveIsCloser ==
  ASSUME Typed, NEW s \in Savers, Pieces(s)' \in {0, 1},
         \/ /\ tries'[s] = tries[s]
            /\ <<pc[s], pc'[s]>> \in
                 {<<"discard", "create">>, <<"check", "write">>, <<"check", "discard">>,
                  <<"check", "cleanup">>, <<"write", "sync">>, <<"write", "cleanup">>,
                  <<"sync", "rename">>, <<"sync", "cleanup">>, <<"rename", "syncDirectory">>,
                  <<"rename", "cleanup">>, <<"writeNew", "syncNew">>}
         \/ /\ tries[s] < Attempts /\ tries'[s] = tries[s] + 1
            /\ <<pc[s], pc'[s]>> \in {<<"create", "create">>, <<"create", "check">>}
  PROVE  Closer(s)
<1> DEFINE used == tries[s]
           p == Pieces(s)
           q == Pieces(s)'
           base == (Attempts - used) * 20
<1>1. Distance(s) = Remaining(pc[s], used, p) /\ p \in {0, 1} /\ used \in 0 .. Attempts
  BY DistanceIs
<1>2. Distance(s)' = Remaining(pc'[s], tries'[s], q)
  BY DEF Distance, Remaining, Stage
<1>3. base \in Nat /\ p \in Nat /\ q \in Nat /\ p <= 1 /\ q <= 1
  BY <1>1, SnapshotAssumption
<1>4. /\ Remaining("create", used, p) = base + p + 2
      /\ Remaining("discard", used, p) = base + p + 4
      /\ Remaining("rename", used, p) = base + p + 10
      /\ Remaining("sync", used, p) = base + p + 12
      /\ Remaining("write", used, p) = base + p + 14
      /\ Remaining("check", used, p) = base + p + 16
      /\ Remaining("writeNew", used, p) = base + p + 20
  BY <1>1, RemainingOf
<1>5. /\ Remaining("create", used, q) = base + q + 2
      /\ Remaining("discard", used, q) = base + q + 4
      /\ Remaining("cleanup", used, q) = base + q + 6
      /\ Remaining("syncDirectory", used, q) = base + q + 8
      /\ Remaining("rename", used, q) = base + q + 10
      /\ Remaining("sync", used, q) = base + q + 12
      /\ Remaining("write", used, q) = base + q + 14
      /\ Remaining("syncNew", used, q) = base + q + 18
  BY <1>1, RemainingOf
<1>6. CASE tries'[s] = tries[s]
  <2> HIDE DEF p, q, base
  <2>. QED BY <1>1, <1>2, <1>3, <1>4, <1>5, <1>6 DEF Closer, used
<1>7. CASE tries[s] < Attempts /\ tries'[s] = tries[s] + 1
  <2>1. used + 1 \in 0 .. Attempts
    BY <1>1, <1>7, SnapshotAssumption
  <2>2. /\ Remaining("create", used + 1, q) = (Attempts - (used + 1)) * 20 + q + 2
        /\ Remaining("check", used + 1, q) = (Attempts - (used + 1)) * 20 + q + 16
    BY <2>1, RemainingOf
  <2>3. (Attempts - (used + 1)) * 20 = base - 20
    BY <1>1, SnapshotAssumption
  <2>4. /\ Remaining("create", used + 1, q) = base - 20 + q + 2
        /\ Remaining("check", used + 1, q) = base - 20 + q + 16
    BY <2>2, <2>3
  <2>5. tries'[s] # tries[s]
    BY <1>1, <1>7
  <2> HIDE DEF p, q, base
  <2>. QED BY <1>1, <1>2, <1>3, <1>4, <1>7, <2>4, <2>5 DEF Closer, used
<1>. QED BY <1>6, <1>7

(* Each step of a running call brings it closer to its end. *)
LEMMA OwnStepIsCloser ==
  ASSUME IInv, NEW s \in Savers, pc[s] # "idle", Proceed(s)
  PROVE  Closer(s)
<1>1. Typed /\ pc \in [Savers -> Labels] /\ tries \in [Savers -> 0 .. Attempts]
  BY DEF IInv, Typed
<1>2. Pieces(s)' \in {0, 1}
  BY DEF Pieces
<1>3. \A label : Goto(s, label) => pc'[s] = label
  BY <1>1 DEF Goto
<1>4. \A outcome : Return(s, outcome) => pc'[s] = "idle"
  BY <1>1 DEF Return
<1>5. CASE \E outcome : Return(s, outcome)
  BY <1>1, <1>4, <1>5, ReturnIsCloser
<1>6. CASE CreateTemporary(s)
  <2>1. pc[s] = "create" /\ tries[s] < Attempts
    BY <1>6 DEF CreateTemporary, HasTriesLeft
  <2>2. CASE tries' = [tries EXCEPT ![s] = @ + 1] /\ (Goto(s, "check") \/ UNCHANGED pc)
    <3>1. tries'[s] = tries[s] + 1
      BY <1>1, <2>2
    <3>. QED BY <1>1, <1>2, <1>3, <2>1, <2>2, <3>1, MoveIsCloser
  <2>. QED BY <1>5, <1>6, <2>2 DEF CreateTemporary
<1>7. CASE CheckAlias(s)
  BY <1>1, <1>2, <1>3, <1>7, MoveIsCloser DEF CheckAlias
<1>8. CASE Discard(s)
  BY <1>1, <1>2, <1>3, <1>5, <1>8, MoveIsCloser DEF Discard
<1>9. CASE WriteTemporary(s)
  BY <1>1, <1>2, <1>3, <1>9, MoveIsCloser DEF WriteTemporary
<1>10. CASE SyncTemporary(s)
  BY <1>1, <1>2, <1>3, <1>10, MoveIsCloser DEF SyncTemporary
<1>11. CASE Rename(s)
  BY <1>1, <1>2, <1>3, <1>11, MoveIsCloser DEF Rename
<1>12. CASE WriteNew(s)
  BY <1>1, <1>2, <1>3, <1>5, <1>12, MoveIsCloser DEF WriteNew
<1>13. CASE WriteSome(s)
  <2>1. /\ pc[s] \in {"write", "writeNew"} /\ files[fd[s]] = "empty"
        /\ files' = [files EXCEPT ![fd[s]] = "partial"]
        /\ UNCHANGED <<pc, name, fd, tries>>
    BY <1>13 DEF WriteSome, saverVars
  <2>2. fd[s] \in DOMAIN files
    BY <1>1, <2>1, FileNumbers DEF IInv, FdInv, Typed
  <2>3. Pieces(s) = 1 /\ Pieces(s)' = 0
    BY <2>1, <2>2 DEF Pieces
  <2>4. /\ Distance(s) = Remaining(pc[s], tries[s], 1)
        /\ Distance(s)' = Remaining(pc[s], tries[s], 0)
        /\ tries[s] \in 0 .. Attempts
    BY <1>1, <2>1, <2>3, DistanceIs DEF Distance, Remaining, Stage
  <2>5. (Attempts - tries[s]) * 20 \in Nat
    BY <2>4, SnapshotAssumption
  <2>6. /\ Remaining("write", tries[s], 1) = (Attempts - tries[s]) * 20 + 1 + 14
        /\ Remaining("write", tries[s], 0) = (Attempts - tries[s]) * 20 + 0 + 14
        /\ Remaining("writeNew", tries[s], 1) = (Attempts - tries[s]) * 20 + 1 + 20
        /\ Remaining("writeNew", tries[s], 0) = (Attempts - tries[s]) * 20 + 0 + 20
    BY <2>4, RemainingOf
  <2>7. Distance(s)' < Distance(s) /\ Distance(s)' <= Distance(s)
    BY <2>1, <2>4, <2>5, <2>6
  <2>. QED BY <2>7 DEF Closer
<1>14. CASE OutOfNames(s) \/ SyncDirectory(s) \/ Cleanup(s) \/ SyncNew(s)
  BY <1>5, <1>14 DEF OutOfNames, SyncDirectory, Cleanup, SyncNew
<1>. QED BY <1>6, <1>7, <1>8, <1>9, <1>10, <1>11, <1>12, <1>13, <1>14 DEF Proceed

(* What a saver waits for is not moved by what leaves it alone. *)
LEMMA KeptIsCloser ==
  ASSUME IInv, NEW s \in Savers,
         pc'[s] = pc[s], tries'[s] = tries[s], name'[s] = name[s], fd'[s] = fd[s],
         fd[s] \in DOMAIN files => files'[fd[s]] = files[fd[s]],
         pc[s] # "idle"
  PROVE  Closer(s)
<1>1. pc[s] \in {"write", "writeNew"} => fd[s] \in DOMAIN files
  BY FileNumbers DEF IInv, FdInv, Typed
<1>2. Pieces(s)' = Pieces(s)
  BY <1>1 DEF Pieces
<1>3. Distance(s)' = Distance(s)
  BY <1>2 DEF Distance, Stage
<1>4. Distance(s) \in Nat
  BY DistanceIs DEF IInv
<1>. QED BY <1>3, <1>4 DEF Closer

(* Another saver's step sets a call neither forward nor back. *)
LEMMA OtherStepKeeps ==
  ASSUME IInv, NEW s \in Savers, NEW t \in Savers, t # s, pc[s] # "idle",
         Replace(t) \/ CreateNew(t) \/ Proceed(t)
  PROVE  Closer(s)
<1>1. /\ Typed /\ pc \in [Savers -> Labels] /\ tries \in [Savers -> 0 .. Attempts]
      /\ name \in [Savers -> Names] /\ fd \in [Savers -> 0 .. Len(files)]
  BY DEF IInv, Typed
<1>2. \A label : Goto(t, label) => pc'[s] = pc[s]
  BY <1>1 DEF Goto
<1>3. \A outcome : Return(t, outcome) => pc'[s] = pc[s] /\ name'[s] = name[s] /\ tries'[s] = tries[s]
  BY <1>1 DEF Return
<1>4. \A f \in DOMAIN files : Append(files, "empty")[f] = files[f]
  <2>1. files \in Seq(Contents) /\ "empty" \in Contents /\ DOMAIN files = 1 .. Len(files)
    BY <1>1, FileNumbers DEF Typed, Contents
  <2>. QED BY <2>1, AppendProperties
<1>5. fd[s] # None /\ fd[t] # None => fd[s] # fd[t]
  BY DEF IInv, FdInv
<1>6. pc[t] \in {"write", "writeNew"} => fd[t] # None
  BY DEF IInv, FdInv
<1>7. fd[s] \in DOMAIN files => fd[s] # None
  BY <1>1, FileNumbers
<1>8. \A c : pc[t] \in {"write", "writeNew"} /\ fd[s] \in DOMAIN files =>
          [files EXCEPT ![fd[t]] = c][fd[s]] = files[fd[s]]
  BY <1>5, <1>6, <1>7
<1>9. CASE Replace(t)
  BY <1>1, <1>2, <1>3, <1>9, KeptIsCloser DEF Replace
<1>10. CASE CreateNew(t)
  BY <1>1, <1>2, <1>3, <1>4, <1>10, KeptIsCloser DEF CreateNew, Create
<1>11. CASE OutOfNames(t)
  BY <1>3, <1>11, KeptIsCloser DEF OutOfNames
<1>12. CASE CreateTemporary(t)
  <2>1. tries'[s] = tries[s] /\ name'[s] = name[s] /\ fd'[s] = fd[s] /\ pc'[s] = pc[s]
    BY <1>1, <1>2, <1>3, <1>12 DEF CreateTemporary
  <2>2. fd[s] \in DOMAIN files => files'[fd[s]] = files[fd[s]]
    BY <1>4, <1>12 DEF CreateTemporary, Create
  <2>. QED BY <2>1, <2>2, KeptIsCloser
<1>13. CASE CheckAlias(t)
  BY <1>2, <1>13, KeptIsCloser DEF CheckAlias
<1>14. CASE Discard(t)
  BY <1>1, <1>2, <1>3, <1>14, KeptIsCloser DEF Discard
<1>15. CASE WriteSome(t)
  BY <1>8, <1>15, KeptIsCloser DEF WriteSome, saverVars
<1>16. CASE WriteTemporary(t)
  BY <1>2, <1>8, <1>16, KeptIsCloser DEF WriteTemporary
<1>17. CASE SyncTemporary(t)
  BY <1>2, <1>17, KeptIsCloser DEF SyncTemporary
<1>18. CASE Rename(t)
  BY <1>2, <1>18, KeptIsCloser DEF Rename
<1>19. CASE SyncDirectory(t)
  BY <1>3, <1>19, KeptIsCloser DEF SyncDirectory
<1>20. CASE Cleanup(t)
  BY <1>3, <1>20, KeptIsCloser DEF Cleanup
<1>21. CASE WriteNew(t)
  BY <1>2, <1>3, <1>8, <1>21, KeptIsCloser DEF WriteNew
<1>22. CASE SyncNew(t)
  BY <1>3, <1>22, KeptIsCloser DEF SyncNew
<1>. QED BY <1>9, <1>10, <1>11, <1>12, <1>13, <1>14, <1>15, <1>16, <1>17, <1>18, <1>19, <1>20,
            <1>21, <1>22 DEF Proceed

(* So does every step of the system, crashes ending the call. *)
LEMMA StepIsCloser ==
  ASSUME IInv, [Next]_vars, NEW s \in Savers, pc[s] # "idle"
  PROVE  Closer(s)
<1>1. ASSUME NEW t \in Savers, Replace(t) \/ CreateNew(t) \/ Proceed(t) PROVE Closer(s)
  <2>1. CASE t = s
    BY <1>1, <2>1, OwnStepIsCloser DEF Replace, CreateNew
  <2>2. CASE t # s
    BY <1>1, <2>2, OtherStepKeeps
  <2>. QED BY <2>1, <2>2
<1>2. ASSUME NEW r \in Readers, Restore(r) \/ OpenFile(r) \/ ReadFile(r) PROVE Closer(s)
  <2>1. UNCHANGED <<files, pc, name, fd, tries>>
    BY <1>2 DEF Restore, OpenFile, ReadFile, saverVars
  <2>. QED BY <2>1, KeptIsCloser
<1>3. CASE ProcessDies \/ Crash
  <2>1. pc'[s] = "idle"
    BY <1>3 DEF ProcessDies, Crash, Restarted
  <2>. QED BY <2>1, ReturnIsCloser DEF IInv
<1>4. CASE UNCHANGED vars
  BY <1>4, KeptIsCloser DEF vars, saverVars
<1>. QED BY <1>1, <1>2, <1>3, <1>4 DEF Next

(* The loop of create_temporary_snapshot is bounded and every other step   *)
(* of a save is taken once: whatever collides, fails or crashes, and       *)
(* whatever other savers do, a call never moves away from its end.         *)
THEOREM SnapshotSavesReturn == Spec /\ []Serialized => EverySaveReturns
<1>1. IInv /\ [Next]_vars =>
        [\A s \in Savers :
           pc[s] # "idle" =>
             /\ Distance(s)' <= Distance(s)
             /\ <<pc[s], tries[s], name[s], fd[s]>>' # <<pc[s], tries[s], name[s], fd[s]>>
                  => Distance(s)' < Distance(s)]_vars
  BY StepIsCloser DEF Closer
<1>. QED BY <1>1, SnapshotInvariance, PTL DEF Spec, EverySaveReturns

=============================================================================
