---------------------------- MODULE SnapshotFile ----------------------------
(***************************************************************************)
(* Snapshot files (src/src/snapshot.rs): SnapshotCodec::replace_file       *)
(* writes an envelope to an exclusively created sibling, synchronizes it,  *)
(* renames it over the primary path and synchronizes the directory;        *)
(* SnapshotCodec::create_new_file writes a backup path that must not       *)
(* exist; a restore opens the primary and falls back to the backup.        *)
(*                                                                         *)
(* Any number of threads do this on one directory while processes die and  *)
(* machines crash.  A file is the index of its creation in files; its      *)
(* envelope is "empty", "partial" or "whole" (the checksum and the lengths *)
(* of SnapshotCodec::decode accept exactly the whole one).                 *)
(*                                                                         *)
(* What a crash leaves: a synchronized file keeps its content, any other   *)
(* file may lose it; a directory entry is any value the entry has had      *)
(* since the directory was last synchronized, each entry on its own.       *)
(***************************************************************************)
EXTENDS Integers, Sequences, FiniteSets

CONSTANTS
  Savers,       \* threads that save
  Readers,      \* threads that restore
  Attempts,     \* TEMPORARY_CREATE_ATTEMPTS (128)
  SeqSpace,     \* values of the AtomicU32 that numbers temporaries (2^32)
  Filesystems,  \* for each one, the numbers whose name it resolves to the primary
  OwnName,      \* numbers whose bare suffix is the primary's own name
  MaxFiles,     \* bound: files ever created
  MaxCrashes    \* bound: deaths of the process and crashes of the machine

ASSUME SnapshotAssumption ==
  /\ Attempts \in Nat \ {0}
  /\ SeqSpace \in Nat \ {0}
  /\ MaxFiles \in Nat
  /\ MaxCrashes \in Nat

Numbers == 0 .. SeqSpace - 1

\* A temporary is named by its number, the two paths by negative ones.
Primary == -1
Backup == -2
Names == {Primary, Backup} \cup Numbers

\* No file.  Files are numbered from 1.
None == 0
Files == 1 .. MaxFiles

VARIABLES
  files,     \* files[f]: what of the envelope file f holds
  synced,    \* files whose content is on disk
  rank,      \* rank[f]: when f was renamed over the primary, 0 if never
  entry,     \* entry[n]: the file the name n denotes
  onDisk,    \* onDisk[n]: the files a crash may leave under n
  next,      \* NEXT_TEMPORARY_FILE
  pc,        \* where each saver is
  name,      \* the TemporarySnapshot's name, or the backup path
  fd,        \* the open file
  tries,     \* candidates tried
  result,    \* what the saver's last call returned
  reader,    \* where each reader is
  rfd,       \* the reader's open file
  renames,   \* history: number of renames
  floor,     \* history: rank of the newest save that was acknowledged
  left,      \* history: names a failed cleanup or a crash left behind
  crashes,
  aliases    \* the filesystem the directory is on

dirVars == <<entry, onDisk, left>>
saverVars == <<pc, name, fd, tries, result>>
readerVars == <<reader, rfd>>
history == <<renames, floor>>
vars == <<files, synced, rank, dirVars, next, saverVars, readerVars, history, crashes, aliases>>

(***************************************************************************)
(* The filesystem.                                                         *)
(***************************************************************************)
\* The entry that a candidate's name denotes.
Resolve(n) == IF n \in aliases THEN Primary ELSE n

\* openat(O_CREAT | O_EXCL).
Create(n) ==
  /\ entry[n] = None
  /\ Len(files) < MaxFiles
  /\ files' = Append(files, "empty")
  /\ rank' = Append(rank, 0)
  /\ entry' = [entry EXCEPT ![n] = Len(files) + 1]
  /\ onDisk' = [onDisk EXCEPT ![n] = @ \cup {Len(files) + 1}]

\* unlinkat of a name, NotFound being as good as done.
Unlink(n) ==
  /\ entry' = [entry EXCEPT ![n] = None]
  /\ onDisk' = [onDisk EXCEPT ![n] = @ \cup {None}]

(***************************************************************************)
(* One call of a saver.                                                    *)
(***************************************************************************)
Goto(s, label) == pc' = [pc EXCEPT ![s] = label]

\* The call returns: "Ok", "SyncDirectory", "CleanupTemporary", or "Err" for
\* every other error, all of which are found before the rename.
Return(s, outcome) ==
  /\ pc' = [pc EXCEPT ![s] = "idle"]
  /\ name' = [name EXCEPT ![s] = Primary]
  /\ tries' = [tries EXCEPT ![s] = 0]
  /\ result' = [result EXCEPT ![s] = outcome]

\* replace_file: encode, name the destination, open its directory; each may
\* fail before anything is touched.
Replace(s) ==
  /\ pc[s] = "idle"
  /\ fd' = [fd EXCEPT ![s] = None]
  /\ \/ Return(s, "Err")
     \/ /\ Goto(s, "create")
        /\ result' = [result EXCEPT ![s] = "none"]
        /\ UNCHANGED <<name, tries>>
  /\ UNCHANGED <<files, synced, rank, dirVars, next, readerVars, history, crashes>>

HasTriesLeft(s) == tries[s] < Attempts

\* The loop of create_temporary_snapshot has run out.
OutOfNames(s) ==
  /\ pc[s] = "create"
  /\ ~HasTriesLeft(s)
  /\ Return(s, "Err")
  /\ UNCHANGED <<files, synced, rank, dirVars, next, fd, readerVars, history, crashes>>

\* Mutant of CreateTemporary: a taken name does not use up the loop.
CreateTemporary_Unbounded(s) ==
  /\ pc[s] = "create"
  /\ next' = (next + 1) % SeqSpace
  /\ \/ /\ Create(Resolve(next))
        /\ name' = [name EXCEPT ![s] = Resolve(next)]
        /\ fd' = [fd EXCEPT ![s] = Len(files) + 1]
        /\ Goto(s, "check")
     \/ /\ entry[Resolve(next)] # None
        /\ UNCHANGED <<files, rank, entry, onDisk, name, fd, pc>>
  /\ UNCHANGED <<synced, left, result, tries, readerVars, history, crashes>>

\* One turn of it: number a candidate, create it exclusively; a name that is
\* taken, or is the destination's own, costs a turn; any other error ends it.
CreateTemporary(s) ==
  /\ pc[s] = "create"
  /\ HasTriesLeft(s)
  /\ next' = (next + 1) % SeqSpace
  /\ \/ /\ next \notin OwnName
        /\ Create(Resolve(next))
        /\ name' = [name EXCEPT ![s] = Resolve(next)]
        /\ fd' = [fd EXCEPT ![s] = Len(files) + 1]
        /\ tries' = [tries EXCEPT ![s] = @ + 1]
        /\ Goto(s, "check")
        /\ UNCHANGED result
     \/ /\ next \in OwnName \/ entry[Resolve(next)] # None
        /\ tries' = [tries EXCEPT ![s] = @ + 1]
        /\ UNCHANGED <<files, rank, entry, onDisk, name, fd, pc, result>>
     \/ /\ next \notin OwnName
        /\ Return(s, "Err")
        /\ UNCHANGED <<files, rank, entry, onDisk, fd>>
  /\ UNCHANGED <<synced, left, readerVars, history, crashes>>

\* entry_aliases_file: the candidate must not be the destination.
CheckAlias(s) ==
  /\ pc[s] = "check"
  /\ \/ entry[Primary] # fd[s] /\ Goto(s, "write")
     \/ entry[Primary] = fd[s] /\ Goto(s, "discard")
     \/ Goto(s, "cleanup")
  /\ UNCHANGED <<files, synced, rank, dirVars, next, name, fd, tries, result,
                 readerVars, history, crashes>>

\* discard: remove the candidate and take another turn.
Discard(s) ==
  /\ pc[s] = "discard"
  /\ fd' = [fd EXCEPT ![s] = None]
  /\ \/ /\ Unlink(name[s])
        /\ Goto(s, "create")
        /\ name' = [name EXCEPT ![s] = Primary]
        /\ UNCHANGED <<result, tries, left>>
     \/ /\ Return(s, "CleanupTemporary")
        /\ left' = left \cup {name[s]}
        /\ UNCHANGED <<entry, onDisk>>
  /\ UNCHANGED <<files, synced, rank, next, readerVars, history, crashes>>

\* write_all: the envelope arrives in pieces.
WriteSome(s) ==
  /\ pc[s] \in {"write", "writeNew"}
  /\ files[fd[s]] = "empty"
  /\ files' = [files EXCEPT ![fd[s]] = "partial"]
  /\ UNCHANGED <<synced, rank, dirVars, next, saverVars, readerVars, history, crashes>>

\* The rest arrives, or an error does and the temporary has to go.
WriteTemporary(s) ==
  /\ pc[s] = "write"
  /\ \/ files' = [files EXCEPT ![fd[s]] = "whole"] /\ Goto(s, "sync")
     \/ Goto(s, "cleanup") /\ UNCHANGED files
  /\ UNCHANGED <<synced, rank, dirVars, next, name, fd, tries, result,
                 readerVars, history, crashes>>

\* Mutant of SyncTemporary: the temporary is renamed unsynchronized.
SyncTemporary_Skipped(s) ==
  /\ pc[s] = "sync"
  /\ Goto(s, "rename")
  /\ UNCHANGED <<files, synced, rank, dirVars, next, name, fd, tries, result,
                 readerVars, history, crashes>>

SyncTemporary(s) ==
  /\ pc[s] = "sync"
  /\ \/ synced' = synced \cup {fd[s]} /\ Goto(s, "rename")
     \/ Goto(s, "cleanup") /\ UNCHANGED synced
  /\ UNCHANGED <<files, rank, dirVars, next, name, fd, tries, result,
                 readerVars, history, crashes>>

\* renameat: the destination takes the temporary's file; a rename of a file
\* to itself does nothing, one of a missing name fails.
Rename(s) ==
  /\ pc[s] = "rename"
  /\ \/ /\ entry[name[s]] # None
        /\ entry' = [n \in Names |->
             IF n = Primary THEN entry[name[s]] ELSE IF n = name[s] THEN None ELSE entry[n]]
        /\ onDisk' = [n \in Names |-> onDisk[n] \cup {entry'[n]}]
        /\ renames' = renames + 1
        /\ rank' = [rank EXCEPT ![entry[name[s]]] = renames + 1]
        /\ Goto(s, "syncDirectory")
     \/ Goto(s, "cleanup") /\ UNCHANGED <<entry, onDisk, renames, rank>>
  /\ UNCHANGED <<files, synced, next, name, fd, tries, result, left, readerVars,
                 floor, crashes>>

\* Mutants of SyncDirectory: Ok without synchronizing; an error that hides
\* that the destination was replaced.
SyncDirectory_Skipped(s) ==
  /\ pc[s] = "syncDirectory"
  /\ floor' = IF rank[fd[s]] > floor THEN rank[fd[s]] ELSE floor
  /\ Return(s, "Ok")
  /\ UNCHANGED <<files, synced, rank, dirVars, next, fd, readerVars, renames, crashes>>

\* SnapshotDirectory::sync.
SyncDirectory(s) ==
  /\ pc[s] = "syncDirectory"
  /\ \/ /\ onDisk' = [n \in Names |-> {entry[n]}]
        /\ floor' = IF rank[fd[s]] > floor THEN rank[fd[s]] ELSE floor
        /\ Return(s, "Ok")
     \/ Return(s, "SyncDirectory") /\ UNCHANGED <<onDisk, floor>>
  /\ UNCHANGED <<files, synced, rank, entry, left, next, fd, readerVars, renames, crashes>>

\* Mutant of Cleanup: the error is returned, the temporary stays.
Cleanup_Forgets(s) ==
  /\ pc[s] = "cleanup"
  /\ Return(s, "Err")
  /\ UNCHANGED <<files, synced, rank, dirVars, next, fd, readerVars, history, crashes>>

\* TemporarySnapshot::cleanup, which passes the error on or wraps it.
Cleanup(s) ==
  /\ pc[s] = "cleanup"
  /\ \/ Unlink(name[s]) /\ Return(s, "Err") /\ UNCHANGED left
     \/ /\ left' = left \cup {name[s]}
        /\ Return(s, "CleanupTemporary")
        /\ UNCHANGED <<entry, onDisk>>
  /\ UNCHANGED <<files, synced, rank, next, fd, readerVars, history, crashes>>

\* create_new_file: encode, create the path exclusively.  Nothing removes
\* the file when the write or the sync fails.
CreateNew(s) ==
  /\ pc[s] = "idle"
  /\ \/ /\ Return(s, "Err")
        /\ fd' = [fd EXCEPT ![s] = None]
        /\ UNCHANGED <<files, rank, entry, onDisk>>
     \/ /\ Create(Backup)
        /\ fd' = [fd EXCEPT ![s] = Len(files) + 1]
        /\ Goto(s, "writeNew")
        /\ result' = [result EXCEPT ![s] = "none"]
        /\ UNCHANGED <<name, tries>>
  /\ UNCHANGED <<synced, next, left, readerVars, history, crashes>>

WriteNew(s) ==
  /\ pc[s] = "writeNew"
  /\ \/ /\ files' = [files EXCEPT ![fd[s]] = "whole"]
        /\ Goto(s, "syncNew")
        /\ UNCHANGED <<name, tries, result>>
     \/ Return(s, "Err") /\ UNCHANGED files
  /\ UNCHANGED <<synced, rank, dirVars, next, fd, readerVars, history, crashes>>

SyncNew(s) ==
  /\ pc[s] = "syncNew"
  /\ \/ synced' = synced \cup {fd[s]} /\ Return(s, "OkNew")
     \/ Return(s, "Err") /\ UNCHANGED synced
  /\ UNCHANGED <<files, rank, dirVars, next, fd, readerVars, history, crashes>>

(***************************************************************************)
(* One restore: the primary, then the backup.                              *)
(***************************************************************************)
Path(r) == IF reader[r] \in {"openPrimary", "readPrimary"} THEN Primary ELSE Backup

Restore(r) ==
  /\ reader[r] = "idle"
  /\ reader' = [reader EXCEPT ![r] = "openPrimary"]
  /\ UNCHANGED <<files, synced, rank, dirVars, next, saverVars, rfd, history, crashes>>

Fails(r) == IF Path(r) = Primary THEN "openBackup" ELSE "idle"

\* open_regular_snapshot_file.
OpenFile(r) ==
  /\ reader[r] \in {"openPrimary", "openBackup"}
  /\ \/ /\ entry[Path(r)] # None
        /\ rfd' = [rfd EXCEPT ![r] = entry[Path(r)]]
        /\ reader' = [reader EXCEPT ![r] =
             IF @ = "openPrimary" THEN "readPrimary" ELSE "readBackup"]
     \/ reader' = [reader EXCEPT ![r] = Fails(r)] /\ UNCHANGED rfd
  /\ UNCHANGED <<files, synced, rank, dirVars, next, saverVars, history, crashes>>

\* decode checks the header, the exact length and the checksum.
Decodes(f) == files[f] = "whole"

\* read_bounded_snapshot_file and decode: reading and the length limits may
\* fail, and so may what the payload codec and the table ask for.
ReadFile(r) ==
  /\ reader[r] \in {"readPrimary", "readBackup"}
  /\ rfd' = [rfd EXCEPT ![r] = None]
  /\ \/ Decodes(rfd[r]) /\ reader' = [reader EXCEPT ![r] = "idle"]
     \/ reader' = [reader EXCEPT ![r] = Fails(r)]
  /\ UNCHANGED <<files, synced, rank, dirVars, next, saverVars, history, crashes>>

(***************************************************************************)
(* Failures.                                                               *)
(***************************************************************************)
\* Names that survive in the directory with nobody to remove them.
Orphans(e) == {n \in Names \ {Backup} : e[n] # None}

Restarted ==
  /\ crashes < MaxCrashes
  /\ crashes' = crashes + 1
  /\ next' = 0
  /\ pc' = [s \in Savers |-> "idle"]
  /\ name' = [s \in Savers |-> Primary]
  /\ fd' = [s \in Savers |-> None]
  /\ tries' = [s \in Savers |-> 0]
  /\ result' = [s \in Savers |-> "none"]
  /\ reader' = [r \in Readers |-> "idle"]
  /\ rfd' = [r \in Readers |-> None]
  /\ UNCHANGED <<rank, history>>

\* The process is killed; the filesystem is not.  Its successor may have the
\* same process id, so it numbers its temporaries the same way.
ProcessDies ==
  /\ Restarted
  /\ left' = left \cup Orphans(entry)
  /\ UNCHANGED <<files, synced, entry, onDisk>>

\* The machine crashes.  A file that loses its content is shown as empty: to
\* decode, that is the same as any other damage.
Crash ==
  /\ Restarted
  /\ entry' \in {e \in [Names -> UNION {onDisk[n] : n \in Names}] :
                   \A n \in Names : e[n] \in onDisk[n]}
  /\ onDisk' = [n \in Names |-> {entry'[n]}]
  /\ left' = left \cup Orphans(entry')
  /\ \E lost \in SUBSET (DOMAIN files \ synced) :
       files' = [f \in DOMAIN files |-> IF f \in lost THEN "empty" ELSE files[f]]
  /\ synced' = DOMAIN files

Init ==
  /\ files = <<>>
  /\ synced = {}
  /\ rank = <<>>
  /\ entry = [n \in Names |-> None]
  /\ onDisk = [n \in Names |-> {None}]
  /\ next = 0
  /\ pc = [s \in Savers |-> "idle"]
  /\ name = [s \in Savers |-> Primary]
  /\ fd = [s \in Savers |-> None]
  /\ tries = [s \in Savers |-> 0]
  /\ result = [s \in Savers |-> "none"]
  /\ reader = [r \in Readers |-> "idle"]
  /\ rfd = [r \in Readers |-> None]
  /\ renames = 0
  /\ floor = 0
  /\ left = {}
  /\ crashes = 0
  /\ aliases \in Filesystems

Proceed(s) ==
  /\ \/ OutOfNames(s) \/ CreateTemporary(s) \/ CheckAlias(s) \/ Discard(s)
     \/ WriteSome(s) \/ WriteTemporary(s) \/ SyncTemporary(s) \/ Rename(s)
     \/ SyncDirectory(s) \/ Cleanup(s) \/ WriteNew(s) \/ SyncNew(s)
  /\ UNCHANGED aliases

Next ==
  /\ \/ \E s \in Savers : Replace(s) \/ CreateNew(s) \/ Proceed(s)
     \/ \E r \in Readers : Restore(r) \/ OpenFile(r) \/ ReadFile(r)
     \/ ProcessDies \/ Crash
  /\ UNCHANGED aliases

Spec == Init /\ [][Next]_vars

(***************************************************************************)
(* Properties.                                                             *)
(***************************************************************************)
Rank(f) == IF f = None THEN 0 ELSE rank[f]

TypeOK ==
  /\ Len(files) <= MaxFiles
  /\ \A f \in DOMAIN files : files[f] \in {"empty", "partial", "whole"}
  /\ synced \subseteq DOMAIN files
  /\ DOMAIN rank = DOMAIN files
  /\ entry \in [Names -> Files \cup {None}]
  /\ next \in Numbers
  /\ tries \in [Savers -> 0 .. Attempts]
  /\ left \subseteq Names
  /\ floor <= renames

\* The whole envelope, or the candidate that an aliasing filesystem shows.
Finished(f) == files[f] = "whole" \/ (aliases # {} /\ rank[f] = 0)

\* The primary path never shows an unfinished envelope, not even after a
\* crash at any step of any saver: replace_envelope_in_directory writes and
\* synchronizes a file nobody else can name before it renames it.  Only a
\* filesystem that resolves a candidate to the destination shows the empty
\* candidate there, until it is discarded.  A restore that has opened the
\* primary reads a whole envelope however many saves replace the path before
\* it gets to read: renameat gives the path another file and leaves the
\* opened one alone.
PrimaryIsWhole ==
  /\ entry[Primary] # None => Finished(entry[Primary])
  /\ \A r \in Readers : reader[r] = "readPrimary" => Finished(rfd[r])

\* A result tells what happened to the destination.  Once replace_file has
\* returned Ok, the primary holds that save or a later one for ever, crashes
\* included, whatever savers that fail meanwhile do; a call that returned Ok or
\* SyncDirectory (SnapshotReplaceError::destination_was_replaced) did replace
\* it, any other call never did.
ResultsAreTruthful ==
  /\ floor > 0 => Rank(entry[Primary]) >= floor
  /\ \A s \in Savers : pc[s] = "idle" =>
       (Rank(fd[s]) > 0 <=> result[s] \in {"Ok", "SyncDirectory"})

\* A candidate file stays in the directory only while the call that created
\* it runs: a failed save removes it, unless the removal itself failed or the
\* process was killed, and then CleanupTemporary says so.
NoStrandedTemporary ==
  \A n \in Names \ {Backup} :
    entry[n] # None /\ rank[entry[n]] = 0 =>
      \/ \E s \in Savers : pc[s] # "idle" /\ name[s] = n /\ fd[s] = entry[n]
      \/ n \in left

\* How far a call is from returning: the candidates it may still try, then
\* the steps of one candidate, then the pieces of one write.
Stages ==
  <<"create", "discard", "cleanup", "syncDirectory", "rename", "sync", "write", "check", "syncNew", "writeNew">>
Stage(s) == CHOOSE i \in DOMAIN Stages : Stages[i] = pc[s]
Pieces(s) == IF pc[s] \in {"write", "writeNew"} /\ files[fd[s]] = "empty" THEN 1 ELSE 0
Distance(s) ==
  IF pc[s] = "idle" THEN 0
  ELSE (Attempts - tries[s]) * 2 * Len(Stages) + 2 * Stage(s) + Pieces(s)

\* Every save returns: each step of a running call brings it closer, however
\* its candidates collide with the destination or with what failed cleanups,
\* other savers and dead processes left, and no other thread sets it back.
EverySaveReturns ==
  [][\A s \in Savers :
       pc[s] # "idle" => /\ Distance(s)' <= Distance(s)
                         /\ <<pc[s], tries[s], name[s], fd[s]>>' # <<pc[s], tries[s], name[s], fd[s]>>
                              => Distance(s)' < Distance(s)]_vars

=============================================================================
