----------------------------- MODULE WalRegistry -----------------------------
(***************************************************************************)
(* The multi-table write-ahead log (src/src/batch/wal.rs): a directory     *)
(* with one Int64 log per table and a manifest that names them.  The       *)
(* registry is created member by member with the manifest last; each       *)
(* committed statement appends one frame to one member, after reserving it *)
(* against limits that all members share; recovery reads every member or   *)
(* nothing.                                                                *)
(*                                                                         *)
(* A member's bytes are Int64Wal's business.  Here a member is the sizes   *)
(* of its complete frames and the size of the torn frame after them, which *)
(* is what the shared limits and replay look at.  What a crash leaves: a   *)
(* synchronized entry or frame stays, an unsynchronized one may go.        *)
(***************************************************************************)
EXTENDS Integers, Sequences, SequencesExt

CONSTANTS
  Boot,          \* Boot[i]: size of the bootstrap frame of the i-th table
  FrameSizes,    \* sizes a later frame may have
  ManifestSize,
  Limits         \* the Int64WriteAheadLogRegistryLimits a caller may pass

Members == DOMAIN Boot
Manifest == 0

LimitFields == {"tables", "manifest", "totalBytes", "totalRecords", "fileBytes", "records"}

ASSUME RegistryAssumption ==
  /\ Boot \in Seq(Nat \ {0, 1})
  /\ FrameSizes \subseteq Nat \ {0, 1}
  /\ ManifestSize \in Nat
  /\ Limits \subseteq [LimitFields -> Nat]

VARIABLES
  stage,      \* how far create_registry is, or "open", "failed", "down"
  limits,     \* Int64WriteAheadLogRegistry::limits
  made,       \* the member being created
  dir,        \* the registry's directory: "none", "made", "safe"
  entries,    \* names in the directory
  safe,       \* names whose entry is on disk
  manifest,   \* content of the manifest: "empty", "whole", "safe"
  frames,     \* frames[i]: sizes of the complete frames of member i
  tail,       \* tail[i]: size of the torn frame after them
  bytes,      \* total_wal_bytes
  records,    \* total_records
  poisoned,   \* "no", "yes"
  writing,    \* the member whose frame is being written, with its size
  acked,      \* history: acked[i] frames of member i were acknowledged
  outcome     \* what the last recovery returned

creation == <<stage, made, dir, entries, safe, manifest>>
totals == <<bytes, records, poisoned>>
vars == <<creation, limits, frames, tail, totals, writing, acked, outcome>>

NoWrite == <<0, 0>>
Refused == <<>>

Total(sizes) ==
  LET sum[n \in 0 .. Len(sizes)] == IF n = 0 THEN 0 ELSE sum[n - 1] + sizes[n]
  IN sum[Len(sizes)]
FileSize(i) == Total(frames[i]) + tail[i]

(***************************************************************************)
(* Limits.                                                                 *)
(***************************************************************************)
\* validate_registry_totals.
TotalsFit(b, r, l) == b <= l["totalBytes"] /\ r <= l["totalRecords"]

\* validate_next_record of one member.
MemberFits(i, size, l) ==
  /\ Total(frames[i]) + size <= l["fileBytes"]
  /\ Len(frames[i]) + 1 <= l["records"]

\* preflight_registry_tables.
Preflight(l) ==
  /\ Len(Boot) # 0 /\ Len(Boot) <= l["tables"]
  /\ \A i \in Members : Boot[i] <= l["fileBytes"] /\ 1 <= l["records"]
  /\ ManifestSize <= l["manifest"]
  /\ TotalsFit(Total(Boot), Len(Boot), l)

(***************************************************************************)
(* create_registry.                                                        *)
(***************************************************************************)
At(label) == stage = label
Go(label) == stage' = label

\* Nothing is touched before every limit has been checked.
Create ==
  /\ At("none")
  /\ Go(IF Preflight(limits) THEN "mkdir" ELSE "failed")
  /\ UNCHANGED <<made, dir, entries, safe, manifest, limits, frames, tail, totals,
                 writing, acked, outcome>>

\* Any step of the creation may fail; what was created stays.
CreateFails ==
  /\ stage \in {"mkdir", "syncParent", "member", "bootstrap", "syncMember",
               "manifest", "writeManifest", "syncManifest", "syncDirectory"}
  /\ Go("failed")
  /\ UNCHANGED <<made, dir, entries, safe, manifest, limits, frames, tail, totals,
                 writing, acked, outcome>>

MakeDirectory ==
  /\ At("mkdir")
  /\ Go("syncParent")
  /\ dir' = "made"
  /\ UNCHANGED <<made, entries, safe, manifest, limits, frames, tail, totals,
                 writing, acked, outcome>>

SyncParent ==
  /\ At("syncParent")
  /\ Go("member")
  /\ dir' = "safe"
  /\ made' = 1
  /\ UNCHANGED <<entries, safe, manifest, limits, frames, tail, totals, writing,
                 acked, outcome>>

\* create_committed_wal_file: the file, its frame, the directory.
CreateMember ==
  /\ At("member")
  /\ Go("bootstrap")
  /\ entries' = entries \cup {made}
  /\ UNCHANGED <<made, dir, safe, manifest, limits, frames, tail, totals, writing,
                 acked, outcome>>

WriteSomeOfBootstrap ==
  /\ At("bootstrap")
  /\ tail[made] = 0
  /\ \E k \in 1 .. Boot[made] - 1 : tail' = [tail EXCEPT ![made] = k]
  /\ UNCHANGED <<creation, limits, frames, totals, writing, acked, outcome>>

CommitBootstrap ==
  /\ At("bootstrap")
  /\ Go("syncMember")
  /\ frames' = [frames EXCEPT ![made] = <<Boot[made]>>]
  /\ tail' = [tail EXCEPT ![made] = 0]
  /\ UNCHANGED <<made, dir, entries, safe, manifest, limits, totals, writing, acked,
                 outcome>>

\* Mutant of AllMade: the manifest is written one member early.
AllMade_Early == made + 1 >= Len(Boot)

AllMade == made = Len(Boot)

SyncMember ==
  /\ At("syncMember")
  /\ safe' = entries
  /\ IF AllMade THEN Go("manifest") /\ UNCHANGED made
                ELSE Go("member") /\ made' = made + 1
  /\ UNCHANGED <<dir, entries, manifest, limits, frames, tail, totals, writing,
                 acked, outcome>>

CreateManifest ==
  /\ At("manifest")
  /\ Go("writeManifest")
  /\ entries' = entries \cup {Manifest}
  /\ UNCHANGED <<made, dir, safe, manifest, limits, frames, tail, totals, writing,
                 acked, outcome>>

WriteManifest ==
  /\ At("writeManifest")
  /\ Go("syncManifest")
  /\ manifest' = "whole"
  /\ UNCHANGED <<made, dir, entries, safe, limits, frames, tail, totals, writing,
                 acked, outcome>>

SyncManifest ==
  /\ At("syncManifest")
  /\ Go("syncDirectory")
  /\ manifest' = "safe"
  /\ UNCHANGED <<made, dir, entries, safe, limits, frames, tail, totals, writing,
                 acked, outcome>>

\* The last sync; the totals start with the bootstraps.
Open ==
  /\ At("syncDirectory")
  /\ Go("open")
  /\ safe' = entries
  /\ bytes' = Total(Boot)
  /\ records' = Len(Boot)
  /\ acked' = [i \in Members |-> 1]
  /\ UNCHANGED <<made, dir, entries, manifest, limits, frames, tail, poisoned,
                 writing, outcome>>

(***************************************************************************)
(* commit_member_record: reserve, write, account or poison.                *)
(***************************************************************************)
Idle == At("open") /\ writing = NoWrite

\* reserve_record, then the member's own limits: a refusal changes nothing.
Reserved(i, size) ==
  /\ poisoned = "no"
  /\ TotalsFit(bytes + size, records + 1, limits)
  /\ MemberFits(i, size, limits)

BeginCommit(i, size) ==
  /\ Idle
  /\ Reserved(i, size)
  /\ writing' = <<i, size>>
  /\ UNCHANGED <<creation, limits, frames, tail, totals, acked, outcome>>

\* Part of the frame is in the file.
WriteSome ==
  /\ writing # NoWrite
  /\ tail[writing[1]] = 0
  /\ \E k \in 1 .. writing[2] - 1 : tail' = [tail EXCEPT ![writing[1]] = k]
  /\ UNCHANGED <<creation, limits, frames, totals, writing, acked, outcome>>

\* The whole frame is in the file.
Complete ==
  /\ frames' = [frames EXCEPT ![writing[1]] = Append(@, writing[2])]
  /\ tail' = [tail EXCEPT ![writing[1]] = 0]

\* Mutant of CommitSucceeds: the shared record count is not kept.
CommitSucceeds_OwnCountOnly ==
  /\ writing # NoWrite
  /\ Complete
  /\ acked' = [acked EXCEPT ![writing[1]] = @ + 1]
  /\ bytes' = bytes + writing[2]
  /\ writing' = NoWrite
  /\ UNCHANGED <<creation, limits, records, poisoned, outcome>>

CommitSucceeds ==
  /\ writing # NoWrite
  /\ Complete
  /\ acked' = [acked EXCEPT ![writing[1]] = @ + 1]
  /\ bytes' = bytes + writing[2]
  /\ records' = records + 1
  /\ writing' = NoWrite
  /\ UNCHANGED <<creation, limits, poisoned, outcome>>

\* A write or a sync failed: the frame is torn, or complete and not
\* acknowledged.  The whole registry is poisoned.
CommitFails ==
  /\ writing # NoWrite
  /\ Complete \/ UNCHANGED <<frames, tail>>
  /\ writing' = NoWrite
  /\ poisoned' = "yes"
  /\ UNCHANGED <<creation, limits, bytes, records, acked, outcome>>

(***************************************************************************)
(* Crash and recovery.                                                     *)
(***************************************************************************)
\* What a crash may leave of member i: a torn frame may get shorter, a frame
\* whose commit failed may be torn, the frame being written may be complete.
Left(i) ==
  {<<frames[i], k>> : k \in 0 .. tail[i]} \cup
  (IF At("open") /\ Len(frames[i]) > acked[i]
   THEN {<<Front(frames[i]), k>> : k \in 0 .. Last(frames[i]) - 1} ELSE {}) \cup
  (IF writing[1] = i THEN {<<Append(frames[i], writing[2]), 0>>} ELSE {})

Crash ==
  /\ stage \notin {"none", "down"}
  /\ Go("down")
  /\ dir' \in IF dir = "made" THEN {"none", "made"} ELSE {dir}
  /\ \E kept \in SUBSET (entries \ safe) : entries' = safe \cup kept
  /\ safe' = entries'
  /\ manifest' \in IF manifest = "whole" THEN {"empty", "whole"} ELSE {manifest}
  /\ \E l \in [Members -> UNION {Left(i) : i \in Members}] :
       /\ \A i \in Members : l[i] \in Left(i)
       /\ frames' = [i \in Members |-> l[i][1]]
       /\ tail' = [i \in Members |-> l[i][2]]
  /\ writing' = NoWrite
  /\ UNCHANGED <<made, limits, totals, acked, outcome>>

\* One member of recover_registry's loop, given what the members before it
\* came to: size limits see the torn tail, record limits do not.
MemberRecovers(i, l) ==
  LET before == [j \in 1 .. i - 1 |-> FileSize(j)]
      seen == Total([j \in 1 .. i - 1 |-> Len(frames[j])])
  IN /\ i \in entries
     /\ TotalsFit(Total(before) + FileSize(i), seen + Len(frames[i]), l)
     /\ FileSize(i) <= l["fileBytes"]
     /\ Len(frames[i]) <= l["records"]
     /\ frames[i] # <<>>

\* recover_registry: the manifest, then every member or nothing.
Recovers(l) ==
  /\ dir # "none"
  /\ Manifest \in entries
  /\ manifest # "empty"
  /\ ManifestSize <= l["manifest"]
  /\ Len(Boot) <= l["tables"]
  /\ \A i \in Members : MemberRecovers(i, l)

Recover(l) ==
  /\ stage \in {"failed", "down"}
  /\ outcome' = IF Recovers(l) THEN [i \in Members |-> Len(frames[i])] ELSE Refused
  /\ UNCHANGED <<creation, limits, frames, tail, totals, writing, acked>>

Init ==
  /\ stage = "none"
  /\ limits \in Limits
  /\ made = 0
  /\ dir = "none"
  /\ entries = {}
  /\ safe = {}
  /\ manifest = "empty"
  /\ frames = [i \in Members |-> <<>>]
  /\ tail = [i \in Members |-> 0]
  /\ bytes = 0
  /\ records = 0
  /\ poisoned = "no"
  /\ writing = NoWrite
  /\ acked = [i \in Members |-> 0]
  /\ outcome = Refused

Next ==
  \/ Create \/ CreateFails \/ MakeDirectory \/ SyncParent
  \/ CreateMember \/ WriteSomeOfBootstrap \/ CommitBootstrap \/ SyncMember
  \/ CreateManifest \/ WriteManifest \/ SyncManifest \/ Open
  \/ \E i \in Members, size \in FrameSizes : BeginCommit(i, size)
  \/ WriteSome \/ CommitSucceeds \/ CommitFails
  \/ Crash
  \/ \E l \in Limits : Recover(l)

Spec == Init /\ [][Next]_vars

(***************************************************************************)
(* Properties.                                                             *)
(***************************************************************************)
\* create_registry has returned Ok.
Acknowledged == \E i \in Members : acked[i] > 0

\* The shared totals are what the files hold, whichever members took the
\* frames and whatever was refused in between, and within the limits.
TotalsExact ==
  Idle /\ poisoned = "no" =>
    /\ bytes = Total([i \in Members |-> FileSize(i)])
    /\ records = Total([i \in Members |-> Len(frames[i])])
    /\ TotalsFit(bytes, records, limits)

\* Recovery is all or nothing, and exact.  The manifest is written last: one on
\* disk names members that are all durable and complete, after a crash at any
\* step of create_registry too.  Under any limits, and after a
\* creation that failed half way, the tables it returns are complete.  Once
\* create_registry has returned Ok, recovery with the same limits never
\* refuses what a crash left: reserve_record counted every byte before it was
\* written, and a failed commit stops all members, so that at most one torn
\* frame is beyond what was counted.  Every table comes back with what was
\* acknowledged, at most one of them with one frame more.
RecoveryIsExact ==
  /\ Manifest \in entries => \A i \in Members : i \in safe /\ frames[i] # <<>>
  /\ outcome # Refused =>
       \A i \in Members :
         /\ outcome[i] >= 1
         /\ outcome[i] \in acked[i] .. acked[i] + 1
  /\ stage = "down" /\ Acknowledged =>
       /\ Recovers(limits)
       /\ \A i \in Members : Len(frames[i]) >= acked[i]
       /\ Total([i \in Members |-> Len(frames[i])]) <= Total(acked) + 1

=============================================================================
