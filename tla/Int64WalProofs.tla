--------------------------- MODULE Int64WalProofs ---------------------------
(***************************************************************************)
(* Theorems about Int64Wal for every set of values, paths and limits.      *)
(*                                                                         *)
(* The first invariant, WalInv, says where every commit stands in its      *)
(* file.  The second, LogInv, says that every file is the log of what it   *)
(* acknowledges with at most one torn record behind; it needs to know      *)
(* which frames the replay loop passes, and so the module goes from the    *)
(* loop (Reaches) over the frame (FrameCells) and what decoding undoes     *)
(* (DecodesLogged) to torn records (TornFrame, ExactFrame) and whole logs  *)
(* (LogSound, LogComplete).  The refinement of DurableTable comes last.    *)
(***************************************************************************)
EXTENDS Int64Wal, TLAPS, SequenceTheorems, WellFoundedInduction

-----------------------------------------------------------------------------
(* Sequences whose element type does not matter. *)

(* A sequence over any set is a sequence. *)
LEMMA SeqIsSeq ==
    ASSUME NEW S, NEW s \in Seq(S)
    PROVE  IsSeq(s)
<1> DEFINE R == {s[i] : i \in DOMAIN s}
<1>1. Len(s) \in Nat /\ DOMAIN s = 1..Len(s) /\ s = [i \in 1..Len(s) |-> s[i]]
  OBVIOUS
<1>2. s \in [1..Len(s) -> R]
  BY <1>1
<1>3. s \in Seq(R)
  BY <1>1, <1>2
<1>4. QED BY <1>3 DEF IsSeq

(* Appending to a file keeps the old cells and adds the lengths. *)
LEMMA ConcatSeq ==
    ASSUME NEW s, NEW t, IsSeq(s), IsSeq(t)
    PROVE  /\ IsSeq(s \o t)
           /\ Len(s \o t) = Len(s) + Len(t)
           /\ \A i \in 1..Len(s) : (s \o t)[i] = s[i]
<1> DEFINE S == {s[i] : i \in DOMAIN s} \cup {t[i] : i \in DOMAIN t}
<1>1. s \in Seq(S) /\ t \in Seq(S)
  BY DEF IsSeq
<1>2. s \o t \in Seq(S)
  BY <1>1
<1>3. Len(s \o t) = Len(s) + Len(t) /\ \A i \in 1..Len(s) : (s \o t)[i] = s[i]
  BY <1>1
<1>4. IsSeq(s \o t)
  BY <1>2, SeqIsSeq
<1>5. QED BY <1>3, <1>4

(* A short write leaves a prefix of what was to be written. *)
LEMMA PrefixSeq ==
    ASSUME NEW s, IsSeq(s), NEW n \in 0..Len(s)
    PROVE  IsSeq(SubSeq(s, 1, n)) /\ Len(SubSeq(s, 1, n)) = n
<1> DEFINE S == {s[i] : i \in DOMAIN s}
<1>1. s \in Seq(S)
  BY DEF IsSeq
<1>2. SubSeq(s, 1, n) \in Seq(S) /\ Len(SubSeq(s, 1, n)) = n
  BY <1>1
<1>3. QED BY <1>2, SeqIsSeq

(* The length of a sequence is a natural number. *)
LEMMA LenNat ==
    ASSUME NEW s, IsSeq(s)
    PROVE  Len(s) \in Nat /\ DOMAIN s = 1..Len(s)
  BY DEF IsSeq

(* A function on an initial segment is such a sequence. *)
LEMMA FunctionSeq ==
    ASSUME NEW n \in Nat, NEW f, DOMAIN f = 1..n, f = [i \in 1..n |-> f[i]]
    PROVE  IsSeq(f) /\ Len(f) = n
<1> DEFINE S == {f[i] : i \in DOMAIN f}
<1>1. f \in [1..n -> S]
  OBVIOUS
<1>2. f \in Seq(S) /\ Len(f) = n
  BY <1>1
<1>3. QED BY <1>2, SeqIsSeq

-----------------------------------------------------------------------------
(* What the encoder writes. *)

(* Every operation the engine logs, and a bootstrap, has a finite payload. *)
LEMMA PayloadIsSeq ==
    ASSUME NEW op,
           \/ op \in Ops
           \/ \E r \in Seq(RowValues) : op = BootstrapOp(r)
    PROVE  IsSeq(EncodePayload(op)) /\ Len(EncodePayload(op)) \in Nat
<1>1. CASE op \in AppendOps
  <2>0. PICK n \in 0..MaxBatch : \E vs \in [1..n -> RowValues] : op = AppendOp(vs)
    BY <1>1 DEF AppendOps
  <2>1. PICK vs \in [1..n -> RowValues] : op = AppendOp(vs)
    BY <2>0
  <2>2. n \in Nat /\ vs \in Seq(RowValues) /\ Len(vs) = n
    BY LimitAssumption
  <2>3. op.kind \in {"append", "nullable_append"} /\ op.values = vs
    BY <2>1 DEF AppendOp
  <2>4. IsSeq(ValueCells(vs))
    <3>1. DOMAIN ValueCells(vs) = 1..n /\ ValueCells(vs) = [i \in 1..n |-> ValueCells(vs)[i]]
      BY <2>2 DEF ValueCells
    <3>2. QED BY <2>2, <3>1, FunctionSeq
  <2>5. IsSeq(<<CountCell(Len(vs))>>)
    BY SeqIsSeq, <<CountCell(Len(vs))>> \in Seq({CountCell(Len(vs))})
  <2>6. EncodePayload(op) = <<CountCell(Len(vs))>> \o ValueCells(vs)
    BY <2>3 DEF EncodePayload
  <2>7. QED BY <2>4, <2>5, <2>6, ConcatSeq, LenNat
<1>2. CASE op = TruncateOp
  <2>1. EncodePayload(op) = << >>
    BY <1>2 DEF TruncateOp, EncodePayload
  <2>2. << >> \in Seq({}) /\ Len(<< >>) \in Nat
    OBVIOUS
  <2>3. QED BY <2>1, <2>2, SeqIsSeq
<1>3. CASE op \in ReplaceOps
  <2>0. PICK n \in 0..MaxBatch :
            \E rs \in [1..n -> [row : 0..RowCap - 1, value : RowValues]] :
                op = ReplaceOp(rs)
    BY <1>3 DEF ReplaceOps
  <2>1. PICK rs \in [1..n -> [row : 0..RowCap - 1, value : RowValues]] :
            op = ReplaceOp(rs)
    BY <2>0
  <2>2. n \in Nat /\ Len(rs) = n
    <3> DEFINE R == [row : 0..RowCap - 1, value : RowValues]
    <3>1. n \in Nat /\ rs \in [1..n -> R]
      BY LimitAssumption
    <3> HIDE DEF R
    <3>2. QED BY <3>1
  <2>3. op.kind \in {"replace", "nullable_replace"} /\ op.replacements = rs
    BY <2>1 DEF ReplaceOp
  <2>4. IsSeq(ReplacementCells(rs))
    <3>1. 2 * n \in Nat
      BY <2>2
    <3>2. /\ DOMAIN ReplacementCells(rs) = 1..(2 * n)
          /\ ReplacementCells(rs) = [i \in 1..(2 * n) |-> ReplacementCells(rs)[i]]
      BY <2>2 DEF ReplacementCells
    <3>3. QED BY <3>1, <3>2, FunctionSeq
  <2>5. IsSeq(<<CountCell(Len(rs))>>)
    BY SeqIsSeq, <<CountCell(Len(rs))>> \in Seq({CountCell(Len(rs))})
  <2>6. EncodePayload(op) = <<CountCell(Len(rs))>> \o ReplacementCells(rs)
    BY <2>3 DEF EncodePayload
  <2>7. QED BY <2>4, <2>5, <2>6, ConcatSeq, LenNat
<1>4. ASSUME NEW r \in Seq(RowValues), op = BootstrapOp(r)
      PROVE  IsSeq(EncodePayload(op)) /\ Len(EncodePayload(op)) \in Nat
  <2>1. op.kind = "bootstrap" /\ op.values = r
    BY <1>4 DEF BootstrapOp
  <2>2. IsSeq(ValueCells(r))
    <3>1. DOMAIN r = 1..Len(r) /\ Len(r) \in Nat
      OBVIOUS
    <3>2. /\ DOMAIN ValueCells(r) = 1..Len(r)
          /\ ValueCells(r) = [i \in 1..Len(r) |-> ValueCells(r)[i]]
      BY <3>1 DEF ValueCells
    <3>3. QED BY <3>1, <3>2, FunctionSeq
  <2>3. IsSeq(<<SettingsCell, CountCell(Len(r))>>)
    BY SeqIsSeq,
       <<SettingsCell, CountCell(Len(r))>> \in Seq({SettingsCell, CountCell(Len(r))})
  <2>4. EncodePayload(op) = <<SettingsCell, CountCell(Len(r))>> \o ValueCells(r)
    BY <2>1 DEF EncodePayload
  <2>5. QED BY <2>2, <2>3, <2>4, ConcatSeq, LenNat
<1>5. QED BY <1>1, <1>2, <1>3, <1>4 DEF Ops

(* A frame is a header of two cells, the payload and a footer of two cells. *)
LEMMA FrameIsSeq ==
    ASSUME NEW op, NEW n, IsSeq(EncodePayload(op))
    PROVE  /\ IsSeq(EncodeBody(op, n))
           /\ Len(EncodeBody(op, n)) = HeaderLen + Len(EncodePayload(op))
           /\ IsSeq(EncodeFooter(n))
           /\ Len(EncodeFooter(n)) = CommitLen
<1> DEFINE h == HeaderCells(op.kind, n, EncodePayload(op))
<1>1. IsSeq(h) /\ Len(h) = 2
  <2>1. h = <<h[1], h[2]>>
    BY DEF HeaderCells
  <2>2. <<h[1], h[2]>> \in Seq({h[1], h[2]}) /\ Len(<<h[1], h[2]>>) = 2
    OBVIOUS
  <2>3. QED BY <2>1, <2>2, SeqIsSeq
<1>2. IsSeq(EncodeFooter(n)) /\ Len(EncodeFooter(n)) = 2
  <2> DEFINE f == EncodeFooter(n)
  <2>1. f = <<f[1], f[2]>>
    BY DEF EncodeFooter
  <2>2. <<f[1], f[2]>> \in Seq({f[1], f[2]}) /\ Len(<<f[1], f[2]>>) = 2
    OBVIOUS
  <2>3. QED BY <2>1, <2>2, SeqIsSeq
<1>3. EncodeBody(op, n) = h \o EncodePayload(op)
  BY DEF EncodeBody
<1>4. IsSeq(h \o EncodePayload(op)) /\ Len(h \o EncodePayload(op)) = Len(h) + Len(EncodePayload(op))
  <2> HIDE DEF h
  <2>1. QED BY <1>1, ConcatSeq
<1>5. QED BY <1>1, <1>2, <1>3, <1>4 DEF HeaderLen, CommitLen

-----------------------------------------------------------------------------
(* What an accepted operation does to the rows. *)

(* An accepted append, truncation or replacement leaves rows that fit the
   table. *)
LEMMA ApplyType ==
    ASSUME NEW r \in Seq(RowValues), Len(r) <= RowCap, NEW op \in Ops, Accepts(op, r)
    PROVE  Apply(op, r) \in Seq(RowValues) /\ Len(Apply(op, r)) <= RowCap
<1>1. CASE op \in AppendOps
  <2>0. PICK n \in 0..MaxBatch : \E vs \in [1..n -> RowValues] : op = AppendOp(vs)
    BY <1>1 DEF AppendOps
  <2>1. PICK vs \in [1..n -> RowValues] : op = AppendOp(vs)
    BY <2>0
  <2>2. n \in Nat /\ vs \in Seq(RowValues)
    BY LimitAssumption
  <2>3. op.kind \in {"append", "nullable_append"} /\ op.values = vs
    BY <2>1 DEF AppendOp
  <2>4. Apply(op, r) = r \o vs /\ Len(r) + Len(vs) <= RowCap
    BY <2>3 DEF Apply, Accepts
  <2>5. QED BY <2>2, <2>4
<1>2. CASE op = TruncateOp
  <2>1. Apply(op, r) = << >>
    BY <1>2 DEF TruncateOp, Apply
  <2>2. QED BY <2>1, LimitAssumption
<1>3. CASE op \in ReplaceOps
  <2>0. PICK n \in 0..MaxBatch :
            \E rs \in [1..n -> [row : 0..RowCap - 1, value : RowValues]] :
                op = ReplaceOp(rs)
    BY <1>3 DEF ReplaceOps
  <2>1. PICK rs \in [1..n -> [row : 0..RowCap - 1, value : RowValues]] :
            op = ReplaceOp(rs)
    BY <2>0
  <2>2. op.kind \in {"replace", "nullable_replace"} /\ op.replacements = rs
    BY <2>1 DEF ReplaceOp
  <2>3. Apply(op, r) = ReplaceRows(r, rs)
    BY <2>2 DEF Apply
  <2>4. DOMAIN r = 1..Len(r) /\ Len(r) \in Nat
    OBVIOUS
  <2>5. ASSUME NEW i \in 1..Len(r) PROVE ReplaceRows(r, rs)[i] \in RowValues
    <3>1. CASE \E k \in DOMAIN rs : rs[k].row + 1 = i
      <4> DEFINE c == CHOOSE k \in DOMAIN rs : rs[k].row + 1 = i
      <4>1. c \in DOMAIN rs
        BY <3>1
      <4>2. ReplaceRows(r, rs)[i] = rs[c].value
        BY <2>4, <2>5, <3>1 DEF ReplaceRows
      <4>3. QED BY <4>1, <4>2
    <3>2. CASE ~ \E k \in DOMAIN rs : rs[k].row + 1 = i
      BY <2>4, <2>5, <3>2 DEF ReplaceRows
    <3>3. QED BY <3>1, <3>2
  <2>6. ReplaceRows(r, rs) \in [1..Len(r) -> RowValues]
    BY <2>4, <2>5 DEF ReplaceRows
  <2>7. QED BY <2>3, <2>4, <2>6
<1>4. QED BY <1>1, <1>2, <1>3 DEF Ops

-----------------------------------------------------------------------------
(* The inductive invariant. *)

WalInv == TypeOK /\ CommitProgress

(* No file exists and no writer is attached. *)
LEMMA InitInv == Init => WalInv
<1> SUFFICES ASSUME Init PROVE WalInv
  OBVIOUS
<1>1. rows \in Seq(RowValues) /\ Len(rows) <= RowCap
  <2>1. PICK n \in 0..RowCap : rows \in [1..n -> RowValues]
    BY DEF Init, RowsType
  <2>2. QED BY <2>1, LimitAssumption
<1>2. IsSeq(<< >>)
  BY SeqIsSeq, << >> \in Seq({})
<1>3. FileTypeOK(NoFile)
  BY <1>2 DEF FileTypeOK, NoFile
<1>4. TypeOK
  BY <1>1, <1>3 DEF Init, TypeOK, NoWal
<1>5. CommitProgress
  BY LimitAssumption
     DEF Init, CommitProgress, FilesBounded, WriterConsistent, RecordFits, NoWal, NoFile
<1>6. QED BY <1>4, <1>5 DEF WalInv

(* The record being committed is well formed at every program point. *)
LEMMA PendingFrame ==
    ASSUME WalInv, pc # "idle"
    PROVE  /\ wal.mode \in {"creating", "ready"}
           /\ wal.path \in Paths /\ wal.file_bytes \in Nat /\ wal.records \in Nat
           /\ Len(EncodePayload(pending)) \in Nat
           /\ IsSeq(Body) /\ Len(Body) = HeaderLen + Len(EncodePayload(pending))
           /\ IsSeq(Footer) /\ Len(Footer) = CommitLen
<1>1. /\ wal.mode \in {"creating", "ready"}
      /\ wal.path \in Paths /\ wal.file_bytes \in Nat /\ wal.records \in Nat
  BY DEF WalInv, TypeOK, NoWal
<1>2. pending \in Ops \/ \E r \in Seq(RowValues) : pending = BootstrapOp(r)
  BY DEF WalInv, TypeOK
<1>3. IsSeq(EncodePayload(pending)) /\ Len(EncodePayload(pending)) \in Nat
  BY <1>2, PayloadIsSeq
<1>4. QED BY <1>1, <1>3, FrameIsSeq DEF Body, Footer

(* The synced and acknowledged parts of a file lie within its cells. *)
LEMMA FileShape ==
    ASSUME WalInv, NEW p \in Paths
    PROVE  /\ FileTypeOK(files[p])
           /\ IsSeq(files[p].cells) /\ Len(files[p].cells) \in Nat
           /\ files[p].synced \in Nat /\ files[p].acked \in Nat
           /\ files[p].acked <= files[p].synced
           /\ files[p].synced <= Len(files[p].cells)
<1>1. FileTypeOK(files[p])
  BY DEF WalInv, TypeOK
<1>2. IsSeq(files[p].cells) /\ Len(files[p].cells) \in Nat
  BY <1>1, LenNat DEF FileTypeOK
<1>3. QED BY <1>1, <1>2 DEF FileTypeOK

(* A step that rewrites one file to a well-formed one keeps all well formed. *)
OnlyFile(p, f) ==
    /\ files' = [q \in Paths |-> files'[q]]
    /\ files'[p] = f
    /\ \A q \in Paths \ {p} : files'[q] = files[q]
    /\ \A q \in Paths : FileTypeOK(files'[q])

(* A step that assigns one file changes no other. *)
LEMMA OneFile ==
    ASSUME WalInv, NEW p \in Paths, NEW f, FileTypeOK(f),
           files' = [files EXCEPT ![p] = f]
    PROVE  OnlyFile(p, f)
  BY DEF WalInv, TypeOK, OnlyFile

(* A write to a file assigns its cells only. *)
LEMMA ExceptCells ==
    ASSUME NEW g, FileTypeOK(g), NEW c
    PROVE  [g EXCEPT !.cells = c] = [entry |-> g.entry, cells |-> c,
                                     synced |-> g.synced, acked |-> g.acked]
  BY DEF FileTypeOK

(* A write of any well-formed data to one file. *)
Extended(p, data) ==
    [entry |-> files[p].entry, cells |-> files[p].cells \o data,
     synced |-> files[p].synced, acked |-> files[p].acked]

(* A write keeps the cells that were there. *)
LEMMA WriteFile ==
    ASSUME WalInv, NEW p \in Paths, NEW data, IsSeq(data),
           files' = [files EXCEPT ![p].cells = @ \o data]
    PROVE  /\ OnlyFile(p, Extended(p, data))
           /\ Len(files'[p].cells) = Len(files[p].cells) + Len(data)
           /\ \A i \in 1..Len(files[p].cells) : files'[p].cells[i] = files[p].cells[i]
<1>1. /\ IsSeq(files[p].cells \o data)
      /\ Len(files[p].cells \o data) = Len(files[p].cells) + Len(data)
      /\ \A i \in 1..Len(files[p].cells) :
            (files[p].cells \o data)[i] = files[p].cells[i]
  BY ConcatSeq, FileShape
<1>2. files' = [files EXCEPT ![p] = [files[p] EXCEPT !.cells = files[p].cells \o data]]
  OBVIOUS
<1>3. [files[p] EXCEPT !.cells = files[p].cells \o data] = Extended(p, data)
  BY FileShape, ExceptCells DEF Extended
<1>4. FileTypeOK(Extended(p, data))
  BY <1>1, FileShape, LenNat DEF FileTypeOK, Extended
<1>5. OnlyFile(p, Extended(p, data))
  BY <1>2, <1>3, <1>4, OneFile
<1>6. files'[p].cells = files[p].cells \o data
  BY <1>5 DEF OnlyFile, Extended
<1>7. QED BY <1>1, <1>5, <1>6

(* The parts of the invariant. *)
LEMMA InvParts ==
    ASSUME WalInv PROVE TypeOK /\ FilesBounded /\ WriterConsistent /\ RecordFits
  BY DEF WalInv, CommitProgress

(* The header and payload are written: they fit the limit checked before. *)
LEMMA WriteBodyInv == WalInv /\ WriteBody => WalInv'
<1> SUFFICES ASSUME WalInv, WriteBody PROVE WalInv'
  OBVIOUS
<1> DEFINE p == wal.path
           len == Len(EncodePayload(pending))
<1>0. TypeOK /\ FilesBounded /\ WriterConsistent /\ RecordFits
  BY InvParts
<1>1. /\ pc = "write_body" /\ p \in Paths
      /\ wal.file_bytes \in Nat /\ len \in Nat /\ wal.mode # "none"
      /\ IsSeq(Body) /\ Len(Body) = HeaderLen + len
  BY PendingFrame DEF WriteBody
<1>2. /\ OnlyFile(p, Extended(p, Body))
      /\ Len(files'[p].cells) = Len(files[p].cells) + Len(Body)
  BY <1>1, WriteFile DEF WriteBody
<1>3. TypeOK'
  BY <1>0, <1>1, <1>2 DEF WriteBody, TypeOK, OnlyFile
<1>4. /\ Len(files[p].cells) = wal.file_bytes
      /\ wal.file_bytes + FrameOverhead + len <= MaxFileBytes
  BY <1>0, <1>1 DEF RecordFits, TheFile, Written, FrameLen, FrameOverhead, HeaderLen, CommitLen
<1>5. Len(files'[p].cells) = wal.file_bytes + (HeaderLen + len)
  BY <1>1, <1>2, <1>4
<1>6. FilesBounded'
  <2>1. Len(files'[p].cells) <= MaxFileBytes
    BY SMTT(60), <1>1, <1>4, <1>5, LimitAssumption DEF FrameOverhead, HeaderLen, CommitLen
  <2>2. files'[p].entry = files[p].entry /\ files'[p].acked = files[p].acked
    BY <1>2 DEF OnlyFile, Extended
  <2>3. files[p].entry # "absent"
    BY <1>0, <1>1 DEF WriterConsistent, TheFile
  <2>4. QED BY <1>0, <1>2, <2>1, <2>2, <2>3 DEF FilesBounded, OnlyFile
<1>7. WriterConsistent'
  BY <1>0, <1>1, <1>2 DEF WriteBody, WriterConsistent, OnlyFile, Extended, TheFile
<1>8. RecordFits'
  BY <1>0, <1>1, <1>4, <1>5 DEF WriteBody, RecordFits, TheFile, Written, FrameLen
<1>9. QED BY <1>3, <1>6, <1>7, <1>8 DEF WalInv, CommitProgress

(* The footer is written: the frame fits the limit as a whole. *)
LEMMA WriteFooterInv == WalInv /\ WriteFooter => WalInv'
<1> SUFFICES ASSUME WalInv, WriteFooter PROVE WalInv'
  OBVIOUS
<1> DEFINE p == wal.path
           len == Len(EncodePayload(pending))
<1>0. TypeOK /\ FilesBounded /\ WriterConsistent /\ RecordFits
  BY InvParts
<1>1. /\ pc = "write_footer" /\ p \in Paths
      /\ wal.file_bytes \in Nat /\ len \in Nat /\ wal.mode # "none"
      /\ IsSeq(Footer) /\ Len(Footer) = CommitLen
  BY PendingFrame DEF WriteFooter
<1>2. /\ OnlyFile(p, Extended(p, Footer))
      /\ Len(files'[p].cells) = Len(files[p].cells) + Len(Footer)
  BY <1>1, WriteFile DEF WriteFooter
<1>3. TypeOK'
  BY <1>0, <1>1, <1>2 DEF WriteFooter, TypeOK, OnlyFile
<1>4. /\ Len(files[p].cells) = wal.file_bytes + (HeaderLen + len)
      /\ wal.file_bytes + FrameLen <= MaxFileBytes
  BY <1>0, <1>1 DEF RecordFits, TheFile, Written
<1>5. Len(files'[p].cells) = wal.file_bytes + FrameLen
  <2>1. Len(files'[p].cells) = (wal.file_bytes + (HeaderLen + len)) + CommitLen
    BY <1>1, <1>2, <1>4
  <2>2. (wal.file_bytes + (HeaderLen + len)) + CommitLen = wal.file_bytes + FrameLen
    BY <1>1 DEF FrameLen, FrameOverhead, HeaderLen, CommitLen
  <2>3. QED BY <2>1, <2>2
<1>6. FilesBounded'
  <2>1. Len(files'[p].cells) <= MaxFileBytes
    BY <1>4, <1>5
  <2>2. files'[p].entry = files[p].entry /\ files'[p].acked = files[p].acked
    BY <1>2 DEF OnlyFile, Extended
  <2>3. files[p].entry # "absent"
    BY SMTT(60), <1>0, <1>1 DEF WriterConsistent, TheFile
  <2>4. QED BY <1>0, <1>2, <2>1, <2>2, <2>3 DEF FilesBounded, OnlyFile
<1>7. WriterConsistent'
  BY <1>0, <1>1, <1>2 DEF WriteFooter, WriterConsistent, OnlyFile, Extended, TheFile
<1>8. RecordFits'
  BY <1>0, <1>1, <1>4, <1>5 DEF WriteFooter, RecordFits, TheFile, Written, FrameLen
<1>9. QED BY <1>3, <1>6, <1>7, <1>8 DEF WalInv, CommitProgress

(* A sync of the whole file, with what it acknowledges. *)
Synced(p, entry, acked) ==
    [entry |-> entry, cells |-> files[p].cells, synced |-> Len(files[p].cells),
     acked |-> acked]

(* A sync that names cells of the file keeps it well formed. *)
LEMMA SyncedType ==
    ASSUME WalInv, NEW p \in Paths, NEW e \in {"created", "durable"},
           NEW a \in {files[p].acked, Len(files[p].cells)}
    PROVE  FileTypeOK(Synced(p, e, a))
<1>1. files[p].acked <= Len(files[p].cells) /\ files[p].acked \in Nat
  BY FileShape
<1>2. QED BY <1>1, FileShape DEF FileTypeOK, Synced

(* A sync of one file changes no cell of any. *)
LEMMA SyncOnly ==
    ASSUME WalInv, NEW p \in Paths, files[p].entry # "absent",
           files' = [files EXCEPT ![p].synced = Len(files[p].cells)]
    PROVE  OnlyFile(p, Synced(p, files[p].entry, files[p].acked))
<1>1. files' = [files EXCEPT ![p] = [files[p] EXCEPT !.synced = Len(files[p].cells)]]
  OBVIOUS
<1>2. FileTypeOK(files[p])
  BY FileShape
<1>3. ASSUME NEW g, FileTypeOK(g), NEW n
      PROVE  [g EXCEPT !.synced = n]
               = [entry |-> g.entry, cells |-> g.cells, synced |-> n, acked |-> g.acked]
  BY <1>3 DEF FileTypeOK
<1>4. [files[p] EXCEPT !.synced = Len(files[p].cells)]
        = Synced(p, files[p].entry, files[p].acked)
  BY <1>2, <1>3 DEF Synced
<1>5. files[p].entry \in {"created", "durable"}
  BY <1>2 DEF FileTypeOK
<1>6. FileTypeOK(Synced(p, files[p].entry, files[p].acked))
  BY <1>5, SyncedType
<1>7. QED BY <1>1, <1>4, <1>6, OneFile

(* The syncs in the middle of a commit. *)
LEMMA SyncBodyInv == WalInv /\ (SyncBody \/ SyncBootstrapFooter) => WalInv'
<1> SUFFICES ASSUME WalInv, SyncBody \/ SyncBootstrapFooter PROVE WalInv'
  OBVIOUS
<1> DEFINE p == wal.path
<1>0. TypeOK /\ FilesBounded /\ WriterConsistent /\ RecordFits
  BY InvParts
<1>1. /\ pc \in {"sync_body", "sync_footer"} /\ p \in Paths /\ wal.mode # "none"
  BY PendingFrame DEF SyncBody, SyncBootstrapFooter
<1>2. files[p].entry # "absent"
  BY <1>0, <1>1 DEF WriterConsistent, TheFile
<1>3. OnlyFile(p, Synced(p, files[p].entry, files[p].acked))
  BY <1>1, <1>2, SyncOnly DEF SyncBody, SyncBootstrapFooter, TheFile
<1>4. /\ files'[p].entry = files[p].entry /\ files'[p].acked = files[p].acked
      /\ files'[p].cells = files[p].cells /\ files'[p].synced = Len(files[p].cells)
  BY <1>3 DEF OnlyFile, Synced
<1>5. TypeOK'
  BY <1>0, <1>1, <1>3 DEF SyncBody, SyncBootstrapFooter, TypeOK, OnlyFile
<1>6. FilesBounded'
  BY <1>0, <1>1, <1>2, <1>3, <1>4 DEF FilesBounded, OnlyFile
<1>7. WriterConsistent'
  BY <1>0, <1>1, <1>4 DEF SyncBody, SyncBootstrapFooter, WriterConsistent, TheFile
<1>8. RecordFits'
  BY <1>0, <1>1, <1>4
     DEF SyncBody, SyncBootstrapFooter, RecordFits, TheFile, Written, FrameLen
<1>9. QED BY <1>5, <1>6, <1>7, <1>8 DEF WalInv, CommitProgress

(* The acknowledgement of a mutation: the counters follow the file. *)
LEMMA SyncFooterInv == WalInv /\ SyncFooter => WalInv'
<1> SUFFICES ASSUME WalInv, SyncFooter PROVE WalInv'
  OBVIOUS
<1> DEFINE p == wal.path
           n == Len(files[p].cells)
           new == Apply(pending, rows)
<1>0. TypeOK /\ FilesBounded /\ WriterConsistent /\ RecordFits
  BY InvParts
<1>1. /\ pc = "sync_footer" /\ wal.mode = "ready" /\ p \in Paths
      /\ wal.file_bytes \in Nat /\ wal.records \in Nat
      /\ Len(EncodePayload(pending)) \in Nat
  BY PendingFrame DEF SyncFooter, FinishCommit
<1>2. files[p].entry = "durable"
  BY <1>0, <1>1 DEF WriterConsistent, TheFile
<1>3. OnlyFile(p, Synced(p, "durable", n))
  <2>1. files' = [files EXCEPT ![p] = Synced(p, "durable", n)]
    BY <1>2 DEF SyncFooter, FinishCommit, TheFile, Synced
  <2>2. QED BY <1>1, <2>1, SyncedType, OneFile
<1>4. /\ files'[p].entry = "durable" /\ files'[p].acked = n
      /\ files'[p].cells = files[p].cells /\ files'[p].synced = n
  BY <1>3 DEF OnlyFile, Synced
<1>5. wal' = [mode |-> "ready", path |-> p, file_bytes |-> wal.file_bytes + FrameLen,
              records |-> wal.records + 1]
  <2>1. wal \in [mode : {"creating", "ready", "poisoned"}, path : Paths,
                 file_bytes : Nat, records : Nat]
    BY <1>0, <1>1 DEF TypeOK, NoWal
  <2>2. wal' = [wal EXCEPT !.file_bytes = wal.file_bytes + FrameLen,
                           !.records = wal.records + 1]
    BY DEF SyncFooter, FinishCommit
  <2>3. QED BY <1>1, <2>1, <2>2
<1>6. n = wal.file_bytes + FrameLen /\ wal.records + 1 <= MaxRecords
  BY <1>0, <1>1 DEF RecordFits, TheFile, Written
<1>7. new \in Seq(RowValues) /\ Len(new) <= RowCap
  BY <1>0, <1>1, ApplyType DEF TypeOK
<1>8. FrameLen \in Nat
  BY <1>1 DEF FrameLen, FrameOverhead, HeaderLen, CommitLen
<1>9. /\ pc' = "idle" /\ pending' = NoOp /\ rows' = new /\ up' = up
      /\ promised' = [promised EXCEPT ![p] = SomeRows(new)]
      /\ indoubt' = [indoubt EXCEPT ![p] = NoRows]
  BY DEF SyncFooter, FinishCommit, Acknowledge
<1>10. promised'[p] = SomeRows(new) /\ promised' = [q \in Paths |-> promised'[q]]
       /\ indoubt' = [q \in Paths |-> indoubt'[q]]
  BY <1>0, <1>1, <1>9 DEF TypeOK
<1>11. TypeOK'
  BY <1>0, <1>1, <1>3, <1>5, <1>7, <1>8, <1>9, <1>10 DEF TypeOK, OnlyFile
<1>12. FilesBounded'
  BY <1>0, <1>3, <1>4 DEF FilesBounded, OnlyFile
<1>13. WriterConsistent'
  <2>1. up'
    BY <1>0, <1>1, <1>9 DEF TypeOK
  <2>2. QED BY <1>4, <1>5, <1>6, <1>9, <1>10, <2>1 DEF WriterConsistent, TheFile
<1>14. RecordFits'
  BY <1>9 DEF RecordFits
<1>15. QED BY <1>11, <1>12, <1>13, <1>14 DEF WalInv, CommitProgress

(* The acknowledgement of the bootstrap: the writer is handed out. *)
LEMMA SyncParentInv == WalInv /\ SyncParent => WalInv'
<1> SUFFICES ASSUME WalInv, SyncParent PROVE WalInv'
  OBVIOUS
<1> DEFINE p == wal.path
           n == Len(files[p].cells)
<1>0. TypeOK /\ FilesBounded /\ WriterConsistent /\ RecordFits
  BY InvParts
<1>1. /\ pc = "sync_parent" /\ p \in Paths /\ Len(EncodePayload(pending)) \in Nat
  BY PendingFrame DEF SyncParent, FinishCreate
<1>2. wal.mode = "creating" /\ wal.file_bytes = 0 /\ wal.records = 0
  BY <1>0, <1>1, PendingFrame DEF WriterConsistent
<1>3. /\ FrameLen \in Nat
      /\ n = FrameLen /\ 1 <= MaxRecords /\ files[p].synced = n
  <2>1. FrameLen \in Nat
    BY <1>1 DEF FrameLen, FrameOverhead, HeaderLen, CommitLen
  <2>2. n = 0 + FrameLen /\ 0 + 1 <= MaxRecords /\ files[p].synced = n
    BY <1>0, <1>1, <1>2 DEF RecordFits, TheFile, Written
  <2>3. QED BY <2>1, <2>2
<1>4. OnlyFile(p, Synced(p, "durable", n))
  <2>1. files' = [files EXCEPT ![p] = Synced(p, "durable", n)]
    BY <1>3 DEF SyncParent, FinishCreate, TheFile, Synced
  <2>2. QED BY <1>1, <2>1, SyncedType, OneFile
<1>5. /\ files'[p].entry = "durable" /\ files'[p].acked = n
      /\ files'[p].cells = files[p].cells /\ files'[p].synced = n
  BY <1>4 DEF OnlyFile, Synced
<1>6. wal' = [mode |-> "ready", path |-> p, file_bytes |-> FrameLen, records |-> 1]
  BY DEF SyncParent, FinishCreate, Writer
<1>7. /\ pc' = "idle" /\ pending' = NoOp /\ rows' = rows /\ up' = up
      /\ promised' = [promised EXCEPT ![p] = SomeRows(rows)]
      /\ indoubt' = [indoubt EXCEPT ![p] = NoRows]
  BY DEF SyncParent, FinishCreate, Acknowledge
<1>8. promised'[p] = SomeRows(rows) /\ promised' = [q \in Paths |-> promised'[q]]
       /\ indoubt' = [q \in Paths |-> indoubt'[q]]
  BY <1>0, <1>1, <1>7 DEF TypeOK
<1>9. TypeOK'
  BY <1>0, <1>1, <1>3, <1>4, <1>6, <1>7, <1>8 DEF TypeOK, OnlyFile
<1>10. FilesBounded'
  BY <1>0, <1>4, <1>5 DEF FilesBounded, OnlyFile
<1>11. WriterConsistent'
  <2>1. up'
    BY <1>0, <1>1, <1>7 DEF TypeOK
  <2>2. QED BY <1>3, <1>5, <1>6, <1>7, <1>8, <2>1 DEF WriterConsistent, TheFile
<1>12. RecordFits'
  BY <1>7 DEF RecordFits
<1>13. QED BY <1>9, <1>10, <1>11, <1>12 DEF WalInv, CommitProgress

(* A short write ends the commit with a prefix of its data in the file. *)
LEMMA WriteFailsInv == WalInv /\ WriteFails => WalInv'
<1> SUFFICES ASSUME WalInv, WriteFails PROVE WalInv'
  OBVIOUS
<1> DEFINE p == wal.path
           len == Len(EncodePayload(pending))
           data == IF pc = "write_body" THEN Body ELSE Footer
<1>0. TypeOK /\ FilesBounded /\ WriterConsistent /\ RecordFits
  BY InvParts
<1>1. /\ pc \in {"write_body", "write_footer"} /\ p \in Paths
      /\ wal.file_bytes \in Nat /\ len \in Nat /\ wal.mode \in {"creating", "ready"}
      /\ IsSeq(Body) /\ Len(Body) = HeaderLen + len
      /\ IsSeq(Footer) /\ Len(Footer) = CommitLen
  BY PendingFrame DEF WriteFails
<1>2. IsSeq(data) /\ Len(data) \in Nat
  BY <1>1 DEF HeaderLen, CommitLen
<1>3. PICK k \in 0..Len(data) - 1 :
        files' = [files EXCEPT ![p].cells = @ \o SubSeq(data, 1, k)]
  BY DEF WriteFails
<1>4. IsSeq(SubSeq(data, 1, k)) /\ Len(SubSeq(data, 1, k)) = k
  <2> HIDE DEF data
  <2>1. k \in 0..Len(data)
    BY <1>2
  <2>2. QED BY <1>2, <2>1, PrefixSeq
<1>5. /\ OnlyFile(p, Extended(p, SubSeq(data, 1, k)))
      /\ Len(files'[p].cells) = Len(files[p].cells) + k
  <2> HIDE DEF data
  <2>1. QED BY <1>1, <1>3, <1>4, WriteFile
<1>6. /\ Len(files[p].cells) = wal.file_bytes + Written
      /\ wal.file_bytes + FrameLen <= MaxFileBytes
  BY <1>0, <1>1 DEF RecordFits, TheFile
<1>7. Len(files'[p].cells) <= MaxFileBytes
  <2>1. CASE pc = "write_body"
    <3>1. k \in Nat /\ k < HeaderLen + len
      BY <1>1, <2>1 DEF HeaderLen
    <3>2. Len(files'[p].cells) = (wal.file_bytes + 0) + k
      BY <1>5, <1>6, <2>1 DEF Written
    <3>3. QED BY <1>1, <1>6, <3>1, <3>2, LimitAssumption
              DEF FrameLen, FrameOverhead, HeaderLen, CommitLen
  <2>2. CASE pc = "write_footer"
    <3>1. k \in Nat /\ k < CommitLen
      BY <1>1, <2>2 DEF CommitLen
    <3>2. Len(files'[p].cells) = (wal.file_bytes + (HeaderLen + len)) + k
      BY <1>5, <1>6, <2>2 DEF Written
    <3>3. QED BY <1>1, <1>6, <3>1, <3>2, LimitAssumption
              DEF FrameLen, FrameOverhead, HeaderLen, CommitLen
  <2>3. QED BY <1>1, <2>1, <2>2
<1>8. /\ files'[p].entry = files[p].entry /\ files'[p].acked = files[p].acked
      /\ files[p].entry # "absent"
  BY <1>0, <1>1, <1>5 DEF OnlyFile, Extended, WriterConsistent, TheFile
<1>9. FilesBounded'
  BY <1>0, <1>5, <1>7, <1>8 DEF FilesBounded, OnlyFile
<1>10. /\ pc' = "idle" /\ pending' = NoOp /\ up' = up /\ rows' = rows
       /\ promised' = promised /\ indoubt' = indoubt
       /\ wal' = IF wal.mode = "creating" THEN NoWal ELSE [wal EXCEPT !.mode = "poisoned"]
  BY DEF WriteFails, Poison
<1>11. TypeOK'
  <2>1. \/ wal' = NoWal
        \/ wal' \in [mode : {"creating", "ready", "poisoned"}, path : Paths,
                     file_bytes : Nat, records : Nat]
    <3>1. wal \in [mode : {"creating", "ready", "poisoned"}, path : Paths,
                   file_bytes : Nat, records : Nat]
      BY <1>0, <1>1 DEF TypeOK, NoWal
    <3>2. QED BY <1>10, <3>1
  <2>2. QED BY <1>0, <1>5, <1>10, <2>1 DEF TypeOK, OnlyFile
<1>12. WriterConsistent'
  <2>1. CASE wal.mode = "creating"
    BY <1>10, <2>1 DEF WriterConsistent, NoWal
  <2>2. CASE wal.mode = "ready"
    <3>1. wal' = [mode |-> "poisoned", path |-> p, file_bytes |-> wal.file_bytes,
                  records |-> wal.records]
      BY <1>0, <1>10, <2>2 DEF TypeOK, NoWal
    <3>2. up'
      BY <1>0, <1>1, <1>10 DEF TypeOK
    <3>3. QED BY <1>0, <1>8, <1>10, <2>2, <3>1, <3>2 DEF WriterConsistent, TheFile
  <2>3. QED BY <1>1, <2>1, <2>2
<1>13. RecordFits'
  BY <1>10 DEF RecordFits
<1>14. QED BY <1>9, <1>11, <1>12, <1>13 DEF WalInv, CommitProgress

(* A failed sync ends the commit. *)
LEMMA SyncFailsInv == WalInv /\ SyncFails => WalInv'
<1> SUFFICES ASSUME WalInv, SyncFails PROVE WalInv'
  OBVIOUS
<1>0. TypeOK /\ FilesBounded /\ WriterConsistent /\ RecordFits
  BY InvParts
<1>1. pc # "idle" /\ wal.mode \in {"creating", "ready"}
  BY PendingFrame DEF SyncFails
<1>2. /\ pc' = "idle" /\ pending' = NoOp /\ up' = up /\ rows' = rows /\ files' = files
      /\ promised' = promised /\ indoubt' = indoubt
      /\ wal' = IF wal.mode = "creating" THEN NoWal ELSE [wal EXCEPT !.mode = "poisoned"]
  BY DEF SyncFails, Poison
<1>3. TypeOK'
  BY <1>0, <1>1, <1>2 DEF TypeOK, NoWal
<1>4. FilesBounded'
  BY <1>0, <1>2 DEF FilesBounded
<1>5. WriterConsistent'
  <2>1. CASE wal.mode = "creating"
    BY <1>2, <2>1 DEF WriterConsistent, NoWal
  <2>2. CASE wal.mode = "ready"
    <3>1. wal' = [mode |-> "poisoned", path |-> wal.path, file_bytes |-> wal.file_bytes,
                  records |-> wal.records]
      BY <1>0, <1>2, <2>2 DEF TypeOK, NoWal
    <3>2. up'
      BY <1>0, <1>1, <1>2 DEF TypeOK
    <3>3. QED BY <1>0, <1>2, <2>2, <3>1, <3>2 DEF WriterConsistent, TheFile
  <2>3. QED BY <1>1, <2>1, <2>2
<1>6. RecordFits'
  BY <1>2 DEF RecordFits
<1>7. QED BY <1>3, <1>4, <1>5, <1>6 DEF WalInv, CommitProgress

(* Steps that change no file. *)
LEMMA QuietInv == WalInv /\ (MutateUnlogged \/ Disable \/ Recover) => WalInv'
<1> SUFFICES ASSUME WalInv, MutateUnlogged \/ Disable \/ Recover PROVE WalInv'
  OBVIOUS
<1>0. TypeOK /\ FilesBounded /\ WriterConsistent /\ RecordFits
  BY InvParts
<1>1. CASE MutateUnlogged
  <2>1. rows' \in Seq(RowValues) /\ Len(rows') <= RowCap
    BY <1>0, <1>1, ApplyType DEF MutateUnlogged, TypeOK
  <2>2. pc = "idle" /\ wal.mode = "none" /\ UNCHANGED <<up, wal, pc, pending, files, promised, indoubt>>
    BY <1>1 DEF MutateUnlogged
  <2>3. TypeOK'
    BY <1>0, <2>1, <2>2 DEF TypeOK
  <2>4. FilesBounded' /\ WriterConsistent' /\ RecordFits'
    BY <1>0, <2>2 DEF FilesBounded, WriterConsistent, RecordFits, TheFile
  <2>5. QED BY <2>3, <2>4 DEF WalInv, CommitProgress
<1>2. CASE Disable
  <2>1. TypeOK'
    BY <1>0, <1>2 DEF Disable, TypeOK
  <2>2. FilesBounded' /\ WriterConsistent' /\ RecordFits'
    BY <1>0, <1>2 DEF Disable, FilesBounded, WriterConsistent, RecordFits, NoWal
  <2>3. QED BY <2>1, <2>2 DEF WalInv, CommitProgress
<1>3. CASE Recover
  <2>1. /\ rows' \in Seq(RowValues) /\ Len(rows') <= RowCap /\ up' = TRUE
        /\ ~up /\ UNCHANGED <<wal, pc, pending, files, promised, indoubt>>
    BY <1>3 DEF Recover, TableAccepts
  <2>2. pc = "idle" /\ wal.mode = "none"
    BY <1>0, <2>1 DEF TypeOK, WriterConsistent
  <2>3. TypeOK'
    BY <1>0, <2>1, <2>2 DEF TypeOK
  <2>4. FilesBounded' /\ WriterConsistent' /\ RecordFits'
    BY <1>0, <2>1, <2>2 DEF FilesBounded, WriterConsistent, RecordFits
  <2>5. QED BY <2>3, <2>4 DEF WalInv, CommitProgress
<1>4. QED BY <1>1, <1>2, <1>3

(* A mutation is logged only if its frame fits the limits. *)
LEMMA BeginCommitInv == WalInv /\ BeginCommit => WalInv'
<1> SUFFICES ASSUME WalInv, BeginCommit PROVE WalInv'
  OBVIOUS
<1>0. TypeOK /\ FilesBounded /\ WriterConsistent /\ RecordFits
  BY InvParts
<1>1. /\ up /\ pc = "idle" /\ wal.mode = "ready" /\ pc' = "write_body"
      /\ UNCHANGED <<up, rows, wal, files, promised>>
      /\ pending' \in Ops /\ Accepts(pending', rows)
      /\ FitsLimits(Len(EncodePayload(pending')), wal.file_bytes, wal.records)
      /\ \E x : indoubt' = [indoubt EXCEPT ![wal.path] = x]
  BY DEF BeginCommit
<1>2. wal.file_bytes \in Nat /\ wal.path \in Paths
  BY <1>0, <1>1 DEF TypeOK, NoWal
<1>3. Len(EncodePayload(pending')) \in Nat
  BY <1>1, PayloadIsSeq
<1>4. indoubt' = [q \in Paths |-> indoubt'[q]]
  BY <1>0, <1>1 DEF TypeOK
<1>5. TypeOK'
  BY <1>0, <1>1, <1>4 DEF TypeOK
<1>6. FilesBounded' /\ WriterConsistent'
  BY <1>0, <1>1 DEF FilesBounded, WriterConsistent, TheFile
<1>7. RecordFits'
  <2>1. Len(files[wal.path].cells) = wal.file_bytes + 0
    BY <1>0, <1>1, <1>2 DEF WriterConsistent, TheFile
  <2>2. /\ wal.file_bytes + (FrameOverhead + Len(EncodePayload(pending'))) <= MaxFileBytes
        /\ wal.records + 1 <= MaxRecords
    BY <1>1, <1>2, <1>3 DEF FitsLimits, FrameOverhead, HeaderLen, CommitLen
  <2>3. QED BY <1>1, <2>1, <2>2 DEF RecordFits, TheFile, Written, FrameLen
<1>8. QED BY <1>5, <1>6, <1>7 DEF WalInv, CommitProgress

(* A log is created at a path where there is no file. *)
LEMMA EnableInv == WalInv /\ Enable => WalInv'
<1> SUFFICES ASSUME WalInv, Enable PROVE WalInv'
  OBVIOUS
<1>0. TypeOK /\ FilesBounded /\ WriterConsistent /\ RecordFits
  BY InvParts
<1>1. PICK p \in Paths :
        /\ files[p].entry = "absent"
        /\ files' = [files EXCEPT ![p].entry = "created"]
        /\ wal' = Writer(p, 0, 0, "creating")
        /\ indoubt' = [indoubt EXCEPT ![p] = SomeRows(rows)]
  BY DEF Enable
<1>2. /\ up /\ pc = "idle" /\ wal.mode = "none" /\ pc' = "write_body"
      /\ UNCHANGED <<up, rows, promised>>
      /\ pending' = BootstrapOp(rows)
      /\ FitsLimits(Len(EncodePayload(pending')), 0, 0)
  BY DEF Enable
<1> DEFINE f == [entry |-> "created", cells |-> << >>, synced |-> 0, acked |-> 0]
<1>3. OnlyFile(p, f)
  <2>1. files[p] = NoFile
    BY <1>0, <1>1 DEF FilesBounded
  <2>2. files' = [files EXCEPT ![p] = [NoFile EXCEPT !.entry = "created"]]
    BY <1>1, <2>1
  <2>3. [NoFile EXCEPT !.entry = "created"] = f
    BY DEF NoFile
  <2>4. FileTypeOK(f)
    <3>1. IsSeq(<< >>)
      BY SeqIsSeq, << >> \in Seq({})
    <3>2. QED BY <3>1 DEF FileTypeOK
  <2>5. QED BY <2>2, <2>3, <2>4, OneFile
<1>4. wal' = [mode |-> "creating", path |-> p, file_bytes |-> 0, records |-> 0]
  BY <1>1 DEF Writer
<1>5. Len(EncodePayload(pending')) \in Nat
  BY <1>0, <1>2, PayloadIsSeq DEF TypeOK
<1>6. TypeOK'
  <2>1. indoubt' = [q \in Paths |-> indoubt'[q]]
    BY <1>0, <1>1 DEF TypeOK
  <2>2. wal' \in [mode : {"creating", "ready", "poisoned"}, path : Paths,
                  file_bytes : Nat, records : Nat]
    BY <1>4
  <2>3. QED BY <1>0, <1>2, <1>3, <1>4, <2>1, <2>2 DEF TypeOK, OnlyFile
<1>7. FilesBounded'
  BY <1>0, <1>3, LimitAssumption DEF FilesBounded, OnlyFile
<1>8. WriterConsistent'
  BY <1>2, <1>3, <1>4, LimitAssumption DEF WriterConsistent, OnlyFile, TheFile
<1>9. RecordFits'
  BY <1>2, <1>3, <1>4, <1>5
     DEF RecordFits, OnlyFile, TheFile, Written, FrameLen, FitsLimits, FrameOverhead,
         HeaderLen, CommitLen
<1>10. QED BY <1>6, <1>7, <1>8, <1>9 DEF WalInv, CommitProgress

(* What a crash leaves of a file: its acknowledged cells, all of them. *)
LEMMA CrashImage ==
    ASSUME WalInv, NEW p \in Paths, NEW g \in AfterCrash(files[p])
    PROVE  /\ FileTypeOK(g)
           /\ Len(g.cells) <= Len(files[p].cells)
           /\ g.acked = files[p].acked
           /\ \A i \in 1..files[p].acked : g.cells[i] = files[p].cells[i]
           /\ g.entry = "absent" => g = NoFile
           /\ g.acked > 0 => g.entry = "durable"
<1> DEFINE f == files[p]
<1>0. FilesBounded /\ FileTypeOK(f)
  BY InvParts, FileShape
<1>1. /\ Len(f.cells) \in Nat /\ f.synced \in Nat /\ f.acked \in Nat
      /\ f.acked <= f.synced /\ f.synced <= Len(f.cells)
  BY FileShape
<1>2. CASE f.entry = "created" /\ g = NoFile
  <2>1. ~(f.acked > 0)
    BY <1>0, <1>2 DEF FilesBounded
  <2>2. f.acked = 0
    BY <1>1, <2>1
  <2>3. FileTypeOK(NoFile)
    <3>1. IsSeq(<< >>)
      BY SeqIsSeq, << >> \in Seq({})
    <3>2. QED BY <3>1 DEF FileTypeOK, NoFile
  <2>4. QED BY <1>1, <1>2, <2>2, <2>3 DEF NoFile
<1>3. ASSUME NEW img \in Images(f),
             g = [entry |-> IF f.entry = "absent" THEN "absent" ELSE "durable",
                  cells |-> img, synced |-> Len(img), acked |-> f.acked]
      PROVE  /\ FileTypeOK(g)
             /\ Len(g.cells) <= Len(f.cells)
             /\ g.acked = f.acked
             /\ \A i \in 1..f.acked : g.cells[i] = f.cells[i]
             /\ g.entry = "absent" => g = NoFile
             /\ g.acked > 0 => g.entry = "durable"
  <2>1. PICK n \in f.synced..Len(f.cells) :
          \E lost \in Lost(f, n) : img = Image(f, n, lost)
    <3> HIDE DEF f
    <3>1. QED BY <1>3 DEF Images
  <2>2. PICK lost \in SUBSET ((f.synced + 1)..n) :
            img = [i \in 1..n |-> IF i \in lost THEN ZeroCell ELSE f.cells[i]]
    BY <2>1 DEF Lost, Image
  <2>3. n \in Nat /\ f.synced <= n /\ n <= Len(f.cells)
    BY <1>1
  <2>4. IsSeq(img) /\ Len(img) = n
    BY <2>2, <2>3, FunctionSeq
  <2>5. \A i \in 1..f.acked : img[i] = f.cells[i]
    BY <1>1, <2>2, <2>3
  <2>6. FileTypeOK(g)
    BY <1>0, <1>1, <1>3, <2>3, <2>4 DEF FileTypeOK
  <2>7. g.entry = "absent" => g = NoFile
    <3>1. SUFFICES ASSUME f.entry = "absent" PROVE g = NoFile
      BY <1>0, <1>3 DEF FileTypeOK
    <3>2. f = NoFile
      BY <1>0, <3>1 DEF FilesBounded
    <3>3. n = 0
      BY <2>3, <3>2 DEF NoFile
    <3>4. img = << >>
      BY <2>4, <3>3, LenNat DEF IsSeq
    <3>5. QED BY <1>3, <2>4, <3>1, <3>2, <3>3, <3>4 DEF NoFile
  <2>8. g.acked > 0 => g.entry = "durable"
    BY <1>0, <1>3 DEF FilesBounded
  <2>9. QED BY <1>3, <2>3, <2>4, <2>5, <2>6, <2>7, <2>8
<1>4. QED BY <1>2, <1>3 DEF AfterCrash

(* A crash keeps every synced cell of every file. *)
LEMMA CrashInv == WalInv /\ Crash => WalInv'
<1> SUFFICES ASSUME WalInv, Crash PROVE WalInv'
  OBVIOUS
<1>0. TypeOK /\ FilesBounded /\ WriterConsistent /\ RecordFits
  BY InvParts
<1>1. /\ files' = [p \in Paths |-> files'[p]]
      /\ \A p \in Paths : files'[p] \in AfterCrash(files[p])
  BY DEF Crash
<1>2. /\ up' = FALSE /\ rows' = << >> /\ wal' = NoWal /\ pc' = "idle" /\ pending' = NoOp
      /\ promised' = promised /\ indoubt' = indoubt
  BY DEF Crash
<1>3. << >> \in Seq(RowValues) /\ Len(<< >>) <= RowCap
  BY LimitAssumption
<1>4. \A p \in Paths : FileTypeOK(files'[p])
  BY <1>1, CrashImage
<1>5. TypeOK'
  BY <1>0, <1>1, <1>2, <1>3, <1>4 DEF TypeOK
<1>6. FilesBounded'
  <2>1. SUFFICES ASSUME NEW p \in Paths
                 PROVE  /\ files'[p].entry = "absent" => files'[p] = NoFile
                        /\ files'[p].acked > 0 => files'[p].entry = "durable"
                        /\ Len(files'[p].cells) <= MaxFileBytes
    BY DEF FilesBounded
  <2>2. /\ files'[p].entry = "absent" => files'[p] = NoFile
        /\ files'[p].acked > 0 => files'[p].entry = "durable"
        /\ Len(files'[p].cells) <= Len(files[p].cells)
    BY <1>1, CrashImage
  <2>3. Len(files'[p].cells) \in Nat
    BY <1>4, LenNat DEF FileTypeOK
  <2>4. Len(files[p].cells) \in Nat /\ Len(files[p].cells) <= MaxFileBytes
    BY <1>0, FileShape DEF FilesBounded
  <2>5. QED BY <2>2, <2>3, <2>4, LimitAssumption
<1>7. WriterConsistent' /\ RecordFits'
  BY <1>2 DEF WriterConsistent, RecordFits, NoWal
<1>8. QED BY <1>5, <1>6, <1>7 DEF WalInv, CommitProgress

(* A stutter changes nothing. *)
LEMMA StutterInv == WalInv /\ UNCHANGED vars => WalInv'
  BY DEF vars, WalInv, TypeOK, CommitProgress, FilesBounded, WriterConsistent, RecordFits,
         TheFile, Written, FrameLen

(* Every step keeps the invariant. *)
LEMMA NextInv == WalInv /\ [Next]_vars => WalInv'
  BY WriteBodyInv, WriteFooterInv, SyncBodyInv, SyncFooterInv, SyncParentInv,
     WriteFailsInv, SyncFailsInv, QuietInv, BeginCommitInv, EnableInv, CrashInv,
     StutterInv DEF Next

(***************************************************************************)
(* The inductive invariant holds: at every program point of every commit,  *)
(* after every failed write or sync and every crash, for all constants.    *)
(***************************************************************************)
THEOREM WalInvariance == Spec => []WalInv
<1>1. Init => WalInv
  BY InitInv
<1>2. WalInv /\ [Next]_vars => WalInv'
  BY NextInv
<1>3. QED BY <1>1, <1>2, PTL DEF Spec

(* Type correctness: rows within the table's cap, acknowledged cells synced,
   synced cells present, a commit only under a healthy writer. *)
THEOREM Typing == Spec => []TypeOK
<1>1. WalInv => TypeOK
  BY DEF WalInv
<1>2. QED BY <1>1, WalInvariance, PTL

(* While a writer is attached and idle, queries see exactly what the log
   promises. *)
THEOREM MemoryAgreesWithLog == Spec => []MemoryMatchesLog
<1>1. WalInv => MemoryMatchesLog
  <2>1. SUFFICES ASSUME WalInv, wal.mode # "none", pc = "idle"
                 PROVE  promised[wal.path] = SomeRows(rows)
    BY DEF MemoryMatchesLog
  <2>2. wal.mode \in {"creating", "ready", "poisoned"}
    BY <2>1 DEF WalInv, TypeOK, NoWal
  <2>3. QED BY <2>1, <2>2, InvParts DEF WriterConsistent
<1>2. QED BY <1>1, WalInvariance, PTL

(* The writer's cached counters describe the file, and no file outgrows the
   limit its recovery is held to. *)
THEOREM AccountingIsExact == Spec => []WriterAccounting
<1>1. WalInv => WriterAccounting
  BY InvParts DEF WriterAccounting, WriterConsistent, FilesBounded, TheFile
<1>2. QED BY <1>1, WalInvariance, PTL

(* The step form of AckedBytesStable. *)
AckedKept ==
    \A p \in Paths :
        /\ files'[p].acked >= files[p].acked
        /\ Len(files'[p].cells) >= files[p].acked
        /\ \A i \in 1..files[p].acked : files'[p].cells[i] = files[p].cells[i]

(* Acknowledged bytes survive everything: no write, failed write, failed
   sync, crash (with or without holes) or recovery changes them. *)
THEOREM AckedBytesAreStable == Spec => AckedBytesStable
<1>1. WalInv /\ [Next]_vars => [AckedKept]_vars
  <2> SUFFICES ASSUME WalInv, Next PROVE AckedKept
    BY DEF AckedKept
  <2>0. \A p \in Paths : /\ Len(files[p].cells) \in Nat /\ files[p].acked \in Nat
                          /\ files[p].acked <= Len(files[p].cells)
    BY FileShape
  <2>1. CASE files' = files
    BY <2>0, <2>1 DEF AckedKept
  <2>2. ASSUME NEW p \in Paths, NEW data, IsSeq(data),
               files' = [files EXCEPT ![p].cells = @ \o data]
        PROVE  AckedKept
    <3>1. /\ OnlyFile(p, Extended(p, data))
          /\ Len(files'[p].cells) = Len(files[p].cells) + Len(data)
          /\ \A i \in 1..Len(files[p].cells) : files'[p].cells[i] = files[p].cells[i]
      BY <2>2, WriteFile
    <3>2. files'[p].acked = files[p].acked
      BY <3>1 DEF OnlyFile, Extended
    <3>3. Len(files'[p].cells) >= files[p].acked
      BY <2>0, <2>2, <3>1, LenNat
    <3>4. QED BY SMTT(60), <2>0, <3>1, <3>2, <3>3 DEF AckedKept, OnlyFile
  <2>3. ASSUME NEW p \in Paths,
               files'[p].cells = files[p].cells,
               files'[p].acked \in {files[p].acked, Len(files[p].cells)},
               \A q \in Paths \ {p} : files'[q] = files[q]
        PROVE  AckedKept
    BY <2>0, <2>3 DEF AckedKept
  <2>4. CASE WriteBody
    BY <2>2, <2>4, PendingFrame DEF WriteBody
  <2>5. CASE WriteFooter
    BY <2>2, <2>5, PendingFrame DEF WriteFooter
  <2>6. CASE WriteFails
    <3> DEFINE data == IF pc = "write_body" THEN Body ELSE Footer
    <3>1. /\ wal.path \in Paths /\ IsSeq(data) /\ Len(data) \in Nat
      BY <2>6, PendingFrame DEF WriteFails, HeaderLen, CommitLen
    <3>2. PICK k \in 0..Len(data) - 1 :
            files' = [files EXCEPT ![wal.path].cells = @ \o SubSeq(data, 1, k)]
      BY <2>6 DEF WriteFails
    <3> HIDE DEF data
    <3>3. k \in 0..Len(data)
      BY <3>1
    <3>4. IsSeq(SubSeq(data, 1, k))
      BY <3>1, <3>3, PrefixSeq
    <3>5. QED BY <2>2, <3>1, <3>2, <3>4
  <2>7. CASE SyncBody \/ SyncBootstrapFooter
    <3>1. wal.path \in Paths /\ pc # "idle"
      BY <2>7, PendingFrame DEF SyncBody, SyncBootstrapFooter
    <3>2. files[wal.path].entry # "absent"
      BY <3>1, InvParts, PendingFrame DEF WriterConsistent, TheFile
    <3>3. OnlyFile(wal.path, Synced(wal.path, files[wal.path].entry, files[wal.path].acked))
      BY <2>7, <3>1, <3>2, SyncOnly DEF SyncBody, SyncBootstrapFooter, TheFile
    <3>4. QED BY <2>3, <3>1, <3>3 DEF OnlyFile, Synced
  <2>8. CASE SyncFooter \/ SyncParent
    <3>1. wal.path \in Paths
      BY <2>8, PendingFrame DEF SyncFooter, FinishCommit, SyncParent, FinishCreate
    <3>2. \E e, n : files' = [files EXCEPT ![wal.path] =
            [entry |-> e, cells |-> files[wal.path].cells, synced |-> n,
             acked |-> Len(files[wal.path].cells)]]
      BY <2>8 DEF SyncFooter, FinishCommit, SyncParent, FinishCreate, TheFile
    <3>3. files = [q \in Paths |-> files[q]]
      BY InvParts DEF TypeOK
    <3>4. QED BY <2>3, <3>1, <3>2, <3>3
  <2>9. CASE Enable
    <3>1. PICK p \in Paths : files' = [files EXCEPT ![p].entry = "created"]
      BY <2>9 DEF Enable
    <3>2. files = [q \in Paths |-> files[q]] /\ FileTypeOK(files[p])
      BY InvParts DEF TypeOK
    <3>3. files'[p] = [files[p] EXCEPT !.entry = "created"]
          /\ \A q \in Paths \ {p} : files'[q] = files[q]
      BY <3>1, <3>2
    <3>4. files'[p].cells = files[p].cells /\ files'[p].acked = files[p].acked
      BY <3>2, <3>3 DEF FileTypeOK
    <3>5. QED BY <2>3, <3>3, <3>4
  <2>10. CASE Crash
    <3>1. \A p \in Paths : files'[p] \in AfterCrash(files[p])
      BY <2>10 DEF Crash
    <3>2. SUFFICES ASSUME NEW p \in Paths
                   PROVE  /\ files'[p].acked >= files[p].acked
                          /\ Len(files'[p].cells) >= files[p].acked
                          /\ \A i \in 1..files[p].acked :
                                files'[p].cells[i] = files[p].cells[i]
      BY DEF AckedKept
    <3>3. /\ FileTypeOK(files'[p])
          /\ files'[p].acked = files[p].acked
          /\ \A i \in 1..files[p].acked : files'[p].cells[i] = files[p].cells[i]
      BY <3>1, CrashImage
    <3>4. Len(files'[p].cells) \in Nat
      BY <3>3, LenNat DEF FileTypeOK
    <3>5. QED BY <2>0, <3>3, <3>4 DEF FileTypeOK
  <2>11. CASE MutateUnlogged \/ BeginCommit \/ Disable \/ SyncFails \/ Recover
    BY <2>1, <2>11 DEF MutateUnlogged, BeginCommit, Disable, SyncFails, Recover
  <2>12. QED BY <2>4, <2>5, <2>6, <2>7, <2>8, <2>9, <2>10, <2>11 DEF Next
<1>2. QED BY <1>1, WalInvariance, PTL DEF Spec, AckedBytesStable, AckedKept
-----------------------------------------------------------------------------
(* The replay loop.  Of a file it reads one frame after another; `Reaches' *)
(* says that it goes on up to some state, whatever follows there.          *)

(* The loop state before the frame at offset k: n records replayed. *)
At(k, n, booted, rs) ==
    [offset |-> k, records |-> n, booted |-> booted, rows |-> rs,
     done |-> FALSE, err |-> "none"]

IsAt(s) == s = At(s.offset, s.records, s.booted, s.rows)

(* n iterations of replay's while loop over the cells, all of which go on. *)
Goes(cells, st, n) ==
    /\ st[0] = ReplayStart
    /\ \A i \in 0..n : IsAt(st[i]) /\ st[i].offset \in Nat /\ i <= st[i].offset
    /\ \A i \in 0..n : i # n => /\ st[i + 1] = ReplayFrame(cells, MaxRecords, st[i])
                                /\ LengthOf(cells[st[i].offset + 2]) \in Nat
                                /\ st[i + 1].offset <= st[n].offset

Reaches(cells, s) == \E n \in Nat : \E st : Goes(cells, st, n) /\ st[n] = s

(* The loop starts at its first frame. *)
LEMMA ReachesStart ==
    ASSUME NEW cells
    PROVE  Reaches(cells, ReplayStart) /\ ReplayStart = At(0, 0, FALSE, << >>)
<1> DEFINE st == [i \in 0..0 |-> ReplayStart]
<1>1. ReplayStart = At(0, 0, FALSE, << >>) /\ IsAt(ReplayStart)
  BY DEF ReplayStart, At, IsAt
<1>0. ReplayStart.offset \in Nat /\ 0 <= ReplayStart.offset
  BY DEF ReplayStart
<1>2. 0 \in 0..0 /\ \A i \in 0..0 : i = 0 /\ st[i] = ReplayStart
  OBVIOUS
<1> HIDE DEF st
<1>3. Goes(cells, st, 0) /\ st[0] = ReplayStart
  <2>1. st[0] = ReplayStart
    BY <1>2
  <2>2. \A i \in 0..0 : IsAt(st[i]) /\ st[i].offset \in Nat /\ i <= st[i].offset
    BY <1>0, <1>1, <1>2
  <2>3. \A i \in 0..0 : i = 0
    BY <1>2
  <2>4. \A i \in 0..0 : i # 0 => FALSE
    BY <2>3
  <2>5. QED BY <2>1, <2>2, <2>4 DEF Goes
<1>4. QED BY <1>1, <1>3 DEF Reaches

(* One more frame. *)
LEMMA ReachesNext ==
    ASSUME NEW cells, NEW s, Reaches(cells, s), NEW t, t = ReplayFrame(cells, MaxRecords, s),
           IsAt(t), t.offset \in Nat, s.offset < t.offset,
           LengthOf(cells[s.offset + 2]) \in Nat
    PROVE  Reaches(cells, t)
<1>1. PICK n \in Nat : \E st : Goes(cells, st, n) /\ st[n] = s
  BY DEF Reaches
<1>2. PICK st : Goes(cells, st, n) /\ st[n] = s
  BY <1>1
<1> DEFINE u == [i \in 0..n + 1 |-> IF i = n + 1 THEN t ELSE st[i]]
<1>3. /\ \A i \in 0..n : i \in 0..n + 1 /\ i # n + 1 /\ u[i] = st[i]
      /\ u[n + 1] = t
  OBVIOUS
<1> HIDE DEF u
<1>4. s.offset \in Nat /\ n <= s.offset /\ IsAt(s)
  BY <1>2 DEF Goes
<1>5. u[0] = ReplayStart
  BY <1>2, <1>3 DEF Goes
<1>6. ASSUME NEW i \in 0..n + 1
      PROVE  IsAt(u[i]) /\ u[i].offset \in Nat /\ i <= u[i].offset
  <2>1. CASE i = n + 1
    BY <1>3, <1>4, <2>1
  <2>2. CASE i # n + 1
    <3>1. i \in 0..n
      BY <2>2
    <3>2. QED BY <1>2, <1>3, <3>1 DEF Goes
  <2>3. QED BY <2>1, <2>2
<1>7. ASSUME NEW i \in 0..n + 1, i # n + 1
      PROVE  /\ u[i + 1] = ReplayFrame(cells, MaxRecords, u[i])
             /\ LengthOf(cells[u[i].offset + 2]) \in Nat
             /\ u[i + 1].offset <= u[n + 1].offset
  <2>1. i \in 0..n /\ u[i] = st[i]
    BY <1>3, <1>7
  <2>2. CASE i = n
    BY <1>2, <1>3, <2>1, <2>2
  <2>3. CASE i # n
    <3>1. i + 1 \in 0..n /\ u[i + 1] = st[i + 1]
      BY <1>3, <2>1, <2>3
    <3>2. /\ st[i + 1] = ReplayFrame(cells, MaxRecords, st[i])
          /\ LengthOf(cells[st[i].offset + 2]) \in Nat
          /\ st[i + 1].offset <= s.offset /\ st[i + 1].offset \in Nat
      BY <1>2, <2>1, <2>3, <3>1 DEF Goes
    <3>3. u[i + 1].offset <= u[n + 1].offset
      BY <1>3, <1>4, <3>1, <3>2
    <3>4. QED BY <2>1, <3>1, <3>2, <3>3
  <2>4. QED BY <2>2, <2>3
<1>8. Goes(cells, u, n + 1) /\ u[n + 1] = t /\ n + 1 \in Nat
  BY <1>3, <1>5, <1>6, <1>7 DEF Goes
<1>9. QED BY <1>8 DEF Reaches

(* A part of two files that agree there. *)
LEMMA SubSeqAgrees ==
    ASSUME NEW a, NEW b, NEW k \in Nat, \A i \in 1..k : a[i] = b[i],
           NEW m \in Nat \ {0}, NEW n \in Nat, n <= k
    PROVE  SubSeq(a, m, n) = SubSeq(b, m, n)
<1> DEFINE S == {a[i] : i \in m..n}
<1>1. /\ \A i \in m..n : i \in 1..k /\ a[i] \in S
      /\ \A i \in m..n : b[i] \in S
  <2>1. \A i \in m..n : i \in 1..k /\ a[i] \in S
    OBVIOUS
  <2>2. QED BY <2>1
<1>2. m \in Int /\ n \in Int
  OBVIOUS
<1> HIDE DEF S
<1>3. /\ SubSeq(a, m, n) \in Seq(S) /\ Len(SubSeq(a, m, n)) = IF m <= n THEN n - m + 1 ELSE 0
      /\ \A i \in 1..n - m + 1 : SubSeq(a, m, n)[i] = a[m + i - 1]
  BY <1>1, <1>2, SubSeqProperties
<1>4. /\ SubSeq(b, m, n) \in Seq(S) /\ Len(SubSeq(b, m, n)) = IF m <= n THEN n - m + 1 ELSE 0
      /\ \A i \in 1..n - m + 1 : SubSeq(b, m, n)[i] = b[m + i - 1]
  BY <1>1, <1>2, SubSeqProperties
<1>5. ASSUME NEW i \in 1..Len(SubSeq(a, m, n))
      PROVE  SubSeq(a, m, n)[i] = SubSeq(b, m, n)[i]
  <2>1. i \in 1..n - m + 1 /\ m + i - 1 \in 1..k
    BY <1>3, <1>5
  <2>2. QED BY <1>3, <1>4, <2>1
<1>6. QED BY <1>3, <1>4, <1>5, SeqEqual

(* The checks of one iteration, all of which a frame that goes on passes. *)
PayloadAt(cells, k) ==
    SubSeq(cells, k + HeaderLen + 1, k + HeaderLen + LengthOf(cells[k + 2]))
FrameEnd(cells, k) == k + FrameOverhead + LengthOf(cells[k + 2])

AppliedAt(cells, s) ==
    ApplyRecord(cells[s.offset + 1].kind, cells[s.offset + 1].sequence,
                PayloadAt(cells, s.offset), s.booted, s.rows)

HeadPasses(cells, s) ==
    /\ ~(Len(cells) - s.offset < HeaderLen)
    /\ cells[s.offset + 1].t = "magic"
    /\ cells[s.offset + 1].version = Version
    /\ cells[s.offset + 1].reserved = 0
    /\ cells[s.offset + 1].sequence = s.records
    /\ ~(LengthOf(cells[s.offset + 2]) > MaxRecordBytes)

BodyPasses(cells, s) ==
    /\ ~(FrameEnd(cells, s.offset) > Len(cells))
    /\ ~(s.records + 1 > MaxRecords)
    /\ cells[FrameEnd(cells, s.offset) - 1].t = "commit"
    /\ SequenceOf(cells[FrameEnd(cells, s.offset)]) = cells[s.offset + 1].sequence
    /\ ChecksumOf(cells[s.offset + 2])
         = Checksum(cells[s.offset + 1].version, cells[s.offset + 1].kind,
                    cells[s.offset + 1].reserved, cells[s.offset + 1].sequence,
                    PayloadAt(cells, s.offset))
    /\ AppliedAt(cells, s).err = "none"

Passes(cells, s) == HeadPasses(cells, s) /\ BodyPasses(cells, s)

Passed(cells, s) ==
    At(FrameEnd(cells, s.offset), s.records + 1, TRUE, AppliedAt(cells, s).rows)

(* One iteration stops or passes all its checks. *)
LEMMA FrameDecides ==
    ASSUME NEW cells, NEW s
    PROVE  IF Passes(cells, s) THEN ReplayFrame(cells, MaxRecords, s) = Passed(cells, s)
           ELSE \E e : ReplayFrame(cells, MaxRecords, s) = Stop(s, e)
<1> DEFINE head == cells[s.offset + 1]
           len == LengthOf(cells[s.offset + 2])
           frameEnd == FrameEnd(cells, s.offset)
           payload == PayloadAt(cells, s.offset)
           applied == AppliedAt(cells, s)
           verdict == IF IsAuthenticated(cells, s.offset) THEN "payload length" ELSE "none"
           sum == Checksum(head.version, head.kind, head.reserved, head.sequence, payload)
<1>1. ReplayFrame(cells, MaxRecords, s) =
        IF Len(cells) - s.offset < HeaderLen THEN Stop(s, "none")
        ELSE IF head.t # "magic" THEN Stop(s, "incompatible magic")
        ELSE IF head.version # Version THEN Stop(s, "unsupported version")
        ELSE IF head.reserved # 0 THEN Stop(s, "reserved byte")
        ELSE IF head.sequence # s.records THEN Stop(s, "sequence")
        ELSE IF len > MaxRecordBytes THEN Stop(s, "record bytes limit")
        ELSE IF frameEnd > Len(cells) THEN Stop(s, verdict)
        ELSE IF s.records + 1 > MaxRecords THEN Stop(s, "records limit")
        ELSE IF cells[frameEnd - 1].t # "commit" THEN Stop(s, "commit magic")
        ELSE IF SequenceOf(cells[frameEnd]) # head.sequence THEN Stop(s, "commit sequence")
        ELSE IF ChecksumOf(cells[s.offset + 2]) # sum THEN Stop(s, "checksum")
        ELSE IF applied.err # "none" THEN Stop(s, applied.err)
        ELSE At(frameEnd, s.records + 1, TRUE, applied.rows)
  BY DEF ReplayFrame, FrameEnd, PayloadAt, AppliedAt, At
<1>2. /\ HeadPasses(cells, s) <=> /\ ~(Len(cells) - s.offset < HeaderLen) /\ head.t = "magic"
                                  /\ head.version = Version /\ head.reserved = 0
                                  /\ head.sequence = s.records /\ ~(len > MaxRecordBytes)
      /\ BodyPasses(cells, s) <=> /\ ~(frameEnd > Len(cells)) /\ ~(s.records + 1 > MaxRecords)
                                  /\ cells[frameEnd - 1].t = "commit"
                                  /\ SequenceOf(cells[frameEnd]) = head.sequence
                                  /\ ChecksumOf(cells[s.offset + 2]) = sum
                                  /\ applied.err = "none"
      /\ Passed(cells, s) = At(frameEnd, s.records + 1, TRUE, applied.rows)
  BY DEF HeadPasses, BodyPasses, Passed
<1> HIDE DEF head, len, frameEnd, payload, applied, verdict, sum
<1>3. QED BY <1>1, <1>2, Zenon DEF Passes

(* The places of a frame with a payload of some length that ends within k. *)
LEMMA FramePlaces ==
    ASSUME NEW o \in Nat, NEW len \in Nat, NEW k \in Nat, NEW end, end = o + 4 + len, end <= k
    PROVE  /\ o + 1 \in 1..k /\ o + 2 \in 1..k /\ end - 1 \in 1..k /\ end \in 1..k
           /\ o + 2 + 1 \in Nat \ {0} /\ o + 2 + len \in Nat /\ o + 2 + len <= k
  OBVIOUS

(* A frame that goes on reads nothing behind its end. *)
LEMMA FrameIsLocal ==
    ASSUME NEW a, NEW b, IsSeq(a), IsSeq(b), NEW k \in Nat, k <= Len(a), k <= Len(b),
           \A i \in 1..k : a[i] = b[i],
           NEW s, IsAt(s), s.offset \in Nat, LengthOf(a[s.offset + 2]) \in Nat,
           NEW t, t = ReplayFrame(a, MaxRecords, s), IsAt(t), t.offset <= k
    PROVE  t = ReplayFrame(b, MaxRecords, s) /\ LengthOf(b[s.offset + 2]) \in Nat
<1> DEFINE len == LengthOf(a[s.offset + 2])
           frameEnd == FrameEnd(a, s.offset)
<1>1. /\ t.done = FALSE
      /\ \A e : Stop(s, e).done = TRUE
  <2>1. t.done = FALSE
    BY DEF IsAt, At
  <2>2. s = At(s.offset, s.records, s.booted, s.rows)
    BY DEF IsAt
  <2>3. \A e : Stop(s, e).done = TRUE
    BY <2>2 DEF At, Stop
  <2>4. QED BY <2>1, <2>3
<1>2. \A e : t # Stop(s, e)
  BY <1>1
<1>3. Len(a) \in Nat /\ Len(b) \in Nat
  BY LenNat
<1>4. Passes(a, s) /\ t = Passed(a, s)
  BY <1>2, FrameDecides
<1>5. /\ len \in Nat /\ frameEnd = s.offset + 4 + len
      /\ frameEnd \in Nat /\ frameEnd <= k /\ frameEnd >= s.offset + 4
  <2>1. t.offset = frameEnd
    BY <1>4 DEF Passed, At
  <2>2. frameEnd = s.offset + 4 + len
    BY DEF FrameEnd, FrameOverhead, HeaderLen, CommitLen
  <2>3. QED BY <2>1, <2>2
<1> HIDE DEF len, frameEnd
<1>6. /\ s.offset + 1 \in 1..k /\ s.offset + 2 \in 1..k /\ frameEnd - 1 \in 1..k /\ frameEnd \in 1..k
      /\ s.offset + 2 + 1 \in Nat \ {0} /\ s.offset + 2 + len \in Nat /\ s.offset + 2 + len <= k
  <2>1. \A o \in Nat : o = s.offset =>
          /\ o + 1 \in 1..k /\ o + 2 \in 1..k /\ frameEnd - 1 \in 1..k /\ frameEnd \in 1..k
          /\ o + 2 + 1 \in Nat \ {0} /\ o + 2 + len \in Nat /\ o + 2 + len <= k
    <3>1. TAKE o \in Nat
    <3>2. HAVE o = s.offset
    <3>3. len \in Nat /\ frameEnd = o + 4 + len /\ frameEnd <= k
      BY <1>5, <3>2
    <3>4. QED BY <3>3
  <2>2. QED BY <2>1, Zenon
<1>7. /\ a[s.offset + 1] = b[s.offset + 1] /\ a[s.offset + 2] = b[s.offset + 2]
      /\ a[frameEnd - 1] = b[frameEnd - 1] /\ a[frameEnd] = b[frameEnd]
  BY <1>6, Zenon
<1>8. FrameEnd(b, s.offset) = frameEnd /\ FrameEnd(a, s.offset) = frameEnd
  BY <1>7, Zenon DEF FrameEnd, frameEnd
<1>9. PayloadAt(a, s.offset) = PayloadAt(b, s.offset)
  <2>1. SubSeq(a, s.offset + 2 + 1, s.offset + 2 + len)
          = SubSeq(b, s.offset + 2 + 1, s.offset + 2 + len)
    <3>1. s.offset + 2 + 1 \in Nat \ {0} /\ s.offset + 2 + len \in Nat /\ s.offset + 2 + len <= k
      BY <1>6
    <3>2. \A m \in Nat \ {0} : \A n \in Nat : n <= k => SubSeq(a, m, n) = SubSeq(b, m, n)
      BY SubSeqAgrees
    <3>3. QED BY <3>1, <3>2, Zenon
  <2>2. LengthOf(b[s.offset + 2]) = len /\ LengthOf(a[s.offset + 2]) = len
    BY <1>7, Zenon DEF len
  <2>3. /\ PayloadAt(a, s.offset) = SubSeq(a, s.offset + 2 + 1, s.offset + 2 + len)
        /\ PayloadAt(b, s.offset) = SubSeq(b, s.offset + 2 + 1, s.offset + 2 + len)
    BY <2>2, Zenon DEF PayloadAt, HeaderLen
  <2>4. QED BY <2>1, <2>3
<1>10. ~(Len(b) - s.offset < HeaderLen) /\ ~(frameEnd > Len(b))
  BY SMTT(60), <1>3, <1>5 DEF HeaderLen
<1>11. AppliedAt(a, s) = AppliedAt(b, s)
  BY <1>7, <1>9 DEF AppliedAt
<1>12. HeadPasses(b, s)
  BY <1>4, <1>7, <1>10 DEF Passes, HeadPasses
<1>13. BodyPasses(b, s)
  BY <1>4, <1>7, <1>8, <1>9, <1>10, <1>11 DEF Passes, BodyPasses
<1>14. Passed(b, s) = Passed(a, s)
  BY <1>8, <1>11 DEF Passed
<1>15. t = ReplayFrame(b, MaxRecords, s)
  BY <1>4, <1>12, <1>13, <1>14, FrameDecides DEF Passes
<1>16. QED BY <1>7, <1>15 DEF len

(* A state is reached whatever follows it in the file. *)
LEMMA ReachesLocal ==
    ASSUME NEW a, NEW b, IsSeq(a), IsSeq(b), NEW s, Reaches(a, s),
           s.offset <= Len(a), s.offset <= Len(b), \A i \in 1..s.offset : a[i] = b[i]
    PROVE  Reaches(b, s)
<1>1. PICK n \in Nat : \E st : Goes(a, st, n) /\ st[n] = s
  BY DEF Reaches
<1>2. PICK st : Goes(a, st, n) /\ st[n] = s
  BY <1>1
<1>3. s.offset \in Nat
  BY <1>2 DEF Goes
<1>4. ASSUME NEW i \in 0..n, i # n
      PROVE  /\ st[i + 1] = ReplayFrame(b, MaxRecords, st[i])
             /\ LengthOf(b[st[i].offset + 2]) \in Nat
             /\ st[i + 1].offset <= st[n].offset
  <2>1. i + 1 \in 0..n
    BY <1>4
  <2>2. /\ IsAt(st[i]) /\ st[i].offset \in Nat /\ LengthOf(a[st[i].offset + 2]) \in Nat
        /\ st[i + 1] = ReplayFrame(a, MaxRecords, st[i]) /\ IsAt(st[i + 1])
        /\ st[i + 1].offset <= s.offset
    BY <1>2, <1>4, <2>1 DEF Goes
  <2>3. /\ st[i + 1] = ReplayFrame(b, MaxRecords, st[i])
        /\ LengthOf(b[st[i].offset + 2]) \in Nat
    BY <1>3, <2>2, FrameIsLocal
  <2>4. QED BY <1>2, <2>2, <2>3
<1>5. Goes(b, st, n)
  BY <1>2, <1>4 DEF Goes
<1>6. QED BY <1>2, <1>5 DEF Reaches

(* The order of the naturals is well founded: used for the iterations of the
   replay loop. *)
LEMMA LeastElement ==
    ASSUME NEW S \in SUBSET Nat, S # {}
    PROVE  \E n \in S : \A m \in S : n <= m
<1> DEFINE R == OpToRel(<, Nat)
<1>1. IsWellFoundedOn(R, Nat)
  BY NatLessThanWellFounded
<1>2. PICK n \in S : \A m \in S : <<m, n>> \notin R
  BY <1>1, WFMin
<1>3. \A m \in S : m < n => <<m, n>> \in R
  BY DEF OpToRel
<1> HIDE DEF R
<1>4. \A m \in S : ~ (m < n)
  BY <1>2, <1>3
<1>5. QED BY <1>4

(* Induction, for the iterations of the replay loop. *)
LEMMA Induction ==
    ASSUME NEW S, 0 \in S, \A n \in Nat : n \in S => n + 1 \in S
    PROVE  Nat \subseteq S
<1> DEFINE B == Nat \ S
<1>1. SUFFICES ASSUME B # {} PROVE FALSE
  OBVIOUS
<1>2. PICK n \in B : \A m \in B : n <= m
  BY <1>1, LeastElement
<1>3. n # 0 /\ n - 1 \in Nat /\ n - 1 \notin B
  BY <1>2
<1>4. QED BY <1>2, <1>3

(* f is the loop state before each iteration of replay. *)
Iterates(f, cells, maxRecords) ==
    f = [i \in Nat |->
            IF i = 0 THEN ReplayStart
            ELSE IF f[i - 1].done THEN f[i - 1]
                 ELSE ReplayFrame(cells, maxRecords, f[i - 1])]

Loop(cells, maxRecords) == CHOOSE f : Iterates(f, cells, maxRecords)

(* What replay makes of the state its loop ends in. *)
Verdict(d) ==
    [err     |-> IF d.err = "none" /\ ~d.booted THEN "missing bootstrap" ELSE d.err,
     rows    |-> d.rows,
     records |-> d.records]

(* Replay gives its verdict on the last state of its loop. *)
LEMMA ReplayIsLast ==
    ASSUME NEW cells, NEW n
    PROVE  Replay(cells, n) = Verdict(Loop(cells, n)[Len(cells) + 1])
  BY DEF Replay, Verdict, Loop, Iterates

(* A file whose loop goes on up to some state and stops there is recovered as
   that state. *)
LEMMA ReplayIs ==
    ASSUME NEW cells, IsSeq(cells), NEW s, Reaches(cells, s), s.offset <= Len(cells),
           NEW d, d = ReplayFrame(cells, MaxRecords, s), d.done = TRUE
    PROVE  Replay(cells, MaxRecords) = Verdict(d)
<1> DEFINE L == Len(cells)
           Next1(f, i) == IF f[i - 1].done THEN f[i - 1]
                          ELSE ReplayFrame(cells, MaxRecords, f[i - 1])
           Body1(f, i) == IF i = 0 THEN ReplayStart ELSE Next1(f, i)
<1>0. L \in Nat
  BY LenNat
<1>1. PICK n \in Nat : \E st : Goes(cells, st, n) /\ st[n] = s
  BY DEF Reaches
<1>2. PICK st : Goes(cells, st, n) /\ st[n] = s
  BY <1>1
<1>3. s.offset \in Nat /\ n <= s.offset /\ n <= L
  <2>1. n \in 0..n /\ st[n] = s
    BY <1>1, <1>2
  <2>2. st[n].offset \in Nat /\ n <= st[n].offset
    BY <1>2, <2>1, Zenon DEF Goes
  <2>3. QED BY <1>0, <2>1, <2>2
<1> DEFINE f == [i \in Nat |-> IF i <= n THEN st[i] ELSE d]
<1>4. /\ \A i \in 0..n : f[i] = st[i]
      /\ \A i \in Nat : i > n => f[i] = d
  OBVIOUS
<1>5. DOMAIN f = Nat /\ f = [i \in Nat |-> f[i]]
  OBVIOUS
<1> HIDE DEF f
<1>6. \A i \in 0..n : st[i].done = FALSE
  <2>1. \A i \in 0..n : IsAt(st[i])
    BY <1>2, Zenon DEF Goes
  <2>2. \A t : IsAt(t) => t.done = FALSE
    BY DEF IsAt, At
  <2>3. QED BY <2>1, <2>2
<1>7. ASSUME NEW i \in Nat
      PROVE  f[i] = Body1(f, i)
  <2>1. CASE i = 0
    <3>1. 0 \in 0..n
      BY <1>1
    <3>2. QED BY <1>2, <1>4, <2>1, <3>1 DEF Goes
  <2>2. CASE i # 0 /\ i <= n
    <3>1. i \in 0..n /\ i - 1 \in 0..n /\ i - 1 # n /\ (i - 1) + 1 = i
      BY <2>2
    <3>2. st[i] = ReplayFrame(cells, MaxRecords, st[i - 1])
      BY <1>2, <3>1 DEF Goes
    <3>3. QED BY <1>4, <1>6, <2>2, <3>1, <3>2
  <2>3. CASE i = n + 1
    <3>1. n \in 0..n /\ i - 1 = n /\ i > n /\ i # 0
      BY <1>1, <2>3
    <3>2. f[i - 1] = s /\ s.done = FALSE /\ f[i] = d
      BY <1>2, <1>4, <1>6, <3>1
    <3>3. QED BY <3>1, <3>2
  <2>4. CASE i > n + 1
    <3>1. i - 1 \in Nat /\ i - 1 > n /\ i > n /\ i # 0
      BY <1>1, <2>4
    <3>2. f[i - 1] = d /\ f[i] = d
      BY <1>4, <3>1
    <3>3. QED BY <3>1, <3>2
  <2>5. QED BY <1>1, <2>1, <2>2, <2>3, <2>4
<1>8. f = [i \in Nat |-> Body1(f, i)]
  <2>1. [i \in Nat |-> f[i]] = [i \in Nat |-> Body1(f, i)]
    BY <1>7
  <2>2. QED BY <1>5, <2>1
<1>9. Iterates(f, cells, MaxRecords)
  BY <1>8 DEF Iterates
<1> DEFINE g == Loop(cells, MaxRecords)
<1>10. Iterates(g, cells, MaxRecords)
  BY <1>9 DEF Loop
<1>11. \A i \in Nat : g[i] = Body1(g, i)
  <2>1. g = [i \in Nat |-> Body1(g, i)]
    BY <1>10 DEF Iterates
  <2> HIDE DEF g
  <2>2. QED BY <2>1
<1> HIDE DEF g
<1> DEFINE S == {i \in Nat : g[i] = f[i]}
<1>12. 0 \in S
  <2>1. g[0] = f[0]
    BY <1>7, <1>11
  <2>2. QED BY <2>1
<1>13. ASSUME NEW i \in Nat, i \in S
       PROVE  i + 1 \in S
  <2>1. i + 1 \in Nat /\ i + 1 # 0 /\ (i + 1) - 1 = i /\ g[i] = f[i]
    BY <1>13
  <2>2. g[i + 1] = Next1(g, i + 1) /\ f[i + 1] = Next1(f, i + 1)
    BY <1>7, <1>11, <2>1
  <2>3. Next1(g, i + 1) = Next1(f, i + 1)
    BY <2>1
  <2>4. QED BY <2>1, <2>2, <2>3
<1>14. L + 1 \in Nat /\ L + 1 > n
  BY <1>0, <1>1, <1>3
<1>15. L + 1 \in S
  <2> HIDE DEF S
  <2>1. Nat \subseteq S
    BY <1>12, <1>13, Induction
  <2>2. QED BY <1>14, <2>1
<1>16. g[L + 1] = d
  BY <1>4, <1>14, <1>15
<1>17. QED BY <1>16, ReplayIsLast DEF g

-----------------------------------------------------------------------------
(* What the decoder makes of what the encoder writes. *)

(* The frame of one record: what a commit adds to the file. *)
Frame(op, n) == EncodeBody(op, n) \o EncodeFooter(n)

(* The cells behind those of a sequence are those of the one appended to it. *)
LEMMA ConcatRest ==
    ASSUME NEW s, NEW t, IsSeq(s), IsSeq(t), NEW i \in 1..Len(t)
    PROVE  (s \o t)[Len(s) + i] = t[i]
<1> DEFINE S == {s[j] : j \in DOMAIN s} \cup {t[j] : j \in DOMAIN t}
<1>1. s \in Seq(S) /\ t \in Seq(S)
  BY DEF IsSeq
<1> HIDE DEF S
<1>2. QED BY <1>1

(* A frame, cell by cell. *)
LEMMA FrameCells ==
    ASSUME NEW op, NEW n, IsSeq(EncodePayload(op))
    PROVE  /\ IsSeq(Frame(op, n))
           /\ Len(Frame(op, n)) = 4 + Len(EncodePayload(op))
           /\ Frame(op, n)[1] = [t |-> "magic", version |-> Version, kind |-> op.kind,
                                 reserved |-> 0, sequence |-> n]
           /\ Frame(op, n)[2] = [t |-> "length", len |-> Len(EncodePayload(op)),
                                 checksum |-> Checksum(Version, op.kind, 0, n, EncodePayload(op))]
           /\ \A i \in 1..Len(EncodePayload(op)) : Frame(op, n)[2 + i] = EncodePayload(op)[i]
           /\ Frame(op, n)[3 + Len(EncodePayload(op))] = [t |-> "commit"]
           /\ Frame(op, n)[4 + Len(EncodePayload(op))] = [t |-> "commit_sequence", sequence |-> n]
           /\ \A i \in 1..Len(EncodeBody(op, n)) : Frame(op, n)[i] = EncodeBody(op, n)[i]
           /\ \A i \in 1..2 : Frame(op, n)[2 + Len(EncodePayload(op)) + i] = EncodeFooter(n)[i]
<1> DEFINE P == EncodePayload(op)
           h == HeaderCells(op.kind, n, P)
           body == EncodeBody(op, n)
           foot == EncodeFooter(n)
           first == [t |-> "magic", version |-> Version, kind |-> op.kind,
                     reserved |-> 0, sequence |-> n]
           second == [t |-> "length", len |-> Len(P),
                      checksum |-> Checksum(Version, op.kind, 0, n, P)]
<1>1. h = <<first, second>>
  BY DEF HeaderCells
<1>2. body = h \o P
  BY DEF EncodeBody
<1>3. foot = <<[t |-> "commit"], [t |-> "commit_sequence", sequence |-> n]>>
  BY DEF EncodeFooter
<1> HIDE DEF first, second
<1>4. IsSeq(h) /\ Len(h) = 2 /\ h[1] = first /\ h[2] = second
  <2> DEFINE S == {first, second}
  <2>1. <<first, second>> \in Seq(S) /\ Len(<<first, second>>) = 2
    OBVIOUS
  <2>2. IsSeq(<<first, second>>)
    BY <2>1, SeqIsSeq
  <2>3. <<first, second>>[1] = first /\ <<first, second>>[2] = second
    OBVIOUS
  <2> HIDE DEF h
  <2>4. QED BY <1>1, <2>1, <2>2, <2>3
<1>5. /\ IsSeq(body) /\ Len(body) = 2 + Len(P) /\ IsSeq(foot) /\ Len(foot) = 2
  BY FrameIsSeq DEF HeaderLen, CommitLen
<1>6. foot[1] = [t |-> "commit"] /\ foot[2] = [t |-> "commit_sequence", sequence |-> n]
  BY <1>3
<1>7. Len(P) \in Nat
  BY LenNat
<1> HIDE DEF P, h, body, foot
<1>8. IsSeq(P)
  BY DEF P
<1>9. /\ \A i \in 1..2 : body[i] = h[i]
      /\ \A i \in 1..Len(P) : body[2 + i] = P[i]
  <2>1. \A i \in 1..2 : body[i] = h[i]
    BY SMTT(60), <1>2, <1>4, <1>8, ConcatSeq
  <2>2. \A i \in 1..Len(P) : (h \o P)[Len(h) + i] = P[i]
    BY SMTT(60), <1>4, <1>8, ConcatRest
  <2>3. QED BY <1>2, <1>4, <2>1, <2>2
<1> DEFINE f == body \o foot
<1>10. IsSeq(f) /\ Len(f) = 4 + Len(P) /\ \A i \in 1..Len(body) : f[i] = body[i]
  <2>1. IsSeq(f) /\ Len(f) = Len(body) + Len(foot) /\ \A i \in 1..Len(body) : f[i] = body[i]
    BY <1>5, ConcatSeq
  <2>2. QED BY <1>5, <1>7, <2>1
<1>11. \A i \in 1..2 : f[2 + Len(P) + i] = foot[i]
  <2>1. \A i \in 1..Len(foot) : (body \o foot)[Len(body) + i] = foot[i]
    <3>1. IsSeq(body) /\ IsSeq(foot)
      BY <1>5
    <3>2. QED BY <3>1, ConcatRest
  <2>2. QED BY <1>5, <1>7, <2>1
<1> HIDE DEF f
<1>12. f[1] = first /\ f[2] = second /\ \A i \in 1..Len(P) : f[2 + i] = P[i]
  <2>1. 1 \in 1..Len(body) /\ 2 \in 1..Len(body) /\ 1 \in 1..2 /\ 2 \in 1..2
    BY <1>5, <1>7
  <2>2. \A i \in 1..Len(P) : 2 + i \in 1..Len(body)
    BY <1>5, <1>7
  <2>3. QED BY <1>4, <1>9, <1>10, <2>1, <2>2
<1>13. /\ f[3 + Len(P)] = [t |-> "commit"]
       /\ f[4 + Len(P)] = [t |-> "commit_sequence", sequence |-> n]
  <2>1. 2 + Len(P) + 1 = 3 + Len(P) /\ 2 + Len(P) + 2 = 4 + Len(P) /\ 1 \in 1..2 /\ 2 \in 1..2
    BY <1>7
  <2>2. f[2 + Len(P) + 1] = foot[1] /\ f[2 + Len(P) + 2] = foot[2]
    BY <1>11, <2>1
  <2>3. QED BY <1>6, <2>1, <2>2
<1>14. f = Frame(op, n) /\ body = EncodeBody(op, n) /\ foot = EncodeFooter(n)
       /\ P = EncodePayload(op)
  BY DEF Frame, f, body, foot, P
<1>15. first = [t |-> "magic", version |-> Version, kind |-> op.kind,
                reserved |-> 0, sequence |-> n]
  BY DEF first
<1>16. second = [t |-> "length", len |-> Len(EncodePayload(op)),
                 checksum |-> Checksum(Version, op.kind, 0, n, EncodePayload(op))]
  BY DEF second, P
<1>17. QED BY <1>10, <1>11, <1>12, <1>13, <1>14, <1>15, <1>16, Zenon

(* An operation the engine may log next, of a file that has n records which
   amount to rs; without a bootstrap, the bootstrap. *)
Loggable(op, booted, n, rs) ==
    \/ op \in Ops /\ booted = TRUE /\ Accepts(op, rs)
    \/ /\ booted = FALSE /\ n = 0
       /\ \E r \in Seq(RowValues) : Len(r) <= RowCap /\ op = BootstrapOp(r)

(* Values are read back. *)
LEMMA ReadsValue == \A v : ReadValue(ValueCell(v)) = v
  BY DEF ReadValue, ValueCell

(* A list of values behind some other cells is read back. *)
LEMMA ReadsValues ==
    ASSUME NEW h, IsSeq(h), NEW vs \in Seq(RowValues)
    PROVE  /\ Len(h \o ValueCells(vs)) = Len(h) + Len(vs)
           /\ \A i \in 1..Len(h) : (h \o ValueCells(vs))[i] = h[i]
           /\ ReadValues(SubSeq(h \o ValueCells(vs), Len(h) + 1, Len(h \o ValueCells(vs)))) = vs
<1> DEFINE c == ValueCells(vs)
           p == h \o c
           k == Len(h)
           n == Len(vs)
<1>1. n \in Nat /\ DOMAIN vs = 1..n /\ k \in Nat
  BY LenNat
<1>2. DOMAIN c = 1..n /\ c = [i \in 1..n |-> c[i]] /\ \A i \in 1..n : c[i] = ValueCell(vs[i])
  BY <1>1 DEF ValueCells
<1> HIDE DEF c
<1>3. IsSeq(c) /\ Len(c) = n
  BY <1>1, <1>2, FunctionSeq
<1>4. IsSeq(p) /\ Len(p) = k + n /\ \A i \in 1..k : p[i] = h[i]
  BY <1>3, ConcatSeq
<1>5. \A i \in 1..n : p[k + i] = c[i]
  BY <1>3, ConcatRest
<1> HIDE DEF p, k
<1> DEFINE q == SubSeq(p, k + 1, k + n)
<1>6. DOMAIN q = 1..n /\ \A i \in 1..n : q[i] = p[k + i]
  <2> DEFINE S == {p[i] : i \in DOMAIN p}
  <2>1. p \in Seq(S)
    BY <1>4 DEF IsSeq
  <2> HIDE DEF S
  <2>2. DOMAIN q = 1..n
    BY <1>1, <1>4, <2>1
  <2>3. ASSUME NEW i \in 1..n PROVE q[i] = p[k + i]
    <3>1. q[i] = p[(k + 1) + i - 1] /\ (k + 1) + i - 1 = k + i
      BY <1>1, <1>4, <2>1
    <3>2. QED BY <3>1
  <2>4. QED BY <2>2, <2>3
<1> HIDE DEF q, n
<1>7. ReadValues(q) = [i \in 1..n |-> ReadValue(q[i])]
  BY <1>6 DEF ReadValues
<1>8. \A i \in 1..n : ReadValue(q[i]) = vs[i]
  BY <1>2, <1>5, <1>6, ReadsValue
<1>9. ReadValues(q) = vs
  <2>1. ReadValues(q) = [i \in 1..n |-> vs[i]]
    BY <1>7, <1>8, Zenon
  <2>2. vs = [i \in 1..n |-> vs[i]]
    BY <1>1 DEF n
  <2>3. QED BY <2>1, <2>2
<1>10. QED BY <1>4, <1>9 DEF p, c, k, n, q

(* The places of the row and of the value of a replacement. *)
LEMMA Halves ==
    ASSUME NEW n \in Nat, NEW k \in 1..n
    PROVE  /\ 2 * k - 1 \in 1..2 * n /\ 2 * k \in 1..2 * n
           /\ 1 + (2 * k - 1) = 2 * k /\ 1 + 2 * k = 2 * k + 1
           /\ (2 * k - 1) % 2 = 1 /\ ((2 * k - 1) + 1) \div 2 = k
           /\ (2 * k) % 2 # 1 /\ (2 * k + 1) \div 2 = k
  OBVIOUS

(* The replacements of a record are read back. *)
LEMMA ReadsReplacements ==
    ASSUME NEW n \in Nat, NEW rs \in [1..n -> [row : Nat, value : RowValues]],
           NEW p, p = <<CountCell(n)>> \o ReplacementCells(rs)
    PROVE  /\ Len(p) = 1 + 2 * n /\ p # << >> /\ p[1] = CountCell(n)
           /\ \A k \in 1..n : ReadCount(p[2 * k]) = rs[k].row /\ ReadValue(p[2 * k + 1]) = rs[k].value
<1> DEFINE c == ReplacementCells(rs)
           h == <<CountCell(n)>>
<1>1. Len(rs) = n
  <2> DEFINE R == [row : Nat, value : RowValues]
  <2>1. rs \in [1..n -> R]
    OBVIOUS
  <2> HIDE DEF R
  <2>2. QED BY <2>1
<1>2. 2 * n \in Nat
  OBVIOUS
<1>3. /\ DOMAIN c = 1..2 * n /\ c = [i \in 1..2 * n |-> c[i]]
      /\ \A i \in 1..2 * n : c[i] = IF i % 2 = 1 THEN RowCell(rs[(i + 1) \div 2].row)
                                    ELSE ValueCell(rs[(i + 1) \div 2].value)
  BY <1>1 DEF ReplacementCells
<1> HIDE DEF c
<1>4. IsSeq(c) /\ Len(c) = 2 * n
  BY <1>2, <1>3, FunctionSeq
<1>5. IsSeq(h) /\ Len(h) = 1 /\ h[1] = CountCell(n)
  BY SeqIsSeq, <<CountCell(n)>> \in Seq({CountCell(n)})
<1> HIDE DEF h
<1>6. IsSeq(p) /\ Len(p) = 1 + 2 * n /\ p[1] = CountCell(n)
  <2>1. p = h \o c
    BY DEF h, c
  <2>2. IsSeq(h) /\ IsSeq(c)
    BY <1>4, <1>5
  <2>3. /\ IsSeq(h \o c) /\ Len(h \o c) = Len(h) + Len(c)
        /\ \A i \in 1..Len(h) : (h \o c)[i] = h[i]
    BY <2>2, ConcatSeq, Zenon
  <2>4. 1 \in 1..Len(h)
    BY <1>5
  <2>5. QED BY <1>4, <1>5, <2>1, <2>3, <2>4
<1>7. \A i \in 1..2 * n : p[1 + i] = c[i]
  <2>1. \A i \in 1..Len(c) : (h \o c)[Len(h) + i] = c[i]
    <3>1. IsSeq(h) /\ IsSeq(c)
      BY <1>4, <1>5
    <3>2. QED BY <3>1, ConcatRest, Zenon
  <2>2. QED BY <1>4, <1>5, <2>1 DEF h, c
<1>8. p # << >>
  <2>1. Len(p) # 0
    BY <1>2, <1>6
  <2>2. QED BY <2>1
<1>9. ASSUME NEW k \in 1..n
      PROVE  ReadCount(p[2 * k]) = rs[k].row /\ ReadValue(p[2 * k + 1]) = rs[k].value
  <2>1. /\ 2 * k - 1 \in 1..2 * n /\ 2 * k \in 1..2 * n
        /\ 1 + (2 * k - 1) = 2 * k /\ 1 + 2 * k = 2 * k + 1
    BY Halves
  <2>2. /\ (2 * k - 1) % 2 = 1 /\ ((2 * k - 1) + 1) \div 2 = k
        /\ (2 * k) % 2 # 1 /\ (2 * k + 1) \div 2 = k
    BY Halves
  <2>3. p[2 * k] = RowCell(rs[k].row)
    <3>1. p[2 * k] = c[2 * k - 1]
      BY <1>7, <2>1
    <3>2. c[2 * k - 1] = RowCell(rs[((2 * k - 1) + 1) \div 2].row)
      BY <1>3, <2>1, <2>2
    <3>3. QED BY <2>2, <3>1, <3>2
  <2>4. p[2 * k + 1] = ValueCell(rs[k].value)
    <3>1. p[2 * k + 1] = c[2 * k]
      BY <1>7, <2>1
    <3>2. c[2 * k] = ValueCell(rs[(2 * k + 1) \div 2].value)
      BY <1>3, <2>1, <2>2
    <3>3. QED BY <2>2, <3>1, <3>2
  <2>5. ReadCount(RowCell(rs[k].row)) = rs[k].row
    BY DEF ReadCount, RowCell
  <2>6. QED BY <2>3, <2>4, <2>5, ReadsValue
<1>10. QED BY <1>6, <1>8, <1>9

(* A bootstrap record restores the rows it was written from. *)
LEMMA DecodesBootstrap ==
    ASSUME NEW r \in Seq(RowValues), Len(r) <= RowCap, NEW rs
    PROVE  ApplyRecord("bootstrap", 0, EncodePayload(BootstrapOp(r)), FALSE, rs) = Decoded(r)
<1> DEFINE h == <<SettingsCell, CountCell(Len(r))>>
           p == h \o ValueCells(r)
<1>1. IsSeq(h) /\ Len(h) = 2 /\ h[1] = SettingsCell /\ h[2] = CountCell(Len(r))
  BY SeqIsSeq, h \in Seq({SettingsCell, CountCell(Len(r))})
<1>2. EncodePayload(BootstrapOp(r)) = p
  BY DEF EncodePayload, BootstrapOp
<1> HIDE DEF h
<1>3. /\ Len(p) = Len(h) + Len(r)
      /\ \A i \in 1..Len(h) : p[i] = h[i]
      /\ ReadValues(SubSeq(p, Len(h) + 1, Len(p))) = r
  BY <1>1, ReadsValues
<1> HIDE DEF p
<1>4. Len(p) = 2 + Len(r) /\ p[1] = SettingsCell /\ p[2] = CountCell(Len(r))
  BY <1>1, <1>3
<1>5. ReadValues(SubSeq(p, 3, Len(p))) = r
  BY <1>1, <1>3
<1>6. p[1].cap = RowCap /\ ReadCount(p[2]) = Len(r)
  BY <1>4 DEF SettingsCell, CountCell, ReadCount
<1>7. ~(Len(p) < 2) /\ ~(Len(r) > RowCap)
  BY <1>4, LimitAssumption
<1>8. DecodeBootstrap(p) = Decoded(r)
  BY <1>5, <1>6, <1>7 DEF DecodeBootstrap
<1>9. ApplyRecord("bootstrap", 0, p, FALSE, rs) = DecodeBootstrap(p)
  BY DEF ApplyRecord, Kinds
<1>10. QED BY <1>2, <1>8, <1>9

(* An append, by the record kind of the column's nullability. *)
LEMMA DecodesAppend ==
    ASSUME NEW vs \in Seq(RowValues), NEW rs \in Seq(RowValues),
           Len(rs) + Len(vs) <= RowCap, NEW n
    PROVE  ApplyRecord(AppendOp(vs).kind, n, EncodePayload(AppendOp(vs)), TRUE, rs)
             = Decoded(rs \o vs)
<1> DEFINE h == <<CountCell(Len(vs))>>
           p == h \o ValueCells(vs)
           kind == AppendOp(vs).kind
<1>1. IsSeq(h) /\ Len(h) = 1 /\ h[1] = CountCell(Len(vs))
  BY SeqIsSeq, h \in Seq({CountCell(Len(vs))})
<1>2. EncodePayload(AppendOp(vs)) = p
  BY DEF EncodePayload, AppendOp
<1> HIDE DEF h
<1>3. /\ Len(p) = Len(h) + Len(vs)
      /\ \A i \in 1..Len(h) : p[i] = h[i]
      /\ ReadValues(SubSeq(p, Len(h) + 1, Len(p))) = vs
  BY <1>1, ReadsValues
<1> HIDE DEF p
<1>4. Len(p) = 1 + Len(vs) /\ p[1] = CountCell(Len(vs))
  BY <1>1, <1>3
<1>5. ReadValues(SubSeq(p, 2, Len(p))) = vs
  BY <1>1, <1>3
<1>6. ReadCount(p[1]) = Len(vs) /\ ~(Len(p) < 1) /\ ~(Len(rs) + Len(vs) > RowCap)
  BY <1>4, LimitAssumption DEF CountCell, ReadCount
<1>7. ApplyAppend(rs, p, Nullable) = Decoded(rs \o vs)
  BY <1>5, <1>6 DEF ApplyAppend
<1>8. CASE Nullable = TRUE
  <2>1. kind = "nullable_append"
    BY <1>8 DEF AppendOp
  <2>2. ApplyRecord("nullable_append", n, p, TRUE, rs) = ApplyAppend(rs, p, TRUE)
    BY DEF ApplyRecord, Kinds
  <2>3. QED BY <1>2, <1>7, <1>8, <2>1, <2>2
<1>9. CASE Nullable = FALSE
  <2>1. kind = "append"
    BY <1>9 DEF AppendOp
  <2>2. ApplyRecord("append", n, p, TRUE, rs) = ApplyAppend(rs, p, FALSE)
    BY DEF ApplyRecord, Kinds
  <2>3. QED BY <1>2, <1>7, <1>9, <2>1, <2>2
<1>10. QED BY <1>8, <1>9, LimitAssumption

(* A replacement, likewise. *)
LEMMA DecodesReplace ==
    ASSUME NEW k \in Nat, NEW new \in [1..k -> [row : Nat, value : RowValues]],
           \A i, j \in DOMAIN new : i < j => new[i].row < new[j].row,
           NEW rs \in Seq(RowValues), \A i \in DOMAIN new : new[i].row < Len(rs), NEW n
    PROVE  ApplyRecord(ReplaceOp(new).kind, n, EncodePayload(ReplaceOp(new)), TRUE, rs)
             = Decoded(ReplaceRows(rs, new))
<1> DEFINE R == [row : Nat, value : RowValues]
           kind == ReplaceOp(new).kind
           p == <<CountCell(k)>> \o ReplacementCells(new)
           read == [i \in 1..k |-> [row |-> ReadCount(p[2 * i]), value |-> ReadValue(p[2 * i + 1])]]
<1>1. Len(new) = k /\ DOMAIN new = 1..k
  <2>1. new \in [1..k -> R]
    OBVIOUS
  <2> HIDE DEF R
  <2>2. QED BY <2>1
<1>2. EncodePayload(ReplaceOp(new)) = p
  BY <1>1 DEF EncodePayload, ReplaceOp
<1>3. /\ Len(p) = 1 + 2 * k /\ p # << >> /\ p[1] = CountCell(k)
      /\ \A i \in 1..k : ReadCount(p[2 * i]) = new[i].row /\ ReadValue(p[2 * i + 1]) = new[i].value
  BY ReadsReplacements
<1> HIDE DEF p
<1>4. read = new
  <2>1. \A i \in 1..k : new[i] = [row |-> new[i].row, value |-> new[i].value]
    OBVIOUS
  <2>2. read = [i \in 1..k |-> [row |-> new[i].row, value |-> new[i].value]]
    BY <1>3
  <2>3. [i \in 1..k |-> [row |-> new[i].row, value |-> new[i].value]] = [i \in 1..k |-> new[i]]
    BY <2>1
  <2>4. QED BY <2>2, <2>3
<1>5. ReadCount(p[1]) = k
  BY <1>3 DEF CountCell, ReadCount
<1>6. ~ \E i \in 1..k : \/ new[i].row >= Len(rs)
                        \/ i > 1 /\ new[i].row <= new[i - 1].row
  <2>1. SUFFICES ASSUME NEW i \in 1..k
                 PROVE  ~(new[i].row >= Len(rs)) /\ ~(i > 1 /\ new[i].row <= new[i - 1].row)
    OBVIOUS
  <2>2. new[i].row \in Nat /\ Len(rs) \in Nat /\ new[i].row < Len(rs)
    BY <1>1
  <2>3. ASSUME i > 1 PROVE ~(new[i].row <= new[i - 1].row)
    <3>1. i - 1 \in 1..k /\ i - 1 < i
      BY <2>3
    <3>2. new[i - 1].row \in Nat /\ new[i - 1].row < new[i].row
      BY <1>1, <3>1
    <3>3. QED BY <2>2, <3>2
  <2>4. QED BY <2>2, <2>3
<1>7. ApplyReplace(rs, p, Nullable) = Decoded(ReplaceRows(rs, new))
  <2> DEFINE m == IF p = << >> THEN 0 ELSE ReadCount(p[1])
             got == [i \in 1..m |-> [row |-> ReadCount(p[2 * i]), value |-> ReadValue(p[2 * i + 1])]]
  <2>1. m = k
    BY <1>3, <1>5
  <2>2. got = new
    BY <1>4, <2>1
  <2>3. /\ ~(Len(p) < 1) /\ Len(p) = 1 + 2 * m
        /\ ~ \E i \in 1..m : \/ got[i].row >= Len(rs)
                             \/ i > 1 /\ got[i].row <= got[i - 1].row
    <3> HIDE DEF m, got
    <3>1. QED BY <1>3, <1>6, <2>1, <2>2
  <2>4. ApplyReplace(rs, p, Nullable) =
          IF Len(p) < 1 THEN Malformed("replacement count")
          ELSE IF Nullable # Nullable THEN Malformed("replacement kind")
          ELSE IF Len(p) # 1 + 2 * m THEN Malformed("replacement values")
          ELSE IF \E i \in 1..m : \/ got[i].row >= Len(rs)
                                  \/ i > 1 /\ got[i].row <= got[i - 1].row
               THEN Malformed("replacement row selection")
          ELSE Decoded(ReplaceRows(rs, got))
    BY DEF ApplyReplace
  <2> HIDE DEF m, got
  <2>5. QED BY <2>2, <2>3, <2>4
<1>8. CASE Nullable = TRUE
  <2>1. kind = "nullable_replace"
    BY <1>8 DEF ReplaceOp
  <2>2. ApplyRecord("nullable_replace", n, p, TRUE, rs) = ApplyReplace(rs, p, TRUE)
    BY DEF ApplyRecord, Kinds
  <2>3. QED BY <1>2, <1>7, <1>8, <2>1, <2>2
<1>9. CASE Nullable = FALSE
  <2>1. kind = "replace"
    BY <1>9 DEF ReplaceOp
  <2>2. ApplyRecord("replace", n, p, TRUE, rs) = ApplyReplace(rs, p, FALSE)
    BY DEF ApplyRecord, Kinds
  <2>3. QED BY <1>2, <1>7, <1>9, <2>1, <2>2
<1>10. QED BY <1>8, <1>9, LimitAssumption

(* Every operation the engine may log is decoded to its effect on the rows. *)
LEMMA DecodesLogged ==
    ASSUME NEW op, NEW n, NEW booted, NEW rs \in Seq(RowValues), Len(rs) <= RowCap,
           Loggable(op, booted, n, rs)
    PROVE  /\ IsSeq(EncodePayload(op)) /\ Len(EncodePayload(op)) \in Nat
           /\ ApplyRecord(op.kind, n, EncodePayload(op), booted, rs) = Decoded(Apply(op, rs))
           /\ Apply(op, rs) \in Seq(RowValues) /\ Len(Apply(op, rs)) <= RowCap
<1>1. CASE booted = FALSE /\ n = 0 /\ \E r \in Seq(RowValues) : Len(r) <= RowCap /\ op = BootstrapOp(r)
  <2>1. PICK r \in Seq(RowValues) : Len(r) <= RowCap /\ op = BootstrapOp(r)
    BY <1>1
  <2>2. op.kind = "bootstrap" /\ Apply(op, rs) = r
    BY <2>1 DEF BootstrapOp, Apply
  <2>3. QED BY <1>1, <2>1, <2>2, DecodesBootstrap, PayloadIsSeq
<1>2. CASE op \in Ops /\ booted = TRUE /\ Accepts(op, rs)
  <2>0. /\ IsSeq(EncodePayload(op)) /\ Len(EncodePayload(op)) \in Nat
        /\ Apply(op, rs) \in Seq(RowValues) /\ Len(Apply(op, rs)) <= RowCap
    BY <1>2, PayloadIsSeq, ApplyType
  <2>1. CASE op \in AppendOps
    <3>0. PICK k \in 0..MaxBatch : \E vs \in [1..k -> RowValues] : op = AppendOp(vs)
      BY <2>1 DEF AppendOps
    <3>1. PICK vs \in [1..k -> RowValues] : op = AppendOp(vs)
      BY <3>0
    <3>2. vs \in Seq(RowValues)
      BY LimitAssumption
    <3>3. op.kind \in {"append", "nullable_append"} /\ op.values = vs
      BY <3>1 DEF AppendOp
    <3>4. Len(rs) + Len(vs) <= RowCap /\ Apply(op, rs) = rs \o vs
      BY <1>2, <3>3 DEF Accepts, Apply
    <3>5. QED BY <1>2, <2>0, <3>1, <3>2, <3>4, DecodesAppend
  <2>2. CASE op = TruncateOp
    <3>1. EncodePayload(op) = << >> /\ op.kind = "truncate" /\ Apply(op, rs) = << >>
      BY <2>2 DEF TruncateOp, EncodePayload, Apply
    <3>2. ApplyRecord("truncate", n, << >>, TRUE, rs) = Decoded(<< >>)
      BY DEF ApplyRecord, Kinds, ApplyTruncate
    <3>3. QED BY <1>2, <2>0, <3>1, <3>2
  <2>3. CASE op \in ReplaceOps
    <3> DEFINE R == [row : 0..RowCap - 1, value : RowValues]
    <3>0. PICK new \in {r \in UNION {[1..k -> R] : k \in 0..MaxBatch} :
                          \A i, j \in DOMAIN r : i < j => r[i].row < r[j].row} : op = ReplaceOp(new)
      BY <2>3 DEF ReplaceOps
    <3>1. PICK k \in 0..MaxBatch : new \in [1..k -> R]
      OBVIOUS
    <3>2. /\ k \in Nat /\ new \in [1..k -> [row : Nat, value : RowValues]]
          /\ \A i, j \in DOMAIN new : i < j => new[i].row < new[j].row
      BY <3>0, <3>1, LimitAssumption
    <3>3. op.kind \in {"replace", "nullable_replace"} /\ op.replacements = new
      BY <3>0 DEF ReplaceOp
    <3>4. (\A i \in DOMAIN new : new[i].row < Len(rs)) /\ Apply(op, rs) = ReplaceRows(rs, new)
      BY <1>2, <3>3 DEF Accepts, Apply
    <3>5. QED BY <1>2, <2>0, <3>0, <3>2, <3>4, DecodesReplace
  <2>4. QED BY <1>2, <2>1, <2>2, <2>3 DEF Ops
<1>3. QED BY <1>1, <1>2 DEF Loggable

-----------------------------------------------------------------------------
(* What recovery makes of a log that ends in a torn record. *)

(* Behind the first k cells there is what a write of one frame may leave: a
   prefix of it, and with Holes cells of it that were lost. *)
Torn(cells, k, op, n) ==
    /\ Len(cells) <= k + (4 + Len(EncodePayload(op)))
    /\ \A i \in k + 1..Len(cells) :
         cells[i] = Frame(op, n)[i - k] \/ (Holes /\ cells[i] = ZeroCell)

(* Nothing of the frame but a prefix. *)
Exact(cells, k, op, n) ==
    /\ Len(cells) <= k + (4 + Len(EncodePayload(op)))
    /\ \A i \in k + 1..Len(cells) : cells[i] = Frame(op, n)[i - k]

(* A file holds n records which amount to rs, and behind them at most a torn
   one that was not acknowledged. *)
FileLog(f, pr, id, n, booted, rs) ==
    /\ booted \in BOOLEAN /\ (booted = TRUE <=> f.acked > 0)
    /\ n \in Nat /\ rs \in Seq(RowValues) /\ Len(rs) <= RowCap
    /\ Reaches(f.cells, At(f.acked, n, booted, rs))
    /\ booted = TRUE => pr = SomeRows(rs)
    /\ booted = FALSE => pr = NoRows /\ n = 0 /\ rs = << >>
    /\ f.acked < Len(f.cells) =>
         \E op : /\ Loggable(op, booted, n, rs)
                 /\ Len(EncodePayload(op)) <= MaxRecordBytes
                 /\ n + 1 <= MaxRecords
                 /\ id = SomeRows(Apply(op, rs))
                 /\ Torn(f.cells, f.acked, op, n)

(* The places of the cells of a frame that begins behind k. *)
LEMMA TailPlaces ==
    ASSUME NEW k \in Nat, NEW len \in Nat, NEW m \in Nat, k + 2 <= len
    PROVE  /\ k + 1 \in k + 1..len /\ (k + 1) - k = 1
           /\ k + 2 \in k + 1..len /\ (k + 2) - k = 2
           /\ k + 4 + m <= len => /\ (k + 4 + m) - 1 \in k + 1..len
                                  /\ ((k + 4 + m) - 1) - k = 3 + m
                                  /\ k + 4 + m \in k + 1..len
                                  /\ (k + 4 + m) - k = 4 + m
  OBVIOUS

TornOutcome(cells, k, n, booted, rs, op) ==
    \/ \E e : ReplayFrame(cells, MaxRecords, At(k, n, booted, rs))
                 = Stop(At(k, n, booted, rs), e)
    \/ /\ Len(cells) = k + (4 + Len(EncodePayload(op)))
       /\ LengthOf(cells[k + 2]) = Len(EncodePayload(op))
       /\ ReplayFrame(cells, MaxRecords, At(k, n, booted, rs))
            = At(Len(cells), n + 1, TRUE, Apply(op, rs))

(* A torn frame either stops the loop or is there as a whole, up to the end
   of the file: the checksum covers every cell of the payload. *)
LEMMA TornFrame ==
    ASSUME NEW cells, IsSeq(cells), NEW k \in Nat, k <= Len(cells), NEW n, NEW booted,
           NEW rs \in Seq(RowValues), Len(rs) <= RowCap,
           NEW op, Loggable(op, booted, n, rs), Torn(cells, k, op, n)
    PROVE  TornOutcome(cells, k, n, booted, rs, op)
<1> SUFFICES ASSUME NEW s, s = At(k, n, booted, rs)
    PROVE  \/ \E e : ReplayFrame(cells, MaxRecords, s) = Stop(s, e)
           \/ /\ Len(cells) = k + (4 + Len(EncodePayload(op)))
              /\ LengthOf(cells[k + 2]) = Len(EncodePayload(op))
              /\ ReplayFrame(cells, MaxRecords, s) = At(Len(cells), n + 1, TRUE, Apply(op, rs))
  BY Zenon DEF TornOutcome
<1> DEFINE P == EncodePayload(op)
           m == Len(P)
           f == Frame(op, n)
           sum == Checksum(Version, op.kind, 0, n, P)
<1>1. /\ s.offset = k /\ s.records = n /\ s.booted = booted /\ s.rows = rs
  BY DEF At
<1>2. /\ IsSeq(P) /\ m \in Nat
      /\ ApplyRecord(op.kind, n, P, booted, rs) = Decoded(Apply(op, rs))
  BY DecodesLogged
<1>3. SUFFICES ASSUME Passes(cells, s)
               PROVE  /\ Len(cells) = k + (4 + m)
                      /\ LengthOf(cells[k + 2]) = m
                      /\ Passed(cells, s) = At(Len(cells), n + 1, TRUE, Apply(op, rs))
  BY FrameDecides, Zenon
<1>4. Len(cells) \in Nat
  BY LenNat
<1>5. k + 2 <= Len(cells)
  BY <1>1, <1>3, <1>4 DEF Passes, HeadPasses, HeaderLen
<1>6. /\ k + 1 \in k + 1..Len(cells) /\ (k + 1) - k = 1
      /\ k + 2 \in k + 1..Len(cells) /\ (k + 2) - k = 2
  BY <1>2, <1>4, <1>5, TailPlaces
<1>7. /\ f[1] = [t |-> "magic", version |-> Version, kind |-> op.kind,
                 reserved |-> 0, sequence |-> n]
      /\ f[2] = [t |-> "length", len |-> m, checksum |-> sum]
  BY <1>2, FrameCells
<1>8. cells[k + 1] = f[1]
  <2>1. cells[k + 1] = f[1] \/ cells[k + 1] = ZeroCell
    BY <1>6, Zenon DEF Torn
  <2>2. cells[k + 1].t = "magic"
    BY <1>1, <1>3 DEF Passes, HeadPasses
  <2>3. ZeroCell.t # "magic"
    BY DEF ZeroCell
  <2>4. QED BY <2>1, <2>2, <2>3
<1>9. /\ cells[k + 1].version = Version /\ cells[k + 1].kind = op.kind
      /\ cells[k + 1].reserved = 0 /\ cells[k + 1].sequence = n
  BY <1>7, <1>8
<1>10. ChecksumOf(cells[k + 2]) = Checksum(Version, op.kind, 0, n, PayloadAt(cells, k))
  BY <1>1, <1>3, <1>9, Zenon DEF Passes, BodyPasses
<1>11. cells[k + 2] = f[2]
  <2>1. cells[k + 2] = f[2] \/ cells[k + 2] = ZeroCell
    BY <1>6, Zenon DEF Torn
  <2>2. ASSUME cells[k + 2] = ZeroCell PROVE FALSE
    <3>1. ChecksumOf(ZeroCell) = << >>
      BY DEF ChecksumOf, ZeroCell
    <3>2. \A q : << >> # Checksum(Version, op.kind, 0, n, q)
      BY DEF Checksum
    <3>3. << >> = Checksum(Version, op.kind, 0, n, PayloadAt(cells, k))
      BY <1>10, <2>2, <3>1, Zenon
    <3>4. QED BY <3>2, <3>3
  <2>3. QED BY <2>1, <2>2
<1>12. LengthOf(cells[k + 2]) = m /\ ChecksumOf(cells[k + 2]) = sum
  BY <1>7, <1>11 DEF LengthOf, ChecksumOf
<1>13. PayloadAt(cells, k) = P
  <2>1. \A q : Checksum(Version, op.kind, 0, n, q)[5] = q
    BY DEF Checksum
  <2>2. QED BY <1>10, <1>12, <2>1
<1>14. FrameEnd(cells, k) = k + (4 + m)
  <2>1. FrameEnd(cells, k) = k + FrameOverhead + m
    BY <1>12 DEF FrameEnd
  <2>2. QED BY <1>2, <2>1 DEF FrameOverhead, HeaderLen, CommitLen
<1>15. Len(cells) = k + (4 + m)
  <2>1. ~(k + (4 + m) > Len(cells))
    BY <1>1, <1>3, <1>14 DEF Passes, BodyPasses
  <2>2. Len(cells) <= k + (4 + m)
    BY DEF Torn
  <2>3. QED BY <1>2, <1>4, <2>1, <2>2
<1>16. AppliedAt(cells, s) = Decoded(Apply(op, rs))
  BY <1>1, <1>2, <1>9, <1>13, Zenon DEF AppliedAt
<1>17. AppliedAt(cells, s).rows = Apply(op, rs)
  BY <1>16 DEF Decoded
<1>18. QED BY <1>1, <1>12, <1>14, <1>15, <1>17, Zenon DEF Passed

(* At the end of the file the loop stops. *)
LEMMA EndStops ==
    ASSUME NEW cells, IsSeq(cells), NEW s, s.offset = Len(cells)
    PROVE  ReplayFrame(cells, MaxRecords, s) = Stop(s, "none")
<1>1. Len(cells) \in Nat
  BY LenNat
<1>2. Len(cells) - s.offset < HeaderLen
  BY <1>1 DEF HeaderLen
<1>3. QED BY <1>2 DEF ReplayFrame

(* What becomes of a log whose loop stops at some state. *)
LEMMA StopVerdict ==
    ASSUME NEW k, NEW n, NEW booted, NEW rs, NEW e, NEW s, s = At(k, n, booted, rs)
    PROVE  /\ Stop(s, e).done = TRUE
           /\ Verdict(Stop(s, e)) =
                [err |-> IF e = "none" /\ ~booted THEN "missing bootstrap" ELSE e,
                 rows |-> rs, records |-> n]
<1>1. /\ Stop(s, e).done = TRUE /\ Stop(s, e).err = e
      /\ Stop(s, e).rows = rs /\ Stop(s, e).records = n
  BY DEF At, Stop
<1>2. Stop(s, e).booted = booted
  BY DEF At, Stop
<1>3. QED BY <1>1, <1>2, Zenon DEF Verdict

(* The length of a payload, as encoded_payload_len finds it in its own cells. *)
LEMMA PayloadShape ==
    ASSUME NEW op, NEW n, NEW booted, NEW rs, Loggable(op, booted, n, rs),
           NEW p, p = EncodePayload(op)
    PROVE  /\ Len(p) \in Nat
           /\ \/ op.kind = "bootstrap" /\ Len(p) >= 2 /\ Len(p) = 2 + ReadCount(p[2])
              \/ /\ op.kind \in {"append", "nullable_append"}
                 /\ Len(p) >= 1 /\ Len(p) = 1 + ReadCount(p[1])
              \/ op.kind = "truncate" /\ Len(p) = 0
              \/ /\ op.kind \in {"replace", "nullable_replace"}
                 /\ Len(p) >= 1 /\ Len(p) = 1 + 2 * ReadCount(p[1])
<1>0. \A j : ReadCount(CountCell(j)) = j
  BY DEF ReadCount, CountCell
<1>1. ASSUME NEW r \in Seq(RowValues), op = BootstrapOp(r)
      PROVE  /\ Len(p) \in Nat /\ op.kind = "bootstrap" /\ Len(p) >= 2
             /\ Len(p) = 2 + ReadCount(p[2])
  <2> DEFINE h == <<SettingsCell, CountCell(Len(r))>>
  <2>1. IsSeq(h) /\ Len(h) = 2 /\ h[2] = CountCell(Len(r))
    BY SeqIsSeq, h \in Seq({SettingsCell, CountCell(Len(r))})
  <2>2. op.kind = "bootstrap" /\ p = h \o ValueCells(r)
    BY <1>1 DEF EncodePayload, BootstrapOp
  <2> HIDE DEF h
  <2>3. /\ Len(h \o ValueCells(r)) = Len(h) + Len(r)
        /\ \A i \in 1..Len(h) : (h \o ValueCells(r))[i] = h[i]
    BY <2>1, ReadsValues
  <2>4. p[2] = CountCell(Len(r)) /\ Len(p) = 2 + Len(r) /\ Len(r) \in Nat
    BY <2>1, <2>2, <2>3
  <2>5. ReadCount(p[2]) = Len(r)
    BY <1>0, <2>4
  <2>6. QED BY <2>2, <2>4, <2>5
<1>2. ASSUME NEW vs \in Seq(RowValues), op = AppendOp(vs)
      PROVE  /\ Len(p) \in Nat /\ op.kind \in {"append", "nullable_append"}
             /\ Len(p) >= 1 /\ Len(p) = 1 + ReadCount(p[1])
  <2> DEFINE h == <<CountCell(Len(vs))>>
  <2>1. IsSeq(h) /\ Len(h) = 1 /\ h[1] = CountCell(Len(vs))
    BY SeqIsSeq, h \in Seq({CountCell(Len(vs))})
  <2>2. op.kind \in {"append", "nullable_append"} /\ p = h \o ValueCells(vs)
    BY <1>2 DEF EncodePayload, AppendOp
  <2> HIDE DEF h
  <2>3. /\ Len(h \o ValueCells(vs)) = Len(h) + Len(vs)
        /\ \A i \in 1..Len(h) : (h \o ValueCells(vs))[i] = h[i]
    BY <2>1, ReadsValues
  <2>4. p[1] = CountCell(Len(vs)) /\ Len(p) = 1 + Len(vs) /\ Len(vs) \in Nat
    BY <2>1, <2>2, <2>3
  <2>5. ReadCount(p[1]) = Len(vs)
    BY <1>0, <2>4
  <2>6. QED BY <2>2, <2>4, <2>5
<1>3. ASSUME op = TruncateOp
      PROVE  Len(p) \in Nat /\ op.kind = "truncate" /\ Len(p) = 0
  <2>1. op.kind = "truncate" /\ p = << >>
    BY <1>3 DEF TruncateOp, EncodePayload
  <2>2. QED BY <2>1
<1>4. ASSUME NEW k \in Nat, NEW new \in [1..k -> [row : Nat, value : RowValues]],
             op = ReplaceOp(new)
      PROVE  /\ Len(p) \in Nat /\ op.kind \in {"replace", "nullable_replace"}
             /\ Len(p) >= 1 /\ Len(p) = 1 + 2 * ReadCount(p[1])
  <2> DEFINE R == [row : Nat, value : RowValues]
  <2>1. Len(new) = k
    <3>1. new \in [1..k -> R]
      OBVIOUS
    <3> HIDE DEF R
    <3>2. QED BY <3>1
  <2>2. op.kind \in {"replace", "nullable_replace"} /\ op.replacements = new
    BY <1>4 DEF ReplaceOp
  <2>3. p = <<CountCell(k)>> \o ReplacementCells(new)
    BY <2>1, <2>2 DEF EncodePayload
  <2>4. Len(p) = 1 + 2 * k /\ p[1] = CountCell(k)
    BY <2>3, ReadsReplacements
  <2>5. ReadCount(p[1]) = k
    BY <1>0, <2>4
  <2>6. QED BY <2>2, <2>4, <2>5
<1>5. CASE op \in Ops
  <2>1. CASE op \in AppendOps
    <3>0. PICK k \in 0..MaxBatch : \E vs \in [1..k -> RowValues] : op = AppendOp(vs)
      BY <2>1 DEF AppendOps
    <3>1. PICK vs \in [1..k -> RowValues] : op = AppendOp(vs)
      BY <3>0
    <3>2. vs \in Seq(RowValues)
      BY LimitAssumption
    <3>3. QED BY <1>2, <3>1, <3>2
  <2>2. CASE op \in ReplaceOps
    <3>1. PICK k \in 0..MaxBatch :
            \E new \in [1..k -> [row : 0..RowCap - 1, value : RowValues]] : op = ReplaceOp(new)
      BY <2>2 DEF ReplaceOps
    <3>2. PICK new \in [1..k -> [row : 0..RowCap - 1, value : RowValues]] : op = ReplaceOp(new)
      BY <3>1
    <3>3. k \in Nat /\ new \in [1..k -> [row : Nat, value : RowValues]]
      BY LimitAssumption
    <3>4. QED BY <1>4, <3>2, <3>3
  <2>3. QED BY <1>3, <1>5, <2>1, <2>2 DEF Ops
<1>6. QED BY <1>1, <1>5 DEF Loggable

(* A file that ends before a payload does, or before the footer, has no
   committed record there: the length derived from what is left of the
   payload is the declared one, which leaves the file. *)
LEMMA PrefixIsTorn ==
    ASSUME NEW cells, IsSeq(cells), NEW k \in Nat, NEW n, NEW booted, NEW rs,
           NEW op, Loggable(op, booted, n, rs),
           cells[k + 1].kind = op.kind, k + 2 <= Len(cells),
           Len(cells) < k + (4 + Len(EncodePayload(op))),
           \A i \in 1..Len(EncodePayload(op)) :
             k + 2 + i <= Len(cells) => cells[k + 2 + i] = EncodePayload(op)[i]
    PROVE  ~IsAuthenticated(cells, k)
<1> DEFINE p == EncodePayload(op)
           len == Len(cells)
           av == SubSeq(cells, k + HeaderLen + 1, len)
           derived == EncodedPayloadLen(op.kind, av)
<1>1. len \in Nat
  BY LenNat
<1>2. Len(p) \in Nat
  BY PayloadShape
<1>3. Len(av) = len - (k + 2) /\ \A i \in 1..len - (k + 2) : av[i] = cells[k + 2 + i]
  <2> DEFINE S == {cells[i] : i \in DOMAIN cells}
  <2>1. cells \in Seq(S) /\ k + HeaderLen + 1 = k + 3
    BY DEF IsSeq, HeaderLen
  <2> HIDE DEF S
  <2>2. Len(SubSeq(cells, k + 3, len)) = len - (k + 2)
    BY <1>1, <2>1
  <2>3. ASSUME NEW i \in 1..len - (k + 2) PROVE SubSeq(cells, k + 3, len)[i] = cells[k + 2 + i]
    <3>1. SubSeq(cells, k + 3, len)[i] = cells[(k + 3) + i - 1] /\ (k + 3) + i - 1 = k + 2 + i
      BY <1>1, <2>1
    <3>2. QED BY <3>1
  <2>4. QED BY <2>1, <2>2, <2>3
<1>3a. k + 2 <= len /\ len < k + (4 + Len(p))
       /\ \A i \in 1..Len(p) : k + 2 + i <= len => cells[k + 2 + i] = p[i]
  OBVIOUS
<1> HIDE DEF p, av, len
<1>4. Len(av) \in Nat
  BY <1>1, <1>3, <1>3a
<1>5. \A i \in 1..Len(p) : i <= Len(av) => av[i] = p[i]
  <2>1. SUFFICES ASSUME NEW i \in 1..Len(p), i <= Len(av) PROVE av[i] = p[i]
    OBVIOUS
  <2>2. i \in 1..len - (k + 2) /\ k + 2 + i <= len
    BY <1>1, <1>2, <1>3, <2>1
  <2>3. QED BY <1>3, <1>3a, <2>2
<1>6. derived.some = TRUE => derived.len = Len(p)
  <2>1. /\ 1 <= Len(p) /\ 1 <= Len(av) => av[1] = p[1]
        /\ 2 <= Len(p) /\ 2 <= Len(av) => av[2] = p[2]
    BY <1>2, <1>5
  <2>2. CASE op.kind = "bootstrap" /\ Len(p) >= 2 /\ Len(p) = 2 + ReadCount(p[2])
    BY <1>2, <1>4, <2>1, <2>2 DEF EncodedPayloadLen
  <2>3. CASE op.kind \in {"append", "nullable_append"} /\ Len(p) >= 1 /\ Len(p) = 1 + ReadCount(p[1])
    BY <1>2, <1>4, <2>1, <2>3 DEF EncodedPayloadLen
  <2>4. CASE op.kind = "truncate" /\ Len(p) = 0
    BY <2>4 DEF EncodedPayloadLen
  <2>5. CASE op.kind \in {"replace", "nullable_replace"} /\ Len(p) >= 1 /\ Len(p) = 1 + 2 * ReadCount(p[1])
    BY <1>2, <1>4, <2>1, <2>5 DEF EncodedPayloadLen
  <2>6. QED BY <2>2, <2>3, <2>4, <2>5, PayloadShape, Zenon DEF p
<1> HIDE DEF derived
<1>7. ~(Len(p) + 2 <= Len(av))
  BY <1>1, <1>2, <1>3, <1>3a
<1>8. IsAuthenticated(cells, k) => derived.some = TRUE /\ derived.len + 2 <= Len(av)
  BY DEF IsAuthenticated, derived, av, len, CommitLen
<1>9. QED BY <1>6, <1>7, <1>8

ExactOutcome(cells, k, n, booted, rs, op) ==
    IF Len(cells) = k + (4 + Len(EncodePayload(op)))
    THEN /\ ReplayFrame(cells, MaxRecords, At(k, n, booted, rs))
              = At(Len(cells), n + 1, TRUE, Apply(op, rs))
         /\ LengthOf(cells[k + 2]) = Len(EncodePayload(op))
    ELSE ReplayFrame(cells, MaxRecords, At(k, n, booted, rs)) = Stop(At(k, n, booted, rs), "none")

(* A frame that is there as a whole is replayed; of one that is not, nothing
   is, and it is no error. *)
LEMMA ExactFrame ==
    ASSUME NEW cells, IsSeq(cells), NEW k \in Nat, k <= Len(cells), NEW n \in Nat, NEW booted,
           NEW rs \in Seq(RowValues), Len(rs) <= RowCap,
           NEW op, Loggable(op, booted, n, rs), Len(EncodePayload(op)) <= MaxRecordBytes,
           n + 1 <= MaxRecords, Exact(cells, k, op, n)
    PROVE  ExactOutcome(cells, k, n, booted, rs, op)
<1> SUFFICES ASSUME NEW s, s = At(k, n, booted, rs)
    PROVE  IF Len(cells) = k + (4 + Len(EncodePayload(op)))
           THEN /\ ReplayFrame(cells, MaxRecords, s) = At(Len(cells), n + 1, TRUE, Apply(op, rs))
                /\ LengthOf(cells[k + 2]) = Len(EncodePayload(op))
           ELSE ReplayFrame(cells, MaxRecords, s) = Stop(s, "none")
  BY Zenon DEF ExactOutcome
<1> DEFINE P == EncodePayload(op)
           m == Len(P)
           f == Frame(op, n)
           len == Len(cells)
           sum == Checksum(Version, op.kind, 0, n, P)
<1>1. /\ s.offset = k /\ s.records = n /\ s.booted = booted /\ s.rows = rs
  BY DEF At
<1>2. /\ IsSeq(P) /\ m \in Nat
      /\ ApplyRecord(op.kind, n, P, booted, rs) = Decoded(Apply(op, rs))
  BY DecodesLogged
<1>3. len \in Nat /\ k <= len /\ len <= k + (4 + m) /\ m <= MaxRecordBytes
  BY LenNat DEF Exact
<1>4. \A i \in k + 1..len : cells[i] = f[i - k]
  BY DEF Exact
<1>5. /\ f[1] = [t |-> "magic", version |-> Version, kind |-> op.kind,
                 reserved |-> 0, sequence |-> n]
      /\ f[2] = [t |-> "length", len |-> m, checksum |-> sum]
      /\ \A i \in 1..m : f[2 + i] = P[i]
      /\ f[3 + m] = [t |-> "commit"]
      /\ f[4 + m] = [t |-> "commit_sequence", sequence |-> n]
  BY <1>2, FrameCells
<1> HIDE DEF P, f, len, sum
<1>6. ASSUME k + 2 <= len
      PROVE  /\ cells[k + 1] = f[1] /\ cells[k + 2] = f[2]
             /\ \A i \in 1..m : k + 2 + i <= len => cells[k + 2 + i] = P[i]
  <2>1. /\ k + 1 \in k + 1..len /\ (k + 1) - k = 1
        /\ k + 2 \in k + 1..len /\ (k + 2) - k = 2
    BY <1>2, <1>3, <1>6, TailPlaces
  <2>2. ASSUME NEW i \in 1..m, k + 2 + i <= len PROVE cells[k + 2 + i] = P[i]
    <3>1. k + 2 + i \in k + 1..len /\ (k + 2 + i) - k = 2 + i
      BY <1>2, <1>3, <2>2
    <3>2. cells[k + 2 + i] = f[2 + i]
      BY <1>4, <3>1, Zenon
    <3>3. QED BY <1>5, <3>2
  <2>3. cells[k + 1] = f[1] /\ cells[k + 2] = f[2]
    BY <1>4, <2>1, Zenon
  <2>4. QED BY <2>2, <2>3
<1>7. ASSUME k + 2 <= len
      PROVE  /\ cells[k + 1].t = "magic" /\ cells[k + 1].version = Version
             /\ cells[k + 1].kind = op.kind
             /\ cells[k + 1].reserved = 0 /\ cells[k + 1].sequence = n
             /\ LengthOf(cells[k + 2]) = m /\ ChecksumOf(cells[k + 2]) = sum
             /\ FrameEnd(cells, k) = k + (4 + m)
  <2>1. cells[k + 1] = f[1] /\ cells[k + 2] = f[2]
    BY <1>6, <1>7
  <2>2. LengthOf(cells[k + 2]) = m /\ ChecksumOf(cells[k + 2]) = sum
    BY <1>5, <2>1 DEF LengthOf, ChecksumOf
  <2>3. FrameEnd(cells, k) = k + (4 + m)
    <3>1. FrameEnd(cells, k) = k + FrameOverhead + m
      BY <2>2 DEF FrameEnd
    <3>2. QED BY <1>2, <3>1 DEF FrameOverhead, HeaderLen, CommitLen
  <2>4. QED BY <1>5, <2>1, <2>2, <2>3
<1>8. CASE len = k + (4 + m)
  <2>1. k + 2 <= len
    BY <1>2, <1>8
  <2>2. HeadPasses(cells, s)
    <3>1. ~(len - k < HeaderLen) /\ ~(m > MaxRecordBytes)
      BY <1>2, <1>3, <2>1, LimitAssumption DEF HeaderLen
    <3>2. QED BY <1>1, <1>7, <2>1, <3>1 DEF HeadPasses, len
  <2>3. PayloadAt(cells, k) = P
    <3> DEFINE q == SubSeq(cells, k + 3, k + 2 + m)
    <3>1. PayloadAt(cells, k) = q
      <4>1. PayloadAt(cells, k) = SubSeq(cells, k + 2 + 1, k + 2 + m)
        BY <1>7, <2>1, Zenon DEF PayloadAt, HeaderLen
      <4>2. k + 2 + 1 = k + 3
        OBVIOUS
      <4>3. QED BY <4>1, <4>2
    <3>2. Len(q) = m /\ DOMAIN q = 1..m /\ q = [i \in 1..m |-> q[i]]
      <4> DEFINE S == {cells[i] : i \in DOMAIN cells}
      <4>1. cells \in Seq(S) /\ len = Len(cells)
        BY DEF IsSeq, len
      <4> HIDE DEF S
      <4>2. q \in Seq(S) /\ Len(q) = m
        BY <1>2, <1>8, <4>1
      <4> HIDE DEF q
      <4>3. QED BY <1>2, <4>2
    <3>3. ASSUME NEW i \in 1..m PROVE q[i] = P[i]
      <4> DEFINE S == {cells[j] : j \in DOMAIN cells}
      <4>1. cells \in Seq(S) /\ len = Len(cells)
        BY DEF IsSeq, len
      <4> HIDE DEF S
      <4>2. (k + 3) + i - 1 = k + 2 + i /\ k + 2 + i <= len
        BY <1>2, <1>8
      <4>3. k + 3 \in Nat /\ k + 3 >= 1 /\ k + 2 + m \in Nat /\ k + 2 + m <= Len(cells)
            /\ i \in 1..(k + 2 + m) - (k + 3) + 1
        BY <1>2, <1>8, <4>1
      <4>4. q[i] = cells[(k + 3) + i - 1]
        <5> DEFINE a == k + 3
                   b == k + 2 + m
        <5>1. a \in Int /\ b \in Int /\ i \in 1..b - a + 1
          BY <4>3
        <5>2. \A j \in a..b : cells[j] \in S
          BY <4>1, <4>3
        <5> HIDE DEF a, b
        <5>3. SubSeq(cells, a, b)[i] = cells[a + i - 1]
          BY <5>1, <5>2, SubSeqProperties
        <5>4. QED BY <5>3 DEF a, b
      <4> HIDE DEF q
      <4>5. QED BY <1>6, <2>1, <4>2, <4>4
    <3> HIDE DEF q
    <3>4. DOMAIN P = 1..m /\ P = [i \in 1..m |-> P[i]]
      BY <1>2, LenNat DEF IsSeq
    <3>5. q = P
      BY <3>2, <3>3, <3>4
    <3>6. QED BY <3>1, <3>5
  <2>4. /\ cells[FrameEnd(cells, k) - 1].t = "commit"
        /\ SequenceOf(cells[FrameEnd(cells, k)]) = n
    <3>1. /\ (k + (4 + m)) - 1 \in k + 1..len /\ ((k + (4 + m)) - 1) - k = 3 + m
          /\ k + (4 + m) \in k + 1..len /\ (k + (4 + m)) - k = 4 + m
      BY <1>2, <1>8
    <3>2. cells[(k + (4 + m)) - 1] = f[3 + m] /\ cells[k + (4 + m)] = f[4 + m]
      BY <1>4, <3>1, Zenon
    <3>3. f[3 + m].t = "commit" /\ SequenceOf(f[4 + m]) = n
      BY <1>5 DEF SequenceOf
    <3>4. QED BY <1>7, <2>1, <3>2, <3>3, Zenon
  <2>5. AppliedAt(cells, s) = Decoded(Apply(op, rs))
    BY <1>1, <1>2, <1>7, <2>1, <2>3, Zenon DEF AppliedAt, P
  <2>6. AppliedAt(cells, s).err = "none" /\ AppliedAt(cells, s).rows = Apply(op, rs)
    BY <2>5 DEF Decoded
  <2>7. ~(FrameEnd(cells, k) > len) /\ ~(n + 1 > MaxRecords)
    BY <1>2, <1>3, <1>7, <1>8, <2>1, LimitAssumption
  <2>8. BodyPasses(cells, s)
    <3>1. ChecksumOf(cells[k + 2])
            = Checksum(cells[k + 1].version, cells[k + 1].kind, cells[k + 1].reserved,
                       cells[k + 1].sequence, PayloadAt(cells, k))
      BY <1>7, <2>1, <2>3, Zenon DEF sum
    <3>2. SequenceOf(cells[FrameEnd(cells, k)]) = cells[k + 1].sequence
      BY <1>7, <2>1, <2>4
    <3>3. QED BY <1>1, <2>4, <2>6, <2>7, <3>1, <3>2, Zenon DEF BodyPasses, len
  <2>9. Passed(cells, s) = At(len, n + 1, TRUE, Apply(op, rs))
    BY <1>1, <1>7, <1>8, <2>1, <2>6, Zenon DEF Passed
  <2>10. ReplayFrame(cells, MaxRecords, s) = Passed(cells, s)
    BY <2>2, <2>8, FrameDecides, Zenon DEF Passes
  <2>11. QED BY <1>7, <1>8, <2>1, <2>9, <2>10 DEF len, P
<1>9. CASE len # k + (4 + m)
  <2>1. CASE ~(k + 2 <= len)
    <3>1. Len(cells) - s.offset < HeaderLen
      BY <1>1, <1>3, <2>1 DEF HeaderLen, len
    <3>2. ReplayFrame(cells, MaxRecords, s) = Stop(s, "none")
      BY <3>1 DEF ReplayFrame
    <3>3. QED BY <1>9, <3>2 DEF len, P
  <2>2. CASE k + 2 <= len
    <3>1. len < k + (4 + m)
      BY <1>2, <1>3, <1>9
    <3>2. ~IsAuthenticated(cells, k)
      <4>1. cells[k + 1].kind = op.kind
        BY <1>7, <2>2
      <4>2. \A i \in 1..m : k + 2 + i <= len => cells[k + 2 + i] = P[i]
        BY <1>6, <2>2
      <4>3. QED BY <2>2, <3>1, <4>1, <4>2, PrefixIsTorn DEF len, P
    <3>3. /\ ~(len - k < HeaderLen) /\ ~(m > MaxRecordBytes) /\ FrameEnd(cells, k) > len
      BY <1>2, <1>3, <1>7, <2>2, <3>1, LimitAssumption DEF HeaderLen
    <3>4. ReplayFrame(cells, MaxRecords, s) = Stop(s, "none")
      <4> DEFINE frameEnd == s.offset + FrameOverhead + LengthOf(cells[s.offset + 2])
      <4>1. frameEnd = FrameEnd(cells, k)
        BY <1>1 DEF FrameEnd
      <4>2. /\ ~(Len(cells) - s.offset < HeaderLen)
            /\ cells[s.offset + 1].t = "magic" /\ cells[s.offset + 1].version = Version
            /\ cells[s.offset + 1].reserved = 0 /\ cells[s.offset + 1].sequence = s.records
            /\ ~(LengthOf(cells[s.offset + 2]) > MaxRecordBytes)
            /\ frameEnd > Len(cells) /\ ~IsAuthenticated(cells, s.offset)
        <5> HIDE DEF frameEnd
        <5>1. QED BY <1>1, <1>7, <2>2, <3>2, <3>3, <4>1 DEF len
      <4>3. QED BY <4>2, Zenon DEF ReplayFrame
    <3>5. QED BY <1>9, <3>4 DEF len, P
  <2>3. QED BY <2>1, <2>2
<1>10. QED BY <1>8, <1>9
(* The cells of a well-formed file and the part of it that is acknowledged. *)
LEMMA FileParts ==
    ASSUME NEW f, FileTypeOK(f)
    PROVE  /\ IsSeq(f.cells) /\ Len(f.cells) \in Nat
           /\ f.acked \in Nat /\ f.acked <= Len(f.cells)
<1>1. /\ IsSeq(f.cells) /\ f.acked \in Nat /\ f.synced \in Nat
      /\ f.acked <= f.synced /\ f.synced <= Len(f.cells)
  BY DEF FileTypeOK
<1>2. Len(f.cells) \in Nat
  BY <1>1, LenNat
<1>3. QED BY <1>1, <1>2

(* A loop that stops has replayed the records before it; to stop without an
   error it needs a bootstrap among them. *)
LEMMA Stopped ==
    ASSUME NEW cells, IsSeq(cells), NEW k \in Nat, k <= Len(cells), NEW n,
           NEW booted \in BOOLEAN, NEW rs, Reaches(cells, At(k, n, booted, rs)), NEW e,
           ReplayFrame(cells, MaxRecords, At(k, n, booted, rs)) = Stop(At(k, n, booted, rs), e)
    PROVE  /\ Replay(cells, MaxRecords).rows = rs
           /\ booted = TRUE => Replay(cells, MaxRecords).err = e
           /\ Replay(cells, MaxRecords).err = "none" => booted = TRUE
<1> DEFINE s == At(k, n, booted, rs)
           d == Stop(s, e)
<1>1. d.done = TRUE /\ d.err = e /\ d.rows = rs
  BY DEF At, Stop
<1>2. d.booted = booted
  BY DEF At, Stop
<1>3. s.offset = k
  BY DEF At
<1> HIDE DEF s, d
<1>4. Reaches(cells, s) /\ d = ReplayFrame(cells, MaxRecords, s) /\ s.offset <= Len(cells)
  BY <1>3 DEF s, d
<1>5. Replay(cells, MaxRecords) = Verdict(d)
  BY <1>1, <1>4, ReplayIs
<1>6. Verdict(d).rows = rs
  BY <1>1 DEF Verdict
<1>7. Verdict(d).err = IF e = "none" /\ ~booted THEN "missing bootstrap" ELSE e
  BY <1>1, <1>2, Zenon DEF Verdict
<1>8. QED BY <1>5, <1>6, <1>7

(* A loop that reaches the end of the file ends there. *)
LEMMA Finished ==
    ASSUME NEW cells, IsSeq(cells), NEW n, NEW rs, Reaches(cells, At(Len(cells), n, TRUE, rs))
    PROVE  /\ Replay(cells, MaxRecords).rows = rs
           /\ Replay(cells, MaxRecords).err = "none"
<1> DEFINE s == At(Len(cells), n, TRUE, rs)
<1>1. s.offset = Len(cells)
  BY DEF At
<1>2. ReplayFrame(cells, MaxRecords, s) = Stop(s, "none")
  BY <1>1, EndStops
<1>3. Len(cells) \in Nat /\ Len(cells) <= Len(cells)
  BY LenNat
<1>4. TRUE \in BOOLEAN
  OBVIOUS
<1>5. QED BY <1>2, <1>3, <1>4, Stopped

(* A frame that is there as a whole takes the loop to the end of the file. *)
LEMMA WholeFrame ==
    ASSUME NEW cells, IsSeq(cells), NEW k \in Nat, NEW n, NEW booted,
           NEW rs \in Seq(RowValues), Len(rs) <= RowCap, Reaches(cells, At(k, n, booted, rs)),
           NEW op, Loggable(op, booted, n, rs), NEW n1, NEW rs1,
           Len(cells) = k + (4 + Len(EncodePayload(op))),
           LengthOf(cells[k + 2]) = Len(EncodePayload(op)),
           ReplayFrame(cells, MaxRecords, At(k, n, booted, rs)) = At(Len(cells), n1, TRUE, rs1)
    PROVE  Reaches(cells, At(Len(cells), n1, TRUE, rs1))
<1> DEFINE s == At(k, n, booted, rs)
           t == At(Len(cells), n1, TRUE, rs1)
<1>1. Len(EncodePayload(op)) \in Nat
  BY DecodesLogged
<1>2. s.offset = k /\ t.offset = Len(cells) /\ IsAt(t)
  BY DEF At, IsAt
<1>3. Reaches(cells, s) /\ t = ReplayFrame(cells, MaxRecords, s)
  OBVIOUS
<1> HIDE DEF s, t
<1>4. Len(cells) \in Nat /\ k < Len(cells)
  BY <1>1
<1>5. t.offset \in Nat /\ s.offset < t.offset /\ LengthOf(cells[s.offset + 2]) \in Nat
  BY <1>1, <1>2, <1>4
<1>6. Reaches(cells, t)
  BY <1>2, <1>3, <1>5, ReachesNext
<1>7. QED BY <1>6 DEF t

(* Soundness, of one log: a loop that stops at the torn record leaves the
   acknowledged rows, one that passes it those of the record in doubt. *)
LEMMA LogSound ==
    ASSUME NEW f, FileTypeOK(f), NEW pr, NEW id, NEW n, NEW booted, NEW rs,
           FileLog(f, pr, id, n, booted, rs), RecoverFile(f.cells, MaxRecords).err = "none"
    PROVE  SomeRows(RecoverFile(f.cells, MaxRecords).rows) \in {pr, id}
<1> DEFINE cells == f.cells
           k == f.acked
           r == Replay(cells, MaxRecords)
<1>1. IsSeq(cells) /\ Len(cells) \in Nat /\ k \in Nat /\ k <= Len(cells)
  BY FileParts
<1>2. /\ booted \in BOOLEAN /\ rs \in Seq(RowValues) /\ Len(rs) <= RowCap
      /\ Reaches(cells, At(k, n, booted, rs))
      /\ booted = TRUE => pr = SomeRows(rs)
  BY DEF FileLog
<1>3. k < Len(cells) => \E op : /\ Loggable(op, booted, n, rs)
                                /\ id = SomeRows(Apply(op, rs))
                                /\ Torn(cells, k, op, n)
  BY DEF FileLog
<1>4. RecoverFile(cells, MaxRecords) = r /\ r.err = "none"
  <2>1. \/ RecoverFile(cells, MaxRecords)
             = [err |-> "file bytes limit", rows |-> << >>, records |-> 0]
        \/ RecoverFile(cells, MaxRecords) = r
    BY Zenon DEF RecoverFile
  <2>2. RecoverFile(cells, MaxRecords).err = "none"
    OBVIOUS
  <2>3. [err |-> "file bytes limit", rows |-> << >>, records |-> 0].err # "none"
    OBVIOUS
  <2> HIDE DEF r
  <2>4. RecoverFile(cells, MaxRecords) = r
    BY <2>1, <2>2, <2>3
  <2>5. QED BY <2>2, <2>4
<1>5. CASE \E e : ReplayFrame(cells, MaxRecords, At(k, n, booted, rs))
                    = Stop(At(k, n, booted, rs), e)
  <2>1. PICK e : ReplayFrame(cells, MaxRecords, At(k, n, booted, rs))
                   = Stop(At(k, n, booted, rs), e)
    BY <1>5
  <2> HIDE DEF cells, k
  <2>2. r.rows = rs /\ (r.err = "none" => booted = TRUE)
    BY ZenonT(60), <1>1, <1>2, <2>1, Stopped
  <2> USE DEF cells, k
  <2>3. QED BY <1>2, <1>4, <2>2
<1>6. CASE k = Len(cells)
  <2>1. At(k, n, booted, rs).offset = Len(cells)
    BY <1>6 DEF At
  <2>2. ReplayFrame(cells, MaxRecords, At(k, n, booted, rs)) = Stop(At(k, n, booted, rs), "none")
    BY <1>1, <2>1, EndStops
  <2>3. QED BY <1>5, <2>2
<1>7. CASE k < Len(cells)
  <2>1. PICK op : /\ Loggable(op, booted, n, rs)
                  /\ id = SomeRows(Apply(op, rs))
                  /\ Torn(cells, k, op, n)
    BY <1>3, <1>7
  <2> DEFINE s == At(k, n, booted, rs)
  <2>2. s = At(k, n, booted, rs)
    OBVIOUS
  <2> HIDE DEF s, cells, k
  <2>3. \/ \E e : ReplayFrame(cells, MaxRecords, s) = Stop(s, e)
        \/ /\ Len(cells) = k + (4 + Len(EncodePayload(op)))
           /\ LengthOf(cells[k + 2]) = Len(EncodePayload(op))
           /\ ReplayFrame(cells, MaxRecords, s) = At(Len(cells), n + 1, TRUE, Apply(op, rs))
    <3>1. TornOutcome(cells, k, n, booted, rs, op)
      BY <1>1, <1>2, <2>1, TornFrame
    <3>2. QED BY <3>1, <2>2, Zenon DEF TornOutcome
  <2>4. CASE \E e : ReplayFrame(cells, MaxRecords, s) = Stop(s, e)
    BY <1>5, <2>4 DEF s
  <2>5. CASE /\ Len(cells) = k + (4 + Len(EncodePayload(op)))
             /\ LengthOf(cells[k + 2]) = Len(EncodePayload(op))
             /\ ReplayFrame(cells, MaxRecords, s) = At(Len(cells), n + 1, TRUE, Apply(op, rs))
    <3>1. Reaches(cells, At(Len(cells), n + 1, TRUE, Apply(op, rs)))
      BY <1>1, <1>2, <2>1, <2>2, <2>5, WholeFrame
    <3>2. r.rows = Apply(op, rs)
      BY <1>1, <3>1, Finished
    <3>3. RecoverFile(cells, MaxRecords).rows = Apply(op, rs)
      BY <1>4, <3>2
    <3>4. QED BY <2>1, <3>3 DEF cells
  <2>6. QED BY <2>3, <2>4, <2>5
<1>8. QED BY <1>1, <1>6, <1>7

(* Completeness, of one log that loses no cell before another: what is torn
   is no error, so only the bootstrap matters. *)
LEMMA LogComplete ==
    ASSUME Holes = FALSE, NEW f, FileTypeOK(f), Len(f.cells) <= MaxFileBytes,
           NEW pr, NEW id, NEW n, NEW booted, NEW rs,
           FileLog(f, pr, id, n, booted, rs), booted = TRUE
    PROVE  RecoverFile(f.cells, MaxRecords).err = "none"
<1> DEFINE cells == f.cells
           k == f.acked
           r == Replay(cells, MaxRecords)
<1>1. IsSeq(cells) /\ Len(cells) \in Nat /\ k \in Nat /\ k <= Len(cells)
  BY FileParts
<1>2. /\ booted \in BOOLEAN /\ n \in Nat /\ rs \in Seq(RowValues) /\ Len(rs) <= RowCap
      /\ Reaches(cells, At(k, n, booted, rs))
  BY DEF FileLog
<1>3. k < Len(cells) => \E op : /\ Loggable(op, booted, n, rs)
                                /\ Len(EncodePayload(op)) <= MaxRecordBytes
                                /\ n + 1 <= MaxRecords
                                /\ Torn(cells, k, op, n)
  BY DEF FileLog
<1>4. RecoverFile(cells, MaxRecords) = r
  <2>1. MaxFileBytes \in Nat
    BY LimitAssumption
  <2>2. ~(Len(cells) > MaxFileBytes)
    BY <1>1, <2>1
  <2>3. QED BY <2>2 DEF RecoverFile
<1>5. CASE ReplayFrame(cells, MaxRecords, At(k, n, booted, rs))
             = Stop(At(k, n, booted, rs), "none")
  <2> HIDE DEF cells, k
  <2>0. booted = TRUE => r.err = "none"
    BY <1>1, <1>2, <1>5, Stopped, ZenonT(180)
  <2> USE DEF cells, k
  <2>1. r.err = "none"
    BY <2>0
  <2>2. QED BY <1>4, <2>1
<1>6. CASE k = Len(cells)
  <2>1. At(k, n, booted, rs).offset = Len(cells)
    BY <1>6 DEF At
  <2>2. ReplayFrame(cells, MaxRecords, At(k, n, booted, rs)) = Stop(At(k, n, booted, rs), "none")
    BY <1>1, <2>1, EndStops
  <2>3. QED BY <1>5, <2>2
<1>7. CASE k < Len(cells)
  <2>1. PICK op : /\ Loggable(op, booted, n, rs)
                  /\ Len(EncodePayload(op)) <= MaxRecordBytes
                  /\ n + 1 <= MaxRecords
                  /\ Torn(cells, k, op, n)
    BY <1>3, <1>7
  <2>2. Exact(cells, k, op, n)
    BY <2>1 DEF Torn, Exact
  <2> DEFINE s == At(k, n, booted, rs)
  <2>3. s = At(k, n, booted, rs)
    OBVIOUS
  <2> HIDE DEF s, cells, k
  <2>4. IF Len(cells) = k + (4 + Len(EncodePayload(op)))
        THEN /\ ReplayFrame(cells, MaxRecords, s) = At(Len(cells), n + 1, TRUE, Apply(op, rs))
             /\ LengthOf(cells[k + 2]) = Len(EncodePayload(op))
        ELSE ReplayFrame(cells, MaxRecords, s) = Stop(s, "none")
    <3>1. ExactOutcome(cells, k, n, booted, rs, op)
      BY <1>1, <1>2, <2>1, <2>2, ExactFrame
    <3>2. QED BY <3>1, <2>3, Zenon DEF ExactOutcome
  <2>5. CASE ReplayFrame(cells, MaxRecords, s) = Stop(s, "none")
    BY <1>5, <2>5 DEF s
  <2>6. CASE /\ Len(cells) = k + (4 + Len(EncodePayload(op)))
             /\ LengthOf(cells[k + 2]) = Len(EncodePayload(op))
             /\ ReplayFrame(cells, MaxRecords, s) = At(Len(cells), n + 1, TRUE, Apply(op, rs))
    <3>1. Reaches(cells, At(Len(cells), n + 1, TRUE, Apply(op, rs)))
      BY <1>1, <1>2, <2>1, <2>3, <2>6, WholeFrame
    <3>2. r.err = "none"
      BY <1>1, <3>1, Finished
    <3>3. RecoverFile(cells, MaxRecords).err = "none"
      BY <1>4, <3>2
    <3>4. QED BY <3>3 DEF cells
  <2>7. QED BY <2>4, <2>5, <2>6
<1>8. QED BY <1>1, <1>6, <1>7

-----------------------------------------------------------------------------
(* The second inductive invariant: every file is a log. *)

(* The log at p amounts to what is promised there, and may end in a torn
   record of what is in doubt; a healthy writer knows how many records it
   holds. *)
LogOf(p) ==
    \E n : \E booted : \E rs :
        /\ FileLog(files[p], promised[p], indoubt[p], n, booted, rs)
        /\ wal.mode = "ready" /\ wal.path = p => n = wal.records

(* Behind the acknowledged cells, a commit has written a prefix of its frame. *)
CommitLogged ==
    pc # "idle" =>
        /\ Exact(TheFile.cells, TheFile.acked, pending, wal.records)
        /\ indoubt[wal.path] = SomeRows(Apply(pending, rows))
        /\ Len(EncodePayload(pending)) <= MaxRecordBytes

(* Nothing is in doubt at the path of a healthy writer that is not committing. *)
Settled == wal.mode = "ready" /\ pc = "idle" => indoubt[wal.path] = NoRows

LogInv == CommitLogged /\ Settled /\ \A p \in Paths : LogOf(p)

(* A file with no cells is the log of no records. *)
LEMMA EmptyLog ==
    ASSUME NEW f, f.cells = << >>, f.acked = 0, NEW id
    PROVE  FileLog(f, NoRows, id, 0, FALSE, << >>)
<1>1. Reaches(f.cells, At(0, 0, FALSE, << >>))
  BY ReachesStart
<1>2. << >> \in Seq(RowValues) /\ Len(<< >>) <= RowCap
  BY LimitAssumption
<1>3. ~(f.acked < Len(f.cells)) /\ ~(f.acked > 0)
  OBVIOUS
<1>4. QED BY <1>1, <1>2, <1>3 DEF FileLog

(* There is no file: every path holds the log of no records. *)
LEMMA InitLog == Init => LogInv
<1> SUFFICES ASSUME Init PROVE LogInv
  OBVIOUS
<1>1. /\ wal = NoWal /\ pc = "idle"
      /\ \A p \in Paths : files[p] = NoFile /\ promised[p] = NoRows
  BY DEF Init
<1>2. CommitLogged /\ Settled
  BY <1>1 DEF CommitLogged, Settled, NoWal
<1>3. ASSUME NEW p \in Paths PROVE LogOf(p)
  <2>1. FileLog(files[p], promised[p], indoubt[p], 0, FALSE, << >>)
    BY <1>1, EmptyLog DEF NoFile
  <2>2. wal.mode # "ready"
    BY <1>1 DEF NoWal
  <2>3. QED BY <2>1, <2>2, Zenon DEF LogOf
<1>4. QED BY <1>2, <1>3 DEF LogInv

(* Only the cells of a file and their acknowledged part matter. *)
LEMMA SameLog ==
    ASSUME NEW f, NEW g, g.cells = f.cells, g.acked = f.acked,
           NEW pr, NEW id, NEW n, NEW booted, NEW rs, FileLog(f, pr, id, n, booted, rs)
    PROVE  FileLog(g, pr, id, n, booted, rs)
  BY Zenon DEF FileLog

(* A log whose acknowledged cells stay is the same log, if what is behind them
   is a torn record. *)
LEMMA KeptLog ==
    ASSUME NEW f, FileTypeOK(f), NEW g, FileTypeOK(g), g.acked = f.acked,
           \A i \in 1..f.acked : g.cells[i] = f.cells[i],
           NEW pr, NEW id, NEW id2, NEW n, NEW booted, NEW rs,
           FileLog(f, pr, id, n, booted, rs),
           g.acked < Len(g.cells) =>
             \E op : /\ Loggable(op, booted, n, rs)
                     /\ Len(EncodePayload(op)) <= MaxRecordBytes
                     /\ n + 1 <= MaxRecords
                     /\ id2 = SomeRows(Apply(op, rs))
                     /\ Torn(g.cells, g.acked, op, n)
    PROVE  FileLog(g, pr, id2, n, booted, rs)
<1> DEFINE s == At(f.acked, n, booted, rs)
<1>1. /\ IsSeq(f.cells) /\ IsSeq(g.cells) /\ f.acked <= Len(f.cells) /\ g.acked <= Len(g.cells)
  BY FileParts
<1>2. s.offset = f.acked
  BY DEF At
<1>3. Reaches(f.cells, s)
  BY DEF FileLog
<1> HIDE DEF s
<1>4. /\ s.offset <= Len(f.cells) /\ s.offset <= Len(g.cells)
      /\ \A i \in 1..s.offset : f.cells[i] = g.cells[i]
  BY <1>1, <1>2
<1>5. Reaches(g.cells, s)
  BY <1>1, <1>3, <1>4, ReachesLocal
<1>6. Reaches(g.cells, At(g.acked, n, booted, rs))
  BY <1>5 DEF s
<1>7. /\ booted \in BOOLEAN /\ (booted = TRUE <=> g.acked > 0)
      /\ n \in Nat /\ rs \in Seq(RowValues) /\ Len(rs) <= RowCap
      /\ booted = TRUE => pr = SomeRows(rs)
      /\ booted = FALSE => pr = NoRows /\ n = 0 /\ rs = << >>
  BY DEF FileLog
<1>8. QED BY <1>6, <1>7, Zenon DEF FileLog

(* The same for all of the cells that were appended. *)
LEMMA ConcatRests ==
    ASSUME NEW s, NEW t, IsSeq(s), IsSeq(t)
    PROVE  \A i \in 1..Len(t) : (s \o t)[Len(s) + i] = t[i]
  BY ConcatRest

(* A prefix of a frame, extended by the cells that follow in it. *)
LEMMA ExactExtends ==
    ASSUME NEW a, IsSeq(a), NEW b, IsSeq(b), NEW k \in Nat, NEW w \in Nat, Len(a) = k + w,
           NEW op, NEW n, Exact(a, k, op, n), Len(EncodePayload(op)) \in Nat,
           w + Len(b) <= 4 + Len(EncodePayload(op)),
           \A j \in 1..Len(b) : b[j] = Frame(op, n)[w + j]
    PROVE  Exact(a \o b, k, op, n)
<1> DEFINE m == Len(EncodePayload(op))
           F == Frame(op, n)
<1>1. /\ Len(a) \in Nat /\ Len(b) \in Nat /\ IsSeq(a \o b) /\ Len(a \o b) = Len(a) + Len(b)
      /\ \A i \in 1..Len(a) : (a \o b)[i] = a[i]
  BY ConcatSeq, LenNat
<1>2. m \in Nat /\ w + Len(b) <= 4 + m /\ Len(a) = k + w
      /\ (\A j \in 1..Len(b) : b[j] = F[w + j])
  OBVIOUS
<1>3. \A i \in k + 1..Len(a) : a[i] = F[i - k]
  BY DEF Exact
<1>4. \A j \in 1..Len(b) : (a \o b)[Len(a) + j] = b[j]
  BY SMTT(60), ConcatRests
<1> DEFINE ab == a \o b
           la == Len(a)
           lb == Len(b)
<1>5. /\ la \in Nat /\ lb \in Nat /\ Len(ab) = la + lb /\ la = k + w /\ w + lb <= 4 + m
      /\ \A i \in 1..la : ab[i] = a[i]
      /\ \A i \in k + 1..la : a[i] = F[i - k]
      /\ \A j \in 1..lb : b[j] = F[w + j]
      /\ \A j \in 1..lb : ab[la + j] = b[j]
  BY <1>1, <1>2, <1>3, <1>4
<1> HIDE DEF m, F, ab, la, lb
<1>6. Len(ab) <= k + (4 + m)
  BY <1>2, <1>5
<1>7. ASSUME NEW i \in k + 1..la + lb PROVE ab[i] = F[i - k]
  <2>1. CASE i <= la
    <3>1. i \in 1..la /\ i \in k + 1..la
      BY <1>5, <2>1
    <3>2. QED BY <1>5, <3>1
  <2>2. CASE ~(i <= la)
    <3> DEFINE j == i - la
    <3>1. j \in 1..lb /\ la + j = i /\ w + j = i - k
      BY <1>5, <2>2
    <3> HIDE DEF j
    <3>2. ab[la + j] = b[j] /\ b[j] = F[w + j]
      BY <1>5, <3>1
    <3>3. QED BY <3>1, <3>2
  <2>3. QED BY <2>1, <2>2
<1>8. \A i \in k + 1..Len(ab) : ab[i] = F[i - k]
  BY <1>5, <1>7
<1>9. QED BY <1>6, <1>8 DEF Exact, m, F, ab

(* A prefix of a frame is what a write of one may leave. *)
LEMMA ExactIsTorn ==
    ASSUME NEW cells, NEW k, NEW op, NEW n, Exact(cells, k, op, n)
    PROVE  Torn(cells, k, op, n)
  BY DEF Exact, Torn

(* Where a commit stands in the file and in its frame. *)
LEMMA CommitPlaces ==
    ASSUME WalInv, pc # "idle"
    PROVE  /\ wal.path \in Paths /\ wal.records \in Nat /\ wal.mode \in {"creating", "ready"}
           /\ FileTypeOK(TheFile) /\ TheFile.acked \in Nat /\ TheFile.acked = wal.file_bytes
           /\ IsSeq(EncodePayload(pending)) /\ Len(EncodePayload(pending)) \in Nat
           /\ Written \in Nat /\ Len(TheFile.cells) = TheFile.acked + Written
           /\ wal.records + 1 <= MaxRecords
           /\ wal.mode = "creating" => wal.records = 0 /\ TheFile.acked = 0
           /\ wal.mode = "ready" => promised[wal.path] = SomeRows(rows)
<1>0. TypeOK /\ WriterConsistent /\ RecordFits
  BY InvParts
<1>1. /\ wal.path \in Paths /\ wal.records \in Nat /\ wal.mode \in {"creating", "ready"}
      /\ wal.file_bytes \in Nat
  BY PendingFrame
<1>2. pending \in Ops \/ \E r \in Seq(RowValues) : pending = BootstrapOp(r)
  BY <1>0 DEF TypeOK
<1>3. IsSeq(EncodePayload(pending)) /\ Len(EncodePayload(pending)) \in Nat
  BY <1>2, PayloadIsSeq
<1>4. FileTypeOK(TheFile) /\ TheFile.acked \in Nat
  BY <1>1, FileShape DEF TheFile
<1>5. TheFile.acked = wal.file_bytes
  BY <1>0, <1>1 DEF WriterConsistent
<1>6. /\ Len(TheFile.cells) = wal.file_bytes + Written
      /\ wal.records + 1 <= MaxRecords
  BY <1>0 DEF RecordFits
<1>7. Written \in Nat
  BY <1>3 DEF Written, FrameLen, FrameOverhead, HeaderLen, CommitLen
<1>8. /\ wal.mode = "creating" => wal.records = 0 /\ TheFile.acked = 0
      /\ wal.mode = "ready" => promised[wal.path] = SomeRows(rows)
  BY <1>0 DEF WriterConsistent
<1>9. QED BY <1>1, <1>3, <1>4, <1>5, <1>6, <1>7, <1>8

(* What the log of the commit under way holds, and what is being added. *)
Committing(booted, rs) ==
    /\ FileLog(TheFile, promised[wal.path], indoubt[wal.path], wal.records, booted, rs)
    /\ Loggable(pending, booted, wal.records, rs)
    /\ Apply(pending, rs) = Apply(pending, rows)

(* The record being committed may follow those that are there: the bootstrap
   an empty log, an operation the log of the rows in memory. *)
LEMMA CommitFollows ==
    ASSUME WalInv, LogInv, pc # "idle"
    PROVE  \E booted : \E rs : Committing(booted, rs)
<1>0. TypeOK
  BY InvParts
<1>1. /\ wal.path \in Paths /\ wal.mode \in {"creating", "ready"}
      /\ TheFile.acked \in Nat
      /\ wal.mode = "creating" => wal.records = 0 /\ TheFile.acked = 0
      /\ wal.mode = "ready" => promised[wal.path] = SomeRows(rows)
  BY CommitPlaces
<1>2. LogOf(wal.path)
  BY <1>1 DEF LogInv
<1>3. PICK n : \E booted : \E rs :
        /\ FileLog(TheFile, promised[wal.path], indoubt[wal.path], n, booted, rs)
        /\ wal.mode = "ready" /\ wal.path = wal.path => n = wal.records
  BY <1>2 DEF LogOf, TheFile
<1>4. PICK booted : \E rs :
        /\ FileLog(TheFile, promised[wal.path], indoubt[wal.path], n, booted, rs)
        /\ wal.mode = "ready" /\ wal.path = wal.path => n = wal.records
  BY <1>3
<1>5. PICK rs :
        /\ FileLog(TheFile, promised[wal.path], indoubt[wal.path], n, booted, rs)
        /\ wal.mode = "ready" /\ wal.path = wal.path => n = wal.records
  BY <1>4
<1>6. /\ booted \in BOOLEAN /\ (booted = TRUE <=> TheFile.acked > 0)
      /\ booted = TRUE => promised[wal.path] = SomeRows(rs)
      /\ booted = FALSE => promised[wal.path] = NoRows /\ n = 0 /\ rs = << >>
  BY <1>5 DEF FileLog
<1>7. CASE wal.mode = "creating"
  <2>1. pending = BootstrapOp(rows) /\ rows \in Seq(RowValues) /\ Len(rows) <= RowCap
    BY <1>0, <1>7 DEF TypeOK
  <2>2. booted = FALSE
    BY <1>1, <1>6, <1>7
  <2>3. n = 0 /\ wal.records = 0
    BY <1>1, <1>6, <1>7, <2>2
  <2>4. Loggable(pending, booted, wal.records, rs)
    BY <2>1, <2>2, <2>3, Zenon DEF Loggable
  <2>5. pending.kind = "bootstrap"
    BY <2>1 DEF BootstrapOp
  <2>6. Apply(pending, rs) = Apply(pending, rows)
    BY <2>5 DEF Apply
  <2>7. Committing(booted, rs)
    BY <1>5, <2>3, <2>4, <2>6, Zenon DEF Committing
  <2>8. QED BY <2>7
<1>8. CASE wal.mode = "ready"
  <2>1. pending \in Ops /\ Accepts(pending, rows)
    BY <1>0, <1>8 DEF TypeOK
  <2>2. SomeRows(rows) # NoRows
    <3>1. SomeRows(rows).some # NoRows.some
      BY DEF SomeRows, NoRows
    <3>2. QED BY <3>1
  <2>3. booted = TRUE
    BY <1>1, <1>6, <1>8, <2>2
  <2>4. SomeRows(rs) = SomeRows(rows)
    BY <1>1, <1>6, <1>8, <2>3
  <2>5. SomeRows(rs).rows = rs /\ SomeRows(rows).rows = rows
    BY DEF SomeRows
  <2>6. rs = rows
    BY <2>4, <2>5
  <2>7. Loggable(pending, booted, wal.records, rs)
    BY <2>1, <2>3, <2>6, Zenon DEF Loggable
  <2>8. n = wal.records
    BY <1>5, <1>8
  <2>9. Committing(booted, rs)
    BY <1>5, <2>6, <2>7, <2>8, Zenon DEF Committing
  <2>10. QED BY <2>9
<1>9. QED BY <1>1, <1>7, <1>8

(* While a commit has written a prefix of its frame, the file is a log with a
   torn record. *)
LEMMA CommitTorn ==
    ASSUME WalInv, LogInv, pc # "idle", NEW g, FileTypeOK(g), g.acked = TheFile.acked,
           \A i \in 1..TheFile.acked : g.cells[i] = TheFile.cells[i],
           Exact(g.cells, g.acked, pending, wal.records)
    PROVE  \E booted : \E rs :
             FileLog(g, promised[wal.path], indoubt[wal.path], wal.records, booted, rs)
<1>1. FileTypeOK(TheFile) /\ wal.records + 1 <= MaxRecords
  BY CommitPlaces
<1>2. PICK booted : \E rs : Committing(booted, rs)
  BY CommitFollows
<1>3. PICK rs : Committing(booted, rs)
  BY <1>2
<1>4. /\ FileLog(TheFile, promised[wal.path], indoubt[wal.path], wal.records, booted, rs)
      /\ Loggable(pending, booted, wal.records, rs)
      /\ Apply(pending, rs) = Apply(pending, rows)
  BY <1>3, Zenon DEF Committing
<1>5. /\ indoubt[wal.path] = SomeRows(Apply(pending, rs))
      /\ Len(EncodePayload(pending)) <= MaxRecordBytes
  BY <1>4 DEF LogInv, CommitLogged
<1>6. Torn(g.cells, g.acked, pending, wal.records)
  BY ExactIsTorn
<1>7. \E op : /\ Loggable(op, booted, wal.records, rs)
              /\ Len(EncodePayload(op)) <= MaxRecordBytes
              /\ wal.records + 1 <= MaxRecords
              /\ indoubt[wal.path] = SomeRows(Apply(op, rs))
              /\ Torn(g.cells, g.acked, op, wal.records)
  BY <1>1, <1>4, <1>5, <1>6
<1>8. FileLog(g, promised[wal.path], indoubt[wal.path], wal.records, booted, rs)
  BY <1>1, <1>4, <1>7, KeptLog
<1>9. QED BY <1>8

-----------------------------------------------------------------------------
(* Every step keeps every file a log. *)

(* A file that a step leaves alone stays the log it is. *)
LEMMA OtherLog ==
    ASSUME NEW p \in Paths, LogOf(p), files'[p].cells = files[p].cells,
           files'[p].acked = files[p].acked,
           promised'[p] = promised[p], indoubt'[p] = indoubt[p],
           wal'.mode = "ready" /\ wal'.path = p =>
             wal.mode = "ready" /\ wal.path = p /\ wal'.records = wal.records
    PROVE  LogOf(p)'
<1>1. PICK n : \E booted : \E rs :
        /\ FileLog(files[p], promised[p], indoubt[p], n, booted, rs)
        /\ wal.mode = "ready" /\ wal.path = p => n = wal.records
  BY DEF LogOf
<1>2. PICK booted : \E rs :
        /\ FileLog(files[p], promised[p], indoubt[p], n, booted, rs)
        /\ wal.mode = "ready" /\ wal.path = p => n = wal.records
  BY <1>1
<1>3. PICK rs :
        /\ FileLog(files[p], promised[p], indoubt[p], n, booted, rs)
        /\ wal.mode = "ready" /\ wal.path = p => n = wal.records
  BY <1>2
<1>4. FileLog(files'[p], promised'[p], indoubt'[p], n, booted, rs)
  BY <1>3, SameLog
<1>5. wal'.mode = "ready" /\ wal'.path = p => n = wal'.records
  BY <1>3
<1>6. QED BY <1>4, <1>5, Zenon DEF LogOf

(* A write of the next cells of the frame. *)
LEMMA WriteKeepsLog ==
    ASSUME WalInv, LogInv, pc # "idle", NEW data, IsSeq(data),
           files' = [files EXCEPT ![wal.path].cells = @ \o data],
           promised' = promised, indoubt' = indoubt,
           Written + Len(data) <= 4 + Len(EncodePayload(pending)),
           \A j \in 1..Len(data) : data[j] = Frame(pending, wal.records)[Written + j],
           wal'.mode = "ready" => wal' = wal
    PROVE  /\ \A p \in Paths : LogOf(p)'
           /\ Exact(files'[wal.path].cells, files'[wal.path].acked, pending, wal.records)
<1> DEFINE p == wal.path
           g == Extended(p, data)
<1>1. /\ p \in Paths /\ wal.records \in Nat /\ TheFile.acked \in Nat
      /\ FileTypeOK(TheFile)
      /\ Len(EncodePayload(pending)) \in Nat
      /\ Written \in Nat /\ Len(TheFile.cells) = TheFile.acked + Written
  BY CommitPlaces
<1>2. /\ OnlyFile(p, g)
      /\ \A i \in 1..Len(files[p].cells) : files'[p].cells[i] = files[p].cells[i]
  BY <1>1, WriteFile
<1>3. g.cells = TheFile.cells \o data /\ g.acked = TheFile.acked
  BY SMTT(60) DEF Extended, TheFile
<1>4. files'[p] = g /\ FileTypeOK(g) /\ \A q \in Paths \ {p} : files'[q] = files[q]
  BY <1>1, <1>2 DEF OnlyFile
<1>5. IsSeq(TheFile.cells) /\ TheFile.acked <= Len(TheFile.cells)
  BY <1>1, FileParts
<1>6. \A i \in 1..TheFile.acked : g.cells[i] = TheFile.cells[i]
  <2>1. Len(TheFile.cells) \in Nat
    BY <1>5, LenNat
  <2>2. \A i \in 1..Len(TheFile.cells) : g.cells[i] = TheFile.cells[i]
    BY <1>2, <1>4 DEF TheFile
  <2>3. QED BY <1>1, <1>5, <2>1, <2>2
<1> HIDE DEF g
<1>7. Exact(TheFile.cells, TheFile.acked, pending, wal.records)
  BY DEF LogInv, CommitLogged
<1>8. Exact(TheFile.cells \o data, TheFile.acked, pending, wal.records)
  BY <1>1, <1>5, <1>7, ExactExtends
<1>9. Exact(g.cells, g.acked, pending, wal.records)
  BY <1>3, <1>8
<1>10. \E booted : \E rs : FileLog(g, promised[p], indoubt[p], wal.records, booted, rs)
  BY <1>3, <1>4, <1>6, <1>9, CommitTorn
<1>11. ASSUME NEW q \in Paths, q = p PROVE LogOf(q)'
  <2>1. PICK booted : \E rs : FileLog(g, promised[p], indoubt[p], wal.records, booted, rs)
    BY <1>10
  <2>2. PICK rs : FileLog(g, promised[p], indoubt[p], wal.records, booted, rs)
    BY <2>1
  <2>3. FileLog(files'[q], promised'[q], indoubt'[q], wal.records, booted, rs)
    BY <1>4, <1>11, <2>2
  <2>4. wal'.mode = "ready" /\ wal'.path = q => wal.records = wal'.records
    OBVIOUS
  <2>5. QED BY <2>3, <2>4, Zenon DEF LogOf
<1>12. ASSUME NEW q \in Paths, q # p PROVE LogOf(q)'
  <2>1. LogOf(q) /\ files'[q] = files[q]
    BY <1>4, <1>12 DEF LogInv
  <2>2. files'[q].cells = files[q].cells /\ files'[q].acked = files[q].acked
        /\ promised'[q] = promised[q] /\ indoubt'[q] = indoubt[q]
    BY <2>1
  <2>3. wal'.mode = "ready" /\ wal'.path = q =>
          wal.mode = "ready" /\ wal.path = q /\ wal'.records = wal.records
    BY <1>12
  <2>4. QED BY <2>1, <2>2, <2>3, OtherLog
<1>13. Exact(files'[wal.path].cells, files'[wal.path].acked, pending, wal.records)
  BY <1>4, <1>9
<1>14. QED BY <1>11, <1>12, <1>13

(* The two writes of a frame. *)
LEMMA FrameWrites ==
    ASSUME NEW op, NEW n, IsSeq(EncodePayload(op))
    PROVE  /\ \A i \in 1..Len(EncodeBody(op, n)) : Frame(op, n)[i] = EncodeBody(op, n)[i]
           /\ \A i \in 1..2 : Frame(op, n)[2 + Len(EncodePayload(op)) + i] = EncodeFooter(n)[i]
<1> DEFINE body == EncodeBody(op, n)
           foot == EncodeFooter(n)
<1>1. /\ IsSeq(body) /\ Len(body) = 2 + Len(EncodePayload(op))
      /\ IsSeq(foot) /\ Len(foot) = 2
  BY FrameIsSeq DEF HeaderLen, CommitLen
<1>2. Frame(op, n) = body \o foot
  BY DEF Frame
<1> HIDE DEF body, foot
<1>3. \A i \in 1..Len(body) : (body \o foot)[i] = body[i]
  BY <1>1, ConcatSeq
<1>4. \A i \in 1..Len(foot) : (body \o foot)[Len(body) + i] = foot[i]
  BY SMTT(60), <1>1, ConcatRests
<1>5. QED BY <1>1, <1>2, <1>3, <1>4 DEF body, foot

(* The places of a commit's two writes in its frame. *)
LEMMA WriteData ==
    ASSUME WalInv, pc \in {"write_body", "write_footer"},
           NEW data, data = IF pc = "write_body" THEN Body ELSE Footer
    PROVE  /\ IsSeq(data)
           /\ Written + Len(data) <= 4 + Len(EncodePayload(pending))
           /\ \A j \in 1..Len(data) : data[j] = Frame(pending, wal.records)[Written + j]
<1> DEFINE m == Len(EncodePayload(pending))
           F == Frame(pending, wal.records)
<1>0. pc # "idle"
  OBVIOUS
<1>1. IsSeq(EncodePayload(pending)) /\ m \in Nat
  BY <1>0, CommitPlaces
<1>2. /\ IsSeq(Body) /\ Len(Body) = 2 + m /\ IsSeq(Footer) /\ Len(Footer) = 2
  BY <1>0, PendingFrame DEF HeaderLen, CommitLen
<1>3. /\ \A i \in 1..Len(Body) : F[i] = Body[i]
      /\ \A i \in 1..2 : F[2 + m + i] = Footer[i]
  <2>1. /\ \A i \in 1..Len(EncodeBody(pending, wal.records)) :
             F[i] = EncodeBody(pending, wal.records)[i]
        /\ \A i \in 1..2 : F[2 + m + i] = EncodeFooter(wal.records)[i]
    BY <1>1, FrameWrites
  <2>2. QED BY <2>1, Zenon DEF Body, Footer
<1>4. pc = "write_body" => Written = 0
  BY DEF Written
<1>5. pc = "write_footer" => Written = 2 + m
  BY DEF Written, HeaderLen
<1> HIDE DEF m, F
<1>6. CASE pc = "write_body"
  <2>1. data = Body /\ Written = 0
    BY <1>4, <1>6
  <2>2. \A j \in 1..Len(data) : data[j] = F[j]
    BY <1>3, <2>1
  <2>3. ASSUME NEW j \in 1..Len(data) PROVE data[j] = F[Written + j]
    <3>1. Written + j = j
      BY <2>1
    <3>2. QED BY <2>2, <3>1
  <2>4. Written + Len(data) <= 4 + m
    BY <1>1, <1>2, <2>1
  <2>5. QED BY <1>2, <2>1, <2>3, <2>4 DEF m, F
<1>7. CASE pc = "write_footer"
  <2>1. data = Footer /\ Written = 2 + m
    BY <1>5, <1>7
  <2>2. ASSUME NEW j \in 1..Len(data) PROVE data[j] = F[Written + j]
    <3>1. j \in 1..2 /\ Written + j = 2 + m + j
      BY <1>2, <2>1
    <3>2. QED BY <1>3, <2>1, <3>1
  <2>3. Written + Len(data) <= 4 + m
    <3>1. Len(data) = 2
      BY <1>2, <2>1
    <3>2. m \in Nat
      BY <1>1
    <3>3. Written + Len(data) = (2 + m) + 2
      BY <2>1, <3>1
    <3>4. QED BY <3>2, <3>3
  <2>4. QED BY <1>2, <2>1, <2>2, <2>3 DEF m, F
<1>8. QED BY <1>6, <1>7

(* A complete write of the body or the footer extends the prefix of the
   frame. *)
LEMMA WriteLog == WalInv /\ LogInv /\ (WriteBody \/ WriteFooter) => LogInv'
<1> SUFFICES ASSUME WalInv, LogInv, WriteBody \/ WriteFooter PROVE LogInv'
  OBVIOUS
<1> DEFINE data == IF pc = "write_body" THEN Body ELSE Footer
<1>1. /\ pc \in {"write_body", "write_footer"} /\ pc # "idle"
      /\ files' = [files EXCEPT ![wal.path].cells = @ \o data]
      /\ pc' \in {"sync_body", "sync_footer"}
      /\ rows' = rows /\ wal' = wal /\ pending' = pending
      /\ promised' = promised /\ indoubt' = indoubt
  BY DEF WriteBody, WriteFooter
<1>2. /\ IsSeq(data)
      /\ Written + Len(data) <= 4 + Len(EncodePayload(pending))
      /\ \A j \in 1..Len(data) : data[j] = Frame(pending, wal.records)[Written + j]
  BY <1>1, WriteData
<1> HIDE DEF data
<1>3. /\ \A p \in Paths : LogOf(p)'
      /\ Exact(files'[wal.path].cells, files'[wal.path].acked, pending, wal.records)
  BY <1>1, <1>2, WriteKeepsLog
<1>4. /\ indoubt[wal.path] = SomeRows(Apply(pending, rows))
      /\ Len(EncodePayload(pending)) <= MaxRecordBytes
  BY <1>1 DEF LogInv, CommitLogged
<1>5. CommitLogged'
  BY <1>1, <1>3, <1>4 DEF CommitLogged, TheFile
<1>6. Settled'
  BY <1>1 DEF Settled
<1>7. QED BY <1>3, <1>5, <1>6 DEF LogInv

(* A short write leaves a prefix of the frame, and no healthy writer. *)
LEMMA WriteFailsLog == WalInv /\ LogInv /\ WriteFails => LogInv'
<1> SUFFICES ASSUME WalInv, LogInv, WriteFails PROVE LogInv'
  OBVIOUS
<1> DEFINE data == IF pc = "write_body" THEN Body ELSE Footer
<1>1. /\ pc \in {"write_body", "write_footer"} /\ pc # "idle" /\ Poison
      /\ \E n \in 0..Len(data) - 1 :
           files' = [files EXCEPT ![wal.path].cells = @ \o SubSeq(data, 1, n)]
  BY DEF WriteFails
<1>2. /\ IsSeq(data)
      /\ Written + Len(data) <= 4 + Len(EncodePayload(pending))
      /\ \A j \in 1..Len(data) : data[j] = Frame(pending, wal.records)[Written + j]
  BY <1>1, WriteData
<1>2a. /\ Len(data) \in Nat /\ Written \in Nat /\ Len(EncodePayload(pending)) \in Nat
  BY <1>1, <1>2, LenNat, CommitPlaces
<1> HIDE DEF data
<1>3. PICK n \in 0..Len(data) - 1 :
        files' = [files EXCEPT ![wal.path].cells = @ \o SubSeq(data, 1, n)]
  BY <1>1
<1>4. /\ IsSeq(SubSeq(data, 1, n)) /\ Len(SubSeq(data, 1, n)) = n
      /\ \A j \in 1..n : SubSeq(data, 1, n)[j] = data[j]
  <2>1. n \in 0..Len(data)
    BY <1>2a
  <2>2. QED BY <1>2, <2>1, PrefixSeq
<1>5. \A j \in 1..Len(SubSeq(data, 1, n)) :
        SubSeq(data, 1, n)[j] = Frame(pending, wal.records)[Written + j]
  BY <1>2, <1>2a, <1>4
<1>6. Written + Len(SubSeq(data, 1, n)) <= 4 + Len(EncodePayload(pending))
  BY <1>2, <1>2a, <1>4
<1>7. /\ pc' = "idle" /\ promised' = promised /\ indoubt' = indoubt
      /\ wal' = IF wal.mode = "creating" THEN NoWal ELSE [wal EXCEPT !.mode = "poisoned"]
  BY <1>1 DEF Poison
<1>8. wal'.mode # "ready"
  <2>1. wal.mode = "ready" \/ wal.mode = "creating"
    BY <1>1, CommitPlaces
  <2>2. wal.mode = "ready" => [wal EXCEPT !.mode = "poisoned"].mode = "poisoned"
    BY <1>1 DEF WalInv, TypeOK, NoWal
  <2>3. QED BY <1>7, <2>1, <2>2 DEF NoWal
<1>9. \A p \in Paths : LogOf(p)'
  BY <1>1, <1>3, <1>4, <1>5, <1>6, <1>7, <1>8, WriteKeepsLog
<1>10. CommitLogged' /\ Settled'
  BY <1>7, <1>8 DEF CommitLogged, Settled
<1>11. QED BY <1>9, <1>10 DEF LogInv

(* A step that leaves the cells, what they acknowledge and the promises alone. *)
LEMMA QuietKeepsLog ==
    ASSUME LogInv,
           \A p \in Paths : files'[p].cells = files[p].cells /\ files'[p].acked = files[p].acked,
           promised' = promised, indoubt' = indoubt,
           wal'.mode = "ready" => wal' = wal
    PROVE  \A p \in Paths : LogOf(p)'
<1> SUFFICES ASSUME NEW p \in Paths PROVE LogOf(p)'
  OBVIOUS
<1>1. LogOf(p)
  BY DEF LogInv
<1>2. /\ files'[p].cells = files[p].cells /\ files'[p].acked = files[p].acked
      /\ promised'[p] = promised[p] /\ indoubt'[p] = indoubt[p]
  OBVIOUS
<1>3. wal'.mode = "ready" /\ wal'.path = p =>
        wal.mode = "ready" /\ wal.path = p /\ wal'.records = wal.records
  OBVIOUS
<1>4. QED BY <1>1, <1>2, <1>3, OtherLog

(* Steps that change no cell and start no commit. *)
LEMMA QuietLog ==
    WalInv /\ LogInv /\ (MutateUnlogged \/ Disable \/ Recover \/ SyncFails) => LogInv'
<1> SUFFICES ASSUME WalInv, LogInv, MutateUnlogged \/ Disable \/ Recover \/ SyncFails
             PROVE  LogInv'
  OBVIOUS
<1>1. /\ files' = files /\ promised' = promised /\ indoubt' = indoubt
  BY DEF MutateUnlogged, Disable, Recover, SyncFails, Poison
<1>2. ~up => pc = "idle"
  BY DEF WalInv, TypeOK
<1>3. pc' = "idle"
  BY <1>2 DEF MutateUnlogged, Disable, Recover, SyncFails, Poison
<1>4. wal'.mode = "ready" => wal' = wal /\ pc = "idle"
  <2>1. CASE MutateUnlogged \/ Recover
    BY <1>2, <2>1 DEF MutateUnlogged, Recover
  <2>2. CASE Disable
    BY <2>2 DEF Disable, NoWal
  <2>3. CASE SyncFails
    <3>1. pc # "idle" /\ wal' = IF wal.mode = "creating" THEN NoWal ELSE [wal EXCEPT !.mode = "poisoned"]
      BY <2>3 DEF SyncFails, Poison
    <3>2. wal.mode = "ready" \/ wal.mode = "creating"
      BY <3>1, CommitPlaces
    <3>3. wal.mode = "ready" => [wal EXCEPT !.mode = "poisoned"].mode = "poisoned"
      BY <3>1 DEF WalInv, TypeOK, NoWal
    <3>4. wal'.mode # "ready"
      BY <3>1, <3>2, <3>3 DEF NoWal
    <3>5. QED BY <3>4
  <2>4. QED BY <2>1, <2>2, <2>3
<1>5. \A p \in Paths : LogOf(p)'
  BY <1>1, <1>4, QuietKeepsLog
<1>6. CommitLogged'
  BY <1>3 DEF CommitLogged
<1>7. Settled'
  BY <1>1, <1>4 DEF Settled, LogInv
<1>8. QED BY <1>5, <1>6, <1>7 DEF LogInv

(* A sync in the middle of a commit changes no cell. *)
LEMMA SyncLog == WalInv /\ LogInv /\ (SyncBody \/ SyncBootstrapFooter) => LogInv'
<1> SUFFICES ASSUME WalInv, LogInv, SyncBody \/ SyncBootstrapFooter PROVE LogInv'
  OBVIOUS
<1>1. /\ pc # "idle" /\ pc' # "idle"
      /\ files' = [files EXCEPT ![wal.path].synced = Len(TheFile.cells)]
      /\ rows' = rows /\ wal' = wal /\ pending' = pending
      /\ promised' = promised /\ indoubt' = indoubt
  BY DEF SyncBody, SyncBootstrapFooter
<1>2. wal.path \in Paths
  BY <1>1, CommitPlaces
<1>3. \A p \in Paths : files'[p].cells = files[p].cells /\ files'[p].acked = files[p].acked
  <2>1. SUFFICES ASSUME NEW p \in Paths
                 PROVE files'[p].cells = files[p].cells /\ files'[p].acked = files[p].acked
    OBVIOUS
  <2>2. FileTypeOK(files[p])
    BY FileShape
  <2>3. files' = [files EXCEPT ![wal.path] = [files[wal.path] EXCEPT !.synced = Len(TheFile.cells)]]
    BY <1>1
  <2>4. CASE p = wal.path
    <3>1. files'[p] = [files[p] EXCEPT !.synced = Len(TheFile.cells)]
      BY <2>3, <2>4 DEF WalInv, TypeOK
    <3>2. QED BY <2>2, <3>1 DEF FileTypeOK
  <2>5. CASE p # wal.path
    <3>1. files'[p] = files[p]
      BY <2>3, <2>5 DEF WalInv, TypeOK
    <3>2. QED BY <3>1
  <2>6. QED BY <2>4, <2>5
<1>4. \A p \in Paths : LogOf(p)'
  BY <1>1, <1>3, QuietKeepsLog
<1>5. CommitLogged'
  BY <1>1, <1>2, <1>3 DEF CommitLogged, TheFile, LogInv
<1>6. Settled'
  BY <1>1 DEF Settled
<1>7. QED BY <1>4, <1>5, <1>6 DEF LogInv

(* A commit starts behind the last acknowledged cell: nothing is torn yet. *)
LEMMA BeginCommitLog == WalInv /\ LogInv /\ BeginCommit => LogInv'
<1> SUFFICES ASSUME WalInv, LogInv, BeginCommit PROVE LogInv'
  OBVIOUS
<1>0. WriterConsistent
  BY InvParts
<1>1. /\ pc = "idle" /\ wal.mode = "ready" /\ pc' = "write_body"
      /\ rows' = rows /\ wal' = wal /\ files' = files /\ promised' = promised
  BY DEF BeginCommit
<1>2. PICK op \in Ops :
        /\ FitsLimits(Len(EncodePayload(op)), wal.file_bytes, wal.records)
        /\ pending' = op
        /\ indoubt' = [indoubt EXCEPT ![wal.path] = SomeRows(Apply(op, rows))]
  BY DEF BeginCommit
<1>3. wal.path \in Paths /\ wal.file_bytes \in Nat
  BY <1>1 DEF WalInv, TypeOK, NoWal
<1>4. TheFile.acked = wal.file_bytes /\ Len(TheFile.cells) = wal.file_bytes
  BY <1>0, <1>1 DEF WriterConsistent
<1>5. indoubt'[wal.path] = SomeRows(Apply(op, rows))
      /\ \A p \in Paths : p # wal.path => indoubt'[p] = indoubt[p]
  BY <1>2, <1>3 DEF WalInv, TypeOK
<1>6. Len(EncodePayload(op)) <= MaxRecordBytes
  BY <1>2 DEF FitsLimits
<1>7. Exact(TheFile.cells, TheFile.acked, op, wal.records)
  <2>1. Len(EncodePayload(op)) \in Nat
    BY PayloadIsSeq
  <2>2. Len(TheFile.cells) <= TheFile.acked + (4 + Len(EncodePayload(op)))
    BY <1>3, <1>4, <2>1
  <2>3. \A i \in TheFile.acked + 1..Len(TheFile.cells) : FALSE
    BY <1>3, <1>4
  <2>4. QED BY <2>2, <2>3 DEF Exact
<1>8. CommitLogged'
  BY <1>1, <1>2, <1>5, <1>6, <1>7 DEF CommitLogged, TheFile
<1>9. Settled'
  BY <1>1 DEF Settled
<1>10. ASSUME NEW p \in Paths, p = wal.path PROVE LogOf(p)'
  <2>1. LogOf(p)
    BY DEF LogInv
  <2>2. PICK n : \E booted : \E rs :
          /\ FileLog(files[p], promised[p], indoubt[p], n, booted, rs)
          /\ wal.mode = "ready" /\ wal.path = p => n = wal.records
    BY <2>1 DEF LogOf
  <2>3. PICK booted : \E rs :
          /\ FileLog(files[p], promised[p], indoubt[p], n, booted, rs)
          /\ wal.mode = "ready" /\ wal.path = p => n = wal.records
    BY <2>2
  <2>4. PICK rs :
          /\ FileLog(files[p], promised[p], indoubt[p], n, booted, rs)
          /\ wal.mode = "ready" /\ wal.path = p => n = wal.records
    BY <2>3
  <2>5. FileTypeOK(files[p]) /\ ~(files[p].acked < Len(files[p].cells))
    BY <1>3, <1>4, <1>10, FileShape DEF TheFile
  <2>6. FileLog(files[p], promised[p], indoubt'[p], n, booted, rs)
    BY <2>4, <2>5, KeptLog
  <2>7. FileLog(files'[p], promised'[p], indoubt'[p], n, booted, rs)
    BY <1>1, <2>6
  <2>8. wal'.mode = "ready" /\ wal'.path = p => n = wal'.records
    BY <1>1, <2>4
  <2>9. QED BY <2>7, <2>8, Zenon DEF LogOf
<1>11. ASSUME NEW p \in Paths, p # wal.path PROVE LogOf(p)'
  <2>1. LogOf(p)
    BY DEF LogInv
  <2>2. QED BY <1>1, <1>5, <1>11, <2>1, OtherLog
<1>12. QED BY <1>8, <1>9, <1>10, <1>11 DEF LogInv

(* A log that acknowledges nothing promises nothing. *)
LEMMA UnackedLog ==
    ASSUME NEW f, f.acked = 0, NEW pr, NEW id, NEW n, NEW booted, NEW rs,
           FileLog(f, pr, id, n, booted, rs)
    PROVE  booted = FALSE /\ pr = NoRows /\ n = 0 /\ rs = << >>
  BY DEF FileLog

(* A new file is an empty log, and so nothing is torn in it. *)
LEMMA EnableLog == WalInv /\ LogInv /\ Enable => LogInv'
<1> SUFFICES ASSUME WalInv, LogInv, Enable PROVE LogInv'
  OBVIOUS
<1>0. TypeOK /\ FilesBounded
  BY InvParts
<1>1. /\ pc' = "write_body" /\ rows' = rows /\ promised' = promised
      /\ pending' = BootstrapOp(rows)
      /\ FitsLimits(Len(EncodePayload(BootstrapOp(rows))), 0, 0)
  BY DEF Enable
<1>2. PICK p \in Paths :
        /\ files[p].entry = "absent"
        /\ files' = [files EXCEPT ![p].entry = "created"]
        /\ wal' = Writer(p, 0, 0, "creating")
        /\ indoubt' = [indoubt EXCEPT ![p] = SomeRows(rows)]
  BY DEF Enable
<1>3. files[p] = NoFile
  BY <1>0, <1>2 DEF FilesBounded
<1>4. files'[p] = [NoFile EXCEPT !.entry = "created"]
      /\ \A q \in Paths : q # p => files'[q] = files[q]
  BY <1>0, <1>2, <1>3 DEF TypeOK
<1>5. files'[p].cells = << >> /\ files'[p].acked = 0
  BY <1>4 DEF NoFile
<1>6. wal'.mode = "creating" /\ wal'.path = p /\ wal'.records = 0
  BY <1>2 DEF Writer
<1>7. indoubt'[p] = SomeRows(rows) /\ \A q \in Paths : q # p => indoubt'[q] = indoubt[q]
  BY <1>0, <1>2 DEF TypeOK
<1>8. CommitLogged'
  <2>1. rows \in Seq(RowValues) /\ IsSeq(EncodePayload(BootstrapOp(rows)))
    BY <1>0, PayloadIsSeq DEF TypeOK
  <2>2. Len(EncodePayload(BootstrapOp(rows))) \in Nat
    BY <2>1, LenNat
  <2>3. Exact(files'[p].cells, files'[p].acked, BootstrapOp(rows), 0)
    <3>1. Len(<< >>) <= 0 + (4 + Len(EncodePayload(BootstrapOp(rows))))
      BY <2>2
    <3>2. \A i \in 0 + 1..Len(<< >>) : FALSE
      OBVIOUS
    <3>3. QED BY <1>5, <3>1, <3>2 DEF Exact
  <2>4. Apply(BootstrapOp(rows), rows) = rows
    BY DEF Apply, BootstrapOp
  <2>5. Len(EncodePayload(BootstrapOp(rows))) <= MaxRecordBytes
    BY <1>1 DEF FitsLimits
  <2>6. QED BY <1>1, <1>6, <1>7, <2>3, <2>4, <2>5 DEF CommitLogged, TheFile
<1>9. Settled'
  BY <1>6 DEF Settled
<1>10. LogOf(p)'
  <2>1. LogOf(p)
    BY DEF LogInv
  <2>2. PICK n : \E booted : \E rs :
          /\ FileLog(files[p], promised[p], indoubt[p], n, booted, rs)
          /\ wal.mode = "ready" /\ wal.path = p => n = wal.records
    BY <2>1 DEF LogOf
  <2>3. PICK booted : \E rs : FileLog(files[p], promised[p], indoubt[p], n, booted, rs)
    BY <2>2
  <2>4. PICK rs : FileLog(files[p], promised[p], indoubt[p], n, booted, rs)
    BY <2>3
  <2>5. files[p].acked = 0
    BY <1>3 DEF NoFile
  <2>6. promised'[p] = NoRows
    BY <1>1, <2>4, <2>5, UnackedLog
  <2>7. FileLog(files'[p], promised'[p], indoubt'[p], 0, FALSE, << >>)
    BY <1>5, <2>6, EmptyLog
  <2>8. wal'.mode # "ready"
    BY <1>6
  <2>9. QED BY <2>7, <2>8, Zenon DEF LogOf
<1>11. ASSUME NEW q \in Paths, q # p PROVE LogOf(q)'
  <2>1. LogOf(q)
    BY DEF LogInv
  <2>2. QED BY <1>1, <1>4, <1>6, <1>7, <1>11, <2>1, OtherLog
<1>12. QED BY <1>8, <1>9, <1>10, <1>11 DEF LogInv

(* The whole frame is in the file: one more record is replayed. *)
LEMMA CommitWhole ==
    ASSUME WalInv, LogInv, pc \in {"sync_footer", "sync_parent"},
           NEW g, g.cells = TheFile.cells, g.acked = Len(TheFile.cells), NEW id
    PROVE  FileLog(g, SomeRows(Apply(pending, rows)), id, wal.records + 1, TRUE,
                   Apply(pending, rows))
<1>1. /\ wal.records \in Nat /\ FileTypeOK(TheFile) /\ TheFile.acked \in Nat
      /\ Len(EncodePayload(pending)) \in Nat
      /\ Len(TheFile.cells) = TheFile.acked + Written
      /\ wal.records + 1 <= MaxRecords
  BY CommitPlaces
<1>2. Len(TheFile.cells) = TheFile.acked + (4 + Len(EncodePayload(pending)))
  BY <1>1 DEF Written, FrameLen, FrameOverhead, HeaderLen, CommitLen
<1>3. PICK booted : \E rs : Committing(booted, rs)
  BY CommitFollows
<1>4. PICK rs : Committing(booted, rs)
  BY <1>3
<1>5. /\ FileLog(TheFile, promised[wal.path], indoubt[wal.path], wal.records, booted, rs)
      /\ Loggable(pending, booted, wal.records, rs)
      /\ Apply(pending, rs) = Apply(pending, rows)
  BY <1>4, Zenon DEF Committing
<1>6. /\ Exact(TheFile.cells, TheFile.acked, pending, wal.records)
      /\ Len(EncodePayload(pending)) <= MaxRecordBytes
  BY DEF LogInv, CommitLogged
<1>7. /\ rs \in Seq(RowValues) /\ Len(rs) <= RowCap
      /\ Reaches(TheFile.cells, At(TheFile.acked, wal.records, booted, rs))
  BY <1>5 DEF FileLog
<1> DEFINE cells == TheFile.cells
           k == TheFile.acked
           n == wal.records
<1>8. IsSeq(cells) /\ k \in Nat /\ k <= Len(cells) /\ n \in Nat /\ n + 1 <= MaxRecords
      /\ Len(cells) \in Nat
      /\ Len(cells) = k + (4 + Len(EncodePayload(pending)))
  BY <1>1, <1>2, FileParts
<1>9. Apply(pending, rs) \in Seq(RowValues) /\ Len(Apply(pending, rs)) <= RowCap
  BY <1>5, <1>7, DecodesLogged
<1>10. ExactOutcome(cells, k, n, booted, rs, pending)
  <2>1. Loggable(pending, booted, n, rs) /\ Exact(cells, k, pending, n)
    BY <1>5, <1>6
  <2> HIDE DEF cells, k, n
  <2>2. QED BY <1>6, <1>7, <1>8, <2>1, ExactFrame
<1>11. /\ LengthOf(cells[k + 2]) = Len(EncodePayload(pending))
       /\ ReplayFrame(cells, MaxRecords, At(k, n, booted, rs))
            = At(Len(cells), n + 1, TRUE, Apply(pending, rs))
  <2> HIDE DEF cells, k, n
  <2>1. QED BY <1>8, <1>10, Zenon DEF ExactOutcome
<1>12. Reaches(cells, At(Len(cells), n + 1, TRUE, Apply(pending, rs)))
  <2>1. Reaches(cells, At(k, n, booted, rs)) /\ Loggable(pending, booted, n, rs)
    BY <1>5, <1>7
  <2> HIDE DEF cells, k, n
  <2>2. QED BY <1>7, <1>8, <1>11, <2>1, WholeFrame
<1>13. Reaches(g.cells, At(g.acked, wal.records + 1, TRUE, Apply(pending, rows)))
  BY <1>5, <1>12
<1>14. g.acked > 0 /\ ~(g.acked < Len(g.cells)) /\ wal.records + 1 \in Nat
  BY <1>1, <1>8
<1>15. Apply(pending, rows) \in Seq(RowValues) /\ Len(Apply(pending, rows)) <= RowCap
  BY <1>5, <1>9
<1>16. QED BY <1>13, <1>14, <1>15 DEF FileLog

(* An acknowledged commit is one more record of the log. *)
LEMMA FinishLog == WalInv /\ LogInv /\ (SyncFooter \/ SyncParent) => LogInv'
<1> SUFFICES ASSUME WalInv, LogInv, SyncFooter \/ SyncParent PROVE LogInv'
  OBVIOUS
<1>0. TypeOK
  BY InvParts
<1>1. /\ pc \in {"sync_footer", "sync_parent"} /\ pc # "idle" /\ pc' = "idle"
      /\ \E f : /\ files' = [files EXCEPT ![wal.path] = f]
                /\ f.cells = TheFile.cells /\ f.acked = Len(TheFile.cells)
  BY DEF SyncFooter, FinishCommit, SyncParent, FinishCreate, Acknowledge
<1>2. PICK g : /\ files' = [files EXCEPT ![wal.path] = g]
               /\ g.cells = TheFile.cells /\ g.acked = Len(TheFile.cells)
  BY <1>1
<1>3. wal.path \in Paths
  BY <1>1, CommitPlaces
<1>4. /\ wal.mode \in {"creating", "ready"} /\ (wal.mode = "creating" => wal.records = 0)
      /\ wal.records \in Nat
  BY <1>1, CommitPlaces
<1>5. files'[wal.path] = g /\ \A q \in Paths : q # wal.path => files'[q] = files[q]
  BY <1>0, <1>2, <1>3 DEF TypeOK
<1>6. pc = "sync_parent" => wal.mode = "creating"
  BY <1>4, InvParts DEF WriterConsistent
<1>7. wal'.mode = "ready" /\ wal'.path = wal.path /\ wal'.records = wal.records + 1
  <2>1. CASE SyncFooter
    <3>1. /\ wal' = [wal EXCEPT !.file_bytes = @ + FrameLen, !.records = @ + 1]
          /\ wal.mode = "ready"
      BY <2>1 DEF SyncFooter, FinishCommit
    <3>2. wal \in [mode : {"creating", "ready", "poisoned"}, path : Paths,
                   file_bytes : Nat, records : Nat]
      BY <1>0, <3>1 DEF TypeOK, NoWal
    <3>3. QED BY <3>1, <3>2
  <2>2. CASE SyncParent
    <3>1. wal' = Writer(wal.path, FrameLen, 1, "ready") /\ wal.records = 0
      BY <1>4, <1>6, <2>2 DEF SyncParent, FinishCreate
    <3>2. QED BY <3>1 DEF Writer
  <2>3. QED BY <2>1, <2>2
<1>8. \E r : /\ promised' = [promised EXCEPT ![wal.path] = SomeRows(r)]
             /\ indoubt' = [indoubt EXCEPT ![wal.path] = NoRows]
             /\ r = Apply(pending, rows)
  <2>1. CASE SyncFooter
    BY <2>1 DEF SyncFooter, FinishCommit, Acknowledge
  <2>2. CASE SyncParent
    <3>1. wal.mode = "creating"
      BY <1>6, <2>2 DEF SyncParent, FinishCreate
    <3>2. pending = BootstrapOp(rows)
      BY <1>0, <1>1, <3>1 DEF TypeOK
    <3>3. Apply(pending, rows) = rows
      BY <3>2 DEF Apply, BootstrapOp
    <3>4. /\ promised' = [promised EXCEPT ![wal.path] = SomeRows(rows)]
          /\ indoubt' = [indoubt EXCEPT ![wal.path] = NoRows]
      BY <2>2 DEF SyncParent, FinishCreate, Acknowledge
    <3>5. QED BY <3>3, <3>4
  <2>3. QED BY <2>1, <2>2
<1>9. /\ promised'[wal.path] = SomeRows(Apply(pending, rows)) /\ indoubt'[wal.path] = NoRows
      /\ \A q \in Paths : q # wal.path => promised'[q] = promised[q] /\ indoubt'[q] = indoubt[q]
  BY <1>0, <1>3, <1>8 DEF TypeOK
<1>10. CommitLogged'
  BY <1>1 DEF CommitLogged
<1>11. Settled'
  BY <1>7, <1>9 DEF Settled
<1>12. ASSUME NEW p \in Paths, p = wal.path PROVE LogOf(p)'
  <2>1. FileLog(g, SomeRows(Apply(pending, rows)), indoubt'[p], wal.records + 1, TRUE,
                Apply(pending, rows))
    BY <1>1, <1>2, CommitWhole
  <2>2. FileLog(files'[p], promised'[p], indoubt'[p], wal.records + 1, TRUE, Apply(pending, rows))
    BY <1>5, <1>9, <1>12, <2>1
  <2>3. wal'.mode = "ready" /\ wal'.path = p => wal.records + 1 = wal'.records
    BY <1>7
  <2>4. QED BY <2>2, <2>3, Zenon DEF LogOf
<1>13. ASSUME NEW q \in Paths, q # wal.path PROVE LogOf(q)'
  <2>1. LogOf(q)
    BY DEF LogInv
  <2>2. QED BY <1>5, <1>7, <1>9, <1>13, <2>1, OtherLog
<1>14. QED BY <1>10, <1>11, <1>12, <1>13 DEF LogInv

(* A crash leaves nothing of a file that vanishes, and of another its
   acknowledged cells and what may be torn behind them. *)
LEMMA CrashCells ==
    ASSUME WalInv, NEW p \in Paths, NEW g \in AfterCrash(files[p])
    PROVE  \/ g = NoFile /\ files[p].acked = 0
           \/ /\ Len(g.cells) \in Nat /\ Len(g.cells) <= Len(files[p].cells)
              /\ \A i \in 1..Len(g.cells) :
                   g.cells[i] = files[p].cells[i] \/ (Holes /\ g.cells[i] = ZeroCell)
<1> DEFINE f == files[p]
<1>0. FilesBounded
  BY InvParts
<1>1. /\ Len(f.cells) \in Nat /\ f.synced \in Nat /\ f.acked \in Nat
      /\ f.acked <= f.synced /\ f.synced <= Len(f.cells)
  BY FileShape
<1>2. CASE f.entry = "created" /\ g = NoFile
  <2>1. ~(f.acked > 0)
    BY <1>0, <1>2 DEF FilesBounded
  <2>2. f.acked = 0
    BY <1>1, <2>1
  <2>3. QED BY <1>2, <2>2
<1>3. ASSUME NEW img \in Images(f),
             g = [entry |-> IF f.entry = "absent" THEN "absent" ELSE "durable",
                  cells |-> img, synced |-> Len(img), acked |-> f.acked]
      PROVE  /\ Len(g.cells) \in Nat /\ Len(g.cells) <= Len(f.cells)
             /\ \A i \in 1..Len(g.cells) :
                  g.cells[i] = f.cells[i] \/ (Holes /\ g.cells[i] = ZeroCell)
  <2>1. PICK n \in f.synced..Len(f.cells) :
          \E lost \in Lost(f, n) : img = Image(f, n, lost)
    <3> HIDE DEF f
    <3>1. QED BY <1>3 DEF Images
  <2>2. PICK lost \in Lost(f, n) : img = Image(f, n, lost)
    BY <2>1
  <2>3. n \in Nat /\ n <= Len(f.cells)
    BY <1>1
  <2>4. img = [i \in 1..n |-> IF i \in lost THEN ZeroCell ELSE f.cells[i]]
    BY <2>2 DEF Image
  <2>5. Len(img) = n
    BY <2>3, <2>4, FunctionSeq
  <2>6. lost # {} => Holes
    BY <2>2 DEF Lost
  <2>7. \A i \in 1..n : img[i] = f.cells[i] \/ (Holes /\ img[i] = ZeroCell)
    BY <2>4, <2>6
  <2>8. QED BY <1>3, <2>3, <2>5, <2>7
<1>4. QED BY <1>2, <1>3 DEF AfterCrash

(* What a crash leaves of a torn frame is a torn frame. *)
LEMMA TornShrinks ==
    ASSUME NEW a, NEW b, Len(a) \in Nat, Len(b) \in Nat, Len(b) <= Len(a), NEW k \in Nat,
           \A i \in 1..Len(b) : b[i] = a[i] \/ (Holes /\ b[i] = ZeroCell),
           NEW op, NEW n, Len(EncodePayload(op)) \in Nat, Torn(a, k, op, n)
    PROVE  Torn(b, k, op, n)
<1>1. Len(a) <= k + (4 + Len(EncodePayload(op)))
  BY DEF Torn
<1>2. Len(b) <= k + (4 + Len(EncodePayload(op)))
  BY <1>1
<1>3. ASSUME NEW i \in k + 1..Len(b)
      PROVE  b[i] = Frame(op, n)[i - k] \/ (Holes /\ b[i] = ZeroCell)
  <2>1. i \in k + 1..Len(a) /\ i \in 1..Len(b)
    OBVIOUS
  <2>2. a[i] = Frame(op, n)[i - k] \/ (Holes /\ a[i] = ZeroCell)
    BY <2>1 DEF Torn
  <2>3. b[i] = a[i] \/ (Holes /\ b[i] = ZeroCell)
    BY <2>1
  <2>4. QED BY <2>2, <2>3
<1>4. QED BY <1>2, <1>3 DEF Torn

(* Every file is the log it was, with a shorter or holed torn record. *)
LEMMA CrashLog == WalInv /\ LogInv /\ Crash => LogInv'
<1> SUFFICES ASSUME WalInv, LogInv, Crash PROVE LogInv'
  OBVIOUS
<1>1. /\ \A p \in Paths : files'[p] \in AfterCrash(files[p])
      /\ wal' = NoWal /\ pc' = "idle" /\ promised' = promised /\ indoubt' = indoubt
  BY DEF Crash
<1>2. CommitLogged' /\ Settled'
  BY <1>1 DEF CommitLogged, Settled, NoWal
<1>3. wal'.mode # "ready"
  BY <1>1 DEF NoWal
<1>4. ASSUME NEW p \in Paths PROVE LogOf(p)'
  <2> DEFINE f == files[p]
             g == files'[p]
  <2>1. LogOf(p)
    BY DEF LogInv
  <2>2. PICK n : \E booted : \E rs :
          /\ FileLog(files[p], promised[p], indoubt[p], n, booted, rs)
          /\ wal.mode = "ready" /\ wal.path = p => n = wal.records
    BY <2>1 DEF LogOf
  <2>3. PICK booted : \E rs : FileLog(files[p], promised[p], indoubt[p], n, booted, rs)
    BY <2>2
  <2>4. PICK rs : FileLog(files[p], promised[p], indoubt[p], n, booted, rs)
    BY <2>3
  <2>5. g \in AfterCrash(f)
    BY <1>1
  <2>6. /\ FileTypeOK(f) /\ FileTypeOK(g) /\ g.acked = f.acked
        /\ \A i \in 1..f.acked : g.cells[i] = f.cells[i]
    BY <2>5, CrashImage, FileShape
  <2>7. CASE g = NoFile /\ f.acked = 0
    <3>1. promised[p] = NoRows
      <4>1. files[p].acked = 0
        BY <2>7
      <4>2. QED BY <2>4, <4>1 DEF FileLog
    <3>2. FileLog(g, NoRows, indoubt[p], 0, FALSE, << >>)
      BY <2>7, EmptyLog DEF NoFile
    <3>3. FileLog(files'[p], promised'[p], indoubt'[p], 0, FALSE, << >>)
      BY <1>1, <3>1, <3>2
    <3>4. QED BY <1>3, <3>3, Zenon DEF LogOf
  <2>8. CASE /\ Len(g.cells) \in Nat /\ Len(g.cells) <= Len(f.cells)
             /\ \A i \in 1..Len(g.cells) :
                  g.cells[i] = f.cells[i] \/ (Holes /\ g.cells[i] = ZeroCell)
    <3>1. ASSUME g.acked < Len(g.cells)
          PROVE  \E op : /\ Loggable(op, booted, n, rs)
                         /\ Len(EncodePayload(op)) <= MaxRecordBytes
                         /\ n + 1 <= MaxRecords
                         /\ indoubt[p] = SomeRows(Apply(op, rs))
                         /\ Torn(g.cells, g.acked, op, n)
      <4>1. /\ IsSeq(f.cells) /\ Len(f.cells) \in Nat /\ f.acked \in Nat
        BY <2>6, FileParts
      <4>2. f.acked < Len(f.cells)
        BY <2>6, <2>8, <3>1, <4>1
      <4>3. PICK op : /\ Loggable(op, booted, n, rs)
                      /\ Len(EncodePayload(op)) <= MaxRecordBytes
                      /\ n + 1 <= MaxRecords
                      /\ indoubt[p] = SomeRows(Apply(op, rs))
                      /\ Torn(f.cells, f.acked, op, n)
        BY <2>4, <4>2 DEF FileLog
      <4>4. rs \in Seq(RowValues) /\ Len(rs) <= RowCap
        BY <2>4 DEF FileLog
      <4>5. Len(EncodePayload(op)) \in Nat
        BY <4>3, <4>4, DecodesLogged
      <4> HIDE DEF f, g
      <4>6. Torn(g.cells, f.acked, op, n)
        BY <2>8, <4>1, <4>3, <4>5, TornShrinks
      <4>7. QED BY <2>6, <4>3, <4>6
    <3>2. FileLog(g, promised[p], indoubt[p], n, booted, rs)
      <4>1. FileLog(f, promised[p], indoubt[p], n, booted, rs)
        BY <2>4
      <4> HIDE DEF f, g
      <4>2. QED BY <2>6, <3>1, <4>1, KeptLog
    <3>3. FileLog(files'[p], promised'[p], indoubt'[p], n, booted, rs)
      BY <1>1, <3>2
    <3>4. QED BY <1>3, <3>3, Zenon DEF LogOf
  <2>9. QED BY <2>5, <2>7, <2>8, CrashCells
<1>5. QED BY <1>2, <1>4 DEF LogInv

(* A stutter changes nothing. *)
LEMMA StutterLog == LogInv /\ UNCHANGED vars => LogInv'
<1> SUFFICES ASSUME LogInv, UNCHANGED vars PROVE LogInv'
  OBVIOUS
<1>1. /\ rows' = rows /\ wal' = wal /\ pc' = pc /\ pending' = pending /\ files' = files
      /\ promised' = promised /\ indoubt' = indoubt
  BY DEF vars
<1>2. \A p \in Paths : LogOf(p)'
  BY <1>1, QuietKeepsLog
<1>3. CommitLogged' /\ Settled'
  BY <1>1 DEF LogInv, CommitLogged, Settled, TheFile
<1>4. QED BY <1>2, <1>3 DEF LogInv

(* Every step keeps every file a log. *)
LEMMA NextLog == WalInv /\ LogInv /\ [Next]_vars => LogInv'
  BY WriteLog, WriteFailsLog, QuietLog, SyncLog, BeginCommitLog, EnableLog, FinishLog,
     CrashLog, StutterLog DEF Next

(***************************************************************************)
(* At every point of every commit, after every failure and every crash,    *)
(* each file is the log of what it acknowledges, followed by at most one   *)
(* torn record of what is in doubt.  RecoverySound, RecoveryComplete and   *)
(* the refinement of DurableTable rest on it.                              *)
(***************************************************************************)
THEOREM LogInvariance == Spec => [](WalInv /\ LogInv)
<1>1. Init => WalInv /\ LogInv
  BY InitInv, InitLog
<1>2. WalInv /\ LogInv /\ [Next]_vars => (WalInv /\ LogInv)'
  BY NextInv, NextLog
<1>3. QED BY <1>1, <1>2, PTL DEF Spec

(* Recovery soundness: whatever a failed write or a crash left, with or
   without holes, a successful recovery returns the rows of the last
   acknowledged record or of the one that was attempted since. *)
THEOREM RecoveryIsSound == Spec => []RecoverySound
<1>1. WalInv /\ LogInv => RecoverySound
  <2> SUFFICES ASSUME WalInv, LogInv, NEW p \in Paths,
                        RecoverFile(files[p].cells, MaxRecords).err = "none"
                 PROVE  SomeRows(RecoverFile(files[p].cells, MaxRecords).rows)
                          \in {promised[p], indoubt[p]}
    BY DEF RecoverySound
  <2>2. FileTypeOK(files[p])
    BY FileShape
  <2>3. LogOf(p)
    BY DEF LogInv
  <2>4. PICK n : \E booted : \E rs :
          /\ FileLog(files[p], promised[p], indoubt[p], n, booted, rs)
          /\ wal.mode = "ready" /\ wal.path = p => n = wal.records
    BY <2>3 DEF LogOf
  <2>5. PICK booted : \E rs : FileLog(files[p], promised[p], indoubt[p], n, booted, rs)
    BY <2>4
  <2>6. PICK rs : FileLog(files[p], promised[p], indoubt[p], n, booted, rs)
    BY <2>5
  <2>7. QED BY <2>2, <2>6, LogSound
<1>2. QED BY <1>1, LogInvariance, PTL

(* Recovery completeness, of storage that loses no cell and keeps a later one:
   a log whose creation was acknowledged is there and is recovered under the
   limits it was written with. *)
THEOREM RecoveryIsComplete == Holes = FALSE /\ Spec => []RecoveryComplete
<1>1. Holes = FALSE /\ WalInv /\ LogInv => RecoveryComplete
  <2> SUFFICES ASSUME Holes = FALSE, WalInv, LogInv, NEW p \in Paths, promised[p].some
                 PROVE  /\ files[p].entry = "durable"
                        /\ RecoverFile(files[p].cells, MaxRecords).err = "none"
    BY DEF RecoveryComplete
  <2>2. FileTypeOK(files[p]) /\ files[p].acked \in Nat
    BY FileShape
  <2>3. FilesBounded
    BY InvParts
  <2>4. LogOf(p)
    BY DEF LogInv
  <2>5. PICK n : \E booted : \E rs :
          /\ FileLog(files[p], promised[p], indoubt[p], n, booted, rs)
          /\ wal.mode = "ready" /\ wal.path = p => n = wal.records
    BY <2>4 DEF LogOf
  <2>6. PICK booted : \E rs : FileLog(files[p], promised[p], indoubt[p], n, booted, rs)
    BY <2>5
  <2>7. PICK rs : FileLog(files[p], promised[p], indoubt[p], n, booted, rs)
    BY <2>6
  <2>8. files[p].acked # 0
    <3>1. SUFFICES ASSUME files[p].acked = 0 PROVE FALSE
      OBVIOUS
    <3>2. promised[p] = NoRows
      BY <2>7, <3>1 DEF FileLog
    <3>3. QED BY <3>2 DEF NoRows
  <2>9. files[p].acked > 0
    BY <2>2, <2>8
  <2>10. files[p].entry = "durable" /\ Len(files[p].cells) <= MaxFileBytes
    BY <2>3, <2>9 DEF FilesBounded
  <2>11. booted = TRUE
    BY <2>7, <2>9 DEF FileLog
  <2>12. RecoverFile(files[p].cells, MaxRecords).err = "none"
    BY <2>2, <2>7, <2>10, <2>11, LogComplete
  <2>13. QED BY <2>10, <2>12
<1>2. CASE Holes = FALSE
  <2>1. WalInv /\ LogInv => RecoveryComplete
    BY <1>1, <1>2
  <2>2. Spec => []RecoveryComplete
    BY <2>1, LogInvariance, PTL
  <2>3. QED BY <2>2
<1>3. CASE Holes # FALSE
  BY <1>3
<1>4. QED BY <1>2, <1>3

-----------------------------------------------------------------------------
(* The refinement of DurableTable. *)

(* Its log: the path of a writer that was handed out, healthy or not. *)
AbsLog == IF wal.mode \in {"ready", "poisoned"} THEN {wal.path} ELSE {}

(* Rows within the cap are contents a table may have. *)
LEMMA RowsAreStates ==
    ASSUME NEW r \in Seq(RowValues), Len(r) <= RowCap PROVE r \in RowsType
<1>1. Len(r) \in 0..RowCap /\ r \in [1..Len(r) -> RowValues]
  BY LimitAssumption
<1>2. QED BY <1>1 DEF RowsType

(* The refinement begins in an initial state of DurableTable. *)
LEMMA InitDurable == Init => Durable!Init
  BY DEF Init, Durable!Init, NoWal, NoRows, Durable!None

(* A path where nothing is acknowledged promises nothing. *)
LEMMA UnackedPath ==
    ASSUME LogInv, NEW p \in Paths, files[p].acked = 0
    PROVE  promised[p] = NoRows
<1>1. LogOf(p)
  BY DEF LogInv
<1>2. PICK n : \E booted : \E rs :
        /\ FileLog(files[p], promised[p], indoubt[p], n, booted, rs)
        /\ wal.mode = "ready" /\ wal.path = p => n = wal.records
  BY <1>1 DEF LogOf
<1>3. PICK booted : \E rs : FileLog(files[p], promised[p], indoubt[p], n, booted, rs)
  BY <1>2
<1>4. PICK rs : FileLog(files[p], promised[p], indoubt[p], n, booted, rs)
  BY <1>3
<1>5. QED BY <1>4 DEF FileLog

(* A mutation of a table that is not logged is one of the abstract table. *)
LEMMA MutateDurable == WalInv /\ MutateUnlogged => Durable!Mutate
<1> SUFFICES ASSUME WalInv, MutateUnlogged PROVE Durable!Mutate
  OBVIOUS
<1>1. PICK op \in Ops : Accepts(op, rows) /\ rows' = Apply(op, rows)
  BY DEF MutateUnlogged
<1>2. rows \in Seq(RowValues) /\ Len(rows) <= RowCap
  BY DEF WalInv, TypeOK
<1>3. rows' \in RowsType
  BY <1>1, <1>2, ApplyType, RowsAreStates
<1>4. up /\ wal.mode = "none" /\ UNCHANGED <<up, wal, promised, indoubt>>
  BY DEF MutateUnlogged
<1>5. AbsLog = {} /\ AbsLog' = {}
  BY <1>4 DEF AbsLog
<1>6. QED BY <1>3, <1>4, <1>5 DEF Durable!Mutate, AbsLog

(* The start of a commit puts its outcome in doubt; nothing was in doubt
   before. *)
LEMMA BeginDurable == WalInv /\ LogInv /\ BeginCommit => \E p \in Paths : Durable!Attempt(p)
<1> SUFFICES ASSUME WalInv, LogInv, BeginCommit PROVE \E p \in Paths : Durable!Attempt(p)
  OBVIOUS
<1>1. /\ up /\ pc = "idle" /\ wal.mode = "ready"
      /\ UNCHANGED <<up, rows, wal, files, promised>>
  BY DEF BeginCommit
<1>2. PICK op \in Ops : /\ Accepts(op, rows)
                        /\ indoubt' = [indoubt EXCEPT ![wal.path] = SomeRows(Apply(op, rows))]
  BY DEF BeginCommit
<1>3. rows \in Seq(RowValues) /\ Len(rows) <= RowCap /\ wal.path \in Paths
  BY <1>1 DEF WalInv, TypeOK, NoWal
<1>4. Apply(op, rows) \in RowsType
  BY <1>2, <1>3, ApplyType, RowsAreStates
<1>5. indoubt[wal.path] = NoRows
  BY <1>1 DEF LogInv, Settled
<1>6. AbsLog = {wal.path} /\ AbsLog' = AbsLog
  BY <1>1 DEF AbsLog
<1>7. PICK p \in Paths : p = wal.path
  BY <1>3
<1>8. \E r \in RowsType : /\ AbsLog = {} => r = rows
                          /\ indoubt' = [indoubt EXCEPT ![p] = Durable!Some(r)]
  BY <1>2, <1>4, <1>6, <1>7 DEF Durable!Some, SomeRows
<1>9. Durable!Attempt(p)
  BY <1>1, <1>5, <1>6, <1>7, <1>8 DEF Durable!Attempt, AbsLog, Durable!None, NoRows
<1>10. QED BY <1>9

(* So does the creation of a log, at a path that promises nothing. *)
LEMMA EnableDurable == WalInv /\ LogInv /\ Enable => \E p \in Paths : Durable!Attempt(p)
<1> SUFFICES ASSUME WalInv, LogInv, Enable PROVE \E p \in Paths : Durable!Attempt(p)
  OBVIOUS
<1>1. up /\ wal.mode = "none" /\ UNCHANGED <<up, rows, promised>>
  BY DEF Enable
<1>2. PICK p \in Paths :
        /\ files[p].entry = "absent"
        /\ wal' = Writer(p, 0, 0, "creating")
        /\ indoubt' = [indoubt EXCEPT ![p] = SomeRows(rows)]
  BY DEF Enable
<1>3. files[p] = NoFile
  BY <1>2, InvParts DEF FilesBounded
<1>4. promised[p] = NoRows
  BY <1>3, UnackedPath DEF NoFile
<1>5. rows \in RowsType
  BY RowsAreStates DEF WalInv, TypeOK
<1>6. AbsLog = {} /\ AbsLog' = {}
  BY <1>1, <1>2 DEF AbsLog, Writer
<1>7. \E r \in RowsType : /\ AbsLog = {} => r = rows
                          /\ indoubt' = [indoubt EXCEPT ![p] = Durable!Some(r)]
  BY <1>2, <1>5 DEF Durable!Some, SomeRows
<1>8. AbsLog # {p}
  BY <1>6
<1>9. Durable!Attempt(p)
  BY <1>1, <1>4, <1>6, <1>7, <1>8 DEF Durable!Attempt, AbsLog, Durable!None, NoRows
<1>10. QED BY <1>9

(* The last sync of a mutation is the atomic commit. *)
LEMMA FooterDurable == WalInv /\ LogInv /\ SyncFooter => \E p \in Paths : Durable!Commit(p)
<1> SUFFICES ASSUME WalInv, LogInv, SyncFooter PROVE \E p \in Paths : Durable!Commit(p)
  OBVIOUS
<1>1. /\ pc = "sync_footer" /\ wal.mode = "ready" /\ UNCHANGED up
      /\ wal' = [wal EXCEPT !.file_bytes = @ + FrameLen, !.records = @ + 1]
      /\ rows' = Apply(pending, rows)
      /\ promised' = [promised EXCEPT ![wal.path] = SomeRows(Apply(pending, rows))]
      /\ indoubt' = [indoubt EXCEPT ![wal.path] = NoRows]
  BY DEF SyncFooter, FinishCommit, Acknowledge
<1>2. /\ up /\ wal.path \in Paths
      /\ wal \in [mode : {"creating", "ready", "poisoned"}, path : Paths,
                  file_bytes : Nat, records : Nat]
  BY <1>1 DEF WalInv, TypeOK, NoWal
<1>3. indoubt[wal.path] = SomeRows(Apply(pending, rows))
  BY <1>1 DEF LogInv, CommitLogged
<1>4. AbsLog = {wal.path} /\ AbsLog' = AbsLog
  BY <1>1, <1>2 DEF AbsLog
<1>5. PICK p \in Paths : p = wal.path
  BY <1>2
<1>6. /\ indoubt[p].some
      /\ rows' = indoubt[p].rows
      /\ promised' = [promised EXCEPT ![p] = indoubt[p]]
      /\ indoubt' = [indoubt EXCEPT ![p] = Durable!None]
  <2>1. SomeRows(Apply(pending, rows)).some
    BY Zenon DEF SomeRows
  <2>2. SomeRows(Apply(pending, rows)).rows = Apply(pending, rows)
    BY DEF SomeRows
  <2>3. NoRows = Durable!None
    BY DEF NoRows, Durable!None
  <2>4. indoubt[p].some
    BY <1>3, <1>5, <2>1, Zenon
  <2>5. QED BY <1>1, <1>3, <1>5, <2>2, <2>3, <2>4
<1>7. Durable!Commit(p)
  BY <1>1, <1>2, <1>4, <1>5, <1>6 DEF Durable!Commit, AbsLog
<1>8. QED BY <1>7

(* The sync of the directory makes the log promise the rows. *)
LEMMA ParentDurable == WalInv /\ LogInv /\ SyncParent => \E p \in Paths : Durable!Attach(p)
<1> SUFFICES ASSUME WalInv, LogInv, SyncParent PROVE \E p \in Paths : Durable!Attach(p)
  OBVIOUS
<1>1. /\ pc = "sync_parent" /\ UNCHANGED up
      /\ wal' = Writer(wal.path, FrameLen, 1, "ready")
      /\ rows' = rows
      /\ promised' = [promised EXCEPT ![wal.path] = SomeRows(rows)]
      /\ indoubt' = [indoubt EXCEPT ![wal.path] = NoRows]
  BY DEF SyncParent, FinishCreate, Acknowledge
<1>2. /\ up /\ wal.path \in Paths /\ wal.mode \in {"creating", "ready"}
  BY <1>1 DEF WalInv, TypeOK, NoWal
<1>3. wal.mode = "creating"
  BY <1>1, <1>2, InvParts DEF WriterConsistent
<1>4. pending = BootstrapOp(rows)
  BY <1>1, <1>3 DEF WalInv, TypeOK
<1>5. Apply(pending, rows) = rows
  BY <1>4 DEF Apply, BootstrapOp
<1>6. indoubt[wal.path] = SomeRows(rows)
  BY <1>1, <1>5 DEF LogInv, CommitLogged
<1>7. AbsLog = {} /\ AbsLog' = {wal.path}
  BY <1>1, <1>3 DEF AbsLog, Writer
<1>8. PICK p \in Paths : p = wal.path
  BY <1>2
<1>9. /\ indoubt[p] = Durable!Some(rows)
      /\ promised' = [promised EXCEPT ![p] = Durable!Some(rows)]
      /\ indoubt' = [indoubt EXCEPT ![p] = Durable!None]
  BY <1>1, <1>6, <1>8 DEF SomeRows, NoRows, Durable!None, Durable!Some
<1>10. Durable!Attach(p)
  BY <1>1, <1>2, <1>7, <1>8, <1>9 DEF Durable!Attach, AbsLog
<1>11. QED BY <1>10

(* Disabling the log detaches it. *)
LEMMA DisableDurable == Disable => Durable!Detach
  BY DEF Disable, Durable!Detach, NoWal

(* A crash of the process is one of the abstract table. *)
LEMMA CrashDurable == Crash => Durable!Crash
  BY DEF Crash, Durable!Crash, NoWal

(* What recovery publishes is what it owes the caller: recovery soundness. *)
LEMMA RecoverDurable == WalInv /\ RecoverySound /\ Recover => \E p \in Paths : Durable!Recover(p)
<1> SUFFICES ASSUME WalInv, RecoverySound, Recover PROVE \E p \in Paths : Durable!Recover(p)
  OBVIOUS
<1>1. PICK p \in Paths :
        /\ files[p].entry # "absent"
        /\ RecoverFile(files[p].cells, MaxRecords).err = "none"
        /\ TableAccepts(RecoverFile(files[p].cells, MaxRecords).rows)
        /\ up' = TRUE
        /\ rows' = RecoverFile(files[p].cells, MaxRecords).rows
  BY DEF Recover
<1>2. ~up /\ UNCHANGED <<wal, promised, indoubt>>
  BY DEF Recover
<1>3. rows' \in RowsType
  BY <1>1, RowsAreStates DEF TableAccepts
<1>4. SomeRows(rows') \in {promised[p], indoubt[p]}
  BY <1>1 DEF RecoverySound
<1>5. \E r \in RowsType : Durable!Some(r) \in {promised[p], indoubt[p]} /\ rows' = r
  BY <1>3, <1>4 DEF Durable!Some, SomeRows
<1>6. AbsLog' = AbsLog
  BY <1>2 DEF AbsLog
<1>7. Durable!Recover(p)
  BY <1>1, <1>2, <1>5, <1>6 DEF Durable!Recover, AbsLog
<1>8. QED BY <1>7

(* The writes and syncs inside a commit do not show, nor does its failure. *)
LEMMA CommitStutters ==
    WalInv /\ (WriteBody \/ SyncBody \/ WriteFooter \/ SyncBootstrapFooter \/ WriteFails \/ SyncFails)
        => UNCHANGED Durable!absVars
<1> SUFFICES ASSUME WalInv, WriteBody \/ SyncBody \/ WriteFooter \/ SyncBootstrapFooter
                            \/ WriteFails \/ SyncFails
             PROVE  UNCHANGED Durable!absVars
  OBVIOUS
<1>1. UNCHANGED <<up, rows, promised, indoubt>>
  BY DEF WriteBody, SyncBody, WriteFooter, SyncBootstrapFooter, WriteFails, SyncFails, Poison
<1>2. AbsLog' = AbsLog
  <2>1. CASE WriteBody \/ SyncBody \/ WriteFooter \/ SyncBootstrapFooter
    BY SMTT(60), <2>1 DEF WriteBody, SyncBody, WriteFooter, SyncBootstrapFooter, AbsLog
  <2>2. CASE WriteFails \/ SyncFails
    <3>1. /\ pc # "idle"
          /\ wal' = IF wal.mode = "creating" THEN NoWal ELSE [wal EXCEPT !.mode = "poisoned"]
      BY <2>2 DEF WriteFails, SyncFails, Poison
    <3>2. /\ wal.mode \in {"creating", "ready"}
          /\ wal \in [mode : {"creating", "ready", "poisoned"}, path : Paths,
                      file_bytes : Nat, records : Nat]
      BY <3>1 DEF WalInv, TypeOK, NoWal
    <3>3. QED BY <3>1, <3>2 DEF AbsLog, NoWal
  <2>3. QED BY <2>1, <2>2
<1>3. QED BY <1>1, <1>2 DEF Durable!absVars, AbsLog

(* Every step of the log is a step of the abstract table, or does not show. *)
LEMMA NextDurable ==
    WalInv /\ LogInv /\ RecoverySound /\ [Next]_vars => [Durable!Next]_(Durable!absVars)
<1> SUFFICES ASSUME WalInv, LogInv, RecoverySound, [Next]_vars
             PROVE  Durable!Next \/ UNCHANGED Durable!absVars
  OBVIOUS
<1>1. CASE UNCHANGED vars
  BY <1>1 DEF vars, Durable!absVars
<1>2. CASE Next
  BY <1>2, MutateDurable, BeginDurable, EnableDurable, FooterDurable, ParentDurable,
     DisableDurable, CrashDurable, RecoverDurable, CommitStutters DEF Next, Durable!Next
<1>3. QED BY <1>1, <1>2

(* Bytes, syncs, frames and replay amount to an atomic commit that a failure
   or a crash may leave in doubt: Int64Wal implements DurableTable. *)
THEOREM WalImplementsDurableTable == Spec => ImplementsDurableTable
<1>1. Init => Durable!Init
  BY InitDurable
<1>2. WalInv /\ LogInv /\ RecoverySound /\ [Next]_vars => [Durable!Next]_(Durable!absVars)
  BY NextDurable
<1>3. QED BY <1>1, <1>2, LogInvariance, RecoveryIsSound, PTL
      DEF Spec, ImplementsDurableTable, Durable!Spec

=============================================================================
