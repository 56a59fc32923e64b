--------------------------- MODULE TailSyncProofs ---------------------------
(* Proofs about TailSync, for every value of its constants. *)
EXTENDS TailSync, SequenceTheorems, TLAPS

-----------------------------------------------------------------------------
(* The inductive invariant *)

(* Whose turn it is: the file in hand waits no more, and a full copy is    *)
(* owed only to files whose turn is still to come or has just begun.       *)
TurnInv ==
    /\ pc = "stopped" => tracked = {}
    /\ pc \in {"stopped", "list"} => todo = {}
    /\ cur \notin todo
    /\ pending \subseteq todo \cup (IF pc \in {"stat", "copy"} THEN {cur} ELSE {})

(* The offset of a mirror that owes no full copy is its length.            *)
OffsetInv ==
    \A f \in (tracked \ pending) \ torn : offset[f] = Len(local[f])

(* A file that has not changed since its Stat is what the poll takes it    *)
(* for: as long as it was, then as long as its mirror, then mirrored.      *)
QuietInv ==
    \A f \in (tracked \cap quiet) \ torn :
        /\ f \notin todo \cup {cur} \cup undigested => Mirrored(f)
        /\ f = cur /\ pc \in {"digest", "recopy"} => Exists(f) /\ offset[f] = Len(remote[f])
        /\ f = cur /\ pc = "recopy" => f \notin undigested
        /\ f = cur /\ pc = "store" /\ f \notin undigested => Mirrored(f)

SizeInv ==
    pc = "copy" /\ cur \in quiet => Exists(cur) /\ size = Len(remote[cur])

(* The row of a file whose turn is over describes its mirror, if it could  *)
(* be written, and so does the hash that is about to be stored.            *)
RowInv ==
    \A f \in tracked \ torn :
        /\ f \notin todo \cup {cur} \cup unsaved =>
              row[f] = [offset |-> Len(local[f]), hash |-> LocalDigest(f), state |-> "connected"]
        /\ f = cur /\ pc \in {"recopy", "store"} => hash[f] = LocalDigest(f)

(* A connected row is of a log that is followed, or was there at the       *)
(* start, or could not be overwritten.                                     *)
StreamInv ==
    pc # "stopped" =>
        Streams("connected") \subseteq
            tracked \cup {f \in Files : cps[f].state = "connected"} \cup unsaved

TailInv == TurnInv /\ OffsetInv /\ QuietInv /\ SizeInv /\ RowInv /\ StreamInv
-----------------------------------------------------------------------------
(* Parts and digests of logs *)

LEMMA PartType ==
    ASSUME NEW s \in Seq(Blocks), NEW m \in Nat \ {0}, NEW n \in Nat
    PROVE  /\ Part(s, m, n) \in Seq(Blocks)
           /\ n = Len(s) /\ m <= n => Len(Part(s, m, n)) = n - m + 1
           /\ n = Len(s) /\ m > n => Len(Part(s, m, n)) = 0
<1> DEFINE e == IF n < Len(s) THEN n ELSE Len(s)
<1>1. Len(s) \in Nat /\ \A i \in 1..Len(s) : s[i] \in Blocks
  BY LenProperties
<1>2. e \in Int /\ m \in Int /\ \A i \in m..e : s[i] \in Blocks
  BY <1>1
<1>3. /\ SubSeq(s, m, e) \in Seq(Blocks)
      /\ Len(SubSeq(s, m, e)) = IF m <= e THEN e - m + 1 ELSE 0
  BY <1>2, SubSeqProperties
<1>4. QED
  BY <1>1, <1>3 DEF Part

LEMMA DigestType ==
    ASSUME NEW s \in Seq(Blocks), NEW n \in Nat
    PROVE  Digest(s, n) \in Seq(Blocks)
<1>1. CASE n <= Window
  BY <1>1, PartType DEF Digest
<1>2. CASE ~(n <= Window)
  <2>1. n - Window + 1 \in Nat \ {0} /\ Window \in Nat /\ 1 \in Nat \ {0}
    BY <1>2, ConstantsAssumption
  <2>2. Part(s, n - Window + 1, n) \in Seq(Blocks)
    BY <2>1, PartType
  <2>4. Part(s, 1, Window) \in Seq(Blocks)
    BY <2>1, PartType
  <2>3. QED
    BY <1>2, <2>2, <2>4, ConcatProperties DEF Digest
<1>3. QED
  BY <1>1, <1>2

(* What appendDelta adds to a mirror brings its offset to the end. *)
LEMMA DeltaProperties ==
    ASSUME NEW s \in Seq(Blocks), NEW r \in Seq(Blocks), NEW o \in Nat
    PROVE  LET delta == Part(r, o + 1, Len(r))
           IN  /\ delta \in Seq(Blocks) /\ Len(delta) \in Nat
               /\ s \o delta \in Seq(Blocks)
               /\ Len(s \o delta) = Len(s) + Len(delta)
               /\ o <= Len(r) => o + Len(delta) = Len(r)
<1> DEFINE delta == Part(r, o + 1, Len(r))
<1>1. Len(r) \in Nat /\ o + 1 \in Nat \ {0}
  BY LenProperties
<1>2. /\ delta \in Seq(Blocks)
      /\ o + 1 <= Len(r) => Len(delta) = Len(r) - (o + 1) + 1
      /\ o + 1 > Len(r) => Len(delta) = 0
  BY <1>1, PartType
<1>3. Len(delta) \in Nat
  BY <1>2, LenProperties
<1>4. o <= Len(r) => o + Len(delta) = Len(r)
  BY <1>1, <1>2
<1> HIDE DEF delta
<1>5. s \o delta \in Seq(Blocks) /\ Len(s \o delta) = Len(s) + Len(delta)
  BY <1>2, ConcatProperties
<1>6. QED
  BY <1>2, <1>3, <1>4, <1>5 DEF delta

LEMMA BoundedSeqType ==
    ASSUME NEW s \in BoundedSeq(Blocks, MaxBlocks)
    PROVE  s \in Seq(Blocks)
BY ConstantsAssumption DEF BoundedSeq, SeqOf
-----------------------------------------------------------------------------
(* Type correctness *)

LEMMA NoRowType == NoRow \in Row
BY DEF NoRow, Row

LEMMA ExistsType ==
    ASSUME TypeOK, NEW f \in Files, Exists(f)
    PROVE  remote[f] \in Seq(Blocks) /\ Len(remote[f]) \in Nat
<1>1. remote[f] \in Seq(Blocks)
  BY DEF TypeOK, Exists
<1>2. QED
  BY <1>1, LenProperties

LEMMA FileTypes ==
    ASSUME TypeOK, NEW f \in Files
    PROVE  /\ local[f] \in Seq(Blocks) /\ Len(local[f]) \in Nat
           /\ offset[f] \in Nat /\ hash[f] \in Seq(Blocks)
           /\ LocalDigest(f) \in Seq(Blocks)
<1>1. local[f] \in Seq(Blocks) /\ offset[f] \in Nat /\ hash[f] \in Seq(Blocks)
  BY DEF TypeOK
<1>2. Len(local[f]) \in Nat
  BY <1>1, LenProperties
<1>3. QED
  BY <1>1, <1>2, DigestType DEF LocalDigest

LEMMA UpsertType ==
    ASSUME TypeOK, NEW f \in Files, NEW state \in {"connected", "degraded"},
           Upsert(f, state) \/ UpsertFails(f),
           offset' \in [Files -> Nat], hash' \in [Files -> Seq(Blocks)]
    PROVE  row' \in [Files -> Row] /\ unsaved' \in SUBSET Files
<1>1. Checkpointed(f, state) \in Row
  BY DEF Checkpointed, Row
<1>2. QED
  BY <1>1 DEF Upsert, UpsertFails, TypeOK

(* What has been marked is not connected any more, or is not saved. *)
LEMMA Marked ==
    ASSUME TypeOK, NEW gone \in SUBSET Files, MarkDisconnected(gone)
    PROVE  /\ row' \in [Files -> Row] /\ unsaved' \in SUBSET Files /\ faults' \in Nat
           /\ \A g \in Files \ gone : row'[g] = row[g] /\ (g \in unsaved' <=> g \in unsaved)
           /\ \A g \in Files : row'[g].state = "connected" =>
                 row[g].state = "connected" /\ (g \in gone => g \in unsaved')
<1> DEFINE over == [NoRow EXCEPT !.state = "disconnected"]
<1>1. over \in Row /\ over.state = "disconnected"
  <2>1. over = [offset |-> 0, hash |-> <<>>, state |-> "disconnected"]
    BY DEF NoRow
  <2>2. <<>> \in Seq(Blocks)
    OBVIOUS
  <2> HIDE DEF over
  <2>3. QED
    BY <2>1, <2>2 DEF Row
<1>2. PICK missed \in SUBSET gone :
         /\ IF missed = {} THEN UNCHANGED faults ELSE Fault("store")
         /\ row' = [f \in Files |-> IF f \in gone \ missed THEN over ELSE row[f]]
         /\ unsaved' = (unsaved \ gone) \cup missed
  BY DEF MarkDisconnected
<1> HIDE DEF over
<1>3. row \in [Files -> Row] /\ unsaved \in SUBSET Files /\ faults \in Nat
  BY DEF TypeOK
<1>4. row' \in [Files -> Row] /\ unsaved' \in SUBSET Files
  BY <1>1, <1>2, <1>3
<1>5. faults' \in Nat
  BY <1>2, <1>3 DEF Fault
<1>6. \A g \in Files : row'[g] = IF g \in gone \ missed THEN over ELSE row[g]
  BY <1>2
<1>7. QED
  BY <1>1, <1>2, <1>4, <1>5, <1>6

(* A vanished file's row is written or missed; no other row is touched. *)
LEMMA GoneRows ==
    ASSUME TypeOK, NEW f \in Files, FileGone(f)
    PROVE  /\ row' \in [Files -> Row] /\ unsaved' \in SUBSET Files /\ faults' \in Nat
           /\ \A g \in Files \ {f} : row'[g] = row[g] /\ (g \in unsaved' <=> g \in unsaved)
           /\ row'[f].state = "connected" => f \in unsaved'
<1>1. CASE MarkDisconnected({f})
  BY <1>1, Marked
<1>2. CASE /\ Fault("store")
           /\ row' = [row EXCEPT ![f] = Checkpointed(f, "degraded")]
           /\ unsaved' = unsaved \cup {f}
  <2>1. offset' = offset /\ hash' = hash
    BY DEF FileGone
  <2>2. Checkpointed(f, "degraded") \in Row
    BY <2>1 DEF Checkpointed, Row, TypeOK
  <2>3. QED
    BY <1>2, <2>2 DEF Fault, TypeOK
<1>3. QED
  BY <1>1, <1>2 DEF FileGone

(* A full copy, whole or broken off. *)
LEMMA CopyTypes ==
    ASSUME TypeOK, NEW f \in Files, Exists(f), FullCopy(f) \/ AppendDelta(f)
    PROVE  /\ local' \in [Files -> Seq(Blocks)] /\ offset' \in [Files -> Nat]
           /\ torn' \in SUBSET Files
<1>1. /\ remote[f] \in Seq(Blocks) /\ Len(remote[f]) \in Nat
      /\ local \in [Files -> Seq(Blocks)] /\ offset \in [Files -> Nat] /\ torn \in SUBSET Files
  BY ExistsType DEF TypeOK
<1>2. CASE FullCopy(f)
  BY <1>1, <1>2 DEF FullCopy
<1>3. CASE AppendDelta(f)
  <2> DEFINE delta == Part(remote[f], offset[f] + 1, Len(remote[f]))
  <2>1. local[f] \o delta \in Seq(Blocks) /\ Len(delta) \in Nat /\ offset[f] \in Nat
    BY <1>1, DeltaProperties
  <2>2. /\ local' = [local EXCEPT ![f] = local[f] \o delta]
        /\ offset' = [offset EXCEPT ![f] = offset[f] + Len(delta)]
        /\ torn' = torn
    BY <1>3 DEF AppendDelta
  <2> HIDE DEF delta
  <2>3. offset[f] + Len(delta) \in Nat
    BY <2>1
  <2>4. QED
    BY <1>1, <2>1, <2>2, <2>3
<1>4. QED
  BY <1>2, <1>3

LEMMA BreakTypes ==
    ASSUME TypeOK, NEW f \in Files, Exists(f), CopyBreaksOff(f)
    PROVE  local' \in [Files -> Seq(Blocks)] /\ torn' \in SUBSET Files
<1>1. remote[f] \in Seq(Blocks) /\ Len(remote[f]) \in Nat
  BY ExistsType
<1>2. PICK n \in 0..Len(remote[f]) : local' = [local EXCEPT ![f] = SubSeq(remote[f], 1, n)]
  BY DEF CopyBreaksOff
<1>3. SubSeq(remote[f], 1, n) \in Seq(Blocks)
  <2>1. n \in Int /\ 1 \in Int /\ \A i \in 1..n : remote[f][i] \in Blocks
    BY <1>1, LenProperties
  <2>2. QED
    BY <2>1, SubSeqProperties
<1>4. QED
  BY <1>2, <1>3 DEF TypeOK, CopyBreaksOff

TypeInv == TypeOK /\ TurnInv

LEMMA TypeInvInit == Init => TypeInv
<1> SUFFICES ASSUME Init PROVE TypeInv
  OBVIOUS
<1>1. <<>> \in Seq(Blocks)
  OBVIOUS
<1>2. /\ remote \in [Files -> Seq(Blocks) \cup {Gone}] /\ local \in [Files -> Seq(Blocks)]
      /\ hash \in [Files -> Seq(Blocks)] /\ offset \in [Files -> Nat]
  BY <1>1 DEF Init
<1>3. row \in [Files -> Row] /\ cps \in [Files -> Row]
  BY NoRowType DEF Init
<1>4. TypeOK
  BY <1>2, <1>3 DEF Init, TypeOK, PCs
<1>5. TurnInv
  BY DEF Init, TurnInv
<1>6. QED
  BY <1>4, <1>5 DEF TypeInv

(* Ending the process empties its table. *)
LEMMA ExitTypes ==
    ASSUME TypeInv, Exit,
           UNCHANGED logs, local' \in [Files -> Seq(Blocks)],
           offset' \in [Files -> Nat], hash' = hash, row' \in [Files -> Row],
           unsaved' \in SUBSET Files, undigested' = undigested,
           quiet' = quiet, torn' \in SUBSET Files, faults' \in Nat
    PROVE  TypeInv'
<1>1. [f \in Files |-> NoRow] \in [Files -> Row]
  BY NoRowType
<1>2. TypeOK'
  BY <1>1 DEF TypeInv, TypeOK, Exit, logs, PCs
<1>3. TurnInv'
  BY DEF Exit, TurnInv, TypeInv, TypeOK
<1>4. QED
  BY <1>2, <1>3 DEF TypeInv

LEMMA TypeInvStep == TypeInv /\ [Next]_vars => TypeInv'
<1> SUFFICES ASSUME TypeInv, [Next]_vars PROVE TypeInv'
  OBVIOUS
<1> USE DEF logs, table, session, hand, misses, store, TypeInv
<1>1. ASSUME NEW f \in Files, AppendBlock(f) \/ ReplaceLog(f) \/ RemoveLog(f) PROVE TypeInv'
  <2>1. PICK blocks \in Seq(Blocks) \cup {Gone} : ChangeTo(f, blocks)
    <3>1. CASE AppendBlock(f)
      <4>1. PICK b \in Blocks : ChangeTo(f, Append(remote[f], b))
        BY <3>1 DEF AppendBlock
      <4>2. Append(remote[f], b) \in Seq(Blocks)
        BY <3>1, ExistsType, AppendProperties DEF AppendBlock
      <4>3. QED
        BY <4>1, <4>2
    <3>2. CASE ReplaceLog(f)
      BY <3>2, BoundedSeqType DEF ReplaceLog
    <3>3. CASE RemoveLog(f)
      BY <3>3 DEF RemoveLog
    <3>4. QED
      BY <1>1, <3>1, <3>2, <3>3
  <2>2. remote' \in [Files -> Seq(Blocks) \cup {Gone}]
    BY <2>1 DEF ChangeTo, TypeOK
  <2>3. QED
    BY <2>1, <2>2 DEF ChangeTo, TypeOK, TurnInv
<1>2. CASE StartProcess
  BY <1>2 DEF StartProcess, TypeOK, TurnInv, PCs
<1>3. CASE Finish \/ NothingListed
  BY <1>3, ExitTypes DEF Finish, NothingListed, TypeOK
<1>4. CASE Reconnect
  BY <1>4 DEF Reconnect, TypeOK, TurnInv
<1>5. CASE Poll
  <2> DEFINE found == {f \in Files : Exists(f)}
             new   == found \ tracked
  <2>1. /\ pc = "list" /\ pc' = "poll" /\ tracked' = found /\ todo' = found
        /\ pending' = IF force THEN found ELSE (pending \cap found) \cup new
        /\ force' = FALSE
        /\ MarkDisconnected(tracked \ found)
        /\ offset' = [f \in Files |-> IF f \in new THEN cps[f].offset ELSE offset[f]]
        /\ hash' = [f \in Files |-> IF f \in new THEN cps[f].hash ELSE hash[f]]
        /\ UNCHANGED <<logs, local, cps, again, cur, size, quiet, misses>>
    BY <1>5 DEF Poll, Reconcile
  <2>2. row' \in [Files -> Row] /\ unsaved' \in SUBSET Files /\ faults' \in Nat
    BY <2>1, Marked DEF TypeOK
  <2>3. offset' \in [Files -> Nat] /\ hash' \in [Files -> Seq(Blocks)]
    <3>1. \A f \in Files : cps[f].offset \in Nat /\ cps[f].hash \in Seq(Blocks)
      BY DEF TypeOK, Row
    <3>2. QED
      BY <2>1, <3>1 DEF TypeOK
  <2>4. found \in SUBSET Files /\ pending' \in SUBSET found
    BY <2>1
  <2>6. NoFile \notin found
    BY ConstantsAssumption
  <2> HIDE DEF found, new
  <2>5. QED
    BY <2>1, <2>2, <2>3, <2>4, <2>6, ConstantsAssumption DEF TypeOK, TurnInv, PCs
<1>6. CASE EndPoll
  BY <1>6 DEF EndPoll, TypeOK, TurnInv, PCs
<1>7. ASSUME NEW f \in Files, NextFile(f) PROVE TypeInv'
  BY <1>7, ConstantsAssumption DEF NextFile, TypeOK, TurnInv, PCs
<1>8. ASSUME NEW f \in Files, Stat(f) PROVE TypeInv'
  BY <1>8, ExistsType DEF Stat, TypeOK, TurnInv, PCs
<1>9. ASSUME NEW f \in Files, FileGone(f) PROVE TypeInv'
  <2>1. row' \in [Files -> Row] /\ unsaved' \in SUBSET Files /\ faults' \in Nat
    BY <1>9, GoneRows
  <2>2. QED
    BY <1>9, <2>1, ConstantsAssumption DEF FileGone, PutDown, TypeOK, TurnInv, PCs
<1>10. ASSUME NEW f \in Files, Copy(f) PROVE TypeInv'
  <2>1. /\ local' \in [Files -> Seq(Blocks)] /\ offset' \in [Files -> Nat]
        /\ torn' \in SUBSET Files
    BY <1>10, CopyTypes DEF Copy, TypeOK
  <2>2. QED
    BY <1>10, <2>1, ConstantsAssumption DEF Copy, TypeOK, TurnInv, PCs
<1>11. ASSUME NEW f \in Files, CompareDigests(f) \/ DigestFails(f) PROVE TypeInv'
  <2>1. LocalDigest(f) \in Seq(Blocks)
    BY FileTypes
  <2>2. /\ pc = "digest" /\ pc' \in {"recopy", "store"}
        /\ hash' \in [Files -> Seq(Blocks)] /\ faults' \in Nat
        /\ undigested' \in SUBSET Files
    <3>1. CASE CompareDigests(f)
      BY <2>1, <3>1 DEF CompareDigests, TypeOK
    <3>2. CASE DigestFails(f)
      BY <2>1, <3>2 DEF DigestFails, Fault, TypeOK
    <3>3. QED
      BY <1>11, <3>1, <3>2
  <2>3. QED
    BY <1>11, <2>2 DEF CompareDigests, DigestFails, TypeOK, TurnInv, PCs
<1>12. ASSUME NEW f \in Files, DefensiveRecopy(f) PROVE TypeInv'
  <2>1. CASE Exists(f)
    <3>1. Digest(remote[f], Len(remote[f])) \in Seq(Blocks)
      BY <2>1, ExistsType, DigestType
    <3>2. /\ local' \in [Files -> Seq(Blocks)] /\ offset' \in [Files -> Nat]
          /\ torn' \in SUBSET Files /\ hash' \in [Files -> Seq(Blocks)]
      BY <1>12, <2>1, <3>1, CopyTypes DEF DefensiveRecopy, TypeOK
    <3>3. QED
      BY <1>12, <3>2 DEF DefensiveRecopy, TypeOK, TurnInv, PCs
  <2>2. CASE ~Exists(f)
    BY <1>12, <2>2 DEF DefensiveRecopy, TypeOK, TurnInv, PCs
  <2>3. QED
    BY <2>1, <2>2
<1>13. ASSUME NEW f \in Files, RecopyFails(f) PROVE TypeInv'
  <2>1. local' \in [Files -> Seq(Blocks)] /\ torn' \in SUBSET Files
    BY <1>13, BreakTypes DEF RecopyFails
  <2>2. QED
    BY <1>13, <2>1 DEF RecopyFails, Fault, TypeOK, TurnInv, PCs
<1>14. ASSUME NEW f \in Files, Checkpoint(f) PROVE TypeInv'
  <2>1. offset' \in [Files -> Nat] /\ hash' = hash
    BY <1>14, FileTypes DEF Checkpoint, TypeOK
  <2>2. row' \in [Files -> Row] /\ unsaved' \in SUBSET Files /\ faults' \in Nat
    <3>1. Upsert(f, "connected") \/ UpsertFails(f)
      BY <1>14 DEF Checkpoint
    <3>2. faults' \in Nat
      BY <1>14 DEF Checkpoint, Fault, TypeOK
    <3>3. QED
      BY <2>1, <3>1, <3>2, UpsertType DEF TypeOK
  <2>3. QED
    BY <1>14, <2>1, <2>2, ConstantsAssumption DEF Checkpoint, PutDown, TypeOK, TurnInv, PCs
<1>15. ASSUME NEW f \in Files, StatFails(f) PROVE TypeInv'
  <2>1. row' \in [Files -> Row] /\ unsaved' \in SUBSET Files
    BY <1>15, UpsertType DEF StatFails, TypeOK
  <2>2. QED
    BY <1>15, <2>1, ExitTypes DEF StatFails, Fault, TypeOK
<1>16. ASSUME NEW f \in Files, CopyFails(f) PROVE TypeInv'
  <2>1. /\ Exit /\ UNCHANGED <<logs, hash, row, unsaved, undigested, quiet>>
        /\ Exists(f) /\ (NeedsFullCopy(f) => offset' = offset)
    BY <1>16 DEF CopyFails
  <2>2. /\ row' \in [Files -> Row] /\ unsaved' \in SUBSET Files /\ faults' \in Nat
        /\ offset \in [Files -> Nat]
    BY <1>16, <2>1 DEF CopyFails, Fault, TypeOK
  <2>3. CASE NeedsFullCopy(f) /\ CopyBreaksOff(f)
    BY <2>1, <2>2, <2>3, BreakTypes, ExitTypes
  <2>4. CASE AppendDelta(f)
    BY <2>1, <2>2, <2>4, CopyTypes, ExitTypes
  <2>5. QED
    BY <1>16, <2>3, <2>4 DEF CopyFails
<1>17. CASE UNCHANGED vars
  BY <1>17 DEF vars, TypeOK, TurnInv
<1>18. QED
  BY <1>1, <1>2, <1>3, <1>4, <1>5, <1>6, <1>7, <1>8, <1>9, <1>10, <1>11, <1>12,
     <1>13, <1>14, <1>15, <1>16, <1>17 DEF Next, FileStep, FaultStep

(* The table, the mirrors and the checkpoints keep their types: no row is  *)
(* of a file that has been dropped, and none is in hand between polls.     *)
THEOREM TailTypeCorrect == Spec => []TypeOK
<1>1. TypeInv => TypeOK
  BY DEF TypeInv
<1>2. QED
  BY <1>1, TypeInvInit, TypeInvStep, PTL DEF Spec

-----------------------------------------------------------------------------
(* What the steps of a file's turn leave alone *)

(* The process has ended, or has just begun: its table is empty.           *)
NoTable == tracked' = {} /\ pc' \in {"stopped", "list"}

LEMMA EmptyTable ==
    ASSUME NoTable
    PROVE  OffsetInv' /\ QuietInv' /\ SizeInv' /\ RowInv'
BY DEF NoTable, OffsetInv, QuietInv, SizeInv, RowInv

LEMMA EndsSession ==
    ASSUME TypeInv,
           \/ StartProcess \/ Finish \/ NothingListed
           \/ \E f \in Files : StatFails(f) \/ CopyFails(f)
    PROVE  NoTable
BY DEF StartProcess, Finish, NothingListed, StatFails, CopyFails, Exit, NoTable

(* A step of f's turn changes nothing about another file. *)
LEMMA OtherFiles ==
    ASSUME TypeInv, NEW f \in Files,
           \/ NextFile(f) \/ Stat(f) \/ FileGone(f) \/ Copy(f) \/ CompareDigests(f)
           \/ DigestFails(f) \/ DefensiveRecopy(f) \/ RecopyFails(f) \/ Checkpoint(f)
    PROVE  /\ remote' = remote /\ cps' = cps
           /\ \A g \in Files \ {f} :
                 /\ local'[g] = local[g] /\ offset'[g] = offset[g]
                 /\ hash'[g] = hash[g] /\ row'[g] = row[g]
                 /\ g \in tracked' <=> g \in tracked
                 /\ g \in pending' <=> g \in pending
                 /\ g \in torn' <=> g \in torn
                 /\ g \in undigested' <=> g \in undigested
                 /\ g \in unsaved' <=> g \in unsaved
                 /\ g \in quiet' <=> g \in quiet
                 /\ g \in todo' <=> g \in todo
<1> USE DEF logs, table, session, hand, misses, store, TypeInv
<1>1. CASE NextFile(f) \/ Stat(f)
  BY <1>1 DEF NextFile, Stat, TypeOK
<1>2. CASE FileGone(f)
  BY <1>2, GoneRows DEF FileGone, TypeOK
<1>3. CASE Copy(f)
  BY <1>3 DEF Copy, FullCopy, AppendDelta, TypeOK
<1>4. CASE CompareDigests(f) \/ DigestFails(f)
  BY <1>4 DEF CompareDigests, DigestFails, TypeOK
<1>5. CASE DefensiveRecopy(f)
  BY <1>5 DEF DefensiveRecopy, FullCopy, TypeOK
<1>6. CASE RecopyFails(f)
  BY <1>6 DEF RecopyFails, CopyBreaksOff, TypeOK
<1>7. CASE Checkpoint(f)
  BY <1>7 DEF Checkpoint, Upsert, UpsertFails, TypeOK
<1>8. QED
  BY <1>1, <1>2, <1>3, <1>4, <1>5, <1>6, <1>7

(* The file in hand owes no full copy once it has been copied. *)
LEMMA CopiedFile ==
    ASSUME TypeInv, pc \in {"digest", "recopy", "store"}
    PROVE  cur \in tracked \ pending /\ cur \in Files
BY DEF TypeInv, TypeOK, TurnInv

LEMMA FullCopyDone ==
    ASSUME TypeInv, NEW f \in Files, Exists(f), FullCopy(f)
    PROVE  local'[f] = remote[f] /\ offset'[f] = Len(remote[f])
BY DEF FullCopy, TypeInv, TypeOK

LEMMA DeltaDone ==
    ASSUME TypeInv, NEW f \in Files, Exists(f), AppendDelta(f)
    PROVE  /\ offset[f] = Len(local[f]) => offset'[f] = Len(local'[f])
           /\ offset[f] <= Len(remote[f]) => offset'[f] = Len(remote[f])
           /\ torn' = torn
<1> DEFINE delta == Part(remote[f], offset[f] + 1, Len(remote[f]))
<1>1. remote[f] \in Seq(Blocks) /\ local[f] \in Seq(Blocks) /\ offset[f] \in Nat
  BY ExistsType, FileTypes DEF TypeInv
<1>2. /\ Len(local[f] \o delta) = Len(local[f]) + Len(delta)
      /\ offset[f] <= Len(remote[f]) => offset[f] + Len(delta) = Len(remote[f])
  BY <1>1, DeltaProperties
<1>3. local'[f] = local[f] \o delta /\ offset'[f] = offset[f] + Len(delta) /\ torn' = torn
  BY DEF AppendDelta, TypeInv, TypeOK
<1> HIDE DEF delta
<1>4. QED
  BY <1>2, <1>3
-----------------------------------------------------------------------------
(* Offsets *)

LEMMA OffsetStep ==
    ASSUME TypeInv, OffsetInv, [Next]_vars
    PROVE  OffsetInv'
<1> USE DEF logs, table, session, hand, misses, store
<1>1. ASSUME NEW f \in Files, AppendBlock(f) \/ ReplaceLog(f) \/ RemoveLog(f) PROVE OffsetInv'
  BY <1>1 DEF AppendBlock, ReplaceLog, RemoveLog, ChangeTo, OffsetInv
<1>2. CASE \/ StartProcess \/ Finish \/ NothingListed
           \/ \E f \in Files : StatFails(f) \/ CopyFails(f)
  BY <1>2, EndsSession, EmptyTable
<1>3. CASE Reconnect \/ EndPoll
  BY <1>3 DEF Reconnect, EndPoll, OffsetInv
<1>4. CASE Poll
  <2>1. /\ tracked' \ pending' \subseteq tracked \ pending
        /\ \A f \in tracked \cap Files : offset'[f] = offset[f]
        /\ local' = local /\ torn' = torn
    BY <1>4 DEF Poll, Reconcile
  <2>2. QED
    BY <2>1 DEF OffsetInv, TypeInv, TypeOK
<1>5. ASSUME NEW f \in Files,
             \/ NextFile(f) \/ Stat(f) \/ FileGone(f) \/ Copy(f) \/ CompareDigests(f)
             \/ DigestFails(f) \/ DefensiveRecopy(f) \/ RecopyFails(f) \/ Checkpoint(f)
      PROVE  OffsetInv'
  <2>1. \A g \in Files \ {f} :
           /\ local'[g] = local[g] /\ offset'[g] = offset[g]
           /\ g \in tracked' <=> g \in tracked
           /\ g \in pending' <=> g \in pending
           /\ g \in torn' <=> g \in torn
    BY <1>5, OtherFiles
  <2>2. tracked' \in SUBSET Files
    BY TypeInvStep DEF TypeInv, TypeOK
  <2>3. ASSUME f \in (tracked' \ pending') \ torn' PROVE offset'[f] = Len(local'[f])
    <3>1. CASE \/ NextFile(f) \/ Stat(f) \/ CompareDigests(f) \/ DigestFails(f)
      BY <2>3, <3>1 DEF NextFile, Stat, CompareDigests, DigestFails, OffsetInv
    <3>2. CASE FileGone(f)
      BY <2>3, <3>2 DEF FileGone
    <3>3. CASE Copy(f)
      <4>1. CASE Exists(f) /\ FullCopy(f)
        BY <4>1, FullCopyDone
      <4>2. CASE ~NeedsFullCopy(f) /\ Exists(f) /\ AppendDelta(f)
        <5>1. f \in (tracked \ pending) \ torn
          BY <2>3, <3>3, <4>2 DEF Copy, NeedsFullCopy, AppendDelta
        <5>2. QED
          BY <4>2, <5>1, DeltaDone DEF OffsetInv
      <4>3. CASE ~NeedsFullCopy(f) /\ UNCHANGED <<local, offset, torn>>
        BY <2>3, <3>3, <4>3 DEF Copy, NeedsFullCopy, OffsetInv
      <4>4. QED
        BY <3>3, <4>1, <4>2, <4>3 DEF Copy
    <3>4. CASE DefensiveRecopy(f)
      BY <2>3, <3>4, FullCopyDone DEF DefensiveRecopy, OffsetInv
    <3>5. CASE RecopyFails(f)
      BY <2>3, <3>5 DEF RecopyFails, CopyBreaksOff
    <3>6. CASE Checkpoint(f)
      BY <2>3, <3>6 DEF Checkpoint, OffsetInv, TypeInv, TypeOK
    <3>7. QED
      BY <1>5, <3>1, <3>2, <3>3, <3>4, <3>5, <3>6
  <2>4. QED
    BY <2>1, <2>2, <2>3 DEF OffsetInv
<1>6. CASE UNCHANGED vars
  BY <1>6 DEF vars, OffsetInv
<1>7. QED
  BY <1>1, <1>2, <1>3, <1>4, <1>5, <1>6 DEF Next, FileStep, FaultStep

-----------------------------------------------------------------------------
(* Quiet files *)

LEMMA SizeStep ==
    ASSUME TypeInv, SizeInv, [Next]_vars
    PROVE  SizeInv'
<1> USE DEF logs, table, session, hand, misses, store
<1>1. ASSUME NEW f \in Files, AppendBlock(f) \/ ReplaceLog(f) \/ RemoveLog(f) PROVE SizeInv'
  BY <1>1 DEF AppendBlock, ReplaceLog, RemoveLog, ChangeTo, SizeInv, Exists, TypeInv, TypeOK
<1>2. CASE Reconnect
  BY <1>2 DEF Reconnect, SizeInv
<1>3. ASSUME NEW f \in Files, Stat(f) PROVE SizeInv'
  BY <1>3 DEF Stat, SizeInv, Exists
<1>4. CASE \/ StartProcess \/ Finish \/ Poll \/ NothingListed \/ EndPoll
           \/ \E f \in Files : \/ NextFile(f) \/ FileGone(f) \/ Copy(f) \/ CompareDigests(f)
                               \/ DefensiveRecopy(f) \/ Checkpoint(f) \/ FaultStep(f)
  <2>1. pc' # "copy"
    BY <1>4 DEF StartProcess, Finish, Poll, NothingListed, EndPoll, NextFile, FileGone, Copy,
       CompareDigests, DefensiveRecopy, Checkpoint, FaultStep, StatFails, CopyFails,
       DigestFails, RecopyFails, Exit
  <2>2. QED
    BY <2>1 DEF SizeInv
<1>5. CASE UNCHANGED vars
  BY <1>5 DEF vars, SizeInv, Exists
<1>6. QED
  BY <1>1, <1>2, <1>3, <1>4, <1>5 DEF Next, FileStep

(* The three stages of a quiet file's turn. *)
LEMMA QuietCopied ==
    ASSUME TypeInv, SizeInv, NEW f \in Files, Copy(f), f \in quiet
    PROVE  Exists(f) /\ offset'[f] = Len(remote[f])
<1>1. Exists(f) /\ size = Len(remote[f]) /\ Len(remote[f]) \in Nat /\ offset[f] \in Nat
  BY ExistsType, FileTypes DEF SizeInv, Copy, TypeInv
<1>2. CASE FullCopy(f)
  BY <1>1, <1>2, FullCopyDone
<1>3. CASE size > offset[f] /\ AppendDelta(f)
  BY <1>1, <1>3, DeltaDone
<1>4. CASE ~NeedsFullCopy(f) /\ size <= offset[f] /\ UNCHANGED <<local, offset, torn>>
  BY <1>1, <1>4 DEF NeedsFullCopy
<1>5. QED
  BY <1>1, <1>2, <1>3, <1>4 DEF Copy

LEMMA QuietCompared ==
    ASSUME TypeInv, OffsetInv, QuietInv, NEW f \in Files, CompareDigests(f),
           f \in quiet \ torn, ~Differs(f)
    PROVE  Mirrored(f)
<1>1. f \in (tracked \ pending) /\ pc = "digest" /\ cur = f
  BY CopiedFile DEF CompareDigests
<1>2. Exists(f) /\ offset[f] = Len(remote[f]) /\ offset[f] = Len(local[f])
  BY <1>1 DEF QuietInv, OffsetInv
<1>3. LocalDigest(f) = Digest(remote[f], Len(remote[f]))
  BY <1>2 DEF Differs, RemoteDigest
<1>4. QED
  BY <1>2, <1>3 DEF Mirrored

LEMMA QuietRecopied ==
    ASSUME TypeInv, QuietInv, NEW f \in Files, DefensiveRecopy(f), f \in quiet \ torn'
    PROVE  Mirrored(f)'
<1>1. f \in tracked /\ pc = "recopy" /\ cur = f /\ remote' = remote
  BY CopiedFile DEF DefensiveRecopy, logs
<1>2. CASE Exists(f)
  <2>1. local'[f] = remote[f]
    BY <1>2, FullCopyDone DEF DefensiveRecopy
  <2>2. QED
    BY <1>1, <2>1 DEF Mirrored, LocalDigest
<1>3. CASE ~Exists(f)
  BY <1>1, <1>3 DEF DefensiveRecopy, QuietInv
<1>4. QED
  BY <1>2, <1>3

LEMMA QuietStep ==
    ASSUME TypeInv, OffsetInv, QuietInv, SizeInv, [Next]_vars
    PROVE  QuietInv'
<1> USE DEF logs, table, session, hand, misses, store
<1>0. tracked \in SUBSET Files /\ tracked' \in SUBSET Files /\ NoFile \notin Files
  BY TypeInvStep, ConstantsAssumption DEF TypeInv, TypeOK
<1>1. ASSUME NEW f \in Files, AppendBlock(f) \/ ReplaceLog(f) \/ RemoveLog(f) PROVE QuietInv'
  <2>1. /\ quiet' = quiet \ {f} /\ \A g \in Files \ {f} : remote'[g] = remote[g]
        /\ UNCHANGED <<local, tracked, offset, torn, undigested, todo, cur, pc>>
    BY <1>1 DEF AppendBlock, ReplaceLog, RemoveLog, ChangeTo, TypeInv, TypeOK
  <2>2. QED
    BY <1>0, <2>1 DEF QuietInv, Mirrored, LocalDigest, Exists
<1>2. CASE \/ StartProcess \/ Finish \/ NothingListed
           \/ \E f \in Files : StatFails(f) \/ CopyFails(f)
  BY <1>2, EndsSession, EmptyTable
<1>3. CASE Reconnect \/ EndPoll
  BY <1>3 DEF Reconnect, EndPoll, QuietInv, Mirrored, LocalDigest, Exists
<1>4. CASE Poll
  <2>1. tracked' = todo' /\ pc' = "poll"
    BY <1>4 DEF Poll, Reconcile
  <2>2. QED
    BY <2>1 DEF QuietInv
<1>5. ASSUME NEW f \in Files,
             \/ NextFile(f) \/ Stat(f) \/ FileGone(f) \/ Copy(f) \/ CompareDigests(f)
             \/ DigestFails(f) \/ DefensiveRecopy(f) \/ RecopyFails(f) \/ Checkpoint(f)
      PROVE  QuietInv'
  <2>1. /\ remote' = remote
        /\ \A g \in Files \ {f} :
              /\ local'[g] = local[g]
              /\ g \in tracked' <=> g \in tracked
              /\ g \in torn' <=> g \in torn
              /\ g \in undigested' <=> g \in undigested
              /\ g \in quiet' <=> g \in quiet
              /\ g \in todo' <=> g \in todo
    BY <1>5, OtherFiles
  <2>2. cur \in {f, NoFile} /\ cur' \in {f, NoFile}
    BY <1>5 DEF NextFile, Stat, FileGone, Copy, CompareDigests, DigestFails, DefensiveRecopy,
       RecopyFails, Checkpoint, PutDown, TypeInv, TypeOK
  <2>3. ASSUME NEW g \in (tracked' \cap quiet') \ torn', g # f
        PROVE  g \notin todo' \cup {cur'} \cup undigested' => Mirrored(g)'
    <3>1. /\ g \in (tracked \cap quiet) \ torn
          /\ g \notin todo' \cup undigested' => g \notin todo \cup undigested
      BY <1>0, <2>1, <2>3
    <3>2. g \notin todo' \cup undigested' => Mirrored(g)
      BY <1>0, <2>2, <2>3, <3>1 DEF QuietInv
    <3>3. QED
      BY <1>0, <2>1, <2>3, <3>2 DEF Mirrored, LocalDigest
  <2>4. ASSUME f \in (tracked' \cap quiet') \ torn'
        PROVE  /\ f \notin todo' \cup {cur'} \cup undigested' => Mirrored(f)'
               /\ f = cur' /\ pc' \in {"digest", "recopy"} =>
                     Exists(f)' /\ offset'[f] = Len(remote'[f])
               /\ f = cur' /\ pc' = "recopy" => f \notin undigested'
               /\ f = cur' /\ pc' = "store" /\ f \notin undigested' => Mirrored(f)'
    <3>1. CASE NextFile(f) \/ Stat(f)
      BY <3>1 DEF NextFile, Stat
    <3>2. CASE FileGone(f)
      BY <2>4, <3>2 DEF FileGone
    <3>3. CASE Copy(f)
      BY <2>1, <2>4, <3>3, QuietCopied DEF Copy, Exists
    <3>4. CASE CompareDigests(f)
      <4>1. f \in (quiet \cap tracked) \ torn /\ cur' = f /\ cur = f /\ pc = "digest"
        BY <2>4, <3>4 DEF CompareDigests
      <4>2. pc' = "store" => Mirrored(f)'
        BY <2>1, <3>4, <4>1, QuietCompared DEF CompareDigests, Mirrored, LocalDigest
      <4>3. pc' = "recopy" => Exists(f)' /\ offset'[f] = Len(remote'[f])
        BY <2>1, <3>4, <4>1 DEF CompareDigests, QuietInv, Exists
      <4>4. QED
        BY <3>4, <4>1, <4>2, <4>3 DEF CompareDigests
    <3>5. CASE DigestFails(f) \/ RecopyFails(f)
      BY <2>4, <3>5 DEF DigestFails, RecopyFails, CopyBreaksOff
    <3>6. CASE DefensiveRecopy(f)
      BY <2>4, <3>6, QuietRecopied DEF DefensiveRecopy
    <3>7. CASE Checkpoint(f)
      <4>1. f \notin undigested' => Mirrored(f)
        BY <2>4, <3>7 DEF Checkpoint, QuietInv
      <4>2. QED
        BY <2>1, <3>7, <4>1 DEF Checkpoint, PutDown, Mirrored, LocalDigest
    <3>8. QED
      BY <1>5, <3>1, <3>2, <3>3, <3>4, <3>5, <3>6, <3>7
  <2>5. QED
    BY <1>0, <2>2, <2>3, <2>4 DEF QuietInv
<1>6. CASE UNCHANGED vars
  BY <1>6 DEF vars, QuietInv, Mirrored, LocalDigest, Exists
<1>7. QED
  BY <1>1, <1>2, <1>3, <1>4, <1>5, <1>6 DEF Next, FileStep, FaultStep

-----------------------------------------------------------------------------
(* Rows *)

LEMMA RowStep ==
    ASSUME TypeInv, OffsetInv, RowInv, [Next]_vars
    PROVE  RowInv'
<1> USE DEF logs, table, session, hand, misses, store
<1>0. tracked \in SUBSET Files /\ tracked' \in SUBSET Files /\ NoFile \notin Files
  BY TypeInvStep, ConstantsAssumption DEF TypeInv, TypeOK
<1>1. ASSUME NEW f \in Files, AppendBlock(f) \/ ReplaceLog(f) \/ RemoveLog(f) PROVE RowInv'
  BY <1>1 DEF AppendBlock, ReplaceLog, RemoveLog, ChangeTo, RowInv, LocalDigest
<1>2. CASE \/ StartProcess \/ Finish \/ NothingListed
           \/ \E f \in Files : StatFails(f) \/ CopyFails(f)
  BY <1>2, EndsSession, EmptyTable
<1>3. CASE Reconnect \/ EndPoll
  BY <1>3 DEF Reconnect, EndPoll, RowInv, LocalDigest
<1>4. CASE Poll
  <2>1. tracked' = todo' /\ pc' = "poll"
    BY <1>4 DEF Poll, Reconcile
  <2>2. QED
    BY <2>1 DEF RowInv
<1>5. ASSUME NEW f \in Files,
             \/ NextFile(f) \/ Stat(f) \/ FileGone(f) \/ Copy(f) \/ CompareDigests(f)
             \/ DigestFails(f) \/ DefensiveRecopy(f) \/ RecopyFails(f) \/ Checkpoint(f)
      PROVE  RowInv'
  <2> DEFINE Described(g) ==
               row[g] = [offset |-> Len(local[g]), hash |-> LocalDigest(g), state |-> "connected"]
  <2>1. \A g \in Files \ {f} :
              /\ local'[g] = local[g] /\ row'[g] = row[g]
              /\ g \in tracked' <=> g \in tracked
              /\ g \in torn' <=> g \in torn
              /\ g \in unsaved' <=> g \in unsaved
              /\ g \in todo' <=> g \in todo
    BY <1>5, OtherFiles
  <2>2. cur \in {f, NoFile} /\ cur' \in {f, NoFile}
    BY <1>5 DEF NextFile, Stat, FileGone, Copy, CompareDigests, DigestFails, DefensiveRecopy,
       RecopyFails, Checkpoint, PutDown, TypeInv, TypeOK
  <2>3. ASSUME NEW g \in tracked' \ torn', g # f
        PROVE  g \notin todo' \cup {cur'} \cup unsaved' => Described(g)'
    <3>1. /\ g \in tracked \ torn
          /\ g \notin todo' \cup unsaved' => g \notin todo \cup unsaved
      BY <1>0, <2>1, <2>3
    <3>2. g \notin todo' \cup unsaved' => Described(g)
      BY <1>0, <2>2, <2>3, <3>1 DEF RowInv
    <3>3. QED
      BY <1>0, <2>1, <2>3, <3>2 DEF LocalDigest
  <2>4. ASSUME f \in tracked' \ torn'
        PROVE  /\ f \notin todo' \cup {cur'} \cup unsaved' => Described(f)'
               /\ f = cur' /\ pc' \in {"recopy", "store"} => hash'[f] = LocalDigest(f)'
    <3>1. CASE NextFile(f) \/ Stat(f) \/ Copy(f)
      BY <3>1 DEF NextFile, Stat, Copy
    <3>2. CASE FileGone(f)
      BY <2>4, <3>2 DEF FileGone
    <3>3. CASE CompareDigests(f) \/ DigestFails(f)
      <4>1. cur' = f /\ local' = local /\ hash' = [hash EXCEPT ![f] = LocalDigest(f)]
        BY <3>3 DEF CompareDigests, DigestFails
      <4>2. hash'[f] = LocalDigest(f)'
        BY <4>1 DEF LocalDigest, TypeInv, TypeOK
      <4>3. QED
        BY <4>1, <4>2
    <3>4. CASE DefensiveRecopy(f)
      <4>1. CASE Exists(f)
        <5>1. local'[f] = remote[f]
          BY <3>4, <4>1, FullCopyDone DEF DefensiveRecopy
        <5>2. hash'[f] = LocalDigest(f)'
          BY <3>4, <4>1, <5>1 DEF DefensiveRecopy, LocalDigest, TypeInv, TypeOK
        <5>3. QED
          BY <3>4, <5>2 DEF DefensiveRecopy
      <4>2. CASE ~Exists(f)
        BY <2>4, <3>4, <4>2 DEF DefensiveRecopy, RowInv, LocalDigest
      <4>3. QED
        BY <4>1, <4>2
    <3>5. CASE RecopyFails(f)
      BY <2>4, <3>5 DEF RecopyFails, CopyBreaksOff
    <3>6. CASE Checkpoint(f)
      <4>1. f \in (tracked \ pending) \ torn /\ cur = f /\ pc = "store"
        BY <2>4, <3>6, CopiedFile DEF Checkpoint
      <4>2. hash[f] = LocalDigest(f) /\ offset[f] = Len(local[f])
        BY <4>1 DEF RowInv, OffsetInv
      <4>3. offset'[f] = Len(local[f]) /\ hash' = hash /\ local' = local
        BY <3>6, <4>2 DEF Checkpoint, TypeInv, TypeOK
      <4>4. \/ row'[f] = [offset |-> offset'[f], hash |-> hash'[f], state |-> "connected"]
            \/ f \in unsaved'
        BY <3>6 DEF Checkpoint, Upsert, UpsertFails, Checkpointed, TypeInv, TypeOK
      <4>5. f \notin unsaved' => Described(f)'
        BY <4>2, <4>3, <4>4 DEF LocalDigest
      <4>6. QED
        BY <3>6, <4>5 DEF Checkpoint
    <3>7. QED
      BY <1>5, <3>1, <3>2, <3>3, <3>4, <3>5, <3>6
  <2> HIDE DEF Described
  <2>5. QED
    BY <1>0, <2>2, <2>3, <2>4 DEF RowInv, Described
<1>6. CASE UNCHANGED vars
  BY <1>6 DEF vars, RowInv, LocalDigest
<1>7. QED
  BY <1>1, <1>2, <1>3, <1>4, <1>5, <1>6 DEF Next, FileStep, FaultStep

LEMMA StreamStep ==
    ASSUME TypeInv, StreamInv, [Next]_vars
    PROVE  StreamInv'
<1> USE DEF logs, table, session, hand, misses, store
<1>1. ASSUME NEW f \in Files, AppendBlock(f) \/ ReplaceLog(f) \/ RemoveLog(f) PROVE StreamInv'
  BY <1>1 DEF AppendBlock, ReplaceLog, RemoveLog, ChangeTo, StreamInv, Streams
<1>2. CASE Finish \/ NothingListed \/ \E f \in Files : StatFails(f) \/ CopyFails(f)
  <2>1. pc' = "stopped"
    BY <1>2 DEF Finish, NothingListed, StatFails, CopyFails, Exit
  <2>2. QED
    BY <2>1 DEF StreamInv
<1>3. CASE StartProcess
  BY <1>3 DEF StartProcess, StreamInv, Streams
<1>4. CASE Reconnect \/ EndPoll
  BY <1>4 DEF Reconnect, EndPoll, StreamInv, Streams
<1>5. CASE Poll
  <2>1. /\ pc = "list" /\ cps' = cps
        /\ MarkDisconnected(tracked \ tracked') /\ tracked \ tracked' \in SUBSET Files
    BY <1>5 DEF Poll, Reconcile, TypeInv, TypeOK
  <2>2. /\ \A f \in Files : row'[f].state = "connected" =>
              row[f].state = "connected" /\ (f \in tracked \ tracked' => f \in unsaved')
        /\ \A f \in Files \ (tracked \ tracked') : f \in unsaved' <=> f \in unsaved
    BY <2>1, Marked DEF TypeInv
  <2>3. QED
    BY <2>1, <2>2 DEF StreamInv, Streams
<1>6. ASSUME NEW f \in Files, FileGone(f) PROVE StreamInv'
  <2>1. /\ \A g \in Files \ {f} : row'[g] = row[g] /\ (g \in unsaved' <=> g \in unsaved)
        /\ row'[f].state = "connected" => f \in unsaved'
    BY <1>6, GoneRows DEF TypeInv
  <2>2. tracked' = tracked \ {f} /\ cps' = cps /\ pc # "stopped"
    BY <1>6 DEF FileGone
  <2>3. QED
    BY <2>1, <2>2 DEF StreamInv, Streams
<1>7. ASSUME NEW f \in Files, Checkpoint(f) PROVE StreamInv'
  <2>1. f \in tracked /\ pc # "stopped"
    BY <1>7, CopiedFile DEF Checkpoint
  <2>2. \A g \in Files \ {f} : row'[g] = row[g] /\ (g \in unsaved' <=> g \in unsaved)
    BY <1>7, OtherFiles
  <2>3. tracked' = tracked /\ cps' = cps
    BY <1>7 DEF Checkpoint
  <2>4. QED
    BY <2>1, <2>2, <2>3 DEF StreamInv, Streams
<1>8. ASSUME NEW f \in Files,
             \/ NextFile(f) \/ Stat(f) \/ Copy(f) \/ CompareDigests(f) \/ DigestFails(f)
             \/ DefensiveRecopy(f) \/ RecopyFails(f)
      PROVE  StreamInv'
  <2>1. tracked' = tracked /\ cps' = cps /\ UNCHANGED store /\ pc # "stopped"
    BY <1>8 DEF NextFile, Stat, Copy, CompareDigests, DigestFails, DefensiveRecopy, RecopyFails
  <2>2. QED
    BY <2>1 DEF StreamInv, Streams
<1>9. CASE UNCHANGED vars
  BY <1>9 DEF vars, StreamInv, Streams
<1>10. QED
  BY <1>1, <1>2, <1>3, <1>4, <1>5, <1>6, <1>7, <1>8, <1>9 DEF Next, FileStep, FaultStep
-----------------------------------------------------------------------------
(* The properties *)

LEMMA TailInvInit == Init => TypeInv /\ TailInv
<1> SUFFICES ASSUME Init PROVE TypeInv /\ TailInv
  OBVIOUS
<1>1. TypeInv /\ TurnInv
  BY TypeInvInit DEF TypeInv
<1>2. OffsetInv /\ QuietInv /\ SizeInv /\ RowInv /\ StreamInv
  BY DEF Init, OffsetInv, QuietInv, SizeInv, RowInv, StreamInv
<1>3. QED
  BY <1>1, <1>2 DEF TailInv

LEMMA TailInvStep == TypeInv /\ TailInv /\ [Next]_vars => TypeInv' /\ TailInv'
<1> SUFFICES ASSUME TypeInv, TailInv, [Next]_vars PROVE TypeInv' /\ TailInv'
  OBVIOUS
<1>1. TypeInv' /\ TurnInv'
  BY TypeInvStep DEF TypeInv
<1>2. OffsetInv' /\ QuietInv' /\ SizeInv' /\ RowInv' /\ StreamInv'
  BY OffsetStep, QuietStep, SizeStep, RowStep, StreamStep DEF TailInv
<1>3. QED
  BY <1>1, <1>2 DEF TailInv

LEMMA TailInvHolds == Spec => [](TypeInv /\ TailInv)
BY TailInvInit, TailInvStep, PTL DEF Spec

(* A log that has not changed since the last poll looked at it has a       *)
(* mirror of its length with its samples, unless a recopy has broken off   *)
(* or the log's digest could not be read.                                  *)
THEOREM QuietIsMirrored == Spec => []QuietLogsAreMirrored
<1>1. TypeInv /\ TailInv => QuietLogsAreMirrored
  BY DEF TailInv, QuietInv, QuietLogsAreMirrored, Polled
<1>2. QED
  BY <1>1, TailInvHolds, PTL

(* Between two turns, the row of a followed log is connected, with the     *)
(* length and the digest of its mirror, unless it could not be written.    *)
THEOREM CheckpointsAreTrue == Spec => []CheckpointsDescribeMirrors
<1>1. TypeInv /\ TailInv => CheckpointsDescribeMirrors
  <2> SUFFICES ASSUME TypeInv, TailInv, pc \in {"list", "poll"},
                      NEW f \in (tracked \ (todo \cup torn \cup unsaved)) \ pending
               PROVE  row[f] = [offset |-> Len(local[f]), hash |-> LocalDigest(f),
                                state |-> "connected"]
    BY DEF CheckpointsDescribeMirrors
  <2>1. f \in tracked \ torn /\ f \notin todo \cup {cur} \cup unsaved
    BY ConstantsAssumption DEF TypeInv, TypeOK
  <2>2. QED
    BY <2>1 DEF TailInv, RowInv
<1>2. QED
  BY <1>1, TailInvHolds, PTL

(* No log that has been dropped is counted as connected, and the status of *)
(* the dashboard is not ok on account of one, unless its row was there     *)
(* before or could not be written.                                         *)
THEOREM DroppedIsNotConnected == Spec => []DroppedIsDisconnected
<1>1. TypeInv /\ TailInv => DroppedIsDisconnected
  <2> SUFFICES ASSUME TailInv, pc # "stopped"
               PROVE  LET inherited == {f \in Files : cps[f].state = "connected"}
                      IN  /\ Streams("connected") \subseteq tracked \cup inherited \cup unsaved
                          /\ StreamStatus = "ok" => tracked \cup inherited \cup unsaved # {}
    BY DEF DroppedIsDisconnected
  <2>1. Streams("connected") \subseteq
            tracked \cup {f \in Files : cps[f].state = "connected"} \cup unsaved
    BY DEF TailInv, StreamInv
  <2>2. StreamStatus = "ok" => Streams("connected") # {}
    BY DEF StreamStatus
  <2>3. QED
    BY <2>1, <2>2
<1>2. QED
  BY <1>1, TailInvHolds, PTL
=============================================================================
