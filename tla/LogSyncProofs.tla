---------------------------- MODULE LogSyncProofs ----------------------------
(***************************************************************************)
(* Proofs about LogSync, for every value of its constants: its types, its  *)
(* invariants, and at the end that it implements Ledger.                   *)
(***************************************************************************)
EXTENDS LogSync, WellFoundedInduction, TLAPS

-----------------------------------------------------------------------------
(* Type correctness *)

LEMMA WindowTypes ==
    ASSUME NEW w \in Window, NEW t \in Nat
    PROVE  Lo(w, t) \in Int /\ Hi(w, t) \in Int
<1>1. Today(t) \in Int
  BY ConstantsAssumption DEF Today
<1>2. QED
  BY <1>1, ConstantsAssumption DEF Lo, Hi, Forever, Window

LEMMA IdleTypes ==
    /\ IdleReq \in Req
    /\ NoMarks \in [Files -> Nat]
    /\ NoRows \in [Files -> SUBSET Row]
BY DEF IdleReq, Req, NoMarks, NoRows, Row, Window

(* What leaving SyncLogsToDB does to the locals keeps their types. *)
LEMMA LeaveType ==
    ASSUME TypeOK, NEW p \in Procs, Leave(p)
    PROVE  /\ lock' \in Procs \cup {Free}
           /\ pc' \in [Procs -> PCs]
           /\ req' \in [Procs -> Req]
           /\ todo' \in [Procs -> SUBSET Files]
           /\ known' \in [Procs -> [Files -> Nat]]
           /\ file' \in [Procs -> Files \cup {NoFile}]
           /\ stat' \in [Procs -> Nat]
           /\ batch' \in [Procs -> SUBSET Row]
           /\ open' \in [Procs -> BOOLEAN]
           /\ rows' \in [Procs -> [Files -> SUBSET Row]]
           /\ marks' \in [Procs -> [Files -> Nat]]
BY IdleTypes DEF TypeOK, Leave, EndTx, PutDown, Goto, PCs

(* A read yields rows. *)
LEMMA BatchType ==
    ASSUME TypeOK, NEW p \in Procs, file[p] \in Files, NEW sure \in BOOLEAN
    PROVE  {<<i, MaybeUnknown(file[p], req[p], i) => sure>> :
               i \in ParsedRecords(file[p], req[p])} \in SUBSET Row
<1> DEFINE f == file[p]
<1>1. Len(log[f]) \in Nat
  BY DEF TypeOK
<1>2. FirstRead(f, req[p].win) \in Nat
  BY <1>1, ConstantsAssumption DEF FirstRead
<1>3. ParsedRecords(f, req[p]) \subseteq Nat
  BY <1>1, <1>2 DEF ParsedRecords, InBounds
<1>4. ASSUME NEW i \in ParsedRecords(f, req[p])
      PROVE  <<i, MaybeUnknown(f, req[p], i) => sure>> \in Row
  <2>1. (MaybeUnknown(f, req[p], i) => sure) \in BOOLEAN
    OBVIOUS
  <2>2. QED
    BY <2>1, <1>3 DEF Row
<1>5. QED
  BY <1>4

LEMMA InitType == Init => TypeOK
BY IdleTypes, ConstantsAssumption
   DEF Init, TypeOK, PCs, NoMarks, NoRows

LEMMA NextTicksType == NextTicks \subseteq 1..MaxTime
BY DEF NextTicks

LEMMA StepType == TypeOK /\ [Next]_vars => TypeOK'
<1> SUFFICES ASSUME TypeOK, [Next]_vars PROVE TypeOK'
  OBVIOUS
<1> USE DEF files, tables, cur, tx
<1>1. ASSUME NEW f \in Files, AppendRecord(f) PROVE TypeOK'
  BY <1>1, NextTicksType, ConstantsAssumption DEF AppendRecord, TypeOK
<1>2. ASSUME NEW f \in Files, AppendOther(f) PROVE TypeOK'
  BY <1>2, NextTicksType, ConstantsAssumption DEF AppendOther, TypeOK
<1>3. ASSUME NEW p \in Procs, Start(p) PROVE TypeOK'
  <2>1. PICK w \in Windows, force \in Forces :
          /\ req' = [req EXCEPT ![p] =
                       [win |-> w, force |-> force,
                        lo |-> Lo(w, now), hi |-> Hi(w, now),
                        goal |-> [f \in Files |-> Len(log[f])]]]
          /\ Goto(p, IF force THEN "delete" ELSE "load")
    BY <1>3 DEF Start
  <2>2. w \in Window /\ force \in BOOLEAN /\ now \in Nat
    BY ConstantsAssumption DEF TypeOK
  <2>3. Lo(w, now) \in Int /\ Hi(w, now) \in Int
    BY <2>2, WindowTypes
  <2>4. [f \in Files |-> Len(log[f])] \in [Files -> Nat]
    BY DEF TypeOK
  <2>5. req' \in [Procs -> Req]
    BY <2>1, <2>2, <2>3, <2>4 DEF TypeOK, Req
  <2>6. pc' \in [Procs -> PCs] /\ \A q \in Procs : pc'[q] = pc[q] \/ pc'[q] \in {"delete", "load"}
    BY <2>1 DEF TypeOK, PCs, Goto
  <2>7. QED
    BY <1>3, <2>5, <2>6 DEF Start, TypeOK, Existing
<1>4. ASSUME NEW p \in Procs, DeleteParsedLogs(p) PROVE TypeOK'
  BY <1>4, IdleTypes DEF DeleteParsedLogs, TypeOK, Goto, PCs
<1>5. ASSUME NEW p \in Procs, ParsedMtimeByFile(p) PROVE TypeOK'
  BY <1>5 DEF ParsedMtimeByFile, TypeOK, Goto, PCs
<1>6. ASSUME NEW p \in Procs, SkipFile(p) PROVE TypeOK'
  BY <1>6 DEF SkipFile, TypeOK
<1>7. ASSUME NEW p \in Procs, TakeFile(p) PROVE TypeOK'
  <2>1. PICK f \in todo[p] :
          file' = [file EXCEPT ![p] = f] /\ stat' = [stat EXCEPT ![p] = mtime[f]]
    BY <1>7 DEF TakeFile
  <2>2. f \in Files /\ mtime[f] \in Nat
    BY ConstantsAssumption DEF TypeOK
  <2>3. /\ file' \in [Procs -> Files \cup {NoFile}] /\ file'[p] \in Files
        /\ stat' \in [Procs -> Nat]
    BY <2>1, <2>2 DEF TypeOK
  <2>4. open' \in [Procs -> BOOLEAN]
    BY <1>7 DEF TakeFile, TypeOK
  <2>5. \A q \in Procs : q # p => file'[q] = file[q] /\ pc'[q] = pc[q]
    BY <1>7, <2>1 DEF TakeFile, TypeOK, Goto
  <2>6. QED
    BY <1>7, <2>3, <2>4, <2>5 DEF TakeFile, TypeOK, Goto, PCs
<1>8. ASSUME NEW p \in Procs, ReadFile(p) PROVE TypeOK'
  <2>1. PICK sure \in BOOLEAN :
          batch' = [batch EXCEPT ![p] =
                    {<<i, MaybeUnknown(file[p], req[p], i) => sure>> :
                       i \in ParsedRecords(file[p], req[p])}]
    BY <1>8 DEF ReadFile
  <2>2. file[p] \in Files
    BY <1>8 DEF ReadFile, TypeOK
  <2>3. batch' \in [Procs -> SUBSET Row]
    BY <2>1, <2>2, BatchType DEF TypeOK
  <2>4. QED
    BY <1>8, <2>2, <2>3 DEF ReadFile, TypeOK, Goto, PCs
<1>9. ASSUME NEW p \in Procs, InsertRecord(p) PROVE TypeOK'
  <2>1. PICK row \in batch[p] :
          /\ batch' = [batch EXCEPT ![p] = @ \ {row}]
          /\ \/ /\ rows' = [rows EXCEPT ![p][file[p]] = @ \cup {row}]
                /\ lock' = p
             \/ UNCHANGED <<rows, lock>>
    BY <1>9 DEF InsertRecord
  <2>2. batch' \in [Procs -> SUBSET Row]
    BY <2>1 DEF TypeOK
  <2>3. row \in Row /\ file[p] \in Files
    BY <1>9 DEF InsertRecord, TypeOK
  <2>4. rows \in [Procs -> [Files -> SUBSET Row]] /\ lock \in Procs \cup {Free}
    BY DEF TypeOK
  <2>5. rows' \in [Procs -> [Files -> SUBSET Row]] /\ lock' \in Procs \cup {Free}
    BY <2>1, <2>3, <2>4
  <2>6. QED
    BY <1>9, <2>2, <2>5 DEF InsertRecord, TypeOK
<1>10. ASSUME NEW p \in Procs, MarkLogParsed(p) PROVE TypeOK'
  <2>1. /\ file' \in [Procs -> Files \cup {NoFile}]
        /\ stat' \in [Procs -> Nat]
        /\ batch' \in [Procs -> SUBSET Row]
        /\ \A q \in Procs : q # p => file'[q] = file[q]
    BY <1>10 DEF MarkLogParsed, PutDown, TypeOK
  <2>2. /\ marks \in [Procs -> [Files -> Nat]] /\ lock \in Procs \cup {Free}
        /\ file[p] \in Files /\ stat[p] \in Nat
    BY <1>10 DEF MarkLogParsed, TypeOK
  <2>3. marks' \in [Procs -> [Files -> Nat]] /\ lock' \in Procs \cup {Free}
    BY <1>10, <2>2 DEF MarkLogParsed
  <2>4. QED
    BY <1>10, <2>1, <2>3 DEF MarkLogParsed, TypeOK, Goto, PCs
<1>11. ASSUME NEW p \in Procs, EndScan(p) PROVE TypeOK'
  BY <1>11 DEF EndScan, TypeOK, Goto, PCs
<1>12. ASSUME NEW p \in Procs, Commit(p) PROVE TypeOK'
  <2>1. calls' \in [Files -> SUBSET Row] /\ parsed' \in [Files -> Nat]
    BY <1>12 DEF Commit, TypeOK
  <2>2. /\ open' \in [Procs -> BOOLEAN]
        /\ rows' \in [Procs -> [Files -> SUBSET Row]]
        /\ marks' \in [Procs -> [Files -> Nat]]
        /\ lock' \in Procs \cup {Free}
    BY <1>12, IdleTypes DEF Commit, EndTx, TypeOK
  <2>3. QED
    BY <1>12, <2>1, <2>2 DEF Commit, TypeOK, Goto, PCs
<1>13. ASSUME NEW p \in Procs, UpsertWorkspaces(p) PROVE TypeOK'
  BY <1>13 DEF UpsertWorkspaces, TypeOK, Goto, PCs, Existing
<1> DEFINE Left(p) == Leave(p) /\ UNCHANGED <<files, parsed, spaces>>
<1>14. ASSUME NEW p \in Procs, Left(p), calls' \in [Files -> SUBSET Row], faults' \in Nat
       PROVE TypeOK'
  <2>1. \A q \in Procs : (pc'[q] = pc[q] /\ file'[q] = file[q]) \/ pc'[q] = "idle"
    BY <1>14 DEF Leave, PutDown, Goto, TypeOK
  <2>2. QED
    BY <1>14, <2>1, LeaveType DEF TypeOK
<1>15. ASSUME NEW p \in Procs, CleanupCorruptedTokens(p) PROVE TypeOK'
  <2>1. calls' \in [Files -> SUBSET Row]
    BY <1>15 DEF CleanupCorruptedTokens, TypeOK
  <2>2. QED
    BY <1>14, <1>15, <2>1 DEF CleanupCorruptedTokens, TypeOK
<1>16. ASSUME NEW p \in Procs, ReadFails(p) PROVE TypeOK'
  BY <1>16 DEF ReadFails, Fault, TypeOK, Goto, PCs
<1>17. ASSUME NEW p \in Procs, BeginFails(p) \/ CommitFails(p) \/ Crash(p) PROVE TypeOK'
  <2>1. Leave(p) /\ UNCHANGED <<files, tables>> /\ faults' = faults + 1
    BY <1>17 DEF BeginFails, CommitFails, Crash, Fault
  <2>2. calls' \in [Files -> SUBSET Row] /\ faults' \in Nat
    BY <2>1 DEF TypeOK
  <2>3. QED
    BY <1>14, <2>1, <2>2
<1>18. CASE UNCHANGED vars
  BY <1>18 DEF vars, TypeOK
<1>19. ASSUME NEW p \in Procs, CleanupUnknownDuplicates(p) PROVE TypeOK'
  <2>1. calls' \in [Files -> SUBSET Row]
    BY <1>19 DEF CleanupUnknownDuplicates, TypeOK
  <2>2. QED
    BY <1>19, <2>1 DEF CleanupUnknownDuplicates, TypeOK, Goto, PCs
<1>20. QED
  BY <1>1, <1>2, <1>3, <1>4, <1>5, <1>6, <1>7, <1>8, <1>9, <1>10, <1>11, <1>12,
     <1>13, <1>15, <1>16, <1>17, <1>18, <1>19 DEF Next, SyncStep, FaultStep

(* The tables, the lock and every process's place in SyncLogsToDB keep     *)
(* their types.                                                            *)
THEOREM TypeCorrect == Spec => []TypeOK
BY InitType, StepType, PTL DEF Spec
-----------------------------------------------------------------------------
(* Windows and rows *)

(* Midnight, a number of days before today, only moves forward. *)
LEMMA DayStartMonotone ==
    ASSUME NEW t \in Nat, NEW u \in Nat, t <= u, NEW k \in Nat
    PROVE  (Today(t) - k) * DayLen <= (Today(u) - k) * DayLen
<1>1. Today(t) \in Int /\ Today(u) \in Int /\ Today(t) <= Today(u)
  BY ConstantsAssumption DEF Today
<1> DEFINE a == Today(t) - k
           d == Today(u) - Today(t)
<1>2. a \in Int /\ d \in Nat /\ Today(u) - k = a + d
  BY <1>1
<1>3. d * DayLen \in Nat /\ (a + d) * DayLen = a * DayLen + d * DayLen
  BY <1>2, ConstantsAssumption
<1>4. QED
  BY <1>2, <1>3, ConstantsAssumption

LEMMA LoMonotone ==
    ASSUME NEW w \in Window, NEW t \in Nat, NEW u \in Nat, t <= u
    PROVE  Lo(w, t) <= Lo(w, u)
<1>1. w.from \in Nat
  BY DEF Window
<1>2. (Today(t) - w.from) * DayLen <= (Today(u) - w.from) * DayLen
  BY <1>1, DayStartMonotone
<1>3. QED
  BY <1>2 DEF Lo

LEMMA OpenEnd ==
    ASSUME Benign
    PROVE  /\ TheWindow \in Window
           /\ \A t \in Nat : Hi(TheWindow, t) = Forever
BY ConstantsAssumption DEF Benign, Hi

(* A log that is appended to keeps its records. *)
Longer(L, M) == DOMAIN L \subseteq DOMAIN M /\ \A k \in DOMAIN L : M[k] = L[k]

LEMMA MisreadGrows ==
    ASSUME NEW f, NEW L, NEW M, Longer(L, M), NEW i, NEW j, Misread(f, L, i, j)
    PROVE  Misread(f, M, i, j)
<1>1. {i, j} \subseteq DOMAIN L /\ L[i] \div SecondLen = L[j] \div SecondLen
  BY DEF Misread
<1>2. M[i] = L[i] /\ M[j] = L[j] /\ {i, j} \subseteq DOMAIN M
  BY <1>1 DEF Longer
<1>3. QED
  BY <1>1, <1>2 DEF Misread

LEMMA StoredMonotone ==
    ASSUME NEW f, NEW L, NEW R, NEW S, R \subseteq S, NEW i, Stored(f, L, R, i)
    PROVE  Stored(f, L, S, i)
BY DEF Stored

LEMMA StoredGrows ==
    ASSUME NEW f, NEW L, NEW M, Longer(L, M), NEW R, NEW S, R \subseteq S,
           NEW i, Stored(f, L, R, i)
    PROVE  Stored(f, M, S, i)
<1>1. PICK row \in R : row[1] = i \/ Misread(f, L, i, row[1])
  BY DEF Stored
<1>2. row \in S /\ (row[1] = i \/ Misread(f, M, i, row[1]))
  BY <1>1, MisreadGrows
<1>3. QED
  BY <1>2 DEF Stored

(* A covered mark stays covered: the log grows past the mark, the window   *)
(* slides forward and no record leaves the table.                          *)
LEMMA CoversGrows ==
    ASSUME Benign,
           NEW f, NEW L, NEW M, NEW t \in Nat, NEW u \in Nat, t <= u,
           NEW R, NEW S, NEW m \in Nat,
           \A i \in DOMAIN M : M[i] \in Nat,
           \A i \in DOMAIN M : M[i] <= m => i \in DOMAIN L /\ L[i] = M[i],
           \A i \in DOMAIN L : Stored(f, L, R, i) => Stored(f, M, S, i),
           Covers(f, L, t, R, TheWindow, m)
    PROVE  Covers(f, M, u, S, TheWindow, m)
<1> SUFFICES ASSUME NEW i \in DOMAIN M, M[i] <= m, InWindow(TheWindow, u, M[i])
             PROVE  Stored(f, M, S, i)
  BY DEF Covers
<1>1. i \in DOMAIN L /\ L[i] = M[i]
  OBVIOUS
<1>2. /\ Lo(TheWindow, t) \in Int /\ Lo(TheWindow, u) \in Int
      /\ Lo(TheWindow, t) <= Lo(TheWindow, u)
  BY OpenEnd, LoMonotone, WindowTypes
<1>3. InWindow(TheWindow, t, L[i])
  BY <1>1, <1>2, OpenEnd DEF InWindow
<1>4. QED
  BY <1>1, <1>3 DEF Covers

LEMMA CoversNothing ==
    ASSUME NEW f, NEW L, \A i \in DOMAIN L : L[i] \in Nat \ {0}, NEW t, NEW R
    PROVE  Covers(f, L, t, R, TheWindow, 0)
BY DEF Covers
-----------------------------------------------------------------------------
(* What every step leaves intact *)

(* Time and logs only grow, past every mtime there was, and no call leaves *)
(* api_calls.                                                              *)
Grows ==
    /\ now <= now'
    /\ \A f \in Files :
          /\ mtime[f] <= mtime'[f]
          /\ DOMAIN log[f] \subseteq DOMAIN log'[f]
          /\ \A i \in DOMAIN log[f] : log'[f][i] = log[f][i]
          /\ \A i \in DOMAIN log'[f] : log'[f][i] <= mtime[f] => i \in DOMAIN log[f]
          /\ \A i \in Nat : Stored(f, log[f], calls[f], i) => Stored(f, log'[f], calls'[f], i)

LEMMA LogTypes ==
    ASSUME TypeOK, NEW f \in Files
    PROVE  /\ Len(log[f]) \in Nat /\ DOMAIN log[f] = 1..Len(log[f])
           /\ \A i \in DOMAIN log[f] : log[f][i] \in 1..MaxTime
           /\ mtime[f] \in Nat
BY ConstantsAssumption DEF TypeOK

LEMMA SameFilesGrow ==
    ASSUME TypeOK, UNCHANGED files,
           \A f \in Files : \A i \in Nat : Stored(f, log[f], calls[f], i) =>
                   Stored(f, log'[f], calls'[f], i)
    PROVE  Grows
BY LogTypes, ConstantsAssumption DEF Grows, files, TypeOK

(* A row is cleaned up only where its twin stays. *)
LEMMA CleanupKeeps ==
    ASSUME TypeOK, NEW f \in Files, NEW i, Stored(f, log[f], calls[f], i)
    PROVE  Stored(f, log[f], {row \in calls[f] : ~Superseded(f, row)}, i)
<1>1. PICK row \in calls[f] : row[1] = i \/ Misread(f, log[f], i, row[1])
  BY DEF Stored
<1>2. row = <<row[1], row[2]>> /\ row[2] \in BOOLEAN
  BY DEF TypeOK, Row
<1>3. CASE <<row[1], TRUE>> \in calls[f]
  <2>1. ~Superseded(f, <<row[1], TRUE>>)
    BY DEF Superseded
  <2>2. QED
    BY <1>1, <1>3, <2>1 DEF Stored
<1>4. CASE <<row[1], TRUE>> \notin calls[f]
  <2>1. ~Superseded(f, row)
    BY <1>4 DEF Superseded
  <2>2. QED
    BY <1>1, <2>1 DEF Stored
<1>5. QED
  BY <1>3, <1>4

(* Every set of natural numbers that is not empty has a least one. *)
LEMMA LeastNumber ==
    ASSUME NEW T \in SUBSET Nat, T # {}
    PROVE  \E x \in T : \A y \in T : x <= y
<1>1. \E x \in T : \A y \in T : ~(<<y, x>> \in OpToRel(<, Nat))
  BY NatLessThanWellFounded, WFMin
<1>2. PICK x \in T : \A y \in T : ~(<<y, x>> \in OpToRel(<, Nat))
  BY <1>1
<1>3. ASSUME NEW y \in T PROVE ~(y < x)
  BY <1>2 DEF OpToRel
<1>4. QED
  BY <1>3

(* No record of a log has more than a certain number of prompt tokens.     *)
LEMMA PromptsAreBounded ==
    ASSUME NEW f \in Files
    PROVE  \E b \in Nat : \A i \in 1..MaxRecords : Usage[f][i].prompt <= b
<1> DEFINE Bounded(n) == \E b \in Nat : \A i \in 1..n : Usage[f][i].prompt <= b
           T == {n \in 0..MaxRecords : ~Bounded(n)}
<1>1. \A i \in 1..MaxRecords : Usage[f][i].prompt \in Nat
  BY ConstantsAssumption
<1>2. CASE T = {}
  <2> HIDE DEF Bounded
  <2>1. Bounded(MaxRecords)
    BY <1>2, ConstantsAssumption
  <2>2. QED
    BY <2>1 DEF Bounded
<1>3. CASE T # {}
  <2>1. PICK n \in T : \A m \in T : n <= m
    BY <1>3, LeastNumber, T \subseteq Nat
  <2>2. n \in 0..MaxRecords /\ ~Bounded(n)
    BY <2>1
  <2>3. n # 0
    <3>1. Bounded(0)
      <4>1. \A i \in 1..0 : Usage[f][i].prompt <= 0
        OBVIOUS
      <4>2. QED
        BY <4>1
    <3>2. QED
      BY <2>2, <3>1
  <2>4. n - 1 \in 0..MaxRecords /\ ~(n <= n - 1)
    BY <2>2, <2>3, ConstantsAssumption
  <2>5. Bounded(n - 1)
    BY <2>1, <2>4
  <2>6. PICK b \in Nat : \A i \in 1..(n - 1) : Usage[f][i].prompt <= b
    BY <2>5
  <2>7. Usage[f][n].prompt \in Nat
    BY <1>1, <2>2, <2>3
  <2>8. \A i \in 1..n : Usage[f][i].prompt <= b + Usage[f][n].prompt
    <3>1. ASSUME NEW i \in 1..n PROVE Usage[f][i].prompt <= b + Usage[f][n].prompt
      <4>1. i = n \/ i \in 1..(n - 1)
        BY <2>2, ConstantsAssumption
      <4>2. i \in 1..MaxRecords
        BY <2>2, ConstantsAssumption
      <4>3. Usage[f][i].prompt \in Nat
        BY <1>1, <4>2
      <4>4. CASE i = n
        BY <2>6, <2>7, <4>4
      <4>5. CASE i \in 1..(n - 1)
        BY <2>6, <2>7, <4>3, <4>5
      <4>6. QED
        BY <4>1, <4>4, <4>5
    <3>2. QED
      BY <3>1
  <2>9. Bounded(n)
    BY <2>6, <2>7, <2>8
  <2>10. QED
    BY <2>2, <2>9
<1>4. QED
  BY <1>2, <1>3

(* Of the rows that stand for a record, one with the most prompt tokens is *)
(* no misreading of another row: that one would stand for the record too.  *)
LEMMA MendingKeeps ==
    ASSUME TypeOK, NEW f \in Files, Len(log[f]) <= MaxRecords, NEW i,
           Stored(f, log[f], calls[f], i)
    PROVE  Stored(f, log[f], {row \in calls[f] : ~Corrupted(f, row)}, i)
<1> DEFINE Prompt(row) == Usage[f][row[1]].prompt
           Stand == {row \in calls[f] : row[1] = i \/ Misread(f, log[f], i, row[1])}
<1>1. /\ DOMAIN log[f] \subseteq 1..MaxRecords
      /\ \A k \in 1..MaxRecords : Usage[f][k].prompt \in Nat
  BY LogTypes, ConstantsAssumption
<1>2. CASE i \notin DOMAIN log[f]
  <2>1. PICK row \in calls[f] : row[1] = i
    BY <1>2 DEF Stored, Misread
  <2>2. ~Corrupted(f, row)
    BY <1>2, <2>1 DEF Corrupted, Misread
  <2>3. QED
    BY <2>1, <2>2 DEF Stored
<1>3. CASE i \in DOMAIN log[f]
  <2>1. PICK b \in Nat : \A k \in 1..MaxRecords : Usage[f][k].prompt <= b
    BY PromptsAreBounded
  <2>2. ASSUME NEW row \in Stand PROVE Prompt(row) \in Nat /\ Prompt(row) <= b
    <3>1. row[1] \in DOMAIN log[f]
      BY <1>3 DEF Misread
    <3>2. QED
      BY <1>1, <2>1, <3>1
  <2> DEFINE Gaps == {b - Prompt(row) : row \in Stand}
  <2>3. Stand # {}
    BY DEF Stored
  <2>4. Gaps \in SUBSET Nat /\ Gaps # {}
    <3> HIDE DEF Stand, Prompt
    <3>1. QED
      BY <2>1, <2>2, <2>3
  <2>5. PICK gap \in Gaps : \A x \in Gaps : gap <= x
    <3> HIDE DEF Gaps
    <3>1. QED
      BY <2>4, LeastNumber
  <2>6. PICK row \in Stand : gap = b - Prompt(row)
    BY <2>5
  <2>7. ASSUME Corrupted(f, row) PROVE FALSE
    <3>1. PICK other \in calls[f] : Misread(f, log[f], row[1], other[1])
      BY <2>7 DEF Corrupted
    <3>2. Prompt(row) < Prompt(other)
      BY <3>1 DEF Misread
    <3>3. other \in Stand
      <4>1. CASE row[1] = i
        BY <3>1, <4>1
      <4>2. CASE Misread(f, log[f], i, row[1])
        <5>1. /\ {i, other[1]} \subseteq DOMAIN log[f]
              /\ log[f][i] \div SecondLen = log[f][other[1]] \div SecondLen
              /\ Usage[f][i].prompt < Usage[f][i].cache
              /\ Usage[f][i].completion = Usage[f][other[1]].completion
          BY <3>1, <4>2 DEF Misread
        <5>2. /\ Usage[f][i].prompt < Usage[f][row[1]].prompt
              /\ Usage[f][row[1]].prompt < Usage[f][other[1]].prompt
              /\ {i, row[1], other[1]} \subseteq DOMAIN log[f]
          BY <3>1, <4>2 DEF Misread
        <5>3. Usage[f][i].prompt < Usage[f][other[1]].prompt
          BY <1>1, <5>2
        <5>4. Misread(f, log[f], i, other[1])
          BY <5>1, <5>3 DEF Misread
        <5>5. QED
          BY <5>4
      <4>3. QED
        BY <2>6, <4>1, <4>2
    <3>4. b - Prompt(other) \in Gaps
      BY <3>3
    <3>5. gap <= b - Prompt(other)
      BY <2>5, <3>4
    <3>6. Prompt(row) \in Nat /\ Prompt(other) \in Nat
      BY <2>2, <2>6, <3>3
    <3> HIDE DEF Prompt
    <3>7. QED
      BY <2>1, <2>6, <3>2, <3>5, <3>6
  <2>8. row \in {r \in calls[f] : ~Corrupted(f, r)} /\ (row[1] = i \/ Misread(f, log[f], i, row[1]))
    BY <2>6, <2>7
  <2>9. QED
    BY <2>8 DEF Stored
<1>4. QED
  BY <1>2, <1>3

(* Benign faults leave the clock strictly increasing. *)
LEMMA TickAdvances ==
    ASSUME Benign, NEW t \in NextTicks
    PROVE  t = now + 1
BY DEF Benign, NextTicks

LEMMA GrowsLonger ==
    ASSUME Grows, NEW f \in Files
    PROVE  Longer(log[f], log'[f])
BY DEF Grows, Longer

LEMMA AppendGrows ==
    ASSUME TypeOK, Benign, LogsInv, NEW g \in Files, AppendRecord(g)
    PROVE  Grows /\ LogsInv'
<1>1. PICK t \in NextTicks :
        /\ Len(log[g]) < MaxRecords
        /\ now' = t
        /\ log' = [log EXCEPT ![g] = Append(@, t)]
        /\ mtime' = [mtime EXCEPT ![g] = t]
        /\ UNCHANGED tables
  BY DEF AppendRecord
<1>2. t = now + 1 /\ now \in Nat
  BY TickAdvances DEF TypeOK
<1>3. ASSUME NEW f \in Files
      PROVE  /\ mtime[f] <= mtime'[f] /\ mtime'[f] <= now'
             /\ Len(log'[f]) \in Nat /\ Len(log'[f]) <= MaxRecords
             /\ Len(log[f]) <= Len(log'[f])
             /\ DOMAIN log'[f] = 1..Len(log'[f])
             /\ \A i \in 1..Len(log[f]) : log'[f][i] = log[f][i]
             /\ \A i \in 1..Len(log'[f]) : i <= Len(log[f]) \/ (log'[f][i] = t /\ f = g)
  <2>1. /\ log[f] \in Seq(1..MaxTime) /\ mtime[f] <= now /\ Len(log[f]) <= MaxRecords
        /\ mtime[f] \in Nat
    BY LogTypes DEF TypeOK, LogsInv
  <2>2. t \in 1..MaxTime
    BY NextTicksType
  <2>3. CASE f = g
    <3>1. log'[f] = Append(log[f], t) /\ mtime'[f] = t
      BY <1>1, <2>3 DEF TypeOK
    <3>2. Len(log[f]) < MaxRecords
      BY <1>1, <2>3
    <3>3. /\ Len(log'[f]) = Len(log[f]) + 1
          /\ DOMAIN log'[f] = 1..Len(log'[f])
          /\ \A i \in 1..Len(log[f]) : log'[f][i] = log[f][i]
          /\ log'[f][Len(log[f]) + 1] = t
      BY <2>1, <2>2, <3>1
    <3>4. Len(log[f]) \in Nat /\ MaxRecords \in Nat
      BY <2>1, ConstantsAssumption
    <3>5. mtime[f] <= mtime'[f] /\ mtime'[f] <= now'
      BY <1>1, <1>2, <2>1, <3>1
    <3>6. \A i \in 1..Len(log'[f]) : i <= Len(log[f]) \/ (log'[f][i] = t /\ f = g)
      BY <2>3, <3>3, <3>4
    <3>7. QED
      BY <3>2, <3>3, <3>4, <3>5, <3>6
  <2>4. CASE f # g
    <3>1. log'[f] = log[f] /\ mtime'[f] = mtime[f]
      BY <1>1, <2>4 DEF TypeOK
    <3>2. DOMAIN log[f] = 1..Len(log[f]) /\ Len(log[f]) \in Nat
      BY LogTypes
    <3>3. mtime[f] <= mtime'[f] /\ mtime'[f] <= now'
      BY <1>1, <1>2, <2>1, <3>1
    <3>4. QED
      BY <2>1, <3>1, <3>2, <3>3
  <2>5. QED
    BY <2>3, <2>4
<1>4. \A f \in Files : calls'[f] = calls[f]
  BY <1>1 DEF tables
<1>5. Grows
  <2>1. ASSUME NEW f \in Files, NEW i \in DOMAIN log'[f], log'[f][i] <= mtime[f]
        PROVE  i \in DOMAIN log[f]
    <3>1. i \in 1..Len(log'[f]) /\ Len(log[f]) \in Nat
      BY <1>3, <2>1, LogTypes
    <3>2. mtime[f] <= now /\ mtime[f] \in Nat
      BY LogTypes DEF LogsInv
    <3>3. log'[f][i] # t
      BY <1>2, <2>1, <3>2
    <3>4. i <= Len(log[f])
      BY <1>3, <3>1, <3>3
    <3>5. QED
      BY <3>1, <3>4, LogTypes
  <2>2. now <= now'
    BY <1>1, <1>2
  <2>3. \A f \in Files : DOMAIN log[f] \subseteq DOMAIN log'[f]
    BY <1>3, LogTypes
  <2>4. \A f \in Files : \A i \in DOMAIN log[f] : log'[f][i] = log[f][i]
    BY <1>3, LogTypes
  <2>5. ASSUME NEW f \in Files, NEW i \in Nat, Stored(f, log[f], calls[f], i)
        PROVE  Stored(f, log'[f], calls'[f], i)
    <3>1. Longer(log[f], log'[f]) /\ calls[f] \subseteq calls'[f]
      BY <1>4, <2>3, <2>4 DEF Longer
    <3>2. QED
      BY <2>5, <3>1, StoredGrows
  <2>6. QED
    BY <1>3, <2>1, <2>2, <2>3, <2>4, <2>5 DEF Grows
<1>6. ASSUME NEW f \in Files, NEW i \in DOMAIN log'[f] PROVE log'[f][i] <= mtime'[f]
  <2>1. CASE i <= Len(log[f])
    <3>1. i \in DOMAIN log[f]
      BY <1>3, <2>1, LogTypes
    <3>2. log'[f][i] = log[f][i] /\ log[f][i] <= mtime[f] /\ mtime[f] <= mtime'[f]
      BY <1>5, <3>1 DEF LogsInv, Grows
    <3>3. log[f][i] \in Nat /\ mtime[f] \in Nat /\ mtime'[f] \in Nat
      <4>1. mtime' \in [Files -> Nat]
        BY <1>1, NextTicksType, LogTypes DEF TypeOK
      <4>2. QED
        BY <3>1, <4>1, LogTypes
    <3>4. QED
      BY <3>2, <3>3
  <2>2. CASE log'[f][i] = t /\ f = g
    BY <1>1, <1>2, <2>2 DEF TypeOK
  <2>3. QED
    BY <1>3, <2>1, <2>2
<1>7. QED
  BY <1>3, <1>5, <1>6 DEF LogsInv

LEMMA AppendOtherGrows ==
    ASSUME TypeOK, Benign, LogsInv, NEW g \in Files, AppendOther(g)
    PROVE  Grows /\ LogsInv'
<1>1. PICK t \in NextTicks :
        now' = t /\ mtime' = [mtime EXCEPT ![g] = t] /\ UNCHANGED <<log, tables>>
  BY DEF AppendOther
<1>2. t = now + 1 /\ now \in Nat /\ mtime \in [Files -> Nat]
  BY TickAdvances, LogTypes DEF TypeOK
<1>3. ASSUME NEW f \in Files
      PROVE  mtime[f] <= mtime'[f] /\ mtime'[f] <= now' /\ mtime'[f] \in Nat
  BY <1>1, <1>2 DEF LogsInv
<1>4. ASSUME NEW f \in Files, NEW i \in DOMAIN log[f]
      PROVE  log[f][i] <= mtime'[f]
  <2>1. log[f][i] \in Nat /\ mtime[f] \in Nat /\ log[f][i] <= mtime[f]
    BY LogTypes DEF LogsInv
  <2>2. QED
    BY <1>3, <2>1
<1>5. log' = log /\ calls' = calls
  BY <1>1 DEF tables
<1>6. now <= now'
  BY <1>1, <1>2
<1>7. QED
  BY <1>3, <1>4, <1>5, <1>6 DEF Grows, LogsInv

LEMMA LeaveTablesGrow ==
    ASSUME TypeOK, LogsInv, UNCHANGED files, calls' = calls
    PROVE  Grows /\ LogsInv'
BY SameFilesGrow DEF files, LogsInv

LEMMA SyncStepGrows ==
    ASSUME TypeOK, LogsInv, NEW p \in Procs, SyncStep(p)
    PROVE  Grows /\ LogsInv'
<1> USE DEF tables
<1>1. CASE Commit(p)
  <2>1. UNCHANGED files /\ calls' = [f \in Files |-> calls[f] \cup rows[p][f]]
    BY <1>1 DEF Commit
  <2>2. \A f \in Files : \A i \in Nat :
          Stored(f, log[f], calls[f], i) => Stored(f, log'[f], calls'[f], i)
    BY <2>1, StoredMonotone DEF files
  <2>3. QED
    BY <2>1, <2>2, SameFilesGrow DEF files, LogsInv
<1>2. CASE CleanupUnknownDuplicates(p)
  <2>1. /\ UNCHANGED files
        /\ \/ calls' = [f \in Files |-> {row \in calls[f] : ~Superseded(f, row)}]
           \/ calls' = calls
    BY <1>2 DEF CleanupUnknownDuplicates
  <2>2. \A f \in Files : \A i \in Nat :
          Stored(f, log[f], calls[f], i) => Stored(f, log'[f], calls'[f], i)
    BY <2>1, CleanupKeeps DEF files
  <2>3. QED
    BY <2>1, <2>2, SameFilesGrow DEF files, LogsInv
<1>3. CASE CleanupCorruptedTokens(p)
  <2>1. /\ UNCHANGED files
        /\ \/ calls' = [f \in Files |-> {row \in calls[f] : ~Corrupted(f, row)}]
           \/ calls' = calls
    BY <1>3 DEF CleanupCorruptedTokens
  <2>2. \A f \in Files : \A i \in Nat :
          Stored(f, log[f], calls[f], i) => Stored(f, log'[f], calls'[f], i)
    BY <2>1, MendingKeeps DEF files, LogsInv
  <2>3. QED
    BY <2>1, <2>2, SameFilesGrow DEF files, LogsInv
<1>4. CASE DeleteParsedLogs(p) \/ ParsedMtimeByFile(p) \/ SkipFile(p) \/ TakeFile(p)
           \/ ReadFile(p) \/ InsertRecord(p) \/ MarkLogParsed(p) \/ EndScan(p)
           \/ UpsertWorkspaces(p)
  <2>1. UNCHANGED files /\ calls' = calls
    BY <1>4 DEF DeleteParsedLogs, ParsedMtimeByFile, SkipFile, TakeFile, ReadFile,
                InsertRecord, MarkLogParsed, EndScan, UpsertWorkspaces
  <2>2. QED
    BY <2>1, LeaveTablesGrow
<1>5. QED
  BY <1>1, <1>2, <1>4, <1>3 DEF SyncStep

LEMMA StepGrows ==
    ASSUME TypeOK, Benign, LogsInv, [Next]_vars
    PROVE  Grows /\ LogsInv'
<1>1. ASSUME NEW p \in Procs, Start(p) \/ FaultStep(p) PROVE Grows /\ LogsInv'
  <2>1. UNCHANGED files /\ calls' = calls
    BY <1>1 DEF Start, FaultStep, BeginFails, ReadFails, CommitFails, Crash, tables
  <2>2. QED
    BY <2>1, LeaveTablesGrow
<1>2. CASE UNCHANGED vars
  BY <1>2, LeaveTablesGrow DEF vars, files
<1>3. QED
  BY <1>1, <1>2, AppendGrows, AppendOtherGrows, SyncStepGrows DEF Next
-----------------------------------------------------------------------------
(* A process's part of the invariant survives every step that leaves the   *)
(* process's own variables alone                                           *)

LEMMA StoredInUnion ==
    ASSUME NEW f, NEW L, NEW M, Longer(L, M), NEW R, NEW S, NEW T, NEW i,
           Stored(f, L, R, i) => Stored(f, M, S, i)
    PROVE  Stored(f, L, R \cup T, i) => Stored(f, M, S \cup T, i)
<1> SUFFICES ASSUME Stored(f, L, R \cup T, i) PROVE Stored(f, M, S \cup T, i)
  OBVIOUS
<1>1. Stored(f, L, R, i) \/ Stored(f, L, T, i)
  BY DEF Stored
<1>2. CASE Stored(f, L, R, i)
  BY <1>2, StoredMonotone, S \subseteq S \cup T
<1>3. CASE Stored(f, L, T, i)
  BY <1>3, StoredGrows, T \subseteq S \cup T
<1>4. QED
  BY <1>1, <1>2, <1>3

(* What is in a table, or on its way to it, stays.                         *)
LEMMA UnionGrows ==
    ASSUME Grows, NEW f \in Files, NEW T, NEW i \in Nat
    PROVE  Stored(f, log[f], calls[f] \cup T, i) => Stored(f, log'[f], calls'[f] \cup T, i)
<1>1. Longer(log[f], log'[f])
  BY GrowsLonger
<1>2. Stored(f, log[f], calls[f], i) => Stored(f, log'[f], calls'[f], i)
  BY DEF Grows
<1> DEFINE L == log[f]
           M == log'[f]
           R == calls[f]
           S == calls'[f]
<1> HIDE DEF L, M, R, S
<1>3. Stored(f, L, R \cup T, i) => Stored(f, M, S \cup T, i)
  BY <1>1, <1>2, StoredInUnion DEF L, M, R, S
<1>4. QED
  BY <1>3 DEF L, M, R, S

LEMMA InWindowCarried ==
    ASSUME TypeOK, TypeOK', Benign, Grows, NEW x \in Nat, InWindow(TheWindow, now', x)
    PROVE  InWindow(TheWindow, now, x)
<1>1. now \in Nat /\ now' \in Nat /\ now <= now'
  BY DEF TypeOK, Grows
<1>2. /\ Lo(TheWindow, now) \in Int /\ Lo(TheWindow, now') \in Int
      /\ Lo(TheWindow, now) <= Lo(TheWindow, now')
  BY <1>1, OpenEnd, LoMonotone, WindowTypes
<1>3. Hi(TheWindow, now) = Hi(TheWindow, now')
  BY <1>1, OpenEnd
<1>4. QED
  BY <1>2, <1>3 DEF InWindow

LEMMA NextLogTypes ==
    ASSUME TypeOK', NEW f \in Files
    PROVE  \A i \in DOMAIN log'[f] : log'[f][i] \in 1..MaxTime
BY ConstantsAssumption DEF TypeOK

LEMMA CoversCarried ==
    ASSUME TypeOK, TypeOK', Benign, Grows, NEW f \in Files,
           NEW m \in Nat, m <= mtime[f], NEW R, NEW S,
           \A i \in Nat : Stored(f, log[f], R, i) => Stored(f, log'[f], S, i),
           Covers(f, log[f], now, R, TheWindow, m)
    PROVE  Covers(f, log'[f], now', S, TheWindow, m)
<1>1. now \in Nat /\ now' \in Nat /\ now <= now'
  BY DEF TypeOK, Grows
<1>2. \A i \in DOMAIN log'[f] : log'[f][i] \in Nat
  BY NextLogTypes
<1>3. \A i \in DOMAIN log'[f] : log'[f][i] <= m => i \in DOMAIN log[f] /\ log[f][i] = log'[f][i]
  <2>1. mtime[f] \in Nat
    BY LogTypes
  <2>2. QED
    BY <1>2, <2>1 DEF Grows
<1>4. \A i \in DOMAIN log[f] : Stored(f, log[f], R, i) => Stored(f, log'[f], S, i)
  BY LogTypes
<1>5. QED
  BY <1>1, <1>2, <1>3, <1>4, CoversGrows

LEMMA TableKept ==
    ASSUME TypeOK, TypeOK', Benign, Grows, TableInv, parsed' = parsed
    PROVE  TableInv'
<1> SUFFICES ASSUME NEW f \in Files
             PROVE  /\ parsed[f] <= mtime'[f]
                    /\ Covers(f, log'[f], now', calls'[f], TheWindow, parsed[f])
  BY DEF TableInv
<1>1. parsed[f] \in Nat /\ mtime[f] \in Nat /\ mtime'[f] \in Nat
  BY DEF TypeOK
<1>2. /\ parsed[f] <= mtime[f] /\ mtime[f] <= mtime'[f]
      /\ \A i \in Nat : Stored(f, log[f], calls[f], i) => Stored(f, log'[f], calls'[f], i)
      /\ Covers(f, log[f], now, calls[f], TheWindow, parsed[f])
  BY DEF TableInv, Grows
<1>3. QED
  BY <1>1, <1>2, CoversCarried

LEMMA KnownKept ==
    ASSUME TypeOK, TypeOK', Benign, Grows, NEW q \in Procs, KnownInv(q), known'[q] = known[q]
    PROVE  KnownInv(q)'
<1> SUFFICES ASSUME NEW f \in Files
             PROVE  /\ known[q][f] <= mtime'[f]
                    /\ Covers(f, log'[f], now', calls'[f], TheWindow, known[q][f])
  BY DEF KnownInv
<1>1. known[q][f] \in Nat /\ mtime[f] \in Nat /\ mtime'[f] \in Nat
  BY DEF TypeOK
<1>2. /\ known[q][f] <= mtime[f] /\ mtime[f] <= mtime'[f]
      /\ \A i \in Nat : Stored(f, log[f], calls[f], i) => Stored(f, log'[f], calls'[f], i)
      /\ Covers(f, log[f], now, calls[f], TheWindow, known[q][f])
  BY DEF KnownInv, Grows
<1>3. QED
  BY <1>1, <1>2, CoversCarried

LEMMA TxKept ==
    ASSUME TypeOK, TypeOK', Benign, Grows, NEW q \in Procs, TxInv(q),
           open'[q] = open[q], rows'[q] = rows[q], marks'[q] = marks[q]
    PROVE  TxInv(q)'
<1>1. ASSUME NEW f \in Files
      PROVE  /\ marks[q][f] <= mtime'[f]
             /\ Covers(f, log'[f], now', calls'[f] \cup rows[q][f], TheWindow, marks[q][f])
  <2>1. marks[q][f] \in Nat /\ mtime[f] \in Nat /\ mtime'[f] \in Nat
    BY DEF TypeOK
  <2>2. /\ marks[q][f] <= mtime[f] /\ mtime[f] <= mtime'[f]
        /\ \A i \in Nat : Stored(f, log[f], calls[f], i) => Stored(f, log'[f], calls'[f], i)
        /\ Covers(f, log[f], now, calls[f] \cup rows[q][f], TheWindow, marks[q][f])
    BY DEF TxInv, Grows
  <2>3. \A i \in Nat : Stored(f, log[f], calls[f] \cup rows[q][f], i)
                         => Stored(f, log'[f], calls'[f] \cup rows[q][f], i)
    BY UnionGrows
  <2>4. marks[q][f] <= mtime'[f]
    BY <2>1, <2>2
  <2>5. Covers(f, log'[f], now', calls'[f] \cup rows[q][f], TheWindow, marks[q][f])
    <3> DEFINE R == calls[f] \cup rows[q][f]
               S == calls'[f] \cup rows[q][f]
               m == marks[q][f]
    <3>1. /\ m \in Nat /\ m <= mtime[f]
          /\ \A i \in Nat : Stored(f, log[f], R, i) => Stored(f, log'[f], S, i)
          /\ Covers(f, log[f], now, R, TheWindow, m)
      BY <2>1, <2>2, <2>3
    <3> HIDE DEF R, S, m
    <3>2. Covers(f, log'[f], now', S, TheWindow, m)
      BY <3>1, CoversCarried
    <3>3. QED
      BY <3>2 DEF S, m
  <2>6. QED
    BY <2>4, <2>5
<1>2. QED
  BY <1>1 DEF TxInv

LEMMA ReqKept ==
    ASSUME TypeOK, TypeOK', Benign, Grows, NEW q \in Procs, ReqInv(q),
           req'[q] = req[q], pc'[q] # "idle" => pc[q] # "idle"
    PROVE  ReqInv(q)'
<1> SUFFICES ASSUME pc'[q] # "idle"
             PROVE  /\ req[q].win = TheWindow
                    /\ req[q].lo <= Lo(TheWindow, now')
                    /\ req[q].hi = Forever
                    /\ \A f \in Files : req[q].goal[f] <= Len(log'[f])
  BY DEF ReqInv
<1>1. /\ req[q].win = TheWindow
      /\ req[q].lo <= Lo(TheWindow, now)
      /\ req[q].hi = Forever
      /\ \A f \in Files : req[q].goal[f] <= Len(log[f])
  BY DEF ReqInv
<1>2. now \in Nat /\ now' \in Nat /\ now <= now'
  BY DEF TypeOK, Grows
<1>3. /\ Lo(TheWindow, now) \in Int /\ Lo(TheWindow, now') \in Int
      /\ Lo(TheWindow, now) <= Lo(TheWindow, now')
  BY <1>2, OpenEnd, LoMonotone, WindowTypes
<1>4. req[q].lo \in Int /\ \A f \in Files : req[q].goal[f] \in Nat
  BY DEF TypeOK, Req
<1>5. ASSUME NEW f \in Files PROVE req[q].goal[f] <= Len(log'[f])
  <2>1. log[f] \in Seq(1..MaxTime) /\ log'[f] \in Seq(1..MaxTime)
    BY DEF TypeOK
  <2>2. Len(log[f]) <= Len(log'[f]) /\ Len(log[f]) \in Nat /\ Len(log'[f]) \in Nat
    BY <2>1 DEF Grows
  <2>3. QED
    BY <1>1, <1>4, <2>2
<1>6. QED
  BY <1>1, <1>3, <1>4, <1>5

LEMMA DeliveredCarried ==
    ASSUME TypeOK, TypeOK', Benign, Grows, NEW q \in Procs, NEW f \in Files,
           NEW R, NEW S, \A i \in Nat : Stored(f, log[f], R, i) => Stored(f, log'[f], S, i),
           req'[q] = req[q], req[q].goal[f] <= Len(log[f]),
           Delivered(q, f, R)
    PROVE  \A i \in 1..req[q].goal[f] :
              InWindow(TheWindow, now', log'[f][i]) => Stored(f, log'[f], S, i)
<1> SUFFICES ASSUME NEW i \in 1..req[q].goal[f], InWindow(TheWindow, now', log'[f][i])
             PROVE  Stored(f, log'[f], S, i)
  OBVIOUS
<1>1. req[q].goal[f] \in Nat /\ Len(log[f]) \in Nat /\ DOMAIN log[f] = 1..Len(log[f])
  BY LogTypes DEF TypeOK, Req
<1>2. i \in DOMAIN log[f] /\ i \in Nat
  BY <1>1
<1>3. log'[f][i] = log[f][i] /\ log[f][i] \in Nat
  BY <1>2, LogTypes DEF Grows
<1>4. InWindow(TheWindow, now, log[f][i])
  BY <1>3, InWindowCarried
<1>5. QED
  BY <1>2, <1>4 DEF Delivered

(* The obligations of a sync under way, and of a committed one. *)
LEMMA DoneKept ==
    ASSUME TypeOK, TypeOK', Benign, Grows, NEW q \in Procs, ReqInv(q), DoneInv(q),
           pc'[q] = pc[q], req'[q] = req[q], todo'[q] = todo[q], rows'[q] = rows[q]
    PROVE  DoneInv(q)'
<1>1. ASSUME NEW f \in Files, pc[q] # "idle" PROVE req[q].goal[f] <= Len(log[f])
  BY <1>1 DEF ReqInv
<1>2. ASSUME NEW f \in Files
      PROVE  \A i \in Nat : Stored(f, log[f], calls[f], i) => Stored(f, log'[f], calls'[f], i)
  BY DEF Grows
<1>3. ASSUME pc[q] \notin Committed \cup {"idle"}, NEW f \in Files \ todo[q]
      PROVE  \A i \in 1..req[q].goal[f] :
                InWindow(TheWindow, now', log'[f][i])
                  => Stored(f, log'[f], calls'[f] \cup rows[q][f], i)
  <2> DEFINE R == calls[f] \cup rows[q][f]
             S == calls'[f] \cup rows[q][f]
  <2>1. \A i \in Nat : Stored(f, log[f], R, i) => Stored(f, log'[f], S, i)
    BY <1>3, UnionGrows
  <2>2. Delivered(q, f, R)
    BY <1>3 DEF DoneInv
  <2>3. f \in Files /\ req[q].goal[f] <= Len(log[f])
    BY <1>1, <1>3
  <2> HIDE DEF R, S
  <2>4. \A i \in 1..req[q].goal[f] : InWindow(TheWindow, now', log'[f][i]) =>
          Stored(f, log'[f], S, i)
    BY <2>1, <2>2, <2>3, DeliveredCarried
  <2>5. QED
    BY <2>4 DEF S
<1>4. ASSUME pc[q] \in Committed, NEW f \in Files
      PROVE  \A i \in 1..req[q].goal[f] :
                InWindow(TheWindow, now', log'[f][i]) => Stored(f, log'[f], calls'[f], i)
  <2>1. Delivered(q, f, calls[f])
    BY <1>4 DEF DoneInv
  <2>2. req[q].goal[f] <= Len(log[f])
    BY <1>1, <1>4 DEF Committed
  <2>3. QED
    BY <1>2, <2>1, <2>2, DeliveredCarried
<1>5. pc[q] = "commit" => todo[q] = {}
  BY DEF DoneInv
<1>6. QED
  BY <1>3, <1>4, <1>5 DEF DoneInv, Delivered

LEMMA HandKept ==
    ASSUME TypeOK, TypeOK', Benign, Grows, NEW q \in Procs, ReqInv(q), HandInv(q),
           pc'[q] = pc[q], req'[q] = req[q], file'[q] = file[q], stat'[q] = stat[q],
           batch'[q] = batch[q], rows'[q] = rows[q], open'[q] = open[q]
    PROVE  HandInv(q)'
<1> DEFINE f == file[q]
<1>1. CASE pc[q] \notin {"read", "insert"}
  BY <1>1 DEF HandInv
<1>2. CASE pc[q] \in {"read", "insert"}
  <2>1. f \in Files /\ stat[q] \in Nat /\ req[q].goal[f] \in Nat
    BY <1>2 DEF TypeOK, Req
  <2>2. /\ stat[q] <= mtime[f]
        /\ \A i \in 1..req[q].goal[f] : log[f][i] <= stat[q]
        /\ req[q].goal[f] <= Len(log[f])
    BY <1>2, <2>1 DEF HandInv, ReqInv
  <2>3. mtime[f] \in Nat /\ mtime'[f] \in Nat /\ mtime[f] <= mtime'[f]
    BY <2>1 DEF TypeOK, Grows
  <2>4. \A i \in 1..req[q].goal[f] : log'[f][i] = log[f][i]
    <3>1. Len(log[f]) \in Nat /\ DOMAIN log[f] = 1..Len(log[f])
      BY <2>1, LogTypes
    <3>2. 1..req[q].goal[f] \subseteq DOMAIN log[f]
      BY <2>1, <2>2, <3>1
    <3>3. QED
      BY <2>1, <3>2 DEF Grows
  <2>5. ASSUME pc[q] = "insert"
        PROVE  Covers(f, log'[f], now', calls'[f] \cup rows[q][f] \cup batch[q],
                      TheWindow, stat[q])
    <3> DEFINE R == calls[f] \cup rows[q][f] \cup batch[q]
               S == calls'[f] \cup rows[q][f] \cup batch[q]
               m == stat[q]
    <3>1. ASSUME NEW i \in Nat, Stored(f, log[f], R, i) PROVE Stored(f, log'[f], S, i)
      <4> DEFINE T == rows[q][f] \cup batch[q]
      <4>1. R = calls[f] \cup T /\ S = calls'[f] \cup T
        OBVIOUS
      <4> HIDE DEF T
      <4>2. Stored(f, log[f], calls[f] \cup T, i) => Stored(f, log'[f], calls'[f] \cup T, i)
        BY <2>1, <3>1, UnionGrows
      <4>3. QED
        BY <3>1, <4>1, <4>2
    <3>2. m \in Nat /\ m <= mtime[f] /\ Covers(f, log[f], now, R, TheWindow, m)
      BY <2>1, <2>2, <2>5 DEF HandInv
    <3> HIDE DEF R, S, m
    <3>3. Covers(f, log'[f], now', S, TheWindow, m)
      BY <2>1, <3>1, <3>2, CoversCarried
    <3>4. QED
      BY <3>3 DEF S, m
  <2>6. stat[q] <= mtime'[f] /\ \A i \in 1..req[q].goal[f] : log'[f][i] <= stat[q]
    BY <2>1, <2>2, <2>3, <2>4
  <2>7. open[q]
    BY <1>2 DEF HandInv
  <2>8. QED
    BY <2>5, <2>6, <2>7 DEF HandInv
<1>3. QED
  BY <1>1, <1>2

-----------------------------------------------------------------------------
(* What a process's own steps do to its part of the invariant *)

ProcInv(p) == KnownInv(p) /\ TxInv(p) /\ ReqInv(p) /\ DoneInv(p) /\ HandInv(p)

SameLocals(q) ==
    /\ pc'[q] = pc[q] /\ req'[q] = req[q] /\ todo'[q] = todo[q] /\ known'[q] = known[q]
    /\ file'[q] = file[q] /\ stat'[q] = stat[q] /\ batch'[q] = batch[q]
    /\ open'[q] = open[q] /\ rows'[q] = rows[q] /\ marks'[q] = marks[q]

LEMMA ProcKept ==
    ASSUME TypeOK, TypeOK', Benign, Grows, NEW q \in Procs, ProcInv(q), SameLocals(q)
    PROVE  ProcInv(q)'
BY KnownKept, TxKept, ReqKept, DoneKept, HandKept DEF ProcInv, SameLocals

LEMMA CoversNothingNow ==
    ASSUME TypeOK, NEW f \in Files, NEW R
    PROVE  Covers(f, log[f], now, R, TheWindow, 0)
BY LogTypes, CoversNothing

LEMMA CoversNothingNext ==
    ASSUME TypeOK', NEW f \in Files, NEW R
    PROVE  Covers(f, log'[f], now', R, TheWindow, 0)
BY NextLogTypes, CoversNothing

(* A process that has left owes nothing. *)
LEMMA LeftInv ==
    ASSUME TypeOK, TypeOK', NEW p \in Procs, Leave(p)
    PROVE  ProcInv(p)'
<1>1. /\ pc'[p] = "idle" /\ known'[p] = NoMarks
      /\ open'[p] = FALSE /\ rows'[p] = NoRows /\ marks'[p] = NoMarks
  BY DEF Leave, Goto, EndTx, TypeOK
<1>2. \A f \in Files : mtime'[f] \in Nat /\ known'[p][f] = 0 /\ marks'[p][f] = 0
  BY <1>1 DEF TypeOK, NoMarks
<1>3. KnownInv(p)'
  BY <1>2, CoversNothingNext DEF KnownInv
<1>4. TxInv(p)'
  BY <1>1, <1>2, CoversNothingNext DEF TxInv
<1>5. ReqInv(p)' /\ DoneInv(p)' /\ HandInv(p)'
  BY <1>1 DEF ReqInv, DoneInv, HandInv, Committed
<1>6. QED
  BY <1>3, <1>4, <1>5 DEF ProcInv

LEMMA StartInv ==
    ASSUME TypeOK, TypeOK', Benign, Grows, LogsInv, NEW p \in Procs, ProcInv(p), Start(p)
    PROVE  ProcInv(p)'
<1>1. PICK w \in Windows, force \in Forces :
        /\ req' = [req EXCEPT ![p] =
                     [win |-> w, force |-> force,
                      lo |-> Lo(w, now), hi |-> Hi(w, now),
                      goal |-> [f \in Files |-> Len(log[f])]]]
        /\ Goto(p, IF force THEN "delete" ELSE "load")
  BY DEF Start
<1>2. /\ todo'[p] = Existing /\ UNCHANGED files
      /\ known'[p] = known[p] /\ open'[p] = open[p] /\ rows'[p] = rows[p]
      /\ marks'[p] = marks[p]
  BY DEF Start, TypeOK, tx
<1>3. w = TheWindow /\ Hi(w, now) = Forever /\ now \in Nat /\ Lo(w, now) \in Int
  BY OpenEnd, WindowTypes DEF Benign, TypeOK
<1>4. pc'[p] \in {"delete", "load"}
  BY <1>1 DEF Goto, TypeOK
<1>5. /\ req'[p].win = TheWindow /\ req'[p].lo = Lo(TheWindow, now')
      /\ req'[p].hi = Forever /\ req'[p].goal = [f \in Files |-> Len(log[f])]
  BY <1>1, <1>2, <1>3 DEF TypeOK, files
<1>6. ReqInv(p)'
  <2>1. \A f \in Files : req'[p].goal[f] <= Len(log'[f])
    BY <1>2, <1>5, LogTypes DEF files
  <2>2. req'[p].lo <= Lo(TheWindow, now')
    BY <1>2, <1>3, <1>5 DEF files
  <2>3. QED
    BY <1>5, <2>1, <2>2 DEF ReqInv
<1>7. DoneInv(p)'
  <2>1. ASSUME NEW f \in Files \ Existing PROVE req'[p].goal[f] = 0
    <3>1. mtime[f] = 0
      BY <2>1 DEF Existing
    <3>2. ASSUME NEW i \in DOMAIN log[f] PROVE FALSE
      <4>1. log[f][i] \in 1..MaxTime
        BY LogTypes
      <4>2. log[f][i] <= mtime[f]
        BY DEF LogsInv
      <4>3. QED
        BY <3>1, <4>1, <4>2, ConstantsAssumption
    <3>3. Len(log[f]) = 0
      <4>1. Len(log[f]) \in Nat /\ DOMAIN log[f] = 1..Len(log[f])
        BY LogTypes
      <4>2. 1 \notin 1..Len(log[f])
        BY <3>2, <4>1
      <4>3. QED
        BY <4>1, <4>2
    <3>4. QED
      BY <1>5, <3>3
  <2>2. \A f \in Files \ todo'[p] : 1..req'[p].goal[f] = {}
    BY <1>2, <2>1
  <2>3. QED
    BY <1>4, <2>2 DEF DoneInv, Delivered, Committed
<1>8. KnownInv(p)' /\ TxInv(p)'
  BY <1>2, KnownKept, TxKept DEF ProcInv
<1>9. HandInv(p)'
  BY <1>4 DEF HandInv
<1>10. QED
  BY <1>6, <1>7, <1>8, <1>9 DEF ProcInv

(* Before the scan, nothing but parsedMtimeByFile changes hands.           *)
LEMMA LoadInv ==
    ASSUME TypeOK, TypeOK', Benign, Grows, TableInv, NEW p \in Procs, ProcInv(p),
           DeleteParsedLogs(p) \/ ParsedMtimeByFile(p)
    PROVE  ProcInv(p)'
<1>1. /\ pc[p] \in {"delete", "load"} /\ pc'[p] = "scan"
      /\ req'[p] = req[p] /\ todo'[p] = todo[p] /\ UNCHANGED files /\ calls' = calls
      /\ open'[p] = open[p] /\ rows'[p] = rows[p] /\ marks'[p] = marks[p]
  BY DEF DeleteParsedLogs, ParsedMtimeByFile, Goto, tables, tx, TypeOK
<1>2. KnownInv(p)'
  <2>1. CASE known'[p] = known[p]
    BY <2>1, KnownKept DEF ProcInv
  <2>2. CASE known'[p] = parsed
    <3>1. /\ log' = log /\ now' = now /\ mtime' = mtime /\ calls' = calls
      BY <1>1 DEF files
    <3>2. QED
      BY <2>2, <3>1 DEF KnownInv, TableInv
  <2>3. QED
    BY <2>1, <2>2 DEF DeleteParsedLogs, ParsedMtimeByFile, TypeOK
<1>3. TxInv(p)' /\ ReqInv(p)'
  BY <1>1, TxKept, ReqKept DEF ProcInv
<1>4. DoneInv(p)'
  <2>1. \A f \in Files \ todo[p] : Delivered(p, f, calls[f] \cup rows[p][f])
    BY <1>1 DEF ProcInv, DoneInv, Committed
  <2>2. log' = log /\ now' = now
    BY <1>1 DEF files
  <2>3. QED
    BY <1>1, <2>1, <2>2 DEF DoneInv, Delivered, Committed
<1>5. HandInv(p)'
  BY <1>1 DEF HandInv
<1>6. QED
  BY <1>2, <1>3, <1>4, <1>5 DEF ProcInv

LEMMA SkipInv ==
    ASSUME TypeOK, TypeOK', Benign, Grows, LogsInv, NEW p \in Procs, ProcInv(p), SkipFile(p)
    PROVE  ProcInv(p)'
<1>1. PICK f \in todo[p] : Skips(p, f) /\ todo' = [todo EXCEPT ![p] = @ \ {f}]
  BY DEF SkipFile
<1>2. /\ pc[p] = "scan" /\ pc' = pc /\ req' = req /\ UNCHANGED files /\ calls' = calls
      /\ known' = known /\ open' = open /\ rows' = rows /\ marks' = marks
      /\ file' = file /\ stat' = stat /\ batch' = batch
  BY DEF SkipFile, tables, tx, cur
<1>3. f \in Files /\ todo'[p] = todo[p] \ {f}
  BY <1>1 DEF TypeOK
<1>4. KnownInv(p)' /\ TxInv(p)' /\ ReqInv(p)' /\ HandInv(p)'
  BY <1>2, KnownKept, TxKept, ReqKept, HandKept DEF ProcInv
<1>5. /\ req[p].goal[f] \in Nat /\ req[p].goal[f] <= Len(log[f]) /\ req[p].hi = Forever
      /\ req[p].lo <= Lo(TheWindow, now) /\ req[p].lo \in Int
      /\ Lo(TheWindow, now) \in Int /\ mtime[f] \in 0..MaxTime
  <2>1. now \in Nat /\ req[p] \in Req /\ mtime[f] \in 0..MaxTime
    BY <1>3 DEF TypeOK
  <2>2. Lo(TheWindow, now) \in Int
    BY <2>1, OpenEnd, WindowTypes
  <2>3. QED
    BY <1>2, <1>3, <2>1, <2>2 DEF ProcInv, ReqInv, Req
<1>6. mtime[f] < req[p].lo \/ known[p][f] = mtime[f]
  BY <1>1, <1>5, ConstantsAssumption DEF Skips, Forever
<1>7. Delivered(p, f, calls[f] \cup rows[p][f])
  <2> SUFFICES ASSUME NEW i \in 1..req[p].goal[f], InWindow(TheWindow, now, log[f][i])
               PROVE  Stored(f, log[f], calls[f] \cup rows[p][f], i)
    BY DEF Delivered
  <2>1. Len(log[f]) \in Nat /\ DOMAIN log[f] = 1..Len(log[f])
    BY <1>3, LogTypes
  <2>2. i \in DOMAIN log[f]
    BY <1>5, <2>1
  <2>3. log[f][i] \in Nat /\ log[f][i] <= mtime[f]
    BY <1>3, <2>2, LogTypes DEF LogsInv
  <2>4. Lo(TheWindow, now) <= log[f][i]
    BY DEF InWindow
  <2>5. known[p][f] = mtime[f]
    BY <1>5, <1>6, <2>3, <2>4
  <2>6. Stored(f, log[f], calls[f], i)
    BY <1>3, <2>2, <2>3, <2>5 DEF ProcInv, KnownInv, Covers
  <2>7. QED
    BY <2>6, StoredMonotone
<1>8. DoneInv(p)'
  <2>1. \A g \in Files \ todo'[p] : Delivered(p, g, calls[g] \cup rows[p][g])
    BY <1>2, <1>3, <1>7 DEF ProcInv, DoneInv, Committed
  <2>2. log' = log /\ now' = now
    BY <1>2 DEF files
  <2>3. QED
    BY <1>2, <2>1, <2>2 DEF DoneInv, Delivered, Committed
<1>9. QED
  BY <1>4, <1>8 DEF ProcInv

LEMMA TakeInv ==
    ASSUME TypeOK, TypeOK', Benign, Grows, LogsInv, NEW p \in Procs, ProcInv(p), TakeFile(p)
    PROVE  ProcInv(p)'
<1>1. PICK f \in todo[p] :
        file' = [file EXCEPT ![p] = f] /\ stat' = [stat EXCEPT ![p] = mtime[f]]
  BY DEF TakeFile
<1>2. /\ pc[p] = "scan" /\ pc'[p] = "read" /\ req' = req /\ UNCHANGED files
      /\ calls' = calls /\ known' = known /\ rows' = rows /\ marks' = marks
      /\ todo' = todo /\ open'[p] = TRUE
  BY DEF TakeFile, tables, Goto, TypeOK
<1>3. f \in Files /\ file'[p] = f /\ stat'[p] = mtime[f]
  BY <1>1 DEF TypeOK
<1>4. /\ log' = log /\ now' = now /\ mtime' = mtime
  BY <1>2 DEF files
<1>5. KnownInv(p)' /\ ReqInv(p)'
  BY <1>2, KnownKept, ReqKept DEF ProcInv
<1>6. TxInv(p)'
  BY <1>2, <1>4 DEF ProcInv, TxInv
<1>7. DoneInv(p)'
  BY <1>2, <1>4 DEF ProcInv, DoneInv, Delivered, Committed
<1>8. HandInv(p)'
  <2>1. req[p].goal[f] \in Nat /\ req[p].goal[f] <= Len(log[f])
    BY <1>2, <1>3 DEF ProcInv, ReqInv, TypeOK, Req
  <2>2. Len(log[f]) \in Nat /\ DOMAIN log[f] = 1..Len(log[f]) /\ mtime[f] \in Nat
    BY <1>3, LogTypes
  <2>3. \A i \in 1..req[p].goal[f] : log[f][i] <= mtime[f]
    BY <1>3, <2>1, <2>2 DEF LogsInv
  <2>4. QED
    BY <1>2, <1>3, <1>4, <2>2, <2>3 DEF HandInv
<1>9. QED
  BY <1>5, <1>6, <1>7, <1>8 DEF ProcInv

(* A read covers all that p's window shows: nothing is cut off, and p's    *)
(* lower bound is no later than the current one.                           *)
LEMMA ReadCovers ==
    ASSUME TypeOK, Benign, LogsInv, NEW p \in Procs, ReqInv(p), pc[p] = "read",
           NEW sure \in BOOLEAN, NEW T
    PROVE  Covers(file[p], log[file[p]], now,
                  T \cup {<<i, MaybeUnknown(file[p], req[p], i) => sure>> :
                            i \in ParsedRecords(file[p], req[p])},
                  TheWindow, stat[p])
<1> DEFINE f == file[p]
           mark(i) == MaybeUnknown(f, req[p], i) => sure
           read == {<<i, mark(i)>> : i \in ParsedRecords(f, req[p])}
<1> SUFFICES ASSUME NEW i \in DOMAIN log[f], InWindow(TheWindow, now, log[f][i])
             PROVE  Stored(f, log[f], T \cup read, i)
  BY DEF Covers
<1>1. f \in Files /\ req[p].win = TheWindow
  BY DEF TypeOK, ReqInv
<1>2. /\ Len(log[f]) \in Nat /\ DOMAIN log[f] = 1..Len(log[f])
      /\ log[f][i] \in 1..MaxTime /\ Len(log[f]) <= MaxRecords
  BY <1>1, LogTypes DEF LogsInv
<1>3. FirstRead(f, req[p].win) = 1
  <2>1. TheWindow.all \/ ~(Len(log[f]) > TailRecords)
    BY <1>2, ConstantsAssumption DEF Benign
  <2>2. QED
    BY <1>1, <2>1 DEF FirstRead
<1>4. req[p].lo <= log[f][i] /\ log[f][i] < req[p].hi
  <2>1. req[p].lo \in Int /\ Lo(TheWindow, now) \in Int
    BY OpenEnd, WindowTypes DEF TypeOK, Req
  <2>2. req[p].lo <= Lo(TheWindow, now) /\ req[p].hi = MaxTime + 1
    BY DEF ReqInv, Forever
  <2>3. QED
    BY <1>2, <2>1, <2>2, ConstantsAssumption DEF InWindow
<1>5. i \in InBounds(f, 1, req[p])
  BY <1>2, <1>4 DEF InBounds
<1>6. i \in ParsedRecords(f, req[p])
  BY <1>3, <1>5 DEF ParsedRecords
<1>7. mark(i) \in BOOLEAN
  OBVIOUS
<1>8. <<i, mark(i)>> \in T \cup read
  BY <1>6
<1> HIDE DEF read, mark
<1>9. QED
  BY <1>8 DEF Stored

LEMMA ReadInv ==
    ASSUME TypeOK, TypeOK', Benign, Grows, LogsInv, NEW p \in Procs, ProcInv(p), ReadFile(p)
    PROVE  ProcInv(p)'
<1>1. PICK sure \in BOOLEAN :
        batch' = [batch EXCEPT ![p] =
                    {<<i, MaybeUnknown(file[p], req[p], i) => sure>> :
                       i \in ParsedRecords(file[p], req[p])}]
  BY DEF ReadFile
<1>2. /\ pc[p] = "read" /\ pc'[p] = "insert" /\ req' = req /\ UNCHANGED files
      /\ calls' = calls /\ known' = known /\ rows' = rows /\ marks' = marks
      /\ todo' = todo /\ open' = open /\ file' = file /\ stat' = stat
  BY DEF ReadFile, tables, tx, Goto, TypeOK
<1>3. log' = log /\ now' = now /\ mtime' = mtime
  BY <1>2 DEF files
<1>4. KnownInv(p)' /\ TxInv(p)' /\ ReqInv(p)'
  BY <1>2, KnownKept, TxKept, ReqKept DEF ProcInv
<1>5. DoneInv(p)'
  BY <1>2, <1>3 DEF ProcInv, DoneInv, Delivered, Committed
<1>6. HandInv(p)'
  <2> DEFINE T == calls[file[p]] \cup rows[p][file[p]]
             read == {<<i, MaybeUnknown(file[p], req[p], i) => sure>> :
                        i \in ParsedRecords(file[p], req[p])}
  <2>1. Covers(file[p], log[file[p]], now, T \cup read, TheWindow, stat[p])
    BY <1>2, ReadCovers DEF ProcInv
  <2>2. batch'[p] = read
    BY <1>1 DEF TypeOK
  <2>3. /\ open[p] /\ stat[p] <= mtime[file[p]]
        /\ \A i \in 1..req[p].goal[file[p]] : log[file[p]][i] <= stat[p]
    BY <1>2 DEF ProcInv, HandInv
  <2> HIDE DEF read
  <2>4. QED
    BY <1>2, <1>3, <2>1, <2>2, <2>3 DEF HandInv
<1>7. QED
  BY <1>4, <1>5, <1>6 DEF ProcInv

(* With benign faults a process never gives up a write. *)
LEMMA NobodyGivesUp ==
    ASSUME Benign, NEW p \in Procs
    PROVE  ~GivesUp(p) /\ ~ReadFails(p)
BY DEF Benign, GivesUp, ReadFails, Fault

LEMMA InsertInv ==
    ASSUME TypeOK, TypeOK', Benign, Grows, NEW p \in Procs, ProcInv(p), InsertRecord(p)
    PROVE  ProcInv(p)'
<1>1. PICK row \in batch[p] :
        /\ batch' = [batch EXCEPT ![p] = @ \ {row}]
        /\ rows' = [rows EXCEPT ![p][file[p]] = @ \cup {row}]
  BY NobodyGivesUp DEF InsertRecord
<1>2. /\ pc[p] = "insert" /\ pc' = pc /\ req' = req /\ UNCHANGED files
      /\ calls' = calls /\ known' = known /\ marks' = marks
      /\ todo' = todo /\ open' = open /\ file' = file /\ stat' = stat
  BY DEF InsertRecord, tables
<1>3. log' = log /\ now' = now /\ mtime' = mtime
  BY <1>2 DEF files
<1>4. /\ file[p] \in Files /\ rows \in [Procs -> [Files -> SUBSET Row]]
      /\ batch \in [Procs -> SUBSET Row]
  BY <1>2 DEF TypeOK
<1>5. /\ batch'[p] = batch[p] \ {row}
      /\ rows'[p][file[p]] = rows[p][file[p]] \cup {row}
      /\ \A f \in Files : rows[p][f] \subseteq rows'[p][f]
  BY <1>1, <1>4
<1>6. KnownInv(p)' /\ ReqInv(p)'
  BY <1>2, KnownKept, ReqKept DEF ProcInv
<1>7. open[p]
  BY <1>2 DEF ProcInv, HandInv
<1>8. TxInv(p)'
  <2>1. ASSUME NEW f \in Files
        PROVE  /\ marks[p][f] <= mtime[f]
               /\ Covers(f, log[f], now, calls[f] \cup rows'[p][f], TheWindow, marks[p][f])
    <3>1. /\ marks[p][f] <= mtime[f]
          /\ Covers(f, log[f], now, calls[f] \cup rows[p][f], TheWindow, marks[p][f])
      BY DEF ProcInv, TxInv
    <3>2. calls[f] \cup rows[p][f] \subseteq calls[f] \cup rows'[p][f]
      BY <1>5
    <3>3. QED
      BY <3>1, <3>2 DEF Covers, Stored
  <2>2. QED
    BY <1>2, <1>3, <1>7, <2>1 DEF TxInv
<1>9. DoneInv(p)'
  <2>1. ASSUME NEW f \in Files \ todo[p]
        PROVE  Delivered(p, f, calls[f] \cup rows'[p][f])
    <3>1. Delivered(p, f, calls[f] \cup rows[p][f])
      BY <1>2 DEF ProcInv, DoneInv, Committed
    <3>2. calls[f] \cup rows[p][f] \subseteq calls[f] \cup rows'[p][f]
      BY <1>5
    <3>3. QED
      BY <3>1, <3>2 DEF Delivered, Stored
  <2>2. QED
    BY <1>2, <1>3, <2>1 DEF DoneInv, Delivered, Committed
<1>10. HandInv(p)'
  <2>1. calls[file[p]] \cup rows'[p][file[p]] \cup batch'[p]
          = calls[file[p]] \cup rows[p][file[p]] \cup batch[p]
    BY <1>1, <1>5
  <2>2. QED
    BY <1>2, <1>3, <2>1 DEF ProcInv, HandInv
<1>11. QED
  BY <1>6, <1>8, <1>9, <1>10 DEF ProcInv

LEMMA MarkInv ==
    ASSUME TypeOK, TypeOK', Benign, Grows, NEW p \in Procs, ProcInv(p), MarkLogParsed(p)
    PROVE  ProcInv(p)'
<1> DEFINE g == file[p]
<1>1. /\ batch[p] = {}
      /\ marks' = [marks EXCEPT ![p][g] = stat[p]]
  BY NobodyGivesUp DEF MarkLogParsed
<1>2. /\ pc[p] = "insert" /\ pc'[p] = "scan" /\ req' = req /\ UNCHANGED files
      /\ calls' = calls /\ known' = known /\ rows' = rows /\ open' = open
      /\ todo'[p] = todo[p] \ {g}
  BY DEF MarkLogParsed, tables, Goto, TypeOK
<1>3. log' = log /\ now' = now /\ mtime' = mtime
  BY <1>2 DEF files
<1>4. g \in Files /\ marks \in [Procs -> [Files -> Nat]]
  BY <1>2 DEF TypeOK
<1>5. /\ marks'[p][g] = stat[p]
      /\ \A f \in Files : f # g => marks'[p][f] = marks[p][f]
  BY <1>1, <1>4
<1>6. KnownInv(p)' /\ ReqInv(p)'
  BY <1>2, KnownKept, ReqKept DEF ProcInv
<1>7. Covers(g, log[g], now, calls[g] \cup rows[p][g], TheWindow, stat[p])
  BY <1>1, <1>2 DEF ProcInv, HandInv
<1>8. /\ open[p] /\ stat[p] <= mtime[g]
      /\ \A i \in 1..req[p].goal[g] : log[g][i] <= stat[p]
  BY <1>2 DEF ProcInv, HandInv
<1>9. TxInv(p)'
  <2>1. ASSUME NEW f \in Files
        PROVE  /\ marks'[p][f] <= mtime[f]
               /\ Covers(f, log[f], now, calls[f] \cup rows[p][f], TheWindow, marks'[p][f])
    <3>1. CASE f = g
      BY <1>5, <1>7, <1>8, <3>1
    <3>2. CASE f # g
      BY <1>5, <3>2 DEF ProcInv, TxInv
    <3>3. QED
      BY <3>1, <3>2
  <2>2. QED
    BY <1>2, <1>3, <1>8, <2>1 DEF TxInv
<1>10. Delivered(p, g, calls[g] \cup rows[p][g])
  <2>1. req[p].goal[g] \in Nat /\ req[p].goal[g] <= Len(log[g])
    BY <1>2, <1>4 DEF ProcInv, ReqInv, TypeOK, Req
  <2>2. Len(log[g]) \in Nat /\ DOMAIN log[g] = 1..Len(log[g])
    BY <1>4, LogTypes
  <2>3. 1..req[p].goal[g] \subseteq DOMAIN log[g]
    BY <2>1, <2>2
  <2>4. QED
    BY <1>7, <1>8, <2>3 DEF Delivered, Covers
<1>11. DoneInv(p)'
  <2>1. \A f \in Files \ todo'[p] : Delivered(p, f, calls[f] \cup rows[p][f])
    BY <1>2, <1>10 DEF ProcInv, DoneInv, Committed
  <2>2. QED
    BY <1>2, <1>3, <2>1 DEF DoneInv, Delivered, Committed
<1>12. HandInv(p)'
  BY <1>2 DEF HandInv
<1>13. QED
  BY <1>6, <1>9, <1>11, <1>12 DEF ProcInv

LEMMA EndScanInv ==
    ASSUME TypeOK, TypeOK', Benign, Grows, NEW p \in Procs, ProcInv(p), EndScan(p)
    PROVE  ProcInv(p)'
<1>1. /\ pc[p] = "scan" /\ todo[p] = {} /\ todo' = todo /\ req' = req /\ UNCHANGED files
      /\ pc'[p] = IF open[p] THEN "commit" ELSE "cleanup"
      /\ calls' = calls /\ known' = known /\ rows' = rows /\ open' = open /\ marks' = marks
  BY DEF EndScan, tables, tx, Goto, TypeOK
<1>2. log' = log /\ now' = now
  BY <1>1 DEF files
<1>3. KnownInv(p)' /\ TxInv(p)' /\ ReqInv(p)'
  BY <1>1, KnownKept, TxKept, ReqKept DEF ProcInv
<1>4. DoneInv(p)'
  <2>1. ASSUME NEW f \in Files PROVE Delivered(p, f, calls[f] \cup rows[p][f])
    BY <1>1 DEF ProcInv, DoneInv, Committed
  <2>2. CASE open[p]
    BY <1>1, <1>2, <2>1, <2>2 DEF DoneInv, Delivered, Committed
  <2>3. CASE ~open[p]
    <3>1. \A f \in Files : rows[p][f] = {}
      BY <2>3 DEF ProcInv, TxInv, NoRows
    <3>2. \A f \in Files : calls[f] \cup rows[p][f] = calls[f]
      BY <3>1
    <3>3. \A f \in Files : Delivered(p, f, calls[f])
      BY <2>1, <3>2
    <3>4. QED
      BY <1>1, <1>2, <2>3, <3>3 DEF DoneInv, Delivered, Committed
  <2>4. open[p] \in BOOLEAN
    BY DEF TypeOK
  <2>5. QED
    BY <2>2, <2>3, <2>4
<1>5. HandInv(p)'
  BY <1>1 DEF HandInv
<1>6. QED
  BY <1>3, <1>4, <1>5 DEF ProcInv

(* Everything scanned is in api_calls when the rows are committed. *)
LEMMA CommitInv ==
    ASSUME TypeOK, TypeOK', Benign, Grows, NEW p \in Procs, ProcInv(p), Commit(p)
    PROVE  ProcInv(p)'
<1>1. /\ pc[p] = "commit" /\ pc'[p] = "workspaces" /\ req' = req /\ UNCHANGED files
      /\ calls' = [f \in Files |-> calls[f] \cup rows[p][f]] /\ known' = known
  BY DEF Commit, Goto, TypeOK
<1>2. /\ open'[p] = FALSE /\ rows'[p] = NoRows /\ marks'[p] = NoMarks
  BY DEF Commit, EndTx, TypeOK
<1>3. log' = log /\ now' = now
  BY <1>1 DEF files
<1>4. KnownInv(p)' /\ ReqInv(p)'
  BY <1>1, KnownKept, ReqKept DEF ProcInv
<1>5. TxInv(p)'
  <2>1. \A f \in Files : mtime'[f] \in Nat /\ marks'[p][f] = 0
    BY <1>2 DEF TypeOK, NoMarks
  <2>2. QED
    BY <1>2, <2>1, CoversNothingNext DEF TxInv
<1>6. DoneInv(p)'
  <2>1. todo[p] = {}
    BY <1>1 DEF ProcInv, DoneInv
  <2>2. \A f \in Files : Delivered(p, f, calls[f] \cup rows[p][f])
    BY <1>1, <2>1 DEF ProcInv, DoneInv, Committed
  <2>3. \A f \in Files : Delivered(p, f, calls'[f])
    BY <1>1, <2>2
  <2>4. QED
    BY <1>1, <1>3, <2>3 DEF DoneInv, Delivered, Committed
<1>7. HandInv(p)'
  BY <1>1 DEF HandInv
<1>8. QED
  BY <1>4, <1>5, <1>6, <1>7 DEF ProcInv

LEMMA WorkspacesInv ==
    ASSUME TypeOK, TypeOK', Benign, Grows, NEW p \in Procs, ProcInv(p), UpsertWorkspaces(p)
    PROVE  ProcInv(p)'
<1>1. /\ pc[p] = "workspaces" /\ pc'[p] = "cleanup" /\ req' = req /\ UNCHANGED files
      /\ calls' = calls /\ known' = known /\ rows' = rows /\ open' = open /\ marks' = marks
  BY DEF UpsertWorkspaces, tx, Goto, TypeOK
<1>2. log' = log /\ now' = now
  BY <1>1 DEF files
<1>3. KnownInv(p)' /\ TxInv(p)' /\ ReqInv(p)'
  BY <1>1, KnownKept, TxKept, ReqKept DEF ProcInv
<1>4. DoneInv(p)'
  BY <1>1, <1>2 DEF ProcInv, DoneInv, Delivered, Committed
<1>5. HandInv(p)'
  BY <1>1 DEF HandInv
<1>6. QED
  BY <1>3, <1>4, <1>5 DEF ProcInv

LEMMA CleanupInv ==
    ASSUME TypeOK, TypeOK', Benign, Grows, NEW p \in Procs, ProcInv(p),
           CleanupUnknownDuplicates(p)
    PROVE  ProcInv(p)'
<1>1. /\ pc[p] = "cleanup" /\ pc'[p] = "mend" /\ req' = req /\ UNCHANGED files
      /\ known' = known /\ rows' = rows /\ open' = open /\ marks' = marks
  BY DEF CleanupUnknownDuplicates, tx, Goto, TypeOK
<1>2. log' = log /\ now' = now
  BY <1>1 DEF files
<1>3. KnownInv(p)' /\ TxInv(p)' /\ ReqInv(p)'
  BY <1>1, KnownKept, TxKept, ReqKept DEF ProcInv
<1>4. DoneInv(p)'
  <2>1. ASSUME NEW f \in Files PROVE Delivered(p, f, calls[f])
    BY <1>1 DEF ProcInv, DoneInv, Committed
  <2>2. ASSUME NEW f \in Files, NEW i \in 1..req[p].goal[f],
               InWindow(TheWindow, now, log[f][i])
        PROVE  Stored(f, log[f], calls'[f], i)
    <3>1. i \in Nat
      OBVIOUS
    <3>2. Stored(f, log[f], calls[f], i)
      BY <2>1, <2>2 DEF Delivered
    <3>3. QED
      BY <1>2, <3>1, <3>2 DEF Grows
  <2>3. QED
    BY <1>1, <1>2, <2>2 DEF DoneInv, Delivered, Committed
<1>5. HandInv(p)'
  BY <1>1 DEF HandInv
<1>6. QED
  BY <1>3, <1>4, <1>5 DEF ProcInv

(* Every step of a process keeps its part of the invariant. *)
LEMMA OwnStep ==
    ASSUME TypeOK, TypeOK', Benign, Grows, LogsInv, TableInv, NEW p \in Procs, ProcInv(p),
           Start(p) \/ SyncStep(p) \/ FaultStep(p)
    PROVE  ProcInv(p)'
<1>1. CASE CleanupCorruptedTokens(p) \/ BeginFails(p) \/ CommitFails(p) \/ Crash(p)
  <2>1. Leave(p)
    BY <1>1 DEF CleanupCorruptedTokens, BeginFails, CommitFails, Crash
  <2>2. QED
    BY <2>1, LeftInv
<1>2. QED
  BY <1>1, NobodyGivesUp, StartInv, LoadInv, SkipInv, TakeInv, ReadInv, InsertInv, MarkInv,
     EndScanInv, CommitInv, WorkspacesInv, CleanupInv DEF SyncStep, FaultStep

LEMMA LeaveAlone ==
    ASSUME TypeOK, NEW p \in Procs, NEW q \in Procs, q # p, Leave(p)
    PROVE  SameLocals(q)
BY DEF Leave, PutDown, EndTx, Goto, SameLocals, TypeOK

(* ... and leaves the others' variables alone. *)
LEMMA OthersAlone ==
    ASSUME TypeOK, NEW p \in Procs, NEW q \in Procs, q # p,
           Start(p) \/ SyncStep(p) \/ FaultStep(p)
    PROVE  SameLocals(q)
<1> USE DEF TypeOK, SameLocals, Goto, cur, tx
<1>1. CASE Start(p)
  BY <1>1 DEF Start
<1>2. CASE DeleteParsedLogs(p) \/ ParsedMtimeByFile(p) \/ EndScan(p) \/ UpsertWorkspaces(p)
           \/ CleanupUnknownDuplicates(p)
  BY <1>2 DEF DeleteParsedLogs, ParsedMtimeByFile, EndScan, UpsertWorkspaces,
     CleanupUnknownDuplicates
<1>3. CASE SkipFile(p) \/ TakeFile(p)
  BY <1>3 DEF SkipFile, TakeFile
<1>4. CASE ReadFile(p)
  BY <1>4 DEF ReadFile
<1>5. CASE InsertRecord(p)
  BY <1>5 DEF InsertRecord
<1>6. CASE MarkLogParsed(p)
  BY <1>6 DEF MarkLogParsed, PutDown
<1>7. CASE Commit(p)
  BY <1>7 DEF Commit, EndTx
<1>8. CASE ReadFails(p)
  BY <1>8 DEF ReadFails
<1>9. CASE CleanupCorruptedTokens(p) \/ BeginFails(p) \/ CommitFails(p) \/ Crash(p)
  BY <1>9, LeaveAlone DEF CleanupCorruptedTokens, BeginFails, CommitFails, Crash
<1>10. QED
  BY <1>1, <1>2, <1>3, <1>4, <1>5, <1>6, <1>7, <1>8, <1>9 DEF SyncStep, FaultStep
-----------------------------------------------------------------------------
(* The invariant *)

(* Marks reach parsed_logs together with the rows that keep their promise. *)
LEMMA CommitTable ==
    ASSUME TypeOK, NEW p \in Procs, TableInv, TxInv(p), Commit(p)
    PROVE  TableInv'
<1>1. /\ UNCHANGED files
      /\ calls' = [f \in Files |-> calls[f] \cup rows[p][f]]
      /\ parsed' = [f \in Files |-> IF marks[p][f] # 0 THEN marks[p][f] ELSE parsed[f]]
  BY DEF Commit
<1>2. log' = log /\ now' = now /\ mtime' = mtime
  BY <1>1 DEF files
<1>3. ASSUME NEW f \in Files
      PROVE  /\ parsed'[f] <= mtime[f]
             /\ Covers(f, log[f], now, calls'[f], TheWindow, parsed'[f])
  <2>1. calls'[f] = calls[f] \cup rows[p][f]
    BY <1>1
  <2>2. CASE marks[p][f] # 0
    BY <1>1, <2>1, <2>2 DEF TxInv
  <2>3. CASE marks[p][f] = 0
    <3>1. parsed'[f] = parsed[f]
      BY <1>1, <2>3
    <3>2. parsed[f] <= mtime[f] /\ Covers(f, log[f], now, calls[f], TheWindow, parsed[f])
      BY DEF TableInv
    <3>3. Covers(f, log[f], now, calls'[f], TheWindow, parsed[f])
      BY <2>1, <3>2 DEF Covers, Stored
    <3>4. QED
      BY <3>1, <3>2, <3>3
  <2>4. QED
    BY <2>2, <2>3
<1>4. QED
  BY <1>2, <1>3 DEF TableInv

LEMMA TableStep ==
    ASSUME TypeOK, TypeOK', Benign, Grows, SyncInv, [Next]_vars
    PROVE  TableInv'
<1>1. TableInv
  BY DEF SyncInv
<1>2. ASSUME NEW p \in Procs, Commit(p) PROVE TableInv'
  BY <1>1, <1>2, CommitTable DEF SyncInv
<1>3. ASSUME NEW p \in Procs, DeleteParsedLogs(p) PROVE TableInv'
  <2>1. parsed' = NoMarks
    BY <1>3, NobodyGivesUp DEF DeleteParsedLogs
  <2>2. \A f \in Files : parsed'[f] = 0 /\ mtime'[f] \in Nat
    BY <2>1 DEF NoMarks, TypeOK
  <2>3. QED
    BY <2>2, CoversNothingNext DEF TableInv
<1>4. CASE parsed' = parsed
  BY <1>1, <1>4, TableKept
<1>5. CASE \E f \in Files : AppendRecord(f) \/ AppendOther(f)
  BY <1>4, <1>5 DEF AppendRecord, AppendOther, tables
<1>6. ASSUME NEW p \in Procs, Start(p) \/ FaultStep(p) PROVE TableInv'
  BY <1>4, <1>6 DEF Start, FaultStep, BeginFails, ReadFails, CommitFails, Crash, tables
<1>7. ASSUME NEW p \in Procs, SyncStep(p), ~Commit(p), ~DeleteParsedLogs(p) PROVE TableInv'
  BY <1>4, <1>7 DEF SyncStep, ParsedMtimeByFile, SkipFile, TakeFile, ReadFile, InsertRecord,
     MarkLogParsed, EndScan, UpsertWorkspaces, CleanupUnknownDuplicates,
     CleanupCorruptedTokens, tables
<1>8. CASE UNCHANGED vars
  BY <1>4, <1>8 DEF vars
<1>9. QED
  BY <1>2, <1>3, <1>5, <1>6, <1>7, <1>8 DEF Next

LEMMA EnvironmentAlone ==
    ASSUME (\E f \in Files : AppendRecord(f) \/ AppendOther(f)) \/ UNCHANGED vars,
           NEW q \in Procs
    PROVE  SameLocals(q)
BY DEF AppendRecord, AppendOther, vars, cur, tx, SameLocals

LEMMA SyncInvInit == Init => SyncInv
<1> SUFFICES ASSUME Init PROVE SyncInv
  OBVIOUS
<1>1. TypeOK
  BY InitType
<1>2. \A f \in Files : log[f] = <<>> /\ mtime[f] = 0 /\ parsed[f] = 0
  BY DEF Init, NoMarks
<1>3. \A f \in Files : Len(log[f]) = 0 /\ DOMAIN log[f] = {}
  BY <1>2
<1>4. LogsInv
  BY <1>2, <1>3, ConstantsAssumption DEF LogsInv, Init
<1>5. \A f \in Files : \A R : Covers(f, log[f], now, R, TheWindow, 0)
  BY <1>3 DEF Covers
<1>6. TableInv
  BY <1>2, <1>5 DEF TableInv
<1>7. ASSUME NEW p \in Procs
      PROVE  KnownInv(p) /\ TxInv(p) /\ ReqInv(p) /\ DoneInv(p) /\ HandInv(p)
  <2>1. /\ pc[p] = "idle" /\ rows[p] = NoRows
        /\ \A f \in Files : known[p][f] = 0 /\ marks[p][f] = 0
    BY DEF Init, NoMarks
  <2>2. ASSUME NEW f \in Files
        PROVE  /\ known[p][f] <= mtime[f] /\ marks[p][f] <= mtime[f]
               /\ Covers(f, log[f], now, calls[f], TheWindow, known[p][f])
               /\ Covers(f, log[f], now, calls[f] \cup rows[p][f], TheWindow, marks[p][f])
    <3>1. known[p][f] = 0 /\ marks[p][f] = 0 /\ mtime[f] = 0
      BY <1>2, <2>1
    <3>2. Covers(f, log[f], now, calls[f], TheWindow, 0)
      BY <1>5
    <3>3. Covers(f, log[f], now, calls[f] \cup rows[p][f], TheWindow, 0)
      BY <1>5
    <3>4. QED
      BY <3>1, <3>2, <3>3
  <2>3. ReqInv(p) /\ DoneInv(p) /\ HandInv(p)
    BY <2>1 DEF ReqInv, DoneInv, HandInv, Committed
  <2>4. KnownInv(p) /\ TxInv(p)
    BY <2>1, <2>2 DEF KnownInv, TxInv
  <2>5. QED
    BY <2>3, <2>4
<1>8. QED
  BY <1>4, <1>6, <1>7 DEF SyncInv

LEMMA SyncInvStep ==
    ASSUME TypeOK, TypeOK', Benign, SyncInv, [Next]_vars
    PROVE  SyncInv'
<1>1. Grows /\ LogsInv'
  BY StepGrows DEF SyncInv
<1>2. TableInv'
  BY <1>1, TableStep
<1>3. LogsInv /\ TableInv /\ \A q \in Procs : ProcInv(q)
  BY DEF SyncInv, ProcInv
<1>4. ASSUME NEW q \in Procs PROVE ProcInv(q)'
  <2>1. ASSUME NEW p \in Procs, Start(p) \/ SyncStep(p) \/ FaultStep(p)
        PROVE  ProcInv(q)'
    <3>1. CASE p = q
      BY <1>1, <1>3, <2>1, <3>1, OwnStep
    <3>2. CASE p # q
      <4>1. SameLocals(q)
        BY <2>1, <3>2, OthersAlone
      <4>2. QED
        BY <1>1, <1>3, <4>1, ProcKept
    <3>3. QED
      BY <3>1, <3>2
  <2>2. CASE (\E f \in Files : AppendRecord(f) \/ AppendOther(f)) \/ UNCHANGED vars
    <3>1. SameLocals(q)
      BY <2>2, EnvironmentAlone
    <3>2. QED
      BY <1>1, <1>3, <3>1, ProcKept
  <2>3. QED
    BY <2>1, <2>2 DEF Next
<1>5. QED
  BY <1>1, <1>2, <1>4 DEF SyncInv, ProcInv

(* With one window that reaches today, whole-file reads, and neither lost  *)
(* writes, failed reads nor two writes in one tick, every mark a process   *)
(* holds, has in its transaction or finds in parsed_logs covers the        *)
(* records up to it - crashes, failed transactions, forced re-parses and   *)
(* any number of concurrent syncs included.                                *)
THEOREM MarksAreHonest == ASSUME Benign PROVE Spec => []SyncInv
<1>1. Init => TypeOK /\ SyncInv
  BY InitType, SyncInvInit
<1>2. TypeOK /\ SyncInv /\ [Next]_vars => (TypeOK /\ SyncInv)'
  BY StepType, SyncInvStep
<1>3. QED
  BY <1>1, <1>2, PTL DEF Spec

LEMMA SkippedFromInv ==
    ASSUME TypeOK, Benign, SyncInv
    PROVE  SkippedFilesAreStored
<1> SUFFICES ASSUME NEW f \in Files, NEW w \in Windows, parsed[f] = mtime[f]
             PROVE  Covers(f, log[f], now, calls[f], w, mtime[f])
  BY DEF SkippedFilesAreStored
<1>1. w = TheWindow
  BY DEF Benign
<1>2. QED
  BY <1>1 DEF SyncInv, TableInv

(* A file the next sync will skip has all its reportable records in        *)
(* api_calls.                                                              *)
THEOREM SkippedIsStored == ASSUME Benign PROVE Spec => []SkippedFilesAreStored
<1>1. TypeOK /\ SyncInv => SkippedFilesAreStored
  BY SkippedFromInv
<1>2. QED
  BY <1>1, TypeCorrect, MarksAreHonest, PTL

LEMMA CoversFromInv ==
    ASSUME SyncInv
    PROVE  SyncCoversWindow
<1> SUFFICES ASSUME NEW p \in Procs, pc[p] \in Committed, NEW f \in Files,
                    NEW i \in 1..req[p].goal[f], InWindow(req[p].win, now, log[f][i])
             PROVE  Stored(f, log[f], calls[f], i)
  BY DEF SyncCoversWindow
<1>1. req[p].win = TheWindow
  BY DEF SyncInv, ReqInv, Committed
<1>2. Delivered(p, f, calls[f])
  BY DEF SyncInv, DoneInv
<1>3. QED
  BY <1>1, <1>2 DEF Delivered

(* A committed sync can report every record of its window that was in the  *)
(* logs when it started.                                                   *)
THEOREM SyncIsComplete == ASSUME Benign PROVE Spec => []SyncCoversWindow
<1>1. SyncInv => SyncCoversWindow
  BY CoversFromInv
<1>2. QED
  BY <1>1, MarksAreHonest, PTL
-----------------------------------------------------------------------------
(* Calls are kept *)

(* A log has at most MaxRecords records, and none before it exists. *)
LogsFit ==
    \A f \in Files : Len(log[f]) <= MaxRecords /\ (mtime[f] = 0 => Len(log[f]) = 0)

(* A log is only appended to. *)
Extends == \A f \in Files : \A i \in 1..Len(log[f]) : log'[f][i] = log[f][i]

LEMMA LogsExtend ==
    ASSUME TypeOK, LogsFit, [Next]_vars
    PROVE  Extends /\ (\A f \in Files : Len(log[f]) <= Len(log'[f])) /\ LogsFit'
<1>1. ASSUME NEW g \in Files, AppendRecord(g)
      PROVE  Extends /\ (\A f \in Files : Len(log[f]) <= Len(log'[f])) /\ LogsFit'
  <2>1. PICK t \in NextTicks : /\ Len(log[g]) < MaxRecords
                               /\ log' = [log EXCEPT ![g] = Append(@, t)]
                               /\ mtime' = [mtime EXCEPT ![g] = t]
    BY <1>1 DEF AppendRecord
  <2>2. t \in 1..MaxTime
    BY NextTicksType
  <2>3. ASSUME NEW f \in Files, f # g
        PROVE  log'[f] = log[f] /\ mtime'[f] = mtime[f]
    BY <2>1, <2>3 DEF TypeOK
  <2>4. log[g] \in Seq(1..MaxTime) /\ log'[g] = Append(log[g], t) /\ mtime'[g] = t
    BY <2>1 DEF TypeOK
  <2>5. /\ Len(log'[g]) = Len(log[g]) + 1
        /\ \A i \in 1..Len(log[g]) : log'[g][i] = log[g][i]
    BY <2>2, <2>4
  <2>6. Len(log[g]) \in Nat /\ \A f \in Files : Len(log[f]) \in Nat
    BY LogTypes
  <2>7. Extends
    BY <2>3, <2>5 DEF Extends
  <2>8. \A f \in Files : Len(log[f]) <= Len(log'[f])
    BY <2>3, <2>5, <2>6
  <2>9. LogsFit'
    BY <2>1, <2>2, <2>3, <2>4, <2>5, <2>6, ConstantsAssumption DEF LogsFit
  <2>10. QED
    BY <2>7, <2>8, <2>9
<1>2. ASSUME NEW g \in Files, AppendOther(g)
      PROVE  log' = log /\ \A f \in Files : mtime'[f] = 0 => mtime[f] = 0
  <2>1. PICK t \in NextTicks : mtime' = [mtime EXCEPT ![g] = t]
    BY <1>2 DEF AppendOther
  <2>2. QED
    BY <1>2, <2>1, NextTicksType DEF AppendOther, TypeOK
<1>3. ASSUME NEW p \in Procs, Start(p) \/ SyncStep(p) \/ FaultStep(p)
      PROVE  log' = log /\ mtime' = mtime
  BY <1>3 DEF SyncStep, FaultStep, Start, DeleteParsedLogs, ParsedMtimeByFile, SkipFile,
       TakeFile, ReadFile, InsertRecord, MarkLogParsed, EndScan, Commit, UpsertWorkspaces,
       CleanupUnknownDuplicates, CleanupCorruptedTokens, BeginFails, ReadFails, CommitFails,
       Crash, files
<1>4. UNCHANGED vars => log' = log /\ mtime' = mtime
  BY DEF vars
<1>5. ASSUME log' = log, \A f \in Files : mtime'[f] = 0 => mtime[f] = 0
      PROVE  Extends /\ (\A f \in Files : Len(log[f]) <= Len(log'[f])) /\ LogsFit'
  BY <1>5, LogTypes DEF Extends, LogsFit
<1>6. QED
  BY <1>1, <1>2, <1>3, <1>4, <1>5 DEF Next

LEMMA LogsFitInit == Init => LogsFit
BY ConstantsAssumption DEF Init, LogsFit

LEMMA LogsFitAlways == Spec => [](TypeOK /\ LogsFit)
<1>1. TypeOK /\ LogsFit /\ [Next]_vars => LogsFit'
  BY LogsExtend
<1>2. QED
  BY <1>1, LogsFitInit, TypeCorrect, PTL DEF Spec

LEMMA LongerLogs ==
    ASSUME TypeOK, TypeOK', LogsFit, [Next]_vars, NEW f \in Files
    PROVE  Longer(log[f], log'[f])
<1>1. log[f] \in Seq(1..MaxTime) /\ log'[f] \in Seq(1..MaxTime)
  BY DEF TypeOK
<1>2. Len(log[f]) <= Len(log'[f]) /\ \A i \in 1..Len(log[f]) : log'[f][i] = log[f][i]
  BY LogsExtend DEF Extends
<1>3. QED
  BY <1>1, <1>2 DEF Longer

LEMMA StepKeepsCalls ==
    ASSUME TypeOK, TypeOK', LogsFit, [Next]_vars, NEW f \in Files, NEW i \in Nat,
           Stored(f, log[f], calls[f], i)
    PROVE  Stored(f, log'[f], calls'[f], i)
<1>1. ASSUME NEW p \in Procs, Commit(p) PROVE calls[f] \subseteq calls'[f]
  BY <1>1 DEF Commit
<1>2. ASSUME NEW p \in Procs, CleanupUnknownDuplicates(p)
      PROVE  Stored(f, log'[f], calls'[f], i)
  BY <1>2, CleanupKeeps DEF CleanupUnknownDuplicates, files
<1>3. ASSUME NEW p \in Procs, CleanupCorruptedTokens(p)
      PROVE  Stored(f, log'[f], calls'[f], i)
  BY <1>3, MendingKeeps DEF CleanupCorruptedTokens, files, LogsFit
<1>4. ASSUME NEW p \in Procs, Start(p) \/ FaultStep(p) PROVE calls' = calls
  BY <1>4 DEF Start, FaultStep, BeginFails, ReadFails, CommitFails, Crash, tables
<1>5. ASSUME NEW p \in Procs, SyncStep(p), ~Commit(p), ~CleanupUnknownDuplicates(p),
             ~CleanupCorruptedTokens(p)
      PROVE  calls' = calls
  BY <1>5 DEF SyncStep, DeleteParsedLogs, ParsedMtimeByFile, SkipFile, TakeFile, ReadFile,
     InsertRecord, MarkLogParsed, EndScan, UpsertWorkspaces, tables
<1>6. ASSUME NEW g \in Files, AppendRecord(g) \/ AppendOther(g) PROVE calls' = calls
  BY <1>6 DEF AppendRecord, AppendOther, tables
<1>7. UNCHANGED vars => calls' = calls
  BY DEF vars
<1>8. calls[f] \subseteq calls'[f] => Stored(f, log'[f], calls'[f], i)
  BY LongerLogs, StoredGrows
<1>9. QED
  BY <1>1, <1>2, <1>3, <1>4, <1>5, <1>6, <1>7, <1>8 DEF Next

(* No sync, forced re-parse, clean-up, failure or crash takes a record out *)
(* of api_calls, whatever the constants, unless a row stays there that the *)
(* record passes for a misreading of.                                      *)
THEOREM CallsStay == Spec => CallsAreKept
<1>1. TypeOK /\ TypeOK' /\ LogsFit /\ [Next]_vars =>
         [\A f \in Files : \A i \in DOMAIN log[f] :
             Stored(f, log[f], calls[f], i) => Stored(f, log[f], calls[f], i)']_vars
  <2> SUFFICES ASSUME TypeOK, TypeOK', LogsFit, [Next]_vars, NEW f \in Files,
                      NEW i \in DOMAIN log[f], Stored(f, log[f], calls[f], i)
               PROVE  Stored(f, log'[f], calls'[f], i)
    OBVIOUS
  <2>1. i \in Nat
    BY LogTypes
  <2>2. QED
    BY <2>1, StepKeepsCalls
<1>2. QED
  BY <1>1, LogsFitAlways, PTL DEF Spec, CallsAreKept
-----------------------------------------------------------------------------
(* Twins *)

Cleaning == {"workspaces", "cleanup"}

(* The property, for every index there is. *)
TwinInv ==
    \A f \in Files : \A i \in Nat :
        Twin(f, i) => faults > 0 \/ \E p \in Procs : pc[p] \in Cleaning

LEMMA TwinInvInit == Init => TwinInv
BY DEF Init, TwinInv, Twin, NoRows

(* A step that leaves api_calls alone, and nobody's clean-up behind.       *)
LEMMA TwinInvFrame ==
    ASSUME TwinInv, UNCHANGED <<calls, faults>>,
           \A q \in Procs : pc[q] \in Cleaning => pc'[q] \in Cleaning
    PROVE  TwinInv'
BY DEF TwinInv, Twin

LEMMA TwinInvStep ==
    ASSUME "busy" \notin Faults
    PROVE  TypeOK /\ TwinInv /\ [Next]_vars => TwinInv'
<1> SUFFICES ASSUME TypeOK, TwinInv, [Next]_vars PROVE TwinInv'
  OBVIOUS
<1>1. ASSUME NEW f \in Files, AppendRecord(f) \/ AppendOther(f) PROVE TwinInv'
  BY <1>1, TwinInvFrame DEF AppendRecord, AppendOther, tables
<1>2. ASSUME NEW p \in Procs,
             \/ Start(p) \/ DeleteParsedLogs(p) \/ ParsedMtimeByFile(p) \/ SkipFile(p)
             \/ TakeFile(p) \/ ReadFile(p) \/ InsertRecord(p) \/ MarkLogParsed(p)
             \/ EndScan(p)
      PROVE  TwinInv'
  <2>1. UNCHANGED <<calls, faults>> /\ pc[p] \notin Cleaning
    BY <1>2 DEF Cleaning, Start, DeleteParsedLogs, ParsedMtimeByFile, SkipFile, TakeFile,
       ReadFile, InsertRecord, MarkLogParsed, EndScan, tables
  <2>2. QED
    BY <1>2, <2>1, OthersAlone, TwinInvFrame DEF SyncStep, SameLocals
<1>3. ASSUME NEW p \in Procs, Commit(p) PROVE TwinInv'
  <2>1. pc'[p] \in Cleaning
    BY <1>3 DEF Commit, Goto, TypeOK, Cleaning
  <2>2. QED
    BY <2>1 DEF TwinInv
<1>4. ASSUME NEW p \in Procs, UpsertWorkspaces(p) PROVE TwinInv'
  <2>1. UNCHANGED <<calls, faults>> /\ pc'[p] \in Cleaning
    BY <1>4 DEF UpsertWorkspaces, Goto, TypeOK, Cleaning
  <2>2. QED
    BY <1>4, <2>1, OthersAlone, TwinInvFrame DEF SyncStep, SameLocals
<1>5. ASSUME NEW p \in Procs, CleanupUnknownDuplicates(p) PROVE TwinInv'
  <2>1. calls' = [f \in Files |-> {row \in calls[f] : ~Superseded(f, row)}]
    BY <1>5 DEF CleanupUnknownDuplicates, GivesUp
  <2>2. ASSUME NEW f \in Files, NEW i \in Nat, <<i, FALSE>> \in calls'[f]
        PROVE  <<i, TRUE>> \notin calls'[f]
    BY <2>1, <2>2 DEF Superseded
  <2>3. QED
    BY <2>2 DEF TwinInv, Twin
<1>6. ASSUME NEW p \in Procs, CleanupCorruptedTokens(p) PROVE TwinInv'
  <2>1. faults' = faults /\ pc[p] \notin Cleaning /\ \A f \in Files : calls'[f] \subseteq calls[f]
    BY <1>6 DEF CleanupCorruptedTokens, Cleaning
  <2>2. \A q \in Procs : pc[q] \in Cleaning => pc'[q] \in Cleaning
    BY <1>6, <2>1, OthersAlone DEF SyncStep, SameLocals
  <2>3. QED
    BY <2>1, <2>2 DEF TwinInv, Twin
<1>7. ASSUME NEW p \in Procs, FaultStep(p) PROVE TwinInv'
  <2>1. faults' > 0
    BY <1>7 DEF FaultStep, BeginFails, ReadFails, CommitFails, Crash, Fault, TypeOK
  <2>2. QED
    BY <2>1 DEF TwinInv
<1>8. UNCHANGED vars => TwinInv'
  BY TwinInvFrame DEF vars
<1>9. QED
  BY <1>1, <1>2, <1>3, <1>4, <1>5, <1>7, <1>8, <1>6 DEF Next, SyncStep

(* Where no write is given up, a call is counted twice only until the sync *)
(* that has committed runs its clean-up.                                   *)
THEOREM TwinsAreCleanedUp ==
    ASSUME "busy" \notin Faults PROVE Spec => []TwinsAreTransient
<1>1. TypeOK /\ TwinInv => TwinsAreTransient
  BY LogTypes DEF TwinInv, TwinsAreTransient, Cleaning
<1>2. QED
  BY <1>1, TwinInvInit, TwinInvStep, TypeCorrect, PTL DEF Spec

-----------------------------------------------------------------------------
(* Workspaces *)

(* A log that is marked, waits to be scanned or is in hand does exist.     *)
MarkedBy(p) ==
    /\ \A f \in Files : marks[p][f] # 0 => f \in Existing
    /\ todo[p] \subseteq Existing
    /\ pc[p] \in {"read", "insert"} => file[p] \in Existing

MarkedExist ==
    /\ \A f \in Files : parsed[f] # 0 => f \in Existing
    /\ \A p \in Procs : MarkedBy(p)

LEMMA MarkedExistInit == Init => MarkedExist
BY DEF Init, MarkedExist, MarkedBy, NoMarks

LEMMA ExistingGrows ==
    ASSUME TypeOK, [Next]_vars
    PROVE  Existing \subseteq Existing'
<1>1. ASSUME NEW g \in Files, AppendRecord(g) \/ AppendOther(g)
      PROVE  \A f \in Files : mtime[f] # 0 => mtime'[f] # 0
  <2>1. PICK t \in NextTicks : mtime' = [mtime EXCEPT ![g] = t]
    BY <1>1 DEF AppendRecord, AppendOther
  <2>2. t # 0
    BY NextTicksType
  <2>3. QED
    BY <2>1, <2>2 DEF TypeOK
<1>2. ASSUME NEW p \in Procs, Start(p) \/ SyncStep(p) \/ FaultStep(p) PROVE mtime' = mtime
  BY <1>2 DEF SyncStep, FaultStep, Start, DeleteParsedLogs, ParsedMtimeByFile, SkipFile,
       TakeFile, ReadFile, InsertRecord, MarkLogParsed, EndScan, Commit, UpsertWorkspaces,
       CleanupUnknownDuplicates, CleanupCorruptedTokens, BeginFails, ReadFails, CommitFails,
       Crash, files
<1>3. UNCHANGED vars => mtime' = mtime
  BY DEF vars
<1>4. QED
  BY <1>1, <1>2, <1>3 DEF Next, Existing

LEMMA MarkedByStep ==
    ASSUME TypeOK, [Next]_vars, NEW p \in Procs, MarkedBy(p),
           Start(p) \/ SyncStep(p) \/ FaultStep(p)
    PROVE  MarkedBy(p)'
<1> USE ExistingGrows
<1>1. CASE Start(p)
  <2>1. todo'[p] = Existing /\ marks' = marks /\ pc'[p] \in {"delete", "load"}
    BY <1>1 DEF Start, TypeOK, tx, Goto
  <2>2. QED
    BY <2>1 DEF MarkedBy
<1>2. CASE DeleteParsedLogs(p) \/ ParsedMtimeByFile(p) \/ UpsertWorkspaces(p) \/ EndScan(p)
           \/ CleanupUnknownDuplicates(p)
  <2>1. todo' = todo /\ marks' = marks /\ pc'[p] \notin {"read", "insert"}
    BY <1>2 DEF DeleteParsedLogs, ParsedMtimeByFile, UpsertWorkspaces, EndScan,
       CleanupUnknownDuplicates, TypeOK, tx, Goto
  <2>2. QED
    BY <2>1 DEF MarkedBy
<1>3. CASE SkipFile(p)
  <2>1. todo'[p] \subseteq todo[p] /\ marks' = marks /\ pc' = pc /\ pc[p] = "scan"
    BY <1>3 DEF SkipFile, TypeOK, tx
  <2>2. QED
    BY <2>1 DEF MarkedBy
<1>4. CASE TakeFile(p)
  <2>1. todo' = todo /\ marks' = marks /\ file'[p] \in todo[p]
    BY <1>4 DEF TakeFile, TypeOK
  <2>2. QED
    BY <2>1 DEF MarkedBy
<1>5. CASE ReadFile(p) \/ ReadFails(p)
  <2>1. todo' = todo /\ marks' = marks /\ file' = file /\ pc[p] = "read"
    BY <1>5 DEF ReadFile, ReadFails, tx, cur
  <2>2. QED
    BY <2>1 DEF MarkedBy
<1>6. CASE InsertRecord(p)
  <2>1. todo' = todo /\ marks' = marks /\ file' = file /\ pc' = pc
    BY <1>6 DEF InsertRecord
  <2>2. QED
    BY <2>1 DEF MarkedBy
<1>7. CASE MarkLogParsed(p)
  <2>1. /\ todo'[p] \subseteq todo[p] /\ pc'[p] = "scan" /\ pc[p] = "insert"
        /\ \A f \in Files : marks'[p][f] # 0 => marks[p][f] # 0 \/ f = file[p]
    BY <1>7 DEF MarkLogParsed, TypeOK, Goto
  <2>2. QED
    BY <2>1 DEF MarkedBy
<1>8. CASE Commit(p)
  <2>1. todo' = todo /\ marks'[p] = NoMarks /\ pc'[p] = "workspaces"
    BY <1>8 DEF Commit, EndTx, Goto, TypeOK
  <2>2. QED
    BY <2>1 DEF MarkedBy, NoMarks
<1>9. CASE CleanupCorruptedTokens(p) \/ BeginFails(p) \/ CommitFails(p) \/ Crash(p)
  <2>1. todo'[p] = {} /\ marks'[p] = NoMarks /\ pc'[p] = "idle"
    BY <1>9 DEF CleanupCorruptedTokens, BeginFails, CommitFails, Crash, Leave, EndTx, Goto, TypeOK
  <2>2. QED
    BY <2>1 DEF MarkedBy, NoMarks
<1>10. QED
  BY <1>1, <1>2, <1>3, <1>4, <1>5, <1>6, <1>7, <1>8, <1>9 DEF SyncStep, FaultStep

LEMMA MarkedExistStep == TypeOK /\ MarkedExist /\ [Next]_vars => MarkedExist'
<1> SUFFICES ASSUME TypeOK, MarkedExist, [Next]_vars PROVE MarkedExist'
  OBVIOUS
<1>1. ASSUME NEW f \in Files, parsed'[f] # 0 PROVE f \in Existing'
  <2>1. parsed[f] # 0 \/ \E p \in Procs : marks[p][f] # 0
    BY <1>1 DEF Next, vars, SyncStep, FaultStep, AppendRecord, AppendOther, Start,
       DeleteParsedLogs, ParsedMtimeByFile, SkipFile, TakeFile, ReadFile, InsertRecord,
       MarkLogParsed, EndScan, Commit, UpsertWorkspaces, CleanupUnknownDuplicates,
       CleanupCorruptedTokens, BeginFails, ReadFails, CommitFails, Crash, tables, NoMarks
  <2>2. QED
    BY <2>1, ExistingGrows DEF MarkedExist, MarkedBy
<1>2. ASSUME NEW q \in Procs PROVE MarkedBy(q)'
  <2>1. MarkedBy(q)
    BY DEF MarkedExist
  <2>2. CASE SameLocals(q)
    BY <2>1, <2>2, ExistingGrows DEF SameLocals, MarkedBy
  <2>3. CASE Start(q) \/ SyncStep(q) \/ FaultStep(q)
    BY <2>1, <2>3, MarkedByStep
  <2>4. QED
    BY <2>2, <2>3, OthersAlone, EnvironmentAlone DEF Next
<1>3. QED
  BY <1>1, <1>2 DEF MarkedExist

LEMMA WorkspacesInit == Init => ParsedLogsHaveWorkspaces
BY DEF Init, ParsedLogsHaveWorkspaces, NoMarks

LEMMA WorkspacesFrame ==
    ASSUME ParsedLogsHaveWorkspaces, UNCHANGED <<spaces, faults>>,
           \A f \in Files : parsed'[f] # 0 => parsed[f] # 0,
           \A q \in Procs : pc[q] = "workspaces" => pc'[q] = "workspaces"
    PROVE  ParsedLogsHaveWorkspaces'
BY DEF ParsedLogsHaveWorkspaces

LEMMA WorkspacesStep ==
    ASSUME "busy" \notin Faults
    PROVE  TypeOK /\ MarkedExist /\ ParsedLogsHaveWorkspaces /\ [Next]_vars
              => ParsedLogsHaveWorkspaces'
<1> SUFFICES ASSUME TypeOK, MarkedExist, ParsedLogsHaveWorkspaces, [Next]_vars
             PROVE  ParsedLogsHaveWorkspaces'
  OBVIOUS
<1>1. ASSUME NEW f \in Files, AppendRecord(f) \/ AppendOther(f)
      PROVE  ParsedLogsHaveWorkspaces'
  BY <1>1, WorkspacesFrame DEF AppendRecord, AppendOther, tables
<1>2. ASSUME NEW p \in Procs,
             \/ Start(p) \/ DeleteParsedLogs(p) \/ ParsedMtimeByFile(p) \/ SkipFile(p)
             \/ TakeFile(p) \/ ReadFile(p) \/ InsertRecord(p) \/ MarkLogParsed(p)
             \/ EndScan(p) \/ CleanupUnknownDuplicates(p) \/ CleanupCorruptedTokens(p)
      PROVE  ParsedLogsHaveWorkspaces'
  <2>1. UNCHANGED <<spaces, faults>> /\ pc[p] # "workspaces"
    BY <1>2 DEF Start, DeleteParsedLogs, ParsedMtimeByFile, SkipFile, TakeFile,
       ReadFile, InsertRecord, MarkLogParsed, EndScan, CleanupUnknownDuplicates,
       CleanupCorruptedTokens, tables
  <2>2. \A f \in Files : parsed'[f] # 0 => parsed[f] # 0
    BY <1>2 DEF Start, DeleteParsedLogs, ParsedMtimeByFile, SkipFile, TakeFile,
       ReadFile, InsertRecord, MarkLogParsed, EndScan, CleanupUnknownDuplicates,
       CleanupCorruptedTokens, tables, NoMarks
  <2>3. \A q \in Procs \ {p} : pc'[q] = pc[q]
    BY <1>2, OthersAlone DEF SyncStep, SameLocals
  <2>4. QED
    BY <2>1, <2>2, <2>3, WorkspacesFrame
<1>3. ASSUME NEW p \in Procs, Commit(p) PROVE ParsedLogsHaveWorkspaces'
  <2>1. pc'[p] = "workspaces"
    BY <1>3 DEF Commit, Goto, TypeOK
  <2>2. QED
    BY <2>1 DEF ParsedLogsHaveWorkspaces
<1>4. ASSUME NEW p \in Procs, UpsertWorkspaces(p) PROVE ParsedLogsHaveWorkspaces'
  <2>1. spaces' = spaces \cup Existing /\ parsed' = parsed
    BY <1>4 DEF UpsertWorkspaces, GivesUp
  <2>2. QED
    BY <2>1 DEF ParsedLogsHaveWorkspaces, MarkedExist
<1>5. ASSUME NEW p \in Procs, FaultStep(p) PROVE ParsedLogsHaveWorkspaces'
  <2>1. faults' > 0
    BY <1>5 DEF FaultStep, BeginFails, ReadFails, CommitFails, Crash, Fault, TypeOK
  <2>2. QED
    BY <2>1 DEF ParsedLogsHaveWorkspaces
<1>6. UNCHANGED vars => ParsedLogsHaveWorkspaces'
  BY WorkspacesFrame DEF vars
<1>7. QED
  BY <1>1, <1>2, <1>3, <1>4, <1>5, <1>6 DEF Next, SyncStep

(* A log that will be skipped has its session's workspace, unless a sync   *)
(* is about to record it or one died before it could.                      *)
THEOREM WorkspacesAreRecorded ==
    ASSUME "busy" \notin Faults PROVE Spec => []ParsedLogsHaveWorkspaces
BY TypeCorrect, MarkedExistInit, MarkedExistStep, WorkspacesInit, WorkspacesStep, PTL DEF Spec

-----------------------------------------------------------------------------
(* A forced sync *)

(* No read is cut to the tail of a log, and none fails; no write is given  *)
(* up.                                                                     *)
Untruncated ==
    /\ \A w \in Windows : w.all \/ MaxRecords <= TailRecords
    /\ Faults \cap {"read", "busy"} = {}

(* The records of f within the bounds of r that were there at the start.   *)
Fetched(r, f, stamps, table) ==
    \A i \in 1..r.goal[f] : r.lo <= stamps[i] /\ stamps[i] < r.hi => Stored(f, stamps, table, i)

(* What a forced sync has been through is stored, or about to be with its  *)
(* transaction.                                                            *)
ForcedProc(p) ==
    /\ ~open[p] => rows[p] = NoRows
    /\ pc[p] \in {"read", "insert"} => open[p]
    /\ pc[p] # "idle" =>
          /\ req[p].win \in Windows
          /\ \A f \in Files : req[p].goal[f] <= Len(log[f])
    /\ req[p].force /\ pc[p] \notin Committed \cup {"idle"} =>
          \A f \in Files \ todo[p] : Fetched(req[p], f, log[f], calls[f] \cup rows[p][f])
    /\ pc[p] = "insert" =>
          Fetched(req[p], file[p], log[file[p]],
                  calls[file[p]] \cup rows[p][file[p]] \cup batch[p])
    /\ pc[p] = "commit" => todo[p] = {}
    /\ req[p].force /\ pc[p] \in Committed =>
          \A f \in Files : Fetched(req[p], f, log[f], calls[f])

ForcedInv == LogsFit /\ \A p \in Procs : ForcedProc(p)

LEMMA ForcedInvInit == Init => ForcedInv
BY ConstantsAssumption DEF Init, ForcedInv, LogsFit, ForcedProc, NoMarks, IdleReq, Committed

LEMMA FetchedGrows ==
    ASSUME NEW r, NEW f, NEW L, NEW M, NEW R, NEW S, r.goal[f] \in Nat,
           \A i \in 1..r.goal[f] : M[i] = L[i],
           \A i \in Nat : Stored(f, L, R, i) => Stored(f, M, S, i),
           Fetched(r, f, L, R)
    PROVE  Fetched(r, f, M, S)
BY DEF Fetched

LEMMA RequestTypes ==
    ASSUME TypeOK, NEW q \in Procs, NEW f \in Files
    PROVE  req[q].goal[f] \in Nat
<1>1. req[q] \in Req
  BY DEF TypeOK
<1>2. req[q].goal \in [Files -> Nat]
  BY <1>1 DEF Req
<1>3. QED
  BY <1>2

(* Another process's step, or a write to a log, takes nothing away.        *)
LEMMA ForcedKept ==
    ASSUME TypeOK, TypeOK', LogsFit, [Next]_vars, NEW q \in Procs, ForcedProc(q),
           SameLocals(q)
    PROVE  ForcedProc(q)'
<1>1. Extends /\ \A f \in Files : Len(log[f]) <= Len(log'[f])
  BY LogsExtend
<1>2. \A f \in Files : \A i \in Nat : Stored(f, log[f], calls[f], i) =>
        Stored(f, log'[f], calls'[f], i)
  BY StepKeepsCalls
<1>3. \A f \in Files : Len(log[f]) \in Nat /\ Len(log'[f]) \in Nat /\ req[q].goal[f] \in Nat
  <2>1. ASSUME NEW f \in Files PROVE Len(log[f]) \in Nat /\ Len(log'[f]) \in Nat
    <3>1. log[f] \in Seq(1..MaxTime) /\ log'[f] \in Seq(1..MaxTime)
      BY DEF TypeOK
    <3>2. QED
      BY <3>1
  <2>2. QED
    BY <2>1, RequestTypes
<1>4. pc[q] # "idle" =>
          /\ req[q].win \in Windows
          /\ \A f \in Files : req[q].goal[f] <= Len(log[f])
  BY DEF ForcedProc
<1>5. ASSUME pc[q] # "idle", NEW f \in Files, NEW R, NEW S,
             \A i \in Nat : Stored(f, log[f], R, i) =>
                     Stored(f, log'[f], S, i), Fetched(req[q], f, log[f], R)
      PROVE  Fetched(req[q], f, log'[f], S)
  <2>1. \A i \in 1..req[q].goal[f] : log'[f][i] = log[f][i]
    BY <1>1, <1>3, <1>4, <1>5 DEF Extends
  <2>2. QED
    BY <1>3, <1>5, <2>1, FetchedGrows
<1>6. pc[q] # "idle" => \A f \in Files : req[q].goal[f] <= Len(log'[f])
  BY <1>1, <1>3, <1>4
<1>7. ASSUME NEW f \in Files, NEW T, NEW i \in Nat
       PROVE  Stored(f, log[f], calls[f] \cup T, i) => Stored(f, log'[f], calls'[f] \cup T, i)
  <2> DEFINE L == log[f]
             M == log'[f]
             R == calls[f]
             S == calls'[f]
  <2>1. Longer(L, M) /\ (Stored(f, L, R, i) => Stored(f, M, S, i))
    BY <1>2, LongerLogs
  <2> HIDE DEF L, M, R, S
  <2>2. Stored(f, L, R \cup T, i) => Stored(f, M, S \cup T, i)
    BY <2>1, StoredInUnion
  <2>3. QED
    BY <2>2 DEF L, M, R, S
<1>8. ASSUME req[q].force, pc[q] \notin Committed \cup {"idle"}, NEW f \in Files \ todo[q]
      PROVE  Fetched(req[q], f, log'[f], calls'[f] \cup rows[q][f])
  <2>1. Fetched(req[q], f, log[f], calls[f] \cup rows[q][f])
    BY <1>8 DEF ForcedProc
  <2>2. \A i \in Nat : Stored(f, log[f], calls[f] \cup rows[q][f], i)
                          => Stored(f, log'[f], calls'[f] \cup rows[q][f], i)
    BY <1>2, <1>8, <1>7
  <2>3. QED
    BY <1>5, <1>8, <2>1, <2>2
<1>9. ASSUME pc[q] = "insert"
      PROVE  Fetched(req[q], file[q], log'[file[q]],
                     calls'[file[q]] \cup rows[q][file[q]] \cup batch[q])
  <2> DEFINE f == file[q]
  <2>1. Fetched(req[q], f, log[f], calls[f] \cup rows[q][f] \cup batch[q])
    BY <1>9 DEF ForcedProc
  <2>2. f \in Files
    BY <1>9 DEF TypeOK
  <2>3. \A i \in Nat : Stored(f, log[f], calls[f] \cup rows[q][f] \cup batch[q], i)
                          => Stored(f, log'[f], calls'[f] \cup rows[q][f] \cup batch[q], i)
    <3> DEFINE T == rows[q][f] \cup batch[q]
    <3>1. /\ calls[f] \cup rows[q][f] \cup batch[q] = calls[f] \cup T
          /\ calls'[f] \cup rows[q][f] \cup batch[q] = calls'[f] \cup T
      OBVIOUS
    <3> HIDE DEF T, f
    <3>2. \A i \in Nat : Stored(f, log[f], calls[f] \cup T, i)
                            => Stored(f, log'[f], calls'[f] \cup T, i)
      BY <1>7, <2>2
    <3>3. QED
      BY <3>1, <3>2
  <2>4. QED
    BY <1>5, <1>9, <2>1, <2>2, <2>3
<1>10. ASSUME req[q].force, pc[q] \in Committed, NEW f \in Files
      PROVE  Fetched(req[q], f, log'[f], calls'[f])
  BY <1>2, <1>5, <1>10 DEF ForcedProc, Committed
<1>11. QED
  BY <1>4, <1>6, <1>8, <1>9, <1>10 DEF ForcedProc, SameLocals

(* What a sync reads of a log is all of it that its bounds ask for. *)
LEMMA ReadFetches ==
    ASSUME Untruncated, TypeOK, LogsFit, NEW p \in Procs, ForcedProc(p), pc[p] = "read",
           NEW sure \in BOOLEAN, NEW R
    PROVE  Fetched(req[p], file[p], log[file[p]],
                   R \cup {<<i, MaybeUnknown(file[p], req[p], i) => sure>> :
                              i \in ParsedRecords(file[p], req[p])})
<1> DEFINE f == file[p]
           mark(i) == MaybeUnknown(f, req[p], i) => sure
           read == {<<i, mark(i)>> : i \in ParsedRecords(f, req[p])}
<1>1. f \in Files
  BY DEF TypeOK
<1>2. /\ req[p].win \in Windows /\ req[p].goal[f] \in Nat
      /\ req[p].goal[f] <= Len(log[f]) /\ Len(log[f]) \in Nat /\ Len(log[f]) <= MaxRecords
  BY <1>1, RequestTypes, LogTypes DEF ForcedProc, LogsFit
<1>3. FirstRead(f, req[p].win) = 1
  BY <1>2, ConstantsAssumption DEF FirstRead, Untruncated
<1>4. ParsedRecords(f, req[p]) = InBounds(f, 1, req[p])
  BY <1>3 DEF ParsedRecords
<1>5. ASSUME NEW i \in 1..req[p].goal[f],
             req[p].lo <= log[f][i], log[f][i] < req[p].hi
      PROVE  Stored(f, log[f], R \cup read, i)
  <2>1. i \in ParsedRecords(f, req[p])
    BY <1>2, <1>4, <1>5 DEF InBounds
  <2>2. <<i, mark(i)>> \in read
    BY <2>1
  <2>3. mark(i) \in BOOLEAN
    OBVIOUS
  <2> HIDE DEF read, mark
  <2>4. QED
    BY <2>2, <2>3 DEF Stored
<1>6. QED
  BY <1>5 DEF Fetched

(* Every step of a process keeps its part of the invariant. *)
LEMMA ForcedOwn ==
    ASSUME Untruncated, TypeOK, TypeOK', LogsFit, [Next]_vars,
           NEW p \in Procs, ForcedProc(p), Start(p) \/ SyncStep(p) \/ FaultStep(p)
    PROVE  ForcedProc(p)'
<1>1. CASE Start(p)
  <2>1. PICK w \in Windows, force \in Forces :
          /\ req' = [req EXCEPT ![p] =
                       [win |-> w, force |-> force,
                        lo |-> Lo(w, now), hi |-> Hi(w, now),
                        goal |-> [f \in Files |-> Len(log[f])]]]
          /\ Goto(p, IF force THEN "delete" ELSE "load")
    BY <1>1 DEF Start
  <2>2. /\ pc'[p] \in {"delete", "load"} /\ todo'[p] = Existing
        /\ log' = log /\ calls' = calls /\ rows' = rows /\ open' = open
    BY <1>1, <2>1 DEF Start, files, tables, tx, Goto, TypeOK
  <2>3. req'[p].win \in Windows /\ \A f \in Files : req'[p].goal[f] = Len(log[f])
    BY <2>1 DEF TypeOK
  <2>4. ASSUME NEW f \in Files \ Existing
        PROVE  Fetched(req'[p], f, log[f], calls[f] \cup rows[p][f])
    BY <2>3 DEF Existing, LogsFit, Fetched
  <2>5. \A f \in Files : Len(log[f]) <= Len(log[f])
    BY LogTypes
  <2>6. QED
    BY <2>2, <2>3, <2>4, <2>5 DEF ForcedProc, Committed
<1>2. CASE DeleteParsedLogs(p) \/ ParsedMtimeByFile(p)
  <2>1. /\ pc[p] \in {"delete", "load"} /\ pc'[p] = "scan"
        /\ log' = log /\ calls' = calls /\ rows' = rows /\ open' = open
        /\ req' = req /\ todo' = todo
    BY <1>2 DEF DeleteParsedLogs, ParsedMtimeByFile, files, tables, tx, Goto, TypeOK
  <2>2. QED
    BY <2>1 DEF ForcedProc, Committed
<1>3. CASE SkipFile(p)
  <2>1. /\ pc[p] = "scan" /\ pc' = pc /\ ~req[p].force
        /\ log' = log /\ calls' = calls /\ rows' = rows /\ open' = open /\ req' = req
    BY <1>3 DEF SkipFile, Skips, files, tables, tx
  <2>2. QED
    BY <2>1 DEF ForcedProc, Committed
<1>4. CASE TakeFile(p)
  <2>1. /\ pc[p] = "scan" /\ pc'[p] = "read" /\ open'[p]
        /\ log' = log /\ calls' = calls /\ rows' = rows /\ req' = req /\ todo' = todo
    BY <1>4 DEF TakeFile, files, tables, Goto, TypeOK
  <2>2. QED
    BY <2>1 DEF ForcedProc, Committed
<1>5. CASE ReadFile(p)
  <2>1. PICK sure \in BOOLEAN :
          batch' = [batch EXCEPT ![p] =
                      {<<i, MaybeUnknown(file[p], req[p], i) => sure>> :
                         i \in ParsedRecords(file[p], req[p])}]
    BY <1>5 DEF ReadFile
  <2>2. /\ pc[p] = "read" /\ pc'[p] = "insert" /\ file' = file
        /\ log' = log /\ calls' = calls /\ rows' = rows /\ open' = open
        /\ req' = req /\ todo' = todo
    BY <1>5 DEF ReadFile, files, tables, tx, Goto, TypeOK
  <2>3. batch'[p] = {<<i, MaybeUnknown(file[p], req[p], i) => sure>> :
                       i \in ParsedRecords(file[p], req[p])}
    BY <2>1 DEF TypeOK
  <2>4. Fetched(req[p], file[p], log[file[p]],
                calls[file[p]] \cup rows[p][file[p]] \cup batch'[p])
    BY <2>2, <2>3, ReadFetches
  <2>5. QED
    BY <2>2, <2>4 DEF ForcedProc, Committed
<1>6. CASE InsertRecord(p)
  <2>1. PICK row \in batch[p] :
          /\ batch' = [batch EXCEPT ![p] = @ \ {row}]
          /\ rows' = [rows EXCEPT ![p][file[p]] = @ \cup {row}]
    BY <1>6 DEF InsertRecord, GivesUp, Untruncated
  <2>2. /\ pc[p] = "insert" /\ pc' = pc /\ file' = file
        /\ log' = log /\ calls' = calls /\ open' = open /\ req' = req /\ todo' = todo
    BY <1>6 DEF InsertRecord, files, tables
  <2>3. file[p] \in Files /\ rows \in [Procs -> [Files -> SUBSET Row]]
    BY <2>2 DEF TypeOK
  <2>4. /\ rows'[p][file[p]] \cup batch'[p] = rows[p][file[p]] \cup batch[p]
        /\ \A f \in Files : rows[p][f] \subseteq rows'[p][f]
    <3>1. /\ batch'[p] = batch[p] \ {row}
          /\ rows'[p][file[p]] = rows[p][file[p]] \cup {row}
          /\ \A f \in Files : rows[p][f] \subseteq rows'[p][f]
      BY <2>1, <2>3 DEF TypeOK
    <3>2. QED
      BY <2>1, <3>1
  <2>5. calls[file[p]] \cup rows'[p][file[p]] \cup batch'[p]
          = calls[file[p]] \cup rows[p][file[p]] \cup batch[p]
    BY <2>4
  <2>6. ASSUME NEW f \in Files, Fetched(req[p], f, log[f], calls[f] \cup rows[p][f])
        PROVE  Fetched(req[p], f, log[f], calls[f] \cup rows'[p][f])
    BY <2>4, <2>6 DEF Fetched, Stored
  <2>7. QED
    BY <2>2, <2>5, <2>6 DEF ForcedProc, Committed
<1>7. CASE MarkLogParsed(p)
  <2>1. /\ pc[p] = "insert" /\ pc'[p] = "scan" /\ batch[p] = {}
        /\ log' = log /\ calls' = calls /\ rows' = rows /\ open' = open
        /\ req' = req /\ todo'[p] = todo[p] \ {file[p]}
    BY <1>7 DEF MarkLogParsed, files, tables, Goto, TypeOK
  <2>2. Fetched(req[p], file[p], log[file[p]], calls[file[p]] \cup rows[p][file[p]])
    <3>1. calls[file[p]] \cup rows[p][file[p]] \cup batch[p]
            = calls[file[p]] \cup rows[p][file[p]]
      BY <2>1
    <3>2. QED
      BY <2>1, <3>1 DEF ForcedProc
  <2>3. QED
    BY <2>1, <2>2 DEF ForcedProc, Committed
<1>8. CASE EndScan(p)
  <2>1. /\ pc[p] = "scan" /\ todo[p] = {}
        /\ pc'[p] = IF open[p] THEN "commit" ELSE "cleanup"
        /\ log' = log /\ calls' = calls /\ rows' = rows /\ open' = open
        /\ req' = req /\ todo' = todo
    BY <1>8 DEF EndScan, files, tables, tx, Goto, TypeOK
  <2>2. ASSUME req[p].force, ~open[p], NEW f \in Files
        PROVE  Fetched(req[p], f, log[f], calls[f])
    <3>1. Fetched(req[p], f, log[f], calls[f] \cup rows[p][f])
      BY <2>1, <2>2 DEF ForcedProc, Committed
    <3>2. calls[f] \cup rows[p][f] = calls[f]
      BY <2>2 DEF ForcedProc, NoRows
    <3>3. QED
      BY <3>1, <3>2
  <2>3. QED
    BY <2>1, <2>2 DEF ForcedProc, Committed
<1>9. CASE Commit(p)
  <2>1. /\ pc[p] = "commit" /\ pc'[p] = "workspaces" /\ rows'[p] = NoRows
        /\ log' = log /\ req' = req
        /\ \A f \in Files : calls'[f] = calls[f] \cup rows[p][f]
    BY <1>9 DEF Commit, EndTx, files, Goto, TypeOK
  <2>2. QED
    BY <2>1 DEF ForcedProc, Committed
<1>10. CASE UpsertWorkspaces(p)
  <2>1. /\ pc[p] = "workspaces" /\ pc'[p] = "cleanup"
        /\ log' = log /\ calls' = calls /\ rows' = rows /\ open' = open /\ req' = req
    BY <1>10 DEF UpsertWorkspaces, files, tx, Goto, TypeOK
  <2>2. QED
    BY <2>1 DEF ForcedProc, Committed
<1>11. CASE CleanupCorruptedTokens(p) \/ BeginFails(p) \/ CommitFails(p) \/ Crash(p)
  <2>1. pc'[p] = "idle" /\ rows'[p] = NoRows
    BY <1>11 DEF CleanupCorruptedTokens, BeginFails, CommitFails, Crash, Leave, EndTx,
       Goto, TypeOK
  <2>2. QED
    BY <2>1 DEF ForcedProc, Committed
<1>12. CASE ReadFails(p)
  BY <1>12 DEF ReadFails, Fault, Untruncated
<1>13. CASE CleanupUnknownDuplicates(p)
  <2>1. /\ pc[p] = "cleanup" /\ pc'[p] = "mend"
        /\ log' = log /\ rows' = rows /\ open' = open /\ req' = req
    BY <1>13 DEF CleanupUnknownDuplicates, files, tx, Goto, TypeOK
  <2>2. ASSUME req[p].force, NEW f \in Files PROVE Fetched(req[p], f, log[f], calls'[f])
    <3>1. Fetched(req[p], f, log[f], calls[f])
      BY <2>1, <2>2 DEF ForcedProc, Committed
    <3>2. \A i \in Nat : Stored(f, log[f], calls[f], i) => Stored(f, log[f], calls'[f], i)
      BY <2>1, StepKeepsCalls
    <3>3. \A i \in 1..req[p].goal[f] : i \in Nat
      OBVIOUS
    <3>4. QED
      BY <3>1, <3>2, <3>3 DEF Fetched
  <2>3. QED
    BY <2>1, <2>2 DEF ForcedProc, Committed
<1>14. QED
  BY <1>1, <1>2, <1>3, <1>4, <1>5, <1>6, <1>7, <1>8, <1>9, <1>10, <1>11, <1>12, <1>13
     DEF SyncStep, FaultStep

LEMMA ForcedInvStep ==
    ASSUME Untruncated
    PROVE  TypeOK /\ TypeOK' /\ ForcedInv /\ [Next]_vars => ForcedInv'
<1> SUFFICES ASSUME TypeOK, TypeOK', ForcedInv, [Next]_vars PROVE ForcedInv'
  OBVIOUS
<1>1. LogsFit'
  BY LogsExtend DEF ForcedInv
<1>2. ASSUME NEW q \in Procs PROVE ForcedProc(q)'
  <2>1. CASE SameLocals(q)
    BY <2>1, ForcedKept DEF ForcedInv
  <2>2. CASE Start(q) \/ SyncStep(q) \/ FaultStep(q)
    BY <2>2, ForcedOwn DEF ForcedInv
  <2>3. QED
    BY <2>1, <2>2, OthersAlone, EnvironmentAlone DEF Next
<1>3. QED
  BY <1>1, <1>2 DEF ForcedInv

(* A committed --sync has stored every record of its bounds that was in    *)
(* the logs when it started, whatever was skipped, marked or deleted       *)
(* meanwhile, and whoever crashed.                                         *)
THEOREM ForcedSyncIsComplete ==
    ASSUME Untruncated PROVE Spec => []ForcedSyncStoresEverything
<1>1. ForcedInv => ForcedSyncStoresEverything
  BY DEF ForcedInv, ForcedProc, Fetched, ForcedSyncStoresEverything
<1>2. QED
  BY <1>1, ForcedInvInit, ForcedInvStep, TypeCorrect, PTL DEF Spec

-----------------------------------------------------------------------------
(* LogSync implements Ledger: no call is invented *)

Indices(table) == {row[1] : row \in table}

BatchIsLogged(p) ==
    /\ pc[p] = "insert" => Indices(batch[p]) \subseteq DOMAIN log[file[p]]
    /\ pc[p] # "insert" => batch[p] = {}

(* Every row, wherever it is on its way to the database, is of a record of *)
(* its log.                                                                *)
OnlyLogged ==
    /\ \A f \in Files : Indices(calls[f]) \subseteq DOMAIN log[f]
    /\ \A p \in Procs, f \in Files : Indices(rows[p][f]) \subseteq DOMAIN log[f]
    /\ \A p \in Procs : BatchIsLogged(p)

LEMMA OnlyLoggedInit == Init => OnlyLogged
BY DEF Init, OnlyLogged, BatchIsLogged, Indices, NoRows

(* What was read of a log is a record of it. *)
LEMMA ReadIsLogged ==
    ASSUME TypeOK, NEW p \in Procs, file[p] \in Files, NEW sure \in BOOLEAN
    PROVE  Indices({<<i, MaybeUnknown(file[p], req[p], i) => sure>> :
                       i \in ParsedRecords(file[p], req[p])}) \subseteq DOMAIN log[file[p]]
<1> DEFINE f == file[p]
<1>1. Len(log[f]) \in Nat /\ DOMAIN log[f] = 1..Len(log[f])
  BY LogTypes
<1>2. FirstRead(f, req[p].win) \in Nat \ {0}
  BY <1>1, ConstantsAssumption DEF FirstRead
<1>3. ParsedRecords(f, req[p]) \subseteq DOMAIN log[f]
  BY <1>1, <1>2 DEF ParsedRecords, InBounds
<1>4. QED
  BY <1>3 DEF Indices

LEMMA LeaveKeepsLogged ==
    ASSUME TypeOK, OnlyLogged, NEW p \in Procs, Leave(p), log' = log,
           \A f \in Files : Indices(calls'[f]) \subseteq Indices(calls[f])
    PROVE  OnlyLogged'
<1>1. \A q \in Procs \ {p} : /\ rows'[q] = rows[q] /\ file'[q] = file[q]
                             /\ batch'[q] = batch[q] /\ pc'[q] = pc[q]
  BY DEF TypeOK, Leave, EndTx, PutDown, Goto
<1>2. batch'[p] = {} /\ pc'[p] = "idle" /\ \A f \in Files : rows'[p][f] = {}
  BY DEF TypeOK, Leave, EndTx, PutDown, Goto, NoRows
<1>3. \A f \in Files : Indices(calls'[f]) \subseteq DOMAIN log'[f]
  BY DEF OnlyLogged
<1>4. ASSUME NEW q \in Procs
      PROVE  BatchIsLogged(q)' /\ \A f \in Files : Indices(rows'[q][f]) \subseteq DOMAIN log'[f]
  <2>1. CASE q = p
    BY <1>2, <2>1 DEF BatchIsLogged, Indices
  <2>2. CASE q # p
    BY <1>1, <2>2 DEF OnlyLogged, BatchIsLogged
  <2>3. QED
    BY <2>1, <2>2
<1>5. QED
  BY <1>3, <1>4 DEF OnlyLogged

LEMMA CleanupShrinks ==
    ASSUME NEW p \in Procs, CleanupUnknownDuplicates(p) \/ CleanupCorruptedTokens(p),
           NEW f \in Files
    PROVE  Indices(calls'[f]) \subseteq Indices(calls[f])
BY DEF CleanupUnknownDuplicates, CleanupCorruptedTokens, Indices

LEMMA LogsOnlyGrow ==
    ASSUME TypeOK, NEW g \in Files, AppendRecord(g) \/ AppendOther(g), NEW f \in Files
    PROVE  DOMAIN log[f] \subseteq DOMAIN log'[f]
<1>1. CASE AppendOther(g)
  BY <1>1 DEF AppendOther
<1>2. CASE AppendRecord(g)
  <2>1. PICK t \in NextTicks : log' = [log EXCEPT ![g] = Append(@, t)]
    BY <1>2 DEF AppendRecord
  <2>2. CASE f # g
    BY <2>1, <2>2 DEF TypeOK
  <2>3. CASE f = g
    <3>1. log'[g] = Append(log[g], t) /\ log[g] \in Seq(1..MaxTime) /\ t \in 1..MaxTime
      BY <2>1, NextTicksType DEF TypeOK
    <3>2. Len(log'[g]) = Len(log[g]) + 1 /\ Len(log[g]) \in Nat
          /\ DOMAIN log'[g] = 1..Len(log'[g]) /\ DOMAIN log[g] = 1..Len(log[g])
      BY <3>1
    <3>3. QED
      BY <2>3, <3>2
  <2>4. QED
    BY <2>2, <2>3
<1>3. QED
  BY <1>1, <1>2

LEMMA AppendKeepsLogged ==
    ASSUME TypeOK, OnlyLogged, NEW g \in Files, AppendRecord(g) \/ AppendOther(g)
    PROVE  OnlyLogged'
<1>1. \A f \in Files : DOMAIN log[f] \subseteq DOMAIN log'[f]
  BY LogsOnlyGrow
<1>2. UNCHANGED <<calls, rows, pc, file, batch>>
  BY DEF AppendRecord, AppendOther, tables, tx, cur
<1>3. \A p \in Procs : pc[p] = "insert" => file[p] \in Files
  BY DEF TypeOK
<1>4. QED
  BY <1>1, <1>2, <1>3 DEF OnlyLogged, BatchIsLogged

(* A step of one process that adds no row to the tables: its own rows and  *)
(* batch stay logged, the others' are untouched.                           *)
LEMMA OwnRowsLogged ==
    ASSUME TypeOK, OnlyLogged, NEW p \in Procs, log' = log, calls' = calls,
           \A q \in Procs \ {p} : /\ rows'[q] = rows[q] /\ file'[q] = file[q]
                                  /\ batch'[q] = batch[q] /\ pc'[q] = pc[q],
           \A f \in Files : Indices(rows'[p][f]) \subseteq DOMAIN log[f],
           BatchIsLogged(p)'
    PROVE  OnlyLogged'
<1>1. ASSUME NEW q \in Procs, q # p
      PROVE  BatchIsLogged(q)' /\ \A f \in Files : Indices(rows'[q][f]) \subseteq DOMAIN log'[f]
  BY <1>1 DEF OnlyLogged, BatchIsLogged
<1>2. QED
  BY <1>1 DEF OnlyLogged

LEMMA OnlyLoggedStep == TypeOK /\ OnlyLogged /\ [Next]_vars => OnlyLogged'
<1> SUFFICES ASSUME TypeOK, OnlyLogged, [Next]_vars PROVE OnlyLogged'
  OBVIOUS
<1> USE DEF files, tables, cur, tx
<1>1. ASSUME NEW p \in Procs,
             Start(p) \/ DeleteParsedLogs(p) \/ ParsedMtimeByFile(p) \/ SkipFile(p)
                \/ TakeFile(p) \/ EndScan(p) \/ UpsertWorkspaces(p)
      PROVE  OnlyLogged'
  <2>1. UNCHANGED <<log, calls, rows, batch>> /\ pc[p] # "insert" /\ pc'[p] # "insert"
    BY <1>1 DEF Start, DeleteParsedLogs, ParsedMtimeByFile, SkipFile, TakeFile, EndScan,
       UpsertWorkspaces, Goto, TypeOK
  <2>2. \A q \in Procs \ {p} : file'[q] = file[q] /\ pc'[q] = pc[q]
    BY <1>1 DEF Start, DeleteParsedLogs, ParsedMtimeByFile, SkipFile, TakeFile, EndScan,
       UpsertWorkspaces, Goto, TypeOK
  <2>3. BatchIsLogged(p)' /\ \A f \in Files : Indices(rows'[p][f]) \subseteq DOMAIN log[f]
    BY <2>1 DEF OnlyLogged, BatchIsLogged
  <2>4. QED
    BY <2>1, <2>2, <2>3, OwnRowsLogged
<1>2. ASSUME NEW p \in Procs, ReadFile(p) \/ ReadFails(p) PROVE OnlyLogged'
  <2>1. UNCHANGED <<log, calls, rows, file>> /\ pc[p] = "read" /\ pc'[p] = "insert"
    BY <1>2 DEF ReadFile, ReadFails, Goto, TypeOK
  <2>2. \A q \in Procs \ {p} : batch'[q] = batch[q] /\ pc'[q] = pc[q]
    BY <1>2 DEF ReadFile, ReadFails, Goto, TypeOK
  <2>3. file[p] \in Files
    BY <2>1 DEF TypeOK
  <2>4. Indices(batch'[p]) \subseteq DOMAIN log[file[p]]
    <3>1. CASE ReadFile(p)
      <4>1. PICK sure \in BOOLEAN :
              batch' = [batch EXCEPT ![p] =
                          {<<i, MaybeUnknown(file[p], req[p], i) => sure>> :
                             i \in ParsedRecords(file[p], req[p])}]
        BY <3>1 DEF ReadFile
      <4>2. batch'[p] = {<<i, MaybeUnknown(file[p], req[p], i) => sure>> :
                             i \in ParsedRecords(file[p], req[p])}
        BY <4>1 DEF TypeOK
      <4>3. QED
        BY <2>3, <4>2, ReadIsLogged
    <3>2. CASE ReadFails(p)
      <4>1. batch' = batch /\ batch[p] = {}
        BY <2>1, <3>2 DEF ReadFails, OnlyLogged, BatchIsLogged
      <4>2. QED
        BY <4>1 DEF Indices
    <3>3. QED
      BY <1>2, <3>1, <3>2
  <2>5. BatchIsLogged(p)' /\ \A f \in Files : Indices(rows'[p][f]) \subseteq DOMAIN log[f]
    BY <2>1, <2>4 DEF OnlyLogged, BatchIsLogged
  <2>6. QED
    BY <2>1, <2>2, <2>5, OwnRowsLogged
<1>3. ASSUME NEW p \in Procs, InsertRecord(p) PROVE OnlyLogged'
  <2>1. PICK row \in batch[p] :
          /\ batch' = [batch EXCEPT ![p] = @ \ {row}]
          /\ \/ rows' = [rows EXCEPT ![p][file[p]] = @ \cup {row}]
             \/ rows' = rows
    BY <1>3 DEF InsertRecord
  <2>2. UNCHANGED <<log, calls, pc, file>> /\ pc[p] = "insert" /\ file[p] \in Files
    BY <1>3 DEF InsertRecord, TypeOK
  <2>3. \A q \in Procs \ {p} : rows'[q] = rows[q] /\ batch'[q] = batch[q]
    BY <2>1 DEF TypeOK
  <2>4. row[1] \in DOMAIN log[file[p]]
    BY <2>2 DEF OnlyLogged, BatchIsLogged, Indices
  <2>5. \A f \in Files : \/ rows'[p][f] = rows[p][f]
                         \/ f = file[p] /\ rows'[p][f] = rows[p][f] \cup {row}
    BY <2>1 DEF TypeOK
  <2>6. \A f \in Files : Indices(rows'[p][f]) \subseteq DOMAIN log[f]
    BY <2>4, <2>5 DEF OnlyLogged, Indices
  <2>7. batch'[p] = batch[p] \ {row}
    BY <2>1 DEF TypeOK
  <2>8. BatchIsLogged(p)'
    BY <2>2, <2>7 DEF OnlyLogged, BatchIsLogged, Indices
  <2>9. QED
    BY <2>2, <2>3, <2>6, <2>8, OwnRowsLogged
<1>4. ASSUME NEW p \in Procs, MarkLogParsed(p) PROVE OnlyLogged'
  <2>1. UNCHANGED <<log, calls, rows>> /\ batch'[p] = {} /\ pc'[p] = "scan"
    BY <1>4 DEF MarkLogParsed, PutDown, Goto, TypeOK
  <2>2. \A q \in Procs \ {p} : batch'[q] = batch[q] /\ file'[q] = file[q] /\ pc'[q] = pc[q]
    BY <1>4 DEF MarkLogParsed, PutDown, Goto, TypeOK
  <2>3. BatchIsLogged(p)' /\ \A f \in Files : Indices(rows'[p][f]) \subseteq DOMAIN log[f]
    BY <2>1 DEF OnlyLogged, BatchIsLogged
  <2>4. QED
    BY <2>1, <2>2, <2>3, OwnRowsLogged
<1>5. ASSUME NEW p \in Procs, Commit(p) PROVE OnlyLogged'
  <2>1. /\ UNCHANGED <<log, file, batch>> /\ pc[p] = "commit" /\ pc'[p] = "workspaces"
        /\ \A f \in Files : calls'[f] = calls[f] \cup rows[p][f]
        /\ \A f \in Files : rows'[p][f] = {}
    BY <1>5 DEF Commit, EndTx, Goto, TypeOK, NoRows
  <2>2. \A q \in Procs \ {p} : rows'[q] = rows[q] /\ pc'[q] = pc[q]
    BY <1>5 DEF Commit, EndTx, Goto, TypeOK
  <2>3. \A f \in Files : Indices(calls'[f]) \subseteq DOMAIN log'[f]
    BY <2>1 DEF OnlyLogged, Indices
  <2>4. ASSUME NEW q \in Procs
        PROVE  /\ BatchIsLogged(q)'
               /\ \A f \in Files : Indices(rows'[q][f]) \subseteq DOMAIN log'[f]
    <3>1. CASE q = p
      BY <2>1, <3>1 DEF OnlyLogged, BatchIsLogged, Indices
    <3>2. CASE q # p
      BY <2>1, <2>2, <3>2 DEF OnlyLogged, BatchIsLogged
    <3>3. QED
      BY <3>1, <3>2
  <2>5. QED
    BY <2>3, <2>4 DEF OnlyLogged
<1>6. ASSUME NEW p \in Procs, CleanupUnknownDuplicates(p) PROVE OnlyLogged'
  <2>1. /\ UNCHANGED <<log, rows, file, batch>> /\ pc[p] = "cleanup" /\ pc'[p] = "mend"
        /\ \A q \in Procs \ {p} : pc'[q] = pc[q]
    BY <1>6 DEF CleanupUnknownDuplicates, Goto, TypeOK
  <2>2. \A f \in Files : Indices(calls'[f]) \subseteq DOMAIN log[f]
    BY <1>6, CleanupShrinks DEF OnlyLogged
  <2>3. \A q \in Procs : BatchIsLogged(q)'
    BY <2>1 DEF OnlyLogged, BatchIsLogged
  <2>4. QED
    BY <2>1, <2>2, <2>3 DEF OnlyLogged
<1>7. ASSUME NEW p \in Procs, CleanupCorruptedTokens(p) PROVE OnlyLogged'
  <2>1. Leave(p) /\ log' = log
    BY <1>7 DEF CleanupCorruptedTokens
  <2>2. \A f \in Files : Indices(calls'[f]) \subseteq Indices(calls[f])
    BY <1>7, CleanupShrinks
  <2>3. QED
    BY <2>1, <2>2, LeaveKeepsLogged
<1>8. ASSUME NEW p \in Procs, BeginFails(p) \/ CommitFails(p) \/ Crash(p) PROVE OnlyLogged'
  BY <1>8, LeaveKeepsLogged DEF BeginFails, CommitFails, Crash
<1>9. CASE UNCHANGED vars
  BY <1>9 DEF vars, OnlyLogged, BatchIsLogged
<1>10. QED
  BY <1>1, <1>2, <1>3, <1>4, <1>5, <1>7, <1>8, <1>9, <1>6, AppendKeepsLogged
     DEF Next, SyncStep, FaultStep
-----------------------------------------------------------------------------
(* The refinement *)

LEMMA LedgerInit == Init => Book!Init
<1> SUFFICES ASSUME Init PROVE Book!Init
  OBVIOUS
<1>1. \A f \in Files : {i \in DOMAIN log[f] : Stored(f, log[f], calls[f], i)} = {}
  BY DEF Init
<1>2. QED
  BY <1>1 DEF Init, Book!Init, Book!NoMarks, NoMarks, StoredRecords

(* The ledger's marks and the tables' are about the same records. *)
LEMMA CoversIsComplete ==
    ASSUME NEW f \in Files, NEW table, NEW upto,
           Covers(f, log[f], now, table, TheWindow, upto)
    PROVE  Book!Complete(f, {i \in DOMAIN log[f] : Stored(f, log[f], table, i)}, upto)
BY DEF Covers, Book!Complete, Wanted

(* No row is of a record that is not written yet, so a new record makes    *)
(* none of the older ones pass for a misreading.                           *)
LEMMA OldRecordsStay ==
    ASSUME TypeOK, OnlyLogged, NEW f \in Files, NEW M, Longer(log[f], M),
           NEW i \in DOMAIN log[f]
    PROVE  Stored(f, M, calls[f], i) <=> Stored(f, log[f], calls[f], i)
<1>1. ASSUME Stored(f, M, calls[f], i) PROVE Stored(f, log[f], calls[f], i)
  <2>1. PICK row \in calls[f] : row[1] = i \/ Misread(f, M, i, row[1])
    BY <1>1 DEF Stored
  <2>2. row[1] \in DOMAIN log[f]
    BY DEF OnlyLogged, Indices
  <2>3. M[i] = log[f][i] /\ M[row[1]] = log[f][row[1]]
    BY <2>2 DEF Longer
  <2>4. Misread(f, M, i, row[1]) => Misread(f, log[f], i, row[1])
    BY <2>2, <2>3 DEF Misread
  <2>5. QED
    BY <2>1, <2>4 DEF Stored
<1>2. ASSUME Stored(f, log[f], calls[f], i) PROVE Stored(f, M, calls[f], i)
  BY <1>2, StoredGrows
<1>3. QED
  BY <1>1, <1>2

LEMMA WriteImplements ==
    ASSUME TypeOK, TypeOK', Benign, OnlyLogged, NEW g \in Files,
           AppendRecord(g) \/ AppendOther(g)
    PROVE  Book!Write
<1>1. calls' = calls /\ parsed' = parsed
  BY DEF AppendRecord, AppendOther, tables
<1>2. CASE AppendOther(g)
  <2>1. PICK t \in NextTicks : now' = t /\ log' = log
    BY <1>2 DEF AppendOther
  <2>2. now' \in Nat /\ now' > now
    BY <2>1, TickAdvances DEF TypeOK
  <2>3. StoredRecords' = StoredRecords
    BY <1>1, <2>1 DEF StoredRecords
  <2>4. QED
    BY <1>1, <2>1, <2>2, <2>3 DEF Book!Write
<1>3. CASE AppendRecord(g)
  <2>1. PICK t \in NextTicks : now' = t /\ log' = [log EXCEPT ![g] = Append(@, t)]
    BY <1>3 DEF AppendRecord
  <2>2. now' \in Nat /\ now' > now
    BY <2>1, TickAdvances DEF TypeOK
  <2>3. log[g] \in Seq(1..MaxTime) /\ log'[g] = Append(log[g], t) /\ t \in 1..MaxTime
    BY <2>1, NextTicksType DEF TypeOK
  <2>4. /\ Longer(log[g], log'[g]) /\ DOMAIN log'[g] = DOMAIN log[g] \cup {Len(log[g]) + 1}
    BY <2>3 DEF Longer
  <2>5. \A f \in Files \ {g} : log'[f] = log[f]
    BY <2>1 DEF TypeOK
  <2>6. \A f \in Files \ {g} : StoredRecords'[f] = StoredRecords[f]
    BY <1>1, <2>5 DEF StoredRecords
  <2>7. \A i \in DOMAIN log[g] :
          Stored(g, log'[g], calls[g], i) <=> Stored(g, log[g], calls[g], i)
    BY <2>4, OldRecordsStay
  <2>8. StoredRecords'[g] = StoredRecords[g]
          \/ StoredRecords'[g] = StoredRecords[g] \cup {Len(log[g]) + 1}
    <3>1. /\ StoredRecords[g] = {i \in DOMAIN log[g] : Stored(g, log[g], calls[g], i)}
          /\ StoredRecords'[g] = {i \in DOMAIN log'[g] : Stored(g, log'[g], calls[g], i)}
      BY <1>1 DEF StoredRecords
    <3>2. CASE Stored(g, log'[g], calls[g], Len(log[g]) + 1)
      BY <2>4, <2>7, <3>1, <3>2
    <3>3. CASE ~Stored(g, log'[g], calls[g], Len(log[g]) + 1)
      BY <2>4, <2>7, <3>1, <3>3
    <3>4. QED
      BY <3>2, <3>3
  <2>9. /\ StoredRecords = [f \in Files |-> StoredRecords[f]]
        /\ StoredRecords' = [f \in Files |-> StoredRecords'[f]]
    BY DEF StoredRecords
  <2>10. \/ StoredRecords' = StoredRecords
         \/ StoredRecords' = [StoredRecords EXCEPT ![g] = @ \cup {Len(log[g]) + 1}]
    <3> DEFINE A == StoredRecords
               B == StoredRecords'
    <3>1. /\ A = [f \in Files |-> A[f]] /\ B = [f \in Files |-> B[f]]
          /\ \A f \in Files \ {g} : B[f] = A[f]
          /\ B[g] = A[g] \/ B[g] = A[g] \cup {Len(log[g]) + 1}
      BY <2>6, <2>8, <2>9
    <3> HIDE DEF A, B
    <3>2. B = A \/ B = [A EXCEPT ![g] = @ \cup {Len(log[g]) + 1}]
      BY <3>1
    <3>3. QED
      BY <3>2 DEF A, B
  <2>11. log' = [log EXCEPT ![g] = Append(@, now')]
    BY <2>1
  <2>12. QED
    BY <1>1, <2>2, <2>10, <2>11 DEF Book!Write
<1>4. QED
  BY <1>2, <1>3

LEMMA CommitImplements ==
    ASSUME TypeOK, TypeOK', SyncInv, OnlyLogged, NEW p \in Procs, Commit(p)
    PROVE  Book!Deliver
<1>1. now' = now /\ log' = log
  BY DEF Commit, files
<1>2. ASSUME NEW f \in Files
      PROVE  /\ StoredRecords[f] \subseteq StoredRecords'[f]
             /\ StoredRecords'[f] \subseteq DOMAIN log[f]
             /\ parsed'[f] \in 0..now
             /\ \/ parsed'[f] = parsed[f]
                \/ Book!Complete(f, StoredRecords'[f], parsed'[f])
  <2> DEFINE all == calls[f] \cup rows[p][f]
  <2>1. calls'[f] = all
    BY DEF Commit
  <2>2. /\ StoredRecords[f] = {i \in DOMAIN log[f] : Stored(f, log[f], calls[f], i)}
        /\ StoredRecords'[f] = {i \in DOMAIN log[f] : Stored(f, log[f], all, i)}
    BY <1>1, <2>1 DEF StoredRecords
  <2>3. /\ StoredRecords[f] \subseteq StoredRecords'[f]
        /\ StoredRecords'[f] \subseteq DOMAIN log[f]
    BY <2>2, StoredMonotone, calls[f] \subseteq all
  <2>4. CASE marks[p][f] = 0
    <3>1. parsed'[f] = parsed[f]
      BY <2>4 DEF Commit
    <3>2. parsed[f] \in Nat /\ mtime[f] \in Nat /\ now \in Nat
      BY LogTypes DEF TypeOK
    <3>3. parsed[f] <= mtime[f] /\ mtime[f] <= now
      BY DEF SyncInv, TableInv, LogsInv
    <3>4. parsed'[f] \in 0..now
      BY <3>1, <3>2, <3>3
    <3>5. QED
      BY <2>3, <3>1, <3>4
  <2>5. CASE marks[p][f] # 0
    <3>1. parsed'[f] = marks[p][f]
      BY <2>5 DEF Commit
    <3>2. marks[p][f] \in 0..now
      <4>1. marks[p][f] \in Nat /\ mtime[f] \in Nat /\ now \in Nat
        BY LogTypes DEF TypeOK
      <4>2. marks[p][f] <= mtime[f] /\ mtime[f] <= now
        BY DEF SyncInv, TxInv, LogsInv
      <4>3. QED
        BY <4>1, <4>2
    <3>3. Covers(f, log[f], now, all, TheWindow, marks[p][f])
      BY DEF SyncInv, TxInv
    <3> HIDE DEF all
    <3>4. Book!Complete(f, {i \in DOMAIN log[f] : Stored(f, log[f], all, i)}, marks[p][f])
      BY <3>3, CoversIsComplete
    <3>5. Book!Complete(f, StoredRecords'[f], parsed'[f])
      BY <2>2, <3>1, <3>4
    <3>6. QED
      BY <2>3, <3>1, <3>2, <3>5
  <2>6. QED
    BY <2>4, <2>5
<1>3. parsed' \in [Files -> 0..now]
  BY <1>2 DEF TypeOK
<1>4. StoredRecords' \in [Files -> SUBSET Nat]
  <2>1. \A f \in Files : DOMAIN log[f] \subseteq Nat
    BY LogTypes
  <2>2. StoredRecords' = [f \in Files |-> {i \in DOMAIN log[f] : Stored(f, log[f], calls'[f], i)}]
    BY <1>1 DEF StoredRecords
  <2>3. QED
    BY <2>1, <2>2
<1>5. QED
  BY <1>1, <1>2, <1>3, <1>4 DEF Book!Deliver

(* The clean-up takes away only rows whose record stays, or passes for a   *)
(* misreading of one that stays.                                           *)
LEMMA CleanupStutters ==
    ASSUME TypeOK, SyncInv, NEW p \in Procs,
           CleanupUnknownDuplicates(p) \/ CleanupCorruptedTokens(p)
    PROVE  UNCHANGED <<now, log, StoredRecords, parsed>>
<1>1. now' = now /\ log' = log /\ parsed' = parsed
  BY DEF CleanupUnknownDuplicates, CleanupCorruptedTokens, files
<1>2. ASSUME NEW f \in Files, NEW i \in DOMAIN log[f]
      PROVE  Stored(f, log[f], calls[f], i) <=> Stored(f, log[f], calls'[f], i)
  <2>1. calls'[f] \subseteq calls[f]
    BY DEF CleanupUnknownDuplicates, CleanupCorruptedTokens
  <2>2. Stored(f, log[f], calls'[f], i) => Stored(f, log[f], calls[f], i)
    BY <2>1, StoredMonotone
  <2>3. ASSUME Stored(f, log[f], calls[f], i) PROVE Stored(f, log[f], calls'[f], i)
    <3>1. CASE CleanupUnknownDuplicates(p)
      BY <2>3, <3>1, CleanupKeeps DEF CleanupUnknownDuplicates
    <3>2. CASE CleanupCorruptedTokens(p)
      BY <2>3, <3>2, MendingKeeps DEF CleanupCorruptedTokens, SyncInv, LogsInv
    <3>3. QED
      BY <3>1, <3>2
  <2>4. QED
    BY <2>2, <2>3
<1>3. StoredRecords' = StoredRecords
  <2>1. \A f \in Files : {i \in DOMAIN log[f] : Stored(f, log[f], calls[f], i)}
                           = {i \in DOMAIN log[f] : Stored(f, log[f], calls'[f], i)}
    BY <1>2
  <2>2. QED
    BY <1>1, <2>1 DEF StoredRecords
<1>4. QED
  BY <1>1, <1>3

LEMMA StepImplements ==
    ASSUME TypeOK, TypeOK', Benign, SyncInv, OnlyLogged, [Next]_vars
    PROVE  [Book!Next]_(Book!vars)
<1> USE DEF Book!vars
<1>1. ASSUME NEW f \in Files, AppendRecord(f) \/ AppendOther(f) PROVE Book!Next
  BY <1>1, WriteImplements DEF Book!Next
<1>2. ASSUME NEW p \in Procs, Commit(p) PROVE Book!Next
  BY <1>2, CommitImplements DEF Book!Next
<1>3. ASSUME NEW p \in Procs, DeleteParsedLogs(p) PROVE Book!Next
  <2>1. parsed' = NoMarks /\ UNCHANGED <<now, log, calls>>
    BY <1>3, NobodyGivesUp DEF DeleteParsedLogs, files
  <2>2. QED
    BY <2>1 DEF Book!Next, Book!Forget, Book!NoMarks, NoMarks, StoredRecords
<1>4. ASSUME NEW p \in Procs, CleanupUnknownDuplicates(p) \/ CleanupCorruptedTokens(p)
      PROVE  UNCHANGED Book!vars
  BY <1>4, CleanupStutters
<1>5. ASSUME NEW p \in Procs,
             \/ Start(p) \/ FaultStep(p)
             \/ SyncStep(p) /\ ~Commit(p) /\ ~DeleteParsedLogs(p)
                /\ ~CleanupUnknownDuplicates(p) /\ ~CleanupCorruptedTokens(p)
      PROVE  UNCHANGED Book!vars
  <2>1. UNCHANGED <<now, log, calls, parsed>>
    BY <1>5 DEF Start, FaultStep, BeginFails, ReadFails, CommitFails, Crash, SyncStep,
       ParsedMtimeByFile, SkipFile, TakeFile, ReadFile, InsertRecord, MarkLogParsed, EndScan,
       UpsertWorkspaces, files, tables
  <2>2. QED
    BY <2>1 DEF StoredRecords
<1>6. CASE UNCHANGED vars
  BY <1>6 DEF vars, StoredRecords
<1>7. QED
  BY <1>1, <1>2, <1>3, <1>4, <1>5, <1>6 DEF Next

(* With benign faults, any number of processes syncing any number of       *)
(* growing logs behave like the ledger: what SyncLogsToDB does in many     *)
(* steps appears in one, and whatever fails or dies in between appears as  *)
(* nothing at all.                                                         *)
THEOREM LogSyncIsLedger == ASSUME Benign PROVE Spec => ImplementsLedger
<1>1. Init => TypeOK /\ SyncInv /\ OnlyLogged /\ Book!Init
  BY InitType, SyncInvInit, OnlyLoggedInit, LedgerInit
<1>2. TypeOK /\ SyncInv /\ OnlyLogged /\ [Next]_vars => (TypeOK /\ SyncInv /\ OnlyLogged)'
  BY StepType, SyncInvStep, OnlyLoggedStep
<1>3. TypeOK /\ TypeOK' /\ SyncInv /\ OnlyLogged /\ [Next]_vars => [Book!Next]_(Book!vars)
  BY StepImplements
<1>4. QED
  BY <1>1, <1>2, <1>3, PTL DEF Spec, ImplementsLedger, Book!Spec
=============================================================================
