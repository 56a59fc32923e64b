---------------------------- MODULE WebSyncProofs ----------------------------
(* Proofs about WebSync, for every value of its constants. *)
EXTENDS WebSync, TLAPS

-----------------------------------------------------------------------------
(* Type correctness *)

LEMMA SourceType == ASSUME NEW j \in Jobs PROVE Source(j) \in Sources
BY DEF Source, Sources

LEMMA NobodyIsNoJob == Nobody \notin Jobs
BY ConstantsAssumption

LEMMA InitType == Init => TypeOK
<1> SUFFICES ASSUME Init PROVE TypeOK
  OBVIOUS
<1>1. data \in [Sources -> 0..MaxVersion] /\ stream \in 0..MaxVersion
  BY ConstantsAssumption DEF Init, Sources
<1>2. shown \in Snapshot /\ seen \in [Jobs -> Snapshot]
  BY DEF Init, Snapshot
<1>3. QED
  BY <1>1, <1>2, ConstantsAssumption DEF Init, TypeOK, Statuses, PCs

LEMMA StepType == TypeOK /\ [Next]_vars => TypeOK'
<1> SUFFICES ASSUME TypeOK, [Next]_vars PROVE TypeOK'
  OBVIOUS
<1> USE DEF world, Goto, SetSyncStatus, Statuses, PCs
<1>1. ASSUME NEW s \in Sources, Write(s) PROVE TypeOK'
  <2>1. data[s] + 1 \in 0..MaxVersion
    BY <1>1, ConstantsAssumption DEF Write, TypeOK
  <2>2. QED
    BY <1>1, <2>1 DEF Write, TypeOK
<1>2. ASSUME Midnight PROVE TypeOK'
  BY <1>2, ConstantsAssumption DEF Midnight, TypeOK
<1>3. ASSUME NEW j \in Jobs, Begin(j) PROVE TypeOK'
  BY <1>3, ConstantsAssumption DEF Begin, TypeOK
<1>4. ASSUME NEW j \in Jobs, Conflict(j) PROVE TypeOK'
  <2>1. lost[j] + 1 \in 0..MaxLost
    BY <1>4, ConstantsAssumption DEF Conflict, TypeOK
  <2>2. QED
    BY <1>4, <2>1 DEF Conflict, TypeOK
<1>5. ASSUME NEW j \in Jobs, Announce(j) \/ Lose(j) PROVE TypeOK'
  BY <1>5, SourceType DEF Announce, Lose, TypeOK
<1>6. ASSUME NEW j \in Jobs, Check(j) PROVE TypeOK'
  <2>1. /\ pc' \in [Jobs -> PCs]
        /\ status' \in [Sources -> Statuses]
        /\ failed' \in [Jobs -> BOOLEAN]
    BY <1>6 DEF Check, TypeOK, Sources
  <2>2. faults' \in 0..MaxFaults
    BY <1>6, ConstantsAssumption DEF Check, Fault, TypeOK
  <2>3. QED
    BY <1>6, <2>1, <2>2 DEF Check, TypeOK
<1>7. ASSUME NEW j \in Jobs, SyncLocal(j) PROVE TypeOK'
  <2>1. db' \in [Sources -> 0..MaxVersion]
    BY <1>7 DEF SyncLocal, TypeOK, Sources
  <2>2. faults' \in 0..MaxFaults
    BY <1>7, ConstantsAssumption DEF SyncLocal, Fault, TypeOK
  <2>3. QED
    BY <1>7, <2>1, <2>2 DEF SyncLocal, TypeOK
<1>8. ASSUME NEW j \in Jobs, SyncCodespaces(j) PROVE TypeOK'
  <2>1. db' \in [Sources -> 0..MaxVersion]
    BY <1>8, ConstantsAssumption DEF SyncCodespaces, TypeOK, Sources
  <2>2. faults' \in 0..MaxFaults /\ pc' \in [Jobs -> PCs]
    BY <1>8, ConstantsAssumption DEF SyncCodespaces, Fault, TypeOK
  <2>3. QED
    BY <1>8, <2>1, <2>2 DEF SyncCodespaces, TypeOK
<1>9. ASSUME NEW j \in Jobs, Complete(j) \/ Fail(j) PROVE TypeOK'
  BY <1>9, SourceType DEF Complete, Fail, TypeOK
<1>10. ASSUME NEW j \in Jobs, ReadDatabase(j) PROVE TypeOK'
  <2>1. [day |-> day, data |-> db] \in Snapshot
    BY ConstantsAssumption DEF TypeOK, Snapshot
  <2>2. QED
    BY <1>10, <2>1 DEF ReadDatabase, TypeOK
<1>11. ASSUME NEW j \in Jobs, Publish(j) PROVE TypeOK'
  BY <1>11 DEF Publish, TypeOK
<1>12. ASSUME NEW j \in Jobs, Unlock(j) PROVE TypeOK'
  <2>1. pc' \in [Jobs -> PCs] /\ failed' \in [Jobs -> BOOLEAN]
    BY <1>12 DEF Unlock, TypeOK
  <2>2. QED
    BY <1>12, <2>1 DEF Unlock, TypeOK
<1>13. ASSUME NEW j \in Jobs, Scan(j) PROVE TypeOK'
  <2>1. /\ pc' \in [Jobs -> PCs] /\ stream' \in 0..MaxVersion
        /\ status' \in [Sources -> Statuses]
    BY <1>13 DEF Scan, TypeOK, Sources
  <2>2. faults' \in 0..MaxFaults
    BY <1>13, ConstantsAssumption DEF Scan, Fault, TypeOK
  <2>3. QED
    BY <1>13, <2>1, <2>2 DEF Scan, TypeOK
<1>14. ASSUME NEW j \in Jobs, Report(j) PROVE TypeOK'
  BY <1>14 DEF Report, TypeOK, Sources
<1>15. UNCHANGED vars => TypeOK'
  BY DEF vars, TypeOK
<1>16. QED
  BY <1>1, <1>2, <1>3, <1>4, <1>5, <1>6, <1>7, <1>8, <1>9, <1>10, <1>11, <1>12, <1>13,
     <1>14, <1>15 DEF Next, JobStep

(* The server's sync state keeps its types. *)
THEOREM TypeCorrect == Spec => []TypeOK
BY InitType, StepType, PTL DEF Spec
-----------------------------------------------------------------------------
(* The snapshot *)

LEMMA SnapshotInvInit == Init => SnapshotInv
<1> SUFFICES ASSUME Init PROVE SnapshotInv
  OBVIOUS
<1>1. \A j \in Jobs : pc[j] \in {"try", "idle"}
  BY DEF Init
<1>2. MutexInv
  BY <1>1, NobodyIsNoJob DEF Init, MutexInv, Acting
<1>3. OrderInv
  BY ConstantsAssumption DEF Init, OrderInv, Sources
<1>4. SeenInv /\ LocalInv
  BY <1>1 DEF Init, SeenInv, LocalInv
<1>5. QED
  BY <1>2, <1>3, <1>4 DEF SnapshotInv

(* Only the holder of refreshMu is inside an action. *)
LEMMA MutexStep == TypeOK /\ MutexInv /\ [Next]_vars => MutexInv'
<1> SUFFICES ASSUME TypeOK, MutexInv, [Next]_vars PROVE MutexInv'
  OBVIOUS
<1> USE DEF MutexInv, Acting, TypeOK, Goto
<1>1. ASSUME (\E s \in Sources : Write(s)) \/ Midnight PROVE MutexInv'
  BY <1>1 DEF Write, Midnight
<1>2. ASSUME NEW j \in Jobs, Begin(j) PROVE MutexInv'
  BY <1>2, NobodyIsNoJob DEF Begin
<1>3. ASSUME NEW j \in Jobs, Conflict(j) \/ Lose(j) PROVE MutexInv'
  BY <1>3 DEF Conflict, Ready, Lose
<1>4. ASSUME NEW j \in Jobs, Announce(j) \/ Check(j) PROVE MutexInv'
  BY <1>4 DEF Announce, Check
<1>5. ASSUME NEW j \in Jobs, SyncLocal(j) \/ SyncCodespaces(j) PROVE MutexInv'
  BY <1>5 DEF SyncLocal, SyncCodespaces
<1>6. ASSUME NEW j \in Jobs, Complete(j) \/ Fail(j) \/ ReadDatabase(j) \/ Publish(j)
      PROVE  MutexInv'
  BY <1>6 DEF Complete, Fail, ReadDatabase, Publish
<1>7. ASSUME NEW j \in Jobs, Unlock(j) PROVE MutexInv'
  BY <1>7, NobodyIsNoJob DEF Unlock
<1>8. ASSUME NEW j \in Jobs, Scan(j) \/ Report(j) PROVE MutexInv'
  BY <1>8 DEF Scan, Report
<1>9. UNCHANGED vars => MutexInv'
  BY DEF vars
<1> HIDE DEF MutexInv, Acting, TypeOK, Goto
<1>10. QED
  BY <1>1, <1>2, <1>3, <1>4, <1>5, <1>6, <1>7, <1>8, <1>9 DEF Next, JobStep

(* Two jobs are never inside an action at once. *)
LEMMA Alone ==
    ASSUME MutexInv, NEW j \in Jobs, NEW k \in Jobs, pc[j] \in Acting, pc[k] \in Acting
    PROVE  j = k
BY DEF MutexInv

(* Steps that leave the database and the snapshot alone, and bring no job  *)
(* to or from the places where the snapshot lags.                          *)
LEMMA QuietStep ==
    ASSUME TypeOK, OrderInv, SeenInv, LocalInv,
           UNCHANGED <<db, shown, seen>>, day <= day',
           \A s \in Sources : data[s] <= data'[s],
           day' \in Nat, data' \in [Sources -> 0..MaxVersion],
           \A j \in Jobs : pc'[j] = "publish" => pc[j] = "publish",
           \A j \in Jobs : pc[j] \in Pending => pc'[j] \in Pending
    PROVE  OrderInv' /\ SeenInv' /\ LocalInv'
<1>1. OrderInv'
  BY ConstantsAssumption DEF OrderInv, TypeOK, Snapshot
<1>2. SeenInv'
  BY ConstantsAssumption DEF SeenInv, TypeOK, Snapshot
<1>3. LocalInv'
  BY DEF LocalInv
<1>4. QED
  BY <1>1, <1>2, <1>3

LEMMA SnapshotInvStep == TypeOK /\ TypeOK' /\ SnapshotInv /\ [Next]_vars => SnapshotInv'
<1> SUFFICES ASSUME TypeOK, TypeOK', SnapshotInv, [Next]_vars
             PROVE  OrderInv' /\ SeenInv' /\ LocalInv'
  BY MutexStep DEF SnapshotInv
<1>m. MutexInv /\ OrderInv /\ SeenInv /\ LocalInv
  BY DEF SnapshotInv
<1>t. day \in Nat /\ day' \in Nat /\ data' \in [Sources -> 0..MaxVersion]
  BY ConstantsAssumption DEF TypeOK
<1>n. \A s \in Sources : data[s] <= data[s] /\ data[s] \in Nat /\ db[s] \in Nat
  BY ConstantsAssumption DEF TypeOK
<1>1. ASSUME NEW s \in Sources, Write(s) PROVE OrderInv' /\ SeenInv' /\ LocalInv'
  <2>1. \A r \in Sources : data[r] <= data'[r]
    BY <1>1, <1>n DEF Write, TypeOK
  <2>2. QED
    BY <1>1, <1>m, <1>t, <2>1, QuietStep DEF Write
<1>2. ASSUME Midnight PROVE OrderInv' /\ SeenInv' /\ LocalInv'
  BY <1>2, <1>m, <1>t, <1>n, QuietStep DEF Midnight
<1>3. ASSUME NEW j \in Jobs,
             Begin(j) \/ Conflict(j) \/ Lose(j) \/ Announce(j) \/ Fail(j) \/ Unlock(j)
                \/ Scan(j) \/ Report(j)
      PROVE  OrderInv' /\ SeenInv' /\ LocalInv'
  <2>1. /\ UNCHANGED <<db, shown, seen>> /\ day' = day /\ data' = data
        /\ pc'[j] \notin Pending /\ pc[j] \notin Pending
        /\ \A k \in Jobs \ {j} : pc'[k] = pc[k]
    BY <1>3 DEF Begin, Conflict, Ready, Lose, Announce, Fail, Unlock, Scan, Report, world,
       Goto, TypeOK, Pending
  <2>2. \A k \in Jobs : pc'[k] = "publish" => pc[k] = "publish"
    BY <2>1 DEF Pending
  <2>3. \A k \in Jobs : pc[k] \in Pending => pc'[k] \in Pending
    BY <2>1
  <2>4. QED
    BY <1>m, <1>t, <1>n, <2>1, <2>2, <2>3, QuietStep
<1>4. ASSUME NEW j \in Jobs, Check(j) \/ Complete(j) PROVE OrderInv' /\ SeenInv' /\ LocalInv'
  <2>1. /\ UNCHANGED <<db, shown, seen>> /\ day' = day /\ data' = data
        /\ pc'[j] # "publish"
        /\ pc[j] = "check" \/ (pc[j] = "complete" /\ pc'[j] = "read")
        /\ \A k \in Jobs \ {j} : pc'[k] = pc[k]
    BY <1>4 DEF Check, Complete, world, Goto, TypeOK
  <2>2. \A k \in Jobs : pc'[k] = "publish" => pc[k] = "publish"
    BY <2>1
  <2>3. \A k \in Jobs : pc[k] \in Pending => pc'[k] \in Pending
    BY <2>1 DEF Pending
  <2>4. QED
    BY <1>m, <1>t, <1>n, <2>1, <2>2, <2>3, QuietStep
<1>5. ASSUME NEW j \in Jobs, SyncLocal(j) \/ SyncCodespaces(j)
      PROVE  OrderInv' /\ SeenInv' /\ LocalInv'
  <2>1. /\ UNCHANGED <<day, data, shown, seen>>
        /\ pc[j] = "sync" /\ pc'[j] \in {"complete", "fail"}
        /\ \A k \in Jobs \ {j} : pc'[k] = pc[k]
    BY <1>5 DEF SyncLocal, SyncCodespaces, world, Goto, TypeOK
  <2>2. /\ \A s \in Sources : db[s] <= db'[s] /\ db'[s] <= data[s]
        /\ pc'[j] = "fail" => db'["local"] = db["local"]
    BY <1>5, <1>m, <1>n DEF SyncLocal, SyncCodespaces, OrderInv, TypeOK, Sources, Goto
  <2>3. \A k \in Jobs : pc'[k] # "publish"
    BY <1>m, <2>1, Alone DEF Acting
  <2>4. OrderInv'
    BY <1>m, <2>1, <2>2, ConstantsAssumption DEF OrderInv, TypeOK, Snapshot
  <2>5. LocalInv'
    <3>1. CASE pc'[j] = "complete"
      BY <3>1 DEF LocalInv, Pending
    <3>2. CASE pc'[j] = "fail"
      <4>1. \A k \in Jobs : pc[k] \notin Pending
        BY <1>m, <2>1, Alone DEF Acting, Pending
      <4>2. QED
        BY <1>m, <2>1, <2>2, <3>2, <4>1 DEF LocalInv
    <3>3. QED
      BY <2>1, <3>1, <3>2
  <2>6. QED
    BY <2>3, <2>4, <2>5 DEF SeenInv
<1>6. ASSUME NEW j \in Jobs, ReadDatabase(j) PROVE OrderInv' /\ SeenInv' /\ LocalInv'
  <2>1. /\ UNCHANGED <<day, data, db, shown>>
        /\ seen' = [seen EXCEPT ![j] = [day |-> day, data |-> db]]
        /\ pc[j] = "read" /\ pc'[j] = "publish"
        /\ \A k \in Jobs \ {j} : pc'[k] = pc[k]
    BY <1>6 DEF ReadDatabase, world, Goto, TypeOK
  <2>2. SeenInv'
    BY <1>m, <1>t, <2>1 DEF SeenInv, OrderInv, TypeOK
  <2>3. OrderInv' /\ LocalInv'
    BY <1>m, <2>1 DEF OrderInv, LocalInv, Pending
  <2>4. QED
    BY <2>2, <2>3
<1>7. ASSUME NEW j \in Jobs, Publish(j) PROVE OrderInv' /\ SeenInv' /\ LocalInv'
  <2>1. /\ UNCHANGED <<day, data, db, seen>> /\ shown' = seen[j]
        /\ pc[j] = "publish" /\ pc'[j] = "unlock"
        /\ \A k \in Jobs \ {j} : pc'[k] = pc[k]
    BY <1>7 DEF Publish, world, Goto, TypeOK
  <2>2. seen[j].day <= day /\ seen[j].data = db
    BY <1>m, <2>1 DEF SeenInv
  <2>3. \A k \in Jobs : pc'[k] # "publish"
    BY <1>m, <2>1, Alone DEF Acting
  <2>4. OrderInv' /\ LocalInv'
    BY <1>m, <1>n, <2>1, <2>2 DEF OrderInv, LocalInv, Sources
  <2>5. QED
    BY <2>3, <2>4 DEF SeenInv
<1>8. UNCHANGED vars => OrderInv' /\ SeenInv' /\ LocalInv'
  BY <1>m DEF vars, OrderInv, SeenInv, LocalInv
<1>9. QED
  BY <1>1, <1>2, <1>3, <1>4, <1>5, <1>6, <1>7, <1>8 DEF Next, JobStep

(* refreshMu keeps sync actions apart, so whatever is about to be          *)
(* published is the database as it is.                                     *)
THEOREM SnapshotIsOrdered == Spec => []SnapshotInv
BY SnapshotInvInit, SnapshotInvStep, TypeCorrect, PTL DEF Spec

(* Whenever no sync action runs, the dashboard shows every local record of *)
(* the database, and none that is not in it.                               *)
THEOREM SnapshotIsComplete == Spec => []SnapshotShowsDatabase
<1>1. SnapshotInv => SnapshotShowsDatabase
  <2> SUFFICES ASSUME SnapshotInv, refreshMu = Nobody
               PROVE  /\ shown.data["local"] = db["local"]
                      /\ shown.data["codespaces"] <= db["codespaces"]
    BY DEF SnapshotShowsDatabase
  <2>1. \A j \in Jobs : pc[j] \notin Pending
    BY NobodyIsNoJob DEF SnapshotInv, MutexInv, Acting, Pending
  <2>2. QED
    BY <2>1 DEF SnapshotInv, OrderInv, LocalInv, Sources
<1>2. QED
  BY <1>1, SnapshotIsOrdered, PTL

(* No older reading of the database ever replaces a newer snapshot.        *)
THEOREM SnapshotIsMonotone == Spec => SnapshotNeverGoesBack
<1> DEFINE Forward == /\ shown.day <= shown'.day
                      /\ \A s \in Sources : shown.data[s] <= shown'.data[s]
<1>1. TypeOK /\ SnapshotInv /\ [Next]_vars => [Forward]_vars
  <2> SUFFICES ASSUME TypeOK, SnapshotInv, Next PROVE Forward
    OBVIOUS
  <2>1. shown' = shown => Forward
    BY DEF TypeOK, Snapshot
  <2>2. ASSUME NEW j \in Jobs, Publish(j) PROVE Forward
    BY <2>2 DEF Publish, SnapshotInv, SeenInv, OrderInv
  <2>3. shown' = shown \/ \E j \in Jobs : Publish(j)
    BY DEF Next, Write, Midnight, Begin, Conflict, JobStep, Announce, Lose, Check, SyncLocal,
       SyncCodespaces, Complete, Fail, ReadDatabase, Unlock, Scan, Report
  <2>4. QED
    BY <2>1, <2>2, <2>3
<1>2. QED
  BY <1>1, TypeCorrect, SnapshotIsOrdered, PTL DEF Spec, SnapshotNeverGoesBack
=============================================================================
