------------------------ MODULE CodespacesSyncProofs ------------------------
(* Proofs about CodespacesSync, for every value of its constants. *)
EXTENDS CodespacesSync, TLAPS

-----------------------------------------------------------------------------
(* Type correctness *)

LEMMA IdleTypes ==
    /\ NoLogs \in Versions
    /\ Unlisted \in Listing
    /\ NoOption \in Option
BY DEF NoLogs, Versions, Unlisted, Listing, NoOption, Option

LEMMA NamesAreLogs == \A files : Names(files) \subseteq Logs
BY DEF Names

LEMMA InitType == Init => TypeOK
BY IdleTypes, ConstantsAssumption
   DEF Init, TypeOK, PCs, Stages, Starters, Powers

LEMMA WorldType == TypeOK /\ World => TypeOK'
<1> SUFFICES ASSUME TypeOK, NEW c \in Codespaces,
                    Use(c) \/ StopByUser(c) \/ IdleTimeout(c)
             PROVE  TypeOK'
  BY DEF World
<1> USE DEF tables, tick, copy
<1>1. CASE Use(c)
  <2>1. PICK n \in Logs : logs' = [logs EXCEPT ![c][n] = @ + 1]
    BY <1>1 DEF Use
  <2>2. logs' \in [Codespaces -> Versions]
    BY <2>1 DEF TypeOK, Versions
  <2>3. used' \in [Codespaces -> Nat]
    BY <1>1 DEF Use, TypeOK
  <2>4. QED
    BY <1>1, <2>2, <2>3 DEF Use, TypeOK, Powers, Starters
<1>2. CASE StopByUser(c) \/ IdleTimeout(c)
  BY <1>2 DEF StopByUser, IdleTimeout, TurnOff, Fault, TypeOK, Powers, Starters
<1>3. QED
  BY <1>1, <1>2

LEMMA ReachType ==
    ASSUME TypeOK, NEW c \in Codespaces, NEW who \in {"copy", "left"}, Reach(c, who)
    PROVE  /\ power' \in [Codespaces -> Powers] /\ by' \in [Codespaces -> Starters]
           /\ UNCHANGED <<used, logs>>
BY DEF Reach, TypeOK, Powers, Starters

LEMMA CopyReachesType ==
    ASSUME TypeOK, NEW c \in Codespaces, CopyReaches(c) \/ UNCHANGED world
    PROVE  /\ power' \in [Codespaces -> Powers] /\ by' \in [Codespaces -> Starters]
           /\ UNCHANGED <<used, logs>>
BY ReachType DEF CopyReaches, world, TypeOK

LEMMA CheckType ==
    ASSUME TypeOK,
           \/ \E o \in Options : ListCodespaces(o) \/ ListFails(o)
           \/ CheckStep \/ \E c \in Codespaces : ListRemoteFails(c)
    PROVE  TypeOK'
<1> USE DEF world, tables, tick, copy
<1>1. ASSUME NEW o \in Options, ListCodespaces(o) PROVE TypeOK'
  <2>1. o \in Option
    BY ConstantsAssumption
  <2>2. ASSUME NEW c \in Codespaces, NEW fresh \in BOOLEAN
        PROVE  [state |-> power[c], used |-> used[c], logs |-> logs[c], fresh |-> fresh]
                  \in Listing
    BY DEF TypeOK, Listing
  <2>3. seen' \in [Codespaces -> Listing]
    BY <1>1, <2>2, IdleTypes DEF ListCodespaces
  <2>4. todo' \in SUBSET Codespaces /\ pc' \in PCs
    BY <1>1 DEF ListCodespaces, PCs
  <2>5. QED
    BY <1>1, <2>1, <2>3, <2>4 DEF ListCodespaces, TypeOK
<1>2. ASSUME NEW o \in Options, ListFails(o) PROVE TypeOK'
  BY <1>2, ConstantsAssumption DEF ListFails, Fault, TypeOK, PCs
<1>3. ASSUME NEW c \in Codespaces,
             SkipUnchanged(c) \/ ListRemoteLogFiles(c) \/ MakePending(c) \/ ListRemoteFails(c)
      PROVE  TypeOK'
  <2>1. power' \in [Codespaces -> Powers] /\ by' \in [Codespaces -> Starters]
        /\ UNCHANGED <<used, logs>>
    BY <1>3, ReachType DEF SkipUnchanged, ListRemoteLogFiles, MakePending, ListRemoteFails,
       TypeOK
  <2>2. stage' \in [Codespaces -> Stages] /\ UNCHANGED <<tries, slot, got>>
    BY <1>3 DEF SkipUnchanged, ListRemoteLogFiles, MakePending, ListRemoteFails, Pending,
       TypeOK, Stages
  <2>3. todo' \in SUBSET Codespaces /\ UNCHANGED <<pc, opt, seen, failed>>
    BY <1>3 DEF SkipUnchanged, ListRemoteLogFiles, MakePending, ListRemoteFails, Decided,
       TypeOK
  <2>4. faults' \in Nat /\ UNCHANGED <<row, stored, known, lost>>
    BY <1>3 DEF SkipUnchanged, ListRemoteLogFiles, MakePending, ListRemoteFails, Fault, TypeOK
  <2>5. QED
    BY <2>1, <2>2, <2>3, <2>4 DEF TypeOK
<1>4. CASE StartWorkers
  BY <1>4 DEF StartWorkers, TypeOK, PCs
<1>5. QED
  BY <1>1, <1>2, <1>3, <1>4 DEF CheckStep

LEMMA CopyType ==
    ASSUME TypeOK, NEW c \in Codespaces,
           \/ CopyStep(c) \/ TakeJobFails(c) \/ SshTarFails(c) \/ GhCsCpThrottled(c)
           \/ GhCsCpFails(c) \/ StopFails(c)
    PROVE  TypeOK'
<1> USE DEF world, tables, tick, copy, Goto
<1>1. CASE TakeJob(c) \/ TakeJobFails(c) \/ AcquireSlot(c) \/ ReleaseSlot(c)
  BY <1>1 DEF TakeJob, TakeJobFails, AcquireSlot, ReleaseSlot, Fault, TypeOK, Stages
<1>2. CASE SshTar(c) \/ GhCsCp(c)
  <2>1. power' \in [Codespaces -> Powers] /\ by' \in [Codespaces -> Starters]
        /\ UNCHANGED <<used, logs>>
    BY <1>2, CopyReachesType DEF SshTar, GhCsCp
  <2>2. stage' \in [Codespaces -> Stages] /\ got' \in [Codespaces -> Versions]
        /\ UNCHANGED <<tries, slot>>
    BY <1>2 DEF SshTar, GhCsCp, Copied, Leave, TypeOK, Stages
  <2>3. QED
    BY <1>2, <2>1, <2>2 DEF SshTar, GhCsCp, TypeOK
<1>3. CASE SshTarFails(c)
  <2>1. power' \in [Codespaces -> Powers] /\ by' \in [Codespaces -> Starters]
        /\ UNCHANGED <<used, logs>>
    BY <1>3, CopyReachesType DEF SshTarFails
  <2>2. stage' \in [Codespaces -> Stages] /\ tries' \in [Codespaces -> 0..MaxRetries]
    BY <1>3, ConstantsAssumption DEF SshTarFails, TypeOK, Stages
  <2>3. QED
    BY <1>3, <2>1, <2>2 DEF SshTarFails, TypeOK
<1>4. CASE GhCsCpThrottled(c)
  <2>1. tries[c] + 1 \in 0..MaxRetries
    BY <1>4, ConstantsAssumption DEF GhCsCpThrottled, TypeOK
  <2>2. tries' \in [Codespaces -> 0..MaxRetries]
    BY <1>4, <2>1 DEF GhCsCpThrottled, TypeOK
  <2>3. QED
    BY <1>4, <2>2 DEF GhCsCpThrottled, TypeOK
<1>5. CASE GhCsCpFails(c)
  <2>1. power' \in [Codespaces -> Powers] /\ by' \in [Codespaces -> Starters]
        /\ UNCHANGED <<used, logs>>
    BY <1>5, CopyReachesType DEF GhCsCpFails
  <2>2. stage' \in [Codespaces -> Stages] /\ UNCHANGED <<tries, got, slot>>
    BY <1>5 DEF GhCsCpFails, NotCopied, Leave, TypeOK, Stages
  <2>3. QED
    BY <1>5, <2>1, <2>2 DEF GhCsCpFails, Fault, TypeOK
<1>6. CASE StopCodespace(c) \/ StopFails(c)
  BY <1>6 DEF StopCodespace, StopFails, Fault, TypeOK, Stages, Powers, Starters
<1>7. QED
  BY <1>1, <1>2, <1>3, <1>4, <1>5, <1>6 DEF CopyStep

LEMMA DoneType ==
    ASSUME TypeOK, NEW c \in Codespaces, Done(c)
    PROVE  /\ stage' \in [Codespaces -> Stages] /\ tries' \in [Codespaces -> 0..MaxRetries]
           /\ got' \in [Codespaces -> Versions] /\ slot' = slot
BY IdleTypes, ConstantsAssumption DEF Done, Goto, TypeOK, Stages

LEMMA IngestType ==
    ASSUME TypeOK, IngestStep \/ Crash \/ \E c \in Codespaces : IngestFails(c)
    PROVE  TypeOK'
<1> USE DEF world, tables, tick, copy
<1>1. CASE CollectResults \/ EndTick
  BY <1>1 DEF CollectResults, EndTick, TypeOK, PCs
<1>2. CASE NextTick
  BY <1>2, IdleTypes DEF NextTick, Forget, TypeOK, PCs
<1>3. CASE Crash
  BY <1>3, IdleTypes, ConstantsAssumption
     DEF Crash, Forget, Fault, TypeOK, PCs, Stages, Starters
<1>4. ASSUME NEW c \in Codespaces, CountFailedCopy(c) PROVE TypeOK'
  BY <1>4, DoneType DEF CountFailedCopy, TypeOK
<1>5. ASSUME NEW c \in Codespaces, IngestLogs(c) PROVE TypeOK'
  BY <1>5, NamesAreLogs DEF IngestLogs, Goto, TypeOK, Stages
<1>6. ASSUME NEW c \in Codespaces, IngestFails(c) PROVE TypeOK'
  BY <1>6 DEF IngestFails, Fault, Goto, TypeOK, Stages
<1>7. ASSUME NEW c \in Codespaces, UpsertCodespaceSyncState(c) PROVE TypeOK'
  <2>1. seen[c].used \in Nat
    BY DEF TypeOK, Listing
  <2>2. QED
    BY <1>7, <2>1, DoneType DEF UpsertCodespaceSyncState, TypeOK
<1>8. QED
  BY <1>1, <1>2, <1>3, <1>4, <1>5, <1>6, <1>7 DEF IngestStep

LEMMA StepType == TypeOK /\ [Next]_vars => TypeOK'
<1>1. TypeOK /\ UNCHANGED vars => TypeOK'
  BY DEF vars, world, tables, tick, copy, TypeOK
<1>2. QED
  BY <1>1, WorldType, CheckType, CopyType, IngestType DEF Next, FaultStep

(* Every reachable state is well typed; in particular a copy is never      *)
(* attempted more than maxThrottleRetries times.                           *)
THEOREM TypeCorrect == Spec => []TypeOK
BY InitType, StepType, PTL DEF Spec
-----------------------------------------------------------------------------
(* What a step leaves alone *)

LEMMA AtLeastTransitive ==
    ASSUME NEW a \in Versions, NEW b \in Versions, NEW d \in Versions,
           AtLeast(a, b), AtLeast(b, d)
    PROVE  AtLeast(a, d)
<1>1. ASSUME NEW n \in Logs PROVE a[n] >= d[n]
  <2>1. a[n] \in Nat /\ b[n] \in Nat /\ d[n] \in Nat /\ a[n] >= b[n] /\ b[n] >= d[n]
    BY DEF Versions, AtLeast
  <2>2. QED
    BY <2>1
<1>2. QED
  BY <1>1 DEF AtLeast

LEMMA AtLeastReflexive == \A a \in Versions : AtLeast(a, a) /\ AtLeast(a, NoLogs)
BY DEF Versions, AtLeast, NoLogs

DataInv(c) == SeenInv(c) /\ RowInv(c) /\ CopyInv(c)

(* The data of a codespace, and what is known and stored of it. *)
SameData(c) ==
    /\ used'[c] = used[c] /\ logs'[c] = logs[c] /\ row'[c] = row[c]
    /\ stored'[c] = stored[c] /\ seen'[c] = seen[c] /\ got'[c] = got[c]
    /\ c \in lost' <=> c \in lost

(* A copy may move on without new data as long as it is in the tick, and   *)
(* has nothing to show before it has copied.                               *)
LEMMA DataKept ==
    ASSUME NEW c \in Codespaces, DataInv(c), SameData(c),
           \/ stage'[c] = stage[c]
           \/ /\ seen[c].state # "none"
              /\ stage'[c] # "stored"
              /\ got[c] = NoLogs \/ stage'[c] \notin {"none", "queued", "limit", "ssh", "cp"}
    PROVE  DataInv(c)'
BY DEF SameData, DataInv, SeenInv, RowInv, CopyInv, Delivered

(* Only c moves, and the slot is c's or nobody's before and after. *)
LEMMA SlotOfOthers ==
    ASSUME NEW c \in Codespaces, NEW d \in Codespaces, SlotInv(d),
           stage'[d] = stage[d], seen'[d] = seen[d],
           by'[d] = by[d] \/ by'[d] # "copy",
           slot' = slot \/ (d # c /\ slot \in {c, Free} /\ slot' \in {c, Free})
    PROVE  SlotInv(d)'
BY ConstantsAssumption DEF SlotInv, WasStopped, Holding

LEMMA PhaseKept ==
    ASSUME NEW d \in Codespaces, PhaseInv(d), pc' = pc, seen'[d] = seen[d],
           stage'[d] = stage[d], d \in todo' => d \in todo
    PROVE  PhaseInv(d)'
BY DEF PhaseInv
-----------------------------------------------------------------------------
(* The invariant *)

LEMMA InvInit == Init => CodespacesInv
<1> SUFFICES ASSUME Init PROVE CodespacesInv
  OBVIOUS
<1>1. TypeOK
  BY InitType
<1>2. ASSUME NEW c \in Codespaces
      PROVE  SeenInv(c) /\ RowInv(c) /\ CopyInv(c) /\ SlotInv(c) /\ PhaseInv(c)
  <2>1. /\ seen[c].state = "none" /\ logs[c] = NoLogs /\ stored[c] = NoLogs /\ got[c] = NoLogs
        /\ row[c] = 0 /\ used[c] = 0 /\ stage[c] = "none" /\ by[c] = "user"
        /\ slot # c /\ pc = "idle" /\ Names(NoLogs) = {}
    BY ConstantsAssumption DEF Init, Unlisted, Names, NoLogs
  <2>2. AtLeast(NoLogs, NoLogs)
    BY AtLeastReflexive, IdleTypes
  <2>3. QED
    BY <2>1, <2>2 DEF SeenInv, RowInv, CopyInv, SlotInv, PhaseInv, WasStopped
<1>3. QED
  BY <1>1, <1>2 DEF CodespacesInv

Parts(c) == DataInv(c) /\ SlotInv(c) /\ PhaseInv(c)

LEMMA UseInv ==
    ASSUME TypeOK, TypeOK', NEW c \in Codespaces, Use(c), NEW d \in Codespaces, Parts(d)
    PROVE  Parts(d)'
<1> USE DEF tables, tick, copy
<1>1. /\ UNCHANGED <<row, stored, lost, seen, got, stage, slot, pc, todo>>
      /\ by'[d] = by[d] \/ by'[d] # "copy"
  BY DEF Use, TypeOK
<1>2. SlotInv(d)' /\ PhaseInv(d)'
  BY <1>1, SlotOfOthers, PhaseKept DEF Parts
<1>3. CASE d # c
  <2>1. used'[d] = used[d] /\ logs'[d] = logs[d]
    BY <1>3 DEF Use, TypeOK
  <2>2. QED
    BY <1>1, <1>2, <2>1, DataKept DEF Parts, SameData
<1>4. CASE d = c
  <2>1. used'[c] = used[c] + 1 /\ used[c] \in Nat
    BY DEF Use, TypeOK
  <2>2. PICK n \in Logs : logs' = [logs EXCEPT ![c][n] = @ + 1]
    BY DEF Use
  <2>3. logs[c] \in Versions /\ logs'[c] = [logs[c] EXCEPT ![n] = @ + 1]
    BY <2>2 DEF TypeOK
  <2>4. AtLeast(logs'[c], logs[c])
    BY <2>3 DEF AtLeast, Versions
  <2>5. /\ logs'[c] \in Versions /\ got[c] \in Versions /\ stored[c] \in Versions
        /\ seen[c].logs \in Versions /\ seen[c].used \in Nat /\ row[c] \in Nat
    BY DEF TypeOK, Listing
  <2>6. /\ AtLeast(logs[c], got[c]) => AtLeast(logs'[c], got[c])
        /\ AtLeast(logs[c], stored[c]) => AtLeast(logs'[c], stored[c])
        /\ AtLeast(logs[c], seen[c].logs) => AtLeast(logs'[c], seen[c].logs)
    BY <2>3, <2>4, <2>5, AtLeastTransitive
  <2>7. SeenInv(c)'
    BY <1>1, <1>4, <2>1, <2>5, <2>6 DEF Parts, DataInv, SeenInv
  <2>8. RowInv(c)'
    BY <1>1, <1>4, <2>1, <2>5 DEF Parts, DataInv, RowInv, Delivered
  <2>9. CopyInv(c)'
    BY <1>1, <1>4, <2>6 DEF Parts, DataInv, CopyInv, Delivered
  <2>10. QED
    BY <1>2, <1>4, <2>7, <2>8, <2>9 DEF Parts, DataInv
<1>5. QED
  BY <1>3, <1>4

LEMMA TurnOffInv ==
    ASSUME TypeOK, NEW c \in Codespaces, StopByUser(c) \/ IdleTimeout(c),
           NEW d \in Codespaces, Parts(d)
    PROVE  Parts(d)'
<1> USE DEF tables, tick, copy
<1>1. /\ UNCHANGED <<used, logs, row, stored, lost, seen, got, stage, slot, pc, todo>>
      /\ by'[d] = by[d] \/ by'[d] # "copy"
  BY DEF StopByUser, IdleTimeout, TurnOff, TypeOK
<1>2. QED
  BY <1>1, DataKept, SlotOfOthers, PhaseKept DEF Parts, SameData

LEMMA ListInv ==
    ASSUME TypeOK, TypeOK', NEW o \in Options, ListCodespaces(o) \/ ListFails(o),
           NEW d \in Codespaces, Parts(d)
    PROVE  Parts(d)'
<1> USE DEF world, tables, copy
<1>1. stage[d] = "none" /\ stage' = stage /\ slot' = slot /\ by' = by
  BY DEF ListCodespaces, ListFails, Parts, PhaseInv
<1>2. SlotInv(d)'
  BY <1>1 DEF Parts, SlotInv, Holding
<1>3. CASE ListFails(o)
  <2>1. UNCHANGED <<used, logs, row, stored, lost, seen, got, todo>> /\ pc' = "returned"
    BY <1>3 DEF ListFails
  <2>2. DataInv(d)'
    BY <1>1, <2>1, DataKept DEF Parts, SameData
  <2>3. PhaseInv(d)'
    BY <1>1, <2>1 DEF PhaseInv
  <2>4. QED
    BY <1>2, <2>2, <2>3 DEF Parts
<1>4. CASE ListCodespaces(o)
  <2>1. UNCHANGED <<used, logs, row, stored, lost, got>>
    BY <1>4 DEF ListCodespaces
  <2>2. \/ seen'[d] = Unlisted /\ d \notin todo'
        \/ /\ seen'[d].used = used[d] /\ seen'[d].logs = logs[d]
           /\ seen'[d].state = power[d]
    BY <1>4 DEF ListCodespaces
  <2>3. power[d] # "none" /\ logs[d] \in Versions /\ used[d] \in Nat
    BY DEF TypeOK, Powers
  <2>4. pc' \in {"check", "returned"}
    BY <1>4 DEF ListCodespaces
  <2>5. PhaseInv(d)'
    BY <1>1, <2>2, <2>3, <2>4 DEF PhaseInv, Unlisted
  <2>6. SeenInv(d)' /\ RowInv(d)'
    <3>1. CASE seen'[d] = Unlisted
      BY <2>1, <3>1 DEF Unlisted, Parts, DataInv, SeenInv, RowInv
    <3>2. CASE seen'[d].used = used[d] /\ seen'[d].logs = logs[d]
      <4>1. AtLeast(logs[d], logs[d])
        BY <2>3, AtLeastReflexive
      <4>2. QED
        BY <2>1, <2>3, <3>2, <4>1 DEF Parts, DataInv, SeenInv, RowInv, Delivered
    <3>3. QED
      BY <2>2, <3>1, <3>2
  <2>7. CopyInv(d)'
    <3>1. got[d] = NoLogs /\ Names(NoLogs) = {}
      BY <1>1 DEF Parts, DataInv, CopyInv, Names, NoLogs
    <3>2. QED
      BY <1>1, <2>1, <3>1 DEF Parts, DataInv, CopyInv
  <2>8. QED
    BY <1>2, <2>5, <2>6, <2>7 DEF Parts, DataInv
<1>5. QED
  BY <1>3, <1>4

LEMMA CheckInv ==
    ASSUME TypeOK, NEW c \in Codespaces,
           \/ SkipUnchanged(c) \/ ListRemoteLogFiles(c) \/ MakePending(c) \/ ListRemoteFails(c),
           NEW d \in Codespaces, Parts(d)
    PROVE  Parts(d)'
<1> USE DEF world, tables, copy
<1>1. pc = "check" /\ c \in todo /\ pc' = pc /\ seen' = seen /\ todo' = todo \ {c}
  BY DEF SkipUnchanged, ListRemoteLogFiles, MakePending, ListRemoteFails, Decided
<1>2. /\ UNCHANGED <<used, logs, row, stored, lost, got, slot>>
      /\ by'[d] = by[d] \/ by'[d] # "copy"
  BY DEF SkipUnchanged, ListRemoteLogFiles, MakePending, ListRemoteFails, Reach, Pending, TypeOK
<1>3. stage'[d] = stage[d] \/ (d = c /\ stage'[d] = "queued")
  BY DEF SkipUnchanged, ListRemoteLogFiles, MakePending, ListRemoteFails, Pending, TypeOK
<1>4. stage[d] \in {"none", "queued"} /\ stage'[d] \in {"none", "queued"}
  BY <1>1, <1>3 DEF Parts, PhaseInv
<1>5. SlotInv(d)'
  BY <1>1, <1>2, <1>4 DEF Parts, SlotInv, Holding
<1>6. PhaseInv(d)'
  BY <1>1, <1>4 DEF Parts, PhaseInv
<1>7. DataInv(d)'
  <2>1. got[d] = NoLogs
    BY <1>4 DEF Parts, DataInv, CopyInv
  <2>2. d = c => seen[d].state # "none"
    BY <1>1 DEF Parts, PhaseInv
  <2>3. QED
    BY <1>1, <1>2, <1>3, <2>1, <2>2, DataKept DEF Parts, SameData
<1>8. QED
  BY <1>5, <1>6, <1>7 DEF Parts

(* The steps of the tick that only change its own place. *)
LEMMA TickInv ==
    ASSUME TypeOK, StartWorkers \/ CollectResults \/ EndTick,
           NEW d \in Codespaces, Parts(d)
    PROVE  Parts(d)'
<1> USE DEF world, tables, copy
<1>1. UNCHANGED <<used, logs, by, row, stored, lost, seen, got, stage, slot, todo>>
  BY DEF StartWorkers, CollectResults, EndTick
<1>2. DataInv(d)' /\ SlotInv(d)'
  BY <1>1, DataKept, SlotOfOthers DEF Parts, SameData
<1>3. PhaseInv(d)'
  BY <1>1 DEF StartWorkers, CollectResults, EndTick, Parts, PhaseInv
<1>4. QED
  BY <1>2, <1>3 DEF Parts

(* A step of the copy of c leaves the other codespaces alone. *)
LEMMA OtherCopies ==
    ASSUME NEW c \in Codespaces, NEW d \in Codespaces, d # c, Parts(d),
           UNCHANGED <<pc, seen, todo, row, stored, used, logs>>,
           stage'[d] = stage[d], by'[d] = by[d], got'[d] = got[d],
           d \in lost' <=> d \in lost,
           slot' = slot \/ (slot \in {c, Free} /\ slot' \in {c, Free})
    PROVE  Parts(d)'
BY DataKept, SlotOfOthers, PhaseKept DEF Parts, SameData

(* c's own step: what its stage and slot must be afterwards. *)
LEMMA OwnCopy ==
    ASSUME NEW c \in Codespaces, Parts(c), pc = "copy", stage[c] # "none",
           UNCHANGED <<pc, seen, row, stored, lost, used, logs, got>>,
           stage'[c] # "stored",
           got[c] = NoLogs \/ stage'[c] \notin {"none", "queued", "limit", "ssh", "cp"},
           SlotInv(c)'
    PROVE  Parts(c)'
<1>1. seen[c].state # "none"
  BY DEF Parts, DataInv, CopyInv
<1>2. DataInv(c)'
  BY <1>1, DataKept DEF Parts, SameData
<1>3. PhaseInv(c)'
  BY DEF PhaseInv
<1>4. QED
  BY <1>2, <1>3 DEF Parts

BusyCopy == {"limit", "ssh", "cp", "stop", "release"}

LEMMA BusyInCopy ==
    ASSUME TypeOK, NEW c \in Codespaces, Parts(c), stage[c] \in BusyCopy
    PROVE  pc = "copy"
BY DEF TypeOK, PCs, Parts, PhaseInv, BusyCopy

LEMMA EnterInv ==
    ASSUME TypeOK, NEW c \in Codespaces, Parts(c),
           TakeJob(c) \/ TakeJobFails(c) \/ AcquireSlot(c),
           NEW d \in Codespaces, Parts(d)
    PROVE  Parts(d)'
<1> USE DEF world, tables, tick, Goto
<1>1. /\ UNCHANGED <<pc, seen, todo, row, stored, lost, used, logs, by, got>>
      /\ \A x \in Codespaces \ {c} : stage'[x] = stage[x]
      /\ slot' = slot \/ (slot = Free /\ slot' = c)
  BY DEF TakeJob, TakeJobFails, AcquireSlot, TypeOK
<1>2. stage[c] \in {"queued", "limit"} /\ pc = "copy"
  BY BusyInCopy DEF TakeJob, TakeJobFails, AcquireSlot, BusyCopy
<1>3. /\ stage'[c] \in {"limit", "ssh", "done"}
      /\ stage'[c] = "limit" => WasStopped(c) /\ slot' = slot
      /\ stage'[c] = "ssh" => (IF WasStopped(c) THEN slot' = c ELSE slot' = slot)
      /\ stage'[c] = "done" => slot' = slot
  BY DEF TakeJob, TakeJobFails, AcquireSlot, TypeOK, Parts, SlotInv
<1>4. SlotInv(c)'
  BY <1>1, <1>2, <1>3, ConstantsAssumption DEF Parts, SlotInv, WasStopped, Holding
<1>5. got[c] = NoLogs
  BY <1>2 DEF Parts, DataInv, CopyInv
<1>6. CASE d = c
  BY <1>1, <1>2, <1>3, <1>4, <1>5, <1>6, OwnCopy
<1>7. CASE d # c
  BY <1>1, <1>7, OtherCopies
<1>8. QED
  BY <1>6, <1>7

(* Trying to copy may start the codespace, in c's own name only when it    *)
(* was stopped, and then the slot is held.                                 *)
LEMMA CopyInvStep ==
    ASSUME TypeOK, TypeOK', NEW c \in Codespaces, Parts(c),
           SshTar(c) \/ SshTarFails(c) \/ GhCsCp(c) \/ GhCsCpThrottled(c) \/ GhCsCpFails(c),
           NEW d \in Codespaces, Parts(d)
    PROVE  Parts(d)'
<1> USE DEF world, tables, tick, Goto
<1>1. /\ UNCHANGED <<pc, seen, todo, row, stored, lost, used, logs, slot>>
      /\ \A x \in Codespaces \ {c} : stage'[x] = stage[x] /\ got'[x] = got[x] /\ by'[x] = by[x]
  BY DEF SshTar, SshTarFails, GhCsCp, GhCsCpThrottled, GhCsCpFails, Copied, NotCopied, Leave,
     CopyReaches, Reach, TypeOK
<1>2. by'[c] = by[c] \/ by'[c] = "left" \/ (by'[c] = "copy" /\ WasStopped(c))
  BY DEF SshTar, SshTarFails, GhCsCp, GhCsCpThrottled, GhCsCpFails, CopyReaches, Reach, TypeOK
<1>3. stage[c] \in {"ssh", "cp"} /\ pc = "copy"
  BY BusyInCopy DEF SshTar, SshTarFails, GhCsCp, GhCsCpThrottled, GhCsCpFails, BusyCopy
<1>4. \/ stage'[c] = "cp" /\ got' = got
      \/ /\ stage'[c] = (IF WasStopped(c) THEN "stop" ELSE "done")
         /\ got'[c] = got[c] \/ got'[c] = logs[c]
  BY DEF SshTar, SshTarFails, GhCsCp, GhCsCpThrottled, GhCsCpFails, Copied, NotCopied, Leave,
     TypeOK
<1>5. SlotInv(c)'
  BY <1>1, <1>2, <1>3, <1>4 DEF Parts, SlotInv, WasStopped, Holding
<1>6. got[c] = NoLogs /\ seen[c].state # "none"
  BY <1>3 DEF Parts, DataInv, CopyInv
<1>7. CASE d = c /\ got'[c] = got[c]
  <2>1. DataInv(c)'
    BY <1>1, <1>4, <1>6, <1>7, DataKept DEF Parts, SameData
  <2>2. PhaseInv(c)'
    BY <1>1, <1>3 DEF PhaseInv
  <2>3. QED
    BY <1>5, <1>7, <2>1, <2>2 DEF Parts
<1>8. CASE d = c /\ got'[c] = logs[c] /\ stage'[c] \in {"stop", "done"}
  <2>1. SeenInv(c)' /\ RowInv(c)'
    BY <1>1, <1>8 DEF Parts, DataInv, SeenInv, RowInv, Delivered
  <2>2. AtLeast(logs[c], logs[c])
    BY AtLeastReflexive DEF TypeOK
  <2>3. AtLeast(logs[c], seen[c].logs) /\ AtLeast(logs[c], stored[c])
    BY <1>6, <1>8 DEF Parts, DataInv, SeenInv, CopyInv
  <2>4. CopyInv(c)'
    BY <1>1, <1>6, <1>8, <2>2, <2>3 DEF CopyInv
  <2>5. PhaseInv(c)'
    BY <1>1, <1>3 DEF PhaseInv
  <2>6. QED
    BY <1>5, <1>8, <2>1, <2>4, <2>5 DEF Parts, DataInv
<1>9. CASE d # c
  BY <1>1, <1>9, OtherCopies
<1>10. QED
  BY <1>4, <1>7, <1>8, <1>9

LEMMA LeaveInv ==
    ASSUME TypeOK, NEW c \in Codespaces, Parts(c),
           StopCodespace(c) \/ StopFails(c) \/ ReleaseSlot(c),
           NEW d \in Codespaces, Parts(d)
    PROVE  Parts(d)'
<1> USE DEF world, tables, tick, Goto
<1>1. /\ UNCHANGED <<pc, seen, todo, row, stored, lost, used, logs, got>>
      /\ \A x \in Codespaces \ {c} : stage'[x] = stage[x] /\ by'[x] = by[x]
  BY DEF StopCodespace, StopFails, ReleaseSlot, TypeOK
<1>2. stage[c] \in {"stop", "release"} /\ pc = "copy" /\ WasStopped(c) /\ slot = c
  BY BusyInCopy DEF StopCodespace, StopFails, ReleaseSlot, BusyCopy, Parts, SlotInv, Holding
<1>3. \/ stage'[c] = "release" /\ slot' = slot /\ by'[c] # "copy"
      \/ stage'[c] = "done" /\ slot' = Free /\ by'[c] = by[c] /\ stage[c] = "release"
  BY <1>2 DEF StopCodespace, StopFails, ReleaseSlot, TypeOK
<1>4. SlotInv(c)'
  BY <1>1, <1>2, <1>3, ConstantsAssumption DEF Parts, SlotInv, WasStopped, Holding
<1>5. CASE d = c
  BY <1>1, <1>2, <1>3, <1>4, <1>5, OwnCopy
<1>6. CASE d # c
  BY <1>1, <1>2, <1>3, <1>6, OtherCopies
<1>7. QED
  BY <1>5, <1>6

(* The copy of c is over, and nothing of it remains. *)
LEMMA DoneParts ==
    ASSUME TypeOK, NEW c \in Codespaces, stage[c] \in {"done", "stored"}, Done(c), pc = "ingest",
           UNCHANGED <<pc, seen, todo, logs, by, stored>>,
           SeenInv(c)', RowInv(c)', CopyInv(c), SlotInv(c)
    PROVE  Parts(c)'
<1>1. got'[c] = NoLogs /\ stage'[c] = "none" /\ slot' = slot
  BY DEF Done, Goto, TypeOK
<1>2. AtLeast(logs[c], NoLogs) /\ Names(NoLogs) = {}
  BY AtLeastReflexive DEF TypeOK, Names, NoLogs
<1>3. CopyInv(c)'
  BY <1>1, <1>2 DEF CopyInv
<1>4. SlotInv(c)' /\ PhaseInv(c)'
  BY <1>1 DEF SlotInv, PhaseInv, WasStopped, Holding
<1>5. QED
  BY <1>3, <1>4 DEF Parts, DataInv

LEMMA IngestOthers ==
    ASSUME TypeOK, NEW c \in Codespaces,
           CountFailedCopy(c) \/ IngestLogs(c) \/ IngestFails(c) \/ UpsertCodespaceSyncState(c),
           NEW d \in Codespaces, d # c, Parts(d)
    PROVE  Parts(d)'
<1> USE DEF world, tables, tick, Goto
<1>1. UNCHANGED <<pc, seen, todo, used, logs, by, slot>>
  BY DEF CountFailedCopy, IngestLogs, IngestFails, UpsertCodespaceSyncState, Done
<1>2. /\ row'[d] = row[d] /\ stored'[d] = stored[d] /\ (d \in lost' <=> d \in lost)
      /\ stage'[d] = stage[d] /\ got'[d] = got[d]
  BY DEF CountFailedCopy, IngestLogs, IngestFails, UpsertCodespaceSyncState, Done, TypeOK
<1>3. QED
  BY <1>1, <1>2, DataKept, SlotOfOthers, PhaseKept DEF Parts, SameData

LEMMA IngestInv ==
    ASSUME TypeOK, NEW c \in Codespaces, Parts(c),
           CountFailedCopy(c) \/ IngestLogs(c) \/ IngestFails(c) \/ UpsertCodespaceSyncState(c)
    PROVE  Parts(c)'
<1> USE DEF world, tables, tick
<1>1. pc = "ingest" /\ stage[c] \in {"done", "stored"} /\ seen[c].state # "none"
  BY DEF CountFailedCopy, IngestLogs, IngestFails, UpsertCodespaceSyncState, Parts, DataInv,
     CopyInv
<1>2. CASE CountFailedCopy(c)
  <2>1. UNCHANGED <<pc, seen, todo, used, logs, by, row, stored, lost>> /\ Done(c)
    BY <1>2 DEF CountFailedCopy
  <2>2. SeenInv(c)' /\ RowInv(c)'
    BY <2>1 DEF Parts, DataInv, SeenInv, RowInv, Delivered
  <2>3. QED
    BY <1>1, <2>1, <2>2, DoneParts DEF Parts, DataInv
<1>3. CASE IngestLogs(c)
  <2>1. /\ UNCHANGED <<pc, seen, todo, used, logs, by, row, slot, got>>
        /\ stored'[c] = got[c] /\ c \notin lost' /\ stage'[c] = "stored" /\ stage[c] = "done"
        /\ Names(got[c]) # {}
    BY <1>3 DEF IngestLogs, Goto, TypeOK
  <2>2. AtLeast(got[c], seen[c].logs) /\ AtLeast(logs[c], got[c])
    BY <2>1 DEF Parts, DataInv, CopyInv
  <2>3. SeenInv(c)'
    BY <2>1 DEF Parts, DataInv, SeenInv
  <2>4. RowInv(c)'
    <3>1. row[c] \in Nat /\ used[c] \in Nat /\ seen[c].used \in Nat
          /\ row[c] <= seen[c].used /\ seen[c].used <= used[c]
      BY <1>1 DEF TypeOK, Listing, Parts, DataInv, SeenInv, RowInv
    <3>2. row[c] = used[c] => AtLeast(seen[c].logs, logs[c])
      BY <1>1, <3>1 DEF Parts, DataInv, SeenInv
    <3>3. row[c] = used[c] => AtLeast(got[c], logs[c])
      BY <2>2, <3>2, AtLeastTransitive DEF TypeOK, Listing
    <3>4. QED
      BY <2>1, <2>2, <3>1, <3>3 DEF Parts, DataInv, RowInv, Delivered
  <2>5. CopyInv(c)'
    BY <1>1, <2>1, <2>2 DEF Parts, DataInv, CopyInv, Delivered
  <2>6. SlotInv(c)' /\ PhaseInv(c)'
    BY <1>1, <2>1 DEF Parts, SlotInv, PhaseInv, WasStopped, Holding
  <2>7. QED
    BY <2>3, <2>4, <2>5, <2>6 DEF Parts, DataInv
<1>4. CASE IngestFails(c)
  <2>1. /\ UNCHANGED <<pc, seen, todo, used, logs, by, row, stored, slot, got>>
        /\ c \in lost' /\ stage'[c] = "stored" /\ stage[c] = "done"
    BY <1>4 DEF IngestFails, Goto, TypeOK
  <2>2. DataInv(c)'
    BY <1>1, <2>1 DEF Parts, DataInv, SeenInv, RowInv, CopyInv
  <2>3. SlotInv(c)' /\ PhaseInv(c)'
    BY <1>1, <2>1 DEF Parts, SlotInv, PhaseInv, WasStopped, Holding
  <2>4. QED
    BY <2>2, <2>3 DEF Parts
<1>5. CASE UpsertCodespaceSyncState(c)
  <2>1. /\ UNCHANGED <<pc, seen, todo, used, logs, by, stored, lost>> /\ Done(c)
        /\ row'[c] = seen[c].used /\ stage[c] = "stored"
    BY <1>5 DEF UpsertCodespaceSyncState, TypeOK
  <2>2. SeenInv(c)'
    BY <2>1 DEF Parts, DataInv, SeenInv
  <2>3. c \notin lost => Delivered(c)
    BY <2>1 DEF Parts, DataInv, CopyInv
  <2>4. RowInv(c)'
    <3>1. seen[c].used <= used[c] /\ seen[c].used \in Nat
      BY <1>1 DEF Parts, DataInv, SeenInv, TypeOK, Listing
    <3>2. seen[c].used = used[c] => AtLeast(seen[c].logs, logs[c])
      BY <1>1 DEF Parts, DataInv, SeenInv
    <3>3. c \notin lost /\ seen[c].used = used[c] => AtLeast(stored[c], logs[c])
      BY <2>3, <3>2, AtLeastTransitive DEF Delivered, TypeOK, Listing
    <3>4. QED
      BY <2>1, <2>3, <3>1, <3>3 DEF RowInv, Delivered
  <2>5. QED
    BY <1>1, <2>1, <2>2, <2>4, DoneParts DEF Parts, DataInv
<1>6. QED
  BY <1>2, <1>3, <1>4, <1>5

(* The tick is forgotten, at its end or because the process died. *)
LEMMA ForgetInv ==
    ASSUME TypeOK, NextTick \/ Crash, NEW d \in Codespaces, Parts(d)
    PROVE  Parts(d)'
<1> USE DEF tables, copy, world
<1>1. /\ UNCHANGED <<used, logs, row, stored, lost>> /\ pc' = "idle" /\ seen'[d] = Unlisted
      /\ stage'[d] = "none" /\ got'[d] = NoLogs
  BY DEF NextTick, Crash, Forget, Parts, DataInv, CopyInv, PhaseInv
<1>2. AtLeast(logs[d], NoLogs) /\ Names(NoLogs) = {}
  BY AtLeastReflexive DEF TypeOK, Names, NoLogs
<1>3. DataInv(d)'
  BY <1>1, <1>2 DEF Parts, DataInv, SeenInv, RowInv, CopyInv, Unlisted
<1>4. slot' # d /\ by'[d] # "copy"
  <2>1. CASE Crash
    BY <2>1, ConstantsAssumption DEF Crash
  <2>2. CASE NextTick
    <3>1. stage[d] = "none" /\ slot' = slot /\ by' = by
      BY <2>2 DEF NextTick, Parts, PhaseInv
    <3>2. QED
      BY <3>1 DEF Parts, SlotInv, Holding
  <2>3. QED
    BY <2>1, <2>2
<1>5. SlotInv(d)' /\ PhaseInv(d)'
  BY <1>1, <1>4 DEF SlotInv, PhaseInv, Holding
<1>6. QED
  BY <1>3, <1>5 DEF Parts

LEMMA InvStep == CodespacesInv /\ [Next]_vars => CodespacesInv'
<1> SUFFICES ASSUME CodespacesInv, [Next]_vars PROVE CodespacesInv'
  OBVIOUS
<1>1. TypeOK /\ TypeOK'
  BY StepType DEF CodespacesInv
<1>2. \A c \in Codespaces : Parts(c)
  BY DEF CodespacesInv, Parts, DataInv
<1>3. ASSUME NEW d \in Codespaces PROVE Parts(d)'
  <2>1. CASE World
    BY <1>1, <1>2, <2>1, UseInv, TurnOffInv DEF World
  <2>2. CASE \E o \in Options : ListCodespaces(o) \/ ListFails(o)
    BY <1>1, <1>2, <2>2, ListInv
  <2>3. CASE CheckStep
    BY <1>1, <1>2, <2>3, CheckInv, TickInv DEF CheckStep
  <2>4. ASSUME NEW c \in Codespaces, CopyStep(c) PROVE Parts(d)'
    BY <1>1, <1>2, <2>4, EnterInv, CopyInvStep, LeaveInv DEF CopyStep
  <2>5. CASE IngestStep
    BY <1>1, <1>2, <2>5, TickInv, IngestInv, IngestOthers, ForgetInv DEF IngestStep
  <2>6. ASSUME NEW c \in Codespaces, FaultStep(c) PROVE Parts(d)'
    BY <1>1, <1>2, <2>6, CheckInv, EnterInv, CopyInvStep, LeaveInv, IngestInv, IngestOthers
       DEF FaultStep
  <2>7. CASE Crash
    BY <1>1, <1>2, <2>7, ForgetInv
  <2>8. CASE UNCHANGED vars
    BY <1>2, <2>8, DataKept, SlotOfOthers, PhaseKept
       DEF vars, world, tables, tick, copy, Parts, SameData
  <2>9. QED
    BY <2>1, <2>2, <2>3, <2>4, <2>5, <2>6, <2>7, <2>8 DEF Next
<1>4. QED
  BY <1>1, <1>3 DEF CodespacesInv, Parts, DataInv

(* What the tables and the listing say of every codespace is true at every *)
(* moment of every tick.                                                   *)
THEOREM TablesAreHonest == Spec => []CodespacesInv
BY InvInit, InvStep, PTL DEF Spec

(* A codespace that will be skipped as unchanged has all its logs stored,  *)
(* for any number of codespaces, workers and faults.                       *)
THEOREM SkippedIsStored == Spec => []UnchangedMeansStored
<1>1. CodespacesInv => UnchangedMeansStored
  BY DEF CodespacesInv, RowInv, UnchangedMeansStored
<1>2. QED
  BY <1>1, TablesAreHonest, PTL

(* Every codespace a copy has started holds the slot, so that two are      *)
(* never running for the sync, and none when the slot is free.             *)
THEOREM OneAtATime == Spec => []StartedHoldsSlot
<1>1. CodespacesInv => StartedHoldsSlot
  BY DEF CodespacesInv, SlotInv, StartedHoldsSlot
<1>2. QED
  BY <1>1, TablesAreHonest, PTL
-----------------------------------------------------------------------------
(* What a tick owes *)

Due(c) == opt.force \/ ~WasStopped(c) \/ seen[c].fresh

(* A codespace whose logs are due is still to be decided on, in a copy, or *)
(* delivered; one that is not decided on is as new as when it was listed.  *)
DueInv(c) ==
    /\ pc = "idle" \/ seen[c].state = "none" => seen[c] = Unlisted
    /\ pc # "check" => todo = {}
    /\ pc = "check" /\ seen[c].fresh => ~(Names(seen[c].logs) \subseteq known[c])
    /\ Due(c) /\ c \notin failed \cup lost =>
          c \in todo \/ stage[c] # "none" \/ Delivered(c)

LEMMA UnlistedIsDelivered ==
    ASSUME TypeOK, NEW c \in Codespaces, seen[c] = Unlisted
    PROVE  Delivered(c)
BY AtLeastReflexive DEF Delivered, Unlisted, TypeOK

LEMMA DueInit ==
    ASSUME Init, NEW c \in Codespaces
    PROVE  DueInv(c)
<1>1. seen[c] = Unlisted /\ pc = "idle" /\ todo = {} /\ TypeOK
  BY InitType DEF Init
<1>2. QED
  BY <1>1, UnlistedIsDelivered DEF DueInv

(* A step within the tick that neither decides on d nor ends its copy. *)
LEMMA DueKept ==
    ASSUME NEW d \in Codespaces, DueInv(d),
           pc' = pc, opt' = opt, todo' = todo, seen'[d] = seen[d],
           known'[d] = known[d] \/ pc # "check",
           failed \subseteq failed', d \in lost => d \in lost' \/ Delivered(d)',
           stage[d] # "none" => stage'[d] # "none" \/ d \in failed' \/ Delivered(d)',
           Delivered(d) => Delivered(d)'
    PROVE  DueInv(d)'
BY DEF DueInv, Due, WasStopped

LEMMA DueListed ==
    ASSUME TypeOK, TypeOK', NEW o \in Options, ListCodespaces(o) \/ ListFails(o),
           NEW d \in Codespaces, DueInv(d)
    PROVE  DueInv(d)'
<1> USE DEF world, tables, copy
<1>1. CASE ListFails(o)
  <2>1. seen'[d] = Unlisted /\ pc' = "returned" /\ todo' = {}
    BY <1>1 DEF ListFails, DueInv
  <2>2. Delivered(d)'
    BY <2>1, AtLeastReflexive DEF Delivered, Unlisted, TypeOK
  <2>3. QED
    BY <2>1, <2>2 DEF DueInv
<1>2. CASE ListCodespaces(o)
  <2>1. known' = known /\ pc' \in {"check", "returned"} /\ (pc' = "returned" => todo' = {})
    BY <1>2 DEF ListCodespaces
  <2>2. \/ seen'[d] = Unlisted
        \/ /\ d \in todo' /\ seen'[d].logs = logs[d] /\ seen'[d].state = power[d]
           /\ seen'[d].fresh = ~(Names(logs[d]) \subseteq known[d])
    BY <1>2 DEF ListCodespaces
  <2>3. CASE seen'[d] = Unlisted
    <3>1. Delivered(d)'
      BY <2>3, AtLeastReflexive DEF Delivered, Unlisted, TypeOK
    <3>2. ~seen'[d].fresh
      BY <2>3 DEF Unlisted
    <3>3. QED
      BY <2>1, <2>3, <3>1, <3>2 DEF DueInv
  <2>4. CASE seen'[d] # Unlisted
    <3>1. power[d] # "none"
      BY DEF TypeOK, Powers
    <3>2. QED
      BY <2>1, <2>2, <2>4, <3>1 DEF DueInv
  <2>5. QED
    BY <2>3, <2>4
<1>3. QED
  BY <1>1, <1>2

(* The names of a log's versions only become more. *)
LEMMA NamesGrow ==
    ASSUME NEW a \in Versions, NEW b \in Versions, AtLeast(a, b)
    PROVE  Names(b) \subseteq Names(a)
<1>1. ASSUME NEW n \in Logs, b[n] # 0 PROVE a[n] # 0
  <2>1. a[n] \in Nat /\ b[n] \in Nat /\ a[n] >= b[n]
    BY DEF Versions, AtLeast
  <2>2. QED
    BY <1>1, <2>1
<1>2. QED
  BY <1>1 DEF Names

LEMMA DueDecided ==
    ASSUME CodespacesInv, NEW c \in Codespaces,
           \/ SkipUnchanged(c) \/ ListRemoteLogFiles(c) \/ MakePending(c) \/ ListRemoteFails(c),
           NEW d \in Codespaces, DueInv(d)
    PROVE  DueInv(d)'
<1> USE DEF world, tables, copy
<1>1. /\ pc = "check" /\ c \in todo /\ todo' = todo \ {c}
      /\ UNCHANGED <<pc, opt, seen, failed, known, lost, stored>>
  BY DEF SkipUnchanged, ListRemoteLogFiles, MakePending, ListRemoteFails, Decided
<1>2. TypeOK /\ SeenInv(c) /\ RowInv(c) /\ seen[c].state # "none"
  BY <1>1 DEF CodespacesInv, PhaseInv
<1>3. stage'[d] = stage[d] \/ stage'[d] = "queued"
  BY <1>2 DEF SkipUnchanged, ListRemoteLogFiles, MakePending, ListRemoteFails, Pending, TypeOK
<1>4. CASE d # c
  BY <1>1, <1>3, <1>4 DEF DueInv, Due, WasStopped, Delivered
<1>5. CASE d = c
  <2>1. CASE stage'[c] = "queued"
    BY <1>1, <1>5, <2>1 DEF DueInv, Due, WasStopped, Delivered
  <2>2. CASE SkipUnchanged(c)
    <3>1. c \notin lost => Delivered(c)
      BY <1>2, <2>2 DEF SkipUnchanged, Unchanged, RowInv
    <3>2. QED
      BY <1>1, <1>5, <3>1 DEF DueInv, Due, WasStopped, Delivered
  <2>3. CASE ListRemoteLogFiles(c) /\ Names(logs[c]) \subseteq known[c]
    <3>1. ~opt.force /\ WasStopped(c)
      BY <2>3 DEF ListRemoteLogFiles, AsksForNames
    <3>2. logs[c] \in Versions /\ seen[c].logs \in Versions /\ AtLeast(logs[c], seen[c].logs)
      BY <1>2 DEF SeenInv, TypeOK, Listing
    <3>3. Names(seen[c].logs) \subseteq known[c]
      BY <2>3, <3>2, NamesGrow
    <3>4. ~Due(c)
      BY <1>1, <1>5, <3>1, <3>3 DEF Due, DueInv
    <3>5. QED
      BY <1>1, <1>5, <3>4 DEF DueInv, Due, WasStopped
  <2>4. stage'[c] = "queued" \/ SkipUnchanged(c)
        \/ (ListRemoteLogFiles(c) /\ Names(logs[c]) \subseteq known[c])
    BY <1>2 DEF ListRemoteLogFiles, MakePending, ListRemoteFails, Pending, TypeOK
  <2>5. QED
    BY <2>1, <2>2, <2>3, <2>4
<1>6. QED
  BY <1>4, <1>5

LEMMA DueCopied ==
    ASSUME TypeOK, NEW c \in Codespaces,
           \/ CopyStep(c) \/ TakeJobFails(c) \/ SshTarFails(c) \/ GhCsCpThrottled(c)
           \/ GhCsCpFails(c) \/ StopFails(c),
           NEW d \in Codespaces, DueInv(d)
    PROVE  DueInv(d)'
<1>1. UNCHANGED <<tables, tick>>
  BY DEF CopyStep, TakeJob, AcquireSlot, SshTar, GhCsCp, StopCodespace, ReleaseSlot,
     TakeJobFails, SshTarFails, GhCsCpThrottled, GhCsCpFails, StopFails
<1>2. stage[d] # "none" => stage'[d] # "none"
  BY DEF CopyStep, TakeJob, AcquireSlot, SshTar, GhCsCp, StopCodespace, ReleaseSlot,
     TakeJobFails, SshTarFails, GhCsCpThrottled, GhCsCpFails, StopFails, Copied, NotCopied,
     Leave, Goto, TypeOK
<1>3. QED
  BY <1>1, <1>2, DueKept DEF tables, tick, Delivered

LEMMA DueIngested ==
    ASSUME CodespacesInv, NEW c \in Codespaces,
           CountFailedCopy(c) \/ IngestLogs(c) \/ IngestFails(c) \/ UpsertCodespaceSyncState(c),
           NEW d \in Codespaces, DueInv(d)
    PROVE  DueInv(d)'
<1> USE DEF world, tables, tick, copy
<1>1. TypeOK /\ CopyInv(c)
  BY DEF CodespacesInv
<1>2. /\ UNCHANGED <<pc, opt, todo, seen>> /\ pc = "ingest" /\ failed \subseteq failed'
  BY DEF CountFailedCopy, IngestLogs, IngestFails, UpsertCodespaceSyncState
<1>3. CASE d # c
  <2>1. /\ stored'[d] = stored[d] /\ stage'[d] = stage[d] /\ (d \in lost' <=> d \in lost)
    BY <1>1, <1>3 DEF CountFailedCopy, IngestLogs, IngestFails, UpsertCodespaceSyncState,
       Done, Goto, TypeOK
  <2>2. QED
    BY <1>2, <2>1, DueKept DEF Delivered
<1>4. CASE d = c /\ CountFailedCopy(c)
  <2>1. UNCHANGED <<stored, lost>> /\ c \in failed'
    BY <1>4 DEF CountFailedCopy
  <2>2. QED
    BY <1>2, <1>4, <2>1, DueKept DEF Delivered
<1>5. CASE d = c /\ IngestLogs(c)
  <2>1. stored'[c] = got[c] /\ AtLeast(got[c], seen[c].logs)
    BY <1>1, <1>5 DEF IngestLogs, TypeOK, CopyInv
  <2>2. Delivered(c)'
    BY <1>2, <2>1 DEF Delivered
  <2>3. QED
    BY <1>2, <1>5, <2>2, DueKept
<1>6. CASE d = c /\ IngestFails(c)
  <2>1. stored' = stored /\ lost \subseteq lost' /\ stage'[c] = "stored"
    BY <1>1, <1>6 DEF IngestFails, Goto, TypeOK
  <2>2. QED
    BY <1>2, <1>6, <2>1, DueKept DEF Delivered
<1>7. CASE d = c /\ UpsertCodespaceSyncState(c)
  <2>1. UNCHANGED <<stored, lost, failed>> /\ stage[c] = "stored"
    BY <1>7 DEF UpsertCodespaceSyncState
  <2>2. c \notin lost => Delivered(c)
    BY <1>1, <2>1 DEF CopyInv
  <2>3. QED
    BY <1>2, <1>7, <2>1, <2>2 DEF DueInv, Delivered
<1>8. QED
  BY <1>3, <1>4, <1>5, <1>6, <1>7

LEMMA DueTick ==
    ASSUME TypeOK, TypeOK',
           StartWorkers \/ CollectResults \/ EndTick \/ NextTick \/ Crash,
           NEW d \in Codespaces, DueInv(d)
    PROVE  DueInv(d)'
<1> USE DEF world, tables, copy
<1>1. CASE StartWorkers \/ CollectResults \/ EndTick
  <2>1. UNCHANGED <<opt, todo, seen, failed, known, lost, stored, stage>> /\ todo = {}
    BY <1>1 DEF StartWorkers, CollectResults, EndTick, DueInv
  <2>2. pc' \notin {"idle", "check"}
    BY <1>1 DEF StartWorkers, CollectResults, EndTick
  <2>3. QED
    BY <2>1, <2>2 DEF DueInv, Due, WasStopped, Delivered
<1>2. CASE NextTick \/ Crash
  <2>1. pc' = "idle" /\ seen'[d] = Unlisted /\ todo' = {}
    BY <1>2 DEF NextTick, Crash, Forget, DueInv
  <2>2. Delivered(d)'
    BY <2>1, AtLeastReflexive DEF Delivered, Unlisted, TypeOK
  <2>3. QED
    BY <2>1, <2>2 DEF DueInv
<1>3. QED
  BY <1>1, <1>2

LEMMA DueStep ==
    ASSUME CodespacesInv, CodespacesInv', [Next]_vars, NEW d \in Codespaces, DueInv(d)
    PROVE  DueInv(d)'
<1>1. TypeOK /\ TypeOK'
  BY DEF CodespacesInv
<1>2. CASE World \/ UNCHANGED vars
  <2>1. UNCHANGED <<tables, tick, stage>>
    BY <1>2 DEF World, Use, StopByUser, IdleTimeout, TurnOff, vars, copy
  <2>2. QED
    BY <2>1, DueKept DEF tables, tick, Delivered
<1>3. QED
  BY <1>1, <1>2, DueListed, DueDecided, DueCopied, DueIngested, DueTick
     DEF Next, CheckStep, CopyStep, IngestStep, FaultStep

(* A tick that returns has stored, or reported, whatever was due when it   *)
(* listed the codespaces, for any number of them and any faults.           *)
THEOREM TicksDeliver == Spec => []TickDelivers
<1> DEFINE Owed == \A c \in Codespaces : DueInv(c)
<1>1. Init => CodespacesInv /\ Owed
  BY InvInit, DueInit
<1>2. CodespacesInv /\ Owed /\ [Next]_vars => (CodespacesInv /\ Owed)'
  BY InvStep, DueStep
<1>3. CodespacesInv /\ Owed => TickDelivers
  <2> SUFFICES ASSUME CodespacesInv, Owed, pc = "returned",
                      NEW c \in Codespaces \ (failed \cup lost), Due(c)
               PROVE  Delivered(c)
    BY DEF TickDelivers, Due
  <2>1. todo = {} /\ stage[c] = "none"
    BY DEF DueInv, CodespacesInv, PhaseInv
  <2>2. QED
    BY <2>1 DEF DueInv
<1>4. QED
  BY <1>1, <1>2, <1>3, PTL DEF Spec
=============================================================================
