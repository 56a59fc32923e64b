------------------------------- MODULE WebSync -------------------------------
(***************************************************************************)
(* The web server's syncs (go/web_mode.go): every sync action - at         *)
(* startup, on a ticker, on POST /actions/sync-codespaces, or when the     *)
(* local streaming loop sees a change - takes refreshMu with TryLock,      *)
(* ingests one source, writes that source's sync status and rebuilds the   *)
(* snapshot that the dashboard shows.                                      *)
(*                                                                         *)
(* Abstractions.  A source's data is a version number: how many times it   *)
(* was written.  Ingesting is LogSync's subject; here it is one step, from *)
(* the version in the source to the version in the database.  A status is  *)
(* a member of a small set.  The copy of the statuses in the snapshot is   *)
(* always equal to syncStatus and is left out; so is the broadcast of the  *)
(* snapshot to the pages, which is LiveUpdates's subject.                  *)
(***************************************************************************)
EXTENDS Integers

CONSTANTS
    LocalTicks,       \* concurrent goroutines of the local refresh ticker
    CodespacesTicks,  \* and of the Codespaces ticker
    Posts,            \* concurrent POST /actions/sync-codespaces
    LocalStart, CodespacesStart, Stream, \* the startup syncs, the streaming loop
    AutoMode,             \* --web-codespaces-mode auto
    Streaming,        \* --web-local-streaming
    Faults,           \* which calls may fail, a subset of AllFaults
    MaxVersion,       \* bound on the writes to one source
    MaxDay,           \* bound on the midnights
    MaxFaults,        \* bound on the failed calls
    MaxLost,          \* times in a row a goroutine finds refreshMu taken
    Nobody

AllFaults == {"scan", "check", "nologs", "sync", "copy"}

Startups == {LocalStart} \cup IF AutoMode THEN {CodespacesStart} ELSE {}
Streams  == IF Streaming THEN {Stream} ELSE {}
Ticks    == LocalTicks \cup CodespacesTicks
Jobs     == Startups \cup Streams \cup Ticks \cup Posts
Sources  == {"local", "codespaces"}

Source(j) == IF j \in LocalTicks \cup {LocalStart, Stream} THEN "local" ELSE "codespaces"

ASSUME ConstantsAssumption ==
    /\ AutoMode \in BOOLEAN /\ Streaming \in BOOLEAN
    /\ Streaming => LocalTicks = {}
    /\ ~AutoMode => CodespacesTicks = {}
    /\ Faults \subseteq AllFaults
    /\ MaxVersion \in Nat \ {0} /\ MaxDay \in Nat /\ MaxFaults \in Nat /\ MaxLost \in Nat
    /\ Nobody \notin Jobs
    /\ CodespacesStart \notin LocalTicks \cup {LocalStart, Stream}
    /\ (CodespacesTicks \cup Posts) \cap (LocalTicks \cup {LocalStart, Stream}) = {}
    /\ LocalStart # Stream /\ {LocalStart, Stream} \cap LocalTicks = {}
    /\ (Posts \cup CodespacesTicks) \cap {CodespacesStart} = {}
    /\ Posts \cap CodespacesTicks = {}

VARIABLES
    day,        \* the calendar day
    data,       \* data[s]: the version of source s
    db,         \* db[s]: the version ingested into the database
    shown,      \* the snapshot: its day and its data
    status,     \* syncStatus
    refreshMu,  \* the job that holds refreshMu, or Nobody
    pc,         \* where each job is
    seen,       \* what a job's rebuildSnapshot has read
    failed,     \* whether a job's action returns an error
    lost,       \* how often in a row a job found refreshMu taken
    stream,     \* localStream: the local version at the last scan
    faults      \* failed calls so far

world == <<day, data>>
vars  == <<day, data, db, shown, status, refreshMu, pc, seen, failed, lost,
           stream, faults>>

Statuses == {"not_started", "in_progress", "done", "missing", "failed",
             "refused", "streaming"}
PCs == {"idle", "try", "lost", "begun", "check", "sync", "complete", "fail",
        "read", "publish", "unlock", "report", "done"}
Snapshot == [day : Nat, data : [Sources -> Nat]]

(* newWebState builds a snapshot of the database as it is; the streaming   *)
(* loop's first scan and status precede the startup syncs.                 *)
Init ==
    /\ day = 0
    /\ data \in [Sources -> 0..1]
    /\ db = [s \in Sources |-> 0]
    /\ shown = [day |-> day, data |-> db]
    /\ status = [s \in Sources |-> IF s = "local" /\ Streaming THEN "streaming"
                                   ELSE "not_started"]
    /\ refreshMu = Nobody
    /\ pc = [j \in Jobs |-> IF j \in Startups THEN "try" ELSE "idle"]
    /\ seen = [j \in Jobs |-> shown]
    /\ failed = [j \in Jobs |-> FALSE]
    /\ lost = [j \in Jobs |-> 0]
    /\ stream = data["local"]
    /\ faults = 0

-----------------------------------------------------------------------------
(* The world: Copilot writes logs, here or in a Codespace; days pass       *)
(* (external).                                                             *)

Write(s) ==
    /\ data[s] < MaxVersion
    /\ data' = [data EXCEPT ![s] = @ + 1]
    /\ UNCHANGED <<day, db, shown, status, refreshMu, pc, seen, failed, lost, stream, faults>>

Midnight ==
    /\ day < MaxDay
    /\ day' = day + 1
    /\ UNCHANGED <<data, db, shown, status, refreshMu, pc, seen, failed, lost, stream, faults>>

-----------------------------------------------------------------------------
Goto(j, label) == pc' = [pc EXCEPT ![j] = label]

SetSyncStatus(s, code) == status' = [status EXCEPT ![s] = code]

Fault(kind) ==
    /\ kind \in Faults
    /\ faults < MaxFaults
    /\ faults' = faults + 1

(* A job at its TryLock.  A ticker's goroutine and a POST are about to be  *)
(* started; the Codespaces ticker runs once the startup sync is over.      *)
Ready(j) ==
    \/ pc[j] = "try"
    \/ pc[j] = "idle" /\ j \in LocalTicks \cup Posts
    \/ pc[j] = "idle" /\ j \in CodespacesTicks /\ pc[CodespacesStart] = "done"

(* Mutant: the lock is not taken. *)
Begin_NoLock(j) ==
    /\ Ready(j)
    /\ lost' = [lost EXCEPT ![j] = 0]
    /\ Goto(j, "begun")
    /\ UNCHANGED <<world, db, shown, status, refreshMu, seen, failed, stream, faults>>

(* beginSyncAction: TryLock succeeds ...                                   *)
Begin(j) ==
    /\ Ready(j)
    /\ refreshMu = Nobody
    /\ refreshMu' = j
    /\ lost' = [lost EXCEPT ![j] = 0]
    /\ Goto(j, "begun")
    /\ UNCHANGED <<world, db, shown, status, seen, failed, stream, faults>>

(* ... or fails.                                                           *)
Conflict(j) ==
    /\ Ready(j)
    /\ refreshMu # Nobody
    /\ lost[j] < MaxLost
    /\ lost' = [lost EXCEPT ![j] = @ + 1]
    /\ Goto(j, "lost")
    /\ UNCHANGED <<world, db, shown, status, refreshMu, seen, failed, stream, faults>>

Announce(j) ==
    /\ pc[j] = "begun"
    /\ SetSyncStatus(Source(j), "in_progress")
    /\ Goto(j, "check")
    /\ UNCHANGED <<world, db, shown, refreshMu, seen, failed, lost, stream, faults>>

(* Mutant: an unknown label. *)
Lose_Forgotten(j) ==
    /\ pc[j] = "lost"
    /\ SetSyncStatus(Source(j), "in_progress")
    /\ Goto(j, "gone")
    /\ UNCHANGED <<world, db, shown, refreshMu, seen, failed, lost, stream, faults>>

(* Mutant: a startup sync that is turned away does not try again. *)
Lose_GivesUp(j) ==
    /\ pc[j] = "lost"
    /\ SetSyncStatus(Source(j), "in_progress")
    /\ Goto(j, "idle")
    /\ UNCHANGED <<world, db, shown, refreshMu, seen, failed, lost, stream, faults>>

(* The loser writes the status as well, whatever has happened since its    *)
(* TryLock.  Only a startup sync tries again, after 100 ms (runStartupSync).*)
Lose(j) ==
    /\ pc[j] = "lost"
    /\ SetSyncStatus(Source(j), "in_progress")
    /\ Goto(j, IF j \in Startups THEN "try" ELSE "idle")
    /\ UNCHANGED <<world, db, shown, refreshMu, seen, failed, lost, stream, faults>>

(* The database, the mode and the logs directory are checked.              *)
Check(j) ==
    /\ pc[j] = "check"
    /\ \/ ~(j \in Posts /\ AutoMode) /\ Goto(j, "sync") /\ UNCHANGED <<status, failed, faults>>
       \/ /\ j \in Posts /\ AutoMode
          /\ SetSyncStatus("codespaces", "refused")
          /\ failed' = [failed EXCEPT ![j] = TRUE]
          /\ Goto(j, "unlock")
          /\ UNCHANGED faults
       \/ /\ Fault("check")
          /\ Goto(j, "fail")
          /\ UNCHANGED <<status, failed>>
       \/ /\ Source(j) = "local"
          /\ Fault("nologs")
          /\ SetSyncStatus("local", "missing")
          /\ Goto(j, "read")
          /\ UNCHANGED failed
    /\ UNCHANGED <<world, db, shown, refreshMu, seen, lost, stream>>

(* SyncLogsToDB returns nothing that tells a failure from an empty sync.   *)
SyncLocal(j) ==
    /\ pc[j] = "sync"
    /\ Source(j) = "local"
    /\ \/ db' = [db EXCEPT !["local"] = data["local"]] /\ UNCHANGED faults
       \/ Fault("sync") /\ UNCHANGED db
    /\ Goto(j, "complete")
    /\ UNCHANGED <<world, shown, status, refreshMu, seen, failed, lost, stream>>

(* A tick ingests some of what was written and returns nil all the same:   *)
(* it lists no stopped Codespace unless asked to, skips what it takes to   *)
(* be unchanged, and SyncLogsToDB does not tell it of a failure.  When     *)
(* some copies fail it returns an error, the others having been ingested.  *)
SyncCodespaces(j) ==
    /\ pc[j] = "sync"
    /\ Source(j) = "codespaces"
    /\ \E v \in db["codespaces"]..data["codespaces"] :
          db' = [db EXCEPT !["codespaces"] = v]
    /\ \/ Goto(j, "complete") /\ UNCHANGED faults
       \/ Fault("copy") /\ Goto(j, "fail")
    /\ UNCHANGED <<world, shown, status, refreshMu, seen, failed, lost, stream>>

(* Mutant: no rebuild when there was nothing to ingest. *)
Complete_OnlyIfNew(j) ==
    /\ pc[j] = "complete"
    /\ SetSyncStatus(Source(j), "done")
    /\ Goto(j, IF shown.data = db THEN "unlock" ELSE "read")
    /\ UNCHANGED <<world, db, shown, refreshMu, seen, failed, lost, stream, faults>>

(* Mutant: the rebuild is left to the next tick. *)
Complete_NoRebuild(j) ==
    /\ pc[j] = "complete"
    /\ SetSyncStatus(Source(j), "done")
    /\ Goto(j, "unlock")
    /\ UNCHANGED <<world, db, shown, refreshMu, seen, failed, lost, stream, faults>>

Complete(j) ==
    /\ pc[j] = "complete"
    /\ SetSyncStatus(Source(j), "done")
    /\ Goto(j, "read")
    /\ UNCHANGED <<world, db, shown, refreshMu, seen, failed, lost, stream, faults>>

(* Mutant: the error return forgets refreshMu. *)
Fail_NoUnlock(j) ==
    /\ pc[j] = "fail"
    /\ SetSyncStatus(Source(j), "failed")
    /\ Goto(j, IF j \in Startups THEN "done" ELSE "idle")
    /\ UNCHANGED <<world, db, shown, refreshMu, seen, failed, lost, stream, faults>>

(* An error return: no rebuild. *)
Fail(j) ==
    /\ pc[j] = "fail"
    /\ SetSyncStatus(Source(j), "failed")
    /\ failed' = [failed EXCEPT ![j] = TRUE]
    /\ Goto(j, "unlock")
    /\ UNCHANGED <<world, db, shown, refreshMu, seen, lost, stream, faults>>

(* rebuildSnapshot: the window's bounds and the database are read, then    *)
(* the snapshot is replaced under snapshotMu.                              *)
ReadDatabase(j) ==
    /\ pc[j] = "read"
    /\ seen' = [seen EXCEPT ![j] = [day |-> day, data |-> db]]
    /\ Goto(j, "publish")
    /\ UNCHANGED <<world, db, shown, status, refreshMu, failed, lost, stream, faults>>

Publish(j) ==
    /\ pc[j] = "publish"
    /\ shown' = seen[j]
    /\ Goto(j, "unlock")
    /\ UNCHANGED <<world, db, status, refreshMu, seen, failed, lost, stream, faults>>

(* The deferred Unlock, and the return to the caller. *)
Unlock(j) ==
    /\ pc[j] = "unlock"
    /\ refreshMu' = Nobody
    /\ Goto(j, IF j \in Startups THEN "done"
               ELSE IF j \in Streams THEN "report" ELSE "idle")
    /\ failed' = [failed EXCEPT ![j] = @ /\ j \in Streams]
    /\ UNCHANGED <<world, db, shown, status, seen, lost, stream, faults>>

-----------------------------------------------------------------------------
(* startLocalStreamingLoop: on every tick, fallback tick or file event the *)
(* logs are scanned.  The scan is remembered before the sync is tried.     *)
Scan(j) ==
    /\ j \in Streams
    /\ pc[j] = "idle"
    /\ \/ /\ stream' = data["local"]
          /\ Goto(j, IF stream # data["local"] THEN "try" ELSE "report")
          /\ UNCHANGED <<status, faults>>
       \/ /\ Fault("scan")
          /\ SetSyncStatus("local", "failed")
          /\ UNCHANGED <<pc, stream>>
    /\ UNCHANGED <<world, db, shown, refreshMu, seen, failed, lost>>

(* refreshLocalStreamingStatus *)
Report(j) ==
    /\ pc[j] = "report"
    /\ SetSyncStatus("local", IF failed[j] THEN "failed" ELSE "streaming")
    /\ failed' = [failed EXCEPT ![j] = FALSE]
    /\ Goto(j, "idle")
    /\ UNCHANGED <<world, db, shown, refreshMu, seen, lost, stream, faults>>

-----------------------------------------------------------------------------
JobStep(j) ==
    \/ Announce(j) \/ Lose(j) \/ Check(j) \/ SyncLocal(j) \/ SyncCodespaces(j)
    \/ Complete(j) \/ Fail(j) \/ ReadDatabase(j) \/ Publish(j) \/ Unlock(j)
    \/ Scan(j) \/ Report(j)

Next ==
    \/ \E s \in Sources : Write(s)
    \/ Midnight
    \/ \E j \in Jobs : Begin(j) \/ Conflict(j) \/ JobStep(j)

Spec == Init /\ [][Next]_vars

(* Tickers tick, a sync under way goes on, and the startup syncs retry.    *)
(* Nobody has to POST.                                                     *)
Fairness ==
    /\ \A j \in Jobs : WF_vars(JobStep(j))
    /\ \A j \in Jobs \ Posts : SF_vars(Begin(j)) /\ WF_vars(Conflict(j))

FairSpec == Spec /\ Fairness
-----------------------------------------------------------------------------
(* Properties *)

(* The values the server's sync state may have. *)
TypeOK ==
    /\ day \in 0..MaxDay
    /\ data \in [Sources -> 0..MaxVersion]
    /\ db \in [Sources -> 0..MaxVersion]
    /\ shown \in Snapshot
    /\ status \in [Sources -> Statuses]
    /\ refreshMu \in Jobs \cup {Nobody}
    /\ pc \in [Jobs -> PCs]
    /\ seen \in [Jobs -> Snapshot]
    /\ failed \in [Jobs -> BOOLEAN]
    /\ lost \in [Jobs -> 0..MaxLost]
    /\ stream \in 0..MaxVersion
    /\ faults \in 0..MaxFaults

(* Between sync actions the dashboard shows every local record that is in  *)
(* the database; of the Codespaces' records it may lack those of an action *)
(* that failed half-way, and it never shows one that is not there.         *)
SnapshotShowsDatabase ==
    refreshMu = Nobody =>
        /\ shown.data["local"] = db["local"]
        /\ shown.data["codespaces"] <= db["codespaces"]

(* An older reading of the database never replaces a newer one, although   *)
(* reading and replacing are separate steps of concurrent goroutines.      *)
SnapshotNeverGoesBack ==
    [][/\ shown.day <= shown'.day
       /\ \A s \in Sources : shown.data[s] <= shown'.data[s]]_vars

(* What Copilot writes here is eventually shown, and so is what a tick has *)
(* ingested from a Codespace - a tick that failed after it, too - in spite *)
(* of conflicts, failed syncs and failed copies.  That a tick ingests what *)
(* was written in a Codespace is CodespacesSync's subject.                 *)
WritesAreShown ==
    /\ \A v \in 1..MaxVersion : data["local"] = v ~> shown.data["local"] >= v
    /\ \A v \in 1..MaxVersion : db["codespaces"] = v ~> shown.data["codespaces"] >= v

(* Both startup syncs come to an end although they compete for refreshMu   *)
(* with each other and with the tickers, so the Codespaces ticker starts.  *)
StartupEnds == \A j \in Startups : <>(pc[j] = "done")

(* No source stays `sync_in_progress' for ever. *)
InProgressPasses ==
    \A s \in Sources : status[s] = "in_progress" ~> status[s] # "in_progress"
-----------------------------------------------------------------------------
(* The inductive invariant behind SnapshotShowsDatabase and                *)
(* SnapshotNeverGoesBack.                                                  *)

(* The places of a job that is inside a sync action ... *)
Acting == {"begun", "check", "sync", "complete", "fail", "read", "publish", "unlock"}

(* ... and those where the snapshot may lack what its action has ingested. *)
Pending == {"complete", "read", "publish"}

MutexInv == \A j \in Jobs : pc[j] \in Acting <=> refreshMu = j

OrderInv ==
    /\ shown.day <= day
    /\ \A s \in Sources : shown.data[s] <= db[s] /\ db[s] <= data[s]

(* What is about to be published is the database as it is, and no day that *)
(* is over.                                                                *)
SeenInv ==
    \A j \in Jobs : pc[j] = "publish" =>
        /\ shown.day <= seen[j].day /\ seen[j].day <= day
        /\ seen[j].data = db

LocalInv ==
    (\A j \in Jobs : pc[j] \notin Pending) => shown.data["local"] = db["local"]

SnapshotInv == MutexInv /\ OrderInv /\ SeenInv /\ LocalInv
=============================================================================
