--------------------------- MODULE CodespacesSync ---------------------------
(***************************************************************************)
(* One process that syncs GitHub Codespaces into the database:             *)
(* SyncCodespacesToDBTick and CopyCodespaceData                            *)
(* (go/internal/sync/service.go).  A tick lists the codespaces, decides    *)
(* which to copy, copies them with a pool of workers, of which one at a    *)
(* time may start a stopped codespace, and ingests the copies.             *)
(*                                                                         *)
(* Meanwhile users start, use and stop the same codespaces, which are      *)
(* known to the sync only by what `gh cs list' said at the beginning.      *)
(*                                                                         *)
(* Abstractions.  A log is a version number, 0 for no log; lastUsedAt is a *)
(* number that every use moves, 0 for none.  SyncLogsToDB is one step that *)
(* does what LogSync shows of it, or nothing.  Whether ssh reuses its own  *)
(* connection, and the temporary directories, are left out.                *)
(***************************************************************************)
EXTENDS Integers, FiniteSetsExt

CONSTANTS
    Codespaces,
    Logs,           \* names of log files in a codespace
    Options,        \* the arguments a tick may be called with
    Workers,        \* 4 in the code
    MaxRetries,     \* maxThrottleRetries, 3 in the code
    Faults,         \* which faults may happen, a subset of AllFaults
    MaxUse,         \* bound on the uses of all codespaces together
    MaxFaults,      \* bound on the (counted) faults of one behaviour
    Free            \* nobody holds the start slot

AllFaults == {"list", "ls", "mktemp", "ssh", "cp", "throttle", "stop",
              "ingest", "idle", "crash"}

Option == [stopped : BOOLEAN, force : BOOLEAN]

ASSUME ConstantsAssumption ==
    /\ Options \subseteq Option
    /\ Workers \in Nat \ {0}
    /\ MaxRetries \in Nat \ {0}
    /\ MaxUse \in Nat
    /\ MaxFaults \in Nat
    /\ Faults \subseteq AllFaults
    /\ Free \notin Codespaces

VARIABLES
    power,      \* the state GitHub has for a codespace
    by,         \* who started it
    used,       \* its lastUsedAt
    logs,       \* logs[c][n]: the version of its log n
    row,        \* codespace_sync_state: last_used_at, 0 for no row
    stored,     \* the version of each log that is in api_calls
    known,      \* the logs with a row in parsed_logs
    lost,       \* codespaces whose last SyncLogsToDB failed
    pc,         \* where the tick is
    opt,        \* its arguments
    seen,       \* what `gh cs list' said; with the logs of that moment and
                \* whether one of them had a name that is not known
    todo,       \* listed codespaces the tick has not decided on
    stage,      \* where the copy of a pending codespace is
    tries,      \* its `gh cs cp' attempts
    slot,       \* stoppedStartLimiter: who holds it
    got,        \* the copied logs
    failed,     \* failedCopies: the tick returns an error when there is one
    faults

world  == <<power, by, used, logs>>
tables == <<row, stored, known, lost>>
tick   == <<pc, opt, seen, todo, failed>>
copy   == <<stage, tries, slot, got>>
vars   == <<world, tables, tick, copy, faults>>

Powers == {"Available", "Shutdown"}
(* "copy" will stop it again; "left" is any other start by the sync.       *)
Starters == {"user", "copy", "left"}
PCs    == {"idle", "check", "copy", "ingest", "returned"}
Stages == {"none", "queued", "limit", "ssh", "cp", "stop", "release", "done", "stored"}
Busy   == {"limit", "ssh", "cp", "stop", "release"}

NoOption == [stopped |-> FALSE, force |-> FALSE]
NoLogs   == [n \in Logs |-> 0]
Unlisted == [state |-> "none", used |-> 0, logs |-> NoLogs, fresh |-> FALSE]
Names(files) == {n \in Logs : files[n] # 0}

Fault(kind) ==
    /\ kind \in Faults
    /\ faults < MaxFaults
    /\ faults' = faults + 1

Init ==
    /\ power \in [Codespaces -> Powers]
    /\ by = [c \in Codespaces |-> "user"]
    /\ used = [c \in Codespaces |-> 0]
    /\ logs = [c \in Codespaces |-> NoLogs]
    /\ row = [c \in Codespaces |-> 0]
    /\ stored = logs
    /\ known = [c \in Codespaces |-> {}]
    /\ lost = {}
    /\ pc = "idle"
    /\ opt = NoOption
    /\ seen = [c \in Codespaces |-> Unlisted]
    /\ todo = {}
    /\ stage = [c \in Codespaces |-> "none"]
    /\ tries = [c \in Codespaces |-> 0]
    /\ slot = Free
    /\ got = logs
    /\ failed = {}
    /\ faults = 0
-----------------------------------------------------------------------------
(* The users and GitHub (external). *)

(* Somebody runs Copilot in the codespace, starting it if need be. *)
Use(c) ==
    /\ MapThenSumSet(LAMBDA d : used[d], Codespaces) < MaxUse
    /\ used' = [used EXCEPT ![c] = @ + 1]
    /\ power' = [power EXCEPT ![c] = "Available"]
    /\ by' = [by EXCEPT ![c] = "user"]
    /\ \E n \in Logs : logs' = [logs EXCEPT ![c][n] = @ + 1]
    /\ UNCHANGED <<tables, tick, copy, faults>>

TurnOff(c) ==
    /\ power[c] = "Available"
    /\ power' = [power EXCEPT ![c] = "Shutdown"]
    /\ by' = [by EXCEPT ![c] = "user"]
    /\ UNCHANGED <<used, logs, tables, tick, copy>>

StopByUser(c) == by[c] = "user" /\ TurnOff(c) /\ UNCHANGED faults

(* GitHub stops a codespace nobody uses. *)
IdleTimeout(c) == by[c] # "user" /\ Fault("idle") /\ TurnOff(c)

(* `gh cs ssh' and `gh cs cp' start a stopped codespace. *)
Reach(c, who) ==
    /\ power' = [power EXCEPT ![c] = "Available"]
    /\ by' = IF power[c] = "Available" THEN by ELSE [by EXCEPT ![c] = who]
    /\ UNCHANGED <<used, logs>>

WasStopped(c) == seen[c].state = "Shutdown"      \* shouldStop

CopyReaches(c) == Reach(c, IF WasStopped(c) THEN "copy" ELSE "left")
-----------------------------------------------------------------------------
(* Which codespaces are copied *)

(* ListCodespaces.  A list without a match is a nil slice, which the tick  *)
(* takes for a failure to list.                                            *)
ListCodespaces(o) ==
    LET listed == {c \in Codespaces : power[c] = "Available" \/ o.stopped}
    IN  /\ pc = "idle"
        /\ opt' = o
        /\ seen' = [c \in Codespaces |->
                      IF c \in listed
                      THEN [state |-> power[c], used |-> used[c], logs |-> logs[c],
                            fresh |-> ~(Names(logs[c]) \subseteq known[c])]
                      ELSE Unlisted]
        /\ todo' = listed
        /\ pc' = IF listed = {} THEN "returned" ELSE "check"
        /\ UNCHANGED <<world, tables, failed, copy, faults>>

ListFails(o) ==
    /\ pc = "idle"
    /\ Fault("list")
    /\ opt' = o
    /\ pc' = "returned"
    /\ UNCHANGED <<world, tables, seen, todo, failed, copy>>

(* Not used since the tick that wrote its row; --sync does not matter. *)
Unchanged(c) == WasStopped(c) /\ seen[c].used # 0 /\ row[c] = seen[c].used

(* Mutant: --sync does not matter here either. *)
AsksForNames_Forced(c) == WasStopped(c) /\ known[c] # {}

AsksForNames(c) == ~opt.force /\ WasStopped(c) /\ known[c] # {}

Decided(c) == todo' = todo \ {c} /\ UNCHANGED <<pc, opt, seen, failed>>
Pending(c) == stage' = [stage EXCEPT ![c] = "queued"] /\ UNCHANGED <<tries, slot, got>>

SkipUnchanged(c) ==
    /\ pc = "check" /\ c \in todo
    /\ Unchanged(c)
    /\ Decided(c)
    /\ UNCHANGED <<world, tables, copy, faults>>

(* ListRemoteLogFiles starts the codespace, and nothing stops it again     *)
(* when the names it returns are all known.                                *)
ListRemoteLogFiles(c) ==
    /\ pc = "check" /\ c \in todo
    /\ ~Unchanged(c) /\ AsksForNames(c)
    /\ Reach(c, "left")
    /\ IF Names(logs[c]) # {} /\ Names(logs[c]) \subseteq known[c]
         THEN UNCHANGED copy
         ELSE Pending(c)
    /\ Decided(c)
    /\ UNCHANGED <<tables, faults>>

(* It fails or times out, when the codespace may be on its way up. *)
ListRemoteFails(c) ==
    /\ pc = "check" /\ c \in todo
    /\ ~Unchanged(c) /\ AsksForNames(c)
    /\ Fault("ls")
    /\ Reach(c, "left") \/ UNCHANGED world
    /\ Pending(c) /\ Decided(c)
    /\ UNCHANGED tables

MakePending(c) ==
    /\ pc = "check" /\ c \in todo
    /\ ~Unchanged(c) /\ ~AsksForNames(c)
    /\ Pending(c) /\ Decided(c)
    /\ UNCHANGED <<world, tables, faults>>

StartWorkers ==
    /\ pc = "check" /\ todo = {}
    /\ pc' = IF \E c \in Codespaces : stage[c] = "queued" THEN "copy" ELSE "returned"
    /\ UNCHANGED <<world, tables, opt, seen, todo, failed, copy, faults>>
-----------------------------------------------------------------------------
(* CopyCodespaceData, in one of the workers *)

Goto(c, label) == stage' = [stage EXCEPT ![c] = label]

TakeJob(c) ==
    /\ pc = "copy" /\ stage[c] = "queued"
    /\ Cardinality({d \in Codespaces : stage[d] \in Busy}) < Workers
    /\ Goto(c, IF WasStopped(c) THEN "limit" ELSE "ssh")
    /\ UNCHANGED <<world, tables, tick, tries, slot, got, faults>>

(* MkdirTemp fails: return before the slot and the stop are of concern. *)
TakeJobFails(c) ==
    /\ pc = "copy" /\ stage[c] = "queued"
    /\ Cardinality({d \in Codespaces : stage[d] \in Busy}) < Workers
    /\ Fault("mktemp")
    /\ Goto(c, "done")
    /\ UNCHANGED <<world, tables, tick, tries, slot, got>>

(* Mutant: no limiter. *)
AcquireSlot_Unlimited(c) ==
    /\ stage[c] = "limit"
    /\ slot' = c
    /\ Goto(c, "ssh")
    /\ UNCHANGED <<world, tables, tick, tries, got, faults>>

AcquireSlot(c) ==
    /\ stage[c] = "limit"
    /\ slot = Free
    /\ slot' = c
    /\ Goto(c, "ssh")
    /\ UNCHANGED <<world, tables, tick, tries, got, faults>>

(* Mutant: the slot is given back before the codespace is stopped. *)
Leave_SlotFirst(c) ==
    /\ Goto(c, IF WasStopped(c) THEN "stop" ELSE "done")
    /\ slot' = IF slot = c THEN Free ELSE slot

(* Mutant: return without the deferred calls. *)
Leave_NoDefer(c) == Goto(c, "done") /\ UNCHANGED slot

(* CopyCodespaceData returns: its deferred calls are to be run. *)
Leave(c) == Goto(c, IF WasStopped(c) THEN "stop" ELSE "done") /\ UNCHANGED slot

(* What has been copied counts only when it has a logs directory. *)
Copied(c) ==
    /\ got' = [got EXCEPT ![c] = logs[c]]
    /\ Leave(c)
    /\ UNCHANGED tries

NotCopied(c) == Leave(c) /\ UNCHANGED <<tries, got>>

SshTar(c) ==
    /\ stage[c] = "ssh"
    /\ CopyReaches(c)
    /\ Copied(c)
    /\ UNCHANGED <<tables, tick, faults>>

(* Any failure of the pipe leads to `gh cs cp'; it is not counted as a     *)
(* fault, for ssh may never work.                                          *)
SshTarFails(c) ==
    /\ stage[c] = "ssh"
    /\ "ssh" \in Faults
    /\ CopyReaches(c) \/ UNCHANGED world
    /\ Goto(c, "cp")
    /\ tries' = [tries EXCEPT ![c] = 1]
    /\ UNCHANGED <<tables, tick, slot, got, faults>>

GhCsCp(c) ==
    /\ stage[c] = "cp"
    /\ CopyReaches(c)
    /\ Copied(c)
    /\ UNCHANGED <<tables, tick, faults>>

(* IsCodespaceStartThrottleError: try again after a pause, as long as      *)
(* there are attempts left.                                                *)
GhCsCpThrottled(c) ==
    /\ stage[c] = "cp"
    /\ "throttle" \in Faults
    /\ tries[c] < MaxRetries
    /\ tries' = [tries EXCEPT ![c] = @ + 1]
    /\ UNCHANGED <<world, tables, tick, stage, slot, got, faults>>

(* Any other failure; the last attempt is throttled, or the ten minutes    *)
(* are over, while it runs or in a pause.                                  *)
GhCsCpFails(c) ==
    /\ stage[c] = "cp"
    /\ Fault("cp")
    /\ CopyReaches(c) \/ UNCHANGED world
    /\ NotCopied(c)
    /\ UNCHANGED <<tables, tick>>

(* The deferred `gh cs stop', whoever uses the codespace by now. *)
StopCodespace(c) ==
    /\ stage[c] = "stop"
    /\ power' = [power EXCEPT ![c] = "Shutdown"]
    /\ by' = [by EXCEPT ![c] = "user"]
    /\ Goto(c, "release")
    /\ UNCHANGED <<used, logs, tables, tick, tries, slot, got, faults>>

(* Its error is dropped. *)
StopFails(c) ==
    /\ stage[c] = "stop"
    /\ Fault("stop")
    /\ by' = IF by[c] = "copy" THEN [by EXCEPT ![c] = "left"] ELSE by
    /\ Goto(c, "release")
    /\ UNCHANGED <<power, used, logs, tables, tick, tries, slot, got>>

ReleaseSlot(c) ==
    /\ stage[c] = "release"
    /\ slot' = IF slot = c THEN Free ELSE slot
    /\ Goto(c, "done")
    /\ UNCHANGED <<world, tables, tick, tries, got, faults>>
-----------------------------------------------------------------------------
(* The copies are ingested *)

(* The results of all workers have arrived. *)
CollectResults ==
    /\ pc = "copy"
    /\ \A c \in Codespaces : stage[c] \in {"none", "done"}
    /\ pc' = "ingest"
    /\ UNCHANGED <<world, tables, opt, seen, todo, failed, copy, faults>>

Done(c) ==
    /\ Goto(c, "none")
    /\ tries' = [tries EXCEPT ![c] = 0]
    /\ got' = [got EXCEPT ![c] = NoLogs]
    /\ UNCHANGED slot

(* A codespace without logs is a failed copy, too. *)
CountFailedCopy(c) ==
    /\ pc = "ingest" /\ stage[c] = "done" /\ Names(got[c]) = {}
    /\ failed' = failed \cup {c}
    /\ Done(c)
    /\ UNCHANGED <<world, tables, pc, opt, seen, todo, faults>>

(* SyncLogsToDB commits. *)
IngestLogs(c) ==
    /\ pc = "ingest" /\ stage[c] = "done" /\ Names(got[c]) # {}
    /\ stored' = [stored EXCEPT ![c] = got[c]]
    /\ known' = [known EXCEPT ![c] = @ \cup Names(got[c])]
    /\ lost' = lost \ {c}
    /\ Goto(c, "stored")
    /\ UNCHANGED <<world, row, tick, tries, slot, got, faults>>

(* SyncLogsToDB returns 0 on every error; a forced one has deleted the     *)
(* marks by then.                                                          *)
IngestFails(c) ==
    /\ pc = "ingest" /\ stage[c] = "done" /\ Names(got[c]) # {}
    /\ Fault("ingest")
    /\ known' = IF opt.force \/ ~WasStopped(c) THEN [known EXCEPT ![c] = {}] ELSE known
    /\ lost' = lost \cup {c}
    /\ Goto(c, "stored")
    /\ UNCHANGED <<world, row, stored, tick, tries, slot, got>>

(* Mutant: with the lastUsedAt of now. *)
UpsertCodespaceSyncState_Now(c) ==
    /\ pc = "ingest" /\ stage[c] = "stored"
    /\ row' = [row EXCEPT ![c] = used[c]]
    /\ Done(c)
    /\ UNCHANGED <<world, stored, known, lost, tick, faults>>

(* With the lastUsedAt of the listing, whatever SyncLogsToDB returned. *)
UpsertCodespaceSyncState(c) ==
    /\ pc = "ingest" /\ stage[c] = "stored"
    /\ row' = [row EXCEPT ![c] = seen[c].used]
    /\ Done(c)
    /\ UNCHANGED <<world, stored, known, lost, tick, faults>>

EndTick ==
    /\ pc = "ingest"
    /\ \A c \in Codespaces : stage[c] = "none"
    /\ pc' = "returned"
    /\ UNCHANGED <<world, tables, opt, seen, todo, failed, copy, faults>>

Forget ==
    /\ pc' = "idle"
    /\ opt' = NoOption
    /\ seen' = [c \in Codespaces |-> Unlisted]
    /\ failed' = {}

(* The caller has the result; the next tick may begin. *)
NextTick ==
    /\ pc = "returned"
    /\ Forget
    /\ UNCHANGED <<world, tables, todo, copy, faults>>

(* The process dies: nobody stops what it has started. *)
Crash ==
    /\ pc \notin {"idle", "returned"}
    /\ Fault("crash")
    /\ by' = [c \in Codespaces |-> IF by[c] = "copy" THEN "left" ELSE by[c]]
    /\ Forget
    /\ todo' = {}
    /\ stage' = [c \in Codespaces |-> "none"]
    /\ tries' = [c \in Codespaces |-> 0]
    /\ slot' = Free
    /\ got' = [c \in Codespaces |-> NoLogs]
    /\ UNCHANGED <<power, used, logs, tables>>
-----------------------------------------------------------------------------
CheckStep ==
    \/ \E c \in Codespaces : SkipUnchanged(c) \/ ListRemoteLogFiles(c) \/ MakePending(c)
    \/ StartWorkers

CopyStep(c) ==
    \/ TakeJob(c) \/ AcquireSlot(c) \/ SshTar(c) \/ GhCsCp(c)
    \/ StopCodespace(c) \/ ReleaseSlot(c)

IngestStep ==
    \/ CollectResults
    \/ \E c \in Codespaces :
          CountFailedCopy(c) \/ IngestLogs(c) \/ UpsertCodespaceSyncState(c)
    \/ EndTick \/ NextTick

FaultStep(c) ==
    \/ ListRemoteFails(c) \/ TakeJobFails(c) \/ SshTarFails(c)
    \/ GhCsCpThrottled(c) \/ GhCsCpFails(c) \/ StopFails(c) \/ IngestFails(c)

World == \E c \in Codespaces : Use(c) \/ StopByUser(c) \/ IdleTimeout(c)

Next ==
    \/ World
    \/ \E o \in Options : ListCodespaces(o) \/ ListFails(o)
    \/ CheckStep \/ IngestStep \/ Crash
    \/ \E c \in Codespaces : CopyStep(c) \/ FaultStep(c)

Spec == Init /\ [][Next]_vars

(* The web server's next tick: not forced, and without the stopped         *)
(* codespaces unless the server was started with                           *)
(* --codespaces-include-stopped.                                           *)
ServerTick(includeStopped) == ListCodespaces([stopped |-> includeStopped, force |-> FALSE])

(* A tick goes on, and every worker with it. *)
Fairness ==
    /\ WF_vars(CheckStep) /\ WF_vars(IngestStep)
    /\ \A c \in Codespaces : SF_vars(CopyStep(c))
-----------------------------------------------------------------------------
(* Properties *)

Versions == [Logs -> Nat]
Listing  == [state : Powers \cup {"none"}, used : Nat, logs : Versions, fresh : BOOLEAN]

(* The values the tables, the tick and its workers may have. *)
TypeOK ==
    /\ power \in [Codespaces -> Powers]
    /\ by \in [Codespaces -> Starters]
    /\ used \in [Codespaces -> Nat]
    /\ logs \in [Codespaces -> Versions]
    /\ row \in [Codespaces -> Nat]
    /\ stored \in [Codespaces -> Versions]
    /\ known \in [Codespaces -> SUBSET Logs]
    /\ lost \in SUBSET Codespaces
    /\ pc \in PCs
    /\ opt \in Option
    /\ seen \in [Codespaces -> Listing]
    /\ todo \in SUBSET Codespaces
    /\ stage \in [Codespaces -> Stages]
    /\ tries \in [Codespaces -> 0..MaxRetries]
    /\ slot \in Codespaces \cup {Free}
    /\ got \in [Codespaces -> Versions]
    /\ failed \in SUBSET Codespaces
    /\ faults \in Nat

AtLeast(a, b) == \A n \in Logs : a[n] >= b[n]

(* A stopped codespace that the tick skips as unchanged has all its logs   *)
(* in the database, however its uses and the copies interleave, unless     *)
(* SyncLogsToDB failed on them.                                            *)
UnchangedMeansStored ==
    \A c \in Codespaces \ lost :
        row[c] = used[c] => AtLeast(stored[c], logs[c])

(* A codespace that a copy has started from its stopped state is running   *)
(* only while that copy holds the one start slot: no two at a time, and    *)
(* none is left running, on whatever path the copy returns.                *)
StartedHoldsSlot ==
    \A c \in Codespaces : by[c] = "copy" => slot = c

(* The logs of the listed codespace c are stored as they were when listed. *)
Delivered(c) == AtLeast(stored[c], seen[c].logs)

(* A tick that returns has stored the logs of every codespace it listed,   *)
(* as they were then, whichever other copies failed: all of a forced       *)
(* tick's; without --sync, of those that ran or had a log of an unknown    *)
(* name.  What it has not stored it reports.                               *)
TickDelivers ==
    pc = "returned" =>
        \A c \in Codespaces \ (failed \cup lost) :
            opt.force \/ ~WasStopped(c) \/ seen[c].fresh => Delivered(c)

(* The database has the logs of every codespace a server's tick lists: of  *)
(* the running ones only, unless it includes the stopped.                  *)
CaughtUp(includeStopped) ==
    \A c \in Codespaces \ lost :
        includeStopped \/ power[c] = "Available" => stored[c] = logs[c]
-----------------------------------------------------------------------------
(* The inductive invariant behind the three invariants above. *)

(* What was listed is past. *)
SeenInv(c) ==
    seen[c].state # "none" =>
        /\ seen[c].used <= used[c]
        /\ seen[c].used = used[c] => AtLeast(seen[c].logs, logs[c])
        /\ AtLeast(logs[c], seen[c].logs)

(* A row vouches for the logs of its lastUsedAt. *)
RowInv(c) ==
    /\ row[c] <= used[c]
    /\ c \notin lost /\ row[c] = used[c] => AtLeast(stored[c], logs[c])
    /\ seen[c].state # "none" =>
          /\ row[c] <= seen[c].used
          /\ c \notin lost /\ row[c] = seen[c].used => Delivered(c)

(* A copy is of the listing's logs or later ones, and is passed on whole. *)
CopyInv(c) ==
    /\ AtLeast(logs[c], got[c]) /\ AtLeast(logs[c], stored[c])
    /\ stage[c] # "none" => seen[c].state # "none"
    /\ stage[c] \in {"none", "queued", "limit", "ssh", "cp"} => got[c] = NoLogs
    /\ Names(got[c]) # {} => AtLeast(got[c], seen[c].logs)
    /\ stage[c] = "stored" /\ c \notin lost => Delivered(c)

Holding == {"ssh", "cp", "stop", "release"}

(* The slot is held from the first step that may start the codespace to    *)
(* the one after its stop.                                                 *)
SlotInv(c) ==
    /\ stage[c] \in {"limit", "stop", "release"} => WasStopped(c)
    /\ WasStopped(c) /\ stage[c] \in Holding => slot = c
    /\ by[c] = "copy" => slot = c /\ stage[c] # "release"
    /\ slot = c => WasStopped(c) /\ stage[c] \in Holding

(* The copies of a tick belong to it. *)
PhaseInv(c) ==
    /\ pc \in {"idle", "returned"} => stage[c] = "none"
    /\ pc = "check" => stage[c] \in {"none", "queued"}
    /\ pc = "ingest" => stage[c] \in {"none", "done", "stored"}
    /\ pc = "check" /\ c \in todo => seen[c].state # "none"

CodespacesInv ==
    /\ TypeOK
    /\ \A c \in Codespaces :
          SeenInv(c) /\ RowInv(c) /\ CopyInv(c) /\ SlotInv(c) /\ PhaseInv(c)
=============================================================================
