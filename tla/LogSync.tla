------------------------------- MODULE LogSync -------------------------------
(***************************************************************************)
(* Incremental ingestion of Copilot CLI process logs into the SQLite       *)
(* database: SyncLogsToDB (go/internal/sync/service.go) on top of the      *)
(* tables api_calls, parsed_logs and session_workspaces                    *)
(* (go/internal/storage/service.go).                                       *)
(*                                                                         *)
(* Several operating-system processes (a CLI run, the web server) sync the *)
(* same log directory into the same database while Copilot keeps writing   *)
(* the logs.  A process may die between any two steps.                     *)
(*                                                                         *)
(* Abstractions.  A log is the sequence of the times of its usage records; *)
(* a record is its index in that sequence, so tokens, prompts and session  *)
(* ids are left out but for what the clean-up compares (Usage).  If a call *)
(* is read with two different token counts, each reading is a record; if   *)
(* two calls of a second have the same counts and model, so that their     *)
(* rows have one key, they are one record.                                 *)
(* One source (the `source' column) is modelled: every statement of the    *)
(* sync is keyed by it, and sources share only the write lock.  The clock  *)
(* ticks in the unit of a recorded mtime, a millisecond.                   *)
(***************************************************************************)
EXTENDS Integers, Sequences, FiniteSets

CONSTANTS
    Procs,          \* processes that sync
    Files,          \* names matching process-*.log
    Windows,        \* date windows a process may be started with
    Forces,         \* values of --sync a process may be started with
    DayLen,         \* clock ticks in a day
    SecondLen,      \* clock ticks in a second, the unit of a row's timestamp
    Usage,          \* Usage[f][i]: model and token counts of record i of f
    TailRecords,    \* records in the last 4 MiB of a log (ranged reads)
    Faults,         \* which faults may happen, a subset of AllFaults
    MaxTime,        \* bound on the clock
    MaxRecords,     \* bound on the records of one log
    MaxFaults,      \* bound on the crashes and failed calls of one behaviour
    Free,           \* nobody holds SQLite's write lock
    NoFile

AllFaults == {"crash", "begin", "commit", "read", "busy", "sametick"}

(* A window of whole days, from..to days ago, as dateWindowSpec; to = 0 is *)
(* a window with no end, all = TRUE is --all.                              *)
Window == [all : BOOLEAN, from : Nat, to : Nat]

ASSUME ConstantsAssumption ==
    /\ DayLen \in Nat \ {0}
    /\ SecondLen \in Nat \ {0}
    /\ MaxTime \in Nat
    /\ MaxRecords \in Nat
    /\ TailRecords \in Nat
    /\ MaxFaults \in Nat
    /\ \A f \in Files, i \in 1..MaxRecords :
          {Usage[f][i].prompt, Usage[f][i].completion, Usage[f][i].cache} \subseteq Nat
    /\ Windows \subseteq Window
    /\ Forces \subseteq BOOLEAN
    /\ Faults \subseteq AllFaults
    /\ Free \notin Procs
    /\ NoFile \notin Files

VARIABLES
    now,        \* the clock
    log,        \* log[f]: the times of f's usage records, in file order
    mtime,      \* mtime[f]: 0 while f does not exist
    calls,      \* api_calls: calls[f] is a set of <<record, model is known>>
    parsed,     \* parsed_logs: parsed[f] is the recorded mtime, 0 for no row
    spaces,     \* session_workspaces: the logs whose session has a row
    lock,       \* the holder of the write lock, or Free
    pc,         \* where each process is in SyncLogsToDB
    req,        \* what each process was asked for, and the logs it started on
    todo,       \* the matches a process has still to look at
    known,      \* parsedMtimeByFile of each process
    file,       \* the file in hand,
    stat,       \* its mtime as Lstat saw it, and
    batch,      \* its parsed records not yet inserted
    open,       \* whether a process has a transaction,
    rows,       \* the rows in it, per file, and
    marks,      \* the parsed_logs rows in it (0 for none)
    faults      \* faults so far

files  == <<now, log, mtime>>
tables == <<calls, parsed, spaces>>
cur    == <<file, stat, batch>>
tx     == <<open, rows, marks>>
vars   == <<now, log, mtime, calls, parsed, spaces, lock, pc, req, todo,
            known, file, stat, batch, open, rows, marks, faults>>

PCs == {"idle", "delete", "load", "scan", "read", "insert", "commit",
        "workspaces", "cleanup", "mend"}

Committed == {"workspaces", "cleanup", "mend"}   \* after a successful Commit

-----------------------------------------------------------------------------
(* Windows *)

Forever == MaxTime + 1

Today(t) == t \div DayLen

(* SyncFrom: midnight, w.from days before the day of t. *)
Lo(w, t) == IF w.all THEN 0 ELSE (Today(t) - w.from) * DayLen

(* SyncTo: nil for --all and for windows that reach today. *)
Hi(w, t) == IF w.all \/ w.to = 0 THEN Forever
            ELSE (Today(t) - w.to + 1) * DayLen

InWindow(w, t, stamp) == Lo(w, t) <= stamp /\ stamp < Hi(w, t)

-----------------------------------------------------------------------------
(* Rows *)

(* Record i has fewer prompt tokens than came from the cache, and j is of  *)
(* its second, has its completion tokens and more prompt tokens: i passes  *)
(* for a misreading of j's call.                                           *)
Misread(f, stamps, i, j) ==
    /\ {i, j} \subseteq DOMAIN stamps
    /\ stamps[i] \div SecondLen = stamps[j] \div SecondLen
    /\ Usage[f][i].prompt < Usage[f][i].cache
    /\ Usage[f][i].completion = Usage[f][j].completion
    /\ Usage[f][i].prompt < Usage[f][j].prompt

(* Record i has a row, or one that i passes for a misreading of.           *)
Stored(f, stamps, table, i) ==
    \E row \in table : row[1] = i \/ Misread(f, stamps, i, row[1])

(* A call counted twice: once with its model, once as 'unknown'. *)
Twin(f, i) == {<<i, TRUE>>, <<i, FALSE>>} \subseteq calls[f]

NoRows  == [f \in Files |-> {}]
NoMarks == [f \in Files |-> 0]

IdleReq == [win |-> [all |-> TRUE, from |-> 0, to |-> 0], force |-> FALSE,
            lo |-> 0, hi |-> 0, goal |-> NoMarks]

Existing == {f \in Files : mtime[f] # 0}

Init ==
    /\ now = 0
    /\ log = [f \in Files |-> <<>>]
    /\ mtime = NoMarks
    /\ calls = NoRows
    /\ parsed = NoMarks
    /\ spaces = {}
    /\ lock = Free
    /\ pc = [p \in Procs |-> "idle"]
    /\ req = [p \in Procs |-> IdleReq]
    /\ todo = [p \in Procs |-> {}]
    /\ known = [p \in Procs |-> NoMarks]
    /\ file = [p \in Procs |-> NoFile]
    /\ stat = [p \in Procs |-> 0]
    /\ batch = [p \in Procs |-> {}]
    /\ open = [p \in Procs |-> FALSE]
    /\ rows = [p \in Procs |-> NoRows]
    /\ marks = [p \in Procs |-> NoMarks]
    /\ faults = 0

-----------------------------------------------------------------------------
(* The Copilot CLI writes its logs (external). *)

(* The time of the next write: a later tick, or with "sametick" the tick   *)
(* of the previous write of any log.                                       *)
NextTicks == (IF "sametick" \in Faults THEN {now, now + 1} ELSE {now + 1})
               \cap (1..MaxTime)

(* A usage record is appended. *)
AppendRecord(f) ==
    \E t \in NextTicks :
        /\ Len(log[f]) < MaxRecords
        /\ now' = t
        /\ log' = [log EXCEPT ![f] = Append(@, t)]
        /\ mtime' = [mtime EXCEPT ![f] = t]
        /\ UNCHANGED <<tables, lock, pc, req, todo, known, cur, tx, faults>>

(* Lines that are no usage record, the first lines of a new log among them. *)
AppendOther(f) ==
    \E t \in NextTicks :
        /\ now' = t
        /\ mtime' = [mtime EXCEPT ![f] = t]
        /\ UNCHANGED <<log, tables, lock, pc, req, todo, known, cur, tx, faults>>

-----------------------------------------------------------------------------
(* The write lock.  A statement outside the process's transaction, and the *)
(* first write in it, wait for the lock; with "busy" the wait may run out  *)
(* (SQLITE_BUSY), and every caller drops the error.                        *)

MayWrite(p) == lock \in {Free, p}
GivesUp(p)  == "busy" \in Faults /\ ~MayWrite(p)

(* No file is in hand any more. *)
PutDown(p) ==
    /\ file' = [file EXCEPT ![p] = NoFile]
    /\ stat' = [stat EXCEPT ![p] = 0]
    /\ batch' = [batch EXCEPT ![p] = {}]

(* The transaction is over, and with it the lock it may hold. *)
EndTx(p) ==
    /\ open' = [open EXCEPT ![p] = FALSE]
    /\ rows' = [rows EXCEPT ![p] = NoRows]
    /\ marks' = [marks EXCEPT ![p] = NoMarks]
    /\ lock' = IF lock = p THEN Free ELSE lock

Goto(p, label) == pc' = [pc EXCEPT ![p] = label]

(* SyncLogsToDB returns, or its process dies: locals and transaction go.   *)
Leave(p) ==
    /\ Goto(p, "idle")
    /\ req' = [req EXCEPT ![p] = IdleReq]
    /\ todo' = [todo EXCEPT ![p] = {}]
    /\ known' = [known EXCEPT ![p] = NoMarks]
    /\ PutDown(p)
    /\ EndTx(p)

Fault(kind) ==
    /\ kind \in Faults
    /\ faults < MaxFaults
    /\ faults' = faults + 1

-----------------------------------------------------------------------------
(* SyncLogsToDB *)

(* The window is turned into bounds; then the directory is globbed. *)
Start(p) ==
    /\ pc[p] = "idle"
    /\ \E w \in Windows, force \in Forces :
          /\ req' = [req EXCEPT ![p] =
                       [win |-> w, force |-> force,
                        lo |-> Lo(w, now), hi |-> Hi(w, now),
                        goal |-> [f \in Files |-> Len(log[f])]]]
          /\ Goto(p, IF force THEN "delete" ELSE "load")
    /\ todo' = [todo EXCEPT ![p] = Existing]
    /\ UNCHANGED <<files, tables, lock, known, cur, tx, faults>>

(* DeleteParsedLogsBySource, autocommitted before the transaction opens.   *)
(* A forced sync leaves parsedMtimeByFile empty.                           *)
DeleteParsedLogs(p) ==
    /\ pc[p] = "delete"
    /\ \/ MayWrite(p) /\ parsed' = NoMarks
       \/ GivesUp(p) /\ UNCHANGED parsed
    /\ Goto(p, "scan")
    /\ UNCHANGED <<files, calls, spaces, lock, req, todo, known, cur, tx, faults>>

ParsedMtimeByFile(p) ==
    /\ pc[p] = "load"
    /\ known' = [known EXCEPT ![p] = parsed]
    /\ Goto(p, "scan")
    /\ UNCHANGED <<files, tables, lock, req, todo, cur, tx, faults>>

(* Mutant: a file with any parsed_logs row is skipped. *)
Skips_AnyParsed(p, f) ==
    /\ ~req[p].force
    /\ \/ mtime[f] < req[p].lo
       \/ mtime[f] >= req[p].hi
       \/ known[p][f] # 0

(* The tests on a file's Lstat result; a forced sync makes none of them. *)
Skips(p, f) ==
    /\ ~req[p].force
    /\ \/ mtime[f] < req[p].lo
       \/ mtime[f] >= req[p].hi
       \/ known[p][f] = mtime[f]

SkipFile(p) ==
    /\ pc[p] = "scan"
    /\ \E f \in todo[p] :
          /\ Skips(p, f)
          /\ todo' = [todo EXCEPT ![p] = @ \ {f}]
    /\ UNCHANGED <<files, tables, lock, pc, req, known, cur, tx, faults>>

(* The mtime is taken here, before the file is read.  The first file taken *)
(* opens the transaction, which locks nothing until its first write.       *)
TakeFile(p) ==
    /\ pc[p] = "scan"
    /\ \E f \in todo[p] :
          /\ ~Skips(p, f)
          /\ file' = [file EXCEPT ![p] = f]
          /\ stat' = [stat EXCEPT ![p] = mtime[f]]
    /\ open' = [open EXCEPT ![p] = TRUE]
    /\ Goto(p, "read")
    /\ UNCHANGED <<files, tables, lock, req, todo, known, batch, rows, marks, faults>>

(* BeginLogSyncTx fails: return 0, without the closing clean-up. *)
BeginFails(p) ==
    /\ pc[p] = "scan"
    /\ ~open[p]
    /\ \E f \in todo[p] : ~Skips(p, f)
    /\ Fault("begin")
    /\ Leave(p)
    /\ UNCHANGED <<files, tables>>

(* readLogContentForRange: with bounds, only the last 4 MiB are read.      *)
FirstRead(f, w) ==
    IF ~w.all /\ Len(log[f]) > TailRecords THEN Len(log[f]) - TailRecords + 1
    ELSE 1

(* Mutant: the last line, which may lack its newline, is dropped. *)
InBounds_NotLast(f, from, r) ==
    {i \in from..Len(log[f]) - 1 : r.lo <= log[f][i] /\ log[f][i] < r.hi}

InBounds(f, from, r) ==
    {i \in from..Len(log[f]) : r.lo <= log[f][i] /\ log[f][i] < r.hi}

(* parseLogFileInRange: the tail's records in range, or the whole file's   *)
(* when the tail has none.                                                 *)
ParsedRecords(f, r) ==
    LET tail == InBounds(f, FirstRead(f, r.win), r)
    IN  IF tail = {} THEN InBounds(f, 1, r) ELSE tail

(* The parser takes a record's model from an earlier line, or from one of  *)
(* the next 120.  The first record of what was read may have neither: its  *)
(* line was cut off with the head of the file, or is not written yet.      *)
MaybeUnknown(f, r, i) ==
    /\ i = FirstRead(f, r.win)
    /\ i > 1 \/ Len(log[f]) = 1

ReadFile(p) ==
    /\ pc[p] = "read"
    /\ \E sure \in BOOLEAN :
          batch' = [batch EXCEPT ![p] =
                      {<<i, MaybeUnknown(file[p], req[p], i) => sure>> :
                         i \in ParsedRecords(file[p], req[p])}]
    /\ Goto(p, "insert")
    /\ UNCHANGED <<files, tables, lock, req, todo, known, file, stat, tx, faults>>

(* A read error is an empty result, and the file is marked like any other. *)
ReadFails(p) ==
    /\ pc[p] = "read"
    /\ Fault("read")
    /\ Goto(p, "insert")
    /\ UNCHANGED <<files, tables, lock, req, todo, known, cur, tx>>

(* LogSyncTx.InsertRecord, in file order. *)
InsertRecord(p) ==
    /\ pc[p] = "insert"
    /\ \E row \in batch[p] :
          /\ \A other \in batch[p] : row[1] <= other[1]
          /\ batch' = [batch EXCEPT ![p] = @ \ {row}]
          /\ \/ /\ MayWrite(p)
                /\ rows' = [rows EXCEPT ![p][file[p]] = @ \cup {row}]
                /\ lock' = p
             \/ GivesUp(p) /\ UNCHANGED <<rows, lock>>
    /\ UNCHANGED <<files, tables, pc, req, todo, known, file, stat, open, marks, faults>>

(* Mutant: the mtime is taken when the file has been parsed. *)
MarkLogParsed_Late(p) ==
    /\ pc[p] = "insert"
    /\ batch[p] = {}
    /\ MayWrite(p)
    /\ marks' = [marks EXCEPT ![p][file[p]] = mtime[file[p]]]
    /\ lock' = p
    /\ todo' = [todo EXCEPT ![p] = @ \ {file[p]}]
    /\ PutDown(p)
    /\ Goto(p, "scan")
    /\ UNCHANGED <<files, tables, req, known, open, rows, faults>>

(* Mutant: the mark is written with Service.MarkLogParsed, outside the     *)
(* transaction.                                                            *)
MarkLogParsed_Autocommit(p) ==
    /\ pc[p] = "insert"
    /\ batch[p] = {}
    /\ parsed' = [parsed EXCEPT ![file[p]] = stat[p]]
    /\ todo' = [todo EXCEPT ![p] = @ \ {file[p]}]
    /\ PutDown(p)
    /\ Goto(p, "scan")
    /\ UNCHANGED <<files, calls, spaces, lock, req, known, tx, faults>>

(* LogSyncTx.MarkLogParsed, with the mtime of the earlier Lstat. *)
MarkLogParsed(p) ==
    /\ pc[p] = "insert"
    /\ batch[p] = {}
    /\ \/ /\ MayWrite(p)
          /\ marks' = [marks EXCEPT ![p][file[p]] = stat[p]]
          /\ lock' = p
       \/ GivesUp(p) /\ UNCHANGED <<marks, lock>>
    /\ todo' = [todo EXCEPT ![p] = @ \ {file[p]}]
    /\ PutDown(p)
    /\ Goto(p, "scan")
    /\ UNCHANGED <<files, tables, req, known, open, rows, faults>>

(* Mutant: nothing parsed, nothing to clean up. *)
EndScan_Returns(p) ==
    /\ pc[p] = "scan"
    /\ todo[p] = {}
    /\ IF open[p]
         THEN Goto(p, "commit") /\ UNCHANGED <<lock, req, todo, known, cur, tx>>
         ELSE Leave(p)
    /\ UNCHANGED <<files, tables, faults>>

EndScan(p) ==
    /\ pc[p] = "scan"
    /\ todo[p] = {}
    /\ Goto(p, IF open[p] THEN "commit" ELSE "cleanup")
    /\ UNCHANGED <<files, tables, lock, req, todo, known, cur, tx, faults>>

(* Mutant: the workspaces are left for a later sync. *)
Commit_NoWorkspaces(p) ==
    /\ pc[p] = "commit"
    /\ calls' = [f \in Files |-> calls[f] \cup rows[p][f]]
    /\ parsed' = [f \in Files |-> IF marks[p][f] # 0 THEN marks[p][f]
                                  ELSE parsed[f]]
    /\ EndTx(p)
    /\ Goto(p, "cleanup")
    /\ UNCHANGED <<files, spaces, req, todo, known, cur, faults>>

(* LogSyncTx.Commit: rows and marks become visible together. *)
Commit(p) ==
    /\ pc[p] = "commit"
    /\ calls' = [f \in Files |-> calls[f] \cup rows[p][f]]
    /\ parsed' = [f \in Files |-> IF marks[p][f] # 0 THEN marks[p][f]
                                  ELSE parsed[f]]
    /\ EndTx(p)
    /\ Goto(p, "workspaces")
    /\ UNCHANGED <<files, spaces, req, todo, known, cur, faults>>

(* COMMIT fails, and SyncLogsToDB returns 0.  Its Rollback does nothing:   *)
(* database/sql has ended the Tx.  SQLite undoes the transaction itself    *)
(* (external): in WAL mode a COMMIT is never refused as busy, and one that *)
(* meets a full disk or an I/O error is rolled back.                       *)
CommitFails(p) ==
    /\ pc[p] = "commit"
    /\ Fault("commit")
    /\ Leave(p)
    /\ UNCHANGED <<files, tables>>

(* Mutant: SyncLogsToDB returns after the workspaces. *)
UpsertWorkspaces_Returns(p) ==
    /\ pc[p] = "workspaces"
    /\ MayWrite(p)
    /\ spaces' = spaces \cup Existing
    /\ Leave(p)
    /\ UNCHANGED <<files, calls, parsed, faults>>

(* LoadSessionWorkspaces reads every session there is; each is upserted.   *)
UpsertWorkspaces(p) ==
    /\ pc[p] = "workspaces"
    /\ \/ MayWrite(p) /\ spaces' = spaces \cup Existing
       \/ GivesUp(p) /\ UNCHANGED spaces
    /\ Goto(p, "cleanup")
    /\ UNCHANGED <<files, calls, parsed, lock, req, todo, known, cur, tx, faults>>

Superseded(f, row) == ~row[2] /\ <<row[1], TRUE>> \in calls[f]

(* Mutant: CleanupUnknownDuplicates returns after its first DELETE. *)
CleanupUnknownDuplicates_Returns(p) ==
    /\ pc[p] = "cleanup"
    /\ \/ /\ MayWrite(p)
          /\ calls' = [f \in Files |-> {row \in calls[f] : ~Superseded(f, row)}]
       \/ GivesUp(p) /\ UNCHANGED calls
    /\ Leave(p)
    /\ UNCHANGED <<files, parsed, spaces, faults>>

(* The first DELETE of CleanupUnknownDuplicates. *)
CleanupUnknownDuplicates(p) ==
    /\ pc[p] = "cleanup"
    /\ \/ /\ MayWrite(p)
          /\ calls' = [f \in Files |-> {row \in calls[f] : ~Superseded(f, row)}]
       \/ GivesUp(p) /\ UNCHANGED calls
    /\ Goto(p, "mend")
    /\ UNCHANGED <<files, parsed, spaces, lock, req, todo, known, cur, tx, faults>>

(* The rows have one model_normalized. *)
SameModel(f, row, other) ==
    /\ row[2] = other[2]
    /\ row[2] => Usage[f][row[1]].model = Usage[f][other[1]].model

Corrupted(f, row) ==
    \E other \in calls[f] : SameModel(f, row, other) /\ Misread(f, log[f], row[1], other[1])

(* Mutant: every row with fewer prompt than cached tokens is deleted. *)
CleanupCorruptedTokens_All(p) ==
    /\ pc[p] = "mend"
    /\ \/ /\ MayWrite(p)
          /\ calls' = [f \in Files |->
                         {row \in calls[f] : Usage[f][row[1]].prompt >= Usage[f][row[1]].cache}]
       \/ GivesUp(p) /\ UNCHANGED calls
    /\ Leave(p)
    /\ UNCHANGED <<files, parsed, spaces, faults>>

(* Its second DELETE; then SyncLogsToDB returns. *)
CleanupCorruptedTokens(p) ==
    /\ pc[p] = "mend"
    /\ \/ /\ MayWrite(p)
          /\ calls' = [f \in Files |-> {row \in calls[f] : ~Corrupted(f, row)}]
       \/ GivesUp(p) /\ UNCHANGED calls
    /\ Leave(p)
    /\ UNCHANGED <<files, parsed, spaces, faults>>

Crash(p) ==
    /\ pc[p] # "idle"
    /\ Fault("crash")
    /\ Leave(p)
    /\ UNCHANGED <<files, tables>>

-----------------------------------------------------------------------------
SyncStep(p) ==
    \/ DeleteParsedLogs(p) \/ ParsedMtimeByFile(p)
    \/ SkipFile(p) \/ TakeFile(p) \/ ReadFile(p)
    \/ InsertRecord(p) \/ MarkLogParsed(p) \/ EndScan(p)
    \/ Commit(p) \/ UpsertWorkspaces(p)
    \/ CleanupUnknownDuplicates(p) \/ CleanupCorruptedTokens(p)

FaultStep(p) ==
    BeginFails(p) \/ ReadFails(p) \/ CommitFails(p) \/ Crash(p)

Next ==
    \/ \E f \in Files : AppendRecord(f) \/ AppendOther(f)
    \/ \E p \in Procs : Start(p) \/ SyncStep(p) \/ FaultStep(p)

Spec == Init /\ [][Next]_vars

(* The web server starts a sync on every tick, and a running sync goes on. *)
(* Strong fairness stands for SQLite granting the lock within its timeout. *)
Fairness == \A p \in Procs : WF_vars(Start(p)) /\ SF_vars(SyncStep(p))

FairSpec == Spec /\ Fairness
-----------------------------------------------------------------------------
(* Properties *)

Row  == Nat \X BOOLEAN
Req  == [win : Window, force : BOOLEAN, lo : Int, hi : Int, goal : [Files -> Nat]]

(* The values the state of SyncLogsToDB and its tables may have. *)
TypeOK ==
    /\ now \in 0..MaxTime
    /\ log \in [Files -> Seq(1..MaxTime)]
    /\ mtime \in [Files -> 0..MaxTime]
    /\ calls \in [Files -> SUBSET Row]
    /\ parsed \in [Files -> Nat]
    /\ spaces \in SUBSET Files
    /\ lock \in Procs \cup {Free}
    /\ pc \in [Procs -> PCs]
    /\ req \in [Procs -> Req]
    /\ todo \in [Procs -> SUBSET Files]
    /\ known \in [Procs -> [Files -> Nat]]
    /\ file \in [Procs -> Files \cup {NoFile}]
    /\ stat \in [Procs -> Nat]
    /\ batch \in [Procs -> SUBSET Row]
    /\ \A p \in Procs : pc[p] \in {"read", "insert"} => file[p] \in Files
    /\ open \in [Procs -> BOOLEAN]
    /\ rows \in [Procs -> [Files -> SUBSET Row]]
    /\ marks \in [Procs -> [Files -> Nat]]
    /\ faults \in Nat

(* The records of a log with these stamps, up to time `upto' and in window *)
(* w at time t, are all in table.                                          *)
Covers(f, stamps, t, table, w, upto) ==
    \A i \in DOMAIN stamps :
        stamps[i] <= upto /\ InWindow(w, t, stamps[i]) => Stored(f, stamps, table, i)

(* A parsed_logs row that makes the next sync skip a file (its mtime is    *)
(* the file's) is never a lie: every record of the file that is in the     *)
(* reporting window is in api_calls, whichever process stored it and       *)
(* whatever was appended while it was being parsed.                        *)
SkippedFilesAreStored ==
    \A f \in Files, w \in Windows :
        parsed[f] # 0 /\ parsed[f] = mtime[f] =>
            Covers(f, log[f], now, calls[f], w, mtime[f])

(* When SyncLogsToDB has committed, every record that was in the logs when *)
(* it started and lies in its window can be reported, although files were  *)
(* skipped on the word of other processes.  The window is taken as of now: *)
(* a sync that straddles midnight is judged by the later window.           *)
SyncCoversWindow ==
    \A p \in Procs : pc[p] \in Committed =>
        \A f \in Files : \A i \in 1..req[p].goal[f] :
            InWindow(req[p].win, now, log[f][i]) => Stored(f, log[f], calls[f], i)

(* --sync is a full re-parse: when it has committed, every record that was *)
(* in the logs when it started is stored, if it is in the bounds that were *)
(* asked for (with --all, every record), whatever other processes marked,  *)
(* stored or cleaned up, and whatever the mtime of its log.                *)
ForcedSyncStoresEverything ==
    \A p \in Procs : pc[p] \in Committed /\ req[p].force =>
        \A f \in Files : \A i \in 1..req[p].goal[f] :
            req[p].lo <= log[f][i] /\ log[f][i] < req[p].hi => Stored(f, log[f], calls[f], i)

(* A call is counted twice (under its model and as 'unknown') only while a *)
(* sync that has committed has its clean-up still to run, or after one     *)
(* died there.                                                             *)
TwinsAreTransient ==
    \A f \in Files : \A i \in 1..Len(log[f]) :
        Twin(f, i) => faults > 0 \/ \E p \in Procs : pc[p] \in {"workspaces", "cleanup"}

(* A log that will be skipped has its session's workspace, so its calls    *)
(* are attributed to a project, unless a sync is about to record it or one *)
(* died between its commit and that step.                                  *)
ParsedLogsHaveWorkspaces ==
    \A f \in Files : parsed[f] # 0 =>
        f \in spaces \/ faults > 0 \/ \E p \in Procs : pc[p] = "workspaces"

(* Re-parsing, forcing and cleaning up never lose a call: a record once in *)
(* api_calls stays there under one attribution or the other, except that   *)
(* the clean-up may delete it as the misreading of another one, and then   *)
(* such a one, with more prompt tokens, is there and stays.                *)
CallsAreKept ==
    [][\A f \in Files : \A i \in DOMAIN log[f] :
          Stored(f, log[f], calls[f], i) => Stored(f, log[f], calls[f], i)']_vars

(* Under the web server's ticker every record Copilot writes is eventually *)
(* stored, in spite of crashes, failed commits and lock contention.        *)
EveryRecordIsEventuallyStored ==
    \A f \in Files : \A i \in 1..MaxRecords :
        i <= Len(log[f]) ~> Stored(f, log[f], calls[f], i)

(* A call counted twice is eventually counted once, even when the process  *)
(* that was to clean up has died.                                          *)
TwinsHeal ==
    \A f \in Files :
        (\E i \in 1..MaxRecords : Twin(f, i)) ~> (\A i \in 1..MaxRecords : ~Twin(f, i))

(* A call that is counted again with too few tokens, beside a row with     *)
(* more of them, is eventually counted once.                               *)
MisreadsHeal ==
    \A f \in Files :
        (\E row \in calls[f] : Corrupted(f, row)) ~> (\A row \in calls[f] : ~Corrupted(f, row))
-----------------------------------------------------------------------------
(* The inductive invariant behind SkippedFilesAreStored and                *)
(* SyncCoversWindow.  It needs one window that reaches today (the web      *)
(* server's, or --all), reads that are never cut to the tail, and neither  *)
(* lost writes, failed reads nor two writes in one tick.                   *)

TheWindow == CHOOSE w \in Windows : TRUE

Benign ==
    /\ Windows = {TheWindow}
    /\ TheWindow.all \/ TheWindow.to = 0
    /\ TheWindow.all \/ MaxRecords <= TailRecords
    /\ Faults \cap {"read", "busy", "sametick"} = {}

(* The reported records of f among those that were there when p started. *)
Delivered(p, f, table) ==
    \A i \in 1..req[p].goal[f] :
        InWindow(TheWindow, now, log[f][i]) => Stored(f, log[f], table, i)

LogsInv ==
    \A f \in Files :
        /\ mtime[f] <= now
        /\ Len(log[f]) <= MaxRecords
        /\ \A i \in DOMAIN log[f] : log[f][i] <= mtime[f]

(* A mark m on a file promises the records up to m. *)
TableInv ==
    \A f \in Files :
        /\ parsed[f] <= mtime[f]
        /\ Covers(f, log[f], now, calls[f], TheWindow, parsed[f])

KnownInv(p) ==
    \A f \in Files :
        /\ known[p][f] <= mtime[f]
        /\ Covers(f, log[f], now, calls[f], TheWindow, known[p][f])

(* The marks of an open transaction are kept by its rows and the table's.  *)
TxInv(p) ==
    /\ ~open[p] => rows[p] = NoRows
    /\ \A f \in Files :
          /\ marks[p][f] <= mtime[f]
          /\ Covers(f, log[f], now, calls[f] \cup rows[p][f], TheWindow, marks[p][f])

ReqInv(p) ==
    pc[p] # "idle" =>
        /\ req[p].win = TheWindow
        /\ req[p].lo <= Lo(TheWindow, now)
        /\ req[p].hi = Forever
        /\ \A f \in Files : req[p].goal[f] <= Len(log[f])

(* What has been scanned, or committed, is delivered. *)
DoneInv(p) ==
    /\ pc[p] \notin Committed \cup {"idle"} =>
          \A f \in Files \ todo[p] : Delivered(p, f, calls[f] \cup rows[p][f])
    /\ pc[p] = "commit" => todo[p] = {}
    /\ pc[p] \in Committed => \A f \in Files : Delivered(p, f, calls[f])

(* The file in hand: nothing written before p started is newer than its    *)
(* Lstat, and what was read covers all of that.                            *)
HandInv(p) ==
    /\ pc[p] \in {"read", "insert"} =>
          /\ open[p]
          /\ stat[p] <= mtime[file[p]]
          /\ \A i \in 1..req[p].goal[file[p]] : log[file[p]][i] <= stat[p]
    /\ pc[p] = "insert" =>
          Covers(file[p], log[file[p]], now,
                 calls[file[p]] \cup rows[p][file[p]] \cup batch[p], TheWindow, stat[p])

SyncInv ==
    /\ LogsInv
    /\ TableInv
    /\ \A p \in Procs : KnownInv(p) /\ TxInv(p) /\ ReqInv(p) /\ DoneInv(p) /\ HandInv(p)
-----------------------------------------------------------------------------
(* Refinement: one source's log sync is a ledger. *)

Wanted(t, stamp) == InWindow(TheWindow, t, stamp)

StoredRecords ==
    [f \in Files |-> {i \in DOMAIN log[f] : Stored(f, log[f], calls[f], i)}]

Book == INSTANCE Ledger WITH stored <- StoredRecords, vouched <- parsed

(* Scans, transactions and several processes at once amount to this: calls *)
(* are only added, together with the marks that vouch for them; every mark *)
(* set is kept by the calls there at that moment; and the clean-up changes *)
(* nothing that is promised.                                               *)
ImplementsLedger == Book!Spec
=============================================================================
