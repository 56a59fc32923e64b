------------------------------ MODULE Transfer ------------------------------
(***************************************************************************)
(* Import and export (go/import_export.go) between the databases of        *)
(* several machines, which go on syncing their own logs in between:        *)
(* --export-file writes calls as JSON lines, --import-file reads such a    *)
(* file or another database.  A database brings its marks (parsed_logs),   *)
(* JSON lines do not.                                                      *)
(*                                                                         *)
(* Abstractions.  A log belongs to one machine, and is the number of its   *)
(* records, which stands for its mtime, too; a window of a sync begins at  *)
(* one of them and reaches today (LogSync has windows of past days).  A    *)
(* sync is one step, and clean-ups remove no call (LogSync again).         *)
(* Workspaces, which syncs, files and imports bring with the calls and     *)
(* nothing here depends on, are left out.  All calls have the source       *)
(* `local'; --import-file never overrides it.  The copy that is imported   *)
(* is not written meanwhile.  Older schemas, and lines of other programs,  *)
(* are left out.                                                           *)
(***************************************************************************)
EXTENDS Integers, FiniteSets, Sequences

CONSTANTS
    Machines,
    LogsOf,         \* the logs of each machine
    MaxCallsOfLog   \* bound on the records of a log

TransferLogs == UNION {LogsOf[m] : m \in Machines}

ASSUME TransferAssumption ==
    /\ MaxCallsOfLog \in Nat
    /\ \A m, n \in Machines : m # n => LogsOf[m] \cap LogsOf[n] = {}

(* The ghost hollow: the logs whose mark came with an import that had not  *)
(* been able to write the calls, and that no sync has read since.          *)
NoCalls == [calls |-> {}, marks |-> [f \in TransferLogs |-> 0], hollow |-> {}]

VARIABLES
    length,     \* the number of records of each log
    since,      \* ghost: of each log, the first record in the window of every sync
    db,         \* the database of each machine: api_calls and parsed_logs
    copy,       \* a copy of some database, made some time ago
    exported,   \* a file written by --export-file: its calls
    importing,  \* of each machine, the next statement of the import it runs, or 0
    missed      \* ghost: this import could not write the calls

transferVars == <<length, since, db, copy, exported, importing, missed>>

TransferInit ==
    /\ length = [f \in TransferLogs |-> 0]
    /\ since = [f \in TransferLogs |-> 1]
    /\ db = [m \in Machines |-> NoCalls]
    /\ copy = NoCalls
    /\ exported = {}
    /\ importing = [m \in Machines |-> 0]
    /\ missed = [m \in Machines |-> FALSE]

(* Copilot logs a call (external). *)
LogCall(f) ==
    /\ length[f] < MaxCallsOfLog
    /\ length' = [length EXCEPT ![f] = @ + 1]
    /\ UNCHANGED <<since, db, copy, exported, importing, missed>>

(* Time passes, and the records get too old for the narrowest window that  *)
(* somebody syncs with (external).                                         *)
WindowMoves(f) ==
    /\ since[f] <= length[f]
    /\ since' = [since EXCEPT ![f] = @ + 1]
    /\ UNCHANGED <<length, db, copy, exported, importing, missed>>

(* Somebody copies a database (external). *)
CopyDatabase(m) ==
    /\ \A n \in Machines : importing[n] = 0
    /\ copy' = db[m]
    /\ UNCHANGED <<length, since, db, exported, importing, missed>>

CallsOf(f, first, last) == {f} \X (first..last)

(* The logs a sync reads: those whose mark does not fit and that were      *)
(* written in the window, and all of them if the sync is forced.           *)
LogsToRead(m, force, from) ==
    {f \in LogsOf[m] : length[f] # 0
        /\ (force \/ (from[f] <= length[f] /\ db[m].marks[f] # length[f]))}

(* SyncLogsToDB on a machine.  Of the logs it reads it stores the calls in *)
(* its window, and marks them as parsed whatever the window left out.  A   *)
(* forced sync first deletes the marks of the source.                      *)
SyncMachine(m, force) ==
    \E from \in [LogsOf[m] -> 1..MaxCallsOfLog + 1] :
        LET read  == LogsToRead(m, force, from)
            known == IF force THEN NoCalls ELSE db[m]
        IN  /\ \A f \in LogsOf[m] : from[f] <= since[f]
            /\ db' = [db EXCEPT ![m] =
                   [calls  |-> @.calls \cup UNION {CallsOf(f, from[f], length[f]) : f \in read},
                    marks  |-> [f \in TransferLogs |->
                                   IF f \in read THEN length[f] ELSE known.marks[f]],
                    hollow |-> known.hollow \ read]]
            /\ UNCHANGED <<length, since, copy, exported, importing, missed>>

ExportJSONL(m) ==
    /\ exported' = db[m].calls
    /\ UNCHANGED <<length, since, db, copy, importing, missed>>

(* INSERT OR IGNORE. *)
AddCalls(base, calls) == [base EXCEPT !.calls = @ \cup calls]

(* A line longer than 1 MiB ends the scan, and the errors of the statement *)
(* that writes a line are dropped: any of the lines may be missing.        *)
ImportJSONL(m) ==
    \E calls \in SUBSET exported :
        /\ db' = [db EXCEPT ![m] = AddCalls(@, calls)]
        /\ UNCHANGED <<length, since, copy, exported, importing, missed>>

(* The rows of parsed_logs replace those that are there. *)
AddMarks(base, other, noCalls) ==
    LET brought == {f \in TransferLogs : other.marks[f] # 0}
    IN  [base EXCEPT
            !.marks  = [f \in TransferLogs |->
                           IF f \in brought THEN other.marks[f] ELSE base.marks[f]],
            !.hollow = (@ \ brought) \cup {f \in brought : noCalls \/ f \in other.hollow}]

(* Mutant: the marks are imported first. *)
Statements_MarksFirst == <<"marks", "calls">>

(* What importSQLiteDB copies, a table at a time. *)
Statements == <<"calls", "marks">>

StartImport(m) ==
    /\ importing[m] = 0
    /\ importing' = [importing EXCEPT ![m] = 1]
    /\ missed' = [missed EXCEPT ![m] = FALSE]
    /\ UNCHANGED <<length, since, db, copy, exported>>

(* Each statement commits by itself. *)
ImportStatement(m) ==
    /\ importing[m] # 0
    /\ LET table == Statements[importing[m]]
       IN  db' = [db EXCEPT ![m] =
               CASE table = "calls" -> AddCalls(@, copy.calls)
                 [] table = "marks" -> AddMarks(@, copy, missed[m])]
    /\ importing' = [importing EXCEPT ![m] = (@ + 1) % (Len(Statements) + 1)]
    /\ UNCHANGED <<length, since, copy, exported, missed>>

(* It fails, on a locked database for example: the error is dropped, and   *)
(* the import goes on with the next one.                                   *)
StatementFails(m) ==
    /\ importing[m] # 0
    /\ missed' = [missed EXCEPT ![m] = @ \/ Statements[importing[m]] = "calls"]
    /\ importing' = [importing EXCEPT ![m] = (@ + 1) % (Len(Statements) + 1)]
    /\ UNCHANGED <<length, since, db, copy, exported>>

(* The process dies between two statements (external). *)
ImportKilled(m) ==
    /\ importing[m] # 0
    /\ importing' = [importing EXCEPT ![m] = 0]
    /\ UNCHANGED <<length, since, db, copy, exported, missed>>

TransferNext ==
    \/ \E f \in TransferLogs : LogCall(f) \/ WindowMoves(f)
    \/ \E m \in Machines, force \in BOOLEAN : SyncMachine(m, force)
    \/ \E m \in Machines : CopyDatabase(m)
    \/ \E m \in Machines : ExportJSONL(m)
    \/ \E m \in Machines : ImportJSONL(m)
    \/ \E m \in Machines :
          StartImport(m) \/ ImportStatement(m) \/ StatementFails(m) \/ ImportKilled(m)

TransferSpec == TransferInit /\ [][TransferNext]_transferVars
-----------------------------------------------------------------------------
(* Properties *)

(* A mark means that the calls of the log, as long as it was then, are in  *)
(* the database, whether the machine read the log or imported the mark,    *)
(* and whatever was imported before and after, and where an import was     *)
(* killed: no import, of an older copy of the same database for example,   *)
(* makes a sync skip what is not there.  Two cases are excepted, in which  *)
(* the code does leave marks without calls.  Calls older than some window  *)
(* the log was synced with are not stored by that sync, which marks the    *)
(* log all the same.  And an import whose INSERT of the calls failed goes  *)
(* on to the marks: a log marked so is hollow, here and in every copy made *)
(* of this database, until a sync reads it.                                *)
MarksVouchForCalls ==
    \A m \in Machines : \A f \in TransferLogs \ db[m].hollow :
        CallsOf(f, since[f], db[m].marks[f]) \subseteq db[m].calls
=============================================================================
