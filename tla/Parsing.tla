------------------------------ MODULE Parsing ------------------------------
(***************************************************************************)
(* Reading one log (go/internal/parsing, parseLogFileInRange of            *)
(* go/main.go) and storing what was read (SyncLogsToDB and LogSyncTx), as  *)
(* Copilot goes on writing it: the parser of the older logs, which pieces  *)
(* a call together from single lines, and that of telemetry events; the    *)
(* window of a sync; user turns; and rows that are stored again.           *)
(*                                                                         *)
(* LogSync has the files, marks, transactions and processes, and knows a   *)
(* record by its index.  Here is one log, and syncs that happen at once.   *)
(*                                                                         *)
(* Abstractions.  A line is a record with its kind; the line or block that *)
(* reports a call's tokens is one line, written at once.  The number of a  *)
(* call stands for its token counts, its completion tokens among them: of  *)
(* the clean-up only the first DELETE finds rows (LogSync has the other).  *)
(* Timestamps are days.  Sessions and prompt texts are left out.           *)
(***************************************************************************)
EXTENDS Costing, FiniteSets

CONSTANTS
    Formats,        \* of logs: a subset of {"usage", "telemetry", "both"}
    LoggedModels,   \* names in the log's "model" fields
    UnknownModel,   \* "unknown"
    Ranges,         \* windows of syncs: [min, max], 0 for no bound
    BlockEnd,       \* lines after a call in which no model is looked for (16)
    ModelBlockEnd,  \* lines after a call in which one is (120)
    TailLines,      \* lines in the last 4 MiB of a log
    LastDay,        \* bound on the days
    MaxLines,       \* bound on the lines of the log
    MaxCalls,       \* bound on its calls
    MaxSyncs        \* bound on the syncs

ASSUME ParsingAssumption ==
    /\ Formats \subseteq {"usage", "telemetry", "both"}
    /\ UnknownModel \notin LoggedModels
    /\ BlockEnd \in Nat /\ ModelBlockEnd \in Nat /\ TailLines \in Nat
    /\ LastDay \in Nat /\ MaxLines \in Nat /\ MaxCalls \in Nat /\ MaxSyncs \in Nat

VARIABLES
    format,     \* what this version of Copilot writes
    log,        \* the lines of the log
    stored,     \* its rows in api_calls: keys, and whether it is a user turn
    syncs,      \* number of syncs so far
    fresh,      \* ghost: the last sync read all of the log as it is now
    ranged,     \* ghost: some sync had a window
    tailed      \* ghost: some sync read the tail of the log only

parsingVars == <<format, log, stored, syncs, fresh, ranged, tailed>>
ghosts == <<ranged, tailed>>

WholeLog == [min |-> Undated, max |-> Undated]

Lines(kind) == {i \in DOMAIN log : log[i].kind = kind}
Reports == Lines("usage") \cup Lines("event")
LastCall == IF Reports = {} THEN 0
            ELSE log[CHOOSE i \in Reports : \A j \in Reports : j <= i].call
LastStamp == log[CHOOSE i \in Lines("stamp") : \A j \in Lines("stamp") : j <= i].day

(* A log begins with a stamped line. *)
ParsingInit ==
    /\ format \in Formats
    /\ log = <<[kind |-> "stamp", day |-> 1]>>
    /\ stored = {}
    /\ syncs = 0
    /\ fresh = FALSE
    /\ ranged = FALSE
    /\ tailed = FALSE
-----------------------------------------------------------------------------
(* Copilot writes its log (external, after the logs of the tests). *)

WriteLine(line) ==
    /\ Len(log) < MaxLines
    /\ log' = Append(log, line)
    /\ fresh' = FALSE
    /\ UNCHANGED <<format, stored, syncs, ghosts>>

WriteStamp ==
    /\ LastStamp < LastDay
    /\ WriteLine([kind |-> "stamp", day |-> LastStamp + 1])

(* "Setting X-Initiator to", or "initiator" *)
WriteInitiator(user) ==
    /\ format # "telemetry"
    /\ WriteLine([kind |-> "initiator", user |-> user])

(* "model" *)
WriteModel(model) ==
    /\ format # "telemetry"
    /\ WriteLine([kind |-> "model", model |-> model])

(* The tokens of a call; of one that was reported by an event, or of a new *)
(* one, such as that which names a session and has no event.               *)
WriteUsage ==
    /\ format # "telemetry"
    /\ \E call \in {LastCall, LastCall + 1} :
           /\ call \in 1..MaxCalls
           /\ \A i \in Lines("usage") : log[i].call < call
           /\ WriteLine([kind |-> "usage", call |-> call])

(* An "assistant_usage" event *)
WriteEvent(model, user) ==
    /\ format # "usage"
    /\ LastCall < MaxCalls
    /\ WriteLine([kind |-> "event", call |-> LastCall + 1, model |-> model, user |-> user])
-----------------------------------------------------------------------------
(* The parsers.  after[i] is the state of the loop when line i has been     *)
(* read.                                                                   *)

InRange(day, range) ==
    day # Undated =>
        /\ range.min # Undated => day >= range.min
        /\ range.max # Undated => day < range.max

Start == [model |-> UnknownModel, day |-> Undated, user |-> FALSE, calls |-> <<>>]

Record(call, model, day, user) == [call |-> call, model |-> model, day |-> day, turn |-> user]

(* While no model is known it is looked for further down.  (The lines that *)
(* are nearest are searched for tokens but not for models.)                *)
ModelFor(content, i, model) ==
    LET ahead == {j \in i + BlockEnd .. i + ModelBlockEnd - 1 :
                     j <= Len(content) /\ content[j].kind \in {"model", "event"}}
    IN  IF model # UnknownModel \/ ahead = {} THEN model
        ELSE content[CHOOSE j \in ahead : \A k \in ahead : j <= k].model

(* Mutant: the initiator stays for the next call. *)
ParseUsage_KeepInitiator(content, range, state, i) ==
    LET model == ModelFor(content, i, state.model)
        call  == content[i].call
    IN  IF ~InRange(state.day, range) THEN [state EXCEPT !.user = FALSE]
        ELSE [state EXCEPT !.model = model,
                 !.calls = Append(@, Record(call, model, state.day, state.user))]

ParseUsage(content, range, state, i) ==
    LET model == ModelFor(content, i, state.model)
        call  == content[i].call
    IN  IF ~InRange(state.day, range) THEN [state EXCEPT !.user = FALSE]
        ELSE [state EXCEPT !.model = model, !.user = FALSE,
                 !.calls = Append(@, Record(call, model, state.day, state.user))]

(* An event has lines with a model and an initiator, too. *)
RegexLine(content, range, state, i) ==
    CASE content[i].kind = "stamp"     -> [state EXCEPT !.day = content[i].day]
      [] content[i].kind = "initiator" -> [state EXCEPT !.user = content[i].user]
      [] content[i].kind = "model"     -> [state EXCEPT !.model = content[i].model]
      [] content[i].kind = "event"     -> [state EXCEPT !.model = content[i].model,
                                                        !.user = content[i].user]
      [] content[i].kind = "usage"     -> ParseUsage(content, range, state, i)

ParseRegexRecords(content, range) ==
    LET after[i \in 0..Len(content)] ==
            IF i = 0 THEN Start ELSE RegexLine(content, range, after[i - 1], i)
    IN  after[Len(content)].calls

TelemetryLine(content, range, state, i) ==
    LET line == content[i]
    IN  IF line.kind = "stamp" THEN [state EXCEPT !.day = line.day]
        ELSE IF line.kind = "event" /\ InRange(state.day, range)
        THEN [state EXCEPT !.calls =
                 Append(@, Record(line.call, line.model, state.day, line.user))]
        ELSE state

ParseTelemetryRecords(content, range) ==
    LET after[i \in 0..Len(content)] ==
            IF i = 0 THEN Start ELSE TelemetryLine(content, range, after[i - 1], i)
    IN  after[Len(content)].calls

(* Mutant: both parsers report. *)
ParseLogContent_Both(content, range) ==
    ParseTelemetryRecords(content, range) \o ParseRegexRecords(content, range)

ParseLogContent(content, range) ==
    LET records == ParseTelemetryRecords(content, range)
    IN  IF records # <<>> THEN records ELSE ParseRegexRecords(content, range)

(* readLogContentForRange: with a window, of a long log only the tail. *)
TailUsed(range) == range # WholeLog /\ Len(log) > TailLines

ParseLogFileInRange(range) ==
    LET tail    == SubSeq(log, Len(log) - TailLines + 1, Len(log))
        records == ParseLogContent(tail, range)
    IN  IF TailUsed(range) /\ records # <<>> THEN records ELSE ParseLogContent(log, range)
-----------------------------------------------------------------------------
(* Rows *)

Key(row) == <<row.call, row.model, row.day>>

(* LogSyncTx.InsertRecord: of a row that is there, the turn is overwritten. *)
InsertRecord(table, r) == {row \in table : Key(row) # Key(r)} \cup {r}

StoreRecords(table, records) ==
    LET after[i \in 0..Len(records)] ==
            IF i = 0 THEN table ELSE InsertRecord(after[i - 1], records[i])
    IN  after[Len(records)]

(* Rows of an unknown model that have a twin with a known one are deleted. *)
CleanupUnknownDuplicates(table) ==
    table \ {row \in table : /\ row.model = UnknownModel
                             /\ \E twin \in table : /\ twin.call = row.call
                                                    /\ twin.day = row.day
                                                    /\ twin.model # UnknownModel}

(* A forced sync of this log; one before its first call stores nothing. *)
Sync(range) ==
    /\ syncs < MaxSyncs /\ Reports # {}
    /\ stored' = CleanupUnknownDuplicates(
                     StoreRecords(stored, ReattributeUserTurns(ParseLogFileInRange(range))))
    /\ syncs' = syncs + 1
    /\ fresh' = (range = WholeLog)
    /\ ranged' = (ranged \/ range # WholeLog)
    /\ tailed' = (tailed \/ TailUsed(range))
    /\ UNCHANGED <<format, log>>

ParsingNext ==
    \/ WriteStamp
    \/ \E user \in BOOLEAN : WriteInitiator(user)
    \/ \E model \in LoggedModels : WriteModel(model)
    \/ WriteUsage
    \/ \E model \in LoggedModels, user \in BOOLEAN : WriteEvent(model, user)
    \/ \E range \in Ranges : Sync(range)

ParsingSpec == ParsingInit /\ [][ParsingNext]_parsingVars
-----------------------------------------------------------------------------
(* Properties *)

RowsOf(call) == {row \in stored : row.call = call}

(* The calls that the log reports as its format goes: those of its events, *)
(* or of its usage lines while there is no event.                          *)
ReportedCalls ==
    {log[i].call : i \in IF Lines("event") = {} THEN Lines("usage") ELSE Lines("event")}

ModelComesFirst ==
    \A i \in Lines("usage") : \E j \in Lines("model") \cup Lines("event") : j < i

(* No call is counted twice, however often and at whatever lengths the log *)
(* was read, while its model was or was not yet known, by one parser and   *)
(* then by the other; and none is missed by a sync of the whole log.  For  *)
(* syncs with windows that needs logs of a single format that name a model *)
(* before their first call and are read whole; README.md tells what        *)
(* happens otherwise.                                                      *)
CallsCountOnce ==
    (~ranged \/ (format # "both" /\ ModelComesFirst /\ ~tailed)) =>
        /\ \A call \in 1..MaxCalls : Cardinality(RowsOf(call)) <= 1
        /\ fresh => \A call \in ReportedCalls : RowsOf(call) # {}

(* The user's request a call answers: the initiator was set since the call *)
(* before, and the last such line says it was the user.                    *)
AskedByUser(i) ==
    \/ log[i].kind = "event" /\ log[i].user
    \/ /\ log[i].kind = "usage"
       /\ \E j \in DOMAIN log :
              /\ j < i /\ log[j].kind \in {"initiator", "event"} /\ log[j].user
              /\ \A k \in j + 1 .. i - 1 : log[k].kind \notin {"initiator", "event", "usage"}

IsPaid(call) == \E row \in RowsOf(call) : Multiplier(row) > 0

(* A user's request is charged to the first call that costs something, not *)
(* before and not twice: a row of a model with a price is a user turn just *)
(* if the user asked for it or for one of the free calls right before it.  *)
(* That holds after a sync of the whole log, even if earlier syncs with    *)
(* windows had cut a request from its calls.                               *)
TurnsAreCharged ==
    fresh /\ format # "both" /\ (~ranged \/ (ModelComesFirst /\ ~tailed)) =>
        \A i \in Reports :
            IsPaid(log[i].call) =>
                /\ \E row \in RowsOf(log[i].call) :
                       row.turn <=>
                           \E j \in Reports :
                               /\ j <= i /\ AskedByUser(j)
                               /\ \A k \in Reports : j <= k /\ k < i => ~IsPaid(log[k].call)
=============================================================================
