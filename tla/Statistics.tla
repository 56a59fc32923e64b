----------------------------- MODULE Statistics -----------------------------
(***************************************************************************)
(* What is made of the rows of api_calls (go/stats_service.go, the queries *)
(* of go/main.go, and the tables built from it in go/legacy_cli.go and     *)
(* go/web_mode.go): totals per day, model, project and hour, and their     *)
(* costs.  The same rows are added up along a dozen paths, and whatever    *)
(* path is taken the sums must agree.                                      *)
(*                                                                         *)
(* A table is a function from keys to records of numbers; SumBy merges the *)
(* entries whose keys are mapped to one key, which is what the loops of    *)
(* buildAllDerivedStats and buildStatsPayload do with nested maps.         *)
(*                                                                         *)
(* Abstractions.  A timestamp is a number of minutes, and 0 the empty one. *)
(* A workspace is a place (the home directory, /workspaces of a codespace, *)
(* elsewhere) and a base name, with its rank in the order of the paths.    *)
(* Numbers of log files, labels, formats and sorting are left out.         *)
(***************************************************************************)
EXTENDS Costing

CONSTANTS
    Rows,           \* rows that may be in api_calls
    Workspaces,     \* workspaces a session may be registered with
    Offsets,        \* time zone offsets of viewers, in minutes
    Times,          \* ends of the windows that are asked for
    Needles,        \* project filters that are asked for
    Today,          \* the day on which daily spend is looked at
    MaxRows         \* bound on the rows in the database

VARIABLES
    rows,           \* api_calls
    workspaces      \* session_workspaces: the cwd of each session

statisticsVars == <<rows, workspaces>>

Sessions == {r.session : r \in Rows}
NoWorkspace == [rank |-> 0, place |-> "", base |-> ""]

StatisticsInit ==
    /\ rows = {}
    /\ workspaces = [s \in Sessions |-> NoWorkspace]

(* A sync stores a call (LogSync has the whole of it), *)
InsertRow(r) ==
    /\ r \notin rows /\ Cardinality(rows) < MaxRows
    /\ rows' = rows \cup {r}
    /\ UNCHANGED workspaces

(* and the workspace of a session. *)
UpsertSessionWorkspace(s, cwd) ==
    /\ workspaces' = [workspaces EXCEPT ![s] = cwd]
    /\ UNCHANGED rows

StatisticsNext ==
    \/ \E r \in Rows : InsertRow(r)
    \/ \E s \in Sessions, cwd \in Workspaces : UpsertSessionWorkspace(s, cwd)

StatisticsSpec == StatisticsInit /\ [][StatisticsNext]_statisticsVars
-----------------------------------------------------------------------------
(* Queries.  A query is a half-open interval of times, of which either end *)
(* may be missing, and a word to be found in the path of the workspace.    *)

NoTime == 0

ASSUME StatisticsAssumption ==
    /\ \A r \in Rows : {r.time, r.prompt, r.completion, r.cacheRead, r.cacheWrite} \subseteq Nat
    /\ Times \subseteq Nat \ {NoTime} /\ Offsets \subseteq Int /\ Today \in Int

Queries == [from : Times \cup {NoTime}, to : Times \cup {NoTime}, needle : Needles]

MinutesPerDay == 1440
Day(r) == r.time \div MinutesPerDay
Timed(r) == r.time # NoTime

Words(cwd) == IF cwd = NoWorkspace THEN {"(unknown)"} ELSE {cwd.place, cwd.base}

(* Mutant: the end of the window belongs to it. *)
BuildFilters_Closed(r, q) ==
    /\ q.from # NoTime => r.time >= q.from
    /\ q.to # NoTime => r.time <= q.to
    /\ q.needle # "" => q.needle \in Words(workspaces[r.session])

BuildFilters(r, q) ==
    /\ q.from # NoTime => r.time >= q.from
    /\ q.to # NoTime => r.time < q.to
    /\ q.needle # "" => q.needle \in Words(workspaces[r.session])

QueryRecords(q) == {r \in rows : BuildFilters(r, q)}

(* Stats, with what an entry costs. *)
CountFields == {"calls", "turns", "prompt", "completion", "cacheRead", "cacheWrite", "premium"}
MoneyFields == {"cost", "costNoCache", "premiumCost"}

NewStats == [calls |-> 0, turns |-> 0, prompt |-> 0, completion |-> 0, cacheRead |-> 0,
             cacheWrite |-> 0, premium |-> 0, cost |-> 0, costNoCache |-> 0, premiumCost |-> 0]

MergeStats(dst, src) ==
    [calls |-> dst.calls + src.calls, turns |-> dst.turns + src.turns,
     prompt |-> dst.prompt + src.prompt, completion |-> dst.completion + src.completion,
     cacheRead |-> dst.cacheRead + src.cacheRead,
     cacheWrite |-> dst.cacheWrite + src.cacheWrite,
     premium |-> dst.premium + src.premium, cost |-> dst.cost + src.cost,
     costNoCache |-> dst.costNoCache + src.costNoCache,
     premiumCost |-> dst.premiumCost + src.premiumCost]

(* Mutant: an entry replaces another of the same key. *)
AddEntry_Overwrite(table, key, stats) == (key :> stats) @@ table

(* An entry is merged with the one of the same key, if there is one. *)
AddEntry(table, key, stats) ==
    [k \in DOMAIN table \cup {key} |->
        IF k # key THEN table[k]
        ELSE IF key \in DOMAIN table THEN MergeStats(table[key], stats) ELSE stats]

(* The key function tells the new key of each entry. *)
SumBy(table, key) ==
    FoldSet(LAMBDA k, sums : AddEntry(sums, key[k], table[k]), <<>>, DOMAIN table)

GrandTotal(table) == FoldSet(LAMBDA k, sum : MergeStats(sum, table[k]), NewStats, DOMAIN table)

RowStats(r) ==
    [NewStats EXCEPT !.calls = 1, !.turns = IF r.turn THEN 1 ELSE 0, !.prompt = r.prompt,
        !.completion = r.completion, !.cacheRead = r.cacheRead, !.cacheWrite = r.cacheWrite]

(* The premium requests of an entry, and what it costs on its day. *)
Premium(s, model, day) == [s EXCEPT !.premium = s.turns * GetPremiumMultiplier(model, day)]

Priced(s, model, day) ==
    [s EXCEPT !.cost = CalcCost(model, s, day),
              !.costNoCache = CalcCostNoCache(model, s, day),
              !.premiumCost = s.premium * GetPremiumRequestCost(day)]

(* GROUP BY day, cwd, model_normalized; buildAllDerivedStats adds the      *)
(* premium requests of a group, at the multiplier of its day.              *)
QueryDailyProjectModelStats(q) ==
    LET raw == SumBy([r \in QueryRecords(q) |-> RowStats(r)],
                     [r \in QueryRecords(q) |->
                         <<Day(r), workspaces[r.session], NormalizeModel(r.model)>>])
    IN  [k \in DOMAIN raw |-> Premium(raw[k], k[3], k[1])]
-----------------------------------------------------------------------------
(* Names of projects *)

ProjectName(cwd) == IF cwd.place = "home" THEN [cwd EXCEPT !.place = "~"] ELSE cwd
UnknownProject == [NoWorkspace EXCEPT !.place = "(unknown)"]

IsCodespacesWorkspacePath(cwd) == cwd.place = "/workspaces"

(* buildLocalProjectByBase: of several local workspaces of one base name   *)
(* the first in the order of their paths.                                  *)
LocalProjects(cwds, base) ==
    {cwd \in cwds \ {NoWorkspace} : ~IsCodespacesWorkspacePath(cwd) /\ cwd.base = base}

LocalProjectByBase(cwds, base) ==
    ProjectName(CHOOSE cwd \in LocalProjects(cwds, base) :
                    \A other \in LocalProjects(cwds, base) : cwd.rank <= other.rank)

(* A workspace in a codespace is shown as the local project of that name.  *)
CanonicalProjectLabel(cwd, cwds) ==
    IF cwd = NoWorkspace THEN UnknownProject
    ELSE IF IsCodespacesWorkspacePath(cwd) /\ LocalProjects(cwds, cwd.base) # {}
         THEN LocalProjectByBase(cwds, cwd.base)
         ELSE ProjectName(cwd)
-----------------------------------------------------------------------------
(* Tables *)

(* buildAllDerivedStats and buildStatsPayload: the table of days and       *)
(* models, and that of days, projects and models.                          *)
Daily(q) ==
    LET raw   == QueryDailyProjectModelStats(q)
        table == SumBy(raw, [k \in DOMAIN raw |-> <<k[1], k[3]>>])
    IN  [k \in DOMAIN table |-> Priced(table[k], k[2], k[1])]

ProjectDaily(q) ==
    LET raw   == QueryDailyProjectModelStats(q)
        cwds  == {k[2] : k \in DOMAIN raw}
        table == SumBy(raw, [k \in DOMAIN raw |->
                                <<k[1], CanonicalProjectLabel(k[2], cwds), k[3]>>])
    IN  [k \in DOMAIN table |-> Priced(table[k], k[3], k[1])]

(* What is made of them: sums over days, models and projects. *)
SumPart(table, i)    == SumBy(table, [k \in DOMAIN table |-> k[i]])
Models(daily)        == SumPart(daily, 2)
DayTotals(daily)     == SumPart(daily, 1)
Projects(daily)      == SumPart(daily, 2)
ProjectModels(daily) == SumBy(daily, [k \in DOMAIN daily |-> <<k[2], k[3]>>])
DailyProjects(daily) == SumBy(daily, [k \in DOMAIN daily |-> <<k[1], k[2]>>])

(* Call by call, for the hours of the day and the command line's projects. *)
Calls(q) ==
    [r \in QueryRecords(q) |->
        LET model == NormalizeModel(r.model)
        IN  Priced(Premium(RowStats(r), model, Day(r)), model, Day(r))]

NormalizeTimezoneOffset(minutes) ==
    CASE minutes > 840 -> 840 [] minutes < -840 -> -840 [] OTHER -> minutes

Hour(time, offset) ==
    ((time - NormalizeTimezoneOffset(offset)) % MinutesPerDay) \div 60

Hourly(calls, offset) ==
    LET timed == Restrict(calls, {r \in DOMAIN calls : Timed(r)})
    IN  SumBy(timed, [r \in DOMAIN timed |-> Hour(r.time, offset)])

(* runLegacyCLI adds up the costs of projects on its own. *)
LegacyProject(r) ==
    IF workspaces[r.session] = NoWorkspace THEN UnknownProject
    ELSE ProjectName(workspaces[r.session])

LegacyProjects(calls) == SumBy(calls, [r \in DOMAIN calls |-> LegacyProject(r)])
-----------------------------------------------------------------------------
(* Daily spend (go/web_mode.go): the week that ends with the window, or    *)
(* today, as far as the window reaches back.                               *)

SpendDays(range) ==
    LET end == IF range = <<>> THEN Today ELSE range[2]
    IN  {d \in end - 6 .. end : range = <<>> \/ d >= range[1]}

OnDays(table, days) == Restrict(table, {k \in DOMAIN table : k[1] \in days})

(* Of a table by day and model, or by day and project. *)
Rolling(table, days) == SumPart(OnDays(table, days), 2)
Trend(table, days)   == [d \in days |-> Rolling(table, {d})]
-----------------------------------------------------------------------------
(* Properties *)

(* Every table adds up to the calls that the query selects, in tokens,     *)
(* calls, turns, premium requests and what is linear in them: no call is   *)
(* lost or counted twice on the way through days, models, projects and     *)
(* hours, whatever names are normalised or merged on the way.              *)
TablesAgree ==
    \A q \in Queries :
        LET calls  == Calls(q)
            daily  == Daily(q)
            byProject == ProjectDaily(q)
            total  == GrandTotal(calls)
            Agrees(table) ==
                LET sum == GrandTotal(table)
                IN  \A f \in CountFields \cup {"costNoCache", "premiumCost"} : sum[f] = total[f]
        IN  /\ Agrees(DayTotals(daily)) /\ Agrees(Models(daily))
            /\ Agrees(Projects(byProject)) /\ Agrees(ProjectModels(byProject))
            /\ Agrees(DailyProjects(byProject))
            /\ (\A r \in DOMAIN calls : Timed(r)) =>
                   \A offset \in Offsets : Agrees(Hourly(calls, offset))

Sound(r) == r.prompt >= r.cacheRead + r.cacheWrite

(* The cost is the same along every path as long as no call has more       *)
(* cached tokens than tokens.  If one has, input is cut off at zero at     *)
(* different places, but only in one direction: adding up first can only   *)
(* make it cheaper, so days <= projects <= single calls.                   *)
CostsAddUp ==
    \A q \in Queries :
        LET daily     == Daily(q)
            byProject == ProjectDaily(q)
            Cost(table) == GrandTotal(table).cost
        IN  /\ Cost(daily) <= Cost(byProject) /\ Cost(byProject) <= Cost(Calls(q))
            /\ (\A r \in QueryRecords(q) : Sound(r)) => Cost(daily) = Cost(Calls(q))
            /\ Cost(Models(daily)) = Cost(daily) /\ Cost(DayTotals(daily)) = Cost(daily)
            /\ Cost(Projects(byProject)) = Cost(byProject)
            /\ Cost(ProjectModels(byProject)) = Cost(byProject)
            /\ Cost(DailyProjects(byProject)) = Cost(byProject)

(* Windows that meet share no call and miss none between them: what two of *)
(* them show adds up to what the window over both shows.                   *)
WindowsAddUp ==
    \A a, c \in Times \cup {NoTime}, b \in Times, needle \in Needles :
        LET Window(from, to) == [from |-> from, to |-> to, needle |-> needle]
            Shown(q) == GrandTotal(Daily(q)).calls
        IN  a <= b /\ (c = NoTime \/ b <= c) =>
                Shown(Window(a, c)) = Shown(Window(a, b)) + Shown(Window(b, c))

(* A viewer west of another by whole hours sees the same hours, so many    *)
(* places earlier on the clock.                                            *)
HoursFollowTheViewer ==
    \A offset \in Offsets :
        LET all == [from |-> NoTime, to |-> NoTime, needle |-> ""]
            utc == Hourly(Calls(all), 0)
            here == Hourly(Calls(all), offset)
            shift == NormalizeTimezoneOffset(offset) \div 60
        IN  offset % 60 = 0 =>
                /\ \A h \in DOMAIN utc : /\ (h - shift) % 24 \in DOMAIN here
                                         /\ here[(h - shift) % 24] = utc[h]
                /\ Cardinality(DOMAIN here) = Cardinality(DOMAIN utc)

(* The command line's costs of projects are the dashboard's, unless a      *)
(* workspace of a codespace is shown under a local project (which the      *)
(* command line adds to none of the projects it prints).                   *)
LegacyShowsProjects ==
    \A q \in Queries :
        LET cwds   == {workspaces[r.session] : r \in QueryRecords(q)}
            merged == \E cwd \in cwds :
                         IsCodespacesWorkspacePath(cwd) /\ LocalProjects(cwds, cwd.base) # {}
        IN  ~merged /\ (\A r \in QueryRecords(q) : Sound(r)) =>
                LegacyProjects(Calls(q)) = Projects(ProjectDaily(q))

(* The points of the trends, the rolling totals of models and those of     *)
(* projects are of at most seven days and tell the same tokens and costs;  *)
(* and a day without projects has no models, so that the shares by which   *)
(* projects would be guessed from models are never used.                   *)
SpendAgrees ==
    \A q \in Queries : \A range \in {<<>>} \cup {<<Today - 2, Today>>, <<Today - 1, Today - 1>>} :
        LET days     == SpendDays(range)
            daily    == Daily(q)
            models   == Rolling(daily, days)
            projects == Rolling(DailyProjects(ProjectDaily(q)), days)
            trend    == Trend(daily, days)
            Points(f) == MapThenSumSet(LAMBDA d : GrandTotal(trend[d])[f], days)
        IN  /\ Cardinality(days) \in 1..7
            /\ \A f \in {"prompt", "completion", "premiumCost", "cost"} :
                   /\ Points(f) = GrandTotal(models)[f]
                   /\ f # "cost" => Points(f) = GrandTotal(projects)[f]
            /\ DOMAIN projects = {} <=> DOMAIN models = {}

(* All of these sums agree (with no calls they are all nothing): *)
TotalsAgree == rows # {} => TablesAgree /\ WindowsAddUp /\ HoursFollowTheViewer

(* and so does what the command line, the dashboard and its daily spend    *)
(* say of costs.                                                           *)
CostsAgree == rows # {} => CostsAddUp /\ LegacyShowsProjects /\ SpendAgrees
=============================================================================
