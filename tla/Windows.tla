------------------------------ MODULE Windows ------------------------------
(***************************************************************************)
(* Date windows: the flags of the command line are turned into a window    *)
(* twice, by runLegacyCLI (go/legacy_cli.go) for its own report and by     *)
(* computeBounds (go/web_mode.go) for the dashboard, which must agree.     *)
(*                                                                         *)
(* Days are numbers; midnights, formats and labels are left out.  None is  *)
(* the zero value of a string, a pointer or a flag that was not given.     *)
(***************************************************************************)
EXTENDS Integers

CONSTANTS
    MaxDays,        \* bound on the numbers given as flags
    None

ASSUME WindowsAssumption == MaxDays \in Nat /\ None \notin Int

VARIABLES
    flags,          \* the date flags of one command line
    today

windowVars == <<flags, today>>

Numbers == 0..MaxDays

Flags == [all : BOOLEAN, today : BOOLEAN, yesterday : BOOLEAN,
          from : Numbers \cup {None}, to : Numbers \cup {None},
          period : ({"all", "today", "yesterday"} \X {0}) \cup ({"days"} \X (Numbers \ {0}))
                   \cup {None},
          days : Numbers \cup {None}]

WindowsInit == flags \in Flags /\ today = MaxDays + 1

(* The server lives on: computeBounds is called again on later days. *)
Midnight ==
    /\ today <= MaxDays + 1
    /\ today' = today + 1
    /\ UNCHANGED flags

WindowsSpec == WindowsInit /\ [][Midnight]_windowVars
-----------------------------------------------------------------------------
(* computeBounds *)

AllTime == [mode |-> "all"]
DaysSpec(n) == [mode |-> "days", days |-> n]
FromTo(fd, td) == [mode |-> "from-to", from |-> fd, to |-> td]

Cutoff(spec, day) ==
    CASE spec.mode = "today"     -> day
      [] spec.mode = "yesterday" -> day - 1
      [] spec.mode = "from-to"   -> day - spec.from
      [] spec.mode = "days"      -> day - ((IF spec.days <= 0 THEN 7 ELSE spec.days) - 1)

(* Mutant: the last day of a window is cut off. *)
CutoffEnd_Short(spec, day) ==
    CASE spec.mode = "yesterday" -> day
      [] spec.mode = "from-to" /\ spec.to > 0 -> day - spec.to
      [] OTHER -> None

CutoffEnd(spec, day) ==
    CASE spec.mode = "yesterday" -> day
      [] spec.mode = "from-to" /\ spec.to > 0 -> day - spec.to + 1
      [] OTHER -> None

Bounds(from, to, day) ==
    [from |-> from, to |-> to, first |-> from, last |-> IF to = None THEN day ELSE to - 1]

Unbounded == [from |-> None, to |-> None, first |-> None, last |-> None]

ComputeBounds(spec, day) ==
    IF spec.mode = "all" THEN Unbounded
    ELSE Bounds(Cutoff(spec, day), CutoffEnd(spec, day), day)
-----------------------------------------------------------------------------
(* runLegacyCLI *)

ParseExplicitPeriodValue(value) ==
    IF value[1] = "days" THEN DaysSpec(value[2]) ELSE [mode |-> value[1]]

(* Mutant: --to further back than --from is taken as it is. *)
Swapped_Not(f) == FromTo(f.from, IF f.to = None THEN 0 ELSE f.to)

Swapped(f) ==
    LET td == IF f.to = None THEN 0 ELSE f.to
    IN  IF f.from < td THEN FromTo(td, f.from) ELSE FromTo(f.from, td)

Days(f) == IF f.days = None THEN 7 ELSE f.days

(* The spec that web mode is given. *)
DateWindow(f) ==
    CASE f.all -> AllTime
      [] ~f.all /\ f.today -> [mode |-> "today"]
      [] ~f.all /\ ~f.today /\ f.yesterday -> [mode |-> "yesterday"]
      [] ~f.all /\ ~f.today /\ ~f.yesterday /\ f.from # None -> Swapped(f)
      [] OTHER -> IF f.period # None THEN ParseExplicitPeriodValue(f.period)
                  ELSE DaysSpec(Days(f))

(* Another flag comes before --period in the chain of branches. *)
Overridden(f) == f.period # None /\ (f.all \/ f.today \/ f.yesterday \/ f.from # None)

(* Its own cutoffs, computed branch by branch; they are put into the       *)
(* queries unless --period is given.                                       *)
LegacyBounds(f, day) ==
    CASE f.all \/ Overridden(f) -> Unbounded
      [] ~f.all /\ ~Overridden(f) /\ f.today -> Bounds(day, None, day)
      [] ~f.all /\ ~Overridden(f) /\ ~f.today /\ f.yesterday -> Bounds(day - 1, day, day)
      [] ~f.all /\ ~Overridden(f) /\ ~f.today /\ ~f.yesterday /\ f.from # None ->
             LET spec == Swapped(f)
             IN  Bounds(day - spec.from, IF spec.to > 0 THEN day - spec.to + 1 ELSE None, day)
      [] OTHER -> IF f.period # None
                  THEN ComputeBounds(ParseExplicitPeriodValue(f.period), day)
                  ELSE Bounds(day - (Days(f) - 1), None, day)
-----------------------------------------------------------------------------
(* Properties *)

(* The report of the command line and the dashboard opened with the same   *)
(* flags on the same day cover the same days, whatever combination of      *)
(* flags is given; except that 0 as a number of days leaves the report     *)
(* empty and gives the dashboard a week, and that --period with another    *)
(* flag gives the dashboard the other flag's days and the report all days. *)
WindowsAgree ==
    LET web == ComputeBounds(DateWindow(flags), today)
    IN  \/ web = LegacyBounds(flags, today)
        \/ DateWindow(flags) = DaysSpec(0)
        \/ Overridden(flags) /\ LegacyBounds(flags, today) = Unbounded

(* The window is the days that are announced for it: the query's half-open *)
(* interval ends where the day after the last one begins, is never empty,  *)
(* and moves with the clock: a record of today is in every window that is  *)
(* open-ended and in no other.                                             *)
WindowIsWhatItSays ==
    LET w == ComputeBounds(DateWindow(flags), today)
    IN  w # Unbounded =>
            /\ w.first <= w.last
            /\ \A day \in 0..today :
                   (w.from <= day /\ (w.to = None \/ day < w.to)) <=> day \in w.first..w.last
            /\ (w.last = today) <=> (w.to = None)
=============================================================================
