---------------------------- MODULE PartsProofs ----------------------------
(***************************************************************************)
(* Proofs about the smaller parts, each of which is a specification of its *)
(* own: the ledger, date windows, import and export, and the desktop app;  *)
(* for every value of their constants.                                     *)
(***************************************************************************)
EXTENDS Ledger, Windows, Transfer, Sidecar, SequenceTheorems, TLAPS

-----------------------------------------------------------------------------
(* Ledger: its marks are honest, for any logs and any window of the        *)
(* reports that only moves forward.                                        *)

LEMMA LedgerInvInit == Init => LedgerInv
<1> SUFFICES ASSUME Init PROVE LedgerInv
  OBVIOUS
<1>1. \A f \in Files : log[f] = <<>> /\ vouched[f] = 0
  BY DEF Init, NoMarks
<1>2. ASSUME NEW f \in Files PROVE DOMAIN log[f] = {}
  <2>1. DOMAIN <<>> = {}
    OBVIOUS
  <2>2. QED
    BY <1>1, <2>1
<1>3. log \in [Files -> Seq(Nat)]
  BY DEF Init
<1>4. QED
  BY <1>1, <1>2, <1>3 DEF Init, NoMarks, LedgerInv, Complete

(* What was complete up to a time that is past stays so: later records are *)
(* newer, and none becomes wanted that was not.                            *)
LEMMA CompleteStays ==
    ASSUME LedgerInv, WindowMovesForward, Write, NEW f \in Files
    PROVE  /\ \A i \in DOMAIN log'[f] : log'[f][i] \in Nat /\ log'[f][i] <= now'
           /\ Complete(f, stored[f], vouched[f])'
           /\ log'[f] \in Seq(Nat)
<1>1. /\ now \in Nat /\ now' \in Nat /\ now < now' /\ vouched' = vouched
      /\ log[f] \in Seq(Nat) /\ vouched[f] \in Nat /\ vouched[f] <= now
      /\ \A i \in DOMAIN log[f] : log[f][i] \in Nat /\ log[f][i] <= now
  BY DEF LedgerInv, Write
<1>2. stored[f] \subseteq stored'[f]
  <2>1. CASE stored' = stored
    BY <2>1
  <2>2. ASSUME NEW g \in Files, stored' = [stored EXCEPT ![g] = @ \cup {Len(log[g]) + 1}]
        PROVE  stored[f] \subseteq stored'[f]
    BY <2>2 DEF LedgerInv
  <2>3. QED
    BY <2>1, <2>2 DEF Write
<1>3. log'[f] = log[f] \/ log'[f] = Append(log[f], now')
  <2>1. CASE log' = log
    BY <2>1
  <2>2. ASSUME NEW g \in Files, log' = [log EXCEPT ![g] = Append(@, now')]
        PROVE  log'[f] = log[f] \/ log'[f] = Append(log[f], now')
    BY <2>2 DEF LedgerInv
  <2>3. QED
    BY <2>1, <2>2 DEF Write
<1>4. \A i \in DOMAIN log'[f] : \/ i \in DOMAIN log[f] /\ log'[f][i] = log[f][i]
                                \/ log'[f][i] = now'
  <2>1. CASE log'[f] = log[f]
    BY <2>1
  <2>2. CASE log'[f] = Append(log[f], now')
    <3>1. /\ Len(log'[f]) = Len(log[f]) + 1 /\ Len(log[f]) \in Nat
          /\ DOMAIN log'[f] = 1..Len(log'[f]) /\ DOMAIN log[f] = 1..Len(log[f])
          /\ log'[f][Len(log[f]) + 1] = now'
          /\ \A i \in 1..Len(log[f]) : log'[f][i] = log[f][i]
      BY <1>1, <2>2
    <3>2. QED
      BY <3>1
  <2>3. QED
    BY <1>3, <2>1, <2>2
<1>5. ASSUME NEW i \in DOMAIN log'[f], log'[f][i] <= vouched[f], Wanted(now', log'[f][i])
      PROVE  i \in stored'[f]
  <2>1. i \in DOMAIN log[f] /\ log'[f][i] = log[f][i]
    BY <1>1, <1>4, <1>5
  <2>2. Wanted(now, log[f][i])
    BY <1>1, <1>5, <2>1 DEF WindowMovesForward
  <2>3. QED
    BY <1>2, <1>5, <2>1, <2>2 DEF LedgerInv, Complete
<1>6. Complete(f, stored[f], vouched[f])'
  BY <1>1, <1>5 DEF Complete
<1>7. log'[f] \in Seq(Nat)
  <2>1. CASE log'[f] = log[f]
    BY <1>1, <2>1
  <2>2. CASE log'[f] = Append(log[f], now')
    BY <1>1, <2>2
  <2>3. QED
    BY <1>3, <2>1, <2>2
<1>8. \A i \in DOMAIN log'[f] : log'[f][i] \in Nat /\ log'[f][i] <= now'
  BY <1>1, <1>4
<1>9. QED
  BY <1>6, <1>7, <1>8

LEMMA LedgerInvStep ==
    ASSUME WindowMovesForward, LedgerInv, [Next]_vars
    PROVE  LedgerInv'
<1>1. CASE Write
  <2>1. log' \in [Files -> Seq(Nat)]
    <3>1. log' = log \/ \E f \in Files : log' = [log EXCEPT ![f] = Append(@, now')]
      BY <1>1 DEF Write
    <3>2. \A f \in Files : log'[f] \in Seq(Nat)
      BY <1>1, CompleteStays
    <3>3. QED
      BY <3>1, <3>2 DEF LedgerInv
  <2>2. now' \in Nat /\ now < now' /\ now \in Nat /\ vouched' = vouched
    BY <1>1 DEF Write, LedgerInv
  <2>3. \A f \in Files : vouched'[f] <= now'
    BY <2>2 DEF LedgerInv
  <2>4. stored' \in [Files -> SUBSET Nat]
    <3>1. \A f \in Files : log[f] \in Seq(Nat)
      BY DEF LedgerInv
    <3>2. \A f \in Files : Len(log[f]) + 1 \in Nat
      BY <3>1
    <3>3. ASSUME NEW f \in Files, stored' = [stored EXCEPT ![f] = @ \cup {Len(log[f]) + 1}]
          PROVE  stored' \in [Files -> SUBSET Nat]
      <4>1. stored[f] \cup {Len(log[f]) + 1} \in SUBSET Nat
        BY <3>2 DEF LedgerInv
      <4>2. QED
        BY <3>3, <4>1 DEF LedgerInv
    <3>4. stored' = stored => stored' \in [Files -> SUBSET Nat]
      BY DEF LedgerInv
    <3>5. QED
      BY <1>1, <3>3, <3>4 DEF Write
  <2>5. QED
    BY <1>1, <2>1, <2>2, <2>3, <2>4, CompleteStays DEF LedgerInv
<1>2. CASE Deliver
  <2>1. now' = now /\ log' = log
    BY <1>2 DEF Deliver
  <2>2. ASSUME NEW f \in Files
        PROVE  vouched'[f] <= now /\ Complete(f, stored'[f], vouched'[f])
    <3>1. CASE vouched'[f] = vouched[f]
      BY <1>2, <3>1 DEF Deliver, LedgerInv, Complete
    <3>2. CASE Complete(f, stored'[f], vouched'[f])
      BY <1>2, <3>2 DEF Deliver, LedgerInv
    <3>3. QED
      BY <1>2, <3>1, <3>2 DEF Deliver
  <2>3. vouched' \in [Files -> Nat]
    BY <1>2 DEF Deliver, LedgerInv
  <2>4. QED
    BY <1>2, <2>1, <2>2, <2>3 DEF Deliver, LedgerInv, Complete
<1>3. CASE Forget
  BY <1>3 DEF Forget, NoMarks, LedgerInv, Complete
<1>4. CASE UNCHANGED vars
  BY <1>4 DEF vars, LedgerInv, Complete
<1>5. QED
  BY <1>1, <1>2, <1>3, <1>4 DEF Next

(* Whoever implements the ledger has honest marks: a log it vouches for    *)
(* has all its reported calls in it, however many were written since.      *)
THEOREM LedgerIsHonest == ASSUME WindowMovesForward PROVE Spec => []Honest
<1>1. LedgerInv => Honest
  BY DEF LedgerInv, Honest
<1>2. QED
  BY <1>1, LedgerInvInit, LedgerInvStep, PTL DEF Spec
-----------------------------------------------------------------------------
(* Date windows *)

WindowsTypeOK == flags \in Flags /\ today \in MaxDays + 1 .. MaxDays + 2

(* What is said of one command line on one day. *)
AgreeOn(f, day) ==
    \/ ComputeBounds(DateWindow(f), day) = LegacyBounds(f, day)
    \/ DateWindow(f) = DaysSpec(0)
    \/ Overridden(f) /\ LegacyBounds(f, day) = Unbounded

LEMMA WindowsAreTyped == WindowsSpec => []WindowsTypeOK
<1> USE WindowsAssumption DEF WindowsTypeOK
<1>1. WindowsInit => WindowsTypeOK
  BY DEF WindowsInit
<1>2. WindowsTypeOK /\ [Midnight]_windowVars => WindowsTypeOK'
  BY DEF Midnight, windowVars
<1> QED
  BY <1>1, <1>2, PTL DEF WindowsSpec

(* The numbers of a command line are what they look like. *)
LEMMA FlagTypes ==
    ASSUME NEW f \in Flags
    PROVE  /\ f.all \in BOOLEAN /\ f.today \in BOOLEAN /\ f.yesterday \in BOOLEAN
           /\ f.from # None => f.from \in 0..MaxDays
           /\ f.to # None => f.to \in 0..MaxDays
           /\ f.days # None => f.days \in 0..MaxDays
           /\ f.period # None =>
                 \/ f.period[1] \in {"all", "today", "yesterday"} /\ f.period[2] = 0
                 \/ f.period[1] = "days" /\ f.period[2] \in 1..MaxDays
BY WindowsAssumption DEF Flags, Numbers

(* --from and --to, in whatever order, are a span of days. *)
LEMMA SwappedIsOrdered ==
    ASSUME NEW f \in Flags, f.from # None
    PROVE  /\ Swapped(f).mode = "from-to"
           /\ Swapped(f).from \in 0..MaxDays /\ Swapped(f).to \in 0..MaxDays
           /\ Swapped(f).to <= Swapped(f).from
BY FlagTypes, WindowsAssumption DEF Swapped, FromTo

LEMMA DaysType ==
    ASSUME NEW f \in Flags
    PROVE  Days(f) \in Nat
BY FlagTypes, WindowsAssumption DEF Days

(* Case by case, in the order of the branches of runLegacyCLI. *)
LEMMA FlagsAgree ==
    ASSUME NEW f \in Flags, NEW day \in Nat
    PROVE  AgreeOn(f, day)
<1> USE DEF AgreeOn
<1>1. f.all \in BOOLEAN /\ f.today \in BOOLEAN /\ f.yesterday \in BOOLEAN
  BY FlagTypes
<1>2. CASE f.all
  <2>1. DateWindow(f) = AllTime
    BY <1>2 DEF DateWindow
  <2>2. ComputeBounds(DateWindow(f), day) = Unbounded
    BY <2>1 DEF ComputeBounds, AllTime
  <2>3. LegacyBounds(f, day) = Unbounded
    BY <1>2 DEF LegacyBounds
  <2> QED
    BY <2>2, <2>3
<1>3. CASE ~f.all /\ Overridden(f)
  <2>1. LegacyBounds(f, day) = Unbounded
    BY <1>3 DEF LegacyBounds
  <2> QED
    BY <1>3, <2>1
<1>4. CASE ~f.all /\ ~Overridden(f) /\ f.today
  <2>1. DateWindow(f) = [mode |-> "today"]
    BY <1>4 DEF DateWindow
  <2>2. ComputeBounds(DateWindow(f), day) = Bounds(day, None, day)
    BY <2>1 DEF ComputeBounds, Cutoff, CutoffEnd
  <2>3. LegacyBounds(f, day) = Bounds(day, None, day)
    BY <1>4 DEF LegacyBounds
  <2> QED
    BY <2>2, <2>3
<1>5. CASE ~f.all /\ ~Overridden(f) /\ ~f.today /\ f.yesterday
  <2>1. DateWindow(f) = [mode |-> "yesterday"]
    BY <1>5 DEF DateWindow
  <2>2. ComputeBounds(DateWindow(f), day) = Bounds(day - 1, day, day)
    BY <2>1 DEF ComputeBounds, Cutoff, CutoffEnd
  <2>3. LegacyBounds(f, day) = Bounds(day - 1, day, day)
    BY <1>5 DEF LegacyBounds
  <2> QED
    BY <2>2, <2>3
<1>6. CASE ~f.all /\ ~Overridden(f) /\ ~f.today /\ ~f.yesterday /\ f.from # None
  <2>1. DateWindow(f) = Swapped(f)
    BY <1>6 DEF DateWindow
  <2> DEFINE s == Swapped(f)
  <2>2. s.mode = "from-to" /\ s.from \in 0..MaxDays /\ s.to \in 0..MaxDays
    BY <1>6, SwappedIsOrdered
  <2>3. ComputeBounds(s, day)
            = Bounds(day - s.from, IF s.to > 0 THEN day - s.to + 1 ELSE None, day)
    BY <2>2 DEF ComputeBounds, Cutoff, CutoffEnd
  <2>4. LegacyBounds(f, day)
            = Bounds(day - s.from, IF s.to > 0 THEN day - s.to + 1 ELSE None, day)
    BY <1>6 DEF LegacyBounds
  <2> QED
    BY <2>1, <2>3, <2>4
<1>7. CASE ~f.all /\ ~Overridden(f) /\ ~f.today /\ ~f.yesterday /\ f.from = None /\ f.period # None
  <2>1. DateWindow(f) = ParseExplicitPeriodValue(f.period)
    BY <1>7 DEF DateWindow
  <2>2. LegacyBounds(f, day) = ComputeBounds(ParseExplicitPeriodValue(f.period), day)
    BY <1>7 DEF LegacyBounds
  <2> QED
    BY <2>1, <2>2
<1>8. CASE ~f.all /\ ~Overridden(f) /\ ~f.today /\ ~f.yesterday /\ f.from = None /\ f.period = None
  <2>1. DateWindow(f) = DaysSpec(Days(f)) /\ Days(f) \in Nat
    BY <1>8, DaysType DEF DateWindow
  <2>2. CASE Days(f) = 0
    BY <2>1, <2>2
  <2>3. CASE Days(f) # 0
    <3>1. ComputeBounds(DateWindow(f), day) = Bounds(day - (Days(f) - 1), None, day)
      BY <2>1, <2>3 DEF ComputeBounds, Cutoff, CutoffEnd, DaysSpec
    <3>2. LegacyBounds(f, day) = Bounds(day - (Days(f) - 1), None, day)
      BY <1>8 DEF LegacyBounds
    <3> QED
      BY <3>1, <3>2
  <2> QED
    BY <2>2, <2>3
<1> QED
  BY <1>1, <1>2, <1>3, <1>4, <1>5, <1>6, <1>7, <1>8

(* WindowsAgree: the report of the command line and the dashboard opened   *)
(* with the same flags cover the same days.                                *)
THEOREM FlagsMeanTheSame == WindowsSpec => []WindowsAgree
<1>1. WindowsTypeOK => WindowsAgree
  <2> SUFFICES ASSUME WindowsTypeOK PROVE WindowsAgree
    OBVIOUS
  <2>1. flags \in Flags /\ today \in Nat
    BY WindowsAssumption DEF WindowsTypeOK
  <2>2. AgreeOn(flags, today)
    BY <2>1, FlagsAgree
  <2> QED
    BY <2>2 DEF AgreeOn, WindowsAgree
<1> QED
  BY <1>1, WindowsAreTyped, PTL

(* The window of a spec of every kind. *)
LEMMA WindowOfSpec ==
    ASSUME NEW day \in Nat, NEW spec,
           \/ spec.mode \in {"all", "today", "yesterday"}
           \/ spec.mode = "days" /\ spec.days \in Nat
           \/ /\ spec.mode = "from-to" /\ spec.from \in Nat /\ spec.to \in Nat
              /\ spec.to <= spec.from
    PROVE  LET w == ComputeBounds(spec, day)
           IN  \/ w = Unbounded
               \/ /\ w.first \in Int /\ w.last \in Int /\ w.first <= w.last
                  /\ w.from = w.first
                  /\ \/ w.to = None /\ w.last = day
                     \/ w.to \in Int /\ w.last = w.to - 1 /\ w.last < day
<1> DEFINE w == ComputeBounds(spec, day)
<1>1. CASE spec.mode = "all"
  BY <1>1 DEF ComputeBounds
<1>2. CASE spec.mode = "today"
  BY <1>2 DEF ComputeBounds, Bounds, Cutoff, CutoffEnd
<1>3. CASE spec.mode = "yesterday"
  BY <1>3, WindowsAssumption DEF ComputeBounds, Bounds, Cutoff, CutoffEnd
<1>4. CASE spec.mode = "days" /\ spec.days \in Nat
  BY <1>4 DEF ComputeBounds, Bounds, Cutoff, CutoffEnd
<1>5. CASE /\ spec.mode = "from-to" /\ spec.from \in Nat /\ spec.to \in Nat
           /\ spec.to <= spec.from
  BY <1>5, WindowsAssumption DEF ComputeBounds, Bounds, Cutoff, CutoffEnd
<1> QED
  BY <1>1, <1>2, <1>3, <1>4, <1>5

(* What a command line is turned into is one of these. *)
LEMMA DateWindowType ==
    ASSUME NEW f \in Flags
    PROVE  LET spec == DateWindow(f)
           IN  \/ spec.mode \in {"all", "today", "yesterday"}
               \/ spec.mode = "days" /\ spec.days \in Nat
               \/ /\ spec.mode = "from-to" /\ spec.from \in Nat /\ spec.to \in Nat
                  /\ spec.to <= spec.from
<1>1. f.all \in BOOLEAN /\ f.today \in BOOLEAN /\ f.yesterday \in BOOLEAN
  BY FlagTypes
<1>2. CASE f.all \/ f.today \/ f.yesterday
  BY <1>1, <1>2 DEF DateWindow, AllTime
<1>3. CASE ~f.all /\ ~f.today /\ ~f.yesterday /\ f.from # None
  BY <1>3, SwappedIsOrdered, WindowsAssumption DEF DateWindow
<1>4. CASE ~f.all /\ ~f.today /\ ~f.yesterday /\ f.from = None /\ f.period # None
  <2>1. DateWindow(f) = ParseExplicitPeriodValue(f.period)
    BY <1>4 DEF DateWindow
  <2> QED
    BY <1>4, <2>1, FlagTypes, WindowsAssumption DEF ParseExplicitPeriodValue, DaysSpec
<1>5. CASE ~f.all /\ ~f.today /\ ~f.yesterday /\ f.from = None /\ f.period = None
  BY <1>5, DaysType DEF DateWindow, DaysSpec
<1> QED
  BY <1>1, <1>2, <1>3, <1>4, <1>5

(* WindowIsWhatItSays: the half-open interval of the query is the days     *)
(* that are announced, and today is one of them if and only if it is open. *)
THEOREM WindowsMeanTheirDays == WindowsSpec => []WindowIsWhatItSays
<1>1. WindowsTypeOK => WindowIsWhatItSays
  <2> SUFFICES ASSUME WindowsTypeOK PROVE WindowIsWhatItSays
    OBVIOUS
  <2> DEFINE w == ComputeBounds(DateWindow(flags), today)
  <2>1. flags \in Flags /\ today \in Nat
    BY WindowsAssumption DEF WindowsTypeOK
  <2>2. \/ w = Unbounded
        \/ /\ w.first \in Int /\ w.last \in Int /\ w.first <= w.last
           /\ w.from = w.first
           /\ \/ w.to = None /\ w.last = today
              \/ w.to \in Int /\ w.last = w.to - 1 /\ w.last < today
    BY <2>1, DateWindowType, WindowOfSpec
  <2> HIDE DEF w
  <2>3. ASSUME w # Unbounded
        PROVE  /\ w.first <= w.last
               /\ \A day \in 0..today :
                     (w.from <= day /\ (w.to = None \/ day < w.to)) <=> day \in w.first..w.last
               /\ (w.last = today) <=> (w.to = None)
    BY <2>1, <2>2, <2>3, WindowsAssumption
  <2> QED
    BY <2>3 DEF w, WindowIsWhatItSays
<1> QED
  BY <1>1, WindowsAreTyped, PTL

-----------------------------------------------------------------------------
(* Import and export *)

DatabaseType ==
    [calls : SUBSET (TransferLogs \X Nat),
     marks : [TransferLogs -> Nat], hollow : SUBSET TransferLogs]

(* What MarksVouchForCalls says of one database. *)
Vouches(d) ==
    \A f \in TransferLogs \ d.hollow : CallsOf(f, since[f], d.marks[f]) \subseteq d.calls

TransferTypeOK ==
    /\ length \in [TransferLogs -> Nat]
    /\ since \in [TransferLogs -> Nat \ {0}]
    /\ db \in [Machines -> DatabaseType]
    /\ copy \in DatabaseType
    /\ exported \in SUBSET (TransferLogs \X Nat)
    /\ importing \in [Machines -> 0..2]
    /\ missed \in [Machines -> BOOLEAN]

(* Copies vouch like the databases they are of, and an import that is past *)
(* the calls and did not miss them has those that the copy's marks stand   *)
(* for.                                                                    *)
TransferInv ==
    /\ TransferTypeOK
    /\ \A m \in Machines : Vouches(db[m])
    /\ Vouches(copy)
    /\ \A m \in Machines :
          importing[m] = 2 /\ ~missed[m] => copy.calls \subseteq db[m].calls

LEMMA DatabaseFields ==
    ASSUME NEW d \in DatabaseType
    PROVE  /\ d = [calls |-> d.calls, marks |-> d.marks, hollow |-> d.hollow]
           /\ d.calls \in SUBSET (TransferLogs \X Nat)
           /\ d.marks \in [TransferLogs -> Nat] /\ d.hollow \in SUBSET TransferLogs
BY DEF DatabaseType

LEMMA LogsOfAMachine ==
    ASSUME NEW m \in Machines
    PROVE  LogsOf[m] \subseteq TransferLogs
BY DEF TransferLogs

LEMMA CallsType ==
    ASSUME NEW f \in TransferLogs, NEW first \in Nat, NEW last \in Nat
    PROVE  CallsOf(f, first, last) \in SUBSET (TransferLogs \X Nat)
BY DEF CallsOf

LEMMA NothingIsMarked ==
    /\ NoCalls \in DatabaseType
    /\ NoCalls.calls = {} /\ NoCalls.hollow = {}
    /\ NoCalls.marks = [f \in TransferLogs |-> 0]
BY DEF NoCalls, DatabaseType

LEMMA NoCallsUpToZero ==
    ASSUME NEW f \in TransferLogs, NEW n \in Nat \ {0}
    PROVE  CallsOf(f, n, 0) = {}
<1>1. n..0 = {}
  OBVIOUS
<1> QED
  BY <1>1 DEF CallsOf

LEMMA AddedCalls ==
    ASSUME NEW d \in DatabaseType, NEW calls \in SUBSET (TransferLogs \X Nat)
    PROVE  /\ AddCalls(d, calls) \in DatabaseType
           /\ AddCalls(d, calls).calls = d.calls \cup calls
           /\ AddCalls(d, calls).marks = d.marks /\ AddCalls(d, calls).hollow = d.hollow
BY DEF AddCalls, DatabaseType

LEMMA MoreCallsVouch ==
    ASSUME NEW d, NEW e, Vouches(d),
           d.calls \subseteq e.calls, e.marks = d.marks, e.hollow = d.hollow
    PROVE  Vouches(e)
BY DEF Vouches

(* Marks that replace others come after the calls they stand for, or leave *)
(* the log hollow.                                                         *)
LEMMA ImportedMarksVouch ==
    ASSUME NEW d \in DatabaseType, NEW other \in DatabaseType, NEW noCalls \in BOOLEAN,
           Vouches(d), Vouches(other), ~noCalls => other.calls \subseteq d.calls
    PROVE  /\ AddMarks(d, other, noCalls) \in DatabaseType
           /\ AddMarks(d, other, noCalls).calls = d.calls
           /\ Vouches(AddMarks(d, other, noCalls))
<1> DEFINE brought == {f \in TransferLogs : other.marks[f] # 0}
           marks   == [f \in TransferLogs |->
                          IF f \in brought THEN other.marks[f] ELSE d.marks[f]]
           hollow  == (d.hollow \ brought) \cup {f \in brought : noCalls \/ f \in other.hollow}
           d1      == [d EXCEPT !.marks = marks]
           e       == AddMarks(d, other, noCalls)
<1>1. marks \in [TransferLogs -> Nat] /\ hollow \in SUBSET TransferLogs
  BY DatabaseFields
<1>2. e = [d1 EXCEPT !.hollow = hollow]
  <2>1. d1.hollow = d.hollow
    BY DEF DatabaseType
  <2> QED
    BY <2>1 DEF AddMarks
<1>3. d1 \in DatabaseType /\ d1.calls = d.calls /\ d1.marks = marks
  <2> HIDE DEF marks
  <2> QED
    BY <1>1 DEF DatabaseType
<1>4. e \in DatabaseType /\ e.calls = d.calls /\ e.marks = marks /\ e.hollow = hollow
  <2> HIDE DEF marks, hollow, d1, e
  <2> QED
    BY <1>1, <1>2, <1>3 DEF DatabaseType
<1>5. ASSUME NEW f \in TransferLogs \ hollow
      PROVE  CallsOf(f, since[f], marks[f]) \subseteq d.calls
  <2>1. CASE f \in brought
    <3>1. ~noCalls /\ f \notin other.hollow /\ marks[f] = other.marks[f]
      BY <2>1
    <3>2. CallsOf(f, since[f], other.marks[f]) \subseteq other.calls
      BY <3>1 DEF Vouches
    <3> QED
      BY <3>1, <3>2
  <2>2. CASE f \notin brought
    <3>1. f \notin d.hollow /\ marks[f] = d.marks[f]
      BY <2>2
    <3> QED
      BY <3>1 DEF Vouches
  <2> QED
    BY <2>1, <2>2
<1> HIDE DEF marks, hollow, e
<1>6. Vouches(e)
  BY <1>4, <1>5 DEF Vouches
<1> QED
  BY <1>4, <1>6 DEF e

(* A sync stores of each log that it marks the calls in its window, which  *)
(* begins no later than the narrowest.                                     *)
LEMMA SyncKeepsVouching ==
    ASSUME NEW d \in DatabaseType, NEW known \in DatabaseType, NEW read \in SUBSET TransferLogs,
           NEW from, \A f \in read : from[f] \in Nat /\ from[f] <= since[f],
           length \in [TransferLogs -> Nat], since \in [TransferLogs -> Nat],
           \A f \in TransferLogs \ known.hollow :
               CallsOf(f, since[f], known.marks[f]) \subseteq d.calls,
           NEW e \in DatabaseType,
           d.calls \subseteq e.calls, e.hollow = known.hollow \ read,
           \A f \in read : CallsOf(f, from[f], length[f]) \subseteq e.calls,
           \A f \in read : e.marks[f] = length[f],
           \A f \in TransferLogs \ read : e.marks[f] = known.marks[f]
    PROVE  Vouches(e)
<1>1. ASSUME NEW f \in TransferLogs, f \notin known.hollow \ read
      PROVE  CallsOf(f, since[f], e.marks[f]) \subseteq e.calls
  <2>1. CASE f \in read
    <3>1. /\ e.marks[f] = length[f] /\ length[f] \in Nat /\ since[f] \in Nat
          /\ from[f] \in Nat /\ from[f] <= since[f]
      BY <2>1
    <3>2. since[f]..length[f] \subseteq from[f]..length[f]
      BY <3>1
    <3>3. CallsOf(f, since[f], length[f]) \subseteq CallsOf(f, from[f], length[f])
      BY <3>2 DEF CallsOf
    <3> QED
      BY <2>1, <3>1, <3>3
  <2>2. CASE f \notin read
    <3>1. f \in TransferLogs \ known.hollow /\ e.marks[f] = known.marks[f]
      BY <1>1, <2>2
    <3>2. CallsOf(f, since[f], known.marks[f]) \subseteq d.calls
      BY <3>1
    <3> QED
      BY <3>1, <3>2
  <2> QED
    BY <2>1, <2>2
<1> QED
  BY <1>1 DEF Vouches

(* The steps that write one database: its calls only grow. *)
LEMMA OneDatabaseChanges ==
    ASSUME TransferInv, NEW m \in Machines, NEW d \in DatabaseType,
           db' = [db EXCEPT ![m] = d], UNCHANGED <<length, since, copy, exported>>,
           Vouches(d), db[m].calls \subseteq d.calls,
           importing' \in [Machines -> 0..2], missed' \in [Machines -> BOOLEAN],
           \A n \in Machines \ {m} : importing'[n] = importing[n] /\ missed'[n] = missed[n],
           importing'[m] = 2 /\ ~missed'[m] => copy.calls \subseteq d.calls
    PROVE  TransferInv'
<1>1. TransferTypeOK'
  BY DEF TransferInv, TransferTypeOK
<1>2. ASSUME NEW n \in Machines
      PROVE  /\ Vouches(db[n])'
             /\ (importing[n] = 2 /\ ~missed[n] => copy.calls \subseteq db[n].calls)'
  <2>1. db \in [Machines -> DatabaseType]
    BY DEF TransferInv, TransferTypeOK
  <2>2. CASE n = m
    <3>1. db'[n] = d
      BY <2>1, <2>2
    <3> QED
      BY <2>2, <3>1 DEF Vouches
  <2>3. CASE n # m
    <3>1. db'[n] = db[n]
      BY <2>1, <2>3
    <3> QED
      BY <2>3, <3>1 DEF Vouches, TransferInv
  <2> QED
    BY <2>2, <2>3
<1>3. Vouches(copy)'
  BY DEF TransferInv, Vouches
<1> QED
  BY <1>1, <1>2, <1>3 DEF TransferInv

LEMMA AfterAStatement ==
    ASSUME TransferInv, NEW m \in Machines, importing[m] # 0
    PROVE  LET after == [importing EXCEPT ![m] = (@ + 1) % (Len(Statements) + 1)]
           IN  /\ importing[m] \in {1, 2}
               /\ after \in [Machines -> 0..2]
               /\ after[m] = IF importing[m] = 2 THEN 0 ELSE importing[m] + 1
               /\ \A n \in Machines \ {m} : after[n] = importing[n]
<1>1. importing \in [Machines -> 0..2]
  BY DEF TransferInv, TransferTypeOK
<1>2. Len(Statements) = 2
  BY DEF Statements
<1>3. importing[m] \in {1, 2}
  BY <1>1
<1>4. (importing[m] + 1) % 3 = IF importing[m] = 2 THEN 0 ELSE importing[m] + 1
  BY <1>3
<1> QED
  BY <1>1, <1>2, <1>3, <1>4

LEMMA TransferInvInductive ==
    ASSUME TransferInv, [TransferNext]_transferVars
    PROVE  TransferInv'
<1> USE DEF TransferInv
<1>types. TransferTypeOK
  OBVIOUS
<1>1. ASSUME NEW f \in TransferLogs, LogCall(f)
      PROVE  TransferInv'
  BY <1>1 DEF LogCall, TransferTypeOK, Vouches
<1>2. ASSUME NEW f \in TransferLogs, WindowMoves(f)
      PROVE  TransferInv'
  <2>1. /\ since' = [since EXCEPT ![f] = @ + 1]
        /\ UNCHANGED <<length, db, copy, exported, importing, missed>>
    BY <1>2 DEF WindowMoves
  <2>2. TransferTypeOK'
    BY <2>1 DEF TransferTypeOK
  <2>3. ASSUME NEW d \in DatabaseType, Vouches(d)
        PROVE  Vouches(d)'
    <3>1. ASSUME NEW g \in TransferLogs \ d.hollow
          PROVE  CallsOf(g, since'[g], d.marks[g]) \subseteq d.calls
      <4>1. since[g] \in Nat /\ since'[g] \in Nat /\ since[g] <= since'[g] /\ d.marks[g] \in Nat
        BY <2>1, DatabaseFields DEF TransferTypeOK
      <4>2. since'[g]..d.marks[g] \subseteq since[g]..d.marks[g]
        BY <4>1
      <4>3. CallsOf(g, since'[g], d.marks[g]) \subseteq CallsOf(g, since[g], d.marks[g])
        BY <4>2 DEF CallsOf
      <4>4. CallsOf(g, since[g], d.marks[g]) \subseteq d.calls
        BY <2>3 DEF Vouches
      <4> QED
        BY <4>3, <4>4
    <3> QED
      BY <3>1 DEF Vouches
  <2>4. copy \in DatabaseType /\ \A n \in Machines : db[n] \in DatabaseType
    BY DEF TransferTypeOK
  <2>5. Vouches(copy)'
    BY <2>1, <2>3, <2>4 DEF Vouches
  <2>6. ASSUME NEW n \in Machines PROVE Vouches(db[n])'
    BY <2>1, <2>3, <2>4 DEF Vouches
  <2> QED
    BY <2>1, <2>2, <2>5, <2>6
<1>3. ASSUME NEW m \in Machines, NEW force \in BOOLEAN, SyncMachine(m, force)
      PROVE  TransferInv'
  <2>1. PICK from \in [LogsOf[m] -> 1..MaxCallsOfLog + 1] :
            LET read  == LogsToRead(m, force, from)
                known == IF force THEN NoCalls ELSE db[m]
            IN  /\ \A f \in LogsOf[m] : from[f] <= since[f]
                /\ db' = [db EXCEPT ![m] =
                       [calls  |-> @.calls \cup UNION {CallsOf(f, from[f], length[f]) : f \in read},
                        marks  |-> [f \in TransferLogs |->
                                       IF f \in read THEN length[f] ELSE known.marks[f]],
                        hollow |-> known.hollow \ read]]
                /\ UNCHANGED <<length, since, copy, exported, importing, missed>>
    BY <1>3 DEF SyncMachine
  <2> DEFINE read   == LogsToRead(m, force, from)
             known  == IF force THEN NoCalls ELSE db[m]
             calls  == db[m].calls \cup UNION {CallsOf(f, from[f], length[f]) : f \in read}
             marks  == [f \in TransferLogs |-> IF f \in read THEN length[f] ELSE known.marks[f]]
             hollow == known.hollow \ read
             e      == [calls |-> calls, marks |-> marks, hollow |-> hollow]
  <2>2. /\ db' = [db EXCEPT ![m] = e] /\ \A f \in LogsOf[m] : from[f] <= since[f]
        /\ UNCHANGED <<length, since, copy, exported, importing, missed>>
    BY <2>1
  <2>3. read \in SUBSET TransferLogs /\ read \subseteq LogsOf[m]
    BY LogsOfAMachine DEF LogsToRead
  <2> HIDE DEF read
  <2>4. \A f \in read : from[f] \in Nat /\ from[f] <= since[f]
    BY <2>2, <2>3, TransferAssumption
  <2>5. /\ db[m] \in DatabaseType /\ Vouches(db[m])
        /\ length \in [TransferLogs -> Nat] /\ since \in [TransferLogs -> Nat \ {0}]
        /\ importing \in [Machines -> 0..2] /\ missed \in [Machines -> BOOLEAN]
    BY DEF TransferTypeOK
  <2>6. known \in DatabaseType
    BY <2>5, NothingIsMarked
  <2>7. \A f \in TransferLogs \ known.hollow :
            CallsOf(f, since[f], known.marks[f]) \subseteq db[m].calls
    <3>1. CASE force
      <4>1. \A f \in TransferLogs : CallsOf(f, since[f], 0) = {}
        BY <2>5, NoCallsUpToZero
      <4> QED
        BY <3>1, <4>1, NothingIsMarked
    <3>2. CASE ~force
      BY <2>5, <3>2 DEF Vouches
    <3> QED
      BY <3>1, <3>2
  <2> HIDE DEF known
  <2>8. e \in DatabaseType
    <3>1. \A f \in read : CallsOf(f, from[f], length[f]) \in SUBSET (TransferLogs \X Nat)
      BY <2>3, <2>4, <2>5, CallsType
    <3>2. calls \in SUBSET (TransferLogs \X Nat)
      BY <2>3, <2>5, <3>1, DatabaseFields
    <3>3. marks \in [TransferLogs -> Nat] /\ hollow \in SUBSET TransferLogs
      BY <2>5, <2>6, DatabaseFields
    <3> HIDE DEF calls, marks, hollow
    <3> QED
      BY <3>2, <3>3 DEF DatabaseType
  <2>9. /\ e.calls = calls /\ e.marks = marks /\ e.hollow = hollow
        /\ db[m].calls \subseteq calls
        /\ \A f \in read : CallsOf(f, from[f], length[f]) \subseteq calls
        /\ \A f \in read : marks[f] = length[f]
        /\ \A f \in TransferLogs \ read : marks[f] = known.marks[f]
    BY <2>3
  <2> HIDE DEF calls, marks, e
  <2>10. Vouches(e)
    <3> DEFINE d == db[m]
    <3>1. /\ d \in DatabaseType /\ since \in [TransferLogs -> Nat]
          /\ \A f \in TransferLogs \ known.hollow :
                 CallsOf(f, since[f], known.marks[f]) \subseteq d.calls
          /\ d.calls \subseteq e.calls /\ e.hollow = known.hollow \ read
          /\ \A f \in read : CallsOf(f, from[f], length[f]) \subseteq e.calls
          /\ \A f \in read : e.marks[f] = length[f]
          /\ \A f \in TransferLogs \ read : e.marks[f] = known.marks[f]
      BY <2>5, <2>7, <2>9
    <3> HIDE DEF d
    <3> QED
      BY <2>3, <2>4, <2>5, <2>6, <2>8, <3>1, SyncKeepsVouching
  <2>11. importing[m] = 2 /\ ~missed[m] => copy.calls \subseteq e.calls
    BY <2>9
  <2> QED
    BY <2>2, <2>5, <2>8, <2>9, <2>10, <2>11, OneDatabaseChanges
<1>4. ASSUME NEW m \in Machines, CopyDatabase(m)
      PROVE  TransferInv'
  <2>1. /\ copy' = db[m] /\ \A n \in Machines : importing[n] = 0
        /\ UNCHANGED <<length, since, db, exported, importing, missed>>
    BY <1>4 DEF CopyDatabase
  <2>2. TransferTypeOK'
    BY <2>1 DEF TransferTypeOK
  <2>3. Vouches(copy)' /\ \A n \in Machines : Vouches(db[n])'
    BY <2>1 DEF Vouches
  <2> QED
    BY <2>1, <2>2, <2>3
<1>5. ASSUME NEW m \in Machines, ExportJSONL(m)
      PROVE  TransferInv'
  <2>1. /\ exported' = db[m].calls
        /\ UNCHANGED <<length, since, db, copy, importing, missed>>
    BY <1>5 DEF ExportJSONL
  <2>2. db[m] \in DatabaseType
    BY DEF TransferTypeOK
  <2>3. TransferTypeOK'
    BY <2>1, <2>2, DatabaseFields DEF TransferTypeOK
  <2> QED
    BY <2>1, <2>3 DEF Vouches
<1>6. ASSUME NEW m \in Machines, ImportJSONL(m)
      PROVE  TransferInv'
  <2>1. PICK calls \in SUBSET exported :
            /\ db' = [db EXCEPT ![m] = AddCalls(@, calls)]
            /\ UNCHANGED <<length, since, copy, exported, importing, missed>>
    BY <1>6 DEF ImportJSONL
  <2> DEFINE d == AddCalls(db[m], calls)
  <2>2. /\ calls \in SUBSET (TransferLogs \X Nat)
        /\ db[m] \in DatabaseType
        /\ importing \in [Machines -> 0..2] /\ missed \in [Machines -> BOOLEAN]
    BY DEF TransferTypeOK
  <2>3. /\ d \in DatabaseType /\ d.calls = db[m].calls \cup calls
        /\ d.marks = db[m].marks /\ d.hollow = db[m].hollow
    BY <2>2, AddedCalls
  <2>4. db' = [db EXCEPT ![m] = d]
    BY <2>1
  <2> HIDE DEF d
  <2>5. Vouches(d)
    BY <2>3, MoreCallsVouch
  <2> QED
    BY <2>1, <2>2, <2>3, <2>4, <2>5, OneDatabaseChanges
<1>7. ASSUME NEW m \in Machines, StartImport(m)
      PROVE  TransferInv'
  BY <1>7 DEF StartImport, TransferTypeOK, Vouches
<1>8. ASSUME NEW m \in Machines, ImportStatement(m)
      PROVE  TransferInv'
  <2> DEFINE after == [importing EXCEPT ![m] = (@ + 1) % (Len(Statements) + 1)]
  <2>1. /\ importing[m] # 0 /\ importing' = after
        /\ UNCHANGED <<length, since, copy, exported, missed>>
    BY <1>8 DEF ImportStatement
  <2>2. /\ importing[m] \in {1, 2} /\ after \in [Machines -> 0..2]
        /\ after[m] = IF importing[m] = 2 THEN 0 ELSE importing[m] + 1
        /\ \A n \in Machines \ {m} : after[n] = importing[n]
    BY <2>1, AfterAStatement
  <2>3. /\ db[m] \in DatabaseType /\ copy \in DatabaseType
        /\ Vouches(db[m]) /\ Vouches(copy)
        /\ missed \in [Machines -> BOOLEAN] /\ missed[m] \in BOOLEAN
        /\ copy.calls \in SUBSET (TransferLogs \X Nat)
        /\ (importing[m] = 2 /\ ~missed[m] => copy.calls \subseteq db[m].calls)
    BY DatabaseFields DEF TransferTypeOK
  <2> DEFINE calls  == AddCalls(db[m], copy.calls)
             marks  == AddMarks(db[m], copy, missed[m])
  <2>4. /\ importing[m] = 1 => db' = [db EXCEPT ![m] = calls]
        /\ importing[m] = 2 => db' = [db EXCEPT ![m] = marks]
    <3>1. Statements[1] = "calls" /\ Statements[2] = "marks"
      BY DEF Statements
    <3> QED
      BY <1>8, <3>1 DEF ImportStatement
  <2>5. /\ calls \in DatabaseType /\ calls.calls = db[m].calls \cup copy.calls /\ Vouches(calls)
    <3>1. /\ calls \in DatabaseType /\ calls.calls = db[m].calls \cup copy.calls
          /\ calls.marks = db[m].marks /\ calls.hollow = db[m].hollow
      BY <2>3, AddedCalls
    <3> HIDE DEF calls
    <3> QED
      BY <2>3, <3>1, MoreCallsVouch
  <2>6. importing[m] = 2 => marks \in DatabaseType /\ marks.calls = db[m].calls /\ Vouches(marks)
    BY <2>3, ImportedMarksVouch
  <2> HIDE DEF after, calls, marks
  <2>7. CASE importing[m] = 1
    <3>1. db' = [db EXCEPT ![m] = calls] /\ importing' = after /\ missed' = missed
      BY <2>1, <2>4, <2>7
    <3>2. copy.calls \subseteq calls.calls /\ db[m].calls \subseteq calls.calls
      BY <2>5
    <3>3. importing' \in [Machines -> 0..2] /\ missed' \in [Machines -> BOOLEAN]
          /\ \A n \in Machines \ {m} : importing'[n] = importing[n] /\ missed'[n] = missed[n]
      BY <2>2, <2>3, <3>1
    <3> HIDE DEF TransferInv
    <3> QED
      BY <2>1, <2>5, <3>1, <3>2, <3>3, OneDatabaseChanges
  <2>8. CASE importing[m] = 2
    <3>1. /\ db' = [db EXCEPT ![m] = marks] /\ importing' = after /\ missed' = missed
          /\ after[m] = 0 /\ marks \in DatabaseType /\ marks.calls = db[m].calls /\ Vouches(marks)
      BY <2>1, <2>2, <2>4, <2>6, <2>8
    <3>2. importing' \in [Machines -> 0..2] /\ missed' \in [Machines -> BOOLEAN]
          /\ db[m].calls \subseteq marks.calls
          /\ (importing'[m] = 2 /\ ~missed'[m] => copy.calls \subseteq marks.calls)
          /\ \A n \in Machines \ {m} : importing'[n] = importing[n] /\ missed'[n] = missed[n]
      BY <2>2, <2>3, <3>1
    <3> HIDE DEF TransferInv
    <3> QED
      BY <2>1, <3>1, <3>2, OneDatabaseChanges
  <2> QED
    BY <2>2, <2>7, <2>8
<1>9. ASSUME NEW m \in Machines, StatementFails(m)
      PROVE  TransferInv'
  <2> DEFINE after == [importing EXCEPT ![m] = (@ + 1) % (Len(Statements) + 1)]
  <2>1. /\ importing[m] # 0 /\ importing' = after
        /\ missed' = [missed EXCEPT ![m] = @ \/ Statements[importing[m]] = "calls"]
        /\ UNCHANGED <<length, since, db, copy, exported>>
    BY <1>9 DEF StatementFails
  <2>2. /\ importing[m] \in {1, 2} /\ after \in [Machines -> 0..2]
        /\ after[m] = IF importing[m] = 2 THEN 0 ELSE importing[m] + 1
        /\ \A n \in Machines \ {m} : after[n] = importing[n]
    BY <2>1, AfterAStatement
  <2>3. missed \in [Machines -> BOOLEAN] /\ missed' \in [Machines -> BOOLEAN]
        /\ (\A n \in Machines \ {m} : missed'[n] = missed[n])
        /\ (~missed'[m] => ~missed[m])
    BY <2>1, Zenon DEF TransferTypeOK
  <2>4. importing[m] = 1 => missed'[m]
    <3>1. Statements[1] = "calls"
      BY DEF Statements
    <3> QED
      BY <2>1, <2>3, <3>1, Zenon
  <2>5. importing'[m] = 2 /\ ~missed'[m] => importing[m] = 2 /\ ~missed[m]
    BY <2>1, <2>2, <2>3, <2>4
  <2> HIDE DEF after
  <2>6. /\ db[m] \in DatabaseType /\ Vouches(db[m]) /\ db' = [db EXCEPT ![m] = db[m]]
        /\ (importing[m] = 2 /\ ~missed[m] => copy.calls \subseteq db[m].calls)
    BY <2>1 DEF TransferTypeOK
  <2> QED
    BY <2>1, <2>2, <2>3, <2>5, <2>6, OneDatabaseChanges
<1>10. ASSUME NEW m \in Machines, ImportKilled(m)
       PROVE  TransferInv'
  BY <1>10 DEF ImportKilled, TransferTypeOK, Vouches
<1>11. CASE UNCHANGED transferVars
  BY <1>11 DEF transferVars, TransferTypeOK, Vouches
<1> QED
  BY <1>1, <1>2, <1>3, <1>4, <1>5, <1>6, <1>7, <1>8, <1>9, <1>10, <1>11 DEF TransferNext

(* MarksVouchForCalls: what a database has marked as parsed it has the     *)
(* calls of, from the narrowest window on, whatever is synced, exported,   *)
(* copied and imported in whatever order by however many machines, and     *)
(* wherever an import is killed; except for logs left hollow by an import  *)
(* whose INSERT of the calls failed.                                       *)
THEOREM ImportsVouchForMarks == TransferSpec => []MarksVouchForCalls
<1>1. TransferInit => TransferInv
  <2> SUFFICES ASSUME TransferInit PROVE TransferInv
    OBVIOUS
  <2>1. TransferTypeOK
    BY NothingIsMarked DEF TransferInit, TransferTypeOK
  <2>2. Vouches(NoCalls)
    <3>1. ASSUME NEW f \in TransferLogs PROVE CallsOf(f, since[f], NoCalls.marks[f]) = {}
      <4>1. since[f] = 1 /\ NoCalls.marks[f] = 0
        BY NothingIsMarked DEF TransferInit
      <4> QED
        BY <4>1, NoCallsUpToZero
    <3> QED
      BY <3>1 DEF Vouches
  <2> QED
    BY <2>1, <2>2 DEF TransferInit, TransferInv
<1>2. TransferInv /\ [TransferNext]_transferVars => TransferInv'
  BY TransferInvInductive
<1>3. TransferInv => MarksVouchForCalls
  BY DEF TransferInv, Vouches, MarksVouchForCalls
<1> QED
  BY <1>1, <1>2, <1>3, PTL DEF TransferSpec

-----------------------------------------------------------------------------
(* The desktop app *)

Servers == [settings : Nat, state : {"starting", "serving", "dead"}]

SidecarTypeOK ==
    /\ app \in {"gone", "running", "exiting", "leaving"}
    /\ settings \in Nat /\ saved \in Nat /\ changes \in Nat
    /\ servers \in Seq(Servers)
    /\ child \in DOMAIN servers \cup {NoServer}
    /\ restarts \in SUBSET Nat
    /\ abrupt \in BOOLEAN /\ broken \in BOOLEAN

(* While no restart was overtaken, the server that runs is the one whose   *)
(* handle is kept, with the settings as they are; it has been stopped when *)
(* a restart waits and when the app is ending.                             *)
HandleInv ==
    ~abrupt =>
        /\ Live \subseteq {child}
        /\ restarts # {} => app = "running" /\ Live = {} /\ restarts = {settings}
        /\ app # "running" => Live = {}
        /\ \A i \in Live : servers[i].settings = settings

(* A running app has a server, or is about to have one, or one has died.   *)
ServedInv ==
    app = "running" /\ restarts = {} /\ ~broken => Live # {}

SidecarInv == SidecarTypeOK /\ HandleInv /\ ServedInv

LEMMA ServersType ==
    ASSUME SidecarTypeOK
    PROVE  /\ Len(servers) \in Nat /\ DOMAIN servers = 1..Len(servers)
           /\ \A i \in DOMAIN servers :
                 /\ servers[i] \in Servers
                 /\ servers[i].settings \in Nat
                 /\ servers[i].state \in {"starting", "serving", "dead"}
           /\ Live \subseteq DOMAIN servers /\ NoServer \notin DOMAIN servers
<1>1. servers \in Seq(Servers)
  BY DEF SidecarTypeOK
<1>2. Len(servers) \in Nat /\ DOMAIN servers = 1..Len(servers)
      /\ \A i \in DOMAIN servers : servers[i] \in Servers
  BY <1>1
<1> QED
  BY <1>2, SidecarAssumption DEF Servers, Live

(* A server that is started is the last one of all, runs, and is held.     *)
LEMMA Spawned ==
    ASSUME SidecarTypeOK, NEW version \in Nat, SpawnServer(version)
    PROVE  /\ servers' \in Seq(Servers) /\ child' \in DOMAIN servers' /\ broken' = FALSE
           /\ child' \notin Live /\ Live' = Live \cup {child'}
           /\ servers'[child'].settings = version
           /\ \A i \in Live : servers'[i] = servers[i]
<1>1. Len(servers) \in Nat /\ DOMAIN servers = 1..Len(servers) /\ Live \subseteq DOMAIN servers
  BY ServersType
<1> DEFINE new == [settings |-> version, state |-> "starting"]
<1>2. new \in Servers /\ new.state # "dead" /\ new.settings = version
  BY DEF Servers
<1>3. servers' = Append(servers, new) /\ child' = Len(servers) + 1 /\ broken' = FALSE
  BY DEF SpawnServer
<1> HIDE DEF new
<1>4. servers \in Seq(Servers)
  BY DEF SidecarTypeOK
<1>5. /\ servers' \in Seq(Servers) /\ Len(servers') = Len(servers) + 1
      /\ \A i \in 1..Len(servers) : servers'[i] = servers[i]
      /\ servers'[Len(servers) + 1] = new
  BY <1>2, <1>3, <1>4, AppendProperties
<1>6. DOMAIN servers' = 1..(Len(servers) + 1)
  BY <1>5
<1>7. child' \in DOMAIN servers' /\ child' \notin Live /\ servers'[child'] = new
  BY <1>1, <1>3, <1>5, <1>6
<1>8. Live' = {i \in DOMAIN servers' : servers'[i].state # "dead"}
  BY DEF Live
<1>9. Live' = Live \cup {child'}
  BY <1>1, <1>2, <1>3, <1>5, <1>6, <1>8 DEF Live
<1> QED
  BY <1>1, <1>2, <1>3, <1>5, <1>7, <1>9

(* A change of one server's state. *)
LEMMA StateSet ==
    ASSUME SidecarTypeOK, NEW i \in DOMAIN servers, NEW state \in {"starting", "serving", "dead"},
           servers' = [servers EXCEPT ![i].state = state]
    PROVE  /\ servers' \in Seq(Servers) /\ DOMAIN servers' = DOMAIN servers
           /\ \A j \in DOMAIN servers : servers'[j].settings = servers[j].settings
           /\ \A j \in DOMAIN servers : j # i => servers'[j] = servers[j]
           /\ servers'[i].state = state
           /\ Live' = IF state = "dead" THEN Live \ {i} ELSE Live \cup {i}
<1>1. servers \in Seq(Servers) /\ servers[i] \in Servers
  BY ServersType DEF SidecarTypeOK
<1> DEFINE s == [servers[i] EXCEPT !.state = state]
<1>2. s \in Servers /\ s.settings = servers[i].settings /\ s.state = state
  BY <1>1 DEF Servers
<1>3. servers' = [servers EXCEPT ![i] = s]
  OBVIOUS
<1> HIDE DEF s
<1>4. servers' \in Seq(Servers) /\ DOMAIN servers' = DOMAIN servers
  BY <1>1, <1>2, <1>3, ExceptSeq
<1>5. servers'[i] = s /\ \A j \in DOMAIN servers : j # i => servers'[j] = servers[j]
  BY <1>3
<1>6. Live' = {j \in DOMAIN servers' : servers'[j].state # "dead"}
  BY DEF Live
<1>7. Live' = IF state = "dead" THEN Live \ {i} ELSE Live \cup {i}
  BY <1>2, <1>4, <1>5, <1>6 DEF Live
<1> QED
  BY <1>2, <1>4, <1>5, <1>7

(* Stopping ends the server whose handle is kept. *)
LEMMA Stopped ==
    ASSUME SidecarTypeOK, StopServer
    PROVE  /\ servers' \in Seq(Servers) /\ DOMAIN servers' = DOMAIN servers /\ child' = NoServer
           /\ Live' = Live \ {child}
           /\ \A j \in DOMAIN servers : servers'[j].settings = servers[j].settings
<1>1. CASE child = NoServer
  <2>1. UNCHANGED servers /\ child' = NoServer /\ servers \in Seq(Servers)
    BY <1>1 DEF StopServer, SidecarTypeOK
  <2>2. Live' = Live /\ NoServer \notin Live
    BY <2>1, ServersType DEF Live
  <2> QED
    BY <1>1, <2>1, <2>2
<1>2. CASE child # NoServer
  <2>1. child \in DOMAIN servers /\ child' = NoServer
        /\ servers' = [servers EXCEPT ![child].state = "dead"]
    BY <1>2 DEF StopServer, SidecarTypeOK
  <2> QED
    BY <2>1, StateSet
<1> QED
  BY <1>1, <1>2

LEMMA SidecarInvInductive ==
    ASSUME SidecarInv, [SidecarNext]_sidecarVars
    PROVE  SidecarInv'
<1> USE DEF SidecarInv
<1>1. SidecarTypeOK /\ Live \subseteq DOMAIN servers /\ NoServer \notin DOMAIN servers
  BY ServersType
<1>2. CASE Setup
  <2>1. SpawnServer(saved) /\ saved \in Nat
    BY <1>2 DEF Setup, SidecarTypeOK
  <2>2. /\ app = "gone" /\ app' = "running" /\ settings' = saved
        /\ UNCHANGED <<saved, changes, restarts, abrupt>>
    BY <1>2 DEF Setup
  <2>3. SidecarTypeOK'
    BY <2>1, <2>2, Spawned DEF SidecarTypeOK
  <2>4. HandleInv'
    BY <2>1, <2>2, Spawned DEF HandleInv
  <2>5. ServedInv'
    BY <2>1, Spawned DEF ServedInv
  <2> QED
    BY <2>3, <2>4, <2>5
<1>3. CASE ChangeSetting
  <2>1. StopServer
    BY <1>3 DEF ChangeSetting
  <2>2. /\ app = "running" /\ settings' = changes + 1 /\ changes' = changes + 1
        /\ saved' \in {saved, settings'} /\ restarts' = restarts \cup {settings'}
        /\ abrupt' = (abrupt \/ restarts # {}) /\ UNCHANGED <<app, broken>>
    BY <1>3 DEF ChangeSetting
  <2>3. SidecarTypeOK'
    BY <2>1, <2>2, Stopped DEF SidecarTypeOK
  <2>4. HandleInv'
    BY <2>1, <2>2, Stopped DEF HandleInv
  <2>5. ServedInv'
    BY <2>2 DEF ServedInv
  <2> QED
    BY <2>3, <2>4, <2>5
<1>4. CASE Quit \/ Exit
  <2>1. StopServer
    BY <1>4 DEF Quit, Exit
  <2>2. /\ app' \in {"exiting", "leaving"} /\ abrupt' = (abrupt \/ restarts # {})
        /\ UNCHANGED <<settings, saved, changes, restarts, broken>>
    BY <1>4 DEF Quit, Exit
  <2>3. SidecarTypeOK'
    BY <2>1, <2>2, Stopped DEF SidecarTypeOK
  <2>4. HandleInv'
    BY <2>1, <2>2, Stopped DEF HandleInv
  <2>5. ServedInv'
    BY <2>2 DEF ServedInv
  <2> QED
    BY <2>3, <2>4, <2>5
<1>5. CASE ExitProcess \/ Killed
  <2>1. End /\ ((UNCHANGED abrupt /\ app = "leaving") \/ abrupt' = TRUE)
    BY <1>5 DEF ExitProcess, Killed
  <2>2. /\ app' = "gone" /\ child' = NoServer /\ restarts' = {}
        /\ UNCHANGED <<settings, saved, changes, servers, broken>>
    BY <2>1 DEF End
  <2>3. Live' = Live
    BY <2>2 DEF Live
  <2>4. SidecarTypeOK'
    BY <2>1, <2>2 DEF SidecarTypeOK
  <2>5. HandleInv'
    BY <2>1, <2>2, <2>3 DEF HandleInv
  <2>6. ServedInv'
    BY <2>2 DEF ServedInv
  <2> QED
    BY <2>4, <2>5, <2>6
<1>6. ASSUME NEW version \in restarts, Respawn(version)
      PROVE  SidecarInv'
  <2>1. SpawnServer(version) /\ version \in Nat
    BY <1>6 DEF Respawn, SidecarTypeOK
  <2>2. /\ restarts' = restarts \ {version}
        /\ UNCHANGED <<app, settings, saved, changes, abrupt>>
    BY <1>6 DEF Respawn
  <2>3. SidecarTypeOK'
    BY <2>1, <2>2, Spawned DEF SidecarTypeOK
  <2>4. HandleInv'
    BY <2>1, <2>2, Spawned DEF HandleInv
  <2>5. ServedInv'
    BY <2>1, Spawned DEF ServedInv
  <2> QED
    BY <2>3, <2>4, <2>5
<1>7. ASSUME NEW version \in restarts, RespawnFails(version)
      PROVE  SidecarInv'
  <2>1. /\ restarts' = restarts \ {version} /\ broken' = TRUE
        /\ UNCHANGED <<app, settings, saved, changes, child, servers, abrupt>>
    BY <1>7 DEF RespawnFails
  <2>2. Live' = Live
    BY <2>1 DEF Live
  <2>3. SidecarTypeOK'
    BY <2>1 DEF SidecarTypeOK
  <2>4. HandleInv'
    BY <2>1, <2>2 DEF HandleInv
  <2> QED
    BY <2>1, <2>3, <2>4 DEF ServedInv
<1>8. ASSUME NEW i \in DOMAIN servers, Listen(i)
      PROVE  SidecarInv'
  <2> DEFINE state == IF Serving = {} THEN "serving" ELSE "dead"
  <2>1. /\ servers' = [servers EXCEPT ![i].state = state] /\ i \in Live
        /\ UNCHANGED <<app, settings, saved, changes, child, restarts, abrupt, broken>>
    BY <1>8 DEF Listen, SetState, Live
  <2>2. /\ servers' \in Seq(Servers) /\ DOMAIN servers' = DOMAIN servers
        /\ \A j \in DOMAIN servers : servers'[j].settings = servers[j].settings
        /\ Live' = IF state = "dead" THEN Live \ {i} ELSE Live \cup {i}
    BY <2>1, StateSet
  <2>3. Live' \subseteq Live /\ (Live # {} => Live' # {})
    <3>1. CASE Serving = {}
      BY <2>1, <2>2, <3>1
    <3>2. CASE Serving # {}
      <4>1. i \notin Serving /\ Serving \subseteq Live
        BY <1>8 DEF Listen, Serving, Live
      <4> QED
        BY <2>2, <3>2, <4>1
    <3> QED
      BY <3>1, <3>2
  <2>4. SidecarTypeOK'
    BY <2>1, <2>2 DEF SidecarTypeOK
  <2>5. HandleInv'
    BY <1>1, <2>1, <2>2, <2>3 DEF HandleInv
  <2>6. ServedInv'
    BY <2>1, <2>3 DEF ServedInv
  <2> QED
    BY <2>4, <2>5, <2>6
<1>9. ASSUME NEW i \in DOMAIN servers, ServerDies(i)
      PROVE  SidecarInv'
  <2>1. /\ servers' = [servers EXCEPT ![i].state = "dead"] /\ broken' = TRUE
        /\ UNCHANGED <<app, settings, saved, changes, child, restarts, abrupt>>
    BY <1>9 DEF ServerDies, SetState
  <2>2. /\ servers' \in Seq(Servers) /\ DOMAIN servers' = DOMAIN servers
        /\ \A j \in DOMAIN servers : servers'[j].settings = servers[j].settings
        /\ Live' = Live \ {i}
    BY <2>1, StateSet
  <2>3. SidecarTypeOK'
    BY <2>1, <2>2 DEF SidecarTypeOK
  <2>4. HandleInv'
    BY <1>1, <2>1, <2>2 DEF HandleInv
  <2> QED
    BY <2>1, <2>3, <2>4 DEF ServedInv
<1>10. CASE UNCHANGED sidecarVars
  <2>1. Live' = Live
    BY <1>10 DEF sidecarVars, Live
  <2> QED
    BY <1>10, <2>1 DEF sidecarVars, SidecarTypeOK, HandleInv, ServedInv
<1> QED
  BY <1>2, <1>3, <1>4, <1>5, <1>6, <1>7, <1>8, <1>9, <1>10 DEF SidecarNext

LEMMA SidecarInvariant == SidecarSpec => []SidecarInv
<1>1. SidecarInit => SidecarInv
  <2> SUFFICES ASSUME SidecarInit PROVE SidecarInv
    OBVIOUS
  <2>1. servers = <<>> /\ app = "gone" /\ restarts = {}
    BY DEF SidecarInit
  <2>2. servers \in Seq(Servers) /\ DOMAIN servers = {} /\ child = NoServer
    BY <2>1 DEF SidecarInit
  <2>3. Live = {}
    BY <2>2 DEF Live
  <2>4. SidecarTypeOK
    <3>1. /\ settings = 0 /\ saved = 0 /\ changes = 0
          /\ abrupt = FALSE /\ broken = FALSE
      BY DEF SidecarInit
    <3> QED
      BY <2>1, <2>2, <3>1 DEF SidecarTypeOK
  <2> QED
    BY <2>1, <2>3, <2>4 DEF SidecarInv, HandleInv, ServedInv
<1>2. SidecarInv /\ [SidecarNext]_sidecarVars => SidecarInv'
  BY SidecarInvInductive
<1> QED
  BY <1>1, <1>2, PTL DEF SidecarSpec

(* NoOrphans: every server that runs is the one whose handle is kept, and  *)
(* none is left when the app has ended, unless a restart was overtaken or  *)
(* the app was killed.                                                     *)
THEOREM NoServerIsOrphaned == SidecarSpec => []NoOrphans
<1>1. SidecarInv => NoOrphans
  BY DEF SidecarInv, HandleInv, NoOrphans
<1> QED
  BY <1>1, SidecarInvariant, PTL

(* DashboardIsServed: a running app whose server has not died has one that *)
(* answers, and with the settings as they are unless a restart was         *)
(* overtaken.                                                              *)
THEOREM AServerAnswers == SidecarSpec => []DashboardIsServed
<1>1. SidecarInv => DashboardIsServed
  BY DEF SidecarInv, HandleInv, ServedInv, DashboardIsServed
<1> QED
  BY <1>1, SidecarInvariant, PTL

=============================================================================
