--------------------------- MODULE ParsingProofs ---------------------------
(***************************************************************************)
(* Proofs about reading one log while it is written, for logs of any       *)
(* length, any windows and any table of prices: what the parsers read and  *)
(* ReattributeUserTurns moves, and that no call is counted twice and no    *)
(* user turn charged twice.                                                *)
(*                                                                         *)
(* The loops over lines and calls are recursive functions.  Each is shown  *)
(* to exist (LoopExists), and to be after line i what a condition on the   *)
(* lines up to i says, by induction along the lines (UpTo).                *)
(***************************************************************************)
EXTENDS Parsing, StatisticsProofs, SequenceTheorems, TLAPS

-----------------------------------------------------------------------------
(* Loops over a sequence *)

(* Induction up to n. *)
LEMMA UpTo ==
    ASSUME NEW n \in Nat, NEW T, 0 \in T, \A i \in 1..n : i - 1 \in T => i \in T
    PROVE  0..n \subseteq T
<1> DEFINE bad == {i \in 0..n : i \notin T}
<1>1. SUFFICES ASSUME bad # {} PROVE FALSE
  OBVIOUS
<1>2. PICK i \in bad : \A j \in bad : i <= j
  <2>1. bad \in SUBSET Nat
    OBVIOUS
  <2> HIDE DEF bad
  <2> QED
    BY <1>1, <2>1, LeastNumber
<1>3. i \in 1..n /\ i - 1 \in 0..n /\ ~(i <= i - 1)
  BY <1>2
<1> QED
  BY <1>2, <1>3

(* A number of a set without a greater one. *)
LEMMA GreatestNumber ==
    ASSUME NEW n \in Nat, NEW T \in SUBSET (0..n), T # {}
    PROVE  \E x \in T : \A y \in T : y <= x
<1> DEFINE U == {u \in 0..n : \A y \in T : y <= u}
<1>1. n \in U
  OBVIOUS
<1>2. PICK u \in U : \A v \in U : u <= v
  <2>1. U \in SUBSET Nat
    OBVIOUS
  <2> HIDE DEF U
  <2> QED
    BY <1>1, <2>1, LeastNumber
<1>3. CASE u \in T
  BY <1>2, <1>3
<1>4. CASE u \notin T
  <2>1. \A y \in T : y \in 0..n /\ y <= u /\ y # u
    BY <1>2, <1>4
  <2>2. u - 1 \in U
    <3>1. PICK y \in T : TRUE
      OBVIOUS
    <3>2. u \in 1..n
      BY <2>1, <3>1
    <3> QED
      BY <2>1, <3>2
  <2> QED
    BY <1>2, <2>2
<1> QED
  BY <1>3, <1>4

IsLoop(g, n, V, base, step) ==
    /\ g \in [0..n -> V]
    /\ g[0] = base
    /\ \A i \in 1..n : g[i] = step[<<i, g[i - 1]>>]

(* A loop whose body is defined for every state has a run. *)
LEMMA LoopExists ==
    ASSUME NEW n \in Nat, NEW V, NEW base \in V, NEW step \in Steps(1..n, V)
    PROVE  \E g : IsLoop(g, n, V, base, step)
<1> DEFINE T == {i \in 0..n : \E g : IsLoop(g, i, V, base, step)}
<1>1. 0 \in T
  <2> DEFINE g == [j \in 0..0 |-> base]
  <2>1. IsLoop(g, 0, V, base, step)
    BY DEF IsLoop
  <2> QED
    BY <2>1
<1>2. ASSUME NEW i \in 1..n, i - 1 \in T PROVE i \in T
  <2>1. PICK g : IsLoop(g, i - 1, V, base, step)
    BY <1>2
  <2> DEFINE last == step[<<i, g[i - 1]>>]
             h == [j \in 0..i |-> IF j = i THEN last ELSE g[j]]
  <2>2. g[i - 1] \in V /\ last \in V
    BY <2>1 DEF IsLoop, Steps
  <2> HIDE DEF last
  <2>3. h \in [0..i -> V] /\ h[0] = base
    BY <2>1, <2>2 DEF IsLoop
  <2>4. ASSUME NEW j \in 1..i PROVE h[j] = step[<<j, h[j - 1]>>]
    <3>1. h[j - 1] = g[j - 1]
      OBVIOUS
    <3>2. CASE j = i
      BY <3>1, <3>2 DEF last
    <3>3. CASE j # i
      <4>1. j \in 1..i-1 /\ h[j] = g[j]
        BY <3>3
      <4> QED
        BY <2>1, <3>1, <4>1 DEF IsLoop
    <3> QED
      BY <3>2, <3>3
  <2> HIDE DEF h
  <2>5. IsLoop(h, i, V, base, step)
    BY <2>3, <2>4 DEF IsLoop
  <2> QED
    BY <2>5
<1> HIDE DEF T
<1>3. 0..n \subseteq T
  BY <1>1, <1>2, UpTo
<1> QED
  BY <1>3 DEF T
-----------------------------------------------------------------------------
(* Lines and what is read of them *)

LogModels == LoggedModels \cup {UnknownModel}
CallRecords == [call : Nat, model : LogModels, day : Nat, turn : BOOLEAN]
ParserStates == [model : LogModels, day : Nat, user : BOOLEAN, calls : Seq(CallRecords)]

LogLines ==
    [kind : {"stamp"}, day : Nat \ {Undated}]
        \cup [kind : {"initiator"}, user : BOOLEAN]
        \cup [kind : {"model"}, model : LoggedModels]
        \cup [kind : {"usage"}, call : Nat]
        \cup [kind : {"event"}, call : Nat, model : LoggedModels, user : BOOLEAN]

Logs == Seq(LogLines)

LEMMA LineFields ==
    ASSUME NEW line \in LogLines
    PROVE  /\ line.kind \in {"stamp", "initiator", "model", "usage", "event"}
           /\ line.kind = "stamp" => line.day \in Nat /\ line.day # Undated
           /\ line.kind \in {"initiator", "event"} => line.user \in BOOLEAN
           /\ line.kind \in {"model", "event"} => line.model \in LoggedModels
           /\ line.kind \in {"usage", "event"} => line.call \in Nat
BY DEF LogLines

LEMMA LogOfLines ==
    ASSUME NEW content \in Logs
    PROVE  /\ Len(content) \in Nat /\ DOMAIN content = 1..Len(content)
           /\ \A i \in 1..Len(content) : content[i] \in LogLines
BY DEF Logs

LEMMA CallOf ==
    ASSUME NEW call \in Nat, NEW model \in LogModels, NEW day \in Nat, NEW turn \in BOOLEAN
    PROVE  /\ Record(call, model, day, turn) \in CallRecords
           /\ Record(call, model, day, turn).call = call
           /\ Record(call, model, day, turn).model = model
           /\ Record(call, model, day, turn).day = day
           /\ Record(call, model, day, turn).turn = turn
BY DEF Record, CallRecords

LEMMA CallFields ==
    ASSUME NEW r \in CallRecords
    PROVE  r.call \in Nat /\ r.model \in LogModels /\ r.day \in Nat /\ r.turn \in BOOLEAN
BY DEF CallRecords

LEMMA StateFields ==
    ASSUME NEW s \in ParserStates
    PROVE  /\ s.model \in LogModels /\ s.day \in Nat
           /\ s.user \in BOOLEAN /\ s.calls \in Seq(CallRecords)
BY DEF ParserStates

LEMMA StartState ==
    /\ Start \in ParserStates
    /\ Start.model = UnknownModel /\ Start.day = Undated /\ Start.user = FALSE
    /\ Start.calls = <<>>
<1>1. <<>> \in Seq(CallRecords)
  BY EmptySeq
<1> QED
  BY <1>1 DEF Start, ParserStates, LogModels, Undated

(* Lines further down, in which the model of a call is looked for. *)
Ahead(content, i) ==
    {j \in i + BlockEnd .. i + ModelBlockEnd - 1 :
        j <= Len(content) /\ content[j].kind \in {"model", "event"}}

LEMMA AheadIsOfLog ==
    ASSUME NEW content \in Logs, NEW i \in 1..Len(content)
    PROVE  /\ Ahead(content, i) \subseteq 1..Len(content)
           /\ Ahead(content, i) \in SUBSET Nat
           /\ \A j \in Ahead(content, i) : content[j].model \in LoggedModels
<1>1. Len(content) \in Nat /\ BlockEnd \in Nat /\ ModelBlockEnd \in Nat
  BY LogOfLines, ParsingAssumption
<1>2. Ahead(content, i) \subseteq 1..Len(content)
  BY <1>1 DEF Ahead
<1>3. ASSUME NEW j \in Ahead(content, i) PROVE content[j].model \in LoggedModels
  <2>1. content[j] \in LogLines /\ content[j].kind \in {"model", "event"}
    BY <1>2, LogOfLines DEF Ahead
  <2> QED
    BY <2>1, LineFields
<1> QED
  BY <1>1, <1>2, <1>3

FirstOf(s) == CHOOSE j \in s : \A k \in s : j <= k

LEMMA FirstOfIs ==
    ASSUME NEW s \in SUBSET Nat, s # {}
    PROVE  FirstOf(s) \in s /\ \A k \in s : FirstOf(s) <= k
<1>1. \E x \in s : \A y \in s : x <= y
  BY LeastNumber
<1> QED
  BY <1>1 DEF FirstOf

LEMMA ModelForIs ==
    ASSUME NEW content, NEW i, NEW model
    PROVE  ModelFor(content, i, model) =
               IF model # UnknownModel \/ Ahead(content, i) = {} THEN model
               ELSE content[FirstOf(Ahead(content, i))].model
BY DEF ModelFor, Ahead, FirstOf

LEMMA ModelForType ==
    ASSUME NEW content \in Logs, NEW i \in 1..Len(content), NEW model \in LogModels
    PROVE  ModelFor(content, i, model) \in LogModels
<1>1. Ahead(content, i) # {} => FirstOf(Ahead(content, i)) \in Ahead(content, i)
  BY AheadIsOfLog, FirstOfIs
<1>2. Ahead(content, i) # {} => content[FirstOf(Ahead(content, i))].model \in LoggedModels
  BY <1>1, AheadIsOfLog
<1> QED
  BY <1>2, ModelForIs DEF LogModels
-----------------------------------------------------------------------------
(* The loops of the parsers *)

LEMMA InRangeType == ASSUME NEW day, NEW range PROVE InRange(day, range) \in BOOLEAN
BY DEF InRange

(* What a line does to the state of the older parser, field by field. *)
LEMMA RegexLineIs ==
    ASSUME NEW content \in Logs, NEW range, NEW i \in 1..Len(content), NEW s \in ParserStates
    PROVE  /\ RegexLine(content, range, s, i) \in ParserStates
           /\ RegexLine(content, range, s, i).day =
                 IF content[i].kind = "stamp" THEN content[i].day ELSE s.day
           /\ content[i].kind \in {"initiator", "event"} =>
                 RegexLine(content, range, s, i).user = content[i].user
           /\ content[i].kind = "usage" => ~RegexLine(content, range, s, i).user
           /\ content[i].kind \notin {"initiator", "event", "usage"} =>
                 RegexLine(content, range, s, i).user = s.user
           /\ RegexLine(content, range, s, i).model =
                 IF content[i].kind \in {"model", "event"} THEN content[i].model
                 ELSE IF content[i].kind = "usage" /\ InRange(s.day, range)
                 THEN ModelFor(content, i, s.model) ELSE s.model
           /\ RegexLine(content, range, s, i).calls =
                 IF content[i].kind = "usage" /\ InRange(s.day, range)
                 THEN Append(s.calls, Record(content[i].call, ModelFor(content, i, s.model),
                                             s.day, s.user))
                 ELSE s.calls
<1> DEFINE kind == content[i].kind
           next == RegexLine(content, range, s, i)
           model == ModelFor(content, i, s.model)
<1>1. content[i] \in LogLines
  BY LogOfLines
<1>2. /\ kind \in {"stamp", "initiator", "model", "usage", "event"}
      /\ kind = "stamp" => content[i].day \in Nat
      /\ kind \in {"initiator", "event"} => content[i].user \in BOOLEAN
      /\ kind \in {"model", "event"} => content[i].model \in LogModels
      /\ kind = "usage" => content[i].call \in Nat
  BY <1>1, LineFields DEF LogModels
<1>3. model \in LogModels /\ s.model \in LogModels /\ s.day \in Nat /\ s.user \in BOOLEAN
      /\ s.calls \in Seq(CallRecords)
  BY ModelForType, StateFields
<1> HIDE DEF model, kind
<1>4. CASE kind = "stamp"
  <2>1. next = [s EXCEPT !.day = content[i].day]
    BY <1>4 DEF RegexLine, kind
  <2> QED
    BY <1>2, <1>3, <1>4, <2>1 DEF ParserStates, kind
<1>5. CASE kind = "initiator"
  <2>1. next = [s EXCEPT !.user = content[i].user]
    BY <1>5 DEF RegexLine, kind
  <2> QED
    BY <1>2, <1>3, <1>5, <2>1 DEF ParserStates, kind
<1>6. CASE kind = "model"
  <2>1. next = [s EXCEPT !.model = content[i].model]
    BY <1>6 DEF RegexLine, kind
  <2> QED
    BY <1>2, <1>3, <1>6, <2>1 DEF ParserStates, kind
<1>7. CASE kind = "event"
  <2>1. next = [s EXCEPT !.model = content[i].model, !.user = content[i].user]
    BY <1>7 DEF RegexLine, kind
  <2> QED
    BY <1>2, <1>3, <1>7, <2>1 DEF ParserStates, kind
<1>8. CASE kind = "usage"
  <2>1. next = ParseUsage(content, range, s, i)
    BY <1>8 DEF RegexLine, kind
  <2>2. CASE ~InRange(s.day, range)
    <3>1. next = [s EXCEPT !.user = FALSE]
      BY <2>1, <2>2 DEF ParseUsage
    <3> QED
      BY <1>3, <1>8, <2>2, <3>1 DEF ParserStates, kind
  <2>3. CASE InRange(s.day, range)
    <3> DEFINE r == Record(content[i].call, model, s.day, s.user)
    <3>1. next = [s EXCEPT !.model = model, !.user = FALSE, !.calls = Append(@, r)]
      BY <2>1, <2>3 DEF ParseUsage, model
    <3>2. r \in CallRecords
      BY <1>2, <1>3, <1>8, CallOf
    <3>3. Append(s.calls, r) \in Seq(CallRecords)
      BY <1>3, <3>2, AppendProperties
    <3> HIDE DEF r
    <3>4. next = [model |-> model, day |-> s.day, user |-> FALSE, calls |-> Append(s.calls, r)]
      BY <3>1 DEF ParserStates
    <3> QED
      BY <1>3, <1>8, <2>3, <3>3, <3>4 DEF ParserStates, kind, r, model
  <2> QED
    BY <2>2, <2>3
<1> QED
  BY <1>2, <1>4, <1>5, <1>6, <1>7, <1>8 DEF kind, model

LEMMA TelemetryLineIs ==
    ASSUME NEW content \in Logs, NEW range, NEW i \in 1..Len(content), NEW s \in ParserStates
    PROVE  LET line == content[i]
               next == TelemetryLine(content, range, s, i)
           IN  /\ next \in ParserStates
               /\ next.day = IF line.kind = "stamp" THEN line.day ELSE s.day
               /\ next.calls = IF line.kind = "event" /\ InRange(s.day, range)
                               THEN Append(s.calls, Record(line.call, line.model, s.day, line.user))
                               ELSE s.calls
<1> DEFINE line == content[i]
           next == TelemetryLine(content, range, s, i)
<1>1. line \in LogLines
  BY LogOfLines
<1> HIDE DEF line
<1>2. /\ line.kind = "stamp" => line.day \in Nat
      /\ line.kind = "event" =>
            line.user \in BOOLEAN /\ line.model \in LogModels /\ line.call \in Nat
  BY <1>1, LineFields DEF LogModels
<1>3. s.day \in Nat /\ s.calls \in Seq(CallRecords)
  BY StateFields
<1>4. CASE line.kind = "stamp"
  <2>1. next = [s EXCEPT !.day = line.day]
    BY <1>4 DEF TelemetryLine, line
  <2> QED
    BY <1>2, <1>3, <1>4, <2>1 DEF ParserStates, line
<1>5. CASE line.kind = "event" /\ InRange(s.day, range)
  <2> DEFINE r == Record(line.call, line.model, s.day, line.user)
  <2>1. next = [s EXCEPT !.calls = Append(@, r)]
    BY <1>5 DEF TelemetryLine, line
  <2>2. Append(s.calls, r) \in Seq(CallRecords)
    BY <1>2, <1>3, <1>5, CallOf, AppendProperties
  <2> HIDE DEF r
  <2> QED
    BY <1>3, <1>5, <2>1, <2>2 DEF ParserStates, line, r
<1>6. CASE line.kind # "stamp" /\ ~(line.kind = "event" /\ InRange(s.day, range))
  <2>1. next = s
    BY <1>6 DEF TelemetryLine, line
  <2> QED
    BY <1>3, <1>6, <2>1 DEF line
<1> QED
  BY <1>4, <1>5, <1>6 DEF line

(* The states of the loops after the lines so far. *)
RegexStates(content, range) ==
    CHOOSE after : after = [i \in 0..Len(content) |->
                               IF i = 0 THEN Start
                               ELSE RegexLine(content, range, after[i - 1], i)]

TelemetryStates(content, range) ==
    CHOOSE after : after = [i \in 0..Len(content) |->
                               IF i = 0 THEN Start
                               ELSE TelemetryLine(content, range, after[i - 1], i)]

LEMMA RegexStatesAre ==
    ASSUME NEW content \in Logs, NEW range
    PROVE  LET run == RegexStates(content, range)
           IN  /\ ParseRegexRecords(content, range) = run[Len(content)].calls
               /\ run[0] = Start
               /\ \A i \in 1..Len(content) : run[i] = RegexLine(content, range, run[i - 1], i)
               /\ \A i \in 0..Len(content) : run[i] \in ParserStates
<1> DEFINE n == Len(content)
           Body(after) == [i \in 0..n |-> IF i = 0 THEN Start
                                          ELSE RegexLine(content, range, after[i - 1], i)]
           run == RegexStates(content, range)
           step == [p \in (1..n) \X ParserStates |-> RegexLine(content, range, p[2], p[1])]
<1>1. n \in Nat /\ Start \in ParserStates
  BY LogOfLines, StartState
<1>2. \A i \in 1..n : \A s \in ParserStates : RegexLine(content, range, s, i) \in ParserStates
  BY RegexLineIs
<1>3. step \in Steps(1..n, ParserStates)
  BY <1>2 DEF Steps
<1>4. \A i \in 1..n : \A s \in ParserStates : step[<<i, s>>] = RegexLine(content, range, s, i)
  OBVIOUS
<1> HIDE DEF step, n
<1>5. PICK g : IsLoop(g, n, ParserStates, Start, step)
  BY <1>1, <1>3, LoopExists
<1>6. g = Body(g)
  <2>1. \A i \in 1..n : g[i] = RegexLine(content, range, g[i - 1], i)
    <3> TAKE i \in 1..n
    <3>1. i - 1 \in 0..n
      BY <1>1
    <3>2. g[i - 1] \in ParserStates
      BY <1>5, <3>1 DEF IsLoop
    <3> QED
      BY <1>4, <1>5, <3>2 DEF IsLoop
  <2>2. \A i \in 0..n : i = 0 \/ i \in 1..n
    BY <1>1
  <2>3. \A i \in 0..n : g[i] = IF i = 0 THEN Start ELSE RegexLine(content, range, g[i - 1], i)
    BY <1>5, <2>1, <2>2 DEF IsLoop
  <2> QED
    BY <1>5, <2>3 DEF IsLoop
<1>7. run = Body(run)
  BY <1>6 DEF RegexStates, n
<1>8. run[0] = Start /\ \A i \in 1..n : run[i] = RegexLine(content, range, run[i - 1], i)
  <2> HIDE DEF run
  <2>1. 0 \in 0..n /\ \A i \in 1..n : i \in 0..n /\ i # 0
    BY <1>1
  <2> QED
    BY <1>7, <2>1
<1> HIDE DEF run
<1>9. 0..n \subseteq {i \in 0..n : run[i] \in ParserStates}
  <2> DEFINE T == {i \in 0..n : run[i] \in ParserStates}
  <2>1. 0 \in T
    BY <1>1, <1>8
  <2>2. \A i \in 1..n : i - 1 \in T => i \in T
    BY <1>1, <1>2, <1>8
  <2> HIDE DEF T
  <2>3. 0..n \subseteq T
    BY <1>1, <2>1, <2>2, UpTo
  <2> QED
    BY <2>3 DEF T
<1>10. ParseRegexRecords(content, range) = run[n].calls
  BY DEF ParseRegexRecords, RegexStates, run, n
<1> QED
  BY <1>8, <1>9, <1>10 DEF run, n

LEMMA TelemetryStatesAre ==
    ASSUME NEW content \in Logs, NEW range
    PROVE  LET run == TelemetryStates(content, range)
           IN  /\ ParseTelemetryRecords(content, range) = run[Len(content)].calls
               /\ run[0] = Start
               /\ \A i \in 1..Len(content) : run[i] = TelemetryLine(content, range, run[i - 1], i)
               /\ \A i \in 0..Len(content) : run[i] \in ParserStates
<1> DEFINE n == Len(content)
           Body(after) == [i \in 0..n |-> IF i = 0 THEN Start
                                          ELSE TelemetryLine(content, range, after[i - 1], i)]
           run == TelemetryStates(content, range)
           step == [p \in (1..n) \X ParserStates |-> TelemetryLine(content, range, p[2], p[1])]
<1>1. n \in Nat /\ Start \in ParserStates
  BY LogOfLines, StartState
<1>2. \A i \in 1..n : \A s \in ParserStates : TelemetryLine(content, range, s, i) \in ParserStates
  BY TelemetryLineIs
<1>3. step \in Steps(1..n, ParserStates)
  BY <1>2 DEF Steps
<1>4. \A i \in 1..n : \A s \in ParserStates : step[<<i, s>>] = TelemetryLine(content, range, s, i)
  OBVIOUS
<1> HIDE DEF step, n
<1>5. PICK g : IsLoop(g, n, ParserStates, Start, step)
  BY <1>1, <1>3, LoopExists
<1>6. g = Body(g)
  <2>1. \A i \in 1..n : g[i] = TelemetryLine(content, range, g[i - 1], i)
    <3> TAKE i \in 1..n
    <3>1. i - 1 \in 0..n
      BY <1>1
    <3>2. g[i - 1] \in ParserStates
      BY <1>5, <3>1 DEF IsLoop
    <3> QED
      BY <1>4, <1>5, <3>2 DEF IsLoop
  <2>2. \A i \in 0..n : i = 0 \/ i \in 1..n
    BY <1>1
  <2>3. \A i \in 0..n : g[i] = IF i = 0 THEN Start ELSE TelemetryLine(content, range, g[i - 1], i)
    BY <1>5, <2>1, <2>2 DEF IsLoop
  <2> QED
    BY <1>5, <2>3 DEF IsLoop
<1>7. run = Body(run)
  BY <1>6 DEF TelemetryStates, n
<1>8. run[0] = Start /\ \A i \in 1..n : run[i] = TelemetryLine(content, range, run[i - 1], i)
  <2> HIDE DEF run
  <2>1. 0 \in 0..n /\ \A i \in 1..n : i \in 0..n /\ i # 0
    BY <1>1
  <2> QED
    BY <1>7, <2>1
<1> HIDE DEF run
<1>9. 0..n \subseteq {i \in 0..n : run[i] \in ParserStates}
  <2> DEFINE T == {i \in 0..n : run[i] \in ParserStates}
  <2>1. 0 \in T
    BY <1>1, <1>8
  <2>2. \A i \in 1..n : i - 1 \in T => i \in T
    BY <1>1, <1>2, <1>8
  <2> HIDE DEF T
  <2>3. 0..n \subseteq T
    BY <1>1, <2>1, <2>2, UpTo
  <2> QED
    BY <2>3 DEF T
<1>10. ParseTelemetryRecords(content, range) = run[n].calls
  BY DEF ParseTelemetryRecords, TelemetryStates, run, n
<1> QED
  BY <1>8, <1>9, <1>10 DEF run, n
-----------------------------------------------------------------------------
(* What the loops know after a line *)

LastOf(s) == CHOOSE j \in s : \A k \in s : k <= j

LEMMA LastOfIs ==
    ASSUME NEW n \in Nat, NEW s \in SUBSET (0..n), s # {}
    PROVE  LastOf(s) \in s /\ \A k \in s : k <= LastOf(s)
<1>1. \E x \in s : \A y \in s : y <= x
  BY GreatestNumber
<1> QED
  BY <1>1 DEF LastOf

Kinds(content, i, kinds) == {j \in 1..i : content[j].kind \in kinds}

LEMMA KindsStep ==
    ASSUME NEW content, NEW n \in Nat, NEW i \in 1..n, NEW kinds
    PROVE  /\ content[i].kind \in kinds =>
                 /\ Kinds(content, i, kinds) = Kinds(content, i - 1, kinds) \cup {i}
                 /\ LastOf(Kinds(content, i, kinds)) = i
           /\ content[i].kind \notin kinds =>
                 Kinds(content, i, kinds) = Kinds(content, i - 1, kinds)
           /\ Kinds(content, 0, kinds) = {}
           /\ Kinds(content, i, kinds) \in SUBSET (0..i)
<1>1. content[i].kind \in kinds => Kinds(content, i, kinds) = Kinds(content, i - 1, kinds) \cup {i}
  BY DEF Kinds
<1>2. content[i].kind \notin kinds => Kinds(content, i, kinds) = Kinds(content, i - 1, kinds)
  BY DEF Kinds
<1>3. Kinds(content, 0, kinds) = {} /\ Kinds(content, i, kinds) \in SUBSET (0..i)
  BY DEF Kinds
<1>4. ASSUME content[i].kind \in kinds PROVE LastOf(Kinds(content, i, kinds)) = i
  <2>1. i \in Kinds(content, i, kinds)
    BY <1>1, <1>4
  <2> DEFINE l == LastOf(Kinds(content, i, kinds))
  <2>2. l \in Kinds(content, i, kinds) /\ i <= l
    BY <1>3, <2>1, LastOfIs
  <2> QED
    BY <1>3, <2>2
<1> QED
  BY <1>1, <1>2, <1>3, <1>4

(* The last stamp so far. *)
DayAt(content, i) ==
    IF Kinds(content, i, {"stamp"}) = {} THEN Undated
    ELSE content[LastOf(Kinds(content, i, {"stamp"}))].day

(* Whether the user asked, and no call has answered yet. *)
UserAfter(content, i) ==
    \E j \in 1..i :
        /\ content[j].kind \in {"initiator", "event"} /\ content[j].user
        /\ \A k \in j + 1 .. i : content[k].kind \notin {"initiator", "event", "usage"}

(* The last model named so far; before any is named, the one that the      *)
(* first call found which found one.                                       *)
Finders(content, i) == {u \in 1..i : content[u].kind = "usage" /\ Ahead(content, u) # {}}

ModelAfter(content, i) ==
    LET named   == Kinds(content, i, {"model", "event"})
        finders == Finders(content, i)
    IN  IF named # {} THEN content[LastOf(named)].model
        ELSE IF finders = {} THEN UnknownModel
        ELSE content[FirstOf(Ahead(content, FirstOf(finders)))].model

LEMMA DayStep ==
    ASSUME NEW content \in Logs, NEW i \in 1..Len(content)
    PROVE  /\ DayAt(content, 0) = Undated
           /\ DayAt(content, i) = IF content[i].kind = "stamp" THEN content[i].day
                                  ELSE DayAt(content, i - 1)
<1>1. Len(content) \in Nat
  BY LogOfLines
<1> DEFINE S(m) == Kinds(content, m, {"stamp"})
<1>2. /\ content[i].kind = "stamp" => S(i) = S(i - 1) \cup {i} /\ LastOf(S(i)) = i
      /\ content[i].kind # "stamp" => S(i) = S(i - 1)
      /\ S(0) = {}
  BY <1>1, KindsStep
<1>3. \A m : DayAt(content, m) = IF S(m) = {} THEN Undated ELSE content[LastOf(S(m))].day
  BY DEF DayAt
<1> HIDE DEF S
<1> QED
  BY <1>2, <1>3

LEMMA UserStep ==
    ASSUME NEW content \in Logs, NEW i \in 1..Len(content)
    PROVE  /\ UserAfter(content, 0) = FALSE
           /\ UserAfter(content, i) = IF content[i].kind \in {"initiator", "event"}
                                      THEN content[i].user
                                      ELSE IF content[i].kind = "usage" THEN FALSE
                                      ELSE UserAfter(content, i - 1)
<1> DEFINE Ends(k) == content[k].kind \in {"initiator", "event", "usage"}
           Asks(k) == content[k].kind \in {"initiator", "event"} /\ content[k].user
<1>1. /\ Len(content) \in Nat
      /\ content[i].kind \in {"initiator", "event"} => content[i].user \in BOOLEAN
  BY LogOfLines, LineFields
<1>2. UserAfter(content, 0) = FALSE
  BY DEF UserAfter
<1>3. \A m : UserAfter(content, m) <=> \E j \in 1..m : Asks(j) /\ \A k \in j + 1 .. m : ~Ends(k)
  BY DEF UserAfter
<1>4. UserAfter(content, i) \in BOOLEAN /\ UserAfter(content, i - 1) \in BOOLEAN
  BY DEF UserAfter
<1>5. CASE content[i].kind \in {"initiator", "event"}
  <2>1. Ends(i) /\ (Asks(i) <=> content[i].user)
    BY <1>5
  <2> HIDE DEF Ends, Asks
  <2>2. \A j \in 1..i : (\A k \in j + 1 .. i : ~Ends(k)) => j = i
    <3> TAKE j \in 1..i
    <3>1. j # i => i \in j + 1 .. i
      BY <1>1
    <3> QED
      BY <2>1, <3>1
  <2>3. \A k \in i + 1 .. i : ~Ends(k)
    BY <1>1
  <2>4. UserAfter(content, i) <=> content[i].user
    BY <1>1, <1>3, <2>1, <2>2, <2>3
  <2> QED
    BY <1>1, <1>2, <1>4, <1>5, <2>4
<1>6. CASE content[i].kind = "usage"
  <2>1. Ends(i) /\ ~Asks(i)
    BY <1>6
  <2> HIDE DEF Ends, Asks
  <2>2. \A j \in 1..i : (\A k \in j + 1 .. i : ~Ends(k)) => j = i
    <3> TAKE j \in 1..i
    <3>1. j # i => i \in j + 1 .. i
      BY <1>1
    <3> QED
      BY <2>1, <3>1
  <2>3. ~UserAfter(content, i)
    BY <1>1, <1>3, <2>1, <2>2
  <2> QED
    BY <1>2, <1>4, <1>6, <2>3
<1>7. CASE content[i].kind \notin {"initiator", "event", "usage"}
  <2>1. ~Ends(i) /\ ~Asks(i)
    BY <1>7
  <2> HIDE DEF Ends, Asks
  <2>2. ASSUME NEW j \in 1 .. i - 1
        PROVE  (\A k \in j + 1 .. i : ~Ends(k)) <=> (\A k \in j + 1 .. i - 1 : ~Ends(k))
    <3>1. \A k \in j + 1 .. i : k = i \/ k \in j + 1 .. i - 1
      BY <1>1
    <3>2. \A k \in j + 1 .. i - 1 : k \in j + 1 .. i
      BY <1>1
    <3> QED
      BY <2>1, <3>1, <3>2
  <2>3. \A j \in 1..i : Asks(j) => j \in 1 .. i - 1
    BY <1>1, <2>1
  <2>4. \A j \in 1 .. i - 1 : j \in 1..i
    BY <1>1
  <2>5. UserAfter(content, i) <=> UserAfter(content, i - 1)
    BY <1>3, <2>2, <2>3, <2>4
  <2> QED
    BY <1>2, <1>4, <1>7, <2>5
<1> QED
  BY <1>5, <1>6, <1>7

(* A model that is known was named or found. *)
LEMMA ModelKnown ==
    ASSUME NEW content \in Logs, NEW i \in 0..Len(content)
    PROVE  /\ ModelAfter(content, i) \in LogModels
           /\ ModelAfter(content, i) # UnknownModel
                 <=> Kinds(content, i, {"model", "event"}) # {} \/ Finders(content, i) # {}
<1> DEFINE named == Kinds(content, i, {"model", "event"})
           finders == Finders(content, i)
<1>1. Len(content) \in Nat /\ \A j \in 1..Len(content) : content[j] \in LogLines
  BY LogOfLines
<1>2. ASSUME named # {} PROVE content[LastOf(named)].model \in LoggedModels
  <2>1. named \in SUBSET (0..i)
    BY DEF Kinds
  <2>2. i \in Nat
    BY <1>1
  <2>3. LastOf(named) \in named
    BY <1>2, <2>1, <2>2, LastOfIs
  <2>4. content[LastOf(named)] \in LogLines /\ content[LastOf(named)].kind \in {"model", "event"}
    BY <1>1, <2>3 DEF Kinds
  <2> QED
    BY <2>4, LineFields
<1>3. ASSUME finders # {}
      PROVE  content[FirstOf(Ahead(content, FirstOf(finders)))].model \in LoggedModels
  <2> DEFINE u == FirstOf(finders)
             a == Ahead(content, u)
  <2>1. finders \in SUBSET Nat
    BY <1>1 DEF Finders
  <2>2. u \in finders
    <3> HIDE DEF finders
    <3> QED
      BY <1>3, <2>1, FirstOfIs
  <2>3. u \in 1..Len(content) /\ a # {}
    <3>1. finders \subseteq {v \in 1..Len(content) : Ahead(content, v) # {}}
      BY <1>1 DEF Finders
    <3> HIDE DEF u, finders
    <3> QED
      BY <2>2, <3>1
  <2>4. a \in SUBSET Nat /\ \A j \in a : content[j].model \in LoggedModels
    BY <2>3, AheadIsOfLog
  <2> HIDE DEF a
  <2>5. FirstOf(a) \in a
    BY <2>3, <2>4, FirstOfIs
  <2> QED
    BY <2>4, <2>5 DEF a
<1>4. ModelAfter(content, i) = IF named # {} THEN content[LastOf(named)].model
        ELSE IF finders = {} THEN UnknownModel
        ELSE content[FirstOf(Ahead(content, FirstOf(finders)))].model
  BY DEF ModelAfter
<1>5. UnknownModel \notin LoggedModels
  BY ParsingAssumption
<1> HIDE DEF named, finders
<1>6. /\ ModelAfter(content, i) \in LogModels
      /\ ModelAfter(content, i) # UnknownModel <=> named # {} \/ finders # {}
  BY <1>2, <1>3, <1>4, <1>5 DEF LogModels
<1> QED
  BY <1>6 DEF named, finders

LEMMA FindersStep ==
    ASSUME NEW content \in Logs, NEW i \in 1..Len(content)
    PROVE  /\ Finders(content, 0) = {}
           /\ Finders(content, i) \in SUBSET Nat
           /\ ~(content[i].kind = "usage" /\ Ahead(content, i) # {}) =>
                  Finders(content, i) = Finders(content, i - 1)
           /\ content[i].kind = "usage" /\ Ahead(content, i) # {} =>
                  /\ Finders(content, i) = Finders(content, i - 1) \cup {i}
                  /\ Finders(content, i - 1) = {} => FirstOf(Finders(content, i)) = i
                  /\ Finders(content, i - 1) # {} =>
                        FirstOf(Finders(content, i)) = FirstOf(Finders(content, i - 1))
<1>1. Len(content) \in Nat
  BY LogOfLines
<1>2. Finders(content, 0) = {} /\ Finders(content, i) \in SUBSET Nat
      /\ Finders(content, i - 1) \in SUBSET (1 .. i - 1)
  BY <1>1 DEF Finders
<1>3. ~(content[i].kind = "usage" /\ Ahead(content, i) # {}) =>
          Finders(content, i) = Finders(content, i - 1)
  BY <1>1 DEF Finders
<1>4. ASSUME content[i].kind = "usage", Ahead(content, i) # {}
      PROVE  /\ Finders(content, i) = Finders(content, i - 1) \cup {i}
             /\ Finders(content, i - 1) = {} => FirstOf(Finders(content, i)) = i
             /\ Finders(content, i - 1) # {} =>
                   FirstOf(Finders(content, i)) = FirstOf(Finders(content, i - 1))
  <2> DEFINE F == Finders(content, i)
             G == Finders(content, i - 1)
  <2>1. F = G \cup {i}
    BY <1>1, <1>4 DEF Finders
  <2> HIDE DEF F, G
  <2>2. F \in SUBSET Nat /\ G \in SUBSET (1 .. i - 1) /\ G \in SUBSET Nat
    BY <1>1, <1>2 DEF F, G
  <2>3. FirstOf(F) \in F /\ \A k \in F : FirstOf(F) <= k
    BY <2>1, <2>2, FirstOfIs
  <2>4. G # {} => FirstOf(G) \in G /\ \A k \in G : FirstOf(G) <= k
    BY <2>2, FirstOfIs
  <2>5. G = {} => FirstOf(F) = i
    BY <2>1, <2>3
  <2>6. ASSUME G # {} PROVE FirstOf(F) = FirstOf(G)
    <3>1. FirstOf(F) <= FirstOf(G) /\ FirstOf(G) \in 1 .. i - 1
      BY <2>1, <2>2, <2>3, <2>4, <2>6
    <3>2. FirstOf(F) # i /\ FirstOf(F) \in G \cup {i}
      BY <1>1, <2>1, <2>2, <2>3, <3>1
    <3>3. FirstOf(F) \in G
      BY <3>2
    <3>4. FirstOf(G) <= FirstOf(F)
      BY <2>4, <2>6, <3>3
    <3>5. FirstOf(G) \in Nat
      BY <2>2, <2>4, <2>6
    <3>6. FirstOf(F) \in Nat
      BY <2>2, <3>3
    <3> QED
      BY <3>1, <3>4, <3>5, <3>6
  <2> QED
    BY <2>1, <2>5, <2>6 DEF F, G
<1> QED
  BY <1>2, <1>3, <1>4

LEMMA ModelStep ==
    ASSUME NEW content \in Logs, NEW i \in 1..Len(content)
    PROVE  /\ ModelAfter(content, 0) = UnknownModel
           /\ ModelAfter(content, i) =
                 IF content[i].kind \in {"model", "event"} THEN content[i].model
                 ELSE IF content[i].kind = "usage"
                 THEN ModelFor(content, i, ModelAfter(content, i - 1))
                 ELSE ModelAfter(content, i - 1)
<1> DEFINE Named(m) == Kinds(content, m, {"model", "event"})
           before == ModelAfter(content, i - 1)
<1>1. /\ Len(content) \in Nat /\ i - 1 \in 0..Len(content)
      /\ content[i].kind \in {"stamp", "initiator", "model", "usage", "event"}
  BY LogOfLines, LineFields
<1>2. ModelAfter(content, 0) = UnknownModel
  BY <1>1, KindsStep, FindersStep DEF ModelAfter
<1>3. /\ content[i].kind \in {"model", "event"} =>
            Named(i) = Named(i - 1) \cup {i} /\ LastOf(Named(i)) = i
      /\ content[i].kind \notin {"model", "event"} => Named(i) = Named(i - 1)
  BY <1>1, KindsStep
<1>4. before # UnknownModel <=> Named(i - 1) # {} \/ Finders(content, i - 1) # {}
  BY <1>1, ModelKnown
<1>5. ModelFor(content, i, before) =
          IF before # UnknownModel \/ Ahead(content, i) = {} THEN before
          ELSE content[FirstOf(Ahead(content, i))].model
  BY ModelForIs
<1>6. \A m \in {i, i - 1} :
         ModelAfter(content, m) = IF Named(m) # {} THEN content[LastOf(Named(m))].model
            ELSE IF Finders(content, m) = {} THEN UnknownModel
            ELSE content[FirstOf(Ahead(content, FirstOf(Finders(content, m))))].model
  BY DEF ModelAfter
<1> HIDE DEF Named, before
<1>7. CASE content[i].kind \in {"model", "event"}
  BY <1>2, <1>3, <1>6, <1>7
<1>8. CASE content[i].kind \notin {"model", "event", "usage"}
  <2>1. Finders(content, i) = Finders(content, i - 1)
    BY <1>8, FindersStep
  <2> QED
    BY <1>2, <1>3, <1>6, <1>8, <2>1 DEF before
<1>9. CASE content[i].kind = "usage"
  <2>0. Named(i) = Named(i - 1)
    BY <1>3, <1>9
  <2>1. CASE Named(i - 1) # {}
    <3>1. ModelAfter(content, i) = before
      BY <1>6, <2>0, <2>1 DEF before
    <3>2. ModelFor(content, i, before) = before
      BY <1>4, <1>5, <2>1
    <3> QED
      BY <1>2, <1>9, <3>1, <3>2 DEF before
  <2>2. CASE Named(i - 1) = {} /\ Finders(content, i - 1) # {}
    <3>1. /\ Finders(content, i) # {}
          /\ FirstOf(Finders(content, i)) = FirstOf(Finders(content, i - 1))
      BY <2>2, <1>9, FindersStep
    <3>2. ModelAfter(content, i) = before
      BY <1>6, <2>0, <2>2, <3>1 DEF before
    <3>3. ModelFor(content, i, before) = before
      BY <1>4, <1>5, <2>2
    <3> QED
      BY <1>2, <1>9, <3>2, <3>3 DEF before
  <2>3. CASE Named(i - 1) = {} /\ Finders(content, i - 1) = {} /\ Ahead(content, i) = {}
    <3>1. Finders(content, i) = {}
      BY <2>3, FindersStep
    <3>2. ModelAfter(content, i) = before
      BY <1>6, <2>0, <2>3, <3>1 DEF before
    <3>3. ModelFor(content, i, before) = before
      BY <1>5, <2>3
    <3> QED
      BY <1>2, <1>9, <3>2, <3>3 DEF before
  <2>4. CASE Named(i - 1) = {} /\ Finders(content, i - 1) = {} /\ Ahead(content, i) # {}
    <3>1. Finders(content, i) # {} /\ FirstOf(Finders(content, i)) = i
      BY <2>4, <1>9, FindersStep
    <3>2. ModelAfter(content, i) = content[FirstOf(Ahead(content, i))].model
      BY <1>6, <2>0, <2>4, <3>1
    <3>3. ModelFor(content, i, before) = content[FirstOf(Ahead(content, i))].model
      BY <1>4, <1>5, <2>4
    <3> QED
      BY <1>2, <1>9, <3>2, <3>3 DEF before
  <2> QED
    BY <2>1, <2>2, <2>3, <2>4
<1> QED
  BY <1>7, <1>8, <1>9
-----------------------------------------------------------------------------
(* The calls of a parse *)

(* calls lists the calls given for the lines of S, in the order of their   *)
(* numbers.                                                                *)
Lists(calls, S, given) ==
    /\ calls \in Seq(CallRecords)
    /\ \A p \in 1..Len(calls) : \E i \in S : calls[p] = given[i]
    /\ \A i \in S : \E p \in 1..Len(calls) : calls[p] = given[i]
    /\ \A p, q \in 1..Len(calls) : p < q => calls[p].call < calls[q].call

LEMMA ListsNone ==
    ASSUME NEW given
    PROVE  Lists(<<>>, {}, given)
<1>1. <<>> \in Seq(CallRecords) /\ Len(<<>>) = 0
  BY EmptySeq
<1> QED
  BY <1>1 DEF Lists

LEMMA ListsMore ==
    ASSUME NEW calls, NEW S, NEW given, Lists(calls, S, given),
           NEW i, given[i] \in CallRecords, \A j \in S : given[j].call < given[i].call
    PROVE  Lists(Append(calls, given[i]), S \cup {i}, given)
<1> DEFINE r == given[i]
           more == Append(calls, r)
           n == Len(calls)
<1>1. /\ calls \in Seq(CallRecords) /\ n \in Nat
      /\ more \in Seq(CallRecords) /\ Len(more) = n + 1
      /\ more[n + 1] = r /\ \A p \in 1..n : more[p] = calls[p]
  BY AppendProperties, LenProperties DEF Lists
<1>2. \A p \in 1 .. n + 1 : p \in 1..n \/ p = n + 1
  BY <1>1
<1>2a. \A p \in 1..n : p \in 1 .. n + 1
  BY <1>1
<1>3. /\ \A p \in 1..n : \E j \in S : calls[p] = given[j]
      /\ \A j \in S : \E p \in 1..n : calls[p] = given[j]
      /\ \A p, q \in 1..n : p < q => calls[p].call < calls[q].call
  BY DEF Lists
<1> HIDE DEF more, n, r
<1>4. ASSUME NEW p \in 1 .. n + 1 PROVE \E j \in S \cup {i} : more[p] = given[j]
  <2>1. CASE p \in 1..n
    <3>1. PICK j \in S : calls[p] = given[j]
      BY <1>3, <2>1
    <3> QED
      BY <1>1, <2>1, <3>1
  <2>2. CASE p = n + 1
    BY <1>1, <2>2 DEF r
  <2> QED
    BY <1>2, <2>1, <2>2
<1>5. ASSUME NEW j \in S \cup {i} PROVE \E p \in 1 .. n + 1 : more[p] = given[j]
  <2>1. CASE j \in S
    <3>1. PICK p \in 1..n : calls[p] = given[j]
      BY <1>3, <2>1
    <3> QED
      BY <1>1, <1>2a, <3>1
  <2>2. CASE j = i
    <3>1. n + 1 \in 1 .. n + 1
      BY <1>1
    <3> QED
      BY <1>1, <2>2, <3>1 DEF r
  <2> QED
    BY <2>1, <2>2
<1>6. ASSUME NEW p \in 1 .. n + 1, NEW q \in 1 .. n + 1, p < q
      PROVE  more[p].call < more[q].call
  <2>1. p \in 1..n
    BY <1>1, <1>6
  <2>2. CASE q \in 1..n
    BY <1>1, <1>3, <1>6, <2>1, <2>2
  <2>3. CASE q = n + 1
    <3>1. PICK j \in S : calls[p] = given[j]
      BY <1>3, <2>1
    <3> QED
      BY <1>1, <2>1, <2>3, <3>1 DEF r
  <2> QED
    BY <1>2, <2>2, <2>3
<1> QED
  BY <1>1, <1>4, <1>5, <1>6 DEF Lists, more, n, r

(* The calls that the lines stand for. *)
UsageCalls(content) ==
    [i \in 1..Len(content) |->
        Record(content[i].call, ModelAfter(content, i), DayAt(content, i),
               UserAfter(content, i - 1))]

EventCalls(content) ==
    [i \in 1..Len(content) |->
        Record(content[i].call, content[i].model, DayAt(content, i), content[i].user)]

Read(content, i, kind, range) ==
    {j \in Kinds(content, i, {kind}) : InRange(DayAt(content, j), range)}

Numbered(content, kind) ==
    \A i, j \in 1..Len(content) :
        content[i].kind = kind /\ content[j].kind = kind /\ i < j =>
            content[i].call < content[j].call

(* Every line with tokens comes after one with a model. *)
NamedFirst(content) ==
    \A i \in 1..Len(content) :
        content[i].kind = "usage" => Kinds(content, i - 1, {"model", "event"}) # {}

LEMMA DayAtType ==
    ASSUME NEW content \in Logs, NEW i \in 0..Len(content)
    PROVE  DayAt(content, i) \in Nat
<1> DEFINE T == {m \in 0..Len(content) : DayAt(content, m) \in Nat}
<1>1. Len(content) \in Nat
  BY LogOfLines
<1>2. 0 \in T
  BY <1>1, KindsStep DEF DayAt, Undated, Kinds
<1>3. ASSUME NEW m \in 1..Len(content), m - 1 \in T PROVE m \in T
  <2>1. content[m].kind = "stamp" => content[m].day \in Nat
    BY LogOfLines, LineFields
  <2> QED
    BY <1>1, <1>3, <2>1, DayStep
<1> HIDE DEF T
<1>4. 0..Len(content) \subseteq T
  BY <1>1, <1>2, <1>3, UpTo
<1> QED
  BY <1>4 DEF T

LEMMA UsageCallIs ==
    ASSUME NEW content \in Logs, NEW i \in 1..Len(content), content[i].kind = "usage"
    PROVE  /\ UsageCalls(content)[i] \in CallRecords
           /\ UsageCalls(content)[i].call = content[i].call
           /\ UsageCalls(content)[i].model = ModelAfter(content, i)
           /\ UsageCalls(content)[i].day = DayAt(content, i)
           /\ UsageCalls(content)[i].turn = UserAfter(content, i - 1)
<1>1. Len(content) \in Nat /\ content[i].call \in Nat
  BY LogOfLines, LineFields
<1>2. ModelAfter(content, i) \in LogModels /\ DayAt(content, i) \in Nat
      /\ UserAfter(content, i - 1) \in BOOLEAN
  BY <1>1, ModelKnown, DayAtType DEF UserAfter
<1>3. UsageCalls(content)[i] = Record(content[i].call, ModelAfter(content, i),
                                      DayAt(content, i), UserAfter(content, i - 1))
  BY DEF UsageCalls
<1> QED
  BY <1>1, <1>2, <1>3, CallOf

LEMMA EventCallIs ==
    ASSUME NEW content \in Logs, NEW i \in 1..Len(content), content[i].kind = "event"
    PROVE  /\ EventCalls(content)[i] \in CallRecords
           /\ EventCalls(content)[i].call = content[i].call
           /\ EventCalls(content)[i].model = content[i].model
           /\ EventCalls(content)[i].day = DayAt(content, i)
           /\ EventCalls(content)[i].turn = content[i].user
<1>1. Len(content) \in Nat /\ content[i].call \in Nat /\ content[i].model \in LogModels
      /\ content[i].user \in BOOLEAN
  BY LogOfLines, LineFields DEF LogModels
<1>2. DayAt(content, i) \in Nat
  BY <1>1, DayAtType
<1>3. EventCalls(content)[i] = Record(content[i].call, content[i].model, DayAt(content, i),
                                      content[i].user)
  BY DEF EventCalls
<1> QED
  BY <1>1, <1>2, <1>3, CallOf

LEMMA ReadStep ==
    ASSUME NEW content \in Logs, NEW i \in 1..Len(content), NEW kind, NEW range
    PROVE  /\ Read(content, 0, kind, range) = {}
           /\ content[i].kind = kind /\ InRange(DayAt(content, i), range) =>
                 Read(content, i, kind, range) = Read(content, i - 1, kind, range) \cup {i}
           /\ ~(content[i].kind = kind /\ InRange(DayAt(content, i), range)) =>
                 Read(content, i, kind, range) = Read(content, i - 1, kind, range)
<1>1. Len(content) \in Nat
  BY LogOfLines
<1>2. /\ Kinds(content, 0, {kind}) = {}
      /\ content[i].kind = kind =>
            Kinds(content, i, {kind}) = Kinds(content, i - 1, {kind}) \cup {i}
      /\ content[i].kind # kind => Kinds(content, i, {kind}) = Kinds(content, i - 1, {kind})
  <2>1. content[i].kind = kind <=> content[i].kind \in {kind}
    OBVIOUS
  <2> QED
    BY <1>1, <2>1, KindsStep
<1> QED
  BY <1>2 DEF Read

(* The older parser reads the calls of the lines with tokens in the window, *)
(* each with the model, day and initiator of its place.                    *)
LEMMA RegexRecordsAre ==
    ASSUME NEW content \in Logs, NEW range, Numbered(content, "usage"),
           range = WholeLog \/ NamedFirst(content)
    PROVE  Lists(ParseRegexRecords(content, range),
                 Read(content, Len(content), "usage", range), UsageCalls(content))
<1> DEFINE run == RegexStates(content, range)
           n == Len(content)
           given == UsageCalls(content)
           S(i) == Read(content, i, "usage", range)
           T == {i \in 0..n : /\ run[i].day = DayAt(content, i)
                              /\ run[i].user = UserAfter(content, i)
                              /\ run[i].model = ModelAfter(content, i)
                              /\ Lists(run[i].calls, S(i), given)}
<1>1. /\ ParseRegexRecords(content, range) = run[n].calls
      /\ run[0] = Start
      /\ \A i \in 1..n : run[i] = RegexLine(content, range, run[i - 1], i)
      /\ \A i \in 0..n : run[i] \in ParserStates
  BY RegexStatesAre
<1>2. n \in Nat
  BY LogOfLines
<1> HIDE DEF run, given, S
<1>3. 0 \in T
  <2>1. DayAt(content, 0) = Undated /\ UserAfter(content, 0) = FALSE
        /\ ModelAfter(content, 0) = UnknownModel /\ S(0) = {}
    BY <1>2 DEF DayAt, UserAfter, ModelAfter, S, Read, Kinds, Finders
  <2>2. Lists(<<>>, S(0), given)
    BY <2>1, ListsNone
  <2>3. run[0].user = UserAfter(content, 0)
    BY <1>1, <2>1, StartState, Zenon
  <2> QED
    BY <1>1, <1>2, <2>1, <2>2, <2>3, StartState
<1>4. ASSUME NEW i \in 1..n, i - 1 \in T PROVE i \in T
  <2> DEFINE s == run[i - 1]
             kind == content[i].kind
             model == ModelFor(content, i, s.model)
  <2>0. i \in 1..Len(content)
    BY DEF n
  <2>1. s \in ParserStates /\ run[i] = RegexLine(content, range, s, i) /\ i \in 0..n
    BY <1>1, <1>2
  <2>2. /\ s.day = DayAt(content, i - 1) /\ s.user = UserAfter(content, i - 1)
        /\ s.model = ModelAfter(content, i - 1) /\ Lists(s.calls, S(i - 1), given)
    BY <1>4
  <2> HIDE DEF s
  <2> HIDE DEF model
  <2>3. run[i].day = IF kind = "stamp" THEN content[i].day ELSE s.day
    BY <2>0, <2>1, RegexLineIs
  <2>3a. /\ kind \in {"initiator", "event"} => run[i].user = content[i].user
         /\ kind = "usage" => ~run[i].user
         /\ kind \notin {"initiator", "event", "usage"} => run[i].user = s.user
    BY <2>0, <2>1, RegexLineIs
  <2>3b. run[i].model = IF kind \in {"model", "event"} THEN content[i].model
                        ELSE IF kind = "usage" /\ InRange(s.day, range) THEN model ELSE s.model
    BY <2>0, <2>1, RegexLineIs DEF model
  <2>3c. /\ kind = "usage" /\ InRange(s.day, range) =>
               run[i].calls = Append(s.calls, Record(content[i].call, model, s.day, s.user))
         /\ ~(kind = "usage" /\ InRange(s.day, range)) => run[i].calls = s.calls
    <3>1. run[i].calls = IF kind = "usage" /\ InRange(s.day, range)
                         THEN Append(s.calls, Record(content[i].call, ModelFor(content, i, s.model),
                                                     s.day, s.user))
                         ELSE s.calls
      BY <2>0, <2>1, RegexLineIs
    <3> QED
      BY <3>1, Zenon DEF model
  <2>4. DayAt(content, i) = IF kind = "stamp" THEN content[i].day ELSE s.day
    BY <2>0, <2>2, DayStep
  <2>5. UserAfter(content, i) = IF kind \in {"initiator", "event"} THEN content[i].user
                                ELSE IF kind = "usage" THEN FALSE ELSE s.user
    BY <2>0, <2>2, UserStep
  <2>6. ModelAfter(content, i) = IF kind \in {"model", "event"} THEN content[i].model
                                 ELSE IF kind = "usage" THEN model ELSE s.model
    BY <2>0, <2>2, ModelStep DEF model
  <2>7. kind = "usage" /\ ~InRange(s.day, range) => model = s.model
    <3>1. CASE range = WholeLog
      BY <3>1 DEF InRange, WholeLog
    <3>2. CASE NamedFirst(content) /\ kind = "usage"
      <4>1. Kinds(content, i - 1, {"model", "event"}) # {} /\ i - 1 \in 0..Len(content)
        BY <1>2, <2>0, <3>2 DEF NamedFirst, n
      <4>2. s.model # UnknownModel
        BY <2>2, <4>1, ModelKnown
      <4> QED
        BY <4>2, ModelForIs DEF model
    <3> QED
      BY <3>1, <3>2
  <2>8. kind = "usage" => (InRange(s.day, range) <=> InRange(DayAt(content, i), range))
    BY <2>4
  <2>9. Lists(run[i].calls, S(i), given)
    <3>1. CASE kind = "usage" /\ InRange(s.day, range)
      <4>1. /\ given[i] = Record(content[i].call, model, s.day, s.user)
            /\ given[i] \in CallRecords /\ given[i].call = content[i].call
        <5>1. given[i] = Record(content[i].call, ModelAfter(content, i), DayAt(content, i),
                                UserAfter(content, i - 1))
          BY <2>0 DEF given, UsageCalls
        <5>2. ModelAfter(content, i) = model /\ DayAt(content, i) = s.day
          BY <2>4, <2>6, <3>1
        <5>3. UserAfter(content, i - 1) = s.user
          BY <2>2
        <5>4. given[i] = Record(content[i].call, model, s.day, s.user)
          BY <5>1, <5>2, <5>3, Zenon
        <5> QED
          BY <2>0, <3>1, <5>4, UsageCallIs DEF given
      <4>2. run[i].calls = Append(s.calls, given[i])
        <5>1. run[i].calls = Append(s.calls, Record(content[i].call, model, s.day, s.user))
          BY <2>3c, <3>1, Zenon
        <5>2. given[i] = Record(content[i].call, model, s.day, s.user)
          BY <4>1, Zenon
        <5> QED
          BY <5>1, <5>2, Zenon
      <4>3. S(i) = S(i - 1) \cup {i}
        <5>1. content[i].kind = "usage" /\ InRange(DayAt(content, i), range)
          BY <2>8, <3>1
        <5> QED
          BY <2>0, <5>1, ReadStep DEF S
      <4>4. ASSUME NEW j \in S(i - 1) PROVE given[j].call < given[i].call
        <5>1. j \in 1..Len(content) /\ content[j].kind = "usage" /\ j < i
          BY <1>2, <2>0 DEF S, Read, Kinds, n
        <5>2. given[j].call = content[j].call
          BY <5>1, UsageCallIs DEF given
        <5> QED
          BY <2>0, <3>1, <4>1, <5>1, <5>2 DEF Numbered
      <4> QED
        <5>1. Lists(Append(s.calls, given[i]), S(i - 1) \cup {i}, given)
          BY <2>2, <4>1, <4>4, ListsMore
        <5> QED
          BY <4>2, <4>3, <5>1
    <3>2. CASE ~(kind = "usage" /\ InRange(s.day, range))
      <4>1. S(i) = S(i - 1)
        <5>1. ~(content[i].kind = "usage" /\ InRange(DayAt(content, i), range))
          BY <2>8, <3>2
        <5> QED
          BY <2>0, <5>1, ReadStep DEF S
      <4> QED
        BY <2>2, <2>3c, <3>2, <4>1
    <3> QED
      BY <3>1, <3>2
  <2>10. run[i].model = ModelAfter(content, i)
    BY <2>3b, <2>6, <2>7
  <2>11. run[i].user = UserAfter(content, i)
    <3>1. CASE kind \in {"initiator", "event"}
      BY <2>3a, <2>5, <3>1, Zenon
    <3>2. CASE kind = "usage"
      <4>1. UserAfter(content, i) = FALSE /\ run[i].user \in BOOLEAN
        BY <1>1, <2>1, <2>5, <3>2, StateFields
      <4> QED
        BY <2>3a, <3>2, <4>1
    <3>3. CASE kind \notin {"initiator", "event", "usage"}
      <4>1. UserAfter(content, i) = s.user
        BY <2>5, <3>3
      <4> QED
        BY <2>3a, <3>3, <4>1, Zenon
    <3> QED
      BY <3>1, <3>2, <3>3
  <2>12. run[i].day = DayAt(content, i)
    BY <2>3, <2>4
  <2> QED
    BY <2>1, <2>9, <2>10, <2>11, <2>12
<1> HIDE DEF T
<1>5. 0..n \subseteq T
  BY <1>2, <1>3, <1>4, UpTo
<1>6. n \in T
  BY <1>2, <1>5
<1> QED
  BY <1>1, <1>6 DEF T, S, n, given

(* The parser of events reads the calls of the events in the window. *)
LEMMA TelemetryRecordsAre ==
    ASSUME NEW content \in Logs, NEW range, Numbered(content, "event")
    PROVE  Lists(ParseTelemetryRecords(content, range),
                 Read(content, Len(content), "event", range), EventCalls(content))
<1> DEFINE run == TelemetryStates(content, range)
           n == Len(content)
           given == EventCalls(content)
           S(i) == Read(content, i, "event", range)
           T == {i \in 0..n : /\ run[i].day = DayAt(content, i)
                              /\ Lists(run[i].calls, S(i), given)}
<1>1. /\ ParseTelemetryRecords(content, range) = run[n].calls
      /\ run[0] = Start
      /\ \A i \in 1..n : run[i] = TelemetryLine(content, range, run[i - 1], i)
      /\ \A i \in 0..n : run[i] \in ParserStates
  BY TelemetryStatesAre
<1>2. n \in Nat
  BY LogOfLines
<1> HIDE DEF run, given, S
<1>3. 0 \in T
  <2>1. DayAt(content, 0) = Undated /\ S(0) = {}
    BY <1>2 DEF DayAt, S, Read, Kinds
  <2>2. Lists(<<>>, S(0), given)
    BY <2>1, ListsNone
  <2> QED
    BY <1>1, <1>2, <2>1, <2>2, StartState
<1>4. ASSUME NEW i \in 1..n, i - 1 \in T PROVE i \in T
  <2> DEFINE s == run[i - 1]
             line == content[i]
  <2>0. i \in 1..Len(content)
    BY DEF n
  <2>1. s \in ParserStates /\ run[i] = TelemetryLine(content, range, s, i) /\ i \in 0..n
    BY <1>1, <1>2
  <2>2. s.day = DayAt(content, i - 1) /\ Lists(s.calls, S(i - 1), given)
    BY <1>4
  <2> HIDE DEF s
  <2>3. /\ run[i].day = IF line.kind = "stamp" THEN line.day ELSE s.day
        /\ run[i].calls = IF line.kind = "event" /\ InRange(s.day, range)
                          THEN Append(s.calls, Record(line.call, line.model, s.day, line.user))
                          ELSE s.calls
    BY <2>0, <2>1, TelemetryLineIs
  <2>4. DayAt(content, i) = IF line.kind = "stamp" THEN line.day ELSE s.day
    BY <2>0, <2>2, DayStep
  <2>5. Lists(run[i].calls, S(i), given)
    <3>1. CASE line.kind = "event" /\ InRange(s.day, range)
      <4>1. /\ given[i] = Record(line.call, line.model, s.day, line.user)
            /\ given[i] \in CallRecords /\ given[i].call = line.call
        BY <2>0, <2>4, <3>1, EventCallIs DEF given, EventCalls
      <4>2. run[i].calls = Append(s.calls, given[i])
        BY <2>3, <3>1, <4>1
      <4>3. S(i) = S(i - 1) \cup {i}
        BY <2>0, <2>4, <3>1, ReadStep DEF S
      <4>4. ASSUME NEW j \in S(i - 1) PROVE given[j].call < given[i].call
        <5>1. j \in 1..Len(content) /\ content[j].kind = "event" /\ j < i
          BY <1>2, <2>0 DEF S, Read, Kinds, n
        <5>2. given[j].call = content[j].call
          BY <5>1, EventCallIs DEF given
        <5> QED
          BY <2>0, <3>1, <4>1, <5>1, <5>2 DEF Numbered
      <4> QED
        <5>1. Lists(Append(s.calls, given[i]), S(i - 1) \cup {i}, given)
          BY <2>2, <4>1, <4>4, ListsMore
        <5> QED
          BY <4>2, <4>3, <5>1
    <3>2. CASE ~(line.kind = "event" /\ InRange(s.day, range))
      <4>1. S(i) = S(i - 1)
        BY <2>0, <2>4, <3>2, ReadStep DEF S
      <4> QED
        BY <2>2, <2>3, <3>2, <4>1
    <3> QED
      BY <3>1, <3>2
  <2> QED
    BY <2>1, <2>3, <2>4, <2>5
<1> HIDE DEF T
<1>5. 0..n \subseteq T
  BY <1>2, <1>3, <1>4, UpTo
<1>6. n \in T
  BY <1>2, <1>5
<1> QED
  BY <1>1, <1>6 DEF T, S, n, given

Reported(content) ==
    IF Kinds(content, Len(content), {"event"}) = {} THEN Kinds(content, Len(content), {"usage"})
    ELSE Kinds(content, Len(content), {"event"})

LoggedCalls(content) ==
    IF Kinds(content, Len(content), {"event"}) = {} THEN UsageCalls(content)
    ELSE EventCalls(content)

OfOneKind(content) ==
    \/ Kinds(content, Len(content), {"event"}) = {}
    \/ Kinds(content, Len(content), {"usage"}) = {}

LEMMA ListsNothing ==
    ASSUME NEW calls, NEW S, NEW given, Lists(calls, S, given)
    PROVE  /\ calls = <<>> <=> S = {}
           /\ calls = <<>> => \A other : Lists(calls, {}, other)
<1>1. calls \in Seq(CallRecords) /\ Len(calls) \in Nat
  BY LenProperties DEF Lists
<1>2. ASSUME S = {} PROVE calls = <<>>
  <2>1. 1 \notin 1..Len(calls)
    BY <1>2 DEF Lists
  <2>2. Len(calls) = 0
    BY <1>1, <2>1
  <2> QED
    BY <1>1, <2>2, EmptySeq
<1>3. ASSUME calls = <<>> PROVE S = {} /\ \A other : Lists(calls, {}, other)
  <2>1. Len(calls) = 0
    BY <1>3, EmptySeq
  <2>2. S = {}
    BY <2>1 DEF Lists
  <2> QED
    BY <1>3, <2>2, ListsNone
<1> QED
  BY <1>2, <1>3

(* What ParseLogContent reads of any log that is read whole, or through a  *)
(* window if the log is of one kind and a model comes first: the calls in  *)
(* the window of its events, or of its lines with tokens if it has none,   *)
(* each once, in their order, with the day, model and initiator of its     *)
(* place.                                                                  *)
THEOREM LogIsRead ==
    ASSUME NEW content \in Logs, NEW range,
           Numbered(content, "usage"), Numbered(content, "event"),
           range = WholeLog \/ (NamedFirst(content) /\ OfOneKind(content))
    PROVE  Lists(ParseLogContent(content, range),
                 {j \in Reported(content) : InRange(DayAt(content, j), range)},
                 LoggedCalls(content))
<1> DEFINE n == Len(content)
           tel == ParseTelemetryRecords(content, range)
           old == ParseRegexRecords(content, range)
           events == Kinds(content, n, {"event"})
           usages == Kinds(content, n, {"usage"})
           E == Read(content, n, "event", range)
           U == Read(content, n, "usage", range)
           S == {j \in Reported(content) : InRange(DayAt(content, j), range)}
<1>1. Lists(tel, E, EventCalls(content)) /\ Lists(old, U, UsageCalls(content))
  BY TelemetryRecordsAre, RegexRecordsAre
<1>2. ParseLogContent(content, range) = IF tel # <<>> THEN tel ELSE old
  BY DEF ParseLogContent
<1>3. /\ events = {} => E = {} /\ S = U /\ LoggedCalls(content) = UsageCalls(content)
      /\ events # {} => S = E /\ LoggedCalls(content) = EventCalls(content)
      /\ usages = {} => U = {}
  BY DEF Read, Reported, LoggedCalls
<1>4. range = WholeLog => E = events
  BY DEF Read, InRange, WholeLog
<1>5. range = WholeLog \/ events = {} \/ usages = {}
  BY DEF OfOneKind
<1> HIDE DEF tel, old, events, usages, E, U, S
<1>6. tel = <<>> <=> E = {}
  BY <1>1, ListsNothing
<1>7. Lists(IF tel # <<>> THEN tel ELSE old, S, LoggedCalls(content))
  <2>1. CASE events = {}
    BY <1>1, <1>3, <1>6, <2>1
  <2>2. CASE events # {} /\ E # {}
    BY <1>1, <1>3, <1>6, <2>2
  <2>3. CASE events # {} /\ E = {}
    <3>1. U = {}
      BY <1>3, <1>4, <1>5, <2>3
    <3>2. old = <<>> /\ \A other : Lists(old, {}, other)
      BY <1>1, <3>1, ListsNothing
    <3> QED
      BY <1>3, <1>6, <2>3, <3>2
  <2> QED
    BY <2>1, <2>2, <2>3
<1> QED
  BY <1>2, <1>7 DEF S

LEMMA ParseType ==
    ASSUME NEW content \in Logs, NEW range
    PROVE  ParseLogContent(content, range) \in Seq(CallRecords)
<1>1. Len(content) \in 0..Len(content)
  BY LogOfLines
<1>2. ParseTelemetryRecords(content, range) \in Seq(CallRecords)
  <2> DEFINE s == TelemetryStates(content, range)[Len(content)]
  <2>1. s \in ParserStates /\ ParseTelemetryRecords(content, range) = s.calls
    BY <1>1, TelemetryStatesAre
  <2> QED
    BY <2>1, StateFields
<1>3. ParseRegexRecords(content, range) \in Seq(CallRecords)
  <2> DEFINE s == RegexStates(content, range)[Len(content)]
  <2>1. s \in ParserStates /\ ParseRegexRecords(content, range) = s.calls
    BY <1>1, RegexStatesAre
  <2> QED
    BY <2>1, StateFields
<1> QED
  BY <1>2, <1>3 DEF ParseLogContent

(* The call of a line that is reported, field by field. *)
LEMMA LoggedCallIs ==
    ASSUME NEW content \in Logs, NEW i \in Reported(content)
    PROVE  /\ i \in 1..Len(content) /\ content[i].kind \in {"usage", "event"}
           /\ content[i].kind = "usage" => Kinds(content, Len(content), {"event"}) = {}
           /\ LoggedCalls(content)[i] \in CallRecords
           /\ LoggedCalls(content)[i].call = content[i].call
           /\ LoggedCalls(content)[i].day = DayAt(content, i)
           /\ LoggedCalls(content)[i].model =
                 IF content[i].kind = "usage" THEN ModelAfter(content, i) ELSE content[i].model
           /\ content[i].kind = "usage" =>
                 (LoggedCalls(content)[i].turn <=> UserAfter(content, i - 1))
           /\ content[i].kind = "event" =>
                 (LoggedCalls(content)[i].turn <=> content[i].user)
<1>1. CASE Kinds(content, Len(content), {"event"}) = {}
  <2>1. i \in 1..Len(content) /\ content[i].kind = "usage"
        /\ LoggedCalls(content) = UsageCalls(content)
    BY <1>1 DEF Reported, Kinds, LoggedCalls
  <2> QED
    BY <1>1, <2>1, UsageCallIs
<1>2. CASE Kinds(content, Len(content), {"event"}) # {}
  <2>1. i \in 1..Len(content) /\ content[i].kind = "event"
        /\ LoggedCalls(content) = EventCalls(content)
    BY <1>2 DEF Reported, Kinds, LoggedCalls
  <2> QED
    BY <2>1, EventCallIs
<1> QED
  BY <1>1, <1>2
-----------------------------------------------------------------------------
(* A log that grows *)

LEMMA AppendLine ==
    ASSUME NEW content \in Logs, NEW line \in LogLines
    PROVE  /\ Append(content, line) \in Logs
           /\ Len(Append(content, line)) = Len(content) + 1
           /\ \A i \in 1..Len(content) : Append(content, line)[i] = content[i]
           /\ Append(content, line)[Len(content) + 1] = line
BY AppendProperties, LenProperties DEF Logs

LEMMA AheadGrows ==
    ASSUME NEW content \in Logs, NEW line \in LogLines, NEW i \in 1..Len(content)
    PROVE  /\ Ahead(content, i) \subseteq Ahead(Append(content, line), i)
           /\ \A j \in Ahead(Append(content, line), i) :
                 \/ j \in Ahead(content, i)
                 \/ j = Len(content) + 1 /\ j <= i + ModelBlockEnd - 1
<1> DEFINE more == Append(content, line)
<1>1. /\ Len(content) \in Nat /\ Len(more) = Len(content) + 1
      /\ \A j \in 1..Len(content) : more[j] = content[j]
      /\ BlockEnd \in Nat /\ ModelBlockEnd \in Nat
  BY AppendLine, LogOfLines, ParsingAssumption
<1> HIDE DEF more
<1>2. ASSUME NEW j \in Ahead(content, i) PROVE j \in Ahead(more, i)
  <2>1. j \in i + BlockEnd .. i + ModelBlockEnd - 1 /\ j <= Len(content)
        /\ content[j].kind \in {"model", "event"}
    BY DEF Ahead
  <2>2. j \in 1..Len(content)
    BY <1>1, <2>1
  <2> QED
    BY <1>1, <2>1, <2>2 DEF Ahead
<1>3. ASSUME NEW j \in Ahead(more, i), j # Len(content) + 1 PROVE j \in Ahead(content, i)
  <2>1. j \in i + BlockEnd .. i + ModelBlockEnd - 1 /\ j <= Len(content) + 1
        /\ more[j].kind \in {"model", "event"}
    BY <1>1 DEF Ahead
  <2>2. j \in 1..Len(content)
    BY <1>1, <1>3, <2>1
  <2> QED
    BY <1>1, <2>1, <2>2 DEF Ahead
<1>4. \A j \in Ahead(more, i) : j <= i + ModelBlockEnd - 1
  BY <1>1 DEF Ahead
<1> QED
  BY <1>2, <1>3, <1>4 DEF more

(* A model that was known for a line stays known, and the same, when the   *)
(* log grows; and so does the day.                                         *)
LEMMA KnownStays ==
    ASSUME NEW content \in Logs, NEW line \in LogLines, NEW i \in 1..Len(content)
    PROVE  /\ DayAt(Append(content, line), i) = DayAt(content, i)
           /\ ModelAfter(content, i) # UnknownModel =>
                 ModelAfter(Append(content, line), i) = ModelAfter(content, i)
<1> DEFINE more == Append(content, line)
           n == Len(content)
<1>1. /\ n \in Nat /\ more \in Logs /\ Len(more) = n + 1
      /\ \A j \in 1..n : more[j] = content[j]
  BY AppendLine, LogOfLines
<1>2. \A kinds : Kinds(more, i, kinds) = Kinds(content, i, kinds)
  <2>1. \A j \in 1..i : j \in 1..n
    BY <1>1
  <2> HIDE DEF more
  <2> QED
    BY <1>1, <2>1 DEF Kinds
<1>3. i \in Nat /\ i \in 0..n /\ \A j \in 1..i : j \in 1..n
  BY <1>1
<1> HIDE DEF more
<1>4. \A kinds : Kinds(content, i, kinds) # {} =>
                     more[LastOf(Kinds(content, i, kinds))] =
                         content[LastOf(Kinds(content, i, kinds))]
  <2> TAKE kinds
  <2>1. Kinds(content, i, kinds) \in SUBSET (0..i) /\ Kinds(content, i, kinds) \subseteq 1..i
    BY DEF Kinds
  <2> HIDE DEF n
  <2> QED
    BY <1>1, <1>3, <2>1, LastOfIs
<1>5. DayAt(more, i) = DayAt(content, i)
  BY <1>2, <1>4 DEF DayAt
<1>6. ASSUME ModelAfter(content, i) # UnknownModel
      PROVE  ModelAfter(more, i) = ModelAfter(content, i)
  <2> DEFINE named == Kinds(content, i, {"model", "event"})
             F == Finders(content, i)
             G == Finders(more, i)
             u == FirstOf(F)
             v == FirstOf(G)
  <2>1. named # {} \/ F # {}
    BY <1>3, <1>6, ModelKnown
  <2>2. CASE named # {}
    BY <1>2, <1>4, <2>2 DEF ModelAfter
  <2>3. CASE named = {} /\ F # {}
    <3>1. /\ F = {w \in 1..i : content[w].kind = "usage" /\ Ahead(content, w) # {}}
          /\ G = {w \in 1..i : content[w].kind = "usage" /\ Ahead(more, w) # {}}
      BY <1>1, <1>3 DEF Finders
    <3>2. \A w \in 1..i : Ahead(content, w) \subseteq Ahead(more, w)
      BY <1>3, AheadGrows DEF more
    <3> HIDE DEF F, G
    <3>3. F \subseteq G /\ F \in SUBSET Nat /\ G \in SUBSET Nat /\ G # {}
      BY <2>3, <3>1, <3>2
    <3>4. u \in F /\ \A w \in F : u <= w
      BY <2>3, <3>3, FirstOfIs
    <3>5. v \in G /\ \A w \in G : v <= w
      BY <3>3, FirstOfIs
    <3> HIDE DEF u, v
    <3>6. /\ u \in 1..n /\ v \in 1..n /\ v <= u
          /\ Ahead(content, u) # {} /\ Ahead(more, v) # {}
      BY <1>3, <3>1, <3>3, <3>4, <3>5
    <3> DEFINE a == Ahead(content, u)
               b == Ahead(more, v)
               j == FirstOf(a)
               k == FirstOf(b)
    <3>7. a \in SUBSET Nat /\ b \in SUBSET Nat /\ a \subseteq 1..n
      <4>1. v \in 1..Len(more)
        BY <1>1, <3>6
      <4> QED
        BY <1>1, <3>6, <4>1, AheadIsOfLog
    <3>8. j \in u + BlockEnd .. u + ModelBlockEnd - 1 /\ j \in 1..n
          /\ content[j].kind \in {"model", "event"} /\ j \in a /\ \A x \in a : j <= x
      <4>1. a = {x \in u + BlockEnd .. u + ModelBlockEnd - 1 :
                    x <= n /\ content[x].kind \in {"model", "event"}}
        BY DEF Ahead
      <4> HIDE DEF a
      <4>2. j \in a /\ \A x \in a : j <= x
        BY <3>6, <3>7, FirstOfIs DEF a
      <4> HIDE DEF j
      <4> QED
        BY <3>7, <4>1, <4>2
    <3>9. v = u
      <4>1. SUFFICES ASSUME v < u PROVE FALSE
        BY <3>6, <1>1
      <4>2. Ahead(content, v) = {}
        <5>1. v \notin F
          BY <1>1, <3>4, <3>6, <4>1
        <5> QED
          BY <3>1, <3>3, <3>5, <5>1
      <4>3. n + 1 <= v + ModelBlockEnd - 1
        <5>1. PICK x \in Ahead(more, v) : TRUE
          BY <3>6
        <5> QED
          BY <3>6, <4>2, <5>1, AheadGrows DEF more, n
      <4>4. j \in v + BlockEnd .. v + ModelBlockEnd - 1
        <5>1. BlockEnd \in Nat /\ ModelBlockEnd \in Nat
          BY ParsingAssumption
        <5> HIDE DEF j
        <5> QED
          BY <1>1, <3>6, <3>8, <4>1, <4>3, <5>1
      <4>5. j \in Ahead(content, v)
        <5>1. j <= Len(content)
          BY <1>1, <3>8
        <5> HIDE DEF j
        <5> QED
          BY <3>8, <4>4, <5>1 DEF Ahead
      <4> QED
        BY <4>2, <4>5
    <3>10. k \in b /\ \A x \in b : k <= x
      <4> HIDE DEF b
      <4> QED
        BY <3>6, <3>7, FirstOfIs DEF b
    <3>11. a \subseteq b /\ \A x \in b : x \in a \/ x = n + 1
      BY <3>6, <3>9, AheadGrows DEF more, n
    <3>12. k = j
      <4> HIDE DEF a, b, j, k
      <4>1. k <= j /\ j \in Nat /\ k \in Nat
        BY <3>7, <3>8, <3>10, <3>11
      <4>2. k \in a
        BY <1>1, <3>8, <3>10, <3>11, <4>1
      <4> QED
        BY <3>8, <4>1, <4>2
    <3>13. ModelAfter(content, i) = content[j].model /\ ModelAfter(more, i) = more[k].model
      BY <1>2, <2>3, <3>3 DEF ModelAfter, F, G, u, v
    <3> HIDE DEF j, k
    <3> QED
      BY <1>1, <3>8, <3>12, <3>13
  <2> QED
    BY <2>1, <2>2, <2>3
<1> QED
  BY <1>5, <1>6 DEF more
-----------------------------------------------------------------------------
(* ReattributeUserTurns *)

LEMMA MultiplierType ==
    ASSUME NEW r \in CallRecords
    PROVE  Multiplier(r) \in Nat
BY CallFields, MultipliersAreNumbers DEF Multiplier

(* Sequences that differ from calls in their turns only. *)
Alike(calls) ==
    {out \in Seq(CallRecords) :
        /\ Len(out) = Len(calls)
        /\ \A p \in 1..Len(calls) : /\ out[p].call = calls[p].call
                                    /\ out[p].model = calls[p].model
                                    /\ out[p].day = calls[p].day}

LEMMA AlikeIs ==
    ASSUME NEW calls \in Seq(CallRecords), NEW out \in Alike(calls)
    PROVE  /\ out \in Seq(CallRecords) /\ Len(calls) \in Nat /\ Len(out) = Len(calls)
           /\ DOMAIN out = 1..Len(calls)
           /\ \A p \in 1..Len(calls) :
                 /\ out[p] \in CallRecords /\ calls[p] \in CallRecords
                 /\ out[p].call = calls[p].call
                 /\ out[p].model = calls[p].model
                 /\ out[p].day = calls[p].day
                 /\ Multiplier(out[p]) = Multiplier(calls[p])
<1>1. out \in Seq(CallRecords) /\ Len(out) = Len(calls) /\ Len(calls) \in Nat
  BY LenProperties DEF Alike
<1>2. \A p \in 1..Len(calls) : out[p] \in CallRecords /\ calls[p] \in CallRecords
  BY <1>1, ElementOfSeq
<1> QED
  BY <1>1, <1>2, LenProperties DEF Alike, Multiplier

Payers(calls, i) == {j \in 1..Len(calls) : j > i /\ Multiplier(calls[j]) > 0}

LEMMA ReattributeStep ==
    ASSUME NEW calls \in Seq(CallRecords), NEW out \in Alike(calls), NEW i \in 1..Len(calls)
    PROVE  LET moves == out[i].turn /\ Multiplier(calls[i]) = 0 /\ Payers(calls, i) # {}
               next  == FirstOf(Payers(calls, i))
           IN  /\ Reattribute(out, i) \in Alike(calls)
               /\ ~moves => Reattribute(out, i) = out
               /\ moves => /\ ~Reattribute(out, i)[i].turn
                           /\ Reattribute(out, i)[next].turn
                           /\ \A p \in 1..Len(calls) :
                                 p # i /\ p # next => Reattribute(out, i)[p] = out[p]
<1> DEFINE payers == Payers(calls, i)
           moves == out[i].turn /\ Multiplier(calls[i]) = 0 /\ payers # {}
           next == FirstOf(payers)
           n == Len(calls)
<1>1. /\ out \in Seq(CallRecords) /\ n \in Nat /\ Len(out) = n /\ DOMAIN out = 1..n
      /\ \A p \in 1..n : /\ out[p] \in CallRecords
                         /\ Multiplier(out[p]) = Multiplier(calls[p])
  BY AlikeIs
<1>2. payers = {j \in DOMAIN out : j > i /\ Multiplier(out[j]) > 0}
  BY <1>1 DEF Payers
<1>3. Reattribute(out, i) =
          IF ~moves THEN out ELSE [out EXCEPT ![i].turn = FALSE, ![next].turn = TRUE]
  BY <1>1, <1>2 DEF Reattribute, FirstOf
<1>4. ASSUME payers # {} PROVE next \in 1..n /\ next > i
  <2>1. payers \in SUBSET Nat /\ payers \subseteq {j \in 1..n : j > i}
    BY <1>1 DEF Payers
  <2> HIDE DEF payers
  <2> QED
    BY <1>4, <2>1, FirstOfIs
<1> HIDE DEF payers, next, n
<1>5. CASE ~moves
  BY <1>3, <1>5 DEF payers, next
<1>6. CASE moves
  <2> DEFINE one == [out EXCEPT ![i].turn = FALSE]
             two == [one EXCEPT ![next].turn = TRUE]
  <2>1. Reattribute(out, i) = two
    BY <1>3, <1>6
  <2>2. next \in 1..n /\ next # i /\ i \in 1..n
    BY <1>1, <1>4, <1>6 DEF n
  <2>3. /\ DOMAIN one = 1..n /\ one[i] = [out[i] EXCEPT !.turn = FALSE]
        /\ \A p \in 1..n : p # i => one[p] = out[p]
    BY <1>1, <2>2
  <2> HIDE DEF one
  <2>4. /\ DOMAIN two = 1..n /\ two[next] = [out[next] EXCEPT !.turn = TRUE]
        /\ two[i] = [out[i] EXCEPT !.turn = FALSE]
        /\ two = [p \in 1..n |-> two[p]]
        /\ \A p \in 1..n : p # i /\ p # next => two[p] = out[p]
    BY <2>2, <2>3
  <2> HIDE DEF two
  <2>5. ASSUME NEW r \in CallRecords, NEW b \in BOOLEAN
        PROVE  /\ [r EXCEPT !.turn = b] \in CallRecords
               /\ [r EXCEPT !.turn = b].call = r.call
               /\ [r EXCEPT !.turn = b].model = r.model
               /\ [r EXCEPT !.turn = b].day = r.day
               /\ [r EXCEPT !.turn = b].turn = b
    BY DEF CallRecords
  <2>6. \A p \in 1..n : two[p] \in CallRecords /\ two[p].call = out[p].call
                        /\ two[p].model = out[p].model /\ two[p].day = out[p].day
    <3> TAKE p \in 1..n
    <3>1. CASE p = i
      BY <1>1, <2>2, <2>4, <2>5, <3>1
    <3>2. CASE p = next
      BY <1>1, <2>2, <2>4, <2>5, <3>2
    <3>3. CASE p # i /\ p # next
      BY <1>1, <2>4, <3>3
    <3> QED
      BY <3>1, <3>2, <3>3
  <2>7. two \in Seq(CallRecords) /\ Len(two) = n
    BY <1>1, <2>4, <2>6, IsASeq
  <2>8. two \in Alike(calls)
    BY <2>6, <2>7 DEF Alike, n
  <2>9. ~two[i].turn /\ two[next].turn
    BY <1>1, <2>2, <2>4, <2>5
  <2> QED
    BY <1>6, <2>1, <2>4, <2>8, <2>9 DEF payers, next, n
<1> QED
  BY <1>5, <1>6

AttributeStates(calls) ==
    CHOOSE after : after = [i \in 0..Len(calls) |->
                               IF i = 0 THEN calls ELSE Reattribute(after[i - 1], i)]

LEMMA AttributeStatesAre ==
    ASSUME NEW calls \in Seq(CallRecords)
    PROVE  LET run == AttributeStates(calls)
           IN  /\ ReattributeUserTurns(calls) = run[Len(calls)]
               /\ run[0] = calls
               /\ \A i \in 1..Len(calls) : run[i] = Reattribute(run[i - 1], i)
               /\ \A i \in 0..Len(calls) : run[i] \in Alike(calls)
<1> DEFINE n == Len(calls)
           V == Alike(calls)
           Body(after) == [i \in 0..n |-> IF i = 0 THEN calls ELSE Reattribute(after[i - 1], i)]
           run == AttributeStates(calls)
           step == [p \in (1..n) \X V |-> Reattribute(p[2], p[1])]
<1>1. n \in Nat /\ calls \in V
  BY LenProperties DEF Alike
<1>2. \A i \in 1..n : \A s \in V : Reattribute(s, i) \in V
  BY ReattributeStep
<1> HIDE DEF V
<1>3. step \in Steps(1..n, V)
  BY <1>2 DEF Steps
<1>4. \A i \in 1..n : \A s \in V : step[<<i, s>>] = Reattribute(s, i)
  OBVIOUS
<1> HIDE DEF step, n
<1>5. PICK g : IsLoop(g, n, V, calls, step)
  BY <1>1, <1>3, LoopExists
<1>6. g = Body(g)
  <2>1. \A i \in 1..n : g[i] = Reattribute(g[i - 1], i)
    <3> TAKE i \in 1..n
    <3>1. i - 1 \in 0..n
      BY <1>1
    <3>2. g[i - 1] \in V
      BY <1>5, <3>1 DEF IsLoop
    <3> QED
      BY <1>4, <1>5, <3>2 DEF IsLoop
  <2>2. \A i \in 0..n : i = 0 \/ i \in 1..n
    BY <1>1
  <2>3. \A i \in 0..n : g[i] = IF i = 0 THEN calls ELSE Reattribute(g[i - 1], i)
    BY <1>5, <2>1, <2>2 DEF IsLoop
  <2> QED
    BY <1>5, <2>3 DEF IsLoop
<1>7. run = Body(run)
  BY <1>6 DEF AttributeStates, n
<1>8. run[0] = calls /\ \A i \in 1..n : run[i] = Reattribute(run[i - 1], i)
  <2> HIDE DEF run
  <2>1. 0 \in 0..n /\ \A i \in 1..n : i \in 0..n /\ i # 0
    BY <1>1
  <2> QED
    BY <1>7, <2>1
<1> HIDE DEF run
<1>9. 0..n \subseteq {i \in 0..n : run[i] \in V}
  <2> DEFINE T == {i \in 0..n : run[i] \in V}
  <2>1. 0 \in T
    BY <1>1, <1>8
  <2>2. \A i \in 1..n : i - 1 \in T => i \in T
    BY <1>1, <1>2, <1>8
  <2> HIDE DEF T
  <2>3. 0..n \subseteq T
    BY <1>1, <2>1, <2>2, UpTo
  <2> QED
    BY <2>3 DEF T
<1>10. ReattributeUserTurns(calls) = run[n]
  BY DEF ReattributeUserTurns, AttributeStates, run, n
<1> QED
  BY <1>8, <1>9, <1>10 DEF run, n, V

(* After i steps a call that costs something has its own turn, or that of  *)
(* a call right before it that cost nothing and has been looked at.        *)
Charged(calls, p, i) ==
    \E q \in 1..p : /\ calls[q].turn /\ (q = p \/ q <= i)
                    /\ \A k \in q .. p - 1 : Multiplier(calls[k]) = 0

AttributedTo(calls, out, i) ==
    \A p \in 1..Len(calls) :
        /\ Multiplier(calls[p]) > 0 => (out[p].turn <=> Charged(calls, p, i))
        /\ Multiplier(calls[p]) = 0 /\ p > i => (out[p].turn <=> calls[p].turn)

LEMMA AttributionStep ==
    ASSUME NEW calls \in Seq(CallRecords), NEW out \in Alike(calls), NEW i \in 1..Len(calls),
           AttributedTo(calls, out, i - 1)
    PROVE  AttributedTo(calls, Reattribute(out, i), i)
<1> DEFINE n == Len(calls)
           M(p) == Multiplier(calls[p])
           Turn(p) == calls[p].turn
           new == Reattribute(out, i)
           payers == Payers(calls, i)
           next == FirstOf(payers)
           moves == out[i].turn /\ M(i) = 0 /\ payers # {}
<1>1. n \in Nat /\ i \in 1..n /\ \A p \in 1..n : M(p) \in Nat
  <2>1. Len(calls) \in Nat /\ \A p \in 1..Len(calls) : calls[p] \in CallRecords
    BY LenProperties, ElementOfSeq
  <2> QED
    BY <2>1, MultiplierType
<1>2. /\ ~moves => new = out
      /\ moves => /\ ~new[i].turn /\ new[next].turn
                  /\ \A p \in 1..n : p # i /\ p # next => new[p] = out[p]
  BY ReattributeStep
<1>3. \A p, m : Charged(calls, p, m) <=>
                    \E q \in 1..p : Turn(q) /\ (q = p \/ q <= m) /\ \A k \in q .. p - 1 : M(k) = 0
  BY DEF Charged
<1>4. \A p \in 1..n : /\ M(p) > 0 => (out[p].turn <=> Charged(calls, p, i - 1))
                      /\ M(p) = 0 /\ p > i - 1 => (out[p].turn <=> Turn(p))
  BY DEF AttributedTo
<1>5. payers # {} => /\ next \in 1..n /\ next > i /\ M(next) > 0
                     /\ \A p \in 1..n : p > i /\ M(p) > 0 => next <= p
  <2>1. payers = {j \in 1..n : j > i /\ M(j) > 0} /\ payers \in SUBSET Nat
    BY <1>1 DEF Payers
  <2> HIDE DEF payers
  <2> QED
    BY <2>1, FirstOfIs
<1>6. \A p \in 1..n : p > i /\ M(p) > 0 => payers # {}
  BY DEF Payers
<1> HIDE DEF n, M, Turn, new, payers, next
(* Looking at i changes what is charged to p only if the turn of i moves   *)
(* to p.                                                                   *)
<1>7. ASSUME NEW p \in 1..n
      PROVE  Charged(calls, p, i) <=>
                 \/ Charged(calls, p, i - 1)
                 \/ i < p /\ Turn(i) /\ \A k \in i .. p - 1 : M(k) = 0
  <2>1. \A q \in 1..p : (q = p \/ q <= i) <=> ((q = p \/ q <= i - 1) \/ (q = i /\ i < p))
    BY <1>1
  <2>2. i < p => i \in 1..p
    BY <1>1
  <2> QED
    BY <1>3, <2>1, <2>2
<1>8. ASSUME NEW p \in 1..n, M(p) > 0
      PROVE  new[p].turn <=> Charged(calls, p, i)
  <2>1. out[p].turn <=> Charged(calls, p, i - 1)
    BY <1>4, <1>8
  <2>2. CASE moves
    <3>1. next \in 1..n /\ i < next /\ M(next) > 0 /\ M(i) = 0 /\ Turn(i) /\ p # i
      BY <1>1, <1>4, <1>5, <1>8, <2>2
    <3>2. CASE p = next
      <4>1. \A k \in i .. next - 1 : M(k) = 0
        <5> TAKE k \in i .. next - 1
        <5>1. k \in 1..n /\ k < next /\ (k = i \/ k > i)
          BY <1>1, <3>1
        <5>2. M(k) \in Nat /\ (k > i /\ M(k) > 0 => next <= k)
          BY <1>1, <1>5, <2>2, <5>1
        <5> QED
          BY <1>1, <3>1, <5>1, <5>2
      <4> QED
        BY <1>2, <1>7, <2>2, <3>1, <3>2, <4>1
    <3>3. CASE p # next
      <4>1. new[p].turn <=> out[p].turn
        BY <1>2, <2>2, <3>1, <3>3
      <4>2. i < p => \E k \in i .. p - 1 : M(k) # 0
        <5>1. SUFFICES ASSUME i < p PROVE next \in i .. p - 1 /\ M(next) # 0
          OBVIOUS
        <5>2. next <= p
          BY <1>5, <1>8, <2>2, <5>1
        <5> QED
          BY <1>1, <3>1, <3>3, <5>2
      <4> QED
        BY <1>7, <2>1, <4>1, <4>2
    <3> QED
      BY <3>2, <3>3
  <2>3. CASE ~moves
    <3>1. new[p].turn <=> Charged(calls, p, i - 1)
      BY <1>2, <2>1, <2>3
    <3>2. ~(i < p /\ Turn(i) /\ \A k \in i .. p - 1 : M(k) = 0)
      <4>1. SUFFICES ASSUME i < p, Turn(i), \A k \in i .. p - 1 : M(k) = 0 PROVE FALSE
        OBVIOUS
      <4>2. i \in i .. p - 1
        BY <1>1, <4>1
      <4>3. M(i) = 0 /\ payers # {}
        BY <1>1, <1>6, <1>8, <4>1, <4>2
      <4>4. out[i].turn
        BY <1>1, <1>4, <4>1, <4>3
      <4> QED
        BY <2>3, <4>3, <4>4
    <3> QED
      BY <1>7, <3>1, <3>2
  <2> QED
    BY <2>2, <2>3
<1>9. ASSUME NEW p \in 1..n, M(p) = 0, p > i
      PROVE  new[p].turn <=> Turn(p)
  <2>1. p > i - 1 /\ p # i
    BY <1>1, <1>9
  <2>2. out[p].turn <=> Turn(p)
    BY <1>4, <1>9, <2>1
  <2>3. moves => p # next
    BY <1>1, <1>5, <1>9
  <2> QED
    BY <1>2, <2>1, <2>2, <2>3
<1> QED
  BY <1>8, <1>9 DEF AttributedTo, n, M, Turn, new

(* ReattributeUserTurns, of any calls: a user turn is charged to the first *)
(* call from there on that costs something; nothing else changes.          *)
THEOREM TurnsMoveOn ==
    ASSUME NEW calls \in Seq(CallRecords)
    PROVE  /\ ReattributeUserTurns(calls) \in Alike(calls)
           /\ \A p \in 1..Len(calls) :
                 Multiplier(calls[p]) > 0 =>
                     (ReattributeUserTurns(calls)[p].turn <=>
                         \E q \in 1..p : /\ calls[q].turn
                                         /\ \A k \in q .. p - 1 : Multiplier(calls[k]) = 0)
<1> DEFINE n == Len(calls)
           run == AttributeStates(calls)
           T == {i \in 0..n : AttributedTo(calls, run[i], i)}
<1>1. /\ ReattributeUserTurns(calls) = run[n]
      /\ run[0] = calls
      /\ \A i \in 1..n : run[i] = Reattribute(run[i - 1], i)
      /\ \A i \in 0..n : run[i] \in Alike(calls)
  BY AttributeStatesAre
<1>2. n \in Nat
  BY LenProperties
<1> HIDE DEF run
<1>3. 0 \in T
  <2>1. ASSUME NEW p \in 1..n PROVE Charged(calls, p, 0) <=> calls[p].turn
    <3>1. \A q \in 1..p : q = p \/ q <= 0 <=> q = p
      BY <1>2
    <3>2. p \in 1..p /\ \A k \in p .. p - 1 : FALSE
      BY <1>2
    <3> QED
      BY <3>1, <3>2 DEF Charged
  <2> QED
    BY <1>1, <1>2, <2>1 DEF AttributedTo
<1>4. ASSUME NEW i \in 1..n, i - 1 \in T PROVE i \in T
  <2>1. i - 1 \in 0..n /\ i \in 0..n
    BY <1>2
  <2>2. run[i - 1] \in Alike(calls) /\ AttributedTo(calls, run[i - 1], i - 1)
    BY <1>1, <1>4, <2>1
  <2>3. AttributedTo(calls, Reattribute(run[i - 1], i), i)
    BY <2>2, AttributionStep
  <2> QED
    BY <1>1, <2>1, <2>3
<1> HIDE DEF T
<1>5. n \in T
  <2>1. 0..n \subseteq T
    BY <1>2, <1>3, <1>4, UpTo
  <2> QED
    BY <1>2, <2>1
<1>6. AttributedTo(calls, run[n], n)
  BY <1>5 DEF T
<1>7. ASSUME NEW p \in 1..n
      PROVE  Charged(calls, p, n) <=>
                 \E q \in 1..p : /\ calls[q].turn
                                 /\ \A k \in q .. p - 1 : Multiplier(calls[k]) = 0
  <2>1. \A q \in 1..p : q <= n
    BY <1>2
  <2> QED
    BY <2>1 DEF Charged
<1>8. n \in 0..n
  BY <1>2
<1> QED
  BY <1>1, <1>6, <1>7, <1>8 DEF AttributedTo
-----------------------------------------------------------------------------
(* Rows *)

StoreStates(table, records) ==
    CHOOSE after : after = [i \in 0..Len(records) |->
                               IF i = 0 THEN table ELSE InsertRecord(after[i - 1], records[i])]

LEMMA StoreStatesAre ==
    ASSUME NEW table \in SUBSET CallRecords, NEW records \in Seq(CallRecords)
    PROVE  LET run == StoreStates(table, records)
           IN  /\ StoreRecords(table, records) = run[Len(records)]
               /\ run[0] = table
               /\ \A i \in 1..Len(records) : run[i] = InsertRecord(run[i - 1], records[i])
               /\ \A i \in 0..Len(records) : run[i] \in SUBSET CallRecords
<1> DEFINE n == Len(records)
           V == SUBSET CallRecords
           Body(after) == [i \in 0..n |-> IF i = 0 THEN table
                                          ELSE InsertRecord(after[i - 1], records[i])]
           run == StoreStates(table, records)
           step == [p \in (1..n) \X V |-> InsertRecord(p[2], records[p[1]])]
<1>1. n \in Nat /\ table \in V
  BY LenProperties
<1>2. \A i \in 1..n : \A s \in V : InsertRecord(s, records[i]) \in V
  <2>1. \A i \in 1..n : records[i] \in CallRecords
    BY <1>1, ElementOfSeq
  <2> QED
    BY <2>1 DEF InsertRecord
<1> HIDE DEF V
<1>3. step \in Steps(1..n, V)
  BY <1>2 DEF Steps
<1>4. \A i \in 1..n : \A s \in V : step[<<i, s>>] = InsertRecord(s, records[i])
  OBVIOUS
<1> HIDE DEF step, n
<1>5. PICK g : IsLoop(g, n, V, table, step)
  BY <1>1, <1>3, LoopExists
<1>6. g = Body(g)
  <2>1. \A i \in 1..n : g[i] = InsertRecord(g[i - 1], records[i])
    <3> TAKE i \in 1..n
    <3>1. i - 1 \in 0..n
      BY <1>1
    <3>2. g[i - 1] \in V
      BY <1>5, <3>1 DEF IsLoop
    <3> QED
      BY <1>4, <1>5, <3>2 DEF IsLoop
  <2>2. \A i \in 0..n : i = 0 \/ i \in 1..n
    BY <1>1
  <2>3. \A i \in 0..n : g[i] = IF i = 0 THEN table ELSE InsertRecord(g[i - 1], records[i])
    BY <1>5, <2>1, <2>2 DEF IsLoop
  <2> QED
    BY <1>5, <2>3 DEF IsLoop
<1>7. run = Body(run)
  BY <1>6 DEF StoreStates, n
<1>8. run[0] = table /\ \A i \in 1..n : run[i] = InsertRecord(run[i - 1], records[i])
  <2> HIDE DEF run
  <2>1. 0 \in 0..n /\ \A i \in 1..n : i \in 0..n /\ i # 0
    BY <1>1
  <2> QED
    BY <1>7, <2>1
<1> HIDE DEF run
<1>9. 0..n \subseteq {i \in 0..n : run[i] \in V}
  <2> DEFINE T == {i \in 0..n : run[i] \in V}
  <2>1. 0 \in T
    BY <1>1, <1>8
  <2>2. \A i \in 1..n : i - 1 \in T => i \in T
    BY <1>1, <1>2, <1>8
  <2> HIDE DEF T
  <2>3. 0..n \subseteq T
    BY <1>1, <2>1, <2>2, UpTo
  <2> QED
    BY <2>3 DEF T
<1>10. StoreRecords(table, records) = run[n]
  BY DEF StoreRecords, StoreStates, run, n
<1> QED
  BY <1>8, <1>9, <1>10 DEF run, n, V

KeysDiffer(table) == \A one, two \in table : Key(one) = Key(two) => one = two

(* What an insertion of several records leaves: old rows and the records,  *)
(* one row of a key, and every record, if no other one has its key.        *)
LEMMA StoredAre ==
    ASSUME NEW table \in SUBSET CallRecords, NEW records \in Seq(CallRecords)
    PROVE  /\ StoreRecords(table, records) \in SUBSET CallRecords
           /\ \A row \in StoreRecords(table, records) :
                 row \in table \/ \E p \in 1..Len(records) : row = records[p]
           /\ KeysDiffer(table) => KeysDiffer(StoreRecords(table, records))
           /\ (\A p, q \in 1..Len(records) : p < q => Key(records[p]) # Key(records[q])) =>
                 \A p \in 1..Len(records) : records[p] \in StoreRecords(table, records)
<1> DEFINE n == Len(records)
           run == StoreStates(table, records)
           Distinct == \A p, q \in 1..n : p < q => Key(records[p]) # Key(records[q])
           T == {i \in 0..n :
                    /\ \A row \in run[i] : row \in table \/ \E p \in 1..n : row = records[p]
                    /\ KeysDiffer(table) => KeysDiffer(run[i])
                    /\ Distinct => \A p \in 1..i : records[p] \in run[i]}
<1>1. /\ StoreRecords(table, records) = run[n]
      /\ run[0] = table
      /\ \A i \in 1..n : run[i] = InsertRecord(run[i - 1], records[i])
      /\ \A i \in 0..n : run[i] \in SUBSET CallRecords
  BY StoreStatesAre
<1>2. n \in Nat
  BY LenProperties
<1> HIDE DEF run
<1>3. 0 \in T
  BY <1>1, <1>2
<1>4. ASSUME NEW i \in 1..n, i - 1 \in T PROVE i \in T
  <2> DEFINE before == run[i - 1]
             r == records[i]
  <2>1. i \in 0..n /\ run[i] = {row \in before : Key(row) # Key(r)} \cup {r}
    BY <1>1, <1>2 DEF InsertRecord
  <2>2. /\ \A row \in before : row \in table \/ \E p \in 1..n : row = records[p]
        /\ KeysDiffer(table) => KeysDiffer(before)
        /\ Distinct => \A p \in 1 .. i - 1 : records[p] \in before
    BY <1>4
  <2> HIDE DEF before
  <2>3. ASSUME NEW row \in run[i] PROVE row \in table \/ \E p \in 1..n : row = records[p]
    BY <2>1, <2>2
  <2>4. ASSUME KeysDiffer(table) PROVE KeysDiffer(run[i])
    BY <2>1, <2>2, <2>4 DEF KeysDiffer
  <2>5. ASSUME Distinct, NEW p \in 1..i PROVE records[p] \in run[i]
    <3>1. CASE p = i
      BY <2>1, <3>1
    <3>2. CASE p # i
      <4>1. p \in 1 .. i - 1 /\ p \in 1..n /\ p < i
        BY <1>2, <3>2
      <4> QED
        BY <2>1, <2>2, <2>5, <4>1
    <3> QED
      BY <3>1, <3>2
  <2> HIDE DEF Distinct
  <2> QED
    BY <2>1, <2>3, <2>4, <2>5
<1> HIDE DEF T
<1>5. n \in T
  <2>1. 0..n \subseteq T
    BY <1>2, <1>3, <1>4, UpTo
  <2> QED
    BY <1>2, <2>1
<1>6. n \in 0..n
  BY <1>2
<1> QED
  BY <1>1, <1>5, <1>6 DEF T

(* Two rows of a call and a day do not differ in that one has no model. *)
NoUnknownTwin(table) ==
    \A one, two \in table :
        one.call = two.call /\ one.day = two.day =>
            (one.model = UnknownModel <=> two.model = UnknownModel)

LEMMA CleanupIs ==
    ASSUME NEW table
    PROVE  /\ CleanupUnknownDuplicates(table) \subseteq table
           /\ NoUnknownTwin(CleanupUnknownDuplicates(table))
           /\ \A row \in table :
                 \/ row \in CleanupUnknownDuplicates(table)
                 \/ /\ row.model = UnknownModel
                    /\ \E twin \in table : /\ twin.call = row.call /\ twin.day = row.day
                                           /\ twin.model # UnknownModel
<1> DEFINE clean == CleanupUnknownDuplicates(table)
           Lost(row) == /\ row.model = UnknownModel
                        /\ \E twin \in table : /\ twin.call = row.call /\ twin.day = row.day
                                               /\ twin.model # UnknownModel
<1>1. clean = {row \in table : ~Lost(row)}
  BY DEF CleanupUnknownDuplicates
<1> HIDE DEF clean
<1>2. ASSUME NEW one \in clean, NEW two \in clean, one.call = two.call, one.day = two.day,
             one.model = UnknownModel, two.model # UnknownModel
      PROVE  FALSE
  BY <1>1, <1>2
<1>3. NoUnknownTwin(clean)
  BY <1>2 DEF NoUnknownTwin
<1> QED
  BY <1>1, <1>3 DEF clean
-----------------------------------------------------------------------------
(* The invariant *)

(* Calls are numbered as they come; only a line with tokens may repeat the *)
(* number of an event before it.                                           *)
Ordered(content) ==
    \A i, j \in 1..Len(content) :
        /\ i < j
        /\ content[i].kind \in {"usage", "event"} /\ content[j].kind \in {"usage", "event"}
        => /\ content[i].call <= content[j].call
           /\ content[j].kind = "event" \/ content[i].kind = content[j].kind =>
                  content[i].call < content[j].call

(* What Copilot writes in this format. *)
LogInv ==
    /\ format \in {"usage", "telemetry", "both"}
    /\ log \in Logs
    /\ Len(log) >= 1 /\ log[1].kind = "stamp"
    /\ Ordered(log)
    /\ format = "usage" => Kinds(log, Len(log), {"event"}) = {}
    /\ format = "telemetry" => Kinds(log, Len(log), {"usage"}) = {}

ModelOf(content, i) ==
    IF content[i].kind = "usage" THEN ModelAfter(content, i) ELSE content[i].model

(* A row is of a call that the log reports, of its day, and of its model   *)
(* or of none; one of a line with tokens is of no event's call.            *)
IsRowOf(row, content, i) ==
    /\ content[i].kind \in {"usage", "event"}
    /\ row.call = content[i].call
    /\ row.day = DayAt(content, i)
    /\ row.model \in {UnknownModel, ModelOf(content, i)}
    /\ content[i].kind = "usage" =>
           \A e \in 1..Len(content) : content[e].kind = "event" => content[e].call # row.call

(* The log was only read whole, or it is one whose windows agree with it. *)
ReadInOneWay == ~ranged \/ (format # "both" /\ ModelComesFirst /\ ~tailed)

(* Whatever was read, rows differ in their keys; if it was read in one way, *)
(* each is of a line.                                                      *)
RowsInv ==
    /\ stored \in SUBSET CallRecords
    /\ KeysDiffer(stored)
    /\ NoUnknownTwin(stored)
    /\ ReadInOneWay => \A row \in stored : \E i \in 1..Len(log) : IsRowOf(row, log, i)

(* After a sync of the whole log every call has a row, however it was read *)
(* before.                                                                 *)
ParsingInv ==
    /\ ranged \in BOOLEAN /\ tailed \in BOOLEAN /\ fresh \in BOOLEAN
    /\ LogInv
    /\ RowsInv
    /\ fresh => \A i \in Reported(log) : \E row \in stored : row.call = log[i].call
    /\ TurnsAreCharged
-----------------------------------------------------------------------------
(* The log grows *)

LEMMA ReportsAre ==
    ASSUME log \in Logs
    PROVE  /\ Reports = {i \in 1..Len(log) : log[i].kind \in {"usage", "event"}}
           /\ \A kind : Lines(kind) = {i \in 1..Len(log) : log[i].kind = kind}
           /\ \A i \in Reports : log[i].call \in Nat
<1>1. DOMAIN log = 1..Len(log)
  BY LogOfLines
<1>2. \A kind : Lines(kind) = {i \in 1..Len(log) : log[i].kind = kind}
  BY <1>1 DEF Lines
<1>3. Reports = {i \in 1..Len(log) : log[i].kind \in {"usage", "event"}}
  BY <1>2 DEF Reports
<1>4. ASSUME NEW i \in Reports PROVE log[i].call \in Nat
  BY <1>3, LogOfLines, LineFields
<1> QED
  BY <1>2, <1>3, <1>4

LEMMA LastCallIs ==
    ASSUME log \in Logs, Ordered(log)
    PROVE  LastCall \in Nat /\ \A i \in Reports : log[i].call <= LastCall
<1>1. CASE Reports = {}
  BY <1>1 DEF LastCall
<1>2. CASE Reports # {}
  <2> DEFINE last == LastOf(Reports)
  <2>1. Len(log) \in Nat /\ Reports \in SUBSET (0..Len(log))
    BY ReportsAre, LogOfLines
  <2>2. last \in Reports /\ \A i \in Reports : i <= last
    BY <1>2, <2>1, LastOfIs
  <2>3. LastCall = log[last].call
    BY <1>2 DEF LastCall, LastOf
  <2> HIDE DEF last
  <2>4. ASSUME NEW i \in Reports PROVE log[i].call <= log[last].call
    <3>1. i \in 1..Len(log) /\ last \in 1..Len(log) /\ (i = last \/ i < last)
          /\ log[i].kind \in {"usage", "event"} /\ log[last].kind \in {"usage", "event"}
          /\ log[i].call \in Nat
      BY <2>1, <2>2, ReportsAre
    <3> QED
      BY <3>1 DEF Ordered
  <2> QED
    BY <2>2, <2>3, <2>4, ReportsAre
<1> QED
  BY <1>1, <1>2

LEMMA LastStampIs ==
    ASSUME log \in Logs, Len(log) >= 1, log[1].kind = "stamp"
    PROVE  LastStamp \in Nat
<1> DEFINE last == LastOf(Lines("stamp"))
<1>1. Lines("stamp") = {i \in 1..Len(log) : log[i].kind = "stamp"} /\ Len(log) \in Nat
  BY ReportsAre, LogOfLines
<1>2. Lines("stamp") # {} /\ Lines("stamp") \in SUBSET (0..Len(log))
  BY <1>1
<1>3. last \in Lines("stamp")
  BY <1>1, <1>2, LastOfIs
<1>4. LastStamp = log[last].day
  BY DEF LastStamp, LastOf
<1> HIDE DEF last
<1> QED
  BY <1>1, <1>3, <1>4, LogOfLines, LineFields

(* A line with tokens repeats at most the number of an event; that of an   *)
(* event is new.                                                           *)
Follows(line, content) ==
    /\ \A i \in 1..Len(content) :
           content[i].kind \in {"usage", "event"} =>
               /\ line.kind = "event" => content[i].call < line.call
               /\ line.kind = "usage" => content[i].call <= line.call
    /\ line.kind = "usage" =>
           \A i \in 1..Len(content) : content[i].kind = "usage" => content[i].call < line.call

LEMMA OrderGrows ==
    ASSUME NEW content \in Logs, NEW line \in LogLines, Ordered(content), Follows(line, content)
    PROVE  Ordered(Append(content, line))
<1> DEFINE more == Append(content, line)
           n == Len(content)
<1>1. /\ n \in Nat /\ Len(more) = n + 1 /\ more[n + 1] = line
      /\ \A i \in 1..n : more[i] = content[i]
  BY AppendLine, LogOfLines
<1> HIDE DEF more, n
<1>2. SUFFICES
        ASSUME NEW i \in 1..Len(more), NEW j \in 1..Len(more), i < j,
               more[i].kind \in {"usage", "event"}, more[j].kind \in {"usage", "event"}
        PROVE  /\ more[i].call <= more[j].call
               /\ more[j].kind = "event" \/ more[i].kind = more[j].kind =>
                      more[i].call < more[j].call
  BY DEF Ordered, more
<1>3. i \in 1..n /\ more[i] = content[i]
  BY <1>1, <1>2
<1>4. CASE j \in 1..n
  BY <1>1, <1>2, <1>3, <1>4 DEF Ordered, n
<1>5. CASE j = n + 1
  <2>1. more[j] = line /\ content[i].call \in Nat /\ line.call \in Nat
    BY <1>1, <1>2, <1>3, <1>5, LogOfLines, LineFields DEF n
  <2>2. /\ line.kind = "event" => content[i].call < line.call
        /\ line.kind = "usage" => content[i].call <= line.call
        /\ line.kind = "usage" /\ content[i].kind = "usage" => content[i].call < line.call
    BY <1>2, <1>3 DEF Follows, n
  <2> QED
    BY <1>2, <1>3, <2>1, <2>2
<1> QED
  BY <1>1, <1>2, <1>4, <1>5

LEMMA OrderedIsNumbered ==
    ASSUME NEW content, Ordered(content)
    PROVE  Numbered(content, "usage") /\ Numbered(content, "event")
BY DEF Ordered, Numbered

LEMMA RowsStay ==
    ASSUME NEW content \in Logs, NEW line \in LogLines, Follows(line, content),
           NEW row, NEW i \in 1..Len(content), IsRowOf(row, content, i)
    PROVE  IsRowOf(row, Append(content, line), i)
<1> DEFINE more == Append(content, line)
           n == Len(content)
<1>1. /\ n \in Nat /\ Len(more) = n + 1 /\ more[n + 1] = line
      /\ \A k \in 1..n : more[k] = content[k]
  BY AppendLine, LogOfLines
<1>2. more[i] = content[i] /\ content[i].call \in Nat
  BY <1>1, LogOfLines, LineFields DEF IsRowOf
<1>3. DayAt(more, i) = DayAt(content, i)
  BY KnownStays
<1>4. row.model \in {UnknownModel, ModelOf(more, i)}
  <2>1. ModelAfter(content, i) # UnknownModel => ModelAfter(more, i) = ModelAfter(content, i)
    BY KnownStays
  <2> HIDE DEF more
  <2> QED
    BY <1>2, <2>1 DEF IsRowOf, ModelOf
<1>5. ASSUME content[i].kind = "usage", NEW e \in 1..Len(more), more[e].kind = "event"
      PROVE  more[e].call # row.call
  <2> HIDE DEF more
  <2>1. row.call = content[i].call /\ content[i].kind \in {"usage", "event"}
    BY DEF IsRowOf
  <2>2. CASE e \in 1..n
    BY <1>1, <1>5, <2>2 DEF IsRowOf, n
  <2>3. CASE e = n + 1
    <3>1. line.kind = "event" /\ more[e] = line
      BY <1>1, <1>5, <2>3
    <3>2. content[i].call < line.call /\ line.call \in Nat
      BY <2>1, <3>1, LineFields DEF Follows
    <3> QED
      BY <1>2, <2>1, <3>1, <3>2
  <2> QED
    BY <1>1, <2>2, <2>3
<1> HIDE DEF more
<1>6. /\ more[i].kind \in {"usage", "event"} /\ row.call = more[i].call
      /\ row.day = DayAt(more, i)
  BY <1>2, <1>3 DEF IsRowOf
<1> QED
  BY <1>2, <1>4, <1>5, <1>6 DEF IsRowOf, more

LEMMA NamedFirstIs ==
    /\ log \in Logs => (ModelComesFirst <=> NamedFirst(log))
    /\ log' \in Logs => (ModelComesFirst' <=> NamedFirst(log'))
<1>1. ASSUME NEW content \in Logs
      PROVE  NamedFirst(content) <=>
                \A i \in {k \in DOMAIN content : content[k].kind = "usage"} :
                    \E j \in {k \in DOMAIN content : content[k].kind = "model"}
                                \cup {k \in DOMAIN content : content[k].kind = "event"} : j < i
  <2>1. DOMAIN content = 1..Len(content) /\ Len(content) \in Nat
    BY LogOfLines
  <2>2. ASSUME NEW i \in 1..Len(content)
        PROVE  Kinds(content, i - 1, {"model", "event"}) # {} <=>
                  \E j \in {k \in DOMAIN content : content[k].kind = "model"}
                              \cup {k \in DOMAIN content : content[k].kind = "event"} : j < i
    BY <2>1 DEF Kinds
  <2> QED
    BY <2>1, <2>2 DEF NamedFirst
<1>2. log \in Logs => (ModelComesFirst <=> NamedFirst(log))
  BY <1>1 DEF ModelComesFirst, Lines
<1>3. log' \in Logs => (ModelComesFirst' <=> NamedFirst(log'))
  BY <1>1 DEF ModelComesFirst, Lines
<1> QED
  BY <1>2, <1>3

LEMMA NamedFirstBefore ==
    ASSUME NEW content \in Logs, NEW line \in LogLines, NamedFirst(Append(content, line))
    PROVE  NamedFirst(content)
<1> DEFINE more == Append(content, line)
<1>1. /\ Len(content) \in Nat /\ Len(more) = Len(content) + 1
      /\ \A i \in 1..Len(content) : more[i] = content[i]
  BY AppendLine, LogOfLines
<1> HIDE DEF more
<1>2. SUFFICES ASSUME NEW i \in 1..Len(content), content[i].kind = "usage"
               PROVE  Kinds(content, i - 1, {"model", "event"}) # {}
  BY DEF NamedFirst
<1>3. i \in 1..Len(more) /\ more[i].kind = "usage"
  BY <1>1, <1>2
<1>4. Kinds(more, i - 1, {"model", "event"}) # {}
  BY <1>3 DEF NamedFirst, more
<1>5. PICK j \in 1 .. i - 1 : more[j].kind \in {"model", "event"}
  BY <1>4 DEF Kinds
<1>6. j \in 1 .. i - 1 /\ content[j].kind \in {"model", "event"}
  BY <1>1, <1>5
<1> QED
  BY <1>6 DEF Kinds

LEMMA KindsGrow ==
    ASSUME NEW content \in Logs, NEW line \in LogLines, NEW kind, line.kind # kind,
           Kinds(content, Len(content), {kind}) = {}
    PROVE  Kinds(Append(content, line), Len(Append(content, line)), {kind}) = {}
<1>1. /\ Len(content) \in Nat /\ Len(Append(content, line)) = Len(content) + 1
      /\ \A i \in 1..Len(content) : Append(content, line)[i] = content[i]
      /\ Append(content, line)[Len(content) + 1] = line
  BY AppendLine, LogOfLines
<1> QED
  BY <1>1 DEF Kinds

LEMMA FirstLineStays ==
    ASSUME NEW content \in Logs, NEW line \in LogLines, Len(content) >= 1
    PROVE  Len(Append(content, line)) >= 1 /\ Append(content, line)[1] = content[1]
<1>1. Len(content) \in Nat /\ 1 \in 1..Len(content)
  BY LogOfLines
<1> QED
  BY <1>1, AppendLine

LEMMA WriteLineKeeps ==
    ASSUME ParsingInv, NEW line \in LogLines, WriteLine(line), Follows(line, log),
           line.kind = "usage" => format # "telemetry",
           line.kind = "event" => format # "usage"
    PROVE  ParsingInv'
<1>1. /\ log \in Logs /\ Ordered(log) /\ log' = Append(log, line)
      /\ format' = format /\ stored' = stored /\ ranged' = ranged /\ tailed' = tailed
      /\ fresh' = FALSE
      /\ Len(log) >= 1
  BY DEF ParsingInv, LogInv, WriteLine, ghosts
<1>2. LogInv'
  <2>1. log' \in Logs /\ Ordered(log')
    BY <1>1, AppendLine, OrderGrows
  <2>2. Len(log') >= 1 /\ log'[1] = log[1]
    BY <1>1, FirstLineStays
  <2>3. format = "usage" => Kinds(log', Len(log'), {"event"}) = {}
    BY <1>1, KindsGrow DEF ParsingInv, LogInv
  <2>4. format = "telemetry" => Kinds(log', Len(log'), {"usage"}) = {}
    BY <1>1, KindsGrow DEF ParsingInv, LogInv
  <2> QED
    BY <1>1, <2>1, <2>2, <2>3, <2>4 DEF ParsingInv, LogInv
<1>3. ReadInOneWay' => ReadInOneWay
  <2>1. ModelComesFirst' => ModelComesFirst
    BY <1>1, <1>2, NamedFirstIs, NamedFirstBefore DEF LogInv
  <2> QED
    BY <1>1, <2>1 DEF ReadInOneWay
<1>4. RowsInv'
  <2>1. ASSUME ReadInOneWay', NEW row \in stored
        PROVE  \E i \in 1..Len(log') : IsRowOf(row, log', i)
    <3>1. PICK i \in 1..Len(log) : IsRowOf(row, log, i)
      BY <1>3, <2>1 DEF ParsingInv, RowsInv
    <3>2. IsRowOf(row, log', i)
      BY <1>1, <3>1, RowsStay
    <3>3. i \in 1..Len(log')
      BY <1>1, AppendLine, LogOfLines
    <3> QED
      BY <3>2, <3>3
  <2> QED
    BY <1>1, <2>1 DEF ParsingInv, RowsInv
<1>5. TurnsAreCharged'
  BY <1>1 DEF TurnsAreCharged
<1> QED
  BY <1>1, <1>2, <1>4, <1>5 DEF ParsingInv

(* Each line that Copilot writes is one. *)
LEMMA WritesKeep ==
    ASSUME ParsingInv,
           \/ WriteStamp \/ WriteUsage
           \/ \E user \in BOOLEAN : WriteInitiator(user)
           \/ \E model \in LoggedModels : WriteModel(model)
           \/ \E model \in LoggedModels, user \in BOOLEAN : WriteEvent(model, user)
    PROVE  ParsingInv'
<1>1. log \in Logs /\ Ordered(log) /\ Len(log) >= 1 /\ log[1].kind = "stamp"
  BY DEF ParsingInv, LogInv
<1>2. /\ LastCall \in Nat
      /\ \A i \in 1..Len(log) : log[i].kind \in {"usage", "event"} =>
            log[i].call <= LastCall /\ log[i].call \in Nat
  BY <1>1, LastCallIs, ReportsAre
<1>3. CASE WriteStamp
  <2> DEFINE line == [kind |-> "stamp", day |-> LastStamp + 1]
  <2>1. LastStamp + 1 \in Nat \ {Undated}
    BY <1>1, LastStampIs DEF Undated
  <2>2. line \in LogLines /\ line.kind = "stamp"
    BY <2>1 DEF LogLines
  <2>3. WriteLine(line)
    BY <1>3 DEF WriteStamp
  <2> HIDE DEF line
  <2>4. Follows(line, log)
    BY <2>2 DEF Follows
  <2> QED
    BY <2>2, <2>3, <2>4, WriteLineKeeps
<1>4. ASSUME NEW user \in BOOLEAN, WriteInitiator(user) PROVE ParsingInv'
  <2> DEFINE line == [kind |-> "initiator", user |-> user]
  <2>1. line \in LogLines /\ line.kind = "initiator"
    BY DEF LogLines
  <2>2. WriteLine(line)
    BY <1>4 DEF WriteInitiator
  <2> HIDE DEF line
  <2>3. Follows(line, log)
    BY <2>1 DEF Follows
  <2> QED
    BY <2>1, <2>2, <2>3, WriteLineKeeps
<1>5. ASSUME NEW model \in LoggedModels, WriteModel(model) PROVE ParsingInv'
  <2> DEFINE line == [kind |-> "model", model |-> model]
  <2>1. line \in LogLines /\ line.kind = "model"
    BY DEF LogLines
  <2>2. WriteLine(line)
    BY <1>5 DEF WriteModel
  <2> HIDE DEF line
  <2>3. Follows(line, log)
    BY <2>1 DEF Follows
  <2> QED
    BY <2>1, <2>2, <2>3, WriteLineKeeps
<1>6. CASE WriteUsage
  <2>1. PICK call \in {LastCall, LastCall + 1} :
            /\ \A i \in Lines("usage") : log[i].call < call
            /\ WriteLine([kind |-> "usage", call |-> call])
    BY <1>6 DEF WriteUsage
  <2> DEFINE line == [kind |-> "usage", call |-> call]
  <2>2. call \in Nat /\ LastCall <= call
    BY <1>2
  <2>3. line \in LogLines /\ line.kind = "usage" /\ line.call = call
    BY <2>2 DEF LogLines
  <2>4. WriteLine(line) /\ format # "telemetry"
    BY <1>6, <2>1 DEF WriteUsage
  <2>5. \A i \in 1..Len(log) : log[i].kind = "usage" => log[i].call < call
    BY <1>1, <2>1, ReportsAre
  <2> HIDE DEF line
  <2>6. Follows(line, log)
    BY <1>2, <2>2, <2>3, <2>5 DEF Follows
  <2> QED
    BY <2>3, <2>4, <2>6, WriteLineKeeps
<1>7. ASSUME NEW model \in LoggedModels, NEW user \in BOOLEAN, WriteEvent(model, user)
      PROVE  ParsingInv'
  <2> DEFINE line == [kind |-> "event", call |-> LastCall + 1, model |-> model, user |-> user]
  <2>1. line \in LogLines /\ line.kind = "event" /\ line.call = LastCall + 1
    BY <1>2 DEF LogLines
  <2>2. WriteLine(line) /\ format # "usage"
    BY <1>7 DEF WriteEvent
  <2> HIDE DEF line
  <2>3. Follows(line, log)
    BY <1>2, <2>1 DEF Follows
  <2> QED
    BY <2>1, <2>2, <2>3, WriteLineKeeps
<1> QED
  BY <1>3, <1>4, <1>5, <1>6, <1>7
-----------------------------------------------------------------------------
(* A sync *)

LEMMA FileType ==
    ASSUME log \in Logs, NEW range
    PROVE  ParseLogFileInRange(range) \in Seq(CallRecords)
<1> DEFINE tail == SubSeq(log, Len(log) - TailLines + 1, Len(log))
<1>1. ParseLogContent(log, range) \in Seq(CallRecords)
  BY ParseType
<1>2. ASSUME TailUsed(range) PROVE ParseLogContent(tail, range) \in Seq(CallRecords)
  <2>1. Len(log) \in Nat /\ TailLines \in Nat /\ Len(log) > TailLines
    BY <1>2, LogOfLines, ParsingAssumption DEF TailUsed
  <2>2. log \in Seq(LogLines)
    BY DEF Logs
  <2>3. \A k \in Len(log) - TailLines + 1 .. Len(log) : log[k] \in LogLines
    BY <2>1, LogOfLines
  <2>4. tail \in Logs
    BY <2>1, <2>2, <2>3, SubSeqProperties DEF Logs
  <2> HIDE DEF tail
  <2> QED
    BY <2>4, ParseType
<1> HIDE DEF tail
<1> QED
  BY <1>1, <1>2 DEF ParseLogFileInRange, tail

LEMMA FileIs ==
    ASSUME LogInv, NEW range,
           range = WholeLog \/ (format # "both" /\ NamedFirst(log) /\ ~TailUsed(range))
    PROVE  Lists(ParseLogFileInRange(range),
                 {j \in Reported(log) : InRange(DayAt(log, j), range)}, LoggedCalls(log))
<1>1. log \in Logs /\ Numbered(log, "usage") /\ Numbered(log, "event")
  BY OrderedIsNumbered DEF LogInv
<1>2. ~TailUsed(range)
  BY DEF TailUsed
<1>3. ParseLogFileInRange(range) = ParseLogContent(log, range)
  BY <1>2 DEF ParseLogFileInRange
<1>4. format # "both" => OfOneKind(log)
  BY DEF LogInv, OfOneKind
<1> QED
  BY <1>1, <1>3, <1>4, LogIsRead

(* All of a log is in the window of all time. *)
LEMMA AllInRange ==
    ASSUME NEW content
    PROVE  {j \in Reported(content) : InRange(DayAt(content, j), WholeLog)} = Reported(content)
BY DEF InRange, WholeLog, Undated

(* Two rows of a call are of the same line. *)
LEMMA SameLine ==
    ASSUME NEW content \in Logs, Ordered(content),
           NEW i \in 1..Len(content), NEW j \in 1..Len(content),
           NEW one, NEW two, IsRowOf(one, content, i), IsRowOf(two, content, j),
           one.call = two.call
    PROVE  i = j
<1>1. /\ Len(content) \in Nat
      /\ content[i].kind \in {"usage", "event"} /\ content[j].kind \in {"usage", "event"}
      /\ content[i].call = content[j].call
  BY LogOfLines DEF IsRowOf
<1>2. content[i].call \in Nat /\ content[j].call \in Nat
  BY <1>1, LogOfLines, LineFields
<1>3. CASE content[i].kind = content[j].kind
  <2>1. i < j => content[i].call < content[j].call
    BY <1>1, <1>3 DEF Ordered
  <2>2. j < i => content[j].call < content[i].call
    BY <1>1, <1>3 DEF Ordered
  <2> QED
    BY <1>1, <1>2, <2>1, <2>2
<1>4. CASE content[i].kind = "usage" /\ content[j].kind = "event"
  BY <1>1, <1>4 DEF IsRowOf
<1>5. CASE content[i].kind = "event" /\ content[j].kind = "usage"
  BY <1>1, <1>5 DEF IsRowOf
<1> QED
  BY <1>1, <1>3, <1>4, <1>5

LEMMA OneRow ==
    ASSUME NEW content \in Logs, Ordered(content),
           NEW table, KeysDiffer(table), NoUnknownTwin(table),
           \A row \in table : \E i \in 1..Len(content) : IsRowOf(row, content, i),
           NEW one \in table, NEW two \in table, one.call = two.call
    PROVE  one = two
<1>1. PICK i \in 1..Len(content) : IsRowOf(one, content, i)
  OBVIOUS
<1>2. PICK j \in 1..Len(content) : IsRowOf(two, content, j)
  OBVIOUS
<1>3. i = j
  BY <1>1, <1>2, SameLine
<1>4. /\ one.day = two.day
      /\ one.model \in {UnknownModel, ModelOf(content, i)}
      /\ two.model \in {UnknownModel, ModelOf(content, i)}
  BY <1>1, <1>2, <1>3 DEF IsRowOf
<1>5. one.model = UnknownModel <=> two.model = UnknownModel
  BY <1>4 DEF NoUnknownTwin
<1>6. one.model = two.model
  BY <1>4, <1>5
<1> QED
  BY <1>4, <1>6 DEF KeysDiffer, Key

LEMMA RecordIsRow ==
    ASSUME NEW content \in Logs, NEW i \in Reported(content), NEW r,
           r.call = LoggedCalls(content)[i].call, r.model = LoggedCalls(content)[i].model,
           r.day = LoggedCalls(content)[i].day
    PROVE  IsRowOf(r, content, i) /\ r.model = ModelOf(content, i)
<1>1. /\ content[i].kind \in {"usage", "event"}
      /\ content[i].kind = "usage" => Kinds(content, Len(content), {"event"}) = {}
      /\ r.call = content[i].call /\ r.day = DayAt(content, i)
      /\ r.model = ModelOf(content, i)
  BY LoggedCallIs DEF ModelOf
<1>2. content[i].kind = "usage" => \A e \in 1..Len(content) : content[e].kind # "event"
  BY <1>1 DEF Kinds
<1> QED
  BY <1>1, <1>2 DEF IsRowOf

(* What a sync puts together. *)
Turned(range) == ReattributeUserTurns(ParseLogFileInRange(range))
Table(range) == StoreRecords(stored, Turned(range))

LEMMA TurnedIs ==
    ASSUME log \in Logs, NEW range
    PROVE  /\ Turned(range) \in Seq(CallRecords)
           /\ Len(ParseLogFileInRange(range)) \in Nat
           /\ Len(Turned(range)) = Len(ParseLogFileInRange(range))
           /\ \A p \in 1..Len(ParseLogFileInRange(range)) :
                 /\ Turned(range)[p] \in CallRecords
                 /\ ParseLogFileInRange(range)[p] \in CallRecords
                 /\ Turned(range)[p].call = ParseLogFileInRange(range)[p].call
                 /\ Turned(range)[p].model = ParseLogFileInRange(range)[p].model
                 /\ Turned(range)[p].day = ParseLogFileInRange(range)[p].day
                 /\ Multiplier(Turned(range)[p]) = Multiplier(ParseLogFileInRange(range)[p])
<1>1. ParseLogFileInRange(range) \in Seq(CallRecords)
  BY FileType
<1>2. Turned(range) \in Alike(ParseLogFileInRange(range))
  BY <1>1, TurnsMoveOn DEF Turned
<1> QED
  BY <1>1, <1>2, AlikeIs

LEMMA TableIs ==
    ASSUME LogInv, stored \in SUBSET CallRecords, KeysDiffer(stored), NEW range
    PROVE  /\ Table(range) \in SUBSET CallRecords /\ KeysDiffer(Table(range))
           /\ \A row \in Table(range) :
                 row \in stored \/ \E p \in 1..Len(Turned(range)) : row = Turned(range)[p]
           /\ (\A p, q \in 1..Len(Turned(range)) :
                  p < q => Turned(range)[p].call < Turned(range)[q].call) =>
                \A p \in 1..Len(Turned(range)) : Turned(range)[p] \in Table(range)
<1> DEFINE out == Turned(range)
<1>1. out \in Seq(CallRecords) /\ Len(out) \in Nat
      /\ \A p \in 1..Len(out) : out[p] \in CallRecords
  BY TurnedIs DEF LogInv
<1>2. Table(range) = StoreRecords(stored, out)
  BY DEF Table
<1> HIDE DEF out
<1>3. ASSUME \A p, q \in 1..Len(out) : p < q => out[p].call < out[q].call
      PROVE  \A p, q \in 1..Len(out) : p < q => Key(out[p]) # Key(out[q])
  <2>1. \A p \in 1..Len(out) : out[p].call \in Nat
    BY <1>1, CallFields
  <2>2. ASSUME NEW p \in 1..Len(out), NEW q \in 1..Len(out), p < q
        PROVE  out[p].call # out[q].call
    BY <1>3, <2>1, <2>2
  <2> QED
    BY <2>2 DEF Key
<1>4. /\ StoreRecords(stored, out) \in SUBSET CallRecords
      /\ KeysDiffer(StoreRecords(stored, out))
      /\ \A row \in StoreRecords(stored, out) :
            row \in stored \/ \E p \in 1..Len(out) : row = out[p]
  BY <1>1, StoredAre
<1>5. (\A p, q \in 1..Len(out) : p < q => Key(out[p]) # Key(out[q])) =>
         \A p \in 1..Len(out) : out[p] \in StoreRecords(stored, out)
  BY <1>1, StoredAre
<1> QED
  BY <1>2, <1>3, <1>4, <1>5 DEF out

(* A call of the parse is a row of its line, and every line of the window  *)
(* has one.                                                                *)
LEMMA TurnedAreRows ==
    ASSUME LogInv, NEW range,
           range = WholeLog \/ (format # "both" /\ NamedFirst(log) /\ ~TailUsed(range))
    PROVE  /\ \A p \in 1..Len(Turned(range)) : \E i \in Reported(log) :
                 /\ ParseLogFileInRange(range)[p] = LoggedCalls(log)[i]
                 /\ IsRowOf(Turned(range)[p], log, i)
                 /\ Turned(range)[p].model = ModelOf(log, i)
           /\ \A p, q \in 1..Len(Turned(range)) :
                 p < q => Turned(range)[p].call < Turned(range)[q].call
<1> DEFINE calls == ParseLogFileInRange(range)
           out == Turned(range)
<1>1. Lists(calls, {j \in Reported(log) : InRange(DayAt(log, j), range)}, LoggedCalls(log))
  BY FileIs
<1>2. /\ Len(out) = Len(calls)
      /\ \A p \in 1..Len(calls) : out[p].call = calls[p].call /\ out[p].model = calls[p].model
                                  /\ out[p].day = calls[p].day
  BY TurnedIs DEF LogInv
<1> HIDE DEF calls, out
<1>3. ASSUME NEW p \in 1..Len(out)
      PROVE  \E i \in Reported(log) : /\ calls[p] = LoggedCalls(log)[i]
                                      /\ IsRowOf(out[p], log, i) /\ out[p].model = ModelOf(log, i)
  <2>1. PICK i \in Reported(log) : calls[p] = LoggedCalls(log)[i]
    BY <1>1, <1>2 DEF Lists
  <2>2. IsRowOf(out[p], log, i) /\ out[p].model = ModelOf(log, i)
    BY <1>2, <2>1, RecordIsRow DEF LogInv
  <2> QED
    BY <2>1, <2>2
<1>4. \A p, q \in 1..Len(out) : p < q => out[p].call < out[q].call
  BY <1>1, <1>2 DEF Lists
<1> QED
  BY <1>3, <1>4 DEF calls, out

LEMMA SyncIs ==
    ASSUME ParsingInv, NEW range, Sync(range)
    PROVE  /\ log' = log /\ format' = format
           /\ stored' = CleanupUnknownDuplicates(Table(range))
           /\ fresh' <=> range = WholeLog
           /\ fresh' \in BOOLEAN /\ ranged' \in BOOLEAN /\ tailed' \in BOOLEAN
           /\ ReadInOneWay' =>
                 /\ ReadInOneWay
                 /\ range = WholeLog \/ (format # "both" /\ NamedFirst(log) /\ ~TailUsed(range))
<1>1. /\ log' = log /\ format' = format
      /\ stored' = CleanupUnknownDuplicates(Table(range))
      /\ fresh' = (range = WholeLog)
      /\ ranged' = (ranged \/ range # WholeLog)
      /\ tailed' = (tailed \/ TailUsed(range))
  BY DEF Sync, Table, Turned
<1>2. ranged \in BOOLEAN /\ tailed \in BOOLEAN /\ log \in Logs
  BY DEF ParsingInv, LogInv
<1>3. ModelComesFirst' <=> ModelComesFirst
  BY <1>1 DEF ModelComesFirst, Lines
<1>4. ModelComesFirst <=> NamedFirst(log)
  BY <1>2, NamedFirstIs
<1>5. /\ fresh' <=> range = WholeLog
      /\ ranged' <=> (ranged \/ range # WholeLog)
      /\ tailed' <=> (tailed \/ TailUsed(range))
      /\ fresh' \in BOOLEAN /\ ranged' \in BOOLEAN /\ tailed' \in BOOLEAN
  BY <1>1, <1>2, Zenon DEF TailUsed
<1>6. ASSUME ReadInOneWay'
      PROVE  /\ ReadInOneWay
             /\ range = WholeLog \/ (format # "both" /\ NamedFirst(log) /\ ~TailUsed(range))
  <2>1. ~ranged' \/ (format' # "both" /\ ModelComesFirst' /\ ~tailed')
    BY <1>6 DEF ReadInOneWay
  <2> QED
    BY <1>1, <1>3, <1>4, <1>5, <2>1, Zenon DEF ReadInOneWay
<1> QED
  BY <1>1, <1>5, <1>6

(* Before the rows without a model are tidied up, each is of a line, too. *)
LEMMA TableRows ==
    ASSUME ParsingInv, NEW range, Sync(range), ReadInOneWay', NEW row \in Table(range)
    PROVE  \E i \in 1..Len(log) : IsRowOf(row, log, i)
<1>1. ReadInOneWay
      /\ (range = WholeLog \/ (format # "both" /\ NamedFirst(log) /\ ~TailUsed(range)))
  BY SyncIs
<1>2. LogInv /\ stored \in SUBSET CallRecords /\ KeysDiffer(stored)
  BY DEF ParsingInv, RowsInv
<1>3. row \in stored \/ \E p \in 1..Len(Turned(range)) : row = Turned(range)[p]
  BY <1>2, TableIs
<1>4. CASE row \in stored
  BY <1>1, <1>4 DEF ParsingInv, RowsInv
<1>5. ASSUME NEW p \in 1..Len(Turned(range)), row = Turned(range)[p]
      PROVE  \E i \in 1..Len(log) : IsRowOf(row, log, i)
  <2>1. PICK i \in Reported(log) : IsRowOf(Turned(range)[p], log, i)
    BY <1>1, <1>2, TurnedAreRows
  <2>2. i \in 1..Len(log)
    BY <1>2, LoggedCallIs DEF LogInv
  <2> QED
    BY <1>5, <2>1, <2>2
<1> QED
  BY <1>3, <1>4, <1>5

LEMMA SyncKeepsRows ==
    ASSUME ParsingInv, NEW range, Sync(range)
    PROVE  LogInv' /\ RowsInv'
<1>1. /\ log' = log /\ format' = format
      /\ stored' = CleanupUnknownDuplicates(Table(range))
  BY SyncIs
<1>2. LogInv /\ stored \in SUBSET CallRecords /\ KeysDiffer(stored)
  BY DEF ParsingInv, RowsInv
<1>3. LogInv'
  BY <1>1, <1>2 DEF LogInv
<1>4. Table(range) \in SUBSET CallRecords /\ KeysDiffer(Table(range))
  BY <1>2, TableIs
<1>5. stored' \subseteq Table(range) /\ NoUnknownTwin(stored')
  BY <1>1, CleanupIs
<1>6. KeysDiffer(stored')
  BY <1>4, <1>5 DEF KeysDiffer
<1>7. ASSUME ReadInOneWay', NEW row \in stored'
      PROVE  \E i \in 1..Len(log') : IsRowOf(row, log', i)
  BY <1>1, <1>5, <1>7, TableRows
<1> QED
  BY <1>3, <1>4, <1>5, <1>6, <1>7 DEF RowsInv

(* A sync of the whole log stores a row of each call that is reported. *)
LEMMA SyncFindsAll ==
    ASSUME ParsingInv, NEW range, Sync(range), range = WholeLog, NEW i \in Reported(log)
    PROVE  \E p \in 1..Len(Turned(range)) :
               /\ ParseLogFileInRange(range)[p] = LoggedCalls(log)[i]
               /\ Turned(range)[p].call = log[i].call
               /\ Turned(range)[p].model = ModelOf(log, i)
               /\ Turned(range)[p].day = DayAt(log, i)
               /\ IsRowOf(Turned(range)[p], log, i)
               /\ Turned(range)[p] \in Table(range)
               /\ \/ Turned(range)[p] \in stored'
                  \/ /\ Turned(range)[p].model = UnknownModel
                     /\ \E twin \in stored' : /\ twin \in Table(range)
                                              /\ twin.call = log[i].call
                                              /\ twin.model # UnknownModel
<1> DEFINE calls == ParseLogFileInRange(range)
           out == Turned(range)
           table == Table(range)
<1>1. LogInv /\ stored \in SUBSET CallRecords /\ KeysDiffer(stored)
  BY DEF ParsingInv, RowsInv
<1>2. Lists(calls, Reported(log), LoggedCalls(log))
  BY <1>1, FileIs, AllInRange
<1>3. PICK p \in 1..Len(calls) : calls[p] = LoggedCalls(log)[i]
  BY <1>2 DEF Lists
<1>4. /\ Len(out) = Len(calls)
      /\ out[p].call = calls[p].call /\ out[p].model = calls[p].model
      /\ out[p].day = calls[p].day
  BY <1>1, TurnedIs DEF LogInv
<1>5. /\ out[p].call = log[i].call /\ out[p].day = DayAt(log, i)
      /\ IsRowOf(out[p], log, i) /\ out[p].model = ModelOf(log, i)
  <2>1. IsRowOf(out[p], log, i) /\ out[p].model = ModelOf(log, i)
    BY <1>1, <1>3, <1>4, RecordIsRow DEF LogInv
  <2> HIDE DEF out
  <2> QED
    BY <2>1 DEF IsRowOf
<1>6. \A a, b \in 1..Len(out) : a < b => out[a].call < out[b].call
  BY <1>1, TurnedAreRows
<1>7. out[p] \in table
  BY <1>1, <1>4, <1>6, TableIs
<1>8. stored' = CleanupUnknownDuplicates(table)
  BY SyncIs
<1> HIDE DEF calls, out, table
<1>9. ASSUME out[p] \notin stored'
      PROVE  /\ out[p].model = UnknownModel
             /\ \E twin \in stored' : twin \in table /\ twin.call = log[i].call
                                      /\ twin.model # UnknownModel
  <2>1. /\ out[p].model = UnknownModel
        /\ \E twin \in table : twin.call = out[p].call /\ twin.day = out[p].day
                               /\ twin.model # UnknownModel
    BY <1>7, <1>8, <1>9, CleanupIs
  <2>2. PICK twin \in table : twin.call = out[p].call /\ twin.model # UnknownModel
    BY <2>1
  <2>3. twin \in stored'
    BY <1>8, <2>2, CleanupIs
  <2> QED
    BY <1>5, <2>1, <2>2, <2>3
<1> QED
  BY <1>3, <1>4, <1>5, <1>7, <1>9 DEF calls, out, table

(* If the log was always read in one way, that row is the only one. *)
LEMMA OnlyRow ==
    ASSUME ParsingInv, NEW range, Sync(range), range = WholeLog, ReadInOneWay',
           NEW i \in Reported(log)
    PROVE  \E p \in 1..Len(Turned(range)) :
               /\ ParseLogFileInRange(range)[p] = LoggedCalls(log)[i]
               /\ RowsOf(log[i].call)' = {Turned(range)[p]}
<1> DEFINE out == Turned(range)
<1>1. PICK p \in 1..Len(out) :
               /\ ParseLogFileInRange(range)[p] = LoggedCalls(log)[i]
               /\ out[p].call = log[i].call
               /\ out[p].model = ModelOf(log, i)
               /\ IsRowOf(out[p], log, i)
               /\ \/ out[p] \in stored'
                  \/ /\ out[p].model = UnknownModel
                     /\ \E twin \in stored' : /\ twin \in Table(range)
                                              /\ twin.call = log[i].call
                                              /\ twin.model # UnknownModel
  BY SyncFindsAll
<1> HIDE DEF out
<1>2. log' = log /\ LogInv' /\ RowsInv' /\ log \in Logs /\ Ordered(log)
  BY SyncIs, SyncKeepsRows DEF ParsingInv, LogInv
<1>3. i \in 1..Len(log)
  BY <1>2, LoggedCallIs
<1>4. \A row \in stored' : \E j \in 1..Len(log) : IsRowOf(row, log, j)
  BY <1>2 DEF RowsInv
<1>5. ASSUME NEW twin \in stored', twin.call = log[i].call, twin.model # UnknownModel
      PROVE  out[p].model # UnknownModel
  <2>1. PICK j \in 1..Len(log) : IsRowOf(twin, log, j)
    BY <1>4
  <2>2. j = i
    BY <1>1, <1>2, <1>3, <1>5, <2>1, SameLine
  <2>3. twin.model \in {UnknownModel, ModelOf(log, i)}
    BY <2>1, <2>2 DEF IsRowOf
  <2> QED
    BY <1>1, <1>5, <2>3
<1>6. out[p] \in stored'
  BY <1>1, <1>5
<1>7. ASSUME NEW row \in stored', row.call = log[i].call PROVE row = out[p]
  <2>1. KeysDiffer(stored') /\ NoUnknownTwin(stored')
    BY <1>2 DEF RowsInv
  <2>2. row.call = out[p].call
    BY <1>1, <1>7
  <2> QED
    BY <1>2, <1>4, <1>6, <2>1, <2>2, OneRow
<1>8. RowsOf(log[i].call)' = {row \in stored' : row.call = log[i].call}
  BY <1>2 DEF RowsOf
<1>9. RowsOf(log[i].call)' = {out[p]}
  BY <1>1, <1>6, <1>7, <1>8
<1> QED
  BY <1>1, <1>9 DEF out
-----------------------------------------------------------------------------
(* Turns *)

(* Calls are read in the order of their lines. *)
LEMMA Positions ==
    ASSUME NEW content \in Logs, Ordered(content),
           NEW calls, Lists(calls, Reported(content), LoggedCalls(content)),
           NEW p \in 1..Len(calls), NEW q \in 1..Len(calls),
           NEW i \in Reported(content), NEW j \in Reported(content),
           calls[p] = LoggedCalls(content)[i], calls[q] = LoggedCalls(content)[j]
    PROVE  /\ p < q <=> i < j
           /\ p <= q <=> i <= j
<1>1. /\ i \in 1..Len(content) /\ j \in 1..Len(content)
      /\ content[i].kind \in {"usage", "event"} /\ content[j].kind \in {"usage", "event"}
      /\ calls[p].call = content[i].call /\ calls[q].call = content[j].call
  BY LoggedCallIs
<1>2. content[i].kind = content[j].kind
  BY <1>1 DEF Reported, Kinds
<1>3. Len(content) \in Nat /\ Len(calls) \in Nat
      /\ content[i].call \in Nat /\ content[j].call \in Nat
  BY <1>1, LogOfLines, LineFields DEF Lists
<1>4. /\ i < j => content[i].call < content[j].call
      /\ j < i => content[j].call < content[i].call
  BY <1>1, <1>2 DEF Ordered
<1>5. /\ p < q => calls[p].call < calls[q].call
      /\ q < p => calls[q].call < calls[p].call
  BY DEF Lists
<1> QED
  BY <1>1, <1>3, <1>4, <1>5

LEMMA AskedIs ==
    ASSUME log \in Logs, log' = log, NEW i \in Reported(log)
    PROVE  AskedByUser(i)' <=> LoggedCalls(log)[i].turn
<1>1. /\ i \in 1..Len(log) /\ log[i].kind \in {"usage", "event"}
      /\ log[i].kind = "usage" => (LoggedCalls(log)[i].turn <=> UserAfter(log, i - 1))
      /\ log[i].kind = "event" => (LoggedCalls(log)[i].turn <=> log[i].user)
  BY LoggedCallIs
<1>2. DOMAIN log = 1..Len(log) /\ Len(log) \in Nat
  BY LogOfLines
<1>3. UserAfter(log, i - 1) <=>
        \E j \in DOMAIN log :
            /\ j < i /\ log[j].kind \in {"initiator", "event"} /\ log[j].user
            /\ \A k \in j + 1 .. i - 1 : log[k].kind \notin {"initiator", "event", "usage"}
  <2> DEFINE Asks(j) == /\ log[j].kind \in {"initiator", "event"} /\ log[j].user
                        /\ \A k \in j + 1 .. i - 1 :
                               log[k].kind \notin {"initiator", "event", "usage"}
  <2>1. UserAfter(log, i - 1) <=> \E j \in 1 .. i - 1 : Asks(j)
    BY Zenon DEF UserAfter
  <2>2. \A j : j \in 1 .. i - 1 <=> j \in DOMAIN log /\ j < i
    BY <1>1, <1>2
  <2> HIDE DEF Asks
  <2>3. UserAfter(log, i - 1) <=> \E j \in DOMAIN log : j < i /\ Asks(j)
    BY <2>1, <2>2, Zenon
  <2> QED
    BY <2>3, Zenon DEF Asks
<1>4. AskedByUser(i)' <=>
        \/ log[i].kind = "event" /\ log[i].user
        \/ /\ log[i].kind = "usage"
           /\ \E j \in DOMAIN log :
                  /\ j < i /\ log[j].kind \in {"initiator", "event"} /\ log[j].user
                  /\ \A k \in j + 1 .. i - 1 : log[k].kind \notin {"initiator", "event", "usage"}
  BY Zenon DEF AskedByUser
<1>5. log[i].kind = "usage" \/ log[i].kind = "event"
  BY <1>1
<1>6. ~("usage" = "event")
  OBVIOUS
<1> QED
  BY <1>1, <1>3, <1>4, <1>5, <1>6, Zenon

LEMMA ReportsAreReported ==
    ASSUME LogInv, format # "both"
    PROVE  Reports = Reported(log)
<1>1. Reports = {i \in 1..Len(log) : log[i].kind \in {"usage", "event"}}
  BY ReportsAre DEF LogInv
<1>2. \/ Kinds(log, Len(log), {"event"}) = {}
      \/ Kinds(log, Len(log), {"usage"}) = {}
  BY DEF LogInv
<1> QED
  BY <1>1, <1>2 DEF Reported, Kinds

LEMMA SyncCharges ==
    ASSUME ParsingInv, NEW range, Sync(range)
    PROVE  TurnsAreCharged'
<1>1. /\ log' = log /\ format' = format /\ (fresh' <=> range = WholeLog)
      /\ LogInv /\ log \in Logs /\ Ordered(log)
  BY SyncIs DEF ParsingInv, LogInv
<1>2. SUFFICES ASSUME fresh', format # "both", ReadInOneWay', NEW i \in Reported(log)
               PROVE  \E row \in RowsOf(log[i].call)' :
                          IsPaid(log[i].call)' =>
                            (row.turn <=>
                               \E j \in Reported(log) :
                                   /\ j <= i /\ AskedByUser(j)'
                                   /\ \A k \in Reported(log) :
                                          j <= k /\ k < i => ~IsPaid(log[k].call)')
  <2>1. ASSUME format # "both" PROVE Reports' = Reported(log)
    <3>1. Reports' = Reports
      BY <1>1 DEF Reports, Lines
    <3>2. Reports = Reported(log)
      BY <1>1, <2>1, ReportsAreReported
    <3> QED
      BY <3>1, <3>2
  <2> QED
    BY <1>1, <2>1 DEF TurnsAreCharged, ReadInOneWay
<1> DEFINE calls == ParseLogFileInRange(range)
           out == Turned(range)
           line(k) == LoggedCalls(log)[k]
<1>3. range = WholeLog
  BY <1>1, <1>2
<1>4. /\ calls \in Seq(CallRecords) /\ out = ReattributeUserTurns(calls)
      /\ Lists(calls, Reported(log), LoggedCalls(log))
  BY <1>1, <1>3, FileType, FileIs, AllInRange DEF Turned
<1>5. /\ Len(out) = Len(calls) /\ Len(calls) \in Nat
      /\ \A p \in 1..Len(calls) : /\ calls[p] \in CallRecords
                                  /\ Multiplier(out[p]) = Multiplier(calls[p])
  BY <1>1, TurnedIs
<1>6. \A k \in Reported(log) : \E p \in 1..Len(out) :
          calls[p] = line(k) /\ RowsOf(log[k].call)' = {out[p]}
  BY <1>2, <1>3, OnlyRow
<1>7. \A p \in 1..Len(calls) :
          Multiplier(calls[p]) > 0 =>
              (out[p].turn <=> \E q \in 1..p : /\ calls[q].turn
                                               /\ \A m \in q .. p - 1 : Multiplier(calls[m]) = 0)
  BY <1>4, TurnsMoveOn
<1>8. \A p \in 1..Len(calls) : \E k \in Reported(log) : calls[p] = line(k)
  BY <1>4 DEF Lists
<1>9. ASSUME NEW p \in 1..Len(calls), NEW q \in 1..Len(calls), NEW k \in Reported(log),
             NEW m \in Reported(log), calls[p] = line(k), calls[q] = line(m)
      PROVE  (p < q <=> k < m) /\ (p <= q <=> k <= m)
  BY <1>1, <1>4, <1>9, Positions
<1>10. \A k \in Reported(log) : AskedByUser(k)' <=> line(k).turn
  BY <1>1, AskedIs
<1>11. \A p \in 1..Len(calls) : Multiplier(calls[p]) \in Nat
  BY <1>5, MultiplierType
<1>12. Reported(log) \in SUBSET Nat
  BY <1>1, LoggedCallIs
<1> HIDE DEF calls, out, line
<1>13. ASSUME NEW p \in 1..Len(calls), NEW k \in Reported(log), calls[p] = line(k)
       PROVE  /\ RowsOf(log[k].call)' = {out[p]}
              /\ IsPaid(log[k].call)' <=> Multiplier(calls[p]) > 0
  <2>1. PICK q \in 1..Len(calls) : calls[q] = line(k) /\ RowsOf(log[k].call)' = {out[q]}
    BY <1>5, <1>6
  <2>2. p = q
    BY <1>5, <1>9, <1>12, <1>13, <2>1
  <2>3. IsPaid(log[k].call)' <=> \E row \in RowsOf(log[k].call)' : Multiplier(row) > 0
    BY <1>1 DEF IsPaid
  <2> QED
    BY <1>5, <2>1, <2>2, <2>3
<1>14. PICK p \in 1..Len(calls) : calls[p] = line(i)
  BY <1>5, <1>6
<1>15. ASSUME Multiplier(calls[p]) > 0,
              NEW q \in 1..p, calls[q].turn, \A m \in q .. p - 1 : Multiplier(calls[m]) = 0
       PROVE  \E j \in Reported(log) :
                 /\ j <= i /\ AskedByUser(j)'
                 /\ \A k \in Reported(log) : j <= k /\ k < i => ~IsPaid(log[k].call)'
  <2>1. q \in 1..Len(calls) /\ q <= p
    BY <1>5
  <2>2. PICK j \in Reported(log) : calls[q] = line(j)
    BY <1>8, <2>1
  <2>3. j <= i
    BY <1>9, <1>14, <2>1, <2>2
  <2>4. AskedByUser(j)'
    BY <1>10, <1>15, <2>2
  <2>5. ASSUME NEW k \in Reported(log), j <= k, k < i PROVE ~IsPaid(log[k].call)'
    <3>1. PICK m \in 1..Len(calls) : calls[m] = line(k)
      BY <1>5, <1>6
    <3>2. q <= m /\ m < p
      BY <1>9, <1>14, <2>1, <2>2, <2>5, <3>1
    <3>3. m \in q .. p - 1
      BY <1>5, <2>1, <3>2
    <3>4. Multiplier(calls[m]) = 0
      BY <1>15, <3>3
    <3> QED
      BY <1>13, <3>1, <3>4
  <2> QED
    BY <2>3, <2>4, <2>5
<1>16. ASSUME NEW j \in Reported(log), j <= i, AskedByUser(j)',
              \A k \in Reported(log) : j <= k /\ k < i => ~IsPaid(log[k].call)'
       PROVE  \E q \in 1..p : calls[q].turn /\ \A m \in q .. p - 1 : Multiplier(calls[m]) = 0
  <2>1. PICK q \in 1..Len(calls) : calls[q] = line(j)
    BY <1>5, <1>6
  <2>2. q <= p
    BY <1>9, <1>14, <1>16, <2>1
  <2>3. calls[q].turn
    BY <1>10, <1>16, <2>1
  <2>4. ASSUME NEW m \in q .. p - 1 PROVE Multiplier(calls[m]) = 0
    <3>1. m \in 1..Len(calls) /\ q <= m /\ m < p
      BY <1>5
    <3>2. PICK k \in Reported(log) : calls[m] = line(k)
      BY <1>8, <3>1
    <3>3. j <= k /\ k < i
      BY <1>9, <1>14, <2>1, <3>1, <3>2
    <3>4. ~IsPaid(log[k].call)'
      BY <1>16, <3>3
    <3> QED
      BY <1>11, <1>13, <3>1, <3>2, <3>4
  <2>5. q \in 1..p
    BY <1>5, <2>2
  <2> QED
    BY <2>3, <2>4, <2>5
<1>17. RowsOf(log[i].call)' = {out[p]}
  BY <1>13, <1>14
<1>18. IsPaid(log[i].call)' => Multiplier(calls[p]) > 0
  BY <1>13, <1>14
<1>19. ASSUME IsPaid(log[i].call)'
       PROVE  out[p].turn <=>
                \E j \in Reported(log) :
                   /\ j <= i /\ AskedByUser(j)'
                   /\ \A k \in Reported(log) : j <= k /\ k < i => ~IsPaid(log[k].call)'
  <2>1. out[p].turn <=> \E q \in 1..p : /\ calls[q].turn
                                        /\ \A m \in q .. p - 1 : Multiplier(calls[m]) = 0
    BY <1>7, <1>18, <1>19
  <2>2. Multiplier(calls[p]) > 0
    BY <1>18, <1>19
  <2> QED
    BY <1>15, <1>16, <2>1, <2>2, Zenon
<1> QED
  BY <1>17, <1>19, Zenon
-----------------------------------------------------------------------------
(* The invariant holds, and the properties follow from it *)

LEMMA ParsingInvAtFirst == ParsingInit => ParsingInv
<1> SUFFICES ASSUME ParsingInit PROVE ParsingInv
  OBVIOUS
<1> DEFINE line == [kind |-> "stamp", day |-> 1]
<1>1. line \in LogLines /\ line.kind = "stamp"
  BY DEF LogLines, Undated
<1>2. log = <<line>>
  BY DEF ParsingInit
<1> HIDE DEF line
<1>3. log \in Logs /\ Len(log) = 1 /\ log[1] = line
  BY <1>1, <1>2 DEF Logs
<1>4. LogInv
  <2>1. \A i \in 1..Len(log) : log[i].kind = "stamp"
    BY <1>1, <1>3
  <2>2. Ordered(log)
    BY <2>1 DEF Ordered
  <2>3. Kinds(log, Len(log), {"event"}) = {} /\ Kinds(log, Len(log), {"usage"}) = {}
    BY <2>1 DEF Kinds
  <2>4. format \in {"usage", "telemetry", "both"}
    BY ParsingAssumption DEF ParsingInit
  <2> QED
    BY <1>1, <1>3, <2>2, <2>3, <2>4 DEF LogInv
<1>5. stored = {} /\ fresh = FALSE /\ ranged = FALSE /\ tailed = FALSE
  BY DEF ParsingInit
<1>6. RowsInv
  BY <1>5 DEF RowsInv, KeysDiffer, NoUnknownTwin
<1>7. TurnsAreCharged
  BY <1>5 DEF TurnsAreCharged
<1> QED
  BY <1>4, <1>5, <1>6, <1>7 DEF ParsingInv

LEMMA SyncKeeps ==
    ASSUME ParsingInv, NEW range, Sync(range)
    PROVE  ParsingInv'
<1>1. /\ log' = log /\ (fresh' <=> range = WholeLog)
      /\ fresh' \in BOOLEAN /\ ranged' \in BOOLEAN /\ tailed' \in BOOLEAN
  BY SyncIs
<1>2. LogInv' /\ RowsInv'
  BY SyncKeepsRows
<1>3. TurnsAreCharged'
  BY SyncCharges
<1>4. ASSUME fresh', NEW i \in Reported(log')
      PROVE  \E row \in stored' : row.call = log'[i].call
  <2>1. i \in Reported(log) /\ range = WholeLog
    BY <1>1, <1>4
  <2>2. \E row \in stored' : row.call = log[i].call
    BY <2>1, SyncFindsAll
  <2> QED
    BY <1>1, <2>2
<1> QED
  BY <1>1, <1>2, <1>3, <1>4 DEF ParsingInv

LEMMA ParsingInvInductive == ParsingInv /\ [ParsingNext]_parsingVars => ParsingInv'
<1> SUFFICES ASSUME ParsingInv, [ParsingNext]_parsingVars PROVE ParsingInv'
  OBVIOUS
<1>1. CASE UNCHANGED parsingVars
  <2>1. /\ format' = format /\ log' = log /\ stored' = stored /\ fresh' = fresh
        /\ ranged' = ranged /\ tailed' = tailed
    BY <1>1 DEF parsingVars
  <2>2. LogInv'
    BY <2>1 DEF ParsingInv, LogInv
  <2>3. ReadInOneWay' <=> ReadInOneWay
    BY <2>1 DEF ReadInOneWay, ModelComesFirst, Lines
  <2>4. RowsInv'
    BY <2>1, <2>3 DEF ParsingInv, RowsInv
  <2>5. TurnsAreCharged'
    <3>1. TurnsAreCharged
      BY DEF ParsingInv
    <3> QED
      BY <2>1, <3>1 DEF TurnsAreCharged, ModelComesFirst, Reports, Lines, IsPaid, RowsOf,
                        AskedByUser
  <2> QED
    BY <2>1, <2>2, <2>4, <2>5 DEF ParsingInv
<1>2. CASE \E range \in Ranges : Sync(range)
  BY <1>2, SyncKeeps
<1>3. CASE \/ WriteStamp \/ WriteUsage
           \/ \E user \in BOOLEAN : WriteInitiator(user)
           \/ \E model \in LoggedModels : WriteModel(model)
           \/ \E model \in LoggedModels, user \in BOOLEAN : WriteEvent(model, user)
  BY <1>3, WritesKeep
<1> QED
  BY <1>1, <1>2, <1>3 DEF ParsingNext

LEMMA ParsingInvariant == ParsingSpec => []ParsingInv
BY ParsingInvAtFirst, ParsingInvInductive, PTL DEF ParsingSpec

LEMMA EveryCallHasRow ==
    ParsingInv => (fresh => \A call \in ReportedCalls : RowsOf(call) # {})
<1> SUFFICES ASSUME ParsingInv, fresh, NEW call \in ReportedCalls PROVE RowsOf(call) # {}
  OBVIOUS
<1>1. log \in Logs
  BY DEF ParsingInv, LogInv
<1>2. PICK i \in Reported(log) : call = log[i].call
  BY <1>1, ReportsAre DEF ReportedCalls, Reported, Kinds
<1>3. PICK row \in stored : row.call = log[i].call
  BY DEF ParsingInv
<1> QED
  BY <1>2, <1>3 DEF RowsOf

LEMMA CountedOnce == ParsingInv => CallsCountOnce
<1>1. ASSUME ParsingInv, ReadInOneWay, NEW call \in 1..MaxCalls
      PROVE  Cardinality(RowsOf(call)) <= 1
  <2>1. \A one, two \in RowsOf(call) : one = two
    BY <1>1, OneRow DEF RowsOf, ParsingInv, LogInv, RowsInv
  <2>2. RowsOf(call) = {} \/ \E row : RowsOf(call) = {row}
    BY <2>1
  <2>3. Cardinality(RowsOf(call)) \in {0, 1}
    BY <2>2, FS_EmptySet, FS_Singleton
  <2> QED
    BY <2>3
<1> QED
  BY <1>1, EveryCallHasRow DEF CallsCountOnce, ReadInOneWay

(* However a log is read, windows and tails included, while it grows: a    *)
(* sync of the whole log (a forced one of all time) leaves no reported     *)
(* call without a row.                                                     *)
THEOREM NoCallIsMissed ==
    ParsingSpec => [](fresh => \A call \in ReportedCalls : RowsOf(call) # {})
<1>1. ParsingInv => (fresh => \A call \in ReportedCalls : RowsOf(call) # {})
  BY EveryCallHasRow
<1> QED
  BY <1>1, ParsingInvariant, PTL

(* No call has two rows in api_calls, however often and at whatever        *)
(* lengths its log was read: whole, or with windows if the log is of one   *)
(* format, names a model before its first call and is never cut to its     *)
(* tail.                                                                   *)
THEOREM CallsAreCountedOnce == ParsingSpec => []CallsCountOnce
BY ParsingInvariant, CountedOnce, PTL

(* A sync of the whole log charges a user's request to the first call that *)
(* costs something, and to no other: ReattributeUserTurns moves the turns  *)
(* of the calls read, and InsertRecord overwrites those of older rows.     *)
THEOREM TurnsAreChargedOnce == ParsingSpec => []TurnsAreCharged
<1>1. ParsingInv => TurnsAreCharged
  BY DEF ParsingInv
<1> QED
  BY <1>1, ParsingInvariant, PTL
============================================================================
