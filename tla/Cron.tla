-------------------------------- MODULE Cron --------------------------------
(***************************************************************************)
(* The three readers of a crontab line: crontabBuilder.ts (the crontab     *)
(* tool), cron.ts (which checks and previews a schedule as it is typed)    *)
(* and cron.go (which fires it).  The calendar is scaled: the lengths of   *)
(* an hour, a day, a week and the months are constants.  A line is five    *)
(* columns, a column a sequence of terms; the texts of a term that the     *)
(* readers tell apart are kept, its spelling is not.                       *)
(***************************************************************************)
EXTENDS Integers, FiniteSets, SequencesExt

CONSTANTS
    HourLen,   \* minutes of an hour (60)
    DayLen,    \* hours of a day (24)
    WeekLen,   \* days of a week (7)
    MonthLens, \* days of each month (<<31, 28, ...>>)
    Years      \* years the search goes on (8 in the tool, 4 in the console and the backend)

-----------------------------------------------------------------------------
(* The calendar; a time is a number of minutes.                            *)

MinuteOf(t) == t % HourLen
HourOf(t) == (t \div HourLen) % DayLen
DayNumber(t) == t \div (HourLen * DayLen)
WeekdayOf(t) == DayNumber(t) % WeekLen
Months == 1..Len(MonthLens)
DaysBefore(m) == FoldLeft(+, 0, SubSeq(MonthLens, 1, m - 1))
YearLen == DaysBefore(Len(MonthLens) + 1)
MonthOf(t) == CHOOSE m \in Months :
    DayNumber(t) % YearLen \in DaysBefore(m)..(DaysBefore(m + 1) - 1)
DayOf(t) == (DayNumber(t) % YearLen) - DaysBefore(MonthOf(t)) + 1

StartOfHour(t) == t - MinuteOf(t)
StartOfDay(t) == DayNumber(t) * HourLen * DayLen
NextHour(t) == StartOfHour(t) + HourLen
NextDay(t) == StartOfDay(t) + HourLen * DayLen
NextMonth(t) == StartOfDay(t) + (MonthLens[MonthOf(t)] - DayOf(t) + 1) * HourLen * DayLen

-----------------------------------------------------------------------------
(* Terms.  A bound may be the empty text (Blank), step 0 is no "/".        *)

Blank == -1
Star(step) == [body |-> "star", lo |-> 0, hi |-> 0, step |-> step]
Value(v, step) == [body |-> "value", lo |-> v, hi |-> v, step |-> step]
Span(lo, hi, step) == [body |-> "range", lo |-> lo, hi |-> hi, step |-> step]

Fields == {"minute", "hour", "dom", "month", "dow"}
Least(f) == IF f \in {"dom", "month"} THEN 1 ELSE 0
\* The last weekday + 1 is a second spelling of the first.
Most(f) == CASE f = "minute" -> HourLen - 1
             [] f = "hour" -> DayLen - 1
             [] f = "dom" -> CHOOSE n \in Range(MonthLens) : \A k \in Range(MonthLens) : k <= n
             [] f = "month" -> Len(MonthLens)
             [] f = "dow" -> WeekLen
Steps(lo, hi, step) == {v \in lo..hi : (v - lo) % step = 0}

-----------------------------------------------------------------------------
(* crontabBuilder.ts: from a declarative column to its terms and back.     *)

Legal(f, v) == v \in Least(f)..Most(f)
LegalStep(f, n) == n \in 1..Most(f)
OneStep(n) == IF n = 1 THEN 0 ELSE n

CanRender(spec, f) ==
    CASE spec.kind = "every" -> TRUE
      [] spec.kind = "list" -> spec.values # {} /\ \A v \in spec.values : Legal(f, v)
      [] spec.kind = "step" -> LegalStep(f, spec.step)
      [] spec.kind = "range" -> Legal(f, spec.lo) /\ Legal(f, spec.hi) /\ spec.lo <= spec.hi
      [] spec.kind = "rangeStep" -> Legal(f, spec.lo) /\ Legal(f, spec.hi) /\ spec.lo <= spec.hi /\ LegalStep(f, spec.step)

RenderFromStart(spec) ==  \* mutant: the end of a stepped range is left out
    CASE spec.kind = "every" -> <<Star(0)>>
      [] spec.kind = "list" -> SetToSortSeq({Value(v, 0) : v \in spec.values}, LAMBDA a, b : a.lo < b.lo)
      [] spec.kind = "step" -> <<Star(OneStep(spec.step))>>
      [] spec.kind = "range" -> <<IF spec.lo = spec.hi THEN Value(spec.lo, 0) ELSE Span(spec.lo, spec.hi, 0)>>
      [] spec.kind = "rangeStep" -> <<Value(spec.lo, OneStep(spec.step))>>
RenderCronFieldSpec(spec) ==
    CASE spec.kind = "every" -> <<Star(0)>>
      [] spec.kind = "list" -> SetToSortSeq({Value(v, 0) : v \in spec.values}, LAMBDA a, b : a.lo < b.lo)
      [] spec.kind = "step" -> <<Star(OneStep(spec.step))>>
      [] spec.kind = "range" -> <<IF spec.lo = spec.hi THEN Value(spec.lo, 0) ELSE Span(spec.lo, spec.hi, 0)>>
      [] spec.kind = "rangeStep" -> <<Span(spec.lo, spec.hi, OneStep(spec.step))>>

\* What a term covers; "5/10" is read as from 5 on.
TermStep(term) == IF term.step = 0 THEN 1 ELSE term.step
TermEnds(term, f) ==
    CASE term.body = "star" -> <<Least(f), Most(f)>>
      [] term.body = "value" -> <<term.lo, IF term.step = 0 THEN term.lo ELSE Most(f)>>
      [] term.body = "range" -> <<term.lo, term.hi>>
CanParse(terms, f) == \A i \in DOMAIN terms :
    /\ terms[i].step = 0 \/ LegalStep(f, terms[i].step)
    /\ terms[i].body = "star" \/ (Legal(f, terms[i].lo) /\ Legal(f, terms[i].hi) /\ terms[i].lo <= terms[i].hi)
Folded(v, f) == IF f = "dow" /\ v = WeekLen THEN 0 ELSE v
ParseColumn(terms, f) ==
    [values |-> UNION {{Folded(v, f) : v \in Steps(TermEnds(terms[i], f)[1], TermEnds(terms[i], f)[2], TermStep(terms[i]))}
                       : i \in DOMAIN terms},
     isStar |-> terms[1].body = "star",
     terms |-> terms]

\* A line is built or read as a whole: one bad column refuses it.
Build(input) ==
    IF \A f \in Fields : CanRender(input[f], f) THEN [ok |-> TRUE, line |-> [f \in Fields |-> RenderCronFieldSpec(input[f])]] ELSE [ok |-> FALSE]
Parse(line) ==
    IF \A f \in Fields : CanParse(line[f], f) THEN [ok |-> TRUE, schedule |-> [f \in Fields |-> ParseColumn(line[f], f)]] ELSE [ok |-> FALSE]

\* Day of month and day of week: both must match if either begins with "*", else one of them.
MatchesDate(schedule, t) ==
    LET dom == DayOf(t) \in schedule["dom"].values
        dow == WeekdayOf(t) \in schedule["dow"].values
    IN  /\ MonthOf(t) \in schedule["month"].values
        /\ IF schedule["dom"].isStar \/ schedule["dow"].isStar THEN dom /\ dow ELSE dom \/ dow

\* The search goes on by the coarsest field that fails; onDate says that the day matches.
HourForDay(schedule, onDate, t) ==  \* mutant: a wrong hour is left for the next day
    IF MonthOf(t) \notin schedule["month"].values THEN NextMonth(t)
    ELSE IF ~onDate THEN NextDay(t)
    ELSE IF HourOf(t) \notin schedule["hour"].values THEN NextDay(t)
    ELSE t + 1
Onward(schedule, onDate, t) ==
    IF MonthOf(t) \notin schedule["month"].values THEN NextMonth(t)
    ELSE IF ~onDate THEN NextDay(t)
    ELSE IF HourOf(t) \notin schedule["hour"].values THEN NextHour(t)
    ELSE t + 1
Fires(schedule, onDate, t) ==
    /\ MonthOf(t) \in schedule["month"].values /\ onDate
    /\ HourOf(t) \in schedule["hour"].values /\ MinuteOf(t) \in schedule["minute"].values
Limit(from) == from + Years * YearLen * DayLen * HourLen

NextRuns(schedule, from, count) ==
    LET search[t \in Nat, n \in 0..count] ==
            IF n = 0 \/ t >= Limit(from) THEN <<>>
            ELSE IF Fires(schedule, MatchesDate(schedule, t), t) THEN <<t>> \o search[t + 1, n - 1]
            ELSE search[Onward(schedule, MatchesDate(schedule, t), t), n]
    IN  search[from + 1, count]

\* Which phrase the explanation gives for the time of day, and which columns it names.
FullStar(column) == Len(column.terms) = 1 /\ column.terms[1].body = "star" /\ column.terms[1].step \in {0, 1}
StepOnly(column) == Len(column.terms) = 1 /\ column.terms[1].body = "star"
Singles(column) == \A i \in DOMAIN column.terms : column.terms[i].body # "star" /\ column.terms[i].lo = column.terms[i].hi /\ column.terms[i].step = 0
DescribeTime(schedule) ==
    LET m == schedule["minute"]  h == schedule["hour"]
    IN  IF FullStar(m) /\ FullStar(h) THEN "every minute"
        ELSE IF FullStar(h) /\ StepOnly(m) THEN "every n minutes"
        ELSE IF FullStar(m) /\ StepOnly(h) THEN "every minute of every n hours"
        ELSE IF FullStar(h) /\ Singles(m) THEN "at minutes of every hour"
        ELSE IF FullStar(m) /\ Singles(h) THEN "every minute of hours"
        ELSE IF Singles(m) /\ Singles(h) /\ Len(m.terms) * Len(h.terms) <= 12 THEN "at times"
        ELSE "at minute, hour"
DescribeSchedule(schedule) ==
    [time |-> DescribeTime(schedule),
     named |-> {f \in {"dom", "month", "dow"} : ~FullStar(schedule[f])},
     either |-> ~schedule["dom"].isStar /\ ~schedule["dow"].isStar]

-----------------------------------------------------------------------------
(* cron.ts: Number("") is 0, and a lone last weekday + 1 is the first.     *)

Number(bound) == IF bound = Blank THEN 0 ELSE bound
SevenAsZero(v) == IF v = WeekLen THEN 0 ELSE v
\* The text after "-" or before "/" is compared with "7" as a whole.
UiNormalised(term, f) ==
    IF f # "dow" THEN term
    ELSE CASE term.body = "star" -> term
           [] term.body = "value" -> IF term.step = 0 THEN Value(SevenAsZero(term.lo), 0) ELSE term
           [] term.body = "range" -> Span(SevenAsZero(term.lo), IF term.step = 0 THEN SevenAsZero(term.hi) ELSE term.hi, term.step)
UiMost(f) == IF f = "dow" THEN WeekLen - 1 ELSE Most(f)
UiEnds(term, f) == IF term.body = "star" THEN <<Least(f), UiMost(f)>> ELSE <<Number(term.lo), Number(term.hi)>>
UiAccepts(terms, f) == \A i \in DOMAIN terms : LET e == UiEnds(UiNormalised(terms[i], f), f) IN
    terms[i].step >= 0 /\ e[1] >= Least(f) /\ e[2] <= UiMost(f) /\ e[1] <= e[2]
UiParseField(terms, f) ==
    [values |-> UNION {LET e == UiEnds(UiNormalised(terms[i], f), f) IN Steps(e[1], e[2], TermStep(terms[i])) : i \in DOMAIN terms},
     restricted |-> terms # <<Star(0)>>]

DayMatches(schedule, t) ==
    LET dom == DayOf(t) \in schedule["dom"].values
        dow == WeekdayOf(t) \in schedule["dow"].values
        byDom == schedule["dom"].restricted
        byDow == schedule["dow"].restricted
    IN  IF byDom /\ byDow THEN dom \/ dow ELSE (byDom => dom) /\ (byDow => dow)

\* The first match after `after`, or Blank.
CronNext(schedule, after) ==
    LET search[t \in Nat] ==
            IF t >= Limit(after) THEN Blank
            ELSE IF Fires(schedule, DayMatches(schedule, t), t) THEN t
            ELSE search[Onward(schedule, DayMatches(schedule, t), t)]
    IN  search[after + 1]

-----------------------------------------------------------------------------
(* cron.go: an empty bound is refused, the last weekday + 1 is the first   *)
(* wherever it stands.                                                     *)

GoNormalised(term, f) ==
    IF f # "dow" \/ term.body = "star" THEN term ELSE [term EXCEPT !.lo = SevenAsZero(@), !.hi = SevenAsZero(@)]
GoEnds(term, f) == IF term.body = "star" THEN <<Least(f), UiMost(f)>> ELSE <<term.lo, term.hi>>
GoAccepts(terms, f) == \A i \in DOMAIN terms : LET e == GoEnds(GoNormalised(terms[i], f), f) IN
    /\ Blank \notin {terms[i].lo, terms[i].hi}
    /\ terms[i].step >= 0 /\ e[1] >= Least(f) /\ e[2] <= UiMost(f) /\ e[1] <= e[2]
GoParseField(terms, f) ==
    [values |-> UNION {LET e == GoEnds(GoNormalised(terms[i], f), f) IN Steps(e[1], e[2], TermStep(terms[i])) : i \in DOMAIN terms},
     restricted |-> terms # <<Star(0)>>]
=============================================================================
