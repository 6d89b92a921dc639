-------------------------------- MODULE Cron --------------------------------
(***************************************************************************)
(* Cron expressions (src/src/prodeo/scheduler/cron.py) over a small        *)
(* calendar: parsing, the day rule, and the search for the next run, with  *)
(* the reference it is checked against.                                    *)
(*                                                                         *)
(* An instant is a number of minutes.  The wall clock of the schedule's    *)
(* timezone is put back once, by PutBack minutes at instant ChangeAt, so   *)
(* its last PutBack minutes before ChangeAt are shown twice; Python tells  *)
(* the second time by fold = 1.                                            *)
(***************************************************************************)
EXTENDS Naturals, FiniteSets, FiniteSetsExt

CONSTANTS
  MinutesPerHour, HoursPerDay, DaysPerWeek,
  Fields,       \* the cron expressions to search for, and the fields of each
  MaxTime,      \* bound of the instants to search from
  MonthDays,    \* the number of days of each month, a sequence
  SearchLimit,  \* _SEARCH_LIMIT_DAYS (1464 in the code)
  ChangeAt, PutBack

Part == [star : BOOLEAN, lo : Nat, hi : Nat, step : Nat]
CronBounds ==
  /\ {MinutesPerHour, HoursPerDay, DaysPerWeek, SearchLimit} \subseteq Nat \ {0}
  /\ {MaxTime, ChangeAt, PutBack} \subseteq Nat
  /\ PutBack <= ChangeAt
  /\ Fields \in [DOMAIN Fields ->
                 [minute : SUBSET Part, hour : SUBSET Part, dom : SUBSET Part,
                  month : SUBSET Part, dow : SUBSET Part]]

Never == 0      \* None for an instant: the instants used are positive

-----------------------------------------------------------------------------
(* Parsing.  A field is a set of parts; a part without "-" and "/" has hi = lo
   and step 0.  `star` stands for the body "*". *)

\* _parse_part(): a bare value with a step runs to the end of the range.
PartBounds(part, lo, hi) ==
  IF part.star THEN <<lo, hi>>
  ELSE IF part.hi = part.lo /\ part.step > 0 THEN <<part.lo, hi>>
  ELSE <<part.lo, part.hi>>

PartIsValid(part, lo, hi) ==
  LET b == PartBounds(part, lo, hi)
  IN b[1] <= b[2] /\ lo <= b[1] /\ b[2] <= hi

PartValues(part, lo, hi) ==
  LET b == PartBounds(part, lo, hi)
  IN {v \in b[1] .. b[2] : part.step > 0 => (v - b[1]) % part.step = 0}

\* _parse_field(): the union of the parts; none of them may be invalid.
FieldIsValid(field, lo, hi) ==
  field # {} /\ \A p \in field : PartIsValid(p, lo, hi)

FieldValues(field, lo, hi) == UNION {PartValues(p, lo, hi) : p \in field}

IsStar(field) == \A p \in field : p.star /\ p.step = 0

\* parse_cron().  Both ends of the week are its first day.
IsValid(expr) ==
  /\ FieldIsValid(expr.minute, 0, MinutesPerHour - 1)
  /\ FieldIsValid(expr.hour, 0, HoursPerDay - 1)
  /\ FieldIsValid(expr.dom, 1, Max({MonthDays[m] : m \in DOMAIN MonthDays}))
  /\ FieldIsValid(expr.month, 1, Cardinality(DOMAIN MonthDays))
  /\ FieldIsValid(expr.dow, 0, DaysPerWeek)

Parsed(expr) ==
  [minutes |-> FieldValues(expr.minute, 0, MinutesPerHour - 1),
   hours   |-> FieldValues(expr.hour, 0, HoursPerDay - 1),
   doms    |-> FieldValues(expr.dom, 1, Max({MonthDays[m] : m \in DOMAIN MonthDays})),
   months  |-> FieldValues(expr.month, 1, Cardinality(DOMAIN MonthDays)),
   dows    |-> {d % DaysPerWeek : d \in FieldValues(expr.dow, 0, DaysPerWeek)},
   domRestricted |-> ~IsStar(expr.dom),
   dowRestricted |-> ~IsStar(expr.dow)]

-----------------------------------------------------------------------------
(* The calendar: day 0 is the first of the first month and of the week *)

DayLength == HoursPerDay * MinutesPerHour
DayOf(wall) == wall \div DayLength
HourOf(wall) == (wall % DayLength) \div MinutesPerHour
MinuteOf(wall) == wall % MinutesPerHour

\* Days before the month in its year; a year is all the months.
DaysBefore(month) == MapThenSumSet(LAMBDA m : MonthDays[m], 1 .. month - 1)
YearDays == DaysBefore(Cardinality(DOMAIN MonthDays) + 1)
MonthOf(day) == Max({m \in DOMAIN MonthDays : DaysBefore(m) <= day % YearDays})
DomOf(day) == (day % YearDays) - DaysBefore(MonthOf(day)) + 1

\* astimezone(tz), without the fold, and back: with fold = 0 the first of two.
Wall(instant) == IF instant < ChangeAt THEN instant ELSE instant - PutBack
Instant(wall) == IF wall < ChangeAt THEN wall ELSE wall + PutBack
Repeated(instant) == instant \in ChangeAt .. ChangeAt + PutBack - 1

\* CronSpec.matches_day()
MatchesDay(spec, day) ==
  LET dom == DomOf(day) \in spec.doms
      dow == day % DaysPerWeek \in spec.dows
  IN /\ MonthOf(day) \in spec.months
     /\ IF spec.domRestricted /\ spec.dowRestricted THEN dom \/ dow ELSE dom /\ dow

-----------------------------------------------------------------------------

\* The times of a day at which spec fires; on the day of the candidate minute,
\* those not before it.
TimesOn(spec, day, candidate) ==
  {t \in {h * MinutesPerHour + m : h \in spec.hours, m \in spec.minutes} :
     DayOf(candidate) = day =>
       /\ t \div MinutesPerHour >= HourOf(candidate)
       /\ t \div MinutesPerHour = HourOf(candidate) =>
            t % MinutesPerHour >= MinuteOf(candidate)}

Search(spec, candidate) ==
  LET days == {d \in DayOf(candidate) .. DayOf(candidate) + SearchLimit - 1 :
                 MatchesDay(spec, d) /\ TimesOn(spec, d, candidate) # {}}
      day == Min(days)
  IN IF days = {} THEN Never
     ELSE Instant(day * DayLength + Min(TimesOn(spec, day, candidate)))

\* Defect: the search starts in the minute it should leave.
NextFireFromNow(spec, after) == Search(spec, Wall(after))

\* next_fire(): the search from the next whole minute of the wall clock.
NextFire(spec, after) == Search(spec, Wall(after) + 1)

\* The reference: spec fires whenever the wall clock shows a matching minute,
\* once for a minute shown twice.
Fires(spec, instant) ==
  LET w == Wall(instant)
  IN /\ MatchesDay(spec, DayOf(w))
     /\ HourOf(w) \in spec.hours
     /\ MinuteOf(w) \in spec.minutes
     /\ ~Repeated(instant)

\* The last instant of the days of the search.
Horizon(after) == Instant((DayOf(Wall(after) + 1) + SearchLimit) * DayLength - 1)

FirstFire(spec, after) ==
  LET found == {t \in after + 1 .. Horizon(after) : Fires(spec, t)}
  IN IF found = {} THEN Never ELSE Min(found)

-----------------------------------------------------------------------------

\* What create() and _fire() get for an expression, none when it does not
\* parse, and what they should get.
NextRun ==
  [e \in DOMAIN Fields |->
     [now \in 1 .. MaxTime |->
        IF IsValid(Fields[e]) THEN NextFire(Parsed(Fields[e]), now) ELSE Never]]

FirstRun ==
  [e \in DOMAIN Fields |-> [now \in 1 .. MaxTime |-> FirstFire(Parsed(Fields[e]), now)]]

=============================================================================
