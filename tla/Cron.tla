-------------------------------- MODULE Cron --------------------------------
(* The cron expressions of packages/trigger-adapter.  An expression is a      *)
(* record of five fields, a field the set of the comma-separated segments     *)
(* "from-to/step".  A part of a segment is a number, or one of the three      *)
(* values below.                                                              *)
EXTENDS Integers

Any    == -1        \* the text *
Absent == -2        \* no text
Junk   == -3        \* text that Number() turns into NaN: --, **, ...

Segment == [from : Int, to : Int, step : Int]
Every   == {[from |-> Any, to |-> Absent, step |-> Absent]}

FirstValue(seg, min) == IF seg.from \in {Any, Absent} THEN min ELSE seg.from

LastValue(seg, min, max) ==
  IF seg.from = Any THEN max
  ELSE IF seg.to = Absent THEN FirstValue(seg, min) ELSE seg.to

Step(seg) == IF seg.step = Absent THEN 1 ELSE seg.step

(* The two throw statements of valuesForField, turned around. *)
Valid(field, min, max) ==
  \A seg \in field :
    /\ Step(seg) >= 1
    /\ min <= FirstValue(seg, min)
    /\ FirstValue(seg, min) <= LastValue(seg, min, max)
    /\ LastValue(seg, min, max) <= max

ValuesForField(field, min, max) ==
  UNION {{v \in FirstValue(seg, min) .. LastValue(seg, min, max) :
            (v - FirstValue(seg, min)) % Step(seg) = 0} : seg \in field}

(* Every field is evaluated, also when an earlier one does not match: one     *)
(* segment out of range throws, at any date.                                  *)
CronThrows(cron) ==
  ~ /\ Valid(cron.minute, 0, 59)
    /\ Valid(cron.hour, 0, 23)
    /\ Valid(cron.dayOfMonth, 1, 31)
    /\ Valid(cron.month, 1, 12)
    /\ Valid(cron.dayOfWeek, 0, 7)

(* Sunday is 0 and 7. *)
OnWeekday(date, field) ==
  \/ date.weekday \in ValuesForField(field, 0, 7)
  \/ date.weekday = 0 /\ 7 \in ValuesForField(field, 0, 7)

OnDay(date, cron) ==
  LET monthDay == date.day \in ValuesForField(cron.dayOfMonth, 1, 31)
  IN CASE cron.dayOfMonth = Every /\ cron.dayOfWeek = Every -> TRUE
       [] cron.dayOfMonth = Every /\ cron.dayOfWeek # Every -> OnWeekday(date, cron.dayOfWeek)
       [] cron.dayOfMonth # Every /\ cron.dayOfWeek = Every -> monthDay
       [] OTHER -> monthDay \/ OnWeekday(date, cron.dayOfWeek)

CronMatches(date, cron) ==
  /\ date.minute \in ValuesForField(cron.minute, 0, 59)
  /\ date.hour \in ValuesForField(cron.hour, 0, 23)
  /\ date.month \in ValuesForField(cron.month, 1, 12)
  /\ OnDay(date, cron)
=============================================================================
