-------------------------------- MODULE Times --------------------------------
(***************************************************************************)
(* ztime: periods of a time, dates that are parsed, months that are added,   *)
(* durations as hours, minutes and seconds, and the marks of a time axis.    *)
(* A time is in whole seconds from the start of 2000, in a location without  *)
(* daylight saving.                                                          *)
(***************************************************************************)
EXTENDS Numbers, SequencesExt

Minute == 60
Hour == 60 * Minute
Day == 24 * Hour
\* Go's time package: the days up to a year and a month of it, and the date of a number of
\* days.  A month, day or second outside of its range goes over into the next or previous.
Leaps(year) == (year - 1) \div 4 - (year - 1) \div 100 + (year - 1) \div 400
IsLeap(year) == (year % 4 = 0 /\ year % 100 # 0) \/ year % 400 = 0
MonthDays(year) == <<31, IF IsLeap(year) THEN 29 ELSE 28, 31, 30, 31, 30, 31, 31, 30, 31, 30, 31>>
YearStart(year) == 365 * (year - 2000) + Leaps(year) - Leaps(2000)
MonthStart(year, month) == YearStart(year) + MapThenSumSet(LAMBDA i : MonthDays(year)[i], 1..(month - 1))
DaysTo(year, month) == MonthStart(year + (month - 1) \div 12, ((month - 1) % 12) + 1)
YearOf(days) ==
    CHOOSE y \in (1998 + days \div 366)..(2002 + days \div 366) : YearStart(y) <= days /\ days < YearStart(y + 1)
MonthOf(year, days) == CHOOSE m \in 1..12 : days - MonthStart(year, m) \in 0..(MonthDays(year)[m] - 1)
DayOf(year, month, days) == [year |-> year, month |-> month, day |-> days - MonthStart(year, month) + 1]
DateInYear(year, days) == DayOf(year, MonthOf(year, days), days)
DateOf(days) == DateInYear(YearOf(days), days)
Date(year, month, day, hour, min, sec) ==
    (DaysTo(year, month) + day - 1) * Day + hour * Hour + min * Minute + sec
DateIn(t) == DateOf(t \div Day)
ClockIn(t) == [hour |-> (t % Day) \div Hour, min |-> (t % Hour) \div Minute, sec |-> t % Minute]
\* 2000 began on a Saturday; Sunday is 0.
Weekday(t) == (t \div Day + 6) % 7
-----------------------------------------------------------------------------
\* Changing parts of a time.  A part of -1 stays.
DaysInMonth(month, year) == DateOf(DaysTo(year, month + 1) - 1).day
Part(new, old) == IF new = -1 THEN old ELSE new
AtTime(d, h, m, s) == Date(d.year, d.month, d.day, h, m, s)
ChangedPartsOfTime(t, h, m, s) ==
    LET c == ClockIn(t) IN AtTime(DateIn(t), Part(h, c.hour), Part(m, c.min), Part(s, c.sec))
IncreasePartsOfTime(t, h, m, s) ==
    LET c == ClockIn(t) IN AtTime(DateIn(t), c.hour + h, c.min + m, c.sec + s)
ChangedPartsOfDate(t, y, m, day) ==
    LET Changed(d) == Date(Part(y, d.year), Part(m, d.month), Part(day, d.day), 0, 0, t % Day)
    IN  Changed(DateIn(t))
IncreasePartsOfDate(t, y, m, days) ==
    LET Increased(d) == Date(d.year + y, d.month + m, d.day + days, 0, 0, t % Day) IN Increased(DateIn(t))
AddMonthAndYearToTime(t, months, years) ==
    LET Moved(d) == Date(d.year + years, d.month + months,
                         Min({d.day, DaysInMonth(d.month + months, d.year + years)}), 0, 0, t % Day)
    IN  Moved(DateIn(t))

\* The start of the period a time is in, or of one that is inc periods later.
GetStartOfDay(t) == AtTime(DateIn(t), 0, 0, 0)
OnThisSecond(t, inc) == IncreasePartsOfTime(t, 0, 0, inc)
OnThisMinute(t, inc) == IncreasePartsOfTime(ChangedPartsOfTime(t, -1, -1, 0), 0, inc, 0)
OnThisHour(t, inc) == IncreasePartsOfTime(ChangedPartsOfTime(t, -1, 0, 0), inc, 0, 0)
OnThisDay(t, inc) == IncreasePartsOfDate(GetStartOfDay(t), 0, 0, inc)
OnThisWeek(t, inc) == OnThisDay(t, Remainder(1 - Weekday(t) - 7, 7) + inc * 7)
OnThisMonth(t, inc) == IncreasePartsOfDate(ChangedPartsOfDate(GetStartOfDay(t), -1, -1, 1), 0, inc, 0)
OnThisYear(t, inc) == IncreasePartsOfDate(ChangedPartsOfDate(GetStartOfDay(t), -1, 1, 1), inc, 0, 0)
OnThisPeriod(t, field, inc) ==
    CASE field = "secs" -> OnThisSecond(t, inc)
      [] field = "mins" -> OnThisMinute(t, inc)
      [] field = "hours" -> OnThisHour(t, inc)
      [] field = "days" -> OnThisDay(t, inc)
      [] field = "weeks" -> OnThisWeek(t, inc)
      [] field = "months" -> OnThisMonth(t, inc)
      [] field = "years" -> OnThisYear(t, inc)
      [] OTHER -> GetStartOfDay(t)
IsSameDay(a, b) == DateIn(a) = DateIn(b)

\* A time as days since 2000, every fourth year before it counted as leap.
DaysSince2000FromTime(d) ==
    LET years == d.year - 2000
    IN  years * 365 + Cut(years + 3, 4) + MapThenSumSet(LAMBDA m : DaysInMonth(m, d.year), 1..(d.month - 1)) + d.day - 1
TimeOfDaysSince2000(days) == DateOf(days)

\* Hours of a clock of twelve, and the half hour that is nearest.
HourAmForHour(hour) == [am |-> hour < 12, hour |-> IF hour % 12 = 0 THEN 12 ELSE hour % 12]
TimeToNearestEmojii(h, m) ==
    LET hour == (IF m > 45 THEN h + 1 ELSE h) % 12
    IN  [hour |-> IF hour = 0 THEN 12 ELSE hour, min |-> IF m <= 15 \/ m > 45 THEN 0 ELSE 30]
-----------------------------------------------------------------------------
\* Parsing a date.  What is given has a part, or None; the hour is of a clock of twelve if the
\* flag for it is set, and then am or pm has to be given.
None == -1
Bad(n, min, max) == n # None /\ ((max # 0 /\ n > max) \/ n < min)
ParsedHour(hour, ampm) ==
    CASE ampm = "pm" /\ hour # 12 -> hour + 12
      [] ampm = "am" /\ hour = 12 -> 0
      [] OTHER -> hour
ParsedTime(d, g) == Date(d.year, d.month, d.day, ParsedHour(Max({0, g.hour}), g.ampm), Max({0, g.min}), Max({0, g.sec}))
\* The dates that are tried until one is not in the future: if none was given, the days before
\* down to the first, and from there the months before, or else the year before.
Earlier(date, g) ==
    LET days == IF g.day = None THEN date.day - 1 ELSE 0
        months == IF g.month = None THEN date.month ELSE 0
        end == [date EXCEPT !.day = @ - days]
    IN  [n \in 1..days |-> [date EXCEPT !.day = @ - n]] \o [n \in 1..months |-> [end EXCEPT !.month = @ - n]]
        \o IF months = 0 /\ g.year = None THEN <<[end EXCEPT !.year = @ - 1]>> ELSE <<>>
FirstNotAfter(now, times) ==
    LET past == {k \in DOMAIN times : times[k] <= now} IN times[IF past = {} THEN Len(times) ELSE Min(past)]
TimeTried(g, now, notFuture, date) ==
    IF notFuture THEN LET tries == <<date>> \o Earlier(date, g)
                      IN  FirstNotAfter(now, [k \in DOMAIN tries |-> ParsedTime(tries[k], g)])
    ELSE ParsedTime(date, g)
\* The year that is given is not known yet when the day is looked at, nor a month that is none.
IsRefused(g, useAMPM, today) ==
    \/ useAMPM /\ g.ampm = ""
    \/ Bad(g.hour, IF useAMPM THEN 1 ELSE 0, IF useAMPM THEN 12 ELSE 23) \/ Bad(g.min, 0, 60) \/ Bad(g.sec, 0, 59)
    \/ Bad(g.month, 1, 12)
    \/ Bad(g.day, 1, DaysInMonth(Part(g.month, today.month), today.year))
FullYear(year) == IF year < 100 THEN year + 2000 ELSE year
ParseDate(g, now, useAMPM, notFuture) ==
    LET Parsed(today) ==
            IF IsRefused(g, useAMPM, today) THEN [ok |-> FALSE, time |-> 0]
            ELSE [ok |-> TRUE,
                  time |-> TimeTried(g, now, notFuture,
                                     [year |-> FullYear(Part(g.year, today.year)), month |-> Part(g.month, today.month),
                                      day |-> Part(g.day, today.day)])]
    IN  Parsed(DateIn(now))
-----------------------------------------------------------------------------
\* A duration as its parts, a leading hour or minute that is zero left out, and back; seconds
\* alone have a suffix, which is not read.
GetDurationHourMinSec(d) == [hours |-> d \div 3600, mins |-> (d \div 60) % 60, secs |-> d % 60]
GetDurationAsHMSString(d, hours, mins, secs) ==
    LET h == d \div 3600
        m == IF h = 0 THEN d \div 60 ELSE (d \div 60) % 60
        parts == (IF hours /\ h # 0 THEN <<h>> ELSE <<>>)
                 \o (IF (mins /\ h # 0) \/ m # 0 THEN <<m>> ELSE <<>>)
                 \o (IF secs THEN <<IF h # 0 \/ m # 0 THEN d % 60 ELSE d>> ELSE <<>>)
    IN  [parts |-> parts, suffix |-> Len(parts) = 1 /\ secs]
GetSecsFromHMSString(str, hour, min, sec) ==
    LET units == SelectSeq(<<IF hour THEN 3600 ELSE 0, IF min THEN 60 ELSE 0, IF sec THEN 1 ELSE 0>>, LAMBDA u : u # 0)
    IN  [ok |-> ~str.suffix,
         secs |-> MapThenSumSet(LAMBDA i : str.parts[i] * units[i], 1..Min({Len(str.parts), Len(units)}))]
\* The units of a duration that are not zero, an "and" before the last one.
DurationToVerbal(d, useSecs) ==
    LET c == GetDurationHourMinSec(d)
        all == <<[unit |-> Day, n |-> c.hours \div 24], [unit |-> Hour, n |-> c.hours % 24],
                 [unit |-> Minute, n |-> c.mins], [unit |-> 1, n |-> IF useSecs THEN c.secs ELSE 0]>>
    IN  SelectSeq(all, LAMBDA p : p.n # 0)
DurationString(d, secs, mins, hours) ==
    LET c == GetDurationHourMinSec(d)
    IN  [parts |-> (IF hours THEN <<c.hours>> ELSE <<>>) \o (IF mins THEN <<c.mins>> ELSE <<>>)
                   \o (IF secs THEN <<c.secs>> ELSE <<>>),
         overflow |-> (~hours /\ c.hours > 0) \/ (~mins /\ c.mins > 0)]

\* A time as a place on a line of whole units, and back.
TimeToX(minX, maxX, t, start, end) == minX + Cut((t - start) * (maxX - minX), end - start)
XToTime(minX, maxX, x, start, end) == start + Cut((x - minX) * (end - start), maxX - minX)

\* The marks of a time axis: the smallest step whose labels are further apart than minDist is
\* that of the labels, one of the two after it that of the marks, and the first mark is at
\* the start of a period of the next larger field.
Inc(field, step) == [field |-> field, step |-> step]
FieldIncrements ==
    <<Inc("years", 1), Inc("months", 6), Inc("months", 4), Inc("months", 3), Inc("months", 1), Inc("days", 14),
      Inc("days", 7), Inc("days", 4), Inc("days", 3), Inc("days", 2), Inc("days", 1), Inc("hours", 12), Inc("hours", 6),
      Inc("hours", 4), Inc("hours", 3), Inc("hours", 1), Inc("mins", 30), Inc("mins", 20), Inc("mins", 15), Inc("mins", 10),
      Inc("mins", 5), Inc("mins", 1), Inc("secs", 30), Inc("secs", 20), Inc("secs", 15), Inc("secs", 10), Inc("secs", 5),
      Inc("secs", 1)>>
Duration == [none |-> 0, secs |-> 1, mins |-> Minute, hours |-> Hour, days |-> Day, weeks |-> 7 * Day,
             months |-> 30 * Day, years |-> 365 * Day]
IncDuration(inc) == Duration[inc.field] * inc.step
TryIncrement(state, inc, pixelInc, minLabelDist) ==
    LET fits == pixelInc # state.prev /\ pixelInc > minLabelDist
    IN  [i |-> state.i + 1, prev |-> pixelInc,
         label |-> IF fits THEN inc ELSE state.label,
         at |-> IF fits THEN state.i ELSE state.at,
         diff |-> IF fits /\ inc.field # state.label.field THEN state.label.field ELSE state.diff]
AxisLabels(length, pixelLength, minLabelDist) ==
    LET Try(state, inc) ==
            IF length < IncDuration(inc) THEN [state EXCEPT !.i = @ + 1]
            ELSE TryIncrement(state, inc, pixelLength \div (length \div IncDuration(inc)), minLabelDist)
    IN  FoldLeft(Try, [i |-> 1, prev |-> -1, label |-> Inc("none", 0), at |-> 1, diff |-> "none"], FieldIncrements)
AxisMark(at, field) ==
    IF at + 2 \in DOMAIN FieldIncrements /\ FieldIncrements[at + 2].field = field THEN FieldIncrements[at + 2]
    ELSE IF at + 1 \in DOMAIN FieldIncrements THEN FieldIncrements[at + 1] ELSE Inc("secs", 1)
NiceAxisIncrements(start, stop, pixelLength, minLabelDist) ==
    LET Marked(end) ==
            [inc |-> AxisMark(end.at, end.label.field), labelInc |-> end.label,
             first |-> OnThisPeriod(start, IF end.diff = "none" THEN end.label.field ELSE end.diff, 0)]
    IN  Marked(AxisLabels(stop - start, pixelLength, minLabelDist))
IsModOfTimeZero(inc, t) ==
    LET d == DateIn(t)
        c == ClockIn(t)
    IN  CASE inc.field = "years" -> d.month = 1 /\ d.day = 1
          [] inc.field = "months" -> (d.month - 1) % inc.step = 0 /\ d.day = 1 /\ t % Day = 0
          [] inc.field = "days" -> (d.day - 1) % inc.step = 0 /\ t % Day = 0
          [] inc.field = "hours" -> c.hour % inc.step = 0 /\ t % Hour = 0
          [] inc.field = "mins" -> c.min % inc.step = 0 /\ c.sec = 0
          [] inc.field = "secs" -> c.sec % inc.step = 0
          [] OTHER -> FALSE
-----------------------------------------------------------------------------
(* Laws, each over the inputs it names. *)

Fields == {"secs", "mins", "hours", "days", "weeks", "months", "years"}
\* The start of a period is not after the time, the next one is, and steps over periods add up.
PeriodsContain(t, field, a, b) ==
    \A start \in {OnThisPeriod(t, field, 0)}, next \in {OnThisPeriod(t, field, 1)} :
        /\ start <= t /\ t < next
        /\ \A inside \in {start, next - 1} : OnThisPeriod(inside, field, 0) = start
        /\ OnThisPeriod(OnThisPeriod(t, field, a), field, b) = OnThisPeriod(t, field, a + b)
        /\ field = "weeks" => Weekday(start) = 1
        /\ field = "days" => ~IsSameDay(t, next) /\ IsSameDay(t, start)
\* Added months change the month and, only where it is too short, the day.
MonthsAdd(t, months, years) ==
    \A added \in {AddMonthAndYearToTime(t, months, years)} : \A old \in {DateIn(t)}, new \in {DateIn(added)} :
        /\ 12 * new.year + new.month = 12 * (old.year + years) + old.month + months
        /\ new.day = old.day \/ (new.day < old.day /\ new.day = MonthDays(new.year)[new.month])
        /\ added % Day = t % Day
        /\ old.day <= 28 => AddMonthAndYearToTime(added, -months, -years) = t
\* Days since 2000 and dates stand for each other, from 1997 up to 2100.
DaysReturn(days) == days \in -1095..36524 => DaysSince2000FromTime(TimeOfDaysSince2000(days)) = days
\* An hour of twelve is read as the hour it was, and the clock shown is at most a quarter off.
ClocksReturn(h, m) ==
    LET twelve == HourAmForHour(h)
        shown == TimeToNearestEmojii(h, m)
        off == (h * 60 + m - shown.hour * 60 - shown.min) % 720
    IN  /\ ParsedHour(twelve.hour, IF twelve.am THEN "am" ELSE "pm") = h
        /\ off <= 15 \/ off >= 705
\* A date keeps what is given of it, and is not in the future if it must not be and no year is
\* given; days that not every month has are left out.
DatesParse(g, now, useAMPM, notFuture) ==
    \A parsed \in {ParseDate(g, now, useAMPM, notFuture)} : \A d \in {DateIn(parsed.time)}, clock \in {ClockIn(parsed.time)} :
        (parsed.ok /\ g.min # 60 /\ Part(g.day, DateIn(now).day) <= 28) =>
            /\ g.month # None => d.month = g.month
            /\ (g.year # None /\ g.month # None) => d.year % 100 = g.year % 100
            /\ g.day # None => d.day = g.day
            /\ clock.min = Max({0, g.min}) /\ clock.sec = Max({0, g.sec})
            /\ g.hour # None /\ useAMPM => HourAmForHour(clock.hour).hour = g.hour
            /\ notFuture /\ g.year = None => parsed.time <= now
\* The parts of a duration are the duration again.
DurationsReturn(d) ==
    LET c == GetDurationHourMinSec(d)
        verbal == DurationToVerbal(d, TRUE)
        text == DurationString(d, TRUE, TRUE, TRUE)
    IN  /\ c.hours * Hour + c.mins * Minute + c.secs = d
        /\ MapThenSumSet(LAMBDA i : verbal[i].unit * verbal[i].n, DOMAIN verbal) = d
        /\ ~text.overflow /\ text.parts = <<c.hours, c.mins, c.secs>>
        /\ d >= Hour => GetSecsFromHMSString(GetDurationAsHMSString(d, TRUE, TRUE, TRUE), TRUE, TRUE, TRUE) = [ok |-> TRUE, secs |-> d]
        /\ d \in Minute..(Hour - 1) =>
               GetSecsFromHMSString(GetDurationAsHMSString(d, TRUE, TRUE, TRUE), FALSE, TRUE, TRUE) = [ok |-> TRUE, secs |-> d]
        /\ DurationString(d, TRUE, TRUE, FALSE).overflow <=> d >= Hour
\* Labels are further apart than asked for, marks come at least as often as labels, and the
\* first mark is not after the start.
AxisIsReadable(start, length, pixels, minDist) ==
    /\ \A axis \in {NiceAxisIncrements(start, start + length, pixels, minDist)} :
        /\ axis.first <= start
        /\ axis.labelInc.field # "none" =>
              /\ pixels \div (length \div IncDuration(axis.labelInc)) > minDist
              /\ IncDuration(axis.inc) <= IncDuration(axis.labelInc)
              /\ IsModOfTimeZero(Inc(axis.labelInc.field, 1), axis.first)
    /\ \A t \in {start, start + length} : XToTime(0, pixels, TimeToX(0, pixels, t, start, start + length), start, start + length) = t
=============================================================================
