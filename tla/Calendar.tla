------------------------------ MODULE Calendar ------------------------------
(***************************************************************************)
(* Times: what touch makes of the time it is given (touch.rs) and what     *)
(* date prints and adjusts (date.rs).  A time is [day, sec, ms]: days      *)
(* since 1970-01-01, seconds of the day, milliseconds.  Of a format string *)
(* the pieces are kept: [conv, text, w], conv "text" for plain text.       *)
(***************************************************************************)
EXTENDS Texts

Time(day, sec, ms) == [day |-> day + sec \div 86400, sec |-> sec % 86400, ms |-> ms]
BadTime == [day |-> 0, sec |-> -1, ms |-> 0]
IsTime(t) == t.sec >= 0
Later(t, days, secs) == Time(t.day + days, t.sec + secs, t.ms)
SumTo(n, Op(_)) == FoldLeft(LAMBDA a, i : a + Op(i), 0, [i \in 1 .. n |-> i])

(***************************************************************************)
(* touch.                                                                  *)
(***************************************************************************)
\* Seeded bug: the years divisible by 400 are forgotten.
is_leapBug(y) == y % 4 = 0 /\ y % 100 # 0

is_leap(y) == (y % 4 = 0 /\ y % 100 # 0) \/ y % 400 = 0
YearDays(y) == IF is_leap(y) THEN 366 ELSE 365
MonthDays == <<31, 28, 31, 30, 31, 30, 31, 31, 30, 31, 30, 31>>

datetime_to_ms(year, month, day, hour, minute, second) ==
    LET Forward(i)  == YearDays(1969 + i)
        Backward(i) == YearDays(1970 - i)
        Length(m)   == MonthDays[m] + (IF m = 2 /\ is_leap(year) THEN 1 ELSE 0)
    IN  Time(SumTo(year - 1970, Forward) - SumTo(1970 - year, Backward) + SumTo(month - 1, Length) + day - 1,
             hour * 3600 + minute * 60 + second, 0)

InRange(month, day, hour, minute, second) ==
    month \in 1 .. 12 /\ day \in 1 .. 31 /\ hour \in 0 .. 23 /\ minute \in 0 .. 59 /\ second \in 0 .. 60
IfInRange(year, month, day, hour, minute, second) ==
    IF InRange(month, day, hour, minute, second) THEN datetime_to_ms(year, month, day, hour, minute, second) ELSE BadTime

AllDigits(t) == \A i \in DOMAIN t : IsDigit(t[i])
\* Two digits of t from place i on.
Pair(t, i) == Nat10(SubSeq(t, i, i + 1))
Century(yy, first) == IF yy < first THEN 2000 + yy ELSE 1900 + yy

\* -t [[CC]YY]MMDDhhmm[.SS]
parse_time_arg1(arg, this_year) ==
    LET dot  == SelectInSeq(arg, LAMBDA c : c = 46)
        body == IF dot = 0 THEN arg ELSE Take(arg, dot - 1)
        ss   == IF dot = 0 THEN <<48, 48>> ELSE Drop(arg, dot)
        At(i, year) == IfInRange(year, Pair(body, i), Pair(body, i + 2), Pair(body, i + 4), Pair(body, i + 6), Pair(ss, 1))
    IN  IF Len(ss) # 2 \/ ~AllDigits(ss) \/ ~AllDigits(body) THEN BadTime
        ELSE CASE Len(body) = 8  -> At(1, this_year)
               [] Len(body) = 10 -> At(3, Century(Pair(body, 1), 69))
               [] Len(body) = 12 -> At(5, 100 * Pair(body, 1) + Pair(body, 3))
               [] OTHER -> BadTime

\* The obsolescent MMDDhhmm[YY] before the operands.
parse_time_arg2(arg, has_year, this_year) ==
    IfInRange(IF has_year THEN Century(Pair(arg, 9), 39) ELSE this_year, Pair(arg, 1), Pair(arg, 3), Pair(arg, 5), Pair(arg, 7), 0)

parse_fractional_seconds(t) ==
    IF t = <<>> \/ ~AllDigits(t) THEN NotInt
    ELSE CASE Len(t) = 1 -> 100 * Nat10(t) [] Len(t) = 2 -> 10 * Nat10(t) [] OTHER -> Nat10(Take(t, 3))

\* -d YYYY-MM-DDThh:mm:SS[.frac][Z]; the zone is not looked at.
Unsigned(t) == IF t # <<>> /\ Head(t) = DASH THEN NotInt ELSE Int10(t)
\* The six numbers, the parts they are read from, the text around T.
FromNumbers(ns, frac) == IF NotInt \in ToSet(ns) THEN BadTime ELSE [IfInRange(ns[1], ns[2], ns[3], ns[4], ns[5], ns[6]) EXCEPT !.ms = frac]
FromParts(dates, times, frac) ==
    IF Len(dates) # 3 \/ Len(times) # 3 \/ frac = NotInt THEN BadTime
    ELSE FromNumbers([i \in 1 .. 6 |-> IF i = 1 THEN Int10(dates[1]) ELSE Unsigned((dates \o times)[i])], frac)
FromDateAndTime(date, time, dot) ==
    IF dot = 0 THEN FromParts(Split(date, DASH), Split(time, COLON), 0)
    ELSE FromParts(Split(date, DASH), Split(Take(time, dot - 1), COLON), parse_fractional_seconds(Drop(time, dot)))
parse_time_darg(arg) ==
    LET sep  == IF 84 \in ToSet(arg) THEN 84 ELSE SP
        at   == SelectInSeq(arg, LAMBDA c : c = sep)
        time == IF Last(arg) = 90 THEN Drop(Front(arg), at) ELSE Drop(arg, at)
        Point(c) == SelectInSeq(time, LAMBDA d : d = c)
    IN  IF Len(Keep(arg, LAMBDA c : c = COLON)) < 2 \/ at = 0 THEN BadTime
        ELSE FromDateAndTime(Take(arg, at - 1), time, IF Point(46) # 0 THEN Point(46) ELSE Point(44))

\* -A [-][[HH]MM]SS, in seconds.
parse_time_offset(arg) ==
    LET minus  == arg # <<>> /\ Head(arg) = DASH
        digits == IF minus THEN Tail(arg) ELSE arg
        secs   == CASE Len(digits) = 2 -> Pair(digits, 1)
                    [] Len(digits) = 4 -> 60 * Pair(digits, 1) + Pair(digits, 3)
                    [] Len(digits) = 6 -> 3600 * Pair(digits, 1) + 60 * Pair(digits, 3) + Pair(digits, 5)
    IN  IF Len(digits) \notin {2, 4, 6} \/ ~AllDigits(digits) THEN NotInt ELSE IF minus THEN -secs ELSE secs

(***************************************************************************)
(* The calendar of the chrono library.                                     *)
(***************************************************************************)
DayNumber(y, m, d) ==
    LET year == IF m <= 2 THEN y - 1 ELSE y
        moon == (m + 9) % 12
    IN  365 * year + year \div 4 - year \div 100 + year \div 400 + (153 * moon + 2) \div 5 + d - 719469
Civil(n) ==
    LET day  == n + 719468
        era  == day \div 146097
        doe  == day % 146097
        yoe  == (doe - doe \div 1460 + doe \div 36524 - doe \div 146096) \div 365
        doy  == doe - (365 * yoe + yoe \div 4 - yoe \div 100)
        moon == (5 * doy + 2) \div 153
        m    == IF moon < 10 THEN moon + 3 ELSE moon - 9
    IN  [y |-> yoe + 400 * era + (IF m <= 2 THEN 1 ELSE 0), m |-> m, d |-> doy - (153 * moon + 2) \div 5 + 1]
Weekday(n) == (n + 4) % 7
days_in_month(year, month) ==
    CASE month \in {1, 3, 5, 7, 8, 10, 12} -> 31
      [] month \in {4, 6, 9, 11} -> 30
      [] month = 2 -> IF year % 400 = 0 \/ (year % 4 = 0 /\ year % 100 # 0) THEN 29 ELSE 28

(***************************************************************************)
(* date -v.  An adjustment is [sign, value, name, unit]; sign 0 sets.      *)
(***************************************************************************)
WeekdayNames == <<"sun", "mon", "tue", "wed", "thu", "fri", "sat">>
MonthNames == <<"jan", "feb", "mar", "apr", "may", "jun", "jul", "aug", "sep", "oct", "nov", "dec">>
Lesser(a, b) == IF a < b THEN a ELSE b

\* The same time of day on another day, the last of the month at most.
OnDate(t, y, m, d) == [t EXCEPT !.day = DayNumber(y, m, Lesser(d, days_in_month(y, m)))]

adjust_year(t, c, n) == OnDate(t, c.y + n, c.m, c.d)
adjust_year_absolute(t, c, n) ==
    LET y == IF n < 69 THEN 2000 + n ELSE IF n < 100 THEN 1900 + n ELSE IF n > 1900 THEN n ELSE 1900 + n
    IN  OnDate(t, y, c.m, c.d)
adjust_month(t, c, n) == LET total == 12 * c.y + c.m - 1 + n IN OnDate(t, total \div 12, (total % 12) + 1, c.d)
adjust_month_absolute(t, c, n) == IF n \in 1 .. 12 THEN OnDate(t, c.y, n, c.d) ELSE BadTime
adjust_day(t, n) == Later(t, n, 0)
adjust_day_absolute(t, c, n) == IF n \in 1 .. days_in_month(c.y, c.m) THEN OnDate(t, c.y, c.m, n) ELSE BadTime

\* To the next or the last one of that name, today if it is one.
Distance(from, to, sign, cycle) == IF sign > 0 THEN (to - from) % cycle ELSE -((from - to) % cycle)
adjust_to_month_name(t, c, month, sign) == adjust_month(t, c, Distance(c.m, month, sign, 12))
adjust_to_weekday_name(t, day, sign) == adjust_day(t, Distance(Weekday(t.day), day, sign, 7))

adjust_hour_absolute(t, n) == IF n \in 0 .. 23 THEN [t EXCEPT !.sec = 3600 * n + (@ % 3600)] ELSE BadTime
adjust_minute_absolute(t, n) == IF n \in 0 .. 59 THEN [t EXCEPT !.sec = 3600 * (@ \div 3600) + 60 * n + (@ % 60)] ELSE BadTime
adjust_second_absolute(t, n) == IF n \in 0 .. 59 THEN [t EXCEPT !.sec = 60 * (@ \div 60) + n] ELSE BadTime

NameValue(a) ==
    CASE a.unit \in {"d", "w"} -> SelectInSeq(WeekdayNames, LAMBDA n : n = a.name) - 1
      [] a.unit = "m" -> SelectInSeq(MonthNames, LAMBDA n : n = a.name) - (IF a.name \in ToSet(MonthNames) THEN 0 ELSE 1)
      [] OTHER -> -1

\* A name that follows no sign is taken as a number.
\* c is the civil date of t, n the value of the adjustment.
Adjust(t, c, a, n) ==
    LET named == a.name # ""
        by    == a.sign * n
        set   == a.sign = 0
    IN  CASE named /\ n = -1 -> BadTime
          [] a.unit = "y" /\ ~(named /\ n = -1) -> IF set THEN adjust_year_absolute(t, c, n) ELSE adjust_year(t, c, by)
          [] a.unit = "m" /\ ~(named /\ n = -1) -> IF set THEN adjust_month_absolute(t, c, n) ELSE IF named THEN adjust_to_month_name(t, c, n, a.sign) ELSE adjust_month(t, c, by)
          [] a.unit = "w" /\ ~(named /\ n = -1) -> adjust_day(t, 7 * by)
          [] a.unit = "d" /\ ~(named /\ n = -1) -> IF set THEN adjust_day_absolute(t, c, n) ELSE IF named THEN adjust_to_weekday_name(t, n, a.sign) ELSE adjust_day(t, by)
          [] a.unit = "H" /\ ~named -> IF set THEN adjust_hour_absolute(t, n) ELSE Later(t, 0, 3600 * by)
          [] a.unit = "M" /\ ~named -> IF set THEN adjust_minute_absolute(t, n) ELSE Later(t, 0, 60 * by)
          [] a.unit = "S" /\ ~named -> IF set THEN adjust_second_absolute(t, n) ELSE Later(t, 0, by)
apply_adjustment(t, a) == Adjust(t, Civil(t.day), a, IF a.name # "" THEN NameValue(a) ELSE a.value)
apply_adjustments(t, adjustments) == FoldLeft(LAMBDA u, a : IF IsTime(u) THEN apply_adjustment(u, a) ELSE u, t, adjustments)

(***************************************************************************)
(* Printing and reading a date.                                            *)
(***************************************************************************)
Padded(n, w) == LET t == Dec(n) IN IF Len(t) < w THEN Times(48, w - Len(t)) \o t ELSE t
Piece(conv) == [conv |-> conv, text |-> <<>>, w |-> 0]
Plain(c) == [conv |-> "text", text |-> <<c>>, w |-> 0]

\* What chrono prints for one conversion; it panics on one it does not know.
Shown(t, c, p) ==
    LET Name(letters, i) == SubSeq(letters, 3 * i - 2, 3 * i)
        weekdays == <<83, 117, 110, 77, 111, 110, 84, 117, 101, 87, 101, 100, 84, 104, 117, 70, 114, 105, 83, 97, 116>>
        months   == <<74, 97, 110, 70, 101, 98, 77, 97, 114, 65, 112, 114, 77, 97, 121, 74, 117, 110, 74, 117, 108, 65, 117, 103, 83, 101, 112, 79, 99, 116, 78, 111, 118, 68, 101, 99>>
    IN  CASE p.conv = "text" -> p.text
          [] p.conv = "Y" -> Padded(c.y, 4)
          [] p.conv = "m" -> Padded(c.m, 2)
          [] p.conv = "d" -> Padded(c.d, 2)
          [] p.conv = "e" -> Right(Dec(c.d), 2)
          [] p.conv = "H" -> Padded(t.sec \div 3600, 2)
          [] p.conv = "M" -> Padded((t.sec \div 60) % 60, 2)
          [] p.conv = "S" -> Padded(t.sec % 60, 2)
          [] p.conv = "a" -> Name(weekdays, Weekday(t.day) + 1)
          [] p.conv = "b" -> Name(months, c.m)
          [] p.conv = "z" -> <<43, 48, 48, 48, 48>>
          [] p.conv = "Z" -> <<85, 84, 67>>
          [] p.conv = "N" -> IF p.w \in 1 .. 9 THEN Take(Padded(t.ms, 3) \o Times(48, 6), p.w) ELSE Padded(t.ms, 3) \o Times(48, IF p.w = 0 THEN 6 ELSE p.w - 3)
          [] OTHER -> Invalid
Joined(pieces) == IF Invalid \in ToSet(pieces) THEN Invalid ELSE Flat(pieces)
format_strftime(t, format) ==
    Joined([i \in DOMAIN format |-> Shown(t, Civil(t.day), format[i])])

DateParts == <<Piece("Y"), Plain(DASH), Piece("m"), Plain(DASH), Piece("d")>>
Default   == <<Piece("a"), Plain(SP), Piece("b"), Plain(SP), Piece("e"), Plain(SP), Piece("H"), Plain(COLON), Piece("M"), Plain(COLON), Piece("S"), Plain(SP), Piece("Z"), Plain(SP), Piece("Y")>>
Rfc2822   == <<Piece("a"), Plain(44), Plain(SP), Piece("d"), Plain(SP), Piece("b"), Plain(SP), Piece("Y"), Plain(SP), Piece("H"), Plain(COLON), Piece("M"), Plain(COLON), Piece("S"), Plain(SP), Piece("z")>>
IsoFormat(precision) ==
    LET parts == <<Plain(84), Piece("H"), Plain(COLON), Piece("M"), Plain(COLON), Piece("S"), Plain(44), Piece("N")>>
        kept  == CASE precision = "date" -> 0 [] precision = "hours" -> 2 [] precision = "minutes" -> 4 [] precision = "seconds" -> 6 [] precision = "ns" -> 8
    IN  DateParts \o Take(parts, kept) \o (IF kept = 0 THEN <<>> ELSE <<Plain(43), Plain(48), Plain(48), Plain(COLON), Plain(48), Plain(48)>>)

\* chrono reads numbers of up to four (%Y) or two digits; r is [rest, f, ok].
ReadPiece(r, p) ==
    LET most == IF p.conv = "Y" THEN 4 ELSE 2
        n    == Lesser(most, Span(r.rest, IsDigit))
        v    == Nat10(Take(r.rest, n))
        fits == CASE p.conv = "Y" -> TRUE [] p.conv = "m" -> v \in 1 .. 12 [] p.conv = "d" -> v \in 1 .. 31
                  [] p.conv = "H" -> v \in 0 .. 23 [] p.conv = "M" -> v \in 0 .. 59 [] p.conv = "S" -> v \in 0 .. 59
    IN  IF ~r.ok THEN r
        ELSE IF p.conv = "text" THEN IF IsPrefix(p.text, r.rest) THEN [r EXCEPT !.rest = Drop(@, Len(p.text))] ELSE [r EXCEPT !.ok = FALSE]
        ELSE IF n = 0 \/ ~fits THEN [r EXCEPT !.ok = FALSE]
        ELSE [r EXCEPT !.rest = Drop(@, n), !.f = [k \in DOMAIN @ \cup {p.conv} |-> IF k = p.conv THEN v ELSE @[k]]]

\* A date that does not exist is ignored when the format has a time.
parse_date(text, format, base) ==
    LET r    == FoldLeft(ReadPiece, [rest |-> text, f |-> [k \in {} |-> 0], ok |-> TRUE], format)
        f    == r.f
        date == {"Y", "m", "d"} \subseteq DOMAIN f /\ f["d"] <= days_in_month(f["Y"], f["m"])
        time == {"H", "M"} \subseteq DOMAIN f
        day  == IF date THEN DayNumber(f["Y"], f["m"], f["d"]) ELSE base.day
        sec  == IF time THEN 3600 * f["H"] + 60 * f["M"] + (IF "S" \in DOMAIN f THEN f["S"] ELSE 0) ELSE base.sec
    IN  IF r.ok /\ r.rest = <<>> /\ (date \/ time) THEN Time(day, sec, 0) ELSE BadTime

\* The mtime of a file in whole seconds, towards 1970; a fraction before 1970 is no time.
ReferenceTime(mtime) == IF mtime.day < 0 /\ mtime.ms > 0 THEN [Later(mtime, 0, 1) EXCEPT !.ms = -1] ELSE mtime

\* o: on (R, j, z), iso, formats, r ("" or the file's name), v, f and operand (<<>> without).
DateRefuses(o, files) ==
    \/ o.iso # "" /\ ("R" \in o.on \/ o.formats # <<>>)
    \/ o.r # "" /\ o.r \notin DOMAIN files
    \/ Len(o.formats) > 1
    \/ o.operand # <<>> /\ "j" \notin o.on /\ o.f = <<>>
    \/ "z" \in o.on
    \/ o.f # <<>> /\ o.operand = <<>>

FormatOf(o) ==
    CASE o.iso # "" -> IsoFormat(o.iso)
      [] o.iso = "" /\ "R" \in o.on -> Rfc2822
      [] OTHER -> IF o.formats = <<>> THEN Default ELSE o.formats[1]

\* The time to start from, the time after the adjustments, the text of it: each may be an error.
PrintText(w, text) == IF text = Invalid THEN Fail(w, Panicked) ELSE SayLines(w, <<text>>)
PrintTime(w, o, time, now) ==
    IF ~IsTime(time) THEN Fail(w, 1) ELSE PrintText(w, format_strftime(IF time.ms < 0 THEN now ELSE time, FormatOf(o)))
PrintFrom(w, o, start, now) ==
    IF ~IsTime(start) \/ (o.v # <<>> /\ start.ms < 0) THEN Fail(w, 1) ELSE PrintTime(w, o, apply_adjustments(start, o.v), now)
date(w, o, files, now) ==
    LET base == IF o.r = "" THEN now ELSE ReferenceTime(files[o.r])
    IN  IF DateRefuses(o, files) THEN Fail(w, 1)
        ELSE PrintFrom(w, o, IF o.f = <<>> THEN base ELSE parse_date(o.operand, o.f, base), now)
=============================================================================
