-------------------------------- MODULE Words --------------------------------
(***************************************************************************)
(* seq and printf of eudaemonsh (eudaemonsh/src/builtins).                *)
(***************************************************************************)
EXTENDS Columns

(***************************************************************************)
(* seq.  Numbers are counted in hundredths, and floats taken as exact.  A  *)
(* format is [conv, p, w, zero]: "g", or "f" with p <= 2 decimals, in a    *)
(* field of w filled with zeros or blanks.                                 *)
(***************************************************************************)
AbsOf(n) == IF n < 0 THEN -n ELSE n
Zeros(t, w) == IF Len(t) < w THEN Times(48, w - Len(t)) \o t ELSE t

\* Rounded to p decimals, a half to the even neighbour.
RoundedTo(n, unit) == LET q == n \div unit  r == n % unit IN IF 2 * r > unit \/ (2 * r = unit /\ q % 2 = 1) THEN q + 1 ELSE q
fixed(v, p) ==
    LET unit == CASE p = 0 -> 100 [] p = 1 -> 10 [] p = 2 -> 1
        q    == RoundedTo(AbsOf(v), unit)
        one  == 100 \div unit
    IN  (IF v < 0 THEN <<DASH>> ELSE <<>>) \o Dec(q \div one) \o (IF p = 0 THEN <<>> ELSE <<46>> \o Zeros(Dec(q % one), p))

\* The six digits of %g are enough for the numbers that occur.
decimal_places(v) == CASE v % 100 = 0 -> 0 [] v % 100 # 0 /\ v % 10 = 0 -> 1 [] v % 10 # 0 -> 2
format_g(v) == fixed(v, decimal_places(v))
format_number(f, v) == LET t == IF f.conv = "g" THEN format_g(v) ELSE fixed(v, f.p) IN IF f.zero THEN Zeros(t, f.w) ELSE Right(t, f.w)

ActualLast(a, step, b) == LET n == AbsOf(step) IN IF a > b THEN a - n * ((a - b) \div n) ELSE a + n * ((b - a) \div n)
integer_width(v) == Len(format_g(v)) - (IF decimal_places(v) = 0 THEN 0 ELSE decimal_places(v) + 1)
generate_format(o, a, step, b) ==
    LET p     == MaxOf(<<decimal_places(a), decimal_places(step), decimal_places(ActualLast(a, step, b))>>)
        width == MaxOf(<<integer_width(a), integer_width(ActualLast(a, step, b))>>)
    IN  IF "w" \notin o.on THEN [conv |-> "g", p |-> 0, w |-> 0, zero |-> FALSE]
        ELSE IF p > 0 THEN [conv |-> "f", p |-> p, w |-> width + 1 + p, zero |-> TRUE]
        ELSE [conv |-> "g", p |-> 0, w |-> width, zero |-> TRUE]

\* args are one to three numbers: last; first and last; first, increment and last.
seq(w, o, args) ==
    LET first == IF Len(args) = 1 THEN 100 ELSE args[1]
        last  == args[Len(args)]
        incr  == IF Len(args) = 3 THEN args[2] ELSE IF first <= last THEN 100 ELSE -100
        f     == IF o.f # <<>> THEN o.f[1] ELSE generate_format(o, first, incr, last)
        count == AbsOf(last - first) \div AbsOf(incr) + 1
        Nth(i) == first + incr * (i - 1)
        texts == [i \in 1 .. count |-> format_number(f, Nth(i))]
        \* A last number the steps missed by rounding.
        more  == IF format_number(f, Nth(count + 1)) = format_number(f, last) /\ Last(texts) # format_number(f, last)
                 THEN <<format_number(f, last)>> ELSE <<>>
    IN  IF Len(args) \notin 1 .. 3 \/ incr = 0 \/ (incr < 0 /\ first < last) \/ (incr > 0 /\ first > last) THEN Fail(w, 1)
        ELSE SayLines(w, <<JoinWith(texts \o more \o o.t, o.s)>>)

(***************************************************************************)
(* printf.  The format, its escapes replaced, is a sequence of texts and   *)
(* of conversions [on, w, p, conv]: flags, width and precision (Star for   *)
(* an argument, p Unset for none), and the letter of the conversion.       *)
(***************************************************************************)
Star == -2
Wrong == NotInt

InRadix(t, radix) ==
    LET body == IF t # <<>> /\ Head(t) \in {43, DASH} THEN Tail(t) ELSE t
        Value(c) == IF IsDigit(c) THEN c - 48 ELSE IF Down(c) \in 97 .. 102 THEN Down(c) - 87 ELSE radix
        n == FoldLeft(LAMBDA a, c : a * radix + Value(c), 0, body)
    IN  IF body = <<>> \/ \E c \in ToSet(body) : Value(c) >= radix THEN Wrong ELSE IF Head(t) = DASH THEN -n ELSE n

parse_magnitude(t) ==
    IF Len(t) > 1 /\ t[1] = 48 /\ t[2] \in {88, 120} THEN InRadix(Drop(t, 2), 16)
    ELSE IF Len(t) > 1 /\ t[1] = 48 /\ \A c \in ToSet(t) : IsDigit(c) THEN InRadix(t, 8) ELSE InRadix(t, 10)

parse_int(t) ==
    LET body == IF t # <<>> /\ Head(t) \in {43, DASH} THEN Tail(t) ELSE t
        n    == parse_magnitude(body)
    IN  IF t = <<>> THEN 0
        ELSE IF Head(t) \in {34, 39} THEN (IF Len(t) > 1 THEN t[2] ELSE 0)
        ELSE IF n = Wrong THEN Wrong ELSE IF Head(t) = DASH THEN -n ELSE n

parse_uint(t) ==
    LET body == IF t # <<>> /\ Head(t) = 43 THEN Tail(t) ELSE t
    IN  IF t = <<>> \/ Head(t) \in {34, 39} THEN parse_int(t)
        ELSE IF DASH \in ToSet(body) THEN Wrong ELSE parse_magnitude(body)

\* The escapes of an argument of %b: the text, and whether \c ended it.
RECURSIVE process_escapes(_)
process_escapes(t) ==
    LET c      == t[2]
        start  == IF c = 48 THEN 3 ELSE 2
        octals == Span(Take(Drop(t, start - 1), IF c = 48 THEN 4 ELSE 3), LAMBDA d : d \in 48 .. 55)
        Then(text, n) == LET rest == process_escapes(Drop(t, n)) IN [rest EXCEPT !.text = text \o @]
    IN  IF t = <<>> THEN [text |-> <<>>, stop |-> FALSE]
        ELSE IF Head(t) # 92 \/ Len(t) = 1 THEN Then(<<Head(t)>>, 1)
        ELSE CASE c = 99 -> [text |-> <<>>, stop |-> TRUE]
               [] c = 110 -> Then(<<NL>>, 2)
               [] c = 116 -> Then(<<TAB>>, 2)
               [] IsDigit(c) -> IF start + octals = 2 THEN Then(<<c - 48>>, 2)
                                ELSE Then(<<IF octals = 0 THEN 0 ELSE InRadix(SubSeq(t, start, start + octals - 1), 8)>>, start + octals - 1)
               [] OTHER -> Then(<<c>>, 2)

RECURSIVE format_digits(_, _, _)
format_digits(n, radix, upper) ==
    LET d == n % radix
        letter == IF d < 10 THEN 48 + d ELSE (IF upper THEN 55 ELSE 87) + d
    IN  IF n < radix THEN <<letter>> ELSE Append(format_digits(n \div radix, radix, upper), letter)

\* The width is in bytes where it is compared and in characters where it is filled.
Field(t, on, w) == IF w <= Len(Bytes(t)) THEN t ELSE IF "-" \in on THEN Left(t, w) ELSE Right(t, w)

\* Digits behind a sign or a prefix; zeros fill the field only without a precision.
Number(n, prefix, ds, on, w, p) ==
    LET digits == IF p = 0 /\ n = 0 THEN <<>> ELSE Zeros(ds, p)
        t      == prefix \o digits
    IN  IF "0" \in on /\ "-" \notin on /\ p = Unset THEN prefix \o Zeros(digits, w - Len(prefix)) ELSE Field(t, on, w)
format_signed(n, on, w, p) ==
    Number(n, IF n < 0 THEN <<DASH>> ELSE IF "+" \in on THEN <<43>> ELSE IF " " \in on THEN <<SP>> ELSE <<>>,
           format_digits(AbsOf(n), 10, FALSE), on, w, p)
format_unsigned(n, on, w, p, conv) ==
    LET radix  == CASE conv = 111 -> 8 [] conv = 117 -> 10 [] conv \in {88, 120} -> 16
        ds     == format_digits(n, radix, conv = 88)
        digits == IF p = 0 /\ n = 0 THEN <<>> ELSE Zeros(ds, p)
        octal  == conv = 111 /\ "#" \in on /\ n # 0 /\ Head(digits) # 48
    IN  Number(n, IF conv \in {88, 120} /\ "#" \in on /\ n # 0 THEN <<48, conv>> ELSE <<>>, IF octal THEN <<48>> \o digits ELSE digits, on, w, p)

\* A conversion takes its arguments in turn: a width, a precision, a value.  s.args is what
\* is left; s.stop is set by \c, s.bad by an error of this conversion.
NextArg(s, none) == IF s.args = <<>> THEN none ELSE Head(s.args)
Took(s) == [s EXCEPT !.args = IF @ = <<>> THEN @ ELSE Tail(@)]
Put(s, text) == [s EXCEPT !.out = @ \o text]
Error(s, rest) == [s EXCEPT !.code = 1, !.out = @ \o rest]
PrecisionText(p) == IF p = Unset THEN <<>> ELSE <<46>> \o (IF p = Star THEN <<42>> ELSE Dec(p))
Digit0 == <<48>>

Convert(s, on, w, p, conv) ==
    LET text == NextArg(s, <<>>)
        Cut(bytes, t) == IF p # Unset /\ p < Len(bytes) THEN Chars(Take(bytes, p)) ELSE t
        Shown(t) == IF t = Invalid THEN [s EXCEPT !.code = Panicked] ELSE Put(Took(s), Field(t, on, w))
        String(t, stop) == [Shown(Cut(Bytes(t), t)) EXCEPT !.stop = stop]
        Of(escaped) == String(escaped.text, escaped.stop)
        Signed(n)   == IF n = Wrong THEN Error(Took(s), <<>>) ELSE Put(Took(s), format_signed(n, on, w, p))
        Unsigned(u) == IF u = Wrong THEN Error(Took(s), <<>>) ELSE Put(Took(s), format_unsigned(u, on, w, p, conv))
    IN  CASE conv \in {98, 115} -> Of(IF conv = 98 THEN process_escapes(text) ELSE [text |-> text, stop |-> FALSE])
          [] conv = 99 -> IF text = <<>> THEN Took(s) ELSE Put(Took(s), IF "-" \in on THEN Left(<<Head(text)>>, w) ELSE Right(<<Head(text)>>, w))
          [] conv \in {100, 105} -> Signed(parse_int(NextArg(s, Digit0)))
          [] conv \in {111, 117, 120, 88} -> Unsigned(parse_uint(NextArg(s, Digit0)))
          [] OTHER -> Error(s, <<>>)

\* A width or a precision, and what is left of the arguments behind it.
Asked(s, n) == IF n = Star THEN parse_int(NextArg(s, Digit0)) ELSE n
ArgsAfter(s, n) == IF n = Star THEN Took(s) ELSE s

WithPrecision(s, f, on, width, prec) ==
    IF prec = Wrong THEN Error(s, <<f.conv>>)
    ELSE Convert(s, on, AbsOf(width), IF f.p = Star /\ prec < 0 THEN 0 ELSE prec, f.conv)
WithWidth(s, f, width) ==
    IF width = Wrong THEN Error(s, Append(PrecisionText(f.p), f.conv))
    ELSE WithPrecision(ArgsAfter(s, f.p), f, IF f.w = Star /\ width < 0 THEN f.on \cup {"-"} ELSE f.on, width, Asked(s, f.p))

\* An error in a width or precision leaves the rest of the conversion as text.
process_format_spec(s, f) ==
    WithWidth(ArgsAfter(s, f.w), f, Asked(s, f.w))

process_format(s, format) ==
    FoldLeft(LAMBDA a, f : IF a.stop \/ a.code = Panicked THEN a ELSE IF f.conv = 0 THEN Put(a, f.text) ELSE process_format_spec(a, f),
             [s EXCEPT !.stop = FALSE], format)

\* The format again while arguments are left and the last round took one.
RECURSIVE Rounds(_, _), AfterRound(_, _, _)
Rounds(s, format) == AfterRound(s, format, process_format(s, format))
AfterRound(s, format, t) == IF t.args = <<>> \/ t.args = s.args \/ t.code = Panicked THEN t ELSE Rounds(t, format)

Ending(w, s) == Fail(Say(w, s.out), s.code)
printf(w, format, args) == Ending(w, Rounds([args |-> args, out |-> <<>>, code |-> 0, stop |-> FALSE], format))
=============================================================================
