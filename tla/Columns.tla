------------------------------- MODULE Columns -------------------------------
(***************************************************************************)
(* The text tools of eudaemonsh that work on the characters of a line      *)
(* (eudaemonsh/src/builtins): tr, cut, fold, expand, unexpand and base64.  *)
(***************************************************************************)
EXTENDS Sorting

EachLine(w, o, ops, Op(_)) == EachOperand(w, ops, LAMBDA u, name : SayLines(u, Flat(Each(LinesOf(u, name), Op))))

(***************************************************************************)
(* tr.  A set of its command line is a sequence of items: a character c, a *)
(* range from c to d, a class, or c repeated n times (second set only).    *)
(***************************************************************************)
Stretch(c, d) == [i \in 1 .. d - c + 1 |-> c + i - 1]
get_class_chars(class) ==
    CASE class = "lower" -> Stretch(97, 122)
      [] class = "upper" -> Stretch(65, 90)
      [] class = "digit" -> Stretch(48, 57)
      [] class = "alpha" -> Stretch(97, 122) \o Stretch(65, 90)
      [] class = "alnum" -> Stretch(97, 122) \o Stretch(65, 90) \o Stretch(48, 57)
      [] class = "xdigit" -> Stretch(48, 57) \o Stretch(97, 102) \o Stretch(65, 70)
      [] class = "blank" -> <<SP, TAB>>
      [] class = "space" -> <<SP, TAB, NL, CR, 11, 12>>
      [] class = "cntrl" -> Append(Stretch(0, 31), 127)
      [] class = "graph" -> Stretch(33, 126)
      [] class = "print" -> Stretch(32, 126)
      [] class = "punct" -> Stretch(33, 47) \o Stretch(58, 64) \o Stretch(91, 96) \o Stretch(123, 126)

\* A range that runs backwards is its three characters; a repeat without a count is none.
ItemChars(item) ==
    CASE item.kind = "char" -> <<item.c>>
      [] item.kind = "range" -> IF item.c <= item.d THEN Stretch(item.c, item.d) ELSE <<item.c, DASH, item.d>>
      [] item.kind = "class" -> get_class_chars(item.class)
      [] item.kind = "repeat" -> Times(item.c, item.n)
CharSet(items) == Flat(Each(items, ItemChars))
complement(chars) == Keep(Stretch(0, 127), LAMBDA c : c \notin ToSet(chars))

Squeezed(line, set) == FoldLeft(LAMBDA a, c : IF a # <<>> /\ Last(a) = c /\ c \in set THEN a ELSE Append(a, c), <<>>, line)

\* The second set is filled up with its last character; the last pair of a character counts.
Translated(c, set1, set2) ==
    LET at == SelectInSeq(Rev(set1), LAMBDA x : x = c)
        i  == Len(set1) + 1 - at
    IN  IF at = 0 THEN c ELSE IF i <= Len(set2) THEN set2[i] ELSE IF set2 = <<>> THEN NUL ELSE Last(set2)

tr(w, o) ==
    LET given == CharSet(o.sets[1])
        set1 == IF "c" \in o.on THEN complement(given) ELSE given
        set2 == IF Len(o.sets) > 1 THEN CharSet(o.sets[2]) ELSE <<>>
        Kept(line) == Keep(line, LAMBDA c : c \notin ToSet(set1))
        Changed(line) ==
            CASE {"d", "s"} \subseteq o.on -> Squeezed(Kept(line), ToSet(set2))
              [] "d" \in o.on /\ "s" \notin o.on -> Kept(line)
              [] "d" \notin o.on /\ Len(o.sets) = 1 -> Squeezed(line, ToSet(set1))
              [] "d" \notin o.on /\ Len(o.sets) > 1 ->
                     LET new == Each(line, LAMBDA c : Translated(c, set1, set2))
                     IN  IF "s" \in o.on THEN Squeezed(new, ToSet(set2)) ELSE new
    IN  IF Len(o.sets) \notin 1 .. 2 \/ (Len(o.sets) = 1 /\ o.on \cap {"d", "s"} = {}) THEN Fail(w, 1)
        ELSE IF Len(o.sets) = 1 /\ {"d", "s"} \subseteq o.on THEN Fail(w, Panicked)
        ELSE EachLine(w, o, <<>>, LAMBDA line : <<Changed(line)>>)

(***************************************************************************)
(* cut.  A list is read as a sequence of pairs; <<n, 0>> is "n-", and -1   *)
(* stands for what is not a number.                                        *)
(***************************************************************************)
NumberIn(t) == IF t = <<>> \/ \E c \in ToSet(t) : ~IsDigit(c) THEN -1 ELSE Nat10(t)
parse_range(part) ==
    LET dash  == Span(part, LAMBDA c : c # DASH)
        right == Drop(part, dash + 1)
        start == IF dash = 0 THEN 1 ELSE NumberIn(Take(part, dash))
    IN  <<start, IF dash = Len(part) THEN start ELSE IF right = <<>> THEN 0 ELSE IF NumberIn(right) = 0 THEN -1 ELSE NumberIn(right)>>
parse_list(text) == Each(Words(Each(text, LAMBDA c : IF c = 44 THEN SP ELSE c)), parse_range)
IsRefused(list) == list = <<>> \/ \E k \in DOMAIN list : list[k][1] < 1 \/ list[k][2] < 0 \/ list[k][2] \in 1 .. list[k][1] - 1

is_selected(list, pos) ==
    LET open == Keep(list, LAMBDA p : p[2] = 0)
    IN  (open # <<>> /\ pos >= Last(open)[1]) \/ \E k \in DOMAIN list : pos = list[k][1] \/ pos \in list[k][1] .. list[k][2]
Selected(list, t) == Flat([i \in DOMAIN t |-> IF is_selected(list, i) THEN <<t[i]>> ELSE <<>>])

cut_fields(o, line) ==
    LET w == "w" \in o.on
        IsDelimiter(c) == IF w THEN c \in {SP, TAB} ELSE c = o.d
        fields == IF w THEN Words(line) ELSE Split(line, o.d)
    IN  IF ~\E c \in ToSet(line) : IsDelimiter(c) THEN IF "s" \in o.on THEN <<>> ELSE <<line>>
        ELSE <<JoinWith(Selected(o.list, fields), <<IF w THEN TAB ELSE o.d>>)>>

\* Under -b every byte comes out as the character of its number.
CutLine(o, line) ==
    CASE o.modes = {"b"} -> <<Selected(o.list, Bytes(line))>>
      [] o.modes = {"c"} -> <<Selected(o.list, line)>>
      [] o.modes = {"f"} -> cut_fields(o, line)

CutRefuses(o) ==
    \/ Cardinality(o.modes) # 1 \/ IsRefused(parse_list(o.list))
    \/ o.modes # {"f"} /\ o.on \cap {"d", "s", "w"} # {}
    \/ {"w", "d"} \subseteq o.on

cut(w, o, ops) ==
    IF CutRefuses(o) THEN Fail(w, 1)
    ELSE LET read == [o EXCEPT !.list = parse_list(o.list)] IN EachLine(w, read, ops, LAMBDA line : CutLine(read, line))

(***************************************************************************)
(* fold.                                                                   *)
(***************************************************************************)
column_width(c, col) == CASE c = TAB -> 8 - (col % 8) [] IsControl(c) /\ c # TAB -> 0 [] ~IsControl(c) -> 1

\* How many units of t fit, and the last of them that is a blank (0 for none).
RECURSIVE FitColumns(_, _, _)
FitColumns(t, col, width) ==
    IF t = <<>> \/ col + column_width(Head(t), col) > width THEN 0 ELSE 1 + FitColumns(Tail(t), col + column_width(Head(t), col), width)
Fit(o, t) == IF "b" \in o.on THEN MinOf(o.w, Len(t)) ELSE FitColumns(t, 0, o.w)
LastBlank(t, n) == MaxOf([i \in 1 .. n |-> IF t[i] \in {SP, TAB} THEN i ELSE 0])

\* The pieces of a line of characters, or of bytes under -b.  A character wider than a
\* line never fits.
NeverFits == <<-2>>
RECURSIVE FoldPieces(_, _)
FoldPieces(o, t) ==
    LET n == Fit(o, t)
        blank == LastBlank(t, n)
        end == IF "s" \in o.on /\ blank > 0 THEN blank ELSE n
    IN  IF n = Len(t) THEN <<t>> ELSE IF end = 0 THEN <<NeverFits>> ELSE <<Take(t, end)>> \o FoldPieces(o, Drop(t, end))

FoldLine(w, o, line) ==
    LET pieces == IF "b" \in o.on THEN Each(FoldPieces(o, Bytes(line)), Chars) ELSE FoldPieces(o, line)
        broken == SelectInSeq(pieces, LAMBDA p : p = Invalid)
    IN  IF Lost(w) THEN w
        ELSE IF broken > 0 THEN Fail(SayLines(w, Take(pieces, broken - 1)), Panicked)
        ELSE IF NeverFits \in ToSet(pieces) THEN Fail(w, Endless) ELSE SayLines(w, pieces)

fold(w, o, ops) ==
    IF o.w = 0 THEN Fail(w, 1)
    ELSE EachOperand(w, ops, LAMBDA u, name : FoldLeft(LAMBDA v, line : FoldLine(v, o, line), u, LinesOf(u, name)))

(***************************************************************************)
(* expand and unexpand.  stops is empty for every eighth column, has one   *)
(* number for an interval, and lists the stops else.                       *)
(***************************************************************************)
BadStops(stops) == \E i \in DOMAIN stops : stops[i] = 0 \/ (i > 1 /\ stops[i] <= stops[i - 1])
next_tab_stop(stops, column) ==
    LET n == IF stops = <<>> THEN 8 ELSE stops[1]
        k == SelectInSeq(stops, LAMBDA stop : stop > column + 1)
    IN  IF Len(stops) < 2 THEN ((column \div n) + 1) * n ELSE IF k = 0 THEN Unset ELSE stops[k] - 1
AfterTab(stops, column) == IF next_tab_stop(stops, column) = Unset THEN column + 1 ELSE next_tab_stop(stops, column)
Back(column) == IF column > 0 THEN column - 1 ELSE 0

expand_line(stops, line) ==
    FoldLeft(LAMBDA a, c : CASE c = TAB -> [out |-> a.out \o Times(SP, AfterTab(stops, a.col) - a.col), col |-> AfterTab(stops, a.col)]
                             [] c = 8 -> [out |-> Append(a.out, c), col |-> Back(a.col)]
                             [] c \notin {TAB, 8} -> [out |-> Append(a.out, c), col |-> a.col + 1],
             [out |-> <<>>, col |-> 0], line).out

RECURSIVE emit_tabs_and_spaces(_, _, _)
emit_tabs_and_spaces(stops, ocol, dcol) ==
    LET next == next_tab_stop(stops, ocol)
    IN  IF next # Unset /\ next <= dcol /\ next - ocol >= 2 THEN <<TAB>> \o emit_tabs_and_spaces(stops, next, dcol) ELSE Times(SP, dcol - ocol)

\* a.ocol is the column of what was written, a.dcol the column reached.
unexpand_line(stops, all, line) ==
    LET Emitted(a) == [a EXCEPT !.out = @ \o emit_tabs_and_spaces(stops, a.ocol, a.dcol), !.ocol = a.dcol]
        Step(a, c) ==
            LET e == Emitted(a)
                put == [e EXCEPT !.out = Append(@, c)]
            IN  CASE ~all /\ ~a.leading -> [a EXCEPT !.out = Append(@, c)]
                  [] (all \/ a.leading) /\ c = SP -> [a EXCEPT !.dcol = @ + 1]
                  [] (all \/ a.leading) /\ c = TAB -> [a EXCEPT !.dcol = AfterTab(stops, @)]
                  [] (all \/ a.leading) /\ c = 8 -> [put EXCEPT !.ocol = Back(@), !.dcol = Back(@)]
                  [] (all \/ a.leading) /\ c \notin {SP, TAB, 8} -> [put EXCEPT !.ocol = @ + 1, !.dcol = @ + 1, !.leading = FALSE]
    IN  Emitted(FoldLeft(Step, [out |-> <<>>, ocol |-> 0, dcol |-> 0, leading |-> TRUE], line)).out

expand(w, o, ops) == IF BadStops(o.t) THEN Fail(w, 1) ELSE EachLine(w, o, ops, LAMBDA line : <<expand_line(o.t, line)>>)
unexpand(w, o, ops) ==
    IF BadStops(o.t) THEN Fail(w, 1)
    ELSE EachLine(w, o, ops, LAMBDA line : <<unexpand_line(o.t, "a" \in o.on \/ o.t # <<>>, line)>>)

(***************************************************************************)
(* base64.                                                                 *)
(***************************************************************************)
Alphabet == Stretch(65, 90) \o Stretch(97, 122) \o Stretch(48, 57) \o <<43, 47>>
Pad == 61
Sextet(c) == SelectInSeq(Alphabet, LAMBDA x : x = c) - 1

RECURSIVE encode_base64(_)
encode_base64(bs) ==
    LET At(i) == IF i <= Len(bs) THEN bs[i] ELSE 0
        n == At(1) * 65536 + At(2) * 256 + At(3)
        Letter(i, shift) == IF Len(bs) >= i THEN Alphabet[((n \div shift) % 64) + 1] ELSE Pad
    IN  IF bs = <<>> THEN <<>>
        ELSE <<Letter(1, 262144), Letter(1, 4096), Letter(2, 64), Letter(3, 1)>> \o encode_base64(Drop(bs, 3))

\* Invalid for an error.
RECURSIVE decode_base64(_)
decode_base64(cs) ==
    LET At(i) == IF i <= Len(cs) THEN cs[i] ELSE Pad
        V(i)  == Sextet(At(i))
        count == IF At(3) = Pad THEN 1 ELSE IF At(4) = Pad THEN 2 ELSE 3
        these == <<(V(1) * 4) + (V(2) \div 16), ((V(2) % 16) * 16) + (V(3) \div 4), ((V(3) % 4) * 64) + V(4)>>
        rest  == decode_base64(Drop(cs, 4))
    IN  IF cs = <<>> THEN <<>>
        ELSE IF Len(cs) = 1 \/ (\E i \in 1 .. count + 1 : V(i) < 0) \/ rest = Invalid THEN Invalid
        ELSE Take(these, count) \o rest

RECURSIVE wrap_output(_, _)
wrap_output(t, wrap) == IF wrap = 0 \/ Len(t) <= wrap THEN t ELSE Take(t, wrap) \o <<NL>> \o wrap_output(Drop(t, wrap), wrap)

\* What is no UTF-8 comes out as replacement characters, here as one.
Lossy(bs) == IF Chars(bs) = Invalid THEN <<65533>> ELSE Chars(bs)

base64(w, o, ops) ==
    LET from  == Head(Operands(ops))
        input == IF from = Stdin THEN JoinWith(ReadLines(w.in), <<NL>>) ELSE w.files[from]
        IsBlank(c) == c \in {SP, TAB, NL, CR, 12}
        read  == IF "i" \in o.on THEN Keep(input, LAMBDA c : c = Pad \/ c \in ToSet(Alphabet)) ELSE Keep(Bytes(input), LAMBDA c : ~IsBlank(c))
        bytes == decode_base64(read)
        u     == Drain(w, from)
    IN  IF ~There(w, from) THEN Fail(w, 1)
        ELSE IF "d" \notin o.on THEN SayLines(u, <<wrap_output(encode_base64(Bytes(input)), o.w)>>)
        ELSE IF bytes = Invalid THEN Fail(u, 1) ELSE Say(u, Lossy(bytes))
=============================================================================
