------------------------------- MODULE Filters -------------------------------
(***************************************************************************)
(* The text tools of eudaemonsh that work on whole lines                   *)
(* (eudaemonsh/src/builtins): cat, head, tail, nl, wc, uniq, comm, paste,  *)
(* shuf and grep.  Tool(w, o, ops) is the world after the tool ran with    *)
(* the options o on the operands ops: o is a set of letters, or a record   *)
(* that has them in o.on and has the other options by name.  A message on  *)
(* standard error is left out.                                             *)
(***************************************************************************)
EXTENDS Texts

Unset == -1

(***************************************************************************)
(* cat.                                                                    *)
(***************************************************************************)
make_visible(c) ==
    LET Caret(d) == IF d = 127 THEN <<94, 63>> ELSE <<94, d + 64>>
        low == c % 128
    IN  IF c > 127 THEN <<77, DASH>> \o (IF low < 32 \/ low = 127 THEN Caret(low) ELSE <<low>>)
        ELSE IF (c < 32 /\ c # TAB) \/ c = 127 THEN Caret(c) ELSE <<c>>

CatLine(w, o, line) ==
    LET numbered == IF "b" \in o THEN line # <<>> ELSE "n" \in o
        n        == w.mem.n + (IF numbered THEN 1 ELSE 0)
        Shown(c) == IF c = TAB /\ "t" \in o THEN <<94, 73>> ELSE make_visible(c)
    IN  IF "s" \in o /\ line = <<>> /\ w.mem.blank THEN w
        ELSE Say(Remember(w, [n |-> n, blank |-> line = <<>>]),
                 (IF numbered THEN Append(Right(Dec(n), 6), TAB) ELSE <<>>)
                 \o (IF o \cap {"v", "e", "t"} # {} THEN Flat(Each(line, Shown)) ELSE line)
                 \o (IF "e" \in o THEN <<36, NL>> ELSE <<NL>>))

cat(w, o, ops) ==
    EachOperand(Remember(w, [n |-> 0, blank |-> FALSE]), ops,
                LAMBDA u, name : FoldLeft(LAMBDA v, line : CatLine(v, o, line), u, LinesOf(u, name)))

(***************************************************************************)
(* head and tail.  A cut through a character prints nothing.               *)
(***************************************************************************)
\* A name is shortened in what is printed.
NameText(name) == IF name = Stdin THEN <<SP, DASH>> ELSE IF name = "g" THEN <<103>> ELSE <<104>>
Title(name) == <<61, 61, 62, SP>> \o NameText(name) \o <<SP, 60, 61, 61>>

\* Op for each operand, under a title when there are several; a missing file has its
\* title too.
Titled(w, o, ops, Op(_, _)) ==
    LET titles == "q" \notin o.on /\ ("v" \in o.on \/ Len(ops) > 1)
        Headed(u, name) == Remember(IF ~titles THEN u ELSE SayLines(Say(u, IF u.mem THEN <<>> ELSE <<NL>>), <<Title(name)>>), FALSE)
    IN  IF ops = <<>> THEN Drain(Op(w, Stdin), Stdin)
        ELSE FoldLeft(LAMBDA u, name : EachOperand(Headed(u, name), <<name>>, Op), Remember(w, TRUE), ops)

head_string(w, o, text) ==
    IF o.c # Unset THEN Say(w, CharsOrNothing(Take(Bytes(text), o.c)))
    ELSE SayLines(w, Take(Lines(text), IF o.n = Unset THEN 10 ELSE o.n))

head(w, o, ops) ==
    IF o.n = 0 \/ o.c = 0 \/ (o.n # Unset /\ o.c # Unset) THEN Fail(w, 1)
    ELSE Titled(w, o, ops, LAMBDA u, name : head_string(u, o, TextOf(u, name)))

\* o.unit has the letters of n, c and b that were given, o.plus whether the count had a +.
tail_string(w, o, text) ==
    LET bytes  == o.unit \in {{"c"}, {"b"}}
        count  == CASE o.unit = {"b"} -> 512 * o.count
                    [] o.unit = {} -> IF "r" \in o.on THEN Len(text) ELSE 10
                    [] OTHER -> o.count
        all    == IF bytes THEN Bytes(text) ELSE Inclusive(text)
        from   == IF o.plus THEN (IF count > 0 THEN count - 1 ELSE 0) ELSE IF count >= Len(all) THEN 0 ELSE Len(all) - count
        chosen == Drop(all, from)
        pieces == IF bytes THEN Inclusive(CharsOrNothing(chosen)) ELSE chosen
        Closed(l) == IF Last(l) = NL THEN l ELSE Append(l, NL)
    IN  Say(w, Flat(IF "r" \in o.on THEN Each(Rev(pieces), Closed) ELSE pieces))

tail(w, o, ops) ==
    IF Cardinality(o.unit) > 1 THEN Fail(w, 1)
    ELSE Titled(w, o, ops, LAMBDA u, name : tail_string(u, o, TextOf(u, name)))

(***************************************************************************)
(* nl.                                                                     *)
(***************************************************************************)
check_section_delimiter(o, line) ==
    CASE line = o.d \o o.d \o o.d -> "h"
      [] line = o.d \o o.d -> "b"
      [] line = o.d -> "f"
      [] OTHER -> "none"

should_number(o, section, line, blanks) ==
    CASE o.type[section] = "a" -> line # <<>> \/ blanks >= o.l
      [] o.type[section] = "t" -> line # <<>>
      [] o.type[section] = "n" -> FALSE
      [] o.type[section] = "p" -> Finds(line, o.word) # {}

format_line_number(o, n) ==
    CASE o.n = "ln" -> Left(Dec(n), o.w)
      [] o.n = "rn" -> Right(Dec(n), o.w)
      [] o.n = "rz" -> LET t == Dec(n) IN IF Len(t) < o.w THEN Times(48, o.w - Len(t)) \o t ELSE t

NlLine(w, o, line) ==
    LET section  == check_section_delimiter(o, line)
        blanks   == IF line = <<>> THEN w.mem.blanks + 1 ELSE 0
        numbered == should_number(o, w.mem.section, line, blanks)
        field    == IF numbered THEN format_line_number(o, w.mem.n) ELSE Times(SP, o.w)
    IN  IF section # "none"
        THEN Remember(w, [n |-> IF "p" \in o.on THEN w.mem.n ELSE o.v, section |-> section, blanks |-> 0])
        ELSE SayLines(Remember(w, [w.mem EXCEPT !.n = IF numbered THEN @ + o.i ELSE @, !.blanks = IF numbered THEN 0 ELSE blanks]),
                      <<field \o o.s \o line>>)

nl(w, o, ops) ==
    IF o.w = 0 THEN Fail(w, 1)
    ELSE EachOperand(Remember(w, [n |-> o.v, section |-> "b", blanks |-> 0]), ops,
                     LAMBDA u, name : FoldLeft(LAMBDA v, line : NlLine(v, o, line), u, LinesOf(u, name)))

(***************************************************************************)
(* wc.  o is the sequence of letters given; "-" is an operand like others. *)
(***************************************************************************)
WcOptions(o) ==
    LET last == SelectInSeq(Rev(o), LAMBDA c : c \in {"c", "m"})
        on   == ToSet(o) \ {"c", "m"}
    IN  IF o = <<>> THEN {"l", "w", "c"} ELSE on \cup (IF last = 0 THEN {} ELSE {Rev(o)[last]})

MaxOf(ns) == FoldLeft(LAMBDA a, n : IF n > a THEN n ELSE a, 0, ns)
count_string(on, text) ==
    LET Length(l) == IF "m" \in on THEN Len(l) ELSE Len(Bytes(l))
    IN  [l |-> Len(Keep(text, LAMBDA c : c = NL)), w |-> Len(Words(text)), c |-> Len(Bytes(text)), m |-> Len(text),
         L |-> MaxOf(Each(Split(text, NL), Length))]

show_counts(w, on, counts, name) ==
    LET Field(c) == IF c \in on THEN Right(Dec(counts[c]), 7) ELSE <<>>
    IN  SayLines(w, <<Flat(Each(<<"l", "w", "c", "m", "L">>, Field)) \o name>>)

wc(w, o, ops) ==
    LET on    == WcOptions(o)
        CountFile(u, name) ==
            LET counts == count_string(on, u.files[name])
            IN  show_counts(Remember(u, [k \in DOMAIN counts |-> IF k = "L" THEN MaxOf(<<u.mem.L, counts.L>>) ELSE u.mem[k] + counts[k]]),
                            on, counts, <<SP>> \o NameText(name))
        none  == count_string(on, <<>>)
        total == FoldLeft(LAMBDA u, name : IF Has(u, name) THEN CountFile(u, name) ELSE Fail(u, 1), Remember(w, none), ops)
    IN  IF ops = <<>> THEN Drain(show_counts(w, on, count_string(on, TextOf(w, Stdin)), <<>>), Stdin)
        ELSE IF Len(ops) > 1 THEN show_counts(total, on, total.mem, <<SP, 116>>) ELSE total

(***************************************************************************)
(* uniq.                                                                   *)
(***************************************************************************)
RECURSIVE SkipFields(_, _)
SkipFields(line, n) ==
    IF n = 0 THEN line
    ELSE LET rest == TrimStart(line) IN SkipFields(Drop(rest, Span(rest, LAMBDA c : ~IsSpace(c))), n - 1)

get_comparison_key(o, line) ==
    LET key == Drop(SkipFields(line, o.f), o.s) IN IF "i" \in o.on THEN Lower(key) ELSE key

\* The runs of lines with the key of their first.
Runs(o, ls) ==
    FoldLeft(LAMBDA a, line : IF a # <<>> /\ get_comparison_key(o, line) = get_comparison_key(o, Last(a)[1])
                              THEN [a EXCEPT ![Len(a)] = Append(@, line)] ELSE Append(a, <<line>>), <<>>, ls)

format_line(o, line, count) == IF "c" \in o.on THEN Right(Dec(count), 4) \o <<SP>> \o line ELSE line

process_uniq(o, text) ==
    LET runs == Runs(o, Lines(text))
        Shown(r) == /\ "u" \in o.on => Len(r) = 1
                    /\ "d" \in o.on => Len(r) > 1
        OneOf(r) == IF Shown(r) THEN <<format_line(o, r[1], Len(r))>> ELSE <<>>
        many == Keep(runs, LAMBDA r : Len(r) > 1)
        AllOf(i) == (IF o.D = "prepend" \/ (o.D = "separate" /\ i > 1) THEN <<<<>>>> ELSE <<>>)
                    \o [k \in DOMAIN many[i] |-> format_line(o, many[i][k], k)]
    IN  IF o.D = "off" THEN Flat(Each(runs, OneOf)) ELSE Flat([i \in DOMAIN many |-> AllOf(i)])

\* To standard output, or to a file.
Written(w, to, text) == IF to = <<>> THEN Say(w, text) ELSE Store(w, Head(to), text)

uniq(w, o, ops) ==
    LET from == Head(Operands(ops))
    IN  IF Len(ops) > 2 \/ ~There(w, from) THEN Fail(w, 1)
        ELSE Drain(Written(w, Drop(ops, 1), Unlines(process_uniq(o, TextOf(w, from)))), from)

(***************************************************************************)
(* comm.                                                                   *)
(***************************************************************************)
compare_lines(o, a, b) == IF "i" \in o THEN Cmp(Lower(a), Lower(b)) ELSE Cmp(a, b)

RECURSIVE process_comm(_, _, _)
process_comm(o, a, b) ==
    LET order == IF b = <<>> THEN -1 ELSE IF a = <<>> THEN 1 ELSE compare_lines(o, Head(a), Head(b))
        Tabs(cs) == Times(TAB, Cardinality(cs \ o))
        In(c, line) == IF c \in o THEN <<>> ELSE <<line>>
    IN  IF a = <<>> /\ b = <<>> THEN <<>>
        ELSE CASE order < 0 -> In("1", Head(a)) \o process_comm(o, Tail(a), b)
               [] order > 0 -> In("2", Tabs({"1"}) \o Head(b)) \o process_comm(o, a, Tail(b))
               [] order = 0 -> In("3", Tabs({"1", "2"}) \o Head(a)) \o process_comm(o, Tail(a), Tail(b))

comm(w, o, ops) ==
    LET u == Drain(w, ops[1])
    IN  IF Len(ops) # 2 \/ ~There(w, ops[1]) \/ ~There(w, ops[2]) THEN Fail(w, 1)
        ELSE Drain(SayLines(u, process_comm(o, Lines(TextOf(w, ops[1])), Lines(TextOf(u, ops[2])))), ops[2])

(***************************************************************************)
(* paste.  Delimiters take turns; NUL stands for none.                     *)
(***************************************************************************)
Delimiter(o, k) == LET d == o.d[((k - 1) % Len(o.d)) + 1] IN IF d = NUL THEN <<>> ELSE <<d>>
Pasted(o, ls) == Flat([i \in DOMAIN ls |-> (IF i > 1 THEN Delimiter(o, i - 1) ELSE <<>>) \o ls[i]])

\* The i-th operand's line of row r; the operands "-" take the lines of standard input in turn.
parallel(w, o, ops) ==
    LET dashes == Cardinality({i \in DOMAIN ops : ops[i] = Stdin})
        Turn(i, r) == IF ops[i] = Stdin THEN (r - 1) * dashes + Cardinality({k \in 1 .. i : ops[k] = Stdin}) ELSE r
        Cell(i, r) == LET ls == LinesOf(w, ops[i]) IN IF Turn(i, r) \in DOMAIN ls THEN <<ls[Turn(i, r)]>> ELSE <<>>
        rows == Keep([r \in 1 .. MaxOf([i \in DOMAIN ops |-> Len(LinesOf(w, ops[i]))]) |-> r], LAMBDA r : \E i \in DOMAIN ops : Cell(i, r) # <<>>)
    IN  IF \E i \in DOMAIN ops : ~There(w, ops[i]) THEN Fail(w, 1)
        ELSE Drain(SayLines(w, Each(rows, LAMBDA r : Pasted(o, [i \in DOMAIN ops |-> Flat(Cell(i, r))]))), IF dashes > 0 THEN Stdin ELSE ops[1])

sequential(w, o, ops) ==
    EachOperand(w, ops, LAMBDA u, name : IF LinesOf(u, name) = <<>> THEN u ELSE SayLines(u, <<Pasted(o, LinesOf(u, name))>>))

paste(w, o, ops) ==
    IF ops = <<>> \/ o.d = <<>> THEN Fail(w, 1)
    ELSE IF "s" \in o.on THEN sequential(w, o, ops) ELSE parallel(w, o, ops)

(***************************************************************************)
(* shuf.  Most errors of its input leave it empty and the exit code 0.     *)
(***************************************************************************)
collect_input(w, o, ops) ==
    LET end     == IF "z" \in o.on THEN NUL ELSE NL
        pieces  == Keep(Split(TextOf(w, Head(Operands(ops))), end), LAMBDA l : l # <<>> \/ "z" \in o.on)
        trimmed == IF pieces # <<>> /\ Last(pieces) = <<>> THEN Front(pieces) ELSE pieces
    IN  CASE o.i # <<>> -> [k \in 1 .. o.i[2] - o.i[1] + 1 |-> Dec(o.i[1] + k - 1)]
          [] o.i = <<>> /\ "e" \in o.on -> o.args
          [] o.i = <<>> /\ "e" \notin o.on -> IF Len(ops) > 1 \/ ~There(w, Head(Operands(ops))) THEN <<>> ELSE trimmed

\* What generate_output may pick: indices of lines, all different without -r.
Picks(o, n) ==
    LET count == IF o.n = Unset THEN n ELSE IF "r" \in o.on \/ o.n < n THEN o.n ELSE n
    IN  IF n = 0 THEN {<<>>}
        ELSE {p \in [1 .. count -> 1 .. n] : "r" \in o.on \/ IsInjective(p)}

shuf(w, o, ops, pick) ==
    LET ls == collect_input(w, o, ops)
        end == IF "z" \in o.on THEN NUL ELSE NL
        read == IF o.i = <<>> /\ "e" \notin o.on THEN Drain(w, Head(Operands(ops))) ELSE w
    IN  IF o.i # <<>> /\ (o.i[1] > o.i[2] \/ "e" \in o.on \/ ops # <<>>) THEN Fail(w, 1)
        ELSE IF ls = <<>> THEN read
        ELSE Written(read, o.o, Flat([k \in DOMAIN pick |-> Append(ls[pick[k]], end)]))

(***************************************************************************)
(* grep.  o.words are the patterns: words without metacharacters, fixed    *)
(* strings under -F and regular expressions else.  The options A, B and m  *)
(* are Unset or numbers.  The directory "d" holds every file.              *)
(***************************************************************************)
Directory == "d"
Known == <<"g", "h">>

IsWordChar(c) == IsAlpha(c) \/ IsDigit(c) \/ c = 95

\* The characters as the pattern compares them.
Folded(o, t) == IF "i" \in o.on THEN Lower(t) ELSE t
WordAt(t, i) == i \in DOMAIN t /\ IsWordChar(t[i])
Boundary(t, i) == WordAt(t, i - 1) # WordAt(t, i)

\* Where the pattern matches the line: under -F anywhere; -w and -x are for the others.
PlacesOf(o, word, line) ==
    {i \in Finds(Folded(o, line), Folded(o, word)) :
        /\ ("w" \in o.on /\ "F" \notin o.on) => Boundary(line, i) /\ Boundary(line, i + Len(word))
        /\ ("x" \in o.on /\ "F" \notin o.on) => i = 1 /\ Len(word) = Len(line)}

is_match(o, line) == \E k \in DOMAIN o.words : PlacesOf(o, o.words[k], line) # {}

\* The places -o prints: under -F the next search begins one byte further, else behind the match.
RECURSIVE Apart(_, _)
Apart(places, n) ==
    IF places = {} THEN {}
    ELSE LET first == CHOOSE i \in places : \A j \in places : i <= j IN {first} \cup Apart({i \in places : i >= first + n}, n)
find_matches(o, line) ==
    LET Of(k) == LET all == PlacesOf(o, o.words[k], line)
                 IN  IF "F" \in o.on THEN all ELSE Apart(all, IF o.words[k] = <<>> THEN 1 ELSE Len(o.words[k]))
        found == UNION {{<<i, k>> : i \in Of(k)} : k \in DOMAIN o.words}
        Before(a, b) == a[1] < b[1] \/ (a[1] = b[1] /\ a[2] < b[2])
    IN  Each(SetToSortSeq(found, Before), LAMBDA m : SubSeq(line, m[1], m[1] + Len(o.words[m[2]]) - 1))

\* One byte further may be inside a character, or behind the end of the line.
SearchPanics(o, line) ==
    /\ {"F", "o"} \subseteq o.on
    /\ \E k \in DOMAIN o.words : PlacesOf(o, o.words[k], line) # {} /\ (o.words[k] = <<>> \/ Head(o.words[k]) > 127)

(***************************************************************************)
(* The lines of one file.                                                  *)
(***************************************************************************)
Listing(o) == o.on \cap {"q", "c", "l", "L"} = {}

print_line(name, number, line, mark) ==
    (IF name = <<>> THEN <<>> ELSE Append(name, mark)) \o (IF number = 0 THEN <<>> ELSE Append(Dec(number), mark)) \o line

\* s.queue holds the numbers of the lines kept for -B, s.last the number of the last line
\* printed (0 for none), s.after how many lines -A has left.
Matched(s, o, name, ls, n) ==
    LET context == o.A > 0 \/ o.B > 0
        Gap(m, last) == context /\ last # 0 /\ m > last + 1 /\ s.matched
        before  == s.queue
        last    == IF before = <<>> THEN s.last ELSE Last(before)
        number  == IF "n" \in o.on THEN n ELSE 0
        Dashes(c) == IF c THEN <<<<DASH, DASH>>>> ELSE <<>>
        lines   == Dashes(before # <<>> /\ Gap(before[1], s.last))
                   \o [i \in DOMAIN before |-> print_line(name, before[i], ls[before[i]], DASH)]
                   \o Dashes(Gap(n, last))
                   \o (IF "o" \in o.on THEN Each(find_matches(o, ls[n]), LAMBDA t : print_line(name, number, t, COLON))
                       ELSE <<print_line(name, number, ls[n], COLON)>>)
        counted == [s EXCEPT !.count = @ + 1, !.done = o.m # Unset /\ s.count + 1 >= o.m]
    IN  IF Listing(o) /\ SearchPanics(o, ls[n]) THEN [s EXCEPT !.panic = TRUE, !.done = TRUE]
        ELSE IF Listing(o) THEN [counted EXCEPT !.out = @ \o lines, !.queue = <<>>, !.last = n, !.matched = TRUE, !.after = o.A]
        ELSE counted

\* Seeded bug: the lines before a match are dropped one too late.
UnmatchedBug(s, o, name, ls, n) ==
    IF s.after > 0 /\ Listing(o)
    THEN [s EXCEPT !.out = Append(@, print_line(name, IF "n" \in o.on THEN n ELSE 0, ls[n], DASH)), !.last = n, !.after = @ - 1]
    ELSE IF o.B > 0 THEN [s EXCEPT !.queue = Append(IF Len(@) > o.B THEN Tail(@) ELSE @, n)] ELSE s

Unmatched(s, o, name, ls, n) ==
    IF s.after > 0 /\ Listing(o)
    THEN [s EXCEPT !.out = Append(@, print_line(name, IF "n" \in o.on THEN n ELSE 0, ls[n], DASH)), !.last = n, !.after = @ - 1]
    ELSE IF o.B > 0 THEN [s EXCEPT !.queue = Append(IF Len(@) >= o.B THEN Tail(@) ELSE @, n)] ELSE s

Report(w, o, name, s) ==
    LET shown == IF name = <<>> THEN NameText(Stdin) ELSE name
        named == ("l" \in o.on /\ s.count > 0) \/ ("L" \in o.on /\ s.count = 0)
        total == CASE "q" \in o.on -> <<>>
                   [] "q" \notin o.on /\ "c" \in o.on -> <<print_line(name, 0, Dec(s.count), COLON)>>
                   [] o.on \cap {"q", "c"} = {} -> IF named THEN <<shown>> ELSE <<>>
    IN  [SayLines(w, s.out \o total) EXCEPT !.mem.match = @ \/ s.count > 0, !.mem.panic = @ \/ s.panic]

grep_lines(w, o, name, ls) ==
    Report(w, o, name,
           FoldLeft(LAMBDA a, n : IF a.done THEN a
                                  ELSE IF is_match(o, ls[n]) # ("v" \in o.on) THEN Matched(a, o, name, ls, n) ELSE Unmatched(a, o, name, ls, n),
                    [out |-> <<>>, count |-> 0, queue |-> <<>>, last |-> 0, after |-> 0, matched |-> FALSE, done |-> FALSE, panic |-> FALSE],
                    [n \in DOMAIN ls |-> n]))

(***************************************************************************)
(* Files, directories, exit codes.                                         *)
(***************************************************************************)
grep_file(w, o, named, name) ==
    LET ls == Lines(w.files[name])
        hit == \E n \in DOMAIN ls : is_match(o, ls[n]) # ("v" \in o.on)
    IN  IF "a" \notin o.on /\ NUL \in ToSet(w.files[name])
        THEN [SayLines(w, IF hit /\ "q" \notin o.on THEN <<<<66, SP>> \o NameText(name)>> ELSE <<>>) EXCEPT !.mem.match = @ \/ hit]
        ELSE grep_lines(w, o, IF named THEN NameText(name) ELSE <<>>, ls)

Quit(w, o) == w.mem.panic \/ ("q" \in o.on /\ w.mem.match)
Through(w, o, names, Op(_, _)) == FoldLeft(LAMBDA u, name : IF Quit(u, o) THEN u ELSE Op(u, name), w, names)

grep_path(w, o, named, name) ==
    LET files == IF name # Directory THEN <<name>> ELSE IF "r" \in o.on THEN Known ELSE <<>>
        found == Keep(files, LAMBDA n : Has(w, n))
    IN  IF found = <<>> /\ (name # Directory \/ "r" \notin o.on) THEN [w EXCEPT !.mem.error = TRUE]
        ELSE Through(w, o, found, LAMBDA u, n : grep_file(u, o, named, n))

Concluded(w) == Fail(w, IF w.mem.panic THEN Panicked ELSE IF w.mem.error THEN 2 ELSE IF w.mem.match THEN 0 ELSE 1)
grep(w, o, ops) ==
    LET named == "h" \notin o.on /\ (o.on \cap {"H", "r"} # {} \/ Len(ops) > 1)
        start == Remember(w, [match |-> FALSE, error |-> FALSE, panic |-> FALSE])
    IN  IF o.words = <<>> THEN Fail(w, 2)
        ELSE IF ops = <<>> THEN Concluded(Drain(grep_lines(start, o, IF named THEN NameText(Stdin) ELSE <<>>, LinesOf(w, Stdin)), Stdin))
        ELSE Concluded(Through(start, o, ops, LAMBDA u, name : grep_path(u, o, named, name)))
=============================================================================
