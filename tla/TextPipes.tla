------------------------------ MODULE TextPipes ------------------------------
(***************************************************************************)
(* Pipelines of the text tools: a text, two files g and h and the mtime of *)
(* g, and one or two commands, the second of which reads what the first    *)
(* wrote.  What the tools promise is said of the texts before and after,   *)
(* or of a command and the one that undoes it, never of how a tool works.  *)
(***************************************************************************)
EXTENDS Words, Conditions, Calendar

CONSTANTS
    Worlds,     \* texts, files and mtimes to start from
    Offered,    \* by name, the commands: records of cmd, o and ops
    Second,     \* by name, what may follow the command in a pipeline
    Facts,      \* what test finds of files
    Now         \* the time of the clock

ASSUME TextPipesAssumption == \A n \in DOMAIN Second : Second[n] \subseteq DOMAIN Offered

VARIABLES
    text,       \* what is in the pipe
    files,      \* the files
    clock,      \* the mtime of g
    code,       \* the last exit code
    trail       \* the commands so far, each with the text before

vars == <<text, files, clock, code, trail>>

OrNow(t) == IF IsTime(t) THEN t ELSE Now
TimeGiven(o, arg) ==
    CASE o.form = "t" -> parse_time_arg1(arg, o.year)
      [] o.form = "d" -> parse_time_darg(arg)
      [] o.form = "old" -> IF AllDigits(arg) /\ Len(arg) \in {8, 10} THEN OrNow(parse_time_arg2(arg, Len(arg) = 10, o.year)) ELSE Now
Shifted(time, secs) == IF ~IsTime(time) \/ secs = NotInt THEN BadTime ELSE Later(time, 0, secs)

\* touch with the time given by -t, by -d or before the operands, taken from the pipe.  What
\* is no time before the operands is an operand, and the time is the clock's.
TouchTime(w, o) ==
    Shifted(TimeGiven(o, JoinWith(ReadLines(w.in), <<NL>>)), IF o.A = <<>> THEN 0 ELSE parse_time_offset(o.A))

Init ==
    /\ \E w \in Worlds : text = w.text /\ files = [g |-> w.g, h |-> w.h] /\ clock = w.clock
    /\ code = 0 /\ trail = <<>>

May(name) ==
    /\ code \notin {Panicked, Endless}
    /\ trail # <<>> => Len(trail) = 1 /\ name \in Second[trail[1].c.cmd]

Wrote(c, w) ==
    /\ text' = w.out /\ files' = w.files /\ code' = w.code
    /\ trail' = Append(trail, [c |-> c, was |-> text])

Here == World(text, files)
Given(name) == {c \in Offered[name] : May(name)}
Says(c, w) == Wrote(c, w) /\ UNCHANGED clock

Cat      == \E c \in Given("cat") : Says(c, cat(Here, c.o, c.ops))
HeadOf   == \E c \in Given("head") : Says(c, head(Here, c.o, c.ops))
TailOf   == \E c \in Given("tail") : Says(c, tail(Here, c.o, c.ops))
Nl       == \E c \in Given("nl") : Says(c, nl(Here, c.o, c.ops))
Wc       == \E c \in Given("wc") : Says(c, wc(Here, c.o, c.ops))
Uniq     == \E c \in Given("uniq") : Says(c, uniq(Here, c.o, c.ops))
Comm     == \E c \in Given("comm") : Says(c, comm(Here, c.o, c.ops))
Paste    == \E c \in Given("paste") : Says(c, paste(Here, c.o, c.ops))
Grep     == \E c \in Given("grep") : Says(c, grep(Here, c.o, c.ops))
Sort     == \E c \in Given("sort") : Says(c, sort(Here, c.o, c.ops))
Cut      == \E c \in Given("cut") : Says(c, cut(Here, c.o, c.ops))
Fold     == \E c \in Given("fold") : Says(c, fold(Here, c.o, c.ops))
Expand   == \E c \in Given("expand") : Says(c, expand(Here, c.o, c.ops))
Unexpand == \E c \in Given("unexpand") : Says(c, unexpand(Here, c.o, c.ops))
Base64   == \E c \in Given("base64") : Says(c, base64(Here, c.o, c.ops))
Seqs     == \E c \in Given("seq") : Says(c, seq(Here, c.o, c.ops))
Printf   == \E c \in Given("printf") : Says(c, printf(Here, c.o, c.ops))
Tr       == \E c \in Given("tr") : Says(c, tr(Here, c.o))
Test     == \E c \in Given("test") : Says(c, Fail(Here, test(c.o.bracket, Facts, c.ops)))
Date     == \E c \in Given("date") : Says(c, date(Here, c.o, [g |-> clock], Now))

\* The generator is seeded from the system: any choice may come out.
Shuf ==
    \E c \in Given("shuf") : \E pick \in Picks(c.o, Len(collect_input(Here, c.o, c.ops))) :
        Says(c, shuf(Here, c.o, c.ops, pick))

Touch ==
    \E c \in Given("touch") : \E time \in {TouchTime(Here, c.o)} :
        /\ Wrote(c, Fail(Here, IF IsTime(time) THEN 0 ELSE 1))
        /\ clock' = IF IsTime(time) THEN time ELSE clock

Next == \/ Cat \/ HeadOf \/ TailOf \/ Nl \/ Wc \/ Uniq \/ Comm \/ Paste \/ Grep \/ Sort \/ Tr \/ Cut \/ Fold
        \/ Expand \/ Unexpand \/ Base64 \/ Seqs \/ Printf \/ Test \/ Date \/ Shuf \/ Touch

Spec == Init /\ [][Next]_vars

-----------------------------------------------------------------------------
(***************************************************************************)
(* Nothing is lost: what a tool leaves out, its counterpart prints.        *)
(***************************************************************************)
CountOf(s, v) == Cardinality({i \in DOMAIN s : s[i] = v})
SameLines(s, t) == \A l \in ToSet(s) \cup ToSet(t) : CountOf(s, l) = CountOf(t, l)
Tailed(in, unit, n) == tail(World(in, files), [on |-> {}, unit |-> {unit}, count |-> n, plus |-> TRUE], <<>>).out
Headed1(in, n) == IF n <= 0 THEN <<>> ELSE head(World(in, files), [on |-> {}, n |-> n, c |-> Unset], <<>>).out
NumberAt(line) == Nat10(Take(TrimStart(line), Span(TrimStart(line), IsDigit)))
After(line, c) == Drop(line, SelectInSeq(line, LAMBDA d : d = c))
InOrder(ls) == \A i \in 1 .. Len(ls) - 1 : Cmp(ls[i], ls[i + 1]) <= 0
Column(ls, tabs) == LET InIt(l) == Span(l, LAMBDA c : c = TAB) = tabs
                    IN  Each(Keep(ls, InIt), LAMBDA l : Drop(l, tabs))
Counts(line) == [i \in 1 .. Len(line) \div 7 |-> Nat10(Trim(SubSeq(line, 7 * i - 6, 7 * i)))]

\* in is what c read from the pipe, out what it wrote.
Kept(c, in, out, exit) ==
    LET L == ReadLines(in)  O == ReadLines(out)
        Numbered == \A i \in DOMAIN O : LET n == NumberAt(O[i]) IN
                      O[i] # <<DASH, DASH>> =>
                        /\ n \in DOMAIN L /\ IsSuffix(L[n], O[i])
                        /\ \A j \in 1 .. i - 1 : O[j] # <<DASH, DASH>> => NumberAt(O[j]) < n
        Selects(o, l) == ToSet(o.words) # {} /\ is_match(o, l) # ("v" \in o.on)
    IN  CASE c.cmd = "head" -> exit = 0 =>
               /\ c.o.n # Unset => out \o Tailed(in, "n", c.o.n + 1) = Unlines(L)
               /\ (c.o.c # Unset /\ Chars(Take(Bytes(Unlines(L)), c.o.c)) # Invalid) => out \o Tailed(in, "c", c.o.c + 1) = Unlines(L)
          [] c.cmd = "tail" -> (c.o.unit = {"n"} /\ ~c.o.plus /\ c.o.on = {}) => Headed1(in, Len(L) - c.o.count) \o out = Unlines(L)
          [] c.cmd = "cat" -> IF c.o = {"s"} THEN Keep(O, LAMBDA l : l # <<>>) = Keep(L, LAMBDA l : l # <<>>) /\ \A i \in 1 .. Len(O) - 1 : O[i] # <<>> \/ O[i + 1] # <<>>
                              ELSE c.o \subseteq {"n", "b"} => Len(O) = Len(L) /\ \A i \in DOMAIN L : IsSuffix(L[i], O[i])
          [] c.cmd = "nl" -> exit = 0 => Len(O) = Len(L) /\ \A i \in DOMAIN L : IsSuffix(c.o.s \o L[i], O[i])
          [] c.cmd = "grep" ->
               /\ c.o.on \subseteq {"v", "i", "w", "x", "F"} /\ c.o.A + c.o.B = 0 /\ c.o.words # <<>> =>
                    LET flipped == [c.o EXCEPT !.on = IF "v" \in @ THEN @ \ {"v"} ELSE @ \cup {"v"}]
                        others  == ReadLines(grep(World(in, files), flipped, <<>>).out)
                    IN  /\ Len(O) + Len(others) = Len(L) /\ SameLines(O \o others, L)
                        /\ ToSet(O) \cap ToSet(others) = {}
                        /\ exit = 0 <=> O # <<>>
               /\ "n" \in c.o.on => Numbered
               /\ (c.o.on = {"n"} /\ c.o.m = Unset /\ c.o.words # <<>>) =>
                    \A k \in DOMAIN L : (\E i \in DOMAIN O : O[i] # <<DASH, DASH>> /\ NumberAt(O[i]) = k)
                                        <=> \E j \in (k - c.o.A) .. (k + c.o.B) : j \in DOMAIN L /\ Selects(c.o, L[j])
          [] c.cmd = "uniq" -> (c.o.on = {"c"} /\ c.o.D = "off" /\ c.o.f + c.o.s = 0) => Flat(Each(O, LAMBDA l : [k \in 1 .. NumberAt(l) |-> Drop(l, 5)])) = L
          [] c.cmd = "wc" -> c.o = <<>> => Counts(out)[1] = Len(L) /\ Counts(out)[3] = Len(Bytes(Unlines(L)))
          [] c.cmd = "tr" -> /\ exit = 0 => Len(O) = Len(L)
                             /\ (c.o.on = {} /\ exit = 0) => \A i \in DOMAIN L : Len(O[i]) = Len(L[i])
          [] c.cmd = "fold" -> exit = 0 => Keep(out, LAMBDA d : d # NL) = Keep(in, LAMBDA d : d # NL)
          [] c.cmd \in {"sort", "shuf"} -> (c.o.on \cap {"u", "c", "r", "e", "z"} = {} /\ c.o.o = <<>> /\ exit = 0 /\ (c.cmd = "shuf" => c.o.i = <<>> /\ c.o.n = Unset)) =>
                             SameLines(O, IF c.cmd = "sort" THEN L ELSE Keep(L, LAMBDA l : l # <<>>))
          [] OTHER -> TRUE

OfFiles(c, out) ==
    LET g == Lines(files["g"])  h == Lines(files["h"])  O == ReadLines(out)
        Both(on) == ReadLines(comm(World(<<>>, files), on, <<"g", "h">>).out)
    IN  CASE c.cmd = "comm" -> (c.ops = <<"g", "h">> /\ c.o = {} /\ InOrder(g) /\ InOrder(h)) =>
                 /\ SameLines(Both({"2", "3"}) \o Both({"1", "2"}), g)
                 /\ SameLines(Column(O, 1) \o Column(O, 2), h)
                 /\ ToSet(Column(O, 0)) \cap ToSet(Column(O, 1)) = {}
          [] c.cmd = "wc" -> (c.ops = <<"g", "h">> /\ c.o = <<>>) => \A k \in 1 .. 3 : Counts(O[3])[k] = Counts(O[1])[k] + Counts(O[2])[k]
          [] OTHER -> TRUE

\* What tools leave out, fold or count is neither lost nor printed twice: head and tail,
\* grep and grep -v, uniq -c, comm, nl, wc, fold, sort and shuf.
NothingLost ==
    [][Len(trail') = 1 =>
         LET c == trail'[1].c IN IF c.ops = <<>> THEN Kept(c, text, text', code') ELSE OfFiles(c, text')]_vars

(***************************************************************************)
(* One order: sort, sort -c, sort -u, uniq and comm agree.  Orders are     *)
(* said here of lines, of their first word (-k 1,1) and of the words from  *)
(* the second on (-k 2).                                                   *)
(***************************************************************************)
OneOnly == <<49, 44, 49>>
FromTwo == <<50>>
Spoken(o) ==
    /\ o.on \ {"u", "s"} \in {{}, {"r"}, {"f"}, {"n"}, {"n", "r"}} /\ o.o = <<>> /\ o.t = Unset
    /\ o.keys \in {<<>>, <<OneOnly>>, <<FromTwo>>}
Without(o, letters) == [o EXCEPT !.on = @ \ letters]
LeadingNumber(l) == LET n == Int10(Trim(l)) IN IF n = NotInt THEN 0 ELSE n
Wanted(o, l) ==
    CASE o.keys = <<>> -> l
      [] o.keys = <<OneOnly>> -> JoinWith(Take(Words(l), 1), <<SP>>)
      [] o.keys = <<FromTwo>> -> JoinWith(Drop(Words(l), 1), <<SP>>)
Meant(o, l, m) ==
    LET k == Wanted(o, l)  n == Wanted(o, m)
        order == IF "n" \in o.on THEN Sign(LeadingNumber(k) - LeadingNumber(n)) ELSE IF "f" \in o.on THEN Cmp(Upper(k), Upper(n)) ELSE Cmp(k, n)
    IN  IF "r" \in o.on THEN -order ELSE order

\* Lines with equal keys stay as they came; or the whole line decides, and no two lines are equal to the order.
Stable(o) == o.keys = <<>> \/ "s" \in o.on
Total(o) == o.on \cap {"c", "z"} = {} /\ o.o = <<>> /\ IF o.keys = <<>> THEN o.on \subseteq {"r", "u"} ELSE "s" \notin o.on
Sorted(t, o) == sort(World(t, files), o, <<>>).out
Full(t) == Unlines(Keep(ReadLines(t), LAMBDA l : l # <<>>))
Firsts(o, ls) == Flat([i \in DOMAIN ls |-> IF \E j \in 1 .. i - 1 : Meant(o, ls[j], ls[i]) = 0 THEN <<>> ELSE <<ls[i]>>])
Once(ls) == \A i, j \in DOMAIN ls : ls[i] = ls[j] => i = j

\* What sort writes: -u the first of each run of lines with equal keys, whatever decides among them.
InItsOrder(o, in, out) ==
    LET O == ReadLines(out)
        Alike(ls, l) == Keep(ls, LAMBDA m : Meant(o, l, m) = 0)
    IN  IF "u" \in o.on
        THEN /\ O = Firsts(o, ReadLines(Sorted(in, Without(o, {"u"}))))
             /\ \A i \in 1 .. Len(O) - 1 : Meant(o, O[i], O[i + 1]) < 0
        ELSE \A i \in 1 .. Len(O) :
                /\ i < Len(O) => Meant(o, O[i], O[i + 1]) <= 0
                /\ IF Stable(o) THEN Alike(O, O[i]) = Alike(ReadLines(in), O[i]) ELSE InOrder(Alike(O, O[i]))

\* With -u and keys the whole line still decides between equal keys: no line twice is all it asks.
Accepts(o, t) ==
    IF "u" \in o.on /\ ~Stable(o) THEN Sorted(t, Without(o, {"c", "u"})) = t /\ Once(ReadLines(t)) ELSE Sorted(t, Without(o, {"c"})) = t

\* What comm makes of two texts in order: of each line as many as the texts have in common, and the rest.
Compared(g, h, out) ==
    LET Common(l) == MinOf(CountOf(g, l), CountOf(h, l))
    IN  /\ InOrder(Each(out, LAMBDA l : Drop(l, Span(l, LAMBDA c : c = TAB))))
        /\ \A l \in ToSet(g) \cup ToSet(h) :
              /\ CountOf(Column(out, 2), l) = Common(l)
              /\ CountOf(Column(out, 0), l) = CountOf(g, l) - Common(l)
              /\ CountOf(Column(out, 1), l) = CountOf(h, l) - Common(l)

Starting(t, c) == \E l \in ToSet(ReadLines(t)) : l # <<>> /\ Head(l) = c
Spaced(t) == ~(Starting(t, SP) \/ TAB \in ToSet(t) \/ \E i \in 1 .. Len(t) - 1 : t[i] = SP /\ t[i + 1] = SP)
\* uniq looks at the lines, or at what -k 2 looks at.
SameKey(o, u, t) == \/ o.keys = <<>> /\ u.f = 0
                    \/ o.keys = <<FromTwo>> /\ u.f = 1 /\ Spaced(t)
PlainUniq(o) == o.on = {} /\ o.D = "off" /\ o.s = 0

\* What the first command being sort means for the second.
AfterSort(o, d) ==
    CASE d.cmd = "sort" -> /\ d.o = o => text' = text
                           /\ d.o = [o EXCEPT !.on = @ \cup {"c"}] => code' = 0
      [] d.cmd = "uniq" -> (d.ops = <<>> /\ PlainUniq(d.o)) =>
            /\ (Total(o) /\ d.o.f = 0) => Once(ReadLines(text')) /\ ToSet(ReadLines(text')) = ToSet(ReadLines(text))
            /\ (o.on = {} /\ o.t = Unset /\ SameKey(o, d.o, text)) =>
                  text' = Sorted(trail'[1].was, [o EXCEPT !.on = {"u"}])
      [] d.cmd = "comm" -> (d.ops = <<"-", "g">> /\ d.o = {} /\ o.on = {} /\ o.keys = <<>> /\ InOrder(Lines(files["g"])) /\ ~Starting(text \o files["g"], TAB)) =>
            Compared(ReadLines(text), Lines(files["g"]), ReadLines(text'))

\* sort puts lines in the order its letters and keys say, each key's lines as the whole line
\* decides or as they came, and -u leaves the first of each; sort -c accepts exactly the texts
\* sort leaves as they are; sorting again changes nothing and sort -c accepts it; sort takes
\* shuf back wherever the whole line decides; uniq after sort drops what -u drops, and comm
\* finds in a sorted text what it has in common with another.
OrderIsOne ==
    [][LET c == trail'[1].c  d == trail'[2].c
       IN  /\ (Len(trail') = 1 /\ c.cmd = "sort" /\ c.ops = <<>> /\ code' = 0 /\ Spoken(c.o)) => InItsOrder(c.o, text, text')
           /\ (Len(trail') = 1 /\ c.cmd = "sort" /\ c.ops = <<>> /\ "c" \in c.o.on /\ code' \in {0, 1}) => (code' = 0 <=> Accepts(c.o, Full(text)))
           /\ (Len(trail') = 2 /\ c.cmd = "sort" /\ c.ops = <<>> /\ c.o.o = <<>> /\ c.o.on \cap {"c", "z"} = {} /\ code = 0) => AfterSort(c.o, d)
           /\ (Len(trail') = 2 /\ c.cmd = "shuf" /\ c.ops = <<>> /\ c.o.on = {} /\ c.o.n = Unset /\ c.o.i = <<>> /\ d.cmd = "sort" /\ d.ops = <<>> /\ Total(d.o) /\ code' = 0) =>
                 text' = Sorted(Full(trail'[1].was), d.o)
      ]_vars

(***************************************************************************)
(* Round trips of two commands.                                            *)
(***************************************************************************)
UndoneBy(c, d, was, is) ==
    LET L == ReadLines(was)
    IN  CASE c.cmd = "base64" -> ("d" \notin c.o.on /\ "d" \in d.o.on) => is = JoinWith(L, <<NL>>)
          [] c.cmd = "nl" -> (d.o.on = {} /\ d.o.modes = {"f"} /\ d.o.list = <<50, DASH>>) => is = (IF code = 0 THEN Unlines(L) ELSE <<>>)
          [] c.cmd = "unexpand" -> (code = 0 /\ c.o.t = d.o.t) => is = expand(World(was, files), d.o, <<>>).out
          [] c.cmd = "tail" -> (c.o = d.o /\ c.o.on = {"r"} /\ c.o.unit = {"n"} /\ c.o.plus /\ c.o.count = 0) => is = Unlines(L)
          [] c.cmd = "grep" -> (c.o.on = {} /\ c.o.words # <<>> /\ d.o = <<"l">>) =>
                                 Trim(ReadLines(is)[1]) = ReadLines(grep(World(was, files), [c.o EXCEPT !.on = {"c"}], <<>>).out)[1]
          [] OTHER -> TRUE

\* The ways touch reads a time, as formats of date.
Stamps == [t   |-> <<Piece("Y"), Piece("m"), Piece("d"), Piece("H"), Piece("M"), Plain(46), Piece("S")>>,
           d   |-> DateParts \o <<Plain(84), Piece("H"), Plain(COLON), Piece("M"), Plain(COLON), Piece("S"), Plain(46), [Piece("N") EXCEPT !.w = 3], Plain(90)>>,
           old |-> <<Piece("m"), Piece("d"), Piece("H"), Piece("M")>>]
Offsets == [none |-> <<>>, back |-> <<DASH, 48, 49, 48, 50>>]
Printed(c, form) == c.o.formats = <<Stamps[form]>> /\ c.o.r = "g" /\ c.o.f = <<>> /\ c.o.iso = "" /\ c.o.on = {}
BeforeEpoch(t) == t.day < 0 /\ t.ms > 0

\* touch gives a file the time that date printed of it, as far as it was printed.
Restored(c, d) ==
    LET form  == d.o.form
        Seen  == [clock EXCEPT !.ms = IF form = "d" THEN @ ELSE 0, !.sec = IF form = "old" THEN @ - (@ % 60) ELSE @]
        Moved == Later(Seen, 0, IF d.o.A = Offsets.back THEN -62 ELSE 0)
    IN  (/\ Printed(c, form) /\ c.o.v = <<>> /\ ~BeforeEpoch(clock) /\ d.o.A \in {Offsets.none, Offsets.back}
         /\ form = "old" => Civil(clock.day).y = d.o.year)
        => code' = 0 /\ clock' = Moved

\* base64 and base64 -d, nl and cut, unexpand and expand, tail -r twice, grep and wc -l,
\* date and touch: the second undoes the first.
RoundTrips ==
    [][Len(trail') = 2 /\ trail'[1].c.ops = <<>> /\ trail'[2].c.ops = <<>> =>
         LET c == trail'[1].c  d == trail'[2].c
         IN  IF c.cmd = "date" THEN Restored(c, d) ELSE UndoneBy(c, d, trail'[1].was, text')]_vars

(***************************************************************************)
(* Meaning: test, seq, printf and date -v.                                 *)
(***************************************************************************)
\* An expression is [op, kids, words, is]: a leaf has its words and its truth.
RECURSIVE Render(_), Meaning(_)
Render(t) == CASE t.op = "leaf" -> t.words
               [] t.op = "!" -> <<"!">> \o Render(t.kids[1])
               [] t.op = "(" -> <<"(">> \o Render(t.kids[1]) \o <<")">>
               [] t.op \in {"-a", "-o"} -> Render(t.kids[1]) \o <<t.op>> \o Render(t.kids[2])
Meaning(t) == CASE t.op = "leaf" -> t.is
                [] t.op = "!" -> ~Meaning(t.kids[1])
                [] t.op = "(" -> Meaning(t.kids[1])
                [] t.op = "-a" -> Meaning(t.kids[1]) /\ Meaning(t.kids[2])
                [] t.op = "-o" -> Meaning(t.kids[1]) \/ Meaning(t.kids[2])

\* -a binds closer than -o, and ! closer than both; of four words the first ! binds all.
RECURSIVE WellFormed(_)
WellFormed(t) ==
    /\ \A i \in DOMAIN t.kids : WellFormed(t.kids[i])
    /\ t.op = "!" => t.kids[1].op \in {"leaf", "!", "("}
    /\ t.op = "-a" => t.kids[1].op \in {"leaf", "!", "("} /\ t.kids[2].op # "-o"
    /\ t.op = "-o" => t.kids[1].op # "-o"
Ambiguous(t) == Len(Render(t)) = 4 /\ Head(Render(t)) = "!" /\ t.op # "!"

SeqMeans(c, out) ==
    LET ls == ReadLines(out)
        first == IF Len(c.ops) = 1 THEN 100 ELSE c.ops[1]
        last  == Last(c.ops)
        step  == IF Len(c.ops) = 3 THEN c.ops[2] ELSE IF first <= last THEN 100 ELSE -100
    IN  /\ \A i \in DOMAIN ls : parse_f64(ls[i]) = first + (i - 1) * step /\ ("w" \in c.o.on /\ first >= 0) => Len(ls[i]) = Len(ls[1])
        /\ IF step > 0 THEN first + Len(ls) * step > last /\ first + (Len(ls) - 1) * step <= last
           ELSE first + Len(ls) * step < last /\ first + (Len(ls) - 1) * step >= last

PrintfMeans(c, out) ==
    LET f == c.o[1]  n == Int10(c.ops[1])
    IN  (f.conv = 100 /\ n # NotInt /\ (n = 0 \/ Head(c.ops[1]) # 48)) => Int10(Trim(out)) = n /\ Len(out) >= f.w

\* What date printed in the form of touch -t, read by touch.
DateMeans(c, out) ==
    LET a == c.o.v[1]
        t == parse_time_arg1(ReadLines(out)[1], 0)
        from == Civil(clock.day)  to == Civil(t.day)
        by == a.sign * a.value
        months == 12 * (to.y - from.y) + to.m - from.m
    IN  CASE a.name = "mon" /\ a.unit = "d" /\ a.sign # 0 -> Weekday(t.day) = 1 /\ t.day - clock.day \in (IF a.sign = 1 THEN 0 .. 6 ELSE -6 .. 0) /\ t.sec = clock.sec
          [] a.name = "feb" /\ a.unit = "m" /\ a.sign # 0 -> to.m = 2 /\ months \in (IF a.sign = 1 THEN 0 .. 11 ELSE -11 .. 0)
          [] a.name = "" /\ a.sign # 0 /\ a.unit \in {"d", "w"} -> t = Later([clock EXCEPT !.ms = 0], IF a.unit = "d" THEN by ELSE 7 * by, 0)
          [] a.name = "" /\ a.sign # 0 /\ a.unit \in {"H", "M", "S"} -> t = Later([clock EXCEPT !.ms = 0], 0, by * (CASE a.unit = "H" -> 3600 [] a.unit = "M" -> 60 [] a.unit = "S" -> 1))
          [] a.name = "" /\ a.sign # 0 /\ a.unit \in {"m", "y"} -> months = by * (IF a.unit = "m" THEN 1 ELSE 12) /\ t.sec = clock.sec
                                                              /\ (to.d = from.d \/ (to.d < from.d /\ Civil(t.day + 1).d = 1))
          [] OTHER -> TRUE

\* test gives every expression the truth its operators have, seq counts, printf %d prints
\* the number it was given, and date -v moves the time by what it was told.
MeansWhatItSays ==
    [][Len(trail') = 1 =>
         LET c == trail'[1].c
         IN  /\ (c.cmd = "test" /\ c.o.tree # <<>>) => code' = IF Meaning(c.o.tree[1]) THEN 0 ELSE 1
             /\ (c.cmd = "seq" /\ code' = 0 /\ c.o.f = <<>> /\ c.o.s = <<NL>>) => SeqMeans(c, text')
             /\ (c.cmd = "printf" /\ Len(c.o) = 1 /\ Len(c.ops) = 1 /\ code' = 0) => PrintfMeans(c, text')
             /\ (c.cmd = "date" /\ code' = 0 /\ Printed(c, "t") /\ Len(c.o.v) = 1 /\ ~BeforeEpoch(clock)) => DateMeans(c, text')]_vars
=============================================================================
