-------------------------------- MODULE Texts --------------------------------
(***************************************************************************)
(* Texts as the text tools of eudaemonsh see them: a text is a sequence of *)
(* code points.  What the Rust library does with a string (lines, split,   *)
(* trim, from_utf8, ...) is modelled for the characters up to U+07FF.      *)
(*                                                                         *)
(* A tool is a function of a world w: w.in is what its standard input      *)
(* holds, w.files the files by name, w.out what it has written, w.code its *)
(* exit code, w.mem what it remembers from one operand to the next.        *)
(***************************************************************************)
EXTENDS Integers, Sequences, SequencesExt, FiniteSets

NUL == 0  TAB == 9  NL == 10  CR == 13  SP == 32  DASH == 45  COLON == 58

IsSpace(c) == c \in (9 .. 13) \cup {SP, 133, 160}
IsDigit(c) == c \in 48 .. 57
IsAlpha(c) == c \in (65 .. 90) \cup (97 .. 122) \cup ((192 .. 255) \ {215, 247})
IsControl(c) == c < 32 \/ c \in 127 .. 159

Up(c)   == IF c \in (97 .. 122) \cup ((224 .. 254) \ {247}) THEN c - 32 ELSE c
Down(c) == IF c \in (65 .. 90) \cup ((192 .. 222) \ {215}) THEN c + 32 ELSE c
Each(t, Op(_)) == [i \in DOMAIN t |-> Op(t[i])]
Upper(t) == Each(t, Up)
Lower(t) == Each(t, Down)
Keep(t, P(_)) == SelectSeq(t, P)

\* The lines of standard input: what read_line of a pipe returns until it is empty.
Split(t, c) == FoldLeft(LAMBDA a, x : IF x = c THEN Append(a, <<>>) ELSE [a EXCEPT ![Len(a)] = Append(@, x)], <<<<>>>>, t)
Ended(pieces, c) == IF Last(pieces) = <<>> THEN Front(pieces) ELSE pieces
ReadLines(t) == Ended(Split(t, NL), NL)

\* str::lines: also drops a carriage return before the newline.
Lines(t) ==
    LET ls == Split(t, NL)
        NoCr(l) == IF l # <<>> /\ Last(l) = CR THEN Front(l) ELSE l
    IN  Ended([i \in DOMAIN ls |-> IF i < Len(ls) THEN NoCr(ls[i]) ELSE ls[i]], NL)

\* str::split_inclusive.
Inclusive(t) == LET ls == Split(t, NL) IN Ended([i \in DOMAIN ls |-> IF i < Len(ls) THEN Append(ls[i], NL) ELSE ls[i]], NL)

Flat(ts) == FoldLeft(LAMBDA a, t : a \o t, <<>>, ts)
Unlines(ls) == Flat([i \in DOMAIN ls |-> Append(ls[i], NL)])
JoinWith(ts, sep) == IF ts = <<>> THEN <<>> ELSE Head(ts) \o Flat([i \in 1 .. Len(ts) - 1 |-> sep \o ts[i + 1]])
Times(c, n) == [i \in 1 .. n |-> c]
Take(t, n) == SubSeq(t, 1, IF n < Len(t) THEN n ELSE Len(t))
Drop(t, n) == SubSeq(t, n + 1, Len(t))
Rev(t) == [i \in DOMAIN t |-> t[Len(t) + 1 - i]]

\* The number of characters at the start of t that P holds of.
Span(t, P(_)) == LET end == SelectInSeq(t, LAMBDA c : ~P(c)) IN IF end = 0 THEN Len(t) ELSE end - 1
TrimStart(t) == Drop(t, Span(t, IsSpace))
TrimEnd(t)   == Rev(TrimStart(Rev(t)))
Trim(t)      == TrimEnd(TrimStart(t))

\* split_whitespace.
Words(t) == LET IsWord(x) == x # <<>> IN Keep(FoldLeft(LAMBDA a, c : IF IsSpace(c) THEN Append(a, <<>>) ELSE [a EXCEPT ![Len(a)] = Append(@, c)], <<<<>>>>, t), IsWord)

\* The places where word begins in t.
Finds(t, word) == {i \in 1 .. Len(t) + 1 - Len(word) : SubSeq(t, i, i + Len(word) - 1) = word}

(***************************************************************************)
(* Order, numbers, bytes.                                                  *)
(***************************************************************************)
Sign(n) == IF n < 0 THEN -1 ELSE IF n > 0 THEN 1 ELSE 0

\* Code points are ordered as their bytes.
RECURSIVE Cmp(_, _)
Cmp(a, b) == IF a = <<>> \/ b = <<>> THEN Sign(Len(a) - Len(b))
             ELSE IF Head(a) # Head(b) THEN Sign(Head(a) - Head(b)) ELSE Cmp(Tail(a), Tail(b))

RECURSIVE Digits(_)
Digits(n) == IF n < 10 THEN <<48 + n>> ELSE Append(Digits(n \div 10), 48 + (n % 10))
Dec(n) == IF n < 0 THEN <<DASH>> \o Digits(-n) ELSE Digits(n)
Nat10(t) == FoldLeft(LAMBDA a, c : 10 * a + (c - 48), 0, t)

\* str::parse to an integer; NotInt for an error.
NotInt == -2147483647
Int10(t) ==
    LET body == IF t # <<>> /\ Head(t) \in {DASH, 43} THEN Tail(t) ELSE t
    IN  IF body = <<>> \/ \E i \in DOMAIN body : ~IsDigit(body[i]) THEN NotInt
        ELSE IF Head(t) = DASH THEN -Nat10(body) ELSE Nat10(body)

Right(t, w) == IF Len(t) < w THEN Times(SP, w - Len(t)) \o t ELSE t
Left(t, w)  == IF Len(t) < w THEN t \o Times(SP, w - Len(t)) ELSE t

CharBytes(c) == CASE c < 128 -> <<c>>
                  [] c \in 128 .. 2047 -> <<192 + c \div 64, 128 + (c % 64)>>
                  [] c > 2047 -> <<224 + c \div 4096, 128 + ((c \div 64) % 64), 128 + (c % 64)>>
Bytes(t) == Flat(Each(t, CharBytes))

\* str::from_utf8; Invalid for an error.
Invalid == <<-1>>
Chars(bs) ==
    LET r == FoldLeft(LAMBDA a, b :
                 CASE a.bad -> a
                   [] ~a.bad /\ a.lead = 0 -> IF b < 128 THEN [a EXCEPT !.text = Append(@, b)]
                                             ELSE IF b \in 194 .. 223 THEN [a EXCEPT !.lead = b] ELSE [a EXCEPT !.bad = TRUE]
                   [] ~a.bad /\ a.lead # 0 -> IF b \in 128 .. 191 THEN [a EXCEPT !.text = Append(@, 64 * (a.lead - 192) + b - 128), !.lead = 0]
                                             ELSE [a EXCEPT !.bad = TRUE],
                 [text |-> <<>>, lead |-> 0, bad |-> FALSE], bs)
    IN  IF r.bad \/ r.lead # 0 THEN Invalid ELSE r.text
OrNothing(t) == IF t = Invalid THEN <<>> ELSE t
CharsOrNothing(bs) == OrNothing(Chars(bs))

(***************************************************************************)
(* The world of a tool.                                                    *)
(***************************************************************************)
Stdin == "-"
World(in, files) == [in |-> in, files |-> files, out |-> <<>>, code |-> 0, mem |-> 0]
Say(w, text) == [w EXCEPT !.out = @ \o text]
SayLines(w, ls) == Say(w, Unlines(ls))
Fail(w, code) == [w EXCEPT !.code = code]
Remember(w, m) == [w EXCEPT !.mem = m]
Has(w, name) == name \in DOMAIN w.files
Store(w, name, text) == [w EXCEPT !.files = [n \in DOMAIN w.files \cup {name} |-> IF n = name THEN text ELSE w.files[n]]]

\* Reading "-" leaves nothing for the next reader.
Drain(w, name) == IF name = Stdin THEN [w EXCEPT !.in = <<>>] ELSE w
There(w, name) == name = Stdin \/ Has(w, name)
TextOf(w, name)  == IF name = Stdin THEN Unlines(ReadLines(w.in)) ELSE w.files[name]
LinesOf(w, name) == IF name = Stdin THEN ReadLines(w.in) ELSE Lines(w.files[name])
Operands(ops) == IF ops = <<>> THEN <<Stdin>> ELSE ops

\* Exit codes of a process that died, and of one that never ends.
Panicked == 101
Endless  == 124
Lost(w) == w.code \in {Panicked, Endless}

\* Op for each operand; one that is missing sets the exit code to 1.
EachOperand(w, ops, Op(_, _)) ==
    FoldLeft(LAMBDA u, name : IF Lost(u) THEN u ELSE IF There(u, name) THEN Drain(Op(u, name), name) ELSE Fail(u, 1), w, Operands(ops))
=============================================================================
