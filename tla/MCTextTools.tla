----------------------------- MODULE MCTextTools -----------------------------
(* Small texts and commands on them. *)
EXTENDS TextPipes

a == 97  b == 98  x == 120  e == 233
World1 == [text |-> <<b, SP, a, NL, a, NL, NL, a, NL>>, g |-> <<a, NL, b, NL>>, h |-> <<b, NL, b, x, NL>>]
World2 == [text |-> <<49, 48, SP, x, NL, 57, SP, b, NL, DASH, 49, NL>>, g |-> <<49, 48, NL, 57, NL>>, h |-> <<>>]
World3 == [text |-> <<TAB, a, SP, SP, b, NL, NL, NL, a, b, 65>>, g |-> <<b, NL, a>>, h |-> <<65, NL, a, NL>>]
World4 == [text |-> <<e, SP, a, NL, b, NL, b, 201, NL>>, g |-> <<NUL, a, NL>>, h |-> <<e, NL>>]
World5 == [text |-> <<>>, g |-> <<NL>>, h |-> <<NL, NL>>]

Times1 == [day |-> 11016, sec |-> 86398, ms |-> 250]      \* 2000-02-29
Times2 == [day |-> -1, sec |-> 3661, ms |-> 0]            \* 1969-12-31
Times3 == [day |-> 19753, sec |-> 59, ms |-> 999]         \* 2024-01-31
Times4 == [day |-> -5, sec |-> 7, ms |-> 500]             \* a fraction before 1970
MCNow == Time(19783, 45296, 7)                            \* 2024-03-01

World6 == [text |-> <<a, NL, a, NL, b, SP, a, NL>>, g |-> <<a, NL, a, NL>>, h |-> <<a, NL>>]
\* Equal first words: in some order, and in that of the lines.
World7 == [text |-> <<a, SP, x, NL, b, SP, a, NL, a, SP, b, NL, a, SP, x, NL>>, g |-> <<a, SP, b, NL, a, SP, x, NL>>, h |-> <<>>]
World8 == [text |-> <<a, SP, b, NL, a, SP, x, NL, b, SP, x, NL>>, g |-> <<b, NL, a, NL>>, h |-> <<>>]
World0 == [text |-> <<>>, g |-> <<>>, h |-> <<>>]
At(w, t) == [text |-> w.text, g |-> w.g, h |-> w.h, clock |-> t]
MCWorlds == {At(w, Times1) : w \in {World1, World2, World3, World4, World5, World6, World7, World8}} \cup {At(World0, t) : t \in {Times1, Times2, Times3, Times4}}

Cmd(name, o, ops) == [cmd |-> name, o |-> o, ops |-> ops]
OptSets(os) == {{}} \cup {{o} : o \in os}
Piped(name, os) == {Cmd(name, o, <<>>) : o \in os}
On(name, os, opss) == {Cmd(name, o, ops) : o \in os, ops \in opss}
GH == <<"g", "h">>
Missing == <<"no", "g">>

Cats == Piped("cat", OptSets({"n", "b", "s", "v", "e", "t"}) \cup {{"n", "s"}, {"b", "e"}}) \cup On("cat", {{}, {"n"}}, {GH, Missing, <<"g", "-">>})
HeadO(n, c, on) == [on |-> on, n |-> n, c |-> c]
Heads == Piped("head", {HeadO(n, Unset, {}) : n \in {Unset, 0, 1, 2, 9}} \cup {HeadO(Unset, c, {}) : c \in {1, 3, 4}} \cup {HeadO(1, 1, {})})
         \cup On("head", {HeadO(1, Unset, on) : on \in OptSets({"q", "v"})}, {GH, Missing, <<"g">>})
TailO(unit, n, plus, on) == [on |-> on, unit |-> unit, count |-> n, plus |-> plus]
Tails == Piped("tail", {TailO({"n"}, n, plus, on) : n \in 0 .. 3, plus \in BOOLEAN, on \in OptSets({"r"})}
                        \cup {TailO({"c"}, n, plus, {}) : n \in {0, 2, 3, 5}, plus \in BOOLEAN}
                        \cup {TailO({}, 0, FALSE, {}), TailO({}, 0, FALSE, {"r"}), TailO({"b"}, 1, FALSE, {}), TailO({"n", "c"}, 1, FALSE, {})})
         \cup On("tail", {TailO({"n"}, 1, FALSE, {})}, {GH, Missing})
NlO(on, kind, l, n, w, i) == [on |-> on, d |-> <<92, 58>>, type |-> [h |-> "n", b |-> kind, f |-> "n"], word |-> <<a>>, l |-> l, n |-> n, w |-> w, v |-> 1, i |-> i, s |-> <<TAB>>]
Nls == Piped("nl", {NlO({}, kind, 1, "rn", 6, 1) : kind \in {"a", "t", "n", "p"}} \cup {NlO({}, "a", 2, "rz", 1, 2), NlO({}, "a", 1, "ln", 3, 1), NlO({}, "a", 1, "ln", 0, 1)})
Wcs == Piped("wc", {<<>>, <<"l">>, <<"w", "m">>, <<"c", "m">>, <<"m", "c", "L">>}) \cup On("wc", {<<>>, <<"m", "L">>}, {GH, Missing})
UniqO(on, f, s, all) == [on |-> on, f |-> f, s |-> s, D |-> all]
Uniqs == Piped("uniq", {UniqO(on, 0, 0, "off") : on \in OptSets({"c", "d", "u", "i"})} \cup {UniqO({}, 1, 0, "off"), UniqO({}, 0, 1, "off"), UniqO({}, 0, 0, "prepend"), UniqO({"c"}, 0, 0, "separate")})
         \cup On("uniq", {UniqO({}, 0, 0, "off")}, {<<"g", "h">>, <<"no">>, <<"g", "h", "g">>})
Comms == On("comm", SUBSET {"1", "2", "3"} \cup {{"i"}}, {GH}) \cup On("comm", {{}}, {<<"-", "g">>, <<"g", "-">>, <<"g">>, Missing})
PasteO(on, d) == [on |-> on, d |-> d]
Pastes == On("paste", {PasteO({}, <<TAB>>), PasteO({}, <<SP, NUL>>), PasteO({"s"}, <<58, TAB>>), PasteO({}, <<>>)}, {<<"-">>, <<"-", "-">>, <<"-", "g">>, GH, Missing, <<>>})
ShufO(on, n, i, args, o) == [on |-> on, n |-> n, i |-> i, args |-> args, o |-> o]
Shufs == Piped("shuf", {ShufO({}, Unset, <<>>, <<>>, <<>>), ShufO({}, 2, <<>>, <<>>, <<"g">>), ShufO({"r"}, 2, <<>>, <<>>, <<>>), ShufO({}, 2, <<3, 5>>, <<>>, <<>>),
                        ShufO({}, Unset, <<5, 3>>, <<>>, <<>>), ShufO({"e"}, 9, <<>>, <<<<a>>, <<b>>>>, <<>>), ShufO({"z"}, Unset, <<>>, <<>>, <<>>)})
         \cup On("shuf", {ShufO({}, Unset, <<>>, <<>>, <<>>)}, {<<"h">>, <<"no">>, GH})
GrepO(on, words, after, before, m) == [on |-> on, words |-> words, A |-> after, B |-> before, m |-> m]
Greps == Piped("grep", {GrepO(on, <<<<a>>>>, 0, 0, Unset) : on \in OptSets({"v", "i", "w", "x", "n", "c", "o", "l", "L", "q", "F"})}
                        \cup {GrepO(on, <<<<b>>, <<a, b>>>>, 0, 0, Unset) : on \in {{}, {"o"}, {"F", "o"}}}
                        \cup {GrepO(on, <<w>>, A, B, m) : on \in {{"n"}, {"n", "v"}}, w \in {<<b>>, <<49>>}, A \in 0 .. 1, B \in 0 .. 1, m \in {Unset, 1}}
                        \cup {GrepO({"F", "o"}, <<<<>>>>, 0, 0, Unset), GrepO({"F", "o"}, <<<<e>>>>, 0, 0, Unset), GrepO({}, <<>>, 0, 0, Unset), GrepO({"n"}, <<<<b>>>>, 2, 2, Unset)})
         \cup On("grep", {GrepO(on, <<<<a>>>>, 0, 0, Unset) : on \in {{}, {"r"}, {"h", "a"}, {"q"}, {"l"}, {"L", "H"}}}, {GH, <<"d">>, Missing, <<"h">>})
\* -k 1,1n and 1.2,1, and a field that does not exist.
OneByNumber == <<49, 44, 49, 110>>
FromSecond == <<49, 46, 50, 44, 49>>
Zero == <<48, 44, 49>>
SortO(on, keys, t, o) == [on |-> on, keys |-> keys, t |-> t, o |-> o]
Orders == {SortO(on, <<>>, Unset, <<>>) : on \in OptSets({"r", "n", "f", "u", "b", "V", "M"}) \cup {{"n", "r"}, {"f", "u"}, {"n", "s"}}}
          \cup {SortO({}, <<FromTwo>>, Unset, <<>>), SortO({"r"}, <<OneByNumber, FromTwo>>, SP, <<>>), SortO({"s"}, <<FromSecond>>, Unset, <<>>), SortO({"u"}, <<FromTwo>>, Unset, <<>>)}
          \cup {SortO(on, <<OneOnly>>, Unset, <<>>) : on \in {{}, {"u"}, {"s"}, {"s", "u"}, {"r"}, {"n", "u"}}}
Sorts == Piped("sort", Orders \cup {[o EXCEPT !.on = @ \cup {"c"}] : o \in Orders} \cup {SortO({}, <<Zero>>, Unset, <<>>)})
         \cup On("sort", {SortO({}, <<>>, Unset, <<"g">>), SortO({"d"}, <<>>, Unset, <<>>), SortO({"h", "i"}, <<>>, Unset, <<>>), SortO({"z"}, <<>>, Unset, <<>>)}, {<<"g">>, GH, Missing})
Char(c) == [kind |-> "char", c |-> c, d |-> 0, class |-> "", n |-> 0]
Reach(c, d) == [Char(c) EXCEPT !.kind = "range", !.d = d]
Class(n) == [Char(0) EXCEPT !.kind = "class", !.class = n]
TrO(on, sets) == [on |-> on, sets |-> sets]
UpperSet == <<Class("upper")>>
LowerSet == <<Reach(97, 122)>>
Trs == Piped("tr", {TrO({}, <<UpperSet, LowerSet>>), TrO({}, <<LowerSet, <<Class("upper")>>>>), TrO({"d"}, <<<<Char(a), Class("blank")>>>>), TrO({"s"}, <<<<Class("space")>>>>),
                    TrO({"c"}, <<<<Class("alpha")>>, <<Char(x)>>>>), TrO({"d", "s"}, <<<<Char(SP)>>, <<Char(b)>>>>), TrO({"s"}, <<LowerSet, <<[Char(x) EXCEPT !.kind = "repeat", !.n = 3]>>>>),
                    TrO({}, <<<<Char(a)>>>>), TrO({"d", "s"}, <<<<Char(a)>>>>), TrO({}, <<<<Reach(98, 97)>>, <<>>>>)})
CutO(on, modes, list, d) == [on |-> on, modes |-> modes, list |-> list, d |-> d]
Rest(n) == <<48 + n, DASH>>
Cuts == Piped("cut", {CutO(on, {"f"}, Rest(2), TAB) : on \in OptSets({"s", "w"})} \cup {CutO({}, {m}, <<49, DASH, 50, 44, 52>>, TAB) : m \in {"b", "c"}}
                     \cup {CutO({"d"}, {"f"}, <<50, SP, 44, DASH, 49>>, SP), CutO({}, {"b", "c"}, Rest(1), TAB), CutO({}, {"c"}, <<48, DASH, 49>>, TAB), CutO({}, {"c"}, <<50, DASH, 49>>, TAB), CutO({}, {"c"}, <<a>>, TAB), CutO({"w", "d"}, {"f"}, Rest(1), SP), CutO({"s"}, {"c"}, Rest(1), TAB), CutO({}, {"f"}, <<>>, TAB)})
FoldO(on, w) == [on |-> on, w |-> w]
FoldsOf == Piped("fold", {FoldO(on, w) : on \in {{}, {"s"}, {"b"}, {"b", "s"}}, w \in {0, 1, 3, 8, 80}})
ExpandO(t) == [t |-> t]
Expands == Piped("expand", {ExpandO(t) : t \in {<<>>, <<4>>, <<3, 6>>, <<0>>, <<4, 2>>}})
UnexpandO(on, t) == [on |-> on, t |-> t]
Unexpands == Piped("unexpand", {UnexpandO({}, <<>>), UnexpandO({"a"}, <<>>), UnexpandO({}, <<4>>), UnexpandO({}, <<2, 4>>), UnexpandO({}, <<0>>)})
B64O(on, w) == [on |-> on, w |-> w]
Base64s == Piped("base64", {B64O({}, 0), B64O({}, 4), B64O({"d"}, 0), B64O({"d", "i"}, 0)}) \cup On("base64", {B64O({}, 76)}, {<<"g">>, <<"no">>})
SeqO(on, f, s, t) == [on |-> on, f |-> f, s |-> s, t |-> t]
G(w) == [conv |-> "g", p |-> 0, w |-> w, zero |-> FALSE]
FixedTo(p) == [conv |-> "f", p |-> p, w |-> 0, zero |-> FALSE]
SeqCmds == On("seq", {SeqO({}, <<>>, <<NL>>, <<>>), SeqO({"w"}, <<>>, <<NL>>, <<>>)}, {<<300>>, <<-100>>, <<900, 1100>>, <<100, 50, 250>>, <<300, -100, 100>>, <<300, 100, 100>>, <<100, 0, 200>>, <<>>, <<-100, 25, 30>>})
           \cup On("seq", {SeqO({}, <<G(4)>>, <<SP>>, <<<<x>>>>), SeqO({}, <<FixedTo(0)>>, <<NL>>, <<>>), SeqO({}, <<FixedTo(1)>>, <<NL>>, <<>>)}, {<<300>>, <<0, 40, 100>>})
Conv(c, on, w, p) == [on |-> on, w |-> w, p |-> p, conv |-> c, text |-> <<>>]
Literal(t) == [on |-> {}, w |-> 0, p |-> 0, conv |-> 0, text |-> t]
Numerals == {<<48>>, <<49, 50>>, <<DASH, 55>>, <<48, 120, 97>>, <<48, 49, 49>>, <<39, a>>, <<>>, <<a>>}
Printfs == {Cmd("printf", <<Conv(c, on, w, p)>>, <<n>>) : c \in {100, 117, 120, 111}, on \in OptSets({"-", "0", "+", " ", "#"}), w \in {0, 5}, p \in {Unset, 3}, n \in Numerals}
           \cup {Cmd("printf", <<Conv(c, on, w, p), Literal(<<NL>>)>>, args) : c \in {115, 98, 99}, on \in OptSets({"-"}), w \in {0, 3}, p \in {Unset, 1}, args \in {<<>>, <<<<a, b>>>>, <<<<e, a>>, <<b>>>>, <<<<92, 110, 92, 99>>, <<a>>>>}}
           \cup {Cmd("printf", <<Conv(100, {}, Star, p), Literal(<<SP>>), Conv(115, {}, 0, Unset)>>, args) : p \in {Unset, Star}, args \in {<<<<53>>, <<50>>, <<51>>, <<a>>>>, <<<<DASH, 52>>, <<DASH, 49>>, <<55>>>>, <<<<a>>, <<50>>>>}}
           \cup {Cmd("printf", <<Literal(<<a, b>>)>>, args) : args \in {<<>>, <<<<x>>>>}} \cup {Cmd("printf", <<Conv(113, {}, 0, Unset)>>, <<<<x>>>>)}

MCFacts == [g |-> [type |-> "file", size |-> 0, mtime |-> 1], h |-> [type |-> "file", size |-> 3, mtime |-> 2], d |-> [type |-> "dir", size |-> 4096, mtime |-> 1]]
Leaf(ws, is) == [op |-> "leaf", kids |-> <<>>, words |-> ws, is |-> is]
Node(op, kids) == [op |-> op, kids |-> kids, words |-> <<>>, is |-> FALSE]
Leaves == {Leaf(<<"a">>, TRUE), Leaf(<<"">>, FALSE), Leaf(<<"-n", "a">>, TRUE), Leaf(<<"-z", "a">>, FALSE), Leaf(<<"a", "=", "b">>, FALSE), Leaf(<<"0", "-lt", "1">>, TRUE)}
MoreLeaves == {Leaf(<<"-f", "g">>, TRUE), Leaf(<<"-s", "g">>, FALSE), Leaf(<<"-s", "h">>, TRUE), Leaf(<<"-d", "g">>, FALSE), Leaf(<<"-d", "d">>, TRUE), Leaf(<<"-e", "b">>, FALSE), Leaf(<<"-r", "h">>, TRUE),
               Leaf(<<"h", "-nt", "g">>, TRUE), Leaf(<<"h", "-ot", "g">>, FALSE), Leaf(<<"d", "-ef", "d">>, TRUE), Leaf(<<"a", "!=", "b">>, TRUE), Leaf(<<"a", "<", "b">>, TRUE), Leaf(<<"0", ">", "1">>, FALSE),
               Leaf(<<"1", "-eq", "1">>, TRUE), Leaf(<<"1", "-ne", "1">>, FALSE), Leaf(<<"-1", "-gt", "0">>, FALSE), Leaf(<<"1", "-ge", "1">>, TRUE), Leaf(<<"1", "-le", "0">>, FALSE), Leaf(<<"a", "-eq", "a">>, FALSE),
               Leaf(<<"-n", "=", "-n">>, TRUE), Leaf(<<"(", "=", "(">>, TRUE), Leaf(<<"-n">>, TRUE), Leaf(<<"!">>, TRUE), Leaf(<<"-h", "g">>, FALSE)}
Few == {Leaf(<<"a">>, TRUE), Leaf(<<"a", "=", "b">>, FALSE), Leaf(<<"-z", "a">>, FALSE)}
One(ts) == {Node(op, <<t>>) : op \in {"!", "("}, t \in ts}
Two(ss, ts) == {Node(op, <<s, t>>) : op \in {"-a", "-o"}, s \in ss, t \in ts}
Level1 == One(Leaves) \cup Two(Leaves, Leaves)
Level2 == One(One(Few) \cup Two(Few, Few)) \cup Two(One(Few), One(Few)) \cup Two(Few, One(Few) \cup Two(Few, Few)) \cup Two(Two(Few, Few), Few)
Level3 == One(One(Two(Few, Few))) \cup Two(One(Two(Few, Few)), Few) \cup Two(Few, One(Two(Few, Few)))
Sensible == {t \in Leaves \cup MoreLeaves \cup Level1 \cup Level2 \cup Level3 : WellFormed(t) /\ ~Ambiguous(t)}
TestO(bracket, tree) == [bracket |-> bracket, tree |-> tree]
Tests == {Cmd("test", TestO(FALSE, <<t>>), Render(t)) : t \in Sensible} \cup {Cmd("test", TestO(TRUE, <<t>>), Append(Render(t), "]")) : t \in Leaves \cup Two(Few, Few)}
         \cup {Cmd("test", TestO(FALSE, <<>>), ws) : ws \in {<<>>, <<"a", "b">>, <<"(", "a">>, <<"a", "=">>, <<"(", ")">>, <<"a", "-a">>, <<"!", "a", "-o", "a">>, <<"-z", "(", "a", ")">>, <<"(", "-n", ")">>}}
         \cup {Cmd("test", TestO(TRUE, <<>>), ws) : ws \in {<<>>, <<"a">>, <<"]">>}}

DateO(on, iso, formats, r, v, f, operand) == [on |-> on, iso |-> iso, formats |-> formats, r |-> r, v |-> v, f |-> f, operand |-> operand]
Adj(sign, value, name, unit) == [sign |-> sign, value |-> value, name |-> name, unit |-> unit]
Adjustments == {<<>>} \cup {<<Adj(s, n, "", u)>> : s \in {1, -1}, n \in {1, 13}, u \in {"y", "m", "w", "d", "H", "M", "S"}}
               \cup {<<Adj(0, n, "", u)>> : n \in {0, 1, 70, 24}, u \in {"y", "m", "d", "H", "M", "S"}}
               \cup {<<Adj(s, 0, n, u)>> : s \in {1, -1, 0}, n \in {"mon", "feb"}, u \in {"d", "m", "H"}} \cup {<<Adj(1, 1, "", "m"), Adj(-1, 1, "", "m")>>}
Dates == Piped("date", {DateO({}, "", <<Stamps.t>>, "g", v, <<>>, <<>>) : v \in Adjustments}
                       \cup {DateO({}, "", <<Stamps[form]>>, "g", <<>>, <<>>, <<>>) : form \in {"d", "old"}}
                       \cup {DateO({}, iso, <<>>, "g", <<>>, <<>>, <<>>) : iso \in {"date", "hours", "minutes", "seconds", "ns"}}
                       \cup {DateO({"R"}, "", <<>>, "g", <<>>, <<>>, <<>>), DateO({"R"}, "ns", <<>>, "g", <<>>, <<>>, <<>>), DateO({"z"}, "", <<>>, "", <<>>, <<>>, <<>>), DateO({}, "", <<>>, "", <<>>, <<>>, <<>>),
                             DateO({}, "", <<>>, "no", <<>>, <<>>, <<>>), DateO({}, "", <<<<Piece("Q")>>>>, "g", <<>>, <<>>, <<>>), DateO({}, "", <<Stamps.t, Stamps.t>>, "g", <<>>, <<>>, <<>>),
                             DateO({}, "", <<<<[Piece("N") EXCEPT !.w = 3], Plain(SP), [Piece("N") EXCEPT !.w = 10]>>>>, "g", <<>>, <<>>, <<>>), DateO({}, "", <<>>, "g", <<>>, <<>>, <<a>>), DateO({}, "", <<>>, "g", <<>>, DateParts, <<>>)}
                       \cup {DateO({"j"}, "", <<Stamps.t>>, "g", <<>>, f, operand) : f \in {DateParts, <<Piece("H"), Piece("M")>>, DateParts \o <<Plain(SP), Piece("H"), Piece("M"), Piece("S")>>},
                             operand \in {<<50, 48, 50, 51, 45, 48, 50, 45, 51, 49>>, <<50, 48, 50, 51, 45, 48, 50, 45, 50, 56>>, <<49, 50, 51, 52>>, <<50, 48, 50, 51, 45, 48, 50, 45, 51, 49, 32, 49, 50, 51, 52, 53, 54>>, <<50, 48, 50, 51, 45, 48, 50, 45, 50, 56, 32, 49, 50, 51, 52, 53, 54>>}})
TouchO(form, offset) == [form |-> form, A |-> offset, year |-> 2024]
Touches == Piped("touch", {TouchO(form, offset) : form \in {"t", "d", "old"}, offset \in {Offsets.none, Offsets.back, <<49>>}})

MCOffered == [cat |-> Cats, head |-> Heads, tail |-> Tails, nl |-> Nls, wc |-> Wcs, uniq |-> Uniqs, comm |-> Comms, paste |-> Pastes, shuf |-> Shufs, grep |-> Greps,
              sort |-> Sorts, tr |-> Trs, cut |-> Cuts, fold |-> FoldsOf, expand |-> Expands, unexpand |-> Unexpands, base64 |-> Base64s, seq |-> SeqCmds, printf |-> Printfs,
              test |-> Tests, date |-> Dates, touch |-> Touches]
MCSecond == [n \in DOMAIN MCOffered |->
               CASE n = "base64" -> {"base64"} [] n = "nl" -> {"cut"} [] n = "unexpand" -> {"expand"} [] n = "expand" -> {"unexpand"} [] n = "tr" -> {"tr"}
                 [] n = "sort" -> {"sort", "uniq", "comm"} [] n = "shuf" -> {"sort"} [] n = "tail" -> {"tail"} [] n = "seq" -> {"wc", "sort"} [] n = "date" -> {"touch"} [] n = "grep" -> {"wc"}
                 [] OTHER -> {}]
=============================================================================
