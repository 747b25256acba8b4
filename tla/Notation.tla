------------------------------ MODULE Notation ------------------------------
(***************************************************************************)
(* S-expressions as text (lispdown expr.rs: Display and Parser) and as     *)
(* JSON (json.rs).  A text is a sequence of characters; a word no rule     *)
(* looks into, such as "arr" or "null", stands for one of them.            *)
(***************************************************************************)
EXTENDS Naturals, Sequences, SequencesExt

Atom(chars) == [chars |-> chars]
List(items) == [items |-> items]
IsList(e)   == "items" \in DOMAIN e
Failed(code) == [error |-> code]
Fails(r)     == "error" \in DOMAIN r

White == {" ", "\n"}
Break == White \union {"(", ")"}

\* The first place from p on whose character is not in chars, or is.
After(text, p, chars)  == LET i == SelectInSubSeq(text, p, Len(text), LAMBDA c : c \notin chars) IN IF i = 0 THEN Len(text) + 1 ELSE i
Before(text, p, chars) == LET i == SelectInSubSeq(text, p, Len(text), LAMBDA c : c \in chars) IN IF i = 0 THEN Len(text) + 1 ELSE i

(***************************************************************************)
(* Display.                                                                *)
(***************************************************************************)
\* Seeded bug: nothing is written between the elements of a list.
SpacedBug(texts) == FlattenSeq(texts)
Spaced(texts) == FlattenSeq([i \in DOMAIN texts |-> IF i = 1 THEN texts[i] ELSE <<" ">> \o texts[i]])

RECURSIVE Text(_)
Text(e) == IF IsList(e) THEN <<"(">> \o Spaced([i \in DOMAIN e.items |-> Text(e.items[i])]) \o <<")">> ELSE e.chars

(***************************************************************************)
(* Parser: an expression and the place after it, or an error.  An atom     *)
(* keeps its quotes and its escapes as they were written.                  *)
(***************************************************************************)
Parsed(e, at) == [expr |-> e, at |-> at]

\* The place of the quote that closes a string, or 0.
RECURSIVE Closing(_, _)
Closing(text, p) ==
    CASE p > Len(text)   -> 0
      [] text[p] = "\""  -> p
      [] text[p] = "\\"  -> Closing(text, p + 2)
      [] OTHER           -> Closing(text, p + 1)

parse_quoted_string(text, p, end) == IF end = 0 THEN Failed("unclosed-string") ELSE Parsed(Atom(SubSeq(text, p, end)), end + 1)
parse_atom(text, p, end) == Parsed(Atom(SubSeq(text, p, end - 1)), end)
parse_quoted(r) == IF Fails(r) THEN r ELSE Parsed(List(<<Atom(<<"quote">>), r.expr>>), r.at)

RECURSIVE parse(_, _)
RECURSIVE parse_list(_, _, _)

ParseAt(text, p) ==
    CASE p > Len(text)   -> Failed("unexpected-eof")
      [] text[p] = "'"   -> parse_quoted(parse(text, p + 1))
      [] text[p] = "("   -> parse_list(text, <<>>, p + 1)
      [] text[p] = "\""  -> parse_quoted_string(text, p, Closing(text, p + 1))
      [] OTHER           -> parse_atom(text, p, Before(text, p, Break))
parse(text, p) == ParseAt(text, After(text, p, White))

WithItem(text, items, r) == IF Fails(r) THEN r ELSE parse_list(text, Append(items, r.expr), r.at)
ListFrom(text, items, p) ==
    CASE p > Len(text)  -> Failed("unclosed-list")
      [] text[p] = ")"  -> Parsed(List(items), p + 1)
      [] OTHER          -> WithItem(text, items, parse(text, p))
parse_list(text, items, p) == ListFrom(text, items, After(text, p, White))

(***************************************************************************)
(* JSON.  A value is null, a truth, a number, a text, an array or an       *)
(* object, which keeps its keys in order.                                  *)
(***************************************************************************)
JNull    == [word |-> "null"]
JBool(b) == [bool |-> b]
JNum(n)  == [num |-> n]
JStr(s)  == [str |-> s]
JArr(vs) == [arr |-> vs]
JObj(ps) == [obj |-> ps]

Digits == {"0", "1", "2"}
IsNumber(chars) == chars # <<>> /\ ToSet(chars) \subseteq Digits

Replaced(s, c, by) == FlattenSeq([i \in DOMAIN s |-> IF s[i] = c THEN by ELSE <<s[i]>>])
\* Seeded bug: the backslashes are escaped last, those of the other escapes too.
escape_stringBug(s) == Replaced(Replaced(Replaced(s, "\"", <<"\\", "\"">>), "\n", <<"\\", "n">>), "\\", <<"\\", "\\">>)
escape_string(s) == Replaced(Replaced(Replaced(s, "\\", <<"\\", "\\">>), "\"", <<"\\", "\"">>), "\n", <<"\\", "n">>)

Unescaped(c) == CASE c = "n" -> <<"\n">> [] c \in {"\\", "\""} -> <<c>> [] OTHER -> <<"\\", c>>
RECURSIVE unescape_string(_)
unescape_string(s) ==
    CASE s = <<>>                      -> <<>>
      [] s[1] = "\\" /\ Len(s) > 1     -> Unescaped(s[2]) \o unescape_string(SubSeq(s, 3, Len(s)))
      [] OTHER                         -> <<s[1]>> \o unescape_string(Tail(s))

Quoted(s)   == Atom(<<"\"">> \o escape_string(s) \o <<"\"">>)
IsQuoted(e) == ~IsList(e) /\ Len(e.chars) > 1 /\ e.chars[1] = "\"" /\ Last(e.chars) = "\""
Unquoted(e) == unescape_string(SubSeq(e.chars, 2, Len(e.chars) - 1))

RECURSIVE json_value_to_sexpr(_)
json_value_to_sexpr(v) ==
    CASE "word" \in DOMAIN v -> Atom(<<"null">>)
      [] "bool" \in DOMAIN v -> Atom(<<IF v.bool THEN "#t" ELSE "#f">>)
      [] "num"  \in DOMAIN v -> Atom(v.num)
      [] "str"  \in DOMAIN v -> Quoted(v.str)
      [] "arr"  \in DOMAIN v -> List(<<Atom(<<"arr">>)>> \o [i \in DOMAIN v.arr |-> json_value_to_sexpr(v.arr[i])])
      [] "obj"  \in DOMAIN v -> List(<<Atom(<<"obj">>)>> \o [i \in DOMAIN v.obj |-> List(<<Quoted(v.obj[i][1]), json_value_to_sexpr(v.obj[i][2])>>)])

\* NaN is a number no JSON number stands for: it becomes null.
AtomJson(e) ==
    CASE e.chars = <<"null">>  -> [json |-> JNull]
      [] e.chars = <<"#t">>    -> [json |-> JBool(TRUE)]
      [] e.chars = <<"#f">>    -> [json |-> JBool(FALSE)]
      [] IsQuoted(e)           -> [json |-> JStr(Unquoted(e))]
      [] IsNumber(e.chars)     -> [json |-> JNum(e.chars)]
      [] e.chars = <<"nan">>   -> [json |-> JNull]
      [] OTHER                 -> Failed("unconvertible-atom")

\* A key given twice keeps its first place and its last value.
Put(pairs, p) ==
    LET i == SelectInSeq(pairs, LAMBDA q : q[1] = p[1])
    IN  IF i = 0 THEN Append(pairs, p) ELSE [pairs EXCEPT ![i] = p]

\* The first error of several conversions, or what becomes of their values.
Gathered(results, Values(_)) ==
    LET bad == SelectInSeq(results, Fails)
    IN  IF bad # 0 THEN results[bad] ELSE [json |-> Values([i \in DOMAIN results |-> results[i].json])]

KeyedJson(key, r) == IF Fails(r) THEN r ELSE [json |-> <<key, r.json>>]

RECURSIVE sexpr_to_json_value(_)
Entry(e) ==
    CASE ~IsList(e) \/ (IsList(e) /\ Len(e.items) # 2) -> Failed("invalid-object-entry")
      [] ~IsQuoted(e.items[1])                        -> Failed("invalid-object-key")
      [] OTHER                                        -> KeyedJson(Unquoted(e.items[1]), sexpr_to_json_value(e.items[2]))
ArrayOf(values) == JArr(SelectSeq(values, LAMBDA v : v # JNull))
ObjectOf(pairs) == JObj(FoldLeft(Put, <<>>, pairs))

sexpr_to_json_value(e) ==
    CASE ~IsList(e)                       -> AtomJson(e)
      [] e.items = <<>>                   -> Failed("empty-list")
      [] IsList(e.items[1])               -> Failed("invalid-tag")
      [] e.items[1].chars = <<"obj">>     -> Gathered([i \in 1 .. Len(e.items) - 1 |-> Entry(e.items[i + 1])], ObjectOf)
      [] e.items[1].chars = <<"arr">>     -> Gathered([i \in 1 .. Len(e.items) - 1 |-> sexpr_to_json_value(e.items[i + 1])], ArrayOf)
      [] OTHER                            -> Failed("unknown-tag")

json_to_sexpr(v) == Text(json_value_to_sexpr(v))
JsonOf(r) == IF Fails(r) THEN r ELSE sexpr_to_json_value(r.expr)
sexpr_to_json(text) == JsonOf(parse(text, 1))
=============================================================================
