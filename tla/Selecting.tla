----------------------------- MODULE Selecting -----------------------------
(***************************************************************************)
(* Selectors (lispdown selector.rs) and the structural invariants checked  *)
(* with them (markdown/invariants.rs).  The input of the parser is a       *)
(* sequence of names, blanks and signs.  A selector is a sequence of parts *)
(* [simple, combinator]; the combinator says how a part relates to the     *)
(* next one, "" is None.                                                   *)
(***************************************************************************)
EXTENDS Curating

Universal        == [kind |-> "universal"]
AnyHeading       == [kind |-> "heading"]
TagIs(tag)       == [kind |-> "tag", tag |-> tag]
PathIs(path)     == [kind |-> "path", path |-> path]
HasTag(key, value) == [kind |-> "tagged", key |-> key, value |-> value]
With(base, predicates) == [kind |-> "with", base |-> base, predicates |-> predicates]

(***************************************************************************)
(* Matching.                                                               *)
(***************************************************************************)
UrlOf(e)  == IF HasItems(e, "link", 2) \/ HasItems(e, "img", 2) THEN <<TextOf(e.items[2])>> ELSE <<>>
Flag(b)   == IF b THEN <<"true">> ELSE <<"false">>

\* An Option of the text of an attribute.
get_attribute(e, name, path, depth) ==
    CASE name = "depth"    -> <<<<ToString(depth)>>>>
      [] name = "level"    -> IF IsHeading(e) THEN <<<<ToString(get_header_level(e))>>>> ELSE <<>>
      [] name = "text"     -> <<extract_text_content(e)>>
      [] name = "tag"      -> IF Tag(e) = "" THEN <<>> ELSE <<<<Tag(e)>>>>
      [] name = "url"      -> UrlOf(e)
      [] name = "internal" -> IF UrlOf(e) = <<>> THEN <<>> ELSE <<Flag(is_internal_url(UrlOf(e)[1]))>>
      [] name = "image"    -> IF Tag(e) = "" THEN <<>> ELSE <<Flag(Tag(e) \in {"img", "img-ref"})>>
      [] name = "lang"     -> IF HasItems(e, "code-block", 2) THEN <<TextOf(e.items[2])>> ELSE <<>>
      [] name = "path"     -> <<PathText(path)>>
      [] OTHER -> <<>>

\* f64::from_str, for the numbers that occur; -1 for an error.
NumberOf(text) == IF Len(text) = 1 /\ Digit(text[1]) THEN DigitValue(text[1]) ELSE -1

Compares(op, actual, expected) ==
    LET a == NumberOf(actual)  e == NumberOf(expected)  numbers == a >= 0 /\ e >= 0
    IN  CASE op = "="  -> actual = expected
          [] op = "!=" -> actual # expected
          [] op = "~=" -> \E i \in 0 .. Len(actual) : IsPrefix(expected, SubSeq(actual, i + 1, Len(actual)))
          [] op = "^=" -> IsPrefix(expected, actual)
          [] op = "$=" -> IsSuffix(expected, actual)
          [] op = "<"  -> numbers /\ a < e
          [] op = "<=" -> numbers /\ a <= e
          [] op = ">"  -> numbers /\ a > e
          [] op = ">=" -> numbers /\ a >= e

PredicateHolds(pred, e, path, depth) ==
    \E value \in ToSet(get_attribute(e, pred.name, path, depth)) :
        IF pred.op = "" THEN value \notin {<<>>, <<"false">>, <<"0">>} ELSE Compares(pred.op, value, pred.value)

\* The comment before the node has the key, and the value if one is asked for.
TagFits(text, tag, key, value) ==
    IF tag = <<>> THEN text = <<key>> /\ value = <<>> ELSE HasKeyOf(tag, key) /\ (value # <<>> => tag[2] = value[1])
CommentFits(e, key, value) == TagFits(TagText(e), TagOf(e), key, value)
check_node_tag(doc, path, key, value) == HasPrevious(path) /\ CommentFits(get_by_path(doc, PreviousSibling(path)), key, value)

RECURSIVE NodeMatches(_, _, _, _, _)
NodeMatches(simple, doc, e, path, depth) ==
    CASE simple.kind = "universal" -> TRUE
      [] simple.kind = "heading"   -> IsHeading(e)
      [] simple.kind = "tag"       -> Tag(e) = simple.tag
      [] simple.kind = "path"      -> path = simple.path
      [] simple.kind = "tagged"    -> check_node_tag(doc, path, simple.key, simple.value)
      [] simple.kind = "with"      -> /\ NodeMatches(simple.base, doc, e, path, depth)
                                      /\ \A i \in DOMAIN simple.predicates : PredicateHolds(simple.predicates[i], e, path, depth)
SimpleMatches(simple, doc, path, depth) == NodeMatches(simple, doc, get_by_path(doc, path), path, depth)

\* The places a combinator leads to from path, nearest first.  The tag is the first sibling.
Ancestors(path) == [n \in 1 .. Len(path) |-> SubSeq(path, 1, Len(path) - n)]
Elder(path)     == [n \in 1 .. Last(path) |-> Append(Front(path), Last(path) - n)]
Reached(combinator, path) ==
    IF path = <<>> THEN <<>>
    ELSE CASE combinator = "child"      -> <<Front(path)>>
           [] combinator = "descendant" -> Ancestors(path)
           [] combinator = "adjacent"   -> SubSeq(Elder(path), 1, 1)
           [] combinator = "sibling"    -> Elder(path)

\* The nearest place that matches is taken; a farther one is not tried again.
Nearest(doc, simple, places) == SelectSeq(places, LAMBDA p : SimpleMatches(simple, doc, p, Len(p)))
OneStep(doc, part, places) == IF places = <<>> THEN <<>> ELSE Nearest(doc, part.simple, Reached(part.combinator, Head(places)))
\* Seeded bug: a place is looked for from the node itself.
WalkBackBug(doc, parts, path) ==
    FoldLeft(LAMBDA places, part : IF places = <<>> THEN <<>> ELSE Nearest(doc, part.simple, <<Head(places)>> \o Reached(part.combinator, Head(places))),
             <<path>>, Reverse(Front(parts))) # <<>>
WalkBack(doc, parts, path) == FoldLeft(LAMBDA places, part : OneStep(doc, part, places), <<path>>, Reverse(Front(parts))) # <<>>

Matches(selector, doc, path, depth) ==
    /\ selector # <<>> /\ get_by_path(doc, path) # Nowhere
    /\ SimpleMatches(Last(selector).simple, doc, path, depth)
    /\ WalkBack(doc, selector, path)

\* The paths of the nodes that match, in the order of the document.
select(doc, selector) == SelectSeq(annotate(doc), LAMBDA p : Matches(selector, doc, p, Len(p)))

(***************************************************************************)
(* Parsing.  A parser takes the input and returns [out, rest]; Bad is an   *)
(* error.                                                                  *)
(***************************************************************************)
Signs == {"*", "@", "#", "[", "]", "=", "!", "~", "^", "$", "<", ">", "+", ",", ".", " "}
Bad == [ok |-> FALSE, out |-> <<>>, rest |-> <<>>]
Got(out, rest) == [ok |-> TRUE, out |-> out, rest |-> rest]
Peek(input) == IF input = <<>> THEN "" ELSE Head(input)
IsName(c) == c # "" /\ c \notin Signs
Begins(c) == IsName(c) /\ ~Digit(c)
SkipBlanks(input) == LET i == SelectInSeq(input, LAMBDA c : c # " ") IN IF i = 0 THEN <<>> ELSE SubSeq(input, i, Len(input))
Name(input) == IF IsName(Peek(input)) THEN Got(Head(input), Tail(input)) ELSE Got("", input)

\* The longest start of the input whose pieces Holds accepts.
While(input, Holds(_)) ==
    LET end == SelectInSeq(input, LAMBDA c : ~Holds(c))
    IN  IF end = 0 THEN Got(input, <<>>) ELSE Got(SubSeq(input, 1, end - 1), SubSeq(input, end, Len(input)))

\* An unquoted value ends at a blank or a bracket.
Value(input) == While(input, LAMBDA c : c \notin {" ", "[", "]"})

CompareOp(input) ==
    LET equals == Peek(Tail(input)) = "="
    IN  CASE Peek(input) = "=" -> Got("=", Tail(input))
          [] Peek(input) \in {"!", "~", "^", "$"} -> IF equals THEN Got(Peek(input) \o "=", Tail(Tail(input))) ELSE Bad
          [] Peek(input) \in {"<", ">"} -> IF equals THEN Got(Peek(input) \o "=", Tail(Tail(input))) ELSE Got(Peek(input), Tail(input))
          [] OTHER -> Bad

\* [name] or [name op value], any number of them.
RECURSIVE Predicates(_, _)
PredicateEnd(name, op, value, rest, found) ==
    IF Peek(rest) = "]" THEN Predicates(Tail(rest), Append(found, [name |-> name, op |-> op, value |-> value])) ELSE Bad
PredicateValue(name, op, value, found) == PredicateEnd(name, op, value.out, SkipBlanks(value.rest), found)
AfterOp(name, op, found) == IF op.ok THEN PredicateValue(name, op.out, Value(SkipBlanks(op.rest)), found) ELSE Bad
AfterName(name, rest, found) == IF Peek(rest) = "]" THEN PredicateEnd(name, "", <<>>, rest, found) ELSE AfterOp(name, CompareOp(rest), found)
Predicate(name, found) == AfterName(name.out, SkipBlanks(name.rest), found)
Predicates(input, found) == IF Peek(input) = "[" THEN Predicate(Name(SkipBlanks(Tail(input))), found) ELSE Got(found, input)

PathSelector(path) == IF parse_path(path.out) = NoPath THEN Bad ELSE Got(PathIs(parse_path(path.out)), path.rest)
TagValue(key, value) == Got(HasTag(key, <<value.out>>), value.rest)
TagSelector(key) == IF Peek(key.rest) = "=" THEN TagValue(key.out, Value(SkipBlanks(Tail(key.rest)))) ELSE Got(HasTag(key.out, <<>>), key.rest)
BaseSelector(c, rest) ==
    CASE c = "*" -> Got(Universal, rest)
      [] c = "@" -> PathSelector(While(rest, LAMBDA d : Digit(d) \/ d = "."))
      [] c = "#" -> TagSelector(Name(rest))
      [] Begins(c) -> IF c = "h" /\ Peek(rest) = "*" THEN Got(AnyHeading, Tail(rest)) ELSE Got(TagIs(c), rest)
      [] OTHER -> Bad

WithPredicates(base, preds) == IF preds.ok THEN Got(With(base, preds.out), preds.rest) ELSE Bad
AfterBase(base) == IF base.ok /\ Peek(base.rest) = "[" THEN WithPredicates(base.out, Predicates(base.rest, <<>>)) ELSE base
SimpleSelector(input) == IF input = <<>> THEN Bad ELSE AfterBase(BaseSelector(Head(input), Tail(input)))

Combinator(input) ==
    CASE Peek(input) = ">" -> Got("child", Tail(input))
      [] Peek(input) = "+" -> Got("adjacent", Tail(input))
      [] Peek(input) = "~" -> Got("sibling", Tail(input))
      [] OTHER -> IF Begins(Peek(input)) \/ Peek(input) \in {"*", "@", "#"} THEN Got("descendant", input) ELSE Got("", input)

\* What follows a part without a combinator is not read.
RECURSIVE ParseParts(_, _)
Further(combinator, rest, parts) == IF combinator = "" \/ rest = <<>> THEN Got(parts, rest) ELSE ParseParts(rest, parts)
AfterPart(simple, comb, parts) == Further(comb.out, SkipBlanks(comb.rest), Append(parts, [simple |-> simple, combinator |-> comb.out]))
AfterSimple(simple, parts) == IF simple.ok THEN AfterPart(simple.out, Combinator(SkipBlanks(simple.rest)), parts) ELSE Bad
ParseParts(input, parts) == AfterSimple(SimpleSelector(SkipBlanks(input)), parts)
ParseSelector(input) == ParseParts(input, <<>>)

(***************************************************************************)
(* Invariants of documents: the paths of the violations.                   *)
(***************************************************************************)
Root == <<>>

\* Whether a node selected is a violation.  Any descendant counts as a child.
\* other is the selector of the child or sibling.
validate_has_child(doc, p, other)   == \A q \in ToSet(annotate(doc)) : IsStrictPrefix(p, q) => ~Matches(other, doc, q, Len(q))
validate_has_sibling(doc, p, other) == \A q \in ToSet(get_siblings(doc, p)) : q # p => ~Matches(other, doc, q, Len(q))
validate_max_depth(p, depth)        == Len(p) > depth
validate_requires_tag(doc, p, key)  == p \notin get_tagged_nodes(doc, key)
validate_must_exist(paths)          == IF paths = <<>> THEN <<Root>> ELSE <<>>

\* inv has a kind and a parameter.  sel and other are what ParseSelector made of texts;
\* a text it cannot parse is a violation at the root.
assert_invariant(doc, inv, sel, other) ==
    LET paths == select(doc, sel.out)
        Fails(p) ==
            CASE inv.kind = "has-child"      -> validate_has_child(doc, p, other.out)
              [] inv.kind = "has-sibling"    -> validate_has_sibling(doc, p, other.out)
              [] inv.kind = "must-not-exist" -> TRUE
              [] inv.kind = "max-depth"      -> validate_max_depth(p, inv.parameter)
              [] inv.kind = "requires-tag"   -> validate_requires_tag(doc, p, inv.parameter)
    IN  IF ~sel.ok \/ ~other.ok THEN <<Root>>
        ELSE IF inv.kind = "must-exist" THEN validate_must_exist(paths) ELSE SelectSeq(paths, Fails)

\* A heading more than one level below the one before it in the document.
validate_no_heading_skips(doc) ==
    LET headings == SelectSeq(annotate(doc), LAMBDA p : IsHeading(get_by_path(doc, p)))
        Level(i) == get_header_level(get_by_path(doc, headings[i]))
        skips    == SelectSeq([i \in 1 .. Len(headings) - 1 |-> i], LAMBDA i : Level(i + 1) > Level(i) + 1)
    IN  [k \in DOMAIN skips |-> headings[skips[k] + 1]]

\* The predicate here is that a node is not one of the tags barred.
validate_custom(doc, barred) == SelectSeq(annotate(doc), LAMBDA p : Tag(get_by_path(doc, p)) \in barred)
=============================================================================
