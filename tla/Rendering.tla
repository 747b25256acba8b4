----------------------------- MODULE Rendering -----------------------------
(***************************************************************************)
(* Markdown text (lispdown markdown/mod.rs): writing a tree as text,       *)
(* reading it back, and the frontmatter.  A text is a sequence of pieces,  *)
(* "\n" among them.                                                        *)
(***************************************************************************)
EXTENDS Curating

Unknown == <<"unknown tag">>          \* Err
Cat(texts) == IF Unknown \in ToSet(texts) THEN Unknown ELSE FlattenSeq(texts)
Repeat(piece, n) == [i \in 1 .. n |-> piece]

LinesOf(text) ==
    LET ls == FoldLeft(LAMBDA a, c : IF c = "\n" THEN Append(a, <<>>) ELSE [a EXCEPT ![Len(a)] = Append(@, c)], <<<<>>>>, text)
    IN  IF Last(ls) = <<>> THEN Front(ls) ELSE ls
JoinLines(ls) == FlattenSeq([i \in DOMAIN ls |-> IF i = 1 THEN ls[i] ELSE <<"\n">> \o ls[i]])
Ended(text) == IF text # <<>> /\ Last(text) = "\n" THEN text ELSE Append(text, "\n")
DropEnd(text, Drops(_)) == LET last == SelectLastInSeq(text, LAMBDA c : ~Drops(c)) IN SubSeq(text, 1, last)

\* Three backquotes, and one.
Fence == "fence"
Tick  == "tick"

(***************************************************************************)
(* Writing.                                                                *)
(***************************************************************************)
is_list(e) == Tag(e) \in {"ul", "ol"}
Arg(e, i) == TextOf(e.items[i + 1])
IfItems(e, n, text) == IF Len(e.items) >= n THEN text ELSE <<>>
Titled(title) == IF title = <<>> THEN <<>> ELSE <<" ", "\"">> \o title \o <<"\"">>
Fenced(fence, lang, content) == <<fence>> \o lang \o <<"\n">> \o Ended(content) \o <<fence, "\n", "\n">>

\* The number an ordered list starts with, and the children after it.
Start(e) == IF Len(e.items) > 1 /\ IsSymbol(e.items[2]) /\ Digit(e.items[2].atom) THEN DigitValue(e.items[2].atom) ELSE -1

RECURSIVE Markdown(_, _)
RECURSIVE render_list_item(_, _, _)

Inside(e, from, depth) == Cat([i \in 1 .. Len(e.items) - from + 1 |-> Markdown(e.items[i + from - 1], depth)])

render_table_row(row, depth) ==
    IF IsList(row) THEN Cat(<<<<"|">>>> \o [i \in DOMAIN Children(row) |-> Cat(<<<<" ">>, Markdown(Children(row)[i], depth), <<" |">>>>)] \o <<<<"\n">>>>) ELSE <<>>

\* Seeded bug: the lines of a quote that are empty are not marked.
QuotedBug(text) == FlattenSeq([i \in DOMAIN LinesOf(text) |-> (IF LinesOf(text)[i] = <<>> THEN <<>> ELSE <<"> ">>) \o LinesOf(text)[i] \o <<"\n">>]) \o <<"\n">>
Quoted(text) == FlattenSeq([i \in DOMAIN LinesOf(text) |-> <<"> ">> \o LinesOf(text)[i] \o <<"\n">>]) \o <<"\n">>

Table(e, depth) ==
    LET rows == Children(e)
        line == Cat(<<<<"|">>>> \o [i \in DOMAIN Children(rows[1]) |-> <<" --- |">>] \o <<<<"\n">>>>)
        Row(i) == render_table_row(rows[i], depth)
    IN  IF rows = <<>> THEN <<>>
        ELSE Cat(<<Row(1), IF IsList(rows[1]) THEN line ELSE <<>>>> \o [i \in 1 .. Len(rows) - 1 |-> Row(i + 1)] \o <<<<"\n">>>>)

Items(e, depth) ==
    LET from == IF Tag(e) = "ol" /\ Start(e) >= 0 THEN 3 ELSE 2
        Mark(i) == IF Tag(e) = "ul" THEN "- " ELSE ToString(i - from + (IF Start(e) >= 0 THEN Start(e) ELSE 1)) \o ". "
    IN  Cat([i \in 1 .. Len(e.items) - from + 1 |-> render_list_item(e.items[i + from - 1], depth, Mark(i + from - 1))]
            \o <<IF depth = 0 THEN <<"\n">> ELSE <<>>>>)

\* Tables, footnotes, mathematics and frontmatter.
ExtensionText(e, all, depth) ==
    LET tag == Tag(e)
    IN  CASE tag \in {"yaml", "toml", "math-block"} -> IfItems(e, 2, Fenced(IF tag = "yaml" THEN "---" ELSE IF tag = "toml" THEN "+++" ELSE "$$", <<>>, Arg(e, 1)))
          [] tag = "table" -> Table(e, depth)
          [] tag = "tr" -> render_table_row(e, depth)
          [] tag \in {"td", "th"} -> all
          [] tag = "footnote-def" -> IfItems(e, 2, Cat(<<<<"[^">>, Arg(e, 1), <<"]: ">>, Inside(e, 3, depth)>>))
          [] tag = "footnote-ref" -> IfItems(e, 2, <<"[^">> \o Arg(e, 1) \o <<"]">>)
          [] tag = "del" -> Cat(<<<<"~~">>, all, <<"~~">>>>)
          [] tag = "math" -> IfItems(e, 2, <<"$">> \o Arg(e, 1) \o <<"$">>)
          [] OTHER -> Unknown

\* Links, images and what they refer to.
LinkText(e, all, depth) ==
    LET tag == Tag(e)
    IN  CASE tag = "link" -> IfItems(e, 3, Cat(<<<<"[">>, Inside(e, 4, depth), <<"](">>, Arg(e, 1), Titled(Arg(e, 2)), <<")">>>>))
          [] tag = "img" -> IfItems(e, 4, <<"![">> \o Arg(e, 2) \o <<"](">> \o Arg(e, 1) \o Titled(Arg(e, 3)) \o <<")">>)
          [] tag = "def" -> IfItems(e, 4, <<"[">> \o Arg(e, 1) \o <<"]: ">> \o Arg(e, 2) \o Titled(Arg(e, 3)) \o <<"\n", "\n">>)
          [] tag = "link-ref" -> IfItems(e, 2, Cat(<<<<"[">>, Inside(e, 3, depth), <<"][">>, Arg(e, 1), <<"]">>>>))
          [] tag = "img-ref" -> IfItems(e, 3, <<"![">> \o Arg(e, 2) \o <<"][">> \o Arg(e, 1) \o <<"]">>)
          [] OTHER -> ExtensionText(e, all, depth)

InlineText(e, all, depth) ==
    LET tag == Tag(e)
        Around(mark) == Cat(<<<<mark>>, all, <<mark>>>>)
    IN  CASE tag = "code" -> IfItems(e, 2, <<Tick>> \o Arg(e, 1) \o <<Tick>>)
          [] tag = "em" -> Around("*")
          [] tag = "strong" -> Around("**")
          [] tag = "br" -> <<"  ", "\n">>
          [] tag = "html" -> IfItems(e, 2, Arg(e, 1))
          [] OTHER -> LinkText(e, all, depth)

BlockText(e, all, depth) ==
    LET tag == Tag(e)
    IN  CASE tag \in {"doc", "li"} -> all
          [] tag = "p" -> Cat(<<all, <<"\n", "\n">>>>)
          [] get_header_level(e) \in 1 .. 6 -> Cat(<<Repeat("#", get_header_level(e)), <<" ">>, all, <<"\n", "\n">>>>)
          [] is_list(e) -> Items(e, depth)
          [] tag = "code-block" -> IfItems(e, 3, Fenced(Fence, Arg(e, 1), Arg(e, 2)))
          [] tag = "blockquote" -> IF all = Unknown THEN Unknown ELSE Quoted(all)
          [] tag = "hr" -> <<"---", "\n", "\n">>
          [] OTHER -> InlineText(e, all, depth)

Written(e, depth) == BlockText(e, Inside(e, 2, depth), depth)

Markdown(e, depth) == IF ~IsList(e) THEN TextOf(e) ELSE IF e = Nil THEN <<>> ELSE Written(e, depth)

\* What is not an item writes nothing.
render_list_item(item, depth, mark) ==
    LET Nested(e) == LET text == Markdown(e, depth + 1)
                     IN  IF text = Unknown THEN Unknown ELSE IF is_list(e) THEN <<"\n">> \o text ELSE DropEnd(text, LAMBDA c : c = "\n")
    IN  IF Tag(item) # "li" THEN <<>>
        ELSE Cat(<<Repeat("  ", depth), <<mark>>>> \o [i \in DOMAIN Children(item) |-> Nested(Children(item)[i])] \o <<<<"\n">>>>)

sexpr_to_markdown(e) ==
    LET text == Markdown(e, 0)
        trimmed == DropEnd(text, LAMBDA c : c \in Spaces \cup {"  "})
    IN  IF text = Unknown \/ trimmed = <<>> THEN trimmed ELSE Append(trimmed, "\n")

(***************************************************************************)
(* Reading: node_to_sexpr of a tree of the markdown crate.  A node has a   *)
(* type, children and fields; a field that is None is the empty text.      *)
(***************************************************************************)
\* The tag of a type, and the fields that become texts before the children.
FlowNodes ==
    [Root |-> <<"doc">>, Paragraph |-> <<"p">>, ListItem |-> <<"li">>, Code |-> <<"code-block", "lang", "value">>,
     Blockquote |-> <<"blockquote">>, ThematicBreak |-> <<"hr">>]
PhrasingNodes ==
    [InlineCode |-> <<"code", "value">>, Emphasis |-> <<"em">>, Strong |-> <<"strong">>, Link |-> <<"link", "url", "title">>,
     Image |-> <<"img", "url", "alt", "title">>, Break |-> <<"br">>, Html |-> <<"html", "value">>]
ReferenceNodes ==
    [Definition |-> <<"def", "identifier", "url", "title">>, LinkReference |-> <<"link-ref", "identifier">>,
     ImageReference |-> <<"img-ref", "identifier", "alt">>, Yaml |-> <<"yaml", "value">>, Toml |-> <<"toml", "value">>]
ExtensionNodes ==
    [Table |-> <<"table">>, TableRow |-> <<"tr">>, TableCell |-> <<"td">>, FootnoteDefinition |-> <<"footnote-def", "identifier">>,
     FootnoteReference |-> <<"footnote-ref", "identifier">>, Delete |-> <<"del">>, Math |-> <<"math-block", "value">>, InlineMath |-> <<"math", "value">>,
     MdxjsEsm |-> <<"mdx-esm", "value">>, MdxFlowExpression |-> <<"mdx-expr", "value">>, MdxTextExpression |-> <<"mdx-text-expr", "value">>,
     MdxJsxFlowElement |-> <<"mdx-jsx", "name">>, MdxJsxTextElement |-> <<"mdx-jsx-inline", "name">>]
NodeShapes == FlowNodes @@ PhrasingNodes @@ ReferenceNodes @@ ExtensionNodes

ListHead(node) == <<A(IF node.ordered THEN "ol" ELSE "ul")>> \o (IF node.ordered /\ node.start # 1 THEN <<Numeral(node.start)>> ELSE <<>>)

RECURSIVE node_to_sexpr(_)
node_to_sexpr(node) ==
    LET shape == NodeShapes[node.type]
        With(head) == L(head \o [i \in DOMAIN node.children |-> node_to_sexpr(node.children[i])])
    IN  CASE node.type = "Text"    -> T(node.value)
          [] node.type = "Heading" -> With(<<A(HeadingTag(node.depth))>>)
          [] node.type = "List"    -> With(ListHead(node))
          [] OTHER                 -> With(<<A(Head(shape))>> \o [i \in 1 .. Len(shape) - 1 |-> T(node[shape[i + 1]])])

(***************************************************************************)
(* What the markdown crate makes of the text the writer writes.  Markup    *)
(* is read in the text of a paragraph or a heading and does not nest;      *)
(* references and frontmatter are not recognised.                          *)
(***************************************************************************)
Blank(line) == TrimText(line) = <<>> \/ ToSet(line) \subseteq {" ", "  "}
First(line) == IF line = <<>> THEN "" ELSE Head(line)
Hashes(line) == Cardinality({n \in DOMAIN line : \A i \in 1 .. n : line[i] = "#"})
IsHeadingLine(line) == Hashes(line) \in 1 .. 6 /\ Len(line) > Hashes(line) /\ line[Hashes(line) + 1] = " "
Numbered == [mark \in {ToString(n) \o ". " : n \in 0 .. 20} |-> CHOOSE n \in 0 .. 20 : mark = ToString(n) \o ". "]
Interrupts(line) == Blank(line) \/ IsHeadingLine(line) \/ First(line) \in {Fence, "> ", "- ", "1. ", "<!--", "---"}

\* The number of pieces (lines) before the first one End holds of.
Until(ls, End(_)) == LET i == SelectInSeq(ls, End) IN IF i = 0 THEN Len(ls) ELSE i - 1
From(ls, n) == SubSeq(ls, n, Len(ls))

Ast(type, fields, children) == [type |-> type, children |-> children] @@ fields
Leaf(type, value) == Ast(type, [value |-> value], <<>>)
Plainest == [value |-> <<>>]

\* url, or url "title".
Target(text) ==
    LET at == SelectInSeq(text, LAMBDA c : c = "\"")
    IN  IF at < 2 THEN [url |-> text, title |-> <<>>] ELSE [url |-> SubSeq(text, 1, at - 2), title |-> SubSeq(text, at + 1, Len(text) - 1)]

Closer == (Tick :> Tick) @@ ("*" :> "*") @@ ("**" :> "**") @@ ("[" :> ")") @@ ("![" :> ")")
RECURSIVE Inlines(_)
Inlines(text) ==
    IF text = <<>> THEN <<>>
    ELSE LET mark  == Head(text)
             close == IF mark \in DOMAIN Closer THEN SelectInSeq(Tail(text), LAMBDA c : c = Closer[mark]) ELSE 0
             inner == SubSeq(text, 2, close)
             mid   == Until(inner, LAMBDA c : c = "](")
             words == Until(Tail(text), LAMBDA c : c \in DOMAIN Closer \cup {"  "}) + 1
             Linked(fields, children) == Ast(IF mark = "[" THEN "Link" ELSE "Image", Target(From(inner, mid + 2)) @@ fields, children)
             Then(node, n) == <<node>> \o Inlines(From(text, n + 1))
         IN  CASE mark = "  " /\ Len(text) > 2 -> Then(Leaf("Break", <<>>), 2)
               [] close = 0    -> Then(Leaf("Text", SubSeq(text, 1, words)), words)
               [] mark = Tick  -> Then(Leaf("InlineCode", inner), close + 1)
               [] mark = "*"   -> Then(Ast("Emphasis", Plainest, Inlines(inner)), close + 1)
               [] mark = "**"  -> Then(Ast("Strong", Plainest, Inlines(inner)), close + 1)
               [] mark = "["   -> Then(Linked(Plainest, Inlines(SubSeq(inner, 1, mid))), close + 1)
               [] mark = "![" -> Then(Linked([alt |-> SubSeq(inner, 1, mid)], <<>>), close + 1)

RECURSIVE Blocks(_)
\* The items of a list: a line with a mark, and the indented lines after it.
ListItems(ls, marks) ==
    LET starts == SelectSeq([i \in DOMAIN ls |-> i], LAMBDA i : First(ls[i]) \in marks)
        End(k) == IF k = Len(starts) THEN Len(ls) ELSE starts[k + 1] - 1
        Body(k) == [j \in 1 .. End(k) - starts[k] + 1 |-> From(ls[starts[k] + j - 1], 2)]
    IN  [k \in DOMAIN starts |-> Ast("ListItem", Plainest, Blocks(Body(k)))]

Blocks(ls) ==
    IF ls = <<>> THEN <<>>
    ELSE LET line  == Head(ls)
             rest  == Tail(ls)
             marks == IF First(line) = "- " THEN {"- "} ELSE DOMAIN Numbered
             quote == Until(ls, LAMBDA l : First(l) # "> ")
             list  == Until(ls, LAMBDA l : First(l) \notin marks \cup {"  ", ""})
             items == ListItems(SubSeq(ls, 1, list), marks)
             code  == Until(rest, LAMBDA l : First(l) = Fence)
             html  == Until(ls, LAMBDA l : "-->" \in ToSet(l)) + 1
             para  == 1 + Until(rest, Interrupts)
             level == Hashes(line)
             label == Until(line, LAMBDA c : c = "]: ")
             Block(node, n) == <<node>> \o Blocks(From(ls, n + 1))
         IN  CASE Blank(line) -> Blocks(rest)
               [] IsHeadingLine(line) -> Block(Ast("Heading", [depth |-> level], Inlines(TrimText(From(line, level + 2)))), 1)
               [] First(line) = "---" -> Block(Leaf("ThematicBreak", <<>>), 1)
               [] First(line) = "> " -> Block(Ast("Blockquote", Plainest, Blocks([i \in 1 .. quote |-> Tail(ls[i])])), quote)
               [] First(line) = "- " -> Block(Ast("List", [ordered |-> FALSE], items), list)
               [] First(line) \in DOMAIN Numbered -> Block(Ast("List", [ordered |-> TRUE, start |-> Numbered[First(line)]], items), list)
               [] First(line) = Fence -> Block(Ast("Code", [lang |-> Tail(line), value |-> JoinLines(SubSeq(rest, 1, code))], <<>>), code + 2)
               [] First(line) = "<!--" -> Block(Leaf("Html", JoinLines(SubSeq(ls, 1, Min({html, Len(ls)})))), html)
               [] First(line) = "[" /\ label < Len(line) -> Block(Ast("Definition", [identifier |-> SubSeq(line, 2, label)] @@ Target(From(line, label + 2)), <<>>), 1)
               [] OTHER -> Block(Ast("Paragraph", Plainest, Inlines(TrimText(JoinLines(SubSeq(ls, 1, para))))), para)

markdown_to_sexpr(text) == node_to_sexpr(Ast("Root", Plainest, Blocks(LinesOf(text))))

(***************************************************************************)
(* Frontmatter.                                                            *)
(***************************************************************************)
HasFrontmatter(doc) == Children(doc) # <<>> /\ Tag(Children(doc)[1]) \in {"yaml", "toml"}
get_frontmatter(doc) == IF HasFrontmatter(doc) THEN Children(doc)[1] ELSE Null
get_frontmatter_content(doc) == IF HasFrontmatter(doc) /\ Len(Children(doc)[1].items) >= 2 THEN T(Arg(Children(doc)[1], 1)) ELSE Null

remove_frontmatter(doc) == IF HasFrontmatter(doc) THEN L(RemoveAt(doc.items, 2)) ELSE doc
set_frontmatter(doc, format, content) ==
    IF format \notin {"yaml", "toml"} \/ ~IsList(doc) \/ doc = Nil THEN Nowhere
    ELSE L(InsertAt(remove_frontmatter(doc).items, 2, Node(format, <<T(content)>>)))

\* An Option of the key of a line.  A colon is a piece of its own.
KeyOfLine(line) ==
    LET text == TrimText(line)
        at   == SelectInSeq(text, LAMBDA c : c = ":")
    IN  IF text = <<>> \/ Head(text) = "#" \/ at = 0 THEN <<>> ELSE <<TrimText(SubSeq(text, 1, at - 1))>>
ValueOfLine(line) ==
    LET value == TrimText(From(line, SelectInSeq(line, LAMBDA c : c = ":") + 1))
    IN  IF Len(value) >= 2 /\ Head(value) = Last(value) /\ Head(value) \in {"\"", "'"} THEN SubSeq(value, 2, Len(value) - 1) ELSE value

parse_yaml_frontmatter(content) ==
    LET keyed == SelectSeq(LinesOf(content), LAMBDA l : KeyOfLine(l) # <<>>)
    IN  L(<<A("obj")>> \o [i \in DOMAIN keyed |-> L(<<T(KeyOfLine(keyed[i])[1]), T(ValueOfLine(keyed[i]))>>)])

\* The first pair with the key.
get_frontmatter_field(obj, key) ==
    LET found == SelectSeq(Children(obj), LAMBDA p : IsPair(p) /\ TextOf(p.items[1]) = key)
    IN  IF found = <<>> THEN Null ELSE T(TextOf(found[1].items[2]))

\* Seeded bug: a line is added although the key was found.
upsert_frontmatter_fieldBug(content, key, value) == JoinLines(Append(LinesOf(content), key \o <<":", " ">> \o value))
upsert_frontmatter_field(content, key, value) ==
    LET ls    == LinesOf(content)
        line  == key \o <<":", " ">> \o value
        found == \E i \in DOMAIN ls : KeyOfLine(ls[i]) = <<key>>
    IN  JoinLines([i \in DOMAIN ls |-> IF KeyOfLine(ls[i]) = <<key>> THEN line ELSE ls[i]] \o (IF found THEN <<>> ELSE <<line>>))
remove_frontmatter_field(content, key) == JoinLines(SelectSeq(LinesOf(content), LAMBDA l : KeyOfLine(l) # <<key>>))
=============================================================================
