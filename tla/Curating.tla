------------------------------ MODULE Curating ------------------------------
(***************************************************************************)
(* Markdown trees: nodes named by paths or by content (lispdown nodeid.rs) *)
(* and the edits at a path (markdown/mutations.rs); then the operations    *)
(* made of them (markdown/curation.rs): wrapping, extracting, merging,     *)
(* links, tags in comments, skeletons and sections.  A node is an          *)
(* S-expression (tag child ...).  A path is a sequence of indices into the *)
(* items, the tag being number 0.  Nowhere is None, or the Err of an edit. *)
(* Where a value is there or not, an Option is <<>> or <<value>>.          *)
(***************************************************************************)
EXTENDS Integers, FiniteSets, SExpr, TLC

Nowhere == [nowhere |-> TRUE]

Children(e) == IF IsList(e) /\ e # Nil THEN Tail(e.items) ELSE <<>>
Node(tag, children) == L(<<A(tag)>> \o children)
Tag(e) == IF IsList(e) /\ e # Nil /\ IsSymbol(e.items[1]) THEN e.items[1].atom ELSE ""

RECURSIVE extract_text_content(_)
extract_text_content(e) ==
    IF IsList(e) THEN FlattenSeq([i \in DOMAIN Children(e) |-> extract_text_content(Children(e)[i])]) ELSE TextOf(e)

\* The level of a heading, -1 for None.  The tag is h and a digit.
HeadingTag(level) == "h" \o ToString(level)
get_header_level(e) == LET levels == {n \in 0 .. 9 : HeadingTag(n) = Tag(e)} IN IF levels = {} THEN -1 ELSE CHOOSE n \in levels : TRUE
IsHeading(e) == get_header_level(e) >= 0

(***************************************************************************)
(* Naming nodes.                                                           *)
(***************************************************************************)
Child(e, index) == IF IsList(e) /\ index + 1 \in DOMAIN e.items THEN e.items[index + 1] ELSE Nowhere
get_by_path(doc, path) == FoldLeft(Child, doc, path)

\* Every path but those of tags, in the order of the document.
RECURSIVE annotate_from(_, _)
annotate_from(e, path) == <<path>> \o FlattenSeq([i \in DOMAIN Children(e) |-> annotate_from(Children(e)[i], Append(path, i))])
annotate(e) == annotate_from(e, <<>>)

\* The hash of a content stands for the content.
get_by_content(doc, content) == LET i == SelectInSeq(annotate(doc), LAMBDA p : get_by_path(doc, p) = content)
                                IN  IF i = 0 THEN Nowhere ELSE content

get_parent(doc, path) == IF path = <<>> THEN Nowhere ELSE get_by_path(doc, Front(path))

\* The paths of the siblings of path, path included.
get_siblings(doc, path) ==
    LET parent == get_parent(doc, path)
    IN  [i \in 1 .. (IF IsList(parent) THEN Len(Children(parent)) ELSE 0) |-> Append(Front(path), i)]

get_context(doc, path, radius) ==
    LET siblings == get_siblings(doc, path)
        at       == SelectInSeq(siblings, LAMBDA p : p = path)
    IN  IF at = 0 THEN <<>>
        ELSE SubSeq(siblings, Max({1, at - radius}), Min({at + radius, Len(siblings)}))

PreviousSibling(path) == IF path = <<>> \/ Last(path) = 0 THEN Nowhere ELSE [path EXCEPT ![Len(path)] = @ - 1]
HasPrevious(path) == path # <<>> /\ Last(path) # 0

\* "root", or the indices with dots between them; every index is one character.
PathText(path) == IF path = <<>> THEN <<"root">>
                  ELSE Tail(FlattenSeq([i \in DOMAIN path |-> <<".", ToString(path[i])>>]))

Digit(c) == c \in {ToString(n) : n \in 0 .. 9}
DigitValue(c) == CHOOSE n \in 0 .. 9 : ToString(n) = c
NoPath == <<-1>>
parse_path(text) ==
    IF text \in {<<>>, <<"root">>} THEN <<>>
    ELSE IF /\ Len(text) % 2 = 1
            /\ \A i \in DOMAIN text : IF i % 2 = 1 THEN Digit(text[i]) ELSE text[i] = "."
         THEN [k \in 1 .. ((Len(text) + 1) \div 2) |-> DigitValue(text[(2 * k) - 1])] ELSE NoPath

RECURSIVE annotate_sexpr(_, _)
annotate_sexpr(e, path) ==
    L(<<A("@"), T(PathText(path)), Quote(e),
        IF IsList(e) /\ e # Nil
        THEN L(<<Head(e.items)>> \o [i \in DOMAIN Children(e) |-> annotate_sexpr(Children(e)[i], Append(path, i))])
        ELSE e>>)

(***************************************************************************)
(* Edits.  Put makes the lists on the way to path anew.                    *)
(***************************************************************************)
Put(doc, path, new) ==
    LET At(n) == get_by_path(doc, SubSeq(path, 1, n))
        up[n \in 0 .. Len(path)] == IF n = Len(path) THEN new ELSE L([At(n).items EXCEPT ![path[n + 1] + 1] = up[n + 1]])
    IN  up[0]

replace_at(doc, path, new) == IF get_by_path(doc, path) = Nowhere THEN Nowhere ELSE Put(doc, path, new)

\* The items of the list at path become Change(items).
EditItems(doc, path, Change(_)) ==
    LET e == get_by_path(doc, path) IN IF IsList(e) THEN Put(doc, path, L(Change(e.items))) ELSE Nowhere

\* A change of the parent of an existing node that is not the root.
EditAround(doc, path, Change(_)) ==
    IF path = <<>> \/ get_by_path(doc, path) = Nowhere THEN Nowhere ELSE EditItems(doc, Front(path), Change)

\* Seeded bug: the node after the named one is removed.
pruneBug(doc, path) == EditAround(doc, path, LAMBDA items : RemoveAt(items, Min({Last(path) + 2, Len(items)})))
prune(doc, path) == EditAround(doc, path, LAMBDA items : RemoveAt(items, Last(path) + 1))

insert_at(doc, path, new, after) == EditAround(doc, path, LAMBDA items : InsertAt(items, Last(path) + (IF after THEN 2 ELSE 1), new))
insert_before(doc, path, new) == insert_at(doc, path, new, FALSE)
insert_after(doc, path, new)  == insert_at(doc, path, new, TRUE)

append_child(doc, path, new)  == EditItems(doc, path, LAMBDA items : Append(items, new))
prepend_child(doc, path, new) == EditItems(doc, path, LAMBDA items : IF items = <<>> THEN <<new>> ELSE InsertAt(items, 2, new))
insert_child_at(doc, path, index, new) == EditItems(doc, path, LAMBDA items : InsertAt(items, Min({index, Len(items)}) + 1, new))

hoist(doc, path, delta) ==
    LET node  == get_by_path(doc, path)
        level == get_header_level(node)
    IN  IF level < 0 THEN Nowhere
        ELSE replace_at(doc, path, Node(HeadingTag(Max({1, Min({6, level + delta})})), Children(node)))

\* The path of the new parent is that of the document without the node.
graft(doc, source, target, index) ==
    LET pruned == prune(doc, source)
    IN  IF pruned = Nowhere THEN Nowhere ELSE insert_child_at(pruned, target, index, get_by_path(doc, source))

\* A _lenient edit, and a step of apply_mutations_lenient.
Lenient(doc, result) == IF result = Nowhere THEN doc ELSE result

(***************************************************************************)
(* Small trees, and the order of paths.                                    *)
(***************************************************************************)
Doc(children) == Node("doc", children)
P(text) == Node("p", <<T(text)>>)
Html(text) == Node("html", <<T(text)>>)
Link(url, text) == Node("link", <<T(url), T(<<>>), T(text)>>)
IfSome(option, text) == IF option = <<>> THEN <<>> ELSE text

\* Paths are ordered as their indices.
Before(p, q) ==
    LET common == Max({n \in 0 .. Min({Len(p), Len(q)}) : SubSeq(p, 1, n) = SubSeq(q, 1, n)})
    IN  common < Len(q) /\ (common < Len(p) => p[common + 1] < q[common + 1])
Ascending(paths)  == SortSeq(paths, Before)
Descending(paths) == Reverse(Ascending(paths))

\* The nodes at paths; Nowhere among them, or no path, is an error.
NodesAt(doc, paths) == [i \in DOMAIN paths |-> get_by_path(doc, paths[i])]
AllThere(doc, paths) == paths # <<>> /\ Nowhere \notin ToSet(NodesAt(doc, paths))

\* The nodes go, last first, and new takes the place of the first of them.
\* Seeded bug: they go first first.
TakeOutBug(doc, paths, new) == replace_at(FoldLeft(prune, doc, Front(Ascending(paths))), Last(Ascending(paths)), new)
TakeOut(doc, paths, new) ==
    LET order == Descending(paths) IN replace_at(FoldLeft(prune, doc, Front(order)), Last(order), new)

(***************************************************************************)
(* Wrapping and extracting.                                                *)
(***************************************************************************)
wrap_in_callout(doc, paths, kind, title) ==
    LET header == <<"[!", kind, "]">> \o IfSome(title, <<" ">> \o title)
    IN  IF AllThere(doc, paths) THEN TakeOut(doc, paths, Node("blockquote", <<P(header)>> \o NodesAt(doc, paths))) ELSE Nowhere

wrap_in_details(doc, paths, summary) ==
    LET order  == Ascending(paths)
        closed == insert_after(doc, Last(order), Html(<<"</details>">>))
        open   == Html(<<"<details>", "\n", "<summary>">> \o summary \o <<"</summary>", "\n">>)
    IN  IF ~AllThere(doc, paths) \/ closed = Nowhere THEN Nowhere ELSE insert_before(closed, Head(order), open)

mark_deprecated(doc, paths, reason, link) ==
    LET notice  == <<"This content is deprecated.">> \o IfSome(reason, <<" ", "Reason:", " ">> \o reason) \o IfSome(link, <<" ", "See:", " ">> \o link)
        warning == Node("blockquote", <<P(<<"[!", "warning", "]", " ", "Deprecated">>), P(notice)>>)
    IN  IF paths = <<>> THEN prepend_child(doc, <<>>, warning) ELSE insert_before(doc, Head(Ascending(paths)), warning)

\* What an ExtractStrategy leaves behind.
Left(strategy, filename, summary) ==
    CASE strategy = "LeaveLink"  -> Node("p", <<Link(<<filename>>, IF summary = <<>> THEN <<"See extracted content">> ELSE summary)>>)
      [] strategy = "Transclude" -> P(<<"![[", filename, "]]">>)
      [] strategy = "Redirect"   -> Node("blockquote", <<P(<<"[!", "info", "]", " ", "Content Moved">>),
                                                         P(<<"This content has been moved to ", "[", filename, "](", filename, ")", ".">>)>>)

\* ExtractResult: the two documents.
extract_with_strategy(doc, paths, filename, strategy, summary) ==
    IF ~AllThere(doc, paths) THEN [source |-> Nowhere, target |-> Nowhere]
    ELSE [source |-> TakeOut(doc, paths, Left(strategy, filename, summary)), target |-> Doc(NodesAt(doc, paths))]
extract_to_ref(doc, paths, filename, summary) == extract_with_strategy(doc, paths, filename, "LeaveLink", summary)

\* A node without children is merged itself.  The source goes after the target has it.
merge_sections(doc, source, target, strategy) ==
    LET from == get_by_path(doc, source)
        into == get_by_path(doc, target)
        new  == IF Children(from) = <<>> THEN <<from>> ELSE Children(from)
        all  == CASE strategy = "append"  -> Children(into) \o new
                  [] strategy = "prepend" -> new \o Children(into)
                  [] strategy = "replace" -> new
    IN  IF from = Nowhere \/ ~IsList(into) \/ into = Nil THEN Nowhere
        ELSE prune(replace_at(doc, target, L(<<Head(into.items)>> \o all)), source)

\* The first entry <<from, to>> of depths for the level of a heading.
RECURSIVE normalize_headers(_, _)
normalize_headers(e, depths) ==
    LET entry == SelectInSeq(depths, LAMBDA d : d[1] = get_header_level(e))
        Item(i) == IF i = 1 /\ entry # 0 THEN A(HeadingTag(depths[entry][2])) ELSE normalize_headers(e.items[i], depths)
    IN  IF IsList(e) THEN L([i \in DOMAIN e.items |-> Item(i)]) ELSE e

(***************************************************************************)
(* Slugs: a slug is made of pieces of the text.  Words are the runs of     *)
(* letters and digits; a punctuation is an underscore if a word follows.   *)
(***************************************************************************)
Spaces == {" ", "\n"}
Punctuation == {"_", ".", "#", "!", "?", ":", "[!", "]", "<!--", "-->", "=", "/"}
LowerWord(word) == CASE word = "Alpha" -> "alpha" [] word = "Beta" -> "beta" [] OTHER -> word

slugify(text) ==
    LET Add(s, c) == CASE c \in Punctuation        -> [s EXCEPT !.pending = TRUE]
                       [] c \in Spaces \cup {"-"}  -> [slug |-> Append(s.slug, "-"), pending |-> FALSE]
                       [] OTHER -> [slug |-> s.slug \o IfSome(IF s.pending THEN <<TRUE>> ELSE <<>>, <<"_">>) \o <<LowerWord(c)>>, pending |-> FALSE]
        slug == FoldLeft(Add, [slug |-> <<>>, pending |-> FALSE], text).slug
        \* The dashes that end a piece that is not empty and are not the last.
        Kept(i) == slug[i] # "-" \/ (i > 1 /\ slug[i - 1] # "-" /\ \E j \in i .. Len(slug) : slug[j] # "-")
    IN  FlattenSeq([i \in DOMAIN slug |-> IF Kept(i) THEN <<slug[i]>> ELSE <<>>])

\* Op(node, path) for every node, in the order of the document.
Collect(doc, Op(_, _)) == LET paths == annotate(doc) IN FlattenSeq([i \in DOMAIN paths |-> Op(get_by_path(doc, paths[i]), paths[i])])
HasItems(e, tag, n) == Tag(e) = tag /\ Len(e.items) >= n

generate_toc(doc) ==
    LET Entry(e, path) ==
            LET text == extract_text_content(e)
            IN  IF IsHeading(e) THEN <<Node("li", <<Node("p", <<Link(<<"#">> \o slugify(text), text)>>)>>)>> ELSE <<>>
    IN  Node("ul", Collect(doc, Entry))

(***************************************************************************)
(* Links.                                                                  *)
(***************************************************************************)
is_internal_url(url) == url = <<>> \/ Head(url) \in {"#", "./", "../"} \/ "://" \notin ToSet(url)

\* LinkInfo; the url of a reference is its identifier in brackets.
LinkInfo(path, url, text, title, internal, image) ==
    [path |-> path, url |-> url, text |-> text, title |-> title, is_internal |-> internal, is_image |-> image]
TextFrom(e, n) == FlattenSeq([i \in 1 .. Len(e.items) - n + 1 |-> extract_text_content(e.items[i + n - 1])])

scan_links(doc) ==
    LET Arg(e, i) == TextOf(e.items[i + 1])
        Ref(e) == <<"[">> \o Arg(e, 1) \o <<"]">>
        Found(e, path) ==
            CASE HasItems(e, "link", 4)     -> <<LinkInfo(path, Arg(e, 1), TextFrom(e, 4), Arg(e, 2), is_internal_url(Arg(e, 1)), FALSE)>>
              [] HasItems(e, "img", 4)      -> <<LinkInfo(path, Arg(e, 1), Arg(e, 2), Arg(e, 3), is_internal_url(Arg(e, 1)), TRUE)>>
              [] HasItems(e, "link-ref", 2) -> <<LinkInfo(path, Ref(e), TextFrom(e, 3), <<>>, TRUE, FALSE)>>
              [] HasItems(e, "img-ref", 3)  -> <<LinkInfo(path, Ref(e), Arg(e, 2), <<>>, TRUE, TRUE)>>
              [] OTHER -> <<>>
    IN  Collect(doc, Found)

get_internal_links(doc) == SelectSeq(scan_links(doc), LAMBDA l : l.is_internal)
get_external_links(doc) == SelectSeq(scan_links(doc), LAMBDA l : ~l.is_internal)
get_image_links(doc)    == SelectSeq(scan_links(doc), LAMBDA l : l.is_image)

link_info_to_sexpr(l) ==
    L(<<A("link-info"), T(PathText(l.path)), T(l.url), T(l.text), Bool(l.is_internal), Bool(l.is_image)>>)
links_to_sexpr(links) == L([i \in DOMAIN links |-> link_info_to_sexpr(links[i])])

scan_link_definitions(doc) ==
    LET Found(e, path) == IF HasItems(e, "def", 4) THEN <<[identifier |-> TextOf(e.items[2]), url |-> TextOf(e.items[3]), path |-> path]>> ELSE <<>>
    IN  Collect(doc, Found)

find_undefined_references(doc) ==
    LET defs == scan_link_definitions(doc)
        Undefined(l) == /\ l.url # <<>> /\ Head(l.url) = "[" /\ Last(l.url) = "]"
                        /\ \A i \in DOMAIN defs : defs[i].identifier # Front(Tail(l.url))
    IN  SelectSeq(scan_links(doc), Undefined)

update_link(doc, path, url) ==
    LET node == get_by_path(doc, path)
    IN  IF HasItems(node, "link", 4) \/ HasItems(node, "img", 4)
        THEN replace_at(doc, path, L([node.items EXCEPT ![2] = T(url)])) ELSE Nowhere

\* Every link and image to one url goes to another; two items are enough here.
RECURSIVE rehome_orphans(_, _, _)
rehome_orphans(e, from, to) ==
    LET moves   == (HasItems(e, "link", 2) \/ HasItems(e, "img", 2)) /\ TextOf(e.items[2]) = from
        Item(i) == IF i = 2 /\ moves THEN T(to) ELSE rehome_orphans(e.items[i], from, to)
    IN  IF IsList(e) THEN L([i \in DOMAIN e.items |-> Item(i)]) ELSE e

(***************************************************************************)
(* Tags: a comment <!-- @tag:key=value --> before the node.                *)
(***************************************************************************)
TagComment(key, value) == Html(<<"<!--", " ", "@tag:", key, "=", value, " ", "-->">>)
TrimText(text) ==
    LET first == SelectInSeq(text, LAMBDA c : c \notin Spaces)
        last  == SelectLastInSeq(text, LAMBDA c : c \notin Spaces)
    IN  IF first = 0 THEN <<>> ELSE SubSeq(text, first, last)

\* The text after @tag: in a comment, <<>> if there is none.
AfterMark(text) == IF text # <<>> /\ Head(text) = "@tag:" THEN Tail(text) ELSE <<>>
InComment(text) == IF Len(text) >= 2 /\ Head(text) = "<!--" /\ Last(text) = "-->" THEN AfterMark(TrimText(Front(Tail(text)))) ELSE <<>>
TagText(e) == IF HasItems(e, "html", 2) THEN InComment(TrimText(TextOf(e.items[2]))) ELSE <<>>

\* <<key, value>> of the tag comment a node is, or <<>>.
SplitAt(text, eq) == IF eq = 0 THEN <<>> ELSE <<SubSeq(text, 1, eq - 1), SubSeq(text, eq + 1, Len(text))>>
KeyValue(text) == SplitAt(text, SelectInSeq(text, LAMBDA c : c = "="))
TagOf(e) == KeyValue(TagText(e))
HasKeyOf(tag, key) == tag # <<>> /\ tag[1] = <<key>>

tag_node(doc, path, key, value) ==
    IF get_by_path(doc, path) = Nowhere THEN Nowhere ELSE insert_before(doc, path, TagComment(key, value))

remove_tag(doc, path, key) ==
    IF HasPrevious(path) /\ HasKeyOf(TagOf(get_by_path(doc, PreviousSibling(path))), key) THEN prune(doc, PreviousSibling(path)) ELSE Nowhere

\* The paths of the nodes after a comment with the key.
get_tagged_nodes(doc, key) ==
    LET Found(e, path) == FlattenSeq([i \in 1 .. Len(Children(e)) - 1 |->
                              IF HasKeyOf(TagOf(Children(e)[i]), key) THEN <<Append(path, i + 1)>> ELSE <<>>])
    IN  ToSet(Collect(doc, Found))

(***************************************************************************)
(* Skeletons.                                                              *)
(***************************************************************************)
focus_context(doc, paths) ==
    LET RECURSIVE Focus(_, _)
        Focus(e, path) ==
            LET kept == SelectSeq([i \in DOMAIN Children(e) |-> Append(path, i)], LAMBDA p : \E q \in ToSet(paths) : IsPrefix(p, q))
            IN  IF IsList(e) /\ e # Nil THEN L(<<Head(e.items)>> \o [k \in DOMAIN kept |-> Focus(get_by_path(doc, kept[k]), kept[k])]) ELSE e
    IN  IF paths = <<>> THEN Doc(<<>>) ELSE Focus(doc, <<>>)

Ellipsis == T(<<"...">>)
RECURSIVE skeletonize(_, _, _)
skeletonize(e, depth, max_depth) ==
    CASE depth > max_depth -> Ellipsis
      [] depth <= max_depth /\ ~IsList(e) -> IF IsText(e) THEN Ellipsis ELSE e
      [] depth <= max_depth /\ IsList(e) ->
            IF Tag(e) = "" \/ get_header_level(e) \in 1 .. 6 THEN e
            ELSE IF Tag(e) = "p" THEN Node("p", <<Ellipsis>>)
            ELSE IF Tag(e) = "code-block" THEN (IF Len(e.items) >= 2 THEN Node("code-block", <<e.items[2], Ellipsis>>) ELSE e)
            ELSE L(<<Head(e.items)>> \o [i \in DOMAIN Children(e) |-> skeletonize(Children(e)[i], depth + 1, max_depth)])

skeleton_summary(doc) ==
    LET nodes == Collect(doc, LAMBDA e, path : <<e>>)
        Count(tags) == Len(SelectSeq(nodes, LAMBDA e : Tag(e) \in tags))
        Language(found, e) == LET lang == TextOf(e.items[2]) IN IF lang = <<>> \/ Contains(found, lang) THEN found ELSE Append(found, lang)
    IN  [heading_counts |-> [n \in 1 .. 6 |-> Count({HeadingTag(n)})], paragraph_count |-> Count({"p"}), code_block_count |-> Count({"code-block"}),
         list_item_count |-> Count({"li"}), link_count |-> Count({"link", "link-ref"}), image_count |-> Count({"img", "img-ref"}),
         max_depth |-> Max({Len(p) : p \in ToSet(annotate(doc))}),
         code_languages |-> FoldLeft(Language, <<>>, SelectSeq(nodes, LAMBDA e : HasItems(e, "code-block", 2)))]

(***************************************************************************)
(* Sections.  A section ends at the next heading of its level or above;    *)
(* its content is every node in it that is not a heading, those of its     *)
(* child sections too.                                                     *)
(***************************************************************************)
Section(level, title, content, children) ==
    [level |-> level, title |-> title, slug |-> slugify(title), content |-> content, children |-> children]

RECURSIVE parse_sections(_, _)
parse_sections(items, min_level) ==
    LET first == SelectInSeq(items, IsHeading)
        level == get_header_level(items[first])
        rest  == SubSeq(items, first + 1, Len(items))
        next  == SelectInSeq(rest, LAMBDA e : IsHeading(e) /\ get_header_level(e) <= level)
        own   == IF next = 0 THEN rest ELSE SubSeq(rest, 1, next - 1)
    IN  IF first = 0 \/ (min_level > 0 /\ level <= min_level) THEN <<>>
        ELSE <<Section(level, extract_text_content(items[first]), SelectSeq(own, LAMBDA e : ~IsHeading(e)), parse_sections(own, level))>>
             \o parse_sections(SubSeq(rest, Len(own) + 1, Len(rest)), min_level)

extract_sections(doc) == IF Tag(doc) = "doc" THEN parse_sections(Children(doc), 0) ELSE <<>>

section_to_doc(section) == Doc(<<Node("h1", <<T(section.title)>>)>> \o section.content)

make_section_index(section) ==
    LET Target(child) == child.slug \o IfSome(child.children, <<"/", "index">>) \o <<".md">>
        Item(child)   == Node("li", <<Link(Target(child), child.title)>>)
    IN  Doc(Children(section_to_doc(section)) \o <<Node("ul", [i \in DOMAIN section.children |-> Item(section.children[i])])>>)

\* The files of a section and of those below it, in the order they are written.
RECURSIVE splat_section(_, _)
splat_section(section, prefix) ==
    LET dir == prefix \o section.slug \o <<"/">>
    IN  IF section.children = <<>> THEN <<[name |-> prefix \o section.slug \o <<".md">>, doc |-> section_to_doc(section)]>>
        ELSE <<[name |-> dir \o <<"index", ".md">>, doc |-> make_section_index(section)]>>
             \o FlattenSeq([i \in DOMAIN section.children |-> splat_section(section.children[i], dir)])

splat(doc, prefix) == LET sections == extract_sections(doc) IN FlattenSeq([i \in DOMAIN sections |-> splat_section(sections[i], prefix)])
=============================================================================
