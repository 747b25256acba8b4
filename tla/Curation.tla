------------------------------ MODULE Curation ------------------------------
(***************************************************************************)
(* A session with the Markdown functions (lispdown repl.rs, vm.rs): a      *)
(* document is edited, looked at, saved, loaded and split into files.  An  *)
(* argument that names nodes is a text; a call whose argument cannot be    *)
(* read, or that finds no node, returns an error (Nowhere) and the         *)
(* document stays as it is.                                                *)
(***************************************************************************)
EXTENDS Selecting, Rendering

CONSTANTS
    Docs,           \* the documents a session starts with
    PathArgs(_),    \* texts that name nodes of a document, some of none
    PathLists(_),   \* sequences of such texts
    NewNodes,       \* nodes to insert
    Depths,         \* arguments of normalize-headers
    Contents,       \* frontmatter
    Inputs,         \* selectors
    MaxEdits,       \* bounds on the edits of a session, and on its calls
    MaxCalls

VARIABLES
    doc,            \* the value of the document variable
    file,           \* the text of the file it is saved to
    pending,        \* the files splat has yet to write
    site,           \* the files it wrote: name -> text
    call            \* the last call: function, nodes named, arguments, result, number
vars == <<doc, file, pending, site, call>>

NoFile == <<"no file">>
Init ==
    /\ doc \in Docs
    /\ file = NoFile /\ pending = <<>> /\ site = [n \in {} |-> <<>>]
    /\ call = [fn |-> "init", paths |-> <<>>, args |-> <<>>, result |-> Null, n |-> 0]

parse_path_list(texts) == [i \in DOMAIN texts |-> parse_path(texts[i])]

\* Pairs of two numbers of an argument of normalize-headers; NoPath is an error.
parse_depth_map(e) ==
    LET pairs == IF IsList(e) THEN SelectSeq(e.items, IsPair) ELSE <<>>
        Number(x) == NumberOf(TextOf(x))
        depths == [i \in DOMAIN pairs |-> <<Number(pairs[i].items[1]), Number(pairs[i].items[2])>>]
    IN  IF \E i \in DOMAIN depths : -1 \in ToSet(depths[i]) THEN NoPath ELSE depths

(***************************************************************************)
(* A call reads its paths before it does anything else.                    *)
(***************************************************************************)
Ends(fn, paths, args, result, n) ==
    /\ pending = <<>> /\ call.n < n
    /\ call' = [fn |-> fn, paths |-> paths, args |-> args, result |-> result, n |-> n]
Returns(fn, paths, args, result) == call.n < MaxCalls /\ Ends(fn, paths, args, result, call.n + 1)
Edit(fn, paths, args, result) ==
    LET value == IF NoPath \in ToSet(paths) THEN Nowhere ELSE result
    IN  call.n < MaxEdits /\ Returns(fn, paths, args, value) /\ doc' = Lenient(doc, value) /\ UNCHANGED <<file, pending, site>>
\* A view changes nothing and is the last call of a session here.
View(fn, paths, args, result) ==
    call.n < MaxEdits /\ Ends(fn, paths, args, IF NoPath \in ToSet(paths) THEN Nowhere ELSE result, MaxCalls) /\ UNCHANGED <<doc, file, pending, site>>

Pairs(d) == {texts \in PathLists(d) : Len(texts) = 2}

\* An Option as the builtins return it.
OrNull(e) == IF e = Nowhere THEN Null ELSE e
Nodes(paths) == L(NodesAt(doc, paths))

(***************************************************************************)
(* Edits.                                                                  *)
(***************************************************************************)
EditAt ==
    \E text \in PathArgs(doc), new \in NewNodes :
        LET path == parse_path(text)
        IN  \/ Edit("replace-at", <<path>>, <<new>>, replace_at(doc, path, new))
            \/ Edit("insert-before", <<path>>, <<new>>, insert_before(doc, path, new))
            \/ Edit("insert-after", <<path>>, <<new>>, insert_after(doc, path, new))
            \/ Edit("append-child", <<path>>, <<new>>, append_child(doc, path, new))
            \/ Edit("prepend-child", <<path>>, <<new>>, prepend_child(doc, path, new))

Prune == \E text \in PathArgs(doc) : Edit("prune", <<parse_path(text)>>, <<>>, prune(doc, parse_path(text)))
Hoist == \E text \in PathArgs(doc), delta \in {-1, 2} : Edit("hoist", <<parse_path(text)>>, <<Numeral(delta)>>, hoist(doc, parse_path(text), delta))
Graft ==
    \E texts \in Pairs(doc), index \in 0 .. 2 :
        LET paths == parse_path_list(texts) IN Edit("graft", paths, <<Numeral(index)>>, graft(doc, paths[1], paths[2], index))

\* An empty text is no title, no reason and no link.
Wrap ==
    \E texts \in PathLists(doc), title \in {<<>>, <<"Beta">>} :
        LET paths == parse_path_list(texts)
        IN  \/ Edit("wrap-in-callout", paths, <<T(title)>>, wrap_in_callout(doc, paths, "note", title))
            \/ Edit("wrap-in-details", paths, <<T(title)>>, wrap_in_details(doc, paths, title))
            \/ Edit("mark-deprecated", paths, <<T(title)>>, mark_deprecated(doc, paths, title, <<>>))

NormalizeHeaders ==
    \E depths \in Depths : LET map == parse_depth_map(depths)
                           IN  Edit("normalize-headers", <<>>, <<depths>>, IF map = NoPath THEN Nowhere ELSE normalize_headers(doc, map))

Extract ==
    \E texts \in PathLists(doc), strategy \in {"LeaveLink", "Transclude", "Redirect"} :
        LET paths  == parse_path_list(texts)
            result == extract_with_strategy(doc, paths, "new.md", strategy, <<>>)
        IN  Edit("extract", paths, <<result.target>>, result.source)

\* extract_to_ref is a copy of extract_with_strategy for one strategy.
ExtractToRef ==
    \E texts \in PathLists(doc) :
        LET paths  == parse_path_list(texts)
            result == extract_to_ref(doc, paths, "new.md", <<"Alpha">>)
        IN  Edit("extract", paths, <<result.target>>, result.source)

Merge ==
    \E texts \in Pairs(doc), strategy \in {"append", "prepend", "replace"} :
        LET paths == parse_path_list(texts) IN Edit("merge", paths, <<T(<<strategy>>)>>, merge_sections(doc, paths[1], paths[2], strategy))

TagNode   == \E text \in PathArgs(doc), value \in {"a", "b"} : Edit("tag", <<parse_path(text)>>, <<T(<<value>>)>>, tag_node(doc, parse_path(text), "k", value))
RemoveTag == \E text \in PathArgs(doc) : Edit("remove-tag", <<parse_path(text)>>, <<>>, remove_tag(doc, parse_path(text), "k"))

Relink ==
    \/ \E text \in PathArgs(doc) : Edit("update-link", <<parse_path(text)>>, <<>>, update_link(doc, parse_path(text), <<"new.md">>))
    \/ \E l \in ToSet(scan_links(doc)) : Edit("rehome", <<>>, <<T(l.url)>>, rehome_orphans(doc, l.url, <<"new.md">>))

Reduce ==
    \/ \E texts \in PathLists(doc) : Edit("focus", parse_path_list(texts), <<>>, focus_context(doc, parse_path_list(texts)))
    \/ \E depth \in 0 .. 2 : Edit("skeletonize", <<>>, <<Numeral(depth)>>, skeletonize(doc, 0, depth))

Frontmatter ==
    \/ \E format \in {"yaml", "toml", "json"}, content \in Contents : Edit("set-frontmatter", <<>>, <<T(content)>>, set_frontmatter(doc, format, content))
    \/ Edit("remove-frontmatter", <<>>, <<>>, remove_frontmatter(doc))

(***************************************************************************)
(* Views.                                                                  *)
(***************************************************************************)
Look ==
    \/ \E text \in PathArgs(doc) :
           LET path == parse_path(text)
           IN  \/ View("get-by-path", <<path>>, <<>>, OrNull(get_by_path(doc, path)))
               \/ View("get-parent", <<path>>, <<>>, OrNull(get_parent(doc, path)))
               \/ View("get-siblings", <<path>>, <<>>, Nodes(get_siblings(doc, path)))
               \/ \E radius \in 0 .. 1 : View("get-context", <<path>>, <<Numeral(radius)>>, Nodes(get_context(doc, path, radius)))
    \/ \E node \in NewNodes : View("get-node", <<>>, <<node>>, OrNull(get_by_content(doc, node)))
    \/ View("annotate", <<>>, <<>>, annotate_sexpr(doc, <<>>))

SkeletonText(s) == <<s.paragraph_count, s.code_block_count, s.list_item_count, s.link_count, s.image_count, s.max_depth>>
skeleton_summary_to_sexpr(s) ==
    L(<<A("skeleton-summary")>> \o [i \in 1 .. 6 |-> Numeral(s.heading_counts[i])] \o [i \in 1 .. 6 |-> Numeral(SkeletonText(s)[i])]
      \o [i \in DOMAIN s.code_languages |-> T(s.code_languages[i])])

LinkDefs == [i \in DOMAIN scan_link_definitions(doc) |->
                LET d == scan_link_definitions(doc)[i] IN L(<<A("link-def"), T(d.identifier), T(d.url), T(PathText(d.path))>>)]

Survey ==
    \/ View("get-frontmatter", <<>>, <<>>, get_frontmatter(doc))
    \/ View("get-frontmatter-content", <<>>, <<>>, get_frontmatter_content(doc))
    \/ View("generate-toc", <<>>, <<>>, generate_toc(doc))
    \/ View("scan-links", <<>>, <<>>, links_to_sexpr(scan_links(doc)))
    \/ View("get-internal-links", <<>>, <<>>, links_to_sexpr(get_internal_links(doc)))
    \/ View("get-external-links", <<>>, <<>>, links_to_sexpr(get_external_links(doc)))
    \/ View("get-image-links", <<>>, <<>>, links_to_sexpr(get_image_links(doc)))
    \/ View("scan-link-defs", <<>>, <<>>, L(LinkDefs))
    \/ View("find-undef-refs", <<>>, <<>>, links_to_sexpr(find_undefined_references(doc)))
    \/ View("skeleton-summary", <<>>, <<>>, skeleton_summary_to_sexpr(skeleton_summary(doc)))
    \/ \E i \in DOMAIN extract_sections(doc) : View("section-to-doc", <<>>, <<>>, section_to_doc(extract_sections(doc)[i]))

\* Selectors and invariants: the paths selected, and those of violations.
Paths(paths) == L([i \in DOMAIN paths |-> T(PathText(paths[i]))])
Parsed == [text \in Inputs |-> ParseSelector(text)]
Readable == {text \in Inputs : Parsed[text].ok}

Invariants == [kind : {"has-child", "has-sibling", "must-exist", "must-not-exist"}, parameter : {0}]
              \cup [kind : {"max-depth"}, parameter : 0 .. 2] \cup [kind : {"requires-tag"}, parameter : {"k"}]

Check ==
    \/ \E text \in Inputs :
           View("select", <<>>, <<T(text)>>, IF text \in Readable THEN Paths(select(doc, Parsed[text].out)) ELSE Nowhere)
    \/ \E text \in Inputs, other \in {t \in Inputs : Len(t) = 1}, inv \in Invariants :
           View(inv.kind, <<>>, <<T(text), T(other)>>, Paths(assert_invariant(doc, inv, Parsed[text], Parsed[other])))
    \/ View("no-heading-skips", <<>>, <<>>, Paths(validate_no_heading_skips(doc)))
    \/ View("custom", <<>>, <<>>, Paths(validate_custom(doc, {"ul"})))

(***************************************************************************)
(* Files.                                                                  *)
(***************************************************************************)
\* A text is made before the file is opened.  A file that cannot be opened stays as it is;
\* a write that fails leaves a part of the text, here nothing or half of it.
Cuts(text) == {SubSeq(text, 1, n) : n \in {0, Len(text) \div 2}} \ {text}
Leavings(old, text) == {old} \cup (IF text = Unknown THEN {} ELSE Cuts(text))
Writes(fn, paths, result, text) ==
    /\ \/ text # Unknown /\ Returns(fn, paths, <<>>, result) /\ file' = text
       \/ Returns(fn, paths, <<>>, Nowhere) /\ file' \in Leavings(file, text)
    /\ UNCHANGED <<doc, pending, site>>

Save == Writes("save", <<>>, T(<<"doc.md">>), sexpr_to_markdown(doc))

Load ==
    LET result == IF file = NoFile THEN Nowhere ELSE markdown_to_sexpr(file)
    IN  Returns("load", <<>>, <<>>, result) /\ doc' = Lenient(doc, result) /\ UNCHANGED <<file, pending, site>>

\* :edit doc.md (prune path).
Pruned(path) == IF file = NoFile \/ path = NoPath THEN Nowhere ELSE prune(markdown_to_sexpr(file), path)
TextFor(e) == IF e = Nowhere THEN Unknown ELSE sexpr_to_markdown(e)
edit_document ==
    \E text \in PathArgs(doc) :
        LET path == parse_path(text) IN Writes("edit", <<path>>, Pruned(path), TextFor(Pruned(path)))

\* splat writes one file after the other and stops at the first error.
Splat ==
    /\ Returns("splat", <<>>, <<>>, Null)
    /\ pending' = splat(doc, <<"out/">>)
    /\ site' = [n \in {} |-> <<>>]
    /\ UNCHANGED <<doc, file>>

WriteFile ==
    /\ pending # <<>>
    /\ LET text == sexpr_to_markdown(Head(pending).doc)
       IN  /\ text # Unknown
           /\ site' = (Head(pending).name :> text) @@ site
    /\ pending' = Tail(pending)
    /\ UNCHANGED <<doc, file, call>>

\* A document without a text, or an error of the filesystem.
FailWrite ==
    /\ pending # <<>>
    /\ LET f == Head(pending)
           Cut == Cuts(sexpr_to_markdown(f.doc))
       IN  site' \in {site} \cup (IF sexpr_to_markdown(f.doc) = Unknown THEN {} ELSE {(f.name :> text) @@ site : text \in Cut})
    /\ pending' = <<>>
    /\ call' = [call EXCEPT !.result = Nowhere]
    /\ UNCHANGED <<doc, file>>

Next ==
    \/ EditAt \/ Prune \/ Hoist \/ Graft \/ Wrap \/ NormalizeHeaders \/ Extract \/ ExtractToRef \/ Merge \/ TagNode \/ RemoveTag \/ Relink
    \/ Reduce \/ Frontmatter \/ Look \/ Survey \/ Check \/ Save \/ Load \/ edit_document \/ Splat \/ WriteFile \/ FailWrite

Spec == Init /\ [][Next]_vars
-----------------------------------------------------------------------------
(***************************************************************************)
(* What an edit means: a change of the document written out with its       *)
(* brackets.                                                               *)
(***************************************************************************)
RECURSIVE Flat(_)
Flat(e) == IF IsList(e) THEN <<A("(")>> \o FlattenSeq([i \in DOMAIN e.items |-> Flat(e.items[i])]) \o <<A(")")>> ELSE <<e>>
Leaves(e) == SelectSeq(Flat(e), LAMBDA x : x \notin {A("("), A(")")})
HowMany(x, leaves) == Len(SelectSeq(leaves, LAMBDA y : y = x))

\* The number of symbols before the node at path.
Offset(d, path) ==
    LET Skipped(n) == LET up == get_by_path(d, SubSeq(path, 1, n - 1))
                      IN  1 + Len(FlattenSeq([i \in 1 .. path[n] |-> Flat(up.items[i])]))
    IN  FoldLeft(LAMBDA sum, n : sum + Skipped(n), 0, [n \in DOMAIN path |-> n])

Splice(text, from, old, new) == SubSeq(text, 1, from) \o new \o SubSeq(text, from + old + 1, Len(text))

Spliced(d, c) ==
    LET path == c.paths[1]
        node == get_by_path(d, path)
        size == Len(Flat(node))
        new  == IF c.args = <<>> THEN <<>> ELSE Flat(c.args[1])
        At(from, old) == Splice(Flat(d), Offset(d, path) + from, old, new)
    IN  CASE c.fn \in {"replace-at", "prune"} -> At(0, size)
          [] c.fn = "insert-before" -> At(0, 0)
          [] c.fn = "insert-after"  -> At(size, 0)
          [] c.fn = "append-child"  -> At(size - 1, 0)
          [] c.fn = "prepend-child" -> At(IF node = Nil THEN 1 ELSE 1 + Len(Flat(node.items[1])), 0)

\* A call returned, and not an error.
Done(fns) == call' # call /\ call'.fn \in fns /\ call'.result # Nowhere /\ call'.n > call.n
Failed(fns) == call' # call /\ call'.fn \in fns /\ call'.result = Nowhere

(* An edit at a path changes the document there and nowhere else: written  *)
(* out, the document loses the symbols of the node named, or gains those   *)
(* of the new node at its side, whatever the depth of the path             *)
(* (mutations.rs replace_at, prune, insert_at_impl, append_child_impl and  *)
(* prepend_child_impl, each with its own recursion).                       *)
EditsSplice ==
    [][Done({"replace-at", "prune", "insert-before", "insert-after", "append-child", "prepend-child"}) => Flat(doc') = Spliced(doc, call')]_vars

(***************************************************************************)
(* Moving what is there.                                                   *)
(***************************************************************************)
Apart(paths) == \A i, j \in DOMAIN paths : i # j => ~IsPrefix(paths[i], paths[j])
\* What a call may drop: the tag of a section merged, and what it replaces.
Dropped(d, c) ==
    IF c.fn # "merge" THEN <<>>
    ELSE LET from == get_by_path(d, c.paths[1])  into == get_by_path(d, c.paths[2])
         IN  (IF Children(from) = <<>> THEN <<>> ELSE Leaves(Head(from.items)))
             \o (IF TextOf(c.args[1]) = <<"replace">> THEN Leaves(into) ELSE <<>>)

(* Wrapping, extracting, merging and moving lose no text and no structure: *)
(* every leaf of the document is in what the call returns as often as      *)
(* before, if no node named is inside another one (curation.rs             *)
(* wrap_in_callout, wrap_in_details, extract_with_strategy,                *)
(* merge_sections, mutations.rs graft; paths are pruned one by one and     *)
(* each pruning moves the nodes after it).                                 *)
NothingLost ==
    [][Done({"wrap-in-callout", "wrap-in-details", "mark-deprecated", "extract", "merge", "graft"}) /\ Apart(call'.paths) =>
         \E old \in {Leaves(doc)}, new \in {Leaves(doc') \o (IF call'.fn = "extract" THEN Leaves(call'.args[1]) ELSE <<>>) \o Dropped(doc, call')} :
             \A x \in ToSet(old) : HowMany(x, old) <= HowMany(x, new)]_vars

(***************************************************************************)
(* Pairs of calls.                                                         *)
(***************************************************************************)
Next1(path) == [path EXCEPT ![Len(path)] = @ + 1]
Field(content, key) == get_frontmatter_field(parse_yaml_frontmatter(content), key)
Keys(content) == {TextOf(pair.items[1]) : pair \in ToSet(Children(parse_yaml_frontmatter(content)))}

InsertUndone(d, p, new) ==
    /\ prune(insert_before(d, p, new), p) = d
    /\ prune(insert_after(d, p, new), Next1(p)) = d
    /\ replace_at(replace_at(d, p, new), p, get_by_path(d, p)) = d
TagUndone(d, p) ==
    LET tagged == tag_node(d, p, "new", "a")
    IN  /\ remove_tag(tagged, Next1(p), "new") = d
        /\ get_tagged_nodes(tagged, "new") = {Next1(p)}
        /\ \A value \in {"a", "b"} : Matches(<<[simple |-> HasTag("new", <<value>>), combinator |-> ""]>>, tagged, Next1(p), Len(p)) <=> value = "a"
HoistUndone(d, p) ==
    \A delta \in 1 .. 2 : get_header_level(get_by_path(d, p)) \in 1 .. 6 - delta => hoist(hoist(d, p, delta), p, 0 - delta) = d
FrontmatterUndone(d, content) ==
    /\ remove_frontmatter(set_frontmatter(d, "yaml", content)) = remove_frontmatter(d)
    /\ get_frontmatter_content(set_frontmatter(d, "toml", content)) = T(content)
FieldUndone(content, key, value) ==
    LET new == upsert_frontmatter_field(content, key, value)
    IN  /\ Field(new, key) = T(value)
        /\ Field(remove_frontmatter_field(new, key), key) = Null
        /\ \A other \in Keys(content) \ {key} : \A c \in {new, remove_frontmatter_field(content, key)} : Field(c, other) = Field(content, other)

(* Calls that are each other's inverse are so on every document an edit    *)
(* leaves, at the paths it was given: a node put in and taken out, a tag   *)
(* set, found, selected and removed, a heading moved                       *)
(* down and up, frontmatter and one of its fields set and removed, the     *)
(* other fields untouched (mutations.rs; curation.rs tag_node, remove_tag, *)
(* get_tagged_nodes; markdown/mod.rs set_frontmatter,                      *)
(* upsert_frontmatter_field, remove_frontmatter_field).                    *)
Undone ==
    [][Done({"replace-at", "insert-after", "prune", "hoist", "graft", "set-frontmatter"}) =>
         /\ \A p \in (ToSet(annotate(doc')) \cap ToSet(call'.paths)) \ {<<>>} :
               (\A new \in NewNodes : InsertUndone(doc', p, new)) /\ TagUndone(doc', p) /\ HoistUndone(doc', p)
         /\ call'.fn = "set-frontmatter" => \A content \in Contents :
               /\ Tag(doc') = "doc" => FrontmatterUndone(doc', content)
               /\ \A key \in Keys(content) \cup {<<"new">>} : FieldUndone(content, key, <<"v">>)]_vars

(***************************************************************************)
(* Selectors.                                                              *)
(***************************************************************************)
Related(combinator, from, to) ==
    CASE combinator = "child"      -> to # <<>> /\ from = Front(to)
      [] combinator = "descendant" -> IsStrictPrefix(from, to)
      [] combinator = "adjacent"   -> HasPrevious(to) /\ from = PreviousSibling(to)
      [] combinator = "sibling"    -> Len(from) = Len(to) /\ to # <<>> /\ Front(from) = Front(to) /\ Last(from) < Last(to)

RECURSIVE Means(_, _, _, _, _)
Means(parts, n, d, path, paths) ==
    /\ SimpleMatches(parts[n].simple, d, path, Len(path))
    /\ n > 1 => \E q \in paths : Related(parts[n - 1].combinator, q, path) /\ Means(parts, n - 1, d, q, paths)

\* Every list has a tag: index 0 of graft puts a node before it.
Proper(e) == \A p \in ToSet(annotate(e)) : LET at == get_by_path(e, p) IN IsList(at) => Tag(at) # ""

\* A step that is taken to the nearest node decides what the next one can reach.
NearestWillDo(parts) ==
    \A i \in 1 .. Len(parts) - 2 :
        LET next == parts[i].combinator  last == parts[i + 1].combinator
        IN  /\ last = "descendant" => next = "descendant"
            /\ last = "sibling" => next # "adjacent"

(* A selector selects no node it does not describe: there are nodes, one   *)
(* for every part, that stand to each other as the combinators say.  It    *)
(* selects all of them unless a step to an ancestor comes after a step     *)
(* that has only one way to go (selector.rs matches_compound follows the   *)
(* nearest match and does not come back).  The tag check names the nodes   *)
(* selected that get_tagged_nodes does not know, and an unreadable         *)
(* selector is a violation of the document (invariants.rs).                *)
SelectIsMeaning ==
    [][Done({"replace-at", "append-child", "tag", "remove-tag"}) /\ Proper(doc') =>
         \E paths \in {ToSet(annotate(doc'))}, tagged \in {get_tagged_nodes(doc', "k")} :
         \A text \in Inputs :
         \E parts \in {Parsed[text].out}, found \in {ToSet(select(doc', Parsed[text].out))} :
            LET Meant == {p \in paths : Means(parts, Len(parts), doc', p, paths)}
            IN  /\ text \in Readable => IF NearestWillDo(parts) THEN found = Meant ELSE found \subseteq Meant
                /\ ToSet(assert_invariant(doc', [kind |-> "requires-tag", parameter |-> "k"], Parsed[text], Parsed[text])) = IF text \in Readable THEN found \ tagged ELSE {Root}]_vars

(***************************************************************************)
(* Files.                                                                  *)
(***************************************************************************)
\* Words, and markup of words: what lies side by side is not both words, or
\* both markup.
IsWords(x) == IsText(x) /\ x.text # <<>> /\ TrimText(x.text) = x.text /\ \A c \in ToSet(x.text) : c \in {" ", "Alpha", "Beta"}
IsTarget(url, title) == IsText(url) /\ url.text # <<>> /\ IsText(title) /\ ToSet(url.text) \subseteq {"#", "Alpha", "https", "://", "x"} /\ (title.text = <<>> \/ IsWords(title))
IsMarkup(e) ==
    LET parts == Children(e)
        tag   == Tag(e)
    IN  CASE tag \in {"code", "em", "strong"} -> Len(parts) = 1 /\ IsWords(parts[1])
          [] tag = "link" -> Len(parts) = 3 /\ IsTarget(parts[1], parts[2]) /\ IsWords(parts[3])
          [] tag = "img"  -> Len(parts) = 3 /\ IsTarget(parts[1], parts[3]) /\ IsWords(parts[2])
          [] tag = "br"   -> parts = <<>>
          [] OTHER -> FALSE
IsLine(parts, tags) ==
    /\ parts # <<>>
    /\ \A i \in DOMAIN parts : IF i % 2 = 1 THEN IsWords(parts[i]) ELSE Tag(parts[i]) \in tags /\ IsMarkup(parts[i])
    /\ Tag(Last(parts)) # "br"
\* A piece of a doc, a quote or an item, of which Markdown says everything.
RECURSIVE IsFlow(_)
Flows(parts) ==
    /\ parts # <<>> /\ \A i \in DOMAIN parts : IsFlow(parts[i])
    /\ \A i \in 1 .. Len(parts) - 1 : ~(is_list(parts[i]) /\ is_list(parts[i + 1]))
IsItem(e, tags) ==
    LET parts == Children(e)
    IN  /\ Tag(e) = "li" /\ Len(parts) \in 1 .. 2
        /\ Tag(parts[1]) = "p" /\ IsLine(Children(parts[1]), {"code", "em"})
        /\ \A i \in DOMAIN parts : i = 2 => Tag(parts[i]) \in tags /\ IsFlow(parts[i])
IsFlow(e) ==
    LET parts == Children(e)
        tag   == Tag(e)
        Words(x) == IsText(x) /\ \A c \in ToSet(x.text) : c \in {" ", "\n", "Alpha", "Beta", "rust"}
        Markup == {"code", "em", "strong", "link", "img"}
    IN  CASE tag = "blockquote" -> Flows(parts)
          [] tag = "p" -> IsLine(parts, Markup \cup {"br"})
          [] get_header_level(e) \in 1 .. 6 -> IsLine(parts, Markup)
          [] tag = "hr" -> parts = <<>>
          [] tag = "code-block" -> Len(parts) = 2 /\ Words(parts[1]) /\ Words(parts[2])
          [] tag = "def" -> Len(parts) = 3 /\ parts[1] = T(<<"x">>) /\ IsTarget(parts[2], parts[3])
          [] tag = "ul" -> parts # <<>> /\ \A i \in DOMAIN parts : IsItem(parts[i], {"ul"})
          [] tag = "ol" -> /\ parts # <<>>
                           /\ \A i \in DOMAIN parts : IsItem(parts[i], {}) \/ (i = 1 /\ Start(e) \in (0 .. 9) \ {1} /\ Len(parts) > 1)
          [] OTHER -> FALSE
Plain(e) == Tag(e) = "doc" /\ Flows(Children(e))

(* What is saved is what is loaded again, through nested lists, quotes,    *)
(* numbered lists, markup of words, links, images and their definitions,   *)
(* and an edit of the file leaves in it what the edit made of the document *)
(* read from it.  A call that fails before there is a text, because of the *)
(* file, the path or a node without a text, has not touched the file; one  *)
(* that fails in the write has left it as it was or with a part of the new *)
(* text (markdown/mod.rs sexpr_to_markdown_impl, render_list_item,         *)
(* node_to_sexpr; vm.rs builtin_save, repl.rs edit_document, write_file).  *)
SavedIsRead ==
    [][/\ Done({"save"}) /\ Plain(doc) => markdown_to_sexpr(file') = doc
       /\ Done({"edit"}) /\ Plain(call'.result) => markdown_to_sexpr(file') = call'.result
       /\ Failed({"save", "edit"}) /\ file' # file =>
            LET text == TextFor(IF call'.fn = "save" THEN doc ELSE Pruned(call'.paths[1]))
            IN  text # Unknown /\ IsStrictPrefix(file', text)]_vars

(***************************************************************************)
(* Sections, said of the blocks: block k lies in the section of heading i  *)
(* if no heading after i up to k is of i's level or above.                 *)
(***************************************************************************)
HeadingsOf(blocks) == SelectSeq([i \in DOMAIN blocks |-> i], LAMBDA i : IsHeading(blocks[i]))
Within(blocks, i, k) == i < k /\ \A j \in i + 1 .. k : IsHeading(blocks[j]) => get_header_level(blocks[j]) > get_header_level(blocks[i])
Kids(blocks, i) ==
    SelectSeq(HeadingsOf(blocks), LAMBDA k : Within(blocks, i, k) /\ \A j \in ToSet(HeadingsOf(blocks)) : i < j => ~Within(blocks, j, k))
Title(blocks, i) == extract_text_content(blocks[i])
Directory(blocks, k) ==
    LET above == SelectSeq(HeadingsOf(blocks), LAMBDA i : Within(blocks, i, k))
    IN  <<"out/">> \o FlattenSeq([n \in DOMAIN above |-> slugify(Title(blocks, above[n])) \o <<"/">>])
NameFor(blocks, i) ==
    Directory(blocks, i) \o slugify(Title(blocks, i)) \o (IF Kids(blocks, i) = <<>> THEN <<".md">> ELSE <<"/", "index", ".md">>)

\* The file of heading i: its title, every block in its section that is no heading, and for
\* each child a link to the child's file.  The blocks of the children's sections are in it,
\* too, where curation.rs:1360 and curation.rs:1468 say that they are not.
IsFileOf(f, blocks, i) ==
    LET body == SelectSeq([k \in DOMAIN blocks |-> k], LAMBDA k : Within(blocks, i, k) /\ ~IsHeading(blocks[k]))
        kids == Kids(blocks, i)
        said == <<Node("h1", <<T(Title(blocks, i))>>)>> \o [n \in DOMAIN body |-> blocks[body[n]]]
        Links(li, k) == LET link == li.items[2] IN
            /\ Tag(link) = "link" /\ extract_text_content(link.items[4]) = Title(blocks, k)
            /\ Directory(blocks, k) \o TextOf(link.items[2]) = NameFor(blocks, k)
        list == Children(Last(Children(f.doc)))
    IN  /\ f.name = NameFor(blocks, i)
        /\ IF kids = <<>> THEN Children(f.doc) = said
           ELSE /\ Front(Children(f.doc)) = said
                /\ Len(list) = Len(kids) /\ \A n \in DOMAIN kids : Links(list[n], kids[n])

=============================================================================
