----------------------------- MODULE MCCuration -----------------------------
\* Small documents that between them have every kind of node, and sessions of two calls.
EXTENDS Curation

Word(w) == T(<<w>>)
H(n, w) == Node(HeadingTag(n), <<Word(w)>>)
Para(w) == Node("p", <<Word(w)>>)
Item(parts) == Node("li", parts)

MCDocs == {
    Doc(<<H(1, "Alpha"), Para("Beta"), H(2, "Beta"), Para("Alpha"), H(2, "Gamma"), Node("hr", <<>>)>>),
    Doc(<<Para("Alpha"), H(2, "Alpha"), H(3, "Beta"), Para("Beta"), H(4, "Alpha"), H(1, "Alpha")>>),
    Doc(<<Node("ul", <<Item(<<Para("Alpha"), Node("ul", <<Item(<<Para("Beta")>>)>>)>>), Item(<<Para("Beta")>>)>>), Para("Alpha")>>),
    Doc(<<Node("blockquote", <<Para("Alpha"), Node("ul", <<Item(<<Para("Beta")>>)>>), Para("Beta")>>), H(1, "Beta")>>),
    Doc(<<Node("code-block", <<T(<<"rust">>), T(<<"Alpha", "\n", "Beta">>)>>), Html(<<"<!--", " ", "@tag:", "k", "=", "a", " ", "-->">>), Para("Alpha")>>),
    Doc(<<Node("p", <<Link(<<"#", "Alpha">>, <<"Alpha">>), Word("Beta"), Node("img", <<T(<<"https", "://", "x">>), T(<<"Alpha">>), T(<<>>)>>)>>),
          Node("def", <<T(<<"x">>), T(<<"./", "y">>), T(<<>>)>>), Node("p", <<Node("link-ref", <<T(<<"y">>), Word("Alpha")>>)>>)>>),
    Doc(<<Node("yaml", <<T(<<"k", ":", " ", "v">>)>>), Node("table", <<Node("tr", <<Node("td", <<Word("Alpha")>>)>>)>>), Node("widget", <<>>)>>),
    Doc(<<Node("p", <<Word("Alpha"), Node("code", <<Word("Beta")>>), Word("Alpha"), Node("link", <<T(<<"#", "Alpha">>), Word("Beta"), Word("Alpha")>>), Word("Beta"), Node("br", <<>>), Word("Alpha")>>),
          Node("ol", <<A("3"), Item(<<Node("p", <<Word("Alpha"), Node("em", <<Word("Beta")>>)>>)>>), Item(<<Para("Beta")>>)>>)>>),
    Doc(<<Node("h2", <<Word("Alpha"), Node("strong", <<Word("Beta")>>)>>), Node("def", <<T(<<"x">>), T(<<"https", "://", "x">>), Word("Alpha")>>),
          Node("p", <<Word("Alpha"), Node("img", <<T(<<"https", "://", "x">>), Word("Alpha"), T(<<>>)>>)>>), Node("ol", <<Item(<<Para("Alpha")>>)>>)>>),
    Doc(<<H(1, "Alpha"), Para("Alpha"), H(1, "Alpha"), Para("Beta")>>),
    Doc(<<>>)}

Chosen(d) == {p \in ToSet(annotate(d)) : Len(p) <= 1 \/ (Len(p) = 2 /\ p[1] < 3) \/ Len(p) = 4}
MCPathArgs(d) == {PathText(p) : p \in Chosen(d)} \cup {<<"1", ".">>, <<"9">>}
Few(d) == {p \in ToSet(annotate(d)) : Len(p) = 1 /\ p[1] < 5}
MCPathLists(d) == {<<PathText(p), PathText(q)>> : p \in Few(d), q \in Few(d) \cup {<<1, 1>>}} \cup {<<>>, <<<<"1">>>>, <<<<"x">>>>}
MCNewNodes == {Para("New"), Node("ul", <<Item(<<Para("Alpha")>>)>>)}
MCDepths == {L(<<L(<<A("1"), A("2")>>), L(<<A("2"), A("3")>>)>>), L(<<L(<<A("x"), A("2")>>)>>), Nil}
MCContents == {<<"k", ":", " ", "v", "\n", "#", "k", ":", "\n", "j", ":", " ", "'", "w", "'">>, <<>>}
MCInputs == {
    <<"*">>, <<"p">>, <<"h", "*", "[", "level", ">", "=", "2", "]">>, <<"ul", " ", "p">>, <<"ul", " ", ">", " ", "li">>, <<"li", " ", "li", " ", "p">>,
    <<"p", " ", "~", " ", "p">>, <<"h", "*", " ", "+", " ", "p">>, <<"ul", " ", ">", " ", "li", " ", "p">>, <<"#", "k", "=", "a">>, <<"@", "1">>,
    <<"blockquote", "[", "depth", "=", "1", "]", " ", ">", "p", "+", "ul">>, <<"h", "*", "+", "p", "~", "p">>, <<"*", "[", "internal", "]">>, <<"p", "[", "x", "!", "]">>}
=============================================================================
