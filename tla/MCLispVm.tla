----------------------------- MODULE MCLispVm -----------------------------
(* Programs for LispVm, built from pieces: expressions that have a value,   *)
(* expressions that raise a condition, and expressions with an effect.      *)
EXTENDS LispEval

Form(f, args) == L(<<A(f)>> \o args)
Ab == Quote(L(<<A("a"), A("b")>>))
Boom == Form("boom", <<>>)
Note(t) == Form("fs-append", <<A("p"), A(t)>>)

\* Values, conditions, effects.
P0 == {A("a"), No, Boom, Note("x")}
P1 == {A("a"), Boom}
Lists == {Ab, Nil, Boom, A("a"), Form("list", <<Ab, Note("x"), Nil>>)}
Names == {A("first"), A("list?"), A("boom"), A("fs-unlink"), A("empty?")}

OneForm ==
    {Form("if", <<p, q, r>>) : p \in P0, q \in {Note("t"), Boom}, r \in {Note("e"), A("z")}}
    \cup {Form("begin", <<p, q, r>>) : p \in P0, q \in P0, r \in P0}
    \cup {Form("list", <<p, q, r>>) : p \in P0, q \in P0, r \in P1}
    \cup {Form("let", <<L(<<L(<<A("v"), p>>), L(<<A("w"), q>>)>>), r>>) :
             p \in P0, q \in P1, r \in {A("v"), Form("cons", <<A("v"), A("w")>>), Form("list", <<A("w"), A("v")>>)}}
    \cup {Form("let", <<L(<<L(<<A("v"), p>>)>>), A("v"), q>>) : p \in P1, q \in P0}
    \cup {Form(f, <<n, l>>) : f \in {"map", "filter"}, n \in Names, l \in Lists}
    \cup {Form("reduce", <<n, i, l>>) : n \in {A("cons"), A("append"), A("eq?"), A("boom")}, i \in {Nil, A("a"), Note("i")}, l \in Lists}
    \cup {Form(t, <<p, f, g>>) : t \in {"->", "->>"}, p \in {Ab, Boom, Note("x")},
             f \in {A("rest"), Form("cons", <<A("c")>>), Boom, Nil}, g \in {A("first"), Form("append", <<Ab>>), Form("list", <<Note("y")>>)}}

\* Forms that are refused, and calls that are.
Refused == {Form("quote", <<>>), Form("if", <<A("a")>>), Form("let", <<Nil>>), Form("let", <<A("a"), A("b")>>),
            Form("let", <<L(<<A("v")>>), A("v")>>), Form("let", <<L(<<L(<<A("v"), A("a")>>), L(<<A("w")>>)>>), A("v")>>),
            Form("let", <<L(<<L(<<Nil, Note("x")>>)>>), A("v")>>), Form("let", <<Nil, A("a"), A("b")>>), Form("let", <<Nil, A("a")>>),
            Form("map", <<Ab, Ab>>), Form("lambda", <<A("v"), A("v")>>), Form("defun", <<Nil, Nil, A("v")>>),
            Form("defun", <<A("f"), A("v"), A("v")>>), L(<<Ab, A("a")>>), Nil,
            Form("begin", <<A("a"), L(<<Ab>>)>>), Form("begin", <<A("a"), Form("lambda", <<A("v")>>)>>)}

Objects == LET o == Form("obj", <<Quote(L(<<T(<<"k">>), A("a")>>)), Quote(L(<<A("j"), A("b")>>))>>)
           IN  {Form("get", <<A("k"), Form("assoc", <<o, A("k"), A("c")>>)>>),
                Form("keys", <<Form("merge", <<o, Form("dissoc", <<o, T(<<"j">>)>>)>>)>>),
                Form("values", <<Form("assoc", <<A("null"), A("n"), Note("v")>>)>>),
                Form("keys", <<Form("arr", <<A("a"), A("b")>>)>>),
                Form("get", <<Form("rest", <<Ab>>), o>>),
                Form("str", <<T(<<"s">>), A("a"), Ab, Form("length", <<o>>)>>),
                Form("nth", <<A("1"), Ab>>), Form("nth", <<A("a"), Ab>>),
                Form("null?", <<Form("fs-exists?", <<A("p")>>)>>)}

\* Forms within forms.
Some == {Form("if", <<Boom, Note("t"), Boom>>), Form("begin", <<Note("x"), Boom, A("a")>>),
         Form("let", <<L(<<L(<<A("v"), Boom>>)>>), Form("list", <<A("v"), Note("y")>>)>>),
         Form("map", <<A("first"), Form("list", <<Ab, A("a")>>)>>),
         Form("->", <<Ab, A("rest"), Form("cons", <<Note("z")>>)>>),
         Form("reduce", <<A("append"), Nil, Form("list", <<Ab, Boom>>)>>),
         Form("filter", <<A("first"), Form("list", <<Ab, Nil>>)>>)}
Nested == {Form("list", <<p, q>>) : p \in Some, q \in Some}
          \cup {Form("if", <<p, q, A("z")>>) : p \in Some, q \in Some}
          \cup {Form("let", <<L(<<L(<<A("v"), p>>), L(<<A("w"), A("v")>>)>>), q, A("w")>>) : p \in Some, q \in Some}

\* Functions: closures, hot swaps in the middle of a program, names of locals.
Def(f, p, b) == Form("defun", <<A(f), L(p), b>>)
Lam(p, b) == Form("lambda", <<L(p), b>>)
Scripts2 ==
    {<<Def("f", <<A("v")>>, b), Form("f", <<p>>)>> : b \in {A("v"), Boom, Note("x"), Form("list", <<A("v"), A("v")>>)}, p \in P0}
    \cup {<<Def("f", <<A("v")>>, A("v")), Form("list", <<Form("f", <<p>>), Def("f", <<A("v")>>, q), Form("f", <<p>>)>>)>> :
             p \in P0, q \in {Quote(A("n")), Boom, Form("first", <<A("v")>>)}}
    \cup {<<Def("f", <<A("v")>>, Form("g", <<A("v")>>)), Def("g", <<A("v"), A("w")>>, A("v")), Form("map", <<A("f"), Ab>>)>>}
    \cup {<<Form("let", <<L(<<L(<<A("v"), p>>), L(<<A("g"), Lam(<<A("u")>>, Form("list", <<A("u"), A("v")>>))>>)>>),
                          Form("let", <<L(<<L(<<A("v"), A("c")>>)>>), Form("map", <<A("g"), Ab>>)>>)>>)>> : p \in P0}
    \cup {<<Form("let", <<L(<<L(<<A("g"), Lam(<<A("u"), A("w")>>, b)>>)>>), Form("g", <<p>>)>>),
            Form("list", <<A("glob"), Form("__lambda_27", <<A("a")>>)>>)>> : b \in {A("u"), Boom}, p \in P1}
    \cup {<<Form("list", <<Boom, p>>), Form("begin", <<q, A("glob")>>)>> : p \in P0, q \in P0}
    \cup {<<Def("first", <<A("v")>>, Note("x")), Form("filter", <<A("first"), Form("list", <<Ab>>)>>), Form("map", <<A("first"), Ab>>)>>}

MCScripts == {<<p>> : p \in OneForm \cup Refused \cup Objects \cup Nested} \cup Scripts2
MCAnswers == {A("u"), Quote(A("u"))}
MCGlobals == A("glob") :> Ab
=============================================================================
