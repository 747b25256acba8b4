------------------------------- MODULE MCRepl -------------------------------
(***************************************************************************)
(* The loop with eight keys, and with lines longer than that put on it at  *)
(* once: quotations, JSON as expressions, edits, restarts.                 *)
(***************************************************************************)
EXTENDS Repl

MCKeys   == {"(", ")", "'", "\"", "\\", " ", "a", "1"}
MCNames  == {<<"a", "1">>}
MCFiles  == {<<"f">>, <<"g">>}
MCPastes == {
    <<"'", "(", "arr", " ", "null", " ", "1", " ", "nan", ")">>,
    <<"'", "(", "obj", " ", "(", "\"", "a", "\"", " ", "1", ")", "(", "\"", "a", "\"", " ", "(", "arr", ")", ")", ")">>,
    <<"'", "(", "obj", " ", "(", "a", " ", "#t", ")", ")">>,
    <<"'", "(", "obj", " ", "(", ")", ")">>, <<"'", "(", "(", ")", ")">>, <<"'", "\"", "\\", "n", "\\", "a", "\"">>,
    <<":edit", " ", "f", " ", "a">>, <<":edit", " ", "g", " ", "(", "a", " ", "\"", "a", " ", "1", "\"", ")">>,
    <<":edit", " ", "f", " ", "(">>, <<":edit", " ", "h", " ", "a">>, <<":edit", " ", "f">>, <<":show", " ", "f">>, <<":quit">>,
    <<"use", " ", "a">>, <<"use", " ", "'">>, <<"use">>, <<"2">>}

Texts == {<<>>} \union [1 .. 1 -> {"a", "n", "\"", "\\", "\n"}] \union [1 .. 2 -> {"a", "n", "\"", "\\", "\n"}]
MCJsons ==
    {JStr(s) : s \in Texts} \union
    {JArr(<<JNull, JNum(<<"1">>), JArr(<<JNull>>), JBool(FALSE)>>),
     JObj(<<<<<<"\"">>, JNull>>, <<<<"a">>, JArr(<<JObj(<<>>), JNull>>)>>>>)}
=============================================================================
