------------------------------ MODULE MCShell ------------------------------
(* Lines for the shell, from words. *)
EXTENDS ShellMeaning

\* "a b" as a sequence of words; a word is a piece or a sequence of pieces.
Line(words) == FoldLeft(LAMBDA line, w : IF line = <<>> THEN w ELSE line \o <<" ">> \o w, <<>>, words)
W(s) == <<s>>
Echo(w) == <<W("echo"), W(w)>>
Cat(f) == <<W("cat"), W(f)>>
Is(n, v) == <<n, "=", v>>
ShC(q) == <<W("sh"), W("-c"), W(q)>>
And == <<W("&&")>>
Or == <<W("||")>>
Seq_ == <<W(";")>>
Pipe == <<W("|")>>
To(op, f) == <<W(op), W(f)>>

MCQuoted == "'echo a; nosuch; echo b'" :> Line(Echo("a") \o Seq_ \o <<W("nosuch")>> \o Seq_ \o Echo("b"))
         @@ "'A=2; echo $A; cat'" :> Line(<<W("set"), Is("A", "2")>> \o Seq_ \o Echo("$A") \o Seq_ \o <<W("cat")>>)
         @@ "'exit 3'" :> Line(<<W("exit"), W("3")>>)
         @@ "'cat nofile; echo x'" :> Line(Cat("nofile") \o Seq_ \o Echo("x"))
         @@ "'sh s | cat'" :> Line(<<W("sh"), W("s")>> \o Pipe \o <<W("cat")>>)
         @@ "'cd nodir; echo y'" :> Line(<<W("cd"), W("nodir")>> \o Seq_ \o Echo("y"))
         @@ "';'" :> W(";")
MCRefs == "$A" :> "A" @@ "$B" :> "B" @@ "$?" :> "?"
MCNames == {"A", "B", "HOME"}
MCDirs == {<<>>, <<"d">>}
MCFiles == <<"f">> :> <<W("1"), W("2")>>
        @@ <<"s">> :> <<W("#"), Line(Echo("s")), Line(<<Is("A", "9")>>), Line(<<W("false")>>), Line(<<W("exit"), W("0")>>), Line(Echo("late"))>>
        @@ <<"t">> :> <<<<>>, Line(<<W("cd"), W("d")>>), Line(Echo("$A") \o To(">", "g")), Line(<<W("cat")>>), Line(<<W("echo"), W("$?")>>)>>
MCTyped == <<W("typed")>>
MCExports == "A" :> W("0") @@ "HOME" :> <<"/", "d">>

\* Single commands, and what may be around them.
Simples == {Echo("x"), Cat("f"), Cat("nofile"), <<W("cat")>>, <<W("false")>>, <<W("nosuch")>>, <<W("tee"), W("g")>>,
            <<W("exit"), W("x")>>, ShC("'echo a; nosuch; echo b'"), ShC("'cat nofile; echo x'"), <<W("sh"), W("t")>>}
Outs == {<<>>, To(">", "f"), To(">>", "f"), To(">", "nodir"), <<<<">", "..", "g">>>>, To(">>", "d")}
Errs == {<<>>, To("2>", "f"), To("2>>", "h"), <<W("2>&1")>>, <<<<"2>", "h">>>>}
Look == Line(Cat("f") \o <<W("$?")>>)

Redirections == {<<Line(c \o o \o e), Look>> : c \in Simples, o \in Outs, e \in Errs}
Pipelines == {<<Line(c \o Pipe \o d \o o), Look>> : c \in Simples, d \in {<<W("cat")>>, <<W("tee"), W("f"), W("d")>>, <<>>, ShC("'A=2; echo $A; cat'")},
                 o \in {<<>>, To(">", "f"), To("2>", "h"), <<W("2>&1")>>}}
             \cup {<<Line(c \o Pipe \o <<W("cat")>> \o Pipe \o <<W("cat"), W("f")>> \o To(">", "g")), Line(<<W("cat")>>)>> : c \in Simples}
Lists == {<<Line(a \o p \o b \o q \o c), Line(<<W("echo"), W("$?")>>)>> :
             a \in {<<W("true")>>, <<W("false")>>, <<W("nosuch")>>, <<>>}, p \in {And, Or, Seq_}, b \in {Echo("x"), Cat("nofile"), <<W("exit"), W("3")>>},
             q \in {And, Or, Seq_}, c \in {Echo("y"), <<W("false")>>, <<W("cd"), W("x")>>, <<W(">"), W("f")>>, <<>>}}
Settings_ == {<<Is("A", "1")>>, <<W("set"), Is("A", "2"), W("A"), Is("B", "2")>>, <<W("export"), Is("A", "3")>>, <<W("export"), W("A"), W("B")>>,
              <<W("unset"), W("A")>>, <<Is("A", "$B"), Is("B", "$A")>>, <<Is("A", "';'"), W("export"), W("A")>>, <<W("true")>> \o And \o <<Is("A", "4")>>,
              <<W("true")>> \o Seq_ \o <<Is("B", "4"), W("cd")>>, <<Is("A", "5")>> \o ShC("'A=2; echo $A; cat'"), <<W("true")>> \o Seq_ \o <<Is("A", "6"), W("sh"), W("t")>>}
Variables_ == {<<Line(a), Line(b), Line(<<W("echo"), W("$A"), W("$B"), W("$?")>>)>> : a \in Settings_, b \in Settings_}
Shells == {<<Line(<<W("sh"), W("s")>> \o o), Line(Echo("after"))>> : o \in Outs}
          \cup {<<<<>>, Line(ShC(q) \o o \o e), Line(Echo("$?"))>> : q \in DOMAIN MCQuoted, o \in {<<>>, To(">", "g"), To(">>", "nodir")}, e \in {<<>>, <<W("2>&1")>>, To("2>>", "h")}}
          \cup {<<Line(<<W("cd"), w>>), Line(Echo("x") \o To(">", "f")), Line(Cat("f")), Line(<<W("sh")>> \o a)>> :
                   w \in {W("d"), W(".."), <<"/", "d">>, W(".")}, a \in {<<>>, <<W("-c")>>, <<W("nofile")>>, <<W("s")>> \o Pipe \o <<W("cat")>> \o To(">", "g")}}

Broken == {<<Line(<<W("true")>> \o Seq_ \o w), Line(<<W("echo"), W("$?")>>)>> : w \in {<<W("echo"), W(">")>>, <<W("false"), W("2>>")>>, <<W("|")>>}}
          \cup {<<Line(w), Line(ShC("'cd nodir; echo y'") \o To("2>>", o))>> : w \in {<<W("$B")>>, <<W(";")>>, <<W("#")>>}, o \in {"d", "h"}}

MCScripts == Redirections \cup Pipelines \cup Lists \cup Variables_ \cup Shells \cup Broken
=============================================================================
