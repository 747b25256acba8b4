--------------------------- MODULE MCFileCommands ---------------------------
(* Small trees, and commands on them. *)
EXTENDS FileCommands

A == <<"a">>  B == <<"b">>  D == <<"d">>  K == <<"k">>
DA == <<"d", "a">>  DB == <<"d", "b">>  DD == <<"d", "d">>  DDA == <<"d", "d", "a">>  KA == <<"k", "a">>

MCPlenty == 14
New == Empty(40)
File(s, p, n) == write_file(s, p, [i \in 1 .. n |-> i])

Flat  == link(File(File(mkdir(New, D), A, 2), DA, 1), A, B)
Deep  == symlink(File(File(mkdir(mkdir(New, D), DD), DDA, 1), A, 3), D, K)
Links == symlink(symlink(symlink(mkdir(File(New, A, 2), D), A, DB), <<"z">>, B), K, K)
Both  == symlink(File(mkdir(File(mkdir(mkdir(New, D), <<"b">>), <<"b", "a">>, 1), <<"b", "d">>), DB, 2), DB, A)
MCTrees == {Flat, Deep, Links, Both}

Opts(os) == {{}} \cup {{o} : o \in os}
Cmd(n, o, from, to, x) == [cmd |-> n, o |-> o, from |-> from, to |-> to, x |-> x]
Paths == {A, B, D, K, DA, DB}

Cps == {Cmd("cp", o, <<x>>, y, 0) : o \in Opts({"f", "n", "l", "s", "R", "a", "/"}) \cup {{"R", "L"}, {"R", "f"}, {"R", "H"}, {"f", "n"}}, x \in Paths, y \in Paths \cup {DD}}
       \cup {Cmd("cp", o, <<x, y>>, z, 0) : o \in Opts({"f", "R"}), x \in {A, DA}, y \in {B, DB}, z \in {D, K, B}}
Mvs == {Cmd("mv", o, <<x>>, y, 0) : o \in Opts({"n", "h"}), x \in Paths, y \in Paths \cup {DD}}
       \cup {Cmd("mv", {}, <<x, y>>, z, 0) : x \in {A, DA, D}, y \in {B, DB}, z \in {D, K, B, <<>>}}
Rms == {Cmd("rm", o, <<x>>, <<>>, 0) : o \in Opts({"f", "r", "d"}), x \in Paths}
       \cup {Cmd("rm", {"r", "f"}, <<x, y>>, <<>>, 0) : x \in {A, DA, <<>>}, y \in {B, D}}
Dirs(n) == {Cmd(n, o, <<x>>, <<>>, 0) : o \in Opts({"p"}), x \in Paths \cup {DD, <<"k", "b", "a">>}}
           \cup {Cmd(n, o, <<DD, B>>, <<>>, 0) : o \in Opts({"p"})}
Lns == {Cmd("ln", o, <<x>>, y, 0) : o \in Opts({"f", "s", "P", "F"}) \cup {{"s", "f"}, {"s", "F"}, {"f", "h"}}, x \in Paths, y \in Paths}
       \cup {Cmd("ln", o, <<x, y>>, z, 0) : o \in Opts({"s", "h"}), x \in {A, DA}, y \in {B, DB}, z \in {D, K, B}}
NoTimes == [ref |-> <<>>, time |-> NoTime, adjust |-> 0]
Touches == {Cmd("touch", o, <<x>>, <<>>, a) : o \in Opts({"a", "m", "c", "h"}), x \in Paths,
               a \in {NoTimes, [NoTimes EXCEPT !.time = 3], [NoTimes EXCEPT !.adjust = 2], [NoTimes EXCEPT !.ref = A, !.adjust = 1]}}
           \cup {Cmd("touch", {}, <<DD, x>>, <<>>, [NoTimes EXCEPT !.ref = r]) : x \in {A, B}, r \in {K, DB}}
Specs == {[op |-> "absolute", n |-> 1, offset |-> 0], [op |-> "extend", n |-> 2, offset |-> 1], [op |-> "reduce", n |-> 3, offset |-> 0],
          [op |-> "round up", n |-> 2, offset |-> 3], [op |-> "round down", n |-> 2, offset |-> 4]}
Truncates == {Cmd("truncate", o, <<x>>, <<>>, a) : o \in Opts({"c", "d"}) \cup {{"c", "d"}}, x \in Paths, a \in Specs}
             \cup {Cmd("truncate", {}, <<A, x>>, <<>>, a) : x \in {B, D}, a \in Specs}
Tees == {Cmd("tee", o, xs, <<>>, i) : o \in Opts({"a"}), xs \in {<<A>>, <<D, B>>, <<DA, DB>>, <<K>>}, i \in {<<>>, <<7>>, <<7, 8>>}}
Splits == {Cmd("split", o, <<x>>, <<>>, [mode |-> m, n |-> n, names |-> ns]) : m \in {"count", "chunks", "pattern"}, o \in Opts({"c"}), x \in Paths, n \in 1 .. 2, ns \in {<<B, DA, <<"e">>>>, <<B, DD>>, <<A, B, K>>}}
Mktemps == {Cmd("mktemp", o, <<>>, <<>>, ts) : o \in Opts({"d", "u"}) \cup {{"d", "u"}}, ts \in {<<<<A, DB, DD>>>>, <<<<KA>>, <<A, B>>>>, <<<<K, <<"e">>>>, <<<<"e">>, DB>>>>}}

Call(op, x, y, z) == Cmd("lisp", op, <<x>>, y, z)
Calls == {Call(op, x, <<>>, <<8>>) : op \in {"write", "append", "mkdir", "mkdir_all", "unlink", "rmdir", "create"}, x \in Paths \cup {DD, <<"e", "k", "a">>}}
         \cup {Call(op, x, y, 0) : op \in {"rename", "symlink", "link"}, x \in Paths, y \in Paths}
         \cup {Call(op, A, <<>>, ns) : op \in {"mkstemp", "mkdtemp"}, ns \in {<<A, DB, DD>>, <<K, <<"e">>>>, <<KA, DB>>}}

MCOffered == [cp |-> Cps, mv |-> Mvs, rm |-> Rms, unlink |-> {Cmd("unlink", {}, <<x>>, <<>>, 0) : x \in Paths},
              mkdir |-> Dirs("mkdir"), rmdir |-> Dirs("rmdir"), ln |-> Lns, touch |-> Touches,
              truncate |-> Truncates, tee |-> Tees, split |-> Splits, mktemp |-> Mktemps, lisp |-> Calls]
=============================================================================
