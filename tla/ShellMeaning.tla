---------------------------- MODULE ShellMeaning ----------------------------
(***************************************************************************)
(* What a line of the shell means, by recursion: a command is a function   *)
(* from the state and its input to what it says, line by line, on its two  *)
(* streams; a pipeline composes such functions; a redirection sends what   *)
(* was said to a file when the command is over.  There are no frames, no   *)
(* pipes and no open files here.                                           *)
(***************************************************************************)
EXTENDS Shell

\* st: the state; says: <<stream, line>> in order; rest: the input that is left.
Result(st, says, code, failed, rest) ==
    [st |-> st, says |-> says, code |-> code, failed |-> failed, rest |-> rest]

Said(says, streams) ==
    LET kept == SelectSeq(says, LAMBDA s : s[1] \in streams)
    IN  [i \in DOMAIN kept |-> kept[i][2]]

\* A command that is not a shell, where ok are the streams that take lines.
SimpleMeans(argv, st, input, ok) ==
    LET say(r, stream, line) ==
            IF stream \in ok THEN [r EXCEPT !.says = Append(@, <<stream, line>>)] ELSE [r EXCEPT !.failed = TRUE]
        complain(r) == say(r, "err", Complaint(argv).line)
        change(r, path, text) == [r EXCEPT !.st.files = (path :> text) @@ @]
        perform(r, op) ==
            CASE r.failed -> r
              [] op.op = "say" -> say(r, op.stream, op.line)
              [] op.op = "show" /\ op.path \notin DOMAIN r.st.files -> [complain(r) EXCEPT !.code = 1, !.failed = FALSE]
              [] op.op = "show" /\ op.path \in DOMAIN r.st.files ->
                     LET text == r.st.files[op.path]
                     IN  IF text # <<>> /\ "out" \notin ok THEN [r EXCEPT !.code = 1]
                         ELSE [r EXCEPT !.says = @ \o [i \in DOMAIN text |-> <<"out", text[i]>>]]
              [] op.op = "empty" -> IF Writable(op.path) THEN change(r, op.path, <<>>) ELSE complain(r)
              [] op.op = "add" -> IF Writable(op.path) THEN change(r, op.path, Append(TextAt(r.st.files, op.path), op.line))
                                                       ELSE [complain(r) EXCEPT !.code = 1]
        start == Result([st EXCEPT !.exited = @ \/ Signals(argv)], <<>>, ExitCode(argv), FALSE,
                        IF Reads(argv) THEN <<>> ELSE input)
    IN  IF argv[1] = <<"exit">> /\ ~Signals(argv) THEN complain(start)
        ELSE FoldLeft(perform, start, Operations(argv, input))

RECURSIVE LineMeans(_, _, _, _)

\* Lines one after the other, as a script or a terminal gives them.
LinesMean(lines, st, input, ok, skips(_)) ==
    FoldLeft(LAMBDA r, line :
                 IF r.failed \/ r.st.exited \/ skips(Words(line)) THEN r
                 ELSE LET one == LineMeans(line, r.st, r.rest, ok) IN [one EXCEPT !.says = r.says \o @],
             Result(st, <<>>, 0, FALSE, input), lines)

\* A command with its arguments: a shell inside, or a simple one.  What a shell
\* inside does to its variables and its directory stays there.
CommandMeans(argv, settings, st, input, ok) ==
    LET inner == [st EXCEPT !.shvars = Assigned(@, settings)]
        outer(r) == [r EXCEPT !.st = [st EXCEPT !.files = r.st.files, !.exited = r.st.exited]]
        refused(code) == LET can == "err" \in ok
                         IN  Result(st, IF can THEN <<<<"err", Complaint(argv).line>>>> ELSE <<>>, code, ~can, input)
        comment(words) == words = <<>> \/ words[1][1] = "#"
        args == Tail(argv)
    IN  CASE argv[1][1] \notin Commands -> Result(st, <<>>, 0, TRUE, input)
          [] argv[1] # <<"sh">>         -> SimpleMeans(argv, st, input, ok)
          [] args = <<>> \/ args = <<<<"-c">>>> -> refused(2)
          [] args[1] = <<"-c">>         -> outer(LineMeans(args[2], inner, input, ok))
          [] FromRoot(args[1]) \in DOMAIN st.files -> outer(LinesMean(st.files[FromRoot(args[1])], inner, input, ok, comment))
          [] OTHER -> refused(127)

\* A command with redirections: out and err as parse_pipeline finds them.
RedirectedMeans(argv, settings, out, err, st, input, ok) ==
    LET path(r)   == Resolve(st.cwd, r.word)
        takes(r, stream) == IF r = None THEN stream \in ok ELSE r.mode = "file" \/ Writable(path(r))
        merged    == err # None /\ err.mode = "merge"
        errFile   == IF merged THEN None ELSE err
        okOut     == (merged /\ out = None) \/ takes(out, "out")
        okErr     == IF merged THEN okOut ELSE takes(err, "err")
        r         == CommandMeans(argv, settings, st, input, (IF okOut THEN {"out"} ELSE {}) \cup (IF okErr THEN {"err"} ELSE {}))
        outs_     == Said(r.says, IF merged THEN {"out", "err"} ELSE {"out"})
        errs_     == Said(r.says, {"err"})
        appends(fs, to, lines) == IF to = None \/ lines = <<>> THEN fs
                                  ELSE IF to.mode = "append" THEN (path(to) :> TextAt(fs, path(to)) \o lines) @@ fs ELSE fs
        becomes(fs, to, lines) == IF to = None THEN fs
                                  ELSE IF to.mode = "file" /\ Writable(path(to)) THEN (path(to) :> lines) @@ fs ELSE fs
        fs1       == appends(appends(r.st.files, out, outs_), errFile, errs_)
        fs2       == becomes(becomes(fs1, out, outs_), errFile, errs_)
        asOut     == [i \in DOMAIN r.says |-> <<"out", r.says[i][2]>>]
        blocked   == merged /\ out = None /\ r.says # <<>> /\ "out" \notin ok
        said      == CASE merged /\ out = None /\ (r.failed \/ blocked) -> <<>>
                       [] merged /\ out = None /\ ~(r.failed \/ blocked) -> asOut
                       [] OTHER -> SelectSeq(r.says, LAMBDA s : \/ s[1] = "out" /\ out = None
                                                                \/ s[1] = "err" /\ err = None)
    IN  [r EXCEPT !.st.files = fs2, !.says = said, !.failed = @ \/ blocked]

\* cd, set, unset, export: they change the state and leave the input.
SpecialMeans(argv, st, input, ok) ==
    LET args   == Tail(argv)
        good   == {i \in DOMAIN args : \A j \in 1 .. i : IsAssignment(args[j])}
        names  == {args[i][1] : i \in DOMAIN args}
        without(map) == [n \in DOMAIN map \ names |-> map[n]]
        moved(n) == n \in DOMAIN st.shvars /\ <<n>> \in ToSet(args)
        given  == SelectSeq(args, IsAssignment)
        home   == Lookup(st.env, st.shvars, "HOME")
        target == IF args = <<>> THEN home ELSE args[1]
        fails  == CASE argv[1] = <<"cd">>  -> target = <<>> \/ Resolve(st.cwd, target) \notin Dirs
                    [] argv[1] = <<"set">> -> Cardinality(good) < Len(args)
                    [] OTHER -> FALSE
        after  == CASE argv[1] = <<"cd">>     -> [st EXCEPT !.cwd = IF fails THEN @ ELSE Resolve(@, target)]
                    [] argv[1] = <<"set">>    -> [st EXCEPT !.shvars = Assigned(@, SubSeq(args, 1, Cardinality(good)))]
                    [] argv[1] = <<"unset">>  -> [st EXCEPT !.shvars = without(@), !.env = without(@)]
                    [] argv[1] = <<"export">> -> [st EXCEPT !.shvars = without(@),
                                                            !.env = Assigned([n \in {m \in names : moved(m)} |-> st.shvars[n]] @@ @, given)]
    IN  IF fails THEN Result(after, IF "err" \in ok THEN <<<<"err", Complaint(argv).line>>>> ELSE <<>>, 1, "err" \notin ok, input)
                 ELSE Result(after, <<>>, 0, FALSE, input)

\* One command alone.
AloneMeans(words, p, st, input, ok) ==
    LET settings == Leading(words)
        argv     == SubSeq(words, Len(settings) + 1, Len(words))
        told     == [st EXCEPT !.shvars = Assigned(@, settings)]
    IN  CASE argv = <<>>         -> Result(told, <<>>, 0, FALSE, input)
          [] argv # <<>> /\ argv[1] \in Special -> SpecialMeans(argv, told, input, ok)
          [] OTHER -> RedirectedMeans(argv, settings, p.out, p.err, st, input, ok)

\* Several: each takes for its input what the one before it has said.
PipelineMeans(p, st, input, ok) ==
    LET n == Len(p.commands)
        stage(r, i) ==
            IF r.failed \/ p.commands[i] = <<>> THEN r
            ELSE LET in  == IF i = 1 THEN input ELSE r.piped
                     one == RedirectedMeans(p.commands[i], <<>>, IF i = n THEN p.out ELSE None, None, r.st, in,
                                            IF i = n THEN ok ELSE ok \cup {"out"})
                     on  == IF i = n THEN one.says ELSE SelectSeq(one.says, LAMBDA s : s[1] = "err")
                 IN  [one EXCEPT !.says = r.says \o on, !.rest = IF i = 1 THEN @ ELSE r.rest]
                     @@ [piped |-> Said(one.says, {"out"})]
        start == Result(st, <<>>, 0, FALSE, input) @@ [piped |-> <<>>]
    IN  CASE IsIdle(p) -> start
          [] n = 1 /\ ~IsIdle(p) -> AloneMeans(p.commands[1], p, st, input, ok)
          [] OTHER -> FoldLeft(stage, start, [i \in 1 .. n |-> i])

\* A list: p && q || r; s is a Boolean expression that is evaluated no further
\* than it must be, from the left.
ListMeans(chain, st, input, ok) ==
    LET Runs_(i, code) == i = 1 \/ (LET op == chain[i - 1].after IN op = <<";">> \/ ((op = <<"&&">>) <=> (code = 0)))
        element(r, i) ==
            IF r.failed \/ ~Runs_(i, r.code) THEN r
            ELSE LET one == PipelineMeans(chain[i], r.st, r.rest, ok)
                 IN  Result(one.st, r.says \o one.says, one.code, one.failed, one.rest)
    IN  FoldLeft(element, Result(st, <<>>, 0, FALSE, input), [i \in DOMAIN chain |-> i])

LineMeans(line, st, input, ok) ==
    LET words  == Words(line)
        own    == Assigned(<<>>, Leading(words))
        look(n) == IF n \in DOMAIN own THEN own[n] ELSE Lookup(st.shvars, st.env, n)
        rest   == SubSeq(words, Len(Leading(words)) + 1, Len(words))
        text   == Words(Expand(Unwords(rest), look))
        chain  == parse_command_chain([i \in DOMAIN text |-> Unquote(text[i])])
        values == [n \in DOMAIN own |-> Expand(own[n], LAMBDA m : Lookup(st.shvars, st.env, m))]
        r      == ListMeans(chain, st, input, ok)
    IN  CASE words # <<>> /\ rest = <<>> -> Result([st EXCEPT !.shvars = values @@ @], <<>>, 0, FALSE, input)
          [] text = <<>> \/ \E i \in DOMAIN chain : chain[i].bad -> Result(st, <<>>, 0, TRUE, input)
          [] OTHER -> IF r.failed THEN r ELSE [r EXCEPT !.st.shvars = ("?" :> <<ToString(r.code)>>) @@ @]

(***************************************************************************)
(* The interactive shell: an error is reported and the next line read.     *)
(***************************************************************************)
Tty == frames[1]
Done == SubSeq(Tty.given, 1, Len(Tty.given) - Len(Tty.lines))

Meaning ==
    FoldLeft(LAMBDA r, line :
                 IF Words(line) = <<>> THEN r
                 ELSE LET one == LineMeans(line, r.st, r.rest, {"out", "err"})
                      IN  [one EXCEPT !.says = r.says \o @ \o IF one.failed THEN <<<<"err", <<"error">>>>>> ELSE <<>>],
             Result([shvars |-> <<>>, env |-> Exports, cwd |-> <<>>, files |-> Files, exited |-> FALSE], <<>>, 0, FALSE, Typed),
             Done)

\* No value in a line of assignments depends on another of them: such a line
\* has several meanings, one for each order of a hash map.
Ordered ==
    \A i \in DOMAIN Done :
        LET words == Words(Done[i])
            names == {NameOf(w) : w \in ToSet(words)}
        IN  words # <<>> /\ Leading(words) = words =>
                \A w \in ToSet(words) : \A piece \in ToSet(ValueOf(w)) : piece \in DOMAIN Refs => Refs[piece] \notin names

Agrees ==
    LET r == Meaning
    IN  /\ r.st.shvars = Tty.shvars /\ r.st.env = Tty.env /\ r.st.cwd = Tty.cwd
        /\ r.st.files = files /\ r.st.exited = exited
        /\ Said(r.says, {"out"}) = outs[Terminal].text
        /\ Said(r.says, {"err"}) = outs[Errors].text
        /\ r.rest = outs[Keyboard].text

(***************************************************************************)
(* Between two lines the shell has done what its lines mean: the right     *)
(* commands have run and no others, every line they wrote is where its     *)
(* stream was sent, in order, a shell inside has changed nothing of the    *)
(* one around it but files, an error has closed and flushed whatever it    *)
(* passed, and nothing of a line that failed is left over.  (Of lines that *)
(* do not read a file while the same command appends to it.)               *)
(***************************************************************************)
ShellAgrees == [][(Len(frames) = 1 /\ top.phase = "lines" /\ ~error /\ Ordered) => Agrees]_vars
=============================================================================
