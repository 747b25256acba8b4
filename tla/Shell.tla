------------------------------- MODULE Shell -------------------------------
(***************************************************************************)
(* The shell of eudaemonsh (src/eudaemonsh/src/builtins/sh/mod.rs): lines, *)
(* chains of pipelines, redirections, variables, and shells run by shells. *)
(*                                                                         *)
(* Everything runs in one thread: a pipeline is its commands one after the *)
(* other, with a pipe between two of them that holds all that was written. *)
(* A command that is not a shell is one step; sh pushes a frame.           *)
(*                                                                         *)
(* A word is a sequence of pieces of text; a line typed is a sequence of   *)
(* pieces with " " between its words; a text is a sequence of lines.       *)
(***************************************************************************)
EXTENDS Integers, FiniteSets, SequencesExt, TLC

CONSTANTS
    Scripts,      \* sequences of lines to type into the interactive shell
    Quoted,       \* piece -> the line it quotes, an argument of sh -c
    Refs,         \* piece that refers to a variable -> its name
    Names,        \* names of variables
    Dirs,         \* directories, as sequences of names
    Files,        \* path -> text: the files there are
    Typed,        \* what the terminal has to read
    Exports,      \* the environment at the start: name -> word
    None          \* no redirection

VARIABLES
    frames,       \* the shells that run, the innermost last
    outs,         \* outputs and pipes, by the number of their creation
    files,        \* path -> text
    exited,       \* Environment::exit_signaled, one flag for all shells
    error         \* a Result::Err is on its way up

vars == <<frames, outs, files, exited, error>>

(***************************************************************************)
(* Words.                                                                  *)
(***************************************************************************)
\* shvar::split: the words of a line.
Words(line) ==
    LET step(s, piece) == IF piece = " " THEN [done |-> Append(s.done, s.word), word |-> <<>>]
                                         ELSE [s EXCEPT !.word = Append(@, piece)]
        all == FoldLeft(step, [done |-> <<>>, word |-> <<>>], line)
    IN  SelectSeq(Append(all.done, all.word), LAMBDA w : w # <<>>)

\* shvar::expand: every reference becomes the text look has for it.
Expand(pieces, look(_)) ==
    FoldLeft(LAMBDA text, piece : text \o IF piece \in DOMAIN Refs THEN look(Refs[piece]) ELSE <<piece>>, <<>>, pieces)

Unwords(words) ==
    FoldLeft(LAMBDA line, w : IF line = <<>> THEN w ELSE line \o <<" ">> \o w, <<>>, words)

\* The maps are asked in order; an undefined variable is empty.
Lookup(shvars, env, n) == IF n \in DOMAIN shvars THEN shvars[n] ELSE IF n \in DOMAIN env THEN env[n] ELSE <<>>

\* parse_assignment: NAME=value.
IsAssignment(w) == Len(w) >= 2 /\ w[2] = "=" /\ w[1] \in Names
NameOf(w)  == w[1]
ValueOf(w) == SubSeq(w, 3, Len(w))

\* The words up to the first that is not an assignment.
Leading(words) ==
    LET others == {i \in DOMAIN words : ~IsAssignment(words[i])}
    IN  SubSeq(words, 1, IF others = {} THEN Len(words) ELSE Min(others) - 1)

\* A map with the values of assignments, the last one of a name.
Assigned(map, assignments) ==
    LET of(n) == {i \in DOMAIN assignments : NameOf(assignments[i]) = n}
        names == {NameOf(assignments[i]) : i \in DOMAIN assignments}
    IN  [n \in DOMAIN map \cup names |-> IF n \in names THEN ValueOf(assignments[Max(of(n))]) ELSE map[n]]

\* resolve_path, on paths without their slashes.
Resolve(cwd, word) ==
    LET up(p) == IF p = <<>> THEN p ELSE Front(p)
    IN  CASE word[1] = "/"  -> Tail(word)
          [] word[1] = "."  -> cwd \o Tail(word)
          [] word[1] = ".." -> up(cwd) \o Tail(word)
          [] OTHER          -> cwd \o word

(***************************************************************************)
(* Parsing: words to pipelines to commands.                                *)
(***************************************************************************)
\* The runs of words between separators; empty ones disappear with the
\* separator that follows them.  after is the separator, None for the last.
Runs(words, separators) ==
    LET step(s, w) ==
            IF w \notin separators THEN [s EXCEPT !.run = Append(@, w)]
            ELSE IF s.run = <<>> THEN s
            ELSE [done |-> Append(s.done, [words |-> s.run, after |-> w]), run |-> <<>>]
        all == FoldLeft(step, [done |-> <<>>, run |-> <<>>], words)
    IN  all.done \o IF all.run = <<>> THEN <<>> ELSE <<[words |-> all.run, after |-> None]>>

\* The first place of a redirection, in two passes: an operator that is a
\* word, then one that has its file attached.
Redirection(args, ops) ==
    LET alone    == {i \in DOMAIN args : Len(args[i]) = 1 /\ args[i][1] \in ops}
        attached == {i \in DOMAIN args : Len(args[i]) > 1 /\ args[i][1] \in ops}
        i        == Min(IF alone = {} THEN attached ELSE alone)
        mode     == IF args[i][1] \in {">>", "2>>"} THEN "append" ELSE "file"
    IN  CASE alone # {} /\ i = Len(args) -> [bad |-> TRUE, args |-> args, to |-> None]
          [] alone # {} /\ i < Len(args) -> [bad |-> FALSE, args |-> RemoveAt(RemoveAt(args, i + 1), i),
                                             to |-> [mode |-> mode, word |-> args[i + 1]]]
          [] alone = {} /\ attached # {} -> [bad |-> FALSE, args |-> RemoveAt(args, i),
                                             to |-> [mode |-> mode, word |-> Tail(args[i])]]
          [] OTHER -> [bad |-> FALSE, args |-> args, to |-> None]

extract_output_redirection(args) == Redirection(args, {">", ">>"})

extract_stderr_redirection(args) ==
    LET merge == {i \in DOMAIN args : args[i] = <<"2>&1">>}
    IN  IF merge = {} THEN Redirection(args, {"2>", "2>>"})
        ELSE [bad |-> FALSE, args |-> RemoveAt(args, Min(merge)), to |-> [mode |-> "merge", word |-> <<>>]]

\* Redirections are taken from the last command only.
parse_pipeline(words, after) ==
    LET commands == [i \in DOMAIN Runs(words, {<<"|">>}) |-> Runs(words, {<<"|">>})[i].words]
        out == extract_output_redirection(Last(commands))
        err == extract_stderr_redirection(out.args)
    IN  IF commands = <<>> THEN [commands |-> <<>>, out |-> None, err |-> None, after |-> after, bad |-> FALSE]
        ELSE [commands |-> Append(Front(commands), err.args), out |-> out.to, err |-> err.to,
              after |-> after, bad |-> out.bad \/ err.bad]

parse_command_chain(words) ==
    LET runs == Runs(words, {<<"&&">>, <<"||">>, <<";">>})
    IN  [i \in DOMAIN runs |-> parse_pipeline(runs[i].words, runs[i].after)]

\* The pipeline after the operator op runs when the last one to run gave code.
ShouldRun(op, code) == /\ op = <<"&&">> => code = 0
                       /\ op = <<"||">> => code # 0

(***************************************************************************)
(* Outputs.  A file's text is kept in the output and written when the last *)
(* reference to it is dropped; an appended line is written at once.        *)
(***************************************************************************)
Output(kind, path) == [kind |-> kind, path |-> path, text |-> <<>>]

Terminal == 1
Errors   == 2
Keyboard == 3

Writable(path) == path # <<>> /\ Front(path) \in Dirs /\ path \notin Dirs

TextAt(fs, path) == IF path \in DOMAIN fs THEN fs[path] ELSE <<>>

\* What a command has changed so far: the outputs, the files, its exit code,
\* and whether an error has ended it.
Progress == [outs |-> outs, files |-> files, code |-> 0, failed |-> FALSE]

\* write_line to output id; appending where no file can be is an error.
write_line(s, id, line) ==
    LET o == s.outs[id]
    IN  CASE o.kind # "append" -> [s EXCEPT !.outs[id].text = Append(@, line)]
          [] o.kind = "append" /\ Writable(o.path) ->
                 [s EXCEPT !.files = (o.path :> Append(TextAt(@, o.path), line)) @@ @]
          [] OTHER             -> [s EXCEPT !.failed = TRUE]

\* FileStdioOut::drop of the last reference: what the file had is gone, and
\* of an error nobody hears.
Drop(s, id) ==
    LET o == s.outs[id]
    IN  IF o.kind = "file" /\ Writable(o.path) THEN [s EXCEPT !.files = (o.path :> o.text) @@ @] ELSE s

\* What 2>&1 has collected goes where the output would have gone.
Copied(s, c) ==
    [FoldLeft(LAMBDA t, line : IF t.failed THEN t ELSE write_line(t, c.copyto, line), s, s.outs[c.stdout].text)
        EXCEPT !.outs[c.stdout].text = <<>>]

\* Seeded bug: after an error only the standard output is dropped.
ClosedBug(s, c) ==
    LET dropped == IF c.stdout = c.stderr \/ s.failed THEN Drop(s, c.stdout) ELSE Drop(Drop(s, c.stdout), c.stderr)
    IN  IF c.copyto = None \/ s.failed THEN dropped ELSE Copied(dropped, c)

\* The end of command c: its outputs are dropped, the standard one first.
Closed(s, c) ==
    LET dropped == IF c.stdout = c.stderr THEN Drop(s, c.stdout) ELSE Drop(Drop(s, c.stdout), c.stderr)
    IN  IF c.copyto = None \/ s.failed THEN dropped ELSE Copied(dropped, c)

(***************************************************************************)
(* Commands that are not shells: what they do with their input, operation  *)
(* by operation.                                                           *)
(***************************************************************************)
Say(stream, line) == [op |-> "say", stream |-> stream, line |-> line]
Show(path)        == [op |-> "show", path |-> path]
Empty(path)       == [op |-> "empty", path |-> path]
AddTo(path, line) == [op |-> "add", path |-> path, line |-> line]

\* A path as a command gives it to the filesystem: from the root, whatever
\* the working directory is.
FromRoot(word) == Resolve(<<>>, word)

Commands == {"echo", "cat", "tee", "true", "false", "exit", "sh"}

SayAll(input) == [i \in DOMAIN input |-> Say("out", input[i])]

\* The operations of argv on input.
Operations(argv, input) ==
    LET name  == argv[1][1]
        paths == [i \in DOMAIN Tail(argv) |-> FromRoot(Tail(argv)[i])]
        each(line) == <<Say("out", line)>> \o [i \in DOMAIN paths |-> AddTo(paths[i], line)]
    IN  CASE name = "echo" -> <<Say("out", Unwords(Tail(argv)))>>
          [] name = "cat"  -> IF paths = <<>> THEN SayAll(input) ELSE [i \in DOMAIN paths |-> Show(paths[i])]
          [] name = "tee"  -> [i \in DOMAIN paths |-> Empty(paths[i])] \o FlattenSeq([i \in DOMAIN input |-> each(input[i])])
          [] OTHER -> <<>>

Reads(argv) == argv[1] = <<"tee">> \/ argv = <<<<"cat">>>>

Complaint(argv) == Say("err", <<argv[1][1] \o ":">>)

\* exit takes a number of eight bits.
Codes == <<"0">> :> 0 @@ <<"3">> :> 3
ExitCode(argv) ==
    CASE argv[1] = <<"false">> -> 1
      [] argv[1] = <<"exit">> /\ Len(argv) > 1 -> IF argv[2] \in DOMAIN Codes THEN Codes[argv[2]] ELSE 2
      [] OTHER -> 0

Signals(argv) == argv[1] = <<"exit">> /\ (Len(argv) > 1 => argv[2] \in DOMAIN Codes)

\* One operation of command argv with outputs c.  cat and tee report a file that
\* fails and go on; a file tee cannot empty does not count as a failure.
Operate(s, op, argv, c) ==
    LET to(stream) == IF stream = "out" THEN c.stdout ELSE c.stderr
        complain(t) == write_line(t, c.stderr, Complaint(argv).line)
        shown == FoldLeft(LAMBDA t, line : IF t.failed THEN t ELSE write_line(t, c.stdout, line), s, TextAt(s.files, op.path))
    IN  IF s.failed THEN s ELSE
        CASE op.op = "say"   -> write_line(s, to(op.stream), op.line)
          [] op.op = "show"  -> IF op.path \in DOMAIN s.files
                                THEN [shown EXCEPT !.code = IF shown.failed THEN 1 ELSE @, !.failed = FALSE]
                                ELSE [complain(s) EXCEPT !.code = 1, !.failed = FALSE]
          [] op.op = "empty" -> IF Writable(op.path) THEN [s EXCEPT !.files = (op.path :> <<>>) @@ @] ELSE complain(s)
          [] op.op = "add"   -> IF Writable(op.path)
                                THEN [s EXCEPT !.files = (op.path :> Append(TextAt(@, op.path), op.line)) @@ @]
                                ELSE [complain(s) EXCEPT !.code = 1]

Performed(s, argv, input, c) ==
    LET ops == IF argv[1] = <<"exit">> /\ ~Signals(argv) THEN <<Complaint(argv)>> ELSE Operations(argv, input)
    IN  FoldLeft(LAMBDA t, op : Operate(t, op, argv, c), [s EXCEPT !.code = ExitCode(argv)], ops)

(***************************************************************************)
(* Frames.                                                                 *)
(***************************************************************************)
\* kind: "tty" is the interactive shell, "script" one that runs a file, "line" sh -c.
\* left is what remains of the assignments or arguments at hand.  History: given, the lines
\* it started with; latest, what each variable was last told to be.
Shell(kind, lines, shvars, env, cwd, c) ==
    [kind |-> kind, phase |-> "lines", lines |-> lines, chain |-> <<>>, before |-> None, stages |-> <<>>,
     piped |-> None, code |-> 0, exit |-> 0, shvars |-> shvars, env |-> env, cwd |-> cwd,
     stdin |-> c.stdin, stdout |-> c.stdout, stderr |-> c.stderr, command |-> None, left |-> <<>>, given |-> lines,
     latest |-> [n \in DOMAIN shvars \cup DOMAIN env |-> Lookup(shvars, env, n)]]

top  == Last(frames)
Below == Front(frames)

Becomes(f) == frames' = Append(Below, f)

At(phase) == ~error /\ frames # <<>> /\ top.phase = phase

\* A Result::Err: the frame is left as it is, for Unwind.
Fails == error' = TRUE /\ UNCHANGED <<frames, outs, files, exited>>

(***************************************************************************)
(* run_string and run: the next line.                                      *)
(***************************************************************************)
Unquote(w) == IF w[1] \in DOMAIN Quoted THEN Quoted[w[1]] ELSE w

Raw == Words(Head(top.lines))

HasLine == At("lines") /\ top.lines # <<>> /\ (top.kind # "line" => ~exited)

\* Empty lines, and the comments of scripts.
IsSkipped == top.kind # "line" /\ (Raw # <<>> => top.kind = "script" /\ Raw[1][1] = "#")

SkipLine ==
    /\ HasLine /\ IsSkipped
    /\ Becomes([top EXCEPT !.lines = Tail(@)])
    /\ UNCHANGED <<outs, files, exited, error>>

Without(map, n) == [m \in DOMAIN map \ {n} |-> map[m]]
With(map, n, v) == [m \in DOMAIN map \cup {n} |-> IF m = n THEN v ELSE map[m]]

\* Nothing but assignments: a map holds them, and its order is none of theirs.
OnlyAssignments == HasLine /\ ~IsSkipped /\ Raw # <<>> /\ Leading(Raw) = Raw

AssignLine ==
    /\ OnlyAssignments
    /\ Becomes([top EXCEPT !.phase = "assign", !.left = Assigned(<<>>, Raw)])
    /\ UNCHANGED <<outs, files, exited, error>>

\* Any of those left is next; its value is expanded when its turn comes.
AssignOne ==
    /\ At("assign")
    /\ \E n \in DOMAIN top.left :
           LET v == Expand(top.left[n], LAMBDA m : Lookup(top.shvars, top.env, m))
           IN  Becomes([top EXCEPT !.shvars = With(@, n, v), !.latest = With(@, n, v), !.left = Without(@, n)])
    /\ UNCHANGED <<outs, files, exited, error>>

AssignEnds ==
    /\ At("assign") /\ DOMAIN top.left = {}
    /\ Becomes([top EXCEPT !.phase = "lines", !.lines = Tail(@), !.exit = 0])
    /\ UNCHANGED <<outs, files, exited, error>>

\* Assignments before a command serve the expansion of the line and nothing else.
Expanded ==
    LET own  == Assigned(<<>>, Leading(Raw))
        rest == SubSeq(Raw, Len(Leading(Raw)) + 1, Len(Raw))
        text == Expand(Unwords(rest), LAMBDA n : IF n \in DOMAIN own THEN own[n] ELSE Lookup(top.shvars, top.env, n))
    IN  [i \in DOMAIN Words(text) |-> Unquote(Words(text)[i])]

BeginLine ==
    /\ HasLine /\ ~IsSkipped /\ ~OnlyAssignments
    /\ LET chain == parse_command_chain(Expanded)
       IN  IF Expanded = <<>> \/ \E i \in DOMAIN chain : chain[i].bad
           THEN Fails
           ELSE /\ Becomes([top EXCEPT !.phase = "chain", !.chain = chain, !.before = None, !.code = 0])
                /\ UNCHANGED <<outs, files, exited, error>>

\* Only a line that has run to its end sets $?.
EndLine ==
    /\ At("chain") /\ top.chain = <<>>
    /\ LET code == <<ToString(top.code)>>
       IN  Becomes([top EXCEPT !.phase = "lines", !.lines = Tail(@), !.exit = top.code,
                               !.shvars = With(@, "?", code), !.latest = With(@, "?", code)])
    /\ UNCHANGED <<outs, files, exited, error>>

(***************************************************************************)
(* run_command_chain.                                                      *)
(***************************************************************************)
NextPipeline == Head(top.chain)

\* There is nothing to run: no command, or one that was only its redirections.
IsIdle(p) == p.commands \in {<<>>, <<<<>>>>}

SkipPipeline ==
    /\ At("chain") /\ top.chain # <<>> /\ ~ShouldRun(top.before, top.code)
    /\ Becomes([top EXCEPT !.chain = Tail(@), !.before = NextPipeline.after])
    /\ UNCHANGED <<outs, files, exited, error>>

BeginPipeline ==
    /\ At("chain") /\ top.chain # <<>> /\ ShouldRun(top.before, top.code)
    /\ Becomes(IF IsIdle(NextPipeline) THEN [top EXCEPT !.chain = Tail(@), !.before = NextPipeline.after, !.code = 0]
               ELSE [top EXCEPT !.phase = "stages", !.stages = NextPipeline.commands, !.piped = None, !.code = 0])
    /\ UNCHANGED <<outs, files, exited, error>>

(***************************************************************************)
(* run_pipeline and run_single_command: one command of the pipeline, with  *)
(* the outputs it is given.  Assignments count only before a command that  *)
(* is alone; so do the commands that change the shell itself, whose        *)
(* redirections are ignored.                                               *)
(***************************************************************************)
Stage  == Head(top.stages)
IsLast == Len(top.stages) = 1
Alone  == Len(NextPipeline.commands) = 1

Settings == IF Alone THEN Leading(Stage) ELSE <<>>
Argv     == SubSeq(Stage, Len(Settings) + 1, Len(Stage))
Special  == {<<"cd">>, <<"set">>, <<"unset">>, <<"export">>}

IsStage == At("stages") /\ Argv # <<>>

\* Seeded bug: the command that was waited for is kept until the pipeline ends.
NextStageBug(f, code, pipe) ==
    IF Len(f.stages) > 1
    THEN [f EXCEPT !.stages = Tail(@), !.code = code, !.piped = pipe, !.phase = "stages"]
    ELSE [f EXCEPT !.stages = <<>>, !.code = code, !.phase = "chain", !.command = None,
                   !.chain = Tail(@), !.before = Head(f.chain).after]

\* f after a command that came to code; the pipe it wrote becomes the next one's input.
NextStage(f, code, pipe) ==
    IF Len(f.stages) > 1
    THEN [f EXCEPT !.stages = Tail(@), !.code = code, !.piped = pipe, !.phase = "stages", !.command = None]
    ELSE [f EXCEPT !.stages = <<>>, !.code = code, !.phase = "chain", !.command = None,
                   !.chain = Tail(@), !.before = Head(f.chain).after]

Told(f, assignments) ==
    [f EXCEPT !.shvars = Assigned(@, assignments), !.latest = Assigned(@, assignments)]

\* The last command was nothing but its redirections: what was piped to it is lost.
EmptyStage ==
    /\ At("stages") /\ Stage = <<>>
    /\ Becomes(NextStage(top, top.code, None))
    /\ UNCHANGED <<outs, files, exited, error>>

AssignWords ==
    /\ At("stages") /\ Stage # <<>> /\ Argv = <<>>
    /\ Becomes(NextStage(Told(top, Settings), 0, None))
    /\ UNCHANGED <<outs, files, exited, error>>

\* One argument of set, unset or export.
set(f, w) == IF IsAssignment(w) THEN Told(f, <<w>>) ELSE [f EXCEPT !.code = 1]

unset(f, w) == [f EXCEPT !.shvars = Without(@, w[1]), !.env = Without(@, w[1]), !.latest = Without(@, w[1])]

\* Seeded bug: the shell's own variable stays.
exportBug(f, w) ==
    CASE IsAssignment(w) -> [f EXCEPT !.env = Assigned(@, <<w>>), !.latest = Assigned(@, <<w>>)]
      [] ~IsAssignment(w) /\ w[1] \in DOMAIN f.shvars -> [f EXCEPT !.shvars = Without(@, w[1]), !.env = With(@, w[1], f.shvars[w[1]])]
      [] OTHER -> f

export(f, w) ==
    CASE IsAssignment(w) -> [f EXCEPT !.shvars = Without(@, NameOf(w)),
                                      !.env = Assigned(@, <<w>>), !.latest = Assigned(@, <<w>>)]
      [] ~IsAssignment(w) /\ w[1] \in DOMAIN f.shvars -> [f EXCEPT !.shvars = Without(@, w[1]), !.env = With(@, w[1], f.shvars[w[1]])]
      [] OTHER -> f

\* cd without an argument goes home, where the environment comes first.
cd(f) ==
    LET home == Lookup(f.env, f.shvars, "HOME")
        path == Resolve(f.cwd, IF Len(Argv) > 1 THEN Argv[2] ELSE home)
    IN  IF (Len(Argv) > 1 \/ home # <<>>) /\ path \in Dirs THEN [f EXCEPT !.cwd = path, !.code = 0]
                                                           ELSE [f EXCEPT !.code = 1]

\* A command that changes the shell is over, and its shell is f; of a code other than 0
\* it has complained.
Changes(f) ==
    LET s == IF f.code = 0 THEN Progress ELSE write_line(Progress, f.stderr, Complaint(Argv).line)
    IN  /\ error' = s.failed
        /\ Becomes(IF s.failed THEN f ELSE NextStage(f, f.code, None))
        /\ outs' = s.outs /\ files' = s.files
        /\ UNCHANGED exited

IsSpecial == IsStage /\ Alone /\ Argv[1] \in Special

ChangeDir ==
    /\ IsSpecial /\ Argv[1] = <<"cd">>
    /\ Changes(cd(Told(top, Settings)))

\* The others go through their arguments, and set stops at one that it does not understand.
TellShell ==
    /\ IsSpecial /\ Argv[1] # <<"cd">>
    /\ Becomes([Told(top, Settings) EXCEPT !.phase = "tell", !.code = 0, !.left = Tail(Argv)])
    /\ UNCHANGED <<outs, files, exited, error>>

Tell(f, w) ==
    CASE Argv[1] = <<"set">>   -> set(f, w)
      [] Argv[1] = <<"unset">> -> unset(f, w)
      [] OTHER                 -> export(f, w)

TellOne ==
    /\ At("tell") /\ top.left # <<>> /\ top.code = 0
    /\ Becomes([Tell(top, Head(top.left)) EXCEPT !.left = Tail(@)])
    /\ UNCHANGED <<outs, files, exited, error>>

TellEnds ==
    /\ At("tell") /\ (top.left = <<>> \/ top.code # 0)
    /\ Changes(top)

\* The outputs of the command, new ones after those there are.  In a pipeline
\* errors are never redirected.
Redirected ==
    LET p     == NextPipeline
        n     == Len(outs)
        to(r) == <<Output(r.mode, Resolve(top.cwd, r.word))>>
        out   == IF ~IsLast THEN <<Output("pipe", <<>>)>> ELSE IF p.out = None THEN <<>> ELSE to(p.out)
        merge == Alone /\ p.err # None /\ p.err.mode = "merge"
        err   == IF Alone /\ p.err # None /\ ~merge THEN to(p.err) ELSE <<>>
        both  == merge /\ out = <<>>
        std   == IF out = <<>> /\ ~both THEN top.stdout ELSE n + 1
    IN  [outs   |-> outs \o (IF both THEN <<Output("pipe", <<>>)>> ELSE out) \o err,
         stdin  |-> IF top.piped = None THEN top.stdin ELSE top.piped,
         stdout |-> std,
         stderr |-> IF merge THEN std ELSE IF err = <<>> THEN top.stderr ELSE n + Len(out) + 1,
         copyto |-> IF both THEN top.stdout ELSE None]

\* The frame goes on after its command c, if that has not failed.  The outputs there
\* are stay.
Ends(f, below, there, s, c) ==
    LET t == Closed(s, c)
    IN  /\ outs' = [id \in DOMAIN there |-> t.outs[id]] /\ files' = t.files
        /\ error' = t.failed
        /\ frames' = Append(below, IF t.failed THEN f ELSE NextStage(f, s.code, c.stdout))

\* lookup_bin finds nothing: the outputs are there already, and are dropped.
Unknown ==
    /\ IsStage /\ ~IsSpecial /\ ~(Argv[1][1] \in Commands /\ Len(Argv[1]) = 1)
    /\ LET c == Redirected
       IN  Ends(top, Below, c.outs, [Progress EXCEPT !.outs = c.outs, !.failed = TRUE], c)
    /\ UNCHANGED exited

Simple ==
    /\ IsStage /\ Len(Argv[1]) = 1 /\ Argv[1][1] \in Commands \ {"sh"}
    /\ LET c     == Redirected
           input == c.outs[c.stdin].text
           read  == IF Reads(Argv) THEN [c.outs EXCEPT ![c.stdin].text = <<>>] ELSE c.outs
       IN  Ends(top, Below, c.outs, Performed([Progress EXCEPT !.outs = read], Argv, input, c), c)
    /\ exited' = (exited \/ Signals(Argv))

\* sh: -c and a line, or a script.  It gets copies of both maps.
SubShell ==
    /\ IsStage /\ Argv[1] = <<"sh">>
    /\ LET c      == Redirected
           given  == IF Len(Argv) > 1 /\ Argv[2] = <<"-c">> THEN Len(Argv) > 2 ELSE Len(Argv) > 1
           script == FromRoot(Argv[2])
           child(kind, lines) == Shell(kind, lines, Assigned(top.shvars, Settings), top.env, top.cwd, c)
           refuse(code) == Ends(top, Below, c.outs, [write_line([Progress EXCEPT !.outs = c.outs], c.stderr, Complaint(Argv).line)
                                               EXCEPT !.code = code], c)
           waits == [top EXCEPT !.phase = "waiting", !.command = c]
       IN  CASE ~given -> refuse(2)
             [] given /\ Argv[2] = <<"-c">> ->
                    /\ frames' = Below \o <<waits, child("line", <<Argv[3]>>)>>
                    /\ outs' = c.outs /\ UNCHANGED <<files, error>>
             [] given /\ Argv[2] # <<"-c">> /\ script \in DOMAIN files ->
                    /\ frames' = Below \o <<waits, child("script", files[script])>>
                    /\ outs' = c.outs /\ UNCHANGED <<files, error>>
             [] OTHER -> refuse(127)
    /\ UNCHANGED exited

\* A shell that has no more lines, or was told to exit, ends as the command of
\* the one below.
Return ==
    /\ At("lines") /\ Len(frames) > 1
    /\ top.lines # <<>> => top.kind = "script" /\ exited
    /\ LET parent == Last(Below)
       IN  Ends(parent, Front(Below), outs, [Progress EXCEPT !.code = top.exit], parent.command)
    /\ UNCHANGED exited

\* An error ends every shell on its way to the interactive one, which reports it
\* and goes on with the next line.
Unwind ==
    /\ error
    /\ IF Len(frames) > 1
       THEN LET parent == Last(Below)
            IN  Ends(parent, Front(Below), outs, [Progress EXCEPT !.failed = TRUE], parent.command)
       ELSE /\ Becomes([top EXCEPT !.phase = "lines", !.lines = Tail(@), !.chain = <<>>, !.stages = <<>>, !.command = None])
            /\ outs' = [outs EXCEPT ![Errors].text = Append(@, <<"error">>)]
            /\ error' = FALSE
            /\ UNCHANGED files
    /\ UNCHANGED exited

\* The interactive shell ends with its input, or after an exit.
Leave ==
    /\ At("lines") /\ Len(frames) = 1
    /\ top.lines # <<>> => exited
    /\ frames' = <<>>
    /\ UNCHANGED <<outs, files, exited, error>>

Init ==
    /\ \E lines \in Scripts :
           frames = <<Shell("tty", lines, <<>>, Exports, <<>>, [stdin |-> Keyboard, stdout |-> Terminal, stderr |-> Errors])>>
    /\ outs = <<Output("term", <<>>), Output("term", <<>>), [Output("pipe", <<>>) EXCEPT !.text = Typed]>>
    /\ files = Files
    /\ exited = FALSE /\ error = FALSE

Next == \/ SkipLine \/ AssignLine \/ AssignOne \/ AssignEnds \/ BeginLine \/ EndLine \/ SkipPipeline \/ BeginPipeline
        \/ EmptyStage \/ AssignWords \/ ChangeDir \/ TellShell \/ TellOne \/ TellEnds \/ Unknown \/ Simple \/ SubShell \/ Return \/ Unwind \/ Leave

Spec == Init /\ [][Next]_vars

(***************************************************************************)
(* Properties.                                                             *)
(***************************************************************************)
\* In every shell a variable is what it was last told to be, whichever of the two
\* maps it was told to (set, export, unset, assignments, $?): neither map keeps a
\* value that shadows a later one.
LookupIsLastWrite ==
    \A i \in DOMAIN frames : \A n \in Names \cup {"?"} :
        Lookup(frames[i].shvars, frames[i].env, n) = Lookup(frames[i].latest, <<>>, n)

Writes(f) == {f.stdout, f.stderr} \cup IF f.command = None THEN {} ELSE {f.command.stdout, f.command.stderr}
MayRead(f) == {f.stdin} \cup IF f.piped = None THEN {} ELSE {f.piped}

\* Commands run one after the other in one thread, and a reader of a pipe waits
\* for its last writer: nobody that is to read a pipe, now or when a shell inside
\* it returns, finds a writer of it alive.
NoReaderWaits == \A i, j \in DOMAIN frames : MayRead(frames[i]) \cap Writes(frames[j]) = {}
=============================================================================
