-------------------------------- MODULE Repl --------------------------------
(***************************************************************************)
(* The interactive loop of lispdown (repl.rs), its restarts and its        *)
(* commands, with the programs that carry a value to JSON and back.  Line  *)
(* editing is the terminal's: a line is typed key by key, and an accepted  *)
(* line is one the validator finds balanced.                               *)
(***************************************************************************)
EXTENDS Notation

CONSTANTS
    Keys,       \* what one key types
    Pastes,     \* texts put on an empty line in one step
    Names,      \* the function names of the completion
    Files,      \* the documents of the working directory
    Jsons,      \* JSON values from elsewhere
    MaxTyped,   \* how much is typed in a session
    None        \* nothing there

VARIABLES
    phase,      \* where the loop is: at the prompt, running, asking for a restart, ...
    line,       \* the line being typed
    typed,      \* how much was typed
    vm,         \* what the machine is about to compute, or None
    value,      \* the value printed last, or None
    json,       \* the JSON value written last, or None
    files       \* file -> the transforms its document went through

vars == <<phase, line, typed, vm, value, json, files>>

(***************************************************************************)
(* The line.                                                               *)
(***************************************************************************)
\* Depths are counted from a level no line here closes below.
Level == 32
Outside == [depth |-> Level, string |-> FALSE, escape |-> FALSE]
Scanned(s, c) ==
    CASE s.escape                -> [s EXCEPT !.escape = FALSE]
      [] c = "\\" /\ s.string    -> [s EXCEPT !.escape = TRUE]
      [] c = "\""                -> [s EXCEPT !.string = ~@]
      [] c = "(" /\ ~s.string    -> [s EXCEPT !.depth = @ + 1]
      [] c = ")" /\ ~s.string    -> [s EXCEPT !.depth = @ - 1]
      [] OTHER                   -> s
\* Seeded bug: a quote counts even when it is escaped.
ScanBug(text) == FoldLeft(LAMBDA s, c : [Scanned(s, c) EXCEPT !.escape = FALSE], Outside, text)
Scan(text) == FoldLeft(Scanned, Outside, text)
is_balanced(text) == Scan(text).depth <= Level /\ ~Scan(text).string

Trim(text) ==
    LET first == SelectInSeq(text, LAMBDA c : c \notin White)
        last  == SelectLastInSeq(text, LAMBDA c : c \notin White)
    IN  IF first = 0 THEN <<>> ELSE SubSeq(text, first, last)

Asking == {"prompt", "restart", "value"}
Typing(new, n) ==
    /\ phase \in Asking
    /\ typed + n <= MaxTyped
    /\ line' = new
    /\ typed' = typed + n
    /\ UNCHANGED <<phase, vm, value, json, files>>

Type(key)   == Typing(Append(line, key), 1)
Paste(text) == line = <<>> /\ Typing(text, 1)
\* The printed value, quoted, as the user copies it.
Recall      == line = <<>> /\ phase = "prompt" /\ value # None /\ Typing(<<"'">> \o Text(value), 1)

\* The word before the cursor, which stands at the end of the line, is completed.
complete(name) ==
    LET start == SelectLastInSeq(line, LAMBDA c : c \in Break)
        word  == SubSeq(line, start + 1, Len(line))
    IN  /\ word # <<>>
        /\ IsPrefix(word, name)
        /\ Typing(SubSeq(line, 1, start) \o name, 1)

\* The validator asks for another line.
Continue == ~is_balanced(line) /\ Typing(Append(line, "\n"), 1)

(***************************************************************************)
(* Commands.  :edit puts the document before the arguments of a transform  *)
(* and writes what the machine makes of it; the others print.              *)
(***************************************************************************)
Commands == {":edit", ":quit", ":show"}

\* split_whitespace.
SplitWhite(text) ==
    SelectSeq(FoldLeft(LAMBDA ws, c : IF c \in White THEN Append(ws, <<>>) ELSE [ws EXCEPT ![Len(ws)] = Append(@, c)], <<<<>>>>, text),
              LAMBDA w : w # <<>>)

WithDoc(e, doc) ==
    CASE ~IsList(e)      -> [expr |-> List(<<e, doc>>)]
      [] e.items = <<>>  -> Failed("invalid-transform")
      [] OTHER           -> [expr |-> List(<<e.items[1], doc>> \o Tail(e.items))]

\* The document stands quoted in the call; what the call does to it is the call itself.
Document == Atom(<<"doc">>)
Transform(r) == IF Fails(r) THEN r ELSE WithDoc(r.expr, List(<<Atom(<<"quote">>), Document>>))

\* The machine, the rendering or the disk may refuse; a refused write leaves the file cut short.
Torn == <<Atom(<<"torn">>)>>
edit_document(f, call) ==
    \/ UNCHANGED files
    \/ /\ f \in Files /\ ~Fails(call)
       /\ \E new \in {Append(files[f], call.expr), Torn} : files' = [files EXCEPT ![f] = new]

Joined(words) == Spaced(words)
\* Seeded bug: the words of the transform are put together again without the space.
EditBug(words) == edit_document(words[2], Transform(parse(FlattenSeq(SubSeq(words, 3, Len(words))), 1)))
Edit(words) == edit_document(words[2], Transform(parse(Joined(SubSeq(words, 3, Len(words))), 1)))

handle_command(words) ==
    /\ line' = <<>>
    /\ phase' = IF words[1] = <<":quit">> THEN "quit" ELSE "prompt"
    /\ IF words[1] = <<":edit">> /\ Len(words) >= 3 THEN Edit(words) ELSE UNCHANGED files
    /\ UNCHANGED <<typed, vm, value, json>>

Accepted == phase \in Asking /\ is_balanced(line)

Command == Accepted /\ phase = "prompt" /\ Trim(line) # <<>> /\ Trim(line)[1] \in Commands /\ handle_command(SplitWhite(line))

(***************************************************************************)
(* Evaluation with restarts.                                               *)
(***************************************************************************)
To(p, m) == phase' = p /\ vm' = m /\ line' = <<>> /\ UNCHANGED <<typed, json, files>>

\* An empty line, and a text that does not parse, bring the prompt again.
Loaded(r) == IF Fails(r) THEN To("prompt", None) ELSE To("run", r.expr)
Evaluate ==
    /\ Accepted /\ phase = "prompt"
    /\ Trim(line) # <<>> => Trim(line)[1] \notin Commands
    /\ Loaded(parse(Trim(line), 1))
    /\ UNCHANGED value

\* What the machine computes is LispVm's; here a quotation gives what it quotes
\* and an atom itself, and any other form may give a value or a condition.
IsQuotation(e) == IsList(e) /\ Len(e.items) = 2 /\ e.items[1] = Atom(<<"quote">>)
Results(e) == CASE IsQuotation(e) -> {e.items[2]} [] ~IsList(e) -> {e} [] OTHER -> {Atom(<<"null">>)}

Finished == phase = "run" /\ value' \in Results(vm) /\ To("prompt", None)
Suspended == phase = "run" /\ IsList(vm) /\ ~IsQuotation(vm) /\ To("restart", vm) /\ UNCHANGED value

\* apply_restart: the value stands for that of the form that failed; it is the
\* result, or what encloses it is still to be computed.
Quotation(e) == List(<<Atom(<<"quote">>), e>>)
Resumed(e) == \E rest \in {Quotation(e), vm} : To("run", rest)
UseValue(r, again) == (IF Fails(r) THEN To(again, vm) ELSE Resumed(r.expr)) /\ UNCHANGED value
Aborted == To("prompt", None) /\ UNCHANGED value

Choose ==
    LET choice == Trim(line)
    IN  /\ Accepted /\ phase = "restart"
        /\ CASE choice = <<"1">>                            -> Aborted
             [] choice = <<"2">>                            -> To("value", vm) /\ UNCHANGED value
             [] Len(choice) > 2 /\ choice[1] = "use" /\ choice[2] = " " -> UseValue(parse(choice, 2), "restart")
             [] OTHER                                       -> To("restart", vm) /\ UNCHANGED value
Supply == Accepted /\ phase = "value" /\ UseValue(parse(Trim(line), 1), "restart")

\* Ctrl-C gives the line up and asks for a choice again, Ctrl-D on an empty line ends the session or the computation.
Interrupt == phase \in Asking /\ (line = <<>> => phase = "value") /\ To(IF phase = "value" THEN "restart" ELSE phase, vm) /\ UNCHANGED value
Eof ==
    /\ phase \in Asking /\ line = <<>>
    /\ To(IF phase = "prompt" THEN "quit" ELSE "prompt", None)
    /\ UNCHANGED value

(***************************************************************************)
(* json2sexpr and sexpr2json, each fed with what was printed last, at the  *)
(* end of a session: when nothing more is typed (a bound).                 *)
(***************************************************************************)
Converts == phase = "prompt" /\ line = <<>> /\ typed = MaxTyped /\ UNCHANGED <<phase, line, typed, vm, files>>
ToJson   == Converts /\ value # None /\ ~Fails(sexpr_to_json(Text(value))) /\ json' = sexpr_to_json(Text(value)).json /\ UNCHANGED value
Given    == Converts /\ json = None /\ json' \in Jsons /\ UNCHANGED value
FromJson == Converts /\ json # None /\ value' = parse(json_to_sexpr(json), 1).expr /\ UNCHANGED json

Init ==
    /\ phase = "prompt" /\ line = <<>> /\ typed = 0
    /\ vm = None /\ value = None /\ json = None
    /\ files = [f \in Files |-> <<>>]

Next ==
    \/ \E k \in Keys : Type(k)
    \/ \E t \in Pastes : Paste(t)
    \/ \E n \in Names : complete(n)
    \/ Recall \/ Continue \/ Command \/ Evaluate
    \/ Finished \/ Suspended \/ Choose \/ Supply
    \/ Interrupt \/ Eof
    \/ ToJson \/ Given \/ FromJson

Spec == Init /\ [][Next]_vars

(***************************************************************************)
(* Properties.                                                             *)
(***************************************************************************)
\* An empty atom, which a quote before a closing parenthesis reads as, has no text of its own.
RECURSIVE Legible(_)
Legible(e) == IF IsList(e) THEN \A i \in DOMAIN e.items : Legible(e.items[i]) ELSE e.chars # <<>>

\* A quote that stands after a character of an atom, outside every string.
Stray(text, i) ==
    LET from == SelectLastInSubSeq(text, 1, i - 1, LAMBDA c : c \in Break \union {"\""})
    IN  text[i] = "\"" /\ ~Scan(SubSeq(text, 1, i - 1)).string /\ ToSet(SubSeq(text, from + 1, i - 1)) \notin SUBSET {"'"}

\* What is printed can be typed: the text of a value is read as that value, to its end.
ReadsBack == value # None => (Legible(value) => parse(Text(value), 1) = Parsed(value, Len(Text(value)) + 1))

\* The prompt never hands over a text whose list or string is still open: the
\* validator counts as the parser reads, unless a quote stands inside an atom.
UnclosedIsAsked ==
    [][(phase \in Asking /\ line' = <<>> /\ Accepted /\ \A i \in DOMAIN line : ~Stray(line, i))
       => parse(line, 1) \notin {Failed("unclosed-list"), Failed("unclosed-string")}]_vars

\* Arrays drop their nulls on the way back, and nothing else is lost.
RECURSIVE WithoutNulls(_)
WithoutNulls(v) ==
    CASE "arr" \in DOMAIN v -> JArr(SelectSeq([i \in DOMAIN v.arr |-> WithoutNulls(v.arr[i])], LAMBDA x : x # JNull))
      [] "obj" \in DOMAIN v -> JObj([i \in DOMAIN v.obj |-> <<v.obj[i][1], WithoutNulls(v.obj[i][2])>>])
      [] OTHER              -> v

\* A JSON value carried to an expression, printed, read and carried back is the same value.
JsonSurvives == json # None => sexpr_to_json(json_to_sexpr(json)) = [json |-> WithoutNulls(json)]

Spacious(text) == \E i \in 1 .. Len(text) - 1 : text[i] \in White /\ text[i + 1] \in White

\* :edit changes the document it names, by the transform as it was written (when
\* no text in it holds a run of spaces), or leaves it cut short where a write fails.
EditsAsWritten ==
    [][\A f \in Files : files'[f] # files[f] /\ files'[f] # Torn /\ ~Spacious(Trim(line)) /\ "\n" \notin ToSet(line)
        => \E from \in DOMAIN Trim(line) :
             /\ SubSeq(Trim(line), 1, from - 1) = <<":edit", " ">> \o f \o <<" ">>
             /\ files'[f] = Append(files[f], Transform(parse(Trim(line), from)).expr)]_vars
=============================================================================
