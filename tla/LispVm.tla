------------------------------ MODULE LispVm ------------------------------
(***************************************************************************)
(* The stackless virtual machine of lispdown (src/lispdown/src/vm.rs).     *)
(* A frame is what is left to do; a step pops the top frame, executes it   *)
(* and may push others; result carries a value from a frame to the one     *)
(* below it.  An error suspends the machine with the frames that are left, *)
(* and a restart continues from them.                                      *)
(*                                                                         *)
(* The filesystem is one directory: files maps paths to texts.  LispEval   *)
(* is the evaluator a user of the language has in mind.                    *)
(***************************************************************************)
EXTENDS SExpr, Integers, FiniteSets, TLC

CONSTANTS
    Scripts,      \* sequences of programs to run one after the other
    Answers,      \* values a user may give to the restart "use"
    Globals,      \* name -> value, what bind_global may bind
    None          \* no result, no program

ASSUME LispVmAssumption == None \notin Answers

VARIABLES
    frames,       \* Vm::frames, the top one last
    functions,    \* Vm::functions: id -> function
    names,        \* Vm::function_names: name -> id
    next,         \* Vm::next_func_id
    result,       \* Vm::current_result
    globals,      \* Vm::globals
    files,        \* what the filesystem holds: path -> text
    status,       \* VmState as the last step returned it, "idle" before any
    outcome,      \* the value or the condition that came with it
    script,       \* the programs still to be loaded
    began,        \* history: the program loaded last and the machine it found
    answers,      \* history: the values its restarts have been given
    retried       \* history: whether one of its restarts was Retry

registry == <<functions, names, next>>
history  == <<script, began, answers, retried>>
vars     == <<frames, functions, names, next, result, globals, files, status, outcome, script, began, answers, retried>>

(***************************************************************************)
(* Environments: the innermost binding of every name that is visible.      *)
(***************************************************************************)
NoBindings == [n \in {} |-> Nil]

bind(env, name, value) == (name :> value) @@ env

bindAll(env, params, args) == FoldLeft(LAMBDA e, i : bind(e, params[i], args[i]), env, [i \in DOMAIN params |-> i])

\* What an atom stands for: a local, a global, itself.
ValueOf(a, env, global) ==
    CASE a \in DOMAIN env    -> env[a]
      [] a \in DOMAIN global -> global[a]
      [] OTHER               -> a

\* A local that holds an atom lends that atom's name to the function called.
Resolve(f, env) == IF f \in DOMAIN env /\ IsAtom(env[f]) THEN env[f] ELSE f

(***************************************************************************)
(* Built-in functions.  Failed is an error: it has no value.               *)
(***************************************************************************)
Failed == [failed |-> TRUE]
IsFailed(v) == "failed" \in DOMAIN v

Arity == "null?" :> 1 @@ "list?" :> 1 @@ "atom?" :> 1 @@ "empty?" :> 1 @@ "eq?" :> 2 @@ "first" :> 1 @@ "rest" :> 1
      @@ "cons" :> 2 @@ "append" :> 2 @@ "length" :> 1 @@ "nth" :> 2 @@ "get" :> 2 @@ "keys" :> 1 @@ "values" :> 1
      @@ "assoc" :> 3 @@ "dissoc" :> 2 @@ "fs-read" :> 1 @@ "fs-write" :> 2 @@ "fs-append" :> 2 @@ "fs-exists?" :> 1
      @@ "fs-unlink" :> 1 @@ "fs-rename" :> 2

Predicate(b, x) ==
    Bool(CASE b = "null?"  -> x = Null
           [] b = "list?"  -> IsList(x)
           [] b = "atom?"  -> IsAtom(x)
           [] b = "empty?" -> x = Nil)

first(x)  == CASE ~IsList(x) -> Failed [] x = Nil -> Null [] OTHER -> Head(x.items)
rest(x)   == CASE ~IsList(x) -> Failed [] x = Nil -> Nil  [] OTHER -> L(Tail(x.items))
cons(x, l)   == IF IsList(l) THEN L(<<x>> \o l.items) ELSE Failed
append(k, l) == IF IsList(k) /\ IsList(l) THEN L(k.items \o l.items) ELSE Failed
length(x)    == IF IsList(x) THEN Numeral(Len(x.items)) ELSE Failed

nth(i, l) ==
    LET at == {n \in 0 .. 9 : i = Numeral(n)}
    IN  IF at = {} \/ ~IsList(l) THEN Failed
        ELSE LET n == CHOOSE n \in at : TRUE IN IF n < Len(l.items) THEN l.items[n + 1] ELSE Null

str_concat(args) == T(FlattenSeq([i \in DOMAIN args |-> TextOf(args[i])]))

\* The functions that do not touch the filesystem.
Pure(b, args) ==
    CASE b \in {"null?", "list?", "atom?", "empty?"} -> Predicate(b, args[1])
      [] b = "eq?"    -> Bool(args[1] = args[2])
      [] b = "first"  -> first(args[1])
      [] b = "rest"   -> rest(args[1])
      [] b = "cons"   -> cons(args[1], args[2])
      [] b = "append" -> append(args[1], args[2])
      [] b = "length" -> length(args[1])
      [] b = "nth"    -> nth(args[1], args[2])
      [] b = "list"   -> L(args)
      [] b = "str"    -> str_concat(args)
      [] b \in {"obj", "arr"} -> L(<<A(b)>> \o args)
      [] b = "get"    -> IF IsAtom(args[1]) THEN ObjGet(args[2], TextOf(args[1])) ELSE Failed
      [] b = "keys"   -> ObjKeys(args[1])
      [] b = "values" -> ObjValues(args[1])
      [] b = "assoc"  -> IF IsAtom(args[2]) THEN ObjAssoc(args[1], TextOf(args[2]), args[3]) ELSE Failed
      [] b = "dissoc" -> IF IsAtom(args[2]) THEN ObjDissoc(args[1], TextOf(args[2])) ELSE Failed
      [] b = "merge"  -> IF Len(args) < 2 THEN Failed ELSE ObjMerge(args)

FileNames == {"fs-read", "fs-write", "fs-append", "fs-exists?", "fs-unlink", "fs-rename"}

\* The functions on files: the value and the files afterwards; an error changes nothing.
FileCall(b, args, fs) ==
    LET p == TextOf(args[1])
        Gives(v, g) == [val |-> v, files |-> g]
        known == p \in DOMAIN fs
        without == [q \in DOMAIN fs \ {p} |-> fs[q]]
        old(q) == IF q \in DOMAIN fs THEN fs[q] ELSE <<>>
    IN  CASE b = "fs-exists?" -> Gives(Bool(known), fs)
          [] b = "fs-write"   -> Gives(T(p), (p :> TextOf(args[2])) @@ fs)
          [] b = "fs-append"  -> Gives(T(p), (p :> old(p) \o TextOf(args[2])) @@ fs)
          [] b = "fs-read"    -> Gives(IF known THEN T(fs[p]) ELSE Failed, fs)
          [] b = "fs-unlink"  -> IF known THEN Gives(T(p), without) ELSE Gives(Failed, fs)
          [] b = "fs-rename"  -> IF known THEN Gives(T(TextOf(args[2])), (TextOf(args[2]) :> fs[p]) @@ without)
                                          ELSE Gives(Failed, fs)

\* A built-in called with evaluated arguments.
Builtin(b, args, fs) ==
    IF b \in DOMAIN Arity /\ Len(args) # Arity[b] THEN [val |-> Failed, files |-> fs]
    ELSE IF b \in FileNames THEN FileCall(b, args, fs)
    ELSE [val |-> Pure(b, args), files |-> fs]

(***************************************************************************)
(* Functions and their names.                                              *)
(***************************************************************************)
IsBuiltin(f) == "builtin" \in DOMAIN f
Lambda(params, body, env) == [params |-> params, body |-> body, env |-> env]

\* register_builtins, register_json_builtins and register_filesystem_builtins:
\* one id per function, in order.
Registered == <<"null?", "list?", "atom?", "empty?", "eq?", "first", "rest", "cons", "append", "length", "nth", "list",
                "str", "obj", "arr", "get", "keys", "values", "assoc", "dissoc", "merge",
                "fs-read", "fs-write", "fs-append", "fs-exists?", "fs-unlink", "fs-rename">>

LambdaName(id) == A("__lambda_" \o ToString(id))

\* lookup_fn, of the functions fs and names ns.
Known(f, ns) == f \in DOMAIN ns

(***************************************************************************)
(* Frames.                                                                 *)
(***************************************************************************)
Forms == {"quote", "if", "let", "begin", "->", "->>", "map", "filter", "reduce", "lambda", "defun"}

\* SpecialFormState: WaitingForValue before anything is evaluated, then an index.
Waiting == -1

EvalFrame(e, env)          == [op |-> "eval", expr |-> e, env |-> env]
CallFrame(f, args, n, env) == [op |-> "call", func |-> f, args |-> args, count |-> n, env |-> env]
FormFrame(f, args, i, env) == [op |-> f, args |-> args, index |-> i, env |-> env]

Top  == Last(frames)
Rest == Front(frames)

Runs(op) == status = "running" /\ frames # <<>> /\ Top.op = op

\* step returns Ok(Running): fs are the frames, r the result.
Goes(fs, r) ==
    /\ frames' = fs
    /\ result' = r
    /\ UNCHANGED <<status, outcome>>

\* step returns Err: the frame is gone, r is what current_result holds by then.
Suspends(kind, what, r) ==
    /\ frames' = Rest
    /\ result' = r
    /\ status' = "suspended"
    /\ outcome' = <<kind, what>>

Kept == UNCHANGED <<functions, names, next, globals, files, history>>

(***************************************************************************)
(* step_eval.                                                              *)
(***************************************************************************)
EvalAtom ==
    /\ Runs("eval") /\ IsAtom(Top.expr)
    /\ Goes(Rest, ValueOf(Top.expr, Top.env, globals))
    /\ Kept

EvalNil ==
    /\ Runs("eval") /\ Top.expr = Nil
    /\ Goes(Rest, Nil)
    /\ Kept

EvalListHead ==
    /\ Runs("eval") /\ IsList(Top.expr) /\ Top.expr # Nil /\ IsList(Head(Top.expr.items))
    /\ Suspends("Custom", "invalid-function-name", result)
    /\ Kept

IsForm(e) == IsSymbol(e) /\ e.atom \in Forms

EvalForm ==
    /\ Runs("eval") /\ IsList(Top.expr) /\ Top.expr # Nil /\ IsForm(Head(Top.expr.items))
    /\ Goes(Append(Rest, FormFrame(Head(Top.expr.items).atom, Tail(Top.expr.items), Waiting, Top.env)), result)
    /\ Kept

EvalCall ==
    /\ Runs("eval") /\ IsList(Top.expr) /\ Top.expr # Nil /\ IsAtom(Head(Top.expr.items)) /\ ~IsForm(Head(Top.expr.items))
    /\ Goes(Append(Rest, CallFrame(Head(Top.expr.items), Tail(Top.expr.items), 0, Top.env)), result)
    /\ Kept

(***************************************************************************)
(* step_call.  The value that arrived belongs to the argument evaluated    *)
(* last; with no argument evaluated yet it is dropped.                     *)
(***************************************************************************)
Arguments == IF result # None /\ Top.count > 0 THEN ReplaceAt(Top.args, Top.count, result) ELSE Top.args

CallNextArgument ==
    /\ Runs("call") /\ Top.count < Len(Top.args)
    /\ Goes(Rest \o <<CallFrame(Top.func, Arguments, Top.count + 1, Top.env),
                      EvalFrame(Arguments[Top.count + 1], Top.env)>>, None)
    /\ Kept

Ready == Runs("call") /\ Top.count = Len(Top.args)

Callee == Resolve(Top.func, Top.env)

CallUnknown ==
    /\ Ready /\ ~Known(Callee, names)
    /\ Suspends("FunctionNotFound", Top.func, None)
    /\ Kept

CallBuiltin ==
    /\ Ready /\ Known(Callee, names) /\ IsBuiltin(functions[names[Callee]])
    /\ LET r == Builtin(functions[names[Callee]].builtin, Arguments, files)
       IN  /\ files' = r.files
           /\ IF IsFailed(r.val) THEN Suspends("Custom", "builtin-error", None) ELSE Goes(Rest, r.val)
    /\ UNCHANGED <<registry, globals, history>>

\* Seeded bug: the body sees the caller's locals instead of those it was defined with.
CallLambdaBug ==
    /\ Ready /\ Known(Callee, names) /\ ~IsBuiltin(functions[names[Callee]])
    /\ LET f == functions[names[Callee]]
       IN  IF Len(Arguments) # Len(f.params)
           THEN Suspends("WrongArgumentCount", Top.func, None)
           ELSE Goes(Append(Rest, EvalFrame(f.body, bindAll(Top.env, f.params, Arguments))), None)
    /\ Kept

CallLambda ==
    /\ Ready /\ Known(Callee, names) /\ ~IsBuiltin(functions[names[Callee]])
    /\ LET f == functions[names[Callee]]
       IN  IF Len(Arguments) # Len(f.params)
           THEN Suspends("WrongArgumentCount", Top.func, None)
           ELSE Goes(Append(Rest, EvalFrame(f.body, bindAll(f.env, f.params, Arguments))), None)
    /\ Kept

(***************************************************************************)
(* step_special_form.  Every form checks its arguments first.              *)
(***************************************************************************)
Least == "quote" :> 1 @@ "if" :> 3 @@ "let" :> 2 @@ "begin" :> 1 @@ "->" :> 1 @@ "->>" :> 1
      @@ "map" :> 2 @@ "filter" :> 2 @@ "reduce" :> 3 @@ "lambda" :> 2 @@ "defun" :> 3

WrongCount(form, n) == IF form \in {"let", "begin", "->", "->>"} THEN n < Least[form] ELSE n # Least[form]

IsParameters(e) == IsList(e) /\ \A i \in DOMAIN e.items : IsAtom(e.items[i])

\* What is wrong with a form before it evaluates anything: a condition, or <<>>.
Objection(form, args) ==
    CASE WrongCount(form, Len(args)) -> <<"WrongArgumentCount", A(form)>>
      [] form = "let" /\ IsAtom(args[1]) -> <<"Custom", "invalid-let-bindings">>
      [] form = "let" /\ args[1] # Nil /\ ~IsPair(Head(args[1].items)) -> <<"Custom", "invalid-binding">>
      [] form \in {"map", "filter", "reduce"} /\ IsList(args[1]) -> <<"Custom", "invalid-function">>
      [] form = "lambda" /\ ~IsParameters(args[1]) -> <<"TypeError", "parameters">>
      [] form = "defun" /\ IsList(args[1]) -> <<"TypeError", "name">>
      [] form = "defun" /\ ~IsParameters(args[2]) -> <<"TypeError", "parameters">>
      [] OTHER -> <<>>

Enters(form) == Runs(form) /\ Top.index = Waiting /\ Objection(form, Top.args) = <<>>
Resumes(form) == Runs(form) /\ Top.index >= 0

RefuseForm ==
    /\ status = "running" /\ frames # <<>> /\ Top.op \in Forms /\ Top.index = Waiting
    /\ Objection(Top.op, Top.args) # <<>>
    /\ Suspends(Objection(Top.op, Top.args)[1], Objection(Top.op, Top.args)[2], result)
    /\ Kept

\* The form goes back below the evaluation of e, to take its value at index i.
Evaluates(e, i, env, r) ==
    /\ Goes(Rest \o <<FormFrame(Top.op, Top.args, i, env), EvalFrame(e, env)>>, r)
    /\ Kept

\* The value a resumed form takes; None counts as the empty list.
Taken == IF result = None THEN Nil ELSE result

Quoting == Enters("quote") /\ Goes(Rest, Top.args[1]) /\ Kept

Begin ==
    \/ Enters("begin") /\ Evaluates(Top.args[1], 0, Top.env, result)
    \/ /\ Resumes("begin") /\ Top.index + 1 < Len(Top.args)
       /\ Evaluates(Top.args[Top.index + 2], Top.index + 1, Top.env, result)
    \/ /\ Resumes("begin") /\ Top.index + 1 >= Len(Top.args)
       /\ Goes(Rest, result)
       /\ Kept

If ==
    \/ Enters("if") /\ Evaluates(Top.args[1], 0, Top.env, result)
    \/ /\ Resumes("if")
       /\ Goes(Append(Rest, EvalFrame(Top.args[IF IsTruthy(Taken) THEN 2 ELSE 3], Top.env)), None)
       /\ Kept

(***************************************************************************)
(* let: bindings one after the other, each in the scope of those before,   *)
(* then the body, as a begin if it has several expressions.                *)
(***************************************************************************)
Bindings == Top.args[1].items

\* The binding whose value has arrived, if it is one: the first has number 1.
Current == Top.index + 1
Arrived == Current <= Len(Bindings) /\ result # None

Scope == IF Arrived THEN bind(Top.env, Bindings[Current].items[1], result) ELSE Top.env
Left  == IF Current <= Len(Bindings) THEN None ELSE result

LetStart ==
    \/ Enters("let") /\ Top.args[1] # Nil /\ Evaluates(Bindings[1].items[2], 0, Top.env, result)
    \/ /\ Enters("let") /\ Top.args[1] = Nil
       /\ Goes(Append(Rest, FormFrame("let", Top.args, 0, Top.env)), result)
       /\ Kept

BadName == Arrived /\ IsList(Bindings[Current].items[1])

LetBadName ==
    /\ Resumes("let") /\ BadName
    /\ Suspends("Custom", "invalid-binding-name", None)
    /\ Kept

\* The binding after the current one, which a list of two makes a binding; an
\* atom in its place ends the form without a word.
LetNext ==
    /\ Resumes("let") /\ ~BadName /\ Current < Len(Bindings)
    /\ LET b == Bindings[Current + 1]
       IN  CASE IsPair(b)                -> Evaluates(b.items[2], Top.index + 1, Scope, None)
             [] IsList(b) /\ ~IsPair(b)  -> Suspends("Custom", "invalid-binding", None) /\ Kept
             [] OTHER                    -> Goes(Rest, None) /\ Kept

LetBody ==
    /\ Resumes("let") /\ ~BadName /\ Current >= Len(Bindings)
    /\ LET body == Tail(Top.args)
           begin == IF Len(body) = 1 THEN <<>> ELSE <<FormFrame("begin", body, 0, Scope)>>
       IN  Goes(Rest \o begin \o <<EvalFrame(body[1], Scope)>>, Left)
    /\ Kept

(***************************************************************************)
(* -> and ->>: the value so far, quoted, becomes an argument of the form.  *)
(***************************************************************************)
thread_into(form, value, first_) ==
    CASE IsAtom(form) -> L(<<form, Quote(value)>>)
      [] form = Nil   -> form
      [] OTHER        -> IF first_ THEN L(<<Head(form.items), Quote(value)>> \o Tail(form.items))
                                   ELSE L(Append(form.items, Quote(value)))

Thread(arrow) ==
    \/ Enters(arrow) /\ Evaluates(Top.args[1], 0, Top.env, result)
    \/ /\ Resumes(arrow) /\ Top.index + 1 < Len(Top.args)
       /\ Evaluates(thread_into(Top.args[Top.index + 2], Taken, arrow = "->"), Top.index + 1, Top.env, None)
    \/ /\ Resumes(arrow) /\ Top.index + 1 >= Len(Top.args)
       /\ Goes(Rest, Taken)
       /\ Kept

(***************************************************************************)
(* map, filter, reduce.  map becomes a call of list; the other two call a  *)
(* built-in function at once and know no others.                           *)
(***************************************************************************)
Applications(f, items) == [i \in DOMAIN items |-> L(<<f, Quote(items[i])>>)]

\* Seeded bug: an empty list is waited for again.
MapBug ==
    \/ Enters("map") /\ Evaluates(Top.args[2], 0, Top.env, result)
    \/ /\ Resumes("map") /\ IsList(Taken)
       /\ IF Taken = Nil THEN Evaluates(Top.args[2], 0, Top.env, None)
          ELSE Goes(Append(Rest, EvalFrame(L(<<A("list")>> \o Applications(Top.args[1], Taken.items)), Top.env)), None) /\ Kept

Map ==
    \/ Enters("map") /\ Evaluates(Top.args[2], 0, Top.env, result)
    \/ /\ Resumes("map") /\ IsList(Taken)
       /\ IF Taken = Nil THEN Goes(Rest, Nil)
          ELSE Goes(Append(Rest, EvalFrame(L(<<A("list")>> \o Applications(Top.args[1], Taken.items)), Top.env)), None)
       /\ Kept

NotAList ==
    /\ status = "running" /\ frames # <<>>
    /\ \/ Top.op \in {"map", "filter"} /\ Top.index = 0
       \/ Top.op = "reduce" /\ Top.index = 1
    /\ IsAtom(Taken)
    /\ Suspends("TypeError", Taken, None)
    /\ Kept

\* A fold of a built-in over items; it stops at the first error.
Eagerly(b, items, start, args(_, _), step(_, _, _)) ==
    FoldLeft(LAMBDA s, x : IF s.failed THEN s
                           ELSE LET r == Builtin(b, args(s.acc, x), s.files)
                                IN  IF IsFailed(r.val) THEN [s EXCEPT !.failed = TRUE, !.files = r.files]
                                    ELSE [failed |-> FALSE, acc |-> step(s.acc, x, r.val), files |-> r.files],
             [failed |-> FALSE, acc |-> start, files |-> files], items)

\* The form ends with s.acc, or with the error.
Concludes(s, error) ==
    /\ files' = s.files
    /\ IF s.failed THEN Suspends("Custom", error, None) ELSE Goes(Rest, s.acc)
    /\ UNCHANGED <<registry, globals, history>>

Folds(f) == Known(f, names) /\ IsBuiltin(functions[names[f]])

Filter ==
    \/ Enters("filter") /\ Evaluates(Top.args[2], 0, Top.env, result)
    \/ /\ Resumes("filter") /\ IsList(Taken) /\ (Taken # Nil => Folds(Top.args[1]))
       /\ IF Taken = Nil THEN Goes(Rest, Nil) /\ Kept
          ELSE Concludes(Eagerly(functions[names[Top.args[1]]].builtin, Taken.items, Nil,
                                 LAMBDA acc, x : <<x>>,
                                 LAMBDA acc, x, v : IF IsTruthy(v) THEN L(Append(acc.items, x)) ELSE acc),
                         "filter-error")

\* Where reduce keeps its start value while it evaluates the list.
Acc == A("__reduce_acc__")

Reduce ==
    \/ Enters("reduce") /\ Evaluates(Top.args[2], 0, Top.env, result)
    \/ Resumes("reduce") /\ Top.index = 0 /\ Evaluates(Top.args[3], 1, bind(Top.env, Acc, Taken), None)
    \/ /\ Resumes("reduce") /\ Top.index = 1 /\ IsList(Taken) /\ (Taken # Nil => Folds(Top.args[1]))
       /\ IF Taken = Nil THEN Goes(Rest, Top.env[Acc]) /\ Kept
          ELSE Concludes(Eagerly(functions[names[Top.args[1]]].builtin, Taken.items, Top.env[Acc],
                                 LAMBDA acc, x : <<acc, x>>,
                                 LAMBDA acc, x, v : v),
                         "reduce-error")

NotABuiltin ==
    /\ status = "running" /\ frames # <<>>
    /\ \/ Top.op = "filter" /\ Top.index = 0
       \/ Top.op = "reduce" /\ Top.index = 1
    /\ IsList(Taken) /\ Taken # Nil /\ ~Folds(Top.args[1])
    /\ Suspends("FunctionNotFound", Top.args[1], None)
    /\ Kept

(***************************************************************************)
(* lambda and defun.                                                       *)
(***************************************************************************)
Defines(name, id, f, n) ==
    /\ functions' = (id :> f) @@ functions
    /\ names' = (name :> id) @@ names
    /\ next' = n
    /\ Goes(Rest, name)
    /\ UNCHANGED <<globals, files, history>>

MakeLambda ==
    /\ Enters("lambda")
    /\ Defines(LambdaName(next), next, Lambda(Top.args[1].items, Top.args[2], Top.env), next + 1)

\* Redefinition keeps the id, so that whoever holds it runs the new body.
Defun ==
    /\ Enters("defun")
    /\ LET f == Top.args[1]
           body == Lambda(Top.args[2].items, Top.args[3], Top.env)
       IN  IF Known(f, names) THEN Defines(f, names[f], body, next) ELSE Defines(f, next, body, next + 1)

(***************************************************************************)
(* The machine as its host drives it: load, run, restarts.                 *)
(***************************************************************************)
Step == \/ EvalAtom \/ EvalNil \/ EvalListHead \/ EvalForm \/ EvalCall
        \/ CallNextArgument \/ CallUnknown \/ CallBuiltin \/ CallLambda
        \/ RefuseForm \/ Quoting \/ Begin \/ If
        \/ LetStart \/ LetBadName \/ LetNext \/ LetBody
        \/ Thread("->") \/ Thread("->>")
        \/ Map \/ NotAList \/ Filter \/ Reduce \/ NotABuiltin
        \/ MakeLambda \/ Defun

Finish ==
    /\ status = "running" /\ frames = <<>>
    /\ status' = "finished"
    /\ outcome' = Taken
    /\ result' = None
    /\ UNCHANGED <<frames, registry, globals, files, history>>

\* load drops whatever an evaluation before it has left.
Load ==
    /\ script # <<>> /\ status # "running"
    /\ frames' = <<EvalFrame(Head(script), NoBindings)>>
    /\ result' = None
    /\ status' = "running" /\ outcome' = None
    /\ script' = Tail(script)
    /\ began' = [program |-> Head(script), functions |-> functions, names |-> names, next |-> next,
                 globals |-> globals, files |-> files]
    /\ answers' = <<>> /\ retried' = FALSE
    /\ UNCHANGED <<registry, globals, files>>

\* Restart::Abort of a suspended evaluation, reset of a finished one.
Abort ==
    /\ status \in {"suspended", "finished"}
    /\ frames' = <<>> /\ result' = None
    /\ status' = "idle" /\ outcome' = None
    /\ UNCHANGED <<registry, globals, files, history>>

UseValue(v) ==
    /\ status = "suspended"
    /\ result' = v
    /\ status' = "running" /\ outcome' = None
    /\ answers' = Append(answers, v)
    /\ UNCHANGED <<frames, registry, globals, files, script, began, retried>>

\* Restart::Retry: the frame that failed was popped before it ran.
Retry ==
    /\ status = "suspended"
    /\ status' = "running" /\ outcome' = None
    /\ retried' = TRUE
    /\ UNCHANGED <<frames, result, registry, globals, files, script, began, answers>>

\* The host binds a global between two evaluations.
BindGlobal ==
    /\ status \in {"idle", "finished"}
    /\ \E n \in DOMAIN Globals \ DOMAIN globals : globals' = (n :> Globals[n]) @@ globals
    /\ UNCHANGED <<frames, registry, result, files, status, outcome, history>>

Init ==
    /\ frames = <<>> /\ result = None
    /\ functions = [i \in 0 .. Len(Registered) - 1 |-> [builtin |-> Registered[i + 1]]]
    /\ names = [n \in {A(Registered[i]) : i \in DOMAIN Registered} |->
                   (CHOOSE i \in DOMAIN Registered : A(Registered[i]) = n) - 1]
    /\ next = Len(Registered)
    /\ globals = NoBindings /\ files = NoBindings
    /\ status = "idle" /\ outcome = None
    /\ script \in Scripts
    /\ began = None /\ answers = <<>> /\ retried = FALSE

Next == \/ Step \/ Finish \/ Load \/ Abort \/ Retry \/ BindGlobal
        \/ \E v \in Answers : UseValue(v)

Spec == Init /\ [][Next]_vars /\ WF_vars(Step \/ Finish)

(***************************************************************************)
(* Properties.                                                             *)
(***************************************************************************)
\* Every evaluation ends, finished or suspended, whatever its restarts: no frame is
\* left that waits for a value nobody computes, no loop over a list goes round again.
RunReturns == (status = "running") ~> (status # "running")
=============================================================================
