----------------------------- MODULE LispEval -----------------------------
(***************************************************************************)
(* The language of the lispdown virtual machine by recursion on the        *)
(* expression, and the claim that LispVm, which has no recursion, computes *)
(* the same: value, functions defined, files written, and, where the       *)
(* evaluation cannot go on, the condition.                                 *)
(*                                                                         *)
(* The evaluator threads a state s: the registry, the files, the answers   *)
(* not yet used (a condition takes the next one as the value of the        *)
(* expression that raised it), and the condition it is stuck at, if any.   *)
(***************************************************************************)
EXTENDS LispVm

Yields(v, s) == [val |-> v, st |-> s]
Stuck(s) == s.stuck # <<>>

Raise(kind, what, s) ==
    IF s.answers = <<>> THEN Yields(Nil, [s EXCEPT !.stuck = <<kind, what>>])
                        ELSE Yields(Head(s.answers), [s EXCEPT !.answers = Tail(@)])

RECURSIVE Value(_, _, _)

\* The values of a sequence of expressions, from left to right.
Values(es, env, s) ==
    FoldLeft(LAMBDA r, e : IF Stuck(r.st) THEN r
                           ELSE LET one == Value(e, env, r.st) IN Yields(Append(r.val, one.val), one.st),
             Yields(<<>>, s), es)

\* The value of the last of a sequence of expressions.
LastValue(es, env, s) == LET vs == Values(es, env, s) IN Yields(IF Stuck(vs.st) THEN Nil ELSE Last(vs.val), vs.st)

\* A function applied to values.
Call(f, args, env, s) ==
    LET g == Resolve(f, env)
        fn == s.functions[s.names[g]]
    IN  IF ~Known(g, s.names) THEN Raise("FunctionNotFound", f, s)
        ELSE IF IsBuiltin(fn)
        THEN LET r == Builtin(fn.builtin, args, s.files)
                 t == [s EXCEPT !.files = r.files]
             IN  IF IsFailed(r.val) THEN Raise("Custom", "builtin-error", t) ELSE Yields(r.val, t)
        ELSE IF Len(args) # Len(fn.params) THEN Raise("WrongArgumentCount", f, s)
        ELSE Value(fn.body, bindAll(fn.env, fn.params, args), s)

\* One call of f per item, each on the item alone.
Mapped(f, items, env, s) ==
    LET vs == FoldLeft(LAMBDA r, x : IF Stuck(r.st) THEN r
                                     ELSE LET one == Call(f, <<x>>, env, r.st) IN Yields(Append(r.val, one.val), one.st),
                       Yields(<<>>, s), items)
    IN  Yields(L(vs.val), vs.st)

\* A built-in over items, from the value start: how says what it is called with and
\* what its value makes of the one before.  Its error is the form's.
Folded(b, items, start, s, error, args(_, _), step(_, _, _)) ==
    LET r == FoldLeft(LAMBDA q, x : IF q.failed THEN q
                                    ELSE LET v == Builtin(b, args(q.acc, x), q.files)
                                         IN  [failed |-> IsFailed(v.val), files |-> v.files,
                                              acc |-> IF IsFailed(v.val) THEN q.acc ELSE step(q.acc, x, v.val)],
                      [failed |-> FALSE, acc |-> start, files |-> s.files], items)
        t == [s EXCEPT !.files = r.files]
    IN  IF r.failed THEN Raise("Custom", error, t) ELSE Yields(r.acc, t)

\* A form over the list v: it must be one, and an empty one needs no function.
OverList(v, f, empty, s, nonempty) ==
    CASE Stuck(s)  -> Yields(Nil, s)
      [] IsAtom(v) -> Raise("TypeError", v, s)
      [] v = Nil   -> Yields(empty, s)
      [] OTHER     -> nonempty

KnownBuiltin(f, s, folded) ==
    IF Known(f, s.names) /\ IsBuiltin(s.functions[s.names[f]]) THEN folded ELSE Raise("FunctionNotFound", f, s)

\* let: every binding in the scope of those before it.
Scoped(bindings, env, s) ==
    FoldLeft(LAMBDA r, b :
                 IF r.ended THEN r
                 ELSE IF ~IsPair(b) THEN Raise("Custom", "invalid-binding", r.st) @@ [ended |-> TRUE, scope |-> env]
                 ELSE LET v   == Value(b.items[2], r.scope, r.st)
                          bad == Raise("Custom", "invalid-binding-name", v.st)
                      IN  IF Stuck(v.st) THEN v @@ [ended |-> TRUE, scope |-> env]
                          ELSE IF IsList(b.items[1]) THEN bad @@ [ended |-> TRUE, scope |-> env]
                          ELSE [ended |-> FALSE, val |-> Nil, st |-> v.st, scope |-> bind(r.scope, b.items[1], v.val)],
             [ended |-> FALSE, val |-> Nil, st |-> s, scope |-> env], bindings)

\* Each form is applied to the value of those before it.
Threaded(forms, first_, env, v) ==
    FoldLeft(LAMBDA r, f : IF Stuck(r.st) THEN r ELSE Value(thread_into(f, r.val, first_), env, r.st), v, forms)

Define(name, f, s) ==
    LET id == IF Known(name, s.names) THEN s.names[name] ELSE s.next
    IN  Yields(name, [s EXCEPT !.functions = (id :> f) @@ @, !.names = (name :> id) @@ @,
                               !.next = IF id = @ THEN @ + 1 ELSE @])

FormValue(form, args, env, s) ==
    CASE Objection(form, args) # <<>> -> Raise(Objection(form, args)[1], Objection(form, args)[2], s)
      [] form = "quote"  -> Yields(args[1], s)
      [] form = "lambda" -> Define(LambdaName(s.next), Lambda(args[1].items, args[2], env), s)
      [] form = "defun"  -> Define(args[1], Lambda(args[2].items, args[3], env), s)
      [] form = "begin"  -> LastValue(args, env, s)
      [] form \in {"->", "->>"} -> Threaded(Tail(args), form = "->", env, Value(args[1], env, s))
      [] form = "if"     -> LET c == Value(args[1], env, s)
                            IN  IF Stuck(c.st) THEN c ELSE Value(args[IF IsTruthy(c.val) THEN 2 ELSE 3], env, c.st)
      [] form = "let"    -> LET r == Scoped(args[1].items, env, s)
                            IN  IF r.ended THEN Yields(r.val, r.st) ELSE LastValue(Tail(args), r.scope, r.st)
      [] form = "map"    -> LET l == Value(args[2], env, s)
                            IN  OverList(l.val, args[1], Nil, l.st, Mapped(args[1], l.val.items, env, l.st))
      [] form = "filter" -> LET l == Value(args[2], env, s)
                                b == l.st.functions[l.st.names[args[1]]].builtin
                                Keep(kept, x, v) == IF IsTruthy(v) THEN L(Append(kept.items, x)) ELSE kept
                            IN  OverList(l.val, args[1], Nil, l.st, KnownBuiltin(args[1], l.st,
                                    Folded(b, l.val.items, Nil, l.st, "filter-error", LAMBDA kept, x : <<x>>, Keep)))
      [] form = "reduce" -> LET vs == Values(<<args[2], args[3]>>, env, s)
                                b  == vs.st.functions[vs.st.names[args[1]]].builtin
                            IN  IF Stuck(vs.st) THEN vs
                                ELSE OverList(vs.val[2], args[1], vs.val[1], vs.st, KnownBuiltin(args[1], vs.st,
                                    Folded(b, vs.val[2].items, vs.val[1], vs.st, "reduce-error",
                                           LAMBDA acc, x : <<acc, x>>, LAMBDA acc, x, v : v)))

Value(e, env, s) ==
    CASE Stuck(s)  -> Yields(Nil, s)
      [] IsAtom(e) -> Yields(ValueOf(e, env, began.globals), s)
      [] e = Nil   -> Yields(Nil, s)
      [] IsList(Head(e.items)) -> Raise("Custom", "invalid-function-name", s)
      [] IsForm(Head(e.items)) -> FormValue(Head(e.items).atom, Tail(e.items), env, s)
      [] OTHER -> LET vs == Values(Tail(e.items), env, s)
                  IN  IF Stuck(vs.st) THEN Yields(Nil, vs.st) ELSE Call(Head(e.items), vs.val, env, vs.st)

\* What the program loaded last comes to, given the answers so far.
Meaning == Value(began.program, NoBindings,
                 [functions |-> began.functions, names |-> began.names, next |-> began.next,
                  files |-> began.files, answers |-> answers, stuck |-> <<>>])

Agrees ==
    LET m == Meaning
        SameEffects == /\ m.st.files = files /\ m.st.names = names
                       /\ m.st.functions = functions /\ m.st.next = next
                       /\ m.st.answers = <<>>
    IN  /\ status = "finished"  => m.st.stuck = <<>> /\ m.val = outcome /\ SameEffects
        /\ status = "suspended" => m.st.stuck = outcome /\ SameEffects

(***************************************************************************)
(* The machine, step by step with restarts in between, gives the value and *)
(* leaves the functions and files the evaluator gives and leaves; where it *)
(* is suspended the evaluator is stuck, at the same condition, with the    *)
(* same effects before it.  No argument is evaluated twice or left out, no *)
(* effect is repeated by a restart, and nothing is left of an evaluation   *)
(* that was abandoned.  (Of evaluations without Retry.)                    *)
(***************************************************************************)
MachineAgrees == [][status # "running" /\ ~retried => Agrees]_vars
=============================================================================
