----------------------------- MODULE Conditions -----------------------------
(***************************************************************************)
(* The test builtin (eudaemonsh/src/builtins/test.rs): a recursive-descent *)
(* parser that evaluates while it reads.  args is the sequence of words    *)
(* after the name; fs gives the type, size and mtime of what exists.  The  *)
(* parser is p = [pos, paren_level, bad]; each of its functions returns    *)
(* [p, is], the parser after it and the value.                             *)
(***************************************************************************)
EXTENDS Integers, Sequences, SequencesExt

Unops  == {"-r", "-w", "-x", "-e", "-f", "-d", "-s", "-h", "-L", "-z", "-n"}
Binops == {"=", "==", "!=", "<", ">", "-eq", "-ne", "-gt", "-ge", "-lt", "-le", "-nt", "-ot", "-ef"}
find_op(s) == CASE s \in Unops -> "unop" [] s \in Binops -> "binop" [] s \in {"!", "(", ")", "-a", "-o"} -> s [] OTHER -> "operand"

remaining(args, p) == Len(args) + 1 - p.pos
Peek(args, p, n) == IF p.pos + n <= Len(args) THEN args[p.pos + n] ELSE "none"
advance(args, p) == [p EXCEPT !.pos = IF @ <= Len(args) THEN @ + 1 ELSE @]

CloseNext(args, p) == p.paren_level = 1 /\ Peek(args, p, 1) = ")"
\* Seeded bug: an operator before a binary operator is not taken as an operand.
is_unop_operandBug(args, p) ==
    CASE remaining(args, p) = 1 -> TRUE
      [] remaining(args, p) = 2 -> CloseNext(args, p)
      [] OTHER -> FALSE

is_unop_operand(args, p) ==
    CASE remaining(args, p) = 1 -> TRUE
      [] remaining(args, p) = 2 -> CloseNext(args, p)
      [] OTHER -> find_op(Peek(args, p, 1)) = "binop" /\ (p.paren_level = 0 \/ Peek(args, p, 2) # ")")
is_lparen_operand(args, p) ==
    CASE remaining(args, p) = 1 -> TRUE
      [] remaining(args, p) = 2 -> CloseNext(args, p)
      [] OTHER -> remaining(args, p) = 3 /\ find_op(Peek(args, p, 1)) = "binop"
is_rparen_operand(args, p) == remaining(args, p) = 2 /\ CloseNext(args, p)

t_lex(args, p) ==
    LET op == find_op(args[p.pos])
    IN  IF p.pos > Len(args) THEN "end"
        ELSE IF \/ op \in {"unop", "!"} /\ is_unop_operand(args, p)
                \/ op = "(" /\ is_lparen_operand(args, p)
                \/ op = ")" /\ is_rparen_operand(args, p)
             THEN "operand" ELSE op

\* The words that can be compared, in the order of their bytes, and those that are numbers.
Alphabetical == <<"", "(", ")", "-1", "-n", "0", "1", "=", "a", "b", "d", "g", "h">>
Rank(s) == CHOOSE i \in DOMAIN Alphabetical : Alphabetical[i] = s
Numbers == [x \in {"-1", "0", "1"} |-> Rank(x)]
int_cmp(a, b, Holds(_, _)) == a \in DOMAIN Numbers /\ b \in DOMAIN Numbers /\ Holds(Numbers[a], Numbers[b])

Exists(fs, s) == s \in DOMAIN fs
\* -L looks at what stat finds, which is never a symlink.
OneOperand(fs, op, s) ==
    CASE op = "-z" -> s = ""
      [] op = "-n" -> s # ""
      [] op \in {"-e", "-r", "-w", "-x"} -> Exists(fs, s)
      [] op = "-f" -> Exists(fs, s) /\ fs[s].type = "file"
      [] op = "-d" -> Exists(fs, s) /\ fs[s].type = "dir"
      [] op = "-s" -> Exists(fs, s) /\ fs[s].size > 0
      [] op \in {"-h", "-L"} -> Exists(fs, s) /\ fs[s].type = "symlink"

Eq(m, n) == m = n
Gt(m, n) == m > n
Ge(m, n) == m >= n
TwoOperands(fs, a, op, b) ==
    CASE op \in {"=", "=="} -> a = b
      [] op = "!=" -> a # b
      [] op = "<" -> Rank(a) < Rank(b)
      [] op = ">" -> Rank(a) > Rank(b)
      [] op = "-eq" -> int_cmp(a, b, Eq)
      [] op = "-ne" -> ~int_cmp(a, b, Eq)
      [] op = "-gt" -> int_cmp(a, b, Gt)
      [] op = "-ge" -> int_cmp(a, b, Ge)
      [] op = "-lt" -> int_cmp(b, a, Gt)
      [] op = "-le" -> int_cmp(b, a, Ge)
      [] op = "-nt" -> Exists(fs, a) /\ Exists(fs, b) /\ fs[a].mtime > fs[b].mtime
      [] op = "-ot" -> Exists(fs, a) /\ Exists(fs, b) /\ fs[a].mtime < fs[b].mtime
      [] op = "-ef" -> a = b /\ Exists(fs, a)

ArgumentExpected(p) == [p |-> [p EXCEPT !.bad = TRUE], is |-> FALSE]
Taken(args, p) == [p |-> advance(args, p), is |-> args[p.pos] # ""]

binop(args, fs, p) ==
    LET q == advance(args, advance(args, p))
    IN  IF q.pos > Len(args) THEN ArgumentExpected(q)
        ELSE [p |-> advance(args, q), is |-> TwoOperands(fs, args[p.pos], args[p.pos + 1], args[q.pos])]

\* Both sides of -a and -o are always read, the right one first in the value.
RECURSIVE oexpr(_, _, _), OrElse(_, _, _), aexpr(_, _, _), AndThen(_, _, _), nexpr(_, _, _), primary(_, _, _)
oexpr(args, fs, p) ==
    OrElse(args, fs, aexpr(args, fs, p))
OrElse(args, fs, a) ==
    IF t_lex(args, a.p) = "-o" THEN [oexpr(args, fs, advance(args, a.p)) EXCEPT !.is = @ \/ a.is] ELSE a
aexpr(args, fs, p) ==
    AndThen(args, fs, nexpr(args, fs, p))
AndThen(args, fs, a) ==
    IF t_lex(args, a.p) = "-a" THEN [aexpr(args, fs, advance(args, a.p)) EXCEPT !.is = @ /\ a.is] ELSE a
nexpr(args, fs, p) ==
    IF t_lex(args, p) = "!" THEN [nexpr(args, fs, advance(args, p)) EXCEPT !.is = ~@] ELSE primary(args, fs, p)
primary(args, fs, p) ==
    LET token == t_lex(args, p)
        open  == advance(args, [p EXCEPT !.paren_level = @ + 1])
        inner == oexpr(args, fs, open)
        Close(q) == advance(args, [q EXCEPT !.paren_level = @ - 1, !.bad = @ \/ t_lex(args, q) # ")"])
        value == advance(args, p)
    IN  CASE token = "end" -> [p |-> p, is |-> FALSE]
          [] token = "(" -> IF t_lex(args, open) = ")" THEN [p |-> Close(open), is |-> FALSE] ELSE [inner EXCEPT !.p = Close(@)]
          [] token = "unop" -> IF value.pos > Len(args) THEN ArgumentExpected(value)
                               ELSE [p |-> advance(args, value), is |-> OneOperand(fs, args[p.pos], args[value.pos])]
          [] token = "operand" /\ find_op(Peek(args, p, 1)) = "binop" -> binop(args, fs, p)
          [] OTHER -> Taken(args, p)

\* With four words and a leading !, the other three are negated as a whole.
parse(args, fs) ==
    LET start == [pos |-> 1, paren_level |-> 0, bad |-> FALSE]
        whole == Len(args) = 4 /\ args[1] = "!"
    IN  [oexpr(args, fs, IF whole THEN advance(args, start) ELSE start) EXCEPT !.is = IF whole THEN @ ELSE ~@]

Verdict(args, r) == IF r.p.pos <= Len(args) \/ r.p.bad THEN 2 ELSE IF r.is THEN 1 ELSE 0
test(bracket, fs, words) ==
    LET args == IF bracket THEN Front(words) ELSE words
    IN  IF bracket /\ (words = <<>> \/ Last(words) # "]") THEN 2
        ELSE IF args = <<>> THEN 1 ELSE Verdict(args, parse(args, fs))
=============================================================================
