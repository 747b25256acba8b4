------------------------------- MODULE Sorting -------------------------------
(***************************************************************************)
(* sort of eudaemonsh (eudaemonsh/src/builtins/sort.rs).  o.on holds the   *)
(* letters of the command line, o.keys the texts of -k, which are read as  *)
(* keys [from, char, to, tochar, on].  Numbers have at most two decimals    *)
(* and no exponent, and are compared in hundredths; of the suffixes of -h  *)
(* only k, K and M occur.                                                  *)
(***************************************************************************)
EXTENDS Filters

\* A letter and its character.
CodeOf == [b |-> 98, d |-> 100, f |-> 102, i |-> 105, n |-> 110, g |-> 103, h |-> 104, M |-> 77, r |-> 114, V |-> 86]
Modifiers == DOMAIN CodeOf
parse_modifiers(s) == {letter \in Modifiers : CodeOf[letter] \in ToSet(s)}

(***************************************************************************)
(* A key as it is written: FIELD.CHAR and letters, a comma, and the same   *)
(* for its end.  A key with letters of its own does without those of the   *)
(* command line.                                                           *)
(***************************************************************************)
parse_field_spec(s) ==
    LET n    == Span(s, IsDigit)
        rest == Drop(s, n)
        m    == IF rest # <<>> /\ Head(rest) = 46 THEN Span(Tail(rest), IsDigit) ELSE 0
    IN  [field |-> Nat10(Take(s, n)), char |-> Nat10(SubSeq(rest, 2, m + 1)), on |-> parse_modifiers(rest)]
parse_key_spec(spec, on) ==
    LET comma == Span(spec, LAMBDA c : c # 44)
        start == parse_field_spec(Take(spec, comma))
        end   == parse_field_spec(Drop(spec, comma + 1))
        own   == start.on \cup end.on
    IN  [from |-> start.field, char |-> IF start.char = 0 THEN 1 ELSE start.char, to |-> end.field, tochar |-> end.char,
         on |-> IF own = {} THEN on \cap Modifiers ELSE own]

(***************************************************************************)
(* The key of a line: its fields from from to to, cut at byte positions.   *)
(***************************************************************************)
Or(words, line) == IF words = <<>> THEN <<line>> ELSE words
split_fields(line, t) == IF t # Unset THEN Split(line, t) ELSE Or(Words(line), line)

MinOf(a, b) == IF a < b THEN a ELSE b
\* The bytes of one field, the fields of one key.
Between(all, from, to) == IF from < MinOf(to, Len(all)) THEN <<Chars(SubSeq(all, from + 1, MinOf(to, Len(all))))>> ELSE <<>>
PiecesOf(fields, key, end) ==
    Flat([k \in 1 .. end - key.from + 1 |->
        LET i == key.from + k - 1
        IN  Between(Bytes(fields[i]), IF i = key.from /\ key.char > 1 THEN key.char - 1 ELSE 0,
                    IF i = end /\ key.tochar > 0 THEN key.tochar ELSE 4 * Len(fields[i]))])
FirstFields(fields, key) == PiecesOf(fields, key, IF key.to = 0 THEN Len(fields) ELSE MinOf(key.to, Len(fields)))
Pieces(line, key, t) == FirstFields(split_fields(line, t), key)

\* A separator only between pieces that are not empty.
extract_key(line, key, t) == JoinWith(Pieces(line, key, t), <<IF t = Unset THEN SP ELSE t>>)

apply_modifiers(key, on) ==
    LET b == IF "b" \in on THEN TrimStart(key) ELSE key
        d == IF "d" \in on THEN Keep(b, LAMBDA c : IsAlpha(c) \/ IsDigit(c) \/ IsSpace(c)) ELSE b
        i == IF "i" \in on THEN Keep(d, LAMBDA c : ~IsControl(c)) ELSE d
    IN  IF "f" \in on THEN Upper(i) ELSE i

(***************************************************************************)
(* Comparing keys.                                                         *)
(***************************************************************************)
parse_f64(t) ==
    LET body  == IF t # <<>> /\ Head(t) \in {DASH, 43} THEN Tail(t) ELSE t
        parts == Split(body, 46)
        value == 100 * Nat10(parts[1]) + (IF Len(parts) = 2 THEN Nat10(Take(parts[2] \o <<48, 48>>, 2)) ELSE 0)
    IN  IF Len(parts) > 2 \/ Flat(parts) = <<>> \/ \E c \in ToSet(Flat(parts)) : ~IsDigit(c) THEN 0
        ELSE IF Head(t) = DASH THEN -value ELSE value

parse_numeric(key) == parse_f64(Trim(key))
parse_human_numeric(key) ==
    LET t == Trim(key)
        n == Span(t, LAMBDA c : ~IsAlpha(c))
        suffix == Drop(t, n)
    IN  parse_f64(Take(t, n)) * (IF suffix = <<>> THEN 1 ELSE IF Head(suffix) \in {75, 107} THEN 1024 ELSE IF Head(suffix) = 77 THEN 1024 * 1024 ELSE 1)

Months == <<74, 65, 78, 70, 69, 66, 77, 65, 82, 65, 80, 82, 77, 65, 89, 74, 85, 78, 74, 85, 76, 65, 85, 71, 83, 69, 80, 79, 67, 84, 78, 79, 86, 68, 69, 67>>
MonthName(t) == Chars(Take(Bytes(Upper(Trim(t))), 3))
parse_month(t) == SelectInSeq([m \in 1 .. 12 |-> SubSeq(Months, 3 * m - 2, 3 * m)], LAMBDA name : name = MonthName(t))

\* Numbers within the text by value, the one with more leading zeros first.
RECURSIVE compare_version(_, _)
compare_version(a, b) ==
    LET m == Span(a, IsDigit)
        n == Span(b, IsDigit)
        byValue == Sign(Nat10(Take(a, m)) - Nat10(Take(b, n)))
    IN  IF m > 0 /\ n > 0
        THEN IF byValue # 0 THEN byValue ELSE IF m # n THEN Sign(n - m) ELSE compare_version(Drop(a, m), Drop(b, n))
        ELSE IF a = <<>> \/ b = <<>> THEN Sign(Len(a) - Len(b))
        ELSE IF Head(a) # Head(b) THEN Sign(Head(a) - Head(b)) ELSE compare_version(Tail(a), Tail(b))

\* What a key counts for, under the letters that make a number of it.
Weight(key, on) ==
    IF on \cap {"n", "g"} # {} THEN parse_numeric(key) ELSE IF "h" \in on THEN parse_human_numeric(key) ELSE parse_month(key)
Difference(weights) == Sign(weights[1] - weights[2])
compare_keys(a, b, on) ==
    IF on \cap {"n", "g", "h", "M"} # {} THEN Difference([i \in 1 .. 2 |-> Weight(<<a, b>>[i], on)])
    ELSE IF "V" \in on THEN compare_version(a, b) ELSE Cmp(a, b)

Turned(order, on) == IF "r" \in on THEN -order ELSE order
OrderBy(a, b, on) == Turned(compare_keys(apply_modifiers(a, on), apply_modifiers(b, on), on), on)

\* Without keys the line is the only one.
KeyOf(o, k, line) == IF o.keys = <<>> THEN line ELSE extract_key(line, o.keys[k], o.t)
FirstDecisive(orders, last) == LET k == SelectInSeq(orders, LAMBDA n : n # 0) IN IF k = 0 THEN last ELSE orders[k]
\* Seeded bug: between equal keys the whole line decides for -u, too.
compare_lines_implBug(o, a, b, keysOnly) ==
    LET whole == o.keys = <<>>
        ByKey(k) == OrderBy(KeyOf(o, k, a), KeyOf(o, k, b), IF whole THEN o.on \cap Modifiers ELSE o.keys[k].on)
        last  == IF whole \/ "s" \in o.on THEN 0 ELSE Cmp(a, b)
    IN  FirstDecisive([k \in 1 .. (IF whole THEN 1 ELSE Len(o.keys)) |-> ByKey(k)], last)

compare_lines_impl(o, a, b, keysOnly) ==
    LET whole == o.keys = <<>>
        ByKey(k) == OrderBy(KeyOf(o, k, a), KeyOf(o, k, b), IF whole THEN o.on \cap Modifiers ELSE o.keys[k].on)
        last  == IF whole \/ "s" \in o.on \/ keysOnly THEN 0 ELSE Cmp(a, b)
    IN  FirstDecisive([k \in 1 .. (IF whole THEN 1 ELSE Len(o.keys)) |-> ByKey(k)], last)

(***************************************************************************)
(* Sorting and checking.                                                   *)
(***************************************************************************)
Terminator(o) == IF "z" \in o.on THEN NUL ELSE NL

\* A stable sort, then the first of the lines with equal keys.
Insert(o, sorted, line) ==
    InsertAt(sorted, Span(sorted, LAMBDA l : compare_lines_impl(o, l, line, FALSE) <= 0) + 1, line)
Distinct(o, sorted) ==
    LET Dedup(a, line) == IF a # <<>> /\ compare_lines_impl(o, Last(a), line, TRUE) = 0 THEN a ELSE Append(a, line)
    IN  IF "u" \in o.on THEN FoldLeft(Dedup, <<>>, sorted) ELSE sorted
sort_lines(o, ls) == Distinct(o, FoldLeft(LAMBDA a, line : Insert(o, a, line), <<>>, ls))

\* -c looks at the lines that are not empty.
check_sorted(o, ls) ==
    LET full == Keep(ls, LAMBDA l : l # <<>>)
    IN  \A i \in 1 .. Len(full) - 1 : compare_lines_impl(o, full[i], full[i + 1], FALSE) <= (IF "u" \in o.on THEN -1 ELSE 0)

\* A missing file has only its message.
read_input(w, o, ops) ==
    LET end == Terminator(o)
        Of(u, name) == IF name = Stdin THEN Flat(Each(ReadLines(u.in), LAMBDA l : Append(l, end)))
                       ELSE IF ~Has(u, name) THEN <<>>
                       ELSE u.files[name] \o (IF "z" \notin o.on /\ (u.files[name] = <<>> \/ Last(u.files[name]) # NL) THEN <<NL>> ELSE <<>>)
    IN  FoldLeft(LAMBDA u, name : Drain(Remember(u, u.mem \o Of(u, name)), name), Remember(w, <<>>), Operands(ops))

\* A first key, or the name of a month in it, that is cut inside a character ends the process.
CutInside(o, ls) ==
    LET on == IF o.keys = <<>> THEN o.on ELSE o.keys[1].on
    IN  /\ Len(ls) > 1
        /\ \E l \in ToSet(ls) : \/ o.keys # <<>> /\ Invalid \in ToSet(Pieces(l, o.keys[1], o.t))
                                \/ "M" \in on /\ on \cap {"n", "g", "h"} = {} /\ MonthName(apply_modifiers(KeyOf(o, 1, l), on)) = Invalid

SortLines(w, o, ls) ==
    IF CutInside(o, ls) THEN Fail(w, Panicked)
    ELSE IF o.on \cap {"c", "C"} # {} THEN Fail(w, IF check_sorted(o, ls) THEN 0 ELSE 1)
    ELSE Written(w, o.o, Flat(Each(sort_lines(o, ls), LAMBDA l : Append(l, Terminator(o)))))
SortWhatWasRead(w, o) == SortLines(w, o, Ended(Split(w.mem, Terminator(o)), Terminator(o)))
\* A key from field 0 is an error.
sort(w, o, ops) ==
    LET keys == Each(o.keys, LAMBDA spec : parse_key_spec(spec, o.on))
    IN  IF \E k \in DOMAIN keys : keys[k].from = 0 THEN Fail(w, 2) ELSE SortWhatWasRead(read_input(w, o, ops), [o EXCEPT !.keys = keys])
=============================================================================
