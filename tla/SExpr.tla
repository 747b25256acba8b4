------------------------------- MODULE SExpr -------------------------------
(***************************************************************************)
(* S-expressions of lispdown (src/lispdown/src/expr.rs).  An expression is *)
(* an atom or a list.  An atom written with quotes is a text: the sequence *)
(* of the pieces it is concatenated from, so that extract_string and       *)
(* string_atom are the two directions of one conversion.                   *)
(***************************************************************************)
EXTENDS Sequences, SequencesExt

A(name)  == [atom  |-> name]
T(parts) == [text  |-> parts]
L(items) == [items |-> items]

Nil  == L(<<>>)
Null == A("null")
Yes  == A("#t")
No   == A("#f")

IsList(e)   == "items" \in DOMAIN e
IsAtom(e)   == ~IsList(e)
IsSymbol(e) == "atom" \in DOMAIN e
IsText(e)   == "text" \in DOMAIN e

Quote(e) == L(<<A("quote"), e>>)
Bool(b)  == IF b THEN Yes ELSE No

\* is_truthy: everything but #f, null and the empty list.
IsTruthy(e) == e \notin {No, Null, Nil}

\* extract_string: a list has no text of its own.
TextOf(e) == CASE IsList(e) -> <<>>
               [] IsText(e) -> e.text
               [] OTHER     -> <<e.atom>>

\* usize::to_string, for the numbers the models count to.
Numeral(n) == A(ToString(n))

(***************************************************************************)
(* Objects (object.rs): (obj ("key" value) ...).                           *)
(***************************************************************************)
IsPair(e) == IsList(e) /\ Len(e.items) = 2
KeyOf(e)  == TextOf(e.items[1])
HasKey(e, key) == IsPair(e) /\ IsAtom(e.items[1]) /\ KeyOf(e) = key

Column(pairs, i) == [k \in 1 .. Len(pairs) |-> pairs[k].items[i]]

Tagged(e, tag) == IsList(e) /\ e # Nil /\ e.items[1] = A(tag)

\* get looks into any list with an unquoted tag, the others only into (obj ...).
ObjGet(e, key) ==
    LET found == IF IsList(e) /\ e # Nil /\ IsSymbol(e.items[1])
                 THEN SelectSeq(Tail(e.items), LAMBDA p : HasKey(p, key))
                 ELSE <<>>
    IN  IF found = <<>> THEN Null ELSE found[1].items[2]

ObjAssoc(e, key, value) ==
    LET pair  == L(<<T(key), value>>)
        Set(p) == IF HasKey(p, key) THEN pair ELSE p
        kept  == [i \in 1 .. Len(Tail(e.items)) |-> Set(Tail(e.items)[i])]
        new   == IF \E i \in DOMAIN kept : HasKey(kept[i], key) THEN <<>> ELSE <<pair>>
    IN  CASE e = Null         -> L(<<A("obj"), pair>>)
          [] Tagged(e, "obj") -> L(<<A("obj")>> \o kept \o new)
          [] OTHER            -> Null

ObjDissoc(e, key) ==
    IF Tagged(e, "obj")
    THEN L(<<A("obj")>> \o SelectSeq(Tail(e.items), LAMBDA p : ~HasKey(p, key)))
    ELSE Null

\* keys and values of an object, or of an array: (arr element ...).
ObjKeys(e) ==
    CASE Tagged(e, "obj") -> L(<<A("arr")>> \o Column(SelectSeq(Tail(e.items), IsPair), 1))
      [] Tagged(e, "arr") -> L(<<A("arr")>> \o [i \in 1 .. Len(e.items) - 1 |-> Numeral(i - 1)])
      [] OTHER            -> Null

ObjValues(e) ==
    CASE Tagged(e, "obj") -> L(<<A("arr")>> \o Column(SelectSeq(Tail(e.items), IsPair), 2))
      [] Tagged(e, "arr") -> e
      [] OTHER            -> Null

\* A later entry of the same key replaces an earlier one and takes the last place.
ObjMerge(objects) ==
    LET Entry(p)   == IsPair(p) /\ IsAtom(p.items[1])
        Entries(e) == IF Tagged(e, "obj") THEN SelectSeq(Tail(e.items), Entry) ELSE <<>>
        Put(m, p)  == Append(SelectSeq(m, LAMBDA q : KeyOf(q) # KeyOf(p)), L(<<T(KeyOf(p)), p.items[2]>>))
    IN  L(<<A("obj")>> \o FoldLeft(Put, <<>>, FlattenSeq([i \in DOMAIN objects |-> Entries(objects[i])])))
=============================================================================
