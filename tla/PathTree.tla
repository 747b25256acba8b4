------------------------------ MODULE PathTree ------------------------------
(***************************************************************************)
(* What the users of a filesystem rely on when they name things            *)
(* (Filesystem and MutFilesystem, eudaemonty/src/lib.rs): a tree of paths  *)
(* to objects, in which a file may have several paths, a directory one,    *)
(* and a directory that is renamed takes everything below it along.        *)
(* Inodes, "." and "..", symlinks on the way and open files are not seen.  *)
(***************************************************************************)
EXTENDS Sequences, SequencesExt

CONSTANTS
    Paths,      \* sequences of names; <<>> is the root
    Ids         \* the identities of objects

VARIABLE tree   \* path -> object

Kinds == {"dir", "file", "link"}
Objects == [id : Ids, kind : Kinds]

-----------------------------------------------------------------------------
(* Places in a tree t *)

Below(t, p) == {q \in DOMAIN t : IsPrefix(p, q)}

\* A file, a symlink or an empty directory.
IsLeaf(t, p) == Below(t, p) = {p}

\* The paths at which something new may be put.
Vacant(t) ==
    {p \in Paths \ DOMAIN t :
        p # <<>> /\ Front(p) \in DOMAIN t /\ t[Front(p)].kind = "dir"}

\* Where what is at p may move: not below itself, and only onto a leaf.
Goals(t, p) ==
    {q \in Vacant(t) \cup {r \in DOMAIN t \ {<<>>} : IsLeaf(t, r)} : ~IsPrefix(p, q)}

-----------------------------------------------------------------------------
(* The trees that calls make of t *)

Put(t, p, object) == [q \in DOMAIN t \cup {p} |-> IF q = p THEN object ELSE t[q]]

Created(t) ==
    {Put(t, p, object) : p \in Vacant(t),
                         object \in {o \in Objects : \A q \in DOMAIN t : t[q].id # o.id}}

Linked(t) ==
    {Put(t, q, t[p]) : q \in Vacant(t), p \in {r \in DOMAIN t : t[r].kind # "dir"}}

Deleted(t) ==
    {[q \in DOMAIN t \ {p} |-> t[q]] : p \in {r \in DOMAIN t \ {<<>>} : IsLeaf(t, r)}}

\* What is at or below p goes to q, and what was at q is gone.
Move(t, p, q) ==
    LET arrives(r) == q \o SubSeq(r, Len(p) + 1, Len(r))
        stays == DOMAIN t \ (Below(t, p) \cup {q})
    IN  [r \in stays \cup {arrives(s) : s \in Below(t, p)} |->
            IF r \in stays THEN t[r] ELSE t[p \o SubSeq(r, Len(q) + 1, Len(r))]]
Moved(t) == UNION {{Move(t, p, q) : q \in Goals(t, p)} : p \in DOMAIN t \ {<<>>}}

-----------------------------------------------------------------------------
Init == \E id \in Ids : tree = [p \in {<<>>} |-> [id |-> id, kind |-> "dir"]]

\* One file, directory or symlink is created, linked, deleted or moved.
Next == LET t == tree IN tree' \in UNION {Deleted(t), Linked(t), Moved(t), Created(t)}

Spec == Init /\ [][Next]_tree
=============================================================================
