------------------------------ MODULE Namespace ------------------------------
(***************************************************************************)
(* The names of eudaemonfs (eudaemonfs/src/lib.rs): directories with their *)
(* "." and ".." entries, hard links and link counts, symlinks, and what    *)
(* open descriptors keep alive.  A call is one step that succeeds; calls   *)
(* that are turned away before they change anything are left out, and      *)
(* device writes, NoSpace and crashes are the matter of Lfs.               *)
(*                                                                         *)
(* The module implements PathTree, see the end.                            *)
(***************************************************************************)
EXTENDS Integers, Sequences, FiniteSets

CONSTANTS
    Names,          \* names of files, other than "." and ".."
    UserPaths,      \* the paths calls are made with, sequences of components
    Targets,        \* the targets of symlinks, the same
    Fds,            \* descriptors
    MaxHops,        \* MAX_SYMLINK_HOPS (40)
    MaxInodes,      \* bound of the model: inodes ever made
    UsesDots,       \* whether rmdir and rename are given "." or ".." to remove
    ReplacesLinks   \* whether rename replaces a file that has other names

Dots == {".", ".."}
Components == Names \cup Dots

ASSUME NamespaceAssumption ==
    /\ IsFiniteSet(Names) /\ Names \cap Dots = {}
    /\ UserPaths \cup Targets \subseteq Seq(Components)
    /\ MaxHops \in Nat /\ MaxInodes \in Nat \ {0}
    /\ UsesDots \in BOOLEAN /\ ReplacesLinks \in BOOLEAN

VARIABLES
    nodes,      \* the inodes in the inode map
    next,       \* superblock.next_inode
    open,       \* open_files: fd -> inode, NoIno for a free descriptor
    unlinked    \* unlinked_inodes

vars == <<nodes, next, open, unlinked>>

NoIno == 0
Root == 1
Inos == Root .. MaxInodes
Nowhere == [dir |-> NoIno, name |-> "."]    \* a path that cannot be resolved

-----------------------------------------------------------------------------
(* Inodes and entries *)

Node(kind, target) == [kind |-> kind, links |-> 1, entries |-> <<>>, target |-> target]
Is(ino, kind) == ino \in DOMAIN nodes /\ nodes[ino].kind = kind

\* add_dir_entry and update_dir_entry, remove_dir_entry, free_inode_blocks.
AddEntry(ns, dir, name, ino) ==
    [ns EXCEPT ![dir].entries =
        [m \in DOMAIN ns[dir].entries \cup {name} |->
            IF m = name THEN ino ELSE ns[dir].entries[m]]]
RemoveEntry(ns, dir, name) ==
    [ns EXCEPT ![dir].entries =
        [m \in DOMAIN ns[dir].entries \ {name} |-> ns[dir].entries[m]]]
Free(ns, ino) == [i \in DOMAIN ns \ {ino} |-> ns[i]]

IsLeaf(ino) == ino \in DOMAIN nodes /\ nodes[ino].kind # "dir"
IsEmpty(ino) == DOMAIN nodes[ino].entries \subseteq Dots

\* Where the last component of a path is to be looked up.  Symlinks on the way are
\* followed from the root.
Resolve(path) ==
    LET walk[hops \in 0 .. (MaxHops + 1), dir \in Inos, rest \in Seq(Components)] ==
            IF hops > MaxHops \/ ~Is(dir, "dir") THEN Nowhere
            ELSE IF Len(rest) = 1 THEN [dir |-> dir, name |-> Head(rest)]
            ELSE IF Head(rest) \notin DOMAIN nodes[dir].entries THEN Nowhere
            ELSE LET ino == nodes[dir].entries[Head(rest)]
                 IN  IF Is(ino, "link")
                     THEN walk[hops + 1, Root, nodes[ino].target \o Tail(rest)]
                     ELSE walk[hops, ino, Tail(rest)]
    IN  IF path = <<>> THEN [dir |-> Root, name |-> "."] ELSE walk[0, Root, path]

\* lookup_in_dir at a resolved place.
Lookup(at) ==
    IF Is(at.dir, "dir") /\ at.name \in DOMAIN nodes[at.dir].entries
    THEN nodes[at.dir].entries[at.name] ELSE NoIno

\* open_file follows the last component, too.
Follow(path) ==
    LET follow[hops \in 0 .. (MaxHops + 1), p \in Seq(Components)] ==
            LET at == Resolve(p)
            IN  IF hops > MaxHops THEN Nowhere
                ELSE IF Is(Lookup(at), "link")
                THEN follow[hops + 1, nodes[Lookup(at)].target]
                ELSE at
    IN  follow[0, path]

\* Seeded bug: the climb starts at the parent and ends there.
AncestryBug(ino) == {nodes[ino].entries[".."]}

\* The inodes is_ancestor_of meets on its way up by "..", the first included.
IsAbove(i, ino) == Is(ino, "dir") /\ ".." \in DOMAIN nodes[ino].entries /\ nodes[ino].entries[".."] = i
Climbs(up) == \A ino \in up \ {Root} : \A i \in Inos : IsAbove(i, ino) => i \in up
Ancestry(ino) == {i \in Inos : \A up \in SUBSET Inos : ino \in up /\ Climbs(up) => i \in up}

IsOpen(ino) == \E fd \in Fds : open[fd] = ino
Place(at) == Is(at.dir, "dir") /\ at.name \in Components
Vacant(at) == Place(at) /\ Lookup(at) = NoIno
Removable(at) == UsesDots \/ at.name \notin Dots

-----------------------------------------------------------------------------
(* After Lfs::new *)

Init ==
    /\ nodes = [ino \in {Root} |->
                  [Node("dir", <<>>) EXCEPT !.entries = [m \in Dots |-> Root]]]
    /\ next = Root + 1
    /\ open = [fd \in Fds |-> NoIno]
    /\ unlinked = {}

-----------------------------------------------------------------------------
(* Descriptors *)

Opens(ino) == \E fd \in Fds :
                 /\ open[fd] = NoIno
                 /\ open' = [open EXCEPT ![fd] = ino]

OpenExisting(path) ==
    LET ino == Lookup(Follow(path))
    IN  /\ Is(ino, "file")
        /\ Opens(ino)
        /\ UNCHANGED <<nodes, next, unlinked>>

\* The nodes with a new one named in dir.
WithNew(node, at) ==
    AddEntry([i \in DOMAIN nodes \cup {next} |-> IF i = next THEN node ELSE nodes[i]],
             at.dir, at.name, next)

\* open_file creates what is missing, at the end of dangling symlinks, too.
Create(path) ==
    LET at == Follow(path)
    IN  /\ Vacant(at) /\ next \in Inos
        /\ nodes' = WithNew(Node("file", <<>>), at)
        /\ next' = next + 1
        /\ Opens(next)
        /\ UNCHANGED unlinked

\* The last close of an unlinked file frees it.
Close(fd) ==
    LET ino == open[fd]
        frees == ino \in unlinked /\ \A other \in Fds \ {fd} : open[other] # ino
    IN  /\ ino # NoIno
        /\ open' = [open EXCEPT ![fd] = NoIno]
        /\ unlinked' = IF frees THEN unlinked \ {ino} ELSE unlinked
        /\ nodes' = IF frees THEN Free(nodes, ino) ELSE nodes
        /\ UNCHANGED next

-----------------------------------------------------------------------------
(* Names *)

Mkdir(path) ==
    LET at == Resolve(path)
        entries == [m \in Dots |-> IF m = "." THEN next ELSE at.dir]
    IN  /\ Vacant(at) /\ next \in Inos
        /\ nodes' = WithNew([Node("dir", <<>>) EXCEPT !.entries = entries], at)
        /\ next' = next + 1
        /\ UNCHANGED <<open, unlinked>>

Symlink(target, path) ==
    LET at == Resolve(path)
    IN  /\ Vacant(at) /\ next \in Inos
        /\ nodes' = WithNew(Node("link", target), at)
        /\ next' = next + 1
        /\ UNCHANGED <<open, unlinked>>

Link(src, dst) ==
    LET ino == Lookup(Resolve(src))
        at == Resolve(dst)
    IN  /\ IsLeaf(ino)
        /\ Vacant(at)
        /\ nodes' = AddEntry([nodes EXCEPT ![ino].links = @ + 1], at.dir, at.name, ino)
        /\ UNCHANGED <<next, open, unlinked>>

Rmdir(path) ==
    LET at == Resolve(path)
        ino == Lookup(at)
    IN  /\ Removable(at)
        /\ Is(ino, "dir") /\ IsEmpty(ino)
        /\ nodes' = Free(RemoveEntry(nodes, at.dir, at.name), ino)
        /\ UNCHANGED <<next, open, unlinked>>

\* Seeded bug: a file with other names keeps its link count.
RemoveBug(path) ==
    LET at == Resolve(path)
        ino == Lookup(at)
        named == RemoveEntry(nodes, at.dir, at.name)
    IN  /\ IsLeaf(ino)
        /\ nodes' = IF nodes[ino].links = 1 /\ ~IsOpen(ino) THEN Free(named, ino) ELSE named
        /\ unlinked' = IF nodes[ino].links = 1 /\ IsOpen(ino) THEN unlinked \cup {ino} ELSE unlinked
        /\ UNCHANGED <<next, open>>

\* remove: the inode goes with its last name, unless it is open.
Remove(path) ==
    LET at == Resolve(path)
        ino == Lookup(at)
        named == RemoveEntry(nodes, at.dir, at.name)
        last == nodes[ino].links = 1
    IN  /\ IsLeaf(ino)
        /\ nodes' = IF last /\ ~IsOpen(ino) THEN Free(named, ino)
                    ELSE [named EXCEPT ![ino].links = @ - 1]
        /\ unlinked' = IF last /\ IsOpen(ino) THEN unlinked \cup {ino} ELSE unlinked
        /\ UNCHANGED <<next, open>>

\* The nodes after rename has removed what is at its destination.  The link count
\* is not looked at.
Cleared(at) ==
    LET ino == Lookup(at)
        named == RemoveEntry(nodes, at.dir, at.name)
    IN  IF ino = NoIno THEN nodes
        ELSE IF Is(ino, "dir") \/ ~IsOpen(ino) THEN Free(named, ino)
        ELSE named

\* The entry goes from one directory to the other, and ".." with it.  A directory
\* that was freed on the way ends the call with an error, half done.
Moved(ns, ino, from, to) ==
    LET left == RemoveEntry(ns, from.dir, from.name)
        arrived == AddEntry(left, to.dir, to.name, ino)
    IN  IF from.dir \notin DOMAIN ns THEN ns
        ELSE IF to.dir \notin DOMAIN ns THEN left
        ELSE IF Is(ino, "dir") /\ from.dir # to.dir /\ ".." \in DOMAIN nodes[ino].entries
        THEN AddEntry(arrived, ino, "..", to.dir)
        ELSE arrived

\* What rename notes in unlinked_inodes.
Replaced(ino) == {i \in {ino} : IsLeaf(i) /\ IsOpen(i)}

Rename(src, dst) ==
    LET from == Resolve(src)
        to == Resolve(dst)
        ino == Lookup(from)
        old == Lookup(to)
    IN  /\ Place(from) /\ Place(to) /\ from # to
        /\ Removable(from) /\ Removable(to)
        /\ ino \in DOMAIN nodes
        /\ Is(ino, "dir") => Ancestry(to.dir) \subseteq (DOMAIN nodes) \ {ino}
        /\ old \in (DOMAIN nodes \cup {NoIno}) \ {ino}
        /\ Is(old, "dir") => IsEmpty(old)
        /\ old # NoIno /\ ~ReplacesLinks => nodes[old].links = 1
        /\ nodes' = Moved(Cleared(to), ino, from, to)
        /\ unlinked' = unlinked \cup Replaced(old)
        /\ UNCHANGED <<next, open>>

-----------------------------------------------------------------------------
Next ==
    \/ \E path \in UserPaths :
          \/ OpenExisting(path) \/ Create(path)
          \/ Mkdir(path) \/ Rmdir(path) \/ Remove(path)
          \/ \E target \in Targets : Symlink(target, path)
    \/ \E src, dst \in UserPaths : Link(src, dst) \/ Rename(src, dst)
    \/ \E fd \in Fds : Close(fd)

Spec == Init /\ [][Next]_vars

-----------------------------------------------------------------------------
(* Properties *)

\* The entries that lead to an inode, without "." and "..".
NamesOf(ino) ==
    {at \in (DOMAIN nodes) \X Names :
        at[2] \in DOMAIN nodes[at[1]].entries /\ nodes[at[1]].entries[at[2]] = ino}

TypeOK ==
    /\ next \in Inos \cup {MaxInodes + 1}
    /\ DOMAIN nodes \subseteq Root .. (next - 1)
    /\ \A ino \in DOMAIN nodes :
          /\ nodes[ino].kind \in {"dir", "file", "link"} /\ nodes[ino].links \in Nat
          /\ DOMAIN nodes[ino].entries \subseteq Components
    /\ open \in [Fds -> Inos \cup {NoIno}]
    /\ unlinked \subseteq DOMAIN nodes

\* Every directory but the root has one name, its "." is itself and its ".." is the
\* directory that holds the name: what is_ancestor_of climbs by is the tree.
DotsFollowTree ==
    \A ino \in DOMAIN nodes : Is(ino, "dir") =>
        /\ Dots \subseteq DOMAIN nodes[ino].entries
        /\ nodes[ino].entries["."] = ino
        /\ ino # Root => \E name \in Names : NamesOf(ino) = {<<nodes[ino].entries[".."], name>>}

\* From every directory the way up by ".." ends at the root: rename never puts one
\* below itself, so is_ancestor_of comes to an end.
Rooted == \A ino \in DOMAIN nodes : Is(ino, "dir") => Root \in Ancestry(ino)

\* The link count of a file that has names is their number, and no name outlives what
\* it leads to.
LinksAreNames ==
    /\ \A ino \in DOMAIN nodes :
          ~Is(ino, "dir") /\ ino \notin unlinked => nodes[ino].links = Cardinality(NamesOf(ino))
    /\ \A ino \in DOMAIN nodes : \A name \in DOMAIN nodes[ino].entries :
          nodes[ino].entries[name] \in DOMAIN nodes

\* An inode without a name is there for a descriptor that will free it, and an open
\* file is there whatever happened to its names.
KeptWhileOpen ==
    /\ \A ino \in DOMAIN nodes \ {Root} : NamesOf(ino) = {} => IsOpen(ino) /\ ino \in unlinked
    /\ \A fd \in Fds : open[fd] # NoIno => Is(open[fd], "file")

\* Dots, link counts and names say the same of every inode, the directories are a
\* tree, and every inode is there for a name or for a descriptor, whatever was renamed
\* onto what while it was open.
InodesFollowNames == TypeOK /\ DotsFollowTree /\ Rooted /\ LinksAreNames /\ KeptWhileOpen

\* The tree as its users see it.
Tree ==
    LET reached[n \in Nat] ==
            IF n = 0 THEN {<<<<>>, ino>> : ino \in {Root} \cap DOMAIN nodes}
            ELSE reached[n - 1] \cup
                 UNION {{<<Append(r[1], name), nodes[r[2]].entries[name]>> :
                            name \in {m \in Names : /\ m \in DOMAIN nodes[r[2]].entries
                                                    /\ nodes[r[2]].entries[m] \in DOMAIN nodes}} :
                        r \in reached[n - 1]}
        all == reached[MaxInodes]
    IN  [p \in {r[1] : r \in all} |->
            LET ino == (CHOOSE r \in all : r[1] = p)[2]
            IN  [id |-> ino, kind |-> nodes[ino].kind]]

TreePaths == UNION {[1 .. n -> Names] : n \in 0 .. (MaxInodes - 1)}

Promised == INSTANCE PathTree WITH
    Paths <- TreePaths, Ids <- Inos, tree <- Tree

\* Whatever the path a call was given, through "..", symlinks and other names of the
\* same file, the tree changes by the one creation, link, removal or move that was
\* asked for.
NamesAsPromised == Promised!Spec
=============================================================================
