-------------------------- MODULE NamespaceProofs --------------------------
(***************************************************************************)
(* Inodes and names agree, for any number of names, inodes and descriptors *)
(* and any paths: InodesFollowNames, when rmdir and rename are not given   *)
(* "." or ".." to remove and rename replaces no file with other names.     *)
(***************************************************************************)
EXTENDS Namespace, FiniteSetTheorems, TLAPS

EntryMaps == UNION {[names -> Inos] : names \in SUBSET Components}
NodeType == [kind : {"dir", "file", "link"}, links : Nat, entries : EntryMaps,
             target : Seq(Components)]
NodeMap(ns) == ns \in [DOMAIN ns -> NodeType] /\ DOMAIN ns \subseteq Inos

\* The shape of the nodes; only directories have entries.
Shape ==
    /\ NodeMap(nodes)
    /\ Is(Root, "dir")
    /\ \A ino \in DOMAIN nodes : nodes[ino].kind # "dir" => DOMAIN nodes[ino].entries = {}

\* The root is its own parent, and nothing else leads to it.
RootOnTop == nodes[Root].entries[".."] = Root /\ NamesOf(Root) = {}

\* What waits in unlinked_inodes for its last close is a file without names.
Nameless == \A ino \in unlinked : NamesOf(ino) = {} /\ nodes[ino].kind # "dir"

IInv == InodesFollowNames /\ Shape /\ RootOnTop /\ Nameless

-----------------------------------------------------------------------------
(* The operators on nodes *)

\* A function from components to inodes is the entries of a directory.
LEMMA EntryMap ==
    ASSUME NEW names \in SUBSET Components, NEW f \in [names -> Inos]
    PROVE  f \in EntryMaps
  BY DEF EntryMaps

\* Entries lead from components to inodes.
LEMMA EntryMapType ==
    ASSUME NEW f \in EntryMaps
    PROVE  DOMAIN f \subseteq Components /\ \A m \in DOMAIN f : f[m] \in Inos
  BY DEF EntryMaps

\* The inode with other entries.
LEMMA NewEntries ==
    ASSUME NEW ns, NodeMap(ns), NEW dir \in DOMAIN ns, NEW f \in EntryMaps
    PROVE  LET new == [ns EXCEPT ![dir].entries = f]
           IN  /\ NodeMap(new) /\ DOMAIN new = DOMAIN ns
               /\ \A i \in DOMAIN ns \ {dir} : new[i] = ns[i]
               /\ new[dir].kind = ns[dir].kind /\ new[dir].links = ns[dir].links
               /\ new[dir].entries = f
  BY DEF NodeMap, NodeType

\* What AddEntry changes, and what it leaves.
LEMMA AddedEntry ==
    ASSUME NEW ns, NodeMap(ns), NEW dir \in DOMAIN ns, NEW name \in Components, NEW ino \in Inos
    PROVE  LET new == AddEntry(ns, dir, name, ino)
           IN  /\ NodeMap(new) /\ DOMAIN new = DOMAIN ns
               /\ \A i \in DOMAIN ns \ {dir} : new[i] = ns[i]
               /\ new[dir].kind = ns[dir].kind /\ new[dir].links = ns[dir].links
               /\ DOMAIN new[dir].entries = DOMAIN ns[dir].entries \cup {name}
               /\ new[dir].entries[name] = ino
               /\ \A m \in DOMAIN ns[dir].entries \ {name} :
                     new[dir].entries[m] = ns[dir].entries[m]
  <1> DEFINE f == [m \in DOMAIN ns[dir].entries \cup {name} |->
                      IF m = name THEN ino ELSE ns[dir].entries[m]]
  <1>1. ns[dir].entries \in EntryMaps
    BY DEF NodeMap, NodeType
  <1>2. f \in EntryMaps
    BY <1>1, EntryMapType, EntryMap
  <1>3. AddEntry(ns, dir, name, ino) = [ns EXCEPT ![dir].entries = f]
    BY DEF AddEntry
  <1> HIDE DEF f
  <1>4. /\ NodeMap([ns EXCEPT ![dir].entries = f]) /\ DOMAIN [ns EXCEPT ![dir].entries = f] = DOMAIN ns
        /\ \A i \in DOMAIN ns \ {dir} : [ns EXCEPT ![dir].entries = f][i] = ns[i]
        /\ [ns EXCEPT ![dir].entries = f][dir].kind = ns[dir].kind
        /\ [ns EXCEPT ![dir].entries = f][dir].links = ns[dir].links
        /\ [ns EXCEPT ![dir].entries = f][dir].entries = f
    BY <1>2, NewEntries
  <1>5. /\ DOMAIN f = DOMAIN ns[dir].entries \cup {name} /\ f[name] = ino
        /\ \A m \in DOMAIN ns[dir].entries \ {name} : f[m] = ns[dir].entries[m]
    BY DEF f
  <1> QED
    BY <1>3, <1>4, <1>5

\* What RemoveEntry changes, and what it leaves.
LEMMA RemovedEntry ==
    ASSUME NEW ns, NodeMap(ns), NEW dir \in DOMAIN ns, NEW name
    PROVE  LET new == RemoveEntry(ns, dir, name)
           IN  /\ NodeMap(new) /\ DOMAIN new = DOMAIN ns
               /\ \A i \in DOMAIN ns \ {dir} : new[i] = ns[i]
               /\ new[dir].kind = ns[dir].kind /\ new[dir].links = ns[dir].links
               /\ DOMAIN new[dir].entries = DOMAIN ns[dir].entries \ {name}
               /\ \A m \in DOMAIN ns[dir].entries \ {name} :
                     new[dir].entries[m] = ns[dir].entries[m]
  <1> DEFINE f == [m \in DOMAIN ns[dir].entries \ {name} |-> ns[dir].entries[m]]
  <1>1. ns[dir].entries \in EntryMaps
    BY DEF NodeMap, NodeType
  <1>2. f \in EntryMaps
    BY <1>1, EntryMapType, EntryMap
  <1>3. RemoveEntry(ns, dir, name) = [ns EXCEPT ![dir].entries = f]
    BY DEF RemoveEntry
  <1> HIDE DEF f
  <1>4. /\ NodeMap([ns EXCEPT ![dir].entries = f]) /\ DOMAIN [ns EXCEPT ![dir].entries = f] = DOMAIN ns
        /\ \A i \in DOMAIN ns \ {dir} : [ns EXCEPT ![dir].entries = f][i] = ns[i]
        /\ [ns EXCEPT ![dir].entries = f][dir].kind = ns[dir].kind
        /\ [ns EXCEPT ![dir].entries = f][dir].links = ns[dir].links
        /\ [ns EXCEPT ![dir].entries = f][dir].entries = f
    BY <1>2, NewEntries
  <1>5. /\ DOMAIN f = DOMAIN ns[dir].entries \ {name}
        /\ \A m \in DOMAIN ns[dir].entries \ {name} : f[m] = ns[dir].entries[m]
    BY DEF f
  <1> QED
    BY <1>3, <1>4, <1>5

\* What Free changes, and what it leaves.
LEMMA Freed ==
    ASSUME NEW ns, NodeMap(ns), NEW ino
    PROVE  LET new == Free(ns, ino)
           IN  /\ NodeMap(new) /\ DOMAIN new = DOMAIN ns \ {ino}
               /\ \A i \in DOMAIN ns \ {ino} : new[i] = ns[i]
  BY DEF NodeMap, Free

\* What a new link count changes, and what it leaves.
LEMMA Linked ==
    ASSUME NEW ns, NodeMap(ns), NEW ino \in DOMAIN ns, NEW n \in Nat
    PROVE  LET new == [ns EXCEPT ![ino].links = n]
           IN  /\ NodeMap(new) /\ DOMAIN new = DOMAIN ns
               /\ \A i \in DOMAIN ns \ {ino} : new[i] = ns[i]
               /\ new[ino].kind = ns[ino].kind /\ new[ino].entries = ns[ino].entries
               /\ new[ino].links = n
  BY DEF NodeMap, NodeType

-----------------------------------------------------------------------------
(* What the invariant says of inodes and their names *)

\* The constants are what the module assumes of them.
LEMMA ConstantTypes == IsFiniteSet(Names) /\ Root \in Inos /\ NoIno \notin Inos /\ MaxInodes \in Nat
  BY NamespaceAssumption DEF Root, Inos, NoIno

\* A name and its dots are different components.
LEMMA NameOrDot == \A c \in Components : c \in Names <=> c \notin Dots
  BY NamespaceAssumption DEF Components

\* The names of an inode are finitely many.
LEMMA FiniteNames ==
    ASSUME IInv
    PROVE  \A i : IsFiniteSet(NamesOf(i)) /\ Cardinality(NamesOf(i)) \in Nat
  <1>1. IsFiniteSet(Inos) /\ IsFiniteSet(Names)
    BY ConstantTypes, FS_Interval DEF Inos, Root
  <1>2. IsFiniteSet(Inos \X Names)
    BY <1>1, FS_Product
  <1>3. \A i : NamesOf(i) \subseteq Inos \X Names
    BY DEF NamesOf, IInv, Shape, NodeMap
  <1> QED
    BY <1>2, <1>3, FS_Subset, FS_CardinalityType

\* Only directories have entries, and every entry leads to an inode.
LEMMA Entry ==
    ASSUME IInv, NEW d \in DOMAIN nodes, NEW m \in DOMAIN nodes[d].entries
    PROVE  /\ Is(d, "dir") /\ m \in Components
           /\ nodes[d].entries[m] \in DOMAIN nodes /\ nodes[d].entries[m] \in Inos
           /\ m \in Names => <<d, m>> \in NamesOf(nodes[d].entries[m])
  BY DEF IInv, Shape, InodesFollowNames, TypeOK, LinksAreNames, NamesOf, Is, NodeMap

\* What "." and ".." lead to is a directory.
LEMMA DotEntry ==
    ASSUME IInv, NEW d \in DOMAIN nodes, Is(d, "dir")
    PROVE  /\ "." \in DOMAIN nodes[d].entries /\ ".." \in DOMAIN nodes[d].entries
           /\ nodes[d].entries["."] = d
           /\ d = Root => nodes[d].entries[".."] = Root
           /\ Is(nodes[d].entries[".."], "dir")
           /\ d # Root => \E name \in Names : /\ NamesOf(d) = {<<nodes[d].entries[".."], name>>}
                                              /\ name \in DOMAIN nodes[nodes[d].entries[".."]].entries
                                              /\ nodes[nodes[d].entries[".."]].entries[name] = d
  <1>1. /\ "." \in DOMAIN nodes[d].entries /\ ".." \in DOMAIN nodes[d].entries
        /\ nodes[d].entries["."] = d
        /\ d = Root => nodes[d].entries[".."] = Root
    BY DEF IInv, InodesFollowNames, DotsFollowTree, Dots, RootOnTop
  <1>2. ASSUME d # Root
        PROVE  \E name \in Names : /\ NamesOf(d) = {<<nodes[d].entries[".."], name>>}
                                   /\ nodes[d].entries[".."] \in DOMAIN nodes
                                   /\ name \in DOMAIN nodes[nodes[d].entries[".."]].entries
                                   /\ nodes[nodes[d].entries[".."]].entries[name] = d
    <2>1. PICK name \in Names : NamesOf(d) = {<<nodes[d].entries[".."], name>>}
      BY <1>2 DEF IInv, InodesFollowNames, DotsFollowTree
    <2>2. <<nodes[d].entries[".."], name>> \in NamesOf(d)
      BY <2>1
    <2> QED
      BY <2>1, <2>2 DEF NamesOf
  <1>3. Is(nodes[d].entries[".."], "dir")
    BY <1>1, <1>2, Entry DEF Is
  <1> QED
    BY <1>1, <1>2, <1>3

\* What is found at a place has an entry there.
LEMMA Found ==
    ASSUME IInv, NEW at, Lookup(at) \in DOMAIN nodes
    PROVE  /\ at.dir \in DOMAIN nodes /\ Is(at.dir, "dir")
           /\ at.name \in DOMAIN nodes[at.dir].entries /\ at.name \in Components
           /\ nodes[at.dir].entries[at.name] = Lookup(at)
           /\ at.name \in Names => <<at.dir, at.name>> \in NamesOf(Lookup(at)) /\ Lookup(at) # Root
  <1>1. Lookup(at) # NoIno
    BY ConstantTypes DEF IInv, Shape, NodeMap
  <1>2. /\ at.dir \in DOMAIN nodes /\ Is(at.dir, "dir")
        /\ at.name \in DOMAIN nodes[at.dir].entries
        /\ nodes[at.dir].entries[at.name] = Lookup(at)
    BY <1>1 DEF Lookup, Is
  <1>3. at.name \in Components /\ (at.name \in Names => <<at.dir, at.name>> \in NamesOf(Lookup(at)))
    BY <1>2, Entry
  <1>4. NamesOf(Root) = {}
    BY DEF IInv, RootOnTop
  <1> QED
    BY <1>2, <1>3, <1>4

\* A file or a symlink is found by a name, and one of these is counted.
LEMMA LeafFound ==
    ASSUME IInv, NEW at, IsLeaf(Lookup(at))
    PROVE  /\ Lookup(at) \in DOMAIN nodes /\ ~Is(Lookup(at), "dir")
           /\ at.name \in Names
           /\ <<at.dir, at.name>> \in NamesOf(Lookup(at))
           /\ Lookup(at) \notin unlinked /\ Lookup(at) # Root
           /\ nodes[Lookup(at)].links = Cardinality(NamesOf(Lookup(at)))
  <1>1. Lookup(at) \in DOMAIN nodes /\ ~Is(Lookup(at), "dir")
    BY DEF IsLeaf, Is
  <1>2. at.name \notin Dots
    <2>1. /\ at.dir \in DOMAIN nodes /\ Is(at.dir, "dir")
          /\ nodes[at.dir].entries[at.name] = Lookup(at)
      BY <1>1, Found
    <2>2. /\ nodes[at.dir].entries["."] = at.dir
          /\ Is(nodes[at.dir].entries[".."], "dir")
      BY <2>1, DotEntry
    <2> QED
      BY <1>1, <2>1, <2>2 DEF Dots
  <1>3. at.name \in Names
    BY <1>1, <1>2, Found, NameOrDot
  <1>4. <<at.dir, at.name>> \in NamesOf(Lookup(at)) /\ Lookup(at) # Root
    BY <1>1, <1>3, Found
  <1>5. Lookup(at) \notin unlinked
    BY <1>4 DEF IInv, Nameless
  <1> QED
    BY <1>1, <1>3, <1>4, <1>5 DEF IInv, InodesFollowNames, LinksAreNames

\* A place without an entry is a name in a directory.
LEMMA VacantPlace ==
    ASSUME IInv, NEW at, Place(at), Lookup(at) = NoIno
    PROVE  /\ at.dir \in DOMAIN nodes /\ Is(at.dir, "dir")
           /\ at.name \in Names /\ at.name \notin DOMAIN nodes[at.dir].entries
  <1>1. at.dir \in DOMAIN nodes /\ Is(at.dir, "dir") /\ at.name \in Components
    BY DEF Place, Is
  <1>2. at.name \notin DOMAIN nodes[at.dir].entries
    BY <1>1, Entry, ConstantTypes DEF Lookup
  <1>3. at.name \notin Dots
    BY <1>1, <1>2, DotEntry DEF Dots
  <1> QED
    BY <1>1, <1>2, <1>3, NameOrDot

-----------------------------------------------------------------------------
(* The way up *)

\* It starts where it starts, goes through directories, and stops only at the root.
LEMMA WayUp ==
    ASSUME IInv, NEW t \in Inos, Is(t, "dir")
    PROVE  /\ t \in Ancestry(t)
           /\ \A i \in Ancestry(t) : Is(i, "dir")
           /\ Climbs(Ancestry(t))
  <1> DEFINE dirs == {i \in Inos : Is(i, "dir")}
  <1>1. t \in Ancestry(t)
    BY DEF Ancestry
  <1>2. Climbs(dirs)
    BY DotEntry DEF Climbs, IsAbove, Is
  <1>3. \A i \in Ancestry(t) : Is(i, "dir")
    BY <1>2 DEF Ancestry
  <1>4. Climbs(Ancestry(t))
    BY DEF Climbs, Ancestry
  <1> QED
    BY <1>1, <1>3, <1>4

\* The directories that stay keep their parents, but for one that gets a parent it is
\* not above: the root is still above all.
LEMMA RootedKept ==
    ASSUME IInv, NEW x, NEW t \in Inos, Is(t, "dir"), x \notin Ancestry(t),
           DOMAIN nodes' \subseteq Inos,
           \A i \in DOMAIN nodes' : Is(i, "dir")' /\ i # x =>
               Is(i, "dir") /\ nodes'[i].entries[".."] = nodes[i].entries[".."],
           Is(x, "dir")' => nodes'[x].entries[".."] = t,
           \A i \in DOMAIN nodes' : Is(i, "dir")' =>
               ".." \in DOMAIN nodes'[i].entries /\ Is(nodes[i].entries[".."], "dir")'
    PROVE  Rooted'
  <1> SUFFICES ASSUME NEW d \in DOMAIN nodes', Is(d, "dir")',
                      NEW up \in SUBSET Inos, d \in up, Climbs(up)'
               PROVE  Root \in up
    BY ConstantTypes DEF Rooted, Ancestry
  <1> DEFINE U == {i \in up : Is(i, "dir")'}
             V == U \cap Ancestry(t)
  <1>1. ASSUME NEW i \in U \ {Root} PROVE nodes'[i].entries[".."] \in U
    <2>1. Is(i, "dir")' /\ i \in DOMAIN nodes'
      BY DEF Is
    <2>2. ".." \in DOMAIN nodes'[i].entries /\ Is(nodes[i].entries[".."], "dir")'
      BY <2>1
    <2>3. nodes'[i].entries[".."] \in Inos
      BY <2>2 DEF Is
    <2>4. IsAbove(nodes[i].entries[".."], i)'
      BY <2>1, <2>2 DEF IsAbove
    <2> QED
      BY <2>2, <2>3, <2>4 DEF Climbs
  <1>2. ASSUME NEW W \in SUBSET U, Climbs(W), NEW i \in W, Is(i, "dir") PROVE Root \in up
    <2>1. Root \in Ancestry(i)
      BY <1>2 DEF IInv, InodesFollowNames, Rooted, Is
    <2> QED
      BY <1>2, <2>1 DEF Ancestry
  <1>3. CASE x \in U \ {Root}
    <2>1. t \in V /\ V \in SUBSET U
      BY <1>1, <1>3, WayUp
    <2>2. Climbs(V)
      <3> SUFFICES ASSUME NEW ino \in V \ {Root}, NEW i \in Inos, IsAbove(i, ino) PROVE i \in V
        BY DEF Climbs
      <3>1. ino # x /\ i = nodes'[ino].entries[".."]
        BY DEF IsAbove, Is
      <3>2. i \in U
        BY <1>1, <3>1
      <3>3. i \in Ancestry(t)
        BY WayUp DEF Climbs
      <3> QED
        BY <3>2, <3>3
    <2> QED
      BY <1>2, <2>1, <2>2
  <1>4. CASE x \notin U \ {Root}
    <2>1. Climbs(U)
      BY <1>1, <1>4 DEF Climbs, IsAbove, Is
    <2>2. d = Root \/ (d \in U /\ Is(d, "dir"))
      BY <1>4
    <2> QED
      BY <1>2, <2>1, <2>2
  <1> QED
    BY <1>3, <1>4

\* A name of an inode is an entry that leads to it.
LEMMA NamesAre ==
    ASSUME NEW i, NEW at \in (DOMAIN nodes) \X Names
    PROVE  at \in NamesOf(i) <=> /\ at[2] \in DOMAIN nodes[at[1]].entries
                                /\ nodes[at[1]].entries[at[2]] = i
  BY DEF NamesOf

\* The names of an inode after a step, entry by entry.
LEMMA NamesBecome ==
    ASSUME NEW i, NEW S \in SUBSET ((DOMAIN nodes') \X Names),
           \A d \in DOMAIN nodes' : \A n \in Names :
               <<d, n>> \in S <=> n \in DOMAIN nodes'[d].entries /\ nodes'[d].entries[n] = i
    PROVE  NamesOf(i)' = S
  <1>1. \A at \in (DOMAIN nodes') \X Names : at = <<at[1], at[2]>> /\ at[1] \in DOMAIN nodes' /\ at[2] \in Names
    OBVIOUS
  <1>2. \A at \in (DOMAIN nodes') \X Names :
            at \in S <=> at[2] \in DOMAIN nodes'[at[1]].entries /\ nodes'[at[1]].entries[at[2]] = i
    BY <1>1
  <1> QED
    BY <1>2 DEF NamesOf

-----------------------------------------------------------------------------
(* A new inode *)

\* The parts of the invariant that are about inodes and entries alone.
TreeInv ==
    /\ Shape /\ DotsFollowTree /\ RootOnTop /\ Rooted
    /\ \A ino \in DOMAIN nodes : \A name \in DOMAIN nodes[ino].entries :
          nodes[ino].entries[name] \in DOMAIN nodes

\* node is named at.name in the directory at.dir.
Arrives(node, at) ==
    /\ at.dir \in DOMAIN nodes /\ Is(at.dir, "dir")
    /\ at.name \in Names /\ at.name \notin DOMAIN nodes[at.dir].entries
    /\ next \in Inos /\ next \notin DOMAIN nodes
    /\ node \in NodeType /\ node.links = 1
    /\ node.kind # "dir" => DOMAIN node.entries = {}
    /\ node.kind = "dir" => /\ DOMAIN node.entries = Dots
                            /\ node.entries["."] = next /\ node.entries[".."] = at.dir
    /\ nodes' = WithNew(node, at)

\* What a new node under a new name changes, and what it leaves.
LEMMA ArrivesChanges ==
    ASSUME IInv, NEW node, NEW at, Arrives(node, at)
    PROVE  /\ NodeMap(nodes') /\ DOMAIN nodes' = DOMAIN nodes \cup {next}
           /\ nodes'[next] = node
           /\ \A i \in DOMAIN nodes \ {at.dir} : nodes'[i] = nodes[i]
           /\ nodes'[at.dir].kind = "dir" /\ nodes'[at.dir].links = nodes[at.dir].links
           /\ DOMAIN nodes'[at.dir].entries = DOMAIN nodes[at.dir].entries \cup {at.name}
           /\ nodes'[at.dir].entries[at.name] = next
           /\ \A m \in DOMAIN nodes[at.dir].entries : nodes'[at.dir].entries[m] = nodes[at.dir].entries[m]
  <1> DEFINE ns == [i \in DOMAIN nodes \cup {next} |-> IF i = next THEN node ELSE nodes[i]]
  <1>1. NodeMap(ns) /\ DOMAIN ns = DOMAIN nodes \cup {next}
    BY DEF IInv, Shape, NodeMap, Arrives
  <1>2. ns[next] = node /\ \A i \in DOMAIN nodes : ns[i] = nodes[i]
    BY DEF Arrives
  <1>3. nodes' = AddEntry(ns, at.dir, at.name, next)
    BY DEF Arrives, WithNew
  <1>4. at.dir \in DOMAIN nodes /\ at.dir # next /\ at.name \in Components /\ next \in Inos
    BY DEF Arrives, Components
  <1> HIDE DEF ns
  <1>5. at.dir \in DOMAIN ns
    BY <1>1, <1>4
  <1>6. LET new == AddEntry(ns, at.dir, at.name, next)
        IN  /\ NodeMap(new) /\ DOMAIN new = DOMAIN ns
            /\ \A i \in DOMAIN ns \ {at.dir} : new[i] = ns[i]
            /\ new[at.dir].kind = ns[at.dir].kind /\ new[at.dir].links = ns[at.dir].links
            /\ DOMAIN new[at.dir].entries = DOMAIN ns[at.dir].entries \cup {at.name}
            /\ new[at.dir].entries[at.name] = next
            /\ \A m \in DOMAIN ns[at.dir].entries \ {at.name} :
                  new[at.dir].entries[m] = ns[at.dir].entries[m]
    BY <1>1, <1>4, <1>5, AddedEntry, SMTT(60)
  <1>7. nodes[at.dir].kind = "dir" /\ at.name \notin DOMAIN nodes[at.dir].entries
    BY DEF Arrives, Is
  <1> QED
    BY <1>1, <1>2, <1>3, <1>4, <1>6, <1>7

\* The new inode has its one name, the others have theirs.
LEMMA ArrivesNames ==
    ASSUME IInv, NEW node, NEW at, Arrives(node, at)
    PROVE  \A i : NamesOf(i)' = IF i = next THEN {<<at.dir, at.name>>} ELSE NamesOf(i)
  <1> DEFINE S(i) == IF i = next THEN {<<at.dir, at.name>>} ELSE NamesOf(i)
  <1>1. /\ at.dir \in DOMAIN nodes /\ at.name \in Names /\ next \notin DOMAIN nodes
        /\ at.name \notin DOMAIN nodes[at.dir].entries
    BY DEF Arrives
  <1>2. \A n \in Names : n \notin DOMAIN nodes'[next].entries
    BY ArrivesChanges, NameOrDot DEF Arrives, NodeType, Components
  <1>3. ASSUME NEW i PROVE NamesOf(i)' = S(i)
    <2>1. S(i) \in SUBSET ((DOMAIN nodes') \X Names)
      BY <1>1, ArrivesChanges DEF NamesOf
    <2>2. ASSUME NEW d \in DOMAIN nodes', NEW n \in Names
          PROVE  <<d, n>> \in S(i) <=> n \in DOMAIN nodes'[d].entries /\ nodes'[d].entries[n] = i
      <3>1. CASE d = next
        BY <1>1, <1>2, <3>1 DEF NamesOf
      <3>2. CASE d = at.dir /\ n = at.name
        BY <1>1, <3>2, ArrivesChanges DEF NamesOf
      <3>3. CASE d # next /\ ~(d = at.dir /\ n = at.name)
        <4>1. d \in DOMAIN nodes
          BY <3>3, ArrivesChanges
        <4>2. /\ n \in DOMAIN nodes'[d].entries <=> n \in DOMAIN nodes[d].entries
              /\ n \in DOMAIN nodes[d].entries => nodes'[d].entries[n] = nodes[d].entries[n]
          BY <3>3, <4>1, ArrivesChanges
        <4>3. n \in DOMAIN nodes[d].entries => nodes[d].entries[n] # next
          BY <1>1, <4>1, Entry
        <4> QED
          BY <3>3, <4>1, <4>2, <4>3 DEF NamesOf
      <3> QED
        BY <3>1, <3>2, <3>3
    <2> HIDE DEF S
    <2> QED
      BY <2>1, <2>2, NamesBecome
  <1> QED
    BY <1>3

\* A new node leaves a tree.
LEMMA ArrivesKeeps ==
    ASSUME IInv, NEW node, NEW at, Arrives(node, at)
    PROVE  /\ TreeInv'
           /\ \A i \in DOMAIN nodes : nodes'[i].links = nodes[i].links /\ nodes'[i].kind = nodes[i].kind
           /\ DOMAIN nodes' = DOMAIN nodes \cup {next} /\ nodes'[next] = node
  <1> USE DEF Is
  <1>1. /\ at.dir \in DOMAIN nodes /\ nodes[at.dir].kind = "dir"
        /\ at.name \in Names /\ at.name \notin Dots
        /\ next \notin DOMAIN nodes /\ next \in Inos /\ node.links = 1
        /\ node.kind # "dir" => DOMAIN node.entries = {}
        /\ node.kind = "dir" => /\ DOMAIN node.entries = Dots
                                /\ node.entries["."] = next /\ node.entries[".."] = at.dir
    BY NameOrDot DEF Arrives, Components
  <1>2. Root \in DOMAIN nodes /\ nodes[Root].kind = "dir"
    BY DEF IInv, Shape
  <1>3. \A i \in DOMAIN nodes : /\ nodes'[i].kind = nodes[i].kind
                               /\ nodes'[i].links = nodes[i].links
                               /\ DOMAIN nodes[i].entries \subseteq DOMAIN nodes'[i].entries
                               /\ \A m \in DOMAIN nodes[i].entries : nodes'[i].entries[m] = nodes[i].entries[m]
    BY <1>1, ArrivesChanges
  <1>4. \A i \in DOMAIN nodes : \A m \in DOMAIN nodes'[i].entries :
            m \in DOMAIN nodes[i].entries \/ (i = at.dir /\ nodes'[i].entries[m] = next)
    BY <1>1, ArrivesChanges
  <1>5. NodeMap(nodes') /\ DOMAIN nodes' = DOMAIN nodes \cup {next} /\ nodes'[next] = node
    BY ArrivesChanges
  <1>6. Shape'
    <2>1. ASSUME NEW i \in DOMAIN nodes', nodes'[i].kind # "dir"
          PROVE  DOMAIN nodes'[i].entries = {}
      <3>1. CASE i = next
        BY <1>1, <1>5, <2>1, <3>1
      <3>2. CASE i # next
        <4>1. i \in DOMAIN nodes /\ nodes[i].kind # "dir" /\ i # at.dir
          BY <1>1, <1>3, <1>5, <2>1, <3>2
        <4>2. DOMAIN nodes[i].entries = {}
          BY <4>1 DEF IInv, Shape
        <4>3. \A m \in DOMAIN nodes'[i].entries : m \in DOMAIN nodes[i].entries
          BY <1>4, <4>1
        <4> QED
          BY <4>2, <4>3
      <3> QED
        BY <3>1, <3>2
    <2>2. Is(Root, "dir")'
      BY <1>2, <1>3, <1>5
    <2> QED
      BY <1>5, <2>1, <2>2 DEF Shape
  <1>7. ASSUME NEW i \in DOMAIN nodes', NEW m \in DOMAIN nodes'[i].entries
        PROVE  nodes'[i].entries[m] \in DOMAIN nodes'
    <2>1. CASE i = next
      BY <1>1, <1>5, <2>1 DEF Dots
    <2>2. CASE i # next
      <3>1. i \in DOMAIN nodes
        BY <1>5, <2>2
      <3>2. CASE m \in DOMAIN nodes[i].entries
        BY <1>3, <1>5, <3>1, <3>2, Entry
      <3>3. CASE m \notin DOMAIN nodes[i].entries
        <4>1. nodes'[i].entries[m] = next
          BY <1>4, <3>1, <3>3
        <4> QED
          BY <1>5, <4>1
      <3> QED
        BY <3>2, <3>3
    <2> QED
      BY <2>1, <2>2
  <1>8. DotsFollowTree'
    <2> SUFFICES ASSUME NEW i \in DOMAIN nodes', nodes'[i].kind = "dir"
                 PROVE  /\ Dots \subseteq DOMAIN nodes'[i].entries
                        /\ nodes'[i].entries["."] = i
                        /\ i # Root => \E name \in Names :
                                          NamesOf(i)' = {<<nodes'[i].entries[".."], name>>}
      BY DEF DotsFollowTree
    <2>1. CASE i = next
      BY <1>1, <1>5, <2>1, ArrivesNames
    <2>2. CASE i # next
      <3>1. i \in DOMAIN nodes /\ nodes[i].kind = "dir"
        BY <1>3, <1>5, <2>2
      <3>2. /\ Dots \subseteq DOMAIN nodes[i].entries /\ nodes[i].entries["."] = i
            /\ i # Root => \E name \in Names : NamesOf(i) = {<<nodes[i].entries[".."], name>>}
        BY <3>1 DEF IInv, InodesFollowNames, DotsFollowTree
      <3>3. nodes'[i].entries["."] = nodes[i].entries["."] /\ nodes'[i].entries[".."] = nodes[i].entries[".."]
        BY <1>3, <3>1, <3>2 DEF Dots
      <3>4. NamesOf(i)' = NamesOf(i) /\ DOMAIN nodes[i].entries \subseteq DOMAIN nodes'[i].entries
        BY <1>3, <2>2, <3>1, ArrivesNames
      <3> QED
        BY <3>2, <3>3, <3>4
    <2> QED
      BY <2>1, <2>2
  <1>9. RootOnTop'
    <2>1. nodes'[Root].entries[".."] = Root
      BY <1>2, <1>3, DotEntry
    <2>2. NamesOf(Root)' = {}
      BY <1>1, <1>2, ArrivesNames DEF IInv, RootOnTop
    <2> QED
      BY <2>1, <2>2 DEF RootOnTop
  <1>10. Rooted'
    <2>1. at.dir \in Inos /\ next \notin Ancestry(at.dir)
      BY <1>1, WayUp DEF IInv, Shape, NodeMap
    <2>2. \A i \in DOMAIN nodes' : Is(i, "dir")' /\ i # next =>
              Is(i, "dir") /\ nodes'[i].entries[".."] = nodes[i].entries[".."]
      BY <1>3, <1>5, DotEntry
    <2>3. ASSUME NEW i \in DOMAIN nodes', Is(i, "dir")'
          PROVE  ".." \in DOMAIN nodes'[i].entries /\ Is(nodes[i].entries[".."], "dir")'
      <3>1. CASE i = next
        <4>1. nodes'[i] = node /\ node.kind = "dir"
          BY <1>5, <2>3, <3>1
        <4>2. ".." \in DOMAIN node.entries /\ node.entries[".."] = at.dir
          BY <1>1, <4>1 DEF Dots
        <4>3. at.dir \in DOMAIN nodes' /\ nodes'[at.dir].kind = "dir"
          BY <1>1, <1>3, <1>5
        <4> QED
          BY <4>1, <4>2, <4>3
      <3>2. CASE i # next
        <4>1. i \in DOMAIN nodes /\ Is(i, "dir")
          BY <1>3, <1>5, <2>3, <3>2
        <4>2. ".." \in DOMAIN nodes[i].entries /\ Is(nodes[i].entries[".."], "dir")
          BY <4>1, DotEntry
        <4> QED
          BY <1>3, <1>5, <4>1, <4>2
      <3> QED
        BY <3>1, <3>2
    <2> QED
      BY <1>1, <1>5, <2>1, <2>2, <2>3, RootedKept DEF NodeMap
  <1> QED
    BY <1>3, <1>5, <1>6, <1>7, <1>8, <1>9, <1>10 DEF TreeInv

-----------------------------------------------------------------------------
(* Entries that change hands *)

\* Inodes may go and names may move; of the directories that stay, x at most gets
\* another parent, t, which it is not above.
LEMMA TreeKept ==
    ASSUME IInv, NodeMap(nodes'), DOMAIN nodes' \subseteq DOMAIN nodes, Root \in DOMAIN nodes',
           NEW x, NEW t \in DOMAIN nodes', Is(t, "dir"), x \notin Ancestry(t), x # Root,
           \A d \in DOMAIN nodes' :
               /\ nodes'[d].kind = nodes[d].kind
               /\ nodes[d].kind # "dir" => DOMAIN nodes'[d].entries = {}
               /\ nodes[d].kind = "dir" =>
                     /\ "." \in DOMAIN nodes'[d].entries /\ ".." \in DOMAIN nodes'[d].entries
                     /\ nodes'[d].entries["."] = d
                     /\ nodes'[d].entries[".."] = IF d = x THEN t ELSE nodes[d].entries[".."],
           \A d \in DOMAIN nodes' : \A n \in Names :
               n \in DOMAIN nodes'[d].entries => nodes'[d].entries[n] \in DOMAIN nodes',
           NamesOf(Root)' = {},
           \A d \in DOMAIN nodes' \ {Root} : nodes[d].kind = "dir" =>
               \E name \in Names : NamesOf(d)' = {<<nodes'[d].entries[".."], name>>}
    PROVE  TreeInv'
  <1> USE DEF Is
  <1>1. Shape'
    BY DEF Shape, IInv
  <1>2. DotsFollowTree'
    BY DEF DotsFollowTree, Dots
  <1>3. RootOnTop'
    BY DEF RootOnTop, IInv, Shape
  <1>4. ASSUME NEW d \in DOMAIN nodes', nodes[d].kind = "dir"
        PROVE  /\ nodes'[d].entries[".."] \in DOMAIN nodes'
               /\ nodes[nodes'[d].entries[".."]].kind = "dir"
    <2>1. CASE d = Root
      BY <1>3, <2>1, <1>4 DEF RootOnTop
    <2>2. CASE d # Root
      <3>1. PICK name \in Names : NamesOf(d)' = {<<nodes'[d].entries[".."], name>>}
        BY <1>4, <2>2
      <3>2. <<nodes'[d].entries[".."], name>> \in NamesOf(d)'
        BY <3>1
      <3>3. /\ nodes'[d].entries[".."] \in DOMAIN nodes'
            /\ name \in DOMAIN nodes'[nodes'[d].entries[".."]].entries
        BY <3>2 DEF NamesOf
      <3> QED
        BY <3>3
    <2> QED
      BY <2>1, <2>2
  <1>5. Rooted'
    <2>1. t \in Inos /\ DOMAIN nodes' \subseteq Inos
      BY DEF NodeMap
    <2>2. \A i \in DOMAIN nodes' : Is(i, "dir")' /\ i # x =>
              Is(i, "dir") /\ nodes'[i].entries[".."] = nodes[i].entries[".."]
      OBVIOUS
    <2>3. Is(x, "dir")' => nodes'[x].entries[".."] = t
      OBVIOUS
    <2>4. \A i \in DOMAIN nodes' : Is(i, "dir")' =>
              ".." \in DOMAIN nodes'[i].entries /\ Is(nodes[i].entries[".."], "dir")'
      BY <1>4
    <2> QED
      BY <2>1, <2>2, <2>3, <2>4, RootedKept
  <1>6. \A d \in DOMAIN nodes' : \A m \in DOMAIN nodes'[d].entries :
            nodes'[d].entries[m] \in DOMAIN nodes'
    <2> SUFFICES ASSUME NEW d \in DOMAIN nodes', NEW m \in DOMAIN nodes'[d].entries
                 PROVE  nodes'[d].entries[m] \in DOMAIN nodes'
      OBVIOUS
    <2>1. nodes[d].kind = "dir"
      OBVIOUS
    <2>2. m \in Components
      BY EntryMapType DEF NodeMap, NodeType
    <2>3. CASE m \in Names
      BY <2>3
    <2>4. CASE m \in Dots
      BY <1>4, <2>1, <2>4 DEF Dots
    <2> QED
      BY <2>2, <2>3, <2>4 DEF Components
  <1> QED
    BY <1>1, <1>2, <1>3, <1>5, <1>6 DEF TreeInv

\* With NoIno for x no directory gets another parent.
LEMMA NobodyMoves ==
    ASSUME IInv
    PROVE  Is(Root, "dir") /\ NoIno \notin Ancestry(Root) /\ NoIno # Root /\ NoIno \notin DOMAIN nodes
  BY ConstantTypes DEF IInv, Shape, NodeMap, Ancestry, NoIno, Root

\* The leaf ino gets another name, at.name in at.dir.
Links(ino, at) ==
    /\ ino \in DOMAIN nodes /\ ~Is(ino, "dir") /\ ino # Root /\ ino \notin unlinked
    /\ at.dir \in DOMAIN nodes /\ Is(at.dir, "dir")
    /\ at.name \in Names /\ at.name \notin DOMAIN nodes[at.dir].entries
    /\ nodes' = AddEntry([nodes EXCEPT ![ino].links = @ + 1], at.dir, at.name, ino)

\* What another name for a node changes, and what it leaves.
LEMMA LinksChanges ==
    ASSUME IInv, NEW ino, NEW at, Links(ino, at)
    PROVE  /\ NodeMap(nodes') /\ DOMAIN nodes' = DOMAIN nodes
           /\ \A d \in DOMAIN nodes :
                 /\ nodes'[d].kind = nodes[d].kind
                 /\ nodes'[d].links = IF d = ino THEN nodes[d].links + 1 ELSE nodes[d].links
                 /\ d # at.dir => nodes'[d].entries = nodes[d].entries
           /\ DOMAIN nodes'[at.dir].entries = DOMAIN nodes[at.dir].entries \cup {at.name}
           /\ nodes'[at.dir].entries[at.name] = ino
           /\ \A m \in DOMAIN nodes[at.dir].entries : nodes'[at.dir].entries[m] = nodes[at.dir].entries[m]
  <1> DEFINE ns == [nodes EXCEPT ![ino].links = @ + 1]
  <1>1. /\ NodeMap(nodes) /\ ino \in DOMAIN nodes /\ ino \in Inos /\ at.dir \in DOMAIN nodes
        /\ ino # at.dir /\ at.name \in Components /\ nodes[ino].links + 1 \in Nat
    BY DEF Links, Is, IInv, Shape, NodeMap, NodeType, Components
  <1>2. ns = [nodes EXCEPT ![ino].links = nodes[ino].links + 1]
    OBVIOUS
  <1>3. /\ NodeMap(ns) /\ DOMAIN ns = DOMAIN nodes
        /\ \A i \in DOMAIN nodes \ {ino} : ns[i] = nodes[i]
        /\ ns[ino].kind = nodes[ino].kind /\ ns[ino].entries = nodes[ino].entries
        /\ ns[ino].links = nodes[ino].links + 1
    BY <1>1, <1>2, Linked
  <1>4. nodes' = AddEntry(ns, at.dir, at.name, ino) /\ at.name \notin DOMAIN nodes[at.dir].entries
    BY DEF Links
  <1> HIDE DEF ns
  <1>5. LET new == AddEntry(ns, at.dir, at.name, ino)
        IN  /\ NodeMap(new) /\ DOMAIN new = DOMAIN ns
            /\ \A i \in DOMAIN ns \ {at.dir} : new[i] = ns[i]
            /\ new[at.dir].kind = ns[at.dir].kind /\ new[at.dir].links = ns[at.dir].links
            /\ DOMAIN new[at.dir].entries = DOMAIN ns[at.dir].entries \cup {at.name}
            /\ new[at.dir].entries[at.name] = ino
            /\ \A m \in DOMAIN ns[at.dir].entries \ {at.name} :
                  new[at.dir].entries[m] = ns[at.dir].entries[m]
    BY <1>1, <1>3, AddedEntry, SMTT(60)
  <1> QED
    BY <1>1, <1>3, <1>4, <1>5

\* Another name is a name more, of this node only.
LEMMA LinksNames ==
    ASSUME IInv, NEW ino, NEW at, Links(ino, at)
    PROVE  /\ <<at.dir, at.name>> \notin NamesOf(ino)
           /\ \A i : NamesOf(i)' = IF i = ino THEN NamesOf(i) \cup {<<at.dir, at.name>>} ELSE NamesOf(i)
  <1> DEFINE S(i) == IF i = ino THEN NamesOf(i) \cup {<<at.dir, at.name>>} ELSE NamesOf(i)
  <1>1. /\ at.dir \in DOMAIN nodes /\ at.name \in Names
        /\ at.name \notin DOMAIN nodes[at.dir].entries
    BY DEF Links
  <1>2. ASSUME NEW i PROVE NamesOf(i)' = S(i)
    <2>1. S(i) \in SUBSET ((DOMAIN nodes') \X Names)
      BY <1>1, LinksChanges DEF NamesOf
    <2>2. ASSUME NEW d \in DOMAIN nodes', NEW n \in Names
          PROVE  <<d, n>> \in S(i) <=> n \in DOMAIN nodes'[d].entries /\ nodes'[d].entries[n] = i
      <3>1. CASE d = at.dir /\ n = at.name
        BY <1>1, <3>1, LinksChanges DEF NamesOf
      <3>2. CASE ~(d = at.dir /\ n = at.name)
        <4>1. d \in DOMAIN nodes
          BY LinksChanges
        <4>2. /\ n \in DOMAIN nodes'[d].entries <=> n \in DOMAIN nodes[d].entries
              /\ n \in DOMAIN nodes[d].entries => nodes'[d].entries[n] = nodes[d].entries[n]
          BY <3>2, <4>1, LinksChanges
        <4> QED
          BY <3>2, <4>1, <4>2 DEF NamesOf
      <3> QED
        BY <3>1, <3>2
    <2> HIDE DEF S
    <2> QED
      BY <2>1, <2>2, NamesBecome
  <1> QED
    BY <1>1, <1>2 DEF NamesOf

\* Another name leaves a tree.
LEMMA LinksKeeps ==
    ASSUME IInv, NEW ino, NEW at, Links(ino, at)
    PROVE  TreeInv'
  <1> USE DEF Is
  <1>1. /\ ino \in DOMAIN nodes /\ nodes[ino].kind # "dir" /\ ino # Root
        /\ at.dir \in DOMAIN nodes /\ nodes[at.dir].kind = "dir"
        /\ at.name \in Names /\ at.name \notin Dots
    BY NameOrDot DEF Links, Components
  <1>2. /\ NodeMap(nodes') /\ DOMAIN nodes' = DOMAIN nodes /\ Root \in DOMAIN nodes
        /\ \A d \in DOMAIN nodes : nodes'[d].kind = nodes[d].kind
    BY LinksChanges DEF IInv, Shape
  <1>3. ASSUME NEW d \in DOMAIN nodes, NEW m \in DOMAIN nodes[d].entries
        PROVE  m \in DOMAIN nodes'[d].entries /\ nodes'[d].entries[m] = nodes[d].entries[m]
    BY LinksChanges
  <1>4. ASSUME NEW d \in DOMAIN nodes, nodes[d].kind # "dir"
        PROVE  DOMAIN nodes'[d].entries = {}
    BY <1>1, <1>4, LinksChanges DEF IInv, Shape
  <1>5. ASSUME NEW d \in DOMAIN nodes, nodes[d].kind = "dir"
        PROVE  /\ "." \in DOMAIN nodes'[d].entries /\ ".." \in DOMAIN nodes'[d].entries
               /\ nodes'[d].entries["."] = d
               /\ nodes'[d].entries[".."] = nodes[d].entries[".."]
    BY <1>3, <1>5, DotEntry
  <1>6. ASSUME NEW d \in DOMAIN nodes', NEW n \in Names, n \in DOMAIN nodes'[d].entries
        PROVE  nodes'[d].entries[n] \in DOMAIN nodes'
    <2>1. CASE d = at.dir /\ n = at.name
      BY <1>1, <1>2, <2>1, LinksChanges
    <2>2. CASE ~(d = at.dir /\ n = at.name)
      <3>1. d \in DOMAIN nodes /\ n \in DOMAIN nodes[d].entries
        BY <1>2, <1>6, <2>2, LinksChanges
      <3> QED
        BY <1>2, <1>3, <3>1, Entry
    <2> QED
      BY <2>1, <2>2
  <1>7. ASSUME NEW d \in DOMAIN nodes, nodes[d].kind = "dir" PROVE NamesOf(d)' = NamesOf(d)
    BY <1>1, <1>7, LinksNames
  <1>8. NamesOf(Root)' = {}
    BY <1>1, <1>2, LinksNames DEF IInv, RootOnTop
  <1>9. \A d \in DOMAIN nodes \ {Root} : nodes[d].kind = "dir" =>
            \E name \in Names : NamesOf(d)' = {<<nodes'[d].entries[".."], name>>}
    BY <1>5, <1>7, DotEntry
  <1> QED
    BY <1>2, <1>4, <1>5, <1>6, <1>8, <1>9, NobodyMoves, TreeKept

\* The entry at, a name of ino, goes (with Nowhere for at, none does), and those in
\* gone, ino or nobody, with it.
Departs(ino, at, gone) ==
    /\ ino \in DOMAIN nodes /\ ino # Root
    /\ at.dir \in DOMAIN nodes =>
          /\ at.dir \notin gone
          /\ at.name \in Names /\ at.name \in DOMAIN nodes[at.dir].entries
          /\ nodes[at.dir].entries[at.name] = ino
    /\ gone \subseteq {ino}
    /\ gone # {} => NamesOf(ino) \subseteq {<<at.dir, at.name>>}
    /\ Is(ino, "dir") => gone = {ino} /\ DOMAIN nodes[ino].entries \subseteq Dots
    /\ NodeMap(nodes') /\ DOMAIN nodes' = DOMAIN nodes \ gone
    /\ \A d \in DOMAIN nodes' :
          /\ nodes'[d].kind = nodes[d].kind
          /\ d # ino => nodes'[d].links = nodes[d].links
          /\ DOMAIN nodes'[d].entries = IF d = at.dir THEN DOMAIN nodes[d].entries \ {at.name}
                                        ELSE DOMAIN nodes[d].entries
          /\ \A m \in DOMAIN nodes'[d].entries : nodes'[d].entries[m] = nodes[d].entries[m]

\* A name taken away is a name less.
LEMMA DepartsNames ==
    ASSUME IInv, NEW ino, NEW at, NEW gone, Departs(ino, at, gone)
    PROVE  \A i : NamesOf(i)' = NamesOf(i) \ {<<at.dir, at.name>>}
  <1> DEFINE S(i) == NamesOf(i) \ {<<at.dir, at.name>>}
  <1>1. /\ DOMAIN nodes' = DOMAIN nodes \ gone
        /\ \A d \in DOMAIN nodes' :
              /\ DOMAIN nodes'[d].entries = IF d = at.dir THEN DOMAIN nodes[d].entries \ {at.name}
                                            ELSE DOMAIN nodes[d].entries
              /\ \A m \in DOMAIN nodes'[d].entries : nodes'[d].entries[m] = nodes[d].entries[m]
    BY DEF Departs
  <1>2. ASSUME NEW d \in gone, d \in DOMAIN nodes, NEW n \in Names
        PROVE  n \notin DOMAIN nodes[d].entries
    <2>1. d = ino
      BY <1>2 DEF Departs
    <2>2. CASE Is(ino, "dir")
      BY <2>1, <2>2, NameOrDot DEF Departs, Components
    <2>3. CASE ~Is(ino, "dir")
      BY <1>2, <2>1, <2>3 DEF IInv, Shape, Is
    <2> QED
      BY <2>2, <2>3
  <1>3. ASSUME NEW i PROVE NamesOf(i)' = S(i)
    <2>1. S(i) \in SUBSET ((DOMAIN nodes') \X Names)
      <3> SUFFICES ASSUME NEW p \in NamesOf(i) PROVE p \in (DOMAIN nodes') \X Names
        OBVIOUS
      <3>1. /\ p \in (DOMAIN nodes) \X Names /\ p[1] \in DOMAIN nodes /\ p[2] \in Names
            /\ p[2] \in DOMAIN nodes[p[1]].entries
        BY DEF NamesOf
      <3>2. p[1] \notin gone
        BY <1>2, <3>1
      <3> QED
        BY <1>1, <3>1, <3>2
    <2>2. ASSUME NEW d \in DOMAIN nodes', NEW n \in Names
          PROVE  <<d, n>> \in S(i) <=> n \in DOMAIN nodes'[d].entries /\ nodes'[d].entries[n] = i
      <3>1. d \in DOMAIN nodes
        BY <1>1
      <3>2. CASE d = at.dir /\ n = at.name
        BY <1>1, <3>2
      <3>3. CASE ~(d = at.dir /\ n = at.name)
        <4>1. /\ n \in DOMAIN nodes'[d].entries <=> n \in DOMAIN nodes[d].entries
              /\ n \in DOMAIN nodes[d].entries => nodes'[d].entries[n] = nodes[d].entries[n]
          BY <1>1, <3>3
        <4> QED
          BY <3>1, <3>3, <4>1 DEF NamesOf
      <3> QED
        BY <3>2, <3>3
    <2> HIDE DEF S
    <2> QED
      BY <2>1, <2>2, NamesBecome
  <1> QED
    BY <1>3

\* A name taken away leaves a tree.
LEMMA DepartsKeeps ==
    ASSUME IInv, NEW ino, NEW at, NEW gone, Departs(ino, at, gone)
    PROVE  TreeInv'
  <1> USE DEF Is
  <1>1. /\ ino \in DOMAIN nodes /\ ino # Root /\ gone \subseteq {ino}
        /\ at.dir \in DOMAIN nodes => at.name \notin Dots
        /\ nodes[ino].kind = "dir" => gone = {ino}
        /\ Root \in DOMAIN nodes
    BY NameOrDot DEF Departs, Components, IInv, Shape
  <1>2. /\ NodeMap(nodes') /\ DOMAIN nodes' = DOMAIN nodes \ gone
        /\ \A d \in DOMAIN nodes' : nodes'[d].kind = nodes[d].kind
    BY DEF Departs
  <1>3. ASSUME NEW d \in DOMAIN nodes'
        PROVE  /\ d \in DOMAIN nodes
               /\ DOMAIN nodes'[d].entries = IF d = at.dir THEN DOMAIN nodes[d].entries \ {at.name}
                                             ELSE DOMAIN nodes[d].entries
               /\ \A m \in DOMAIN nodes'[d].entries : nodes'[d].entries[m] = nodes[d].entries[m]
    BY DEF Departs
  <1>4. ASSUME NEW d \in DOMAIN nodes', nodes[d].kind # "dir"
        PROVE  DOMAIN nodes'[d].entries = {}
    BY <1>3, <1>4 DEF IInv, Shape
  <1>5. ASSUME NEW d \in DOMAIN nodes', nodes[d].kind = "dir"
        PROVE  /\ "." \in DOMAIN nodes'[d].entries /\ ".." \in DOMAIN nodes'[d].entries
               /\ nodes'[d].entries["."] = d
               /\ nodes'[d].entries[".."] = nodes[d].entries[".."]
    <2>1. "." \in DOMAIN nodes[d].entries /\ ".." \in DOMAIN nodes[d].entries /\ nodes[d].entries["."] = d
      BY <1>3, <1>5, DotEntry
    <2>2. "." \in DOMAIN nodes'[d].entries /\ ".." \in DOMAIN nodes'[d].entries
      BY <1>1, <1>3, <2>1 DEF Dots
    <2> QED
      BY <1>3, <2>1, <2>2
  <1>6. ASSUME NEW d \in DOMAIN nodes', NEW n \in Names, n \in DOMAIN nodes'[d].entries
        PROVE  nodes'[d].entries[n] \in DOMAIN nodes'
    <2>1. d \in DOMAIN nodes /\ n \in DOMAIN nodes[d].entries /\ nodes'[d].entries[n] = nodes[d].entries[n]
      BY <1>3, <1>6
    <2>2. nodes[d].entries[n] \in DOMAIN nodes /\ <<d, n>> \in NamesOf(nodes[d].entries[n])
      BY <2>1, Entry
    <2>3. ~(d = at.dir /\ n = at.name)
      BY <1>3, <1>6
    <2>4. nodes[d].entries[n] \notin gone
      BY <2>2, <2>3 DEF Departs
    <2> QED
      BY <1>2, <2>1, <2>2, <2>4
  <1>7. ASSUME NEW d \in DOMAIN nodes', nodes[d].kind = "dir" PROVE NamesOf(d)' = NamesOf(d)
    <2>1. d # ino
      BY <1>1, <1>2, <1>7
    <2>2. <<at.dir, at.name>> \notin NamesOf(d)
      <3>1. ~(at.dir \in DOMAIN nodes /\ at.name \in DOMAIN nodes[at.dir].entries
               /\ nodes[at.dir].entries[at.name] = d)
        BY <2>1 DEF Departs
      <3> QED
        BY <3>1 DEF NamesOf
    <2> QED
      BY <2>2, DepartsNames
  <1>8. NamesOf(Root)' = {}
    BY DepartsNames DEF IInv, RootOnTop
  <1>9. \A d \in DOMAIN nodes' \ {Root} : nodes[d].kind = "dir" =>
            \E name \in Names : NamesOf(d)' = {<<nodes'[d].entries[".."], name>>}
    <2> SUFFICES ASSUME NEW d \in DOMAIN nodes' \ {Root}, nodes[d].kind = "dir"
                 PROVE  \E name \in Names : NamesOf(d)' = {<<nodes'[d].entries[".."], name>>}
      OBVIOUS
    <2>1. d \in DOMAIN nodes /\ nodes'[d].entries[".."] = nodes[d].entries[".."] /\ NamesOf(d)' = NamesOf(d)
      BY <1>3, <1>5, <1>7
    <2>2. \E name \in Names : NamesOf(d) = {<<nodes[d].entries[".."], name>>}
      BY <2>1, DotEntry
    <2> QED
      BY <2>1, <2>2
  <1> QED
    BY <1>1, <1>2, <1>3, <1>4, <1>5, <1>6, <1>8, <1>9, NobodyMoves, TreeKept

\* ino moves from one entry to another; what was named there, old, loses its only name,
\* and those in gone, old or nobody, go with it.
Moves(ino, from, to, old, gone) ==
    /\ ino \in DOMAIN nodes /\ ino # Root /\ ino # old
    /\ from.dir \in DOMAIN nodes /\ from.name \in Names
    /\ from.name \in DOMAIN nodes[from.dir].entries /\ nodes[from.dir].entries[from.name] = ino
    /\ to.dir \in DOMAIN nodes /\ Is(to.dir, "dir") /\ to.name \in Names
    /\ to.name \in DOMAIN nodes[to.dir].entries =>
          nodes[to.dir].entries[to.name] = old /\ NamesOf(old) = {<<to.dir, to.name>>}
    /\ to.name \notin DOMAIN nodes[to.dir].entries => gone = {}
    /\ gone \subseteq {old}
    /\ Is(old, "dir") => gone = {old} /\ DOMAIN nodes[old].entries \subseteq Dots
    /\ ino \notin Ancestry(to.dir)

MovesTo(ino, from, to, gone) ==
    /\ NodeMap(nodes') /\ DOMAIN nodes' = DOMAIN nodes \ gone
    /\ \A d \in DOMAIN nodes' :
          /\ nodes'[d].kind = nodes[d].kind /\ nodes'[d].links = nodes[d].links
          /\ \A m : m \in DOMAIN nodes'[d].entries <=>
                      \/ d = to.dir /\ m = to.name
                      \/ m \in DOMAIN nodes[d].entries /\ ~(d = from.dir /\ m = from.name)
          /\ \A m \in DOMAIN nodes'[d].entries :
                nodes'[d].entries[m] = IF d = to.dir /\ m = to.name THEN ino
                                       ELSE IF d = ino /\ m = ".." THEN to.dir
                                       ELSE nodes[d].entries[m]

\* The two entries are different, and neither directory is gone.
LEMMA MovesPlaces ==
    ASSUME IInv, NEW ino, NEW from, NEW to, NEW old, NEW gone, Moves(ino, from, to, old, gone)
    PROVE  /\ <<from.dir, from.name>> # <<to.dir, to.name>>
           /\ \A d \in gone : d \in DOMAIN nodes /\ d # ino /\ \A n \in Names : n \notin DOMAIN nodes[d].entries
           /\ from.dir \notin gone /\ to.dir \notin gone /\ Root \notin gone
           /\ Is(from.dir, "dir")
  <1>1. <<from.dir, from.name>> # <<to.dir, to.name>>
    BY DEF Moves
  <1>2. Is(from.dir, "dir")
    BY Entry DEF Moves
  <1>3. ASSUME NEW d \in gone
        PROVE  /\ d \in DOMAIN nodes /\ d # ino /\ d # Root
               /\ \A n \in Names : n \notin DOMAIN nodes[d].entries
    <2>1. d = old /\ to.name \in DOMAIN nodes[to.dir].entries /\ d # ino
      BY DEF Moves
    <2>2. NamesOf(old) # {} /\ old \in DOMAIN nodes
      BY <2>1, Entry DEF Moves
    <2>3. CASE Is(old, "dir")
      BY <2>1, <2>2, <2>3, NameOrDot DEF Moves, Components, IInv, RootOnTop
    <2>4. CASE ~Is(old, "dir")
      BY <2>1, <2>2, <2>4 DEF IInv, Shape, Is
    <2> QED
      BY <2>3, <2>4
  <1>4. from.dir \notin gone
    BY <1>3 DEF Moves
  <1>5. to.dir \notin gone
    BY <1>3 DEF Moves
  <1> QED
    BY <1>1, <1>2, <1>3, <1>4, <1>5

\* A move exchanges one name of the node, and takes the target's from what had it.
LEMMA MovesNames ==
    ASSUME IInv, NEW ino, NEW from, NEW to, NEW old, NEW gone,
           Moves(ino, from, to, old, gone), MovesTo(ino, from, to, gone)
    PROVE  \A i : NamesOf(i)' = IF i = ino
                                THEN (NamesOf(i) \ {<<from.dir, from.name>>}) \cup {<<to.dir, to.name>>}
                                ELSE NamesOf(i) \ {<<to.dir, to.name>>}
  <1> DEFINE f == <<from.dir, from.name>>
             g == <<to.dir, to.name>>
             S(i) == IF i = ino THEN (NamesOf(i) \ {f}) \cup {g} ELSE NamesOf(i) \ {g}
  <1>1. /\ f # g /\ to.dir \in DOMAIN nodes' /\ to.name \in Names
        /\ \A n \in Names : n # ".."
    BY MovesPlaces, NameOrDot DEF Moves, MovesTo, Components, Dots
  <1>2. ASSUME NEW i PROVE NamesOf(i)' = S(i)
    <2>1. S(i) \in SUBSET ((DOMAIN nodes') \X Names)
      <3>1. ASSUME NEW p \in NamesOf(i) PROVE p \in (DOMAIN nodes') \X Names
        <4>1. /\ p \in (DOMAIN nodes) \X Names /\ p[1] \in DOMAIN nodes /\ p[2] \in Names
              /\ p[2] \in DOMAIN nodes[p[1]].entries
          BY DEF NamesOf
        <4>2. p[1] \notin gone
          BY <4>1, MovesPlaces
        <4> QED
          BY <4>1, <4>2 DEF MovesTo
      <3>2. g \in (DOMAIN nodes') \X Names
        BY <1>1
      <3> QED
        BY <3>1, <3>2
    <2>2. ASSUME NEW d \in DOMAIN nodes', NEW n \in Names
          PROVE  <<d, n>> \in S(i) <=> n \in DOMAIN nodes'[d].entries /\ nodes'[d].entries[n] = i
      <3>1. d \in DOMAIN nodes
        BY DEF MovesTo
      <3>2. CASE d = to.dir /\ n = to.name
        BY <1>1, <3>2 DEF MovesTo
      <3>3. CASE d = from.dir /\ n = from.name
        <4>1. n \notin DOMAIN nodes'[d].entries
          BY <1>1, <3>3 DEF MovesTo
        <4>2. i # ino => <<d, n>> \notin NamesOf(i)
          BY <3>3 DEF Moves, NamesOf
        <4> QED
          BY <1>1, <3>3, <4>1, <4>2
      <3>4. CASE ~(d = to.dir /\ n = to.name) /\ ~(d = from.dir /\ n = from.name)
        <4>1. /\ n \in DOMAIN nodes'[d].entries <=> n \in DOMAIN nodes[d].entries
              /\ n \in DOMAIN nodes[d].entries => nodes'[d].entries[n] = nodes[d].entries[n]
          BY <1>1, <3>4 DEF MovesTo
        <4>2. <<d, n>> # f /\ <<d, n>> # g
          BY <3>4
        <4> QED
          BY <3>1, <4>1, <4>2 DEF NamesOf
      <3> QED
        BY <3>2, <3>3, <3>4
    <2> HIDE DEF S, f, g
    <2> QED
      BY <2>1, <2>2, NamesBecome
  <1> QED
    BY <1>2

\* A move leaves a tree, where the target is not below what is moved.
LEMMA MovesKeeps ==
    ASSUME IInv, NEW ino, NEW from, NEW to, NEW old, NEW gone,
           Moves(ino, from, to, old, gone), MovesTo(ino, from, to, gone)
    PROVE  TreeInv'
  <1> USE DEF Is
  <1>1. /\ ino \in DOMAIN nodes /\ ino # Root /\ ino \notin Ancestry(to.dir) /\ ino \notin gone
        /\ to.dir \in DOMAIN nodes /\ nodes[to.dir].kind = "dir" /\ to.dir \in DOMAIN nodes'
        /\ to.name \notin Dots /\ from.name \notin Dots
        /\ Root \in DOMAIN nodes /\ Root \in DOMAIN nodes'
    <2>1. /\ ino \in DOMAIN nodes /\ ino # Root /\ ino \notin Ancestry(to.dir)
          /\ to.dir \in DOMAIN nodes /\ nodes[to.dir].kind = "dir"
          /\ to.name \in Names /\ from.name \in Names
      BY DEF Moves
    <2>2. to.name \notin Dots /\ from.name \notin Dots
      BY <2>1, NameOrDot DEF Components
    <2>3. Root \in DOMAIN nodes /\ DOMAIN nodes' = DOMAIN nodes \ gone
      BY DEF IInv, Shape, MovesTo
    <2>4. to.dir \notin gone /\ Root \notin gone /\ ino \notin gone
      BY MovesPlaces
    <2> QED
      BY <2>1, <2>2, <2>3, <2>4
  <1>2. /\ NodeMap(nodes') /\ DOMAIN nodes' = DOMAIN nodes \ gone
        /\ \A d \in DOMAIN nodes' : nodes'[d].kind = nodes[d].kind
    BY DEF MovesTo
  <1>3. ASSUME NEW d \in DOMAIN nodes'
        PROVE  /\ d \in DOMAIN nodes
               /\ \A m : m \in DOMAIN nodes'[d].entries <=>
                           \/ d = to.dir /\ m = to.name
                           \/ m \in DOMAIN nodes[d].entries /\ ~(d = from.dir /\ m = from.name)
               /\ \A m \in DOMAIN nodes'[d].entries :
                     nodes'[d].entries[m] = IF d = to.dir /\ m = to.name THEN ino
                                            ELSE IF d = ino /\ m = ".." THEN to.dir
                                            ELSE nodes[d].entries[m]
    BY DEF MovesTo
  <1>4. ASSUME NEW d \in DOMAIN nodes', nodes[d].kind # "dir"
        PROVE  DOMAIN nodes'[d].entries = {}
    <2>1. DOMAIN nodes[d].entries = {} /\ d # to.dir
      BY <1>1, <1>3, <1>4 DEF IInv, Shape
    <2>2. \A m : m \notin DOMAIN nodes'[d].entries
      BY <1>3, <2>1
    <2> QED
      BY <2>2
  <1>5. ASSUME NEW d \in DOMAIN nodes', nodes[d].kind = "dir"
        PROVE  /\ "." \in DOMAIN nodes'[d].entries /\ ".." \in DOMAIN nodes'[d].entries
               /\ nodes'[d].entries["."] = d
               /\ nodes'[d].entries[".."] = IF d = ino THEN to.dir ELSE nodes[d].entries[".."]
    <2>1. "." \in DOMAIN nodes[d].entries /\ ".." \in DOMAIN nodes[d].entries /\ nodes[d].entries["."] = d
      BY <1>3, <1>5, DotEntry
    <2>2. to.name # "." /\ to.name # ".." /\ from.name # "." /\ from.name # ".."
      BY <1>1 DEF Dots
    <2>3. "." \in DOMAIN nodes'[d].entries /\ ".." \in DOMAIN nodes'[d].entries
      BY <1>3, <2>1, <2>2
    <2> QED
      BY <1>3, <2>1, <2>2, <2>3
  <1>6. ASSUME NEW d \in DOMAIN nodes', NEW n \in Names, n \in DOMAIN nodes'[d].entries
        PROVE  nodes'[d].entries[n] \in DOMAIN nodes'
    <2>1. CASE d = to.dir /\ n = to.name
      BY <1>1, <1>2, <1>3, <1>6, <2>1
    <2>2. CASE ~(d = to.dir /\ n = to.name)
      <3>1. n # ".."
        BY NameOrDot DEF Components, Dots
      <3>2. d \in DOMAIN nodes /\ n \in DOMAIN nodes[d].entries /\ nodes'[d].entries[n] = nodes[d].entries[n]
        BY <1>3, <1>6, <2>2, <3>1
      <3>3. nodes[d].entries[n] \in DOMAIN nodes /\ <<d, n>> \in NamesOf(nodes[d].entries[n])
        BY <3>2, Entry
      <3>4. nodes[d].entries[n] \notin gone
        <4>1. ASSUME nodes[d].entries[n] \in gone PROVE FALSE
          <5>1. <<d, n>> \in NamesOf(old) /\ NamesOf(old) = {<<to.dir, to.name>>}
            BY <3>3, <4>1 DEF Moves
          <5> QED
            BY <2>2, <5>1
        <4> QED
          BY <4>1
      <3> QED
        BY <1>2, <3>2, <3>3, <3>4
    <2> QED
      BY <2>1, <2>2
  <1>7. NamesOf(Root)' = {}
    BY <1>1, MovesNames DEF IInv, RootOnTop
  <1>8. ASSUME NEW d \in DOMAIN nodes' \ {Root}, nodes[d].kind = "dir"
        PROVE  \E name \in Names : NamesOf(d)' = {<<nodes'[d].entries[".."], name>>}
    <2>1. PICK name \in Names : NamesOf(d) = {<<nodes[d].entries[".."], name>>}
      BY <1>3, <1>8, DotEntry
    <2>2. CASE d = ino
      <3>1. <<from.dir, from.name>> \in NamesOf(ino)
        BY Entry DEF Moves
      <3>2. NamesOf(d)' = {<<to.dir, to.name>>}
        BY <2>1, <2>2, <3>1, MovesNames
      <3>3. nodes'[d].entries[".."] = to.dir /\ to.name \in Names
        BY <1>5, <1>8, <2>2 DEF Moves
      <3> QED
        BY <3>2, <3>3
    <2>3. CASE d # ino
      <3>1. d # old
        BY <1>2, <1>8 DEF Moves
      <3>2. <<to.dir, to.name>> \notin NamesOf(d)
        BY <3>1 DEF Moves, NamesOf
      <3>3. NamesOf(d)' = NamesOf(d)
        BY <2>3, <3>2, MovesNames
      <3> QED
        BY <1>5, <1>8, <2>1, <2>3, <3>3
    <2> QED
      BY <2>2, <2>3
  <1> QED
    BY <1>1, <1>2, <1>3, <1>4, <1>5, <1>6, <1>7, <1>8, TreeKept

-----------------------------------------------------------------------------
(* Link counts, and what is kept for descriptors *)

\* The link count of what waits for no descriptor.
Counted ==
    \A ino \in DOMAIN nodes :
        ~Is(ino, "dir") /\ ino \notin unlinked => nodes[ino].links = Cardinality(NamesOf(ino))

\* The parts of IInv make IInv.
LEMMA AllTogether ==
    ASSUME TreeInv', Counted', KeptWhileOpen', Nameless',
           next' \in Inos \cup {MaxInodes + 1}, DOMAIN nodes' \subseteq Root .. (next' - 1),
           open' \in [Fds -> Inos \cup {NoIno}], unlinked' \subseteq DOMAIN nodes'
    PROVE  IInv'
  <1>1. TypeOK'
    BY EntryMapType DEF TypeOK, TreeInv, Shape, NodeMap, NodeType
  <1> QED
    BY <1>1 DEF IInv, InodesFollowNames, LinksAreNames, TreeInv, Counted

\* Calls that make a node keep IInv.
LEMMA ArrivesInv ==
    ASSUME IInv, NEW node, NEW at, Arrives(node, at),
           next' = next + 1, unlinked' = unlinked,
           \/ open' = open
           \/ /\ node.kind = "file"
              /\ \E fd \in Fds : open[fd] = NoIno /\ open' = [open EXCEPT ![fd] = next]
    PROVE  IInv'
  <1>1. /\ next \in Inos /\ next \notin DOMAIN nodes /\ node.links = 1
        /\ DOMAIN nodes \subseteq Root .. (next - 1) /\ unlinked \subseteq DOMAIN nodes
        /\ open \in [Fds -> Inos \cup {NoIno}]
    BY DEF Arrives, IInv, InodesFollowNames, TypeOK
  <1>2. /\ TreeInv' /\ DOMAIN nodes' = DOMAIN nodes \cup {next} /\ nodes'[next] = node
        /\ \A i \in DOMAIN nodes : nodes'[i].links = nodes[i].links /\ nodes'[i].kind = nodes[i].kind
    BY ArrivesKeeps
  <1>3. ASSUME NEW i \in DOMAIN nodes PROVE NamesOf(i)' = NamesOf(i)
    BY <1>1, ArrivesNames
  <1>4. /\ next' \in Inos \cup {MaxInodes + 1} /\ DOMAIN nodes' \subseteq Root .. (next' - 1)
        /\ unlinked' \subseteq DOMAIN nodes'
    BY <1>1, <1>2, ConstantTypes DEF Inos, Root
  <1>5. /\ open' \in [Fds -> Inos \cup {NoIno}]
        /\ \A fd \in Fds : \/ open'[fd] = open[fd]
                           \/ open[fd] = NoIno /\ open'[fd] = next /\ node.kind = "file"
    BY <1>1
  <1>6. Counted'
    <2> SUFFICES ASSUME NEW i \in DOMAIN nodes', nodes'[i].kind # "dir", i \notin unlinked
                 PROVE  nodes'[i].links = Cardinality(NamesOf(i)')
      BY DEF Counted, Is
    <2>1. CASE i = next
      <3>1. NamesOf(i)' = {<<at.dir, at.name>>}
        BY <2>1, ArrivesNames
      <3> QED
        BY <1>1, <1>2, <2>1, <3>1, FS_Singleton
    <2>2. CASE i # next
      BY <1>2, <1>3, <2>2 DEF IInv, InodesFollowNames, LinksAreNames, Is
    <2> QED
      BY <2>1, <2>2
  <1>7. KeptWhileOpen'
    <2>1. ASSUME NEW i \in DOMAIN nodes' \ {Root}, NamesOf(i)' = {}
          PROVE  (\E fd \in Fds : open'[fd] = i) /\ i \in unlinked
      <3>1. i \in DOMAIN nodes /\ i # NoIno
        BY <1>1, <1>2, <2>1, ArrivesNames, NobodyMoves
      <3>2. IsOpen(i) /\ i \in unlinked
        BY <1>3, <2>1, <3>1 DEF IInv, InodesFollowNames, KeptWhileOpen
      <3> QED
        BY <1>5, <3>1, <3>2 DEF IsOpen
    <2>2. ASSUME NEW fd \in Fds, open'[fd] # NoIno
          PROVE  open'[fd] \in DOMAIN nodes' /\ nodes'[open'[fd]].kind = "file"
      <3>1. CASE open'[fd] = open[fd]
        BY <1>2, <2>2, <3>1 DEF IInv, InodesFollowNames, KeptWhileOpen, Is
      <3>2. CASE open'[fd] # open[fd]
        BY <1>2, <1>5, <3>2
      <3> QED
        BY <3>1, <3>2
    <2> QED
      BY <2>1, <2>2 DEF KeptWhileOpen, IsOpen, Is
  <1>8. Nameless'
    BY <1>1, <1>2, <1>3 DEF Nameless, IInv
  <1> QED
    BY <1>2, <1>4, <1>5, <1>6, <1>7, <1>8, AllTogether

\* Calls that give a node another name keep IInv.
LEMMA LinksInv ==
    ASSUME IInv, NEW ino, NEW at, Links(ino, at), UNCHANGED <<next, open, unlinked>>
    PROVE  IInv'
  <1>1. /\ next \in Inos \cup {MaxInodes + 1}
        /\ DOMAIN nodes \subseteq Root .. (next - 1) /\ unlinked \subseteq DOMAIN nodes
        /\ open \in [Fds -> Inos \cup {NoIno}]
    BY DEF IInv, InodesFollowNames, TypeOK
  <1>2. /\ DOMAIN nodes' = DOMAIN nodes
        /\ \A d \in DOMAIN nodes :
              /\ nodes'[d].kind = nodes[d].kind
              /\ nodes'[d].links = IF d = ino THEN nodes[d].links + 1 ELSE nodes[d].links
    BY LinksChanges
  <1>3. Counted'
    <2> SUFFICES ASSUME NEW i \in DOMAIN nodes, nodes[i].kind # "dir", i \notin unlinked
                 PROVE  nodes'[i].links = Cardinality(NamesOf(i)')
      BY <1>2 DEF Counted, Is
    <2>1. nodes[i].links = Cardinality(NamesOf(i))
      BY DEF IInv, InodesFollowNames, LinksAreNames, Is
    <2>2. CASE i = ino
      <3>1. NamesOf(i)' = NamesOf(i) \cup {<<at.dir, at.name>>} /\ <<at.dir, at.name>> \notin NamesOf(i)
        BY <2>2, LinksNames
      <3>2. Cardinality(NamesOf(i)') = Cardinality(NamesOf(i)) + 1
        BY <3>1, FiniteNames, FS_AddElement
      <3> QED
        BY <1>2, <2>1, <2>2, <3>2
    <2>3. CASE i # ino
      BY <1>2, <2>1, <2>3, LinksNames
    <2> QED
      BY <2>2, <2>3
  <1>4. KeptWhileOpen'
    <2>1. ASSUME NEW i \in DOMAIN nodes \ {Root}, NamesOf(i)' = {} PROVE IsOpen(i) /\ i \in unlinked
      <3>1. NamesOf(i) = {}
        BY <2>1, LinksNames
      <3> QED
        BY <3>1 DEF IInv, InodesFollowNames, KeptWhileOpen
    <2> QED
      BY <1>2, <2>1 DEF IInv, InodesFollowNames, KeptWhileOpen, IsOpen, Is
  <1>5. Nameless'
    BY <1>1, <1>2, LinksNames DEF Nameless, IInv, Links
  <1> QED
    BY <1>1, <1>2, <1>3, <1>4, <1>5, LinksKeeps, AllTogether

\* What stays of ino is counted or waits for its last close, and no descriptor but of
\* ino is closed.
Counts(ino, at) ==
    /\ ino \in DOMAIN nodes' /\ ino \notin unlinked' =>
          nodes'[ino].links = Cardinality(NamesOf(ino) \ {<<at.dir, at.name>>})
    /\ ino \in DOMAIN nodes' /\ NamesOf(ino) \subseteq {<<at.dir, at.name>>} =>
          ino \in unlinked' /\ \E fd \in Fds : open'[fd] = ino
    /\ ino \in unlinked' => NamesOf(ino) \subseteq {<<at.dir, at.name>>} /\ ~Is(ino, "dir")
Closes(ino, gone) ==
    /\ open' \in [Fds -> Inos \cup {NoIno}]
    /\ \A fd \in Fds : open'[fd] = open[fd] \/ (open[fd] = ino /\ open'[fd] = NoIno)
    /\ \A fd \in Fds : open'[fd] \notin gone
    /\ \A i : i # ino => (i \in unlinked' <=> i \in unlinked)
    /\ ino \in unlinked' => ino \notin gone

\* Calls that take a name away, count it and free what has none left keep IInv.
LEMMA DepartsInv ==
    ASSUME IInv, NEW ino, NEW at, NEW gone, Departs(ino, at, gone),
           Counts(ino, at), Closes(ino, gone), next' = next
    PROVE  IInv'
  <1>1. /\ next \in Inos \cup {MaxInodes + 1}
        /\ DOMAIN nodes \subseteq Root .. (next - 1) /\ unlinked \subseteq DOMAIN nodes
        /\ open \in [Fds -> Inos \cup {NoIno}]
    BY DEF IInv, InodesFollowNames, TypeOK
  <1>2. /\ ino \in DOMAIN nodes /\ gone \subseteq {ino}
        /\ DOMAIN nodes' = DOMAIN nodes \ gone
    BY DEF Departs
  <1>3. \A d \in DOMAIN nodes' : /\ d \in DOMAIN nodes /\ nodes'[d].kind = nodes[d].kind
                                 /\ d # ino => nodes'[d].links = nodes[d].links
    BY DEF Departs
  <1>4. ASSUME NEW i, i # ino PROVE NamesOf(i)' = NamesOf(i)
    <2>1. <<at.dir, at.name>> \notin NamesOf(i)
      BY <1>4 DEF Departs, NamesOf
    <2> QED
      BY <2>1, DepartsNames
  <1>5. NamesOf(ino)' = NamesOf(ino) \ {<<at.dir, at.name>>}
    BY DepartsNames
  <1>6. unlinked' \subseteq DOMAIN nodes'
    <2> SUFFICES ASSUME NEW i \in unlinked' PROVE i \in DOMAIN nodes'
      OBVIOUS
    <2>1. i \in DOMAIN nodes /\ i \notin gone
      BY <1>1, <1>2 DEF Closes
    <2> QED
      BY <1>2, <2>1
  <1>7. Counted'
    <2> SUFFICES ASSUME NEW i \in DOMAIN nodes', nodes'[i].kind # "dir", i \notin unlinked'
                 PROVE  nodes'[i].links = Cardinality(NamesOf(i)')
      BY DEF Counted, Is
    <2>1. CASE i = ino
      BY <1>5, <2>1 DEF Counts
    <2>2. CASE i # ino
      <3>1. i \in DOMAIN nodes /\ nodes[i].kind # "dir" /\ i \notin unlinked
        BY <1>3, <2>2 DEF Closes
      <3>2. nodes[i].links = Cardinality(NamesOf(i))
        BY <3>1 DEF IInv, InodesFollowNames, LinksAreNames, Is
      <3> QED
        BY <1>3, <1>4, <2>2, <3>2
    <2> QED
      BY <2>1, <2>2
  <1>8. KeptWhileOpen'
    <2>1. ASSUME NEW i \in DOMAIN nodes' \ {Root}, NamesOf(i)' = {}
          PROVE  (\E fd \in Fds : open'[fd] = i) /\ i \in unlinked'
      <3>1. CASE i = ino
        BY <1>5, <2>1, <3>1 DEF Counts
      <3>2. CASE i # ino
        <4>1. i \in DOMAIN nodes /\ NamesOf(i) = {}
          BY <1>2, <1>4, <2>1, <3>2
        <4>2. IsOpen(i) /\ i \in unlinked
          BY <4>1 DEF IInv, InodesFollowNames, KeptWhileOpen
        <4> QED
          BY <3>2, <4>2 DEF IsOpen, Closes
      <3> QED
        BY <3>1, <3>2
    <2>2. ASSUME NEW fd \in Fds, open'[fd] # NoIno
          PROVE  open'[fd] \in DOMAIN nodes' /\ nodes'[open'[fd]].kind = "file"
      <3>1. open'[fd] = open[fd]
        BY <2>2 DEF Closes
      <3>2. open[fd] \in DOMAIN nodes /\ nodes[open[fd]].kind = "file"
        BY <2>2, <3>1 DEF IInv, InodesFollowNames, KeptWhileOpen, Is
      <3>3. open'[fd] \in DOMAIN nodes'
        BY <1>2, <3>1, <3>2 DEF Closes
      <3> QED
        BY <1>3, <3>1, <3>2, <3>3
    <2> QED
      BY <2>1, <2>2 DEF KeptWhileOpen, IsOpen, Is
  <1>9. Nameless'
    <2> SUFFICES ASSUME NEW i \in unlinked' PROVE NamesOf(i)' = {} /\ nodes'[i].kind # "dir"
      BY DEF Nameless
    <2>1. CASE i = ino
      <3>1. NamesOf(ino)' = {}
        BY <1>5, <2>1 DEF Counts
      <3>2. i \in DOMAIN nodes' /\ nodes[i].kind # "dir"
        BY <1>2, <1>6, <2>1 DEF Is, Counts
      <3> QED
        BY <1>3, <2>1, <3>1, <3>2
    <2>2. CASE i # ino
      <3>1. NamesOf(i) = {} /\ nodes[i].kind # "dir"
        BY <2>2 DEF IInv, Nameless, Closes
      <3> QED
        BY <1>3, <1>4, <1>6, <2>2, <3>1
    <2> QED
      BY <2>1, <2>2
  <1>10. next' \in Inos \cup {MaxInodes + 1} /\ DOMAIN nodes' \subseteq Root .. (next' - 1)
    BY <1>1, <1>2
  <1> QED
    BY <1>6, <1>7, <1>8, <1>9, <1>10, DepartsKeeps, AllTogether DEF Closes

\* A file that rename replaced while it was open waits for its last close.
LEMMA MovesInv ==
    ASSUME IInv, NEW ino, NEW from, NEW to, NEW old, NEW gone,
           Moves(ino, from, to, old, gone), MovesTo(ino, from, to, gone),
           UNCHANGED <<next, open>>, unlinked' = unlinked \cup Replaced(old),
           old \in DOMAIN nodes => to.name \in DOMAIN nodes[to.dir].entries,
           gone = IF old \in DOMAIN nodes /\ (Is(old, "dir") \/ ~IsOpen(old)) THEN {old} ELSE {}
    PROVE  IInv'
  <1>1. /\ next \in Inos \cup {MaxInodes + 1}
        /\ DOMAIN nodes \subseteq Root .. (next - 1) /\ unlinked \subseteq DOMAIN nodes
        /\ open \in [Fds -> Inos \cup {NoIno}]
    BY DEF IInv, InodesFollowNames, TypeOK
  <1>2. /\ ino \in DOMAIN nodes /\ ino # old /\ ino \notin gone
        /\ DOMAIN nodes' = DOMAIN nodes \ gone
        /\ \A d \in DOMAIN nodes' : nodes'[d].kind = nodes[d].kind /\ nodes'[d].links = nodes[d].links
    BY MovesPlaces DEF Moves, MovesTo
  <1> DEFINE f == <<from.dir, from.name>>
             g == <<to.dir, to.name>>
  <1>3. f \in NamesOf(ino) /\ g \notin NamesOf(ino) /\ f # g
    BY MovesPlaces, Entry DEF Moves, NamesOf
  <1>4. NamesOf(ino)' = (NamesOf(ino) \ {f}) \cup {g}
    BY MovesNames
  <1>5. ASSUME old \in DOMAIN nodes PROVE NamesOf(old)' = {} /\ NamesOf(old) = {g}
    <2>1. NamesOf(old) = {g}
      BY <1>5 DEF Moves
    <2>2. NamesOf(old)' = NamesOf(old) \ {g}
      BY <1>2, MovesNames
    <2> QED
      BY <2>1, <2>2
  <1>6. ASSUME NEW i, i # ino, i # old PROVE NamesOf(i)' = NamesOf(i)
    <2>1. g \notin NamesOf(i)
      BY <1>6 DEF Moves, NamesOf
    <2> QED
      BY <1>6, <2>1, MovesNames
  <1>7. \A i \in unlinked : i # ino /\ i # old
    BY <1>1, <1>3, <1>5 DEF IInv, Nameless
  <1>8. unlinked' \subseteq DOMAIN nodes' /\ \A i \in unlinked' : i \in unlinked \/ i = old
    BY <1>1, <1>2, <1>7 DEF Replaced, IsLeaf, Is
  <1> HIDE DEF f, g
  <1>9. Counted'
    <2> SUFFICES ASSUME NEW i \in DOMAIN nodes', nodes'[i].kind # "dir", i \notin unlinked'
                 PROVE  nodes'[i].links = Cardinality(NamesOf(i)')
      BY DEF Counted, Is
    <2>1. i \in DOMAIN nodes /\ nodes[i].kind # "dir" /\ i \notin unlinked
      BY <1>2
    <2>2. nodes'[i].links = Cardinality(NamesOf(i))
      BY <1>2, <2>1 DEF IInv, InodesFollowNames, LinksAreNames, Is
    <2>3. i # old
      BY <1>2, <2>1 DEF Replaced, IsLeaf, Is
    <2>4. CASE i = ino
      <3>1. IsFiniteSet(NamesOf(i)) /\ Cardinality(NamesOf(i)) \in Nat
        BY FiniteNames
      <3>2. IsFiniteSet(NamesOf(i) \ {f}) /\ Cardinality(NamesOf(i) \ {f}) = Cardinality(NamesOf(i)) - 1
        BY <1>3, <2>4, <3>1, FS_RemoveElement
      <3>3. g \notin NamesOf(i) \ {f}
        BY <1>3, <2>4
      <3>4. Cardinality((NamesOf(i) \ {f}) \cup {g}) = Cardinality(NamesOf(i) \ {f}) + 1
        BY <3>2, <3>3, FS_AddElement
      <3>5. NamesOf(i)' = (NamesOf(i) \ {f}) \cup {g}
        BY <1>4, <2>4
      <3>6. Cardinality(NamesOf(i)) - 1 + 1 = Cardinality(NamesOf(i))
        BY <3>1
      <3> QED
        BY <2>2, <3>2, <3>4, <3>5, <3>6
    <2>5. CASE i # ino
      BY <1>6, <2>2, <2>3, <2>5
    <2> QED
      BY <2>4, <2>5
  <1>10. KeptWhileOpen'
    <2>1. ASSUME NEW i \in DOMAIN nodes' \ {Root}, NamesOf(i)' = {}
          PROVE  IsOpen(i) /\ i \in unlinked'
      <3>1. CASE i = old
        BY <1>2, <3>1 DEF Replaced, IsLeaf, Is
      <3>2. CASE i # old
        <4>1. i # ino
          BY <1>4, <2>1
        <4>2. NamesOf(i) = {} /\ i \in DOMAIN nodes
          BY <1>2, <1>6, <2>1, <3>2, <4>1
        <4> QED
          BY <4>2 DEF IInv, InodesFollowNames, KeptWhileOpen
      <3> QED
        BY <3>1, <3>2
    <2>2. ASSUME NEW fd \in Fds, open[fd] # NoIno
          PROVE  open[fd] \in DOMAIN nodes' /\ nodes'[open[fd]].kind = "file"
      <3>1. open[fd] \in DOMAIN nodes /\ nodes[open[fd]].kind = "file"
        BY <2>2 DEF IInv, InodesFollowNames, KeptWhileOpen, Is
      <3>2. open[fd] \notin gone
        BY <3>1 DEF IsOpen, Is
      <3> QED
        BY <1>2, <3>1, <3>2
    <2> QED
      BY <2>1, <2>2 DEF KeptWhileOpen, IsOpen, Is
  <1>11. Nameless'
    <2> SUFFICES ASSUME NEW i \in unlinked' PROVE NamesOf(i)' = {} /\ nodes'[i].kind # "dir"
      BY DEF Nameless
    <2>1. CASE i \in unlinked
      <3>1. NamesOf(i) = {} /\ nodes[i].kind # "dir"
        BY <2>1 DEF IInv, Nameless
      <3> QED
        BY <1>2, <1>6, <1>7, <1>8, <2>1, <3>1
    <2>2. CASE i \notin unlinked
      BY <1>2, <1>5, <1>8, <2>2 DEF Replaced, IsLeaf
    <2> QED
      BY <2>1, <2>2
  <1>12. next' \in Inos \cup {MaxInodes + 1} /\ DOMAIN nodes' \subseteq Root .. (next' - 1)
    BY <1>1, <1>2
  <1> QED
    BY <1>1, <1>8, <1>9, <1>10, <1>11, <1>12, MovesKeeps, AllTogether

-----------------------------------------------------------------------------
(* The calls *)

\* The kinds of new nodes.
LEMMA NewNodes ==
    ASSUME NEW kind \in {"file", "link"}, NEW target \in Seq(Components)
    PROVE  /\ Node(kind, target) \in NodeType /\ Node(kind, target).kind = kind
           /\ Node(kind, target).links = 1 /\ DOMAIN Node(kind, target).entries = {}
  <1>1. <<>> \in [{} -> Inos] /\ DOMAIN <<>> = {}
    OBVIOUS
  <1>2. <<>> \in EntryMaps
    BY <1>1, EntryMap
  <1> QED
    BY <1>1, <1>2 DEF Node, NodeType

\* A directory that mkdir makes has its dots.
LEMMA NewDirectory ==
    ASSUME NEW f \in [Dots -> Inos]
    PROVE  LET node == [Node("dir", <<>>) EXCEPT !.entries = f]
           IN  /\ node \in NodeType /\ node.kind = "dir" /\ node.links = 1
               /\ node.entries = f
  <1>1. f \in EntryMaps
    BY EntryMap DEF Components
  <1>2. <<>> \in Seq(Components)
    OBVIOUS
  <1>3. [Node("dir", <<>>) EXCEPT !.entries = f]
            = [kind |-> "dir", links |-> 1, entries |-> f, target |-> <<>>]
    BY DEF Node
  <1>4. [kind |-> "dir", links |-> 1, entries |-> f, target |-> <<>>] \in NodeType
    BY <1>1, <1>2 DEF NodeType
  <1> QED
    BY <1>3, <1>4

\* A new node at a vacant place.
LEMMA VacantArrives ==
    ASSUME IInv, NEW at, Vacant(at), next \in Inos, NEW node \in NodeType, node.links = 1,
           node.kind # "dir" => DOMAIN node.entries = {},
           node.kind = "dir" => /\ DOMAIN node.entries = Dots
                                /\ node.entries["."] = next /\ node.entries[".."] = at.dir,
           nodes' = WithNew(node, at)
    PROVE  Arrives(node, at)
  <1>1. next \notin DOMAIN nodes
    BY DEF IInv, InodesFollowNames, TypeOK, Inos, Root
  <1> QED
    BY <1>1, VacantPlace DEF Vacant, Arrives

\* Creating a file keeps IInv.
LEMMA CreateInv ==
    ASSUME IInv, NEW path, Create(path)
    PROVE  IInv'
  <1>1. PICK at : at = Follow(path)
    OBVIOUS
  <1>2. /\ Vacant(at) /\ next \in Inos /\ nodes' = WithNew(Node("file", <<>>), at)
        /\ next' = next + 1 /\ unlinked' = unlinked
        /\ \E fd \in Fds : open[fd] = NoIno /\ open' = [open EXCEPT ![fd] = next]
    BY <1>1 DEF Create, Opens
  <1>3. /\ Node("file", <<>>) \in NodeType /\ Node("file", <<>>).kind = "file"
        /\ Node("file", <<>>).links = 1 /\ DOMAIN Node("file", <<>>).entries = {}
    <2>1. <<>> \in Seq(Components)
      OBVIOUS
    <2> QED
      BY <2>1, NewNodes
  <1>4. Arrives(Node("file", <<>>), at)
    BY <1>2, <1>3, VacantArrives
  <1> QED
    BY <1>2, <1>3, <1>4, ArrivesInv

\* symlink keeps IInv.
LEMMA SymlinkInv ==
    ASSUME IInv, NEW target \in Targets, NEW path, Symlink(target, path)
    PROVE  IInv'
  <1>1. PICK at : at = Resolve(path)
    OBVIOUS
  <1>2. /\ Vacant(at) /\ next \in Inos /\ nodes' = WithNew(Node("link", target), at)
        /\ next' = next + 1 /\ unlinked' = unlinked /\ open' = open
    BY <1>1 DEF Symlink
  <1>3. /\ Node("link", target) \in NodeType /\ Node("link", target).kind = "link"
        /\ Node("link", target).links = 1 /\ DOMAIN Node("link", target).entries = {}
    BY NewNodes, NamespaceAssumption
  <1>4. Arrives(Node("link", target), at)
    BY <1>2, <1>3, VacantArrives
  <1> QED
    BY <1>2, <1>4, ArrivesInv

\* mkdir keeps IInv.
LEMMA MkdirInv ==
    ASSUME IInv, NEW path, Mkdir(path)
    PROVE  IInv'
  <1>1. PICK at : at = Resolve(path)
    OBVIOUS
  <1>2. PICK f : f = [m \in Dots |-> IF m = "." THEN next ELSE at.dir]
    OBVIOUS
  <1>3. PICK node : node = [Node("dir", <<>>) EXCEPT !.entries = f]
    OBVIOUS
  <1>4. /\ Vacant(at) /\ next \in Inos /\ nodes' = WithNew(node, at)
        /\ next' = next + 1 /\ unlinked' = unlinked /\ open' = open
    BY <1>1, <1>2, <1>3 DEF Mkdir
  <1>5. at.dir \in Inos
    BY <1>4, VacantPlace DEF Vacant, IInv, Shape, NodeMap
  <1>6. f \in [Dots -> Inos] /\ DOMAIN f = Dots /\ f["."] = next /\ f[".."] = at.dir
    BY <1>2, <1>4, <1>5 DEF Dots
  <1>7. /\ node \in NodeType /\ node.kind = "dir" /\ node.links = 1
        /\ node.entries = f
    BY <1>3, <1>6, NewDirectory
  <1>8. Arrives(node, at)
    BY <1>4, <1>6, <1>7, VacantArrives
  <1> QED
    BY <1>4, <1>8, ArrivesInv

\* link keeps IInv.
LEMMA LinkInv ==
    ASSUME IInv, NEW src, NEW dst, Link(src, dst)
    PROVE  IInv'
  <1>1. PICK from : from = Resolve(src)
    OBVIOUS
  <1>2. PICK at : at = Resolve(dst)
    OBVIOUS
  <1>3. PICK ino : ino = Lookup(from)
    OBVIOUS
  <1>4. /\ IsLeaf(ino) /\ Vacant(at) /\ UNCHANGED <<next, open, unlinked>>
        /\ nodes' = AddEntry([nodes EXCEPT ![ino].links = @ + 1], at.dir, at.name, ino)
    BY <1>1, <1>2, <1>3 DEF Link
  <1>5. ino \in DOMAIN nodes /\ ~Is(ino, "dir") /\ ino # Root /\ ino \notin unlinked
    BY <1>3, <1>4, LeafFound
  <1>6. Links(ino, at)
    BY <1>4, <1>5, VacantPlace DEF Links, Vacant
  <1> QED
    BY <1>4, <1>6, LinksInv

\* Opening a file that is there keeps IInv.
LEMMA OpenExistingInv ==
    ASSUME IInv, NEW path, OpenExisting(path)
    PROVE  IInv'
  <1>1. PICK ino : ino = Lookup(Follow(path))
    OBVIOUS
  <1>2. PICK fd \in Fds : open[fd] = NoIno /\ open' = [open EXCEPT ![fd] = ino]
    BY <1>1 DEF OpenExisting, Opens
  <1>3. /\ ino \in DOMAIN nodes /\ nodes[ino].kind = "file" /\ ino \in Inos
        /\ UNCHANGED <<nodes, next, unlinked>>
    BY <1>1 DEF OpenExisting, Is, IInv, Shape, NodeMap
  <1>4. /\ TreeInv' /\ Nameless' /\ Counted'
        /\ next' \in Inos \cup {MaxInodes + 1} /\ DOMAIN nodes' \subseteq Root .. (next' - 1)
        /\ unlinked' \subseteq DOMAIN nodes'
    BY <1>3 DEF IInv, InodesFollowNames, TypeOK, LinksAreNames, TreeInv, Counted, Nameless,
                Shape, DotsFollowTree, RootOnTop, Rooted, Ancestry, Climbs, IsAbove, NamesOf, Is
  <1>5. open' \in [Fds -> Inos \cup {NoIno}] /\ open \in [Fds -> Inos \cup {NoIno}]
    BY <1>2, <1>3 DEF IInv, InodesFollowNames, TypeOK
  <1>6. KeptWhileOpen'
    <2>1. NoIno \notin DOMAIN nodes
      BY NobodyMoves
    <2>2. ASSUME NEW i \in DOMAIN nodes, IsOpen(i) PROVE \E g \in Fds : open'[g] = i
      BY <1>2, <1>5, <2>1, <2>2 DEF IsOpen
    <2>3. \A g \in Fds : open'[g] # NoIno => open'[g] \in DOMAIN nodes /\ nodes[open'[g]].kind = "file"
      BY <1>2, <1>3, <1>5 DEF IInv, InodesFollowNames, KeptWhileOpen, Is
    <2> QED
      BY <1>3, <2>2, <2>3 DEF IInv, InodesFollowNames, KeptWhileOpen, IsOpen, Is, NamesOf
  <1> QED
    BY <1>4, <1>5, <1>6, AllTogether

\* close keeps IInv.
LEMMA CloseInv ==
    ASSUME IInv, NEW fd \in Fds, Close(fd)
    PROVE  IInv'
  <1>1. PICK ino : ino = open[fd]
    OBVIOUS
  <1>2. /\ ino # NoIno /\ open' = [open EXCEPT ![fd] = NoIno] /\ next' = next
        /\ open \in [Fds -> Inos \cup {NoIno}] /\ ino \in Inos
    BY <1>1 DEF Close, IInv, InodesFollowNames, TypeOK
  <1>3. /\ ino \in DOMAIN nodes /\ nodes[ino].kind = "file"
        /\ \A g \in Fds : open[g] # NoIno => Is(open[g], "file")
    BY <1>1, <1>2 DEF IInv, InodesFollowNames, KeptWhileOpen, Is
  <1>4. \A g \in Fds : open'[g] = IF g = fd THEN NoIno ELSE open[g]
    BY <1>2
  <1>5. open' \in [Fds -> Inos \cup {NoIno}]
    BY <1>2
  <1>6. CASE ino \in unlinked /\ \A g \in Fds \ {fd} : open[g] # ino
    <2>1. nodes' = Free(nodes, ino) /\ unlinked' = unlinked \ {ino}
      BY <1>1, <1>6 DEF Close
    <2>2. /\ NodeMap(nodes') /\ DOMAIN nodes' = DOMAIN nodes \ {ino}
          /\ \A i \in DOMAIN nodes \ {ino} : nodes'[i] = nodes[i]
      BY <2>1, Freed DEF IInv, Shape
    <2>3. NamesOf(ino) = {} /\ Nowhere.dir = NoIno /\ NoIno \notin DOMAIN nodes /\ Root # ino
      BY <1>3, <1>6, NobodyMoves DEF IInv, Nameless, Nowhere, Is
    <2>4. Departs(ino, Nowhere, {ino})
      BY <1>3, <2>2, <2>3 DEF Departs, Is
    <2>5. Counts(ino, Nowhere)
      BY <2>1, <2>2 DEF Counts
    <2>6. Closes(ino, {ino})
      BY <1>1, <1>2, <1>4, <1>5, <1>6, <2>1 DEF Closes
    <2> QED
      BY <1>2, <2>4, <2>5, <2>6, DepartsInv
  <1>7. CASE ~(ino \in unlinked /\ \A g \in Fds \ {fd} : open[g] # ino)
    <2>1. nodes' = nodes /\ unlinked' = unlinked
      BY <1>1, <1>7 DEF Close
    <2>2. /\ TreeInv' /\ Nameless' /\ Counted'
          /\ next' \in Inos \cup {MaxInodes + 1} /\ DOMAIN nodes' \subseteq Root .. (next' - 1)
          /\ unlinked' \subseteq DOMAIN nodes'
      BY <1>2, <2>1 DEF IInv, InodesFollowNames, TypeOK, LinksAreNames, TreeInv, Counted, Nameless,
                Shape, DotsFollowTree, RootOnTop, Rooted, Ancestry, Climbs, IsAbove, NamesOf, Is
    <2>3. KeptWhileOpen'
      <3>1. ASSUME NEW i \in unlinked, IsOpen(i) PROVE \E g \in Fds : open'[g] = i
        <4>1. PICK g \in Fds : open[g] = i
          BY <3>1 DEF IsOpen
        <4>2. CASE g # fd
          BY <1>4, <4>1, <4>2
        <4>3. CASE g = fd
          BY <1>1, <1>4, <1>7, <4>1, <4>3
        <4> QED
          BY <4>2, <4>3
      <3>2. \A g \in Fds : open'[g] # NoIno => Is(open'[g], "file")
        BY <1>3, <1>4
      <3> QED
        BY <2>1, <3>1, <3>2 DEF IInv, InodesFollowNames, KeptWhileOpen, IsOpen, Is, NamesOf
    <2> QED
      BY <1>5, <2>2, <2>3, AllTogether
  <1> QED
    BY <1>6, <1>7

\* Outside the directory of the entry, and beside it there, nothing is removed.
LEMMA EntryRemoved ==
    ASSUME IInv, NEW at, at.dir \in DOMAIN nodes
    PROVE  LET new == RemoveEntry(nodes, at.dir, at.name)
           IN  /\ NodeMap(new) /\ DOMAIN new = DOMAIN nodes
               /\ \A d \in DOMAIN nodes :
                     /\ new[d].kind = nodes[d].kind /\ new[d].links = nodes[d].links
                     /\ DOMAIN new[d].entries = IF d = at.dir THEN DOMAIN nodes[d].entries \ {at.name}
                                                ELSE DOMAIN nodes[d].entries
                     /\ \A m \in DOMAIN new[d].entries : new[d].entries[m] = nodes[d].entries[m]
  <1>1. NodeMap(nodes)
    BY DEF IInv, Shape
  <1> DEFINE new == RemoveEntry(nodes, at.dir, at.name)
  <1>2. /\ NodeMap(new) /\ DOMAIN new = DOMAIN nodes
        /\ \A i \in DOMAIN nodes \ {at.dir} : new[i] = nodes[i]
        /\ new[at.dir].kind = nodes[at.dir].kind /\ new[at.dir].links = nodes[at.dir].links
        /\ DOMAIN new[at.dir].entries = DOMAIN nodes[at.dir].entries \ {at.name}
        /\ \A m \in DOMAIN nodes[at.dir].entries \ {at.name} :
              new[at.dir].entries[m] = nodes[at.dir].entries[m]
    BY <1>1, RemovedEntry
  <1> HIDE DEF new
  <1>3. /\ NodeMap(new) /\ DOMAIN new = DOMAIN nodes
        /\ \A d \in DOMAIN nodes :
              /\ new[d].kind = nodes[d].kind /\ new[d].links = nodes[d].links
              /\ DOMAIN new[d].entries = IF d = at.dir THEN DOMAIN nodes[d].entries \ {at.name}
                                         ELSE DOMAIN nodes[d].entries
              /\ \A m \in DOMAIN new[d].entries : new[d].entries[m] = nodes[d].entries[m]
    BY <1>2
  <1> QED
    BY <1>3 DEF new

\* rmdir of a path without dots keeps IInv.
LEMMA RmdirInv ==
    ASSUME IInv, ~UsesDots, NEW path, Rmdir(path)
    PROVE  IInv'
  <1>1. PICK at : at = Resolve(path)
    OBVIOUS
  <1>2. PICK ino : ino = Lookup(at)
    OBVIOUS
  <1>3. /\ at.name \notin Dots /\ ino \in DOMAIN nodes /\ Is(ino, "dir")
        /\ DOMAIN nodes[ino].entries \subseteq Dots
        /\ nodes' = Free(RemoveEntry(nodes, at.dir, at.name), ino)
        /\ UNCHANGED <<next, open, unlinked>>
    BY <1>1, <1>2 DEF Rmdir, Removable, Is, IsEmpty
  <1>4. /\ at.dir \in DOMAIN nodes /\ at.name \in Names
        /\ at.name \in DOMAIN nodes[at.dir].entries /\ nodes[at.dir].entries[at.name] = ino
        /\ <<at.dir, at.name>> \in NamesOf(ino) /\ ino # Root
    BY <1>2, <1>3, Found, NameOrDot
  <1>5. at.dir # ino
    BY <1>3, <1>4
  <1>6. NamesOf(ino) \subseteq {<<at.dir, at.name>>}
    BY <1>3, <1>4, DotEntry
  <1> DEFINE ns == RemoveEntry(nodes, at.dir, at.name)
  <1>7. /\ NodeMap(ns) /\ DOMAIN ns = DOMAIN nodes
        /\ \A d \in DOMAIN nodes :
              /\ ns[d].kind = nodes[d].kind /\ ns[d].links = nodes[d].links
              /\ DOMAIN ns[d].entries = IF d = at.dir THEN DOMAIN nodes[d].entries \ {at.name}
                                        ELSE DOMAIN nodes[d].entries
              /\ \A m \in DOMAIN ns[d].entries : ns[d].entries[m] = nodes[d].entries[m]
    BY <1>4, EntryRemoved
  <1>8. nodes' = Free(ns, ino)
    BY <1>3
  <1> HIDE DEF ns
  <1>9. /\ NodeMap(nodes') /\ DOMAIN nodes' = DOMAIN nodes \ {ino}
        /\ \A d \in DOMAIN nodes' :
              /\ nodes'[d].kind = nodes[d].kind /\ nodes'[d].links = nodes[d].links
              /\ DOMAIN nodes'[d].entries = IF d = at.dir THEN DOMAIN nodes[d].entries \ {at.name}
                                            ELSE DOMAIN nodes[d].entries
              /\ \A m \in DOMAIN nodes'[d].entries : nodes'[d].entries[m] = nodes[d].entries[m]
    <2>1. NodeMap(ns) /\ DOMAIN ns = DOMAIN nodes
      BY <1>7
    <2>2. /\ NodeMap(nodes') /\ DOMAIN nodes' = DOMAIN ns \ {ino}
          /\ \A i \in DOMAIN ns \ {ino} : nodes'[i] = ns[i]
      BY <1>8, <2>1, Freed
    <2> QED
      BY <1>7, <2>2
  <1>10. Departs(ino, at, {ino})
    BY <1>3, <1>4, <1>5, <1>6, <1>9 DEF Departs
  <1>11. Counts(ino, at)
    BY <1>3, <1>9 DEF Counts, IInv, Nameless, Is
  <1>12. Closes(ino, {ino})
    <2>1. ASSUME NEW fd \in Fds PROVE open[fd] # ino
      BY <1>3, NobodyMoves DEF IInv, InodesFollowNames, KeptWhileOpen, Is
    <2>2. open \in [Fds -> Inos \cup {NoIno}] /\ ino \notin unlinked
      BY <1>3 DEF IInv, InodesFollowNames, TypeOK, Nameless, Is
    <2> QED
      BY <1>3, <2>1, <2>2 DEF Closes
  <1> QED
    BY <1>3, <1>10, <1>11, <1>12, DepartsInv

\* remove keeps IInv.
LEMMA RemoveInv ==
    ASSUME IInv, NEW path, Remove(path)
    PROVE  IInv'
  <1>1. PICK at : at = Resolve(path)
    OBVIOUS
  <1>2. PICK ino : ino = Lookup(at)
    OBVIOUS
  <1> DEFINE named == RemoveEntry(nodes, at.dir, at.name)
             last == nodes[ino].links = 1
             gone == IF last /\ ~IsOpen(ino) THEN {ino} ELSE {}
  <1>3. /\ IsLeaf(ino) /\ UNCHANGED <<next, open>>
        /\ nodes' = IF last /\ ~IsOpen(ino) THEN Free(named, ino)
                    ELSE [named EXCEPT ![ino].links = @ - 1]
        /\ unlinked' = IF last /\ IsOpen(ino) THEN unlinked \cup {ino} ELSE unlinked
    BY <1>1, <1>2 DEF Remove
  <1>4. /\ ino \in DOMAIN nodes /\ nodes[ino].kind # "dir" /\ at.name \in Names
        /\ <<at.dir, at.name>> \in NamesOf(ino) /\ ino # Root /\ ino \notin unlinked
        /\ nodes[ino].links = Cardinality(NamesOf(ino))
    BY <1>2, <1>3, LeafFound DEF Is
  <1>5. /\ at.dir \in DOMAIN nodes /\ nodes[at.dir].kind = "dir" /\ at.dir # ino
        /\ at.name \in DOMAIN nodes[at.dir].entries /\ nodes[at.dir].entries[at.name] = ino
    BY <1>2, <1>4, Found DEF Is
  <1>6. /\ IsFiniteSet(NamesOf(ino)) /\ nodes[ino].links \in Nat \ {0}
        /\ Cardinality(NamesOf(ino) \ {<<at.dir, at.name>>}) = nodes[ino].links - 1
        /\ last <=> NamesOf(ino) = {<<at.dir, at.name>>}
    <2>1. IsFiniteSet(NamesOf(ino)) /\ Cardinality(NamesOf(ino)) \in Nat
      BY FiniteNames
    <2>2. Cardinality(NamesOf(ino) \ {<<at.dir, at.name>>}) = Cardinality(NamesOf(ino)) - 1
      BY <1>4, <2>1, FS_RemoveElement
    <2>3. Cardinality(NamesOf(ino)) # 0
      BY <1>4, <2>1, FS_EmptySet
    <2>4. Cardinality(NamesOf(ino)) = 1 <=> \E x : NamesOf(ino) = {x}
      BY <2>1, FS_Singleton
    <2>5. (\E x : NamesOf(ino) = {x}) <=> NamesOf(ino) = {<<at.dir, at.name>>}
      BY <1>4
    <2> QED
      BY <1>4, <2>1, <2>2, <2>3, <2>4, <2>5
  <1>7. /\ NodeMap(named) /\ DOMAIN named = DOMAIN nodes
        /\ \A d \in DOMAIN nodes :
              /\ named[d].kind = nodes[d].kind /\ named[d].links = nodes[d].links
              /\ DOMAIN named[d].entries = IF d = at.dir THEN DOMAIN nodes[d].entries \ {at.name}
                                           ELSE DOMAIN nodes[d].entries
              /\ \A m \in DOMAIN named[d].entries : named[d].entries[m] = nodes[d].entries[m]
    BY <1>5, EntryRemoved
  <1> HIDE DEF named
  <1>8. /\ NodeMap(nodes') /\ DOMAIN nodes' = DOMAIN nodes \ gone
        /\ \A d \in DOMAIN nodes' :
              /\ nodes'[d].kind = nodes[d].kind
              /\ d # ino => nodes'[d].links = nodes[d].links
              /\ DOMAIN nodes'[d].entries = IF d = at.dir THEN DOMAIN nodes[d].entries \ {at.name}
                                            ELSE DOMAIN nodes[d].entries
              /\ \A m \in DOMAIN nodes'[d].entries : nodes'[d].entries[m] = nodes[d].entries[m]
        /\ ino \in DOMAIN nodes' => nodes'[ino].links = nodes[ino].links - 1
    <2>1. CASE last /\ ~IsOpen(ino)
      <3>1. nodes' = Free(named, ino) /\ NodeMap(named)
        BY <1>3, <1>7, <2>1
      <3>2. /\ NodeMap(nodes') /\ DOMAIN nodes' = DOMAIN named \ {ino}
            /\ \A i \in DOMAIN named \ {ino} : nodes'[i] = named[i]
        BY <3>1, Freed
      <3> QED
        BY <1>7, <2>1, <3>2
    <2>2. CASE ~(last /\ ~IsOpen(ino))
      <3>1. nodes[ino].links - 1 \in Nat /\ ino \in DOMAIN named /\ named[ino].links = nodes[ino].links
        <4>1. nodes[ino].links - 1 \in Nat
          BY <1>6
        <4> QED
          BY <1>4, <1>7, <4>1
      <3>2. nodes' = [named EXCEPT ![ino].links = nodes[ino].links - 1]
        BY <1>3, <2>2, <3>1
      <3>3. /\ NodeMap(nodes') /\ DOMAIN nodes' = DOMAIN named
            /\ \A i \in DOMAIN named \ {ino} : nodes'[i] = named[i]
            /\ nodes'[ino].kind = named[ino].kind /\ nodes'[ino].entries = named[ino].entries
            /\ nodes'[ino].links = nodes[ino].links - 1
        <4>1. NodeMap(named)
          BY <1>7
        <4>2. PICK n : n = nodes[ino].links - 1
          OBVIOUS
        <4>3. n \in Nat /\ nodes' = [named EXCEPT ![ino].links = n]
          BY <3>1, <3>2, <4>2
        <4>4. /\ NodeMap(nodes') /\ DOMAIN nodes' = DOMAIN named
              /\ \A i \in DOMAIN named \ {ino} : nodes'[i] = named[i]
              /\ nodes'[ino].kind = named[ino].kind /\ nodes'[ino].entries = named[ino].entries
              /\ nodes'[ino].links = n
          BY <3>1, <4>1, <4>3, Linked
        <4> QED
          BY <4>2, <4>4
      <3> QED
        BY <1>7, <2>2, <3>3
    <2> QED
      BY <2>1, <2>2
  <1>9. Departs(ino, at, gone)
    BY <1>4, <1>5, <1>6, <1>8 DEF Departs, Is
  <1>10. Counts(ino, at)
    BY <1>3, <1>4, <1>6, <1>8 DEF Counts, Is, IsOpen
  <1>11. Closes(ino, gone)
    <2>1. open \in [Fds -> Inos \cup {NoIno}]
      BY DEF IInv, InodesFollowNames, TypeOK
    <2>2. \A fd \in Fds : open[fd] \notin gone
      BY DEF IsOpen
    <2> QED
      BY <1>3, <1>4, <2>1, <2>2 DEF Closes
  <1> QED
    BY <1>3, <1>9, <1>10, <1>11, DepartsInv

\* rename removes what is at its destination, and the inode with it unless it is open.
Clears(new, to, gone) ==
    /\ NodeMap(new) /\ DOMAIN new = DOMAIN nodes \ gone
    /\ \A d \in DOMAIN nodes \ gone :
          /\ new[d].kind = nodes[d].kind /\ new[d].links = nodes[d].links
          /\ \A m : m \in DOMAIN new[d].entries <=>
                      m \in DOMAIN nodes[d].entries /\ ~(d = to.dir /\ m = to.name)
          /\ \A m \in DOMAIN new[d].entries : new[d].entries[m] = nodes[d].entries[m]

\* What rename does first to what has the target's name.
LEMMA ClearedNodes ==
    ASSUME IInv, NEW to, Place(to), NEW old, old = Lookup(to), old \in DOMAIN nodes \cup {NoIno},
           NEW gone,
           gone = IF old \in DOMAIN nodes /\ (Is(old, "dir") \/ ~IsOpen(old)) THEN {old} ELSE {}
    PROVE  Clears(Cleared(to), to, gone)
  <1>1. NodeMap(nodes) /\ to.dir \in DOMAIN nodes /\ NoIno \notin DOMAIN nodes
    BY NobodyMoves DEF IInv, Shape, Place, Is
  <1>2. CASE old = NoIno
    <2>1. Cleared(to) = nodes /\ gone = {}
      BY <1>1, <1>2 DEF Cleared
    <2>2. to.name \notin DOMAIN nodes[to.dir].entries
      BY <1>2, VacantPlace
    <2> QED
      BY <1>1, <2>1, <2>2 DEF Clears
  <1>3. CASE old # NoIno
    <2> DEFINE named == RemoveEntry(nodes, to.dir, to.name)
    <2>1. /\ NodeMap(named) /\ DOMAIN named = DOMAIN nodes
          /\ \A d \in DOMAIN nodes :
                /\ named[d].kind = nodes[d].kind /\ named[d].links = nodes[d].links
                /\ DOMAIN named[d].entries = IF d = to.dir THEN DOMAIN nodes[d].entries \ {to.name}
                                             ELSE DOMAIN nodes[d].entries
                /\ \A m \in DOMAIN named[d].entries : named[d].entries[m] = nodes[d].entries[m]
      BY <1>1, EntryRemoved
    <2>2. old \in DOMAIN nodes
      BY <1>3
    <2>3. Cleared(to) = IF gone = {old} THEN Free(named, old) ELSE named
      BY <1>3, <2>2 DEF Cleared
    <2>4. gone = {old} \/ gone = {}
      OBVIOUS
    <2> HIDE DEF named
    <2>5. CASE gone = {old}
      <3>1. NodeMap(named)
        BY <2>1
      <3>2. PICK c : c = Free(named, old)
        OBVIOUS
      <3>3. /\ NodeMap(c) /\ DOMAIN c = DOMAIN named \ {old}
            /\ \A i \in DOMAIN named \ {old} : c[i] = named[i]
        BY <3>1, <3>2, Freed
      <3>4. c = Cleared(to)
        BY <2>3, <2>5, <3>2
      <3>5. /\ DOMAIN c = DOMAIN nodes \ gone
            /\ \A d \in DOMAIN nodes \ gone : c[d] = named[d]
        BY <2>1, <2>5, <3>3
      <3>6. \A d \in DOMAIN nodes \ gone :
               /\ c[d].kind = nodes[d].kind /\ c[d].links = nodes[d].links
               /\ \A m : m \in DOMAIN c[d].entries <=>
                           m \in DOMAIN nodes[d].entries /\ ~(d = to.dir /\ m = to.name)
               /\ \A m \in DOMAIN c[d].entries : c[d].entries[m] = nodes[d].entries[m]
        <4> SUFFICES ASSUME NEW d \in DOMAIN nodes \ gone
                     PROVE  /\ c[d].kind = nodes[d].kind /\ c[d].links = nodes[d].links
                            /\ \A m : m \in DOMAIN c[d].entries <=>
                                        m \in DOMAIN nodes[d].entries /\ ~(d = to.dir /\ m = to.name)
                            /\ \A m \in DOMAIN c[d].entries : c[d].entries[m] = nodes[d].entries[m]
          OBVIOUS
        <4>1. c[d] = named[d]
          BY <3>5
        <4>2. d \in DOMAIN nodes
          OBVIOUS
        <4>3. /\ named[d].kind = nodes[d].kind /\ named[d].links = nodes[d].links
              /\ DOMAIN named[d].entries = IF d = to.dir THEN DOMAIN nodes[d].entries \ {to.name}
                                           ELSE DOMAIN nodes[d].entries
              /\ \A m \in DOMAIN named[d].entries : named[d].entries[m] = nodes[d].entries[m]
          BY <2>1, <4>2
        <4>4. c[d].kind = nodes[d].kind /\ c[d].links = nodes[d].links
          BY <4>1, <4>3
        <4>5. \A m \in DOMAIN c[d].entries : c[d].entries[m] = nodes[d].entries[m]
          BY <4>1, <4>3
        <4>6. \A m : m \in DOMAIN c[d].entries <=>
                       m \in DOMAIN nodes[d].entries /\ ~(d = to.dir /\ m = to.name)
          BY <4>1, <4>3
        <4> QED
          BY <4>4, <4>5, <4>6
      <3> QED
        BY <3>3, <3>4, <3>5, <3>6 DEF Clears
    <2>6. CASE gone = {}
      <3>1. Cleared(to) = named
        BY <2>3, <2>6
      <3> QED
        BY <2>1, <2>6, <3>1 DEF Clears
    <2> QED
      BY <2>4, <2>5, <2>6
  <1> QED
    BY <1>2, <1>3

\* The entry and ".." when the directories are there.
LEMMA MovedNodes ==
    ASSUME NEW ns, NodeMap(ns), NEW ino \in DOMAIN ns, NEW from, NEW to,
           from.dir \in DOMAIN ns, to.dir \in DOMAIN ns, to.name \in Names, from.name \in Names,
           Is(ino, "dir") => ".." \in DOMAIN nodes[ino].entries /\ ".." \in DOMAIN ns[ino].entries
    PROVE  LET new == Moved(ns, ino, from, to)
           IN  /\ NodeMap(new) /\ DOMAIN new = DOMAIN ns
               /\ \A d \in DOMAIN ns :
                     /\ new[d].kind = ns[d].kind /\ new[d].links = ns[d].links
                     /\ \A m : m \in DOMAIN new[d].entries <=>
                                 \/ d = to.dir /\ m = to.name
                                 \/ m \in DOMAIN ns[d].entries /\ ~(d = from.dir /\ m = from.name)
                     /\ \A m \in DOMAIN new[d].entries :
                           new[d].entries[m] =
                              IF d = to.dir /\ m = to.name THEN ino
                              ELSE IF d = ino /\ m = ".." /\ Is(ino, "dir") /\ from.dir # to.dir
                              THEN to.dir ELSE ns[d].entries[m]
  <1> DEFINE left == RemoveEntry(ns, from.dir, from.name)
             arrived == AddEntry(left, to.dir, to.name, ino)
             climbs == Is(ino, "dir") /\ from.dir # to.dir
  <1>1. ino \in Inos /\ to.dir \in Inos /\ to.name \in Components /\ ".." \in Components
        /\ to.name # ".." /\ from.name # ".."
    BY NameOrDot DEF NodeMap, Components, Dots
  <1>2. Moved(ns, ino, from, to) = IF climbs THEN AddEntry(arrived, ino, "..", to.dir) ELSE arrived
    BY DEF Moved
  <1>3. /\ NodeMap(left) /\ DOMAIN left = DOMAIN ns
        /\ \A i \in DOMAIN ns \ {from.dir} : left[i] = ns[i]
        /\ left[from.dir].kind = ns[from.dir].kind /\ left[from.dir].links = ns[from.dir].links
        /\ DOMAIN left[from.dir].entries = DOMAIN ns[from.dir].entries \ {from.name}
        /\ \A m \in DOMAIN ns[from.dir].entries \ {from.name} :
              left[from.dir].entries[m] = ns[from.dir].entries[m]
    BY RemovedEntry
  <1> HIDE DEF left
  <1>4. /\ NodeMap(arrived) /\ DOMAIN arrived = DOMAIN left
        /\ \A i \in DOMAIN left \ {to.dir} : arrived[i] = left[i]
        /\ arrived[to.dir].kind = left[to.dir].kind /\ arrived[to.dir].links = left[to.dir].links
        /\ DOMAIN arrived[to.dir].entries = DOMAIN left[to.dir].entries \cup {to.name}
        /\ arrived[to.dir].entries[to.name] = ino
        /\ \A m \in DOMAIN left[to.dir].entries \ {to.name} :
              arrived[to.dir].entries[m] = left[to.dir].entries[m]
    <2>1. NodeMap(left)
      BY <1>3
    <2>2. to.dir \in DOMAIN left /\ to.name \in Components /\ ino \in Inos
      BY <1>1, <1>3
    <2> QED
      BY <2>1, <2>2, AddedEntry, SMTT(60)
  <1> HIDE DEF arrived
  <1>5. \A d \in DOMAIN ns :
           /\ left[d].kind = ns[d].kind /\ left[d].links = ns[d].links
           /\ \A m : m \in DOMAIN left[d].entries <=>
                       m \in DOMAIN ns[d].entries /\ ~(d = from.dir /\ m = from.name)
           /\ \A m \in DOMAIN left[d].entries : left[d].entries[m] = ns[d].entries[m]
    <2> SUFFICES ASSUME NEW d \in DOMAIN ns
                 PROVE  /\ left[d].kind = ns[d].kind /\ left[d].links = ns[d].links
                        /\ \A m : m \in DOMAIN left[d].entries <=>
                                    m \in DOMAIN ns[d].entries /\ ~(d = from.dir /\ m = from.name)
                        /\ \A m \in DOMAIN left[d].entries : left[d].entries[m] = ns[d].entries[m]
      OBVIOUS
    <2>1. CASE d = from.dir
      BY <1>3, <2>1
    <2>2. CASE d # from.dir
      BY <1>3, <2>2
    <2> QED
      BY <2>1, <2>2
  <1>6. DOMAIN arrived = DOMAIN ns
    BY <1>3, <1>4
  <1>7. \A d \in DOMAIN ns :
           /\ arrived[d].kind = ns[d].kind /\ arrived[d].links = ns[d].links
           /\ \A m : m \in DOMAIN arrived[d].entries <=>
                       \/ d = to.dir /\ m = to.name
                       \/ m \in DOMAIN ns[d].entries /\ ~(d = from.dir /\ m = from.name)
           /\ \A m \in DOMAIN arrived[d].entries :
                 arrived[d].entries[m] = IF d = to.dir /\ m = to.name THEN ino ELSE ns[d].entries[m]
    <2> SUFFICES ASSUME NEW d \in DOMAIN ns
                 PROVE  /\ arrived[d].kind = ns[d].kind /\ arrived[d].links = ns[d].links
                        /\ \A m : m \in DOMAIN arrived[d].entries <=>
                                    \/ d = to.dir /\ m = to.name
                                    \/ m \in DOMAIN ns[d].entries /\ ~(d = from.dir /\ m = from.name)
                        /\ \A m \in DOMAIN arrived[d].entries :
                              arrived[d].entries[m] =
                                 IF d = to.dir /\ m = to.name THEN ino ELSE ns[d].entries[m]
      OBVIOUS
    <2>1. CASE d = to.dir
      BY <1>4, <1>5, <2>1
    <2>2. CASE d # to.dir
      <3>1. arrived[d] = left[d]
        BY <1>3, <1>4, <2>2
      <3> QED
        BY <1>5, <2>2, <3>1
    <2> QED
      BY <2>1, <2>2
  <1>8. CASE ~climbs
    <2>1. Moved(ns, ino, from, to) = arrived
      BY <1>2, <1>8
    <2> QED
      BY <1>4, <1>6, <1>7, <1>8, <2>1
  <1>9. CASE climbs
    <2> DEFINE new == AddEntry(arrived, ino, "..", to.dir)
    <2>1. ino \in DOMAIN arrived /\ NodeMap(arrived)
      BY <1>4, <1>6
    <2>2. /\ NodeMap(new) /\ DOMAIN new = DOMAIN arrived
          /\ \A i \in DOMAIN arrived \ {ino} : new[i] = arrived[i]
          /\ new[ino].kind = arrived[ino].kind /\ new[ino].links = arrived[ino].links
          /\ DOMAIN new[ino].entries = DOMAIN arrived[ino].entries \cup {".."}
          /\ new[ino].entries[".."] = to.dir
          /\ \A m \in DOMAIN arrived[ino].entries \ {".."} :
                new[ino].entries[m] = arrived[ino].entries[m]
      BY <1>1, <2>1, AddedEntry, SMTT(60)
    <2>3. Moved(ns, ino, from, to) = new
      BY <1>2, <1>9
    <2> HIDE DEF new
    <2>4. ".." \in DOMAIN arrived[ino].entries
      BY <1>1, <1>7, <1>9
    <2>5. \A d \in DOMAIN ns :
             /\ new[d].kind = arrived[d].kind /\ new[d].links = arrived[d].links
             /\ DOMAIN new[d].entries = DOMAIN arrived[d].entries
             /\ \A m \in DOMAIN new[d].entries :
                   new[d].entries[m] = IF d = ino /\ m = ".." THEN to.dir ELSE arrived[d].entries[m]
      <3> SUFFICES ASSUME NEW d \in DOMAIN ns
                   PROVE  /\ new[d].kind = arrived[d].kind /\ new[d].links = arrived[d].links
                          /\ DOMAIN new[d].entries = DOMAIN arrived[d].entries
                          /\ \A m \in DOMAIN new[d].entries :
                                new[d].entries[m] =
                                   IF d = ino /\ m = ".." THEN to.dir ELSE arrived[d].entries[m]
        OBVIOUS
      <3>1. CASE d = ino
        BY <2>2, <2>4, <3>1
      <3>2. CASE d # ino
        BY <1>6, <2>2, <3>2
      <3> QED
        BY <3>1, <3>2
    <2>6. ASSUME NEW d \in DOMAIN ns
          PROVE  /\ new[d].kind = ns[d].kind /\ new[d].links = ns[d].links
                 /\ \A m : m \in DOMAIN new[d].entries <=>
                             \/ d = to.dir /\ m = to.name
                             \/ m \in DOMAIN ns[d].entries /\ ~(d = from.dir /\ m = from.name)
                 /\ \A m \in DOMAIN new[d].entries :
                       new[d].entries[m] =
                          IF d = to.dir /\ m = to.name THEN ino
                          ELSE IF d = ino /\ m = ".." THEN to.dir ELSE ns[d].entries[m]
      BY <1>1, <1>7, <2>5
    <2> QED
      BY <1>6, <1>9, <2>2, <2>3, <2>6
  <1> QED
    BY <1>8, <1>9

\* rename keeps IInv, without dots and unless another name of the replaced file is left.
LEMMA RenameInv ==
    ASSUME IInv, ~UsesDots, ~ReplacesLinks, NEW src, NEW dst, Rename(src, dst)
    PROVE  IInv'
  <1>1. PICK from : from = Resolve(src)
    OBVIOUS
  <1>2. PICK to : to = Resolve(dst)
    OBVIOUS
  <1>3. PICK ino : ino = Lookup(from)
    OBVIOUS
  <1>4. PICK old : old = Lookup(to)
    OBVIOUS
  <1>5. PICK gone :
           gone = IF old \in DOMAIN nodes /\ (Is(old, "dir") \/ ~IsOpen(old)) THEN {old} ELSE {}
    OBVIOUS
  <1>6. /\ Place(from) /\ Place(to)
        /\ from.name \notin Dots /\ to.name \notin Dots
        /\ ino \in DOMAIN nodes
        /\ Is(ino, "dir") => Ancestry(to.dir) \subseteq (DOMAIN nodes) \ {ino}
        /\ old \in DOMAIN nodes \cup {NoIno} /\ old # ino
        /\ Is(old, "dir") => IsEmpty(old)
        /\ old # NoIno => nodes[old].links = 1
    BY <1>1, <1>2, <1>3, <1>4 DEF Rename, Removable
  <1>7. /\ nodes' = Moved(Cleared(to), ino, from, to)
        /\ unlinked' = unlinked \cup Replaced(old)
        /\ UNCHANGED <<next, open>>
    BY <1>1, <1>2, <1>3, <1>4 DEF Rename
  <1>8. from.name \in Names /\ to.name \in Names /\ NoIno \notin DOMAIN nodes
    BY <1>6, NameOrDot, NobodyMoves DEF Place
  <1>9. /\ from.dir \in DOMAIN nodes /\ Is(from.dir, "dir")
        /\ from.name \in DOMAIN nodes[from.dir].entries
        /\ nodes[from.dir].entries[from.name] = ino
        /\ <<from.dir, from.name>> \in NamesOf(ino) /\ ino # Root
    BY <1>3, <1>6, <1>8, Found
  <1>10. to.dir \in DOMAIN nodes /\ Is(to.dir, "dir")
    BY <1>6 DEF Place, Is
  <1>11. ASSUME old # NoIno
         PROVE  /\ old \in DOMAIN nodes
                /\ to.name \in DOMAIN nodes[to.dir].entries /\ nodes[to.dir].entries[to.name] = old
                /\ NamesOf(old) = {<<to.dir, to.name>>}
    <2>1. old \in DOMAIN nodes
      BY <1>6, <1>11
    <2>2. /\ to.name \in DOMAIN nodes[to.dir].entries /\ nodes[to.dir].entries[to.name] = old
          /\ <<to.dir, to.name>> \in NamesOf(old) /\ old # Root
      BY <1>4, <1>8, <2>1, Found
    <2>3. CASE Is(old, "dir")
      <3>1. \E name \in Names : NamesOf(old) = {<<nodes[old].entries[".."], name>>}
        BY <2>1, <2>2, <2>3, DotEntry
      <3> QED
        BY <2>1, <2>2, <3>1
    <2>4. CASE ~Is(old, "dir")
      <3>1. nodes[old].links = Cardinality(NamesOf(old))
        BY <1>4, <2>1, <2>4, LeafFound DEF IsLeaf, Is
      <3>2. Cardinality(NamesOf(old)) = 1
        BY <1>6, <1>11, <3>1
      <3>3. \E x : NamesOf(old) = {x}
        BY <3>2, FiniteNames, FS_Singleton
      <3> QED
        BY <2>1, <2>2, <3>3
    <2> QED
      BY <2>3, <2>4
  <1>12. old = NoIno => to.name \notin DOMAIN nodes[to.dir].entries
    BY <1>4, <1>6, VacantPlace
  <1>13. ino \notin Ancestry(to.dir)
    <2>1. to.dir \in Inos
      BY <1>10 DEF IInv, Shape, NodeMap
    <2>2. \A i \in Ancestry(to.dir) : Is(i, "dir")
      BY <1>10, <2>1, WayUp
    <2> QED
      BY <1>6, <2>2
  <1>14. Is(old, "dir") => gone = {old} /\ DOMAIN nodes[old].entries \subseteq Dots
    BY <1>5, <1>6 DEF IsEmpty, Is
  <1>15. gone \subseteq {old} /\ (old = NoIno => gone = {})
    BY <1>5, <1>8
  <1>16. Moves(ino, from, to, old, gone)
    BY <1>6, <1>8, <1>9, <1>10, <1>11, <1>12, <1>13, <1>14, <1>15 DEF Moves
  <1>17. /\ from.dir \notin gone /\ to.dir \notin gone /\ ino \notin gone
    BY <1>6, <1>15, <1>16, MovesPlaces
  <1> DEFINE ns == Cleared(to)
  <1>18. /\ NodeMap(ns) /\ DOMAIN ns = DOMAIN nodes \ gone
         /\ \A d \in DOMAIN nodes \ gone :
               /\ ns[d].kind = nodes[d].kind /\ ns[d].links = nodes[d].links
               /\ \A m : m \in DOMAIN ns[d].entries <=>
                           m \in DOMAIN nodes[d].entries /\ ~(d = to.dir /\ m = to.name)
               /\ \A m \in DOMAIN ns[d].entries : ns[d].entries[m] = nodes[d].entries[m]
    <2>1. Place(to) /\ old \in DOMAIN nodes \cup {NoIno}
      BY <1>6
    <2>2. Clears(Cleared(to), to, gone)
      BY <1>4, <1>5, <2>1, ClearedNodes, ZenonT(30)
    <2> QED
      BY <2>2 DEF Clears
  <1>19. nodes' = Moved(ns, ino, from, to)
    BY <1>7
  <1> HIDE DEF ns
  <1>20. /\ ino \in DOMAIN ns /\ from.dir \in DOMAIN ns /\ to.dir \in DOMAIN ns
         /\ Is(ino, "dir") => ".." \in DOMAIN nodes[ino].entries /\ ".." \in DOMAIN ns[ino].entries
    <2>1. ino \in DOMAIN ns /\ from.dir \in DOMAIN ns /\ to.dir \in DOMAIN ns
      BY <1>6, <1>9, <1>10, <1>17, <1>18
    <2>2. Is(ino, "dir") => ".." \in DOMAIN nodes[ino].entries
      BY <1>6, DotEntry
    <2>3. to.name # ".."
      BY <1>6 DEF Dots
    <2> QED
      BY <1>18, <2>1, <2>2, <2>3
  <1>21. /\ NodeMap(nodes') /\ DOMAIN nodes' = DOMAIN ns
         /\ \A d \in DOMAIN ns :
               /\ nodes'[d].kind = ns[d].kind /\ nodes'[d].links = ns[d].links
               /\ \A m : m \in DOMAIN nodes'[d].entries <=>
                           \/ d = to.dir /\ m = to.name
                           \/ m \in DOMAIN ns[d].entries /\ ~(d = from.dir /\ m = from.name)
               /\ \A m \in DOMAIN nodes'[d].entries :
                     nodes'[d].entries[m] =
                        IF d = to.dir /\ m = to.name THEN ino
                        ELSE IF d = ino /\ m = ".." /\ Is(ino, "dir") /\ from.dir # to.dir
                        THEN to.dir ELSE ns[d].entries[m]
    <2>1. NodeMap(ns)
      BY <1>18
    <2> QED
      BY <1>8, <1>19, <1>20, <2>1, MovedNodes
  <1>22. ASSUME ".." \in DOMAIN nodes[ino].entries
         PROVE  Is(ino, "dir") /\ (from.dir = to.dir => nodes[ino].entries[".."] = to.dir)
    <2>1. Is(ino, "dir")
      BY <1>6, <1>22, Entry
    <2>2. \E name \in Names : NamesOf(ino) = {<<nodes[ino].entries[".."], name>>}
      BY <1>6, <1>9, <2>1, DotEntry
    <2> QED
      BY <1>9, <2>1, <2>2
  <1>23. MovesTo(ino, from, to, gone)
    <2>1. NodeMap(nodes') /\ DOMAIN nodes' = DOMAIN nodes \ gone
      BY <1>18, <1>21
    <2>2. ASSUME NEW d \in DOMAIN nodes'
          PROVE  /\ nodes'[d].kind = nodes[d].kind /\ nodes'[d].links = nodes[d].links
                 /\ \A m : m \in DOMAIN nodes'[d].entries <=>
                             \/ d = to.dir /\ m = to.name
                             \/ m \in DOMAIN nodes[d].entries /\ ~(d = from.dir /\ m = from.name)
      BY <1>18, <1>21, <2>1
    <2>3. ASSUME NEW d \in DOMAIN nodes', NEW m \in DOMAIN nodes'[d].entries
          PROVE  nodes'[d].entries[m] = IF d = to.dir /\ m = to.name THEN ino
                                        ELSE IF d = ino /\ m = ".." THEN to.dir
                                        ELSE nodes[d].entries[m]
      <3>1. CASE d = to.dir /\ m = to.name
        BY <1>18, <1>21, <2>1, <3>1
      <3>2. CASE ~(d = to.dir /\ m = to.name)
        <4>1. m \in DOMAIN ns[d].entries /\ m \in DOMAIN nodes[d].entries
              /\ ns[d].entries[m] = nodes[d].entries[m]
          BY <1>18, <1>21, <2>1, <3>2
        <4>2. nodes'[d].entries[m] =
                 IF d = ino /\ m = ".." /\ Is(ino, "dir") /\ from.dir # to.dir
                 THEN to.dir ELSE nodes[d].entries[m]
          BY <1>21, <3>2, <4>1
        <4> QED
          BY <1>22, <3>2, <4>1, <4>2
      <3> QED
        BY <3>1, <3>2
    <2> QED
      BY <2>1, <2>2, <2>3 DEF MovesTo
  <1>24. old \in DOMAIN nodes => to.name \in DOMAIN nodes[to.dir].entries
    BY <1>8, <1>11
  <1> QED
    BY <1>5, <1>7, <1>16, <1>23, <1>24, MovesInv

-----------------------------------------------------------------------------
(* The specification *)

\* A new filesystem satisfies IInv.
LEMMA InitInv ==
    ASSUME Init
    PROVE  IInv
  <1>1. PICK f : f = [m \in Dots |-> Root]
    OBVIOUS
  <1>2. PICK node : node = [Node("dir", <<>>) EXCEPT !.entries = f]
    OBVIOUS
  <1>3. /\ node \in NodeType /\ node.kind = "dir" /\ node.links = 1
        /\ DOMAIN node.entries = Dots
        /\ node.entries["."] = Root /\ node.entries[".."] = Root
    <2>1. f \in [Dots -> Inos] /\ DOMAIN f = Dots /\ f["."] = Root /\ f[".."] = Root
      BY <1>1, ConstantTypes DEF Dots
    <2>2. /\ node \in NodeType /\ node.kind = "dir" /\ node.links = 1
          /\ node.entries = f
      BY <1>2, <2>1, NewDirectory
    <2> QED
      BY <2>1, <2>2
  <1>4. nodes = [ino \in {Root} |-> node]
    BY <1>1, <1>2 DEF Init
  <1>5. DOMAIN nodes = {Root} /\ nodes[Root] = node
    BY <1>4
  <1>6. \A m \in DOMAIN node.entries : node.entries[m] = Root /\ m \notin Names
    BY <1>3, NamespaceAssumption DEF Dots
  <1>7. \A i : NamesOf(i) = {}
    BY <1>3, <1>5, <1>6 DEF NamesOf
  <1>8. Is(Root, "dir") /\ Root \in Inos
    BY <1>3, <1>5, ConstantTypes DEF Is
  <1>9. next = Root + 1 /\ open = [fd \in Fds |-> NoIno] /\ unlinked = {}
    BY DEF Init
  <1>10. TypeOK
    <2>1. next \in Inos \cup {MaxInodes + 1} /\ Root \in Root .. (next - 1)
      BY <1>9, NamespaceAssumption DEF Inos, Root
    <2>2. open \in [Fds -> Inos \cup {NoIno}]
      BY <1>9
    <2> QED
      BY <1>3, <1>5, <1>9, <2>1, <2>2 DEF TypeOK, Components
  <1>11. DotsFollowTree
    BY <1>3, <1>5 DEF DotsFollowTree, Dots
  <1>12. Rooted
    BY <1>5, <1>8 DEF Rooted, Ancestry
  <1>13. LinksAreNames
    BY <1>5, <1>6, <1>8 DEF LinksAreNames
  <1>14. KeptWhileOpen
    BY <1>5, <1>9 DEF KeptWhileOpen
  <1>15. Shape
    BY <1>3, <1>4, <1>5, <1>8 DEF Shape, NodeMap
  <1>16. RootOnTop /\ Nameless
    BY <1>3, <1>5, <1>7, <1>9 DEF RootOnTop, Nameless
  <1> QED
    BY <1>10, <1>11, <1>12, <1>13, <1>14, <1>15, <1>16 DEF IInv, InodesFollowNames

\* A step of nothing keeps IInv.
LEMMA StutterInv ==
    ASSUME IInv, UNCHANGED vars
    PROVE  IInv'
  <1>1. nodes' = nodes /\ next' = next /\ open' = open /\ unlinked' = unlinked
    BY DEF vars
  <1>2. \A i : NamesOf(i)' = NamesOf(i) /\ Ancestry(i)' = Ancestry(i)
    BY <1>1 DEF NamesOf, Ancestry, Climbs, IsAbove, Is
  <1>3. \A i : IsOpen(i)' <=> IsOpen(i)
    BY <1>1 DEF IsOpen
  <1>4. TypeOK' /\ DotsFollowTree' /\ Rooted'
    BY <1>1, <1>2 DEF IInv, InodesFollowNames, TypeOK, DotsFollowTree, Rooted, Is
  <1>5. LinksAreNames' /\ KeptWhileOpen'
    BY <1>1, <1>2, <1>3 DEF IInv, InodesFollowNames, LinksAreNames, KeptWhileOpen, Is
  <1>6. Shape' /\ RootOnTop' /\ Nameless'
    BY <1>1, <1>2 DEF IInv, Shape, NodeMap, RootOnTop, Nameless, Is
  <1> QED
    BY <1>4, <1>5, <1>6 DEF IInv, InodesFollowNames

\* Every step keeps IInv under the two disciplines.
LEMMA StepInv ==
    ASSUME IInv, ~UsesDots, ~ReplacesLinks, [Next]_vars
    PROVE  IInv'
  <1>1. ASSUME NEW path \in UserPaths, OpenExisting(path) PROVE IInv'
    BY <1>1, OpenExistingInv
  <1>2. ASSUME NEW path \in UserPaths, Create(path) PROVE IInv'
    BY <1>2, CreateInv
  <1>3. ASSUME NEW path \in UserPaths, Mkdir(path) PROVE IInv'
    BY <1>3, MkdirInv
  <1>4. ASSUME NEW path \in UserPaths, Rmdir(path) PROVE IInv'
    BY <1>4, RmdirInv
  <1>5. ASSUME NEW path \in UserPaths, Remove(path) PROVE IInv'
    BY <1>5, RemoveInv
  <1>6. ASSUME NEW path \in UserPaths, NEW target \in Targets, Symlink(target, path) PROVE IInv'
    BY <1>6, SymlinkInv
  <1>7. ASSUME NEW src \in UserPaths, NEW dst \in UserPaths, Link(src, dst) PROVE IInv'
    BY <1>7, LinkInv
  <1>8. ASSUME NEW src \in UserPaths, NEW dst \in UserPaths, Rename(src, dst) PROVE IInv'
    BY <1>8, RenameInv
  <1>9. ASSUME NEW fd \in Fds, Close(fd) PROVE IInv'
    BY <1>9, CloseInv
  <1>10. CASE UNCHANGED vars
    BY <1>10, StutterInv
  <1> QED
    BY <1>1, <1>2, <1>3, <1>4, <1>5, <1>6, <1>7, <1>8, <1>9, <1>10 DEF Next

\* As long as rmdir and rename are not given "." or ".." to remove and rename replaces
\* no file that has other names: "." and ".." follow the tree, every directory is
\* below the root, link counts count names, and no inode outlives its names and its
\* descriptors, through any sequence of open_file, close_file, mkdir, rmdir, remove,
\* symlink, link and rename, by whatever path.
THEOREM InodesFollow ==
    ASSUME ~UsesDots, ~ReplacesLinks
    PROVE  Spec => []InodesFollowNames
  <1>1. Init => IInv
    BY InitInv
  <1>2. IInv /\ [Next]_vars => IInv'
    BY StepInv
  <1>3. IInv => InodesFollowNames
    BY DEF IInv
  <1> QED
    BY <1>1, <1>2, <1>3, PTL DEF Spec
=============================================================================
