---------------------------- MODULE LfsProofs ----------------------------
(* Proofs about Lfs, for any log, block size and number of pointers.  As long *)
(* as no cleaner overruns the committed window, the segment summary is exact, *)
(* memory agrees with the device, open files stay readable, and the cursors   *)
(* follow LogWindow; the inductive invariant LInv says why.                   *)
EXTENDS Lfs, TLAPS, FiniteSetTheorems, WellFoundedInduction

\* The cursors, as proved about LogWindow, under the mapping of Lfs.
Chain == IF task # <<>> /\ task[1].do = "end" THEN {super.map} ELSE {}
Disk == [head |-> sb.head, tail |-> sb.tail,
         live |-> DOMAIN Rebuilt(dev, DurableMap), maps |-> {sb.map}]

W == INSTANCE LogWindowProofs WITH
    MaxLive <- LogEnd,
    head <- super.head,
    tail <- super.tail,
    live <- FileBlocks,
    maps <- MapBlocks,
    chain <- Chain,
    disk <- Disk

-----------------------------------------------------------------------------
(* Filesystem images.  An image is a device d, an inode map, the inodes N the  *)
(* map stands for, and the steps `todo' a call has left.  The one in memory is *)
(* dev, imap, the inodes as the running call knows them, and task; the one on  *)
(* the device is dev, DurableMap, the inodes it leads to, and no steps.        *)

Log == LogStart .. (LogEnd - 1)
Addr == Log \cup {NoBlock}
MaxBlocks == DirectBlocks + PtrsPerBlock
Idx == 0 .. (MaxBlocks - 1)

\* NumBlocks of an inode of that size.
Blocks(ino, size) == IF ino = Root THEN 1 ELSE BlocksFor(size)

NodeOf(ino) == [type : {"inode"}, ino : {ino}, size : Nat,
                ptr : [0 .. (DirectBlocks - 1) -> Addr], ind : Addr]

IsNode(inode, ino) == inode \in NodeOf(ino) /\ Blocks(ino, inode.size) <= MaxBlocks

IsIndirect(block) ==
    block \in [type : {"indirect"}, ptr : [0 .. (PtrsPerBlock - 1) -> Addr]]

\* The inodes of a map, those in w as w has them.
Nodes(d, map, w) ==
    [ino \in DOMAIN map |-> IF ino \in DOMAIN w THEN w[ino] ELSE d[map[ino]]]

\* A block was written (or dropped), and the indirect block that points to it not yet.
Pends(todo, ino, idx) ==
    todo # <<>> /\ todo[1].do = "indirect" /\ todo[1].ino = ino /\ todo[1].idx = idx

PendsFine(todo) ==
    todo # <<>> /\ todo[1].do = "indirect"
        => todo[1].idx \in Idx /\ todo[1].idx >= DirectBlocks /\ todo[1].addr \in Addr

Pointer(d, N, todo, ino, idx) ==
    IF Pends(todo, ino, idx) THEN todo[1].addr ELSE GetBlockAddr(d, N[ino], idx)

\* The blocks of files, by what they are to them.
Roles == [ino : Nat, idx : Idx, type : {"data"}]
            \cup [ino : Nat, idx : {0}, type : {"inode", "indirect"}]

RolesOf(inos) == {e \in Roles : e.ino \in inos}

\* Where each of them is, NoBlock if there is none.
Places(d, map, N, todo) ==
    [e \in RolesOf(DOMAIN map) |->
        IF e.type = "inode" THEN map[e.ino]
        ELSE IF e.type = "indirect" THEN N[e.ino].ind
        ELSE Pointer(d, N, todo, e.ino, e.idx)]

\* Every inode in the map is one, and its indirect block too.
Formed(d, map, N) ==
    /\ DOMAIN map \subseteq Nat \ {NoIno} /\ Root \in DOMAIN map
    /\ DOMAIN N = DOMAIN map
    /\ \A ino \in DOMAIN map :
          /\ map[ino] \in Log
          /\ IsNode(N[ino], ino)
          /\ N[ino].ind # NoBlock => IsIndirect(d[N[ino].ind])

\* The summary holds every block under its role, and nothing else but the blocks
\* of inode maps.
Kept(P, sum) ==
    /\ \A a \in DOMAIN sum : sum[a].type # "map" =>
          a \in Log /\ sum[a] \in DOMAIN P /\ P[sum[a]] = a
    /\ \A e \in DOMAIN P : P[e] # NoBlock => P[e] \in DOMAIN sum /\ sum[P[e]] = e

Todo(todo) == {todo[i] : i \in 1 .. Len(todo)}

InodePending(todo, ino) == \E s \in Todo(todo) : s.do = "inode" /\ s.ino = ino

\* No file has a block beyond its size, once the steps left have been taken.
Fits(N, todo, ino, idx) ==
    \/ CutStep(ino, idx) \in Todo(todo)
    \/ \E s \in Todo(todo) : s.do = "inode" /\ s.ino = ino /\ idx < Blocks(ino, s.size)
    \/ ~InodePending(todo, ino) /\ idx < Blocks(ino, N[ino].size)

Bounded(P, N, todo) ==
    \A e \in DOMAIN P : e.type = "data" /\ P[e] # NoBlock => Fits(N, todo, e.ino, e.idx)

\* The directory's entries: inodes in the map, each under one name.
DirOf(d, N) == d[N[Root].ptr[0]].entries

EntriesFine(entries, inos) ==
    /\ \A n \in DOMAIN entries : entries[n] \in inos \ {Root}
    /\ \A n, m \in DOMAIN entries : entries[n] = entries[m] => n = m

Named(d, map, N) ==
    /\ N[Root].ptr[0] # NoBlock
    /\ EntriesFine(DirOf(d, N), DOMAIN map)

Good(d, map, N, todo, sum) ==
    /\ PendsFine(todo)
    /\ Formed(d, map, N)
    /\ Kept(Places(d, map, N, todo), sum)
    /\ Bounded(Places(d, map, N, todo), N, todo)
    /\ Named(d, map, N)

\* The two images.
Known == Nodes(dev, imap, work)
Stored == Nodes(dev, DurableMap, <<>>)

MemoryGood == Good(dev, imap, Known, task, summary)
DeviceGood == Good(dev, DurableMap, Stored, <<>>, Rebuilt(dev, DurableMap))

-----------------------------------------------------------------------------
(* The steps of a call *)

\* What may come after what.
Before(a, b) ==
    /\ a.do # "end" /\ b.do # "indirect"
    /\ a.do = "map" => b.do = "end"
    /\ a.do = "inode" => ~(b.do \in {"data", "cut", "inode"} /\ b.ino = a.ino)
    /\ a.do = "data" /\ a.ino = Root /\ b.do = "inode"
         => \A n \in DOMAIN a.block.entries : a.block.entries[n] # b.ino
    /\ a.do = "free" => b.do \in {"map", "end"} /\ b.ino = NoIno
    /\ a.do = "unlink" => b.do \in {"inode", "map", "end"}
    /\ b.do = "free" => a.ino # b.ino
    /\ b.do = "unlink" => a.do \in {"data", "inode"} /\ a.ino = Root

Ordered(todo) ==
    \A i, j \in 1 .. Len(todo) : i < j => Before(todo[i], todo[j])

OpenInos == {open[fd] : fd \in Fds} \ {NoIno}

\* No entry leads to the inode, once the directory is written.
IsDirStep(s) == s.do = "data" /\ s.ino = Root
Unnamed(ino) ==
    /\ \A s \in Todo(task) :
          IsDirStep(s) => \A n \in DOMAIN s.block.entries : s.block.entries[n] # ino
    /\ (\A s \in Todo(task) : ~IsDirStep(s))
         => \A n \in DOMAIN DirOf(dev, Known) : DirOf(dev, Known)[n] # ino

DirStepFine(s) ==
    /\ s.idx = 0 /\ s.block = DirBlock(s.block.entries)
    /\ EntriesFine(s.block.entries, DOMAIN imap \cup {ino \in Nat : InodePending(task, ino)})

DataFine(s) ==
    /\ \E t \in Todo(task) : t.do = "inode" /\ t.ino = s.ino /\ s.idx < Blocks(s.ino, t.size)
    /\ s.ino = Root => DirStepFine(s)

InodeFine(s) ==
    /\ s.ino \in DOMAIN work /\ s.ino \in Nat \ {NoIno} /\ s.ino < super.next
    /\ s.size \in Nat /\ Blocks(s.ino, s.size) <= MaxBlocks
    /\ s.ino \notin DOMAIN imap => work[s.ino] = NewInode(s.ino)

Distance == W!LogDistance(super.tail, super.head)

Ends == \E s \in Todo(task) : s.do = "end"

\* Every step but the last ones works on an inode the call has read.
StepFine(s) ==
    /\ s.do \in {"data", "cut", "indirect"} =>
          /\ s.ino \in DOMAIN imap /\ s.ino \in DOMAIN work /\ s.idx \in Idx
          /\ phase = "op" => InodePending(task, s.ino)
    /\ s.do = "data" => DataFine(s)
    /\ s.do = "cut" => s.ino # Root /\ s = CutStep(s.ino, s.idx)
    /\ s.do = "inode" => InodeFine(s)
    /\ s.do \in {"free", "unlink"} => Unnamed(s.ino)
    /\ s.do = "unlink" => s.ino \in OpenInos
    /\ s.do = "free" => s.ino \in DOMAIN imap \ {Root} /\ s.ino \notin OpenInos
    /\ s.do = "end" /\ s.ino # NoIno =>
          /\ s.ino \in Nat \ {Root} /\ FreeFds # {}
          /\ s.ino \in DOMAIN imap \/ InodePending(task, s.ino)

\* The steps each phase takes.
StepsIn(p) ==
    CASE p = "idle" -> {}
      [] p = "op" -> {"data", "cut", "indirect", "inode", "unlink", "free", "superblock",
                      "map", "end"}
      [] p = "close" -> {"free", "map", "end"}
      [] p = "clean" -> {}
      [] p = "copy" -> {"indirect"}
      [] p = "flush" -> {"inode", "map", "end"}

CleanPhases == {"clean", "copy", "flush"}

Planned ==
    /\ task \in Seq(Todo(task)) /\ Ordered(task)
    /\ \A s \in Todo(task) : StepFine(s) /\ s.do \in StepsIn(phase)
    /\ Ends => task[1].do = "end" \/ \E s \in Todo(task) : s.do = "map"
    /\ (\E s \in Todo(task) : s.do = "map") => Ends
    /\ phase \in {"op", "close"} => Ends

\* What the call's copies of inodes are worth.
Held ==
    /\ phase \in {"idle", "close"} => work = <<>>
    /\ phase \in CleanPhases => DOMAIN work \subseteq DOMAIN imap
    /\ phase = "flush" /\ Ends => DOMAIN work = {}
    /\ \A ino \in DOMAIN work \cap DOMAIN imap :
          phase \in CleanPhases \/ InodePending(task, ino) \/ work[ino] = dev[imap[ino]]

-----------------------------------------------------------------------------
(* Memory and the device *)

Superblocks == [head : Log, tail : Log, map : Log, next : Nat]

Typed == DOMAIN dev = Log /\ super \in Superblocks /\ sb \in Superblocks /\ load \in Loads

\* The map the superblock in memory names.
MapWritten ==
    IF task # <<>> /\ task[1].do = "end" THEN dev[super.map] = MapBlock(imap)
    ELSE super.map = sb.map

\* Inode numbers are handed out once.
Numbered ==
    /\ sb.next <= super.next /\ Root < sb.next
    /\ \A ino \in DOMAIN imap : ino < super.next
    /\ \A ino \in DOMAIN DurableMap : ino < sb.next

\* Until a call has written, memory is what the device says, but for what a close
\* could not persist.
Synced ==
    phase \in {"idle", "close"} =>
        \A ino \in DOMAIN imap : ino \in DOMAIN DurableMap /\ imap[ino] = DurableMap[ino]

OpenFine ==
    /\ open \in [Fds -> Nat]
    /\ OpenInos \subseteq (DOMAIN imap \cap DOMAIN DurableMap) \ {Root}

\* remove has noted an open inode and has its last writes before it.
Finishing ==
    /\ phase = "op"
    /\ \A s \in Todo(task) : s.do \in {"inode", "map", "end"}

UnlinkedFine ==
    /\ unlinked \subseteq OpenInos
    /\ \A ino \in unlinked :
          /\ Unnamed(ino)
          /\ \/ Finishing
             \/ \A n \in DOMAIN DirOf(dev, Stored) : DirOf(dev, Stored)[n] # ino

LInv ==
    /\ W!IInv /\ Typed
    /\ MemoryGood /\ DeviceGood
    /\ Planned /\ Held
    /\ MapWritten /\ Numbered /\ Synced
    /\ OpenFine /\ UnlinkedFine
-----------------------------------------------------------------------------
(* Facts about the constants and the operators of Lfs *)

\* The log of Lfs satisfies what LogWindow asks of a log.
LEMMA LogFits == W!LogAssumption
  BY LfsAssumption DEF W!LogAssumption, W!LogSize, W!Log

\* The logs of the two modules and of their instances are one.
LEMMA LogIsLog == W!Log = Log /\ Window!Log = Log /\ NoBlock \notin Log
  BY LfsAssumption DEF W!Log, Window!Log, Log

\* Lfs and the proofs speak of the same window.
LEMMA SameWindow ==
    /\ Window!HasSpace = W!HasSpace
    /\ Window!Cleaning = W!Cleaning
    /\ Window!CleanedEnough = W!CleanedEnough
    /\ Window!Reserved = W!Reserved
    /\ \A b : Window!NextBlock(b) = W!NextBlock(b)
    /\ \A a, b : Window!LogDistance(a, b) = W!LogDistance(a, b)
    /\ \A p : Window!WriteAtTail(p) <=> W!WriteAtTail(p)
  BY DEF Window!HasSpace, W!HasSpace, Window!FreeSpace, W!FreeSpace, Window!LogSize, W!LogSize,
     Window!Reserved, W!Reserved, Window!LogDistance, W!LogDistance, Window!Cleaning, W!Cleaning,
     Window!CleanedEnough, W!CleanedEnough, Window!TargetFree, W!TargetFree,
     Window!NextBlock, W!NextBlock, Window!WriteAtTail, W!WriteAtTail,
     Window!Window, W!Window, Window!Log, W!Log

\* The numbers of pointers, blocks and cells.
LEMMA Sizes ==
    /\ DirectBlocks \in Nat \ {0} /\ PtrsPerBlock \in Nat \ {0} /\ CellsPerBlock \in Nat \ {0}
    /\ MaxBlocks \in Nat /\ DirectBlocks < MaxBlocks
    /\ 0 \in Idx /\ Idx \subseteq Nat
  BY LfsAssumption DEF MaxBlocks, Idx

\* blocks_for_size.
LEMMA BlocksForRange ==
    /\ \A n \in Nat : BlocksFor(n) \in Nat
    /\ \A n, m \in Nat : n <= m => BlocksFor(n) <= BlocksFor(m)
    /\ \A n \in 0 .. MaxCells : BlocksFor(n) <= MaxBlocks
    /\ BlocksFor(0) = 0
  <1>1. CellsPerBlock \in Nat \ {0} /\ MaxBlocks \in Nat /\ MaxCells \in Nat
        /\ MaxCells <= MaxBlocks * CellsPerBlock
    BY LfsAssumption DEF MaxBlocks
  <1> QED
    BY <1>1 DEF BlocksFor

\* The block of each cell of a file is one of the file's.
LEMMA CellsInBlocks ==
    \A n \in Nat : \A k \in 1 .. n :
        (k - 1) \div CellsPerBlock \in Nat /\ (k - 1) \div CellsPerBlock < BlocksFor(n)
  BY LfsAssumption DEF BlocksFor

\* A file of any size has a number of blocks.
LEMMA BlocksRange ==
    \A ino, size : size \in Nat => Blocks(ino, size) \in Nat
  BY BlocksForRange DEF Blocks

\* The blocks an inode counts are those of its size.
LEMMA NumBlocksIs ==
    \A inode, ino : IsNode(inode, ino) => NumBlocks(inode) = Blocks(ino, inode.size)
  BY DEF IsNode, NodeOf, NumBlocks, Blocks

\* The block at the tail is free.
LEMMA TailFree ==
    ASSUME W!IInv
    PROVE  super.tail \in Log /\ super.tail \notin DOMAIN summary
  <1>1. super.tail \notin FileBlocks \cup MapBlocks
    BY LogFits, W!TailIsFree
  <1>2. super.tail \in Log
    BY LogIsLog DEF W!IInv, W!TypeOK
  <1> QED
    BY <1>1, <1>2 DEF MapBlocks

\* A write at the tail spares what the device's map leads to.
LEMMA TailSparesDevice ==
    ASSUME W!IInv, Window!WriteAtTail(phase), ~overran', phase # "idle"
    PROVE  super.tail \notin DOMAIN Rebuilt(dev, DurableMap) /\ super.tail # sb.map
  <1>1. W!WriteAtTail(phase) /\ phase \in {"op", "close", "clean", "copy", "flush"}
    BY SameWindow DEF W!IInv, W!TypeOK, W!Phases
  <1>2. W!Reached(Disk) \cap dirty' = {}
    BY <1>1, LogFits, W!WriteAvoidsReached
  <1>3. super.tail \in dirty'
    BY <1>1 DEF W!WriteAtTail
  <1>4. W!Reached(Disk) = DOMAIN Rebuilt(dev, DurableMap) \cup {sb.map}
    BY DEF W!Reached, Disk
  <1> QED
    BY <1>2, <1>3, <1>4

-----------------------------------------------------------------------------
(* The steps a call has left, as a sequence *)

\* The steps of a list are those it has at its places.
LEMMA InTodo ==
    ASSUME NEW todo
    PROVE  /\ \A i \in 1 .. Len(todo) : todo[i] \in Todo(todo)
           /\ \A s \in Todo(todo) : \E i \in 1 .. Len(todo) : s = todo[i]
  BY DEF Todo

\* The steps left when the first is done.
LEMMA TailTodo ==
    ASSUME NEW todo, todo \in Seq(Todo(todo)), todo # <<>>
    PROVE  /\ Len(todo) \in Nat /\ Len(todo) >= 1
           /\ Len(Tail(todo)) = Len(todo) - 1
           /\ Tail(todo) \in Seq(Todo(Tail(todo)))
           /\ Todo(todo) = {todo[1]} \cup Todo(Tail(todo))
           /\ todo[1] \in Todo(todo)
           /\ \A i \in 1 .. (Len(todo) - 1) : Tail(todo)[i] = todo[i + 1]
  <1>1. /\ Len(todo) \in Nat /\ Len(todo) >= 1
        /\ Tail(todo) \in Seq(Todo(todo)) /\ Len(Tail(todo)) = Len(todo) - 1
        /\ \A i \in 1 .. (Len(todo) - 1) : Tail(todo)[i] = todo[i + 1]
    OBVIOUS
  <1>2. Todo(Tail(todo)) = {todo[i + 1] : i \in 1 .. (Len(todo) - 1)}
    BY <1>1 DEF Todo
  <1>3. Todo(todo) = {todo[1]} \cup Todo(Tail(todo))
    <2>1. \A i \in 1 .. Len(todo) : i = 1 \/ (i - 1 \in 1 .. (Len(todo) - 1) /\ todo[i] = todo[(i - 1) + 1])
      BY <1>1
    <2>2. \A i \in 1 .. (Len(todo) - 1) : i + 1 \in 1 .. Len(todo)
      BY <1>1
    <2> QED
      BY <1>1, <1>2, <2>1, <2>2 DEF Todo
  <1>4. Tail(todo) \in Seq(Todo(Tail(todo)))
    <2> DEFINE u == Tail(todo)
    <2>1. u \in Seq(Todo(todo)) /\ \A i \in 1 .. Len(u) : u[i] \in Todo(u)
      BY <1>1 DEF Todo
    <2> HIDE DEF u
    <2>2. u \in Seq(Todo(u))
      BY <2>1
    <2> QED
      BY <2>2 DEF u
  <1> QED
    BY <1>1, <1>3, <1>4

\* The steps left when one is put before them.
LEMMA ConsTodo ==
    ASSUME NEW todo, todo \in Seq(Todo(todo)), NEW s
    PROVE  /\ <<s>> \o todo \in Seq(Todo(<<s>> \o todo))
           /\ Len(<<s>> \o todo) = Len(todo) + 1
           /\ <<s>> \o todo # <<>>
           /\ (<<s>> \o todo)[1] = s
           /\ Todo(<<s>> \o todo) = {s} \cup Todo(todo)
           /\ \A i \in 1 .. Len(todo) : (<<s>> \o todo)[i + 1] = todo[i]
  <1> DEFINE u == <<s>> \o todo
  <1>1. /\ Len(todo) \in Nat /\ u \in Seq({s} \cup Todo(todo)) /\ Len(u) = Len(todo) + 1
        /\ u[1] = s /\ \A i \in 1 .. Len(todo) : u[i + 1] = todo[i]
    OBVIOUS
  <1> HIDE DEF u
  <1>2. Todo(u) = {s} \cup Todo(todo)
    <2>1. \A i \in 1 .. Len(u) : i = 1 \/ (i - 1 \in 1 .. Len(todo) /\ u[i] = u[(i - 1) + 1])
      BY <1>1
    <2>2. \A i \in 1 .. Len(todo) : i + 1 \in 1 .. Len(u)
      BY <1>1
    <2>3. \A i \in 1 .. Len(u) : u[i] \in {s} \cup Todo(todo)
      BY <1>1, <2>1, InTodo
    <2>4. \A i \in 1 .. Len(todo) : todo[i] \in Todo(u)
      BY <1>1, <2>2, InTodo
    <2>5. s \in Todo(u)
      <3>1. 1 \in 1 .. Len(u)
        BY <1>1
      <3> QED
        BY <1>1, <3>1, InTodo
    <2>6. \A b \in Todo(u) : b \in {s} \cup Todo(todo)
      BY <2>3, InTodo
    <2>7. \A b \in Todo(todo) : b \in Todo(u)
      BY <2>4, InTodo
    <2> QED
      BY <2>5, <2>6, <2>7, Zenon
  <1>3. u \in Seq(Todo(u)) /\ u # <<>>
    BY <1>1, <1>2
  <1> QED
    BY <1>1, <1>2, <1>3 DEF u

\* The rest of an ordered list is ordered, and comes after its first step.
LEMMA OrderedTail ==
    ASSUME NEW todo, todo \in Seq(Todo(todo)), todo # <<>>, Ordered(todo)
    PROVE  Ordered(Tail(todo)) /\ \A s \in Todo(Tail(todo)) : Before(todo[1], s)
  <1>1. /\ Len(todo) \in Nat /\ Len(todo) >= 1 /\ Len(Tail(todo)) = Len(todo) - 1
        /\ \A i \in 1 .. (Len(todo) - 1) : Tail(todo)[i] = todo[i + 1]
    BY TailTodo
  <1>2. Ordered(Tail(todo))
    <2> SUFFICES ASSUME NEW i \in 1 .. (Len(todo) - 1), NEW j \in 1 .. (Len(todo) - 1), i < j
                 PROVE  Before(Tail(todo)[i], Tail(todo)[j])
      BY <1>1 DEF Ordered
    <2>1. i + 1 \in 1 .. Len(todo) /\ j + 1 \in 1 .. Len(todo) /\ i + 1 < j + 1
      BY <1>1
    <2> QED
      BY <1>1, <2>1 DEF Ordered
  <1>3. ASSUME NEW i \in 1 .. (Len(todo) - 1) PROVE Before(todo[1], Tail(todo)[i])
    <2>1. i + 1 \in 1 .. Len(todo) /\ 1 \in 1 .. Len(todo) /\ 1 < i + 1
      BY <1>1
    <2> QED
      BY <1>1, <2>1 DEF Ordered
  <1> QED
    BY <1>1, <1>2, <1>3 DEF Todo

\* A step that may come before all others may be put before them.
LEMMA OrderedCons ==
    ASSUME NEW todo, todo \in Seq(Todo(todo)), Ordered(todo),
           NEW s, \A b \in Todo(todo) : Before(s, b)
    PROVE  Ordered(<<s>> \o todo)
  <1> DEFINE u == <<s>> \o todo
  <1>1. /\ Len(todo) \in Nat /\ Len(u) = Len(todo) + 1 /\ u[1] = s
        /\ \A i \in 1 .. Len(todo) : u[i + 1] = todo[i]
    BY ConsTodo
  <1> HIDE DEF u
  <1>2. ASSUME NEW i \in 1 .. Len(u), NEW j \in 1 .. Len(u), i < j
        PROVE  Before(u[i], u[j])
    <2>1. j - 1 \in 1 .. Len(todo) /\ u[j] = todo[j - 1]
      <3>1. j - 1 \in 1 .. Len(todo) /\ (j - 1) + 1 = j
        BY <1>1, <1>2
      <3> QED
        BY <1>1, <3>1
    <2>2. CASE i = 1
      <3>1. u[j] \in Todo(todo)
        BY <2>1, InTodo
      <3> QED
        BY <1>1, <2>2, <3>1
    <2>3. CASE i # 1
      <3>1. i - 1 \in 1 .. Len(todo) /\ (i - 1) + 1 = i /\ i - 1 < j - 1
        BY <1>1, <1>2, <2>3
      <3>2. u[i] = todo[i - 1]
        BY <1>1, <3>1
      <3> QED
        BY <2>1, <3>1, <3>2 DEF Ordered
    <2> QED
      BY <2>2, <2>3
  <1>3. Ordered(u)
    BY <1>2 DEF Ordered
  <1> QED
    BY <1>3 DEF u

-----------------------------------------------------------------------------
(* Images *)

\* What a role of a block consists of.
LEMMA RolesAre ==
    /\ \A e \in Roles : /\ e = Entry(e.ino, e.idx, e.type) /\ e.ino \in Nat /\ e.idx \in Idx
                        /\ e.type \in {"inode", "indirect", "data"}
                        /\ e.type # "data" => e.idx = 0
    /\ \A ino \in Nat : /\ Entry(ino, 0, "inode") \in Roles
                        /\ Entry(ino, 0, "indirect") \in Roles
                        /\ \A idx \in Idx : Entry(ino, idx, "data") \in Roles
    /\ \A ino, idx, type : /\ Entry(ino, idx, type).ino = ino
                           /\ Entry(ino, idx, type).idx = idx
                           /\ Entry(ino, idx, type).type = type
  BY Sizes DEF Roles, Entry

\* An entry is its role.
LEMMA SameEntry ==
    \A a1, b1, c1, a2, b2, c2 :
        Entry(a1, b1, c1) = Entry(a2, b2, c2) <=> a1 = a2 /\ b1 = b2 /\ c1 = c2
  BY RolesAre

\* A pointer is a block of the log or none.
LEMMA PointerRange ==
    ASSUME NEW d, NEW map, NEW N, NEW todo, Formed(d, map, N), PendsFine(todo),
           NEW ino \in DOMAIN map, NEW idx \in Idx
    PROVE  /\ Pointer(d, N, todo, ino, idx) \in Addr
           /\ GetBlockAddr(d, N[ino], idx) \in Addr
  <1>1. CASE idx < DirectBlocks
    <2>1. idx \in 0 .. (DirectBlocks - 1)
      BY <1>1, Sizes DEF Idx
    <2>2. N[ino].ptr \in [0 .. (DirectBlocks - 1) -> Addr]
      BY DEF Formed, IsNode, NodeOf
    <2> QED
      BY <1>1, <2>1, <2>2 DEF Pointer, GetBlockAddr, Pends, PendsFine
  <1>2. CASE idx >= DirectBlocks
    <2>1. idx - DirectBlocks \in 0 .. (PtrsPerBlock - 1) /\ ~(idx < DirectBlocks)
      BY <1>2, Sizes DEF Idx, MaxBlocks
    <2>2. N[ino].ind # NoBlock => d[N[ino].ind].ptr \in [0 .. (PtrsPerBlock - 1) -> Addr]
      BY DEF Formed, IsIndirect
    <2>3. GetBlockAddr(d, N[ino], idx) \in Addr
      BY <2>1, <2>2 DEF GetBlockAddr, Addr
    <2> QED
      BY <2>3 DEF Pointer, Pends, PendsFine
  <1> QED
    BY <1>1, <1>2, Sizes DEF Idx

\* What Places says of each role.
LEMMA PlacesAre ==
    ASSUME NEW d, NEW map, NEW N, NEW todo, Formed(d, map, N), PendsFine(todo)
    PROVE  /\ DOMAIN Places(d, map, N, todo) = RolesOf(DOMAIN map)
           /\ \A ino \in DOMAIN map :
                 /\ Places(d, map, N, todo)[Entry(ino, 0, "inode")] = map[ino]
                 /\ Places(d, map, N, todo)[Entry(ino, 0, "indirect")] = N[ino].ind
                 /\ \A idx \in Idx : Places(d, map, N, todo)[Entry(ino, idx, "data")]
                                        = Pointer(d, N, todo, ino, idx)
           /\ \A e \in RolesOf(DOMAIN map) : Places(d, map, N, todo)[e] \in Addr
  <1> DEFINE P == Places(d, map, N, todo)
  <1>1. DOMAIN P = RolesOf(DOMAIN map)
    BY DEF Places
  <1>2. ASSUME NEW ino \in DOMAIN map
        PROVE  /\ Entry(ino, 0, "inode") \in RolesOf(DOMAIN map)
               /\ Entry(ino, 0, "indirect") \in RolesOf(DOMAIN map)
               /\ \A idx \in Idx : Entry(ino, idx, "data") \in RolesOf(DOMAIN map)
    BY RolesAre DEF RolesOf, Formed
  <1>3. ASSUME NEW ino \in DOMAIN map
        PROVE  /\ P[Entry(ino, 0, "inode")] = map[ino]
               /\ P[Entry(ino, 0, "indirect")] = N[ino].ind
               /\ \A idx \in Idx : P[Entry(ino, idx, "data")] = Pointer(d, N, todo, ino, idx)
    BY <1>2, <1>3, RolesAre DEF Places
  <1>4. ASSUME NEW e \in RolesOf(DOMAIN map) PROVE P[e] \in Addr
    <2>1. e.ino \in DOMAIN map /\ e.idx \in Idx /\ e \in Roles
      BY RolesAre DEF RolesOf
    <2>2. map[e.ino] \in Addr /\ N[e.ino].ind \in Addr
      BY <2>1 DEF Formed, IsNode, NodeOf, Addr
    <2>3. Pointer(d, N, todo, e.ino, e.idx) \in Addr
      BY <2>1, PointerRange
    <2> QED
      BY <2>2, <2>3 DEF Places
  <1> QED
    BY <1>1, <1>3, <1>4

\* The roles blocks play for some inodes.
LEMMA InRolesOf ==
    ASSUME NEW inos, inos \subseteq Nat
    PROVE  /\ \A ino \in inos : /\ Entry(ino, 0, "inode") \in RolesOf(inos)
                                /\ Entry(ino, 0, "indirect") \in RolesOf(inos)
                                /\ \A idx \in Idx : Entry(ino, idx, "data") \in RolesOf(inos)
           /\ \A e \in RolesOf(inos) :
                 /\ e.ino \in inos /\ e \in Roles /\ e.idx \in Idx
                 /\ \/ e = Entry(e.ino, 0, "inode")
                    \/ e = Entry(e.ino, 0, "indirect")
                    \/ e = Entry(e.ino, e.idx, "data")
  BY RolesAre DEF RolesOf

\* A function with one value set and some keys gone; one with keys gone only.
Filed(f, dead, x, y, g) ==
    /\ DOMAIN g = (DOMAIN f \ dead) \cup {x}
    /\ \A a \in DOMAIN g : g[a] = IF a = x THEN y ELSE f[a]

Struck(f, dead, g) ==
    /\ DOMAIN g = DOMAIN f \ dead
    /\ \A a \in DOMAIN g : g[a] = f[a]

\* The summary after one block took the place of another.
LEMMA Replaced ==
    ASSUME NEW P, NEW sum, Kept(P, sum), NEW Q, NEW sum2,
           NEW r \in DOMAIN Q, NEW t \in Log, t \notin DOMAIN sum, NEW dead,
           r.type # "map", Q[r] = t,
           \A e \in DOMAIN P : e # r =>
              e \in DOMAIN Q /\ Q[e] = P[e] /\ (P[e] \notin dead \/ P[e] = NoBlock),
           \A e \in DOMAIN Q \ DOMAIN P : e # r => Q[e] = NoBlock,
           r \in DOMAIN P /\ P[r] # NoBlock => P[r] \in dead,
           Filed(sum, dead, t, r, sum2)
    PROVE  Kept(Q, sum2)
  <1>1. ASSUME NEW a \in DOMAIN sum2, sum2[a].type # "map"
        PROVE  a \in Log /\ sum2[a] \in DOMAIN Q /\ Q[sum2[a]] = a
    <2>1. CASE a = t
      BY <1>1, <2>1 DEF Filed
    <2>2. CASE a # t
      <3>1. a \in DOMAIN sum \ dead /\ sum2[a] = sum[a]
        BY <1>1, <2>2 DEF Filed
      <3>2. a \in Log /\ sum[a] \in DOMAIN P /\ P[sum[a]] = a
        BY <1>1, <3>1 DEF Kept
      <3>3. sum[a] # r
        BY <3>1, <3>2, LogIsLog
      <3> QED
        BY <3>1, <3>2, <3>3
    <2> QED
      BY <2>1, <2>2
  <1>2. ASSUME NEW e \in DOMAIN Q, Q[e] # NoBlock
        PROVE  Q[e] \in DOMAIN sum2 /\ sum2[Q[e]] = e
    <2>1. CASE e = r
      BY <2>1 DEF Filed
    <2>2. CASE e # r
      <3>1. e \in DOMAIN P /\ Q[e] = P[e] /\ P[e] \notin dead
        BY <1>2, <2>2
      <3>2. P[e] \in DOMAIN sum /\ sum[P[e]] = e
        BY <1>2, <3>1 DEF Kept
      <3> QED
        BY <3>1, <3>2 DEF Filed
    <2> QED
      BY <2>1, <2>2
  <1> QED
    BY <1>1, <1>2 DEF Kept

\* The summary after blocks were dropped.
LEMMA Dropped ==
    ASSUME NEW P, NEW sum, Kept(P, sum), NEW Q, NEW sum2, NEW dead,
           DOMAIN Q \subseteq DOMAIN P,
           \A e \in DOMAIN Q : \/ Q[e] = P[e] /\ P[e] \notin dead
                               \/ Q[e] = NoBlock,
           \A e \in DOMAIN P : P[e] # NoBlock /\ P[e] \notin dead => e \in DOMAIN Q /\ Q[e] = P[e],
           Struck(sum, dead, sum2)
    PROVE  Kept(Q, sum2)
  <1>1. ASSUME NEW a \in DOMAIN sum2, sum2[a].type # "map"
        PROVE  a \in Log /\ sum2[a] \in DOMAIN Q /\ Q[sum2[a]] = a
    <2>1. a \in DOMAIN sum \ dead /\ sum2[a] = sum[a]
      BY <1>1 DEF Struck
    <2>2. a \in Log /\ sum[a] \in DOMAIN P /\ P[sum[a]] = a
      BY <1>1, <2>1 DEF Kept
    <2> QED
      BY <2>1, <2>2, LogIsLog
  <1>2. ASSUME NEW e \in DOMAIN Q, Q[e] # NoBlock
        PROVE  Q[e] \in DOMAIN sum2 /\ sum2[Q[e]] = e
    <2>1. e \in DOMAIN P /\ Q[e] = P[e] /\ P[e] \notin dead
      BY <1>2
    <2>2. P[e] \in DOMAIN sum /\ sum[P[e]] = e
      BY <1>2, <2>1 DEF Kept
    <2> QED
      BY <2>1, <2>2 DEF Struck
  <1> QED
    BY <1>1, <1>2 DEF Kept

\* Different roles, different blocks.
LEMMA OneRoleEach ==
    ASSUME NEW P, NEW sum, Kept(P, sum), NEW e \in DOMAIN P, NEW f \in DOMAIN P,
           P[e] = P[f], P[e] # NoBlock
    PROVE  e = f
  BY DEF Kept

\* Devices that differ in block t at most.
Apart(d, t, e) == \A a \in Log : a # t => e[a] = d[a]

\* What the image reads from d it reads from e.
Spared(d, map, N, e) ==
    \A ino \in DOMAIN map :
        /\ e[map[ino]] = d[map[ino]]
        /\ \A idx \in Idx : GetBlockAddr(e, N[ino], idx) = GetBlockAddr(d, N[ino], idx)

\* A block outside the summary may change.
LEMMA Elsewhere ==
    ASSUME NEW d, NEW map, NEW N, NEW todo, NEW sum, Good(d, map, N, todo, sum),
           NEW t \in Log, t \notin DOMAIN sum, NEW e, Apart(d, t, e)
    PROVE  /\ Places(e, map, N, todo) = Places(d, map, N, todo)
           /\ Spared(d, map, N, e)
           /\ DirOf(e, N) = DirOf(d, N)
           /\ Good(e, map, N, todo, sum)
  <1> DEFINE P == Places(d, map, N, todo)
  <1>1. Formed(d, map, N) /\ PendsFine(todo) /\ Kept(P, sum) /\ DOMAIN map \subseteq Nat
    BY DEF Good, Formed
  <1>2. /\ DOMAIN P = RolesOf(DOMAIN map)
        /\ \A ino \in DOMAIN map :
              /\ P[Entry(ino, 0, "inode")] = map[ino]
              /\ P[Entry(ino, 0, "indirect")] = N[ino].ind
              /\ \A idx \in Idx : P[Entry(ino, idx, "data")] = Pointer(d, N, todo, ino, idx)
        /\ \A r \in RolesOf(DOMAIN map) : P[r] \in Addr
    BY <1>1, PlacesAre
  <1> HIDE DEF P
  <1>4. \A r \in DOMAIN P : P[r] # NoBlock => P[r] # t /\ P[r] \in Log
    BY <1>1, <1>2 DEF Kept, Addr
  <1>5. ASSUME NEW ino \in DOMAIN map
        PROVE  /\ map[ino] # t /\ map[ino] \in Log /\ N[ino].ind # t
               /\ N[ino].ind # NoBlock => N[ino].ind \in Log
               /\ \A idx \in Idx : /\ Pointer(d, N, todo, ino, idx) # t
                                    /\ \/ Pointer(d, N, todo, ino, idx) = NoBlock
                                       \/ Pointer(d, N, todo, ino, idx) \in Log
    <2>1. /\ Entry(ino, 0, "inode") \in DOMAIN P /\ Entry(ino, 0, "indirect") \in DOMAIN P
          /\ \A idx \in Idx : Entry(ino, idx, "data") \in DOMAIN P
      BY <1>1, <1>2, InRolesOf
    <2>2. map[ino] \in Log
      BY <1>1 DEF Formed
    <2> QED
      BY <1>2, <1>4, <2>1, <2>2, LogIsLog
  <1>6. ASSUME NEW ino \in DOMAIN map, NEW idx \in Idx
        PROVE  GetBlockAddr(e, N[ino], idx) = GetBlockAddr(d, N[ino], idx)
    BY <1>5 DEF GetBlockAddr, Apart
  <1>7. ASSUME NEW ino \in DOMAIN map, NEW idx \in Idx
        PROVE  Pointer(e, N, todo, ino, idx) = Pointer(d, N, todo, ino, idx)
    BY <1>6 DEF Pointer
  <1>8. Places(e, map, N, todo) = P
    BY <1>7, RolesAre DEF Places, P, RolesOf
  <1>9. Root \in DOMAIN map /\ Pointer(d, N, todo, Root, 0) = N[Root].ptr[0]
        /\ N[Root].ptr[0] # NoBlock
    BY <1>1, Sizes DEF Formed, Pointer, Pends, PendsFine, GetBlockAddr, Good, Named
  <1>10. DirOf(e, N) = DirOf(d, N)
    BY <1>5, <1>9, Sizes DEF DirOf, Apart
  <1>11. Formed(e, map, N)
    BY <1>1, <1>5 DEF Formed, Apart
  <1>12. Good(e, map, N, todo, sum)
    BY <1>8, <1>10, <1>11 DEF Good, Named, P
  <1>13. Spared(d, map, N, e)
    BY <1>5, <1>6 DEF Spared, Apart
  <1> QED
    BY <1>8, <1>10, <1>12, <1>13 DEF P

-----------------------------------------------------------------------------
(* Changing pointers *)

\* What set_block_addr does to the inodes N, todo2 being the steps it leaves.
Pointed(N, ino, idx, addr, N2, todo2) ==
    IF idx < DirectBlocks
    THEN /\ DOMAIN N2 = DOMAIN N
         /\ N2[ino] = [N[ino] EXCEPT !.ptr[idx] = addr]
         /\ \A i \in DOMAIN N : i # ino => N2[i] = N[i]
         /\ todo2 # <<>> => todo2[1].do # "indirect"
    ELSE /\ N2 = N
         /\ todo2 # <<>> /\ todo2[1] = IndirectStep(ino, idx, addr)

\* set_block_addr, on a device where the rest is in place already: the place of
\* one data block changes, at once or through the indirect block still to write.
LEMMA PointerSet ==
    ASSUME NEW d, NEW map, NEW N, NEW todo, Formed(d, map, N),
           todo # <<>> => todo[1].do # "indirect",
           NEW ino \in DOMAIN map, NEW idx \in Idx, NEW addr \in Addr,
           NEW N2, NEW todo2,
           Pointed(N, ino, idx, addr, N2, todo2)
    PROVE  /\ Places(d, map, N2, todo2)
                = [Places(d, map, N, todo) EXCEPT ![Entry(ino, idx, "data")] = addr]
           /\ Formed(d, map, N2) /\ PendsFine(todo2)
           /\ \A i \in DOMAIN map : N2[i].size = N[i].size
           /\ \A i \in DOMAIN map : i # ino => N2[i] = N[i]
  <1> DEFINE P == Places(d, map, N, todo)
             P2 == Places(d, map, N2, todo2)
  <1>1. PendsFine(todo) /\ PendsFine(todo2)
    BY Sizes DEF PendsFine, Pointed, IndirectStep, Idx
  <1>2. /\ DOMAIN N2 = DOMAIN map
        /\ \A i \in DOMAIN map : i # ino => N2[i] = N[i]
        /\ N2[ino].size = N[ino].size /\ N2[ino].ind = N[ino].ind
        /\ IsNode(N2[ino], ino)
        /\ idx < DirectBlocks => N2[ino].ptr = [N[ino].ptr EXCEPT ![idx] = addr]
    <2>1. CASE idx < DirectBlocks
      <3>1. N[ino] \in NodeOf(ino) /\ DOMAIN N = DOMAIN map
        BY DEF Formed, IsNode
      <3>2. idx \in 0 .. (DirectBlocks - 1)
        BY <2>1, Sizes DEF Idx
      <3>3. [N[ino] EXCEPT !.ptr[idx] = addr] \in NodeOf(ino)
        BY <3>1, <3>2 DEF NodeOf
      <3>4. /\ [N[ino] EXCEPT !.ptr[idx] = addr].size = N[ino].size
            /\ [N[ino] EXCEPT !.ptr[idx] = addr].ind = N[ino].ind
            /\ [N[ino] EXCEPT !.ptr[idx] = addr].ptr = [N[ino].ptr EXCEPT ![idx] = addr]
        BY <3>1 DEF NodeOf
      <3>5. N2[ino] = [N[ino] EXCEPT !.ptr[idx] = addr] /\ DOMAIN N2 = DOMAIN map
            /\ \A i \in DOMAIN map : i # ino => N2[i] = N[i]
        BY <2>1, <3>1 DEF Pointed
      <3> QED
        BY <3>3, <3>4, <3>5 DEF IsNode, Formed
    <2>2. CASE ~(idx < DirectBlocks)
      BY <2>2 DEF Formed, Pointed
    <2> QED
      BY <2>1, <2>2
  <1>3. Formed(d, map, N2)
    <2>1. \A i \in DOMAIN map : N2[i].ind = N[i].ind /\ IsNode(N2[i], i)
      BY <1>2 DEF Formed
    <2> QED
      BY <1>2, <2>1 DEF Formed
  <1>4. \A i \in DOMAIN map : N2[i].size = N[i].size /\ N2[i].ind = N[i].ind
    BY <1>2
  <1>5. ASSUME NEW i \in DOMAIN map, NEW k \in Idx
        PROVE  Pointer(d, N2, todo2, i, k)
                 = IF i = ino /\ k = idx THEN addr ELSE Pointer(d, N, todo, i, k)
    <2>1. ~Pends(todo, i, k)
      BY DEF Pends
    <2>2. CASE idx < DirectBlocks
      <3>1. ~Pends(todo2, i, k)
        BY <2>2 DEF Pends, Pointed
      <3>2. CASE i # ino
        BY <1>2, <2>1, <3>1, <3>2 DEF Pointer, GetBlockAddr
      <3>3. CASE i = ino
        <4>1. N[ino].ptr \in [0 .. (DirectBlocks - 1) -> Addr] /\ idx \in 0 .. (DirectBlocks - 1)
          BY <2>2, Sizes DEF Formed, IsNode, NodeOf, Idx
        <4>2. /\ N2[ino].ptr[idx] = addr
              /\ \A j \in 0 .. (DirectBlocks - 1) : j # idx => N2[ino].ptr[j] = N[ino].ptr[j]
          BY <1>2, <2>2, <4>1
        <4>3. k < DirectBlocks => k \in 0 .. (DirectBlocks - 1)
          BY Sizes DEF Idx
        <4> QED
          BY <1>2, <2>1, <2>2, <3>1, <3>3, <4>2, <4>3 DEF Pointer, GetBlockAddr
      <3> QED
        BY <3>2, <3>3
    <2>3. CASE ~(idx < DirectBlocks)
      <3>1. N2 = N /\ todo2 # <<>> /\ todo2[1].do = "indirect" /\ todo2[1].ino = ino
            /\ todo2[1].idx = idx /\ todo2[1].addr = addr
        BY <2>3 DEF IndirectStep, Pointed
      <3> QED
        BY <2>1, <3>1 DEF Pointer, Pends
    <2> QED
      BY <2>2, <2>3
  <1>6. P2 = [P EXCEPT ![Entry(ino, idx, "data")] = addr]
    <2>1. DOMAIN P2 = RolesOf(DOMAIN map) /\ DOMAIN P = RolesOf(DOMAIN map)
      BY DEF Places
    <2>2. ASSUME NEW r \in RolesOf(DOMAIN map)
          PROVE  P2[r] = IF r = Entry(ino, idx, "data") THEN addr ELSE P[r]
      <3>0. DOMAIN map \subseteq Nat
        BY DEF Formed
      <3>1. /\ r.ino \in DOMAIN map /\ r.idx \in Idx
            /\ \/ r = Entry(r.ino, 0, "inode") \/ r = Entry(r.ino, 0, "indirect")
               \/ r = Entry(r.ino, r.idx, "data")
        BY <3>0, InRolesOf
      <3>2. /\ P[Entry(r.ino, 0, "inode")] = map[r.ino] /\ P2[Entry(r.ino, 0, "inode")] = map[r.ino]
            /\ P[Entry(r.ino, 0, "indirect")] = N[r.ino].ind
            /\ P2[Entry(r.ino, 0, "indirect")] = N2[r.ino].ind
            /\ P[Entry(r.ino, r.idx, "data")] = Pointer(d, N, todo, r.ino, r.idx)
            /\ P2[Entry(r.ino, r.idx, "data")] = Pointer(d, N2, todo2, r.ino, r.idx)
        BY <1>1, <1>3, <3>1, PlacesAre
      <3>3. N2[r.ino].ind = N[r.ino].ind
        BY <1>4, <3>1
      <3>4. Pointer(d, N2, todo2, r.ino, r.idx)
              = IF r.ino = ino /\ r.idx = idx THEN addr ELSE Pointer(d, N, todo, r.ino, r.idx)
        BY <1>5, <3>1
      <3> QED
        BY <3>1, <3>2, <3>3, <3>4, SameEntry
    <2>3. P2 = [r \in RolesOf(DOMAIN map) |-> IF r = Entry(ino, idx, "data") THEN addr ELSE P[r]]
      BY <2>1, <2>2 DEF Places
    <2> QED
      BY <2>1, <2>3
  <1> QED
    BY <1>1, <1>2, <1>3, <1>4, <1>6

\* Steps that are no pending indirect block do not show in the image.
LEMMA NothingPends ==
    ASSUME NEW d, NEW map, NEW N, NEW todo, NEW todo2,
           todo # <<>> => todo[1].do # "indirect",
           todo2 # <<>> => todo2[1].do # "indirect"
    PROVE  Places(d, map, N, todo2) = Places(d, map, N, todo) /\ PendsFine(todo2)
  BY DEF Places, Pointer, Pends, PendsFine

\* An inode in N gets the indirect block t.
Indirected(N, ino, t, N2) ==
    /\ DOMAIN N2 = DOMAIN N
    /\ N2[ino] = [N[ino] EXCEPT !.ind = t]
    /\ \A i \in DOMAIN N : i # ino => N2[i] = N[i]

\* A new indirect block was written, with the pointers the file should have.
LEMMA IndirectSet ==
    ASSUME NEW d, NEW map, NEW N, NEW todo, Formed(d, map, N), PendsFine(todo),
           NEW ino \in DOMAIN map, NEW t \in Log, IsIndirect(d[t]),
           \A i \in DOMAIN map, k \in Idx : Pends(todo, i, k) => i = ino,
           \A k \in Idx : k >= DirectBlocks
                => d[t].ptr[k - DirectBlocks] = Pointer(d, N, todo, ino, k),
           NEW N2, Indirected(N, ino, t, N2),
           NEW todo2, todo2 # <<>> => todo2[1].do # "indirect"
    PROVE  /\ Places(d, map, N2, todo2)
                = [Places(d, map, N, todo) EXCEPT ![Entry(ino, 0, "indirect")] = t]
           /\ Formed(d, map, N2) /\ PendsFine(todo2)
           /\ \A i \in DOMAIN map : N2[i].size = N[i].size
           /\ \A i \in DOMAIN map : N2[i].ptr = N[i].ptr
           /\ \A i \in DOMAIN map : i # ino => N2[i] = N[i]
  <1> DEFINE P == Places(d, map, N, todo)
             P2 == Places(d, map, N2, todo2)
  <1>1. PendsFine(todo2)
    BY DEF PendsFine
  <1>2. /\ DOMAIN N2 = DOMAIN map
        /\ \A i \in DOMAIN map : i # ino => N2[i] = N[i]
        /\ N2[ino].size = N[ino].size /\ N2[ino].ind = t /\ N2[ino].ptr = N[ino].ptr
        /\ IsNode(N2[ino], ino)
    <2>1. N[ino] \in NodeOf(ino) /\ DOMAIN N = DOMAIN map /\ t \in Addr
      BY DEF Formed, IsNode, Addr
    <2>2. [N[ino] EXCEPT !.ind = t] \in NodeOf(ino)
      BY <2>1 DEF NodeOf
    <2>3. /\ [N[ino] EXCEPT !.ind = t].size = N[ino].size
          /\ [N[ino] EXCEPT !.ind = t].ind = t
          /\ [N[ino] EXCEPT !.ind = t].ptr = N[ino].ptr
      BY <2>1 DEF NodeOf
    <2> QED
      BY <2>1, <2>2, <2>3 DEF IsNode, Formed, Indirected
  <1>3. Formed(d, map, N2)
    BY <1>2 DEF Formed
  <1>4. ASSUME NEW i \in DOMAIN map, NEW k \in Idx
        PROVE  Pointer(d, N2, todo2, i, k) = Pointer(d, N, todo, i, k)
    <2>1. ~Pends(todo2, i, k)
      BY DEF Pends
    <2>2. CASE i # ino
      <3>1. ~Pends(todo, i, k)
        BY <2>2
      <3> QED
        BY <1>2, <2>1, <2>2, <3>1 DEF Pointer, GetBlockAddr
    <2>3. CASE i = ino /\ k < DirectBlocks
      <3>1. ~Pends(todo, i, k)
        BY <2>3, Sizes DEF Pends, PendsFine, Idx
      <3> QED
        BY <1>2, <2>1, <2>3, <3>1 DEF Pointer, GetBlockAddr
    <2>4. CASE i = ino /\ ~(k < DirectBlocks)
      <3>1. k >= DirectBlocks
        BY <2>4, Sizes DEF Idx
      <3>2. Pointer(d, N2, todo2, i, k) = d[t].ptr[k - DirectBlocks]
        BY <1>2, <2>1, <2>4, LogIsLog DEF Pointer, GetBlockAddr
      <3> QED
        BY <2>4, <3>1, <3>2
    <2> QED
      BY <2>2, <2>3, <2>4
  <1>5. P2 = [P EXCEPT ![Entry(ino, 0, "indirect")] = t]
    <2>0. \A i \in DOMAIN map :
             /\ P2[Entry(i, 0, "inode")] = map[i]
             /\ P2[Entry(i, 0, "indirect")] = N2[i].ind
             /\ \A k \in Idx : P2[Entry(i, k, "data")] = Pointer(d, N2, todo2, i, k)
      BY <1>1, <1>3, PlacesAre
    <2>1. DOMAIN P2 = RolesOf(DOMAIN map) /\ DOMAIN P = RolesOf(DOMAIN map)
      BY DEF Places
    <2>2. ASSUME NEW r \in RolesOf(DOMAIN map)
          PROVE  P2[r] = IF r = Entry(ino, 0, "indirect") THEN t ELSE P[r]
      <3>0. DOMAIN map \subseteq Nat
        BY DEF Formed
      <3>1. /\ r.ino \in DOMAIN map /\ r.idx \in Idx
            /\ \/ r = Entry(r.ino, 0, "inode") \/ r = Entry(r.ino, 0, "indirect")
               \/ r = Entry(r.ino, r.idx, "data")
        BY <3>0, InRolesOf
      <3>2. /\ P[Entry(r.ino, 0, "inode")] = map[r.ino]
            /\ P[Entry(r.ino, 0, "indirect")] = N[r.ino].ind
            /\ P[Entry(r.ino, r.idx, "data")] = Pointer(d, N, todo, r.ino, r.idx)
        BY <3>1, PlacesAre
      <3>5. /\ P2[Entry(r.ino, 0, "inode")] = map[r.ino]
            /\ P2[Entry(r.ino, 0, "indirect")] = N2[r.ino].ind
            /\ P2[Entry(r.ino, r.idx, "data")] = Pointer(d, N2, todo2, r.ino, r.idx)
        BY <2>0, <3>1
      <3>3. Pointer(d, N2, todo2, r.ino, r.idx) = Pointer(d, N, todo, r.ino, r.idx)
        BY <1>4, <3>1
      <3>4. N2[r.ino].ind = IF r.ino = ino THEN t ELSE N[r.ino].ind
        BY <1>2, <3>1
      <3> QED
        BY <3>1, <3>2, <3>3, <3>4, <3>5, SameEntry
    <2>3. P2 = [r \in RolesOf(DOMAIN map) |-> IF r = Entry(ino, 0, "indirect") THEN t ELSE P[r]]
      BY <2>1, <2>2 DEF Places
    <2> QED
      BY <2>1, <2>3
  <1>6. \A i \in DOMAIN map : N2[i].size = N[i].size /\ N2[i].ptr = N[i].ptr
    BY <1>2
  <1> QED
    BY <1>1, <1>2, <1>3, <1>5, <1>6

\* An inode was written: a new one, without blocks, or a new copy with the old pointers.
LEMMA InodeSet ==
    ASSUME NEW d, NEW map, NEW N, NEW todo, Formed(d, map, N),
           todo # <<>> => todo[1].do # "indirect",
           NEW ino \in Nat \ {NoIno}, NEW t \in Log, NEW inode, IsNode(inode, ino),
           IF ino \in DOMAIN map THEN inode.ptr = N[ino].ptr /\ inode.ind = N[ino].ind
           ELSE inode.ind = NoBlock /\ \A k \in 0 .. (DirectBlocks - 1) : inode.ptr[k] = NoBlock,
           NEW map2, Filed(map, {}, ino, t, map2),
           NEW N2, Filed(N, {}, ino, inode, N2),
           NEW todo2, todo2 # <<>> => todo2[1].do # "indirect"
    PROVE  /\ Places(d, map2, N2, todo2)
                = [r \in RolesOf(DOMAIN map2) |->
                      IF r = Entry(ino, 0, "inode") THEN t
                      ELSE IF r.ino \in DOMAIN map THEN Places(d, map, N, todo)[r] ELSE NoBlock]
           /\ Formed(d, map2, N2) /\ PendsFine(todo2)
           /\ \A i \in DOMAIN map : N2[i].ptr = N[i].ptr
  <1> DEFINE P == Places(d, map, N, todo)
             P2 == Places(d, map2, N2, todo2)
  <1>1. PendsFine(todo) /\ PendsFine(todo2)
    BY DEF PendsFine
  <1>2. /\ DOMAIN map2 = DOMAIN map \cup {ino} /\ DOMAIN map2 \subseteq Nat \ {NoIno}
        /\ \A i \in DOMAIN map2 : map2[i] = IF i = ino THEN t ELSE map[i]
        /\ DOMAIN N2 = DOMAIN map2 /\ N2[ino] = inode
        /\ \A i \in DOMAIN map \ {ino} : N2[i] = N[i]
    BY DEF Formed, Filed
  <1>3. \A i \in DOMAIN map : N2[i].ptr = N[i].ptr /\ N2[i].ind = N[i].ind
    BY <1>2
  <1>4. Formed(d, map2, N2)
    BY <1>2, <1>3 DEF Formed
  <1>5. ASSUME NEW i \in DOMAIN map2, NEW k \in Idx
        PROVE  Pointer(d, N2, todo2, i, k)
                = IF i \in DOMAIN map THEN Pointer(d, N, todo, i, k) ELSE NoBlock
    <2>1. ~Pends(todo2, i, k) /\ ~Pends(todo, i, k)
      BY DEF Pends
    <2>2. k < DirectBlocks => k \in 0 .. (DirectBlocks - 1)
      BY Sizes DEF Idx
    <2>3. CASE i \in DOMAIN map
      BY <1>3, <2>1, <2>3 DEF Pointer, GetBlockAddr
    <2>4. CASE i \notin DOMAIN map
      BY <1>2, <2>1, <2>2, <2>4 DEF Pointer, GetBlockAddr
    <2> QED
      BY <2>3, <2>4
  <1>6. P2 = [r \in RolesOf(DOMAIN map2) |->
                  IF r = Entry(ino, 0, "inode") THEN t
                  ELSE IF r.ino \in DOMAIN map THEN P[r] ELSE NoBlock]
    <2>1. DOMAIN P2 = RolesOf(DOMAIN map2)
      BY DEF Places
    <2>2. ASSUME NEW r \in RolesOf(DOMAIN map2)
          PROVE  P2[r] = IF r = Entry(ino, 0, "inode") THEN t
                         ELSE IF r.ino \in DOMAIN map THEN P[r] ELSE NoBlock
      <3>1. /\ r.ino \in DOMAIN map2 /\ r.idx \in Idx
            /\ \/ r = Entry(r.ino, 0, "inode") \/ r = Entry(r.ino, 0, "indirect")
               \/ r = Entry(r.ino, r.idx, "data")
        BY <1>2, InRolesOf
      <3>2. /\ P2[Entry(r.ino, 0, "inode")] = map2[r.ino]
            /\ P2[Entry(r.ino, 0, "indirect")] = N2[r.ino].ind
            /\ P2[Entry(r.ino, r.idx, "data")] = Pointer(d, N2, todo2, r.ino, r.idx)
        BY <1>1, <1>4, <3>1, PlacesAre
      <3>3. r.ino \in DOMAIN map
            => /\ P[Entry(r.ino, 0, "inode")] = map[r.ino]
               /\ P[Entry(r.ino, 0, "indirect")] = N[r.ino].ind
               /\ P[Entry(r.ino, r.idx, "data")] = Pointer(d, N, todo, r.ino, r.idx)
        BY <1>1, <3>1, PlacesAre
      <3>4. Pointer(d, N2, todo2, r.ino, r.idx)
              = IF r.ino \in DOMAIN map THEN Pointer(d, N, todo, r.ino, r.idx) ELSE NoBlock
        BY <1>5, <3>1
      <3>5. N2[r.ino].ind = IF r.ino \in DOMAIN map THEN N[r.ino].ind ELSE NoBlock
        BY <1>2, <1>3, <3>1
      <3>6. map2[r.ino] = IF r.ino = ino THEN t ELSE map[r.ino]
        BY <1>2, <3>1
      <3>7. r.ino \notin DOMAIN map => r.ino = ino
        BY <1>2, <3>1
      <3> QED
        BY <3>1, <3>2, <3>3, <3>4, <3>5, <3>6, <3>7, SameEntry
    <2> DEFINE F == [r \in RolesOf(DOMAIN map2) |-> P2[r]]
    <2>3. P2 = F
      BY <2>1 DEF Places
    <2> HIDE DEF P2, P
    <2> QED
      BY <2>2, <2>3
  <1> QED
    BY <1>1, <1>3, <1>4, <1>6

Narrowed(f, keys, g) == DOMAIN g = keys /\ \A x \in keys : g[x] = f[x]

\* Inodes left the map.
LEMMA InodeGone ==
    ASSUME NEW d, NEW map, NEW N, NEW todo, Formed(d, map, N),
           todo # <<>> => todo[1].do # "indirect",
           NEW gone, Root \notin gone,
           NEW map2, Struck(map, gone, map2),
           NEW N2, Struck(N, gone, N2),
           NEW todo2, todo2 # <<>> => todo2[1].do # "indirect"
    PROVE  /\ Narrowed(Places(d, map, N, todo), RolesOf(DOMAIN map2), Places(d, map2, N2, todo2))
           /\ Formed(d, map2, N2) /\ PendsFine(todo2)
  <1>1. PendsFine(todo2)
    BY DEF PendsFine
  <1>2. DOMAIN map2 = DOMAIN map \ gone /\ DOMAIN N2 = DOMAIN map2
        /\ \A i \in DOMAIN map2 : map2[i] = map[i] /\ N2[i] = N[i]
    BY DEF Struck, Formed
  <1>3. Formed(d, map2, N2)
    BY <1>2 DEF Formed
  <1>4. ASSUME NEW r \in RolesOf(DOMAIN map2)
        PROVE  /\ r \in RolesOf(DOMAIN map) /\ r.ino \in DOMAIN map2
               /\ Pointer(d, N2, todo2, r.ino, r.idx) = Pointer(d, N, todo, r.ino, r.idx)
    <2>1. r.ino \in DOMAIN map2 /\ r \in RolesOf(DOMAIN map)
      BY <1>2 DEF RolesOf
    <2> QED
      BY <1>2, <2>1 DEF Pointer, Pends, GetBlockAddr
  <1>5. /\ DOMAIN Places(d, map2, N2, todo2) = RolesOf(DOMAIN map2)
        /\ \A r \in RolesOf(DOMAIN map2) :
              Places(d, map2, N2, todo2)[r] = Places(d, map, N, todo)[r]
    BY <1>2, <1>4 DEF Places
  <1> QED
    BY <1>1, <1>3, <1>5 DEF Narrowed

-----------------------------------------------------------------------------
(* The summary follows the pointers *)

\* What stays the same.
SamePlaces(P, Q, r) == DOMAIN Q = DOMAIN P /\ \A e \in DOMAIN P : e # r => Q[e] = P[e]
OthersSame(N, N2, ino) == \A i \in DOMAIN N : i # ino => N2[i] = N[i]
SamePtrs(N, N2) == \A i \in DOMAIN N : N2[i].ptr = N[i].ptr
SameData(P, Q) ==
    \A e \in DOMAIN Q : e.type = "inode" \/ Q[e] = NoBlock \/ (e \in DOMAIN P /\ Q[e] = P[e])
Without(P, Q, ino) == \A e \in DOMAIN Q : e \in DOMAIN P /\ e.ino # ino /\ Q[e] = P[e]

\* If a pointer is still to be written, then one of this inode; the block has the
\* pointers the inode should have; no block of the inode lies beyond its size; an
\* inode has the pointers of its predecessor, a new one has none.
OnlyPends(todo, ino) == \A i, k : Pends(todo, i, k) => i = ino
Redirects(block, d, N, todo, ino) ==
    \A k \in Idx : k >= DirectBlocks => block.ptr[k - DirectBlocks] = Pointer(d, N, todo, ino, k)
Short(d, inode) ==
    \A idx \in Idx : GetBlockAddr(d, inode, idx) # NoBlock => idx < NumBlocks(inode)
\* The blocks of an inode that is at addr.
BlocksOf(d, inode, addr) ==
    {GetBlockAddr(d, inode, idx) : idx \in 0 .. (NumBlocks(inode) - 1)} \cup {inode.ind, addr}

Carries(inode, N, ino) ==
    IF ino \in DOMAIN N THEN inode.ptr = N[ino].ptr /\ inode.ind = N[ino].ind
    ELSE inode.ind = NoBlock /\ \A k \in 0 .. (DirectBlocks - 1) : inode.ptr[k] = NoBlock

\* A data block was written for the pointer that is set to it.
LEMMA DataPlaced ==
    ASSUME NEW d, NEW map, NEW N, NEW todo, NEW sum, Good(d, map, N, todo, sum),
           todo # <<>> => todo[1].do # "indirect",
           NEW ino \in DOMAIN map, NEW idx \in Idx, NEW t \in Log, t \notin DOMAIN sum,
           NEW N2, NEW todo2,
           Pointed(N, ino, idx, t, N2, todo2),
           NEW old, old = GetBlockAddr(d, N[ino], idx),
           NEW sum2, Filed(sum, {old}, t, Entry(ino, idx, "data"), sum2)
    PROVE  /\ Formed(d, map, N2) /\ PendsFine(todo2)
           /\ Kept(Places(d, map, N2, todo2), sum2)
           /\ OthersSame(N, N2, ino)
           /\ SamePlaces(Places(d, map, N, todo), Places(d, map, N2, todo2), Entry(ino, idx, "data"))
  <1> DEFINE dead == {old}
             P == Places(d, map, N, todo)
             Q == Places(d, map, N2, todo2)
             r == Entry(ino, idx, "data")
  <1>1. Formed(d, map, N) /\ PendsFine(todo) /\ Kept(P, sum) /\ DOMAIN map \subseteq Nat /\ t \in Addr
    BY DEF Good, Formed, Addr
  <1>2. /\ Q = [P EXCEPT ![r] = t]
        /\ Formed(d, map, N2) /\ PendsFine(todo2)
        /\ \A i \in DOMAIN map : N2[i].size = N[i].size
        /\ \A i \in DOMAIN map : i # ino => N2[i] = N[i]
    BY <1>1, PointerSet
  <1>3. DOMAIN P = RolesOf(DOMAIN map) /\ r \in RolesOf(DOMAIN map)
    BY <1>1, InRolesOf DEF Places
  <1>4. P[r] = old
    <2>1. P[r] = Pointer(d, N, todo, ino, idx)
      BY <1>1, PlacesAre
    <2> QED
      BY <2>1 DEF Pointer, Pends
  <1>5. r.type # "map"
    BY RolesAre
  <1> HIDE DEF P, Q, r
  <1>6. DOMAIN Q = DOMAIN P /\ r \in DOMAIN Q /\ Q[r] = t /\ \A e \in DOMAIN P : e # r => Q[e] = P[e]
    BY <1>2, <1>3
  <1>7. \A e \in DOMAIN P : e # r => P[e] \notin dead \/ P[e] = NoBlock
    <2> SUFFICES ASSUME NEW e \in DOMAIN P, e # r, P[e] \in dead, P[e] # NoBlock PROVE FALSE
      OBVIOUS
    <2>1. P[e] = P[r]
      BY <1>4
    <2> QED
      BY <1>1, <1>3, <2>1, OneRoleEach
  <1>8. Kept(Q, sum2)
    <2>1. \A e \in DOMAIN P : e # r =>
             e \in DOMAIN Q /\ Q[e] = P[e] /\ (P[e] \notin dead \/ P[e] = NoBlock)
      BY <1>6, <1>7
    <2>2. \A e \in DOMAIN Q \ DOMAIN P : e # r => Q[e] = NoBlock
      BY <1>6
    <2>3. r \in DOMAIN P /\ P[r] # NoBlock => P[r] \in dead
      BY <1>4
    <2>4. Filed(sum, dead, t, r, sum2)
      BY DEF r
    <2> QED
      BY <1>1, <1>5, <1>6, <2>1, <2>2, <2>3, <2>4, Replaced
  <1>9. DOMAIN N = DOMAIN map
    BY <1>1 DEF Formed
  <1> QED
    BY <1>2, <1>6, <1>8, <1>9 DEF P, Q, r, OthersSame, SamePlaces

\* A data block was dropped for the pointer that is set to NoBlock.
LEMMA DataCut ==
    ASSUME NEW d, NEW map, NEW N, NEW todo, NEW sum, Good(d, map, N, todo, sum),
           todo # <<>> => todo[1].do # "indirect",
           NEW ino \in DOMAIN map, NEW idx \in Idx,
           NEW N2, NEW todo2,
           Pointed(N, ino, idx, NoBlock, N2, todo2),
           NEW old, old = GetBlockAddr(d, N[ino], idx), old # NoBlock,
           NEW sum2, Struck(sum, {old}, sum2)
    PROVE  /\ Formed(d, map, N2) /\ PendsFine(todo2)
           /\ Kept(Places(d, map, N2, todo2), sum2)
           /\ OthersSame(N, N2, ino)
           /\ Places(d, map, N2, todo2)[Entry(ino, idx, "data")] = NoBlock
           /\ SamePlaces(Places(d, map, N, todo), Places(d, map, N2, todo2), Entry(ino, idx, "data"))
  <1> DEFINE dead == {old}
             P == Places(d, map, N, todo)
             Q == Places(d, map, N2, todo2)
             r == Entry(ino, idx, "data")
  <1>1. Formed(d, map, N) /\ PendsFine(todo) /\ Kept(P, sum) /\ DOMAIN map \subseteq Nat
        /\ NoBlock \in Addr
    BY DEF Good, Formed, Addr
  <1>2. /\ Q = [P EXCEPT ![r] = NoBlock]
        /\ Formed(d, map, N2) /\ PendsFine(todo2)
        /\ \A i \in DOMAIN map : N2[i].size = N[i].size
        /\ \A i \in DOMAIN map : i # ino => N2[i] = N[i]
    BY <1>1, PointerSet
  <1>3. DOMAIN P = RolesOf(DOMAIN map) /\ r \in RolesOf(DOMAIN map)
    BY <1>1, InRolesOf DEF Places
  <1>4. P[r] = old
    <2>1. P[r] = Pointer(d, N, todo, ino, idx)
      BY <1>1, PlacesAre
    <2> QED
      BY <2>1 DEF Pointer, Pends
  <1> HIDE DEF P, Q, r
  <1>5. DOMAIN Q = DOMAIN P /\ r \in DOMAIN Q /\ Q[r] = NoBlock
        /\ \A e \in DOMAIN P : e # r => Q[e] = P[e]
    BY <1>2, <1>3
  <1>6. \A e \in DOMAIN P : e # r => P[e] \notin dead
    BY <1>1, <1>3, <1>4, OneRoleEach
  <1>7. Kept(Q, sum2)
    <2>1. \A e \in DOMAIN Q : (Q[e] = P[e] /\ P[e] \notin dead) \/ Q[e] = NoBlock
      BY <1>5, <1>6
    <2>2. \A e \in DOMAIN P : P[e] # NoBlock /\ P[e] \notin dead => e \in DOMAIN Q /\ Q[e] = P[e]
      BY <1>4, <1>5
    <2>3. Struck(sum, dead, sum2) /\ DOMAIN Q \subseteq DOMAIN P
      BY <1>5
    <2> HIDE DEF dead
    <2> QED
      BY <1>1, <2>1, <2>2, <2>3, Dropped
  <1>8. DOMAIN N = DOMAIN map
    BY <1>1 DEF Formed
  <1> QED
    BY <1>2, <1>5, <1>7, <1>8 DEF P, Q, r, OthersSame, SamePlaces

\* An indirect block was written in the place of the old one.
LEMMA IndirectPlaced ==
    ASSUME NEW d, NEW map, NEW N, NEW todo, NEW sum, Good(d, map, N, todo, sum),
           NEW ino \in DOMAIN map, NEW t \in Log, t \notin DOMAIN sum, IsIndirect(d[t]),
           OnlyPends(todo, ino), Redirects(d[t], d, N, todo, ino),
           NEW N2, Indirected(N, ino, t, N2),
           NEW todo2, todo2 # <<>> => todo2[1].do # "indirect",
           NEW sum2, Filed(sum, {N[ino].ind}, t, Entry(ino, 0, "indirect"), sum2)
    PROVE  /\ Formed(d, map, N2) /\ PendsFine(todo2)
           /\ Kept(Places(d, map, N2, todo2), sum2)
           /\ SamePtrs(N, N2)
           /\ SamePlaces(Places(d, map, N, todo), Places(d, map, N2, todo2), Entry(ino, 0, "indirect"))
  <1> DEFINE dead == {N[ino].ind}
             P == Places(d, map, N, todo)
             Q == Places(d, map, N2, todo2)
             r == Entry(ino, 0, "indirect")
  <1>1. Formed(d, map, N) /\ PendsFine(todo) /\ Kept(P, sum) /\ DOMAIN map \subseteq Nat
    BY DEF Good, Formed
  <1>2. /\ Q = [P EXCEPT ![r] = t]
        /\ Formed(d, map, N2) /\ PendsFine(todo2)
        /\ \A i \in DOMAIN map : N2[i].size = N[i].size
        /\ \A i \in DOMAIN map : N2[i].ptr = N[i].ptr
    BY <1>1, IndirectSet DEF OnlyPends, Redirects
  <1>3. DOMAIN P = RolesOf(DOMAIN map) /\ r \in RolesOf(DOMAIN map)
    BY <1>1, InRolesOf DEF Places
  <1>4. P[r] = N[ino].ind
    BY <1>1, PlacesAre
  <1>5. r.type # "map"
    BY RolesAre
  <1> HIDE DEF P, Q, r
  <1>6. DOMAIN Q = DOMAIN P /\ r \in DOMAIN Q /\ Q[r] = t /\ \A e \in DOMAIN P : e # r => Q[e] = P[e]
    BY <1>2, <1>3
  <1>7. \A e \in DOMAIN P : e # r => P[e] \notin dead \/ P[e] = NoBlock
    <2> SUFFICES ASSUME NEW e \in DOMAIN P, e # r, P[e] \in dead, P[e] # NoBlock PROVE FALSE
      OBVIOUS
    <2>1. P[e] = P[r]
      BY <1>4
    <2> QED
      BY <1>1, <1>3, <2>1, OneRoleEach
  <1>8. Kept(Q, sum2)
    <2>1. \A e \in DOMAIN P : e # r =>
             e \in DOMAIN Q /\ Q[e] = P[e] /\ (P[e] \notin dead \/ P[e] = NoBlock)
      BY <1>6, <1>7
    <2>2. \A e \in DOMAIN Q \ DOMAIN P : e # r => Q[e] = NoBlock
      BY <1>6
    <2>3. r \in DOMAIN P /\ P[r] # NoBlock => P[r] \in dead
      BY <1>4
    <2>4. Filed(sum, dead, t, r, sum2)
      BY DEF r
    <2> HIDE DEF dead
    <2> QED
      BY <1>1, <1>5, <1>6, <2>1, <2>2, <2>3, <2>4, Replaced
  <1>9. DOMAIN N = DOMAIN map
    BY <1>1 DEF Formed
  <1> QED
    BY <1>2, <1>6, <1>8, <1>9 DEF P, Q, r, SamePtrs, SamePlaces

\* An inode was written, in the place of the old one if there is one.
LEMMA InodePlaced ==
    ASSUME NEW d, NEW map, NEW N, NEW todo, NEW sum, Good(d, map, N, todo, sum),
           todo # <<>> => todo[1].do # "indirect",
           NEW ino \in Nat \ {NoIno}, NEW t \in Log, t \notin DOMAIN sum,
           NEW inode, IsNode(inode, ino),
           Carries(inode, N, ino),
           NEW map2, Filed(map, {}, ino, t, map2),
           NEW N2, Filed(N, {}, ino, inode, N2),
           NEW todo2, todo2 # <<>> => todo2[1].do # "indirect",
           NEW old, old = IF ino \in DOMAIN map THEN {map[ino]} ELSE {},
           NEW sum2, Filed(sum, old, t, Entry(ino, 0, "inode"), sum2)
    PROVE  /\ Formed(d, map2, N2) /\ PendsFine(todo2)
           /\ Kept(Places(d, map2, N2, todo2), sum2)
           /\ SamePtrs(N, N2)
           /\ SameData(Places(d, map, N, todo), Places(d, map2, N2, todo2))
  <1> DEFINE P == Places(d, map, N, todo)
             Q == Places(d, map2, N2, todo2)
             r == Entry(ino, 0, "inode")
  <1>1. Formed(d, map, N) /\ PendsFine(todo) /\ Kept(P, sum) /\ DOMAIN map \subseteq Nat
    BY DEF Good, Formed
  <1>2. /\ Q = [e \in RolesOf(DOMAIN map2) |->
                   IF e = r THEN t ELSE IF e.ino \in DOMAIN map THEN P[e] ELSE NoBlock]
        /\ Formed(d, map2, N2) /\ PendsFine(todo2)
        /\ \A i \in DOMAIN map : N2[i].ptr = N[i].ptr
    <2>1. IF ino \in DOMAIN map THEN inode.ptr = N[ino].ptr /\ inode.ind = N[ino].ind
          ELSE inode.ind = NoBlock /\ \A k \in 0 .. (DirectBlocks - 1) : inode.ptr[k] = NoBlock
      BY <1>1 DEF Carries, Formed
    <2> QED
      BY <1>1, <2>1, InodeSet
  <1>3. DOMAIN map2 = DOMAIN map \cup {ino} /\ DOMAIN map2 \subseteq Nat
    BY <1>1 DEF Filed
  <1>4. /\ DOMAIN P = RolesOf(DOMAIN map) /\ r \in RolesOf(DOMAIN map2)
        /\ \A e \in RolesOf(DOMAIN map2) : e.ino \in DOMAIN map <=> e \in RolesOf(DOMAIN map)
        /\ RolesOf(DOMAIN map) \subseteq RolesOf(DOMAIN map2)
        /\ r \in RolesOf(DOMAIN map) <=> ino \in DOMAIN map
    <2>1. r \in RolesOf(DOMAIN map2) /\ r.ino = ino
      BY <1>3, InRolesOf, RolesAre
    <2> QED
      BY <1>3, <2>1 DEF Places, RolesOf
  <1>5. ino \in DOMAIN map => P[r] = map[ino]
    BY <1>1, PlacesAre
  <1>6. r.type = "inode"
    BY RolesAre
  <1> HIDE DEF P, Q, r
  <1>7. /\ DOMAIN Q = RolesOf(DOMAIN map2) /\ Q[r] = t
        /\ \A e \in DOMAIN P : e # r => Q[e] = P[e]
        /\ \A e \in DOMAIN Q \ DOMAIN P : e # r => Q[e] = NoBlock
    BY <1>2, <1>4
  <1>8. \A e \in DOMAIN P : e # r => P[e] \notin old \/ P[e] = NoBlock
    <2> SUFFICES ASSUME NEW e \in DOMAIN P, e # r, P[e] \in old, P[e] # NoBlock PROVE FALSE
      OBVIOUS
    <2>1. ino \in DOMAIN map /\ P[e] = P[r]
      BY <1>5
    <2> QED
      BY <1>1, <1>4, <2>1, OneRoleEach
  <1>9. Kept(Q, sum2)
    <2>1. \A e \in DOMAIN P : e # r =>
             e \in DOMAIN Q /\ Q[e] = P[e] /\ (P[e] \notin old \/ P[e] = NoBlock)
      BY <1>4, <1>7, <1>8
    <2>2. r \in DOMAIN P /\ P[r] # NoBlock => P[r] \in old
      BY <1>4, <1>5
    <2>3. Filed(sum, old, t, r, sum2)
      BY DEF r
    <2>4. r \in DOMAIN Q /\ r.type # "map"
      BY <1>4, <1>6, <1>7
    <2> QED
      BY <1>1, <1>7, <2>1, <2>2, <2>3, <2>4, Replaced
  <1>10. \A e \in DOMAIN Q : \/ e.type = "inode" \/ Q[e] = NoBlock
                             \/ e \in DOMAIN P /\ Q[e] = P[e]
    BY <1>6, <1>7
  <1>11. DOMAIN N = DOMAIN map
    BY <1>1 DEF Formed
  <1> QED
    BY <1>2, <1>9, <1>10, <1>11 DEF P, Q, SamePtrs, SameData

\* An inode left the map, and its blocks the summary.
LEMMA InodeDropped ==
    ASSUME NEW d, NEW map, NEW N, NEW todo, NEW sum, Good(d, map, N, todo, sum),
           todo # <<>> => todo[1].do # "indirect",
           NEW ino \in DOMAIN map, ino # Root,
           Short(d, N[ino]),
           NEW map2, Struck(map, {ino}, map2),
           NEW N2, Struck(N, {ino}, N2),
           NEW todo2, todo2 # <<>> => todo2[1].do # "indirect",
           NEW sum2, Struck(sum, BlocksOf(d, N[ino], map[ino]), sum2)
    PROVE  /\ Formed(d, map2, N2) /\ PendsFine(todo2)
           /\ Kept(Places(d, map2, N2, todo2), sum2)
           /\ Without(Places(d, map, N, todo), Places(d, map2, N2, todo2), ino)
  <1> DEFINE P == Places(d, map, N, todo)
             Q == Places(d, map2, N2, todo2)
             dead == BlocksOf(d, N[ino], map[ino])
  <1>1. Formed(d, map, N) /\ PendsFine(todo) /\ Kept(P, sum) /\ DOMAIN map \subseteq Nat
    BY DEF Good, Formed
  <1>2. /\ DOMAIN Q = RolesOf(DOMAIN map2) /\ \A r \in RolesOf(DOMAIN map2) : Q[r] = P[r]
        /\ Formed(d, map2, N2) /\ PendsFine(todo2)
    <2>1. Formed(d, map, N)
      BY <1>1
    <2>2. Root \notin {ino}
      OBVIOUS
    <2>3. Narrowed(P, RolesOf(DOMAIN map2), Q) /\ Formed(d, map2, N2) /\ PendsFine(todo2)
      BY <2>1, <2>2, InodeGone
    <2> HIDE DEF P, Q
    <2> QED
      BY <2>3 DEF Narrowed
  <1>3. DOMAIN P = RolesOf(DOMAIN map)
    BY DEF Places
  <1>4. /\ P[Entry(ino, 0, "inode")] = map[ino] /\ P[Entry(ino, 0, "indirect")] = N[ino].ind
        /\ \A idx \in Idx : P[Entry(ino, idx, "data")] = GetBlockAddr(d, N[ino], idx)
    BY <1>1, PlacesAre DEF Pointer, Pends
  <1>5. 0 .. (NumBlocks(N[ino]) - 1) \subseteq Idx
        /\ \A idx \in Idx : idx < NumBlocks(N[ino]) => idx \in 0 .. (NumBlocks(N[ino]) - 1)
    <2>1. IsNode(N[ino], ino)
      BY <1>1 DEF Formed
    <2>2. NumBlocks(N[ino]) \in Nat /\ NumBlocks(N[ino]) <= MaxBlocks
      BY <2>1, NumBlocksIs, BlocksRange DEF IsNode, NodeOf
    <2> QED
      BY <2>2, Sizes DEF Idx
  <1>6. \A r \in RolesOf(DOMAIN map) :
            r \in RolesOf(DOMAIN map2) <=> r.ino # ino
    BY DEF RolesOf, Struck
  <1>7. \A r \in RolesOf(DOMAIN map) :
            /\ r.ino \in DOMAIN map /\ r.idx \in Idx
            /\ \/ r = Entry(r.ino, 0, "inode") \/ r = Entry(r.ino, 0, "indirect")
               \/ r = Entry(r.ino, r.idx, "data")
    BY <1>1, InRolesOf
  <1>8. RolesOf(DOMAIN map2) \subseteq RolesOf(DOMAIN map)
    BY DEF RolesOf, Struck
  <1>9. \A a \in dead : a # NoBlock => \E r \in RolesOf(DOMAIN map) : r.ino = ino /\ P[r] = a
    <2>1. /\ Entry(ino, 0, "inode") \in RolesOf(DOMAIN map)
          /\ Entry(ino, 0, "indirect") \in RolesOf(DOMAIN map)
          /\ \A idx \in Idx : Entry(ino, idx, "data") \in RolesOf(DOMAIN map)
      BY <1>1, InRolesOf
    <2> HIDE DEF P
    <2> QED
      BY <1>4, <1>5, <2>1, RolesAre DEF BlocksOf
  <1> HIDE DEF P, Q
  <1>10. ASSUME NEW r \in RolesOf(DOMAIN map), r.ino = ino, P[r] # NoBlock
         PROVE  P[r] \in dead
    BY <1>4, <1>5, <1>7, <1>10 DEF Short, BlocksOf
  <1> HIDE DEF dead
  <1>11. Kept(Q, sum2)
    <2>1. \A e \in DOMAIN Q : (Q[e] = P[e] /\ P[e] \notin dead) \/ Q[e] = NoBlock
      <3> SUFFICES ASSUME NEW e \in DOMAIN Q, P[e] \in dead, P[e] # NoBlock
                   PROVE  FALSE
        BY <1>2
      <3>1. e \in DOMAIN P /\ e.ino # ino
        BY <1>2, <1>3, <1>6, <1>8
      <3>2. PICK r \in DOMAIN P : r.ino = ino /\ P[r] = P[e]
        BY <1>3, <1>9
      <3> QED
        BY <1>1, <3>1, <3>2, OneRoleEach
    <2>2. \A e \in DOMAIN P : P[e] # NoBlock /\ P[e] \notin dead => e \in DOMAIN Q /\ Q[e] = P[e]
      BY <1>2, <1>3, <1>6, <1>10
    <2>3. DOMAIN Q \subseteq DOMAIN P
      BY <1>2, <1>3, <1>8
    <2> QED
      BY <1>1, <2>1, <2>2, <2>3, Dropped DEF dead
  <1>12. \A e \in DOMAIN Q : e \in DOMAIN P /\ e.ino # ino /\ Q[e] = P[e]
    BY <1>2, <1>3, <1>6, <1>8
  <1> QED
    BY <1>2, <1>11, <1>12 DEF P, Q, Without

-----------------------------------------------------------------------------
(* The summary a reload computes *)

FileOnly(sum) == \A a \in DOMAIN sum : sum[a].type # "map"

\* The inodes are those on the device.
Plain(d, map, N) == \A ino \in DOMAIN map : N[ino] = d[map[ino]]

\* What a summary says of the blocks of files.
FilesOf(sum, R) == R = [a \in {b \in DOMAIN sum : sum[b].type # "map"} |-> sum[a]]

\* Two summaries of the same image are the same.
LEMMA KeptOnce ==
    ASSUME NEW P, NEW f, NEW g, Kept(P, f), Kept(P, g), FileOnly(f)
    PROVE  f = [a \in DOMAIN f |-> f[a]] => FilesOf(g, f)
  <1>1. ASSUME NEW a \in DOMAIN f
        PROVE  a \in DOMAIN g /\ f[a] = g[a] /\ g[a].type # "map"
    <2>1. a # NoBlock /\ f[a] \in DOMAIN P /\ P[f[a]] = a
      BY <1>1, LogIsLog DEF Kept, FileOnly
    <2>2. f[a].type # "map"
      BY <1>1 DEF FileOnly
    <2> QED
      BY <2>1, <2>2 DEF Kept
  <1>2. ASSUME NEW a \in DOMAIN g, g[a].type # "map"
        PROVE  a \in DOMAIN f
    <2>1. a # NoBlock /\ g[a] \in DOMAIN P /\ P[g[a]] = a
      BY <1>2, LogIsLog DEF Kept
    <2> QED
      BY <2>1 DEF Kept
  <1>3. DOMAIN f = {a \in DOMAIN g : g[a].type # "map"}
    BY <1>1, <1>2
  <1> QED
    BY <1>1, <1>3 DEF FilesOf

\* rebuild_segment_summary finds every block of the image under its role.
LEMMA RebuiltKept ==
    ASSUME NEW d, NEW map, NEW N, NEW sum, Good(d, map, N, <<>>, sum), Plain(d, map, N)
    PROVE  /\ Kept(Places(d, map, N, <<>>), Rebuilt(d, map))
           /\ FileOnly(Rebuilt(d, map))
  <1> DEFINE P == Places(d, map, N, <<>>)
             addr(ino, idx) == GetBlockAddr(d, d[map[ino]], idx)
             own(ino) == {<<map[ino], Entry(ino, 0, "inode")>>}
             data(ino) == {<<addr(ino, idx), Entry(ino, idx, "data")>> :
                    idx \in {i \in 0 .. (NumBlocks(d[map[ino]]) - 1) : addr(ino, i) # NoBlock}}
             ind(ino) == IF d[map[ino]].ind = NoBlock THEN {}
                         ELSE {<<d[map[ino]].ind, Entry(ino, 0, "indirect")>>}
             all == UNION {own(ino) \cup data(ino) \cup ind(ino) : ino \in DOMAIN map}
             R == Rebuilt(d, map)
  <1>1. R = [a \in {b[1] : b \in all} |-> (CHOOSE b \in all : b[1] = a)[2]]
    BY DEF Rebuilt
  <1>2. /\ Formed(d, map, N) /\ PendsFine(<<>>) /\ Kept(P, sum) /\ DOMAIN map \subseteq Nat
        /\ Bounded(P, N, <<>>)
    BY DEF Good, Formed
  <1>3. /\ DOMAIN P = RolesOf(DOMAIN map)
        /\ \A ino \in DOMAIN map :
              /\ P[Entry(ino, 0, "inode")] = map[ino]
              /\ P[Entry(ino, 0, "indirect")] = d[map[ino]].ind
              /\ \A idx \in Idx : P[Entry(ino, idx, "data")] = addr(ino, idx)
    <2>1. \A ino \in DOMAIN map, idx \in Idx : Pointer(d, N, <<>>, ino, idx) = addr(ino, idx)
      BY DEF Pointer, Pends, Plain
    <2> QED
      BY <1>2, <2>1, PlacesAre DEF Plain
  <1>4. ASSUME NEW ino \in DOMAIN map
        PROVE  /\ Entry(ino, 0, "inode") \in DOMAIN P /\ Entry(ino, 0, "indirect") \in DOMAIN P
               /\ \A idx \in Idx : Entry(ino, idx, "data") \in DOMAIN P
    BY <1>2, <1>3, InRolesOf
  <1>5. ASSUME NEW ino \in DOMAIN map
        PROVE  /\ NumBlocks(d[map[ino]]) \in Nat /\ NumBlocks(d[map[ino]]) <= MaxBlocks
               /\ NumBlocks(d[map[ino]]) = Blocks(ino, N[ino].size)
    <2>1. IsNode(N[ino], ino) /\ N[ino] = d[map[ino]]
      BY <1>2 DEF Formed, Plain
    <2> QED
      BY <2>1, NumBlocksIs, BlocksRange DEF IsNode, NodeOf
  <1>6. ASSUME NEW ino \in DOMAIN map, NEW idx \in Idx, addr(ino, idx) # NoBlock
        PROVE  idx \in 0 .. (NumBlocks(d[map[ino]]) - 1)
    <2>1. Fits(N, <<>>, ino, idx)
      <3>1. P[Entry(ino, idx, "data")] # NoBlock /\ Entry(ino, idx, "data") \in DOMAIN P
        BY <1>3, <1>4, <1>6
      <3> HIDE DEF P
      <3> QED
        BY <1>2, <3>1, RolesAre DEF Bounded
    <2>2. idx < Blocks(ino, N[ino].size)
      BY <2>1 DEF Fits, Todo
    <2> QED
      BY <1>5, <2>2, Sizes
  <1> HIDE DEF P
  <1>7. ASSUME NEW e \in DOMAIN P, P[e] # NoBlock
        PROVE  <<P[e], e>> \in all
    <2>1. e.ino \in DOMAIN map /\ e.idx \in Idx
          /\ \/ e = Entry(e.ino, 0, "inode") \/ e = Entry(e.ino, 0, "indirect")
             \/ e = Entry(e.ino, e.idx, "data")
      BY <1>2, <1>3, InRolesOf
    <2>2. <<P[e], e>> \in own(e.ino) \cup data(e.ino) \cup ind(e.ino)
      <3>1. CASE e = Entry(e.ino, 0, "inode")
        BY <1>3, <2>1, <3>1
      <3>2. CASE e = Entry(e.ino, 0, "indirect")
        BY <1>3, <1>7, <2>1, <3>2
      <3>3. CASE e = Entry(e.ino, e.idx, "data")
        <4>1. P[e] = addr(e.ino, e.idx) /\ addr(e.ino, e.idx) # NoBlock
          BY <1>3, <1>7, <2>1, <3>3
        <4>2. e.idx \in 0 .. (NumBlocks(d[map[e.ino]]) - 1)
          BY <1>6, <2>1, <4>1
        <4> QED
          BY <3>3, <4>1, <4>2
      <3> QED
        BY <2>1, <3>1, <3>2, <3>3
    <2> QED
      BY <2>1, <2>2
  <1>8. ASSUME NEW b \in all
        PROVE  b[2] \in DOMAIN P /\ P[b[2]] = b[1] /\ b[1] # NoBlock /\ b[2].type # "map"
    <2>1. PICK ino \in DOMAIN map : b \in own(ino) \cup data(ino) \cup ind(ino)
      OBVIOUS
    <2>2. CASE b \in own(ino)
      <3>1. map[ino] # NoBlock
        BY <1>2, LogIsLog DEF Formed
      <3> QED
        BY <1>3, <1>4, <2>2, <3>1, RolesAre
    <2>3. CASE b \in ind(ino)
      BY <1>3, <1>4, <2>3, RolesAre
    <2>4. CASE b \in data(ino)
      <3>1. PICK idx \in 0 .. (NumBlocks(d[map[ino]]) - 1) :
               addr(ino, idx) # NoBlock /\ b = <<addr(ino, idx), Entry(ino, idx, "data")>>
        BY <2>4
      <3>2. idx \in Idx
        BY <1>5, Sizes DEF Idx
      <3> QED
        BY <1>3, <1>4, <3>1, <3>2, RolesAre
    <2> QED
      BY <2>1, <2>2, <2>3, <2>4
  <1>9. \A b, c \in all : b[1] = c[1] => b[2] = c[2]
    BY <1>2, <1>8, OneRoleEach
  <1> HIDE DEF all
  <1>10. ASSUME NEW a \in DOMAIN R
         PROVE  R[a] \in DOMAIN P /\ P[R[a]] = a /\ a # NoBlock /\ R[a].type # "map"
    <2>1. \E b \in all : b[1] = a
      BY <1>1
    <2>2. (CHOOSE b \in all : b[1] = a) \in all /\ (CHOOSE b \in all : b[1] = a)[1] = a
      BY <2>1
    <2>3. R[a] = (CHOOSE b \in all : b[1] = a)[2]
      BY <1>1
    <2> QED
      BY <1>8, <2>2, <2>3
  <1>11. ASSUME NEW e \in DOMAIN P, P[e] # NoBlock
         PROVE  P[e] \in DOMAIN R /\ R[P[e]] = e
    <2>1. P[e] \in DOMAIN R
      <3>1. DOMAIN R = {b[1] : b \in all}
        BY <1>1
      <3>2. <<P[e], e>> \in all /\ <<P[e], e>>[1] = P[e]
        BY <1>7, <1>11
      <3> QED
        BY <3>1, <3>2
    <2>2. R[P[e]] \in DOMAIN P /\ P[R[P[e]]] = P[e]
      BY <1>10, <2>1
    <2> QED
      BY <1>2, <1>11, <2>1, <2>2, OneRoleEach
  <1>12. \A a \in DOMAIN R : a \in Log
    <2>1. \A e \in RolesOf(DOMAIN map) : P[e] \in Addr
      BY <1>2, PlacesAre DEF P
    <2> QED
      BY <1>3, <1>10, <2>1 DEF Addr
  <1> HIDE DEF R
  <1>13. Kept(P, R) /\ FileOnly(R)
    BY <1>10, <1>11, <1>12 DEF Kept, FileOnly
  <1> QED
    BY <1>13 DEF P, R

\* The image with the summary a reload computes.
LEMMA GoodRebuilt ==
    ASSUME NEW d, NEW map, NEW N, NEW sum, Good(d, map, N, <<>>, sum), Plain(d, map, N)
    PROVE  /\ Good(d, map, N, <<>>, Rebuilt(d, map))
           /\ FileOnly(Rebuilt(d, map))
           /\ FilesOf(sum, Rebuilt(d, map))
  <1>1. Kept(Places(d, map, N, <<>>), Rebuilt(d, map)) /\ FileOnly(Rebuilt(d, map))
    BY RebuiltKept
  <1>2. Good(d, map, N, <<>>, Rebuilt(d, map))
    BY <1>1 DEF Good
  <1> DEFINE R == Rebuilt(d, map)
  <1>3. Kept(Places(d, map, N, <<>>), sum)
    BY DEF Good
  <1>4. R = [a \in DOMAIN R |-> R[a]]
    BY DEF Rebuilt
  <1>5. Kept(Places(d, map, N, <<>>), R) /\ FileOnly(R)
    BY <1>1
  <1> HIDE DEF R
  <1>6. FilesOf(sum, R)
    BY <1>3, <1>4, <1>5, KeptOnce
  <1> QED
    BY <1>1, <1>2, <1>6 DEF R

\* It does not change when a block outside it does.
LEMMA RebuiltStays ==
    ASSUME NEW d, NEW map, NEW N, Good(d, map, N, <<>>, Rebuilt(d, map)), Plain(d, map, N),
           NEW t \in Log, t \notin DOMAIN Rebuilt(d, map), NEW e, Apart(d, t, e)
    PROVE  /\ Rebuilt(e, map) = Rebuilt(d, map)
           /\ Good(e, map, N, <<>>, Rebuilt(e, map)) /\ Plain(e, map, N)
           /\ DirOf(e, N) = DirOf(d, N)
  <1>1. /\ Good(e, map, N, <<>>, Rebuilt(d, map)) /\ Spared(d, map, N, e)
        /\ DirOf(e, N) = DirOf(d, N)
    BY Elsewhere
  <1>2. Plain(e, map, N)
    BY <1>1 DEF Spared, Plain
  <1>3. FileOnly(Rebuilt(d, map))
    BY RebuiltKept
  <1>4. FilesOf(Rebuilt(d, map), Rebuilt(e, map))
    BY <1>1, <1>2, GoodRebuilt
  <1>5. Rebuilt(d, map) = [a \in DOMAIN Rebuilt(d, map) |-> Rebuilt(d, map)[a]]
    BY DEF Rebuilt
  <1>6. {b \in DOMAIN Rebuilt(d, map) : Rebuilt(d, map)[b].type # "map"} = DOMAIN Rebuilt(d, map)
    BY <1>3 DEF FileOnly
  <1>7. Rebuilt(e, map) = Rebuilt(d, map)
    BY <1>4, <1>5, <1>6 DEF FilesOf
  <1> QED
    BY <1>1, <1>2, <1>7

-----------------------------------------------------------------------------
(* What each step does to an image *)

\* No block but those of `gone' leaves its file's size.
FitsPass(N, todo, N2, todo2, inos, gone) ==
    \A i \in inos, k \in Idx :
        <<i, k>> \notin gone /\ Fits(N, todo, i, k) => Fits(N2, todo2, i, k)

\* The data steps, inodes and inode map aside, what is left is nothing pending.
Settled(todo) == todo # <<>> => todo[1].do # "indirect"

\* Steps come and go.
LEMMA GoodTodo ==
    ASSUME NEW d, NEW map, NEW N, NEW todo, NEW sum, Good(d, map, N, todo, sum),
           Settled(todo), NEW todo2, Settled(todo2),
           NEW gone, FitsPass(N, todo, N, todo2, DOMAIN map, gone),
           \A i \in DOMAIN map, k \in Idx :
              <<i, k>> \in gone => GetBlockAddr(d, N[i], k) = NoBlock
    PROVE  Good(d, map, N, todo2, sum)
  <1> DEFINE P == Places(d, map, N, todo)
  <1>1. Places(d, map, N, todo2) = P /\ PendsFine(todo2)
    BY NothingPends DEF Settled
  <1>2. Formed(d, map, N) /\ PendsFine(todo) /\ DOMAIN map \subseteq Nat /\ Bounded(P, N, todo)
    BY DEF Good, Formed
  <1>3. /\ DOMAIN P = RolesOf(DOMAIN map)
        /\ \A i \in DOMAIN map, k \in Idx : P[Entry(i, k, "data")] = GetBlockAddr(d, N[i], k)
    <2>1. \A i \in DOMAIN map, k \in Idx : Pointer(d, N, todo, i, k) = GetBlockAddr(d, N[i], k)
      BY DEF Pointer, Pends, Settled
    <2> QED
      BY <1>2, <2>1, PlacesAre
  <1> HIDE DEF P
  <1>4. Bounded(P, N, todo2)
    <2> SUFFICES ASSUME NEW e \in DOMAIN P, e.type = "data", P[e] # NoBlock
                 PROVE  Fits(N, todo2, e.ino, e.idx)
      BY DEF Bounded
    <2>1. e.ino \in DOMAIN map /\ e.idx \in Idx /\ e = Entry(e.ino, e.idx, "data")
      BY <1>2, <1>3, InRolesOf, RolesAre
    <2>2. Fits(N, todo, e.ino, e.idx)
      BY <1>2 DEF Bounded
    <2>3. <<e.ino, e.idx>> \notin gone
      BY <1>3, <2>1
    <2> QED
      BY <2>1, <2>2, <2>3 DEF FitsPass
  <1> QED
    BY <1>1, <1>4 DEF Good, P

\* A data block is written for a pointer.
LEMMA GoodData ==
    ASSUME NEW d, NEW map, NEW N, NEW todo, NEW sum, Good(d, map, N, todo, sum), Settled(todo),
           NEW ino \in DOMAIN map, NEW idx \in Idx, NEW t \in Log, t \notin DOMAIN sum,
           NEW d2, Apart(d, t, d2),
           NEW N2, NEW todo2, Pointed(N, ino, idx, t, N2, todo2),
           NEW sum2, Filed(sum, {GetBlockAddr(d, N[ino], idx)}, t, Entry(ino, idx, "data"), sum2),
           FitsPass(N, todo, N2, todo2, DOMAIN map, {}), Fits(N2, todo2, ino, idx),
           ino = Root => idx = 0 /\ EntriesFine(d2[t].entries, DOMAIN map)
    PROVE  Good(d2, map, N2, todo2, sum2)
  <1>1. Good(d2, map, N, todo, sum) /\ DirOf(d2, N) = DirOf(d, N)
        /\ Places(d2, map, N, todo) = Places(d, map, N, todo)
        /\ GetBlockAddr(d2, N[ino], idx) = GetBlockAddr(d, N[ino], idx)
    BY Elsewhere DEF Spared
  <1> DEFINE old == GetBlockAddr(d2, N[ino], idx)
             P == Places(d2, map, N, todo)
             Q == Places(d2, map, N2, todo2)
  <1>2. Filed(sum, {old}, t, Entry(ino, idx, "data"), sum2)
    BY <1>1
  <1>3. todo # <<>> => todo[1].do # "indirect"
    BY DEF Settled
  <1>4. /\ Formed(d2, map, N2) /\ PendsFine(todo2) /\ Kept(Q, sum2)
        /\ OthersSame(N, N2, ino)
        /\ SamePlaces(P, Q, Entry(ino, idx, "data"))
    <2> HIDE DEF old
    <2>1. old = GetBlockAddr(d2, N[ino], idx)
      BY DEF old
    <2> QED
      BY <1>1, <1>2, <1>3, <2>1, DataPlaced
  <1>5. /\ DOMAIN P = RolesOf(DOMAIN map) /\ DOMAIN map \subseteq Nat /\ Root \in DOMAIN map
        /\ Bounded(P, N, todo) /\ DOMAIN N = DOMAIN map
    BY <1>1 DEF Good, Formed, Places
  <1> HIDE DEF P, Q, old
  <1>6. Bounded(Q, N2, todo2)
    <2> SUFFICES ASSUME NEW e \in DOMAIN Q, e.type = "data", Q[e] # NoBlock
                 PROVE  Fits(N2, todo2, e.ino, e.idx)
      BY DEF Bounded
    <2>1. e.ino \in DOMAIN map /\ e.idx \in Idx
      BY <1>4, <1>5, InRolesOf DEF SamePlaces
    <2>2. CASE e = Entry(ino, idx, "data")
      BY <2>2, RolesAre
    <2>3. CASE e # Entry(ino, idx, "data")
      <3>1. Fits(N, todo, e.ino, e.idx)
        BY <1>4, <1>5, <2>3 DEF Bounded, SamePlaces
      <3> QED
        BY <2>1, <3>1 DEF FitsPass
    <2> QED
      BY <2>2, <2>3
  <1>7. Named(d2, map, N2)
    <2>1. CASE ino = Root
      <3>1. N2[Root].ptr[0] = t
        <4>1. N[Root].ptr \in [0 .. (DirectBlocks - 1) -> Addr] /\ 0 \in 0 .. (DirectBlocks - 1)
              /\ 0 < DirectBlocks /\ idx = 0 /\ N[Root] \in NodeOf(Root)
          BY <1>1, <2>1, Sizes DEF Good, Formed, IsNode, NodeOf
        <4>2. N2[Root] = [N[Root] EXCEPT !.ptr[0] = t]
          BY <2>1, <4>1 DEF Pointed
        <4>3. N2[Root].ptr = [N[Root].ptr EXCEPT ![0] = t]
          BY <4>1, <4>2 DEF NodeOf
        <4> QED
          BY <4>1, <4>3
      <3> QED
        BY <2>1, <3>1, LogIsLog DEF Named, DirOf
    <2>2. CASE ino # Root
      <3>1. N2[Root] = N[Root]
        BY <1>4, <1>5, <2>2 DEF OthersSame
      <3> QED
        BY <1>1, <3>1 DEF Good, Named, DirOf
    <2> QED
      BY <2>1, <2>2
  <1> QED
    BY <1>4, <1>6, <1>7 DEF Good, Q

\* A data block is dropped.
LEMMA GoodCut ==
    ASSUME NEW d, NEW map, NEW N, NEW todo, NEW sum, Good(d, map, N, todo, sum), Settled(todo),
           NEW ino \in DOMAIN map, NEW idx \in Idx, ino # Root,
           NEW N2, NEW todo2, Pointed(N, ino, idx, NoBlock, N2, todo2),
           NEW old, old = GetBlockAddr(d, N[ino], idx), old # NoBlock,
           NEW sum2, Struck(sum, {old}, sum2),
           FitsPass(N, todo, N2, todo2, DOMAIN map, {<<ino, idx>>})
    PROVE  Good(d, map, N2, todo2, sum2)
  <1> DEFINE P == Places(d, map, N, todo)
             Q == Places(d, map, N2, todo2)
  <1>1. todo # <<>> => todo[1].do # "indirect"
    BY DEF Settled
  <1>2. /\ Formed(d, map, N2) /\ PendsFine(todo2) /\ Kept(Q, sum2)
        /\ OthersSame(N, N2, ino)
        /\ Q[Entry(ino, idx, "data")] = NoBlock
        /\ SamePlaces(P, Q, Entry(ino, idx, "data"))
    BY <1>1, DataCut
  <1>3. /\ DOMAIN P = RolesOf(DOMAIN map) /\ DOMAIN map \subseteq Nat /\ Root \in DOMAIN map
        /\ Bounded(P, N, todo) /\ DOMAIN N = DOMAIN map
    BY DEF Good, Formed, Places
  <1> HIDE DEF P, Q
  <1>4. Bounded(Q, N2, todo2)
    <2> SUFFICES ASSUME NEW e \in DOMAIN Q, e.type = "data", Q[e] # NoBlock
                 PROVE  Fits(N2, todo2, e.ino, e.idx)
      BY DEF Bounded
    <2>1. e.ino \in DOMAIN map /\ e.idx \in Idx /\ e = Entry(e.ino, e.idx, "data")
      BY <1>2, <1>3, InRolesOf, RolesAre DEF SamePlaces
    <2>2. e # Entry(ino, idx, "data")
      BY <1>2
    <2>3. Fits(N, todo, e.ino, e.idx)
      BY <1>2, <1>3, <2>2 DEF Bounded, SamePlaces
    <2>4. <<e.ino, e.idx>> # <<ino, idx>>
      BY <2>1, <2>2
    <2> QED
      BY <2>1, <2>3, <2>4 DEF FitsPass
  <1>5. Named(d, map, N2)
    <2>1. N2[Root] = N[Root]
      BY <1>2, <1>3 DEF OthersSame
    <2> QED
      BY <2>1 DEF Good, Named, DirOf
  <1> QED
    BY <1>2, <1>4, <1>5 DEF Good, Q

\* An indirect block is written.
LEMMA GoodIndirect ==
    ASSUME NEW d, NEW map, NEW N, NEW todo, NEW sum, Good(d, map, N, todo, sum),
           NEW ino \in DOMAIN map, NEW t \in Log, t \notin DOMAIN sum,
           NEW d2, Apart(d, t, d2), IsIndirect(d2[t]),
           OnlyPends(todo, ino), Redirects(d2[t], d, N, todo, ino),
           NEW N2, Indirected(N, ino, t, N2),
           NEW todo2, Settled(todo2),
           NEW sum2, Filed(sum, {N[ino].ind}, t, Entry(ino, 0, "indirect"), sum2),
           FitsPass(N, todo, N2, todo2, DOMAIN map, {})
    PROVE  Good(d2, map, N2, todo2, sum2)
  <1>1. Good(d2, map, N, todo, sum) /\ DirOf(d2, N) = DirOf(d, N) /\ Spared(d, map, N, d2)
    BY Elsewhere
  <1>2. Redirects(d2[t], d2, N, todo, ino)
    BY <1>1 DEF Spared, Pointer, Redirects
  <1> DEFINE P == Places(d2, map, N, todo)
             Q == Places(d2, map, N2, todo2)
  <1>3. todo2 # <<>> => todo2[1].do # "indirect"
    BY DEF Settled
  <1>4. /\ Formed(d2, map, N2) /\ PendsFine(todo2) /\ Kept(Q, sum2)
        /\ SamePtrs(N, N2)
        /\ SamePlaces(P, Q, Entry(ino, 0, "indirect"))
    BY <1>1, <1>2, <1>3, IndirectPlaced
  <1>5. /\ DOMAIN P = RolesOf(DOMAIN map) /\ DOMAIN map \subseteq Nat /\ Root \in DOMAIN map
        /\ Bounded(P, N, todo) /\ DOMAIN N = DOMAIN map
    BY <1>1 DEF Good, Formed, Places
  <1> HIDE DEF P, Q
  <1>6. Bounded(Q, N2, todo2)
    <2> SUFFICES ASSUME NEW e \in DOMAIN Q, e.type = "data", Q[e] # NoBlock
                 PROVE  Fits(N2, todo2, e.ino, e.idx)
      BY DEF Bounded
    <2>1. e.ino \in DOMAIN map /\ e.idx \in Idx
      BY <1>4, <1>5, InRolesOf DEF SamePlaces
    <2>2. e # Entry(ino, 0, "indirect")
      BY RolesAre
    <2>3. Fits(N, todo, e.ino, e.idx)
      BY <1>4, <1>5, <2>2 DEF Bounded, SamePlaces
    <2> QED
      BY <2>1, <2>3 DEF FitsPass
  <1>7. Named(d2, map, N2)
    <2>1. N2[Root].ptr = N[Root].ptr
      BY <1>4, <1>5 DEF SamePtrs
    <2> QED
      BY <1>1, <2>1 DEF Good, Named, DirOf
  <1> QED
    BY <1>4, <1>6, <1>7 DEF Good, Q

\* An inode is written.
LEMMA GoodInode ==
    ASSUME NEW d, NEW map, NEW N, NEW todo, NEW sum, Good(d, map, N, todo, sum), Settled(todo),
           NEW ino \in Nat \ {NoIno}, NEW t \in Log, t \notin DOMAIN sum,
           NEW d2, Apart(d, t, d2),
           NEW inode, IsNode(inode, ino),
           Carries(inode, N, ino),
           NEW map2, Filed(map, {}, ino, t, map2),
           NEW N2, Filed(N, {}, ino, inode, N2),
           NEW todo2, Settled(todo2),
           NEW sum2, Filed(sum, IF ino \in DOMAIN map THEN {map[ino]} ELSE {}, t,
                           Entry(ino, 0, "inode"), sum2),
           FitsPass(N, todo, N2, todo2, DOMAIN map, {})
    PROVE  Good(d2, map2, N2, todo2, sum2)
  <1>1. Good(d2, map, N, todo, sum) /\ DirOf(d2, N) = DirOf(d, N)
    BY Elsewhere
  <1> DEFINE P == Places(d2, map, N, todo)
             Q == Places(d2, map2, N2, todo2)
             old == IF ino \in DOMAIN map THEN {map[ino]} ELSE {}
  <1>2. /\ todo # <<>> => todo[1].do # "indirect"
        /\ todo2 # <<>> => todo2[1].do # "indirect"
    BY DEF Settled
  <1>3. /\ Formed(d2, map2, N2) /\ PendsFine(todo2) /\ Kept(Q, sum2)
        /\ SamePtrs(N, N2) /\ SameData(P, Q)
    <2>1. old = IF ino \in DOMAIN map THEN {map[ino]} ELSE {}
      OBVIOUS
    <2>2. Filed(sum, old, t, Entry(ino, 0, "inode"), sum2)
      OBVIOUS
    <2> HIDE DEF old
    <2> QED
      BY <1>1, <1>2, <2>1, <2>2, InodePlaced
  <1>4. /\ DOMAIN P = RolesOf(DOMAIN map) /\ DOMAIN map \subseteq Nat /\ Root \in DOMAIN map
        /\ Bounded(P, N, todo) /\ DOMAIN N = DOMAIN map
    BY <1>1 DEF Good, Formed, Places
  <1> HIDE DEF P, Q
  <1>5. Bounded(Q, N2, todo2)
    <2> SUFFICES ASSUME NEW e \in DOMAIN Q, e.type = "data", Q[e] # NoBlock
                 PROVE  Fits(N2, todo2, e.ino, e.idx)
      BY DEF Bounded
    <2>1. e \in DOMAIN P /\ P[e] # NoBlock
      BY <1>3 DEF SameData
    <2>2. e.ino \in DOMAIN map /\ e.idx \in Idx
      BY <1>4, <2>1, InRolesOf
    <2>3. Fits(N, todo, e.ino, e.idx)
      BY <1>4, <2>1 DEF Bounded
    <2> QED
      BY <2>2, <2>3 DEF FitsPass
  <1>6. Named(d2, map2, N2)
    <2>1. N2[Root].ptr = N[Root].ptr
      BY <1>3, <1>4 DEF SamePtrs
    <2>2. DOMAIN map \subseteq DOMAIN map2
      BY DEF Filed
    <2> QED
      BY <1>1, <2>1, <2>2 DEF Good, Named, DirOf, EntriesFine
  <1> QED
    BY <1>3, <1>5, <1>6 DEF Good, Q

\* free_inode_blocks.
LEMMA GoodFree ==
    ASSUME NEW d, NEW map, NEW N, NEW todo, NEW sum, Good(d, map, N, todo, sum), Settled(todo),
           NEW ino \in DOMAIN map, ino # Root,
           \A idx \in Idx : Fits(N, todo, ino, idx) => idx < NumBlocks(N[ino]),
           \A n \in DOMAIN DirOf(d, N) : DirOf(d, N)[n] # ino,
           NEW map2, Struck(map, {ino}, map2),
           NEW N2, Struck(N, {ino}, N2),
           NEW todo2, Settled(todo2),
           NEW sum2, Struck(sum, BlocksOf(d, N[ino], map[ino]), sum2),
           FitsPass(N, todo, N2, todo2, DOMAIN map2, {})
    PROVE  Good(d, map2, N2, todo2, sum2)
  <1> DEFINE P == Places(d, map, N, todo)
             Q == Places(d, map2, N2, todo2)
  <1>1. /\ todo # <<>> => todo[1].do # "indirect"
        /\ todo2 # <<>> => todo2[1].do # "indirect"
    BY DEF Settled
  <1>2. /\ DOMAIN P = RolesOf(DOMAIN map) /\ DOMAIN map \subseteq Nat /\ Root \in DOMAIN map
        /\ Bounded(P, N, todo) /\ Formed(d, map, N) /\ PendsFine(todo)
    BY DEF Good, Formed, Places
  <1>3. Short(d, N[ino])
    <2> SUFFICES ASSUME NEW idx \in Idx, GetBlockAddr(d, N[ino], idx) # NoBlock
                 PROVE  Fits(N, todo, ino, idx)
      BY DEF Short
    <2>1. P[Entry(ino, idx, "data")] = Pointer(d, N, todo, ino, idx)
      BY <1>2, PlacesAre
    <2>2. Pointer(d, N, todo, ino, idx) = GetBlockAddr(d, N[ino], idx)
      BY <1>1 DEF Pointer, Pends
    <2>3. Entry(ino, idx, "data") \in DOMAIN P
      BY <1>2, InRolesOf
    <2> HIDE DEF P
    <2> QED
      BY <1>2, <2>1, <2>2, <2>3, RolesAre DEF Bounded
  <1>4. /\ Formed(d, map2, N2) /\ PendsFine(todo2) /\ Kept(Q, sum2)
        /\ Without(P, Q, ino)
    BY <1>1, <1>3, InodeDropped
  <1> HIDE DEF P, Q
  <1>5. Bounded(Q, N2, todo2)
    <2> SUFFICES ASSUME NEW e \in DOMAIN Q, e.type = "data", Q[e] # NoBlock
                 PROVE  Fits(N2, todo2, e.ino, e.idx)
      BY DEF Bounded
    <2>1. e \in DOMAIN P /\ P[e] # NoBlock /\ e.ino # ino
      BY <1>4 DEF Without
    <2>2. e.ino \in DOMAIN map2 /\ e.idx \in Idx
      BY <1>2, <2>1, InRolesOf DEF Struck
    <2>3. Fits(N, todo, e.ino, e.idx)
      BY <1>2, <2>1 DEF Bounded
    <2> QED
      BY <2>2, <2>3 DEF FitsPass
  <1>6. Named(d, map2, N2)
    <2>1. N2[Root] = N[Root] /\ DOMAIN map2 = DOMAIN map \ {ino}
      BY <1>2 DEF Struck, Formed
    <2> QED
      BY <2>1 DEF Good, Named, DirOf, EntriesFine
  <1> QED
    BY <1>4, <1>5, <1>6 DEF Good, Q

\* A block of an inode map enters the summary, and leaves it.
LEMMA GoodMap ==
    ASSUME NEW d, NEW map, NEW N, NEW todo, NEW sum, Good(d, map, N, todo, sum),
           NEW t \in Log, t \notin DOMAIN sum, NEW d2, Apart(d, t, d2),
           NEW r, r.type = "map", NEW sum2, Filed(sum, {}, t, r, sum2)
    PROVE  Good(d2, map, N, todo, sum2)
  <1>1. Good(d2, map, N, todo, sum)
    BY Elsewhere
  <1>2. Kept(Places(d2, map, N, todo), sum)
    BY <1>1 DEF Good
  <1>3. Kept(Places(d2, map, N, todo), sum2)
    <2> DEFINE P == Places(d2, map, N, todo)
    <2>1. Kept(P, sum)
      BY <1>2
    <2> HIDE DEF P
    <2>2. Kept(P, sum2)
      BY <2>1 DEF Kept, Filed
    <2> QED
      BY <2>2 DEF P
  <1> QED
    BY <1>1, <1>3 DEF Good

\* Forgetting a block of an old inode map leaves an image good.
LEMMA GoodSkip ==
    ASSUME NEW d, NEW map, NEW N, NEW todo, NEW sum, Good(d, map, N, todo, sum),
           NEW a \in Log, a \in DOMAIN sum => sum[a].type = "map",
           NEW sum2, Struck(sum, {a}, sum2)
    PROVE  Good(d, map, N, todo, sum2)
  <1>1. Kept(Places(d, map, N, todo), sum)
    BY DEF Good
  <1>2. \A e \in RolesOf(DOMAIN map) : e.type # "map"
    BY RolesAre DEF RolesOf
  <1>3. DOMAIN Places(d, map, N, todo) = RolesOf(DOMAIN map)
    BY DEF Places
  <1>4. Kept(Places(d, map, N, todo), sum2)
    <2> DEFINE P == Places(d, map, N, todo)
    <2>1. Kept(P, sum) /\ \A e \in DOMAIN P : e.type # "map"
      BY <1>1, <1>2, <1>3
    <2> HIDE DEF P
    <2>2. Kept(P, sum2)
      BY <2>1 DEF Kept, Struck
    <2> QED
      BY <2>2 DEF P
  <1> QED
    BY <1>4 DEF Good

-----------------------------------------------------------------------------
(* The steps of a call, put together *)

\* One list of steps after another.
LEMMA ConcatTodo ==
    ASSUME NEW s, s \in Seq(Todo(s)), NEW t, t \in Seq(Todo(t))
    PROVE  /\ s \o t \in Seq(Todo(s \o t))
           /\ Len(s \o t) = Len(s) + Len(t)
           /\ Todo(s \o t) = Todo(s) \cup Todo(t)
           /\ s # <<>> => s \o t # <<>> /\ (s \o t)[1] = s[1]
           /\ Ordered(s) /\ Ordered(t) /\ (\A a \in Todo(s), b \in Todo(t) : Before(a, b))
                => Ordered(s \o t)
  <1> DEFINE u == s \o t
  <1>1. /\ Len(s) \in Nat /\ Len(t) \in Nat /\ Len(u) = Len(s) + Len(t)
        /\ \A i \in 1 .. Len(s) : u[i] = s[i]
        /\ \A i \in 1 .. Len(t) : u[Len(s) + i] = t[i]
    OBVIOUS
  <1>2. u \in Seq(Todo(s) \cup Todo(t))
    <2>1. s \in Seq(Todo(s) \cup Todo(t)) /\ t \in Seq(Todo(s) \cup Todo(t))
      OBVIOUS
    <2> QED
      BY <2>1
  <1>3. s # <<>> => u # <<>> /\ u[1] = s[1]
    <2>1. s # <<>> => Len(s) >= 1
      OBVIOUS
    <2>2. s # <<>> => Len(u) >= 1 /\ u[1] = s[1]
      BY <1>1, <2>1
    <2> QED
      BY <2>2
  <1> HIDE DEF u
  <1>4. \A j \in 1 .. Len(u) : \/ j \in 1 .. Len(s) /\ u[j] = s[j]
                               \/ j - Len(s) \in 1 .. Len(t) /\ u[j] = t[j - Len(s)]
    <2> SUFFICES ASSUME NEW j \in 1 .. Len(u), j \notin 1 .. Len(s)
                 PROVE  j - Len(s) \in 1 .. Len(t) /\ u[j] = t[j - Len(s)]
      BY <1>1
    <2>1. j - Len(s) \in 1 .. Len(t) /\ Len(s) + (j - Len(s)) = j
      BY <1>1
    <2> QED
      BY <1>1, <2>1
  <1>5. Todo(u) = Todo(s) \cup Todo(t)
    <2>1. \A j \in 1 .. Len(u) : u[j] \in Todo(s) \cup Todo(t)
      BY <1>4, InTodo
    <2>2. \A j \in 1 .. Len(s) : s[j] \in Todo(u)
      <3>1. \A j \in 1 .. Len(s) : j \in 1 .. Len(u)
        BY <1>1
      <3> QED
        BY <1>1, <3>1, InTodo
    <2>3. \A j \in 1 .. Len(t) : t[j] \in Todo(u)
      <3>1. \A j \in 1 .. Len(t) : Len(s) + j \in 1 .. Len(u)
        BY <1>1
      <3> QED
        BY <1>1, <3>1, InTodo
    <2>4. \A b \in Todo(u) : b \in Todo(s) \cup Todo(t)
      BY <2>1, InTodo
    <2>5. \A b \in Todo(s) : b \in Todo(u)
      BY <2>2, InTodo
    <2>6. \A b \in Todo(t) : b \in Todo(u)
      BY <2>3, InTodo
    <2> QED
      BY <2>4, <2>5, <2>6, Zenon
  <1>6. u \in Seq(Todo(u))
    BY <1>2, <1>5
  <1>7. ASSUME Ordered(s), Ordered(t), \A a \in Todo(s), b \in Todo(t) : Before(a, b)
        PROVE  Ordered(u)
    <2> SUFFICES ASSUME NEW i \in 1 .. Len(u), NEW j \in 1 .. Len(u), i < j
                 PROVE  Before(u[i], u[j])
      BY DEF Ordered
    <2>1. CASE j \in 1 .. Len(s)
      <3>1. i \in 1 .. Len(s)
        BY <1>1, <2>1
      <3> QED
        BY <1>1, <1>7, <2>1, <3>1 DEF Ordered
    <2>2. CASE i \in 1 .. Len(s) /\ j - Len(s) \in 1 .. Len(t) /\ u[j] = t[j - Len(s)]
      <3>1. u[i] \in Todo(s) /\ u[j] \in Todo(t)
        BY <1>1, <2>2, InTodo
      <3> QED
        BY <1>7, <3>1
    <2>3. CASE /\ i - Len(s) \in 1 .. Len(t) /\ u[i] = t[i - Len(s)]
               /\ j - Len(s) \in 1 .. Len(t) /\ u[j] = t[j - Len(s)]
      <3>1. i - Len(s) < j - Len(s)
        BY <1>1
      <3> QED
        BY <1>7, <2>3, <3>1 DEF Ordered
    <2> QED
      BY <1>4, <2>1, <2>2, <2>3
  <1> QED
    BY <1>1, <1>3, <1>5, <1>6, <1>7 DEF u

\* Short lists of steps.
LEMMA NoSteps == <<>> \in Seq(Todo(<<>>)) /\ Todo(<<>>) = {} /\ Ordered(<<>>) /\ Len(<<>>) = 0
  BY DEF Todo, Ordered

\* A list of one step.
LEMMA OneStep ==
    \A a : /\ <<a>> \in Seq(Todo(<<a>>)) /\ Todo(<<a>>) = {a} /\ Len(<<a>>) = 1
           /\ <<a>> # <<>> /\ <<a>>[1] = a /\ Ordered(<<a>>)
  <1> SUFFICES ASSUME NEW a
               PROVE  /\ <<a>> \in Seq(Todo(<<a>>)) /\ Todo(<<a>>) = {a} /\ Len(<<a>>) = 1
                      /\ <<a>> # <<>> /\ <<a>>[1] = a /\ Ordered(<<a>>)
    OBVIOUS
  <1>1. Len(<<a>>) = 1 /\ <<a>>[1] = a /\ <<a>> # <<>>
    OBVIOUS
  <1>2. \A i \in 1 .. Len(<<a>>) : i = 1
    BY <1>1
  <1>3. Todo(<<a>>) = {a}
    BY <1>1, <1>2 DEF Todo
  <1>4. Ordered(<<a>>)
    BY <1>1, <1>2 DEF Ordered
  <1>5. <<a>> \in Seq(Todo(<<a>>))
    BY <1>3
  <1> QED
    BY <1>1, <1>3, <1>4, <1>5

\* A list of two steps.
LEMMA TwoSteps ==
    ASSUME NEW a, NEW b
    PROVE  /\ <<a, b>> \in Seq(Todo(<<a, b>>)) /\ Todo(<<a, b>>) = {a, b} /\ Len(<<a, b>>) = 2
           /\ <<a, b>> # <<>> /\ <<a, b>>[1] = a
           /\ Before(a, b) => Ordered(<<a, b>>)
  <1>1. Len(<<a, b>>) = 2 /\ <<a, b>>[1] = a /\ <<a, b>>[2] = b /\ <<a, b>> # <<>>
    OBVIOUS
  <1>2. \A i \in 1 .. Len(<<a, b>>) : i = 1 \/ i = 2
    BY <1>1
  <1>3. 1 \in 1 .. Len(<<a, b>>) /\ 2 \in 1 .. Len(<<a, b>>)
    BY <1>1
  <1>4. Todo(<<a, b>>) = {a, b}
    BY <1>1, <1>2, <1>3 DEF Todo
  <1>5. Before(a, b) => Ordered(<<a, b>>)
    BY <1>1, <1>2 DEF Ordered
  <1>6. <<a, b>> \in Seq(Todo(<<a, b>>))
    BY <1>4
  <1> QED
    BY <1>1, <1>4, <1>5, <1>6

\* A list of three steps.
LEMMA ThreeSteps ==
    ASSUME NEW a, NEW b, NEW c
    PROVE  /\ <<a, b, c>> \in Seq(Todo(<<a, b, c>>)) /\ Todo(<<a, b, c>>) = {a, b, c}
           /\ Len(<<a, b, c>>) = 3 /\ <<a, b, c>> # <<>> /\ <<a, b, c>>[1] = a
           /\ Before(a, b) /\ Before(a, c) /\ Before(b, c) => Ordered(<<a, b, c>>)
  <1>1. <<a, b, c>> = <<a>> \o <<b, c>>
    OBVIOUS
  <1>2. /\ <<a>> \in Seq(Todo(<<a>>)) /\ Todo(<<a>>) = {a} /\ Len(<<a>>) = 1 /\ <<a>> # <<>>
        /\ <<a>>[1] = a /\ Ordered(<<a>>)
    BY OneStep
  <1>3. /\ <<b, c>> \in Seq(Todo(<<b, c>>)) /\ Todo(<<b, c>>) = {b, c} /\ Len(<<b, c>>) = 2
        /\ Before(b, c) => Ordered(<<b, c>>)
    BY TwoSteps
  <1> DEFINE s == <<a>>
             t == <<b, c>>
  <1> HIDE DEF s, t
  <1>4. s \in Seq(Todo(s)) /\ t \in Seq(Todo(t))
    BY <1>2, <1>3 DEF s, t
  <1>5. /\ s \o t \in Seq(Todo(s \o t)) /\ Len(s \o t) = Len(s) + Len(t)
        /\ Todo(s \o t) = Todo(s) \cup Todo(t)
        /\ s # <<>> => s \o t # <<>> /\ (s \o t)[1] = s[1]
        /\ Ordered(s) /\ Ordered(t) /\ (\A x \in Todo(s), y \in Todo(t) : Before(x, y))
                => Ordered(s \o t)
    BY <1>4, ConcatTodo
  <1> QED
    BY <1>1, <1>2, <1>3, <1>5 DEF s, t

\* A list made index by index.
Listed(s, n) == s \in Seq({s[i] : i \in 1 .. n}) /\ Len(s) = n

\* A list of n steps given place by place.
LEMMA ListedSteps ==
    ASSUME NEW n \in Nat, NEW s, Listed(s, n)
    PROVE  /\ s \in Seq(Todo(s)) /\ Len(s) = n
           /\ \A b \in Todo(s) : \E i \in 1 .. n : b = s[i]
           /\ (\A i, j \in 1 .. n : i < j => Before(s[i], s[j])) => Ordered(s)
  BY DEF Listed, Todo, Ordered

-----------------------------------------------------------------------------
(* The steps left, after one was taken *)

\* The steps that follow the first, but for indirect blocks still to write.
Follows(todo, todo2) ==
    \E new : (\A s \in new : s.do = "indirect") /\ Todo(todo2) = Todo(Tail(todo)) \cup new

SameSizes(N, N2, inos) == \A i \in inos : N2[i].size = N[i].size

\* Cuts and inodes to write are what sizes depend on.
SameShape(todo, todo2) ==
    \A s : s.do \in {"cut", "inode"} => (s \in Todo(todo) <=> s \in Todo(todo2))

\* What Fits depends on.
LEMMA FitsSame ==
    ASSUME NEW N, NEW todo, NEW N2, NEW todo2, NEW inos,
           SameSizes(N, N2, inos), SameShape(todo, todo2)
    PROVE  FitsPass(N, todo, N2, todo2, inos, {})
  <1> SUFFICES ASSUME NEW i \in inos, NEW k \in Idx, Fits(N, todo, i, k)
               PROVE  Fits(N2, todo2, i, k)
    BY DEF FitsPass
  <1>1. CutStep(i, k) \in Todo(todo) => CutStep(i, k) \in Todo(todo2)
    BY DEF SameShape, CutStep
  <1>2. \A s : s.do = "inode" => (s \in Todo(todo) <=> s \in Todo(todo2))
    BY DEF SameShape
  <1>3. InodePending(todo2, i) => InodePending(todo, i)
    BY <1>2 DEF InodePending
  <1>4. N2[i].size = N[i].size
    BY DEF SameSizes
  <1> QED
    BY <1>1, <1>2, <1>3, <1>4 DEF Fits

\* Taking a step that is not about blocks or inodes leaves what the rest will do to them.
LEMMA SameAfter ==
    ASSUME NEW todo, todo \in Seq(Todo(todo)), todo # <<>>, NEW todo2, Follows(todo, todo2),
           todo[1].do \notin {"cut", "inode"}
    PROVE  SameShape(todo, todo2)
  BY TailTodo DEF SameShape, Follows

\* The step taken drops a block.
LEMMA FitsCut ==
    ASSUME NEW N, NEW todo, todo \in Seq(Todo(todo)), todo # <<>>,
           NEW N2, NEW todo2, Follows(todo, todo2),
           NEW inos, SameSizes(N, N2, inos), NEW ino, NEW idx, todo[1] = CutStep(ino, idx)
    PROVE  FitsPass(N, todo, N2, todo2, inos, {<<ino, idx>>})
  <1> SUFFICES ASSUME NEW i \in inos, NEW k \in Idx, Fits(N, todo, i, k),
                      <<i, k>> # <<ino, idx>>
               PROVE  Fits(N2, todo2, i, k)
    BY DEF FitsPass
  <1>1. \A s : s.do \in {"cut", "inode"} /\ s # todo[1] => (s \in Todo(todo) <=> s \in Todo(todo2))
    BY TailTodo DEF Follows
  <1>2. CutStep(i, k) # todo[1] /\ CutStep(i, k).do = "cut" /\ todo[1].do = "cut"
    BY DEF CutStep
  <1>3. CutStep(i, k) \in Todo(todo) => CutStep(i, k) \in Todo(todo2)
    BY <1>1, <1>2
  <1>4. \A s : s.do = "inode" => (s \in Todo(todo) => s \in Todo(todo2))
    BY <1>1, <1>2
  <1>5. \A s : s.do = "inode" => (s \in Todo(todo2) => s \in Todo(todo))
    BY TailTodo DEF Follows
  <1>6. InodePending(todo2, i) => InodePending(todo, i)
    BY <1>5 DEF InodePending
  <1>7. N2[i].size = N[i].size
    BY DEF SameSizes
  <1> QED
    BY <1>3, <1>4, <1>6, <1>7 DEF Fits

\* The step taken writes an inode with its new size.
LEMMA FitsInode ==
    ASSUME NEW N, NEW todo, todo \in Seq(Todo(todo)), todo # <<>>, Ordered(todo),
           NEW N2, NEW todo2, todo2 = Tail(todo),
           todo[1].do = "inode", N2[todo[1].ino].size = todo[1].size,
           NEW inos, SameSizes(N, N2, inos \ {todo[1].ino})
    PROVE  FitsPass(N, todo, N2, todo2, inos, {})
  <1> SUFFICES ASSUME NEW i \in inos, NEW k \in Idx, Fits(N, todo, i, k)
               PROVE  Fits(N2, todo2, i, k)
    BY DEF FitsPass
  <1>1. Todo(todo) = {todo[1]} \cup Todo(todo2)
    BY TailTodo
  <1>2. \A b \in Todo(todo2) : Before(todo[1], b)
    BY OrderedTail
  <1>3. CutStep(i, k) # todo[1] /\ CutStep(i, k).ino = i /\ CutStep(i, k).do = "cut"
    BY DEF CutStep
  <1>4. CASE i = todo[1].ino
    <2>1. ~InodePending(todo2, i)
      BY <1>2, <1>4 DEF InodePending, Before
    <2>2. CutStep(i, k) \notin Todo(todo2)
      BY <1>2, <1>3, <1>4 DEF Before
    <2>3. InodePending(todo, i)
      BY <1>1, <1>4 DEF InodePending
    <2>4. k < Blocks(i, todo[1].size)
      <3>1. \A s \in Todo(todo) : s.do = "inode" /\ s.ino = i => s = todo[1]
        BY <1>1, <2>1 DEF InodePending
      <3> QED
        BY <1>1, <1>3, <2>2, <2>3, <3>1 DEF Fits
    <2> QED
      BY <1>4, <2>1, <2>4 DEF Fits
  <1>5. CASE i # todo[1].ino
    <2>1. CutStep(i, k) \in Todo(todo) => CutStep(i, k) \in Todo(todo2)
      BY <1>1, <1>3
    <2>2. \A s \in Todo(todo) : s.do = "inode" /\ s.ino = i => s \in Todo(todo2)
      BY <1>1, <1>5
    <2>3. InodePending(todo2, i) => InodePending(todo, i)
      BY <1>1 DEF InodePending
    <2>4. N2[i].size = N[i].size
      BY <1>5 DEF SameSizes
    <2> QED
      BY <2>1, <2>2, <2>3, <2>4 DEF Fits
  <1> QED
    BY <1>4, <1>5

\* The steps of a call that begins.
LEMMA FitsCall ==
    ASSUME NEW N, NEW todo2, NEW inos,
           \A s \in Todo(todo2) : s.do = "inode" /\ s.ino \in inos
                => \A k \in Idx : k < Blocks(s.ino, N[s.ino].size)
                     => k < Blocks(s.ino, s.size) \/ CutStep(s.ino, k) \in Todo(todo2)
    PROVE  FitsPass(N, <<>>, N, todo2, inos, {})
  <1> SUFFICES ASSUME NEW i \in inos, NEW k \in Idx, Fits(N, <<>>, i, k)
               PROVE  Fits(N, todo2, i, k)
    BY DEF FitsPass
  <1>1. k < Blocks(i, N[i].size)
    BY NoSteps DEF Fits, InodePending
  <1> QED
    BY <1>1 DEF Fits, InodePending

-----------------------------------------------------------------------------
(* What the invariant says of the running call *)

\* Where a call can be.
LEMMA Phases == LInv => phase \in {"idle", "op", "close", "clean", "copy", "flush"}
  BY DEF LInv, W!IInv, W!TypeOK, W!Phases

\* No steps are left between calls, nor where the cleaner looks at the next block.
LEMMA NoTask ==
    ASSUME LInv, phase \in {"idle", "clean"}
    PROVE  task = <<>>
  <1>1. \A s \in Todo(task) : s.do \in StepsIn(phase)
    BY DEF LInv, Planned
  <1>2. StepsIn(phase) = {}
    BY DEF StepsIn
  <1>3. Todo(task) = {}
    BY <1>1, <1>2
  <1>4. task \in Seq(Todo(task))
    BY DEF LInv, Planned
  <1> QED
    BY <1>3, <1>4, TailTodo

\* The phases a step belongs to.
LEMMA PhaseOfStep ==
    ASSUME LInv, NEW s \in Todo(task)
    PROVE  /\ phase \in {"op", "close", "copy", "flush"}
           /\ s.do \in {"data", "cut", "unlink", "superblock"} => phase = "op"
           /\ s.do = "indirect" => phase \in {"op", "copy"}
           /\ s.do = "inode" => phase \in {"op", "flush"}
           /\ s.do = "free" => phase \in {"op", "close"}
           /\ s.do \in {"map", "end"} => phase \in {"op", "close", "flush"}
  <1>1. s.do \in StepsIn(phase)
    BY DEF LInv, Planned
  <1>2. phase \in {"idle", "op", "close", "clean", "copy", "flush"}
    BY Phases
  <1>3. CASE phase = "op"
    BY <1>3
  <1>4. CASE phase = "close"
    <2>1. s.do \in {"free", "map", "end"}
      BY <1>1, <1>4 DEF StepsIn
    <2> QED
      BY <1>4, <2>1
  <1>5. CASE phase = "copy"
    <2>1. s.do = "indirect"
      BY <1>1, <1>5 DEF StepsIn
    <2> QED
      BY <1>5, <2>1
  <1>6. CASE phase = "flush"
    <2>1. s.do \in {"inode", "map", "end"}
      BY <1>1, <1>6 DEF StepsIn
    <2> QED
      BY <1>6, <2>1
  <1>7. CASE phase \in {"idle", "clean"}
    BY <1>7, NoTask, NoSteps
  <1> QED
    BY <1>2, <1>3, <1>4, <1>5, <1>6, <1>7

\* The step at hand.
LEMMA NowFacts ==
    ASSUME LInv, task # <<>>
    PROVE  /\ task \in Seq(Todo(task)) /\ Ordered(task)
           /\ Now \in Todo(task) /\ StepFine(Now)
           /\ Now.do \in {"data", "cut", "indirect", "inode", "unlink", "free", "superblock",
                          "map", "end"}
           /\ Todo(task) = {Now} \cup Todo(Tail(task))
           /\ \A s \in Todo(Tail(task)) : Before(Now, s) /\ StepFine(s)
  <1>1. task \in Seq(Todo(task)) /\ Ordered(task) /\ \A s \in Todo(task) : StepFine(s)
    BY DEF LInv, Planned
  <1>2. Now \in Todo(task) /\ Todo(task) = {Now} \cup Todo(Tail(task))
    BY <1>1, TailTodo DEF Now
  <1>3. \A s \in Todo(Tail(task)) : Before(Now, s)
    BY <1>1, OrderedTail DEF Now
  <1>4. Now.do \in StepsIn(phase)
    BY <1>2 DEF LInv, Planned
  <1>5. Now.do \in {"data", "cut", "indirect", "inode", "unlink", "free", "superblock",
                    "map", "end"}
    <2>1. phase \in {"idle", "op", "close", "clean", "copy", "flush"}
      BY Phases
    <2> QED
      BY <1>4, <2>1 DEF StepsIn
  <1> QED
    BY <1>1, <1>2, <1>3, <1>5

\* The superblock is written only when the inode map was.
LEMMA EndIsLast ==
    ASSUME LInv, task # <<>>
    PROVE  /\ Now.do = "end" => Todo(Tail(task)) = {} /\ Len(task) = 1
           /\ Tail(task) # <<>> /\ Tail(task)[1].do = "end" => Now.do = "map"
           /\ Now.do = "map" => Tail(task) # <<>> /\ Tail(task)[1].do = "end"
  <1>1. /\ task \in Seq(Todo(task)) /\ Ordered(task)
        /\ Todo(task) = {Now} \cup Todo(Tail(task))
        /\ \A s \in Todo(Tail(task)) : Before(Now, s)
    BY NowFacts
  <1>2. /\ Len(task) \in Nat /\ Len(task) >= 1 /\ Len(Tail(task)) = Len(task) - 1
        /\ Tail(task) \in Seq(Todo(Tail(task)))
    BY <1>1, TailTodo
  <1> DEFINE u == Tail(task)
  <1>3. u \in Seq(Todo(u)) /\ Ordered(u) /\ Len(u) = Len(task) - 1
        /\ \A s \in Todo(u) : Before(Now, s)
    BY <1>1, <1>2, OrderedTail
  <1> HIDE DEF u
  <1>4. u # <<>> => u[1] \in Todo(u) /\ Todo(u) = {u[1]} \cup Todo(Tail(u))
                    /\ \A s \in Todo(Tail(u)) : Before(u[1], s)
    BY <1>3, TailTodo, OrderedTail
  <1>5. Now.do = "end" => Todo(u) = {} /\ u = <<>> /\ Len(task) = 1
    <2>1. Now.do = "end" => Todo(u) = {}
      BY <1>3 DEF Before
    <2>2. Todo(u) = {} => u = <<>>
      BY <1>3, <1>4
    <2>3. ASSUME u = <<>> PROVE Len(task) = 1
      <3>1. Len(u) = 0
        BY <2>3, NoSteps
      <3>2. Len(task) \in Nat /\ Len(u) = Len(task) - 1
        BY <1>2, <1>3
      <3> QED
        BY <3>1, <3>2
    <2> QED
      BY <2>1, <2>2, <2>3
  <1>6. ASSUME u # <<>>, u[1].do = "end" PROVE Now.do = "map"
    <2>1. Todo(Tail(u)) = {}
      BY <1>4, <1>6 DEF Before
    <2>2. Now.do # "end"
      BY <1>5, <1>6
    <2>3. u[1] \in Todo(task) /\ Todo(task) = {Now, u[1]}
      BY <1>1, <1>4, <1>6, <2>1 DEF u
    <2>4. \E s \in Todo(task) : s.do = "map"
      BY <1>6, <2>2, <2>3 DEF LInv, Planned, Ends, Now
    <2> QED
      BY <1>6, <2>3, <2>4
  <1>7. ASSUME Now.do = "map" PROVE u # <<>> /\ u[1].do = "end"
    <2>1. Ends
      BY <1>1, <1>7 DEF LInv, Planned
    <2>2. PICK s \in Todo(u) : s.do = "end"
      BY <1>1, <1>7, <2>1 DEF Ends, u
    <2>3. u # <<>>
      BY <2>2, NoSteps
    <2> QED
      BY <1>3, <1>4, <1>7, <2>3 DEF Before
  <1> QED
    BY <1>5, <1>6, <1>7 DEF u

\* The inodes in memory.
LEMMA KnownIs ==
    /\ DOMAIN Known = DOMAIN imap
    /\ \A ino \in DOMAIN imap :
          Known[ino] = IF ino \in DOMAIN work THEN work[ino] ELSE dev[imap[ino]]
    /\ \A d, map : Nodes(d, map, <<>>) = [ino \in DOMAIN map |-> d[map[ino]]]
    /\ Plain(dev, DurableMap, Stored)
  <1>1. DOMAIN <<>> = {}
    OBVIOUS
  <1> QED
    BY <1>1 DEF Known, Nodes, Plain, Stored

\* Between calls memory holds no copies.
LEMMA IdleKnown ==
    ASSUME LInv, work = <<>>
    PROVE  /\ Known = [ino \in DOMAIN imap |-> dev[imap[ino]]]
           /\ Plain(dev, imap, Known)
           /\ Dir = DirOf(dev, Known)
           /\ \A ino \in DOMAIN imap : Known[ino] = ReadInode(ino)
  <1>1. Known = [ino \in DOMAIN imap |-> dev[imap[ino]]]
    BY KnownIs DEF Known
  <1>2. Root \in DOMAIN imap
    BY DEF LInv, MemoryGood, Good, Formed
  <1> QED
    BY <1>1, <1>2 DEF Plain, Dir, Entries, DirOf, ReadInode

-----------------------------------------------------------------------------
(* What a write leaves alone *)

\* Nothing changes for a reader of the device.
DeviceSame ==
    /\ DurableMap' = DurableMap /\ Stored' = Stored
    /\ Rebuilt(dev, DurableMap)' = Rebuilt(dev, DurableMap)
    /\ DirOf(dev, Stored)' = DirOf(dev, Stored)
    /\ DeviceGood'

\* One block is written at the tail.
AtTail == Apart(dev, super.tail, dev') /\ Window!WriteAtTail(phase)

\* A write at the tail spares every block the device's inode map leads to.
LEMMA DeviceKept ==
    ASSUME LInv, sb'.map = sb.map,
           dev' = dev \/ (AtTail /\ phase # "idle" /\ ~overran')
    PROVE  DeviceSame
  <1>1. CASE dev' = dev
    <2>1. DurableMap' = DurableMap
      BY <1>1 DEF DurableMap
    <2>2. Stored' = Stored
      BY <1>1, <2>1 DEF Stored
    <2> QED
      BY <1>1, <2>1, <2>2 DEF DeviceSame, DeviceGood, LInv
  <1>2. CASE AtTail /\ phase # "idle" /\ ~overran'
    <2> DEFINE t == super.tail
               map == DurableMap
    <2>1. t \in Log /\ t \notin DOMAIN Rebuilt(dev, map) /\ t # sb.map /\ sb.map \in Log
      BY <1>2, TailSparesDevice, TailFree DEF AtTail, LInv, Typed, Superblocks
    <2>2. Apart(dev, t, dev')
      BY <1>2 DEF AtTail
    <2>3. DurableMap' = map
      BY <2>1, <2>2 DEF DurableMap, Apart
    <2>4. Good(dev, map, Stored, <<>>, Rebuilt(dev, map)) /\ Plain(dev, map, Stored)
      BY KnownIs DEF LInv, DeviceGood
    <2> HIDE DEF t, map
    <2>5. /\ Rebuilt(dev', map) = Rebuilt(dev, map)
          /\ Good(dev', map, Stored, <<>>, Rebuilt(dev', map)) /\ Plain(dev', map, Stored)
          /\ DirOf(dev', Stored) = DirOf(dev, Stored)
      BY <2>1, <2>2, <2>4, RebuiltStays
    <2>6. Stored' = Stored
      <3>1. Stored = [ino \in DOMAIN map |-> dev[map[ino]]]
        BY KnownIs DEF Stored, map
      <3>2. Stored' = [ino \in DOMAIN map |-> dev'[map[ino]]]
        BY <2>3, KnownIs DEF Stored
      <3> QED
        BY <2>5, <3>1, <3>2 DEF Plain
    <2> QED
      BY <2>3, <2>5, <2>6 DEF DeviceSame, DeviceGood, map
  <1> QED
    BY <1>1, <1>2

\* A block was written at the tail, and filed in the summary.
Wrote(content, entry, dead) ==
    /\ super.tail \in Log /\ super.tail \notin DOMAIN summary
    /\ Apart(dev, super.tail, dev') /\ dev'[super.tail] = content /\ DOMAIN dev' = Log
    /\ Filed(summary, dead, super.tail, entry, summary')

Moved(head, type) ==
    /\ super' \in Superblocks /\ super'.next = super.next
    /\ super'.head = head /\ super'.tail = W!NextBlock(super.tail)
    /\ super'.map = IF type = "map" THEN super.tail ELSE super.map
    /\ W!WriteAtTail(phase)

\* What Put does to device, summary and cursors, and that it spares the device's image.
LEMMA PutFrame ==
    ASSUME LInv, NEW content, NEW entry, NEW dead, NEW head \in Log,
           Put(content, entry, dead, head), phase # "idle", ~overran', sb' = sb
    PROVE  Wrote(content, entry, dead) /\ Moved(head, entry.type) /\ DeviceSame
  <1>1. super.tail \in Log /\ super.tail \notin DOMAIN summary /\ super \in Superblocks
        /\ DOMAIN dev = Log
    BY TailFree DEF LInv, Typed
  <1>2. Wrote(content, entry, dead)
    <2>1. dev' = [dev EXCEPT ![super.tail] = content]
      BY DEF Put
    <2>2. summary' = [a \in (DOMAIN summary \ dead) \cup {super.tail} |->
                         IF a = super.tail THEN entry ELSE summary[a]]
      BY DEF Put
    <2>3. Apart(dev, super.tail, dev') /\ dev'[super.tail] = content /\ DOMAIN dev' = Log
      BY <1>1, <2>1 DEF Apart
    <2>4. Filed(summary, dead, super.tail, entry, summary')
      BY <2>2 DEF Filed
    <2> QED
      BY <1>1, <2>3, <2>4 DEF Wrote
  <1>3. Moved(head, entry.type)
    <2>1. super' = [super EXCEPT !.head = head, !.tail = NextBlock(@),
                                 !.map = IF entry.type = "map" THEN super.tail ELSE @]
      BY DEF Put
    <2>2. NextBlock(super.tail) = W!NextBlock(super.tail) /\ NextBlock(super.tail) \in Log
      <3>1. W!NextBlock(super.tail) \in W!Log
        BY <1>1, LogFits, LogIsLog, W!NextInLog
      <3> QED
        BY <3>1, LogIsLog, SameWindow DEF NextBlock
    <2>3. W!WriteAtTail(phase)
      BY SameWindow DEF Put
    <2> QED
      BY <1>1, <2>1, <2>2, <2>3 DEF Moved, Superblocks
  <1>4. DeviceSame
    BY <1>2, DeviceKept DEF Wrote, AtTail, Put
  <1> QED
    BY <1>2, <1>3, <1>4

\* The inodes of the map are not where the tail writes.
LEMMA InodesSpared ==
    ASSUME LInv, super.tail \in Log, super.tail \notin DOMAIN summary, Apart(dev, super.tail, dev')
    PROVE  /\ \A ino \in DOMAIN imap : dev'[imap[ino]] = dev[imap[ino]]
           /\ DirOf(dev', Known) = DirOf(dev, Known)
           /\ \A ino \in DOMAIN imap, idx \in Idx :
                 GetBlockAddr(dev', Known[ino], idx) = GetBlockAddr(dev, Known[ino], idx)
  <1>1. Good(dev, imap, Known, task, summary)
    BY DEF LInv, MemoryGood
  <1>2. Spared(dev, imap, Known, dev') /\ DirOf(dev', Known) = DirOf(dev, Known)
    BY <1>1, Elsewhere
  <1> QED
    BY <1>2 DEF Spared

-----------------------------------------------------------------------------
(* The image in memory, step by step *)

\* One step of the call is taken: what the steps left depend on.
Moves ==
    /\ task # <<>>
    /\ \/ task' = Tail(task)
       \/ /\ Now.do \in {"data", "cut"} /\ Now.idx >= DirectBlocks
          /\ \E addr \in Addr : task' = <<IndirectStep(Now.ino, Now.idx, addr)>> \o Tail(task)
    /\ phase' = phase /\ open' = open /\ super'.next = super.next
    /\ DOMAIN imap' = IF Now.do = "free" THEN DOMAIN imap \ {Now.ino}
                      ELSE IF Now.do = "inode" THEN DOMAIN imap \cup {Now.ino}
                      ELSE DOMAIN imap
    /\ DOMAIN work \ (IF Now.do = "inode" THEN {Now.ino} ELSE {}) \subseteq DOMAIN work'
    /\ \A ino \in DOMAIN work :
          \/ Now.do \in {"data", "cut", "indirect", "inode"} /\ ino = Now.ino
          \/ work'[ino] = work[ino]
    /\ DirOf(dev, Known)' = IF IsDirStep(Now) THEN Now.block.entries ELSE DirOf(dev, Known)

\* A step leaves the steps after it, and at most an indirect block before them.
LEMMA MovesFollow ==
    ASSUME LInv, Moves
    PROVE  Follows(task, task')
  <1>1. CASE task' = Tail(task)
    <2>1. Todo(task') = Todo(Tail(task)) \cup {}
      BY <1>1
    <2> QED
      BY <2>1 DEF Follows
  <1>2. CASE \E addr \in Addr : task' = <<IndirectStep(Now.ino, Now.idx, addr)>> \o Tail(task)
    <2>1. PICK addr \in Addr : task' = <<IndirectStep(Now.ino, Now.idx, addr)>> \o Tail(task)
      BY <1>2
    <2> DEFINE s == IndirectStep(Now.ino, Now.idx, addr)
               u == Tail(task)
    <2>2. u \in Seq(Todo(u)) /\ s.do = "indirect"
      BY NowFacts, TailTodo DEF Moves, IndirectStep
    <2> HIDE DEF s, u
    <2>3. Todo(<<s>> \o u) = Todo(u) \cup {s}
      BY <2>2, ConsTodo
    <2>4. task' = <<s>> \o u
      BY <2>1 DEF s, u
    <2>5. Todo(task') = Todo(u) \cup {s}
      BY <2>3, <2>4
    <2> QED
      BY <2>2, <2>5 DEF Follows, u
  <1> QED
    BY <1>1, <1>2 DEF Moves

\* The steps that come next begin with no pending indirect block.
LEMMA TailSettled ==
    ASSUME LInv, task # <<>>
    PROVE  Settled(Tail(task)) /\ Tail(task) \in Seq(Todo(Tail(task)))
  <1> DEFINE u == Tail(task)
  <1>1. u \in Seq(Todo(u)) /\ \A s \in Todo(u) : s.do # "indirect"
    BY NowFacts, TailTodo DEF Before
  <1> HIDE DEF u
  <1>2. u # <<>> => u[1] \in Todo(u)
    BY <1>1, TailTodo
  <1> QED
    BY <1>1, <1>2 DEF Settled, u

\* What set_block_addr does to the inodes in memory.
SetTo(inodes, ino, idx, addr, rest) ==
    IF idx < DirectBlocks
    THEN /\ DOMAIN work' = DOMAIN inodes
         /\ work'[ino] = [inodes[ino] EXCEPT !.ptr[idx] = addr]
         /\ \A i \in DOMAIN inodes : i # ino => work'[i] = inodes[i]
         /\ task' = rest
    ELSE /\ work' = inodes
         /\ task' = <<IndirectStep(ino, idx, addr)>> \o rest

\* What set_block_addr does, without its cases.
LEMMA SetIs ==
    ASSUME NEW inodes, NEW ino \in DOMAIN inodes, NEW idx, NEW addr, NEW rest,
           SetBlockAddr(inodes, ino, idx, addr, rest)
    PROVE  SetTo(inodes, ino, idx, addr, rest)
  BY DEF SetBlockAddr, SetTo

\* `inodes' are copies like those of the call, perhaps more of them.
Copies(inodes) == \A i \in DOMAIN imap : i \in DOMAIN inodes => inodes[i] = Known[i]
Covers(inodes) == DOMAIN work \subseteq DOMAIN inodes
InodesKept == \A i \in DOMAIN imap : dev'[imap[i]] = dev[imap[i]]

\* After set_block_addr and its indirect block, the one pointer leads to the new block.
LEMMA SetPointer ==
    ASSUME NEW inodes, NEW ino \in DOMAIN imap, NEW idx \in Idx, NEW addr, NEW rest,
           ino \in DOMAIN inodes, Copies(inodes), Covers(inodes), InodesKept, imap' = imap,
           rest \in Seq(Todo(rest)), Settled(rest),
           SetTo(inodes, ino, idx, addr, rest)
    PROVE  Pointed(Known, ino, idx, addr, Known', task')
  <1>1. /\ DOMAIN Known' = DOMAIN imap
        /\ \A i \in DOMAIN imap : Known'[i] = IF i \in DOMAIN work' THEN work'[i] ELSE dev'[imap[i]]
    BY DEF Known, Nodes
  <1>2. DOMAIN Known = DOMAIN imap
        /\ \A i \in DOMAIN imap : Known[i] = IF i \in DOMAIN work THEN work[i] ELSE dev[imap[i]]
    BY KnownIs
  <1>3. \A i \in DOMAIN imap : i \notin DOMAIN inodes => dev'[imap[i]] = Known[i]
    BY <1>2 DEF Covers, InodesKept
  <1>4. CASE idx < DirectBlocks
    <2>1. /\ DOMAIN work' = DOMAIN inodes
          /\ work'[ino] = [inodes[ino] EXCEPT !.ptr[idx] = addr]
          /\ \A i \in DOMAIN inodes : i # ino => work'[i] = inodes[i]
          /\ task' = rest
      BY <1>4 DEF SetTo
    <2>2. Known'[ino] = [Known[ino] EXCEPT !.ptr[idx] = addr]
      BY <1>1, <2>1 DEF Copies
    <2>3. \A i \in DOMAIN imap : i # ino => Known'[i] = Known[i]
      BY <1>1, <1>3, <2>1 DEF Copies
    <2>4. task' # <<>> => task'[1].do # "indirect"
      BY <2>1 DEF Settled
    <2> QED
      BY <1>1, <1>2, <1>4, <2>2, <2>3, <2>4 DEF Pointed
  <1>5. CASE ~(idx < DirectBlocks)
    <2>1. work' = inodes /\ task' = <<IndirectStep(ino, idx, addr)>> \o rest
      BY <1>5 DEF SetTo
    <2>2. \A i \in DOMAIN imap : Known'[i] = Known[i]
      BY <1>1, <1>3, <2>1 DEF Copies
    <2>3. Known' = Known
      <3>1. Known = [i \in DOMAIN imap |-> Known[i]] /\ Known' = [i \in DOMAIN imap |-> Known'[i]]
        BY <1>1, <1>2 DEF Known, Nodes
      <3> QED
        BY <2>2, <3>1
    <2>4. task' # <<>> /\ task'[1] = IndirectStep(ino, idx, addr)
      BY <2>1, ConsTodo
    <2> QED
      BY <1>5, <2>3, <2>4 DEF Pointed
  <1> QED
    BY <1>4, <1>5

\* Pointers do not count for sizes.
LEMMA PointedSizes ==
    ASSUME NEW d, NEW map, NEW N, Formed(d, map, N), NEW ino \in DOMAIN map, NEW idx \in Idx,
           NEW addr, NEW N2, NEW todo2, Pointed(N, ino, idx, addr, N2, todo2)
    PROVE  SameSizes(N, N2, DOMAIN map)
  <1>1. DOMAIN N = DOMAIN map /\ N[ino] \in NodeOf(ino)
    BY DEF Formed, IsNode
  <1>2. [N[ino] EXCEPT !.ptr[idx] = addr].size = N[ino].size
    BY <1>1 DEF NodeOf
  <1> QED
    BY <1>1, <1>2 DEF Pointed, SameSizes

\* What a step on an inode's blocks finds.
LEMMA OnInode ==
    ASSUME LInv, task # <<>>, Now.do \in {"data", "cut", "indirect"}
    PROVE  /\ Now.ino \in DOMAIN imap /\ Now.ino \in DOMAIN work /\ Now.idx \in Idx
           /\ Known[Now.ino] = work[Now.ino]
           /\ phase = "op" => InodePending(task, Now.ino)
  <1>1. StepFine(Now)
    BY NowFacts
  <1> QED
    BY <1>1, KnownIs DEF StepFine

\* The copies of the call are the inodes in memory.
LEMMA WorkIsCopies == Copies(work) /\ Covers(work)
  BY KnownIs DEF Copies, Covers

\* The image in memory is good.
LEMMA GoodNow ==
    ASSUME LInv
    PROVE  /\ Good(dev, imap, Known, task, summary)
           /\ Formed(dev, imap, Known)
           /\ DOMAIN imap \subseteq Nat \ {NoIno} /\ Root \in DOMAIN imap
  BY DEF LInv, MemoryGood, Good, Formed

\* A block of the directory names inodes of the map only.
LEMMA DirStepNow ==
    ASSUME LInv, task # <<>>, Now.do = "data", Now.ino = Root
    PROVE  Now.idx = 0 /\ EntriesFine(Now.block.entries, DOMAIN imap)
  <1>1. StepFine(Now) /\ \A s \in Todo(Tail(task)) : Before(Now, s)
    BY NowFacts
  <1>2. DirStepFine(Now)
    BY <1>1 DEF StepFine, DataFine
  <1>3. \A i : InodePending(task, i) =>
            \A n \in DOMAIN Now.block.entries : Now.block.entries[n] # i
    <2> SUFFICES ASSUME NEW i, NEW s \in Todo(task), s.do = "inode", s.ino = i
                 PROVE  \A n \in DOMAIN Now.block.entries : Now.block.entries[n] # i
      BY DEF InodePending
    <2>1. s \in Todo(Tail(task))
      BY NowFacts
    <2> QED
      BY <1>1, <2>1 DEF Before
  <1> QED
    BY <1>2, <1>3 DEF DirStepFine, EntriesFine

\* The directory after a pointer of a file was set.
LEMMA DirAfterPointer ==
    ASSUME LInv, NEW ino \in DOMAIN imap, NEW idx \in Idx, NEW addr,
           Pointed(Known, ino, idx, addr, Known', task'), ino # Root,
           DirOf(dev', Known) = DirOf(dev, Known)
    PROVE  DirOf(dev, Known)' = DirOf(dev, Known)
  <1>1. Known'[Root] = Known[Root]
    BY GoodNow, KnownIs DEF Pointed
  <1> QED
    BY <1>1 DEF DirOf

\* A block written for the directory is where its entries are read next.
LEMMA DirAfterDirStep ==
    ASSUME LInv, NEW addr, Pointed(Known, Root, 0, addr, Known', task')
    PROVE  DirOf(dev, Known)' = dev'[addr].entries
  <1>1. Known[Root].ptr \in [0 .. (DirectBlocks - 1) -> Addr] /\ 0 \in 0 .. (DirectBlocks - 1)
        /\ 0 < DirectBlocks /\ Known[Root] \in NodeOf(Root)
    BY GoodNow, Sizes DEF Formed, IsNode, NodeOf
  <1>2. Known'[Root] = [Known[Root] EXCEPT !.ptr[0] = addr]
    BY <1>1 DEF Pointed
  <1>3. Known'[Root].ptr = [Known[Root].ptr EXCEPT ![0] = addr]
    BY <1>1, <1>2 DEF NodeOf
  <1>4. Known'[Root].ptr[0] = addr
    BY <1>1, <1>3
  <1> QED
    BY <1>4 DEF DirOf

\* A data or directory block is written anew.
LEMMA WriteDataGood ==
    ASSUME LInv, ~overran', WriteData
    PROVE  MemoryGood' /\ DeviceSame /\ Moves
           /\ Wrote(Now.block, Entry(Now.ino, Now.idx, "data"),
                    {GetBlockAddr(dev, Known[Now.ino], Now.idx)})
           /\ Moved(super.head, "data")
  <1> DEFINE ino == Now.ino
             idx == Now.idx
             t == super.tail
             old == GetBlockAddr(dev, Known[ino], idx)
  <1>1. task # <<>> /\ Now.do = "data" /\ phase = "op"
    BY NowFacts, PhaseOfStep DEF WriteData, Due, Now
  <1>2. /\ ino \in DOMAIN imap /\ ino \in DOMAIN work /\ idx \in Idx
        /\ Known[ino] = work[ino]
    BY <1>1, OnInode
  <1>3. /\ Put(Now.block, Entry(ino, idx, "data"), {old}, super.head)
        /\ SetBlockAddr(work, ino, idx, t, Tail(task))
        /\ imap' = imap /\ sb' = sb /\ open' = open /\ phase' = phase
    BY <1>2 DEF WriteData, Keeps
  <1>4. /\ Wrote(Now.block, Entry(ino, idx, "data"), {old}) /\ DeviceSame
        /\ Moved(super.head, "data")
    <2>1. super.head \in Log /\ Entry(ino, idx, "data").type = "data"
      BY RolesAre DEF LInv, Typed, Superblocks
    <2>2. PICK e, x, b : e = Entry(ino, idx, "data") /\ x = {old} /\ b = Now.block
      OBVIOUS
    <2>3. Put(b, e, x, super.head)
      BY <1>3, <2>2
    <2>4. Wrote(b, e, x) /\ Moved(super.head, e.type) /\ DeviceSame
      BY <1>1, <1>3, <2>1, <2>3, PutFrame
    <2> QED
      BY <2>1, <2>2, <2>4
  <1>5. /\ t \in Log /\ t \notin DOMAIN summary /\ Apart(dev, t, dev') /\ dev'[t] = Now.block
        /\ Filed(summary, {old}, t, Entry(ino, idx, "data"), summary')
    BY <1>4 DEF Wrote
  <1>6. InodesKept /\ DirOf(dev', Known) = DirOf(dev, Known)
    BY <1>5, InodesSpared DEF InodesKept
  <1>7. SetTo(work, ino, idx, t, Tail(task))
    BY <1>2, <1>3, SetIs
  <1>8. Pointed(Known, ino, idx, t, Known', task')
    BY <1>1, <1>2, <1>3, <1>6, <1>7, SetPointer, WorkIsCopies, TailSettled
  <1>9. DirOf(dev, Known)' = IF IsDirStep(Now) THEN Now.block.entries ELSE DirOf(dev, Known)
    <2>1. CASE ino = Root
      <3>1. idx = 0
        BY <1>1, <2>1, DirStepNow
      <3>2. DirOf(dev, Known)' = dev'[t].entries
        BY <1>8, <2>1, <3>1, DirAfterDirStep
      <3> QED
        BY <1>1, <1>5, <2>1, <3>2 DEF IsDirStep
    <2>2. CASE ino # Root
      BY <1>1, <1>2, <1>6, <1>8, <2>2, DirAfterPointer DEF IsDirStep
    <2> QED
      BY <2>1, <2>2
  <1>10. Moves
    <2>1. \/ task' = Tail(task)
          \/ /\ Now.idx >= DirectBlocks
             /\ \E addr \in Addr : task' = <<IndirectStep(Now.ino, Now.idx, addr)>> \o Tail(task)
      <3>1. t \in Addr /\ DirectBlocks \in Nat /\ idx \in Nat
        BY <1>2, <1>5, Sizes DEF Addr
      <3> QED
        BY <1>7, <3>1 DEF SetTo
    <2>2. /\ DOMAIN work' = DOMAIN work
          /\ \A i \in DOMAIN work : i = Now.ino \/ work'[i] = work[i]
      BY <1>7 DEF SetTo
    <2>3. super'.next = super.next
      BY <1>4 DEF Moved
    <2> QED
      BY <1>1, <1>3, <1>9, <2>1, <2>2, <2>3 DEF Moves
  <1>11. FitsPass(Known, task, Known', task', DOMAIN imap, {})
    <2>1. SameShape(task, task')
      BY <1>1, <1>10, SameAfter, MovesFollow, NowFacts DEF Now
    <2>2. SameSizes(Known, Known', DOMAIN imap)
      BY <1>2, <1>8, GoodNow, PointedSizes
    <2> QED
      BY <2>1, <2>2, FitsSame
  <1>12. Fits(Known', task', ino, idx)
    <2>1. \E s \in Todo(task) : s.do = "inode" /\ s.ino = ino /\ idx < Blocks(ino, s.size)
      BY <1>1, NowFacts DEF StepFine, DataFine
    <2>2. SameShape(task, task')
      BY <1>1, <1>10, SameAfter, MovesFollow, NowFacts DEF Now
    <2> QED
      BY <2>1, <2>2 DEF SameShape, Fits
  <1>13. ino = Root => idx = 0 /\ EntriesFine(dev'[t].entries, DOMAIN imap)
    BY <1>1, <1>5, DirStepNow
  <1>14. Settled(task)
    BY <1>1 DEF Settled, Now
  <1>15. MemoryGood'
    <2>1. Good(dev', imap, Known', task', summary')
      <3> HIDE DEF ino, idx, t
      <3>1. Filed(summary, {GetBlockAddr(dev, Known[ino], idx)}, t, Entry(ino, idx, "data"), summary')
        BY <1>5
      <3> QED
        BY <1>2, <1>5, <1>8, <1>11, <1>12, <1>13, <1>14, <3>1, GoodNow, GoodData
    <2> QED
      BY <1>3, <2>1 DEF MemoryGood
  <1> QED
    BY <1>4, <1>10, <1>15

\* The first pointers of an inode do not change with its indirect block.
LEMMA IndirectKeeps ==
    ASSUME NEW d, NEW map, NEW N, Formed(d, map, N), NEW ino \in DOMAIN map, NEW t,
           NEW N2, Indirected(N, ino, t, N2)
    PROVE  SamePtrs(N, N2) /\ SameSizes(N, N2, DOMAIN map)
  <1>1. DOMAIN N = DOMAIN map /\ N[ino] \in NodeOf(ino)
    BY DEF Formed, IsNode
  <1>2. [N[ino] EXCEPT !.ind = t].size = N[ino].size /\ [N[ino] EXCEPT !.ind = t].ptr = N[ino].ptr
    BY <1>1 DEF NodeOf
  <1> QED
    BY <1>1, <1>2 DEF Indirected, SamePtrs, SameSizes

\* The pointers of an indirect block with one of them changed.
LEMMA NewPointers ==
    ASSUME NEW d, NEW map, NEW N, NEW todo, Formed(d, map, N), PendsFine(todo),
           todo # <<>>, todo[1].do = "indirect",
           NEW ino \in DOMAIN map, ino = todo[1].ino, NEW ptr,
           ptr = IF N[ino].ind = NoBlock THEN NoPtrs(PtrsPerBlock) ELSE d[N[ino].ind].ptr,
           NEW block,
           block = IndirectBlock([ptr EXCEPT ![todo[1].idx - DirectBlocks] = todo[1].addr])
    PROVE  IsIndirect(block) /\ Redirects(block, d, N, todo, ino)
  <1>1. /\ todo[1].idx \in Idx /\ todo[1].idx >= DirectBlocks /\ todo[1].addr \in Addr
        /\ Idx \subseteq Nat /\ DirectBlocks \in Nat /\ PtrsPerBlock \in Nat
        /\ \A k \in Idx : k >= DirectBlocks => k - DirectBlocks \in 0 .. (PtrsPerBlock - 1)
    BY Sizes DEF PendsFine, Idx, MaxBlocks
  <1>2. ptr \in [0 .. (PtrsPerBlock - 1) -> Addr]
    <2>1. CASE N[ino].ind = NoBlock
      BY <2>1 DEF NoPtrs, Addr
    <2>2. CASE N[ino].ind # NoBlock
      BY <2>2 DEF Formed, IsIndirect
    <2> QED
      BY <2>1, <2>2
  <1>3. \A k \in Idx : k >= DirectBlocks => ptr[k - DirectBlocks] = GetBlockAddr(d, N[ino], k)
    <2> SUFFICES ASSUME NEW k \in Idx, k >= DirectBlocks
                 PROVE  ptr[k - DirectBlocks] = GetBlockAddr(d, N[ino], k)
      OBVIOUS
    <2>1. ~(k < DirectBlocks) /\ k - DirectBlocks \in 0 .. (PtrsPerBlock - 1)
      BY <1>1
    <2>2. CASE N[ino].ind = NoBlock
      BY <2>1, <2>2 DEF NoPtrs, GetBlockAddr
    <2>3. CASE N[ino].ind # NoBlock
      BY <2>1, <2>3 DEF GetBlockAddr
    <2> QED
      BY <2>2, <2>3
  <1>4. block.ptr = [ptr EXCEPT ![todo[1].idx - DirectBlocks] = todo[1].addr]
        /\ block.type = "indirect"
    BY DEF IndirectBlock
  <1>5. IsIndirect(block)
    BY <1>1, <1>2 DEF IsIndirect, IndirectBlock
  <1>6. Redirects(block, d, N, todo, ino)
    <2> SUFFICES ASSUME NEW k \in Idx, k >= DirectBlocks
                 PROVE  block.ptr[k - DirectBlocks] = Pointer(d, N, todo, ino, k)
      BY DEF Redirects
    <2>1. CASE k = todo[1].idx
      <3>1. block.ptr[k - DirectBlocks] = todo[1].addr
        BY <1>1, <1>2, <1>4, <2>1
      <3> QED
        BY <2>1, <3>1 DEF Pointer, Pends
    <2>2. CASE k # todo[1].idx
      <3> DEFINE i == todo[1].idx
      <3>0. k \in Nat /\ i \in Nat /\ DirectBlocks \in Nat /\ k # i
        BY <1>1, <2>2
      <3> HIDE DEF i
      <3>1. k - DirectBlocks # i - DirectBlocks
        BY <3>0
      <3> USE DEF i
      <3>2. block.ptr[k - DirectBlocks] = ptr[k - DirectBlocks]
        BY <1>1, <1>2, <1>4, <3>1
      <3> QED
        BY <1>3, <2>2, <3>2 DEF Pointer, Pends
    <2> QED
      BY <2>1, <2>2
  <1> QED
    BY <1>5, <1>6

\* Writing an indirect block keeps the image in memory good, and spares the device's.
LEMMA WriteIndirectGood ==
    ASSUME LInv, ~overran', WriteIndirect
    PROVE  MemoryGood' /\ DeviceSame /\ Moves
           /\ Wrote(dev'[super.tail], Entry(Now.ino, 0, "indirect"), {Known[Now.ino].ind})
           /\ Moved(super.head, "indirect")
  <1> DEFINE ino == Now.ino
             t == super.tail
             ptr == IF Known[ino].ind = NoBlock THEN NoPtrs(PtrsPerBlock)
                    ELSE dev[Known[ino].ind].ptr
             block == IndirectBlock([ptr EXCEPT ![Now.idx - DirectBlocks] = Now.addr])
  <1>1. task # <<>> /\ Now.do = "indirect" /\ phase \in {"op", "copy"}
    BY NowFacts, PhaseOfStep DEF WriteIndirect, Due, Now
  <1>2. ino \in DOMAIN imap /\ ino \in DOMAIN work /\ Known[ino] = work[ino]
    BY <1>1, OnInode
  <1>3. /\ Put(block, Entry(ino, 0, "indirect"), {Known[ino].ind}, super.head)
        /\ work' = [work EXCEPT ![ino].ind = t] /\ task' = Tail(task)
        /\ imap' = imap /\ sb' = sb /\ open' = open /\ phase' = phase
    BY <1>2 DEF WriteIndirect, Keeps
  <1>4. /\ Wrote(block, Entry(ino, 0, "indirect"), {Known[ino].ind}) /\ DeviceSame
        /\ Moved(super.head, "indirect")
    <2>1. super.head \in Log /\ Entry(ino, 0, "indirect").type = "indirect"
      BY RolesAre DEF LInv, Typed, Superblocks
    <2>2. PICK e, x, b : e = Entry(ino, 0, "indirect") /\ x = {Known[ino].ind} /\ b = block
      OBVIOUS
    <2> HIDE DEF block
    <2>3. Put(b, e, x, super.head)
      BY <1>3, <2>2
    <2>4. Wrote(b, e, x) /\ Moved(super.head, e.type) /\ DeviceSame
      BY <1>1, <1>3, <2>1, <2>3, PutFrame
    <2> QED
      BY <2>1, <2>2, <2>4
  <1>5. /\ t \in Log /\ t \notin DOMAIN summary /\ Apart(dev, t, dev') /\ dev'[t] = block
        /\ Filed(summary, {Known[ino].ind}, t, Entry(ino, 0, "indirect"), summary')
    BY <1>4 DEF Wrote
  <1>6. InodesKept /\ DirOf(dev', Known) = DirOf(dev, Known)
    BY <1>5, InodesSpared DEF InodesKept
  <1>7. Indirected(Known, ino, t, Known')
    <2>1. /\ DOMAIN Known' = DOMAIN imap
          /\ \A i \in DOMAIN imap : Known'[i] = IF i \in DOMAIN work' THEN work'[i] ELSE dev'[imap[i]]
      BY <1>3 DEF Known, Nodes
    <2>2. DOMAIN work' = DOMAIN work /\ work'[ino] = [work[ino] EXCEPT !.ind = t]
          /\ \A i \in DOMAIN work : i # ino => work'[i] = work[i]
      BY <1>2, <1>3
    <2> QED
      BY <1>2, <1>6, <2>1, <2>2, KnownIs DEF InodesKept, Indirected
  <1>8. SamePtrs(Known, Known') /\ SameSizes(Known, Known', DOMAIN imap)
    BY <1>2, <1>7, GoodNow, IndirectKeeps
  <1>9. Moves
    <2>1. DirOf(dev, Known)' = DirOf(dev, Known)
      <3>1. Known'[Root].ptr = Known[Root].ptr
        BY <1>8, GoodNow, KnownIs DEF SamePtrs
      <3>2. DirOf(dev, Known)' = DirOf(dev', Known')
        BY DEF DirOf
      <3> QED
        BY <1>6, <3>1, <3>2 DEF DirOf
    <2>2. DOMAIN work' = DOMAIN work /\ \A i \in DOMAIN work : i # ino => work'[i] = work[i]
      BY <1>3
    <2>3. super'.next = super.next
      BY <1>4 DEF Moved
    <2> QED
      BY <1>1, <1>3, <2>1, <2>2, <2>3 DEF Moves, IsDirStep
  <1>10. FitsPass(Known, task, Known', task', DOMAIN imap, {})
    <2>1. SameShape(task, task')
      BY <1>1, <1>9, SameAfter, MovesFollow, NowFacts DEF Now
    <2> QED
      BY <1>8, <2>1, FitsSame
  <1>11. /\ Settled(task') /\ OnlyPends(task, ino)
    BY <1>1, <1>3, TailSettled DEF OnlyPends, Pends, Now
  <1>12. IsIndirect(dev'[t]) /\ Redirects(dev'[t], dev, Known, task, ino)
    <2>1. PICK p : p = ptr
      OBVIOUS
    <2>2. PICK b : b = IndirectBlock([p EXCEPT ![task[1].idx - DirectBlocks] = task[1].addr])
      OBVIOUS
    <2>3. IsIndirect(b) /\ Redirects(b, dev, Known, task, ino)
      <3>1. PendsFine(task) /\ Formed(dev, imap, Known)
        BY GoodNow DEF Good
      <3> QED
        BY <1>1, <1>2, <2>1, <2>2, <3>1, NewPointers DEF Now
    <2> QED
      BY <1>5, <2>1, <2>2, <2>3 DEF Now
  <1>13. MemoryGood'
    <2>1. Good(dev', imap, Known', task', summary')
      <3> HIDE DEF ino, t, ptr, block
      <3> QED
        BY <1>2, <1>5, <1>7, <1>10, <1>11, <1>12, GoodNow, GoodIndirect
    <2> QED
      BY <1>3, <2>1 DEF MemoryGood
  <1> QED
    BY <1>4, <1>5, <1>9, <1>13

\* A block beyond the new end is dropped.
LEMMA CutBlockGood ==
    ASSUME LInv, CutBlock
    PROVE  /\ MemoryGood' /\ DeviceSame /\ Moves /\ phase = "op"
           /\ LET old == GetBlockAddr(dev, Known[Now.ino], Now.idx)
              IN  \/ summary' = summary
                  \/ old # NoBlock /\ Struck(summary, {old}, summary')
           /\ UNCHANGED <<dev, sb, super, committed, phase, expected, dirty, overran, lost>>
  <1> DEFINE ino == Now.ino
             idx == Now.idx
             old == GetBlockAddr(dev, Known[ino], idx)
  <1>1. task # <<>> /\ Now.do = "cut" /\ phase = "op"
    BY NowFacts, PhaseOfStep DEF CutBlock, Due, Now
  <1>2. /\ ino \in DOMAIN imap /\ ino \in DOMAIN work /\ idx \in Idx
        /\ Known[ino] = work[ino]
    BY <1>1, OnInode
  <1>3. ino # Root /\ Now = CutStep(ino, idx)
    <2>1. StepFine(Now)
      BY <1>1, NowFacts
    <2> QED
      BY <1>1, <2>1 DEF StepFine
  <1>4. /\ UNCHANGED <<dev, super, imap, expected, dirty, overran, sb, committed, open, phase, lost>>
        /\ \/ old = NoBlock /\ task' = Tail(task) /\ summary' = summary /\ work' = work
           \/ /\ old # NoBlock /\ SetBlockAddr(work, ino, idx, NoBlock, Tail(task))
              /\ summary' = [a \in DOMAIN summary \ {old} |-> summary[a]]
    BY <1>2 DEF CutBlock, Keeps
  <1>5. DeviceSame
    BY <1>4, DeviceKept
  <1>6. Settled(task) /\ Settled(Tail(task)) /\ task \in Seq(Todo(task))
    BY <1>1, TailSettled, NowFacts DEF Settled, Now
  <1>7. CASE old = NoBlock /\ task' = Tail(task) /\ summary' = summary /\ work' = work
    <2>1. Known' = Known
      BY <1>4, <1>7 DEF Known
    <2>2. Moves
      BY <1>1, <1>4, <1>7, <2>1 DEF Moves, IsDirStep
    <2>3. FitsPass(Known, task, Known, task', DOMAIN imap, {<<ino, idx>>})
      <3>1. SameSizes(Known, Known, DOMAIN imap) /\ task[1] = CutStep(ino, idx)
        BY <1>3 DEF SameSizes, Now
      <3> HIDE DEF ino, idx
      <3> QED
        BY <1>1, <1>6, <2>2, <3>1, FitsCut, MovesFollow
    <2>4. Good(dev, imap, Known, task', summary)
      <3>1. \A i \in DOMAIN imap, k \in Idx :
                <<i, k>> \in {<<ino, idx>>} => GetBlockAddr(dev, Known[i], k) = NoBlock
        BY <1>7
      <3>2. PICK gone : gone = {<<ino, idx>>}
        OBVIOUS
      <3>3. FitsPass(Known, task, Known, task', DOMAIN imap, gone)
        BY <2>3, <3>2
      <3>4. Settled(task')
        BY <1>6, <1>7
      <3> HIDE DEF ino, idx
      <3> QED
        BY <1>6, <3>1, <3>2, <3>3, <3>4, GoodNow, GoodTodo
    <2> QED
      BY <1>1, <1>4, <1>5, <1>7, <2>1, <2>2, <2>4 DEF MemoryGood
  <1>8. CASE /\ old # NoBlock /\ SetBlockAddr(work, ino, idx, NoBlock, Tail(task))
             /\ summary' = [a \in DOMAIN summary \ {old} |-> summary[a]]
    <2>1. InodesKept /\ SetTo(work, ino, idx, NoBlock, Tail(task))
      BY <1>2, <1>4, <1>8, SetIs DEF InodesKept
    <2>2. Pointed(Known, ino, idx, NoBlock, Known', task')
      BY <1>1, <1>2, <1>4, <2>1, SetPointer, WorkIsCopies, TailSettled
    <2>3. Struck(summary, {old}, summary')
      BY <1>8 DEF Struck
    <2>4. Moves
      <3>1. DirOf(dev, Known)' = DirOf(dev, Known)
        <4>1. DirOf(dev', Known) = DirOf(dev, Known)
          BY <1>4
        <4> QED
          BY <1>2, <1>3, <2>2, <4>1, DirAfterPointer
      <3>2. \/ task' = Tail(task)
            \/ /\ Now.idx >= DirectBlocks
               /\ \E addr \in Addr : task' = <<IndirectStep(Now.ino, Now.idx, addr)>> \o Tail(task)
        <4>1. NoBlock \in Addr /\ DirectBlocks \in Nat /\ idx \in Nat
          BY <1>2, Sizes DEF Addr
        <4> QED
          BY <2>1, <4>1 DEF SetTo
      <3>3. /\ DOMAIN work' = DOMAIN work
            /\ \A i \in DOMAIN work : i = Now.ino \/ work'[i] = work[i]
        BY <2>1 DEF SetTo
      <3> QED
        BY <1>1, <1>4, <3>1, <3>2, <3>3 DEF Moves, IsDirStep
    <2>5. FitsPass(Known, task, Known', task', DOMAIN imap, {<<ino, idx>>})
      <3>1. SameSizes(Known, Known', DOMAIN imap) /\ task[1] = CutStep(ino, idx)
        BY <1>2, <1>3, <2>2, GoodNow, PointedSizes DEF Now
      <3> HIDE DEF ino, idx
      <3> QED
        BY <1>1, <1>6, <2>4, <3>1, FitsCut, MovesFollow
    <2>6. Good(dev, imap, Known', task', summary')
      <3>1. PICK o : o = old
        OBVIOUS
      <3>2. o = GetBlockAddr(dev, Known[ino], idx) /\ o # NoBlock /\ Struck(summary, {o}, summary')
        BY <1>8, <2>3, <3>1
      <3> HIDE DEF ino, idx, old
      <3> QED
        BY <1>2, <1>3, <1>6, <2>2, <2>5, <3>2, GoodNow, GoodCut
    <2>7. MemoryGood'
      BY <1>4, <2>6 DEF MemoryGood
    <2> QED
      BY <1>1, <1>4, <1>5, <1>8, <2>3, <2>4, <2>7
  <1> QED
    BY <1>4, <1>7, <1>8

\* The inode that is written is one, with the pointers it had.
LEMMA InodeNow ==
    ASSUME LInv, task # <<>>, Now.do = "inode", NEW inode, inode = [work[Now.ino] EXCEPT !.size = Now.size]
    PROVE  /\ Now.ino \in Nat \ {NoIno} /\ Now.ino \in DOMAIN work /\ Now.ino < super.next
           /\ IsNode(inode, Now.ino) /\ Carries(inode, Known, Now.ino) /\ inode.size = Now.size
  <1> DEFINE ino == Now.ino
             old == work[ino]
  <1>1. InodeFine(Now)
    BY NowFacts DEF StepFine
  <1>2. /\ ino \in DOMAIN work /\ ino \in Nat \ {NoIno} /\ ino < super.next
        /\ Now.size \in Nat /\ Blocks(ino, Now.size) <= MaxBlocks
        /\ ino \notin DOMAIN imap => old = NewInode(ino)
    BY <1>1 DEF InodeFine
  <1>3. old \in NodeOf(ino)
    <2>1. CASE ino \in DOMAIN imap
      BY <1>2, <2>1, GoodNow, KnownIs DEF Formed, IsNode
    <2>2. CASE ino \notin DOMAIN imap
      <3>1. NoPtrs(DirectBlocks) \in [0 .. (DirectBlocks - 1) -> Addr] /\ NoBlock \in Addr
        BY DEF NoPtrs, Addr
      <3> QED
        BY <1>2, <2>2, <3>1 DEF NewInode, NodeOf
    <2> QED
      BY <2>1, <2>2
  <1>4. /\ inode \in NodeOf(ino) /\ inode.size = Now.size
        /\ inode.ptr = old.ptr /\ inode.ind = old.ind
    BY <1>2, <1>3 DEF NodeOf
  <1>5. Carries(inode, Known, ino)
    <2>1. CASE ino \in DOMAIN imap
      BY <1>2, <1>4, <2>1, KnownIs DEF Carries
    <2>2. CASE ino \notin DOMAIN imap
      <3>1. old.ind = NoBlock /\ old.ptr = NoPtrs(DirectBlocks)
        BY <1>2, <2>2 DEF NewInode
      <3>2. \A k \in 0 .. (DirectBlocks - 1) : old.ptr[k] = NoBlock
        BY <3>1 DEF NoPtrs
      <3> QED
        BY <1>4, <2>2, <3>1, <3>2, KnownIs DEF Carries
    <2> QED
      BY <2>1, <2>2
  <1> QED
    BY <1>2, <1>4, <1>5 DEF IsNode

\* So does writing an inode.
LEMMA WriteInodeGood ==
    ASSUME LInv, ~overran', WriteInode
    PROVE  /\ MemoryGood' /\ DeviceSame /\ Moves /\ Now.ino < super.next
           /\ Wrote(Known'[Now.ino], Entry(Now.ino, 0, "inode"),
                    IF Now.ino \in DOMAIN imap THEN {imap[Now.ino]} ELSE {})
           /\ Moved(super.head, "inode")
           /\ imap'[Now.ino] = super.tail /\ \A i \in DOMAIN imap : i # Now.ino => imap'[i] = imap[i]
  <1> DEFINE ino == Now.ino
             t == super.tail
             inode == [work[ino] EXCEPT !.size = Now.size]
             old == IF ino \in DOMAIN imap THEN {imap[ino]} ELSE {}
  <1>1. task # <<>> /\ Now.do = "inode" /\ phase \in {"op", "flush"}
    BY NowFacts, PhaseOfStep DEF WriteInode, Due, Now
  <1>2. /\ ino \in Nat \ {NoIno} /\ ino \in DOMAIN work /\ ino < super.next
        /\ IsNode(inode, ino) /\ Carries(inode, Known, ino) /\ inode.size = Now.size
    <2>1. PICK n : n = inode
      OBVIOUS
    <2> QED
      BY <1>1, <2>1, InodeNow
  <1>3. /\ Put(inode, Entry(ino, 0, "inode"), old, super.head)
        /\ imap' = [i \in DOMAIN imap \cup {ino} |-> IF i = ino THEN t ELSE imap[i]]
        /\ work' = IF phase = "flush" THEN [i \in DOMAIN work \ {ino} |-> work[i]]
                   ELSE [work EXCEPT ![ino] = inode]
        /\ task' = Tail(task) /\ sb' = sb /\ open' = open /\ phase' = phase
    BY DEF WriteInode, Keeps
  <1>4. /\ Wrote(inode, Entry(ino, 0, "inode"), old) /\ DeviceSame
        /\ Moved(super.head, "inode")
    <2>1. super.head \in Log /\ Entry(ino, 0, "inode").type = "inode"
      BY RolesAre DEF LInv, Typed, Superblocks
    <2>2. PICK e, x, b : e = Entry(ino, 0, "inode") /\ x = old /\ b = inode
      OBVIOUS
    <2> HIDE DEF inode, old
    <2>3. Put(b, e, x, super.head)
      BY <1>3, <2>2
    <2>4. Wrote(b, e, x) /\ Moved(super.head, e.type) /\ DeviceSame
      BY <1>1, <1>3, <2>1, <2>3, PutFrame
    <2> QED
      BY <2>1, <2>2, <2>4
  <1>5. /\ t \in Log /\ t \notin DOMAIN summary /\ Apart(dev, t, dev') /\ dev'[t] = inode
        /\ Filed(summary, old, t, Entry(ino, 0, "inode"), summary')
    BY <1>4 DEF Wrote
  <1>6. InodesKept /\ DirOf(dev', Known) = DirOf(dev, Known)
    BY <1>5, InodesSpared DEF InodesKept
  <1>7. Filed(imap, {}, ino, t, imap')
    BY <1>3 DEF Filed
  <1>8. /\ DOMAIN work \ {ino} \subseteq DOMAIN work' /\ DOMAIN work' \subseteq DOMAIN work
        /\ \A i \in DOMAIN work' : i # ino => work'[i] = work[i]
        /\ ino \in DOMAIN work' => work'[ino] = inode
    BY <1>2, <1>3
  <1>9. Filed(Known, {}, ino, inode, Known')
    <2>1. /\ DOMAIN Known' = DOMAIN imap'
          /\ \A i \in DOMAIN imap' : Known'[i] = IF i \in DOMAIN work' THEN work'[i] ELSE dev'[imap'[i]]
      BY DEF Known, Nodes
    <2>2. DOMAIN imap' = DOMAIN imap \cup {ino} /\ imap'[ino] = t
          /\ \A i \in DOMAIN imap : i # ino => imap'[i] = imap[i]
      BY <1>7 DEF Filed
    <2>3. Known'[ino] = inode
      BY <1>5, <1>8, <2>1, <2>2
    <2>4. \A i \in DOMAIN imap : i # ino => Known'[i] = Known[i]
      BY <1>6, <1>8, <2>1, <2>2, KnownIs DEF InodesKept
    <2> HIDE DEF inode
    <2> QED
      BY <2>1, <2>2, <2>3, <2>4, KnownIs DEF Filed
  <1>10. Moves
    <2>1. DirOf(dev, Known)' = DirOf(dev, Known)
      <3>1. Known'[Root].ptr = Known[Root].ptr
        <4>1. CASE ino = Root
          BY <1>2, <1>9, <4>1, GoodNow, KnownIs DEF Carries, Filed
        <4>2. CASE ino # Root
          BY <1>9, <4>2, GoodNow, KnownIs DEF Filed
        <4> QED
          BY <4>1, <4>2
      <3>2. DirOf(dev, Known)' = DirOf(dev', Known')
        BY DEF DirOf
      <3> QED
        BY <1>6, <3>1, <3>2 DEF DirOf
    <2>2. super'.next = super.next
      BY <1>4 DEF Moved
    <2>3. DOMAIN imap' = DOMAIN imap \cup {ino}
      BY <1>7 DEF Filed
    <2>4. \A i \in DOMAIN work : i # ino => work'[i] = work[i]
      BY <1>8
    <2> QED
      BY <1>1, <1>3, <1>8, <2>1, <2>2, <2>3, <2>4 DEF Moves, IsDirStep
  <1>11. FitsPass(Known, task, Known', task', DOMAIN imap, {})
    <2>1. Known'[task[1].ino].size = task[1].size /\ task[1].do = "inode"
      BY <1>1, <1>2, <1>9, KnownIs DEF Now, Filed
    <2>2. SameSizes(Known, Known', DOMAIN imap \ {task[1].ino})
      BY <1>9, KnownIs DEF Now, Filed, SameSizes
    <2> QED
      BY <1>1, <1>3, <2>1, <2>2, FitsInode, NowFacts
  <1>12. Settled(task) /\ Settled(task')
    BY <1>1, <1>3, TailSettled DEF Settled, Now
  <1>13. MemoryGood'
    <2>1. PICK n : n = inode
      OBVIOUS
    <2>2. IsNode(n, ino) /\ Carries(n, Known, ino) /\ Filed(Known, {}, ino, n, Known')
      BY <1>2, <1>9, <2>1
    <2>3. Filed(summary, IF ino \in DOMAIN imap THEN {imap[ino]} ELSE {}, t,
                Entry(ino, 0, "inode"), summary')
      BY <1>5
    <2>4. Good(dev', imap', Known', task', summary')
      <3> HIDE DEF ino, t, inode, old
      <3> QED
        BY <1>2, <1>5, <1>7, <1>11, <1>12, <2>2, <2>3, GoodNow, GoodInode
    <2> QED
      BY <2>4 DEF MemoryGood
  <1>14. Known'[ino] = inode
    BY <1>9, KnownIs DEF Filed
  <1>15. imap'[ino] = t /\ \A i \in DOMAIN imap : i # ino => imap'[i] = imap[i]
    BY <1>7 DEF Filed
  <1> QED
    BY <1>2, <1>4, <1>10, <1>13, <1>14, <1>15

\* Steps that change neither blocks nor inodes.
LEMMA TailGood ==
    ASSUME LInv, task # <<>>, Now.do \notin {"cut", "inode", "indirect"}
    PROVE  Good(dev, imap, Known, Tail(task), summary)
  <1>1. Settled(task) /\ Settled(Tail(task)) /\ task \in Seq(Todo(task))
    BY TailSettled, NowFacts DEF Settled, Now
  <1>2. Follows(task, Tail(task))
    <2>1. Todo(Tail(task)) = Todo(Tail(task)) \cup {}
      OBVIOUS
    <2> QED
      BY <2>1 DEF Follows
  <1>3. SameShape(task, Tail(task))
    BY <1>1, <1>2, SameAfter DEF Now
  <1>4. FitsPass(Known, task, Known, Tail(task), DOMAIN imap, {})
    BY <1>3, FitsSame DEF SameSizes
  <1> QED
    BY <1>1, <1>4, GoodNow, GoodTodo

\* So does noting an inode as unlinked.
LEMMA MarkUnlinkedGood ==
    ASSUME LInv, MarkUnlinked
    PROVE  MemoryGood' /\ DeviceSame /\ Moves
  <1>1. task # <<>> /\ Now.do = "unlink" /\ task' = Tail(task)
        /\ UNCHANGED <<dev, sb, super, imap, summary, open, phase, work>>
    BY DEF MarkUnlinked, Due, Now
  <1>2. Known' = Known
    BY <1>1 DEF Known
  <1>3. MemoryGood'
    BY <1>1, <1>2, TailGood DEF MemoryGood
  <1>4. DeviceSame
    BY <1>1, DeviceKept
  <1> QED
    BY <1>1, <1>2, <1>3, <1>4 DEF Moves, IsDirStep

\* So does the early superblock of a creation.
LEMMA WriteSuperblockGood ==
    ASSUME LInv, WriteSuperblock
    PROVE  MemoryGood' /\ DeviceSame /\ Moves /\ super.map = sb.map
  <1>1. task # <<>> /\ Now.do = "superblock" /\ task' = Tail(task) /\ sb' = super
        /\ UNCHANGED <<dev, super, imap, summary, open, phase, work>>
    BY DEF WriteSuperblock, Due, Now, memory
  <1>2. Known' = Known
    BY <1>1 DEF Known
  <1>3. MemoryGood'
    BY <1>1, <1>2, TailGood DEF MemoryGood
  <1>4. super.map = sb.map
    BY <1>1 DEF LInv, MapWritten, Now
  <1>5. DeviceSame
    BY <1>1, <1>4, DeviceKept
  <1> QED
    BY <1>1, <1>2, <1>3, <1>4, <1>5 DEF Moves, IsDirStep

\* So does writing the inode map.
LEMMA WriteMapGood ==
    ASSUME LInv, ~overran', WriteMap
    PROVE  /\ MemoryGood' /\ DeviceSame /\ Moves
           /\ Wrote(MapBlock(imap), Entry(NoIno, 0, "map"), {})
           /\ Moved(super.head, "map")
  <1> DEFINE t == super.tail
  <1>1. task # <<>> /\ Now.do = "map" /\ phase \in {"op", "close", "flush"}
    BY NowFacts, PhaseOfStep DEF WriteMap, Due, Now
  <1>2. /\ Put(MapBlock(imap), Entry(NoIno, 0, "map"), {}, super.head)
        /\ task' = Tail(task)
        /\ UNCHANGED <<imap, work, sb, open, phase>>
    BY DEF WriteMap, Keeps
  <1>3. /\ Wrote(MapBlock(imap), Entry(NoIno, 0, "map"), {}) /\ DeviceSame
        /\ Moved(super.head, "map")
    <2>1. super.head \in Log /\ Entry(NoIno, 0, "map").type = "map"
      BY RolesAre DEF LInv, Typed, Superblocks
    <2>2. PICK e, x, b : e = Entry(NoIno, 0, "map") /\ x = {} /\ b = MapBlock(imap)
      OBVIOUS
    <2>3. Put(b, e, x, super.head)
      BY <1>2, <2>2
    <2>4. Wrote(b, e, x) /\ Moved(super.head, e.type) /\ DeviceSame
      BY <1>1, <1>2, <2>1, <2>3, PutFrame
    <2> QED
      BY <2>1, <2>2, <2>4
  <1>4. /\ t \in Log /\ t \notin DOMAIN summary /\ Apart(dev, t, dev')
        /\ Filed(summary, {}, t, Entry(NoIno, 0, "map"), summary')
    BY <1>3 DEF Wrote
  <1>5. InodesKept /\ DirOf(dev', Known) = DirOf(dev, Known)
    BY <1>4, InodesSpared DEF InodesKept
  <1>6. Known' = Known
    <2>1. /\ Known' = [i \in DOMAIN imap |-> IF i \in DOMAIN work THEN work[i] ELSE dev'[imap[i]]]
          /\ Known = [i \in DOMAIN imap |-> IF i \in DOMAIN work THEN work[i] ELSE dev[imap[i]]]
      BY <1>2 DEF Known, Nodes
    <2> QED
      BY <1>5, <2>1 DEF InodesKept
  <1>7. Good(dev', imap, Known, Tail(task), summary')
    <2>1. Good(dev, imap, Known, Tail(task), summary)
      BY <1>1, TailGood
    <2>2. PICK r : r = Entry(NoIno, 0, "map")
      OBVIOUS
    <2>3. r.type = "map" /\ Filed(summary, {}, t, r, summary')
      BY <1>4, <2>2, RolesAre
    <2> HIDE DEF t
    <2> QED
      BY <1>4, <2>1, <2>3, GoodMap
  <1>8. MemoryGood'
    BY <1>2, <1>6, <1>7 DEF MemoryGood
  <1>9. Moves
    <2>1. DirOf(dev, Known)' = DirOf(dev, Known)
      <3>1. DirOf(dev, Known)' = DirOf(dev', Known')
        BY DEF DirOf
      <3> QED
        BY <1>5, <1>6, <3>1
    <2>2. super'.next = super.next
      BY <1>3 DEF Moved
    <2> QED
      BY <1>1, <1>2, <2>1, <2>2 DEF Moves, IsDirStep
  <1> QED
    BY <1>3, <1>8, <1>9

\* What a step that frees an inode finds.
LEMMA FreeNow ==
    ASSUME LInv, task # <<>>, Now.do = "free"
    PROVE  /\ Now.ino \in DOMAIN imap /\ Now.ino # Root /\ Now.ino \notin OpenInos
           /\ Known[Now.ino] = ReadInode(Now.ino)
           /\ \A s \in Todo(Tail(task)) : s.do \in {"map", "end"} /\ s.ino = NoIno
           /\ \A n \in DOMAIN DirOf(dev, Known) : DirOf(dev, Known)[n] # Now.ino
           /\ \A idx \in Idx : Fits(Known, task, Now.ino, idx) => idx < NumBlocks(Known[Now.ino])
           /\ phase \in {"op", "close"}
  <1> DEFINE ino == Now.ino
  <1>1. /\ StepFine(Now) /\ \A s \in Todo(Tail(task)) : Before(Now, s)
        /\ Todo(task) = {Now} \cup Todo(Tail(task)) /\ Now \in Todo(task)
    BY NowFacts
  <1>2. /\ ino \in DOMAIN imap /\ ino # Root /\ ino \notin OpenInos
        /\ Unnamed(ino)
    BY <1>1 DEF StepFine
  <1>3. \A s \in Todo(Tail(task)) : s.do \in {"map", "end"} /\ s.ino = NoIno
    BY <1>1 DEF Before
  <1>4. \A s \in Todo(task) : s.do \in {"free", "map", "end"}
    BY <1>1, <1>3
  <1>5. \A i : ~InodePending(task, i)
    BY <1>4 DEF InodePending
  <1>6. phase \in {"op", "close"}
    BY <1>1, PhaseOfStep
  <1>7. Known[ino] = ReadInode(ino)
    <2>1. ino \in DOMAIN work => work[ino] = dev[imap[ino]]
      BY <1>2, <1>5, <1>6 DEF LInv, Held, CleanPhases
    <2> QED
      BY <1>2, <2>1, KnownIs DEF ReadInode
  <1>8. \A n \in DOMAIN DirOf(dev, Known) : DirOf(dev, Known)[n] # ino
    <2>1. \A s \in Todo(task) : ~IsDirStep(s)
      BY <1>4 DEF IsDirStep
    <2> QED
      BY <1>2, <2>1 DEF Unnamed
  <1>9. ASSUME NEW idx \in Idx, Fits(Known, task, ino, idx) PROVE idx < NumBlocks(Known[ino])
    <2>1. CutStep(ino, idx) \notin Todo(task)
      BY <1>4 DEF CutStep
    <2>2. idx < Blocks(ino, Known[ino].size)
      BY <1>4, <1>9, <2>1 DEF Fits
    <2>3. IsNode(Known[ino], ino)
      BY <1>2, GoodNow DEF Formed
    <2> QED
      BY <2>2, <2>3, NumBlocksIs
  <1> QED
    BY <1>2, <1>3, <1>6, <1>7, <1>8, <1>9

\* So does freeing an inode: its blocks leave the summary, and it leaves the map.
LEMMA FreeInodeGood ==
    ASSUME LInv, FreeInode
    PROVE  /\ MemoryGood' /\ DeviceSame /\ Moves /\ phase \in {"op", "close"}
           /\ Struck(summary, BlocksOf(dev, Known[Now.ino], imap[Now.ino]), summary')
           /\ Struck(imap, {Now.ino}, imap')
           /\ UNCHANGED <<dev, sb, super, committed, phase, work, expected, dirty, overran, lost>>
  <1> DEFINE ino == Now.ino
  <1>1. task # <<>> /\ Now.do = "free" /\ task' = Tail(task)
        /\ UNCHANGED <<dev, sb, super, committed, open, phase, work, expected, dirty, overran, lost>>
        /\ Now = task[1]
    BY DEF FreeInode, Due, Now, Keeps
  <1>2. /\ ino \in DOMAIN imap /\ ino # Root
        /\ Known[ino] = ReadInode(ino)
        /\ \A s \in Todo(Tail(task)) : s.do \in {"map", "end"}
        /\ \A n \in DOMAIN DirOf(dev, Known) : DirOf(dev, Known)[n] # ino
        /\ \A idx \in Idx : Fits(Known, task, ino, idx) => idx < NumBlocks(Known[ino])
        /\ phase \in {"op", "close"}
    BY <1>1, FreeNow
  <1>3. Struck(summary, BlocksOf(dev, Known[ino], imap[ino]), summary')
    <2>1. summary' = [a \in DOMAIN summary \ BlocksOf(dev, ReadInode(ino), imap[ino]) |-> summary[a]]
      <3>1. BlocksOf(dev, ReadInode(ino), imap[ino])
              = {GetBlockAddr(dev, ReadInode(ino), idx) : idx \in 0 .. (NumBlocks(ReadInode(ino)) - 1)}
                  \cup {ReadInode(ino).ind, imap[ino]}
        BY DEF BlocksOf
      <3>2. summary' = [a \in DOMAIN summary \
                          ({GetBlockAddr(dev, ReadInode(ino), idx) :
                              idx \in 0 .. (NumBlocks(ReadInode(ino)) - 1)}
                            \cup {ReadInode(ino).ind, imap[ino]}) |-> summary[a]]
        BY DEF FreeInode
      <3> QED
        BY <3>1, <3>2
    <2>2. PICK gone : gone = BlocksOf(dev, ReadInode(ino), imap[ino])
      OBVIOUS
    <2>3. summary' = [a \in DOMAIN summary \ gone |-> summary[a]]
      BY <2>1, <2>2
    <2>4. Struck(summary, gone, summary')
      BY <2>3 DEF Struck
    <2> QED
      BY <1>2, <2>2, <2>4
  <1>4. Struck(imap, {ino}, imap')
    BY DEF FreeInode, Struck
  <1>5. Struck(Known, {ino}, Known')
    <2>1. /\ DOMAIN Known' = DOMAIN imap'
          /\ \A i \in DOMAIN imap' : Known'[i] = IF i \in DOMAIN work THEN work[i] ELSE dev[imap'[i]]
      BY <1>1 DEF Known, Nodes
    <2> QED
      BY <1>4, <2>1, KnownIs DEF Struck
  <1>6. Moves
    <2>1. DirOf(dev, Known)' = DirOf(dev, Known)
      <3>1. Known'[Root] = Known[Root]
        BY <1>2, <1>5, GoodNow, KnownIs DEF Struck
      <3> QED
        BY <1>1, <3>1 DEF DirOf
    <2>2. DOMAIN imap' = DOMAIN imap \ {ino}
      BY <1>4 DEF Struck
    <2> QED
      BY <1>1, <2>1, <2>2 DEF Moves, IsDirStep
  <1>7. Settled(task) /\ Settled(task')
    BY <1>1, TailSettled DEF Settled
  <1>8. FitsPass(Known, task, Known', task', DOMAIN imap', {})
    <2>1. SameShape(task, task')
      BY <1>1, <1>6, SameAfter, MovesFollow, NowFacts
    <2>2. SameSizes(Known, Known', DOMAIN imap')
      BY <1>4, <1>5, KnownIs DEF Struck, SameSizes
    <2> QED
      BY <2>1, <2>2, FitsSame
  <1>9. MemoryGood'
    <2>1. Good(dev, imap', Known', task', summary')
      <3> HIDE DEF ino
      <3> QED
        BY <1>2, <1>3, <1>4, <1>5, <1>7, <1>8, GoodNow, GoodFree
    <2> QED
      BY <1>1, <2>1 DEF MemoryGood
  <1>10. DeviceSame
    BY <1>1, DeviceKept
  <1> QED
    BY <1>1, <1>2, <1>3, <1>4, <1>6, <1>9, <1>10

-----------------------------------------------------------------------------
(* The plan, after a step *)

\* What was to be done remains to be done.
LEMMA StillPending ==
    ASSUME LInv, Moves, NEW ino, InodePending(task, ino), ~(Now.do = "inode" /\ Now.ino = ino)
    PROVE  InodePending(task', ino)
  <1>1. PICK s \in Todo(task) : s.do = "inode" /\ s.ino = ino
    BY DEF InodePending
  <1>2. s \in Todo(Tail(task))
    BY <1>1, NowFacts DEF Moves
  <1> QED
    BY <1>1, <1>2, MovesFollow DEF Follows, InodePending

\* An inode without a name gets none from a step.
LEMMA StillUnnamed ==
    ASSUME LInv, Moves, NEW ino, Unnamed(ino)
    PROVE  Unnamed(ino)'
  <1> DEFINE D == DirOf(dev, Known)
  <1>1. \A s : IsDirStep(s) => (s \in Todo(task') => s \in Todo(task))
        /\ (s \in Todo(task) => s \in Todo(task') \/ s = Now)
    BY NowFacts, MovesFollow DEF Moves, Follows, IsDirStep
  <1>2. D' = IF IsDirStep(Now) THEN Now.block.entries ELSE D
    BY DEF Moves
  <1>3. Now \in Todo(task)
    BY NowFacts DEF Moves
  <1>4. \A s \in Todo(task') : IsDirStep(s) => \A n \in DOMAIN s.block.entries : s.block.entries[n] # ino
    BY <1>1 DEF Unnamed
  <1>5. ASSUME \A s \in Todo(task') : ~IsDirStep(s)
        PROVE  \A n \in DOMAIN D' : D'[n] # ino
    <2>1. CASE IsDirStep(Now)
      BY <1>2, <1>3, <2>1 DEF Unnamed
    <2>2. CASE ~IsDirStep(Now)
      <3>1. \A s \in Todo(task) : ~IsDirStep(s)
        BY <1>1, <1>5, <2>2
      <3> QED
        BY <1>2, <2>2, <3>1 DEF Unnamed
    <2> QED
      BY <2>1, <2>2
  <1> HIDE DEF D
  <1>6. (\A s \in Todo(task') : IsDirStep(s) => \A n \in DOMAIN s.block.entries : s.block.entries[n] # ino)
        /\ ((\A s \in Todo(task') : ~IsDirStep(s)) => \A n \in DOMAIN D' : D'[n] # ino)
    BY <1>4, <1>5
  <1> QED
    BY <1>6 DEF Unnamed, D

\* The steps left are still in order.
LEMMA StillOrdered ==
    ASSUME LInv, Moves
    PROVE  /\ task' \in Seq(Todo(task')) /\ Ordered(task')
           /\ \A s \in Todo(task') :
                 \/ s \in Todo(Tail(task))
                 \/ /\ Now.do \in {"data", "cut"} /\ s.do = "indirect"
                    /\ s.ino = Now.ino /\ s.idx = Now.idx
           /\ Todo(Tail(task)) \subseteq Todo(task')
           /\ Now.do \notin {"data", "cut"} => task' = Tail(task)
  <1> DEFINE u == Tail(task)
  <1>1. u \in Seq(Todo(u)) /\ Ordered(u) /\ \A s \in Todo(u) : Before(Now, s)
    <2>1. task # <<>> /\ task \in Seq(Todo(task)) /\ Ordered(task)
      BY NowFacts DEF Moves
    <2> QED
      BY <2>1, TailTodo, OrderedTail, NowFacts
  <1>2. CASE task' = u
    <2> HIDE DEF u
    <2> QED
      BY <1>1, <1>2 DEF u
  <1>3. CASE /\ Now.do \in {"data", "cut"} /\ Now.idx >= DirectBlocks
             /\ \E addr \in Addr : task' = <<IndirectStep(Now.ino, Now.idx, addr)>> \o u
    <2>1. PICK addr \in Addr : task' = <<IndirectStep(Now.ino, Now.idx, addr)>> \o u
      BY <1>3
    <2> DEFINE s == IndirectStep(Now.ino, Now.idx, addr)
    <2>2. s.do = "indirect" /\ s.ino = Now.ino /\ s.idx = Now.idx
      BY DEF IndirectStep
    <2>3. \A b \in Todo(u) : b.do # "unlink"
      <3> SUFFICES ASSUME NEW b \in Todo(u), b.do = "unlink" PROVE FALSE
        OBVIOUS
      <3>1. Now.do = "data" /\ Now.ino = Root
        BY <1>1, <1>3 DEF Before
      <3>2. Now.idx = 0
        BY <3>1, DirStepNow DEF Moves
      <3> QED
        BY <1>3, <3>2, Sizes
    <2>4. \A b \in Todo(u) : Before(s, b)
      BY <1>1, <2>2, <2>3 DEF Before
    <2> HIDE DEF s, u
    <2>5. task' = <<s>> \o u
      BY <2>1 DEF s, u
    <2>6. task' \in Seq(Todo(task')) /\ Todo(task') = {s} \cup Todo(u)
      BY <1>1, <2>5, ConsTodo
    <2>7. Ordered(task')
      BY <1>1, <2>4, <2>5, OrderedCons
    <2> QED
      BY <1>3, <2>2, <2>6, <2>7 DEF u
  <1> QED
    BY <1>2, <1>3 DEF Moves

\* So is each of them.
LEMMA StillFine ==
    ASSUME LInv, Moves, NEW s \in Todo(Tail(task))
    PROVE  StepFine(s)'
  <1>1. /\ Before(Now, s) /\ StepFine(s) /\ s \in Todo(task) /\ StepFine(Now)
        /\ Todo(task) = {Now} \cup Todo(Tail(task))
    BY NowFacts DEF Moves
  <1>2. CASE Now.do = "free"
    <2>1. s.do \in {"map", "end"} /\ s.ino = NoIno
      BY <1>1, <1>2 DEF Before
    <2> QED
      BY <2>1 DEF StepFine
  <1>3. CASE Now.do # "free"
    <2>1. DOMAIN imap \subseteq DOMAIN imap'
      BY <1>3 DEF Moves
    <2>2. Now.do = "inode" => Now.ino \in DOMAIN imap'
      BY DEF Moves
    <2>3. \A i : InodePending(task, i) => InodePending(task', i) \/ i \in DOMAIN imap'
      BY <2>2, StillPending
    <2>4. s.do \in {"data", "cut", "indirect"} => s.do # "indirect" /\ ~(Now.do = "inode" /\ Now.ino = s.ino)
      BY <1>1 DEF Before
    <2>5. s.do = "inode" => ~(Now.do = "inode" /\ Now.ino = s.ino)
      BY <1>1 DEF Before
    <2>6. \A i \in DOMAIN work : ~(Now.do = "inode" /\ Now.ino = i) => i \in DOMAIN work'
      BY DEF Moves
    <2>7. OpenInos' = OpenInos /\ FreeFds' = FreeFds /\ phase' = phase /\ super'.next = super.next
      BY DEF Moves, OpenInos, FreeFds
    <2>8. s.do \in {"data", "cut", "indirect"} =>
              /\ s.ino \in DOMAIN imap' /\ s.ino \in DOMAIN work' /\ s.idx \in Idx
              /\ phase' = "op" => InodePending(task', s.ino)
      BY <1>1, <2>1, <2>4, <2>6, <2>7, StillPending DEF StepFine
    <2>9. s.do = "data" => DataFine(s)'
      <3> SUFFICES ASSUME s.do = "data" PROVE DataFine(s)'
        OBVIOUS
      <3>1. PICK t \in Todo(task) : t.do = "inode" /\ t.ino = s.ino /\ s.idx < Blocks(s.ino, t.size)
        BY <1>1 DEF StepFine, DataFine
      <3>2. t \in Todo(task')
        BY <1>1, <2>4, <3>1, StillOrdered
      <3>3. s.ino = Root => DirStepFine(s)'
        <4> SUFFICES ASSUME s.ino = Root PROVE DirStepFine(s)'
          OBVIOUS
        <4>1. DirStepFine(s)
          BY <1>1 DEF StepFine, DataFine
        <4>2. DOMAIN imap \cup {i \in Nat : InodePending(task, i)}
                \subseteq DOMAIN imap' \cup {i \in Nat : InodePending(task', i)}
          BY <2>1, <2>3
        <4>3. EntriesFine(s.block.entries, DOMAIN imap' \cup {i \in Nat : InodePending(task', i)})
          BY <4>1, <4>2 DEF DirStepFine, EntriesFine
        <4> QED
          BY <4>1, <4>3 DEF DirStepFine
      <3> QED
        BY <3>1, <3>2, <3>3 DEF DataFine
    <2>10. s.do = "cut" => s.ino # Root /\ s = CutStep(s.ino, s.idx)
      BY <1>1 DEF StepFine
    <2>11. s.do = "inode" => InodeFine(s)'
      <3> SUFFICES ASSUME s.do = "inode" PROVE InodeFine(s)'
        OBVIOUS
      <3>1. InodeFine(s)
        BY <1>1 DEF StepFine
      <3>2. s.ino \in DOMAIN work'
        BY <2>5, <2>6, <3>1 DEF InodeFine
      <3>3. ASSUME s.ino \notin DOMAIN imap' PROVE work'[s.ino] = NewInode(s.ino)
        <4>1. s.ino \notin DOMAIN imap /\ s.ino \in DOMAIN work /\ work[s.ino] = NewInode(s.ino)
          BY <2>1, <3>1, <3>3 DEF InodeFine
        <4>2. ~(Now.do \in {"data", "cut", "indirect"} /\ Now.ino = s.ino)
          BY <1>1, <4>1 DEF StepFine
        <4>3. work'[s.ino] = work[s.ino]
          BY <2>5, <4>1, <4>2 DEF Moves
        <4> QED
          BY <4>1, <4>3
      <3> QED
        BY <2>7, <3>1, <3>2, <3>3 DEF InodeFine
    <2>12. s.do \in {"free", "unlink"} => Unnamed(s.ino)'
      BY <1>1, StillUnnamed DEF StepFine
    <2>13. s.do = "unlink" => s.ino \in OpenInos'
      BY <1>1, <2>7 DEF StepFine
    <2>14. s.do = "free" => s.ino \in DOMAIN imap' \ {Root} /\ s.ino \notin OpenInos'
      BY <1>1, <2>1, <2>7 DEF StepFine
    <2>15. s.do = "end" /\ s.ino # NoIno =>
              /\ s.ino \in Nat \ {Root} /\ FreeFds' # {}
              /\ s.ino \in DOMAIN imap' \/ InodePending(task', s.ino)
      BY <1>1, <2>1, <2>3, <2>7 DEF StepFine
    <2> QED
      BY <2>8, <2>9, <2>10, <2>11, <2>12, <2>13, <2>14, <2>15 DEF StepFine
  <1> QED
    BY <1>2, <1>3

\* One step less, the plan is as good.
LEMMA PlanMoves ==
    ASSUME LInv, Moves, Now.do # "end"
    PROVE  Planned'
  <1> DEFINE u == Tail(task)
  <1>1. /\ task' \in Seq(Todo(task')) /\ Ordered(task')
        /\ \A s \in Todo(task') :
              \/ s \in Todo(u)
              \/ /\ Now.do \in {"data", "cut"} /\ s.do = "indirect"
                 /\ s.ino = Now.ino /\ s.idx = Now.idx
        /\ Todo(u) \subseteq Todo(task')
        /\ Now.do \notin {"data", "cut"} => task' = u
    BY StillOrdered
  <1>2. /\ Todo(task) = {Now} \cup Todo(u) /\ Now \in Todo(task) /\ StepFine(Now)
        /\ task # <<>> /\ phase' = phase /\ Now = task[1]
    BY NowFacts DEF Moves, Now
  <1>3. ASSUME NEW s \in Todo(task') PROVE StepFine(s)' /\ s.do \in StepsIn(phase')
    <2>1. CASE s \in Todo(u)
      <3>1. StepFine(s)'
        BY <2>1, StillFine
      <3>2. s.do \in StepsIn(phase)
        BY <1>2, <2>1 DEF LInv, Planned
      <3> QED
        BY <1>2, <3>1, <3>2
    <2>2. CASE /\ Now.do \in {"data", "cut"} /\ s.do = "indirect"
               /\ s.ino = Now.ino /\ s.idx = Now.idx
      <3>1. phase = "op"
        BY <1>2, <2>2, PhaseOfStep
      <3>2. s.do \in StepsIn(phase')
        BY <1>2, <2>2, <3>1 DEF StepsIn
      <3>3. /\ Now.ino \in DOMAIN imap /\ Now.ino \in DOMAIN work /\ Now.idx \in Idx
            /\ InodePending(task, Now.ino)
        BY <1>2, <2>2, <3>1 DEF StepFine
      <3>4. DOMAIN imap' = DOMAIN imap /\ DOMAIN work \subseteq DOMAIN work'
        BY <2>2 DEF Moves
      <3>5. InodePending(task', Now.ino)
        BY <2>2, <3>3, StillPending
      <3>6. StepFine(s)'
        BY <2>2, <3>3, <3>4, <3>5 DEF StepFine
      <3> QED
        BY <3>2, <3>6
    <2> QED
      BY <1>1, <2>1, <2>2
  <1>4. \A s : s.do \in {"map", "end"} =>
            /\ s \in Todo(task') => s \in Todo(task)
            /\ s \in Todo(task) /\ s # Now => s \in Todo(task')
    BY <1>1, <1>2
  <1>5. Ends' => Ends
    BY <1>4 DEF Ends
  <1>6. Ends => Ends'
    BY <1>4 DEF Ends
  <1>7. Ends' => task'[1].do = "end" \/ \E s \in Todo(task') : s.do = "map"
    <2> SUFFICES ASSUME Ends' PROVE task'[1].do = "end" \/ \E s \in Todo(task') : s.do = "map"
      OBVIOUS
    <2>1. PICK s \in Todo(task) : s.do = "map"
      BY <1>2, <1>5 DEF LInv, Planned
    <2>2. CASE s = Now
      <3>1. task' = u /\ u[1].do = "end"
        BY <1>1, <1>2, <2>1, <2>2, EndIsLast
      <3> QED
        BY <3>1
    <2>3. CASE s # Now
      BY <1>4, <2>1, <2>3
    <2> QED
      BY <2>2, <2>3
  <1>8. (\E s \in Todo(task') : s.do = "map") => Ends'
    BY <1>4, <1>6 DEF LInv, Planned
  <1>9. phase' \in {"op", "close"} => Ends'
    BY <1>2, <1>6 DEF LInv, Planned
  <1> QED
    BY <1>1, <1>3, <1>7, <1>8, <1>9 DEF Planned

\* What a step makes of the call's copies, of the cursors and of the device.
Lands ==
    /\ Now.do \in {"free", "map", "unlink", "superblock"} => work' = work
    /\ phase \in CleanPhases => DOMAIN work' \subseteq DOMAIN work
    /\ \A ino \in DOMAIN work' \cap DOMAIN imap' :
          \/ /\ ino \in DOMAIN work \cap DOMAIN imap
             /\ ~(Now.do = "inode" /\ Now.ino = ino)
             /\ work'[ino] = work[ino] /\ dev'[imap'[ino]] = dev[imap[ino]]
          \/ Now.do \in {"data", "cut", "indirect"} /\ ino = Now.ino
          \/ work'[ino] = dev'[imap'[ino]]
    /\ phase = "close" => \A ino \in DOMAIN imap' : imap'[ino] = imap[ino]
    /\ Now.do = "map" => dev'[super'.map] = MapBlock(imap')
    /\ Now.do # "map" => super'.map = super.map /\ sb'.map = sb.map
    /\ sb' = sb \/ sb' = super
    /\ Distance \in Nat
    /\ Now.do \in {"data", "indirect", "inode", "map"} => Distance' = Distance - 1
    /\ Now.do = "unlink" => Distance' = Distance
    /\ unlinked' = IF Now.do = "unlink" THEN unlinked \cup {Now.ino} ELSE unlinked
    /\ Typed' /\ DeviceSame /\ MemoryGood'

\* A step leaves the call's copies of inodes differing only where a step will write them.
LEMMA HeldMoves ==
    ASSUME LInv, Moves, Lands, Now.do # "end"
    PROVE  Held'
  <1>1. phase' = phase /\ Now \in Todo(task) /\ Held /\ StepFine(Now)
    BY NowFacts DEF Moves, LInv
  <1>2. phase' \in {"idle", "close"} => work' = <<>>
    <2> SUFFICES ASSUME phase \in {"idle", "close"} PROVE work' = <<>>
      BY <1>1
    <2>1. Now.do \in {"free", "map"}
      BY <1>1, PhaseOfStep, NowFacts DEF Moves
    <2> QED
      BY <1>1, <2>1 DEF Lands, Held
  <1>3. phase' \in CleanPhases => DOMAIN work' \subseteq DOMAIN imap'
    <2> SUFFICES ASSUME phase \in CleanPhases PROVE DOMAIN work' \subseteq DOMAIN imap'
      BY <1>1
    <2>1. DOMAIN work' \subseteq DOMAIN work /\ DOMAIN work \subseteq DOMAIN imap
      BY <1>1 DEF Lands, Held
    <2>2. Now.do # "free"
      BY <1>1, PhaseOfStep DEF CleanPhases
    <2>3. DOMAIN imap \subseteq DOMAIN imap'
      BY <2>2 DEF Moves
    <2> QED
      BY <2>1, <2>3
  <1>4. phase' = "flush" /\ Ends' => DOMAIN work' = {}
    <2> SUFFICES ASSUME phase = "flush", Ends' PROVE DOMAIN work' = {}
      BY <1>1
    <2>1. Ends
      <3>1. PICK s \in Todo(task') : s.do = "end"
        BY DEF Ends
      <3>2. s \in Todo(task)
        BY <3>1, StillOrdered, NowFacts DEF Moves
      <3> QED
        BY <3>1, <3>2 DEF Ends
    <2>2. DOMAIN work = {}
      BY <1>1, <2>1 DEF Held
    <2>3. DOMAIN work' \subseteq DOMAIN work
      BY DEF Lands, CleanPhases
    <2> QED
      BY <2>2, <2>3
  <1>5. ASSUME NEW ino \in DOMAIN work' \cap DOMAIN imap'
        PROVE  phase' \in CleanPhases \/ InodePending(task', ino) \/ work'[ino] = dev'[imap'[ino]]
    <2> SUFFICES ASSUME phase \notin CleanPhases, work'[ino] # dev'[imap'[ino]]
                 PROVE  InodePending(task', ino)
      BY <1>1
    <2>1. CASE /\ ino \in DOMAIN work \cap DOMAIN imap
               /\ ~(Now.do = "inode" /\ Now.ino = ino)
               /\ work'[ino] = work[ino] /\ dev'[imap'[ino]] = dev[imap[ino]]
      <3>1. InodePending(task, ino)
        BY <1>1, <2>1 DEF Held
      <3> QED
        BY <2>1, <3>1, StillPending
    <2>2. CASE Now.do \in {"data", "cut", "indirect"} /\ ino = Now.ino
      <3>1. phase = "op"
        BY <1>1, <2>2, PhaseOfStep DEF CleanPhases
      <3>2. InodePending(task, ino)
        BY <1>1, <2>2, <3>1 DEF StepFine
      <3> QED
        BY <2>2, <3>2, StillPending
    <2> QED
      BY <2>1, <2>2 DEF Lands
  <1> QED
    BY <1>2, <1>3, <1>4, <1>5 DEF Held

\* A step leaves the map of the superblock written, or to be written.
LEMMA MapMoves ==
    ASSUME LInv, Moves, Lands, Now.do # "end"
    PROVE  MapWritten'
  <1>1. task # <<>> /\ Now = task[1]
    BY DEF Moves, Now
  <1>2. CASE Now.do = "map"
    <2>1. task' = Tail(task) /\ Tail(task) # <<>> /\ Tail(task)[1].do = "end"
      BY <1>1, <1>2, EndIsLast, StillOrdered
    <2> QED
      BY <1>2, <2>1 DEF Lands, MapWritten
  <1>3. CASE Now.do # "map"
    <2>1. ~(task' # <<>> /\ task'[1].do = "end")
      <3>1. CASE task' = Tail(task)
        BY <1>1, <1>3, <3>1, EndIsLast
      <3>2. CASE \E addr \in Addr : task' = <<IndirectStep(Now.ino, Now.idx, addr)>> \o Tail(task)
        <4>1. PICK addr \in Addr : task' = <<IndirectStep(Now.ino, Now.idx, addr)>> \o Tail(task)
          BY <3>2
        <4>2. Tail(task) \in Seq(Todo(Tail(task)))
          BY <1>1, TailSettled
        <4>3. task'[1] = IndirectStep(Now.ino, Now.idx, addr)
          BY <4>1, <4>2, ConsTodo
        <4> QED
          BY <4>3 DEF IndirectStep
      <3> QED
        BY <3>1, <3>2 DEF Moves
    <2>2. super.map = sb.map
      BY <1>1 DEF LInv, MapWritten
    <2> QED
      BY <1>3, <2>1, <2>2 DEF Lands, MapWritten
  <1> QED
    BY <1>2, <1>3

\* A step leaves inode numbers below the next, and the open inodes in the map.
LEMMA NumbersMove ==
    ASSUME LInv, Moves, Lands
    PROVE  Numbered' /\ Synced' /\ OpenFine'
  <1>1. /\ task # <<>> /\ Now \in Todo(task) /\ StepFine(Now)
        /\ super'.next = super.next /\ phase' = phase /\ open' = open
        /\ DurableMap' = DurableMap /\ OpenInos' = OpenInos
    BY NowFacts DEF Moves, Lands, DeviceSame, OpenInos
  <1>2. /\ sb.next \in Nat /\ super.next \in Nat /\ sb'.next \in Nat
        /\ sb.next <= super.next /\ Root < sb.next
        /\ \A i \in DOMAIN imap : i < super.next
        /\ \A i \in DOMAIN DurableMap : i < sb.next
    BY DEF LInv, Numbered, Typed, Superblocks, Lands
  <1>3. DOMAIN imap' \subseteq DOMAIN imap \cup (IF Now.do = "inode" THEN {Now.ino} ELSE {})
    BY DEF Moves
  <1>4. Now.do = "inode" => Now.ino < super.next
    BY <1>1 DEF StepFine, InodeFine
  <1>5. Numbered'
    <2>1. sb'.next \in {sb.next, super.next}
      BY DEF Lands
    <2>2. sb'.next <= super'.next /\ Root < sb'.next
      BY <1>1, <1>2, <2>1 DEF Root
    <2>3. \A i \in DOMAIN imap' : i < super'.next
      BY <1>1, <1>2, <1>3, <1>4
    <2>4. \A i \in DOMAIN DurableMap' : i < sb'.next
      <3>1. DOMAIN DurableMap \subseteq Nat
        BY DEF LInv, DeviceGood, Good, Formed
      <3> QED
        BY <1>1, <1>2, <2>1, <3>1
    <2> QED
      BY <2>2, <2>3, <2>4 DEF Numbered
  <1>6. Synced'
    <2> SUFFICES ASSUME phase \in {"idle", "close"}, NEW i \in DOMAIN imap'
                 PROVE  i \in DOMAIN DurableMap /\ imap'[i] = DurableMap[i]
      BY <1>1 DEF Synced
    <2>1. phase = "close" /\ Now.do # "inode"
      BY <1>1, PhaseOfStep
    <2>2. i \in DOMAIN imap /\ imap'[i] = imap[i]
      BY <1>3, <2>1 DEF Lands
    <2> QED
      BY <2>1, <2>2 DEF LInv, Synced
  <1>7. OpenFine'
    <2>1. OpenFine
      BY DEF LInv
    <2>2. \A i \in OpenInos : i \in DOMAIN imap'
      <3>1. Now.do = "free" => Now.ino \notin OpenInos
        BY <1>1 DEF StepFine
      <3> QED
        BY <2>1, <3>1 DEF OpenFine, Moves
    <2> QED
      BY <1>1, <2>1, <2>2 DEF OpenFine
  <1> QED
    BY <1>5, <1>6, <1>7

\* A step leaves the unlinked inodes there.
LEMMA UnlinkedMoves ==
    ASSUME LInv, Moves, Lands, Now.do # "end"
    PROVE  UnlinkedFine'
  <1>1. /\ task # <<>> /\ Now \in Todo(task) /\ StepFine(Now)
        /\ Todo(task) = {Now} \cup Todo(Tail(task))
        /\ \A s \in Todo(Tail(task)) : Before(Now, s)
        /\ phase' = phase /\ OpenInos' = OpenInos
        /\ Now.do \in {"data", "cut", "indirect", "inode", "unlink", "free", "superblock",
                       "map", "end"}
        /\ task \in Seq(Todo(task))
    BY NowFacts DEF Moves, OpenInos
  <1>2. /\ unlinked \subseteq OpenInos
        /\ \A ino \in unlinked :
              /\ Unnamed(ino)
              /\ \/ Finishing
                 \/ \A n \in DOMAIN DirOf(dev, Stored) : DirOf(dev, Stored)[n] # ino
    BY DEF LInv, UnlinkedFine
  <1>3. DirOf(dev, Stored)' = DirOf(dev, Stored)
    BY DEF Lands, DeviceSame
  <1>4. Finishing => Finishing'
    <2> SUFFICES ASSUME Finishing PROVE Finishing'
      OBVIOUS
    <2>1. Now.do \in {"inode", "map"}
      BY <1>1 DEF Finishing
    <2>2. task' = Tail(task)
      BY <2>1, StillOrdered DEF Lands
    <2>3. \A s \in Todo(task') : s.do \in {"inode", "map", "end"}
      BY <1>1, <2>2 DEF Finishing
    <2> QED
      BY <1>1, <2>3 DEF Finishing
  <1>5. ASSUME Now.do = "unlink"
        PROVE  Now.ino \in OpenInos /\ Unnamed(Now.ino) /\ Finishing'
    <2>1. Now.ino \in OpenInos /\ Unnamed(Now.ino)
      BY <1>1, <1>5 DEF StepFine
    <2>2. phase = "op" /\ task' = Tail(task)
      BY <1>1, <1>5, PhaseOfStep, StillOrdered
    <2>3. \A s \in Todo(task') : s.do \in {"inode", "map", "end"}
      BY <1>1, <1>5, <2>2 DEF Before
    <2> QED
      BY <1>1, <2>1, <2>2, <2>3 DEF Finishing
  <1>6. unlinked' = IF Now.do = "unlink" THEN unlinked \cup {Now.ino} ELSE unlinked
    BY DEF Lands
  <1>7. unlinked' \subseteq OpenInos'
    BY <1>1, <1>2, <1>5, <1>6
  <1>8. ASSUME NEW ino \in unlinked'
         PROVE  /\ Unnamed(ino)'
                /\ \/ Finishing'
                   \/ \A n \in DOMAIN DirOf(dev, Stored)' : DirOf(dev, Stored)'[n] # ino
    <2>1. CASE ino \in unlinked
      BY <1>2, <1>3, <1>4, <2>1, StillUnnamed
    <2>2. CASE ino \notin unlinked
      BY <1>5, <1>6, <2>2, StillUnnamed
    <2> QED
      BY <2>1, <2>2
  <1> QED
    BY <1>7, <1>8 DEF UnlinkedFine

-----------------------------------------------------------------------------
(* The cursors *)

\* allocate_block looks at the distance alone: head and tail never meet.
LEMMA Room ==
    ASSUME LInv
    PROVE  /\ super.head \in Log /\ super.tail \in Log /\ super.head # super.tail
           /\ Distance \in Nat /\ Distance >= W!Reserved
           /\ W!Reserved \in Nat /\ W!Reserved >= 1
           /\ HasSpace <=> Distance > W!Reserved
  <1>1. W!TypeOK /\ W!ReserveKept
    BY DEF LInv, W!IInv
  <1>2. super.head \in Log /\ super.tail \in Log
    BY <1>1, LogIsLog DEF W!TypeOK
  <1>3. Distance >= W!Reserved
    <2> DEFINE c == [head |-> super.head, tail |-> super.tail]
    <2>1. W!LogDistance(c.tail, c.head) >= W!Reserved
      BY <1>1 DEF W!ReserveKept
    <2>2. c.tail = super.tail /\ c.head = super.head
      OBVIOUS
    <2> QED
      BY <2>1, <2>2 DEF Distance
  <1>4. W!Reserved \in Nat /\ W!Reserved >= 1
    BY LogFits, W!Fractions
  <1>5. Distance \in Nat /\ (Distance = 0 <=> super.tail = super.head)
    BY <1>2, LogFits, LogIsLog, W!DistanceRange DEF Distance
  <1>6. super.head # super.tail
    BY <1>3, <1>4, <1>5
  <1>7. HasSpace <=> Distance > W!Reserved
    <2>1. HasSpace = W!HasSpace
      BY SameWindow DEF HasSpace
    <2> QED
      BY <1>6, <2>1 DEF W!HasSpace, W!FreeSpace, Distance
  <1> QED
    BY <1>2, <1>3, <1>4, <1>5, <1>6, <1>7

\* A write takes one block.
LEMMA DistanceDrops ==
    ASSUME LInv, HasSpace, super'.head = super.head, super'.tail = W!NextBlock(super.tail)
    PROVE  Distance' = Distance - 1
  <1>1. super.head \in W!Log /\ super.tail \in W!Log /\ W!LogDistance(super.tail, super.head) > 1
    BY Room, LogIsLog DEF Distance
  <1>2. W!LogDistance(W!NextBlock(super.tail), super.head)
          = W!LogDistance(super.tail, super.head) - 1
    BY <1>1, LogFits, W!TailStep
  <1>3. Distance' = W!LogDistance(super'.tail, super'.head)
    BY DEF Distance, W!LogDistance
  <1> QED
    BY <1>2, <1>3 DEF Distance

\* The map is written last.
LEMMA NoEndYet ==
    ASSUME LInv, Moves, Now.do \notin {"map", "end"}
    PROVE  ~(task' # <<>> /\ task'[1].do = "end")
  <1>1. task # <<>> /\ Now = task[1]
    BY DEF Moves, Now
  <1>2. CASE task' = Tail(task)
    BY <1>1, <1>2, EndIsLast
  <1>3. CASE \E addr \in Addr : task' = <<IndirectStep(Now.ino, Now.idx, addr)>> \o Tail(task)
    <2>1. PICK addr \in Addr : task' = <<IndirectStep(Now.ino, Now.idx, addr)>> \o Tail(task)
      BY <1>3
    <2>2. Tail(task) \in Seq(Todo(Tail(task)))
      BY <1>1, TailSettled
    <2>3. task'[1] = IndirectStep(Now.ino, Now.idx, addr)
      BY <2>1, <2>2, ConsTodo
    <2> QED
      BY <2>3 DEF IndirectStep
  <1> QED
    BY <1>2, <1>3 DEF Moves

\* Before the inode map is written, no new map is in the log.
LEMMA NoChain ==
    ASSUME LInv, Moves, Now.do \notin {"map", "end"}
    PROVE  Chain = {} /\ Chain' = {}
  BY NoEndYet DEF Chain, Moves, Now

\* The blocks of files and of maps, in a summary that gained one entry.
LEMMA FiledBlocks ==
    ASSUME NEW dead, NEW t, NEW r, Filed(summary, dead, t, r, summary'), t \notin DOMAIN summary
    PROVE  /\ r.type # "map" => /\ FileBlocks' = (FileBlocks \ dead) \cup {t}
                                /\ MapBlocks' = MapBlocks \ dead
           /\ r.type = "map" => /\ FileBlocks' = FileBlocks \ dead
                                /\ MapBlocks' = (MapBlocks \ dead) \cup {t}
  BY DEF Filed, FileBlocks, MapBlocks

\* Blocks struck from the summary are file blocks and map blocks no more.
LEMMA StruckBlocks ==
    ASSUME NEW dead, Struck(summary, dead, summary')
    PROVE  FileBlocks' = FileBlocks \ dead /\ MapBlocks' = MapBlocks \ dead
  BY DEF Struck, FileBlocks, MapBlocks

\* A block that leaves the summary is a block of a file.
OldFine(a) == a \in FileBlocks \/ a \notin DOMAIN summary

\* Whatever an inode leads to is in the summary.
LEMMA InSummary ==
    ASSUME LInv
    PROVE  /\ DOMAIN summary \subseteq Log /\ NoBlock \notin DOMAIN summary
           /\ \A ino \in DOMAIN imap :
                 /\ imap[ino] \in FileBlocks
                 /\ OldFine(Known[ino].ind)
                 /\ \A idx \in Idx : /\ OldFine(Pointer(dev, Known, task, ino, idx))
                                     /\ task = <<>> \/ task[1].do # "indirect"
                                          => OldFine(GetBlockAddr(dev, Known[ino], idx))
  <1> DEFINE P == Places(dev, imap, Known, task)
  <1>1. DOMAIN summary \subseteq Log
    <2>1. FileBlocks \subseteq W!Log /\ MapBlocks \subseteq W!Log
      BY DEF LInv, W!IInv, W!TypeOK
    <2> QED
      BY <2>1, LogIsLog DEF MapBlocks
  <1>2. NoBlock \notin DOMAIN summary
    BY <1>1, LogIsLog
  <1>3. /\ DOMAIN P = RolesOf(DOMAIN imap) /\ DOMAIN imap \subseteq Nat
        /\ \A ino \in DOMAIN imap :
              /\ P[Entry(ino, 0, "inode")] = imap[ino]
              /\ P[Entry(ino, 0, "indirect")] = Known[ino].ind
              /\ \A idx \in Idx : P[Entry(ino, idx, "data")] = Pointer(dev, Known, task, ino, idx)
    <2>1. Formed(dev, imap, Known) /\ PendsFine(task)
      BY GoodNow DEF Good
    <2> QED
      BY <2>1, GoodNow, PlacesAre
  <1>4. Kept(P, summary)
    BY GoodNow DEF Good
  <1> HIDE DEF P
  <1>5. \A e \in RolesOf(DOMAIN imap) : e.type # "map"
    BY RolesAre DEF RolesOf
  <1>6. \A e \in RolesOf(DOMAIN imap) : P[e] # NoBlock => P[e] \in FileBlocks
    BY <1>3, <1>4, <1>5 DEF Kept, FileBlocks
  <1>7. \A e \in RolesOf(DOMAIN imap) : OldFine(P[e])
    BY <1>2, <1>6 DEF OldFine
  <1>8. \A ino \in DOMAIN imap : imap[ino] # NoBlock
    BY GoodNow, LogIsLog DEF Formed
  <1>9. ASSUME NEW ino \in DOMAIN imap
        PROVE  /\ imap[ino] \in FileBlocks
               /\ OldFine(Known[ino].ind)
               /\ \A idx \in Idx : OldFine(Pointer(dev, Known, task, ino, idx))
    BY <1>3, <1>6, <1>7, <1>8, InRolesOf
  <1>10. ASSUME NEW ino \in DOMAIN imap, NEW idx \in Idx, task = <<>> \/ task[1].do # "indirect"
         PROVE  OldFine(GetBlockAddr(dev, Known[ino], idx))
    <2>1. Pointer(dev, Known, task, ino, idx) = GetBlockAddr(dev, Known[ino], idx)
      BY <1>10 DEF Pointer, Pends
    <2> QED
      BY <1>9, <2>1
  <1> QED
    BY <1>1, <1>2, <1>9, <1>10

\* What LogWindow sees of the device.
LEMMA DiskSame ==
    ASSUME DeviceSame, sb' = sb
    PROVE  Disk' = Disk
  BY DEF DeviceSame, Disk

\* The files' blocks are fewer than the log's.
LEMMA LiveFits ==
    ASSUME LInv
    PROVE  Cardinality(FileBlocks) < LogEnd
  <1>1. FileBlocks \subseteq Log /\ super.tail \in Log /\ super.tail \notin FileBlocks
    BY InSummary, TailFree DEF LInv, FileBlocks
  <1>2. LogStart \in Nat /\ LogEnd \in Nat /\ LogEnd - LogStart >= 7
    BY LfsAssumption
  <1>3. IsFiniteSet(Log) /\ Cardinality(Log) <= LogEnd
    <2>1. LogStart \in Int /\ LogEnd - 1 \in Int
      BY <1>2
    <2>2. IsFiniteSet(LogStart .. (LogEnd - 1))
          /\ Cardinality(LogStart .. (LogEnd - 1))
               = IF LogStart > LogEnd - 1 THEN 0 ELSE (LogEnd - 1) - LogStart + 1
      BY <2>1, FS_Interval
    <2> QED
      BY <1>2, <2>2 DEF Log
  <1>4. IsFiniteSet(FileBlocks) /\ Cardinality(FileBlocks) < Cardinality(Log)
    <2>1. FileBlocks # Log
      BY <1>1
    <2>2. IsFiniteSet(FileBlocks) /\ Cardinality(FileBlocks) <= Cardinality(Log)
          /\ (Cardinality(FileBlocks) = Cardinality(Log) => FileBlocks = Log)
      BY <1>1, <1>3, FS_Subset
    <2>3. Cardinality(FileBlocks) \in Nat /\ Cardinality(Log) \in Nat
      BY <1>3, <2>2, FS_CardinalityType
    <2> QED
      BY <2>1, <2>2, <2>3
  <1>5. Cardinality(FileBlocks) \in Nat /\ Cardinality(Log) \in Nat
    BY <1>3, <1>4, FS_CardinalityType
  <1> QED
    BY <1>2, <1>3, <1>4, <1>5

\* A block of a file is written, and takes the place of at most one.
LEMMA AppendStep ==
    ASSUME LInv, NEW content, NEW r, r.type # "map", NEW dead, Wrote(content, r, dead),
           dead = {} \/ (\E a : dead = {a} /\ OldFine(a)),
           Moved(super.head, r.type), DeviceSame, HasSpace,
           phase \in {"op", "copy", "flush"}, Chain = {}, Chain' = {},
           UNCHANGED <<sb, committed, phase, lost>>
    PROVE  [W!Next]_W!vars
  <1> DEFINE old == dead \cap FileBlocks
  <1>1. old \in {{}} \cup {{b} : b \in FileBlocks}
    BY DEF OldFine
  <1>2. FileBlocks' = (FileBlocks \ dead) \cup {super.tail} /\ MapBlocks' = MapBlocks \ dead
    BY FiledBlocks DEF Wrote
  <1>3. MapBlocks' = MapBlocks
    BY <1>2 DEF OldFine, MapBlocks
  <1>4. FileBlocks' = (FileBlocks \ old) \cup {super.tail}
    BY <1>2
  <1>5. Disk' = Disk
    BY DiskSame
  <1>6. W!HasSpace /\ W!WriteAtTail(phase) /\ super'.head = super.head
    BY SameWindow DEF HasSpace, Moved
  <1>7. old = {} => Cardinality(FileBlocks) < LogEnd
    BY LiveFits
  <1> HIDE DEF old
  <1>8. W!Append(old)
    <2>1. old = {} => W!Cardinality(FileBlocks) < LogEnd
      BY <1>7 DEF W!Cardinality, Cardinality
    <2>2. UNCHANGED <<super.head, MapBlocks, Chain, committed, Disk, phase, lost>>
      BY <1>3, <1>5, <1>6
    <2> QED
      BY <1>1, <1>4, <1>6, <2>1, <2>2 DEF W!Append
  <1>9. W!Next
    BY <1>1, <1>8 DEF W!Next
  <1> QED
    BY <1>9

-----------------------------------------------------------------------------
(* The invariant, step by step *)

\* A step that is none of the last keeps the invariant.
LEMMA StepKeeps ==
    ASSUME LInv, Moves, Lands, Now.do # "end", [W!Next]_W!vars
    PROVE  LInv'
  <1>1. W!IInv'
    BY LogFits, W!NextIInv DEF LInv
  <1>2. Typed' /\ MemoryGood' /\ DeviceGood'
    BY DEF Lands, DeviceSame
  <1>3. Planned' /\ Held' /\ MapWritten' /\ Numbered' /\ Synced' /\ OpenFine' /\ UnlinkedFine'
    BY PlanMoves, HeldMoves, MapMoves, NumbersMove, UnlinkedMoves
  <1> QED
    BY <1>1, <1>2, <1>3 DEF LInv

\* Copies of the call that a step on blocks did not touch.
OthersKept ==
    \A ino \in DOMAIN work' \cap DOMAIN imap' :
        \/ /\ ino \in DOMAIN work \cap DOMAIN imap
           /\ ~(Now.do = "inode" /\ Now.ino = ino)
           /\ work'[ino] = work[ino] /\ dev'[imap'[ino]] = dev[imap[ino]]
        \/ Now.do \in {"data", "cut", "indirect"} /\ ino = Now.ino
        \/ work'[ino] = dev'[imap'[ino]]

\* What all steps that write have in common.
LEMMA WroteLands ==
    ASSUME LInv, Moves, NEW content, NEW r, NEW dead, Wrote(content, r, dead),
           Moved(super.head, r.type), DeviceSame, MemoryGood', HasSpace,
           UNCHANGED <<sb, unlinked, load>>,
           Now.do \in {"data", "indirect", "inode", "map"}, r.type = "map" <=> Now.do = "map",
           Now.do = "map" => work' = work,
           phase \in CleanPhases => DOMAIN work' \subseteq DOMAIN work,
           OthersKept,
           phase = "close" => \A ino \in DOMAIN imap' : imap'[ino] = imap[ino],
           Now.do = "map" => content = MapBlock(imap')
    PROVE  Lands
  <1>1. /\ super' \in Superblocks /\ super'.head = super.head
        /\ super'.tail = W!NextBlock(super.tail)
        /\ super'.map = IF r.type = "map" THEN super.tail ELSE super.map
    BY DEF Moved
  <1>2. DOMAIN dev' = Log /\ dev'[super.tail] = content
    BY DEF Wrote
  <1>3. Distance \in Nat /\ Distance' = Distance - 1
    BY <1>1, Room, DistanceDrops
  <1>4. Typed'
    BY <1>1, <1>2 DEF LInv, Typed
  <1> QED
    BY <1>1, <1>2, <1>3, <1>4 DEF Lands, OthersKept

\* What all steps that leave the cursors alone have in common.
LEMMA StaysLands ==
    ASSUME LInv, Moves, DeviceSame, MemoryGood',
           UNCHANGED <<super, load>>, DOMAIN dev' = DOMAIN dev,
           sb' = sb \/ sb' = super,
           sb'.map = sb.map,
           Now.do \in {"cut", "unlink", "free", "superblock"},
           Now.do # "cut" => work' = work,
           phase \in CleanPhases => DOMAIN work' \subseteq DOMAIN work,
           OthersKept,
           phase = "close" => \A ino \in DOMAIN imap' : imap'[ino] = imap[ino],
           unlinked' = IF Now.do = "unlink" THEN unlinked \cup {Now.ino} ELSE unlinked
    PROVE  Lands
  <1>1. Distance \in Nat /\ Distance' = Distance
    BY Room DEF Distance, W!LogDistance
  <1>2. Typed'
    BY DEF LInv, Typed
  <1> QED
    BY <1>1, <1>2 DEF Lands, OthersKept

\* Writing a data block keeps LInv, and is a step of LogWindow.
LEMMA WriteDataKeeps ==
    ASSUME LInv, ~overran', WriteData
    PROVE  LInv' /\ [W!Next]_W!vars
  <1>1. task # <<>> /\ Now.do = "data" /\ phase = "op" /\ HasSpace
    BY NowFacts, PhaseOfStep DEF WriteData, Due, Now
  <1>2. /\ MemoryGood' /\ DeviceSame /\ Moves
        /\ Wrote(Now.block, Entry(Now.ino, Now.idx, "data"),
                 {GetBlockAddr(dev, Known[Now.ino], Now.idx)})
        /\ Moved(super.head, "data")
    BY WriteDataGood
  <1>3. /\ Now.ino \in DOMAIN imap /\ Now.ino \in DOMAIN work /\ Now.idx \in Idx
    BY <1>1, OnInode
  <1>4. /\ imap' = imap
        /\ UNCHANGED <<sb, unlinked, load, committed, phase, lost>>
        /\ SetBlockAddr(work, Now.ino, Now.idx, super.tail, Tail(task))
    BY DEF WriteData, Keeps, bounds
  <1>5. InodesKept
    BY <1>2, InodesSpared DEF InodesKept, Wrote
  <1>6. SetTo(work, Now.ino, Now.idx, super.tail, Tail(task))
    BY <1>3, <1>4, SetIs
  <1>7. DOMAIN work' = DOMAIN work /\ \A i \in DOMAIN work : i # Now.ino => work'[i] = work[i]
    BY <1>6 DEF SetTo
  <1>8. OthersKept
    BY <1>1, <1>4, <1>5, <1>7 DEF OthersKept, InodesKept
  <1>9. PICK r, dead, content : /\ r = Entry(Now.ino, Now.idx, "data")
                                /\ dead = {GetBlockAddr(dev, Known[Now.ino], Now.idx)}
                                /\ content = Now.block
    OBVIOUS
  <1>10. r.type = "data" /\ Wrote(content, r, dead) /\ Moved(super.head, r.type)
    BY <1>2, <1>9, RolesAre
  <1>11. Lands
    BY <1>1, <1>2, <1>4, <1>7, <1>8, <1>10, WroteLands DEF CleanPhases
  <1>12. dead = {} \/ (\E a : dead = {a} /\ OldFine(a))
    <2>1. OldFine(GetBlockAddr(dev, Known[Now.ino], Now.idx))
      BY <1>1, <1>3, InSummary DEF Now
    <2> QED
      BY <1>9, <2>1
  <1>13. [W!Next]_W!vars
    <2>1. Chain = {} /\ Chain' = {}
      BY <1>1, <1>2, NoChain
    <2> QED
      BY <1>1, <1>2, <1>4, <1>10, <1>12, <2>1, AppendStep
  <1> QED
    BY <1>1, <1>2, <1>11, <1>13, StepKeeps

\* Writing an indirect block does, too.
LEMMA WriteIndirectKeeps ==
    ASSUME LInv, ~overran', WriteIndirect
    PROVE  LInv' /\ [W!Next]_W!vars
  <1>1. task # <<>> /\ Now.do = "indirect" /\ phase \in {"op", "copy"} /\ HasSpace
    BY NowFacts, PhaseOfStep DEF WriteIndirect, Due, Now
  <1>2. /\ MemoryGood' /\ DeviceSame /\ Moves
        /\ Wrote(dev'[super.tail], Entry(Now.ino, 0, "indirect"), {Known[Now.ino].ind})
        /\ Moved(super.head, "indirect")
    BY WriteIndirectGood
  <1>3. /\ Now.ino \in DOMAIN imap /\ Now.ino \in DOMAIN work
    BY <1>1, OnInode
  <1>4. /\ imap' = imap /\ work' = [work EXCEPT ![Now.ino].ind = super.tail]
        /\ UNCHANGED <<sb, unlinked, load, committed, phase, lost>>
    BY DEF WriteIndirect, Keeps, bounds
  <1>5. InodesKept
    BY <1>2, InodesSpared DEF InodesKept, Wrote
  <1>7. DOMAIN work' = DOMAIN work /\ \A i \in DOMAIN work : i # Now.ino => work'[i] = work[i]
    BY <1>4
  <1>8. OthersKept
    BY <1>1, <1>4, <1>5, <1>7 DEF OthersKept, InodesKept
  <1>9. PICK r, dead, content : /\ r = Entry(Now.ino, 0, "indirect")
                                /\ dead = {Known[Now.ino].ind}
                                /\ content = dev'[super.tail]
    OBVIOUS
  <1>10. r.type = "indirect" /\ Wrote(content, r, dead) /\ Moved(super.head, r.type)
    BY <1>2, <1>9, RolesAre
  <1>11. Lands
    BY <1>1, <1>2, <1>4, <1>7, <1>8, <1>10, WroteLands DEF CleanPhases
  <1>12. dead = {} \/ (\E a : dead = {a} /\ OldFine(a))
    <2>1. OldFine(Known[Now.ino].ind)
      BY <1>3, InSummary
    <2> QED
      BY <1>9, <2>1
  <1>13. [W!Next]_W!vars
    <2>1. Chain = {} /\ Chain' = {}
      BY <1>1, <1>2, NoChain
    <2> QED
      BY <1>1, <1>2, <1>4, <1>10, <1>12, <2>1, AppendStep
  <1> QED
    BY <1>1, <1>2, <1>11, <1>13, StepKeeps

\* Writing an inode does.
LEMMA WriteInodeKeeps ==
    ASSUME LInv, ~overran', WriteInode
    PROVE  LInv' /\ [W!Next]_W!vars
  <1> DEFINE ino == Now.ino
             old == IF ino \in DOMAIN imap THEN {imap[ino]} ELSE {}
  <1>1. task # <<>> /\ Now.do = "inode" /\ phase \in {"op", "flush"} /\ HasSpace
    BY NowFacts, PhaseOfStep DEF WriteInode, Due, Now
  <1>2. /\ MemoryGood' /\ DeviceSame /\ Moves
        /\ Wrote(Known'[ino], Entry(ino, 0, "inode"), old)
        /\ Moved(super.head, "inode")
        /\ imap'[ino] = super.tail /\ \A i \in DOMAIN imap : i # ino => imap'[i] = imap[i]
    BY WriteInodeGood
  <1>3. DOMAIN imap' = DOMAIN imap \cup {ino}
    BY <1>1, <1>2 DEF Moves
  <1>4. /\ work' = IF phase = "flush" THEN [i \in DOMAIN work \ {ino} |-> work[i]]
                   ELSE [work EXCEPT ![ino] = [work[ino] EXCEPT !.size = Now.size]]
        /\ UNCHANGED <<sb, unlinked, load, committed, phase, lost>>
    BY DEF WriteInode, Keeps, bounds
  <1>5. InodesKept
    BY <1>2, InodesSpared DEF InodesKept, Wrote
  <1>6. /\ DOMAIN work' \subseteq DOMAIN work
        /\ \A i \in DOMAIN work' : i # ino => work'[i] = work[i]
    BY <1>4
  <1>7. ino \in DOMAIN work' => work'[ino] = dev'[imap'[ino]]
    <2>1. Known'[ino] = dev'[super.tail]
      BY <1>2 DEF Wrote
    <2>2. ino \in DOMAIN work' => Known'[ino] = work'[ino]
      BY <1>3 DEF Known, Nodes
    <2> QED
      BY <1>2, <2>1, <2>2
  <1>8. OthersKept
    <2> SUFFICES ASSUME NEW i \in DOMAIN work' \cap DOMAIN imap', i # ino
                 PROVE  /\ i \in DOMAIN work \cap DOMAIN imap
                        /\ work'[i] = work[i] /\ dev'[imap'[i]] = dev[imap[i]]
      BY <1>7 DEF OthersKept
    <2> QED
      BY <1>2, <1>3, <1>5, <1>6 DEF InodesKept
  <1>9. PICK r, dead, content : /\ r = Entry(ino, 0, "inode")
                                /\ dead = old
                                /\ content = Known'[ino]
    OBVIOUS
  <1>10. r.type = "inode" /\ Wrote(content, r, dead) /\ Moved(super.head, r.type)
    BY <1>2, <1>9, RolesAre
  <1>11. Lands
    BY <1>1, <1>2, <1>4, <1>6, <1>8, <1>10, WroteLands DEF CleanPhases
  <1>12. dead = {} \/ (\E a : dead = {a} /\ OldFine(a))
    <2>1. ino \in DOMAIN imap => OldFine(imap[ino])
      BY InSummary DEF OldFine
    <2> QED
      BY <1>9, <2>1
  <1>13. [W!Next]_W!vars
    <2>1. Chain = {} /\ Chain' = {}
      BY <1>1, <1>2, NoChain
    <2> QED
      BY <1>1, <1>2, <1>4, <1>10, <1>12, <2>1, AppendStep
  <1> QED
    BY <1>1, <1>2, <1>11, <1>13, StepKeeps

\* Blocks leave the summary.
LEMMA KillStep ==
    ASSUME NEW dead, Struck(summary, dead, summary'), \A a \in dead : OldFine(a),
           phase \in {"op", "close"}, Chain = {}, Chain' = {}, DeviceSame,
           UNCHANGED <<sb, super, committed, phase, expected, dirty, overran, lost>>
    PROVE  [W!Next]_W!vars
  <1> DEFINE gone == dead \cap FileBlocks
  <1>1. FileBlocks' = FileBlocks \ gone /\ MapBlocks' = MapBlocks
    <2>1. FileBlocks' = FileBlocks \ dead /\ MapBlocks' = MapBlocks \ dead
      BY StruckBlocks
    <2> QED
      BY <2>1 DEF OldFine, MapBlocks
  <1>2. Disk' = Disk
    BY DiskSame
  <1>3. gone \subseteq FileBlocks
    OBVIOUS
  <1> HIDE DEF gone
  <1>4. CASE gone = {}
    <2>1. FileBlocks' = FileBlocks
      BY <1>1, <1>4
    <2> QED
      BY <1>1, <1>2, <2>1 DEF W!vars, W!memory, W!history
  <1>5. CASE gone # {}
    <2>1. W!Kill(gone)
      BY <1>1, <1>2, <1>3, <1>5 DEF W!Kill, W!history
    <2>2. gone \in SUBSET FileBlocks
      BY <1>3
    <2> QED
      BY <2>1, <2>2 DEF W!Next
  <1> QED
    BY <1>4, <1>5

\* Taking a block from a file does.
LEMMA CutBlockKeeps ==
    ASSUME LInv, CutBlock
    PROVE  LInv' /\ [W!Next]_W!vars
  <1> DEFINE old == GetBlockAddr(dev, Known[Now.ino], Now.idx)
  <1>1. task # <<>> /\ Now.do = "cut"
    BY DEF CutBlock, Due, Now
  <1>2. /\ MemoryGood' /\ DeviceSame /\ Moves /\ phase = "op"
        /\ summary' = summary \/ (old # NoBlock /\ Struck(summary, {old}, summary'))
        /\ UNCHANGED <<dev, sb, super, committed, phase, expected, dirty, overran, lost>>
    BY CutBlockGood
  <1>3. Now.ino \in DOMAIN imap /\ Now.ino \in DOMAIN work /\ Now.idx \in Idx
    BY <1>1, OnInode
  <1>4. /\ imap' = imap /\ UNCHANGED <<unlinked, load>>
        /\ work' = work \/ SetBlockAddr(work, Now.ino, Now.idx, NoBlock, Tail(task))
    BY DEF CutBlock, Keeps, bounds
  <1>5. DOMAIN work' = DOMAIN work /\ \A i \in DOMAIN work : i # Now.ino => work'[i] = work[i]
    <2>1. CASE work' = work
      BY <2>1
    <2>2. CASE SetBlockAddr(work, Now.ino, Now.idx, NoBlock, Tail(task))
      <3>1. SetTo(work, Now.ino, Now.idx, NoBlock, Tail(task))
        BY <1>3, <2>2, SetIs
      <3> QED
        BY <3>1 DEF SetTo
    <2> QED
      BY <1>4, <2>1, <2>2
  <1>6. OthersKept
    BY <1>1, <1>2, <1>4, <1>5 DEF OthersKept
  <1>7. Lands
    BY <1>1, <1>2, <1>4, <1>5, <1>6, StaysLands DEF CleanPhases
  <1>8. Chain = {} /\ Chain' = {}
    BY <1>1, <1>2, NoChain
  <1>9. [W!Next]_W!vars
    <2>1. CASE summary' = summary
      <3>1. Disk' = Disk /\ FileBlocks' = FileBlocks /\ MapBlocks' = MapBlocks
        BY <1>2, <2>1, DiskSame DEF FileBlocks, MapBlocks
      <3> QED
        BY <1>2, <1>8, <3>1 DEF W!vars, W!memory, W!history
    <2>2. CASE Struck(summary, {old}, summary')
      <3>1. OldFine(old)
        BY <1>1, <1>3, InSummary DEF Now
      <3>2. PICK dead : dead = {old}
        OBVIOUS
      <3> QED
        BY <1>2, <1>8, <2>2, <3>1, <3>2, KillStep
    <2> QED
      BY <1>2, <2>1, <2>2
  <1> QED
    BY <1>1, <1>2, <1>7, <1>9, StepKeeps

\* Nothing that LogWindow sees has changed.
LEMMA StutterStep ==
    ASSUME Chain' = Chain, Disk' = Disk,
           UNCHANGED <<super, summary, committed, phase, expected, dirty, overran, lost>>
    PROVE  UNCHANGED W!vars
  <1>1. FileBlocks' = FileBlocks /\ MapBlocks' = MapBlocks
    BY DEF FileBlocks, MapBlocks
  <1> QED
    BY <1>1 DEF W!vars, W!memory, W!history

\* Noting an inode as unlinked does.
LEMMA MarkUnlinkedKeeps ==
    ASSUME LInv, MarkUnlinked
    PROVE  LInv' /\ [W!Next]_W!vars
  <1>1. task # <<>> /\ Now.do = "unlink" /\ phase = "op"
    BY NowFacts, PhaseOfStep DEF MarkUnlinked, Due, Now
  <1>2. MemoryGood' /\ DeviceSame /\ Moves
    BY MarkUnlinkedGood
  <1>3. /\ UNCHANGED <<dev, sb, super, imap, summary, committed, phase, work, expected,
                       dirty, overran, lost, load>>
        /\ unlinked' = unlinked \cup {Now.ino}
    BY DEF MarkUnlinked, bounds, history
  <1>4. OthersKept
    BY <1>1, <1>3 DEF OthersKept
  <1>5. Lands
    BY <1>1, <1>2, <1>3, <1>4, StaysLands
  <1>6. UNCHANGED W!vars
    <2>1. Chain = {} /\ Chain' = {} /\ Disk' = Disk
      BY <1>1, <1>2, <1>3, NoChain, DiskSame
    <2> QED
      BY <1>3, <2>1, StutterStep
  <1> QED
    BY <1>1, <1>2, <1>5, <1>6, StepKeeps

\* Freeing an inode does.
LEMMA FreeInodeKeeps ==
    ASSUME LInv, FreeInode
    PROVE  LInv' /\ [W!Next]_W!vars
  <1> DEFINE ino == Now.ino
             dead == BlocksOf(dev, Known[ino], imap[ino])
  <1>1. task # <<>> /\ Now.do = "free"
    BY DEF FreeInode, Due, Now
  <1>2. /\ MemoryGood' /\ DeviceSame /\ Moves /\ phase \in {"op", "close"}
        /\ Struck(summary, dead, summary') /\ Struck(imap, {ino}, imap')
        /\ UNCHANGED <<dev, sb, super, committed, phase, work, expected, dirty, overran, lost>>
    BY FreeInodeGood
  <1>3. UNCHANGED <<unlinked, load>>
    BY DEF FreeInode, Keeps, bounds
  <1>4. DOMAIN imap' \subseteq DOMAIN imap /\ \A i \in DOMAIN imap' : imap'[i] = imap[i]
    BY <1>2 DEF Struck
  <1>5. OthersKept
    BY <1>1, <1>2, <1>4 DEF OthersKept
  <1>6. Lands
    BY <1>1, <1>2, <1>3, <1>4, <1>5, StaysLands
  <1>7. \A a \in dead : OldFine(a)
    <2>1. ino \in DOMAIN imap
      BY <1>1, FreeNow
    <2>2. IsNode(Known[ino], ino)
      BY <2>1, GoodNow DEF Formed
    <2>3. NumBlocks(Known[ino]) = Blocks(ino, Known[ino].size)
          /\ Blocks(ino, Known[ino].size) \in Nat /\ Blocks(ino, Known[ino].size) <= MaxBlocks
      BY <2>2, NumBlocksIs, BlocksRange DEF IsNode, NodeOf
    <2>4. 0 .. (NumBlocks(Known[ino]) - 1) \subseteq Idx
      BY <2>3, Sizes DEF Idx
    <2>5. \A idx \in Idx : OldFine(GetBlockAddr(dev, Known[ino], idx))
      BY <1>1, <2>1, InSummary DEF Now
    <2>6. OldFine(Known[ino].ind) /\ OldFine(imap[ino])
      BY <2>1, InSummary DEF OldFine
    <2> QED
      BY <2>4, <2>5, <2>6 DEF BlocksOf
  <1>8. Chain = {} /\ Chain' = {}
    BY <1>1, <1>2, NoChain
  <1>9. [W!Next]_W!vars
    <2>1. PICK gone : gone = dead
      OBVIOUS
    <2>2. Struck(summary, gone, summary') /\ \A a \in gone : OldFine(a)
      BY <1>2, <1>7, <2>1
    <2> QED
      BY <1>2, <1>8, <2>2, KillStep
  <1> QED
    BY <1>1, <1>2, <1>6, <1>9, StepKeeps

\* Two fields of what the device says change.
DiskOf(a, b, c, d) == [head |-> a, tail |-> b, live |-> c, maps |-> d]
CaughtUp(r, h, t) == [r EXCEPT !.head = h, !.tail = t]

\* A superblock that catches up with the cursors keeps the rest of the disk.
LEMMA TwoFields ==
    ASSUME NEW a, NEW b, NEW c, NEW d, NEW h, NEW t, NEW r, r = DiskOf(a, b, c, d)
    PROVE  CaughtUp(r, h, t) = DiskOf(h, t, c, d)
  <1> DEFINE keys == {"head", "tail", "live", "maps"}
             new(i) == IF i = "tail" THEN t ELSE IF i = "head" THEN h ELSE r[i]
  <1>1. DOMAIN r = keys
    BY DEF DiskOf
  <1>2. CaughtUp(r, h, t) = [i \in DOMAIN r |-> new(i)]
    BY DEF CaughtUp, DiskOf
  <1>3. DiskOf(h, t, c, d) = [i \in keys |-> new(i)]
    BY DEF DiskOf
  <1> QED
    BY <1>1, <1>2, <1>3

\* The early superblock of a creation keeps LInv, and is a step of LogWindow.
LEMMA WriteSuperblockKeeps ==
    ASSUME LInv, WriteSuperblock
    PROVE  LInv' /\ [W!Next]_W!vars
  <1>1. task # <<>> /\ Now.do = "superblock" /\ phase = "op"
    BY NowFacts, PhaseOfStep DEF WriteSuperblock, Due, Now
  <1>2. MemoryGood' /\ DeviceSame /\ Moves /\ super.map = sb.map
    BY WriteSuperblockGood
  <1>3. /\ UNCHANGED <<dev, super, imap, summary, committed, unlinked, phase, work, expected,
                       dirty, overran, lost, load>>
        /\ sb' = super
    BY DEF WriteSuperblock, bounds, history, memory
  <1>4. OthersKept
    BY <1>1, <1>3 DEF OthersKept
  <1>5. Lands
    BY <1>1, <1>2, <1>3, <1>4, StaysLands
  <1>6. Chain = {} /\ Chain' = {}
    BY <1>1, <1>2, NoChain
  <1>7. Disk' = CaughtUp(Disk, super.head, super.tail)
    <2>1. PICK live : live = DOMAIN Rebuilt(dev, DurableMap)
      OBVIOUS
    <2>2. Disk = DiskOf(sb.head, sb.tail, live, {sb.map})
      BY <2>1 DEF Disk, DiskOf
    <2>3. Disk' = DiskOf(sb'.head, sb'.tail, live, {sb'.map})
      BY <1>2, <2>1 DEF Disk, DiskOf, DeviceSame
    <2>4. Disk' = DiskOf(super.head, super.tail, live, {sb.map})
      BY <1>2, <1>3, <2>3
    <2> QED
      BY <2>2, <2>4, TwoFields
  <1>8. FileBlocks' = FileBlocks /\ MapBlocks' = MapBlocks
    BY <1>3 DEF FileBlocks, MapBlocks
  <1>9. W!WriteSuperblockEarly
    BY <1>1, <1>3, <1>6, <1>7, <1>8 DEF W!WriteSuperblockEarly, W!memory, W!history, CaughtUp
  <1>10. [W!Next]_W!vars
    BY <1>9 DEF W!Next
  <1> QED
    BY <1>1, <1>2, <1>5, <1>10, StepKeeps

\* Writing the inode map does, too.
LEMMA WriteMapKeeps ==
    ASSUME LInv, ~overran', WriteMap
    PROVE  LInv' /\ [W!Next]_W!vars
  <1>1. task # <<>> /\ Now.do = "map" /\ phase \in {"op", "close", "flush"} /\ HasSpace
    BY NowFacts, PhaseOfStep DEF WriteMap, Due, Now
  <1>2. /\ MemoryGood' /\ DeviceSame /\ Moves
        /\ Wrote(MapBlock(imap), Entry(NoIno, 0, "map"), {})
        /\ Moved(super.head, "map")
    BY WriteMapGood
  <1>3. /\ imap' = imap /\ work' = work /\ task' = Tail(task)
        /\ UNCHANGED <<sb, unlinked, load, committed, phase, lost>>
    BY DEF WriteMap, Keeps, bounds
  <1>4. InodesKept
    BY <1>2, InodesSpared DEF InodesKept, Wrote
  <1>5. OthersKept
    BY <1>1, <1>3, <1>4 DEF OthersKept, InodesKept
  <1>6. PICK r, dead, content : /\ r = Entry(NoIno, 0, "map") /\ dead = {}
                                /\ content = MapBlock(imap)
    OBVIOUS
  <1>7. r.type = "map" /\ Wrote(content, r, dead) /\ Moved(super.head, r.type)
    BY <1>2, <1>6, RolesAre
  <1>8. Lands
    BY <1>1, <1>2, <1>3, <1>5, <1>6, <1>7, WroteLands
  <1>9. Chain = {} /\ Chain' = {super.tail}
    <2>1. Tail(task) # <<>> /\ Tail(task)[1].do = "end"
      BY <1>1, EndIsLast
    <2>2. super'.map = super.tail
      BY <1>2 DEF Moved
    <2>3. task[1].do # "end"
      BY <1>1 DEF Now
    <2> QED
      BY <1>3, <2>1, <2>2, <2>3 DEF Chain
  <1>10. FileBlocks' = FileBlocks /\ MapBlocks' = MapBlocks \cup {super.tail}
    <2>1. Filed(summary, dead, super.tail, r, summary') /\ super.tail \notin DOMAIN summary
      BY <1>7 DEF Wrote
    <2>2. FileBlocks' = FileBlocks \ dead /\ MapBlocks' = (MapBlocks \ dead) \cup {super.tail}
      BY <1>7, <2>1, FiledBlocks
    <2> QED
      BY <1>6, <2>2
  <1>11. W!PersistMapBlock
    <2>1. Disk' = Disk
      BY <1>2, <1>3, DiskSame
    <2>2. W!HasSpace /\ W!WriteAtTail(phase) /\ super'.head = super.head
      BY <1>1, <1>2, SameWindow DEF HasSpace, Moved
    <2>3. phase' = phase /\ committed' = committed /\ lost' = lost
      BY <1>3
    <2> QED
      BY <1>1, <1>9, <1>10, <2>1, <2>2, <2>3 DEF W!PersistMapBlock
  <1>12. [W!Next]_W!vars
    BY <1>11 DEF W!Next
  <1> QED
    BY <1>1, <1>2, <1>8, <1>12, StepKeeps

-----------------------------------------------------------------------------
(* The end of a call *)

\* A set of numbers has a least one.
LEMMA LeastExists ==
    ASSUME NEW S, S \subseteq Nat, S # {}
    PROVE  \E x \in S : \A y \in S : x <= y
  <1> DEFINE R == OpToRel(<, Nat)
  <1>1. IsWellFoundedOn(R, Nat)
    BY NatLessThanWellFounded
  <1>2. \A x, y \in Nat : <<y, x>> \notin R => x <= y
    BY DEF OpToRel
  <1> HIDE DEF R
  <1>3. PICK x \in S : \A y \in S : ~(<<y, x>> \in R)
    BY <1>1, WFMin
  <1> QED
    BY <1>2, <1>3

\* The descriptor a new file gets is a free one.
LEMMA LeastIsFree == FreeFds # {} => LeastFreeFd \in FreeFds
  <1>1. FreeFds \subseteq Nat
    BY LfsAssumption DEF FreeFds
  <1>2. PICK S : S = FreeFds
    OBVIOUS
  <1>3. S # {} => (CHOOSE fd \in S : \A other \in S : fd <= other) \in S
    BY <1>1, <1>2, LeastExists
  <1> QED
    BY <1>2, <1>3 DEF LeastFreeFd

\* An image that is written as it is: what a reload will find.
LEMMA DeviceAsMemory ==
    ASSUME Good(dev, imap, Known, <<>>, summary), Plain(dev, imap, Known), DOMAIN Known = DOMAIN imap,
           NEW d, d = dev, NEW map, map = imap
    PROVE  /\ Nodes(d, map, <<>>) = Known
           /\ Good(d, map, Nodes(d, map, <<>>), <<>>, Rebuilt(d, map))
           /\ FileBlocks = DOMAIN Rebuilt(d, map)
           /\ [a \in FileBlocks |-> summary[a]] = Rebuilt(d, map)
  <1>1. Nodes(d, map, <<>>) = [ino \in DOMAIN map |-> d[map[ino]]]
    BY KnownIs
  <1>2. Known = [ino \in DOMAIN imap |-> dev[imap[ino]]]
    <2>1. Known = [ino \in DOMAIN imap |-> Known[ino]]
      BY DEF Known, Nodes
    <2> QED
      BY <2>1 DEF Plain
  <1>3. Good(dev, imap, Known, <<>>, Rebuilt(dev, imap)) /\ FilesOf(summary, Rebuilt(dev, imap))
    BY GoodRebuilt
  <1>4. [a \in FileBlocks |-> summary[a]] = Rebuilt(dev, imap)
    BY <1>3 DEF FilesOf, FileBlocks
  <1>5. FileBlocks = DOMAIN Rebuilt(dev, imap)
    BY <1>4
  <1> QED
    BY <1>1, <1>2, <1>3, <1>4, <1>5

\* When the map is written, the copies of the call are on the device.
LEMMA EndPlain ==
    ASSUME LInv, task # <<>>, Now.do = "end"
    PROVE  /\ Tail(task) = <<>> /\ Todo(task) = {Now} /\ phase \in {"op", "close", "flush"}
           /\ Plain(dev, imap, Known) /\ Good(dev, imap, Known, <<>>, summary)
  <1>1. task \in Seq(Todo(task)) /\ Now \in Todo(task) /\ Todo(task) = {Now} \cup Todo(Tail(task))
    BY NowFacts
  <1>2. Todo(task) = {Now}
    BY <1>1, EndIsLast
  <1>3. Tail(task) = <<>>
    <2>1. Tail(task) \in Seq(Todo(Tail(task))) /\ Todo(Tail(task)) = {}
      BY TailSettled, EndIsLast
    <2>2. PICK u : u = Tail(task)
      OBVIOUS
    <2>3. u # <<>> => u[1] \in Todo(u)
      BY <2>1, <2>2, TailTodo
    <2> QED
      BY <2>1, <2>2, <2>3
  <1>4. phase \in {"op", "close", "flush"}
    BY <1>1, PhaseOfStep
  <1>5. Plain(dev, imap, Known)
    <2> SUFFICES ASSUME NEW ino \in DOMAIN imap PROVE Known[ino] = dev[imap[ino]]
      BY DEF Plain
    <2>1. CASE ino \notin DOMAIN work
      BY <2>1, KnownIs
    <2>2. CASE ino \in DOMAIN work
      <3>1. ~InodePending(task, ino)
        BY <1>2 DEF InodePending
      <3>2. Ends
        BY <1>1 DEF Ends
      <3>3. phase \notin CleanPhases
        BY <1>4, <2>2, <3>2 DEF CleanPhases, LInv, Held
      <3>4. work[ino] = dev[imap[ino]]
        BY <2>2, <3>1, <3>3 DEF LInv, Held
      <3> QED
        BY <2>2, <3>4, KnownIs
    <2> QED
      BY <2>1, <2>2
  <1>6. Good(dev, imap, Known, <<>>, summary)
    BY <1>3, TailGood
  <1> QED
    BY <1>2, <1>3, <1>4, <1>5, <1>6

\* The image in memory and on the device, after the superblock names the map.
LEMMA FinishGood ==
    ASSUME LInv, Finish
    PROVE  /\ task # <<>> /\ Now.do = "end" /\ task' = <<>> /\ Todo(task) = {Now}
           /\ DurableMap' = imap /\ Known' = Known /\ Stored' = Known
           /\ MemoryGood' /\ DeviceGood'
           /\ Rebuilt(dev, DurableMap)' = Rebuilt(dev, imap)
           /\ FileBlocks = DOMAIN Rebuilt(dev, imap)
           /\ DirOf(dev, Known)' = DirOf(dev, Known) /\ DirOf(dev, Stored)' = DirOf(dev, Known)
  <1>1. task # <<>> /\ Now.do = "end"
    BY DEF Finish, Due, Now
  <1>2. /\ Todo(task) = {Now} /\ Plain(dev, imap, Known) /\ Good(dev, imap, Known, <<>>, summary)
    BY <1>1, EndPlain
  <1>3. /\ task' = <<>> /\ work' = <<>> /\ sb' = super
        /\ UNCHANGED <<dev, super, imap, summary>>
    BY DEF Finish
  <1>4. dev[super.map] = MapBlock(imap)
    BY <1>1 DEF LInv, MapWritten, Now
  <1>5. DurableMap' = imap
    BY <1>3, <1>4 DEF DurableMap, MapBlock
  <1>6. PICK d, map, N : d = dev /\ map = imap /\ N = Known
    OBVIOUS
  <1>7. /\ Nodes(d, map, <<>>) = N
        /\ Good(d, map, N, <<>>, Rebuilt(d, map))
        /\ FileBlocks = DOMAIN Rebuilt(d, map)
    BY <1>2, <1>6, DeviceAsMemory, KnownIs
  <1>8. Known' = N /\ Stored' = N
    BY <1>3, <1>5, <1>6, <1>7 DEF Known, Stored
  <1>9. MemoryGood'
    <2>1. Good(dev', imap', Known', task', summary')
      BY <1>2, <1>3, <1>6, <1>8
    <2> QED
      BY <2>1 DEF MemoryGood
  <1>10. Rebuilt(dev, DurableMap)' = Rebuilt(dev, imap)
    BY <1>3, <1>5 DEF Rebuilt, GetBlockAddr
  <1>11. DeviceGood'
    <2>1. Good(dev', DurableMap', Stored', <<>>, Rebuilt(dev, DurableMap)')
      BY <1>3, <1>5, <1>6, <1>7, <1>8, <1>10
    <2> QED
      BY <2>1 DEF DeviceGood
  <1>12. DirOf(dev, Known)' = DirOf(dev, Known) /\ DirOf(dev, Stored)' = DirOf(dev, Known)
    BY <1>3, <1>6, <1>8 DEF DirOf
  <1> QED
    BY <1>1, <1>2, <1>3, <1>5, <1>6, <1>7, <1>8, <1>9, <1>10, <1>11, <1>12

\* Between calls there is nothing to plan.
LEMMA IdlePlan ==
    ASSUME task' = <<>>, work' = <<>>, phase' = "idle"
    PROVE  Planned' /\ Held'
  <1>1. Todo(task') = {}
    BY NoSteps
  <1>2. Planned'
    BY <1>1, NoSteps DEF Planned, Ends
  <1>3. DOMAIN work' = {}
    OBVIOUS
  <1> QED
    BY <1>2, <1>3 DEF Held, Ends, CleanPhases

\* Writing the superblock at the end of a call keeps LInv, and is a step of LogWindow.
LEMMA FinishKeeps ==
    ASSUME LInv, Finish
    PROVE  LInv' /\ [W!Next]_W!vars
  <1>1. /\ task # <<>> /\ Now.do = "end" /\ task' = <<>> /\ Todo(task) = {Now}
        /\ DurableMap' = imap /\ Known' = Known /\ Stored' = Known
        /\ MemoryGood' /\ DeviceGood'
        /\ Rebuilt(dev, DurableMap)' = Rebuilt(dev, imap)
        /\ FileBlocks = DOMAIN Rebuilt(dev, imap)
        /\ DirOf(dev, Known)' = DirOf(dev, Known) /\ DirOf(dev, Stored)' = DirOf(dev, Known)
    BY FinishGood
  <1>2. /\ sb' = super /\ committed' = [head |-> super.head, tail |-> super.tail]
        /\ open' = IF Now.ino = NoIno THEN open ELSE [open EXCEPT ![LeastFreeFd] = Now.ino]
        /\ phase' = "idle" /\ work' = <<>> /\ dirty' = {} /\ overran' = lost
        /\ UNCHANGED <<dev, super, imap, summary, unlinked, expected, lost, load>>
    BY DEF Finish, bounds
  <1>3. W!PersistSuperblock
    <2>1. Chain = {super.map} /\ Chain' = {}
      BY <1>1 DEF Chain, Now
    <2>2. FileBlocks' = FileBlocks /\ MapBlocks' = MapBlocks
      BY <1>2 DEF FileBlocks, MapBlocks
    <2>3. Disk' = [head |-> super.head, tail |-> super.tail, live |-> FileBlocks, maps |-> Chain]
      BY <1>1, <1>2, <2>1 DEF Disk
    <2> QED
      BY <1>2, <2>1, <2>2, <2>3 DEF W!PersistSuperblock
  <1>4. W!IInv'
    <2>1. W!Next
      BY <1>3 DEF W!Next
    <2> QED
      BY <2>1, LogFits, W!NextIInv DEF LInv
  <1>5. Planned' /\ Held'
    BY <1>1, <1>2, IdlePlan
  <1>6. Typed'
    BY <1>2 DEF LInv, Typed
  <1>7. MapWritten' /\ Synced'
    BY <1>1, <1>2 DEF MapWritten, Synced
  <1>8. Numbered'
    <2>1. /\ sb.next <= super.next /\ Root < sb.next /\ sb.next \in Nat /\ super.next \in Nat
          /\ \A ino \in DOMAIN imap : ino < super.next
      BY DEF LInv, Numbered, Typed, Superblocks
    <2>2. Root < super.next /\ super.next <= super.next
      BY <2>1 DEF Root
    <2> QED
      BY <1>1, <1>2, <2>1, <2>2 DEF Numbered
  <1>9. Now.ino # NoIno => /\ Now.ino \in Nat \ {Root} /\ FreeFds # {}
                           /\ Now.ino \in DOMAIN imap
    <2>1. StepFine(Now)
      BY <1>1, NowFacts
    <2>2. ~InodePending(task, Now.ino)
      BY <1>1 DEF InodePending
    <2> QED
      BY <1>1, <2>1, <2>2 DEF StepFine
  <1>10. /\ open \in [Fds -> Nat] /\ OpenInos \subseteq DOMAIN imap \ {Root}
    BY DEF LInv, OpenFine
  <1>11. /\ open' \in [Fds -> Nat] /\ OpenInos \subseteq OpenInos'
         /\ OpenInos' \subseteq DOMAIN imap \ {Root}
    <2>1. CASE Now.ino = NoIno
      BY <1>2, <1>10, <2>1 DEF OpenInos
    <2>2. CASE Now.ino # NoIno
      <3>1. LeastFreeFd \in Fds /\ open[LeastFreeFd] = NoIno
        BY <1>9, <2>2, LeastIsFree DEF FreeFds
      <3>2. /\ open' \in [Fds -> Nat] /\ open'[LeastFreeFd] = Now.ino
            /\ \A fd \in Fds : fd # LeastFreeFd => open'[fd] = open[fd]
        BY <1>2, <1>9, <1>10, <2>2, <3>1
      <3>3. OpenInos \subseteq OpenInos'
        BY <3>1, <3>2 DEF OpenInos
      <3>4. OpenInos' \subseteq OpenInos \cup {Now.ino}
        BY <3>2 DEF OpenInos
      <3> QED
        BY <1>9, <1>10, <2>2, <3>2, <3>3, <3>4
    <2> QED
      BY <2>1, <2>2
  <1>12. OpenFine'
    BY <1>1, <1>2, <1>11 DEF OpenFine
  <1>13. UnlinkedFine'
    <2>1. unlinked \subseteq OpenInos /\ \A ino \in unlinked : Unnamed(ino)
      BY DEF LInv, UnlinkedFine
    <2>2. \A s \in Todo(task) : ~IsDirStep(s)
      BY <1>1 DEF IsDirStep
    <2>3. \A ino \in unlinked : \A n \in DOMAIN DirOf(dev, Known) : DirOf(dev, Known)[n] # ino
      BY <2>1, <2>2 DEF Unnamed
    <2>4. Todo(task') = {}
      BY <1>1, NoSteps
    <2>5. PICK D : D = DirOf(dev, Known)
      OBVIOUS
    <2>6. \A ino \in unlinked : \A n \in DOMAIN D : D[n] # ino
      BY <2>3, <2>5
    <2>7. DirOf(dev, Known)' = D /\ DirOf(dev, Stored)' = D
      BY <1>1, <2>5
    <2>8. \A ino \in unlinked : Unnamed(ino)'
      BY <2>4, <2>6, <2>7 DEF Unnamed
    <2>9. unlinked' = unlinked
      BY <1>2
    <2> QED
      BY <1>11, <2>1, <2>4, <2>6, <2>7, <2>8, <2>9 DEF UnlinkedFine
  <1> QED
    <2>1. [W!Next]_W!vars
      BY <1>3 DEF W!Next
    <2> QED
      BY <1>1, <1>4, <1>5, <1>6, <1>7, <1>8, <1>12, <1>13, <2>1 DEF LInv

-----------------------------------------------------------------------------
(* The beginning of a call *)

\* What the calls have in common: they lay out steps, and take copies of inodes.
Begins ==
    /\ phase = "idle" /\ phase' \in {"op", "close", "clean"}
    /\ UNCHANGED <<dev, sb, imap, summary, committed, expected, dirty, overran, lost, load>>
    /\ super' \in Superblocks /\ super'.head = super.head /\ super'.tail = super.tail
    /\ super'.map = super.map /\ super'.next >= super.next
    /\ \A i \in DOMAIN work' \cap DOMAIN imap : work'[i] = ReadInode(i)
    /\ Settled(task') /\ (task' # <<>> => task'[1].do # "end")
    /\ FitsPass(Known, <<>>, Known, task', DOMAIN imap, {})

\* No call enters an inode into the directory but a new one.
NewNames(s) ==
    IsDirStep(s) => \A n \in DOMAIN s.block.entries :
        \/ \E m \in DOMAIN Dir : s.block.entries[n] = Dir[m]
        \/ s.block.entries[n] = super.next

\* A call that starts leaves both images as they are.
LEMMA BeginsSame ==
    ASSUME LInv, Begins
    PROVE  /\ task = <<>> /\ work = <<>> /\ Known' = Known /\ DeviceSame
           /\ DirOf(dev, Known)' = Dir /\ DirOf(dev, Known) = Dir
           /\ MemoryGood' /\ [W!Next]_W!vars /\ W!IInv'
           /\ Distance' = Distance /\ Chain' = Chain
  <1>1. task = <<>> /\ work = <<>> /\ phase = "idle"
    BY NoTask DEF Begins, LInv, Held
  <1>2. Known = [ino \in DOMAIN imap |-> dev[imap[ino]]] /\ Dir = DirOf(dev, Known)
    BY <1>1, IdleKnown
  <1>3. dev' = dev /\ imap' = imap /\ summary' = summary /\ sb' = sb
    BY DEF Begins
  <1>4. Known' = Known
    <2>1. Known' = [ino \in DOMAIN imap |-> IF ino \in DOMAIN work' THEN work'[ino] ELSE dev[imap[ino]]]
      BY <1>3 DEF Known, Nodes
    <2>2. \A ino \in DOMAIN imap : ino \in DOMAIN work' => work'[ino] = dev[imap[ino]]
      BY DEF Begins, ReadInode
    <2> QED
      BY <1>2, <2>1, <2>2
  <1>5. DeviceSame
    BY <1>3, DeviceKept
  <1>6. DirOf(dev, Known)' = Dir
    BY <1>2, <1>3, <1>4 DEF DirOf
  <1>7. MemoryGood'
    <2>1. Settled(<<>>) /\ Settled(task') /\ FitsPass(Known, <<>>, Known, task', DOMAIN imap, {})
      BY DEF Begins, Settled
    <2>2. Good(dev, imap, Known, <<>>, summary)
      BY <1>1, GoodNow
    <2>3. PICK d, map, N, todo, sum : /\ d = dev /\ map = imap /\ N = Known /\ todo = task'
                                      /\ sum = summary
      OBVIOUS
    <2>4. Good(d, map, N, todo, sum)
      BY <2>1, <2>2, <2>3, GoodTodo
    <2>5. Good(dev', imap', Known', task', summary')
      BY <1>3, <1>4, <2>3, <2>4
    <2> QED
      BY <2>5 DEF MemoryGood
  <1>8. Chain = {} /\ Chain' = {}
    BY <1>1 DEF Chain, Begins
  <1>9. W!Begin
    <2>1. Disk' = Disk
      BY <1>3, <1>5, DiskSame
    <2>2. FileBlocks' = FileBlocks /\ MapBlocks' = MapBlocks
      BY <1>3 DEF FileBlocks, MapBlocks
    <2> QED
      BY <1>8, <2>1, <2>2 DEF W!Begin, W!memory, W!history, Begins
  <1>10. [W!Next]_W!vars
    BY <1>9 DEF W!Next
  <1>11. W!IInv'
    BY <1>10, LogFits, W!NextIInv DEF LInv
  <1>12. Distance' = Distance
    BY DEF Begins, Distance, W!LogDistance
  <1> QED
    BY <1>1, <1>2, <1>4, <1>5, <1>6, <1>7, <1>8, <1>10, <1>11, <1>12

\* Unlinked inodes stay unnamed.
LEMMA BeginsUnnamed ==
    ASSUME LInv, Begins, \A s \in Todo(task') : NewNames(s), NEW ino \in unlinked
    PROVE  Unnamed(ino)' /\ \A n \in DOMAIN DirOf(dev, Stored)' : DirOf(dev, Stored)'[n] # ino
  <1>1. /\ task = <<>> /\ DirOf(dev, Known) = Dir /\ DirOf(dev, Known)' = Dir /\ DeviceSame
    BY BeginsSame
  <1>2. ino \in DOMAIN imap
    BY DEF LInv, UnlinkedFine, OpenFine
  <1>3. ino < super.next /\ ino \in Nat /\ super.next \in Nat
    BY <1>2, GoodNow DEF LInv, Numbered, Typed, Superblocks
  <1>4. Unnamed(ino) /\ ~Finishing
    BY DEF LInv, UnlinkedFine, Begins, Finishing
  <1>5. \A n \in DOMAIN Dir : Dir[n] # ino
    <2>1. Todo(task) = {}
      BY <1>1, NoSteps
    <2> QED
      BY <1>1, <1>4, <2>1 DEF Unnamed
  <1>6. Unnamed(ino)'
    <2>1. \A s \in Todo(task') : IsDirStep(s) =>
             \A n \in DOMAIN s.block.entries : s.block.entries[n] # ino
      BY <1>3, <1>5 DEF NewNames
    <2>2. PICK D : D = Dir
      OBVIOUS
    <2>3. DirOf(dev, Known)' = D /\ \A n \in DOMAIN D : D[n] # ino
      BY <1>1, <1>5, <2>2
    <2> QED
      BY <2>1, <2>3 DEF Unnamed
  <1>7. \A n \in DOMAIN DirOf(dev, Stored) : DirOf(dev, Stored)[n] # ino
    BY <1>4 DEF LInv, UnlinkedFine
  <1>8. DirOf(dev, Stored)' = DirOf(dev, Stored)
    BY <1>1 DEF DeviceSame
  <1> QED
    BY <1>6, <1>7, <1>8

\* A call that begins keeps the invariant, if its plan is good.
LEMMA BeginsKeeps ==
    ASSUME LInv, Begins, Planned', \A s \in Todo(task') : NewNames(s),
           phase' = "close" => work' = <<>>,
           phase' = "clean" => DOMAIN work' \subseteq DOMAIN imap,
           open' \in [Fds -> Nat], OpenInos' \subseteq OpenInos,
           unlinked' \subseteq unlinked, unlinked' \subseteq OpenInos'
    PROVE  LInv' /\ [W!Next]_W!vars
  <1>1. /\ task = <<>> /\ DeviceSame /\ MemoryGood' /\ [W!Next]_W!vars /\ W!IInv'
        /\ Distance' = Distance
    BY BeginsSame
  <1>2. /\ dev' = dev /\ imap' = imap /\ sb' = sb /\ load' = load
        /\ super' \in Superblocks /\ super'.map = super.map /\ super'.next >= super.next
        /\ \A i \in DOMAIN work' \cap DOMAIN imap : work'[i] = ReadInode(i)
        /\ phase' \in {"op", "close", "clean"} /\ phase = "idle"
        /\ DurableMap' = DurableMap
    BY <1>1 DEF Begins, DeviceSame
  <1>3. Typed'
    BY <1>2 DEF LInv, Typed
  <1>4. DeviceGood'
    BY <1>1 DEF DeviceSame
  <1>5. Held'
    BY <1>2 DEF Held, CleanPhases, ReadInode
  <1>6. MapWritten'
    <2>1. super.map = sb.map
      BY <1>1 DEF LInv, MapWritten
    <2>2. ~(task' # <<>> /\ task'[1].do = "end")
      BY DEF Begins
    <2> QED
      BY <1>2, <2>1, <2>2 DEF MapWritten
  <1>7. Numbered'
    <2>1. /\ super.next \in Nat /\ super'.next \in Nat /\ sb.next \in Nat
          /\ DOMAIN imap \subseteq Nat
      BY <1>2, GoodNow DEF LInv, Typed, Superblocks
    <2>2. /\ sb.next <= super.next /\ Root < sb.next
          /\ \A ino \in DOMAIN imap : ino < super.next
          /\ \A ino \in DOMAIN DurableMap : ino < sb.next
      BY DEF LInv, Numbered
    <2>3. sb.next <= super'.next /\ \A ino \in DOMAIN imap : ino < super'.next
      BY <1>2, <2>1, <2>2
    <2> QED
      BY <1>2, <2>2, <2>3 DEF Numbered
  <1>8. Synced'
    BY <1>2 DEF LInv, Synced
  <1>9. OpenFine'
    BY <1>2 DEF LInv, OpenFine
  <1>10. UnlinkedFine'
    <2>1. \A ino \in unlinked' : /\ Unnamed(ino)'
                                 /\ \A n \in DOMAIN DirOf(dev, Stored)' : DirOf(dev, Stored)'[n] # ino
      BY BeginsUnnamed
    <2> QED
      BY <1>1, <2>1 DEF UnlinkedFine
  <1> QED
    BY <1>1, <1>3, <1>4, <1>5, <1>6, <1>7, <1>8, <1>9, <1>10 DEF LInv

\* A cleaner that starts keeps LInv, and is a step of LogWindow.
LEMMA CleanKeeps ==
    ASSUME LInv, Clean
    PROVE  LInv' /\ [W!Next]_W!vars
  <1>1. /\ phase = "idle" /\ phase' = "clean" /\ task' = <<>> /\ work' = <<>>
        /\ UNCHANGED <<dev, sb, imap, summary, committed, expected, dirty, overran, lost, load>>
        /\ UNCHANGED <<super, open, unlinked>>
    BY DEF Clean, Call, PhaseOf, May
  <1>2. Todo(task') = {} /\ Ordered(task') /\ task' \in Seq(Todo(task'))
    BY <1>1, NoSteps
  <1>3. FitsPass(Known, <<>>, Known, task', DOMAIN imap, {})
    BY <1>2, FitsCall
  <1>4. DOMAIN work' = {}
    BY <1>1
  <1>5. Begins
    <2>1. super \in Superblocks /\ super.next \in Nat
      BY DEF LInv, Typed, Superblocks
    <2> QED
      BY <1>1, <1>3, <1>4, <2>1 DEF Begins, Settled
  <1>6. Planned'
    BY <1>1, <1>2 DEF Planned, Ends
  <1>7. /\ open' \in [Fds -> Nat] /\ OpenInos' = OpenInos /\ unlinked' \subseteq OpenInos'
    BY <1>1 DEF LInv, OpenFine, UnlinkedFine, OpenInos
  <1> QED
    BY <1>1, <1>2, <1>4, <1>5, <1>6, <1>7, BeginsKeeps

\* A descriptor is closed.
LEMMA FdClosed ==
    ASSUME open \in [Fds -> Nat], NEW fd \in Fds, open' = [open EXCEPT ![fd] = NoIno]
    PROVE  /\ open' \in [Fds -> Nat] /\ OpenInos' \subseteq OpenInos
           /\ \A ino \in OpenInos : ino # open[fd] => ino \in OpenInos'
           /\ (\A other \in Fds \ {fd} : open[other] # open[fd]) => open[fd] \notin OpenInos'
           /\ (\E other \in Fds \ {fd} : open[other] = open[fd]) => OpenInos' = OpenInos
  <1>1. /\ open'[fd] = NoIno /\ \A other \in Fds \ {fd} : open'[other] = open[other]
        /\ open' \in [Fds -> Nat] /\ NoIno \in Nat
    BY DEF NoIno
  <1> QED
    BY <1>1 DEF OpenInos

\* What each open descriptor has.
LEMMA OpenNow ==
    ASSUME LInv, phase = "idle", NEW fd \in Fds, open[fd] # NoIno
    PROVE  /\ open[fd] \in OpenInos /\ open[fd] \in DOMAIN imap /\ open[fd] # Root
           /\ open[fd] \in Nat \ {NoIno} /\ open[fd] < super.next
           /\ IsNode(ReadInode(open[fd]), open[fd])
           /\ NumBlocks(ReadInode(open[fd])) = BlocksFor(ReadInode(open[fd]).size)
           /\ ReadInode(open[fd]).size \in Nat
           /\ BlocksFor(ReadInode(open[fd]).size) <= MaxBlocks
           /\ Known[open[fd]] = ReadInode(open[fd])
  <1>1. PICK ino : ino = open[fd]
    OBVIOUS
  <1>2. ino \in OpenInos
    BY <1>1 DEF OpenInos
  <1>3. ino \in DOMAIN imap /\ ino # Root /\ ino < super.next
    BY <1>2 DEF LInv, OpenFine, Numbered
  <1>4. ino \in Nat \ {NoIno} /\ IsNode(Known[ino], ino)
    BY <1>3, GoodNow DEF Formed
  <1>5. Known[ino] = ReadInode(ino)
    <2>1. work = <<>>
      BY DEF LInv, Held
    <2> QED
      BY <1>3, <2>1, IdleKnown
  <1>6. /\ NumBlocks(Known[ino]) = Blocks(ino, Known[ino].size) /\ Known[ino].size \in Nat
        /\ Blocks(ino, Known[ino].size) = BlocksFor(Known[ino].size)
        /\ BlocksFor(Known[ino].size) <= MaxBlocks
    BY <1>3, <1>4, NumBlocksIs DEF Blocks, IsNode, NodeOf
  <1> QED
    BY <1>1, <1>2, <1>3, <1>4, <1>5, <1>6

\* The steps every call ends with.
LEMMA MapAndEnd ==
    ASSUME NEW ino, NEW last, last = <<MapStep, Step("end", ino)>>
    PROVE  /\ last \in Seq(Todo(last)) /\ Todo(last) = {MapStep, Step("end", ino)}
           /\ Len(last) = 2 /\ last # <<>> /\ last[1] = MapStep /\ Ordered(last)
           /\ MapStep.do = "map" /\ MapStep.ino = NoIno
           /\ Step("end", ino).do = "end" /\ Step("end", ino).ino = ino
  <1>1. /\ MapStep.do = "map" /\ MapStep.ino = NoIno
        /\ Step("end", ino).do = "end" /\ Step("end", ino).ino = ino
    BY DEF MapStep, Step
  <1>2. Before(MapStep, Step("end", ino))
    BY <1>1 DEF Before
  <1> QED
    BY <1>1, <1>2, TwoSteps

\* The last close of an unlinked file does, too.
LEMMA CloseLastKeeps ==
    ASSUME LInv, NEW fd \in Fds, CloseLast(fd)
    PROVE  LInv' /\ [W!Next]_W!vars
  <1>0. PICK ino : ino = open[fd]
    OBVIOUS
  <1>1. /\ phase = "idle" /\ phase' = "close" /\ work' = <<>>
        /\ task' = <<Step("free", ino), MapStep, Step("end", NoIno)>>
        /\ UNCHANGED <<dev, sb, imap, summary, committed, expected, dirty, overran, lost, load>>
        /\ super' = super /\ open' = [open EXCEPT ![fd] = NoIno] /\ unlinked' = unlinked \ {ino}
        /\ ino # NoIno /\ ino \in unlinked
        /\ \A other \in Fds \ {fd} : open[other] # ino
    BY <1>0 DEF CloseLast, Call, PhaseOf, May
  <1>2. PICK a, b, c : a = Step("free", ino) /\ b = MapStep /\ c = Step("end", NoIno)
    OBVIOUS
  <1>3. /\ a.do = "free" /\ a.ino = ino /\ b.do = "map" /\ b.ino = NoIno
        /\ c.do = "end" /\ c.ino = NoIno
    BY <1>2 DEF Step, MapStep
  <1>4. Before(a, b) /\ Before(a, c) /\ Before(b, c)
    BY <1>1, <1>3 DEF Before
  <1>5. /\ task' \in Seq(Todo(task')) /\ Todo(task') = {a, b, c} /\ Ordered(task')
        /\ task' # <<>> /\ task'[1] = a
    BY <1>1, <1>2, <1>4, ThreeSteps
  <1>6. FitsPass(Known, <<>>, Known, task', DOMAIN imap, {})
    BY <1>3, <1>5, FitsCall
  <1>7. Begins
    <2>1. super \in Superblocks /\ super.next \in Nat /\ DOMAIN work' = {}
      BY <1>1 DEF LInv, Typed, Superblocks
    <2> QED
      BY <1>1, <1>3, <1>5, <1>6, <2>1 DEF Begins, Settled
  <1>8. \A s \in Todo(task') : ~IsDirStep(s)
    BY <1>3, <1>5 DEF IsDirStep
  <1>9. Unnamed(ino)'
    BY <1>1, <1>7, <1>8, BeginsUnnamed DEF NewNames
  <1>10. /\ open' \in [Fds -> Nat] /\ OpenInos' \subseteq OpenInos
         /\ \A i \in OpenInos : i # ino => i \in OpenInos' /\ ino \notin OpenInos'
         /\ ino \notin OpenInos'
    BY <1>0, <1>1, FdClosed DEF LInv, OpenFine
  <1>11. \A s \in Todo(task') : StepFine(s)'
    <2>1. ino \in DOMAIN imap \ {Root} /\ imap' = imap
      BY <1>0, <1>1, OpenNow
    <2>2. StepFine(a)'
      BY <1>3, <1>9, <1>10, <2>1 DEF StepFine
    <2>3. StepFine(b)' /\ StepFine(c)'
      BY <1>3 DEF StepFine
    <2> QED
      BY <1>5, <2>2, <2>3
  <1>12. Planned'
    <2>1. \A s \in Todo(task') : s.do \in StepsIn(phase')
      BY <1>1, <1>3, <1>5 DEF StepsIn
    <2>2. Ends' /\ \E s \in Todo(task') : s.do = "map"
      BY <1>3, <1>5 DEF Ends
    <2> QED
      BY <1>5, <1>11, <2>1, <2>2 DEF Planned
  <1>13. unlinked' \subseteq OpenInos'
    BY <1>1, <1>10 DEF LInv, UnlinkedFine
  <1>14. \A s \in Todo(task') : s.do # "unlink" /\ NewNames(s)
    BY <1>3, <1>5, <1>8 DEF NewNames
  <1> QED
    BY <1>1, <1>7, <1>10, <1>12, <1>13, <1>14, BeginsKeeps

\* Only descriptors change.
Still == UNCHANGED <<dev, sb, super, imap, summary, task, work, phase, load>>

\* A call that only changes open files leaves the rest as it is.
LEMMA StillSame ==
    ASSUME LInv, Still
    PROVE  /\ Typed' /\ MemoryGood' /\ DeviceGood' /\ Held' /\ MapWritten' /\ Numbered' /\ Synced'
           /\ DurableMap' = DurableMap /\ Chain' = Chain /\ Disk' = Disk
           /\ FileBlocks' = FileBlocks /\ MapBlocks' = MapBlocks
           /\ DirOf(dev, Known)' = DirOf(dev, Known) /\ DirOf(dev, Stored)' = DirOf(dev, Stored)
           /\ Distance' = Distance
  <1>1. Known' = Known
    BY DEF Known, Nodes, Still
  <1>2. DeviceSame
    BY DeviceKept DEF Still
  <1>3. MemoryGood'
    <2>1. Good(dev, imap, Known, task, summary)
      BY GoodNow
    <2>2. Good(dev', imap', Known', task', summary')
      BY <1>1, <2>1 DEF Still
    <2> QED
      BY <2>2 DEF MemoryGood
  <1>4. DirOf(dev, Known)' = DirOf(dev, Known)
    BY <1>1 DEF DirOf, Still
  <1>5. DurableMap' = DurableMap /\ DeviceGood' /\ DirOf(dev, Stored)' = DirOf(dev, Stored)
    BY <1>2 DEF DeviceSame
  <1>6. Typed' /\ MapWritten' /\ Numbered' /\ Synced'
    BY <1>5 DEF Still, LInv, Typed, MapWritten, Numbered, Synced
  <1>7. Held'
    BY DEF Still, LInv, Held, Ends, InodePending, Todo, CleanPhases
  <1>8. Chain' = Chain /\ FileBlocks' = FileBlocks /\ MapBlocks' = MapBlocks
    BY DEF Still, Chain, FileBlocks, MapBlocks
  <1>9. Disk' = Disk
    BY <1>2, DiskSame DEF Still
  <1>10. Distance' = Distance
    BY DEF Still, Distance, W!LogDistance
  <1> QED
    BY <1>3, <1>4, <1>5, <1>6, <1>7, <1>8, <1>9, <1>10

\* Between calls, what unlinked inodes have to fear is the directory.
LEMMA StillUnlinked ==
    ASSUME LInv, Still, phase = "idle", unlinked' = unlinked, unlinked \subseteq OpenInos'
    PROVE  UnlinkedFine'
  <1>1. /\ unlinked \subseteq OpenInos
        /\ \A ino \in unlinked : /\ Unnamed(ino)
                                 /\ \A n \in DOMAIN DirOf(dev, Stored) : DirOf(dev, Stored)[n] # ino
    BY DEF LInv, UnlinkedFine, Finishing
  <1>2. task' = <<>> /\ task = <<>> /\ Todo(<<>>) = {}
    BY NoTask, NoSteps DEF Still
  <1>3. PICK D, S : D = DirOf(dev, Known) /\ S = DirOf(dev, Stored)
    OBVIOUS
  <1>4. DirOf(dev, Known)' = D /\ DirOf(dev, Stored)' = S
    BY <1>3, StillSame
  <1>5. \A ino \in unlinked : Unnamed(ino)' /\ \A n \in DOMAIN S : S[n] # ino
    BY <1>1, <1>2, <1>3, <1>4 DEF Unnamed
  <1>6. \A s \in Todo(task') : s.do # "unlink"
    BY <1>2
  <1> QED
    BY <1>4, <1>5, <1>6 DEF UnlinkedFine

\* Closing a descriptor keeps LInv, and is a step of LogWindow.
LEMMA CloseKeeps ==
    ASSUME LInv, NEW fd \in Fds, Close(fd)
    PROVE  LInv' /\ [W!Next]_W!vars
  <1>1. /\ phase = "idle" /\ Still
        /\ UNCHANGED <<committed, unlinked, expected, dirty, overran, lost>>
        /\ open' = [open EXCEPT ![fd] = NoIno]
        /\ open[fd] \in unlinked => \E other \in Fds \ {fd} : open[other] = open[fd]
    BY DEF Close, Still, running, history, bounds
  <1>2. task' = <<>> /\ work' = <<>> /\ phase' = "idle"
    BY <1>1, NoTask DEF Still, LInv, Held
  <1>3. Planned'
    BY <1>2, IdlePlan
  <1>4. /\ open' \in [Fds -> Nat] /\ OpenInos' \subseteq OpenInos
        /\ \A ino \in unlinked : ino \in OpenInos'
    <2>1. open \in [Fds -> Nat] /\ unlinked \subseteq OpenInos
      BY DEF LInv, OpenFine, UnlinkedFine
    <2>2. /\ open' \in [Fds -> Nat] /\ OpenInos' \subseteq OpenInos
          /\ \A ino \in OpenInos : ino # open[fd] => ino \in OpenInos'
          /\ (\E other \in Fds \ {fd} : open[other] = open[fd]) => OpenInos' = OpenInos
      BY <1>1, <2>1, FdClosed
    <2> QED
      BY <1>1, <2>1, <2>2
  <1>5. OpenFine'
    BY <1>1, <1>4, StillSame DEF Still, LInv, OpenFine
  <1>6. UnlinkedFine'
    BY <1>1, <1>4, StillUnlinked
  <1>7. UNCHANGED W!vars
    <2>1. UNCHANGED <<super, summary, committed, phase, expected, dirty, overran, lost>>
      BY <1>1 DEF Still
    <2> QED
      BY <1>1, <2>1, StillSame, StutterStep
  <1>8. W!IInv'
    BY <1>7, LogFits, W!NextIInv DEF LInv
  <1> QED
    BY <1>1, <1>3, <1>5, <1>6, <1>7, <1>8, StillSame DEF LInv

\* Opening a file that is there does, too.
LEMMA OpenExistingKeeps ==
    ASSUME LInv, NEW n, OpenExisting(n)
    PROVE  LInv' /\ [W!Next]_W!vars
  <1>1. /\ phase = "idle" /\ Still /\ FreeFds # {} /\ n \in DOMAIN Dir
        /\ UNCHANGED <<unlinked, expected, dirty, overran, lost>>
        /\ open' = [open EXCEPT ![LeastFreeFd] = Dir[n]]
        /\ committed' = [head |-> super.head, tail |-> super.tail]
    BY DEF OpenExisting, May, Still, running, history
  <1>2. task' = <<>> /\ work' = <<>> /\ phase' = "idle" /\ work = <<>>
    BY <1>1, NoTask DEF Still, LInv, Held
  <1>3. Planned'
    BY <1>2, IdlePlan
  <1>4. PICK ino, fd : ino = Dir[n] /\ fd = LeastFreeFd
    OBVIOUS
  <1>5. ino \in DOMAIN imap \ {Root} /\ ino \in Nat /\ ino \in DOMAIN DurableMap
    <2>1. EntriesFine(Dir, DOMAIN imap)
      BY <1>2, IdleKnown, GoodNow DEF Good, Named
    <2>2. ino \in DOMAIN imap \ {Root}
      BY <1>1, <1>4, <2>1 DEF EntriesFine
    <2> QED
      BY <1>1, <2>2, GoodNow DEF LInv, Synced
  <1>6. fd \in Fds /\ open[fd] = NoIno
    BY <1>1, <1>4, LeastIsFree DEF FreeFds
  <1>7. /\ open' \in [Fds -> Nat] /\ OpenInos \subseteq OpenInos'
        /\ OpenInos' \subseteq OpenInos \cup {ino}
    <2>1. open \in [Fds -> Nat]
      BY DEF LInv, OpenFine
    <2>2. /\ open' \in [Fds -> Nat] /\ open'[fd] = ino
          /\ \A other \in Fds : other # fd => open'[other] = open[other]
      BY <1>1, <1>4, <1>5, <1>6, <2>1
    <2> QED
      BY <1>6, <2>2 DEF OpenInos
  <1>8. OpenFine'
    BY <1>1, <1>5, <1>7, StillSame DEF Still, LInv, OpenFine
  <1>9. UnlinkedFine'
    BY <1>1, <1>7, StillUnlinked DEF LInv, UnlinkedFine
  <1>10. W!CommitWithoutWrite
    BY <1>1, <1>2, StillSame DEF W!CommitWithoutWrite, W!history, Still
  <1>11. [W!Next]_W!vars
    BY <1>10 DEF W!Next
  <1>12. W!IInv'
    BY <1>11, LogFits, W!NextIInv DEF LInv
  <1> QED
    BY <1>1, <1>3, <1>8, <1>9, <1>11, <1>12, StillSame DEF LInv

\* The steps of write and truncate on blocks of a file that will have that size.
FileStep(s, ino, size) ==
    \/ s.do = "data" /\ s.ino = ino /\ s.idx \in Nat /\ s.idx < BlocksFor(size)
    \/ s = CutStep(ino, s.idx) /\ s.idx \in Idx

\* What a step of write and truncate can be.
LEMMA FileStepIs ==
    ASSUME NEW s, NEW ino, NEW size, FileStep(s, ino, size), size \in Nat, BlocksFor(size) <= MaxBlocks
    PROVE  /\ s.do \in {"data", "cut"} /\ s.ino = ino /\ s.idx \in Idx
           /\ s.do = "data" => s.idx < BlocksFor(size)
           /\ s.do = "cut" => s = CutStep(ino, s.idx)
  <1>1. BlocksFor(size) \in Nat /\ MaxBlocks \in Nat
    BY BlocksForRange, Sizes
  <1>2. CASE s.do = "data" /\ s.ino = ino /\ s.idx \in Nat /\ s.idx < BlocksFor(size)
    BY <1>1, <1>2 DEF Idx
  <1>3. CASE s = CutStep(ino, s.idx) /\ s.idx \in Idx
    BY <1>3 DEF CutStep
  <1> QED
    BY <1>2, <1>3 DEF FileStep

\* The steps that end write and truncate.
LEMMA InodeMapEnd ==
    ASSUME NEW ino, NEW size, NEW last,
           last = <<InodeStep(ino, size), MapStep, Step("end", NoIno)>>
    PROVE  /\ last \in Seq(Todo(last)) /\ Len(last) = 3 /\ Ordered(last)
           /\ Todo(last) = {InodeStep(ino, size), MapStep, Step("end", NoIno)}
           /\ last # <<>> /\ last[1] = InodeStep(ino, size)
           /\ InodeStep(ino, size).do = "inode" /\ InodeStep(ino, size).ino = ino
           /\ InodeStep(ino, size).size = size
           /\ MapStep.do = "map" /\ MapStep.ino = NoIno
           /\ Step("end", NoIno).do = "end" /\ Step("end", NoIno).ino = NoIno
  <1>1. PICK a, b, c : a = InodeStep(ino, size) /\ b = MapStep /\ c = Step("end", NoIno)
    OBVIOUS
  <1>2. /\ a.do = "inode" /\ a.ino = ino /\ a.size = size /\ b.do = "map" /\ b.ino = NoIno
        /\ c.do = "end" /\ c.ino = NoIno
    BY <1>1 DEF InodeStep, Step, MapStep
  <1>3. Before(a, b) /\ Before(a, c) /\ Before(b, c)
    BY <1>2 DEF Before
  <1> QED
    BY <1>1, <1>2, <1>3, ThreeSteps

\* The plan of write and truncate.
FilePlan(ino, size, steps) ==
    /\ phase = "idle" /\ phase' = "op"
    /\ UNCHANGED <<dev, sb, imap, summary, committed, expected, dirty, overran, lost, load>>
    /\ UNCHANGED <<super, open, unlinked>>
    /\ work' = Loaded({ino})
    /\ task' = steps \o <<InodeStep(ino, size), MapStep, Step("end", NoIno)>>
    /\ size \in Nat /\ BlocksFor(size) <= MaxBlocks
    /\ steps \in Seq(Todo(steps))
    /\ \A s \in Todo(steps) : FileStep(s, ino, size)
    /\ \A k \in Idx : k < BlocksFor(ReadInode(ino).size)
                        => k < BlocksFor(size) \/ CutStep(ino, k) \in Todo(steps)

\* A call that starts with an ordered list of such steps keeps LInv.
LEMMA FilePlanKeeps ==
    ASSUME LInv, NEW fd \in Fds, open[fd] # NoIno, NEW ino, ino = open[fd], NEW size, NEW steps,
           FilePlan(ino, size, steps)
    PROVE  LInv' /\ [W!Next]_W!vars
  <1>1. /\ ino \in DOMAIN imap /\ ino # Root /\ ino \in Nat \ {NoIno} /\ ino < super.next
        /\ Known[ino] = ReadInode(ino)
    BY OpenNow DEF FilePlan
  <1>2. PICK last : last = <<InodeStep(ino, size), MapStep, Step("end", NoIno)>>
    OBVIOUS
  <1>3. PICK a, b, c : a = InodeStep(ino, size) /\ b = MapStep /\ c = Step("end", NoIno)
    OBVIOUS
  <1>4. /\ last \in Seq(Todo(last)) /\ Ordered(last) /\ Todo(last) = {a, b, c}
        /\ last # <<>> /\ last[1] = a
        /\ a.do = "inode" /\ a.ino = ino /\ a.size = size
        /\ b.do = "map" /\ b.ino = NoIno /\ c.do = "end" /\ c.ino = NoIno
    BY <1>2, <1>3, InodeMapEnd
  <1>5. \A s \in Todo(steps) : /\ s.do \in {"data", "cut"} /\ s.ino = ino /\ s.idx \in Idx
                               /\ s.do = "data" => s.idx < BlocksFor(size)
                               /\ s.do = "cut" => s = CutStep(ino, s.idx)
    BY FileStepIs DEF FilePlan
  <1>6. Ordered(steps) /\ \A s \in Todo(steps), t \in Todo(last) : Before(s, t)
    <2>1. \A s, t \in Todo(steps) : Before(s, t)
      BY <1>1, <1>5 DEF Before
    <2>2. \A s \in Todo(steps), t \in Todo(last) : Before(s, t)
      BY <1>1, <1>4, <1>5 DEF Before
    <2> QED
      BY <2>1, <2>2, InTodo DEF Ordered
  <1>7. /\ task' \in Seq(Todo(task')) /\ Ordered(task')
        /\ Todo(task') = Todo(steps) \cup {a, b, c}
        /\ task' # <<>> /\ task'[1].do \in {"data", "cut", "inode"}
    <2>1. task' = steps \o last /\ steps \in Seq(Todo(steps))
      BY <1>2 DEF FilePlan
    <2>2. /\ task' \in Seq(Todo(task')) /\ Ordered(task')
          /\ Todo(task') = Todo(steps) \cup Todo(last)
          /\ steps # <<>> => task' # <<>> /\ task'[1] = steps[1]
      BY <1>4, <1>6, <2>1, ConcatTodo
    <2>3. steps # <<>> => steps[1] \in Todo(steps)
      BY <2>1, TailTodo
    <2>4. CASE steps # <<>>
      BY <1>4, <1>5, <2>2, <2>3, <2>4
    <2>5. CASE steps = <<>>
      <3>1. task' = last
        BY <1>4, <2>1, <2>5
      <3> QED
        BY <1>4, <2>2, <3>1
    <2> QED
      BY <2>4, <2>5
  <1>8. FitsPass(Known, <<>>, Known, task', DOMAIN imap, {})
    <2>1. ASSUME NEW s \in Todo(task'), s.do = "inode", NEW k \in Idx,
                 k < Blocks(s.ino, Known[s.ino].size)
          PROVE  k < Blocks(s.ino, s.size) \/ CutStep(s.ino, k) \in Todo(task')
      <3>1. s = a
        BY <1>4, <1>5, <1>7, <2>1
      <3>2. k < BlocksFor(ReadInode(ino).size)
        BY <1>1, <1>4, <2>1, <3>1 DEF Blocks
      <3>3. k < BlocksFor(size) \/ CutStep(ino, k) \in Todo(steps)
        BY <3>2 DEF FilePlan
      <3> QED
        BY <1>1, <1>4, <1>7, <3>1, <3>3 DEF Blocks
    <2> QED
      BY <2>1, FitsCall
  <1>9. DOMAIN work' = {ino} /\ work'[ino] = ReadInode(ino)
    BY DEF FilePlan, Loaded
  <1>10. /\ phase = "idle" /\ phase' = "op"
         /\ UNCHANGED <<dev, sb, imap, summary, committed, expected, dirty, overran, lost, load>>
         /\ UNCHANGED <<super, open, unlinked>>
    BY DEF FilePlan
  <1>11. Begins
    <2>1. super \in Superblocks /\ super.next \in Nat
      BY DEF LInv, Typed, Superblocks
    <2> QED
      BY <1>7, <1>8, <1>9, <1>10, <2>1 DEF Begins, Settled
  <1>12. InodePending(task', ino)
    BY <1>4, <1>7 DEF InodePending
  <1>13. \A s \in Todo(task') : StepFine(s)'
    <2>1. ASSUME NEW s \in Todo(steps) PROVE StepFine(s)'
      <3>1. s.do = "data" => DataFine(s)'
        BY <1>1, <1>4, <1>5, <1>7 DEF DataFine, Blocks
      <3> QED
        BY <1>1, <1>5, <1>9, <1>10, <1>12, <3>1 DEF StepFine
    <2>2. StepFine(a)'
      <3>1. InodeFine(a)'
        BY <1>1, <1>4, <1>9, <1>10 DEF InodeFine, FilePlan, Blocks
      <3> QED
        BY <1>4, <3>1 DEF StepFine
    <2>3. StepFine(b)' /\ StepFine(c)'
      BY <1>4 DEF StepFine
    <2> QED
      BY <1>7, <2>1, <2>2, <2>3
  <1>14. Planned'
    <2>1. \A s \in Todo(task') : s.do \in StepsIn(phase')
      BY <1>4, <1>5, <1>7, <1>10 DEF StepsIn
    <2>2. Ends' /\ \E s \in Todo(task') : s.do = "map"
      BY <1>4, <1>7 DEF Ends
    <2> QED
      BY <1>7, <1>13, <2>1, <2>2 DEF Planned
  <1>15. \A s \in Todo(task') : s.do # "unlink" /\ NewNames(s)
    BY <1>1, <1>4, <1>5, <1>7 DEF NewNames, IsDirStep
  <1>16. /\ open' \in [Fds -> Nat] /\ OpenInos' = OpenInos
         /\ unlinked' \subseteq unlinked /\ unlinked' \subseteq OpenInos'
    BY <1>10 DEF LInv, OpenFine, UnlinkedFine, OpenInos
  <1> QED
    BY <1>10, <1>11, <1>14, <1>15, <1>16, BeginsKeeps

\* The blocks between two cells.
LEMMA BlocksBetween ==
    ASSUME NEW pos \in Nat, NEW end \in Nat, pos <= end
    PROVE  /\ pos \div CellsPerBlock \in Nat
           /\ BlocksFor(end) - (pos \div CellsPerBlock) \in Nat
  <1>1. CellsPerBlock \in Nat \ {0}
    BY Sizes
  <1>2. PICK c : c = CellsPerBlock
    OBVIOUS
  <1>3. c \in Nat \ {0}
    BY <1>1, <1>2
  <1>4. pos \div c \in Nat /\ (end + c - 1) \div c \in Nat /\ pos \div c <= (end + c - 1) \div c
    BY <1>3
  <1> QED
    BY <1>2, <1>4 DEF BlocksFor

\* Starting a write keeps LInv, and is a step of LogWindow.
LEMMA WriteKeeps ==
    ASSUME LInv, NEW fd \in Fds, NEW w \in load.writes, Write(fd, w)
    PROVE  LInv' /\ [W!Next]_W!vars
  <1>0. PICK ino, inode, end, first, size :
           /\ ino = open[fd] /\ inode = ReadInode(ino) /\ end = w.pos + Len(w.data)
           /\ first = w.pos \div CellsPerBlock
           /\ size = IF end > inode.size THEN end ELSE inode.size
    OBVIOUS
  <1> DEFINE changed(idx) ==
                 [k \in 0 .. (CellsPerBlock - 1) |->
                     LET at == idx * CellsPerBlock + k
                     IN  IF at >= w.pos /\ at < end THEN w.data[at - w.pos + 1]
                         ELSE CellsOf(dev, inode, idx)[k]]
             n == BlocksFor(end) - first
  <1>1. PICK blocks : blocks = [i \in 1 .. n |->
                                   DataStep(ino, first + i - 1, DataBlock(changed(first + i - 1)))]
    OBVIOUS
  <1>2. /\ phase = "idle" /\ phase' = "op" /\ ino # NoIno
        /\ UNCHANGED <<dev, sb, imap, summary, committed, expected, dirty, overran, lost, load>>
        /\ UNCHANGED <<super, open, unlinked>>
        /\ work' = Loaded({ino})
        /\ task' = blocks \o <<InodeStep(ino, size), MapStep, Step("end", NoIno)>>
    BY <1>0, <1>1 DEF Write, Call, PhaseOf, May
  <1>3. /\ w.pos \in Nat /\ end \in Nat /\ w.pos <= end /\ end \in 0 .. MaxCells
    <2>1. load \in Loads
      BY DEF LInv, Typed
    <2>2. w.pos \in Nat /\ w.data \in Seq(Nat) /\ w.pos + Len(w.data) \in 1 .. MaxCells
      BY <2>1, LfsAssumption
    <2>3. Len(w.data) \in Nat
      BY <2>2
    <2>4. MaxCells \in Nat
      BY LfsAssumption
    <2> QED
      BY <1>0, <2>2, <2>3, <2>4
  <1>4. first \in Nat /\ n \in Nat
    BY <1>0, <1>3, BlocksBetween
  <1>5. inode.size \in Nat /\ BlocksFor(inode.size) <= MaxBlocks
    BY <1>0, <1>2, OpenNow
  <1>6. /\ size \in Nat /\ BlocksFor(size) <= MaxBlocks
        /\ BlocksFor(end) <= BlocksFor(size) /\ BlocksFor(inode.size) <= BlocksFor(size)
    BY <1>0, <1>3, <1>5, BlocksForRange
  <1>7. /\ Listed(blocks, n)
        /\ \A i \in 1 .. n : /\ blocks[i].do = "data" /\ blocks[i].ino = ino
                             /\ blocks[i].idx = first + i - 1
    <2> DEFINE step(i) == DataStep(ino, first + i - 1, DataBlock(changed(first + i - 1)))
    <2>1. \A i \in 1 .. n : /\ step(i).do = "data" /\ step(i).ino = ino
                            /\ step(i).idx = first + i - 1
      BY DEF DataStep
    <2>2. blocks = [i \in 1 .. n |-> step(i)]
      BY <1>1
    <2> HIDE DEF step, changed, n
    <2>3. Listed(blocks, n) /\ \A i \in 1 .. n : blocks[i] = step(i)
      BY <1>4, <2>2 DEF Listed
    <2> QED
      BY <2>1, <2>3
  <1> HIDE DEF n
  <1>8. /\ blocks \in Seq(Todo(blocks))
        /\ \A s \in Todo(blocks) : \E i \in 1 .. n : s = blocks[i]
    BY <1>4, <1>7, ListedSteps
  <1>9. \A i \in 1 .. n : first + i - 1 \in Nat /\ first + i - 1 < BlocksFor(size)
    <2>1. BlocksFor(end) \in Nat /\ BlocksFor(size) \in Nat
      BY <1>3, <1>6, BlocksForRange
    <2> QED
      BY <1>4, <1>6, <2>1 DEF n
  <1>10. \A s \in Todo(blocks) : FileStep(s, ino, size)
    BY <1>7, <1>8, <1>9 DEF FileStep
  <1>11. \A k \in Idx : k < BlocksFor(inode.size) => k < BlocksFor(size)
    BY <1>5, <1>6, BlocksForRange DEF Idx
  <1>12. FilePlan(ino, size, blocks)
    BY <1>0, <1>2, <1>6, <1>8, <1>10, <1>11 DEF FilePlan
  <1> QED
    BY <1>0, <1>2, <1>12, FilePlanKeeps

\* Starting a truncate does, too.
LEMMA TruncateKeeps ==
    ASSUME LInv, NEW fd \in Fds, NEW size \in load.sizes, Truncate(fd, size)
    PROVE  LInv' /\ [W!Next]_W!vars
  <1>0. PICK ino, inode, keep, cut, last :
           /\ ino = open[fd] /\ inode = ReadInode(ino) /\ keep = BlocksFor(size)
           /\ cut = size % CellsPerBlock /\ last = keep - 1
    OBVIOUS
  <1> DEFINE zeroed == [k \in 0 .. (CellsPerBlock - 1) |->
                           IF k < cut THEN CellsOf(dev, inode, last)[k] ELSE Zero]
             n == BlocksFor(inode.size) - keep
  <1>1. PICK partial : partial = IF cut > 0 /\ GetBlockAddr(dev, inode, last) # NoBlock
                                 THEN <<DataStep(ino, last, DataBlock(zeroed))>> ELSE <<>>
    OBVIOUS
  <1>2. PICK cuts : cuts = [i \in 1 .. n |-> CutStep(ino, keep + i - 1)]
    OBVIOUS
  <1>3. PICK shrink : shrink = IF size >= inode.size THEN <<>> ELSE partial \o cuts
    OBVIOUS
  <1>4. /\ phase = "idle" /\ phase' = "op" /\ ino # NoIno
        /\ UNCHANGED <<dev, sb, imap, summary, committed, expected, dirty, overran, lost, load>>
        /\ UNCHANGED <<super, open, unlinked>>
        /\ work' = Loaded({ino})
        /\ task' = shrink \o <<InodeStep(ino, size), MapStep, Step("end", NoIno)>>
    BY <1>0, <1>1, <1>2, <1>3 DEF Truncate, Call, PhaseOf, May
  <1>5. size \in Nat /\ keep \in Nat /\ keep <= MaxBlocks
    <2>1. load \in Loads /\ MaxCells \in Nat
      BY LfsAssumption DEF LInv, Typed
    <2>2. size \in 0 .. MaxCells
      BY <2>1, LfsAssumption
    <2> QED
      BY <1>0, <2>1, <2>2, BlocksForRange
  <1>6. /\ inode.size \in Nat /\ BlocksFor(inode.size) \in Nat /\ BlocksFor(inode.size) <= MaxBlocks
    BY <1>0, <1>4, OpenNow, BlocksForRange
  <1>7. FilePlan(ino, size, shrink)
    <2>1. CASE size >= inode.size
      <3>1. shrink = <<>> /\ <<>> \in Seq(Todo(<<>>)) /\ Todo(<<>>) = {}
        BY <1>3, <2>1, NoSteps
      <3>2. \A k \in Idx : k < BlocksFor(inode.size) => k < BlocksFor(size)
        <4>1. BlocksFor(inode.size) <= keep
          BY <1>0, <1>5, <1>6, <2>1, BlocksForRange
        <4> QED
          BY <1>0, <1>5, <1>6, <4>1 DEF Idx
      <3> QED
        BY <1>0, <1>4, <1>5, <3>1, <3>2 DEF FilePlan
    <2>2. CASE size < inode.size
      <3>1. shrink = partial \o cuts
        BY <1>3, <1>5, <1>6, <2>2
      <3>2. n \in Nat
        <4>1. keep <= BlocksFor(inode.size)
          BY <1>0, <1>5, <1>6, <2>2, BlocksForRange
        <4> QED
          BY <1>5, <1>6, <4>1
      <3>3. Listed(cuts, n) /\ \A i \in 1 .. n : cuts[i] = CutStep(ino, keep + i - 1)
        BY <1>2, <3>2 DEF Listed
      <3> HIDE DEF n
      <3>4. /\ cuts \in Seq(Todo(cuts)) /\ Len(cuts) = n
            /\ \A s \in Todo(cuts) : \E i \in 1 .. n : s = cuts[i]
        BY <3>2, <3>3, ListedSteps
      <3>5. \A i \in 1 .. n : keep + i - 1 \in Idx
        BY <1>5, <1>6, <3>2, Sizes DEF n, Idx
      <3>6. \A s \in Todo(cuts) : FileStep(s, ino, size)
        BY <3>3, <3>4, <3>5 DEF FileStep, CutStep
      <3>7. /\ partial \in Seq(Todo(partial))
            /\ \A s \in Todo(partial) : FileStep(s, ino, size)
        <4>1. CASE cut > 0 /\ GetBlockAddr(dev, inode, last) # NoBlock
          <5>1. PICK s : s = DataStep(ino, last, DataBlock(zeroed))
            OBVIOUS
          <5>2. partial = <<s>>
            BY <1>1, <4>1, <5>1
          <5>3. s.do = "data" /\ s.ino = ino /\ s.idx = last
            BY <5>1 DEF DataStep
          <5>4. last \in Nat /\ last < keep
            <6>1. PICK c : c = CellsPerBlock /\ c \in Nat \ {0}
              BY Sizes
            <6>2. size % c > 0 => (size + c - 1) \div c >= 1
              BY <1>5, <6>1
            <6>3. keep >= 1
              BY <1>0, <4>1, <6>1, <6>2 DEF BlocksFor
            <6> QED
              BY <1>0, <1>5, <6>3
          <5>5. FileStep(s, ino, size)
            BY <1>0, <5>3, <5>4 DEF FileStep
          <5> QED
            BY <5>2, <5>5, OneStep
        <4>2. CASE ~(cut > 0 /\ GetBlockAddr(dev, inode, last) # NoBlock)
          <5>1. partial = <<>>
            BY <1>1, <4>2
          <5> QED
            BY <5>1, NoSteps
        <4> QED
          BY <4>1, <4>2
      <3>8. /\ shrink \in Seq(Todo(shrink)) /\ Todo(shrink) = Todo(partial) \cup Todo(cuts)
        BY <3>1, <3>4, <3>7, ConcatTodo
      <3>9. ASSUME NEW k \in Idx, k < BlocksFor(inode.size), ~(k < BlocksFor(size))
            PROVE  CutStep(ino, k) \in Todo(shrink)
        <4>1. k \in Nat /\ k >= keep
          BY <1>0, <1>5, <3>9, Sizes
        <4>2. k - keep + 1 \in 1 .. n /\ keep + (k - keep + 1) - 1 = k
          BY <1>5, <1>6, <3>9, <4>1 DEF n
        <4>3. cuts[k - keep + 1] = CutStep(ino, k)
          BY <3>3, <4>2
        <4>4. cuts[k - keep + 1] \in Todo(cuts)
          BY <3>4, <4>2, InTodo
        <4> QED
          BY <3>8, <4>3, <4>4
      <3> QED
        BY <1>0, <1>4, <1>5, <3>6, <3>7, <3>8, <3>9 DEF FilePlan
    <2> QED
      BY <1>5, <1>6, <2>1, <2>2
  <1> QED
    BY <1>0, <1>4, <1>7, FilePlanKeeps

\* The two writes of the directory.
LEMMA DirStepsAre ==
    ASSUME LInv, phase = "idle", NEW entries, \A n \in DOMAIN entries : entries[n] # Root
    PROVE  \E a, b, d :
           /\ d = DirSteps(entries) /\ d \in Seq(Todo(d)) /\ Ordered(d) /\ Todo(d) = {a, b}
           /\ Len(d) = 2 /\ d # <<>> /\ d[1] = a
           /\ a.do = "data" /\ a.ino = Root /\ a.idx = 0 /\ a.block = DirBlock(entries)
           /\ a.block.entries = entries
           /\ b.do = "inode" /\ b.ino = Root /\ b.size \in Nat
           /\ Root \in DOMAIN imap /\ Root < super.next /\ Root \in Nat \ {NoIno}
  <1>1. PICK a, b, d : /\ a = DataStep(Root, 0, DirBlock(entries))
                       /\ b = InodeStep(Root, ReadInode(Root).size) /\ d = DirSteps(entries)
    OBVIOUS
  <1>2. /\ a.do = "data" /\ a.ino = Root /\ a.idx = 0 /\ a.block = DirBlock(entries)
        /\ a.block.entries = entries
        /\ b.do = "inode" /\ b.ino = Root /\ b.size = ReadInode(Root).size
    BY <1>1 DEF DataStep, InodeStep, DirBlock
  <1>3. Root \in DOMAIN imap /\ Root < super.next /\ Root \in Nat \ {NoIno}
    BY GoodNow DEF LInv, Numbered
  <1>4. ReadInode(Root).size \in Nat
    <2>1. work = <<>>
      BY DEF LInv, Held
    <2>2. Known[Root] = ReadInode(Root)
      BY <1>3, <2>1, IdleKnown
    <2> QED
      BY <1>3, <2>2, GoodNow DEF Formed, IsNode, NodeOf
  <1>5. Before(a, b)
    BY <1>2 DEF Before
  <1>6. d = <<a, b>>
    BY <1>1 DEF DirSteps
  <1>7. PICK e : e = <<a, b>>
    OBVIOUS
  <1>8. /\ e \in Seq(Todo(e)) /\ Todo(e) = {a, b} /\ Len(e) = 2 /\ e # <<>> /\ e[1] = a
        /\ Before(a, b) => Ordered(e)
    BY <1>7, TwoSteps
  <1>9. d = e /\ d = DirSteps(entries)
    BY <1>1, <1>6, <1>7
  <1>10. b.size \in Nat
    BY <1>2, <1>4
  <1>11. /\ d = DirSteps(entries) /\ d \in Seq(Todo(d)) /\ Ordered(d) /\ Todo(d) = {a, b}
         /\ Len(d) = 2 /\ d # <<>> /\ d[1] = a
    BY <1>5, <1>8, <1>9
  <1> QED
    BY <1>2, <1>3, <1>10, <1>11

\* The two steps are fine ones.
LEMMA DirStepsFine ==
    ASSUME LInv, phase' = "op", imap' = imap, super'.next >= super.next, super' \in Superblocks,
           Root \in DOMAIN work', Root \in DOMAIN imap,
           NEW a, NEW b, a \in Todo(task'), b \in Todo(task'), NEW entries,
           a.do = "data", a.ino = Root, a.idx = 0, a.block = DirBlock(entries),
           a.block.entries = entries,
           b.do = "inode", b.ino = Root, b.size \in Nat,
           NEW inos, EntriesFine(entries, inos),
           \A i \in inos : i \in DOMAIN imap \/ (i \in Nat /\ InodePending(task', i))
    PROVE  StepFine(a)' /\ StepFine(b)'
  <1>1. InodePending(task', Root)
    BY DEF InodePending
  <1>2. 0 \in Idx /\ Blocks(Root, b.size) = 1 /\ 1 <= MaxBlocks /\ Root \in Nat \ {NoIno}
    BY Sizes DEF Blocks, Root, NoIno
  <1>3. Root < super'.next
    <2>1. Root < super.next /\ super.next \in Nat /\ super'.next \in Nat
      BY DEF LInv, Numbered, Typed, Superblocks
    <2> QED
      BY <2>1 DEF Root
  <1>4. EntriesFine(entries, DOMAIN imap' \cup {ino \in Nat : InodePending(task', ino)})
    BY DEF EntriesFine
  <1>5. DirStepFine(a)'
    BY <1>4 DEF DirStepFine
  <1>6. DataFine(a)'
    BY <1>2, <1>5 DEF DataFine
  <1>7. InodeFine(b)'
    BY <1>2, <1>3 DEF InodeFine
  <1>8. StepFine(a)'
    BY <1>1, <1>2, <1>6 DEF StepFine
  <1> QED
    BY <1>7, <1>8 DEF StepFine

\* The directory between calls.
LEMMA DirNow ==
    ASSUME LInv, phase = "idle"
    PROVE  /\ EntriesFine(Dir, DOMAIN imap) /\ work = <<>> /\ DOMAIN imap \subseteq Nat \ {NoIno}
           /\ \A ino \in DOMAIN imap : ino < super.next
           /\ super.next \in Nat /\ super \in Superblocks /\ Root < super.next
  <1>1. work = <<>>
    BY DEF LInv, Held
  <1>2. EntriesFine(Dir, DOMAIN imap)
    BY <1>1, IdleKnown, GoodNow DEF Good, Named
  <1> QED
    BY <1>1, <1>2, GoodNow DEF LInv, Numbered, Typed, Superblocks

\* Starting to create a file does.
LEMMA OpenNewKeeps ==
    ASSUME LInv, NEW n, OpenNew(n)
    PROVE  LInv' /\ [W!Next]_W!vars
  <1>0. PICK ino, dir : ino = super.next /\ dir = Dir
    OBVIOUS
  <1> DEFINE entries == [m \in DOMAIN dir \cup {n} |-> IF m = n THEN ino ELSE dir[m]]
             inodes == [i \in {Root, ino} |-> IF i = ino THEN NewInode(ino) ELSE ReadInode(Root)]
  <1>1. /\ phase = "idle" /\ phase' = "op" /\ FreeFds # {} /\ n \notin DOMAIN dir
        /\ UNCHANGED <<dev, sb, imap, summary, committed, expected, dirty, overran, lost, load>>
        /\ UNCHANGED <<open, unlinked>>
        /\ super' = [super EXCEPT !.next = ino + 1]
        /\ work' = inodes
        /\ task' = <<InodeStep(ino, 0)>> \o DirSteps(entries)
                      \o <<Step("superblock", NoIno), MapStep, Step("end", ino)>>
    BY <1>0 DEF OpenNew, Call, PhaseOf, May
  <1>2. /\ EntriesFine(dir, DOMAIN imap) /\ DOMAIN imap \subseteq Nat \ {NoIno}
        /\ \A i \in DOMAIN imap : i < ino
        /\ ino \in Nat /\ super \in Superblocks /\ Root < ino
    BY <1>0, <1>1, DirNow
  <1>3. ino \notin DOMAIN imap /\ ino # Root /\ ino # NoIno
    BY <1>2 DEF Root, NoIno
  <1>4. /\ super' \in Superblocks /\ super'.next = ino + 1 /\ super'.head = super.head
        /\ super'.tail = super.tail /\ super'.map = super.map
    BY <1>1, <1>2 DEF Superblocks
  <1>5. PICK E : E = entries
    OBVIOUS
  <1>6. /\ EntriesFine(E, DOMAIN imap \cup {ino}) /\ \A m \in DOMAIN E : E[m] # Root
        /\ \A m \in DOMAIN E : E[m] = ino \/ \E k \in DOMAIN dir : E[m] = dir[k]
    <2>1. /\ DOMAIN E = DOMAIN dir \cup {n} /\ E[n] = ino
          /\ \A m \in DOMAIN dir : E[m] = dir[m]
      BY <1>1, <1>5
    <2>2. /\ \A m \in DOMAIN dir : dir[m] \in DOMAIN imap \ {Root}
          /\ \A m, k \in DOMAIN dir : dir[m] = dir[k] => m = k
      BY <1>2 DEF EntriesFine
    <2>3. \A m \in DOMAIN E : E[m] \in (DOMAIN imap \cup {ino}) \ {Root}
      BY <1>3, <2>1, <2>2
    <2>4. \A m, k \in DOMAIN E : E[m] = E[k] => m = k
      BY <1>3, <2>1, <2>2
    <2> QED
      BY <2>1, <2>3, <2>4 DEF EntriesFine
  <1>7. PICK a, b, d :
           /\ d = DirSteps(E) /\ d \in Seq(Todo(d)) /\ Ordered(d) /\ Todo(d) = {a, b}
           /\ Len(d) = 2 /\ d # <<>> /\ d[1] = a
           /\ a.do = "data" /\ a.ino = Root /\ a.idx = 0 /\ a.block = DirBlock(E)
           /\ a.block.entries = E
           /\ b.do = "inode" /\ b.ino = Root /\ b.size \in Nat
           /\ Root \in DOMAIN imap /\ Root < super.next /\ Root \in Nat \ {NoIno}
    BY <1>1, <1>6, DirStepsAre
  <1>8. PICK x, p, q, r : /\ x = InodeStep(ino, 0) /\ p = Step("superblock", NoIno) /\ q = MapStep
                          /\ r = Step("end", ino)
    OBVIOUS
  <1>9. /\ x.do = "inode" /\ x.ino = ino /\ x.size = 0 /\ p.do = "superblock" /\ p.ino = NoIno
        /\ q.do = "map" /\ q.ino = NoIno /\ r.do = "end" /\ r.ino = ino
    BY <1>8 DEF InodeStep, Step, MapStep
  <1>10. PICK u, v, z : /\ u = <<x>> /\ v = <<p, q, r>> /\ z = u \o d
    OBVIOUS
  <1>11. task' = z \o v
    BY <1>1, <1>5, <1>7, <1>8, <1>10
  <1>12. /\ u \in Seq(Todo(u)) /\ Todo(u) = {x} /\ u # <<>> /\ u[1] = x /\ Ordered(u)
    BY <1>10, OneStep
  <1>13. v \in Seq(Todo(v)) /\ Todo(v) = {p, q, r} /\ Ordered(v)
    <2>1. Before(p, q) /\ Before(p, r) /\ Before(q, r)
      BY <1>9 DEF Before
    <2> QED
      BY <1>10, <2>1, ThreeSteps
  <1>14. /\ z \in Seq(Todo(z)) /\ Todo(z) = {x, a, b} /\ z # <<>> /\ z[1] = x /\ Ordered(z)
    <2>1. Before(x, a) /\ Before(x, b)
      BY <1>3, <1>7, <1>9 DEF Before
    <2>2. PICK f : f = u \o d
      OBVIOUS
    <2>3. /\ f \in Seq(Todo(f)) /\ Todo(f) = Todo(u) \cup Todo(d) /\ f # <<>> /\ f[1] = u[1]
          /\ (\A s \in Todo(u), t \in Todo(d) : Before(s, t)) => Ordered(f)
      BY <1>7, <1>12, <2>2, ConcatTodo
    <2>4. Ordered(f)
      BY <1>7, <1>12, <2>1, <2>3
    <2>5. Todo(f) = {x, a, b}
      BY <1>7, <1>12, <2>3
    <2>6. f[1] = x /\ z = f
      BY <1>10, <1>12, <2>2, <2>3
    <2> QED
      BY <2>3, <2>4, <2>5, <2>6
  <1>15. /\ task' \in Seq(Todo(task')) /\ Todo(task') = {x, a, b, p, q, r} /\ task' # <<>>
         /\ task'[1] = x /\ Ordered(task')
    <2>1. \A s \in Todo(z), t \in Todo(v) : Before(s, t)
      BY <1>3, <1>7, <1>9, <1>13, <1>14 DEF Before
    <2> QED
      BY <1>11, <1>13, <1>14, <2>1, ConcatTodo
  <1>16. FitsPass(Known, <<>>, Known, task', DOMAIN imap, {})
    <2>1. ASSUME NEW s \in Todo(task'), s.do = "inode", s.ino \in DOMAIN imap, NEW k \in Idx,
                 k < Blocks(s.ino, Known[s.ino].size)
          PROVE  k < Blocks(s.ino, s.size) \/ CutStep(s.ino, k) \in Todo(task')
      <3>1. s = b
        BY <1>3, <1>7, <1>9, <1>15, <2>1
      <3> QED
        BY <1>7, <2>1, <3>1 DEF Blocks
    <2> QED
      BY <2>1, FitsCall
  <1>17. /\ DOMAIN work' = {Root, ino} /\ work'[ino] = NewInode(ino)
         /\ work'[Root] = ReadInode(Root)
    BY <1>1, <1>3
  <1> HIDE DEF entries, inodes
  <1>18. Begins
    BY <1>0, <1>1, <1>2, <1>3, <1>4, <1>9, <1>15, <1>16, <1>17 DEF Begins, Settled
  <1>19. InodePending(task', ino)
    BY <1>9, <1>15 DEF InodePending
  <1>20. \A s \in Todo(task') : StepFine(s)'
    <2>1. StepFine(x)'
      <3>1. Blocks(ino, 0) <= MaxBlocks
        BY <1>3, BlocksForRange, Sizes DEF Blocks
      <3>2. InodeFine(x)'
        BY <1>2, <1>3, <1>4, <1>9, <1>17, <3>1 DEF InodeFine
      <3> QED
        BY <1>9, <3>2 DEF StepFine
    <2>2. StepFine(a)' /\ StepFine(b)'
      <3>1. PICK inos : inos = DOMAIN imap \cup {ino}
        OBVIOUS
      <3>2. EntriesFine(E, inos)
            /\ \A i \in inos : i \in DOMAIN imap \/ (i \in Nat /\ InodePending(task', i))
        BY <1>2, <1>6, <1>19, <3>1
      <3>3. super'.next >= super.next
        BY <1>0, <1>2, <1>4
      <3>4. Root \in DOMAIN work'
        BY <1>17
      <3> QED
        BY <1>1, <1>4, <1>7, <1>15, <3>2, <3>3, <3>4, DirStepsFine
    <2>3. StepFine(p)' /\ StepFine(q)'
      BY <1>9 DEF StepFine
    <2>4. StepFine(r)'
      <3>1. FreeFds' # {}
        BY <1>1 DEF FreeFds
      <3> QED
        BY <1>2, <1>3, <1>9, <1>19, <3>1 DEF StepFine
    <2> QED
      BY <1>15, <2>1, <2>2, <2>3, <2>4
  <1>21. Planned'
    <2>1. \A s \in Todo(task') : s.do \in StepsIn(phase')
      BY <1>1, <1>7, <1>9, <1>15 DEF StepsIn
    <2>2. Ends' /\ \E s \in Todo(task') : s.do = "map"
      BY <1>9, <1>15 DEF Ends
    <2> QED
      BY <1>15, <1>20, <2>1, <2>2 DEF Planned
  <1>22. \A s \in Todo(task') : s.do # "unlink" /\ NewNames(s)
    BY <1>0, <1>6, <1>7, <1>9, <1>15 DEF NewNames, IsDirStep
  <1>23. /\ open' \in [Fds -> Nat] /\ OpenInos' = OpenInos
         /\ unlinked' \subseteq unlinked /\ unlinked' \subseteq OpenInos'
    BY <1>1 DEF LInv, OpenFine, UnlinkedFine, OpenInos
  <1> QED
    BY <1>1, <1>18, <1>21, <1>22, <1>23, BeginsKeeps

\* Where the entry goes, no other leads to the inode.
LEMMA EntryGone ==
    ASSUME NEW dir, NEW inos, EntriesFine(dir, inos), NEW n \in DOMAIN dir, NEW e,
           e = [m \in DOMAIN dir \ {n} |-> dir[m]]
    PROVE  /\ EntriesFine(e, inos) /\ dir[n] \in inos \ {Root}
           /\ \A m \in DOMAIN e : e[m] # dir[n] /\ e[m] # Root /\ \E k \in DOMAIN dir : e[m] = dir[k]
  <1>1. /\ \A m \in DOMAIN dir : dir[m] \in inos \ {Root}
        /\ \A m, k \in DOMAIN dir : dir[m] = dir[k] => m = k
    BY DEF EntriesFine
  <1>2. DOMAIN e = DOMAIN dir \ {n} /\ \A m \in DOMAIN e : e[m] = dir[m]
    OBVIOUS
  <1>3. EntriesFine(e, inos)
    BY <1>1, <1>2 DEF EntriesFine
  <1> QED
    BY <1>1, <1>2, <1>3

\* What remove leaves to do between the directory and the map.
RestOf(ino, rest) ==
    /\ rest \in Seq(Todo(rest)) /\ Ordered(rest)
    /\ IF ino \in OpenInos
       THEN \E s, t : /\ Todo(rest) = {s, t} /\ Len(rest) = 2
                      /\ s.do = "unlink" /\ s.ino = ino
                      /\ t.do = "inode" /\ t.ino = ino /\ t.size = ReadInode(ino).size
       ELSE \E s : Todo(rest) = {s} /\ Len(rest) = 1 /\ s.do = "free" /\ s.ino = ino

\* What remove does after the directory is written.
LEMMA RestIs ==
    ASSUME NEW ino, ino # NoIno, NEW rest,
           rest = IF IsOpen(ino) THEN <<Step("unlink", ino), InodeStep(ino, ReadInode(ino).size)>>
                  ELSE <<Step("free", ino)>>
    PROVE  RestOf(ino, rest)
  <1>1. ino \in OpenInos <=> IsOpen(ino)
    BY DEF OpenInos, IsOpen
  <1>2. PICK s, t, u, p, q : /\ s = Step("unlink", ino) /\ t = InodeStep(ino, ReadInode(ino).size)
                             /\ u = Step("free", ino) /\ p = <<s, t>> /\ q = <<u>>
    OBVIOUS
  <1>3. /\ s.do = "unlink" /\ s.ino = ino /\ t.do = "inode" /\ t.ino = ino
        /\ t.size = ReadInode(ino).size /\ u.do = "free" /\ u.ino = ino
    BY <1>2 DEF Step, InodeStep
  <1>4. Before(s, t)
    BY <1>3 DEF Before
  <1>5. p \in Seq(Todo(p)) /\ Ordered(p) /\ Todo(p) = {s, t} /\ Len(p) = 2
    BY <1>2, <1>4, TwoSteps
  <1>6. q \in Seq(Todo(q)) /\ Ordered(q) /\ Todo(q) = {u} /\ Len(q) = 1
    BY <1>2, OneStep
  <1>7. CASE IsOpen(ino)
    <2>1. rest = p
      BY <1>2, <1>7
    <2> QED
      BY <1>1, <1>3, <1>5, <1>7, <2>1 DEF RestOf
  <1>8. CASE ~IsOpen(ino)
    <2>1. rest = q
      BY <1>2, <1>8
    <2> QED
      BY <1>1, <1>3, <1>6, <1>8, <2>1 DEF RestOf
  <1> QED
    BY <1>7, <1>8

\* What it does to the directory first, and the whole of it.
DirPart(d, a, b, ino) ==
    /\ d \in Seq(Todo(d)) /\ Ordered(d) /\ Todo(d) = {a, b} /\ Len(d) = 2 /\ d # <<>> /\ d[1] = a
    /\ a.do = "data" /\ a.ino = Root /\ \A m \in DOMAIN a.block.entries : a.block.entries[m] # ino
    /\ b.do = "inode" /\ b.ino = Root
    /\ ino # Root /\ ino # NoIno

Removal(todo, d, rest) == todo = d \o rest \o <<MapStep, Step("end", NoIno)>>

\* The steps of remove, in their order.
LEMMA RemoveOrdered ==
    ASSUME NEW d, NEW a, NEW b, NEW ino, DirPart(d, a, b, ino),
           NEW rest, RestOf(ino, rest), NEW todo, Removal(todo, d, rest)
    PROVE  /\ todo \in Seq(Todo(todo)) /\ Ordered(todo) /\ todo # <<>> /\ todo[1] = a
           /\ Todo(todo) = {a, b, MapStep, Step("end", NoIno)} \cup Todo(rest)
           /\ ino \in OpenInos => Len(todo) = 6
  <1>0. PICK last : last = <<MapStep, Step("end", NoIno)>>
    OBVIOUS
  <1>d. /\ d \in Seq(Todo(d)) /\ Ordered(d) /\ Todo(d) = {a, b} /\ Len(d) = 2 /\ d # <<>> /\ d[1] = a
        /\ a.do = "data" /\ a.ino = Root /\ \A m \in DOMAIN a.block.entries : a.block.entries[m] # ino
        /\ b.do = "inode" /\ b.ino = Root
        /\ ino # Root /\ ino # NoIno
    BY DEF DirPart
  <1>1. /\ last \in Seq(Todo(last)) /\ Todo(last) = {MapStep, Step("end", NoIno)}
        /\ Len(last) = 2 /\ Ordered(last)
        /\ MapStep.do = "map" /\ MapStep.ino = NoIno
        /\ Step("end", NoIno).do = "end" /\ Step("end", NoIno).ino = NoIno
    BY <1>0, MapAndEnd
  <1>2. /\ rest \in Seq(Todo(rest)) /\ Ordered(rest)
        /\ \A s \in Todo(rest) : s.do \in {"unlink", "inode", "free"} /\ s.ino = ino
        /\ ino \in OpenInos => Len(rest) = 2
    BY DEF RestOf
  <1>3. \A s \in Todo(d), t \in Todo(rest) : Before(s, t)
    <2>1. \A t \in Todo(rest) : Before(a, t)
      BY <1>2, <1>d DEF Before
    <2>2. \A t \in Todo(rest) : Before(b, t)
      BY <1>2, <1>d DEF Before
    <2> QED
      BY <1>d, <2>1, <2>2
  <1>4. PICK z : z = d \o rest
    OBVIOUS
  <1>5. /\ z \in Seq(Todo(z)) /\ Len(z) = Len(d) + Len(rest) /\ Todo(z) = Todo(d) \cup Todo(rest)
        /\ z # <<>> /\ z[1] = d[1] /\ Ordered(z)
    BY <1>2, <1>3, <1>4, <1>d, ConcatTodo
  <1>6. \A s \in Todo(z), t \in Todo(last) : Before(s, t)
    <2>1. \A s \in Todo(z) : s.do \in {"data", "inode", "unlink", "free"}
      BY <1>2, <1>5, <1>d
    <2>2. \A s \in Todo(z), t \in {MapStep, Step("end", NoIno)} : Before(s, t)
      <3>1. SUFFICES ASSUME NEW s \in Todo(z), NEW t \in {MapStep, Step("end", NoIno)}
                     PROVE  Before(s, t)
        OBVIOUS
      <3>2. t.do \in {"map", "end"} /\ t.ino = NoIno
        BY <1>1
      <3>3. s.do \in {"data", "inode", "unlink", "free"}
        BY <2>1
      <3> QED
        BY <3>2, <3>3 DEF Before
    <2> QED
      BY <1>1, <2>2
  <1>7. todo = z \o last
    BY <1>0, <1>4 DEF Removal
  <1>8. /\ todo \in Seq(Todo(todo)) /\ Len(todo) = Len(z) + Len(last)
        /\ Todo(todo) = Todo(z) \cup Todo(last) /\ todo # <<>> /\ todo[1] = z[1] /\ Ordered(todo)
    <2>1. PICK y : y = z \o last
      OBVIOUS
    <2>2. /\ y \in Seq(Todo(y)) /\ Len(y) = Len(z) + Len(last)
          /\ Todo(y) = Todo(z) \cup Todo(last)
          /\ y # <<>> /\ y[1] = z[1]
          /\ Ordered(z) /\ Ordered(last) /\ (\A a1 \in Todo(z), b1 \in Todo(last) : Before(a1, b1))
               => Ordered(y)
      <3>1. z \in Seq(Todo(z)) /\ last \in Seq(Todo(last)) /\ z # <<>>
        BY <1>1, <1>5
      <3> QED
        BY <2>1, <3>1, ConcatTodo
    <2>3. Ordered(y)
      BY <1>1, <1>5, <1>6, <2>2
    <2> QED
      BY <1>5, <1>7, <2>1, <2>2, <2>3
  <1>9. ino \in OpenInos => Len(todo) = 6
    <2>1. Len(todo) = Len(z) + Len(last) /\ Len(z) = Len(d) + Len(rest)
      BY <1>5, <1>8
    <2>2. Len(d) = 2 /\ Len(last) = 2 /\ (ino \in OpenInos => Len(rest) = 2)
      BY <1>1, <1>2, <1>d
    <2> SUFFICES ASSUME ino \in OpenInos PROVE Len(todo) = 6
      OBVIOUS
    <2>3. Len(d) = 2 /\ Len(last) = 2 /\ Len(rest) = 2
      BY <2>2
    <2>4. Len(z) = 4
      BY <2>1, <2>3
    <2> QED
      BY <2>1, <2>3, <2>4
  <1> QED
    BY <1>1, <1>5, <1>8, <1>9, <1>d

\* Starting to remove a file keeps LInv, and is a step of LogWindow.
LEMMA RemoveFileKeeps ==
    ASSUME LInv, NEW n, RemoveFile(n)
    PROVE  LInv' /\ [W!Next]_W!vars
  <1>0. PICK dir, ino, rest, last : /\ dir = Dir /\ ino = dir[n] /\ last = <<MapStep, Step("end", NoIno)>>
           /\ rest = IF IsOpen(ino) THEN <<Step("unlink", ino), InodeStep(ino, ReadInode(ino).size)>>
                     ELSE <<Step("free", ino)>>
    OBVIOUS
  <1>1. PICK E : E = [m \in DOMAIN dir \ {n} |-> dir[m]]
    OBVIOUS
  <1>2. /\ phase = "idle" /\ phase' = "op" /\ n \in DOMAIN dir
        /\ UNCHANGED <<dev, sb, imap, summary, committed, expected, dirty, overran, lost, load>>
        /\ UNCHANGED <<super, open, unlinked>>
        /\ work' = Loaded({Root, ino})
        /\ task' = DirSteps(E) \o rest \o last
    BY <1>0, <1>1 DEF RemoveFile, Call, PhaseOf, May
  <1>3. /\ EntriesFine(dir, DOMAIN imap) /\ DOMAIN imap \subseteq Nat \ {NoIno}
        /\ \A i \in DOMAIN imap : i < super.next
        /\ super.next \in Nat /\ super \in Superblocks /\ Root < super.next
    BY <1>0, <1>2, DirNow
  <1>4. /\ EntriesFine(E, DOMAIN imap) /\ ino \in DOMAIN imap \ {Root}
        /\ \A m \in DOMAIN E : E[m] # ino /\ E[m] # Root /\ \E k \in DOMAIN dir : E[m] = dir[k]
    <2>1. PICK inos : inos = DOMAIN imap
      OBVIOUS
    <2>2. n \in DOMAIN dir /\ EntriesFine(dir, inos)
      BY <1>2, <1>3, <2>1
    <2>3. /\ EntriesFine(E, inos) /\ dir[n] \in inos \ {Root}
          /\ \A m \in DOMAIN E : E[m] # dir[n] /\ E[m] # Root /\ \E k \in DOMAIN dir : E[m] = dir[k]
      BY <1>1, <2>2, EntryGone
    <2> QED
      BY <1>0, <2>1, <2>3
  <1>5. ino \in Nat \ {NoIno} /\ ino < super.next /\ ino # Root
    BY <1>3, <1>4
  <1>6. RestOf(ino, rest)
    BY <1>0, <1>5, RestIs
  <1>7. PICK a, b, d :
           /\ d = DirSteps(E) /\ d \in Seq(Todo(d)) /\ Ordered(d) /\ Todo(d) = {a, b}
           /\ Len(d) = 2 /\ d # <<>> /\ d[1] = a
           /\ a.do = "data" /\ a.ino = Root /\ a.idx = 0 /\ a.block = DirBlock(E)
           /\ a.block.entries = E
           /\ b.do = "inode" /\ b.ino = Root /\ b.size \in Nat
           /\ Root \in DOMAIN imap /\ Root < super.next /\ Root \in Nat \ {NoIno}
    BY <1>2, <1>4, DirStepsAre
  <1>8. PICK q, r : q = MapStep /\ r = Step("end", NoIno)
    OBVIOUS
  <1>9. q.do = "map" /\ q.ino = NoIno /\ r.do = "end" /\ r.ino = NoIno
    BY <1>8 DEF MapStep, Step
  <1>10. task' = d \o rest \o last
    BY <1>2, <1>7
  <1>11. /\ task' \in Seq(Todo(task')) /\ Ordered(task') /\ task' # <<>> /\ task'[1] = a
         /\ Todo(task') = {a, b, q, r} \cup Todo(rest)
         /\ ino \in OpenInos => Len(task') = 6
    <2>1. PICK z : z = d \o rest \o last
      OBVIOUS
    <2>2. /\ z \in Seq(Todo(z)) /\ Ordered(z) /\ z # <<>> /\ z[1] = a
          /\ Todo(z) = {a, b, MapStep, Step("end", NoIno)} \cup Todo(rest)
          /\ ino \in OpenInos => Len(z) = 6
      <3>1. DirPart(d, a, b, ino)
        BY <1>4, <1>5, <1>7 DEF DirPart
      <3>2. Removal(z, d, rest)
        BY <1>0, <2>1 DEF Removal
      <3> QED
        BY <1>6, <3>1, <3>2, RemoveOrdered
    <2> QED
      BY <1>8, <1>10, <2>1, <2>2
  <1>12. /\ Known[ino] = ReadInode(ino) /\ IsNode(Known[ino], ino)
    BY <1>2, <1>4, DirNow, IdleKnown, GoodNow DEF Formed
  <1>13. /\ \A s \in Todo(rest) :
               \/ s.do = "unlink" /\ s.ino = ino /\ ino \in OpenInos
               \/ s.do = "inode" /\ s.ino = ino /\ s.size = ReadInode(ino).size
               \/ s.do = "free" /\ s.ino = ino /\ ino \notin OpenInos
    BY <1>6 DEF RestOf
  <1>14. FitsPass(Known, <<>>, Known, task', DOMAIN imap, {})
    <2>1. ASSUME NEW s \in Todo(task'), s.do = "inode", s.ino \in DOMAIN imap, NEW k \in Idx,
                 k < Blocks(s.ino, Known[s.ino].size)
          PROVE  k < Blocks(s.ino, s.size) \/ CutStep(s.ino, k) \in Todo(task')
      <3>1. CASE s \in Todo(rest)
        <4>1. s.ino = ino /\ s.size = ReadInode(ino).size
          BY <1>13, <2>1, <3>1
        <4> QED
          BY <1>12, <2>1, <4>1
      <3>2. CASE s = b
        BY <1>7, <2>1, <3>2 DEF Blocks
      <3> QED
        BY <1>7, <1>9, <1>11, <2>1, <3>1, <3>2
    <2> QED
      BY <2>1, FitsCall
  <1>15. /\ DOMAIN work' = {Root, ino}
         /\ \A i \in {Root, ino} : work'[i] = ReadInode(i)
    BY <1>2 DEF Loaded
  <1>16. Begins
    <2>1. Settled(task') /\ task'[1].do # "end"
      BY <1>7, <1>11 DEF Settled
    <2>2. /\ super' \in Superblocks /\ super'.head = super.head /\ super'.tail = super.tail
          /\ super'.map = super.map /\ super'.next >= super.next
      BY <1>2, <1>3
    <2>3. \A i \in DOMAIN work' \cap DOMAIN imap : work'[i] = ReadInode(i)
      BY <1>15
    <2> QED
      BY <1>2, <1>14, <2>1, <2>2, <2>3 DEF Begins
  <1>17. Unnamed(ino)'
    <2>1. IsDirStep(a) /\ a \in Todo(task')
      BY <1>7, <1>11 DEF IsDirStep
    <2>2. \A s \in Todo(task') :
             IsDirStep(s) => \A m \in DOMAIN s.block.entries : s.block.entries[m] # ino
      BY <1>4, <1>7, <1>9, <1>11, <1>13 DEF IsDirStep
    <2> QED
      BY <2>1, <2>2 DEF Unnamed
  <1>18. OpenInos' = OpenInos
    BY <1>2 DEF OpenInos
  <1>19. \A s \in Todo(task') : StepFine(s)'
    <2>1. StepFine(a)' /\ StepFine(b)'
      <3>1. PICK inos : inos = DOMAIN imap
        OBVIOUS
      <3>2. EntriesFine(E, inos)
            /\ \A i \in inos : i \in DOMAIN imap \/ (i \in Nat /\ InodePending(task', i))
        BY <1>4, <3>1
      <3>3. super'.next >= super.next /\ super' \in Superblocks
        BY <1>2, <1>3
      <3>4. Root \in DOMAIN work'
        BY <1>15
      <3> QED
        BY <1>2, <1>7, <1>11, <3>2, <3>3, <3>4, DirStepsFine
    <2>2. StepFine(q)' /\ StepFine(r)'
      BY <1>9 DEF StepFine
    <2>3. ASSUME NEW s \in Todo(rest)
          PROVE  StepFine(s)'
      <3>1. CASE s.do = "unlink" /\ s.ino = ino /\ ino \in OpenInos
        BY <1>17, <1>18, <3>1 DEF StepFine
      <3>2. CASE s.do = "inode" /\ s.ino = ino /\ s.size = ReadInode(ino).size
        <4>1. s.size \in Nat /\ Blocks(ino, s.size) <= MaxBlocks
          BY <1>12, <3>2 DEF IsNode, NodeOf
        <4>2. InodeFine(s)'
          BY <1>2, <1>4, <1>5, <1>15, <3>2, <4>1 DEF InodeFine
        <4> QED
          BY <3>2, <4>2 DEF StepFine
      <3>3. CASE s.do = "free" /\ s.ino = ino /\ ino \notin OpenInos
        BY <1>2, <1>4, <1>17, <1>18, <3>3 DEF StepFine
      <3> QED
        BY <1>13, <3>1, <3>2, <3>3
    <2> QED
      BY <1>11, <2>1, <2>2, <2>3
  <1>20. Planned'
    <2>1. \A s \in Todo(task') : s.do \in StepsIn(phase')
      BY <1>2, <1>7, <1>9, <1>11, <1>13 DEF StepsIn
    <2>2. Ends' /\ \E s \in Todo(task') : s.do = "map"
      BY <1>9, <1>11 DEF Ends
    <2> QED
      BY <1>11, <1>19, <2>1, <2>2 DEF Planned
  <1>21. \A s \in Todo(task') : NewNames(s)
    BY <1>0, <1>4, <1>7, <1>9, <1>11, <1>13 DEF NewNames, IsDirStep
  <1>22. /\ open' \in [Fds -> Nat] /\ OpenInos' \subseteq OpenInos
         /\ unlinked' \subseteq unlinked /\ unlinked' \subseteq OpenInos'
    BY <1>2, <1>18 DEF LInv, OpenFine, UnlinkedFine
  <1> QED
    BY <1>2, <1>16, <1>20, <1>21, <1>22, BeginsKeeps
-----------------------------------------------------------------------------
(* The cleaner's loop *)

\* What its steps have in common.
Cleans ==
    /\ task = <<>> /\ phase \in CleanPhases /\ phase' \in CleanPhases
    /\ DeviceSame /\ MemoryGood' /\ Typed' /\ Planned'
    /\ UNCHANGED <<sb, open, unlinked>>
    /\ super'.map = super.map /\ super'.next = super.next
    /\ DOMAIN imap' = DOMAIN imap /\ DOMAIN work' \subseteq DOMAIN imap
    /\ phase' = "flush" /\ Ends' => DOMAIN work' = {}
    /\ task' # <<>> => task'[1].do # "end"
    /\ \A s \in Todo(task') : s.do # "unlink" /\ ~IsDirStep(s)
    /\ DirOf(dev, Known)' = DirOf(dev, Known)

\* A step of the cleaner that moves no block keeps LInv.
LEMMA CleansKeep ==
    ASSUME LInv, Cleans, [W!Next]_W!vars
    PROVE  LInv'
  <1>1. W!IInv'
    BY LogFits, W!NextIInv DEF LInv
  <1>2. Typed' /\ MemoryGood' /\ DeviceGood' /\ Planned'
    BY DEF Cleans, DeviceSame
  <1>3. Held'
    BY DEF Cleans, Held, CleanPhases
  <1>4. MapWritten'
    <2>1. super.map = sb.map
      BY DEF LInv, MapWritten, Cleans
    <2> QED
      BY <2>1 DEF Cleans, MapWritten
  <1>5. Numbered' /\ Synced' /\ OpenFine'
    <2>1. DurableMap' = DurableMap
      BY DEF Cleans, DeviceSame
    <2>2. OpenInos' = OpenInos
      BY DEF Cleans, OpenInos
    <2>3. Numbered'
      BY <2>1 DEF LInv, Numbered, Cleans
    <2>4. Synced'
      BY DEF Synced, Cleans, CleanPhases
    <2>5. OpenFine'
      BY <2>1, <2>2 DEF LInv, OpenFine, Cleans
    <2> QED
      BY <2>3, <2>4, <2>5
  <1>6. UnlinkedFine'
    <2>1. OpenInos' = OpenInos /\ unlinked' = unlinked
      BY DEF Cleans, OpenInos
    <2>2. \A ino \in unlinked :
             Unnamed(ino) /\ \A n \in DOMAIN DirOf(dev, Stored) : DirOf(dev, Stored)[n] # ino
      BY DEF LInv, UnlinkedFine, Finishing, Cleans, CleanPhases
    <2>3. DirOf(dev, Stored)' = DirOf(dev, Stored)
      BY DEF Cleans, DeviceSame
    <2>4. \A s \in Todo(task) : ~IsDirStep(s)
      BY NoSteps DEF Cleans
    <2>5. \A ino \in unlinked : \A n \in DOMAIN DirOf(dev, Known) : DirOf(dev, Known)[n] # ino
      BY <2>2, <2>4 DEF Unnamed
    <2>6. DirOf(dev, Known)' = DirOf(dev, Known) /\ \A s \in Todo(task') : ~IsDirStep(s)
      BY DEF Cleans
    <2>7. ASSUME NEW ino \in unlinked
          PROVE  Unnamed(ino)'
      BY <2>5, <2>6 DEF Unnamed
    <2>8. \A s \in Todo(task') : s.do # "unlink"
      BY DEF Cleans
    <2>9. unlinked \subseteq OpenInos
      BY DEF LInv, UnlinkedFine
    <2> QED
      BY <2>1, <2>2, <2>3, <2>7, <2>8, <2>9 DEF UnlinkedFine
  <1> QED
    BY <1>1, <1>2, <1>3, <1>4, <1>5, <1>6 DEF LInv

\* What holds where the cleaner looks at the next block.
LEMMA LoopNow ==
    ASSUME LInv, InLoop
    PROVE  /\ phase \in {"clean", "copy"} /\ phase \in CleanPhases /\ task = <<>>
           /\ Chain = {} /\ DOMAIN work \subseteq DOMAIN imap
           /\ Good(dev, imap, Known, <<>>, summary)
           /\ super.head \in Log /\ W!NextBlock(super.head) \in Log
           /\ \A ino \in DOMAIN imap : Known[ino] = Current(ino)
  <1>1. phase \in {"clean", "copy"} /\ task = <<>>
    BY SameWindow DEF InLoop, W!Cleaning
  <1>2. Chain = {}
    BY <1>1 DEF Chain
  <1>3. DOMAIN work \subseteq DOMAIN imap
    BY <1>1 DEF LInv, Held, CleanPhases
  <1>4. Good(dev, imap, Known, <<>>, summary)
    BY <1>1, GoodNow
  <1>5. super.head \in Log /\ W!NextBlock(super.head) \in Log
    <2>1. super.head \in Log
      BY Room
    <2> QED
      BY <2>1, LogFits, LogIsLog, W!NextInLog
  <1>6. \A ino \in DOMAIN imap : Known[ino] = Current(ino)
    BY KnownIs DEF Current, ReadInode
  <1> QED
    BY <1>1, <1>2, <1>3, <1>4, <1>5, <1>6 DEF CleanPhases

\* A block of a file that is no garbage leads where the summary says.
LEMMA LiveRole ==
    ASSUME LInv, InLoop, NEW a \in FileBlocks
    PROVE  /\ ~Garbage(a)
           /\ summary[a] \in Roles /\ summary[a].ino \in DOMAIN imap
           /\ Places(dev, imap, Known, <<>>)[summary[a]] = a
           /\ a \in Log
  <1> DEFINE P == Places(dev, imap, Known, <<>>)
  <1>1. PICK e : e = summary[a]
    OBVIOUS
  <1>2. /\ Formed(dev, imap, Known) /\ PendsFine(<<>>) /\ Kept(P, summary)
        /\ DOMAIN imap \subseteq Nat
    BY LoopNow, GoodNow DEF Good
  <1>3. /\ DOMAIN P = RolesOf(DOMAIN imap)
        /\ \A ino \in DOMAIN imap : \A idx \in Idx :
              P[Entry(ino, idx, "data")] = Pointer(dev, Known, <<>>, ino, idx)
    BY <1>2, PlacesAre
  <1>4. a \in DOMAIN summary /\ e.type # "map"
    BY <1>1 DEF FileBlocks
  <1>5. a \in Log /\ e \in DOMAIN P /\ P[e] = a
    BY <1>1, <1>2, <1>4 DEF Kept
  <1>6. e \in Roles /\ e.ino \in DOMAIN imap /\ e.idx \in Idx
    BY <1>2, <1>3, <1>5, InRolesOf
  <1>7. e.type = "data" => GetBlockAddr(dev, Current(e.ino), e.idx) = a
    <2>1. SUFFICES ASSUME e.type = "data" PROVE GetBlockAddr(dev, Current(e.ino), e.idx) = a
      OBVIOUS
    <2>2. e = Entry(e.ino, e.idx, "data")
      BY <1>6, <2>1, RolesAre
    <2>3. Pointer(dev, Known, <<>>, e.ino, e.idx) = a
      BY <1>3, <1>5, <1>6, <2>2
    <2> QED
      BY <1>6, <2>3, LoopNow DEF Pointer, Pends
  <1>8. ~Garbage(a)
    BY <1>1, <1>6, <1>7 DEF Garbage
  <1> QED
    BY <1>1, <1>5, <1>6, <1>8

\* Passing over a dead block keeps LInv, and is a step of LogWindow.
LEMMA CleanSkipKeeps ==
    ASSUME LInv, CleanSkip
    PROVE  LInv' /\ [W!Next]_W!vars
  <1>1. /\ InLoop /\ ~CleanedEnough
        /\ super.head \in DOMAIN summary => Garbage(super.head)
        /\ super' = [super EXCEPT !.head = W!NextBlock(super.head)]
        /\ Struck(summary, {super.head}, summary')
        /\ phase' = "clean"
        /\ UNCHANGED <<dev, sb, imap, committed, open, unlinked, task, work, expected, dirty,
                       overran, lost, load>>
    BY SameWindow DEF CleanSkip, NextBlock, history, bounds, Struck
  <1>2. PICK h : h = super.head
    OBVIOUS
  <1>3. h \notin FileBlocks
    BY <1>1, <1>2, LiveRole DEF FileBlocks
  <1>4. /\ super' \in Superblocks /\ super'.map = super.map /\ super'.next = super.next
        /\ super'.head = W!NextBlock(h) /\ super'.tail = super.tail
    BY <1>1, <1>2, LoopNow DEF LInv, Typed, Superblocks
  <1>5. FileBlocks' = FileBlocks /\ MapBlocks' = MapBlocks \ {h}
    BY <1>1, <1>2, <1>3, StruckBlocks
  <1>6. DeviceSame
    BY <1>1, DeviceKept
  <1>7. Known' = Known
    BY <1>1 DEF Known
  <1>8. MemoryGood'
    <2>1. h \in DOMAIN summary => summary[h].type = "map"
      BY <1>3 DEF FileBlocks
    <2>2. PICK d, map, N, todo, sum : /\ d = dev /\ map = imap /\ N = Known /\ todo = task
                                      /\ sum = summary'
      OBVIOUS
    <2>3. Good(d, map, N, todo, summary) /\ Struck(summary, {h}, sum) /\ h \in Log
      BY <1>1, <1>2, <2>2, GoodNow, LoopNow
    <2>4. Good(d, map, N, todo, sum)
      BY <2>1, <2>3, GoodSkip
    <2>5. Good(dev', imap', Known', task', summary')
      BY <1>1, <1>7, <2>2, <2>4
    <2> QED
      BY <2>5 DEF MemoryGood
  <1>9. Cleans
    <2>1. Todo(task') = {} /\ task' = <<>> /\ task' \in Seq(Todo(task')) /\ Ordered(task')
      BY <1>1, NoSteps, LoopNow
    <2>2. Planned'
      BY <1>1, <2>1 DEF Planned, Ends
    <2>3. Typed'
      BY <1>1, <1>4 DEF LInv, Typed
    <2>4. DirOf(dev, Known)' = DirOf(dev, Known)
      BY <1>1, <1>7 DEF DirOf
    <2> QED
      BY <1>1, <1>4, <1>6, <1>8, <2>1, <2>2, <2>3, <2>4, LoopNow DEF Cleans, CleanPhases
  <1>10. W!CleanSkip
    <2>1. W!Cleaning /\ ~W!CleanedEnough
      BY <1>1, SameWindow DEF InLoop, CleanedEnough
    <2>2. Disk' = Disk
      BY <1>1, <1>6, DiskSame
    <2>3. Chain' = Chain
      BY <1>1, LoopNow DEF Chain
    <2> QED
      BY <1>1, <1>2, <1>3, <1>4, <1>5, <2>1, <2>2, <2>3 DEF W!CleanSkip, W!history
  <1>11. [W!Next]_W!vars
    BY <1>10 DEF W!Next
  <1> QED
    BY <1>9, <1>11, CleansKeep

\* The end of the cleaner's loop does, too.
LEMMA CleanLoopEndsKeeps ==
    ASSUME LInv, CleanLoopEnds
    PROVE  LInv' /\ [W!Next]_W!vars
  <1>1. /\ InLoop /\ CleanedEnough /\ phase' = "flush"
        /\ UNCHANGED <<dev, sb, super, imap, summary, committed, open, unlinked, task, work,
                       expected, dirty, overran, lost, load>>
    BY DEF CleanLoopEnds, memory, history, bounds
  <1>2. DeviceSame
    BY <1>1, DeviceKept
  <1>3. Known' = Known
    BY <1>1 DEF Known
  <1>4. MemoryGood'
    <2>1. Good(dev', imap', Known', task', summary')
      BY <1>1, <1>3, GoodNow
    <2> QED
      BY <2>1 DEF MemoryGood
  <1>5. Cleans
    <2>1. Todo(task') = {} /\ task' = <<>> /\ task' \in Seq(Todo(task')) /\ Ordered(task')
      BY <1>1, NoSteps, LoopNow
    <2>2. Planned' /\ ~Ends'
      BY <1>1, <2>1 DEF Planned, Ends
    <2>3. Typed'
      BY <1>1 DEF LInv, Typed
    <2>4. DirOf(dev, Known)' = DirOf(dev, Known)
      BY <1>1, <1>3 DEF DirOf
    <2> QED
      BY <1>1, <1>2, <1>4, <2>1, <2>2, <2>3, <2>4, LoopNow DEF Cleans, CleanPhases
  <1>6. W!CleanLoopEnds
    <2>1. W!Cleaning /\ W!CleanedEnough
      BY <1>1, SameWindow DEF InLoop, CleanedEnough
    <2>2. Disk' = Disk
      BY <1>1, <1>2, DiskSame
    <2>3. Chain' = Chain
      BY <1>1, LoopNow DEF Chain
    <2>4. FileBlocks' = FileBlocks /\ MapBlocks' = MapBlocks
      BY <1>1 DEF FileBlocks, MapBlocks
    <2> QED
      BY <1>1, <2>1, <2>2, <2>3, <2>4 DEF W!CleanLoopEnds, W!memory, W!history
  <1>7. [W!Next]_W!vars
    BY <1>6 DEF W!Next
  <1> QED
    BY <1>5, <1>7, CleansKeep

\* The inodes that changed are written in order, then the map.
LEMMA FlushNextKeeps ==
    ASSUME LInv, FlushNext
    PROVE  LInv' /\ [W!Next]_W!vars
  <1> DEFINE least == CHOOSE ino \in DOMAIN work : \A other \in DOMAIN work : ino <= other
  <1>1. /\ phase = "flush" /\ phase' = "flush" /\ task = <<>>
        /\ UNCHANGED <<dev, sb, super, imap, summary, committed, open, unlinked, work,
                       expected, dirty, overran, lost, load>>
        /\ task' = IF DOMAIN work = {} THEN <<MapStep, Step("end", NoIno)>>
                   ELSE <<InodeStep(least, work[least].size)>>
    BY DEF FlushNext, memory, history, bounds
  <1>2. DeviceSame
    BY <1>1, DeviceKept
  <1>3. Known' = Known
    BY <1>1 DEF Known
  <1>4. DOMAIN work \subseteq DOMAIN imap /\ DOMAIN imap \subseteq Nat
    BY <1>1, GoodNow DEF LInv, Held, CleanPhases
  <1>5. \E s : /\ task' \in Seq(Todo(task')) /\ Ordered(task') /\ task' # <<>> /\ task'[1] = s
               /\ IF DOMAIN work = {}
                  THEN s.do = "map" /\ s.ino = NoIno
                       /\ \E t : t.do = "end" /\ t.ino = NoIno /\ Todo(task') = {s, t}
                  ELSE /\ Todo(task') = {s} /\ s.do = "inode" /\ s.ino \in DOMAIN work
                       /\ s.size = work[s.ino].size
    <2>1. CASE DOMAIN work = {}
      <3>1. PICK last : last = <<MapStep, Step("end", NoIno)>>
        OBVIOUS
      <3>2. /\ last \in Seq(Todo(last)) /\ Todo(last) = {MapStep, Step("end", NoIno)}
            /\ last # <<>> /\ last[1] = MapStep /\ Ordered(last)
            /\ MapStep.do = "map" /\ MapStep.ino = NoIno
            /\ Step("end", NoIno).do = "end" /\ Step("end", NoIno).ino = NoIno
        BY <3>1, MapAndEnd
      <3>3. task' = last
        BY <1>1, <2>1, <3>1
      <3> QED
        BY <2>1, <3>2, <3>3
    <2>2. CASE DOMAIN work # {}
      <3>1. least \in DOMAIN work
        BY <1>4, <2>2, LeastExists
      <3> HIDE DEF least
      <3>2. PICK s : s = InodeStep(least, work[least].size)
        OBVIOUS
      <3>3. s.do = "inode" /\ s.ino = least /\ s.size = work[least].size
        BY <3>2 DEF InodeStep
      <3>4. task' = <<s>>
        BY <1>1, <2>2, <3>2
      <3>5. /\ task' \in Seq(Todo(task')) /\ Todo(task') = {s} /\ task' # <<>> /\ task'[1] = s
            /\ Ordered(task')
        BY <3>4, OneStep
      <3> QED
        BY <2>2, <3>1, <3>3, <3>5
    <2> QED
      BY <2>1, <2>2
  <1>6. PICK s : /\ task' \in Seq(Todo(task')) /\ Ordered(task') /\ task' # <<>> /\ task'[1] = s
                 /\ IF DOMAIN work = {}
                    THEN s.do = "map" /\ s.ino = NoIno
                         /\ \E t : t.do = "end" /\ t.ino = NoIno /\ Todo(task') = {s, t}
                    ELSE /\ Todo(task') = {s} /\ s.do = "inode" /\ s.ino \in DOMAIN work
                         /\ s.size = work[s.ino].size
    BY <1>5
  <1> HIDE DEF least
  <1>7. Todo(task) = {} /\ Settled(task) /\ Settled(task') /\ s.do # "end"
    BY <1>1, <1>6, NoSteps DEF Settled
  <1>8. FitsPass(Known, <<>>, Known, task', DOMAIN imap, {})
    <2>1. ASSUME NEW x \in Todo(task'), x.do = "inode", x.ino \in DOMAIN imap, NEW k \in Idx,
                 k < Blocks(x.ino, Known[x.ino].size)
          PROVE  k < Blocks(x.ino, x.size) \/ CutStep(x.ino, k) \in Todo(task')
      <3>1. x.ino \in DOMAIN work /\ x.size = work[x.ino].size
        BY <1>6, <2>1
      <3>2. Known[x.ino] = work[x.ino]
        BY <2>1, <3>1, KnownIs
      <3> QED
        BY <2>1, <3>1, <3>2
    <2> QED
      BY <2>1, FitsCall
  <1>9. MemoryGood'
    <2>1. Good(dev, imap, Known, <<>>, summary)
      BY <1>1, GoodNow
    <2>2. PICK d, map, N, todo, sum : /\ d = dev /\ map = imap /\ N = Known /\ todo = task'
                                      /\ sum = summary
      OBVIOUS
    <2>3. Good(d, map, N, todo, sum)
      BY <1>7, <1>8, <2>1, <2>2, GoodTodo DEF Settled
    <2>4. Good(dev', imap', Known', task', summary')
      BY <1>1, <1>3, <2>2, <2>3
    <2> QED
      BY <2>4 DEF MemoryGood
  <1>10. ASSUME NEW x \in Todo(task')
         PROVE  StepFine(x)' /\ x.do \in {"inode", "map", "end"}
    <2>1. CASE DOMAIN work = {}
      <3>1. x.do \in {"map", "end"} /\ x.ino = NoIno
        BY <1>6, <2>1
      <3> QED
        BY <3>1 DEF StepFine
    <2>2. CASE DOMAIN work # {}
      <3>1. x.do = "inode" /\ x.ino \in DOMAIN work /\ x.size = work[x.ino].size
        BY <1>6, <2>2
      <3>2. /\ x.ino \in DOMAIN imap /\ x.ino \in Nat \ {NoIno} /\ x.ino < super.next
            /\ Known[x.ino] = work[x.ino] /\ IsNode(Known[x.ino], x.ino)
        BY <1>4, <3>1, GoodNow, KnownIs DEF LInv, Numbered, Formed
      <3>3. x.size \in Nat /\ Blocks(x.ino, x.size) <= MaxBlocks
        BY <3>1, <3>2 DEF IsNode, NodeOf
      <3>4. InodeFine(x)'
        BY <1>1, <3>1, <3>2, <3>3 DEF InodeFine
      <3> QED
        BY <3>1, <3>4 DEF StepFine
    <2> QED
      BY <2>1, <2>2
  <1>11. Planned'
    <2>1. \A x \in Todo(task') : x.do \in StepsIn(phase')
      BY <1>1, <1>10 DEF StepsIn
    <2>2. /\ Ends' => \E x \in Todo(task') : x.do = "map"
          /\ (\E x \in Todo(task') : x.do = "map") => Ends'
      BY <1>6 DEF Ends
    <2> QED
      BY <1>1, <1>6, <1>10, <2>1, <2>2 DEF Planned
  <1>12. Ends' => DOMAIN work' = {}
    BY <1>1, <1>6 DEF Ends
  <1>13. Cleans
    <2>1. Typed'
      BY <1>1 DEF LInv, Typed
    <2>2. DirOf(dev, Known)' = DirOf(dev, Known)
      BY <1>1, <1>3 DEF DirOf
    <2>3. \A x \in Todo(task') : x.do # "unlink" /\ ~IsDirStep(x)
      BY <1>10 DEF IsDirStep
    <2> QED
      BY <1>1, <1>2, <1>4, <1>6, <1>7, <1>9, <1>11, <1>12, <2>1, <2>2, <2>3 DEF Cleans, CleanPhases
  <1>14. UNCHANGED W!vars
    <2>1. Disk' = Disk
      BY <1>1, <1>2, DiskSame
    <2>2. Chain' = Chain
      BY <1>1, <1>6, <1>7 DEF Chain
    <2> QED
      BY <1>1, <2>1, <2>2, StutterStep
  <1> QED
    BY <1>13, <1>14, CleansKeep

\* The live block at the head is written at the tail.
MovesBlock(a, e) ==
    /\ InLoop /\ ~CleanedEnough /\ a = super.head /\ e = summary[a]
    /\ a \in FileBlocks /\ a \in Log
    /\ e \in Roles /\ e.ino \in DOMAIN imap /\ e.idx \in Idx /\ e.type # "map"
    /\ Places(dev, imap, Known, <<>>)[e] = a
    /\ Wrote(dev[a], e, {a}) /\ Moved(W!NextBlock(a), e.type) /\ DeviceSame
    /\ phase' = "copy"
    /\ UNCHANGED <<sb, committed, open, unlinked, lost, load>>

\* What moving the block at the head does to images, summary and cursors.
LEMMA BlockMoves ==
    ASSUME LInv, ~overran', CleanMove, NEW a, NEW e, a = super.head, e = summary[a]
    PROVE  MovesBlock(a, e)
  <1>1. /\ InLoop /\ ~CleanedEnough /\ a \in DOMAIN summary /\ e.type # "map"
        /\ Put(dev[a], e, {a}, W!NextBlock(a)) /\ phase' = "copy"
        /\ UNCHANGED <<sb, committed, open, unlinked, lost, load>>
    BY SameWindow DEF CleanMove, NextBlock, bounds
  <1>2. a \in FileBlocks
    BY <1>1 DEF FileBlocks
  <1>3. /\ e \in Roles /\ e.ino \in DOMAIN imap /\ Places(dev, imap, Known, <<>>)[e] = a /\ a \in Log
    BY <1>1, <1>2, LiveRole
  <1>4. phase # "idle" /\ W!NextBlock(a) \in Log
    BY <1>1, LoopNow
  <1>5. PICK content, dead, h : content = dev[a] /\ dead = {a} /\ h = W!NextBlock(a)
    OBVIOUS
  <1>6. Wrote(content, e, dead) /\ Moved(h, e.type) /\ DeviceSame
    <2>1. Put(content, e, dead, h) /\ h \in Log /\ sb' = sb
      BY <1>1, <1>4, <1>5
    <2> QED
      BY <1>4, <2>1, PutFrame
  <1> QED
    BY <1>1, <1>2, <1>3, <1>5, <1>6, RolesAre DEF MovesBlock

\* The image in memory and the plan after the pointer to the block has followed.
Followed ==
    /\ MemoryGood' /\ Planned'
    /\ task' # <<>> => task'[1].do # "end"
    /\ \A s \in Todo(task') : s.do = "indirect"
    /\ DOMAIN imap' = DOMAIN imap /\ DOMAIN work' \subseteq DOMAIN imap
    /\ DirOf(dev, Known)' = DirOf(dev, Known)

\* Before its inodes are written, the cleaner has no steps listed.
LEMMA EmptyPlan ==
    ASSUME task' = <<>>, phase' = "copy"
    PROVE  Planned' /\ Todo(task') = {}
  <1>1. Todo(task') = {} /\ Ordered(task') /\ task' \in Seq(Todo(task'))
    BY NoSteps
  <1> QED
    BY <1>1 DEF Planned, Ends

\* What the blocks of the image are, where one of them moves.
LEMMA MovedFacts ==
    ASSUME LInv, NEW a, NEW e, MovesBlock(a, e)
    PROVE  /\ super.tail \in Log /\ super.tail \notin DOMAIN summary
           /\ Apart(dev, super.tail, dev') /\ dev'[super.tail] = dev[a]
           /\ Filed(summary, {a}, super.tail, e, summary')
           /\ \A ino \in DOMAIN imap : dev'[imap[ino]] = dev[imap[ino]]
           /\ DirOf(dev', Known) = DirOf(dev, Known)
           /\ e.type = "inode" => imap[e.ino] = a /\ e = Entry(e.ino, 0, "inode")
           /\ e.type = "indirect" => Known[e.ino].ind = a /\ e = Entry(e.ino, 0, "indirect")
           /\ e.type = "data" => /\ GetBlockAddr(dev, Known[e.ino], e.idx) = a
                                 /\ e = Entry(e.ino, e.idx, "data")
           /\ a # NoBlock
  <1>1. /\ super.tail \in Log /\ super.tail \notin DOMAIN summary
        /\ Apart(dev, super.tail, dev') /\ dev'[super.tail] = dev[a]
        /\ Filed(summary, {a}, super.tail, e, summary')
    BY DEF MovesBlock, Wrote
  <1>2. /\ \A ino \in DOMAIN imap : dev'[imap[ino]] = dev[imap[ino]]
        /\ DirOf(dev', Known) = DirOf(dev, Known)
    BY <1>1, InodesSpared
  <1>3. /\ e \in Roles /\ e.ino \in DOMAIN imap /\ e.idx \in Idx /\ a \in Log
        /\ Places(dev, imap, Known, <<>>)[e] = a
    BY DEF MovesBlock
  <1>4. Formed(dev, imap, Known) /\ PendsFine(<<>>)
    BY GoodNow DEF PendsFine
  <1>5. /\ Places(dev, imap, Known, <<>>)[Entry(e.ino, 0, "inode")] = imap[e.ino]
        /\ Places(dev, imap, Known, <<>>)[Entry(e.ino, 0, "indirect")] = Known[e.ino].ind
        /\ Places(dev, imap, Known, <<>>)[Entry(e.ino, e.idx, "data")]
              = Pointer(dev, Known, <<>>, e.ino, e.idx)
    BY <1>3, <1>4, PlacesAre
  <1>6. Pointer(dev, Known, <<>>, e.ino, e.idx) = GetBlockAddr(dev, Known[e.ino], e.idx)
    BY DEF Pointer, Pends
  <1>7. e = Entry(e.ino, e.idx, e.type) /\ (e.type # "data" => e.idx = 0)
    BY <1>3, RolesAre
  <1> QED
    BY <1>1, <1>2, <1>3, <1>5, <1>6, <1>7, LogIsLog

\* A data block moved, and its pointer is set.
LEMMA DataFollows ==
    ASSUME LInv, NEW a, NEW e, MovesBlock(a, e), e.type = "data", imap' = imap,
           NEW inodes, DOMAIN inodes = DOMAIN work \cup {e.ino}, Copies(inodes), Covers(inodes),
           SetBlockAddr(inodes, e.ino, e.idx, super.tail, <<>>)
    PROVE  Followed
  <1>1. /\ InLoop /\ e.ino \in DOMAIN imap /\ e.idx \in Idx /\ phase' = "copy"
    BY DEF MovesBlock
  <1>2. /\ super.tail \in Log /\ super.tail \notin DOMAIN summary
        /\ Apart(dev, super.tail, dev') /\ dev'[super.tail] = dev[a]
        /\ Filed(summary, {a}, super.tail, e, summary')
        /\ InodesKept
        /\ DirOf(dev', Known) = DirOf(dev, Known)
        /\ GetBlockAddr(dev, Known[e.ino], e.idx) = a /\ e = Entry(e.ino, e.idx, "data")
        /\ a # NoBlock
    BY MovedFacts DEF InodesKept
  <1>3. PICK ino, idx, t : ino = e.ino /\ idx = e.idx /\ t = super.tail
    OBVIOUS
  <1>4. SetTo(inodes, ino, idx, t, <<>>)
    BY <1>3, SetIs
  <1>5. Pointed(Known, ino, idx, t, Known', task')
    <2>1. <<>> \in Seq(Todo(<<>>)) /\ Settled(<<>>)
      BY NoSteps DEF Settled
    <2>2. ino \in DOMAIN imap /\ idx \in Idx /\ ino \in DOMAIN inodes
      BY <1>1, <1>3
    <2> QED
      BY <1>2, <1>4, <2>1, <2>2, SetPointer
  <1>6. Good(dev, imap, Known, <<>>, summary) /\ Formed(dev, imap, Known)
        /\ Root \in DOMAIN imap
    BY <1>1, LoopNow, GoodNow
  <1>7. \A s \in Todo(task') : s.do = "indirect" /\ s.ino = ino /\ s.idx = idx /\ idx >= DirectBlocks
    <2>1. task' = <<>> \/ (idx >= DirectBlocks /\ task' = <<IndirectStep(ino, idx, t)>>)
      <3>1. CASE idx < DirectBlocks
        BY <1>4, <3>1 DEF SetTo
      <3>2. CASE ~(idx < DirectBlocks)
        <4>1. task' = <<IndirectStep(ino, idx, t)>> \o <<>>
          BY <1>4, <3>2 DEF SetTo
        <4>2. <<IndirectStep(ino, idx, t)>> \o <<>> = <<IndirectStep(ino, idx, t)>>
          OBVIOUS
        <4>3. idx >= DirectBlocks
          <5>1. idx \in Nat /\ DirectBlocks \in Nat
            BY <1>1, <1>3, Sizes
          <5> QED
            BY <3>2, <5>1
        <4> QED
          BY <4>1, <4>2, <4>3
      <3> QED
        BY <3>1, <3>2
    <2>2. CASE task' = <<>>
      BY <2>2, NoSteps
    <2>3. CASE idx >= DirectBlocks /\ task' = <<IndirectStep(ino, idx, t)>>
      <3>1. Todo(task') = {IndirectStep(ino, idx, t)}
        BY <2>3, OneStep
      <3> QED
        BY <2>3, <3>1 DEF IndirectStep
    <2> QED
      BY <2>1, <2>2, <2>3
  <1>8. SameSizes(Known, Known', DOMAIN imap)
    BY <1>1, <1>3, <1>5, <1>6, PointedSizes
  <1>9. FitsPass(Known, <<>>, Known', task', DOMAIN imap, {})
    <2>1. SameShape(<<>>, task')
      BY <1>7, NoSteps DEF SameShape
    <2> QED
      BY <1>8, <2>1, FitsSame
  <1>10. Fits(Known, <<>>, ino, idx)
    <2>1. Places(dev, imap, Known, <<>>)[e] = a /\ e \in Roles
      BY DEF MovesBlock
    <2>2. DOMAIN Places(dev, imap, Known, <<>>) = RolesOf(DOMAIN imap)
      BY <1>6, PlacesAre DEF PendsFine
    <2>3. e \in DOMAIN Places(dev, imap, Known, <<>>)
      BY <1>1, <2>1, <2>2 DEF RolesOf
    <2> QED
      BY <1>2, <1>3, <1>6, <2>1, <2>3 DEF Good, Bounded
  <1>11. ino = Root => idx = 0 /\ EntriesFine(dev'[t].entries, DOMAIN imap)
                       /\ dev'[t].entries = DirOf(dev, Known)
    <2>1. SUFFICES ASSUME ino = Root
                   PROVE  idx = 0 /\ EntriesFine(dev'[t].entries, DOMAIN imap)
                          /\ dev'[t].entries = DirOf(dev, Known)
      OBVIOUS
    <2>2. idx = 0
      <3>1. idx < Blocks(Root, Known[Root].size)
        BY <1>10, <2>1, NoSteps DEF Fits
      <3> QED
        <4>1. idx \in Nat
          BY <1>1, <1>3, Sizes
        <4>2. Blocks(Root, Known[Root].size) = 1
          BY DEF Blocks
        <4> QED
          BY <3>1, <4>1, <4>2
    <2>3. GetBlockAddr(dev, Known[Root], 0) = Known[Root].ptr[0]
      BY Sizes DEF GetBlockAddr
    <2>4. dev'[t].entries = DirOf(dev, Known)
      BY <1>2, <1>3, <2>1, <2>2, <2>3 DEF DirOf
    <2> QED
      BY <1>6, <2>2, <2>4 DEF Good, Named
  <1>12. MemoryGood'
    <2>1. PICK d, d2, map, N, N2, todo2, sum, sum2 :
             /\ d = dev /\ d2 = dev' /\ map = imap /\ N = Known /\ N2 = Known' /\ todo2 = task'
             /\ sum = summary /\ sum2 = summary'
      OBVIOUS
    <2>2. Good(d, map, N, <<>>, sum) /\ Settled(<<>>) /\ ino \in DOMAIN map /\ idx \in Idx
          /\ t \in Log /\ t \notin DOMAIN sum /\ Apart(d, t, d2)
      BY <1>1, <1>2, <1>3, <1>6, <2>1 DEF Settled
    <2>3. Pointed(N, ino, idx, t, N2, todo2)
      BY <1>5, <2>1
    <2>4. Filed(sum, {GetBlockAddr(d, N[ino], idx)}, t, Entry(ino, idx, "data"), sum2)
      BY <1>2, <1>3, <2>1
    <2>5. FitsPass(N, <<>>, N2, todo2, DOMAIN map, {})
      BY <1>9, <2>1
    <2>6. Fits(N2, todo2, ino, idx)
      BY <1>1, <1>3, <1>10, <2>1, <2>5 DEF FitsPass
    <2>7. ino = Root => idx = 0 /\ EntriesFine(d2[t].entries, DOMAIN map)
      BY <1>11, <2>1
    <2>8. Good(d2, map, N2, todo2, sum2)
      BY <2>2, <2>3, <2>4, <2>5, <2>6, <2>7, GoodData
    <2>9. Good(dev', imap', Known', task', summary')
      BY <2>1, <2>8
    <2> QED
      BY <2>9 DEF MemoryGood
  <1>13. DOMAIN work' \subseteq DOMAIN imap /\ ino \in DOMAIN work'
    <2>1. DOMAIN work' = DOMAIN inodes
      BY <1>4 DEF SetTo
    <2> QED
      BY <1>1, <1>3, <2>1, LoopNow
  <1>14. Planned'
    <2>1. task' \in Seq(Todo(task')) /\ Ordered(task')
      <3>1. CASE idx < DirectBlocks
        <4>1. task' = <<>>
          BY <1>4, <3>1 DEF SetTo
        <4> QED
          BY <4>1, NoSteps
      <3>2. CASE ~(idx < DirectBlocks)
        <4>1. task' = <<IndirectStep(ino, idx, t)>> \o <<>>
          BY <1>4, <3>2 DEF SetTo
        <4>2. task' = <<IndirectStep(ino, idx, t)>>
          BY <4>1
        <4> QED
          BY <4>2, OneStep
      <3> QED
        BY <3>1, <3>2
    <2>2. \A s \in Todo(task') : StepFine(s)' /\ s.do \in StepsIn(phase')
      <3>1. ASSUME NEW s \in Todo(task')
            PROVE  StepFine(s)' /\ s.do \in StepsIn(phase')
        <4>1. s.do = "indirect" /\ s.ino = ino /\ s.idx = idx
          BY <1>7
        <4> QED
          BY <1>1, <1>3, <1>13, <4>1 DEF StepFine, StepsIn
      <3> QED
        BY <3>1
    <2>3. ~Ends' /\ \A s \in Todo(task') : s.do # "map"
      BY <1>7 DEF Ends
    <2> QED
      BY <1>1, <2>1, <2>2, <2>3 DEF Planned
  <1>15. task' # <<>> => task'[1].do # "end"
    <2>1. SUFFICES ASSUME task' # <<>> PROVE task'[1] \in Todo(task')
      BY <1>7
    <2> QED
      BY <1>14, <2>1, TailTodo DEF Planned
  <1>16. DirOf(dev, Known)' = DirOf(dev, Known)
    <2>1. CASE ino = Root
      <3>1. DirOf(dev, Known)' = dev'[t].entries
        BY <1>5, <1>11, <2>1, DirAfterDirStep
      <3> QED
        BY <1>11, <2>1, <3>1
    <2>2. CASE ino # Root
      BY <1>1, <1>2, <1>3, <1>5, <2>2, DirAfterPointer
    <2> QED
      BY <2>1, <2>2
  <1> QED
    BY <1>7, <1>12, <1>13, <1>14, <1>15, <1>16 DEF Followed

\* An inode moved, and the map follows.
LEMMA InodeFollows ==
    ASSUME LInv, NEW a, NEW e, MovesBlock(a, e), e.type = "inode",
           imap' = [imap EXCEPT ![e.ino] = super.tail], task' = task, work' = work
    PROVE  Followed
  <1>1. InLoop /\ e.ino \in DOMAIN imap /\ phase' = "copy"
    BY DEF MovesBlock
  <1>2. /\ super.tail \in Log /\ super.tail \notin DOMAIN summary
        /\ Apart(dev, super.tail, dev') /\ dev'[super.tail] = dev[a]
        /\ Filed(summary, {a}, super.tail, e, summary')
        /\ \A ino \in DOMAIN imap : dev'[imap[ino]] = dev[imap[ino]]
        /\ DirOf(dev', Known) = DirOf(dev, Known)
        /\ imap[e.ino] = a /\ e = Entry(e.ino, 0, "inode")
    BY MovedFacts
  <1>3. PICK ino, t : ino = e.ino /\ t = super.tail
    OBVIOUS
  <1>4. task = <<>> /\ task' = <<>> /\ DOMAIN work \subseteq DOMAIN imap
    BY <1>1, LoopNow
  <1>5. DOMAIN imap' = DOMAIN imap /\ imap'[ino] = t /\ \A i \in DOMAIN imap : i # ino => imap'[i] = imap[i]
    BY <1>1, <1>3
  <1>6. Known' = Known
    <2>1. \A i \in DOMAIN imap : dev'[imap'[i]] = dev[imap[i]]
      BY <1>2, <1>3, <1>5
    <2>2. Known' = [i \in DOMAIN imap' |-> IF i \in DOMAIN work' THEN work'[i] ELSE dev'[imap'[i]]]
      BY DEF Known, Nodes
    <2>3. Known = [i \in DOMAIN imap |-> IF i \in DOMAIN work THEN work[i] ELSE dev[imap[i]]]
      BY DEF Known, Nodes
    <2> QED
      BY <1>5, <2>1, <2>2, <2>3
  <1>7. /\ Good(dev, imap, Known, <<>>, summary) /\ Formed(dev, imap, Known)
        /\ ino \in Nat \ {NoIno} /\ IsNode(Known[ino], ino) /\ DOMAIN Known = DOMAIN imap
    BY <1>1, <1>3, LoopNow, GoodNow DEF Formed
  <1>8. MemoryGood'
    <2>1. PICK d, d2, map, map2, N, N2, inode, sum, sum2 :
             /\ d = dev /\ d2 = dev' /\ map = imap /\ map2 = imap' /\ N = Known /\ N2 = Known'
             /\ inode = Known[ino] /\ sum = summary /\ sum2 = summary'
      OBVIOUS
    <2>2. Good(d, map, N, <<>>, sum) /\ Settled(<<>>) /\ t \in Log /\ t \notin DOMAIN sum
          /\ Apart(d, t, d2) /\ ino \in Nat \ {NoIno}
      BY <1>2, <1>3, <1>7, <2>1 DEF Settled
    <2>3. IsNode(inode, ino) /\ Carries(inode, N, ino)
      BY <1>1, <1>3, <1>7, <2>1 DEF Carries
    <2>4. Filed(map, {}, ino, t, map2) /\ Filed(N, {}, ino, inode, N2)
      BY <1>1, <1>3, <1>5, <1>6, <1>7, <2>1 DEF Filed
    <2>5. Filed(sum, IF ino \in DOMAIN map THEN {map[ino]} ELSE {}, t, Entry(ino, 0, "inode"), sum2)
      BY <1>1, <1>2, <1>3, <2>1
    <2>6. FitsPass(N, <<>>, N2, <<>>, DOMAIN map, {})
      BY <1>6, <2>1 DEF FitsPass
    <2>7. Good(d2, map2, N2, <<>>, sum2)
      BY <2>2, <2>3, <2>4, <2>5, <2>6, GoodInode
    <2>8. Good(dev', imap', Known', task', summary')
      BY <1>4, <2>1, <2>7
    <2> QED
      BY <2>8 DEF MemoryGood
  <1>9. Planned' /\ Todo(task') = {}
    BY <1>1, <1>4, EmptyPlan
  <1>10. DirOf(dev, Known)' = DirOf(dev, Known)
    BY <1>2, <1>6
  <1> QED
    BY <1>4, <1>5, <1>8, <1>9, <1>10 DEF Followed

\* An indirect block moved, and the inode that names it follows.
LEMMA IndirectFollows ==
    ASSUME LInv, NEW a, NEW e, MovesBlock(a, e), e.type = "indirect", imap' = imap, task' = task,
           NEW inodes, DOMAIN inodes = DOMAIN work \cup {e.ino}, Copies(inodes), Covers(inodes),
           \A i \in DOMAIN work : i # e.ino => inodes[i] = work[i],
           work' = [inodes EXCEPT ![e.ino].ind = IF @ = a THEN super.tail ELSE @]
    PROVE  Followed
  <1>1. InLoop /\ e.ino \in DOMAIN imap /\ phase' = "copy"
    BY DEF MovesBlock
  <1>2. /\ super.tail \in Log /\ super.tail \notin DOMAIN summary
        /\ Apart(dev, super.tail, dev') /\ dev'[super.tail] = dev[a]
        /\ Filed(summary, {a}, super.tail, e, summary')
        /\ \A ino \in DOMAIN imap : dev'[imap[ino]] = dev[imap[ino]]
        /\ DirOf(dev', Known) = DirOf(dev, Known)
        /\ Known[e.ino].ind = a /\ e = Entry(e.ino, 0, "indirect") /\ a # NoBlock
    <2>1. /\ super.tail \in Log /\ super.tail \notin DOMAIN summary
          /\ Apart(dev, super.tail, dev') /\ dev'[super.tail] = dev[a]
          /\ Filed(summary, {a}, super.tail, e, summary')
      BY MovedFacts
    <2>2. /\ \A ino \in DOMAIN imap : dev'[imap[ino]] = dev[imap[ino]]
          /\ DirOf(dev', Known) = DirOf(dev, Known) /\ a # NoBlock
      BY MovedFacts
    <2>3. Known[e.ino].ind = a /\ e = Entry(e.ino, 0, "indirect")
      BY MovedFacts
    <2> QED
      BY <2>1, <2>2, <2>3
  <1>3. PICK ino, t : ino = e.ino /\ t = super.tail
    OBVIOUS
  <1>4. task = <<>> /\ task' = <<>> /\ DOMAIN work \subseteq DOMAIN imap
    BY <1>1, LoopNow
  <1>5. /\ Good(dev, imap, Known, <<>>, summary) /\ Formed(dev, imap, Known)
        /\ DOMAIN Known = DOMAIN imap /\ IsIndirect(dev[a]) /\ Root \in DOMAIN imap
    BY <1>1, <1>2, LoopNow, GoodNow DEF Formed
  <1>6. /\ DOMAIN work' = DOMAIN work \cup {ino}
        /\ work'[ino] = [Known[ino] EXCEPT !.ind = t]
        /\ \A i \in DOMAIN work : i # ino => work'[i] = work[i]
    <2>1. inodes[ino] = Known[ino] /\ ino \in DOMAIN inodes
      BY <1>1, <1>3 DEF Copies
    <2>2. work' = [inodes EXCEPT ![ino].ind = t]
      BY <1>2, <1>3, <2>1
    <2> QED
      BY <1>3, <2>1, <2>2
  <1>7. Indirected(Known, ino, t, Known')
    <2>1. Known' = [i \in DOMAIN imap |-> IF i \in DOMAIN work' THEN work'[i] ELSE dev'[imap[i]]]
      BY DEF Known, Nodes
    <2>2. \A i \in DOMAIN imap : Known[i] = IF i \in DOMAIN work THEN work[i] ELSE dev[imap[i]]
      BY KnownIs
    <2> QED
      BY <1>1, <1>2, <1>3, <1>5, <1>6, <2>1, <2>2 DEF Indirected
  <1>8. SamePtrs(Known, Known') /\ SameSizes(Known, Known', DOMAIN imap)
    BY <1>1, <1>3, <1>5, <1>7, IndirectKeeps
  <1>9. MemoryGood'
    <2>1. PICK d, d2, map, N, N2, sum, sum2 :
             /\ d = dev /\ d2 = dev' /\ map = imap /\ N = Known /\ N2 = Known'
             /\ sum = summary /\ sum2 = summary'
      OBVIOUS
    <2>2. Good(d, map, N, <<>>, sum) /\ Settled(<<>>) /\ t \in Log /\ t \notin DOMAIN sum
          /\ Apart(d, t, d2) /\ ino \in DOMAIN map
      BY <1>1, <1>2, <1>3, <1>5, <2>1 DEF Settled
    <2>3. IsIndirect(d2[t]) /\ OnlyPends(<<>>, ino)
      BY <1>2, <1>3, <1>5, <2>1 DEF OnlyPends, Pends
    <2>4. Redirects(d2[t], d, N, <<>>, ino)
      <3>1. d2[t] = d[a] /\ N[ino].ind = a
        BY <1>2, <1>3, <2>1
      <3>2. ASSUME NEW k \in Idx, k >= DirectBlocks
            PROVE  d2[t].ptr[k - DirectBlocks] = Pointer(d, N, <<>>, ino, k)
        <4>1. ~(k < DirectBlocks)
          BY <3>2, Sizes
        <4> QED
          BY <1>2, <3>1, <4>1 DEF Pointer, Pends, GetBlockAddr
      <3> QED
        BY <3>2 DEF Redirects
    <2>5. Indirected(N, ino, t, N2)
      BY <1>7, <2>1
    <2>6. Filed(sum, {N[ino].ind}, t, Entry(ino, 0, "indirect"), sum2)
      BY <1>2, <1>3, <2>1
    <2>7. FitsPass(N, <<>>, N2, <<>>, DOMAIN map, {})
      <3>1. SameShape(<<>>, <<>>)
        BY DEF SameShape
      <3> QED
        BY <1>8, <2>1, <3>1, FitsSame
    <2>8. Good(d2, map, N2, <<>>, sum2)
      BY <2>2, <2>3, <2>4, <2>5, <2>6, <2>7, GoodIndirect
    <2>9. Good(dev', imap', Known', task', summary')
      BY <1>4, <2>1, <2>8
    <2> QED
      BY <2>9 DEF MemoryGood
  <1>10. Planned' /\ Todo(task') = {}
    BY <1>1, <1>4, EmptyPlan
  <1>11. DirOf(dev, Known)' = DirOf(dev, Known)
    <2>1. Known'[Root].ptr = Known[Root].ptr
      BY <1>5, <1>8 DEF SamePtrs
    <2>2. DirOf(dev', Known') = DirOf(dev', Known)
      BY <2>1 DEF DirOf
    <2> QED
      BY <1>2, <2>2
  <1> QED
    BY <1>1, <1>3, <1>4, <1>6, <1>9, <1>10, <1>11 DEF Followed

\* Moving the block at the head keeps LInv, and is a step of LogWindow.
LEMMA CleanMoveKeeps ==
    ASSUME LInv, ~overran', CleanMove
    PROVE  LInv' /\ [W!Next]_W!vars
  <1>0. PICK a, e : a = super.head /\ e = summary[a]
    OBVIOUS
  <1> DEFINE inodes == [i \in DOMAIN work \cup {e.ino} |->
                           IF i = e.ino THEN Current(e.ino) ELSE work[i]]
  <1>1. MovesBlock(a, e)
    BY <1>0, BlockMoves
  <1>2. InLoop /\ e.ino \in DOMAIN imap /\ a \in FileBlocks /\ phase' = "copy"
        /\ UNCHANGED <<sb, committed, open, unlinked, lost, load>> /\ DeviceSame
    BY <1>1 DEF MovesBlock
  <1>3. PICK taken : taken = inodes
    OBVIOUS
  <1>4. /\ DOMAIN taken = DOMAIN work \cup {e.ino} /\ Copies(taken) /\ Covers(taken)
        /\ \A i \in DOMAIN work : i # e.ino => taken[i] = work[i]
    <2>1. DOMAIN taken = DOMAIN work \cup {e.ino}
      BY <1>3
    <2>2. \A i \in DOMAIN imap : Known[i] = Current(i)
      BY <1>2, LoopNow
    <2>3. \A i \in DOMAIN work : i # e.ino => taken[i] = work[i] /\ Current(i) = work[i]
      BY <1>3 DEF Current
    <2>4. taken[e.ino] = Current(e.ino)
      BY <1>3
    <2>5. Copies(taken)
      BY <2>1, <2>2, <2>3, <2>4 DEF Copies
    <2> QED
      BY <2>1, <2>3, <2>5 DEF Covers
  <1>5. Followed
    <2>1. \/ /\ e.type = "data" /\ imap' = imap
             /\ SetBlockAddr(taken, e.ino, e.idx, super.tail, <<>>)
          \/ /\ e.type = "inode" /\ imap' = [imap EXCEPT ![e.ino] = super.tail]
             /\ task' = task /\ work' = work
          \/ /\ e.type = "indirect" /\ imap' = imap /\ task' = task
             /\ work' = [taken EXCEPT ![e.ino].ind = IF @ = a THEN super.tail ELSE @]
      BY <1>0, <1>3 DEF CleanMove
    <2> HIDE DEF inodes
    <2>2. CASE e.type = "data" /\ imap' = imap
               /\ SetBlockAddr(taken, e.ino, e.idx, super.tail, <<>>)
      BY <1>1, <1>4, <2>2, DataFollows
    <2>3. CASE e.type = "inode" /\ imap' = [imap EXCEPT ![e.ino] = super.tail]
               /\ task' = task /\ work' = work
      BY <1>1, <2>3, InodeFollows
    <2>4. CASE e.type = "indirect" /\ imap' = imap /\ task' = task
               /\ work' = [taken EXCEPT ![e.ino].ind = IF @ = a THEN super.tail ELSE @]
      BY <1>1, <1>4, <2>4, IndirectFollows
    <2> QED
      BY <2>1, <2>2, <2>3, <2>4
  <1> HIDE DEF inodes
  <1>6. Moved(W!NextBlock(a), e.type) /\ e.type # "map" /\ Wrote(dev[a], e, {a})
    BY <1>1 DEF MovesBlock
  <1>7. Cleans
    <2>1. super'.map = super.map /\ super'.next = super.next /\ super' \in Superblocks
      BY <1>6 DEF Moved
    <2>2. Typed'
      BY <1>2, <1>6, <2>1 DEF LInv, Typed, Wrote
    <2> QED
      BY <1>2, <1>5, <2>1, <2>2, LoopNow DEF Cleans, CleanPhases, Followed, IsDirStep
  <1>8. W!CleanMove
    <2>1. W!Cleaning /\ ~W!CleanedEnough
      BY <1>1, SameWindow DEF MovesBlock, InLoop, CleanedEnough
    <2>2. FileBlocks' = (FileBlocks \ {a}) \cup {super.tail} /\ MapBlocks' = MapBlocks
      <3>1. MapBlocks' = MapBlocks \ {a} /\ FileBlocks' = (FileBlocks \ {a}) \cup {super.tail}
        BY <1>6, FiledBlocks DEF Wrote
      <3> QED
        BY <1>2, <3>1 DEF MapBlocks
    <2>3. W!FreeSpace(W!NextBlock(super.head), super.tail, (FileBlocks \ {super.head}) \cup MapBlocks)
             > W!Reserved
      BY <1>0, <1>2, <2>1, LogFits, W!CleanerRoom DEF LInv, W!CleanerCanMove
    <2>4. Disk' = Disk
      BY <1>2, DiskSame
    <2>5. Chain' = Chain
      BY <1>2, <1>5, LoopNow DEF Chain, Followed
    <2>6. super'.head = W!NextBlock(super.head) /\ W!WriteAtTail(phase)
      BY <1>0, <1>6 DEF Moved
    <2> QED
      BY <1>0, <1>2, <2>1, <2>2, <2>3, <2>4, <2>5, <2>6 DEF W!CleanMove
  <1>9. [W!Next]_W!vars
    BY <1>8 DEF W!Next
  <1> QED
    BY <1>7, <1>9, CleansKeep
-----------------------------------------------------------------------------
(* Failures *)

\* Memory is what the device has: what Reload leaves.
Reloaded ==
    /\ UNCHANGED <<dev, sb>>
    /\ super' \in Superblocks /\ super'.map = sb.map /\ super'.next = sb.next
    /\ imap' = DurableMap /\ summary' = Rebuilt(dev, DurableMap)
    /\ task' = <<>> /\ work' = <<>> /\ phase' = "idle" /\ load' = load

\* What is in memory after a reload is what the device has.
LEMMA ReloadIs ==
    ASSUME LInv, NEW c, c.head \in Log, c.tail \in Log, Reload(c), load' = load
    PROVE  Reloaded /\ super'.head = c.head /\ super'.tail = c.tail
  <1>1. super' = [sb EXCEPT !.head = c.head, !.tail = c.tail]
    BY DEF Reload
  <1>2. sb \in Superblocks
    BY DEF LInv, Typed
  <1>3. /\ super' \in Superblocks /\ super'.map = sb.map /\ super'.next = sb.next
        /\ super'.head = c.head /\ super'.tail = c.tail
    BY <1>1, <1>2 DEF Superblocks
  <1> QED
    BY <1>3 DEF Reload, Reloaded

\* The image a reload finds, and what LogWindow sees of it.
LEMMA ReloadedGood ==
    ASSUME LInv, Reloaded
    PROVE  /\ Typed' /\ MemoryGood' /\ DeviceGood' /\ Planned' /\ Held'
           /\ MapWritten' /\ Numbered' /\ Synced'
           /\ DurableMap' = DurableMap /\ Known' = Stored /\ Stored' = Stored
           /\ FileBlocks' = DOMAIN Rebuilt(dev, DurableMap) /\ MapBlocks' = {}
           /\ Chain' = {} /\ Disk' = Disk
  <1>1. dev' = dev /\ sb' = sb /\ imap' = DurableMap /\ work' = <<>> /\ task' = <<>>
    BY DEF Reloaded
  <1>2. DurableMap' = DurableMap
    BY <1>1 DEF DurableMap
  <1>3. Stored' = Stored /\ Known' = Stored
    BY <1>1, <1>2 DEF Stored, Known
  <1>4. Rebuilt(dev, DurableMap)' = Rebuilt(dev, DurableMap)
    BY <1>1, <1>2 DEF Rebuilt
  <1>5. Good(dev, DurableMap, Stored, <<>>, Rebuilt(dev, DurableMap))
    BY DEF LInv, DeviceGood
  <1>6. DeviceGood'
    <2>1. Good(dev', DurableMap', Stored', <<>>, Rebuilt(dev, DurableMap)')
      BY <1>1, <1>2, <1>3, <1>4, <1>5
    <2> QED
      BY <2>1 DEF DeviceGood
  <1>7. MemoryGood'
    <2>1. Good(dev', imap', Known', task', summary')
      BY <1>1, <1>3, <1>5 DEF Reloaded
    <2> QED
      BY <2>1 DEF MemoryGood
  <1>8. Planned' /\ Held'
    BY IdlePlan DEF Reloaded
  <1>9. Typed'
    BY <1>1 DEF Reloaded, LInv, Typed
  <1>10. MapWritten'
    BY <1>1 DEF Reloaded, MapWritten
  <1>11. Numbered'
    <2>1. sb.next <= sb.next /\ Root < sb.next /\ \A ino \in DOMAIN DurableMap : ino < sb.next
      BY DEF LInv, Numbered, Typed, Superblocks
    <2> QED
      BY <1>1, <1>2, <2>1 DEF Reloaded, Numbered
  <1>12. Synced'
    BY <1>1, <1>2 DEF Synced
  <1>13. FileOnly(Rebuilt(dev, DurableMap))
    <2>1. PICK d, map, N, sum : d = dev /\ map = DurableMap /\ N = Stored /\ sum = Rebuilt(d, map)
      OBVIOUS
    <2>2. Good(d, map, N, <<>>, sum) /\ Plain(d, map, N)
      BY <1>5, <2>1, KnownIs
    <2>3. FileOnly(Rebuilt(d, map))
      BY <2>2, RebuiltKept
    <2> QED
      BY <2>1, <2>3
  <1>14. FileBlocks' = DOMAIN Rebuilt(dev, DurableMap) /\ MapBlocks' = {}
    <2>1. summary' = Rebuilt(dev, DurableMap)
      BY DEF Reloaded
    <2>2. FileBlocks' = DOMAIN summary'
      BY <1>13, <2>1 DEF FileBlocks, FileOnly
    <2> QED
      BY <2>1, <2>2 DEF MapBlocks
  <1>15. Chain' = {}
    BY <1>1 DEF Chain
  <1>16. Disk' = Disk
    BY <1>1, <1>4 DEF Disk
  <1> QED
    BY <1>2, <1>3, <1>6, <1>7, <1>8, <1>9, <1>10, <1>11, <1>12, <1>14, <1>15, <1>16

\* The directory reload goes back to is the one a reopen reads.
LEMMA StoredDir ==
    ASSUME LInv
    PROVE  Entries(dev, DurableMap) = DirOf(dev, Stored)
  <1>1. Root \in DOMAIN DurableMap
    BY DEF LInv, DeviceGood, Good, Formed
  <1>2. Stored[Root] = dev[DurableMap[Root]]
    BY <1>1 DEF Stored, Nodes
  <1> QED
    BY <1>2 DEF Entries, DirOf

\* Recovery from NoSpace keeps LInv, if it brings back no name of an inode noted in
\* unlinked_inodes, and is a step of LogWindow.
LEMMA NoSpaceKeeps ==
    ASSUME LInv, NoSpace, ~RefusedRemoval
    PROVE  LInv' /\ [W!Next]_W!vars
  <1>1. /\ phase \in {"op", "copy", "flush"} /\ ~HasSpace /\ Reload(committed)
        /\ UNCHANGED <<committed, open, unlinked, load>>
    BY DEF NoSpace, bounds
  <1>2. committed.head \in Log /\ committed.tail \in Log
    BY LogIsLog DEF LInv, W!IInv, W!TypeOK, W!Cursors
  <1>3. Reloaded /\ super'.head = committed.head /\ super'.tail = committed.tail
    <2>1. PICK c : c = committed
      OBVIOUS
    <2> QED
      BY <1>1, <1>2, <2>1, ReloadIs
  <1>4. /\ Typed' /\ MemoryGood' /\ DeviceGood' /\ Planned' /\ Held'
        /\ MapWritten' /\ Numbered' /\ Synced'
        /\ DurableMap' = DurableMap /\ Known' = Stored /\ Stored' = Stored
        /\ FileBlocks' = DOMAIN Rebuilt(dev, DurableMap) /\ MapBlocks' = {}
        /\ Chain' = {} /\ Disk' = Disk
    BY <1>3, ReloadedGood
  <1>5. W!NoSpace
    <2>1. ~W!HasSpace
      BY <1>1, SameWindow DEF HasSpace
    <2>2. /\ expected' = NoBlock /\ phase' = "idle" /\ dirty' = dirty /\ overran' = overran
          /\ lost' = (lost \/ (DOMAIN Rebuilt(dev, DurableMap) \cup {sb.map}) \cap dirty # {})
      BY <1>1 DEF Reload
    <2>3. W!Reached(Disk) = DOMAIN Rebuilt(dev, DurableMap) \cup {sb.map}
      BY DEF W!Reached, Disk
    <2>4. Disk.live = DOMAIN Rebuilt(dev, DurableMap)
      BY DEF Disk
    <2>5. W!Reload(committed)
      BY <1>3, <1>4, <2>2, <2>3, <2>4 DEF W!Reload
    <2> QED
      BY <1>1, <1>4, <2>1, <2>2, <2>5 DEF W!NoSpace
  <1>6. [W!Next]_W!vars
    BY <1>5 DEF W!Next
  <1>7. W!IInv'
    BY <1>6, LogFits, W!NextIInv DEF LInv
  <1>8. OpenFine'
    <2>1. OpenInos' = OpenInos /\ open' = open /\ imap' = DurableMap
      BY <1>1, <1>3 DEF OpenInos, Reloaded
    <2> QED
      BY <1>4, <2>1 DEF LInv, OpenFine
  <1>9. UnlinkedFine'
    <2>1. OpenInos' = OpenInos /\ unlinked' = unlinked /\ unlinked \subseteq OpenInos
      BY <1>1 DEF OpenInos, LInv, UnlinkedFine
    <2>2. \A ino \in unlinked : \A n \in DOMAIN DirOf(dev, Stored) : DirOf(dev, Stored)[n] # ino
      BY StoredDir DEF RefusedRemoval
    <2>3. Todo(task') = {}
      BY <1>3, NoSteps DEF Reloaded
    <2>4. /\ DirOf(dev, Known)' = DirOf(dev, Stored) /\ DirOf(dev, Stored)' = DirOf(dev, Stored)
      BY <1>3, <1>4 DEF DirOf, Reloaded
    <2>5. ASSUME NEW ino \in unlinked
          PROVE  Unnamed(ino)'
      BY <2>2, <2>3, <2>4 DEF Unnamed
    <2> QED
      BY <2>1, <2>2, <2>3, <2>4, <2>5 DEF UnlinkedFine
  <1> QED
    BY <1>4, <1>6, <1>7, <1>8, <1>9 DEF LInv

\* A crash and a reopen do, too.
LEMMA CrashAndOpenKeeps ==
    ASSUME LInv, CrashAndOpen
    PROVE  LInv' /\ [W!Next]_W!vars
  <1>1. /\ Reload(sb) /\ load' = load /\ unlinked' = {}
        /\ committed' = [head |-> sb.head, tail |-> sb.tail]
        /\ open' = [fd \in Fds |-> NoIno]
    BY DEF CrashAndOpen
  <1>2. sb.head \in Log /\ sb.tail \in Log
    BY DEF LInv, Typed, Superblocks
  <1>3. Reloaded /\ super'.head = sb.head /\ super'.tail = sb.tail
    <2>1. PICK c : c = sb
      OBVIOUS
    <2> QED
      BY <1>1, <1>2, <2>1, ReloadIs
  <1>4. /\ Typed' /\ MemoryGood' /\ DeviceGood' /\ Planned' /\ Held'
        /\ MapWritten' /\ Numbered' /\ Synced'
        /\ FileBlocks' = DOMAIN Rebuilt(dev, DurableMap) /\ MapBlocks' = {}
        /\ Chain' = {} /\ Disk' = Disk
    BY <1>3, ReloadedGood
  <1>5. W!CrashAndOpen
    <2>1. /\ expected' = NoBlock /\ phase' = "idle" /\ dirty' = dirty /\ overran' = overran
          /\ lost' = (lost \/ (DOMAIN Rebuilt(dev, DurableMap) \cup {sb.map}) \cap dirty # {})
      BY <1>1 DEF Reload
    <2>2. W!Reached(Disk) = DOMAIN Rebuilt(dev, DurableMap) \cup {sb.map}
      BY DEF W!Reached, Disk
    <2>3. Disk.live = DOMAIN Rebuilt(dev, DurableMap) /\ Disk.head = sb.head /\ Disk.tail = sb.tail
      BY DEF Disk
    <2>4. W!Reload(Disk)
      BY <1>3, <1>4, <2>1, <2>2, <2>3 DEF W!Reload
    <2> QED
      BY <1>1, <1>4, <2>1, <2>3, <2>4 DEF W!CrashAndOpen
  <1>6. [W!Next]_W!vars
    BY <1>5 DEF W!Next
  <1>7. W!IInv'
    BY <1>6, LogFits, W!NextIInv DEF LInv
  <1>8. OpenInos' = {} /\ open' \in [Fds -> Nat]
    BY <1>1 DEF OpenInos, NoIno
  <1>9. OpenFine'
    BY <1>8 DEF OpenFine
  <1>10. Todo(task') = {}
    BY <1>3, NoSteps DEF Reloaded
  <1>11. UnlinkedFine'
    BY <1>1, <1>8, <1>10 DEF UnlinkedFine
  <1> QED
    BY <1>4, <1>6, <1>7, <1>9, <1>11 DEF LInv

\* A close that is refused does.
LEMMA CloseNoSpaceKeeps ==
    ASSUME LInv, CloseNoSpace
    PROVE  LInv' /\ [W!Next]_W!vars
  <1>1. /\ phase = "close" /\ task # <<>> /\ Now.do = "map" /\ ~HasSpace
        /\ phase' = "idle" /\ task' = <<>> /\ work' = <<>>
        /\ UNCHANGED <<dev, sb, super, imap, summary, committed, open, unlinked, expected,
                       dirty, overran, lost, load>>
    BY DEF CloseNoSpace, Due, Now, memory, history, bounds
  <1>2. work = <<>> /\ Chain = {} /\ Chain' = {}
    BY <1>1 DEF LInv, Held, Chain, Now
  <1>3. Known' = Known
    BY <1>1, <1>2 DEF Known
  <1>4. DeviceSame
    BY <1>1, DeviceKept
  <1>5. \A s \in Todo(task) : s.do \in {"free", "map", "end"}
    BY <1>1 DEF LInv, Planned, StepsIn
  <1>6. MemoryGood'
    <2>1. SameShape(task, <<>>)
      BY <1>5, NoSteps DEF SameShape
    <2>2. FitsPass(Known, task, Known, <<>>, DOMAIN imap, {})
      BY <2>1, FitsSame DEF SameSizes
    <2>3. PICK d, map, N, todo, sum : /\ d = dev /\ map = imap /\ N = Known /\ todo = task
                                      /\ sum = summary
      OBVIOUS
    <2>4. Good(d, map, N, todo, sum) /\ Settled(todo) /\ Settled(<<>>)
      BY <1>1, <2>3, GoodNow DEF Settled, Now
    <2>5. Good(d, map, N, <<>>, sum)
      BY <2>2, <2>3, <2>4, GoodTodo
    <2>6. Good(dev', imap', Known', task', summary')
      BY <1>1, <1>3, <2>3, <2>5
    <2> QED
      BY <2>6 DEF MemoryGood
  <1>7. Planned' /\ Held'
    BY <1>1, IdlePlan
  <1>8. Typed' /\ DeviceGood'
    BY <1>1, <1>4 DEF LInv, Typed, DeviceSame
  <1>9. MapWritten' /\ Numbered' /\ Synced' /\ OpenFine'
    <2>1. DurableMap' = DurableMap /\ OpenInos' = OpenInos
      BY <1>1, <1>4 DEF DeviceSame, OpenInos
    <2>2. MapWritten'
      BY <1>1 DEF LInv, MapWritten, Now
    <2>3. Numbered'
      BY <1>1, <2>1 DEF LInv, Numbered
    <2>4. Synced'
      BY <1>1, <2>1 DEF LInv, Synced
    <2>5. OpenFine'
      BY <1>1, <2>1 DEF LInv, OpenFine
    <2> QED
      BY <2>2, <2>3, <2>4, <2>5
  <1>10. UnlinkedFine'
    <2>1. OpenInos' = OpenInos /\ unlinked' = unlinked /\ unlinked \subseteq OpenInos
      BY <1>1 DEF OpenInos, LInv, UnlinkedFine
    <2>2. \A ino \in unlinked :
             Unnamed(ino) /\ \A n \in DOMAIN DirOf(dev, Stored) : DirOf(dev, Stored)[n] # ino
      BY <1>1 DEF LInv, UnlinkedFine, Finishing
    <2>3. \A s \in Todo(task) : ~IsDirStep(s)
      BY <1>5 DEF IsDirStep
    <2>4. /\ DirOf(dev, Known)' = DirOf(dev, Known) /\ DirOf(dev, Stored)' = DirOf(dev, Stored)
      BY <1>1, <1>3, <1>4 DEF DirOf, DeviceSame
    <2>5. Todo(task') = {}
      BY <1>1, NoSteps
    <2>6. ASSUME NEW ino \in unlinked
          PROVE  Unnamed(ino)'
      BY <2>2, <2>3, <2>4, <2>5 DEF Unnamed
    <2> QED
      BY <2>1, <2>2, <2>4, <2>5, <2>6 DEF UnlinkedFine
  <1>11. W!CloseNoSpace
    <2>1. ~W!HasSpace
      BY <1>1, SameWindow DEF HasSpace
    <2>2. Disk' = Disk
      BY <1>1, <1>4, DiskSame
    <2>3. FileBlocks' = FileBlocks /\ MapBlocks' = MapBlocks
      BY <1>1 DEF FileBlocks, MapBlocks
    <2> QED
      BY <1>1, <1>2, <2>1, <2>2, <2>3 DEF W!CloseNoSpace, W!history
  <1>12. [W!Next]_W!vars
    BY <1>11 DEF W!Next
  <1>13. W!IInv'
    BY <1>12, LogFits, W!NextIInv DEF LInv
  <1> QED
    BY <1>6, <1>7, <1>8, <1>9, <1>10, <1>12, <1>13 DEF LInv
-----------------------------------------------------------------------------
(* The state after formatting *)

\* The root inode, and the blocks of the new file system.
FirstRoot == [NewInode(Root) EXCEPT !.ptr[0] = LogStart + 3]
FirstMap == [ino \in {Root} |-> LogStart + 4]

\* The root inode of a new filesystem.
LEMMA RootIsNode ==
    /\ IsNode(FirstRoot, Root) /\ FirstRoot.ind = NoBlock /\ FirstRoot.ptr[0] = LogStart + 3
    /\ \A k \in 0 .. (DirectBlocks - 1) : k # 0 => FirstRoot.ptr[k] = NoBlock
    /\ LogStart + 3 \in Log /\ LogStart + 4 \in Log /\ LogStart + 5 \in Log /\ LogStart + 6 \in Log
    /\ LogStart \in Log
  <1>1. /\ LogStart + 3 \in Log /\ LogStart + 4 \in Log /\ LogStart + 5 \in Log
        /\ LogStart + 6 \in Log /\ LogStart \in Log
    BY LfsAssumption DEF Log
  <1>2. 0 \in 0 .. (DirectBlocks - 1) /\ 1 <= MaxBlocks
    BY Sizes
  <1>3. PICK p : p = NoPtrs(DirectBlocks)
    OBVIOUS
  <1>4. DOMAIN p = 0 .. (DirectBlocks - 1) /\ \A k \in 0 .. (DirectBlocks - 1) : p[k] = NoBlock
    BY <1>3 DEF NoPtrs
  <1>5. PICK q : q = [p EXCEPT ![0] = LogStart + 3]
    OBVIOUS
  <1>6. /\ q \in [0 .. (DirectBlocks - 1) -> Addr] /\ q[0] = LogStart + 3
        /\ \A k \in 0 .. (DirectBlocks - 1) : k # 0 => q[k] = NoBlock
    BY <1>1, <1>2, <1>3, <1>4, <1>5 DEF Addr, NoPtrs
  <1>7. FirstRoot = [type |-> "inode", ino |-> Root, size |-> 0, ptr |-> q, ind |-> NoBlock]
    BY <1>3, <1>5 DEF FirstRoot, NewInode
  <1>8. IsNode(FirstRoot, Root)
    BY <1>2, <1>6, <1>7 DEF IsNode, NodeOf, Blocks, Addr
  <1> QED
    BY <1>1, <1>6, <1>7, <1>8

\* A new filesystem, variable by variable.
LEMMA InitIs ==
    ASSUME Init
    PROVE  /\ dev[LogStart + 3] = DirBlock(<<>>) /\ dev[LogStart + 4] = FirstRoot
           /\ dev[LogStart + 5] = MapBlock(FirstMap) /\ DOMAIN dev = Log
           /\ super.head = LogStart /\ super.tail = LogStart + 6 /\ super.map = LogStart + 5
           /\ super.next = Root + 1 /\ super \in Superblocks /\ sb = super
           /\ imap = FirstMap /\ DOMAIN FirstMap = {Root} /\ FirstMap[Root] = LogStart + 4
           /\ DOMAIN summary = {LogStart + 3, LogStart + 4, LogStart + 5}
           /\ summary[LogStart + 3] = Entry(Root, 0, "data")
           /\ summary[LogStart + 4] = Entry(Root, 0, "inode")
           /\ summary[LogStart + 5] = Entry(NoIno, 0, "map")
           /\ committed = [head |-> LogStart, tail |-> LogStart + 6]
           /\ open = [fd \in Fds |-> NoIno] /\ unlinked = {}
           /\ phase = "idle" /\ task = <<>> /\ work = <<>> /\ expected = LogStart + 6
           /\ dirty = {} /\ overran = FALSE /\ lost = FALSE /\ load \in Loads
  <1>1. LogStart \in Nat
    BY LfsAssumption
  <1>2. /\ dev = [a \in Window!Log |->
                    IF a = LogStart + 3 THEN DirBlock(<<>>)
                    ELSE IF a = LogStart + 4 THEN FirstRoot
                    ELSE IF a = LogStart + 5 THEN MapBlock(FirstMap)
                    ELSE [type |-> "old"]]
        /\ super = [head |-> LogStart, tail |-> LogStart + 6,
                    map |-> LogStart + 5, next |-> Root + 1]
        /\ sb = super
        /\ imap = FirstMap
        /\ summary = [a \in {LogStart + 3, LogStart + 4, LogStart + 5} |->
                        IF a = LogStart + 3 THEN Entry(Root, 0, "data")
                        ELSE IF a = LogStart + 4 THEN Entry(Root, 0, "inode")
                        ELSE Entry(NoIno, 0, "map")]
    BY DEF Init, FirstRoot, FirstMap
  <1>3. /\ dev[LogStart + 3] = DirBlock(<<>>) /\ dev[LogStart + 4] = FirstRoot
        /\ dev[LogStart + 5] = MapBlock(FirstMap) /\ DOMAIN dev = Log
    BY <1>1, <1>2, RootIsNode, LogIsLog
  <1>4. /\ super.head = LogStart /\ super.tail = LogStart + 6 /\ super.map = LogStart + 5
        /\ super.next = Root + 1 /\ super \in Superblocks
    BY <1>2, RootIsNode DEF Superblocks, Root
  <1>5. /\ DOMAIN summary = {LogStart + 3, LogStart + 4, LogStart + 5}
        /\ summary[LogStart + 3] = Entry(Root, 0, "data")
        /\ summary[LogStart + 4] = Entry(Root, 0, "inode")
        /\ summary[LogStart + 5] = Entry(NoIno, 0, "map")
    BY <1>1, <1>2
  <1>6. DOMAIN FirstMap = {Root} /\ FirstMap[Root] = LogStart + 4
    BY DEF FirstMap
  <1> QED
    BY <1>2, <1>3, <1>4, <1>5, <1>6 DEF Init

\* Its image is good, in memory and on the device.
LEMMA InitGood ==
    ASSUME Init
    PROVE  /\ Good(dev, imap, Known, <<>>, summary) /\ Known = [ino \in {Root} |-> FirstRoot]
           /\ DurableMap = imap /\ Stored = Known
  <1>1. /\ imap = FirstMap /\ work = <<>> /\ DOMAIN imap = {Root} /\ imap[Root] = LogStart + 4
        /\ dev[LogStart + 4] = FirstRoot /\ dev[LogStart + 3] = DirBlock(<<>>)
        /\ dev[LogStart + 5] = MapBlock(FirstMap) /\ sb = super /\ super.map = LogStart + 5
    BY InitIs
  <1>2. DurableMap = imap
    BY <1>1 DEF DurableMap, MapBlock
  <1>3. Stored = Known
    BY <1>1, <1>2 DEF Stored, Known
  <1>4. Known = [ino \in {Root} |-> FirstRoot]
    <2>1. DOMAIN work = {}
      BY <1>1
    <2> QED
      BY <1>1, <2>1 DEF Known, Nodes
  <1>5. PICK d, map, N, sum : d = dev /\ map = imap /\ N = Known /\ sum = summary
    OBVIOUS
  <1>6. DOMAIN map = {Root} /\ map[Root] = LogStart + 4 /\ DOMAIN N = {Root} /\ N[Root] = FirstRoot
        /\ Root \in Nat \ {NoIno}
    BY <1>1, <1>4, <1>5 DEF Root, NoIno
  <1>7. PendsFine(<<>>) /\ \A i, k : ~Pends(<<>>, i, k)
    BY DEF PendsFine, Pends
  <1>8. Formed(d, map, N)
    BY <1>6, RootIsNode DEF Formed
  <1> DEFINE P == Places(d, map, N, <<>>)
  <1>9. /\ DOMAIN P = RolesOf({Root})
        /\ P[Entry(Root, 0, "inode")] = LogStart + 4
        /\ P[Entry(Root, 0, "indirect")] = NoBlock
        /\ \A idx \in Idx : P[Entry(Root, idx, "data")] = IF idx = 0 THEN LogStart + 3 ELSE NoBlock
    <2>1. /\ DOMAIN P = RolesOf({Root})
          /\ P[Entry(Root, 0, "inode")] = LogStart + 4
          /\ P[Entry(Root, 0, "indirect")] = FirstRoot.ind
          /\ \A idx \in Idx : P[Entry(Root, idx, "data")] = Pointer(d, N, <<>>, Root, idx)
      BY <1>6, <1>7, <1>8, PlacesAre
    <2>2. ASSUME NEW idx \in Idx
          PROVE  Pointer(d, N, <<>>, Root, idx) = IF idx = 0 THEN LogStart + 3 ELSE NoBlock
      <3>1. Pointer(d, N, <<>>, Root, idx) = GetBlockAddr(d, FirstRoot, idx)
        BY <1>6, <1>7 DEF Pointer
      <3>2. idx \in Nat /\ DirectBlocks \in Nat \ {0}
        BY Sizes
      <3> QED
        BY <3>1, <3>2, RootIsNode DEF GetBlockAddr
    <2> QED
      BY <2>1, <2>2, RootIsNode
  <1>10. \A e \in RolesOf({Root}) :
            \/ e = Entry(Root, 0, "inode") \/ e = Entry(Root, 0, "indirect")
            \/ e = Entry(Root, e.idx, "data") /\ e.idx \in Idx
    BY <1>6, InRolesOf
  <1>11. /\ Entry(Root, 0, "inode") \in RolesOf({Root}) /\ Entry(Root, 0, "data") \in RolesOf({Root})
         /\ 0 \in Idx
    BY <1>6, InRolesOf, Sizes
  <1> HIDE DEF P
  <1>12. /\ DOMAIN sum = {LogStart + 3, LogStart + 4, LogStart + 5}
         /\ sum[LogStart + 3] = Entry(Root, 0, "data")
         /\ sum[LogStart + 4] = Entry(Root, 0, "inode")
         /\ sum[LogStart + 5] = Entry(NoIno, 0, "map")
    BY <1>5, InitIs
  <1>13. Kept(P, sum)
    <2>1. ASSUME NEW a \in DOMAIN sum, sum[a].type # "map"
          PROVE  a \in Log /\ sum[a] \in DOMAIN P /\ P[sum[a]] = a
      <3>1. a # LogStart + 5
        BY <1>12, <2>1, RolesAre
      <3> QED
        BY <1>9, <1>11, <1>12, <3>1, RootIsNode
    <2>2. ASSUME NEW e \in DOMAIN P, P[e] # NoBlock
          PROVE  P[e] \in DOMAIN sum /\ sum[P[e]] = e
      BY <1>9, <1>10, <1>12, <2>2
    <2> QED
      BY <2>1, <2>2 DEF Kept
  <1>14. Bounded(P, N, <<>>)
    <2>1. ASSUME NEW e \in DOMAIN P, e.type = "data", P[e] # NoBlock
          PROVE  Fits(N, <<>>, e.ino, e.idx)
      <3>1. e = Entry(Root, e.idx, "data") /\ e.idx \in Idx
        <4>1. e \in RolesOf({Root})
          BY <1>9, <2>1
        <4>2. /\ Entry(Root, 0, "inode").type # "data" /\ Entry(Root, 0, "indirect").type # "data"
          BY DEF Entry
        <4> QED
          BY <1>10, <2>1, <4>1, <4>2
      <3>2. e.ino = Root /\ e.idx = 0
        <4>1. Entry(Root, e.idx, "data").ino = Root
          BY DEF Entry
        <4>2. P[Entry(Root, e.idx, "data")] # NoBlock
          BY <2>1, <3>1
        <4> QED
          BY <1>9, <3>1, <4>1, <4>2
      <3>3. Blocks(Root, N[Root].size) = 1 /\ ~InodePending(<<>>, Root)
        BY NoSteps DEF Blocks, InodePending
      <3> QED
        BY <3>2, <3>3 DEF Fits
    <2> QED
      BY <2>1 DEF Bounded
  <1>15. Named(d, map, N)
    <2>1. DirOf(d, N) = <<>>
      BY <1>1, <1>5, <1>6, RootIsNode DEF DirOf, DirBlock
    <2>2. EntriesFine(<<>>, DOMAIN map)
      BY DEF EntriesFine
    <2> QED
      BY <1>6, <2>1, <2>2, RootIsNode, LogIsLog DEF Named
  <1>16. Good(d, map, N, <<>>, sum)
    BY <1>7, <1>8, <1>13, <1>14, <1>15 DEF Good, P
  <1> QED
    BY <1>2, <1>3, <1>4, <1>5, <1>16

\* A new filesystem satisfies LInv and is an initial state of LogWindow.
LEMMA InitLInv == Init => LInv /\ W!Init
  <1> SUFFICES ASSUME Init PROVE LInv /\ W!Init
    OBVIOUS
  <1>1. /\ DOMAIN dev = Log /\ dev[LogStart + 5] = MapBlock(FirstMap)
        /\ super.head = LogStart /\ super.tail = LogStart + 6 /\ super.map = LogStart + 5
        /\ super.next = Root + 1 /\ super \in Superblocks /\ sb = super
        /\ imap = FirstMap /\ DOMAIN FirstMap = {Root}
        /\ open = [fd \in Fds |-> NoIno] /\ unlinked = {}
        /\ phase = "idle" /\ task = <<>> /\ work = <<>> /\ expected = LogStart + 6
        /\ dirty = {} /\ overran = FALSE /\ lost = FALSE /\ load \in Loads
        /\ committed = [head |-> LogStart, tail |-> LogStart + 6]
    BY InitIs
  <1>2. /\ Good(dev, imap, Known, <<>>, summary) /\ Known = [ino \in {Root} |-> FirstRoot]
        /\ DurableMap = imap /\ Stored = Known
    BY InitGood
  <1>3. MemoryGood
    BY <1>1, <1>2 DEF MemoryGood
  <1>4. DeviceGood /\ FileBlocks = DOMAIN Rebuilt(dev, DurableMap)
    <2>1. PICK d, map : d = dev /\ map = imap
      OBVIOUS
    <2>2. Plain(dev, imap, Known) /\ DOMAIN Known = DOMAIN imap
      BY <1>2, KnownIs
    <2>3. /\ Nodes(d, map, <<>>) = Known
          /\ Good(d, map, Nodes(d, map, <<>>), <<>>, Rebuilt(d, map))
          /\ FileBlocks = DOMAIN Rebuilt(d, map)
      BY <1>2, <2>1, <2>2, DeviceAsMemory
    <2> QED
      BY <1>2, <2>1, <2>3 DEF DeviceGood
  <1>5. FileBlocks = {LogStart + 3, LogStart + 4} /\ MapBlocks = {LogStart + 5}
    <2>1. /\ DOMAIN summary = {LogStart + 3, LogStart + 4, LogStart + 5}
          /\ summary[LogStart + 3] = Entry(Root, 0, "data")
          /\ summary[LogStart + 4] = Entry(Root, 0, "inode")
          /\ summary[LogStart + 5] = Entry(NoIno, 0, "map")
      BY InitIs
    <2>2. FileBlocks = {LogStart + 3, LogStart + 4}
      BY <2>1, RolesAre DEF FileBlocks
    <2>3. LogStart \in Nat
      BY LfsAssumption
    <2> QED
      BY <2>1, <2>2, <2>3 DEF MapBlocks
  <1>6. Chain = {}
    BY <1>1 DEF Chain
  <1>7. W!Init
    <2>1. Disk = [head |-> LogStart, tail |-> LogStart + 6,
                  live |-> {LogStart + 3, LogStart + 4}, maps |-> {LogStart + 5}]
      BY <1>1, <1>4, <1>5 DEF Disk
    <2> QED
      BY <1>1, <1>5, <1>6, <2>1 DEF W!Init, W!Formatted
  <1>8. W!IInv
    BY <1>7, LogFits, W!InitIInv
  <1>9. Todo(task) = {} /\ Ordered(task) /\ task \in Seq(Todo(task))
    BY <1>1, NoSteps
  <1>10. Planned
    BY <1>1, <1>9 DEF Planned, Ends
  <1>11. Held
    <2>1. DOMAIN work = {}
      BY <1>1
    <2> QED
      BY <1>1, <2>1 DEF Held, CleanPhases
  <1>12. Typed /\ MapWritten /\ Synced
    BY <1>1, <1>2 DEF Typed, MapWritten, Synced
  <1>13. Numbered
    BY <1>1, <1>2 DEF Numbered, Root
  <1>14. OpenFine /\ UnlinkedFine
    <2>1. OpenInos = {} /\ open \in [Fds -> Nat]
      BY <1>1 DEF OpenInos, NoIno
    <2> QED
      BY <1>1, <1>9, <2>1 DEF OpenFine, UnlinkedFine
  <1> QED
    BY <1>3, <1>4, <1>7, <1>8, <1>10, <1>11, <1>12, <1>13, <1>14 DEF LInv
-----------------------------------------------------------------------------
(* The invariant holds *)

\* Nothing happens.
LEMMA StutterKeeps ==
    ASSUME LInv, UNCHANGED vars
    PROVE  LInv' /\ [W!Next]_W!vars
  <1>1. UNCHANGED <<dev, sb, super, imap, summary, committed, open, unlinked, phase, task, work,
                    expected, dirty, overran, lost, load>>
    BY DEF vars, memory, running, history, bounds
  <1>2. /\ Typed' /\ MemoryGood' /\ DeviceGood' /\ Held' /\ MapWritten' /\ Numbered' /\ Synced'
        /\ DurableMap' = DurableMap /\ Chain' = Chain /\ Disk' = Disk
        /\ DirOf(dev, Known)' = DirOf(dev, Known) /\ DirOf(dev, Stored)' = DirOf(dev, Stored)
        /\ Distance' = Distance
    BY <1>1, StillSame DEF Still
  <1>3. UNCHANGED W!vars
    BY <1>1, <1>2, StutterStep
  <1>4. W!IInv'
    BY <1>3, LogFits, W!NextIInv DEF LInv
  <1>5. OpenInos' = OpenInos /\ FreeFds' = FreeFds /\ Ends' = Ends
    BY <1>1 DEF OpenInos, FreeFds, Ends
  <1>6. \A ino : Unnamed(ino)' <=> Unnamed(ino)
    BY <1>1, <1>2 DEF Unnamed
  <1>7. \A s : StepFine(s)' <=> StepFine(s)
    <2>1. \A s : InodeFine(s)' <=> InodeFine(s)
      BY <1>1 DEF InodeFine
    <2>2. \A s : DataFine(s)' <=> DataFine(s)
      BY <1>1 DEF DataFine, DirStepFine
    <2> QED
      BY <1>1, <1>5, <1>6, <2>1, <2>2 DEF StepFine
  <1>8. Planned'
    BY <1>1, <1>5, <1>7 DEF LInv, Planned
  <1>9. OpenFine'
    BY <1>1, <1>2, <1>5 DEF LInv, OpenFine
  <1>10. UnlinkedFine'
    <2>1. Finishing' <=> Finishing
      BY <1>1, <1>2 DEF Finishing
    <2> QED
      BY <1>1, <1>2, <1>5, <1>6, <2>1 DEF LInv, UnlinkedFine
  <1> QED
    BY <1>2, <1>3, <1>4, <1>8, <1>9, <1>10 DEF LInv

\* Every step keeps LInv, as long as no cleaner overruns and no removal of an open
\* file is refused half way, and is a step of LogWindow.
LEMMA NextLInv ==
    ASSUME LInv, ~overran', [Next]_vars, [~RefusedRemoval]_vars
    PROVE  LInv' /\ [W!Next]_W!vars
  <1>1. CASE UNCHANGED vars
    BY <1>1, StutterKeeps
  <1>2. CASE \E n \in Names : OpenExisting(n) \/ OpenNew(n) \/ RemoveFile(n)
    BY <1>2, OpenExistingKeeps, OpenNewKeeps, RemoveFileKeeps
  <1>3. CASE \E fd \in Fds, w \in load.writes : Write(fd, w)
    BY <1>3, WriteKeeps
  <1>4. CASE \E fd \in Fds, size \in load.sizes : Truncate(fd, size)
    BY <1>4, TruncateKeeps
  <1>5. CASE \E fd \in Fds : Close(fd) \/ CloseLast(fd)
    BY <1>5, CloseKeeps, CloseLastKeeps
  <1>6. CASE Clean
    BY <1>6, CleanKeeps
  <1>7. CASE Running
    <2>1. CASE WriteData \/ WriteIndirect \/ CutBlock \/ WriteInode \/ MarkUnlinked
      BY <2>1, WriteDataKeeps, WriteIndirectKeeps, CutBlockKeeps, WriteInodeKeeps,
         MarkUnlinkedKeeps
    <2>2. CASE FreeInode \/ WriteSuperblock \/ WriteMap \/ Finish
      BY <2>2, FreeInodeKeeps, WriteSuperblockKeeps, WriteMapKeeps, FinishKeeps
    <2>3. CASE CleanSkip \/ CleanMove \/ CleanLoopEnds \/ FlushNext
      BY <2>3, CleanSkipKeeps, CleanMoveKeeps, CleanLoopEndsKeeps, FlushNextKeeps
    <2>4. CASE NoSpace \/ CloseNoSpace
      BY <1>1, <2>4, NoSpaceKeeps, CloseNoSpaceKeeps
    <2> QED
      BY <1>7, <2>1, <2>2, <2>3, <2>4 DEF Running
  <1>8. CASE CrashAndOpen
    BY <1>8, CrashAndOpenKeeps
  <1> QED
    BY <1>1, <1>2, <1>3, <1>4, <1>5, <1>6, <1>7, <1>8 DEF Next, Starts

\* What LogWindow proves of its steps holds of Window's.
LEMMA WindowSteps ==
    /\ W!Init => Window!Init
    /\ [W!Next]_W!vars => [Window!Next]_Window!vars
  <1>0. /\ Window!HasSpace = W!HasSpace /\ Window!Cleaning = W!Cleaning
        /\ Window!CleanedEnough = W!CleanedEnough /\ Window!Reserved = W!Reserved
        /\ \A b : Window!NextBlock(b) = W!NextBlock(b)
        /\ \A p : Window!WriteAtTail(p) <=> W!WriteAtTail(p)
    BY SameWindow
  <1>1. W!Init => Window!Init
    BY DEF W!Init, Window!Init, W!Formatted, Window!Formatted, Chain, Disk
  <1>2. W!Begin => Window!Begin
    BY DEF W!Begin, Window!Begin, W!memory, Window!memory, W!history, Window!history, Chain, Disk
  <1>3. \A old : W!Append(old) => Window!Append(old)
    BY <1>0 DEF W!Append, Window!Append, W!Cardinality, Window!Cardinality, Chain, Disk
  <1>4. \A dead : W!Kill(dead) => Window!Kill(dead)
    BY DEF W!Kill, Window!Kill, W!history, Window!history, Chain, Disk
  <1>5. W!WriteSuperblockEarly => Window!WriteSuperblockEarly
    BY DEF W!WriteSuperblockEarly, Window!WriteSuperblockEarly, W!memory, Window!memory,
           W!history, Window!history, Chain, Disk
  <1>6. W!PersistMapBlock => Window!PersistMapBlock
    BY <1>0 DEF W!PersistMapBlock, Window!PersistMapBlock, Chain, Disk
  <1>7. W!PersistSuperblock => Window!PersistSuperblock
    BY DEF W!PersistSuperblock, Window!PersistSuperblock, Chain, Disk
  <1>8. W!CommitWithoutWrite => Window!CommitWithoutWrite
    BY DEF W!CommitWithoutWrite, Window!CommitWithoutWrite, W!history, Window!history, Chain, Disk
  <1>9. W!CleanSkip => Window!CleanSkip
    BY <1>0 DEF W!CleanSkip, Window!CleanSkip, W!history, Window!history, Chain, Disk
  <1>10. W!CleanMove => Window!CleanMove
    BY <1>0 DEF W!CleanMove, Window!CleanMove, W!FreeSpace, Window!FreeSpace, W!LogSize,
                Window!LogSize, W!LogDistance, Window!LogDistance, Chain, Disk
  <1>11. W!CleanLoopEnds => Window!CleanLoopEnds
    BY <1>0 DEF W!CleanLoopEnds, Window!CleanLoopEnds, W!memory, Window!memory,
                W!history, Window!history, Chain, Disk
  <1>12. \A c : W!Reload(c) => Window!Reload(c)
    BY DEF W!Reload, Window!Reload, W!Reached, Window!Reached, Chain, Disk
  <1>13. W!NoSpace => Window!NoSpace
    BY <1>0, <1>12 DEF W!NoSpace, Window!NoSpace, Disk
  <1>14. W!CloseNoSpace => Window!CloseNoSpace
    BY <1>0 DEF W!CloseNoSpace, Window!CloseNoSpace, W!history, Window!history, Chain, Disk
  <1>15. W!CrashAndOpen => Window!CrashAndOpen
    BY <1>12 DEF W!CrashAndOpen, Window!CrashAndOpen, Disk
  <1>16. UNCHANGED W!vars => UNCHANGED Window!vars
    BY DEF W!vars, Window!vars, W!memory, Window!memory, W!history, Window!history, Chain, Disk
  <1>17. W!Next => Window!Next
    BY <1>2, <1>3, <1>4, <1>5, <1>6, <1>7, <1>8, <1>9, <1>10, <1>11, <1>13, <1>14, <1>15
       DEF W!Next, Window!Next
  <1> QED
    BY <1>1, <1>16, <1>17

-----------------------------------------------------------------------------
(* The theorems *)

\* As long as no cleaner runs past the blocks that were free, and no removal of an
\* open file is refused half way, the invariant holds.
THEOREM InvariantOfFiles == Spec /\ []~overran /\ RemovalsFinish => []LInv
  <1>1. Init => LInv
    BY InitLInv
  <1>2. LInv /\ ~overran' /\ [Next]_vars /\ [~RefusedRemoval]_vars => LInv'
    BY NextLInv
  <1> QED
    BY <1>1, <1>2, PTL DEF Spec, RemovalsFinish

\* Between calls the segment summary, which every call maintains entry by entry, is
\* the one rebuild_segment_summary would compute from the inode map.
THEOREM SummaryStaysExact == Spec /\ []~overran /\ RemovalsFinish => []SummaryExact
  <1>1. LInv => SummaryExact
    <2> SUFFICES ASSUME LInv, phase = "idle"
                 PROVE  [a \in FileBlocks |-> summary[a]] = Rebuilt(dev, imap)
      BY DEF SummaryExact
    <2>1. task = <<>> /\ work = <<>>
      BY NoTask DEF LInv, Held
    <2>2. Good(dev, imap, Known, <<>>, summary) /\ Plain(dev, imap, Known) /\ DOMAIN Known = DOMAIN imap
      BY <2>1, GoodNow, IdleKnown, KnownIs
    <2>3. PICK d, map : d = dev /\ map = imap
      OBVIOUS
    <2> QED
      BY <2>2, <2>3, DeviceAsMemory
  <1> QED
    BY <1>1, InvariantOfFiles, PTL

\* Memory reads as the device does, if the invariant holds.
LEMMA ReadsMatch == LInv => ReadsMatchDevice
  <1> SUFFICES ASSUME LInv, phase = "idle"
               PROVE  View(dev, imap) = View(dev, DurableMap)
    BY DEF ReadsMatchDevice, Durable
  <1>1. \A ino \in DOMAIN imap : ino \in DOMAIN DurableMap /\ imap[ino] = DurableMap[ino]
    BY DEF LInv, Synced
  <1>2. Root \in DOMAIN imap /\ EntriesFine(Dir, DOMAIN imap)
    BY DirNow, GoodNow
  <1>3. PICK e : e = Dir
    OBVIOUS
  <1>4. Entries(dev, imap) = e /\ Entries(dev, DurableMap) = e
    BY <1>1, <1>2, <1>3 DEF Dir, Entries
  <1>5. \A n \in DOMAIN e : /\ e[n] \in DOMAIN imap /\ e[n] \in DOMAIN DurableMap
                            /\ imap[e[n]] = DurableMap[e[n]]
    BY <1>1, <1>2, <1>3 DEF EntriesFine
  <1>6. {m \in DOMAIN e : e[m] \in DOMAIN imap} = {m \in DOMAIN e : e[m] \in DOMAIN DurableMap}
    BY <1>5
  <1>7. \A n \in DOMAIN e : Contents(dev, dev[imap[e[n]]]) = Contents(dev, dev[DurableMap[e[n]]])
    BY <1>5
  <1> QED
    BY <1>4, <1>6, <1>7 DEF View

\* Between calls every file reads from memory as a reopen would read it.
THEOREM MemoryReadsAsDevice == Spec /\ []~overran /\ RemovalsFinish => []ReadsMatchDevice
  BY ReadsMatch, InvariantOfFiles, PTL

\* An open descriptor's inode is in the inode map, removed or not, also after a
\* call that ran out of space went back to the map on the device.
THEOREM OpenFilesStayReadable == Spec /\ []~overran /\ RemovalsFinish => []OpenStaysReadable
  <1>1. LInv => OpenStaysReadable
    BY DEF LInv, OpenFine, OpenInos, OpenStaysReadable
  <1> QED
    BY <1>1, InvariantOfFiles, PTL

\* The calls on files, their failures and the cleaner move the cursors as LogWindow
\* says, so that what is proved about LogWindow holds of them.
THEOREM CursorsFollow == Spec /\ []~overran /\ RemovalsFinish => CursorsFollowLogWindow
  <1>1. Init => Window!Init
    BY InitLInv, WindowSteps
  <1>2. LInv /\ ~overran' /\ [Next]_vars /\ [~RefusedRemoval]_vars => [Window!Next]_Window!vars
    BY NextLInv, WindowSteps
  <1> QED
    BY <1>1, <1>2, InvariantOfFiles, PTL DEF Spec, RemovalsFinish, CursorsFollowLogWindow, Window!Spec
=============================================================================
