---------------------------- MODULE AtomicProofs ----------------------------
(* Calls on files are atomic, for any log, block size and number of pointers: *)
(* every step of Lfs is a step of AtomicStore or leaves it as it is.  What a  *)
(* running call is to produce is, at any moment, what its remaining steps     *)
(* make of the image in memory.  The last section shows that no inode         *)
(* outlives its names and descriptors.                                        *)
EXTENDS LfsProofs

-----------------------------------------------------------------------------
(* Files of an image, cell by cell *)

Offsets == 0 .. (CellsPerBlock - 1)
Fill(c) == [k \in Offsets |-> c]

\* The cells of a block, and of the block at an address.
CellsAt(block) == IF block.type = "data" THEN block.cells ELSE Fill(Junk)
ReadAt(d, a) == IF a = NoBlock THEN Fill(Zero) ELSE CellsAt(d[a])

\* Block idx of a file with these cells; beyond its end a block is zero.
Slice(cells, idx) ==
    [k \in Offsets |-> IF idx * CellsPerBlock + k < Len(cells)
                       THEN cells[idx * CellsPerBlock + k + 1] ELSE Zero]

IsText(cells) == \E n \in Nat : cells = [k \in 1 .. n |-> cells[k]] /\ Len(cells) = n

\* Block idx of the file will read c, once the steps left have been taken.
Touches(s, ino, idx) == s.do \in {"data", "cut"} /\ s.ino = ino /\ s.idx = idx

Found(d, N, todo, ino, idx) ==
    IF ino \in DOMAIN N THEN ReadAt(d, Pointer(d, N, todo, ino, idx)) ELSE Fill(Zero)

Reads(d, N, todo, ino, idx, c) ==
    /\ \A s \in Todo(todo) : Touches(s, ino, idx)
          => c = IF s.do = "data" THEN CellsAt(s.block) ELSE Fill(Zero)
    /\ (\A s \in Todo(todo) : ~Touches(s, ino, idx)) => c = Found(d, N, todo, ino, idx)

\* The size it will have.
Sized(N, todo, ino, n) ==
    /\ \A s \in Todo(todo) : s.do = "inode" /\ s.ino = ino => s.size = n
    /\ ~InodePending(todo, ino) => ino \in DOMAIN N /\ N[ino].size = n

\* The file will have these cells, and zeros beyond them in its last block.
Holds(d, N, todo, ino, cells) ==
    /\ IsText(cells)
    /\ Sized(N, todo, ino, Len(cells))
    /\ \A idx \in Idx : Reads(d, N, todo, ino, idx, Slice(cells, idx))

\* The directory's entries, once the steps left have been taken.
Entered(d, N, todo, e) ==
    \/ \E s \in Todo(todo) : IsDirStep(s) /\ e = s.block.entries
    \/ (\A s \in Todo(todo) : ~IsDirStep(s)) /\ e = DirOf(d, N)

\* Every file the directory will lead to will hold what the store has under its name.
Promises(d, N, todo, store) ==
    /\ store = [n \in DOMAIN store |-> store[n]]
    /\ \A e : Entered(d, N, todo, e) =>
          /\ DOMAIN store = DOMAIN e
          /\ \A n \in DOMAIN e : Holds(d, N, todo, e[n], store[n])

\* Memory is on the way to the goal; the device holds what a reopen shows.
AInv == Promises(dev, Known, task, goal) /\ Promises(dev, Stored, <<>>, Durable)
-----------------------------------------------------------------------------
(* Cells and blocks *)

\* Where a block begins and ends.
LEMMA BlockEdges ==
    ASSUME NEW n \in Nat, NEW idx \in Nat
    PROVE  /\ idx * CellsPerBlock \in Nat
           /\ BlocksFor(n) <= idx => n <= idx * CellsPerBlock
           /\ idx < BlocksFor(n) => idx * CellsPerBlock < n
           /\ idx < n \div CellsPerBlock => idx * CellsPerBlock + CellsPerBlock <= n
           /\ n \div CellsPerBlock < idx => n < idx * CellsPerBlock
  BY Sizes DEF BlocksFor

\* The cell a position names.
LEMMA CellAt ==
    ASSUME NEW n \in Nat
    PROVE  /\ n \div CellsPerBlock \in Nat /\ n % CellsPerBlock \in Offsets
           /\ n % CellsPerBlock \in Nat
           /\ n = (n \div CellsPerBlock) * CellsPerBlock + (n % CellsPerBlock)
  <1>1. n = CellsPerBlock * (n \div CellsPerBlock) + (n % CellsPerBlock)
    BY Sizes
  <1>2. n \div CellsPerBlock \in Nat /\ n % CellsPerBlock \in 0 .. (CellsPerBlock - 1)
    BY Sizes
  <1>3. CellsPerBlock * (n \div CellsPerBlock) = (n \div CellsPerBlock) * CellsPerBlock
    BY <1>2, Sizes
  <1>4. n % CellsPerBlock \in Offsets
    BY <1>2 DEF Offsets
  <1>5. n % CellsPerBlock \in Nat
    BY <1>2, Sizes
  <1>6. n = (n \div CellsPerBlock) * CellsPerBlock + (n % CellsPerBlock)
    BY <1>1, <1>3
  <1> QED
    BY <1>2, <1>4, <1>5, <1>6

\* The last block of a file that does not fill it.
LEMMA LastBlock ==
    ASSUME NEW n \in Nat
    PROVE  n % CellsPerBlock > 0 =>
              /\ BlocksFor(n) - 1 \in Nat /\ BlocksFor(n) - 1 = n \div CellsPerBlock
              /\ n = (BlocksFor(n) - 1) * CellsPerBlock + (n % CellsPerBlock)
  <1>1. n \div CellsPerBlock \in Nat /\ n % CellsPerBlock \in Offsets
        /\ n = (n \div CellsPerBlock) * CellsPerBlock + (n % CellsPerBlock)
    BY CellAt
  <1>2. CASE n % CellsPerBlock > 0
    <2>1. BlocksFor(n) \in Nat /\ n \div CellsPerBlock < BlocksFor(n)
      <3>1. (n \div CellsPerBlock) * CellsPerBlock < n
        BY <1>1, <1>2, Sizes DEF Offsets
      <3> QED
        BY <1>1, <3>1, BlocksForRange, BlockEdges, Sizes
    <2>2. BlocksFor(n) <= n \div CellsPerBlock + 1
      BY Sizes DEF BlocksFor
    <2>3. BlocksFor(n) - 1 = n \div CellsPerBlock
      BY <1>1, <2>1, <2>2
    <2> QED
      BY <1>1, <2>3
  <1> QED
    BY <1>1, <1>2, Sizes DEF Offsets

\* Texts are sequences of cells.
LEMMA TextIs ==
    ASSUME NEW n \in Nat, NEW f, f = [k \in 1 .. n |-> f[k]]
    PROVE  f \in Seq({f[k] : k \in 1 .. n}) /\ Len(f) = n /\ IsText(f)
  <1>1. f \in [1 .. n -> {f[k] : k \in 1 .. n}]
    OBVIOUS
  <1>2. f \in Seq({f[k] : k \in 1 .. n}) /\ Len(f) = n
    BY <1>1
  <1> QED
    BY <1>2 DEF IsText

-----------------------------------------------------------------------------
(* What a change of the image leaves as it was *)

FileStays(d, N, todo, d2, N2, todo2, ino) ==
    /\ \A n : Sized(N, todo, ino, n) => Sized(N2, todo2, ino, n)
    /\ \A idx \in Idx : \A c : Reads(d, N, todo, ino, idx, c) => Reads(d2, N2, todo2, ino, idx, c)

NamesStay(d, N, todo, d2, N2, todo2) ==
    \A e : Entered(d2, N2, todo2, e) => Entered(d, N, todo, e)

\* A promise stays if the names do and the files they lead to.
LEMMA PromisePasses ==
    ASSUME NEW d, NEW N, NEW todo, NEW d2, NEW N2, NEW todo2, NEW store,
           Promises(d, N, todo, store), NamesStay(d, N, todo, d2, N2, todo2),
           \A e : Entered(d2, N2, todo2, e)
              => \A n \in DOMAIN e : FileStays(d, N, todo, d2, N2, todo2, e[n])
    PROVE  Promises(d2, N2, todo2, store)
  <1> SUFFICES ASSUME NEW e, Entered(d2, N2, todo2, e)
               PROVE  /\ DOMAIN store = DOMAIN e
                      /\ \A n \in DOMAIN e : Holds(d2, N2, todo2, e[n], store[n])
    BY DEF Promises
  <1>1. Entered(d, N, todo, e)
    BY DEF NamesStay
  <1>2. DOMAIN store = DOMAIN e /\ \A n \in DOMAIN e : Holds(d, N, todo, e[n], store[n])
    BY <1>1 DEF Promises
  <1>3. ASSUME NEW n \in DOMAIN e
        PROVE  Holds(d2, N2, todo2, e[n], store[n])
    <2>1. Holds(d, N, todo, e[n], store[n]) /\ FileStays(d, N, todo, d2, N2, todo2, e[n])
      BY <1>2
    <2> QED
      BY <2>1 DEF Holds, FileStays
  <1> QED
    BY <1>2, <1>3

\* The block of each role is the one the summary has for it.
LEMMA SummaryTells ==
    ASSUME NEW P, NEW sum, Kept(P, sum), NEW Q, NEW sum2, Kept(Q, sum2),
           NEW e \in DOMAIN P, e \in DOMAIN Q, e.type # "map",
           \A a : a \in DOMAIN sum /\ sum[a] = e <=> a \in DOMAIN sum2 /\ sum2[a] = e
    PROVE  Q[e] = P[e]
  <1>1. CASE P[e] # NoBlock
    BY <1>1 DEF Kept
  <1>2. CASE Q[e] # NoBlock
    BY <1>2 DEF Kept
  <1> QED
    BY <1>1, <1>2

\* A block was written in the place of those in `dead'.
LEMMA PlacesAfter ==
    ASSUME NEW P, NEW sum, Kept(P, sum), NEW Q, NEW sum2, Kept(Q, sum2),
           NEW t, NEW r, NEW dead, Filed(sum, dead, t, r, sum2), t \notin DOMAIN sum,
           \A a \in dead : a \in DOMAIN sum => sum[a] = r,
           NEW e \in DOMAIN Q, e.type # "map"
    PROVE  /\ e = r => Q[e] = t
           /\ e # r => Q[e] = IF e \in DOMAIN P THEN P[e] ELSE NoBlock
  <1>1. t \in DOMAIN sum2 /\ sum2[t] = r
    BY DEF Filed
  <1>2. e = r => Q[e] = t
    BY <1>1 DEF Kept
  <1>3. ASSUME e # r
        PROVE  \A a : a \in DOMAIN sum /\ sum[a] = e <=> a \in DOMAIN sum2 /\ sum2[a] = e
    BY <1>3 DEF Filed
  <1>4. CASE e # r /\ e \in DOMAIN P
    BY <1>3, <1>4, SummaryTells
  <1>5. ASSUME e # r, e \notin DOMAIN P
        PROVE  Q[e] = NoBlock
    BY <1>3, <1>5 DEF Kept
  <1> QED
    BY <1>2, <1>4, <1>5

\* The blocks in `dead' are dropped.
LEMMA PlacesWithout ==
    ASSUME NEW P, NEW sum, Kept(P, sum), NEW Q, NEW sum2, Kept(Q, sum2),
           NEW dead, Struck(sum, dead, sum2),
           NEW e \in DOMAIN Q, e \in DOMAIN P, e.type # "map"
    PROVE  Q[e] = IF P[e] \in dead THEN NoBlock ELSE P[e]
  <1>1. CASE P[e] = NoBlock
    <2>1. \A a : a \in DOMAIN sum2 => sum2[a] # e
      BY <1>1, LogIsLog DEF Kept, Struck
    <2> QED
      BY <1>1, <2>1 DEF Kept
  <1>2. CASE P[e] # NoBlock /\ P[e] \in dead
    BY <1>2 DEF Kept, Struck
  <1>3. CASE P[e] # NoBlock /\ P[e] \notin dead
    BY <1>3 DEF Kept, Struck
  <1> QED
    BY <1>1, <1>2, <1>3

-----------------------------------------------------------------------------
(* What an image shows *)

\* What a block of a file reads now is what stands at its place.
LEMMA FoundIs ==
    ASSUME NEW d, NEW map, NEW N, NEW todo, Formed(d, map, N), PendsFine(todo),
           NEW ino, NEW idx \in Idx
    PROVE  Found(d, N, todo, ino, idx) =
              IF ino \in DOMAIN map THEN ReadAt(d, Places(d, map, N, todo)[Entry(ino, idx, "data")])
              ELSE Fill(Zero)
  <1>1. DOMAIN N = DOMAIN map
    BY DEF Formed
  <1>2. ino \in DOMAIN map => Places(d, map, N, todo)[Entry(ino, idx, "data")]
                                 = Pointer(d, N, todo, ino, idx)
    BY PlacesAre
  <1> QED
    BY <1>1, <1>2 DEF Found

\* A block reads the same on both devices, if it is on them.
LEMMA SameRead ==
    ASSUME NEW d, NEW d2, NEW a, a = NoBlock \/ d2[a] = d[a]
    PROVE  ReadAt(d2, a) = ReadAt(d, a)
  BY DEF ReadAt

\* With no steps left, a promise is what View shows.
LEMMA Settles ==
    ASSUME NEW d, NEW N, NEW ino, NEW cells, Holds(d, N, <<>>, ino, cells)
    PROVE  /\ ino \in DOMAIN N /\ N[ino].size = Len(cells)
           /\ Len(cells) \in Nat /\ cells = [k \in 1 .. Len(cells) |-> cells[k]]
           /\ \A idx \in Idx : ReadAt(d, GetBlockAddr(d, N[ino], idx)) = Slice(cells, idx)
  <1>1. Todo(<<>>) = {}
    BY NoSteps
  <1>2. ~InodePending(<<>>, ino)
    BY <1>1 DEF InodePending
  <1>3. ino \in DOMAIN N /\ N[ino].size = Len(cells)
    BY <1>2 DEF Holds, Sized
  <1>4. Len(cells) \in Nat /\ cells = [k \in 1 .. Len(cells) |-> cells[k]]
    BY DEF Holds, IsText
  <1>5. ASSUME NEW idx \in Idx
        PROVE  ReadAt(d, GetBlockAddr(d, N[ino], idx)) = Slice(cells, idx)
    <2>1. Slice(cells, idx) = Found(d, N, <<>>, ino, idx)
      BY <1>1 DEF Holds, Reads
    <2>2. ~Pends(<<>>, ino, idx)
      BY DEF Pends
    <2> QED
      BY <1>3, <2>1, <2>2 DEF Found, Pointer
  <1> QED
    BY <1>3, <1>4, <1>5

\* The cells of a file, put together from its blocks.
LEMMA ContentsAre ==
    ASSUME NEW d, NEW inode, NEW cells, NEW n \in Nat, BlocksFor(n) <= MaxBlocks,
           inode.size = n, Len(cells) = n, cells = [k \in 1 .. n |-> cells[k]],
           \A idx \in Idx : ReadAt(d, GetBlockAddr(d, inode, idx)) = Slice(cells, idx)
    PROVE  Contents(d, inode) = cells
  <1>1. ASSUME NEW k \in 1 .. n
        PROVE  CellsOf(d, inode, (k - 1) \div CellsPerBlock)[(k - 1) % CellsPerBlock] = cells[k]
    <2> DEFINE idx == (k - 1) \div CellsPerBlock
               off == (k - 1) % CellsPerBlock
    <2>1. k - 1 \in Nat
      OBVIOUS
    <2>2. idx \in Nat /\ off \in Offsets /\ off \in Nat /\ k - 1 = idx * CellsPerBlock + off
      BY <2>1, CellAt
    <2>3. idx \in Idx
      <3>1. idx < BlocksFor(n)
        BY CellsInBlocks
      <3> QED
        BY <2>2, <3>1, BlocksForRange, Sizes DEF Idx
    <2>4. CellsOf(d, inode, idx) = ReadAt(d, GetBlockAddr(d, inode, idx))
      BY DEF CellsOf, ReadAt, CellsAt, Fill, Offsets
    <2>5. CellsOf(d, inode, idx)[off] = Slice(cells, idx)[off]
      BY <2>3, <2>4
    <2> HIDE DEF idx, off
    <2>6. Slice(cells, idx)[off] = cells[k]
      <3>1. Slice(cells, idx)[off] = IF idx * CellsPerBlock + off < Len(cells)
                                     THEN cells[idx * CellsPerBlock + off + 1] ELSE Zero
        BY <2>2 DEF Slice
      <3>2. idx * CellsPerBlock + off < Len(cells) /\ idx * CellsPerBlock + off + 1 = k
        BY <2>2, Sizes
      <3> QED
        BY <3>1, <3>2
    <2> QED
      BY <2>5, <2>6 DEF idx, off
  <1>2. Contents(d, inode) =
          [k \in 1 .. n |-> CellsOf(d, inode, (k - 1) \div CellsPerBlock)[(k - 1) % CellsPerBlock]]
    BY DEF Contents
  <1> QED
    BY <1>1, <1>2

\* An image with no steps left shows exactly the store it promises.
LEMMA PromisedView ==
    ASSUME NEW d, NEW map, NEW N, NEW sum, Good(d, map, N, <<>>, sum), Plain(d, map, N),
           NEW store, Promises(d, N, <<>>, store)
    PROVE  View(d, map) = store
  <1> DEFINE e == DirOf(d, N)
  <1>1. Formed(d, map, N) /\ Root \in DOMAIN map /\ DOMAIN N = DOMAIN map
        /\ EntriesFine(e, DOMAIN map)
    BY DEF Good, Formed, Named
  <1>2. Entries(d, map) = e
    BY <1>1 DEF Entries, DirOf, Plain
  <1>3. Entered(d, N, <<>>, e)
    BY NoSteps DEF Entered
  <1>4. store = [n \in DOMAIN store |-> store[n]] /\ DOMAIN store = DOMAIN e
        /\ \A n \in DOMAIN e : Holds(d, N, <<>>, e[n], store[n])
    BY <1>3 DEF Promises
  <1> HIDE DEF e
  <1>5. {n \in DOMAIN e : e[n] \in DOMAIN map} = DOMAIN e
    BY <1>1 DEF EntriesFine
  <1>6. ASSUME NEW n \in DOMAIN e
        PROVE  Contents(d, d[map[e[n]]]) = store[n]
    <2>1. PICK ino : ino = e[n]
      OBVIOUS
    <2>2. ino \in DOMAIN map /\ ino # Root /\ N[ino] = d[map[ino]]
      BY <1>1, <2>1 DEF EntriesFine, Plain
    <2>3. Holds(d, N, <<>>, ino, store[n])
      BY <1>4, <2>1
    <2>4. /\ N[ino].size = Len(store[n])
          /\ Len(store[n]) \in Nat /\ store[n] = [k \in 1 .. Len(store[n]) |-> store[n][k]]
          /\ \A idx \in Idx : ReadAt(d, GetBlockAddr(d, N[ino], idx)) = Slice(store[n], idx)
      BY <2>3, Settles
    <2>5. BlocksFor(N[ino].size) <= MaxBlocks
      BY <1>1, <2>2 DEF Formed, IsNode, Blocks
    <2>6. Contents(d, N[ino]) = store[n]
      BY <2>4, <2>5, ContentsAre
    <2> QED
      BY <2>1, <2>2, <2>6
  <1>7. View(d, map) = [n \in {m \in DOMAIN e : e[m] \in DOMAIN map} |-> Contents(d, d[map[e[n]]])]
    BY <1>2 DEF View
  <1> QED
    BY <1>4, <1>5, <1>6, <1>7

-----------------------------------------------------------------------------
(* What a reopen would show *)

\* The blocks of the device's image have not changed.
DeviceStays ==
    DeviceSame /\ \A a \in DOMAIN Rebuilt(dev, DurableMap) : dev'[a] = dev[a]

\* Two images with the same inodes, the same summary and the same blocks.
LEMMA SameFound ==
    ASSUME NEW d, NEW map, NEW N, NEW sum, Good(d, map, N, <<>>, sum),
           NEW d2, Good(d2, map, N, <<>>, sum), \A a \in DOMAIN sum : d2[a] = d[a],
           NEW ino, NEW idx \in Idx
    PROVE  Found(d2, N, <<>>, ino, idx) = Found(d, N, <<>>, ino, idx)
  <1> DEFINE e == Entry(ino, idx, "data")
             P == Places(d, map, N, <<>>)
             Q == Places(d2, map, N, <<>>)
  <1>1. /\ Formed(d, map, N) /\ PendsFine(<<>>) /\ Kept(P, sum)
        /\ Formed(d2, map, N) /\ Kept(Q, sum)
        /\ DOMAIN map \subseteq Nat
    BY DEF Good, Formed
  <1>2. CASE ino \in DOMAIN map
    <2>1. e \in DOMAIN P /\ e \in DOMAIN Q /\ e.type # "map"
      <3>1. e \in RolesOf(DOMAIN map)
        BY <1>1, <1>2, InRolesOf
      <3>2. DOMAIN P = RolesOf(DOMAIN map) /\ DOMAIN Q = RolesOf(DOMAIN map)
        BY <1>1, PlacesAre
      <3>3. e.type = "data"
        BY RolesAre
      <3> QED
        BY <3>1, <3>2, <3>3
    <2> HIDE DEF e, P, Q
    <2>2. Q[e] = P[e]
      BY <1>1, <2>1, SummaryTells
    <2>3. P[e] = NoBlock \/ d2[P[e]] = d[P[e]]
      BY <1>1, <2>1 DEF Kept
    <2>4. ReadAt(d2, Q[e]) = ReadAt(d, P[e])
      BY <2>2, <2>3, SameRead
    <2> QED
      BY <1>1, <1>2, <2>4, FoundIs DEF e, P, Q
  <1>3. CASE ino \notin DOMAIN map
    BY <1>1, <1>3, FoundIs
  <1> QED
    BY <1>2, <1>3

\* With no steps left, only what is found matters.
LEMMA NothingLeft ==
    ASSUME NEW d, NEW N, NEW d2, DirOf(d2, N) = DirOf(d, N),
           \A ino, idx : idx \in Idx => Found(d2, N, <<>>, ino, idx) = Found(d, N, <<>>, ino, idx),
           NEW store, Promises(d, N, <<>>, store)
    PROVE  Promises(d2, N, <<>>, store)
  <1>1. Todo(<<>>) = {}
    BY NoSteps
  <1>2. NamesStay(d, N, <<>>, d2, N, <<>>)
    BY <1>1 DEF NamesStay, Entered
  <1>3. \A ino : FileStays(d, N, <<>>, d2, N, <<>>, ino)
    BY <1>1 DEF FileStays, Reads
  <1> QED
    BY <1>2, <1>3, PromisePasses

\* While the device's image stays, a reopen shows the same store.
LEMMA StoredPromise ==
    ASSUME LInv, DeviceStays, NEW store, Promises(dev, Stored, <<>>, store)
    PROVE  Promises(dev', Stored', <<>>, store) /\ Durable' = store
  <1>1. PICK d, map, N, sum, d2 : /\ d = dev /\ map = DurableMap /\ N = Stored
                                  /\ sum = Rebuilt(dev, DurableMap) /\ d2 = dev'
    OBVIOUS
  <1>2. DurableMap' = map /\ Stored' = N /\ Rebuilt(dev, DurableMap)' = sum
        /\ DirOf(dev, Stored)' = DirOf(d, N) /\ \A a \in DOMAIN sum : d2[a] = d[a]
    BY <1>1 DEF DeviceStays, DeviceSame
  <1>3. Good(d, map, N, <<>>, sum)
    BY <1>1 DEF LInv, DeviceGood
  <1>4. Good(d2, map, N, <<>>, sum)
    <2>1. DeviceGood'
      BY DEF DeviceStays, DeviceSame
    <2> QED
      BY <1>1, <1>2, <2>1 DEF DeviceGood
  <1>5. DirOf(d2, N) = DirOf(d, N)
    BY <1>1, <1>2 DEF DirOf
  <1>6. Promises(d2, N, <<>>, store)
    <2>1. \A ino, idx : idx \in Idx => Found(d2, N, <<>>, ino, idx) = Found(d, N, <<>>, ino, idx)
      BY <1>2, <1>3, <1>4, SameFound
    <2> QED
      BY <1>1, <1>5, <2>1, NothingLeft
  <1>7. Plain(d2, map, N)
    <2>1. Stored' = [ino \in DOMAIN DurableMap' |-> dev'[DurableMap'[ino]]]
      BY DEF Stored, Nodes
    <2> QED
      BY <1>1, <1>2, <2>1 DEF Plain
  <1>8. View(d2, map) = store
    BY <1>4, <1>6, <1>7, PromisedView
  <1>9. Durable' = View(dev', DurableMap')
    BY DEF Durable
  <1> QED
    BY <1>1, <1>2, <1>6, <1>8, <1>9

\* Now, it shows this.
LEMMA DurableIs ==
    ASSUME LInv, NEW store, Promises(dev, Stored, <<>>, store)
    PROVE  Durable = store
  <1>1. Good(dev, DurableMap, Stored, <<>>, Rebuilt(dev, DurableMap))
    BY DEF LInv, DeviceGood
  <1>2. Plain(dev, DurableMap, Stored)
    BY KnownIs
  <1>3. View(dev, DurableMap) = store
    BY <1>1, <1>2, PromisedView
  <1> QED
    BY <1>3 DEF Durable

\* A write at the tail spares the device's image.
LEMMA WriteSpares ==
    ASSUME LInv, DeviceSame, NEW content, NEW r, NEW dead, Wrote(content, r, dead),
           NEW head, NEW type, Moved(head, type), phase # "idle", ~overran'
    PROVE  DeviceStays
  <1>1. Window!WriteAtTail(phase)
    BY SameWindow DEF Moved
  <1>2. super.tail \notin DOMAIN Rebuilt(dev, DurableMap)
    BY <1>1, TailSparesDevice DEF LInv
  <1>3. DOMAIN Rebuilt(dev, DurableMap) \subseteq Log
    <2>1. Good(dev, DurableMap, Stored, <<>>, Rebuilt(dev, DurableMap))
      BY DEF LInv, DeviceGood
    <2>2. Plain(dev, DurableMap, Stored)
      BY KnownIs
    <2>3. Kept(Places(dev, DurableMap, Stored, <<>>), Rebuilt(dev, DurableMap))
          /\ FileOnly(Rebuilt(dev, DurableMap))
      BY <2>1, <2>2, RebuiltKept
    <2> QED
      BY <2>3 DEF Kept, FileOnly
  <1> QED
    BY <1>2, <1>3 DEF DeviceStays, Wrote, Apart

-----------------------------------------------------------------------------
(* The promise, step by step *)

\* What a step makes of sizes and of blocks.
SizesFollow ==
    \A ino \in DOMAIN imap' :
        Known'[ino].size = IF Now.do = "inode" /\ Now.ino = ino THEN Now.size ELSE Known[ino].size

Freed(ino) == Now.do = "free" /\ Now.ino = ino

BlocksFollow ==
    \A ino, idx : idx \in Idx /\ ~Freed(ino) =>
        Found(dev', Known', task', ino, idx) =
            IF Touches(Now, ino, idx)
            THEN IF Now.do = "data" THEN CellsAt(Now.block) ELSE Fill(Zero)
            ELSE Found(dev, Known, task, ino, idx)

\* A step of a call leaves the names the directory is to have.
LEMMA MovesNames ==
    ASSUME LInv, Moves
    PROVE  NamesStay(dev, Known, task, dev', Known', task')
  <1>1. task # <<>> /\ Todo(task) = {Now} \cup Todo(Tail(task))
    BY NowFacts DEF Moves
  <1>2. /\ \A s \in Todo(task') : s \in Todo(Tail(task)) \/ s.do = "indirect"
        /\ Todo(Tail(task)) \subseteq Todo(task')
    BY StillOrdered
  <1>3. DirOf(dev', Known') = IF IsDirStep(Now) THEN Now.block.entries ELSE DirOf(dev, Known)
    <2>1. DirOf(dev, Known)' = DirOf(dev', Known')
      BY DEF DirOf
    <2> QED
      BY <2>1 DEF Moves
  <1>4. ASSUME NEW e, Entered(dev', Known', task', e)
        PROVE  Entered(dev, Known, task, e)
    <2>1. CASE \E s \in Todo(task') : IsDirStep(s) /\ e = s.block.entries
      BY <1>1, <1>2, <2>1 DEF Entered, IsDirStep
    <2>2. CASE (\A s \in Todo(task') : ~IsDirStep(s)) /\ e = DirOf(dev', Known')
      <3>1. CASE IsDirStep(Now)
        BY <1>1, <1>3, <2>2, <3>1 DEF Entered
      <3>2. CASE ~IsDirStep(Now)
        <4>1. \A s \in Todo(task) : ~IsDirStep(s)
          BY <1>1, <1>2, <2>2, <3>2
        <4> QED
          BY <1>3, <2>2, <3>2, <4>1 DEF Entered
      <3> QED
        BY <3>1, <3>2
    <2> QED
      BY <1>4, <2>1, <2>2 DEF Entered
  <1> QED
    BY <1>4 DEF NamesStay

\* A step leaves the size a file is to have, unless it frees the file.
LEMMA MovesSized ==
    ASSUME LInv, Moves, SizesFollow, NEW ino, ~Freed(ino), NEW n, Sized(Known, task, ino, n)
    PROVE  Sized(Known', task', ino, n)
  <1>1. task # <<>> /\ Todo(task) = {Now} \cup Todo(Tail(task))
    BY NowFacts DEF Moves
  <1>2. /\ \A s \in Todo(task') : s \in Todo(Tail(task)) \/ s.do = "indirect"
        /\ Todo(Tail(task)) \subseteq Todo(task')
    BY StillOrdered
  <1>3. \A s \in Todo(task') : s.do = "inode" /\ s.ino = ino => s.size = n
    BY <1>1, <1>2 DEF Sized
  <1>4. ASSUME ~InodePending(task', ino)
        PROVE  ino \in DOMAIN Known' /\ Known'[ino].size = n
    <2>1. DOMAIN Known' = DOMAIN imap' /\ DOMAIN Known = DOMAIN imap
      BY DEF Known, Nodes
    <2>2. CASE Now.do = "inode" /\ Now.ino = ino
      <3>1. ino \in DOMAIN imap' /\ Now.size = n
        BY <1>1, <2>2 DEF Moves, Sized
      <3> QED
        BY <2>1, <2>2, <3>1 DEF SizesFollow
    <2>3. CASE ~(Now.do = "inode" /\ Now.ino = ino)
      <3>1. ~InodePending(task, ino)
        BY <1>1, <1>2, <1>4, <2>3 DEF InodePending
      <3>2. ino \in DOMAIN imap /\ Known[ino].size = n
        BY <2>1, <3>1 DEF Sized
      <3>3. ino \in DOMAIN imap'
        BY <3>2 DEF Moves, Freed
      <3> QED
        BY <2>1, <2>3, <3>2, <3>3 DEF SizesFollow
    <2> QED
      BY <2>2, <2>3
  <1> QED
    BY <1>3, <1>4 DEF Sized

\* A step leaves what a block is to read, unless it frees the file.
LEMMA MovesReads ==
    ASSUME LInv, Moves, BlocksFollow, NEW ino, ~Freed(ino), NEW idx \in Idx, NEW c,
           Reads(dev, Known, task, ino, idx, c)
    PROVE  Reads(dev', Known', task', ino, idx, c)
  <1>1. task # <<>> /\ Todo(task) = {Now} \cup Todo(Tail(task))
    BY NowFacts DEF Moves
  <1>2. /\ \A s \in Todo(task') : s \in Todo(Tail(task)) \/ s.do = "indirect"
        /\ Todo(Tail(task)) \subseteq Todo(task')
    BY StillOrdered
  <1>3. \A s \in Todo(task') : Touches(s, ino, idx)
          => c = IF s.do = "data" THEN CellsAt(s.block) ELSE Fill(Zero)
    BY <1>1, <1>2 DEF Reads, Touches
  <1>4. ASSUME \A s \in Todo(task') : ~Touches(s, ino, idx)
        PROVE  c = Found(dev', Known', task', ino, idx)
    <2>1. CASE Touches(Now, ino, idx)
      BY <1>1, <2>1 DEF BlocksFollow, Reads
    <2>2. CASE ~Touches(Now, ino, idx)
      <3>1. \A s \in Todo(task) : ~Touches(s, ino, idx)
        BY <1>1, <1>2, <1>4, <2>2
      <3>2. c = Found(dev, Known, task, ino, idx)
        BY <3>1 DEF Reads
      <3> QED
        BY <2>2, <3>2 DEF BlocksFollow
    <2> QED
      BY <2>1, <2>2
  <1> QED
    BY <1>3, <1>4 DEF Reads

\* So a step that moves sizes and blocks as its call says keeps the promise.
LEMMA MovesPromise ==
    ASSUME LInv, Moves, SizesFollow, BlocksFollow,
           NEW store, Promises(dev, Known, task, store)
    PROVE  Promises(dev', Known', task', store)
  <1>1. NamesStay(dev, Known, task, dev', Known', task')
    BY MovesNames
  <1>2. ASSUME NEW e, Entered(dev', Known', task', e), NEW n \in DOMAIN e
        PROVE  ~Freed(e[n])
    <2>1. CASE Now.do # "free"
      BY <2>1 DEF Freed
    <2>2. CASE Now.do = "free"
      <3>1. /\ task # <<>> /\ Todo(task) = {Now} \cup Todo(Tail(task))
            /\ \A s \in Todo(Tail(task)) : s.do \in {"map", "end"}
            /\ \A m \in DOMAIN DirOf(dev, Known) : DirOf(dev, Known)[m] # Now.ino
        BY <2>2, NowFacts, FreeNow DEF Moves
      <3>2. Entered(dev, Known, task, e)
        BY <1>1, <1>2 DEF NamesStay
      <3>3. e = DirOf(dev, Known)
        BY <2>2, <3>1, <3>2 DEF Entered, IsDirStep
      <3> QED
        BY <1>2, <3>1, <3>3 DEF Freed
    <2> QED
      BY <2>1, <2>2
  <1>3. ASSUME NEW ino, ~Freed(ino)
        PROVE  FileStays(dev, Known, task, dev', Known', task', ino)
    BY <1>3, MovesSized, MovesReads DEF FileStays
  <1> QED
    BY <1>1, <1>2, <1>3, PromisePasses

-----------------------------------------------------------------------------
(* The steps that write a block *)

\* The block of a role is in the summary under this role only.
LEMMA OldRole ==
    ASSUME LInv, NEW r \in RolesOf(DOMAIN imap), NEW a, a = Places(dev, imap, Known, task)[r]
    PROVE  a \in DOMAIN summary => summary[a] = r
  <1>1. /\ Formed(dev, imap, Known) /\ PendsFine(task)
        /\ Kept(Places(dev, imap, Known, task), summary)
    BY DEF LInv, MemoryGood, Good
  <1>2. r \in DOMAIN Places(dev, imap, Known, task)
    BY <1>1, PlacesAre
  <1>3. NoBlock \notin DOMAIN summary
    BY InSummary
  <1> QED
    BY <1>1, <1>2, <1>3 DEF Kept

\* A block is found anew where it was written, the others where they were.
LEMMA WroteFound ==
    ASSUME LInv, MemoryGood', NEW content, NEW r, NEW dead, Wrote(content, r, dead),
           \A a \in dead : a \in DOMAIN summary => summary[a] = r,
           DOMAIN imap \subseteq DOMAIN imap', NEW ino, NEW idx \in Idx
    PROVE  Found(dev', Known', task', ino, idx) =
              IF r = Entry(ino, idx, "data") /\ ino \in DOMAIN imap' THEN CellsAt(content)
              ELSE Found(dev, Known, task, ino, idx)
  <1>1. PICK d, map, N, todo, sum, t : /\ d = dev /\ map = imap /\ N = Known /\ todo = task
                                       /\ sum = summary /\ t = super.tail
    OBVIOUS
  <1>2. PICK d2, map2, N2, todo2, sum2 : /\ d2 = dev' /\ map2 = imap' /\ N2 = Known'
                                         /\ todo2 = task' /\ sum2 = summary'
    OBVIOUS
  <1> DEFINE e == Entry(ino, idx, "data")
             P == Places(d, map, N, todo)
             Q == Places(d2, map2, N2, todo2)
  <1>3. Formed(d, map, N) /\ PendsFine(todo) /\ Kept(P, sum) /\ DOMAIN map \subseteq Nat
    BY <1>1 DEF LInv, MemoryGood, Good, Formed
  <1>4. Formed(d2, map2, N2) /\ PendsFine(todo2) /\ Kept(Q, sum2) /\ DOMAIN map2 \subseteq Nat
    BY <1>2 DEF MemoryGood, Good, Formed
  <1>5. /\ Filed(sum, dead, t, r, sum2) /\ t \notin DOMAIN sum /\ t \in Log
        /\ d2[t] = content /\ Apart(d, t, d2)
    BY <1>1, <1>2 DEF Wrote
  <1>6. /\ DOMAIN P = RolesOf(DOMAIN map) /\ DOMAIN Q = RolesOf(DOMAIN map2)
        /\ ino \in DOMAIN map => e \in RolesOf(DOMAIN map)
        /\ ino \in DOMAIN map2 => e \in RolesOf(DOMAIN map2)
        /\ e.type = "data" /\ e.ino = ino
    BY <1>3, <1>4, PlacesAre, InRolesOf, RolesAre
  <1>7. /\ Found(d, N, todo, ino, idx)
              = IF ino \in DOMAIN map THEN ReadAt(d, P[e]) ELSE Fill(Zero)
        /\ Found(d2, N2, todo2, ino, idx)
              = IF ino \in DOMAIN map2 THEN ReadAt(d2, Q[e]) ELSE Fill(Zero)
    BY <1>3, <1>4, FoundIs
  <1> HIDE DEF e, P, Q
  <1>8. CASE ino \notin DOMAIN map2
    BY <1>1, <1>2, <1>7, <1>8
  <1>9. CASE ino \in DOMAIN map2
    <2>1. /\ e = r => Q[e] = t
          /\ e # r => Q[e] = IF e \in DOMAIN P THEN P[e] ELSE NoBlock
      <3>1. e \in DOMAIN Q /\ e.type # "map"
        BY <1>6, <1>9
      <3>2. \A a \in dead : a \in DOMAIN sum => sum[a] = r
        BY <1>1
      <3> QED
        BY <1>3, <1>4, <1>5, <3>1, <3>2, PlacesAfter
    <2>2. CASE e = r
      <3>1. ReadAt(d2, Q[e]) = CellsAt(content)
        BY <1>5, <2>1, <2>2, LogIsLog DEF ReadAt
      <3> QED
        BY <1>2, <1>7, <1>9, <2>2, <3>1 DEF e
    <2>3. CASE e # r /\ ino \in DOMAIN map
      <3>1. Q[e] = P[e] /\ e \in DOMAIN P
        BY <1>6, <2>1, <2>3
      <3>2. P[e] = NoBlock \/ d2[P[e]] = d[P[e]]
        BY <1>3, <1>5, <1>6, <3>1 DEF Kept, Apart
      <3>3. ReadAt(d2, Q[e]) = ReadAt(d, P[e])
        BY <3>1, <3>2, SameRead
      <3> QED
        BY <1>1, <1>2, <1>7, <1>9, <2>3, <3>3 DEF e
    <2>4. CASE e # r /\ ino \notin DOMAIN map
      <3>1. e \notin DOMAIN P
        BY <1>6, <2>4 DEF RolesOf
      <3>2. ReadAt(d2, Q[e]) = Fill(Zero)
        BY <2>1, <2>4, <3>1 DEF ReadAt
      <3> QED
        BY <1>1, <1>2, <1>7, <1>9, <2>4, <3>2 DEF e
    <2> QED
      BY <2>2, <2>3, <2>4
  <1> QED
    BY <1>8, <1>9

\* set_block_addr does not concern sizes.
LEMMA PointerSizes ==
    ASSUME LInv, NEW inodes, NEW ino \in DOMAIN imap, ino \in DOMAIN inodes, NEW idx, NEW addr,
           NEW rest, Copies(inodes), Covers(inodes), InodesKept, imap' = imap,
           SetTo(inodes, ino, idx, addr, rest)
    PROVE  \A i \in DOMAIN imap' : Known'[i].size = Known[i].size
  <1> SUFFICES ASSUME NEW i \in DOMAIN imap
               PROVE  Known'[i].size = Known[i].size
    OBVIOUS
  <1>1. Known'[i] = IF i \in DOMAIN work' THEN work'[i] ELSE dev[imap[i]]
    BY DEF Known, Nodes, InodesKept
  <1>2. Known[i] = IF i \in DOMAIN work THEN work[i] ELSE dev[imap[i]]
    BY DEF Known, Nodes
  <1>3. Known[i] \in NodeOf(i)
    BY DEF LInv, MemoryGood, Good, Formed, IsNode
  <1>4. DOMAIN work' = DOMAIN inodes /\ DOMAIN work \subseteq DOMAIN inodes
    BY DEF SetTo, Covers
  <1>5. i \in DOMAIN inodes => inodes[i] = Known[i]
    BY DEF Copies
  <1>6. i \in DOMAIN inodes => work'[i].size = inodes[i].size
    <2>1. CASE i = ino /\ idx < DirectBlocks
      <3>1. work'[i] = [Known[i] EXCEPT !.ptr[idx] = addr]
        BY <1>5, <2>1 DEF SetTo
      <3> QED
        BY <1>3, <1>5, <3>1, <2>1 DEF NodeOf
    <2>2. CASE ~(i = ino /\ idx < DirectBlocks)
      BY <2>2 DEF SetTo
    <2> QED
      BY <2>1, <2>2
  <1> QED
    BY <1>1, <1>2, <1>4, <1>5, <1>6

\* A step that writes a block keeps the promise, if it writes what was due.
LEMMA WrotePromise ==
    ASSUME LInv, Moves, MemoryGood', DeviceSame, SizesFollow, ~overran',
           NEW content, NEW r, NEW dead, Wrote(content, r, dead),
           \A a \in dead : a \in DOMAIN summary => summary[a] = r,
           NEW head, NEW type, Moved(head, type),
           IF Now.do = "data"
           THEN r = Entry(Now.ino, Now.idx, "data") /\ content = Now.block /\ Now.ino \in DOMAIN imap
           ELSE r.type # "data" /\ Now.do \notin {"cut", "free"},
           NEW store, Promises(dev, Known, task, store)
    PROVE  Promises(dev', Known', task', store) /\ DeviceStays
  <1>1. task # <<>> /\ phase # "idle"
    BY NoTask DEF Moves
  <1>2. DOMAIN imap \subseteq DOMAIN imap'
    BY DEF Moves
  <1>3. ASSUME NEW ino, NEW idx \in Idx
        PROVE  Found(dev', Known', task', ino, idx) =
                  IF Touches(Now, ino, idx)
                  THEN IF Now.do = "data" THEN CellsAt(Now.block) ELSE Fill(Zero)
                  ELSE Found(dev, Known, task, ino, idx)
    <2>1. Found(dev', Known', task', ino, idx) =
             IF r = Entry(ino, idx, "data") /\ ino \in DOMAIN imap' THEN CellsAt(content)
             ELSE Found(dev, Known, task, ino, idx)
      BY <1>2, WroteFound
    <2>2. CASE Now.do = "data"
      <3>1. r = Entry(ino, idx, "data") <=> Now.ino = ino /\ Now.idx = idx
        BY <2>2, SameEntry
      <3>2. Touches(Now, ino, idx) <=> r = Entry(ino, idx, "data") /\ ino \in DOMAIN imap'
        BY <1>2, <2>2, <3>1 DEF Touches
      <3> QED
        BY <2>1, <2>2, <3>2
    <2>3. CASE Now.do # "data"
      <3>1. r # Entry(ino, idx, "data")
        BY <2>3, RolesAre
      <3>2. ~Touches(Now, ino, idx)
        BY <2>3 DEF Touches
      <3> QED
        BY <2>1, <3>1, <3>2
    <2> QED
      BY <2>2, <2>3
  <1>4. BlocksFollow
    BY <1>3 DEF BlocksFollow
  <1> QED
    BY <1>1, <1>4, MovesPromise, WriteSpares

\* Writing a data block keeps the promise: it reads there what the step said it would.
LEMMA WriteDataPromise ==
    ASSUME LInv, ~overran', WriteData, NEW store, Promises(dev, Known, task, store)
    PROVE  Promises(dev', Known', task', store) /\ DeviceStays
  <1>1. PICK r, old, content : /\ r = Entry(Now.ino, Now.idx, "data") /\ content = Now.block
                               /\ old = GetBlockAddr(dev, Known[Now.ino], Now.idx)
    OBVIOUS
  <1>2. /\ MemoryGood' /\ DeviceSame /\ Moves
        /\ Wrote(content, r, {old}) /\ Moved(super.head, "data")
    BY <1>1, WriteDataGood
  <1>3. task # <<>> /\ Now.do = "data"
    BY DEF WriteData, Due, Now
  <1>4. /\ Now.ino \in DOMAIN imap /\ Now.ino \in DOMAIN work /\ Now.idx \in Idx
    BY <1>3, OnInode
  <1>5. \A a \in {old} : a \in DOMAIN summary => summary[a] = r
    <2>1. Formed(dev, imap, Known) /\ PendsFine(task) /\ DOMAIN imap \subseteq Nat
      BY GoodNow DEF Good
    <2>2. Places(dev, imap, Known, task)[r] = Pointer(dev, Known, task, Now.ino, Now.idx)
      BY <1>1, <1>4, <2>1, PlacesAre
    <2>3. Pointer(dev, Known, task, Now.ino, Now.idx) = old
      BY <1>1, <1>3 DEF Pointer, Pends, Now
    <2>4. r \in RolesOf(DOMAIN imap)
      BY <1>1, <1>4, <2>1, InRolesOf
    <2> QED
      BY <2>2, <2>3, <2>4, OldRole
  <1>6. SizesFollow
    <2>1. imap' = imap /\ SetBlockAddr(work, Now.ino, Now.idx, super.tail, Tail(task))
      BY DEF WriteData
    <2>2. SetTo(work, Now.ino, Now.idx, super.tail, Tail(task))
      BY <1>4, <2>1, SetIs
    <2>3. InodesKept
      BY <1>2, InodesSpared DEF InodesKept, Wrote
    <2>4. \A i \in DOMAIN imap' : Known'[i].size = Known[i].size
      BY <1>4, <2>1, <2>2, <2>3, PointerSizes, WorkIsCopies
    <2> QED
      BY <1>3, <2>4 DEF SizesFollow
  <1> QED
    BY <1>1, <1>2, <1>3, <1>4, <1>5, <1>6, WrotePromise

\* Writing an indirect block keeps it: the pointers found are those that were due.
LEMMA WriteIndirectPromise ==
    ASSUME LInv, ~overran', WriteIndirect, NEW store, Promises(dev, Known, task, store)
    PROVE  Promises(dev', Known', task', store) /\ DeviceStays
  <1>1. PICK r, old, content : /\ r = Entry(Now.ino, 0, "indirect") /\ content = dev'[super.tail]
                               /\ old = Known[Now.ino].ind
    OBVIOUS
  <1>2. /\ MemoryGood' /\ DeviceSame /\ Moves
        /\ Wrote(content, r, {old}) /\ Moved(super.head, "indirect")
    BY <1>1, WriteIndirectGood
  <1>3. task # <<>> /\ Now.do = "indirect"
    BY DEF WriteIndirect, Due, Now
  <1>4. Now.ino \in DOMAIN imap /\ Now.ino \in DOMAIN work /\ Known[Now.ino] = work[Now.ino]
    BY <1>3, OnInode
  <1>5. \A a \in {old} : a \in DOMAIN summary => summary[a] = r
    <2>1. Formed(dev, imap, Known) /\ PendsFine(task) /\ DOMAIN imap \subseteq Nat
      BY GoodNow DEF Good
    <2>2. Places(dev, imap, Known, task)[r] = old /\ r \in RolesOf(DOMAIN imap)
      BY <1>1, <1>4, <2>1, PlacesAre, InRolesOf
    <2> QED
      BY <2>2, OldRole
  <1>6. SizesFollow
    <2>1. imap' = imap /\ work' = [work EXCEPT ![Now.ino].ind = super.tail]
      BY DEF WriteIndirect
    <2>2. InodesKept
      BY <1>2, InodesSpared DEF InodesKept, Wrote
    <2>3. ASSUME NEW i \in DOMAIN imap
          PROVE  Known'[i].size = Known[i].size
      <3>1. Known'[i] = IF i \in DOMAIN work' THEN work'[i] ELSE dev[imap[i]]
        BY <2>1, <2>2 DEF Known, Nodes, InodesKept
      <3>2. Known[i] = IF i \in DOMAIN work THEN work[i] ELSE dev[imap[i]]
        BY KnownIs
      <3>3. Known[i] \in NodeOf(i)
        BY GoodNow DEF Formed, IsNode
      <3>4. CASE i = Now.ino
        <4>1. Known'[i] = [Known[i] EXCEPT !.ind = super.tail]
          BY <1>4, <2>1, <3>1, <3>4
        <4> QED
          BY <3>3, <4>1 DEF NodeOf
      <3>5. CASE i # Now.ino
        BY <2>1, <3>1, <3>2, <3>5
      <3> QED
        BY <3>4, <3>5
    <2> QED
      BY <1>3, <2>1, <2>3 DEF SizesFollow
  <1>7. r.type # "data"
    BY <1>1, RolesAre
  <1> QED
    BY <1>2, <1>3, <1>5, <1>6, <1>7, WrotePromise

\* Writing an inode keeps it: the size is the one the step had.
LEMMA WriteInodePromise ==
    ASSUME LInv, ~overran', WriteInode, NEW store, Promises(dev, Known, task, store)
    PROVE  Promises(dev', Known', task', store) /\ DeviceStays
  <1>1. PICK r, dead, content : /\ r = Entry(Now.ino, 0, "inode") /\ content = Known'[Now.ino]
                                /\ dead = IF Now.ino \in DOMAIN imap THEN {imap[Now.ino]} ELSE {}
    OBVIOUS
  <1>2. /\ MemoryGood' /\ DeviceSame /\ Moves
        /\ Wrote(content, r, dead) /\ Moved(super.head, "inode")
        /\ imap'[Now.ino] = super.tail /\ \A i \in DOMAIN imap : i # Now.ino => imap'[i] = imap[i]
    BY <1>1, WriteInodeGood
  <1>3. task # <<>> /\ Now.do = "inode"
    BY DEF WriteInode, Due, Now
  <1>4. \A a \in dead : a \in DOMAIN summary => summary[a] = r
    <2>1. Formed(dev, imap, Known) /\ PendsFine(task) /\ DOMAIN imap \subseteq Nat
      BY GoodNow DEF Good
    <2>2. Now.ino \in DOMAIN imap => /\ Places(dev, imap, Known, task)[r] = imap[Now.ino]
                                     /\ r \in RolesOf(DOMAIN imap)
      BY <1>1, <2>1, PlacesAre, InRolesOf
    <2> QED
      BY <1>1, <2>2, OldRole
  <1>5. SizesFollow
    <2>1. PICK inode : inode = [work[Now.ino] EXCEPT !.size = Now.size]
      OBVIOUS
    <2>2. inode.size = Now.size /\ Now.ino \in DOMAIN work
      BY <1>3, <2>1, InodeNow
    <2>3. /\ work' = IF phase = "flush" THEN [i \in DOMAIN work \ {Now.ino} |-> work[i]]
                     ELSE [work EXCEPT ![Now.ino] = inode]
          /\ imap' = [i \in DOMAIN imap \cup {Now.ino} |-> IF i = Now.ino THEN super.tail ELSE imap[i]]
          /\ dev' = [dev EXCEPT ![super.tail] = inode]
      BY <2>1 DEF WriteInode, Put
    <2>4. dev'[super.tail] = inode /\ \A i \in DOMAIN imap : dev'[imap[i]] = dev[imap[i]]
      BY <1>2, <2>3, InodesSpared DEF Wrote, LInv, Typed
    <2>5. ASSUME NEW i \in DOMAIN imap'
          PROVE  Known'[i].size = IF i = Now.ino THEN Now.size ELSE Known[i].size
      <3>1. Known'[i] = IF i \in DOMAIN work' THEN work'[i] ELSE dev'[imap'[i]]
        BY DEF Known, Nodes
      <3>2. CASE i = Now.ino
        BY <1>2, <2>2, <2>3, <2>4, <3>1, <3>2
      <3>3. CASE i # Now.ino
        <4>1. i \in DOMAIN imap /\ imap'[i] = imap[i]
          BY <2>3, <3>3
        <4>2. Known[i] = IF i \in DOMAIN work THEN work[i] ELSE dev[imap[i]]
          BY <4>1, KnownIs
        <4>3. i \in DOMAIN work' <=> i \in DOMAIN work
          BY <2>3, <3>3
        <4>4. i \in DOMAIN work => work'[i] = work[i]
          BY <2>3, <3>3
        <4> QED
          BY <2>4, <3>1, <3>3, <4>1, <4>2, <4>3, <4>4
      <3> QED
        BY <3>2, <3>3
    <2> QED
      BY <1>3, <2>5 DEF SizesFollow
  <1>6. r.type # "data"
    BY <1>1, RolesAre
  <1> QED
    BY <1>2, <1>3, <1>4, <1>5, <1>6, WrotePromise

\* Writing the inode map keeps it: no file is concerned.
LEMMA WriteMapPromise ==
    ASSUME LInv, ~overran', WriteMap, NEW store, Promises(dev, Known, task, store)
    PROVE  Promises(dev', Known', task', store) /\ DeviceStays
  <1>1. PICK r, content : r = Entry(NoIno, 0, "map") /\ content = MapBlock(imap)
    OBVIOUS
  <1>2. /\ MemoryGood' /\ DeviceSame /\ Moves
        /\ Wrote(content, r, {}) /\ Moved(super.head, "map")
    BY <1>1, WriteMapGood
  <1>3. task # <<>> /\ Now.do = "map"
    BY DEF WriteMap, Due, Now
  <1>4. SizesFollow
    <2>1. imap' = imap /\ work' = work
      BY DEF WriteMap
    <2>2. \A i \in DOMAIN imap : dev'[imap[i]] = dev[imap[i]]
      BY <1>2, InodesSpared DEF Wrote
    <2>3. Known' = Known
      BY <2>1, <2>2 DEF Known, Nodes
    <2> QED
      BY <1>3, <2>3 DEF SizesFollow
  <1>5. r.type # "data"
    BY <1>1, RolesAre
  <1> QED
    BY <1>2, <1>3, <1>4, <1>5, WrotePromise
-----------------------------------------------------------------------------
(* The steps that write none *)

\* A block that is dropped leaves zeros.
LEMMA CutFound ==
    ASSUME LInv, MemoryGood', dev' = dev, imap' = imap,
           NEW ino \in DOMAIN imap, NEW idx \in Idx, NEW old, old # NoBlock,
           Pointer(dev, Known, task, ino, idx) = old, Struck(summary, {old}, summary'),
           NEW i, NEW k \in Idx
    PROVE  Found(dev', Known', task', i, k) =
              IF i = ino /\ k = idx THEN Fill(Zero) ELSE Found(dev, Known, task, i, k)
  <1>1. PICK d, map, N, todo, sum : d = dev /\ map = imap /\ N = Known /\ todo = task /\ sum = summary
    OBVIOUS
  <1>2. PICK N2, todo2, sum2 : N2 = Known' /\ todo2 = task' /\ sum2 = summary'
    OBVIOUS
  <1> DEFINE r == Entry(ino, idx, "data")
             e == Entry(i, k, "data")
             P == Places(d, map, N, todo)
             Q == Places(d, map, N2, todo2)
  <1>3. Formed(d, map, N) /\ PendsFine(todo) /\ Kept(P, sum) /\ DOMAIN map \subseteq Nat
    BY <1>1 DEF LInv, MemoryGood, Good, Formed
  <1>4. Formed(d, map, N2) /\ PendsFine(todo2) /\ Kept(Q, sum2)
    BY <1>1, <1>2 DEF MemoryGood, Good
  <1>5. /\ DOMAIN P = RolesOf(DOMAIN map) /\ DOMAIN Q = RolesOf(DOMAIN map)
        /\ r \in RolesOf(DOMAIN map) /\ P[r] = old
        /\ i \in DOMAIN map => e \in RolesOf(DOMAIN map)
        /\ e.type = "data" /\ (e = r <=> i = ino /\ k = idx)
    BY <1>1, <1>3, <1>4, PlacesAre, InRolesOf, RolesAre, SameEntry
  <1>6. /\ Found(d, N, todo, i, k) = IF i \in DOMAIN map THEN ReadAt(d, P[e]) ELSE Fill(Zero)
        /\ Found(d, N2, todo2, i, k) = IF i \in DOMAIN map THEN ReadAt(d, Q[e]) ELSE Fill(Zero)
    BY <1>3, <1>4, FoundIs
  <1> HIDE DEF r, e, P, Q
  <1>7. CASE i \notin DOMAIN map
    BY <1>1, <1>2, <1>6, <1>7
  <1>8. CASE i \in DOMAIN map
    <2>1. Q[e] = IF P[e] \in {old} THEN NoBlock ELSE P[e]
      <3>1. e \in DOMAIN Q /\ e \in DOMAIN P /\ e.type # "map" /\ Struck(sum, {old}, sum2)
        BY <1>1, <1>2, <1>5, <1>8
      <3> QED
        BY <1>3, <1>4, <3>1, PlacesWithout
    <2>2. P[e] = old <=> e = r
      BY <1>3, <1>5, <1>8, OneRoleEach
    <2>3. CASE e = r
      <3>1. ReadAt(d, Q[e]) = Fill(Zero)
        BY <2>1, <2>2, <2>3 DEF ReadAt
      <3> QED
        BY <1>1, <1>2, <1>5, <1>6, <1>8, <2>3, <3>1
    <2>4. CASE e # r
      BY <1>1, <1>2, <1>5, <1>6, <1>8, <2>1, <2>2, <2>4
    <2> QED
      BY <2>3, <2>4
  <1> QED
    BY <1>7, <1>8

\* Taking a block from a file keeps it: a block that is not there reads as zeros.
LEMMA CutBlockPromise ==
    ASSUME LInv, CutBlock, NEW store, Promises(dev, Known, task, store)
    PROVE  Promises(dev', Known', task', store) /\ DeviceStays
  <1>1. PICK ino, idx, old : /\ ino = Now.ino /\ idx = Now.idx
                             /\ old = GetBlockAddr(dev, Known[Now.ino], Now.idx)
    OBVIOUS
  <1>2. MemoryGood' /\ DeviceSame /\ Moves /\ dev' = dev
    BY CutBlockGood
  <1>3. task # <<>> /\ Now.do = "cut" /\ task[1].do = "cut"
    BY DEF CutBlock, Due, Now
  <1>4. ino \in DOMAIN imap /\ ino \in DOMAIN work /\ idx \in Idx /\ Known[ino] = work[ino]
        /\ DOMAIN Known = DOMAIN imap
    BY <1>1, <1>3, OnInode, KnownIs
  <1>5. /\ imap' = imap
        /\ \/ old = NoBlock /\ task' = Tail(task) /\ summary' = summary /\ work' = work
           \/ /\ old # NoBlock /\ SetBlockAddr(work, ino, idx, NoBlock, Tail(task))
              /\ summary' = [a \in DOMAIN summary \ {old} |-> summary[a]]
    BY <1>1, <1>4 DEF CutBlock
  <1>6. Settled(task) /\ Settled(Tail(task))
    BY <1>3, TailSettled DEF Settled
  <1>7. \A t, i, k : Settled(t) => ~Pends(t, i, k)
    BY DEF Settled, Pends
  <1>8. CASE old = NoBlock /\ task' = Tail(task) /\ work' = work
    <2>1. Known' = Known
      BY <1>2, <1>5, <1>8 DEF Known
    <2>2. \A i, k : Found(dev', Known', task', i, k) = Found(dev, Known, task, i, k)
      BY <1>2, <1>6, <1>7, <1>8, <2>1 DEF Found, Pointer
    <2>3. Found(dev, Known, task, ino, idx) = Fill(Zero)
      BY <1>1, <1>4, <1>6, <1>7, <1>8 DEF Found, Pointer, ReadAt
    <2>4. BlocksFollow
      BY <1>1, <1>3, <2>2, <2>3 DEF BlocksFollow, Touches
    <2>5. SizesFollow
      BY <1>3, <2>1 DEF SizesFollow
    <2> QED
      BY <1>2, <2>4, <2>5, MovesPromise DEF DeviceStays
  <1>9. CASE /\ old # NoBlock /\ SetBlockAddr(work, ino, idx, NoBlock, Tail(task))
             /\ summary' = [a \in DOMAIN summary \ {old} |-> summary[a]]
    <2>1. Struck(summary, {old}, summary')
      BY <1>9 DEF Struck
    <2>2. Pointer(dev, Known, task, ino, idx) = old
      BY <1>1, <1>6, <1>7 DEF Pointer
    <2>3. \A i, k : k \in Idx => Found(dev', Known', task', i, k) =
              IF i = ino /\ k = idx THEN Fill(Zero) ELSE Found(dev, Known, task, i, k)
      <3>1. MemoryGood' /\ dev' = dev /\ imap' = imap /\ ino \in DOMAIN imap /\ idx \in Idx
            /\ old # NoBlock
        BY <1>2, <1>4, <1>5, <1>9
      <3> QED
        BY <2>1, <2>2, <3>1, CutFound
    <2>4. BlocksFollow
      BY <1>1, <1>3, <2>3 DEF BlocksFollow, Touches
    <2>5. SizesFollow
      <3>1. SetTo(work, ino, idx, NoBlock, Tail(task))
        BY <1>4, <1>9, SetIs
      <3>2. InodesKept
        BY <1>2 DEF InodesKept
      <3>3. \A i \in DOMAIN imap' : Known'[i].size = Known[i].size
        BY <1>4, <1>5, <3>1, <3>2, PointerSizes, WorkIsCopies
      <3> QED
        BY <1>3, <3>3 DEF SizesFollow
    <2> QED
      BY <1>2, <2>4, <2>5, MovesPromise DEF DeviceStays
  <1> QED
    BY <1>5, <1>8, <1>9

\* Steps that change no block and no inode but one that leaves.
LEMMA QuietPromise ==
    ASSUME LInv, Moves, DeviceSame, dev' = dev, Now.do \in {"free", "unlink", "superblock"},
           work' = work, task' = Tail(task), \A i \in DOMAIN imap' : imap'[i] = imap[i],
           NEW store, Promises(dev, Known, task, store)
    PROVE  Promises(dev', Known', task', store) /\ DeviceStays
  <1>1. /\ DOMAIN imap' = IF Now.do = "free" THEN DOMAIN imap \ {Now.ino} ELSE DOMAIN imap
        /\ task # <<>>
    BY DEF Moves
  <1>2. \A i \in DOMAIN imap' : Known'[i] = Known[i]
    <2>1. \A i \in DOMAIN imap' : Known'[i] = IF i \in DOMAIN work' THEN work'[i] ELSE dev'[imap'[i]]
      BY DEF Known, Nodes
    <2> QED
      BY <1>1, <2>1, KnownIs
  <1>3. Settled(task) /\ Settled(task')
    BY <1>1, TailSettled DEF Settled, Now
  <1>4. \A t, i, k : Settled(t) => ~Pends(t, i, k)
    BY DEF Settled, Pends
  <1>5. DOMAIN Known = DOMAIN imap /\ DOMAIN Known' = DOMAIN imap'
    BY DEF Known, Nodes
  <1>6. ASSUME NEW i, NEW k, ~Freed(i)
        PROVE  Found(dev', Known', task', i, k) = Found(dev, Known, task, i, k)
    <2>1. i \in DOMAIN imap' <=> i \in DOMAIN imap
      BY <1>1, <1>6 DEF Freed
    <2> QED
      BY <1>2, <1>3, <1>4, <1>5, <2>1 DEF Found, Pointer
  <1>7. BlocksFollow
    BY <1>6 DEF BlocksFollow, Touches
  <1>8. SizesFollow
    BY <1>2 DEF SizesFollow
  <1> QED
    BY <1>7, <1>8, MovesPromise DEF DeviceStays

\* Freeing an inode keeps it: no name is to lead there.
LEMMA FreeInodePromise ==
    ASSUME LInv, FreeInode, NEW store, Promises(dev, Known, task, store)
    PROVE  Promises(dev', Known', task', store) /\ DeviceStays
  <1>1. /\ DeviceSame /\ Moves /\ Struck(imap, {Now.ino}, imap')
        /\ dev' = dev /\ work' = work
    BY FreeInodeGood
  <1>2. Now.do = "free" /\ task' = Tail(task)
    BY DEF FreeInode, Due, Now
  <1>3. \A i \in DOMAIN imap' : imap'[i] = imap[i]
    BY <1>1 DEF Struck
  <1> QED
    BY <1>1, <1>2, <1>3, QuietPromise

\* Noting an inode as unlinked keeps it: no file is concerned.
LEMMA MarkUnlinkedPromise ==
    ASSUME LInv, MarkUnlinked, NEW store, Promises(dev, Known, task, store)
    PROVE  Promises(dev', Known', task', store) /\ DeviceStays
  <1>1. DeviceSame /\ Moves
    BY MarkUnlinkedGood
  <1>2. /\ Now.do = "unlink" /\ task' = Tail(task)
        /\ dev' = dev /\ work' = work /\ imap' = imap
    BY DEF MarkUnlinked, Due, Now
  <1> QED
    BY <1>1, <1>2, QuietPromise

\* The early superblock of a creation keeps it: the inode map it names is the old one.
LEMMA WriteSuperblockPromise ==
    ASSUME LInv, WriteSuperblock, NEW store, Promises(dev, Known, task, store)
    PROVE  Promises(dev', Known', task', store) /\ DeviceStays
  <1>1. DeviceSame /\ Moves
    BY WriteSuperblockGood
  <1>2. /\ Now.do = "superblock" /\ task' = Tail(task)
        /\ dev' = dev /\ work' = work /\ imap' = imap
    BY DEF WriteSuperblock, Due, Now, memory
  <1> QED
    BY <1>1, <1>2, QuietPromise

-----------------------------------------------------------------------------
(* The cleaner's loop *)

\* Where no step is about to change a file, the promise is what is found.
LEMMA LoopPasses ==
    ASSUME NEW d, NEW N, NEW todo, NEW d2, NEW N2, NEW todo2,
           \A s \in Todo(todo) \cup Todo(todo2) : s.do \notin {"data", "cut"},
           DirOf(d2, N2) = DirOf(d, N),
           \A i, k : k \in Idx => Found(d2, N2, todo2, i, k) = Found(d, N, todo, i, k),
           \A i, n : Sized(N, todo, i, n) => Sized(N2, todo2, i, n),
           NEW store, Promises(d, N, todo, store)
    PROVE  Promises(d2, N2, todo2, store)
  <1>1. NamesStay(d, N, todo, d2, N2, todo2)
    BY DEF NamesStay, Entered, IsDirStep
  <1>2. \A i : FileStays(d, N, todo, d2, N2, todo2, i)
    BY DEF FileStays, Reads, Touches
  <1> QED
    BY <1>1, <1>2, PromisePasses

\* The head moves on, or the loop ends.
LEMMA LoopStays ==
    ASSUME LInv, CleanSkip \/ CleanLoopEnds, NEW store, Promises(dev, Known, task, store)
    PROVE  Promises(dev', Known', task', store) /\ DeviceStays
  <1>1. UNCHANGED <<dev, sb, imap, task, work>>
    BY DEF CleanSkip, CleanLoopEnds, memory
  <1>2. Known' = Known
    BY <1>1 DEF Known
  <1>3. DeviceSame
    BY <1>1, DeviceKept
  <1> QED
    BY <1>1, <1>2, <1>3 DEF DeviceStays

\* The cleaner's writing back of its inodes keeps it: they have the sizes they had.
LEMMA FlushNextPromise ==
    ASSUME LInv, FlushNext, NEW store, Promises(dev, Known, task, store)
    PROVE  Promises(dev', Known', task', store) /\ DeviceStays
  <1> DEFINE least == CHOOSE ino \in DOMAIN work : \A other \in DOMAIN work : ino <= other
  <1>1. /\ phase = "flush" /\ task = <<>> /\ UNCHANGED <<dev, sb, imap, work>>
        /\ task' = IF DOMAIN work = {} THEN <<MapStep, Step("end", NoIno)>>
                   ELSE <<InodeStep(least, work[least].size)>>
    BY DEF FlushNext, memory
  <1>2. DeviceSame /\ Known' = Known
    BY <1>1, DeviceKept DEF Known
  <1>3. DOMAIN work \subseteq DOMAIN imap /\ DOMAIN imap \subseteq Nat
    BY <1>1, GoodNow DEF LInv, Held, CleanPhases
  <1>4. /\ Settled(task')
        /\ \A s \in Todo(task') : \/ s.do \in {"map", "end"}
                                  \/ s.do = "inode" /\ s.ino \in DOMAIN work /\ s.size = work[s.ino].size
    <2>1. CASE DOMAIN work = {}
      <3>1. PICK last : last = <<MapStep, Step("end", NoIno)>>
        OBVIOUS
      <3>2. /\ Todo(last) = {MapStep, Step("end", NoIno)} /\ last[1] = MapStep
            /\ MapStep.do = "map" /\ Step("end", NoIno).do = "end"
        BY <3>1, MapAndEnd
      <3>3. task' = last
        BY <1>1, <2>1, <3>1
      <3> QED
        BY <3>2, <3>3 DEF Settled
    <2>2. CASE DOMAIN work # {}
      <3>1. least \in DOMAIN work
        BY <1>3, <2>2, LeastExists
      <3> HIDE DEF least
      <3>2. PICK s : s = InodeStep(least, work[least].size)
        OBVIOUS
      <3>3. s.do = "inode" /\ s.ino = least /\ s.size = work[least].size
        BY <3>2 DEF InodeStep
      <3>4. task' = <<s>>
        BY <1>1, <2>2, <3>2
      <3>5. Todo(task') = {s} /\ task'[1] = s
        BY <3>4, OneStep
      <3> QED
        BY <3>1, <3>3, <3>5 DEF Settled
    <2> QED
      BY <2>1, <2>2
  <1> HIDE DEF least
  <1>5. \A i, n : Sized(Known, <<>>, i, n) => Sized(Known, task', i, n)
    <2> SUFFICES ASSUME NEW i, NEW n, Sized(Known, <<>>, i, n)
                 PROVE  Sized(Known, task', i, n)
      OBVIOUS
    <2>1. i \in DOMAIN Known /\ Known[i].size = n
      BY NoSteps DEF Sized, InodePending
    <2>2. i \in DOMAIN work => work[i] = Known[i]
      BY <2>1, KnownIs
    <2>3. \A s \in Todo(task') : s.do = "inode" /\ s.ino = i => s.size = n
      BY <1>4, <2>1, <2>2
    <2> QED
      BY <2>1, <2>3 DEF Sized
  <1>6. \A i, k : Found(dev, Known, task', i, k) = Found(dev, Known, <<>>, i, k)
    BY <1>4 DEF Found, Pointer, Pends, Settled
  <1>7. \A s \in Todo(<<>>) \cup Todo(task') : s.do \notin {"data", "cut"}
    BY <1>4, NoSteps
  <1>8. Promises(dev, Known, task', store)
    <2>1. PICK todo2 : todo2 = task'
      OBVIOUS
    <2>2. Promises(dev, Known, <<>>, store)
      BY <1>1
    <2>3. Promises(dev, Known, todo2, store)
      BY <1>5, <1>6, <1>7, <2>1, <2>2, LoopPasses
    <2> QED
      BY <2>1, <2>3
  <1> QED
    BY <1>1, <1>2, <1>8 DEF DeviceStays

\* The pointer to the block that moved follows it: what CleanMove does to inodes.
LEMMA MovedNodes ==
    ASSUME LInv, NEW a, NEW e, MovesBlock(a, e), CleanMove, a = super.head, e = summary[a]
    PROVE  /\ Followed
           /\ \A i \in DOMAIN imap : Known'[i].size = Known[i].size
  <1> DEFINE inodes == [i \in DOMAIN work \cup {e.ino} |->
                           IF i = e.ino THEN Current(e.ino) ELSE work[i]]
  <1>1. InLoop /\ e.ino \in DOMAIN imap /\ e.idx \in Idx
    BY DEF MovesBlock
  <1>2. PICK taken : taken = inodes
    OBVIOUS
  <1>3. /\ DOMAIN taken = DOMAIN work \cup {e.ino} /\ Copies(taken) /\ Covers(taken)
        /\ \A i \in DOMAIN work : i # e.ino => taken[i] = work[i]
    <2>1. DOMAIN taken = DOMAIN work \cup {e.ino} /\ taken[e.ino] = Current(e.ino)
      BY <1>2
    <2>2. \A i \in DOMAIN imap : Known[i] = Current(i)
      BY <1>1, LoopNow
    <2>3. \A i \in DOMAIN work : i # e.ino => taken[i] = work[i] /\ Current(i) = work[i]
      BY <1>2 DEF Current
    <2>4. Copies(taken)
      BY <2>1, <2>2, <2>3 DEF Copies
    <2> QED
      BY <2>1, <2>3, <2>4 DEF Covers
  <1>4. \/ /\ e.type = "data" /\ imap' = imap
           /\ SetBlockAddr(taken, e.ino, e.idx, super.tail, <<>>)
        \/ /\ e.type = "inode" /\ imap' = [imap EXCEPT ![e.ino] = super.tail]
           /\ task' = task /\ work' = work
        \/ /\ e.type = "indirect" /\ imap' = imap /\ task' = task
           /\ work' = [taken EXCEPT ![e.ino].ind = IF @ = a THEN super.tail ELSE @]
    BY <1>2 DEF CleanMove
  <1> HIDE DEF inodes
  <1>5. /\ dev'[super.tail] = dev[a]
        /\ \A ino \in DOMAIN imap : dev'[imap[ino]] = dev[imap[ino]]
        /\ e.type = "inode" => imap[e.ino] = a
    <2>1. dev'[super.tail] = dev[a]
      BY MovedFacts
    <2>2. \A ino \in DOMAIN imap : dev'[imap[ino]] = dev[imap[ino]]
      BY MovedFacts
    <2>3. ASSUME e.type = "inode"
          PROVE  imap[e.ino] = a
      <3>1. Places(dev, imap, Known, <<>>)[e] = a /\ e \in RolesOf(DOMAIN imap)
        BY DEF MovesBlock, RolesOf
      <3> QED
        BY <2>3, <3>1 DEF Places
    <2> QED
      BY <2>1, <2>2, <2>3
  <1>6. InodesKept
    BY <1>5 DEF InodesKept
  <1>7. CASE e.type = "data" /\ imap' = imap
             /\ SetBlockAddr(taken, e.ino, e.idx, super.tail, <<>>)
    <2>1. Followed
      BY <1>3, <1>7, DataFollows
    <2>2. SetTo(taken, e.ino, e.idx, super.tail, <<>>)
      BY <1>3, <1>7, SetIs
    <2>3. \A i \in DOMAIN imap' : Known'[i].size = Known[i].size
      BY <1>1, <1>3, <1>6, <1>7, <2>2, PointerSizes
    <2> QED
      BY <1>7, <2>1, <2>3
  <1>8. CASE e.type = "inode" /\ imap' = [imap EXCEPT ![e.ino] = super.tail]
             /\ task' = task /\ work' = work
    <2>1. Followed
      BY <1>8, InodeFollows
    <2>2. \A i \in DOMAIN imap : dev'[imap'[i]] = dev[imap[i]]
      BY <1>5, <1>8
    <2>3. \A i \in DOMAIN imap : Known'[i] = Known[i]
      <3>1. \A i \in DOMAIN imap' : Known'[i] = IF i \in DOMAIN work' THEN work'[i] ELSE dev'[imap'[i]]
        BY DEF Known, Nodes
      <3> QED
        BY <1>8, <2>2, <3>1, KnownIs
    <2> QED
      BY <2>1, <2>3
  <1>9. CASE e.type = "indirect" /\ imap' = imap /\ task' = task
             /\ work' = [taken EXCEPT ![e.ino].ind = IF @ = a THEN super.tail ELSE @]
    <2>1. Followed
      BY <1>3, <1>9, IndirectFollows
    <2>2. ASSUME NEW i \in DOMAIN imap
          PROVE  Known'[i].size = Known[i].size
      <3>1. Known'[i] = IF i \in DOMAIN work' THEN work'[i] ELSE dev[imap[i]]
        BY <1>5, <1>9 DEF Known, Nodes
      <3>2. Known[i] = IF i \in DOMAIN work THEN work[i] ELSE dev[imap[i]]
        BY KnownIs
      <3>3. CASE i = e.ino
        <4>1. Known[i] \in NodeOf(i)
          BY GoodNow DEF Formed, IsNode
        <4>2. taken[i] = Known[i] /\ i \in DOMAIN taken
          BY <1>3, <3>3 DEF Copies
        <4>3. Known'[i] = [Known[i] EXCEPT !.ind = IF @ = a THEN super.tail ELSE @]
          BY <1>9, <3>1, <3>3, <4>2
        <4> QED
          BY <4>1, <4>3 DEF NodeOf
      <3>4. CASE i # e.ino
        BY <1>3, <1>9, <3>1, <3>2, <3>4
      <3> QED
        BY <3>3, <3>4
    <2> QED
      BY <2>1, <2>2
  <1> QED
    BY <1>4, <1>7, <1>8, <1>9

\* A block the cleaner moves reads at its new place what it read at the old one.
LEMMA CleanMovePromise ==
    ASSUME LInv, ~overran', CleanMove, NEW store, Promises(dev, Known, task, store)
    PROVE  Promises(dev', Known', task', store) /\ DeviceStays
  <1>1. PICK a, e, content : a = super.head /\ e = summary[a] /\ content = dev[a]
    OBVIOUS
  <1>2. MovesBlock(a, e)
    BY <1>1, BlockMoves
  <1>3. /\ InLoop /\ a \in FileBlocks /\ a \in Log /\ e \in Roles /\ e.ino \in DOMAIN imap
        /\ e.idx \in Idx /\ Places(dev, imap, Known, <<>>)[e] = a
        /\ Wrote(content, e, {a}) /\ Moved(W!NextBlock(a), e.type) /\ DeviceSame
    BY <1>1, <1>2 DEF MovesBlock
  <1>4. Followed /\ \A i \in DOMAIN imap : Known'[i].size = Known[i].size
    BY <1>1, <1>2, MovedNodes
  <1>5. task = <<>> /\ phase # "idle"
    BY <1>3, LoopNow
  <1>6. /\ MemoryGood' /\ DOMAIN imap' = DOMAIN imap /\ \A s \in Todo(task') : s.do = "indirect"
        /\ DirOf(dev, Known)' = DirOf(dev, Known)
    BY <1>4 DEF Followed
  <1>7. DOMAIN Known = DOMAIN imap /\ DOMAIN Known' = DOMAIN imap
    BY <1>6 DEF Known, Nodes
  <1>8. ASSUME NEW i, NEW k \in Idx
        PROVE  Found(dev', Known', task', i, k) = Found(dev, Known, task, i, k)
    <2>1. Found(dev', Known', task', i, k) =
             IF e = Entry(i, k, "data") /\ i \in DOMAIN imap' THEN CellsAt(content)
             ELSE Found(dev, Known, task, i, k)
      BY <1>1, <1>3, <1>6, WroteFound
    <2>2. CASE e = Entry(i, k, "data")
      <3>1. i \in DOMAIN imap /\ Places(dev, imap, Known, task)[Entry(i, k, "data")] = a
        BY <1>3, <1>5, <2>2, RolesAre
      <3>2. Found(dev, Known, task, i, k) = ReadAt(dev, a)
        BY <3>1, GoodNow, FoundIs DEF Good
      <3>3. a # NoBlock
        BY <1>3, LogIsLog
      <3> QED
        BY <1>1, <2>1, <3>2, <3>3 DEF ReadAt
    <2> QED
      BY <2>1, <2>2
  <1>9. \A i, n : Sized(Known, <<>>, i, n) => Sized(Known', task', i, n)
    BY <1>4, <1>6, <1>7, NoSteps DEF Sized, InodePending
  <1>10. Promises(dev', Known', task', store)
    <2>1. PICK d2, N2, todo2 : d2 = dev' /\ N2 = Known' /\ todo2 = task'
      OBVIOUS
    <2>2. DirOf(d2, N2) = DirOf(dev, Known)
      BY <1>6, <2>1 DEF DirOf
    <2>3. \A s \in Todo(<<>>) \cup Todo(todo2) : s.do \notin {"data", "cut"}
      BY <1>6, <2>1, NoSteps
    <2>4. Promises(dev, Known, <<>>, store)
      BY <1>5
    <2>5. \A i, k : k \in Idx => Found(d2, N2, todo2, i, k) = Found(dev, Known, <<>>, i, k)
      BY <1>5, <1>8, <2>1
    <2>6. \A i, n : Sized(Known, <<>>, i, n) => Sized(N2, todo2, i, n)
      BY <1>9, <2>1
    <2>7. Promises(d2, N2, todo2, store)
      BY <2>2, <2>3, <2>4, <2>5, <2>6, LoopPasses
    <2> QED
      BY <2>1, <2>7
  <1> QED
    BY <1>3, <1>5, <1>10, WriteSpares

-----------------------------------------------------------------------------
(* The steps of AtomicStore *)

\* A step does what AtomicStore allows, and the promise holds after it.
Agrees == AInv' /\ [Store!Next]_<<Durable, goal>>

\* AInv after a step, conjunct by conjunct.
LEMMA Restate ==
    /\ AInv' <=> /\ Promises(dev', Known', task', goal')
                 /\ Promises(dev', Stored', <<>>, Durable')
  BY DEF AInv, Promises, Entered, IsDirStep, Todo, DirOf, Holds, IsText, Sized, InodePending,
         Reads, Touches, Found, Slice, Fill, ReadAt, CellsAt, Pointer, Pends, GetBlockAddr

\* What a reopen shows after a step.
LEMMA DurableNext ==
    ASSUME LInv', NEW store, Promises(dev', Stored', <<>>, store)
    PROVE  Durable' = store
  <1>1. PICK d, map, N, sum : /\ d = dev' /\ map = DurableMap' /\ N = Stored'
                              /\ sum = Rebuilt(dev, DurableMap)'
    OBVIOUS
  <1>2. Good(d, map, N, <<>>, sum)
    <2>1. DeviceGood'
      BY DEF LInv
    <2> QED
      BY <1>1, <2>1 DEF DeviceGood
  <1>3. Plain(d, map, N)
    <2>1. Stored' = [ino \in DOMAIN DurableMap' |-> dev'[DurableMap'[ino]]]
      BY DEF Stored, Nodes
    <2> QED
      BY <1>1, <2>1 DEF Plain
  <1>4. View(d, map) = store
    BY <1>1, <1>2, <1>3, PromisedView
  <1>5. Durable' = View(dev', DurableMap')
    BY DEF Durable
  <1> QED
    BY <1>1, <1>4, <1>5

\* A step that is none to AtomicStore.
LEMMA StaysAgree ==
    ASSUME LInv, AInv, goal' = goal, DeviceStays, Promises(dev', Known', task', goal)
    PROVE  Agrees
  <1>1. PICK store : store = Durable
    OBVIOUS
  <1>2. Promises(dev, Stored, <<>>, store)
    BY <1>1 DEF AInv
  <1>3. Promises(dev', Stored', <<>>, store) /\ Durable' = store
    BY <1>2, StoredPromise
  <1> QED
    BY <1>1, <1>3, Restate DEF Agrees

\* Nothing changes but descriptors, or nothing at all.
LEMMA NothingAgrees ==
    ASSUME LInv, AInv, UNCHANGED <<dev, sb, imap, task, work, goal>>
    PROVE  Agrees
  <1>1. Known' = Known
    BY DEF Known
  <1>2. DeviceSame
    BY DeviceKept
  <1>3. Promises(dev, Known, task, goal)
    BY DEF AInv
  <1> QED
    BY <1>1, <1>2, <1>3, StaysAgree DEF DeviceStays

\* The superblock names the map: the call takes effect.
LEMMA FinishAgrees ==
    ASSUME LInv, AInv, Finish
    PROVE  Agrees
  <1>1. /\ task # <<>> /\ Now.do = "end" /\ task' = <<>> /\ Todo(task) = {Now}
        /\ Known' = Known /\ Stored' = Known
    BY FinishGood
  <1>2. dev' = dev /\ goal' = goal
    BY DEF Finish
  <1>3. \A i, k : Found(dev, Known, <<>>, i, k) = Found(dev, Known, task, i, k)
    BY <1>1 DEF Found, Pointer, Pends, Now
  <1>4. \A i, n : Sized(Known, task, i, n) => Sized(Known, <<>>, i, n)
    BY <1>1, NoSteps DEF Sized, InodePending
  <1>5. \A s \in Todo(task) \cup Todo(<<>>) : s.do \notin {"data", "cut"}
    BY <1>1, NoSteps
  <1>6. Promises(dev, Known, <<>>, goal)
    <2>1. PICK todo, store : todo = task /\ store = goal
      OBVIOUS
    <2>2. Promises(dev, Known, todo, store)
      BY <2>1 DEF AInv
    <2>3. Promises(dev, Known, <<>>, store)
      BY <1>3, <1>4, <1>5, <2>1, <2>2, LoopPasses
    <2> QED
      BY <2>1, <2>3
  <1>7. Durable' = goal
    <2>1. PICK store : store = goal
      OBVIOUS
    <2>2. LInv' /\ Promises(dev', Stored', <<>>, store)
      BY <1>1, <1>2, <1>6, <2>1, FinishKeeps
    <2> QED
      BY <2>1, <2>2, DurableNext
  <1>8. Store!Take
    BY <1>2, <1>7 DEF Store!Take
  <1> QED
    BY <1>1, <1>2, <1>6, <1>7, <1>8, Restate DEF Agrees, Store!Next

\* Memory is what the device has: the call has not happened.
LEMMA ReloadAgrees ==
    ASSUME LInv, AInv, LInv', Reloaded, goal' = Durable
    PROVE  Agrees
  <1>1. Known' = Stored /\ Stored' = Stored /\ dev' = dev /\ task' = <<>>
    BY ReloadedGood DEF Reloaded
  <1>2. PICK store : store = Durable
    OBVIOUS
  <1>3. Promises(dev', Stored', <<>>, store)
    BY <1>1, <1>2 DEF AInv
  <1>4. Durable' = store
    BY <1>3, DurableNext
  <1>5. Store!Abandon
    BY <1>2, <1>4 DEF Store!Abandon
  <1> QED
    BY <1>1, <1>2, <1>3, <1>4, <1>5, Restate DEF Agrees, Store!Next

\* A refusal for want of space and a crash reload what the device has.
LEMMA FailureReloads ==
    ASSUME LInv, NoSpace \/ CrashAndOpen
    PROVE  Reloaded /\ goal' = Durable
  <1>1. CASE NoSpace
    <2>1. Reload(committed) /\ load' = load
      BY <1>1 DEF NoSpace, bounds
    <2>2. committed.head \in Log /\ committed.tail \in Log
      BY LogIsLog DEF LInv, W!IInv, W!TypeOK, W!Cursors
    <2> QED
      BY <2>1, <2>2, ReloadIs DEF Reload
  <1>2. CASE CrashAndOpen
    <2>1. Reload(sb) /\ load' = load
      BY <1>2 DEF CrashAndOpen
    <2>2. sb.head \in Log /\ sb.tail \in Log
      BY DEF LInv, Typed, Superblocks
    <2> QED
      BY <2>1, <2>2, ReloadIs DEF Reload
  <1> QED
    BY <1>1, <1>2

\* So they go back to what the device shows.
LEMMA FailureAgrees ==
    ASSUME LInv, AInv, (NoSpace /\ ~RefusedRemoval) \/ CrashAndOpen
    PROVE  Agrees
  <1>1. LInv'
    BY NoSpaceKeeps, CrashAndOpenKeeps
  <1> QED
    BY <1>1, FailureReloads, ReloadAgrees

\* close has nothing to undo.
LEMMA CloseNoSpaceAgrees ==
    ASSUME LInv, AInv, CloseNoSpace
    PROVE  Agrees
  <1>1. /\ phase = "close" /\ task # <<>> /\ Now.do = "map" /\ task' = <<>> /\ work' = <<>>
        /\ UNCHANGED <<dev, sb, imap, goal>>
    BY DEF CloseNoSpace, Due, Now, memory, history
  <1>2. Known' = Known
    BY <1>1 DEF LInv, Held, Known
  <1>3. DeviceSame
    BY <1>1, DeviceKept
  <1>4. \A s \in Todo(task) : s.do \in {"free", "map", "end"}
    BY <1>1 DEF LInv, Planned, StepsIn
  <1>5. \A i, k : Found(dev, Known, <<>>, i, k) = Found(dev, Known, task, i, k)
    BY <1>1 DEF Found, Pointer, Pends, Now
  <1>6. \A i, n : Sized(Known, task, i, n) => Sized(Known, <<>>, i, n)
    BY <1>4, NoSteps DEF Sized, InodePending
  <1>7. Promises(dev, Known, <<>>, goal)
    <2>1. PICK todo, store : todo = task /\ store = goal
      OBVIOUS
    <2>2. Promises(dev, Known, todo, store)
      BY <2>1 DEF AInv
    <2>3. \A s \in Todo(todo) \cup Todo(<<>>) : s.do \notin {"data", "cut"}
      BY <1>4, <2>1, NoSteps
    <2>4. Promises(dev, Known, <<>>, store)
      BY <1>5, <1>6, <2>1, <2>2, <2>3, LoopPasses
    <2> QED
      BY <2>1, <2>4
  <1> QED
    BY <1>1, <1>2, <1>3, <1>7, StaysAgree DEF DeviceStays

\* The steps of a call that are none to AtomicStore.
LEMMA RunningAgrees ==
    ASSUME LInv, AInv, ~overran', Running, ~RefusedRemoval
    PROVE  Agrees
  <1>1. PICK store : store = goal
    OBVIOUS
  <1>2. Promises(dev, Known, task, store)
    BY <1>1 DEF AInv
  <1>3. CASE WriteData
    BY <1>1, <1>2, <1>3, WriteDataPromise, StaysAgree DEF WriteData, Keeps
  <1>4. CASE WriteIndirect
    BY <1>1, <1>2, <1>4, WriteIndirectPromise, StaysAgree DEF WriteIndirect, Keeps
  <1>5. CASE CutBlock
    BY <1>1, <1>2, <1>5, CutBlockPromise, StaysAgree DEF CutBlock, Keeps
  <1>6. CASE WriteInode
    BY <1>1, <1>2, <1>6, WriteInodePromise, StaysAgree DEF WriteInode, Keeps
  <1>7. CASE MarkUnlinked
    BY <1>1, <1>2, <1>7, MarkUnlinkedPromise, StaysAgree DEF MarkUnlinked, history
  <1>8. CASE FreeInode
    BY <1>1, <1>2, <1>8, FreeInodePromise, StaysAgree DEF FreeInode, Keeps
  <1>9. CASE WriteSuperblock
    BY <1>1, <1>2, <1>9, WriteSuperblockPromise, StaysAgree DEF WriteSuperblock, history
  <1>10. CASE WriteMap
    BY <1>1, <1>2, <1>10, WriteMapPromise, StaysAgree DEF WriteMap, Keeps
  <1>11. CASE CleanSkip \/ CleanLoopEnds
    BY <1>1, <1>2, <1>11, LoopStays, StaysAgree DEF CleanSkip, CleanLoopEnds, history
  <1>12. CASE CleanMove
    BY <1>1, <1>2, <1>12, CleanMovePromise, StaysAgree DEF CleanMove
  <1>13. CASE FlushNext
    BY <1>1, <1>2, <1>13, FlushNextPromise, StaysAgree DEF FlushNext, history
  <1> QED
    BY <1>3, <1>4, <1>5, <1>6, <1>7, <1>8, <1>9, <1>10, <1>11, <1>12, <1>13,
       FinishAgrees, FailureAgrees, CloseNoSpaceAgrees DEF Running

-----------------------------------------------------------------------------
(* The calls that start *)

\* Between calls the store is what memory shows.
LEMMA IdlePromise ==
    ASSUME LInv, AInv, phase = "idle"
    PROVE  /\ task = <<>> /\ work = <<>> /\ Plain(dev, imap, Known) /\ Dir = DirOf(dev, Known)
           /\ goal = Durable /\ Durable = [n \in DOMAIN Durable |-> Durable[n]]
           /\ DOMAIN Durable = DOMAIN Dir
           /\ \A n \in DOMAIN Dir : Holds(dev, Known, <<>>, Dir[n], Durable[n])
  <1>1. task = <<>> /\ work = <<>>
    BY NoTask DEF LInv, Held
  <1>2. Plain(dev, imap, Known) /\ Dir = DirOf(dev, Known)
    BY <1>1, IdleKnown
  <1>3. PICK d, map, N, sum, store : /\ d = dev /\ map = imap /\ N = Known /\ sum = summary
                                     /\ store = goal
    OBVIOUS
  <1>4. Good(d, map, N, <<>>, sum) /\ Plain(d, map, N) /\ Promises(d, N, <<>>, store)
    BY <1>1, <1>2, <1>3, GoodNow DEF AInv
  <1>5. View(d, map) = store
    BY <1>4, PromisedView
  <1>6. View(dev, imap) = Durable
    BY ReadsMatch DEF ReadsMatchDevice
  <1>7. goal = Durable
    BY <1>3, <1>5, <1>6
  <1>8. /\ store = [n \in DOMAIN store |-> store[n]]
        /\ DOMAIN store = DOMAIN DirOf(d, N)
        /\ \A n \in DOMAIN DirOf(d, N) : Holds(d, N, <<>>, DirOf(d, N)[n], store[n])
    <2>1. PICK e : e = DirOf(d, N)
      OBVIOUS
    <2>2. Entered(d, N, <<>>, e)
      BY <2>1, NoSteps DEF Entered
    <2>3. DOMAIN store = DOMAIN e /\ \A n \in DOMAIN e : Holds(d, N, <<>>, e[n], store[n])
      BY <1>4, <2>2 DEF Promises
    <2> QED
      BY <1>4, <2>1, <2>3 DEF Promises
  <1> QED
    BY <1>1, <1>2, <1>3, <1>7, <1>8

\* A call starts with the inodes as they are.
LEMMA StartKnown ==
    ASSUME LInv, phase = "idle", UNCHANGED <<dev, imap>>,
           \A i \in DOMAIN work' \cap DOMAIN imap : work'[i] = ReadInode(i)
    PROVE  task = <<>> /\ Known' = Known
  <1>1. task = <<>> /\ work = <<>>
    BY NoTask DEF LInv, Held
  <1>2. Known = [ino \in DOMAIN imap |-> dev[imap[ino]]]
    BY <1>1, IdleKnown
  <1>3. Known' = [ino \in DOMAIN imap |-> IF ino \in DOMAIN work' THEN work'[ino] ELSE dev[imap[ino]]]
    BY DEF Known, Nodes
  <1>4. \A ino \in DOMAIN imap : ino \in DOMAIN work' => work'[ino] = dev[imap[ino]]
    BY DEF ReadInode
  <1> QED
    BY <1>1, <1>2, <1>3, <1>4

\* What a call is asked for is one of the results, and it is promised.
LEMMA StartAgrees ==
    ASSUME LInv, AInv, phase = "idle", UNCHANGED <<dev, sb, imap>>,
           \A i \in DOMAIN work' \cap DOMAIN imap : work'[i] = ReadInode(i),
           goal' \in Store!Results(Durable), Promises(dev, Known, task', goal')
    PROVE  Agrees
  <1>1. goal = Durable
    BY IdlePromise
  <1>2. Known' = Known
    BY StartKnown
  <1>3. DeviceStays
    BY DeviceKept DEF DeviceStays
  <1>4. PICK store : store = Durable
    OBVIOUS
  <1>5. Promises(dev, Stored, <<>>, store)
    BY <1>4 DEF AInv
  <1>6. Promises(dev', Stored', <<>>, store) /\ Durable' = store
    BY <1>3, <1>5, StoredPromise
  <1>7. Store!Start
    BY <1>1, <1>4, <1>6 DEF Store!Start
  <1>8. AInv'
    BY <1>2, <1>4, <1>6, Restate
  <1> QED
    BY <1>7, <1>8 DEF Agrees, Store!Next

\* The files a call does not touch.
LEMMA OtherFile ==
    ASSUME NEW d, NEW N, NEW todo, Settled(todo), NEW ino,
           \A s \in Todo(todo) : s.do \in {"data", "cut", "inode"} => s.ino # ino,
           NEW cells, Holds(d, N, <<>>, ino, cells)
    PROVE  Holds(d, N, todo, ino, cells)
  <1>1. ~InodePending(<<>>, ino) /\ ~InodePending(todo, ino)
    BY NoSteps DEF InodePending
  <1>2. Sized(N, todo, ino, Len(cells))
    BY <1>1, NoSteps DEF Holds, Sized
  <1>3. ASSUME NEW idx \in Idx
        PROVE  Reads(d, N, todo, ino, idx, Slice(cells, idx))
    <2>1. Slice(cells, idx) = Found(d, N, <<>>, ino, idx)
      BY NoSteps DEF Holds, Reads
    <2>2. Found(d, N, todo, ino, idx) = Found(d, N, <<>>, ino, idx)
      BY DEF Found, Pointer, Pends, Settled
    <2>3. \A s \in Todo(todo) : ~Touches(s, ino, idx)
      BY DEF Touches
    <2> QED
      BY <2>1, <2>2, <2>3 DEF Reads
  <1> QED
    BY <1>2, <1>3 DEF Holds

\* A cleaner that starts is to leave the store as it is.
LEMMA CleanAgrees ==
    ASSUME LInv, AInv, Clean
    PROVE  Agrees
  <1>1. phase = "idle" /\ task' = <<>> /\ work' = <<>> /\ goal' = Durable /\ UNCHANGED <<dev, sb, imap>>
    BY DEF Clean, Call, May
  <1>2. task = <<>> /\ goal = Durable
    BY <1>1, IdlePromise
  <1>3. Promises(dev, Known, task', goal')
    BY <1>1, <1>2 DEF AInv
  <1>4. goal' \in Store!Results(Durable)
    BY <1>1 DEF Store!Results
  <1> QED
    BY <1>1, <1>3, <1>4, StartAgrees

\* The inode that goes has no name.
LEMMA CloseLastAgrees ==
    ASSUME LInv, AInv, NEW fd \in Fds, CloseLast(fd)
    PROVE  Agrees
  <1>1. /\ phase = "idle" /\ work' = <<>> /\ goal' = Durable /\ UNCHANGED <<dev, sb, imap>>
        /\ task' = <<Step("free", open[fd]), MapStep, Step("end", NoIno)>>
    BY DEF CloseLast, Call, May
  <1>2. task = <<>> /\ goal = Durable
    BY <1>1, IdlePromise
  <1>3. PICK a, b, c : a = Step("free", open[fd]) /\ b = MapStep /\ c = Step("end", NoIno)
    OBVIOUS
  <1>4. a.do = "free" /\ b.do = "map" /\ c.do = "end"
    BY <1>3 DEF Step, MapStep
  <1>5. PICK todo2 : todo2 = task'
    OBVIOUS
  <1>6. Todo(todo2) = {a, b, c} /\ todo2 # <<>> /\ todo2[1] = a
    BY <1>1, <1>3, <1>5, ThreeSteps
  <1>7. PICK store : store = goal
    OBVIOUS
  <1>8. Promises(dev, Known, <<>>, store)
    BY <1>2, <1>7 DEF AInv
  <1>9. \A s \in Todo(<<>>) \cup Todo(todo2) : s.do \notin {"data", "cut"}
    BY <1>4, <1>6, NoSteps
  <1>10. \A i, k : k \in Idx => Found(dev, Known, todo2, i, k) = Found(dev, Known, <<>>, i, k)
    BY <1>4, <1>6 DEF Found, Pointer, Pends
  <1>11. \A i, n : Sized(Known, <<>>, i, n) => Sized(Known, todo2, i, n)
    BY <1>4, <1>6, NoSteps DEF Sized, InodePending
  <1>12. Promises(dev, Known, todo2, store)
    BY <1>8, <1>9, <1>10, <1>11, LoopPasses
  <1>13. goal' \in Store!Results(Durable)
    BY <1>1 DEF Store!Results
  <1>14. Promises(dev, Known, task', goal')
    BY <1>1, <1>2, <1>5, <1>7, <1>12
  <1> QED
    BY <1>1, <1>13, <1>14, StartAgrees

\* A call that writes the directory anew.
LEMMA NewDirectory ==
    ASSUME NEW d, NEW N, NEW todo, NEW a \in Todo(todo), IsDirStep(a), NEW e,
           \A s \in Todo(todo) : IsDirStep(s) => s.block.entries = e,
           NEW store, store = [n \in DOMAIN store |-> store[n]], DOMAIN store = DOMAIN e,
           \A n \in DOMAIN e : Holds(d, N, todo, e[n], store[n])
    PROVE  Promises(d, N, todo, store)
  <1>1. \A x : Entered(d, N, todo, x) => x = e
    BY DEF Entered
  <1> QED
    BY <1>1 DEF Promises

\* The steps of remove: the directory without the name, then what becomes of the inode.
Removing(n, dir, ino, E, todo, a, b) ==
    /\ dir = Dir /\ ino = dir[n] /\ E = [m \in DOMAIN dir \ {n} |-> dir[m]] /\ todo = task'
    /\ phase = "idle" /\ n \in DOMAIN dir
    /\ UNCHANGED <<dev, sb, imap, unlinked>>
    /\ work' = Loaded({Root, ino}) /\ goal' = Store!Remove(Durable, n)
    /\ ino \in DOMAIN imap \ {Root}
    /\ \A m \in DOMAIN E : E[m] # ino /\ E[m] # Root
    /\ a \in Todo(todo) /\ todo # <<>> /\ todo[1] = a
    /\ a.do = "data" /\ a.ino = Root /\ a.idx = 0 /\ a.block.entries = E
    /\ b.do = "inode" /\ b.ino = Root
    /\ \A s \in Todo(todo) : \/ s \in {a, b} \/ s.do \in {"map", "end"}
                             \/ s.do \in {"unlink", "inode", "free"} /\ s.ino = ino
    /\ \E s \in Todo(todo) : s.do \in {"unlink", "free"} /\ s.ino = ino

\* remove lays out these steps.
LEMMA RemoveTodo ==
    ASSUME LInv, NEW n, RemoveFile(n)
    PROVE  \E dir, ino, E, todo, a, b : Removing(n, dir, ino, E, todo, a, b)
  <1>0. PICK dir, ino, E, rest, last :
           /\ dir = Dir /\ ino = dir[n] /\ E = [m \in DOMAIN dir \ {n} |-> dir[m]]
           /\ last = <<MapStep, Step("end", NoIno)>>
           /\ rest = IF IsOpen(ino) THEN <<Step("unlink", ino), InodeStep(ino, ReadInode(ino).size)>>
                     ELSE <<Step("free", ino)>>
    OBVIOUS
  <1>2. /\ phase = "idle" /\ n \in DOMAIN dir
        /\ UNCHANGED <<dev, sb, imap, unlinked>>
        /\ work' = Loaded({Root, ino})
        /\ task' = DirSteps(E) \o rest \o last
        /\ goal' = Store!Remove(Durable, n)
    BY <1>0 DEF RemoveFile, Call, May
  <1>3. /\ EntriesFine(dir, DOMAIN imap) /\ DOMAIN imap \subseteq Nat \ {NoIno}
    BY <1>0, <1>2, DirNow
  <1>4. /\ ino \in DOMAIN imap \ {Root}
        /\ \A m \in DOMAIN E : E[m] # ino /\ E[m] # Root
    <2>1. PICK inos : inos = DOMAIN imap
      OBVIOUS
    <2>2. n \in DOMAIN dir /\ EntriesFine(dir, inos)
      BY <1>2, <1>3, <2>1
    <2>3. /\ EntriesFine(E, inos) /\ dir[n] \in inos \ {Root}
          /\ \A m \in DOMAIN E : E[m] # dir[n] /\ E[m] # Root /\ \E k \in DOMAIN dir : E[m] = dir[k]
      BY <1>0, <2>2, EntryGone
    <2> QED
      BY <1>0, <2>1, <2>3
  <1>5. ino \in Nat \ {NoIno} /\ ino # Root
    BY <1>3, <1>4
  <1>6. RestOf(ino, rest)
    BY <1>0, <1>5, RestIs
  <1>7. PICK a, b, d :
           /\ d = DirSteps(E) /\ d \in Seq(Todo(d)) /\ Ordered(d) /\ Todo(d) = {a, b}
           /\ Len(d) = 2 /\ d # <<>> /\ d[1] = a
           /\ a.do = "data" /\ a.ino = Root /\ a.idx = 0 /\ a.block = DirBlock(E)
           /\ a.block.entries = E
           /\ b.do = "inode" /\ b.ino = Root
    BY <1>2, <1>4, DirStepsAre
  <1>8. PICK q, r : q = MapStep /\ r = Step("end", NoIno)
    OBVIOUS
  <1>9. q.do = "map" /\ r.do = "end"
    BY <1>8 DEF MapStep, Step
  <1>10. PICK todo : todo = task' /\ todo = d \o rest \o last
    BY <1>2, <1>7
  <1>11. todo # <<>> /\ todo[1] = a /\ Todo(todo) = {a, b, q, r} \cup Todo(rest)
    <2>1. DirPart(d, a, b, ino)
      BY <1>4, <1>5, <1>7 DEF DirPart
    <2>2. Removal(todo, d, rest)
      BY <1>0, <1>10 DEF Removal
    <2>3. /\ todo # <<>> /\ todo[1] = a
          /\ Todo(todo) = {a, b, MapStep, Step("end", NoIno)} \cup Todo(rest)
      BY <1>6, <2>1, <2>2, RemoveOrdered
    <2> QED
      BY <1>8, <2>3
  <1>12. /\ \A s \in Todo(rest) : s.do \in {"unlink", "inode", "free"} /\ s.ino = ino
         /\ \E s \in Todo(rest) : s.do \in {"unlink", "free"}
    <2>1. CASE IsOpen(ino)
      <3>1. PICK u, v : u = Step("unlink", ino) /\ v = InodeStep(ino, ReadInode(ino).size)
        OBVIOUS
      <3>2. rest = <<u, v>>
        BY <1>0, <2>1, <3>1
      <3>3. Todo(rest) = {u, v}
        BY <3>2, TwoSteps
      <3> QED
        BY <3>1, <3>3 DEF Step, InodeStep
    <2>2. CASE ~IsOpen(ino)
      <3>1. PICK u : u = Step("free", ino)
        OBVIOUS
      <3>2. Todo(rest) = {u}
        BY <1>0, <2>2, <3>1, OneStep
      <3> QED
        BY <3>1, <3>2 DEF Step
    <2> QED
      BY <2>1, <2>2
  <1>13. \A s \in Todo(todo) : \/ s \in {a, b} \/ s.do \in {"map", "end"}
                               \/ s.do \in {"unlink", "inode", "free"} /\ s.ino = ino
    BY <1>9, <1>11, <1>12
  <1>14. \E s \in Todo(todo) : s.do \in {"unlink", "free"} /\ s.ino = ino
    BY <1>11, <1>12
  <1>15. a \in Todo(todo)
    BY <1>11
  <1>16. Removing(n, dir, ino, E, todo, a, b)
    BY <1>0, <1>2, <1>4, <1>7, <1>10, <1>11, <1>13, <1>14, <1>15 DEF Removing
  <1> QED
    BY <1>16

\* remove: the steps that are left touch the directory and the file that goes.
LEMMA RemoveFileAgrees ==
    ASSUME LInv, AInv, NEW n, RemoveFile(n)
    PROVE  Agrees
  <1>0. PICK store : store = Durable
    OBVIOUS
  <1>1. PICK dir, ino, E, todo, a, b : Removing(n, dir, ino, E, todo, a, b)
    BY RemoveTodo
  <1>2. /\ dir = Dir /\ ino = dir[n] /\ E = [m \in DOMAIN dir \ {n} |-> dir[m]] /\ todo = task'
        /\ phase = "idle" /\ n \in DOMAIN dir
        /\ UNCHANGED <<dev, sb, imap>>
        /\ work' = Loaded({Root, ino}) /\ goal' = Store!Remove(store, n)
        /\ \A m \in DOMAIN E : E[m] # ino /\ E[m] # Root
        /\ a \in Todo(todo) /\ todo # <<>> /\ todo[1] = a
        /\ a.do = "data" /\ a.ino = Root /\ a.idx = 0 /\ a.block.entries = E
        /\ b.do = "inode" /\ b.ino = Root
        /\ \A s \in Todo(todo) : \/ s \in {a, b} \/ s.do \in {"map", "end"}
                                 \/ s.do \in {"unlink", "inode", "free"} /\ s.ino = ino
    BY <1>0, <1>1 DEF Removing
  <1>3. PICK dd, N : dd = dev /\ N = Known
    OBVIOUS
  <1>4. /\ store = [m \in DOMAIN store |-> store[m]] /\ DOMAIN store = DOMAIN dir
         /\ \A m \in DOMAIN dir : Holds(dd, N, <<>>, dir[m], store[m])
    BY <1>0, <1>2, <1>3, IdlePromise
  <1>5. PICK store2 : store2 = [m \in DOMAIN store \ {n} |-> store[m]]
    OBVIOUS
  <1>6. goal' = store2
    BY <1>2, <1>5 DEF Store!Remove
  <1>7. \A m \in DOMAIN E : Holds(dd, N, todo, E[m], store2[m])
    <2>1. TAKE m \in DOMAIN E
    <2>2. PICK x, cells : x = E[m] /\ cells = store[m]
      OBVIOUS
    <2>3. m \in DOMAIN dir /\ x = dir[m] /\ store2[m] = cells
      BY <1>2, <1>4, <1>5, <2>2
    <2>4. Holds(dd, N, <<>>, x, cells)
      BY <1>4, <2>2, <2>3
    <2>5. \A s \in Todo(todo) : s.do \in {"data", "cut", "inode"} => s.ino # x
      BY <1>2, <2>2 DEF IsDirStep
    <2>6. Settled(todo)
      BY <1>2 DEF Settled, IsDirStep
    <2>7. Holds(dd, N, todo, x, cells)
      BY <2>4, <2>5, <2>6, OtherFile
    <2> QED
      BY <2>2, <2>3, <2>7
  <1>8. Promises(dd, N, todo, store2)
    <2>1. a \in Todo(todo) /\ IsDirStep(a)
      BY <1>2 DEF IsDirStep
    <2>2. \A s \in Todo(todo) : IsDirStep(s) => s.block.entries = E
      BY <1>2 DEF IsDirStep
    <2>3. DOMAIN store2 = DOMAIN E /\ store2 = [m \in DOMAIN store2 |-> store2[m]]
      BY <1>2, <1>4, <1>5
    <2> QED
      BY <1>7, <2>1, <2>2, <2>3, NewDirectory
  <1>9. goal' \in Store!Results(Durable)
    BY <1>0, <1>2, <1>4 DEF Store!Results
  <1>10. \A i \in DOMAIN work' \cap DOMAIN imap : work'[i] = ReadInode(i)
    BY <1>2 DEF Loaded
  <1> QED
    BY <1>2, <1>3, <1>6, <1>8, <1>9, <1>10, StartAgrees

\* A file that was never written.
LEMMA EmptyFile ==
    ASSUME NEW d, NEW N, NEW todo, NEW ino, ino \notin DOMAIN N,
           \A s \in Todo(todo) : s.do \in {"data", "cut"} => s.ino # ino,
           NEW x \in Todo(todo), x.do = "inode", x.ino = ino,
           \A s \in Todo(todo) : s.do = "inode" /\ s.ino = ino => s.size = 0
    PROVE  Holds(d, N, todo, ino, <<>>)
  <1>1. IsText(<<>>) /\ Len(<<>>) = 0
    <2>1. <<>> = [k \in 1 .. 0 |-> <<>>[k]] /\ Len(<<>>) = 0 /\ 0 \in Nat
      OBVIOUS
    <2> QED
      BY <2>1 DEF IsText
  <1>2. Sized(N, todo, ino, 0)
    BY DEF Sized, InodePending
  <1>3. ASSUME NEW idx \in Idx
        PROVE  Reads(d, N, todo, ino, idx, Slice(<<>>, idx))
    <2>1. Slice(<<>>, idx) = Fill(Zero)
      <3>1. idx * CellsPerBlock \in Nat
        BY Sizes
      <3>2. \A k \in Offsets : ~(idx * CellsPerBlock + k < 0)
        BY <3>1, Sizes DEF Offsets
      <3> QED
        BY <1>1, <3>2 DEF Slice, Fill
    <2>2. Found(d, N, todo, ino, idx) = Fill(Zero)
      BY DEF Found
    <2>3. \A s \in Todo(todo) : ~Touches(s, ino, idx)
      BY DEF Touches
    <2> QED
      BY <2>1, <2>2, <2>3 DEF Reads
  <1> QED
    BY <1>1, <1>2, <1>3 DEF Holds

\* The steps of open_file on a new name: the inode, then the directory that leads to it.
Creating(n, ino, dir, E, todo, a, b, x) ==
    /\ ino = super.next /\ dir = Dir /\ todo = task'
    /\ phase = "idle" /\ n \notin DOMAIN dir
    /\ UNCHANGED <<dev, sb, imap, unlinked>>
    /\ work' = [i \in {Root, ino} |-> IF i = ino THEN NewInode(ino) ELSE ReadInode(Root)]
    /\ goal' = Store!Create(Durable, n)
    /\ ino \notin DOMAIN imap /\ ino # Root
    /\ \A m \in DOMAIN dir : dir[m] \in DOMAIN imap \ {Root} /\ dir[m] # ino /\ E[m] = dir[m]
    /\ DOMAIN E = DOMAIN dir \cup {n} /\ E[n] = ino
    /\ todo # <<>> /\ todo[1] = x /\ {a, b, x} \subseteq Todo(todo)
    /\ x.do = "inode" /\ x.ino = ino /\ x.size = 0
    /\ a.do = "data" /\ a.ino = Root /\ a.idx = 0 /\ a.block.entries = E
    /\ b.do = "inode" /\ b.ino = Root
    /\ \A s \in Todo(todo) : s \in {a, b, x} \/ s.do \in {"superblock", "map", "end"}

\* open_file lays out these steps.
LEMMA OpenNewTodo ==
    ASSUME LInv, NEW n, OpenNew(n)
    PROVE  \E ino, dir, E, todo, a, b, x : Creating(n, ino, dir, E, todo, a, b, x)
  <1>0. PICK ino, dir : ino = super.next /\ dir = Dir
    OBVIOUS
  <1>1. PICK E : E = [m \in DOMAIN dir \cup {n} |-> IF m = n THEN ino ELSE dir[m]]
    OBVIOUS
  <1>2. /\ phase = "idle" /\ n \notin DOMAIN dir
        /\ UNCHANGED <<dev, sb, imap, unlinked>>
        /\ work' = [i \in {Root, ino} |-> IF i = ino THEN NewInode(ino) ELSE ReadInode(Root)]
        /\ task' = <<InodeStep(ino, 0)>> \o DirSteps(E)
                      \o <<Step("superblock", NoIno), MapStep, Step("end", ino)>>
        /\ goal' = Store!Create(Durable, n)
    BY <1>0, <1>1 DEF OpenNew, Call, May
  <1>3. /\ EntriesFine(dir, DOMAIN imap) /\ DOMAIN imap \subseteq Nat \ {NoIno}
        /\ \A i \in DOMAIN imap : i < ino
        /\ ino \in Nat /\ Root < ino
    BY <1>0, <1>2, DirNow
  <1>4. ino \notin DOMAIN imap /\ ino # Root
    BY <1>3 DEF Root
  <1>5. /\ \A m \in DOMAIN dir : dir[m] \in DOMAIN imap \ {Root} /\ dir[m] # ino /\ E[m] = dir[m]
        /\ DOMAIN E = DOMAIN dir \cup {n} /\ E[n] = ino /\ \A m \in DOMAIN E : E[m] # Root
    BY <1>1, <1>2, <1>3, <1>4 DEF EntriesFine
  <1>6. PICK a, b, d :
           /\ d = DirSteps(E) /\ d \in Seq(Todo(d)) /\ Ordered(d) /\ Todo(d) = {a, b}
           /\ Len(d) = 2 /\ d # <<>> /\ d[1] = a
           /\ a.do = "data" /\ a.ino = Root /\ a.idx = 0 /\ a.block = DirBlock(E)
           /\ a.block.entries = E
           /\ b.do = "inode" /\ b.ino = Root
    <2>1. \A m \in DOMAIN E : E[m] # Root
      BY <1>5
    <2> QED
      BY <1>2, <2>1, DirStepsAre
  <1>7. PICK x, p, q, r : /\ x = InodeStep(ino, 0) /\ p = Step("superblock", NoIno) /\ q = MapStep
                          /\ r = Step("end", ino)
    OBVIOUS
  <1>8. /\ x.do = "inode" /\ x.ino = ino /\ x.size = 0 /\ p.do = "superblock"
        /\ q.do = "map" /\ r.do = "end"
    BY <1>7 DEF InodeStep, Step, MapStep
  <1>9. PICK u, v, z : u = <<x>> /\ v = <<p, q, r>> /\ z = u \o d
    OBVIOUS
  <1>10. PICK todo : todo = task' /\ todo = z \o v
    BY <1>2, <1>6, <1>7, <1>9
  <1>11. u \in Seq(Todo(u)) /\ Todo(u) = {x} /\ u # <<>> /\ u[1] = x
    BY <1>9, OneStep
  <1>12. v \in Seq(Todo(v)) /\ Todo(v) = {p, q, r}
    BY <1>9, ThreeSteps
  <1>13. z \in Seq(Todo(z)) /\ Todo(z) = {x, a, b} /\ z # <<>> /\ z[1] = x
    <2>1. /\ z \in Seq(Todo(z)) /\ Todo(z) = Todo(u) \cup Todo(d) /\ z # <<>> /\ z[1] = u[1]
      BY <1>6, <1>9, <1>11, ConcatTodo
    <2> QED
      BY <1>6, <1>11, <2>1
  <1>14. Todo(todo) = {x, a, b, p, q, r} /\ todo # <<>> /\ todo[1] = x
    <2>1. Todo(todo) = Todo(z) \cup Todo(v) /\ todo # <<>> /\ todo[1] = z[1]
      BY <1>10, <1>12, <1>13, ConcatTodo
    <2> QED
      BY <1>12, <1>13, <2>1
  <1>15. /\ {a, b, x} \subseteq Todo(todo)
         /\ \A s \in Todo(todo) : s \in {a, b, x} \/ s.do \in {"superblock", "map", "end"}
    BY <1>8, <1>14
  <1>16. Creating(n, ino, dir, E, todo, a, b, x)
    BY <1>0, <1>2, <1>4, <1>5, <1>6, <1>8, <1>10, <1>14, <1>15 DEF Creating
  <1> QED
    BY <1>16

\* create_file_in_dir: a name more, and an empty file under it.
LEMMA OpenNewAgrees ==
    ASSUME LInv, AInv, NEW n \in Names, OpenNew(n)
    PROVE  Agrees
  <1>0. PICK store : store = Durable
    OBVIOUS
  <1>1. PICK ino, dir, E, todo, a, b, x : Creating(n, ino, dir, E, todo, a, b, x)
    BY OpenNewTodo
  <1>2. /\ ino = super.next /\ dir = Dir /\ todo = task'
        /\ phase = "idle" /\ n \notin DOMAIN dir
        /\ UNCHANGED <<dev, sb, imap, unlinked>>
        /\ work' = [i \in {Root, ino} |-> IF i = ino THEN NewInode(ino) ELSE ReadInode(Root)]
        /\ goal' = Store!Create(store, n)
        /\ ino \notin DOMAIN imap /\ ino # Root
        /\ \A m \in DOMAIN dir : dir[m] \in DOMAIN imap \ {Root} /\ dir[m] # ino /\ E[m] = dir[m]
        /\ DOMAIN E = DOMAIN dir \cup {n} /\ E[n] = ino
        /\ todo # <<>> /\ todo[1] = x /\ {a, b, x} \subseteq Todo(todo)
        /\ x.do = "inode" /\ x.ino = ino /\ x.size = 0
        /\ a.do = "data" /\ a.ino = Root /\ a.idx = 0 /\ a.block.entries = E
        /\ b.do = "inode" /\ b.ino = Root
        /\ \A s \in Todo(todo) : s \in {a, b, x} \/ s.do \in {"superblock", "map", "end"}
    BY <1>0, <1>1 DEF Creating
  <1>3. PICK dd, N : dd = dev /\ N = Known
    OBVIOUS
  <1>4. /\ store = [m \in DOMAIN store |-> store[m]] /\ DOMAIN store = DOMAIN dir
         /\ \A m \in DOMAIN dir : Holds(dd, N, <<>>, dir[m], store[m])
    BY <1>0, <1>2, <1>3, IdlePromise
  <1>5. PICK store2 : store2 = [m \in DOMAIN store \cup {n} |-> IF m \in DOMAIN store THEN store[m]
                                                                  ELSE <<>>]
    OBVIOUS
  <1>6. goal' = store2
    BY <1>2, <1>5 DEF Store!Create
  <1>7. \A m \in DOMAIN dir : Holds(dd, N, todo, E[m], store2[m])
    <2>1. TAKE m \in DOMAIN dir
    <2>2. PICK y, cells : y = dir[m] /\ cells = store[m]
      OBVIOUS
    <2>3. E[m] = y /\ store2[m] = cells
      BY <1>2, <1>4, <1>5, <2>2
    <2>4. Holds(dd, N, <<>>, y, cells)
      BY <1>4, <2>2
    <2>5. \A s \in Todo(todo) : s.do \in {"data", "cut", "inode"} => s.ino # y
      BY <1>2, <2>2
    <2>6. Settled(todo)
      BY <1>2 DEF Settled
    <2>7. Holds(dd, N, todo, y, cells)
      BY <2>4, <2>5, <2>6, OtherFile
    <2> QED
      BY <2>3, <2>7
  <1>8. Holds(dd, N, todo, E[n], store2[n])
    <2>1. E[n] = ino /\ store2[n] = <<>>
      BY <1>2, <1>4, <1>5
    <2>2. ino \notin DOMAIN N
      BY <1>2, <1>3, KnownIs
    <2>3. x \in Todo(todo) /\ \A s \in Todo(todo) : s.do = "inode" /\ s.ino = ino => s.size = 0
      BY <1>2
    <2>4. \A s \in Todo(todo) : s.do \in {"data", "cut"} => s.ino # ino
      BY <1>2
    <2>5. Holds(dd, N, todo, ino, <<>>)
      BY <1>2, <2>2, <2>3, <2>4, EmptyFile
    <2> QED
      BY <2>1, <2>5
  <1>9. Promises(dd, N, todo, store2)
    <2>1. a \in Todo(todo) /\ IsDirStep(a)
      BY <1>2 DEF IsDirStep
    <2>2. \A s \in Todo(todo) : IsDirStep(s) => s.block.entries = E
      BY <1>2 DEF IsDirStep
    <2>3. DOMAIN store2 = DOMAIN E /\ store2 = [m \in DOMAIN store2 |-> store2[m]]
      BY <1>2, <1>4, <1>5
    <2>4. \A m \in DOMAIN E : Holds(dd, N, todo, E[m], store2[m])
      BY <1>2, <1>7, <1>8
    <2> QED
      BY <2>1, <2>2, <2>3, <2>4, NewDirectory
  <1>10. goal' \in Store!Results(Durable)
    BY <1>0, <1>2 DEF Store!Results
  <1>11. \A i \in DOMAIN work' \cap DOMAIN imap : work'[i] = ReadInode(i)
    BY <1>2
  <1> QED
    BY <1>2, <1>3, <1>6, <1>9, <1>10, <1>11, StartAgrees

-----------------------------------------------------------------------------
(* What write and truncate make of a file *)

\* A block of a file is told by its cells.
LEMMA SliceIs ==
    ASSUME NEW x, NEW idx, NEW c, c = [k \in Offsets |-> c[k]],
           \A k \in Offsets : Slice(x, idx)[k] = c[k]
    PROVE  Slice(x, idx) = c
  BY DEF Slice

\* A block of a file and a block of zeros are functions on the offsets.
LEMMA SliceRange ==
    ASSUME NEW x, NEW idx
    PROVE  /\ Slice(x, idx) = [k \in Offsets |-> Slice(x, idx)[k]]
           /\ Fill(Zero) = [k \in Offsets |-> Fill(Zero)[k]]
           /\ \A k \in Offsets : Fill(Zero)[k] = Zero
  BY DEF Slice, Fill

\* A block after write: the new data where it is, the old cells elsewhere.
LEMMA OverwriteSlice ==
    ASSUME NEW cells, Len(cells) \in Nat, NEW pos \in Nat, NEW data, Len(data) \in Nat,
           NEW end, end = pos + Len(data), NEW size, size = IF end > Len(cells) THEN end ELSE Len(cells),
           NEW new, new = Store!Overwrite(cells, pos, data)
    PROVE  /\ IsText(new) /\ Len(new) = size
           /\ \A idx \in Idx, k \in Offsets :
                 Slice(new, idx)[k] =
                    LET at == idx * CellsPerBlock + k
                    IN  IF at >= pos /\ at < end THEN data[at - pos + 1] ELSE Slice(cells, idx)[k]
  <1>1. PICK n : n = Len(cells) /\ n \in Nat
    OBVIOUS
  <1>2. size \in Nat /\ end \in Nat /\ size = IF end > n THEN end ELSE n
    BY <1>1
  <1>3. new = [j \in 1 .. size |-> IF j > pos /\ j <= end THEN data[j - pos]
                                   ELSE IF j <= n THEN cells[j] ELSE Zero]
    BY <1>1 DEF Store!Overwrite, Store!Resize
  <1>4. IsText(new) /\ Len(new) = size
    BY <1>2, <1>3, TextIs
  <1>5. ASSUME NEW idx \in Idx, NEW k \in Offsets
        PROVE  Slice(new, idx)[k] =
                  LET at == idx * CellsPerBlock + k
                  IN  IF at >= pos /\ at < end THEN data[at - pos + 1] ELSE Slice(cells, idx)[k]
    <2>1. PICK at : at = idx * CellsPerBlock + k
      OBVIOUS
    <2>2. at \in Nat
      <3>1. idx * CellsPerBlock \in Nat
        BY Sizes
      <3> QED
        BY <2>1, <3>1, Sizes DEF Offsets
    <2>3. /\ Slice(new, idx)[k] = IF at < size THEN new[at + 1] ELSE Zero
          /\ Slice(cells, idx)[k] = IF at < n THEN cells[at + 1] ELSE Zero
      BY <1>1, <1>4, <2>1 DEF Slice
    <2>4. at < size => new[at + 1] = IF at >= pos /\ at < end THEN data[at - pos + 1]
                                     ELSE IF at < n THEN cells[at + 1] ELSE Zero
      <3>1. ASSUME at < size
            PROVE  new[at + 1] = IF at + 1 > pos /\ at + 1 <= end THEN data[(at + 1) - pos]
                                 ELSE IF at + 1 <= n THEN cells[at + 1] ELSE Zero
        <4>1. at + 1 \in 1 .. size
          BY <1>2, <2>2, <3>1
        <4> QED
          BY <1>3, <4>1
      <3>2. (at + 1) - pos = at - pos + 1
        BY <2>2
      <3>3. /\ at + 1 > pos <=> at >= pos
            /\ at + 1 <= end <=> at < end
            /\ at + 1 <= n <=> at < n
        BY <1>1, <1>2, <2>2
      <3> QED
        BY <3>1, <3>2, <3>3
    <2>5. Slice(new, idx)[k] = IF at >= pos /\ at < end THEN data[at - pos + 1]
                               ELSE Slice(cells, idx)[k]
      <3>1. CASE at < size
        BY <2>3, <2>4, <3>1
      <3>2. CASE ~(at < size)
        <4>1. ~(at < end) /\ ~(at < n)
          BY <1>1, <1>2, <2>2, <3>2
        <4> QED
          BY <2>3, <3>2, <4>1
      <3> QED
        BY <3>1, <3>2
    <2> QED
      BY <2>1, <2>5
  <1> QED
    BY <1>4, <1>5

\* A block after truncate: the old cells below the new end.
LEMMA ResizeSlice ==
    ASSUME NEW cells, Len(cells) \in Nat, NEW size \in Nat, NEW new, new = Store!Resize(cells, size)
    PROVE  /\ IsText(new) /\ Len(new) = size
           /\ \A idx \in Idx, k \in Offsets :
                 Slice(new, idx)[k] =
                    IF idx * CellsPerBlock + k < size THEN Slice(cells, idx)[k] ELSE Zero
  <1>1. PICK n : n = Len(cells) /\ n \in Nat
    OBVIOUS
  <1>2. new = [j \in 1 .. size |-> IF j <= n THEN cells[j] ELSE Zero]
    BY <1>1 DEF Store!Resize
  <1>3. IsText(new) /\ Len(new) = size
    BY <1>2, TextIs
  <1>4. ASSUME NEW idx \in Idx, NEW k \in Offsets
        PROVE  Slice(new, idx)[k] =
                  IF idx * CellsPerBlock + k < size THEN Slice(cells, idx)[k] ELSE Zero
    <2>1. PICK at : at = idx * CellsPerBlock + k
      OBVIOUS
    <2>2. at \in Nat
      <3>1. idx * CellsPerBlock \in Nat
        BY Sizes
      <3> QED
        BY <2>1, <3>1, Sizes DEF Offsets
    <2>3. /\ Slice(new, idx)[k] = IF at < size THEN new[at + 1] ELSE Zero
          /\ Slice(cells, idx)[k] = IF at < n THEN cells[at + 1] ELSE Zero
      BY <1>1, <1>3, <2>1 DEF Slice
    <2>4. at < size => new[at + 1] = IF at < n THEN cells[at + 1] ELSE Zero
      <3>1. at < size => at + 1 \in 1 .. size
        BY <2>2
      <3>2. at + 1 <= n <=> at < n
        BY <1>1, <2>2
      <3> QED
        BY <1>2, <3>1, <3>2
    <2> QED
      BY <2>1, <2>3, <2>4
  <1> QED
    BY <1>3, <1>4

\* The plan of write and truncate, as far as files are concerned.
FileTodo(todo, ino, size, steps) ==
    /\ todo = steps \o <<InodeStep(ino, size), MapStep, Step("end", NoIno)>>
    /\ steps \in Seq(Todo(steps))
    /\ \A s \in Todo(steps) : s.do \in {"data", "cut"} /\ s.ino = ino

\* The steps of write and truncate: blocks of one file, then its inode and the map.
LEMMA FileTodoIs ==
    ASSUME NEW todo, NEW ino, NEW size, NEW steps, FileTodo(todo, ino, size, steps)
    PROVE  /\ Settled(todo)
           /\ \A s \in Todo(todo) :
                 \/ s \in Todo(steps)
                 \/ s.do = "inode" /\ s.ino = ino /\ s.size = size
                 \/ s.do \in {"map", "end"}
           /\ Todo(steps) \subseteq Todo(todo)
           /\ InodePending(todo, ino)
  <1>1. PICK last : last = <<InodeStep(ino, size), MapStep, Step("end", NoIno)>>
    OBVIOUS
  <1>2. /\ last \in Seq(Todo(last))
        /\ Todo(last) = {InodeStep(ino, size), MapStep, Step("end", NoIno)}
        /\ InodeStep(ino, size).do = "inode" /\ InodeStep(ino, size).ino = ino
        /\ InodeStep(ino, size).size = size
        /\ MapStep.do = "map" /\ Step("end", NoIno).do = "end"
    BY <1>1, InodeMapEnd
  <1>3. todo = steps \o last /\ steps \in Seq(Todo(steps))
    BY <1>1 DEF FileTodo
  <1>4. todo \in Seq(Todo(todo)) /\ Todo(todo) = Todo(steps) \cup Todo(last)
    BY <1>2, <1>3, ConcatTodo
  <1>5. \A s \in Todo(todo) :
           \/ s \in Todo(steps) /\ s.do \in {"data", "cut"}
           \/ s.do = "inode" /\ s.ino = ino /\ s.size = size
           \/ s.do \in {"map", "end"}
    BY <1>2, <1>4 DEF FileTodo
  <1>6. Settled(todo)
    <2>1. todo # <<>> => todo[1] \in Todo(todo)
      BY <1>4, TailTodo
    <2> QED
      BY <1>5, <2>1 DEF Settled
  <1>7. InodePending(todo, ino)
    BY <1>2, <1>4 DEF InodePending
  <1> QED
    BY <1>4, <1>5, <1>6, <1>7

\* The steps make of block idx of a file what it is in `new'.
Rewrites(steps, cells, new, idx) ==
    /\ \A s \in Todo(steps) : s.idx = idx
          => Slice(new, idx) = IF s.do = "data" THEN CellsAt(s.block) ELSE Fill(Zero)
    /\ (\A s \in Todo(steps) : s.idx # idx) => Slice(new, idx) = Slice(cells, idx)

\* A file after the steps on its blocks.
LEMMA ChangedFile ==
    ASSUME NEW d, NEW N, NEW ino, NEW cells, Holds(d, N, <<>>, ino, cells),
           NEW new, IsText(new), NEW todo, NEW size, size = Len(new), NEW steps,
           FileTodo(todo, ino, size, steps),
           \A idx \in Idx : Rewrites(steps, cells, new, idx)
    PROVE  Holds(d, N, todo, ino, new)
  <1>1. /\ Settled(todo)
        /\ \A s \in Todo(todo) :
              \/ s \in Todo(steps)
              \/ s.do = "inode" /\ s.ino = ino /\ s.size = size
              \/ s.do \in {"map", "end"}
        /\ Todo(steps) \subseteq Todo(todo)
        /\ InodePending(todo, ino)
    BY FileTodoIs
  <1>2. \A s \in Todo(steps) : s.do \in {"data", "cut"} /\ s.ino = ino
    BY DEF FileTodo
  <1>3. Sized(N, todo, ino, Len(new))
    BY <1>1, <1>2 DEF Sized
  <1>4. ASSUME NEW idx \in Idx
        PROVE  Reads(d, N, todo, ino, idx, Slice(new, idx))
    <2>1. \A s \in Todo(todo) : Touches(s, ino, idx) => s \in Todo(steps) /\ s.idx = idx
      BY <1>1 DEF Touches
    <2>2. \A s \in Todo(steps) : s.idx = idx => Touches(s, ino, idx) /\ s \in Todo(todo)
      BY <1>1, <1>2 DEF Touches
    <2>3. Slice(cells, idx) = Found(d, N, <<>>, ino, idx)
      BY NoSteps DEF Holds, Reads
    <2>4. Found(d, N, todo, ino, idx) = Found(d, N, <<>>, ino, idx)
      BY <1>1 DEF Found, Pointer, Pends, Settled
    <2> QED
      BY <2>1, <2>2, <2>3, <2>4 DEF Reads, Rewrites
  <1> QED
    BY <1>3, <1>4 DEF Holds

OnlyFile(store, store2, ino, todo) ==
    /\ DOMAIN store2 = DOMAIN store /\ store2 = [n \in DOMAIN store2 |-> store2[n]]
    /\ \A n \in DOMAIN Dir : Dir[n] # ino => store2[n] = store[n]
    /\ \A n \in DOMAIN Dir : Dir[n] = ino => Holds(dev, Known, todo, ino, store2[n])

\* A call on a file: nothing but the file changes, and that as the steps say.
LEMMA FileCallAgrees ==
    ASSUME LInv, AInv, phase = "idle", UNCHANGED <<dev, sb, imap>>,
           NEW ino, work' = Loaded({ino}), ino # Root,
           NEW todo, todo = task', NEW size, NEW steps, FileTodo(todo, ino, size, steps),
           NEW store, store = Durable, NEW store2, store2 = goal',
           goal' \in Store!Results(Durable), OnlyFile(store, store2, ino, todo)
    PROVE  Agrees
  <1>1. PICK d, N, dir : d = dev /\ N = Known /\ dir = Dir
    OBVIOUS
  <1>2. /\ DOMAIN store = DOMAIN dir /\ dir = DirOf(d, N)
        /\ \A n \in DOMAIN dir : Holds(d, N, <<>>, dir[n], store[n])
    BY <1>1, IdlePromise
  <1>3. /\ Settled(todo)
        /\ \A s \in Todo(todo) :
              \/ s \in Todo(steps)
              \/ s.do = "inode" /\ s.ino = ino /\ s.size = size
              \/ s.do \in {"map", "end"}
    BY FileTodoIs
  <1>4. \A s \in Todo(todo) : s.do \in {"data", "cut", "inode"} => s.ino = ino
    BY <1>3 DEF FileTodo
  <1>5. \A n \in DOMAIN dir : Holds(d, N, todo, dir[n], store2[n])
    <2>1. TAKE n \in DOMAIN dir
    <2>2. PICK x, cells : x = dir[n] /\ cells = store[n]
      OBVIOUS
    <2>3. CASE x = ino
      BY <1>1, <2>2, <2>3 DEF OnlyFile
    <2>4. CASE x # ino
      <3>1. Holds(d, N, <<>>, x, cells) /\ store2[n] = cells
        BY <1>1, <1>2, <2>2, <2>4 DEF OnlyFile
      <3>2. \A s \in Todo(todo) : s.do \in {"data", "cut", "inode"} => s.ino # x
        BY <1>4, <2>4
      <3>3. Holds(d, N, todo, x, cells)
        BY <1>3, <3>1, <3>2, OtherFile
      <3> QED
        BY <2>2, <3>1, <3>3
    <2> QED
      BY <2>3, <2>4
  <1>6. \A e : Entered(d, N, todo, e) => e = dir
    BY <1>2, <1>4 DEF Entered, IsDirStep
  <1>7. Promises(d, N, todo, store2)
    BY <1>2, <1>5, <1>6 DEF Promises, OnlyFile
  <1>8. \A i \in DOMAIN work' \cap DOMAIN imap : work'[i] = ReadInode(i)
    BY DEF Loaded
  <1> QED
    BY <1>1, <1>7, <1>8, StartAgrees

\* What write and truncate read of a block is what a reopen would show of it.
LEMMA CellsRead ==
    ASSUME NEW d, NEW inode, NEW idx
    PROVE  CellsOf(d, inode, idx) = ReadAt(d, GetBlockAddr(d, inode, idx))
  BY DEF CellsOf, ReadAt, CellsAt, Fill, Offsets

\* The file a descriptor has, where it has a name.
NameIs(ino, n) ==
    /\ n \in DOMAIN Dir /\ Dir[n] = ino
    /\ \A m \in DOMAIN Dir : Dir[m] = ino => m = n

\* What its inode says, and what is read through it.
FileReads(inode, cells) ==
    /\ Len(cells) \in Nat /\ inode.size = Len(cells)
    /\ \A idx \in Idx :
          /\ CellsOf(dev, inode, idx) = Slice(cells, idx)
          /\ GetBlockAddr(dev, inode, idx) = NoBlock => Slice(cells, idx) = Fill(Zero)

\* With no steps left, a file reads the cells it is to hold.
LEMMA HeldReads ==
    ASSUME NEW N, NEW ino, NEW cells, Holds(dev, N, <<>>, ino, cells)
    PROVE  FileReads(N[ino], cells)
  <1>1. PICK d : d = dev
    OBVIOUS
  <1>2. Holds(d, N, <<>>, ino, cells)
    BY <1>1
  <1>3. N[ino].size = Len(cells) /\ Len(cells) \in Nat
    BY <1>2, Settles
  <1>4. \A idx \in Idx : ReadAt(d, GetBlockAddr(d, N[ino], idx)) = Slice(cells, idx)
    BY <1>2, Settles
  <1>5. \A idx \in Idx :
           /\ CellsOf(d, N[ino], idx) = Slice(cells, idx)
           /\ GetBlockAddr(d, N[ino], idx) = NoBlock => Slice(cells, idx) = Fill(Zero)
    BY <1>4, CellsRead DEF ReadAt
  <1> QED
    BY <1>1, <1>3, <1>5 DEF FileReads

\* An open file with a name has one name, and reads what the device has under it.
LEMMA NamedFile ==
    ASSUME LInv, AInv, phase = "idle", NEW fd \in Fds, NEW ino, ino = open[fd], ino # NoIno,
           NEW n \in NameOf(ino), NEW cells, cells = Durable[n]
    PROVE  NameIs(ino, n) /\ Holds(dev, Known, <<>>, ino, cells) /\ FileReads(ReadInode(ino), cells)
  <1>1. n \in DOMAIN Dir /\ Dir[n] = ino
    BY DEF NameOf
  <1>2. \A m \in DOMAIN Dir : Dir[m] = ino => m = n
    BY <1>1, DirNow DEF EntriesFine
  <1>3. Holds(dev, Known, <<>>, ino, cells)
    BY <1>1, IdlePromise
  <1>4. Known[ino] = ReadInode(ino)
    BY OpenNow
  <1>5. FileReads(ReadInode(ino), cells)
    <2>1. PICK N : N = Known
      OBVIOUS
    <2>2. FileReads(N[ino], cells)
      BY <1>3, <2>1, HeldReads
    <2> QED
      BY <1>4, <2>1, <2>2
  <1> QED
    BY <1>1, <1>2, <1>3, <1>5 DEF NameIs

\* A call on a file without a name.
LEMMA NamelessAgrees ==
    ASSUME LInv, AInv, phase = "idle", UNCHANGED <<dev, sb, imap>>,
           NEW ino, work' = Loaded({ino}), ino # Root, NameOf(ino) = {}, goal' = Durable,
           NEW todo, todo = task', NEW size, NEW steps, FileTodo(todo, ino, size, steps)
    PROVE  Agrees
  <1>1. PICK store : store = Durable
    OBVIOUS
  <1>2. \A n \in DOMAIN Dir : Dir[n] # ino
    BY DEF NameOf
  <1>3. OnlyFile(store, store, ino, todo)
    BY <1>1, <1>2, IdlePromise DEF OnlyFile
  <1>4. goal' \in Store!Results(Durable)
    BY DEF Store!Results
  <1> QED
    BY <1>1, <1>2, <1>3, <1>4, FileCallAgrees

\* A call on a file with a name.
LEMMA NamedAgrees ==
    ASSUME LInv, AInv, phase = "idle", UNCHANGED <<dev, sb, imap>>,
           NEW ino, work' = Loaded({ino}), ino # Root, NEW n, NameIs(ino, n),
           NEW new, goal' = [Durable EXCEPT ![n] = new], goal' \in Store!Results(Durable),
           NEW todo, todo = task', NEW size, NEW steps, FileTodo(todo, ino, size, steps),
           Holds(dev, Known, todo, ino, new)
    PROVE  Agrees
  <1>1. PICK store, store2 : store = Durable /\ store2 = [store EXCEPT ![n] = new]
    OBVIOUS
  <1>2. store = [m \in DOMAIN store |-> store[m]] /\ n \in DOMAIN store /\ DOMAIN store = DOMAIN Dir
    BY <1>1, IdlePromise DEF NameIs
  <1>3. /\ DOMAIN store2 = DOMAIN store /\ store2 = [m \in DOMAIN store2 |-> store2[m]]
        /\ store2[n] = new /\ \A m \in DOMAIN store : m # n => store2[m] = store[m]
    BY <1>1, <1>2
  <1>4. OnlyFile(store, store2, ino, todo)
    BY <1>2, <1>3 DEF NameIs, OnlyFile
  <1>5. store2 = goal' /\ store = Durable
    BY <1>1
  <1> QED
    BY <1>4, <1>5, FileCallAgrees

\* write: the blocks between the first cell written and the last.
LEMMA WriteAgrees ==
    ASSUME LInv, AInv, NEW fd \in Fds, NEW w \in load.writes, Write(fd, w)
    PROVE  Agrees
  <1>0. PICK ino, inode, pos, data, end, first, size :
           /\ ino = open[fd] /\ inode = ReadInode(ino) /\ pos = w.pos /\ data = w.data
           /\ end = pos + Len(data)
           /\ first = pos \div CellsPerBlock
           /\ size = IF end > inode.size THEN end ELSE inode.size
    OBVIOUS
  <1> DEFINE changed(idx) ==
                 [k \in Offsets |->
                     LET at == idx * CellsPerBlock + k
                     IN  IF at >= pos /\ at < end THEN data[at - pos + 1]
                         ELSE CellsOf(dev, inode, idx)[k]]
             m == BlocksFor(end) - first
  <1>1. PICK blocks : blocks = [i \in 1 .. m |->
                                   DataStep(ino, first + i - 1, DataBlock(changed(first + i - 1)))]
    OBVIOUS
  <1>2. PICK result :
           result = IF NameOf(ino) = {} THEN Durable
                    ELSE Store!Write(Durable, CHOOSE n \in NameOf(ino) : TRUE, pos, data)
    OBVIOUS
  <1>3. /\ phase = "idle" /\ ino # NoIno
        /\ UNCHANGED <<dev, sb, imap>>
        /\ work' = Loaded({ino}) /\ goal' = result
        /\ task' = blocks \o <<InodeStep(ino, size), MapStep, Step("end", NoIno)>>
    BY <1>0, <1>1, <1>2 DEF Write, Call, May, Offsets
  <1>4. /\ load \in Loads /\ pos \in Nat /\ Len(data) \in Nat /\ end \in Nat /\ pos <= end
        /\ end \in 0 .. MaxCells
    <2>1. load \in Loads
      BY DEF LInv, Typed
    <2>2. pos \in Nat /\ data \in Seq(Nat) /\ pos + Len(data) \in 1 .. MaxCells
      BY <1>0, <2>1, LfsAssumption
    <2>3. Len(data) \in Nat
      BY <2>2
    <2>4. MaxCells \in Nat
      BY LfsAssumption
    <2> QED
      BY <1>0, <2>1, <2>2, <2>3, <2>4
  <1>5. /\ ino # Root /\ inode.size \in Nat
    BY <1>0, <1>3, OpenNow
  <1>6. first \in Nat /\ m \in Nat /\ BlocksFor(end) \in Nat
    BY <1>0, <1>4, BlocksBetween, BlocksForRange
  <1>7. /\ Listed(blocks, m)
        /\ \A i \in 1 .. m : /\ blocks[i].do = "data" /\ blocks[i].ino = ino
                             /\ blocks[i].idx = first + i - 1
                             /\ CellsAt(blocks[i].block) = changed(first + i - 1)
    <2> DEFINE step(i) == DataStep(ino, first + i - 1, DataBlock(changed(first + i - 1)))
    <2>1. \A i \in 1 .. m : /\ step(i).do = "data" /\ step(i).ino = ino
                            /\ step(i).idx = first + i - 1
                            /\ CellsAt(step(i).block) = changed(first + i - 1)
      BY DEF DataStep, DataBlock, CellsAt
    <2>2. blocks = [i \in 1 .. m |-> step(i)]
      BY <1>1
    <2> HIDE DEF step, changed, m
    <2>3. Listed(blocks, m) /\ \A i \in 1 .. m : blocks[i] = step(i)
      BY <1>6, <2>2 DEF Listed
    <2> QED
      BY <2>1, <2>3
  <1> HIDE DEF m, changed
  <1>8. /\ blocks \in Seq(Todo(blocks)) /\ Len(blocks) = m
        /\ \A s \in Todo(blocks) : \E i \in 1 .. m : s = blocks[i]
    BY <1>6, <1>7, ListedSteps
  <1>9. PICK todo : todo = task'
    OBVIOUS
  <1>10. FileTodo(todo, ino, size, blocks)
    BY <1>3, <1>7, <1>8, <1>9 DEF FileTodo
  <1>11. CASE NameOf(ino) = {}
    BY <1>2, <1>3, <1>5, <1>9, <1>10, <1>11, NamelessAgrees
  <1>12. CASE NameOf(ino) # {}
    <2>1. PICK n : n = CHOOSE x \in NameOf(ino) : TRUE
      OBVIOUS
    <2>2. PICK cells : cells = Durable[n]
      OBVIOUS
    <2>3. NameIs(ino, n) /\ Holds(dev, Known, <<>>, ino, cells) /\ FileReads(inode, cells)
      <3>1. n \in NameOf(ino)
        BY <1>12, <2>1
      <3> QED
        BY <1>0, <1>3, <2>2, <3>1, NamedFile
    <2>4. /\ Len(cells) \in Nat /\ inode.size = Len(cells)
           /\ \A idx \in Idx : CellsOf(dev, inode, idx) = Slice(cells, idx)
      BY <2>3 DEF FileReads
    <2>5. PICK new : new = Store!Overwrite(cells, pos, data)
      OBVIOUS
    <2>6. size = IF end > Len(cells) THEN end ELSE Len(cells)
      BY <1>0, <2>4
    <2>7. /\ IsText(new) /\ Len(new) = size
          /\ \A idx \in Idx, k \in Offsets :
                Slice(new, idx)[k] =
                   LET at == idx * CellsPerBlock + k
                   IN  IF at >= pos /\ at < end THEN data[at - pos + 1] ELSE Slice(cells, idx)[k]
      <3>1. Len(cells) \in Nat /\ pos \in Nat /\ Len(data) \in Nat /\ end = pos + Len(data)
        BY <1>0, <1>4, <2>4
      <3> QED
        BY <2>5, <2>6, <3>1, OverwriteSlice
    <2>8. ASSUME NEW idx \in Idx
          PROVE  Rewrites(blocks, cells, new, idx)
      <3>1. ASSUME NEW s \in Todo(blocks), s.idx = idx
            PROVE  s.do = "data" /\ Slice(new, idx) = CellsAt(s.block)
        <4>1. s.do = "data" /\ CellsAt(s.block) = changed(idx)
          BY <1>7, <1>8, <3>1
        <4>2. PICK c : c = changed(idx)
          OBVIOUS
        <4>3. \A k \in Offsets : c[k] = Slice(new, idx)[k]
          BY <2>7, <2>4, <4>2 DEF changed
        <4>4. c = [k \in Offsets |-> c[k]]
          BY <4>2 DEF changed
        <4>5. Slice(new, idx) = c
          BY <4>3, <4>4, SliceIs
        <4> QED
          BY <4>1, <4>2, <4>5
      <3>2. ASSUME \A s \in Todo(blocks) : s.idx # idx
            PROVE  Slice(new, idx) = Slice(cells, idx)
        <4>1. idx \in Nat
          BY Sizes
        <4>2. idx < first \/ BlocksFor(end) <= idx
          <5>1. SUFFICES ASSUME idx >= first, idx < BlocksFor(end)
                         PROVE  FALSE
            BY <1>6, <4>1
          <5>2. idx - first + 1 \in 1 .. m /\ first + (idx - first + 1) - 1 = idx
            BY <1>6, <4>1, <5>1 DEF m
          <5>3. blocks[idx - first + 1].idx = idx
            BY <1>7, <5>2
          <5>4. blocks[idx - first + 1] \in Todo(blocks)
            BY <1>8, <5>2, InTodo
          <5> QED
            BY <3>2, <5>3, <5>4
        <4>3. \A k \in Offsets : LET at == idx * CellsPerBlock + k IN ~(at >= pos /\ at < end)
          <5>1. TAKE k \in Offsets
          <5>2. /\ idx * CellsPerBlock \in Nat /\ k \in Nat /\ k < CellsPerBlock
                /\ CellsPerBlock \in Nat
            BY <4>1, BlockEdges, Sizes DEF Offsets
          <5>3. CASE idx < first
            <6>1. idx * CellsPerBlock + CellsPerBlock <= pos
              BY <1>0, <1>4, <4>1, <5>3, BlockEdges
            <6> QED
              BY <1>4, <5>2, <6>1
          <5>4. CASE BlocksFor(end) <= idx
            <6>1. end <= idx * CellsPerBlock
              BY <1>4, <4>1, <5>4, BlockEdges
            <6> QED
              BY <1>4, <5>2, <6>1
          <5> QED
            BY <4>2, <5>3, <5>4
        <4>4. \A k \in Offsets : Slice(new, idx)[k] = Slice(cells, idx)[k]
          BY <2>7, <4>3
        <4> QED
          BY <4>4, SliceIs, SliceRange
      <3> QED
        BY <3>1, <3>2 DEF Rewrites
    <2>9. Holds(dev, Known, todo, ino, new)
      <3>1. PICK d, N : d = dev /\ N = Known
        OBVIOUS
      <3>2. Holds(d, N, todo, ino, new)
        BY <1>10, <2>3, <2>7, <2>8, <3>1, ChangedFile
      <3> QED
        BY <3>1, <3>2
    <2>10. goal' = Store!Write(Durable, n, pos, data)
      BY <1>2, <1>3, <1>12, <2>1
    <2>11. goal' = [Durable EXCEPT ![n] = new]
      BY <2>2, <2>5, <2>10 DEF Store!Write
    <2>12. goal' \in Store!Results(Durable)
      <3>1. n \in DOMAIN Durable
        BY <1>3, <2>3, IdlePromise DEF NameIs
      <3>2. w \in UNION {any.writes : any \in Loads}
        BY <1>4
      <3> QED
        BY <1>0, <2>10, <3>1, <3>2 DEF Store!Results
    <2> QED
      BY <1>3, <1>5, <1>9, <1>10, <2>3, <2>9, <2>11, <2>12, NamedAgrees
  <1> QED
    BY <1>11, <1>12

\* Which blocks a truncate to a smaller size touches.
LEMMA CutAt ==
    ASSUME NEW size \in Nat, NEW idx \in Nat
    PROVE  \/ idx * CellsPerBlock + CellsPerBlock <= size
           \/ BlocksFor(size) <= idx
           \/ /\ size % CellsPerBlock > 0 /\ idx = BlocksFor(size) - 1
  <1>1. /\ size \div CellsPerBlock \in Nat /\ size % CellsPerBlock \in Nat
        /\ size = (size \div CellsPerBlock) * CellsPerBlock + (size % CellsPerBlock)
    BY CellAt
  <1>2. BlocksFor(size) \in Nat
    BY BlocksForRange
  <1>3. PICK q : q = size \div CellsPerBlock
    OBVIOUS
  <1>4. CASE idx < q
    BY <1>3, <1>4, BlockEdges
  <1>5. CASE q < idx
    <2>1. size < idx * CellsPerBlock
      BY <1>3, <1>5, BlockEdges
    <2>2. ~(idx < BlocksFor(size))
      <3>1. idx < BlocksFor(size) => idx * CellsPerBlock < size
        BY BlockEdges
      <3>2. idx * CellsPerBlock \in Nat
        BY BlockEdges
      <3> QED
        BY <2>1, <3>1, <3>2
    <2> QED
      BY <1>2, <2>2
  <1>6. CASE idx = q
    <2>1. CASE size % CellsPerBlock > 0
      BY <1>3, <1>6, <2>1, LastBlock
    <2>2. CASE ~(size % CellsPerBlock > 0)
      <3>1. size = idx * CellsPerBlock /\ idx * CellsPerBlock \in Nat
        <4>1. size % CellsPerBlock = 0
          BY <1>1, <2>2
        <4>2. idx * CellsPerBlock \in Nat
          BY BlockEdges
        <4> QED
          BY <1>1, <1>3, <1>6, <4>1, <4>2
      <3>2. idx < BlocksFor(size) => idx * CellsPerBlock < size
        BY BlockEdges
      <3> QED
        BY <1>2, <3>1, <3>2
    <2> QED
      BY <2>1, <2>2
  <1> QED
    BY <1>1, <1>3, <1>4, <1>5, <1>6

\* What truncate lays out: the block the end falls into, then those beyond it.
CutsLaid(inode, size, steps) ==
    /\ size < inode.size
    /\ \A s \in Todo(steps) :
          \/ /\ s.do = "data" /\ s.idx = BlocksFor(size) - 1 /\ size % CellsPerBlock > 0
             /\ CellsAt(s.block) = [k \in Offsets |->
                    IF k < size % CellsPerBlock THEN CellsOf(dev, inode, s.idx)[k] ELSE Zero]
          \/ s.do = "cut" /\ s.idx \in Nat /\ BlocksFor(size) <= s.idx
    /\ \A idx \in Idx : idx < BlocksFor(inode.size) /\ BlocksFor(size) <= idx
          => \E s \in Todo(steps) : s.idx = idx
    /\ size % CellsPerBlock > 0
          => \/ GetBlockAddr(dev, inode, BlocksFor(size) - 1) = NoBlock
             \/ \E s \in Todo(steps) : s.idx = BlocksFor(size) - 1

\* They make the file what truncate is to make of it.
LEMMA TruncatedSlice ==
    ASSUME NEW inode, NEW size \in Nat, NEW steps,
           (inode.size <= size /\ Todo(steps) = {}) \/ CutsLaid(inode, size, steps),
           NEW cells, FileReads(inode, cells), NEW new, new = Store!Resize(cells, size),
           NEW idx \in Idx
    PROVE  Rewrites(steps, cells, new, idx)
  <1>1. PICK n : n = Len(cells) /\ n \in Nat /\ inode.size = n
    BY DEF FileReads
  <1>2. PICK base : base = idx * CellsPerBlock
    OBVIOUS
  <1>3. /\ idx \in Nat /\ base \in Nat /\ CellsPerBlock \in Nat
        /\ \A k \in Offsets : k \in Nat /\ k < CellsPerBlock
    BY <1>2, Sizes, BlockEdges DEF Offsets
  <1>4. \A k \in Offsets : Slice(new, idx)[k] = IF base + k < size THEN Slice(cells, idx)[k] ELSE Zero
    BY <1>1, <1>2, ResizeSlice
  <1>5. \A k \in Offsets : ~(base + k < n) => Slice(cells, idx)[k] = Zero
    BY <1>1, <1>2 DEF Slice
  <1>6. BlocksFor(size) \in Nat /\ BlocksFor(n) \in Nat
    BY <1>1, BlocksForRange
  <1>7. CASE inode.size <= size /\ Todo(steps) = {}
    <2>1. \A k \in Offsets : Slice(new, idx)[k] = Slice(cells, idx)[k]
      <3>1. \A k \in Offsets : base + k < n => base + k < size
        BY <1>1, <1>3, <1>7
      <3> QED
        BY <1>4, <1>5, <3>1
    <2>2. Slice(new, idx) = Slice(cells, idx)
      BY <2>1, SliceIs, SliceRange
    <2> QED
      BY <1>7, <2>2 DEF Rewrites
  <1>8. CASE CutsLaid(inode, size, steps)
    <2>1. BlocksFor(size) <= idx => Slice(new, idx) = Fill(Zero)
      <3>1. ASSUME BlocksFor(size) <= idx
            PROVE  Slice(new, idx) = Fill(Zero)
        <4>1. size <= base
          BY <1>2, <1>3, <3>1, BlockEdges
        <4>2. \A k \in Offsets : ~(base + k < size)
          BY <1>3, <4>1
        <4>3. \A k \in Offsets : Slice(new, idx)[k] = Fill(Zero)[k]
          BY <1>4, <4>2, SliceRange
        <4> QED
          BY <4>3, SliceIs, SliceRange
      <3> QED
        BY <3>1
    <2>2. size % CellsPerBlock > 0 /\ idx = BlocksFor(size) - 1
             => \A k \in Offsets : base + k < size <=> k < size % CellsPerBlock
      <3>1. ASSUME size % CellsPerBlock > 0, idx = BlocksFor(size) - 1
            PROVE  \A k \in Offsets : base + k < size <=> k < size % CellsPerBlock
        <4>1. size = base + (size % CellsPerBlock)
          BY <1>2, <3>1, LastBlock
        <4>2. size % CellsPerBlock \in Nat
          BY CellAt
        <4> QED
          BY <1>3, <4>1, <4>2
      <3> QED
        BY <3>1
    <2>3. ASSUME NEW s \in Todo(steps), s.idx = idx
          PROVE  Slice(new, idx) = IF s.do = "data" THEN CellsAt(s.block) ELSE Fill(Zero)
      <3>1. CASE s.do = "cut" /\ BlocksFor(size) <= s.idx
        BY <2>1, <2>3, <3>1
      <3>2. CASE /\ s.do = "data" /\ s.idx = BlocksFor(size) - 1 /\ size % CellsPerBlock > 0
                 /\ CellsAt(s.block) = [k \in Offsets |->
                        IF k < size % CellsPerBlock THEN CellsOf(dev, inode, s.idx)[k] ELSE Zero]
        <4>1. PICK c : c = CellsAt(s.block)
          OBVIOUS
        <4>2. CellsOf(dev, inode, idx) = Slice(cells, idx)
          BY DEF FileReads
        <4>3. /\ c = [k \in Offsets |-> c[k]]
              /\ \A k \in Offsets : c[k] = IF k < size % CellsPerBlock THEN Slice(cells, idx)[k] ELSE Zero
          BY <2>3, <3>2, <4>1, <4>2
        <4>4. \A k \in Offsets : Slice(new, idx)[k] = c[k]
          BY <1>4, <2>2, <2>3, <3>2, <4>3
        <4>5. Slice(new, idx) = c
          BY <4>3, <4>4, SliceIs
        <4> QED
          BY <3>2, <4>1, <4>5
      <3> QED
        BY <1>8, <3>1, <3>2 DEF CutsLaid
    <2>4. ASSUME \A s \in Todo(steps) : s.idx # idx
          PROVE  Slice(new, idx) = Slice(cells, idx)
      <3>1. CASE base + CellsPerBlock <= size
        <4>1. \A k \in Offsets : base + k < size
          BY <1>3, <3>1
        <4>2. \A k \in Offsets : Slice(new, idx)[k] = Slice(cells, idx)[k]
          BY <1>4, <4>1
        <4> QED
          BY <4>2, SliceIs, SliceRange
      <3>2. CASE BlocksFor(size) <= idx
        <4>1. ~(idx < BlocksFor(n))
          BY <1>1, <1>8, <2>4, <3>2 DEF CutsLaid
        <4>2. n <= base
          BY <1>1, <1>2, <1>3, <1>6, <4>1, BlockEdges
        <4>3. \A k \in Offsets : ~(base + k < n)
          BY <1>1, <1>3, <4>2
        <4>4. \A k \in Offsets : Slice(cells, idx)[k] = Fill(Zero)[k]
          BY <1>5, <4>3, SliceRange
        <4>5. Slice(cells, idx) = Fill(Zero)
          BY <4>4, SliceIs, SliceRange
        <4> QED
          BY <2>1, <3>2, <4>5
      <3>3. CASE size % CellsPerBlock > 0 /\ idx = BlocksFor(size) - 1
        <4>1. GetBlockAddr(dev, inode, idx) = NoBlock
          BY <1>8, <2>4, <3>3 DEF CutsLaid
        <4>2. Slice(cells, idx) = Fill(Zero)
          BY <4>1 DEF FileReads
        <4>3. \A k \in Offsets : Slice(new, idx)[k] = Fill(Zero)[k]
          BY <1>4, <4>2, SliceRange
        <4>4. Slice(new, idx) = Fill(Zero)
          BY <4>3, SliceIs, SliceRange
        <4> QED
          BY <4>2, <4>4
      <3> QED
        BY <1>2, <1>3, <3>1, <3>2, <3>3, CutAt
    <2> QED
      BY <2>3, <2>4 DEF Rewrites
  <1> QED
    BY <1>7, <1>8

\* truncate: the block the new end falls into, and those beyond it.
LEMMA TruncateAgrees ==
    ASSUME LInv, AInv, NEW fd \in Fds, NEW size \in load.sizes, Truncate(fd, size)
    PROVE  Agrees
  <1>0. PICK ino, inode, keep, cut, last :
           /\ ino = open[fd] /\ inode = ReadInode(ino) /\ keep = BlocksFor(size)
           /\ cut = size % CellsPerBlock /\ last = keep - 1
    OBVIOUS
  <1> DEFINE zeroed == [k \in Offsets |->
                           IF k < cut THEN CellsOf(dev, inode, last)[k] ELSE Zero]
             m == BlocksFor(inode.size) - keep
  <1>1. PICK partial : partial = IF cut > 0 /\ GetBlockAddr(dev, inode, last) # NoBlock
                                 THEN <<DataStep(ino, last, DataBlock(zeroed))>> ELSE <<>>
    OBVIOUS
  <1>2. PICK cuts : cuts = [i \in 1 .. m |-> CutStep(ino, keep + i - 1)]
    OBVIOUS
  <1>3. PICK shrink : shrink = IF size >= inode.size THEN <<>> ELSE partial \o cuts
    OBVIOUS
  <1>4. PICK result :
           result = IF NameOf(ino) = {} THEN Durable
                    ELSE Store!Truncate(Durable, CHOOSE n \in NameOf(ino) : TRUE, size)
    OBVIOUS
  <1>5. /\ phase = "idle" /\ ino # NoIno
        /\ UNCHANGED <<dev, sb, imap>>
        /\ work' = Loaded({ino}) /\ goal' = result
        /\ task' = shrink \o <<InodeStep(ino, size), MapStep, Step("end", NoIno)>>
    BY <1>0, <1>1, <1>2, <1>3, <1>4 DEF Truncate, Call, May, Offsets
  <1>6. load \in Loads /\ size \in Nat /\ keep \in Nat /\ keep <= MaxBlocks
    <2>1. load \in Loads /\ MaxCells \in Nat
      BY LfsAssumption DEF LInv, Typed
    <2>2. size \in 0 .. MaxCells
      BY <2>1, LfsAssumption
    <2> QED
      BY <1>0, <2>1, <2>2, BlocksForRange
  <1>7. /\ ino # Root /\ inode.size \in Nat /\ BlocksFor(inode.size) \in Nat
        /\ BlocksFor(inode.size) <= MaxBlocks
    BY <1>0, <1>5, OpenNow, BlocksForRange
  <1>8. /\ shrink \in Seq(Todo(shrink))
        /\ \A s \in Todo(shrink) : s.do \in {"data", "cut"} /\ s.ino = ino
        /\ \/ inode.size <= size /\ Todo(shrink) = {}
           \/ CutsLaid(inode, size, shrink)
    <2>1. CASE size >= inode.size
      <3>1. shrink = <<>> /\ <<>> \in Seq(Todo(<<>>)) /\ Todo(<<>>) = {}
        BY <1>3, <2>1, NoSteps
      <3> QED
        BY <1>6, <1>7, <2>1, <3>1
    <2>2. CASE size < inode.size
      <3>1. shrink = partial \o cuts
        BY <1>3, <1>6, <1>7, <2>2
      <3>2. m \in Nat
        <4>1. keep <= BlocksFor(inode.size)
          BY <1>0, <1>6, <1>7, <2>2, BlocksForRange
        <4> QED
          BY <1>6, <1>7, <4>1
      <3>3. Listed(cuts, m) /\ \A i \in 1 .. m : cuts[i] = CutStep(ino, keep + i - 1)
        BY <1>2, <3>2 DEF Listed
      <3> HIDE DEF m
      <3>4. /\ cuts \in Seq(Todo(cuts)) /\ Len(cuts) = m
            /\ \A s \in Todo(cuts) : \E i \in 1 .. m : s = cuts[i]
        BY <3>2, <3>3, ListedSteps
      <3>5. \A s \in Todo(cuts) : s.do = "cut" /\ s.ino = ino /\ s.idx \in Nat /\ keep <= s.idx
        <4>1. \A i \in 1 .. m : keep + i - 1 \in Nat /\ keep <= keep + i - 1
          BY <1>6, <3>2
        <4> QED
          BY <3>3, <3>4, <4>1 DEF CutStep
      <3>6. ASSUME NEW k \in Idx, k < BlocksFor(inode.size), keep <= k
            PROVE  \E s \in Todo(cuts) : s.idx = k
        <4>1. k \in Nat
          BY Sizes
        <4>2. k - keep + 1 \in 1 .. m /\ keep + (k - keep + 1) - 1 = k
          BY <1>6, <1>7, <3>6, <4>1 DEF m
        <4>3. cuts[k - keep + 1] = CutStep(ino, k) /\ CutStep(ino, k).idx = k
          BY <3>3, <4>2 DEF CutStep
        <4>4. cuts[k - keep + 1] \in Todo(cuts)
          BY <3>4, <4>2, InTodo
        <4> QED
          BY <4>3, <4>4
      <3>7. /\ partial \in Seq(Todo(partial))
            /\ \A s \in Todo(partial) :
                  /\ s.do = "data" /\ s.ino = ino /\ s.idx = last /\ cut > 0
                  /\ CellsAt(s.block) = [k \in Offsets |->
                         IF k < cut THEN CellsOf(dev, inode, s.idx)[k] ELSE Zero]
            /\ cut > 0 => \/ GetBlockAddr(dev, inode, last) = NoBlock
                          \/ \E s \in Todo(partial) : s.idx = last
        <4>1. CASE cut > 0 /\ GetBlockAddr(dev, inode, last) # NoBlock
          <5>1. PICK s : s = DataStep(ino, last, DataBlock(zeroed))
            OBVIOUS
          <5>2. partial = <<s>>
            BY <1>1, <4>1, <5>1
          <5>3. s.do = "data" /\ s.ino = ino /\ s.idx = last /\ CellsAt(s.block) = zeroed
            BY <5>1 DEF DataStep, DataBlock, CellsAt
          <5>4. partial \in Seq(Todo(partial)) /\ Todo(partial) = {s}
            BY <5>2, OneStep
          <5> QED
            BY <4>1, <5>3, <5>4
        <4>2. CASE ~(cut > 0 /\ GetBlockAddr(dev, inode, last) # NoBlock)
          <5>1. partial = <<>>
            BY <1>1, <4>2
          <5>2. partial \in Seq(Todo(partial)) /\ Todo(partial) = {}
            BY <5>1, NoSteps
          <5> QED
            BY <4>2, <5>2
        <4> QED
          BY <4>1, <4>2
      <3>8. /\ shrink \in Seq(Todo(shrink)) /\ Todo(shrink) = Todo(partial) \cup Todo(cuts)
        BY <3>1, <3>4, <3>7, ConcatTodo
      <3>9. CutsLaid(inode, size, shrink)
        <4>1. size < inode.size
          BY <2>2
        <4>2. \A s \in Todo(shrink) :
                 \/ /\ s.do = "data" /\ s.idx = last /\ cut > 0
                    /\ CellsAt(s.block) = [k \in Offsets |->
                           IF k < cut THEN CellsOf(dev, inode, s.idx)[k] ELSE Zero]
                 \/ s.do = "cut" /\ s.idx \in Nat /\ keep <= s.idx
          BY <3>5, <3>7, <3>8
        <4>3. \A k \in Idx : k < BlocksFor(inode.size) /\ keep <= k
                 => \E s \in Todo(shrink) : s.idx = k
          BY <3>6, <3>8
        <4>4. cut > 0 => \/ GetBlockAddr(dev, inode, last) = NoBlock
                         \/ \E s \in Todo(shrink) : s.idx = last
          BY <3>7, <3>8
        <4> QED
          BY <1>0, <4>1, <4>2, <4>3, <4>4 DEF CutsLaid
      <3> QED
        BY <3>5, <3>7, <3>8, <3>9
    <2> QED
      BY <1>6, <1>7, <2>1, <2>2
  <1>9. PICK todo : todo = task'
    OBVIOUS
  <1>10. FileTodo(todo, ino, size, shrink)
    BY <1>5, <1>8, <1>9 DEF FileTodo
  <1>11. CASE NameOf(ino) = {}
    BY <1>4, <1>5, <1>7, <1>9, <1>10, <1>11, NamelessAgrees
  <1>12. CASE NameOf(ino) # {}
    <2>1. PICK n : n = CHOOSE x \in NameOf(ino) : TRUE
      OBVIOUS
    <2>2. PICK cells : cells = Durable[n]
      OBVIOUS
    <2>3. NameIs(ino, n) /\ Holds(dev, Known, <<>>, ino, cells) /\ FileReads(inode, cells)
      <3>1. n \in NameOf(ino)
        BY <1>12, <2>1
      <3> QED
        BY <1>0, <1>5, <2>2, <3>1, NamedFile
    <2>4. PICK new : new = Store!Resize(cells, size)
      OBVIOUS
    <2>5. IsText(new) /\ Len(new) = size
      <3>1. Len(cells) \in Nat
        BY <2>3 DEF FileReads
      <3> QED
        BY <1>6, <2>4, <3>1, ResizeSlice
    <2>6. \A idx \in Idx : Rewrites(shrink, cells, new, idx)
      <3>1. (inode.size <= size /\ Todo(shrink) = {}) \/ CutsLaid(inode, size, shrink)
        BY <1>8
      <3> QED
        BY <1>6, <2>3, <2>4, <3>1, TruncatedSlice
    <2>7. Holds(dev, Known, todo, ino, new)
      <3>1. PICK d, N : d = dev /\ N = Known
        OBVIOUS
      <3>2. Holds(d, N, todo, ino, new)
        BY <1>10, <2>3, <2>5, <2>6, <3>1, ChangedFile
      <3> QED
        BY <3>1, <3>2
    <2>8. goal' = Store!Truncate(Durable, n, size)
      BY <1>4, <1>5, <1>12, <2>1
    <2>9. goal' = [Durable EXCEPT ![n] = new]
      BY <2>2, <2>4, <2>8 DEF Store!Truncate
    <2>10. goal' \in Store!Results(Durable)
      <3>1. n \in DOMAIN Durable
        BY <1>5, <2>3, IdlePromise DEF NameIs
      <3>2. size \in UNION {any.sizes : any \in Loads}
        BY <1>6
      <3> QED
        BY <2>8, <3>1, <3>2 DEF Store!Results
    <2> QED
      BY <1>5, <1>7, <1>9, <1>10, <2>3, <2>7, <2>9, <2>10, NamedAgrees
  <1> QED
    BY <1>11, <1>12

-----------------------------------------------------------------------------
(* Calls are atomic *)

\* The new file system has no files.
LEMMA InitAgrees == Init => AInv /\ Store!Init
  <1> SUFFICES ASSUME Init
               PROVE  AInv /\ Store!Init
    OBVIOUS
  <1>1. LInv
    BY InitLInv
  <1>2. /\ Known = [ino \in {Root} |-> FirstRoot] /\ Stored = Known
    BY InitGood
  <1>3. task = <<>> /\ goal = <<>> /\ dev[LogStart + 3] = DirBlock(<<>>)
    BY InitIs DEF Init
  <1>4. PICK e : e = DirOf(dev, Known)
    OBVIOUS
  <1>5. DOMAIN e = {}
    <2>1. e = <<>>
      BY <1>2, <1>3, <1>4, RootIsNode DEF DirOf, DirBlock
    <2> QED
      BY <2>1
  <1>6. PICK store : store = goal
    OBVIOUS
  <1>7. store = [n \in DOMAIN store |-> store[n]] /\ DOMAIN store = {}
    BY <1>3, <1>6
  <1>8. Promises(dev, Known, <<>>, store)
    BY <1>4, <1>5, <1>7, NoSteps DEF Promises, Entered
  <1>9. Durable = store
    BY <1>1, <1>2, <1>8, DurableIs
  <1> QED
    BY <1>2, <1>3, <1>6, <1>7, <1>8, <1>9 DEF AInv, Store!Init

\* Every step of Lfs is one of AtomicStore, or none.
LEMMA NextAgrees ==
    ASSUME LInv, AInv, ~overran', [Next]_vars, [~RefusedRemoval]_vars
    PROVE  Agrees
  <1>1. CASE \E n \in Names : OpenExisting(n) \/ OpenNew(n) \/ RemoveFile(n)
    <2>1. PICK n \in Names : OpenExisting(n) \/ OpenNew(n) \/ RemoveFile(n)
      BY <1>1
    <2>2. CASE OpenExisting(n)
      BY <2>2, NothingAgrees DEF OpenExisting, running, history
    <2> QED
      BY <2>1, <2>2, OpenNewAgrees, RemoveFileAgrees
  <1>2. CASE \E fd \in Fds, w \in load.writes : Write(fd, w)
    BY <1>2, WriteAgrees
  <1>3. CASE \E fd \in Fds, size \in load.sizes : Truncate(fd, size)
    BY <1>3, TruncateAgrees
  <1>4. CASE \E fd \in Fds : Close(fd) \/ CloseLast(fd)
    <2>1. PICK fd \in Fds : Close(fd) \/ CloseLast(fd)
      BY <1>4
    <2>2. CASE Close(fd)
      BY <2>2, NothingAgrees DEF Close, running, history
    <2> QED
      BY <2>1, <2>2, CloseLastAgrees
  <1>5. CASE UNCHANGED vars
    BY <1>5, NothingAgrees DEF vars, memory, running, history
  <1> QED
    BY <1>1, <1>2, <1>3, <1>4, <1>5, CleanAgrees, RunningAgrees, FailureAgrees DEF Next, Starts

\* A call on files is atomic on the device: whatever it is, and wherever it runs out
\* of space or the process stops, what a reopen shows is the store before the call
\* or the store the call was to produce.
THEOREM CallsStayAtomic == Spec /\ []~overran /\ RemovalsFinish => CallsAreAtomic
  <1>1. Init => LInv /\ AInv /\ Store!Init
    BY InitLInv, InitAgrees
  <1>2. LInv /\ AInv /\ ~overran' /\ [Next]_vars /\ [~RefusedRemoval]_vars
           => LInv' /\ AInv' /\ [Store!Next]_<<Durable, goal>>
    BY NextLInv, NextAgrees DEF Agrees
  <1> QED
    BY <1>1, <1>2, PTL DEF Spec, RemovalsFinish, CallsAreAtomic, Store!Spec
-----------------------------------------------------------------------------
(* The space of files without a name *)

\* An entry leads to the inode; the steps left give it away.
Leads(e, ino) == \E n \in DOMAIN e : e[n] = ino
Leaves(todo, ino) == \E s \in Todo(todo) : s.do \in {"free", "unlink"} /\ s.ino = ino

\* Whoever has a place in the inode map has a name, or a descriptor's close to come, or
\* a step that takes it away.
Accounted(map, todo, un, e) ==
    \A ino : ino # Root /\ (ino \in DOMAIN map \/ InodePending(todo, ino))
        => Leads(e, ino) \/ ino \in un \/ Leaves(todo, ino)

\* So it is in memory, and on the device unless the last close of a file is under way.
MemorySpace == \A e : Entered(dev, Known, task, e) => Accounted(imap, task, unlinked, e)
DeviceSpace == phase # "close" => Accounted(DurableMap, <<>>, unlinked, DirOf(dev, Stored))
SInv == MemorySpace /\ DeviceSpace

\* Histories in which what is open and unlinked can be given back: no close is refused
\* for want of space, and the process does not stop while a file without a name is
\* open or being closed.  unlinked_inodes is in memory only.
Orderly == ~CloseNoSpace /\ (CrashAndOpen => unlinked = {} /\ phase # "close")

\* SInv after a step, conjunct by conjunct.
LEMMA RestateSpace ==
    /\ MemorySpace' <=> \A e : Entered(dev', Known', task', e) => Accounted(imap', task', unlinked', e)
    /\ DeviceSpace' <=> (phase' # "close"
                           => Accounted(DurableMap', <<>>, unlinked', DirOf(dev, Stored)'))
  BY DEF MemorySpace, DeviceSpace, Accounted, Entered, IsDirStep, Todo, DirOf, InodePending,
         Leads, Leaves

\* Between calls a file has a name or is open.
LEMMA IdleSpace ==
    ASSUME LInv, SInv, phase = "idle"
    PROVE  /\ task = <<>> /\ Dir = DirOf(dev, Known)
           /\ \A ino \in DOMAIN imap \ {Root} : Leads(Dir, ino) \/ ino \in unlinked
  <1>1. task = <<>> /\ Dir = DirOf(dev, Known)
    BY NoTask, IdleKnown DEF LInv, Held
  <1>2. Entered(dev, Known, task, Dir)
    BY <1>1, NoSteps DEF Entered
  <1>3. \A ino \in DOMAIN imap \ {Root} : Leads(Dir, ino) \/ ino \in unlinked \/ Leaves(task, ino)
    BY <1>2 DEF SInv, MemorySpace, Accounted
  <1>4. \A ino : ~Leaves(task, ino)
    BY <1>1, NoSteps DEF Leaves
  <1> QED
    BY <1>1, <1>3, <1>4

\* This is what SpaceIsReclaimed says.
LEMMA SpaceTold == LInv /\ SInv => SpaceIsReclaimed
  <1> SUFFICES ASSUME LInv, SInv, phase = "idle", NEW ino \in DOMAIN imap \ {Root}
               PROVE  NameOf(ino) # {} \/ IsOpen(ino)
    BY DEF SpaceIsReclaimed
  <1>1. ino \in unlinked => IsOpen(ino)
    BY DEF LInv, UnlinkedFine, OpenInos, IsOpen
  <1> QED
    BY <1>1, IdleSpace DEF Leads, NameOf

\* The device's image stays, and nobody loses its mark.
LEMMA DeviceSpaceStays ==
    ASSUME DeviceSpace, DeviceSame, unlinked \subseteq unlinked', phase # "close" \/ phase' = "close"
    PROVE  DeviceSpace'
  <1>1. /\ DurableMap' = DurableMap /\ DirOf(dev, Stored)' = DirOf(dev, Stored)
    BY DEF DeviceSame
  <1> QED
    BY <1>1, RestateSpace DEF DeviceSpace, Accounted

\* A step of a call: who leaves has left, or is marked.
LEMMA MovesSpace ==
    ASSUME LInv, SInv, Moves, DeviceSame, unlinked \subseteq unlinked',
           Now.do = "unlink" => Now.ino \in unlinked'
    PROVE  SInv'
  <1>1. task # <<>> /\ Todo(task) = {Now} \cup Todo(Tail(task)) /\ Now \in Todo(task)
        /\ \A s \in Todo(Tail(task)) : Before(Now, s)
    BY NowFacts DEF Moves
  <1>2. /\ \A s \in Todo(task') : s \in Todo(Tail(task)) \/ s.do = "indirect"
        /\ Todo(Tail(task)) \subseteq Todo(task')
    BY StillOrdered
  <1>3. /\ DOMAIN imap' = IF Now.do = "free" THEN DOMAIN imap \ {Now.ino}
                          ELSE IF Now.do = "inode" THEN DOMAIN imap \cup {Now.ino}
                          ELSE DOMAIN imap
        /\ phase' = phase
    BY DEF Moves
  <1>4. ASSUME NEW e, Entered(dev', Known', task', e), NEW ino, ino # Root,
               ino \in DOMAIN imap' \/ InodePending(task', ino)
        PROVE  Leads(e, ino) \/ ino \in unlinked' \/ Leaves(task', ino)
    <2>1. Entered(dev, Known, task, e)
      BY <1>4, MovesNames DEF NamesStay
    <2>2. ino \in DOMAIN imap \/ InodePending(task, ino)
      BY <1>1, <1>2, <1>3, <1>4 DEF InodePending
    <2>3. Leads(e, ino) \/ ino \in unlinked \/ Leaves(task, ino)
      BY <1>4, <2>1, <2>2 DEF SInv, MemorySpace, Accounted
    <2>4. ASSUME NEW s \in Todo(task), s.do \in {"free", "unlink"}, s.ino = ino
          PROVE  ino \in unlinked' \/ Leaves(task', ino)
      <3>1. CASE s # Now
        BY <1>1, <1>2, <2>4, <3>1 DEF Leaves
      <3>2. CASE s = Now /\ s.do = "unlink"
        BY <2>4, <3>2
      <3>3. CASE s = Now /\ s.do = "free"
        <4>1. ino \notin DOMAIN imap'
          BY <1>3, <2>4, <3>3
        <4>2. ~InodePending(task', ino)
          BY <1>1, <1>2, <3>3 DEF Before, InodePending
        <4> QED
          BY <1>4, <4>1, <4>2
      <3> QED
        BY <2>4, <3>1, <3>2, <3>3
    <2> QED
      BY <2>3, <2>4 DEF Leaves
  <1>5. MemorySpace'
    BY <1>4, RestateSpace DEF Accounted
  <1>6. DeviceSpace'
    BY <1>3, DeviceSpaceStays DEF SInv
  <1> QED
    BY <1>5, <1>6 DEF SInv

\* Where no steps are left, and those that come write no directory and no new inode.
LEMMA QuietSpace ==
    ASSUME LInv, SInv, task = <<>>, DOMAIN imap' = DOMAIN imap,
           DirOf(dev, Known)' = DirOf(dev, Known),
           \A s \in Todo(task') : ~IsDirStep(s) /\ (s.do = "inode" => s.ino \in DOMAIN imap),
           \A ino \in unlinked : ino \in unlinked' \/ Leaves(task', ino)
    PROVE  MemorySpace'
  <1>1. DirOf(dev, Known)' = DirOf(dev', Known')
    BY DEF DirOf
  <1>2. \A e : Entered(dev', Known', task', e) => Entered(dev, Known, task, e)
    BY <1>1, NoSteps DEF Entered
  <1>3. \A ino : ~Leaves(task, ino)
    BY NoSteps DEF Leaves
  <1>4. \A ino : InodePending(task', ino) => ino \in DOMAIN imap
    BY DEF InodePending
  <1> QED
    BY <1>2, <1>3, <1>4, RestateSpace DEF SInv, MemorySpace, Accounted

\* The steps of a call that has read inodes of the map, but no directory.
LEMMA PlansQuietly ==
    ASSUME LInv', DOMAIN work' \subseteq DOMAIN imap', Root \notin DOMAIN work' \/ phase' = "flush"
    PROVE  \A s \in Todo(task') : ~IsDirStep(s) /\ (s.do = "inode" => s.ino \in DOMAIN imap')
  <1> SUFFICES ASSUME NEW s \in Todo(task')
               PROVE  ~IsDirStep(s) /\ (s.do = "inode" => s.ino \in DOMAIN imap')
    OBVIOUS
  <1>1. StepFine(s)' /\ s.do \in StepsIn(phase')
    BY DEF LInv, Planned, Todo, StepsIn
  <1>2. s.do \in {"data", "inode"} => s.ino \in DOMAIN work'
    BY <1>1 DEF StepFine, InodeFine
  <1>3. phase' = "flush" => s.do # "data"
    BY <1>1 DEF StepsIn
  <1> QED
    BY <1>2, <1>3 DEF IsDirStep

\* Steps of the cleaner that only move blocks and inodes.
LEMMA LoopSpace ==
    ASSUME LInv, SInv, ~overran', LInv', CleanSkip \/ CleanLoopEnds \/ CleanMove \/ FlushNext
    PROVE  SInv'
  <1>1. phase \in CleanPhases /\ task = <<>> /\ unlinked' = unlinked
    BY LoopNow DEF CleanSkip, CleanLoopEnds, CleanMove, FlushNext, memory, CleanPhases
  <1>2. CASE CleanSkip \/ CleanLoopEnds
    <2>1. UNCHANGED <<dev, sb, imap, task, work>>
      BY <1>2 DEF CleanSkip, CleanLoopEnds, memory
    <2>2. Known' = Known /\ DeviceSame
      BY <2>1, DeviceKept DEF Known
    <2>3. DirOf(dev, Known)' = DirOf(dev, Known)
      BY <2>1, <2>2 DEF DirOf
    <2>4. MemorySpace'
      BY <1>1, <2>1, <2>3, NoSteps, QuietSpace
    <2> QED
      BY <1>1, <2>2, <2>4, DeviceSpaceStays DEF SInv, CleanPhases
  <1>3. CASE CleanMove
    <2>1. PICK a, e : a = super.head /\ e = summary[a]
      OBVIOUS
    <2>2. MovesBlock(a, e)
      BY <1>3, <2>1, BlockMoves
    <2>3. Followed /\ DeviceSame
      BY <1>3, <2>1, <2>2, MovedNodes DEF MovesBlock
    <2>4. MemorySpace'
      BY <1>1, <2>3, QuietSpace DEF Followed, IsDirStep
    <2> QED
      BY <1>1, <2>3, <2>4, DeviceSpaceStays DEF SInv, CleanPhases
  <1>4. CASE FlushNext
    <2>1. UNCHANGED <<dev, sb, imap, work>> /\ phase = "flush" /\ phase' = "flush"
      BY <1>4 DEF FlushNext, memory
    <2>2. Known' = Known /\ DeviceSame
      BY <2>1, DeviceKept DEF Known
    <2>3. DirOf(dev, Known)' = DirOf(dev, Known)
      BY <2>1, <2>2 DEF DirOf
    <2>4. DOMAIN work \subseteq DOMAIN imap
      BY <1>1 DEF LInv, Held
    <2>5. \A s \in Todo(task') : ~IsDirStep(s) /\ (s.do = "inode" => s.ino \in DOMAIN imap)
      BY <2>1, <2>4, PlansQuietly
    <2>6. MemorySpace'
      BY <1>1, <2>1, <2>3, <2>5, QuietSpace
    <2> QED
      BY <1>1, <2>2, <2>6, DeviceSpaceStays DEF SInv, CleanPhases
  <1> QED
    BY <1>2, <1>3, <1>4

\* The call's map becomes the device's.
LEMMA FinishSpace ==
    ASSUME LInv, SInv, Finish
    PROVE  SInv'
  <1>1. /\ task # <<>> /\ Now.do = "end" /\ task' = <<>> /\ Todo(task) = {Now}
        /\ DurableMap' = imap /\ Known' = Known /\ DirOf(dev, Stored)' = DirOf(dev, Known)
    BY FinishGood
  <1>2. dev' = dev /\ imap' = imap /\ unlinked' = unlinked
    BY DEF Finish
  <1>3. \A e : Entered(dev, Known, <<>>, e) => e = DirOf(dev, Known)
    BY NoSteps DEF Entered
  <1>4. Entered(dev, Known, task, DirOf(dev, Known))
    BY <1>1 DEF Entered, IsDirStep
  <1>5. Accounted(imap, <<>>, unlinked, DirOf(dev, Known))
    <2>1. Accounted(imap, task, unlinked, DirOf(dev, Known))
      BY <1>4 DEF SInv, MemorySpace
    <2> QED
      BY <1>1, <2>1, NoSteps DEF Accounted, InodePending, Leaves
  <1> QED
    BY <1>1, <1>2, <1>3, <1>5, RestateSpace DEF SInv

\* Memory becomes what the device has.
LEMMA ReloadSpace ==
    ASSUME LInv, SInv, Reloaded, phase # "close", unlinked \subseteq unlinked'
    PROVE  SInv'
  <1>1. /\ DurableMap' = DurableMap /\ Known' = Stored /\ Stored' = Stored
        /\ dev' = dev /\ imap' = DurableMap /\ task' = <<>>
    BY ReloadedGood DEF Reloaded
  <1>2. DirOf(dev, Stored)' = DirOf(dev, Stored)
    BY <1>1 DEF DirOf
  <1>3. \A e : Entered(dev, Stored, <<>>, e) => e = DirOf(dev, Stored)
    BY NoSteps DEF Entered
  <1>4. Accounted(DurableMap, <<>>, unlinked', DirOf(dev, Stored))
    BY DEF SInv, DeviceSpace, Accounted
  <1> QED
    BY <1>1, <1>2, <1>3, <1>4, RestateSpace DEF SInv

\* A refusal other than close's, and a crash where nothing without a name is open.
LEMMA FailureSpace ==
    ASSUME LInv, SInv, Orderly, NoSpace \/ CrashAndOpen
    PROVE  SInv'
  <1>1. Reloaded
    BY FailureReloads
  <1>2. phase # "close" /\ unlinked \subseteq unlinked'
    BY DEF NoSpace, Orderly
  <1> QED
    BY <1>1, <1>2, ReloadSpace

\* The steps of a call.
LEMMA RunningSpace ==
    ASSUME LInv, SInv, ~overran', LInv', Running, Orderly
    PROVE  SInv'
  <1>1. CASE WriteData
    BY <1>1, WriteDataGood, MovesSpace DEF WriteData, Keeps, Due, Now
  <1>2. CASE WriteIndirect
    BY <1>2, WriteIndirectGood, MovesSpace DEF WriteIndirect, Keeps, Due, Now
  <1>3. CASE CutBlock
    BY <1>3, CutBlockGood, MovesSpace DEF CutBlock, Keeps, Due, Now
  <1>4. CASE WriteInode
    BY <1>4, WriteInodeGood, MovesSpace DEF WriteInode, Keeps, Due, Now
  <1>5. CASE MarkUnlinked
    BY <1>5, MarkUnlinkedGood, MovesSpace DEF MarkUnlinked
  <1>6. CASE FreeInode
    BY <1>6, FreeInodeGood, MovesSpace DEF FreeInode, Keeps, Due, Now
  <1>7. CASE WriteSuperblock
    BY <1>7, WriteSuperblockGood, MovesSpace DEF WriteSuperblock, memory, Due, Now
  <1>8. CASE WriteMap
    BY <1>8, WriteMapGood, MovesSpace DEF WriteMap, Keeps, Due, Now
  <1> QED
    BY <1>1, <1>2, <1>3, <1>4, <1>5, <1>6, <1>7, <1>8, LoopSpace, FinishSpace, FailureSpace
       DEF Running, Orderly

\* A call that starts, the directory's image being what it was.
LEMMA StartSpace ==
    ASSUME LInv, LInv', SInv, phase = "idle", UNCHANGED <<dev, sb, imap>>,
           NEW inos, inos \subseteq DOMAIN imap \ {Root}, work' = Loaded(inos) \/ work' = <<>>,
           \A ino \in unlinked : ino \in unlinked' \/ Leaves(task', ino),
           unlinked \subseteq unlinked' \/ phase' = "close"
    PROVE  SInv'
  <1>1. DOMAIN work' \subseteq DOMAIN imap' /\ Root \notin DOMAIN work'
        /\ \A i \in DOMAIN work' \cap DOMAIN imap : work'[i] = ReadInode(i)
    BY DEF Loaded
  <1>2. task = <<>> /\ Known' = Known /\ DeviceSame
    BY <1>1, StartKnown, DeviceKept
  <1>3. DirOf(dev, Known)' = DirOf(dev, Known)
    BY <1>2 DEF DirOf
  <1>4. MemorySpace'
    BY <1>1, <1>2, <1>3, PlansQuietly, QuietSpace
  <1>5. DeviceSpace'
    <2>1. CASE phase' = "close"
      BY <2>1, RestateSpace
    <2>2. CASE unlinked \subseteq unlinked'
      BY <1>2, <2>2, DeviceSpaceStays DEF SInv
    <2> QED
      BY <2>1, <2>2
  <1> QED
    BY <1>4, <1>5 DEF SInv

\* write, truncate, clean and the last close.
LEMMA FileCallSpace ==
    ASSUME LInv, LInv', SInv,
           \/ \E fd \in Fds : CloseLast(fd) \/ (\E w : Write(fd, w)) \/ (\E n : Truncate(fd, n))
           \/ Clean
    PROVE  SInv'
  <1>1. CASE \E fd \in Fds : (\E w : Write(fd, w)) \/ (\E n : Truncate(fd, n))
    <2>1. PICK fd \in Fds : (\E w : Write(fd, w)) \/ (\E n : Truncate(fd, n))
      BY <1>1
    <2>2. PICK inos : inos = {open[fd]}
      OBVIOUS
    <2>3. /\ phase = "idle" /\ open[fd] # NoIno /\ work' = Loaded(inos)
          /\ UNCHANGED <<dev, sb, imap, unlinked>>
      BY <2>1, <2>2 DEF Write, Truncate, Call, May
    <2>4. inos \subseteq DOMAIN imap \ {Root}
      BY <2>2, <2>3, OpenNow
    <2> QED
      BY <2>3, <2>4, StartSpace
  <1>2. CASE Clean
    <2>1. phase = "idle" /\ work' = <<>> /\ UNCHANGED <<dev, sb, imap, unlinked>>
      BY <1>2 DEF Clean, Call, May
    <2> QED
      BY <2>1, StartSpace
  <1>3. CASE \E fd \in Fds : CloseLast(fd)
    <2>1. PICK fd \in Fds : CloseLast(fd)
      BY <1>3
    <2>2. PICK ino, a, b, c : ino = open[fd] /\ a = Step("free", ino) /\ b = MapStep /\ c = Step("end", NoIno)
      OBVIOUS
    <2>3. /\ phase = "idle" /\ work' = <<>> /\ UNCHANGED <<dev, sb, imap>>
          /\ task' = <<a, b, c>> /\ unlinked' = unlinked \ {ino} /\ phase' = "close"
      BY <2>1, <2>2 DEF CloseLast, Call, May, PhaseOf
    <2>4. Todo(task') = {a, b, c}
      BY <2>3, ThreeSteps
    <2>5. Leaves(task', ino)
      BY <2>2, <2>4 DEF Leaves, Step
    <2> QED
      BY <2>3, <2>5, StartSpace
  <1> QED
    BY <1>1, <1>2, <1>3

\* A new file is led to; the others are as they were.
LEMMA OpenNewSpace ==
    ASSUME LInv, SInv, NEW n, OpenNew(n)
    PROVE  SInv'
  <1>1. PICK ino, dir, E, todo, a, b, x : Creating(n, ino, dir, E, todo, a, b, x)
    BY OpenNewTodo
  <1>2. /\ dir = Dir /\ todo = task' /\ phase = "idle"
        /\ UNCHANGED <<dev, sb, imap, unlinked>>
        /\ \A m \in DOMAIN dir : E[m] = dir[m]
        /\ DOMAIN E = DOMAIN dir \cup {n} /\ E[n] = ino
        /\ a \in Todo(todo) /\ IsDirStep(a) /\ a.block.entries = E
        /\ \A s \in Todo(todo) : IsDirStep(s) => s = a
        /\ \A s \in Todo(todo) : s.do = "inode" => s.ino \in {ino, Root}
    BY <1>1 DEF Creating, IsDirStep
  <1>3. \A i \in DOMAIN imap \ {Root} : Leads(dir, i) \/ i \in unlinked
    BY <1>2, IdleSpace
  <1>4. \A e : Entered(dev', Known', todo, e) => e = E
    BY <1>2 DEF Entered
  <1>5. \A i : i # Root /\ (i \in DOMAIN imap \/ InodePending(todo, i)) => Leads(E, i) \/ i \in unlinked
    BY <1>2, <1>3 DEF Leads, InodePending
  <1>6. MemorySpace'
    BY <1>2, <1>4, <1>5, RestateSpace DEF Accounted
  <1>7. DeviceSpace'
    BY <1>2, DeviceKept, DeviceSpaceStays DEF SInv
  <1> QED
    BY <1>6, <1>7 DEF SInv

\* The removed file leaves, or is marked; the others keep their names.
LEMMA RemoveSpace ==
    ASSUME LInv, SInv, NEW n, RemoveFile(n)
    PROVE  SInv'
  <1>1. PICK dir, ino, E, todo, a, b : Removing(n, dir, ino, E, todo, a, b)
    BY RemoveTodo
  <1>2. /\ dir = Dir /\ ino = dir[n] /\ todo = task' /\ phase = "idle"
        /\ UNCHANGED <<dev, sb, imap, unlinked>>
        /\ DOMAIN E = DOMAIN dir \ {n} /\ \A m \in DOMAIN E : E[m] = dir[m]
        /\ a \in Todo(todo) /\ IsDirStep(a) /\ a.block.entries = E
        /\ \A s \in Todo(todo) : IsDirStep(s) => s = a
        /\ \A s \in Todo(todo) : s.do = "inode" => s.ino \in {ino, Root}
        /\ Leaves(todo, ino)
    BY <1>1 DEF Removing, IsDirStep, Leaves
  <1>3. \A i \in DOMAIN imap \ {Root} : Leads(dir, i) \/ i \in unlinked
    BY <1>2, IdleSpace
  <1>4. \A e : Entered(dev', Known', todo, e) => e = E
    BY <1>2 DEF Entered
  <1>5. \A i : i # Root /\ (i \in DOMAIN imap \/ InodePending(todo, i))
                  => Leads(E, i) \/ i \in unlinked \/ Leaves(todo, i)
    BY <1>2, <1>3 DEF Leads, InodePending
  <1>6. MemorySpace'
    BY <1>2, <1>4, <1>5, RestateSpace DEF Accounted
  <1>7. DeviceSpace'
    BY <1>2, DeviceKept, DeviceSpaceStays DEF SInv
  <1> QED
    BY <1>6, <1>7 DEF SInv

\* Nothing changes but descriptors, or nothing at all.
LEMMA NothingSpace ==
    ASSUME LInv, SInv, UNCHANGED <<dev, sb, imap, task, work, unlinked, phase>>
    PROVE  SInv'
  <1>1. Known' = Known /\ DeviceSame
    BY DeviceKept DEF Known
  <1>2. MemorySpace'
    BY <1>1, RestateSpace DEF SInv, MemorySpace
  <1> QED
    BY <1>1, <1>2, DeviceSpaceStays DEF SInv

\* A new file system has the root only.
LEMMA InitSpace == Init => SInv
  <1> SUFFICES ASSUME Init
               PROVE  SInv
    OBVIOUS
  <1>1. DOMAIN imap = {Root} /\ DurableMap = imap /\ task = <<>>
    BY InitIs, InitGood DEF Init
  <1> QED
    BY <1>1, NoSteps DEF SInv, MemorySpace, DeviceSpace, Accounted, InodePending

\* Every step accounts for every file, in an orderly history.
LEMMA NextSpace ==
    ASSUME LInv, LInv', SInv, ~overran', [Next]_vars, [Orderly]_vars
    PROVE  SInv'
  <1>1. CASE UNCHANGED vars
    BY <1>1, NothingSpace DEF vars, memory, running
  <1>2. CASE \E n \in Names : OpenExisting(n) \/ OpenNew(n) \/ RemoveFile(n)
    <2>1. CASE \E n \in Names : OpenExisting(n)
      BY <2>1, NothingSpace DEF OpenExisting, running
    <2> QED
      BY <1>2, <2>1, OpenNewSpace, RemoveSpace
  <1>3. CASE \/ \E fd \in Fds, w \in load.writes : Write(fd, w)
             \/ \E fd \in Fds, size \in load.sizes : Truncate(fd, size)
             \/ Clean
    BY <1>3, FileCallSpace
  <1>4. CASE \E fd \in Fds : Close(fd) \/ CloseLast(fd)
    <2>1. CASE \E fd \in Fds : Close(fd)
      BY <2>1, NothingSpace DEF Close, running
    <2> QED
      BY <1>4, <2>1, FileCallSpace
  <1>5. CASE (Running \/ CrashAndOpen) /\ ~UNCHANGED vars
    <2>1. Orderly
      BY <1>5
    <2> QED
      BY <1>5, <2>1, RunningSpace, FailureSpace
  <1> QED
    BY <1>1, <1>2, <1>3, <1>4, <1>5 DEF Next, Starts

\* "When the last FD is closed, the space is reclaimed": between calls every file in the
\* inode map has a name or is open, for any log and any calls, their refusals included,
\* if no last close is refused and no crash comes while a file without a name is open.
THEOREM SpaceStaysReclaimed == Spec /\ []~overran /\ RemovalsFinish /\ [][Orderly]_vars => []SpaceIsReclaimed
  <1>1. Init => LInv /\ SInv
    BY InitLInv, InitSpace
  <1>2. LInv /\ SInv /\ ~overran' /\ [Next]_vars /\ [~RefusedRemoval]_vars /\ [Orderly]_vars
           => LInv' /\ SInv'
    BY NextLInv, NextSpace
  <1> QED
    BY <1>1, <1>2, SpaceTold, PTL DEF Spec, RemovalsFinish
=============================================================================
