--------------------------------- MODULE Lfs ---------------------------------
(***************************************************************************)
(* eudaemonfs (eudaemonfs/src/lib.rs) with the contents of its blocks: one *)
(* directory, the root, of regular files with direct and single-indirect   *)
(* blocks.  A public call is the sequence of its device writes and of the  *)
(* changes it makes to memory between them: `task' holds the steps the     *)
(* running call has left, and each action below executes one.  NoSpace can *)
(* end a call at any allocation and a crash at any moment.                 *)
(*                                                                         *)
(* LogWindow (the cursors) and AtomicStore (what a reopen shows) are both  *)
(* refined by this module, see the end.  Nested directories, hard links,   *)
(* symlinks and rename are left out here.                                  *)
(***************************************************************************)
EXTENDS Integers, Sequences, FiniteSets

CONSTANTS
    LogStart, LogEnd, NoBlock,  \* as in LogWindow
    Names,          \* names of files in the root directory
    Fds,            \* descriptors (1 .. n): the bound on files open at once
    Zero,           \* content of a cell that was never written
    DirectBlocks,   \* direct pointers of an inode (9)
    PtrsPerBlock,   \* pointers of an indirect block (512)
    CellsPerBlock,  \* bytes of a block (4096)
    MaxCells,       \* max_file_size
    Loads,          \* what a history may be made of: how often each kind of call is made
                    \* (calls), the writes, [pos, data], and the sizes of truncate
    MaxCrashes      \* how often the process stops

Kinds == {"open", "create", "write", "truncate", "remove", "close", "clean"}

\* The log is one LogWindow works on.
ASSUME LfsAssumption ==
    /\ LogStart \in Nat /\ LogEnd \in Nat /\ LogEnd - LogStart >= 7
    /\ NoBlock \notin LogStart .. (LogEnd - 1)
    /\ MaxCrashes \in Nat /\ Fds \subseteq Nat
    /\ DirectBlocks \in Nat \ {0} /\ PtrsPerBlock \in Nat \ {0}
    /\ CellsPerBlock \in Nat \ {0}
    /\ MaxCells \in Nat /\ MaxCells <= (DirectBlocks + PtrsPerBlock) * CellsPerBlock
    /\ \A any \in Loads :
          /\ any.calls \in [Kinds -> Nat]
          /\ \A w \in any.writes :
                w.pos \in Nat /\ w.data \in Seq(Nat) /\ w.pos + Len(w.data) \in 1 .. MaxCells
          /\ \A n \in any.sizes : n \in 0 .. MaxCells

VARIABLES
    dev,        \* the device's log blocks
    sb,         \* the superblock on the device
    super,      \* the superblock in memory
    imap,       \* inode_map
    summary,    \* segment_summary
    committed,  \* committed_head, committed_tail
    open,       \* open_files: fd -> inode, NoIno for a free descriptor
    unlinked,   \* unlinked_inodes
    phase,      \* as in LogWindow
    task,       \* the steps the running call has left
    work,       \* its local copies of inodes; the cleaner's inodes_to_update
    expected,   \* next_write_block of the SequentialBlockDevice
    goal,       \* history: the store the running call should leave behind
    dirty, overran, lost,   \* history: as in LogWindow
    load, calls, crashes    \* bounds of the model

memory == <<super, imap, summary, committed, open, unlinked>>
running == <<phase, task, work>>
history == <<goal, dirty, overran, lost>>
bounds == <<load, calls, crashes>>
vars == <<dev, sb, memory, running, expected, history, bounds>>

NoIno == 0      \* InodeNumber::INVALID
Root == 1       \* InodeNumber::ROOT
Junk == -1      \* a cell of a block that is not a data block

-----------------------------------------------------------------------------
(* Blocks and what is read from them *)

NoPtrs(n) == [i \in 0 .. (n - 1) |-> NoBlock]

NewInode(ino) == [type |-> "inode", ino |-> ino, size |-> 0,
                  ptr |-> NoPtrs(DirectBlocks), ind |-> NoBlock]
DirBlock(entries) == [type |-> "dir", entries |-> entries]
DataBlock(cells) == [type |-> "data", cells |-> cells]
IndirectBlock(ptr) == [type |-> "indirect", ptr |-> ptr]
MapBlock(map) == [type |-> "map", map |-> map]

Entry(ino, idx, type) == [ino |-> ino, idx |-> idx, type |-> type]

BlocksFor(size) == (size + CellsPerBlock - 1) \div CellsPerBlock
\* The root directory always fills one block.
NumBlocks(inode) == IF inode.ino = Root THEN 1 ELSE BlocksFor(inode.size)

\* get_block_addr on device d.
GetBlockAddr(d, inode, idx) ==
    IF idx < DirectBlocks THEN inode.ptr[idx]
    ELSE IF inode.ind = NoBlock THEN NoBlock
    ELSE d[inode.ind].ptr[idx - DirectBlocks]

\* The cells of block idx as read and write see them.  The bytes of a block of
\* another kind are not told apart.
CellsOf(d, inode, idx) ==
    LET a == GetBlockAddr(d, inode, idx)
        all(c) == [k \in 0 .. (CellsPerBlock - 1) |-> c]
    IN  IF a = NoBlock THEN all(Zero)
        ELSE IF d[a].type = "data" THEN d[a].cells ELSE all(Junk)

ReadInode(ino) == dev[imap[ino]]
Entries(d, map) == d[d[map[Root]].ptr[0]].entries
Contents(d, inode) ==
    [k \in 1 .. inode.size |->
        CellsOf(d, inode, (k - 1) \div CellsPerBlock)[(k - 1) % CellsPerBlock]]

\* Every file of the root directory as read on device d through an inode map; a
\* name whose inode is not in the map cannot be opened.
View(d, map) ==
    LET entries == Entries(d, map)
    IN  [n \in {m \in DOMAIN entries : entries[m] \in DOMAIN map} |->
            Contents(d, d[map[entries[n]]])]

\* What Lfs::open would show.
DurableMap == dev[sb.map].map
Durable == View(dev, DurableMap)

\* The summary rebuild_segment_summary makes of an inode map.
Rebuilt(d, map) ==
    LET blocks(ino) ==
            LET inode == d[map[ino]]
                addr(idx) == GetBlockAddr(d, inode, idx)
            IN  {<<map[ino], Entry(ino, 0, "inode")>>}
                \cup {<<addr(idx), Entry(ino, idx, "data")>> :
                        idx \in {i \in 0 .. (NumBlocks(inode) - 1) : addr(i) # NoBlock}}
                \cup (IF inode.ind = NoBlock THEN {}
                      ELSE {<<inode.ind, Entry(ino, 0, "indirect")>>})
        all == UNION {blocks(ino) : ino \in DOMAIN map}
    IN  [a \in {b[1] : b \in all} |-> (CHOOSE b \in all : b[1] = a)[2]]

\* Seeded bug: remove looks for the inode among those already unlinked.
IsOpenBug(ino) == ino \in unlinked

IsOpen(ino) == \E fd \in Fds : open[fd] = ino

\* segment_summary without the blocks of inode maps, and those alone.
FileBlocks == {a \in DOMAIN summary : summary[a].type # "map"}
MapBlocks == DOMAIN summary \ FileBlocks

-----------------------------------------------------------------------------
(* The log underneath *)

Window == INSTANCE LogWindow WITH
    MaxLive <- LogEnd,
    head <- super.head,
    tail <- super.tail,
    live <- FileBlocks,
    maps <- MapBlocks,
    chain <- IF task # <<>> /\ task[1].do = "end" THEN {super.map} ELSE {},
    disk <- [head |-> sb.head, tail |-> sb.tail,
             live |-> DOMAIN Rebuilt(dev, DurableMap), maps |-> {sb.map}]

NextBlock(b) == Window!NextBlock(b)

Store == INSTANCE AtomicStore WITH
    store <- Durable,
    WriteArgs <- UNION {any.writes : any \in Loads},
    Sizes <- UNION {any.sizes : any \in Loads}

\* The blocks at head and tail move on, and `content' is written at the old tail
\* under `entry', replacing the blocks `dead' in the summary.
Put(content, entry, dead, head) ==
    /\ super' = [super EXCEPT !.head = head, !.tail = NextBlock(@),
                              !.map = IF entry.type = "map" THEN super.tail ELSE @]
    /\ dev' = [dev EXCEPT ![super.tail] = content]
    /\ summary' = [a \in (DOMAIN summary \ dead) \cup {super.tail} |->
                      IF a = super.tail THEN entry ELSE summary[a]]
    /\ Window!WriteAtTail(phase)

-----------------------------------------------------------------------------
(* The state after formatting *)

Init ==
    LET root == [NewInode(Root) EXCEPT !.ptr[0] = LogStart + 3]
        map == [ino \in {Root} |-> LogStart + 4]
    IN  /\ dev = [a \in Window!Log |->
                    IF a = LogStart + 3 THEN DirBlock(<<>>)
                    ELSE IF a = LogStart + 4 THEN root
                    ELSE IF a = LogStart + 5 THEN MapBlock(map)
                    ELSE [type |-> "old"]]
        /\ super = [head |-> LogStart, tail |-> LogStart + 6,
                    map |-> LogStart + 5, next |-> Root + 1]
        /\ sb = super
        /\ imap = map
        /\ summary = [a \in {LogStart + 3, LogStart + 4, LogStart + 5} |->
                        IF a = LogStart + 3 THEN Entry(Root, 0, "data")
                        ELSE IF a = LogStart + 4 THEN Entry(Root, 0, "inode")
                        ELSE Entry(NoIno, 0, "map")]
        /\ committed = [head |-> LogStart, tail |-> LogStart + 6]
        /\ open = [fd \in Fds |-> NoIno]
        /\ unlinked = {}
        /\ phase = "idle" /\ task = <<>> /\ work = <<>>
        /\ expected = LogStart + 6
        /\ goal = <<>>
        /\ dirty = {} /\ overran = FALSE /\ lost = FALSE
        /\ load \in Loads /\ calls = [kind \in Kinds |-> 0] /\ crashes = 0

-----------------------------------------------------------------------------
(* Calls.  Each starts with the checks of the code and lays out the steps of  *)
(* its handler.                                                               *)

Step(do, ino) == [do |-> do, ino |-> ino]
DataStep(ino, idx, block) == [do |-> "data", ino |-> ino, idx |-> idx, block |-> block]
CutStep(ino, idx) == [do |-> "cut", ino |-> ino, idx |-> idx]
InodeStep(ino, size) == [do |-> "inode", ino |-> ino, size |-> size]
MapStep == Step("map", NoIno)

\* The two writes of add_dir_entry and remove_dir_entry.
DirSteps(entries) ==
    <<DataStep(Root, 0, DirBlock(entries)), InodeStep(Root, ReadInode(Root).size)>>

May(kind) == phase = "idle" /\ calls[kind] < load.calls[kind]
Count(kind) == calls' = [calls EXCEPT ![kind] = @ + 1]

\* The phase of LogWindow each kind of call runs in.
PhaseOf(kind) == IF kind \in {"close", "clean"} THEN kind ELSE "op"

\* A call takes its steps with the inodes it has read, towards the store it
\* should produce.
Call(kind, steps, inodes, result) ==
    /\ Count(kind)
    /\ phase' = PhaseOf(kind)
    /\ task' = steps
    /\ work' = inodes
    /\ goal' = result
    /\ UNCHANGED <<dev, sb, imap, summary, committed, expected, dirty, overran, lost, load, crashes>>

Loaded(inos) == [ino \in inos |-> ReadInode(ino)]
Dir == Entries(dev, imap)
NameOf(ino) == {n \in DOMAIN Dir : Dir[n] = ino}
FreeFds == {fd \in Fds : open[fd] = NoIno}
LeastFreeFd == CHOOSE fd \in FreeFds : \A other \in FreeFds : fd <= other

\* open_file on a name that exists: no write, and a commit.
OpenExisting(n) ==
    /\ May("open") /\ FreeFds # {}
    /\ n \in DOMAIN Dir
    /\ open' = [open EXCEPT ![LeastFreeFd] = Dir[n]]
    /\ committed' = [head |-> super.head, tail |-> super.tail]
    /\ Count("open")
    /\ UNCHANGED <<dev, sb, super, imap, summary, unlinked, running, expected, history, load, crashes>>

\* open_file on a new name: create_file_in_dir.
OpenNew(n) ==
    LET ino == super.next
        steps == <<InodeStep(ino, 0)>>
                   \o DirSteps([m \in DOMAIN Dir \cup {n} |-> IF m = n THEN ino ELSE Dir[m]])
                   \o <<Step("superblock", NoIno), MapStep, Step("end", ino)>>
        inodes == [i \in {Root, ino} |-> IF i = ino THEN NewInode(ino) ELSE ReadInode(Root)]
    IN  /\ May("create") /\ FreeFds # {}
        /\ n \notin DOMAIN Dir
        /\ Call("create", steps, inodes, Store!Create(Durable, n))
        /\ super' = [super EXCEPT !.next = ino + 1]
        /\ UNCHANGED <<open, unlinked>>

\* write at a position reached by seek: every block touched is read if it exists,
\* changed and written anew.
Write(fd, w) ==
    LET ino == open[fd]
        inode == ReadInode(ino)
        end == w.pos + Len(w.data)
        changed(idx) == [k \in 0 .. (CellsPerBlock - 1) |->
                            LET at == idx * CellsPerBlock + k
                            IN  IF at >= w.pos /\ at < end THEN w.data[at - w.pos + 1]
                                ELSE CellsOf(dev, inode, idx)[k]]
        first == w.pos \div CellsPerBlock
        blocks == [i \in 1 .. (BlocksFor(end) - first) |->
                      DataStep(ino, first + i - 1, DataBlock(changed(first + i - 1)))]
        size == IF end > inode.size THEN end ELSE inode.size
        result == IF NameOf(ino) = {} THEN Durable
                  ELSE Store!Write(Durable, CHOOSE n \in NameOf(ino) : TRUE, w.pos, w.data)
    IN  /\ May("write")
        /\ ino # NoIno
        /\ end <= MaxCells
        /\ Call("write", blocks \o <<InodeStep(ino, size), MapStep, Step("end", NoIno)>>,
                Loaded({ino}), result)
        /\ UNCHANGED <<super, open, unlinked>>

\* truncate: the cells after the new end are zeroed in the block it falls into,
\* the blocks beyond it leave the file.
Truncate(fd, size) ==
    LET ino == open[fd]
        inode == ReadInode(ino)
        keep == BlocksFor(size)
        cut == size % CellsPerBlock
        last == keep - 1
        zeroed == [k \in 0 .. (CellsPerBlock - 1) |->
                      IF k < cut THEN CellsOf(dev, inode, last)[k] ELSE Zero]
        partial == IF cut > 0 /\ GetBlockAddr(dev, inode, last) # NoBlock
                   THEN <<DataStep(ino, last, DataBlock(zeroed))>> ELSE <<>>
        cuts == [i \in 1 .. (BlocksFor(inode.size) - keep) |-> CutStep(ino, keep + i - 1)]
        shrink == IF size >= inode.size THEN <<>> ELSE partial \o cuts
        result == IF NameOf(ino) = {} THEN Durable
                  ELSE Store!Truncate(Durable, CHOOSE n \in NameOf(ino) : TRUE, size)
    IN  /\ May("truncate")
        /\ ino # NoIno
        /\ size <= MaxCells
        /\ Call("truncate", shrink \o <<InodeStep(ino, size), MapStep, Step("end", NoIno)>>,
                Loaded({ino}), result)
        /\ UNCHANGED <<super, open, unlinked>>

\* remove: the entry goes; the inode goes with it unless it is open.
RemoveFile(n) ==
    LET ino == Dir[n]
        inode == ReadInode(ino)
        rest == IF IsOpen(ino) THEN <<Step("unlink", ino), InodeStep(ino, inode.size)>>
                ELSE <<Step("free", ino)>>
    IN  /\ May("remove")
        /\ n \in DOMAIN Dir
        /\ Call("remove", DirSteps([m \in DOMAIN Dir \ {n} |-> Dir[m]])
                        \o rest \o <<MapStep, Step("end", NoIno)>>,
                Loaded({Root, ino}), Store!Remove(Durable, n))
        /\ UNCHANGED <<super, open, unlinked>>

\* close of a descriptor that is not the last of an unlinked file.
Close(fd) ==
    LET ino == open[fd]
    IN  /\ phase = "idle"
        /\ ino # NoIno
        /\ ino \in unlinked => \E other \in Fds \ {fd} : open[other] = ino
        /\ open' = [open EXCEPT ![fd] = NoIno]
        /\ UNCHANGED <<dev, sb, super, imap, summary, committed, unlinked, running,
                       expected, history, bounds>>

\* close of the last descriptor of an unlinked file.
CloseLast(fd) ==
    LET ino == open[fd]
    IN  /\ May("close")
        /\ ino # NoIno
        /\ ino \in unlinked
        /\ \A other \in Fds \ {fd} : open[other] # ino
        /\ Call("close", <<Step("free", ino), MapStep, Step("end", NoIno)>>, <<>>, Durable)
        /\ open' = [open EXCEPT ![fd] = NoIno]
        /\ unlinked' = unlinked \ {ino}
        /\ UNCHANGED super

\* clean, whose loop starts at the head.
Clean ==
    /\ May("clean")
    /\ Call("clean", <<>>, <<>>, Durable)
    /\ UNCHANGED <<super, open, unlinked>>

-----------------------------------------------------------------------------
(* Steps of the running call *)

Due(do) == task # <<>> /\ task[1].do = do
Now == task[1]
HasSpace == Window!HasSpace
Keeps == UNCHANGED <<sb, committed, open, unlinked, phase, goal, lost, bounds>>

IndirectStep(ino, idx, addr) ==
    [do |-> "indirect", ino |-> ino, idx |-> idx, addr |-> addr]

\* set_block_addr: a direct pointer changes in the inode at hand, an indirect one
\* takes a new indirect block.
SetBlockAddr(inodes, ino, idx, addr, rest) ==
    IF idx < DirectBlocks
    THEN /\ work' = [inodes EXCEPT ![ino].ptr[idx] = addr]
         /\ task' = rest
    ELSE /\ work' = inodes
         /\ task' = <<IndirectStep(ino, idx, addr)>> \o rest

\* Seeded bug: a file's block that exists is overwritten where it is.
WriteDataBug ==
    LET old == GetBlockAddr(dev, work[Now.ino], Now.idx)
        inPlace == Now.block.type = "data" /\ old # NoBlock
    IN  /\ Due("data") /\ HasSpace
        /\ \/ /\ inPlace
              /\ dev' = [dev EXCEPT ![old] = Now.block]
              /\ task' = Tail(task)
              /\ UNCHANGED <<super, summary, work, expected, dirty, overran>>
           \/ /\ ~inPlace
              /\ Put(Now.block, Entry(Now.ino, Now.idx, "data"), {old}, super.head)
              /\ SetBlockAddr(work, Now.ino, Now.idx, super.tail, Tail(task))
        /\ UNCHANGED imap /\ Keeps

\* A data or directory block is written anew.
WriteData ==
    LET old == GetBlockAddr(dev, work[Now.ino], Now.idx)
    IN  /\ Due("data") /\ HasSpace
        /\ Put(Now.block, Entry(Now.ino, Now.idx, "data"), {old}, super.head)
        /\ SetBlockAddr(work, Now.ino, Now.idx, super.tail, Tail(task))
        /\ UNCHANGED imap /\ Keeps

\* set_block_addr beyond the direct pointers: read, change one pointer, write anew.
WriteIndirect ==
    LET old == work[Now.ino].ind
        ptr == IF old = NoBlock THEN NoPtrs(PtrsPerBlock) ELSE dev[old].ptr
    IN  /\ Due("indirect") /\ HasSpace
        /\ Put(IndirectBlock([ptr EXCEPT ![Now.idx - DirectBlocks] = Now.addr]),
               Entry(Now.ino, 0, "indirect"), {old}, super.head)
        /\ work' = [work EXCEPT ![Now.ino].ind = super.tail]
        /\ task' = Tail(task)
        /\ UNCHANGED imap /\ Keeps

\* Seeded bug: the block stays in the summary.
CutBlockBug ==
    /\ Due("cut")
    /\ IF GetBlockAddr(dev, work[Now.ino], Now.idx) = NoBlock
       THEN task' = Tail(task) /\ work' = work
       ELSE SetBlockAddr(work, Now.ino, Now.idx, NoBlock, Tail(task))
    /\ UNCHANGED <<dev, super, imap, summary, expected, dirty, overran>> /\ Keeps

\* truncate drops a block beyond the new end, if there is one.
CutBlock ==
    LET old == GetBlockAddr(dev, work[Now.ino], Now.idx)
    IN  /\ Due("cut")
        /\ \/ /\ old = NoBlock
              /\ task' = Tail(task)
              /\ UNCHANGED <<summary, work>>
           \/ /\ old # NoBlock
              /\ summary' = [a \in DOMAIN summary \ {old} |-> summary[a]]
              /\ SetBlockAddr(work, Now.ino, Now.idx, NoBlock, Tail(task))
        /\ UNCHANGED <<dev, super, imap, expected, dirty, overran>> /\ Keeps

\* write_inode; the cleaner takes the inode out of inodes_to_update first.
WriteInode ==
    LET ino == Now.ino
        inode == [work[ino] EXCEPT !.size = Now.size]
        old == IF ino \in DOMAIN imap THEN {imap[ino]} ELSE {}
    IN  /\ Due("inode") /\ HasSpace
        /\ Put(inode, Entry(ino, 0, "inode"), old, super.head)
        /\ imap' = [i \in DOMAIN imap \cup {ino} |-> IF i = ino THEN super.tail ELSE imap[i]]
        /\ work' = IF phase = "flush" THEN [i \in DOMAIN work \ {ino} |-> work[i]]
                    ELSE [work EXCEPT ![ino] = inode]
        /\ task' = Tail(task)
        /\ Keeps

\* remove of an open file notes the inode for the last close.
MarkUnlinked ==
    /\ Due("unlink")
    /\ unlinked' = unlinked \cup {Now.ino}
    /\ task' = Tail(task)
    /\ UNCHANGED <<dev, sb, super, imap, summary, committed, open, phase, work,
                   expected, history, bounds>>

\* Seeded bug: the inode stays in the inode map.
FreeInodeBug ==
    LET ino == Now.ino
    IN  /\ Due("free")
        /\ summary' = [a \in {b \in DOMAIN summary : summary[b].ino # ino} |-> summary[a]]
        /\ task' = Tail(task)
        /\ UNCHANGED <<dev, super, imap, work, expected, dirty, overran>> /\ Keeps

\* free_inode_blocks.
FreeInode ==
    LET ino == Now.ino
        inode == ReadInode(ino)
        blocks == {GetBlockAddr(dev, inode, idx) : idx \in 0 .. (NumBlocks(inode) - 1)}
    IN  /\ Due("free")
        /\ summary' = [a \in DOMAIN summary \ (blocks \cup {inode.ind, imap[ino]}) |-> summary[a]]
        /\ imap' = [i \in DOMAIN imap \ {ino} |-> imap[i]]
        /\ task' = Tail(task)
        /\ UNCHANGED <<dev, super, work, expected, dirty, overran>> /\ Keeps

\* write_superblock of the create functions, before the map is persisted.
WriteSuperblock ==
    /\ Due("superblock")
    /\ sb' = super
    /\ task' = Tail(task)
    /\ UNCHANGED <<dev, memory, phase, work, expected, history, bounds>>

\* persist_inode_map writes the map; the old map block stays in the summary.
WriteMap ==
    /\ Due("map") /\ HasSpace
    /\ Put(MapBlock(imap), Entry(NoIno, 0, "map"), {}, super.head)
    /\ task' = Tail(task)
    /\ UNCHANGED <<imap, work>> /\ Keeps

\* Seeded bug: the wrapper does not commit.
FinishBug ==
    /\ Due("end")
    /\ sb' = super
    /\ open' = IF Now.ino = NoIno THEN open ELSE [open EXCEPT ![LeastFreeFd] = Now.ino]
    /\ phase' = "idle" /\ task' = <<>> /\ work' = <<>>
    /\ dirty' = {} /\ overran' = lost
    /\ UNCHANGED <<dev, super, imap, summary, committed, unlinked, expected, goal, lost, bounds>>

\* persist_inode_map writes the superblock; the call succeeds, a created file gets
\* its descriptor, and the wrapper commits.
Finish ==
    /\ Due("end")
    /\ sb' = super
    /\ committed' = [head |-> super.head, tail |-> super.tail]
    /\ open' = IF Now.ino = NoIno THEN open ELSE [open EXCEPT ![LeastFreeFd] = Now.ino]
    /\ phase' = "idle" /\ task' = <<>> /\ work' = <<>>
    /\ dirty' = {} /\ overran' = lost
    /\ UNCHANGED <<dev, super, imap, summary, unlinked, expected, goal, lost, bounds>>

-----------------------------------------------------------------------------
(* The cleaner's loop *)

InLoop == Window!Cleaning /\ task = <<>>
CleanedEnough == Window!CleanedEnough

\* The inode as the cleaner knows it: changed by this call, or as read.
Current(ino) == IF ino \in DOMAIN work THEN work[ino] ELSE ReadInode(ino)

\* A summary entry that leads nowhere: an inode map, an inode that is gone, data
\* the inode no longer points to.
Garbage(a) ==
    LET e == summary[a]
    IN  \/ e.ino \notin DOMAIN imap \cup DOMAIN work
        \/ e.type = "data" /\ GetBlockAddr(dev, Current(e.ino), e.idx) # a

\* Seeded bug: the head stays on a block that is not in the summary.
CleanSkipBug ==
    /\ InLoop /\ ~CleanedEnough
    /\ super.head \in DOMAIN summary => Garbage(super.head)
    /\ summary' = [a \in DOMAIN summary \ {super.head} |-> summary[a]]
    /\ phase' = "clean"
    /\ UNCHANGED <<dev, sb, super, imap, committed, open, unlinked, task, work, expected,
                   history, bounds>>

\* The block at the head is free already, or garbage.
CleanSkip ==
    /\ InLoop /\ ~CleanedEnough
    /\ super.head \in DOMAIN summary => Garbage(super.head)
    /\ super' = [super EXCEPT !.head = NextBlock(@)]
    /\ summary' = [a \in DOMAIN summary \ {super.head} |-> summary[a]]
    /\ phase' = "clean"
    /\ UNCHANGED <<dev, sb, imap, committed, open, unlinked, task, work, expected,
                   history, bounds>>

\* The block at the head is live: the head moves on, the contents are written at
\* the tail, and the pointer to them follows.
CleanMove ==
    LET a == super.head
        e == summary[a]
        inode == Current(e.ino)
        inodes == [i \in DOMAIN work \cup {e.ino} |-> IF i = e.ino THEN inode ELSE work[i]]
    IN  /\ InLoop /\ ~CleanedEnough
        /\ a \in DOMAIN summary /\ ~Garbage(a)
        /\ Put(dev[a], e, {a}, NextBlock(a))
        /\ phase' = "copy"
        /\ \/ /\ e.type = "data"
              /\ SetBlockAddr(inodes, e.ino, e.idx, super.tail, <<>>)
              /\ UNCHANGED imap
           \/ /\ e.type = "inode"
              /\ imap' = [imap EXCEPT ![e.ino] = super.tail]
              /\ UNCHANGED <<task, work>>
           \/ /\ e.type = "indirect"
              /\ work' = [inodes EXCEPT ![e.ino].ind = IF @ = a THEN super.tail ELSE @]
              /\ UNCHANGED <<imap, task>>
        /\ UNCHANGED <<sb, committed, open, unlinked, goal, lost, bounds>>

CleanLoopEnds ==
    /\ InLoop /\ CleanedEnough
    /\ phase' = "flush"
    /\ UNCHANGED <<dev, sb, memory, task, work, expected, history, bounds>>

\* The inodes that changed are written in order, then the inode map.
FlushNext ==
    LET least == CHOOSE ino \in DOMAIN work : \A other \in DOMAIN work : ino <= other
    IN  /\ phase = "flush" /\ task = <<>>
        /\ task' = IF DOMAIN work = {} THEN <<MapStep, Step("end", NoIno)>>
                    ELSE <<InodeStep(least, work[least].size)>>
        /\ UNCHANGED <<dev, sb, memory, phase, work, expected, history, bounds>>

-----------------------------------------------------------------------------
(* Failures *)

\* Seeded bug: the inode map in memory is kept.
ReloadBug(c) ==
    /\ super' = [sb EXCEPT !.head = c.head, !.tail = c.tail]
    /\ summary' = Rebuilt(dev, DurableMap)
    /\ expected' = NoBlock
    /\ phase' = "idle" /\ task' = <<>> /\ work' = <<>>
    /\ goal' = Durable
    /\ lost' = (lost \/ (DOMAIN Rebuilt(dev, DurableMap) \cup {sb.map}) \cap dirty # {})
    /\ UNCHANGED <<dev, sb, imap, dirty, overran>>

\* load_inode_map and rebuild_segment_summary, with the cursors given.
Reload(c) ==
    /\ super' = [sb EXCEPT !.head = c.head, !.tail = c.tail]
    /\ imap' = DurableMap
    /\ summary' = Rebuilt(dev, DurableMap)
    /\ expected' = NoBlock
    /\ phase' = "idle" /\ task' = <<>> /\ work' = <<>>
    /\ goal' = Durable
    /\ lost' = (lost \/ (DOMAIN Rebuilt(dev, DurableMap) \cup {sb.map}) \cap dirty # {})
    /\ UNCHANGED <<dev, sb, dirty, overran>>

\* allocate_block refuses: recover_from_partial_write.  open_files and
\* unlinked_inodes are not among what it reloads.
NoSpace ==
    /\ phase \in {"op", "copy", "flush"}
    /\ Due("data") \/ Due("indirect") \/ Due("inode") \/ Due("map")
    /\ ~HasSpace
    /\ Reload(committed)
    /\ UNCHANGED <<committed, open, unlinked, bounds>>

\* A removal of an open file was refused after its inode had been noted: the name
\* is back, and the last close will free the inode under it.
RefusedRemoval ==
    /\ NoSpace
    /\ \E n \in DOMAIN Entries(dev, DurableMap) : Entries(dev, DurableMap)[n] \in unlinked

\* allocate_block refuses in close: no recovery, and the descriptor is gone.
CloseNoSpace ==
    /\ phase = "close"
    /\ Due("map") /\ ~HasSpace
    /\ phase' = "idle" /\ task' = <<>> /\ work' = <<>>
    /\ UNCHANGED <<dev, sb, memory, expected, history, bounds>>

\* The process stops between two steps; Lfs::open on the same device.
CrashAndOpen ==
    /\ crashes < MaxCrashes
    /\ crashes' = crashes + 1
    /\ Reload(sb)
    /\ committed' = [head |-> sb.head, tail |-> sb.tail]
    /\ open' = [fd \in Fds |-> NoIno]
    /\ unlinked' = {}
    /\ UNCHANGED <<load, calls>>

\* The steps of a call, which its caller runs to the end.
Running ==
    \/ WriteData \/ WriteIndirect \/ CutBlock \/ WriteInode \/ MarkUnlinked
    \/ FreeInode \/ WriteSuperblock \/ WriteMap \/ Finish
    \/ CleanSkip \/ CleanMove \/ CleanLoopEnds \/ FlushNext
    \/ NoSpace \/ CloseNoSpace

\* A call begins (or, where nothing is written, is over).
Starts ==
    \/ \E n \in Names : OpenExisting(n) \/ OpenNew(n) \/ RemoveFile(n)
    \/ \E fd \in Fds, w \in load.writes : Write(fd, w)
    \/ \E fd \in Fds, size \in load.sizes : Truncate(fd, size)
    \/ \E fd \in Fds : Close(fd) \/ CloseLast(fd)
    \/ Clean

Next == Starts \/ Running \/ CrashAndOpen

\* A call that was begun is executed by its caller.
Spec == Init /\ [][Next]_vars /\ WF_vars(Running)

-----------------------------------------------------------------------------
(* Properties *)

\* Every call is atomic on the device: what Lfs::open would show changes only at
\* the superblock write that ends a call, from the store before the call to the
\* store the call should produce, whether calls run out of space, the cleaner
\* moves the blocks, or the process stops at any device write.
CallsAreAtomic == Store!Spec

\* The cursors move as LogWindow says, the blocks rebuild_segment_summary finds
\* being those the summary holds when the superblock is written.
CursorsFollowLogWindow == Window!Spec

\* Between calls, reads through memory see what a reopen would see.
ReadsMatchDevice == phase = "idle" => View(dev, imap) = Durable

\* Between calls, the summary that every call maintains entry by entry is the one
\* rebuild_segment_summary computes from the inode map, but for old map blocks.
SummaryExact ==
    phase = "idle" => [a \in FileBlocks |-> summary[a]] = Rebuilt(dev, imap)

\* A descriptor's inode stays readable until the descriptor is closed.
OpenStaysReadable ==
    phase = "idle" => \A fd \in Fds : open[fd] # NoIno => open[fd] \in DOMAIN imap

\* "When the last FD is closed, the space is reclaimed": between calls an inode in
\* the inode map is named by the directory or open.
SpaceIsReclaimed ==
    phase = "idle" => \A ino \in DOMAIN imap \ {Root} : NameOf(ino) # {} \/ IsOpen(ino)

\* The blocks the cleaner has to keep leave the quarter free that it works for.
CleanerCanEnd ==
    Cardinality({a \in DOMAIN summary : ~Garbage(a)}) <= Window!LogSize - Window!TargetFree

\* A call that was begun returns.  The cleaner's loop (lib.rs:2662-2754) has no
\* bound of its own: it ends once the head was carried past enough dead blocks.
\* Where more blocks are live than leave a quarter of the log free, it copies them
\* round and round; with as many, to the block, or fewer, it ends.
CallsReturn == phase # "idle" /\ (Window!Cleaning => InLoop /\ CleanerCanEnd) ~> phase = "idle"

\* No removal of an open file is refused half way.  Where one is, remove's note in
\* unlinked_inodes (lib.rs:2097) outlives the recovery, and the file's last close
\* takes the inode from under its name.
RemovalsFinish == [][~RefusedRemoval]_vars
=============================================================================
