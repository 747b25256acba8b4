------------------------------ MODULE LogWindow ------------------------------
(***************************************************************************)
(* The circular log of eudaemonfs (eudaemonfs/src/lib.rs): how allocation, *)
(* cleaning, the superblock writes, commit, recovery from NoSpace, reopen  *)
(* after a crash move the two cursors `head' and `tail', and which blocks  *)
(* of the log they may overwrite.                                          *)
(*                                                                         *)
(* Block contents are abstracted to "this address is in the segment        *)
(* summary" (`live' for file blocks, `maps' for the blocks of inode maps)  *)
(* and, for the durable state, "the inode map the superblock on the device *)
(* names leads to this address" (`disk').  The module Lfs gives blocks     *)
(* their contents.                                                         *)
(***************************************************************************)
EXTENDS Integers, FiniteSets

CONSTANTS
    LogStart,   \* first block of the log (1: block 0 holds the superblock)
    LogEnd,     \* one past its last block (total_blocks)
    MaxLive,    \* bound of the model: live file blocks at any time
    NoBlock     \* BlockAddress::INVALID

LogSize == LogEnd - LogStart
Log == LogStart .. (LogEnd - 1)

\* Formatting writes six blocks, and the sixth finds no space in a log of six.
\* (Lfs::new insists on 16 blocks in all.)
ASSUME LogAssumption ==
    /\ LogStart \in Nat
    /\ LogEnd \in Nat
    /\ LogSize >= 7
    /\ MaxLive \in Nat
    /\ NoBlock \notin Log

VARIABLES
    head,       \* superblock.head, the oldest block still in use
    tail,       \* superblock.tail, the block the next write goes to
    live,       \* the file, directory, inode and indirect blocks of segment_summary
    maps,       \* its InodeMap blocks; persist_inode_map never removes an old one
    chain,      \* the map blocks the running persist_inode_map has written
    committed,  \* committed_head and committed_tail
    disk,       \* what the device's superblock says and leads to
    phase,      \* where the one running call is
    expected,   \* next_write_block of the SequentialBlockDevice
    dirty,      \* history: blocks written since the device's inode map was
    overran,    \* history: a cleaner wrote a block of the committed window
    lost        \* history: a reload read a block that had been overwritten

memory == <<head, tail, live, maps, chain, committed>>
history == <<dirty, overran, lost>>
vars == <<memory, disk, phase, expected, history>>

Phases == {"idle", "op", "close", "clean", "copy", "flush"}

-----------------------------------------------------------------------------
(* Circular arithmetic *)

\* The block after b, and the number of blocks from a forward to b.
NextBlock(b) == IF b + 1 >= LogEnd THEN LogStart ELSE b + 1
LogDistance(a, b) == IF b >= a THEN b - a ELSE (LogEnd - a) + (b - LogStart)

\* The blocks from h up to, not including, t.
Window(h, t) == {b \in Log : LogDistance(h, b) < LogDistance(h, t)}

\* The free space allocate_block sees when the summary's keys are `keys'.
FreeSpace(h, t, keys) ==
    IF h = t THEN (IF keys = {} THEN LogSize ELSE 0) ELSE LogDistance(t, h)

Reserved == LogSize \div 5      \* allocate_block refuses the last 20%
TargetFree == LogSize \div 4    \* the cleaner stops at 25%

\* Seeded bug: the reserve itself may be handed out.
HasSpaceBug == FreeSpace(head, tail, live \cup maps) >= Reserved

HasSpace == FreeSpace(head, tail, live \cup maps) > Reserved

Reached(d) == d.live \cup d.maps

-----------------------------------------------------------------------------
(* State after Lfs::new: the root inode, its first data block, the inode   *)
(* again, the block with both entries, the inode again, the inode map.     *)

Formatted == [head |-> LogStart, tail |-> LogStart + 6,
              live |-> {LogStart + 3, LogStart + 4}, maps |-> {LogStart + 5}]

Init ==
    /\ head = Formatted.head
    /\ tail = Formatted.tail
    /\ live = Formatted.live
    /\ maps = Formatted.maps
    /\ chain = {}
    /\ committed = [head |-> Formatted.head, tail |-> Formatted.tail]
    /\ disk = Formatted
    /\ phase = "idle"
    /\ expected = Formatted.tail
    /\ dirty = {}
    /\ overran = FALSE
    /\ lost = FALSE

-----------------------------------------------------------------------------
(* Steps of the running call *)

\* allocate_block followed by write_block, by a call in phase p.
WriteAtTail(p) ==
    /\ tail' = NextBlock(tail)
    /\ expected' = NextBlock(tail)
    /\ dirty' = dirty \cup {tail}
    /\ overran' = (overran \/ (p \in {"clean", "copy", "flush"}
                               /\ tail \in Window(committed.head, committed.tail)))

\* A public operation is called, the last descriptor of an unlinked file is
\* closed, or clean is called.
Begin ==
    /\ phase = "idle"
    /\ phase' \in {"op", "close", "clean"}
    /\ UNCHANGED <<memory, disk, expected, history>>

\* A file, directory, inode or indirect block is written at the tail; the
\* block it replaces, if any, leaves the summary.
Append(old) ==
    /\ phase \in {"op", "copy", "flush"}
    /\ chain = {}
    /\ HasSpace
    /\ old \in {{}} \cup {{b} : b \in live}
    /\ old = {} => Cardinality(live) < MaxLive
    /\ WriteAtTail(phase)
    /\ live' = (live \ old) \cup {tail}
    /\ UNCHANGED <<head, maps, chain, committed, disk, phase, lost>>

\* Blocks leave the summary and nothing replaces them (truncate, and
\* free_inode_blocks for remove and the last close of an unlinked file).
Kill(dead) ==
    /\ phase \in {"op", "close"}
    /\ chain = {}
    /\ dead # {} /\ dead \subseteq live
    /\ live' = live \ dead
    /\ UNCHANGED <<head, tail, maps, chain, committed, disk, phase, expected, history>>

\* The create functions write the superblock, for the new next_inode, before
\* the inode map is persisted: the cursors on the device run ahead of it.
WriteSuperblockEarly ==
    /\ phase = "op"
    /\ chain = {}
    /\ disk' = [disk EXCEPT !.head = head, !.tail = tail]
    /\ UNCHANGED <<memory, phase, expected, history>>

\* persist_inode_map writes one block of the new map.
PersistMapBlock ==
    /\ phase \in {"op", "close", "flush"}
    /\ HasSpace
    /\ WriteAtTail(phase)
    /\ chain' = chain \cup {tail}
    /\ maps' = maps \cup {tail}
    /\ UNCHANGED <<head, live, committed, disk, phase, lost>>

\* Seeded bug: the wrapper returns without the commit.
PersistSuperblockBug ==
    /\ chain # {}
    /\ disk' = [head |-> head, tail |-> tail, live |-> live, maps |-> chain]
    /\ chain' = {}
    /\ phase' = "idle"
    /\ dirty' = {}
    /\ overran' = lost
    /\ UNCHANGED <<head, tail, live, maps, committed, expected, lost>>

\* persist_inode_map writes the superblock that names the new map, the call
\* returns Ok and its wrapper commits.  The device is consistent again, unless
\* what was persisted is what an earlier reload misread.
PersistSuperblock ==
    /\ chain # {}
    /\ disk' = [head |-> head, tail |-> tail, live |-> live, maps |-> chain]
    /\ committed' = [head |-> head, tail |-> tail]
    /\ chain' = {}
    /\ phase' = "idle"
    /\ dirty' = {}
    /\ overran' = lost
    /\ UNCHANGED <<head, tail, live, maps, expected, lost>>

\* A call that returns Ok without a write (opening an existing file, a rename
\* onto itself) commits all the same.
CommitWithoutWrite ==
    /\ phase = "idle"
    /\ committed' = [head |-> head, tail |-> tail]
    /\ UNCHANGED <<head, tail, live, maps, chain, disk, phase, expected, history>>

-----------------------------------------------------------------------------
(* The cleaner *)

Cleaning == phase \in {"clean", "copy"}
CleanedEnough == head = tail \/ LogDistance(tail, head) >= TargetFree

\* The block at the head is not in the summary, or holds an old inode map.
CleanSkip ==
    /\ Cleaning /\ ~CleanedEnough
    /\ head \notin live
    /\ head' = NextBlock(head)
    /\ maps' = maps \ {head}
    /\ phase' = "clean"
    /\ UNCHANGED <<tail, live, chain, committed, disk, expected, history>>

\* The block at the head is live: it leaves the summary, the head advances,
\* and then its contents are written at the tail.
CleanMove ==
    /\ Cleaning /\ ~CleanedEnough
    /\ head \in live
    /\ FreeSpace(NextBlock(head), tail, (live \ {head}) \cup maps) > Reserved
    /\ head' = NextBlock(head)
    /\ WriteAtTail(phase)
    /\ live' = (live \ {head}) \cup {tail}
    /\ phase' = "copy"
    /\ UNCHANGED <<maps, chain, committed, disk, lost>>

\* The loop ends; the inodes that changed and the inode map are written next.
CleanLoopEnds ==
    /\ Cleaning /\ CleanedEnough
    /\ phase' = "flush"
    /\ UNCHANGED <<memory, disk, expected, history>>

-----------------------------------------------------------------------------
(* Failures *)

\* Seeded bug: recovery does not reset the device's write sequence.
ReloadBug(c) ==
    /\ head' = c.head
    /\ tail' = c.tail
    /\ live' = disk.live
    /\ maps' = {}
    /\ chain' = {}
    /\ phase' = "idle"
    /\ lost' = (lost \/ Reached(disk) \cap dirty # {})
    /\ UNCHANGED expected

\* Memory is what the device's inode map leads to; map blocks are not in the
\* rebuilt summary.
Reload(c) ==
    /\ head' = c.head
    /\ tail' = c.tail
    /\ live' = disk.live
    /\ maps' = {}
    /\ chain' = {}
    /\ expected' = NoBlock
    /\ phase' = "idle"
    /\ lost' = (lost \/ Reached(disk) \cap dirty # {})

\* allocate_block refuses: recover_from_partial_write goes back to the
\* committed cursors, whatever the superblock on the device says.
NoSpace ==
    /\ phase \in {"op", "copy", "flush"}
    /\ ~HasSpace
    /\ Reload(committed)
    /\ UNCHANGED <<committed, disk, dirty, overran>>

\* allocate_block refuses in close, which has no recovery.
CloseNoSpace ==
    /\ phase = "close"
    /\ ~HasSpace
    /\ phase' = "idle"
    /\ chain' = {}
    /\ UNCHANGED <<head, tail, live, maps, committed, disk, expected, history>>

\* The process stops between two device writes; Lfs::open reads the device.
CrashAndOpen ==
    /\ Reload(disk)
    /\ committed' = [head |-> disk.head, tail |-> disk.tail]
    /\ UNCHANGED <<disk, dirty, overran>>

Next ==
    \/ Begin
    \/ \E old \in {{}} \cup {{b} : b \in live} : Append(old)
    \/ \E dead \in SUBSET live : Kill(dead)
    \/ WriteSuperblockEarly
    \/ PersistMapBlock
    \/ PersistSuperblock
    \/ CommitWithoutWrite
    \/ CleanSkip
    \/ CleanMove
    \/ CleanLoopEnds
    \/ NoSpace
    \/ CloseNoSpace
    \/ CrashAndOpen

Spec == Init /\ [][Next]_vars
-----------------------------------------------------------------------------
(* Properties *)

Cursors == [head : Log, tail : Log]

TypeOK ==
    /\ head \in Log /\ tail \in Log
    /\ live \subseteq Log /\ maps \subseteq Log /\ chain \subseteq Log
    /\ committed \in Cursors
    /\ disk \in [head : Log, tail : Log, live : SUBSET Log, maps : SUBSET Log]
    /\ phase \in Phases
    /\ expected \in Log \cup {NoBlock}
    /\ dirty \subseteq Log
    /\ overran \in BOOLEAN /\ lost \in BOOLEAN

\* allocate_block's test keeps a fifth of the log free at every moment, for the
\* cursors in memory, the committed ones and those on the device: the tail never
\* meets the head, and the special case "head == tail" of allocate_block is
\* never taken after formatting.
ReserveKept ==
    \A c \in {[head |-> head, tail |-> tail], committed,
              [head |-> disk.head, tail |-> disk.tail]} :
        LogDistance(c.tail, c.head) >= Reserved

\* Every block in the segment summary lies between head and tail, and every block
\* the inode map on the device leads to lies between the committed cursors (the
\* ones NoSpace goes back to) and between those on the device (the ones a
\* reopen goes back to).
LiveInWindow ==
    /\ live \cup maps \subseteq Window(head, tail)
    /\ Reached(disk) \subseteq Window(committed.head, committed.tail)
    /\ Reached(disk) \subseteq Window(disk.head, disk.tail)

\* Until the inode map is persisted again, no call overwrites a block the map on
\* the device leads to: a NoSpace or a crash at any moment finds the old state
\* whole.  A cleaner that has run past the blocks that were free is the exception.
DurableIntact == ~overran => Reached(disk) \cap dirty = {}

\* A reload reads an overwritten block only after a cleaner has overrun.
LostOnlyByOverrun == lost => overran

\* The cleaner's own allocation cannot fail: allocate_block always has room for
\* the copy of the live block the head has just left.
CleanerCanMove ==
    Cleaning /\ ~CleanedEnough /\ head \in live
        => FreeSpace(NextBlock(head), tail, (live \ {head}) \cup maps) > Reserved

\* The assertion of SequentialBlockDevice ("Non-sequential write detected") never
\* fails: the next log write is at the block the device expects.
DeviceInOrder == expected \in {NoBlock, tail}
=============================================================================
