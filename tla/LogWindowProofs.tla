--------------------------- MODULE LogWindowProofs ---------------------------
(* Proofs about LogWindow, for a log of any size.  The arithmetic of the      *)
(* circular log is stated once, in the lemmas of the first section.           *)
EXTENDS LogWindow, TLAPS

-----------------------------------------------------------------------------
(* Circular arithmetic *)

\* The fractions of allocate_block and clean, without division.
LEMMA Fractions ==
    /\ LogSize \in Nat
    /\ Reserved \in Nat /\ 1 <= Reserved /\ 5 * Reserved <= LogSize
    /\ TargetFree \in Nat /\ 4 * TargetFree <= LogSize
  BY LogAssumption, SMT DEF LogSize, Reserved, TargetFree

\* next_log_block stays in the log.
LEMMA NextInLog == \A b \in Log : NextBlock(b) \in Log
  BY LogAssumption DEF Log, LogSize, NextBlock

\* log_distance is a number smaller than the log, and only zero on the diagonal.
LEMMA DistanceRange ==
    \A a, b \in Log : /\ LogDistance(a, b) \in Nat
                      /\ LogDistance(a, b) < LogSize
                      /\ LogDistance(a, b) = 0 <=> a = b
  BY LogAssumption DEF Log, LogSize, LogDistance

\* Moving the tail one block forward when it does not thereby meet the head.
LEMMA TailStep ==
    ASSUME NEW h \in Log, NEW t \in Log, LogDistance(t, h) > 1
    PROVE  /\ LogDistance(NextBlock(t), h) = LogDistance(t, h) - 1
           /\ LogDistance(h, NextBlock(t)) = LogDistance(h, t) + 1
           /\ Window(h, NextBlock(t)) = Window(h, t) \cup {t}
  <1>1. /\ LogDistance(NextBlock(t), h) = LogDistance(t, h) - 1
        /\ LogDistance(h, NextBlock(t)) = LogDistance(h, t) + 1
    BY LogAssumption DEF Log, LogSize, LogDistance, NextBlock
  <1>2. \A b \in Log : LogDistance(h, b) = LogDistance(h, t) => b = t
    BY LogAssumption DEF Log, LogSize, LogDistance
  <1>3. \A b \in Log : LogDistance(h, b) < LogDistance(h, t) + 1
                         <=> LogDistance(h, b) < LogDistance(h, t) \/ b = t
    BY <1>2, DistanceRange
  <1> QED
    BY <1>1, <1>3 DEF Window

\* Moving the head one block forward when it is not at the tail, and the tail is
\* not just behind it.
LEMMA HeadStep ==
    ASSUME NEW h \in Log, NEW t \in Log, h # t, LogDistance(t, h) < LogSize - 1
    PROVE  /\ NextBlock(h) # t
           /\ LogDistance(t, NextBlock(h)) = LogDistance(t, h) + 1
           /\ Window(NextBlock(h), t) = Window(h, t) \ {h}
  <1>1. /\ NextBlock(h) # t
        /\ LogDistance(t, NextBlock(h)) = LogDistance(t, h) + 1
    BY LogAssumption DEF Log, LogSize, LogDistance, NextBlock
  <1>2. \A b \in Log : LogDistance(NextBlock(h), b) < LogDistance(NextBlock(h), t)
                         <=> LogDistance(h, b) < LogDistance(h, t) /\ b # h
    BY LogAssumption DEF Log, LogSize, LogDistance, NextBlock
  <1> QED
    BY <1>1, <1>2 DEF Window

\* A window grows with its far end.
LEMMA WindowGrows ==
    ASSUME NEW h \in Log, NEW s \in Log, NEW t \in Log,
           LogDistance(h, s) <= LogDistance(h, t)
    PROVE  Window(h, s) \subseteq Window(h, t)
  BY DistanceRange DEF Window

-----------------------------------------------------------------------------
(* The inductive invariant *)

\* Only the cleaner moves the head, and only a finished cleaner moves the
\* committed head and the one on the device, together.
HeadsAgree ==
    /\ disk.head = committed.head
    /\ phase \in {"idle", "op", "close"} => head = committed.head

\* Outside the cleaner the tail has never gone back behind the committed one.
TailAhead ==
    phase \in {"idle", "op", "close"}
        => LogDistance(committed.head, committed.tail) <= LogDistance(committed.head, tail)

\* The summary has one entry per block, and an inode map is being written only
\* at the end of a call.
MapsPlaced ==
    /\ live \cap maps = {}
    /\ chain \subseteq maps
    /\ phase \in {"idle", "clean", "copy"} => chain = {}

IInv ==
    /\ TypeOK
    /\ ReserveKept
    /\ LiveInWindow
    /\ HeadsAgree
    /\ TailAhead
    /\ MapsPlaced
    /\ DurableIntact
    /\ LostOnlyByOverrun

\* A formatted log satisfies IInv.
LEMMA InitIInv == Init => IInv
  <1> SUFFICES ASSUME Init PROVE IInv
    OBVIOUS
  <1>1. /\ head = LogStart /\ tail = LogStart + 6
        /\ live = {LogStart + 3, LogStart + 4} /\ maps = {LogStart + 5}
        /\ committed = [head |-> LogStart, tail |-> LogStart + 6]
        /\ disk = [head |-> LogStart, tail |-> LogStart + 6,
                   live |-> {LogStart + 3, LogStart + 4}, maps |-> {LogStart + 5}]
        /\ chain = {} /\ phase = "idle" /\ expected = LogStart + 6
        /\ dirty = {} /\ overran = FALSE /\ lost = FALSE
    BY DEF Init, Formatted
  <1>2. \A n \in 0..6 : LogStart + n \in Log
    BY LogAssumption DEF Log, LogSize
  <1>3. /\ LogStart \in Log /\ LogStart + 3 \in Log /\ LogStart + 4 \in Log
        /\ LogStart + 5 \in Log /\ LogStart + 6 \in Log
    BY LogAssumption, <1>2
  <1>4. TypeOK
    BY <1>1, <1>3 DEF TypeOK, Cursors, Phases
  <1>5. ReserveKept
    <2>1. LogDistance(LogStart + 6, LogStart) >= Reserved
      BY LogAssumption, Fractions DEF LogDistance, LogSize
    <2> QED
      BY <1>1, <2>1 DEF ReserveKept
  <1>6. LiveInWindow
    <2>1. {LogStart + 3, LogStart + 4, LogStart + 5} \subseteq Window(LogStart, LogStart + 6)
      BY LogAssumption, <1>3 DEF Window, LogDistance
    <2> QED
      BY <1>1, <2>1 DEF LiveInWindow, Reached
  <1>7. HeadsAgree /\ TailAhead /\ MapsPlaced
    BY <1>1, <1>3, DistanceRange DEF HeadsAgree, TailAhead, MapsPlaced
  <1>8. DurableIntact /\ LostOnlyByOverrun
    BY <1>1 DEF DurableIntact, LostOnlyByOverrun
  <1> QED
    BY <1>4, <1>5, <1>6, <1>7, <1>8 DEF IInv

\* What allocate_block's test guarantees when the reserve is kept: the tail can
\* advance, the reserve is still there afterwards, and the window grows by the
\* block that is written.
LEMMA Allocate ==
    ASSUME TypeOK, ReserveKept, HasSpace
    PROVE  /\ NextBlock(tail) \in Log
           /\ LogDistance(NextBlock(tail), head) >= Reserved
           /\ LogDistance(head, NextBlock(tail)) = LogDistance(head, tail) + 1
           /\ Window(head, NextBlock(tail)) = Window(head, tail) \cup {tail}
  <1>1. head \in Log /\ tail \in Log
    BY DEF TypeOK
  <1>2. LogDistance(tail, head) >= Reserved
    BY DEF ReserveKept
  <1>3. head # tail
    BY <1>1, <1>2, Fractions, DistanceRange
  <1>4. LogDistance(tail, head) > Reserved
    BY <1>3 DEF HasSpace, FreeSpace
  <1>5. LogDistance(tail, head) \in Nat /\ LogDistance(tail, head) > 1
    BY <1>1, <1>4, Fractions, DistanceRange
  <1>6. /\ LogDistance(NextBlock(tail), head) = LogDistance(tail, head) - 1
        /\ LogDistance(head, NextBlock(tail)) = LogDistance(head, tail) + 1
        /\ Window(head, NextBlock(tail)) = Window(head, tail) \cup {tail}
    BY <1>1, <1>5, TailStep
  <1> QED
    BY <1>1, <1>4, <1>5, <1>6, NextInLog, Fractions

\* What the head gains by one step of the cleaner, for as long as its loop runs:
\* one free block, and the window shrinks by the block it leaves.
LEMMA Reclaim ==
    ASSUME TypeOK, ReserveKept, ~CleanedEnough
    PROVE  /\ NextBlock(head) \in Log
           /\ NextBlock(head) # tail
           /\ LogDistance(tail, NextBlock(head)) = LogDistance(tail, head) + 1
           /\ Window(NextBlock(head), tail) = Window(head, tail) \ {head}
  <1>1. head \in Log /\ tail \in Log /\ head # tail
    BY DEF TypeOK, CleanedEnough
  <1>2. LogDistance(tail, head) < LogSize - 1
    BY <1>1, Fractions, DistanceRange DEF CleanedEnough
  <1> QED
    BY <1>1, <1>2, HeadStep, NextInLog

\* The blocks the device's map leads to are out of reach of the tail, unless the
\* write counts as an overrun.
LEMMA WriteAvoidsReached ==
    ASSUME IInv, NEW p, p \in {"op", "close"} => phase = p, WriteAtTail(p),
           p \in {"op", "close", "clean", "copy", "flush"}, ~overran'
    PROVE  Reached(disk) \cap dirty' = {}
  <1>1. ~overran /\ dirty' = dirty \cup {tail}
    BY DEF WriteAtTail
  <1>2. Reached(disk) \cap dirty = {}
    BY <1>1 DEF IInv, DurableIntact
  <1>3. Reached(disk) \subseteq Window(committed.head, committed.tail)
    BY DEF IInv, LiveInWindow
  <1>4. tail \notin Window(committed.head, committed.tail)
    <2>1. CASE p \in {"clean", "copy", "flush"}
      BY <2>1 DEF WriteAtTail
    <2>2. CASE p \in {"op", "close"}
      <3>1. LogDistance(committed.head, committed.tail) <= LogDistance(committed.head, tail)
        BY <2>2 DEF IInv, TailAhead
      <3>2. committed.head \in Log /\ committed.tail \in Log /\ tail \in Log
        BY DEF IInv, TypeOK, Cursors
      <3> QED
        BY <3>1, <3>2, DistanceRange DEF Window
    <2> QED
      BY <2>1, <2>2
  <1> QED
    BY <1>1, <1>2, <1>3, <1>4

\* The block at the tail is not in the segment summary.
LEMMA TailIsFree == IInv => tail \notin live \cup maps
  <1> SUFFICES ASSUME IInv PROVE tail \notin live \cup maps
    OBVIOUS
  <1>1. live \cup maps \subseteq Window(head, tail)
    BY DEF IInv, LiveInWindow
  <1>2. LogDistance(head, tail) \in Nat
    BY DistanceRange DEF IInv, TypeOK
  <1> QED
    BY <1>1, <1>2 DEF Window

\* A write at the tail keeps the three parts of the invariant that speak of the
\* tail, whatever becomes of `live' and `maps'.
LEMMA WriteKeeps ==
    ASSUME IInv, NEW p, p \in {"op", "close", "flush", "clean", "copy"},
           phase' = phase, phase = p, WriteAtTail(p), HasSpace,
           UNCHANGED <<head, committed, disk, lost>>
    PROVE  /\ tail' \in Log /\ expected' \in Log /\ dirty' \subseteq Log
           /\ overran' \in BOOLEAN
           /\ Window(head', tail') = Window(head, tail) \cup {tail}
           /\ ReserveKept' /\ HeadsAgree' /\ TailAhead'
           /\ DurableIntact' /\ LostOnlyByOverrun'
  <1> USE DEF IInv
  <1>1. /\ NextBlock(tail) \in Log
        /\ LogDistance(NextBlock(tail), head) >= Reserved
        /\ LogDistance(head, NextBlock(tail)) = LogDistance(head, tail) + 1
        /\ Window(head, NextBlock(tail)) = Window(head, tail) \cup {tail}
    BY Allocate
  <1>2. tail' = NextBlock(tail) /\ expected' = NextBlock(tail) /\ dirty' = dirty \cup {tail}
    BY DEF WriteAtTail
  <1>3. overran' \in BOOLEAN /\ (overran => overran')
    BY DEF WriteAtTail, TypeOK
  <1>4. dirty' \subseteq Log
    BY <1>2 DEF TypeOK
  <1>5. ReserveKept'
    BY <1>1, <1>2 DEF ReserveKept
  <1>6. HeadsAgree'
    BY DEF HeadsAgree
  <1>7. TailAhead'
    <2> SUFFICES ASSUME phase \in {"idle", "op", "close"}
                 PROVE  LogDistance(committed.head, committed.tail)
                          <= LogDistance(committed.head, tail')
      BY DEF TailAhead
    <2>1. head = committed.head
      BY DEF HeadsAgree
    <2>2. LogDistance(committed.head, committed.tail) <= LogDistance(committed.head, tail)
      BY DEF TailAhead
    <2>3. /\ LogDistance(head, tail) \in Nat
          /\ LogDistance(committed.head, committed.tail) \in Nat
      BY DistanceRange DEF TypeOK, Cursors
    <2> QED
      BY <1>1, <1>2, <2>1, <2>2, <2>3
  <1>8. DurableIntact'
    BY WriteAvoidsReached DEF DurableIntact
  <1>9. LostOnlyByOverrun'
    BY <1>3 DEF LostOnlyByOverrun
  <1> QED
    BY <1>1, <1>2, <1>3, <1>4, <1>5, <1>6, <1>7, <1>8, <1>9

\* Writing a block at the tail keeps IInv.
LEMMA AppendKeeps ==
    ASSUME IInv, NEW old \in {{}} \cup {{b} : b \in live}, Append(old)
    PROVE  IInv'
  <1> USE DEF IInv
  <1>1. /\ tail' \in Log /\ expected' \in Log /\ dirty' \subseteq Log
        /\ overran' \in BOOLEAN
        /\ Window(head', tail') = Window(head, tail) \cup {tail}
        /\ ReserveKept' /\ HeadsAgree' /\ TailAhead'
        /\ DurableIntact' /\ LostOnlyByOverrun'
    BY WriteKeeps DEF Append
  <1>2. live' = (live \ old) \cup {tail}
    BY DEF Append
  <1>3. TypeOK'
    BY <1>1, <1>2 DEF Append, TypeOK
  <1>4. LiveInWindow'
    BY <1>1, <1>2 DEF Append, LiveInWindow
  <1>5. MapsPlaced'
    BY <1>2, TailIsFree DEF Append, MapsPlaced
  <1> QED
    BY <1>1, <1>3, <1>4, <1>5

\* So does writing the inode map there.
LEMMA PersistMapBlockKeeps ==
    ASSUME IInv, PersistMapBlock
    PROVE  IInv'
  <1> USE DEF IInv
  <1>1. /\ tail' \in Log /\ expected' \in Log /\ dirty' \subseteq Log
        /\ overran' \in BOOLEAN
        /\ Window(head', tail') = Window(head, tail) \cup {tail}
        /\ ReserveKept' /\ HeadsAgree' /\ TailAhead'
        /\ DurableIntact' /\ LostOnlyByOverrun'
    BY WriteKeeps DEF PersistMapBlock
  <1>2. chain' = chain \cup {tail} /\ maps' = maps \cup {tail}
    BY DEF PersistMapBlock
  <1>3. TypeOK'
    BY <1>1, <1>2 DEF PersistMapBlock, TypeOK
  <1>4. LiveInWindow'
    BY <1>1, <1>2 DEF PersistMapBlock, LiveInWindow
  <1>5. MapsPlaced'
    BY <1>2, TailIsFree DEF PersistMapBlock, MapsPlaced
  <1> QED
    BY <1>1, <1>3, <1>4, <1>5

\* A finished call: memory becomes the committed and the durable state.
LEMMA PersistSuperblockKeeps ==
    ASSUME IInv, PersistSuperblock
    PROVE  IInv'
  <1> USE DEF IInv
  <1>1. /\ disk' = [head |-> head, tail |-> tail, live |-> live, maps |-> chain]
        /\ committed' = [head |-> head, tail |-> tail]
        /\ head' = head /\ tail' = tail /\ live' = live /\ maps' = maps
        /\ expected' = expected /\ chain' = {} /\ dirty' = {} /\ phase' = "idle"
        /\ overran' = lost /\ lost' = lost
    BY DEF PersistSuperblock
  <1>2. TypeOK'
    BY <1>1 DEF TypeOK, Cursors, Phases
  <1>3. ReserveKept'
    BY <1>1 DEF ReserveKept
  <1>4. LiveInWindow'
    BY <1>1 DEF LiveInWindow, MapsPlaced, Reached
  <1>5. HeadsAgree' /\ MapsPlaced'
    BY <1>1 DEF HeadsAgree, MapsPlaced
  <1>6. TailAhead'
    BY <1>1, <1>2, DistanceRange DEF TailAhead, TypeOK
  <1>7. DurableIntact' /\ LostOnlyByOverrun'
    BY <1>1 DEF DurableIntact, LostOnlyByOverrun
  <1> QED
    BY <1>2, <1>3, <1>4, <1>5, <1>6, <1>7

\* Calls that begin, blocks that leave the summary, and commits without a write.
LEMMA BookkeepingKeeps ==
    ASSUME IInv,
           \/ Begin
           \/ \E dead \in SUBSET live : Kill(dead)
           \/ CloseNoSpace
           \/ CleanLoopEnds
    PROVE  IInv'
  <1> USE DEF IInv
  <1>1. /\ head' = head /\ tail' = tail /\ maps' = maps /\ committed' = committed
        /\ disk' = disk /\ expected' = expected
        /\ dirty' = dirty /\ overran' = overran /\ lost' = lost
    BY DEF Begin, Kill, CloseNoSpace, CleanLoopEnds, memory, history
  <1>2. live' \subseteq live
    BY DEF Begin, Kill, CloseNoSpace, CleanLoopEnds, memory
  <1>3. /\ phase' \in Phases
        /\ phase' \in {"idle", "op", "close"} => phase \in {"idle", "op", "close"}
        /\ chain' = {} \/ (chain' = chain /\ phase' = phase)
    BY DEF Begin, Kill, CloseNoSpace, CleanLoopEnds, Cleaning, MapsPlaced, Phases, memory
  <1>4. TypeOK'
    <2>1. chain' \subseteq Log
      BY <1>3 DEF TypeOK
    <2> QED
      BY <1>1, <1>2, <1>3, <2>1 DEF TypeOK
  <1>5. ReserveKept'
    BY <1>1 DEF ReserveKept
  <1>6. LiveInWindow'
    BY <1>1, <1>2 DEF LiveInWindow
  <1>7. HeadsAgree' /\ TailAhead'
    BY <1>1, <1>3 DEF HeadsAgree, TailAhead
  <1>8. MapsPlaced'
    BY <1>1, <1>2, <1>3 DEF MapsPlaced
  <1>9. DurableIntact' /\ LostOnlyByOverrun'
    BY <1>1 DEF DurableIntact, LostOnlyByOverrun
  <1> QED
    BY <1>4, <1>5, <1>6, <1>7, <1>8, <1>9

\* The device's cursors, or the committed ones, catch up with those in memory
\* while the inode map on the device stays the same.
LEMMA CatchUpKeeps ==
    ASSUME IInv, WriteSuperblockEarly \/ CommitWithoutWrite
    PROVE  IInv'
  <1> USE DEF IInv
  <1>1. /\ head' = head /\ tail' = tail /\ live' = live /\ maps' = maps
        /\ chain' = chain /\ phase' = phase /\ expected' = expected
        /\ dirty' = dirty /\ overran' = overran /\ lost' = lost
    BY DEF WriteSuperblockEarly, CommitWithoutWrite, memory, history
  <1>2. /\ head = committed.head /\ head = disk.head
        /\ LogDistance(head, committed.tail) <= LogDistance(head, tail)
    BY DEF WriteSuperblockEarly, CommitWithoutWrite, HeadsAgree, TailAhead
  <1>3. /\ committed \in Cursors /\ committed' \in Cursors
        /\ disk' \in [head : Log, tail : Log, live : SUBSET Log, maps : SUBSET Log]
        /\ Reached(disk') = Reached(disk)
        /\ disk'.head = head /\ committed'.head = head
        /\ disk'.tail \in {disk.tail, tail} /\ committed'.tail \in {committed.tail, tail}
    <2>1. committed \in Cursors
          /\ disk \in [head : Log, tail : Log, live : SUBSET Log, maps : SUBSET Log]
          /\ head \in Log /\ tail \in Log
      BY DEF TypeOK
    <2>2. CASE WriteSuperblockEarly
      <3>1. committed' = committed /\ disk' = [disk EXCEPT !.head = head, !.tail = tail]
        BY <2>2 DEF WriteSuperblockEarly, memory
      <3> QED
        BY <1>2, <2>1, <3>1 DEF Cursors, Reached
    <2>3. CASE CommitWithoutWrite
      <3>1. committed' = [head |-> head, tail |-> tail] /\ disk' = disk
        BY <2>3 DEF CommitWithoutWrite
      <3> QED
        BY <1>2, <2>1, <3>1 DEF Cursors, Reached
    <2> QED
      BY <2>2, <2>3
  <1>4. TypeOK'
    BY <1>1, <1>3 DEF TypeOK
  <1>5. ReserveKept'
    BY <1>1, <1>2, <1>3 DEF ReserveKept
  <1>6. Reached(disk) \subseteq Window(head, tail)
    <2>1. Window(head, committed.tail) \subseteq Window(head, tail)
      BY <1>2, WindowGrows DEF TypeOK, Cursors
    <2> QED
      BY <1>2, <2>1 DEF LiveInWindow
  <1>7. LiveInWindow'
    BY <1>1, <1>2, <1>3, <1>6 DEF LiveInWindow
  <1>8. HeadsAgree' /\ MapsPlaced'
    BY <1>1, <1>3 DEF HeadsAgree, MapsPlaced
  <1>9. TailAhead'
    <2>1. LogDistance(head, tail) \in Nat
      BY DistanceRange DEF TypeOK
    <2> QED
      BY <1>1, <1>2, <1>3, <2>1 DEF TailAhead
  <1>10. DurableIntact' /\ LostOnlyByOverrun'
    BY <1>1, <1>3 DEF DurableIntact, LostOnlyByOverrun
  <1> QED
    BY <1>4, <1>5, <1>7, <1>8, <1>9, <1>10

\* Passing over a dead block keeps IInv.
LEMMA CleanSkipKeeps ==
    ASSUME IInv, CleanSkip
    PROVE  IInv'
  <1> USE DEF IInv
  <1>1. /\ head' = NextBlock(head) /\ maps' = maps \ {head} /\ phase' = "clean"
        /\ tail' = tail /\ live' = live /\ chain' = chain /\ committed' = committed
        /\ disk' = disk /\ expected' = expected
        /\ dirty' = dirty /\ overran' = overran /\ lost' = lost
        /\ head \notin live
    BY DEF CleanSkip, history
  <1>2. /\ NextBlock(head) \in Log
        /\ LogDistance(tail, NextBlock(head)) = LogDistance(tail, head) + 1
        /\ Window(NextBlock(head), tail) = Window(head, tail) \ {head}
    BY Reclaim DEF CleanSkip
  <1>3. TypeOK'
    BY <1>1, <1>2 DEF TypeOK, Phases
  <1>4. ReserveKept'
    <2>1. LogDistance(tail, head) \in Nat
      BY DistanceRange DEF TypeOK
    <2> QED
      BY <1>1, <1>2, <2>1, Fractions DEF ReserveKept
  <1>5. LiveInWindow'
    BY <1>1, <1>2 DEF LiveInWindow
  <1>6. HeadsAgree' /\ TailAhead'
    BY <1>1 DEF HeadsAgree, TailAhead
  <1>7. MapsPlaced'
    BY <1>1 DEF MapsPlaced, CleanSkip, Cleaning
  <1>8. DurableIntact' /\ LostOnlyByOverrun'
    BY <1>1 DEF DurableIntact, LostOnlyByOverrun
  <1> QED
    BY <1>3, <1>4, <1>5, <1>6, <1>7, <1>8

\* Moving a live block from the head to the tail keeps IInv.
LEMMA CleanMoveKeeps ==
    ASSUME IInv, CleanMove
    PROVE  IInv'
  <1> USE DEF IInv
  <1>1. /\ head' = NextBlock(head) /\ tail' = NextBlock(tail)
        /\ live' = (live \ {head}) \cup {tail} /\ phase' = "copy"
        /\ maps' = maps /\ chain' = chain /\ committed' = committed
        /\ disk' = disk /\ expected' = NextBlock(tail) /\ lost' = lost
        /\ head \in live /\ ~CleanedEnough /\ phase \in {"clean", "copy"}
        /\ dirty' = dirty \cup {tail}
    BY DEF CleanMove, WriteAtTail, Cleaning
  <1>2. /\ head \in Log /\ tail \in Log /\ NextBlock(head) \in Log /\ NextBlock(tail) \in Log
        /\ LogDistance(tail, head) >= Reserved /\ LogDistance(tail, head) \in Nat
    BY NextInLog, DistanceRange DEF TypeOK, ReserveKept
  <1>3. /\ LogDistance(tail, NextBlock(head)) = LogDistance(tail, head) + 1
        /\ Window(NextBlock(head), tail) = Window(head, tail) \ {head}
    BY <1>1, Reclaim
  <1>4. /\ LogDistance(NextBlock(tail), NextBlock(head)) = LogDistance(tail, head)
        /\ Window(NextBlock(head), NextBlock(tail)) = (Window(head, tail) \ {head}) \cup {tail}
    <2>1. LogDistance(tail, NextBlock(head)) > 1
      BY <1>2, <1>3, Fractions
    <2> QED
      BY <1>2, <1>3, <2>1, TailStep
  <1>5. chain = {}
    BY <1>1 DEF MapsPlaced
  <1>6. overran' \in BOOLEAN /\ (overran => overran')
    BY DEF CleanMove, WriteAtTail, TypeOK
  <1>7. TypeOK'
    BY <1>1, <1>2, <1>6 DEF TypeOK, Phases
  <1>8. ReserveKept'
    BY <1>1, <1>2, <1>4 DEF ReserveKept
  <1>9. LiveInWindow'
    <2>1. head \notin maps
      BY <1>1 DEF MapsPlaced
    <2> QED
      BY <1>1, <1>4, <2>1 DEF LiveInWindow
  <1>10. HeadsAgree' /\ TailAhead' /\ MapsPlaced'
    BY <1>1, <1>5, TailIsFree DEF HeadsAgree, TailAhead, MapsPlaced
  <1>11. DurableIntact'
    BY <1>1, WriteAvoidsReached DEF DurableIntact, CleanMove
  <1>12. LostOnlyByOverrun'
    BY <1>1, <1>6 DEF LostOnlyByOverrun
  <1> QED
    BY <1>7, <1>8, <1>9, <1>10, <1>11, <1>12

\* A reload goes back to cursors between which the durable state lies.
LEMMA ReloadKeeps ==
    ASSUME IInv, NoSpace \/ CrashAndOpen
    PROVE  IInv'
  <1> USE DEF IInv
  <1>1. PICK c \in {committed, disk} :
            /\ Reload(c)
            /\ committed'.head = c.head /\ committed'.tail = c.tail
            /\ committed' \in Cursors
    BY DEF NoSpace, CrashAndOpen, TypeOK, Cursors
  <1>2. disk' = disk /\ dirty' = dirty /\ overran' = overran
    BY DEF NoSpace, CrashAndOpen
  <1>3. /\ head' = c.head /\ tail' = c.tail /\ live' = disk.live /\ maps' = {}
        /\ chain' = {} /\ expected' = NoBlock /\ phase' = "idle"
        /\ lost' = (lost \/ Reached(disk) \cap dirty # {})
    BY <1>1 DEF Reload
  <1>4. c.head \in Log /\ c.tail \in Log /\ c.head = disk.head
    BY DEF TypeOK, Cursors, HeadsAgree
  <1>5. TypeOK'
    BY <1>1, <1>2, <1>3, <1>4 DEF TypeOK, Phases
  <1>6. ReserveKept'
    BY <1>1, <1>2, <1>3 DEF ReserveKept
  <1>7. LiveInWindow'
    BY <1>1, <1>2, <1>3 DEF LiveInWindow, Reached
  <1>8. HeadsAgree' /\ MapsPlaced'
    BY <1>1, <1>2, <1>3, <1>4 DEF HeadsAgree, MapsPlaced
  <1>9. TailAhead'
    BY <1>1, <1>3, <1>4, DistanceRange DEF TailAhead
  <1>10. DurableIntact' /\ LostOnlyByOverrun'
    BY <1>2, <1>3 DEF DurableIntact, LostOnlyByOverrun
  <1> QED
    BY <1>5, <1>6, <1>7, <1>8, <1>9, <1>10

\* Every step keeps IInv.
LEMMA NextIInv == IInv /\ [Next]_vars => IInv'
  <1> SUFFICES ASSUME IInv, [Next]_vars PROVE IInv'
    OBVIOUS
  <1>1. ASSUME NEW old \in {{}} \cup {{b} : b \in live}, Append(old) PROVE IInv'
    BY <1>1, AppendKeeps
  <1>2. CASE PersistMapBlock
    BY <1>2, PersistMapBlockKeeps
  <1>3. CASE PersistSuperblock
    BY <1>3, PersistSuperblockKeeps
  <1>4. CASE Begin \/ (\E dead \in SUBSET live : Kill(dead)) \/ CloseNoSpace \/ CleanLoopEnds
    BY <1>4, BookkeepingKeeps
  <1>5. CASE WriteSuperblockEarly \/ CommitWithoutWrite
    BY <1>5, CatchUpKeeps
  <1>6. CASE CleanSkip
    BY <1>6, CleanSkipKeeps
  <1>7. CASE CleanMove
    BY <1>7, CleanMoveKeeps
  <1>8. CASE NoSpace \/ CrashAndOpen
    BY <1>8, ReloadKeeps
  <1>9. CASE UNCHANGED vars
    BY <1>9 DEF IInv, TypeOK, ReserveKept, LiveInWindow, HeadsAgree, TailAhead,
                MapsPlaced, DurableIntact, LostOnlyByOverrun, vars, memory, history
  <1> QED
    BY <1>1, <1>2, <1>3, <1>4, <1>5, <1>6, <1>7, <1>8, <1>9 DEF Next

\* What the head has left is room for what it moves.
LEMMA CleanerRoom == IInv => CleanerCanMove
  <1> SUFFICES ASSUME IInv, Cleaning, ~CleanedEnough, head \in live
               PROVE  FreeSpace(NextBlock(head), tail, (live \ {head}) \cup maps) > Reserved
    BY DEF CleanerCanMove
  <1>1. TypeOK /\ ReserveKept
    BY DEF IInv
  <1>2. /\ NextBlock(head) # tail
        /\ LogDistance(tail, NextBlock(head)) = LogDistance(tail, head) + 1
    BY <1>1, Reclaim
  <1>3. LogDistance(tail, head) \in Nat /\ LogDistance(tail, head) >= Reserved
    BY <1>1, DistanceRange DEF TypeOK, ReserveKept
  <1> QED
    BY <1>2, <1>3, Fractions DEF FreeSpace

-----------------------------------------------------------------------------
(* The theorems *)

\* The state keeps its shape and the invariant holds, whatever the size of the
\* log, in every state the log can reach.
THEOREM InvariantHolds == Spec => []IInv
  BY InitIInv, NextIInv, PTL DEF Spec

\* allocate_block's reserve of a fifth of the log is never eaten: head and tail
\* never meet.
THEOREM ReserveAlwaysKept == Spec => []ReserveKept
  <1>1. IInv => ReserveKept
    BY DEF IInv
  <1> QED
    BY <1>1, InvariantHolds, PTL

\* Whatever is allocated, written, removed, cleaned, retried or cut short by a
\* crash, no block the inode map on the device leads to is overwritten before
\* the map is persisted again, unless a cleaner has used up the free blocks.
THEOREM DurableStateIntact == Spec => []DurableIntact
  <1>1. IInv => DurableIntact
    BY DEF IInv
  <1> QED
    BY <1>1, InvariantHolds, PTL

\* The segment summary and the durable inode map stay between their cursors.
THEOREM LiveStaysInWindow == Spec => []LiveInWindow
  <1>1. IInv => LiveInWindow
    BY DEF IInv
  <1> QED
    BY <1>1, InvariantHolds, PTL

\* The cleaner always has room for the copy of the block it is moving.
THEOREM CleanerAlwaysMoves == Spec => []CleanerCanMove
  BY CleanerRoom, InvariantHolds, PTL

\* SequentialBlockDevice's assertion never fails: every step moves the tail and the
\* block the device expects together, leaves both alone, or forgets the latter.
THEOREM WritesInOrder == Spec => []DeviceInOrder
  <1>1. Init => DeviceInOrder
    BY DEF Init, DeviceInOrder
  <1>2. DeviceInOrder /\ [Next]_vars => DeviceInOrder'
    <2> SUFFICES ASSUME DeviceInOrder, [Next]_vars PROVE DeviceInOrder'
      OBVIOUS
    <2> USE DEF DeviceInOrder
    <2>1. CASE \/ \E old \in {{}} \cup {{b} : b \in live} : Append(old)
               \/ PersistMapBlock \/ CleanMove
      <3>1. expected' = tail'
        BY <2>1 DEF Append, PersistMapBlock, CleanMove, WriteAtTail
      <3> QED
        BY <3>1
    <2>2. CASE NoSpace \/ CrashAndOpen
      BY <2>2 DEF NoSpace, CrashAndOpen, Reload
    <2>3. CASE \/ Begin \/ WriteSuperblockEarly \/ PersistSuperblock \/ CommitWithoutWrite
               \/ (\E dead \in SUBSET live : Kill(dead))
               \/ CleanSkip \/ CleanLoopEnds \/ CloseNoSpace \/ UNCHANGED vars
      <3>1. expected' = expected /\ tail' = tail
        BY <2>3 DEF Begin, WriteSuperblockEarly, PersistSuperblock, CommitWithoutWrite, Kill,
                    CleanSkip, CleanLoopEnds, CloseNoSpace, vars, memory
      <3> QED
        BY <3>1
    <2> QED
      BY <2>1, <2>2, <2>3 DEF Next
  <1> QED
    BY <1>1, <1>2, PTL DEF Spec
=============================================================================
