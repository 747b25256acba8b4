---------------------------- MODULE FileOutProofs ----------------------------
(* Proofs about FileOut, for any finite number of copies and any order of     *)
(* their steps.                                                               *)
EXTENDS FileOut, FiniteSetTheorems, TLAPS

\* What the count says of the references.
LEMMA CountsRefs ==
    ASSUME TypeOK
    PROVE  /\ IsFiniteSet(Refs) /\ count \in Nat
           /\ count = 0 <=> Refs = {}
           /\ \A h \in Refs : count = 1 <=> Refs = {h}
  <1>1. IsFiniteSet(Refs)
    BY FileOutAssumption, FS_Subset DEF Refs
  <1>2. count = Cardinality(Refs)
    BY DEF TypeOK
  <1>3. count \in Nat /\ (count = 0 <=> Refs = {})
    BY <1>1, <1>2, FS_CardinalityType, FS_EmptySet
  <1>4. \A h \in Refs : count = 1 <=> Refs = {h}
    BY <1>1, <1>2, FS_Singleton
  <1> QED
    BY <1>1, <1>3, <1>4

\* Fresh copies satisfy IInv.
LEMMA InitIInv == Init => IInv
  <1> SUFFICES ASSUME Init PROVE IInv
    OBVIOUS
  <1>1. Refs = {First}
    BY FileOutAssumption DEF Init, Refs
  <1>2. TypeOK
    <2>1. handle \in [Handles -> States]
      BY DEF Init, States
    <2>2. count = Cardinality(Refs)
      BY <1>1, FS_Singleton, Zenon DEF Init
    <2>3. buffer \in Seq(Pieces) /\ Len(buffer) <= MaxPieces
      BY FileOutAssumption DEF Init
    <2>4. refused \in BOOLEAN /\ crossed \in BOOLEAN
      BY Zenon DEF Init
    <2> QED
      BY <2>1, <2>2, <2>3, <2>4 DEF TypeOK
  <1>3. LastIsAlone /\ LeavesFlushed
    BY <1>1, FileOutAssumption DEF Init, LastIsAlone, LeavesFlushed
  <1> QED
    BY <1>2, <1>3 DEF IInv

\* A writer is live: it will look at the count after what it writes.
LEMMA WriteStrKeeps ==
    ASSUME IInv, NEW h \in Handles, WriteStr(h)
    PROVE  IInv'
  <1>1. h \in Refs /\ Refs' = Refs
    BY DEF WriteStr, Refs
  <1>2. TypeOK'
    BY <1>1, FileOutAssumption DEF IInv, TypeOK, WriteStr
  <1>3. LastIsAlone' /\ LeavesFlushed'
    BY <1>1 DEF IInv, LastIsAlone, LeavesFlushed, WriteStr
  <1> QED
    BY <1>2, <1>3 DEF IInv

\* A flush that its owner asks for keeps IInv, refused or not.
LEMMA FlushKeeps ==
    ASSUME IInv, NEW h \in Handles, Flush(h)
    PROVE  IInv'
  <1>1. h \in Refs /\ Refs' = Refs
    BY DEF Flush, Refs
  <1>2. TypeOK'
    BY <1>1 DEF IInv, TypeOK, Flush
  <1>3. LastIsAlone' /\ LeavesFlushed'
    BY <1>1 DEF IInv, LastIsAlone, LeavesFlushed, Flush
  <1> QED
    BY <1>2, <1>3 DEF IInv

\* A new copy adds one reference, and the copy it was made of is another.
LEMMA DupKeeps ==
    ASSUME IInv, NEW h \in Handles, Dup(h)
    PROVE  IInv'
  <1> PICK g \in Handles : handle[g] = "new" /\ handle' = [handle EXCEPT ![g] = "live"]
    BY DEF Dup
  <1>1. h \in Refs /\ g \notin Refs /\ Refs' = Refs \cup {g}
    BY DEF IInv, TypeOK, Dup, Refs
  <1>2. TypeOK'
    <2>1. handle' \in [Handles -> States]
      BY DEF IInv, TypeOK, States
    <2>2. count' = Cardinality(Refs')
      BY <1>1, CountsRefs, FS_AddElement DEF IInv, TypeOK, Dup
    <2> QED
      BY <2>1, <2>2 DEF IInv, TypeOK, Dup
  <1>3. LastIsAlone'
    <2>1. \A i \in Handles : handle[i] # "last"
      BY <1>1 DEF IInv, LastIsAlone, Dup
    <2> QED
      BY <2>1 DEF IInv, TypeOK, LastIsAlone
  <1>4. LeavesFlushed'
    BY <1>1 DEF IInv, TypeOK, LeavesFlushed
  <1> QED
    BY <1>2, <1>3, <1>4 DEF IInv

\* A copy that begins to be dropped has its look before it.
LEMMA DropKeeps ==
    ASSUME IInv, NEW h \in Handles, Drop(h)
    PROVE  IInv'
  <1>1. h \in Refs /\ Refs' = Refs
    BY DEF IInv, TypeOK, Drop, Refs
  <1>2. TypeOK'
    BY <1>1 DEF IInv, TypeOK, States, Drop
  <1>3. LastIsAlone' /\ LeavesFlushed'
    BY <1>1 DEF IInv, TypeOK, LastIsAlone, LeavesFlushed, Drop
  <1> QED
    BY <1>2, <1>3 DEF IInv

\* A copy that sees a count of 1 is alone. One that sees more leaves somebody behind
\* who will look, or crosses the drops of all the others.
LEMMA LooksKeeps ==
    ASSUME IInv, NEW h \in Handles, Looks(h)
    PROVE  IInv'
  <1>1. h \in Refs /\ Refs' = Refs
    BY DEF IInv, TypeOK, Looks, Refs
  <1>2. TypeOK'
    <2>1. handle' \in [Handles -> States]
      BY DEF IInv, TypeOK, States, Looks
    <2>2. crossed' \in BOOLEAN
      BY Zenon DEF Looks
    <2> QED
      BY <1>1, <2>1, <2>2 DEF IInv, TypeOK, Looks
  <1>3. \A g \in Handles : g # h => handle[g] # "last"
    BY <1>1 DEF IInv, LastIsAlone, Looks
  <1>4. CASE count = 1
    <2>1. Refs = {h} /\ handle'[h] = "last"
      BY <1>1, <1>4, CountsRefs DEF IInv, TypeOK, Looks
    <2> QED
      BY <1>1, <1>2, <1>3, <2>1 DEF IInv, TypeOK, LastIsAlone, LeavesFlushed, Looks
  <1>5. CASE count # 1
    <2>1. handle' = [handle EXCEPT ![h] = "leaving"] /\ (Crosses(h) => crossed')
      BY <1>5 DEF Looks
    <2>2. LastIsAlone'
      BY <1>1, <1>3, <2>1 DEF IInv, TypeOK, LastIsAlone
    <2>3. LeavesFlushed'
      <3> SUFFICES ASSUME \A g \in Refs : handle'[g] = "leaving" PROVE crossed'
        BY <1>1 DEF LeavesFlushed, Kept
      <3>1. \A g \in Refs \ {h} : handle[g] = "leaving"
        BY <2>1 DEF Refs
      <3> QED
        BY <1>5, <2>1, <3>1 DEF Crosses
    <2> QED
      BY <1>2, <2>2, <2>3 DEF IInv
  <1> QED
    BY <1>4, <1>5

\* The flush of the last copy writes all of the buffer, or is refused.
LEMMA LastFlushKeeps ==
    ASSUME IInv, NEW h \in Handles, LastFlush(h)
    PROVE  IInv'
  <1>1. Refs = {h} /\ Refs' = {h}
    BY DEF IInv, TypeOK, LastIsAlone, LastFlush, Refs
  <1>2. TypeOK'
    BY <1>1 DEF IInv, TypeOK, States, LastFlush
  <1>3. LastIsAlone'
    BY <1>1 DEF IInv, TypeOK, LastIsAlone, LastFlush, Refs
  <1>4. LeavesFlushed'
    BY DEF LeavesFlushed, Kept, LastFlush, Written
  <1> QED
    BY <1>2, <1>3, <1>4 DEF IInv

\* A reference is released by a copy that will neither look nor flush.
LEMMA ReleaseKeeps ==
    ASSUME IInv, NEW h \in Handles, Release(h)
    PROVE  IInv'
  <1>1. h \in Refs /\ Refs' = Refs \ {h}
    BY DEF IInv, TypeOK, Release, Refs
  <1>2. TypeOK'
    <2>1. handle' \in [Handles -> States]
      BY DEF IInv, TypeOK, States, Release
    <2>2. count' = Cardinality(Refs')
      BY <1>1, CountsRefs, FS_RemoveElement DEF IInv, TypeOK, Release
    <2> QED
      BY <2>1, <2>2 DEF IInv, TypeOK, Release
  <1>3. LastIsAlone'
    BY <1>1 DEF IInv, TypeOK, LastIsAlone, Release
  <1>4. LeavesFlushed'
    <2> SUFFICES ASSUME \A g \in Refs' : handle'[g] = "leaving" PROVE Kept
      BY DEF LeavesFlushed, Kept, Release
    <2>1. \A g \in Refs : handle[g] = "leaving"
      BY <1>1 DEF IInv, TypeOK, Release
    <2> QED
      BY <2>1 DEF IInv, LeavesFlushed
  <1> QED
    BY <1>2, <1>3, <1>4 DEF IInv

\* A step of nothing keeps IInv.
LEMMA StutterKeeps ==
    ASSUME IInv, UNCHANGED vars
    PROVE  IInv'
  BY DEF IInv, vars, TypeOK, LastIsAlone, LeavesFlushed, Kept, Refs

\* Every step keeps IInv.
LEMMA NextIInv == IInv /\ [Next]_vars => IInv'
  BY WriteStrKeeps, FlushKeeps, DupKeeps, DropKeeps, LooksKeeps, LastFlushKeeps,
     ReleaseKeeps, StutterKeeps
  DEF Next, Ends

-----------------------------------------------------------------------------
\* The inductive invariant of every execution, overlapping drops and refused flushes
\* included.
THEOREM InvariantHolds == Spec => []IInv
  BY InitIInv, NextIInv, PTL DEF Spec

\* For any finite number of copies, in any interleaving of writes, dups, flushes and
\* the steps of drops: when the last copy is gone, the file holds the whole buffer, as
\* FileStdioOut's doc says, unless the filesystem refused the flush of the drop or two
\* drops crossed.
THEOREM FlushedWhenDropped == Spec => []FlushedAtTheEnd
  <1>1. IInv => FlushedAtTheEnd
    <2> SUFFICES ASSUME IInv, count = 0 PROVE Kept
      BY DEF FlushedAtTheEnd
    <2>1. Refs = {}
      BY CountsRefs DEF IInv
    <2> QED
      BY <2>1 DEF IInv, LeavesFlushed
  <1> QED
    BY InvariantHolds, <1>1, PTL

\* Where copies are dropped one at a time, as the shell's one thread does, no drops
\* cross, so that a flush the filesystem refused is all that loses text.
THEOREM OneAtATime == Spec /\ []OneDrops => []NeverCrossed
  <1>1. Init => NeverCrossed
    BY DEF Init, NeverCrossed
  <1>2. ASSUME IInv, OneDrops, NeverCrossed, [Next]_vars
        PROVE  NeverCrossed'
    <2>1. ASSUME NEW h \in Handles, Looks(h)
          PROVE  ~Crosses(h)
      <3> SUFFICES ASSUME Crosses(h) PROVE FALSE
        OBVIOUS
      <3>1. h \in Refs /\ h \in Dropping
        BY <2>1 DEF Looks, Refs, Dropping
      <3>2. Refs # {h}
        BY <1>2, <3>1, CountsRefs DEF IInv, Crosses
      <3>3. PICK g \in Refs \ {h} : handle[g] = "leaving"
        BY <3>1, <3>2 DEF Crosses
      <3>4. g \in Dropping
        BY <3>3 DEF Refs, Dropping
      <3> QED
        BY <1>2, <3>1, <3>3, <3>4 DEF OneDrops
    <2> QED
      BY <1>2, <2>1 DEF Next, Ends, WriteStr, Dup, Flush, Drop, Looks, LastFlush, Release,
         vars, NeverCrossed
  <1> QED
    BY InvariantHolds, <1>1, <1>2, PTL DEF Spec
=============================================================================
