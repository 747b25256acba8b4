-------------------------------- MODULE MCLfs --------------------------------
(* Instances of Lfs for TLC: the histories each run tries, over a small log   *)
(* (blocks of two cells, one direct pointer and two indirect ones) and over   *)
(* one a single file can fill for the cleaner.                                *)
EXTENDS Lfs

NoCalls == [kind \in Kinds |-> 0]

\* Every call but clean; the log fills up on the way.  Two cells in the first
\* block, one in the second, one that spans both.
Filling ==
    [calls  |-> [NoCalls EXCEPT !.create = 2, !.open = 1, !.write = 2, !.truncate = 1,
                                !.remove = 1, !.close = 1],
     writes |-> {[pos |-> 0, data |-> <<1, 1>>], [pos |-> 2, data |-> <<2>>],
                 [pos |-> 1, data |-> <<3, 3>>]},
     sizes  |-> {1, 3}]

\* One file, and cleaning over and over.
Cleaning ==
    [calls  |-> [NoCalls EXCEPT !.create = 1, !.write = 1, !.truncate = 1, !.clean = 12],
     writes |-> {[pos |-> 0, data |-> <<1, 2, 3, 4>>]},
     sizes  |-> {2}]

\* A file that is removed while it is open, once or twice.
Removing ==
    [calls  |-> [NoCalls EXCEPT !.create = 2, !.open = 1, !.write = 1, !.truncate = 1,
                                !.remove = 2, !.close = 2],
     writes |-> {[pos |-> 0, data |-> <<1, 2>>]},
     sizes  |-> {1}]

\* In a log of 205 blocks, a file whose live blocks leave just a quarter of the
\* log free for the cleaner, or one block less, or one the log refuses.
Full ==
    [calls  |-> [NoCalls EXCEPT !.create = 1, !.write = 1, !.clean = 1],
     writes |-> {[pos |-> 0, data |-> [i \in 1 .. n |-> 1]] : n \in {151, 152, 153}},
     sizes  |-> {}]

FillingOrCleaning == {Filling, Cleaning}
RemovingOrFull == {Removing, Full}

\* Next under the theorems' hypotheses: no write reaches a block the superblock on
\* the device still needs, and no removal is refused half way.
CarefulNext ==
    \/ Starts
    \/ WriteData /\ ~overran'
    \/ WriteIndirect /\ ~overran'
    \/ WriteInode /\ ~overran'
    \/ WriteMap /\ ~overran'
    \/ CleanMove /\ ~overran'
    \/ Finish /\ ~overran'
    \/ NoSpace /\ ~RefusedRemoval
    \/ CutBlock \/ MarkUnlinked \/ FreeInode \/ WriteSuperblock
    \/ CleanSkip \/ CleanLoopEnds \/ FlushNext \/ CloseNoSpace
    \/ CrashAndOpen
CarefulSpec == Init /\ [][CarefulNext]_vars
=============================================================================
