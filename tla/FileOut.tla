------------------------------- MODULE FileOut -------------------------------
(***************************************************************************)
(* Output redirected to a file (FileStdioOut, eudaemonty/src/lib.rs): the  *)
(* copies of one output share a buffer behind a mutex, and the copy that   *)
(* finds itself the last when it is dropped writes the buffer to the file. *)
(* Dropping is three steps: read the reference count, flush if it is 1,    *)
(* give up the reference.                                                  *)
(***************************************************************************)
EXTENDS Integers, Sequences, FiniteSets

CONSTANTS
    Handles,        \* the copies
    First,          \* the one that was created
    Pieces,         \* the strings written
    MaxPieces,      \* bound of the model: strings written in all
    NoFile          \* the contents of the file before the first flush

ASSUME FileOutAssumption ==
    /\ First \in Handles /\ IsFiniteSet(Handles)
    /\ MaxPieces \in Nat

VARIABLES
    buffer,     \* the shared buffer
    count,      \* Arc::strong_count
    handle,     \* where each copy is
    file,       \* the contents of the file
    \* History, read by the properties only:
    refused,    \* the filesystem refused the flush of a drop, which discards the error
    crossed     \* a copy saw others, each of which had looked before it

vars == <<buffer, count, handle, file, refused, crossed>>

\* new: not a copy yet; live; dropping: drop was called; last, other: it saw a count
\* of 1, or more; leaving: its own work is done, its reference is not released;
\* gone.
States == {"new", "live", "dropping", "last", "leaving", "gone"}

\* The copies that hold a reference, and those whose drop is under way.
Refs == {h \in Handles : handle[h] \notin {"new", "gone"}}
Dropping == {h \in Handles : handle[h] \in {"dropping", "last", "leaving"}}

Init ==
    /\ buffer = <<>>
    /\ count = 1
    /\ handle = [h \in Handles |-> IF h = First THEN "live" ELSE "new"]
    /\ file = NoFile
    /\ refused = FALSE /\ crossed = FALSE

WriteStr(h) ==
    /\ handle[h] = "live"
    /\ Len(buffer) < MaxPieces
    /\ \E s \in Pieces : buffer' = Append(buffer, s)
    /\ UNCHANGED <<count, handle, file, refused, crossed>>

Dup(h) ==
    /\ handle[h] = "live"
    /\ count' = count + 1
    /\ \E g \in Handles : handle[g] = "new" /\ handle' = [handle EXCEPT ![g] = "live"]
    /\ UNCHANGED <<buffer, file, refused, crossed>>

\* write_string of the filesystem: it replaces the file, or is refused with the file
\* as it was or cut short.
Written == file' = buffer
WriteRefused == file' = file \/ \E n \in 0..Len(buffer) : file' = SubSeq(buffer, 1, n)

\* flush, called by its owner, who is told when it is refused.
Flush(h) ==
    /\ handle[h] = "live"
    /\ Written \/ WriteRefused
    /\ UNCHANGED <<buffer, count, handle, refused, crossed>>

Drop(h) ==
    /\ handle[h] = "live"
    /\ handle' = [handle EXCEPT ![h] = "dropping"]
    /\ UNCHANGED <<buffer, count, file, refused, crossed>>

\* The others have all looked: none of them will flush any more.
Crosses(h) ==
    /\ count # 1
    /\ \A g \in Refs \ {h} : handle[g] = "leaving"

\* Seeded bug: the count is compared with 0.
LooksBug(h) ==
    /\ handle[h] = "dropping"
    /\ handle' = [handle EXCEPT ![h] = IF count = 0 THEN "last" ELSE "leaving"]
    /\ crossed' = (crossed \/ Crosses(h))
    /\ UNCHANGED <<buffer, count, file, refused>>

\* Drop::drop reads the reference count.
Looks(h) ==
    /\ handle[h] = "dropping"
    /\ handle' = [handle EXCEPT ![h] = IF count = 1 THEN "last" ELSE "leaving"]
    /\ crossed' = (crossed \/ Crosses(h))
    /\ UNCHANGED <<buffer, count, file, refused>>

\* The flush of a drop, whose error nobody hears of.
LastFlush(h) ==
    /\ handle[h] = "last"
    /\ \/ Written /\ UNCHANGED refused
       \/ WriteRefused /\ refused' = TRUE
    /\ handle' = [handle EXCEPT ![h] = "leaving"]
    /\ UNCHANGED <<buffer, count, crossed>>

\* The compiler drops the Arc after Drop::drop.
Release(h) ==
    /\ handle[h] = "leaving"
    /\ count' = count - 1
    /\ handle' = [handle EXCEPT ![h] = "gone"]
    /\ UNCHANGED <<buffer, file, refused, crossed>>

Ends(h) == Looks(h) \/ LastFlush(h) \/ Release(h)

Next == \E h \in Handles : WriteStr(h) \/ Dup(h) \/ Flush(h) \/ Drop(h) \/ Ends(h)

Spec == Init /\ [][Next]_vars

-----------------------------------------------------------------------------
(* Properties *)

TypeOK ==
    /\ handle \in [Handles -> States]
    /\ count = Cardinality(Refs)
    /\ buffer \in Seq(Pieces) /\ Len(buffer) <= MaxPieces
    /\ refused \in BOOLEAN /\ crossed \in BOOLEAN

\* What was written is kept, or one of the two things that lose it has happened.
Kept == file = buffer \/ refused \/ crossed

\* "The buffer is flushed to the file when the last reference is dropped": when no
\* copy is left, everything any of them wrote is in the file, however writes, dups and
\* drops interleave, but for two cases: the filesystem refused the flush of the drop,
\* or two drops crossed, the later of which saw a reference that was about to be
\* released without a flush.
FlushedAtTheEnd == count = 0 => Kept

\* Copies are dropped one at a time, as by a single thread; no drops cross then.
OneDrops == \A g, h \in Dropping : g = h
NeverCrossed == ~crossed

-----------------------------------------------------------------------------
(* The inductive invariant *)

LastIsAlone == \A h \in Handles : handle[h] = "last" => Refs = {h}

\* When nobody is left who will look or flush, the file is as it will be.
LeavesFlushed == (\A h \in Refs : handle[h] = "leaving") => Kept

\* FlushedAtTheEnd needs that no copy can still write once one has seen a count of 1,
\* and that the copies which saw more leave one behind that will look.
IInv == TypeOK /\ LastIsAlone /\ LeavesFlushed
=============================================================================
