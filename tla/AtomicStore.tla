----------------------------- MODULE AtomicStore -----------------------------
(***************************************************************************)
(* What the users of a filesystem rely on, and what eudaemonfs promises of *)
(* every operation on its device: a call takes effect entirely or not at   *)
(* all.  The store is what a reopen of the device would show: the files of *)
(* the root directory and their contents, cell by cell.  `goal' is what    *)
(* the call that is running is about to make of it.                        *)
(***************************************************************************)
EXTENDS Integers, Sequences

CONSTANTS
    Names,      \* the names of files
    WriteArgs,  \* the writes users make, [pos, data]
    Sizes,      \* the sizes users truncate files to
    Zero        \* the content of a cell that was never written

VARIABLES
    store,      \* name -> sequence of cells
    goal        \* the same, as the running call will leave it

-----------------------------------------------------------------------------
(* What each call makes of the store *)

\* The cells of a file cut or extended with zeros to n cells.
Resize(cells, n) == [k \in 1 .. n |-> IF k <= Len(cells) THEN cells[k] ELSE Zero]

\* The cells of a file after `data' was written from offset pos.
Overwrite(cells, pos, data) ==
    LET end == pos + Len(data)
        n == IF end > Len(cells) THEN end ELSE Len(cells)
    IN  [k \in 1 .. n |-> IF k > pos /\ k <= end THEN data[k - pos]
                          ELSE Resize(cells, n)[k]]

Create(s, name) ==
    [n \in DOMAIN s \cup {name} |-> IF n \in DOMAIN s THEN s[n] ELSE <<>>]
Write(s, name, pos, data) == [s EXCEPT ![name] = Overwrite(@, pos, data)]
Truncate(s, name, size) == [s EXCEPT ![name] = Resize(@, size)]
Remove(s, name) == [n \in DOMAIN s \ {name} |-> s[n]]

\* The stores a call may be asked to produce.  Clean, close and calls on unlinked
\* files leave it as it is.
Results(s) ==
    {s} \cup {Create(s, n) : n \in Names}
        \cup {Remove(s, n) : n \in DOMAIN s}
        \cup {Write(s, n, w.pos, w.data) : n \in DOMAIN s, w \in WriteArgs}
        \cup {Truncate(s, n, size) : n \in DOMAIN s, size \in Sizes}

-----------------------------------------------------------------------------
Init == DOMAIN store = {} /\ goal = store

\* A call starts.
Start ==
    /\ goal = store
    /\ goal' \in Results(store)
    /\ UNCHANGED store

\* The call takes effect, all at once.
Take ==
    /\ store' = goal
    /\ UNCHANGED goal

\* The call fails, or the process stops: nothing has happened.
Abandon ==
    /\ goal' = store
    /\ UNCHANGED store

Next == Start \/ Take \/ Abandon

Spec == Init /\ [][Next]_<<store, goal>>
=============================================================================
