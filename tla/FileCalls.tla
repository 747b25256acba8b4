------------------------------ MODULE FileCalls ------------------------------
(***************************************************************************)
(* The calls of the trait Filesystem (eudaemonty/src/lib.rs) as            *)
(* eudaemonfs/src/lib.rs answers them, as functions on a filesystem s.     *)
(* Calls composed of several others are here call by call: write_file,     *)
(* append_file, truncate_path, truncate_existing, punch_hole, create_file, *)
(* mkdir_all, mkstemp.  A change that finds no room is refused and changes *)
(* nothing (CallsAreAtomic of Lfs); a composed call that is refused half   *)
(* way returns at once and leaves its descriptor open.                     *)
(*                                                                         *)
(*   s.nodes  the inodes in the inode map       s.next   next_inode        *)
(*   s.held   inodes of descriptors that are never closed                  *)
(*   s.spare  changes there is room for         s.ok     Ok of the last    *)
(***************************************************************************)
EXTENDS Integers, Sequences, SequencesExt, FiniteSetsExt, TLC

CONSTANTS
    MaxHops,    \* MAX_SYMLINK_HOPS (40), and where stat's recursion is cut off
    MaxSize     \* max_file_size

ASSUME FileCallsAssumption == MaxHops \in Nat /\ MaxSize \in Nat

NoIno == 0
Root  == 1
Dots  == {".", ".."}
Nowhere == [dir |-> NoIno, name |-> "."]

\* The times of an inode: when it was made, unless they were set; Omit leaves one as it is.
Made == 0
Omit == -1

NewInode(kind, entries, target) ==
    [kind |-> kind, links |-> 1, entries |-> entries, target |-> target, data |-> <<>>, atime |-> Made, mtime |-> Made]

\* After Lfs::new, with room for n changes.
Empty(n) ==
    [nodes |-> [i \in {Root} |-> NewInode("dir", [d \in Dots |-> Root], <<>>)],
     next |-> Root + 1, held |-> {}, spare |-> n, ok |-> TRUE]

(***************************************************************************)
(* Looking.                                                                *)
(***************************************************************************)
Is(s, ino, kind) == ino \in DOMAIN s.nodes /\ s.nodes[ino].kind = kind

\* The target of a symlink, as it was given.
read_symlink_target(s, ino) == s.nodes[ino].target

\* The directory and the name that a path ends at; symlinks on the way lead from the root.
RECURSIVE Walk(_, _, _, _)
Walk(s, dir, path, hops) ==
    IF hops > MaxHops \/ ~Is(s, dir, "dir") THEN Nowhere
    ELSE IF Len(path) = 1 THEN [dir |-> dir, name |-> path[1]]
    ELSE IF path[1] \notin DOMAIN s.nodes[dir].entries THEN Nowhere
    ELSE LET ino == s.nodes[dir].entries[path[1]]
         IN  IF Is(s, ino, "link") THEN Walk(s, Root, read_symlink_target(s, ino) \o Tail(path), hops + 1)
             ELSE Walk(s, ino, Tail(path), hops)

resolve_path(s, path) == IF path = <<>> THEN [dir |-> Root, name |-> "."] ELSE Walk(s, Root, path, 0)

lookup_in_dir(s, at) ==
    IF at # Nowhere /\ at.name \in DOMAIN s.nodes[at.dir].entries THEN s.nodes[at.dir].entries[at.name] ELSE NoIno

lstat(s, path) == lookup_in_dir(s, resolve_path(s, path))

\* Where a path ends when symlinks at its end are followed, too.
RECURSIVE Follow(_, _, _)
FollowFrom(s, at, ino, hops) ==
    IF hops > MaxHops THEN Nowhere
    ELSE IF Is(s, ino, "link") THEN Follow(s, read_symlink_target(s, ino), hops + 1)
    ELSE at
FollowAt(s, at, hops) == FollowFrom(s, at, lookup_in_dir(s, at), hops)
Follow(s, path, hops) == FollowAt(s, resolve_path(s, path), hops)

stat(s, path) == lookup_in_dir(s, Follow(s, path, 0))

exists(s, path) == stat(s, path) # NoIno
is_dir(s, path) == Is(s, stat(s, path), "dir")

\* The names in a directory.  Their order is that of its slots, which is left open.
read_dir(s, path) == SetToSeq(DOMAIN s.nodes[stat(s, path)].entries \ Dots)

(***************************************************************************)
(* Changing.                                                               *)
(***************************************************************************)
Refuse(s) == [s EXCEPT !.ok = FALSE]

\* The change of s to nodes, if there is room for it.
Change(s, nodes) ==
    IF s.spare = 0 THEN Refuse(s) ELSE [s EXCEPT !.nodes = nodes, !.spare = @ - 1, !.ok = TRUE]

Enter(nodes, at, ino)  == [nodes EXCEPT ![at.dir].entries = (at.name :> ino) @@ @]
update_dir_entry(nodes, ino, name, to) == [nodes EXCEPT ![ino].entries[name] = to]
Strike(nodes, at)      == [nodes EXCEPT ![at.dir].entries = [n \in DOMAIN @ \ {at.name} |-> @[n]]]
Free(nodes, ino)       == [i \in DOMAIN nodes \ {ino} |-> nodes[i]]

\* A new inode with a name.
Create(s, at, inode) ==
    IF at = Nowhere \/ lookup_in_dir(s, at) # NoIno THEN Refuse(s)
    ELSE LET t == Change(s, Enter((s.next :> inode) @@ s.nodes, at, s.next))
         IN  IF t.ok THEN [t EXCEPT !.next = @ + 1] ELSE t

mkdir(s, path) ==
    LET at == resolve_path(s, path)
    IN  Create(s, at, NewInode("dir", "." :> s.next @@ ".." :> at.dir, <<>>))

symlink(s, target, path) == IF target = <<>> THEN Refuse(s) ELSE Create(s, resolve_path(s, path), NewInode("link", <<>>, target))

link(s, src, dst) ==
    LET ino == lstat(s, src)
        at  == resolve_path(s, dst)
    IN  IF ino = NoIno \/ Is(s, ino, "dir") \/ at = Nowhere \/ lookup_in_dir(s, at) # NoIno THEN Refuse(s)
        ELSE Change(s, Enter([s.nodes EXCEPT ![ino].links = @ + 1], at, ino))

\* Seeded bug: the inode goes with the first of its names.
unlinkBug(s, path) ==
    LET at  == resolve_path(s, path)
        ino == lookup_in_dir(s, at)
    IN  IF ino = NoIno \/ Is(s, ino, "dir") THEN Refuse(s) ELSE Change(s, Free(Strike(s.nodes, at), ino))

\* The inode goes with the last name, unless a descriptor holds it.
unlink(s, path) ==
    LET at    == resolve_path(s, path)
        ino   == lookup_in_dir(s, at)
        named == Strike(s.nodes, at)
    IN  IF ino = NoIno \/ Is(s, ino, "dir") THEN Refuse(s)
        ELSE Change(s, IF s.nodes[ino].links > 1 \/ ino \in s.held THEN [named EXCEPT ![ino].links = @ - 1]
                       ELSE Free(named, ino))

rmdir(s, path) ==
    LET at  == resolve_path(s, path)
        ino == lookup_in_dir(s, at)
    IN  IF ~Is(s, ino, "dir") \/ DOMAIN s.nodes[ino].entries # Dots THEN Refuse(s)
        ELSE Change(s, Free(Strike(s.nodes, at), ino))

\* The directory ino and those above it.
RECURSIVE Ancestry(_, _)
Ancestry(s, ino) == {ino} \cup IF ino = Root THEN {} ELSE Ancestry(s, s.nodes[ino].entries[".."])

\* What was at dst goes, without a look at its link count.
RenameAt(s, from, to, ino, old) ==
    LET cleared == IF old = NoIno THEN s.nodes
                   ELSE IF old \in s.held THEN Strike(s.nodes, to)
                   ELSE Free(Strike(s.nodes, to), old)
        moved == Enter(Strike(cleared, from), to, ino)
    IN  IF ino = NoIno \/ to = Nowhere THEN Refuse(s)
        ELSE IF from = to \/ old = ino THEN [s EXCEPT !.ok = TRUE]
        ELSE IF Is(s, ino, "dir") /\ ino \in Ancestry(s, to.dir) THEN Refuse(s)
        ELSE IF Is(s, old, "dir") /\ DOMAIN s.nodes[old].entries # Dots THEN Refuse(s)
        ELSE Change(s, IF Is(s, ino, "dir") THEN update_dir_entry(moved, ino, "..", to.dir) ELSE moved)
RenameWhere(s, from, to) == RenameAt(s, from, to, lookup_in_dir(s, from), lookup_in_dir(s, to))
rename(s, src, dst) == RenameWhere(s, resolve_path(s, src), resolve_path(s, dst))

set_times_for_inode(s, ino, atime, mtime) ==
    IF ino = NoIno THEN Refuse(s)
    ELSE Change(s, [s.nodes EXCEPT ![ino].atime = IF atime = Omit THEN @ ELSE atime,
                                   ![ino].mtime = IF mtime = Omit THEN @ ELSE mtime])
set_times(s, path, atime, mtime)  == set_times_for_inode(s, stat(s, path), atime, mtime)
lset_times(s, path, atime, mtime) == set_times_for_inode(s, lstat(s, path), atime, mtime)

(***************************************************************************)
(* Calls on a descriptor of inode ino, and the calls composed of them.     *)
(***************************************************************************)
Zeros(n) == [i \in 1 .. n |-> 0]

truncate(s, ino, size) ==
    IF size > MaxSize THEN Refuse(s)
    ELSE Change(s, [s.nodes EXCEPT ![ino].data = IF size <= Len(@) THEN SubSeq(@, 1, size) ELSE @ \o Zeros(size - Len(@))])

\* Bytes from an offset on; a gap before them reads as zeros.
write(s, ino, offset, bytes) ==
    LET put(data) == [i \in 1 .. Max({Len(data), offset + Len(bytes)}) |->
                        IF i \in (offset + 1) .. (offset + Len(bytes)) THEN bytes[i - offset]
                        ELSE IF i <= Len(data) THEN data[i] ELSE 0]
    IN  IF offset + Len(bytes) > MaxSize THEN Refuse(s)
        ELSE Change(s, [s.nodes EXCEPT ![ino].data = put(@)])

OpenAt(s, at, ino) ==
    CASE ino = NoIno -> Create(s, at, NewInode("file", <<>>, <<>>))
      [] Is(s, ino, "dir")  -> Refuse(s)
      [] Is(s, ino, "file") -> [s EXCEPT !.ok = TRUE]
OpenWhere(s, at) == OpenAt(s, at, lookup_in_dir(s, at))

\* open_file makes the file that is missing, at the end of symlinks, too.
open_file(s, path) == OpenWhere(s, Follow(s, path, 0))

\* F after a call that went well.
Then(s, F(_)) == IF s.ok THEN F(s) ELSE s

\* A descriptor of ino after its last call; when that failed it stays.
Close(s, ino) == IF s.ok THEN s ELSE [s EXCEPT !.held = @ \cup {ino}]

\* open_file, then Op on the inode.
Using(s, ino, Op(_, _)) == Close(Op(s, ino), ino)
Opened(s, path, Op(_, _)) == Then(open_file(s, path), LAMBDA t : Using(t, stat(t, path), Op))

read_file(s, path) == s.nodes[stat(s, path)].data
is_file(s, path)   == Is(s, stat(s, path), "file")

\* Seeded bug: the old bytes behind the new ones stay.
write_fileBug(s, path, bytes) == Opened(s, path, LAMBDA t, ino : write(t, ino, 0, bytes))

write_file(s, path, bytes) ==
    Opened(s, path, LAMBDA t, ino : Then(truncate(t, ino, 0), LAMBDA u : write(u, ino, 0, bytes)))

append_file(s, path, bytes) == Opened(s, path, LAMBDA t, ino : write(t, ino, Len(t.nodes[ino].data), bytes))

truncate_path(s, path, size) == Opened(s, path, LAMBDA t, ino : truncate(t, ino, size))

\* It looks at the path itself, not at what a symlink leads to.
truncate_existing(s, path, size) ==
    LET ino == lstat(s, path)
    IN  CASE resolve_path(s, path) = Nowhere \/ Is(s, ino, "dir") -> Refuse(s)
          [] resolve_path(s, path) # Nowhere /\ ino = NoIno -> [s EXCEPT !.ok = TRUE]
          [] OTHER -> truncate_path(s, path, size)

\* The truncation behind the write never has anything to cut off.
punch_hole(s, path, offset, length) == Opened(s, path, LAMBDA t, ino : write(t, ino, offset, Zeros(length)))

\* A path that is there is left alone, a symlink that leads nowhere included.
create_file(s, path) ==
    CASE resolve_path(s, path) = Nowhere -> Refuse(s)
      [] resolve_path(s, path) # Nowhere /\ lstat(s, path) # NoIno -> [s EXCEPT !.ok = TRUE]
      [] OTHER -> open_file(s, path)

mkdir_all(s, path) ==
    LET step(t, n) ==
            LET p == SubSeq(path, 1, n)
            IN  IF ~t.ok THEN t
                ELSE IF lstat(t, p) # NoIno THEN [t EXCEPT !.ok = is_dir(t, p)]
                ELSE mkdir(t, p)
    IN  IF path = <<>> THEN Refuse(s) ELSE FoldLeft(step, [s EXCEPT !.ok = TRUE], [n \in 1 .. Len(path) |-> n])
=============================================================================
