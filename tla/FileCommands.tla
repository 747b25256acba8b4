---------------------------- MODULE FileCommands ----------------------------
(***************************************************************************)
(* Sessions of the commands of FileTools: one command on some filesystem,  *)
(* on which there may be room for a few changes only, and then, with room  *)
(* again, the same command once more.                                      *)
(*                                                                         *)
(* What a command promises is said in terms of the trees before and after, *)
(* not of the calls.                                                       *)
(***************************************************************************)
EXTENDS Looking

CONSTANTS
    None,       \* no command yet
    Trees,      \* filesystems to start from
    Rooms,      \* how many changes there may be room for at first
    Plenty,     \* more changes than any command here needs
    Offered     \* by name, the commands: records of cmd, o, from, to, x

ASSUME FileCommandsAssumption == Rooms \subseteq 0 .. Plenty /\ Plenty \in Nat

VARIABLES
    fs,         \* the filesystem
    before,     \* what it was before the last command
    done,       \* the last command, or None
    again       \* whether it was run twice

vars == <<fs, before, done, again>>

\* The sources of c, its target, and what else it takes in x.
Run(s, c) ==
    CASE c.cmd = "cp"       -> cp(s, c.o, c.from, c.to)
      [] c.cmd = "mv"       -> mv(s, c.o, c.from, c.to)
      [] c.cmd = "rm"       -> rm(s, c.o, c.from)
      [] c.cmd = "unlink"   -> unlink_mode(s, c.from[1])
      [] c.cmd = "mkdir"    -> mkdir_bin(s, c.o, c.from)
      [] c.cmd = "rmdir"    -> rmdir_bin(s, c.o, c.from)
      [] c.cmd = "ln"       -> ln(s, c.o, c.from, c.to)
      [] c.cmd = "touch"    -> touch(s, c.o, c.x, c.from)
      [] c.cmd = "truncate" -> truncate_bin(s, c.o, c.x, c.from)
      [] c.cmd = "tee"      -> tee(s, c.o, c.x, c.from)
      [] c.cmd = "split"    -> split(s, c.o, c.from[1], c.x)
      [] c.cmd = "mktemp"   -> mktemp(s, c.o, c.x)
      [] c.cmd = "lisp"     -> LispCall(s, c.o, c.from[1], c.to, c.x)

Init ==
    /\ \E t \in Trees, n \in Rooms : fs = [t EXCEPT !.spare = n] @@ [code |-> 0]
    /\ before = fs
    /\ done = None /\ again = FALSE

\* Some command, where there may be little room.
Does ==
    /\ done = None
    /\ \E cmd \in DOMAIN Offered : \E c \in Offered[cmd] : done' = c /\ fs' = Run(fs, c)
    /\ UNCHANGED <<before, again>>

\* A file that is moved over loses all its names but one without an inode (ReplacesLinks
\* of Namespace); no command is given on such a tree.
Whole(s) == \A i \in DOMAIN s.nodes : \A n \in DOMAIN s.nodes[i].entries : s.nodes[i].entries[n] \in DOMAIN s.nodes

\* Somebody makes room, and the command is given again.
Again ==
    /\ done # None /\ ~again /\ Whole(fs)
    /\ again' = TRUE
    /\ before' = [fs EXCEPT !.spare = Plenty, !.code = 0]
    /\ fs' = Run(before', done)
    /\ UNCHANGED done

Next == Does \/ Again

Spec == Init /\ [][Next]_vars

(***************************************************************************)
(* What is where.                                                          *)
(***************************************************************************)
\* Every path from p down, symlinks not followed.
Below(s, p) == {q \in ToSet(Collected(s, <<p>>)) : lstat(s, q) # NoIno}

Node(s, ino) == IF ino \notin DOMAIN s.nodes THEN NewInode("none", <<>>, <<>>) ELSE s.nodes[ino]
Kind(s, q) == Node(s, lstat(s, q)).kind
Data(s, q) == Node(s, lstat(s, q)).data
Goal(s, q) == Node(s, lstat(s, q)).target

\* The bytes a path leads to.
Bytes(s, q) == Node(s, stat(s, q)).data

\* A tree as a user sees it: kinds, bytes, where links lead, and which names are one file.
View(s) ==
    LET all == Below(s, <<>>)
    IN  [q \in all |-> <<Kind(s, q), Data(s, q), Goal(s, q),
                         IF Kind(s, q) = "file" THEN {r \in all : lstat(s, r) = lstat(s, q)} ELSE {}>>]

c  == done
S1 == c.from[1]
One == Len(c.from) = 1

\* Where the source of cp, mv or ln is to end up.
Place(x) ==
    CASE c.cmd = "cp" -> IF is_dir(before, c.to) THEN Under(c.to, x) ELSE c.to
      [] c.cmd = "mv" -> IF IntoDir(before, c.o, c.from, c.to) THEN Under(c.to, x) ELSE c.to
      [] c.cmd = "ln" -> compute_target_path(before, Config(c.o), x, c.to, Len(c.from) > 1)

\* The one source that is written last to a place.
LastAt(i) == \A j \in DOMAIN c.from : j > i => Place(c.from[j]) # Place(c.from[i])

(***************************************************************************)
(* What exit code 0 means.                                                 *)
(***************************************************************************)
Source(x) == Named(before, c.o, x)

\* The file that is copied; with -n a target that was there stays.
CopiedFile(x) ==
    LET old == lstat(before, Place(x))
    IN  IF old # NoIno /\ "n" \in c.o THEN lstat(fs, Place(x)) = old
        ELSE CASE "l" \in c.o -> lstat(fs, Place(x)) = lstat(before, x)
               [] "s" \in c.o -> Kind(fs, Place(x)) = "link" /\ Goal(fs, Place(x)) = x
               [] c.o \cap {"l", "s"} = {} ->
                      IF Is(before, Source(x), "link")
                      THEN Kind(fs, Place(x)) = "link" /\ Goal(fs, Place(x)) = Goal(before, x)
                      ELSE is_file(fs, Place(x)) /\ Bytes(fs, Place(x)) = Node(before, Source(x)).data

\* Every path of the directory x leads to.
Tree(s, x) == {x} \cup UNION {Below(s, Append(x, n)) : n \in DOMAIN Node(s, stat(s, x)).entries \ Dots}

\* All that is in a tree is in its copy; what was in the target before may be there, too.
CopiedTree(x) ==
    \A q \in Tree(before, x) :
        LET r   == Place(x) \o SubSeq(q, Len(x) + 1, Len(q))
            ino == IF FollowsAll(c.o) THEN stat(before, q) ELSE lstat(before, q)
        IN  CASE Is(before, ino, "dir")  -> is_dir(fs, r)
              [] Is(before, ino, "link") -> Kind(fs, r) = "link" /\ Goal(fs, r) = Goal(before, q)
              [] Is(before, ino, "file") -> is_file(fs, r) /\ Bytes(fs, r) = Node(before, ino).data
              [] OTHER -> FALSE

CpMeans == \A i \in DOMAIN c.from : LastAt(i) =>
    IF Is(before, Source(c.from[i]), "dir") THEN CopiedTree(c.from[i]) ELSE CopiedFile(c.from[i])

\* What is now at the place, wherever symlinks that moved lead.
Landed(x) == lookup_in_dir(fs, resolve_path(before, Place(x)))

MvMeans == \A i \in DOMAIN c.from : LastAt(i) =>
    LET x == c.from[i]
    IN  IF "n" \in c.o /\ lstat(before, Place(x)) # NoIno THEN Landed(x) = lstat(before, Place(x))
        ELSE /\ Landed(x) = lstat(before, x)
             /\ lstat(before, Place(x)) # lstat(before, x) => lstat(fs, x) = NoIno

\* Nothing is left of it, and what had no other name is gone for good.
RmMeans == \A i \in DOMAIN c.from :
    /\ lstat(fs, c.from[i]) = NoIno
    /\ \A q \in Below(before, c.from[i]) :
          (\A r \in Below(before, <<>>) : lstat(before, r) = lstat(before, q) => IsPrefix(c.from[i], r)) =>
             lstat(before, q) \notin DOMAIN fs.nodes

LnMeans == \A i \in DOMAIN c.from : LastAt(i) =>
    LET x == c.from[i]
    IN  IF "s" \in c.o THEN Kind(fs, Place(x)) = "link" /\ Goal(fs, Place(x)) = x
        ELSE lstat(fs, Place(x)) = lstat(before, x)

TouchMeans == \A i \in DOMAIN c.from :
    LET p == c.from[i]
        n == Node(fs, stat(fs, p))
    IN  /\ c.o \cap {"c", "h"} = {} /\ c.x.adjust = 0 /\ lstat(before, p) = NoIno => exists(fs, p)
        /\ exists(before, p) /\ c.o = {} /\ c.x.adjust = 0 /\ c.x.ref = <<>> => n.mtime = n.atime /\ n.mtime # Made

TruncateMeans == \A i \in DOMAIN c.from :
    LET p == c.from[i]
        b == IF exists(before, p) THEN Bytes(before, p) ELSE <<>>
        a == Bytes(fs, p)
        n == calculate_target_size(Len(b), c.x)
    IN  IF "c" \in c.o /\ ~exists(before, p) THEN ~exists(fs, p)
        ELSE /\ "d" \notin c.o => Len(a) = n /\ IsPrefix(SubSeq(b, 1, Min({n, Len(b)})), a)
             /\ "d" \in c.o => \A j \in DOMAIN a : a[j] = IF j \in DOMAIN b /\ j \notin (c.x.offset + 1) .. (c.x.offset + c.x.n) THEN b[j] ELSE 0

\* Only when the pieces go to files of their own.
SplitMeans ==
    (\A p, q \in ToSet(c.x.names) : p # q => stat(before, p) # stat(before, q) \/ stat(before, p) = NoIno) => \E k \in 0 .. Len(c.x.names) :
    LET free == NamesLeft(before, c.o, c.x.names)
    IN  FlattenSeq([j \in 1 .. k |-> Bytes(fs, free[j])]) = Bytes(before, S1)

\* Calls that find what is already there do nothing (create, mkdir_all, a rename onto itself).
LispMeans ==
    CASE c.o = "write" -> is_file(fs, S1) /\ Bytes(fs, S1) = c.x
      [] c.o = "append" -> is_file(fs, S1) /\ Bytes(fs, S1) = (IF exists(before, S1) THEN Bytes(before, S1) ELSE <<>>) \o c.x
      [] c.o \in {"mkdir", "mkdir_all"} -> is_dir(fs, S1)
      [] c.o = "create" -> exists(fs, S1)
      [] c.o \in {"unlink", "rmdir"} -> RmMeans
      [] c.o = "rename" -> lookup_in_dir(fs, resolve_path(before, c.to)) = lstat(before, S1)
      [] c.o = "symlink" -> Kind(fs, c.to) = "link" /\ Goal(fs, c.to) = S1
      [] c.o = "link" -> lstat(fs, c.to) = lstat(before, S1)
      [] c.o \in {"mkstemp", "mkdtemp"} -> \E n \in ToSet(c.x) : ~exists(before, n) /\ exists(fs, n) /\ is_dir(fs, n) = (c.o = "mkdtemp")

\* A command that says that all went well has done what it is for.  In the list of
\* what it cannot promise: a dangling symlink that touch leaves dangling, and a
\* hard link to what ln removed to make room for it.
Meant ==
    CASE c.cmd = "cp" -> CpMeans
      [] c.cmd = "mv" -> MvMeans
      [] c.cmd \in {"rm", "unlink"} -> c.o \cap {"f"} = {} => RmMeans
      [] c.cmd = "mkdir" -> \A i \in DOMAIN c.from : is_dir(fs, c.from[i])
      [] c.cmd = "rmdir" -> \A i \in DOMAIN c.from : lstat(fs, c.from[i]) = NoIno /\ lstat(before, c.from[i]) \notin DOMAIN fs.nodes
      [] c.cmd = "ln" -> LnMeans
      [] c.cmd = "touch" -> TouchMeans
      [] c.cmd = "truncate" -> TruncateMeans
      [] c.cmd = "tee" -> \A i \in DOMAIN c.from : c.x # <<>> => IsSuffix(c.x, Bytes(fs, c.from[i]))
      [] c.cmd = "split" -> SplitMeans
      [] c.cmd = "mktemp" -> "u" \in c.o /\ fs.spare > 0 => View(fs) = View(before)
      [] c.cmd = "lisp" -> LispMeans

\* A command that exits with 0 has made of the tree what its words ask for, through links,
\* names given twice and targets that are directories (the bin functions of cp.rs, mv.rs, ...
\* each fold the errors of many calls into one exit code).
SuccessMeans == done # None /\ fs.code = 0 => Meant

(***************************************************************************)
(* What a command leaves alone, whatever its exit code.                    *)
(***************************************************************************)
At(x) == {resolve_path(before, x)}
Through(x) == At(x) \cup {Follow(before, x, 0)}

\* Every name in the directories at and under x.
Inside(x) == {[dir |-> lstat(before, q), name |-> n] : q \in Below(before, x), n \in FileNames}

\* The paths a Lisp call may make or change.
PlacesOf(op) ==
    CASE op \in {"write", "mkdir_all"} -> ToSet(PathsTo(S1))
      [] op \in {"symlink", "link"}    -> {c.to}
      [] op = "rename"                 -> {S1, c.to}
      [] op \in {"mkstemp", "mkdtemp"} -> ToSet(c.x)
      [] OTHER                         -> {S1}

\* The names a command may make, change or take away.
MayRename ==
    CASE c.cmd = "cp" -> UNION {Through(Place(x)) \cup (IF Recursive(c.o) THEN Inside(Place(x)) ELSE {}) : x \in ToSet(c.from)}
      [] c.cmd = "mv" -> UNION {At(x) \cup At(Place(x)) : x \in ToSet(c.from)}
      [] c.cmd = "rm" -> UNION {At(x) \cup (IF "r" \in c.o THEN Inside(x) ELSE {}) : x \in ToSet(c.from)}
      [] c.cmd \in {"unlink"} -> At(S1)
      [] c.cmd \in {"mkdir", "rmdir"} ->
            UNION {UNION {At(q) : q \in IF "p" \in c.o THEN ToSet(PathsTo(x)) ELSE {x}} : x \in ToSet(c.from)}
      [] c.cmd = "ln" -> UNION {At(Place(x)) : x \in ToSet(c.from)}
      [] c.cmd \in {"touch", "truncate", "tee"} -> UNION {{Follow(before, x, 0)} : x \in ToSet(c.from)}
      [] c.cmd = "split" -> UNION {{Follow(before, x, 0)} : x \in ToSet(c.x.names)}
      [] c.cmd = "mktemp" -> UNION {UNION {At(x) : x \in ToSet(t)} : t \in ToSet(c.x)}
      [] c.cmd = "lisp" -> UNION {Through(x) : x \in PlacesOf(c.o)}

\* The files a command may write to.
MayWrite ==
    CASE c.cmd = "cp" -> {stat(before, Place(x)) : x \in ToSet(c.from)}
                         \cup (IF Recursive(c.o) THEN UNION {{stat(before, q) : q \in Below(before, Place(x))} : x \in ToSet(c.from)} ELSE {})
      [] c.cmd = "touch" -> {IF "h" \in c.o THEN lstat(before, x) ELSE stat(before, x) : x \in ToSet(c.from)}
      [] c.cmd \in {"truncate", "tee"} -> {stat(before, x) : x \in ToSet(c.from)}
      [] c.cmd = "split" -> {stat(before, x) : x \in ToSet(c.x.names)}
      [] c.cmd = "lisp" -> IF c.o \in {"write", "append"} THEN {stat(before, S1)} ELSE {}
      [] OTHER -> {}

\* A file that is moved over loses all its names.
Replaced ==
    CASE c.cmd = "mv" -> {lstat(before, Place(x)) : x \in ToSet(c.from)}
      [] c.cmd = "lisp" -> IF c.o = "rename" THEN {lstat(before, c.to)} ELSE {}
      [] OTHER -> {}

NamesOf(s, ino) == {a \in [dir : {i \in DOMAIN s.nodes : Is(s, i, "dir")}, name : FileNames] :
                      a.name \in DOMAIN s.nodes[a.dir].entries /\ s.nodes[a.dir].entries[a.name] = ino}

Untouched(ino) ==
    LET b == before.nodes[ino]
        a == fs.nodes[ino]
    IN  /\ b.kind = a.kind /\ b.target = a.target
        /\ ino \in MayWrite \/ <<b.data, b.atime, b.mtime>> = <<a.data, a.atime, a.mtime>>
        /\ \A n \in DOMAIN a.entries \cup DOMAIN b.entries :
              \/ n = ".." \/ [dir |-> ino, name |-> n] \in MayRename
              \/ n \in DOMAIN a.entries \cap DOMAIN b.entries /\ a.entries[n] = b.entries[n]

\* Whether it succeeded or stopped half way, nothing changed but the files and names the
\* command was given, and no file went that still had a name (rename_inner, remove_inner and
\* the loops of cp.rs, mv.rs and rm.rs, which look at a path again after they changed it).
NamedOnly == done # None => \A ino \in DOMAIN before.nodes :
    IF ino \in DOMAIN fs.nodes THEN Untouched(ino) ELSE ino \in Replaced \/ NamesOf(before, ino) \subseteq MayRename

(***************************************************************************)
(* What the commands that look say of one tree.                            *)
(***************************************************************************)
Sum(s, inos) == MapThenSumSet(LAMBDA ino : get_size(s, ino), inos)

\* A file is counted once, or with -l under each of its names; all else under each.
DuAgrees(s, all) == \A p \in all :
    LET below == {q \in all : IsPrefix(p, q)}
        files == {q \in below : Kind(s, q) = "file"}
        each(qs) == MapThenSumSet(LAMBDA q : get_size(s, lstat(s, q)), qs)
    IN  /\ du(s, {}, <<p>>).size = Sum(s, {lstat(s, q) : q \in files}) + each(below \ files)
        /\ du(s, {"l"}, <<p>>).size = each(below)
        /\ p = <<>> => ToSet(du(s, {"l", "a"}, <<p>>).lines) = {[size |-> du(s, {"l"}, <<q>>).size, path |-> q] : q \in below}

\* ls -R shows each path below a directory once, in an order that is that of no directory.
Key(s, o, q) == IF "t" \in o THEN Node(s, lstat(s, q)).mtime ELSE IF "S" \in o THEN Size(s, lstat(s, q)) ELSE 0
LsAgrees(s, all) == \A o \in {{"R"}, {"R", "t"}, {"R", "S", "r"}} : \E lines \in {ls(s, o, <<<<>>>>).lines} :
    LET path(i) == lines[i].dir \o lines[i].name
        Before(p, q) == Key(s, o, p) > Key(s, o, q) \/ (Key(s, o, p) = Key(s, o, q) /\ Sooner(p, q))
    IN  /\ Len(lines) = Cardinality(all) - 1
        /\ {path(i) : i \in DOMAIN lines} = all \ {<<>>}
        /\ \A i \in 2 .. Len(lines) : lines[i].dir = lines[i - 1].dir =>
              IF "r" \in o THEN Before(path(i), path(i - 1)) ELSE Before(path(i - 1), path(i))

\* A path has a real one just when it leads somewhere: the same file, without symlinks.
RealAgrees(s, all) ==
    \A q \in all \cup {Append(p, n) : p \in {r \in all : Kind(s, r) = "link"}, n \in FileNames} : \E r \in {realpath(s, q)} :
        IF ~exists(s, q) THEN r = NoPath
        ELSE /\ r # NoPath /\ r \in all /\ Kind(s, r) # "link"
             /\ fs_lstat(s, r) = fs_stat(s, q)
             /\ fs_readlink(s, q) # {} => readlink(s, {"f"}, q) = realpath(s, readlink(s, {}, q))

\* The Markdown files are the names in the tree, sorted; the tree of fs-tree has every path
\* in it, unless there is none because a symlink leads nowhere or back up.
TreeAgrees(s, all) ==
    /\ \A f \in {<<list_markdown_files(s), {"file"}>>, <<collect_markdown_files(s), {"file", "link"}>>} :
          /\ ToSet(f[1]) = {q \in all : q # <<>> /\ Kind(s, q) \in f[2] /\ Last(q) \in MarkdownNames}
          /\ \A i \in 2 .. Len(f[1]) : Sooner(f[1][i - 1], f[1][i])
    /\ \E t \in {render_tree(s)} :
          IF t = Broken THEN \E q \in all : Kind(s, q) = "link" /\ (~exists(s, q) \/ is_dir(s, q))
          ELSE /\ \A q \in all : \E i \in DOMAIN t : t[i] = [path |-> q, type |-> Node(s, stat(s, q)).kind]
               /\ \A i \in DOMAIN t : t[i].path \notin all => \E n \in 1 .. Len(t[i].path) : Kind(s, SubSeq(t[i].path, 1, n)) = "link"

\* What lies in a directory is said alike by each way to look at it.
InfoAgrees(s, all) == \A q \in all :
    /\ \A n \in DOMAIN fs_readdir(s, q) \ Dots : {fs_readdir(s, q)[n]} = fs_lstat(s, Append(q, n))
    /\ \A b \in fs_read(s, q), i \in fs_stat(s, q) : i.type = "file" /\ i.size = Len(b)

\* du, ls, realpath, readlink, fs-stat, fs-readdir, fs-tree and list-files each walk the tree
\* in their own way; after any command they still describe one and the same
\* tree.
LooksAgree ==
    [][done = None /\ fs'.nodes # fs.nodes /\ Whole(fs') => \E s \in {fs'} : \E all \in {Below(s, <<>>)} :
          DuAgrees(s, all) /\ LsAgrees(s, all) /\ RealAgrees(s, all) /\ TreeAgrees(s, all) /\ InfoAgrees(s, all)]_vars

(***************************************************************************)
(* A second try.                                                           *)
(***************************************************************************)
\* A command that reads what it writes: the source of cp and ln under a symlink's name, or
\* of split under the name of a piece, and a directory copied into itself.  What it found
\* no room to write again is lost.
Overlaps ==
    CASE c.cmd \in {"cp", "ln"} -> \E x \in ToSet(c.from) :
            \/ stat(before, x) \in {stat(before, Place(x)), lstat(before, Place(x))}
            \/ is_dir(before, x) /\ is_dir(before, c.to) /\ stat(before, x) \in Ancestry(before, stat(before, c.to))
      [] c.cmd = "split" -> \E p \in ToSet(c.x.names) : stat(before, p) = stat(before, S1)
      [] OTHER -> FALSE

\* Commands that can be given again.  Not among them: -n and -c, which take what a refused
\* call left behind for something that was there; cp -R to a new name, whose second copy goes
\* into the first; rmdir -p, which stops at a directory that is gone; sizes relative to the present one; tee -a and
\* fs-append; and temporary files.
Repeatable ==
    CASE c.cmd = "cp" -> "n" \notin c.o /\ (exists(before, c.to) \/ ~Recursive(c.o))
      [] c.cmd = "rmdir" -> "p" \notin c.o
      [] c.cmd = "truncate" -> c.x.op = "absolute" /\ "c" \notin c.o
      [] c.cmd = "tee" -> "a" \notin c.o
      [] c.cmd = "split" -> "c" \notin c.o
      [] c.cmd = "mktemp" -> FALSE
      [] c.cmd = "lisp" -> c.o \notin {"append", "mkstemp", "mkdtemp"}
      [] OTHER -> TRUE

\* Whatever a command that found no room left half done, the same command with room
\* makes the tree it would have made at once.
RetryHeals ==
    [][again' # again /\ fs.code # 0 /\ Repeatable /\ ~Overlaps =>
          View(fs') = View(Run([before EXCEPT !.spare = Plenty], c))]_vars
=============================================================================
