------------------------------ MODULE FileTools ------------------------------
(***************************************************************************)
(* The commands of eudaemonsh that change files (eudaemonsh/src/builtins): *)
(* cp, mv, rm, unlink, mkdir, rmdir, ln, touch, truncate, tee, split and   *)
(* mktemp.  A command is a function on a filesystem of FileCalls: call by  *)
(* call, it goes on after an error or stops as the code does, and gives    *)
(* its exit code.                                                          *)
(*                                                                         *)
(* The record s of FileCalls gets s.code, the exit code.  An option is a   *)
(* string in the set o, without its dash; -v, -i and -p change no file and *)
(* are left out.  Paths have no "." or ".."; "/" \in o stands for a slash  *)
(* at the end of the target.                                               *)
(***************************************************************************)
EXTENDS FileCalls

Ok(s)   == [s EXCEPT !.ok = TRUE]
Exit(s, code) == [s EXCEPT !.ok = TRUE, !.code = code]

\* Op for each item; one that fails sets the exit code and the next follows.
Noted(s) == IF s.ok THEN s ELSE Exit(s, 1)
ForEach(s, items, Op(_, _)) == FoldLeft(LAMBDA t, x : Noted(Op(Ok(t), x)), s, items)

Under(dir, path) == Append(dir, Last(path))

(***************************************************************************)
(* cp.                                                                     *)
(***************************************************************************)
Recursive(o) == o \cap {"R", "a"} # {}

\* How cp looks at a path of its command line: through symlinks, unless -R is
\* given without -H or -L.
Follows(o)    == ~Recursive(o) \/ ("a" \notin o /\ o \cap {"H", "L"} # {})
FollowsAll(o) == ~Recursive(o) \/ ("a" \notin o /\ "L" \in o)
Named(s, o, path) == IF Follows(o) THEN stat(s, path) ELSE lstat(s, path)

do_copy(s, o, source, target) ==
    CASE "l" \in o -> link(s, source, target)
      [] "s" \in o -> symlink(s, source, target)
      [] o \cap {"l", "s"} = {} ->
             IF Is(s, lstat(s, source), "link") /\ ~Follows(o)
             THEN symlink(s, read_symlink_target(s, lstat(s, source)), target)
             ELSE IF is_file(s, source) THEN write_file(s, target, read_file(s, source)) ELSE Refuse(s)

\* -n wins over -f.
Forced(o) == "f" \in o /\ "n" \notin o

copy_file_to_file(s, o, source, target) ==
    LET ino == Named(s, o, source)
        old == lstat(s, target)
    IN  IF ino = NoIno \/ Is(s, ino, "dir") \/ ino = old THEN Refuse(s)
        ELSE IF old # NoIno /\ "n" \in o THEN Ok(s)
        ELSE Then(IF old # NoIno /\ Forced(o) THEN unlink(s, target) ELSE Ok(s), LAMBDA t : do_copy(t, o, source, target))

\* The symlink itself; what is in its place goes (with -f).
CopyLink(s, o, source, target) ==
    Then(IF lstat(s, target) # NoIno THEN unlink(s, target) ELSE Ok(s),
         LAMBDA t : symlink(t, read_symlink_target(s, lstat(s, source)), target))

\* The queue of copy_tree: directories first, then what is in them.  Some errors
\* end the walk, others are remembered in well.
RECURSIVE CopyQueue(_, _, _, _)
Remembers(s, o, rest, well) == CopyQueue(s, o, rest, well /\ s.ok)
Ends(s, o, rest, well) == IF s.ok THEN CopyQueue(s, o, rest, well) ELSE s
CopyDir(s, o, source, target, rest, well) ==
    LET names == read_dir(s, source)
    IN  Ends(s, o, rest \o [i \in DOMAIN names |-> <<Append(source, names[i]), Append(target, names[i])>>], well)
CopyEntry(s, o, source, target, ino, old, rest, well) ==
    CASE ino = NoIno -> Refuse(s)
      [] Is(s, ino, "dir") /\ old # NoIno /\ ~Is(s, old, "dir") -> CopyQueue(s, o, rest, FALSE)
      [] Is(s, ino, "dir") /\ (old # NoIno => Is(s, old, "dir")) ->
             CopyDir(IF old = NoIno THEN mkdir(s, target) ELSE Ok(s), o, source, target, rest, well)
      [] Is(s, ino, "link") ->
             IF old # NoIno /\ ~Forced(o) THEN CopyQueue(s, o, rest, well /\ "n" \in o)
             ELSE Ends(CopyLink(s, o, source, target), o, rest, well)
      [] Is(s, ino, "file") -> Remembers(copy_file_to_file(s, o, source, target), o, rest, well)
CopyFirst(s, o, source, target, rest, well) ==
    CopyEntry(s, o, source, target, IF FollowsAll(o) THEN stat(s, source) ELSE lstat(s, source), lstat(s, target), rest, well)
CopyQueue(s, o, queue, well) ==
    IF queue = <<>> THEN [s EXCEPT !.ok = well]
    ELSE CopyFirst(s, o, Head(queue)[1], Head(queue)[2], Tail(queue), well)

copy_tree(s, o, source, target) == CopyQueue(s, o, <<<<source, target>>>>, TRUE)

\* One source into a directory, or a directory to a new name.
copy_to_dir(s, o, source, target, target_exists, target_is_dir) ==
    LET ino  == Named(s, o, source)
        into == Under(target, source)
    IN  CASE ino = NoIno \/ (Is(s, ino, "dir") /\ ~Recursive(o)) -> Refuse(s)
          [] Is(s, ino, "dir") /\ Recursive(o) /\ ~target_exists -> copy_tree(s, o, source, target)
          [] Is(s, ino, "dir") /\ Recursive(o) /\ target_exists ->
                 IF target_is_dir THEN copy_tree(s, o, source, into) ELSE Refuse(s)
          [] ino # NoIno /\ ~Is(s, ino, "dir") ->
                 IF target_is_dir THEN copy_file_to_file(s, o, source, into) ELSE Refuse(s)

\* What the target is is found out once, before the first source.
cp(s, o, sources, target) ==
    LET target_is_dir == is_dir(s, target)
        target_exists == exists(s, target)
        one(t, source) ==
            IF target_is_dir \/ (Len(sources) = 1 /\ ~target_exists /\ Is(t, Named(t, o, source), "dir"))
            THEN copy_to_dir(t, o, source, target, target_exists, target_is_dir)
            ELSE copy_file_to_file(t, o, source, target)
    IN  IF {"l", "s"} \subseteq o \/ (("/" \in o \/ Len(sources) > 1) /\ ~target_is_dir) THEN Exit(s, 1)
        ELSE ForEach(s, sources, one)

(***************************************************************************)
(* mv.                                                                     *)
(***************************************************************************)
do_move(s, o, from, to) ==
    IF lstat(s, from) = NoIno THEN Refuse(s)
    ELSE IF lstat(s, to) # NoIno /\ "n" \in o THEN Ok(s)
    ELSE rename(s, from, to)

\* -h keeps a symlink to a directory from counting as one, when there is one source.
IntoDir(s, o, sources, target) ==
    IF "h" \in o /\ "/" \notin o /\ Len(sources) = 1 THEN Is(s, lstat(s, target), "dir") ELSE is_dir(s, target)

mv(s, o, sources, target) ==
    LET into == IntoDir(s, o, sources, target)
    IN  IF ~into /\ Len(sources) > 1 THEN Exit(s, 1)
        ELSE ForEach(s, sources, LAMBDA t, source : do_move(t, o, source, IF into THEN Under(target, source) ELSE target))

(***************************************************************************)
(* rm and unlink.                                                          *)
(***************************************************************************)
\* The paths of a tree, a directory before what is in it; symlinks are not followed.
RECURSIVE Collected(_, _)
Collected(s, queue) ==
    IF queue = <<>> THEN <<>>
    ELSE LET path  == Head(queue)
             names == IF Is(s, lstat(s, path), "dir") THEN read_dir(s, path) ELSE <<>>
         IN  <<path>> \o Collected(s, Tail(queue) \o [i \in DOMAIN names |-> Append(path, names[i])])

RemoveOne(s, path) == IF Is(s, lstat(s, path), "dir") THEN rmdir(s, path) ELSE unlink(s, path)

\* In reverse; what cannot be removed does not stop the rest.
remove_tree(s, root) ==
    LET well(p, path) == LET t == RemoveOne(p.s, path) IN [s |-> t, well |-> p.well /\ t.ok]
        done == FoldLeft(well, [s |-> s, well |-> TRUE], Reverse(Collected(s, <<root>>)))
    IN  [done.s EXCEPT !.ok = done.well]

remove_path(s, o, path) ==
    LET ino == lstat(s, path)
    IN  CASE ino = NoIno -> IF "f" \in o THEN Ok(s) ELSE Refuse(s)
          [] Is(s, ino, "dir") -> IF "r" \in o THEN remove_tree(s, path) ELSE IF "d" \in o THEN rmdir(s, path) ELSE Refuse(s)
          [] ino # NoIno /\ ~Is(s, ino, "dir") -> unlink(s, path)

\* "/" is turned away, and the others follow.
rm(s, o, paths) ==
    LET refused == [s EXCEPT !.code = IF \E i \in DOMAIN paths : paths[i] = <<>> THEN 1 ELSE @]
    IN  ForEach(refused, SelectSeq(paths, LAMBDA p : p # <<>>), LAMBDA t, p : remove_path(t, o, p))

unlink_mode(s, path) == IF Is(s, lstat(s, path), "dir") THEN Exit(s, 1) ELSE ForEach(s, <<path>>, unlink)

(***************************************************************************)
(* mkdir and rmdir.                                                        *)
(***************************************************************************)
create_single(s, path) ==
    IF exists(s, path) \/ ~is_dir(s, Front(path)) THEN Refuse(s) ELSE mkdir(s, path)

PathsTo(path) == [n \in 1 .. Len(path) |-> SubSeq(path, 1, n)]

\* Seeded bug: an ancestor that is there is in the way.
create_with_parentsBug(s, path) ==
    IF is_dir(s, path) THEN Ok(s) ELSE FoldLeft(LAMBDA t, p : Then(t, LAMBDA u : mkdir(u, p)), Ok(s), PathsTo(path))

\* The ancestors below the last one that is a directory, from the top.
create_with_parents(s, path) ==
    LET dirs   == {n \in 0 .. Len(path) : is_dir(s, SubSeq(path, 1, n))}
        wanted == SubSeq(PathsTo(path), Max(dirs) + 1, Len(path))
    IN  IF is_dir(s, path) THEN Ok(s)
        ELSE IF \E i \in DOMAIN wanted : exists(s, wanted[i]) THEN Refuse(s)
        ELSE FoldLeft(LAMBDA t, p : Then(t, LAMBDA u : mkdir(u, p)), Ok(s), wanted)

mkdir_bin(s, o, paths) ==
    ForEach(s, paths, LAMBDA t, p : IF "p" \in o THEN create_with_parents(t, p) ELSE create_single(t, p))

\* The parents, until one cannot be removed.
rm_path(s, path) ==
    FoldLeft(LAMBDA t, p : Then(t, LAMBDA u : rmdir(u, p)), s, Tail(Reverse(PathsTo(path))))

rmdir_bin(s, o, paths) ==
    ForEach(s, paths, LAMBDA t, p : Then(rmdir(t, p), LAMBDA u : IF "p" \in o THEN rm_path(u, p) ELSE u))

(***************************************************************************)
(* ln.                                                                     *)
(***************************************************************************)
\* Where the link is to be.  -F and -h keep a directory from being the place to put it in.
compute_target_path(s, o, source, target, is_target_dir) ==
    LET appends == \/ is_target_dir \/ "/" \in o
                   \/ "F" \notin o /\ Is(s, IF "h" \in o THEN lstat(s, target) ELSE stat(s, target), "dir")
    IN  IF appends THEN Under(target, source) ELSE target

same_dirent(s, p, q) == p = q \/ (Last(p) = Last(q) /\ is_dir(s, Front(p)) /\ stat(s, Front(p)) = stat(s, Front(q)))

\* The options as bin sets them: -F counts with -s only, and implies -f.
Config(o) == IF "s" \notin o THEN o \ {"F"} ELSE IF "F" \in o THEN o \cup {"f"} ELSE o

\* What is in the way is removed before the link is made.
linkit(s, o, source, target, is_target_dir) ==
    LET seen  == IF "P" \in o THEN lstat(s, source) ELSE stat(s, source)
        path  == compute_target_path(s, o, source, target, is_target_dir)
        old   == lstat(s, path)
        freed == IF old = NoIno THEN Ok(s)
                 ELSE IF "F" \in o /\ Is(s, old, "dir") THEN rmdir(s, path) ELSE unlink(s, path)
    IN  IF "s" \notin o /\ (seen = NoIno \/ Is(s, seen, "dir")) THEN Refuse(s)
        ELSE IF "s" \notin o /\ old # NoIno /\ same_dirent(s, source, path) THEN Refuse(s)
        ELSE IF old # NoIno /\ "f" \notin o THEN Refuse(s)
        ELSE Then(freed, LAMBDA t : IF "s" \in o THEN symlink(t, source, path) ELSE link(t, source, path))

ln(s, o, sources, target) ==
    LET c == Config(o)
    IN  IF Len(sources) = 1 THEN ForEach(s, sources, LAMBDA t, x : linkit(t, c, x, target, FALSE))
        ELSE IF ("h" \in o /\ Is(s, lstat(s, target), "link")) \/ ~is_dir(s, target) THEN Exit(s, 1)
        ELSE ForEach(s, sources, LAMBDA t, x : linkit(t, c, x, target, TRUE))

(***************************************************************************)
(* touch.  A time is a number, NowTime is the clock.                       *)
(***************************************************************************)
NowTime == 5
NoTime  == -2

\* The times to set: those of -r, or the given one, or now; -A moves them, or those
\* the file has when no time was given.
TouchTimes(s, o, a, path) ==
    LET file   == s.nodes[IF "h" \in o THEN lstat(s, path) ELSE stat(s, path)]
        timed  == a.ref # <<>> \/ a.time # NoTime
        ref    == s.nodes[stat(s, a.ref)]
        given  == IF a.ref # <<>> THEN <<ref.atime, ref.mtime>> ELSE IF a.time # NoTime THEN <<a.time, a.time>> ELSE <<NowTime, NowTime>>
    IN  IF a.adjust = 0 THEN given
        ELSE IF timed THEN <<given[1] + a.adjust, given[2] + a.adjust>>
        ELSE <<file.atime + a.adjust, file.mtime + a.adjust>>

\* -h and -A keep files from being made.
touch_one(s, o, a, path) ==
    LET creates == o \cap {"c", "h"} = {} /\ a.adjust = 0
        made  == create_file(s, path)
        timed == a.ref # <<>> \/ a.time # NoTime
        both  == o \cap {"a", "m"} = {}
        times(t) == TouchTimes(t, o, a, path)
        atime(t) == IF both \/ "a" \in o THEN times(t)[1] ELSE Omit
        mtime(t) == IF both \/ "m" \in o THEN times(t)[2] ELSE Omit
        sets(t) == IF "h" \in o /\ Is(t, lstat(t, path), "link") THEN lset_times(t, path, atime(t), mtime(t))
                   ELSE set_times(t, path, atime(t), mtime(t))
    IN  IF exists(s, path) THEN sets(s)
        ELSE IF ~creates THEN Ok(s)
        ELSE Then(made, LAMBDA t : IF timed THEN sets(t) ELSE t)

touch(s, o, a, paths) ==
    IF a.ref # <<>> /\ ~exists(s, a.ref) THEN Exit(s, 1)
    ELSE ForEach(s, paths, LAMBDA t, p : touch_one(t, o, a, p))

(***************************************************************************)
(* truncate.                                                               *)
(***************************************************************************)
calculate_target_size(current, spec) ==
    CASE spec.op = "absolute"   -> spec.n
      [] spec.op = "extend"     -> current + spec.n
      [] spec.op = "reduce"     -> Max({current - spec.n, 0})
      [] spec.op = "round up"   -> ((current + spec.n - 1) \div spec.n) * spec.n
      [] spec.op = "round down" -> (current \div spec.n) * spec.n

metadata(s, path) == Len(s.nodes[stat(s, path)].data)

resize_one(s, o, spec, path) ==
    LET size == calculate_target_size(IF exists(s, path) THEN metadata(s, path) ELSE 0, spec)
    IN  CASE "d" \in o -> IF exists(s, path) THEN punch_hole(s, path, spec.offset, spec.n)
                          ELSE IF "c" \in o THEN Ok(s) ELSE Refuse(s)
          [] "d" \notin o /\ "c" \in o -> IF exists(s, path) THEN truncate_existing(s, path, size) ELSE Ok(s)
          [] o \cap {"c", "d"} = {} -> truncate_path(s, path, size)

truncate_bin(s, o, spec, paths) == ForEach(s, paths, LAMBDA t, p : resize_one(t, o, spec, p))

(***************************************************************************)
(* tee, and split by lines or bytes, into chunks, or at lines.             *)
(***************************************************************************)
\* A file that cannot be emptied does not count; one that cannot be added to does.
tee(s, o, input, paths) ==
    LET emptied == IF "a" \in o THEN s ELSE FoldLeft(LAMBDA t, p : Ok(write_file(t, p, <<>>)), s, paths)
        added(t, line) == ForEach(t, paths, LAMBDA u, p : append_file(u, p, <<line>>))
    IN  FoldLeft(added, emptied, input)

\* The pieces of a file, n of its lines or bytes to each.
split_by_count(items, n) ==
    [k \in 1 .. ((Len(items) + n - 1) \div n) |-> SubSeq(items, (k - 1) * n + 1, Min({k * n, Len(items)}))]

\* What does not divide evenly makes one more piece, or several.
split_into_chunks(items, n) == split_by_count(items, Len(items) \div n)

\* A new piece begins at each line that matches, but for the first.  The pattern here
\* matches the even ones.
split_by_pattern(items) ==
    LET add(ps, x) == IF ps # <<>> /\ x % 2 # 0 THEN Front(ps) \o <<Append(Last(ps), x)>> ELSE Append(ps, <<x>>)
    IN  FoldLeft(add, <<>>, items)

Pieces(items, x) ==
    CASE x.mode = "count"   -> split_by_count(items, x.n)
      [] x.mode = "chunks"  -> split_into_chunks(items, x.n)
      [] x.mode = "pattern" -> split_by_pattern(items)

\* The names the pieces get: with -c those that are taken are passed over.
NamesLeft(s, o, names) == IF "c" \in o THEN SelectSeq(names, LAMBDA p : ~exists(s, p)) ELSE names

\* A piece that cannot be written, or has no name left, ends the command; names is
\* all that next_name gives.
RECURSIVE WritePieces(_, _, _, _)
WritePieces(s, o, pieces, names) ==
    LET left == NamesLeft(s, o, names)
        t    == write_file(s, Head(left), Head(pieces))
    IN  IF pieces = <<>> THEN Ok(s)
        ELSE IF left = <<>> THEN Exit(s, 1)
        ELSE IF t.ok THEN WritePieces(t, o, Tail(pieces), Tail(left)) ELSE Exit(t, 1)

split(s, o, source, x) ==
    IF ~is_file(s, source) \/ (x.mode = "chunks" /\ x.n > Len(read_file(s, source))) THEN Exit(s, 1)
    ELSE WritePieces(s, o, Pieces(read_file(s, source), x), x.names)

(***************************************************************************)
(* mktemp.  candidates is what expand_temp_template gives in turn.         *)
(***************************************************************************)
\* A name that is taken is passed over, another error ends the search.
RECURSIVE create_unique_temp_path(_, _, _)
create_unique_temp_path(s, o, candidates) ==
    LET path == Head(candidates)
        t    == IF "d" \in o THEN mkdir(s, path) ELSE create_file(s, path)
    IN  IF candidates = <<>> THEN Refuse(s)
        ELSE IF resolve_path(s, path) # Nowhere /\ lstat(s, path) # NoIno THEN create_unique_temp_path(s, o, Tail(candidates))
        ELSE IF t.ok /\ "u" \in o THEN Ok(IF "d" \in o THEN rmdir(t, path) ELSE unlink(t, path)) ELSE t

mktemp(s, o, templates) == ForEach(s, templates, LAMBDA t, candidates : create_unique_temp_path(t, o, candidates))

(***************************************************************************)
(* What a Lisp program may do to files (fs-write, fs-append, fs-mkdir,     *)
(* fs-mkdir-all, fs-unlink, fs-rmdir, fs-rename, fs-symlink, fs-link), and *)
(* the calls of LfsSyncFilesystem (eudaemonfs/src/lisp.rs) that do         *)
(* otherwise than those of Lfs: write_string, create_file, mkstemp,        *)
(* mkdtemp.  A call that fails is an error the program sees; it leaves     *)
(* what the calls before it did.                                           *)
(***************************************************************************)
\* The directories above are made, as far as there is room; that they are is not looked at.
write_string(s, path, bytes) ==
    write_file(IF Len(path) > 1 THEN mkdir_all(s, Front(path)) ELSE s, path, bytes)

\* What a symlink leads to counts as well.
CreateFile(s, path) == IF exists(s, path) THEN [s EXCEPT !.ok = TRUE] ELSE write_file(s, path, <<>>)

\* The first of the names tried that is free and can be made.
Temporary(s, names, Make(_, _)) ==
    LET try(t, n) == IF t.ok \/ exists(t, n) THEN t ELSE Make(t, n)
    IN  FoldLeft(try, [s EXCEPT !.ok = FALSE], names)
mkstemp(s, names) == Temporary(s, names, LAMBDA t, n : write_file(t, n, <<>>))
mkdtemp(s, names) == Temporary(s, names, LAMBDA t, n : mkdir(t, n))

\* What the program sees: the value, or an error.
Raised(t) == [t EXCEPT !.code = IF t.ok THEN 0 ELSE 1]

fs_write(s, path, bytes)   == Raised(write_string(s, path, bytes))
fs_append(s, path, bytes)  == Raised(append_file(s, path, bytes))
fs_mkdir(s, path)          == Raised(mkdir(s, path))
fs_mkdir_all(s, path)      == Raised(mkdir_all(s, path))
fs_unlink(s, path)         == Raised(unlink(s, path))
fs_rmdir(s, path)          == Raised(rmdir(s, path))
fs_rename(s, src, dst)     == Raised(rename(s, src, dst))
fs_symlink(s, target, dst) == Raised(symlink(s, target, dst))
fs_link(s, src, dst)       == Raised(link(s, src, dst))

\* One call: op on path, with a second path to, bytes or the names to try.
LispCall(s, op, path, to, x) ==
    CASE op = "write"     -> fs_write(s, path, x)
      [] op = "append"    -> fs_append(s, path, x)
      [] op = "mkdir"     -> fs_mkdir(s, path)
      [] op = "mkdir_all" -> fs_mkdir_all(s, path)
      [] op = "unlink"    -> fs_unlink(s, path)
      [] op = "rmdir"     -> fs_rmdir(s, path)
      [] op = "rename"    -> fs_rename(s, path, to)
      [] op = "symlink"   -> fs_symlink(s, path, to)
      [] op = "link"      -> fs_link(s, path, to)
      [] op = "create"    -> Raised(CreateFile(s, path))
      [] op = "mkstemp"   -> Raised(mkstemp(s, x))
      [] op = "mkdtemp"   -> Raised(mkdtemp(s, x))
=============================================================================
