------------------------------- MODULE Looking -------------------------------
(***************************************************************************)
(* The commands of eudaemonsh that look at files (ls, du, realpath,        *)
(* readlink), and what a Lisp program and the filesystem list (fs-stat,    *)
(* fs-readdir, fs-tree, list-files).  Nothing here changes a filesystem.   *)
(*                                                                         *)
(* A line of output is a record.  Targets of symlinks are absolute; names  *)
(* do not begin with a dot, but for "." and "..".                          *)
(***************************************************************************)
EXTENDS FileTools

CONSTANTS
    FileNames,      \* the names in paths
    MarkdownNames,  \* those that end in .md or .MD
    BlockSize       \* of du (512)

ASSUME LookingAssumption == MarkdownNames \subseteq FileNames /\ BlockSize \in Nat \ {0}

(***************************************************************************)
(* What a call says of an inode.  A directory has no size here.            *)
(***************************************************************************)
Size(s, ino) == Len(IF Is(s, ino, "link") THEN read_symlink_target(s, ino) ELSE s.nodes[ino].data)
Info(s, ino) == [type |-> s.nodes[ino].kind, size |-> Size(s, ino), mtime |-> s.nodes[ino].mtime, atime |-> s.nodes[ino].atime, ino |-> ino]

\* A set of one, or nothing for an error.
Maybe(s, ino)  == IF ino = NoIno THEN {} ELSE {Info(s, ino)}
fs_stat(s, path)  == Maybe(s, stat(s, path))
fs_lstat(s, path) == Maybe(s, lstat(s, path))
fs_readdir(s, path) == IF is_dir(s, path) THEN [n \in DOMAIN s.nodes[stat(s, path)].entries |-> Info(s, s.nodes[stat(s, path)].entries[n])] ELSE <<>>
fs_read(s, path) == IF is_file(s, path) THEN {read_file(s, path)} ELSE {}
fs_readlink(s, path) == IF Is(s, lstat(s, path), "link") THEN {read_symlink_target(s, lstat(s, path))} ELSE {}

Rank(n) == SelectInSeq(SetToSeq(FileNames), LAMBDA m : m = n)
\* Paths as strings are compared.
Sooner(p, q) ==
    \/ IsStrictPrefix(p, q)
    \/ \E i \in DOMAIN p \cap DOMAIN q : SubSeq(p, 1, i - 1) = SubSeq(q, 1, i - 1) /\ Rank(p[i]) < Rank(q[i])

ByRank(names) == SetToSortSeq(ToSet(names), LAMBDA m, n : Rank(m) < Rank(n))

Here(path, names) == [i \in DOMAIN names |-> Append(path, names[i])]

RECURSIVE find_md_files(_, _, _)
find_md_files(s, path, kinds) ==
    LET Found(p) == CASE Is(s, lstat(s, p), "dir") -> find_md_files(s, p, kinds)
                      [] s.nodes[lstat(s, p)].kind \in kinds /\ Last(p) \in MarkdownNames -> <<p>>
                      [] OTHER -> <<>>
        paths == Here(path, read_dir(s, path))
    IN  FlattenSeq([i \in DOMAIN paths |-> Found(paths[i])])

\* As a Lisp program lists them, and as the filesystem does.
list_markdown_files(s)    == SortSeq(find_md_files(s, <<>>, {"file"}), Sooner)
collect_markdown_files(s) == SortSeq(find_md_files(s, <<>>, {"file", "link"}), Sooner)

\* A symlink is drawn as what it leads to; one that leads nowhere spoils the tree.
Broken == <<[path |-> <<>>, type |-> "broken"]>>
RECURSIVE build_tree(_, _)
build_tree(s, path) ==
    LET ino   == stat(s, path)
        paths == IF Is(s, ino, "dir") THEN Here(path, ByRank(read_dir(s, path))) ELSE <<>>
        parts == [i \in DOMAIN paths |-> build_tree(s, paths[i])]
    IN  IF ino = NoIno \/ Broken \in ToSet(parts) THEN Broken
        ELSE <<[path |-> path, type |-> s.nodes[ino].kind]>> \o FlattenSeq(parts)
render_tree(s) == build_tree(s, <<>>)

(***************************************************************************)
(* ls.                                                                     *)
(***************************************************************************)
sort_entries(s, o, entries) ==
    LET ByName(a, b) == Sooner(a.name, b.name)
        Key(e) == IF "t" \in o THEN s.nodes[e.ino].mtime ELSE IF "S" \in o THEN Size(s, e.ino) ELSE 0
        Less(a, b) == Key(a) > Key(b) \/ (Key(a) = Key(b) /\ ByName(a, b))
    IN  IF "r" \in o THEN Reverse(SortSeq(entries, Less)) ELSE SortSeq(entries, Less)

\* The entries of a directory, then, with -R, those of the directories in it.
RECURSIVE list_directory(_, _, _)
list_directory(s, o, path) ==
    LET names   == SetToSeq({n \in DOMAIN fs_readdir(s, path) : "a" \in o \/ n \notin Dots})
        entries == sort_entries(s, o, [i \in DOMAIN names |-> [name |-> <<names[i]>>, ino |-> fs_readdir(s, path)[names[i]].ino]])
        Deeper(e) == IF "R" \in o /\ Is(s, e.ino, "dir") /\ e.name[1] \notin Dots THEN list_directory(s, o, path \o e.name) ELSE <<>>
    IN  [i \in DOMAIN entries |-> [dir |-> path, name |-> entries[i].name]] \o FlattenSeq([i \in DOMAIN entries |-> Deeper(entries[i])])

\* Files first, then directories.
ls(s, o, paths) ==
    LET found == SelectSeq(paths, LAMBDA p : exists(s, p))
        Entry(p) == [name |-> p, ino |-> stat(s, p)]
        IsFile(p) == ~is_dir(s, p) \/ "d" \in o
        some(Test(_)) == LET those == SelectSeq(found, Test) IN [i \in DOMAIN those |-> Entry(those[i])]
        files == sort_entries(s, o, some(IsFile))
        dirs  == sort_entries(s, o \ {"t", "S"}, some(LAMBDA p : ~IsFile(p)))
    IN  [code  |-> IF found = paths THEN 0 ELSE 1,
         lines |-> [i \in DOMAIN files |-> [dir |-> <<>>, name |-> files[i].name]] \o FlattenSeq([i \in DOMAIN dirs |-> list_directory(s, o, dirs[i].name)])]

(***************************************************************************)
(* du.  A directory of at most BlockSize entries takes one block.          *)
(***************************************************************************)
get_size(s, ino) == IF Is(s, ino, "dir") THEN 1 ELSE (Size(s, ino) + BlockSize - 1) \div BlockSize

\* r.seen: the files counted, r.size: the blocks, r.lines: what is printed.
RECURSIVE calculate_du(_, _, _, _, _)
calculate_du(s, o, path, depth, seen) ==
    LET ino    == lstat(s, path)
        names  == IF Is(s, ino, "dir") THEN read_dir(s, path) ELSE <<>>
        once   == "l" \notin o /\ Is(s, ino, "file")
        prints == (("s" \in o) => depth = 0) /\ (Is(s, ino, "dir") \/ depth = 0 \/ "a" \in o)
        add(r, n) == LET t == calculate_du(s, o, Append(path, n), depth + 1, r.seen)
                     IN  [t EXCEPT !.ok = TRUE, !.size = @ + r.size, !.lines = r.lines \o @]
        all    == FoldLeft(add, [ok |-> TRUE, size |-> get_size(s, ino), seen |-> IF once THEN seen \cup {ino} ELSE seen, lines |-> <<>>], names)
    IN  CASE ino = NoIno -> [ok |-> FALSE, size |-> 0, seen |-> seen, lines |-> <<>>]
          [] once /\ ino \in seen -> [ok |-> TRUE, size |-> 0, seen |-> seen, lines |-> <<>>]
          [] OTHER -> IF prints THEN [all EXCEPT !.lines = Append(@, [size |-> all.size, path |-> path])] ELSE all

\* What was counted for one operand is not counted for the next.
du(s, o, paths) ==
    LET add(r, p) == LET t == calculate_du(s, o, p, 0, r.seen)
                     IN  [t EXCEPT !.ok = @ /\ r.ok, !.size = @ + r.size, !.lines = r.lines \o @]
    IN  FoldLeft(add, [ok |-> TRUE, size |-> 0, seen |-> {}, lines |-> <<>>], paths)

(***************************************************************************)
(* realpath, and readlink -f, which has a copy of it.                      *)
(***************************************************************************)
NoPath == <<"no such file">>

\* Seeded bug: what comes after a symlink is looked for beside it.
resolve_componentsBug(s, path, resolved, depth) == IF Is(s, lstat(s, path), "link") THEN read_symlink_target(s, lstat(s, path)) ELSE path

RECURSIVE resolve_components(_, _, _, _)
resolve_components(s, path, resolved, depth) ==
    IF depth > MaxHops THEN NoPath
    ELSE IF path = <<>> THEN resolved
    ELSE LET at  == Append(resolved, Head(path))
             ino == lstat(s, at)
             to  == resolve_components(s, read_symlink_target(s, ino), <<>>, depth + 1)
         IN  CASE ino = NoIno -> NoPath
               [] Is(s, ino, "link") -> IF to = NoPath THEN NoPath ELSE resolve_components(s, Tail(path), to, depth)
               [] ino # NoIno /\ ~Is(s, ino, "link") -> resolve_components(s, Tail(path), at, depth)

realpath(s, path) == resolve_components(s, path, <<>>, 0)
readlink(s, o, path) == IF "f" \in o THEN realpath(s, path) ELSE IF fs_readlink(s, path) = {} THEN NoPath ELSE CHOOSE t \in fs_readlink(s, path) : TRUE
=============================================================================
