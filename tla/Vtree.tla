------------------------------- MODULE Vtree -------------------------------
(***************************************************************************)
(* vtree (HW2): the walk over a directory tree (src/vtree.c, built with    *)
(* MEMORY_BASED and without LSTAT), and the table of the inodes it has     *)
(* counted (src/hash.c).                                                   *)
(*                                                                         *)
(* A file system is a record of                                            *)
(*   entries     directory -> name -> inode, NONE for a link that leads    *)
(*               nowhere; links are followed, so that a directory may have *)
(*               several names                                             *)
(*   unreadable  the directories that opendir() cannot open, and           *)
(*   closed      those that chdir() cannot enter                           *)
(*   place       name -> its place in the order of readdir()               *)
(*   dev, ino, blocks   of each inode, as stat() returns them.             *)
(* The recursion of down() is the stack; one step handles one entry.       *)
(***************************************************************************)
EXTENDS Integers, Sequences, FiniteSets, SequencesExt

CONSTANTS
    Jobs,       \* records of a file system and the arguments and options of vtree
    BUCKETS,    \* of a hash table (257 in the code)
    EXTEND,     \* the keys by which a bucket grows (100)
    MaxOpen     \* the directories a process may have open

NONE == 0       \* no inode
Dot == 0        \* the name "."
topdir == 1     \* the directory vtree is started in

\* stat() tells inodes apart by device and number, and no number is 0; links may lead
\* from any name to any inode.
FileSystemOK(f) ==
    LET inodes == DOMAIN f.dev
    IN  /\ inodes \subseteq Nat \ {NONE}
        /\ topdir \in DOMAIN f.entries /\ DOMAIN f.entries \subseteq inodes
        /\ \A d \in DOMAIN f.entries :
              /\ DOMAIN f.entries[d] \subseteq Nat \ {Dot}
              /\ f.entries[d] \in [DOMAIN f.entries[d] -> inodes \cup {NONE}]
              /\ \A m \in DOMAIN f.entries[d] \cup {Dot} : f.place[m] \in Nat
        /\ \A n \in inodes : /\ f.dev[n] \in Nat /\ f.ino[n] \in Nat \ {0}
                             /\ f.blocks[n] \in Nat
        /\ \A m, n \in inodes : f.dev[m] = f.dev[n] /\ f.ino[m] = f.ino[n] => m = n

Options == [depth : Int, sum : BOOLEAN, duplicates : BOOLEAN, quick : BOOLEAN,
            visual : BOOLEAN, sort : BOOLEAN]

ASSUME VtreeAssumption ==
    /\ BUCKETS \in Nat \ {0} /\ EXTEND \in Nat \ {0} /\ MaxOpen \in Nat
    /\ \A j \in Jobs : FileSystemOK(j.fs) /\ j.args \in Seq(Nat) /\ j.opts \in Options

VARIABLES
    fs, args, opts,     \* the file system, the arguments and the options
    arg,                \* the argument main() is at, and
    phase,              \* what it does with it
    stack,              \* the calls of down() that have not returned
    cwd,                \* the current directory
    stb,                \* the inode that stat() has found last, a global variable
    cur_depth,
    sub_dirs,
    indented,           \* the last name has left its line open
    tally,              \* the variables inodes and sizes, and
    total,              \* total_inodes and total_sizes
    hash,               \* the tables of hash.c
    open,               \* the descriptors in use
    lines,              \* what has been printed of the tree, and
    summary             \* behind it, with -t and -i

job == <<fs, args, opts>>
walk == <<stack, cwd, cur_depth, open>>
vars == <<job, arg, phase, walk, stb, sub_dirs, indented, tally, total, hash, lines,
          summary>>

-----------------------------------------------------------------------------
(* hash.c *)

EmptyBucket == [length |-> 0, filled |-> 0, keys |-> [k \in {} |-> 0]]
NewTable(dev) == [device |-> dev, buckets |-> [k \in 0 .. (BUCKETS - 1) |-> EmptyBucket]]

\* The table of dev, a new one behind the others if there is none.
Table(h, dev) ==
    LET known == {t \in DOMAIN h.tables : h.tables[t].device = dev}
    IN  IF h.tablep # 0 /\ h.tables[h.tablep].device = dev THEN h
        ELSE IF known = {}
             THEN [tables |-> Append(h.tables, NewTable(dev)), tablep |-> Len(h.tables) + 1]
        ELSE [h EXCEPT !.tablep = CHOOSE t \in known : \A u \in known : t <= u]

\* The keys stand at 1 .. filled: the search goes over 0 .. filled - 1, and the last
\* key is compared after it.
Found(bucket, ino) ==
    LET hits == {k \in 0 .. (bucket.filled - 1) : bucket.keys[k] = ino}
        i == IF hits = {} THEN bucket.filled ELSE CHOOSE k \in hits : \A l \in hits : k <= l
    IN  i # 0 /\ bucket.keys[i] = ino

\* The keys of a grown bucket; the last key of a full one stands right behind its array,
\* in the word that malloc() has rounded the array up by.
Grown(bucket) ==
    IF bucket.filled # bucket.length THEN bucket
    ELSE [bucket EXCEPT !.length = @ + EXTEND,
                        !.keys = [k \in 0 .. (bucket.length + EXTEND) |->
                                     IF k \in DOMAIN @ THEN @[k] ELSE 0]]

\* MUTANT: the keys begin at 0.
FromZeroMutant(h, dev, ino) ==
    LET h1 == Table(h, dev)
        bucket == h1.tables[h1.tablep].buckets[ino % BUCKETS]
        grown == Grown(bucket)
    IN  IF Found(bucket, ino) THEN [h |-> h1, old |-> TRUE]
        ELSE [h |-> [h1 EXCEPT !.tables[h1.tablep].buckets[ino % BUCKETS] =
                        [grown EXCEPT !.keys[grown.filled] = ino, !.filled = @ + 1]],
              old |-> FALSE]

h_enter(h, dev, ino) ==
    LET h1 == Table(h, dev)
        bucket == h1.tables[h1.tablep].buckets[ino % BUCKETS]
        grown == Grown(bucket)
    IN  IF Found(bucket, ino) THEN [h |-> h1, old |-> TRUE]
        ELSE [h |-> [h1 EXCEPT !.tables[h1.tablep].buckets[ino % BUCKETS] =
                        [grown EXCEPT !.keys[grown.filled + 1] = ino, !.filled = @ + 1]],
              old |-> FALSE]

-----------------------------------------------------------------------------
(* The file system *)

IsDir(n) == n \in DOMAIN fs.entries

Lookup(dir, name) ==
    IF name = Dot THEN dir
    ELSE IF name \in DOMAIN fs.entries[dir] THEN fs.entries[dir][name] ELSE NONE

\* What is in stb after stat(name): when it fails, what has been there before.
Stat(name) == LET n == Lookup(cwd, name) IN IF n = NONE THEN stb ELSE n

Opens(n) == n # NONE /\ IsDir(n) /\ n \notin fs.unreadable /\ open < MaxOpen

-----------------------------------------------------------------------------
(* down and get_data *)

Zero == [inodes |-> 0, sizes |-> 0]
K(blocks) == (blocks * 512 + 1023) \div 1024
With(t, n) == [inodes |-> t.inodes + 1, sizes |-> t.sizes + K(fs.blocks[n])]
Plus(t, u) == [inodes |-> t.inodes + u.inodes, sizes |-> t.sizes + u.sizes]

Figures == ~opts.quick /\ ~opts.visual

Top == stack[Len(stack)]
In(loop) == stack # <<>> /\ Top.loop = loop
Entry == Top.list[Top.i]
AtEnd == Top.i > Len(Top.list)
Become(frame) == [stack EXCEPT ![Len(stack)] = frame]
Advanced == Become([Top EXCEPT !.i = @ + 1])
Loop(loop) == Become([Top EXCEPT !.i = 1, !.loop = loop])

\* down(name), called with the directory's inode in stb and with callers on the stack.
\* A name that begins a line has, at each level to its left, a bar if the level has
\* directories to come.  The first name below a directory is put beside it, on the line
\* that is still open, and gets the sign of a branch that goes on in any case.  (Columns,
\* the second line of a name that is too long for its column and the empty lines between
\* branches are layout, and left out.)
down(name, callers) ==
    LET n == Lookup(cwd, name)
        named == [kind |-> "name", node |-> stb', level |-> cur_depth, beside |-> indented,
                  bars |-> [i \in IF indented THEN {cur_depth} ELSE 1 .. cur_depth |->
                               indented \/ sub_dirs'[i] # 0]]
        shown == IF cur_depth < opts.depth THEN Append(lines, named) ELSE lines
        frame == [dir |-> n, cwd |-> cwd, left |-> {Dot} \cup DOMAIN fs.entries[n],
                  list |-> <<>>, i |-> 1, loop |-> "list"]
    IN  IF cur_depth = opts.depth /\ ~opts.sum
        THEN stack' = callers /\ UNCHANGED <<cwd, cur_depth, open, indented, lines>>
        ELSE IF ~Opens(n)
        THEN /\ lines' = Append(shown, [kind |-> "unread", node |-> stb'])
             /\ indented' = FALSE
             /\ stack' = callers
             /\ UNCHANGED <<cwd, cur_depth, open>>
        ELSE /\ lines' = shown
             /\ indented' = (indented \/ (opts.visual /\ cur_depth < opts.depth))
             /\ open' = open + 1
             /\ cur_depth' = cur_depth + 1
             /\ stack' = Append(callers, frame)
             /\ cwd' = IF n \in fs.closed THEN cwd ELSE n

\* get_data(name, TRUE)
get_data_down(name, callers) ==
    /\ stb' = Stat(name)
    /\ IF IsDir(stb')
       THEN tally' = With(tally, stb') /\ down(name, callers)
       ELSE stack' = callers /\ UNCHANGED <<tally, cwd, cur_depth, open, indented, lines>>

\* MUTANT: for the quick and the visual display, files are listed as well.
ListedMutant(name, n) == Figures \/ name # Dot

\* The entries that are kept: n is in stb after chk_4_dir().
Listed(name, n) == Figures \/ (name # Dot /\ IsDir(n))

\* The sort of -o: each place in turn is compared with all those behind it.
Swapped(list, i, j) ==
    IF list[i] > list[j] THEN [list EXCEPT ![i] = list[j], ![j] = list[i]] ELSE list
Pass(list, i) ==
    LET after[j \in 0 .. Len(list)] == IF j <= i THEN list ELSE Swapped(after[j - 1], i, j)
    IN  after[Len(list)]
Sorted(list) ==
    LET after[i \in 0 .. Len(list)] == IF i = 0 THEN list ELSE Pass(after[i - 1], i)
    IN  after[Len(list)]

ReadEntry ==
    /\ In("list") /\ Top.left # {}
    /\ LET name == CHOOSE m \in Top.left : \A o \in Top.left : fs.place[m] <= fs.place[o]
           n == Stat(name)
       IN  /\ stb' = IF Figures \/ name = Dot THEN stb ELSE n
           /\ stack' = Become([Top EXCEPT
                 !.left = @ \ {name},
                 !.list = IF Listed(name, n) THEN Append(@, name) ELSE @])
    /\ UNCHANGED <<job, arg, phase, cwd, cur_depth, open, sub_dirs, indented, tally, total, hash,
                   lines, summary>>

\* In the visual display the directories of the list are counted in one loop.
EndList ==
    /\ In("list") /\ Top.left = {}
    /\ LET list == IF opts.sort THEN Sorted(Top.list) ELSE Top.list
       IN  stack' = Become([Top EXCEPT !.list = list,
                                       !.loop = IF Figures THEN "count" ELSE "descend"])
    /\ sub_dirs' = IF opts.visual THEN [sub_dirs EXCEPT ![cur_depth] = @ + Len(Top.list)]
                   ELSE sub_dirs
    /\ UNCHANGED <<job, arg, phase, cwd, cur_depth, open, stb, indented, tally, total, hash, lines,
                   summary>>

\* get_data(name, FALSE): a file is counted, once unless -d is given.
CountEntry ==
    /\ In("count") /\ ~AtEnd
    /\ stb' = Stat(Entry)
    /\ LET entered == h_enter(hash, fs.dev[stb'], fs.ino[stb'])
       IN  IF IsDir(stb') THEN UNCHANGED <<hash, tally>>
           ELSE /\ hash' = entered.h
                /\ tally' = IF entered.old /\ ~opts.duplicates THEN tally ELSE With(tally, stb')
    /\ stack' = Advanced
    /\ UNCHANGED <<job, arg, phase, cwd, cur_depth, open, sub_dirs, indented, total, lines, summary>>

\* MUTANT: figures that have been printed are kept.
NoResetMutant ==
    /\ lines' = Append(lines, [kind |-> "figures", figures |-> tally])
    /\ total' = Plus(total, tally)
    /\ UNCHANGED tally

\* The figures of the directory are printed, and begin anew.
PrintFigures ==
    /\ lines' = Append(lines, [kind |-> "figures", figures |-> tally])
    /\ total' = Plus(total, tally)
    /\ tally' = Zero

EndCount ==
    /\ In("count") /\ AtEnd
    /\ IF cur_depth < opts.depth THEN PrintFigures ELSE UNCHANGED <<lines, total, tally>>
    /\ stack' = Loop("descend")
    /\ UNCHANGED <<job, arg, phase, cwd, cur_depth, open, stb, sub_dirs, indented, hash, summary>>

Descend ==
    /\ In("descend") /\ ~AtEnd
    /\ IF Entry = Dot
       THEN /\ stack' = Advanced
            /\ UNCHANGED <<sub_dirs, stb, tally, cwd, cur_depth, open, indented, lines>>
       ELSE /\ sub_dirs' = IF IsDir(Stat(Entry)) THEN [sub_dirs EXCEPT ![cur_depth] = @ - 1]
                           ELSE sub_dirs
            /\ get_data_down(Entry, Advanced)
    /\ UNCHANGED <<job, arg, phase, total, hash, summary>>

\* The end of down().  A line that is open is ended.  The stream is freed, not closed: its
\* descriptor stays in use.
Leave ==
    /\ In("descend") /\ AtEnd
    /\ IF Figures /\ cur_depth = opts.depth THEN PrintFigures
       ELSE UNCHANGED <<lines, total, tally>>
    /\ indented' = (indented /\ ~opts.visual)
    /\ sub_dirs' = [sub_dirs EXCEPT ![cur_depth] = 0]
    /\ cur_depth' = cur_depth - 1
    /\ cwd' = Top.cwd
    /\ stack' = Front(stack)
    /\ UNCHANGED <<job, arg, phase, open, stb, hash, summary>>

-----------------------------------------------------------------------------
(* vtree_main *)

\* Without arguments the directory vtree is started in is inspected.
Targets == IF args = <<>> THEN <<Dot>> ELSE args

NextTarget ==
    /\ phase = "next" /\ arg < Len(Targets)
    /\ arg' = arg + 1 /\ phase' = "inspect"
    /\ cur_depth' = 0 /\ tally' = Zero /\ cwd' = topdir
    /\ UNCHANGED <<job, stack, open, stb, sub_dirs, indented, total, hash, lines, summary>>

Inspect ==
    /\ phase = "inspect"
    /\ phase' = "walk"
    /\ UNCHANGED sub_dirs
    /\ get_data_down(Targets[arg], <<>>)
    /\ UNCHANGED <<job, arg, total, hash, summary>>

Inspected ==
    /\ phase = "walk" /\ stack = <<>>
    /\ total' = Plus(total, tally)
    /\ phase' = "next"
    /\ UNCHANGED <<job, arg, walk, stb, sub_dirs, indented, tally, hash, lines, summary>>

\* The totals: the size of all arguments, but the inodes of which no figures were printed.
Summary ==
    /\ phase = "next" /\ arg = Len(Targets)
    /\ phase' = "done"
    /\ summary' = [inodes |-> tally.inodes, sizes |-> total.sizes]
    /\ UNCHANGED <<job, arg, walk, stb, sub_dirs, indented, tally, total, hash, lines>>

Init ==
    /\ \E j \in Jobs : fs = j.fs /\ args = j.args /\ opts = j.opts
    /\ arg = 0 /\ phase = "next"
    /\ stack = <<>> /\ cwd = topdir /\ cur_depth = 0 /\ open = 0
    /\ stb = NONE
    /\ sub_dirs = [d \in 0 .. MaxOpen |-> 0] /\ indented = FALSE
    /\ tally = Zero /\ total = Zero
    /\ hash = [tables |-> <<>>, tablep |-> 0]
    /\ lines = <<>> /\ summary = Zero

Next ==
    \/ NextTarget \/ Inspect \/ Inspected \/ Summary
    \/ ReadEntry \/ EndList \/ CountEntry \/ EndCount \/ Descend \/ Leave

Spec == Init /\ [][Next]_vars
=============================================================================
