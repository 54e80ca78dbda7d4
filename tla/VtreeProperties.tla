-------------------------- MODULE VtreeProperties --------------------------
(***************************************************************************)
(* What the walk of HW2 must count and draw, against the set of all ways   *)
(* that lead down from the arguments.                                      *)
(***************************************************************************)
EXTENDS Vtree

Done == phase = "done"

\* The arguments and the names of the file system lead somewhere, every directory could be
\* entered, and the descriptors lasted: only an unreadable directory could not be opened.
Intact ==
    /\ \A i \in DOMAIN Targets : Lookup(topdir, Targets[i]) # NONE
    /\ \A d \in DOMAIN fs.entries : NONE \notin Range(fs.entries[d])
    /\ fs.closed = {}
    /\ \A k \in DOMAIN lines : lines[k].kind = "unread" => lines[k].node \in fs.unreadable

\* A way is a sequence of directories with the names they were reached by and their depths.
Place(name, node, depth) == [name |-> name, node |-> node, depth |-> depth]
Goes(at) == at.node \notin fs.unreadable /\ (at.depth # opts.depth \/ opts.sum)
Names(at, dirs) ==
    {m \in DOMAIN fs.entries[at.node] : Goes(at) /\ IsDir(fs.entries[at.node][m]) = dirs}

\* The ways that go on from roots, through directories that can be read.  None is longer
\* than the number of directories that can be open.
Onwards(way) ==
    LET at == Last(way)
    IN  {Append(way, Place(m, fs.entries[at.node][m], at.depth + 1)) : m \in Names(at, TRUE)}
Ways(roots) ==
    LET level[k \in 0 .. MaxOpen] == IF k = 0 THEN roots ELSE UNION {Onwards(w) : w \in level[k - 1]}
    IN  UNION {level[k] : k \in 0 .. MaxOpen}

\* The figures of the inodes node[x], each x counted.
Total(node) ==
    [inodes |-> Cardinality(DOMAIN node),
     sizes |-> SumFunction([x \in DOMAIN node |-> K(fs.blocks[node[x]])])]

\* The files that the directories at the ends of ways have, by way and name.
Files(ways) == UNION {{<<w, m>> : m \in Names(Last(w), FALSE)} : w \in ways}

\* The directories, once for each way, and the files: each inode once, or with -d each
\* of its names.
Expected(ways) ==
    LET files == [f \in Files(ways) |-> fs.entries[Last(f[1]).node][f[2]]]
    IN  Plus(Total([w \in ways |-> Last(w).node]),
             IF ~Figures THEN Zero
             ELSE IF opts.duplicates THEN Total(files)
             ELSE Total([n \in Range(files) |-> n]))

Roots == {<<Place(i, Lookup(topdir, Targets[i]), 0)>> :
             i \in {j \in DOMAIN Targets : IsDir(Lookup(topdir, Targets[j]))}}

\* However the walk meets the names of an inode, in one directory or in several, below
\* one argument or another, on a device whose inode numbers another one uses too, and
\* wherever its key lies in the table: the totals contain each file once, or with -d
\* once for every name, and each directory once for every way that leads to it.  The space
\* that -t prints at the end is that of the totals.  (The number of inodes it prints is not,
\* src/vtree.c:678; and that a directory with two names counts twice is what the program does
\* but not what doc/vtree.1:10 and README.md:236-237 say of inodes.)
FilesCountedOnce ==
    Done /\ Intact =>
        LET counted == Expected(Ways(Roots))
        IN  total = counted /\ summary.sizes = counted.sizes

\* What the lines 1 .. k with a name stand for: one directory, or at the last level that
\* is displayed all that is counted below it.
Named(k) == {l \in 1 .. k : lines[l].kind = "name"}
Line(l) == <<Place(l, lines[l].node, lines[l].level)>>
Shown(k) ==
    UNION {IF lines[l].level + 1 = opts.depth THEN Ways({Line(l)}) ELSE {Line(l)} : l \in Named(k)}
ExpectedUpTo(k) == Expected(Shown(k))

\* The first line of the argument that line k belongs to.
FirstLine(k) ==
    CHOOSE j \in 1 .. k :
        /\ lines[j].kind = "name" /\ lines[j].level = 0
        /\ \A i \in (j + 1) .. k : lines[i].kind = "name" => lines[i].level # 0

\* The sum of the figures in the lines j .. k.
Printed(j, k) ==
    LET printed == {l \in j .. k : lines[l].kind = "figures"}
    IN  [inodes |-> SumFunction([l \in printed |-> lines[l].figures.inodes]),
         sizes |-> SumFunction([l \in printed |-> lines[l].figures.sizes])]

\* The figures stand on the lines of the directories they belong to: below an argument,
\* those printed up to any line add up to what the directories named so far contain,
\* no inode again that an earlier directory has had.  What is left from a directory that
\* cannot be read comes with the next figures.
FiguresBelongToTheirLine ==
    Done /\ Intact =>
        \A k \in {l \in DOMAIN lines : lines[l].kind = "figures"} :
            LET j == FirstLine(k)
            IN  Plus(ExpectedUpTo(j - 1), Printed(j, k)) = ExpectedUpTo(k)

\* The tree of the visual display is the tree that was walked.  A name stands beside another
\* one if and only if that is its directory's, printed just before it: neither a directory
\* that could not be read nor one that is left, displayed or not, leaves its line open for
\* one that belongs elsewhere.  Where a name begins a line, at each level to its left a
\* branch goes on downwards if and only if a later line hangs on it.  (That of a name beside
\* its directory goes on in any case, below an only child too: src/vtree.c:217.)
BranchesGoOn ==
    Done /\ Intact /\ opts.visual =>
        \A k \in {l \in DOMAIN lines : lines[l].kind = "name"} :
            /\ lines[k].beside <=> /\ k # 1 /\ lines[k - 1].kind = "name"
                                  /\ lines[k - 1].level = lines[k].level - 1
            /\ ~lines[k].beside =>
                  \A i \in 1 .. lines[k].level :
                      lines[k].bars[i] <=>
                          \E m \in (k + 1) .. Len(lines) :
                              /\ lines[m].kind = "name" /\ lines[m].level = i
                              /\ \A l \in (k + 1) .. m :
                                    lines[l].kind = "name" => lines[l].level >= i
=============================================================================
