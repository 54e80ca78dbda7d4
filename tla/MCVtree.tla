------------------------------ MODULE MCVtree ------------------------------
(***************************************************************************)
(* File systems and options of vtree for TLC.  A directory is written as   *)
(* the sequence of the inodes its names 1, 2, ... lead to; inode 1 is the  *)
(* directory vtree is started in.                                          *)
(***************************************************************************)
EXTENDS VtreeProperties

FileSystem(entries, unreadable, closed, mounted) ==
    [entries |-> entries, unreadable |-> unreadable, closed |-> closed,
     place |-> [m \in 0 .. 3 |-> m],
     dev |-> [n \in 1 .. 12 |-> IF n \in mounted THEN 2 ELSE 1],
     ino |-> [n \in 1 .. 12 |-> IF n \in mounted THEN n - 1 ELSE n],
     blocks |-> [n \in 1 .. 12 |-> n % 5]]

\* Files 7 and 9 have names in two directories.
Linked == FileSystem(1 :> <<2, 7, 3>> @@ 2 :> <<7, 9>> @@ 3 :> <<4, 9>> @@ 4 :> <<8, 7>>,
                     {}, {}, {})
\* Four files with the same bucket in a table, and two that another device has as well.
Crowded == FileSystem(1 :> <<2, 3, 4>> @@ 2 :> <<8, 10>> @@ 3 :> <<10, 12, 6>> @@ 4 :> <<9, 11, 8>>,
                      {}, {}, {9, 11})
\* A directory with two names, one of them below a directory that cannot be read.
Unreadable == FileSystem(1 :> <<2, 3, 4>> @@ 2 :> <<5, 7>> @@ 3 :> <<5>> @@ 4 :> <<8>> @@ 5 :> <<9>>,
                         {3}, {}, {})
\* A link from a directory to the one above: it is walked until the descriptors are used.
Cycle == FileSystem(1 :> <<2, 8>> @@ 2 :> <<1, 7>>, {}, {}, {})
\* Links that lead nowhere, and a directory whose entries are looked up in the one above.
Dangling == FileSystem(1 :> <<2, NONE, 8>> @@ 2 :> <<7, NONE>>, {}, {}, {})
Closed == FileSystem(1 :> <<2, 3, 8>> @@ 2 :> <<7, 9>> @@ 3 :> <<9>>, {}, {2}, {})

Plain == [depth |-> 9, sum |-> FALSE, duplicates |-> FALSE, quick |-> FALSE,
          visual |-> FALSE, sort |-> FALSE]
OptionSets ==
    LET counted == {[Plain EXCEPT !.depth = d, !.sum = s, !.duplicates = p, !.sort = o] :
                       d \in {0, 1, 2, 9}, s \in BOOLEAN, p \in BOOLEAN, o \in BOOLEAN}
        drawn == {[Plain EXCEPT !.depth = d, !.sum = s, !.visual = v, !.quick = ~v, !.sort = o] :
                       d \in {2, 9}, s \in BOOLEAN, v \in BOOLEAN, o \in BOOLEAN}
    IN  counted \cup drawn

Orders == {p \in [0 .. 3 -> 0 .. 3] : IsInjective(p)}

MCJobs ==
    {[fs |-> [f EXCEPT !.place = p], args |-> a, opts |-> o] :
        f \in {Linked, Crowded, Unreadable, Cycle, Dangling, Closed},
        p \in Orders, a \in {<<>>, <<1, 3>>, <<3, 2, 1>>}, o \in OptionSets}
=============================================================================
