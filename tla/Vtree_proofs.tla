--------------------------- MODULE Vtree_proofs ---------------------------
(***************************************************************************)
(* What vtree counts and draws, for every file system, all arguments and   *)
(* options, and tables of any size:                                        *)
(*                                                                         *)
(* - The table is a set: h_enter() (src/hash.c) says OLD for what has been *)
(*   entered before and for nothing else, whatever the calls.              *)
(* - The walk is where its stack says: the current directory, the depth,   *)
(*   the descriptors and the lists of all calls of down() agree (Inv).     *)
(* - The bars of the visual display follow the branches of the tree.       *)
(* - Each inode is counted once.  The ways that have been gone are those   *)
(*   that do not leave the trail, from the argument to the running call,   *)
(*   by a name still to come; each step adds one way, or none.             *)
(* - The figures stand on the lines of the directories they belong to: the *)
(*   same, for the ways that the lines printed so far stand for.           *)
(***************************************************************************)
EXTENDS VtreeProperties, TLAPS, WellFoundedInduction, SequenceTheorems, FiniteSetTheorems

\* A set of numbers has a least one: the key, or the table, that a search meets first.
LEMMA Least ==
    ASSUME NEW S \in SUBSET Nat, S # {}
    PROVE  \E m \in S : \A n \in S : m <= n
  <1> DEFINE R == {ss \in Nat \X Nat : ss[1] < ss[2]}
  <1>1. IsWellFoundedOn(R, Nat)
    BY NatLessThanWellFounded, Zenon DEF OpToRel
  <1>2. \A x, y \in Nat : x < y => <<x, y>> \in R
    OBVIOUS
  <1> HIDE DEF R
  <1>3. PICK m \in S : \A n \in S : <<n, m>> \notin R
    <2>1. \E m \in S : \A n \in S : <<n, m>> \notin R
      BY <1>1, WFMin, Zenon
    <2> QED
      BY <2>1
  <1>4. \A n \in S : n \in Nat /\ m \in Nat
    OBVIOUS
  <1>5. \A n \in S : ~(n < m)
    BY <1>2, <1>3, <1>4, Zenon
  <1> QED
    BY <1>4, <1>5

-----------------------------------------------------------------------------
(* A bucket *)

KeyLists == UNION {[D -> Nat] : D \in SUBSET Nat}

\* A bucket between calls: the keys stand at 1 .. filled, and the one at 0 is 0.
BucketSet ==
    {b \in [length : Nat, filled : Nat, keys : KeyLists] :
        /\ b.filled <= b.length
        /\ b.length = 0 => DOMAIN b.keys = {}
        /\ b.length > 0 => b.keys \in [0 .. b.length -> Nat] /\ b.keys[0] = 0}

Keys(b) == {b.keys[k] : k \in 1 .. b.filled}

\* What is known of a bucket.
LEMMA BucketFacts ==
    ASSUME NEW b \in BucketSet
    PROVE  /\ b.length \in Nat /\ b.filled \in Nat /\ b.filled <= b.length
           /\ b.length > 0 => b.keys \in [0 .. b.length -> Nat] /\ b.keys[0] = 0
           /\ b = [length |-> b.length, filled |-> b.filled, keys |-> b.keys]
  BY DEF BucketSet

\* How a bucket is made.
LEMMA BucketMade ==
    ASSUME NEW n \in Nat \ {0}, NEW f \in 0 .. n, NEW keys \in [0 .. n -> Nat], keys[0] = 0
    PROVE  [length |-> n, filled |-> f, keys |-> keys] \in BucketSet
  <1>1. keys \in KeyLists
    <2>1. 0 .. n \in SUBSET Nat
      OBVIOUS
    <2> QED
      BY <2>1, Zenon DEF KeyLists
  <1> QED
    BY <1>1 DEF BucketSet

\* A bucket without keys holds none.
LEMMA EmptyBucketOK == EmptyBucket \in BucketSet /\ Keys(EmptyBucket) = {}
  <1>1. [k \in {} |-> 0] \in KeyLists
    <2>1. [k \in {} |-> 0] \in [{} -> Nat]
      OBVIOUS
    <2>2. {} \in SUBSET Nat
      OBVIOUS
    <2> QED
      BY <2>1, <2>2, Zenon DEF KeyLists
  <1> QED
    BY <1>1 DEF BucketSet, Keys, EmptyBucket

\* The search finds a key if and only if the bucket has it, although the loop starts
\* one place too low and ends one place too early.
LEMMA FoundIsMember ==
    ASSUME NEW b \in BucketSet, NEW ino \in Nat \ {0}
    PROVE  Found(b, ino) <=> ino \in Keys(b)
  <1> DEFINE hits == {k \in 0 .. (b.filled - 1) : b.keys[k] = ino}
             First(i) == i \in hits /\ \A l \in hits : i <= l
             i == IF hits = {} THEN b.filled ELSE CHOOSE k \in hits : \A l \in hits : k <= l
  <1>1. Found(b, ino) <=> i # 0 /\ b.keys[i] = ino
    BY DEF Found
  <1>2. /\ b.filled \in Nat /\ b.length \in Nat /\ b.filled <= b.length
        /\ b.filled > 0 => b.keys[0] = 0
    BY BucketFacts
  <1>3. 0 \notin hits
    BY <1>2
  <1>4. CASE hits = {}
    <2>1. Found(b, ino) <=> b.filled # 0 /\ b.keys[b.filled] = ino
      BY <1>1, <1>4
    <2>2. \A k \in 1 .. b.filled : k # b.filled => b.keys[k] # ino
      BY <1>2, <1>4
    <2> QED
      BY <1>2, <2>1, <2>2 DEF Keys
  <1>5. CASE hits # {}
    <2>1. hits \in SUBSET Nat
      BY <1>2
    <2>2. \E k \in hits : \A l \in hits : k <= l
      BY <1>5, <2>1, Least
    <2>3. i \in hits
      BY <1>5, <2>2, Zenon
    <2>4. i # 0 /\ b.keys[i] = ino /\ i \in 1 .. b.filled
      <3> HIDE DEF i
      <3> QED
        BY <1>2, <1>3, <2>3
    <2> HIDE DEF i, hits
    <2> QED
      BY <1>1, <2>4 DEF Keys
  <1> QED
    BY <1>4, <1>5

\* Growing a bucket loses no key and makes room for one more.
LEMMA GrownKeepsKeys ==
    ASSUME NEW b \in BucketSet
    PROVE  /\ Grown(b) \in BucketSet
           /\ Grown(b).filled = b.filled /\ b.filled < Grown(b).length
           /\ Keys(Grown(b)) = Keys(b)
  <1>1. EXTEND \in Nat \ {0}
    BY VtreeAssumption
  <1>2. CASE b.filled # b.length
    BY <1>2, BucketFacts DEF Grown
  <1>3. CASE b.filled = b.length
    <2> DEFINE n == b.length + EXTEND
               keys == [k \in 0 .. n |-> IF k \in DOMAIN b.keys THEN b.keys[k] ELSE 0]
    <2>1. Grown(b) = [length |-> n, filled |-> b.filled, keys |-> keys]
      <3>1. Grown(b) = [b EXCEPT !.length = n, !.keys = keys]
        BY <1>3 DEF Grown
      <3> HIDE DEF n, keys
      <3> QED
        BY ZenonT(60), <3>1, BucketFacts
    <2>2. n \in Nat \ {0} /\ b.filled \in 0 .. n /\ b.filled < n
      BY <1>1, <1>3, BucketFacts
    <2>3. keys \in [0 .. n -> Nat] /\ keys[0] = 0 /\ \A k \in 1 .. b.filled : keys[k] = b.keys[k]
      <3>1. \A k \in DOMAIN b.keys : b.keys[k] \in Nat
        <4>1. PICK D \in SUBSET Nat : b.keys \in [D -> Nat]
          BY DEF BucketSet, KeyLists
        <4> QED
          BY <4>1
      <3>2. 0 \in DOMAIN b.keys => b.keys[0] = 0
        BY BucketFacts DEF BucketSet
      <3> QED
        BY <2>2, <3>1, <3>2, BucketFacts
    <2> HIDE DEF n, keys
    <2>4. Grown(b) \in BucketSet
      BY <2>1, <2>2, <2>3, BucketMade
    <2> QED
      BY <2>1, <2>2, <2>3, <2>4 DEF Keys
  <1> QED
    BY <1>2, <1>3

\* A key that is put behind the last one joins the others.
LEMMA KeyAdded ==
    ASSUME NEW b \in BucketSet, b.filled < b.length, NEW ino \in Nat
    PROVE  LET c == [b EXCEPT !.keys[b.filled + 1] = ino, !.filled = @ + 1]
           IN  c \in BucketSet /\ Keys(c) = Keys(b) \cup {ino}
  <1> DEFINE keys == [b.keys EXCEPT ![b.filled + 1] = ino]
             c == [length |-> b.length, filled |-> b.filled + 1, keys |-> keys]
  <1>1. [b EXCEPT !.keys[b.filled + 1] = ino, !.filled = @ + 1] = c
    <2>1. [b EXCEPT !.keys[b.filled + 1] = ino, !.filled = @ + 1]
            = [b EXCEPT !.keys = keys, !.filled = b.filled + 1]
      BY BucketFacts
    <2> HIDE DEF keys
    <2>2. [b EXCEPT !.keys = keys, !.filled = b.filled + 1] = c
      <3> DEFINE a == [b EXCEPT !.keys = keys]
      <3>1. a = [length |-> b.length, filled |-> b.filled, keys |-> keys]
        BY BucketFacts
      <3>2. [b EXCEPT !.keys = keys, !.filled = b.filled + 1] = [a EXCEPT !.filled = b.filled + 1]
        OBVIOUS
      <3> HIDE DEF a
      <3> QED
        BY <3>1, <3>2
    <2> HIDE DEF c
    <2> QED
      BY <2>1, <2>2
  <1>2. /\ b.length \in Nat \ {0} /\ b.filled + 1 \in 0 .. b.length /\ b.filled \in Nat
        /\ b.keys \in [0 .. b.length -> Nat] /\ b.keys[0] = 0
    BY BucketFacts
  <1>3. /\ keys \in [0 .. b.length -> Nat] /\ keys[0] = 0
        /\ keys[b.filled + 1] = ino
        /\ \A k \in 1 .. b.filled : keys[k] = b.keys[k]
    BY <1>2
  <1> HIDE DEF keys
  <1>4. c \in BucketSet
    BY <1>2, <1>3, BucketMade
  <1>5. Keys(c) = Keys(b) \cup {ino}
    <2>1. 1 .. (b.filled + 1) = (1 .. b.filled) \cup {b.filled + 1}
      BY <1>2
    <2> QED
      BY <1>3, <2>1 DEF Keys
  <1> HIDE DEF c
  <1> QED
    BY <1>1, <1>4, <1>5

-----------------------------------------------------------------------------
(* The tables of the devices *)

TableSet == [device : Nat, buckets : [0 .. (BUCKETS - 1) -> BucketSet]]

\* The tables between calls: there is one for each device, and tablep is none of
\* them or one of them.
HashOK(h) ==
    /\ h \in [tables : Seq(TableSet), tablep : Nat]
    /\ h.tablep <= Len(h.tables)
    /\ \A t, u \in 1 .. Len(h.tables) :
          h.tables[t].device = h.tables[u].device => t = u

\* What has been entered.
Entered(h, dev, ino) ==
    \E t \in 1 .. Len(h.tables) :
        /\ h.tables[t].device = dev
        /\ ino \in Keys(h.tables[t].buckets[ino % BUCKETS])

\* Every inode has a bucket.
LEMMA BucketOf ==
    ASSUME NEW ino \in Nat
    PROVE  ino % BUCKETS \in 0 .. (BUCKETS - 1)
  <1>1. BUCKETS \in Nat \ {0}
    BY VtreeAssumption
  <1> QED
    BY <1>1

\* Nor does a new table.
LEMMA NewTableOK ==
    ASSUME NEW dev \in Nat
    PROVE  /\ NewTable(dev) \in TableSet
           /\ NewTable(dev).device = dev
           /\ \A k \in 0 .. (BUCKETS - 1) : Keys(NewTable(dev).buckets[k]) = {}
  BY EmptyBucketOK DEF NewTable, TableSet

\* Finding the table of a device, or making it, leaves what was entered as it was.
LEMMA TableOfDevice ==
    ASSUME NEW h, HashOK(h), NEW dev \in Nat
    PROVE  /\ HashOK(Table(h, dev))
           /\ Table(h, dev).tablep \in 1 .. Len(Table(h, dev).tables)
           /\ Table(h, dev).tables[Table(h, dev).tablep].device = dev
           /\ \A d, n \in Nat : Entered(Table(h, dev), d, n) <=> Entered(h, d, n)
  <1> DEFINE known == {t \in DOMAIN h.tables : h.tables[t].device = dev}
  <1>1. /\ h.tables \in Seq(TableSet) /\ h.tablep \in 0 .. Len(h.tables)
        /\ h = [tables |-> h.tables, tablep |-> h.tablep]
        /\ Len(h.tables) \in Nat /\ DOMAIN h.tables = 1 .. Len(h.tables)
    BY DEF HashOK
  <1>2. CASE h.tablep # 0 /\ h.tables[h.tablep].device = dev
    <2>1. Table(h, dev) = h
      BY <1>2 DEF Table
    <2> QED
      BY <1>1, <1>2, <2>1
  <1>3. CASE ~(h.tablep # 0 /\ h.tables[h.tablep].device = dev) /\ known = {}
    <2> DEFINE new == Append(h.tables, NewTable(dev))
    <2>1. Table(h, dev) = [tables |-> new, tablep |-> Len(h.tables) + 1]
      BY <1>3 DEF Table
    <2>2. /\ new \in Seq(TableSet) /\ Len(new) = Len(h.tables) + 1
          /\ new[Len(h.tables) + 1] = NewTable(dev)
          /\ \A t \in 1 .. Len(h.tables) : new[t] = h.tables[t]
      BY <1>1, NewTableOK, AppendProperties
    <2>3. \A t \in 1 .. Len(h.tables) : h.tables[t].device # dev
      BY <1>1, <1>3
    <2> HIDE DEF new
    <2>4. HashOK(Table(h, dev))
      <3>1. \A t, u \in 1 .. Len(new) : new[t].device = new[u].device => t = u
        BY <1>1, <2>2, <2>3, NewTableOK DEF HashOK
      <3> QED
        BY <1>1, <2>1, <2>2, <3>1 DEF HashOK
    <2>5. ASSUME NEW d \in Nat, NEW n \in Nat
          PROVE  Entered(Table(h, dev), d, n) <=> Entered(h, d, n)
      <3>1. n \notin Keys(new[Len(h.tables) + 1].buckets[n % BUCKETS])
        BY <2>2, NewTableOK, BucketOf
      <3>2. 1 .. Len(new) = (1 .. Len(h.tables)) \cup {Len(h.tables) + 1}
        BY <1>1, <2>2
      <3> DEFINE Holds(t) == t.device = d /\ n \in Keys(t.buckets[n % BUCKETS])
      <3>3. Entered(Table(h, dev), d, n) <=> \E t \in 1 .. Len(new) : Holds(new[t])
        BY <2>1 DEF Entered
      <3>4. Entered(h, d, n) <=> \E t \in 1 .. Len(h.tables) : Holds(h.tables[t])
        BY DEF Entered
      <3>5. ~Holds(new[Len(h.tables) + 1])
        BY <3>1
      <3>6. \A t \in 1 .. Len(h.tables) : Holds(new[t]) <=> Holds(h.tables[t])
        BY <2>2
      <3> HIDE DEF Holds
      <3> QED
        BY <3>2, <3>3, <3>4, <3>5, <3>6
    <2> QED
      BY <1>1, <2>1, <2>2, <2>4, <2>5, NewTableOK
  <1>4. CASE ~(h.tablep # 0 /\ h.tables[h.tablep].device = dev) /\ known # {}
    <2> DEFINE first == CHOOSE t \in known : \A u \in known : t <= u
    <2>1. Table(h, dev) = [h EXCEPT !.tablep = first]
      BY <1>4 DEF Table
    <2>2. first \in known
      <3>1. known \in SUBSET Nat
        BY <1>1
      <3>2. \E t \in known : \A u \in known : t <= u
        BY <1>4, <3>1, Least
      <3> QED
        BY <3>2, Zenon
    <2> HIDE DEF first
    <2>3. Table(h, dev) = [tables |-> h.tables, tablep |-> first]
      BY <1>1, <2>1
    <2>4. first \in 1 .. Len(h.tables) /\ h.tables[first].device = dev
      BY <1>1, <2>2
    <2>5. HashOK(Table(h, dev))
      BY <1>1, <2>3, <2>4 DEF HashOK
    <2> QED
      BY <2>3, <2>4, <2>5 DEF Entered
  <1> QED
    BY <1>2, <1>3, <1>4

\* Putting a bucket back in which ino has been entered.
LEMMA BucketPutBack ==
    ASSUME NEW h, HashOK(h), NEW ino \in Nat, h.tablep \in 1 .. Len(h.tables),
           NEW b \in BucketSet,
           Keys(b) = Keys(h.tables[h.tablep].buckets[ino % BUCKETS]) \cup {ino}
    PROVE  LET g == [h EXCEPT !.tables[h.tablep].buckets[ino % BUCKETS] = b]
           IN  /\ HashOK(g)
               /\ \A d, n \in Nat : Entered(g, d, n) <=>
                     Entered(h, d, n) \/ (d = h.tables[h.tablep].device /\ n = ino)
  <1> DEFINE p == h.tablep
             k == ino % BUCKETS
             old == h.tables[p]
             table == [old EXCEPT !.buckets[k] = b]
             tables == [h.tables EXCEPT ![p] = table]
             g == [h EXCEPT !.tables[p].buckets[k] = b]
  <1>1. /\ h.tables \in Seq(TableSet) /\ h = [tables |-> h.tables, tablep |-> p]
        /\ p \in 1 .. Len(h.tables) /\ Len(h.tables) \in Nat
        /\ DOMAIN h.tables = 1 .. Len(h.tables) /\ old \in TableSet
    BY DEF HashOK
  <1>2. k \in 0 .. (BUCKETS - 1)
    BY BucketOf
  <1>3. /\ table \in TableSet /\ table.device = old.device /\ table.buckets[k] = b
        /\ \A l \in 0 .. (BUCKETS - 1) : l # k => table.buckets[l] = old.buckets[l]
    BY <1>1, <1>2 DEF TableSet
  <1>4. g = [tables |-> tables, tablep |-> p]
    <2>1. g = [h EXCEPT !.tables = tables]
      OBVIOUS
    <2> HIDE DEF tables, g
    <2> QED
      BY <1>1, <2>1
  <1> HIDE DEF table
  <1>5. /\ tables \in Seq(TableSet) /\ Len(tables) = Len(h.tables) /\ tables[p] = table
        /\ \A t \in 1 .. Len(h.tables) : t # p => tables[t] = h.tables[t]
    BY <1>1, <1>3, ExceptSeq
  <1> HIDE DEF tables, g, old
  <1>6. \A t \in 1 .. Len(tables) : tables[t].device = h.tables[t].device
    BY <1>3, <1>5 DEF old
  <1>7. HashOK(g)
    <2>1. \A t, u \in 1 .. Len(tables) : tables[t].device = tables[u].device => t = u
      BY <1>5, <1>6 DEF HashOK
    <2> QED
      BY <1>1, <1>4, <1>5, <2>1 DEF HashOK
  <1>8. ASSUME NEW d \in Nat, NEW n \in Nat
        PROVE  Entered(g, d, n) <=> Entered(h, d, n) \/ (d = old.device /\ n = ino)
    <2> DEFINE Holds(t) == t.device = d /\ n \in Keys(t.buckets[n % BUCKETS])
    <2>1. Entered(g, d, n) <=> \E t \in 1 .. Len(h.tables) : Holds(tables[t])
      BY <1>4, <1>5 DEF Entered
    <2>2. Entered(h, d, n) <=> \E t \in 1 .. Len(h.tables) : Holds(h.tables[t])
      BY DEF Entered
    <2>3. Holds(tables[p]) <=> Holds(old) \/ (d = old.device /\ n = ino)
      <3>1. CASE n % BUCKETS = k
        <4>1. Keys(table.buckets[n % BUCKETS]) = Keys(old.buckets[n % BUCKETS]) \cup {ino}
          BY <1>3, <3>1 DEF old
        <4>2. Holds(table) <=> d = old.device /\ n \in Keys(old.buckets[n % BUCKETS]) \cup {ino}
          BY <1>3, <4>1
        <4> QED
          BY <1>5, <4>2
      <3>2. CASE n % BUCKETS # k
        <4>1. table.buckets[n % BUCKETS] = old.buckets[n % BUCKETS]
          BY <1>3, <3>2, BucketOf
        <4>2. n # ino
          BY <3>2
        <4> QED
          BY <1>3, <1>5, <4>1, <4>2
      <3> QED
        BY <3>1, <3>2
    <2>4. \A t \in 1 .. Len(h.tables) : t # p => (Holds(tables[t]) <=> Holds(h.tables[t]))
      BY <1>5
    <2>5. old = h.tables[p] /\ p \in 1 .. Len(h.tables)
      BY <1>1 DEF old
    <2> HIDE DEF Holds, p
    <2> QED
      BY <2>1, <2>2, <2>3, <2>4, <2>5
  <1> QED
    BY <1>7, <1>8 DEF g, old

-----------------------------------------------------------------------------
(* The table is a set *)

\* Nothing has been entered when vtree starts (the tables at src/hash.c:20).
THEOREM NothingEntered ==
    LET h == [tables |-> <<>>, tablep |-> 0]
    IN  HashOK(h) /\ \A dev, ino \in Nat : ~Entered(h, dev, ino)
  BY DEF HashOK, Entered

\* h_enter() answers OLD if and only if the inode of the device has been entered
\* before, and afterwards it has been, and nothing else is new: however full the
\* buckets are, and although the search starts one place below the first key and the
\* last key is compared outside of the loop.
THEOREM EntersLikeASet ==
    ASSUME NEW h, HashOK(h), NEW dev \in Nat, NEW ino \in Nat \ {0}
    PROVE  LET e == h_enter(h, dev, ino)
           IN  /\ HashOK(e.h)
               /\ e.old <=> Entered(h, dev, ino)
               /\ \A d, n \in Nat :
                     Entered(e.h, d, n) <=> Entered(h, d, n) \/ (d = dev /\ n = ino)
  <1> DEFINE g == Table(h, dev)
             k == ino % BUCKETS
             b == g.tables[g.tablep].buckets[k]
             e == h_enter(h, dev, ino)
  <1>1. /\ HashOK(g) /\ g.tablep \in 1 .. Len(g.tables)
        /\ g.tables[g.tablep].device = dev
        /\ \A d, n \in Nat : Entered(g, d, n) <=> Entered(h, d, n)
    BY TableOfDevice
  <1> HIDE DEF g
  <1>2. b \in BucketSet
    <2>1. g.tables[g.tablep] \in TableSet
      BY <1>1 DEF HashOK
    <2> QED
      BY <2>1, BucketOf DEF TableSet
  <1>3. Found(b, ino) <=> Entered(h, dev, ino)
    <2>1. Entered(g, dev, ino) <=> ino \in Keys(b)
      BY <1>1 DEF HashOK, Entered
    <2> QED
      BY <1>1, <1>2, <2>1, FoundIsMember
  <1>4. CASE Found(b, ino)
    <2>1. e = [h |-> g, old |-> TRUE]
      BY <1>4 DEF h_enter, g
    <2> HIDE DEF e
    <2> QED
      BY <1>1, <1>3, <1>4, <2>1 DEF e
  <1>5. CASE ~Found(b, ino)
    <2> DEFINE c == [Grown(b) EXCEPT !.keys[Grown(b).filled + 1] = ino, !.filled = @ + 1]
               f == [g EXCEPT !.tables[g.tablep].buckets[k] = c]
    <2>1. e = [h |-> f, old |-> FALSE]
      BY SMTT(30), <1>5 DEF h_enter, g
    <2>2. c \in BucketSet /\ Keys(c) = Keys(b) \cup {ino}
      <3>1. /\ Grown(b) \in BucketSet /\ Grown(b).filled < Grown(b).length
            /\ Keys(Grown(b)) = Keys(b)
        BY <1>2, GrownKeepsKeys
      <3> QED
        BY <3>1, KeyAdded
    <2> HIDE DEF c
    <2>3. /\ HashOK(f)
          /\ \A d, n \in Nat : Entered(f, d, n) <=>
                Entered(g, d, n) \/ (d = g.tables[g.tablep].device /\ n = ino)
      BY <1>1, <2>2, BucketPutBack
    <2> HIDE DEF e, f
    <2> QED
      BY <1>1, <1>3, <1>5, <2>1, <2>3 DEF e
  <1> QED
    BY <1>4, <1>5

-----------------------------------------------------------------------------
(* Functions that are defined step by step *)

\* A set that has 0, and with each number up to n the next one, has all of them.
LEMMA Climb ==
  ASSUME NEW n \in Nat, NEW P, 0 \in P, \A k \in 1 .. n : k - 1 \in P => k \in P
  PROVE  \A k \in 0 .. n : k \in P
<1> DEFINE S == {k \in 0 .. n : k \notin P}
<1> SUFFICES ASSUME S # {} PROVE FALSE
  OBVIOUS
<1>1. PICK m \in S : \A k \in S : m <= k
  <2>1. S \in SUBSET Nat
    OBVIOUS
  <2> HIDE DEF S
  <2> QED BY <2>1, Least
<1>2. m \in 1 .. n /\ m - 1 \notin S
  BY <1>1
<1> QED BY <1>2

\* The values of a function that begins with a and goes on as G says.
Unrolls(n, a, G, f) == f = [k \in 0 .. n |-> IF k = 0 THEN a ELSE G[k][f[k - 1]]]

\* There is such a function for every G.
LEMMA Recursion ==
  ASSUME NEW n \in Nat, NEW a, NEW G
  PROVE  \E f : Unrolls(n, a, G, f)
<1> DEFINE P == {m \in 0 .. n : \E f : Unrolls(m, a, G, f)}
<1>1. 0 \in P
  <2> DEFINE f == [k \in 0 .. 0 |-> a]
  <2>1. \A k \in 0 .. 0 : k = 0
    OBVIOUS
  <2>2. f = [k \in 0 .. 0 |-> IF k = 0 THEN a ELSE G[k][f[k - 1]]]
    BY <2>1, Zenon
  <2>3. Unrolls(0, a, G, f)
    BY <2>2 DEF Unrolls
  <2> QED BY <2>3
<1>2. ASSUME NEW m \in 1 .. n, m - 1 \in P
      PROVE  m \in P
  <2>1. PICK f : Unrolls(m - 1, a, G, f)
    BY <1>2
  <2> DEFINE g == [k \in 0 .. m |-> IF k = m THEN G[m][f[m - 1]] ELSE f[k]]
  <2>2. \A k \in 0 .. m : g[k] = IF k = 0 THEN a ELSE G[k][g[k - 1]]
    <3> TAKE k \in 0 .. m
    <3>1. CASE k = 0
      <4>1. g[k] = f[0] /\ 0 \in 0 .. (m - 1)
        BY <3>1
      <4>2. f[0] = a
        BY <2>1, <4>1 DEF Unrolls
      <4> QED BY <3>1, <4>1, <4>2
    <3>2. CASE k = m
      <4>1. g[k] = G[m][f[m - 1]] /\ m - 1 \in 0 .. m /\ m - 1 # m
        BY <3>2
      <4>2. g[m - 1] = f[m - 1]
        BY <4>1
      <4> HIDE DEF g
      <4> QED BY <3>2, <4>1, <4>2
    <3>3. CASE k # 0 /\ k # m
      <4>1. k \in 0 .. (m - 1) /\ k - 1 \in 0 .. m /\ k - 1 # m
        BY <3>3
      <4>2. g[k] = f[k] /\ g[k - 1] = f[k - 1]
        BY <3>3, <4>1
      <4>3. f[k] = G[k][f[k - 1]]
        BY <2>1, <3>3, <4>1 DEF Unrolls
      <4> HIDE DEF g
      <4> QED BY <3>3, <4>2, <4>3
    <3> QED BY <3>1, <3>2, <3>3
  <2>3. g = [k \in 0 .. m |-> g[k]]
    OBVIOUS
  <2> HIDE DEF g
  <2>4. g = [k \in 0 .. m |-> IF k = 0 THEN a ELSE G[k][g[k - 1]]]
    BY <2>2, <2>3
  <2>5. Unrolls(m, a, G, g)
    BY <2>4 DEF Unrolls
  <2> QED BY <2>5
<1>3. \A k \in 0 .. n : k \in P
  <2> HIDE DEF P
  <2> QED BY <1>1, <1>2, Climb
<1>4. n \in P
  <2> HIDE DEF P
  <2> QED BY <1>3
<1> QED BY <1>4

-----------------------------------------------------------------------------
(* The sort *)

\* The sequences without repetition that list the members of names.
Orderings(names) == {s \in Seq(names) : Range(s) = names /\ IsInjective(s)}

\* Two entries change places or do not.
LEMMA SwappedOrders ==
  ASSUME NEW names, names \subseteq Nat, NEW s \in Orderings(names),
         NEW i \in 1 .. Len(s), NEW j \in 1 .. Len(s)
  PROVE  Swapped(s, i, j) \in Orderings(names) /\ Len(Swapped(s, i, j)) = Len(s)
<1> DEFINE t == [s EXCEPT ![i] = s[j], ![j] = s[i]]
<1>1. s \in Seq(names) /\ Len(s) \in Nat /\ DOMAIN s = 1 .. Len(s) /\ s \in [1 .. Len(s) -> names]
  BY DEF Orderings
<1>2. /\ t \in [1 .. Len(s) -> names] /\ t[i] = s[j] /\ t[j] = s[i]
      /\ \A k \in 1 .. Len(s) : k # i /\ k # j => t[k] = s[k]
  BY <1>1
<1>3. t \in Seq(names) /\ Len(t) = Len(s) /\ DOMAIN t = 1 .. Len(s)
  BY <1>1, <1>2
<1> HIDE DEF t
<1>4. Range(t) = Range(s)
  BY <1>1, <1>2, <1>3 DEF Range
<1>5. IsInjective(t)
  <2>1. \A k, l \in 1 .. Len(s) : s[k] = s[l] => k = l
    BY <1>1 DEF Orderings, IsInjective
  <2>2. \A k, l \in 1 .. Len(s) : t[k] = t[l] => k = l
    BY <1>2, <2>1
  <2> QED BY <1>3, <2>2 DEF IsInjective
<1>6. t \in Orderings(names)
  BY <1>3, <1>4, <1>5 DEF Orderings
<1> QED BY <1>3, <1>6 DEF Swapped, t

\* Orderings of the same names, all as long as s.
Like(s) == {t \in Orderings(Range(s)) : Len(t) = Len(s)}

\* The comparisons of one place leave a list of the same names.
LEMMA PassOrders ==
  ASSUME NEW s \in Seq(Nat), IsInjective(s), NEW u \in Like(s), NEW i \in 1 .. Len(s)
  PROVE  Pass(u, i) \in Like(s)
<1> DEFINE X == Like(s)
           n == Len(s)
           G == [k \in 1 .. n |-> [x \in X |-> IF k <= i THEN u ELSE Swapped(x, i, k)]]
           Eqn(f) == f = [j \in 0 .. n |-> IF j <= i THEN u ELSE Swapped(f[j - 1], i, j)]
<1>1. n \in Nat /\ Len(u) = n /\ Range(s) \subseteq Nat
  BY DEF Range, Like
<1>2. \A x \in X, k \in 1 .. n : Swapped(x, i, k) \in X
  BY <1>1, SwappedOrders DEF Like
<1> HIDE DEF X
<1>3. u \in X
  BY DEF X
<1>4. \A f : Eqn(f) => \A j \in 0 .. n : f[j] \in X
  <2> SUFFICES ASSUME NEW f, Eqn(f) PROVE \A j \in 0 .. n : f[j] \in X
    OBVIOUS
  <2> DEFINE P == {j \in 0 .. n : f[j] \in X}
  <2>1. \A j \in 0 .. n : f[j] = IF j <= i THEN u ELSE Swapped(f[j - 1], i, j)
    <3> DEFINE H(g) == [j \in 0 .. n |-> IF j <= i THEN u ELSE Swapped(g[j - 1], i, j)]
    <3>1. f = H(f)
      OBVIOUS
    <3>2. \A j \in 0 .. n : H(f)[j] = IF j <= i THEN u ELSE Swapped(f[j - 1], i, j)
      OBVIOUS
    <3> QED BY <3>1, <3>2, Zenon
  <2> HIDE DEF Eqn
  <2>2. 0 \in P
    BY <1>1, <1>3, <2>1
  <2>3. \A k \in 1 .. n : k - 1 \in P => k \in P
    BY <1>1, <1>2, <1>3, <2>1
  <2>4. \A k \in 0 .. n : k \in P
    <3> HIDE DEF P
    <3> QED BY <1>1, <2>2, <2>3, Climb
  <2> QED BY <2>4
<1>5. \E f : Eqn(f)
  <2> DEFINE P(f) == {j \in 0 .. n : f[j] \in X}
  <2>1. PICK f : Unrolls(n, u, G, f)
    <3> HIDE DEF G
    <3> QED BY <1>1, Recursion
  <2>2. \A k \in 0 .. n : f[k] = IF k = 0 THEN u ELSE G[k][f[k - 1]]
    <3> HIDE DEF G
    <3> QED BY <2>1 DEF Unrolls
  <2>3. ASSUME NEW k \in 1 .. n, k - 1 \in P(f)
        PROVE  f[k] = IF k <= i THEN u ELSE Swapped(f[k - 1], i, k)
    <3>1. f[k] = G[k][f[k - 1]] /\ f[k - 1] \in X
      <4> HIDE DEF G
      <4> QED BY <1>1, <2>2, <2>3
    <3> QED BY <3>1
  <2>4. 0 \in P(f)
    <3>1. f[0] = u
      <4> HIDE DEF G
      <4> QED BY <1>1, <2>2
    <3> QED BY <1>1, <1>3, <3>1
  <2> HIDE DEF G
  <2>5. \A k \in 1 .. n : k - 1 \in P(f) => k \in P(f)
    BY <1>1, <1>2, <1>3, <2>3
  <2>6. \A k \in 0 .. n : k \in P(f)
    <3> HIDE DEF P
    <3> QED BY <1>1, <2>4, <2>5, Climb
  <2>7. \A k \in 0 .. n : f[k] = IF k <= i THEN u ELSE Swapped(f[k - 1], i, k)
    <3> TAKE k \in 0 .. n
    <3>1. CASE k = 0
      BY <2>2, <3>1
    <3>2. CASE k # 0
      <4>1. k \in 1 .. n /\ k - 1 \in 0 .. n
        BY <1>1, <3>2
      <4> HIDE DEF P
      <4> QED BY <2>3, <2>6, <4>1
    <3> QED BY <3>1, <3>2
  <2>8. f = [k \in 0 .. n |-> f[k]]
    BY <2>1 DEF Unrolls
  <2>9. Eqn(f)
    BY <2>7, <2>8
  <2> QED BY <2>9
<1>6. Pass(u, i) = (CHOOSE f : Eqn(f))[n]
  BY <1>1 DEF Pass
<1> HIDE DEF Eqn
<1>7. Eqn(CHOOSE f : Eqn(f))
  BY <1>5, Zenon
<1>8. n \in 0 .. n
  BY <1>1
<1> QED BY <1>4, <1>6, <1>7, <1>8, Zenon DEF X

\* The sort leaves a list of the same names.
LEMMA SortedOrders ==
  ASSUME NEW s \in Seq(Nat), IsInjective(s)
  PROVE  Sorted(s) \in Like(s)
<1> DEFINE X == Like(s)
           n == Len(s)
           G == [k \in 1 .. n |-> [x \in X |-> Pass(x, k)]]
           Eqn(f) == f = [j \in 0 .. n |-> IF j = 0 THEN s ELSE Pass(f[j - 1], j)]
<1>1. n \in Nat
  OBVIOUS
<1>2. \A x \in X, k \in 1 .. n : Pass(x, k) \in X
  BY PassOrders
<1> HIDE DEF X
<1>3. s \in X
  <2>1. s \in [1 .. Len(s) -> Range(s)]
    BY DEF Range
  <2>2. s \in Seq(Range(s))
    BY <2>1
  <2> QED BY <2>2 DEF X, Like, Orderings
<1>4. \A f : Eqn(f) => \A j \in 0 .. n : f[j] \in X
  <2> SUFFICES ASSUME NEW f, Eqn(f) PROVE \A j \in 0 .. n : f[j] \in X
    OBVIOUS
  <2> DEFINE P == {j \in 0 .. n : f[j] \in X}
  <2>1. \A j \in 0 .. n : f[j] = IF j = 0 THEN s ELSE Pass(f[j - 1], j)
    <3> DEFINE H(g) == [j \in 0 .. n |-> IF j = 0 THEN s ELSE Pass(g[j - 1], j)]
    <3>1. f = H(f)
      OBVIOUS
    <3>2. \A j \in 0 .. n : H(f)[j] = IF j = 0 THEN s ELSE Pass(f[j - 1], j)
      OBVIOUS
    <3> QED BY <3>1, <3>2, Zenon
  <2> HIDE DEF Eqn
  <2>2. 0 \in P
    BY <1>1, <1>3, <2>1
  <2>3. \A k \in 1 .. n : k - 1 \in P => k \in P
    BY <1>1, <1>2, <1>3, <2>1
  <2>4. \A k \in 0 .. n : k \in P
    <3> HIDE DEF P
    <3> QED BY <1>1, <2>2, <2>3, Climb
  <2> QED BY <2>4
<1>5. \E f : Eqn(f)
  <2> DEFINE P(f) == {j \in 0 .. n : f[j] \in X}
  <2>1. PICK f : Unrolls(n, s, G, f)
    <3> HIDE DEF G
    <3> QED BY <1>1, Recursion
  <2>2. \A k \in 0 .. n : f[k] = IF k = 0 THEN s ELSE G[k][f[k - 1]]
    <3> HIDE DEF G
    <3> QED BY <2>1 DEF Unrolls
  <2>3. ASSUME NEW k \in 1 .. n, k - 1 \in P(f)
        PROVE  f[k] = Pass(f[k - 1], k)
    <3>1. f[k] = G[k][f[k - 1]] /\ f[k - 1] \in X
      <4> HIDE DEF G
      <4> QED BY <1>1, <2>2, <2>3
    <3> QED BY <3>1
  <2>4. 0 \in P(f)
    <3>1. f[0] = s
      <4> HIDE DEF G
      <4> QED BY <1>1, <2>2
    <3> QED BY <1>1, <1>3, <3>1
  <2> HIDE DEF G
  <2>5. \A k \in 1 .. n : k - 1 \in P(f) => k \in P(f)
    BY <1>1, <1>2, <1>3, <2>3
  <2>6. \A k \in 0 .. n : k \in P(f)
    <3> HIDE DEF P
    <3> QED BY <1>1, <2>4, <2>5, Climb
  <2>7. \A k \in 0 .. n : f[k] = IF k = 0 THEN s ELSE Pass(f[k - 1], k)
    <3> TAKE k \in 0 .. n
    <3>1. CASE k = 0
      BY <2>2, <3>1
    <3>2. CASE k # 0
      <4>1. k \in 1 .. n /\ k - 1 \in 0 .. n
        BY <1>1, <3>2
      <4> HIDE DEF P
      <4> QED BY <2>3, <2>6, <3>2, <4>1
    <3> QED BY <3>1, <3>2
  <2>8. f = [k \in 0 .. n |-> f[k]]
    BY <2>1 DEF Unrolls
  <2>9. Eqn(f)
    BY <2>7, <2>8
  <2> QED BY <2>9
<1>6. Sorted(s) = (CHOOSE f : Eqn(f))[n]
  BY DEF Sorted
<1> HIDE DEF Eqn
<1>7. Eqn(CHOOSE f : Eqn(f))
  BY <1>5, Zenon
<1>8. n \in 0 .. n
  BY <1>1
<1> QED BY <1>4, <1>6, <1>7, <1>8, Zenon DEF X

-----------------------------------------------------------------------------
(* Sums over finite sets *)

Pick(s) == CHOOSE x \in s : TRUE

\* h sums up f over the subsets of S, as a fold does.
Sums(f, S, h) ==
    h = [s \in SUBSET S |-> IF s = {} THEN 0 ELSE f[Pick(s)] + h[s \ {Pick(s)}]]

\* The sum of a function is what such an h says of all of its domain.
LEMMA SumIsFold ==
  ASSUME NEW f
  PROVE  SumFunction(f) = (CHOOSE h : Sums(f, DOMAIN f, h))[DOMAIN f]
BY DEF SumFunction, SumFunctionOnSet, FoldFunctionOnSet, MapThenFoldSet, Sums, Pick

\* A finite set without the element that is picked is smaller by one.
LEMMA PickOne ==
  ASSUME NEW S, IsFiniteSet(S), NEW s \in SUBSET S, s # {}
  PROVE  /\ IsFiniteSet(s) /\ Pick(s) \in s /\ Cardinality(s) \in 1 .. Cardinality(S)
         /\ \A x \in s : /\ s \ {x} \in SUBSET S
                         /\ Cardinality(s \ {x}) = Cardinality(s) - 1
<1>1. IsFiniteSet(s) /\ Cardinality(s) <= Cardinality(S)
  BY FS_Subset
<1>2. Pick(s) \in s
  BY DEF Pick
<1>3. \A x \in s : Cardinality(s \ {x}) = Cardinality(s) - 1
  BY <1>1, FS_RemoveElement
<1>4. Cardinality(s) \in Nat /\ Cardinality(S) \in Nat /\ Cardinality(s) # 0
  BY <1>1, FS_CardinalityType, FS_EmptySet
<1> QED BY <1>1, <1>2, <1>3, <1>4

\* What an h says of a subset.
Adds(f, h, s) == h[s] = IF s = {} THEN 0 ELSE f[Pick(s)] + h[s \ {Pick(s)}]

\* That is what such an h says of each subset.
LEMMA SumsAt ==
  ASSUME NEW f, NEW S, NEW h, Sums(f, S, h), NEW s, s \subseteq S
  PROVE  Adds(f, h, s)
<1> DEFINE H(g) == [t \in SUBSET S |-> IF t = {} THEN 0 ELSE f[Pick(t)] + g[t \ {Pick(t)}]]
<1>1. h = H(h)
  BY DEF Sums
<1>2. H(h)[s] = IF s = {} THEN 0 ELSE f[Pick(s)] + h[s \ {Pick(s)}]
  OBVIOUS
<1> QED BY <1>1, <1>2, Zenon DEF Adds

\* There is an h for every finite set.
LEMMA SumsExist ==
  ASSUME NEW S, IsFiniteSet(S), NEW f, \A x \in S : f[x] \in Int
  PROVE  \E h : Sums(f, S, h)
<1> DEFINE n == Cardinality(S)
           X == [SUBSET S -> Int]
           Step(x) == [s \in SUBSET S |->
                          IF s = {} THEN 0 ELSE f[Pick(s)] + x[s \ {Pick(s)}]]
           zero == [s \in SUBSET S |-> 0]
           G == [k \in 1 .. n |-> [x \in X |-> Step(x)]]
<1>1. n \in Nat
  BY FS_CardinalityType
<1>2. \A x \in X : Step(x) \in X
  <2> TAKE x \in X
  <2>1. \A s \in SUBSET S : s # {} => f[Pick(s)] \in Int /\ x[s \ {Pick(s)}] \in Int
    BY PickOne
  <2> QED BY <2>1
<1>3. zero \in X
  OBVIOUS
<1>4. PICK g : Unrolls(n, zero, G, g)
  <2> HIDE DEF G, n, zero
  <2> QED BY <1>1, Recursion
<1>5. \A k \in 0 .. n : g[k] = IF k = 0 THEN zero ELSE G[k][g[k - 1]]
  <2> HIDE DEF G, n, zero
  <2> QED BY <1>4 DEF Unrolls
<1>6. ASSUME NEW k \in 1 .. n, g[k - 1] \in X
      PROVE  g[k] = Step(g[k - 1])
  <2>1. g[k] = G[k][g[k - 1]]
    <3> HIDE DEF G, n, zero, X
    <3> QED BY <1>1, <1>5
  <2>2. G[k][g[k - 1]] = Step(g[k - 1])
    <3> HIDE DEF Step, X, n
    <3> QED BY <1>6
  <2> QED BY <2>1, <2>2
<1> HIDE DEF G
<1>7. \A k \in 0 .. n : g[k] \in X
  <2> DEFINE P == {k \in 0 .. n : g[k] \in X}
  <2> HIDE DEF X, n, zero, Step
  <2>1. 0 \in P
    BY <1>1, <1>3, <1>5
  <2>2. \A k \in 1 .. n : k - 1 \in P => k \in P
    BY <1>1, <1>2, <1>6
  <2>3. \A k \in 0 .. n : k \in P
    <3> HIDE DEF P
    <3> QED BY <1>1, <2>1, <2>2, Climb
  <2> QED BY <2>3
<1> DEFINE h == [s \in SUBSET S |-> g[Cardinality(s)][s]]
<1>8. ASSUME NEW s \in SUBSET S
      PROVE  h[s] = IF s = {} THEN 0 ELSE f[Pick(s)] + h[s \ {Pick(s)}]
  <2>1. CASE s = {}
    <3>1. Cardinality(s) = 0
      BY <2>1, FS_EmptySet
    <3>2. h[s] = g[0][s] /\ g[0] = zero
      BY <1>1, <1>5, <3>1
    <3>3. zero[s] = 0
      OBVIOUS
    <3> HIDE DEF h, zero
    <3> QED BY <2>1, <3>2, <3>3
  <2>2. CASE s # {}
    <3> DEFINE k == Cardinality(s)
               t == s \ {Pick(s)}
    <3>1. k \in 1 .. n /\ t \in SUBSET S /\ Cardinality(t) = k - 1
      BY <2>2, PickOne
    <3>2. h[s] = g[k][s] /\ h[t] = g[k - 1][t]
      BY <3>1
    <3> HIDE DEF k, h
    <3>3. g[k - 1] \in X
      <4>1. k - 1 \in 0 .. n
        BY <1>1, <3>1
      <4> HIDE DEF X, n
      <4> QED BY <1>7, <4>1
    <3>4. g[k] = Step(g[k - 1])
      BY <1>6, <3>1, <3>3
    <3>5. Step(g[k - 1])[s] = f[Pick(s)] + g[k - 1][t]
      BY <2>2
    <3> HIDE DEF Step, t
    <3>6. h[s] = f[Pick(s)] + h[t]
      BY <3>2, <3>4, <3>5
    <3> QED BY <2>2, <3>6 DEF t
  <2> QED BY <2>1, <2>2
<1>9. h = [s \in SUBSET S |-> h[s]]
  OBVIOUS
<1> HIDE DEF h
<1>10. h = [s \in SUBSET S |-> IF s = {} THEN 0 ELSE f[Pick(s)] + h[s \ {Pick(s)}]]
  BY <1>8, <1>9
<1> QED BY <1>10 DEF Sums

\* Any element may be taken away first.
AddsUp(f, h, S) ==
    \A s \in SUBSET S : h[s] \in Int /\ \A x \in s : h[s] = f[x] + h[s \ {x}]

\* It adds up over each subset, whichever member is taken out.
LEMMA SumsAny ==
  ASSUME NEW S, IsFiniteSet(S), NEW f, \A x \in S : f[x] \in Int, NEW h, Sums(f, S, h)
  PROVE  AddsUp(f, h, S)
<1> DEFINE Good(s) == h[s] \in Int /\ \A x \in s : h[s] = f[x] + h[s \ {x}]
           n == Cardinality(S)
           P == {k \in 0 .. n : \A s \in SUBSET S : Cardinality(s) <= k => Good(s)}
<1>1. n \in Nat /\ \A s \in SUBSET S : Cardinality(s) \in 0 .. n
  <2>1. \A s \in SUBSET S : IsFiniteSet(s) /\ Cardinality(s) <= n
    BY FS_Subset
  <2> QED BY <2>1, FS_CardinalityType
<1>2. 0 \in P
  <2>1. ASSUME NEW s \in SUBSET S, Cardinality(s) <= 0
        PROVE  Good(s)
    <3>1. s = {}
      <4>1. s # {} => Cardinality(s) \in 1 .. n
        BY PickOne
      <4> QED BY <1>1, <2>1, <4>1
    <3>2. h[s] = 0
      <4>1. h[s] = IF s = {} THEN 0 ELSE f[Pick(s)] + h[s \ {Pick(s)}]
        <5>1. Adds(f, h, s)
          BY SumsAt
        <5> QED BY <5>1 DEF Adds
      <4> QED BY <3>1, <4>1
    <3> QED BY <3>1, <3>2
  <2> HIDE DEF Good, n
  <2> QED BY <1>1, <2>1
<1>3. ASSUME NEW k \in 1 .. n, k - 1 \in P
      PROVE  k \in P
  <2>1. ASSUME NEW s \in SUBSET S, Cardinality(s) <= k, s # {}
        PROVE  Good(s)
    <3> DEFINE p == Pick(s)
    <3>1. /\ p \in s
          /\ \A x \in s : s \ {x} \in SUBSET S /\ Cardinality(s \ {x}) <= k - 1
      BY <2>1, <1>1, PickOne
    <3>2. h[s] = f[p] + h[s \ {p}]
      <4>1. h[s] = IF s = {} THEN 0 ELSE f[Pick(s)] + h[s \ {Pick(s)}]
        BY SumsAt DEF Adds
      <4> QED BY <2>1, <4>1
    <3>3. \A x \in s : Good(s \ {x})
      <4> HIDE DEF Good, n, p
      <4> QED BY <1>3, <3>1
    <3> HIDE DEF p
    <3>4. \A x \in s : f[x] \in Int /\ h[s \ {x}] \in Int
      BY <3>3
    <3>5. h[s] \in Int
      BY <3>1, <3>2, <3>4
    <3>6. ASSUME NEW x \in s
          PROVE  h[s] = f[x] + h[s \ {x}]
      <4>1. CASE x = p
        BY <3>2, <4>1
      <4>2. CASE x # p
        <5> DEFINE r == s \ {p, x}
        <5>1. x \in s \ {p} /\ p \in s \ {x}
          BY <3>1, <4>2
        <5>2. (s \ {p}) \ {x} = r /\ (s \ {x}) \ {p} = r
          OBVIOUS
        <5>3. h[s \ {p}] = f[x] + h[r]
          BY <3>1, <3>3, <5>1, <5>2
        <5>4. h[s \ {x}] = f[p] + h[r]
          BY <3>3, <5>1, <5>2
        <5>5. h[r] \in Int
          <6>1. r \in SUBSET S
            OBVIOUS
          <6>2. Cardinality(r) <= k - 1
            <7>1. IsFiniteSet(s \ {p}) /\ r \in SUBSET (s \ {p})
              BY <3>1, FS_Subset
            <7>2. Cardinality(r) <= Cardinality(s \ {p})
              BY <7>1, FS_Subset
            <7>3. Cardinality(r) \in Int /\ Cardinality(s \ {p}) \in Int /\ k \in Int
              BY <1>1, <3>1, <6>1
            <7> QED BY <3>1, <7>2, <7>3
          <6>3. Good(r)
            <7> HIDE DEF Good, n, r
            <7> QED BY <1>3, <6>1, <6>2
          <6> QED BY <6>3
        <5> HIDE DEF r
        <5> QED BY <3>1, <3>2, <3>4, <5>3, <5>4, <5>5
      <4> QED BY <4>1, <4>2
    <3> QED BY <3>5, <3>6
  <2>2. Good({})
    <3>1. h[{}] = 0
      BY SumsAt DEF Adds
    <3> QED BY <3>1
  <2> HIDE DEF Good, n
  <2> QED BY <2>1, <2>2
<1>4. \A k \in 0 .. n : k \in P
  <2> HIDE DEF P, n
  <2> QED BY <1>1, <1>2, <1>3, Climb
<1>5. n \in P
  <2> HIDE DEF P, n
  <2> QED BY <1>1, <1>4
<1>6. \A s \in SUBSET S : Good(s)
  <2> HIDE DEF Good, n
  <2> QED BY <1>1, <1>5
<1> QED BY <1>6 DEF AddsUp

\* The sums of functions that agree on a set agree.
LEMMA SumsAgree ==
  ASSUME NEW S, IsFiniteSet(S), NEW T, IsFiniteSet(T), S \subseteq T,
         NEW f, NEW g, \A x \in S : f[x] = g[x],
         NEW h, Sums(f, S, h), NEW i, Sums(g, T, i)
  PROVE  h[S] = i[S]
<1> DEFINE n == Cardinality(S)
           P == {k \in 0 .. n : \A s \in SUBSET S : Cardinality(s) <= k => h[s] = i[s]}
<1>1. n \in Nat /\ \A s \in SUBSET S : Cardinality(s) \in 0 .. n
  <2>1. \A s \in SUBSET S : IsFiniteSet(s) /\ Cardinality(s) <= n
    BY FS_Subset
  <2> QED BY <2>1, FS_CardinalityType
<1>2. h[{}] = 0 /\ i[{}] = 0
  BY SumsAt DEF Adds
<1>3. 0 \in P
  <2>1. \A s \in SUBSET S : Cardinality(s) <= 0 => s = {}
    <3>1. \A s \in SUBSET S : s # {} => Cardinality(s) \in 1 .. n
      BY PickOne
    <3> QED BY <1>1, <3>1
  <2> HIDE DEF n
  <2> QED BY <1>1, <1>2, <2>1
<1>4. ASSUME NEW k \in 1 .. n, k - 1 \in P
      PROVE  k \in P
  <2>1. ASSUME NEW s \in SUBSET S, Cardinality(s) <= k, s # {}
        PROVE  h[s] = i[s]
    <3> DEFINE p == Pick(s)
               t == s \ {p}
    <3>1. p \in s /\ t \in SUBSET S /\ Cardinality(t) <= k - 1
      BY <2>1, <1>1, PickOne
    <3>2. h[s] = f[p] + h[t]
      <4>1. h[s] = IF s = {} THEN 0 ELSE f[Pick(s)] + h[s \ {Pick(s)}]
        BY SumsAt DEF Adds
      <4> QED BY <2>1, <4>1
    <3>3. i[s] = g[p] + i[t]
      <4>1. i[s] = IF s = {} THEN 0 ELSE g[Pick(s)] + i[s \ {Pick(s)}]
        <5>1. s \in SUBSET T
          OBVIOUS
        <5> QED BY <5>1, SumsAt DEF Adds
      <4> QED BY <2>1, <4>1
    <3> HIDE DEF p, t, n
    <3>4. h[t] = i[t]
      BY <1>4, <3>1
    <3>5. f[p] = g[p]
      BY <3>1
    <3> QED BY <3>2, <3>3, <3>4, <3>5
  <2> HIDE DEF n
  <2> QED BY <1>2, <2>1
<1>5. \A k \in 0 .. n : k \in P
  <2> HIDE DEF P, n
  <2> QED BY <1>1, <1>3, <1>4, Climb
<1>6. n \in P
  <2> HIDE DEF P, n
  <2> QED BY <1>1, <1>5
<1> QED BY <1>1, <1>6

\* The sum over an empty domain.
LEMMA SumOfNone ==
  ASSUME NEW f, DOMAIN f = {}
  PROVE  SumFunction(f) = 0
<1> DEFINE h == CHOOSE h : Sums(f, DOMAIN f, h)
<1>1. \E k : Sums(f, DOMAIN f, k)
  BY SumsExist, FS_EmptySet
<1>2. Sums(f, DOMAIN f, h)
  BY <1>1
<1> HIDE DEF h
<1>3. h[{}] = 0
  BY <1>2, SumsAt DEF Adds
<1> QED BY <1>3, SumIsFold DEF h

\* The sum of a function with one argument more.
LEMMA SumWithOne ==
  ASSUME NEW f, IsFiniteSet(DOMAIN f), \A y \in DOMAIN f : f[y] \in Int,
         NEW x, x \notin DOMAIN f, NEW g, DOMAIN g = DOMAIN f \cup {x}, g[x] \in Int,
         \A y \in DOMAIN f : g[y] = f[y]
  PROVE  SumFunction(g) = SumFunction(f) + g[x] /\ SumFunction(f) \in Int
<1> DEFINE S == DOMAIN f
           T == DOMAIN g
           h == CHOOSE h : Sums(f, S, h)
           i == CHOOSE i : Sums(g, T, i)
<1>1. IsFiniteSet(T) /\ S \subseteq T /\ T \ {x} = S /\ x \in T
  BY FS_AddElement
<1>2. \A y \in T : g[y] \in Int
  OBVIOUS
<1>3. Sums(f, S, h)
  <2>1. \E k : Sums(f, S, k)
    BY SumsExist
  <2> QED BY <2>1
<1>4. Sums(g, T, i)
  <2>1. \E k : Sums(g, T, k)
    BY <1>1, <1>2, SumsExist
  <2> QED BY <2>1
<1>5. SumFunction(f) = h[S] /\ SumFunction(g) = i[T]
  BY SumIsFold
<1> HIDE DEF h, i, S, T
<1>6. i[T] = g[x] + i[S] /\ i[S] \in Int
  <2>1. AddsUp(g, i, T)
    BY <1>1, <1>2, <1>4, SumsAny
  <2> QED BY <1>1, <2>1 DEF AddsUp
<1>7. h[S] = i[S]
  <2>1. \A y \in S : f[y] = g[y]
    BY DEF S
  <2>2. IsFiniteSet(S)
    BY DEF S
  <2> QED BY <1>1, <1>3, <1>4, <2>1, <2>2, SumsAgree
<1> QED BY <1>2, <1>1, <1>5, <1>6, <1>7

-----------------------------------------------------------------------------
(* The walk *)

\* The directory that the j-th of the calls s walks.
Dir(s, j) == IF j = 0 THEN topdir ELSE s[j].dir

\* The entries of a directory that down() keeps in its list.
Kept(d) == {m \in {Dot} \cup DOMAIN fs.entries[d] : Listed(m, Lookup(d, m))}

FrameSet ==
    [dir : Nat, cwd : Nat, left : SUBSET Nat, list : Seq(Nat), i : Nat \ {0},
     loop : {"list", "count", "descend"}]
FigureSet == [inodes : Int, sizes : Int]

\* What holds of a call by itself: its list has what has been read of its directory,
\* each name once, and loop after loop goes over all of it.
CallOK(f) ==
    /\ f.dir \in DOMAIN fs.entries \ fs.unreadable
    /\ f.left \subseteq {Dot} \cup DOMAIN fs.entries[f.dir]
    /\ Range(f.list) = Kept(f.dir) \ f.left /\ IsInjective(f.list)
    /\ f.loop = "list" => f.i = 1
    /\ f.loop # "list" => f.left = {} /\ f.i \in 1 .. (Len(f.list) + 1)
    /\ f.loop = "count" => Figures

\* What holds of it among the others: those that have called another one are at one of
\* the directories of their lists.
FrameOK(s, j) ==
    /\ CallOK(s[j])
    /\ j - 1 # opts.depth \/ opts.sum
    /\ s[j].cwd = Dir(s, j - 1)
    /\ j < Len(s) => s[j].loop = "descend" /\ s[j].i # 1
StackOK(s) == s \in Seq(FrameSet) /\ \A j \in 1 .. Len(s) : FrameOK(s, j)

LineOK(l) ==
    /\ l.kind \in {"name", "unread", "figures"}
    /\ l.kind = "name" => l.level \in 0 .. MaxOpen /\ l.level < opts.depth
    /\ l.kind = "figures" => l.figures \in FigureSet

\* The walk is where its stack says.
Walk ==
    /\ FileSystemOK(fs) /\ args \in Seq(Nat) /\ opts \in Options
    /\ phase \in {"next", "inspect", "walk", "done"}
    /\ arg \in 0 .. Len(Targets)
    /\ phase \in {"inspect", "walk"} => arg # 0
    /\ phase = "done" => arg = Len(Targets)
    /\ phase # "walk" => stack = <<>>
    /\ StackOK(stack)
    /\ cur_depth = Len(stack) /\ open \in Len(stack) .. MaxOpen
    /\ cwd = Dir(stack, Len(stack))
    /\ stb \in Nat
    /\ tally \in FigureSet /\ total \in FigureSet
    /\ \A k \in 1 .. Len(lines) : LineOK(lines[k])

\* The lines are a sequence, whatever they are.
Lines == lines \in Seq(Range(lines))

\* What one step prints comes behind what has been printed.
LEMMA Printing ==
  ASSUME Lines, [Next]_vars
  PROVE  /\ Lines' /\ Len(lines) \in Nat /\ Len(lines') \in Nat
         /\ Len(lines) <= Len(lines') /\ \A k \in 1 .. Len(lines) : lines'[k] = lines[k]
         /\ job' = job
<1> DEFINE Longer(new) == /\ new \in Seq(Range(new)) /\ Len(new) \in Nat /\ Len(lines) <= Len(new)
                          /\ \A k \in 1 .. Len(lines) : new[k] = lines[k]
<1>1. ASSUME NEW s, s \in Seq(Range(s)), NEW e
      PROVE  /\ Append(s, e) \in Seq(Range(Append(s, e))) /\ Len(s) \in Nat
             /\ Len(Append(s, e)) = Len(s) + 1
             /\ \A k \in 1 .. Len(s) : Append(s, e)[k] = s[k]
  <2> DEFINE S == Range(s) \cup {e}
             t == Append(s, e)
  <2>1. s \in Seq(S) /\ e \in S /\ Len(s) \in Nat
    BY <1>1
  <2>2. t \in Seq(S) /\ Len(t) = Len(s) + 1 /\ \A k \in 1 .. Len(s) : t[k] = s[k]
    <3> HIDE DEF S
    <3> QED BY <2>1, AppendProperties
  <2>3. t \in Seq(Range(t))
    <3> HIDE DEF t
    <3>1. t \in [1 .. Len(t) -> Range(t)] /\ Len(t) \in Nat
      BY <2>2 DEF Range
    <3> QED BY <3>1
  <2> QED BY <2>1, <2>2, <2>3
<1>2. Longer(lines) /\ Len(lines) \in Nat
  BY DEF Lines
<1>3. \A e : Longer(Append(lines, e))
  BY <1>1, <1>2 DEF Lines
<1>4. \A e, u : Longer(Append(Append(lines, e), u))
  <2> TAKE e, u
  <2> DEFINE s == Append(lines, e)
  <2>1. Longer(s)
    BY <1>3
  <2>2. /\ Append(s, u) \in Seq(Range(Append(s, u))) /\ Len(s) \in Nat
        /\ Len(Append(s, u)) = Len(s) + 1
        /\ \A k \in 1 .. Len(s) : Append(s, u)[k] = s[k]
    <3> HIDE DEF s
    <3> QED BY <1>1, <2>1
  <2> HIDE DEF s
  <2>3. \A k \in 1 .. Len(lines) : Append(s, u)[k] = lines[k]
    BY <1>2, <2>1, <2>2
  <2>4. Longer(Append(s, u))
    BY <1>2, <2>1, <2>2, <2>3
  <2> QED BY <2>4 DEF s
<1>5. \/ lines' = lines
      \/ \E e : lines' = Append(lines, e)
      \/ \E e, u : lines' = Append(Append(lines, e), u)
  <2>1. ASSUME NEW name, NEW callers, get_data_down(name, callers)
        PROVE  <1>5!:
    BY <2>1 DEF get_data_down, down
  <2>2. CASE NextTarget
    BY <2>2 DEF NextTarget
  <2>3. CASE Inspect
    BY <2>1, <2>3 DEF Inspect
  <2>4. CASE Inspected
    BY <2>4 DEF Inspected
  <2>5. CASE Summary
    BY <2>5 DEF Summary
  <2>6. CASE ReadEntry
    BY <2>6 DEF ReadEntry
  <2>7. CASE EndList
    BY <2>7 DEF EndList
  <2>8. CASE CountEntry
    BY <2>8 DEF CountEntry
  <2>9. CASE EndCount
    BY <2>9 DEF EndCount, PrintFigures
  <2>10. CASE Descend
    BY <2>1, <2>10 DEF Descend
  <2>11. CASE Leave
    BY <2>11 DEF Leave, PrintFigures
  <2>12. CASE UNCHANGED vars
    BY <2>12 DEF vars
  <2> QED
    BY <2>2, <2>3, <2>4, <2>5, <2>6, <2>7, <2>8, <2>9, <2>10, <2>11, <2>12 DEF Next
<1>6. Longer(lines')
  <2> HIDE DEF Longer
  <2> QED BY <1>2, <1>3, <1>4, <1>5
<1>7. job' = job
  BY DEF Next, vars, NextTarget, Inspect, Inspected, Summary, ReadEntry, EndList, CountEntry,
         EndCount, Descend, Leave
<1> QED BY <1>2, <1>6, <1>7 DEF Lines

\* A walk that is intact after a step has been before it.
LEMMA IntactBefore ==
  ASSUME Lines, [Next]_vars, Intact'
  PROVE  Intact
<1>1. /\ Len(lines) \in Nat /\ Len(lines') \in Nat
      /\ Len(lines) <= Len(lines') /\ \A k \in 1 .. Len(lines) : lines'[k] = lines[k]
      /\ job' = job /\ Lines'
  BY Printing
<1>2. fs' = fs /\ args' = args /\ opts' = opts
  BY <1>1 DEF job
<1>3. DOMAIN lines = 1 .. Len(lines) /\ DOMAIN lines' = 1 .. Len(lines')
  BY <1>1 DEF Lines
<1> QED BY <1>1, <1>2, <1>3 DEF Intact, Targets, Lookup

\* What a name leads to.
LEMMA LookedUp ==
  ASSUME Intact, FileSystemOK(fs), NEW d \in DOMAIN fs.entries,
         NEW m \in {Dot} \cup DOMAIN fs.entries[d]
  PROVE  /\ Lookup(d, m) \in DOMAIN fs.dev \ {NONE} /\ Lookup(d, m) \in Nat
         /\ m # Dot => Lookup(d, m) = fs.entries[d][m]
         /\ m \in Nat
<1>1. CASE m = Dot
  BY <1>1 DEF FileSystemOK, Lookup, Dot
<1>2. CASE m # Dot
  <2>1. fs.entries[d][m] \in DOMAIN fs.dev \cup {NONE} /\ m \in Nat /\ m \in DOMAIN fs.entries[d]
    BY <1>2 DEF FileSystemOK, Dot
  <2>2. fs.entries[d][m] # NONE
    BY <2>1 DEF Intact, Range
  <2>3. fs.entries[d][m] \in Nat
    BY <2>1, <2>2 DEF FileSystemOK
  <2> QED BY <1>2, <2>1, <2>2, <2>3 DEF Lookup
<1> QED BY <1>1, <1>2

\* The call that is running.
LEMMA TopFacts ==
  ASSUME Walk, stack # <<>>
  PROVE  /\ Len(stack) \in Nat \ {0} /\ stack \in Seq(FrameSet) /\ cur_depth = Len(stack)
         /\ Top = stack[Len(stack)] /\ Top \in FrameSet /\ CallOK(Top)
         /\ Top.dir \in DOMAIN fs.entries /\ Top.dir \notin fs.unreadable
         /\ cwd = Top.dir /\ Top.cwd = Dir(stack, Len(stack) - 1)
         /\ Len(stack) - 1 # opts.depth \/ opts.sum
         /\ phase = "walk"
         /\ Top.list \in Seq(Nat) /\ Len(Top.list) \in Nat /\ DOMAIN Top.list = 1 .. Len(Top.list)
         /\ Top.i \in Nat \ {0} /\ Top.left \subseteq Nat
         /\ StackOK(stack)
         /\ Top.dir \in Nat /\ Top.cwd \in Nat
         /\ Top = [dir |-> Top.dir, cwd |-> Top.cwd, left |-> Top.left, list |-> Top.list,
                   i |-> Top.i, loop |-> Top.loop]
<1>1. /\ Len(stack) \in Nat \ {0} /\ stack \in Seq(FrameSet) /\ cur_depth = Len(stack)
      /\ StackOK(stack) /\ FrameOK(stack, Len(stack)) /\ cwd = Dir(stack, Len(stack))
       /\ phase = "walk"
  BY DEF Walk, StackOK
<1>2. stack[Len(stack)] \in FrameSet
  BY <1>1
<1>3. Top = stack[Len(stack)]
  BY DEF Top
<1> HIDE DEF Top
<1>4. Top \in FrameSet /\ CallOK(Top) /\ Top.cwd = Dir(stack, Len(stack) - 1)
      /\ (Len(stack) - 1 # opts.depth \/ opts.sum)
  BY <1>1, <1>2, <1>3 DEF FrameOK
<1>5. cwd = Top.dir
  BY <1>1, <1>3 DEF Dir
<1> QED BY <1>1, <1>3, <1>4, <1>5 DEF FrameSet, CallOK

\* The entries of the running call are names of its directory.
LEMMA EntryFacts ==
  ASSUME Intact, Walk, stack # <<>>, Top.loop # "list", ~AtEnd
  PROVE  /\ Top.i \in 1 .. Len(Top.list) /\ Entry \in Kept(Top.dir)
         /\ Entry = Top.list[Top.i]
         /\ Stat(Entry) = Lookup(Top.dir, Entry)
         /\ Lookup(Top.dir, Entry) \in DOMAIN fs.dev \ {NONE} /\ Lookup(Top.dir, Entry) \in Nat
<1>1. /\ CallOK(Top) /\ Top.list \in Seq(Nat) /\ cwd = Top.dir /\ Top.i \in Nat \ {0}
      /\ Top.dir \in DOMAIN fs.entries /\ Len(Top.list) \in Nat
      /\ DOMAIN Top.list = 1 .. Len(Top.list)
  BY TopFacts
<1>2. Top.i \in 1 .. Len(Top.list) /\ Entry = Top.list[Top.i]
  BY <1>1 DEF AtEnd, Entry
<1>3. Entry \in Kept(Top.dir)
  BY <1>1, <1>2 DEF CallOK, Range
<1>4. Entry \in {Dot} \cup DOMAIN fs.entries[Top.dir]
  BY <1>3 DEF Kept
<1>5. FileSystemOK(fs)
  BY DEF Walk
<1>6. Lookup(Top.dir, Entry) \in DOMAIN fs.dev \ {NONE} /\ Lookup(Top.dir, Entry) \in Nat
  BY <1>1, <1>4, <1>5, LookedUp
<1>7. Stat(Entry) = Lookup(Top.dir, Entry)
  BY <1>1, <1>6 DEF Stat
<1> QED BY <1>2, <1>3, <1>6, <1>7

\* Changing the running call.
LEMMA Became ==
  ASSUME Walk, stack # <<>>, NEW g \in FrameSet
  PROVE  LET s == Become(g)
         IN  /\ s \in Seq(FrameSet) /\ Len(s) = Len(stack) /\ s[Len(s)] = g /\ s # <<>>
             /\ Len(s) \in Nat \ {0}
             /\ \A j \in 1 .. Len(stack) : j # Len(stack) => s[j] = stack[j]
<1>1. stack \in Seq(FrameSet) /\ Len(stack) \in Nat \ {0}
  BY TopFacts
<1> DEFINE s == [stack EXCEPT ![Len(stack)] = g]
<1>2. s \in Seq(FrameSet) /\ Len(s) = Len(stack) /\ s[Len(stack)] = g
      /\ \A j \in 1 .. Len(stack) : j # Len(stack) => s[j] = stack[j]
  BY SMTT(30), <1>1, ExceptSeq
<1>3. s # <<>>
  BY <1>1, <1>2
<1> HIDE DEF s
<1>4. Become(g) = s
  BY DEF Become, s
<1> QED BY <1>1, <1>2, <1>3, <1>4

\* The file system and the options do not change.
LEMMA SameJob ==
  ASSUME job' = job
  PROVE  /\ fs' = fs /\ args' = args /\ opts' = opts /\ Targets' = Targets
         /\ Figures' = Figures
         /\ \A d, m : Lookup(d, m)' = Lookup(d, m)
BY DEF job, Targets, Figures, Lookup

\* A step leaves the file system as it is, and with it the entries that are kept.
LEMMA SameKept ==
  ASSUME job' = job
  PROVE  /\ \A d : Kept(d)' = Kept(d)
         /\ \A f : CallOK(f) => CallOK(f)'
<1>1. \A d : Kept(d)' = Kept(d)
  BY SameJob DEF Kept, Listed, IsDir, Lookup, Figures
<1> QED BY <1>1, SameJob DEF CallOK

\* The stack with the running call changed, with one more call, and with one less.
LEMMA StackBecame ==
  ASSUME Walk, stack # <<>>, NEW g \in FrameSet, CallOK(g), g.dir = Top.dir, g.cwd = Top.cwd
  PROVE  /\ StackOK(Become(g)) /\ Len(Become(g)) = Len(stack) /\ Become(g) # <<>>
         /\ \A j \in 0 .. Len(stack) : Dir(Become(g), j) = Dir(stack, j)
<1> DEFINE s == Become(g)
<1>1. /\ s \in Seq(FrameSet) /\ Len(s) = Len(stack) /\ s[Len(s)] = g /\ s # <<>>
      /\ \A j \in 1 .. Len(stack) : j # Len(stack) => s[j] = stack[j]
  BY Became
<1>2. /\ StackOK(stack) /\ Len(stack) \in Nat \ {0} /\ Top = stack[Len(stack)]
      /\ Top.cwd = Dir(stack, Len(stack) - 1)
  BY TopFacts
<1> HIDE DEF s, Top
<1>3. \A j \in 0 .. Len(stack) : Dir(s, j) = Dir(stack, j)
  BY <1>1, <1>2 DEF Dir
<1>4. ASSUME NEW j \in 1 .. Len(s)
      PROVE  FrameOK(s, j)
  <2>1. FrameOK(stack, j) /\ j \in Int /\ j - 1 \in 0 .. Len(stack)
    BY <1>1, <1>2 DEF StackOK
  <2>2. CASE j = Len(s)
    BY <1>1, <1>2, <1>3, <2>1, <2>2 DEF FrameOK
  <2>3. CASE j # Len(s)
    BY <1>1, <1>2, <1>3, <2>1, <2>3 DEF FrameOK
  <2> QED BY <2>2, <2>3
<1> QED BY <1>1, <1>3, <1>4 DEF s, StackOK

\* down() called once more: the call that calls it is at a directory of its list.
LEMMA StackPushed ==
  ASSUME NEW s, StackOK(s), s # <<>> => s[Len(s)].loop = "descend" /\ s[Len(s)].i # 1,
         NEW f \in FrameSet, CallOK(f), f.cwd = Dir(s, Len(s)), Len(s) # opts.depth \/ opts.sum
  PROVE  StackOK(Append(s, f)) /\ Dir(Append(s, f), Len(s) + 1) = f.dir
<1> DEFINE t == Append(s, f)
<1>1. s \in Seq(FrameSet) /\ Len(s) \in Nat
  BY DEF StackOK
<1>2. /\ t \in Seq(FrameSet) /\ Len(t) = Len(s) + 1 /\ t[Len(s) + 1] = f
      /\ \A j \in 1 .. Len(s) : t[j] = s[j]
  BY <1>1, AppendProperties
<1> HIDE DEF t
<1>3. \A j \in 0 .. Len(s) : Dir(t, j) = Dir(s, j)
  BY <1>1, <1>2 DEF Dir
<1>4. ASSUME NEW j \in 1 .. Len(t)
      PROVE  FrameOK(t, j)
  <2>1. CASE j = Len(t)
    BY <1>1, <1>2, <1>3, <2>1 DEF FrameOK
  <2>2. CASE j # Len(t)
    <3>1. j \in 1 .. Len(s) /\ FrameOK(s, j) /\ s # <<>>
      BY <1>1, <1>2, <2>2 DEF StackOK
    <3>2. Dir(t, j - 1) = Dir(s, j - 1)
      BY <1>3, <3>1
    <3>3. s[j].loop = "descend" /\ s[j].i # 1
      <4>1. CASE j = Len(s)
        BY <3>1, <4>1
      <4>2. CASE j # Len(s)
        BY <1>1, <3>1, <4>2 DEF FrameOK
      <4> QED BY <4>1, <4>2
    <3> QED BY <1>2, <3>1, <3>2, <3>3 DEF FrameOK
  <2> QED BY <2>1, <2>2
<1> QED BY <1>1, <1>2, <1>4 DEF t, StackOK, Dir

\* A stack without its last call.
LEMMA FrontFacts ==
  ASSUME NEW S, NEW s \in Seq(S), s # <<>>
  PROVE  /\ Front(s) \in Seq(S) /\ Len(Front(s)) = Len(s) - 1 /\ Len(s) \in Nat \ {0}
         /\ \A j \in 1 .. (Len(s) - 1) : Front(s)[j] = s[j]
<1>1. Len(s) \in Nat \ {0} /\ \A j \in 1 .. (Len(s) - 1) : s[j] \in S
  OBVIOUS
<1> DEFINE t == SubSeq(s, 1, Len(s) - 1)
<1>2. /\ t \in Seq(S)
      /\ Len(t) = IF 1 <= Len(s) - 1 THEN Len(s) - 1 - 1 + 1 ELSE 0
      /\ \A j \in 1 .. (Len(s) - 1 - 1 + 1) : t[j] = s[1 + j - 1]
  BY <1>1, SubSeqProperties
<1> HIDE DEF t
<1>3. Len(t) = Len(s) - 1
  <2> DEFINE n == Len(s)
             m == Len(t)
  <2>1. n \in Nat \ {0} /\ m = IF 1 <= n - 1 THEN n - 1 - 1 + 1 ELSE 0
    BY <1>1, <1>2
  <2> HIDE DEF n, m
  <2>2. m = n - 1
    BY <2>1
  <2> QED BY <2>2 DEF n, m
<1>4. ASSUME NEW j \in 1 .. (Len(s) - 1)
      PROVE  t[j] = s[j]
  <2>1. j \in 1 .. (Len(s) - 1 - 1 + 1) /\ 1 + j - 1 = j
    BY <1>1
  <2> QED BY <1>2, <2>1
<1> QED BY <1>1, <1>2, <1>3, <1>4 DEF Front, t

\* The stack after the last call has returned: the call below it goes on where it was.
LEMMA StackPopped ==
  ASSUME Walk, stack # <<>>
  PROVE  /\ StackOK(Front(stack)) /\ Len(Front(stack)) = Len(stack) - 1
         /\ \A j \in 1 .. (Len(stack) - 1) : Front(stack)[j] = stack[j]
         /\ Dir(Front(stack), Len(stack) - 1) = Top.cwd
         /\ Len(stack) \in Nat \ {0}
         /\ Front(stack) # <<>> <=> Len(stack) # 1
<1> DEFINE s == Front(stack)
<1>1. /\ StackOK(stack) /\ Len(stack) \in Nat \ {0} /\ stack \in Seq(FrameSet)
      /\ Top.cwd = Dir(stack, Len(stack) - 1)
  BY TopFacts
<1>2. /\ s \in Seq(FrameSet) /\ Len(s) = Len(stack) - 1
      /\ \A j \in 1 .. (Len(stack) - 1) : s[j] = stack[j]
  BY <1>1, FrontFacts
<1> HIDE DEF s
<1>3. \A j \in 0 .. (Len(stack) - 1) : Dir(s, j) = Dir(stack, j)
  BY <1>1, <1>2 DEF Dir
<1>4. ASSUME NEW j \in 1 .. Len(s)
      PROVE  FrameOK(s, j)
  <2>1. FrameOK(stack, j) /\ Dir(s, j - 1) = Dir(stack, j - 1)
    BY <1>1, <1>2, <1>3 DEF StackOK
  <2> QED BY <1>1, <1>2, <2>1 DEF FrameOK
<1>5. s # <<>> <=> Len(stack) # 1
  BY <1>1, <1>2
<1>6. Len(stack) - 1 \in 0 .. (Len(stack) - 1)
  BY <1>1
<1> QED BY <1>1, <1>2, <1>3, <1>4, <1>5, <1>6 DEF s, StackOK

\* The calls that have not returned fit the file system after a step as well.
LEMMA SameStackOK ==
  ASSUME job' = job, NEW s, StackOK(s)
  PROVE  StackOK(s)'
BY SameJob, SameKept DEF StackOK, FrameOK, Dir

\* What get_data() does with the inode n: it passes over a file, it cuts the way at the
\* last level, it is refused by a directory that cannot be read, or it enters it.
NameOf(n) ==
    [kind |-> "name", node |-> n, level |-> cur_depth, beside |-> indented,
     bars |-> [i \in IF indented THEN {cur_depth} ELSE 1 .. cur_depth |->
                  indented \/ sub_dirs'[i] # 0]]
Shows(n) == IF cur_depth < opts.depth THEN Append(lines, NameOf(n)) ELSE lines
NewCall(n) ==
    [dir |-> n, cwd |-> cwd, left |-> {Dot} \cup DOMAIN fs.entries[n],
     list |-> <<>>, i |-> 1, loop |-> "list"]

Passes(n, callers) ==
    /\ n \notin DOMAIN fs.entries
    /\ stack' = callers /\ UNCHANGED <<tally, cwd, cur_depth, open, indented, lines>>
Cuts(n, callers) ==
    /\ n \in DOMAIN fs.entries /\ cur_depth = opts.depth /\ ~opts.sum
    /\ tally' = With(tally, n)
    /\ stack' = callers /\ UNCHANGED <<cwd, cur_depth, open, indented, lines>>
Refused(n, callers) ==
    /\ n \in DOMAIN fs.entries /\ (cur_depth # opts.depth \/ opts.sum)
    /\ n \in fs.unreadable
    /\ tally' = With(tally, n)
    /\ lines' = Append(Shows(n), [kind |-> "unread", node |-> n])
    /\ stack' = callers /\ indented' = FALSE /\ UNCHANGED <<cwd, cur_depth, open>>
Enters(n, callers) ==
    /\ n \in DOMAIN fs.entries /\ (cur_depth # opts.depth \/ opts.sum)
    /\ n \notin fs.unreadable /\ open < MaxOpen
    /\ tally' = With(tally, n)
    /\ lines' = Shows(n)
    /\ indented' = (indented \/ (opts.visual /\ cur_depth < opts.depth))
    /\ open' = open + 1 /\ cur_depth' = cur_depth + 1
    /\ stack' = Append(callers, NewCall(n)) /\ cwd' = n
Visits(n, callers) ==
    /\ stb' = n
    /\ Passes(n, callers) \/ Cuts(n, callers) \/ Refused(n, callers) \/ Enters(n, callers)

\* The lines that a name has been added to or not.
LEMMA Showing ==
  ASSUME Lines, NEW n
  PROVE  Shows(n) \in Seq(Range(Shows(n)))
<1> DEFINE e == NameOf(n)
           S == Range(lines) \cup {e}
           t == Append(lines, e)
<1>1. lines \in Seq(S) /\ e \in S
  BY DEF Lines
<1>2. t \in Seq(S)
  <2> HIDE DEF S, e
  <2> QED BY <1>1, AppendProperties
<1>3. t \in Seq(Range(t))
  <2> HIDE DEF t
  <2>1. t \in [1 .. Len(t) -> Range(t)] /\ Len(t) \in Nat
    BY <1>2 DEF Range
  <2> QED BY <2>1
<1> QED BY <1>3 DEF Shows, Lines

\* get_data(name, TRUE), where every name leads somewhere and can be entered.
LEMMA GetData ==
  ASSUME Lines, Walk, Intact, job' = job, Intact', NEW name, NEW callers,
         Lookup(cwd, name) \in Nat \ {NONE}, get_data_down(name, callers)
  PROVE  Visits(Lookup(cwd, name), callers)
<1> DEFINE n == Lookup(cwd, name)
<1>1. stb' = n /\ Stat(name) = n
  BY DEF get_data_down, Stat
<1>2. CASE ~IsDir(n)
  <2>1. Passes(n, callers)
    BY <1>1, <1>2 DEF get_data_down, IsDir, Passes
  <2> QED BY <1>1, <2>1 DEF Visits
<1>3. CASE IsDir(n)
  <2>1. n \in DOMAIN fs.entries /\ tally' = With(tally, n) /\ down(name, callers)
    BY <1>1, <1>3 DEF get_data_down, IsDir
  <2>2. CASE cur_depth = opts.depth /\ ~opts.sum
    <3>1. Cuts(n, callers)
      BY <2>1, <2>2 DEF down, Cuts
    <3> QED BY <1>1, <3>1 DEF Visits
  <2>3. CASE ~(cur_depth = opts.depth /\ ~opts.sum) /\ ~Opens(n)
    <3>1. /\ lines' = Append(Shows(n), [kind |-> "unread", node |-> n])
          /\ stack' = callers /\ indented' = FALSE /\ UNCHANGED <<cwd, cur_depth, open>>
      <4> DEFINE named == [kind |-> "name", node |-> stb', level |-> cur_depth,
                           beside |-> indented,
                           bars |-> [i \in IF indented THEN {cur_depth} ELSE 1 .. cur_depth |->
                                        indented \/ sub_dirs'[i] # 0]]
                 shown == IF cur_depth < opts.depth THEN Append(lines, named) ELSE lines
      <4>1. /\ lines' = Append(shown, [kind |-> "unread", node |-> stb'])
            /\ stack' = callers /\ indented' = FALSE /\ UNCHANGED <<cwd, cur_depth, open>>
        <5>1. down(name, callers) =>
                  \/ cur_depth = opts.depth /\ ~opts.sum
                  \/ Opens(n)
                  \/ /\ lines' = Append(shown, [kind |-> "unread", node |-> stb'])
                     /\ stack' = callers /\ indented' = FALSE
                     /\ UNCHANGED <<cwd, cur_depth, open>>
          BY Zenon DEF down
        <5> QED BY <2>1, <2>3, <5>1, Zenon
      <4>2. shown = Shows(n)
        BY <1>1 DEF Shows, NameOf
      <4> HIDE DEF shown
      <4> QED BY <1>1, <4>1, <4>2
    <3>2. n \in fs.unreadable
      <4> DEFINE e == [kind |-> "unread", node |-> n]
                 s == Shows(n)
                 S == Range(s) \cup {e}
      <4>1. s \in Seq(S) /\ e \in S
        <5> HIDE DEF s, e
        <5>1. s \in Seq(Range(s))
          BY Showing DEF s
        <5> QED BY <5>1
      <4>2. /\ Len(s) \in Nat /\ Len(Append(s, e)) = Len(s) + 1
            /\ Append(s, e) \in Seq(S) /\ Append(s, e)[Len(s) + 1] = e
        <5> HIDE DEF S, s, e
        <5> QED BY <4>1, AppendProperties
      <4>3. Len(s) + 1 \in DOMAIN lines' /\ lines'[Len(s) + 1] = e
        BY <3>1, <4>2
      <4>4. fs' = fs
        BY SameJob
      <4>5. e.kind = "unread" /\ e.node = n
        OBVIOUS
      <4> HIDE DEF s, e
      <4> QED BY <4>3, <4>4, <4>5 DEF Intact
    <3>3. Refused(n, callers)
      BY <2>1, <2>3, <3>1, <3>2 DEF Refused
    <3> QED BY <1>1, <3>3 DEF Visits
  <2>4. CASE ~(cur_depth = opts.depth /\ ~opts.sum) /\ Opens(n)
    <3>1. fs.closed = {}
      BY DEF Intact
    <3>2. Enters(n, callers)
      BY <1>1, <2>1, <2>4, <3>1 DEF down, Enters, Opens, Shows, NameOf, NewCall
    <3> QED BY <1>1, <3>2 DEF Visits
  <2> QED BY <2>2, <2>3, <2>4
<1> QED BY <1>2, <1>3

\* The arguments, or the directory vtree is started in.
LEMMA TargetList ==
  ASSUME Walk
  PROVE  Targets \in Seq(Nat) /\ DOMAIN Targets = 1 .. Len(Targets) /\ Len(Targets) \in Nat \ {0}
<1>1. args \in Seq(Nat)
  BY DEF Walk
<1>2. CASE args = <<>>
  <2>1. Targets = <<Dot>>
    BY <1>2 DEF Targets
  <2>2. <<Dot>> \in Seq(Nat) /\ Len(<<Dot>>) = 1 /\ DOMAIN <<Dot>> = 1 .. 1
    BY DEF Dot
  <2> QED BY <2>1, <2>2
<1>3. CASE args # <<>>
  BY <1>1, <1>3 DEF Targets
<1> QED BY <1>2, <1>3

\* The argument that is inspected.
LEMMA Inspecting ==
  ASSUME Lines, Walk, Intact, job' = job, Intact', Inspect
  PROVE  LET n == Lookup(topdir, Targets[arg])
         IN  /\ n \in DOMAIN fs.dev \ {NONE} /\ n \in Nat
             /\ arg \in 1 .. Len(Targets) /\ stack = <<>> /\ cwd = topdir /\ cur_depth = 0
             /\ Visits(n, <<>>)
             /\ phase = "inspect" /\ phase' = "walk" /\ UNCHANGED <<arg, sub_dirs, total, hash>>
<1> DEFINE m == Targets[arg]
           n == Lookup(topdir, m)
<1>1. /\ phase = "inspect" /\ stack = <<>> /\ cwd = topdir /\ cur_depth = 0
      /\ arg \in 1 .. Len(Targets) /\ FileSystemOK(fs)
  <2>1. Len(Targets) \in Nat
    BY TargetList
  <2> QED BY <2>1 DEF Inspect, Walk, Dir
<1>2. n # NONE
  <2>1. DOMAIN Targets = 1 .. Len(Targets)
    BY TargetList
  <2> QED BY <1>1, <2>1 DEF Intact
<1>3. topdir \in DOMAIN fs.entries
  BY <1>1 DEF FileSystemOK
<1>4. m \in {Dot} \cup DOMAIN fs.entries[topdir]
  BY <1>2 DEF Lookup
<1>5. n \in DOMAIN fs.dev \ {NONE} /\ n \in Nat
  <2> HIDE DEF m
  <2> QED BY <1>1, <1>3, <1>4, LookedUp
<1>6. get_data_down(m, <<>>)
  BY DEF Inspect
<1>7. Visits(n, <<>>)
  <2> HIDE DEF m
  <2> QED BY <1>1, <1>5, <1>6, GetData DEF NONE
<1> QED BY <1>1, <1>5, <1>7 DEF Inspect

\* The entry that is descended to.
LEMMA Descending ==
  ASSUME Lines, Walk, Intact, job' = job, Intact', Descend
  PROVE  LET n == Lookup(Top.dir, Entry)
         IN  /\ stack # <<>> /\ Top.loop = "descend" /\ ~AtEnd
             /\ n \in DOMAIN fs.dev \ {NONE} /\ n \in Nat
             /\ UNCHANGED <<arg, phase, total, hash>>
             /\ \/ /\ Entry = Dot /\ stack' = Advanced
                   /\ UNCHANGED <<sub_dirs, stb, tally, cwd, cur_depth, open, indented, lines>>
                \/ /\ Entry # Dot /\ n = fs.entries[Top.dir][Entry]
                   /\ sub_dirs' = IF n \in DOMAIN fs.entries
                                  THEN [sub_dirs EXCEPT ![cur_depth] = @ - 1] ELSE sub_dirs
                   /\ Visits(n, Advanced)
<1> DEFINE n == Lookup(Top.dir, Entry)
<1>1. stack # <<>> /\ Top.loop = "descend" /\ ~AtEnd /\ UNCHANGED <<arg, phase, total, hash>>
  BY DEF Descend, In
<1>2. /\ Stat(Entry) = n /\ n \in DOMAIN fs.dev \ {NONE} /\ n \in Nat
      /\ Entry \in Kept(Top.dir)
  BY <1>1, EntryFacts
<1>3. cwd = Top.dir /\ Top.dir \in DOMAIN fs.entries
  BY <1>1, TopFacts
<1>4. CASE Entry = Dot
  BY <1>1, <1>2, <1>4 DEF Descend
<1>5. CASE Entry # Dot
  <2>1. n = fs.entries[Top.dir][Entry]
    <3>1. Entry \in {Dot} \cup DOMAIN fs.entries[Top.dir] /\ FileSystemOK(fs)
      BY <1>2 DEF Kept, Walk
    <3> QED BY <1>3, <1>5, <3>1, LookedUp
  <2>2. get_data_down(Entry, Advanced)
    BY <1>5 DEF Descend
  <2>3. Visits(n, Advanced)
    <3>1. Lookup(cwd, Entry) \in Nat \ {NONE}
      BY <1>2, <1>3
    <3> QED BY <1>3, <2>2, <3>1, GetData
  <2>4. sub_dirs' = IF n \in DOMAIN fs.entries
                    THEN [sub_dirs EXCEPT ![cur_depth] = @ - 1] ELSE sub_dirs
    BY <1>2, <1>5 DEF Descend, IsDir
  <2> QED BY <1>1, <1>2, <1>5, <2>1, <2>3, <2>4
<1> QED BY <1>4, <1>5

LinesOK(s) == \A k \in 1 .. Len(s) : LineOK(s[k])

\* A line that is well-formed may be printed.
LEMMA OneLineMore ==
  ASSUME NEW s, s \in Seq(Range(s)), LinesOK(s), NEW e, LineOK(e)
  PROVE  LinesOK(Append(s, e))
<1> DEFINE S == Range(s) \cup {e}
           t == Append(s, e)
<1>1. s \in Seq(S) /\ e \in S /\ Len(s) \in Nat
  OBVIOUS
<1>2. Len(t) = Len(s) + 1 /\ t[Len(s) + 1] = e /\ \A k \in 1 .. Len(s) : t[k] = s[k]
  <2> HIDE DEF S
  <2> QED BY <1>1, AppendProperties
<1> HIDE DEF t
<1>3. \A k \in 1 .. Len(t) : k \in 1 .. Len(s) \/ k = Len(s) + 1
  BY <1>1, <1>2
<1>4. LinesOK(t)
  BY <1>2, <1>3 DEF LinesOK
<1> QED BY <1>4 DEF t

\* The figures of one inode more.
LEMMA MoreFigures ==
  ASSUME FileSystemOK(fs), NEW n \in DOMAIN fs.dev, NEW t \in FigureSet
  PROVE  /\ With(t, n) \in FigureSet /\ K(fs.blocks[n]) \in Int
         /\ With(t, n) = [inodes |-> t.inodes + 1, sizes |-> t.sizes + K(fs.blocks[n])]
<1>1. fs.blocks[n] \in Nat
  BY DEF FileSystemOK
<1>2. K(fs.blocks[n]) \in Int
  BY <1>1 DEF K
<1> QED BY <1>2 DEF FigureSet, With

\* Figures may be added up.
LEMMA SumFigures ==
  ASSUME NEW t \in FigureSet, NEW u \in FigureSet
  PROVE  Plus(t, u) \in FigureSet /\ Zero \in FigureSet
BY DEF FigureSet, Plus, Zero

\* A visit keeps the stack, the depth, the directory and the descriptors in step.
LEMMA VisitOK ==
  ASSUME Lines, Walk, job' = job, NEW n \in DOMAIN fs.dev, n \in Nat,
         NEW callers, StackOK(callers), Len(callers) = cur_depth,
         cwd = Dir(callers, Len(callers)),
         callers # <<>> => callers[Len(callers)].loop = "descend" /\ callers[Len(callers)].i # 1,
         Visits(n, callers)
  PROVE  /\ StackOK(stack') /\ cur_depth' = Len(stack') /\ open' \in Len(stack') .. MaxOpen
         /\ cwd' = Dir(stack', Len(stack')) /\ stb' \in Nat /\ tally' \in FigureSet
         /\ LinesOK(lines')
<1>1. /\ FileSystemOK(fs) /\ open \in cur_depth .. MaxOpen /\ tally \in FigureSet
      /\ LinesOK(lines) /\ cur_depth \in Nat /\ MaxOpen \in Nat
  BY VtreeAssumption DEF Walk, StackOK, LinesOK
<1>2. stb' = n
  BY DEF Visits
<1>3. With(tally, n) \in FigureSet
  BY <1>1, MoreFigures
<1>4. LinesOK(Shows(n)) /\ Shows(n) \in Seq(Range(Shows(n)))
  <2>1. CASE cur_depth < opts.depth
    <3>1. LineOK(NameOf(n))
      BY <1>1, <2>1 DEF LineOK, NameOf
    <3> QED BY <1>1, <2>1, <3>1, OneLineMore, Showing DEF Shows, Lines
  <2>2. CASE ~(cur_depth < opts.depth)
    BY <1>1, <2>2, Showing DEF Shows
  <2> QED BY <2>1, <2>2
<1>5. CASE Passes(n, callers)
  BY <1>1, <1>2, <1>5 DEF Passes
<1>6. CASE Cuts(n, callers)
  BY <1>1, <1>2, <1>3, <1>6 DEF Cuts
<1>7. CASE Refused(n, callers)
  <2>1. LineOK([kind |-> "unread", node |-> n])
    BY DEF LineOK
  <2>2. LinesOK(Append(Shows(n), [kind |-> "unread", node |-> n]))
    <3> HIDE DEF Shows
    <3> QED BY <1>4, <2>1, OneLineMore
  <2> QED BY <1>1, <1>2, <1>3, <1>7, <2>2 DEF Refused
<1>8. CASE Enters(n, callers)
  <2> DEFINE f == NewCall(n)
  <2>1. n \in DOMAIN fs.entries /\ n \notin fs.unreadable
        /\ (Len(callers) # opts.depth \/ opts.sum) /\ open < MaxOpen
    BY <1>8 DEF Enters
  <2>2. {Dot} \cup DOMAIN fs.entries[n] \subseteq Nat
    BY <1>1, <2>1 DEF FileSystemOK, Dot
  <2>3. cwd \in Nat
    <3>1. CASE callers = <<>>
      BY <3>1 DEF Dir, topdir
    <3>2. CASE callers # <<>>
      <4>1. callers[Len(callers)] \in FrameSet /\ Len(callers) # 0
        BY <3>2 DEF StackOK
      <4> QED BY <4>1 DEF Dir, FrameSet
    <3> QED BY <3>1, <3>2
  <2>4. f \in FrameSet
    BY <1>1, <2>2, <2>3 DEF FrameSet, NewCall
  <2>5. CallOK(f)
    <3>1. Range(f.list) = {} /\ IsInjective(f.list)
      BY DEF NewCall, Range, IsInjective
    <3>2. Kept(n) \subseteq {Dot} \cup DOMAIN fs.entries[n]
      BY DEF Kept
    <3> QED BY <2>1, <3>1, <3>2 DEF CallOK, NewCall
  <2>6. f.cwd = Dir(callers, Len(callers)) /\ f.dir = n
    BY DEF NewCall
  <2>7. StackOK(Append(callers, f)) /\ Dir(Append(callers, f), Len(callers) + 1) = n
    <3> HIDE DEF f
    <3> QED BY <2>1, <2>4, <2>5, <2>6, StackPushed
  <2>8. Len(Append(callers, f)) = Len(callers) + 1
    BY <2>4, AppendProperties DEF StackOK
  <2> HIDE DEF f
  <2>9. /\ stack' = Append(callers, f) /\ cwd' = n /\ cur_depth' = cur_depth + 1
        /\ open' = open + 1 /\ lines' = Shows(n) /\ tally' = With(tally, n)
    BY <1>8 DEF Enters, f
  <2> HIDE DEF Shows
  <2> QED BY <1>1, <1>2, <1>3, <1>4, <2>1, <2>7, <2>8, <2>9
<1> QED BY <1>5, <1>6, <1>7, <1>8 DEF Visits

\* A call that goes to its next entry.
LEMMA AdvancedOK ==
  ASSUME Walk, stack # <<>>, Top.loop # "list", ~AtEnd
  PROVE  LET g == [Top EXCEPT !.i = @ + 1]
         IN  /\ g \in FrameSet /\ CallOK(g) /\ g.dir = Top.dir /\ g.cwd = Top.cwd
             /\ g.loop = Top.loop /\ g.i = Top.i + 1 /\ g.list = Top.list /\ g.left = Top.left
             /\ Advanced = Become(g) /\ StackOK(Advanced) /\ Len(Advanced) = Len(stack)
             /\ Advanced # <<>> /\ Advanced[Len(stack)] = g
             /\ \A j \in 0 .. Len(stack) : Dir(Advanced, j) = Dir(stack, j)
             /\ \A j \in 1 .. Len(stack) : j # Len(stack) => Advanced[j] = stack[j]
<1> DEFINE g == [Top EXCEPT !.i = @ + 1]
<1>1. Top \in FrameSet /\ CallOK(Top) /\ Top.i \in Nat \ {0} /\ Len(Top.list) \in Nat
  BY TopFacts
<1>2. /\ g \in FrameSet /\ g.dir = Top.dir /\ g.cwd = Top.cwd
      /\ g.loop = Top.loop /\ g.i = Top.i + 1 /\ g.list = Top.list /\ g.left = Top.left
  BY SMTT(30), <1>1 DEF FrameSet
<1>3. Top.i \in 1 .. Len(Top.list)
  BY <1>1 DEF AtEnd
<1> HIDE DEF g, Top
<1>4. CallOK(g)
  BY <1>1, <1>2, <1>3 DEF CallOK
<1>5. Advanced = Become(g)
  BY DEF Advanced, g
<1>6. /\ StackOK(Become(g)) /\ Len(Become(g)) = Len(stack) /\ Become(g) # <<>>
      /\ \A j \in 0 .. Len(stack) : Dir(Become(g), j) = Dir(stack, j)
  BY <1>2, <1>4, StackBecame
<1>7. /\ Become(g)[Len(Become(g))] = g
      /\ \A j \in 1 .. Len(stack) : j # Len(stack) => Become(g)[j] = stack[j]
  BY <1>2, Became
<1> HIDE DEF Advanced, Become
<1> QED BY <1>2, <1>4, <1>5, <1>6, <1>7 DEF g

\* The call becomes g: its directory stays, and so do those of the others.
Rewrites(g) ==
    /\ g \in FrameSet /\ CallOK(g) /\ g.dir = Top.dir /\ g.cwd = Top.cwd
    /\ stack' = Become(g)

\* Then nothing else of the stack changes.
LEMMA Rewritten ==
  ASSUME Walk, stack # <<>>, NEW g, Rewrites(g)
  PROVE  /\ StackOK(stack') /\ Len(stack') = Len(stack) /\ stack' # <<>>
         /\ stack'[Len(stack)] = g
         /\ \A j \in 0 .. Len(stack) : Dir(stack', j) = Dir(stack, j)
         /\ \A j \in 1 .. Len(stack) : j # Len(stack) => stack'[j] = stack[j]
<1>1. g \in FrameSet /\ CallOK(g) /\ g.dir = Top.dir /\ g.cwd = Top.cwd /\ stack' = Become(g)
  BY DEF Rewrites
<1> HIDE DEF Become, Top
<1>2. /\ StackOK(Become(g)) /\ Len(Become(g)) = Len(stack) /\ Become(g) # <<>>
      /\ \A j \in 0 .. Len(stack) : Dir(Become(g), j) = Dir(stack, j)
  BY <1>1, StackBecame
<1>3. /\ Become(g)[Len(Become(g))] = g
      /\ \A j \in 1 .. Len(stack) : j # Len(stack) => Become(g)[j] = stack[j]
  BY <1>1, Became
<1> QED BY <1>1, <1>2, <1>3

\* An entry that is read goes from what is left to the list, or is left out.
LEMMA Reading ==
  ASSUME Walk, Intact, ReadEntry
  PROVE  /\ stack # <<>> /\ Top.loop = "list"
         /\ UNCHANGED <<job, arg, phase, cwd, cur_depth, open, sub_dirs, tally, total, hash, lines>>
         /\ stb' \in Nat
         /\ \E g : Rewrites(g) /\ g.loop = "list" /\ g.i = 1
<1>1. stack # <<>> /\ Top.loop = "list" /\ Top.left # {}
  BY DEF ReadEntry, In
<1>2. /\ Top \in FrameSet /\ CallOK(Top) /\ cwd = Top.dir /\ Top.dir \in DOMAIN fs.entries
      /\ Top.left \subseteq Nat /\ Top.list \in Seq(Nat) /\ FileSystemOK(fs) /\ stb \in Nat
      /\ Top.i = 1 /\ Top.left \subseteq {Dot} \cup DOMAIN fs.entries[Top.dir]
  <2>1. Top \in FrameSet /\ CallOK(Top) /\ cwd = Top.dir /\ Top.dir \in DOMAIN fs.entries
        /\ Top.left \subseteq Nat /\ Top.list \in Seq(Nat)
    BY <1>1, TopFacts
  <2>2. FileSystemOK(fs) /\ stb \in Nat
    BY DEF Walk
  <2> HIDE DEF Top
  <2> QED BY <1>1, <2>1, <2>2 DEF CallOK
<1> DEFINE name == CHOOSE m \in Top.left : \A o \in Top.left : fs.place[m] <= fs.place[o]
           n == Stat(name)
           list == IF Listed(name, n) THEN Append(Top.list, name) ELSE Top.list
           g == [Top EXCEPT !.left = @ \ {name},
                            !.list = IF Listed(name, n) THEN Append(@, name) ELSE @]
<1>3. name \in Top.left
  <2> DEFINE P == {fs.place[m] : m \in Top.left}
  <2>1. P \in SUBSET Nat /\ P # {}
    BY <1>1, <1>2 DEF FileSystemOK
  <2>2. PICK p \in P : \A q \in P : p <= q
    <3> HIDE DEF P
    <3> QED BY <2>1, Least
  <2>3. \E m \in Top.left : \A o \in Top.left : fs.place[m] <= fs.place[o]
    BY <2>2
  <2> QED BY <2>3, Zenon
<1>4. /\ stb' = (IF Figures \/ name = Dot THEN stb ELSE n)
      /\ stack' = Become(g)
      /\ UNCHANGED <<job, arg, phase, cwd, cur_depth, open, sub_dirs, tally, total, hash, lines>>
  BY DEF ReadEntry
<1> HIDE DEF name, Top
<1>5. name \in Nat /\ n = Lookup(Top.dir, name) /\ n \in Nat
  <2>1. name \in {Dot} \cup DOMAIN fs.entries[Top.dir]
    BY <1>2, <1>3
  <2>2. Lookup(Top.dir, name) \in DOMAIN fs.dev \ {NONE} /\ Lookup(Top.dir, name) \in Nat
    BY <1>2, <2>1, LookedUp
  <2> QED BY <1>2, <1>3, <2>2 DEF Stat
<1>6. /\ g \in FrameSet /\ g.dir = Top.dir /\ g.cwd = Top.cwd /\ g.i = 1 /\ g.loop = "list"
      /\ g.left = Top.left \ {name} /\ g.list = list
  <2>1. list \in Seq(Nat)
    BY <1>2, <1>5
  <2> HIDE DEF list
  <2>2. g = [Top EXCEPT !.left = Top.left \ {name}, !.list = list]
    BY DEF list
  <2> HIDE DEF g
  <2> QED BY <1>1, <1>2, <2>1, <2>2 DEF FrameSet
<1>7. Range(list) = Kept(Top.dir) \ (Top.left \ {name}) /\ IsInjective(list)
  <2>1. Range(Top.list) = Kept(Top.dir) \ Top.left /\ IsInjective(Top.list)
    BY <1>2 DEF CallOK
  <2>2. Listed(name, n) <=> name \in Kept(Top.dir)
    BY <1>2, <1>3, <1>5 DEF Kept
  <2>3. CASE ~Listed(name, n)
    BY <2>1, <2>2, <2>3
  <2>4. CASE Listed(name, n)
    <3> DEFINE s == Top.list
               t == Append(s, name)
    <3>1. s \in Seq(Nat) /\ Len(s) \in Nat /\ DOMAIN s = 1 .. Len(s)
      BY <1>2
    <3>2. /\ Len(t) = Len(s) + 1 /\ DOMAIN t = 1 .. (Len(s) + 1) /\ t[Len(s) + 1] = name
          /\ \A k \in 1 .. Len(s) : t[k] = s[k]
      <4> HIDE DEF s
      <4>1. t \in Seq(Nat) /\ Len(t) = Len(s) + 1 /\ t[Len(s) + 1] = name
            /\ \A k \in 1 .. Len(s) : t[k] = s[k]
        BY <1>5, <3>1, AppendProperties
      <4> HIDE DEF t
      <4> QED BY <4>1
    <3> HIDE DEF s, t
    <3>3. name \notin Range(s)
      BY <1>3, <2>1 DEF s
    <3>4. Range(t) = Range(s) \cup {name}
      BY <3>1, <3>2 DEF Range
    <3>5. IsInjective(t)
      <4>1. \A k, l \in 1 .. Len(s) : s[k] = s[l] => k = l
        BY <2>1, <3>1 DEF s, IsInjective
      <4>2. \A k \in 1 .. Len(s) : s[k] # name
        BY <3>1, <3>3 DEF Range
      <4>3. \A k, l \in 1 .. (Len(s) + 1) : t[k] = t[l] => k = l
        BY <3>1, <3>2, <4>1, <4>2
      <4> QED BY <3>2, <4>3 DEF IsInjective
    <3>6. list = t
      BY <2>4 DEF s, t
    <3>7. Range(s) = Kept(Top.dir) \ Top.left
      BY <2>1 DEF s
    <3> HIDE DEF list
    <3> QED BY <1>3, <2>2, <2>4, <3>4, <3>5, <3>6, <3>7
  <2> QED BY <2>3, <2>4
<1> HIDE DEF g, list
<1>8. CallOK(g)
  BY <1>2, <1>6, <1>7 DEF CallOK
<1>9. stb' \in Nat
  BY <1>2, <1>4, <1>5
<1>10. Rewrites(g)
  BY <1>4, <1>6, <1>8 DEF Rewrites
<1> QED BY <1>1, <1>4, <1>6, <1>9, <1>10

\* At the end of its directory a call begins to count, or to descend at once.
LEMMA EndingList ==
  ASSUME Walk, EndList
  PROVE  /\ stack # <<>> /\ Top.loop = "list"
         /\ UNCHANGED <<job, arg, phase, cwd, cur_depth, open, stb, tally, total, hash, lines>>
         /\ sub_dirs' = IF opts.visual THEN [sub_dirs EXCEPT ![cur_depth] = @ + Len(Top.list)]
                        ELSE sub_dirs
         /\ \E g : /\ Rewrites(g) /\ g.loop = (IF Figures THEN "count" ELSE "descend")
                   /\ g.i = 1 /\ Len(g.list) = Len(Top.list)
<1>1. stack # <<>> /\ Top.loop = "list" /\ Top.left = {}
  BY DEF EndList, In
<1>2. /\ Top \in FrameSet /\ CallOK(Top) /\ Top.list \in Seq(Nat) /\ Len(Top.list) \in Nat
  BY <1>1, TopFacts
<1> DEFINE list == IF opts.sort THEN Sorted(Top.list) ELSE Top.list
           loop == IF Figures THEN "count" ELSE "descend"
           g == [Top EXCEPT !.list = list, !.loop = loop]
<1>3. /\ stack' = Become(g)
      /\ UNCHANGED <<job, arg, phase, cwd, cur_depth, open, stb, tally, total, hash, lines>>
      /\ sub_dirs' = IF opts.visual THEN [sub_dirs EXCEPT ![cur_depth] = @ + Len(Top.list)]
                     ELSE sub_dirs
  BY DEF EndList
<1> HIDE DEF Top
<1>4. /\ list \in Seq(Nat) /\ Range(list) = Range(Top.list) /\ IsInjective(list)
      /\ Len(list) = Len(Top.list)
  <2>1. IsInjective(Top.list)
    BY <1>2 DEF CallOK
  <2>2. Sorted(Top.list) \in Like(Top.list)
    BY <1>2, <2>1, SortedOrders
  <2>3. Range(Top.list) \subseteq Nat
    BY <1>2 DEF Range
  <2>4. CASE opts.sort
    <3>1. list \in Seq(Range(Top.list)) /\ Range(list) = Range(Top.list) /\ IsInjective(list)
          /\ Len(list) = Len(Top.list)
      BY <2>2, <2>4 DEF Like, Orderings
    <3> HIDE DEF list
    <3>2. list \in Seq(Nat)
      BY <2>3, <3>1
    <3> QED BY <3>1, <3>2
  <2>5. CASE ~opts.sort
    BY <1>2, <2>1, <2>5
  <2> QED BY <2>4, <2>5
<1> HIDE DEF list
<1>5. /\ g \in FrameSet /\ g.dir = Top.dir /\ g.cwd = Top.cwd /\ g.i = Top.i /\ g.loop = loop
      /\ g.left = Top.left /\ g.list = list
  BY <1>2, <1>4 DEF FrameSet
<1>6. Top.i = 1
  BY <1>1, <1>2 DEF CallOK
<1> HIDE DEF g
<1>7. CallOK(g)
  BY <1>1, <1>2, <1>4, <1>5, <1>6 DEF CallOK
<1>8. Rewrites(g)
  BY <1>3, <1>5, <1>7 DEF Rewrites
<1> QED BY <1>1, <1>3, <1>4, <1>5, <1>6, <1>8

\* A file that is met in the loop that counts.
LEMMA Counting ==
  ASSUME Walk, Intact, CountEntry
  PROVE  LET n == Lookup(Top.dir, Entry)
             entered == h_enter(hash, fs.dev[n], fs.ino[n])
         IN  /\ stack # <<>> /\ Top.loop = "count" /\ ~AtEnd
             /\ n \in DOMAIN fs.dev \ {NONE} /\ n \in Nat /\ stb' = n
             /\ Entry \in Kept(Top.dir)
             /\ UNCHANGED <<job, arg, phase, cwd, cur_depth, open, sub_dirs, total, lines>>
             /\ stack' = Advanced
             /\ IF n \in DOMAIN fs.entries THEN UNCHANGED <<hash, tally>>
                ELSE /\ hash' = entered.h
                     /\ tally' = IF entered.old /\ ~opts.duplicates THEN tally
                                 ELSE With(tally, n)
<1>1. stack # <<>> /\ Top.loop = "count" /\ ~AtEnd
  BY DEF CountEntry, In
<1>2. /\ Stat(Entry) = Lookup(Top.dir, Entry) /\ Entry \in Kept(Top.dir)
      /\ Lookup(Top.dir, Entry) \in DOMAIN fs.dev \ {NONE} /\ Lookup(Top.dir, Entry) \in Nat
  BY <1>1, EntryFacts
<1>3. stb' = Lookup(Top.dir, Entry)
  BY <1>2 DEF CountEntry
<1> QED BY <1>1, <1>2, <1>3 DEF CountEntry, IsDir

\* What is printed at the end of that loop, or at the end of a call.
Prints(printing) ==
    IF printing THEN PrintFigures ELSE UNCHANGED <<lines, total, tally>>

\* The end of the loop that counts: the loop that descends begins.
LEMMA EndingCount ==
  ASSUME Walk, EndCount
  PROVE  /\ stack # <<>> /\ Top.loop = "count" /\ AtEnd /\ Figures
         /\ UNCHANGED <<job, arg, phase, cwd, cur_depth, open, stb, sub_dirs, hash>>
         /\ Prints(cur_depth < opts.depth)
         /\ \E g : Rewrites(g) /\ g.loop = "descend" /\ g.i = 1 /\ g.list = Top.list
<1>1. stack # <<>> /\ Top.loop = "count" /\ AtEnd
  BY DEF EndCount, In
<1>2. /\ Top \in FrameSet /\ CallOK(Top) /\ Top.list \in Seq(Nat) /\ Len(Top.list) \in Nat
  BY <1>1, TopFacts
<1> DEFINE g == [Top EXCEPT !.i = 1, !.loop = "descend"]
<1>3. /\ stack' = Become(g)
      /\ UNCHANGED <<job, arg, phase, cwd, cur_depth, open, stb, sub_dirs, hash>>
      /\ Prints(cur_depth < opts.depth)
  BY DEF EndCount, Loop, Prints
<1> HIDE DEF Top
<1>4. /\ g \in FrameSet /\ g.dir = Top.dir /\ g.cwd = Top.cwd /\ g.i = 1 /\ g.loop = "descend"
      /\ g.left = Top.left /\ g.list = Top.list
  <2> DEFINE h == [Top EXCEPT !.loop = "descend"]
  <2>1. /\ h \in FrameSet /\ h.dir = Top.dir /\ h.cwd = Top.cwd /\ h.loop = "descend"
        /\ h.left = Top.left /\ h.list = Top.list
    BY <1>2 DEF FrameSet
  <2>2. g = [h EXCEPT !.i = 1]
    BY <1>2 DEF FrameSet
  <2> HIDE DEF g, h
  <2> QED BY SMTT(30), <2>1, <2>2 DEF FrameSet
<1> HIDE DEF g
<1>5. CallOK(g)
  BY <1>1, <1>2, <1>4 DEF CallOK
<1>6. Rewrites(g)
  BY <1>3, <1>4, <1>5 DEF Rewrites
<1>7. Figures
  BY <1>1, <1>2 DEF CallOK
<1> QED BY <1>1, <1>3, <1>4, <1>6, <1>7

\* The end of down(): its caller goes on.
LEMMA Leaving ==
  ASSUME Walk, Leave
  PROVE  /\ stack # <<>> /\ Top.loop = "descend" /\ AtEnd
         /\ UNCHANGED <<job, arg, phase, open, stb, hash>>
         /\ Prints(Figures /\ cur_depth = opts.depth)
         /\ sub_dirs' = [sub_dirs EXCEPT ![cur_depth] = 0]
         /\ stack' = Front(stack) /\ cur_depth' = cur_depth - 1 /\ cwd' = Top.cwd
BY DEF Leave, In, Prints

\* Printing figures, or not, leaves figures in the counters and well-formed lines.
LEMMA PrintsOK ==
  ASSUME Lines, Walk, job' = job, NEW printing, Prints(printing)
  PROVE  tally' \in FigureSet /\ total' \in FigureSet /\ LinesOK(lines')
<1>1. tally \in FigureSet /\ total \in FigureSet /\ LinesOK(lines)
  BY DEF Walk, LinesOK
<1>2. CASE ~printing
  BY <1>1, <1>2 DEF Prints
<1>3. CASE printing
  <2> DEFINE e == [kind |-> "figures", figures |-> tally]
  <2>1. lines' = Append(lines, e) /\ total' = Plus(total, tally) /\ tally' = Zero
    BY <1>3 DEF Prints, PrintFigures
  <2>2. LineOK(e)
    BY <1>1 DEF LineOK
  <2> HIDE DEF e
  <2>3. LinesOK(Append(lines, e))
    BY <1>1, <2>2, OneLineMore DEF Lines
  <2> QED BY <1>1, <2>1, <2>3, SumFigures
<1> QED BY <1>2, <1>3

\* A step of the walk below an argument leaves the walk where its stack says.
LEMMA WalkingOn ==
  ASSUME Walk, phase \in {"inspect", "walk"}, phase' = "walk", job' = job, arg' = arg,
         StackOK(stack'), cur_depth' = Len(stack'), open' \in Len(stack') .. MaxOpen,
         cwd' = Dir(stack', Len(stack')), stb' \in Nat, tally' \in FigureSet,
         total' \in FigureSet, LinesOK(lines')
  PROVE  Walk'
<1>1. StackOK(stack)'
  BY SameStackOK, SameJob, SameKept DEF StackOK, FrameOK, Dir
<1>2. /\ FileSystemOK(fs)' /\ (args \in Seq(Nat))' /\ (opts \in Options)' /\ Targets' = Targets
  BY SameJob DEF Walk, FileSystemOK
<1>3. \A k \in 1 .. Len(lines') : LineOK(lines[k])'
  BY SameJob DEF LinesOK, LineOK
<1>4. /\ (cwd = Dir(stack, Len(stack)))'
  BY DEF Dir
<1>5. arg' \in 0 .. Len(Targets') /\ arg' # 0
  BY <1>2 DEF Walk
<1> QED BY <1>1, <1>2, <1>3, <1>4, <1>5 DEF Walk

\* Inv: the walk is where its stack says, after every step that leaves it intact.
LEMMA WalkNext ==
  ASSUME Lines, Walk, Intact, Next, Intact'
  PROVE  Walk'
<1>1. job' = job
  BY Printing
<1>2. /\ stb \in Nat /\ tally \in FigureSet /\ total \in FigureSet /\ LinesOK(lines)
      /\ StackOK(stack) /\ cur_depth = Len(stack) /\ open \in Len(stack) .. MaxOpen
      /\ cwd = Dir(stack, Len(stack)) /\ Len(stack) \in Nat
  BY DEF Walk, LinesOK, StackOK
<1>3. stack # <<>> => phase = "walk"
  BY DEF Walk
<1>4. CASE NextTarget
  <2>1. /\ Len(Targets) \in Nat /\ arg \in Nat /\ stack = <<>> /\ Targets' = Targets
        /\ phase = "next"
    BY <1>1, <1>4, TargetList, SameJob DEF Walk, NextTarget
  <2>2. StackOK(stack')
    BY <1>2, <1>4 DEF NextTarget
  <2>3. StackOK(stack)'
    BY <1>1, <2>2, SameStackOK, SameJob, SameKept DEF StackOK, FrameOK, Dir
  <2>4. /\ FileSystemOK(fs)' /\ (args \in Seq(Nat))' /\ (opts \in Options)'
    BY <1>1, SameJob DEF Walk, FileSystemOK
  <2>5. \A k \in 1 .. Len(lines') : LineOK(lines[k])'
    BY <1>1, <1>2, <1>4, SameJob DEF LinesOK, LineOK, NextTarget
  <2>6. /\ arg' = arg + 1 /\ arg < Len(Targets) /\ phase' = "inspect" /\ cur_depth' = 0
        /\ stack' = <<>> /\ cwd' = topdir /\ open' = open /\ stb' = stb /\ tally' = Zero
        /\ total' = total
    BY <1>4, <2>1 DEF NextTarget
  <2>7. Zero \in FigureSet
    BY DEF Zero, FigureSet
  <2>8. (cwd = Dir(stack, Len(stack)))' /\ (cur_depth = Len(stack))'
        /\ open' \in Len(stack') .. MaxOpen
    BY <1>2, <2>1, <2>6 DEF Dir
  <2> QED BY <1>2, <2>1, <2>3, <2>4, <2>5, <2>6, <2>7, <2>8 DEF Walk
<1>5. CASE Inspect
  <2> DEFINE n == Lookup(topdir, Targets[arg])
  <2>1. /\ n \in DOMAIN fs.dev /\ n \in Nat /\ stack = <<>> /\ cwd = topdir /\ cur_depth = 0
        /\ Visits(n, <<>>) /\ phase = "inspect" /\ phase' = "walk"
        /\ UNCHANGED <<arg, total>>
    BY <1>1, <1>5, Inspecting
  <2>2. StackOK(<<>>) /\ Len(<<>>) = 0 /\ Dir(<<>>, 0) = topdir
    BY <1>2, <2>1 DEF Dir
  <2> HIDE DEF n
  <2>3. /\ StackOK(stack') /\ cur_depth' = Len(stack') /\ open' \in Len(stack') .. MaxOpen
        /\ cwd' = Dir(stack', Len(stack')) /\ stb' \in Nat /\ tally' \in FigureSet
        /\ LinesOK(lines')
    BY <1>1, <2>1, <2>2, VisitOK
  <2> QED BY <1>1, <1>2, <2>1, <2>3, WalkingOn
<1>6. CASE Inspected
  <2>1. Plus(total, tally) \in FigureSet
    BY <1>2, SumFigures
  <2>2. /\ phase = "walk" /\ phase' = "next" /\ stack = <<>> /\ stack' = stack
        /\ total' = Plus(total, tally)
        /\ UNCHANGED <<job, arg, walk, stb, tally, lines>>
    BY <1>6 DEF Inspected, walk
  <2>3. UNCHANGED <<fs, args, opts, Targets, stack, cwd, cur_depth, open, arg, stb, tally, lines>>
    BY <2>2, <1>1, SameJob DEF walk
  <2>4. StackOK(stack)'
    BY <1>1, <1>2, <2>3, SameStackOK, SameJob, SameKept DEF StackOK, FrameOK, Dir
  <2> QED BY <2>1, <2>2, <2>3, <2>4 DEF Walk, FileSystemOK, LineOK, Dir
<1>7. CASE Summary
  <2>2. /\ phase = "next" /\ phase' = "done" /\ arg = Len(Targets)
        /\ UNCHANGED <<job, arg, walk, stb, tally, total, lines>>
    BY <1>7 DEF Summary
  <2>3. UNCHANGED <<fs, args, opts, Targets, stack, cwd, cur_depth, open, arg, stb, tally, total,
                    lines>>
    BY <2>2, <1>1, SameJob DEF walk
  <2>4. StackOK(stack)'
    BY <1>1, <1>2, <2>3, SameStackOK, SameJob, SameKept DEF StackOK, FrameOK, Dir
  <2> QED BY <2>2, <2>3, <2>4 DEF Walk, FileSystemOK, LineOK, Dir
<1>8. CASE ReadEntry
  <2>1. /\ stack # <<>> /\ stb' \in Nat
        /\ UNCHANGED <<arg, phase, cwd, cur_depth, open, tally, total, lines>>
        /\ \E g : Rewrites(g)
    BY <1>8, Reading
  <2>2. /\ StackOK(stack') /\ Len(stack') = Len(stack)
        /\ \A j \in 0 .. Len(stack) : Dir(stack', j) = Dir(stack, j)
    BY <2>1, Rewritten
  <2> QED BY <1>1, <1>2, <1>3, <2>1, <2>2, WalkingOn
<1>9. CASE EndList
  <2>1. /\ stack # <<>>
        /\ UNCHANGED <<arg, phase, cwd, cur_depth, open, stb, tally, total, lines>>
        /\ \E g : Rewrites(g)
    BY <1>9, EndingList
  <2>2. /\ StackOK(stack') /\ Len(stack') = Len(stack)
        /\ \A j \in 0 .. Len(stack) : Dir(stack', j) = Dir(stack, j)
    BY <2>1, Rewritten
  <2> QED BY <1>1, <1>2, <1>3, <2>1, <2>2, WalkingOn
<1>10. CASE CountEntry
  <2> DEFINE n == Lookup(Top.dir, Entry)
  <2>1. /\ stack # <<>> /\ Top.loop = "count" /\ ~AtEnd /\ n \in DOMAIN fs.dev /\ stb' = n
        /\ n \in Nat
        /\ UNCHANGED <<arg, phase, cwd, cur_depth, open, total, lines>>
        /\ stack' = Advanced
        /\ tally' = tally \/ tally' = With(tally, n)
    BY <1>10, Counting
  <2>2. FileSystemOK(fs)
    BY DEF Walk
  <2> HIDE DEF n
  <2>3. tally' \in FigureSet
    BY <1>2, <2>1, <2>2, MoreFigures
  <2>4. /\ StackOK(stack') /\ Len(stack') = Len(stack)
        /\ \A j \in 0 .. Len(stack) : Dir(stack', j) = Dir(stack, j)
    BY <2>1, AdvancedOK
  <2> QED BY <1>1, <1>2, <1>3, <2>1, <2>3, <2>4, WalkingOn
<1>11. CASE EndCount
  <2>1. /\ stack # <<>>
        /\ UNCHANGED <<arg, phase, cwd, cur_depth, open, stb>>
        /\ \E g : Rewrites(g)
        /\ \E p : Prints(p)
    BY <1>11, EndingCount
  <2>2. /\ StackOK(stack') /\ Len(stack') = Len(stack)
        /\ \A j \in 0 .. Len(stack) : Dir(stack', j) = Dir(stack, j)
    BY <2>1, Rewritten
  <2>3. tally' \in FigureSet /\ total' \in FigureSet /\ LinesOK(lines')
    BY <1>1, <2>1, PrintsOK
  <2> QED BY <1>1, <1>2, <1>3, <2>1, <2>2, <2>3, WalkingOn
<1>12. CASE Descend
  <2> DEFINE n == Lookup(Top.dir, Entry)
  <2>1. /\ stack # <<>> /\ Top.loop = "descend" /\ ~AtEnd /\ n \in DOMAIN fs.dev /\ n \in Nat
        /\ UNCHANGED <<arg, phase, total>>
        /\ \/ stack' = Advanced /\ UNCHANGED <<stb, tally, cwd, cur_depth, open, lines>>
           \/ Visits(n, Advanced)
    BY <1>1, <1>12, Descending
  <2>2. /\ StackOK(Advanced) /\ Len(Advanced) = Len(stack) /\ Advanced # <<>>
        /\ \A j \in 0 .. Len(stack) : Dir(Advanced, j) = Dir(stack, j)
        /\ Advanced[Len(stack)].loop = "descend" /\ Advanced[Len(stack)].i # 1
    <3>1. Top.i \in Nat \ {0}
      BY <2>1, TopFacts
    <3> DEFINE g == [Top EXCEPT !.i = @ + 1]
    <3>2. /\ g.loop = Top.loop /\ g.i = Top.i + 1
          /\ StackOK(Advanced) /\ Len(Advanced) = Len(stack) /\ Advanced # <<>>
          /\ \A j \in 0 .. Len(stack) : Dir(Advanced, j) = Dir(stack, j)
          /\ Advanced[Len(stack)] = g
      <4> HIDE DEF Advanced, Top
      <4> QED BY <2>1, AdvancedOK
    <3> HIDE DEF Advanced, Top, g
    <3> QED BY <2>1, <3>1, <3>2
  <2> HIDE DEF n, Advanced, Visits
  <2>3. CASE stack' = Advanced /\ UNCHANGED <<stb, tally, cwd, cur_depth, open, lines>>
    BY <1>1, <1>2, <1>3, <2>1, <2>2, <2>3, WalkingOn
  <2>4. CASE Visits(n, Advanced)
    <3>1. cwd = Dir(Advanced, Len(Advanced)) /\ Len(Advanced) = cur_depth
      BY <1>2, <2>2
    <3>2. /\ StackOK(stack') /\ cur_depth' = Len(stack') /\ open' \in Len(stack') .. MaxOpen
          /\ cwd' = Dir(stack', Len(stack')) /\ stb' \in Nat /\ tally' \in FigureSet
          /\ LinesOK(lines')
      BY <1>1, <2>1, <2>2, <2>4, <3>1, VisitOK
    <3> QED BY <1>1, <1>2, <1>3, <2>1, <3>2, WalkingOn
  <2> QED BY <2>1, <2>3, <2>4
<1>13. CASE Leave
  <2>1. /\ stack # <<>> /\ UNCHANGED <<arg, phase, open, stb>>
        /\ \E p : Prints(p)
        /\ stack' = Front(stack) /\ cur_depth' = cur_depth - 1 /\ cwd' = Top.cwd
    BY <1>13, Leaving
  <2>2. /\ StackOK(stack') /\ Len(stack') = Len(stack) - 1
        /\ Dir(stack', Len(stack) - 1) = Top.cwd
    BY <2>1, StackPopped
  <2>3. tally' \in FigureSet /\ total' \in FigureSet /\ LinesOK(lines')
    BY <1>1, <2>1, PrintsOK
  <2> HIDE DEF Top
  <2>4. open' \in Len(stack') .. MaxOpen /\ cwd' = Dir(stack', Len(stack'))
        /\ cur_depth' = Len(stack')
    BY <1>2, <2>1, <2>2
  <2> QED BY <1>1, <1>2, <1>3, <2>1, <2>2, <2>3, <2>4, WalkingOn
<1> QED BY <1>4, <1>5, <1>6, <1>7, <1>8, <1>9, <1>10, <1>11, <1>12, <1>13 DEF Next

Inv == Lines /\ (Intact => Walk)

\* The walk is where its stack says when vtree starts,
LEMMA WalkBegins ==
  ASSUME Init
  PROVE  Lines /\ Walk
<1>1. PICK j \in Jobs : fs = j.fs /\ args = j.args /\ opts = j.opts
  BY DEF Init
<1>2. FileSystemOK(fs) /\ args \in Seq(Nat) /\ opts \in Options /\ MaxOpen \in Nat
  BY <1>1, VtreeAssumption
<1>3. /\ stack = <<>> /\ lines = <<>> /\ arg = 0 /\ phase = "next" /\ cwd = topdir
      /\ cur_depth = 0 /\ open = 0 /\ stb = NONE /\ tally = Zero /\ total = Zero
  BY DEF Init
<1>4. Len(Targets) \in Nat
  <2>1. CASE args = <<>>
    <3>1. Targets = <<Dot>>
      BY <2>1 DEF Targets
    <3> QED BY <3>1
  <2>2. CASE args # <<>>
    BY <1>2, <2>2 DEF Targets
  <2> QED BY <2>1, <2>2
<1>5. StackOK(stack) /\ Len(stack) = 0 /\ Dir(stack, 0) = topdir
  BY <1>3 DEF StackOK, Dir
<1>6. Zero \in FigureSet /\ stb \in Nat
  BY <1>3 DEF Zero, FigureSet, NONE
<1>7. Lines
  BY <1>3 DEF Lines
<1> QED BY <1>2, <1>3, <1>4, <1>5, <1>6, <1>7 DEF Walk

\* and when nothing happens.
LEMMA WalkUnchanged ==
  ASSUME Walk, UNCHANGED vars
  PROVE  Walk'
<1>1. UNCHANGED <<fs, args, opts, arg, phase, stack, cwd, cur_depth, open, stb, tally, total,
                  lines>> /\ job' = job
  BY DEF vars, walk, job
<1>2. StackOK(stack)'
  BY <1>1, SameStackOK, SameJob, SameKept DEF Walk, StackOK, FrameOK, Dir
<1>3. Targets' = Targets
  BY <1>1, SameJob
<1> QED BY <1>1, <1>2, <1>3 DEF Walk, FileSystemOK, LineOK, Dir

\* In every state of a walk that is intact, its variables agree: the current directory and
\* the depth are those of the call that is running, and every call has in its list what
\* it has read of its directory (down at src/vtree.c:371).
THEOREM WalkAgrees == Spec => []Inv
<1>1. Init => Inv
  BY WalkBegins DEF Inv
<1>2. Inv /\ [Next]_vars => Inv'
  <2> SUFFICES ASSUME Inv, [Next]_vars PROVE Inv'
    OBVIOUS
  <2>1. Lines /\ Lines'
    BY Printing DEF Inv
  <2>2. ASSUME Intact'
        PROVE  Walk'
    <3>1. Intact /\ Walk
      BY <2>1, <2>2, IntactBefore DEF Inv
    <3>2. CASE Next
      BY <2>1, <2>2, <3>1, <3>2, WalkNext
    <3>3. CASE UNCHANGED vars
      BY <3>1, <3>3, WalkUnchanged
    <3> QED BY <3>2, <3>3
  <2> QED BY <2>1, <2>2 DEF Inv
<1> QED BY <1>1, <1>2, PTL DEF Spec

-----------------------------------------------------------------------------
(* The tree that is drawn *)

\* The first name behind line k of s at level i or above is in line m, and there is none.
Closes(s, k, i, m) ==
    /\ m \in (k + 1) .. Len(s) /\ s[m].kind = "name" /\ s[m].level <= i
    /\ \A l \in (k + 1) .. (m - 1) : s[l].kind = "name" => s[l].level > i
GoesOn(s, k, i) == \A m \in (k + 1) .. Len(s) : s[m].kind = "name" => s[m].level > i

\* The name of line k of s begins a line with the right bars: where a later one has decided
\* on a branch, it hangs on it if and only if there is a bar; elsewhere the directories to
\* come, left, decide.
Drawn(s, left, k) ==
    ~s[k].beside =>
        \A i \in 1 .. s[k].level :
            /\ \A m \in 1 .. Len(s) : Closes(s, k, i, m) => (s[k].bars[i] <=> s[m].level = i)
            /\ GoesOn(s, k, i) => (s[k].bars[i] <=> left[i] # 0)
AllDrawn(s, left) == \A k \in 1 .. Len(s) : s[k].kind = "name" => Drawn(s, left, k)

\* No branch is open at level i.
Decided(s, i) ==
    \A k \in 1 .. Len(s) : s[k].kind = "name" /\ s[k].level >= i => ~GoesOn(s, k, i)

LevelsOK(s) == \A k \in 1 .. Len(s) : s[k].kind = "name" => s[k].level \in 0 .. MaxOpen

\* The directories to come may change where no branch is open.
LEMMA DrawnStays ==
  ASSUME NEW s, LevelsOK(s), NEW left, AllDrawn(s, left), NEW new,
         \A i \in 1 .. MaxOpen : (new[i] # 0 <=> left[i] # 0) \/ Decided(s, i)
  PROVE  AllDrawn(s, new)
<1> SUFFICES ASSUME NEW k \in 1 .. Len(s), s[k].kind = "name", ~s[k].beside,
                    NEW i \in 1 .. s[k].level
             PROVE  /\ \A m \in 1 .. Len(s) :
                          Closes(s, k, i, m) => (s[k].bars[i] <=> s[m].level = i)
                    /\ GoesOn(s, k, i) => (s[k].bars[i] <=> new[i] # 0)
  BY DEF AllDrawn, Drawn
<1>1. i \in 1 .. MaxOpen /\ s[k].level >= i
  BY VtreeAssumption DEF LevelsOK
<1>2. /\ \A m \in 1 .. Len(s) : Closes(s, k, i, m) => (s[k].bars[i] <=> s[m].level = i)
      /\ GoesOn(s, k, i) => (s[k].bars[i] <=> left[i] # 0)
  BY DEF AllDrawn, Drawn
<1>3. GoesOn(s, k, i) => ~Decided(s, i)
  BY <1>1 DEF Decided
<1> QED BY <1>1, <1>2, <1>3

\* A line that has no name changes nothing.
LEMMA DrawnBesides ==
  ASSUME NEW s, s \in Seq(Range(s)), NEW left, AllDrawn(s, left), LevelsOK(s),
         NEW e, e.kind # "name"
  PROVE  LET t == Append(s, e)
         IN  /\ AllDrawn(t, left) /\ LevelsOK(t)
             /\ \A i \in Nat : Decided(s, i) => Decided(t, i)
<1> DEFINE S == Range(s) \cup {e}
           t == Append(s, e)
<1>1. s \in Seq(S) /\ e \in S /\ Len(s) \in Nat
  OBVIOUS
<1>2. Len(t) = Len(s) + 1 /\ t[Len(s) + 1] = e /\ \A k \in 1 .. Len(s) : t[k] = s[k]
  <2> HIDE DEF S
  <2> QED BY <1>1, AppendProperties
<1> HIDE DEF t, S
<1>3. \A k \in 1 .. Len(t) : t[k].kind = "name" => k \in 1 .. Len(s) /\ t[k] = s[k]
  BY <1>1, <1>2
<1>4. ASSUME NEW k \in 1 .. Len(s), NEW i \in Nat
      PROVE  /\ GoesOn(t, k, i) <=> GoesOn(s, k, i)
             /\ \A m : Closes(t, k, i, m) => Closes(s, k, i, m) /\ m \in 1 .. Len(s)
  <2>1. GoesOn(t, k, i) <=> GoesOn(s, k, i)
    BY <1>1, <1>2, <1>3 DEF GoesOn
  <2>2. ASSUME NEW m, Closes(t, k, i, m)
        PROVE  Closes(s, k, i, m) /\ m \in 1 .. Len(s)
    <3>1. m \in 1 .. Len(s) /\ t[m] = s[m]
      BY <1>1, <1>2, <1>3, <2>2 DEF Closes
    <3> QED BY <1>1, <1>2, <2>2, <3>1 DEF Closes
  <2> QED BY <2>1, <2>2
<1>5. LevelsOK(t)
  BY <1>3 DEF LevelsOK
<1>6. ASSUME NEW k \in 1 .. Len(t), t[k].kind = "name", ~t[k].beside,
             NEW i \in 1 .. t[k].level
      PROVE  /\ \A m \in 1 .. Len(t) :
                   Closes(t, k, i, m) => (t[k].bars[i] <=> t[m].level = i)
             /\ GoesOn(t, k, i) => (t[k].bars[i] <=> left[i] # 0)
  <2>1. k \in 1 .. Len(s) /\ t[k] = s[k] /\ i \in Nat /\ s[k].level \in Nat
    BY <1>3, <1>5, <1>6, VtreeAssumption DEF LevelsOK
  <2>2. /\ \A m \in 1 .. Len(s) : Closes(s, k, i, m) => (s[k].bars[i] <=> s[m].level = i)
        /\ GoesOn(s, k, i) => (s[k].bars[i] <=> left[i] # 0)
    BY <1>6, <2>1 DEF AllDrawn, Drawn
  <2> QED BY <1>2, <1>4, <2>1, <2>2
<1>7. AllDrawn(t, left)
  BY <1>6 DEF AllDrawn, Drawn
<1>8. ASSUME NEW i \in Nat, Decided(s, i)
      PROVE  Decided(t, i)
  BY <1>3, <1>4, <1>8 DEF Decided
<1> QED BY <1>5, <1>7, <1>8 DEF t

\* A name at level v decides on the branches at v and below.
LEMMA DrawnFurther ==
  ASSUME NEW s, s \in Seq(Range(s)), NEW left, AllDrawn(s, left), LevelsOK(s),
         NEW e, e.kind = "name", e.level \in 0 .. MaxOpen, NEW new,
         ~e.beside => \A i \in 1 .. e.level : e.bars[i] <=> new[i] # 0,
         \A i \in 1 .. MaxOpen : /\ i < e.level => (new[i] # 0 <=> left[i] # 0)
                                 /\ i = e.level => left[i] # 0
                                 /\ i > e.level => left[i] = 0
  PROVE  LET t == Append(s, e)
         IN  AllDrawn(t, new) /\ LevelsOK(t) /\ Decided(t, e.level + 1)
<1> DEFINE S == Range(s) \cup {e}
           t == Append(s, e)
           v == e.level
           last == Len(s) + 1
<1>1. s \in Seq(S) /\ e \in S /\ Len(s) \in Nat /\ v \in Nat /\ MaxOpen \in Nat
  BY VtreeAssumption
<1>2. Len(t) = last /\ t[last] = e /\ \A k \in 1 .. Len(s) : t[k] = s[k]
  <2> HIDE DEF S
  <2> QED BY <1>1, AppendProperties
<1> HIDE DEF t, S
<1>3. \A k \in 1 .. Len(t) : k = last \/ (k \in 1 .. Len(s) /\ t[k] = s[k])
  BY <1>1, <1>2
<1>4. ASSUME NEW k \in 1 .. Len(s), NEW i \in Nat
      PROVE  /\ GoesOn(t, k, i) <=> GoesOn(s, k, i) /\ v > i
             /\ \A m : Closes(t, k, i, m) =>
                   \/ Closes(s, k, i, m) /\ m \in 1 .. Len(s)
                   \/ m = last /\ GoesOn(s, k, i) /\ v <= i
  <2>1. GoesOn(t, k, i) <=> GoesOn(s, k, i) /\ v > i
    <3>1. last \in (k + 1) .. Len(t)
      BY <1>1, <1>2
    <3>2. GoesOn(t, k, i) => v > i /\ GoesOn(s, k, i)
      BY <1>1, <1>2, <3>1 DEF GoesOn
    <3>3. GoesOn(s, k, i) /\ v > i => GoesOn(t, k, i)
      BY <1>1, <1>2 DEF GoesOn
    <3> QED BY <3>2, <3>3
  <2>2. ASSUME NEW m, Closes(t, k, i, m)
        PROVE  \/ Closes(s, k, i, m) /\ m \in 1 .. Len(s)
               \/ m = last /\ GoesOn(s, k, i) /\ v <= i
    <3>1. CASE m = last
      BY <1>1, <1>2, <2>2, <3>1 DEF Closes, GoesOn
    <3>2. CASE m # last
      <4>1. m \in 1 .. Len(s) /\ t[m] = s[m]
        <5>1. m \in (k + 1) .. Len(t)
          BY <2>2 DEF Closes
        <5>2. m \in 1 .. Len(s)
          BY <1>1, <1>2, <3>2, <5>1
        <5> QED BY <1>2, <5>2
      <4> QED BY <1>1, <1>2, <2>2, <4>1 DEF Closes
    <3> QED BY <3>1, <3>2
  <2> QED BY <2>1, <2>2
<1>5. LevelsOK(t)
  BY <1>2, <1>3 DEF LevelsOK
<1>6. ASSUME NEW k \in 1 .. Len(t), t[k].kind = "name", ~t[k].beside,
             NEW i \in 1 .. t[k].level
      PROVE  /\ \A m \in 1 .. Len(t) :
                   Closes(t, k, i, m) => (t[k].bars[i] <=> t[m].level = i)
             /\ GoesOn(t, k, i) => (t[k].bars[i] <=> new[i] # 0)
  <2>1. i \in 1 .. MaxOpen /\ i \in Nat
    BY <1>1, <1>5, <1>6 DEF LevelsOK
  <2>2. CASE k = last
    <3>1. t[k].bars[i] <=> new[i] # 0
      BY <1>2, <1>6, <2>2
    <3>2. \A m : ~Closes(t, k, i, m)
      BY <1>1, <1>2, <2>2 DEF Closes
    <3> QED BY <3>1, <3>2
  <2>3. CASE k # last
    <3>1. k \in 1 .. Len(s) /\ t[k] = s[k] /\ s[k].kind = "name"
      BY <1>3, <1>6, <2>3
    <3>2. /\ \A m \in 1 .. Len(s) : Closes(s, k, i, m) => (s[k].bars[i] <=> s[m].level = i)
          /\ GoesOn(s, k, i) => (s[k].bars[i] <=> left[i] # 0)
      BY <1>6, <3>1 DEF AllDrawn, Drawn
    <3>3. ASSUME NEW m \in 1 .. Len(t), Closes(t, k, i, m)
          PROVE  t[k].bars[i] <=> t[m].level = i
      <4>1. CASE Closes(s, k, i, m) /\ m \in 1 .. Len(s)
        BY <1>2, <3>1, <3>2, <4>1
      <4>2. CASE m = last /\ GoesOn(s, k, i) /\ v <= i
        <5>1. t[m].level = v
          BY <1>2, <4>2
        <5>2. t[k].bars[i] <=> left[i] # 0
          BY <3>1, <3>2, <4>2
        <5>3. left[i] # 0 <=> v = i
          BY <1>1, <2>1, <4>2
        <5> HIDE DEF v
        <5> QED BY <5>1, <5>2, <5>3
      <4> QED BY <1>4, <2>1, <3>1, <3>3, <4>1, <4>2
    <3>4. GoesOn(t, k, i) => (t[k].bars[i] <=> new[i] # 0)
      BY <1>4, <2>1, <3>1, <3>2
    <3> QED BY <3>3, <3>4
  <2> QED BY <2>2, <2>3
<1>7. AllDrawn(t, new)
  BY <1>6 DEF AllDrawn, Drawn
<1>8. Decided(t, v + 1)
  <2> SUFFICES ASSUME NEW k \in 1 .. Len(t), t[k].kind = "name", t[k].level >= v + 1
               PROVE  ~GoesOn(t, k, v + 1)
    BY DEF Decided
  <2>1. k \in 1 .. Len(s)
    BY <1>1, <1>2, <1>3
  <2> QED BY <1>1, <1>4, <2>1
<1> QED BY <1>5, <1>7, <1>8 DEF t

\* The directories that call i has to descend to.
ToCome(s, i) ==
    IF i <= Len(s) /\ s[i].loop = "descend" THEN Len(s[i].list) + 1 - s[i].i ELSE 0

Branches ==
    /\ sub_dirs \in [0 .. MaxOpen -> Int]
    /\ \A i \in 1 .. MaxOpen : sub_dirs[i] = ToCome(stack, i)
    /\ AllDrawn(lines, sub_dirs)
    /\ In("list") => Decided(lines, Len(stack))

\* The names are at levels there can be, and none is behind the last one displayed.
LEMMA WalkLevels ==
  ASSUME Walk
  PROVE  LevelsOK(lines) /\ \A i \in Nat : opts.depth <= i => Decided(lines, i)
<1>1. \A k \in 1 .. Len(lines) : LineOK(lines[k])
  BY DEF Walk
<1>2. opts.depth \in Int /\ MaxOpen \in Nat
  BY VtreeAssumption DEF Walk, Options
<1>3. LevelsOK(lines)
  BY <1>1 DEF LevelsOK, LineOK
<1> QED BY <1>1, <1>2, <1>3 DEF LineOK, Decided

\* A directory that is visited is drawn where the walk is.
LEMMA VisitDraws ==
  ASSUME Lines, Walk, NEW n \in DOMAIN fs.entries, NEW callers, Visits(n, callers),
         AllDrawn(lines, sub_dirs),
         \A i \in 1 .. MaxOpen : /\ i > cur_depth => sub_dirs[i] = 0
                                 /\ i = cur_depth => sub_dirs[i] # 0
                                 /\ i # cur_depth => sub_dirs'[i] = sub_dirs[i]
  PROVE  /\ AllDrawn(lines', sub_dirs')
         /\ Enters(n, callers) => Decided(lines', cur_depth + 1)
<1>1. cur_depth \in 0 .. MaxOpen /\ opts.depth \in Int /\ cur_depth \in Nat
  BY VtreeAssumption DEF Walk, StackOK, Options
<1>2. LevelsOK(lines) /\ \A i \in Nat : opts.depth <= i => Decided(lines, i)
  BY WalkLevels
<1> DEFINE s == Shows(n)
<1>3. AllDrawn(s, sub_dirs') /\ LevelsOK(s) /\ Decided(s, cur_depth + 1)
  <2>1. CASE cur_depth < opts.depth
    <3> DEFINE e == NameOf(n)
    <3>1. /\ e.kind = "name" /\ e.level = cur_depth
          /\ ~e.beside => \A i \in 1 .. cur_depth : e.bars[i] <=> sub_dirs'[i] # 0
      BY DEF NameOf
    <3>2. \A i \in 1 .. MaxOpen : /\ i < cur_depth => (sub_dirs'[i] # 0 <=> sub_dirs[i] # 0)
                                  /\ i = cur_depth => sub_dirs[i] # 0
                                  /\ i > cur_depth => sub_dirs[i] = 0
      BY <1>1
    <3>3. s = Append(lines, e)
      BY <2>1 DEF Shows
    <3> HIDE DEF e, s
    <3>4. LET t == Append(lines, e)
          IN  AllDrawn(t, sub_dirs') /\ LevelsOK(t) /\ Decided(t, e.level + 1)
      BY <1>1, <1>2, <3>1, <3>2, DrawnFurther DEF Lines
    <3> QED BY <3>1, <3>3, <3>4
  <2>2. CASE ~(cur_depth < opts.depth)
    <3>1. Decided(lines, cur_depth) /\ Decided(lines, cur_depth + 1)
      BY <1>1, <1>2, <2>2
    <3>2. \A i \in 1 .. MaxOpen :
              (sub_dirs'[i] # 0 <=> sub_dirs[i] # 0) \/ Decided(lines, i)
      BY <3>1
    <3>3. AllDrawn(lines, sub_dirs')
      BY <1>2, <3>2, DrawnStays
    <3> QED BY <1>2, <2>2, <3>1, <3>3 DEF Shows
  <2> QED BY <2>1, <2>2
<1>4. CASE Refused(n, callers)
  <2> DEFINE e == [kind |-> "unread", node |-> n]
  <2>1. lines' = Append(s, e) /\ e.kind # "name"
    BY <1>4 DEF Refused
  <2>2. s \in Seq(Range(s))
    BY Showing
  <2> HIDE DEF s, e
  <2>3. AllDrawn(Append(s, e), sub_dirs')
    BY <1>3, <2>1, <2>2, DrawnBesides
  <2>4. ~Enters(n, callers)
    BY <1>4 DEF Refused, Enters
  <2> QED BY <2>1, <2>3, <2>4
<1>5. CASE Enters(n, callers)
  BY <1>3, <1>5 DEF Enters
<1>6. CASE Cuts(n, callers)
  <2>1. lines' = s
    BY <1>1, <1>6 DEF Cuts, Shows
  <2>2. ~Enters(n, callers)
    BY <1>6 DEF Cuts, Enters
  <2> QED BY <1>3, <2>1, <2>2
<1> QED BY <1>4, <1>5, <1>6 DEF Visits, Passes

\* In the visual display only directories are listed.
LEMMA ListsDirectories ==
  ASSUME Walk, Intact, opts.visual, stack # <<>>
  PROVE  /\ ~Figures /\ Top.loop # "count"
         /\ \A m \in Kept(Top.dir) : m # Dot /\ Lookup(Top.dir, m) \in DOMAIN fs.entries
<1>1. CallOK(Top)
  BY TopFacts
<1> QED BY <1>1 DEF CallOK, Figures, Kept, Listed, IsDir

\* Initially no branch has been drawn.
LEMMA BranchesBegin ==
  ASSUME Init
  PROVE  Branches
<1>1. stack = <<>> /\ lines = <<>> /\ sub_dirs = [d \in 0 .. MaxOpen |-> 0]
  BY DEF Init
<1> QED BY <1>1, VtreeAssumption DEF Branches, ToCome, AllDrawn, In

\* The branches that are drawn stay right.
LEMMA BranchesNext ==
  ASSUME Lines, Walk, Intact, Next, Intact', opts.visual, Branches
  PROVE  Branches'
<1>1. job' = job
  BY Printing
<1>2. /\ cur_depth = Len(stack) /\ Len(stack) \in 0 .. MaxOpen /\ Len(stack) \in Nat
      /\ MaxOpen \in Nat /\ StackOK(stack)
  BY VtreeAssumption DEF Walk, StackOK
<1>3. /\ sub_dirs \in [0 .. MaxOpen -> Int]
      /\ \A i \in 1 .. MaxOpen : sub_dirs[i] = ToCome(stack, i)
      /\ AllDrawn(lines, sub_dirs) /\ LevelsOK(lines)
  BY WalkLevels DEF Branches
<1>4. CASE NextTarget
  <2>1. stack' = stack /\ stack = <<>> /\ lines' = lines /\ sub_dirs' = sub_dirs
    BY <1>4 DEF NextTarget, Walk
  <2> QED BY <1>3, <2>1 DEF Branches, In
<1>5. CASE Inspect
  <2> DEFINE n == Lookup(topdir, Targets[arg])
  <2>1. stack = <<>> /\ cur_depth = 0 /\ Visits(n, <<>>) /\ sub_dirs' = sub_dirs
    BY <1>1, <1>5, Inspecting
  <2>2. \A i \in 1 .. MaxOpen : sub_dirs[i] = 0
    BY <1>2, <1>3, <2>1 DEF ToCome
  <2> HIDE DEF n
  <2>3. CASE Passes(n, <<>>)
    BY <1>3, <2>1, <2>3 DEF Passes, Branches, In
  <2>4. CASE ~Passes(n, <<>>)
    <3>1. n \in DOMAIN fs.entries
      BY <2>1, <2>4 DEF Visits, Cuts, Refused, Enters
    <3>2. /\ AllDrawn(lines', sub_dirs')
          /\ Enters(n, <<>>) => Decided(lines', cur_depth + 1)
      BY <1>2, <1>3, <2>1, <2>2, <3>1, VisitDraws
    <3>3. CASE Enters(n, <<>>)
      <4> DEFINE f == NewCall(n)
      <4>1. stack' = <<f>> /\ f.loop = "list"
        BY <3>3 DEF Enters, NewCall
      <4> HIDE DEF f
      <4>2. Len(stack') = 1 /\ stack'[1] = f
        BY <4>1
      <4>3. \A i \in 1 .. MaxOpen : ToCome(stack', i) = 0
        BY <4>1, <4>2 DEF ToCome
      <4> QED BY <1>3, <2>1, <2>2, <3>2, <3>3, <4>2, <4>3 DEF Branches, ToCome
    <3>4. CASE ~Enters(n, <<>>)
      <4>1. stack' = <<>>
        BY <2>1, <2>4, <3>4 DEF Visits, Cuts, Refused
      <4> QED BY <1>3, <2>1, <3>2, <4>1 DEF Branches, In
    <3> QED BY <3>3, <3>4
  <2> QED BY <2>3, <2>4
<1>6. CASE Inspected \/ Summary
  <2>1. stack' = stack /\ lines' = lines /\ sub_dirs' = sub_dirs
    BY <1>6 DEF Inspected, Summary, walk
  <2> QED BY <2>1 DEF Branches, ToCome, In, Top
<1>7. CASE ReadEntry
  <2>1. /\ stack # <<>> /\ Top.loop = "list" /\ lines' = lines /\ sub_dirs' = sub_dirs
    BY <1>7, Reading
  <2>2. PICK g : Rewrites(g) /\ g.loop = "list"
    BY <1>7, Reading
  <2>3. /\ Len(stack') = Len(stack) /\ stack' # <<>> /\ stack'[Len(stack)] = g
        /\ \A j \in 1 .. Len(stack) : j # Len(stack) => stack'[j] = stack[j]
    BY <2>1, <2>2, Rewritten
  <2>4. Top = stack[Len(stack)]
    BY DEF Top
  <2>5. \A i \in 1 .. MaxOpen : ToCome(stack', i) = ToCome(stack, i)
    <3> TAKE i \in 1 .. MaxOpen
    <3>1. CASE i = Len(stack)
      BY <1>2, <2>1, <2>2, <2>3, <2>4, <3>1 DEF ToCome
    <3>2. CASE i # Len(stack)
      BY <1>2, <2>3, <3>2 DEF ToCome
    <3> QED BY <3>1, <3>2
  <2>6. Decided(lines', Len(stack'))
    BY <2>1, <2>3 DEF Branches, In
  <2> HIDE DEF ToCome
  <2> QED BY <1>3, <2>1, <2>5, <2>6 DEF Branches, ToCome
<1>8. CASE EndList
  <2>1. /\ stack # <<>> /\ Top.loop = "list" /\ lines' = lines
        /\ sub_dirs' = [sub_dirs EXCEPT ![cur_depth] = @ + Len(Top.list)]
    BY <1>8, EndingList
  <2>2. PICK g : /\ Rewrites(g) /\ g.loop = (IF Figures THEN "count" ELSE "descend")
                 /\ g.i = 1 /\ Len(g.list) = Len(Top.list)
    BY <1>8, EndingList
  <2>3. /\ Len(stack') = Len(stack) /\ stack' # <<>> /\ stack'[Len(stack)] = g
        /\ \A j \in 1 .. Len(stack) : j # Len(stack) => stack'[j] = stack[j]
    BY <2>1, <2>2, Rewritten
  <2>4. g.loop = "descend" /\ Top = stack[Len(stack)] /\ Len(Top.list) \in Nat
        /\ Len(stack) \in 1 .. MaxOpen
    <3>1. ~Figures
      BY <2>1, ListsDirectories
    <3>2. Len(Top.list) \in Nat /\ Len(stack) # 0
      BY <2>1, TopFacts
    <3> QED BY <1>2, <2>2, <3>1, <3>2 DEF Top
  <2> HIDE DEF Top
  <2>5. \A i \in 1 .. MaxOpen : sub_dirs'[i] = ToCome(stack', i)
    <3> TAKE i \in 1 .. MaxOpen
    <3>1. CASE i = Len(stack)
      <4>1. sub_dirs[i] = 0
        BY <1>2, <1>3, <2>1, <2>4, <3>1 DEF ToCome
      <4>2. sub_dirs'[i] = Len(Top.list)
        BY <1>2, <1>3, <2>1, <2>4, <3>1, <4>1
      <4>3. ToCome(stack', i) = Len(Top.list)
        BY <1>2, <2>2, <2>3, <2>4, <3>1 DEF ToCome
      <4> QED BY <4>2, <4>3
    <3>2. CASE i # Len(stack)
      <4>1. sub_dirs'[i] = sub_dirs[i]
        BY <1>2, <1>3, <2>1, <3>2
      <4>2. ToCome(stack', i) = ToCome(stack, i)
        BY <1>2, <2>3, <3>2 DEF ToCome
      <4> QED BY <1>3, <4>1, <4>2
    <3> QED BY <3>1, <3>2
  <2>6. Decided(lines, Len(stack))
    BY <2>1 DEF Branches, In
  <2>7. AllDrawn(lines, sub_dirs')
    <3>1. \A i \in 1 .. MaxOpen : (sub_dirs'[i] # 0 <=> sub_dirs[i] # 0) \/ Decided(lines, i)
      BY <1>2, <1>3, <2>1, <2>6
    <3> QED BY <1>3, <3>1, DrawnStays
  <2>8. sub_dirs' \in [0 .. MaxOpen -> Int]
    BY <1>2, <1>3, <2>1, <2>4
  <2>9. ~In("list")'
    BY <2>3, <2>4 DEF In, Top
  <2> QED BY <2>1, <2>5, <2>7, <2>8, <2>9 DEF Branches, ToCome
<1>9. CASE CountEntry
  <2>1. stack # <<>> /\ Top.loop = "count"
    BY <1>9 DEF CountEntry, In
  <2> QED BY <2>1, ListsDirectories
<1>10. CASE EndCount
  <2>1. stack # <<>> /\ Top.loop = "count"
    BY <1>10 DEF EndCount, In
  <2> QED BY <2>1, ListsDirectories
<1>11. CASE Descend
  <2> DEFINE n == Lookup(Top.dir, Entry)
             L == Len(stack)
             g == [Top EXCEPT !.i = @ + 1]
  <2>1. stack # <<>> /\ Top.loop = "descend" /\ ~AtEnd
    BY <1>1, <1>11, Descending
  <2>2. Entry # Dot /\ n \in DOMAIN fs.entries
    BY <2>1, EntryFacts, ListsDirectories
  <2>3. Visits(n, Advanced) /\ sub_dirs' = [sub_dirs EXCEPT ![cur_depth] = @ - 1]
    BY <1>1, <1>11, <2>2, Descending
  <2>4. /\ g.loop = "descend" /\ g.i = Top.i + 1 /\ g.list = Top.list
        /\ Len(Advanced) = Len(stack) /\ Advanced[Len(stack)] = g
        /\ \A j \in 1 .. Len(stack) : j # Len(stack) => Advanced[j] = stack[j]
        /\ StackOK(Advanced) /\ Advanced # <<>>
    <3> HIDE DEF Top, Advanced
    <3> QED BY <2>1, AdvancedOK
  <2>5. /\ Top.i \in 1 .. Len(Top.list) /\ Len(Top.list) \in Nat /\ Top = stack[L]
        /\ L \in 1 .. MaxOpen
    <3>1. Top.i \in 1 .. Len(Top.list)
      BY <2>1, EntryFacts
    <3>2. Len(Top.list) \in Nat /\ Len(stack) # 0
      BY <2>1, TopFacts
    <3> QED BY <1>2, <3>1, <3>2 DEF Top
  <2> HIDE DEF n, g, Top, Advanced
  <2>6. /\ sub_dirs[L] = Len(Top.list) + 1 - Top.i
        /\ \A i \in 1 .. MaxOpen : i > L => sub_dirs[i] = 0
    BY <1>2, <1>3, <2>1, <2>5 DEF ToCome
  <2>7. /\ sub_dirs' \in [0 .. MaxOpen -> Int]
        /\ sub_dirs'[L] = Len(Top.list) + 1 - g.i
        /\ \A i \in 1 .. MaxOpen : i # L => sub_dirs'[i] = sub_dirs[i]
    <3>1. /\ L \in 0 .. MaxOpen /\ cur_depth = L
          /\ sub_dirs' = [sub_dirs EXCEPT ![L] = sub_dirs[L] - 1] /\ sub_dirs[L] \in Int
      BY <1>2, <1>3, <2>3, <2>5
    <3> HIDE DEF L
    <3>2. /\ sub_dirs' \in [0 .. MaxOpen -> Int] /\ sub_dirs'[L] = sub_dirs[L] - 1
          /\ \A i \in 1 .. MaxOpen : i # L => sub_dirs'[i] = sub_dirs[i]
      BY <1>2, <1>3, <3>1
    <3>3. sub_dirs[L] - 1 = Len(Top.list) + 1 - g.i
      BY <2>4, <2>5, <2>6
    <3> QED BY <3>2, <3>3
  <2>8. /\ AllDrawn(lines', sub_dirs')
        /\ Enters(n, Advanced) => Decided(lines', cur_depth + 1)
    <3>1. \A i \in 1 .. MaxOpen : /\ i > cur_depth => sub_dirs[i] = 0
                                  /\ i = cur_depth => sub_dirs[i] # 0
                                  /\ i # cur_depth => sub_dirs'[i] = sub_dirs[i]
      BY <1>2, <2>5, <2>6, <2>7
    <3> HIDE DEF Visits
    <3> QED BY <1>3, <2>2, <2>3, <3>1, VisitDraws
  <2>9. \A i \in 1 .. MaxOpen : sub_dirs'[i] = ToCome(Advanced, i)
    <3> TAKE i \in 1 .. MaxOpen
    <3>1. CASE i = L
      BY <1>2, <2>4, <2>7, <3>1 DEF ToCome
    <3>2. CASE i # L
      <4>1. ToCome(Advanced, i) = ToCome(stack, i)
        BY <1>2, <2>4, <3>2 DEF ToCome
      <4> QED BY <1>3, <2>7, <3>2, <4>1
    <3> QED BY <3>1, <3>2
  <2>10. CASE Enters(n, Advanced)
    <3> DEFINE f == NewCall(n)
    <3>1. stack' = Append(Advanced, f) /\ f.loop = "list"
      BY <2>10 DEF Enters, NewCall
    <3> DEFINE S == FrameSet \cup {f}
    <3>2. Advanced \in Seq(S) /\ f \in S
      BY <2>4 DEF StackOK
    <3> HIDE DEF f, S
    <3>3. /\ Len(stack') = L + 1 /\ stack'[L + 1] = f
          /\ \A j \in 1 .. L : stack'[j] = Advanced[j]
      BY <2>4, <3>1, <3>2, AppendProperties
    <3>4. \A i \in 1 .. MaxOpen : ToCome(stack', i) = ToCome(Advanced, i)
      <4> TAKE i \in 1 .. MaxOpen
      <4>1. CASE i = L + 1
        BY <1>2, <2>4, <3>1, <3>3, <4>1 DEF ToCome
      <4>2. CASE i # L + 1
        BY <1>2, <2>4, <3>3, <4>2 DEF ToCome
      <4> QED BY <4>1, <4>2
    <3> QED BY <1>2, <2>7, <2>8, <2>9, <2>10, <3>3, <3>4 DEF Branches, ToCome
  <2>11. CASE ~Enters(n, Advanced)
    <3>1. stack' = Advanced
      BY <2>2, <2>3, <2>11 DEF Visits, Passes, Cuts, Refused
    <3>2. ~In("list")'
      BY <2>4, <3>1 DEF In, Top
    <3> QED BY <2>7, <2>8, <2>9, <3>1, <3>2 DEF Branches, ToCome
  <2> QED BY <2>10, <2>11
<1>12. CASE Leave
  <2> DEFINE L == Len(stack)
  <2>1. /\ stack # <<>> /\ Top.loop = "descend" /\ AtEnd
        /\ Prints(Figures /\ cur_depth = opts.depth)
        /\ sub_dirs' = [sub_dirs EXCEPT ![cur_depth] = 0]
        /\ stack' = Front(stack)
    BY <1>12, Leaving
  <2>2. lines' = lines
    BY <2>1, ListsDirectories DEF Prints
  <2>3. /\ Len(stack') = L - 1 /\ \A j \in 1 .. (L - 1) : stack'[j] = stack[j]
        /\ stack' # <<>> <=> L # 1
    BY <2>1, StackPopped
  <2>4. sub_dirs[L] = 0 /\ L \in 1 .. MaxOpen
    <3>1. /\ Top = stack[L] /\ Top.i \in Nat /\ Len(Top.list) \in Nat /\ CallOK(Top) /\ L # 0
      BY <2>1, TopFacts
    <3>2. Top.i = Len(Top.list) + 1
      BY <2>1, <3>1 DEF CallOK, AtEnd
    <3>3. ToCome(stack, L) = Len(Top.list) + 1 - Top.i
      BY <1>2, <2>1, <3>1 DEF ToCome
    <3> HIDE DEF Top, ToCome
    <3> QED BY <1>2, <1>3, <3>1, <3>2, <3>3
  <2>5. sub_dirs' = sub_dirs
    BY <1>2, <1>3, <2>1, <2>4
  <2>6. \A i \in 1 .. MaxOpen : sub_dirs'[i] = ToCome(stack', i)
    <3> TAKE i \in 1 .. MaxOpen
    <3>1. CASE i >= L
      <4>1. ToCome(stack', i) = 0
        BY <1>2, <2>3, <3>1 DEF ToCome
      <4>2. sub_dirs[i] = 0
        <5>1. CASE i = L
          BY <2>4, <5>1
        <5>2. CASE i # L
          BY <1>2, <1>3, <3>1, <5>2 DEF ToCome
        <5> QED BY <5>1, <5>2
      <4> QED BY <2>5, <4>1, <4>2
    <3>2. CASE ~(i >= L)
      <4>1. ToCome(stack', i) = ToCome(stack, i)
        BY <1>2, <2>3, <3>2 DEF ToCome
      <4> QED BY <1>3, <2>5, <4>1
    <3> QED BY <3>1, <3>2
  <2>7. ~In("list")'
    <3>1. ASSUME stack' # <<>>
          PROVE  stack'[L - 1].loop = "descend"
      <4>1. L - 1 \in 1 .. L /\ L - 1 < L /\ stack'[L - 1] = stack[L - 1]
        BY <1>2, <2>3, <2>4, <3>1
      <4>2. FrameOK(stack, L - 1)
        BY <1>2, <4>1 DEF StackOK
      <4> QED BY <4>1, <4>2 DEF FrameOK
    <3> QED BY <2>3, <3>1 DEF In, Top
  <2> QED BY <1>3, <2>2, <2>5, <2>6, <2>7 DEF Branches, ToCome
<1> QED BY <1>4, <1>5, <1>6, <1>7, <1>8, <1>9, <1>10, <1>11, <1>12 DEF Next

\* The last of the lines s is a name at level i.
Ends(s, i) == Len(s) # 0 /\ s[Len(s)].kind = "name" /\ s[Len(s)].level = i

\* The names in s that are beside another one are those behind the name of a directory one
\* level above.
Besides(s) ==
    \A k \in 1 .. Len(s) :
        s[k].kind = "name" =>
            (s[k].beside <=> /\ k # 1 /\ s[k - 1].kind = "name"
                             /\ s[k - 1].level = s[k].level - 1)

\* Where names are displayed, the line is open just behind the name of the directory whose
\* call is running; a name further up is never the last one.
LineOpen ==
    /\ Besides(lines)
    /\ cur_depth < opts.depth => (indented <=> Ends(lines, cur_depth - 1))
    /\ \A i \in Int : Ends(lines, i) => cur_depth <= i + 1 \/ opts.depth <= i + 1

\* One line more.
LEMMA BesideMore ==
  ASSUME NEW s, s \in Seq(Range(s)), Besides(s), NEW e,
         e.kind = "name" => (e.beside <=> Ends(s, e.level - 1))
  PROVE  LET t == Append(s, e)
         IN  Besides(t) /\ \A i : Ends(t, i) <=> e.kind = "name" /\ e.level = i
<1> DEFINE S == Range(s) \cup {e}
           t == Append(s, e)
           last == Len(s) + 1
<1>1. s \in Seq(S) /\ e \in S /\ Len(s) \in Nat
  OBVIOUS
<1>2. Len(t) = last /\ t[last] = e /\ \A k \in 1 .. Len(s) : t[k] = s[k]
  <2> HIDE DEF S
  <2> QED BY <1>1, AppendProperties
<1> HIDE DEF t, S
<1>3. \A i : Ends(t, i) <=> e.kind = "name" /\ e.level = i
  BY <1>1, <1>2 DEF Ends
<1>4. ASSUME NEW k \in 1 .. Len(t), t[k].kind = "name"
      PROVE  t[k].beside <=> /\ k # 1 /\ t[k - 1].kind = "name"
                             /\ t[k - 1].level = t[k].level - 1
  <2>1. CASE k = last
    <3>1. k # 1 <=> Len(s) # 0
      BY <1>1, <2>1
    <3>2. k # 1 => t[k - 1] = s[Len(s)]
      BY <1>1, <1>2, <2>1
    <3>3. t[k] = e
      BY <1>2, <2>1
    <3> QED BY <1>4, <3>1, <3>2, <3>3 DEF Ends
  <2>2. CASE k # last
    <3>1. k \in 1 .. Len(s) /\ t[k] = s[k] /\ (k # 1 => t[k - 1] = s[k - 1])
      BY <1>1, <1>2, <2>2
    <3> QED BY <1>4, <3>1 DEF Besides
  <2> QED BY <2>1, <2>2
<1>5. Besides(t)
  BY <1>4 DEF Besides
<1> QED BY <1>3, <1>5 DEF t

\* A directory that is visited is put where the line is open.
LEMMA VisitOpens ==
  ASSUME Lines, Walk, opts.visual, job' = job, LineOpen,
         NEW n \in DOMAIN fs.entries, NEW callers, Visits(n, callers)
  PROVE  LineOpen'
<1>1. cur_depth \in Nat /\ opts.depth \in Int /\ opts' = opts
  BY SameJob DEF Walk, StackOK, Options
<1> DEFINE s == Shows(n)
<1>2. /\ Besides(s)
      /\ cur_depth < opts.depth => \A i : Ends(s, i) <=> i = cur_depth
      /\ ~(cur_depth < opts.depth) => s = lines
  <2>1. CASE cur_depth < opts.depth
    <3> DEFINE e == NameOf(n)
    <3>1. e.kind = "name" /\ e.level = cur_depth /\ e.beside = indented
      BY DEF NameOf
    <3>2. s = Append(lines, e)
      BY <2>1 DEF Shows
    <3> HIDE DEF e, s
    <3>3. e.beside <=> Ends(lines, e.level - 1)
      BY <2>1, <3>1 DEF LineOpen
    <3>4. Besides(lines) /\ lines \in Seq(Range(lines))
      BY DEF LineOpen, Lines
    <3>5. Besides(s) /\ \A i : Ends(s, i) <=> e.kind = "name" /\ e.level = i
      BY <3>2, <3>3, <3>4, BesideMore
    <3> QED BY <2>1, <3>1, <3>5
  <2>2. CASE ~(cur_depth < opts.depth)
    <3>1. s = lines
      BY <2>2 DEF Shows
    <3> QED BY <2>2, <3>1 DEF LineOpen
  <2> QED BY <2>1, <2>2
<1>3. CASE Refused(n, callers)
  <2> DEFINE e == [kind |-> "unread", node |-> n]
  <2>1. lines' = Append(s, e) /\ e.kind # "name" /\ indented' = FALSE /\ cur_depth' = cur_depth
    BY <1>3 DEF Refused
  <2>2. s \in Seq(Range(s))
    BY Showing
  <2> HIDE DEF s, e
  <2>3. Besides(lines') /\ \A i : ~Ends(lines', i)
    BY <1>2, <2>1, <2>2, BesideMore
  <2> QED BY <2>1, <2>3 DEF LineOpen
<1>4. CASE Enters(n, callers)
  <2>1. /\ lines' = s /\ cur_depth' = cur_depth + 1
        /\ indented' = (indented \/ cur_depth < opts.depth)
    BY <1>4 DEF Enters
  <2> HIDE DEF s
  <2>2. CASE cur_depth < opts.depth
    <3>1. cur_depth' - 1 = cur_depth /\ cur_depth' \in Nat
      BY <1>1, <2>1
    <3>2. Besides(lines') /\ \A i : Ends(lines', i) <=> i = cur_depth' - 1
      BY <1>2, <2>1, <2>2, <3>1
    <3>3. indented'
      BY <2>1, <2>2, Zenon
    <3> QED BY <1>1, <3>1, <3>2, <3>3 DEF LineOpen
  <2>3. CASE ~(cur_depth < opts.depth)
    BY <1>1, <1>2, <2>1, <2>3 DEF LineOpen
  <2> QED BY <2>2, <2>3
<1>5. CASE Cuts(n, callers) \/ Passes(n, callers)
  BY <1>1, <1>5 DEF Cuts, Passes, LineOpen
<1> QED BY <1>3, <1>4, <1>5 DEF Visits

\* The line is open where it should be at the beginning,
LEMMA NoLineOpen ==
  ASSUME Init
  PROVE  LineOpen
BY DEF Init, LineOpen, Besides, Ends

\* and stays so.
LEMMA LineOpenNext ==
  ASSUME Lines, Walk, Intact, Next, Intact', opts.visual, LineOpen
  PROVE  LineOpen'
<1>1. job' = job /\ opts' = opts
  BY Printing, SameJob
<1>2. cur_depth \in Nat /\ opts.depth \in Int
  BY DEF Walk, StackOK, Options
<1>3. CASE NextTarget
  <2>1. cur_depth = 0 /\ cur_depth' = 0 /\ UNCHANGED <<indented, lines>>
    BY <1>3 DEF NextTarget, Walk
  <2> QED BY <1>1, <2>1 DEF LineOpen
<1>4. CASE Inspect
  <2> DEFINE n == Lookup(topdir, Targets[arg])
  <2>1. Visits(n, <<>>)
    BY <1>1, <1>4, Inspecting
  <2> HIDE DEF n
  <2>2. CASE n \in DOMAIN fs.entries
    BY <1>1, <2>1, <2>2, VisitOpens
  <2>3. CASE n \notin DOMAIN fs.entries
    <3>1. UNCHANGED <<cur_depth, indented, lines>>
      BY <2>1, <2>3 DEF Visits, Passes, Cuts, Refused, Enters
    <3> QED BY <1>1, <3>1 DEF LineOpen
  <2> QED BY <2>2, <2>3
<1>5. CASE Inspected \/ Summary \/ ReadEntry \/ EndList
  <2>1. UNCHANGED <<cur_depth, indented, lines>>
    BY <1>5 DEF Inspected, Summary, ReadEntry, EndList, walk
  <2> QED BY <1>1, <2>1 DEF LineOpen
<1>6. CASE CountEntry \/ EndCount
  <2>1. stack # <<>> /\ Top.loop = "count"
    BY <1>6 DEF CountEntry, EndCount, In
  <2> QED BY <2>1, ListsDirectories
<1>7. CASE Descend
  <2> DEFINE n == Lookup(Top.dir, Entry)
  <2>1. stack # <<>> /\ Top.loop = "descend" /\ ~AtEnd
    BY <1>1, <1>7, Descending
  <2>2. Entry # Dot /\ n \in DOMAIN fs.entries
    BY <2>1, EntryFacts, ListsDirectories
  <2>3. Visits(n, Advanced)
    BY <1>1, <1>7, <2>2, Descending
  <2> HIDE DEF n
  <2> QED BY <1>1, <2>2, <2>3, VisitOpens
<1>8. CASE Leave
  <2>1. /\ stack # <<>> /\ Prints(Figures /\ cur_depth = opts.depth)
        /\ cur_depth' = cur_depth - 1
    BY <1>8, Leaving
  <2>2. lines' = lines
    BY <2>1, ListsDirectories DEF Prints
  <2>3. indented' = FALSE
    BY <1>8 DEF Leave
  <2> QED BY <1>1, <1>2, <2>1, <2>2, <2>3 DEF LineOpen
<1> QED BY <1>3, <1>4, <1>5, <1>6, <1>7, <1>8 DEF Next

\* The visual display is right in every tree that has been walked through: a name is beside
\* that of its directory where nothing has come between them, and of any other name
\* the branches go on where the tree does (down at src/vtree.c:371, sub_dirs and indented).
THEOREM BarsFollowBranches == Spec => []BranchesGoOn
<1> DEFINE IInv == Intact /\ opts.visual => Branches /\ LineOpen
<1>1. Init => IInv
  BY BranchesBegin, NoLineOpen
<1>2. Inv /\ IInv /\ [Next]_vars => IInv'
  <2> SUFFICES ASSUME Inv, IInv, [Next]_vars, Intact', opts'.visual
               PROVE  Branches' /\ LineOpen'
    OBVIOUS
  <2>1. Intact
    BY IntactBefore DEF Inv
  <2>2. opts' = opts
    BY Printing, SameJob DEF Inv
  <2>3. Walk /\ Branches /\ LineOpen /\ Lines /\ opts.visual
    BY <2>1, <2>2 DEF Inv
  <2>4. CASE Next
    BY <2>1, <2>3, <2>4, BranchesNext, LineOpenNext
  <2>5. CASE UNCHANGED vars
    <3>1. UNCHANGED <<stack, lines, sub_dirs, cur_depth, indented, opts>>
      BY <2>5 DEF vars, walk, job
    <3>2. Branches'
      BY <2>3, <3>1 DEF Branches, ToCome, In, Top
    <3>3. LineOpen'
      BY <2>3, <3>1 DEF LineOpen
    <3> QED BY <3>2, <3>3
  <2> QED BY <2>4, <2>5
<1>3. Inv /\ IInv => BranchesGoOn
  <2>0. ASSUME LineOpen, Lines, NEW k \in DOMAIN lines, lines[k].kind = "name"
        PROVE  lines[k].beside <=> /\ k # 1 /\ lines[k - 1].kind = "name"
                                   /\ lines[k - 1].level = lines[k].level - 1
    <3>1. k \in 1 .. Len(lines)
      BY <2>0 DEF Lines
    <3> QED BY <2>0, <3>1 DEF LineOpen, Besides
  <2> SUFFICES ASSUME Walk, Branches, Lines, Done,
                      NEW k \in DOMAIN lines, lines[k].kind = "name", ~lines[k].beside,
                      NEW i \in 1 .. lines[k].level
               PROVE  lines[k].bars[i] <=>
                         \E m \in (k + 1) .. Len(lines) :
                            /\ lines[m].kind = "name" /\ lines[m].level = i
                            /\ \A l \in (k + 1) .. m :
                                  lines[l].kind = "name" => lines[l].level >= i
    BY <2>0 DEF BranchesGoOn, Inv
  <2>1. /\ k \in 1 .. Len(lines) /\ Len(lines) \in Nat /\ LevelsOK(lines) /\ stack = <<>>
        /\ i \in 1 .. MaxOpen /\ MaxOpen \in Nat
    <3>1. LevelsOK(lines)
      BY WalkLevels
    <3>2. k \in 1 .. Len(lines) /\ Len(lines) \in Nat /\ stack = <<>>
      BY DEF Lines, Walk, Done
    <3> QED BY <3>1, <3>2, VtreeAssumption DEF LevelsOK
  <2>2. sub_dirs[i] = 0
    BY <2>1 DEF Branches, ToCome
  <2>3. Drawn(lines, sub_dirs, k)
    BY <2>1 DEF Branches, AllDrawn
  <2>4. CASE GoesOn(lines, k, i)
    BY <2>1, <2>2, <2>3, <2>4 DEF Drawn, GoesOn
  <2>5. CASE ~GoesOn(lines, k, i)
    <3> DEFINE M == {m \in (k + 1) .. Len(lines) : lines[m].kind = "name" /\ ~(lines[m].level > i)}
    <3>1. M # {} /\ M \in SUBSET Nat
      BY <2>1, <2>5 DEF GoesOn
    <3>2. PICK m \in M : \A l \in M : m <= l
      <4> HIDE DEF M
      <4> QED BY <3>1, Least
    <3>3. \A l \in 1 .. Len(lines) : lines[l].kind = "name" => lines[l].level \in Int
      BY <2>1 DEF LevelsOK
    <3>4. Closes(lines, k, i, m) /\ m \in 1 .. Len(lines)
      BY <2>1, <3>2, <3>3 DEF Closes
    <3>5. lines[k].bars[i] <=> lines[m].level = i
      BY <2>3, <3>4 DEF Drawn
    <3>6. \A l \in (k + 1) .. m : lines[l].kind = "name" => l = m \/ lines[l].level > i
      BY <2>1, <3>4 DEF Closes
    <3>7. ASSUME NEW q \in (k + 1) .. Len(lines), lines[q].kind = "name", lines[q].level = i,
                 \A l \in (k + 1) .. q : lines[l].kind = "name" => lines[l].level >= i
          PROVE  lines[m].level = i
      <4>1. q \in M
        BY <2>1, <3>7
      <4>2. m \in (k + 1) .. q
        BY <2>1, <3>2, <4>1
      <4>3. lines[m].level >= i /\ lines[m].level <= i /\ lines[m].level \in Int
        BY <3>3, <3>4, <3>7, <4>2 DEF Closes
      <4> QED BY <2>1, <4>3
    <3>8. ASSUME lines[m].level = i
          PROVE  \A l \in (k + 1) .. m : lines[l].kind = "name" => lines[l].level >= i
      BY <2>1, <3>3, <3>4, <3>6, <3>8
    <3> QED BY <3>4, <3>5, <3>7, <3>8 DEF Closes
  <2> QED BY <2>4, <2>5
<1>4. Spec => []Inv
  BY WalkAgrees
<1> HIDE DEF IInv
<1> QED BY <1>1, <1>2, <1>3, <1>4, PTL DEF Spec

-----------------------------------------------------------------------------
(* Ways *)

PlaceSet == [name : Nat, node : DOMAIN fs.entries, depth : Int]

\* The places that a way may go to from at.
Nexts(at) == {Place(m, fs.entries[at.node][m], at.depth + 1) : m \in Names(at, TRUE)}

\* A sequence of places each of which leads to the next one.
Linked(w) == \A j \in 1 .. (Len(w) - 1) : w[j + 1] \in Nexts(w[j])
WaySet == {w \in Seq(PlaceSet) : w # <<>> /\ Linked(w)}

\* The ways with k places behind the first one.
WaysTo(roots, k) == {w \in WaySet : Len(w) = k + 1 /\ <<w[1]>> \in roots}
Alone == {<<p>> : p \in PlaceSet}

\* A name leads from a directory to one place, and that is a directory again.
LEMMA NextsFacts ==
  ASSUME FileSystemOK(fs), NEW at \in PlaceSet, NEW p \in Nexts(at)
  PROVE  /\ p \in PlaceSet /\ p.name \in Names(at, TRUE)
         /\ p.node = fs.entries[at.node][p.name] /\ p.depth = at.depth + 1
         /\ \A q \in Nexts(at) : q.name = p.name => q = p
<1>1. \A q \in Nexts(at) : /\ q = Place(q.name, fs.entries[at.node][q.name], at.depth + 1)
                           /\ q.name \in Names(at, TRUE)
  <2> TAKE q \in Nexts(at)
  <2>1. PICK m \in Names(at, TRUE) : q = Place(m, fs.entries[at.node][m], at.depth + 1)
    BY DEF Nexts
  <2>2. q.name = m
    BY <2>1 DEF Place
  <2> QED BY <2>1, <2>2
<1>2. p = Place(p.name, fs.entries[at.node][p.name], at.depth + 1) /\ p.name \in Names(at, TRUE)
  BY <1>1
<1>3. /\ at.node \in DOMAIN fs.entries /\ at.depth \in Int
      /\ p.name \in DOMAIN fs.entries[at.node]
      /\ fs.entries[at.node][p.name] \in DOMAIN fs.entries
  BY <1>2 DEF PlaceSet, Names, IsDir
<1>4. p.name \in Nat
  BY <1>3 DEF FileSystemOK
<1>5. /\ p.node = fs.entries[at.node][p.name] /\ p.depth = at.depth + 1
      /\ p = [name |-> p.name, node |-> p.node, depth |-> p.depth]
  BY <1>2 DEF Place
<1>6. p \in PlaceSet
  BY <1>3, <1>4, <1>5 DEF PlaceSet
<1>7. \A q \in Nexts(at) : q.name = p.name => q = p
  BY <1>1, <1>2
<1> QED BY <1>2, <1>5, <1>6, <1>7

\* A way with one place more is a way.
LEMMA WayOn ==
  ASSUME FileSystemOK(fs), NEW w \in WaySet, NEW p \in Nexts(Last(w))
  PROVE  /\ Append(w, p) \in WaySet /\ Len(Append(w, p)) = Len(w) + 1 /\ Len(w) \in Nat \ {0}
         /\ Append(w, p)[1] = w[1] /\ Last(Append(w, p)) = p
         /\ Append(w, p)[Len(w) + 1] = p
         /\ \A j \in 1 .. Len(w) : Append(w, p)[j] = w[j]
<1> DEFINE n == Len(w)
           v == Append(w, p)
<1>1. w \in Seq(PlaceSet) /\ n \in Nat \ {0} /\ Linked(w) /\ Last(w) = w[n]
  BY DEF WaySet, Last
<1>2. w[n] \in PlaceSet /\ p \in Nexts(w[n])
  BY <1>1
<1>3. p \in PlaceSet
  BY <1>2, NextsFacts
<1>4. /\ v \in Seq(PlaceSet) /\ Len(v) = n + 1 /\ v[n + 1] = p
      /\ \A j \in 1 .. n : v[j] = w[j]
  BY <1>1, <1>3
<1>5. Last(v) = p /\ v[1] = w[1] /\ v # <<>>
  BY <1>1, <1>4 DEF Last
<1> HIDE DEF n, v
<1>6. ASSUME NEW j \in 1 .. (Len(v) - 1) PROVE v[j + 1] \in Nexts(v[j])
  <2>1. CASE j = n
    BY <1>1, <1>2, <1>4, <2>1
  <2>2. CASE j # n
    <3>1. j \in 1 .. (n - 1) /\ j \in 1 .. n /\ j + 1 \in 1 .. n
      BY <1>1, <1>4, <2>2
    <3>2. w[j + 1] \in Nexts(w[j])
      BY <1>1, <3>1 DEF Linked, n
    <3> QED BY <1>4, <3>1, <3>2
  <2> QED BY <2>1, <2>2
<1>7. v \in WaySet
  BY <1>4, <1>5, <1>6 DEF WaySet, Linked
<1> QED BY <1>1, <1>4, <1>5, <1>7 DEF n, v

\* A way of several places is one that goes on from a way.
LEMMA WayBack ==
  ASSUME NEW v \in WaySet, Len(v) > 1
  PROVE  /\ Front(v) \in WaySet /\ Len(Front(v)) = Len(v) - 1 /\ Front(v)[1] = v[1]
         /\ Last(v) \in Nexts(Last(Front(v))) /\ v = Append(Front(v), Last(v))
<1> DEFINE n == Len(v)
           w == Front(v)
<1>1. v \in Seq(PlaceSet) /\ n \in Nat /\ n > 1 /\ Linked(v) /\ Last(v) = v[n]
  BY DEF WaySet, Last
<1>2. w = [j \in 1 .. (n - 1) |-> v[j]]
  BY <1>1 DEF Front
<1>3. /\ w \in Seq(PlaceSet) /\ Len(w) = n - 1 /\ w # <<>>
      /\ \A j \in 1 .. (n - 1) : w[j] = v[j]
  <2>1. \A j \in 1 .. n : v[j] \in PlaceSet
    BY <1>1
  <2> HIDE DEF n, w
  <2>2. n - 1 \in Nat /\ n - 1 # 0 /\ \A j \in 1 .. (n - 1) : j \in 1 .. n
    BY <1>1
  <2>3. w \in [1 .. (n - 1) -> PlaceSet] /\ \A j \in 1 .. (n - 1) : w[j] = v[j]
    BY <1>2, <2>1, <2>2
  <2>4. w \in Seq(PlaceSet) /\ Len(w) = n - 1
    BY <2>2, <2>3
  <2>5. w # <<>>
    BY <2>2, <2>4
  <2> QED BY <2>3, <2>4, <2>5
<1>4. Last(w) = v[n - 1] /\ w[1] = v[1]
  BY <1>1, <1>3 DEF Last
<1>5. Last(v) \in Nexts(Last(w))
  <2>1. n - 1 \in 1 .. (n - 1) /\ (n - 1) + 1 = n
    BY <1>1
  <2>2. v[(n - 1) + 1] \in Nexts(v[n - 1])
    BY <1>1, <2>1 DEF Linked
  <2> QED BY <1>1, <1>4, <2>1, <2>2
<1>6. Linked(w)
  <2> SUFFICES ASSUME NEW j \in 1 .. (Len(w) - 1) PROVE w[j + 1] \in Nexts(w[j])
    BY DEF Linked
  <2>1. j \in 1 .. (n - 1) /\ j + 1 \in 1 .. (n - 1)
    BY <1>1, <1>3
  <2>2. v[j + 1] \in Nexts(v[j])
    BY <1>1, <2>1 DEF Linked
  <2> QED BY <1>3, <2>1, <2>2
<1>7. v = Append(w, Last(v))
  <2>1. Last(v) \in PlaceSet
    BY <1>1
  <2>2. /\ Append(w, Last(v)) \in Seq(PlaceSet) /\ Len(Append(w, Last(v))) = n
        /\ \A j \in 1 .. n : Append(w, Last(v))[j] = v[j]
    BY <1>1, <1>3, <2>1
  <2> QED BY <1>1, <2>2
<1> QED BY <1>1, <1>3, <1>4, <1>5, <1>6, <1>7 DEF WaySet

\* The ways to the next level are those that go on from the ways to this one.
LEMMA OneFurther ==
  ASSUME FileSystemOK(fs), NEW roots, NEW k \in Nat, k # 0
  PROVE  WaysTo(roots, k) = UNION {Onwards(w) : w \in WaysTo(roots, k - 1)}
<1>1. ASSUME NEW v \in WaysTo(roots, k)
      PROVE  \E w \in WaysTo(roots, k - 1) : v \in Onwards(w)
  <2>1. v \in WaySet /\ Len(v) = k + 1 /\ <<v[1]>> \in roots /\ Len(v) > 1
    BY DEF WaysTo
  <2>2. /\ Front(v) \in WaySet /\ Len(Front(v)) = Len(v) - 1 /\ Front(v)[1] = v[1]
        /\ Last(v) \in Nexts(Last(Front(v))) /\ v = Append(Front(v), Last(v))
    BY <2>1, WayBack
  <2>3. Front(v) \in WaysTo(roots, k - 1)
    BY <2>1, <2>2 DEF WaysTo
  <2>4. v \in Onwards(Front(v))
    BY <2>2 DEF Onwards, Nexts
  <2> QED BY <2>3, <2>4
<1>2. ASSUME NEW w \in WaysTo(roots, k - 1), NEW v \in Onwards(w)
      PROVE  v \in WaysTo(roots, k)
  <2>1. PICK p \in Nexts(Last(w)) : v = Append(w, p)
    BY DEF Onwards, Nexts
  <2>2. w \in WaySet /\ Len(w) = k /\ <<w[1]>> \in roots
    BY DEF WaysTo
  <2>3. v \in WaySet /\ Len(v) = k + 1 /\ v[1] = w[1]
    BY <2>1, <2>2, WayOn
  <2> QED BY <2>2, <2>3 DEF WaysTo
<1> QED BY <1>1, <1>2

\* The ways from roots are those of up to MaxOpen places more that begin in one of them.
LEMMA WaysAre ==
  ASSUME FileSystemOK(fs), NEW roots, roots \subseteq Alone
  PROVE  Ways(roots) = UNION {WaysTo(roots, k) : k \in 0 .. MaxOpen}
<1> DEFINE Eqn(f) ==
             f = [k \in 0 .. MaxOpen |->
                     IF k = 0 THEN roots ELSE UNION {Onwards(w) : w \in f[k - 1]}]
           g == [k \in 0 .. MaxOpen |-> WaysTo(roots, k)]
<1>1. MaxOpen \in Nat
  BY VtreeAssumption
<1>2. WaysTo(roots, 0) = roots
  <2>1. ASSUME NEW p \in PlaceSet
        PROVE  <<p>> \in WaySet /\ Len(<<p>>) = 1 /\ <<p>>[1] = p
    BY DEF WaySet, Linked
  <2>2. ASSUME NEW w \in WaySet, Len(w) = 1
        PROVE  w = <<w[1]>>
    BY <2>2 DEF WaySet
  <2>3. ASSUME NEW w \in roots PROVE w \in WaysTo(roots, 0)
    <3>1. PICK p \in PlaceSet : w = <<p>>
      BY DEF Alone
    <3> QED BY <2>1, <3>1 DEF WaysTo
  <2>4. ASSUME NEW w \in WaysTo(roots, 0) PROVE w \in roots
    <3>1. w \in WaySet /\ Len(w) = 1 /\ <<w[1]>> \in roots
      BY DEF WaysTo
    <3> QED BY <2>2, <3>1
  <2> QED BY <2>3, <2>4
<1>3. Eqn(g)
  <2>1. \A k \in 0 .. MaxOpen :
          g[k] = IF k = 0 THEN roots ELSE UNION {Onwards(w) : w \in g[k - 1]}
    <3> TAKE k \in 0 .. MaxOpen
    <3>1. CASE k = 0
      BY <1>2, <3>1
    <3>2. CASE k # 0
      <4>1. k \in Nat /\ k - 1 \in 0 .. MaxOpen
        BY <1>1, <3>2
      <4>2. g[k] = WaysTo(roots, k) /\ g[k - 1] = WaysTo(roots, k - 1)
        BY <4>1
      <4> HIDE DEF g
      <4> QED BY <3>2, <4>1, <4>2, OneFurther
    <3> QED BY <3>1, <3>2
  <2>2. g = [k \in 0 .. MaxOpen |-> g[k]]
    OBVIOUS
  <2> HIDE DEF g
  <2> QED BY <2>1, <2>2
<1>4. ASSUME NEW f, Eqn(f) PROVE \A k \in 0 .. MaxOpen : f[k] = WaysTo(roots, k)
  <2> DEFINE P == {k \in 0 .. MaxOpen : f[k] = WaysTo(roots, k)}
  <2>1. \A k \in 0 .. MaxOpen :
          f[k] = IF k = 0 THEN roots ELSE UNION {Onwards(w) : w \in f[k - 1]}
    <3> DEFINE H(h) ==
          [k \in 0 .. MaxOpen |-> IF k = 0 THEN roots ELSE UNION {Onwards(w) : w \in h[k - 1]}]
    <3>1. f = H(f)
      BY <1>4
    <3>2. \A k \in 0 .. MaxOpen :
            H(f)[k] = IF k = 0 THEN roots ELSE UNION {Onwards(w) : w \in f[k - 1]}
      OBVIOUS
    <3> QED BY <3>1, <3>2, Zenon
  <2>2. 0 \in P
    <3>1. 0 \in 0 .. MaxOpen
      BY <1>1
    <3> QED BY <1>2, <2>1, <3>1
  <2>3. ASSUME NEW k \in 1 .. MaxOpen, k - 1 \in P PROVE k \in P
    <3>1. f[k - 1] = WaysTo(roots, k - 1) /\ k \in Nat /\ k # 0 /\ k \in 0 .. MaxOpen
      BY <1>1, <2>3
    <3>2. f[k] = UNION {Onwards(w) : w \in f[k - 1]}
      BY <2>1, <3>1
    <3>3. f[k] = WaysTo(roots, k)
      BY <3>1, <3>2, OneFurther
    <3> QED BY <3>1, <3>3
  <2>4. \A k \in 0 .. MaxOpen : k \in P
    <3> HIDE DEF P
    <3> QED BY <1>1, <2>2, <2>3, Climb
  <2> QED BY <2>4
<1>5. Ways(roots) = UNION {(CHOOSE f : Eqn(f))[k] : k \in 0 .. MaxOpen}
  BY DEF Ways
<1> HIDE DEF Eqn
<1>6. Eqn(CHOOSE f : Eqn(f))
  BY <1>3, Zenon
<1>7. \A k \in 0 .. MaxOpen : (CHOOSE f : Eqn(f))[k] = WaysTo(roots, k)
  BY <1>4, <1>6, Zenon
<1> QED BY <1>5, <1>7, Zenon

\* A way is one of Ways(roots) if it begins in a root and is not longer than MaxOpen + 1.
LEMMA WayIn ==
  ASSUME FileSystemOK(fs), NEW roots, roots \subseteq Alone, NEW w
  PROVE  w \in Ways(roots) <=> w \in WaySet /\ <<w[1]>> \in roots /\ Len(w) <= MaxOpen + 1
<1>1. MaxOpen \in Nat
  BY VtreeAssumption
<1>2. w \in WaySet => Len(w) \in Nat \ {0}
  BY DEF WaySet
<1>3. Ways(roots) = UNION {WaysTo(roots, k) : k \in 0 .. MaxOpen}
  BY WaysAre
<1>4. ASSUME w \in WaySet, <<w[1]>> \in roots, Len(w) <= MaxOpen + 1 PROVE w \in Ways(roots)
  <2>1. Len(w) - 1 \in 0 .. MaxOpen /\ w \in WaysTo(roots, Len(w) - 1)
    BY <1>1, <1>2, <1>4 DEF WaysTo
  <2> QED BY <1>3, <2>1
<1>5. ASSUME NEW k \in 0 .. MaxOpen, w \in WaysTo(roots, k)
      PROVE  w \in WaySet /\ <<w[1]>> \in roots /\ Len(w) <= MaxOpen + 1
  BY <1>1, <1>5 DEF WaysTo
<1> QED BY <1>3, <1>4, <1>5

-----------------------------------------------------------------------------
(* The part of the ways that the walk has gone *)

\* w goes beyond the first j places of P.
Follows(w, P, j) == j < Len(w) /\ \A i \in 1 .. j : w[i] = P[i]

\* The ways of W that do not leave the trail P by a name that is still to come there.
Reached(W, P, Q) ==
    {w \in W : \A j \in 1 .. Len(P) : Follows(w, P, j) => w[j + 1].name \notin Q[j]}

\* The trail is a way of W itself, by names that are no longer to come.
OnTrail(W, P, Q) ==
    /\ W \subseteq WaySet
    /\ P # <<>> => P \in W
    /\ \A j \in 1 .. (Len(P) - 1) : P[j + 1].name \notin Q[j]

\* The trail P goes on to x: its name is no longer to come, those below it are.
Pushes(W, P, Q, R, x) ==
    /\ FileSystemOK(fs) /\ OnTrail(W, P, Q) /\ P # <<>>
    /\ x \in Nexts(Last(P)) /\ Append(P, x) \in W
    /\ x.name \in Q[Len(P)]
    /\ \A y \in Nexts(x) : y.name \in R[Len(P) + 1]
    /\ \A j \in 1 .. (Len(P) - 1) : R[j] = Q[j]
    /\ R[Len(P)] = Q[Len(P)] \ {x.name}

\* The walk enters x from the end of its trail.
LEMMA ReachPush ==
  ASSUME NEW W, NEW P, NEW Q, NEW R, NEW x, Pushes(W, P, Q, R, x)
  PROVE  /\ Reached(W, Append(P, x), R) = Reached(W, P, Q) \cup {Append(P, x)}
         /\ Append(P, x) \notin Reached(W, P, Q)
         /\ OnTrail(W, Append(P, x), R)
<1> DEFINE v == Append(P, x)
           n == Len(P)
<1> USE DEF Pushes
<1>1. P \in WaySet /\ P \in W /\ W \subseteq WaySet
  BY DEF OnTrail
<1>2. /\ v \in WaySet /\ Len(v) = n + 1 /\ n \in Nat \ {0}
      /\ v[n + 1] = x /\ \A j \in 1 .. n : v[j] = P[j]
  BY <1>1, WayOn
<1>3. Last(P) = P[n] /\ P[n] \in PlaceSet
  BY <1>1, <1>2 DEF WaySet, Last
<1>4. /\ \A j \in 1 .. n : j \in 1 .. (n - 1) \/ j = n
      /\ \A j \in 1 .. (n + 1) : j \in 1 .. n \/ j = n + 1
      /\ \A j \in 1 .. (n - 1) : j \in 1 .. n
      /\ n \in 1 .. n /\ n + 1 \in 1 .. (n + 1) /\ (n + 1) - 1 = n
      /\ \A j \in 1 .. n : j \in 1 .. (n + 1)
  BY <1>2
<1>5. \A w, j : j \in 1 .. n => (Follows(w, v, j) <=> Follows(w, P, j))
  <2> SUFFICES ASSUME NEW w, NEW j \in 1 .. n PROVE Follows(w, v, j) <=> Follows(w, P, j)
    OBVIOUS
  <2>1. \A i \in 1 .. j : v[i] = P[i]
    <3>1. \A i \in 1 .. j : i \in 1 .. n
      BY <1>2
    <3> QED BY <1>2, <3>1
  <2> HIDE DEF v
  <2> QED BY <2>1 DEF Follows
<1>6. x \in PlaceSet /\ \A q \in Nexts(P[n]) : q.name = x.name => q = x
  BY <1>3, NextsFacts
<1>7. /\ \A j \in 1 .. (n - 1) : R[j] = Q[j] /\ P[j + 1].name \notin Q[j]
      /\ x.name \in Q[n] /\ R[n] = Q[n] \ {x.name}
      /\ \A y \in Nexts(x) : y.name \in R[n + 1]
  BY DEF OnTrail
<1>8. v \in W
  OBVIOUS
<1> HIDE DEF v, n, Pushes
<1>9. ASSUME NEW w \in WaySet, Follows(w, P, n), w[n + 1].name = x.name
      PROVE  w[n + 1] = x /\ Follows(w, v, n) /\ (w = v \/ Follows(w, v, n + 1))
  <2>1. n < Len(w) /\ w[n] = P[n] /\ Len(w) \in Nat /\ Linked(w) /\ w \in Seq(PlaceSet)
    BY <1>2, <1>4, <1>9 DEF Follows, WaySet
  <2>2. w[n + 1] \in Nexts(w[n])
    <3>1. n \in 1 .. (Len(w) - 1)
      BY <1>2, <2>1
    <3> QED BY <2>1, <3>1 DEF Linked
  <2>3. w[n + 1] = x
    BY <1>6, <1>9, <2>1, <2>2
  <2>4. \A i \in 1 .. (n + 1) : w[i] = v[i]
    BY <1>2, <1>4, <1>9, <2>3 DEF Follows
  <2>5. CASE Len(w) = n + 1
    <3>1. v \in Seq(PlaceSet)
      BY <1>2 DEF WaySet
    <3>2. w = v
      BY <1>2, <2>1, <2>4, <2>5, <3>1
    <3> QED BY <1>4, <1>5, <1>9, <2>3, <3>2
  <2>6. CASE Len(w) # n + 1
    <3>1. n + 1 < Len(w)
      BY <1>2, <2>1, <2>6
    <3> QED BY <1>4, <1>5, <1>9, <2>3, <2>4, <3>1 DEF Follows
  <2> QED BY <2>5, <2>6
<1>10. ASSUME NEW w \in WaySet, Follows(w, v, n + 1)
       PROVE  w[n + 1] = x /\ Follows(w, P, n) /\ w[n + 2].name \in R[n + 1]
  <2>1. n + 1 < Len(w) /\ Len(w) \in Nat /\ Linked(w) /\ w[n + 1] = x
    BY <1>2, <1>4, <1>10 DEF Follows, WaySet
  <2>2. n + 1 \in 1 .. (Len(w) - 1) /\ (n + 1) + 1 = n + 2 /\ n < Len(w)
    BY <1>2, <2>1
  <2>3. w[n + 2] \in Nexts(x)
    BY <2>1, <2>2 DEF Linked
  <2>4. Follows(w, P, n)
    BY <1>2, <1>4, <1>10, <2>2 DEF Follows
  <2> QED BY <1>7, <2>1, <2>3, <2>4
<1>11. ASSUME NEW w \in Reached(W, v, R)
       PROVE  w \in Reached(W, P, Q) \cup {v}
  <2>1. w \in W /\ w \in WaySet
    BY <1>1 DEF Reached
  <2>2. \A j \in 1 .. (n + 1) : Follows(w, v, j) => w[j + 1].name \notin R[j]
    BY <1>2 DEF Reached
  <2>3. ~Follows(w, v, n + 1)
    <3>1. (n + 1) + 1 = n + 2
      BY <1>2
    <3> QED BY <1>4, <1>10, <2>1, <2>2, <3>1
  <2> SUFFICES ASSUME w # v PROVE w \in Reached(W, P, Q)
    OBVIOUS
  <2>4. ASSUME NEW j \in 1 .. n, Follows(w, P, j)
        PROVE  w[j + 1].name \notin Q[j]
    <3>1. w[j + 1].name \notin R[j]
      BY <1>4, <1>5, <2>2, <2>4
    <3>2. CASE j \in 1 .. (n - 1)
      BY <1>7, <3>1, <3>2
    <3>3. CASE j = n
      <4>1. w[n + 1].name # x.name
        BY <1>9, <2>1, <2>3, <2>4, <3>3
      <4> QED BY <1>7, <3>1, <3>3, <4>1
    <3> QED BY <1>4, <3>2, <3>3
  <2> QED BY <2>1, <2>4 DEF Reached, n
<1>12. ASSUME NEW w \in Reached(W, P, Q)
       PROVE  w \in Reached(W, v, R) /\ w # v
  <2>1. w \in W /\ w \in WaySet
    BY <1>1 DEF Reached
  <2>2. \A j \in 1 .. n : Follows(w, P, j) => w[j + 1].name \notin Q[j]
    BY DEF Reached, n
  <2>3. ~Follows(w, v, n + 1)
    BY <1>4, <1>7, <1>10, <2>1, <2>2
  <2>4. ASSUME NEW j \in 1 .. (n + 1), Follows(w, v, j)
        PROVE  w[j + 1].name \notin R[j]
    <3>1. j \in 1 .. n
      BY <1>4, <2>3, <2>4
    <3>2. w[j + 1].name \notin Q[j]
      BY <1>5, <2>2, <2>4, <3>1
    <3> QED BY <1>4, <1>7, <3>1, <3>2
  <2>5. w \in Reached(W, v, R)
    BY <1>2, <2>1, <2>4 DEF Reached
  <2>6. Follows(v, P, n)
    BY <1>2 DEF Follows
  <2> QED BY <1>2, <1>4, <1>7, <2>2, <2>5, <2>6
<1>13. OnTrail(W, v, R)
  <2> SUFFICES ASSUME NEW j \in 1 .. n PROVE v[j + 1].name \notin R[j]
    BY <1>1, <1>2, <1>4, <1>8 DEF OnTrail
  <2>1. CASE j \in 1 .. (n - 1)
    <3>1. j + 1 \in 1 .. n
      BY <1>2, <2>1
    <3>2. v[j + 1] = P[j + 1]
      BY <1>2, <3>1
    <3> QED BY <1>7, <2>1, <3>2
  <2>2. CASE j = n
    BY <1>2, <1>7, <2>2
  <2> QED BY <1>4, <2>1, <2>2
<1>14. v \in Reached(W, v, R)
  <2>1. \A j \in 1 .. n : v[j + 1].name \notin R[j]
    BY <1>2, <1>4, <1>13 DEF OnTrail
  <2>2. ~Follows(v, v, n + 1)
    BY <1>2 DEF Follows
  <2> QED BY <1>2, <1>4, <1>8, <2>1, <2>2 DEF Reached
<1> QED BY <1>11, <1>12, <1>13, <1>14 DEF v

\* The walk leaves the end of its trail when nothing is to come there.
LEMMA ReachPop ==
  ASSUME NEW W, NEW P, NEW Q, OnTrail(W, P, Q), P # <<>>, Q[Len(P)] = {}, NEW R,
         \A j \in 1 .. (Len(P) - 1) : R[j] = Q[j],
         Len(P) > 1 => Front(P) \in W
  PROVE  Reached(W, Front(P), R) = Reached(W, P, Q) /\ OnTrail(W, Front(P), R)
<1> DEFINE n == Len(P)
           f == Front(P)
<1>1. P \in WaySet /\ W \subseteq WaySet
  BY DEF OnTrail
<1>2. P \in Seq(PlaceSet)
  BY <1>1 DEF WaySet
<1>3. Len(f) = n - 1 /\ n \in Nat \ {0} /\ \A j \in 1 .. (n - 1) : f[j] = P[j]
  BY <1>2, FrontFacts
<1>4. \A j \in 1 .. (n - 1) : R[j] = Q[j] /\ P[j + 1].name \notin Q[j]
  BY DEF OnTrail
<1>5. Q[n] = {} /\ (n > 1 => f \in W)
  OBVIOUS
<1> HIDE DEF n, f
<1>6. ASSUME NEW w, NEW j \in 1 .. (n - 1)
      PROVE  Follows(w, f, j) <=> Follows(w, P, j)
  <2>1. \A i \in 1 .. j : f[i] = P[i]
    <3>1. \A i \in 1 .. j : i \in 1 .. (n - 1)
      BY <1>3
    <3> QED BY <1>3, <3>1
  <2> QED BY <2>1 DEF Follows
<1>7. \A j \in 1 .. n : j \in 1 .. (n - 1) \/ j = n
  BY <1>3
<1>8. \A j \in 1 .. (n - 1) : j \in 1 .. n
  BY <1>3
<1>9. ASSUME NEW w \in W
      PROVE  (\A j \in 1 .. (n - 1) : Follows(w, f, j) => w[j + 1].name \notin R[j])
               <=> (\A j \in 1 .. n : Follows(w, P, j) => w[j + 1].name \notin Q[j])
  BY <1>4, <1>5, <1>6, <1>7, <1>8
<1>10. Reached(W, f, R) = Reached(W, P, Q)
  BY <1>3, <1>9 DEF Reached, n
<1>11. OnTrail(W, f, R)
  <2>1. f # <<>> => f \in W
    <3> SUFFICES ASSUME f # <<>> PROVE n > 1
      BY <1>5
    <3>1. f \in Seq(PlaceSet)
      BY <1>2, FrontFacts DEF f
    <3>2. Len(f) # 0 /\ Len(f) \in Nat
      BY <3>1
    <3> QED BY <1>3, <3>2
  <2>2. ASSUME NEW j \in 1 .. (Len(f) - 1) PROVE f[j + 1].name \notin R[j]
    <3>1. j \in 1 .. (n - 1) /\ j + 1 \in 1 .. (n - 1)
      BY <1>3
    <3> QED BY <1>3, <1>4, <3>1
  <2> QED BY <1>1, <2>1, <2>2 DEF OnTrail
<1> QED BY <1>10, <1>11 DEF f

\* The walk begins below a root that no way has begun with.
LEMMA ReachRoot ==
  ASSUME FileSystemOK(fs), NEW W, W \subseteq WaySet, NEW r \in PlaceSet,
         \A w \in W : w[1] # r,
         NEW Q, \A y \in Nexts(r) : y.name \in Q[1]
  PROVE  LET V == W \cup Ways({<<r>>})
         IN  /\ Reached(V, <<r>>, Q) = W \cup {<<r>>}
             /\ <<r>> \notin W /\ OnTrail(V, <<r>>, Q)
             /\ V \subseteq WaySet
<1> DEFINE V == W \cup Ways({<<r>>})
<1>1. {<<r>>} \subseteq Alone
  BY DEF Alone
<1>2. \A w : w \in Ways({<<r>>}) <=>
               w \in WaySet /\ <<w[1]>> \in {<<r>>} /\ Len(w) <= MaxOpen + 1
  BY <1>1, WayIn
<1>3. \A w \in Ways({<<r>>}) : w \in WaySet /\ w[1] = r
  BY <1>2
<1>4. MaxOpen \in Nat
  BY VtreeAssumption
<1>5. <<r>> \in WaySet /\ Len(<<r>>) = 1 /\ <<r>>[1] = r /\ <<r>> # <<>>
  BY DEF WaySet, Linked
<1>6. <<r>> \in V
  <2>1. <<<<r>>[1]>> \in {<<r>>} /\ Len(<<r>>) <= MaxOpen + 1
    BY <1>4, <1>5
  <2> QED BY <1>2, <1>5, <2>1
<1>7. ASSUME NEW w \in WaySet, w[1] = r
      PROVE  IF w = <<r>> THEN ~Follows(w, <<r>>, 1)
             ELSE Follows(w, <<r>>, 1) /\ w[2].name \in Q[1]
  <2>1. w \in Seq(PlaceSet) /\ Len(w) \in Nat \ {0} /\ Linked(w)
    BY DEF WaySet
  <2>2. CASE Len(w) = 1
    BY <1>7, <2>1, <2>2 DEF Follows
  <2>3. CASE Len(w) # 1
    <3>1. Len(w) > 1 /\ 1 \in 1 .. (Len(w) - 1)
      BY <2>1, <2>3
    <3>2. w[2] \in Nexts(r)
      <4>1. w[1 + 1] \in Nexts(w[1])
        BY <2>1, <3>1 DEF Linked
      <4> QED BY <1>7, <4>1
    <3>3. \A i \in 1 .. 1 : i = 1
      OBVIOUS
    <3>4. Follows(w, <<r>>, 1) /\ w # <<r>>
      BY <1>5, <1>7, <2>3, <3>1, <3>3 DEF Follows
    <3> QED BY <3>2, <3>4
  <2> QED BY <2>2, <2>3
<1>8. ASSUME NEW w \in WaySet, w[1] # r
      PROVE  ~Follows(w, <<r>>, 1)
  BY <1>5, <1>8 DEF Follows
<1> HIDE DEF V
<1>9. \A w : w \in Reached(V, <<r>>, Q) <=>
               w \in V /\ (Follows(w, <<r>>, 1) => w[2].name \notin Q[1])
  <2>1. \A j \in 1 .. Len(<<r>>) : j = 1
    OBVIOUS
  <2>2. 1 \in 1 .. Len(<<r>>) /\ 1 + 1 = 2
    OBVIOUS
  <2> QED BY <2>1, <2>2 DEF Reached
<1>10. V \subseteq WaySet
  BY <1>3 DEF V
<1>11. Reached(V, <<r>>, Q) = W \cup {<<r>>}
  BY <1>3, <1>5, <1>6, <1>7, <1>8, <1>9, <1>10 DEF V
<1>12. <<r>> \notin W
  BY <1>5
<1>13. OnTrail(V, <<r>>, Q)
  <2>1. 1 .. (Len(<<r>>) - 1) = {}
    OBVIOUS
  <2> QED BY <1>6, <1>10, <2>1 DEF OnTrail
<1> QED BY <1>10, <1>11, <1>12, <1>13 DEF V

\* Without a trail all ways have been gone.
LEMMA ReachAll ==
  ASSUME NEW W, NEW Q
  PROVE  Reached(W, <<>>, Q) = W
<1>1. 1 .. Len(<<>>) = {}
  OBVIOUS
<1> QED BY <1>1 DEF Reached

\* Only what is to come on the trail matters.
LEMMA ReachSame ==
  ASSUME NEW W, NEW P, NEW Q, NEW R, \A j \in 1 .. Len(P) : R[j] = Q[j]
  PROVE  /\ Reached(W, P, R) = Reached(W, P, Q)
         /\ Len(P) \in Nat /\ OnTrail(W, P, Q) => OnTrail(W, P, R)
<1>1. Len(P) \in Nat => \A j \in 1 .. (Len(P) - 1) : j \in 1 .. Len(P)
  OBVIOUS
<1> QED BY <1>1 DEF Reached, OnTrail

-----------------------------------------------------------------------------
(* What has been counted *)

\* The figures of one inode more.
LEMMA TotalWithOne ==
  ASSUME FileSystemOK(fs), NEW f, IsFiniteSet(DOMAIN f), \A y \in DOMAIN f : f[y] \in DOMAIN fs.dev,
         NEW x, x \notin DOMAIN f, NEW g, DOMAIN g = DOMAIN f \cup {x}, g[x] \in DOMAIN fs.dev,
         \A y \in DOMAIN f : g[y] = f[y]
  PROVE  Total(g) = With(Total(f), g[x]) /\ Total(f) \in FigureSet
<1> DEFINE a == [y \in DOMAIN f |-> K(fs.blocks[f[y]])]
           b == [y \in DOMAIN g |-> K(fs.blocks[g[y]])]
<1>1. \A n \in DOMAIN fs.dev : K(fs.blocks[n]) \in Int
  <2> TAKE n \in DOMAIN fs.dev
  <2>1. fs.blocks[n] \in Nat
    BY DEF FileSystemOK
  <2> QED BY <2>1 DEF K
<1>2. /\ DOMAIN a = DOMAIN f /\ DOMAIN b = DOMAIN f \cup {x} /\ b[x] = K(fs.blocks[g[x]])
      /\ b[x] \in Int /\ \A y \in DOMAIN f : a[y] \in Int /\ b[y] = a[y]
  BY <1>1
<1> HIDE DEF a, b
<1>3. SumFunction(b) = SumFunction(a) + b[x] /\ SumFunction(a) \in Int
  BY <1>2, SumWithOne
<1>4. /\ Cardinality(DOMAIN g) = Cardinality(DOMAIN f) + 1
      /\ Cardinality(DOMAIN f) \in Nat
  BY FS_AddElement, FS_CardinalityType
<1>5. /\ Total(f) = [inodes |-> Cardinality(DOMAIN f), sizes |-> SumFunction(a)]
      /\ Total(g) = [inodes |-> Cardinality(DOMAIN g), sizes |-> SumFunction(b)]
  BY DEF Total, a, b
<1> QED BY <1>2, <1>3, <1>4, <1>5 DEF With, FigureSet

\* Nothing has no figures.
LEMMA TotalOfNone ==
  ASSUME NEW f, DOMAIN f = {}
  PROVE  Total(f) = Zero
<1> DEFINE a == [y \in DOMAIN f |-> K(fs.blocks[f[y]])]
<1>1. DOMAIN a = {}
  OBVIOUS
<1> HIDE DEF a
<1>2. SumFunction(a) = 0
  BY <1>1, SumOfNone
<1>3. Cardinality(DOMAIN f) = 0
  BY FS_EmptySet
<1> QED BY <1>2, <1>3 DEF Total, Zero, a

Node(f) == fs.entries[Last(f[1]).node][f[2]]
Nodes(F) == {Node(f) : f \in F}

\* The figures of the ways V and the files F, in the way the options count them.
CountOf(V, F) ==
    Plus(Total([v \in V |-> Last(v).node]),
         IF ~Figures THEN Zero
         ELSE IF opts.duplicates THEN Total([f \in F |-> Node(f)])
         ELSE Total([n \in Nodes(F) |-> n]))

\* s are the figures of V and F, and the tables h have the inodes of F.
Tallied(V, F, s, h) ==
    /\ IsFiniteSet(V) /\ \A v \in V : Last(v).node \in DOMAIN fs.dev
    /\ Figures => /\ IsFiniteSet(F) /\ \A f \in F : Node(f) \in DOMAIN fs.dev
                  /\ HashOK(h)
                  /\ \A n \in DOMAIN fs.dev : Entered(h, fs.dev[n], fs.ino[n]) <=> n \in Nodes(F)
    /\ s = CountOf(V, F)

\* The members of a finite set, and the nodes of a finite set of files, have figures.
LEMMA CountFacts ==
  ASSUME FileSystemOK(fs), NEW S, IsFiniteSet(S), NEW f, DOMAIN f = S,
         \A x \in S : f[x] \in DOMAIN fs.dev
  PROVE  Total(f) \in FigureSet
<1>1. PICK x : x \notin S
  <2> DEFINE r == {y \in S : y \notin y}
  <2>1. \A y : y \in r <=> y \in S /\ y \notin y
    OBVIOUS
  <2> HIDE DEF r
  <2>2. r \notin S
    BY <2>1
  <2> QED BY <2>2
<1>2. CASE S = {}
  <2>1. Total(f) = Zero
    BY <1>2, TotalOfNone
  <2> QED BY <2>1 DEF Zero, FigureSet
<1>3. CASE S # {}
  <2>1. PICK n \in DOMAIN fs.dev : TRUE
    BY <1>3
  <2> DEFINE g == [y \in S \cup {x} |-> IF y = x THEN n ELSE f[y]]
  <2>2. /\ DOMAIN g = DOMAIN f \cup {x} /\ g[x] = n
        /\ \A y \in DOMAIN f : g[y] = f[y]
    BY <1>1
  <2> HIDE DEF g
  <2> QED BY <1>1, <2>2, TotalWithOne
<1> QED BY <1>2, <1>3

\* The nodes of finitely many files are finitely many.
LEMMA NodesFinite ==
  ASSUME NEW F, IsFiniteSet(F)
  PROVE  IsFiniteSet(Nodes(F))
<1> DEFINE g == [f \in F |-> Node(f)]
<1>1. g \in Surjection(F, {Node(f) : f \in F})
  BY DEF Surjection
<1> QED BY <1>1, FS_Surjection DEF Nodes

\* A way more counts its directory.
LEMMA TalliedWay ==
  ASSUME FileSystemOK(fs), NEW V, NEW F, NEW s, NEW h, Tallied(V, F, s, h),
         NEW v, v \notin V, Last(v).node \in DOMAIN fs.dev
  PROVE  Tallied(V \cup {v}, F, With(s, Last(v).node), h) /\ s \in FigureSet
<1> DEFINE a == [u \in V |-> Last(u).node]
           b == [u \in V \cup {v} |-> Last(u).node]
           n == Last(v).node
           rest == IF ~Figures THEN Zero
                   ELSE IF opts.duplicates THEN Total([f \in F |-> Node(f)])
                   ELSE Total([m \in Nodes(F) |-> m])
<1>1. IsFiniteSet(V) /\ (\A u \in V : Last(u).node \in DOMAIN fs.dev) /\ s = Plus(Total(a), rest)
  BY DEF Tallied, CountOf
<1>2. IsFiniteSet(V \cup {v}) /\ \A u \in V \cup {v} : Last(u).node \in DOMAIN fs.dev
  BY <1>1, FS_AddElement
<1>3. rest \in FigureSet
  <2>1. CASE ~Figures
    BY <2>1 DEF Zero, FigureSet
  <2>2. CASE Figures
    <3>1. IsFiniteSet(F) /\ \A f \in F : Node(f) \in DOMAIN fs.dev
      BY <2>2 DEF Tallied
    <3>2. IsFiniteSet(Nodes(F)) /\ \A m \in Nodes(F) : m \in DOMAIN fs.dev
      BY <3>1, NodesFinite DEF Nodes
    <3> DEFINE c == [f \in F |-> Node(f)]
               d == [m \in Nodes(F) |-> m]
    <3>3. DOMAIN c = F /\ DOMAIN d = Nodes(F) /\ (\A f \in F : c[f] \in DOMAIN fs.dev)
          /\ \A m \in Nodes(F) : d[m] \in DOMAIN fs.dev
      BY <3>1, <3>2
    <3>4. rest = Total(c) \/ rest = Total(d)
      BY <2>2
    <3> HIDE DEF c, d, rest
    <3>5. Total(c) \in FigureSet /\ Total(d) \in FigureSet
      BY <3>1, <3>2, <3>3, CountFacts
    <3> QED BY <3>4, <3>5
  <2> QED BY <2>1, <2>2
<1>4. /\ DOMAIN a = V /\ DOMAIN b = DOMAIN a \cup {v} /\ b[v] = n
      /\ \A u \in DOMAIN a : b[u] = a[u] /\ a[u] \in DOMAIN fs.dev
  BY <1>1
<1>5. /\ CountOf(V \cup {v}, F) = Plus(Total(b), rest)
      /\ n \in DOMAIN fs.dev
  BY DEF CountOf
<1>6. K(fs.blocks[n]) \in Int
  <2>1. Zero \in FigureSet
    BY DEF Zero, FigureSet
  <2> QED BY <1>5, <2>1, MoreFigures, Zenon
<1> HIDE DEF a, b, rest, n
<1>7. Total(b) = With(Total(a), n) /\ Total(a) \in FigureSet
  BY <1>1, <1>4, <1>5, TotalWithOne
<1>8. /\ Plus(With(Total(a), n), rest) = With(Plus(Total(a), rest), n)
      /\ Plus(Total(a), rest) \in FigureSet
  BY <1>3, <1>6, <1>7 DEF Plus, With, FigureSet
<1> QED BY <1>1, <1>2, <1>5, <1>7, <1>8 DEF Tallied, n

\* A file more counts its inode, if it is the first of its names or with -d.
LEMMA TalliedFile ==
  ASSUME FileSystemOK(fs), NEW V, NEW F, NEW s, NEW h, Tallied(V, F, s, h), Figures,
         NEW f, f \notin F, Node(f) \in DOMAIN fs.dev,
         NEW e, e = h_enter(h, fs.dev[Node(f)], fs.ino[Node(f)])
  PROVE  Tallied(V, F \cup {f}, IF e.old /\ ~opts.duplicates THEN s ELSE With(s, Node(f)), e.h)
<1> DEFINE n == Node(f)
           G == F \cup {f}
           ways == Total([v \in V |-> Last(v).node])
<1>1. /\ IsFiniteSet(V) /\ \A v \in V : Last(v).node \in DOMAIN fs.dev
      /\ IsFiniteSet(F) /\ \A g \in F : Node(g) \in DOMAIN fs.dev
      /\ HashOK(h)
      /\ \A m \in DOMAIN fs.dev : Entered(h, fs.dev[m], fs.ino[m]) <=> m \in Nodes(F)
      /\ s = CountOf(V, F)
  BY DEF Tallied
<1>2. /\ n \in DOMAIN fs.dev
      /\ \A m \in DOMAIN fs.dev : fs.dev[m] \in Nat /\ fs.ino[m] \in Nat \ {0}
      /\ \A m, k \in DOMAIN fs.dev : fs.dev[m] = fs.dev[k] /\ fs.ino[m] = fs.ino[k] => m = k
  BY DEF FileSystemOK
<1>3. /\ IsFiniteSet(G) /\ \A g \in G : Node(g) \in DOMAIN fs.dev
      /\ Nodes(G) = Nodes(F) \cup {n}
      /\ IsFiniteSet(Nodes(F)) /\ \A m \in Nodes(F) : m \in DOMAIN fs.dev
  <2>1. Nodes(G) = Nodes(F) \cup {n}
    BY DEF Nodes
  <2>2. IsFiniteSet(G)
    BY <1>1, FS_AddElement
  <2> QED BY <1>1, <2>1, <2>2, NodesFinite DEF Nodes
<1>4. ways \in FigureSet
  <2> DEFINE a == [v \in V |-> Last(v).node]
  <2>1. DOMAIN a = V /\ \A v \in V : a[v] \in DOMAIN fs.dev
    BY <1>1
  <2> HIDE DEF a
  <2>2. Total(a) \in FigureSet
    BY <1>1, <2>1, CountFacts
  <2> QED BY <2>2 DEF a
<1>5. K(fs.blocks[n]) \in Int
  <2>1. Zero \in FigureSet
    BY DEF Zero, FigureSet
  <2> QED BY <1>2, <2>1, MoreFigures, Zenon
<1> HIDE DEF n, G, ways
<1>6. /\ HashOK(e.h) /\ (e.old <=> n \in Nodes(F))
      /\ \A m \in DOMAIN fs.dev : Entered(e.h, fs.dev[m], fs.ino[m]) <=> m \in Nodes(G)
  <2>1. e = h_enter(h, fs.dev[n], fs.ino[n])
    BY DEF n
  <2>2. fs.dev[n] \in Nat /\ fs.ino[n] \in Nat \ {0}
    BY <1>2
  <2>3. /\ HashOK(e.h)
        /\ e.old <=> Entered(h, fs.dev[n], fs.ino[n])
        /\ \A d, k \in Nat : Entered(e.h, d, k) <=>
              Entered(h, d, k) \/ (d = fs.dev[n] /\ k = fs.ino[n])
    <3> DEFINE dev == fs.dev[n]
               ino == fs.ino[n]
    <3>1. dev \in Nat /\ ino \in Nat \ {0} /\ e = h_enter(h, dev, ino) /\ HashOK(h)
      BY <1>1, <2>1, <2>2
    <3> HIDE DEF dev, ino
    <3>2. /\ HashOK(h_enter(h, dev, ino).h)
          /\ h_enter(h, dev, ino).old <=> Entered(h, dev, ino)
          /\ \A d, k \in Nat : Entered(h_enter(h, dev, ino).h, d, k) <=>
                Entered(h, d, k) \/ (d = dev /\ k = ino)
      BY <3>1, EntersLikeASet
    <3> QED BY <3>1, <3>2 DEF dev, ino
  <2> QED BY <1>1, <1>2, <1>3, <2>3
<1>7. Tallied(V, G, CountOf(V, G), e.h)
  BY <1>1, <1>3, <1>6 DEF Tallied
<1>8. CountOf(V, G) = IF e.old /\ ~opts.duplicates THEN s ELSE With(s, n)
  <2>1. CASE opts.duplicates
    <3> DEFINE a == [g \in F |-> Node(g)]
               b == [g \in G |-> Node(g)]
    <3>1. /\ DOMAIN a = F /\ DOMAIN b = DOMAIN a \cup {f} /\ b[f] = n
          /\ \A g \in F : a[g] \in DOMAIN fs.dev /\ b[g] = a[g]
      BY <1>1 DEF G, n
    <3>2. CountOf(V, F) = Plus(ways, Total(a)) /\ CountOf(V, G) = Plus(ways, Total(b))
      BY <2>1 DEF CountOf, ways
    <3> HIDE DEF a, b
    <3>3. Total(b) = With(Total(a), n) /\ Total(a) \in FigureSet
      <4>1. /\ IsFiniteSet(DOMAIN a) /\ f \notin DOMAIN a /\ b[f] \in DOMAIN fs.dev
            /\ \A g \in DOMAIN a : a[g] \in DOMAIN fs.dev /\ b[g] = a[g]
        BY <1>1, <1>2, <3>1
      <4>2. Total(b) = With(Total(a), b[f]) /\ Total(a) \in FigureSet
        BY <3>1, <4>1, TotalWithOne
      <4> QED BY <3>1, <4>2
    <3>4. Plus(ways, With(Total(a), n)) = With(Plus(ways, Total(a)), n)
      BY <1>4, <1>5, <3>3 DEF Plus, With, FigureSet
    <3> QED BY <1>1, <2>1, <3>2, <3>3, <3>4
  <2>2. CASE ~opts.duplicates
    <3> DEFINE a == [m \in Nodes(F) |-> m]
               b == [m \in Nodes(G) |-> m]
    <3>1. CountOf(V, F) = Plus(ways, Total(a)) /\ CountOf(V, G) = Plus(ways, Total(b))
      BY <2>2 DEF CountOf, ways
    <3>2. CASE e.old
      <4>1. Nodes(G) = Nodes(F)
        BY <1>3, <1>6, <3>2
      <4> QED BY <1>1, <2>2, <3>1, <3>2, <4>1
    <3>3. CASE ~e.old
      <4>1. /\ DOMAIN a = Nodes(F) /\ DOMAIN b = DOMAIN a \cup {n} /\ b[n] = n
            /\ \A m \in Nodes(F) : a[m] \in DOMAIN fs.dev /\ b[m] = a[m]
        BY <1>3
      <4> HIDE DEF a, b
      <4>2. Total(b) = With(Total(a), n) /\ Total(a) \in FigureSet
        BY SMTT(30), <1>2, <1>3, <1>6, <3>3, <4>1, TotalWithOne
      <4>3. Plus(ways, With(Total(a), n)) = With(Plus(ways, Total(a)), n)
        BY <1>4, <1>5, <4>2 DEF Plus, With, FigureSet
      <4> QED BY <1>1, <3>1, <3>3, <4>2, <4>3
    <3> QED BY <3>2, <3>3
  <2> QED BY <2>1, <2>2
<1> QED BY <1>7, <1>8 DEF n, G

\* At first nothing has been counted.
LEMMA TalliedNone ==
  ASSUME FileSystemOK(fs)
  PROVE  Tallied({}, {}, Zero, [tables |-> <<>>, tablep |-> 0])
<1> DEFINE h == [tables |-> <<>>, tablep |-> 0]
<1>1. HashOK(h) /\ \A dev, ino \in Nat : ~Entered(h, dev, ino)
  BY NothingEntered
<1>2. \A m \in DOMAIN fs.dev : fs.dev[m] \in Nat /\ fs.ino[m] \in Nat
  BY DEF FileSystemOK
<1> HIDE DEF h
<1>3. CountOf({}, {}) = Zero
  <2> DEFINE a == [v \in {} |-> Last(v).node]
             c == [f \in {} |-> Node(f)]
             d == [n \in Nodes({}) |-> n]
  <2>1. DOMAIN a = {} /\ DOMAIN c = {} /\ DOMAIN d = {}
    BY DEF Nodes
  <2>2. CountOf({}, {}) = Plus(Total(a), Zero) \/ CountOf({}, {}) = Plus(Total(a), Total(c))
        \/ CountOf({}, {}) = Plus(Total(a), Total(d))
    BY DEF CountOf
  <2> HIDE DEF a, c, d
  <2>3. Total(a) = Zero /\ Total(c) = Zero /\ Total(d) = Zero
    BY <2>1, TotalOfNone
  <2>4. Plus(Zero, Zero) = Zero
    BY DEF Plus, Zero
  <2> QED BY <2>2, <2>3, <2>4
<1>4. Nodes({}) = {}
  BY DEF Nodes
<1>5. Tallied({}, {}, Zero, h)
  BY <1>1, <1>2, <1>3, <1>4, FS_EmptySet DEF Tallied
<1> QED BY <1>5 DEF h

-----------------------------------------------------------------------------
(* The steps that stay on the trail *)

\* The names that the running call has gone past in its present loop.
Handled(f) == {f.list[x] : x \in 1 .. (f.i - 1)}

\* The call that runs in the stack s does not yet call others.
Busy(s) == s # <<>> /\ s[Len(s)].loop # "descend"

\* The files of the ways V that have been counted: of w, whose directory the running
\* call counts, those it has gone past.
FilesOf(V, w, s) ==
    {f \in Files(V) :
        f[1] = w /\ Busy(s) => s[Len(s)].loop = "count" /\ f[2] \in Handled(s[Len(s)])}

\* A file is a way with a name that the directory at its end has.
LEMMA FilesAre ==
  ASSUME NEW V
  PROVE  /\ \A f \in Files(V) : /\ f[1] \in V /\ f[2] \in Names(Last(f[1]), FALSE)
                                /\ f = <<f[1], f[2]>>
         /\ \A v \in V : \A m \in Names(Last(v), FALSE) : <<v, m>> \in Files(V)
<1>1. ASSUME NEW f \in Files(V)
      PROVE  f[1] \in V /\ f[2] \in Names(Last(f[1]), FALSE) /\ f = <<f[1], f[2]>>
  <2>1. PICK v \in V : f \in {<<v, m>> : m \in Names(Last(v), FALSE)}
    BY DEF Files
  <2>2. PICK m \in Names(Last(v), FALSE) : f = <<v, m>>
    BY <2>1
  <2> QED BY <2>2
<1>2. ASSUME NEW v \in V, NEW m \in Names(Last(v), FALSE)
      PROVE  <<v, m>> \in Files(V)
  <2>1. <<v, m>> \in {<<v, k>> : k \in Names(Last(v), FALSE)}
    OBVIOUS
  <2>2. {<<v, k>> : k \in Names(Last(v), FALSE)}
          \in {{<<u, k>> : k \in Names(Last(u), FALSE)} : u \in V}
    OBVIOUS
  <2> QED BY <2>1, <2>2, Zenon DEF Files
<1> QED BY <1>1, <1>2

\* s are the figures of the ways V and those of their files that have been counted.
Counted(V, w, s, sum, h) ==
    /\ Tallied(V, FilesOf(V, w, s), sum, h)
    /\ Busy(s) => w \in V /\ Last(w).node = s[Len(s)].dir /\ Last(w).depth = Len(s) - 1

\* Nothing is counted unless the files of the running call become others.
LEMMA CountedAlike ==
  ASSUME NEW V, NEW w, NEW s, NEW sum, NEW h, Counted(V, w, s, sum, h),
         NEW t, Figures => FilesOf(V, w, t) = FilesOf(V, w, s),
         Busy(t) => /\ Busy(s) /\ Len(t) = Len(s) /\ t[Len(t)].dir = s[Len(s)].dir
  PROVE  Counted(V, w, t, sum, h)
<1>1. Tallied(V, FilesOf(V, w, t), sum, h)
  <2>1. CASE Figures
    BY <2>1 DEF Counted
  <2>2. CASE ~Figures
    BY <2>2 DEF Counted, Tallied, CountOf
  <2> QED BY <2>1, <2>2
<1> QED BY <1>1 DEF Counted

\* What is printed is taken from one sum and put to the other.
LEMMA PrintsSame ==
  ASSUME Walk, NEW printing, Prints(printing)
  PROVE  Plus(total', tally') = Plus(total, tally)
<1>1. tally \in FigureSet /\ total \in FigureSet
  BY DEF Walk
<1>2. CASE ~printing
  BY <1>2 DEF Prints
<1>3. CASE printing
  <2>1. total' = Plus(total, tally) /\ tally' = Zero
    BY <1>3 DEF Prints, PrintFigures
  <2> QED BY <1>1, <2>1 DEF Plus, Zero, FigureSet
<1> QED BY <1>2, <1>3

\* The files below the place of the running call are names of its list.
LEMMA FilesOfCall ==
  ASSUME Walk, stack # <<>>, NEW at, at.node = Top.dir, NEW m \in Names(at, FALSE)
  PROVE  /\ m \in DOMAIN fs.entries[Top.dir] /\ ~IsDir(fs.entries[Top.dir][m]) /\ m # Dot
         /\ Figures => m \in Kept(Top.dir)
<1>1. m \in DOMAIN fs.entries[Top.dir] /\ ~IsDir(fs.entries[Top.dir][m])
  BY DEF Names
<1>2. Top.dir \in DOMAIN fs.entries /\ FileSystemOK(fs)
  BY TopFacts DEF Walk
<1>3. m # Dot
  BY <1>1, <1>2 DEF FileSystemOK
<1> QED BY <1>1, <1>3 DEF Kept, Listed

\* The entry that the running call is at has not been handled, and then it has.
LEMMA HandledOne ==
  ASSUME Walk, stack # <<>>, Top.loop # "list", ~AtEnd
  PROVE  /\ Entry \notin Handled(Top)
         /\ \A g : g.list = Top.list /\ g.i = Top.i + 1 => Handled(g) = Handled(Top) \cup {Entry}
<1>1. /\ CallOK(Top) /\ Top.list \in Seq(Nat) /\ Len(Top.list) \in Nat
      /\ DOMAIN Top.list = 1 .. Len(Top.list) /\ Top.i \in Nat \ {0}
  BY TopFacts DEF FrameSet
<1>2. Top.i \in 1 .. Len(Top.list) /\ Entry = Top.list[Top.i]
  BY <1>1 DEF AtEnd, Entry
<1>3. \A x \in 1 .. (Top.i - 1) : x \in 1 .. Len(Top.list) /\ x # Top.i
  BY <1>1, <1>2
<1>4. \A x \in 1 .. (Top.i - 1) : Top.list[x] # Entry
  BY <1>1, <1>2, <1>3 DEF CallOK, IsInjective
<1>5. \A x : x \in 1 .. ((Top.i + 1) - 1) <=> x \in 1 .. (Top.i - 1) \/ x = Top.i
  BY <1>1
<1>6. ASSUME NEW g, g.list = Top.list, g.i = Top.i + 1
      PROVE  Handled(g) = Handled(Top) \cup {Entry}
  BY <1>2, <1>5, <1>6 DEF Handled
<1> QED BY <1>4, <1>6 DEF Handled

\* At the end all have.
LEMMA HandledAll ==
  ASSUME Walk, stack # <<>>, Top.loop # "list", AtEnd
  PROVE  Handled(Top) = Kept(Top.dir)
<1>1. /\ CallOK(Top) /\ Top.list \in Seq(Nat) /\ Len(Top.list) \in Nat
      /\ DOMAIN Top.list = 1 .. Len(Top.list) /\ Top.i \in Nat \ {0}
  BY TopFacts DEF FrameSet
<1>2. Top.i = Len(Top.list) + 1 /\ Range(Top.list) = Kept(Top.dir)
  BY <1>1 DEF CallOK, AtEnd
<1>3. \A x : x \in 1 .. (Top.i - 1) <=> x \in DOMAIN Top.list
  BY <1>1, <1>2
<1> QED BY <1>2, <1>3 DEF Handled, Range

\* Counting an entry counts the file that it is, if it is one.
LEMMA CountingCounts ==
  ASSUME Walk, Intact, NEW V, NEW w, Counted(V, w, stack, Plus(total, tally), hash), CountEntry
  PROVE  Counted(V, w, stack', Plus(total', tally'), hash')
<1> DEFINE n == Lookup(Top.dir, Entry)
           F == FilesOf(V, w, stack)
           m == Entry
           g == [Top EXCEPT !.i = @ + 1]
           e == h_enter(hash, fs.dev[n], fs.ino[n])
<1>1. /\ stack # <<>> /\ Top.loop = "count" /\ ~AtEnd
      /\ n \in DOMAIN fs.dev \ {NONE} /\ n \in Nat
      /\ m \in Kept(Top.dir)
      /\ total' = total /\ stack' = Advanced
      /\ IF n \in DOMAIN fs.entries THEN UNCHANGED <<hash, tally>>
         ELSE /\ hash' = e.h
              /\ tally' = IF e.old /\ ~opts.duplicates THEN tally ELSE With(tally, n)
  BY Counting
<1>2. /\ g \in FrameSet /\ g.loop = Top.loop /\ g.i = Top.i + 1 /\ g.list = Top.list
      /\ g.dir = Top.dir /\ Len(stack') = Len(stack) /\ stack' # <<>> /\ stack'[Len(stack)] = g
  BY <1>1, AdvancedOK
<1>3. m \notin Handled(Top) /\ Handled(g) = Handled(Top) \cup {m}
  BY <1>1, <1>2, HandledOne
<1>4. /\ FileSystemOK(fs) /\ Top.dir \in DOMAIN fs.entries /\ CallOK(Top)
      /\ Top.dir \notin fs.unreadable /\ Top = stack[Len(stack)]
      /\ Len(stack) - 1 # opts.depth \/ opts.sum
  BY <1>1, TopFacts DEF Walk
<1>5. Figures
  BY <1>1, <1>4 DEF CallOK
<1>6. w \in V /\ Last(w).node = Top.dir /\ Last(w).depth = Len(stack) - 1
  BY <1>1, <1>4 DEF Counted, Busy
<1>7. /\ Busy(stack) /\ Busy(stack') /\ g = stack'[Len(stack')]
      /\ Top.loop = "count" /\ g.loop = "count"
  BY <1>1, <1>2, <1>4 DEF Busy
<1> HIDE DEF g
<1>8. /\ \A f : f \in F <=> f \in Files(V) /\ (f[1] = w => f[2] \in Handled(Top))
      /\ \A f : f \in FilesOf(V, w, stack') <=> f \in Files(V) /\ (f[1] = w => f[2] \in Handled(g))
  BY <1>4, <1>7 DEF FilesOf
<1>9. CASE n \in DOMAIN fs.entries
  <2>1. m \notin Names(Last(w), FALSE)
    <3> SUFFICES ASSUME m \in Names(Last(w), FALSE) PROVE FALSE
      OBVIOUS
    <3>1. ~IsDir(fs.entries[Top.dir][m]) /\ m # Dot /\ m \in DOMAIN fs.entries[Top.dir]
      BY <1>1, <1>6, FilesOfCall
    <3>2. n = fs.entries[Top.dir][m]
      BY <3>1 DEF Lookup
    <3> QED BY <1>9, <3>1, <3>2 DEF IsDir
  <2>2. \A f \in Files(V) : f[1] = w => f[2] # m
    BY <2>1, FilesAre
  <2>3. FilesOf(V, w, stack') = F
    BY <1>3, <1>8, <2>2
  <2> QED BY <1>1, <1>2, <1>4, <1>7, <1>9, <2>3, CountedAlike
<1>10. CASE n \notin DOMAIN fs.entries
  <2> DEFINE f == <<w, m>>
  <2>1. m # Dot /\ m \in DOMAIN fs.entries[Top.dir] /\ n = fs.entries[Top.dir][m]
    <3>1. m # Dot
      BY <1>4, <1>10 DEF Lookup
    <3>2. n # NONE
      BY <1>1
    <3> QED BY <3>1, <3>2 DEF Lookup
  <2>2. m \in Names(Last(w), FALSE)
    BY <1>4, <1>6, <1>10, <2>1 DEF Names, Goes, IsDir
  <2>3. f \in Files(V) /\ f[1] = w /\ f[2] = m
    BY <1>6, <2>2, FilesAre
  <2>4. f \notin F
    BY <1>3, <1>8, <2>3
  <2>5. FilesOf(V, w, stack') = F \cup {f}
    <3>1. \A x \in Files(V) : x[1] = w /\ x[2] = m => x = f
      BY FilesAre
    <3> HIDE DEF f, F
    <3> QED BY <1>3, <1>8, <2>3, <3>1
  <2>6. Node(f) = n
    BY <1>6, <2>1, <2>3 DEF Node
  <2>7. tally \in FigureSet /\ total \in FigureSet
    BY DEF Walk
  <2>8. Tallied(V, F, Plus(total, tally), hash)
    BY DEF Counted
  <2>9. e = h_enter(hash, fs.dev[Node(f)], fs.ino[Node(f)]) /\ Node(f) \in DOMAIN fs.dev
    BY <1>1, <2>6
  <2> DEFINE sum == Plus(total, tally)
  <2> HIDE DEF f, F, e, sum, n
  <2>10. Tallied(V, F \cup {f}, IF e.old /\ ~opts.duplicates THEN sum ELSE With(sum, Node(f)), e.h)
    BY <1>4, <1>5, <2>4, <2>8, <2>9, TalliedFile DEF sum
  <2>11. Plus(total', tally') = (IF e.old /\ ~opts.duplicates THEN sum ELSE With(sum, n))
    <3>1. K(fs.blocks[n]) \in Int
      BY <1>1, <1>4, <2>7, MoreFigures
    <3>2. Plus(total, With(tally, n)) = With(sum, n)
      BY <2>7, <3>1 DEF Plus, With, FigureSet, sum
    <3> QED BY <1>1, <1>10, <3>2 DEF sum
  <2>12. hash' = e.h
    BY <1>1, <1>10
  <2>13. Tallied(V, FilesOf(V, w, stack'), Plus(total', tally'), hash')
    BY <2>5, <2>6, <2>10, <2>11, <2>12
  <2> QED BY <1>2, <1>6, <1>7, <2>13 DEF Counted
<1> QED BY <1>9, <1>10

\* The steps that neither visit a directory nor begin or end with an argument.
LEMMA StayingCounts ==
  ASSUME Walk, Intact, NEW V, NEW w, Counted(V, w, stack, Plus(total, tally), hash),
         ReadEntry \/ EndList \/ CountEntry \/ EndCount \/ Leave
  PROVE  Counted(V, w, stack', Plus(total', tally'), hash')
<1>1. CASE ReadEntry
  <2>1. stack # <<>> /\ Top.loop = "list" /\ UNCHANGED <<tally, total, hash>>
    BY <1>1, Reading
  <2>2. PICK g : Rewrites(g) /\ g.loop = "list" /\ g.i = 1
    BY <1>1, Reading
  <2>3. Len(stack') = Len(stack) /\ stack' # <<>> /\ stack'[Len(stack)] = g /\ g.dir = Top.dir
    BY <2>1, <2>2, Rewritten DEF Rewrites
  <2>4. FilesOf(V, w, stack') = FilesOf(V, w, stack) /\ Busy(stack) /\ Busy(stack')
    BY <2>1, <2>2, <2>3 DEF FilesOf, Busy, Top
  <2> QED BY <2>1, <2>3, <2>4, CountedAlike DEF Top
<1>2. CASE EndList
  <2>1. stack # <<>> /\ Top.loop = "list" /\ UNCHANGED <<tally, total, hash>>
    BY <1>2, EndingList
  <2>2. PICK g : Rewrites(g) /\ g.loop = (IF Figures THEN "count" ELSE "descend") /\ g.i = 1
    BY <1>2, EndingList
  <2>3. Len(stack') = Len(stack) /\ stack' # <<>> /\ stack'[Len(stack)] = g /\ g.dir = Top.dir
    BY <2>1, <2>2, Rewritten DEF Rewrites
  <2>4. Busy(stack) /\ (Figures => Busy(stack'))
    BY <2>1, <2>2, <2>3 DEF Busy, Top
  <2>5. Handled(g) = {}
    <3>1. 1 .. (g.i - 1) = {}
      BY <2>2
    <3> QED BY <3>1 DEF Handled
  <2>6. Figures => FilesOf(V, w, stack') = FilesOf(V, w, stack)
    BY <2>1, <2>2, <2>3, <2>4, <2>5 DEF FilesOf, Busy, Top
  <2> QED BY <2>1, <2>3, <2>4, <2>6, CountedAlike DEF Top
<1>3. CASE CountEntry
  BY <1>3, CountingCounts
<1>4. CASE EndCount
  <2>1. /\ stack # <<>> /\ Top.loop = "count" /\ AtEnd /\ Figures /\ hash' = hash
        /\ Prints(cur_depth < opts.depth)
    BY <1>4, EndingCount
  <2>2. PICK g : Rewrites(g) /\ g.loop = "descend"
    BY <1>4, EndingCount
  <2>3. Len(stack') = Len(stack) /\ stack' # <<>> /\ stack'[Len(stack)] = g /\ g.dir = Top.dir
    BY <2>1, <2>2, Rewritten DEF Rewrites
  <2>4. Busy(stack) /\ ~Busy(stack')
    BY <2>1, <2>2, <2>3 DEF Busy, Top
  <2>5. Last(w).node = Top.dir
    BY <2>4 DEF Counted, Top
  <2>6. \A m \in Names(Last(w), FALSE) : m \in Handled(Top)
    BY <2>1, <2>5, HandledAll, FilesOfCall
  <2>7. \A f \in Files(V) : f[1] = w => f[2] \in Handled(Top)
    BY <2>6, FilesAre
  <2>8. FilesOf(V, w, stack') = FilesOf(V, w, stack)
    BY <2>1, <2>4, <2>7 DEF FilesOf, Top
  <2>9. Plus(total', tally') = Plus(total, tally)
    BY <2>1, PrintsSame
  <2> QED BY <2>1, <2>4, <2>8, <2>9, CountedAlike
<1>5. CASE Leave
  <2>1. /\ stack # <<>> /\ Top.loop = "descend" /\ hash' = hash
        /\ Prints(Figures /\ cur_depth = opts.depth) /\ stack' = Front(stack)
    BY <1>5, Leaving
  <2>2. /\ StackOK(Front(stack)) /\ Len(Front(stack)) = Len(stack) - 1
        /\ \A j \in 1 .. (Len(stack) - 1) : Front(stack)[j] = stack[j]
        /\ Len(stack) \in Nat \ {0} /\ (Front(stack) # <<>> <=> Len(stack) # 1)
    BY <2>1, StackPopped
  <2>3. ~Busy(stack) /\ ~Busy(stack')
    <3>1. ~Busy(stack)
      BY <2>1 DEF Busy, Top
    <3>2. CASE Front(stack) = <<>>
      BY <2>1, <3>1, <3>2 DEF Busy
    <3>3. CASE Front(stack) # <<>>
      <4> DEFINE k == Len(stack) - 1
      <4>1. k \in 1 .. (Len(stack) - 1) /\ k \in 1 .. Len(stack) /\ k < Len(stack)
        BY <2>2, <3>3
      <4>2. FrameOK(stack, k)
        BY <4>1 DEF Walk, StackOK
      <4>3. stack[k].loop = "descend"
        BY <4>1, <4>2 DEF FrameOK
      <4> QED BY <2>1, <2>2, <3>1, <4>1, <4>3 DEF Busy
    <3> QED BY <3>2, <3>3
  <2>4. FilesOf(V, w, stack') = FilesOf(V, w, stack)
    BY <2>3 DEF FilesOf
  <2>5. Plus(total', tally') = Plus(total, tally)
    BY <2>1, PrintsSame
  <2> QED BY <2>1, <2>3, <2>4, <2>5, CountedAlike
<1> QED BY <1>1, <1>2, <1>3, <1>4, <1>5

-----------------------------------------------------------------------------
(* The trail of the stack *)

\* The names of directories that d has, and those that its call f has not descended yet.
DirNames(d) == {m \in DOMAIN fs.entries[d] : IsDir(fs.entries[d][m])}
ToGo(f) == {m \in DirNames(f.dir) : f.loop = "descend" => m \notin Handled(f)}

\* The place of the j-th call of s after the first b; id is what the first one is called.
Stop(b, id, s, j) ==
    Place(IF j = 1 THEN id ELSE s[b + j - 1].list[s[b + j - 1].i - 1],
          s[b + j].dir, b + j - 1)
\* The way from the directory of the call after the first b to the one of the last call
\* of s, if there are so many.
Trail(b, id, s) == [j \in 1 .. (Len(s) - b) |-> Stop(b, id, s, j)]
Pending(b, s) == [j \in 1 .. (Len(s) - b) |-> ToGo(s[b + j])]

\* It is a sequence of places.
LEMMA TrailFacts ==
  ASSUME NEW s, StackOK(s), NEW b \in Nat, NEW id \in Nat
  PROVE  /\ Trail(b, id, s) \in Seq(PlaceSet)
         /\ Len(Trail(b, id, s)) = (IF Len(s) <= b THEN 0 ELSE Len(s) - b)
         /\ Trail(b, id, s) = <<>> <=> Len(s) <= b
         /\ Len(s) \in Nat
         /\ \A j \in 1 .. (Len(s) - b) :
               Trail(b, id, s)[j] = Stop(b, id, s, j)
<1> DEFINE p(j) == Stop(b, id, s, j)
           t == Trail(b, id, s)
           n == Len(s) - b
           k == IF Len(s) <= b THEN 0 ELSE Len(s) - b
<1>1. /\ s \in Seq(FrameSet) /\ Len(s) \in Nat
      /\ \A j \in 1 .. Len(s) : FrameOK(s, j) /\ s[j] \in FrameSet
  BY DEF StackOK
<1>2. ASSUME NEW j \in 1 .. n PROVE p(j) \in PlaceSet
  <2>1. b + j \in 1 .. Len(s) /\ b + j - 1 \in Int
    BY <1>1
  <2>2. s[b + j].dir \in DOMAIN fs.entries
    BY <1>1, <2>1 DEF FrameOK, CallOK
  <2>3. CASE j = 1
    BY <2>1, <2>2, <2>3 DEF PlaceSet, Place, Stop
  <2>4. CASE j # 1
    <3> DEFINE f == s[b + j - 1]
    <3>1. b + j - 1 \in 1 .. Len(s) /\ b + j - 1 < Len(s)
      BY <1>1, <2>4
    <3>2. f.loop = "descend" /\ f.i # 1 /\ f.i \in 1 .. (Len(f.list) + 1) /\ f.list \in Seq(Nat)
      BY <1>1, <3>1 DEF FrameOK, CallOK, FrameSet
    <3> HIDE DEF f
    <3>3. f.i - 1 \in 1 .. Len(f.list)
      BY <3>2
    <3>4. f.list[f.i - 1] \in Nat
      BY <3>2, <3>3
    <3> QED BY <2>1, <2>2, <2>4, <3>4 DEF PlaceSet, Place, Stop, f
  <2> QED BY <2>3, <2>4
<1>3. k \in Nat /\ 1 .. n = 1 .. k
  BY <1>1
<1>4. t = [j \in 1 .. n |-> p(j)]
  BY DEF Trail
<1>5. t \in [1 .. k -> PlaceSet] /\ \A j \in 1 .. n : t[j] = p(j)
  <2> DEFINE I == 1 .. n
  <2>1. (\A j \in I : p(j) \in PlaceSet) /\ t = [j \in I |-> p(j)]
    BY <1>2, <1>4
  <2> HIDE DEF t, p, I
  <2>2. t \in [I -> PlaceSet] /\ \A j \in I : t[j] = p(j)
    BY <2>1
  <2> QED BY <1>3, <2>2 DEF I
<1> HIDE DEF t, p, k
<1>6. t \in Seq(PlaceSet) /\ Len(t) = k
  BY <1>3, <1>5
<1>7. t = <<>> <=> k = 0
  BY <1>6
<1> QED BY <1>1, <1>5, <1>6, <1>7 DEF t, p, k

\* Its end is the place of the last call.
LEMMA TrailEnd ==
  ASSUME NEW s, StackOK(s), NEW b \in Nat, NEW id \in Nat, Len(s) > b
  PROVE  /\ Trail(b, id, s) # <<>> /\ Len(Trail(b, id, s)) = Len(s) - b
         /\ Last(Trail(b, id, s)) \in PlaceSet
         /\ Last(Trail(b, id, s)).node = s[Len(s)].dir
         /\ Last(Trail(b, id, s)).depth = Len(s) - 1
<1> DEFINE t == Trail(b, id, s)
           n == Len(s) - b
<1>1. /\ t \in Seq(PlaceSet) /\ Len(t) = n /\ t # <<>> /\ Len(s) \in Nat
      /\ n \in 1 .. n /\ b + n = Len(s) /\ b + n - 1 = Len(s) - 1
  <2>1. /\ t \in Seq(PlaceSet) /\ Len(t) = IF Len(s) <= b THEN 0 ELSE Len(s) - b
        /\ t = <<>> <=> Len(s) <= b
        /\ Len(s) \in Nat
    BY TrailFacts
  <2> HIDE DEF t
  <2>2. ~(Len(s) <= b)
    BY <2>1
  <2>3. /\ n \in Nat \ {0} /\ n \in 1 .. n /\ b + n = Len(s)
        /\ b + n - 1 = Len(s) - 1
    BY <2>1
  <2> HIDE DEF n
  <2>4. Len(t) = n
    BY <2>1, <2>2 DEF n
  <2>5. t # <<>>
    BY <2>1, <2>2
  <2> QED BY <2>1, <2>3, <2>4, <2>5
<1>2. t[n] = Stop(b, id, s, n)
  BY <1>1, TrailFacts
<1>3. Last(t) = t[n] /\ t[n] \in PlaceSet
  BY <1>1 DEF Last
<1> QED BY <1>1, <1>2, <1>3 DEF Place, Stop

\* It does not depend on the last call but for its directory.
LEMMA TrailSame ==
  ASSUME NEW s, StackOK(s), NEW t, StackOK(t), NEW b \in Nat, NEW id \in Nat,
         Len(t) = Len(s), s # <<>>, t[Len(s)].dir = s[Len(s)].dir,
         \A j \in 1 .. Len(s) : j # Len(s) => t[j] = s[j]
  PROVE  Trail(b, id, t) = Trail(b, id, s)
<1>1. Len(s) \in Nat
  BY DEF StackOK
<1>2. \A j \in 1 .. (Len(s) - b) : Stop(b, id, t, j) = Stop(b, id, s, j)
  <2> TAKE j \in 1 .. (Len(s) - b)
  <2>1. b + j \in 1 .. Len(s) /\ (j # 1 => b + j - 1 \in 1 .. Len(s) /\ b + j - 1 # Len(s))
    BY <1>1
  <2>2. t[b + j].dir = s[b + j].dir
    BY <2>1
  <2> QED BY <2>1, <2>2 DEF Stop
<1>3. Trail(b, id, t) = [j \in 1 .. (Len(s) - b) |-> Stop(b, id, t, j)]
  BY DEF Trail
<1>4. Trail(b, id, s) = [j \in 1 .. (Len(s) - b) |-> Stop(b, id, s, j)]
  BY DEF Trail
<1> QED BY <1>2, <1>3, <1>4

\* With one call more it has one place more.
LEMMA TrailPushed ==
  ASSUME NEW s, StackOK(s), NEW f, StackOK(Append(s, f)), f \in FrameSet,
         NEW b \in Nat, NEW id \in Nat, Len(s) > b
  PROVE  Trail(b, id, Append(s, f)) =
            Append(Trail(b, id, s), Place(s[Len(s)].list[s[Len(s)].i - 1], f.dir, Len(s)))
<1> DEFINE t == Append(s, f)
           x == Place(s[Len(s)].list[s[Len(s)].i - 1], f.dir, Len(s))
           p == Trail(b, id, s)
           q == Trail(b, id, t)
           n == Len(s) - b
<1>1. s \in Seq(FrameSet) /\ Len(s) \in Nat
  BY DEF StackOK
<1>2. Len(t) = Len(s) + 1 /\ t[Len(s) + 1] = f /\ \A j \in 1 .. Len(s) : t[j] = s[j]
  BY <1>1
<1>3. /\ p \in Seq(PlaceSet) /\ Len(p) = n /\ q \in Seq(PlaceSet) /\ Len(q) = n + 1
      /\ n \in Nat \ {0}
  <2>1. p \in Seq(PlaceSet) /\ Len(p) = n
    <3>1. p \in Seq(PlaceSet) /\ Len(p) = IF Len(s) <= b THEN 0 ELSE Len(s) - b
      BY TrailFacts
    <3> QED BY <1>1, <3>1
  <2>2. q \in Seq(PlaceSet) /\ Len(q) = IF Len(t) <= b THEN 0 ELSE Len(t) - b
    BY TrailFacts
  <2> QED BY <1>1, <1>2, <2>1, <2>2
<1>4. ASSUME NEW j \in 1 .. n PROVE q[j] = p[j]
  <2>1. j \in 1 .. (Len(s) - b) /\ j \in 1 .. (Len(t) - b)
    BY <1>1, <1>2
  <2>2. p[j] = Stop(b, id, s, j)
    BY <2>1, TrailFacts
  <2>3. q[j] = Stop(b, id, t, j)
    <3>1. StackOK(t)
      OBVIOUS
    <3> HIDE DEF t
    <3> QED BY <2>1, <3>1, TrailFacts
  <2>4. t[b + j] = s[b + j] /\ (j # 1 => t[b + j - 1] = s[b + j - 1])
    BY <1>1, <1>2
  <2> QED BY <2>2, <2>3, <2>4 DEF Stop
<1>5. q[n + 1] = x
  <2> DEFINE j == n + 1
  <2>1. j \in 1 .. (Len(t) - b) /\ j # 1 /\ b + j = Len(s) + 1 /\ b + j - 1 = Len(s)
        /\ Len(s) \in 1 .. Len(s)
    BY <1>1, <1>2, <1>3
  <2>2. StackOK(t)
    OBVIOUS
  <2> HIDE DEF j, t
  <2>3. q[j] = Stop(b, id, t, j)
    BY <2>1, <2>2, TrailFacts
  <2> QED BY <1>2, <2>1, <2>3 DEF j, t, Stop
<1> HIDE DEF p, q, n, x
<1>6. x \in PlaceSet
  BY <1>3, <1>5
<1>7. /\ Append(p, x) \in Seq(PlaceSet) /\ Len(Append(p, x)) = n + 1 /\ Append(p, x)[n + 1] = x
      /\ \A j \in 1 .. n : Append(p, x)[j] = p[j]
  BY <1>3, <1>6
<1>8. \A j \in 1 .. (n + 1) : q[j] = Append(p, x)[j]
  BY <1>3, <1>4, <1>5, <1>7
<1>9. q = Append(p, x)
  <2> DEFINE u == Append(p, x)
  <2> HIDE DEF u
  <2> QED BY <1>3, <1>7, <1>8 DEF u
<1> QED BY <1>9 DEF p, q, x

\* With one call less it has one place less.
LEMMA TrailPopped ==
  ASSUME NEW s, StackOK(s), NEW t, StackOK(t), NEW b \in Nat, NEW id \in Nat, Len(s) > b,
         Len(t) = Len(s) - 1, \A j \in 1 .. (Len(s) - 1) : t[j] = s[j]
  PROVE  Trail(b, id, t) = Front(Trail(b, id, s))
<1> DEFINE p == Trail(b, id, s)
           q == Trail(b, id, t)
           n == Len(s) - b
<1>1. Len(s) \in Nat
  BY DEF StackOK
<1>2. /\ p \in Seq(PlaceSet) /\ Len(p) = n /\ n \in Nat \ {0} /\ p # <<>>
      /\ q \in Seq(PlaceSet) /\ Len(q) = n - 1
  <2>1. p \in Seq(PlaceSet) /\ Len(p) = n /\ p # <<>>
    <3>1. /\ p \in Seq(PlaceSet) /\ Len(p) = IF Len(s) <= b THEN 0 ELSE Len(s) - b
          /\ p = <<>> <=> Len(s) <= b
      BY TrailFacts
    <3> QED BY <1>1, <3>1
  <2>2. q \in Seq(PlaceSet) /\ Len(q) = IF Len(t) <= b THEN 0 ELSE Len(t) - b
    BY TrailFacts
  <2> QED BY <1>1, <2>1, <2>2
<1>3. /\ \A j \in 1 .. (Len(s) - b) :
            p[j] = Stop(b, id, s, j)
      /\ \A j \in 1 .. (Len(t) - b) :
            q[j] = Stop(b, id, t, j)
  BY TrailFacts
<1> HIDE DEF p, q
<1>4. ASSUME NEW j \in 1 .. (n - 1) PROVE q[j] = p[j]
  <2>1. j \in 1 .. (Len(s) - b) /\ j \in 1 .. (Len(t) - b)
    BY <1>1
  <2>2. p[j] = Stop(b, id, s, j)
    BY <2>1, <1>3
  <2>3. q[j] = Stop(b, id, t, j)
    BY <2>1, <1>3
  <2>4. t[b + j] = s[b + j] /\ (j # 1 => t[b + j - 1] = s[b + j - 1])
    BY <1>1
  <2> QED BY <2>2, <2>3, <2>4 DEF Stop
<1> HIDE DEF n
<1>5. /\ Front(p) \in Seq(PlaceSet) /\ Len(Front(p)) = n - 1
      /\ \A j \in 1 .. (n - 1) : Front(p)[j] = p[j]
  BY <1>2, FrontFacts
<1>6. q = Front(p)
  BY <1>2, <1>4, <1>5
<1> QED BY <1>6 DEF p, q

-----------------------------------------------------------------------------
(* What the steps do to the part of the ways that has been gone *)

\* The ways of W that have been gone, when the first b calls of s are left out.
Gone(W, b, id, s) == Reached(W, Trail(b, id, s), Pending(b, s))
Going(W, b, id, s) == OnTrail(W, Trail(b, id, s), Pending(b, s))

\* Ways that came to be one place after the other.
Grows(W) == \A w \in W : Len(w) > 1 => Front(w) \in W

\* Pending has a place for each place of the trail.
LEMMA PendingAt ==
  ASSUME NEW s, StackOK(s), NEW b \in Nat, NEW j \in 1 .. (Len(s) - b)
  PROVE  Pending(b, s)[j] = ToGo(s[b + j]) /\ b + j \in 1 .. Len(s)
<1>1. Len(s) \in Nat
  BY DEF StackOK
<1> QED BY <1>1 DEF Pending

\* Of the last call only what it has still to descend matters.
LEMMA GoneSame ==
  ASSUME NEW s, StackOK(s), NEW t, StackOK(t), NEW b \in Nat, NEW id \in Nat, NEW W,
         Len(t) = Len(s), s # <<>>, t[Len(s)].dir = s[Len(s)].dir,
         ToGo(t[Len(s)]) = ToGo(s[Len(s)]),
         \A j \in 1 .. Len(s) : j # Len(s) => t[j] = s[j]
  PROVE  /\ Gone(W, b, id, t) = Gone(W, b, id, s)
         /\ Going(W, b, id, s) => Going(W, b, id, t)
<1>1. Trail(b, id, t) = Trail(b, id, s)
  BY TrailSame
<1> DEFINE p == Trail(b, id, s)
           q == Pending(b, s)
           r == Pending(b, t)
<1>2. p \in Seq(PlaceSet) /\ Len(p) = (IF Len(s) <= b THEN 0 ELSE Len(s) - b) /\ Len(s) \in Nat
  BY TrailFacts
<1>3. ASSUME NEW j \in 1 .. Len(p) PROVE r[j] = q[j]
  <2>1. j \in 1 .. (Len(s) - b) /\ j \in 1 .. (Len(t) - b)
    BY <1>2
  <2>2. q[j] = ToGo(s[b + j]) /\ r[j] = ToGo(t[b + j]) /\ b + j \in 1 .. Len(s)
    BY <2>1, PendingAt
  <2>3. ToGo(s[b + j]) = ToGo(t[b + j])
    BY <2>2
  <2> QED BY <2>2, <2>3
<1> HIDE DEF p, q, r
<1>4. /\ Reached(W, p, r) = Reached(W, p, q)
      /\ Len(p) \in Nat /\ OnTrail(W, p, q) => OnTrail(W, p, r)
  BY <1>3, ReachSame
<1>5. Len(p) \in Nat
  BY <1>2
<1> QED BY <1>1, <1>4, <1>5 DEF Gone, Going, p, q, r

\* When the directory of the last call has been descended, its place is left.
LEMMA GoneLeft ==
  ASSUME NEW s, StackOK(s), NEW t, StackOK(t), NEW b \in Nat, NEW id \in Nat, NEW W,
         s # <<>>, ToGo(s[Len(s)]) = {},
         Len(t) = Len(s) - 1, \A j \in 1 .. (Len(s) - 1) : t[j] = s[j],
         Grows(W), Going(W, b, id, s)
  PROVE  Gone(W, b, id, t) = Gone(W, b, id, s) /\ Going(W, b, id, t)
<1>1. Len(s) \in Nat \ {0}
  BY DEF StackOK
<1>2. CASE Len(s) > b
  <2> DEFINE p == Trail(b, id, s)
             q == Pending(b, s)
             r == Pending(b, t)
  <2>1. Trail(b, id, t) = Front(p)
    BY <1>2, TrailPopped
  <2>2. p # <<>> /\ Len(p) = Len(s) - b
    BY <1>2, TrailEnd
  <2>3. Len(p) \in 1 .. (Len(s) - b) /\ b + Len(p) = Len(s)
    BY <1>1, <1>2, <2>2
  <2>4. q[Len(p)] = {}
    <3> DEFINE k == Len(p)
    <3>1. k \in 1 .. (Len(s) - b) /\ b + k = Len(s)
      BY <2>3
    <3> HIDE DEF k
    <3>2. q[k] = ToGo(s[b + k])
      BY <3>1, PendingAt
    <3> QED BY <3>1, <3>2 DEF k
  <2>5. ASSUME NEW j \in 1 .. (Len(p) - 1) PROVE r[j] = q[j]
    <3>1. j \in 1 .. (Len(s) - b) /\ j \in 1 .. (Len(t) - b) /\ b + j \in 1 .. (Len(s) - 1)
      BY <1>1, <2>2
    <3>2. q[j] = ToGo(s[b + j]) /\ r[j] = ToGo(t[b + j])
      BY <3>1, PendingAt
    <3> QED BY <3>1, <3>2
  <2>6. OnTrail(W, p, q)
    BY DEF Going
  <2>7. Len(p) > 1 => Front(p) \in W
    BY <2>2, <2>6 DEF OnTrail, Grows
  <2> HIDE DEF p, q, r
  <2>8. Reached(W, Front(p), r) = Reached(W, p, q) /\ OnTrail(W, Front(p), r)
    BY <2>2, <2>4, <2>5, <2>6, <2>7, ReachPop
  <2> QED BY <2>1, <2>8 DEF Gone, Going, p, q, r
<1>3. CASE ~(Len(s) > b)
  <2>1. Trail(b, id, s) = <<>> /\ Trail(b, id, t) = <<>>
    <3>1. Len(s) <= b /\ Len(t) <= b
      BY <1>1, <1>3
    <3> QED BY <3>1, TrailFacts
  <2>2. Reached(W, <<>>, Pending(b, s)) = W /\ Reached(W, <<>>, Pending(b, t)) = W
    BY ReachAll
  <2>3. OnTrail(W, <<>>, Pending(b, t))
    <3>1. 1 .. (Len(<<>>) - 1) = {}
      OBVIOUS
    <3> QED BY <2>1, <3>1 DEF Going, OnTrail
  <2> QED BY <2>1, <2>2, <2>3 DEF Gone, Going
<1> QED BY <1>2, <1>3

\* Where the walk does not go in, there are no names.
LEMMA GoesNowhere ==
  ASSUME NEW at, ~Goes(at)
  PROVE  Nexts(at) = {} /\ \A dirs : Names(at, dirs) = {}
BY DEF Nexts, Names

\* A new call has the names of all directories to go to that there are.
LEMMA NewToGo ==
  ASSUME FileSystemOK(fs), NEW x \in PlaceSet, NEW f, f.dir = x.node, f.loop = "list"
  PROVE  \A y \in Nexts(x) : y.name \in ToGo(f)
<1> TAKE y \in Nexts(x)
<1>1. y.name \in Names(x, TRUE)
  BY NextsFacts
<1> QED BY <1>1 DEF Names, ToGo, DirNames

\* The walk visits a directory from the end of the trail, and enters it or not.
LEMMA GoneOn ==
  ASSUME Lines, Walk, Intact, job' = job, NEW b \in Nat, NEW id \in Nat, NEW W,
         stack # <<>>, Top.loop = "descend", ~AtEnd, Len(stack) > b,
         Entry # Dot, NEW n \in DOMAIN fs.entries, n = fs.entries[Top.dir][Entry],
         Visits(n, Advanced), Going(W, b, id, stack),
         NEW x, x = Place(Entry, n, Len(stack)),
         Append(Trail(b, id, stack), x) \in W
  PROVE  LET v == Append(Trail(b, id, stack), x)
         IN  /\ Gone(W, b, id, stack') = Gone(W, b, id, stack) \cup {v}
             /\ v \notin Gone(W, b, id, stack)
             /\ Going(W, b, id, stack')
             /\ Busy(stack') => Trail(b, id, stack') = v
             /\ Last(v) = x
<1> DEFINE p == Trail(b, id, stack)
           q == Pending(b, stack)
           v == Append(p, x)
           k == Len(stack) - b
           a == Advanced
           g == [Top EXCEPT !.i = @ + 1]
<1>1. /\ Len(stack) \in Nat \ {0} /\ Top = stack[Len(stack)] /\ CallOK(Top)
      /\ Top.dir \in DOMAIN fs.entries /\ Top.dir \notin fs.unreadable
      /\ cur_depth = Len(stack) /\ cwd = Top.dir /\ FileSystemOK(fs) /\ StackOK(stack)
      /\ Len(stack) - 1 # opts.depth \/ opts.sum
      /\ n \in DOMAIN fs.dev /\ n \in Nat
  BY TopFacts DEF Walk, FileSystemOK
<1>2. /\ g \in FrameSet /\ CallOK(g) /\ g.dir = Top.dir
      /\ g.loop = Top.loop /\ g.i = Top.i + 1 /\ g.list = Top.list
      /\ StackOK(a) /\ Len(a) = Len(stack) /\ a # <<>> /\ a[Len(stack)] = g
      /\ \A j \in 0 .. Len(stack) : Dir(a, j) = Dir(stack, j)
      /\ \A j \in 1 .. Len(stack) : j # Len(stack) => a[j] = stack[j]
  BY ZenonT(60), AdvancedOK
<1>3. /\ Entry = Top.list[Top.i] /\ Entry \in Kept(Top.dir) /\ Top.i \in 1 .. Len(Top.list)
      /\ Entry \notin Handled(Top) /\ Handled(g) = Handled(Top) \cup {Entry}
  <2>1. /\ Entry = Top.list[Top.i] /\ Entry \in Kept(Top.dir) /\ Top.i \in 1 .. Len(Top.list)
    BY ZenonT(60), EntryFacts
  <2> HIDE DEF g
  <2> QED BY <1>2, <2>1, HandledOne
<1> HIDE DEF a, g
<1>4. Entry \in DOMAIN fs.entries[Top.dir] /\ Entry \in DirNames(Top.dir)
  BY <1>3 DEF Kept, DirNames, IsDir
<1>5. StackOK(stack')
  <2>1. Len(a) = cur_depth /\ cwd = Dir(a, Len(a))
    <3>1. Dir(stack, Len(stack)) = Top.dir /\ Len(stack) \in 0 .. Len(stack)
      BY <1>1 DEF Dir
    <3> QED BY <1>1, <1>2, <3>1
  <2>2. a # <<>> => a[Len(a)].loop = "descend" /\ a[Len(a)].i # 1
    <3>1. Top.i + 1 # 1
      BY <1>3
    <3> QED BY ZenonT(60), <1>2, <3>1
  <2>3. Visits(n, a)
    BY DEF a
  <2> QED BY <1>1, <1>2, <2>1, <2>2, <2>3, VisitOK
<1>6. /\ p # <<>> /\ Len(p) = k /\ Last(p) \in PlaceSet /\ Last(p).node = Top.dir
      /\ Last(p).depth = Len(stack) - 1 /\ p \in Seq(PlaceSet)
  <2>1. /\ p # <<>> /\ Len(p) = Len(stack) - b /\ Last(p) \in PlaceSet
        /\ Last(p).node = stack[Len(stack)].dir /\ Last(p).depth = Len(stack) - 1
    BY <1>1, TrailEnd
  <2>2. p \in Seq(PlaceSet)
    BY <1>1, TrailFacts
  <2> QED BY <1>1, <2>1, <2>2
<1> HIDE DEF p, q, v
<1>7. k \in Nat \ {0} /\ b + k = Len(stack) /\ k \in 1 .. (Len(stack) - b)
  BY <1>1
<1> HIDE DEF k
<1>8. x \in Nexts(Last(p)) /\ x.name = Entry /\ x.node = n /\ x.depth = Len(stack)
  <2>1. Entry \in Names(Last(p), TRUE)
    BY <1>1, <1>4, <1>6 DEF Names, Goes, IsDir
  <2>2. (Len(stack) - 1) + 1 = Len(stack)
    BY <1>1
  <2>3. x = Place(Entry, fs.entries[Last(p).node][Entry], Last(p).depth + 1)
    BY <1>6, <2>2
  <2>4. x \in Nexts(Last(p))
    BY <2>1, <2>3 DEF Nexts
  <2> QED BY <2>4 DEF Place
<1>9. x \in PlaceSet
  BY <1>1, <1>6, <1>8, NextsFacts
<1>10. OnTrail(W, p, q) /\ v \in W
  BY DEF Going, p, q, v
<1>11. p \in WaySet /\ Last(v) = x /\ Len(v) = k + 1 /\ Front(v) = p
  <2>1. p \in WaySet
    BY <1>6, <1>10 DEF OnTrail
  <2>2. /\ Last(v) = x /\ Len(v) = k + 1 /\ v \in WaySet
        /\ \A j \in 1 .. k : v[j] = p[j]
    <3>1. /\ Append(p, x) \in WaySet /\ Len(Append(p, x)) = Len(p) + 1
          /\ Last(Append(p, x)) = x
          /\ \A j \in 1 .. Len(p) : Append(p, x)[j] = p[j]
      BY <1>1, <1>8, <2>1, WayOn
    <3> QED BY ZenonT(60), <1>6, <3>1 DEF v
  <2>3. v \in Seq(PlaceSet) /\ v # <<>>
    BY <2>2 DEF WaySet
  <2>4. Front(v) \in Seq(PlaceSet) /\ Len(Front(v)) = k /\ \A j \in 1 .. k : Front(v)[j] = v[j]
    <3>1. Len(v) - 1 = k
      BY <1>7, <2>2
    <3> QED BY <2>3, <3>1, FrontFacts
  <2>5. Front(v) = p
    BY <1>6, <2>2, <2>4
  <2> QED BY <2>1, <2>2, <2>5
<1>12. q[k] = ToGo(Top) /\ Entry \in ToGo(Top) /\ ToGo(g) = ToGo(Top) \ {Entry}
  <2>1. q[k] = ToGo(stack[b + k])
    BY ZenonT(60), <1>1, <1>7, PendingAt DEF q
  <2>2. Entry \in ToGo(Top)
    BY ZenonT(60), <1>3, <1>4 DEF ToGo
  <2>3. ToGo(g) = ToGo(Top) \ {Entry}
    BY <1>2, <1>3 DEF ToGo
  <2> QED BY <1>1, <1>7, <2>1, <2>2, <2>3
\* What is pending with the call of the entry before the next one.
<1> DEFINE r == Pending(b, a)
<1>13. Trail(b, id, a) = p
  <2>1. stack # <<>> /\ Len(stack) \in 1 .. Len(stack) /\ a[Len(stack)].dir = stack[Len(stack)].dir
    BY <1>1, <1>2
  <2> QED BY <1>1, <1>2, <2>1, TrailSame DEF p
<1>14. r[k] = q[k] \ {x.name} /\ \A j \in 1 .. (k - 1) : r[j] = q[j]
  <2>1. ASSUME NEW j \in 1 .. k
        PROVE  r[j] = ToGo(a[b + j]) /\ q[j] = ToGo(stack[b + j]) /\ b + j \in 1 .. Len(stack)
    <3>1. j \in 1 .. (Len(stack) - b) /\ j \in 1 .. (Len(a) - b)
      BY <1>1, <1>2, <1>7
    <3> QED BY <1>1, <1>2, <3>1, PendingAt DEF q
  <2>2. r[k] = ToGo(g)
    BY <1>2, <1>7, <2>1
  <2>3. ASSUME NEW j \in 1 .. (k - 1) PROVE r[j] = q[j]
    <3>1. j \in 1 .. k /\ b + j # b + k
      BY <1>7
    <3> QED BY <1>2, <1>7, <2>1, <3>1
  <2> QED BY <1>8, <1>12, <2>2, <2>3
<1>15. ASSUME NEW u, u[k] = r[k], \A j \in 1 .. (k - 1) : u[j] = r[j],
              \A y \in Nexts(x) : y.name \in u[k + 1]
       PROVE  /\ Reached(W, v, u) = Reached(W, p, q) \cup {v}
              /\ v \notin Reached(W, p, q) /\ OnTrail(W, v, u)
  <2>1. /\ x.name \in q[Len(p)] /\ u[Len(p)] = q[Len(p)] \ {x.name}
        /\ \A j \in 1 .. (Len(p) - 1) : u[j] = q[j]
        /\ \A y \in Nexts(x) : y.name \in u[Len(p) + 1]
    BY <1>6, <1>8, <1>12, <1>14, <1>15
  <2>2. Append(p, x) \in W /\ x \in Nexts(Last(p)) /\ p # <<>> /\ OnTrail(W, p, q)
    BY ZenonT(60), <1>6, <1>8, <1>10 DEF v
  <2>4. Pushes(W, p, q, u, x)
    <3> HIDE DEF r
    <3> QED BY <1>1, <2>1, <2>2 DEF Pushes
  <2> HIDE DEF r
  <2>3. /\ Reached(W, Append(p, x), u) = Reached(W, p, q) \cup {Append(p, x)}
        /\ Append(p, x) \notin Reached(W, p, q)
        /\ OnTrail(W, Append(p, x), u)
    BY <2>4, ReachPush
  <2> QED BY <2>3 DEF v
<1>16. CASE Enters(n, a)
  <2> DEFINE f == NewCall(n)
             u == Pending(b, stack')
  <2>1. stack' = Append(a, f) /\ f.dir = n /\ f.loop = "list" /\ f \in FrameSet
    <3>1. stack' = Append(a, f) /\ f.dir = n /\ f.loop = "list"
      BY SMTT(30), <1>16 DEF Enters, NewCall
    <3>2. f \in FrameSet
      <4>1. DOMAIN fs.entries[n] \subseteq Nat
        BY <1>1 DEF FileSystemOK
      <4>2. cwd \in Nat
        BY <1>1 DEF FileSystemOK
      <4>3. {Dot} \cup DOMAIN fs.entries[n] \subseteq Nat /\ <<>> \in Seq(Nat) /\ 1 \in Nat \ {0}
        BY <4>1 DEF Dot
      <4> QED BY ZenonT(60), <1>1, <4>2, <4>3 DEF NewCall, FrameSet
    <3> QED BY <3>1, <3>2
  <2> HIDE DEF f
  <2>2. Trail(b, id, stack') =
           Append(Trail(b, id, a), Place(a[Len(a)].list[a[Len(a)].i - 1], f.dir, Len(a)))
    BY ZenonT(60), <1>2, <1>5, <2>1, TrailPushed
  <2>3. Trail(b, id, stack') = v
    <3>1. x = Place(Entry, n, Len(stack))
      OBVIOUS
    <3>2. a[Len(a)].i - 1 = Top.i /\ a[Len(a)].list = Top.list
      <4>1. (Top.i + 1) - 1 = Top.i
        BY <1>3
      <4> QED BY ZenonT(60), <1>2, <4>1
    <3> QED BY <1>2, <1>3, <1>13, <2>1, <2>2, <3>1, <3>2 DEF v
  <2>4. /\ Len(stack') = Len(stack) + 1 /\ stack'[Len(stack) + 1] = f
        /\ \A j \in 1 .. Len(stack) : stack'[j] = a[j]
    <3>1. a \in Seq(FrameSet)
      BY <1>2 DEF StackOK
    <3> QED BY <1>2, <2>1, <3>1
  <2>5. ASSUME NEW j \in 1 .. (k + 1) PROVE u[j] = ToGo(stack'[b + j])
    <3>1. j \in 1 .. (Len(stack') - b)
      BY <1>1, <1>7, <2>4
    <3> QED BY <1>5, <3>1, PendingAt
  <2>6. ASSUME NEW j \in 1 .. k PROVE u[j] = r[j]
    <3>1. j \in 1 .. (k + 1) /\ b + j \in 1 .. Len(stack) /\ j \in 1 .. (Len(a) - b)
      BY <1>1, <1>2, <1>7
    <3>2. r[j] = ToGo(a[b + j])
      BY ZenonT(60), <1>2, <3>1, PendingAt
    <3> QED BY <2>4, <2>5, <3>1, <3>2
  <2>7. \A y \in Nexts(x) : y.name \in u[k + 1]
    <3>1. u[k + 1] = ToGo(f)
      <4>1. k + 1 \in 1 .. (k + 1) /\ b + (k + 1) = Len(stack) + 1
        BY <1>1, <1>7
      <4> QED BY <2>4, <2>5, <4>1
    <3> QED BY <1>1, <1>8, <1>9, <2>1, <3>1, NewToGo
  <2>8. k \in 1 .. k /\ \A j \in 1 .. (k - 1) : j \in 1 .. k
    BY <1>7
  <2> HIDE DEF u, r
  <2>9. /\ Reached(W, v, u) = Reached(W, p, q) \cup {v}
        /\ v \notin Reached(W, p, q) /\ OnTrail(W, v, u)
    BY <1>15, <2>6, <2>7, <2>8
  <2> QED BY <1>11, <2>3, <2>9 DEF Gone, Going, u, p, q, v
<1>17. CASE Cuts(n, a) \/ Refused(n, a)
  <2>1. stack' = a /\ ~Goes(x)
    BY <1>1, <1>8, <1>17 DEF Cuts, Refused, Goes
  <2>2. Nexts(x) = {}
    BY <2>1, GoesNowhere
  <2> DEFINE u == [j \in 1 .. (k + 1) |-> IF j = k + 1 THEN {} ELSE r[j]]
  <2>3. u[k + 1] = {} /\ u[k] = r[k] /\ \A j \in 1 .. (k - 1) : u[j] = r[j]
    BY <1>7
  <2>4. \A y \in Nexts(x) : y.name \in u[k + 1]
    BY <2>2
  <2>5. /\ Reached(W, v, u) = Reached(W, p, q) \cup {v}
        /\ v \notin Reached(W, p, q) /\ OnTrail(W, v, u)
    <3> HIDE DEF u, r
    <3> QED BY <1>15, <2>3, <2>4
  <2>6. /\ v # <<>> /\ u[Len(v)] = {} /\ \A j \in 1 .. (Len(v) - 1) : r[j] = u[j]
        /\ Len(v) > 1 => Front(v) \in W
    <3>1. v # <<>>
      BY <1>6 DEF v
    <3>2. p \in W
      BY <1>6, <1>10 DEF OnTrail
    <3>3. \A j \in 1 .. k : r[j] = u[j]
      BY <1>7
    <3>4. (k + 1) - 1 = k
      BY <1>7
    <3> HIDE DEF u, r
    <3> QED BY <1>11, <2>3, <3>1, <3>2, <3>3, <3>4
  <2>7. Reached(W, Front(v), r) = Reached(W, v, u) /\ OnTrail(W, Front(v), r)
    <3> HIDE DEF u, r
    <3> QED BY <2>5, <2>6, ReachPop
  <2>8. ~Busy(stack')
    BY <1>2, <2>1 DEF Busy
  <2>9. Trail(b, id, stack') = Front(v) /\ Pending(b, stack') = r
    BY <1>11, <1>13, <2>1
  <2> HIDE DEF u, r
  <2> QED BY ZenonT(60), <1>11, <2>5, <2>7, <2>8, <2>9 DEF Gone, Going, p, q, v
<1>18. CASE Passes(n, a)
  BY <1>18 DEF Passes
<1> QED BY <1>16, <1>17, <1>18 DEF Visits, a

\* An entry that is no directory is passed over, on the trail and off it.
LEMMA GonePast ==
  ASSUME Walk, Intact, NEW b \in Nat, NEW id \in Nat, NEW W, Going(W, b, id, stack),
         stack # <<>>, Top.loop = "descend", ~AtEnd, Entry \notin DirNames(Top.dir),
         stack' = Advanced
  PROVE  /\ Gone(W, b, id, stack') = Gone(W, b, id, stack) /\ Going(W, b, id, stack')
         /\ ~Busy(stack) /\ ~Busy(stack')
<1> DEFINE g == [Top EXCEPT !.i = @ + 1]
<1>1. /\ Len(stack) \in Nat \ {0} /\ Top = stack[Len(stack)] /\ StackOK(stack)
  BY TopFacts DEF Walk
<1>2. /\ g \in FrameSet /\ g.dir = Top.dir /\ g.loop = Top.loop /\ g.i = Top.i + 1
      /\ g.list = Top.list
      /\ StackOK(stack') /\ Len(stack') = Len(stack) /\ stack' # <<>> /\ stack'[Len(stack)] = g
      /\ \A j \in 1 .. Len(stack) : j # Len(stack) => stack'[j] = stack[j]
  BY AdvancedOK
<1> HIDE DEF g
<1>3. Handled(g) = Handled(Top) \cup {Entry}
  BY <1>2, HandledOne
<1>4. ToGo(g) = ToGo(Top)
  BY <1>2, <1>3 DEF ToGo
<1>5. ~Busy(stack) /\ ~Busy(stack')
  BY <1>1, <1>2 DEF Busy
<1>6. ToGo(stack'[Len(stack)]) = ToGo(stack[Len(stack)])
      /\ stack'[Len(stack)].dir = stack[Len(stack)].dir
  BY <1>1, <1>2, <1>4
<1> QED BY <1>1, <1>2, <1>5, <1>6, GoneSame

\* The loops that list and count do not go on, and the end of a call goes nowhere new.
LEMMA GoneStays ==
  ASSUME Walk, Intact, NEW b \in Nat, NEW id \in Nat, NEW W, Going(W, b, id, stack),
         Grows(W),
         ReadEntry \/ EndList \/ CountEntry \/ EndCount \/ Leave
  PROVE  Gone(W, b, id, stack') = Gone(W, b, id, stack) /\ Going(W, b, id, stack')
<1>1. ASSUME stack # <<>>, Top.loop # "descend", NEW g, StackOK(stack'),
             Len(stack') = Len(stack), stack'[Len(stack)] = g, g.dir = Top.dir,
             \A j \in 1 .. Len(stack) : j # Len(stack) => stack'[j] = stack[j],
             g.loop # "descend" \/ g.i = 1
      PROVE  Gone(W, b, id, stack') = Gone(W, b, id, stack) /\ Going(W, b, id, stack')
  <2>1. Len(stack) \in Nat \ {0} /\ Top = stack[Len(stack)] /\ StackOK(stack)
    BY <1>1, TopFacts DEF Walk
  <2>2. ToGo(g) = DirNames(g.dir)
    <3>1. g.i = 1 => Handled(g) = {}
      <4>1. 1 .. (1 - 1) = {}
        OBVIOUS
      <4> QED BY <4>1 DEF Handled
    <3> QED BY <1>1, <3>1 DEF ToGo
  <2>3. ToGo(Top) = DirNames(Top.dir)
    BY <1>1 DEF ToGo
  <2>4. ToGo(stack'[Len(stack)]) = ToGo(stack[Len(stack)])
        /\ stack'[Len(stack)].dir = stack[Len(stack)].dir
    BY <1>1, <2>1, <2>2, <2>3
  <2> QED BY <1>1, <2>1, <2>4, GoneSame
<1>2. CASE ReadEntry
  <2>1. stack # <<>> /\ Top.loop = "list"
    BY <1>2, Reading
  <2>2. PICK g : Rewrites(g) /\ g.loop = "list" /\ g.i = 1
    BY <1>2, Reading
  <2>3. /\ StackOK(stack') /\ Len(stack') = Len(stack) /\ stack'[Len(stack)] = g
        /\ g.dir = Top.dir
        /\ \A j \in 1 .. Len(stack) : j # Len(stack) => stack'[j] = stack[j]
    BY <2>1, <2>2, Rewritten DEF Rewrites
  <2> QED BY <1>1, <2>1, <2>2, <2>3
<1>3. CASE EndList
  <2>1. stack # <<>> /\ Top.loop = "list"
    BY <1>3, EndingList
  <2>2. PICK g : Rewrites(g) /\ g.i = 1
    BY <1>3, EndingList
  <2>3. /\ StackOK(stack') /\ Len(stack') = Len(stack) /\ stack'[Len(stack)] = g
        /\ g.dir = Top.dir
        /\ \A j \in 1 .. Len(stack) : j # Len(stack) => stack'[j] = stack[j]
    BY <2>1, <2>2, Rewritten DEF Rewrites
  <2> QED BY <1>1, <2>1, <2>2, <2>3
<1>4. CASE CountEntry
  <2> DEFINE g == [Top EXCEPT !.i = @ + 1]
  <2>1. stack # <<>> /\ Top.loop = "count" /\ ~AtEnd /\ stack' = Advanced
    BY <1>4, Counting
  <2>2. /\ g.loop = Top.loop /\ g.dir = Top.dir
        /\ StackOK(stack') /\ Len(stack') = Len(stack) /\ stack'[Len(stack)] = g
        /\ \A j \in 1 .. Len(stack) : j # Len(stack) => stack'[j] = stack[j]
    BY <2>1, AdvancedOK
  <2> HIDE DEF g
  <2> QED BY <1>1, <2>1, <2>2
<1>5. CASE EndCount
  <2>1. stack # <<>> /\ Top.loop = "count"
    BY <1>5, EndingCount
  <2>2. PICK g : Rewrites(g) /\ g.i = 1
    BY <1>5, EndingCount
  <2>3. /\ StackOK(stack') /\ Len(stack') = Len(stack) /\ stack'[Len(stack)] = g
        /\ g.dir = Top.dir
        /\ \A j \in 1 .. Len(stack) : j # Len(stack) => stack'[j] = stack[j]
    BY <2>1, <2>2, Rewritten DEF Rewrites
  <2> QED BY <1>1, <2>1, <2>2, <2>3
<1>6. CASE Leave
  <2>1. stack # <<>> /\ Top.loop = "descend" /\ AtEnd /\ stack' = Front(stack)
    BY <1>6, Leaving
  <2>2. /\ StackOK(stack') /\ Len(stack') = Len(stack) - 1
        /\ \A j \in 1 .. (Len(stack) - 1) : stack'[j] = stack[j]
    BY <2>1, StackPopped
  <2>3. /\ Top = stack[Len(stack)] /\ StackOK(stack) /\ FileSystemOK(fs)
        /\ Top.dir \in DOMAIN fs.entries
    BY <2>1, TopFacts DEF Walk
  <2>4. Handled(Top) = Kept(Top.dir)
    BY <2>1, HandledAll
  <2>5. \A m \in DirNames(Top.dir) : m \in Kept(Top.dir)
    <3> TAKE m \in DirNames(Top.dir)
    <3>1. m \in DOMAIN fs.entries[Top.dir] /\ IsDir(fs.entries[Top.dir][m]) /\ m # Dot
      BY <2>3 DEF DirNames, FileSystemOK
    <3>2. Lookup(Top.dir, m) = fs.entries[Top.dir][m]
      BY <3>1 DEF Lookup
    <3> QED BY <3>1, <3>2 DEF Kept, Listed
  <2>6. ToGo(stack[Len(stack)]) = {}
    BY <2>1, <2>3, <2>4, <2>5 DEF ToGo
  <2> QED BY SMTT(30), <2>1, <2>2, <2>3, <2>6, GoneLeft
<1> QED BY <1>2, <1>3, <1>4, <1>5, <1>6

\* The visit of the directory n, the place r, adds r and the ways below it to W.
Starts(W, callers, n, id, r) ==
    /\ StackOK(callers) /\ Len(callers) = cur_depth
    /\ callers # <<>> => callers[Len(callers)].loop = "descend"
    /\ StackOK(stack') /\ n \in DOMAIN fs.entries /\ Visits(n, callers)
    /\ id \in Nat /\ W \subseteq WaySet /\ r = Place(id, n, cur_depth)
    /\ \A w \in W : w[1] # r

\* Then r has been gone, and what is below it is pending.
Started(W, id, r) ==
    LET U == W \cup Ways({<<r>>})
    IN  /\ Gone(U, cur_depth, id, stack') = W \cup {<<r>>}
        /\ <<r>> \notin W
        /\ Going(U, cur_depth, id, stack')
        /\ Busy(stack') => Trail(cur_depth, id, stack') = <<r>>
        /\ Last(<<r>>) = r

\* The walk visits a directory that a new trail begins with.
LEMMA GoneInto ==
  ASSUME Walk, NEW callers, NEW n, NEW id, NEW W, NEW r, Starts(W, callers, n, id, r)
  PROVE  Started(W, id, r)
<1> USE DEF Starts, Started
<1> DEFINE U == W \cup Ways({<<r>>})
           b == cur_depth
           p == Trail(b, id, stack')
           q == Pending(b, stack')
<1>1. FileSystemOK(fs) /\ b \in Nat
  BY DEF Walk, StackOK
<1>2. r \in PlaceSet /\ r.node = n /\ r.depth = b /\ Last(<<r>>) = r
  BY <1>1 DEF PlaceSet, Place, Last
<1> HIDE DEF U, b
<1>3. CASE Enters(n, callers)
  <2> DEFINE f == NewCall(n)
  <2>1. stack' = Append(callers, f) /\ f.dir = n /\ f.loop = "list"
    BY <1>3 DEF Enters, NewCall
  <2>2. Len(stack') = b + 1 /\ stack'[b + 1] = f
    <3>1. callers \in Seq(Range(callers) \cup {f})
      <4>1. callers \in Seq(FrameSet)
        BY DEF StackOK
      <4>2. callers \in [1 .. Len(callers) -> Range(callers) \cup {f}] /\ Len(callers) \in Nat
        BY <4>1 DEF Range
      <4> QED BY <4>2
    <3> DEFINE S == Range(callers) \cup {f}
    <3>2. callers \in Seq(S) /\ f \in S
      BY <3>1
    <3> HIDE DEF S, f
    <3>3. Len(Append(callers, f)) = Len(callers) + 1 /\ Append(callers, f)[Len(callers) + 1] = f
      BY <3>2, AppendProperties
    <3> QED BY <2>1, <3>3 DEF b
  <2> HIDE DEF f
  <2>3. p \in Seq(PlaceSet) /\ Len(p) = 1 /\ p[1] = r
    <3>1. /\ p \in Seq(PlaceSet)
          /\ Len(p) = IF Len(stack') <= b THEN 0 ELSE Len(stack') - b
          /\ \A j \in 1 .. (Len(stack') - b) :
               p[j] = Stop(b, id, stack', j)
      BY <1>1, TrailFacts
    <3>2. Len(p) = 1 /\ 1 \in 1 .. (Len(stack') - b) /\ b + 1 - 1 = b
      BY <1>1, <2>2, <3>1
    <3>3. p[1] = Place(id, stack'[b + 1].dir, b + 1 - 1)
      BY <3>1, <3>2 DEF Stop
    <3> QED BY <2>1, <2>2, <3>1, <3>2, <3>3 DEF b
  <2>4. p = <<r>>
    <3> HIDE DEF p
    <3> QED BY <2>3
  <2>5. q[1] = ToGo(f)
    <3>1. 1 \in 1 .. (Len(stack') - b)
      BY <1>1, <2>2
    <3> QED BY <1>1, <2>2, <3>1, PendingAt
  <2>6. \A y \in Nexts(r) : y.name \in q[1]
    BY <1>1, <1>2, <2>1, <2>5, NewToGo
  <2> HIDE DEF p, q
  <2>7. /\ Reached(U, <<r>>, q) = W \cup {<<r>>} /\ <<r>> \notin W /\ OnTrail(U, <<r>>, q)
    BY <1>1, <1>2, <2>6, ReachRoot DEF U
  <2> QED BY <1>2, <2>4, <2>7 DEF Gone, Going, p, q, U, b
<1>4. CASE Cuts(n, callers) \/ Refused(n, callers)
  <2>1. stack' = callers /\ ~Goes(r)
    BY <1>2, <1>4 DEF Cuts, Refused, Goes, b
  <2>2. Nexts(r) = {}
    BY <2>1, GoesNowhere
  <2>3. p = <<>>
    <3>1. Len(stack') <= b
      BY <1>1, <2>1 DEF b
    <3> QED BY <1>1, <3>1, TrailFacts
  <2>4. ~Busy(stack')
    BY <2>1 DEF Busy
  <2> DEFINE u == [j \in 1 .. 1 |-> {}]
  <2>5. u[1] = {}
    OBVIOUS
  <2> HIDE DEF u, p, q
  <2>6. \A y \in Nexts(r) : y.name \in u[1]
    BY <2>2
  <2>7. /\ Reached(U, <<r>>, u) = W \cup {<<r>>} /\ <<r>> \notin W /\ OnTrail(U, <<r>>, u)
    BY <1>1, <1>2, <2>6, ReachRoot DEF U
  <2>8. <<r>> # <<>> /\ Len(<<r>>) = 1 /\ Front(<<r>>) = <<>> /\ 1 .. (1 - 1) = {}
    BY DEF Front
  <2>9. Reached(U, Front(<<r>>), q) = Reached(U, <<r>>, u) /\ OnTrail(U, Front(<<r>>), q)
    <3> DEFINE a == <<r>>
    <3>1. /\ OnTrail(U, a, u) /\ a # <<>> /\ u[Len(a)] = {}
          /\ \A j \in 1 .. (Len(a) - 1) : q[j] = u[j]
          /\ Len(a) > 1 => Front(a) \in U
      BY <2>5, <2>7, <2>8
    <3> HIDE DEF a
    <3>2. Reached(U, Front(a), q) = Reached(U, a, u) /\ OnTrail(U, Front(a), q)
      BY <3>1, ReachPop
    <3> QED BY <3>2 DEF a
  <2> QED BY <1>2, <2>3, <2>4, <2>7, <2>8, <2>9 DEF Gone, Going, p, q, U, b
<1>5. CASE Passes(n, callers)
  BY <1>5 DEF Passes
<1> QED BY <1>3, <1>4, <1>5 DEF Visits

\* A directory that is visited is counted, whether it is entered or not.
LEMMA VisitCounts ==
  ASSUME Walk, NEW V, NEW w, Counted(V, w, stack, Plus(total, tally), hash), ~Busy(stack),
         NEW callers, StackOK(callers), Len(callers) = cur_depth,
         callers # <<>> => callers[Len(callers)].loop = "descend",
         NEW n \in DOMAIN fs.entries, Visits(n, callers), total' = total, hash' = hash,
         NEW v, v \notin V, Last(v).node = n, Last(v).depth = cur_depth
  PROVE  Counted(V \cup {v}, v, stack', Plus(total', tally'), hash')
<1> DEFINE U == V \cup {v}
<1>1. FileSystemOK(fs) /\ n \in DOMAIN fs.dev /\ tally \in FigureSet /\ total \in FigureSet
      /\ cur_depth \in Nat
  BY DEF Walk, FileSystemOK, StackOK
<1>2. Tallied(V, Files(V), Plus(total, tally), hash)
  <2>1. FilesOf(V, w, stack) = Files(V)
    BY DEF FilesOf
  <2> QED BY <2>1 DEF Counted
<1>3. tally' = With(tally, n)
  BY DEF Visits, Cuts, Refused, Enters, Passes
<1>4. Tallied(U, Files(V), Plus(total', tally'), hash')
  <2>1. Tallied(U, Files(V), With(Plus(total, tally), n), hash)
    BY <1>1, <1>2, TalliedWay
  <2>2. With(Plus(total, tally), n) = Plus(total, With(tally, n))
    <3>1. K(fs.blocks[n]) \in Int
      BY <1>1, MoreFigures
    <3> QED BY <1>1, <3>1 DEF Plus, With, FigureSet
  <2> QED BY <1>3, <2>1, <2>2
<1>5. \A f : f \in Files(U) => f \in Files(V) \/ (f[1] = v /\ f[2] \in Names(Last(v), FALSE))
  <2> TAKE f
  <2> HAVE f \in Files(U)
  <2>1. f[1] \in U /\ f[2] \in Names(Last(f[1]), FALSE) /\ f = <<f[1], f[2]>>
    BY FilesAre
  <2>2. f[1] \in V => <<f[1], f[2]>> \in Files(V)
    BY <2>1, FilesAre
  <2> QED BY <2>1, <2>2
<1>6. \A f : f \in Files(V) => f \in Files(U) /\ f[1] # v
  <2> TAKE f
  <2> HAVE f \in Files(V)
  <2>1. f[1] \in V /\ f[2] \in Names(Last(f[1]), FALSE) /\ f = <<f[1], f[2]>>
    BY FilesAre
  <2>2. f[1] \in U
    BY <2>1
  <2>3. <<f[1], f[2]>> \in Files(U)
    BY <2>1, <2>2, FilesAre
  <2> QED BY <2>1, <2>3
<1> HIDE DEF U
<1>7. CASE Enters(n, callers)
  <2> DEFINE f == NewCall(n)
  <2>1. stack' = Append(callers, f) /\ f.dir = n /\ f.loop = "list"
    BY <1>7 DEF Enters, NewCall
  <2>2. Len(stack') = cur_depth + 1 /\ stack'[cur_depth + 1] = f /\ stack' # <<>>
    <3> DEFINE S == Range(callers) \cup {f}
    <3>1. callers \in Seq(S) /\ f \in S
      <4>1. callers \in Seq(FrameSet)
        BY DEF StackOK
      <4>2. callers \in [1 .. Len(callers) -> S] /\ Len(callers) \in Nat
        BY <4>1 DEF Range
      <4> QED BY <4>2
    <3> HIDE DEF S, f
    <3>2. /\ Len(Append(callers, f)) = Len(callers) + 1 /\ Append(callers, f)[Len(callers) + 1] = f
          /\ Append(callers, f) \in Seq(S)
      BY <3>1, AppendProperties
    <3>3. stack' # <<>>
      BY <1>1, <2>1, <3>2
    <3> QED BY <2>1, <3>2, <3>3
  <2> HIDE DEF f
  <2>3. Busy(stack') /\ stack'[Len(stack')] = f
    BY <2>1, <2>2 DEF Busy
  <2>4. FilesOf(U, v, stack') = Files(V)
    <3>1. \A x : x \in FilesOf(U, v, stack') <=> x \in Files(U) /\ x[1] # v
      BY <2>1, <2>3 DEF FilesOf
    <3> QED BY <1>5, <1>6, <3>1
  <2>5. v \in U /\ Len(stack') - 1 = cur_depth
    BY <1>1, <2>2 DEF U
  <2> QED BY <1>4, <2>1, <2>3, <2>4, <2>5 DEF Counted, U
<1>8. CASE Cuts(n, callers) \/ Refused(n, callers)
  <2>1. stack' = callers /\ ~Goes(Last(v))
    BY <1>8 DEF Cuts, Refused, Goes
  <2>2. Names(Last(v), FALSE) = {}
    BY <2>1, GoesNowhere
  <2>3. ~Busy(stack')
    BY <2>1 DEF Busy
  <2>4. FilesOf(U, v, stack') = Files(V)
    <3>1. FilesOf(U, v, stack') = Files(U)
      BY <2>3 DEF FilesOf
    <3> QED BY <1>5, <1>6, <2>2, <3>1
  <2> QED BY <1>4, <2>3, <2>4 DEF Counted, U
<1>9. CASE Passes(n, callers)
  BY <1>9 DEF Passes
<1> QED BY <1>7, <1>8, <1>9 DEF Visits

-----------------------------------------------------------------------------
(* The file system stays as it is *)

\* The names that lead on are the same after a step.
LEMMA SameNames ==
  ASSUME job' = job
  PROVE  /\ PlaceSet' = PlaceSet /\ Alone' = Alone
         /\ \A n : IsDir(n)' <=> IsDir(n)
         /\ \A at, dirs : Names(at, dirs)' = Names(at, dirs)
         /\ \A at : Nexts(at)' = Nexts(at)
         /\ \A f : ToGo(f)' = ToGo(f)
<1>1. fs' = fs /\ opts' = opts
  BY SameJob
<1>2. PlaceSet' = PlaceSet /\ \A n : IsDir(n)' <=> IsDir(n)
  BY <1>1 DEF PlaceSet, IsDir
<1>3. \A at : Goes(at)' <=> Goes(at)
  BY <1>1 DEF Goes
<1>4. \A at, dirs : Names(at, dirs)' = Names(at, dirs)
  BY <1>1, <1>2, <1>3 DEF Names
<1>5. \A at : Nexts(at)' = Nexts(at)
  BY <1>1, <1>4 DEF Nexts
<1>6. \A d : DirNames(d)' = DirNames(d)
  BY <1>1, <1>2 DEF DirNames
<1>7. \A f : ToGo(f)' = ToGo(f)
  BY <1>6 DEF ToGo
<1> QED BY <1>2, <1>4, <1>5, <1>7 DEF Alone

\* So are the ways, and what of them has been gone.
LEMMA WayInNext ==
  (\A roots, w : FileSystemOK(fs) /\ roots \subseteq Alone =>
     (w \in Ways(roots) <=> w \in WaySet /\ <<w[1]>> \in roots /\ Len(w) <= MaxOpen + 1))'
<1>1. \A roots, w : FileSystemOK(fs) /\ roots \subseteq Alone =>
         (w \in Ways(roots) <=> w \in WaySet /\ <<w[1]>> \in roots /\ Len(w) <= MaxOpen + 1)
  BY WayIn
<1> QED BY <1>1, PTL

\* The ways are the same after a step.
LEMMA SameWays ==
  ASSUME FileSystemOK(fs), job' = job
  PROVE  /\ WaySet' = WaySet
         /\ \A roots \in SUBSET Alone : Ways(roots)' = Ways(roots)
<1>1. \A w : Linked(w)' <=> Linked(w)
  BY SameNames DEF Linked
<1>2. WaySet' = WaySet
  BY <1>1, SameNames DEF WaySet
<1>3. ASSUME NEW roots \in SUBSET Alone PROVE Ways(roots)' = Ways(roots)
  <2>1. FileSystemOK(fs)' /\ roots \subseteq Alone'
    BY SameJob, SameNames DEF FileSystemOK
  <2>2. \A w : w \in Ways(roots)' <=>
                 w \in WaySet' /\ <<w[1]>> \in roots /\ Len(w) <= MaxOpen + 1
    BY <2>1, WayInNext
  <2>3. \A w : w \in Ways(roots) <=>
                 w \in WaySet /\ <<w[1]>> \in roots /\ Len(w) <= MaxOpen + 1
    BY WayIn
  <2> QED BY <1>2, <2>2, <2>3
<1> QED BY <1>2, <1>3

\* What of them has been gone is the same for the same stack.
LEMMA SameGone ==
  ASSUME FileSystemOK(fs), job' = job, NEW W, NEW b, NEW id, NEW s
  PROVE  /\ Gone(W, b, id, s)' = Gone(W, b, id, s)
         /\ Going(W, b, id, s)' <=> Going(W, b, id, s)
<1>1. Pending(b, s)' = Pending(b, s)
  BY SameNames DEF Pending
<1>2. Trail(b, id, s)' = Trail(b, id, s)
  BY DEF Trail, Place, Stop
<1>3. Gone(W, b, id, s)' = Gone(W, b, id, s)
  BY <1>1, <1>2 DEF Gone, Reached, Follows
<1>4. Going(W, b, id, s)' <=> Going(W, b, id, s)
  BY <1>1, <1>2, SameWays DEF Going, OnTrail
<1> QED BY <1>3, <1>4

\* So is what counting them comes to.
LEMMA FilesInNext ==
  (\A V, f : f \in Files(V) <=>
     f[1] \in V /\ f[2] \in Names(Last(f[1]), FALSE) /\ f = <<f[1], f[2]>>)'
<1>1. \A V, f : f \in Files(V) <=>
         f[1] \in V /\ f[2] \in Names(Last(f[1]), FALSE) /\ f = <<f[1], f[2]>>
  BY FilesAre
<1> QED BY <1>1, PTL

\* The files at the ends of ways, their inodes and figures are the same.
LEMMA SameFigures ==
  ASSUME job' = job
  PROVE  /\ \A V : Files(V)' = Files(V)
         /\ \A f : Node(f)' = Node(f)
         /\ \A node : Total(node)' = Total(node)
<1>1. fs' = fs
  BY SameJob
<1>2. \A V : Files(V)' = Files(V)
  <2> TAKE V
  <2>1. \A f : f \in Files(V)' <=>
          f[1] \in V /\ f[2] \in Names(Last(f[1]), FALSE) /\ f = <<f[1], f[2]>>
    BY FilesInNext, SameNames
  <2>2. \A f : f \in Files(V) <=>
          f[1] \in V /\ f[2] \in Names(Last(f[1]), FALSE) /\ f = <<f[1], f[2]>>
    BY FilesAre
  <2> QED BY <2>1, <2>2
<1>3. \A f : Node(f)' = Node(f)
  BY <1>1 DEF Node
<1>4. \A node : Total(node)' = Total(node)
  BY <1>1 DEF Total, K
<1> QED BY <1>2, <1>3, <1>4

\* The figures of the same ways and files are the same.
LEMMA SameCount ==
  ASSUME job' = job
  PROVE  /\ \A F : Nodes(F)' = Nodes(F)
         /\ \A V, F : CountOf(V, F)' = CountOf(V, F)
<1>1. fs' = fs /\ opts' = opts /\ Figures' = Figures
  BY SameJob
<1>3. \A F : Nodes(F)' = Nodes(F)
  BY SameFigures DEF Nodes
<1>4. \A V, F : CountOf(V, F)' = CountOf(V, F)
  <2> TAKE V, F
  <2> DEFINE a == [v \in V |-> Last(v).node]
             c == [f \in F |-> Node(f)]
             d == [n \in Nodes(F) |-> n]
  <2>1. Total(a)' = Total(a)
    BY SameFigures
  <2>2. Total(c)' = Total(c)
    <3>1. c' = c
      BY SameFigures
    <3> HIDE DEF c
    <3>2. PICK e : e = c
      OBVIOUS
    <3>3. e = c'
      BY <3>1, <3>2
    <3>4. Total(e)' = Total(e)
      BY SameFigures
    <3> QED BY <3>2, <3>3, <3>4
  <2>3. Total(d)' = Total(d)
    <3>1. d' = d
      BY <1>3
    <3> HIDE DEF d
    <3>2. PICK e : e = d
      OBVIOUS
    <3>3. e = d'
      BY <3>1, <3>2
    <3>4. Total(e)' = Total(e)
      BY SameFigures
    <3> QED BY <3>2, <3>3, <3>4
  <2> HIDE DEF a, c, d
  <2> QED BY <1>1, <2>1, <2>2, <2>3 DEF CountOf, Plus, Zero, a, c, d
<1> QED BY <1>3, <1>4

\* What has been counted is the same for the same stack, figures and tables.
LEMMA SameCounted ==
  ASSUME job' = job, NEW V, NEW w, NEW s, NEW sum, NEW h
  PROVE  Counted(V, w, s, sum, h)' <=> Counted(V, w, s, sum, h)
<1>1. fs' = fs /\ opts' = opts /\ Figures' = Figures
  BY SameJob
<1>2. FilesOf(V, w, s)' = FilesOf(V, w, s)
  BY SameFigures DEF FilesOf, Busy, Handled
<1>3. \A F : Nodes(F)' = Nodes(F)
  BY SameCount
<1>4. \A F : CountOf(V, F)' = CountOf(V, F)
  BY SameCount
<1>5. \A F : Tallied(V, F, sum, h)' <=> Tallied(V, F, sum, h)
  BY <1>1, <1>3, <1>4, SameFigures DEF Tallied, HashOK, Entered
<1>6. Tallied(V, FilesOf(V, w, s), sum, h)' <=> Tallied(V, FilesOf(V, w, s), sum, h)
  <2> DEFINE F == FilesOf(V, w, s)
  <2>1. F' = F
    BY <1>2
  <2> HIDE DEF F
  <2>2. PICK G : G = F
    OBVIOUS
  <2>3. G = F'
    BY <2>1, <2>2
  <2>4. Tallied(V, G, sum, h)' <=> Tallied(V, G, sum, h)
    BY <1>5
  <2> QED BY <2>2, <2>3, <2>4 DEF F
<1> QED BY <1>6 DEF Counted, Busy

-----------------------------------------------------------------------------
(* Each inode is counted once *)

\* The ways from one set of roots and those from another are the ways from both.
LEMMA WaysBoth ==
  ASSUME FileSystemOK(fs), NEW R, R \subseteq Alone, NEW S, S \subseteq Alone
  PROVE  Ways(R \cup S) = Ways(R) \cup Ways(S) /\ Ways({}) = {}
<1>1. R \cup S \subseteq Alone /\ {} \subseteq Alone
  OBVIOUS
<1>2. \A w : w \in Ways(R) <=> w \in WaySet /\ <<w[1]>> \in R /\ Len(w) <= MaxOpen + 1
  BY WayIn
<1>3. \A w : w \in Ways(S) <=> w \in WaySet /\ <<w[1]>> \in S /\ Len(w) <= MaxOpen + 1
  BY WayIn
<1>4. \A w : w \in Ways(R \cup S) <=>
               w \in WaySet /\ <<w[1]>> \in R \cup S /\ Len(w) <= MaxOpen + 1
  BY <1>1, WayIn
<1>5. Ways({}) = {}
  <2>1. PICK none : none = {}
    OBVIOUS
  <2>2. \A w : w \in Ways(none) <=>
                 w \in WaySet /\ <<w[1]>> \in none /\ Len(w) <= MaxOpen + 1
    BY <1>1, <2>1, WayIn
  <2>3. Ways(none) = {}
    BY <2>1, <2>2
  <2> QED BY <2>1, <2>3
<1>6. Ways(R \cup S) = Ways(R) \cup Ways(S)
  BY <1>2, <1>3, <1>4
<1> QED BY <1>5, <1>6

\* The ways grow one place after the other, as far as descriptors last.
LEMMA WaysGrow ==
  ASSUME FileSystemOK(fs), NEW R, R \subseteq Alone
  PROVE  /\ Ways(R) \subseteq WaySet /\ Grows(Ways(R))
         /\ \A w \in Ways(R) : \A x : x \in Nexts(Last(w)) /\ Len(w) <= MaxOpen =>
               Append(w, x) \in Ways(R)
<1>1. \A w : w \in Ways(R) <=> w \in WaySet /\ <<w[1]>> \in R /\ Len(w) <= MaxOpen + 1
  BY WayIn
<1>2. MaxOpen \in Nat
  BY VtreeAssumption
<1>3. ASSUME NEW w \in Ways(R), Len(w) > 1 PROVE Front(w) \in Ways(R)
  <2>1. /\ w \in WaySet /\ <<w[1]>> \in R /\ Len(w) <= MaxOpen + 1 /\ Len(w) \in Nat
    BY <1>1 DEF WaySet
  <2>2. Front(w) \in WaySet /\ Len(Front(w)) = Len(w) - 1 /\ Front(w)[1] = w[1]
    BY <1>3, <2>1, WayBack
  <2>3. Len(Front(w)) <= MaxOpen + 1
    BY <1>2, <2>1, <2>2
  <2> QED BY <1>1, <2>1, <2>2, <2>3
<1>4. ASSUME NEW w \in Ways(R), NEW x \in Nexts(Last(w)), Len(w) <= MaxOpen
      PROVE  Append(w, x) \in Ways(R)
  <2>1. /\ w \in WaySet /\ <<w[1]>> \in R
    BY <1>1
  <2>2. /\ Append(w, x) \in WaySet /\ Len(Append(w, x)) = Len(w) + 1 /\ Len(w) \in Nat \ {0}
        /\ Append(w, x)[1] = w[1]
    BY <2>1, WayOn
  <2>3. Len(Append(w, x)) <= MaxOpen + 1
    BY <1>2, <1>4, <2>2
  <2> QED BY <1>1, <2>1, <2>2, <2>3
<1> QED BY <1>1, <1>3, <1>4 DEF Grows

\* The places that the first k arguments lead to, if they are directories.
RootsUpTo(k) ==
    {<<Place(i, Lookup(topdir, Targets[i]), 0)>> :
        i \in {j \in 1 .. k : IsDir(Lookup(topdir, Targets[j]))}}

\* They are called by their numbers, and each argument adds its own.
LEMMA RootFacts ==
  ASSUME Walk, NEW k \in Nat
  PROVE  /\ RootsUpTo(k) \subseteq Alone
         /\ \A w \in Ways(RootsUpTo(k)) : w[1].name \in 1 .. k
<1>1. ASSUME NEW w \in RootsUpTo(k)
      PROVE  w \in Alone /\ w[1].name \in 1 .. k
  <2>1. PICK i \in 1 .. k : /\ IsDir(Lookup(topdir, Targets[i]))
                            /\ w = <<Place(i, Lookup(topdir, Targets[i]), 0)>>
    BY DEF RootsUpTo
  <2> DEFINE p == Place(i, Lookup(topdir, Targets[i]), 0)
  <2>2. p \in PlaceSet /\ p.name = i
    BY <2>1 DEF PlaceSet, Place, IsDir
  <2> HIDE DEF p
  <2>3. w = <<p>> /\ <<p>>[1] = p
    BY <2>1 DEF p
  <2> QED BY <2>2, <2>3 DEF Alone
<1>2. RootsUpTo(k) \subseteq Alone
  BY <1>1
<1>3. ASSUME NEW w \in Ways(RootsUpTo(k)) PROVE w[1].name \in 1 .. k
  <2>1. <<w[1]>> \in RootsUpTo(k)
    BY <1>2, WayIn DEF Walk
  <2>2. <<w[1]>>[1] = w[1]
    OBVIOUS
  <2> QED BY <1>1, <2>1, <2>2
<1> QED BY <1>2, <1>3

\* The next argument adds its directory, if it is one.
LEMMA OneRootMore ==
  ASSUME Walk, NEW k \in Nat \ {0}
  PROVE  LET n == Lookup(topdir, Targets[k])
         IN  RootsUpTo(k) = IF IsDir(n) THEN RootsUpTo(k - 1) \cup {<<Place(k, n, 0)>>}
                            ELSE RootsUpTo(k - 1)
<1> DEFINE r(i) == <<Place(i, Lookup(topdir, Targets[i]), 0)>>
           J(m) == {j \in 1 .. m : IsDir(Lookup(topdir, Targets[j]))}
<1>1. \A j : j \in 1 .. k <=> j \in 1 .. (k - 1) \/ j = k
  OBVIOUS
<1>2. J(k) = IF IsDir(Lookup(topdir, Targets[k])) THEN J(k - 1) \cup {k} ELSE J(k - 1)
  BY <1>1
<1>3. \A m : RootsUpTo(m) = {r(i) : i \in J(m)}
  BY DEF RootsUpTo
<1> HIDE DEF r, J
<1>4. RootsUpTo(k) = IF IsDir(Lookup(topdir, Targets[k])) THEN RootsUpTo(k - 1) \cup {r(k)}
                     ELSE RootsUpTo(k - 1)
  BY <1>2, <1>3
<1> QED BY <1>4 DEF r

\* Before the first argument there is no directory.
LEMMA NoRoots == RootsUpTo(0) = {}
<1>1. {j \in 1 .. 0 : IsDir(Lookup(topdir, Targets[j]))} = {}
  OBVIOUS
<1> QED BY <1>1 DEF RootsUpTo

\* The ways of W that have been gone, up to the trail, have been counted.
Have(W, b, id, w, s, sum, h) == Going(W, b, id, s) /\ Counted(Gone(W, b, id, s), w, s, sum, h)

\* That is the same after a step, for the same stack, figures and tables.
LEMMA SameHave ==
  ASSUME FileSystemOK(fs), job' = job, NEW W, NEW b, NEW id, NEW w, NEW s, NEW sum, NEW h
  PROVE  Have(W, b, id, w, s, sum, h)' <=> Have(W, b, id, w, s, sum, h)
<1>1. PICK V : V = Gone(W, b, id, s)
  OBVIOUS
<1>2. V = Gone(W, b, id, s)'
  BY <1>1, SameGone
<1>3. Counted(V, w, s, sum, h)' <=> Counted(V, w, s, sum, h)
  BY SameCounted
<1>4. Counted(Gone(W, b, id, s), w, s, sum, h)' <=> Counted(Gone(W, b, id, s), w, s, sum, h)
  BY <1>1, <1>2, <1>3
<1>5. Going(W, b, id, s)' <=> Going(W, b, id, s)
  BY SameGone
<1> QED BY <1>4, <1>5 DEF Have

\* Where the running call does not count it does not matter.
LEMMA CountedAny ==
  ASSUME NEW V, NEW w, NEW s, NEW sum, NEW h, Counted(V, w, s, sum, h), ~Busy(s), NEW u
  PROVE  Counted(V, u, s, sum, h)
<1>1. FilesOf(V, u, s) = FilesOf(V, w, s)
  BY DEF FilesOf
<1> QED BY <1>1 DEF Counted

\* Only the call that has been running goes on to list and to count.
LEMMA BusyStays ==
  ASSUME Walk, Intact, ReadEntry \/ EndList \/ CountEntry \/ EndCount \/ Leave, Busy(stack')
  PROVE  /\ Busy(stack) /\ Len(stack') = Len(stack)
         /\ \A b, id \in Nat : Trail(b, id, stack') = Trail(b, id, stack)
<1>1. ASSUME stack # <<>>, Top.loop # "descend", NEW g, StackOK(stack'),
             Len(stack') = Len(stack), stack'[Len(stack)] = g, g.dir = Top.dir,
             \A j \in 1 .. Len(stack) : j # Len(stack) => stack'[j] = stack[j]
      PROVE  /\ Busy(stack) /\ Len(stack') = Len(stack)
             /\ \A b, id \in Nat : Trail(b, id, stack') = Trail(b, id, stack)
  <2>1. Len(stack) \in Nat \ {0} /\ Top = stack[Len(stack)] /\ StackOK(stack)
    BY <1>1, TopFacts DEF Walk
  <2>2. Busy(stack)
    BY <1>1, <2>1 DEF Busy
  <2>3. stack'[Len(stack)].dir = stack[Len(stack)].dir
    BY <1>1, <2>1
  <2>4. ASSUME NEW b \in Nat, NEW id \in Nat PROVE Trail(b, id, stack') = Trail(b, id, stack)
    BY <1>1, <2>1, <2>3, TrailSame
  <2> QED BY <1>1, <2>2, <2>4
<1>2. ASSUME stack # <<>>, Top.loop # "descend", NEW g, Rewrites(g)
      PROVE  /\ Busy(stack) /\ Len(stack') = Len(stack)
             /\ \A b, id \in Nat : Trail(b, id, stack') = Trail(b, id, stack)
  <2>1. /\ StackOK(stack') /\ Len(stack') = Len(stack) /\ stack'[Len(stack)] = g
        /\ g.dir = Top.dir
        /\ \A j \in 1 .. Len(stack) : j # Len(stack) => stack'[j] = stack[j]
    BY <1>2, Rewritten DEF Rewrites
  <2> QED BY <1>1, <1>2, <2>1
<1>3. CASE ReadEntry
  <2>1. stack # <<>> /\ Top.loop = "list" /\ \E g : Rewrites(g)
    BY <1>3, Reading
  <2> QED BY <1>2, <2>1
<1>4. CASE EndList
  <2>1. stack # <<>> /\ Top.loop = "list" /\ \E g : Rewrites(g)
    BY <1>4, EndingList
  <2> QED BY <1>2, <2>1
<1>5. CASE CountEntry
  <2> DEFINE g == [Top EXCEPT !.i = @ + 1]
  <2>1. stack # <<>> /\ Top.loop = "count" /\ ~AtEnd /\ stack' = Advanced
    BY <1>5, Counting
  <2>2. /\ g.dir = Top.dir
        /\ StackOK(stack') /\ Len(stack') = Len(stack) /\ stack'[Len(stack)] = g
        /\ \A j \in 1 .. Len(stack) : j # Len(stack) => stack'[j] = stack[j]
    BY <2>1, AdvancedOK
  <2> HIDE DEF g
  <2> QED BY <1>1, <2>1, <2>2
<1>6. CASE EndCount
  <2>1. stack # <<>> /\ Top.loop = "count" /\ \E g : Rewrites(g)
    BY <1>6, EndingCount
  <2> QED BY <1>2, <2>1
<1>7. CASE Leave
  <2>1. stack # <<>> /\ stack' = Front(stack)
    BY <1>7, Leaving
  <2>2. /\ Len(stack') = Len(stack) - 1 /\ Len(stack) \in Nat \ {0}
        /\ \A j \in 1 .. (Len(stack) - 1) : stack'[j] = stack[j]
        /\ stack' # <<>> <=> Len(stack) # 1
    BY <2>1, StackPopped
  <2> DEFINE k == Len(stack) - 1
  <2>3. k \in 1 .. (Len(stack) - 1) /\ k \in 1 .. Len(stack) /\ k < Len(stack)
    BY <2>2 DEF Busy
  <2>4. FrameOK(stack, k)
    BY <2>3 DEF Walk, StackOK
  <2>5. stack[k].loop = "descend" /\ stack'[k] = stack[k] /\ Len(stack') = k
    BY <2>2, <2>3, <2>4 DEF FrameOK
  <2> HIDE DEF k
  <2> QED BY <2>5 DEF Busy
<1> QED BY <1>3, <1>4, <1>5, <1>6, <1>7

\* The steps that stay on the trail keep it counted.
LEMMA HaveStays ==
  ASSUME Walk, Intact, NEW W, Grows(W), NEW b \in Nat, NEW id \in Nat, NEW w,
         Have(W, b, id, w, stack, Plus(total, tally), hash),
         ReadEntry \/ EndList \/ CountEntry \/ EndCount \/ Leave
  PROVE  Have(W, b, id, w, stack', Plus(total', tally'), hash')
<1> DEFINE V == Gone(W, b, id, stack)
<1>1. Going(W, b, id, stack) /\ Counted(V, w, stack, Plus(total, tally), hash)
  BY DEF Have
<1>2. Gone(W, b, id, stack') = V /\ Going(W, b, id, stack')
  BY <1>1, GoneStays
<1> HIDE DEF V
<1>3. Counted(V, w, stack', Plus(total', tally'), hash')
  BY <1>1, StayingCounts
<1> QED BY <1>2, <1>3 DEF Have

\* Whose files the running call counts matters only while it counts them.
LEMMA HaveAny ==
  ASSUME NEW W, NEW b, NEW id, NEW w, NEW s, NEW sum, NEW h, Have(W, b, id, w, s, sum, h),
         NEW u, Busy(s) => u = w
  PROVE  Have(W, b, id, u, s, sum, h)
<1>1. Going(W, b, id, s) /\ Counted(Gone(W, b, id, s), w, s, sum, h)
  BY DEF Have
<1>2. PICK V : V = Gone(W, b, id, s)
  OBVIOUS
<1>3. Counted(V, u, s, sum, h)
  BY <1>1, <1>2, CountedAny
<1> QED BY <1>1, <1>2, <1>3 DEF Have

\* Between the arguments all ways have been gone.
LEMMA HaveAll ==
  ASSUME NEW W, NEW b \in Nat, NEW id \in Nat, NEW s, StackOK(s), Len(s) <= b
  PROVE  /\ Gone(W, b, id, s) = W
         /\ Going(W, b, id, s) <=> W \subseteq WaySet
         /\ \A w, sum, h : Have(W, b, id, w, s, sum, h) <=>
                              W \subseteq WaySet /\ Counted(W, w, s, sum, h)
<1>1. Trail(b, id, s) = <<>>
  BY TrailFacts
<1>2. Gone(W, b, id, s) = W
  BY <1>1, ReachAll DEF Gone
<1>3. Going(W, b, id, s) <=> W \subseteq WaySet
  BY <1>1 DEF Going, OnTrail
<1> QED BY <1>2, <1>3 DEF Have

\* The arguments whose directories have been begun, and the figures up to now.
Begun == IF phase = "inspect" THEN arg - 1 ELSE arg
SoFar == IF phase \in {"inspect", "walk"} THEN Plus(total, tally) ELSE total

\* The ways below the arguments have been counted, up to the directory the walk is at.
HaveCountedFor(a, k, s, sum, h) == Have(Ways(RootsUpTo(k)), 0, a, Trail(0, a, s), s, sum, h)
HaveCounted == HaveCountedFor(arg, Begun, stack, SoFar, hash)

\* It holds after a step if it holds of what the step leaves.
LEMMA HaveCountedNext ==
  ASSUME Walk, job' = job, NEW k \in Nat, k = Begun',
         HaveCountedFor(arg', k, stack', SoFar', hash')
  PROVE  HaveCounted'
<1>1. PICK a, s, sum, h, W, t : /\ a = arg' /\ s = stack' /\ sum = SoFar' /\ h = hash'
                                /\ W = Ways(RootsUpTo(k)) /\ t = Trail(0, a, s)
  OBVIOUS
<1>2. Have(W, 0, a, t, s, sum, h)
  BY <1>1 DEF HaveCountedFor
<1>3. FileSystemOK(fs)
  BY DEF Walk
<1>4. Have(W, 0, a, t, s, sum, h)'
  BY <1>2, <1>3, SameHave
<1>5. RootsUpTo(k)' = RootsUpTo(k)
  <2>1. Targets' = Targets /\ \A d, m : Lookup(d, m)' = Lookup(d, m)
    BY SameJob
  <2>2. \A n : IsDir(n)' <=> IsDir(n)
    BY SameNames
  <2>3. \A m : Lookup(topdir, m)' = Lookup(topdir, m)
    BY <2>1
  <2> QED BY <2>1, <2>2, <2>3 DEF RootsUpTo, Place
<1>6. PICK R : R = RootsUpTo(k)
  OBVIOUS
<1>7. R \subseteq Alone
  BY <1>6, RootFacts
<1>8. Ways(R)' = W
  BY <1>1, <1>3, <1>6, <1>7, SameWays
<1>9. Ways(RootsUpTo(k))' = W
  BY <1>5, <1>6, <1>8
<1>10. Trail(0, a, s)' = t
  BY <1>1 DEF Trail, Place, Stop
<1>11. HaveCountedFor(a, k, s, sum, h)'
  BY <1>4, <1>9, <1>10 DEF HaveCountedFor
<1> QED BY <1>1, <1>11 DEF HaveCounted

\* Initially nothing has been counted.
LEMMA HaveBegins ==
  ASSUME Walk, Init
  PROVE  HaveCounted
<1>1. /\ Begun = 0 /\ SoFar = Zero /\ stack = <<>> /\ arg = 0
      /\ hash = [tables |-> <<>>, tablep |-> 0]
  BY DEF Init, Begun, SoFar
<1>2. Ways({}) = {} /\ {} \subseteq WaySet
  <2>1. {} \subseteq Alone
    OBVIOUS
  <2> QED BY <2>1, WaysBoth DEF Walk
<1>3. Tallied({}, {}, Zero, hash)
  BY <1>1, TalliedNone DEF Walk
<1>4. \A w : Counted({}, w, <<>>, Zero, hash)
  <2>1. \A w : FilesOf({}, w, <<>>) = {}
    BY DEF FilesOf, Files
  <2>2. ~Busy(<<>>)
    BY DEF Busy
  <2> QED BY <1>3, <2>1, <2>2 DEF Counted
<1>5. StackOK(<<>>) /\ Len(<<>>) <= 0
  BY <1>1 DEF Walk
<1>6. \A w : Have({}, 0, 0, w, <<>>, Zero, hash)
  BY <1>2, <1>4, <1>5, HaveAll
<1> QED BY <1>1, <1>2, <1>6, NoRoots DEF HaveCounted, HaveCountedFor

\* Between the directories it does not matter which argument comes next.
LEMMA HaveBetween ==
  ASSUME Walk, stack = <<>>, HaveCounted, NEW a \in Nat, NEW sum, sum = SoFar
  PROVE  HaveCountedFor(a, Begun, stack, sum, hash)
<1>1. StackOK(stack) /\ Len(stack) <= 0 /\ arg \in Nat /\ 0 \in Nat
  BY TargetList DEF Walk
<1> DEFINE W == Ways(RootsUpTo(Begun))
           t == Trail(0, arg, stack)
           u == Trail(0, a, stack)
<1>2. Have(W, 0, arg, t, stack, sum, hash)
  BY DEF HaveCounted, HaveCountedFor
<1> HIDE DEF W, t, u
<1>3. W \subseteq WaySet /\ Counted(W, t, stack, sum, hash)
  BY <1>1, <1>2, HaveAll
<1>4. ~Busy(stack)
  BY DEF Busy
<1>5. Counted(W, u, stack, sum, hash)
  BY <1>3, <1>4, CountedAny
<1>6. Have(W, 0, a, u, stack, sum, hash)
  BY <1>1, <1>3, <1>5, HaveAll
<1> QED BY <1>6 DEF W, u, HaveCountedFor

\* The steps within a call leave the trail where it is.
LEMMA HaveWithin ==
  ASSUME Lines, Walk, Intact, HaveCounted, job' = job,
         ReadEntry \/ EndList \/ CountEntry \/ EndCount \/ Leave
  PROVE  HaveCounted'
<1>1. phase = "walk" /\ phase' = "walk" /\ arg' = arg /\ arg \in Nat
  <2>1. phase' = phase /\ arg' = arg /\ stack # <<>>
    BY DEF ReadEntry, EndList, CountEntry, EndCount, Leave, In
  <2> QED BY <2>1, TopFacts, TargetList DEF Walk
<1>2. Begun = arg /\ Begun' = arg /\ SoFar = Plus(total, tally) /\ SoFar' = Plus(total, tally)'
  BY <1>1 DEF Begun, SoFar
<1> DEFINE R == RootsUpTo(arg)
           W == Ways(R)
           t == Trail(0, arg, stack)
           u == Trail(0, arg, stack')
<1>3. Have(W, 0, arg, t, stack, Plus(total, tally), hash)
  BY <1>2 DEF HaveCounted, HaveCountedFor
<1>4. R \subseteq Alone
  BY <1>1, RootFacts
<1> HIDE DEF R
<1>5. Grows(W)
  BY <1>4, WaysGrow DEF Walk
<1> HIDE DEF W, t, u
<1>6. Have(W, 0, arg, t, stack', Plus(total', tally'), hash')
  BY <1>1, <1>3, <1>5, HaveStays
<1>7. Busy(stack') => u = t
  BY <1>1, BusyStays DEF t, u
<1>8. Have(W, 0, arg, u, stack', Plus(total', tally'), hash')
  BY <1>6, <1>7, HaveAny
<1>9. SoFar' = Plus(total', tally')
  BY <1>2 DEF Plus
<1>10. HaveCountedFor(arg', arg, stack', SoFar', hash')
  BY <1>1, <1>8, <1>9 DEF HaveCountedFor, W, R, u
<1> QED BY <1>1, <1>2, <1>10, HaveCountedNext

\* The walk goes to an argument: its directory, and those below it, are added.
LEMMA HaveInspected ==
  ASSUME Lines, Walk, Walk', Intact, Intact', HaveCounted, job' = job, Inspect
  PROVE  HaveCounted'
<1> DEFINE n == Lookup(topdir, Targets[arg])
           k == arg - 1
           W == Ways(RootsUpTo(k))
<1>1. /\ n \in DOMAIN fs.dev \ {NONE} /\ n \in Nat
      /\ arg \in 1 .. Len(Targets) /\ stack = <<>> /\ cwd = topdir /\ cur_depth = 0
      /\ Visits(n, <<>>)
      /\ phase = "inspect" /\ phase' = "walk" /\ UNCHANGED <<arg, sub_dirs, total, hash>>
  BY Inspecting
<1>2. Begun = k /\ Begun' = arg /\ SoFar = Plus(total, tally) /\ SoFar' = Plus(total', tally')
  BY <1>1 DEF Begun, SoFar, Plus
<1>3. arg \in Nat \ {0} /\ k \in Nat /\ k + 1 = arg /\ 0 \in Nat
  BY <1>1, TargetList
<1>4. RootsUpTo(k) \subseteq Alone /\ \A w \in W : w[1].name \in 1 .. k
  BY <1>3, RootFacts
<1>5. W \subseteq WaySet
  BY <1>4, WaysGrow DEF Walk
<1>6. RootsUpTo(arg) = IF IsDir(n) THEN RootsUpTo(k) \cup {<<Place(arg, n, 0)>>} ELSE RootsUpTo(k)
  BY <1>3, OneRootMore
<1>7. PICK callers : callers = <<>>
  OBVIOUS
<1>7a. /\ StackOK(stack) /\ StackOK(callers) /\ ~Busy(stack) /\ Len(stack) <= 0
       /\ Len(callers) = cur_depth /\ cwd = Dir(callers, Len(callers)) /\ Visits(n, callers)
  BY <1>1, <1>7 DEF Walk, Busy, Dir
<1>7b. StackOK(stack')
  BY <1>1, <1>7, <1>7a, VisitOK
<1>8. Have(W, 0, arg, Trail(0, arg, stack), stack, Plus(total, tally), hash)
  BY <1>2 DEF HaveCounted, HaveCountedFor
<1> HIDE DEF n, W, k
<1>9. PICK t : t = Trail(0, arg, stack)
  OBVIOUS
<1>10. Counted(W, t, stack, Plus(total, tally), hash)
  BY <1>3, <1>7a, <1>8, <1>9, HaveAll
<1>11. CASE ~IsDir(n)
  <2>1. stack' = <<>> /\ tally' = tally
    BY <1>1, <1>11 DEF Visits, Passes, Cuts, Refused, Enters, IsDir
  <2>2. RootsUpTo(arg) = RootsUpTo(k) /\ SoFar' = Plus(total, tally) /\ arg' = arg /\ hash' = hash
        /\ stack' = stack
    BY <1>1, <1>2, <1>6, <1>11, <2>1
  <2>3. HaveCountedFor(arg', arg, stack', SoFar', hash')
    BY <1>8, <2>2 DEF HaveCountedFor, W
  <2> QED BY <1>2, <1>3, <2>3, HaveCountedNext
<1>12. CASE IsDir(n)
  <2> DEFINE r == Place(arg, n, 0)
             V == Ways({<<r>>})
  <2>1. n \in DOMAIN fs.entries
    BY <1>12 DEF IsDir
  <2>2. r \in PlaceSet /\ r.name = arg
    BY <1>3, <2>1 DEF PlaceSet, Place
  <2>3. {<<r>>} \subseteq Alone
    BY <2>2 DEF Alone
  <2>4. Ways(RootsUpTo(arg)) = W \cup V
    BY <1>4, <1>6, <1>12, <2>3, WaysBoth DEF Walk, W
  <2>5. \A w \in W : w[1] # r
    <3>1. \A w \in W : w[1].name # arg
      BY <1>3, <1>4
    <3> QED BY <2>2, <3>1
  <2>6. r = Place(arg, n, cur_depth)
    BY <1>1
  <2>7. callers # <<>> => callers[Len(callers)].loop = "descend"
    BY <1>7
  <2>9. r.node = n /\ r.depth = cur_depth
    BY <1>1 DEF Place
  <2> HIDE DEF r
  <2>8. cur_depth \in Nat /\ arg \in Nat
    BY <1>1, <1>3
  <2>9a. Starts(W, callers, n, arg, r)
    BY <1>5, <1>7a, <1>7b, <2>1, <2>5, <2>6, <2>7, <2>8 DEF Starts
  <2>9b. Started(W, arg, r)
    BY <2>9a, GoneInto
  <2>10. /\ Gone(W \cup V, cur_depth, arg, stack') = W \cup {<<r>>}
         /\ <<r>> \notin W
         /\ Going(W \cup V, cur_depth, arg, stack')
         /\ Busy(stack') => Trail(cur_depth, arg, stack') = <<r>>
         /\ Last(<<r>>) = r
    BY <2>9b DEF Started
  <2>11. Counted(W \cup {<<r>>}, <<r>>, stack', Plus(total', tally'), hash')
    BY <1>1, <1>7a, <1>10, <2>1, <2>7, <2>9, <2>10, VisitCounts
  <2> HIDE DEF V
  <2>12. Have(W \cup V, cur_depth, arg, <<r>>, stack', Plus(total', tally'), hash')
    BY <2>10, <2>11 DEF Have
  <2>13. PICK u : u = Trail(cur_depth, arg, stack')
    OBVIOUS
  <2>14. Have(W \cup V, cur_depth, arg, u, stack', Plus(total', tally'), hash')
    BY <2>10, <2>12, <2>13, HaveAny
  <2>15. HaveCountedFor(arg', arg, stack', SoFar', hash')
    BY <1>1, <1>2, <2>4, <2>13, <2>14 DEF HaveCountedFor
  <2> QED BY <1>2, <1>3, <2>15, HaveCountedNext
<1> QED BY <1>11, <1>12

\* The walk goes to an entry of the directory it is in.
LEMMA HaveDescended ==
  ASSUME Lines, Walk, Walk', Intact, Intact', HaveCounted, job' = job, Descend
  PROVE  HaveCounted'
<1> DEFINE n == Lookup(Top.dir, Entry)
           W == Ways(RootsUpTo(arg))
           t == Trail(0, arg, stack)
           u == Trail(0, arg, stack')
<1>1. /\ stack # <<>> /\ Top.loop = "descend" /\ ~AtEnd
      /\ n \in DOMAIN fs.dev \ {NONE} /\ n \in Nat
      /\ UNCHANGED <<arg, phase, total, hash>>
      /\ \/ /\ Entry = Dot /\ stack' = Advanced
            /\ UNCHANGED <<sub_dirs, stb, tally, cwd, cur_depth, open, lines>>
         \/ /\ Entry # Dot /\ n = fs.entries[Top.dir][Entry]
            /\ Visits(n, Advanced)
  BY Descending
<1>2. /\ Len(stack) \in Nat \ {0} /\ Top = stack[Len(stack)] /\ cur_depth = Len(stack)
      /\ phase = "walk" /\ StackOK(stack) /\ Top.dir \in DOMAIN fs.entries
      /\ Top.dir \notin fs.unreadable /\ (Len(stack) - 1 # opts.depth \/ opts.sum)
  BY <1>1, TopFacts
<1>3. /\ Begun = arg /\ Begun' = arg /\ SoFar = Plus(total, tally)
      /\ SoFar' = Plus(total', tally') /\ arg \in Nat /\ arg' = arg /\ hash' = hash
      /\ 0 \in Nat
  BY <1>1, <1>2, TargetList DEF Begun, SoFar, Plus, Walk
<1>4. Have(W, 0, arg, t, stack, Plus(total, tally), hash)
  BY <1>3 DEF HaveCounted, HaveCountedFor
<1>5. RootsUpTo(arg) \subseteq Alone
  BY <1>3, RootFacts
<1>6. W \subseteq WaySet /\ Grows(W)
      /\ \A w \in W : \A x : x \in Nexts(Last(w)) /\ Len(w) <= MaxOpen => Append(w, x) \in W
  BY <1>5, WaysGrow DEF Walk
<1> HIDE DEF W, u, n
<1>6a. Len(stack) > 0
  BY <1>2
<1>7. t # <<>> /\ Len(t) = Len(stack) - 0 /\ Last(t) \in PlaceSet
      /\ Last(t).node = stack[Len(stack)].dir /\ Last(t).depth = Len(stack) - 1
  BY <1>2, <1>3, <1>6a, TrailEnd
<1>8. ~Busy(stack)
  BY <1>1, <1>2 DEF Busy
<1>9. ASSUME Have(W, 0, arg, u, stack', Plus(total', tally'), hash')
      PROVE  HaveCounted'
  <2>1. HaveCountedFor(arg', arg, stack', SoFar', hash')
    BY <1>3, <1>9 DEF HaveCountedFor, W, u
  <2> QED BY <1>3, <2>1, HaveCountedNext
<1>10. /\ Going(W, 0, arg, stack)
       /\ Counted(Gone(W, 0, arg, stack), t, stack, Plus(total, tally), hash)
  BY <1>4 DEF Have
<1> HIDE DEF W, t, u, n
<1>11. PICK V : V = Gone(W, 0, arg, stack)
  OBVIOUS
<1>12. ASSUME Entry \notin DirNames(Top.dir), stack' = Advanced, tally' = tally
       PROVE  HaveCounted'
  <2>1. Gone(W, 0, arg, stack') = V /\ Going(W, 0, arg, stack') /\ ~Busy(stack')
    BY <1>1, <1>3, <1>10, <1>11, <1>12, GonePast
  <2>2. Counted(V, t, stack, Plus(total, tally), hash)
    BY <1>10, <1>11
  <2>3. FilesOf(V, t, stack') = FilesOf(V, t, stack)
    BY <1>8, <2>1 DEF FilesOf
  <2>4. Counted(V, t, stack', Plus(total, tally), hash)
    BY <2>1, <2>2, <2>3, CountedAlike
  <2>5. Have(W, 0, arg, t, stack', Plus(total', tally'), hash')
    BY <1>1, <1>12, <2>1, <2>4 DEF Have
  <2>6. Have(W, 0, arg, u, stack', Plus(total', tally'), hash')
    BY <2>1, <2>5, HaveAny
  <2> QED BY <1>9, <2>6
<1>13. CASE Entry = Dot /\ stack' = Advanced /\ tally' = tally
  <2>1. Entry \notin DirNames(Top.dir)
    BY <1>2, <1>13 DEF DirNames, Walk, FileSystemOK
  <2> QED BY <1>12, <1>13, <2>1
<1>14. CASE Entry # Dot /\ n = fs.entries[Top.dir][Entry] /\ Visits(n, Advanced) /\ ~IsDir(n)
  <2>1. Entry \notin DirNames(Top.dir)
    BY <1>14 DEF DirNames
  <2>2. stack' = Advanced /\ tally' = tally
    BY <1>14 DEF Visits, Passes, Cuts, Refused, Enters, IsDir
  <2> QED BY <1>12, <2>1, <2>2
<1>15. CASE Entry # Dot /\ n = fs.entries[Top.dir][Entry] /\ Visits(n, Advanced) /\ IsDir(n)
  <2> DEFINE x == Place(Entry, n, Len(stack))
  <2>1. n \in DOMAIN fs.entries
    BY <1>15 DEF IsDir
  <2>2. Entry \in {Dot} \cup DOMAIN fs.entries[Top.dir]
    BY <1>1, EntryFacts DEF Kept
  <2>3. Goes(Last(t))
    BY <1>2, <1>7 DEF Goes
  <2>4. Entry \in Names(Last(t), TRUE)
    BY <1>2, <1>7, <1>15, <2>2, <2>3 DEF Names
  <2>5. x \in Nexts(Last(t))
    <3>1. Place(Entry, fs.entries[Last(t).node][Entry], Last(t).depth + 1) = x
      BY <1>2, <1>7, <1>15
    <3> QED BY <2>4, <3>1 DEF Nexts
  <2> HIDE DEF x
  <2>6. Len(t) <= MaxOpen
    BY <1>2, <1>7, VtreeAssumption DEF Walk
  <2>7. t \in W
    BY <1>7, <1>10 DEF Going, OnTrail, t
  <2>8. Append(t, x) \in W
    BY <1>6, <2>5, <2>6, <2>7
  <2>9. Len(stack) > 0
    BY <1>2
  <2>10. Append(Trail(0, arg, stack), x) \in W
    BY <2>8 DEF t
  <2>11. x = Place(Entry, n, Len(stack))
    BY DEF x
  <2> DEFINE v == Append(Trail(0, arg, stack), x)
  <2>12. /\ Gone(W, 0, arg, stack') = Gone(W, 0, arg, stack) \cup {v}
         /\ v \notin Gone(W, 0, arg, stack)
         /\ Going(W, 0, arg, stack')
         /\ Busy(stack') => Trail(0, arg, stack') = v
         /\ Last(v) = x
    BY <1>1, <1>3, <1>10, <1>15, <2>1, <2>9, <2>10, <2>11, GoneOn
  <2> HIDE DEF v
  <2>13. x.node = n /\ x.depth = cur_depth
    BY <1>2 DEF x, Place
  <2>14. StackOK(Advanced) /\ Len(Advanced) = cur_depth
         /\ (Advanced # <<>> => Advanced[Len(Advanced)].loop = "descend")
    BY <1>1, <1>2, AdvancedOK
  <2>15. Counted(V, t, stack, Plus(total, tally), hash) /\ v \notin V
         /\ Last(v).node = n /\ Last(v).depth = cur_depth
    BY <1>10, <1>11, <2>12, <2>13
  <2>16. Counted(V \cup {v}, v, stack', Plus(total', tally'), hash')
    BY <1>1, <1>8, <1>15, <2>1, <2>14, <2>15, VisitCounts
  <2>17. Have(W, 0, arg, v, stack', Plus(total', tally'), hash')
    BY <1>11, <2>12, <2>16 DEF Have
  <2>18. Have(W, 0, arg, u, stack', Plus(total', tally'), hash')
    BY <2>12, <2>17, HaveAny DEF u
  <2> QED BY <1>9, <2>18
<1> QED BY <1>1, <1>13, <1>14, <1>15

\* And so does every other step.
LEMMA HaveNext ==
  ASSUME Lines, Walk, Walk', Intact, Intact', HaveCounted, [Next]_vars
  PROVE  HaveCounted'
<1>1. job' = job
  BY Printing
<1>2. arg \in Nat /\ total \in FigureSet
  BY TargetList DEF Walk
<1>3. CASE NextTarget
  <2>1. /\ phase = "next" /\ phase' = "inspect" /\ arg' = arg + 1 /\ stack = <<>>
        /\ stack' = stack /\ hash' = hash /\ tally' = Zero /\ total' = total
    BY <1>3 DEF NextTarget, Walk
  <2>2. Begun = arg /\ Begun' = arg /\ SoFar = total /\ SoFar' = total /\ arg' \in Nat
    BY <1>2, <2>1 DEF Begun, SoFar, Plus, Zero, FigureSet
  <2>3. HaveCountedFor(arg', arg, stack, SoFar, hash)
    <3>1. PICK a : a = arg'
      OBVIOUS
    <3>2. HaveCountedFor(a, Begun, stack, SoFar, hash)
      BY <2>1, <2>2, <3>1, HaveBetween
    <3> QED BY <2>2, <3>1, <3>2
  <2>4. HaveCountedFor(arg', arg, stack', SoFar', hash')
    BY <2>1, <2>2, <2>3
  <2> QED BY <1>1, <1>2, <2>2, <2>4, HaveCountedNext
<1>4. CASE Inspected \/ Summary \/ UNCHANGED vars
  <2> SUFFICES /\ stack' = stack /\ hash' = hash /\ arg' = arg /\ Begun' = Begun
               /\ SoFar' = SoFar /\ Begun \in Nat
    <3>1. HaveCountedFor(arg', Begun, stack', SoFar', hash')
      BY DEF HaveCounted
    <3> QED BY <1>1, <3>1, HaveCountedNext
  <2>1. Begun \in Nat
    BY <1>2 DEF Walk, Begun
  <2>2. CASE Inspected
    BY <2>1, <2>2 DEF Inspected, walk, Begun, SoFar
  <2>3. CASE Summary
    BY <2>1, <2>3 DEF Summary, walk, Begun, SoFar
  <2>4. CASE UNCHANGED vars
    BY <2>1, <2>4 DEF vars, walk, Begun, SoFar, Plus
  <2> QED BY <1>4, <2>2, <2>3, <2>4
<1>5. CASE Inspect
  BY <1>1, <1>5, HaveInspected
<1>6. CASE Descend
  BY <1>1, <1>6, HaveDescended
<1>7. CASE ReadEntry \/ EndList \/ CountEntry \/ EndCount \/ Leave
  BY <1>1, <1>7, HaveWithin
<1> QED BY <1>3, <1>4, <1>5, <1>6, <1>7 DEF Next

\* The directories and files below the arguments are counted as the walk goes on.
THEOREM WalkCounts == Spec => [](Inv /\ (Intact => HaveCounted))
<1> DEFINE CInv == Inv /\ (Intact => HaveCounted)
<1>1. Init => CInv
  BY WalkBegins, HaveBegins DEF Inv
<1>2. CInv /\ Inv' /\ [Next]_vars => CInv'
  <2> SUFFICES ASSUME CInv, Inv', [Next]_vars, Intact' PROVE HaveCounted'
    OBVIOUS
  <2>1. Intact
    BY IntactBefore DEF Inv
  <2> QED BY <2>1, HaveNext DEF Inv
<1>3. Spec => []Inv
  BY WalkAgrees
<1> QED BY <1>1, <1>2, <1>3, PTL DEF Spec

\* At the end the totals have each file once, and the space printed is theirs (main()).
THEOREM FilesOnce == Spec => []FilesCountedOnce
<1> DEFINE Printed0 == Done /\ Intact => summary.sizes = total.sizes
<1>1. Inv /\ (Intact => HaveCounted) /\ Printed0 => FilesCountedOnce
  <2> SUFFICES ASSUME Lines, Walk, Intact, HaveCounted, Done, summary.sizes = total.sizes
               PROVE  total = Expected(Ways(Roots))
    BY DEF Inv, FilesCountedOnce
  <2>1. stack = <<>> /\ Begun = arg /\ SoFar = total /\ arg = Len(Targets) /\ StackOK(stack)
        /\ arg \in Nat /\ Len(stack) <= 0 /\ DOMAIN Targets = 1 .. arg /\ 0 \in Nat
    BY TargetList DEF Walk, Begun, SoFar, Done
  <2>2. RootsUpTo(arg) = Roots
    BY <2>1 DEF RootsUpTo, Roots
  <2> DEFINE W == Ways(Roots)
             t == Trail(0, arg, stack)
  <2>3. Have(W, 0, arg, t, stack, total, hash)
    BY <2>1, <2>2 DEF HaveCounted, HaveCountedFor
  <2> HIDE DEF W, t
  <2>4. Counted(W, t, stack, total, hash)
    BY <2>1, <2>3, HaveAll
  <2>5. FilesOf(W, t, stack) = Files(W)
    BY <2>1, FilesAre DEF FilesOf, Busy
  <2>6. total = CountOf(W, Files(W))
    BY <2>4, <2>5 DEF Counted, Tallied
  <2>7. CountOf(W, Files(W)) = Expected(W)
    <3> DEFINE files == [f \in Files(W) |-> fs.entries[Last(f[1]).node][f[2]]]
    <3>1. files = [f \in Files(W) |-> Node(f)]
      BY DEF Node
    <3>2. Range(files) = Nodes(Files(W))
      BY <3>1 DEF Range, Nodes
    <3> QED BY <3>1, <3>2 DEF CountOf, Expected
  <2> QED BY <2>6, <2>7 DEF W
<1>2. Init => Printed0
  BY DEF Init, Done
<1>3. Inv /\ Printed0 /\ [Next]_vars => Printed0'
  <2> SUFFICES ASSUME Inv, Printed0, [Next]_vars, Done', Intact'
               PROVE  (summary.sizes = total.sizes)'
    OBVIOUS
  <2>1. Intact /\ Walk
    BY Printing, IntactBefore DEF Inv
  <2>2. CASE UNCHANGED vars
    BY <2>1, <2>2 DEF vars, Done
  <2>3. CASE Next
    <3>1. phase # "walk" => stack = <<>>
      BY <2>1 DEF Walk
    <3>2. Summary
      BY <2>3, <3>1 DEF Next, NextTarget, Inspect, Inspected, ReadEntry, EndList, CountEntry,
                        EndCount, Descend, Leave, In, Done
    <3> QED BY <3>2 DEF Summary
  <2> QED BY <2>2, <2>3
<1>4. Spec => []Printed0
  BY <1>2, <1>3, WalkAgrees, PTL DEF Spec
<1> QED BY <1>1, <1>4, WalkCounts, PTL

-----------------------------------------------------------------------------
(* The lines and what they stand for *)

\* The lines with a name among the first k of s, and the ways of one of them.
NamedIn(s, k) == {l \in 1 .. k : s[l].kind = "name"}
PlaceOf(s, l) == Place(l, s[l].node, s[l].level)
WaysOf(s, l) ==
    IF s[l].level + 1 = opts.depth THEN Ways({<<PlaceOf(s, l)>>}) ELSE {<<PlaceOf(s, l)>>}
ShownIn(s, k) == UNION {WaysOf(s, l) : l \in NamedIn(s, k)}

\* The names are those of directories, at a level that is displayed.
Placed(s) ==
    \A l \in 1 .. Len(s) :
        s[l].kind = "name" => s[l].node \in DOMAIN fs.entries /\ s[l].level \in Int

\* The ways of a line all begin with its place, and go on from the last level displayed.
LEMMA WaysOfLine ==
  ASSUME FileSystemOK(fs), opts.depth \in Int, NEW s, Placed(s), Len(s) \in Nat,
         NEW l \in NamedIn(s, Len(s))
  PROVE  /\ PlaceOf(s, l) \in PlaceSet /\ {<<PlaceOf(s, l)>>} \subseteq Alone
         /\ WaysOf(s, l) \subseteq WaySet /\ Grows(WaysOf(s, l))
         /\ \A w \in WaysOf(s, l) : w[1].name = l
         /\ \A w \in WaysOf(s, l) : \A x :
               x \in Nexts(Last(w)) /\ Len(w) <= MaxOpen /\ Last(w).depth + 1 >= opts.depth
                  /\ (s[l].level + 1 <= opts.depth) =>
               Append(w, x) \in WaysOf(s, l)
<1> DEFINE p == PlaceOf(s, l)
           R == {<<p>>}
           V == WaysOf(s, l)
<1>1. p \in PlaceSet /\ p.name = l /\ p.depth = s[l].level /\ s[l].level \in Int
  BY DEF PlaceSet, PlaceOf, Place, Placed, NamedIn
<1>2. V = IF s[l].level + 1 = opts.depth THEN Ways(R) ELSE R
  BY DEF WaysOf
<1> HIDE DEF p, V
<1>3. R \subseteq Alone
  BY <1>1 DEF Alone
<1>4. <<p>> \in WaySet /\ <<p>>[1] = p /\ Len(<<p>>) = 1 /\ Last(<<p>>) = p
  BY <1>1 DEF WaySet, Linked, Last
<1>5. CASE s[l].level + 1 = opts.depth
  <2>1. V = Ways(R)
    BY <1>2, <1>5
  <2> HIDE DEF R
  <2>2. /\ V \subseteq WaySet /\ Grows(V)
        /\ \A w \in V : \A x : x \in Nexts(Last(w)) /\ Len(w) <= MaxOpen => Append(w, x) \in V
    BY <1>3, <2>1, WaysGrow
  <2>3. ASSUME NEW w \in V PROVE w[1].name = l
    <3>1. <<w[1]>> \in R
      BY <1>3, <2>1, WayIn
    <3>2. <<w[1]>> = <<p>>
      BY <3>1 DEF R
    <3>3. w[1] = p
      BY <3>2
    <3> QED BY <1>1, <3>3
  <2> QED BY <1>1, <1>3, <2>2, <2>3 DEF p, R, V
<1>6. CASE s[l].level + 1 # opts.depth
  <2>1. V = R
    BY <1>2, <1>6
  <2>2. V \subseteq WaySet /\ Grows(V)
    BY <1>4, <2>1 DEF Grows
  <2>3. \A w \in V : w[1].name = l /\ Last(w).depth = s[l].level
    BY <1>1, <1>4, <2>1
  <2>4. ~(s[l].level + 1 >= opts.depth /\ s[l].level + 1 <= opts.depth)
    BY <1>1, <1>6
  <2>5. \A w \in V : \A x :
           x \in Nexts(Last(w)) /\ Len(w) <= MaxOpen /\ Last(w).depth + 1 >= opts.depth
              /\ (s[l].level + 1 <= opts.depth) => Append(w, x) \in V
    BY <2>3, <2>4
  <2> QED BY <1>1, <1>3, <2>2, <2>3, <2>5 DEF p, R, V
<1> QED BY <1>5, <1>6

\* No level is behind the last that is displayed.
Levelled(s) == \A l \in 1 .. Len(s) : s[l].kind = "name" => s[l].level < opts.depth

\* What holds of the ways of the lines together.
LEMMA ShownFacts ==
  ASSUME FileSystemOK(fs), opts.depth \in Int, NEW s, Placed(s), Levelled(s), Len(s) \in Nat,
         NEW k \in 0 .. Len(s)
  PROVE  LET W == ShownIn(s, k)
         IN  /\ W \subseteq WaySet /\ Grows(W)
             /\ \A w \in W : w[1].name \in 1 .. k
             /\ \A w \in W : \A x :
                   x \in Nexts(Last(w)) /\ Len(w) <= MaxOpen /\ Last(w).depth + 1 >= opts.depth =>
                   Append(w, x) \in W
<1> DEFINE W == ShownIn(s, k)
<1>1. ASSUME NEW l \in NamedIn(s, k)
      PROVE  /\ l \in 1 .. k /\ l \in NamedIn(s, Len(s))
             /\ s[l].level + 1 <= opts.depth
  BY <1>1 DEF NamedIn, Placed, Levelled
<1>2. ASSUME NEW w \in W PROVE \E l \in NamedIn(s, k) : w \in WaysOf(s, l)
  BY DEF ShownIn
<1>3. \A l \in NamedIn(s, k) : WaysOf(s, l) \subseteq W
  BY DEF ShownIn
<1> HIDE DEF W
<1>4. ASSUME NEW w \in W
      PROVE  /\ w \in WaySet /\ (Len(w) > 1 => Front(w) \in W) /\ w[1].name \in 1 .. k
             /\ \A x : x \in Nexts(Last(w)) /\ Len(w) <= MaxOpen /\ Last(w).depth + 1 >= opts.depth
                   => Append(w, x) \in W
  <2>1. PICK l \in NamedIn(s, k) : w \in WaysOf(s, l)
    BY <1>2
  <2>2. l \in 1 .. k /\ l \in NamedIn(s, Len(s)) /\ s[l].level + 1 <= opts.depth
    BY <1>1
  <2>3. /\ WaysOf(s, l) \subseteq WaySet /\ Grows(WaysOf(s, l)) /\ w[1].name = l
        /\ \A x : x \in Nexts(Last(w)) /\ Len(w) <= MaxOpen /\ Last(w).depth + 1 >= opts.depth
                     => Append(w, x) \in WaysOf(s, l)
    BY <2>1, <2>2, WaysOfLine
  <2>4. Len(w) > 1 => Front(w) \in WaysOf(s, l)
    BY <2>1, <2>3 DEF Grows
  <2> QED BY <1>3, <2>1, <2>2, <2>3, <2>4
<1> QED BY <1>4 DEF Grows, W

\* They are the same after a step.
LEMMA SameShown ==
  ASSUME FileSystemOK(fs), opts.depth \in Int, job' = job, NEW s, Placed(s), Len(s) \in Nat,
         NEW k \in 0 .. Len(s)
  PROVE  /\ ShownIn(s, k)' = ShownIn(s, k)
         /\ Placed(s)' /\ (Levelled(s)' <=> Levelled(s))
<1>1. fs' = fs /\ opts' = opts
  BY SameJob
<1>2. Placed(s)' /\ (Levelled(s)' <=> Levelled(s))
  BY <1>1 DEF Placed, Levelled
<1>3. \A l : PlaceOf(s, l)' = PlaceOf(s, l)
  BY DEF PlaceOf, Place
<1>4. ASSUME NEW l \in NamedIn(s, k) PROVE WaysOf(s, l)' = WaysOf(s, l)
  <2>1. PICK R : R = {<<PlaceOf(s, l)>>}
    OBVIOUS
  <2>2. R = {<<PlaceOf(s, l)>>}'
    BY <1>3, <2>1
  <2>3. l \in NamedIn(s, Len(s))
    BY DEF NamedIn
  <2>4. R \subseteq Alone
    BY <2>1, <2>3, WaysOfLine
  <2>5. Ways(R)' = Ways(R)
    BY <2>4, SameWays
  <2>6. Ways({<<PlaceOf(s, l)>>})' = Ways({<<PlaceOf(s, l)>>})
    BY <2>1, <2>2, <2>5
  <2> QED BY <1>1, <1>3, <2>6 DEF WaysOf
<1>5. NamedIn(s, k)' = NamedIn(s, k)
  BY DEF NamedIn
<1>6. ShownIn(s, k)' = ShownIn(s, k)
  BY <1>4, <1>5 DEF ShownIn
<1> QED BY <1>2, <1>6

\* The first line of the argument that line k of s belongs to, and the figures up to k.
FirstIn(s, j, k) ==
    /\ j \in 1 .. k /\ s[j].kind = "name" /\ s[j].level = 0
    /\ \A i \in (j + 1) .. k : s[i].kind = "name" => s[i].level # 0
PrintedIn(s, j, k) ==
    LET printed == {l \in j .. k : s[l].kind = "figures"}
    IN  [inodes |-> SumFunction([l \in printed |-> s[l].figures.inodes]),
         sizes |-> SumFunction([l \in printed |-> s[l].figures.sizes])]

\* t has all lines of s, and perhaps others behind them.
Begins(s, t) ==
    /\ Len(s) \in Nat /\ Len(t) \in Nat /\ Len(s) <= Len(t)
    /\ \A l \in 1 .. Len(s) : t[l] = s[l]
OneMore(s, t) == Begins(s, t) /\ Len(t) = Len(s) + 1

\* What is said of the first lines does not depend on those behind them.
LEMMA LinesBefore ==
  ASSUME NEW s, NEW t, Begins(s, t), NEW k \in 0 .. Len(s)
  PROVE  /\ NamedIn(t, k) = NamedIn(s, k) /\ ShownIn(t, k) = ShownIn(s, k)
         /\ \A j \in Nat \ {0} : /\ FirstIn(t, j, k) <=> FirstIn(s, j, k)
                                 /\ PrintedIn(t, j, k) = PrintedIn(s, j, k)
<1>1. \A l \in 1 .. k : l \in 1 .. Len(s) /\ t[l] = s[l]
  BY DEF Begins
<1>2. NamedIn(t, k) = NamedIn(s, k)
  BY <1>1 DEF NamedIn
<1>3. \A l \in NamedIn(s, k) : WaysOf(t, l) = WaysOf(s, l)
  BY <1>1 DEF NamedIn, WaysOf, PlaceOf
<1>4. ShownIn(t, k) = ShownIn(s, k)
  BY <1>2, <1>3 DEF ShownIn
<1>5. ASSUME NEW j \in Nat \ {0} PROVE FirstIn(t, j, k) <=> FirstIn(s, j, k)
  <2>1. \A i \in (j + 1) .. k : i \in 1 .. k
    OBVIOUS
  <2> QED BY <1>1, <2>1 DEF FirstIn
<1>6. ASSUME NEW j \in Nat \ {0} PROVE PrintedIn(t, j, k) = PrintedIn(s, j, k)
  <2>1. \A i \in j .. k : i \in 1 .. k
    OBVIOUS
  <2>2. {l \in j .. k : t[l].kind = "figures"} = {l \in j .. k : s[l].kind = "figures"}
    BY <1>1, <2>1
  <2>3. \A l \in {l \in j .. k : s[l].kind = "figures"} : t[l] = s[l]
    BY <1>1, <2>1
  <2> QED BY <2>2, <2>3 DEF PrintedIn
<1> QED BY <1>2, <1>4, <1>5, <1>6

\* The line that was printed last and has a name.
IsLatest(s, l) == l \in NamedIn(s, Len(s)) /\ \A m \in NamedIn(s, Len(s)) : m <= l
Latest(s) == IF \E l \in Nat : IsLatest(s, l) THEN CHOOSE l \in Nat : IsLatest(s, l) ELSE 0

\* The figures in the lines are numbers.
FiguresIn(s) == \A l \in 1 .. Len(s) : s[l].kind = "figures" => s[l].figures \in FigureSet

\* A line more is one name more, or it adds to the figures, or it does neither.
LEMMA OneMoreShown ==
  ASSUME NEW s, NEW t, OneMore(s, t)
  PROVE  LET n == Len(t)
         IN  IF t[n].kind = "name"
             THEN ShownIn(t, n) = ShownIn(s, Len(s)) \cup WaysOf(t, n) /\ Latest(t) = n
             ELSE ShownIn(t, n) = ShownIn(s, Len(s)) /\ Latest(t) = Latest(s)
<1> DEFINE n == Len(t)
           m == Len(s)
<1>1. /\ n = m + 1 /\ m \in Nat /\ n \in Nat
      /\ \A l : l \in 1 .. n <=> l \in 1 .. m \/ l = n
  BY DEF OneMore, Begins
<1>2. \A l \in 1 .. m : t[l] = s[l]
  BY DEF OneMore, Begins
<1> HIDE DEF n, m
<1>3. NamedIn(t, n) = NamedIn(s, m) \cup (IF t[n].kind = "name" THEN {n} ELSE {})
  BY <1>1, <1>2 DEF NamedIn
<1>4. \A l \in NamedIn(s, m) : WaysOf(t, l) = WaysOf(s, l) /\ l \in Nat /\ l <= n
  BY <1>1, <1>2 DEF NamedIn, WaysOf, PlaceOf
<1>5. CASE t[n].kind = "name"
  <2>1. NamedIn(t, n) = NamedIn(s, m) \cup {n}
    BY <1>3, <1>5
  <2>2. ShownIn(t, n) = ShownIn(s, m) \cup WaysOf(t, n)
    BY <1>4, <2>1 DEF ShownIn
  <2>3. \A l \in Nat : IsLatest(t, l) <=> l = n
    BY <1>1, <1>4, <2>1 DEF IsLatest, n
  <2>4. Latest(t) = n
    BY <1>1, <2>1, <2>3 DEF Latest, n
  <2> QED BY <1>5, <2>2, <2>4 DEF n, m
<1>6. CASE t[n].kind # "name"
  <2>1. NamedIn(t, n) = NamedIn(s, m)
    BY <1>3, <1>6
  <2>2. ShownIn(t, n) = ShownIn(s, m)
    BY <1>4, <2>1 DEF ShownIn
  <2>3. Latest(t) = Latest(s)
    BY <2>1 DEF Latest, IsLatest, n, m
  <2> QED BY <1>6, <2>2, <2>3 DEF n, m
<1> QED BY <1>5, <1>6

\* The figures of a set of lines are numbers, and one line more adds its own.
LEMMA PrintedNone ==
  ASSUME NEW s, NEW j, NEW k, \A l \in j .. k : s[l].kind # "figures"
  PROVE  PrintedIn(s, j, k) = Zero
<1>1. {l \in j .. k : s[l].kind = "figures"} = {}
  OBVIOUS
<1>2. \A f : DOMAIN f = {} => SumFunction(f) = 0
  BY SumOfNone
<1> QED BY <1>1, <1>2 DEF PrintedIn, Zero

\* One line of figures more adds its own.
LEMMA PrintedMore ==
  ASSUME NEW s, NEW t, OneMore(s, t), FiguresIn(s), FiguresIn(t), NEW j \in 1 .. Len(s),
         t[Len(t)].kind = "figures"
  PROVE  /\ PrintedIn(t, j, Len(t)) = Plus(PrintedIn(s, j, Len(s)), t[Len(t)].figures)
         /\ PrintedIn(s, j, Len(s)) \in FigureSet
<1> DEFINE n == Len(t)
           m == Len(s)
           P == {l \in j .. m : s[l].kind = "figures"}
           Q == {l \in j .. n : t[l].kind = "figures"}
<1>1. n = m + 1 /\ m \in Nat /\ n \in Nat /\ \A l \in 1 .. m : t[l] = s[l]
  BY DEF OneMore, Begins
<1> HIDE DEF n, m
<1>2. /\ j \in 1 .. m /\ t[n].kind = "figures"
      /\ \A l : l \in j .. n <=> l \in j .. m \/ l = n
      /\ n \notin j .. m
      /\ \A l \in j .. m : l \in 1 .. m
  BY <1>1 DEF n, m
<1>3. Q = P \cup {n} /\ n \notin P
  BY <1>1, <1>2
<1>4. IsFiniteSet(P)
  <2>1. IsFiniteSet(j .. m)
    BY <1>1, <1>2, FS_Interval
  <2> QED BY <2>1, FS_Subset
<1>5. \A l \in P : s[l].figures \in FigureSet /\ t[l] = s[l]
  BY <1>1, <1>2 DEF FiguresIn, m
<1>6. t[n].figures \in FigureSet
  BY <1>1, <1>2 DEF FiguresIn, n
<1>7. /\ PrintedIn(s, j, m) = [inodes |-> SumFunction([l \in P |-> s[l].figures.inodes]),
                               sizes |-> SumFunction([l \in P |-> s[l].figures.sizes])]
      /\ PrintedIn(t, j, n) = [inodes |-> SumFunction([l \in Q |-> t[l].figures.inodes]),
                               sizes |-> SumFunction([l \in Q |-> t[l].figures.sizes])]
  BY DEF PrintedIn
<1> HIDE DEF P, Q
<1>8. /\ SumFunction([l \in Q |-> t[l].figures.inodes]) =
            SumFunction([l \in P |-> s[l].figures.inodes]) + t[n].figures.inodes
      /\ SumFunction([l \in P |-> s[l].figures.inodes]) \in Int
  <2> DEFINE f == [l \in P |-> s[l].figures.inodes]
             g == [l \in Q |-> t[l].figures.inodes]
  <2>1. /\ DOMAIN f = P /\ \A y \in DOMAIN f : f[y] \in Int
        /\ DOMAIN g = DOMAIN f \cup {n} /\ g[n] \in Int /\ g[n] = t[n].figures.inodes
        /\ \A y \in DOMAIN f : g[y] = f[y]
    BY <1>3, <1>5, <1>6 DEF FigureSet
  <2> HIDE DEF f, g
  <2>2. SumFunction(g) = SumFunction(f) + g[n] /\ SumFunction(f) \in Int
    BY <1>3, <1>4, <2>1, SumWithOne
  <2> QED BY <2>1, <2>2 DEF f, g
<1>9. /\ SumFunction([l \in Q |-> t[l].figures.sizes]) =
            SumFunction([l \in P |-> s[l].figures.sizes]) + t[n].figures.sizes
      /\ SumFunction([l \in P |-> s[l].figures.sizes]) \in Int
  <2> DEFINE f == [l \in P |-> s[l].figures.sizes]
             g == [l \in Q |-> t[l].figures.sizes]
  <2>1. /\ DOMAIN f = P /\ \A y \in DOMAIN f : f[y] \in Int
        /\ DOMAIN g = DOMAIN f \cup {n} /\ g[n] \in Int /\ g[n] = t[n].figures.sizes
        /\ \A y \in DOMAIN f : g[y] = f[y]
    BY <1>3, <1>5, <1>6 DEF FigureSet
  <2> HIDE DEF f, g
  <2>2. SumFunction(g) = SumFunction(f) + g[n] /\ SumFunction(f) \in Int
    BY <1>3, <1>4, <2>1, SumWithOne
  <2> QED BY <2>1, <2>2 DEF f, g
<1> QED BY <1>7, <1>8, <1>9 DEF Plus, FigureSet, n, m

\* The first line of an argument stays that, until a name is printed at level 0.
LEMMA OneMoreFirst ==
  ASSUME NEW s, NEW t, OneMore(s, t)
  PROVE  LET n == Len(t)
         IN  /\ \A j \in 1 .. Len(s) : FirstIn(s, j, Len(s)) =>
                   IF t[n].kind = "name" /\ t[n].level = 0 THEN TRUE ELSE FirstIn(t, j, n)
             /\ t[n].kind = "name" /\ t[n].level = 0 => FirstIn(t, n, n)
             /\ t[n].kind # "figures" =>
                   \A j \in 1 .. Len(s) : PrintedIn(t, j, n) = PrintedIn(s, j, Len(s))
<1> DEFINE n == Len(t)
           m == Len(s)
<1>1. n = m + 1 /\ m \in Nat /\ n \in Nat /\ \A l \in 1 .. m : t[l] = s[l]
  BY DEF OneMore, Begins
<1> HIDE DEF n, m
<1>2. ASSUME NEW j \in 1 .. m, FirstIn(s, j, m), ~(t[n].kind = "name" /\ t[n].level = 0)
      PROVE  FirstIn(t, j, n)
  <2>1. j \in 1 .. n /\ \A i \in (j + 1) .. n : i = n \/ (i \in (j + 1) .. m /\ i \in 1 .. m)
    BY <1>1
  <2> QED BY <1>1, <1>2, <2>1 DEF FirstIn
<1>3. ASSUME t[n].kind = "name", t[n].level = 0 PROVE FirstIn(t, n, n)
  <2>1. n \in 1 .. n /\ (n + 1) .. n = {}
    BY <1>1
  <2> QED BY <1>3, <2>1 DEF FirstIn
<1>4. ASSUME t[n].kind # "figures", NEW j \in 1 .. m
      PROVE  PrintedIn(t, j, n) = PrintedIn(s, j, m)
  <2>1. \A i \in j .. n : i = n \/ i \in j .. m
    BY <1>1
  <2>2. \A i \in j .. m : i \in j .. n /\ t[i] = s[i]
    BY <1>1
  <2>3. {l \in j .. n : t[l].kind = "figures"} = {l \in j .. m : s[l].kind = "figures"}
    BY <1>4, <2>1, <2>2
  <2>4. \A l \in {l \in j .. m : s[l].kind = "figures"} : t[l] = s[l]
    BY <2>2
  <2> QED BY <2>3, <2>4 DEF PrintedIn
<1> QED BY <1>2, <1>3, <1>4 DEF n, m

\* There is one first line.
LEMMA FirstIsOne ==
  ASSUME NEW s, NEW k \in Nat, NEW i, NEW j, FirstIn(s, i, k), FirstIn(s, j, k)
  PROVE  i = j
<1>1. i \in 1 .. k /\ j \in 1 .. k /\ i \in Int /\ j \in Int
  BY DEF FirstIn
<1>2. ~(i < j)
  <2>1. i < j => j \in (i + 1) .. k
    BY <1>1
  <2> QED BY <2>1 DEF FirstIn
<1>3. ~(j < i)
  <2>1. j < i => i \in (j + 1) .. k
    BY <1>1
  <2> QED BY <2>1 DEF FirstIn
<1> QED BY <1>1, <1>2, <1>3

\* The number of the last name, 0 if there is none.
LEMMA LatestNat ==
  ASSUME NEW s
  PROVE  Latest(s) \in Nat
BY DEF Latest

\* A line that is appended is one more.
LEMMA Appended ==
  ASSUME NEW s, s \in Seq(Range(s)), NEW e
  PROVE  LET t == Append(s, e)
         IN  /\ OneMore(s, t) /\ t[Len(t)] = e /\ t \in Seq(Range(t))
             /\ Len(s) \in Nat /\ Len(t) = Len(s) + 1
<1> DEFINE S == Range(s) \cup {e}
           t == Append(s, e)
<1>1. s \in Seq(S) /\ e \in S /\ Len(s) \in Nat
  OBVIOUS
<1>2. /\ Len(t) = Len(s) + 1 /\ t[Len(s) + 1] = e /\ \A k \in 1 .. Len(s) : t[k] = s[k]
      /\ t \in Seq(S)
  <2> HIDE DEF S
  <2> QED BY <1>1, AppendProperties
<1> HIDE DEF t
<1>3. t \in Seq(Range(t))
  BY <1>2 DEF Range
<1> QED BY <1>1, <1>2, <1>3 DEF OneMore, Begins, t

\* The lines t say of directories what those of s say.
SaysAsMuch(s, t) ==
    /\ Begins(s, t)
    /\ ShownIn(t, Len(t)) = ShownIn(s, Len(s)) /\ Latest(t) = Latest(s)
    /\ \A j \in 1 .. Len(s) : FirstIn(s, j, Len(s)) => FirstIn(t, j, Len(t))
    /\ Placed(s) => Placed(t)

\* A line without a name is no new directory.
LEMMA NamelessLine ==
  ASSUME NEW s, NEW t, OneMore(s, t), t[Len(t)].kind # "name"
  PROVE  SaysAsMuch(s, t)
<1>1. ShownIn(t, Len(t)) = ShownIn(s, Len(s)) /\ Latest(t) = Latest(s)
  BY OneMoreShown
<1>2. \A j \in 1 .. Len(s) : FirstIn(s, j, Len(s)) => FirstIn(t, j, Len(t))
  BY OneMoreFirst
<1>3. Placed(s) => Placed(t)
  <2>1. \A l \in 1 .. Len(t) : l = Len(t) \/ (l \in 1 .. Len(s) /\ t[l] = s[l])
    BY DEF OneMore, Begins
  <2> QED BY <2>1 DEF Placed
<1> QED BY <1>1, <1>2, <1>3 DEF SaysAsMuch, OneMore

\* A visit behind the levels that are displayed says nothing new, nor do other files.
SaysNothing(s, t) ==
    /\ SaysAsMuch(s, t)
    /\ \A j \in 1 .. Len(s) : PrintedIn(t, j, Len(t)) = PrintedIn(s, j, Len(s))
    /\ \A l \in (Len(s) + 1) .. Len(t) : t[l].kind # "figures"

\* Lines that stay as they are say nothing new.
LEMMA SameLines ==
  ASSUME NEW s, Len(s) \in Nat
  PROVE  SaysNothing(s, s)
<1>1. Begins(s, s)
  BY DEF Begins
<1>2. (Len(s) + 1) .. Len(s) = {}
  OBVIOUS
<1> QED BY <1>1, <1>2 DEF SaysNothing, SaysAsMuch

\* The line for a directory that cannot be read says nothing of figures or names.
LEMMA UnreadLine ==
  ASSUME NEW s, NEW t, OneMore(s, t), t[Len(t)].kind = "unread"
  PROVE  SaysNothing(s, t)
<1>1. t[Len(t)].kind # "name" /\ t[Len(t)].kind # "figures"
  OBVIOUS
<1>2. SaysAsMuch(s, t)
  BY <1>1, NamelessLine
<1>3. \A j \in 1 .. Len(s) : PrintedIn(t, j, Len(t)) = PrintedIn(s, j, Len(s))
  BY <1>1, OneMoreFirst
<1>4. \A l \in (Len(s) + 1) .. Len(t) : l = Len(t)
  BY DEF OneMore, Begins
<1> QED BY <1>1, <1>2, <1>3, <1>4 DEF SaysNothing

\* A visit without a name, to a file or behind the displayed levels.
LEMMA VisitSaysNothing ==
  ASSUME Lines, NEW n, NEW callers, Visits(n, callers),
         n \in DOMAIN fs.entries => ~(cur_depth < opts.depth)
  PROVE  SaysNothing(lines, lines')
<1>1. lines \in Seq(Range(lines)) /\ Len(lines) \in Nat
  BY DEF Lines
<1>2. CASE lines' = lines
  BY <1>1, <1>2, SameLines
<1>3. CASE Refused(n, callers)
  <2> DEFINE e == [kind |-> "unread", node |-> n]
             t == Append(lines, e)
  <2>1. lines' = t
    BY <1>3 DEF Refused, Shows
  <2>2. OneMore(lines, t) /\ t[Len(t)] = e
    BY <1>1, Appended
  <2> HIDE DEF t
  <2>3. SaysNothing(lines, t)
    BY <2>2, UnreadLine
  <2> QED BY <2>1, <2>3
<1>4. CASE Enters(n, callers)
  BY <1>2, <1>4 DEF Enters, Shows
<1> QED BY <1>2, <1>3, <1>4 DEF Visits, Passes, Cuts

\* A visit to a directory at a level that is displayed names it on the next line.
Says(s, t, n) ==
    LET k == Len(s) + 1
        p == Place(k, n, cur_depth)
    IN  /\ Begins(s, t) /\ Len(t) >= k /\ Latest(t) = k /\ PlaceOf(t, k) = p
        /\ ShownIn(t, Len(t)) =
              ShownIn(s, Len(s)) \cup
              (IF cur_depth + 1 = opts.depth THEN Ways({<<p>>}) ELSE {<<p>>})
        /\ Placed(s) => Placed(t)
        /\ \A l \in k .. Len(t) : t[l].kind # "figures"
        /\ \A j \in 1 .. Len(s) :
              PrintedIn(t, j, Len(t)) = PrintedIn(s, j, Len(s))
        /\ cur_depth # 0 =>
              \A j \in 1 .. Len(s) : FirstIn(s, j, Len(s)) => FirstIn(t, j, Len(t))
        /\ cur_depth = 0 => FirstIn(t, k, Len(t))

\* The line with the name does it,
LEMMA NameLine ==
  ASSUME NEW s, NEW t, OneMore(s, t), NEW n \in DOMAIN fs.entries, cur_depth \in Nat,
         t[Len(t)].kind = "name", t[Len(t)].node = n, t[Len(t)].level = cur_depth
  PROVE  Says(s, t, n)
<1> DEFINE k == Len(s) + 1
           p == Place(k, n, cur_depth)
<1>1. /\ Len(t) = k /\ k \in Nat \ {0} /\ Begins(s, t)
      /\ \A l \in 1 .. k : l = k \/ (l \in 1 .. Len(s) /\ t[l] = s[l])
  BY DEF OneMore, Begins
<1>2. t[k].kind = "name" /\ t[k].node = n /\ t[k].level = cur_depth
  BY <1>1
<1>3. PlaceOf(t, k) = p
  BY <1>2 DEF PlaceOf
<1>4. ShownIn(t, Len(t)) = ShownIn(s, Len(s)) \cup WaysOf(t, Len(t)) /\ Latest(t) = Len(t)
  BY OneMoreShown
<1>5. WaysOf(t, k) = IF cur_depth + 1 = opts.depth THEN Ways({<<p>>}) ELSE {<<p>>}
  BY <1>2, <1>3 DEF WaysOf
<1>6. Placed(s) => Placed(t)
  BY <1>1, <1>2 DEF Placed
<1>7. \A l \in k .. Len(t) : t[l].kind # "figures"
  <2>1. \A l \in k .. Len(t) : l = k
    BY <1>1
  <2> QED BY <1>2, <2>1
<1>8. /\ \A j \in 1 .. Len(s) : PrintedIn(t, j, Len(t)) = PrintedIn(s, j, Len(s))
      /\ cur_depth # 0 => \A j \in 1 .. Len(s) : FirstIn(s, j, Len(s)) => FirstIn(t, j, Len(t))
      /\ cur_depth = 0 => FirstIn(t, Len(t), Len(t))
  BY OneMoreFirst
<1> HIDE DEF k, p
<1>9. /\ Begins(s, t) /\ Len(t) >= k /\ Latest(t) = k
      /\ cur_depth = 0 => FirstIn(t, k, Len(t))
  BY <1>1, <1>4, <1>8
<1> QED BY <1>1, <1>3, <1>4, <1>5, <1>6, <1>7, <1>8, <1>9 DEF Says, k, p

\* and what is said after it about directories that cannot be read changes nothing.
LEMMA SaysMore ==
  ASSUME NEW r, NEW s, NEW t, NEW n, Says(r, s, n), SaysNothing(s, t), Len(r) \in Nat
  PROVE  Says(r, t, n)
<1> DEFINE k == Len(r) + 1
           p == Place(k, n, cur_depth)
<1>1. /\ Begins(r, s) /\ Begins(s, t) /\ Len(s) >= k /\ Len(s) \in Nat /\ Len(t) \in Nat
      /\ k \in 1 .. Len(s) /\ Len(t) >= Len(s)
  BY DEF Says, SaysNothing, SaysAsMuch, Begins
<1>2. Begins(r, t)
  BY <1>1 DEF Begins
<1>3. PlaceOf(t, k) = PlaceOf(s, k)
  BY <1>1 DEF Begins, PlaceOf
<1>4. \A l \in k .. Len(t) : t[l].kind # "figures"
  <2> TAKE l \in k .. Len(t)
  <2>1. (l \in k .. Len(s) /\ l \in 1 .. Len(s)) \/ l \in (Len(s) + 1) .. Len(t)
    BY <1>1
  <2>2. \A m \in k .. Len(s) : s[m].kind # "figures"
    BY DEF Says
  <2>3. \A m \in (Len(s) + 1) .. Len(t) : t[m].kind # "figures"
    BY DEF SaysNothing
  <2>4. l \in 1 .. Len(s) => t[l] = s[l]
    BY <1>1 DEF Begins
  <2> QED BY <2>1, <2>2, <2>3, <2>4
<1>5. \A j \in 1 .. Len(r) : j \in 1 .. Len(s)
  BY <1>1
<1>6. /\ \A j \in 1 .. Len(s) : PrintedIn(t, j, Len(t)) = PrintedIn(s, j, Len(s))
      /\ \A j \in 1 .. Len(s) : FirstIn(s, j, Len(s)) => FirstIn(t, j, Len(t))
      /\ ShownIn(t, Len(t)) = ShownIn(s, Len(s)) /\ Latest(t) = Latest(s)
      /\ Placed(s) => Placed(t)
  BY DEF SaysNothing, SaysAsMuch
<1>7. /\ Latest(s) = k /\ PlaceOf(s, k) = p
      /\ ShownIn(s, Len(s)) =
              ShownIn(r, Len(r)) \cup
              (IF cur_depth + 1 = opts.depth THEN Ways({<<p>>}) ELSE {<<p>>})
      /\ Placed(r) => Placed(s)
      /\ \A j \in 1 .. Len(r) :
              PrintedIn(s, j, Len(s)) = PrintedIn(r, j, Len(r))
      /\ cur_depth # 0 =>
              \A j \in 1 .. Len(r) : FirstIn(r, j, Len(r)) => FirstIn(s, j, Len(s))
      /\ cur_depth = 0 => FirstIn(s, k, Len(s))
  BY DEF Says
<1>8. Len(t) >= k
  BY <1>1
<1> HIDE DEF k, p
<1>9. \A j \in 1 .. Len(r) : PrintedIn(t, j, Len(t)) = PrintedIn(r, j, Len(r))
  BY <1>5, <1>6, <1>7
<1>10. cur_depth # 0 => \A j \in 1 .. Len(r) : FirstIn(r, j, Len(r)) => FirstIn(t, j, Len(t))
  BY <1>5, <1>6, <1>7
<1>11. cur_depth = 0 => FirstIn(t, k, Len(t))
  BY <1>1, <1>6, <1>7
<1> QED BY <1>2, <1>3, <1>4, <1>6, <1>7, <1>8, <1>9, <1>10, <1>11 DEF Says, k, p

\* So a visit within the displayed levels does it.
LEMMA VisitSays ==
  ASSUME Lines, NEW n \in DOMAIN fs.entries, NEW callers, Visits(n, callers),
         cur_depth < opts.depth, cur_depth \in Nat, opts.depth \in Int
  PROVE  Says(lines, lines', n)
<1> DEFINE s == Append(lines, NameOf(n))
<1>1. lines \in Seq(Range(lines)) /\ Len(lines) \in Nat
  BY DEF Lines
<1>2. OneMore(lines, s) /\ s[Len(s)] = NameOf(n) /\ s \in Seq(Range(s)) /\ Len(s) \in Nat
  BY <1>1, Appended
<1>3. Shows(n) = s
  BY DEF Shows
<1> HIDE DEF s
<1>4. s[Len(s)].kind = "name" /\ s[Len(s)].node = n /\ s[Len(s)].level = cur_depth
  BY <1>2 DEF NameOf
<1>5. Says(lines, s, n)
  BY <1>2, <1>4, NameLine
<1>6. CASE Enters(n, callers)
  BY <1>3, <1>5, <1>6 DEF Enters
<1>7. CASE Refused(n, callers)
  <2> DEFINE e == [kind |-> "unread", node |-> n]
             t == Append(s, e)
  <2>1. lines' = t
    BY <1>3, <1>7 DEF Refused
  <2>2. OneMore(s, t) /\ t[Len(t)] = e
    BY <1>2, Appended
  <2> HIDE DEF t
  <2>3. SaysNothing(s, t)
    BY <2>2, UnreadLine
  <2>4. Says(lines, t, n)
    BY <1>1, <1>5, <2>3, SaysMore
  <2> QED BY <2>1, <2>4
<1>8. ~Cuts(n, callers) /\ ~Passes(n, callers)
  BY DEF Cuts, Passes
<1> QED BY <1>6, <1>7, <1>8 DEF Visits

-----------------------------------------------------------------------------
(* What the lines stand for is counted *)

\* The way of the running call, and that the ways of the lines s have been counted up to it.
WayAt(s, st) ==
    IF Len(st) < opts.depth THEN <<PlaceOf(s, Latest(s))>>
    ELSE Trail(opts.depth - 1, Latest(s), st)
HaveShownFor(s, st, sum, h) ==
    Have(ShownIn(s, Len(s)), opts.depth - 1, Latest(s), WayAt(s, st), st, sum, h)

\* It is the same after a step, for the same lines, stack, figures and tables.
LEMMA SameHaveShown ==
  ASSUME FileSystemOK(fs), opts.depth \in Int, job' = job, NEW s, Placed(s), Len(s) \in Nat,
         NEW st, NEW sum, NEW h
  PROVE  HaveShownFor(s, st, sum, h)' <=> HaveShownFor(s, st, sum, h)
<1>1. PICK W, b, id, w : /\ W = ShownIn(s, Len(s)) /\ b = opts.depth - 1 /\ id = Latest(s)
                         /\ w = WayAt(s, st)
  OBVIOUS
<1>2. opts' = opts
  BY SameJob
<1>3. Latest(s)' = Latest(s)
  BY DEF Latest, IsLatest, NamedIn
<1>4. Len(s) \in 0 .. Len(s)
  OBVIOUS
<1>5. ShownIn(s, Len(s))' = W
  BY <1>1, <1>4, SameShown
<1>6. WayAt(s, st)' = WayAt(s, st)
  BY <1>2, <1>3 DEF WayAt, Trail, Stop, Place, PlaceOf
<1>7. Have(W, b, id, w, st, sum, h)' <=> Have(W, b, id, w, st, sum, h)
  BY SameHave
<1>8. b = (opts.depth - 1)' /\ id = Latest(s)' /\ w = WayAt(s, st)'
  BY <1>1, <1>2, <1>3, <1>6
<1> QED BY <1>1, <1>5, <1>7, <1>8 DEF HaveShownFor

\* What holds of the lines at every step, besides what Walk says.
LinesFit == Placed(lines) /\ opts.depth >= 1 /\ opts.depth \in Int

\* What Walk says of the lines.
LEMMA LineFacts ==
  ASSUME Lines, Walk
  PROVE  Levelled(lines) /\ FiguresIn(lines) /\ Len(lines) \in Nat
         /\ lines \in Seq(Range(lines)) /\ opts.depth \in Int
<1>1. \A k \in 1 .. Len(lines) : LineOK(lines[k])
  BY DEF Walk
<1> QED BY <1>1 DEF LineOK, Levelled, FiguresIn, Lines, Walk, Options

\* The files of the running call are those of a way that a line stands for.
LEMMA WayAtLine ==
  ASSUME Lines, Walk, LinesFit, NEW sum, NEW h, HaveShownFor(lines, stack, sum, h), Busy(stack),
         Len(stack) < opts.depth
  PROVE  Latest(lines) \in 1 .. Len(lines)
<1> DEFINE W == ShownIn(lines, Len(lines))
           b == opts.depth - 1
           id == Latest(lines)
           w == WayAt(lines, stack)
<1>1. Have(W, b, id, w, stack, sum, h)
  BY DEF HaveShownFor
<1>2. w = <<PlaceOf(lines, id)>>
  BY DEF WayAt
<1>3. /\ Levelled(lines) /\ Len(lines) \in Nat /\ Len(lines) \in 0 .. Len(lines)
      /\ FileSystemOK(fs) /\ StackOK(stack)
  BY LineFacts DEF Walk
<1>4. \A v \in W : v[1].name \in 1 .. Len(lines)
  BY <1>3, ShownFacts DEF LinesFit
<1>5. b \in Nat /\ id \in Nat /\ Len(stack) <= b
  BY LatestNat DEF LinesFit, StackOK, Walk
<1> HIDE DEF W, w, b, id
<1>6. Counted(W, w, stack, sum, h)
  BY <1>1, <1>3, <1>5, HaveAll
<1>7. w \in W
  BY <1>6 DEF Counted
<1>8. w[1].name = id
  BY <1>2 DEF PlaceOf, Place
<1> QED BY <1>4, <1>7, <1>8 DEF id

\* The steps within a call leave the lines with names, and the trail, as they are.
LEMMA ShownStays ==
  ASSUME Lines, Walk, Intact, LinesFit, HaveShownFor(lines, stack, Plus(total, tally), hash),
         SaysAsMuch(lines, lines'),
         ReadEntry \/ EndList \/ CountEntry \/ EndCount \/ Leave
  PROVE  HaveShownFor(lines', stack', Plus(total', tally'), hash')
<1> DEFINE W == ShownIn(lines, Len(lines))
           b == opts.depth - 1
           id == Latest(lines)
           w == WayAt(lines, stack)
           u == WayAt(lines', stack')
<1>1. Have(W, b, id, w, stack, Plus(total, tally), hash)
  BY DEF HaveShownFor
<1>2. /\ Levelled(lines) /\ Len(lines) \in Nat /\ Len(lines) \in 0 .. Len(lines)
      /\ FileSystemOK(fs)
  BY LineFacts DEF Walk
<1>3. Grows(W)
  BY <1>2, ShownFacts DEF LinesFit
<1>4. b \in Nat /\ id \in Nat
  BY LatestNat DEF LinesFit
<1>5. ShownIn(lines', Len(lines')) = W /\ Latest(lines') = id
  BY DEF SaysAsMuch
<1>6. Busy(stack') => u = w
  <2> SUFFICES ASSUME Busy(stack') PROVE u = w
    OBVIOUS
  <2>1. /\ Busy(stack) /\ Len(stack') = Len(stack)
        /\ Trail(b, id, stack') = Trail(b, id, stack)
    BY <1>4, BusyStays
  <2>2. CASE Len(stack) < opts.depth
    <3>1. id \in 1 .. Len(lines)
      BY <2>1, <2>2, WayAtLine
    <3>2. lines'[id] = lines[id]
      BY <3>1 DEF SaysAsMuch, Begins
    <3> QED BY <1>5, <2>1, <2>2, <3>2 DEF WayAt, PlaceOf
  <2>3. CASE ~(Len(stack) < opts.depth)
    BY <1>5, <2>1, <2>3 DEF WayAt
  <2> QED BY <2>2, <2>3
<1> HIDE DEF W, b, id, w, u
<1>7. Have(W, b, id, w, stack', Plus(total', tally'), hash')
  BY <1>1, <1>3, <1>4, HaveStays
<1>8. Have(W, b, id, u, stack', Plus(total', tally'), hash')
  BY <1>6, <1>7, HaveAny
<1> QED BY <1>5, <1>8 DEF HaveShownFor, W, b, id, u

\* A directory is visited from callers.
Calls(n, callers) ==
    /\ StackOK(callers) /\ Len(callers) = cur_depth
    /\ callers # <<>> => callers[Len(callers)].loop = "descend"
    /\ StackOK(stack') /\ n \in DOMAIN fs.entries /\ Visits(n, callers)
    /\ total' = total /\ hash' = hash

\* A visit adds at most one call.
LEMMA CallsOne ==
  ASSUME NEW n, NEW callers, Calls(n, callers)
  PROVE  Len(stack') \in Nat /\ Len(stack') \in {cur_depth, cur_depth + 1}
<1>1. stack' = callers \/ stack' = Append(callers, NewCall(n))
  BY DEF Calls, Visits, Passes, Cuts, Refused, Enters
<1>2. callers \in Seq(FrameSet)
  BY DEF Calls, StackOK
<1>3. Len(Append(callers, NewCall(n))) = Len(callers) + 1
  <2> DEFINE S == FrameSet \cup {NewCall(n)}
  <2>1. callers \in Seq(S) /\ NewCall(n) \in S
    BY <1>2
  <2> HIDE DEF S
  <2> QED BY <2>1, AppendProperties
<1> QED BY <1>1, <1>2, <1>3 DEF Calls

\* A directory that is displayed: its line stands for it, or for all that is below it.
LEMMA ShownNamed ==
  ASSUME Lines, Walk, LinesFit, HaveShownFor(lines, stack, Plus(total, tally), hash),
         ~Busy(stack), NEW n, NEW callers, Calls(n, callers), cur_depth < opts.depth
  PROVE  HaveShownFor(lines', stack', Plus(total', tally'), hash') /\ Placed(lines')
<1> DEFINE W == ShownIn(lines, Len(lines))
           b == opts.depth - 1
           w == WayAt(lines, stack)
           k == Len(lines) + 1
           p == Place(k, n, cur_depth)
           v == <<p>>
           u == WayAt(lines', stack')
           sum == Plus(total', tally')
<1>1. /\ cur_depth \in Nat /\ cur_depth = Len(stack) /\ FileSystemOK(fs) /\ StackOK(stack)
      /\ opts.depth \in Int /\ n \in DOMAIN fs.entries
      /\ Levelled(lines) /\ Len(lines) \in Nat /\ Len(lines) \in 0 .. Len(lines)
  BY LineFacts DEF Walk, StackOK, Calls
<1>2. Says(lines, lines', n)
  BY <1>1, VisitSays DEF Calls
<1>3. /\ Latest(lines') = k /\ PlaceOf(lines', k) = p /\ Placed(lines')
      /\ ShownIn(lines', Len(lines')) =
            W \cup (IF cur_depth + 1 = opts.depth THEN Ways({v}) ELSE {v})
  BY <1>2 DEF Says, LinesFit
<1>4. /\ W \subseteq WaySet /\ \A x \in W : x[1].name \in 1 .. Len(lines)
  BY <1>1, ShownFacts DEF LinesFit
<1>5. /\ p \in PlaceSet /\ p.name = k /\ p.node = n /\ p.depth = cur_depth
      /\ k \in Nat /\ k \notin 1 .. Len(lines)
  BY <1>1 DEF PlaceSet, Place
<1>6. Have(W, b, Latest(lines), w, stack, Plus(total, tally), hash)
  BY DEF HaveShownFor
<1>7. b \in Nat /\ Latest(lines) \in Nat /\ Len(stack) <= b
  BY <1>1, LatestNat DEF LinesFit
<1>8. p = Place(k, n, cur_depth)
  OBVIOUS
<1> HIDE DEF W, w, p, k
<1>9. v[1] = p /\ Last(v) = p /\ v \in WaySet
  BY <1>5 DEF WaySet, Linked, Last
<1>10. (\A x \in W : x[1] # p) /\ v \notin W
  BY <1>4, <1>5, <1>9
<1>11. u = IF Len(stack') < opts.depth THEN v ELSE Trail(b, k, stack')
  BY <1>3 DEF WayAt
<1> HIDE DEF v, u, b
<1>12. Counted(W, w, stack, Plus(total, tally), hash)
  BY <1>1, <1>6, <1>7, HaveAll
<1>13. Last(v).node = n /\ Last(v).depth = cur_depth
  BY <1>5, <1>9
<1>14. Counted(W \cup {v}, v, stack', sum, hash')
  BY <1>1, <1>10, <1>12, <1>13, VisitCounts DEF Calls
<1> HIDE DEF sum
<1>15. ASSUME Have(ShownIn(lines', Len(lines')), b, k, v, stack', sum, hash'),
              Busy(stack') => u = v
       PROVE  HaveShownFor(lines', stack', sum, hash')
  <2>1. PICK X : X = ShownIn(lines', Len(lines'))
    OBVIOUS
  <2>2. Have(X, b, k, u, stack', sum, hash')
    BY <1>15, <2>1, HaveAny
  <2> QED BY <1>3, <2>1, <2>2 DEF HaveShownFor, u, b
<1>16. CASE cur_depth + 1 = opts.depth
  <2>1. Starts(W, callers, n, k, p)
    BY <1>4, <1>5, <1>8, <1>10 DEF Calls, Starts
  <2>2. Started(W, k, p)
    BY <2>1, GoneInto
  <2>3. /\ ShownIn(lines', Len(lines')) = W \cup Ways({v}) /\ cur_depth = b
    BY <1>1, <1>3, <1>16 DEF b
  <2>4. /\ Gone(W \cup Ways({v}), b, k, stack') = W \cup {v}
        /\ Going(W \cup Ways({v}), b, k, stack')
        /\ Busy(stack') => Trail(b, k, stack') = v
    BY <2>2, <2>3 DEF Started, v
  <2>5. Have(W \cup Ways({v}), b, k, v, stack', sum, hash')
    BY <1>14, <2>4 DEF Have
  <2>6. Busy(stack') => u = v
    BY <1>11, <2>4
  <2> QED BY <1>3, <1>15, <2>3, <2>5, <2>6 DEF sum
<1>17. CASE cur_depth + 1 # opts.depth
  <2>1. Len(stack') <= b /\ Len(stack') < opts.depth /\ StackOK(stack')
    BY <1>1, <1>17, CallsOne DEF b, Calls
  <2>2. PICK X : X = W \cup {v}
    OBVIOUS
  <2>3. X \subseteq WaySet /\ Counted(X, v, stack', sum, hash')
    BY <1>4, <1>9, <1>14, <2>2
  <2>4. Have(X, b, k, v, stack', sum, hash')
    BY <1>5, <1>7, <2>1, <2>3, HaveAll
  <2>5. ShownIn(lines', Len(lines')) = X /\ u = v
    BY <1>3, <1>11, <1>17, <2>1, <2>2
  <2> QED BY <1>3, <1>15, <2>4, <2>5 DEF sum
<1> QED BY <1>16, <1>17

\* Behind the displayed levels the way to a directory goes on from the one above it.
LEMMA ShownBelow ==
  ASSUME Lines, Walk, Intact, job' = job, LinesFit,
         HaveShownFor(lines, stack, Plus(total, tally), hash),
         stack # <<>>, Top.loop = "descend", ~AtEnd, Entry # Dot,
         NEW n, n = fs.entries[Top.dir][Entry], Calls(n, Advanced), ~(cur_depth < opts.depth)
  PROVE  HaveShownFor(lines', stack', Plus(total', tally'), hash') /\ Placed(lines')
<1> DEFINE W == ShownIn(lines, Len(lines))
           b == opts.depth - 1
           id == Latest(lines)
           t == Trail(b, id, stack)
           w == WayAt(lines, stack)
           u == WayAt(lines', stack')
           x == Place(Entry, n, Len(stack))
           v == Append(Trail(b, id, stack), x)
           sum == Plus(total', tally')
<1>1. /\ Len(stack) \in Nat \ {0} /\ Top = stack[Len(stack)] /\ cur_depth = Len(stack)
      /\ phase = "walk" /\ StackOK(stack) /\ Top.dir \in DOMAIN fs.entries
      /\ Top.dir \notin fs.unreadable /\ (Len(stack) - 1 # opts.depth \/ opts.sum)
  BY TopFacts
<1>2. /\ FileSystemOK(fs) /\ opts.depth \in Int /\ n \in DOMAIN fs.entries
      /\ Levelled(lines) /\ Len(lines) \in Nat /\ Len(lines) \in 0 .. Len(lines)
      /\ Visits(n, Advanced)
  BY LineFacts DEF Walk, Calls
<1>3. SaysNothing(lines, lines')
  BY <1>2, VisitSaysNothing
<1>4. ShownIn(lines', Len(lines')) = W /\ Latest(lines') = id /\ Placed(lines')
  BY <1>3 DEF SaysNothing, SaysAsMuch, LinesFit
<1>5. b \in Nat /\ id \in Nat /\ Len(stack) > b
  BY <1>1, <1>2, LatestNat DEF LinesFit
<1>6. /\ W \subseteq WaySet
      /\ \A y \in W : \A z :
            z \in Nexts(Last(y)) /\ Len(y) <= MaxOpen /\ Last(y).depth + 1 >= opts.depth =>
            Append(y, z) \in W
  BY <1>2, ShownFacts DEF LinesFit
<1>7. Have(W, b, id, w, stack, Plus(total, tally), hash)
  BY DEF HaveShownFor
<1> HIDE DEF W, b, id
<1>8. /\ t # <<>> /\ Len(t) = Len(stack) - b /\ Last(t) \in PlaceSet
      /\ Last(t).node = stack[Len(stack)].dir /\ Last(t).depth = Len(stack) - 1
  BY <1>1, <1>5, TrailEnd
<1> HIDE DEF w, t, u
<1>9. Going(W, b, id, stack) /\ Counted(Gone(W, b, id, stack), w, stack, Plus(total, tally), hash)
  BY <1>7 DEF Have
<1>10. t \in W
  BY <1>8, <1>9 DEF Going, OnTrail, t
<1>11. x \in Nexts(Last(t))
  <2>1. Entry \in {Dot} \cup DOMAIN fs.entries[Top.dir]
    BY EntryFacts DEF Kept
  <2>2. Goes(Last(t))
    BY <1>1, <1>8 DEF Goes
  <2>3. Entry \in Names(Last(t), TRUE)
    BY <1>1, <1>2, <1>8, <2>1, <2>2 DEF Names, IsDir
  <2>4. Place(Entry, fs.entries[Last(t).node][Entry], Last(t).depth + 1) = x
    BY <1>1, <1>8
  <2> QED BY <2>3, <2>4 DEF Nexts
<1>12. x = Place(Entry, n, Len(stack)) /\ x.node = n /\ x.depth = cur_depth
  BY <1>1 DEF Place
<1> HIDE DEF x
<1>13. Len(t) <= MaxOpen /\ Last(t).depth + 1 >= opts.depth
  BY <1>1, <1>2, <1>5, <1>8, VtreeAssumption DEF Walk
<1>14. Append(Trail(b, id, stack), x) \in W
  BY <1>6, <1>10, <1>11, <1>13 DEF t
<1>15. /\ Gone(W, b, id, stack') = Gone(W, b, id, stack) \cup {v}
       /\ v \notin Gone(W, b, id, stack)
       /\ Going(W, b, id, stack')
       /\ Busy(stack') => Trail(b, id, stack') = v
       /\ Last(v) = x
  BY <1>2, <1>5, <1>9, <1>12, <1>14, GoneOn
<1> HIDE DEF v
<1>16. /\ StackOK(Advanced) /\ Len(Advanced) = cur_depth
       /\ (Advanced # <<>> => Advanced[Len(Advanced)].loop = "descend")
       /\ total' = total /\ hash' = hash
  BY DEF Calls
<1>17. ~Busy(stack)
  BY <1>1 DEF Busy
<1>18. PICK V : V = Gone(W, b, id, stack)
  OBVIOUS
<1>19. Counted(V, w, stack, Plus(total, tally), hash) /\ v \notin V
       /\ Last(v).node = n /\ Last(v).depth = cur_depth
  BY <1>9, <1>12, <1>15, <1>18
<1>20. Counted(V \cup {v}, v, stack', Plus(total', tally'), hash')
  BY <1>2, <1>16, <1>17, <1>19, VisitCounts
<1>21. Have(W, b, id, v, stack', Plus(total', tally'), hash')
  BY <1>15, <1>18, <1>20 DEF Have
<1>22. ~(Len(stack') < opts.depth)
  BY <1>1, <1>2, CallsOne
<1>23. Busy(stack') => u = v
  BY <1>4, <1>15, <1>22 DEF WayAt, u, b
<1>24. Have(W, b, id, u, stack', Plus(total', tally'), hash')
  BY <1>21, <1>23, HaveAny
<1> QED BY <1>4, <1>24 DEF HaveShownFor, u, b

\* The entries that are no directories are passed over.
LEMMA ShownPast ==
  ASSUME Lines, Walk, Intact, LinesFit, HaveShownFor(lines, stack, Plus(total, tally), hash),
         stack # <<>>, Top.loop = "descend", ~AtEnd, Entry \notin DirNames(Top.dir),
         stack' = Advanced, UNCHANGED <<tally, total, hash, lines>>
  PROVE  HaveShownFor(lines', stack', Plus(total', tally'), hash') /\ Placed(lines')
<1> DEFINE W == ShownIn(lines, Len(lines))
           b == opts.depth - 1
           id == Latest(lines)
           w == WayAt(lines, stack)
           u == WayAt(lines', stack')
<1>1. Have(W, b, id, w, stack, Plus(total, tally), hash) /\ b \in Nat /\ id \in Nat
  BY LatestNat DEF HaveShownFor, LinesFit
<1> HIDE DEF W, b, id, w, u
<1>2. Going(W, b, id, stack) /\ Counted(Gone(W, b, id, stack), w, stack, Plus(total, tally), hash)
  BY <1>1 DEF Have
<1>3. PICK V : V = Gone(W, b, id, stack)
  OBVIOUS
<1>4. /\ Gone(W, b, id, stack') = V /\ Going(W, b, id, stack')
      /\ ~Busy(stack) /\ ~Busy(stack')
  BY <1>1, <1>2, <1>3, GonePast
<1>5. FilesOf(V, w, stack') = FilesOf(V, w, stack)
  BY <1>4 DEF FilesOf
<1>6. Counted(V, w, stack', Plus(total, tally), hash)
  BY <1>2, <1>3, <1>4, <1>5, CountedAlike
<1>7. Have(W, b, id, w, stack', Plus(total, tally), hash)
  BY <1>4, <1>6 DEF Have
<1>8. Have(W, b, id, u, stack', Plus(total, tally), hash)
  BY <1>4, <1>7, HaveAny
<1> QED BY <1>8 DEF HaveShownFor, W, b, id, u, LinesFit

\* What stands in the lines after printing, or without it.
LEMMA PrintsLines ==
  ASSUME Lines, Walk, NEW printing, Prints(printing)
  PROVE  /\ SaysAsMuch(lines, lines')
         /\ ~printing => UNCHANGED <<lines, total, tally>>
         /\ printing => /\ OneMore(lines, lines') /\ lines'[Len(lines')].kind = "figures"
                        /\ lines'[Len(lines')].figures = tally
                        /\ total' = Plus(total, tally) /\ tally' = Zero
<1>1. lines \in Seq(Range(lines)) /\ Len(lines) \in Nat
  BY DEF Lines
<1>2. CASE ~printing
  <2>1. lines' = lines
    BY <1>2 DEF Prints
  <2>2. SaysAsMuch(lines, lines)
    BY <1>1, SameLines DEF SaysNothing
  <2> QED BY <1>2, <2>1, <2>2 DEF Prints
<1>3. CASE printing
  <2> DEFINE e == [kind |-> "figures", figures |-> tally]
             t == Append(lines, e)
  <2>1. lines' = t /\ total' = Plus(total, tally) /\ tally' = Zero
    BY <1>3 DEF Prints, PrintFigures
  <2>2. OneMore(lines, t) /\ t[Len(t)] = e
    BY <1>1, Appended
  <2> HIDE DEF t
  <2>3. t[Len(t)].kind = "figures" /\ t[Len(t)].figures = tally
    BY <2>2
  <2>4. SaysAsMuch(lines, t)
    BY <2>2, <2>3, NamelessLine
  <2> QED BY <1>3, <2>1, <2>2, <2>3, <2>4
<1> QED BY <1>2, <1>3

-----------------------------------------------------------------------------
(* The figures in the lines *)

\* What is expected of ways is what counting them and all their files comes to.
LEMMA ExpectedIsCount == \A V : Expected(V) = CountOf(V, Files(V))
<1> TAKE V
<1> DEFINE files == [f \in Files(V) |-> fs.entries[Last(f[1]).node][f[2]]]
<1>1. files = [f \in Files(V) |-> Node(f)]
  BY DEF Node
<1>2. Range(files) = Nodes(Files(V))
  BY <1>1 DEF Range, Nodes
<1> QED BY <1>1, <1>2 DEF CountOf, Expected

\* It is the same after a step.
LEMMA ExpectedIsCountNext == (\A V : Expected(V) = CountOf(V, Files(V)))'
<1>1. \A V : Expected(V) = CountOf(V, Files(V))
  BY ExpectedIsCount
<1> QED BY <1>1, PTL

\* What is expected of the same ways is the same after a step.
LEMMA SameExpected ==
  ASSUME job' = job, NEW V
  PROVE  Expected(V)' = Expected(V)
<1>1. PICK F : F = Files(V)
  OBVIOUS
<1>2. F = Files(V)'
  BY <1>1, SameFigures
<1>3. CountOf(V, F)' = CountOf(V, F)
  BY SameCount
<1>4. Expected(V) = CountOf(V, F)
  BY <1>1, ExpectedIsCount
<1>5. Expected(V)' = CountOf(V, F)'
  BY <1>2, ExpectedIsCountNext
<1> QED BY <1>3, <1>4, <1>5

\* All that the first k lines of s stand for.
ExpectedIn(s, k) == Expected(ShownIn(s, k))

\* Where no call below the displayed levels runs, all of it has been counted.
LEMMA AllCounted ==
  ASSUME opts.depth >= 1, opts.depth \in Int, NEW s, NEW st, StackOK(st), Len(st) < opts.depth,
         ~Busy(st), NEW sum, NEW h, HaveShownFor(s, st, sum, h)
  PROVE  sum = ExpectedIn(s, Len(s))
<1>1. PICK W, b, id, w : /\ W = ShownIn(s, Len(s)) /\ b = opts.depth - 1 /\ id = Latest(s)
                         /\ w = WayAt(s, st)
  OBVIOUS
<1>2. Have(W, b, id, w, st, sum, h)
  BY <1>1 DEF HaveShownFor
<1>3. b \in Nat /\ id \in Nat /\ Len(st) <= b
  BY <1>1, LatestNat DEF StackOK
<1>4. Counted(W, w, st, sum, h)
  BY <1>2, <1>3, HaveAll
<1>5. FilesOf(W, w, st) = Files(W)
  BY FilesAre DEF FilesOf
<1>6. sum = CountOf(W, Files(W))
  BY <1>4, <1>5 DEF Counted, Tallied
<1> QED BY <1>1, <1>6, ExpectedIsCount DEF ExpectedIn

\* Line k of s agrees with the lines before it.
AddsUpAt(s, k) ==
    \E j \in 1 .. k : /\ FirstIn(s, j, k)
                      /\ Plus(ExpectedIn(s, j - 1), PrintedIn(s, j, k)) = ExpectedIn(s, k)

\* What has been printed below the current argument is what the total has more than it had.
Under(s, sum) ==
    \E j \in 1 .. Len(s) :
        /\ FirstIn(s, j, Len(s))
        /\ ExpectedIn(s, j - 1) \in FigureSet /\ PrintedIn(s, j, Len(s)) \in FigureSet
        /\ sum = Plus(ExpectedIn(s, j - 1), PrintedIn(s, j, Len(s)))

History(s, st, sum) ==
    /\ st # <<>> => Under(s, sum)
    /\ \A k \in 1 .. Len(s) : s[k].kind = "figures" => AddsUpAt(s, k)

\* The history of the same lines is the same after a step.
LEMMA SameHistory ==
  ASSUME FileSystemOK(fs), opts.depth \in Int, job' = job, NEW s, Placed(s), Len(s) \in Nat,
         NEW st, NEW sum
  PROVE  History(s, st, sum)' <=> History(s, st, sum)
<1>1. ASSUME NEW k \in 0 .. Len(s) PROVE ExpectedIn(s, k)' = ExpectedIn(s, k)
  <2>1. PICK V : V = ShownIn(s, k)
    OBVIOUS
  <2>2. V = ShownIn(s, k)'
    BY <2>1, SameShown
  <2>3. Expected(V)' = Expected(V)
    BY SameExpected
  <2> QED BY <2>1, <2>2, <2>3 DEF ExpectedIn
<1>2. \A j, k : (FirstIn(s, j, k)' <=> FirstIn(s, j, k)) /\ PrintedIn(s, j, k)' = PrintedIn(s, j, k)
  BY DEF FirstIn, PrintedIn
<1>3. \A k \in 1 .. Len(s) : AddsUpAt(s, k)' <=> AddsUpAt(s, k)
  <2> TAKE k \in 1 .. Len(s)
  <2>1. k \in 0 .. Len(s) /\ \A j \in 1 .. k : j - 1 \in 0 .. Len(s)
    OBVIOUS
  <2>2. \A j \in 1 .. k : ExpectedIn(s, j - 1)' = ExpectedIn(s, j - 1)
    BY <1>1, <2>1
  <2>3. ExpectedIn(s, k)' = ExpectedIn(s, k)
    BY <1>1, <2>1
  <2> QED BY <1>2, <2>2, <2>3 DEF AddsUpAt, Plus
<1>4. Under(s, sum)' <=> Under(s, sum)
  <2>1. \A j \in 1 .. Len(s) : j - 1 \in 0 .. Len(s)
    OBVIOUS
  <2>2. \A j \in 1 .. Len(s) : ExpectedIn(s, j - 1)' = ExpectedIn(s, j - 1)
    BY <1>1, <2>1
  <2> QED BY <1>2, <2>2 DEF Under, Plus, FigureSet
<1> QED BY <1>3, <1>4 DEF History

\* Lines without figures leave the history as it is.
LEMMA UnderStays ==
  ASSUME NEW s, NEW t, Begins(s, t), NEW sum, Under(s, sum),
         \A j \in 1 .. Len(s) : FirstIn(s, j, Len(s)) => FirstIn(t, j, Len(t)),
         \A j \in 1 .. Len(s) : PrintedIn(t, j, Len(t)) = PrintedIn(s, j, Len(s))
  PROVE  Under(t, sum)
<1>1. PICK j \in 1 .. Len(s) :
         /\ FirstIn(s, j, Len(s))
         /\ ExpectedIn(s, j - 1) \in FigureSet /\ PrintedIn(s, j, Len(s)) \in FigureSet
         /\ sum = Plus(ExpectedIn(s, j - 1), PrintedIn(s, j, Len(s)))
  BY DEF Under
<1>2. j - 1 \in 0 .. Len(s) /\ j \in 1 .. Len(t)
  BY DEF Begins
<1>3. ExpectedIn(t, j - 1) = ExpectedIn(s, j - 1)
  BY <1>2, LinesBefore DEF ExpectedIn
<1>4. FirstIn(t, j, Len(t)) /\ PrintedIn(t, j, Len(t)) = PrintedIn(s, j, Len(s))
  BY <1>1
<1> QED BY <1>1, <1>2, <1>3, <1>4 DEF Under

\* Figures that agree with the lines before them go on doing so.
LEMMA FiguresStay ==
  ASSUME NEW s, NEW t, Begins(s, t), NEW k \in 1 .. Len(s), AddsUpAt(s, k)
  PROVE  AddsUpAt(t, k)
<1>1. PICK j \in 1 .. k : /\ FirstIn(s, j, k)
                          /\ Plus(ExpectedIn(s, j - 1), PrintedIn(s, j, k)) = ExpectedIn(s, k)
  BY DEF AddsUpAt
<1>2. /\ j - 1 \in 0 .. Len(s) /\ k \in 0 .. Len(s) /\ j \in Nat \ {0}
  BY DEF Begins
<1>3. ExpectedIn(t, j - 1) = ExpectedIn(s, j - 1) /\ ExpectedIn(t, k) = ExpectedIn(s, k)
  BY <1>2, LinesBefore DEF ExpectedIn
<1>4. FirstIn(t, j, k) /\ PrintedIn(t, j, k) = PrintedIn(s, j, k)
  BY <1>1, <1>2, LinesBefore
<1> QED BY <1>1, <1>3, <1>4 DEF AddsUpAt

\* So do all that have been printed.
LEMMA HistoryStays ==
  ASSUME NEW s, NEW t, Begins(s, t), NEW st, NEW sum, History(s, st, sum),
         \A l \in (Len(s) + 1) .. Len(t) : t[l].kind # "figures",
         NEW now, NEW new, now # <<>> => Under(t, new)
  PROVE  History(t, now, new)
<1>1. ASSUME NEW k \in 1 .. Len(t), t[k].kind = "figures" PROVE AddsUpAt(t, k)
  <2>1. k \in 1 .. Len(s) \/ k \in (Len(s) + 1) .. Len(t)
    BY DEF Begins
  <2>2. k \in 1 .. Len(s) /\ s[k].kind = "figures"
    BY <1>1, <2>1 DEF Begins
  <2>3. AddsUpAt(s, k)
    BY <2>2 DEF History
  <2> QED BY <2>2, <2>3, FiguresStay
<1> QED BY <1>1 DEF History

\* Figures that are printed belong to what has been named so far.
LEMMA HistoryPrinted ==
  ASSUME NEW s, NEW t, OneMore(s, t), FiguresIn(s), FiguresIn(t), t[Len(t)].kind = "figures",
         NEW st, st # <<>>, NEW sum, History(s, st, sum),
         NEW new, new = Plus(sum, t[Len(t)].figures), new = ExpectedIn(t, Len(t)), NEW now
  PROVE  History(t, now, new)
<1> DEFINE n == Len(t)
<1>1. /\ Begins(s, t) /\ n \in Nat \ {0} /\ n = Len(s) + 1 /\ Len(s) \in Nat
      /\ t[n].kind = "figures" /\ t[n].figures \in FigureSet
  BY DEF OneMore, Begins, FiguresIn
<1>2. Under(s, sum)
  BY DEF History
<1>3. PICK j \in 1 .. Len(s) :
         /\ FirstIn(s, j, Len(s))
         /\ ExpectedIn(s, j - 1) \in FigureSet /\ PrintedIn(s, j, Len(s)) \in FigureSet
         /\ sum = Plus(ExpectedIn(s, j - 1), PrintedIn(s, j, Len(s)))
  BY <1>2 DEF Under
<1>4. j - 1 \in 0 .. Len(s) /\ j \in 1 .. n
  BY <1>1
<1>5. ExpectedIn(t, j - 1) = ExpectedIn(s, j - 1)
  BY <1>1, <1>4, LinesBefore DEF ExpectedIn
<1>6. FirstIn(t, j, n)
  BY <1>1, <1>3, OneMoreFirst
<1>7. PrintedIn(t, j, n) = Plus(PrintedIn(s, j, Len(s)), t[n].figures)
  BY PrintedMore
<1> HIDE DEF n
<1>8. PrintedIn(t, j, n) \in FigureSet
  BY <1>1, <1>3, <1>7, SumFigures
<1>9. new = Plus(ExpectedIn(t, j - 1), PrintedIn(t, j, n))
  <2>1. new = Plus(Plus(ExpectedIn(s, j - 1), PrintedIn(s, j, Len(s))), t[n].figures)
    BY <1>3 DEF n
  <2>2. \A a, p, f \in FigureSet : Plus(Plus(a, p), f) = Plus(a, Plus(p, f))
    BY DEF Plus, FigureSet
  <2>3. new = Plus(ExpectedIn(s, j - 1), Plus(PrintedIn(s, j, Len(s)), t[n].figures))
    BY <1>1, <1>3, <2>1, <2>2
  <2> QED BY <1>5, <1>7, <2>3
<1>10. Under(t, new)
  BY <1>3, <1>4, <1>5, <1>6, <1>8, <1>9 DEF Under, n
<1>11. AddsUpAt(t, n)
  BY <1>4, <1>6, <1>9 DEF AddsUpAt, n
<1>12. ASSUME NEW k \in 1 .. n, t[k].kind = "figures" PROVE AddsUpAt(t, k)
  <2>1. CASE k = n
    BY <1>11, <2>1
  <2>2. CASE k # n
    <3>1. k \in 1 .. Len(s) /\ s[k].kind = "figures"
      BY <1>1, <1>12, <2>2 DEF Begins
    <3>2. AddsUpAt(s, k)
      BY <3>1 DEF History
    <3> QED BY <1>1, <3>1, <3>2, FiguresStay
  <2> QED BY <2>1, <2>2
<1> QED BY <1>10, <1>12 DEF History, n

\* The lines are placed, what they stand for is counted, and their figures agree.  With
\* no level displayed there are no lines.
Displayed(s, st, sum, tot, h) ==
    /\ Placed(s)
    /\ IF opts.depth >= 1 THEN HaveShownFor(s, st, sum, h) /\ History(s, st, tot)
       ELSE \A k \in 1 .. Len(s) : s[k].kind # "figures"
DisplayOK ==
    /\ Displayed(lines, stack, SoFar, total, hash)
    /\ phase = "inspect" => tally = Zero

\* It holds after a step if it holds of what the step leaves.
LEMMA DisplayOKNext ==
  ASSUME Walk, job' = job, Len(lines') \in Nat, Placed(lines'),
         Displayed(lines', stack', SoFar', total', hash'), phase' = "inspect" => tally' = Zero
  PROVE  DisplayOK'
<1>1. PICK s, st, sum, tot, h : /\ s = lines' /\ st = stack' /\ sum = SoFar'
                                /\ tot = total' /\ h = hash'
  OBVIOUS
<1>2. Displayed(s, st, sum, tot, h) /\ Placed(s) /\ Len(s) \in Nat
  BY <1>1
<1>3. FileSystemOK(fs) /\ opts.depth \in Int /\ opts' = opts
  BY SameJob DEF Walk, Options
<1>4. HaveShownFor(s, st, sum, h)' <=> HaveShownFor(s, st, sum, h)
  BY <1>2, <1>3, SameHaveShown
<1>5. History(s, st, tot)' <=> History(s, st, tot)
  BY <1>2, <1>3, SameHistory
<1>6. Placed(s)'
  <2>1. Len(s) \in 0 .. Len(s)
    BY <1>2
  <2> QED BY <1>2, <1>3, <2>1, SameShown
<1>7. Displayed(s, st, sum, tot, h)'
  BY <1>2, <1>3, <1>4, <1>5, <1>6 DEF Displayed
<1> QED BY <1>1, <1>7 DEF DisplayOK

\* A visit names what it should, and nothing is printed yet.
LEMMA DisplayVisits ==
  ASSUME Lines, Lines', Walk, Intact, job' = job,
         Displayed(lines, stack, Plus(total, tally), total, hash),
         NEW n, NEW callers, Calls(n, callers), ~Busy(stack),
         \/ stack = <<>> /\ tally = Zero
         \/ /\ stack # <<>> /\ Top.loop = "descend" /\ ~AtEnd /\ Entry # Dot
            /\ callers = Advanced /\ n = fs.entries[Top.dir][Entry]
  PROVE  Displayed(lines', stack', Plus(total', tally'), total', hash')
<1>1. /\ cur_depth \in Nat /\ cur_depth = Len(stack) /\ opts.depth \in Int
      /\ Len(lines) \in Nat /\ n \in DOMAIN fs.entries /\ Visits(n, callers) /\ total' = total
      /\ StackOK(stack) /\ Placed(lines) /\ total \in FigureSet
      /\ stack = <<>> <=> Len(stack) = 0
  BY LineFacts DEF Walk, StackOK, Calls, Displayed
<1>2. CASE opts.depth >= 1 /\ cur_depth < opts.depth
  <2>1. LinesFit /\ HaveShownFor(lines, stack, Plus(total, tally), hash)
        /\ History(lines, stack, total)
    BY <1>1, <1>2 DEF Displayed, LinesFit
  <2>2. HaveShownFor(lines', stack', Plus(total', tally'), hash') /\ Placed(lines')
    BY <1>2, <2>1, ShownNamed
  <2> DEFINE k == Len(lines) + 1
  <2>3. Says(lines, lines', n)
    BY <1>1, <1>2, VisitSays
  <2>4. /\ Begins(lines, lines') /\ Len(lines') >= k /\ Len(lines') \in Nat
        /\ \A l \in k .. Len(lines') : lines'[l].kind # "figures"
        /\ \A j \in 1 .. Len(lines) :
              PrintedIn(lines', j, Len(lines')) = PrintedIn(lines, j, Len(lines))
        /\ cur_depth # 0 =>
              \A j \in 1 .. Len(lines) :
                 FirstIn(lines, j, Len(lines)) => FirstIn(lines', j, Len(lines'))
        /\ cur_depth = 0 => FirstIn(lines', k, Len(lines'))
    BY <2>3 DEF Says, Begins
  <2>5. Under(lines', total)
    <3>1. CASE stack # <<>>
      <4>1. Under(lines, total) /\ cur_depth # 0
        BY <1>1, <2>1, <3>1 DEF History
      <4> QED BY <2>4, <4>1, UnderStays
    <3>2. CASE stack = <<>>
      <4>1. cur_depth = 0 /\ tally = Zero
        BY <1>1, <3>2
      <4>2. total = Plus(total, tally)
        BY <1>1, <4>1 DEF Plus, Zero, FigureSet
      <4>3. Plus(total, tally) = ExpectedIn(lines, Len(lines))
        BY <1>1, <1>2, <2>1, AllCounted
      <4>4. k - 1 = Len(lines) /\ Len(lines) \in 0 .. Len(lines) /\ k \in 1 .. Len(lines')
        BY <1>1, <2>4
      <4>5. ExpectedIn(lines', k - 1) = total
        BY <2>4, <4>2, <4>3, <4>4, LinesBefore DEF ExpectedIn
      <4>6. PrintedIn(lines', k, Len(lines')) = Zero
        BY <2>4, PrintedNone
      <4>7. FirstIn(lines', k, Len(lines'))
        BY <2>4, <4>1
      <4> HIDE DEF k
      <4>8. total = Plus(total, Zero) /\ Zero \in FigureSet
        BY <1>1 DEF Plus, Zero, FigureSet
      <4> QED BY <1>1, <4>4, <4>5, <4>6, <4>7, <4>8 DEF Under
    <3> QED BY <3>1, <3>2
  <2>6. History(lines', stack', total)
    BY <2>1, <2>4, <2>5, HistoryStays
  <2> QED BY <1>1, <1>2, <2>2, <2>6 DEF Displayed
<1>3. CASE ~(cur_depth < opts.depth)
  <2>1. SaysNothing(lines, lines')
    BY <1>1, <1>3, VisitSaysNothing
  <2>2. /\ Begins(lines, lines') /\ Placed(lines') /\ Len(lines') \in Nat
        /\ \A l \in (Len(lines) + 1) .. Len(lines') : lines'[l].kind # "figures"
        /\ \A j \in 1 .. Len(lines) :
              PrintedIn(lines', j, Len(lines')) = PrintedIn(lines, j, Len(lines))
        /\ \A j \in 1 .. Len(lines) :
              FirstIn(lines, j, Len(lines)) => FirstIn(lines', j, Len(lines'))
    BY <1>1, <2>1 DEF SaysNothing, SaysAsMuch, Begins
  <2>3. CASE opts.depth >= 1
    <3>1. LinesFit /\ HaveShownFor(lines, stack, Plus(total, tally), hash)
          /\ History(lines, stack, total)
      BY <1>1, <2>3 DEF Displayed, LinesFit
    <3>2. /\ stack # <<>> /\ Top.loop = "descend" /\ ~AtEnd /\ Entry # Dot
          /\ callers = Advanced /\ n = fs.entries[Top.dir][Entry]
      BY <1>1, <1>3, <2>3
    <3>3. HaveShownFor(lines', stack', Plus(total', tally'), hash')
      BY <1>3, <3>1, <3>2, ShownBelow
    <3>4. Under(lines, total)
      BY <3>1, <3>2 DEF History
    <3>5. Under(lines', total)
      BY <2>2, <3>4, UnderStays
    <3>6. History(lines', stack', total)
      BY <2>2, <3>1, <3>5, HistoryStays
    <3> QED BY <1>1, <2>2, <2>3, <3>3, <3>6 DEF Displayed
  <2>4. CASE ~(opts.depth >= 1)
    <3>1. \A k \in 1 .. Len(lines) : lines[k].kind # "figures"
      BY <2>4 DEF Displayed
    <3>2. \A k \in 1 .. Len(lines') :
             \/ k \in 1 .. Len(lines) /\ lines'[k] = lines[k]
             \/ k \in (Len(lines) + 1) .. Len(lines')
      BY <1>1, <2>2 DEF Begins
    <3>3. \A k \in 1 .. Len(lines') : lines'[k].kind # "figures"
      BY <2>2, <3>1, <3>2
    <3> QED BY <2>2, <2>4, <3>3 DEF Displayed
  <2> QED BY <2>3, <2>4
<1> QED BY <1>1, <1>2, <1>3

\* The steps within a call print figures when all that is named has been counted.
LEMMA DisplayWithin ==
  ASSUME Lines, Lines', Walk, Walk', Intact, job' = job,
         Displayed(lines, stack, Plus(total, tally), total, hash),
         ReadEntry \/ EndList \/ CountEntry \/ EndCount \/ Leave
  PROVE  Displayed(lines', stack', Plus(total', tally'), total', hash')
<1>1. /\ cur_depth \in Nat /\ cur_depth = Len(stack) /\ opts.depth \in Int
      /\ Len(lines) \in Nat /\ StackOK(stack) /\ Placed(lines) /\ total \in FigureSet
      /\ FiguresIn(lines) /\ tally \in FigureSet
  BY LineFacts DEF Walk, StackOK, Displayed
<1>2. stack # <<>> /\ cur_depth # 0
  <2>1. stack # <<>>
    BY DEF ReadEntry, EndList, CountEntry, EndCount, Leave, In
  <2> QED BY <2>1, TopFacts
<1>3. \E printing :
         /\ printing => /\ opts.depth >= 1 /\ StackOK(stack') /\ Len(stack') < opts.depth
                        /\ ~Busy(stack')
         /\ IF printing THEN Prints(TRUE) ELSE UNCHANGED <<lines, total>>
  <2>1. CASE ReadEntry \/ EndList \/ CountEntry
    <3>1. UNCHANGED <<lines, total>>
      BY <2>1 DEF ReadEntry, EndList, CountEntry
    <3>2. PICK printing : printing = FALSE
      OBVIOUS
    <3> QED BY <3>1, <3>2
  <2>2. CASE EndCount
    <3>1. PICK g : Prints(cur_depth < opts.depth) /\ Rewrites(g) /\ g.loop = "descend"
      BY <2>2, EndingCount
    <3>2. /\ StackOK(stack') /\ Len(stack') = Len(stack) /\ stack'[Len(stack)] = g
      BY <1>2, <3>1, Rewritten
    <3>3. ~Busy(stack')
      BY <3>1, <3>2 DEF Busy
    <3>4. CASE cur_depth < opts.depth
      <4>1. opts.depth >= 1 /\ Len(stack') < opts.depth /\ Prints(TRUE)
        BY <1>1, <3>1, <3>2, <3>4 DEF Prints
      <4>2. PICK printing : printing = TRUE
        OBVIOUS
      <4> QED BY <3>2, <3>3, <4>1, <4>2
    <3>5. CASE ~(cur_depth < opts.depth)
      <4>1. UNCHANGED <<lines, total>>
        BY <3>1, <3>5 DEF Prints
      <4>2. PICK printing : printing = FALSE
        OBVIOUS
      <4> QED BY <4>1, <4>2
    <3> QED BY <3>4, <3>5
  <2>3. CASE Leave
    <3>1. Prints(Figures /\ cur_depth = opts.depth) /\ stack' = Front(stack)
      BY <2>3, Leaving
    <3>2. /\ StackOK(stack') /\ Len(stack') = Len(stack) - 1
          /\ \A j \in 1 .. (Len(stack) - 1) : stack'[j] = stack[j]
          /\ stack' # <<>> <=> Len(stack) # 1
      BY <1>2, <3>1, StackPopped
    <3>3. ~Busy(stack')
      <4> SUFFICES ASSUME stack' # <<>> PROVE stack'[Len(stack')].loop = "descend"
        BY DEF Busy
      <4> DEFINE k == Len(stack) - 1
      <4>1. k \in 1 .. (Len(stack) - 1) /\ k \in 1 .. Len(stack) /\ k < Len(stack)
        BY <1>1, <1>2, <3>2
      <4>2. FrameOK(stack, k)
        BY <1>1, <4>1 DEF StackOK
      <4>3. stack[k].loop = "descend" /\ stack'[k] = stack[k] /\ Len(stack') = k
        BY <3>2, <4>1, <4>2 DEF FrameOK
      <4> QED BY <4>3
    <3>4. CASE Figures /\ cur_depth = opts.depth
      <4>1. opts.depth >= 1 /\ Len(stack') < opts.depth /\ Prints(TRUE)
        BY <1>1, <1>2, <3>1, <3>2, <3>4 DEF Prints
      <4>2. PICK printing : printing = TRUE
        OBVIOUS
      <4> QED BY <3>2, <3>3, <4>1, <4>2
    <3>5. CASE ~(Figures /\ cur_depth = opts.depth)
      <4>1. UNCHANGED <<lines, total>>
        BY <3>1, <3>5 DEF Prints
      <4>2. PICK printing : printing = FALSE
        OBVIOUS
      <4> QED BY <4>1, <4>2
    <3> QED BY <3>4, <3>5
  <2> QED BY <2>1, <2>2, <2>3
<1>4. CASE UNCHANGED <<lines, total>>
  <2>1. SaysAsMuch(lines, lines') /\ Placed(lines')
    BY <1>1, <1>4, SameLines DEF SaysNothing
  <2>2. CASE opts.depth >= 1
    <3>1. LinesFit /\ HaveShownFor(lines, stack, Plus(total, tally), hash)
          /\ History(lines, stack, total)
      BY <1>1, <2>2 DEF Displayed, LinesFit
    <3>2. HaveShownFor(lines', stack', Plus(total', tally'), hash')
      BY <2>1, <3>1, ShownStays
    <3>3. History(lines', stack', total')
      BY <1>2, <1>4, <3>1 DEF History
    <3> QED BY <2>1, <2>2, <3>2, <3>3 DEF Displayed
  <2>3. CASE ~(opts.depth >= 1)
    BY <1>4, <2>1, <2>3 DEF Displayed
  <2> QED BY <2>2, <2>3
<1>5. ASSUME opts.depth >= 1, StackOK(stack'), Len(stack') < opts.depth, ~Busy(stack'),
             Prints(TRUE)
      PROVE  Displayed(lines', stack', Plus(total', tally'), total', hash')
  <2>1. LinesFit /\ HaveShownFor(lines, stack, Plus(total, tally), hash)
        /\ History(lines, stack, total)
    BY <1>1, <1>5 DEF Displayed, LinesFit
  <2>2. PICK yes : yes = TRUE
    OBVIOUS
  <2>3. /\ SaysAsMuch(lines, lines') /\ OneMore(lines, lines')
        /\ lines'[Len(lines')].kind = "figures" /\ lines'[Len(lines')].figures = tally
        /\ total' = Plus(total, tally) /\ tally' = Zero
    BY <1>5, <2>2, PrintsLines
  <2>4. HaveShownFor(lines', stack', Plus(total', tally'), hash') /\ Placed(lines')
    BY <1>1, <2>1, <2>3, ShownStays DEF SaysAsMuch
  <2>5. Plus(total', tally') = total'
    BY <1>1, <2>3 DEF Plus, Zero, FigureSet
  <2>6. total' = ExpectedIn(lines', Len(lines'))
    BY <1>1, <1>5, <2>4, <2>5, AllCounted
  <2>7. FiguresIn(lines')
    <3>1. \A l \in 1 .. Len(lines') :
             \/ l = Len(lines')
             \/ l \in 1 .. Len(lines) /\ lines'[l] = lines[l]
      BY <2>3 DEF OneMore, Begins
    <3> QED BY <1>1, <2>3, <3>1 DEF FiguresIn
  <2>8. PICK t, new, now : t = lines' /\ new = total' /\ now = stack'
    OBVIOUS
  <2>9. History(t, now, new)
    BY <1>1, <1>2, <2>1, <2>3, <2>6, <2>7, <2>8, HistoryPrinted
  <2> QED BY <1>5, <2>4, <2>8, <2>9 DEF Displayed
<1> QED BY <1>3, <1>4, <1>5

\* Initially nothing is displayed.
LEMMA DisplayBegins ==
  ASSUME Walk, Init
  PROVE  DisplayOK
<1>1. /\ lines = <<>> /\ stack = <<>> /\ SoFar = Zero /\ total = Zero /\ phase = "next"
      /\ hash = [tables |-> <<>>, tablep |-> 0]
  BY DEF Init, SoFar
<1>2. Len(lines) = 0 /\ 1 .. Len(lines) = {}
  BY <1>1
<1>3. Placed(lines) /\ History(lines, stack, total)
  BY <1>1, <1>2 DEF Placed, History
<1>4. ASSUME opts.depth >= 1 PROVE HaveShownFor(lines, stack, SoFar, hash)
  <2>1. PICK b, id, w : b = opts.depth - 1 /\ id = Latest(lines) /\ w = WayAt(lines, stack)
    OBVIOUS
  <2>2. b \in Nat /\ id \in Nat /\ StackOK(stack) /\ Len(stack) <= b
    BY <1>1, <1>4, <2>1, LatestNat DEF Walk, Options
  <2>3. ShownIn(lines, Len(lines)) = {}
    BY <1>2 DEF ShownIn, NamedIn
  <2>4. Tallied({}, {}, Zero, hash)
    BY <1>1, TalliedNone DEF Walk
  <2>5. FilesOf({}, w, stack) = {} /\ ~Busy(stack)
    BY <1>1 DEF FilesOf, Files, Busy
  <2>6. Counted({}, w, stack, Zero, hash)
    BY <2>4, <2>5 DEF Counted
  <2>7. PICK none : none = {}
    OBVIOUS
  <2>8. Have(none, b, id, w, stack, Zero, hash)
    BY <2>2, <2>6, <2>7, HaveAll
  <2> QED BY <1>1, <2>1, <2>3, <2>7, <2>8 DEF HaveShownFor
<1>5. \A k \in 1 .. Len(lines) : lines[k].kind # "figures"
  BY <1>2
<1> QED BY <1>1, <1>3, <1>4, <1>5 DEF DisplayOK, Displayed

\* The argument is visited.
LEMMA DisplayInspects ==
  ASSUME Lines, Lines', Walk, Intact, Intact', DisplayOK, job' = job, Inspect
  PROVE  DisplayOK'
<1> DEFINE n == Lookup(topdir, Targets[arg])
<1>1. /\ n \in DOMAIN fs.dev \ {NONE} /\ n \in Nat
      /\ arg \in 1 .. Len(Targets) /\ stack = <<>> /\ cwd = topdir /\ cur_depth = 0
      /\ Visits(n, <<>>)
      /\ phase = "inspect" /\ phase' = "walk" /\ UNCHANGED <<arg, sub_dirs, total, hash>>
  BY Inspecting
<1>2. SoFar = Plus(total, tally) /\ SoFar' = Plus(total', tally') /\ tally = Zero
  BY <1>1 DEF SoFar, Plus, DisplayOK
<1>3. Displayed(lines, stack, Plus(total, tally), total, hash)
  BY <1>2 DEF DisplayOK
<1>4. Len(lines') \in Nat
  BY DEF Lines
<1> HIDE DEF n
<1>5. CASE n \in DOMAIN fs.entries
  <2>1. PICK callers : callers = <<>>
    OBVIOUS
  <2>2. /\ StackOK(callers) /\ Len(callers) = cur_depth /\ cwd = Dir(callers, Len(callers))
        /\ Visits(n, callers)
    BY <1>1, <2>1 DEF Walk, Dir
  <2>3. callers # <<>> => callers[Len(callers)].loop = "descend" /\ callers[Len(callers)].i # 1
    BY <2>1
  <2>4. StackOK(stack')
    BY <1>1, <2>2, <2>3, VisitOK
  <2>5. Calls(n, callers) /\ ~Busy(stack)
    BY <1>1, <1>5, <2>2, <2>3, <2>4 DEF Calls, Busy
  <2>6. Displayed(lines', stack', Plus(total', tally'), total', hash')
    BY <1>1, <1>2, <1>3, <2>5, DisplayVisits
  <2> QED BY <1>1, <1>2, <1>4, <2>6, DisplayOKNext DEF Displayed
<1>6. CASE n \notin DOMAIN fs.entries
  <2>1. stack' = stack /\ tally' = tally /\ lines' = lines
    BY <1>1, <1>6 DEF Visits, Passes, Cuts, Refused, Enters
  <2>2. Displayed(lines', stack', SoFar', total', hash')
    BY <1>1, <1>2, <1>3, <2>1
  <2> QED BY <1>1, <1>4, <2>2, DisplayOKNext DEF Displayed
<1> QED BY <1>5, <1>6

\* An entry is visited.
LEMMA DisplayDescends ==
  ASSUME Lines, Lines', Walk, Intact, Intact', DisplayOK, job' = job, Descend
  PROVE  DisplayOK'
<1> DEFINE n == Lookup(Top.dir, Entry)
<1>1. /\ stack # <<>> /\ Top.loop = "descend" /\ ~AtEnd
      /\ n \in DOMAIN fs.dev \ {NONE} /\ n \in Nat
      /\ UNCHANGED <<arg, phase, total, hash>>
      /\ \/ /\ Entry = Dot /\ stack' = Advanced
            /\ UNCHANGED <<sub_dirs, stb, tally, cwd, cur_depth, open, lines>>
         \/ /\ Entry # Dot /\ n = fs.entries[Top.dir][Entry]
            /\ Visits(n, Advanced)
  BY Descending
<1> HIDE DEF n
<1>2. /\ Len(stack) \in Nat \ {0} /\ Top = stack[Len(stack)] /\ cur_depth = Len(stack)
      /\ phase = "walk" /\ Top.dir \in DOMAIN fs.entries /\ cwd = Top.dir
  BY <1>1, TopFacts
<1>3. SoFar = Plus(total, tally) /\ SoFar' = Plus(total', tally') /\ phase' # "inspect"
  BY <1>1, <1>2 DEF SoFar, Plus
<1>4. Displayed(lines, stack, Plus(total, tally), total, hash) /\ Placed(lines)
  BY <1>3 DEF DisplayOK, Displayed
<1>5. Len(lines') \in Nat
  BY DEF Lines
<1>6. ASSUME Displayed(lines', stack', Plus(total', tally'), total', hash')
      PROVE  DisplayOK'
  BY <1>3, <1>5, <1>6, DisplayOKNext DEF Displayed
<1>7. ASSUME Entry \notin DirNames(Top.dir), stack' = Advanced,
             UNCHANGED <<tally, total, hash, lines>>
      PROVE  DisplayOK'
  <2>1. CASE opts.depth >= 1
    <3>1. LinesFit /\ HaveShownFor(lines, stack, Plus(total, tally), hash)
          /\ History(lines, stack, total)
      BY <1>4, <2>1 DEF Displayed, LinesFit, Walk, Options
    <3>2. HaveShownFor(lines', stack', Plus(total', tally'), hash')
      BY <1>1, <1>7, <3>1, ShownPast
    <3>3. History(lines', stack', total')
      BY <1>1, <1>7, <3>1 DEF History
    <3> QED BY <1>4, <1>6, <1>7, <2>1, <3>2, <3>3 DEF Displayed
  <2>2. CASE ~(opts.depth >= 1)
    <3>1. \A k \in 1 .. Len(lines') : lines'[k].kind # "figures"
      BY <1>4, <1>7, <2>2 DEF Displayed
    <3>2. Placed(lines')
      BY <1>4, <1>7 DEF Placed
    <3> QED BY <1>6, <2>2, <3>1, <3>2 DEF Displayed
  <2> QED BY <2>1, <2>2
<1>8. CASE Entry = Dot /\ stack' = Advanced /\ UNCHANGED <<tally, lines>>
  <2>1. Entry \notin DirNames(Top.dir)
    BY <1>2, <1>8 DEF DirNames, Walk, FileSystemOK
  <2> QED BY <1>1, <1>7, <1>8, <2>1
<1>9. CASE Entry # Dot /\ n = fs.entries[Top.dir][Entry] /\ Visits(n, Advanced)
           /\ n \notin DOMAIN fs.entries
  <2>1. Entry \notin DirNames(Top.dir)
    BY <1>9 DEF DirNames, IsDir
  <2>2. stack' = Advanced /\ UNCHANGED <<tally, lines>>
    BY <1>9 DEF Visits, Passes, Cuts, Refused, Enters
  <2> QED BY <1>1, <1>7, <2>1, <2>2
<1>10. CASE Entry # Dot /\ n = fs.entries[Top.dir][Entry] /\ Visits(n, Advanced)
            /\ n \in DOMAIN fs.entries
  <2>1. PICK callers : callers = Advanced
    OBVIOUS
  <2>2. /\ StackOK(Advanced) /\ Len(Advanced) = Len(stack) /\ Advanced # <<>>
        /\ Advanced[Len(stack)].loop = Top.loop /\ Advanced[Len(stack)].i = Top.i + 1
        /\ Dir(Advanced, Len(stack)) = Dir(stack, Len(stack)) /\ Top.i \in Nat \ {0}
    <3>1. Len(stack) \in 0 .. Len(stack) /\ Top.loop # "list" /\ Top.i \in Nat \ {0}
      BY <1>1, <1>2, TopFacts
    <3> QED BY <1>1, <3>1, AdvancedOK
  <2>3. /\ StackOK(callers) /\ Len(callers) = cur_depth /\ cwd = Dir(callers, Len(callers))
        /\ Visits(n, callers)
    BY <1>2, <1>10, <2>1, <2>2 DEF Walk
  <2>4. callers # <<>> => callers[Len(callers)].loop = "descend" /\ callers[Len(callers)].i # 1
    BY <1>1, <2>1, <2>2
  <2>5. StackOK(stack')
    BY <1>1, <2>3, <2>4, VisitOK
  <2>6. Calls(n, callers) /\ ~Busy(stack)
    BY <1>1, <1>2, <1>10, <2>3, <2>4, <2>5 DEF Calls, Busy
  <2>7. Displayed(lines', stack', Plus(total', tally'), total', hash')
    BY <1>1, <1>4, <1>10, <2>1, <2>6, DisplayVisits
  <2> QED BY <1>6, <2>7
<1> QED BY <1>1, <1>8, <1>9, <1>10

\* Every step keeps the lines and their figures right.
LEMMA DisplayNext ==
  ASSUME Lines, Lines', Walk, Walk', Intact, Intact', DisplayOK, [Next]_vars
  PROVE  DisplayOK'
<1>1. job' = job /\ Len(lines') \in Nat
  BY Printing
<1>2. total \in FigureSet /\ Placed(lines)
  BY DEF Walk, DisplayOK, Displayed
<1>3. CASE NextTarget \/ Inspected \/ Summary \/ UNCHANGED vars
  <2>1. /\ stack' = stack /\ hash' = hash /\ lines' = lines /\ SoFar' = SoFar
        /\ (total' = total \/ stack = <<>>) /\ (phase' = "inspect" => tally' = Zero)
    <3>1. CASE NextTarget
      BY <1>2, <3>1 DEF NextTarget, SoFar, Plus, Zero, FigureSet
    <3>2. CASE Inspected
      BY <3>2 DEF Inspected, walk, SoFar
    <3>3. CASE Summary
      BY <3>3 DEF Summary, walk, SoFar
    <3>4. CASE UNCHANGED vars
      BY <3>4 DEF vars, walk, SoFar, Plus, DisplayOK
    <3> QED BY <1>3, <3>1, <3>2, <3>3, <3>4
  <2>2. Displayed(lines, stack, SoFar, total', hash)
    BY <2>1 DEF DisplayOK, Displayed, History
  <2> QED BY <1>1, <1>2, <2>1, <2>2, DisplayOKNext
<1>4. CASE Inspect
  BY <1>1, <1>4, DisplayInspects
<1>5. CASE Descend
  BY <1>1, <1>5, DisplayDescends
<1>6. CASE ReadEntry \/ EndList \/ CountEntry \/ EndCount \/ Leave
  <2>1. stack # <<>> /\ phase' = phase
    BY <1>6 DEF ReadEntry, EndList, CountEntry, EndCount, Leave, In
  <2>2. phase = "walk" /\ phase' = "walk"
    BY <2>1, TopFacts
  <2>3. SoFar = Plus(total, tally) /\ SoFar' = Plus(total', tally')
    BY <2>2 DEF SoFar, Plus
  <2>4. Displayed(lines, stack, Plus(total, tally), total, hash)
    BY <2>3 DEF DisplayOK
  <2>5. Displayed(lines', stack', Plus(total', tally'), total', hash')
    BY <1>1, <1>6, <2>4, DisplayWithin
  <2> QED BY <1>1, <2>2, <2>3, <2>5, DisplayOKNext DEF Displayed
<1> QED BY <1>3, <1>4, <1>5, <1>6 DEF Next

\* Every figure that is printed belongs to the directories named up to its line.
THEOREM WalkDisplays == Spec => [](Inv /\ (Intact => DisplayOK))
<1> DEFINE DInv == Inv /\ (Intact => DisplayOK)
<1>1. Init => DInv
  BY WalkBegins, DisplayBegins DEF Inv
<1>2. DInv /\ Inv' /\ [Next]_vars => DInv'
  <2> SUFFICES ASSUME DInv, Inv', [Next]_vars, Intact' PROVE DisplayOK'
    OBVIOUS
  <2>1. Intact
    BY IntactBefore DEF Inv
  <2> QED BY <2>1, DisplayNext DEF Inv
<1>3. Spec => []Inv
  BY WalkAgrees
<1> QED BY <1>1, <1>2, <1>3, PTL DEF Spec

\* The figures stand on the lines they belong to (down() and print_size of vtree.c).
THEOREM FiguresOnTheirLines == Spec => []FiguresBelongToTheirLine
<1>1. Inv /\ (Intact => DisplayOK) => FiguresBelongToTheirLine
  <2> SUFFICES ASSUME Lines, Walk, Intact, DisplayOK,
                      NEW k \in DOMAIN lines, lines[k].kind = "figures"
               PROVE  LET j == FirstLine(k)
                      IN  Plus(ExpectedUpTo(j - 1), Printed(j, k)) = ExpectedUpTo(k)
    BY DEF Inv, FiguresBelongToTheirLine
  <2>1. k \in 1 .. Len(lines) /\ k \in Nat
    BY DEF Lines
  <2>2. AddsUpAt(lines, k)
    BY <2>1 DEF DisplayOK, Displayed, History
  <2>3. PICK j \in 1 .. k :
           /\ FirstIn(lines, j, k)
           /\ Plus(ExpectedIn(lines, j - 1), PrintedIn(lines, j, k)) = ExpectedIn(lines, k)
    BY <2>2 DEF AddsUpAt
  <2>4. \A i \in 1 .. k : FirstIn(lines, i, k) <=>
          /\ lines[i].kind = "name" /\ lines[i].level = 0
          /\ \A l \in (i + 1) .. k : lines[l].kind = "name" => lines[l].level # 0
    BY DEF FirstIn
  <2>5. \A i \in 1 .. k : FirstIn(lines, i, k) => i = j
    BY <2>1, <2>3, FirstIsOne
  <2>6. FirstLine(k) = j
    BY <2>3, <2>4, <2>5 DEF FirstLine
  <2>7. \A m : ExpectedUpTo(m) = ExpectedIn(lines, m)
    BY DEF ExpectedUpTo, ExpectedIn, Shown, ShownIn, Named, NamedIn, Line, WaysOf, PlaceOf
  <2>8. Printed(j, k) = PrintedIn(lines, j, k)
    BY DEF Printed, PrintedIn
  <2> QED BY <2>3, <2>6, <2>7, <2>8
<1> QED BY <1>1, WalkDisplays, PTL
=============================================================================
