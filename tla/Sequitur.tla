------------------------------ MODULE Sequitur ------------------------------
(***************************************************************************)
(* The core of the HW1 compressor: the symbol storage with its stack of    *)
(* recycled symbols (src/symbol.c), the rules and their list (src/rules.c),*)
(* the digram table (src/digram_hash.c) and the Sequitur algorithm         *)
(* (src/sequitur.c).                                                       *)
(*                                                                         *)
(* A pointer to a symbol is its place in the storage, counted from 1.  As  *)
(* in the code, a recycled symbol keeps its fields, and so do the symbols  *)
(* of the blocks before: what is left in them matters.  The state g is     *)
(*   sym              the storage, symbol_storage                          *)
(*   num_symbols, recycled, next_nt, main_rule, table                      *)
(*                    the variables of the code                            *)
(*   ok               FALSE once the code has called abort().              *)
(***************************************************************************)
EXTENDS Integers, Sequences, FiniteSets

CONSTANTS
    MAX_SYMBOLS,    \* the symbols of the storage (1000000 in the code)
    MAX_DIGRAMS,    \* the entries of the digram table, a prime (999983)
    REFCNT_MOD      \* reference counts are unsigned: kept modulo this (2^32)

ASSUME SequiturAssumption ==
    /\ MAX_SYMBOLS \in Nat \ {0}
    /\ MAX_DIGRAMS \in Nat \ {0}
    /\ REFCNT_MOD \in Nat /\ REFCNT_MOD > 2

NULL == 0
TOMBSTONE == -1
FIRST_NONTERMINAL == 256

ZeroSymbol == [value |-> 0, refcnt |-> 0, rule |-> NULL, next |-> NULL,
               prev |-> NULL, nextr |-> NULL, prevr |-> NULL]
EmptyTable == [h \in 0 .. (MAX_DIGRAMS - 1) |-> NULL]

\* The state when the program starts.
Zeroed == [sym |-> [s \in 1 .. MAX_SYMBOLS |-> ZeroSymbol], num_symbols |-> 0,
           recycled |-> NULL, next_nt |-> FIRST_NONTERMINAL, main_rule |-> NULL,
           table |-> EmptyTable, ok |-> TRUE]

\* At the start of a block the symbols keep their fields.
init_symbols(g) ==
    [g EXCEPT !.num_symbols = 0, !.recycled = NULL, !.next_nt = FIRST_NONTERMINAL]
init_rules(g) == [g EXCEPT !.main_rule = NULL]
init_digram_hash(g) == [g EXCEPT !.table = EmptyTable]

value(g, s) == g.sym[s].value
next(g, s) == g.sym[s].next
prev(g, s) == g.sym[s].prev
rule(g, s) == g.sym[s].rule
refcnt(g, s) == g.sym[s].refcnt
IS_RULE_HEAD(g, s) == rule(g, s) = s
IS_NONTERMINAL(g, s) == value(g, s) >= FIRST_NONTERMINAL

\* After abort() nothing is done.
Abort(g) == [g EXCEPT !.ok = FALSE]
Then(g, Step(_)) == IF g.ok THEN Step(g) ELSE g

-----------------------------------------------------------------------------
(* symbol.c and rules.c *)

\* The symbol that new_symbol() takes.
Fresh(g) == IF g.recycled # NULL THEN g.recycled ELSE g.num_symbols + 1

\* MUTANT: a recycled symbol keeps its count.
KeepCountMutant(g, v, r) ==
    LET s == Fresh(g)
        old == refcnt(g, s)
    IN  IF s > MAX_SYMBOLS THEN Abort(g)
        ELSE [g EXCEPT
                !.recycled = IF @ # NULL THEN next(g, s) ELSE @,
                !.num_symbols = IF g.recycled # NULL THEN @ ELSE @ + 1,
                !.sym[s].value = v,
                !.sym[s].rule = IF v >= FIRST_NONTERMINAL THEN r ELSE NULL,
                !.sym[s].refcnt = IF v >= FIRST_NONTERMINAL
                                  THEN (old + 1) % REFCNT_MOD ELSE old]

\* The count that a new nonterminal gets is its own, not that of its rule; a symbol
\* that was not recycled begins with the count an earlier block has left.
new_symbol(g, v, r) ==
    LET s == Fresh(g)
        old == IF g.recycled # NULL THEN 0 ELSE refcnt(g, s)
    IN  IF s > MAX_SYMBOLS THEN Abort(g)
        ELSE [g EXCEPT
                !.recycled = IF @ # NULL THEN next(g, s) ELSE @,
                !.num_symbols = IF g.recycled # NULL THEN @ ELSE @ + 1,
                !.sym[s].value = v,
                !.sym[s].rule = IF v >= FIRST_NONTERMINAL THEN r ELSE NULL,
                !.sym[s].refcnt = IF v >= FIRST_NONTERMINAL
                                  THEN (old + 1) % REFCNT_MOD ELSE old]

recycle_symbol(g, s) == [g EXCEPT !.sym[s].next = g.recycled, !.recycled = s]

\* new_rule(v) for a nonterminal v: the head is Fresh(g).
new_rule(g, v) ==
    LET h == Fresh(g)
        g1 == new_symbol(g, v, NULL)
    IN  IF ~g1.ok THEN g1
        ELSE [g1 EXCEPT !.sym[h].prev = h, !.sym[h].next = h, !.sym[h].rule = h]

add_rule(g, r) ==
    LET last == g.sym[g.main_rule].prevr
    IN  IF g.main_rule = NULL
        THEN [g EXCEPT !.main_rule = r, !.sym[r].prevr = r, !.sym[r].nextr = r]
        ELSE [g EXCEPT !.sym[r].prevr = last, !.sym[r].nextr = g.main_rule,
                       !.sym[last].nextr = r, !.sym[g.main_rule].prevr = r]

delete_rule(g, r) ==
    LET before == g.sym[r].prevr
        after == g.sym[r].nextr
        g1 == [g EXCEPT !.sym[before].nextr = after, !.sym[after].prevr = before]
    IN  IF refcnt(g1, r) = 0 THEN recycle_symbol(g1, r) ELSE g1

\* The test for a negative count is never true of an unsigned one.
unref_rule(g, r) == [g EXCEPT !.sym[r].refcnt = (@ + REFCNT_MOD - 1) % REFCNT_MOD]

-----------------------------------------------------------------------------
(* digram_hash.c *)

DIGRAM_HASH(v1, v2) == (v1 * 37 + v2) % MAX_DIGRAMS
Slot(h, k) == (h + k) % MAX_DIGRAMS

IsDigram(g, s, v1, v2) == value(g, s) = v1 /\ value(g, next(g, s)) = v2

\* MUTANT: a search ends at a tombstone.
DeadEndMutant(g, v1, v2) ==
    LET h == DIGRAM_HASH(v1, v2)
        from[k \in 0 .. MAX_DIGRAMS] ==
            LET dp == g.table[Slot(h, k)]
            IN  IF k = MAX_DIGRAMS \/ dp \in {NULL, TOMBSTONE} THEN NULL
                ELSE IF IsDigram(g, dp, v1, v2) THEN dp
                ELSE from[k + 1]
    IN  from[0]

digram_get(g, v1, v2) ==
    LET h == DIGRAM_HASH(v1, v2)
        from[k \in 0 .. MAX_DIGRAMS] ==
            LET dp == g.table[Slot(h, k)]
            IN  IF k = MAX_DIGRAMS \/ dp = NULL THEN NULL
                ELSE IF dp # TOMBSTONE /\ IsDigram(g, dp, v1, v2) THEN dp
                ELSE from[k + 1]
    IN  from[0]

\* The table is searched for the symbol itself, past the empty entries.
digram_delete(g, s) ==
    LET h == DIGRAM_HASH(value(g, s), value(g, next(g, s)))
        from[k \in 0 .. MAX_DIGRAMS] ==
            IF k = MAX_DIGRAMS THEN g
            ELSE IF g.table[Slot(h, k)] = s
                 THEN [g EXCEPT !.table[Slot(h, k)] = TOMBSTONE]
            ELSE from[k + 1]
    IN  from[0]

\* The first tombstone is used, whatever stands behind it.
digram_put(g, s) ==
    LET v1 == value(g, s)
        v2 == value(g, next(g, s))
        h == DIGRAM_HASH(v1, v2)
        from[k \in 0 .. MAX_DIGRAMS] ==
            LET dp == g.table[Slot(h, k)]
            IN  IF k = MAX_DIGRAMS THEN g
                ELSE IF dp \in {NULL, TOMBSTONE} THEN [g EXCEPT !.table[Slot(h, k)] = s]
                ELSE IF IsDigram(g, dp, v1, v2) THEN g
                ELSE from[k + 1]
    IN  IF next(g, s) = NULL THEN g ELSE from[0]

-----------------------------------------------------------------------------
(* sequitur.c *)

\* Three symbols of the same value in a row, of which s is the second.
InTriple(g, s) ==
    /\ prev(g, s) # NULL /\ next(g, s) # NULL
    /\ value(g, s) = value(g, prev(g, s))
    /\ value(g, s) = value(g, next(g, s))

PutTriple(g, s) == IF InTriple(g, s) THEN digram_put(g, s) ELSE g

join_symbols(g, this, nxt) ==
    LET unlinked == IF next(g, this) = NULL THEN g
                    ELSE PutTriple(PutTriple(digram_delete(g, this), nxt), this)
    IN  [unlinked EXCEPT !.sym[this].next = nxt, !.sym[nxt].prev = this]

insert_after(g, this, new) ==
    join_symbols(join_symbols(g, new, next(g, this)), this, new)

delete_symbol(g, this) ==
    LET Unref(x) == IF IS_NONTERMINAL(x, this) THEN unref_rule(x, rule(x, this)) ELSE x
    IN  IF IS_RULE_HEAD(g, this) THEN Abort(g)
        ELSE recycle_symbol(
                 Unref(digram_delete(join_symbols(g, prev(g, this), next(g, this)), this)),
                 this)

\* MUTANT: the rule is deleted while its count is still 1, and its head not recycled.
KeepHeadMutant(g, this) ==
    LET r == rule(g, this)
        left == prev(g, this)
        right == next(g, this)
        first == next(g, r)
        last == prev(g, r)
        g1 == join_symbols(digram_delete(g, this), left, first)
        g2 == join_symbols(g1, last, right)
        g3 == [g2 EXCEPT !.sym[r].next = NULL, !.sym[r].prev = NULL]
    IN  IF refcnt(g, r) # 1 THEN Abort(g)
        ELSE unref_rule(delete_rule(recycle_symbol(g3, this), r), r)

\* The body of the rule of this takes its place; called for a rule whose count is 1.
expand_instance(g, this) ==
    LET r == rule(g, this)
        left == prev(g, this)
        right == next(g, this)
        first == next(g, r)
        last == prev(g, r)
        g1 == join_symbols(digram_delete(g, this), left, first)
        g2 == join_symbols(g1, last, right)
        g3 == [g2 EXCEPT !.sym[r].next = NULL, !.sym[r].prev = NULL]
    IN  IF refcnt(g, r) # 1 THEN Abort(g)
        ELSE delete_rule(unref_rule(recycle_symbol(g3, this), r), r)

\* A new symbol with value v, for rule r if it is a nonterminal, inserted after s.
InsertNew(g, s, v, r) ==
    LET Insert(x) == insert_after(x, s, Fresh(g)) IN Then(new_symbol(g, v, r), Insert)

\* A symbol like s at the end of the rule r.
CopyToEnd(g, r, s) == InsertNew(g, prev(g, r), value(g, s), rule(g, s))

RECURSIVE replace_digram(_, _, _), process_match(_, _, _), check_digram(_, _)

replace_digram(g, this, r) ==
    LET before == prev(g, this)
        Delete(x) == delete_symbol(x, next(x, before))
        Insert(x) == InsertNew(x, before, value(x, r), r)
        CheckNext(x) == check_digram(x, next(x, before)).g
        CheckUnless(c) == IF c.replaced THEN c.g ELSE Then(c.g, CheckNext)
        Check(x) == CheckUnless(check_digram(x, before))
    IN  Then(Then(Then(Delete(g), Delete), Insert), Check)

\* The rule whose whole body is the digram at match, if there is one.
IsWholeBody(g, match) ==
    /\ IS_RULE_HEAD(g, prev(g, match))
    /\ IS_RULE_HEAD(g, next(g, next(g, match)))

\* A new rule for the digram, of which this and match are the two uses.
MakeRule(g, this, match) ==
    LET r == Fresh(g)
        Copy1(x) == CopyToEnd(add_rule(x, r), r, this)
        Copy2(x) == CopyToEnd(x, r, next(x, this))
        Replace1(x) == replace_digram(x, match, r)
        Replace2(x) == replace_digram(x, this, r)
        Put(x) == digram_put(x, next(x, r))
        made == new_rule([g EXCEPT !.next_nt = @ + 1], g.next_nt)
    IN  Then(Then(Then(Then(Then(made, Copy1), Copy2), Replace1), Replace2), Put)

\* The rule that the first symbol of r stands for is expanded when it is used once.
Underused(g, r) ==
    LET tocheck == rule(g, next(g, r))
    IN  IF tocheck = NULL \/ refcnt(g, tocheck) >= 2 THEN g
        ELSE IF refcnt(g, tocheck) = 0 THEN Abort(g)
        ELSE expand_instance(g, next(g, r))

process_match(g, this, match) ==
    LET whole == IsWholeBody(g, match)
        r == IF whole THEN rule(g, prev(g, match)) ELSE Fresh(g)
        Enforce(x) == Underused(x, r)
    IN  Then(IF whole THEN replace_digram(g, this, r) ELSE MakeRule(g, this, match), Enforce)

check_digram(g, this) ==
    LET match == digram_get(g, value(g, this), value(g, next(g, this)))
    IN  IF IS_RULE_HEAD(g, this) \/ IS_RULE_HEAD(g, next(g, this))
        THEN [g |-> g, replaced |-> FALSE]
        ELSE IF match = NULL THEN [g |-> digram_put(g, this), replaced |-> FALSE]
        ELSE IF next(g, match) = this THEN [g |-> g, replaced |-> FALSE]
        ELSE [g |-> process_match(g, this, match), replaced |-> TRUE]
=============================================================================
