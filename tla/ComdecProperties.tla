-------------------------- MODULE ComdecProperties --------------------------
(***************************************************************************)
(* What the compressor and the decompressor of HW1 must get right.         *)
(***************************************************************************)
EXTENDS Comdec

InBlock == phase = "block"
Heads == {RuleHeads(g)[i] : i \in DOMAIN RuleHeads(g)}
Body(h) == Tail(Symbols(g, h))
InRules == UNION {{Symbols(g, h)[i] : i \in DOMAIN Symbols(g, h)} : h \in Heads}
Recycled == IF g.recycled = NULL THEN <<>> ELSE Follow(g, g.recycled, next)

\* The digrams of the rules, each by its first symbol.
Digrams == {s \in InRules : s \notin Heads /\ next(g, s) \notin Heads}
Equal(s, t) == IsDigram(g, s, value(g, t), value(g, next(g, t)))
Overlap(s, t) == next(g, s) = t \/ next(g, t) = s

\* No rule of the block has been expanded: as many are left as were made.
NoneExpanded == Cardinality(Heads) = g.next_nt - FIRST_NONTERMINAL
Entries == Range(g.table) \ {NULL, TOMBSTONE}
Twins(s) == value(g, s) = value(g, next(g, s))

\* Sequitur's first constraint, after every byte: each digram of two different symbols
\* is in the digram table, and a search finds that very occurrence, so that it is the
\* only one; the table holds no two occurrences of a digram, and no symbol that has been
\* recycled.  A digram of two equal symbols may occur twice: join_symbols() puts the
\* digram of a triple back while the one it replaces is still in the table, digram_put()
\* then changes nothing, and the digram is forgotten.  And when a rule has been expanded,
\* the digram of its last symbol and the one behind it has not been put into the table.
DigramsUnique ==
    InBlock =>
        /\ \A s \in Digrams :
              ~Twins(s) /\ NoneExpanded => digram_get(g, value(g, s), value(g, next(g, s))) = s
        /\ Entries \subseteq InRules \ Heads
        /\ \A s, t \in Entries : s # t => ~Equal(s, t)

\* No symbol is lost and none is used twice: after every byte each symbol that was taken
\* from the storage is in one rule or on the stack of recycled symbols, the rules are
\* rings in both directions, and each nonterminal points to the head of its rule.
SymbolsAccounted ==
    InBlock =>
        /\ InRules \cap Range(Recycled) = {}
        /\ InRules \cup Range(Recycled) = 1 .. g.num_symbols
        /\ Len(Recycled) + FoldSet(LAMBDA h, n : n + Len(Symbols(g, h)), 0, Heads)
              = g.num_symbols
        /\ \A s \in InRules : prev(g, next(g, s)) = s
        /\ \A s \in InRules :
              IS_NONTERMINAL(g, s) =>
                  rule(g, s) \in Heads /\ value(g, rule(g, s)) = value(g, s)

Whole == file = out
HasMarks == Range(input) \cap Marks # {}
\* The first symbol of the first rule, at the fifth byte, needs no rule.
FirstIsTerminal == input = <<>> \/ get_utf(out, 5).c < FIRST_NONTERMINAL

\* What is decompressed is what was compressed, byte for byte, whatever the blocks, and
\* both programs return the number of bytes they have written; of a transmission that is
\* cut short, wherever that is, decompress() returns EOF.  Inputs with the bytes of the
\* marks are excepted, and transmissions that begin with a nonterminal when rb, which
\* is not initialized, happens to be NULL.
RoundTrip ==
    /\ phase \in {"written", "opened"} => count = Len(out)
    /\ phase = "done" /\ ~HasMarks =>
          /\ ~Whole => result = EOF
          /\ Whole /\ (FirstIsTerminal \/ rbKnown) => output = input /\ result = Len(input)
    /\ phase = "crashed" => HasMarks

\* Within its first block the compressor never aborts, whatever it reads: no count of a
\* rule in use comes down to 0 and no rule head is deleted.  (In later blocks the counts
\* that the blocks before have left make it abort.)
FirstBlockNeverAborts == phase = "aborted" => Len(out) > 1
=============================================================================
