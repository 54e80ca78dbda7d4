------------------------------- MODULE Comdec -------------------------------
(***************************************************************************)
(* The two programs of HW1 (src/comdec.c): compress() turns the bytes of   *)
(* its input, block by block, into rules and writes them as a transmission;*)
(* the file, whole or cut short, goes to decompress(), another run of the  *)
(* program, which reads the rules back and expands them.                   *)
(***************************************************************************)
EXTENDS Sequitur, Utf, SequencesExt

CONSTANTS Inputs,       \* the inputs of the compressor, sequences of bytes
          BlockSizes,   \* the block sizes it is run with
          MaxCut        \* the length of inputs whose transmission may be cut short

ASSUME ComdecAssumption ==
    /\ Inputs \subseteq Seq(0 .. 255)
    /\ BlockSizes \subseteq Nat \ {0}
    /\ MaxCut \in Nat

VARIABLES
    phase,      \* where the two programs are
    input,      \* what compress() reads, and
    pos,        \* how many bytes it has put into the block
    bsize,      \* its block size
    g,          \* the symbols, rules and digrams of the running program
    out,        \* the bytes compress() has written
    count,      \* its count of them
    file,       \* what decompress() reads
    b,          \* the byte or symbol that the running program has read last, and
    at,         \* the place of the next one in what it reads
    nr,         \* the head of the rule decompress() is reading
    rb,         \* the place of the variable rb, which is never initialized, and
    rbKnown,    \* whether what happened to be there was not NULL
    rule_map,   \* nonterminal -> head of its rule
    output,     \* the bytes decompress() has written
    result      \* what decompress() has returned

reader == <<file, nr, rb, rbKnown, rule_map, output, result>>
writer == <<input, pos, bsize, out, count>>
vars == <<phase, g, b, at, reader, writer>>

-----------------------------------------------------------------------------
(* compress *)

StartBlock ==
    /\ phase = "between" /\ b # EOF
    /\ LET g1 == init_digram_hash(init_rules(init_symbols(g)))
           g2 == [g1 EXCEPT !.next_nt = @ + 1]
       IN  g' = add_rule(new_rule(g2, g1.next_nt), Fresh(g2))
    /\ phase' = "block" /\ pos' = 0
    /\ UNCHANGED <<b, at, reader, input, bsize, out, count>>

\* The byte joins the main rule, and the digram it ends is checked.
Append1(gr, byte) ==
    LET Check(x) == check_digram(x, prev(x, prev(x, x.main_rule))).g
    IN  Then(InsertNew(gr, prev(gr, gr.main_rule), byte, NULL), Check)

MoreInBlock == pos < bsize /\ b # EOF

ReadByte ==
    /\ phase = "block" /\ MoreInBlock
    /\ g' = Append1(g, b)
    /\ phase' = IF g'.ok THEN "block" ELSE "aborted"
    /\ pos' = pos + 1
    /\ b' = Byte(input, at)
    /\ at' = at + 1
    /\ UNCHANGED <<reader, input, bsize, out, count>>

\* The symbols met from s until the pointers lead to one that was met before.
Follow(gr, s, Link(_, _)) ==
    LET go[t \in 1 .. MAX_SYMBOLS, n \in 0 .. MAX_SYMBOLS] ==
            IF n = 0 THEN <<>>
            ELSE IF Link(gr, t) \in {s, NULL} THEN <<t>>
            ELSE <<t>> \o go[Link(gr, t), n - 1]
    IN  go[s, MAX_SYMBOLS]

nextr(gr, s) == gr.sym[s].nextr
RuleHeads(gr) == Follow(gr, gr.main_rule, nextr)
Symbols(gr, h) == Follow(gr, h, next)       \* a head and its body

Encoded(gr, symbols) ==
    FlattenSeq([i \in DOMAIN symbols |-> write_utf(value(gr, symbols[i]))])

\* The rules of the block, each with its head first, and RD between them.
Rules(gr) ==
    LET heads == RuleHeads(gr)
    IN  FlattenSeq([i \in DOMAIN heads |->
            Encoded(gr, Symbols(gr, heads[i])) \o (IF i < Len(heads) THEN <<RD>> ELSE <<>>)])

WriteBlock ==
    /\ phase = "block" /\ ~MoreInBlock
    /\ LET rules == Rules(g)
       IN  /\ out' = out \o <<SOB>> \o rules \o <<EOB>>
           /\ count' = count + 1 + Len(rules) + 1
    /\ phase' = "between"
    /\ UNCHANGED <<g, b, at, reader, input, pos, bsize>>

EndTransmission ==
    /\ phase = "between" /\ b = EOF
    /\ out' = Append(out, EOT)
    /\ phase' = "written"
    /\ UNCHANGED <<g, b, at, reader, input, pos, bsize, count>>

-----------------------------------------------------------------------------
(* decompress *)

\* get_utf(in), the variable b taking what it returns.
Get(in, from) == LET u == get_utf(in, from) IN b' = u.c /\ at' = from + u.n

\* The second program starts on the first n bytes of the transmission; in the place of rb
\* there is what was left there, which is NULL or not.
Decompress(n, left) ==
    /\ phase = "written"
    /\ file' = SubSeq(out, 1, n)
    /\ g' = Zeroed
    /\ rb' = left /\ rbKnown' = (left # NULL)
    /\ Get(file', 1)
    /\ phase' = "opened"
    /\ UNCHANGED <<writer, nr, rule_map, output, result>>

Return(r) == phase' = "done" /\ result' = r
Continue(p) == phase' = p /\ UNCHANGED result

ReadSOT ==
    /\ phase = "opened"
    /\ IF b = SOT THEN Continue("marks") /\ Get(file, at)
       ELSE Return(EOF) /\ UNCHANGED <<b, at>>
    /\ UNCHANGED <<g, writer, file, nr, rb, rule_map, output, rbKnown>>

OpenBlock ==
    /\ phase = "marks" /\ b = SOB
    /\ g' = init_rules(init_symbols(g))
    /\ rule_map' = [v \in {} |-> NULL]
    /\ LET first == get_utf(file, at)
       IN  IF first.c = EOB THEN Continue("marks") /\ Get(file, at + first.n)
           ELSE Continue("head") /\ Get(file, at)
    /\ UNCHANGED <<writer, file, nr, rb, output, rbKnown>>

SkipToBlock ==
    /\ phase = "marks" /\ b \notin {SOB, EOT, EOF}
    /\ Get(file, at)
    /\ UNCHANGED <<phase, g, writer, file, nr, rb, rule_map, output, result, rbKnown>>

\* MUTANT: the end of the file ends the transmission like its mark.
TruncationMutant ==
    /\ phase = "marks" /\ b \in {EOT, EOF}
    /\ Return(Len(output))
    /\ UNCHANGED <<g, b, writer, file, at, nr, rb, rule_map, output, rbKnown>>

EndOfFile ==
    /\ phase = "marks" /\ b \in {EOT, EOF}
    /\ Return(IF b = EOT THEN Len(output) ELSE EOF)
    /\ UNCHANGED <<g, b, writer, file, at, nr, rb, rule_map, output, rbKnown>>

\* new_rule() of a value that is no nonterminal returns NULL.
ReadHead ==
    /\ phase = "head" /\ b # EOB
    /\ IF b \in {RD, SOB, SOT, EOT, EOF}
       THEN Return(EOF) /\ UNCHANGED <<g, b, at, nr>>
       ELSE /\ nr' = IF b >= FIRST_NONTERMINAL THEN Fresh(g) ELSE NULL
            /\ g' = IF b >= FIRST_NONTERMINAL THEN new_rule(g, b) ELSE g
            /\ Get(file, at)
            /\ IF b' \in Marks \cup {EOF} THEN Return(EOF) ELSE Continue("body")
    /\ UNCHANGED <<writer, file, rb, rule_map, output, rbKnown>>

\* A symbol of the body.  Each time round the loop rb is a new variable that is read before
\* anything is stored in it; in this build, which does not optimize, it has the place of the
\* last one and holds the symbol read before, which a nonterminal gets for its rule.
\* Without a head the program crashes.
ReadSymbol ==
    /\ phase = "body" /\ b \notin Marks \cup {EOF}
    /\ LET s == Fresh(g)
           g1 == new_symbol(g, b, rb)
           last == prev(g1, nr)
       IN  IF nr = NULL THEN phase' = "crashed" /\ UNCHANGED <<g, b, at, rb>>
           ELSE /\ g' = [g1 EXCEPT !.sym[s].next = nr, !.sym[s].prev = last,
                                   !.sym[last].next = s, !.sym[nr].prev = s]
                /\ rb' = s
                /\ Get(file, at)
                /\ UNCHANGED phase
    /\ UNCHANGED <<writer, file, nr, rule_map, output, result, rbKnown>>

BadBody ==
    /\ phase = "body" /\ b \in {EOF, EOT, SOT, SOB}
    /\ Return(EOF)
    /\ UNCHANGED <<g, b, writer, file, at, nr, rb, rule_map, output, rbKnown>>

EndRule ==
    /\ phase = "body" /\ b \in {RD, EOB}
    /\ g' = add_rule(g, nr)
    /\ rule_map' = [v \in DOMAIN rule_map \cup {value(g, nr)} |->
                       IF v = value(g, nr) THEN nr ELSE rule_map[v]]
    /\ Continue("head")
    /\ IF b = EOB THEN UNCHANGED <<b, at>> ELSE Get(file, at)
    /\ UNCHANGED <<writer, file, nr, rb, output, rbKnown>>

\* expand(): a symbol without a rule is written as a byte.
RECURSIVE Expansion(_, _, _)
Expansion(gr, map, r) ==
    LET body == Tail(Symbols(gr, r))
        Part(s) == IF rule(gr, s) = NULL THEN <<value(gr, s) % 256>>
                   ELSE Expansion(gr, map, map[value(gr, s)])
    IN  FlattenSeq([i \in DOMAIN body |-> Part(body[i])])

ExpandBlock ==
    /\ phase = "head" /\ b = EOB
    /\ output' = output \o Expansion(g, rule_map, g.main_rule)
    /\ Continue("marks") /\ Get(file, at)
    /\ UNCHANGED <<g, writer, file, nr, rb, rule_map, rbKnown>>

-----------------------------------------------------------------------------

Init ==
    /\ phase = "between"
    /\ input \in Inputs /\ bsize \in BlockSizes
    /\ pos = 0
    /\ g = Zeroed
    /\ out = <<SOT>> /\ count = 2
    /\ b = Byte(input, 1) /\ at = 2
    /\ file = <<>> /\ nr = NULL /\ rb = NULL /\ rbKnown = FALSE
    /\ rule_map = [v \in {} |-> NULL]
    /\ output = <<>> /\ result = 0

Cuts == IF Len(input) <= MaxCut THEN 0 .. Len(out) ELSE {Len(out)}

Next ==
    \/ StartBlock \/ ReadByte \/ WriteBlock \/ EndTransmission
    \/ \E n \in Cuts, left \in {NULL, 1} : Decompress(n, left)
    \/ ReadSOT \/ OpenBlock \/ SkipToBlock \/ EndOfFile
    \/ ReadHead \/ ReadSymbol \/ BadBody \/ EndRule \/ ExpandBlock

Spec == Init /\ [][Next]_vars
=============================================================================
