------------------------------ MODULE MCComdec ------------------------------
(***************************************************************************)
(* The inputs of the compressor for TLC: every short text of two letters,  *)
(* and texts chosen for what they make the algorithm do.                   *)
(***************************************************************************)
EXTENDS ComdecProperties

CONSTANT MaxBytes

a == 97
b2 == 98
c3 == 99
Letters == {a, b2}
AllInputs == UNION {{t \in [1 .. n -> Letters] : n = 0 \/ t[1] = a} : n \in 0 .. MaxBytes}

\* In blocks of 6: counts left by the first block make the compressor abort in the
\* second, or expand a rule in the third.
Aborts == <<a, a, a, b2, a, a, a, a, b2, a, a, b2>>
Expands == <<a, a, a, b2, a, a, a, a, b2, a, a, a, a, a, b2, a, a, b2>>
\* In one block: a digram that the table has lost, rules in rules, three letters.
Twice == <<a, a, b2, b2, b2, a, a, b2, a, b2, b2>>
Nested == [i \in 1 .. 16 |-> IF i % 4 = 0 THEN b2 ELSE a]
Three == [i \in 1 .. 12 |-> a + (i % 3)]
\* Bytes of two in UTF-8, and bytes that are marks.
High == <<128, 255, 128, 255, 192>>
MarkBytes == {<<a, RD, b2, c3>>, <<EOB, EOT>>, <<a, EOB, b2>>, <<a, SOB>>, <<a, RD, RD, a>>}

MCInputs == AllInputs \cup MarkBytes \cup {Aborts, Expands, Twice, Nested, Three, High}
=============================================================================
