-------------------------------- MODULE Utf --------------------------------
(***************************************************************************)
(* The byte encoding of HW1 (write_utf and get_utf of src/comdec.c).  A    *)
(* symbol is written as the UTF-8 of its value, except that the values of  *)
(* the marks are written as one byte, whether a mark or a symbol is meant. *)
(***************************************************************************)
EXTENDS Integers, Sequences

SOT == 129      \* 0x81, start of transmission
EOT == 130      \* end of transmission
SOB == 131      \* start of block
EOB == 132      \* end of block
RD == 133       \* rule delimiter
Marks == {SOT, EOT, SOB, EOB, RD}

EOF == -1

\* Six bits of c, the lowest of them of weight unit, as a continuation byte.
Continuation(c, unit) == 128 + ((c \div unit) % 64)

\* The bytes fputc() writes for c.
write_utf(c) ==
    IF c \in Marks THEN <<c>>
    ELSE IF (c \div 65536) % 32 # 0
         THEN <<240 + ((c \div 262144) % 8), Continuation(c, 4096), Continuation(c, 64),
                Continuation(c, 1)>>
    ELSE IF (c \div 2048) % 32 # 0
         THEN <<224 + ((c \div 4096) % 16), Continuation(c, 64), Continuation(c, 1)>>
    ELSE IF (c \div 128) % 16 # 0
         THEN <<192 + ((c \div 64) % 32), Continuation(c, 1)>>
    ELSE <<c % 256>>

\* fgetc(): past the end it returns EOF, all of whose bits are set.
Byte(in, i) == IF i <= Len(in) THEN in[i] ELSE EOF
Low6(in, i) == IF i <= Len(in) THEN in[i] % 64 ELSE 63

\* What get_utf() returns when the next byte is the i-th, and how many bytes
\* it has asked for.
get_utf(in, i) ==
    LET b == Byte(in, i)
    IN  IF b = EOF \/ b \in Marks THEN [c |-> b, n |-> 1]
        ELSE IF b \div 32 = 6 THEN [c |-> (b % 32) * 64 + Low6(in, i + 1), n |-> 2]
        ELSE IF b \div 16 = 14
             THEN [c |-> (b % 16) * 4096 + Low6(in, i + 1) * 64 + Low6(in, i + 2), n |-> 3]
        ELSE IF b \div 8 = 30
             THEN [c |-> (b % 8) * 262144 + Low6(in, i + 1) * 4096
                            + Low6(in, i + 2) * 64 + Low6(in, i + 3),
                   n |-> 4]
        ELSE [c |-> b, n |-> 1]
=============================================================================
