----------------------------- MODULE Utf_proofs -----------------------------
(***************************************************************************)
(* get_utf reads back what write_utf has written, wherever it stands in a  *)
(* file.                                                                   *)
(***************************************************************************)
EXTENDS Utf, TLAPS

\* The values a symbol may have have 21 bits.
Limit == 2097152

\* The value of the digits that follow the leading byte.
TwoByteValue(d1, d0) == d1 * 64 + d0
ThreeByteValue(d2, d1, d0) == d2 * 4096 + d1 * 64 + d0
FourByteValue(d3, d2, d1, d0) == d3 * 262144 + d2 * 4096 + d1 * 64 + d0

\* The bytes at the places i, i + 1, ... of the file in.
Holds(in, i, bytes) ==
    \A k \in 1 .. Len(bytes) : i + k - 1 \in 1 .. Len(in) /\ in[i + k - 1] = bytes[k]

\* The digits in base 64 that write_utf spreads over its bytes make up the value.
LEMMA FourBytes ==
    ASSUME NEW c \in Nat, c < Limit
    PROVE  c = FourByteValue((c \div 262144) % 8, (c \div 4096) % 64, (c \div 64) % 64, c % 64)
  BY SMTT(30) DEF Limit, FourByteValue

LEMMA ThreeBytes ==
    ASSUME NEW c \in Nat, c < Limit, (c \div 65536) % 32 = 0
    PROVE  c = ThreeByteValue((c \div 4096) % 16, (c \div 64) % 64, c % 64)
  BY SMTT(30) DEF Limit, ThreeByteValue

LEMMA TwoBytes ==
    ASSUME NEW c \in Nat, c < Limit, (c \div 65536) % 32 = 0, (c \div 2048) % 32 = 0
    PROVE  c = TwoByteValue((c \div 64) % 32, c % 64)
  BY SMTT(30) DEF Limit, TwoByteValue

LEMMA OneByte ==
    ASSUME NEW c \in Nat, c < Limit, (c \div 65536) % 32 = 0, (c \div 2048) % 32 = 0,
           (c \div 128) % 16 = 0
    PROVE  c < 128
  BY SMTT(30) DEF Limit

\* A continuation byte holds its digit.
LEMMA LastByte ==
    ASSUME NEW c \in Nat
    PROVE  Continuation(c, 1) % 64 = c % 64
  <1>1. c \div 1 = c
    BY SMTT(30)
  <1> QED
    BY <1>1, SMTT(30) DEF Continuation

LEMMA ContinuationByte ==
    ASSUME NEW c \in Nat
    PROVE  /\ Continuation(c, 4096) % 64 = (c \div 4096) % 64
           /\ Continuation(c, 64) % 64 = (c \div 64) % 64
           /\ Continuation(c, 1) % 64 = c % 64
  <1>1. c \div 4096 \in Nat /\ c \div 64 \in Nat
    BY SMTT(30)
  <1> QED
    BY <1>1, LastByte, SMTT(30) DEF Continuation

\* What write_utf has written for a symbol, get_utf reads back as the same symbol,
\* and it reads neither less nor more: the symbols of a rule stay apart.
THEOREM GetReadsWhatWriteWrote ==
    ASSUME NEW c \in Nat, c < Limit, NEW in \in Seq(0 .. 255), NEW i \in Nat \ {0},
           Holds(in, i, write_utf(c))
    PROVE  get_utf(in, i) = [c |-> c, n |-> Len(write_utf(c))]
  <1>1. CASE c \in Marks
    <2>1. write_utf(c) = <<c>>
      BY <1>1, SMTT(30) DEF write_utf
    <2>2. i \in 1 .. Len(in) /\ in[i] = c
      BY <2>1, SMTT(30) DEF Holds
    <2>3. Byte(in, i) = c
      BY <2>2, SMTT(30) DEF Byte
    <2> QED
      BY <1>1, <2>1, <2>3, SMTT(30) DEF get_utf
  <1>2. CASE c \notin Marks /\ (c \div 65536) % 32 # 0
    <2> DEFINE lead == 240 + ((c \div 262144) % 8)
    <2>1. write_utf(c) = <<lead, Continuation(c, 4096), Continuation(c, 64), Continuation(c, 1)>>
      BY <1>2, SMTT(30) DEF write_utf
    <2>2. lead \div 8 = 30 /\ lead % 8 = (c \div 262144) % 8 /\ lead \in 240 .. 247
      BY SMTT(30)
    <2> HIDE DEF lead
    <2>3. /\ Byte(in, i) = lead
          /\ Low6(in, i + 1) = Continuation(c, 4096) % 64
          /\ Low6(in, i + 2) = Continuation(c, 64) % 64
          /\ Low6(in, i + 3) = Continuation(c, 1) % 64
      BY <2>1, SMTT(30) DEF Holds, Byte, Low6
    <2>4. /\ Low6(in, i + 1) = (c \div 4096) % 64
          /\ Low6(in, i + 2) = (c \div 64) % 64
          /\ Low6(in, i + 3) = c % 64
      BY <2>3, ContinuationByte, SMTT(30)
    <2>5. get_utf(in, i) = [c |-> FourByteValue(lead % 8, Low6(in, i + 1), Low6(in, i + 2),
                                                  Low6(in, i + 3)),
                             n |-> 4]
      BY <2>2, <2>3, SMTT(30) DEF get_utf, Marks, SOT, EOT, SOB, EOB, RD, EOF, FourByteValue
    <2>6. c = FourByteValue(lead % 8, Low6(in, i + 1), Low6(in, i + 2), Low6(in, i + 3))
      BY <2>2, <2>4, FourBytes
    <2>7. Len(write_utf(c)) = 4
      BY <2>1, SMTT(30)
    <2> QED
      BY <2>5, <2>6, <2>7
  <1>3. CASE c \notin Marks /\ (c \div 65536) % 32 = 0 /\ (c \div 2048) % 32 # 0
    <2> DEFINE lead == 224 + ((c \div 4096) % 16)
    <2>1. write_utf(c) = <<lead, Continuation(c, 64), Continuation(c, 1)>>
      BY <1>3, SMTT(30) DEF write_utf
    <2>2. lead \div 16 = 14 /\ lead % 16 = (c \div 4096) % 16 /\ lead \in 224 .. 239
      BY SMTT(30)
    <2> HIDE DEF lead
    <2>3. /\ Byte(in, i) = lead
          /\ Low6(in, i + 1) = Continuation(c, 64) % 64
          /\ Low6(in, i + 2) = Continuation(c, 1) % 64
      BY <2>1, SMTT(30) DEF Holds, Byte, Low6
    <2>4. Low6(in, i + 1) = (c \div 64) % 64 /\ Low6(in, i + 2) = c % 64
      BY <2>3, ContinuationByte, SMTT(30)
    <2>5. get_utf(in, i) = [c |-> ThreeByteValue(lead % 16, Low6(in, i + 1), Low6(in, i + 2)),
                             n |-> 3]
      BY <2>2, <2>3, SMTT(30) DEF get_utf, Marks, SOT, EOT, SOB, EOB, RD, EOF, ThreeByteValue
    <2>6. c = ThreeByteValue(lead % 16, Low6(in, i + 1), Low6(in, i + 2))
      BY <1>3, <2>2, <2>4, ThreeBytes
    <2>7. Len(write_utf(c)) = 3
      BY <2>1, SMTT(30)
    <2> QED
      BY <2>5, <2>6, <2>7
  <1>4. CASE /\ c \notin Marks /\ (c \div 65536) % 32 = 0 /\ (c \div 2048) % 32 = 0
             /\ (c \div 128) % 16 # 0
    <2> DEFINE lead == 192 + ((c \div 64) % 32)
    <2>1. write_utf(c) = <<lead, Continuation(c, 1)>>
      BY <1>4, SMTT(30) DEF write_utf
    <2>2. lead \div 32 = 6 /\ lead % 32 = (c \div 64) % 32 /\ lead \in 192 .. 223
      BY SMTT(30)
    <2> HIDE DEF lead
    <2>3. Byte(in, i) = lead /\ Low6(in, i + 1) = Continuation(c, 1) % 64
      BY <2>1, SMTT(30) DEF Holds, Byte, Low6
    <2>4. Low6(in, i + 1) = c % 64
      BY <2>3, LastByte
    <2>5. get_utf(in, i) = [c |-> TwoByteValue(lead % 32, Low6(in, i + 1)), n |-> 2]
      BY <2>2, <2>3, SMTT(30) DEF get_utf, Marks, SOT, EOT, SOB, EOB, RD, EOF, TwoByteValue
    <2>6. c = TwoByteValue(lead % 32, Low6(in, i + 1))
      BY <1>4, <2>2, <2>4, TwoBytes
    <2>7. Len(write_utf(c)) = 2
      BY <2>1, SMTT(30)
    <2> QED
      BY <2>5, <2>6, <2>7
  <1>5. CASE /\ c \notin Marks /\ (c \div 65536) % 32 = 0 /\ (c \div 2048) % 32 = 0
             /\ (c \div 128) % 16 = 0
    <2>1. c < 128
      BY <1>5, OneByte, SMTT(30)
    <2>2. write_utf(c) = <<c>>
      BY <1>5, <2>1, SMTT(30) DEF write_utf
    <2>3. Byte(in, i) = c
      BY <2>2, SMTT(30) DEF Holds, Byte
    <2>4. c \div 32 # 6 /\ c \div 16 # 14 /\ c \div 8 # 30
      BY <2>1, SMTT(30)
    <2>5. get_utf(in, i) = [c |-> c, n |-> 1]
      BY <1>5, <2>3, <2>4, SMTT(30) DEF get_utf, EOF
    <2>6. Len(write_utf(c)) = 1
      BY <2>2, SMTT(30)
    <2> QED
      BY <2>5, <2>6
  <1> QED
    BY <1>1, <1>2, <1>3, <1>4, <1>5, SMTT(30)
=============================================================================
