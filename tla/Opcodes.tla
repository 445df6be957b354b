-------------------------------- MODULE Opcodes --------------------------------
(***************************************************************************)
(* The opcode table (include/ids/opcode_list.h) with the two lookup tables *)
(* that tables/decode_tables.c generates from it, as functions of the      *)
(* opcode byte.  Of a row only what the decoder reads is kept: whether a   *)
(* ModRM byte follows, and how many bytes of immediate.  Opcodes are       *)
(* written in decimal, with the source's hexadecimal beside them.          *)
(***************************************************************************)
EXTENDS Integers

OpcodeByte == 0..255

(* Rows 0x00..0x7F: eight arithmetic and logic operations in steps of 8,   *)
(* each with four ModRM forms and two accumulator forms; then one-byte     *)
(* instructions on registers, a few singular rows, and the sixteen short   *)
(* jumps.                                                                  *)
LowModrm(b) ==
  \/ b < 64 /\ b % 8 < 4                    \* 00-03, 08-0B, .. 38-3B
  \/ b \in {98, 99, 105, 107}               \* 62, 63, 69, 6B

LowImmediate(b) ==
  IF (b < 64 /\ b % 8 = 4) \/ b \in {106, 107} \/ b \in 112..127
  THEN 1                                    \* 04, .. 3C, 6A, 6B, 70-7F
  ELSE IF (b < 64 /\ b % 8 = 5) \/ b \in {104, 105}
  THEN 4                                    \* 05, .. 3D, 68, 69
  ELSE 0

(* Rows 0x80..0xFF. *)
HighModrm(b) ==
  \/ b \in 128..143                         \* 80-8F
  \/ b \in {192, 193} \/ b \in 196..199     \* C0, C1, C4-C7
  \/ b \in 208..211 \/ b \in 216..223       \* D0-D3, D8-DF
  \/ b \in {246, 247, 254, 255}             \* F6, F7, FE, FF

(* 80, 83, A8, B0-B7, C0, C1, C6, CD, E0-E7, EB *)
HighByte ==
  {128, 131, 168} \cup (176..183) \cup {192, 193, 198, 205} \cup (224..231)
    \cup {235}

(* 81, A9, A0-A3, B8-BF, C7, C8, E8, E9 *)
HighDword ==
  {129, 169} \cup (160..163) \cup (184..191) \cup {199, 200, 232, 233}

HighImmediate(b) ==
  IF b \in HighByte THEN 1
  ELSE IF b \in HighDword THEN 4
  ELSE IF b \in {194, 202} THEN 2           \* C2, CA
  ELSE IF b \in {154, 234} THEN 6           \* 9A, EA
  ELSE 0

(* Bytes that have no row, 82 and D4-D7.  single_byte_opcode_lut is 0 for  *)
(* them, and 0 is the number of the first row, ADD rm8, r8.                *)
Missing == {130} \cup (212..215)

(* The opcode byte of the row that the lookup finds. *)
single_byte_opcode_lut(b) == IF b \in Missing THEN 0 ELSE b

(* Mistake for the mutation runs: the far pointers are given a ModRM byte. *)
HasModrm_FarPointers(op) ==
  IF op < 128 THEN LowModrm(op) ELSE HighModrm(op) \/ op \in {154, 234}

HasModrm(op) == IF op < 128 THEN LowModrm(op) ELSE HighModrm(op)

(* Mistake: the near jump E9 is given the immediate of the far one. *)
ImmediateBytes_NearIsFar(op) ==
  IF op < 128 THEN LowImmediate(op)
  ELSE IF op = 233 THEN 6 ELSE HighImmediate(op)

ImmediateBytes(op) == IF op < 128 THEN LowImmediate(op) ELSE HighImmediate(op)

(* The opcodes whose entry in execution_handler_lut is a handler that does *)
(* something.  All others answer UNIMPLEMENTED_INSTRUCTION, which ends the *)
(* emulation.                                                              *)
Implemented ==
  {b \in 0..63 : b % 8 < 4}            \* 00-03, 08-0B, .. 38-3B
  \cup (64..71) \cup (80..97)          \* 40-47, 50-61
  \cup {104, 106} \cup (112..127)      \* 68, 6A, 70-7F
  \cup {132, 133} \cup (136..139)      \* 84, 85, 88-8B
  \cup (176..191) \cup {195}           \* B0-BF, C3
  \cup {232, 233, 235, 244, 248, 249, 255}   \* E8, E9, EB, F4, F8, F9, FF

===============================================================================
