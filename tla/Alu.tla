---------------------------------- MODULE Alu ----------------------------------
(***************************************************************************)
(* The arithmetic unit (core/alu.c) and what its flags do to the status    *)
(* register (update_status_register in core/internal/executor.c with the   *)
(* flag policies of core/structs/flag_policy.c).                           *)
(*                                                                         *)
(* Words are numbers below DWORD and bytes numbers below BYTE; the numbers *)
(* of bits are parameters, so that small words can be checked exhaustively.*)
(* A set of flags stands for a flag word.  The instructions in use are the *)
(* eleven classes of Opclass: no handler asks for NEG, a shift or a        *)
(* rotate.                                                                 *)
(***************************************************************************)
EXTENDS Integers, FiniteSets

CONSTANTS
  NibbleBits,   \* 4 in the code
  ByteBits      \* 8 in the code; a dword has four bytes

ASSUME BitsAssumption ==
  NibbleBits \in Nat \ {0} /\ ByteBits \in Nat \ {0} /\ NibbleBits <= ByteBits

DwordBits == 4 * ByteBits
NIBBLE == 2 ^ NibbleBits
BYTE   == 2 ^ ByteBits
WORD   == BYTE * BYTE
DWORD  == WORD * WORD

Width  == {ByteBits, DwordBits}
Dword  == 0..DWORD-1
Flag   == {"SF", "ZF", "CF", "AF", "PF", "OF"}

Carries == {"ADD", "ADC", "INC"}          \* GENERATE_CARRY_MASK
Borrows == {"SUB", "SBB", "CMP", "DEC"}   \* GENERATE_BORROW_MASK
Logic   == {"AND", "XOR", "OR", "TEST"}   \* FP_LOGIC_GRP_MASK
Opclass == Carries \cup Borrows \cup Logic

Bit(x, k) == (x \div 2^k) % 2
Ones(x)   == {k \in 0..DwordBits-1 : Bit(x, k) = 1}
OfOnes(B) == CHOOSE x \in Dword : Ones(x) = B

op_mask(op, width) == IF width = DwordBits THEN op ELSE op % BYTE

-----------------------------------------------------------------------------
(* The expressions expr_ADD .. expr_OR.  Total is the result before it is  *)
(* cut to a dword, low the result: a byte operation too leaves a whole     *)
(* dword in out->low, which only the destination truncates.                *)

Total(opclass, op1, op2, cin) ==
  CASE opclass = "ADD" -> op1 + op2
    [] opclass = "ADC" -> op1 + op2 + cin
    [] opclass = "INC" -> op1 + 1
    [] opclass \in {"SUB", "CMP"} -> op1 - op2
    [] opclass = "SBB" -> op1 - op2 - cin
    [] opclass = "DEC" -> op1 - 1
    [] opclass \in {"AND", "TEST"} -> OfOnes(Ones(op1) \cap Ones(op2))
    [] opclass = "OR"  -> OfOnes(Ones(op1) \cup Ones(op2))
    [] opclass = "XOR" -> OfOnes((Ones(op1) \ Ones(op2)) \cup (Ones(op2) \ Ones(op1)))

Low(opclass, op1, op2, cin) == Total(opclass, op1, op2, cin) % DWORD

-----------------------------------------------------------------------------
(* The flag functions. *)

is_carry(total, width) == total >= IF width = DwordBits THEN DWORD ELSE BYTE

(* Mistake for the mutation runs: equal operands count as a borrow. *)
is_borrow_OrEqual(op1, op2, cin) == op1 <= (op2 + cin) % DWORD

(* op2 + cin is a uint32_t and wraps. *)
is_borrow(op1, op2, cin) == op1 < (op2 + cin) % DWORD

is_nibble_overflow(opclass, op1, op2, cin) ==
  \/ opclass \in Carries /\ (op1 % NIBBLE) + (op2 % NIBBLE) + cin >= NIBBLE
  \/ opclass \in Borrows /\ op1 % NIBBLE < op2 % NIBBLE

Sign(x, width) == Bit(x, width - 1)

(* Always the rule of addition, and always on bit 31. *)
is_overflow(op1, op2, result) ==
  /\ Sign(op1, DwordBits) # Sign(result, DwordBits)
  /\ Sign(op2, DwordBits) # Sign(result, DwordBits)

(* PF: an even number of ones in the low byte, but not for a zero byte. *)
HasParity(x) ==
  /\ x % BYTE # 0
  /\ Cardinality({k \in 0..ByteBits-1 : Bit(x, k) = 1}) % 2 = 0

(* update_potential_flags, with CF already chosen between carry and borrow *)
(* the way update_status_register chooses it.                              *)
PotentialFlags(opclass, op1, op2, cin, width) ==
  LET total == Total(opclass, op1, op2, cin)
      low   == Low(opclass, op1, op2, cin)
  IN {f \in Flag :
        \/ f = "CF" /\ opclass \in Carries /\ is_carry(total, width)
        \/ f = "CF" /\ opclass \in Borrows /\ is_borrow(op1, op2, cin)
        \/ f = "ZF" /\ low = 0
        \/ f = "SF" /\ Sign(low, width) = 1
        \/ f = "OF" /\ is_overflow(op1, op2, low)
        \/ f = "PF" /\ HasParity(low)
        \/ f = "AF" /\ is_nibble_overflow(opclass, op1, op2, cin)}

(* ALU: mask the operands to the operation's width, compute, and collect   *)
(* the flags.                                                              *)
ALU(op1, op2, cin, width, opclass) ==
  LET a == op_mask(op1, width)
      b == op_mask(op2, width)
  IN [low   |-> Low(opclass, a, b, cin),
      flags |-> PotentialFlags(opclass, a, b, cin, width)]

-----------------------------------------------------------------------------
(* The write sets of the flag policies; their clear sets are never used.   *)

(* Mistake: INC and DEC write all six flags. *)
PolicyWrite_IncWritesCarry(opclass) ==
  IF opclass \in Logic THEN {"SF", "ZF", "PF"} ELSE Flag

PolicyWrite(opclass) ==
  CASE opclass \in {"INC", "DEC"} -> Flag \ {"CF"}
    [] opclass \in Logic -> {"SF", "ZF", "PF"}
    [] OTHER -> Flag

update_status_register(status, opclass, flags) ==
  (status \ PolicyWrite(opclass)) \cup (flags \cap PolicyWrite(opclass))

(* The conditions of the sixteen conditional jumps.  JL, JGE and JG        *)
(* compare SF and OF as masks of the status word (1 and 32): equal only    *)
(* when both are clear.                                                    *)

(* Mistake: they are compared as truth values.                             *)
Clear2_TruthValues(status) == ("SF" \in status) <=> ("OF" \in status)

Clear2(status) == "SF" \notin status /\ "OF" \notin status

JumpTaken(cond, status) ==
  CASE cond = "JO"  -> "OF" \in status
    [] cond = "JNO" -> "OF" \notin status
    [] cond = "JB"  -> "CF" \in status
    [] cond = "JAE" -> "CF" \notin status
    [] cond = "JE"  -> "ZF" \in status
    [] cond = "JNE" -> "ZF" \notin status
    [] cond = "JBE" -> "CF" \in status \/ "ZF" \in status
    [] cond = "JA"  -> "CF" \notin status /\ "ZF" \notin status
    [] cond = "JS"  -> "SF" \in status
    [] cond = "JNS" -> "SF" \notin status
    [] cond = "JP"  -> "PF" \in status
    [] cond = "JNP" -> "PF" \notin status
    [] cond = "JL"  -> ~Clear2(status)
    [] cond = "JGE" -> Clear2(status)
    [] cond = "JLE" -> "ZF" \in status /\ ~Clear2(status)
    [] cond = "JG"  -> "ZF" \notin status /\ Clear2(status)

Condition == {"JO", "JNO", "JB", "JAE", "JE", "JNE", "JBE", "JA",
              "JS", "JNS", "JP", "JNP", "JL", "JGE", "JLE", "JG"}

=============================================================================
