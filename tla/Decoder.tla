-------------------------------- MODULE Decoder --------------------------------
(***************************************************************************)
(* Fetching and decoding one instruction: to_byte_array (core/cpu.c) turns *)
(* the four dwords that prefetch has read into sixteen bytes, and decoder  *)
(* (core/internal/decoder.c) runs a cursor over them: prefixes, opcode,    *)
(* ModRM and SIB, displacement, immediate.  The interpreter then moves EIP *)
(* by total_length and calls the handler of opcode[0].                     *)
(*                                                                         *)
(* A step is one iteration of a loop, or one of the functions without one. *)
(* What the decoder extracts from the ModRM and SIB bytes are their bits,  *)
(* here operators of the bytes.  memory holds the sixteen bytes at EIP,    *)
(* which do not change while the one thread decodes.                       *)
(***************************************************************************)
EXTENDS Opcodes, Sequences

CONSTANT Images   \* what the sixteen bytes at EIP may be

MAX_INSTR_LENGTH  == 16
MAX_PREFIX_LENGTH == 4
Position == 0..MAX_INSTR_LENGTH-1
CodeByte == 0..255

ASSUME ImagesAssumption == Images \subseteq [Position -> CodeByte]

VARIABLES
  memory,            \* the bytes at EIP
  queue,             \* byte_instr_queue
  byte_index, dword_index, shift, first_loop,   \* locals of to_byte_array
  stage,             \* the function that runs next
  byte_p,            \* Cursor.byte_p
  return_p,          \* decode_imm's copy of the cursor
  flags,             \* the prefix bytes whose has_... flag is set
  field,             \* prefix, opcode, modrm, sib, displacement with lengths
  opcode_id,         \* Instruction.OpcodeID
  immediate,         \* Instruction.immediate, an array of four
  immediate_length,  \* Instruction.immediate_length, the byte behind it
  total_length,      \* Instruction.total_length, the byte behind that
  overrun            \* a byte was stored behind total_length

fetchvars  == <<queue, byte_index, dword_index, shift, first_loop>>
immvars    == <<immediate, immediate_length, overrun>>
cursorvars == <<byte_p, return_p, flags, field, opcode_id>>
vars == <<memory, fetchvars, stage, cursorvars, immvars, total_length>>

FIELD_PREFIX       == 0
FIELD_OPCODE       == 1
FIELD_MODRM        == 2
FIELD_SIB          == 3
FIELD_DISPLACEMENT == 4
Field == 0..4

(* The five prefixes decode_prefix knows: operand size, address size, REP, *)
(* LOCK and CS.                                                            *)
PrefixByte == {102, 103, 243, 240, 46}   \* 66, 67, F3, F0, 2E
MULT_BYTE_FLAG == 15                    \* 0F

Stage == {"unpack", "prefix", "opcode", "modrm", "disp", "imm", "done"}

Init ==
  /\ memory \in Images
  /\ queue = [i \in Position |-> 0]
  /\ byte_index = 0 /\ dword_index = 0 /\ shift = 0 /\ first_loop = TRUE
  /\ stage = "unpack"
  /\ byte_p = 0 /\ return_p = 0
  /\ flags = {}
  /\ field = [f \in Field |-> <<>>]
  /\ opcode_id = 0
  /\ immediate = [i \in 0..3 |-> 0]
  /\ immediate_length = 0 /\ total_length = 0
  /\ overrun = FALSE

-----------------------------------------------------------------------------
(* to_byte_array.  instr_queue[d] >> s is the byte 4 * d + s / 8 of the    *)
(* sixteen, as long as d and s are in range.                               *)

Shifted(d, s) == memory[4 * d + s \div 8]

(* Mistake for the mutation runs: the dword is left one byte late. *)
DwordAfter_Late(i) ==
  IF i % 4 = 0 /\ ~first_loop THEN dword_index + 1 ELSE dword_index

DwordAfter(i) ==
  IF (i + 1) % 4 = 0 /\ ~first_loop THEN dword_index + 1 ELSE dword_index

UnpackByte ==
  /\ stage = "unpack" /\ byte_index < MAX_INSTR_LENGTH
  /\ IF shift = 32
     THEN /\ shift' = 0
          /\ UNCHANGED <<queue, byte_index, dword_index, first_loop>>
     ELSE /\ queue' = [queue EXCEPT ![byte_index] = Shifted(dword_index, shift)]
          /\ shift' = shift + 8
          /\ dword_index' = DwordAfter(byte_index)
          /\ byte_index' = byte_index + 1
          /\ first_loop' = FALSE
  /\ UNCHANGED <<memory, stage, cursorvars, immvars, total_length>>

Unpacked ==
  /\ stage = "unpack" /\ byte_index = MAX_INSTR_LENGTH
  /\ stage' = "prefix"
  /\ UNCHANGED <<memory, fetchvars, cursorvars, immvars, total_length>>

-----------------------------------------------------------------------------
(* put_byte for the next n bytes and any field but the immediate.  Behind  *)
(* the queue lie other locals, for whose bytes a 0 stands: CursorWithin-   *)
(* Queue says that they are never read.                                    *)

encoded_instr(p) == IF p \in Position THEN queue[p] ELSE 0

Upcoming(n) == [k \in 1..n |-> encoded_instr(byte_p + k - 1)]

PutBytes(f, n) ==
  /\ field' = [field EXCEPT ![f] = @ \o Upcoming(n)]
  /\ byte_p' = byte_p + n

(* Mistake: the cursor stays on the prefix. *)
DecodePrefix_StandsStill ==
  /\ stage = "prefix"
  /\ IF byte_p < MAX_PREFIX_LENGTH /\ encoded_instr(byte_p) \in PrefixByte
     THEN /\ flags' = flags \cup {encoded_instr(byte_p)}
          /\ UNCHANGED <<stage, byte_p, field>>
     ELSE stage' = "opcode" /\ UNCHANGED <<flags, field, byte_p>>
  /\ UNCHANGED <<memory, fetchvars, return_p, opcode_id, immvars, total_length>>

(* One iteration of decode_prefix: at most four prefixes are taken, and a  *)
(* fifth is left to be the opcode.                                         *)
DecodePrefix ==
  /\ stage = "prefix"
  /\ IF byte_p < MAX_PREFIX_LENGTH /\ encoded_instr(byte_p) \in PrefixByte
     THEN /\ flags' = flags \cup {encoded_instr(byte_p)}
          /\ PutBytes(FIELD_PREFIX, 1)
          /\ UNCHANGED stage
     ELSE stage' = "opcode" /\ UNCHANGED <<flags, field, byte_p>>
  /\ UNCHANGED <<memory, fetchvars, return_p, opcode_id, immvars, total_length>>

(* decode_opcode.  The branch for 0x0F is empty, and the loop comes back   *)
(* to the same byte for ever.                                              *)
DecodeOpcode ==
  /\ stage = "opcode"
  /\ IF encoded_instr(byte_p) # MULT_BYTE_FLAG
     THEN /\ PutBytes(FIELD_OPCODE, 1)
          /\ opcode_id' = single_byte_opcode_lut(encoded_instr(byte_p))
          /\ stage' = "modrm"
     ELSE UNCHANGED <<field, byte_p, opcode_id, stage>>
  /\ UNCHANGED <<memory, fetchvars, return_p, flags, immvars, total_length>>

Mod(m) == m \div 64
Rm(m)  == m % 8
Base(s) == s % 8

(* decode_modrm, with decode_sib when the ModRM byte asks for it. *)
NeedsSib(m) == Mod(m) # 3 /\ Rm(m) = 4

DecodeModrm ==
  /\ stage = "modrm"
  /\ IF HasModrm(opcode_id)
     THEN LET sib == IF NeedsSib(encoded_instr(byte_p)) THEN 1 ELSE 0
          IN /\ field' = [field EXCEPT
                    ![FIELD_MODRM] = <<encoded_instr(byte_p)>>,
                    ![FIELD_SIB] = IF sib = 1 THEN <<encoded_instr(byte_p + 1)>> ELSE <<>>]
             /\ byte_p' = byte_p + 1 + sib
     ELSE UNCHANGED <<field, byte_p>>
  /\ stage' = "disp"
  /\ UNCHANGED <<memory, fetchvars, return_p, flags, opcode_id, immvars, total_length>>

(* decode_disp: mod 0 has a displacement only where there is no base.      *)
(* sib is empty or the SIB byte; without one the record's base is zero.    *)

NoBase(m, sib) ==
  \/ Rm(m) = 5 /\ sib = <<>>
  \/ Rm(m) = 4 /\ sib # <<>> /\ Base(sib[1]) = 5

(* Mistake: the SIB byte without a base is forgotten. *)
DispLength_NoSib(m, sib) ==
  IF Mod(m) = 2 \/ (Mod(m) = 0 /\ Rm(m) = 5 /\ sib = <<>>) THEN 4
  ELSE IF Mod(m) = 1 THEN 1 ELSE 0

DispLength(m, sib) ==
  IF Mod(m) = 2 \/ (Mod(m) = 0 /\ NoBase(m, sib)) THEN 4
  ELSE IF Mod(m) = 1 THEN 1 ELSE 0

DecodeDisp ==
  /\ stage = "disp"
  /\ LET n == IF HasModrm(opcode_id)
              THEN DispLength(field[FIELD_MODRM][1], field[FIELD_SIB]) ELSE 0
     IN PutBytes(FIELD_DISPLACEMENT, n) /\ return_p' = byte_p + n
  /\ stage' = "imm"
  /\ UNCHANGED <<memory, fetchvars, flags, opcode_id, immvars, total_length>>

-----------------------------------------------------------------------------
(* decode_imm, one byte.  The array has four places, and immediate_length  *)
(* and total_length lie behind it: the fifth byte of a far pointer lands   *)
(* on immediate_length in the very expression that increments it, so that  *)
(* either value may remain; the sixth goes wherever that length points.    *)

(* Mistake: the length is kept in an int. *)
PutImmediate_IntLength(b) ==
  /\ IF immediate_length < 4
     THEN immediate' = [immediate EXCEPT ![immediate_length] = b]
     ELSE UNCHANGED immediate
  /\ \/ immediate_length' = immediate_length + 1
     \/ immediate_length = 4 /\ immediate_length' = b
  /\ total_length' = IF immediate_length = 5 THEN b ELSE total_length
  /\ overrun' = (overrun \/ immediate_length > 5)

PutImmediate(b) ==
  /\ IF immediate_length < 4
     THEN immediate' = [immediate EXCEPT ![immediate_length] = b]
     ELSE UNCHANGED immediate
  /\ \/ immediate_length' = (immediate_length + 1) % 256
     \/ immediate_length = 4 /\ immediate_length' = b
  /\ total_length' = IF immediate_length = 5 THEN b ELSE total_length
  /\ overrun' = (overrun \/ immediate_length > 5)

DecodeImm ==
  /\ stage = "imm" /\ byte_p < ImmediateBytes(opcode_id) + return_p
  /\ PutImmediate(encoded_instr(byte_p))
  /\ byte_p' = byte_p + 1
  /\ UNCHANGED <<memory, fetchvars, stage, return_p, flags, field, opcode_id>>

(* Mistake: the SIB byte is not counted. *)
Lengths_NoSib ==
  Len(field[FIELD_PREFIX]) + Len(field[FIELD_OPCODE]) + Len(field[FIELD_MODRM])
    + Len(field[FIELD_DISPLACEMENT])

Lengths ==
  Len(field[FIELD_PREFIX]) + Len(field[FIELD_OPCODE]) + Len(field[FIELD_MODRM])
    + Len(field[FIELD_SIB]) + Len(field[FIELD_DISPLACEMENT])

(* The end of decoder: the length is the sum of the fields' lengths, kept  *)
(* in a byte.                                                              *)
Finish ==
  /\ stage = "imm" /\ byte_p >= ImmediateBytes(opcode_id) + return_p
  /\ total_length' = (Lengths + immediate_length) % 256
  /\ stage' = "done"
  /\ UNCHANGED <<memory, fetchvars, cursorvars, immvars>>

(* The interpreter goes on with the instruction. *)
Decoded == stage = "done" /\ UNCHANGED vars

Next ==
  \/ UnpackByte \/ Unpacked
  \/ DecodePrefix \/ DecodeOpcode \/ DecodeModrm \/ DecodeDisp
  \/ DecodeImm \/ Finish
  \/ Decoded

Spec == Init /\ [][Next]_vars

(* The decoder is a function call: it runs until it returns. *)
FairSpec == Spec /\ WF_vars(Next)

-----------------------------------------------------------------------------
DecoderTypeOK ==
  /\ memory \in [Position -> CodeByte]
  /\ queue \in [Position -> CodeByte]
  /\ byte_index \in 0..16 /\ dword_index \in 0..4 /\ shift \in 0..32
  /\ first_loop \in BOOLEAN
  /\ stage \in Stage
  /\ byte_p \in Nat /\ return_p \in Nat
  /\ flags \subseteq PrefixByte
  /\ field \in [Field -> Seq(CodeByte)]
  /\ opcode_id \in OpcodeByte
  /\ immediate \in [0..3 -> CodeByte]
  /\ immediate_length \in CodeByte /\ total_length \in CodeByte
  /\ overrun \in BOOLEAN

(* to_byte_array's three counters keep in step: what the decoder reads are *)
(* the bytes of memory from EIP on, each in its place.                     *)
QueueIsMemory == stage # "unpack" => queue = memory

(* The cursor stays within the sixteen bytes that were fetched, though     *)
(* nothing in the decoder tests it: the longest instruction has four       *)
(* prefixes, opcode, ModRM, SIB and two times four bytes, and the rows     *)
(* with six bytes of immediate are none of those with a ModRM byte.        *)
CursorWithinQueue == byte_p <= MAX_INSTR_LENGTH

(* The fields are the consecutive pieces of the queue, none skipped, none  *)
(* read twice, in the order of the fields; and total_length, by which EIP  *)
(* moves, is where the last one ends.  Six bytes of immediate do not fit   *)
(* the array and are the exception.                                        *)
Start(f) ==
  LET L(g) == IF g < f THEN Len(field[g]) ELSE 0
  IN L(FIELD_PREFIX) + L(FIELD_OPCODE) + L(FIELD_MODRM) + L(FIELD_SIB)
       + L(FIELD_DISPLACEMENT)

FieldsAreTheBytes ==
  /\ \A f \in Field : \A k \in 1..Len(field[f]) :
       field[f][k] = encoded_instr(Start(f) + k - 1)
  /\ ImmediateBytes(opcode_id) <= 4 =>
       /\ \A k \in 0..3 :
            k < immediate_length => immediate[k] = encoded_instr(Start(5) + k)
       /\ stage = "done" => total_length = byte_p

(* For an instruction that has a handler and no size prefix, total_length  *)
(* is the length of the IA-32 encoding, computed from the bytes alone: the *)
(* displacement that calculate_EA will add or take as an address is there  *)
(* in full, and the next instruction is fetched from behind this one.      *)
ArchAddressLength(m, s) ==
  LET mod == m \div 64
      rm == m % 8
      sib == IF mod # 3 /\ rm = 4 THEN 1 ELSE 0
      nobase == mod = 0 /\ (rm = 5 \/ (rm = 4 /\ s % 8 = 5))
  IN 1 + sib + (IF mod = 2 \/ nobase THEN 4 ELSE IF mod = 1 THEN 1 ELSE 0)

ArchImmediate(op) ==
  IF op \in (112..127) \cup (176..183) \cup {106, 235} THEN 1
  ELSE IF op \in (184..191) \cup {104, 232, 233} THEN 4 ELSE 0

ArchModrm(op) ==
  op \in {b \in 0..63 : b % 8 < 4} \cup (132..139) \cup {255}

LengthIsArchitectural ==
  stage = "done" /\ flags \cap {102, 103} = {} =>
    LET p  == Len(field[FIELD_PREFIX])
        op == queue[p]
    IN op \in Implemented =>
         total_length = p + 1 + ArchImmediate(op)
           + (IF ArchModrm(op)
              THEN ArchAddressLength(queue[p + 1], queue[p + 2]) ELSE 0)

(* An instruction whose immediate ran over its record, so that its length  *)
(* is not what was consumed, is never executed: it has no handler, and the *)
(* emulation ends before EIP is used again.                                *)
OverrunNeverExecuted ==
  stage = "done" /\ (overrun \/ total_length # byte_p) =>
    field[FIELD_OPCODE][1] \notin Implemented

(* Decoding ends, unless it stands before the escape byte 0x0F.            *)
AtEscape == stage = "opcode" /\ encoded_instr(byte_p) = MULT_BYTE_FLAG

DecodingEnds == <>(stage = "done" \/ AtEscape)

===============================================================================
