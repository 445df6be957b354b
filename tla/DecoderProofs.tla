----------------------------- MODULE DecoderProofs -----------------------------
(***************************************************************************)
(* Proofs about fetching and decoding, for every sixteen bytes at EIP: the *)
(* three counters of to_byte_array put each byte in its place, and the     *)
(* decoder's fields are consecutive pieces of the queue, within its end,   *)
(* whose lengths add up to the length of the IA-32 encoding.               *)
(***************************************************************************)
EXTENDS Decoder, SequenceTheorems, TLAPS

-----------------------------------------------------------------------------
(* Facts about the table. *)

(* Immediates have 0, 1, 2, 4 or 6 bytes, and those with six follow no     *)
(* ModRM byte: the rows for far pointers in opcode_list.h.                 *)
LEMMA ImmediateSizes ==
  ASSUME NEW op \in OpcodeByte
  PROVE  /\ ImmediateBytes(op) \in 0..6
         /\ HasModrm(op) => ImmediateBytes(op) <= 4
BY DEF OpcodeByte, ImmediateBytes, HasModrm, LowImmediate, HighImmediate,
       LowModrm, HighModrm

(* The row found by the lookup is that of an opcode byte. *)
LEMMA LookupType ==
  ASSUME NEW b \in CodeByte
  PROVE  single_byte_opcode_lut(b) \in OpcodeByte
BY DEF CodeByte, OpcodeByte, single_byte_opcode_lut

(* No opcode with a handler has six bytes of immediate. *)
LEMMA NoFarHandler ==
  ASSUME NEW b \in CodeByte, ImmediateBytes(single_byte_opcode_lut(b)) > 4
  PROVE  b \notin Implemented
<1>1. b = 154 \/ b = 234
  BY DEF CodeByte, single_byte_opcode_lut, ImmediateBytes, LowImmediate,
         HighImmediate, Missing
<1> QED
  BY <1>1 DEF Implemented

(* For an opcode with a handler the table says what the architecture says. *)
LEMMA ImplementedRows ==
  ASSUME NEW b \in CodeByte, b \in Implemented
  PROVE  /\ single_byte_opcode_lut(b) = b
         /\ HasModrm(b) <=> ArchModrm(b)
         /\ ImmediateBytes(b) = ArchImmediate(b)
<1>1. b \notin Missing
  BY DEF CodeByte, Implemented, Missing
<1>2. HasModrm(b) <=> ArchModrm(b)
  BY DEF CodeByte, Implemented, HasModrm, ArchModrm, LowModrm, HighModrm
<1>3. ImmediateBytes(b) = ArchImmediate(b)
  <2>1. CASE b < 128
    <3>1. b % 8 = 4 \/ b % 8 = 5 => ~(b < 64)
      BY <2>1 DEF CodeByte, Implemented
    <3>2. b \notin {105, 107}
      BY DEF CodeByte, Implemented
    <3> QED
      BY <2>1, <3>1, <3>2
      DEF CodeByte, ImmediateBytes, ArchImmediate, LowImmediate
  <2>2. CASE b >= 128
    <3>1. \/ b \in {132, 133} \/ b \in 136..139 \/ b \in 176..191 \/ b = 195
          \/ b \in {232, 233, 235, 244, 248, 249, 255}
      BY <2>2 DEF CodeByte, Implemented
    <3>2. b \in HighByte <=> b \in 176..183 \/ b = 235
      BY <2>2, <3>1 DEF CodeByte, HighByte
    <3>3. b \in HighDword <=> b \in 184..191 \/ b = 232 \/ b = 233
      BY <2>2, <3>1 DEF CodeByte, HighDword
    <3>4. HighImmediate(b) = ArchImmediate(b)
      BY <2>2, <3>1, <3>2, <3>3
      DEF CodeByte, ArchImmediate, HighImmediate
    <3> QED
      BY <2>2, <3>4 DEF CodeByte, ImmediateBytes
  <2> QED
    BY <2>1, <2>2 DEF CodeByte
<1> QED
  BY <1>1, <1>2, <1>3 DEF single_byte_opcode_lut

-----------------------------------------------------------------------------
(* The inductive invariant.                                                *)

(* to_byte_array: the dword and the shift address the byte of the next     *)
(* place.  After every fourth byte the shift is 32 and one iteration of    *)
(* the loop is spent on resetting it.                                      *)
UnpackInv ==
  /\ byte_index \in 0..16
  /\ dword_index = byte_index \div 4
  /\ \/ shift = 8 * (byte_index % 4)
     \/ shift = 32 /\ byte_index % 4 = 0 /\ byte_index > 0
  /\ first_loop <=> byte_index = 0
  /\ \A i \in Position : i < byte_index => queue[i] = memory[i]
  /\ stage # "unpack" => byte_index = 16

BeforeOpcode == stage \in {"unpack", "prefix", "opcode"}
BeforeDisp   == BeforeOpcode \/ stage = "modrm"
BeforeImm    == BeforeDisp \/ stage = "disp"

(* Where the cursor is, and how long each field is, in each stage. *)
PrefixShape ==
  /\ Len(field[0]) <= 4
  /\ stage = "unpack" => Len(field[0]) = 0
  /\ BeforeOpcode => byte_p = Len(field[0])

OpcodeShape ==
  /\ Len(field[1]) = IF BeforeOpcode THEN 0 ELSE 1
  /\ ~BeforeOpcode => opcode_id = single_byte_opcode_lut(field[1][1])
  /\ stage = "modrm" => byte_p = Len(field[0]) + 1

AddressShape ==
  /\ Len(field[2]) = IF ~BeforeDisp /\ HasModrm(opcode_id) THEN 1 ELSE 0
  /\ Len(field[3]) =
       IF ~BeforeDisp /\ HasModrm(opcode_id) /\ NeedsSib(field[2][1]) THEN 1 ELSE 0
  /\ stage = "disp" => byte_p = Len(field[0]) + 1 + Len(field[2]) + Len(field[3])

DispShape ==
  /\ Len(field[4]) =
       IF ~BeforeImm /\ HasModrm(opcode_id) THEN DispLength(field[2][1], field[3]) ELSE 0
  /\ ~BeforeImm =>
       return_p = Len(field[0]) + 1 + Len(field[2]) + Len(field[3]) + Len(field[4])

ImmShape ==
  /\ BeforeImm => immediate_length = 0 /\ ~overrun
  /\ ~BeforeImm => /\ return_p <= byte_p
                   /\ byte_p <= return_p + ImmediateBytes(opcode_id)
  /\ ~BeforeImm /\ ImmediateBytes(opcode_id) <= 4 =>
       ~overrun /\ byte_p = return_p + immediate_length
  /\ stage = "done" =>
       /\ byte_p = return_p + ImmediateBytes(opcode_id)
       /\ total_length = (Lengths + immediate_length) % 256

Shape == PrefixShape /\ OpcodeShape /\ AddressShape /\ DispShape /\ ImmShape

(* Field f holds the bytes of the queue from place "from" on. *)
Piece(f, from) ==
  \A k \in 1..Len(field[f]) : field[f][k] = encoded_instr(from + k - 1)

Contents ==
  /\ Piece(0, 0)
  /\ Piece(1, Len(field[0]))
  /\ Piece(2, Len(field[0]) + Len(field[1]))
  /\ Piece(3, Len(field[0]) + Len(field[1]) + Len(field[2]))
  /\ Piece(4, Len(field[0]) + Len(field[1]) + Len(field[2]) + Len(field[3]))

ImmediateContents ==
  ~BeforeImm /\ ImmediateBytes(opcode_id) <= 4 =>
    \A k \in 0..3 : k < immediate_length => immediate[k] = encoded_instr(return_p + k)

IInv == DecoderTypeOK /\ UnpackInv /\ Shape /\ Contents /\ ImmediateContents

-----------------------------------------------------------------------------
(* A byte of the queue, or the 0 that stands for one behind it.             *)
LEMMA EncodedType ==
  ASSUME DecoderTypeOK, NEW p \in Nat
  PROVE  encoded_instr(p) \in CodeByte
<1>1. CASE p \in Position
  BY <1>1 DEF DecoderTypeOK, encoded_instr
<1>2. CASE p \notin Position
  BY <1>2 DEF encoded_instr, CodeByte
<1> QED
  BY <1>1, <1>2

(* PutBytes appends the next n bytes. *)
LEMMA Appended ==
  ASSUME DecoderTypeOK, NEW f \in Field, NEW n \in Nat
  PROVE  /\ field[f] \o Upcoming(n) \in Seq(CodeByte)
         /\ Len(field[f] \o Upcoming(n)) = Len(field[f]) + n
         /\ \A k \in 1..Len(field[f]) : (field[f] \o Upcoming(n))[k] = field[f][k]
         /\ \A k \in Len(field[f]) + 1..Len(field[f]) + n :
              (field[f] \o Upcoming(n))[k] =
                encoded_instr(byte_p + (k - Len(field[f])) - 1)
<1>1. field[f] \in Seq(CodeByte) /\ byte_p \in Nat
  BY DEF DecoderTypeOK
<1>2. \A k \in 1..n : encoded_instr(byte_p + k - 1) \in CodeByte
  BY <1>1, EncodedType
<1>3. Upcoming(n) \in Seq(CodeByte) /\ Len(Upcoming(n)) = n
  BY <1>2 DEF Upcoming
<1>4. \A k \in 1..n : Upcoming(n)[k] = encoded_instr(byte_p + k - 1)
  BY DEF Upcoming
<1> DEFINE s == field[f] \o Upcoming(n)
<1>5. s \in Seq(CodeByte) /\ Len(s) = Len(field[f]) + n
  BY <1>1, <1>3
<1>6. \A k \in 1..Len(field[f]) : s[k] = field[f][k]
  BY <1>1, <1>3
<1>7. \A k \in Len(field[f]) + 1..Len(s) :
        s[k] = encoded_instr(byte_p + (k - Len(field[f])) - 1)
  <2> SUFFICES ASSUME NEW k \in Len(field[f]) + 1..Len(s)
               PROVE  s[k] = encoded_instr(byte_p + (k - Len(field[f])) - 1)
    OBVIOUS
  <2>1. k - Len(field[f]) \in 1..n
    BY <1>1, <1>5
  <2>2. s[k] = Upcoming(n)[k - Len(field[f])]
    BY <1>1, <1>3, <1>5, <2>1
  <2> QED
    BY <1>4, <2>1, <2>2
<1> HIDE DEF s
<1>8. Len(s) = Len(field[f]) + n
  BY <1>5
<1>9. \A k \in Len(field[f]) + 1..Len(field[f]) + n :
        s[k] = encoded_instr(byte_p + (k - Len(field[f])) - 1)
  BY <1>7, <1>8
<1> QED
  BY <1>5, <1>6, <1>9 DEF s

(* The entry of to_byte_array satisfies the invariant.                      *)
LEMMA InitInv == Init => IInv
<1> SUFFICES ASSUME Init PROVE IInv
  OBVIOUS
<1>1. DecoderTypeOK
  <2>1. queue \in [Position -> CodeByte] /\ immediate \in [0..3 -> CodeByte]
    BY DEF Init, CodeByte
  <2>2. field \in [Field -> Seq(CodeByte)]
    BY DEF Init
  <2>3. memory \in [Position -> CodeByte]
    BY ImagesAssumption DEF Init
  <2>4. /\ byte_index \in 0..16 /\ dword_index \in 0..4 /\ shift \in 0..32
        /\ byte_p \in Nat /\ return_p \in Nat /\ opcode_id \in OpcodeByte
        /\ immediate_length \in CodeByte /\ total_length \in CodeByte
    BY DEF Init, CodeByte, OpcodeByte
  <2>5. /\ first_loop \in BOOLEAN /\ overrun \in BOOLEAN /\ stage \in Stage
        /\ flags \subseteq PrefixByte
    BY Zenon DEF Init, Stage
  <2> QED
    BY <2>1, <2>2, <2>3, <2>4, <2>5 DEF DecoderTypeOK
<1>2. UnpackInv
  BY DEF Init, UnpackInv, Position
<1>3. field = [f \in Field |-> <<>>] /\ \A f \in Field : Len(field[f]) = 0
  BY DEF Init
<1>4. Len(field[0]) = 0 /\ Len(field[1]) = 0 /\ Len(field[2]) = 0
      /\ Len(field[3]) = 0 /\ Len(field[4]) = 0
  BY <1>3 DEF Field
<1>5. Shape
  BY <1>4 DEF Init, Shape, PrefixShape, OpcodeShape, AddressShape, DispShape,
     ImmShape, BeforeOpcode, BeforeDisp, BeforeImm
<1>6. Contents
  BY <1>4 DEF Contents, Piece
<1>7. ImmediateContents
  BY DEF Init, ImmediateContents, BeforeImm, BeforeDisp, BeforeOpcode
<1> QED
  BY <1>1, <1>2, <1>5, <1>6, <1>7 DEF IInv

-----------------------------------------------------------------------------
(* to_byte_array. *)

(* The shift addresses a byte of the dword: the next one of memory. *)
LEMMA ShiftedByte ==
  ASSUME DecoderTypeOK, UnpackInv, byte_index < 16, shift # 32
  PROVE  /\ shift = 8 * (byte_index % 4)
         /\ Shifted(dword_index, shift) = memory[byte_index]
         /\ byte_index \in Position
<1>1. byte_index \in 0..15 /\ dword_index = byte_index \div 4
      /\ shift = 8 * (byte_index % 4)
  BY DEF UnpackInv
<1>2. 4 * dword_index + shift \div 8 = byte_index
  BY <1>1
<1> QED
  BY <1>1, <1>2 DEF Shifted, Position, MAX_INSTR_LENGTH

(* One iteration of to_byte_array's loop keeps it.                          *)
LEMMA UnpackByteInv == IInv /\ UnpackByte => IInv'
<1> SUFFICES ASSUME IInv, UnpackByte PROVE IInv'
  OBVIOUS
<1> USE DEF IInv
<1>1. stage = "unpack" /\ stage' = "unpack" /\ byte_index \in 0..15
      /\ UNCHANGED <<memory, cursorvars, immvars, total_length>>
  BY DEF UnpackByte, UnpackInv, MAX_INSTR_LENGTH
<1>2. /\ UNCHANGED <<byte_p, return_p, flags, field, opcode_id>>
      /\ UNCHANGED <<immediate, immediate_length, overrun>>
      /\ UNCHANGED <<memory, total_length, stage>>
  BY <1>1 DEF cursorvars, immvars
<1>3. DecoderTypeOK' /\ UnpackInv'
  <2>1. CASE shift = 32
    <3>1. shift' = 0 /\ UNCHANGED <<queue, byte_index, dword_index, first_loop>>
      BY <2>1 DEF UnpackByte
    <3>2. DecoderTypeOK'
      BY <1>2, <3>1 DEF DecoderTypeOK
    <3>3. byte_index % 4 = 0
      BY <2>1, <1>1 DEF UnpackInv
    <3>4. UnpackInv'
      BY <1>2, <3>1, <3>3 DEF UnpackInv
    <3> QED
      BY <3>2, <3>4
  <2>2. CASE shift # 32
    <3>1. /\ queue' = [queue EXCEPT ![byte_index] = Shifted(dword_index, shift)]
          /\ shift' = shift + 8 /\ dword_index' = DwordAfter(byte_index)
          /\ byte_index' = byte_index + 1 /\ first_loop' = FALSE
      BY <2>2 DEF UnpackByte
    <3>2. /\ shift = 8 * (byte_index % 4)
          /\ Shifted(dword_index, shift) = memory[byte_index]
          /\ byte_index \in Position
      BY <1>1, <2>2, ShiftedByte
    <3>3. queue' = [queue EXCEPT ![byte_index] = memory[byte_index]]
          /\ memory[byte_index] \in CodeByte
      BY <3>1, <3>2 DEF DecoderTypeOK
    <3>4. dword_index' = byte_index' \div 4
      BY <1>1, <3>1 DEF UnpackInv, DwordAfter
    <3>5. \/ shift' = 8 * (byte_index' % 4)
          \/ shift' = 32 /\ byte_index' % 4 = 0 /\ byte_index' > 0
      BY <1>1, <3>1, <3>2
    <3>6. \A i \in Position : i < byte_index' => queue'[i] = memory'[i]
      BY <1>1, <1>2, <3>1, <3>3 DEF UnpackInv, DecoderTypeOK, Position
    <3>7. byte_index' \in 0..16 /\ (first_loop' <=> byte_index' = 0)
      BY <1>1, <3>1
    <3>8. UnpackInv'
      BY <1>1, <3>4, <3>5, <3>6, <3>7 DEF UnpackInv
    <3>9. queue' \in [Position -> CodeByte]
      BY <3>3 DEF DecoderTypeOK
    <3>10. dword_index' \in 0..4 /\ shift' \in 0..32 /\ first_loop' \in BOOLEAN
      <4>1. dword_index' \in 0..4
        <5>1. \A n \in 0..16 : n \div 4 \in 0..4
          OBVIOUS
        <5> QED
          BY <3>4, <3>7, <5>1
      <4>2. byte_index % 4 \in 0..3
        BY <1>1
      <4>3. shift' \in 0..32
        BY <3>1, <3>2, <4>2
      <4> QED
        BY <3>1, <4>1, <4>3
    <3>11. DecoderTypeOK'
      BY <1>2, <3>7, <3>9, <3>10 DEF DecoderTypeOK
    <3> QED
      BY <3>8, <3>11
  <2> QED
    BY <2>1, <2>2
<1>4. Shape'
  <2>1. PrefixShape' /\ OpcodeShape' /\ AddressShape' /\ DispShape'
    BY <1>2 DEF Shape, PrefixShape, OpcodeShape, AddressShape, DispShape,
       BeforeOpcode, BeforeDisp, BeforeImm
  <2>2. immediate_length' = 0 /\ ~overrun'
    BY <1>1, <1>2 DEF Shape, ImmShape, BeforeOpcode, BeforeDisp, BeforeImm
  <2>3. ImmShape'
    BY <1>1, <2>2 DEF ImmShape, BeforeOpcode, BeforeDisp, BeforeImm
  <2> QED
    BY <2>1, <2>3 DEF Shape
<1>5. Contents'
  <2>1. Len(field[0]) = 0 /\ Len(field[1]) = 0 /\ Len(field[2]) = 0
        /\ Len(field[3]) = 0 /\ Len(field[4]) = 0
    BY <1>1 DEF Shape, PrefixShape, OpcodeShape, AddressShape, DispShape,
       BeforeOpcode, BeforeDisp, BeforeImm
  <2> QED
    BY <1>2, <2>1 DEF Contents, Piece
<1>6. ImmediateContents'
  BY <1>1 DEF ImmediateContents, BeforeImm, BeforeDisp, BeforeOpcode
<1> QED
  BY <1>3, <1>4, <1>5, <1>6

(* The end of that loop keeps it.                                           *)
LEMMA UnpackedInv == IInv /\ Unpacked => IInv'
<1> SUFFICES ASSUME IInv, Unpacked PROVE IInv'
  OBVIOUS
<1> USE DEF IInv
<1>1. stage = "unpack" /\ stage' = "prefix" /\ byte_index = 16
  BY DEF Unpacked, MAX_INSTR_LENGTH
<1>2. /\ UNCHANGED <<byte_p, return_p, flags, field, opcode_id>>
      /\ UNCHANGED <<immediate, immediate_length, overrun>>
      /\ UNCHANGED <<queue, byte_index, dword_index, shift, first_loop>>
      /\ UNCHANGED <<memory, total_length>>
  BY DEF Unpacked, fetchvars, cursorvars, immvars
<1>3. stage' \in Stage
  BY <1>1 DEF Stage
<1>4. DecoderTypeOK'
  BY <1>2, <1>3 DEF DecoderTypeOK
<1>5. UnpackInv'
  BY <1>1, <1>2 DEF UnpackInv
<1>6. Shape'
  BY <1>1, <1>2 DEF Shape, PrefixShape, OpcodeShape, AddressShape, DispShape,
     ImmShape, BeforeOpcode, BeforeDisp, BeforeImm, Lengths
<1>7. Contents'
  BY <1>2 DEF Contents, Piece, encoded_instr
<1>8. ImmediateContents'
  BY <1>1 DEF ImmediateContents, BeforeImm, BeforeDisp, BeforeOpcode
<1> QED
  BY <1>4, <1>5, <1>6, <1>7, <1>8

-----------------------------------------------------------------------------
(* decoder.  What appending the next n bytes to field f does to it: a      *)
(* piece that ended at the cursor ends at the cursor again.                *)
LEMMA PutBytesEffect ==
  DecoderTypeOK =>
    \A f \in Field, n \in Nat :
      /\ field' = [field EXCEPT ![f] = @ \o Upcoming(n)]
      /\ byte_p' = byte_p + n
      => /\ field' \in [Field -> Seq(CodeByte)] /\ byte_p' \in Nat
         /\ \A g \in Field : g # f => field'[g] = field[g]
         /\ Len(field'[f]) = Len(field[f]) + n
         /\ \A k \in 1..Len(field[f]) : field'[f][k] = field[f][k]
         /\ \A from \in Nat : Piece(f, from) /\ byte_p = from + Len(field[f]) =>
              \A k \in 1..Len(field'[f]) : field'[f][k] = encoded_instr(from + k - 1)
<1> SUFFICES ASSUME DecoderTypeOK, NEW f \in Field, NEW n \in Nat
             PROVE  field' = [field EXCEPT ![f] = @ \o Upcoming(n)] /\ byte_p' = byte_p + n =>
                      /\ field' \in [Field -> Seq(CodeByte)] /\ byte_p' \in Nat
                      /\ \A g \in Field : g # f => field'[g] = field[g]
                      /\ Len(field'[f]) = Len(field[f]) + n
                      /\ \A k \in 1..Len(field[f]) : field'[f][k] = field[f][k]
                      /\ \A from \in Nat :
                           Piece(f, from) /\ byte_p = from + Len(field[f]) =>
                             \A k \in 1..Len(field'[f]) :
                               field'[f][k] = encoded_instr(from + k - 1)
  OBVIOUS
<1> DEFINE s == field[f] \o Upcoming(n)
<1>1. field \in [Field -> Seq(CodeByte)] /\ byte_p \in Nat
  BY DEF DecoderTypeOK
<1>2. /\ s \in Seq(CodeByte)
      /\ Len(s) = Len(field[f]) + n
      /\ \A k \in 1..Len(field[f]) : s[k] = field[f][k]
      /\ \A k \in Len(field[f]) + 1..Len(field[f]) + n :
           s[k] = encoded_instr(byte_p + (k - Len(field[f])) - 1)
  BY Appended
<1>3. (field' = [field EXCEPT ![f] = @ \o Upcoming(n)])
        => field' = [field EXCEPT ![f] = s]
  OBVIOUS
<1> HIDE DEF s
<1>4. ASSUME NEW from \in Nat, Piece(f, from), byte_p = from + Len(field[f]),
             NEW k \in 1..Len(s)
      PROVE  s[k] = encoded_instr(from + k - 1)
  <2>1. Len(field[f]) \in Nat /\ k \in Nat /\ k <= Len(field[f]) + n /\ k >= 1
    BY <1>1, <1>2
  <2>2. CASE k <= Len(field[f])
    <3>1. k \in 1..Len(field[f])
      BY <2>1, <2>2
    <3> QED
      BY <1>2, <1>4, <3>1 DEF Piece
  <2>3. CASE k > Len(field[f])
    <3>1. k \in Len(field[f]) + 1..Len(field[f]) + n
      BY <2>1, <2>3
    <3>2. \A a, b, c \in Nat : (a + b) + (c - b) - 1 = a + c - 1
      OBVIOUS
    <3>3. byte_p + (k - Len(field[f])) - 1 = from + k - 1
      BY <1>4, <2>1, <3>2
    <3> QED
      BY <1>2, <3>1, <3>3
  <2> QED
    BY <2>1, <2>2, <2>3
<1>5. ASSUME field' = [field EXCEPT ![f] = s], byte_p' = byte_p + n
      PROVE  /\ field' \in [Field -> Seq(CodeByte)] /\ byte_p' \in Nat
             /\ \A g \in Field : g # f => field'[g] = field[g]
             /\ field'[f] = s
  BY <1>1, <1>2, <1>5
<1> QED
  BY <1>2, <1>3, <1>4, <1>5

(* UnpackInv and the queue survive a step of the decoder proper. *)
LEMMA QueueKept ==
  ASSUME IInv, UNCHANGED <<memory, fetchvars>>, stage # "unpack", stage' # "unpack"
  PROVE  UnpackInv' /\ queue' = queue
BY DEF IInv, UnpackInv, fetchvars

(* A step that changes nothing keeps it.                                    *)
LEMMA StutterInv == IInv /\ UNCHANGED vars => IInv'
<1> SUFFICES ASSUME IInv, UNCHANGED vars PROVE IInv'
  OBVIOUS
<1>1. /\ UNCHANGED <<memory, queue, byte_index, dword_index, shift, first_loop>>
      /\ UNCHANGED <<stage, byte_p, return_p, flags, field, opcode_id>>
      /\ UNCHANGED <<immediate, immediate_length, overrun, total_length>>
  BY DEF vars, fetchvars, cursorvars, immvars
<1>2. DecoderTypeOK'
  BY <1>1 DEF IInv, DecoderTypeOK
<1>3. UnpackInv'
  BY <1>1 DEF IInv, UnpackInv
<1>4. PrefixShape' /\ OpcodeShape' /\ AddressShape' /\ DispShape'
  BY <1>1 DEF IInv, Shape, PrefixShape, OpcodeShape, AddressShape, DispShape,
     BeforeOpcode, BeforeDisp, BeforeImm
<1>5. ImmShape'
  <2>1. ImmShape
    BY DEF IInv, Shape
  <2>2. (BeforeImm' <=> BeforeImm) /\ Lengths' = Lengths /\ (overrun' <=> overrun)
    BY <1>1 DEF BeforeImm, BeforeDisp, BeforeOpcode, Lengths
  <2> QED
    BY <1>1, <2>1, <2>2 DEF ImmShape
<1>6. Contents'
  BY <1>1 DEF IInv, Contents, Piece, encoded_instr
<1>7. ImmediateContents'
  BY <1>1 DEF IInv, ImmediateContents, BeforeImm, BeforeDisp, BeforeOpcode, encoded_instr
<1> QED
  BY <1>2, <1>3, <1>4, <1>5, <1>6, <1>7 DEF IInv, Shape

(* One iteration of decode_prefix keeps it.                                 *)
LEMMA DecodePrefixInv == IInv /\ DecodePrefix => IInv'
<1> SUFFICES ASSUME IInv, DecodePrefix PROVE IInv'
  OBVIOUS
<1>1. /\ DecoderTypeOK /\ Shape /\ Contents
      /\ stage = "prefix" /\ UNCHANGED <<memory, fetchvars>>
      /\ UNCHANGED <<return_p, opcode_id, immediate, immediate_length, overrun>>
      /\ UNCHANGED total_length
  BY DEF DecodePrefix, IInv, immvars
<1>2. CASE byte_p < MAX_PREFIX_LENGTH /\ encoded_instr(byte_p) \in PrefixByte
  <2>1. /\ flags' = flags \cup {encoded_instr(byte_p)} /\ stage' = stage
        /\ field' = [field EXCEPT ![0] = @ \o Upcoming(1)]
        /\ byte_p' = byte_p + 1
    BY <1>2 DEF DecodePrefix, PutBytes, FIELD_PREFIX
  <2>2. UnpackInv' /\ queue' = queue
    BY <1>1, <2>1, QueueKept
  <2>3. /\ field' \in [Field -> Seq(CodeByte)] /\ byte_p' \in Nat
        /\ field'[1] = field[1] /\ field'[2] = field[2]
        /\ field'[3] = field[3] /\ field'[4] = field[4]
        /\ Len(field'[0]) = Len(field[0]) + 1
        /\ \A from \in Nat : Piece(0, from) /\ byte_p = from + Len(field[0]) =>
             \A k \in 1..Len(field'[0]) : field'[0][k] = encoded_instr(from + k - 1)
    <3>1. 0 \in Field /\ 1 \in Field /\ 2 \in Field /\ 3 \in Field /\ 4 \in Field
      BY DEF Field
    <3>2. \A g \in Field : g # 0 => field'[g] = field[g]
      BY <1>1, <2>1, <3>1, PutBytesEffect
    <3>3. /\ field' \in [Field -> Seq(CodeByte)] /\ byte_p' \in Nat
          /\ Len(field'[0]) = Len(field[0]) + 1
      BY <1>1, <2>1, <3>1, PutBytesEffect
    <3>4. \A from \in Nat : Piece(0, from) /\ byte_p = from + Len(field[0]) =>
            \A k \in 1..Len(field'[0]) : field'[0][k] = encoded_instr(from + k - 1)
      BY <1>1, <2>1, <3>1, PutBytesEffect
    <3> QED
      BY <3>1, <3>2, <3>3, <3>4
  <2>4. byte_p = Len(field[0]) /\ Len(field[0]) <= 3
        /\ Len(field[1]) = 0 /\ Len(field[2]) = 0 /\ Len(field[3]) = 0
        /\ Len(field[4]) = 0 /\ Len(field[0]) \in Nat
    BY <1>1, <1>2 DEF Shape, PrefixShape, OpcodeShape, AddressShape, DispShape,
       BeforeOpcode, BeforeDisp, BeforeImm, MAX_PREFIX_LENGTH, DecoderTypeOK, Field
  <2>5. flags' \subseteq PrefixByte
    BY <1>1, <1>2, <2>1 DEF DecoderTypeOK
  <2>6. DecoderTypeOK'
    BY <1>1, <2>1, <2>2, <2>3, <2>5 DEF DecoderTypeOK, fetchvars
  <2>7. PrefixShape' /\ OpcodeShape' /\ AddressShape' /\ DispShape'
    BY <1>1, <2>1, <2>3, <2>4 DEF PrefixShape, OpcodeShape,
       AddressShape, DispShape, BeforeOpcode, BeforeDisp, BeforeImm
  <2>8. ImmShape'
    BY <1>1, <2>1 DEF Shape, ImmShape, BeforeOpcode, BeforeDisp, BeforeImm
  <2>9. Contents'
    <3>1. Piece(0, 0)'
      <4>1. \A k \in 1..Len(field'[0]) : field'[0][k] = encoded_instr(0 + k - 1)
        BY <1>1, <2>3, <2>4 DEF Contents
      <4> QED
        BY <2>2, <4>1 DEF Piece, encoded_instr
    <3>2. /\ Len(field'[1]) = 0 /\ Len(field'[2]) = 0
          /\ Len(field'[3]) = 0 /\ Len(field'[4]) = 0
      BY <2>3, <2>4
    <3> QED
      BY <3>1, <3>2 DEF Contents, Piece
  <2>10. ImmediateContents'
    BY <1>1, <2>1 DEF ImmediateContents, BeforeOpcode, BeforeDisp, BeforeImm
  <2> QED
    BY <2>2, <2>6, <2>7, <2>8, <2>9, <2>10 DEF IInv, Shape
<1>3. CASE ~(byte_p < MAX_PREFIX_LENGTH /\ encoded_instr(byte_p) \in PrefixByte)
  <2>1. stage' = "opcode" /\ UNCHANGED <<flags, field, byte_p>>
    BY <1>3 DEF DecodePrefix
  <2>2. UnpackInv' /\ queue' = queue
    BY <1>1, <2>1, QueueKept
  <2>3. DecoderTypeOK'
    BY <1>1, <2>1, <2>2 DEF DecoderTypeOK, fetchvars, Stage
  <2>4. PrefixShape' /\ OpcodeShape' /\ AddressShape' /\ DispShape'
    BY <1>1, <2>1 DEF Shape, PrefixShape, OpcodeShape,
       AddressShape, DispShape, BeforeOpcode, BeforeDisp, BeforeImm
  <2>5. ImmShape'
    BY <1>1, <2>1 DEF Shape, ImmShape, BeforeOpcode, BeforeDisp, BeforeImm
  <2>6. Contents'
    BY <1>1, <2>1, <2>2 DEF Contents, Piece, encoded_instr
  <2>7. ImmediateContents'
    BY <1>1, <2>1 DEF ImmediateContents, BeforeOpcode, BeforeDisp, BeforeImm
  <2> QED
    BY <2>2, <2>3, <2>4, <2>5, <2>6, <2>7 DEF IInv, Shape
<1> QED
  BY <1>2, <1>3

(* decode_opcode keeps it.                                                  *)
LEMMA DecodeOpcodeInv == IInv /\ DecodeOpcode => IInv'
<1> SUFFICES ASSUME IInv, DecodeOpcode PROVE IInv'
  OBVIOUS
<1>1. /\ DecoderTypeOK /\ Shape /\ Contents
      /\ stage = "opcode" /\ UNCHANGED <<memory, fetchvars>>
      /\ UNCHANGED <<return_p, flags, immediate, immediate_length, overrun>>
      /\ UNCHANGED total_length
  BY DEF DecodeOpcode, IInv, immvars
<1>2. CASE encoded_instr(byte_p) # MULT_BYTE_FLAG
  <2>1. /\ stage' = "modrm" /\ opcode_id' = single_byte_opcode_lut(encoded_instr(byte_p))
        /\ field' = [field EXCEPT ![1] = @ \o Upcoming(1)]
        /\ byte_p' = byte_p + 1
    BY <1>2 DEF DecodeOpcode, PutBytes, FIELD_OPCODE
  <2>2. UnpackInv' /\ queue' = queue
    BY <1>1, <2>1, QueueKept
  <2>3. /\ field' \in [Field -> Seq(CodeByte)] /\ byte_p' \in Nat
        /\ field'[0] = field[0] /\ field'[2] = field[2]
        /\ field'[3] = field[3] /\ field'[4] = field[4]
        /\ Len(field'[1]) = Len(field[1]) + 1
        /\ \A from \in Nat : Piece(1, from) /\ byte_p = from + Len(field[1]) =>
             \A k \in 1..Len(field'[1]) : field'[1][k] = encoded_instr(from + k - 1)
    <3>1. 0 \in Field /\ 1 \in Field /\ 2 \in Field /\ 3 \in Field /\ 4 \in Field
      BY DEF Field
    <3>2. \A g \in Field : g # 1 => field'[g] = field[g]
      BY <1>1, <2>1, <3>1, PutBytesEffect
    <3>3. /\ field' \in [Field -> Seq(CodeByte)] /\ byte_p' \in Nat
          /\ Len(field'[1]) = Len(field[1]) + 1
      BY <1>1, <2>1, <3>1, PutBytesEffect
    <3>4. \A from \in Nat : Piece(1, from) /\ byte_p = from + Len(field[1]) =>
            \A k \in 1..Len(field'[1]) : field'[1][k] = encoded_instr(from + k - 1)
      BY <1>1, <2>1, <3>1, PutBytesEffect
    <3> QED
      BY <3>1, <3>2, <3>3, <3>4
  <2>4. byte_p = Len(field[0]) /\ Len(field[0]) <= 4 /\ Len(field[0]) \in Nat
        /\ Len(field[1]) = 0 /\ Len(field[2]) = 0 /\ Len(field[3]) = 0
        /\ Len(field[4]) = 0
    BY <1>1 DEF Shape, PrefixShape, OpcodeShape, AddressShape, DispShape,
       BeforeOpcode, BeforeDisp, BeforeImm, DecoderTypeOK, Field
  <2>5. \A k \in 1..Len(field'[1]) : field'[1][k] = encoded_instr(Len(field[0]) + k - 1)
    BY <1>1, <2>3, <2>4 DEF Contents
  <2>6. opcode_id' = single_byte_opcode_lut(field'[1][1])
    <3>1. 1 \in 1..Len(field'[1]) /\ Len(field[0]) + 1 - 1 = byte_p
      BY <2>3, <2>4
    <3>2. field'[1][1] = encoded_instr(byte_p)
      BY <2>5, <3>1
    <3> QED
      BY <2>1, <3>2
  <2>7. DecoderTypeOK'
    <3>1. encoded_instr(byte_p) \in CodeByte
      BY <1>1, EncodedType DEF DecoderTypeOK
    <3>2. opcode_id' \in OpcodeByte
      BY <2>1, <3>1, LookupType
    <3>3. stage' \in Stage
      BY <2>1 DEF Stage
    <3> QED
      BY <1>1, <2>2, <2>3, <3>2, <3>3 DEF DecoderTypeOK, fetchvars
  <2>8. PrefixShape' /\ AddressShape' /\ DispShape'
    BY <1>1, <2>1, <2>3, <2>4 DEF PrefixShape, AddressShape, DispShape,
       BeforeOpcode, BeforeDisp, BeforeImm
  <2>9. OpcodeShape'
    BY <2>1, <2>3, <2>4, <2>6 DEF OpcodeShape, BeforeOpcode
  <2>10. ImmShape'
    BY <1>1, <2>1 DEF Shape, ImmShape, BeforeOpcode, BeforeDisp, BeforeImm
  <2>11. Contents'
    <3>1. Piece(0, 0)'
      BY <1>1, <2>2, <2>3 DEF Contents, Piece, encoded_instr
    <3>2. Piece(1, Len(field[0]))'
      BY <2>2, <2>3, <2>5 DEF Piece, encoded_instr
    <3>3. Len(field'[2]) = 0 /\ Len(field'[3]) = 0 /\ Len(field'[4]) = 0
      BY <2>3, <2>4
    <3> QED
      BY <3>1, <3>2, <3>3 DEF Contents, Piece
  <2>12. ImmediateContents'
    BY <2>1 DEF ImmediateContents, BeforeOpcode, BeforeDisp, BeforeImm
  <2> QED
    BY <2>2, <2>7, <2>8, <2>9, <2>10, <2>11, <2>12 DEF IInv, Shape
<1>3. CASE encoded_instr(byte_p) = MULT_BYTE_FLAG
  <2>1. UNCHANGED <<field, byte_p, opcode_id, stage>>
    BY <1>3 DEF DecodeOpcode
  <2>2. UNCHANGED vars
    BY <1>1, <2>1 DEF vars, cursorvars, immvars
  <2> QED
    BY <2>2, StutterInv
<1> QED
  BY <1>2, <1>3

(* decode_modrm, with decode_sib, keeps it.                                 *)
LEMMA DecodeModrmInv == IInv /\ DecodeModrm => IInv'
<1> SUFFICES ASSUME IInv, DecodeModrm PROVE IInv'
  OBVIOUS
<1>1. /\ DecoderTypeOK /\ Shape /\ Contents
      /\ stage = "modrm" /\ stage' = "disp" /\ UNCHANGED <<memory, fetchvars>>
      /\ UNCHANGED <<return_p, flags, opcode_id, immediate, immediate_length>>
      /\ UNCHANGED <<total_length, overrun>>
  BY DEF DecodeModrm, IInv, immvars
<1>2. UnpackInv' /\ queue' = queue
  BY <1>1, QueueKept
<1>3. byte_p = Len(field[0]) + 1 /\ Len(field[0]) \in Nat
      /\ Len(field[1]) = 1 /\ Len(field[2]) = 0 /\ Len(field[3]) = 0
      /\ Len(field[4]) = 0
  BY <1>1 DEF Shape, OpcodeShape, AddressShape, DispShape,
     BeforeOpcode, BeforeDisp, BeforeImm, DecoderTypeOK, Field
<1>4. PrefixShape /\ OpcodeShape /\ ImmShape
  BY <1>1 DEF Shape
<1>5. CASE HasModrm(opcode_id)
  <2> DEFINE m == encoded_instr(byte_p)
             sib == IF NeedsSib(m) THEN 1 ELSE 0
  <2>1. /\ field' = [field EXCEPT ![2] = <<m>>,
                        ![3] = IF sib = 1 THEN <<encoded_instr(byte_p + 1)>> ELSE <<>>]
        /\ byte_p' = byte_p + 1 + sib
    BY <1>5 DEF DecodeModrm, FIELD_MODRM, FIELD_SIB
  <2>2. m \in CodeByte /\ encoded_instr(byte_p + 1) \in CodeByte /\ sib \in {0, 1}
    BY <1>1, EncodedType DEF DecoderTypeOK
  <2> HIDE DEF m
  <2>3. /\ field'[0] = field[0] /\ field'[1] = field[1] /\ field'[4] = field[4]
        /\ field'[2] = <<m>>
        /\ field'[3] = IF sib = 1 THEN <<encoded_instr(byte_p + 1)>> ELSE <<>>
    BY <1>1, <2>1 DEF DecoderTypeOK, Field
  <2>4. field' \in [Field -> Seq(CodeByte)]
    <3> DEFINE t == IF sib = 1 THEN <<encoded_instr(byte_p + 1)>> ELSE <<>>
    <3>1. <<m>> \in Seq(CodeByte) /\ t \in Seq(CodeByte)
      BY <2>2
    <3>2. field' = [field EXCEPT ![2] = <<m>>, ![3] = t]
      BY <2>1
    <3> HIDE DEF t
    <3> QED
      BY <1>1, <3>1, <3>2 DEF DecoderTypeOK
  <2>5. DecoderTypeOK'
    <3>1. byte_p' \in Nat /\ stage' \in Stage
      BY <1>1, <2>1, <2>2 DEF DecoderTypeOK, Stage
    <3> QED
      BY <1>1, <1>2, <2>4, <3>1 DEF DecoderTypeOK, fetchvars
  <2>6. Len(field'[2]) = 1 /\ field'[2][1] = m
        /\ Len(field'[3]) = IF NeedsSib(m) THEN 1 ELSE 0
    BY <2>3
  <2>7. PrefixShape' /\ OpcodeShape'
    BY <1>1, <1>4, <2>3 DEF PrefixShape, OpcodeShape, BeforeOpcode
  <2>8. AddressShape'
    BY <1>1, <1>3, <1>5, <2>1, <2>3, <2>6 DEF AddressShape, BeforeOpcode, BeforeDisp
  <2>9. DispShape' /\ ImmShape'
    BY <1>1, <1>3, <1>4, <2>3 DEF DispShape, ImmShape, BeforeOpcode, BeforeDisp, BeforeImm
  <2>10. Contents'
    <3>0. /\ Len(field'[0]) = Len(field[0]) /\ Len(field'[1]) = 1
          /\ Len(field'[2]) = 1 /\ Len(field'[4]) = 0
      BY <1>3, <2>3, <2>6
    <3>1. Piece(0, 0)' /\ Piece(1, Len(field[0]))'
      BY <1>1, <1>2, <2>3 DEF Contents, Piece, encoded_instr
    <3>2. Piece(2, Len(field[0]) + Len(field[1]))'
      <4>1. \A k \in 1..Len(field'[2]) : k = 1
        BY <2>6
      <4>2. field'[2][1] = encoded_instr(Len(field'[0]) + Len(field'[1]) + 1 - 1)
        <5>1. Len(field'[0]) + Len(field'[1]) + 1 - 1 = byte_p
          BY <1>3, <3>0
        <5>2. field'[2][1] = encoded_instr(byte_p)
          BY <2>6 DEF m
        <5> QED
          BY <5>1, <5>2
      <4> QED
        BY <1>2, <4>1, <4>2 DEF Piece, encoded_instr
    <3>3. Piece(3, Len(field[0]) + Len(field[1]) + Len(field[2]))'
      <4>1. CASE sib = 1
        <5>1. \A k \in 1..Len(field'[3]) : k = 1
          BY <2>3, <4>1
        <5>2. Len(field'[0]) + Len(field'[1]) + Len(field'[2]) + 1 - 1 = byte_p + 1
          BY <1>3, <3>0
        <5>3. field'[3][1] = encoded_instr(byte_p + 1)
          BY <2>3, <4>1
        <5> QED
          BY <1>2, <5>1, <5>2, <5>3 DEF Piece, encoded_instr
      <4>2. CASE sib # 1
        <5>1. Len(field'[3]) = 0
          BY <2>3, <4>2
        <5> QED
          BY <5>1 DEF Piece
      <4> QED
        BY <4>1, <4>2
    <3>4. Piece(4, Len(field[0]) + Len(field[1]) + Len(field[2]) + Len(field[3]))'
      BY <3>0 DEF Piece
    <3> QED
      BY <3>1, <3>2, <3>3, <3>4 DEF Contents
  <2>11. ImmediateContents'
    BY <1>1 DEF ImmediateContents, BeforeOpcode, BeforeDisp, BeforeImm
  <2> QED
    BY <1>2, <2>5, <2>7, <2>8, <2>9, <2>10, <2>11 DEF IInv, Shape
<1>6. CASE ~HasModrm(opcode_id)
  <2>1. UNCHANGED <<field, byte_p>>
    BY <1>6 DEF DecodeModrm
  <2>2. DecoderTypeOK'
    BY <1>1, <1>2, <2>1 DEF DecoderTypeOK, fetchvars, Stage
  <2>3. PrefixShape' /\ OpcodeShape' /\ AddressShape'
    <3>1. PrefixShape' /\ OpcodeShape'
      BY <1>1, <1>4, <2>1 DEF PrefixShape, OpcodeShape, BeforeOpcode
    <3>2. ~HasModrm(opcode_id')
      BY <1>1, <1>6
    <3>3. Len(field'[2]) = 0 /\ Len(field'[3]) = 0
          /\ byte_p' = Len(field'[0]) + 1 + Len(field'[2]) + Len(field'[3])
      <4>1. field' = field /\ byte_p' = byte_p
        BY <2>1
      <4>2. byte_p = Len(field[0]) + 1 + Len(field[2]) + Len(field[3])
        BY <1>3
      <4> QED
        BY <1>3, <4>1, <4>2
    <3> QED
      BY <3>1, <3>2, <3>3 DEF AddressShape
  <2>4. DispShape' /\ ImmShape'
    BY <1>1, <1>3, <1>4, <2>1 DEF DispShape, ImmShape, BeforeOpcode, BeforeDisp, BeforeImm
  <2>5. Contents'
    BY <1>1, <1>2, <2>1 DEF Contents, Piece, encoded_instr
  <2>6. ImmediateContents'
    BY <1>1 DEF ImmediateContents, BeforeOpcode, BeforeDisp, BeforeImm
  <2> QED
    BY <1>2, <2>2, <2>3, <2>4, <2>5, <2>6 DEF IInv, Shape
<1> QED
  BY <1>5, <1>6

(* decode_disp keeps it.                                                    *)
LEMMA DecodeDispInv == IInv /\ DecodeDisp => IInv'
<1> SUFFICES ASSUME IInv, DecodeDisp PROVE IInv'
  OBVIOUS
<1> DEFINE n == IF HasModrm(opcode_id)
                THEN DispLength(field[2][1], field[3]) ELSE 0
<1>1. /\ DecoderTypeOK /\ Shape /\ Contents
      /\ stage = "disp" /\ stage' = "imm" /\ UNCHANGED <<memory, fetchvars>>
      /\ UNCHANGED <<flags, opcode_id, immediate, immediate_length>>
      /\ UNCHANGED <<total_length, overrun>>
      /\ return_p' = byte_p + n
      /\ field' = [field EXCEPT ![4] = @ \o Upcoming(n)]
      /\ byte_p' = byte_p + n
  BY DEF DecodeDisp, IInv, immvars, PutBytes, FIELD_DISPLACEMENT, FIELD_MODRM,
     FIELD_SIB
<1>2. UnpackInv' /\ queue' = queue
  BY <1>1, QueueKept
<1>3. n \in {0, 1, 4}
  BY DEF DispLength
<1>4. /\ byte_p = Len(field[0]) + 1 + Len(field[2]) + Len(field[3])
      /\ Len(field[4]) = 0 /\ Len(field[1]) = 1
      /\ Len(field[0]) \in Nat /\ Len(field[2]) \in Nat /\ Len(field[3]) \in Nat
  BY <1>1 DEF Shape, OpcodeShape, AddressShape, DispShape,
     BeforeOpcode, BeforeDisp, BeforeImm, DecoderTypeOK, Field
<1>5. PrefixShape /\ OpcodeShape /\ AddressShape /\ ImmShape
  BY <1>1 DEF Shape
<1> HIDE DEF n
<1>6. 0 \in Field /\ 1 \in Field /\ 2 \in Field /\ 3 \in Field /\ 4 \in Field
      /\ n \in Nat
  BY <1>3 DEF Field
<1>7. \A g \in Field : g # 4 => field'[g] = field[g]
  BY <1>1, <1>6, PutBytesEffect
<1>8. /\ field' \in [Field -> Seq(CodeByte)] /\ byte_p' \in Nat
      /\ Len(field'[4]) = Len(field[4]) + n
  BY <1>1, <1>6, PutBytesEffect
<1>9. \A from \in Nat : Piece(4, from) /\ byte_p = from + Len(field[4]) =>
        \A k \in 1..Len(field'[4]) : field'[4][k] = encoded_instr(from + k - 1)
  BY <1>1, <1>6, PutBytesEffect
<1>10. /\ field'[0] = field[0] /\ field'[1] = field[1]
       /\ field'[2] = field[2] /\ field'[3] = field[3]
       /\ Len(field'[4]) = n
  BY <1>3, <1>4, <1>6, <1>7, <1>8
<1>11. DecoderTypeOK'
  <2>1. return_p' \in Nat /\ stage' \in Stage
    BY <1>1, <1>8 DEF Stage
  <2> QED
    BY <1>1, <1>2, <1>8, <2>1 DEF DecoderTypeOK, fetchvars
<1>12. PrefixShape' /\ OpcodeShape' /\ AddressShape'
  BY <1>1, <1>5, <1>10 DEF PrefixShape, OpcodeShape, AddressShape,
     BeforeOpcode, BeforeDisp
<1>13. DispShape'
  <2>1. Len(field'[4]) =
          IF HasModrm(opcode_id') THEN DispLength(field'[2][1], field'[3]) ELSE 0
    BY <1>1, <1>10 DEF n
  <2>2. return_p' = Len(field[0]) + 1 + Len(field[2]) + Len(field[3]) + n
    BY <1>1, <1>4
  <2>3. return_p' = Len(field'[0]) + 1 + Len(field'[2]) + Len(field'[3]) + Len(field'[4])
    BY <1>10, <2>2
  <2>4. ~BeforeImm'
    BY <1>1 DEF BeforeImm, BeforeDisp, BeforeOpcode
  <2> QED
    BY <2>1, <2>3, <2>4 DEF DispShape
<1>14. ImmShape'
  <2>1. opcode_id \in OpcodeByte /\ byte_p \in Nat
    BY <1>1 DEF DecoderTypeOK
  <2>2. ImmediateBytes(opcode_id') \in 0..6
    BY <1>1, <2>1, ImmediateSizes
  <2>3. immediate_length' = 0 /\ ~overrun'
    BY <1>1, <1>5 DEF ImmShape, BeforeOpcode, BeforeDisp, BeforeImm
  <2>4. return_p' = byte_p' /\ byte_p' \in Nat
    BY <1>1, <1>8
  <2> QED
    BY <1>1, <2>2, <2>3, <2>4 DEF ImmShape, BeforeOpcode, BeforeDisp, BeforeImm
<1>15. Contents'
  <2>1. Piece(0, 0)' /\ Piece(1, Len(field[0]))'
        /\ Piece(2, Len(field[0]) + Len(field[1]))'
        /\ Piece(3, Len(field[0]) + Len(field[1]) + Len(field[2]))'
    <3>1. Piece(0, 0)'
      BY <1>1, <1>2, <1>10 DEF Contents, Piece, encoded_instr
    <3>2. \A x : encoded_instr(x)' = encoded_instr(x)
      BY <1>1, <1>2 DEF encoded_instr
    <3>3. Piece(1, Len(field[0]))'
      BY <1>1, <1>10, <3>2 DEF Contents, Piece
    <3>4. Piece(2, Len(field[0]) + Len(field[1]))'
      BY <1>1, <1>10, <3>2 DEF Contents, Piece
    <3>5. Piece(3, Len(field[0]) + Len(field[1]) + Len(field[2]))'
      BY <1>1, <1>10, <3>2 DEF Contents, Piece
    <3> QED
      BY <3>1, <3>3, <3>4, <3>5
  <2> DEFINE from == Len(field[0]) + Len(field[1]) + Len(field[2]) + Len(field[3])
  <2>2. from \in Nat /\ byte_p = from + Len(field[4]) /\ Piece(4, from)
    <3>1. from \in Nat /\ byte_p = from + Len(field[4])
      <4>1. from = Len(field[0]) + 1 + Len(field[2]) + Len(field[3])
        BY <1>4
      <4>2. \A a, c, d \in Nat : a + 1 + c + d \in Nat
                                 /\ a + 1 + c + d = a + 1 + c + d + 0
        OBVIOUS
      <4> HIDE DEF from
      <4>3. from \in Nat /\ from = from + 0
        <5>1. \A x \in Nat : x + 0 = x
          OBVIOUS
        <5>2. from \in Nat
          BY <1>4, <4>1, <4>2
        <5> QED
          BY <5>1, <5>2
      <4> QED
        BY <1>4, <4>1, <4>3
    <3> QED
      BY <1>1, <3>1 DEF Contents
  <2>3. \A k \in 1..Len(field'[4]) : field'[4][k] = encoded_instr(from + k - 1)
    BY <1>9, <2>2
  <2>4. Piece(4, Len(field[0]) + Len(field[1]) + Len(field[2]) + Len(field[3]))'
    BY <1>2, <1>10, <2>3 DEF Piece, encoded_instr
  <2> QED
    BY <2>1, <2>4 DEF Contents
<1>16. ImmediateContents'
  <2>1. immediate_length' = 0
    BY <1>1, <1>5 DEF ImmShape, BeforeOpcode, BeforeDisp, BeforeImm
  <2> QED
    BY <2>1 DEF ImmediateContents
<1> QED
  BY <1>2, <1>11, <1>12, <1>13, <1>14, <1>15, <1>16 DEF IInv, Shape

(* One byte of decode_imm keeps it.                                         *)
LEMMA DecodeImmInv == IInv /\ DecodeImm => IInv'
<1> SUFFICES ASSUME IInv, DecodeImm PROVE IInv'
  OBVIOUS
<1> DEFINE b == encoded_instr(byte_p)
<1>1. /\ DecoderTypeOK /\ Shape /\ Contents /\ ImmediateContents
      /\ stage = "imm" /\ stage' = "imm" /\ UNCHANGED <<memory, fetchvars>>
      /\ UNCHANGED <<flags, opcode_id, return_p, field>>
      /\ byte_p < ImmediateBytes(opcode_id) + return_p
      /\ byte_p' = byte_p + 1
      /\ PutImmediate(b)
  BY DEF DecodeImm, IInv
<1>2. UnpackInv' /\ queue' = queue
  BY <1>1, QueueKept
<1>3. b \in CodeByte /\ byte_p \in Nat /\ return_p \in Nat
  BY <1>1, EncodedType DEF DecoderTypeOK
<1>4. opcode_id \in OpcodeByte /\ immediate_length \in CodeByte
  BY <1>1 DEF DecoderTypeOK
<1>5. ImmediateBytes(opcode_id) \in 0..6
  BY <1>4, ImmediateSizes
<1>6. PrefixShape /\ OpcodeShape /\ AddressShape /\ DispShape /\ ImmShape
  BY <1>1 DEF Shape
<1> HIDE DEF b
<1>7. DecoderTypeOK'
  <2>1. immediate' \in [0..3 -> CodeByte]
    BY <1>1, <1>3, <1>4 DEF PutImmediate, DecoderTypeOK
  <2>2. immediate_length' \in CodeByte /\ total_length' \in CodeByte
    <3>1. /\ \/ immediate_length' = (immediate_length + 1) % 256
             \/ immediate_length' = b
          /\ total_length' = IF immediate_length = 5 THEN b ELSE total_length
      BY <1>1 DEF PutImmediate
    <3>2. total_length \in CodeByte
      BY <1>1 DEF DecoderTypeOK
    <3>3. (immediate_length + 1) % 256 \in CodeByte
      BY <1>4 DEF CodeByte
    <3> QED
      BY <1>3, <3>1, <3>2, <3>3
  <2>3. overrun' \in BOOLEAN
    BY <1>1 DEF PutImmediate
  <2>4. byte_p' \in Nat
    BY <1>1, <1>3
  <2> QED
    BY <1>1, <1>2, <2>1, <2>2, <2>3, <2>4 DEF DecoderTypeOK, fetchvars
<1>8. ASSUME ImmediateBytes(opcode_id) <= 4
      PROVE  /\ byte_p = return_p + immediate_length /\ immediate_length < 4
             /\ immediate_length' = immediate_length + 1 /\ ~overrun'
             /\ immediate' = [immediate EXCEPT ![immediate_length] = b]
  <2>1. byte_p = return_p + immediate_length /\ ~overrun
    BY <1>1, <1>6, <1>8 DEF ImmShape, BeforeOpcode, BeforeDisp, BeforeImm
  <2>2. immediate_length < 4 /\ immediate_length \in Nat
    BY <1>1, <1>3, <1>4, <1>5, <1>8, <2>1 DEF CodeByte
  <2>3. immediate_length' = immediate_length + 1
    BY <1>1, <2>2 DEF PutImmediate
  <2>4. ~overrun'
    <3>1. ~(immediate_length > 5)
      BY <2>2
    <3>2. overrun' = (overrun \/ immediate_length > 5)
      BY <1>1 DEF PutImmediate
    <3> QED
      BY Zenon, <2>1, <3>1, <3>2
  <2>5. immediate' = [immediate EXCEPT ![immediate_length] = b]
    BY <1>1, <2>2 DEF PutImmediate
  <2> QED
    BY <2>1, <2>2, <2>3, <2>4, <2>5
<1>9. PrefixShape' /\ OpcodeShape' /\ AddressShape' /\ DispShape'
  <2>1. PrefixShape' /\ OpcodeShape'
    BY <1>1, <1>6 DEF PrefixShape, OpcodeShape, BeforeOpcode
  <2>2. AddressShape'
    BY <1>1, <1>6 DEF AddressShape, BeforeOpcode, BeforeDisp
  <2>3. DispShape'
    BY <1>1, <1>6 DEF DispShape, BeforeOpcode, BeforeDisp, BeforeImm
  <2> QED
    BY <2>1, <2>2, <2>3
<1>10. ImmShape'
  <2>1. return_p <= byte_p
    BY <1>1, <1>6 DEF ImmShape, BeforeOpcode, BeforeDisp, BeforeImm
  <2>2. return_p' <= byte_p' /\ byte_p' <= return_p' + ImmediateBytes(opcode_id')
    BY <1>1, <1>3, <1>5, <2>1
  <2>3. ImmediateBytes(opcode_id') <= 4 =>
          ~overrun' /\ byte_p' = return_p' + immediate_length'
    <3>1. ImmediateBytes(opcode_id') = ImmediateBytes(opcode_id)
      BY <1>1
    <3>2. ImmediateBytes(opcode_id) <= 4 =>
            byte_p' = return_p' + immediate_length'
      BY <1>1, <1>3, <1>4, <1>8 DEF CodeByte
    <3> QED
      BY <1>8, <3>1, <3>2
  <2> QED
    BY <1>1, <2>2, <2>3 DEF ImmShape, BeforeOpcode, BeforeDisp, BeforeImm
<1>11. Contents'
  BY <1>1, <1>2 DEF Contents, Piece, encoded_instr
<1>12. ImmediateContents'
  <2> SUFFICES ASSUME ImmediateBytes(opcode_id) <= 4, NEW k \in 0..3,
                      k < immediate_length'
               PROVE  immediate'[k] = encoded_instr(return_p + k)'
    BY <1>1 DEF ImmediateContents
  <2>1. immediate \in [0..3 -> CodeByte]
    BY <1>1 DEF DecoderTypeOK
  <2>2. CASE k = immediate_length
    <3>1. immediate'[k] = encoded_instr(return_p + k)
      BY <1>8, <2>1, <2>2 DEF b
    <3> QED
      BY <1>1, <1>2, <3>1 DEF encoded_instr
  <2>3. CASE k # immediate_length
    <3>1. k < immediate_length
      BY <1>4, <1>8, <2>3 DEF CodeByte
    <3>2. immediate'[k] = immediate[k]
      BY <1>8, <2>1, <2>3
    <3>3. immediate[k] = encoded_instr(return_p + k)
      BY <1>1, <3>1 DEF ImmediateContents, BeforeOpcode, BeforeDisp, BeforeImm
    <3> QED
      BY <1>1, <1>2, <3>2, <3>3 DEF encoded_instr
  <2> QED
    BY <2>2, <2>3
<1> QED
  BY <1>2, <1>7, <1>9, <1>10, <1>11, <1>12 DEF IInv, Shape

(* The sum of the lengths at the end of decoder keeps it.                   *)
LEMMA FinishInv == IInv /\ Finish => IInv'
<1> SUFFICES ASSUME IInv, Finish PROVE IInv'
  OBVIOUS
<1>1. /\ DecoderTypeOK /\ Shape /\ Contents /\ ImmediateContents
      /\ stage = "imm" /\ stage' = "done" /\ UNCHANGED <<memory, fetchvars>>
      /\ UNCHANGED <<flags, opcode_id, return_p, field, byte_p>>
      /\ UNCHANGED <<immediate, immediate_length, overrun>>
      /\ byte_p >= ImmediateBytes(opcode_id) + return_p
      /\ total_length' = (Lengths + immediate_length) % 256
  BY DEF Finish, IInv, cursorvars, immvars
<1>2. UnpackInv' /\ queue' = queue
  BY <1>1, QueueKept
<1>3. PrefixShape /\ OpcodeShape /\ AddressShape /\ DispShape /\ ImmShape
  BY <1>1 DEF Shape
<1>4. /\ byte_p \in Nat /\ return_p \in Nat /\ opcode_id \in OpcodeByte
      /\ immediate_length \in Nat
      /\ Len(field[0]) \in Nat /\ Len(field[1]) \in Nat /\ Len(field[2]) \in Nat
      /\ Len(field[3]) \in Nat /\ Len(field[4]) \in Nat
  <2>1. /\ byte_p \in Nat /\ return_p \in Nat /\ opcode_id \in OpcodeByte
        /\ immediate_length \in Nat
    BY <1>1 DEF DecoderTypeOK, CodeByte
  <2>2. field \in [Field -> Seq(CodeByte)]
    BY <1>1 DEF DecoderTypeOK
  <2>3. \A f \in Field : Len(field[f]) \in Nat
    BY ONLY <2>2
  <2>4. {0, 1, 2, 3, 4} \subseteq Field
    BY DEF Field
  <2> QED
    BY ONLY <2>1, <2>3, <2>4
<1>5. ImmediateBytes(opcode_id) \in 0..6
  BY <1>4, ImmediateSizes
<1>6. Lengths \in Nat
  <2>1. Lengths = Len(field[0]) + Len(field[1]) + Len(field[2]) + Len(field[3])
                    + Len(field[4])
    BY DEF Lengths, FIELD_PREFIX, FIELD_OPCODE, FIELD_MODRM, FIELD_SIB,
       FIELD_DISPLACEMENT
  <2>2. \A x, y, z, u, v \in Nat : x + y + z + u + v \in Nat
    OBVIOUS
  <2> QED
    BY <1>4, <2>1, <2>2
<1>7. DecoderTypeOK'
  <2>1. total_length' \in CodeByte
    <3>1. \A x, y \in Nat : (x + y) % 256 \in CodeByte
      BY DEF CodeByte
    <3> QED
      BY ONLY <1>1, <1>4, <1>6, <3>1, Zenon
  <2>2. stage' \in Stage
    BY <1>1 DEF Stage
  <2> QED
    BY <1>1, <1>2, <2>1, <2>2 DEF DecoderTypeOK, fetchvars
<1>8. PrefixShape' /\ OpcodeShape' /\ AddressShape' /\ DispShape'
  <2>1. PrefixShape' /\ OpcodeShape'
    BY <1>1, <1>3 DEF PrefixShape, OpcodeShape, BeforeOpcode
  <2>2. AddressShape'
    BY <1>1, <1>3 DEF AddressShape, BeforeOpcode, BeforeDisp
  <2>3. DispShape'
    BY <1>1, <1>3 DEF DispShape, BeforeOpcode, BeforeDisp, BeforeImm
  <2> QED
    BY <2>1, <2>2, <2>3
<1>9. ImmShape'
  <2>1. return_p <= byte_p /\ byte_p <= return_p + ImmediateBytes(opcode_id)
    BY <1>1, <1>3 DEF ImmShape, BeforeOpcode, BeforeDisp, BeforeImm
  <2>2. ImmediateBytes(opcode_id) <= 4 =>
          ~overrun /\ byte_p = return_p + immediate_length
    BY <1>1, <1>3 DEF ImmShape, BeforeOpcode, BeforeDisp, BeforeImm
  <2>3. byte_p = return_p + ImmediateBytes(opcode_id)
    BY <1>1, <1>4, <1>5, <2>1
  <2>4. Lengths' = Lengths
    BY <1>1 DEF Lengths
  <2>5. ImmediateBytes(opcode_id') <= 4 => ~overrun'
    BY <1>1, <2>2
  <2>6. /\ return_p' <= byte_p' /\ byte_p' <= return_p' + ImmediateBytes(opcode_id')
        /\ ImmediateBytes(opcode_id') <= 4 => byte_p' = return_p' + immediate_length'
        /\ byte_p' = return_p' + ImmediateBytes(opcode_id')
        /\ total_length' = (Lengths' + immediate_length') % 256
    BY <1>1, <2>1, <2>2, <2>3, <2>4
  <2> QED
    BY <1>1, <2>5, <2>6 DEF ImmShape, BeforeOpcode, BeforeDisp, BeforeImm
<1>10. Contents'
  BY <1>1, <1>2 DEF Contents, Piece, encoded_instr
<1>11. ImmediateContents'
  BY <1>1, <1>2 DEF ImmediateContents, BeforeOpcode, BeforeDisp, BeforeImm,
     encoded_instr
<1> QED
  BY <1>2, <1>7, <1>8, <1>9, <1>10, <1>11 DEF IInv, Shape

-----------------------------------------------------------------------------
(* The theorems. *)

(* The invariant holds throughout.                                          *)
LEMMA DecoderInductive == Spec => []IInv
<1>1. Init => IInv
  BY InitInv
<1>2. IInv /\ [Next]_vars => IInv'
  <2> SUFFICES ASSUME IInv, [Next]_vars PROVE IInv'
    OBVIOUS
  <2>1. CASE UnpackByte
    BY <2>1, UnpackByteInv
  <2>2. CASE Unpacked
    BY <2>2, UnpackedInv
  <2>3. CASE DecodePrefix
    BY <2>3, DecodePrefixInv
  <2>4. CASE DecodeOpcode
    BY <2>4, DecodeOpcodeInv
  <2>5. CASE DecodeModrm
    BY <2>5, DecodeModrmInv
  <2>6. CASE DecodeDisp
    BY <2>6, DecodeDispInv
  <2>7. CASE DecodeImm
    BY <2>7, DecodeImmInv
  <2>8. CASE Finish
    BY <2>8, FinishInv
  <2>9. CASE Decoded
    BY <2>9, StutterInv DEF Decoded
  <2>10. CASE UNCHANGED vars
    BY <2>10, StutterInv
  <2> QED
    BY <2>1, <2>2, <2>3, <2>4, <2>5, <2>6, <2>7, <2>8, <2>9, <2>10 DEF Next
<1> QED
  BY <1>1, <1>2, PTL DEF Spec

(* The variables stay in their types: in particular the dword that         *)
(* to_byte_array reads is always one of the four.                          *)
THEOREM DecoderTypeCorrect == Spec => []DecoderTypeOK
<1>1. IInv => DecoderTypeOK
  BY DEF IInv
<1> QED
  BY <1>1, DecoderInductive, PTL

(* Whatever lies at EIP, the decoder is given it byte by byte in order.    *)
THEOREM QueueCorrect == Spec => []QueueIsMemory
<1>1. IInv => QueueIsMemory
  <2> SUFFICES ASSUME IInv, stage # "unpack" PROVE queue = memory
    BY DEF QueueIsMemory
  <2>1. queue \in [Position -> CodeByte] /\ memory \in [Position -> CodeByte]
    BY DEF IInv, DecoderTypeOK
  <2>2. byte_index = 16 /\ \A i \in Position : i < byte_index => queue[i] = memory[i]
    BY DEF IInv, UnpackInv
  <2>3. \A i \in Position : i < 16
    BY DEF Position, MAX_INSTR_LENGTH
  <2> QED
    BY <2>1, <2>2, <2>3
<1> QED
  BY <1>1, DecoderInductive, PTL

(* The lengths of the fields, as plain numbers. *)
LEMMA FieldLengths ==
  ASSUME IInv
  PROVE  /\ Len(field[0]) \in 0..4 /\ Len(field[1]) \in 0..1
         /\ Len(field[2]) \in 0..1 /\ Len(field[3]) \in 0..1
         /\ Len(field[4]) \in {0, 1, 4}
         /\ ImmediateBytes(opcode_id) \in 0..6
         /\ ImmediateBytes(opcode_id) <= 4 \/ (Len(field[2]) = 0 /\ Len(field[3]) = 0)
         /\ Len(field[4]) = 0 \/ HasModrm(opcode_id)
<1>1. opcode_id \in OpcodeByte /\ Len(field[0]) \in Nat
  BY DEF IInv, DecoderTypeOK, Field
<1>2. /\ ImmediateBytes(opcode_id) \in 0..6
      /\ HasModrm(opcode_id) => ImmediateBytes(opcode_id) <= 4
  BY <1>1, ImmediateSizes
<1>3. Len(field[0]) \in 0..4
  <2>1. Len(field[0]) <= 4
    BY DEF IInv, Shape, PrefixShape
  <2>2. \A n \in Nat : n <= 4 => n \in 0..4
    OBVIOUS
  <2> QED
    BY <1>1, <2>1, <2>2
<1>4. Len(field[1]) \in 0..1
  BY DEF IInv, Shape, OpcodeShape
<1>5. /\ Len(field[2]) \in 0..1 /\ Len(field[3]) \in 0..1
      /\ ~HasModrm(opcode_id) => Len(field[2]) = 0 /\ Len(field[3]) = 0
  BY DEF IInv, Shape, AddressShape
<1>6. Len(field[4]) \in {0, 1, 4} /\ (~HasModrm(opcode_id) => Len(field[4]) = 0)
  BY DEF IInv, Shape, DispShape, DispLength
<1> QED
  BY <1>2, <1>3, <1>4, <1>5, <1>6

(* The cursor never leaves the sixteen bytes that prefetch read: nothing   *)
(* in decoder.c tests it, the table's rows and the limit of four prefixes  *)
(* are what bounds it.                                                     *)
THEOREM CursorBound == Spec => []CursorWithinQueue
<1>1. IInv => CursorWithinQueue
  <2> SUFFICES ASSUME IInv PROVE byte_p <= 16
    BY DEF CursorWithinQueue, MAX_INSTR_LENGTH
  <2>1. byte_p \in Nat /\ return_p \in Nat
    BY DEF IInv, DecoderTypeOK
  <2> DEFINE a == Len(field[0])
             b == Len(field[2])
             c == Len(field[3])
             e == Len(field[4])
             i == ImmediateBytes(opcode_id)
  <2>0. /\ a \in 0..4 /\ b \in 0..1 /\ c \in 0..1 /\ e \in {0, 1, 4} /\ i \in 0..6
        /\ i <= 4 \/ (b = 0 /\ c = 0)
        /\ e = 0 \/ i <= 4
    BY FieldLengths, ImmediateSizes DEF IInv, DecoderTypeOK
  <2>2. CASE BeforeOpcode
    <3>1. byte_p = a
      BY <2>2 DEF IInv, Shape, PrefixShape
    <3> HIDE DEF a, b, c, e, i
    <3> QED
      BY <2>0, <3>1
  <2>3. CASE stage = "modrm"
    <3>1. byte_p = a + 1
      BY <2>3 DEF IInv, Shape, OpcodeShape
    <3> HIDE DEF a, b, c, e, i
    <3> QED
      BY <2>0, <3>1
  <2>4. CASE stage = "disp"
    <3>1. byte_p = a + 1 + b + c
      BY <2>4 DEF IInv, Shape, AddressShape
    <3> HIDE DEF a, b, c, e, i
    <3> QED
      BY <2>0, <3>1
  <2>5. CASE ~BeforeImm
    <3>1. byte_p <= return_p + i
      BY <2>5 DEF IInv, Shape, ImmShape
    <3>2. return_p = a + 1 + b + c + e
      BY <2>5 DEF IInv, Shape, DispShape
    <3> HIDE DEF a, b, c, e, i
    <3>3. CASE i <= 4
      <4>1. return_p <= 11
        BY <2>0, <3>2
      <4> QED
        BY <2>0, <2>1, <3>1, <3>3, <4>1
    <3>4. CASE ~(i <= 4)
      <4>1. return_p <= 5
        BY <2>0, <3>2, <3>4
      <4> QED
        BY <2>0, <2>1, <3>1, <4>1
    <3> QED
      BY <3>3, <3>4
  <2> QED
    BY <2>2, <2>3, <2>4, <2>5 DEF BeforeImm, BeforeDisp
<1> QED
  BY <1>1, DecoderInductive, PTL

(* A decoded instruction whose immediate fits: where EIP goes is where the *)
(* cursor stopped.                                                         *)
LEMMA LengthIsCursor ==
  ASSUME IInv, stage = "done", ImmediateBytes(opcode_id) <= 4
  PROVE  total_length = byte_p /\ ~overrun
<1>1. /\ byte_p = return_p + immediate_length /\ ~overrun
      /\ total_length = (Lengths + immediate_length) % 256
      /\ byte_p = return_p + ImmediateBytes(opcode_id)
  BY DEF IInv, Shape, ImmShape, BeforeOpcode, BeforeDisp, BeforeImm
<1>2. /\ return_p = Len(field[0]) + 1 + Len(field[2]) + Len(field[3]) + Len(field[4])
      /\ Len(field[1]) = 1
  BY DEF IInv, Shape, DispShape, OpcodeShape, BeforeOpcode, BeforeDisp, BeforeImm
<1>3. Lengths = Len(field[0]) + Len(field[1]) + Len(field[2]) + Len(field[3])
                  + Len(field[4])
  BY DEF Lengths, FIELD_PREFIX, FIELD_OPCODE, FIELD_MODRM, FIELD_SIB,
     FIELD_DISPLACEMENT
<1>4. /\ Len(field[0]) \in 0..4 /\ Len(field[2]) \in 0..1 /\ Len(field[3]) \in 0..1
      /\ Len(field[4]) \in 0..4 /\ ImmediateBytes(opcode_id) \in 0..6
  BY FieldLengths
<1>5. immediate_length \in Nat
  BY DEF IInv, DecoderTypeOK, CodeByte
<1>6. Lengths = return_p /\ return_p \in 0..20
  <2>1. \A a, b, c, d, e : a \in 0..4 /\ b = 1 /\ c \in 0..1 /\ d \in 0..1 /\ e \in 0..4 =>
          a + b + c + d + e = a + 1 + c + d + e /\ a + 1 + c + d + e \in 0..20
    OBVIOUS
  <2> QED
    BY <1>2, <1>3, <1>4, <2>1
<1>7. Lengths + immediate_length = byte_p /\ byte_p \in 0..26
  BY <1>1, <1>4, <1>5, <1>6
<1> QED
  BY <1>1, <1>7

(* The fields are consecutive pieces of the queue, in order, and EIP moves *)
(* to the end of the last one, unless the immediate has six bytes.         *)
THEOREM FieldsCorrect == Spec => []FieldsAreTheBytes
<1>1. IInv => FieldsAreTheBytes
  <2> SUFFICES ASSUME IInv PROVE FieldsAreTheBytes
    OBVIOUS
  <2>1. /\ Len(field[0]) \in Nat /\ Len(field[1]) \in Nat /\ Len(field[2]) \in Nat
        /\ Len(field[3]) \in Nat /\ Len(field[4]) \in Nat
    BY FieldLengths
  <2>2. /\ Start(0) = 0 /\ Start(1) = Len(field[0])
        /\ Start(2) = Len(field[0]) + Len(field[1])
        /\ Start(3) = Len(field[0]) + Len(field[1]) + Len(field[2])
        /\ Start(4) = Len(field[0]) + Len(field[1]) + Len(field[2]) + Len(field[3])
        /\ Start(5) = Len(field[0]) + Len(field[1]) + Len(field[2]) + Len(field[3])
                        + Len(field[4])
    BY <2>1 DEF Start, FIELD_PREFIX, FIELD_OPCODE, FIELD_MODRM, FIELD_SIB,
       FIELD_DISPLACEMENT
  <2>3. /\ Piece(0, Start(0)) /\ Piece(1, Start(1)) /\ Piece(2, Start(2))
        /\ Piece(3, Start(3)) /\ Piece(4, Start(4))
    BY <2>2 DEF IInv, Contents
  <2>4. \A f \in Field : \A k \in 1..Len(field[f]) :
          field[f][k] = encoded_instr(Start(f) + k - 1)
    <3> SUFFICES ASSUME NEW f \in Field, NEW k \in 1..Len(field[f])
                 PROVE  field[f][k] = encoded_instr(Start(f) + k - 1)
      OBVIOUS
    <3>1. f = 0 \/ f = 1 \/ f = 2 \/ f = 3 \/ f = 4
      BY DEF Field
    <3>2. Piece(f, Start(f))
      BY <2>3, <3>1
    <3> QED
      BY <3>2 DEF Piece
  <2>5. ASSUME ImmediateBytes(opcode_id) <= 4, NEW k \in 0..3, k < immediate_length
        PROVE  immediate[k] = encoded_instr(Start(5) + k)
    <3>1. ~BeforeImm
      <4>1. immediate_length # 0
        BY <2>5 DEF IInv, DecoderTypeOK, CodeByte
      <4> QED
        BY <4>1 DEF IInv, Shape, ImmShape
    <3>2. immediate[k] = encoded_instr(return_p + k)
      BY <2>5, <3>1 DEF IInv, ImmediateContents
    <3>3. return_p = Len(field[0]) + 1 + Len(field[2]) + Len(field[3]) + Len(field[4])
          /\ Len(field[1]) = 1
      BY <3>1 DEF IInv, Shape, DispShape, OpcodeShape, BeforeImm, BeforeDisp
    <3>4. return_p = Start(5)
      BY <2>1, <2>2, <3>3
    <3> QED
      BY <3>2, <3>4
  <2>6. ImmediateBytes(opcode_id) <= 4 /\ stage = "done" => total_length = byte_p
    BY LengthIsCursor
  <2> QED
    BY <2>4, <2>5, <2>6 DEF FieldsAreTheBytes
<1> QED
  BY <1>1, DecoderInductive, PTL

(* What calculate_EA will need: the bytes of the address that the decoder  *)
(* took are those of the encoding.                                         *)
LEMMA AddressLength ==
  \A m \in CodeByte, s \in CodeByte, t \in Seq(CodeByte) :
    Len(t) = (IF NeedsSib(m) THEN 1 ELSE 0) /\ (NeedsSib(m) => t[1] = s) =>
      1 + Len(t) + DispLength(m, t) = ArchAddressLength(m, s)
<1> SUFFICES ASSUME NEW m \in CodeByte, NEW s \in CodeByte, NEW t \in Seq(CodeByte),
                    Len(t) = (IF NeedsSib(m) THEN 1 ELSE 0),
                    NeedsSib(m) => t[1] = s
             PROVE  1 + Len(t) + DispLength(m, t) = ArchAddressLength(m, s)
  OBVIOUS
<1>1. CASE NeedsSib(m)
  <2>1. Len(t) = 1 /\ t # <<>> /\ t[1] = s
    BY <1>1
  <2>2. m \div 64 # 3 /\ m % 8 = 4
    BY <1>1 DEF NeedsSib, Mod, Rm
  <2>3. DispLength(m, t) = IF m \div 64 = 2 \/ (m \div 64 = 0 /\ s % 8 = 5) THEN 4
                           ELSE IF m \div 64 = 1 THEN 1 ELSE 0
    BY <2>1, <2>2 DEF DispLength, NoBase, Mod, Rm, Base
  <2> QED
    BY <2>1, <2>2, <2>3 DEF ArchAddressLength
<1>2. CASE ~NeedsSib(m)
  <2>1. Len(t) = 0 /\ t = <<>>
    BY <1>2
  <2>2. m \div 64 = 3 \/ m % 8 # 4
    BY <1>2 DEF NeedsSib, Mod, Rm
  <2>3. DispLength(m, t) = IF m \div 64 = 2 \/ (m \div 64 = 0 /\ m % 8 = 5) THEN 4
                           ELSE IF m \div 64 = 1 THEN 1 ELSE 0
    BY <2>1 DEF DispLength, NoBase, Mod, Rm
  <2>4. ArchAddressLength(m, s) =
          1 + 0 + IF m \div 64 = 2 \/ (m \div 64 = 0 /\ m % 8 = 5) THEN 4
                  ELSE IF m \div 64 = 1 THEN 1 ELSE 0
    BY <2>2 DEF ArchAddressLength
  <2> QED
    BY <2>1, <2>3, <2>4
<1> QED
  BY <1>1, <1>2

(* In a decoded instruction, opcode[0] is the byte behind the prefixes.    *)
LEMMA DecodedOpcode ==
  ASSUME IInv, stage = "done"
  PROVE  /\ Len(field[0]) \in 0..4
         /\ field[1][1] = queue[Len(field[0])] /\ field[1][1] \in CodeByte
         /\ opcode_id = single_byte_opcode_lut(field[1][1])
<1>1. Len(field[0]) \in 0..4 /\ Len(field[1]) = 1
      /\ opcode_id = single_byte_opcode_lut(field[1][1])
  BY FieldLengths DEF IInv, Shape, OpcodeShape, BeforeOpcode
<1>2. Piece(1, Len(field[0]))
  BY DEF IInv, Contents
<1>3. field[1][1] = encoded_instr(Len(field[0]) + 1 - 1)
  BY <1>1, <1>2 DEF Piece
<1>4. Len(field[0]) + 1 - 1 = Len(field[0]) /\ Len(field[0]) \in Position
  BY <1>1 DEF Position, MAX_INSTR_LENGTH
<1>5. field[1][1] = queue[Len(field[0])]
  BY <1>3, <1>4 DEF encoded_instr
<1>6. queue[Len(field[0])] \in CodeByte
  BY <1>4 DEF IInv, DecoderTypeOK
<1> QED
  BY <1>1, <1>5, <1>6

(* The overrun of the immediate never reaches execution: only CALL and JMP *)
(* with a far pointer have six bytes of it, and neither has a handler.     *)
THEOREM OverrunHarmless == Spec => []OverrunNeverExecuted
<1>1. IInv => OverrunNeverExecuted
  <2> SUFFICES ASSUME IInv, stage = "done", overrun \/ total_length # byte_p
               PROVE  field[1][1] \notin Implemented
    BY DEF OverrunNeverExecuted, FIELD_OPCODE
  <2>1. ~(ImmediateBytes(opcode_id) <= 4)
    BY LengthIsCursor
  <2>2. ImmediateBytes(opcode_id) > 4
    BY <2>1, FieldLengths
  <2> QED
    BY <2>2, DecodedOpcode, NoFarHandler
<1> QED
  BY <1>1, DecoderInductive, PTL

(* EIP moves by the length of the IA-32 encoding, for every instruction    *)
(* that has a handler and no size prefix, whatever its operands.           *)
THEOREM ArchitecturalLength == Spec => []LengthIsArchitectural
<1>1. IInv => LengthIsArchitectural
  <2> DEFINE p  == Len(field[0])
             op == queue[p]
  <2> SUFFICES ASSUME IInv, stage = "done", op \in Implemented
               PROVE  total_length = p + 1 + ArchImmediate(op)
                        + (IF ArchModrm(op)
                           THEN ArchAddressLength(queue[p + 1], queue[p + 2]) ELSE 0)
    BY DEF LengthIsArchitectural, FIELD_PREFIX
  <2>1. p \in 0..4 /\ op = field[1][1] /\ op \in CodeByte
    BY DecodedOpcode
  <2>2. opcode_id = op /\ (HasModrm(op) <=> ArchModrm(op))
        /\ ImmediateBytes(op) = ArchImmediate(op)
    BY <2>1, DecodedOpcode, ImplementedRows
  <2>3. ArchImmediate(op) \in {0, 1, 4}
    BY DEF ArchImmediate
  <2>4. total_length = byte_p
    <3>1. ImmediateBytes(opcode_id) <= 4
      BY <2>2, <2>3
    <3> QED
      BY <3>1, LengthIsCursor
  <2>5. byte_p = return_p + ArchImmediate(op)
    BY <2>2 DEF IInv, Shape, ImmShape
  <2>6. return_p = p + 1 + Len(field[2]) + Len(field[3]) + Len(field[4])
    BY DEF IInv, Shape, DispShape, BeforeOpcode, BeforeDisp, BeforeImm
  <2>7. Len(field[2]) + Len(field[3]) + Len(field[4]) =
          IF ArchModrm(op) THEN ArchAddressLength(queue[p + 1], queue[p + 2]) ELSE 0
    <3>1. CASE HasModrm(op)
      <4>1. /\ Len(field[2]) = 1
            /\ Len(field[3]) = (IF NeedsSib(field[2][1]) THEN 1 ELSE 0)
            /\ Len(field[4]) = DispLength(field[2][1], field[3])
        <5>1. ~BeforeDisp /\ ~BeforeImm /\ HasModrm(opcode_id)
          BY <2>2, <3>1 DEF BeforeOpcode, BeforeDisp, BeforeImm
        <5>2. AddressShape /\ DispShape
          BY DEF IInv, Shape
        <5> QED
          BY <5>1, <5>2 DEF AddressShape, DispShape
      <4>2. Len(field[1]) = 1
        BY DEF IInv, Shape, OpcodeShape, BeforeOpcode
      <4>3. Piece(2, p + 1) /\ Piece(3, p + 1 + 1)
        BY <4>1, <4>2 DEF IInv, Contents
      <4>4. \A n \in 0..4 : /\ n + 1 + 1 - 1 = n + 1 /\ n + 1 + 1 + 1 - 1 = n + 2
                            /\ n + 1 \in 0..15 /\ n + 2 \in 0..15
        OBVIOUS
      <4> HIDE DEF p
      <4>5. field[2][1] = queue[p + 1]
        <5>1. field[2][1] = encoded_instr(p + 1 + 1 - 1)
          BY <4>1, <4>3 DEF Piece
        <5>2. p + 1 + 1 - 1 = p + 1 /\ p + 1 \in Position
          BY <2>1, <4>4 DEF Position, MAX_INSTR_LENGTH
        <5>3. encoded_instr(p + 1) = queue[p + 1]
          BY ONLY <5>2 DEF encoded_instr
        <5> QED
          BY ONLY <5>1, <5>2, <5>3, Zenon
      <4>6. NeedsSib(field[2][1]) => field[3][1] = queue[p + 2]
        <5> SUFFICES ASSUME NeedsSib(field[2][1]) PROVE field[3][1] = queue[p + 2]
          OBVIOUS
        <5>1. field[3][1] = encoded_instr(p + 1 + 1 + 1 - 1)
          BY <4>1, <4>3 DEF Piece
        <5>2. p + 1 + 1 + 1 - 1 = p + 2 /\ p + 2 \in Position
          BY <2>1, <4>4 DEF Position, MAX_INSTR_LENGTH
        <5>3. encoded_instr(p + 2) = queue[p + 2]
          BY ONLY <5>2 DEF encoded_instr
        <5> QED
          BY ONLY <5>1, <5>2, <5>3, Zenon
      <4>7. queue[p + 1] \in CodeByte /\ queue[p + 2] \in CodeByte
            /\ field[3] \in Seq(CodeByte)
        <5>1. /\ queue \in [Position -> CodeByte] /\ field \in [Field -> Seq(CodeByte)]
              /\ 3 \in Field
          BY DEF IInv, DecoderTypeOK, Field
        <5>2. p + 1 \in Position /\ p + 2 \in Position
          BY <2>1, <4>4 DEF Position, MAX_INSTR_LENGTH
        <5> QED
          BY ONLY <5>1, <5>2
      <4>8. 1 + Len(field[3]) + DispLength(field[2][1], field[3])
              = ArchAddressLength(queue[p + 1], queue[p + 2])
        <5>1. field[2][1] \in CodeByte
          BY <4>5, <4>7
        <5>2. /\ NeedsSib(field[2][1]) => Len(field[3]) = 1 /\ field[3][1] = queue[p + 2]
              /\ ~NeedsSib(field[2][1]) => Len(field[3]) = 0
          BY <4>1, <4>6
        <5> QED
          BY <4>5, <4>7, <5>1, <5>2, AddressLength
      <4> QED
        BY <2>2, <3>1, <4>1, <4>8
    <3>2. CASE ~HasModrm(op)
      <4>1. Len(field[2]) = 0 /\ Len(field[3]) = 0 /\ Len(field[4]) = 0
        BY <2>2, <3>2 DEF IInv, Shape, AddressShape, DispShape
      <4> QED
        BY <2>2, <3>2, <4>1
    <3> QED
      BY <3>1, <3>2
  <2>8. Len(field[2]) \in Nat /\ Len(field[3]) \in Nat /\ Len(field[4]) \in Nat
    BY FieldLengths
  <2> DEFINE x == IF ArchModrm(op)
                  THEN ArchAddressLength(queue[p + 1], queue[p + 2]) ELSE 0
             i == ArchImmediate(op)
  <2>9. total_length = (p + 1 + Len(field[2]) + Len(field[3]) + Len(field[4])) + i
    BY <2>4, <2>5, <2>6
  <2>10. Len(field[2]) + Len(field[3]) + Len(field[4]) = x
    BY <2>7
  <2>11. i \in Nat
    BY <2>3
  <2> DEFINE u == Len(field[2])
             v == Len(field[3])
             w == Len(field[4])
  <2> HIDE DEF x, i, p, u, v, w
  <2>12. p \in Nat
    BY <2>1
  <2>13. total_length = p + 1 + i + x
    <3>1. u \in Nat /\ v \in Nat /\ w \in Nat /\ u + v + w = x
          /\ total_length = (p + 1 + u + v + w) + i
      BY <2>8, <2>9, <2>10 DEF u, v, w
    <3> QED
      BY <2>11, <2>12, <3>1
  <2> QED
    BY <2>13 DEF x, i
<1> QED
  BY <1>1, DecoderInductive, PTL

===============================================================================
