-------------------------------- MODULE Executor --------------------------------
(***************************************************************************)
(* The instruction handlers (core/internal/executor.c) and the interpreter *)
(* around them (core/cpu.c): registers, status register, RAM, the stack    *)
(* that hangs down from the end of the SS segment, and the bounds of the   *)
(* code segment.                                                           *)
(*                                                                         *)
(* An instruction is a record of what the decoder found.  Which one lies   *)
(* at EIP is left open: every step may execute any member of Instr, so     *)
(* every program over Instr, one that rewrites itself included, is among   *)
(* the behaviours.  Of the bus this module knows the RAM and the console;  *)
(* the screen and the keyboard are modelled in Machine, and no member of   *)
(* Instr is to address them.                                               *)
(*                                                                         *)
(* Sizes are parameters: in the code the RAM has 0x4000 bytes, the code    *)
(* segment is [0x0800, 0x0FFF) and the stack's base plus limit is 0x3FFF.  *)
(***************************************************************************)
EXTENDS Alu

CONSTANTS
  RAM_SIZE,             \* bytes of RAM; the console's registers follow
  CS_BASE, CS_LIMIT,    \* of the code segment
  SS_TOP,               \* base + limit of the stack segment
  Instr,                \* the decoded instructions that may be executed
  JunkDword,            \* what pop_gpr's uninitialised popped_data may hold
  JunkFlags             \* what alu_increment_register's out.flags_out may hold

EAX == 0
ECX == 1
EDX == 2
EBX == 3
EIP == 4
EBP == 5
ESI == 6
EDI == 7
ESP == 8

Gpr     == 0..8
Address == 0..RAM_SIZE-1
Byte    == 0..BYTE-1

(* The last fetched dword of the code segment lies in RAM, so prefetch     *)
(* does not fail.  The last four addresses there are belong to nobody.     *)
ASSUME LayoutAssumption ==
  /\ RAM_SIZE \in Nat /\ CS_BASE \in Nat /\ CS_LIMIT \in Nat
  /\ CS_BASE + CS_LIMIT <= RAM_SIZE - 4
  /\ SS_TOP = RAM_SIZE - 1
  /\ RAM_SIZE + 8 <= DWORD
  /\ JunkDword \subseteq Dword /\ JunkDword # {}
  /\ JunkFlags \subseteq SUBSET Flag /\ JunkFlags # {}

(* What the decoder can deliver.  The numbers of registers come from three *)
(* bits, but for the ESP that the handlers of PUSH and POP put in.         *)
Handler ==
  {"ALU_RM_R", "ALU_R_RM", "INC_R", "MOV_RM_R", "MOV_R_RM", "MOV_R_IMM", "PUSH_R",
   "PUSH_IMM", "PUSHA", "POP_R", "POPA", "RET", "JCC", "JMP_REL", "CALL_REL", "GRP5",
   "CLC", "STC", "HLT", "UNIMPLEMENTED"}

Instruction ==
  [handler : Handler, opclass : Opclass, width : Width, condition : Condition,
   has_operand_size_override : BOOLEAN, total_length : Nat,
   mod : 0..3, reg : Gpr, rm : Gpr, sib : BOOLEAN, scale : 0..3, index : Gpr,
   base : Gpr, disp : Dword, disp_length : Nat, imm : Dword, imm_length : Nat]

ASSUME InstrAssumption == Instr \subseteq Instruction

(* An instruction as decoder allocates it, to be filled in. *)
Blank ==
  [handler |-> "UNIMPLEMENTED", opclass |-> "ADD", width |-> DwordBits,
   condition |-> "JO", has_operand_size_override |-> FALSE, total_length |-> 1,
   mod |-> 3, reg |-> 0, rm |-> 0, sib |-> FALSE, scale |-> 0, index |-> 0,
   base |-> 0, disp |-> 0, disp_length |-> 0, imm |-> 0, imm_length |-> 0]

VARIABLES gpr, ram, status, halt, rc

vars == <<gpr, ram, status, halt, rc>>

Init ==
  /\ gpr = [r \in Gpr |-> 0]
  /\ ram = [a \in Address |-> 0]
  /\ status = {}
  /\ halt = FALSE
  /\ rc = "EXECUTE_SUCCESS"

-----------------------------------------------------------------------------
(* A handler maps a machine, a record of the five variables, to a machine; *)
(* its return code is the machine's rc.                                    *)

Ok(m)          == m.rc = "EXECUTE_SUCCESS"
Fails(m, code) == [m EXCEPT !.rc = code]

(* n, made from m, unless m has failed already. *)
Then(m, n) == IF Ok(m) THEN n ELSE m

Place == [k \in 0..3 |-> CASE k = 0 -> 1 [] k = 1 -> BYTE [] k = 2 -> WORD
                           [] k = 3 -> WORD * BYTE]

ByteAt(x, k) == (x \div Place[k]) % BYTE

(* little_endian_to_int32: only a single byte is sign-extended. *)
SignExtend(x, length) == IF length = 1 /\ 2 * x >= BYTE THEN x - BYTE ELSE x

(* The 8-bit registers 0..7: numbers 5 to 7 read byte 1 of their base      *)
(* register, 4 reads byte 0 of EAX; every one writes byte 0 of the 32-bit  *)
(* register of the same number.                                            *)
gpr8(m, id) == ByteAt(m.gpr[id % 4], IF id <= 4 THEN 0 ELSE 1)

gpr_w_handler(m, id, width) ==
  IF width = ByteBits THEN gpr8(m, id) ELSE m.gpr[id]

(* Mistake for the mutation runs: a byte is not cut to eight bits.         *)
set_gpr_w_handler_Uncut(m, id, width, x) ==
  [m EXCEPT !.gpr[id] = IF width = ByteBits THEN (@ - (@ % BYTE)) + x ELSE x]

(* Mistake: a byte goes to the register it is read from.                   *)
set_gpr_w_handler_OfBase(m, id, width, x) ==
  IF width = ByteBits
  THEN [m EXCEPT !.gpr[id % 4] = (@ - (@ % BYTE)) + (x % BYTE)]
  ELSE [m EXCEPT !.gpr[id] = x]

set_gpr_w_handler(m, id, width, x) ==
  [m EXCEPT !.gpr[id] =
     IF width = ByteBits THEN (@ - (@ % BYTE)) + (x % BYTE) ELSE x]

AddTo(m, id, x) == [m EXCEPT !.gpr[id] = (@ + x) % DWORD]

-----------------------------------------------------------------------------
(* The bus. *)

Console == RAM_SIZE..RAM_SIZE+3

(* The RAM refuses its last three bytes for every width. *)
OnBus(a) == a <= RAM_SIZE - 4 \/ a \in Console

(* What a successful read leaves in a variable that held x before. *)
bus_read(m, a, width, x) ==
  IF a \in Console THEN x
  ELSE IF width = ByteBits THEN m.ram[a]
  ELSE m.ram[a] + BYTE * (m.ram[a+1] + BYTE * (m.ram[a+2] + BYTE * m.ram[a+3]))

bus_write(m, a, width, x) ==
  IF ~OnBus(a) THEN Fails(m, "BUS_WRITE_FAILURE")
  ELSE IF a \in Console THEN m
  ELSE [m EXCEPT !.ram = [b \in Address |->
          IF b \in a..a + width \div ByteBits - 1 THEN ByteAt(x, b - a) ELSE @[b]]]

-----------------------------------------------------------------------------
(* The operand in a register or in memory. *)

calculate_EA(m, i) ==
  LET index == IF i.sib /\ i.index # 4 THEN m.gpr[i.index] * 2^i.scale ELSE 0
      reg   == IF i.sib THEN i.base ELSE i.rm
      base  == IF i.mod = 0 /\ reg = 5 THEN 0 ELSE m.gpr[reg]
  IN (SignExtend(i.disp, i.disp_length) + index + base) % DWORD

RmFound(m, i) == i.mod = 3 \/ OnBus(calculate_EA(m, i))

read_rm_op(m, i) ==
  IF i.mod = 3 THEN gpr_w_handler(m, i.rm, i.width)
  ELSE bus_read(m, calculate_EA(m, i), i.width, 0)

(* The MOV handlers write the value. *)
WriteTo(m, i, x) ==
  IF i.mod = 3 THEN set_gpr_w_handler(m, i.rm, i.width, x)
  ELSE bus_write(m, calculate_EA(m, i), i.width, x)

(* In write_rm_dst the memory branch declares a result of its own, which   *)
(* hides the parameter: memory receives EXECUTE_SUCCESS, the number 1.     *)
write_rm_dst(m, i, x) == WriteTo(m, i, IF i.mod = 3 THEN x ELSE 1)

-----------------------------------------------------------------------------
(* Arithmetic and logic. *)

Cin(m, opclass) == IF opclass \in {"ADC", "SBB"} /\ "CF" \in m.status THEN 1 ELSE 0

ThrowsResult(opclass) == opclass \in {"CMP", "TEST"}

WithFlags(m, opclass, flags) ==
  [m EXCEPT !.status = update_status_register(@, opclass, flags)]

alu_two_op_rm_r(m, i) ==
  LET out == ALU(read_rm_op(m, i), gpr_w_handler(m, i.reg, i.width),
                 Cin(m, i.opclass), i.width, i.opclass)
      n   == IF ThrowsResult(i.opclass) THEN m ELSE write_rm_dst(m, i, out.low)
  IN IF ~RmFound(m, i) THEN Fails(m, "BUS_READ_FAILURE")
     ELSE Then(n, WithFlags(n, i.opclass, out.flags))

alu_two_op_r_rm(m, i) ==
  LET out == ALU(gpr_w_handler(m, i.reg, i.width), read_rm_op(m, i),
                 Cin(m, i.opclass), i.width, i.opclass)
      n   == IF ThrowsResult(i.opclass) THEN m
             ELSE set_gpr_w_handler(m, i.reg, i.width, out.low)
  IN IF ~RmFound(m, i) THEN Fails(m, "BUS_READ_FAILURE")
     ELSE WithFlags(n, i.opclass, out.flags)

(* out is not initialised, and ALU only sets bits of its flags. *)
alu_increment_register(m, i, junk) ==
  LET out == ALU(m.gpr[i.reg], 0, 0, DwordBits, "INC")
  IN WithFlags(set_gpr_w_handler(m, i.reg, DwordBits, out.low),
               "INC", out.flags \cup junk)

-----------------------------------------------------------------------------
(* The stack: ESP is an offset from SS_TOP, 0 when the stack is empty. *)

StackAddress(m) == (SS_TOP + m.gpr[ESP]) % DWORD

(* ESP moves first, and moves back when the write fails. *)
Lowered(m, width) == AddTo(m, ESP, -(width \div ByteBits))

(* Mistake: a byte is stored as a dword. *)
Push_StoresDword(m, width, x) ==
  LET n == Lowered(m, width)
      w == bus_write(n, StackAddress(n), DwordBits, x)
  IN IF Ok(w) THEN w ELSE Fails(m, w.rc)

(* Mistake: ESP stays where it was moved to. *)
Push_NoRollback(m, width, x) ==
  LET n == Lowered(m, width) IN bus_write(n, StackAddress(n), width, x)

Push(m, width, x) ==
  LET n == Lowered(m, width)
      w == bus_write(n, StackAddress(n), width, x)
  IN IF Ok(w) THEN w ELSE Fails(m, w.rc)

push_gpr(m, r) == Push(m, DwordBits, Lowered(m, DwordBits).gpr[r])

(* Mistake: the popped slot is not cleared. *)
pop_gpr_KeepsSlot(m, r, junk) ==
  LET a == StackAddress(m)
  IN IF ~OnBus(a) THEN Fails(m, "BUS_READ_FAILURE")
     ELSE AddTo([m EXCEPT !.gpr[r] = bus_read(m, a, DwordBits, junk)], ESP, 4)

(* Mistake: ESP moves before the slot is cleared. *)
pop_gpr_ClearsNext(m, r, junk) ==
  LET a == StackAddress(m)
      n == AddTo([m EXCEPT !.gpr[r] = bus_read(m, a, DwordBits, junk)], ESP, 4)
  IN IF ~OnBus(a) THEN Fails(m, "BUS_READ_FAILURE")
     ELSE bus_write(n, StackAddress(n), DwordBits, 0)

(* The slot is cleared after the register is written: POP ESP clears the   *)
(* slot it has just made the top.                                          *)
pop_gpr(m, r, junk) ==
  LET a == StackAddress(m)
      n == [m EXCEPT !.gpr[r] = bus_read(m, a, DwordBits, junk)]
      w == bus_write(n, StackAddress(n), DwordBits, 0)
  IN IF ~OnBus(a) THEN Fails(m, "BUS_READ_FAILURE") ELSE Then(w, AddTo(w, ESP, 4))

(* PUSHA and POPA go through the registers in the same order, and stop at  *)
(* the first failure.                                                      *)
ThenPush(m, r) == Then(m, push_gpr(m, r))
PushFour(m, a, b, c, d) == ThenPush(ThenPush(ThenPush(ThenPush(m, a), b), c), d)

execute_PUSHA(m) ==
  PushFour(PushFour(m, EAX, ECX, EDX, EBX), ESP, EBP, ESI, EDI)

ThenPop(m, r, junk) == Then(m, pop_gpr(m, r, junk))
PopFour(m, a, b, c, d, junk) ==
  ThenPop(ThenPop(ThenPop(ThenPop(m, a, junk), b, junk), c, junk), d, junk)

execute_POPA(m, junk) ==
  PopFour(PopFour(m, EAX, ECX, EDX, EBX, junk), ESP, EBP, ESI, EDI, junk)

-----------------------------------------------------------------------------
(* Jumps.  The bound is an upper one only. *)

InCode(a) == a < CS_BASE + CS_LIMIT

CodeAddress(m) == (CS_BASE + m.gpr[EIP]) % DWORD

SegmentFault(m) == [Fails(m, "FAILED_SEGBOUND_CHECK") EXCEPT !.halt = TRUE]

(* jmp_rel8 and jmp_rel32: the sum is rolled back when out of bounds. *)
jmp_rel(m, i) ==
  LET n == AddTo(m, EIP, SignExtend(i.imm, i.imm_length))
  IN IF InCode(CodeAddress(n)) THEN n ELSE SegmentFault(m)

call_rel(m, i) == LET n == push_gpr(m, EIP) IN Then(n, jmp_rel(n, i))

(* CALL rm32 checks no bound. *)
call_rm(m, i) ==
  LET n == push_gpr(m, EIP)
  IN Then(n, [n EXCEPT !.gpr[EIP] = read_rm_op(m, i)])

(* JMP rm32: bit 22 of the CS descriptor, which get_operand_size takes for *)
(* the D bit, is a bit of the base and 0 in the table create_gdt writes.   *)
jmp_rm(m, i) ==
  LET x == read_rm_op(m, i)
  IN IF ~InCode((CS_BASE + x) % DWORD) THEN SegmentFault(m)
     ELSE [m EXCEPT !.gpr[EIP] =
             IF i.has_operand_size_override THEN x
             ELSE (@ - (@ % WORD)) + (x % WORD)]

(* INC and DEC of group 5. *)
step_rm(m, i, opclass) ==
  LET out == ALU(read_rm_op(m, i), 0, 0, DwordBits, opclass)
      n   == write_rm_dst(m, i, out.low)
  IN Then(n, WithFlags(n, opclass, out.flags))

execute_GRP5(m, i) ==
  CASE ~RmFound(m, i) -> Fails(m, "BUS_READ_FAILURE")
    [] RmFound(m, i) /\ i.reg = 0 -> step_rm(m, i, "INC")
    [] RmFound(m, i) /\ i.reg = 1 -> step_rm(m, i, "DEC")
    [] RmFound(m, i) /\ i.reg = 2 -> call_rm(m, i)
    [] RmFound(m, i) /\ i.reg = 4 -> jmp_rm(m, i)
    [] OTHER -> Fails(m, "UNIMPLEMENTED_INSTRUCTION")

-----------------------------------------------------------------------------
(* The interpreter.  EIP is past the instruction when its handler runs. *)

Machine == [gpr |-> gpr, ram |-> ram, status |-> status, halt |-> halt, rc |-> rc]

Running == rc = "EXECUTE_SUCCESS" /\ ~halt /\ InCode(CodeAddress(Machine))

Fetched(i) == AddTo(Machine, EIP, i.total_length)

(* i is fetched, and m is what its handler makes of the machine. *)
Runs(i, handler, m) ==
  /\ Running
  /\ i.handler = handler
  /\ gpr' = m.gpr
  /\ ram' = m.ram
  /\ status' = m.status
  /\ halt' = m.halt
  /\ rc' = m.rc

AluRmR(i) == Runs(i, "ALU_RM_R", alu_two_op_rm_r(Fetched(i), i))
AluRRm(i) == Runs(i, "ALU_R_RM", alu_two_op_r_rm(Fetched(i), i))

IncR(i) ==
  \E junk \in JunkFlags : Runs(i, "INC_R", alu_increment_register(Fetched(i), i, junk))

MovRmR(i) ==
  LET m == Fetched(i)
  IN Runs(i, "MOV_RM_R", WriteTo(m, i, gpr_w_handler(m, i.reg, i.width)))

MovRRm(i) ==
  LET m == Fetched(i)
  IN Runs(i, "MOV_R_RM",
          IF RmFound(m, i) THEN set_gpr_w_handler(m, i.reg, i.width, read_rm_op(m, i))
          ELSE Fails(m, "BUS_READ_FAILURE"))

MovRImm(i) ==
  Runs(i, "MOV_R_IMM", set_gpr_w_handler(Fetched(i), i.reg, i.width, i.imm))

PushR(i)   == Runs(i, "PUSH_R", push_gpr(Fetched(i), i.reg))
PushImm(i) == Runs(i, "PUSH_IMM", Push(Fetched(i), i.width, i.imm))
PushA(i)   == Runs(i, "PUSHA", execute_PUSHA(Fetched(i)))

PopR(i) == \E junk \in JunkDword : Runs(i, "POP_R", pop_gpr(Fetched(i), i.reg, junk))
PopA(i) == \E junk \in JunkDword : Runs(i, "POPA", execute_POPA(Fetched(i), junk))
Ret(i)  == \E junk \in JunkDword : Runs(i, "RET", pop_gpr(Fetched(i), EIP, junk))

Jcc(i) ==
  LET m == Fetched(i)
  IN Runs(i, "JCC", IF JumpTaken(i.condition, m.status) THEN jmp_rel(m, i) ELSE m)

Jmp(i)  == Runs(i, "JMP_REL", jmp_rel(Fetched(i), i))
Call(i) == Runs(i, "CALL_REL", call_rel(Fetched(i), i))
Grp5(i) == Runs(i, "GRP5", execute_GRP5(Fetched(i), i))

Clc(i) == Runs(i, "CLC", [Fetched(i) EXCEPT !.status = @ \ {"CF"}])
Stc(i) == Runs(i, "STC", [Fetched(i) EXCEPT !.status = @ \cup {"CF"}])
Hlt(i) == Runs(i, "HLT", [Fetched(i) EXCEPT !.halt = TRUE])

Unimplemented(i) ==
  Runs(i, "UNIMPLEMENTED", Fails(Fetched(i), "UNIMPLEMENTED_INSTRUCTION"))

(* An instruction that fails ends the program: start leaves its loop.      *)
(* After the end of the program nothing changes any more.                  *)
Execute(i) ==
  \/ AluRmR(i)  \/ AluRRm(i)  \/ IncR(i) \/ MovRmR(i) \/ MovRRm(i) \/ MovRImm(i)
  \/ PushR(i)   \/ PushImm(i) \/ PushA(i) \/ PopR(i) \/ PopA(i)
  \/ Ret(i)     \/ Jcc(i)     \/ Jmp(i)  \/ Call(i) \/ Grp5(i)
  \/ Clc(i)     \/ Stc(i)     \/ Hlt(i)  \/ Unimplemented(i)

Next == \E i \in Instr : Execute(i)

Spec == Init /\ [][Next]_vars

-----------------------------------------------------------------------------
(* Registers hold dwords, memory bytes and the status register flags,      *)
(* whatever program is run.                                                *)
ExecutorTypeOK ==
  /\ gpr \in [Gpr -> Dword]
  /\ ram \in [Address -> Byte]
  /\ status \subseteq Flag
  /\ halt \in BOOLEAN
  /\ rc \in {"EXECUTE_SUCCESS", "BUS_READ_FAILURE", "BUS_WRITE_FAILURE",
             "FAILED_SEGBOUND_CHECK", "UNIMPLEMENTED_INSTRUCTION"}

=============================================================================
