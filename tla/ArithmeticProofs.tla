----------------------------- MODULE ArithmeticProofs -----------------------------
(***************************************************************************)
(* What a program can rely on in the flags, for words of any size and any  *)
(* program whose two-operand arithmetic is on registers; all else, on      *)
(* registers, memory or the stack, may stand between.                      *)
(*                                                                         *)
(* First, no instruction but the arithmetic changes the status register,   *)
(* and INC and DEC leave CF alone.  Then the flags of each operation, one  *)
(* by one, against the integers.  The inductive invariant FlagsTell says   *)
(* what the flags tell of the operation that last defined them.            *)
(***************************************************************************)
EXTENDS Arithmetic, ExecutorProofs

-----------------------------------------------------------------------------
(* Who leaves the status register alone. *)

Same(n, m) == n \in Machines /\ n.status = m.status

LEMMA RegistersKeepStatus ==
  ASSUME NEW m \in Machines
  PROVE  /\ \A id \in Gpr : \A width : \A x \in Dword : Same(set_gpr_w_handler(m, id, width, x), m)
         /\ \A id \in Gpr : \A x \in Int : Same(AddTo(m, id, x), m)
         /\ \A code \in ReturnCode : Same(Fails(m, code), m)
         /\ \A r \in Gpr : \A x \in Dword : Same([m EXCEPT !.gpr[r] = x], m)
         /\ Same(SegmentFault(m), m)
<1>1. /\ \A id, width, x : set_gpr_w_handler(m, id, width, x).status = m.status
      /\ \A id, x : AddTo(m, id, x).status = m.status
      /\ \A code : Fails(m, code).status = m.status
      /\ SegmentFault(m).status = m.status
  BY DEF set_gpr_w_handler, AddTo, Fails, SegmentFault, Machines
<1>2. \A r \in Gpr : \A x \in Dword : Same([m EXCEPT !.gpr[r] = x], m)
  BY DEF Same, Machines
<1> QED BY <1>1, <1>2, GprWriteType, AddToType, FailsType, SegmentFaultType DEF Same

LEMMA BusKeepsStatus ==
  ASSUME NEW m \in Machines, NEW width \in Width, NEW x \in Int
  PROVE  \A a \in Nat : Same(bus_write(m, a, width, x), m)
<1>1. \A a : bus_write(m, a, width, x).status = m.status
  <2>1. \A r : [m EXCEPT !.ram = r].status = m.status
    BY DEF Machines
  <2>2. Fails(m, "BUS_WRITE_FAILURE").status = m.status
    BY DEF Fails, Machines
  <2> QED BY <2>1, <2>2 DEF bus_write
<1> QED BY <1>1, BusWriteType DEF Same

LEMMA WritesKeepStatus ==
  ASSUME NEW m \in Machines, NEW i \in Instruction, NEW x \in Dword
  PROVE  Same(WriteTo(m, i, x), m) /\ Same(write_rm_dst(m, i, x), m)
<1>1. ASSUME NEW y \in Dword PROVE Same(WriteTo(m, i, y), m)
  <2>1. calculate_EA(m, i) \in Nat /\ y \in Int /\ i.rm \in Gpr /\ i.width \in Width
    BY EaType, WordSizes, InstructionParts DEF Dword
  <2>2. Same(bus_write(m, calculate_EA(m, i), i.width, y), m)
    BY <2>1, BusKeepsStatus
  <2>3. Same(set_gpr_w_handler(m, i.rm, i.width, y), m)
    BY <2>1, RegistersKeepStatus
  <2> QED BY <2>2, <2>3 DEF WriteTo
<1> QED BY <1>1, ByteIsDword DEF write_rm_dst

LEMMA PushKeepsStatus ==
  ASSUME NEW m \in Machines
  PROVE  /\ \A width \in Width : \A x \in Int : Same(Push(m, width, x), m)
         /\ \A r \in Gpr : Same(push_gpr(m, r), m)
<1>1. ASSUME NEW width \in Width, NEW x \in Int PROVE Push(m, width, x).status = m.status
  <2> DEFINE n == Lowered(m, width)
             w == bus_write(n, StackAddress(n), width, x)
  <2>1. n \in Machines /\ n.status = m.status
    <3>1. -(width \div ByteBits) \in Int /\ ESP \in Gpr
      BY BytesOfWidth DEF ESP, Gpr
    <3> QED BY <3>1, RegistersKeepStatus DEF Lowered, Same
  <2> HIDE DEF n
  <2>2. w.status = m.status
    <3>1. StackAddress(n) \in Nat
      BY <2>1, StackAddressType
    <3>2. Same(w, n)
      BY <2>1, <3>1, BusKeepsStatus
    <3> QED BY <2>1, <3>2 DEF Same
  <2>3. \A code : Fails(m, code).status = m.status
    BY DEF Fails, Machines
  <2> HIDE DEF w
  <2>4. (IF Ok(w) THEN w ELSE Fails(m, w.rc)).status = m.status
    BY <2>2, <2>3
  <2> QED BY <2>4 DEF Push, n, w
<1>2. ASSUME NEW r \in Gpr PROVE push_gpr(m, r).status = m.status
  <2>1. DwordBits \in Width
    BY DEF Width
  <2>2. Lowered(m, DwordBits).gpr[r] \in Int
    <3>1. Lowered(m, DwordBits) \in Machines
      BY <2>1, PushType
    <3> QED BY <3>1, GprReadType, WordSizes DEF Dword
  <2>3. \A x \in Int : Push(m, DwordBits, x).status = m.status
    BY <1>1, <2>1
  <2> QED BY <2>2, <2>3 DEF push_gpr
<1> QED BY <1>1, <1>2, PushType DEF Same

LEMMA PopKeepsStatus ==
  ASSUME NEW m \in Machines, NEW r \in Gpr, NEW junk \in JunkDword
  PROVE  Same(pop_gpr(m, r, junk), m)
<1> DEFINE a == StackAddress(m)
           x == bus_read(m, a, DwordBits, junk)
           n == [m EXCEPT !.gpr[r] = x]
           w == bus_write(n, StackAddress(n), DwordBits, 0)
<1>1. CASE ~OnBus(a)
  BY <1>1, RegistersKeepStatus DEF pop_gpr, ReturnCode
<1>2. CASE OnBus(a)
  <2>1. x \in Dword
    BY <1>2, StackAddressType, LayoutAssumption, BusReadType
  <2> HIDE DEF x
  <2>2. Same(n, m)
    BY <2>1, RegistersKeepStatus
  <2> HIDE DEF n
  <2>3. Same(w, m)
    <3>1. DwordBits \in Width /\ 0 \in Int
      BY DEF Width
    <3> QED BY <2>2, <3>1, StackAddressType, BusKeepsStatus DEF Same
  <2> HIDE DEF w
  <2>4. ESP \in Gpr /\ 4 \in Int
    BY DEF ESP, Gpr
  <2>5. Same(Then(w, AddTo(w, ESP, 4)), m)
    BY <2>3, <2>4, RegistersKeepStatus DEF Then, Same
  <2> QED BY <1>2, <2>5 DEF pop_gpr, w, n, x
<1> QED BY <1>1, <1>2

(* PUSHA and POPA.                                                         *)
LEMMA AllRegistersKeepStatus ==
  ASSUME NEW m \in Machines
  PROVE  /\ Same(execute_PUSHA(m), m)
         /\ \A junk \in JunkDword : Same(execute_POPA(m, junk), m)
<1>1. {EAX, ECX, EDX, EBX, ESP, EBP, ESI, EDI} \subseteq Gpr
  BY DEF EAX, ECX, EDX, EBX, ESP, EBP, ESI, EDI, Gpr
<1>2. ASSUME NEW n, Same(n, m), NEW r \in Gpr PROVE Same(ThenPush(n, r), m)
  BY <1>2, PushKeepsStatus DEF ThenPush, Then, Same
<1>3. ASSUME NEW n, Same(n, m), NEW a \in Gpr, NEW b \in Gpr, NEW c \in Gpr, NEW d \in Gpr
      PROVE  Same(PushFour(n, a, b, c, d), m)
  BY <1>2, <1>3 DEF PushFour
<1>4. ASSUME NEW n, Same(n, m), NEW r \in Gpr, NEW junk \in JunkDword
      PROVE  Same(ThenPop(n, r, junk), m)
  BY <1>4, PopKeepsStatus DEF ThenPop, Then, Same
<1>5. ASSUME NEW n, Same(n, m), NEW a \in Gpr, NEW b \in Gpr, NEW c \in Gpr, NEW d \in Gpr,
             NEW junk \in JunkDword
      PROVE  Same(PopFour(n, a, b, c, d, junk), m)
  BY <1>4, <1>5 DEF PopFour
<1>6. Same(m, m)
  BY DEF Same
<1>7. Same(execute_PUSHA(m), m)
  BY <1>1, <1>3, <1>6 DEF execute_PUSHA
<1>8. \A junk \in JunkDword : Same(execute_POPA(m, junk), m)
  BY <1>1, <1>5, <1>6 DEF execute_POPA
<1> QED BY <1>7, <1>8

LEMMA JumpsKeepStatus ==
  ASSUME NEW m \in Machines, NEW i \in Instruction
  PROVE  /\ Same(jmp_rel(m, i), m) /\ Same(call_rel(m, i), m)
         /\ RmFound(m, i) => Same(call_rm(m, i), m) /\ Same(jmp_rm(m, i), m)
<1>1. EIP \in Gpr
  BY DEF EIP, Gpr
<1>2. ASSUME NEW n \in Machines PROVE Same(jmp_rel(n, i), n)
  <2>1. SignExtend(i.imm, i.imm_length) \in Int
    BY InstructionParts, SignExtendType, WordSizes DEF Dword
  <2> QED BY <1>1, <2>1, RegistersKeepStatus DEF jmp_rel
<1>3. Same(push_gpr(m, EIP), m)
  BY <1>1, PushKeepsStatus
<1>4. Same(call_rel(m, i), m)
  BY <1>2, <1>3 DEF call_rel, Then, Same
<1>5. ASSUME RmFound(m, i) PROVE Same(call_rm(m, i), m)
  BY <1>1, <1>3, <1>5, OperandType, RegistersKeepStatus DEF call_rm, Then, Same
<1>6. ASSUME RmFound(m, i) PROVE Same(jmp_rm(m, i), m)
  <2>1. jmp_rm(m, i).status = m.status
    BY RegistersKeepStatus DEF jmp_rm, Machines, Same
  <2> QED BY <1>6, <2>1, IndirectJumpType DEF Same
<1> QED BY <1>2, <1>4, <1>5, <1>6

LEMMA QuietRun ==
  ASSUME ExecutorTypeOK, NEW i \in Instruction, NEW handler, NEW n,
         Runs(i, handler, n), Same(n, Fetched(i))
  PROVE  status' = status
<1>1. Fetched(i).status = status
  BY MachineType DEF Fetched, AddTo, Machine, Machines
<1> QED BY <1>1 DEF Runs, Same

LEMMA StatusKept ==
  ASSUME ExecutorTypeOK, NEW i \in Instruction, Execute(i),
         i.handler \notin {"ALU_RM_R", "ALU_R_RM", "INC_R", "GRP5", "CLC", "STC"}
  PROVE  status' = status
<1> DEFINE m == Fetched(i)
<1>1. /\ m \in Machines /\ Same(m, m)
      /\ i.reg \in Gpr /\ i.width \in Width /\ i.imm \in Dword /\ i.imm \in Int
      /\ EIP \in Gpr
  BY MachineType, InstructionParts, WordSizes DEF Dword, EIP, Gpr, Same
<1> HIDE DEF m
<1>2. ASSUME NEW handler, NEW n, Runs(i, handler, n), Same(n, m) PROVE status' = status
  BY <1>2, QuietRun DEF m
<1>3. ASSUME MovRmR(i) PROVE status' = status
  <2>1. Same(WriteTo(m, i, gpr_w_handler(m, i.reg, i.width)), m)
    BY <1>1, GprReadType, WritesKeepStatus
  <2> QED BY <1>2, <1>3, <2>1 DEF MovRmR, m
<1>4. ASSUME MovRRm(i) PROVE status' = status
  <2> DEFINE n == IF RmFound(m, i)
                  THEN set_gpr_w_handler(m, i.reg, i.width, read_rm_op(m, i))
                  ELSE Fails(m, "BUS_READ_FAILURE")
  <2>1. Same(n, m)
    BY <1>1, OperandType, RegistersKeepStatus DEF ReturnCode
  <2> QED BY <1>2, <1>4, <2>1 DEF MovRRm, m
<1>5. ASSUME MovRImm(i) PROVE status' = status
  <2>1. Same(set_gpr_w_handler(m, i.reg, i.width, i.imm), m)
    BY <1>1, RegistersKeepStatus
  <2> QED BY <1>2, <1>5, <2>1 DEF MovRImm, m
<1>6. ASSUME PushR(i) \/ PushImm(i) \/ PushA(i) PROVE status' = status
  <2>1. Same(push_gpr(m, i.reg), m) /\ Same(Push(m, i.width, i.imm), m)
        /\ Same(execute_PUSHA(m), m)
    BY <1>1, PushKeepsStatus, AllRegistersKeepStatus
  <2> QED BY <1>2, <1>6, <2>1 DEF PushR, PushImm, PushA, m
<1>7. ASSUME PopR(i) \/ PopA(i) \/ Ret(i) PROVE status' = status
  <2>1. PICK junk \in JunkDword : \/ Runs(i, "POP_R", pop_gpr(m, i.reg, junk))
                                  \/ Runs(i, "POPA", execute_POPA(m, junk))
                                  \/ Runs(i, "RET", pop_gpr(m, EIP, junk))
    BY <1>7 DEF PopR, PopA, Ret, m
  <2>2. Same(pop_gpr(m, i.reg, junk), m) /\ Same(execute_POPA(m, junk), m)
        /\ Same(pop_gpr(m, EIP, junk), m)
    BY <1>1, PopKeepsStatus, AllRegistersKeepStatus
  <2> QED BY <1>2, <2>1, <2>2
<1>8. ASSUME Jcc(i) \/ Jmp(i) \/ Call(i) PROVE status' = status
  <2>1. Same(jmp_rel(m, i), m) /\ Same(call_rel(m, i), m)
        /\ Same(IF JumpTaken(i.condition, m.status) THEN jmp_rel(m, i) ELSE m, m)
    BY <1>1, JumpsKeepStatus
  <2> QED BY <1>2, <1>8, <2>1 DEF Jcc, Jmp, Call, m
<1>9. ASSUME Hlt(i) \/ Unimplemented(i) PROVE status' = status
  <2>1. Same([m EXCEPT !.halt = TRUE], m) /\ Same(Fails(m, "UNIMPLEMENTED_INSTRUCTION"), m)
    BY <1>1, RegistersKeepStatus DEF ReturnCode, Same, Machines
  <2> QED BY <1>2, <1>9, <2>1 DEF Hlt, Unimplemented, m
<1>10. ~ (AluRmR(i) \/ AluRRm(i) \/ IncR(i) \/ Grp5(i) \/ Clc(i) \/ Stc(i))
  BY DEF AluRmR, AluRRm, IncR, Grp5, Clc, Stc, Runs
<1>11. Execute(i)
  OBVIOUS
<1> QED
  BY ONLY <1>3, <1>4, <1>5, <1>6, <1>7, <1>8, <1>9, <1>10, <1>11 DEF Execute

(* INC and DEC write every flag but CF.                                    *)
LEMMA StepKeepsCarry ==
  ASSUME NEW n \in Machines, NEW opclass \in {"INC", "DEC"}, NEW flags
  PROVE  "CF" \in WithFlags(n, opclass, flags).status <=> "CF" \in n.status
<1>1. PolicyWrite(opclass) = Flag \ {"CF"}
  BY DEF PolicyWrite, Logic
<1>2. WithFlags(n, opclass, flags).status = update_status_register(n.status, opclass, flags)
  BY DEF WithFlags, Machines
<1> QED BY <1>1, <1>2 DEF update_status_register

LEMMA CarryKeptByStep ==
  ASSUME ExecutorTypeOK, NEW i \in Instruction, Execute(i), i.handler \in {"INC_R", "GRP5"}
  PROVE  "CF" \in status' <=> "CF" \in status
<1> DEFINE m == Fetched(i)
           Keeps(n) == "CF" \in n.status <=> "CF" \in m.status
<1>1. m \in Machines /\ m.status = status
  BY MachineType DEF Fetched, AddTo, Machine, Machines
<1>2. DwordBits \in Width /\ i.reg \in Gpr /\ 0 \in Dword
  BY InstructionParts, ByteIsDword DEF Width
<1>3. ASSUME NEW opclass \in {"INC", "DEC"}, NEW x \in Dword
      PROVE  ALU(x, 0, 0, DwordBits, opclass).low \in Dword
  <2>1. opclass \in Opclass
    BY DEF Opclass, Carries, Borrows
  <2> QED BY <1>2, <2>1, AluType
<1> HIDE DEF m
<1>4. CASE IncR(i)
  <2>1. PICK junk \in JunkFlags : Runs(i, "INC_R", alu_increment_register(m, i, junk))
    BY <1>4 DEF IncR, m
  <2> DEFINE out == ALU(m.gpr[i.reg], 0, 0, DwordBits, "INC")
             n   == set_gpr_w_handler(m, i.reg, DwordBits, out.low)
  <2>2. out.low \in Dword
    BY <1>1, <1>2, <1>3, GprReadType
  <2>3. alu_increment_register(m, i, junk) = WithFlags(n, "INC", out.flags \cup junk)
    BY DEF alu_increment_register
  <2> HIDE DEF out
  <2>4. Same(n, m)
    BY <1>1, <1>2, <2>2, RegistersKeepStatus
  <2> HIDE DEF n
  <2>5. "CF" \in alu_increment_register(m, i, junk).status <=> "CF" \in m.status
    BY <2>3, <2>4, StepKeepsCarry DEF Same
  <2> QED BY <1>1, <2>1, <2>5 DEF Runs
<1>5. CASE Grp5(i)
  <2>1. ASSUME RmFound(m, i), NEW opclass \in {"INC", "DEC"}
        PROVE  Keeps(step_rm(m, i, opclass))
    <3> DEFINE out == ALU(read_rm_op(m, i), 0, 0, DwordBits, opclass)
               n   == write_rm_dst(m, i, out.low)
    <3>1. out.low \in Dword
      BY <1>1, <1>3, <2>1, OperandType
    <3>2. step_rm(m, i, opclass) = Then(n, WithFlags(n, opclass, out.flags))
      BY DEF step_rm
    <3> HIDE DEF out
    <3>3. Same(n, m)
      BY <1>1, <3>1, WritesKeepStatus
    <3> HIDE DEF n
    <3> QED BY <3>2, <3>3, StepKeepsCarry DEF Same, Then
  <2>2. /\ Keeps(Fails(m, "BUS_READ_FAILURE")) /\ Keeps(Fails(m, "UNIMPLEMENTED_INSTRUCTION"))
        /\ RmFound(m, i) => Keeps(call_rm(m, i)) /\ Keeps(jmp_rm(m, i))
    BY <1>1, RegistersKeepStatus, JumpsKeepStatus DEF Same, ReturnCode
  <2>3. Runs(i, "GRP5", execute_GRP5(m, i))
    BY <1>5 DEF Grp5, m
  <2>4. Keeps(execute_GRP5(m, i))
    <3>1. /\ RmFound(m, i) => Keeps(step_rm(m, i, "INC"))
          /\ RmFound(m, i) => Keeps(step_rm(m, i, "DEC"))
      BY <2>1
    <3> HIDE DEF Keeps
    <3> QED BY <2>2, <3>1 DEF execute_GRP5
  <2> QED BY <1>1, <2>3, <2>4 DEF Runs
<1>6. IncR(i) \/ Grp5(i)
  BY DEF Execute, AluRmR, AluRRm, MovRmR, MovRRm, MovRImm, PushR, PushImm, PushA, PopR, PopA,
         Ret, Jcc, Jmp, Call, Clc, Stc, Hlt, Unimplemented, Runs
<1> QED BY <1>4, <1>5, <1>6

-----------------------------------------------------------------------------
(* The operation of a step. *)

(* What an operation is, if its flags are those of the status register.    *)
IsOperation(op) ==
  /\ op.opclass \in TwoOperand /\ op.width \in Width
  /\ op.a \in 0..Modulus(op.width)-1 /\ op.b \in 0..Modulus(op.width)-1
  /\ op.cin \in {0, 1}
  /\ op.opclass \notin {"ADC", "SBB"} => op.cin = 0

FlagsOf(op) == PotentialFlags(op.opclass, op.a, op.b, op.cin, op.width)

LEMMA MaskType ==
  ASSUME NEW x \in Dword, NEW width \in Width
  PROVE  op_mask(x, width) \in 0..Modulus(width)-1
<1>1. x \in Int /\ x \in 0..DWORD-1 /\ x % BYTE \in 0..BYTE-1
  BY WordSizes DEF Dword
<1>2. DwordBits # ByteBits
  BY WordSizes DEF DwordBits
<1> QED BY <1>1, <1>2 DEF op_mask, Modulus, Width

LEMMA RegisterOperation ==
  ASSUME ExecutorTypeOK, NEW i \in Instruction, Execute(i),
         i.handler \in {"ALU_RM_R", "ALU_R_RM"}, i.mod = 3, i.opclass \in TwoOperand
  PROVE  LET op == Operation(i)
         IN /\ IsOperation(op)
            /\ status' = update_status_register(status, op.opclass, FlagsOf(op))
<1> DEFINE m  == Fetched(i)
           x  == read_rm_op(m, i)
           y  == gpr_w_handler(m, i.reg, i.width)
           c  == Cin(m, i.opclass)
           o  == i.opclass
           w  == i.width
           op == Operation(i)
<1>1. m \in Machines /\ m.status = status /\ m.rc = rc /\ rc = "EXECUTE_SUCCESS"
  <2>1. Running
    BY DEF Execute, AluRmR, AluRRm, IncR, MovRmR, MovRRm, MovRImm, PushR, PushImm, PushA, PopR,
           PopA, Ret, Jcc, Jmp, Call, Grp5, Clc, Stc, Hlt, Unimplemented, Runs
  <2> QED BY <2>1, MachineType DEF Fetched, AddTo, Machine, Machines, Running
<1>2. RmFound(m, i)
  BY DEF RmFound
<1>3. x \in Dword /\ y \in Dword /\ c \in {0, 1}
  BY <1>1, <1>2, OperandsAre
<1>4. o \notin {"ADC", "SBB"} => c = 0
  BY DEF Cin
<1>5. w \in Width /\ o \in Opclass /\ o \in TwoOperand /\ i.reg \in Gpr /\ i.rm \in Gpr
  BY InstructionParts
<1>6. op_mask(x, w) \in 0..Modulus(w)-1 /\ op_mask(y, w) \in 0..Modulus(w)-1
  BY <1>3, <1>5, MaskType
<1>7. ASSUME NEW n, Same(n, m), NEW p, NEW q,
             LET out == ALU(p, q, c, w, o)
             IN  status' = WithFlags(n, o, out.flags).status
      PROVE  status' = update_status_register(status, o,
                         PotentialFlags(o, op_mask(p, w), op_mask(q, w), c, w))
  <2>1. ALU(p, q, c, w, o).flags = PotentialFlags(o, op_mask(p, w), op_mask(q, w), c, w)
    BY DEF ALU
  <2>2. \A f : WithFlags(n, o, f).status = update_status_register(n.status, o, f)
    BY <1>7 DEF WithFlags, Same, Machines
  <2> QED BY <1>1, <1>7, <2>1, <2>2 DEF Same
<1>8. AluRmR(i) \/ AluRRm(i)
  BY DEF Execute, AluRmR, AluRRm, IncR, MovRmR, MovRRm, MovRImm, PushR, PushImm, PushA, PopR,
         PopA, Ret, Jcc, Jmp, Call, Grp5, Clc, Stc, Hlt, Unimplemented, Runs
<1>9. CASE AluRmR(i)
  <2> DEFINE out == ALU(x, y, c, w, o)
             n   == IF ThrowsResult(o) THEN m ELSE write_rm_dst(m, i, out.low)
  <2>1. out.low \in Dword
    BY <1>3, <1>5, AluType
  <2>2. i.handler = "ALU_RM_R" /\ status' = alu_two_op_rm_r(m, i).status
    BY <1>9 DEF AluRmR, Runs
  <2>3. alu_two_op_rm_r(m, i) = Then(n, WithFlags(n, o, out.flags))
    BY <1>2 DEF alu_two_op_rm_r
  <2>4. Same(n, m) /\ n.rc = m.rc
    <3>1. Same(m, m)
      BY <1>1 DEF Same
    <3> HIDE DEF out
    <3>2. Same(write_rm_dst(m, i, out.low), m)
      BY <1>1, <2>1, WritesKeepStatus
    <3>3. write_rm_dst(m, i, out.low).rc = m.rc
      BY <1>1 DEF write_rm_dst, WriteTo, set_gpr_w_handler, Machines
    <3> QED BY <3>1, <3>2, <3>3
  <2>5. op = [opclass |-> o, width |-> w, a |-> op_mask(x, w), b |-> op_mask(y, w), cin |-> c]
    BY <2>2 DEF Operation
  <2> HIDE DEF n, out, op, x, y, c, m
  <2>6. status' = WithFlags(n, o, out.flags).status
    BY <1>1, <2>2, <2>3, <2>4 DEF Then, Ok
  <2>7. status' = update_status_register(status, o,
                    PotentialFlags(o, op_mask(x, w), op_mask(y, w), c, w))
    BY <1>7, <2>4, <2>6 DEF out
  <2>8. /\ op.opclass = o /\ op.width = w /\ op.cin = c
        /\ op.a = op_mask(x, w) /\ op.b = op_mask(y, w)
    BY ONLY <2>5
  <2> QED BY <1>3, <1>4, <1>5, <1>6, <2>7, <2>8 DEF IsOperation, FlagsOf, op
<1>10. CASE AluRRm(i)
  <2> DEFINE out == ALU(y, x, c, w, o)
             n   == IF ThrowsResult(o) THEN m ELSE set_gpr_w_handler(m, i.reg, w, out.low)
  <2>1. out.low \in Dword
    BY <1>3, <1>5, AluType
  <2>2. i.handler = "ALU_R_RM" /\ status' = alu_two_op_r_rm(m, i).status
    BY <1>10 DEF AluRRm, Runs
  <2>3. alu_two_op_r_rm(m, i) = WithFlags(n, o, out.flags)
    BY <1>2 DEF alu_two_op_r_rm
  <2>4. Same(n, m)
    <3>1. Same(m, m)
      BY <1>1 DEF Same
    <3> HIDE DEF out
    <3>2. Same(set_gpr_w_handler(m, i.reg, w, out.low), m)
      BY <1>1, <1>5, <2>1, RegistersKeepStatus
    <3> QED BY <3>1, <3>2
  <2>5. op = [opclass |-> o, width |-> w, a |-> op_mask(y, w), b |-> op_mask(x, w), cin |-> c]
    BY <2>2 DEF Operation
  <2> HIDE DEF n, out, op, x, y, c, m
  <2>6. status' = WithFlags(n, o, out.flags).status
    BY <2>2, <2>3
  <2>7. status' = update_status_register(status, o,
                    PotentialFlags(o, op_mask(y, w), op_mask(x, w), c, w))
    BY <1>7, <2>4, <2>6 DEF out
  <2>8. /\ op.opclass = o /\ op.width = w /\ op.cin = c
        /\ op.a = op_mask(y, w) /\ op.b = op_mask(x, w)
    BY ONLY <2>5
  <2> QED BY <1>3, <1>4, <1>5, <1>6, <2>7, <2>8 DEF IsOperation, FlagsOf, op
<1> QED BY <1>8, <1>9, <1>10

-----------------------------------------------------------------------------
(* The flags of an operation. *)

(* CF is the carry or the borrow, unless the borrow wraps.                 *)
LEMMA CarryFlag ==
  ASSUME NEW op, IsOperation(op), op.opclass \notin Logic, ~BorrowWraps(op)
  PROVE  /\ "CF" \in FlagsOf(op) <=> TrueCarry(op)
         /\ \A s : "CF" \in update_status_register(s, op.opclass, FlagsOf(op))
                     <=> "CF" \in FlagsOf(op)
<1> DEFINE o == op.opclass
           a == op.a
           b == op.b
           c == op.cin
           w == op.width
<1>1. o \in {"ADD", "ADC", "SUB", "SBB", "CMP"}
  BY DEF IsOperation, TwoOperand, Opclass, Carries, Borrows
<1>2. BYTE \in Nat /\ DWORD \in Nat /\ BYTE > 0 /\ BYTE <= DWORD /\ DWORD > 1
  BY WordSizes, ByteIsDword DEF Byte, Dword
<1>3. /\ a \in 0..Modulus(w)-1 /\ b \in 0..Modulus(w)-1 /\ c \in {0, 1}
      /\ o \notin {"ADC", "SBB"} => c = 0
  BY DEF IsOperation
<1>4. a \in 0..DWORD-1 /\ b \in 0..DWORD-1
  BY <1>2, <1>3 DEF Modulus
<1>5. o = "SBB" => b + c # DWORD
  BY DEF BorrowWraps
<1>6. "CF" \in Flag
  BY DEF Flag
<1>11. FlagsOf(op) = PotentialFlags(o, a, b, c, w)
  BY DEF FlagsOf
<1> HIDE DEF o, a, b, c, w
<1>7. ASSUME o \in Carries PROVE "CF" \in FlagsOf(op) <=> TrueCarry(op)
  <2>1. o \in {"ADD", "ADC"} /\ o \notin Borrows
    BY <1>1, <1>7 DEF Carries, Borrows
  <2>2. Total(o, a, b, c) = a + b + c
    BY <1>3, <1>4, <2>1 DEF Total
  <2>3. "CF" \in PotentialFlags(o, a, b, c, w) <=> a + b + c >= Modulus(w)
    BY <1>6, <1>7, <2>1, <2>2 DEF PotentialFlags, is_carry, Modulus
  <2> QED BY ONLY <1>11, <2>1, <2>3, Zenon DEF TrueCarry, o, a, b, c, w
<1>8. ASSUME o \notin Carries PROVE "CF" \in FlagsOf(op) <=> TrueCarry(op)
  <2>1. o \in {"SUB", "SBB", "CMP"} /\ o \in Borrows
    BY <1>1, <1>8 DEF Carries, Borrows
  <2>2. b + c \in 0..DWORD-1
    BY <1>2, <1>3, <1>4, <1>5, <2>1
  <2>3. (b + c) % DWORD = b + c
    BY <1>2, <2>2
  <2>4. "CF" \in PotentialFlags(o, a, b, c, w) <=> a < b + c
    BY <1>6, <1>8, <2>1, <2>3 DEF PotentialFlags, is_borrow
  <2> QED BY ONLY <1>11, <2>1, <2>4, Zenon DEF TrueCarry, o, a, b, c, w
<1>9. PolicyWrite(o) = Flag
  BY <1>1 DEF PolicyWrite, Logic
<1>10. \A s, f : "CF" \in update_status_register(s, o, f) <=> "CF" \in f
  BY <1>6, <1>9 DEF update_status_register
<1> QED BY <1>7, <1>8, <1>10 DEF o

(* After a comparison ZF tells equality, and SF or OF the order of         *)
(* dwords in the lower half.                                               *)
LEMMA CompareFlags ==
  ASSUME NEW op, IsOperation(op), Compares(op)
  PROVE  /\ op.a \in Dword /\ op.b \in Dword /\ op.cin = 0
         /\ \A s : LET t == update_status_register(s, op.opclass, FlagsOf(op))
                   IN /\ "ZF" \in t <=> op.a = op.b
                      /\ (op.width = DwordBits /\ 2 * op.a < DWORD /\ 2 * op.b < DWORD) =>
                           (("SF" \in t \/ "OF" \in t) <=> op.a < op.b)
<1> DEFINE o == op.opclass
           a == op.a
           b == op.b
           w == op.width
           x == Low(o, a, b, 0)
           H == 2^(DwordBits-1)
<1>1. o \in {"SUB", "CMP"} /\ o \notin Carries /\ o \notin Logic /\ o \notin {"INC", "DEC"}
  BY DEF Compares, Carries, Logic
<1>2. op.cin = 0
  BY <1>1 DEF IsOperation
<1>3. BYTE \in Nat /\ DWORD \in Nat /\ BYTE > 0 /\ BYTE <= DWORD /\ DWORD > 1
  BY WordSizes, ByteIsDword DEF Byte, Dword
<1>4. a \in 0..DWORD-1 /\ b \in 0..DWORD-1
  BY <1>3 DEF Modulus, IsOperation
<1>5. FlagsOf(op) = PotentialFlags(o, a, b, 0, w)
  BY <1>2 DEF FlagsOf
<1>6. \A s, f : f \in Flag =>
        (f \in update_status_register(s, o, FlagsOf(op)) <=> f \in FlagsOf(op))
  <2>1. PolicyWrite(o) = Flag
    BY <1>1 DEF PolicyWrite, Logic
  <2> HIDE DEF o
  <2> QED BY <2>1 DEF update_status_register
<1>7. "ZF" \in Flag /\ "SF" \in Flag /\ "OF" \in Flag
  BY DEF Flag
<1>8. /\ H \in Nat /\ H > 0 /\ DWORD = 2 * H
      /\ \A y \in 0..DWORD-1 : Sign(y, DwordBits) = (IF y < H THEN 0 ELSE 1)
  <2>1. DwordBits - 1 \in Nat /\ DwordBits = (DwordBits - 1) + 1
    BY WordSizes
  <2>2. H \in Nat /\ H > 0 /\ DWORD = 2 * H
    BY <2>1, DwordIsPower, PowerDoubles, PowerPositive
  <2>3. \A y : Sign(y, DwordBits) = (y \div H) % 2
    BY DEF Sign, Bit
  <2> HIDE DEF H
  <2>4. ASSUME NEW y \in 0..DWORD-1 PROVE (y \div H) % 2 = (IF y < H THEN 0 ELSE 1)
    <3>1. CASE y < H
      <4>1. y = H * 0 + y /\ y \in 0..H-1 /\ y \in Int
        BY <2>2, <3>1
      <4>2. y \div H = 0
        BY <2>2, <4>1, QuotientIs
      <4> QED BY <3>1, <4>2
    <3>2. CASE y >= H
      <4>1. y = H * 1 + (y - H) /\ y - H \in 0..H-1 /\ y \in Int
        BY <2>2, <3>2
      <4>2. y \div H = 1
        BY <2>2, <4>1, QuotientIs
      <4>3. ~ (y < H)
        BY <2>2, <3>2
      <4> QED BY <4>2, <4>3
    <3> QED BY <2>2, <3>1, <3>2
  <2> QED BY <2>2, <2>3, <2>4
<1> HIDE DEF o, a, b, w, H
<1>9. x = (IF a >= b THEN a - b ELSE a - b + DWORD)
  <2>1. Total(o, a, b, 0) = a - b
    BY <1>1 DEF Total
  <2> QED BY <1>3, <1>4, <2>1, DifferenceCut DEF Low
<1> HIDE DEF x
<1>10. /\ "ZF" \in FlagsOf(op) <=> x = 0
       /\ "SF" \in FlagsOf(op) <=> Sign(x, w) = 1
       /\ "OF" \in FlagsOf(op) <=> is_overflow(a, b, x)
  BY <1>5, <1>7 DEF PotentialFlags, x
<1>11. x = 0 <=> a = b
  BY <1>3, <1>4, <1>9
<1>12. ASSUME w = DwordBits, 2 * a < DWORD, 2 * b < DWORD
       PROVE  ("SF" \in FlagsOf(op) \/ "OF" \in FlagsOf(op)) <=> a < b
  <2>1. x \in 0..DWORD-1
    BY <1>3, <1>4, <1>9
  <2>2. a < H /\ b < H
    BY <1>4, <1>8, <1>12
  <2>3. x < H <=> ~ (a < b)
    BY <1>4, <1>8, <1>9, <1>12
  <2>4. Sign(x, DwordBits) = (IF x < H THEN 0 ELSE 1)
    BY <1>8, <2>1
  <2>5. Sign(a, DwordBits) = 0
    BY <1>4, <1>8, <2>2
  <2>6. is_overflow(a, b, x) => ~ (x < H)
    BY <2>4, <2>5 DEF is_overflow
  <2>7. Sign(x, w) = 1 <=> ~ (x < H)
    BY <1>12, <2>4
  <2> QED BY ONLY <1>10, <2>3, <2>6, <2>7
<1>13. \A s : LET t == update_status_register(s, o, FlagsOf(op))
              IN /\ "ZF" \in t <=> a = b
                 /\ (w = DwordBits /\ 2 * a < DWORD /\ 2 * b < DWORD) =>
                      (("SF" \in t \/ "OF" \in t) <=> a < b)
  BY ONLY <1>6, <1>7, <1>10, <1>11, <1>12, Zenon
<1> QED BY <1>2, <1>4, <1>13 DEF o, a, b, w, Dword

-----------------------------------------------------------------------------
(* Programs. *)

(* Any instructions, but two-operand arithmetic on registers only (a       *)
(* failing operand would leave the flags of the operation before), and     *)
(* CLC and STC as the decoder fills them in.                               *)
FlagInstr ==
  {i \in Instruction :
     /\ i.handler \in {"ALU_RM_R", "ALU_R_RM"} => i.mod = 3 /\ i.opclass \in TwoOperand
     /\ i.handler \in {"CLC", "STC"} => i \in CarryOps}

(* The programs of the runs are such programs.                             *)
LEMMA RunsAreFlagPrograms == Instr \subseteq ArithInstr => Instr \subseteq FlagInstr
<1> SUFFICES ASSUME NEW i \in Instruction, i \in ArithInstr PROVE i \in FlagInstr
  BY InstrAssumption
<1>1. CASE i \in CarryOps
  <2>1. PICK h \in {"CLC", "STC"} : i = [Blank EXCEPT !.handler = h]
    BY <1>1 DEF CarryOps
  <2>2. i.handler \in {"CLC", "STC"}
    BY <2>1 DEF Blank
  <2> QED BY <1>1, <2>2 DEF FlagInstr
<1>2. CASE i \in Operations
  <2>1. PICK h \in {"ALU_RM_R", "ALU_R_RM"}, o \in TwoOperand, w \in Width : i = TwoOp(h, o, w)
    BY <1>2 DEF Operations
  <2>2. i.handler = h /\ i.mod = 3 /\ i.opclass = o
    BY <2>1 DEF TwoOp, Blank
  <2> QED BY <2>1, <2>2 DEF FlagInstr
<1>3. CASE i.handler \notin {"ALU_RM_R", "ALU_R_RM", "CLC", "STC"}
  BY <1>3 DEF FlagInstr
<1>4. ASSUME i \in Jumps PROVE i.handler = "JCC"
  <2>1. PICK c \in Condition : i = JumpOn(c)
    BY <1>4 DEF Jumps
  <2> QED BY <2>1 DEF JumpOn, Blank
<1>5. ASSUME i \in Steps PROVE i.handler \in {"GRP5", "INC_R"}
  <2>1. \/ \E op \in {0, 1} : i = [Blank EXCEPT !.handler = "GRP5", !.reg = op, !.rm = ECX]
        \/ i = [Blank EXCEPT !.handler = "INC_R", !.reg = ECX]
    BY <1>5 DEF Steps
  <2> QED BY <2>1 DEF Blank
<1>6. ASSUME i \in Moves PROVE i.handler \in {"MOV_R_IMM", "MOV_RM_R", "MOV_R_RM"}
  <2>1. CASE \E r \in {EAX, ECX}, x \in Words : i = Load(r, x)
    <3>1. \A r, x : Load(r, x).handler = "MOV_R_IMM"
      BY DEF Load, Blank
    <3> QED BY <2>1, <3>1
  <2>2. CASE i \in {[Blank EXCEPT !.handler = h, !.reg = EAX, !.rm = ECX] :
                      h \in {"MOV_RM_R", "MOV_R_RM"}}
    BY <2>2 DEF Blank
  <2> QED BY <1>6, <2>1, <2>2 DEF Moves
<1> QED BY <1>1, <1>2, <1>3, <1>4, <1>5, <1>6 DEF ArithInstr

(* What the flags tell of the operations that defined them.                *)
CarryTells(op) ==
  op.a \in Dword /\ op.b \in Dword /\ ("CF" \in status <=> op.a < op.b)

FlagsTell ==
  /\ CarryKept
  /\ Compares(carrier) => CarryTells(carrier)
  /\ Compares(flagger) =>
       /\ CarryTells(flagger)
       /\ "ZF" \in status <=> flagger.a = flagger.b
       /\ (flagger.width = DwordBits /\ 2 * flagger.a < DWORD /\ 2 * flagger.b < DWORD) =>
            (("SF" \in status \/ "OF" \in status) <=> flagger.a < flagger.b)

LEMMA FlagsInit == ArithInit => FlagsTell
<1>1. None.opclass = "none"
  BY DEF None
<1> QED BY <1>1 DEF ArithInit, FlagsTell, CarryKept, Compares

(* What the history variables remember of an instruction.                  *)
LEMMA Remembered ==
  ASSUME NEW i \in FlagInstr, Remembers(i)
  PROVE  /\ i.handler \in {"CLC", "STC"} => carrier' = None /\ flagger' = None
         /\ i.handler \in {"INC_R", "GRP5"} => carrier' = carrier /\ flagger' = [opclass |-> "INC"]
         /\ (i.handler \in {"ALU_RM_R", "ALU_R_RM"} /\ IsOperation(Operation(i))) =>
              /\ flagger' = Operation(i)
              /\ carrier' = IF Operation(i).opclass \in Logic THEN None ELSE Operation(i)
         /\ i.handler \notin {"CLC", "STC", "INC_R", "GRP5", "ALU_RM_R", "ALU_R_RM"} =>
              carrier' = carrier /\ flagger' = flagger
<1>1. i.handler \notin {"CLC", "STC"} => i \notin CarryOps
  <2> SUFFICES ASSUME i \in CarryOps PROVE i.handler \in {"CLC", "STC"}
    OBVIOUS
  <2>1. PICK h \in {"CLC", "STC"} : i = [Blank EXCEPT !.handler = h]
    BY DEF CarryOps
  <2> QED BY <2>1 DEF Blank
<1>2. i.handler \in {"CLC", "STC"} => i \in CarryOps
  BY DEF FlagInstr
<1>3. None.opclass = "none"
  BY DEF None
<1>4. CASE i.handler \in {"CLC", "STC"}
  BY <1>2, <1>4 DEF Remembers
<1>5. CASE i.handler \in {"INC_R", "GRP5"}
  <2>1. Operation(i) = [opclass |-> "INC"]
    BY <1>5 DEF Operation
  <2>2. Operation(i).opclass = "INC"
    BY <2>1
  <2>3. Operation(i) # None
    BY <1>3, <2>2
  <2> QED BY <1>1, <1>5, <2>1, <2>2, <2>3 DEF Remembers
<1>6. CASE i.handler \in {"ALU_RM_R", "ALU_R_RM"}
  <2> SUFFICES ASSUME IsOperation(Operation(i))
               PROVE  /\ flagger' = Operation(i)
                      /\ carrier' = IF Operation(i).opclass \in Logic THEN None ELSE Operation(i)
    BY <1>6
  <2>1. Operation(i).opclass \notin {"none", "INC"}
    BY DEF IsOperation, TwoOperand, Opclass, Carries, Borrows, Logic
  <2>2. Operation(i) # None
    BY <1>3, <2>1
  <2> QED BY <1>1, <1>6, <2>1, <2>2 DEF Remembers
<1>7. CASE i.handler \notin {"CLC", "STC", "INC_R", "GRP5", "ALU_RM_R", "ALU_R_RM"}
  <2>1. Operation(i) = None
    BY <1>7 DEF Operation
  <2> QED BY <1>1, <1>7, <2>1 DEF Remembers
<1> QED BY <1>4, <1>5, <1>6, <1>7

LEMMA FlagsStep ==
  ASSUME ExecutorTypeOK, FlagsTell, NEW i \in FlagInstr, Execute(i), Remembers(i)
  PROVE  FlagsTell'
<1>1. i \in Instruction
  BY DEF FlagInstr
<1>2. None.opclass = "none" /\ [opclass |-> "INC"].opclass = "INC"
  BY DEF None
<1>3. CASE i.handler \in {"CLC", "STC"}
  <2>1. carrier' = None /\ flagger' = None
    BY <1>3, Remembered
  <2> QED BY <1>2, <2>1 DEF FlagsTell, CarryKept, Compares
<1>4. CASE i.handler \in {"INC_R", "GRP5"}
  <2>1. carrier' = carrier /\ flagger' = [opclass |-> "INC"]
    BY <1>4, Remembered
  <2>2. "CF" \in status' <=> "CF" \in status
    BY <1>1, <1>4, CarryKeptByStep
  <2>3. ~Compares(flagger')
    BY <1>2, <2>1 DEF Compares
  <2>4. CarryKept' /\ (Compares(carrier) => CarryTells(carrier)')
    BY <2>1, <2>2 DEF FlagsTell, CarryKept, CarryTells
  <2> QED BY <2>1, <2>3, <2>4 DEF FlagsTell
<1>5. CASE i.handler \in {"ALU_RM_R", "ALU_R_RM"}
  <2>0. PICK op : op = Operation(i)
    OBVIOUS
  <2>1. IsOperation(op) /\ status' = update_status_register(status, op.opclass, FlagsOf(op))
    BY <1>1, <1>5, <2>0, RegisterOperation DEF FlagInstr
  <2>2. flagger' = op /\ carrier' = IF op.opclass \in Logic THEN None ELSE op
    BY <1>5, <2>0, <2>1, Remembered
  <2>3. (op.opclass \notin Logic /\ ~BorrowWraps(op)) => ("CF" \in status' <=> TrueCarry(op))
    BY <2>1, CarryFlag
  <2>4. ASSUME Compares(op)
        PROVE  /\ CarryTells(op)' /\ op.opclass \notin Logic
               /\ "ZF" \in status' <=> op.a = op.b
               /\ (op.width = DwordBits /\ 2 * op.a < DWORD /\ 2 * op.b < DWORD) =>
                    (("SF" \in status' \/ "OF" \in status') <=> op.a < op.b)
    <3>1. op.opclass \notin Logic /\ op.opclass \in Borrows /\ ~BorrowWraps(op)
      BY <2>4 DEF Compares, Logic, Borrows, BorrowWraps
    <3>2. op.a \in Dword /\ op.b \in Dword /\ op.cin = 0
      BY <2>1, <2>4, CompareFlags
    <3>3. TrueCarry(op) <=> op.a < op.b
      <4>1. op.b + op.cin = op.b
        BY <3>2, WordSizes DEF Dword
      <4> QED BY ONLY <3>1, <4>1, Zenon DEF TrueCarry
    <3>4. "CF" \in status' <=> op.a < op.b
      BY <2>3, <3>1, <3>3
    <3> QED BY <2>1, <2>4, <3>1, <3>2, <3>4, CompareFlags DEF CarryTells
  <2> QED BY <1>2, <2>2, <2>3, <2>4 DEF FlagsTell, CarryKept, Compares, CarryTells
<1>6. CASE i.handler \notin {"CLC", "STC", "INC_R", "GRP5", "ALU_RM_R", "ALU_R_RM"}
  <2>1. carrier' = carrier /\ flagger' = flagger
    BY <1>6, Remembered
  <2>2. status' = status
    BY <1>1, <1>6, StatusKept
  <2> QED BY <2>1, <2>2 DEF FlagsTell, CarryKept, CarryTells
<1> QED BY <1>3, <1>4, <1>5, <1>6

-----------------------------------------------------------------------------
(* Jumps. *)

LEMMA OneMore ==
  ASSUME NEW p \in Nat, p > 1, NEW x \in 0..p-1
  PROVE  (x + 1) % p \in 0..p-1 /\ (x + 1) % p # x
<1>1. CASE x + 1 = p
  <2>1. x + 1 = p * 1 + 0 /\ 0 \in 0..p-1 /\ x + 1 \in Int /\ p > 0
    BY <1>1
  <2>2. (x + 1) % p = 0
    BY <2>1, QuotientIs
  <2> QED BY <1>1, <2>1, <2>2
<1>2. CASE x + 1 # p
  <2>1. x + 1 = p * 0 + (x + 1) /\ x + 1 \in 0..p-1 /\ x + 1 \in Int /\ p > 0
    BY <1>2
  <2>2. (x + 1) % p = x + 1
    BY <2>1, QuotientIs
  <2> QED BY <2>1, <2>2
<1> QED BY <1>1, <1>2

(* The jump the runs use is taken when its condition holds, if a byte can  *)
(* hold the number 1 and a sign.                                           *)
LEMMA JumpTells ==
  ASSUME ByteBits > 1, ExecutorTypeOK, NEW c \in Condition, Jcc(JumpOn(c))
  PROVE  Taken <=> JumpTaken(c, status)
<1> DEFINE i == JumpOn(c)
           m == Fetched(i)
           n == AddTo(m, EIP, 1)
           e == gpr[EIP]
<1>1. i.condition = c /\ i.imm = 1 /\ i.imm_length = 1 /\ i.total_length = 1
  BY DEF JumpOn, Blank
<1>2. Runs(i, "JCC", IF JumpTaken(c, m.status) THEN jmp_rel(m, i) ELSE m)
  BY <1>1 DEF Jcc
<1> HIDE DEF i
<1>3. EIP \in Gpr /\ DWORD \in Nat /\ DWORD > 1 /\ e \in 0..DWORD-1
  BY WordSizes, ByteIsDword DEF EIP, Gpr, Dword, ExecutorTypeOK
<1>4. rc = "EXECUTE_SUCCESS"
  BY <1>2 DEF Runs, Running
<1>5. m \in Machines /\ m.status = status /\ m.rc = rc /\ m.gpr[EIP] = (e + 1) % DWORD
  <2>1. Machine \in Machines /\ Machine.gpr = gpr /\ Machine.status = status /\ Machine.rc = rc
    BY MachineType DEF Machine
  <2>2. m = AddTo(Machine, EIP, 1)
    BY <1>1 DEF Fetched
  <2>3. m \in Machines
    BY <1>3, <2>1, <2>2, AddToType
  <2> HIDE DEF m, e
  <2>4. m = [Machine EXCEPT !.gpr[EIP] = (gpr[EIP] + 1) % DWORD]
    BY <2>1, <2>2 DEF AddTo, Machines
  <2> QED BY <1>3, <2>1, <2>3, <2>4 DEF Machines, e
<1> HIDE DEF m, e
<1>6. n.gpr[EIP] = (m.gpr[EIP] + 1) % DWORD
  BY <1>3, <1>5 DEF AddTo, Machines
<1> HIDE DEF n
<1>7. n.gpr[EIP] = (e + 2) % DWORD /\ m.gpr[EIP] # (e + 2) % DWORD
  <2> DEFINE x == (e + 1) % DWORD
  <2>1. x \in 0..DWORD-1
    BY <1>3, OneMore
  <2>2. (1 + x) % DWORD = (1 + (e + 1)) % DWORD
    BY <1>3, SumCut
  <2> HIDE DEF x
  <2>3. 1 + x = x + 1 /\ 1 + (e + 1) = e + 2
    BY <1>3, <2>1
  <2>4. (x + 1) % DWORD = (e + 2) % DWORD
    BY ONLY <2>2, <2>3, Zenon
  <2>5. (x + 1) % DWORD # x
    BY <1>3, <2>1, OneMore
  <2>6. m.gpr[EIP] = x
    BY <1>5 DEF x
  <2> QED BY ONLY <1>6, <2>4, <2>5, <2>6, Zenon
<1>8. SignExtend(i.imm, i.imm_length) = 1
  <2> DEFINE k == ByteBits - 2
  <2>1. k \in Nat /\ k + 1 \in Nat /\ ByteBits = (k + 1) + 1
    BY WordSizes
  <2> HIDE DEF k
  <2>2. 2^((k + 1) + 1) = 2 * 2^(k + 1) /\ 2^(k + 1) = 2 * 2^k /\ 2^k \in Nat /\ 2^k > 0
    BY <2>1, PowerDoubles, PowerPositive
  <2>3. BYTE = 2 * (2 * 2^k)
    BY <2>1, <2>2 DEF BYTE
  <2>4. \A y \in Nat : y > 0 => ~ (2 * 1 >= 2 * (2 * y))
    BY SMT
  <2>5. ~ (2 * 1 >= BYTE)
    BY <2>2, <2>3, <2>4
  <2> QED BY <1>1, <2>5 DEF SignExtend
<1>9. jmp_rel(m, i) = IF InCode(CodeAddress(n)) THEN n ELSE SegmentFault(m)
  BY <1>8 DEF jmp_rel, n
<1>10. CASE ~JumpTaken(c, status)
  <2>1. gpr' = m.gpr /\ rc' = rc
    BY <1>2, <1>5, <1>10 DEF Runs
  <2>2. ~Taken
    BY <1>4, <1>7, <2>1 DEF Taken, e
  <2> QED BY <1>10, <2>2
<1>11. CASE JumpTaken(c, status)
  <2>1. gpr' = jmp_rel(m, i).gpr /\ rc' = jmp_rel(m, i).rc
    BY <1>2, <1>5, <1>11 DEF Runs
  <2>2. SegmentFault(m).rc = "FAILED_SEGBOUND_CHECK"
    BY <1>5 DEF SegmentFault, Fails, Machines
  <2>3. Taken
    BY <1>7, <1>9, <2>1, <2>2 DEF Taken, e
  <2> QED BY <1>11, <2>3
<1> QED BY <1>10, <1>11

-----------------------------------------------------------------------------
(* The theorems. *)

LEMMA ArithTypeCorrect == ArithSpec => []ExecutorTypeOK
<1>1. ArithInit => ExecutorTypeOK
  BY InitType DEF ArithInit
<1>2. ExecutorTypeOK /\ [ArithNext]_arithvars => ExecutorTypeOK'
  <2> SUFFICES ASSUME ExecutorTypeOK, [ArithNext]_arithvars PROVE ExecutorTypeOK'
    OBVIOUS
  <2>1. CASE ArithNext
    <3>1. PICK i \in Instr : Execute(i)
      BY <2>1 DEF ArithNext
    <3>2. i \in Instruction
      BY <3>1, InstrAssumption
    <3> QED BY <3>1, <3>2, ExecuteType
  <2>2. CASE UNCHANGED arithvars
    BY <2>2 DEF arithvars, vars, ExecutorTypeOK
  <2> QED BY <2>1, <2>2
<1> QED BY <1>1, <1>2, PTL DEF ArithSpec

(* CF, ZF, SF and OF tell of the operations that last defined them,        *)
(* whatever is executed after these.                                       *)
THEOREM FlagsAreRight ==
  ASSUME Instr \subseteq FlagInstr
  PROVE  ArithSpec => []FlagsTell
<1>1. ExecutorTypeOK /\ FlagsTell /\ [ArithNext]_arithvars => FlagsTell'
  <2> SUFFICES ASSUME ExecutorTypeOK, FlagsTell, [ArithNext]_arithvars PROVE FlagsTell'
    OBVIOUS
  <2>1. CASE ArithNext
    <3>1. PICK i \in Instr : Execute(i) /\ Remembers(i)
      BY <2>1 DEF ArithNext
    <3>2. i \in FlagInstr
      BY <3>1
    <3> QED BY <3>1, <3>2, FlagsStep
  <2>2. CASE UNCHANGED arithvars
    BY <2>2 DEF arithvars, vars, FlagsTell, CarryKept, CarryTells
  <2> QED BY <2>1, <2>2
<1> QED BY <1>1, FlagsInit, ArithTypeCorrect, PTL DEF ArithSpec

(* CF is the carry or the borrow of the last operation that defines it,    *)
(* over the INC, DEC, moves, pushes and jumps that follow.                 *)
THEOREM CarryIsKept ==
  ASSUME Instr \subseteq FlagInstr
  PROVE  ArithSpec => []CarryKept
<1>1. FlagsTell => CarryKept
  BY DEF FlagsTell
<1> QED BY <1>1, FlagsAreRight, PTL

(* The unsigned jumps tell the order of the operands of the CMP or SUB.    *)
THEOREM UnsignedJumpsTell ==
  ASSUME ByteBits > 1, Instr \subseteq FlagInstr
  PROVE  ArithSpec => UnsignedJumps
<1> DEFINE A ==
      /\ Compares(carrier) =>
           /\ JumpsWhen("JB", carrier.a < carrier.b)
           /\ JumpsWhen("JAE", carrier.a >= carrier.b)
      /\ Compares(flagger) =>
           /\ JumpsWhen("JE", flagger.a = flagger.b)
           /\ JumpsWhen("JNE", flagger.a # flagger.b)
           /\ JumpsWhen("JBE", flagger.a <= flagger.b)
           /\ JumpsWhen("JA", flagger.a > flagger.b)
<1>1. ASSUME ExecutorTypeOK, FlagsTell PROVE A
  <2>1. /\ "JB" \in Condition /\ "JAE" \in Condition /\ "JE" \in Condition
        /\ "JNE" \in Condition /\ "JBE" \in Condition /\ "JA" \in Condition
    BY DEF Condition
  <2>2. /\ JumpTaken("JB", status) <=> "CF" \in status
        /\ JumpTaken("JAE", status) <=> "CF" \notin status
        /\ JumpTaken("JE", status) <=> "ZF" \in status
        /\ JumpTaken("JNE", status) <=> "ZF" \notin status
        /\ JumpTaken("JBE", status) <=> "CF" \in status \/ "ZF" \in status
        /\ JumpTaken("JA", status) <=> "CF" \notin status /\ "ZF" \notin status
    BY DEF JumpTaken
  <2>3. \A x, y \in Dword : /\ x >= y <=> ~ (x < y)
                            /\ x <= y <=> x < y \/ x = y
                            /\ x > y <=> ~ (x < y) /\ x # y
    BY WordSizes DEF Dword
  <2>4. ASSUME Compares(carrier)
        PROVE  /\ JumpsWhen("JB", carrier.a < carrier.b)
               /\ JumpsWhen("JAE", carrier.a >= carrier.b)
    <3>1. CarryTells(carrier)
      BY <1>1, <2>4 DEF FlagsTell
    <3> QED BY <1>1, <2>1, <2>2, <2>3, <3>1, JumpTells DEF JumpsWhen, CarryTells
  <2>5. ASSUME Compares(flagger)
        PROVE  /\ JumpsWhen("JE", flagger.a = flagger.b)
               /\ JumpsWhen("JNE", flagger.a # flagger.b)
               /\ JumpsWhen("JBE", flagger.a <= flagger.b)
               /\ JumpsWhen("JA", flagger.a > flagger.b)
    <3>1. CarryTells(flagger) /\ ("ZF" \in status <=> flagger.a = flagger.b)
      BY <1>1, <2>5 DEF FlagsTell
    <3> QED BY <1>1, <2>1, <2>2, <2>3, <3>1, JumpTells DEF JumpsWhen, CarryTells
  <2> QED BY <2>4, <2>5
<1>2. ExecutorTypeOK /\ FlagsTell /\ [ArithNext]_arithvars => [A]_arithvars
  BY <1>1
<1> QED BY <1>2, FlagsAreRight, ArithTypeCorrect, PTL DEF ArithSpec, UnsignedJumps

(* JL, JGE and JG tell the order of two numbers of the lower half.         *)
THEOREM SignedJumpsTell ==
  ASSUME ByteBits > 1, Instr \subseteq FlagInstr
  PROVE  ArithSpec => SignedJumpsOfNonNegative
<1> DEFINE A ==
      (Compares(flagger) /\ flagger.width = DwordBits
         /\ 2 * flagger.a < DWORD /\ 2 * flagger.b < DWORD) =>
        /\ JumpsWhen("JL", flagger.a < flagger.b)
        /\ JumpsWhen("JGE", flagger.a >= flagger.b)
        /\ JumpsWhen("JG", flagger.a > flagger.b)
<1>1. ASSUME ExecutorTypeOK, FlagsTell PROVE A
  <2> SUFFICES ASSUME Compares(flagger), flagger.width = DwordBits,
                      2 * flagger.a < DWORD, 2 * flagger.b < DWORD
               PROVE  /\ JumpsWhen("JL", flagger.a < flagger.b)
                      /\ JumpsWhen("JGE", flagger.a >= flagger.b)
                      /\ JumpsWhen("JG", flagger.a > flagger.b)
    OBVIOUS
  <2>1. "JL" \in Condition /\ "JGE" \in Condition /\ "JG" \in Condition
    BY DEF Condition
  <2>2. /\ JumpTaken("JL", status) <=> ("SF" \in status \/ "OF" \in status)
        /\ JumpTaken("JGE", status) <=> ~ ("SF" \in status \/ "OF" \in status)
        /\ JumpTaken("JG", status) <=>
             "ZF" \notin status /\ ~ ("SF" \in status \/ "OF" \in status)
    BY DEF JumpTaken, Clear2
  <2>3. /\ flagger.a \in Dword /\ flagger.b \in Dword
        /\ "ZF" \in status <=> flagger.a = flagger.b
        /\ ("SF" \in status \/ "OF" \in status) <=> flagger.a < flagger.b
    BY <1>1 DEF FlagsTell, CarryTells
  <2>4. \A x, y \in Dword : /\ x >= y <=> ~ (x < y)
                            /\ x > y <=> ~ (x < y) /\ x # y
    BY WordSizes DEF Dword
  <2> QED BY <1>1, <2>1, <2>2, <2>3, <2>4, JumpTells DEF JumpsWhen
<1>2. ExecutorTypeOK /\ FlagsTell /\ [ArithNext]_arithvars => [A]_arithvars
  BY <1>1
<1> QED BY <1>2, FlagsAreRight, ArithTypeCorrect, PTL DEF ArithSpec, SignedJumpsOfNonNegative

=============================================================================
