-------------------------------- MODULE Handlers --------------------------------
(***************************************************************************)
(* Short programs over every kind of instruction the executor has, with    *)
(* operands in registers, in memory and on the console, and addresses that *)
(* no device answers.  The RAM is large enough for one PUSHA, and too      *)
(* small for two.                                                          *)
(***************************************************************************)
EXTENDS Executor

CONSTANT MaxSteps   \* bound: instructions of a program

VARIABLES
  steps,   \* instructions executed so far
  last     \* the instruction executed last

handlersvars == <<vars, steps, last>>

Of(handler) == [Blank EXCEPT !.handler = handler]

(* Memory operands: an absolute address, EBX with a byte displacement, and *)
(* the two forms of the SIB byte.                                          *)
At(i, address) ==
  [i EXCEPT !.mod = 0, !.rm = 5, !.disp = address, !.disp_length = 4]
AtEBX(i, disp8) ==
  [i EXCEPT !.mod = 1, !.rm = EBX, !.disp = disp8, !.disp_length = 1]
AtEBX_ECX2(i) ==
  [i EXCEPT !.mod = 0, !.rm = 4, !.sib = TRUE, !.base = EBX, !.index = ECX, !.scale = 1]
AtECX2(i, disp32) ==
  [i EXCEPT !.mod = 0, !.rm = 4, !.sib = TRUE, !.base = 5, !.index = ECX, !.scale = 1,
            !.disp = disp32, !.disp_length = 4]

(* The last dword of the RAM, a byte the RAM refuses, and the console. *)
LastDword == RAM_SIZE - 4
Refused   == RAM_SIZE - 3
ConsoleAt == RAM_SIZE

Add(width) == [Of("ALU_RM_R") EXCEPT !.reg = ECX, !.width = width]

HandlersInstr ==
  {[Of("MOV_R_IMM") EXCEPT !.reg = r, !.imm = LastDword, !.imm_length = 4] :
     r \in {ECX, EBX}}
  \cup {[Of("MOV_R_IMM") EXCEPT !.reg = r, !.imm = 3, !.imm_length = 1, !.width = ByteBits] :
     r \in {EBX, 4, 5}}
  \cup {At(Add(DwordBits), a) : a \in {LastDword, Refused, ConsoleAt, DWORD - 1}}
  \cup {At(Add(ByteBits), a) : a \in {LastDword, Refused}}
  \cup {AtEBX([Add(ByteBits) EXCEPT !.opclass = "CMP"], BYTE - 1),
        [Of("ALU_R_RM") EXCEPT !.opclass = "SUB", !.reg = ECX, !.rm = EBX],
        [Of("ALU_R_RM") EXCEPT !.opclass = "SUB", !.reg = ECX, !.rm = EBX, !.width = ByteBits],
        At([Of("ALU_R_RM") EXCEPT !.reg = ECX], Refused)}
  \cup {[Of("INC_R") EXCEPT !.reg = r] : r \in {EBX, 4}}
  \cup {AtEBX_ECX2([Of("MOV_RM_R") EXCEPT !.reg = ECX]),
        AtECX2([Of("MOV_RM_R") EXCEPT !.reg = EBX], DWORD - 4),
        [Of("MOV_RM_R") EXCEPT !.reg = 5, !.rm = ECX, !.width = ByteBits],
        AtEBX([Of("MOV_R_RM") EXCEPT !.reg = ECX], 0),
        At([Of("MOV_R_RM") EXCEPT !.reg = ECX, !.width = ByteBits], Refused)}
  \cup {[Of("PUSH_R") EXCEPT !.reg = r] : r \in {EBX, ESP}}
  \cup {[Of("PUSH_IMM") EXCEPT !.imm = 3, !.imm_length = 1, !.width = ByteBits]}
  \cup {[Of("POP_R") EXCEPT !.reg = r] : r \in {ECX, ESP}}
  \cup {[Of("CALL_REL") EXCEPT !.imm = d, !.imm_length = 4] : d \in {1, CS_LIMIT}}
  \cup {[Of("GRP5") EXCEPT !.reg = op, !.rm = EBX] : op \in 0..4}
  \cup {At([Of("GRP5") EXCEPT !.reg = 1], a) : a \in {LastDword, Refused}}
  \cup {[Of("GRP5") EXCEPT !.reg = 4, !.rm = EBX, !.has_operand_size_override = TRUE],
        [Of("JMP_REL") EXCEPT !.imm = BYTE - 1, !.imm_length = 1],
        [Of("JMP_REL") EXCEPT !.imm = CS_LIMIT, !.imm_length = 4],
        [Of("JCC") EXCEPT !.condition = "JNE", !.imm = 1, !.imm_length = 1]}
  \cup {Of(h) : h \in {"PUSHA", "POPA", "RET", "CLC", "STC", "HLT", "UNIMPLEMENTED"}}

HandlersInit == Init /\ steps = 0 /\ last = Blank

HandlersNext ==
  /\ steps < MaxSteps
  /\ steps' = steps + 1
  /\ \E i \in Instr : Execute(i) /\ last' = i

HandlersSpec == HandlersInit /\ [][HandlersNext]_handlersvars

-----------------------------------------------------------------------------
(* Instructions that may fail halfway. *)
Partial ==
  {i \in Instr : i.handler \in {"PUSHA", "POPA", "CALL_REL"}
                 \/ (i.handler = "POP_R" /\ i.reg = ESP)}

(* An instruction that fails has done nothing but move EIP past itself: no *)
(* register, flag or byte of memory keeps a trace of it (the rollback of   *)
(* ESP in push_gpr, push_imm32 and push_imm8, of EIP in jmp_rel8 and       *)
(* jmp_rel32, the early returns of every handler).  Left out are PUSHA,    *)
(* POPA, CALL rel32 and POP ESP, which are made of steps that can fail     *)
(* after others.                                                           *)
FailureIsClean ==
  [][rc' # "EXECUTE_SUCCESS" /\ last' \notin Partial =>
       /\ gpr' = Fetched(last').gpr
       /\ UNCHANGED <<ram, status>>]_handlersvars

(* What is on the stack stays there while an instruction pushes, also when *)
(* a PUSHA or a call stops halfway: the bytes from the old top upwards are *)
(* not touched by any instruction of the kinds PUSH, PUSHA and CALL.       *)
Pushes(i) ==
  \/ i.handler \in {"PUSH_R", "PUSH_IMM", "PUSHA", "CALL_REL"}
  \/ i.handler = "GRP5" /\ i.reg = 2

OlderSlotsKept ==
  [][Pushes(last') =>
       \A a \in Address : a >= StackAddress(Machine) => ram'[a] = ram[a]]_handlersvars

(* The registers an instruction may change besides the EIP that was        *)
(* advanced past it, by the numbers the executor gives them.               *)
Jumps(i) ==
  \/ i.handler \in {"JMP_REL", "JCC", "CALL_REL", "RET"}
  \/ i.handler = "GRP5" /\ i.reg \in {2, 4}

Writes(i) ==
  {r \in Gpr :
     \/ r = EIP /\ Jumps(i)
     \/ r = ESP /\ (Pushes(i) \/ i.handler \in {"POP_R", "RET"})
     \/ r # EIP /\ i.handler = "POPA"
     \/ r = i.reg /\ i.handler \in {"ALU_R_RM", "MOV_R_RM", "MOV_R_IMM", "INC_R", "POP_R"}
     \/ /\ r = i.rm /\ i.mod = 3
        /\ i.handler \in {"ALU_RM_R", "MOV_RM_R"} \/ (i.handler = "GRP5" /\ i.reg \in {0, 1})}

(* Execution goes on behind the instruction, and all registers it does not *)
(* name keep their values.  By its number, though: where the instruction   *)
(* set says ESP or AH, number 4, the executor writes EIP, so that even INC *)
(* and MOV may jump; its CH, DH and BH are the low bytes of EBP, ESI, EDI. *)
NamedRegistersOnly ==
  [][\A r \in Gpr \ Writes(last') : gpr'[r] = Fetched(last').gpr[r]]_handlersvars

(* ADC_test.txt:6, "adc [eax], ecx ; rm32,r32 -> [eax]=0x00000000": an     *)
(* operation on memory leaves its result there.                            *)
MemoryGetsResult ==
  [][(/\ last'.handler = "ALU_RM_R" /\ ~ThrowsResult(last'.opclass)
      /\ last'.width = DwordBits /\ last'.mod # 3 /\ rc' = "EXECUTE_SUCCESS"
      /\ calculate_EA(Fetched(last'), last') \in Address) =>
       LET m == Fetched(last')
           a == calculate_EA(m, last')
       IN bus_read([m EXCEPT !.ram = ram'], a, DwordBits, 0) =
            ALU(bus_read(m, a, DwordBits, 0), m.gpr[last'.reg],
                Cin(m, last'.opclass), DwordBits, last'.opclass).low]_handlersvars

=============================================================================
