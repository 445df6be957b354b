------------------------------- MODULE Arithmetic -------------------------------
(***************************************************************************)
(* What a program can rely on in the flags: straight-line programs of      *)
(* moves, arithmetic, logic and conditional jumps on two registers, with   *)
(* the operands of the operation that last defined a flag remembered in    *)
(* history variables.                                                      *)
(*                                                                         *)
(* Every instruction is one byte long and every jump skips one byte, so    *)
(* CS_LIMIT bounds the number of instructions of a program.                *)
(***************************************************************************)
EXTENDS Executor

CONSTANT Words   \* the values moved into the registers

VARIABLES
  carrier,   \* the last operation that defined CF
  flagger    \* the last operation that defined the other flags

arithvars == <<vars, carrier, flagger>>

None == [opclass |-> "none"]

TwoOperand == Opclass \ {"INC", "DEC"}

Load(r, x) ==
  [Blank EXCEPT !.handler = "MOV_R_IMM", !.reg = r, !.imm = x, !.imm_length = 4]

Moves ==
  {Load(r, x) : r \in {EAX, ECX}, x \in Words}
  \cup {[Blank EXCEPT !.handler = h, !.reg = EAX, !.rm = ECX] :
          h \in {"MOV_RM_R", "MOV_R_RM"}}

TwoOp(h, o, w) ==
  [Blank EXCEPT !.handler = h, !.opclass = o, !.width = w, !.reg = EAX, !.rm = ECX]

Operations ==
  {TwoOp(h, o, w) : h \in {"ALU_RM_R", "ALU_R_RM"}, o \in TwoOperand, w \in Width}

Steps ==
  {[Blank EXCEPT !.handler = "GRP5", !.reg = op, !.rm = ECX] : op \in {0, 1}}
  \cup {[Blank EXCEPT !.handler = "INC_R", !.reg = ECX]}

(* Over the next byte. *)
JumpOn(c) ==
  [Blank EXCEPT !.handler = "JCC", !.condition = c, !.imm = 1, !.imm_length = 1]

Jumps == {JumpOn(c) : c \in Condition}

CarryOps == {[Blank EXCEPT !.handler = h] : h \in {"CLC", "STC"}}

(* The program texts of the runs. *)
ArithInstr == Moves \cup Operations \cup Steps \cup Jumps \cup CarryOps

(* No flag, or every flag, found in the uninitialised flag word. *)
AllJunk == {{}, Flag}

-----------------------------------------------------------------------------
(* The operation i performs on the machine it is fetched by. *)
Operation(i) ==
  LET m  == Fetched(i)
      r  == op_mask(gpr_w_handler(m, i.reg, i.width), i.width)
      rm == op_mask(read_rm_op(m, i), i.width)
  IN CASE i.handler = "ALU_RM_R" ->
            [opclass |-> i.opclass, width |-> i.width, a |-> rm, b |-> r,
             cin |-> Cin(m, i.opclass)]
       [] i.handler = "ALU_R_RM" ->
            [opclass |-> i.opclass, width |-> i.width, a |-> r, b |-> rm,
             cin |-> Cin(m, i.opclass)]
       [] i.handler \in {"INC_R", "GRP5"} -> [opclass |-> "INC"]
       [] OTHER -> None

Remembers(i) ==
  LET op == Operation(i)
  IN IF i \in CarryOps THEN carrier' = None /\ flagger' = None
     ELSE /\ flagger' = IF op = None THEN flagger ELSE op
          /\ carrier' = IF op = None \/ op.opclass = "INC" THEN carrier
                        ELSE IF op.opclass \in Logic THEN None ELSE op

ArithInit == Init /\ carrier = None /\ flagger = None
ArithNext == \E i \in Instr : Execute(i) /\ Remembers(i)
ArithSpec == ArithInit /\ [][ArithNext]_arithvars

-----------------------------------------------------------------------------
(* Reference definitions, in unbounded integers. *)

Modulus(width) == IF width = DwordBits THEN DWORD ELSE BYTE

TrueCarry(op) ==
  IF op.opclass \in Borrows THEN op.a < op.b + op.cin
  ELSE op.a + op.b + op.cin >= Modulus(op.width)

TrueResult(op) ==
  (IF op.opclass \in Borrows THEN op.a - op.b - op.cin ELSE op.a + op.b + op.cin)
    % Modulus(op.width)

(* The subtrahend with its borrow does not fit in a dword. *)
BorrowWraps(op) == op.opclass = "SBB" /\ op.b + op.cin = DWORD

Compares(op) == op.opclass \in {"CMP", "SUB"}

Signed(x, width) == IF 2 * x >= Modulus(width) THEN x - Modulus(width) ELSE x

(* The jump is tried, be it only to find the end of the segment. *)
Taken == gpr'[EIP] = (gpr[EIP] + 2) % DWORD \/ rc' = "FAILED_SEGBOUND_CHECK"

JumpsWhen(c, relation) == Jcc(JumpOn(c)) => (Taken <=> relation)

-----------------------------------------------------------------------------
(* CF is the true carry or borrow of the last operation that defines it,   *)
(* over the INC, DEC, MOV and jumps that follow: what a loop over many     *)
(* dwords with ADC or SBB needs.  Left out is an SBB whose subtrahend and  *)
(* borrow together wrap to 0: is_borrow then leaves CF clear.              *)
CarryKept ==
  (carrier # None /\ ~BorrowWraps(carrier)) => (("CF" \in status) <=> TrueCarry(carrier))

(* After CMP or SUB at either width the unsigned jumps tell the order of   *)
(* the operands: JB and JAE also after an INC or DEC in between.           *)
UnsignedJumps ==
  [][/\ Compares(carrier) =>
          /\ JumpsWhen("JB", carrier.a < carrier.b)
          /\ JumpsWhen("JAE", carrier.a >= carrier.b)
     /\ Compares(flagger) =>
          /\ JumpsWhen("JE", flagger.a = flagger.b)
          /\ JumpsWhen("JNE", flagger.a # flagger.b)
          /\ JumpsWhen("JBE", flagger.a <= flagger.b)
          /\ JumpsWhen("JA", flagger.a > flagger.b)]_arithvars

(* After a dword CMP or SUB of two numbers below 2^31, JL, JGE and JG tell *)
(* their order, although the OF they look at is that of an addition.       *)
SignedJumpsOfNonNegative ==
  [][(Compares(flagger) /\ flagger.width = DwordBits
        /\ 2 * flagger.a < DWORD /\ 2 * flagger.b < DWORD) =>
       /\ JumpsWhen("JL", flagger.a < flagger.b)
       /\ JumpsWhen("JGE", flagger.a >= flagger.b)
       /\ JumpsWhen("JG", flagger.a > flagger.b)]_arithvars

-----------------------------------------------------------------------------
(* What comments in the code say and it does not do. *)

(* executor.c:1028, "Jump short if less": after a CMP, JL is taken exactly *)
(* when the first operand is less than the second as signed numbers.       *)
JumpIfLess ==
  flagger.opclass = "CMP" =>
    (JumpTaken("JL", status) <=> Signed(flagger.a, flagger.width)
                                   < Signed(flagger.b, flagger.width))

(* register_ids.h, "ZF = 1 if result is zero": the result of a byte        *)
(* operation is what its destination receives.                             *)
ZeroFlagRight ==
  flagger.opclass \in {"ADD", "ADC", "SUB", "SBB"} =>
    (("ZF" \in status) <=> TrueResult(flagger) = 0)

=============================================================================
