--------------------------------- MODULE Stack ---------------------------------
(***************************************************************************)
(* Programs of pushes, pops, calls and returns.  The stack of the Executor *)
(* is shown to be a ByteStack; history variables remember the bytes the    *)
(* last instruction moved and the calls that have not returned.            *)
(***************************************************************************)
EXTENDS Executor, Sequences

VARIABLES
  moved,    \* as in ByteStack
  frames    \* the open calls: the depth of each and where it returns to

stackvars == <<vars, moved, frames>>

One(handler) == [Blank EXCEPT !.handler = handler]

(* Two pushed values, so that slots can be told apart, at both widths. *)
StackInstr ==
  {[One("PUSH_R") EXCEPT !.reg = r] : r \in {EAX, ESP}}
  \cup {[One("PUSH_IMM") EXCEPT !.imm = 27, !.imm_length = 4],
        [One("PUSH_IMM") EXCEPT !.imm = 2, !.imm_length = 1, !.width = ByteBits],
        [One("POP_R") EXCEPT !.reg = EAX],
        One("RET"),
        [One("CALL_REL") EXCEPT !.imm = 1, !.imm_length = 4],
        [One("CALL_REL") EXCEPT !.imm = DWORD - 2, !.imm_length = 4]}

-----------------------------------------------------------------------------
(* The bytes on the stack. *)
Depth == (DWORD - gpr[ESP]) % DWORD

(* ESP above the empty stack: only the pop of a three-byte stack does it. *)
broken == Depth > SS_TOP

stack == IF broken THEN <<>> ELSE [k \in 1..Depth |-> ram[SS_TOP - k]]

(* The bytes of a word in the order a push lays them down. *)
Bytes(x, width) ==
  LET n == width \div ByteBits IN [k \in 1..n |-> ByteAt(x, n - k)]

(* What i moves, told from the registers and the instruction alone. *)
MovesNothing(i) ==
  gpr'[ESP] = gpr[ESP] \/ (rc' # "EXECUTE_SUCCESS" /\ i.handler # "CALL_REL")

Moves(i) ==
  IF MovesNothing(i) THEN <<>>
  ELSE CASE i.handler = "PUSH_R" /\ i.reg = ESP ->
              Bytes((gpr[ESP] + DWORD - 4) % DWORD, DwordBits)
         [] i.handler = "PUSH_R" /\ i.reg # ESP -> Bytes(gpr[i.reg], DwordBits)
         [] i.handler = "PUSH_IMM" -> Bytes(i.imm, i.width)
         [] i.handler = "CALL_REL" -> Bytes(Fetched(i).gpr[EIP], DwordBits)
         [] i.handler = "POP_R" -> Bytes(gpr'[i.reg], DwordBits)
         [] i.handler = "RET" -> Bytes(gpr'[EIP], DwordBits)

(* A call opens a frame; frames whose return address is no longer on the   *)
(* stack are gone.                                                         *)
Opened(i) ==
  IF i.handler = "CALL_REL" /\ rc' = "EXECUTE_SUCCESS"
  THEN {[depth |-> Depth', to |-> Fetched(i).gpr[EIP]]} ELSE {}

Frames(i) == {f \in frames : f.depth <= Depth'} \cup Opened(i)

StackInit == Init /\ moved = <<>> /\ frames = {}

(* Nothing is promised of a broken stack, and it is not followed further.  *)
StackNext ==
  \E i \in Instr :
    ~broken /\ Execute(i) /\ moved' = Moves(i) /\ frames' = Frames(i)

StackSpec == StackInit /\ [][StackNext]_stackvars

-----------------------------------------------------------------------------
(* Pushes, pops, calls and returns work on a last-in first-out sequence of *)
(* bytes: no slot is overwritten or lost, a refused push leaves no trace,  *)
(* and the empty stack is never popped; only three bytes left by pushes of *)
(* single bytes break it (push_gpr, push_imm32, push_imm8, pop_gpr).       *)
Abstract == INSTANCE ByteStack WITH Capacity <- SS_TOP
ImplementsByteStack == Abstract!Spec

(* RET at the depth of an open call returns to the instruction after it,   *)
(* whatever was pushed and popped in between (push_gpr, pop_gpr).          *)
ReturnAddressRight ==
  [][\A f \in frames : f.depth = Depth /\ Ret(One("RET")) => gpr'[EIP] = f.to]_stackvars

(* Below the top the RAM is clear: a pop wipes what it takes, so no stale  *)
(* value can be popped again after ESP has moved ("clear stack" in         *)
(* pop_gpr).                                                               *)
PoppedSlotsCleared == ~broken => \A a \in 0..SS_TOP-1 : a < SS_TOP - Depth => ram[a] = 0

(* "bounds check, if wrong, rollback and raise error" (jmp_rel32): a       *)
(* jump that succeeds is to an address of the code segment.                *)
JumpStaysInSegment == rc = "EXECUTE_SUCCESS" => CodeAddress(Machine) >= CS_BASE

=============================================================================
