----------------------------- MODULE HandlersProofs -----------------------------
(***************************************************************************)
(* A failing instruction leaves no trace, proved for every size of RAM and *)
(* of the words, every layout of the segments and every set of             *)
(* instructions.                                                           *)
(*                                                                         *)
(* A handler is a composition of a few operators on machines.  Each lemma  *)
(* says of one of them that its result is Clean: a machine that, if it has *)
(* failed, is the one the handler was given, but for rc and halt.  The     *)
(* only invariant needed is that the register file has its nine registers, *)
(* so that writing one leaves the others alone.  A second series of lemmas *)
(* says which registers an operator Keeps.                                 *)
(***************************************************************************)
EXTENDS Handlers, ExecutorProofs

(* m has the fields of a machine, and the nine registers. *)
Shaped(m) ==
  /\ DOMAIN m = {"gpr", "ram", "status", "halt", "rc"}
  /\ m = [f \in DOMAIN m |-> m[f]]
  /\ DOMAIN m.gpr = Gpr

Clean(m, n) ==
  /\ Shaped(n)
  /\ ~Ok(n) => n.gpr = m.gpr /\ n.ram = m.ram /\ n.status = m.status

-----------------------------------------------------------------------------
LEMMA FailsClean ==
  ASSUME NEW m, NEW code, Shaped(m)
  PROVE  Clean(m, Fails(m, code))
BY DEF Shaped, Clean, Fails, Ok

LEMMA AddToClean ==
  ASSUME NEW m, NEW id \in Gpr, NEW x, Shaped(m)
  PROVE  /\ Shaped(AddTo(m, id, x)) /\ AddTo(m, id, x).rc = m.rc
         /\ AddTo(m, id, x).ram = m.ram /\ AddTo(m, id, x).status = m.status
         /\ \A r \in Gpr \ {id} : AddTo(m, id, x).gpr[r] = m.gpr[r]
BY DEF Shaped, AddTo, Gpr

LEMMA SetGprShaped ==
  ASSUME NEW m, NEW id, NEW width, NEW x, Shaped(m)
  PROVE  Shaped(set_gpr_w_handler(m, id, width, x))
         /\ set_gpr_w_handler(m, id, width, x).rc = m.rc
BY DEF Shaped, set_gpr_w_handler

LEMMA BusWriteClean ==
  ASSUME NEW m, NEW a, NEW width, NEW x, Shaped(m), Ok(m)
  PROVE  Clean(m, bus_write(m, a, width, x))
         /\ (OnBus(a) => Ok(bus_write(m, a, width, x)))
BY FailsClean DEF Shaped, Clean, Ok, bus_write

LEMMA WithFlagsShaped ==
  ASSUME NEW m, NEW opclass, NEW flags, Shaped(m)
  PROVE  Shaped(WithFlags(m, opclass, flags)) /\ WithFlags(m, opclass, flags).rc = m.rc
BY DEF Shaped, WithFlags

-----------------------------------------------------------------------------
(* The handlers made of those. *)

LEMMA WriteToClean ==
  ASSUME NEW m, NEW i, NEW x, Shaped(m), Ok(m)
  PROVE  Clean(m, WriteTo(m, i, x))
BY SetGprShaped, BusWriteClean DEF WriteTo, Clean, Ok

LEMMA ThenFlagsClean ==
  ASSUME NEW m, NEW n, NEW opclass, NEW flags, Clean(m, n)
  PROVE  Clean(m, Then(n, WithFlags(n, opclass, flags)))
BY WithFlagsShaped DEF Then, Clean, Ok

LEMMA AluClean ==
  ASSUME NEW m, NEW i, Shaped(m), Ok(m)
  PROVE  Clean(m, alu_two_op_rm_r(m, i)) /\ Clean(m, alu_two_op_r_rm(m, i))
<1> DEFINE out == ALU(read_rm_op(m, i), gpr_w_handler(m, i.reg, i.width),
                      Cin(m, i.opclass), i.width, i.opclass)
           n   == IF ThrowsResult(i.opclass) THEN m ELSE write_rm_dst(m, i, out.low)
           out2 == ALU(gpr_w_handler(m, i.reg, i.width), read_rm_op(m, i),
                       Cin(m, i.opclass), i.width, i.opclass)
           n2  == IF ThrowsResult(i.opclass) THEN m
                  ELSE set_gpr_w_handler(m, i.reg, i.width, out2.low)
<1>1. Clean(m, n)
  BY WriteToClean DEF write_rm_dst, Clean
<1>2. Shaped(n2) /\ Ok(n2)
  BY SetGprShaped DEF Ok
<1>3. Shaped(WithFlags(n2, i.opclass, out2.flags)) /\ Ok(WithFlags(n2, i.opclass, out2.flags))
  <2> HIDE DEF n2, out2
  <2> QED  BY <1>2, WithFlagsShaped DEF Ok
<1>4. Clean(m, Then(n, WithFlags(n, i.opclass, out.flags)))
  <2> HIDE DEF n, out
  <2> QED  BY <1>1, ThenFlagsClean
<1>5. Clean(m, alu_two_op_rm_r(m, i))
  BY <1>4, FailsClean DEF alu_two_op_rm_r
<1>6. Clean(m, alu_two_op_r_rm(m, i))
  BY <1>3, FailsClean DEF alu_two_op_r_rm, Clean
<1> QED  BY <1>5, <1>6

(* Push fails before or with its only store, and moves ESP back. *)
LEMMA PushClean ==
  ASSUME NEW m, NEW width, NEW x, Shaped(m), Ok(m)
  PROVE  Clean(m, Push(m, width, x))
<1> DEFINE n == Lowered(m, width)
           w == bus_write(n, StackAddress(n), width, x)
<1>1. Shaped(n) /\ Ok(n)
  BY AddToClean DEF Lowered, ESP, Gpr, Ok
<1>2. Clean(n, w)
  BY <1>1, BusWriteClean
<1> HIDE DEF n, w
<1>3. Clean(m, IF Ok(w) THEN w ELSE Fails(m, w.rc))
  BY <1>2, FailsClean DEF Clean
<1> QED  BY <1>3 DEF Push, n, w

(* Unless it pops ESP, a pop fails before it writes the register: the slot *)
(* it clears is the one it has read.                                       *)
LEMMA PopClean ==
  ASSUME NEW m, NEW r, NEW junk, Shaped(m), Ok(m), r # ESP
  PROVE  Clean(m, pop_gpr(m, r, junk))
<1> DEFINE a == StackAddress(m)
           n == [m EXCEPT !.gpr[r] = bus_read(m, a, DwordBits, junk)]
           w == bus_write(n, StackAddress(n), DwordBits, 0)
<1>1. ESP \in Gpr
  BY DEF ESP, Gpr
<1>2. Shaped(n) /\ n.rc = m.rc /\ n.gpr[ESP] = m.gpr[ESP]
  BY <1>1 DEF Shaped
<1>3. StackAddress(n) = a
  BY <1>2 DEF StackAddress
<1> HIDE DEF a, n, w
<1>4. ASSUME OnBus(a)
      PROVE  Shaped(w) /\ Ok(w)
  BY <1>2, <1>3, <1>4, BusWriteClean DEF Clean, Ok, w
<1>5. ASSUME OnBus(a)
      PROVE  Clean(m, Then(w, AddTo(w, ESP, 4)))
  BY <1>1, <1>4, <1>5, AddToClean DEF Then, Clean, Ok
<1>6. CASE OnBus(a)
  BY <1>5, <1>6 DEF pop_gpr, a, n, w
<1>7. CASE ~OnBus(a)
  BY <1>7, FailsClean DEF pop_gpr, a
<1> QED  BY <1>6, <1>7

LEMMA JumpClean ==
  ASSUME NEW m, NEW i, Shaped(m), Ok(m)
  PROVE  Clean(m, jmp_rel(m, i)) /\ Clean(m, jmp_rm(m, i))
<1>1. Clean(m, SegmentFault(m))
  BY DEF SegmentFault, Fails, Clean, Shaped
<1>2. Clean(m, jmp_rel(m, i))
  BY <1>1, AddToClean DEF jmp_rel, EIP, Gpr, Clean, Ok
<1>3. Clean(m, jmp_rm(m, i))
  BY <1>1 DEF jmp_rm, Clean, Ok, Shaped
<1> QED  BY <1>2, <1>3

LEMMA Grp5Clean ==
  ASSUME NEW m, NEW i, Shaped(m), Ok(m)
  PROVE  Clean(m, execute_GRP5(m, i))
<1>1. ASSUME NEW opclass
      PROVE  Clean(m, step_rm(m, i, opclass))
  <2> DEFINE out == ALU(read_rm_op(m, i), 0, 0, DwordBits, opclass)
             n   == write_rm_dst(m, i, out.low)
  <2>1. Clean(m, n)
    BY WriteToClean DEF write_rm_dst
  <2> HIDE DEF n, out
  <2>2. Clean(m, Then(n, WithFlags(n, opclass, out.flags)))
    BY <2>1, ThenFlagsClean
  <2> QED  BY <2>2 DEF step_rm, n, out
<1>2. Clean(m, call_rm(m, i))
  <2> DEFINE n == push_gpr(m, EIP)
  <2>1. Clean(m, n)
    BY PushClean DEF push_gpr
  <2> HIDE DEF n
  <2>2. Clean(m, Then(n, [n EXCEPT !.gpr[EIP] = read_rm_op(m, i)]))
    BY <2>1 DEF Then, Clean, Shaped, Ok
  <2> QED  BY <2>2 DEF call_rm, n
<1>3. Clean(m, jmp_rm(m, i))
  BY JumpClean
<1>4. \A code : Clean(m, Fails(m, code))
  BY FailsClean
<1> HIDE DEF Clean
<1> QED  BY <1>1, <1>2, <1>3, <1>4 DEF execute_GRP5

-----------------------------------------------------------------------------
(* The instructions that can fail halfway keep the shape. *)

LEMMA PopShaped ==
  ASSUME NEW m, NEW r, NEW junk, Shaped(m), Ok(m)
  PROVE  Shaped(pop_gpr(m, r, junk))
<1> DEFINE a == StackAddress(m)
           n == [m EXCEPT !.gpr[r] = bus_read(m, a, DwordBits, junk)]
           w == bus_write(n, StackAddress(n), DwordBits, 0)
<1>1. Shaped(n) /\ Ok(n)
  BY DEF Shaped, Ok
<1> HIDE DEF n
<1>2. Shaped(w)
  BY <1>1, BusWriteClean DEF Clean
<1> HIDE DEF w
<1>3. Shaped(Then(w, AddTo(w, ESP, 4)))
  BY <1>2, AddToClean DEF Then, ESP, Gpr
<1>4. CASE OnBus(a)
  BY <1>3, <1>4 DEF pop_gpr, n, w
<1>5. CASE ~OnBus(a)
  BY <1>5, FailsClean DEF pop_gpr, Clean
<1> QED  BY <1>4, <1>5

LEMMA SeriesShaped ==
  ASSUME NEW m, NEW a, NEW b, NEW c, NEW d, NEW junk, Shaped(m)
  PROVE  Shaped(PushFour(m, a, b, c, d)) /\ Shaped(PopFour(m, a, b, c, d, junk))
<1>1. \A n, r : Shaped(n) => Shaped(ThenPush(n, r))
  BY PushClean DEF ThenPush, Then, push_gpr, Clean
<1>2. \A n, r : Shaped(n) => Shaped(ThenPop(n, r, junk))
  BY PopShaped DEF ThenPop, Then
<1>3. Shaped(PushFour(m, a, b, c, d))
  BY <1>1 DEF PushFour
<1>4. Shaped(PopFour(m, a, b, c, d, junk))
  BY <1>2 DEF PopFour
<1> QED  BY <1>3, <1>4

LEMMA CallShaped ==
  ASSUME NEW m, NEW i, Shaped(m), Ok(m)
  PROVE  Shaped(call_rel(m, i))
<1> DEFINE n == push_gpr(m, EIP)
<1>1. Shaped(n)
  BY PushClean DEF push_gpr, Clean
<1> HIDE DEF n
<1>2. Shaped(Then(n, jmp_rel(n, i)))
  BY <1>1, JumpClean DEF Then, Clean
<1> QED  BY <1>2 DEF call_rel, n

-----------------------------------------------------------------------------
(* The interpreter. *)

LEMMA MachineShaped ==
  ASSUME DOMAIN gpr = Gpr
  PROVE  Shaped(Machine)
BY DEF Shaped, Machine

LEMMA FetchedShaped ==
  ASSUME NEW i, DOMAIN gpr = Gpr, Running
  PROVE  Shaped(Fetched(i)) /\ Ok(Fetched(i))
         /\ Fetched(i).ram = ram /\ Fetched(i).status = status
<1>1. EIP \in Gpr
  BY DEF EIP, Gpr
<1>2. Machine.rc = rc /\ Machine.ram = ram /\ Machine.status = status
  BY DEF Machine
<1> QED  BY <1>1, <1>2, MachineShaped, AddToClean DEF Fetched, Ok, Running

(* What the theorem says of one instruction. *)
CleanStep(i) ==
  rc' # "EXECUTE_SUCCESS" =>
    gpr' = Fetched(i).gpr /\ UNCHANGED <<ram, status>>

(* One step per kind of instruction. *)
LEMMA ExecuteClean ==
  ASSUME NEW i \in Instr, DOMAIN gpr = Gpr, Execute(i)
  PROVE  DOMAIN gpr' = Gpr /\ (i \notin Partial => CleanStep(i))
<1> DEFINE m == Fetched(i)
           Done == DOMAIN gpr' = Gpr /\ (i \notin Partial => CleanStep(i))
<1>1. Running
  BY DEF Execute, AluRmR, AluRRm, IncR, MovRmR, MovRRm, MovRImm, PushR, PushImm,
         PushA, PopR, PopA, Ret, Jcc, Jmp, Call, Grp5, Clc, Stc, Hlt,
         Unimplemented, Runs
<1>2. Shaped(m) /\ Ok(m)
  BY <1>1, FetchedShaped
<1>3. \A n : /\ Clean(m, n)
             /\ gpr' = n.gpr /\ ram' = n.ram /\ status' = n.status /\ rc' = n.rc
             => Done
  BY <1>1, FetchedShaped DEF Clean, Shaped, CleanStep, Ok
<1>4. \A n : Shaped(n) /\ Ok(n) => Clean(m, n)
  BY DEF Clean
<1>5. \A n : i \in Partial /\ Shaped(n) /\ gpr' = n.gpr => Done
  BY DEF Shaped
<1> HIDE DEF m
<1>6. CASE AluRmR(i) \/ AluRRm(i)
  BY <1>2, <1>3, <1>6, AluClean DEF AluRmR, AluRRm, Runs, m
<1>7. CASE IncR(i)
  <2>1. PICK junk \in JunkFlags :
          Runs(i, "INC_R", alu_increment_register(m, i, junk))
    BY <1>7 DEF IncR, m
  <2> DEFINE out == ALU(m.gpr[i.reg], 0, 0, DwordBits, "INC")
             n   == set_gpr_w_handler(m, i.reg, DwordBits, out.low)
  <2>2. Shaped(n) /\ Ok(n)
    BY <1>2, SetGprShaped DEF Ok
  <2> HIDE DEF n, out
  <2>3. Clean(m, WithFlags(n, "INC", out.flags \cup junk))
    BY <1>4, <2>2, WithFlagsShaped DEF Ok
  <2> QED  BY <1>3, <2>1, <2>3 DEF alu_increment_register, Runs, n, out
<1>8. CASE MovRmR(i) \/ MovRRm(i) \/ MovRImm(i)
  <2>1. \A x : Clean(m, WriteTo(m, i, x))
    BY <1>2, WriteToClean
  <2>2. \A x : Clean(m, set_gpr_w_handler(m, i.reg, i.width, x))
    BY <1>2, <1>4, SetGprShaped DEF Ok
  <2>3. \A code : Clean(m, Fails(m, code))
    BY <1>2, FailsClean
  <2> QED  BY <1>3, <1>8, <2>1, <2>2, <2>3 DEF MovRmR, MovRRm, MovRImm, Runs, m
<1>9. CASE PushR(i) \/ PushImm(i)
  BY <1>2, <1>3, <1>9, PushClean DEF PushR, PushImm, push_gpr, Runs, m
<1>10. CASE PushA(i)
  <2>1. i.handler = "PUSHA" /\ i \in Partial
    BY <1>10 DEF PushA, Runs, Partial
  <2> QED  BY <1>2, <1>5, <1>10, <2>1, SeriesShaped DEF PushA, execute_PUSHA, Runs, m
<1>11. CASE PopA(i)
  <2>1. i.handler = "POPA" /\ i \in Partial
    BY <1>11 DEF PopA, Runs, Partial
  <2> QED  BY <1>2, <1>5, <1>11, <2>1, SeriesShaped DEF PopA, execute_POPA, Runs, m
<1>12. CASE PopR(i)
  <2>1. PICK junk \in JunkDword : Runs(i, "POP_R", pop_gpr(m, i.reg, junk))
    BY <1>12 DEF PopR, m
  <2>2. CASE i.reg = ESP
    <3>1. i \in Partial
      BY <2>1, <2>2 DEF Runs, Partial
    <3> QED  BY <1>2, <1>5, <2>1, <3>1, PopShaped DEF Runs
  <2>3. CASE i.reg # ESP
    BY <1>2, <1>3, <2>1, <2>3, PopClean DEF Runs
  <2> QED  BY <2>2, <2>3
<1>13. CASE Ret(i)
  <2>1. EIP # ESP
    BY DEF EIP, ESP
  <2> QED  BY <1>2, <1>3, <1>13, <2>1, PopClean DEF Ret, Runs, m
<1>14. CASE Jcc(i) \/ Jmp(i)
  BY <1>2, <1>3, <1>4, <1>14, JumpClean DEF Jcc, Jmp, Runs, m
<1>15. CASE Call(i)
  <2>1. i.handler = "CALL_REL" /\ i \in Partial
    BY <1>15 DEF Call, Runs, Partial
  <2> QED  BY <1>2, <1>5, <1>15, <2>1, CallShaped DEF Call, Runs, m
<1>16. CASE Grp5(i)
  BY <1>2, <1>3, <1>16, Grp5Clean DEF Grp5, Runs, m
<1>17. CASE Clc(i) \/ Stc(i) \/ Hlt(i)
  <2>1. /\ Clean(m, [m EXCEPT !.status = @ \ {"CF"}])
        /\ Clean(m, [m EXCEPT !.status = @ \cup {"CF"}])
        /\ Clean(m, [m EXCEPT !.halt = TRUE])
    BY <1>2 DEF Clean, Shaped, Ok
  <2> QED  BY <1>3, <1>17, <2>1 DEF Clc, Stc, Hlt, Runs, m
<1>18. CASE Unimplemented(i)
  BY <1>2, <1>3, <1>18, FailsClean DEF Unimplemented, Runs, m
<1> QED
  BY <1>6, <1>7, <1>8, <1>9, <1>10, <1>11, <1>12, <1>13, <1>14, <1>15, <1>16,
     <1>17, <1>18 DEF Execute

-----------------------------------------------------------------------------
(* The register file always has its nine registers. *)
THEOREM RegisterFileKept == HandlersSpec => [](DOMAIN gpr = Gpr)
<1>1. HandlersInit => DOMAIN gpr = Gpr
  BY DEF HandlersInit, Init
<1>2. DOMAIN gpr = Gpr /\ [HandlersNext]_handlersvars => (DOMAIN gpr = Gpr)'
  BY ExecuteClean DEF HandlersNext, handlersvars, vars, Gpr
<1> QED  BY <1>1, <1>2, PTL DEF HandlersSpec

(* An instruction that fails (executor.c's early returns and its rollbacks *)
(* of ESP and EIP) leaves every register but EIP, every flag and every     *)
(* byte of memory as it was, in all programs; PUSHA, POPA, CALL rel32 and  *)
(* POP ESP excepted.                                                       *)
THEOREM FailuresAreClean == HandlersSpec => FailureIsClean
<1>1. DOMAIN gpr = Gpr /\ [HandlersNext]_handlersvars =>
        [rc' # "EXECUTE_SUCCESS" /\ last' \notin Partial =>
           /\ gpr' = Fetched(last').gpr
           /\ UNCHANGED <<ram, status>>]_handlersvars
  BY ExecuteClean DEF HandlersNext, CleanStep
<1> QED  BY <1>1, RegisterFileKept, PTL DEF HandlersSpec, FailureIsClean

-----------------------------------------------------------------------------
(* Which registers the handlers change.  n is made from m by changing only *)
(* registers of S.                                                         *)

Keeps(m, n, S) == Shaped(n) /\ \A r \in Gpr \ S : n.gpr[r] = m.gpr[r]

LEMMA KeepsTrans ==
  ASSUME NEW m, NEW n, NEW o, NEW S, Keeps(m, n, S), Keeps(n, o, S)
  PROVE  Keeps(m, o, S)
BY DEF Keeps

LEMMA SetKeeps ==
  ASSUME NEW m, NEW id, NEW width, NEW x, Shaped(m)
  PROVE  /\ Keeps(m, set_gpr_w_handler(m, id, width, x), {id})
         /\ Keeps(m, AddTo(m, id, x), {id})
         /\ Keeps(m, [m EXCEPT !.gpr[id] = x], {id})
BY DEF Shaped, Keeps, set_gpr_w_handler, AddTo

LEMMA OthersKeep ==
  ASSUME NEW m, Shaped(m), NEW a, NEW width, NEW x, NEW opclass, NEW flags, NEW code
  PROVE  /\ Keeps(m, m, {})
         /\ Keeps(m, bus_write(m, a, width, x), {})
         /\ Keeps(m, WithFlags(m, opclass, flags), {})
         /\ Keeps(m, Fails(m, code), {})
         /\ Keeps(m, SegmentFault(m), {})
BY DEF Shaped, Keeps, bus_write, WithFlags, Fails, SegmentFault

LEMMA KeepsMore ==
  ASSUME NEW m, NEW n, NEW S, NEW T, Keeps(m, n, S), S \subseteq T
  PROVE  Keeps(m, n, T)
BY DEF Keeps

(* The operand's register, when it is one. *)
RmRegister(i) == {r \in {i.rm} : i.mod = 3}

LEMMA WriteToKeeps ==
  ASSUME NEW m, NEW i, NEW x, Shaped(m)
  PROVE  Keeps(m, WriteTo(m, i, x), RmRegister(i))
<1>1. CASE i.mod = 3
  <2>1. Keeps(m, set_gpr_w_handler(m, i.rm, i.width, x), {i.rm})
    BY SetKeeps
  <2>2. RmRegister(i) = {i.rm}
    BY <1>1 DEF RmRegister
  <2> QED  BY <1>1, <2>1, <2>2 DEF WriteTo
<1>2. CASE i.mod # 3
  <2>1. Keeps(m, bus_write(m, calculate_EA(m, i), i.width, x), {})
    BY OthersKeep
  <2> QED  BY <1>2, <2>1, KeepsMore DEF WriteTo
<1> QED  BY <1>1, <1>2

LEMMA FlagsKeep ==
  ASSUME NEW m, NEW n, NEW S, NEW opclass, NEW flags, Keeps(m, n, S)
  PROVE  /\ Keeps(m, WithFlags(n, opclass, flags), S)
         /\ Keeps(m, Then(n, WithFlags(n, opclass, flags)), S)
<1>1. Keeps(n, WithFlags(n, opclass, flags), S)
  BY OthersKeep, KeepsMore DEF Keeps
<1>2. Keeps(m, WithFlags(n, opclass, flags), S)
  BY <1>1, KeepsTrans
<1> QED  BY <1>2 DEF Then

LEMMA AluKeeps ==
  ASSUME NEW m, NEW i, Shaped(m)
  PROVE  /\ Keeps(m, alu_two_op_rm_r(m, i), RmRegister(i))
         /\ Keeps(m, alu_two_op_r_rm(m, i), {i.reg})
<1> DEFINE out == ALU(read_rm_op(m, i), gpr_w_handler(m, i.reg, i.width),
                      Cin(m, i.opclass), i.width, i.opclass)
           n   == IF ThrowsResult(i.opclass) THEN m ELSE write_rm_dst(m, i, out.low)
           out2 == ALU(gpr_w_handler(m, i.reg, i.width), read_rm_op(m, i),
                       Cin(m, i.opclass), i.width, i.opclass)
           n2  == IF ThrowsResult(i.opclass) THEN m
                  ELSE set_gpr_w_handler(m, i.reg, i.width, out2.low)
<1>1. \A S : Keeps(m, m, S) /\ Keeps(m, Fails(m, "BUS_READ_FAILURE"), S)
  BY OthersKeep, KeepsMore
<1>2. Keeps(m, n, RmRegister(i))
  BY <1>1, WriteToKeeps DEF write_rm_dst
<1>3. Keeps(m, n2, {i.reg})
  BY <1>1, SetKeeps
<1>4. Keeps(m, Then(n, WithFlags(n, i.opclass, out.flags)), RmRegister(i))
  <2> HIDE DEF n, out
  <2> QED  BY <1>2, FlagsKeep
<1>5. Keeps(m, WithFlags(n2, i.opclass, out2.flags), {i.reg})
  <2> HIDE DEF n2, out2
  <2> QED  BY <1>3, FlagsKeep
<1>6. Keeps(m, alu_two_op_rm_r(m, i), RmRegister(i))
  BY <1>1, <1>4 DEF alu_two_op_rm_r
<1>7. Keeps(m, alu_two_op_r_rm(m, i), {i.reg})
  BY <1>1, <1>5 DEF alu_two_op_r_rm
<1> QED  BY <1>6, <1>7

LEMMA PushKeeps ==
  ASSUME NEW m, NEW width, NEW x, Shaped(m)
  PROVE  Keeps(m, Push(m, width, x), {ESP})
<1> DEFINE n == Lowered(m, width)
           w == bus_write(n, StackAddress(n), width, x)
<1>1. Keeps(m, n, {ESP})
  BY SetKeeps DEF Lowered
<1> HIDE DEF n
<1>2. Keeps(m, w, {ESP})
  <2>1. Keeps(n, w, {ESP})
    BY <1>1, OthersKeep, KeepsMore DEF Keeps
  <2> HIDE DEF w
  <2> QED  BY <1>1, <2>1, KeepsTrans
<1> HIDE DEF w
<1>3. Keeps(m, Fails(m, w.rc), {ESP})
  BY OthersKeep, KeepsMore
<1> QED  BY <1>2, <1>3 DEF Push, n, w

LEMMA PopKeeps ==
  ASSUME NEW m, NEW r, NEW junk, Shaped(m)
  PROVE  Keeps(m, pop_gpr(m, r, junk), {r, ESP})
<1> DEFINE a == StackAddress(m)
           n == [m EXCEPT !.gpr[r] = bus_read(m, a, DwordBits, junk)]
           w == bus_write(n, StackAddress(n), DwordBits, 0)
<1>1. Keeps(m, n, {r, ESP})
  BY SetKeeps, KeepsMore
<1> HIDE DEF n
<1>2. Keeps(m, w, {r, ESP})
  <2>1. Keeps(n, w, {r, ESP})
    BY <1>1, OthersKeep, KeepsMore DEF Keeps
  <2> HIDE DEF w
  <2> QED  BY <1>1, <2>1, KeepsTrans
<1> HIDE DEF w
<1>3. Keeps(m, AddTo(w, ESP, 4), {r, ESP})
  <2>1. Keeps(w, AddTo(w, ESP, 4), {r, ESP})
    <3>1. Shaped(w)
      BY <1>2 DEF Keeps
    <3>2. Keeps(w, AddTo(w, ESP, 4), {ESP})
      BY <3>1, SetKeeps
    <3> QED  BY <3>2, KeepsMore
  <2> QED  BY <1>2, <2>1, KeepsTrans
<1>4. Keeps(m, Fails(m, "BUS_READ_FAILURE"), {r, ESP})
  BY OthersKeep, KeepsMore
<1>5. Keeps(m, Then(w, AddTo(w, ESP, 4)), {r, ESP})
  BY <1>2, <1>3 DEF Then
<1> QED  BY <1>4, <1>5 DEF pop_gpr, a, n, w

LEMMA JumpKeeps ==
  ASSUME NEW m, NEW i, Shaped(m)
  PROVE  Keeps(m, jmp_rel(m, i), {EIP}) /\ Keeps(m, jmp_rm(m, i), {EIP})
<1>1. Keeps(m, SegmentFault(m), {EIP})
  BY OthersKeep, KeepsMore
<1>2. \A x : Keeps(m, AddTo(m, EIP, x), {EIP}) /\ Keeps(m, [m EXCEPT !.gpr[EIP] = x], {EIP})
  BY SetKeeps
<1>3. Keeps(m, jmp_rel(m, i), {EIP})
  BY <1>1, <1>2 DEF jmp_rel
<1>4. Keeps(m, jmp_rm(m, i), {EIP})
  BY <1>1, <1>2 DEF jmp_rm
<1> QED  BY <1>3, <1>4

LEMMA CallKeeps ==
  ASSUME NEW m, NEW i, Shaped(m)
  PROVE  Keeps(m, call_rel(m, i), {EIP, ESP}) /\ Keeps(m, call_rm(m, i), {EIP, ESP})
<1> DEFINE n == push_gpr(m, EIP)
<1>1. Keeps(m, n, {EIP, ESP})
  BY PushKeeps, KeepsMore DEF push_gpr
<1> HIDE DEF n
<1>2. /\ Keeps(n, jmp_rel(n, i), {EIP, ESP})
      /\ Keeps(n, [n EXCEPT !.gpr[EIP] = read_rm_op(m, i)], {EIP, ESP})
  <2>1. Shaped(n)
    BY <1>1 DEF Keeps
  <2>2. Keeps(n, jmp_rel(n, i), {EIP}) /\ Keeps(n, [n EXCEPT !.gpr[EIP] = read_rm_op(m, i)], {EIP})
    BY <2>1, JumpKeeps, SetKeeps
  <2> QED  BY <2>2, KeepsMore
<1>3. /\ Keeps(m, jmp_rel(n, i), {EIP, ESP})
      /\ Keeps(m, [n EXCEPT !.gpr[EIP] = read_rm_op(m, i)], {EIP, ESP})
  BY <1>1, <1>2, KeepsTrans
<1> QED  BY <1>1, <1>3 DEF call_rel, call_rm, Then, n

LEMMA Grp5Keeps ==
  ASSUME NEW m, NEW i, Shaped(m)
  PROVE  Keeps(m, execute_GRP5(m, i),
               (IF i.reg \in {0, 1} THEN RmRegister(i) ELSE {})
                 \cup (IF i.reg \in {2, 4} THEN {EIP} ELSE {})
                 \cup (IF i.reg = 2 THEN {ESP} ELSE {}))
<1> DEFINE S == (IF i.reg \in {0, 1} THEN RmRegister(i) ELSE {})
                  \cup (IF i.reg \in {2, 4} THEN {EIP} ELSE {})
                  \cup (IF i.reg = 2 THEN {ESP} ELSE {})
<1>1. ASSUME NEW opclass
      PROVE  Keeps(m, step_rm(m, i, opclass), RmRegister(i))
  <2> DEFINE out == ALU(read_rm_op(m, i), 0, 0, DwordBits, opclass)
             n   == write_rm_dst(m, i, out.low)
  <2>1. Keeps(m, n, RmRegister(i))
    BY WriteToKeeps DEF write_rm_dst
  <2> HIDE DEF n, out
  <2>2. Keeps(m, Then(n, WithFlags(n, opclass, out.flags)), RmRegister(i))
    BY <2>1, FlagsKeep
  <2> QED  BY <2>2 DEF step_rm, n, out
<1>2. \A code : Keeps(m, Fails(m, code), S)
  BY OthersKeep, KeepsMore
<1>3. i.reg \in {0, 1} => RmRegister(i) \subseteq S
  OBVIOUS
<1>4. i.reg = 2 => {EIP, ESP} \subseteq S
  OBVIOUS
<1>5. i.reg = 4 => {EIP} \subseteq S
  OBVIOUS
<1> HIDE DEF S
<1>6. i.reg = 0 => Keeps(m, step_rm(m, i, "INC"), S)
  BY <1>1, <1>3, KeepsMore
<1>7. i.reg = 1 => Keeps(m, step_rm(m, i, "DEC"), S)
  BY <1>1, <1>3, KeepsMore
<1>8. i.reg = 2 => Keeps(m, call_rm(m, i), S)
  BY <1>4, CallKeeps, KeepsMore
<1>9. i.reg = 4 => Keeps(m, jmp_rm(m, i), S)
  BY <1>5, JumpKeeps, KeepsMore
<1>10. Keeps(m, execute_GRP5(m, i), S)
  BY <1>2, <1>6, <1>7, <1>8, <1>9 DEF execute_GRP5
<1> QED  BY <1>10 DEF S

LEMMA SeriesKeeps ==
  ASSUME NEW m, NEW junk, Shaped(m)
  PROVE  /\ Keeps(m, execute_PUSHA(m), {ESP})
         /\ Keeps(m, execute_POPA(m, junk), Gpr \ {EIP})
<1> DEFINE P == {ESP}
           Q == Gpr \ {EIP}
<1>1. \A n, r : Keeps(m, n, P) => Keeps(m, ThenPush(n, r), P)
  <2> TAKE n, r
  <2> SUFFICES ASSUME Keeps(m, n, P) PROVE Keeps(m, ThenPush(n, r), P)
    OBVIOUS
  <2>1. Keeps(n, push_gpr(n, r), P)
    <3>1. Shaped(n)
      BY DEF Keeps
    <3> QED  BY <3>1, PushKeeps DEF push_gpr
  <2>2. Keeps(m, push_gpr(n, r), P)
    <3> HIDE DEF P
    <3> QED  BY <2>1, KeepsTrans
  <2> QED  BY <2>2 DEF ThenPush, Then
<1>2. \A n : \A r \in Q : Keeps(m, n, Q) => Keeps(m, ThenPop(n, r, junk), Q)
  <2> TAKE n
  <2> TAKE r \in Q
  <2> SUFFICES ASSUME Keeps(m, n, Q) PROVE Keeps(m, ThenPop(n, r, junk), Q)
    OBVIOUS
  <2>1. Keeps(n, pop_gpr(n, r, junk), Q)
    <3>1. Shaped(n)
      BY DEF Keeps
    <3>2. Keeps(n, pop_gpr(n, r, junk), {r, ESP})
      BY <3>1, PopKeeps
    <3>3. {r, ESP} \subseteq Q
      BY SMT DEF Gpr, EIP, ESP
    <3> HIDE DEF Q
    <3> QED  BY <3>2, <3>3, KeepsMore
  <2>2. Keeps(m, pop_gpr(n, r, junk), Q)
    <3> HIDE DEF Q
    <3> QED  BY <2>1, KeepsTrans
  <2> QED  BY <2>2 DEF ThenPop, Then
<1>3. Keeps(m, m, P) /\ Keeps(m, m, Q)
  BY OthersKeep, KeepsMore
<1>4. EAX \in Q /\ ECX \in Q /\ EDX \in Q /\ EBX \in Q /\ ESP \in Q /\ EBP \in Q
        /\ ESI \in Q /\ EDI \in Q
  BY SMT DEF Gpr, EAX, ECX, EDX, EBX, EIP, EBP, ESI, EDI, ESP
<1> HIDE DEF P, Q
<1>5. \A n, a, b, c, d : Keeps(m, n, P) => Keeps(m, PushFour(n, a, b, c, d), P)
  BY <1>1 DEF PushFour
<1>6. \A n : \A a, b, c, d \in Q : Keeps(m, n, Q) => Keeps(m, PopFour(n, a, b, c, d, junk), Q)
  BY <1>2 DEF PopFour
<1>7. Keeps(m, execute_PUSHA(m), P)
  BY <1>3, <1>5 DEF execute_PUSHA
<1>8. Keeps(m, execute_POPA(m, junk), Q)
  BY <1>3, <1>4, <1>6 DEF execute_POPA
<1> QED  BY <1>7, <1>8 DEF P, Q

LEMMA ExecuteKeeps ==
  ASSUME NEW i \in Instr, DOMAIN gpr = Gpr, Execute(i)
  PROVE  \A r \in Gpr \ Writes(i) : gpr'[r] = Fetched(i).gpr[r]
<1> DEFINE m == Fetched(i)
           Done == \A r \in Gpr \ Writes(i) : gpr'[r] = m.gpr[r]
<1> SUFFICES Done
  OBVIOUS
<1>1. Running
  BY DEF Execute, AluRmR, AluRRm, IncR, MovRmR, MovRRm, MovRImm, PushR, PushImm,
         PushA, PopR, PopA, Ret, Jcc, Jmp, Call, Grp5, Clc, Stc, Hlt,
         Unimplemented, Runs
<1>2. Shaped(m)
  BY <1>1, FetchedShaped
<1> HIDE DEF m
<1>3. \A n, S : Keeps(m, n, S) /\ S \cap Gpr \subseteq Writes(i) /\ gpr' = n.gpr => Done
  BY DEF Keeps
<1> HIDE DEF Done
<1>4. \A code : Keeps(m, m, {}) /\ Keeps(m, Fails(m, code), {})
  BY <1>2, OthersKeep
<1>5. {} \cap Gpr \subseteq Writes(i)
  OBVIOUS
<1>6. CASE AluRmR(i)
  <2>1. i.handler = "ALU_RM_R" /\ gpr' = alu_two_op_rm_r(m, i).gpr
    BY <1>6 DEF AluRmR, Runs, m
  <2>2. RmRegister(i) \cap Gpr \subseteq Writes(i)
    BY <2>1 DEF RmRegister, Writes
  <2> QED  BY <1>2, <1>3, <2>1, <2>2, AluKeeps
<1>7. CASE AluRRm(i)
  <2>1. i.handler = "ALU_R_RM" /\ gpr' = alu_two_op_r_rm(m, i).gpr
    BY <1>7 DEF AluRRm, Runs, m
  <2>2. {i.reg} \cap Gpr \subseteq Writes(i)
    BY <2>1 DEF Writes
  <2> QED  BY <1>2, <1>3, <2>1, <2>2, AluKeeps
<1>8. CASE IncR(i)
  <2>1. PICK junk \in JunkFlags :
          i.handler = "INC_R" /\ gpr' = alu_increment_register(m, i, junk).gpr
    BY <1>8 DEF IncR, Runs, m
  <2> DEFINE out == ALU(m.gpr[i.reg], 0, 0, DwordBits, "INC")
             n   == set_gpr_w_handler(m, i.reg, DwordBits, out.low)
  <2>2. Keeps(m, n, {i.reg})
    BY <1>2, SetKeeps
  <2> HIDE DEF n, out
  <2>3. Keeps(m, WithFlags(n, "INC", out.flags \cup junk), {i.reg})
    BY <2>2, FlagsKeep
  <2>4. {i.reg} \cap Gpr \subseteq Writes(i)
    BY <2>1 DEF Writes
  <2> QED  BY <1>3, <2>1, <2>3, <2>4 DEF alu_increment_register, n, out
<1>9. CASE MovRmR(i)
  <2>1. /\ i.handler = "MOV_RM_R"
        /\ gpr' = WriteTo(m, i, gpr_w_handler(m, i.reg, i.width)).gpr
    BY <1>9 DEF MovRmR, Runs, m
  <2>2. RmRegister(i) \cap Gpr \subseteq Writes(i)
    BY <2>1 DEF RmRegister, Writes
  <2> QED  BY <1>2, <1>3, <2>1, <2>2, WriteToKeeps
<1>10. CASE MovRRm(i) \/ MovRImm(i)
  <2>1. /\ i.handler \in {"MOV_R_RM", "MOV_R_IMM"}
        /\ \/ \E x : gpr' = set_gpr_w_handler(m, i.reg, i.width, x).gpr
           \/ gpr' = Fails(m, "BUS_READ_FAILURE").gpr
    BY <1>10 DEF MovRRm, MovRImm, Runs, m
  <2>2. {i.reg} \cap Gpr \subseteq Writes(i)
    BY <2>1 DEF Writes
  <2>3. \A x : Keeps(m, set_gpr_w_handler(m, i.reg, i.width, x), {i.reg})
    BY <1>2, SetKeeps
  <2> QED  BY <1>3, <1>4, <1>5, <2>1, <2>2, <2>3
<1>11. CASE PushR(i) \/ PushImm(i) \/ PushA(i)
  <2>1. /\ i.handler \in {"PUSH_R", "PUSH_IMM", "PUSHA"}
        /\ (\E width, x : gpr' = Push(m, width, x).gpr) \/ gpr' = execute_PUSHA(m).gpr
    BY <1>11 DEF PushR, PushImm, PushA, push_gpr, Runs, m
  <2>2. {ESP} \cap Gpr \subseteq Writes(i)
    BY <2>1 DEF Writes, Pushes
  <2> QED  BY <1>2, <1>3, <2>1, <2>2, PushKeeps, SeriesKeeps
<1>12. CASE PopR(i) \/ Ret(i)
  <2>1. \/ i.handler = "POP_R" /\ \E junk : gpr' = pop_gpr(m, i.reg, junk).gpr
        \/ i.handler = "RET" /\ \E junk : gpr' = pop_gpr(m, EIP, junk).gpr
    BY <1>12 DEF PopR, Ret, Runs, m
  <2>2. /\ i.handler = "POP_R" => {i.reg, ESP} \cap Gpr \subseteq Writes(i)
        /\ i.handler = "RET" => {EIP, ESP} \cap Gpr \subseteq Writes(i)
    BY DEF Writes, Jumps
  <2> QED  BY <1>2, <1>3, <2>1, <2>2, PopKeeps
<1>13. CASE PopA(i)
  <2>1. i.handler = "POPA" /\ \E junk : gpr' = execute_POPA(m, junk).gpr
    BY <1>13 DEF PopA, Runs, m
  <2>2. (Gpr \ {EIP}) \cap Gpr \subseteq Writes(i)
    BY <2>1 DEF Writes
  <2> QED  BY <1>2, <1>3, <2>1, <2>2, SeriesKeeps
<1>14. CASE Jcc(i) \/ Jmp(i)
  <2>1. /\ i.handler \in {"JCC", "JMP_REL"}
        /\ gpr' = m.gpr \/ gpr' = jmp_rel(m, i).gpr
    BY <1>14 DEF Jcc, Jmp, Runs, m
  <2>2. {EIP} \cap Gpr \subseteq Writes(i)
    BY <2>1 DEF Writes, Jumps
  <2> QED  BY <1>2, <1>3, <1>4, <1>5, <2>1, <2>2, JumpKeeps
<1>15. CASE Call(i)
  <2>1. i.handler = "CALL_REL" /\ gpr' = call_rel(m, i).gpr
    BY <1>15 DEF Call, Runs, m
  <2>2. {EIP, ESP} \cap Gpr \subseteq Writes(i)
    BY <2>1 DEF Writes, Jumps, Pushes
  <2> QED  BY <1>2, <1>3, <2>1, <2>2, CallKeeps
<1>16. CASE Grp5(i)
  <2> DEFINE S == (IF i.reg \in {0, 1} THEN RmRegister(i) ELSE {})
                    \cup (IF i.reg \in {2, 4} THEN {EIP} ELSE {})
                    \cup (IF i.reg = 2 THEN {ESP} ELSE {})
  <2>1. i.handler = "GRP5" /\ gpr' = execute_GRP5(m, i).gpr
    BY <1>16 DEF Grp5, Runs, m
  <2>2. S \cap Gpr \subseteq Writes(i)
    BY <2>1 DEF Writes, Jumps, Pushes, RmRegister
  <2>3. Keeps(m, execute_GRP5(m, i), S)
    BY <1>2, Grp5Keeps
  <2> HIDE DEF S
  <2> QED  BY <1>3, <2>1, <2>2, <2>3
<1>17. CASE Clc(i) \/ Stc(i) \/ Hlt(i) \/ Unimplemented(i)
  <2>1. gpr' = m.gpr
    BY <1>2, <1>17 DEF Clc, Stc, Hlt, Unimplemented, Fails, Runs, m, Shaped
  <2> QED  BY <1>3, <1>4, <1>5, <2>1
<1> QED
  BY <1>6, <1>7, <1>8, <1>9, <1>10, <1>11, <1>12, <1>13, <1>14, <1>15, <1>16, <1>17 DEF Execute

(* Execution goes on behind an instruction, and the registers its numbers  *)
(* do not name keep their values, for every program and size of words; the *)
(* exceptions are jumps, and number 4, which is EIP.                       *)
THEOREM OnlyNamedRegistersChange == HandlersSpec => NamedRegistersOnly
<1>1. DOMAIN gpr = Gpr /\ [HandlersNext]_handlersvars =>
        [\A r \in Gpr \ Writes(last') : gpr'[r] = Fetched(last').gpr[r]]_handlersvars
  BY ExecuteKeeps DEF HandlersNext
<1> QED  BY <1>1, RegisterFileKept, PTL DEF HandlersSpec, NamedRegistersOnly

-----------------------------------------------------------------------------
(* Registers hold dwords and memory bytes also while the programs of this  *)
(* module run.                                                             *)
THEOREM HandlersTypeCorrect == HandlersSpec => []ExecutorTypeOK
<1>1. HandlersInit => ExecutorTypeOK
  BY InitType DEF HandlersInit
<1>2. ExecutorTypeOK /\ [HandlersNext]_handlersvars => ExecutorTypeOK'
  <2> SUFFICES ASSUME ExecutorTypeOK, [HandlersNext]_handlersvars PROVE ExecutorTypeOK'
    OBVIOUS
  <2>1. CASE HandlersNext
    <3>1. PICK i \in Instr : Execute(i)
      BY <2>1 DEF HandlersNext
    <3>2. i \in Instruction
      BY <3>1, InstrAssumption
    <3> QED BY <3>1, <3>2, ExecuteType
  <2>2. CASE UNCHANGED handlersvars
    BY <2>2 DEF handlersvars, vars, ExecutorTypeOK
  <2> QED BY <2>1, <2>2
<1> QED BY <1>1, <1>2, PTL DEF HandlersSpec

-----------------------------------------------------------------------------
(* What lies on the stack while an instruction pushes.  n is made from m   *)
(* by lowering the stack, and by writing nothing from its old top upwards. *)

Deeper(m, n) ==
  /\ n \in Machines
  /\ StackAddress(n) <= StackAddress(m)
  /\ \A a \in Address : a >= StackAddress(m) => n.ram[a] = m.ram[a]

LEMMA DeeperTrans ==
  ASSUME NEW m \in Machines, NEW n, NEW o, Deeper(m, n), Deeper(n, o)
  PROVE  Deeper(m, o)
<1>1. /\ StackAddress(m) \in Nat /\ StackAddress(n) \in Nat /\ StackAddress(o) \in Nat
      /\ o \in Machines
      /\ StackAddress(n) <= StackAddress(m) /\ StackAddress(o) <= StackAddress(n)
  BY StackAddressType DEF Deeper
<1>2. ASSUME NEW a \in Address, a >= StackAddress(m)
      PROVE  a >= StackAddress(n) /\ o.ram[a] = m.ram[a]
  <2>1. a \in Nat
    BY DEF Address
  <2>2. a >= StackAddress(n)
    BY SMT, <1>1, <1>2, <2>1
  <2> QED BY <1>2, <2>2 DEF Deeper
<1>3. StackAddress(o) <= StackAddress(m)
  BY ONLY <1>1, SMT
<1> QED BY <1>1, <1>2, <1>3 DEF Deeper

(* A machine of the same stack and memory. *)
LEMMA SameStackDeeper ==
  ASSUME NEW m \in Machines, NEW n \in Machines, n.gpr[ESP] = m.gpr[ESP], n.ram = m.ram
  PROVE  Deeper(m, n)
<1>1. StackAddress(n) = StackAddress(m) /\ StackAddress(m) \in Nat
  BY StackAddressType DEF StackAddress
<1> QED BY <1>1 DEF Deeper

(* A push writes below the top.  When there is no room below, the wrapped  *)
(* address is one of the last four of the address space, which belong to   *)
(* nobody, and the push is refused.                                        *)
LEMMA PushDeeper ==
  ASSUME NEW m \in Machines, NEW width \in Width, NEW x \in Int
  PROVE  Deeper(m, Push(m, width, x))
<1> DEFINE k == width \div ByteBits
           n == Lowered(m, width)
           s == StackAddress(m)
           t == StackAddress(n)
           w == bus_write(n, t, width, x)
<1>1. k \in {1, 4} /\ s \in 0..DWORD-1 /\ t \in Nat
  BY BytesOfWidth, StackAddressType, PushType DEF Dword
<1>2. /\ n.ram = m.ram /\ n \in Machines
      /\ t = (IF s >= k THEN s - k ELSE s - k + DWORD)
  BY LoweredAddress, PushType
<1>3. Push(m, width, x) = IF Ok(w) THEN w ELSE Fails(m, w.rc)
  BY DEF Push
<1>4. w \in Machines
  BY <1>1, <1>2, BusWriteType
<1>5. Deeper(m, Fails(m, w.rc))
  <2>1. w.rc \in ReturnCode
    BY <1>4 DEF Machines
  <2>2. Fails(m, w.rc) \in Machines
    BY <2>1, FailsType
  <2>3. Fails(m, w.rc).gpr = m.gpr /\ Fails(m, w.rc).ram = m.ram
    BY DEF Fails, Machines
  <2> HIDE DEF w
  <2> QED BY <2>2, <2>3, SameStackDeeper
<1>6. CASE ~OnBus(t)
  <2>1. ~Ok(w)
    BY <1>2, <1>6 DEF Ok, Fails, Machines, bus_write
  <2> HIDE DEF w
  <2> QED BY <1>3, <1>5, <2>1
<1>7. CASE OnBus(t)
  <2>1. s >= k /\ t = s - k
    BY <1>1, <1>2, <1>7, LayoutAssumption, WordSizes DEF OnBus, Console
  <2>2. w.gpr = n.gpr
    BY <1>7 DEF bus_write
  <2>3. StackAddress(w) = t
    BY <2>2 DEF StackAddress
  <2>4. ASSUME NEW a \in Address, a >= s PROVE w.ram[a] = m.ram[a]
    <3>1. a \notin t..t+k-1
      BY SMT, <1>1, <2>1, <2>4 DEF Address
    <3>2. n.ram[a] = m.ram[a]
      BY <1>2
    <3> QED BY <1>2, <1>7, <3>1, <3>2 DEF bus_write, Machines
  <2>5. t <= s
    BY SMT, <1>1, <2>1
  <2>6. Deeper(m, w)
    BY <1>4, <2>3, <2>4, <2>5 DEF Deeper
  <2> HIDE DEF w
  <2> QED BY <1>3, <1>5, <2>6
<1> QED BY <1>6, <1>7

LEMMA PushGprDeeper ==
  ASSUME NEW m \in Machines, NEW r \in Gpr
  PROVE  Deeper(m, push_gpr(m, r))
<1>1. DwordBits \in Width /\ Lowered(m, DwordBits).gpr[r] \in Int
  BY PushType, GprReadType, WordSizes DEF Width, Dword
<1> QED BY <1>1, PushDeeper DEF push_gpr

(* A PUSHA that stops halfway has pushed the registers before. *)
LEMMA PushAllDeeper ==
  ASSUME NEW m \in Machines
  PROVE  Deeper(m, execute_PUSHA(m))
<1>1. Deeper(m, m)
  BY SameStackDeeper
<1>2. ASSUME NEW n, Deeper(m, n), NEW r \in Gpr PROVE Deeper(m, ThenPush(n, r))
  <2>1. n \in Machines
    BY <1>2 DEF Deeper
  <2>2. Deeper(m, push_gpr(n, r))
    BY <1>2, <2>1, PushGprDeeper, DeeperTrans
  <2> QED BY <1>2, <2>2 DEF ThenPush, Then
<1>3. ASSUME NEW n, Deeper(m, n), NEW a \in Gpr, NEW b \in Gpr, NEW c \in Gpr, NEW d \in Gpr
      PROVE  Deeper(m, PushFour(n, a, b, c, d))
  BY <1>2, <1>3 DEF PushFour
<1>4. {EAX, ECX, EDX, EBX, ESP, EBP, ESI, EDI} \subseteq Gpr
  BY DEF EAX, ECX, EDX, EBX, ESP, EBP, ESI, EDI, Gpr
<1> QED BY <1>1, <1>3, <1>4 DEF execute_PUSHA

(* What a call does after its push leaves ESP and the memory alone.        *)
LEMMA CallDeeper ==
  ASSUME NEW m \in Machines, NEW i \in Instruction
  PROVE  Deeper(m, call_rel(m, i)) /\ (RmFound(m, i) => Deeper(m, call_rm(m, i)))
<1> DEFINE n == push_gpr(m, EIP)
<1>1. EIP \in Gpr /\ ESP \in Gpr /\ EIP # ESP
  BY DEF EIP, ESP, Gpr
<1>2. n \in Machines /\ Deeper(m, n)
  BY <1>1, PushType, PushGprDeeper
<1> HIDE DEF n
<1>3. Deeper(m, jmp_rel(n, i))
  <2>1. jmp_rel(n, i) \in Machines
    BY <1>2, JumpType
  <2>2. jmp_rel(n, i).gpr[ESP] = n.gpr[ESP] /\ jmp_rel(n, i).ram = n.ram
    BY <1>1, <1>2 DEF jmp_rel, SegmentFault, Fails, AddTo, Machines
  <2> QED BY <1>2, <2>1, <2>2, SameStackDeeper, DeeperTrans
<1>4. ASSUME RmFound(m, i) PROVE Deeper(m, [n EXCEPT !.gpr[EIP] = read_rm_op(m, i)])
  <2> DEFINE o == [n EXCEPT !.gpr[EIP] = read_rm_op(m, i)]
  <2>1. read_rm_op(m, i) \in Dword
    BY <1>4, OperandType
  <2>2. o \in Machines /\ o.gpr[ESP] = n.gpr[ESP] /\ o.ram = n.ram
    BY <1>1, <1>2, <2>1 DEF Machines
  <2> HIDE DEF o
  <2>3. Deeper(m, o)
    BY <1>2, <2>2, SameStackDeeper, DeeperTrans
  <2> QED BY <2>3 DEF o
<1> QED BY <1>2, <1>3, <1>4 DEF call_rel, call_rm, Then, n

(* One step per kind of instruction that pushes. *)
LEMMA ExecuteDeeper ==
  ASSUME ExecutorTypeOK, NEW i \in Instruction, Execute(i), Pushes(i)
  PROVE  \A a \in Address : a >= StackAddress(Machine) => ram'[a] = ram[a]
<1> DEFINE m == Fetched(i)
           Done == \A a \in Address : a >= StackAddress(Machine) => ram'[a] = ram[a]
<1> SUFFICES Done
  OBVIOUS
<1>1. /\ m \in Machines /\ m.ram = ram
      /\ StackAddress(m) = StackAddress(Machine)
      /\ i.width \in Width /\ i.imm \in Int /\ i.reg \in Gpr
  <2>1. Machine \in Machines /\ m \in Machines
    BY MachineType
  <2>2. EIP # ESP /\ ESP \in Gpr
    BY DEF EIP, ESP, Gpr
  <2>3. Machine.ram = ram /\ Machine.gpr = gpr
    BY DEF Machine
  <2>4. m.ram = ram /\ m.gpr[ESP] = gpr[ESP]
    BY <2>1, <2>2, <2>3 DEF Fetched, AddTo, Machines
  <2> QED BY <2>1, <2>3, <2>4, InstructionParts, WordSizes DEF StackAddress, Dword
<1> HIDE DEF m
<1>2. \A n : Deeper(m, n) /\ ram' = n.ram => Done
  BY <1>1 DEF Deeper
<1> HIDE DEF Done
<1>3. CASE PushR(i)
  BY <1>1, <1>2, <1>3, PushGprDeeper DEF PushR, Runs, m
<1>4. CASE PushImm(i)
  BY <1>1, <1>2, <1>4, PushDeeper DEF PushImm, Runs, m
<1>5. CASE PushA(i)
  BY <1>1, <1>2, <1>5, PushAllDeeper DEF PushA, Runs, m
<1>6. CASE Call(i)
  BY <1>1, <1>2, <1>6, CallDeeper DEF Call, Runs, m
<1>7. CASE Grp5(i)
  <2>1. i.reg = 2 /\ ram' = execute_GRP5(m, i).ram
    BY <1>7 DEF Grp5, Runs, Pushes, m
  <2>2. CASE RmFound(m, i)
    <3>1. execute_GRP5(m, i) = call_rm(m, i)
      BY <2>1, <2>2 DEF execute_GRP5
    <3> QED BY <1>1, <1>2, <2>1, <2>2, <3>1, CallDeeper
  <2>3. CASE ~RmFound(m, i)
    <3>1. execute_GRP5(m, i) = Fails(m, "BUS_READ_FAILURE")
      BY <2>3 DEF execute_GRP5
    <3>2. Fails(m, "BUS_READ_FAILURE") \in Machines
      BY <1>1, FailsType DEF ReturnCode
    <3>3. Deeper(m, Fails(m, "BUS_READ_FAILURE"))
      <4>1. /\ Fails(m, "BUS_READ_FAILURE").gpr = m.gpr
            /\ Fails(m, "BUS_READ_FAILURE").ram = m.ram
        BY <1>1 DEF Fails, Machines
      <4> QED BY <1>1, <3>2, <4>1, SameStackDeeper
    <3> QED BY <1>2, <2>1, <3>1, <3>3
  <2> QED BY <2>2, <2>3
<1>8. \/ PushR(i) \/ PushImm(i) \/ PushA(i) \/ Call(i) \/ Grp5(i)
  BY DEF Execute, AluRmR, AluRRm, IncR, MovRmR, MovRRm, MovRImm, PopR, PopA, Ret, Jcc, Jmp,
         Clc, Stc, Hlt, Unimplemented, Runs, Pushes
<1> QED BY <1>3, <1>4, <1>5, <1>6, <1>7, <1>8

(* No PUSH, PUSHA or call, finished or stopped halfway, touches a byte     *)
(* that was on the stack before it: also where ESP runs out of RAM below   *)
(* and wraps, provided nobody answers the last four addresses.             *)
THEOREM PushesKeepOlderSlots == HandlersSpec => OlderSlotsKept
<1>1. ExecutorTypeOK /\ [HandlersNext]_handlersvars =>
        [Pushes(last') =>
           \A a \in Address : a >= StackAddress(Machine) => ram'[a] = ram[a]]_handlersvars
  BY ExecuteDeeper, InstrAssumption DEF HandlersNext
<1> QED BY <1>1, HandlersTypeCorrect, PTL DEF HandlersSpec, OlderSlotsKept

=============================================================================
