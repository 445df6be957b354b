------------------------------- MODULE StartupProofs -------------------------------
(***************************************************************************)
(* The startup's properties for every command line, every listing, every   *)
(* size of the RAM, the buffer and the program window.                     *)
(*                                                                         *)
(* Five invariants, each with the conjuncts of one concern: StageInv is    *)
(* what main and boot have done by each stage, TextInv what is left of the *)
(* listing and that numbers are cut to bytes, ParseInv which numbers of    *)
(* the listing the bytes are, PreviewInv the program window, and DelayInv  *)
(* the walk over the arguments.                                            *)
(*                                                                         *)
(* The memory follows: the loader's invariant CopyInv says how far the     *)
(* copy has come: the RAM is what it was before with the program's bytes   *)
(* from the code segment's base up to the offset, or up to the end of the  *)
(* RAM.  Since that end is a multiple of four, no dword is written half.   *)
(* TableInv follows the descriptor table row by row, up to the segments    *)
(* read from it; TypeInv collects the types.  At the end, what comes back  *)
(* out of any descriptor at all.                                           *)
(***************************************************************************)
EXTENDS Startup, FiniteSetTheorems, SequenceTheorems, WellFoundedInduction, TLAPS

Four == {"ram", "console", "vga", "keyboard"}
Five == Four \cup {"clock"}
Early == {"arguments", "open", "options", "ui"}
Stages == Early \cup {"start", "bus", "map", "gdt", "cpu", "load", "loop", "flush",
                      "refused", "crashed", "exit"}
Phases == {"wait", "read", "scan", "copy", "loaded"}

(* What is allocated, registered and known to the UI at each stage. *)
PartsInv ==
  /\ stage \in Early => allocated = {} /\ ui_pointers = {}
  /\ stage = "start" =>
       allocated \subseteq Four /\ ui_pointers = allocated \cap ShownInUi
  /\ stage = "bus" =>
       Four \subseteq allocated /\ allocated \subseteq Five /\ ui_pointers = ShownInUi
  /\ stage \in {"map", "gdt", "cpu"} =>
       allocated = Five \cup {"bus"} /\ ui_pointers = ShownInUi
  /\ stage = "load" => allocated = Five \cup {"bus", "cpu"} /\ ui_pointers = ShownInUi
  /\ stage \in {"loop", "flush"} =>
       allocated = Five \cup {"bus", "cpu", "machine"} /\ ui_pointers = ShownInUi

TablesInv ==
  /\ stage \in Early \cup {"start", "bus"} => map = <<>> /\ next_row = 1
  /\ stage = "map" =>
       /\ map \in Seq(Device) /\ Len(map) < 4
       /\ \A n \in 1..Len(map) : map[n] = Registration[n]
       /\ next_row = 1
  /\ stage = "gdt" => map = Registration /\ next_row \in 1..5
  /\ stage \in {"cpu", "load", "loop", "flush"} => map = Registration /\ next_row = 6

StageInv ==
  /\ stage \in Stages /\ phase \in Phases
  /\ ui_on = TRUE
  /\ stage \notin Early \cup {"crashed", "exit"} => callbacks = TRUE
  /\ stage = "crashed" => starved = TRUE
  /\ PartsInv
  /\ TablesInv
  /\ phase # "wait" =>
       stage \in {"load", "loop", "flush", "exit", "crashed"} /\ map = Registration
  /\ stage \in {"loop", "flush"} => phase = "loaded"

-----------------------------------------------------------------------------
LEMMA StageInit == Init => StageInv
  BY SMT DEF Init, CliInit, BusInit, LoaderInit, StageInv, PartsInv, TablesInv, Stages,
             Phases, Early

LEMMA StageMain == StageInv /\ Main => StageInv'
<1> SUFFICES ASSUME StageInv, Main PROVE StageInv'
  OBVIOUS
<1> USE DEF StageInv, PartsInv, TablesInv, Stages, Phases, Early, busvars, loadvars,
            previewvars, bootvars
<1>1. CASE Help
  BY SMT, <1>1 DEF Main, Help
<1>2. CASE NextArgument
  <2>1. stage = "arguments" /\ stage' \in {"arguments", "open"} /\ ui_on' = TRUE
    BY <1>2 DEF NextArgument
  <2>2. UNCHANGED <<phase, map, allocated, ui_pointers, callbacks, starved, next_row>>
    BY <1>2 DEF Main
  <2> QED BY SMT, <2>1, <2>2
<1>3. CASE NoProgram
  BY SMT, <1>3 DEF Main, NoProgram
<1>4. CASE CannotOpen
  BY SMT, <1>4 DEF Main, CannotOpen
<1>5. CASE Opened
  BY SMT, <1>5 DEF Main, Opened
<1>6. CASE Options
  <2>1. stage = "options" /\ stage' = "ui" /\ ui_on' = TRUE
    BY <1>6 DEF Options
  <2>2. UNCHANGED <<phase, map, allocated, ui_pointers, callbacks, starved, next_row>>
    BY <1>6 DEF Main
  <2> QED BY SMT, <2>1, <2>2
<1> QED BY <1>1, <1>2, <1>3, <1>4, <1>5, <1>6 DEF Main

LEMMA StageInitDevice == StageInv /\ InitDevice => StageInv'
<1> SUFFICES ASSUME StageInv, InitDevice PROVE StageInv'
  OBVIOUS
<1> USE DEF StageInv, PartsInv, TablesInv, Stages, Phases, Early
<1>1. PICK n \in 1..5 :
         /\ Devices[n] \notin allocated
         /\ \A m \in 1..n-1 : Devices[m] \in allocated
         /\ init_device(Devices[n])
  BY DEF InitDevice
<1>2. stage = "start" /\ UNCHANGED <<callbacks, next_row, ui_on, phase, map>>
  BY <1>1 DEF InitDevice, RestUnchanged, busvars, loadvars, init_device, Goto
<1>3. /\ ui_on = TRUE /\ callbacks = TRUE /\ phase = "wait" /\ map = <<>> /\ next_row = 1
      /\ allocated \subseteq Four /\ ui_pointers = allocated \cap ShownInUi
  BY SMT, <1>2
<1> DEFINE d == Devices[n]
<1>4. /\ d # "clock" => d \in Four
      /\ d = "clock" => Four \subseteq allocated
  <2>1. CASE n \in 1..4
    <3>1. d \in Four /\ d # "clock"
      BY SMT, <2>1 DEF Devices, Four
    <3> QED BY <3>1
  <2>2. CASE n = 5
    <3>1. Devices[1] \in allocated /\ Devices[2] \in allocated /\ Devices[3] \in allocated
            /\ Devices[4] \in allocated
      BY SMT, <1>1, <2>2
    <3>2. d = "clock"
      BY SMT, <2>2 DEF Devices
    <3> QED BY SMT, <3>1, <3>2 DEF Devices, Four
  <2> QED BY SMT, <2>1, <2>2
<1>5. \/ /\ allocated' = allocated \cup {d}
         /\ ui_pointers' = ui_pointers \cup ({d} \cap ShownInUi)
         /\ stage' = IF d = "clock" THEN "bus" ELSE stage
         /\ starved' = starved
      \/ /\ stage' = IF d = "clock" THEN "bus" ELSE "crashed"
         /\ starved' = TRUE /\ allocated' = allocated /\ ui_pointers' = ui_pointers
  BY <1>1, <1>3 DEF init_device, Goto
<1> HIDE DEF d
<1>6. ui_on' = TRUE /\ callbacks' = TRUE /\ phase' = "wait" /\ map' = <<>> /\ next_row' = 1
  BY <1>2, <1>3
<1>7. stage' \in {"start", "bus", "crashed"} /\ (stage' = "crashed" => starved' = TRUE)
  BY <1>2, <1>5
<1>8. PartsInv'
  <2>1. CASE d = "clock"
    <3>1. stage' = "bus" /\ Four \subseteq allocated
      BY <1>4, <1>5, <2>1
    <3>2. Four \subseteq allocated' /\ allocated' \subseteq Five
      BY <1>3, <1>5, <2>1, <3>1 DEF Five
    <3>3. ui_pointers' = ShownInUi
      BY <1>3, <1>5, <2>1, <3>1 DEF Four, ShownInUi
    <3> QED BY SMT, <3>1, <3>2, <3>3
  <2>2. CASE d # "clock"
    <3>1. stage' = "start" => /\ allocated' \subseteq Four
                              /\ ui_pointers' = allocated' \cap ShownInUi
      BY <1>3, <1>4, <1>5, <2>2
    <3>2. stage' \in {"start", "crashed"}
      BY <1>2, <1>5, <2>2
    <3> QED BY SMT, <3>1, <3>2
  <2> QED BY <2>1, <2>2
<1>9. TablesInv'
  BY SMT, <1>6, <1>7
<1> QED BY SMT, <1>6, <1>7, <1>8, <1>9

LEMMA Registered ==
  \A s \in Seq(Device) :
    Len(s) < 4 => Len(s) \in 0..3 /\ Registration[Len(s) + 1] \in Device
<1> TAKE s \in Seq(Device)
<1>1. Len(s) \in Nat
  BY LenProperties
<1>2. \A n \in 1..4 : Registration[n] \in Device
  BY SMT DEF Registration, Device
<1>3. \A n \in Nat : n < 4 => n \in 0..3 /\ n + 1 \in 1..4
  BY SMT
<1> QED BY Zenon, <1>1, <1>2, <1>3

(* Every allocation nobody tests ends in a crash and changes nothing else. *)
LEMMA Starving ==
  ASSUME Starves
  PROVE  /\ stage \in {"open", "ui", "load"} /\ stage' = "crashed" /\ starved' = TRUE
         /\ UNCHANGED <<argv, i, ui_on, delay, report>>
         /\ UNCHANGED <<callbacks, allocated, ui_pointers, next_row, segments>>
         /\ UNCHANGED <<busvars, loadvars, previewvars, text>>
  BY DEF Starves, NoMemoryForPath, NoMemoryForMatrix, NoMemoryForByte, RunsOut, Goto,
         RestUnchanged

LEMMA StageBoot == StageInv /\ Boot => StageInv'
<1> SUFFICES ASSUME StageInv, Boot PROVE StageInv'
  OBVIOUS
<1> USE DEF StageInv, Stages, Phases, Early
<1>1. CASE init_ui
  <2>1. /\ stage = "ui" /\ stage' \in {"start", "exit"} /\ ui_on' = ui_on
        /\ stage' = "start" => callbacks' = TRUE
        /\ UNCHANGED <<phase, map, allocated, ui_pointers, next_row>>
    BY <1>1 DEF init_ui, Goto, RestUnchanged, busvars, loadvars
  <2> QED BY SMT, <2>1 DEF PartsInv, TablesInv, Four
<1>2. CASE InitDevice
  BY <1>2, StageInitDevice
<1>3. CASE CreateBus
  <2>1. /\ stage = "bus" /\ ui_on' = ui_on
        /\ UNCHANGED <<callbacks, phase, map, ui_pointers, next_row>>
    BY <1>3 DEF CreateBus, Goto, RestUnchanged, busvars, loadvars
  <2>2. \/ stage' = "map" /\ allocated' = allocated \cup {"bus"} /\ Five \subseteq allocated
        \/ stage' = "crashed" /\ starved' = TRUE
        \/ stage' = "refused"
    BY <1>3 DEF CreateBus, Goto, Five, Four
  <2>3. stage' = "map" => allocated' = Five \cup {"bus"}
    <3>1. stage' = "map" => allocated = Five /\ allocated' = allocated \cup {"bus"}
      BY <2>1, <2>2 DEF PartsInv
    <3> QED BY <3>1
  <2> QED BY SMT, <2>1, <2>2, <2>3 DEF PartsInv, TablesInv
<1>4. CASE RegisterDevice
  <2>1. /\ stage = "map" /\ map' = Append(map, Registration[Len(map) + 1])
        /\ stage' = IF Len(map) + 1 = Len(Registration) THEN "gdt" ELSE stage
        /\ UNCHANGED <<ui_on, callbacks, phase, allocated, ui_pointers, starved, next_row>>
    BY <1>4 DEF RegisterDevice, bus_register, Goto, loadvars, bootvars
  <2>2. /\ map' \in Seq(Device) /\ Len(map') = Len(map) + 1
        /\ \A n \in 1..Len(map') : map'[n] = Registration[n]
    <3>1. map \in Seq(Device) /\ Len(map) < 4 /\ \A n \in 1..Len(map) : map[n] = Registration[n]
      BY <2>1 DEF TablesInv
    <3>3. Registration[Len(map) + 1] \in Device
      BY <3>1, Registered
    <3>4. map' \in Seq(Device) /\ Len(map') = Len(map) + 1 /\ Len(map) \in Nat
            /\ map'[Len(map) + 1] = Registration[Len(map) + 1]
            /\ \A n \in 1..Len(map) : map'[n] = map[n]
      <4> DEFINE e == Registration[Len(map) + 1]
      <4>1. e \in Device
        BY <3>3
      <4> HIDE DEF e
      <4>2. /\ Append(map, e) \in Seq(Device) /\ Len(Append(map, e)) = Len(map) + 1
            /\ \A n \in 1..Len(map) : Append(map, e)[n] = map[n]
            /\ Append(map, e)[Len(map) + 1] = e
        BY <3>1, <4>1, AppendProperties
      <4> QED BY <2>1, <3>1, <4>2, LenProperties DEF e
    <3> QED BY SMT, <3>1, <3>4
  <2>4. /\ Registration \in Seq(Device) /\ Len(Registration) = 4
    BY SMT DEF Registration, Device
  <2>5. Len(map') = 4 => map' = Registration
    <3>1. SUFFICES ASSUME Len(map') = 4 PROVE map' = Registration
      OBVIOUS
    <3>2. Len(map') = Len(Registration)
      BY <2>4, <3>1
    <3> HIDE DEF Registration
    <3> QED BY Zenon, <2>2, <2>4, <3>2, SeqEqual
  <2>6. Len(map) \in 0..3
    BY <2>1, Registered DEF TablesInv
  <2>3. phase = "wait" /\ next_row = 1
    BY <2>1 DEF TablesInv
  <2>7. TablesInv' /\ stage' \in {"map", "gdt"}
    BY SMT, <2>1, <2>2, <2>3, <2>4, <2>5, <2>6 DEF TablesInv
  <2>8. PartsInv'
    BY SMT, <2>1, <2>7 DEF PartsInv
  <2> QED BY SMT, <2>1, <2>3, <2>7, <2>8
<1>5. CASE CreateEntry
  <2>1. Len(Rows) = 5
    BY SMT DEF Rows
  <2>2. /\ stage = "gdt"
        /\ UNCHANGED <<map, callbacks, allocated, ui_pointers, starved, phase>>
    BY <1>5 DEF CreateEntry, loadvars
  <2>3. /\ ui_on' = ui_on
        /\ \/ /\ next_row' = next_row + 1
              /\ stage' = IF next_row = Len(Rows) THEN "cpu" ELSE stage
           \/ stage' = "refused"
    BY <1>5 DEF CreateEntry, Goto
  <2>4. next_row \in 1..5 /\ map = Registration /\ phase = "wait"
    BY <2>2 DEF TablesInv
  <2>5. TablesInv'
    BY SMT, <2>1, <2>2, <2>3, <2>4 DEF TablesInv
  <2>6. PartsInv' /\ stage' \in {"gdt", "cpu", "refused"}
    BY SMT, <2>2, <2>3 DEF PartsInv
  <2> QED BY SMT, <2>2, <2>3, <2>4, <2>5, <2>6
<1>6. CASE ResetCpu
  <2>1. /\ stage = "cpu" /\ ui_on' = ui_on
        /\ UNCHANGED <<callbacks, ui_pointers, next_row, phase, map>>
        /\ \/ stage' = "load" /\ allocated' = allocated \cup {"cpu"}
           \/ stage' = "refused"
    BY <1>6 DEF ResetCpu, Goto, RestUnchanged, busvars, loadvars
  <2>2. stage' = "load" => allocated' = Five \cup {"bus", "cpu"}
    <3>1. stage' = "load" => allocated' = (Five \cup {"bus"}) \cup {"cpu"}
      BY <2>1 DEF PartsInv
    <3> QED BY <3>1
  <2> QED BY SMT, <2>1, <2>2 DEF PartsInv, TablesInv
<1>7. CASE OpenFile
  BY SMT, <1>7 DEF OpenFile, StartLoading, PartsInv, TablesInv, busvars, clivars, bootvars
<1>8. CASE Load
  <2>1. UNCHANGED map
    BY <1>8 DEF Load, EndOfFile, ReadLine, ScanByte, EndOfLine, CopyDword, CopyRemainder,
                bus_write, busvars
  <2>2. phase # "wait" /\ phase' \in Phases /\ phase' # "wait"
    BY <1>8 DEF Load, EndOfFile, ReadLine, ScanByte, EndOfLine, CopyDword, CopyRemainder
  <2> QED BY SMT, <1>8, <2>1, <2>2 DEF Load, PartsInv, TablesInv, clivars, bootvars
<1>9. CASE NoMemoryForProgram
  BY SMT, <1>9 DEF NoMemoryForProgram, Goto, PartsInv, TablesInv, busvars, loadvars, bootvars
<1>10. CASE CreateMachine
  <2>1. /\ stage = "load" /\ phase = "loaded" /\ ui_on' = ui_on
        /\ UNCHANGED <<callbacks, ui_pointers, next_row, phase, map>>
        /\ \/ stage' = "loop" /\ allocated' = allocated \cup {"machine"}
           \/ stage' = "crashed" /\ starved' = TRUE
    BY <1>10 DEF CreateMachine, Goto, RestUnchanged, busvars, loadvars
  <2>2. stage' = "loop" => allocated' = Five \cup {"bus", "cpu", "machine"}
    <3>1. stage' = "loop" => allocated' = (Five \cup {"bus", "cpu"}) \cup {"machine"}
      BY <2>1 DEF PartsInv
    <3> QED BY <3>1
  <2> QED BY SMT, <2>1, <2>2 DEF PartsInv, TablesInv
<1>11. CASE Starves
  BY SMT, <1>11, Starving DEF PartsInv, TablesInv, busvars, loadvars
<1> QED BY <1>1, <1>2, <1>3, <1>4, <1>5, <1>6, <1>7, <1>8, <1>9, <1>10, <1>11 DEF Boot

LEMMA StageNext == StageInv /\ [Next]_vars => StageInv'
<1> SUFFICES ASSUME StageInv, [Next]_vars PROVE StageInv'
  OBVIOUS
<1> USE DEF StageInv, PartsInv, TablesInv, Stages, Phases, Early
<1>1. CASE Main
  BY <1>1, StageMain
<1>2. CASE Boot
  BY <1>2, StageBoot
<1>3. CASE Turn
  BY SMT, <1>3 DEF Turn, Goto, busvars, loadvars, bootvars
<1>4. CASE Flush
  <2>1. /\ stage = "flush" /\ stage' \in {"loop", "exit"} /\ ui_on' = ui_on
        /\ UNCHANGED <<map, phase, callbacks, allocated, ui_pointers, starved, next_row>>
    BY <1>4 DEF Flush, Goto, Report, busvars, loadvars, bootvars
  <2> QED BY SMT, <2>1
<1>5. CASE Stop
  <2>1. /\ stage' = "exit" /\ ui_on' = ui_on
        /\ UNCHANGED <<map, phase, callbacks, allocated, ui_pointers, starved, next_row>>
    BY <1>5 DEF Stop, Report, busvars, loadvars, bootvars
  <2> QED BY SMT, <2>1
<1>6. CASE UNCHANGED vars
  BY SMT, <1>6 DEF vars, clivars, busvars, loadvars, bootvars
<1> QED BY <1>1, <1>2, <1>3, <1>4, <1>5, <1>6 DEF Next, Ended

(* What main and boot_sequence have done by each of their stages.          *)
THEOREM StageCorrect == Spec => []StageInv
  BY StageInit, StageNext, PTL DEF Spec

(* The loop runs on a complete machine only, and nothing but an allocation *)
(* that fails can make starting up crash.                                  *)
THEOREM MachineIsComplete == Spec => []MachineComplete
<1>1. StageInv => MachineComplete
  <2>1. Len(Rows) = 5
    BY SMT DEF Rows
  <2> QED BY SMT, <2>1 DEF StageInv, PartsInv, TablesInv, MachineComplete, Five, Four
<1> QED BY <1>1, StageCorrect, PTL

-----------------------------------------------------------------------------
(* What the loader reads: characters, and bytes from them.                 *)

TextInv ==
  /\ text \in Seq(Character) /\ rest \in Seq(Character) /\ buff \in Seq(Character)
  /\ arr \in Seq(Byte)

LEMMA LeastOfSet ==
  ASSUME NEW S, S \subseteq Nat, S # {}
  PROVE  Least(S) \in S /\ \A n \in S : Least(S) <= n
<1> DEFINE R == {ss \in Nat \X Nat : ss[1] < ss[2]}
<1>1. OpToRel(<, Nat) = R
  BY Zenon DEF OpToRel
<1>2. \A n, m \in Nat : <<n, m>> \in R <=> n < m
  BY SMT
<1> HIDE DEF R
<1>3. IsWellFoundedOn(R, Nat)
  BY Zenon, <1>1, NatLessThanWellFounded
<1>4. PICK m \in S : \A n \in S : ~ (<<n, m>> \in R)
  BY Zenon, <1>3, WFMin
<1>5. \A n \in S : m <= n
  <2> TAKE n \in S
  <2>1. n \in Nat /\ m \in Nat /\ ~ (n < m)
    BY Zenon, <1>2, <1>4
  <2> QED BY SMT, <2>1
<1>6. \E n \in S : \A k \in S : n <= k
  BY <1>5
<1> QED BY Zenon, <1>6 DEF Least

LEMMA ChunkRange ==
  ASSUME NEW s \in Seq(Character), s # <<>>
  PROVE  Chunk(s) \in 1..Len(s) /\ Chunk(s) <= BUFF_SIZE - 1
<1> DEFINE S == {n \in 1..Len(s) : n = Len(s) \/ s[n] = Newline \/ n = BUFF_SIZE - 1}
<1>1. Len(s) \in Nat \ {0}
  BY EmptySeq
<1>2. /\ S \subseteq Nat /\ S \subseteq 1..Len(s) /\ Len(s) \in S
      /\ Len(s) > BUFF_SIZE - 1 => BUFF_SIZE - 1 \in S
  BY SMT, <1>1, LoaderAssumption
<1> HIDE DEF S
<1>3. Least(S) \in S /\ \A n \in S : Least(S) <= n
  BY <1>2, LeastOfSet
<1>4. Least(S) \in 1..Len(s) /\ Least(S) <= BUFF_SIZE - 1
  <2>1. Least(S) \in 1..Len(s) /\ Least(S) <= Len(s)
    BY <1>2, <1>3
  <2>2. CASE Len(s) > BUFF_SIZE - 1
    BY <1>2, <1>3, <2>1, <2>2
  <2>3. CASE ~ (Len(s) > BUFF_SIZE - 1)
    <3> DEFINE l == Least(S)
    <3> HIDE DEF l
    <3>1. l \in 1..Len(s)
      BY <2>1 DEF l
    <3>2. l <= BUFF_SIZE - 1
      BY SMT, <1>1, <2>3, <3>1, LoaderAssumption
    <3> QED BY <2>1, <3>2 DEF l
  <2> QED BY <2>2, <2>3
<1> QED BY <1>4 DEF Chunk, S

(* What %x takes are digits, from the first character that is no blank on. *)
LEMMA ScannedDigits ==
  ASSUME NEW s \in Seq(Character)
  PROVE  /\ Skipped(s) \in 0..Len(s) /\ Scanned(s) \in Skipped(s)..Len(s)
         /\ \A n \in Skipped(s)+1..Scanned(s) : s[n] \in Digit
<1> DEFINE B == {n \in 0..Len(s) : n = Len(s) \/ s[n + 1] \notin {Blank, Newline}}
           D == {n \in Skipped(s)..Len(s) : n = Len(s) \/ s[n + 1] \notin Digit}
<1>1. Len(s) \in Nat
  BY LenProperties
<1>2. B \subseteq Nat /\ B \subseteq 0..Len(s) /\ Len(s) \in B
  BY SMT, <1>1
<1>3. Skipped(s) \in B
  <2> HIDE DEF B
  <2>1. Least(B) \in B
    BY <1>2, LeastOfSet
  <2> QED BY <2>1 DEF Skipped, B
<1>4. Skipped(s) \in 0..Len(s)
  BY <1>2, <1>3
<1>5. D \subseteq Nat /\ D \subseteq Skipped(s)..Len(s) /\ Len(s) \in D
  BY SMT, <1>1, <1>4
<1>6. Scanned(s) \in D /\ \A n \in D : Scanned(s) <= n
  <2> HIDE DEF D
  <2>1. Least(D) \in D /\ \A n \in D : Least(D) <= n
    BY <1>5, LeastOfSet
  <2> QED BY <2>1 DEF Scanned, D
<1>7. ASSUME NEW n \in Skipped(s)+1..Scanned(s) PROVE s[n] \in Digit
  <2>1. n - 1 \in Skipped(s)..Len(s) /\ n - 1 < Scanned(s) /\ (n - 1) + 1 = n
    BY SMT, <1>1, <1>4, <1>5, <1>6
  <2>2. n - 1 \notin D
    BY SMT, <1>5, <1>6, <2>1
  <2> QED BY <2>1, <2>2
<1> QED BY <1>4, <1>5, <1>6, <1>7

LEMMA NumberIsByte ==
  ASSUME NEW s \in Seq(Character), Scanned(s) > Skipped(s)
  PROVE  Number(s) \in Byte
<1>1. Skipped(s) \in Nat /\ Scanned(s) \in Nat
  BY SMT, ScannedDigits, LenProperties
<1>2. s[Scanned(s)] \in Digit
  BY SMT, <1>1, ScannedDigits
<1>3. Scanned(s) # Skipped(s) + 1 => s[Scanned(s) - 1] \in Digit
  BY SMT, <1>1, ScannedDigits
<1>4. \A a, b \in Digit : a \in Byte /\ 16 * a + b \in Byte
  BY SMT DEF Digit, Byte
<1> QED BY <1>2, <1>3, <1>4 DEF Number

LEMMA TextInit == Init => TextInv
<1> SUFFICES ASSUME Init PROVE TextInv
  OBVIOUS
<1>1. rest = <<>> /\ buff = <<>> /\ arr = <<>>
  BY DEF Init, LoaderInit
<1>2. PICK input \in Inputs : text = input.text
  BY DEF Init
<1> QED BY <1>1, <1>2, EmptySeq, StartupAssumption DEF TextInv

(* The steps of the loader, and all others as the loader sees them. *)
LEMMA QuietSteps ==
  ASSUME [Next]_vars
  PROVE  \/ OpenFile
         \/ Load
         \/ RegisterDevice
         \/ CreateEntry
         \/ UNCHANGED <<text, busvars, loadvars>>
<1>1. CASE Main
  BY <1>1 DEF Main
<1>2. CASE Boot
  BY <1>2, Starving DEF Boot, init_ui, InitDevice, CreateBus, ResetCpu, NoMemoryForProgram,
                        CreateMachine, RestUnchanged
<1>3. CASE Turn \/ Flush \/ Stop
  BY <1>3 DEF Turn, Flush, Stop
<1>4. CASE UNCHANGED vars
  BY <1>4 DEF vars
<1> QED BY <1>1, <1>2, <1>3, <1>4 DEF Next, Ended

LEMMA TextNext == TextInv /\ [Next]_vars => TextInv'
<1> SUFFICES ASSUME TextInv, [Next]_vars PROVE TextInv'
  OBVIOUS
<1> USE DEF TextInv
<1>1. CASE OpenFile
  BY <1>1 DEF OpenFile, StartLoading
<1>2. CASE Load
  <2>1. text' = text
    BY <1>2 DEF Load
  <2>2. CASE ReadLine
    <3>1. rest # <<>> /\ arr' = arr /\ buff' = SubSeq(rest, 1, Chunk(rest))
            /\ rest' = SubSeq(rest, Chunk(rest) + 1, Len(rest))
      BY <2>2 DEF ReadLine
    <3>2. Chunk(rest) \in 1..Len(rest) /\ Len(rest) \in Nat
      BY <3>1, ChunkRange, LenProperties
    <3>3. \A n \in 1..Len(rest) : rest[n] \in Character
      BY ElementOfSeq
    <3>4. buff' \in Seq(Character)
      <4>1. \A n \in 1..Chunk(rest) : rest[n] \in Character
        BY SMT, <3>2, <3>3
      <4>2. 1 \in Int /\ Chunk(rest) \in Int
        BY SMT, <3>2
      <4> QED BY <3>1, <4>1, <4>2, SubSeqProperties
    <3>5. rest' \in Seq(Character)
      <4>1. \A n \in Chunk(rest)+1..Len(rest) : rest[n] \in Character
        BY SMT, <3>2, <3>3
      <4>2. Chunk(rest) + 1 \in Int /\ Len(rest) \in Int
        BY SMT, <3>2
      <4> QED BY <3>1, <4>1, <4>2, SubSeqProperties
    <3> QED BY <2>1, <3>1, <3>4, <3>5
  <2>3. CASE ScanByte
    <3>1. Scanned(buff) > Skipped(buff) /\ rest' = rest /\ arr' = Append(arr, Number(buff))
            /\ buff' = SubSeq(buff, Scanned(buff) + 1, Len(buff))
      BY <2>3 DEF ScanByte
    <3>2. arr' \in Seq(Byte)
      BY <3>1, NumberIsByte, AppendProperties
    <3>3. Scanned(buff) \in Nat /\ Len(buff) \in Nat
      BY SMT, ScannedDigits, LenProperties
    <3>4. \A n \in 1..Len(buff) : buff[n] \in Character
      BY ElementOfSeq
    <3>5. buff' \in Seq(Character)
      <4>1. \A n \in Scanned(buff)+1..Len(buff) : buff[n] \in Character
        BY SMT, <3>3, <3>4
      <4>2. Scanned(buff) + 1 \in Int /\ Len(buff) \in Int
        BY SMT, <3>3
      <4> QED BY <3>1, <4>1, <4>2, SubSeqProperties
    <3> QED BY <2>1, <3>1, <3>2, <3>5
  <2>4. CASE EndOfLine
    BY <2>1, <2>4, EmptySeq DEF EndOfLine
  <2>5. CASE EndOfFile
    BY <2>1, <2>5 DEF EndOfFile
  <2>6. CASE CopyDword \/ CopyRemainder
    BY <2>1, <2>6 DEF CopyDword, CopyRemainder
  <2> QED BY <1>2, <2>2, <2>3, <2>4, <2>5, <2>6 DEF Load
<1>3. CASE RegisterDevice \/ CreateEntry \/ UNCHANGED <<text, busvars, loadvars>>
  BY <1>3 DEF RegisterDevice, CreateEntry, loadvars
<1> QED BY <1>1, <1>2, <1>3, QuietSteps

-----------------------------------------------------------------------------
(* The bytes are those of the listing.  Of every number that has been      *)
(* read completely, and of nothing else, there is a byte: in the order of  *)
(* the places where the numbers end.                                       *)

Ends(n)    == {p \in NumberEnds : p <= n}
ValueAt(p) == text[p] + (IF p > 1 /\ text[p - 1] \in Digit THEN 16 * text[p - 1] ELSE 0)

Parsed(bytes, n) ==
  /\ Len(bytes) = Cardinality(Ends(n))
  /\ \A p \in Ends(n) : bytes[Cardinality(Ends(p))] = ValueAt(p)

(* How many characters fgets has taken, and how many of them sscanf.       *)
ReadTo    == Len(text) - Len(rest)
ScannedTo == ReadTo - Len(buff)

LineEnd(n) == n = 0 \/ n = Len(text) \/ text[n] = Newline

CommentsClosed(n) ==
  \A q \in 1..n : text[q] = Other => \E r \in q..n : text[r] = Newline

(* A chunk is the rest of one line, and no number is cut in two.           *)
Scanning ==
  /\ \A q \in ScannedTo+1..ReadTo-1 : text[q] # Newline
  /\ CommentsClosed(ScannedTo)
  /\ ScannedTo \in 1..Len(text)-1 /\ text[ScannedTo] \in Digit =>
       text[ScannedTo + 1] \notin Digit

Pieces ==
  /\ ScannedTo >= 0
  /\ \A k \in 1..Len(buff) : buff[k] = text[ScannedTo + k]
  /\ \A k \in 1..Len(rest) : rest[k] = text[ReadTo + k]
  /\ LineEnd(ReadTo)
  /\ phase # "scan" => buff = <<>>
  /\ phase \in {"copy", "loaded"} => rest = <<>>

ParseInv ==
  /\ phase = "wait" => buff = <<>> /\ arr = <<>>
  /\ LinesFit /\ phase # "wait" =>
       /\ Pieces /\ Parsed(arr, ScannedTo)
       /\ phase = "scan" => Scanning

LEMMA SameText ==
  ASSUME text' = text
  PROVE  /\ LinesFit' = LinesFit
         /\ \A n : /\ Ends(n)' = Ends(n) /\ ValueAt(n)' = ValueAt(n)
                   /\ LineEnd(n)' = LineEnd(n) /\ CommentsClosed(n)' = CommentsClosed(n)
<1>1. NumberEnds' = NumberEnds
  BY DEF NumberEnds
<1> QED BY <1>1 DEF LinesFit, Ends, ValueAt, LineEnd, CommentsClosed

LEMMA EndOfNumber ==
  ASSUME NEW p
  PROVE  p \in NumberEnds <=>
           /\ p \in 1..Len(text) /\ text[p] \in Digit /\ CommentsClosed(p)
           /\ p < Len(text) => text[p + 1] \notin Digit
BY Zenon DEF NumberEnds, CommentsClosed

LEMMA EndsCounted ==
  ASSUME Len(text) \in Nat, NEW n \in Nat
  PROVE  /\ IsFiniteSet(Ends(n)) /\ Cardinality(Ends(n)) \in Nat
         /\ \A p \in Ends(n) :
              p \in 1..Len(text) /\ Cardinality(Ends(p)) \in 1..Cardinality(Ends(n))
<1>1. IsFiniteSet(1..Len(text))
  BY FS_Interval
<1>2. \A k : Ends(k) \in SUBSET (1..Len(text))
  BY Zenon DEF Ends, NumberEnds
<1>3. \A k : IsFiniteSet(Ends(k)) /\ Cardinality(Ends(k)) \in Nat
  BY <1>1, <1>2, FS_Subset, FS_CardinalityType
<1>4. ASSUME NEW p \in Ends(n)
      PROVE  Cardinality(Ends(p)) \in 1..Cardinality(Ends(n))
  <2>1. p \in 1..Len(text) /\ p \in NumberEnds /\ p <= n
    BY <1>2 DEF Ends
  <2>2. \A q \in 1..Len(text) : q <= p => q <= n
    BY <2>1
  <2>3. Ends(p) \in SUBSET Ends(n)
    BY <1>2, <2>2, Zenon DEF Ends
  <2>4. p \in Ends(p)
    BY <2>1 DEF Ends
  <2>5. Cardinality(Ends(p)) # 0
    BY <1>3, <2>4, FS_EmptySet
  <2>6. Cardinality(Ends(p)) <= Cardinality(Ends(n))
    BY <1>3, <2>3, FS_Subset
  <2> QED BY <1>3, <2>5, <2>6
<1> QED BY <1>2, <1>3, <1>4

(* Characters in which no number ends add nothing to what is parsed.       *)
LEMMA NothingRead ==
  ASSUME Len(text) \in Nat, NEW a \in Nat, NEW b \in Nat, a <= b,
         \A p \in a+1..b : p \notin NumberEnds
  PROVE  Ends(b) = Ends(a)
<1>1. \A p \in 1..Len(text) : p \in NumberEnds => (p <= a <=> p <= b)
  BY SMT
<1>2. NumberEnds \subseteq 1..Len(text)
  BY DEF NumberEnds
<1> QED BY <1>1, <1>2, Zenon DEF Ends

(* The byte of the next number goes behind the bytes of those before.      *)
LEMMA NumberRead ==
  ASSUME Len(text) \in Nat, NEW bytes \in Seq(Byte),
         NEW a \in Nat, NEW b \in NumberEnds, a < b,
         \A p \in a+1..b-1 : p \notin NumberEnds,
         Parsed(bytes, a), ValueAt(b) \in Byte
  PROVE  Parsed(Append(bytes, ValueAt(b)), b)
<1> DEFINE longer == Append(bytes, ValueAt(b))
<1>1. b \in Nat /\ b - 1 \in Nat /\ a <= b - 1
  BY DEF NumberEnds
<1>2. Ends(b) = Ends(a) \cup {b} /\ b \notin Ends(a)
  <2>1. Ends(b - 1) = Ends(a)
    BY <1>1, NothingRead
  <2>2. \A p \in 1..Len(text) : p <= b <=> p <= b - 1 \/ p = b
    BY <1>1
  <2>3. NumberEnds \subseteq 1..Len(text) /\ b <= b
    BY <1>1 DEF NumberEnds
  <2>4. Ends(b) = Ends(b - 1) \cup {b}
    BY <2>2, <2>3, Zenon DEF Ends
  <2>5. ~ (b <= a)
    BY <1>1
  <2> QED BY <2>1, <2>4, <2>5 DEF Ends
<1>3. /\ IsFiniteSet(Ends(a)) /\ Cardinality(Ends(a)) = Len(bytes)
      /\ \A p \in Ends(a) : Cardinality(Ends(p)) \in 1..Len(bytes)
  BY EndsCounted DEF Parsed
<1>4. Cardinality(Ends(b)) = Len(bytes) + 1
  BY <1>2, <1>3, FS_AddElement
<1>5. /\ Len(longer) = Len(bytes) + 1
      /\ \A k \in 1..Len(bytes) : longer[k] = bytes[k]
      /\ longer[Len(bytes) + 1] = ValueAt(b)
  BY AppendProperties
<1>6. ASSUME NEW p \in Ends(b) PROVE longer[Cardinality(Ends(p))] = ValueAt(p)
  <2>1. CASE p = b
    BY <1>4, <1>5, <2>1
  <2>2. CASE p \in Ends(a)
    BY <1>3, <1>5, <2>2 DEF Parsed
  <2> QED BY <1>2, <2>1, <2>2
<1> QED BY <1>4, <1>5, <1>6 DEF Parsed

(* Where a chunk ends.                                                     *)
LEMMA ChunkEnds ==
  ASSUME NEW s \in Seq(Character), s # <<>>
  PROVE  /\ Chunk(s) = Len(s) \/ s[Chunk(s)] = Newline \/ Chunk(s) = BUFF_SIZE - 1
         /\ \A n \in 1..Chunk(s)-1 : s[n] # Newline
<1> DEFINE S == {n \in 1..Len(s) : n = Len(s) \/ s[n] = Newline \/ n = BUFF_SIZE - 1}
<1>1. Len(s) \in Nat \ {0}
  BY EmptySeq
<1>2. S \subseteq Nat /\ Len(s) \in S
  BY <1>1
<1> HIDE DEF S
<1>3. Least(S) \in S /\ \A n \in S : Least(S) <= n
  BY <1>2, LeastOfSet
<1>4. Chunk(s) \in S /\ \A n \in S : Chunk(s) <= n
  BY <1>3 DEF Chunk, S
<1> HIDE DEF Chunk
<1>5. ASSUME NEW n \in 1..Chunk(s)-1 PROVE s[n] # Newline
  <2>1. n \in 1..Len(s) /\ ~ (Chunk(s) <= n)
    BY SMT, ChunkRange, <1>1
  <2>2. n \notin S
    BY <1>4, <2>1
  <2> QED BY <2>1, <2>2 DEF S
<1> QED BY <1>4, <1>5 DEF S

(* What stands before the number that %x finds, and what behind it.        *)
LEMMA ScannedAround ==
  ASSUME NEW s \in Seq(Character)
  PROVE  /\ \A n \in 1..Skipped(s) : s[n] \in {Blank, Newline}
         /\ Skipped(s) < Len(s) => s[Skipped(s) + 1] \notin {Blank, Newline}
         /\ Scanned(s) < Len(s) => s[Scanned(s) + 1] \notin Digit
<1> DEFINE B == {n \in 0..Len(s) : n = Len(s) \/ s[n + 1] \notin {Blank, Newline}}
           D == {n \in Skipped(s)..Len(s) : n = Len(s) \/ s[n + 1] \notin Digit}
<1>1. Len(s) \in Nat
  BY LenProperties
<1>2. B \subseteq Nat /\ Len(s) \in B
  BY SMT, <1>1
<1>3. Skipped(s) \in B /\ \A n \in B : Skipped(s) <= n
  <2> HIDE DEF B
  <2>1. Least(B) \in B /\ \A n \in B : Least(B) <= n
    BY <1>2, LeastOfSet
  <2> QED BY <2>1 DEF Skipped, B
<1>4. Skipped(s) \in 0..Len(s)
  BY <1>3
<1>5. D \subseteq Nat /\ Len(s) \in D
  BY SMT, <1>1, <1>4
<1>6. Scanned(s) \in D
  <2> HIDE DEF D
  <2>1. Least(D) \in D
    BY <1>5, LeastOfSet
  <2> QED BY <2>1 DEF Scanned, D
<1>7. ASSUME NEW n \in 1..Skipped(s) PROVE s[n] \in {Blank, Newline}
  <2>1. n - 1 \in 0..Len(s) /\ ~ (Skipped(s) <= n - 1) /\ (n - 1) + 1 = n /\ n - 1 # Len(s)
    BY SMT, <1>1, <1>4
  <2>2. n - 1 \notin B
    BY <1>3, <2>1
  <2> QED BY <2>1, <2>2
<1>8. Skipped(s) < Len(s) => s[Skipped(s) + 1] \notin {Blank, Newline}
  BY SMT, <1>1, <1>3
<1>9. Scanned(s) < Len(s) => s[Scanned(s) + 1] \notin Digit
  BY SMT, <1>1, <1>4, <1>6
<1> QED BY <1>7, <1>8, <1>9

LEMMA ParseOpen == TextInv /\ ParseInv /\ OpenFile => ParseInv'
<1> SUFFICES ASSUME TextInv, ParseInv, OpenFile PROVE ParseInv'
  OBVIOUS
<1>1. /\ phase = "wait" /\ phase' = "read" /\ text' = text /\ rest' = text
      /\ buff' = <<>> /\ arr' = <<>>
  BY DEF OpenFile, StartLoading, ParseInv
<1>2. Len(text) \in Nat /\ Len(buff') = 0 /\ Len(arr') = 0
  BY <1>1, LenProperties, EmptySeq DEF TextInv
<1>3. ReadTo' = 0 /\ ScannedTo' = 0
  <2>1. Len(text)' = Len(text) /\ Len(rest)' = Len(text)
    BY <1>1
  <2>2. ReadTo' = 0
    BY <1>2, <2>1 DEF ReadTo
  <2> QED BY <1>2, <2>2 DEF ScannedTo
<1>4. Ends(0)' = {}
  BY <1>1, <1>2 DEF Ends, NumberEnds
<1>5. Parsed(arr, ScannedTo)'
  BY <1>2, <1>3, <1>4, FS_EmptySet DEF Parsed
<1>6. Pieces'
  BY <1>1, <1>2, <1>3 DEF Pieces, LineEnd
<1> QED BY <1>1, <1>5, <1>6 DEF ParseInv

(* What is to be shown of a step within the loader.                        *)
LEMMA ParseStep ==
  ASSUME ParseInv, text' = text, phase # "wait", phase' # "wait",
         LinesFit => Pieces' /\ Parsed(arr, ScannedTo)' /\ (phase' = "scan" => Scanning')
  PROVE  ParseInv'
<1>1. LinesFit' = LinesFit
  BY SameText
<1> QED BY <1>1 DEF ParseInv

LEMMA ParseReadLine == TextInv /\ ParseInv /\ ReadLine /\ text' = text => ParseInv'
<1> SUFFICES ASSUME TextInv, ParseInv, ReadLine, text' = text, LinesFit
             PROVE  Pieces' /\ Parsed(arr, ScannedTo)' /\ Scanning'
  BY ParseStep DEF ReadLine
<1> DEFINE c == Chunk(rest)
           n == ReadTo
<1>1. /\ phase = "read" /\ phase' = "scan" /\ rest # <<>> /\ arr' = arr /\ buff = <<>>
      /\ buff' = SubSeq(rest, 1, c) /\ rest' = SubSeq(rest, c + 1, Len(rest))
      /\ Pieces /\ Parsed(arr, ScannedTo)
  BY DEF ReadLine, ParseInv, Pieces
<1>2. /\ Len(text) \in Nat /\ Len(rest) \in Nat \ {0} /\ Len(buff) = 0
      /\ c \in 1..Len(rest) /\ \A k \in 1..Len(rest) : rest[k] \in Character
  BY <1>1, LenProperties, EmptySeq, ElementOfSeq, ChunkRange DEF TextInv
<1> HIDE DEF c
<1>3. n \in 0..Len(text)-1 /\ ScannedTo = n /\ n + Len(rest) = Len(text)
  BY <1>1, <1>2 DEF ReadTo, ScannedTo, Pieces
<1>4. Len(buff') = c /\ \A k \in 1..c : buff'[k] = rest[k]
  <2>1. \A k \in 1..c : rest[k] \in Character
    BY <1>2
  <2>2. \A k \in 1..(c - 1 + 1) : buff'[k] = rest[1 + k - 1]
    BY <1>1, <1>2, <2>1, SubSeqProperties
  <2>3. Len(buff') = c
    BY <1>1, <1>2, <2>1, SubSeqProperties
  <2> QED BY <1>2, <2>2, <2>3
<1>5. /\ Len(rest') = Len(rest) - c
      /\ \A k \in 1..Len(rest)-c : rest'[k] = rest[c + k]
  <2>1. \A k \in c+1..Len(rest) : rest[k] \in Character
    BY <1>2
  <2>2. \A k \in 1..Len(rest) - (c + 1) + 1 : rest'[k] = rest[(c + 1) + k - 1]
    BY <1>1, <1>2, <2>1, SubSeqProperties
  <2>3. Len(rest') = IF c + 1 <= Len(rest) THEN Len(rest) - (c + 1) + 1 ELSE 0
    BY <1>1, <1>2, <2>1, SubSeqProperties
  <2> QED BY <1>2, <2>2, <2>3
<1>6. ReadTo' = n + c /\ ScannedTo' = n
  <2>1. ReadTo' = Len(text) - (Len(rest) - c)
    BY <1>5 DEF ReadTo
  <2>2. ReadTo' = n + c
    BY <1>2, <1>3, <2>1
  <2>3. ScannedTo' = ReadTo' - c
    BY <1>4 DEF ScannedTo
  <2> QED BY <1>2, <1>3, <2>2, <2>3
<1>7. \A k \in 1..Len(rest) : rest[k] = text[n + k]
  BY <1>1 DEF Pieces
<1>8. /\ c = Len(rest) \/ rest[c] = Newline \/ c = BUFF_SIZE - 1
      /\ \A k \in 1..c-1 : rest[k] # Newline
  BY <1>1, ChunkEnds DEF TextInv, c
<1> HIDE DEF n
<1>9. \A q \in n+1..n+c-1 : text[q] # Newline
  <2> TAKE q \in n+1..n+c-1
  <2>1. q - n \in 1..c-1 /\ q - n \in 1..Len(rest) /\ n + (q - n) = q
    BY <1>2, <1>3
  <2> QED BY <1>7, <1>8, <2>1
<1>10. LineEnd(n + c)
  <2>1. CASE c = Len(rest)
    BY <1>3, <2>1 DEF LineEnd
  <2>2. CASE rest[c] = Newline
    BY <1>2, <1>7, <2>2 DEF LineEnd
  <2>3. CASE c # Len(rest) /\ c = BUFF_SIZE - 1
    <3>1. n + 1 \in 1..Len(text)-(BUFF_SIZE - 1)
      BY <1>2, <1>3, <2>3, LoaderAssumption
    <3>2. PICK q \in n+1..n+1+BUFF_SIZE-2 : text[q] = Newline
      BY <3>1 DEF LinesFit
    <3>3. q \in n+1..n+c-1 \/ q = n + c
      BY <1>2, <1>3, <2>3, LoaderAssumption
    <3> QED BY <1>9, <3>2, <3>3 DEF LineEnd
  <2> QED BY <1>8, <2>1, <2>2, <2>3
<1>11. n = 0 \/ text[n] = Newline
  BY <1>1, <1>3 DEF Pieces, LineEnd, n
<1>12. CommentsClosed(n)
  BY <1>3, <1>11 DEF CommentsClosed
<1>13. \A m : LineEnd(m)' = LineEnd(m) /\ CommentsClosed(m)' = CommentsClosed(m)
               /\ Ends(m)' = Ends(m) /\ ValueAt(m)' = ValueAt(m)
  BY SameText
<1>14. Parsed(arr, ScannedTo)'
  BY <1>1, <1>3, <1>6, <1>13 DEF Parsed
<1>15. Scanning'
  <2>1. n \in 1..Len(text)-1 => text[n] \notin Digit
    BY <1>11, <1>3 DEF Newline, Digit
  <2>2. \A q \in ScannedTo'+1..ReadTo'-1 : text[q] # Newline
    BY <1>2, <1>3, <1>6, <1>9
  <2>3. CommentsClosed(ScannedTo)'
    BY <1>6, <1>12 DEF CommentsClosed
  <2>4. ScannedTo' \in 1..Len(text)-1 /\ text[ScannedTo'] \in Digit =>
          text[ScannedTo' + 1] \notin Digit
    BY <1>6, <2>1
  <2> QED BY <2>2, <2>3, <2>4 DEF Scanning
<1>16. Pieces'
  <2>1. \A k \in 1..c : buff'[k] = text[n + k]
    BY <1>2, <1>4, <1>7
  <2>2. \A k \in 1..Len(rest)-c : rest'[k] = text[n + c + k]
    <3> TAKE k \in 1..Len(rest)-c
    <3>1. c + k \in 1..Len(rest) /\ n + c + k = n + (c + k)
      BY <1>2, <1>3
    <3> QED BY <1>5, <1>7, <3>1
  <2> QED BY <1>1, <1>3, <1>4, <1>5, <1>6, <1>10, <2>1, <2>2 DEF Pieces, LineEnd
<1> QED BY <1>14, <1>15, <1>16

LEMMA ParseScanByte == TextInv /\ ParseInv /\ ScanByte /\ text' = text => ParseInv'
<1> SUFFICES ASSUME TextInv, ParseInv, ScanByte, text' = text, LinesFit
             PROVE  Pieces' /\ Parsed(arr, ScannedTo)' /\ Scanning'
  BY ParseStep DEF ScanByte
<1> DEFINE a == ScannedTo
           k == Skipped(buff)
           m == Scanned(buff)
           b == a + m
<1>1. /\ phase = "scan" /\ phase' = "scan" /\ m > k /\ arr' = Append(arr, Number(buff))
      /\ buff' = SubSeq(buff, m + 1, Len(buff)) /\ rest' = rest
      /\ Pieces /\ Parsed(arr, a) /\ Scanning
  BY DEF ScanByte, ParseInv
<1>2. /\ Len(text) \in Nat /\ Len(rest) \in Nat /\ Len(buff) \in Nat
      /\ k \in 0..Len(buff) /\ m \in k..Len(buff) /\ m \in 1..Len(buff)
      /\ \A j \in 1..Len(buff) : buff[j] \in Character
  <2>1. Len(text) \in Nat /\ Len(rest) \in Nat /\ Len(buff) \in Nat
    BY LenProperties DEF TextInv
  <2>2. k \in 0..Len(buff) /\ m \in k..Len(buff)
    BY ScannedDigits DEF TextInv
  <2>3. \A j \in 1..Len(buff) : buff[j] \in Character
    BY ElementOfSeq DEF TextInv
  <2> HIDE DEF k, m
  <2> QED BY <1>1, <2>1, <2>2, <2>3
<1>3. /\ \A j \in k+1..m : buff[j] \in Digit
      /\ \A j \in 1..k : buff[j] \in {Blank, Newline}
      /\ m < Len(buff) => buff[m + 1] \notin Digit
  BY ScannedDigits, ScannedAround DEF TextInv
<1>4. /\ a \in Nat /\ ReadTo = a + Len(buff) /\ ReadTo \in 1..Len(text)
      /\ \A j \in 1..Len(buff) : buff[j] = text[a + j]
  <2>1. a >= 0 /\ \A j \in 1..Len(buff) : buff[j] = text[a + j]
    BY <1>1 DEF Pieces
  <2>2. a = Len(text) - Len(rest) - Len(buff) /\ ReadTo = Len(text) - Len(rest)
    BY DEF ScannedTo, ReadTo
  <2> HIDE DEF a
  <2> QED BY <1>2, <2>1, <2>2
<1>5. /\ Len(buff') = Len(buff) - m
      /\ \A j \in 1..Len(buff)-m : buff'[j] = buff[m + j]
  <2> HIDE DEF m
  <2>1. \A j \in m+1..Len(buff) : buff[j] \in Character
    BY <1>2
  <2>2. \A j \in 1..Len(buff) - (m + 1) + 1 : buff'[j] = buff[(m + 1) + j - 1]
    BY <1>1, <1>2, <2>1, SubSeqProperties
  <2>3. Len(buff') = IF m + 1 <= Len(buff) THEN Len(buff) - (m + 1) + 1 ELSE 0
    BY <1>1, <1>2, <2>1, SubSeqProperties
  <2> QED BY <1>2, <2>2, <2>3
<1>6. ReadTo' = ReadTo /\ ScannedTo' = b
  <2>1. Len(rest') = Len(rest)
    BY <1>1
  <2>2. ReadTo' = ReadTo
    BY <2>1 DEF ReadTo
  <2>3. ScannedTo' = ReadTo - (Len(buff) - m)
    BY <1>5, <2>2 DEF ScannedTo
  <2> HIDE DEF a, m
  <2> QED BY <1>2, <1>4, <2>2, <2>3
<1>7. b \in 1..ReadTo /\ b \in 1..Len(text) /\ a < b
  <2> HIDE DEF a, m
  <2> QED BY <1>2, <1>4
<1>8. LineEnd(ReadTo) /\ CommentsClosed(a)
  BY <1>1 DEF Pieces, Scanning
<1>9. \A q \in a+1..ReadTo-1 : text[q] # Newline
  BY <1>1 DEF Scanning
<1>10. a \in 1..Len(text)-1 /\ text[a] \in Digit => text[a + 1] \notin Digit
  BY <1>1 DEF Scanning
<1> HIDE DEF a, k, m
<1>11. text[b] \in Digit
  <2>1. m \in k+1..m
    BY <1>1, <1>2
  <2> QED BY <1>2, <1>3, <1>4, <2>1
<1>12. ASSUME b < Len(text) PROVE text[b + 1] \notin Digit
  <2>1. CASE m < Len(buff)
    <3>1. buff[m + 1] = text[a + (m + 1)] /\ a + (m + 1) = b + 1
      BY <1>2, <1>4, <2>1
    <3> QED BY <1>3, <2>1, <3>1
  <2>2. CASE m = Len(buff)
    <3>1. b = ReadTo /\ b # 0 /\ b # Len(text)
      BY <1>4, <1>7, <1>12, <2>2
    <3>2. text[b] = Newline
      BY <1>8, <3>1 DEF LineEnd
    <3> QED BY <1>11, <3>2 DEF Newline, Digit
  <2> QED BY <1>2, <2>1, <2>2
<1>13. CommentsClosed(b)
  <2> SUFFICES ASSUME NEW q \in 1..b, text[q] = Other
               PROVE  \E r \in q..b : text[r] = Newline
    BY DEF CommentsClosed
  <2>1. CASE q <= a
    <3>1. PICK r \in q..a : text[r] = Newline
      BY <1>4, <1>8, <2>1 DEF CommentsClosed
    <3>2. r \in q..b
      BY <1>4, <1>7
    <3> QED BY <3>1, <3>2
  <2>2. CASE q > a
    <3>1. q - a \in 1..m /\ q - a \in 1..Len(buff) /\ a + (q - a) = q
      BY <1>2, <1>4, <2>2
    <3>2. buff[q - a] = text[q]
      BY <1>4, <3>1
    <3>3. q - a \in 1..k \/ q - a \in k+1..m
      BY <1>2, <3>1
    <3>4. buff[q - a] \in Digit \cup {Blank, Newline}
      BY <1>3, <3>3
    <3> QED BY <3>2, <3>4 DEF Digit, Blank, Newline, Other
  <2> QED BY <1>4, <2>1, <2>2
<1>14. b \in NumberEnds
  BY <1>7, <1>11, <1>12, <1>13, EndOfNumber
<1>15. ASSUME NEW p \in a+1..b-1 PROVE p \notin NumberEnds
  <2>1. /\ p - a \in 1..m-1 /\ p - a \in 1..Len(buff) /\ a + (p - a) = p
        /\ p - a + 1 \in 1..Len(buff) /\ a + (p - a + 1) = p + 1 /\ p < Len(text)
    <3>1. a \in Nat /\ m \in 1..Len(buff) /\ Len(buff) \in Nat /\ Len(text) \in Nat
      BY <1>2, <1>4
    <3>2. a + m <= Len(text)
      BY <1>7
    <3> QED BY ONLY <3>1, <3>2, p \in a+1..a+m-1
  <2>2. buff[p - a] = text[p] /\ buff[p - a + 1] = text[p + 1]
    <3>1. buff[p - a] = text[p]
      BY <1>4, <2>1
    <3>2. buff[p - a + 1] = text[p + 1]
      BY <1>4, <2>1
    <3> QED BY <3>1, <3>2
  <2>3. CASE p - a \in 1..k
    <3>1. text[p] \notin Digit
      <4>1. text[p] \in {Blank, Newline}
        BY <1>3, <2>2, <2>3
      <4> QED BY <4>1 DEF Blank, Newline, Digit
    <3> QED BY <3>1, EndOfNumber
  <2>4. CASE p - a + 1 \in k+1..m
    <3>1. text[p + 1] \in Digit
      BY <1>3, <2>2, <2>4
    <3> QED BY <2>1, <3>1, EndOfNumber
  <2> QED BY <1>2, <2>1, <2>3, <2>4
<1>16. Number(buff) = ValueAt(b)
  <2>1. Number(buff) = IF m = k + 1 THEN buff[m] ELSE 16 * buff[m - 1] + buff[m]
    BY DEF Number, m, k
  <2>2. buff[m] = text[b] /\ text[b] \in 0..15
    BY <1>2, <1>4, <1>11 DEF Digit
  <2>3. CASE m = k + 1
    <3>1. ~ (b > 1 /\ text[b - 1] \in Digit)
      <4>1. CASE k >= 1
        <5>1. k \in 1..k /\ k \in 1..Len(buff) /\ a + k = b - 1
          BY <1>2, <1>4, <2>3, <4>1
        <5>2. text[b - 1] \in {Blank, Newline}
          BY <1>3, <1>4, <5>1
        <5> QED BY <5>2 DEF Blank, Newline, Digit
      <4>2. CASE k = 0
        <5>1. b = a + 1 /\ b - 1 = a /\ (b > 1 => a \in 1..Len(text)-1)
          BY <1>4, <1>7, <2>3, <4>2
        <5> QED BY <1>10, <1>11, <5>1
      <4> QED BY <1>2, <4>1, <4>2
    <3>2. ValueAt(b) = text[b] + 0
      BY <3>1 DEF ValueAt
    <3> QED BY <2>1, <2>2, <2>3, <3>2
  <2>4. CASE m # k + 1
    <3>1. /\ m - 1 \in k+1..m /\ m - 1 \in 1..Len(buff) /\ a + (m - 1) = b - 1 /\ b > 1
      BY <1>1, <1>2, <1>4, <2>4
    <3>2. buff[m - 1] = text[b - 1] /\ text[b - 1] \in Digit
      BY <1>3, <1>4, <3>1
    <3>3. ValueAt(b) = text[b] + 16 * text[b - 1]
      BY <3>1, <3>2 DEF ValueAt
    <3>4. \A x, y \in 0..15 : 16 * x + y = y + 16 * x
      OBVIOUS
    <3> QED BY <2>1, <2>2, <2>4, <3>2, <3>3, <3>4 DEF Digit
  <2> QED BY <1>2, <2>3, <2>4
<1> HIDE DEF b
<1>17. Number(buff) \in Byte
  BY <1>1, NumberIsByte DEF TextInv, m, k
<1>18. Parsed(Append(arr, Number(buff)), b)
  BY <1>1, <1>2, <1>4, <1>7, <1>14, <1>15, <1>16, <1>17, NumberRead DEF TextInv
<1>19. Parsed(arr, ScannedTo)'
  <2>1. \A n : Ends(n)' = Ends(n) /\ ValueAt(n)' = ValueAt(n)
    BY SameText
  <2> QED BY <1>1, <1>6, <1>18, <2>1 DEF Parsed
<1>20. Scanning'
  <2>1. \A q \in ScannedTo'+1..ReadTo'-1 : text[q] # Newline
    BY <1>4, <1>6, <1>7, <1>9
  <2>2. CommentsClosed(ScannedTo)'
    BY <1>6, <1>13 DEF CommentsClosed
  <2>3. ScannedTo' \in 1..Len(text)-1 /\ text[ScannedTo'] \in Digit =>
          text[ScannedTo' + 1] \notin Digit
    BY <1>2, <1>6, <1>7, <1>12
  <2> QED BY <2>1, <2>2, <2>3 DEF Scanning
<1>21. Pieces'
  <2>1. ASSUME NEW j \in 1..Len(buff') PROVE buff'[j] = text[b + j]
    <3>1. m + j \in 1..Len(buff) /\ a + (m + j) = b + j /\ j \in 1..Len(buff)-m
      BY <1>2, <1>4, <1>5 DEF b
    <3> QED BY <1>4, <1>5, <3>1
  <2>2. /\ LineEnd(ReadTo)
        /\ \A j \in 1..Len(rest) : rest[j] = text[ReadTo + j]
    BY <1>1 DEF Pieces
  <2>3. b >= 0
    BY <1>4, <1>7
  <2> QED BY <1>1, <1>6, <2>1, <2>2, <2>3 DEF Pieces, LineEnd
<1> QED BY <1>19, <1>20, <1>21

LEMMA ParseEndOfLine == TextInv /\ ParseInv /\ EndOfLine /\ text' = text => ParseInv'
<1> SUFFICES ASSUME TextInv, ParseInv, EndOfLine, text' = text, LinesFit
             PROVE  Pieces' /\ Parsed(arr, ScannedTo)'
  BY ParseStep DEF EndOfLine
<1> DEFINE a == ScannedTo
           k == Skipped(buff)
           n == ReadTo
<1>1. /\ phase = "scan" /\ phase' = "read" /\ Scanned(buff) = k
      /\ buff' = <<>> /\ rest' = rest /\ arr' = arr
      /\ Pieces /\ Parsed(arr, a) /\ Scanning
  BY DEF EndOfLine, ParseInv
<1>2. /\ Len(text) \in Nat /\ Len(rest) \in Nat /\ Len(buff) \in Nat /\ k \in 0..Len(buff)
      /\ \A j \in 1..Len(buff) : buff[j] \in Character
  BY LenProperties, ScannedDigits, ElementOfSeq DEF TextInv
<1>3. /\ \A j \in 1..k : buff[j] \in {Blank, Newline}
      /\ k < Len(buff) => buff[k + 1] \notin {Blank, Newline} /\ buff[k + 1] \notin Digit
  BY <1>1, ScannedAround DEF TextInv
<1>4. /\ a \in Nat /\ n = a + Len(buff) /\ n \in 0..Len(text)
      /\ \A j \in 1..Len(buff) : buff[j] = text[a + j]
  <2>1. a >= 0 /\ \A j \in 1..Len(buff) : buff[j] = text[a + j]
    BY <1>1 DEF Pieces
  <2>2. a = Len(text) - Len(rest) - Len(buff) /\ n = Len(text) - Len(rest)
    BY DEF ScannedTo, ReadTo
  <2> HIDE DEF a, n
  <2> QED BY <1>2, <2>1, <2>2
<1>5. \A q \in a+1..n-1 : text[q] # Newline
  BY <1>1 DEF Scanning
<1>6. ReadTo' = n /\ ScannedTo' = n
  <2>1. Len(rest') = Len(rest) /\ Len(buff') = 0
    BY <1>1
  <2>2. ReadTo' = n
    BY <2>1 DEF ReadTo
  <2>3. ScannedTo' = n - 0
    BY <2>1, <2>2 DEF ScannedTo
  <2> HIDE DEF n
  <2> QED BY <1>4, <2>2, <2>3
<1> HIDE DEF a, k
<1>7. ASSUME NEW p \in a+1..n PROVE p \notin NumberEnds
  <2> HIDE DEF n
  <2>1. p - a \in 1..Len(buff) /\ a + (p - a) = p
    BY <1>2, <1>4
  <2>2. buff[p - a] = text[p]
    BY <1>4, <2>1
  <2>3. CASE p - a \in 1..k
    <3>1. text[p] \in {Blank, Newline}
      BY <1>3, <2>2, <2>3
    <3>2. text[p] \notin Digit
      BY <3>1 DEF Blank, Newline, Digit
    <3> QED BY <3>2, EndOfNumber
  <2>4. CASE p - a \in k+1..Len(buff)
    <3> SUFFICES ASSUME p \in NumberEnds PROVE FALSE
      OBVIOUS
    <3> DEFINE q == a + (k + 1)
    <3>1. k + 1 \in 1..Len(buff) /\ k < Len(buff) /\ q \in 1..p /\ q \in a+1..n
      BY <1>2, <1>4, <2>4
    <3>2. text[q] = Other
      <4>1. buff[k + 1] = text[q] /\ buff[k + 1] \in Character
        BY <1>2, <1>4, <3>1
      <4>2. text[q] \notin {Blank, Newline} /\ text[q] \notin Digit
        BY <1>3, <3>1, <4>1
      <4> HIDE DEF q
      <4> QED BY <4>1, <4>2 DEF Character, Digit, Blank, Newline, Other
    <3>3. text[p] \in Digit /\ CommentsClosed(p)
      BY EndOfNumber
    <3>4. PICK r \in q..p : text[r] = Newline
      BY <3>1, <3>2, <3>3 DEF CommentsClosed
    <3>5. r \in a+1..n-1 \/ r = p
      BY <1>4, <3>1
    <3>6. text[p] = Newline
      BY <1>5, <3>4, <3>5
    <3> QED BY <3>3, <3>6 DEF Newline, Digit
  <2> QED BY <1>2, <2>1, <2>3, <2>4
<1> HIDE DEF n
<1>8. Ends(n) = Ends(a)
  BY <1>2, <1>4, <1>7, NothingRead
<1>9. Parsed(arr, ScannedTo)'
  <2>1. \A m : Ends(m)' = Ends(m) /\ ValueAt(m)' = ValueAt(m)
    BY SameText
  <2> QED BY <1>1, <1>6, <1>8, <2>1 DEF Parsed
<1>10. Pieces'
  <2>1. /\ LineEnd(n) /\ \A j \in 1..Len(rest) : rest[j] = text[n + j]
    BY <1>1 DEF Pieces, n
  <2>2. n >= 0 /\ Len(buff') = 0
    BY <1>1, <1>4
  <2> QED BY <1>1, <1>6, <2>1, <2>2 DEF Pieces, LineEnd
<1> QED BY <1>9, <1>10

LEMMA ParseStays ==
  ASSUME ParseInv, UNCHANGED <<text, rest, buff, arr>>,
         \/ phase' = phase
         \/ phase = "read" /\ phase' = "copy" /\ rest = <<>>
         \/ phase = "copy" /\ phase' = "loaded"
  PROVE  ParseInv'
<1>1. /\ ReadTo' = ReadTo /\ ScannedTo' = ScannedTo /\ LinesFit' = LinesFit
      /\ Scanning' = Scanning
  BY DEF ReadTo, ScannedTo, LinesFit, Scanning, CommentsClosed
<1>2. Parsed(arr, ScannedTo)' = Parsed(arr, ScannedTo)
  BY <1>1 DEF Parsed, Ends, NumberEnds, ValueAt
<1>3. Pieces /\ phase # "wait" => Pieces'
  BY <1>1 DEF Pieces, LineEnd
<1> QED BY <1>1, <1>2, <1>3 DEF ParseInv

LEMMA ParseNext == TextInv /\ ParseInv /\ [Next]_vars => ParseInv'
<1> SUFFICES ASSUME TextInv, ParseInv, [Next]_vars PROVE ParseInv'
  OBVIOUS
<1>1. CASE OpenFile
  BY <1>1, ParseOpen
<1>2. CASE Load
  <2>1. text' = text
    BY <1>2 DEF Load
  <2>2. CASE EndOfFile
    BY <2>1, <2>2, ParseStays DEF EndOfFile
  <2>3. CASE CopyDword
    BY <2>1, <2>3, ParseStays DEF CopyDword
  <2>4. CASE CopyRemainder
    BY <2>1, <2>4, ParseStays DEF CopyRemainder
  <2> QED BY <1>2, <2>1, <2>2, <2>3, <2>4, ParseReadLine, ParseScanByte, ParseEndOfLine
          DEF Load
<1>3. CASE RegisterDevice \/ CreateEntry \/ UNCHANGED <<text, busvars, loadvars>>
  <2>1. UNCHANGED <<text, rest, buff, arr, phase>>
    BY <1>3 DEF RegisterDevice, CreateEntry, loadvars
  <2> QED BY <2>1, ParseStays
<1> QED BY <1>1, <1>2, <1>3, QuietSteps

(* Whatever the listing and the buffer, if the listing's lines fit the     *)
(* buffer the program is the numbers on its lines, in order, each cut to   *)
(* its last two digits, and nothing of the comments.                       *)
THEOREM BytesAreTheText == Spec => []BytesAreText
<1>1. Init => ParseInv
  BY DEF Init, LoaderInit, ParseInv
<1>2. TextInv /\ ParseInv => BytesAreText
  <2> SUFFICES ASSUME TextInv, ParseInv, phase \in {"copy", "loaded"}, LinesFit
               PROVE  /\ Len(arr) = Cardinality(NumberEnds)
                      /\ \A p \in NumberEnds :
                           arr[Cardinality({q \in NumberEnds : q <= p})] = ValueAt(p)
    BY DEF BytesAreText, ValueAt
  <2>1. rest = <<>> /\ buff = <<>> /\ Parsed(arr, ScannedTo) /\ Len(text) \in Nat
    BY LenProperties DEF ParseInv, Pieces, TextInv
  <2>2. ScannedTo = Len(text)
    BY <2>1 DEF ScannedTo, ReadTo
  <2>3. Ends(Len(text)) = NumberEnds
    BY <2>1 DEF Ends, NumberEnds
  <2> QED BY <2>1, <2>2, <2>3 DEF Parsed, Ends
<1> QED BY <1>1, <1>2, ParseNext, TextInit, TextNext, PTL DEF Spec

-----------------------------------------------------------------------------
(* The program window.  It is empty until the file is read; after that it  *)
(* shows the program from first on, and its cursor tells how much of it.   *)

WindowInv ==
  IF phase \in {"wait", "read", "scan"}
  THEN program_cursor = 0 /\ ui_eip = 0
  ELSE /\ first \in Nat /\ ui_eip \in Nat
       /\ program_cursor = first + Filled(Len(arr), first)
       /\ last_byte_index_printed = IF program_cursor = 0 THEN 0 ELSE program_cursor - 1
       /\ PreviewIsProgram(arr)
       /\ stage \in {"load", "loop"} => PreviewShowsEip(arr)

PreviewInv == StageInv /\ TextInv /\ WindowInv

(* repopulate_matrix shows the program from the cursor on. *)
LEMMA Repopulated ==
  ASSUME NEW cursor \in Nat, Len(arr) \in Nat, UNCHANGED arr,
         repopulate_matrix(arr, cursor)
  PROVE  /\ first' = cursor
         /\ program_cursor' = cursor + Filled(Len(arr), cursor)
         /\ last_byte_index_printed' = IF program_cursor' = 0 THEN 0 ELSE program_cursor' - 1
         /\ PreviewIsProgram(arr)'
<1>1. /\ first' = cursor
      /\ program_cursor' = cursor + Filled(Len(arr), cursor)
      /\ last_byte_index_printed' = IF program_cursor' = 0 THEN 0 ELSE program_cursor' - 1
      /\ preview_matrix' = [n \in 0..MatrixSize-1 |->
                              IF n < Filled(Len(arr), cursor) THEN arr[cursor + n + 1] ELSE 0]
  BY DEF repopulate_matrix
<1>2. PreviewIsProgram(arr)'
  <2>1. ASSUME NEW n \in 0..MatrixSize-1
        PROVE  preview_matrix'[n] =
                 IF cursor + n < Len(arr) THEN arr[cursor + n + 1] ELSE 0
    <3>1. n < Filled(Len(arr), cursor) <=> cursor + n < Len(arr)
      BY SMT, PreviewAssumption DEF Filled
    <3> QED BY SMT, <1>1, <3>1
  <2> QED BY <1>1, <2>1 DEF PreviewIsProgram
<1> QED BY <1>1, <1>2

(* One flush brings EIP into view. *)
LEMMA Flushed ==
  ASSUME PreviewInv, phase = "loaded", UNCHANGED <<arr, phase>>, FlushPreview(arr)
  PROVE  WindowInv'
<1>1. /\ first \in Nat /\ ui_eip \in Nat /\ Len(arr) \in Nat
      /\ program_cursor = first + Filled(Len(arr), first)
      /\ last_byte_index_printed = IF program_cursor = 0 THEN 0 ELSE program_cursor - 1
      /\ PreviewIsProgram(arr)
  BY LenProperties DEF PreviewInv, WindowInv, TextInv
<1>2. CASE Outside
  <2>1. repopulate_matrix(arr, ui_eip) /\ ui_eip' = ui_eip
    BY <1>2 DEF FlushPreview
  <2>2. /\ first' = ui_eip
        /\ program_cursor' = ui_eip + Filled(Len(arr), ui_eip)
        /\ last_byte_index_printed' = IF program_cursor' = 0 THEN 0 ELSE program_cursor' - 1
        /\ PreviewIsProgram(arr)'
    BY <1>1, <2>1, Repopulated
  <2>3. Filled(Len(arr), ui_eip) \in 0..MatrixSize
    BY SMT, <1>1, PreviewAssumption DEF Filled
  <2>4. PreviewShowsEip(arr)'
    BY SMT, <1>1, <2>1, <2>2, <2>3, PreviewAssumption DEF PreviewShowsEip
  <2> QED BY <1>1, <2>1, <2>2, <2>4 DEF WindowInv
<1>3. CASE ~Outside
  <2>1. UNCHANGED previewvars
    BY <1>3 DEF FlushPreview
  <2>2. PreviewShowsEip(arr)
    BY SMT, <1>1, <1>3, PreviewAssumption
       DEF Outside, first_byte_printed, PreviewShowsEip, Filled
  <2>3. (PreviewIsProgram(arr) /\ PreviewShowsEip(arr))'
    BY <1>1, <2>1, <2>2 DEF PreviewIsProgram, PreviewShowsEip, previewvars
  <2> QED BY <1>1, <2>1, <2>3 DEF WindowInv, previewvars
<1> QED BY <1>2, <1>3

LEMMA WindowInit == Init => PreviewInv
<1> SUFFICES ASSUME Init PROVE PreviewInv
  OBVIOUS
<1>1. WindowInv
  BY DEF Init, LoaderInit, PreviewInit, WindowInv
<1> QED BY <1>1, StageInit, TextInit DEF PreviewInv

LEMMA WindowNext == PreviewInv /\ [Next]_vars => PreviewInv'
<1> SUFFICES ASSUME PreviewInv, [Next]_vars PROVE PreviewInv'
  OBVIOUS
<1>1. StageInv /\ TextInv /\ WindowInv /\ StageInv' /\ TextInv'
  BY StageNext, TextNext DEF PreviewInv
<1>2. Len(arr) \in Nat /\ ui_on = TRUE /\ phase \in Phases
  BY <1>1, LenProperties DEF TextInv, StageInv
<1>3. WindowInv'
  <2>1. ASSUME UNCHANGED <<arr, phase, previewvars>>,
               stage' \in {"load", "loop"} => stage \in {"load", "loop"} \/ phase = "wait"
        PROVE  WindowInv'
    BY <1>1, <2>1 DEF WindowInv, PreviewIsProgram, PreviewShowsEip, previewvars
  <2>2. CASE OpenFile
    BY <1>1, <2>2 DEF OpenFile, StartLoading, previewvars, WindowInv
  <2>3. CASE Load
    <3>0. UNCHANGED stage
      BY <2>3 DEF Load, clivars
    <3>1. CASE (ReadLine \/ ScanByte \/ EndOfLine) /\ UNCHANGED previewvars
      <4>2. phase \in {"read", "scan"} /\ phase' \in {"read", "scan"}
        BY <3>1 DEF ReadLine, ScanByte, EndOfLine
      <4> QED BY <1>1, <3>1, <4>2 DEF WindowInv, previewvars
    <3>2. CASE EndOfFile /\ SetProgram(arr)
      <4>1. /\ phase = "read" /\ phase' = "copy" /\ arr' = arr
            /\ ui_eip' = ui_eip /\ repopulate_matrix(arr, program_cursor)
        BY <3>2 DEF EndOfFile, SetProgram
      <4>2. program_cursor = 0 /\ ui_eip' = 0
        BY <1>1, <4>1 DEF WindowInv
      <4>3. /\ first' = 0
            /\ program_cursor' = 0 + Filled(Len(arr), 0)
            /\ last_byte_index_printed' = IF program_cursor' = 0 THEN 0 ELSE program_cursor' - 1
            /\ PreviewIsProgram(arr)'
        BY <1>2, <4>1, <4>2, Repopulated
      <4>4. Filled(Len(arr), 0) \in 0..MatrixSize
        BY SMT, <1>2, PreviewAssumption DEF Filled
      <4>5. PreviewShowsEip(arr)'
        BY SMT, <1>2, <4>1, <4>2, <4>3, <4>4, PreviewAssumption DEF PreviewShowsEip
      <4> QED BY <4>1, <4>2, <4>3, <4>5 DEF WindowInv
    <3>3. CASE (CopyDword \/ CopyRemainder) /\ UNCHANGED previewvars
      <4>1. phase = "copy" /\ phase' \in {"copy", "loaded"} /\ arr' = arr
        BY <3>3 DEF CopyDword, CopyRemainder
      <4>2. PreviewIsProgram(arr)' /\ (PreviewShowsEip(arr)' <=> PreviewShowsEip(arr))
        BY <1>1, <3>3, <4>1 DEF WindowInv, PreviewIsProgram, PreviewShowsEip, previewvars
      <4> QED BY <1>1, <3>0, <3>3, <4>1, <4>2 DEF WindowInv, previewvars
    <3> QED BY <1>2, <2>3, <3>1, <3>2, <3>3 DEF Load
  <2>4. CASE RegisterDevice \/ CreateEntry
    <3>1. UNCHANGED <<arr, phase, previewvars>> /\ phase = "wait"
      BY <1>1, <2>4 DEF RegisterDevice, CreateEntry, loadvars, StageInv
    <3> QED BY <2>1, <3>1
  <2>5. CASE Turn
    <3>1. /\ stage = "loop" /\ stage' = "flush" /\ UNCHANGED <<arr, phase>>
          /\ \/ \E eip \in Eips : CopyCpu(eip)
             \/ UNCHANGED previewvars
      BY <2>5 DEF Turn, Goto, loadvars
    <3>2. phase = "loaded"
      BY <1>1, <3>1 DEF StageInv
    <3>3. /\ ui_eip' \in Nat
          /\ UNCHANGED <<preview_matrix, program_cursor, last_byte_index_printed, first>>
      BY <1>1, <3>1, <3>2, StartupAssumption DEF CopyCpu, previewvars, WindowInv
    <3> QED BY <1>1, <3>1, <3>2, <3>3 DEF WindowInv, PreviewIsProgram
  <2>6. CASE Flush
    <3>1. stage = "flush" /\ UNCHANGED <<arr, phase>> /\ FlushPreview(arr)
      BY <1>2, <2>6 DEF Flush, loadvars
    <3>2. phase = "loaded"
      BY <1>1, <3>1 DEF StageInv
    <3> QED BY <3>1, <3>2, Flushed
  <2>7. CASE Main \/ Stop
    <3>1. UNCHANGED <<arr, phase, previewvars>> /\ stage' \notin {"load", "loop"}
      BY <2>7 DEF Main, Help, NextArgument, NoProgram, CannotOpen, Opened, Options,
                  Stop, Report, loadvars
    <3> QED BY <2>1, <3>1
  <2>8. CASE init_ui \/ InitDevice \/ CreateBus
    <3>1. UNCHANGED <<arr, phase, previewvars>> /\ stage' \notin {"load", "loop"}
      BY <2>8 DEF init_ui, InitDevice, init_device, CreateBus, Goto, RestUnchanged, loadvars
    <3> QED BY <2>1, <3>1
  <2>9. CASE ResetCpu
    <3>1. UNCHANGED <<arr, phase, previewvars>> /\ stage = "cpu"
      BY <2>9 DEF ResetCpu, RestUnchanged, loadvars
    <3>2. phase = "wait"
      BY <1>1, <3>1 DEF StageInv
    <3> QED BY <2>1, <3>1, <3>2
  <2>10. CASE NoMemoryForProgram \/ CreateMachine
    <3>1. UNCHANGED <<arr, phase, previewvars>> /\ stage = "load"
      BY <2>10 DEF NoMemoryForProgram, CreateMachine, RestUnchanged, loadvars
    <3> QED BY <2>1, <3>1
  <2>11. CASE Starves
    BY <2>1, <2>11, Starving DEF loadvars
  <2>12. CASE UNCHANGED vars
    BY <2>1, <2>12 DEF vars, loadvars, clivars
  <2> QED BY <2>2, <2>3, <2>4, <2>5, <2>6, <2>7, <2>8, <2>9, <2>10, <2>11, <2>12
          DEF Next, Boot, Ended
<1> QED BY <1>1, <1>3 DEF PreviewInv

(* Between two turns of the loop the program window shows a contiguous     *)
(* piece of the program, with the byte at EIP in it unless the window is   *)
(* partly empty, for every program, every EIP and every size of window.    *)
THEOREM PreviewIsRight == Spec => []PreviewRight
<1>1. PreviewInv => PreviewRight
  <2>1. StageInv /\ stage = "loop" => phase = "loaded"
    BY DEF StageInv
  <2> QED BY <2>1 DEF PreviewInv, WindowInv, PreviewRight
<1> QED BY <1>1, WindowInit, WindowNext, PTL DEF Spec

-----------------------------------------------------------------------------
(* The command line.  main stops at the first --program that a path        *)
(* follows, and finds --delay from there.                                  *)

FirstProgram(n) == argv[n] = "--program" /\ \A m \in 1..n-1 : argv[m] # "--program"

DelayRight ==
  /\ \A n \in 1..argc : Asked(n) => delay = strtol(argv[n + 4])
  /\ delay # 0 => \E n \in 1..argc-1 : argv[n] = "--delay" /\ delay = strtol(argv[n + 1])

DelayInv ==
  /\ StageInv
  /\ Len(argv) \in Nat /\ i \in Nat
  /\ stage = "arguments" =>
       /\ delay = 0 /\ i <= argc
       /\ \A m \in 1..i : argv[m] = "--program" => m >= argc
  /\ stage \in {"open", "options"} =>
       delay = 0 /\ 1 <= i /\ i < argc /\ FirstProgram(i)
  /\ stage \notin {"arguments", "open", "options", "crashed", "exit"} => DelayRight

LEMMA DelayInit == Init => DelayInv
<1> SUFFICES ASSUME Init PROVE DelayInv
  OBVIOUS
<1>1. PICK input \in Inputs : CliInit(input.command)
  BY DEF Init
<1>2. stage = "arguments" /\ delay = 0 /\ i = 0 /\ Len(argv) \in Nat
  BY <1>1, StartupAssumption, LenProperties DEF CliInit
<1>3. 0 \in Nat /\ 0 <= Len(argv) /\ 1..0 = {}
  BY SMT, <1>2
<1> QED BY <1>2, <1>3, StageInit DEF DelayInv, argc

(* The options behind the path. *)
LEMMA OptionsDelay ==
  ASSUME DelayInv, Options
  PROVE  DelayRight'
<1>1. /\ stage = "options" /\ ui_on = TRUE /\ argv' = argv
      /\ delay = 0 /\ i \in Nat /\ 1 <= i /\ i < argc /\ argc \in Nat /\ FirstProgram(i)
  BY DEF Options, DelayInv, StageInv, argc
<1>2. delay' = IF DelayAt(AfterPath + 1) THEN strtol(Arg(AfterPath + 2)) ELSE delay
  BY <1>1 DEF Options
<1> HIDE DEF argc
<1>3. AfterPath \in Nat /\ (i + 1 < argc => AfterPath = i + 1)
  BY SMT, <1>1 DEF AfterPath
<1>4. ASSUME NEW n \in 1..argc, Asked(n)
      PROVE  delay' = strtol(argv[n + 4])
  <2>1. n = i
    <3>1. FirstProgram(n)
      BY <1>4 DEF Asked, FirstProgram
    <3>2. ~ (n \in 1..i-1) /\ ~ (i \in 1..n-1)
      BY <1>1, <3>1 DEF FirstProgram
    <3> QED BY SMT, <1>1, <3>2
  <2>2. i + 4 <= argc /\ argv[i + 3] = "--delay"
    BY <1>4, <2>1 DEF Asked
  <2>3. AfterPath = i + 1
    BY SMT, <1>1, <1>3, <2>2
  <2>4. /\ AfterPath + 1 + 1 < argc /\ AfterPath + 1 + 1 = i + 3 /\ AfterPath + 2 + 1 = i + 4
    BY SMT, <1>1, <2>2, <2>3
  <2>5. Arg(AfterPath + 1) = argv[i + 3] /\ Arg(AfterPath + 2) = argv[i + 4]
    BY <2>4 DEF Arg
  <2> QED BY <1>2, <2>1, <2>2, <2>4, <2>5 DEF DelayAt
<1>5. ASSUME delay' # 0
      PROVE  \E n \in 1..argc-1 : argv[n] = "--delay" /\ delay' = strtol(argv[n + 1])
  <2>1. DelayAt(AfterPath + 1) /\ delay' = strtol(Arg(AfterPath + 2))
    BY <1>1, <1>2, <1>5
  <2> DEFINE n == AfterPath + 2
  <2>2. /\ AfterPath + 1 + 1 < argc /\ argv[AfterPath + 1 + 1] = "--delay"
        /\ delay' = strtol(argv[AfterPath + 2 + 1])
    BY <2>1 DEF DelayAt, Arg
  <2>3. /\ n \in 1..argc-1 /\ AfterPath + 1 + 1 = n /\ AfterPath + 2 + 1 = n + 1
    BY SMT, <1>1, <1>3, <2>2
  <2> HIDE DEF n
  <2> QED BY <2>2, <2>3
<1>6. argc' = argc /\ \A n : Asked(n)' <=> Asked(n)
  BY <1>1 DEF argc, Asked
<1> QED BY <1>1, <1>4, <1>5, <1>6 DEF DelayRight, strtol

LEMMA DelayNext == DelayInv /\ [Next]_vars => DelayInv'
<1> SUFFICES ASSUME DelayInv, [Next]_vars PROVE DelayInv'
  OBVIOUS
<1>1. StageInv' /\ Len(argv) \in Nat /\ i \in Nat
  BY StageNext DEF DelayInv
<1>2. ASSUME UNCHANGED <<argv, i, delay>>,
             stage' = stage \/ stage' \in {"crashed", "exit"}
               \/ (stage \notin {"arguments", "open", "options", "crashed", "exit"}
                     /\ stage' \notin {"arguments", "open", "options"})
      PROVE  DelayInv'
  BY <1>1, <1>2 DEF DelayInv, DelayRight, FirstProgram, Asked, argc
<1>3. CASE NextArgument
  <2>1. /\ stage = "arguments" /\ i < argc /\ i' = i + 1 /\ argv' = argv /\ delay' = delay
        /\ stage' = IF TakesProgram THEN "open" ELSE "arguments"
    BY <1>3 DEF NextArgument
  <2>2. delay = 0 /\ argc \in Nat /\ \A m \in 1..i : argv[m] = "--program" => m >= argc
    BY <1>1, <2>1 DEF DelayInv, argc
  <2>3. CASE TakesProgram
    <3>1. argv[i + 1] = "--program" /\ i + 1 < argc
      BY <2>3 DEF TakesProgram, Arg
    <3>2. \A m \in 1..(i + 1)-1 : m \in 1..i /\ ~ (m >= argc)
      BY SMT, <1>1, <2>2, <3>1
    <3>3. FirstProgram(i + 1)
      BY <2>2, <3>1, <3>2 DEF FirstProgram
    <3>4. i + 1 \in Nat /\ 1 <= i + 1
      BY SMT, <1>1
    <3> QED BY <1>1, <2>1, <2>2, <2>3, <3>1, <3>3, <3>4 DEF DelayInv, FirstProgram, argc
  <2>4. CASE ~TakesProgram
    <3>1. argv[i + 1] = "--program" => i + 1 >= argc
      <4>1. argv[i + 1] = "--program" => ~ (i + 1 < argc)
        BY <2>4 DEF TakesProgram, Arg
      <4> QED BY SMT, <1>1, <2>2, <4>1
    <3>2. \A m \in 1..i+1 : m \in 1..i \/ m = i + 1
      BY SMT, <1>1
    <3>3. i + 1 \in Nat /\ i + 1 <= argc
      BY SMT, <1>1, <2>1, <2>2
    <3> QED BY <1>1, <2>1, <2>2, <2>4, <3>1, <3>2, <3>3 DEF DelayInv, argc
  <2> QED BY <2>3, <2>4
<1>4. CASE Opened
  <2>1. stage = "open" /\ stage' = "options" /\ UNCHANGED <<argv, i, delay>>
    BY <1>4 DEF Opened
  <2> QED BY <1>1, <2>1 DEF DelayInv, FirstProgram, argc
<1>5. CASE Options
  <2>1. stage' \notin {"arguments", "open", "options"} /\ argv' = argv /\ DelayRight'
    BY <1>5, OptionsDelay DEF Options
  <2>2. i' \in Nat
    <3>1. i' = AfterPath + 2 \/ i' = AfterPath + 1 \/ i' = AfterPath
      BY <1>5 DEF Options
    <3> QED BY SMT, <1>1, <3>1 DEF AfterPath
  <2> QED BY <1>1, <2>1, <2>2 DEF DelayInv
<1>6. CASE Help \/ NoProgram \/ CannotOpen
  BY <1>2, <1>6 DEF Help, NoProgram, CannotOpen
<1>7. CASE init_ui \/ InitDevice \/ CreateBus \/ RegisterDevice
  BY <1>2, <1>7 DEF init_ui, InitDevice, init_device, CreateBus, RegisterDevice, Goto
<1>8. CASE CreateEntry \/ ResetCpu \/ OpenFile \/ Load
  BY <1>2, <1>8 DEF CreateEntry, ResetCpu, OpenFile, Load, Goto, clivars
<1>9. CASE NoMemoryForProgram \/ CreateMachine \/ Turn \/ Flush \/ Stop
  BY <1>2, <1>9 DEF NoMemoryForProgram, CreateMachine, Turn, Flush, Stop, Goto, Report
<1>10. CASE Starves
  BY <1>2, <1>10, Starving
<1>11. CASE UNCHANGED vars
  BY <1>2, <1>11 DEF vars, clivars
<1> QED BY <1>3, <1>4, <1>5, <1>6, <1>7, <1>8, <1>9, <1>10, <1>11 DEF Next, Main, Boot, Ended

(* The delay given behind --ui reaches the UI, and no delay is made up,    *)
(* for every command line.                                                 *)
THEOREM DelayIsAsGiven == Spec => []DelayAsGiven
<1>1. DelayInv => DelayAsGiven
  BY DEF DelayInv, DelayRight, DelayAsGiven
<1> QED BY <1>1, DelayInit, DelayNext, PTL DEF Spec

-----------------------------------------------------------------------------
(* Who takes a write, once the four devices are on the bus.                *)

LEMMA RamTakes ==
  ASSUME map = Registration, NEW addr \in Nat, addr <= RAM_SIZE - 4
  PROVE  Taker(addr) = "ram"
<1>1. /\ DOMAIN Registration = 1..4 /\ Registration[1] = "ram"
  BY SMT DEF Registration
<1>2. Base("ram") = 0 /\ Size("ram") = RAM_SIZE /\ Accepts("ram", addr)
  BY SMT, MemoryMapAssumption DEF Base, Size, Accepts, RAM_BASE_ADDR
<1>3. 1 \in Takers(addr)
  <2>1. 0 <= addr /\ addr < 0 + RAM_SIZE
    BY SMT, MemoryMapAssumption
  <2>2. 1 \in 1..4
    BY SMT
  <2> QED BY <1>1, <1>2, <2>1, <2>2 DEF Takers
<1>4. Takers(addr) \subseteq 1..4
  BY <1>1 DEF Takers
<1> DEFINE T == Takers(addr)
           c == CHOOSE n \in T : \A m \in T : n <= m
<1> HIDE DEF T
<1>5. \A m \in T : 1 <= m
  BY SMT, <1>4 DEF T
<1>6. c \in T /\ \A m \in T : c <= m
  BY <1>3, <1>5 DEF T
<1>7. c = 1
  <2> HIDE DEF c
  <2>1. c \in 1..4 /\ c <= 1
    BY <1>3, <1>4, <1>6 DEF T
  <2> QED BY SMT, <2>1
<1>8. T # {}
  BY <1>3 DEF T
<1> QED BY <1>1, <1>7, <1>8 DEF Taker, T

LEMMA OthersTake ==
  ASSUME map = Registration, NEW addr \in Nat, RAM_SIZE <= addr
  PROVE  Taker(addr) # "ram"
<1>1. /\ DOMAIN Registration = 1..4
      /\ \A n \in 1..4 : Registration[n] = "ram" => n = 1
  BY SMT DEF Registration
<1>2. Base("ram") = 0 /\ Size("ram") = RAM_SIZE /\ Registration[1] = "ram"
  BY SMT DEF Base, Size, RAM_BASE_ADDR, Registration
<1>3. 1 \notin Takers(addr)
  <2>1. ~ (addr < 0 + RAM_SIZE)
    BY SMT, MemoryMapAssumption
  <2> QED BY <1>2, <2>1 DEF Takers
<1>4. Takers(addr) \subseteq Nat /\ Takers(addr) \subseteq 1..4
  BY SMT, <1>1 DEF Takers
<1>5. CASE Takers(addr) = {}
  BY <1>5 DEF Taker
<1>6. CASE Takers(addr) # {}
  <2>1. Least(Takers(addr)) \in Takers(addr)
    BY <1>4, <1>6, LeastOfSet
  <2>2. Taker(addr) = Registration[Least(Takers(addr))]
    BY <1>6 DEF Taker, Least
  <2> QED BY <1>1, <1>3, <1>4, <2>1, <2>2
<1> QED BY <1>5, <1>6

-----------------------------------------------------------------------------
(* The copy.                                                               *)

Upto(end) == USER_CODE_BASE_ADDR .. (IF end < RAM_SIZE THEN end ELSE RAM_SIZE) - 1

Image(end) ==
  [a \in DOMAIN before \cup Upto(end) |->
     IF a \in Upto(end) THEN ProgramByte(a) ELSE before[a]]

IsFunction(f) == f = [a \in DOMAIN f |-> f[a]]

CopyInv ==
  /\ offset \in Nat
  /\ IsFunction(ram)
  /\ phase \in {"wait", "read", "scan"} => offset = 0 /\ strays = {}
  /\ phase \in {"read", "scan"} => ram = before
  /\ phase = "copy" =>
       /\ offset % 4 = 0 /\ offset <= Len(arr)
       /\ ram = Image(USER_CODE_BASE_ADDR + offset)
  /\ phase = "loaded" => ram = Image(DwordsEnd) /\ offset = Len(arr)
  /\ strays # {} => Len(arr) > RAM_SIZE - USER_CODE_BASE_ADDR

RamInv == StageInv /\ TextInv /\ CopyInv

LEMMA RamInit == Init => RamInv
<1> SUFFICES ASSUME Init PROVE RamInv
  OBVIOUS
<1>1. ram = <<>> /\ strays = {} /\ phase = "wait" /\ offset = 0
  BY DEF Init, BusInit, LoaderInit
<1>2. <<>> = [a \in DOMAIN <<>> |-> <<>>[a]]
  BY SMT
<1>3. IsFunction(ram)
  BY <1>1, <1>2 DEF IsFunction
<1>4. CopyInv
  BY SMT, <1>1, <1>3 DEF CopyInv
<1> QED BY <1>4, StageInit, TextInit DEF RamInv

(* One dword of the program, written where it belongs. *)
LEMMA DwordWritten ==
  ASSUME map = Registration, offset \in Nat, offset % 4 = 0, Len(arr) \in Nat,
         ram = Image(USER_CODE_BASE_ADDR + offset),
         NEW bytes,
         \A n \in 1..4 : bytes[n] = ProgramByte(USER_CODE_BASE_ADDR + offset + n - 1),
         bus_write(bytes, USER_CODE_BASE_ADDR + offset)
  PROVE  /\ ram' = Image(USER_CODE_BASE_ADDR + offset + 4)
         /\ IsFunction(ram')
         /\ strays' # {} => strays # {} \/ offset >= RAM_SIZE - USER_CODE_BASE_ADDR
<1> DEFINE addr == USER_CODE_BASE_ADDR + offset
<1>1. addr \in Nat /\ RAM_SIZE \in Nat /\ (addr <= RAM_SIZE - 4 \/ RAM_SIZE <= addr)
  BY SMT, MemoryMapAssumption, LoaderAssumption DEF USER_CODE_BASE_ADDR
<1>2. /\ ram' = IF Taker(addr) = "ram" THEN Stored(bytes, addr) ELSE ram
      /\ strays' = strays \cup ({Taker(addr)} \ {"ram", "nobody"})
  BY DEF bus_write
<1> SUFFICES /\ ram' = Image(addr + 4) /\ IsFunction(ram')
             /\ strays' # {} => strays # {} \/ offset >= RAM_SIZE - USER_CODE_BASE_ADDR
  OBVIOUS
<1>4. IsFunction(Image(addr + 4))
  BY DEF Image, IsFunction
<1>5. CASE addr <= RAM_SIZE - 4
  <2>1. Taker(addr) = "ram"
    BY <1>1, <1>5, RamTakes
  <2>2. ram' = Stored(bytes, addr) /\ strays' = strays
    BY <1>2, <2>1
  <2>3. Upto(addr + 4) = Upto(addr) \cup (addr..addr+3)
    BY SMT, <1>1, <1>5 DEF Upto, USER_CODE_BASE_ADDR
  <2>4. DOMAIN ram = DOMAIN before \cup Upto(addr)
    BY DEF Image
  <2>5. DOMAIN ram \cup (addr..addr+3) = DOMAIN before \cup Upto(addr + 4)
    BY <2>3, <2>4
  <2>6. ASSUME NEW a \in DOMAIN before \cup Upto(addr + 4)
        PROVE  (IF a \in addr..addr+3 THEN bytes[a - addr + 1] ELSE ram[a])
                 = (IF a \in Upto(addr + 4) THEN ProgramByte(a) ELSE before[a])
    <3>1. CASE a \in addr..addr+3
      <4>1. a - addr + 1 \in 1..4 /\ addr + (a - addr + 1) - 1 = a
        BY SMT, <1>1, <3>1
      <4>2. bytes[a - addr + 1] = ProgramByte(a)
        BY <4>1
      <4> QED BY <2>3, <3>1, <4>2
    <3>2. CASE a \notin addr..addr+3
      <4>1. a \in Upto(addr + 4) <=> a \in Upto(addr)
        BY <2>3, <3>2
      <4>2. ram[a] = IF a \in Upto(addr) THEN ProgramByte(a) ELSE before[a]
        BY <2>3, <3>2 DEF Image
      <4> QED BY <3>2, <4>1, <4>2
    <3> QED BY <3>1, <3>2
  <2>7. Stored(bytes, addr) = Image(addr + 4)
    BY <2>5, <2>6 DEF Stored, Image
  <2> QED BY <1>4, <2>2, <2>7
<1>6. CASE RAM_SIZE <= addr
  <2>1. Taker(addr) # "ram"
    BY <1>1, <1>6, OthersTake
  <2>2. Upto(addr + 4) = Upto(addr)
    BY SMT, <1>1, <1>6 DEF Upto
  <2>3. Image(addr + 4) = Image(addr)
    BY <2>2 DEF Image
  <2>4. offset >= RAM_SIZE - USER_CODE_BASE_ADDR
    BY SMT, <1>1, <1>6 DEF USER_CODE_BASE_ADDR
  <2> QED BY <1>2, <1>4, <2>1, <2>3, <2>4
<1> QED BY <1>1, <1>5, <1>6

LEMMA DwordsEndIs ==
  \A len, o \in Nat :
    /\ o % 4 = 0 /\ o < len /\ len <= o + 4 => 4 * ((len + 3) \div 4) = o + 4
    /\ o % 4 = 0 /\ o = len => 4 * ((len + 3) \div 4) = o
    /\ o % 4 = 0 => (o + 4) % 4 = 0
  BY SMT

(* The n-th byte of the dword that CopyDword cuts out of the program.       *)
LEMMA DwordElement ==
  ASSUME NEW S, NEW s, NEW o \in Nat,
         \A k \in 1..Len(s) : s[k] \in S, Len(s) \in Nat, o + 4 <= Len(s),
         NEW n \in 1..4
  PROVE  SubSeq(s, o + 1, o + 4)[n] = s[o + n]
<1>1. \A k \in o+1..o+4 : k \in 1..Len(s)
  BY SMT
<1>2. /\ o + 1 \in Int /\ o + 4 \in Int
      /\ (o + 4) - (o + 1) + 1 = 4 /\ (o + 1) + n - 1 = o + n
  BY SMT
<1>3. \A k \in o+1..o+4 : s[k] \in S
  BY <1>1
<1>4. ASSUME NEW m \in Int, NEW l \in Int, \A k \in m..l : s[k] \in S
      PROVE  \A k \in 1..l-m+1 : SubSeq(s, m, l)[k] = s[m+k-1]
  BY <1>4, SubSeqProperties
<1>5. \A k \in 1..(o + 4) - (o + 1) + 1 :
          SubSeq(s, o + 1, o + 4)[k] = s[(o + 1) + k - 1]
  BY ONLY <1>2, <1>3, <1>4, Zenon
<1> QED BY <1>2, <1>5, Zenon

(* The image does not change while the program and the old contents stay.  *)
LEMMA ImageStays ==
  ASSUME UNCHANGED <<arr, before>>
  PROVE  /\ Image(USER_CODE_BASE_ADDR + offset)' = Image(USER_CODE_BASE_ADDR + offset')
         /\ Image(DwordsEnd)' = Image(DwordsEnd)
  BY DEF Image, Upto, ProgramByte, DwordsEnd

LEMMA RamLoad == RamInv /\ Load => CopyInv'
<1> SUFFICES ASSUME RamInv, Load PROVE CopyInv'
  OBVIOUS
<1>1. CopyInv /\ phase # "wait" /\ map = Registration
  BY DEF RamInv, StageInv, Load, EndOfFile, ReadLine, ScanByte, EndOfLine, CopyDword,
         CopyRemainder
<1>2. Len(arr) \in Nat /\ arr \in Seq(Byte)
  BY LenProperties DEF RamInv, TextInv
<1>3. CASE ReadLine \/ ScanByte \/ EndOfLine
  <2>1. /\ phase \in {"read", "scan"} /\ phase' \in {"read", "scan"}
        /\ UNCHANGED <<offset, before, ram, strays>>
    BY <1>3 DEF ReadLine, ScanByte, EndOfLine, busvars
  <2> QED BY <1>1, <2>1 DEF CopyInv, IsFunction
<1>4. CASE EndOfFile
  <2>1. /\ phase = "read" /\ phase' = "copy"
        /\ UNCHANGED <<arr, offset, before, ram, strays>>
    BY <1>4 DEF EndOfFile, busvars
  <2>2. offset = 0 /\ strays = {} /\ ram = before /\ IsFunction(ram)
    BY <1>1, <2>1 DEF CopyInv
  <2>3. Upto(USER_CODE_BASE_ADDR + 0) = {}
    BY SMT, LoaderAssumption, MemoryMapAssumption DEF Upto, USER_CODE_BASE_ADDR
  <2>4. Image(USER_CODE_BASE_ADDR + 0) = [a \in DOMAIN before |-> before[a]]
    BY <2>3 DEF Image
  <2>5. ram = Image(USER_CODE_BASE_ADDR + offset)
    BY <2>2, <2>4 DEF IsFunction
  <2>6. ram' = Image(USER_CODE_BASE_ADDR + offset)'
    BY <2>1, <2>5, ImageStays
  <2>7. 0 % 4 = 0 /\ 0 <= Len(arr) /\ 0 \in Nat
    BY SMT, <1>2
  <2> QED BY <2>1, <2>2, <2>6, <2>7 DEF CopyInv, IsFunction
<1>5. CASE CopyDword
  <2>1. /\ phase = "copy" /\ phase' = "copy" /\ offset + 4 < Len(arr) /\ offset' = offset + 4
        /\ bus_write(SubSeq(arr, offset + 1, offset + 4), USER_CODE_BASE_ADDR + offset)
        /\ UNCHANGED <<arr, before>>
    BY <1>5 DEF CopyDword
  <2>2. offset \in Nat /\ offset % 4 = 0 /\ ram = Image(USER_CODE_BASE_ADDR + offset)
    BY <1>1, <2>1 DEF CopyInv
  <2> DEFINE bytes == SubSeq(arr, offset + 1, offset + 4)
  <2>3. ASSUME NEW n \in 1..4
        PROVE  bytes[n] = ProgramByte(USER_CODE_BASE_ADDR + offset + n - 1)
    <3>1. /\ offset + 4 <= Len(arr) /\ Len(arr) \in Nat
          /\ \A k \in 1..Len(arr) : arr[k] \in Byte
      BY <1>2, <2>1, <2>2, ElementOfSeq
    <3>3. bytes[n] = arr[offset + n]
      BY <2>2, <3>1, DwordElement
    <3>4. ProgramByte(USER_CODE_BASE_ADDR + offset + n - 1) = arr[offset + n]
      <4>1. /\ (USER_CODE_BASE_ADDR + offset + n - 1) - USER_CODE_BASE_ADDR + 1 = offset + n
            /\ offset + n <= Len(arr)
        BY SMT, <1>2, <2>1, <2>2 DEF USER_CODE_BASE_ADDR
      <4> QED BY <4>1 DEF ProgramByte
    <3> QED BY <3>1, <3>3, <3>4
  <2> HIDE DEF bytes
  <2>4. /\ ram' = Image(USER_CODE_BASE_ADDR + offset + 4) /\ IsFunction(ram')
        /\ strays' # {} => strays # {} \/ offset >= RAM_SIZE - USER_CODE_BASE_ADDR
    BY <1>1, <1>2, <2>1, <2>2, <2>3, DwordWritten DEF bytes
  <2>5. USER_CODE_BASE_ADDR + offset + 4 = USER_CODE_BASE_ADDR + offset'
    BY SMT, <2>1, <2>2 DEF USER_CODE_BASE_ADDR
  <2>6. ram' = Image(USER_CODE_BASE_ADDR + offset)'
    BY <2>1, <2>4, <2>5, ImageStays
  <2>7. offset' \in Nat /\ offset' % 4 = 0 /\ offset' <= Len(arr')
    BY SMT, <1>2, <2>1, <2>2, DwordsEndIs
  <2>8. strays' # {} => Len(arr') > RAM_SIZE - USER_CODE_BASE_ADDR
    <3>1. CASE strays # {}
      BY <1>1, <2>1, <3>1 DEF CopyInv
    <3>2. CASE strays = {}
      BY SMT, <1>2, <2>1, <2>2, <2>4, <3>2, MemoryMapAssumption DEF USER_CODE_BASE_ADDR
    <3> QED BY <3>1, <3>2
  <2> QED BY <2>1, <2>4, <2>6, <2>7, <2>8 DEF CopyInv, IsFunction
<1>6. CASE CopyRemainder
  <2>1. /\ phase = "copy" /\ phase' = "loaded" /\ offset + 4 >= Len(arr) /\ offset' = Len(arr)
        /\ IF offset < Len(arr) THEN bus_write(Remainder, USER_CODE_BASE_ADDR + offset)
           ELSE UNCHANGED busvars
        /\ UNCHANGED <<arr, before>>
    BY <1>6 DEF CopyRemainder
  <2>2. /\ offset \in Nat /\ offset % 4 = 0 /\ offset <= Len(arr)
        /\ ram = Image(USER_CODE_BASE_ADDR + offset) /\ IsFunction(ram)
        /\ strays # {} => Len(arr) > RAM_SIZE - USER_CODE_BASE_ADDR
    BY <1>1, <2>1 DEF CopyInv
  <2>3. CASE offset < Len(arr)
    <3>1. ASSUME NEW n \in 1..4
          PROVE  Remainder[n] = ProgramByte(USER_CODE_BASE_ADDR + offset + n - 1)
      <4>1. (USER_CODE_BASE_ADDR + offset + n - 1) - USER_CODE_BASE_ADDR + 1 = offset + n
        BY SMT, <2>2 DEF USER_CODE_BASE_ADDR
      <4> QED BY <4>1 DEF ProgramByte, Remainder
    <3>2. bus_write(Remainder, USER_CODE_BASE_ADDR + offset)
      BY <2>1, <2>3
    <3>3. /\ ram' = Image(USER_CODE_BASE_ADDR + offset + 4) /\ IsFunction(ram')
          /\ strays' # {} => strays # {} \/ offset >= RAM_SIZE - USER_CODE_BASE_ADDR
      BY <1>1, <1>2, <2>2, <3>1, <3>2, DwordWritten
    <3>4. DwordsEnd = USER_CODE_BASE_ADDR + offset + 4
      <4>1. 4 * ((Len(arr) + 3) \div 4) = offset + 4
        BY SMT, <1>2, <2>1, <2>2, <2>3, DwordsEndIs
      <4> QED BY SMT, <2>2, <4>1 DEF DwordsEnd, USER_CODE_BASE_ADDR
    <3>5. ram' = Image(DwordsEnd)'
      BY <2>1, <3>3, <3>4, ImageStays
    <3>6. strays' # {} => Len(arr') > RAM_SIZE - USER_CODE_BASE_ADDR
      <4>1. CASE strays # {}
        BY <2>1, <2>2, <4>1
      <4>2. CASE strays = {}
        BY SMT, <1>2, <2>1, <2>2, <2>3, <3>3, <4>2, MemoryMapAssumption DEF USER_CODE_BASE_ADDR
      <4> QED BY <4>1, <4>2
    <3> QED BY <1>2, <2>1, <3>3, <3>5, <3>6 DEF CopyInv, IsFunction
  <2>4. CASE ~ (offset < Len(arr))
    <3>1. offset = Len(arr) /\ UNCHANGED <<ram, strays>>
      BY SMT, <1>2, <2>1, <2>2, <2>4 DEF busvars
    <3>2. DwordsEnd = USER_CODE_BASE_ADDR + offset
      <4>1. 4 * ((Len(arr) + 3) \div 4) = offset
        BY SMT, <1>2, <2>2, <3>1, DwordsEndIs
      <4> QED BY <4>1 DEF DwordsEnd
    <3>3. ram' = Image(DwordsEnd)'
      BY <2>1, <2>2, <3>1, <3>2, ImageStays
    <3> QED BY <1>2, <2>1, <2>2, <3>1, <3>3 DEF CopyInv, IsFunction
  <2> QED BY <2>3, <2>4
<1> QED BY <1>3, <1>4, <1>5, <1>6 DEF Load

LEMMA RamNext == RamInv /\ [Next]_vars => RamInv'
<1> SUFFICES ASSUME RamInv, [Next]_vars PROVE RamInv'
  OBVIOUS
<1>1. StageInv /\ TextInv /\ CopyInv /\ StageInv' /\ TextInv'
  BY StageNext, TextNext DEF RamInv
<1>2. CopyInv'
  <2>1. CASE OpenFile
    <3>1. /\ phase = "wait" /\ phase' = "read" /\ before' = ram
          /\ UNCHANGED <<arr, offset, ram, strays>>
      BY <2>1 DEF OpenFile, StartLoading, busvars
    <3> QED BY <1>1, <3>1 DEF CopyInv, IsFunction
  <2>2. CASE Load
    BY <2>2, RamLoad
  <2>3. CASE RegisterDevice
    <3>1. phase = "wait" /\ UNCHANGED <<phase, arr, offset, ram, strays>>
      BY <1>1, <2>3 DEF RegisterDevice, loadvars, StageInv
    <3> QED BY <1>1, <3>1 DEF CopyInv, IsFunction
  <2>4. CASE CreateEntry
    <3>1. phase = "wait" /\ UNCHANGED <<phase, arr, offset, strays>>
      BY <1>1, <2>4 DEF CreateEntry, loadvars, StageInv
    <3>2. IsFunction(ram')
      BY <1>1, <2>4 DEF CreateEntry, CopyInv, IsFunction
    <3> QED BY <1>1, <3>1, <3>2 DEF CopyInv
  <2>5. CASE UNCHANGED <<text, busvars, loadvars>>
    <3>1. UNCHANGED <<phase, arr, offset, before, ram, strays>>
      BY <2>5 DEF busvars, loadvars
    <3>2. Image(USER_CODE_BASE_ADDR + offset)' = Image(USER_CODE_BASE_ADDR + offset)
            /\ Image(DwordsEnd)' = Image(DwordsEnd)
      BY <3>1, ImageStays
    <3> QED BY <1>1, <3>1, <3>2 DEF CopyInv, IsFunction
  <2> QED BY <2>1, <2>2, <2>3, <2>4, <2>5, QuietSteps
<1> QED BY <1>1, <1>2 DEF RamInv

(* The RAM is what the table and the part of the program copied so far     *)
(* make of it.                                                             *)
THEOREM RamCorrect == Spec => []RamInv
  BY RamInit, RamNext, PTL DEF Spec

(* When the loader is done, the RAM holds the program's bytes from the     *)
(* code segment's base on, as many as fit, and is otherwise as before,     *)
(* however long the program is and wherever the RAM ends; one that fits    *)
(* reaches no other device.                                                *)
THEOREM ImageIsExact == Spec => []ImageExact
<1>1. RamInv => (phase = "loaded" => ram = Image(DwordsEnd))
  BY DEF RamInv, CopyInv
<1>2. ProgramAddresses = Upto(DwordsEnd)
  BY DEF ProgramAddresses, Upto
<1>3. RamInv => (Len(arr) <= RAM_SIZE - USER_CODE_BASE_ADDR => strays = {})
  <2>1. Len(arr) \in Nat /\ RAM_SIZE \in Nat =>
          ~ (Len(arr) > RAM_SIZE - USER_CODE_BASE_ADDR
               /\ Len(arr) <= RAM_SIZE - USER_CODE_BASE_ADDR)
    BY SMT DEF USER_CODE_BASE_ADDR
  <2> QED BY <2>1, LenProperties, MemoryMapAssumption DEF RamInv, TextInv, CopyInv
<1>4. RamInv => ImageExact
  BY <1>1, <1>2, <1>3 DEF ImageExact, Image
<1> QED BY <1>4, RamCorrect, PTL

-----------------------------------------------------------------------------
(* The descriptor table, and the segments read from it.                    *)

RowStored(n) ==
  \A k \in 1..8 :
    /\ RowAddress(n) + k - 1 \in DOMAIN ram
    /\ ram[RowAddress(n) + k - 1] = Descriptor(Rows[n])[k]

SegmentsSet == SegmentIs("CS", Rows[3]) /\ SegmentIs("DS", Rows[4]) /\ SegmentIs("SS", Rows[5])

TableInv ==
  /\ StageInv
  /\ stage \in {"gdt", "cpu"} => \A n \in 1..next_row-1 : RowStored(n)
  /\ stage \in {"load", "loop", "flush"} => SegmentsSet

LEMMA TableInit == Init => TableInv
<1> SUFFICES ASSUME Init PROVE TableInv
  OBVIOUS
<1>1. stage = "arguments"
  BY DEF Init, CliInit
<1> QED BY <1>1, StageInit DEF TableInv

(* One more row: those before it stay as they are.                         *)
LEMMA RowAdded == TableInv /\ CreateEntry /\ stage' \in {"gdt", "cpu"}
                    => \A n \in 1..next_row'-1 : RowStored(n)'
<1> SUFFICES ASSUME TableInv, CreateEntry, stage' \in {"gdt", "cpu"},
                    NEW n \in 1..next_row'-1
             PROVE  RowStored(n)'
  OBVIOUS
<1> DEFINE addr == RowAddress(next_row)
           d == Descriptor(Rows[next_row])
<1>1. stage = "gdt" /\ next_row \in 1..5 /\ \A m \in 1..next_row-1 : RowStored(m)
  BY DEF CreateEntry, TableInv, StageInv, TablesInv
<1>2. /\ next_row' = next_row + 1
      /\ ram' = [a \in DOMAIN ram \cup (addr..addr+7) |->
                   IF a \in addr..addr+7 THEN d[a - addr + 1] ELSE ram[a]]
  BY DEF CreateEntry, Goto
<1>3. ASSUME NEW k \in 1..8
      PROVE  /\ RowAddress(n) + k - 1 \in DOMAIN ram'
             /\ ram'[RowAddress(n) + k - 1] = Descriptor(Rows[n])[k]
  <2> DEFINE a == RowAddress(n) + k - 1
  <2>1. CASE n = next_row
    <3>1. a \in addr..addr+7 /\ a - addr + 1 = k
      BY SMT, <1>1, <2>1 DEF RowAddress, GDT_BASE_ADDR, GDT_DESC_SIZE
    <3> HIDE DEF a, addr, d
    <3>2. a \in DOMAIN ram' /\ ram'[a] = d[k]
      BY <1>2, <3>1
    <3> QED BY <2>1, <3>2 DEF a, d
  <2>2. CASE n # next_row
    <3>1. n \in 1..next_row-1 /\ n < next_row
      BY SMT, <1>1, <1>2, <2>2
    <3>2. a \notin addr..addr+7
      BY SMT, <1>1, <3>1 DEF RowAddress, GDT_BASE_ADDR, GDT_DESC_SIZE
    <3>3. a \in DOMAIN ram /\ ram[a] = Descriptor(Rows[n])[k]
      BY <1>1, <3>1 DEF RowStored
    <3> HIDE DEF a, addr, d
    <3>4. a \in DOMAIN ram' /\ ram'[a] = ram[a]
      BY <1>2, <3>2, <3>3
    <3> QED BY <3>3, <3>4 DEF a
  <2> QED BY <2>1, <2>2
<1> QED BY <1>3 DEF RowStored, RowAddress

(* A descriptor is read back from the RAM byte for byte, the last row of   *)
(* the table included.                                                     *)
LEMMA DescriptorRead ==
  ASSUME NEW n \in 3..5, RowStored(n)
  PROVE  \A k \in 1..8 : get_descriptor(n - 1)[k] = Descriptor(Rows[n])[k]
<1>1. /\ ~ ((n - 1) * GDT_DESC_SIZE + GDT_DESC_SIZE - 1 > GDT_SIZE)
      /\ \A k \in 1..8 : GDT_BASE_ADDR + (n - 1) * GDT_DESC_SIZE + k - 1 = RowAddress(n) + k - 1
  BY SMT DEF GDT_DESC_SIZE, GDT_SIZE, GDT_BASE_ADDR, RowAddress
<1> QED BY <1>1 DEF get_descriptor, RowStored, RamByte

(* Base, limit and rights of the three rows survive the packing.           *)
LEMMA RowUnpacked ==
  ASSUME NEW n \in 3..5, NEW d, \A k \in 1..8 : d[k] = Descriptor(Rows[n])[k]
  PROVE  /\ get_base(d) = Rows[n].base /\ get_limit(d) = Rows[n].limit
         /\ get_flag(d) = Rows[n].access + 4096 * Rows[n].flags
<1> USE DEF Descriptor, create_descriptor, Rows, Row, get_base, get_limit, get_flag,
            KERNEL_CODE_RX, USER_CODE_RX, USER_DATA_RW, STACK, DB_32_BIT
<1>1. CASE n = 3
  BY SMT, <1>1
<1>2. CASE n = 4
  BY SMT, <1>2
<1>3. CASE n = 5
  BY SMT, <1>3
<1> QED BY SMT, <1>1, <1>2, <1>3

LEMMA SegmentsRead ==
  ASSUME TableInv, ResetCpu, stage' = "load"
  PROVE  SegmentsSet'
<1>1. stage = "cpu" /\ next_row = 6
  BY DEF ResetCpu, TableInv, StageInv, TablesInv
<1>2. segments' = [s \in DOMAIN Selector |-> SegmentCache(Selector[s])]
  BY DEF ResetCpu, Goto
<1>3. \A n \in 3..5 : RowStored(n)
  <2>1. \A n \in 3..5 : n \in 1..6-1
    BY SMT
  <2> QED BY <1>1, <2>1 DEF TableInv
<1>4. ASSUME NEW n \in 3..5, NEW selector, selector \div 8 = n - 1
      PROVE  SegmentCache(selector) = [base |-> Rows[n].base, limit |-> Rows[n].limit,
                                       flag |-> Rows[n].access + 4096 * Rows[n].flags]
  <2> DEFINE d == get_descriptor(n - 1)
  <2>1. \A k \in 1..8 : d[k] = Descriptor(Rows[n])[k]
    BY <1>3, DescriptorRead
  <2> HIDE DEF d
  <2>2. /\ get_base(d) = Rows[n].base /\ get_limit(d) = Rows[n].limit
        /\ get_flag(d) = Rows[n].access + 4096 * Rows[n].flags
    BY <2>1, RowUnpacked
  <2> QED BY <1>4, <2>2 DEF SegmentCache, d
<1>5. /\ DOMAIN Selector = {"CS", "DS", "SS"}
      /\ Selector["CS"] = 19 /\ Selector["DS"] = 27 /\ Selector["SS"] = 35
  BY SMT DEF Selector
<1>6. 19 \div 8 = 3 - 1 /\ 27 \div 8 = 4 - 1 /\ 35 \div 8 = 5 - 1
        /\ 3 \in 3..5 /\ 4 \in 3..5 /\ 5 \in 3..5
  BY SMT
<1>7. /\ segments'["CS"] = SegmentCache(19) /\ segments'["DS"] = SegmentCache(27)
      /\ segments'["SS"] = SegmentCache(35)
  BY <1>2, <1>5
<1> QED BY <1>4, <1>6, <1>7 DEF SegmentsSet, SegmentIs

LEMMA TableNext == TableInv /\ [Next]_vars => TableInv'
<1> SUFFICES ASSUME TableInv, [Next]_vars PROVE TableInv'
  OBVIOUS
<1>1. StageInv /\ StageInv'
  BY StageNext DEF TableInv
<1>2. ASSUME UNCHANGED <<ram, next_row, segments>>,
             stage' \in {"gdt", "cpu"} => stage = stage' \/ next_row = 1,
             stage' \in {"load", "loop", "flush"} => stage \in {"load", "loop", "flush"}
      PROVE  TableInv'
  <2>1. stage' \in {"gdt", "cpu"} => \A n \in 1..next_row'-1 : RowStored(n)'
    <3>1. CASE next_row = 1
      <4>1. 1..next_row'-1 = {}
        BY SMT, <1>2, <3>1
      <4> QED BY <4>1
    <3>2. CASE stage' = stage
      BY <1>2, <3>2 DEF TableInv, RowStored
    <3> QED BY <1>2, <3>1, <3>2
  <2> QED BY <1>1, <1>2, <2>1 DEF TableInv, SegmentsSet, SegmentIs
<1>3. CASE Main
  BY <1>2, <1>3 DEF Main, Help, NextArgument, NoProgram, CannotOpen, Opened, Options,
                    busvars, bootvars
<1>4. CASE init_ui \/ InitDevice \/ CreateBus
  BY <1>2, <1>4 DEF init_ui, InitDevice, init_device, CreateBus, Goto, RestUnchanged, busvars
<1>5. CASE RegisterDevice
  <2>1. stage = "map" /\ stage' \in {"map", "gdt"} /\ UNCHANGED <<ram, next_row, segments>>
    BY <1>5 DEF RegisterDevice, Goto, bootvars
  <2>2. next_row = 1
    BY <1>1, <2>1 DEF StageInv, TablesInv
  <2> QED BY <1>2, <2>1, <2>2
<1>6. CASE CreateEntry
  <2>1. stage' \in {"gdt", "cpu", "refused"}
    BY <1>6 DEF CreateEntry, Goto
  <2> QED BY <1>1, <1>6, <2>1, RowAdded DEF TableInv
<1>7. CASE ResetCpu
  <2>1. stage' \in {"load", "refused"}
    BY <1>7 DEF ResetCpu, Goto
  <2> QED BY <1>1, <1>7, <2>1, SegmentsRead DEF TableInv
<1>8. CASE OpenFile \/ Load
  <2>1. stage = "load" /\ UNCHANGED <<stage, segments>>
    BY <1>8 DEF OpenFile, Load, clivars, bootvars
  <2> QED BY <1>1, <2>1 DEF TableInv, SegmentsSet, SegmentIs
<1>9. CASE NoMemoryForProgram \/ CreateMachine
  BY <1>2, <1>9 DEF NoMemoryForProgram, CreateMachine, Goto, RestUnchanged, busvars, bootvars
<1>10. CASE Turn \/ Flush \/ Stop
  BY <1>2, <1>10 DEF Turn, Flush, Stop, Goto, Report, busvars, bootvars
<1>11. CASE Starves
  BY <1>2, <1>11, Starving DEF busvars
<1>12. CASE UNCHANGED vars
  BY <1>2, <1>12 DEF vars, clivars, busvars, bootvars
<1> QED BY <1>3, <1>4, <1>5, <1>6, <1>7, <1>8, <1>9, <1>10, <1>11, <1>12 DEF Next, Boot, Ended

(* The rows written so far stand in RAM byte for byte, also while the      *)
(* program is copied, and the segments are read from them.                 *)
THEOREM TableCorrect == Spec => []TableInv
  BY TableInit, TableNext, PTL DEF Spec

(* In the loop the three segments are the rows create_gdt wrote, and the   *)
(* code segment begins with the first byte of the program.                 *)
THEOREM SegmentsAreAsWritten == Spec => []SegmentsAsWritten
<1>1. TableInv /\ RamInv => SegmentsAsWritten
  <2> SUFFICES ASSUME TableInv, RamInv, stage \in {"loop", "flush"}, arr # <<>>,
                      segments["CS"].base \in Address
               PROVE  RamByte(segments["CS"].base) = arr[1]
    BY DEF SegmentsAsWritten, TableInv, SegmentsSet
  <2>1. segments["CS"].base = 2048
    <3>1. SegmentIs("CS", Rows[3])
      BY DEF TableInv, SegmentsSet
    <3>2. Rows[3].base = 2048
      BY SMT DEF Rows, Row
    <3> QED BY <3>1, <3>2 DEF SegmentIs
  <2>2. ram = Image(DwordsEnd)
    BY DEF RamInv, CopyInv, StageInv
  <2>3. Len(arr) \in Nat \ {0}
    BY EmptySeq DEF RamInv, TextInv
  <2>4. 2048 \in Upto(DwordsEnd)
    <3>1. 2048 < RAM_SIZE
      BY SMT, <2>1, MemoryMapAssumption DEF Address
    <3>2. (Len(arr) + 3) \div 4 \in Nat \ {0}
      BY SMT, <2>3
    <3> QED BY SMT, <3>1, <3>2, MemoryMapAssumption DEF Upto, DwordsEnd, USER_CODE_BASE_ADDR
  <2>5. ProgramByte(2048) = arr[1]
    <3>1. 2048 - USER_CODE_BASE_ADDR + 1 = 1 /\ 1 <= Len(arr)
      BY SMT, <2>3 DEF USER_CODE_BASE_ADDR
    <3> QED BY <3>1 DEF ProgramByte
  <2> QED BY <2>1, <2>2, <2>4, <2>5 DEF RamByte, Image
<1> QED BY <1>1, TableCorrect, RamCorrect, PTL

-----------------------------------------------------------------------------
(* The type invariant, one lemma per component.                            *)

CliType == i \in 0..argc+1 /\ delay \in Int

BusType ==
  /\ map \in Seq(Device)
  /\ \A a \in DOMAIN ram : a \in Address /\ ram[a] \in Byte
  /\ strays \subseteq Device

BuffType == Len(buff) < BUFF_SIZE

MatrixType == preview_matrix \in [0..MatrixSize-1 -> Byte]

TypeInv == RamInv /\ DelayInv /\ CliType /\ BusType /\ BuffType /\ MatrixType

LEMMA TypeInit == Init => TypeInv
<1> SUFFICES ASSUME Init PROVE TypeInv
  OBVIOUS
<1>1. RamInv /\ DelayInv
  BY RamInit, DelayInit
<1>2. CliType
  <2>1. i = 0 /\ delay = 0
    BY DEF Init, CliInit
  <2>2. argc \in Nat
    BY <1>1 DEF DelayInv, argc
  <2> HIDE DEF argc
  <2> QED BY SMT, <2>1, <2>2 DEF CliType
<1>3. BusType
  <2>1. map = <<>> /\ ram = <<>> /\ strays = {}
    BY DEF Init, BusInit
  <2>2. DOMAIN <<>> = {} /\ <<>> \in Seq(Device)
    BY SMT
  <2> QED BY <2>1, <2>2 DEF BusType
<1>4. BuffType
  <2>1. buff = <<>>
    BY DEF Init, LoaderInit
  <2>2. Len(<<>>) = 0
    BY SMT
  <2> QED BY SMT, <2>1, <2>2, LoaderAssumption DEF BuffType
<1>5. MatrixType
  <2>1. 0 \in Byte
    BY SMT DEF Byte
  <2> QED BY <2>1 DEF Init, PreviewInit, MatrixType
<1> QED BY <1>1, <1>2, <1>3, <1>4, <1>5 DEF TypeInv

LEMMA CliTypeNext == TypeInv /\ [Next]_vars => CliType'
<1> SUFFICES ASSUME TypeInv, [Next]_vars PROVE CliType'
  OBVIOUS
<1>1. DelayInv /\ i \in Nat /\ i <= argc + 1 /\ argc \in Nat /\ delay \in Int
  <2>1. argc \in Nat /\ i \in 0..argc+1 /\ delay \in Int
    BY DEF TypeInv, CliType, DelayInv, argc
  <2> QED BY SMT, <2>1 DEF TypeInv
<1>2. argv' = argv
  BY Starving
     DEF Next, Main, Help, NextArgument, NoProgram, CannotOpen, Opened, Options, Boot, init_ui,
         InitDevice, init_device, CreateBus, RegisterDevice, CreateEntry, ResetCpu, OpenFile,
         Load, NoMemoryForProgram, CreateMachine, Turn, Flush, Stop, Ended, Goto, vars, clivars
<1>3. argc' = argc
  BY <1>2 DEF argc
<1>4. CASE NextArgument
  <2>1. i < argc /\ i' = i + 1 /\ delay' = delay
    BY <1>4 DEF NextArgument
  <2>2. i + 1 \in 0..argc+1
    BY SMT, <1>1, <2>1
  <2> QED BY <1>1, <1>3, <2>1, <2>2 DEF CliType
<1>5. CASE Options
  <2>1. i < argc /\ ui_on = TRUE
    BY <1>1, <1>5 DEF Options, DelayInv, StageInv
  <2>2. /\ delay' \in {delay, strtol(Arg(AfterPath + 2))}
        /\ \/ i' = AfterPath + 2 /\ DelayAt(AfterPath + 1)
           \/ i' = AfterPath + 1
    BY <1>5, <2>1 DEF Options
  <2>3. AfterPath \in Nat /\ AfterPath <= argc
    BY SMT, <1>1, <2>1 DEF AfterPath
  <2>4. DelayAt(AfterPath + 1) => AfterPath + 1 + 1 < argc
    BY DEF DelayAt
  <2>5. i' \in 0..argc+1
    <3> HIDE DEF argc
    <3> QED BY SMT, <1>1, <2>2, <2>3, <2>4
  <2>6. strtol(Arg(AfterPath + 2)) \in Int
    <3>1. \A word \in DOMAIN Millis : Millis[word] \in Int
      BY StartupAssumption
    <3>2. 0 \in Int
      BY SMT
    <3> QED BY <3>1, <3>2 DEF strtol
  <2> QED BY <1>1, <1>3, <2>2, <2>5, <2>6 DEF CliType
<1>6. ASSUME UNCHANGED <<i, delay>> PROVE CliType'
  BY <1>3, <1>6 DEF TypeInv, CliType
<1>7. CASE Help \/ NoProgram \/ CannotOpen \/ Opened
  BY <1>6, <1>7 DEF Help, NoProgram, CannotOpen, Opened
<1>8. CASE init_ui \/ InitDevice \/ CreateBus \/ RegisterDevice
  BY <1>6, <1>8 DEF init_ui, InitDevice, init_device, CreateBus, RegisterDevice, Goto
<1>9. CASE CreateEntry \/ ResetCpu \/ OpenFile \/ Load
  BY <1>6, <1>9 DEF CreateEntry, ResetCpu, OpenFile, Load, Goto, clivars
<1>10. CASE NoMemoryForProgram \/ CreateMachine \/ Turn \/ Flush \/ Stop
  BY <1>6, <1>10 DEF NoMemoryForProgram, CreateMachine, Turn, Flush, Stop, Goto, Report
<1>11. CASE Starves
  BY <1>6, <1>11, Starving
<1>12. CASE UNCHANGED vars
  BY <1>6, <1>12 DEF vars, clivars
<1> QED BY <1>4, <1>5, <1>7, <1>8, <1>9, <1>10, <1>11, <1>12 DEF Next, Main, Boot, Ended

(* Only a dword inside RAM is taken by it, and only devices take writes.   *)
LEMMA TakersAreDevices ==
  ASSUME map = Registration, NEW addr \in Nat
  PROVE  /\ Taker(addr) \in Device \cup {"nobody"}
         /\ Taker(addr) = "ram" => addr <= RAM_SIZE - 4
<1>1. /\ DOMAIN Registration = 1..4
      /\ \A n \in 1..4 : Registration[n] \in Device
  BY SMT DEF Registration, Device
<1>2. Takers(addr) \subseteq Nat /\ Takers(addr) \subseteq 1..4
  BY SMT, <1>1 DEF Takers
<1>3. CASE Takers(addr) = {}
  BY <1>3 DEF Taker
<1>4. CASE Takers(addr) # {}
  <2> DEFINE n == Least(Takers(addr))
  <2>1. n \in Takers(addr)
    BY <1>2, <1>4, LeastOfSet
  <2>2. Taker(addr) = Registration[n]
    BY <1>4 DEF Taker, Least
  <2> HIDE DEF n
  <2>3. Registration[n] = "ram" => Accepts("ram", addr)
    BY <2>1 DEF Takers
  <2> QED BY <1>1, <1>2, <2>1, <2>2, <2>3 DEF Accepts
<1> QED BY <1>3, <1>4

LEMMA DwordType ==
  ASSUME map = Registration, BusType, NEW bytes, \A n \in 1..4 : bytes[n] \in Byte,
         NEW addr \in Nat, bus_write(bytes, addr)
  PROVE  BusType'
<1>1. /\ map' = map /\ ram' = IF Taker(addr) = "ram" THEN Stored(bytes, addr) ELSE ram
      /\ strays' = strays \cup ({Taker(addr)} \ {"ram", "nobody"})
  BY DEF bus_write
<1>2. strays' \subseteq Device
  BY <1>1, TakersAreDevices DEF BusType
<1>3. CASE Taker(addr) = "ram"
  <2>1. addr <= RAM_SIZE - 4
    BY <1>3, TakersAreDevices
  <2>2. ASSUME NEW a \in addr..addr+3
        PROVE  a \in Address /\ a - addr + 1 \in 1..4
    BY SMT, <2>1, <2>2, MemoryMapAssumption DEF Address
  <2>3. ASSUME NEW a \in DOMAIN ram'
        PROVE  a \in Address /\ ram'[a] \in Byte
    BY <1>1, <1>3, <2>2, <2>3 DEF Stored, BusType
  <2> QED BY <1>1, <1>2, <2>3 DEF BusType
<1>4. CASE Taker(addr) # "ram"
  BY <1>1, <1>2, <1>4 DEF BusType
<1> QED BY <1>3, <1>4

LEMMA DescriptorBytes == \A n \in 1..5, k \in 1..8 : Descriptor(Rows[n])[k] \in Byte
<1> DEFINE B(n) == \A k \in 1..8 : Descriptor(Rows[n])[k] \in Byte
<1>1. B(1)
  BY SMTT(30) DEF Descriptor, create_descriptor, Rows, Row, Byte,
             KERNEL_CODE_RX, USER_CODE_RX, USER_DATA_RW, STACK, DB_32_BIT
<1>2. B(2)
  BY SMTT(30) DEF Descriptor, create_descriptor, Rows, Row, Byte,
             KERNEL_CODE_RX, USER_CODE_RX, USER_DATA_RW, STACK, DB_32_BIT
<1>3. B(3)
  BY SMTT(30) DEF Descriptor, create_descriptor, Rows, Row, Byte,
             KERNEL_CODE_RX, USER_CODE_RX, USER_DATA_RW, STACK, DB_32_BIT
<1>4. B(4)
  BY SMTT(30) DEF Descriptor, create_descriptor, Rows, Row, Byte,
             KERNEL_CODE_RX, USER_CODE_RX, USER_DATA_RW, STACK, DB_32_BIT
<1>5. B(5)
  BY SMTT(30) DEF Descriptor, create_descriptor, Rows, Row, Byte,
             KERNEL_CODE_RX, USER_CODE_RX, USER_DATA_RW, STACK, DB_32_BIT
<1> HIDE DEF B
<1>6. \A n \in 1..5 : B(n)
  BY SMT, <1>1, <1>2, <1>3, <1>4, <1>5
<1> QED BY <1>6 DEF B

LEMMA BusTypeNext == TypeInv /\ [Next]_vars => BusType'
<1> SUFFICES ASSUME TypeInv, [Next]_vars PROVE BusType'
  OBVIOUS
<1>1. BusType /\ RamInv /\ StageInv /\ TextInv /\ CopyInv
  BY DEF TypeInv, RamInv
<1>2. ASSUME UNCHANGED <<map, ram, strays>> PROVE BusType'
  BY <1>1, <1>2 DEF BusType
<1>3. Len(arr) \in Nat /\ \A n \in 1..Len(arr) : arr[n] \in Byte
  BY <1>1, LenProperties, ElementOfSeq DEF TextInv
<1>4. 0 \in Byte
  BY SMT DEF Byte
<1>5. CASE Load
  <2>1. CASE CopyDword
    <3>1. /\ phase = "copy" /\ offset + 4 < Len(arr)
          /\ bus_write(SubSeq(arr, offset + 1, offset + 4), USER_CODE_BASE_ADDR + offset)
      BY <2>1 DEF CopyDword
    <3>2. offset \in Nat /\ map = Registration
      BY <1>1, <3>1 DEF CopyInv, StageInv
    <3>3. /\ offset + 4 <= Len(arr) /\ \A n \in 1..4 : offset + n \in 1..Len(arr)
          /\ USER_CODE_BASE_ADDR + offset \in Nat
      BY SMT, <1>3, <3>1, <3>2 DEF USER_CODE_BASE_ADDR
    <3>4. ASSUME NEW n \in 1..4
          PROVE  SubSeq(arr, offset + 1, offset + 4)[n] = arr[offset + n]
      <4>1. \A k \in 1..Len(arr) : arr[k] \in Byte
        BY <1>3
      <4>2. offset \in Nat /\ Len(arr) \in Nat /\ offset + 4 <= Len(arr)
        BY <1>3, <3>2, <3>3
      <4> QED BY ONLY <4>1, <4>2, n \in 1..4, DwordElement
    <3>6. \A n \in 1..4 : SubSeq(arr, offset + 1, offset + 4)[n] \in Byte
      BY <1>3, <3>3, <3>4
    <3> QED BY <1>1, <3>1, <3>2, <3>3, <3>6, DwordType
  <2>2. CASE CopyRemainder
    <3>1. /\ phase = "copy"
          /\ \/ bus_write(Remainder, USER_CODE_BASE_ADDR + offset)
             \/ UNCHANGED busvars
      BY <2>2 DEF CopyRemainder
    <3>2. offset \in Nat /\ map = Registration
      BY <1>1, <3>1 DEF CopyInv, StageInv
    <3>3. USER_CODE_BASE_ADDR + offset \in Nat
      BY SMT, <3>2 DEF USER_CODE_BASE_ADDR
    <3>4. ASSUME NEW n \in 1..4 PROVE Remainder[n] \in Byte
      <4>1. offset + n <= Len(arr) => offset + n \in 1..Len(arr)
        BY SMT, <1>3, <3>2
      <4> QED BY <1>3, <1>4, <4>1 DEF Remainder
    <3>5. CASE bus_write(Remainder, USER_CODE_BASE_ADDR + offset)
      BY <1>1, <3>2, <3>3, <3>4, <3>5, DwordType
    <3>6. CASE UNCHANGED busvars
      BY <1>2, <3>6 DEF busvars
    <3> QED BY <3>1, <3>5, <3>6
  <2>3. CASE ReadLine \/ ScanByte \/ EndOfLine \/ EndOfFile
    BY <1>2, <2>3 DEF ReadLine, ScanByte, EndOfLine, EndOfFile, busvars
  <2> QED BY <1>5, <2>1, <2>2, <2>3 DEF Load
<1>6. CASE RegisterDevice
  <2>1. /\ stage = "map" /\ map' = Append(map, Registration[Len(map) + 1])
        /\ UNCHANGED <<ram, strays>>
    BY <1>6 DEF RegisterDevice, bus_register
  <2>2. map \in Seq(Device) /\ Len(map) < 4
    BY <1>1, <2>1 DEF StageInv, TablesInv
  <2>3. map' \in Seq(Device)
    BY <2>1, <2>2, Registered, AppendProperties
  <2> QED BY <1>1, <2>1, <2>3 DEF BusType
<1>7. CASE CreateEntry
  <2> DEFINE addr == RowAddress(next_row)
             d == Descriptor(Rows[next_row])
  <2>1. stage = "gdt" /\ UNCHANGED <<map, strays>>
    BY <1>7 DEF CreateEntry
  <2>2. next_row \in 1..5 /\ map = Registration
    BY <1>1, <2>1 DEF StageInv, TablesInv
  <2>3. \/ /\ Taker(addr + 4) = "ram"
           /\ ram' = [a \in DOMAIN ram \cup (addr..addr+7) |->
                        IF a \in addr..addr+7 THEN d[a - addr + 1] ELSE ram[a]]
        \/ UNCHANGED ram
    BY <1>7 DEF CreateEntry
  <2>4. addr \in Nat /\ addr + 4 \in Nat
    BY SMT, <2>2 DEF RowAddress, GDT_BASE_ADDR, GDT_DESC_SIZE
  <2>5. Taker(addr + 4) = "ram" => addr + 4 <= RAM_SIZE - 4
    BY <2>2, <2>4, TakersAreDevices
  <2>6. \A k \in 1..8 : d[k] \in Byte
    BY <2>2, DescriptorBytes
  <2> HIDE DEF addr, d
  <2>7. ASSUME NEW a \in addr..addr+7, addr + 4 <= RAM_SIZE - 4
        PROVE  a \in Address /\ a - addr + 1 \in 1..8
    BY SMT, <2>4, <2>7, MemoryMapAssumption DEF Address
  <2>8. ASSUME NEW a \in DOMAIN ram' PROVE a \in Address /\ ram'[a] \in Byte
    BY <1>1, <2>3, <2>5, <2>6, <2>7, <2>8 DEF BusType
  <2> QED BY <1>1, <2>1, <2>8 DEF BusType
<1>8. CASE OpenFile \/ UNCHANGED <<text, busvars, loadvars>>
  BY <1>2, <1>8 DEF OpenFile, StartLoading, busvars
<1> QED BY <1>5, <1>6, <1>7, <1>8, QuietSteps

LEMMA BuffTypeNext == TypeInv /\ [Next]_vars => BuffType'
<1> SUFFICES ASSUME TypeInv, [Next]_vars PROVE BuffType'
  OBVIOUS
<1>1. BuffType /\ rest \in Seq(Character) /\ buff \in Seq(Character) /\ phase \in Phases
  BY DEF TypeInv, RamInv, TextInv, StageInv
<1>2. ASSUME buff' = buff PROVE BuffType'
  BY <1>1, <1>2 DEF BuffType
<1>3. CASE Load
  <2>1. CASE ReadLine
    <3>1. rest # <<>> /\ buff' = SubSeq(rest, 1, Chunk(rest))
      BY <2>1 DEF ReadLine
    <3>2. Chunk(rest) \in 1..Len(rest) /\ Chunk(rest) <= BUFF_SIZE - 1 /\ Len(rest) \in Nat
      BY <1>1, <3>1, ChunkRange, LenProperties
    <3>3. Len(buff') = Chunk(rest)
      <4>1. \A n \in 1..Chunk(rest) : n \in 1..Len(rest)
        BY SMT, <3>2
      <4>2. \A n \in 1..Chunk(rest) : rest[n] \in Character
        BY <1>1, <4>1, ElementOfSeq
      <4>3. 1 \in Int /\ Chunk(rest) \in Int /\ 1 <= Chunk(rest) /\ Chunk(rest) - 1 + 1 = Chunk(rest)
        BY SMT, <3>2
      <4> QED BY <3>1, <4>2, <4>3, SubSeqProperties
    <3> QED BY SMT, <3>2, <3>3, LoaderAssumption DEF BuffType
  <2>2. CASE ScanByte
    <3>1. buff' = SubSeq(buff, Scanned(buff) + 1, Len(buff))
      BY <2>2 DEF ScanByte
    <3>2. Scanned(buff) \in Nat /\ Scanned(buff) <= Len(buff) /\ Len(buff) \in Nat
      BY SMT, <1>1, ScannedDigits, LenProperties
    <3>3. Len(buff') <= Len(buff) /\ Len(buff') \in Nat
      <4>1. \A n \in Scanned(buff)+1..Len(buff) : n \in 1..Len(buff)
        BY SMT, <3>2
      <4>2. \A n \in Scanned(buff)+1..Len(buff) : buff[n] \in Character
        BY <1>1, <4>1, ElementOfSeq
      <4>3. Scanned(buff) + 1 \in Int /\ Len(buff) \in Int
        BY SMT, <3>2
      <4>4. Len(buff') = IF Scanned(buff) + 1 <= Len(buff)
                         THEN Len(buff) - (Scanned(buff) + 1) + 1 ELSE 0
        BY <3>1, <4>2, <4>3, SubSeqProperties
      <4> QED BY SMT, <3>2, <4>4
    <3> QED BY SMT, <1>1, <3>2, <3>3, LoaderAssumption DEF BuffType
  <2>3. CASE EndOfLine
    <3>1. buff' = <<>> /\ Len(<<>>) = 0
      BY <2>3, EmptySeq DEF EndOfLine
    <3> QED BY SMT, <3>1, LoaderAssumption DEF BuffType
  <2>4. CASE EndOfFile \/ CopyDword \/ CopyRemainder
    BY <1>2, <2>4 DEF EndOfFile, CopyDword, CopyRemainder
  <2> QED BY <1>3, <2>1, <2>2, <2>3, <2>4 DEF Load
<1>4. CASE OpenFile \/ RegisterDevice \/ CreateEntry \/ UNCHANGED <<text, busvars, loadvars>>
  BY <1>2, <1>4 DEF OpenFile, StartLoading, RegisterDevice, CreateEntry, loadvars
<1> QED BY <1>3, <1>4, QuietSteps

LEMMA MatrixFilled ==
  ASSUME NEW cursor \in Nat, arr \in Seq(Byte), repopulate_matrix(arr, cursor)
  PROVE  MatrixType'
<1>1. Len(arr) \in Nat /\ 0 \in Byte
  BY SMT, LenProperties DEF Byte
<1>2. ASSUME NEW n \in 0..MatrixSize-1, n < Filled(Len(arr), cursor)
      PROVE  arr[cursor + n + 1] \in Byte
  <2>1. cursor + n + 1 \in 1..Len(arr)
    BY SMT, <1>1, <1>2, PreviewAssumption DEF Filled
  <2> QED BY <2>1, ElementOfSeq
<1> QED BY <1>1, <1>2 DEF repopulate_matrix, MatrixType

LEMMA MatrixTypeNext == TypeInv /\ WindowInv /\ [Next]_vars => MatrixType'
<1> SUFFICES ASSUME TypeInv, WindowInv, [Next]_vars PROVE MatrixType'
  OBVIOUS
<1>1. MatrixType /\ arr \in Seq(Byte) /\ StageInv
  BY DEF TypeInv, RamInv, TextInv
<1>2. ASSUME UNCHANGED preview_matrix PROVE MatrixType'
  BY <1>1, <1>2 DEF MatrixType
<1>3. CASE EndOfFile /\ SetProgram(arr)
  <2>1. phase = "read" /\ repopulate_matrix(arr, program_cursor)
    BY <1>3 DEF EndOfFile, SetProgram
  <2>2. program_cursor \in Nat
    BY <2>1 DEF WindowInv
  <2> QED BY <1>1, <2>1, <2>2, MatrixFilled
<1>4. CASE Flush
  <2>1. stage = "flush" /\ ((repopulate_matrix(arr, ui_eip)) \/ UNCHANGED preview_matrix)
    BY <1>4 DEF Flush, FlushPreview, previewvars
  <2>2. ui_eip \in Nat
    BY <1>1, <2>1 DEF WindowInv, StageInv
  <2> QED BY <1>1, <1>2, <2>1, <2>2, MatrixFilled
<1>5. CASE Turn
  <2>1. UNCHANGED preview_matrix
    BY <1>5 DEF Turn, CopyCpu, previewvars
  <2> QED BY <1>2, <2>1
<1>6. CASE UNCHANGED previewvars
  BY <1>2, <1>6 DEF previewvars
<1>7. CASE Main \/ Boot \/ Stop
  BY <1>3, <1>6, <1>7, Starving
     DEF Main, Boot, Stop, init_ui, InitDevice, CreateBus, RegisterDevice, CreateEntry,
         ResetCpu, OpenFile, Load, NoMemoryForProgram, CreateMachine, RestUnchanged
<1>8. CASE UNCHANGED vars
  BY <1>6, <1>8 DEF vars
<1> QED BY <1>4, <1>5, <1>7, <1>8 DEF Next, Ended

LEMMA TypeNext == TypeInv /\ PreviewInv /\ [Next]_vars => TypeInv'
  BY RamNext, DelayNext, CliTypeNext, BusTypeNext, BuffTypeNext, MatrixTypeNext
     DEF TypeInv, PreviewInv

(* The variables of the startup keep their types: in particular RAM holds  *)
(* bytes, at its own addresses, and a chunk fits into parse_file's buffer. *)
THEOREM StartupTypeCorrect == Spec => []StartupTypeOK
<1>1. TypeInv => StartupTypeOK
  <2> SUFFICES ASSUME TypeInv PROVE StartupTypeOK
    OBVIOUS
  <2>1. StageInv /\ TextInv /\ CopyInv /\ CliType /\ BusType /\ BuffType /\ MatrixType
    BY DEF TypeInv, RamInv
  <2>2. offset \in 0..Len(arr)
    <3>1. Len(arr) \in Nat
      BY <2>1, LenProperties DEF TextInv
    <3>2. offset \in Nat /\ (offset = 0 \/ offset <= Len(arr) \/ offset = Len(arr))
      BY <2>1 DEF CopyInv, StageInv, Phases
    <3> QED BY SMT, <3>1, <3>2
  <2> QED BY <2>1, <2>2
          DEF StartupTypeOK, StageInv, Stages, Early, Phases, TextInv, CliType, BusType,
              BuffType, MatrixType
<1>2. Init => TypeInv /\ PreviewInv
  BY TypeInit, WindowInit
<1>3. TypeInv /\ PreviewInv /\ [Next]_vars => (TypeInv /\ PreviewInv)'
  BY TypeNext, WindowNext
<1> QED BY <1>1, <1>2, <1>3, PTL DEF Spec

-----------------------------------------------------------------------------
(* What comes back out of a descriptor: the limit and the flags always,    *)
(* the base only if its middle byte is zero, and a bit of the base in      *)
(* place of the D bit.                                                     *)

(* The limit a descriptor was created with is read back whole: the loader  *)
(* of the segment registers and the bounds checks see what gdt.c wrote.    *)
THEOREM LimitReadBack ==
  ASSUME NEW base \in Nat, base < 4294967296,
         NEW limit \in Nat, limit < 1048576,
         NEW access \in Nat, NEW flags \in Nat, flags < 16
  PROVE  get_limit(create_descriptor(base, limit, access, flags)) = limit
<1> DEFINE n == limit \div 65536
           d == create_descriptor(base, limit, access, flags)
<1>1. n \in Nat /\ n < 16
  BY SMT
<1>2. (flags * 16 + n) % 16 = n
  BY SMT, <1>1
<1>3. n % 16 = n /\ flags % 16 = flags
  BY SMT, <1>1
<1>4. d[1] = limit % 256 /\ d[2] = (limit \div 256) % 256
  BY SMT DEF create_descriptor
<1>5. d[7] = flags * 16 + n
  BY SMT, <1>3 DEF create_descriptor
<1>6. (limit % 256) + 256 * ((limit \div 256) % 256) + 65536 * n = limit
  BY SMT
<1> QED BY SMT, <1>2, <1>4, <1>5, <1>6 DEF get_limit

(* The access byte and the granularity flags come back as they were. *)
THEOREM FlagReadBack ==
  ASSUME NEW base \in Nat, base < 4294967296,
         NEW limit \in Nat, limit < 1048576,
         NEW access \in Nat, NEW flags \in Nat, flags < 16
  PROVE  get_flag(create_descriptor(base, limit, access, flags)) = access + 4096 * flags
<1> DEFINE n == (limit \div 65536) % 16
           d == create_descriptor(base, limit, access, flags)
<1>1. n \in Nat /\ n < 16
  BY SMT
<1>2. (flags * 16 + n) \div 16 = flags
  BY SMT, <1>1
<1>3. flags % 16 = flags
  BY SMT
<1>4. d[6] = access /\ d[7] = flags * 16 + n
  BY SMT, <1>3 DEF create_descriptor
<1> QED BY SMT, <1>2, <1>4 DEF get_flag

(* What is lost of a base is its middle byte, so a segment is where its    *)
(* descriptor says exactly if that byte is zero.  All five rows of         *)
(* create_gdt are of this kind; a segment above 64 KiB would not be.       *)
THEOREM BaseReadBack ==
  ASSUME NEW base \in Nat, base < 4294967296,
         NEW limit \in Nat, limit < 1048576,
         NEW access \in Nat, NEW flags \in Nat, flags < 16
  PROVE  LET d   == create_descriptor(base, limit, access, flags)
             mid == (base \div 65536) % 256
         IN  /\ get_base(d) = base - 65536 * mid
             /\ get_base(d) = base <=> mid = 0
<1> DEFINE d == create_descriptor(base, limit, access, flags)
           mid == (base \div 65536) % 256
<1>1. d[3] = base % 256 /\ d[4] = (base \div 256) % 256
  BY SMT DEF create_descriptor
<1>2. d[8] = (base \div 16777216) % 256
  BY SMT DEF create_descriptor
<1>3. (base % 256) + 256 * ((base \div 256) % 256)
        + 16777216 * ((base \div 16777216) % 256) = base - 65536 * mid
  BY SMT
<1>4. get_base(d) = base - 65536 * mid
  BY SMT, <1>1, <1>2, <1>3 DEF get_base
<1>5. base \in Int /\ mid \in Int
  BY SMT
<1>6. base - 65536 * mid = base <=> mid = 0
  BY SMT, <1>5
<1> QED BY SMT, <1>4, <1>6

(* The bit that decides the operand size of JMP and CALL is bit 6 of the   *)
(* base, whatever the D bit of the descriptor says: with the bases of      *)
(* create_gdt it is 0, and operands are 16 bits wide.                      *)
THEOREM OperandSizeIgnoresFlags ==
  ASSUME NEW base \in Nat, base < 4294967296,
         NEW limit \in Nat, limit < 1048576,
         NEW access \in Nat, NEW flags \in Nat, flags < 16
  PROVE  d_bit(create_descriptor(base, limit, access, flags)) = (base \div 64) % 2
<1> DEFINE d == create_descriptor(base, limit, access, flags)
<1>1. d[3] = base % 256
  BY SMT DEF create_descriptor
<1>2. ((base % 256) \div 64) % 2 = (base \div 64) % 2
  BY SMT
<1> QED BY SMT, <1>1, <1>2 DEF d_bit

===============================================================================
