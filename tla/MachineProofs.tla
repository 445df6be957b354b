---------------------------- MODULE MachineProofs ----------------------------
(***************************************************************************)
(* Proofs about the running machine, for any buffer size, number of keys,  *)
(* screen size and refresh rate.                                           *)
(*                                                                         *)
(* The loop is first shown to drive each device as the device's own        *)
(* specification allows (MachineDrivesKeyboard, MachineDrivesVga), which   *)
(* brings the devices' theorems to the machine.  The machine's own         *)
(* properties follow from three inductive invariants: KeyInv about the     *)
(* keyboard's path, PollInv about the guest's polling, AgeInv about the    *)
(* refresh.                                                                *)
(***************************************************************************)
EXTENDS Machine, DeviceProofs

(* What the invariants of the loop share: the types of its own variables.  *)
LoopTypeOK ==
  /\ pending \in [IRQ -> BOOLEAN]
  /\ clock \in 0..RefreshRate-1
  /\ phase \in Running \cup Stopped
  /\ typed \in 0..MaxKeys
  /\ read \in 0..typed
  /\ quitKey \in 0..typed
  /\ age \in Nat

(* The Boolean variables, apart from the rest for the provers' sake. *)
FlagTypeOK == altered_vram \in BOOLEAN /\ ended \in BOOLEAN

(* A turn of the clock. *)
LEMMA TickType ==
  ASSUME clock \in 0..RefreshRate-1, Tick
  PROVE  /\ clock' \in 0..RefreshRate-1
         /\ clock' = IF clock = RefreshRate-1 THEN 0 ELSE clock + 1
<1> DEFINE R == RefreshRate
<1>1. R \in Nat \ {0} /\ clock \in 0..R-1
  BY RefreshAssumption
<1>2. clock' = (clock + 1) % R
  BY DEF Tick
<1> HIDE DEF R
<1>3. CASE clock = R-1
  <2>1. (clock + 1) % R = 0
    BY <1>1, <1>3
  <2> QED
    BY <1>1, <1>2, <1>3, <2>1 DEF R
<1>4. CASE clock # R-1
  <2>1. clock + 1 \in 0..R-1
    BY <1>1, <1>4
  <2>2. (clock + 1) % R = clock + 1
    BY <1>1, <2>1
  <2> QED
    BY <1>1, <1>2, <1>4, <2>1, <2>2 DEF R
<1> QED
  BY <1>3, <1>4

(* The loop's own variables stay in their types. *)
THEOREM LoopTypeCorrect == Spec => [](LoopTypeOK /\ FlagTypeOK)
<1> USE RefreshAssumption, MaxKeysAssumption
<1>1. Init => LoopTypeOK /\ FlagTypeOK
  <2> SUFFICES ASSUME Init PROVE LoopTypeOK /\ FlagTypeOK
    OBVIOUS
  <2>1. pending \in [IRQ -> BOOLEAN]
    BY DEF Init
  <2>2. FlagTypeOK
    BY DEF Init, FlagTypeOK
  <2> QED
    BY <2>1, <2>2 DEF Init, LoopTypeOK, Running
<1>2. (LoopTypeOK /\ FlagTypeOK) /\ [Next]_vars => (LoopTypeOK /\ FlagTypeOK)'
  <2> SUFFICES ASSUME LoopTypeOK, FlagTypeOK, [Next]_vars
               PROVE  LoopTypeOK' /\ FlagTypeOK'
    OBVIOUS
  <2> USE DEF LoopTypeOK, FlagTypeOK, Running, Stopped, loopvars, uservars, histvars
  <2>1. ASSUME NEW isQuit \in BOOLEAN, Type(isQuit)
        PROVE  LoopTypeOK' /\ FlagTypeOK'
    BY <2>1 DEF Type
  <2>2. CASE EndOfProgram \/ Fetch \/ DecoderHang \/ Fail
    BY <2>2 DEF EndOfProgram, Fetch, DecoderHang, Fail
  <2>3. ASSUME NEW halts \in BOOLEAN, Retire(halts)
        PROVE  LoopTypeOK' /\ FlagTypeOK'
    <3>1. clock' \in 0..RefreshRate-1
      BY <2>3, TickType DEF Retire
    <3>2. FlagTypeOK'
      BY <2>3 DEF Retire, HandleVga
    <3>3. pending' \in [IRQ -> BOOLEAN]
      BY <2>3 DEF Retire
    <3> QED
      BY <2>3, <3>1, <3>2, <3>3 DEF Retire
  <2>4. CASE GetKey \/ GetNothing
    <3>1. pending' \in [IRQ -> BOOLEAN]
      BY <2>4 DEF GetKey, GetNothing
    <3>2. FlagTypeOK'
      BY <2>4 DEF GetKey, GetNothing
    <3> QED
      BY <2>4, <3>1, <3>2 DEF GetKey, GetNothing
  <2>5. CASE Timer
    <3>1. pending' \in [IRQ -> BOOLEAN]
      BY <2>5 DEF Timer
    <3>2. FlagTypeOK'
      BY <2>5 DEF Timer
    <3> QED
      BY <2>5, <3>1, <3>2 DEF Timer
  <2>6. CASE DrawScreen
    BY <2>6 DEF DrawScreen
  <2>7. CASE NextTurn
    <3>1. FlagTypeOK' /\ pending' = pending
      BY <2>7 DEF NextTurn
    <3>2. phase' \in Running \cup Stopped
      BY <2>7 DEF NextTurn
    <3>3. age' \in Nat
      BY <2>7 DEF NextTurn
    <3> QED
      BY <2>7, <3>1, <3>2, <3>3 DEF NextTurn
  <2>8. CASE GuestAccess
    BY <2>8 DEF GuestAccess, ReadKeyStatus, ReadKey, WriteKey, WriteVram
  <2>9. CASE UNCHANGED vars
    BY <2>9 DEF vars
  <2> QED
    BY <2>1, <2>2, <2>3, <2>4, <2>5, <2>6, <2>7, <2>8, <2>9
       DEF Next, Emulator, Done
<1> QED
  BY <1>1, <1>2, PTL DEF Spec

-----------------------------------------------------------------------------
(* Seen from the keyboard, the machine performs only the keyboard's own    *)
(* operations, so all that is proved of the keyboard holds of the machine. *)
THEOREM MachineDrivesKeyboard == Spec => DrivesKeyboard
<1> USE MaxKeysAssumption
<1>1. Init => KbInit
  BY DEF Init
<1>2. LoopTypeOK /\ [Next]_vars => [KbNext]_kbvars
  <2> SUFFICES ASSUME LoopTypeOK, [Next]_vars PROVE KbNext \/ UNCHANGED kbvars
    OBVIOUS
  <2>1. ASSUME NEW isQuit \in BOOLEAN, Type(isQuit) PROVE UNCHANGED kbvars
    BY <2>1 DEF Type
  <2>2. CASE EndOfProgram \/ Fetch \/ DecoderHang \/ Fail \/ GetNothing
             \/ Timer \/ DrawScreen \/ NextTurn
    BY <2>2 DEF EndOfProgram, Fetch, DecoderHang, Fail, GetNothing, Timer,
                DrawScreen, NextTurn
  <2>3. ASSUME NEW halts \in BOOLEAN, Retire(halts)
        PROVE  KbNext \/ UNCHANGED kbvars
    BY <2>3 DEF Retire, HandleKeyboard, KbNext
  <2>4. CASE GetKey
    <3>1. read + 1 \in Key
      BY <2>4 DEF GetKey, LoopTypeOK, Key
    <3> QED
      BY <2>4, <3>1 DEF GetKey, KbNext
  <2>5. CASE GuestAccess
    <3>1. NoKey \in Byte
      BY DEF NoKey, Byte
    <3> QED
      BY <2>5, <3>1 DEF GuestAccess, ReadKeyStatus, ReadKey, WriteKey,
                        WriteVram, KbNext
  <2>6. CASE UNCHANGED vars
    BY <2>6 DEF vars
  <2> QED
    BY <2>1, <2>2, <2>3, <2>4, <2>5, <2>6 DEF Next, Emulator, Done
<1> QED
  BY <1>1, <1>2, LoopTypeCorrect, PTL DEF Spec, DrivesKeyboard, KbSpec

(* A refresh is under way only in a flush that was asked for. *)
FlushInv == drawn # 0 => phase = "flush" /\ altered_vram

LEMMA FlushInvariant == Spec => []FlushInv
<1>1. Init => FlushInv
  BY DEF Init, VgaInit, FlushInv
<1>2. FlushInv /\ [Next]_vars => FlushInv'
  <2> SUFFICES ASSUME FlushInv, [Next]_vars PROVE FlushInv'
    OBVIOUS
  <2> USE DEF FlushInv, loopvars, vgavars
  <2>1. ASSUME NEW isQuit \in BOOLEAN, Type(isQuit) PROVE FlushInv'
    BY <2>1 DEF Type
  <2>2. CASE EndOfProgram \/ Fetch \/ DecoderHang \/ Fail
             \/ GetKey \/ GetNothing \/ Timer
    BY <2>2 DEF EndOfProgram, Fetch, DecoderHang, Fail, GetKey, GetNothing, Timer
  <2>3. ASSUME NEW halts \in BOOLEAN, Retire(halts) PROVE FlushInv'
    BY <2>3 DEF Retire
  <2>4. CASE DrawScreen
    BY <2>4 DEF DrawScreen
  <2>5. CASE NextTurn
    BY <2>5 DEF NextTurn, EndRefresh
  <2>6. CASE ReadKeyStatus \/ ReadKey \/ WriteKey
    BY <2>6 DEF ReadKeyStatus, ReadKey, WriteKey
  <2>7. CASE WriteVram
    <3>1. drawn' = drawn
      BY <2>7 DEF WriteVram, VramStore, StoreChar, StoreAttr, StoreCell, WriteCell
    <3> QED
      BY <2>7, <3>1 DEF WriteVram
  <2>8. CASE UNCHANGED vars
    BY <2>8 DEF vars
  <2> QED
    BY <2>1, <2>2, <2>3, <2>4, <2>5, <2>6, <2>7, <2>8
       DEF Next, Emulator, GuestAccess, Done
<1> QED
  BY <1>1, <1>2, PTL DEF Spec

(* Seen from the VGA device, no store falls in the middle of a refresh and *)
(* a refresh is walked to its end, so all that is proved of the device     *)
(* holds of the machine.                                                   *)
THEOREM MachineDrivesVga == Spec => DrivesVga
<1>1. Init => VgaInit
  BY DEF Init
<1>2. FlushInv /\ [Next]_vars => [VgaNext]_vgavars
  <2> SUFFICES ASSUME FlushInv, [Next]_vars PROVE VgaNext \/ UNCHANGED vgavars
    OBVIOUS
  <2>1. ASSUME NEW isQuit \in BOOLEAN, Type(isQuit) PROVE UNCHANGED vgavars
    BY <2>1 DEF Type
  <2>2. CASE EndOfProgram \/ Fetch \/ DecoderHang \/ Fail
             \/ GetKey \/ GetNothing \/ Timer
    BY <2>2 DEF EndOfProgram, Fetch, DecoderHang, Fail, GetKey, GetNothing, Timer
  <2>3. ASSUME NEW halts \in BOOLEAN, Retire(halts) PROVE UNCHANGED vgavars
    BY <2>3 DEF Retire
  <2>4. CASE DrawScreen
    BY <2>4 DEF DrawScreen, VgaNext
  <2>5. CASE NextTurn
    BY <2>5 DEF NextTurn, VgaNext
  <2>6. CASE ReadKeyStatus \/ ReadKey \/ WriteKey
    BY <2>6 DEF ReadKeyStatus, ReadKey, WriteKey
  <2>7. CASE WriteVram
    BY <2>7 DEF WriteVram, FlushInv, VgaNext
  <2>8. CASE UNCHANGED vars
    BY <2>8 DEF vars
  <2> QED
    BY <2>1, <2>2, <2>3, <2>4, <2>5, <2>6, <2>7, <2>8
       DEF Next, Emulator, GuestAccess, Done
<1> QED
  BY <1>1, <1>2, FlushInvariant, PTL DEF Spec, DrivesVga, VgaSpec

(* The device theorems, brought to the machine. *)
LEMMA DevicesCorrect == Spec => [](KbTypeOK /\ VgaInv)
<1> QED
  BY MachineDrivesKeyboard, KeyboardTypeCorrect, MachineDrivesVga,
     VgaInvariant, PTL DEF DrivesKeyboard, DrivesVga

-----------------------------------------------------------------------------
(* The keyboard's path.  An instruction executes only before the program   *)
(* has ended; until then the queue is a mailbox and no key is lost.        *)
KeyInv ==
  /\ phase = "exec" => ~ended
  /\ delivered \in Nat
  /\ QueueIsMailbox
  /\ NoKeyLost

(* The interrupt of a key delivers that key and empties the queue. *)
LEMMA HandlerTakesMail ==
  ASSUME LoopTypeOK, KbTypeOK, KeyInv, NEW halts \in BOOLEAN, Retire(halts)
  PROVE  /\ keystrokes' = 0
         /\ delivered' = read
         /\ pending["KB"] => kread' = read /\ status' = TRUE /\ read = delivered + 1
         /\ ~pending["KB"] => UNCHANGED <<kread, status, delivered>>
<1> USE BufSizeAssumption DEF KeyInv, QueueIsMailbox, NoKeyLost
<1>1. ~ended /\ keystrokes \in Nat /\ keystrokes <= 1 /\ delivered \in Nat
  BY DEF Retire, KbTypeOK
<1>2. CASE pending["KB"]
  <2>1. keystrokes = 1 /\ buffer[0] = read
    BY <1>1, <1>2
  <2>2. ~DequeueRefused /\ Dequeued = read
    BY <2>1 DEF DequeueRefused, Dequeued
  <2>3. KeyboardHandler /\ delivered' = read
    BY <1>2, <2>2 DEF Retire, HandleKeyboard
  <2> QED
    BY <1>1, <1>2, <2>1, <2>2, <2>3 DEF KeyboardHandler, KeyboardWrite
<1>3. CASE ~pending["KB"]
  <2>1. keystrokes = 0 /\ delivered = read
    BY <1>1, <1>3
  <2>2. UNCHANGED <<kbvars, delivered>>
    BY <1>3 DEF Retire, HandleKeyboard
  <2> QED
    BY <1>3, <2>1, <2>2 DEF kbvars
<1> QED
  BY <1>2, <1>3

(* Putting a key in the empty queue: it is the one key there. *)
LEMMA GetKeyMails ==
  ASSUME LoopTypeOK, KbTypeOK, KeyInv, GetKey, ~ended
  PROVE  keystrokes' = 1 /\ buffer'[0] = read' /\ pending'["KB"]
<1> USE BufSizeAssumption DEF GetKey
<1>1. keystrokes = 0
  BY DEF KeyInv, QueueIsMailbox
<1>2. keystrokes' = 1 /\ buffer' = ShiftIn(read + 1)
  BY <1>1 DEF Enqueue
<1>3. ShiftIn(read + 1)[0] = read + 1
  BY DEF ShiftIn
<1>4. pending'["KB"]
  BY DEF LoopTypeOK, IRQ
<1> QED
  BY <1>2, <1>3, <1>4

LEMMA KeyInvariant == Spec => []KeyInv
<1>1. Init => KeyInv
  BY DEF Init, KbInit, NoKey, KeyInv, QueueIsMailbox, NoKeyLost, IRQ
<1>2. LoopTypeOK /\ KbTypeOK /\ KeyInv /\ [Next]_vars => KeyInv'
  <2> SUFFICES ASSUME LoopTypeOK, KbTypeOK, KeyInv, [Next]_vars
               PROVE  KeyInv'
    OBVIOUS
  <2> USE DEF KeyInv, QueueIsMailbox, NoKeyLost, kbvars, loopvars, uservars, histvars
  <2>1. ASSUME NEW isQuit \in BOOLEAN, Type(isQuit) PROVE KeyInv'
    BY <2>1 DEF Type
  <2>2. CASE EndOfProgram \/ Fetch \/ DecoderHang \/ Fail
    BY <2>2 DEF EndOfProgram, Fetch, DecoderHang, Fail
  <2>3. ASSUME NEW halts \in BOOLEAN, Retire(halts) PROVE KeyInv'
    <3>1. keystrokes' = 0 /\ delivered' = read /\ read' = read
      BY <2>3, HandlerTakesMail DEF Retire
    <3>2. ~pending'["KB"] /\ phase' = "getch" /\ read \in Nat
      BY <2>3 DEF Retire, IRQ, LoopTypeOK
    <3> QED
      BY <3>1, <3>2
  <2>4. CASE GetKey
    <3>1. /\ read' = read + 1 /\ phase' = "timer"
          /\ UNCHANGED <<ended, delivered>>
      BY <2>4 DEF GetKey
    <3>2. CASE ended
      BY <3>1, <3>2
    <3>3. CASE ~ended
      <4>1. keystrokes' = 1 /\ buffer'[0] = read' /\ pending'["KB"]
        BY <2>4, <3>3, GetKeyMails
      <4>2. keystrokes = 0 /\ delivered = read
        BY <2>4, <3>3 DEF GetKey
      <4> QED
        BY <3>1, <4>1, <4>2
    <3> QED
      BY <3>2, <3>3
  <2>5. CASE GetNothing
    BY <2>5 DEF GetNothing
  <2>6. CASE Timer
    <3>1. pending'["KB"] = pending["KB"]
      BY <2>6 DEF Timer, LoopTypeOK, IRQ
    <3> QED
      BY <2>6, <3>1 DEF Timer
  <2>7. CASE DrawScreen
    BY <2>7 DEF DrawScreen
  <2>8. CASE NextTurn
    BY <2>8 DEF NextTurn
  <2>9. CASE GuestAccess
    BY <2>9 DEF GuestAccess, ReadKeyStatus, ReadKey, WriteKey, WriteVram,
                KeyboardReadData, GuestStoreKey
  <2>10. CASE UNCHANGED vars
    BY <2>10 DEF vars
  <2> QED
    BY <2>1, <2>2, <2>3, <2>4, <2>5, <2>6, <2>7, <2>8, <2>9, <2>10
       DEF Next, Emulator, Done
<1> QED
  BY <1>1, <1>2, LoopTypeCorrect, DevicesCorrect, PTL DEF Spec

(* Until the program ends, the queue holds a key exactly while its         *)
(* interrupt is pending: no handler runs on an empty queue, no key is      *)
(* refused.                                                                *)
THEOREM MailboxCorrect == Spec => []QueueIsMailbox
<1>1. KeyInv => QueueIsMailbox
  BY DEF KeyInv
<1> QED
  BY <1>1, KeyInvariant, PTL

(* Until the program ends, every key read is delivered or in the queue. *)
THEOREM NoKeyIsLost == Spec => []NoKeyLost
<1>1. KeyInv => NoKeyLost
  BY DEF KeyInv
<1> QED
  BY <1>1, KeyInvariant, PTL

(* The register receives the user's keys in turn, none skipped or twice. *)
THEOREM KeysDeliveredInOrder == Spec => DeliveredInOrder
<1>1. LoopTypeOK /\ KbTypeOK /\ KeyInv /\ [Next]_vars
        => [delivered' # delivered => delivered' = delivered + 1]_vars
  <2> SUFFICES ASSUME LoopTypeOK, KbTypeOK, KeyInv, Next,
                      delivered' # delivered
               PROVE  delivered' = delivered + 1
    OBVIOUS
  <2> USE DEF histvars
  <2>1. ASSUME NEW halts \in BOOLEAN, Retire(halts)
        PROVE  delivered' = delivered + 1
    BY <2>1, HandlerTakesMail
  <2>2. ASSUME NEW isQuit \in BOOLEAN, Type(isQuit) PROVE FALSE
    BY <2>2 DEF Type
  <2>3. CASE EndOfProgram \/ Fetch \/ DecoderHang \/ Fail \/ GetKey
             \/ GetNothing \/ Timer \/ DrawScreen \/ NextTurn
    BY <2>3 DEF EndOfProgram, Fetch, DecoderHang, Fail, GetKey, GetNothing,
                Timer, DrawScreen, NextTurn
  <2>4. CASE GuestAccess
    BY <2>4 DEF GuestAccess, ReadKeyStatus, ReadKey, WriteKey, WriteVram
  <2>5. CASE Done
    BY <2>5 DEF Done, vars
  <2> QED
    BY <2>1, <2>2, <2>3, <2>4, <2>5 DEF Next, Emulator
<1> QED
  BY <1>1, LoopTypeCorrect, DevicesCorrect, KeyInvariant, PTL
     DEF Spec, DeliveredInOrder

-----------------------------------------------------------------------------
(* The guest's polling.  The register holds no key or the last one         *)
(* delivered; an unread key in it is newer than any the guest has taken.   *)
PollInv ==
  /\ taken \in Nat /\ taken <= delivered
  /\ kread = NoKey \/ kread = delivered
  /\ status /\ kread \in Key => kread > taken
  /\ polled => status

LEMMA PollInvariant == Spec => []PollInv
<1> USE DEF NoKey
<1>1. Init => PollInv
  BY DEF Init, KbInit, PollInv, Key
<1>2. LoopTypeOK /\ KbTypeOK /\ KeyInv /\ PollInv /\ [Next]_vars => PollInv'
  <2> SUFFICES ASSUME LoopTypeOK, KbTypeOK, KeyInv, PollInv, [Next]_vars
               PROVE  PollInv'
    OBVIOUS
  <2> USE DEF PollInv, kbvars, loopvars, uservars, histvars
  <2>1. ASSUME NEW isQuit \in BOOLEAN, Type(isQuit) PROVE PollInv'
    BY <2>1 DEF Type
  <2>2. CASE EndOfProgram \/ Fetch \/ DecoderHang \/ Fail \/ GetNothing
             \/ Timer \/ DrawScreen \/ NextTurn
    BY <2>2 DEF EndOfProgram, Fetch, DecoderHang, Fail, GetNothing, Timer,
                DrawScreen, NextTurn
  <2>3. ASSUME NEW halts \in BOOLEAN, Retire(halts) PROVE PollInv'
    <3>1. /\ pending["KB"] => /\ kread' = read /\ status' = TRUE
                              /\ read = delivered + 1
          /\ ~pending["KB"] => UNCHANGED <<kread, status, delivered>>
          /\ delivered' = read
      BY <2>3, HandlerTakesMail
    <3>2. UNCHANGED <<taken, polled>> /\ delivered \in Nat
      BY <2>3 DEF Retire, KeyInv
    <3>3. CASE pending["KB"]
      BY <3>1, <3>2, <3>3
    <3>4. CASE ~pending["KB"]
      BY <3>1, <3>2, <3>4
    <3> QED
      BY <3>3, <3>4
  <2>4. CASE GetKey
    BY <2>4 DEF GetKey, Enqueue
  <2>5. CASE ReadKeyStatus
    BY <2>5 DEF ReadKeyStatus
  <2>6. CASE ReadKey
    <3>1. kread' = kread /\ ~status' /\ ~polled' /\ delivered' = delivered
      BY <2>6 DEF ReadKey, KeyboardReadData
    <3>2. taken' = IF polled /\ kread \in Key THEN kread ELSE taken
      BY <2>6 DEF ReadKey
    <3>3. CASE polled /\ kread \in Key
      <4>1. kread = delivered
        BY <3>3 DEF Key
      <4> QED
        BY <3>1, <3>2, <3>3, <4>1 DEF KeyInv
    <3>4. CASE ~(polled /\ kread \in Key)
      BY <3>1, <3>2, <3>4
    <3> QED
      BY <3>3, <3>4
  <2>7. CASE WriteKey
    <3>1. kread' = NoKey /\ UNCHANGED <<taken, delivered>>
      BY <2>7 DEF WriteKey, GuestStoreKey, KeyboardWrite
    <3>2. status' /\ (kread' \notin Key)
      BY <2>7, <3>1 DEF WriteKey, GuestStoreKey, KeyboardWrite, Key
    <3> QED
      BY <3>1, <3>2
  <2>8. CASE WriteVram
    BY <2>8 DEF WriteVram
  <2>9. CASE UNCHANGED vars
    BY <2>9 DEF vars
  <2> QED
    BY <2>1, <2>2, <2>3, <2>4, <2>5, <2>6, <2>7, <2>8, <2>9
       DEF Next, Emulator, GuestAccess, Done
<1> QED
  BY <1>1, <1>2, LoopTypeCorrect, DevicesCorrect, KeyInvariant, PTL DEF Spec

(* A guest that polls before it reads never gets the same key twice, nor   *)
(* an older key after a newer one, and finds the flag still up.            *)
THEOREM PollingIsFresh == Spec => PolledReadIsFresh
<1>1. PollInv => [ReadKey /\ polled => status /\ (kread \in Key => kread > taken)]_vars
  BY DEF PollInv
<1> QED
  BY <1>1, PollInvariant, PTL DEF PolledReadIsFresh

-----------------------------------------------------------------------------
(* The refresh.  Between two turns age is at most the clock (at most       *)
(* RefreshRate where the clock reads 0, which stands for both ends of its  *)
(* period), and a clock at 0 has raised the VGA interrupt or has just been *)
(* started.                                                                *)
PeriodEnd(c) == IF c = 0 THEN RefreshRate ELSE c

AgeInv ==
  /\ phase \in {"fetch", "exec"} =>
       /\ ~altered_vram
       /\ clock = 0 => pending["VGA"] \/ age = 0
  /\ phase = "flush" /\ clock = 0 => pending["VGA"]
  /\ age <= IF altered_vram THEN RefreshRate + 1 ELSE PeriodEnd(clock)

(* An instruction that retires adds 1 to the age, and asks for a refresh   *)
(* when the clock has run its period.                                      *)
LEMMA RetireKeepsAge ==
  ASSUME LoopTypeOK, FlagTypeOK, AgeInv, NEW halts \in BOOLEAN, Retire(halts)
  PROVE  AgeInv'
<1> DEFINE R == RefreshRate
<1>1. R \in Nat \ {0} /\ clock \in 0..R-1 /\ age \in Nat
  BY RefreshAssumption DEF LoopTypeOK
<1>2. clock' = IF clock = R-1 THEN 0 ELSE clock + 1
  BY TickType DEF Retire, LoopTypeOK
<1>3. phase' = "getch" /\ phase = "exec" /\ age' \in Nat /\ age' <= age + 1
  BY <1>1 DEF Retire
<1>4. /\ ~altered_vram
      /\ clock = 0 => pending["VGA"] \/ age = 0
      /\ age <= IF clock = 0 THEN R ELSE clock
  BY <1>3 DEF AgeInv, PeriodEnd
<1>5. altered_vram' = pending["VGA"]
  BY <1>4 DEF Retire, HandleVga, LoopTypeOK, IRQ
<1> HIDE DEF R
<1>6. age' <= IF altered_vram' THEN R + 1 ELSE IF clock' = 0 THEN R ELSE clock'
  <2>1. age' <= R + 1
    BY <1>1, <1>3, <1>4
  <2>2. ~pending["VGA"] => age' <= IF clock' = 0 THEN R ELSE clock'
    BY <1>1, <1>2, <1>3, <1>4
  <2> QED
    BY <1>5, <2>1, <2>2
<1> QED
  <2>1. phase' \notin {"fetch", "exec", "flush"}
    BY <1>3
  <2> QED
    BY <1>6, <2>1 DEF AgeInv, PeriodEnd, R

LEMMA AgeInvariant == Spec => []AgeInv
<1> USE RefreshAssumption
<1>1. Init => AgeInv
  BY DEF Init, AgeInv, PeriodEnd
<1>2. LoopTypeOK /\ FlagTypeOK /\ AgeInv /\ [Next]_vars => AgeInv'
  <2> SUFFICES ASSUME LoopTypeOK, FlagTypeOK, AgeInv, [Next]_vars
               PROVE  AgeInv'
    OBVIOUS
  <2> USE DEF AgeInv, PeriodEnd, loopvars, histvars
  <2>1. ASSUME NEW isQuit \in BOOLEAN, Type(isQuit) PROVE AgeInv'
    BY <2>1 DEF Type
  <2>2. CASE EndOfProgram \/ Fetch \/ DecoderHang \/ Fail
    BY <2>2 DEF EndOfProgram, Fetch, DecoderHang, Fail
  <2>3. ASSUME NEW halts \in BOOLEAN, Retire(halts) PROVE AgeInv'
    BY <2>3, RetireKeepsAge
  <2>4. CASE GetKey \/ GetNothing
    BY <2>4 DEF GetKey, GetNothing
  <2>5. CASE Timer
    <3>1. clock = 0 => pending'["VGA"]
      BY <2>5 DEF Timer, LoopTypeOK, IRQ
    <3> QED
      BY <2>5, <3>1 DEF Timer
  <2>6. CASE DrawScreen
    BY <2>6 DEF DrawScreen
  <2>7. CASE NextTurn
    <3>1. /\ ~altered_vram' /\ pending' = pending /\ clock' = clock
          /\ phase = "flush" /\ phase' \in {"off", "fetch"}
          /\ age' = IF altered_vram THEN 0 ELSE age
      BY <2>7 DEF NextTurn
    <3>2. age' <= PeriodEnd(clock')
      BY <3>1 DEF LoopTypeOK
    <3> QED
      BY <3>1, <3>2
  <2>8. CASE GuestAccess
    BY <2>8 DEF GuestAccess, ReadKeyStatus, ReadKey, WriteKey, WriteVram
  <2>9. CASE UNCHANGED vars
    BY <2>9 DEF vars
  <2> QED
    BY <2>1, <2>2, <2>3, <2>4, <2>5, <2>6, <2>7, <2>8, <2>9
       DEF Next, Emulator, Done
<1> QED
  BY <1>1, <1>2, LoopTypeCorrect, PTL DEF Spec

(* For every refresh rate, no store stays off the screen for more than     *)
(* RefreshRate + 1 instructions.                                           *)
THEOREM ScreenStaysRecent == Spec => []ScreenIsRecent
<1>1. LoopTypeOK /\ AgeInv => ScreenIsRecent
  <2> SUFFICES ASSUME LoopTypeOK, AgeInv PROVE age <= RefreshRate + 1
    BY DEF ScreenIsRecent
  <2>1. RefreshRate \in Nat /\ clock \in 0..RefreshRate-1 /\ age \in Nat
    BY RefreshAssumption DEF LoopTypeOK
  <2>2. PeriodEnd(clock) \in Nat /\ PeriodEnd(clock) <= RefreshRate
    BY <2>1 DEF PeriodEnd
  <2>3. age <= RefreshRate + 1 \/ age <= PeriodEnd(clock)
    BY DEF AgeInv
  <2> QED
    BY <2>1, <2>2, <2>3
<1> QED
  BY <1>1, LoopTypeCorrect, AgeInvariant, PTL

-----------------------------------------------------------------------------
(* The loop's key and the history variables stay in their types. *)
ByteTypeOK == ch \in Byte /\ delivered \in Byte /\ taken \in Byte
PollTypeOK == polled \in BOOLEAN

LEMMA ByteTypesCorrect == Spec => [](ByteTypeOK /\ PollTypeOK)
<1> USE MaxKeysAssumption, BufSizeAssumption
<1>1. Init => ByteTypeOK /\ PollTypeOK
  <2>1. Init => PollTypeOK
    BY DEF Init, PollTypeOK
  <2>2. Init => ByteTypeOK
    BY DEF Init, NoKey, Byte, ByteTypeOK
  <2> QED
    BY <2>1, <2>2
<1>2. LoopTypeOK /\ KbTypeOK /\ (ByteTypeOK /\ PollTypeOK) /\ [Next]_vars
        => (ByteTypeOK /\ PollTypeOK)'
  <2> SUFFICES ASSUME LoopTypeOK, KbTypeOK, ByteTypeOK, PollTypeOK, [Next]_vars
               PROVE  ByteTypeOK' /\ PollTypeOK'
    OBVIOUS
  <2> USE DEF ByteTypeOK, PollTypeOK, loopvars, histvars
  <2>1. ASSUME NEW isQuit \in BOOLEAN, Type(isQuit)
        PROVE  ByteTypeOK' /\ PollTypeOK'
    BY <2>1 DEF Type
  <2>2. CASE EndOfProgram \/ Fetch \/ DecoderHang \/ Fail \/ Timer
             \/ DrawScreen \/ NextTurn
    BY <2>2 DEF EndOfProgram, Fetch, DecoderHang, Fail, Timer, DrawScreen,
                NextTurn
  <2>3. ASSUME NEW halts \in BOOLEAN, Retire(halts)
        PROVE  ByteTypeOK' /\ PollTypeOK'
    <3>1. Dequeued \in Byte
      <4>1. CASE DequeueRefused
        BY <4>1 DEF Dequeued, NoKey, Byte
      <4>2. CASE ~DequeueRefused
        <5>1. keystrokes - 1 \in 0..BufSize-1 /\ Dequeued = buffer[keystrokes-1]
          BY <4>2 DEF DequeueRefused, Dequeued, KbTypeOK
        <5> QED
          BY <5>1 DEF KbTypeOK
      <4> QED
        BY <4>1, <4>2
    <3>2. delivered' \in Byte
      BY <2>3, <3>1 DEF Retire, HandleKeyboard
    <3> QED
      BY <2>3, <3>2 DEF Retire
  <2>4. CASE GetKey
    <3>1. read + 1 \in Byte
      BY <2>4 DEF GetKey, LoopTypeOK, Byte
    <3> QED
      BY <2>4, <3>1 DEF GetKey
  <2>5. CASE GetNothing
    BY <2>5 DEF GetNothing, NoKey, Byte
  <2>6. CASE ReadKeyStatus
    <3>1. polled' \in BOOLEAN
      BY <2>6 DEF ReadKeyStatus, KbTypeOK
    <3> QED
      BY <2>6, <3>1 DEF ReadKeyStatus
  <2>7. CASE ReadKey \/ WriteKey \/ WriteVram
    BY <2>7 DEF ReadKey, WriteKey, WriteVram, KbTypeOK
  <2>8. CASE UNCHANGED vars
    BY <2>8 DEF vars
  <2> QED
    BY <2>1, <2>2, <2>3, <2>4, <2>5, <2>6, <2>7, <2>8
       DEF Next, Emulator, GuestAccess, Done
<1> QED
  BY <1>1, <1>2, LoopTypeCorrect, DevicesCorrect, PTL DEF Spec

(* Every variable of the machine stays in its type. *)
THEOREM MachineTypeCorrect == Spec => []MachineTypeOK
<1>1. LoopTypeOK /\ FlagTypeOK /\ KbTypeOK /\ VgaInv /\ ByteTypeOK /\ PollTypeOK
        => MachineTypeOK
  <2> SUFFICES ASSUME LoopTypeOK, FlagTypeOK, KbTypeOK, VgaInv,
                      ByteTypeOK, PollTypeOK
               PROVE  MachineTypeOK
    OBVIOUS
  <2>1. altered_vram \in BOOLEAN /\ ended \in BOOLEAN
    BY DEF FlagTypeOK
  <2>2. polled \in BOOLEAN
    BY DEF PollTypeOK
  <2>3. ch \in Byte /\ delivered \in Byte /\ taken \in Byte
    BY DEF ByteTypeOK
  <2>4. VgaTypeOK
    BY DEF VgaInv
  <2>5. pending \in [IRQ -> BOOLEAN]
    BY DEF LoopTypeOK
  <2>6. /\ clock \in 0..RefreshRate-1
        /\ phase \in Running \cup Stopped
        /\ typed \in 0..MaxKeys /\ read \in 0..typed /\ quitKey \in 0..typed
        /\ age \in Nat
    BY DEF LoopTypeOK
  <2> QED
    BY ONLY <2>1, <2>2, <2>3, <2>4, <2>5, <2>6, KbTypeOK, Zenon DEF MachineTypeOK
<1> QED
  BY <1>1, LoopTypeCorrect, DevicesCorrect, ByteTypesCorrect, PTL

(* After the end of the program nothing the user sees or the guest could   *)
(* read changes any more, whatever is typed: no instruction is in progress *)
(* then, and the interrupts are handled by instructions only.              *)
THEOREM NothingMovesAfterTheEnd == Spec => FrozenAtEnd
<1>1. KeyInv /\ [Next]_vars
        => [ended /\ ~altered_vram =>
              UNCHANGED <<screen, kread, status, dirty, clock>>]_vars
  <2> SUFFICES ASSUME KeyInv, Next, ended, ~altered_vram
               PROVE  UNCHANGED <<screen, kread, status, dirty, clock>>
    OBVIOUS
  <2> USE DEF kbvars, vgavars, loopvars
  <2>1. phase # "exec"
    BY DEF KeyInv
  <2>2. ~GuestAccess /\ ~DrawScreen /\ ~Fetch
          /\ \A halts \in BOOLEAN : ~Retire(halts)
    BY <2>1 DEF GuestAccess, ReadKeyStatus, ReadKey, WriteKey, WriteVram, DrawScreen,
                Fetch, Retire
  <2>3. ASSUME NEW isQuit \in BOOLEAN, Type(isQuit)
        PROVE  UNCHANGED <<screen, kread, status, dirty, clock>>
    BY <2>3 DEF Type
  <2>4. CASE EndOfProgram \/ GetNothing \/ Timer \/ DecoderHang \/ Fail
    BY <2>4 DEF EndOfProgram, GetNothing, Timer, DecoderHang, Fail
  <2>5. CASE GetKey
    BY <2>5 DEF GetKey, Enqueue
  <2>6. CASE NextTurn
    BY <2>6 DEF NextTurn
  <2>7. CASE Done
    BY <2>7 DEF Done, vars
  <2> QED
    BY <2>2, <2>3, <2>4, <2>5, <2>6, <2>7 DEF Next, Emulator
<1> QED
  BY <1>1, KeyInvariant, PTL DEF Spec, FrozenAtEnd

=============================================================================
