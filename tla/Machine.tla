------------------------------- MODULE Machine -------------------------------
(***************************************************************************)
(* The running machine: start()'s loop (machine/boot.c) around one         *)
(* interpreter() call per turn (core/cpu.c), with the interrupt            *)
(* controller, the interrupt handlers and the user interface's refresh.    *)
(*                                                                         *)
(* One turn of the loop is                                                 *)
(*    fetch - exec - interrupts (Retire) - getch - timer - flush           *)
(* and ends by testing whether getch returned 'q'.  One thread runs all of *)
(* it; the user types at any time, into the terminal's input, which getch  *)
(* never waits for.                                                        *)
(*                                                                         *)
(* Which instructions the guest executes is left open: an instruction is   *)
(* any finite series of accesses to the devices, and it may stop the       *)
(* program (HLT, or EIP leaving the code segment), fail, or hang the       *)
(* decoder.                                                                *)
(***************************************************************************)
EXTENDS Keyboard, Vga

CONSTANT RefreshRate   \* VGADev.refresh_rate, 5 in the code

ASSUME RefreshAssumption == RefreshRate \in Nat \ {0}

VARIABLES
  pending,      \* InterruptController.pending; both lines are always enabled
  clock,        \* instructions retired, modulo RefreshRate
  altered_vram, \* UI_State.altered_vram: the next flush draws the screen
  phase,        \* where the loop is, or how it left
  ended,        \* interpreter() returns END_OF_PROGRAM: cpu->halt, or EIP out
  ch,           \* the last key getch returned, or NoKey for ERR
  typed,        \* keystrokes the user has typed so far
  read,         \* keystrokes getch has returned so far
  quitKey,      \* the number of the first 'q' typed, 0 if none yet
  \* history variables, read by properties only
  delivered,    \* the last byte the keyboard handler put in the register
  polled,       \* the guest saw the status flag up and has not read since
  taken,        \* the last key the guest got by polling and then reading
  age           \* instructions retired since the oldest store not yet drawn

loopvars == <<pending, clock, altered_vram, phase, ended, ch>>
uservars == <<typed, read, quitKey>>
histvars == <<delivered, polled, taken, age>>
vars == <<kbvars, vgavars, loopvars, uservars, histvars>>

IRQ == {"KB", "VGA"}

Running == {"fetch", "exec", "getch", "timer", "flush"}
Stopped == {"off", "failed", "hung"}

MachineTypeOK ==
  /\ KbTypeOK
  /\ VgaTypeOK
  /\ pending \in [IRQ -> BOOLEAN]
  /\ clock \in 0..RefreshRate-1
  /\ altered_vram \in BOOLEAN
  /\ phase \in Running \cup Stopped
  /\ ended \in BOOLEAN
  /\ ch \in Byte
  /\ typed \in 0..MaxKeys
  /\ read \in 0..typed
  /\ quitKey \in 0..typed
  /\ delivered \in Byte
  /\ polled \in BOOLEAN
  /\ taken \in Byte
  /\ age \in Nat

Init ==
  /\ KbInit
  /\ VgaInit
  /\ pending = [i \in IRQ |-> FALSE]
  /\ clock = 0
  /\ altered_vram = FALSE
  /\ phase = "fetch"
  /\ ended = FALSE
  /\ ch = NoKey
  /\ typed = 0 /\ read = 0 /\ quitKey = 0
  /\ delivered = NoKey /\ polled = FALSE /\ taken = NoKey /\ age = 0

-----------------------------------------------------------------------------
(* The user. *)

(* A key is typed; the first 'q' is remembered by its number. *)
Type(isQuit) ==
  /\ phase # "off" /\ phase # "failed"
  /\ typed < MaxKeys
  /\ typed' = typed + 1
  /\ quitKey' = IF isQuit /\ quitKey = 0 THEN typed + 1 ELSE quitKey
  /\ UNCHANGED <<kbvars, vgavars, loopvars, histvars, read>>

-----------------------------------------------------------------------------
(* interpreter(), first part: check for the end of the program, prefetch   *)
(* and decode.                                                             *)

(* Mistake for the mutation runs: a program that has ended no longer reads *)
(* the keyboard.                                                           *)
EndOfProgram_SkipsKeys ==
  /\ phase = "fetch" /\ ended
  /\ phase' = "timer"
  /\ UNCHANGED <<kbvars, vgavars, uservars, histvars,
                 pending, clock, altered_vram, ended, ch>>

(* Mistake: the interrupts are handled although the program has ended. *)
EndOfProgram_HandlesKeys ==
  /\ phase = "fetch" /\ ended
  /\ IF pending["KB"] THEN KeyboardHandler /\ delivered' = Dequeued
     ELSE UNCHANGED <<kbvars, delivered>>
  /\ pending' = [i \in IRQ |-> FALSE]
  /\ phase' = "getch"
  /\ UNCHANGED <<vgavars, uservars, polled, taken, age,
                 clock, altered_vram, ended, ch>>

EndOfProgram ==
  /\ phase = "fetch" /\ ended
  /\ phase' = "getch"
  /\ UNCHANGED <<kbvars, vgavars, uservars, histvars,
                 pending, clock, altered_vram, ended, ch>>

Fetch ==
  /\ phase = "fetch" /\ ~ended
  /\ phase' = "exec"
  /\ UNCHANGED <<kbvars, vgavars, uservars, histvars,
                 pending, clock, altered_vram, ended, ch>>

(* decode_opcode never leaves its loop on the byte 0x0F. *)
DecoderHang ==
  /\ phase = "fetch" /\ ~ended
  /\ phase' = "hung"
  /\ UNCHANGED <<kbvars, vgavars, uservars, histvars,
                 pending, clock, altered_vram, ended, ch>>

(* A negative result of the prefetch, of check_instr or of the instruction *)
(* leaves the loop at once, whatever the instruction has stored by then.   *)
Fail ==
  /\ phase \in {"fetch", "exec"} /\ ~ended
  /\ phase' = "failed"
  /\ UNCHANGED <<kbvars, vgavars, uservars, histvars,
                 pending, clock, altered_vram, ended, ch>>

-----------------------------------------------------------------------------
(* The instruction's accesses to the devices. *)

ReadKeyStatus ==
  /\ phase = "exec"
  /\ polled' = status
  /\ UNCHANGED <<kbvars, vgavars, loopvars, uservars, delivered, taken, age>>

ReadKey ==
  /\ phase = "exec"
  /\ KeyboardReadData
  /\ polled' = FALSE
  /\ taken' = IF polled /\ kread \in Key THEN kread ELSE taken
  /\ UNCHANGED <<vgavars, loopvars, uservars, delivered, age>>

WriteKey ==
  /\ phase = "exec"
  /\ GuestStoreKey(NoKey)
  /\ UNCHANGED <<vgavars, loopvars, uservars, histvars>>

WriteVram ==
  /\ phase = "exec"
  /\ VramStore
  /\ UNCHANGED <<kbvars, loopvars, uservars, histvars>>

-----------------------------------------------------------------------------
(* interpreter(), last part: the instruction has succeeded, the clock      *)
(* ticks and the pending interrupts are handled, the keyboard's first.     *)
(* halts: the instruction was HLT, or EIP has left the code segment.       *)

Tick == clock' = (clock + 1) % RefreshRate

HandleKeyboard ==
  IF pending["KB"]
  THEN KeyboardHandler /\ delivered' = Dequeued
  ELSE UNCHANGED <<kbvars, delivered>>

(* Mistake: the request is acknowledged and not passed on. *)
HandleVga_Drops == UNCHANGED altered_vram

HandleVga == altered_vram' = (altered_vram \/ pending["VGA"])

(* Mistake: the interrupts that were handled stay pending. *)
Retire_NoAcknowledge(halts) ==
  /\ phase = "exec"
  /\ Tick
  /\ HandleKeyboard
  /\ HandleVga
  /\ ended' = halts
  /\ age' = IF dirty = <<>> THEN 0 ELSE age + 1
  /\ phase' = "getch"
  /\ UNCHANGED <<vgavars, uservars, pending, ch, polled, taken>>

Retire(halts) ==
  /\ phase = "exec"
  /\ Tick
  /\ HandleKeyboard
  /\ HandleVga
  /\ pending' = [i \in IRQ |-> FALSE]
  /\ ended' = halts
  /\ age' = IF dirty = <<>> THEN 0 ELSE age + 1
  /\ phase' = "getch"
  /\ UNCHANGED <<vgavars, uservars, ch, polled, taken>>

-----------------------------------------------------------------------------
(* The rest of start()'s loop. *)

(* Mistake: a key is queued without an interrupt. *)
GetKey_NoInterrupt ==
  /\ phase = "getch" /\ read < typed
  /\ ch' = read + 1
  /\ read' = read + 1
  /\ Enqueue(read + 1)
  /\ phase' = "timer"
  /\ UNCHANGED <<vgavars, pending, clock, altered_vram, ended, typed, quitKey,
                 histvars>>

(* Mistake: a key is queued only while the register is empty. *)
GetKey_OnlyIfRead ==
  /\ phase = "getch" /\ read < typed
  /\ ch' = read + 1
  /\ read' = read + 1
  /\ IF status THEN UNCHANGED <<kbvars, pending>>
     ELSE /\ Enqueue(read + 1)
          /\ pending' = [pending EXCEPT !["KB"] = TRUE]
  /\ phase' = "timer"
  /\ UNCHANGED <<vgavars, clock, altered_vram, ended, typed, quitKey, histvars>>

(* getch() with nodelay: a key goes to the keyboard's queue and raises its *)
(* interrupt, whether the queue took it or not.                            *)
GetKey ==
  /\ phase = "getch" /\ read < typed
  /\ ch' = read + 1
  /\ read' = read + 1
  /\ Enqueue(read + 1)
  /\ pending' = [pending EXCEPT !["KB"] = TRUE]
  /\ phase' = "timer"
  /\ UNCHANGED <<vgavars, clock, altered_vram, ended, typed, quitKey, histvars>>

GetNothing ==
  /\ phase = "getch" /\ read = typed
  /\ ch' = NoKey
  /\ phase' = "timer"
  /\ UNCHANGED <<kbvars, vgavars, pending, clock, altered_vram, ended,
                 uservars, histvars>>

Timer ==
  /\ phase = "timer"
  /\ pending' = IF clock = 0 THEN [pending EXCEPT !["VGA"] = TRUE] ELSE pending
  /\ phase' = "flush"
  /\ UNCHANGED <<kbvars, vgavars, clock, altered_vram, ended, ch,
                 uservars, histvars>>

(* cb_flush_ui: the refresh, cell by cell, if a VGA interrupt asked for it *)
DrawScreen ==
  /\ phase = "flush" /\ altered_vram
  /\ DrawDirtyCell
  /\ UNCHANGED <<kbvars, loopvars, uservars, histvars>>

(* Mistake: the refresh may stop early, and then forgets the cells that it *)
(* has not come to.                                                        *)
NextTurn_CutShort ==
  /\ phase = "flush"
  /\ IF altered_vram
     THEN /\ dirty' = <<>> /\ drawn' = 0 /\ age' = 0
          /\ UNCHANGED <<vram, dirty_map, screen, pen>>
     ELSE UNCHANGED <<vgavars, age>>
  /\ altered_vram' = FALSE
  /\ phase' = IF ch # NoKey /\ ch = quitKey THEN "off" ELSE "fetch"
  /\ UNCHANGED <<kbvars, pending, clock, ended, ch, uservars,
                 delivered, polled, taken>>

(* ... its end, and the loop's test. *)
NextTurn ==
  /\ phase = "flush"
  /\ IF altered_vram
     THEN EndRefresh /\ age' = 0
     ELSE UNCHANGED <<vgavars, age>>
  /\ altered_vram' = FALSE
  /\ phase' = IF ch # NoKey /\ ch = quitKey THEN "off" ELSE "fetch"
  /\ UNCHANGED <<kbvars, pending, clock, ended, ch, uservars,
                 delivered, polled, taken>>

(* The loop has been left: a hung or stopped machine does nothing more. *)
Done == phase \in Stopped /\ UNCHANGED vars

-----------------------------------------------------------------------------
GuestAccess == ReadKeyStatus \/ ReadKey \/ WriteKey \/ WriteVram

Emulator ==
  \/ EndOfProgram \/ Fetch
  \/ \E halts \in BOOLEAN : Retire(halts)
  \/ GetKey \/ GetNothing \/ Timer \/ DrawScreen \/ NextTurn

Next ==
  \/ \E isQuit \in BOOLEAN : Type(isQuit)
  \/ Emulator
  \/ GuestAccess
  \/ DecoderHang
  \/ Fail
  \/ Done

(* The loop never waits: nodelay makes getch return at once, and an        *)
(* instruction makes finitely many accesses before it retires.             *)
Spec == Init /\ [][Next]_vars
FairSpec == Spec /\ WF_vars(Emulator)

-----------------------------------------------------------------------------
(* Safety. *)

(* The ten-place queue is a mailbox: until the program ends, a key is in   *)
(* it exactly when the keyboard's interrupt is pending, and it is the last *)
(* key read; so no handler ever runs on an empty queue (which would put a  *)
(* spurious 0 in the register) and no key is refused.  When the loop asks  *)
(* for the next key, the queue is empty.                                   *)
QueueIsMailbox ==
  ~ended =>
    /\ pending["KB"] <=> keystrokes = 1
    /\ keystrokes <= 1
    /\ keystrokes = 1 => buffer[0] = read
    /\ phase = "getch" => keystrokes = 0

(* Every key getch has read has been delivered, or is in the mailbox. *)
NoKeyLost == ~ended => delivered + keystrokes = read

(* The register receives the user's keys one by one: each in turn, none    *)
(* skipped, none twice, never a byte that is no key.                       *)
DeliveredInOrder == [][delivered' # delivered => delivered' = delivered + 1]_vars

(* The polling protocol of a guest program (wait for the status flag, then *)
(* read the data) never gives it the same key twice or an older key after  *)
(* a newer one, though keys overwrite each other in the register; and the  *)
(* flag it has seen up is still up when it reads: no step of the loop      *)
(* lowers it between the guest's two instructions.                         *)
PolledReadIsFresh ==
  [][ReadKey /\ polled => status /\ (kread \in Key => kread > taken)]_vars

(* A store is on the screen after at most RefreshRate further instructions *)
(* (one more for the program's very first one, since the timer is not      *)
(* tested before it), as long as the program runs.                         *)
ScreenIsRecent == age <= RefreshRate + 1

(* What the user and the guest's devices show is final once the program    *)
(* has ended and the refresh granted before is done: interpreter() returns *)
(* before it handles interrupts, so the last stores and keys, and all      *)
(* later ones, stay where they are although the loop goes on.              *)
FrozenAtEnd ==
  [][ended /\ ~altered_vram =>
       UNCHANGED <<screen, kread, status, dirty, clock>>]_vars

(* The loop drives the devices as the devices expect: seen from the VGA    *)
(* device, no store falls in the middle of a refresh, and a refresh is     *)
(* always walked to its end; seen from the keyboard, only its operations   *)
(* happen.                                                                 *)
DrivesVga == VgaSpec
DrivesKeyboard == KbSpec

-----------------------------------------------------------------------------
(* Liveness, under FairSpec. *)

(* Once a 'q' is typed the machine stops, unless the decoder hangs. *)
QuitStops == quitKey # 0 ~> phase \in Stopped

(* main.c's help: "Press 'q' or ctrl-c to quit the emulator". *)
QuitTurnsOff == quitKey # 0 ~> phase \in {"off", "failed"}

(* A key that is typed reaches the guest's register, unless the program    *)
(* ends or the machine stops first.                                        *)
KeysArrive ==
  \A k \in Key : typed >= k ~> delivered >= k \/ ended \/ phase \in Stopped

(* A stored cell gets drawn, unless the program ends or the machine stops  *)
(* first.                                                                  *)
StoresShown ==
  \A i \in CellIndex :
    dirty_map[i] ~> ~dirty_map[i] \/ ended \/ phase \in Stopped

=============================================================================
