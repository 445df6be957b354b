------------------------------ MODULE Keyboard ------------------------------
(***************************************************************************)
(* The keyboard device of the emulator (hardware_sim/devices.c) and the    *)
(* emulator's own keyboard interrupt handler.                              *)
(*                                                                         *)
(* The host side pushes keystrokes into keyboard_buffer, an array used as  *)
(* a queue: index 0 holds the newest key, index keystrokes_in_queue-1 the  *)
(* oldest.  The interrupt handler takes the oldest key and puts it in the  *)
(* data register, through the bus, which also raises the status flag.  The *)
(* guest polls the flag, and reading the data register lowers it.          *)
(*                                                                         *)
(* A byte is a key number 1..MaxKeys (Machine numbers the keys in the      *)
(* order the user types them) or NoKey, which stands for every byte that   *)
(* is not such a keystroke: the 0 a handler writes when the queue is empty *)
(* and whatever a guest program stores in the register itself.             *)
(***************************************************************************)
EXTENDS Integers

CONSTANTS
  BufSize,   \* sizeof(kb->keyboard_buffer), 10 in the code
  MaxKeys    \* bound: number of distinct keystrokes

ASSUME BufSizeAssumption == BufSize \in Nat \ {0}
ASSUME MaxKeysAssumption == MaxKeys \in Nat

VARIABLES
  kread,       \* KeyboardDev.read, the data register
  status,      \* KeyboardDev.status: the register holds an unread byte
  buffer,      \* KeyboardDev.keyboard_buffer
  keystrokes   \* KeyboardDev.keystrokes_in_queue

kbvars == <<kread, status, buffer, keystrokes>>

NoKey == 0
Key   == 1..MaxKeys
Byte  == 0..MaxKeys

(* The type invariant: the count never leaves the array. *)
KbTypeOK ==
  /\ kread \in Byte
  /\ status \in BOOLEAN
  /\ buffer \in [0..BufSize-1 -> Byte]
  /\ keystrokes \in 0..BufSize

(* init_keyboard: calloc and memset leave every field zero. *)
KbInit ==
  /\ kread = NoKey
  /\ status = FALSE
  /\ buffer = [i \in 0..BufSize-1 |-> NoKey]
  /\ keystrokes = 0

-----------------------------------------------------------------------------
(* The host side: enqueue() shifts the live part of the array up by one    *)
(* and inserts at index 0; a full queue refuses the key.                   *)

(* Mistake for the mutation runs: the new key goes over the newest one.    *)
ShiftIn_Overwrites(k) == [buffer EXCEPT ![0] = k]

ShiftIn(k) ==
  [i \in 0..BufSize-1 |-> IF i = 0 THEN k
                          ELSE IF i <= keystrokes THEN buffer[i-1]
                          ELSE buffer[i]]

(* Mistake: the fullness test lets one key too many in. *)
Enqueue_OneTooMany(k) ==
  /\ IF keystrokes > BufSize
     THEN UNCHANGED <<buffer, keystrokes>>
     ELSE /\ buffer' = ShiftIn(k)
          /\ keystrokes' = keystrokes + 1
  /\ UNCHANGED <<kread, status>>

Enqueue(k) ==
  /\ IF keystrokes >= BufSize
     THEN UNCHANGED <<buffer, keystrokes>>
     ELSE /\ buffer' = ShiftIn(k)
          /\ keystrokes' = keystrokes + 1
  /\ UNCHANGED <<kread, status>>

-----------------------------------------------------------------------------
(* The interrupt handler: dequeue() leaves data at its initial 0 when it   *)
(* refuses, and the handler stores data in the register all the same.      *)

DequeueRefused == keystrokes = 0 \/ keystrokes > BufSize

Dequeued == IF DequeueRefused THEN NoKey ELSE buffer[keystrokes-1]

(* keyboard_write, reached by a bus write to any address of the device. *)
KeyboardWrite(b) ==
  /\ kread' = b
  /\ status' = TRUE

KeyboardHandler ==
  /\ KeyboardWrite(Dequeued)
  /\ keystrokes' = IF DequeueRefused THEN keystrokes ELSE keystrokes - 1
  /\ UNCHANGED buffer

-----------------------------------------------------------------------------
(* The guest side, one action per kind of bus access. *)

(* Mistake: reading the data register does not lower the flag. *)
KeyboardReadData_KeepsFlag == UNCHANGED kbvars

(* A read of KEYBOARD_DATA_ADDR.  A read of KEYBOARD_STATUS_ADDR, or of    *)
(* any other address of the device, changes nothing here.                  *)
KeyboardReadData ==
  /\ status' = FALSE
  /\ UNCHANGED <<kread, buffer, keystrokes>>

GuestStoreKey(b) ==
  /\ KeyboardWrite(b)
  /\ UNCHANGED <<buffer, keystrokes>>

-----------------------------------------------------------------------------
(* The device by itself: its operations in any order. *)

KbNext ==
  \/ \E k \in Key : Enqueue(k)
  \/ KeyboardHandler
  \/ KeyboardReadData
  \/ \E b \in Byte : GuestStoreKey(b)

KbSpec == KbInit /\ [][KbNext]_kbvars

-----------------------------------------------------------------------------
(* What the array promises: a bounded first-in first-out queue.  The       *)
(* oldest key is at the high end of the live part of the array.            *)

Contents(b, n) == [i \in 1..n |-> b[n - i]]

QueueContents == Contents(buffer, keystrokes)

Fifo == INSTANCE KeyFifo
          WITH Capacity <- BufSize, Bytes <- Byte, Keys <- Key,
               Nothing <- NoKey, queue <- QueueContents,
               register <- kread, full <- status

(* The array with its shifting implements the queue: keys leave in the     *)
(* order they came, none is lost or repeated except that a full queue      *)
(* refuses a new key, and an interrupt on an empty queue delivers a zero.  *)
ImplementsFifo == Fifo!FifoSpec

=============================================================================
