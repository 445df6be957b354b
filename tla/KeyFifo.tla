------------------------------- MODULE KeyFifo -------------------------------
(***************************************************************************)
(* What the keyboard device promises, without its array: a bounded queue   *)
(* of keys in front of a one-byte register with a full flag.               *)
(***************************************************************************)
EXTENDS Naturals, Sequences

CONSTANTS
  Capacity,  \* the number of keys the queue holds
  Bytes,     \* what the register may hold
  Keys,      \* what may be queued
  Nothing    \* the byte an interrupt on an empty queue delivers

VARIABLES queue, register, full

fifovars == <<queue, register, full>>

FifoInit ==
  /\ queue = <<>>
  /\ register = Nothing
  /\ full = FALSE

(* A keystroke joins the end of the queue, or is refused by a full one. *)
Put(k) ==
  /\ queue' = IF Len(queue) < Capacity THEN Append(queue, k) ELSE queue
  /\ UNCHANGED <<register, full>>

(* An interrupt moves the oldest key to the register, over whatever byte   *)
(* is there.                                                               *)
Deliver ==
  /\ full' = TRUE
  /\ IF queue = <<>>
     THEN register' = Nothing /\ UNCHANGED queue
     ELSE register' = Head(queue) /\ queue' = Tail(queue)

(* The guest empties the register, or writes it itself. *)
Take ==
  /\ full' = FALSE
  /\ UNCHANGED <<queue, register>>

Poke(b) ==
  /\ register' = b
  /\ full' = TRUE
  /\ UNCHANGED queue

FifoNext ==
  \/ \E k \in Keys : Put(k)
  \/ Deliver
  \/ Take
  \/ \E b \in Bytes : Poke(b)

FifoSpec == FifoInit /\ [][FifoNext]_fifovars

=============================================================================
