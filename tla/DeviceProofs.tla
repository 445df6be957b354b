------------------------------ MODULE DeviceProofs ------------------------------
(***************************************************************************)
(* Proofs about the keyboard device, for any buffer size and key set, and  *)
(* about the VGA device and its window, for any screen size, character set *)
(* and set of stored attributes.                                           *)
(*                                                                         *)
(* The keyboard's types are inductive.  The VGA device's inductive         *)
(* invariant is VgaInv: the types, the agreement of the dirty list with    *)
(* the dirty map, and the agreement of clean cells with the screen.  That  *)
(* the list's size guard never drops a store follows from the first two by *)
(* counting, and is what the third needs.                                  *)
(***************************************************************************)
EXTENDS Keyboard, Vga, Sequences, FiniteSets, FiniteSetTheorems, SequenceTheorems, TLAPS

-----------------------------------------------------------------------------
(* The keyboard. *)

(* Every field stays in its type: in particular the count of queued keys   *)
(* stays within the array, and the shift never writes past it.             *)
THEOREM KeyboardTypeCorrect == KbSpec => []KbTypeOK
<1> USE BufSizeAssumption, MaxKeysAssumption DEF NoKey, Key, Byte
<1>1. ASSUME KbInit PROVE KbTypeOK
  <2>1. status \in BOOLEAN
    BY <1>1 DEF KbInit
  <2> QED
    BY <1>1, <2>1 DEF KbInit, KbTypeOK
<1>2. KbTypeOK /\ [KbNext]_kbvars => KbTypeOK'
  <2> SUFFICES ASSUME KbTypeOK, [KbNext]_kbvars PROVE KbTypeOK'
    OBVIOUS
  <2> USE DEF KbTypeOK
  <2>1. ASSUME NEW k \in Key, Enqueue(k) PROVE KbTypeOK'
    <3>1. status' \in BOOLEAN /\ kread' \in Byte
      BY <2>1 DEF Enqueue
    <3>2. ShiftIn(k) \in [0..BufSize-1 -> Byte]
      BY <2>1 DEF ShiftIn
    <3>3. buffer' \in [0..BufSize-1 -> Byte] /\ keystrokes' \in 0..BufSize
      BY <2>1, <3>2 DEF Enqueue
    <3> QED
      BY <3>1, <3>3
  <2>2. CASE KeyboardHandler
    BY <2>2 DEF KeyboardHandler, KeyboardWrite, Dequeued, DequeueRefused
  <2>3. CASE KeyboardReadData
    BY <2>3 DEF KeyboardReadData
  <2>4. ASSUME NEW b \in Byte, GuestStoreKey(b) PROVE KbTypeOK'
    BY <2>4 DEF GuestStoreKey, KeyboardWrite
  <2>5. CASE UNCHANGED kbvars
    BY <2>5 DEF kbvars
  <2> QED
    BY <2>1, <2>2, <2>3, <2>4, <2>5 DEF KbNext
<1> QED
  BY <1>1, <1>2, PTL DEF KbSpec

-----------------------------------------------------------------------------
(* The live part of the array is a sequence of keystrokes bytes. *)
LEMMA ContentsIsSeq ==
  ASSUME KbTypeOK
  PROVE  /\ QueueContents \in Seq(Byte)
         /\ Len(QueueContents) = keystrokes
         /\ \A i \in 1..keystrokes : QueueContents[i] = buffer[keystrokes - i]
<1> USE BufSizeAssumption, MaxKeysAssumption
<1>1. QueueContents \in [1..keystrokes -> Byte]
  BY DEF QueueContents, Contents, KbTypeOK
<1>2. keystrokes \in Nat
  BY DEF KbTypeOK
<1> QED
  BY <1>1, <1>2 DEF QueueContents, Contents

(* Shifting the live part up and inserting at index 0 appends. *)
LEMMA ShiftInAppends ==
  ASSUME KbTypeOK, NEW k \in Byte, keystrokes < BufSize
  PROVE  Contents(ShiftIn(k), keystrokes + 1) = Append(QueueContents, k)
<1> USE BufSizeAssumption, MaxKeysAssumption
<1> DEFINE s == QueueContents
           t == Contents(ShiftIn(k), keystrokes + 1)
<1>1. /\ keystrokes \in Nat /\ BufSize \in Nat
      /\ keystrokes \in 0..BufSize-1
  BY DEF KbTypeOK
<1>2. /\ s \in Seq(Byte) /\ Len(s) = keystrokes
      /\ \A i \in 1..keystrokes : s[i] = buffer[keystrokes - i]
  BY ContentsIsSeq
<1>3. ShiftIn(k) \in [0..BufSize-1 -> Byte]
  BY DEF ShiftIn, KbTypeOK
<1>4. /\ t \in [1..keystrokes+1 -> Byte]
      /\ \A i \in 1..keystrokes+1 : t[i] = ShiftIn(k)[keystrokes + 1 - i]
  BY <1>1, <1>3 DEF Contents
<1>5. t \in Seq(Byte) /\ Len(t) = keystrokes + 1
  BY <1>1, <1>4
<1> HIDE DEF s, t
<1>6. /\ Append(s, k) \in Seq(Byte) /\ Len(Append(s, k)) = keystrokes + 1
      /\ \A i \in 1..keystrokes : Append(s, k)[i] = s[i]
      /\ Append(s, k)[keystrokes + 1] = k
  BY <1>2, AppendProperties
<1>7. ASSUME NEW i \in 1..keystrokes+1 PROVE t[i] = Append(s, k)[i]
  <2>1. CASE i = keystrokes + 1
    <3>1. 0 \in 0..BufSize-1 /\ keystrokes + 1 - i = 0
      BY <1>1, <2>1
    <3>2. t[i] = ShiftIn(k)[0]
      BY <1>4, <3>1
    <3>3. ShiftIn(k)[0] = k
      BY <3>1 DEF ShiftIn
    <3> QED
      BY <1>6, <2>1, <3>2, <3>3
  <2>2. CASE i \in 1..keystrokes
    <3> DEFINE j == keystrokes + 1 - i
    <3>1. j \in 0..BufSize-1 /\ j # 0 /\ j <= keystrokes /\ j - 1 = keystrokes - i
      BY <1>1, <2>2
    <3>2. t[i] = ShiftIn(k)[j]
      BY <1>4
    <3>3. ShiftIn(k)[j] = buffer[j - 1]
      BY <3>1 DEF ShiftIn
    <3> QED
      BY <1>2, <1>6, <2>2, <3>1, <3>2, <3>3
  <2>3. i = keystrokes + 1 \/ i \in 1..keystrokes
    BY <1>1
  <2> QED
    BY <2>1, <2>2, <2>3
<1>8. t = Append(s, k)
  BY <1>5, <1>6, <1>7, SeqEqual
<1> QED
  BY <1>8 DEF s, t

(* The oldest element is the head; without it, the tail is left. *)
LEMMA OldestIsHead ==
  ASSUME KbTypeOK, keystrokes # 0
  PROVE  /\ QueueContents # <<>>
         /\ Head(QueueContents) = buffer[keystrokes - 1]
         /\ Tail(QueueContents) = Contents(buffer, keystrokes - 1)
<1> USE BufSizeAssumption, MaxKeysAssumption
<1> DEFINE s == QueueContents
           t == Contents(buffer, keystrokes - 1)
<1>1. keystrokes \in Nat /\ keystrokes \in 1..BufSize
  BY DEF KbTypeOK
<1>2. /\ s \in Seq(Byte) /\ Len(s) = keystrokes
      /\ \A i \in 1..keystrokes : s[i] = buffer[keystrokes - i]
  BY ContentsIsSeq
<1>3. /\ t \in [1..keystrokes-1 -> Byte]
      /\ \A i \in 1..keystrokes-1 : t[i] = buffer[keystrokes - 1 - i]
  BY <1>1 DEF Contents, KbTypeOK
<1>4. t \in Seq(Byte) /\ Len(t) = keystrokes - 1
  BY <1>1, <1>3
<1> HIDE DEF s, t
<1>5. s # <<>> /\ Head(s) = buffer[keystrokes - 1]
  BY <1>1, <1>2
<1>6. /\ Tail(s) \in Seq(Byte) /\ Len(Tail(s)) = keystrokes - 1
      /\ \A i \in 1..keystrokes-1 : Tail(s)[i] = s[i+1]
  BY <1>1, <1>2, <1>5, HeadTailProperties
<1>7. ASSUME NEW i \in 1..keystrokes-1 PROVE Tail(s)[i] = t[i]
  <2>1. i+1 \in 1..keystrokes /\ keystrokes - (i+1) = keystrokes - 1 - i
    BY <1>1
  <2>2. Tail(s)[i] = buffer[keystrokes - (i+1)]
    BY <1>2, <1>6, <2>1
  <2> QED
    BY <1>3, <2>1, <2>2
<1>8. Tail(s) = t
  BY <1>4, <1>6, <1>7, SeqEqual
<1> QED
  BY <1>5, <1>8 DEF s, t

-----------------------------------------------------------------------------
(* enqueue() appends to the queue, or leaves a full one alone. *)
LEMMA EnqueuePuts ==
  ASSUME KbTypeOK, NEW k \in Key, Enqueue(k)
  PROVE  Fifo!Put(k)
<1> USE BufSizeAssumption, MaxKeysAssumption
<1>1. UNCHANGED <<kread, status>>
  BY DEF Enqueue
<1>2. Len(QueueContents) = keystrokes
  BY ContentsIsSeq
<1>3. CASE keystrokes >= BufSize
  <2>1. QueueContents' = QueueContents
    BY <1>3 DEF Enqueue, QueueContents
  <2> QED
    BY <1>1, <1>2, <1>3, <2>1 DEF Fifo!Put, KbTypeOK
<1>4. CASE keystrokes < BufSize
  <2>1. buffer' = ShiftIn(k) /\ keystrokes' = keystrokes + 1
    BY <1>4 DEF Enqueue, KbTypeOK
  <2>2. k \in Byte
    BY DEF Key, Byte
  <2>3. QueueContents' = Append(QueueContents, k)
    BY <1>4, <2>1, <2>2, ShiftInAppends DEF QueueContents
  <2> QED
    BY <1>1, <1>2, <1>4, <2>3 DEF Fifo!Put
<1> QED
  BY <1>3, <1>4 DEF KbTypeOK

(* The interrupt handler delivers the head of the queue. *)
LEMMA HandlerDelivers ==
  ASSUME KbTypeOK, KeyboardHandler
  PROVE  Fifo!Deliver
<1> USE BufSizeAssumption, MaxKeysAssumption
<1>1. status' = TRUE /\ kread' = Dequeued /\ buffer' = buffer
  BY DEF KeyboardHandler, KeyboardWrite
<1>2. CASE keystrokes = 0
  <2>1. Dequeued = NoKey /\ keystrokes' = keystrokes
    BY <1>2 DEF Dequeued, DequeueRefused, KeyboardHandler
  <2>2. QueueContents = <<>>
    BY <1>2, ContentsIsSeq
  <2>3. QueueContents' = QueueContents
    BY <1>1, <2>1 DEF QueueContents
  <2> QED
    BY <1>1, <2>1, <2>2, <2>3 DEF Fifo!Deliver
<1>3. CASE keystrokes # 0
  <2>1. Dequeued = buffer[keystrokes-1] /\ keystrokes' = keystrokes - 1
    BY <1>3 DEF Dequeued, DequeueRefused, KeyboardHandler, KbTypeOK
  <2>2. QueueContents' = Tail(QueueContents)
    BY <1>1, <1>3, <2>1, OldestIsHead DEF QueueContents
  <2> QED
    BY <1>1, <1>3, <2>1, <2>2, OldestIsHead DEF Fifo!Deliver
<1> QED
  BY <1>2, <1>3

(* For every buffer size, the shifted array implements a bounded           *)
(* first-in first-out queue in front of the data register.                 *)
THEOREM KeyboardImplementsFifo == KbSpec => ImplementsFifo
<1>1. KbInit => Fifo!FifoInit
  BY DEF KbInit, Fifo!FifoInit, QueueContents, Contents
<1>2. KbTypeOK /\ [KbNext]_kbvars => [Fifo!FifoNext]_Fifo!fifovars
  <2> SUFFICES ASSUME KbTypeOK, [KbNext]_kbvars
               PROVE  [Fifo!FifoNext]_Fifo!fifovars
    OBVIOUS
  <2>1. ASSUME NEW k \in Key, Enqueue(k) PROVE Fifo!FifoNext
    BY <2>1, EnqueuePuts DEF Fifo!FifoNext
  <2>2. CASE KeyboardHandler
    BY <2>2, HandlerDelivers DEF Fifo!FifoNext
  <2>3. CASE KeyboardReadData
    BY <2>3 DEF KeyboardReadData, Fifo!FifoNext, Fifo!Take, QueueContents
  <2>4. ASSUME NEW b \in Byte, GuestStoreKey(b) PROVE Fifo!FifoNext
    BY <2>4 DEF GuestStoreKey, KeyboardWrite, Fifo!FifoNext, Fifo!Poke,
                QueueContents
  <2>5. CASE UNCHANGED kbvars
    BY <2>5 DEF kbvars, Fifo!fifovars, QueueContents
  <2> QED
    BY <2>1, <2>2, <2>3, <2>4, <2>5 DEF KbNext
<1> QED
  BY <1>1, <1>2, KeyboardTypeCorrect, PTL
     DEF KbSpec, ImplementsFifo, Fifo!FifoSpec

-----------------------------------------------------------------------------
(* The VGA device. *)

VgaInv == VgaTypeOK /\ DirtyListMatchesMap /\ CleanCellsShown

-----------------------------------------------------------------------------
(* The number of cells is a positive number. *)
LEMMA NumCellsNat == NumCells \in Nat \ {0}
  BY ScreenAssumption DEF NumCells

(* find_cell stays on the screen. *)
LEMMA FindCellType ==
  ASSUME NEW i \in CellIndex
  PROVE  find_cell(i) \in Position
<1> DEFINE W == SCREEN_WIDTH
           H == SCREEN_HEIGHT
<1>1. W \in Nat \ {0} /\ H \in Nat \ {0}
  BY ScreenAssumption
<1>2. i \in 0..W*H-1
  BY DEF CellIndex, NumCells
<1> HIDE DEF W, H
<1>3. i % W \in 0..W-1
  BY <1>1, <1>2
<1>4. i \div W \in Nat /\ i \div W <= H - 1
  BY <1>1, <1>2
<1> QED
  BY <1>1, <1>3, <1>4 DEF find_cell, Position, W, H

(* No two indexes share a position. *)
LEMMA FindCellInjective ==
  ASSUME NEW i \in CellIndex, NEW j \in CellIndex, find_cell(i) = find_cell(j)
  PROVE  i = j
<1> DEFINE W == SCREEN_WIDTH
<1>1. W \in Nat \ {0} /\ i \in Nat /\ j \in Nat
  BY ScreenAssumption, NumCellsNat DEF CellIndex
<1>2. i % W = j % W /\ i \div W = j \div W
  BY DEF find_cell
<1> HIDE DEF W
<1>3. i = W * (i \div W) + (i % W) /\ j = W * (j \div W) + (j % W)
  BY <1>1
<1> QED
  BY <1>2, <1>3

-----------------------------------------------------------------------------
(* A store writes one cell with a cell value. *)
LEMMA StoreWritesCell ==
  ASSUME VgaTypeOK, VramStore
  PROVE  \E i \in CellIndex, cell \in Cell : WriteCell(i, cell)
<1> USE AttrAssumption, CharAssumption
<1>1. PICK i \in CellIndex :
        \/ \E c \in Char : StoreChar(i, c)
        \/ \E a \in GuestAttr : StoreAttr(i, a)
        \/ \E c \in Char, a \in GuestAttr : StoreCell(i, c, a)
  BY DEF VramStore
<1>2. vram[find_cell(i)] \in Cell
  BY FindCellType DEF VgaTypeOK
<1>3. ASSUME NEW c \in Char, StoreChar(i, c)
      PROVE  \E cell \in Cell : WriteCell(i, cell)
  BY <1>2, <1>3 DEF StoreChar, Cell
<1>4. ASSUME NEW a \in GuestAttr, StoreAttr(i, a)
      PROVE  \E cell \in Cell : WriteCell(i, cell)
  BY <1>2, <1>4 DEF StoreAttr, Cell, Attr
<1>5. ASSUME NEW c \in Char, NEW a \in GuestAttr, StoreCell(i, c, a)
      PROVE  \E cell \in Cell : WriteCell(i, cell)
  BY <1>5 DEF StoreCell, Cell, Attr
<1> QED
  BY <1>1, <1>3, <1>4, <1>5

(* The counting argument: a duplicate-free list of marked cells is shorter *)
(* than the screen as long as one cell is unmarked.                        *)
LEMMA RoomInDirtyList ==
  ASSUME VgaTypeOK, DirtyListMatchesMap, drawn = 0,
         NEW i \in CellIndex, ~dirty_map[i]
  PROVE  Len(dirty) < NumCells
<1> DEFINE n == Len(dirty)
           T == CellIndex \ {i}
<1>1. n \in Nat /\ dirty \in [1..n -> CellIndex]
  BY DEF VgaTypeOK
<1>2. \A j \in 1..n : dirty[j] # i
  BY <1>1 DEF DirtyListMatchesMap
<1>3. dirty \in [1..n -> T]
  BY <1>1, <1>2
<1>4. IsFiniteSet(CellIndex) /\ Cardinality(CellIndex) = NumCells
  BY NumCellsNat, FS_Interval DEF CellIndex
<1>5. IsFiniteSet(T) /\ Cardinality(T) = NumCells - 1
  BY <1>4, FS_RemoveElement
<1>6. IsFiniteSet(1..n) /\ Cardinality(1..n) = n
  BY <1>1, FS_Interval
<1>7. \A j, k \in 1..n : dirty[j] = dirty[k] => j = k
  BY DEF DirtyListMatchesMap
<1> HIDE DEF n, T
<1>8. ~ (Cardinality(T) < Cardinality(1..n))
  <2> SUFFICES ASSUME Cardinality(T) < Cardinality(1..n) PROVE FALSE
    OBVIOUS
  <2>1. \E j, k \in 1..n : j # k /\ dirty[j] = dirty[k]
    BY <1>3, <1>5, <1>6, FS_PigeonHole
  <2> QED
    BY <1>7, <2>1
<1> QED
  BY <1>1, <1>5, <1>6, <1>8, NumCellsNat DEF n

-----------------------------------------------------------------------------
(* A store keeps the invariant. *)
LEMMA WriteCellKeepsInv ==
  ASSUME VgaInv, drawn = 0,
         NEW i \in CellIndex, NEW cell \in Cell, WriteCell(i, cell)
  PROVE  VgaInv'
<1> USE DEF VgaInv
<1> DEFINE p == find_cell(i)
<1>1. /\ vram' = [vram EXCEPT ![p] = cell]
      /\ screen' = screen /\ pen' = pen /\ drawn' = drawn
  BY DEF WriteCell
<1>2. vram' \in [Position -> Cell] /\ screen' \in [Position -> Glyph] /\ pen' \in 0..9
  BY <1>1 DEF VgaTypeOK
<1>3. p \in Position
  BY FindCellType
<1>4. ASSUME NEW j \in CellIndex, j # i
      PROVE  vram'[find_cell(j)] = vram[find_cell(j)]
  BY <1>1, <1>4, FindCellInjective, FindCellType DEF VgaTypeOK
<1>5. CASE dirty_map[i]
  <2>1. dirty_map' = dirty_map /\ dirty' = dirty
    BY <1>5 DEF WriteCell
  <2>2. VgaTypeOK'
    BY <1>1, <1>2, <2>1 DEF VgaTypeOK
  <2>3. DirtyListMatchesMap'
    BY <1>1, <2>1 DEF DirtyListMatchesMap
  <2>4. CleanCellsShown'
    BY <1>1, <1>4, <1>5, <2>1 DEF CleanCellsShown, Renders
  <2> QED
    BY <2>2, <2>3, <2>4
<1>6. CASE ~dirty_map[i]
  <2>1. /\ dirty_map' = [dirty_map EXCEPT ![i] = TRUE]
        /\ dirty' = Append(dirty, i)
    BY <1>6, RoomInDirtyList DEF WriteCell
  <2>2. dirty_map' \in [CellIndex -> BOOLEAN]
    BY <2>1 DEF VgaTypeOK
  <2>3. /\ dirty' \in Seq(CellIndex)
        /\ Len(dirty') = Len(dirty) + 1
        /\ \A j \in 1..Len(dirty) : dirty'[j] = dirty[j]
        /\ dirty'[Len(dirty) + 1] = i
        /\ Len(dirty) \in Nat
    BY <2>1, AppendProperties DEF VgaTypeOK
  <2>4. VgaTypeOK'
    BY <1>1, <1>2, <2>2, <2>3 DEF VgaTypeOK
  <2>5. \A j \in 1..Len(dirty) : dirty[j] # i
    BY <1>6 DEF DirtyListMatchesMap
  <2>6. \A j, k \in 1..Len(dirty') : dirty'[j] = dirty'[k] => j = k
    BY <2>3, <2>5 DEF DirtyListMatchesMap
  <2>7. ASSUME NEW c \in CellIndex
        PROVE  dirty_map'[c] <=> \E j \in drawn'+1..Len(dirty') : dirty'[j] = c
    <3>1. CASE c = i
      <4>1. dirty_map'[c]
        BY <2>1, <3>1 DEF VgaTypeOK
      <4>2. Len(dirty) + 1 \in drawn'+1..Len(dirty')
        BY <1>1, <2>3
      <4> QED
        BY <2>3, <3>1, <4>1, <4>2
    <3>2. CASE c # i
      <4>1. dirty_map'[c] <=> dirty_map[c]
        BY <2>1, <3>2 DEF VgaTypeOK
      <4>2. dirty_map[c] <=> \E j \in 1..Len(dirty) : dirty[j] = c
        BY DEF DirtyListMatchesMap
      <4>3. (\E j \in 1..Len(dirty) : dirty[j] = c)
              <=> \E j \in 1..Len(dirty') : dirty'[j] = c
        BY <2>3, <3>2
      <4> QED
        BY <1>1, <4>1, <4>2, <4>3
    <3> QED
      BY <3>1, <3>2
  <2>8. DirtyListMatchesMap'
    BY <2>6, <2>7 DEF DirtyListMatchesMap
  <2>9. CleanCellsShown'
    <3>1. dirty_map'[i]
      BY <2>1 DEF VgaTypeOK
    <3>2. \A j \in CellIndex : j # i => dirty_map'[j] = dirty_map[j]
      BY <2>1 DEF VgaTypeOK
    <3> QED
      BY <1>1, <1>4, <3>1, <3>2 DEF CleanCellsShown, Renders
  <2> QED
    BY <2>4, <2>8, <2>9
<1> QED
  BY <1>5, <1>6

(* Drawing a cell keeps the invariant: the cell becomes clean and is shown *)
(* as it is, in its own colour if it names a pair.                         *)
LEMMA DrawKeepsInv ==
  ASSUME VgaInv, DrawDirtyCell
  PROVE  VgaInv'
<1> USE DEF VgaInv
<1> DEFINE i == dirty[drawn + 1]
           p == find_cell(i)
           cell == vram[p]
<1>1. /\ drawn \in Nat /\ Len(dirty) \in Nat /\ drawn < Len(dirty)
      /\ drawn + 1 \in 1..Len(dirty)
      /\ i \in CellIndex
  BY DEF DrawDirtyCell, VgaTypeOK
<1>2. p \in Position /\ cell \in Cell
  BY <1>1, FindCellType DEF VgaTypeOK
<1>3. /\ vram' = vram /\ dirty' = dirty /\ drawn' = drawn + 1
      /\ dirty_map' = [dirty_map EXCEPT ![i] = FALSE]
      /\ pen' = PenAfter(cell.attr)
      /\ screen' = IF cell.ch = NUL THEN screen
                   ELSE [screen EXCEPT ![p] =
                          [ch |-> cell.ch, colour |-> DrawColour(cell.attr)]]
  BY DEF DrawDirtyCell
<1>4. DrawColour(cell.attr) \in 0..9
  BY DEF DrawColour, VgaTypeOK
<1> HIDE DEF i, p, cell
<1>5. VgaTypeOK'
  <2>1. [ch |-> cell.ch, colour |-> DrawColour(cell.attr)] \in Glyph
    BY <1>2, <1>4 DEF Glyph, Cell
  <2>2. screen' \in [Position -> Glyph]
    BY <1>3, <2>1 DEF VgaTypeOK
  <2>3. pen' \in 0..9
    BY <1>3, <1>4 DEF PenAfter
  <2>4. drawn' \in 0..Len(dirty')
    BY <1>1, <1>3
  <2>5. dirty_map' \in [CellIndex -> BOOLEAN]
    BY <1>3 DEF VgaTypeOK
  <2> QED
    BY <1>3, <2>2, <2>3, <2>4, <2>5 DEF VgaTypeOK
<1>6. DirtyListMatchesMap'
  <2>1. \A j, k \in 1..Len(dirty') : dirty'[j] = dirty'[k] => j = k
    BY <1>3 DEF DirtyListMatchesMap
  <2>2. ASSUME NEW c \in CellIndex
        PROVE  dirty_map'[c] <=> \E j \in drawn'+1..Len(dirty') : dirty'[j] = c
    <3>1. CASE c = i
      <4>1. ~dirty_map'[c]
        BY <1>1, <1>3, <3>1 DEF VgaTypeOK
      <4>2. \A j \in drawn'+1..Len(dirty') : dirty[j] # c
        <5> SUFFICES ASSUME NEW j \in drawn'+1..Len(dirty'), dirty[j] = c
                     PROVE  FALSE
          OBVIOUS
        <5>1. j \in 1..Len(dirty) /\ j # drawn + 1
          BY <1>1, <1>3
        <5> QED
          BY <1>1, <3>1, <5>1 DEF DirtyListMatchesMap, i
      <4> QED
        BY <1>3, <4>1, <4>2
    <3>2. CASE c # i
      <4>1. dirty_map'[c] <=> dirty_map[c]
        BY <1>1, <1>3, <3>2 DEF VgaTypeOK
      <4>2. dirty_map[c] <=> \E j \in drawn+1..Len(dirty) : dirty[j] = c
        BY DEF DirtyListMatchesMap
      <4>3. (\E j \in drawn+1..Len(dirty) : dirty[j] = c)
              <=> \E j \in drawn'+1..Len(dirty') : dirty[j] = c
        BY <1>1, <1>3, <3>2 DEF i
      <4> QED
        BY <1>3, <4>1, <4>2, <4>3
    <3> QED
      BY <3>1, <3>2
  <2> QED
    BY <2>1, <2>2 DEF DirtyListMatchesMap
<1>7. CleanCellsShown'
  <2> SUFFICES ASSUME NEW c \in CellIndex,
                      ~dirty_map'[c], vram'[find_cell(c)].ch # NUL
               PROVE  Renders(vram'[find_cell(c)], screen'[find_cell(c)])
    BY DEF CleanCellsShown
  <2>1. CASE c = i
    <3>1. find_cell(c) = p /\ vram'[p] = cell
      BY <1>3, <2>1 DEF p, cell
    <3>2. screen'[p] = [ch |-> cell.ch, colour |-> DrawColour(cell.attr)]
      BY <1>2, <1>3, <3>1 DEF VgaTypeOK
    <3> QED
      BY <3>1, <3>2 DEF Renders, DrawColour
  <2>2. CASE c # i
    <3>1. ~dirty_map[c]
      BY <1>1, <1>3, <2>2 DEF VgaTypeOK
    <3>2. find_cell(c) # p /\ find_cell(c) \in Position
      BY <1>1, <2>2, FindCellInjective, FindCellType DEF p
    <3>3. screen'[find_cell(c)] = screen[find_cell(c)]
      BY <1>3, <3>2 DEF VgaTypeOK
    <3> QED
      BY <1>3, <3>1, <3>3 DEF CleanCellsShown
  <2> QED
    BY <2>1, <2>2
<1> QED
  BY <1>5, <1>6, <1>7

(* Ending a refresh keeps the invariant: every listed cell was drawn. *)
LEMMA EndKeepsInv ==
  ASSUME VgaInv, EndRefresh
  PROVE  VgaInv'
<1> USE DEF VgaInv
<1>1. /\ drawn = Len(dirty) /\ dirty' = <<>> /\ drawn' = 0
      /\ UNCHANGED <<vram, dirty_map, screen, pen>>
  BY DEF EndRefresh
<1>2. Len(dirty) \in Nat /\ Len(dirty') = 0
  BY <1>1 DEF VgaTypeOK
<1>3. VgaTypeOK'
  BY <1>1, <1>2 DEF VgaTypeOK
<1>4. DirtyListMatchesMap'
  BY <1>1, <1>2 DEF DirtyListMatchesMap
<1>5. CleanCellsShown'
  BY <1>1 DEF CleanCellsShown
<1> QED
  BY <1>3, <1>4, <1>5

-----------------------------------------------------------------------------
(* The invariant holds in every reachable state. *)
THEOREM VgaInvariant == VgaSpec => []VgaInv
<1>1. VgaInit => VgaInv
  <2> SUFFICES ASSUME VgaInit PROVE VgaInv
    OBVIOUS
  <2>1. NUL \in Char /\ 0 \in Attr /\ 0 \in 0..9
    BY CharAssumption DEF Attr
  <2>2. [ch |-> NUL, attr |-> 0] \in Cell /\ [ch |-> NUL, colour |-> 0] \in Glyph
    BY <2>1 DEF Cell, Glyph
  <2>3. /\ vram \in [Position -> Cell] /\ screen \in [Position -> Glyph]
        /\ dirty \in Seq(CellIndex) /\ Len(dirty) = 0 /\ drawn = 0 /\ pen = 0
    BY <2>2 DEF VgaInit
  <2>4. dirty_map \in [CellIndex -> BOOLEAN] /\ \A i \in CellIndex : ~dirty_map[i]
    BY DEF VgaInit
  <2>5. VgaTypeOK
    BY <2>3, <2>4 DEF VgaTypeOK
  <2>6. DirtyListMatchesMap
    BY <2>3, <2>4 DEF DirtyListMatchesMap
  <2>7. CleanCellsShown
    BY FindCellType DEF CleanCellsShown, VgaInit
  <2> QED
    BY <2>5, <2>6, <2>7 DEF VgaInv
<1>2. VgaInv /\ [VgaNext]_vgavars => VgaInv'
  <2> SUFFICES ASSUME VgaInv, [VgaNext]_vgavars PROVE VgaInv'
    OBVIOUS
  <2>1. CASE drawn = 0 /\ VramStore
    BY <2>1, StoreWritesCell, WriteCellKeepsInv DEF VgaInv
  <2>2. CASE DrawDirtyCell
    BY <2>2, DrawKeepsInv
  <2>3. CASE EndRefresh
    BY <2>3, EndKeepsInv
  <2>4. CASE UNCHANGED vgavars
    BY <2>4 DEF vgavars, VgaInv, VgaTypeOK, DirtyListMatchesMap,
                CleanCellsShown, Renders
  <2> QED
    BY <2>1, <2>2, <2>3, <2>4 DEF VgaNext
<1> QED
  BY <1>1, <1>2, PTL DEF VgaSpec

(* Every field of the device and of its window stays in its type; an       *)
(* attribute in particular stays a byte under the unmasked 8-bit store.    *)
THEOREM VgaTypeCorrect == VgaSpec => []VgaTypeOK
<1>1. VgaInv => VgaTypeOK
  BY DEF VgaInv
<1> QED
  BY <1>1, VgaInvariant, PTL

(* The dirty list and the dirty map always agree. *)
THEOREM DirtyListCorrect == VgaSpec => []DirtyListMatchesMap
<1>1. VgaInv => DirtyListMatchesMap
  BY DEF VgaInv
<1> QED
  BY <1>1, VgaInvariant, PTL

(* The size guard of the dirty list never drops a store, whatever the size *)
(* of the screen.                                                          *)
THEOREM StoresAreListed == VgaSpec => []NoStoreDropped
<1>1. VgaInv => NoStoreDropped
  BY RoomInDirtyList DEF VgaInv, NoStoreDropped
<1> QED
  BY <1>1, VgaInvariant, PTL

(* A clean cell is always on the screen as it is in video memory. *)
THEOREM ScreenShowsCleanCells == VgaSpec => []CleanCellsShown
<1>1. VgaInv => CleanCellsShown
  BY DEF VgaInv
<1> QED
  BY <1>1, VgaInvariant, PTL

-----------------------------------------------------------------------------
(* The positions of the marked cells, which the refinement calls stale. *)
Stale == {find_cell(i) : i \in {c \in CellIndex : dirty_map[c]}}

(* A store makes exactly its own position stale. *)
LEMMA StoreIsAbstractStore ==
  ASSUME VgaInv, drawn = 0,
         NEW i \in CellIndex, NEW cell \in Cell, WriteCell(i, cell)
  PROVE  Fb!Store(find_cell(i))
<1> DEFINE p == find_cell(i)
<1>1. /\ vram' = [vram EXCEPT ![p] = cell]
      /\ screen' = screen
  BY DEF WriteCell
<1>2. vram \in [Position -> Cell] /\ dirty_map \in [CellIndex -> BOOLEAN]
  BY DEF VgaInv, VgaTypeOK
<1>3. /\ dirty_map'[i]
      /\ \A j \in CellIndex : j # i => dirty_map'[j] = dirty_map[j]
  BY <1>2, RoomInDirtyList DEF WriteCell, VgaInv
<1>4. Stale' = Stale \cup {p}
  BY <1>3 DEF Stale
<1>5. /\ vram' \in [Position -> Cell]
      /\ \A q \in Position \ {p} : vram'[q] = vram[q]
  BY <1>1, <1>2
<1> QED
  BY <1>1, <1>4, <1>5 DEF Fb!Store, Stale, Cell, Attr, Fb!Cell

(* Drawing a listed cell shows exactly its position, which is stale. *)
LEMMA DrawIsAbstractShow ==
  ASSUME VgaInv, DrawDirtyCell
  PROVE  \E p \in Position : Fb!Show(p)
<1> DEFINE i == dirty[drawn + 1]
           p == find_cell(i)
           cell == vram[p]
<1>1. /\ drawn \in Nat /\ Len(dirty) \in Nat /\ drawn < Len(dirty)
      /\ drawn + 1 \in drawn+1..Len(dirty)
      /\ i \in CellIndex
  BY DEF DrawDirtyCell, VgaInv, VgaTypeOK
<1>2. dirty_map[i]
  BY <1>1 DEF VgaInv, DirtyListMatchesMap
<1>3. p \in Position /\ cell \in Cell
  BY <1>1, FindCellType DEF VgaInv, VgaTypeOK
<1>4. /\ vram' = vram
      /\ dirty_map' = [dirty_map EXCEPT ![i] = FALSE]
      /\ screen' = IF cell.ch = NUL THEN screen
                   ELSE [screen EXCEPT ![p] =
                          [ch |-> cell.ch, colour |-> DrawColour(cell.attr)]]
  BY DEF DrawDirtyCell
<1>5. /\ screen \in [Position -> Glyph] /\ screen' \in [Position -> Glyph]
      /\ dirty_map \in [CellIndex -> BOOLEAN]
  <2>1. VgaInv'
    BY DrawKeepsInv
  <2> QED
    BY <2>1 DEF VgaInv, VgaTypeOK
<1> HIDE DEF i, p, cell
<1>6. p \in Stale /\ Stale' = Stale \ {p}
  <2>1. /\ ~dirty_map'[i]
        /\ \A j \in CellIndex : j # i => dirty_map'[j] = dirty_map[j]
    BY <1>1, <1>4, <1>5
  <2>2. \A j \in CellIndex : find_cell(j) = p => j = i
    BY <1>1, FindCellInjective DEF p
  <2> QED
    BY <1>1, <1>2, <2>1, <2>2 DEF Stale, p
<1>7. CASE cell.ch = NUL
  BY <1>3, <1>4, <1>6, <1>7 DEF Fb!Show, Stale, cell
<1>8. CASE cell.ch # NUL
  <2>1. \A q \in Position \ {p} : screen'[q] = screen[q]
    BY <1>4, <1>5, <1>8
  <2>2. screen'[p] = [ch |-> cell.ch, colour |-> DrawColour(cell.attr)]
    BY <1>3, <1>4, <1>5, <1>8
  <2>3. Fb!Renders(vram[p], screen'[p])
    BY <2>2 DEF Fb!Renders, Fb!Pairs, DrawColour, cell
  <2>4. Glyph = Fb!Glyph
    <3>1. 0..9 = 1..9 \cup {0}
      OBVIOUS
    <3> QED
      BY <3>1 DEF Glyph, Fb!Glyph, Fb!Pairs, Fb!Pair0
  <2> QED
    BY <1>3, <1>4, <1>5, <1>6, <1>8, <2>1, <2>3, <2>4
       DEF Fb!Show, Stale, cell
<1> QED
  BY <1>7, <1>8

(* For every screen size, the dirty list, its map and its counter          *)
(* implement the frame buffer that forgets no store.                       *)
THEOREM VgaImplementsFramebuffer == VgaSpec => ImplementsFramebuffer
<1>1. VgaInit => Fb!FbInit
  BY DEF VgaInit, Fb!FbInit, Fb!Pair0
<1>2. VgaInv /\ [VgaNext]_vgavars => [Fb!FbNext]_Fb!fbvars
  <2> SUFFICES ASSUME VgaInv, [VgaNext]_vgavars
               PROVE  [Fb!FbNext]_Fb!fbvars
    OBVIOUS
  <2>1. CASE drawn = 0 /\ VramStore
    <3>1. PICK i \in CellIndex, cell \in Cell : WriteCell(i, cell)
      BY <2>1, StoreWritesCell DEF VgaInv
    <3>2. Fb!Store(find_cell(i))
      BY <2>1, <3>1, StoreIsAbstractStore
    <3> QED
      BY <3>2, FindCellType DEF Fb!FbNext
  <2>2. CASE DrawDirtyCell
    BY <2>2, DrawIsAbstractShow DEF Fb!FbNext
  <2>3. CASE EndRefresh
    BY <2>3 DEF EndRefresh, Fb!fbvars
  <2>4. CASE UNCHANGED vgavars
    BY <2>4 DEF vgavars, Fb!fbvars
  <2> QED
    BY <2>1, <2>2, <2>3, <2>4 DEF VgaNext
<1> QED
  BY <1>1, <1>2, VgaInvariant, PTL DEF VgaSpec, ImplementsFramebuffer, Fb!FbSpec

===============================================================================
