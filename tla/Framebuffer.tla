----------------------------- MODULE Framebuffer -----------------------------
(***************************************************************************)
(* What the VGA device and the window that shows it promise, without the   *)
(* dirty list: a store makes a position stale, and showing a stale         *)
(* position brings the screen up to date with the memory there.            *)
(***************************************************************************)
EXTENDS Integers

CONSTANTS
  Position,  \* the character positions of the screen
  Char,      \* the characters a cell may hold
  NUL        \* the character that is never drawn

VARIABLES
  memory,    \* memory[p]: the cell the guest stored
  shown,     \* shown[p]: the character and colour pair on the screen
  stale      \* positions stored to since they were last shown

fbvars == <<memory, shown, stale>>

Pairs == 1..9      \* the colour pairs the window defines
Pair0 == 0         \* the terminal's default pair
Cell  == [ch: Char, attr: 0..255]
Glyph == [ch: Char, colour: Pairs \cup {Pair0}]

(* A cell asks for its character, and for a colour only when its attribute *)
(* names a pair.                                                           *)
Renders(cell, glyph) ==
  /\ glyph.ch = cell.ch
  /\ cell.attr \in Pairs => glyph.colour = cell.attr

FbInit ==
  /\ memory = [p \in Position |-> [ch |-> NUL, attr |-> 0]]
  /\ shown = [p \in Position |-> [ch |-> NUL, colour |-> Pair0]]
  /\ stale = {}

(* Position p takes a new cell, whatever the guest stores there. *)
Store(p) ==
  /\ memory' \in [Position -> Cell]
  /\ \A q \in Position \ {p} : memory'[q] = memory[q]
  /\ stale' = stale \cup {p}
  /\ UNCHANGED shown

(* Showing a position that holds NUL leaves what the screen had there. *)
Show(p) ==
  /\ p \in stale
  /\ stale' = stale \ {p}
  /\ IF memory[p].ch = NUL
     THEN UNCHANGED shown
     ELSE /\ shown' \in [Position -> Glyph]
          /\ \A q \in Position \ {p} : shown'[q] = shown[q]
          /\ Renders(memory[p], shown'[p])
  /\ UNCHANGED memory

FbNext == \E p \in Position : Store(p) \/ Show(p)

FbSpec == FbInit /\ [][FbNext]_fbvars

=============================================================================
