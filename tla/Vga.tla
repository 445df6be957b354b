--------------------------------- MODULE Vga ---------------------------------
(***************************************************************************)
(* The VGA device (vram_write in hardware_sim/devices.c) and the window    *)
(* that shows it (update_screen_window and draw_cell in ui/display.c).     *)
(*                                                                         *)
(* A store that reaches the device marks its cell in dirty_map and, unless *)
(* it is marked already, appends the cell's index to the dirty list.  A    *)
(* refresh walks the list, draws each cell from video memory, unmarks it,  *)
(* and empties the list at the end.                                        *)
(*                                                                         *)
(* The list dirty[] with its counter_vram_changes is a sequence, whose     *)
(* length is the counter.  drawn is the loop variable of the walk: the     *)
(* walk is one action per iteration, and between two refreshes drawn is 0. *)
(***************************************************************************)
EXTENDS Integers, Sequences

CONSTANTS
  SCREEN_WIDTH, SCREEN_HEIGHT,  \* 10 and 10 in the code
  Char,       \* the characters a cell may hold
  NUL,        \* the zero character, which mvwprintw("%c") does not draw
  GuestAttr   \* bound: the attribute bytes guest programs store

ASSUME ScreenAssumption ==
  SCREEN_WIDTH \in Nat \ {0} /\ SCREEN_HEIGHT \in Nat \ {0}
ASSUME CharAssumption == NUL \in Char
ASSUME AttrAssumption == GuestAttr \subseteq 0..255

VARIABLES
  vram,       \* VGADev.vram, indexed by position
  dirty,      \* VGADev.dirty[0 .. counter_vram_changes-1]
  dirty_map,  \* VGADev.dirty_map
  screen,     \* what the window shows at each position
  pen,        \* the colour pair switched on in the window, 0 for none
  drawn       \* how many entries of dirty the current refresh has drawn

vgavars == <<vram, dirty, dirty_map, screen, pen, drawn>>

NumCells  == SCREEN_WIDTH * SCREEN_HEIGHT
CellIndex == 0..NumCells-1
Position  == [x: 0..SCREEN_WIDTH-1, y: 0..SCREEN_HEIGHT-1]
Attr      == 0..255
Cell      == [ch: Char, attr: Attr]
Glyph     == [ch: Char, colour: 0..9]

(* find_cell: row-major order. *)
find_cell(i) == [x |-> i % SCREEN_WIDTH, y |-> i \div SCREEN_WIDTH]

VgaTypeOK ==
  /\ vram \in [Position -> Cell]
  /\ dirty \in Seq(CellIndex)
  /\ dirty_map \in [CellIndex -> BOOLEAN]
  /\ screen \in [Position -> Glyph]
  /\ pen \in 0..9
  /\ drawn \in 0..Len(dirty)

(* init_vga zeroes the device; the window starts with no pair switched on, *)
(* and a NUL glyph stands for a position nothing was drawn to.             *)
VgaInit ==
  /\ vram = [p \in Position |-> [ch |-> NUL, attr |-> 0]]
  /\ dirty = <<>>
  /\ dirty_map = [i \in CellIndex |-> FALSE]
  /\ screen = [p \in Position |-> [ch |-> NUL, colour |-> 0]]
  /\ pen = 0
  /\ drawn = 0

-----------------------------------------------------------------------------
(* Stores. *)

(* Mistake for the mutation runs: dirty_map is not consulted. *)
WriteCell_ListsAgain(i, cell) ==
  /\ vram' = [vram EXCEPT ![find_cell(i)] = cell]
  /\ IF Len(dirty) < NumCells
     THEN /\ dirty_map' = [dirty_map EXCEPT ![i] = TRUE]
          /\ dirty' = Append(dirty, i)
     ELSE UNCHANGED <<dirty_map, dirty>>
  /\ UNCHANGED <<screen, pen, drawn>>

(* The tail of vram_write: store the cell and list it as dirty. *)
WriteCell(i, cell) ==
  /\ vram' = [vram EXCEPT ![find_cell(i)] = cell]
  /\ IF ~dirty_map[i] /\ Len(dirty) < NumCells
     THEN /\ dirty_map' = [dirty_map EXCEPT ![i] = TRUE]
          /\ dirty' = Append(dirty, i)
     ELSE UNCHANGED <<dirty_map, dirty>>
  /\ UNCHANGED <<screen, pen, drawn>>

(* Width 8 at an even offset: the character.  vram_write ors the data into *)
(* the cell unmasked, and keeps the attribute only because every handler   *)
(* that stores a byte hands over a single one.                             *)
StoreChar(i, c) ==
  WriteCell(i, [ch |-> c, attr |-> vram[find_cell(i)].attr])

(* Width 8 at an odd offset: the attribute. *)
StoreAttr(i, a) ==
  WriteCell(i, [ch |-> vram[find_cell(i)].ch, attr |-> a])

(* Width 32 at an even offset: the low 16 bits, which are the whole cell. *)
StoreCell(i, c, a) == WriteCell(i, [ch |-> c, attr |-> a])

VramStore ==
  \E i \in CellIndex :
    \/ \E c \in Char : StoreChar(i, c)
    \/ \E a \in GuestAttr : StoreAttr(i, a)
    \/ \E c \in Char, a \in GuestAttr : StoreCell(i, c, a)

-----------------------------------------------------------------------------
(* Refreshes. *)

(* draw_cell's wattron and wattroff: pairs 1..9 are switched on for the    *)
(* character, but only an attribute of 9 or more switches the pair off     *)
(* after it.                                                               *)
(* Mistake: the last of the nine pairs is left out. *)
DrawColour_EightPairs(a) == IF a \in 1..8 THEN a ELSE pen

DrawColour(a) == IF a \in 1..9 THEN a ELSE pen
PenAfter(a) == IF a >= 9 THEN 0 ELSE DrawColour(a)

(* Mistake: the map is indexed by the position in the list instead of the  *)
(* cell's index.                                                           *)
DrawDirtyCell_UnmarksWrongCell ==
  /\ drawn < Len(dirty)
  /\ LET p    == find_cell(dirty[drawn + 1])
         cell == vram[p]
     IN /\ screen' = IF cell.ch = NUL THEN screen
                     ELSE [screen EXCEPT ![p] =
                            [ch |-> cell.ch, colour |-> DrawColour(cell.attr)]]
        /\ pen' = PenAfter(cell.attr)
        /\ dirty_map' = [dirty_map EXCEPT ![drawn] = FALSE]
  /\ drawn' = drawn + 1
  /\ UNCHANGED <<vram, dirty>>

(* One iteration of update_screen_window's loop. *)
DrawDirtyCell ==
  /\ drawn < Len(dirty)
  /\ LET i    == dirty[drawn + 1]
         p    == find_cell(i)
         cell == vram[p]
     IN /\ screen' = IF cell.ch = NUL THEN screen
                     ELSE [screen EXCEPT ![p] =
                            [ch |-> cell.ch, colour |-> DrawColour(cell.attr)]]
        /\ pen' = PenAfter(cell.attr)
        /\ dirty_map' = [dirty_map EXCEPT ![i] = FALSE]
  /\ drawn' = drawn + 1
  /\ UNCHANGED <<vram, dirty>>

(* After the loop: counter_vram_changes = 0. *)
EndRefresh ==
  /\ drawn = Len(dirty)
  /\ dirty' = <<>>
  /\ drawn' = 0
  /\ UNCHANGED <<vram, dirty_map, screen, pen>>

-----------------------------------------------------------------------------
(* The device and its window by themselves.  One thread runs both, so no   *)
(* store happens in the middle of a refresh.                               *)

VgaNext ==
  \/ drawn = 0 /\ VramStore
  \/ DrawDirtyCell
  \/ EndRefresh

VgaSpec == VgaInit /\ [][VgaNext]_vgavars

-----------------------------------------------------------------------------
(* The dirty list and the dirty map say the same: no cell is listed twice, *)
(* and the marked cells are exactly those the refresh has yet to draw.     *)
DirtyListMatchesMap ==
  /\ \A j, k \in 1..Len(dirty) : dirty[j] = dirty[k] => j = k
  /\ \A i \in CellIndex :
       dirty_map[i] <=> \E j \in drawn+1..Len(dirty) : dirty[j] = i

(* vram_write lists a cell only while counter_vram_changes is below the    *)
(* array's size.  That guard never drops a store: as long as some cell is  *)
(* unmarked between refreshes, there is room for it in the list.           *)
NoStoreDropped ==
  drawn = 0 /\ (\E i \in CellIndex : ~dirty_map[i]) => Len(dirty) < NumCells

(* A cell that is not marked is on the screen as it is in video memory:    *)
(* its character, and its own colour when its attribute names a pair.  (A  *)
(* NUL is never drawn, and an attribute that names no pair is drawn in     *)
(* whatever colour the pen was left in.)                                   *)
Renders(cell, glyph) ==
  /\ glyph.ch = cell.ch
  /\ cell.attr \in 1..9 => glyph.colour = cell.attr

CleanCellsShown ==
  \A i \in CellIndex :
    LET p == find_cell(i)
    IN  ~dirty_map[i] /\ vram[p].ch # NUL => Renders(vram[p], screen[p])

-----------------------------------------------------------------------------
Fb == INSTANCE Framebuffer
        WITH memory <- vram, shown <- screen,
             stale <- {find_cell(i) : i \in {c \in CellIndex : dirty_map[c]}}

(* The dirty list, its map and its counter implement a frame buffer that   *)
(* remembers every store until it is shown, at the position it was stored  *)
(* to, and shows nothing that was not stored.                              *)
ImplementsFramebuffer == Fb!FbSpec

=============================================================================
