---------------------------------- MODULE Preview ----------------------------------
(***************************************************************************)
(* The program window (ui/display.c): a matrix of bytes filled from the    *)
(* program, refilled from EIP on when EIP is outside the part it shows.    *)
(* The window keeps only a cursor and the index of the last byte shown,    *)
(* and infers the first one from the matrix's size.                        *)
(***************************************************************************)
EXTENDS Integers, Sequences

CONSTANT MatrixSize   \* pm_rows * pm_cols: 13 rows of 10 bytes

ASSUME PreviewAssumption == MatrixSize \in Nat /\ MatrixSize > 0

VARIABLES
  preview_matrix,            \* the bytes on the screen, row after row
  program_cursor,            \* the index behind the last byte taken
  last_byte_index_printed,
  ui_eip,                    \* EIP in the UI's copy of the CPU
  first                      \* history: the index of the first byte shown

previewvars == <<preview_matrix, program_cursor, last_byte_index_printed, ui_eip, first>>

PreviewInit ==
  /\ preview_matrix = [n \in 0..MatrixSize-1 |-> 0]
  /\ program_cursor = 0 /\ last_byte_index_printed = 0 /\ ui_eip = 0
  /\ first = 0

(* repopulate_matrix, starting at cursor. *)
Filled(size, cursor) ==
  IF cursor >= size THEN 0
  ELSE IF size - cursor < MatrixSize THEN size - cursor ELSE MatrixSize

repopulate_matrix(program, cursor) ==
  LET filled == Filled(Len(program), cursor)
  IN /\ preview_matrix' = [n \in 0..MatrixSize-1 |->
                             IF n < filled THEN program[cursor + n + 1] ELSE 0]
     /\ program_cursor' = cursor + filled
     /\ last_byte_index_printed' =
          IF program_cursor' = 0 THEN 0 ELSE program_cursor' - 1
     /\ first' = cursor

(* cb_set_program_pointer. *)
SetProgram(program) ==
  repopulate_matrix(program, program_cursor) /\ UNCHANGED ui_eip

(* cb_copy_cpu_after_execute. *)
CopyCpu(eip) ==
  /\ ui_eip' = eip
  /\ UNCHANGED <<preview_matrix, program_cursor, last_byte_index_printed, first>>

(* The first byte shown, as cb_flush_ui infers it. *)
first_byte_printed ==
  IF last_byte_index_printed >= MatrixSize - 1
  THEN last_byte_index_printed - (MatrixSize - 1) ELSE 0

(* Mistake for the mutation runs: the last byte counts as outside before   *)
(* and as inside behind the window.                                        *)
Outside_OffByOne ==
  ui_eip < first_byte_printed \/ ui_eip > last_byte_index_printed + 1

Outside == ui_eip < first_byte_printed \/ ui_eip > last_byte_index_printed

(* The part of cb_flush_ui that concerns the program window. *)
FlushPreview(program) ==
  IF Outside THEN repopulate_matrix(program, ui_eip) /\ UNCHANGED ui_eip
  ELSE UNCHANGED previewvars

-----------------------------------------------------------------------------
(* What the window shows is a contiguous piece of the program.  After a    *)
(* flush it holds the byte at EIP, for every EIP inside the program, as    *)
(* long as the window is full.  One that the end of the program left       *)
(* partly empty looks to cb_flush_ui as if it began earlier than it does,  *)
(* by as many bytes as are empty: a jump back to one of those is not shown.*)
PreviewIsProgram(program) ==
  \A n \in 0..MatrixSize-1 :
    preview_matrix[n] =
      IF first + n < Len(program) THEN program[first + n + 1] ELSE 0

PreviewShowsEip(program) ==
  ui_eip < Len(program) =>
    /\ ui_eip < first + MatrixSize
    /\ first - (MatrixSize - Filled(Len(program), first)) <= ui_eip

===============================================================================
