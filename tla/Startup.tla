---------------------------------- MODULE Startup ----------------------------------
(***************************************************************************)
(* From the command line to the machine's loop: main, init_ui, and         *)
(* boot_sequence (machine/boot.c) with the bus, the descriptor table, the  *)
(* reset of the CPU (core/cpu.c) and the loader; then the loop as far as   *)
(* the program window sees it, and the end.                                *)
(*                                                                         *)
(* Memory may run out in any allocation these files make.  Those whose     *)
(* result is used before it is tested, or never tested, end in a crash.    *)
(***************************************************************************)
EXTENDS CommandLine, Loader, Preview, Gdt, FiniteSets

CONSTANTS
  Inputs,      \* command lines, each with the characters of the file at Path
  Eips,        \* the values of EIP that instructions may leave
  Failures     \* the return codes of interpreter that end the loop

ASSUME StartupAssumption ==
  /\ \A input \in Inputs :
       input.command \in Seq(STRING) /\ input.text \in Seq(Character)
  /\ Eips \subseteq Nat
  /\ \A word \in DOMAIN Millis : Millis[word] \in Int

VARIABLES
  callbacks,   \* machine_state.ui_callbacks is filled
  allocated,   \* the parts of the machine that have their memory
  ui_pointers, \* the parts whose addresses the UI has been given
  starved,     \* history: an allocation has failed
  next_row,    \* the row of the table that create_gdt writes next
  segments,    \* the cached parts of CS, DS and SS
  text         \* history: the file's contents

bootvars == <<callbacks, allocated, ui_pointers, starved, next_row, segments>>
vars == <<clivars, busvars, loadvars, previewvars, bootvars, text>>

Init ==
  /\ \E input \in Inputs : CliInit(input.command) /\ text = input.text
  /\ BusInit /\ LoaderInit /\ PreviewInit
  /\ callbacks = FALSE /\ allocated = {} /\ ui_pointers = {} /\ starved = FALSE
  /\ next_row = 1
  /\ segments = [s \in {} |-> 0]

Goto(next) == stage' = next /\ UNCHANGED <<argv, i, ui_on, delay, report>>
RestUnchanged == UNCHANGED <<busvars, loadvars, previewvars, text>>

Main ==
  /\ Help \/ NextArgument \/ NoProgram \/ CannotOpen \/ Opened \/ Options
  /\ UNCHANGED <<busvars, loadvars, previewvars, bootvars, text>>

-----------------------------------------------------------------------------
(* Allocations nobody tests.                                               *)

RunsOut ==
  /\ starved' = TRUE /\ Goto("crashed")
  /\ UNCHANGED <<callbacks, allocated, ui_pointers, next_row, segments>>
  /\ RestUnchanged

(* create_program's record, filled once the file is open. *)
NoMemoryForPath == stage = "open" /\ Arg(i) = Path /\ RunsOut

(* The matrix of the program window, drawn at once. *)
NoMemoryForMatrix == stage = "ui" /\ RunsOut

(* The array of DA_APPEND, when it has to grow for the next byte. *)
NoMemoryForByte ==
  /\ stage = "load" /\ phase = "scan" /\ Scanned(buff) > Skipped(buff)
  /\ ArrayFull
  /\ RunsOut

Starves == NoMemoryForPath \/ NoMemoryForMatrix \/ NoMemoryForByte

-----------------------------------------------------------------------------
(* init_ui: the windows may not fit the terminal, and main gives up. *)

(* Mistake for the mutation runs: the callbacks are installed only when    *)
(* the user asked for the UI.                                              *)
init_ui_OnRequest ==
  /\ stage = "ui"
  /\ \/ /\ callbacks' = (\E n \in 1..argc : argv[n] = "--ui")
        /\ Goto("start")
     \/ /\ stage' = "exit" /\ report' = <<"UI_FAILED">>
        /\ UNCHANGED <<callbacks, argv, i, ui_on, delay>>
  /\ UNCHANGED <<allocated, ui_pointers, starved, next_row, segments>>
  /\ RestUnchanged

init_ui ==
  /\ stage = "ui"
  /\ \/ callbacks' = TRUE /\ Goto("start")
     \/ /\ stage' = "exit" /\ report' = <<"UI_FAILED">>
        /\ UNCHANGED <<callbacks, argv, i, ui_on, delay>>
  /\ UNCHANGED <<allocated, ui_pointers, starved, next_row, segments>>
  /\ RestUnchanged

-----------------------------------------------------------------------------
(* boot_sequence.  calloc either gives the part its memory or fails.       *)

Devices == <<"ram", "console", "vga", "keyboard", "clock">>
ShownInUi == {"ram", "vga", "keyboard"}

(* A device's init_ function: it fills the memory at once, and hands its   *)
(* address to the UI through a callback.  Only init_clock does neither.    *)
init_device(d) ==
  \/ /\ (d \in ShownInUi /\ ui_on) => callbacks
     /\ allocated' = allocated \cup {d}
     /\ ui_pointers' = IF ui_on THEN ui_pointers \cup ({d} \cap ShownInUi) ELSE ui_pointers
     /\ Goto(IF d = "clock" THEN "bus" ELSE stage)
     /\ UNCHANGED starved
  \/ /\ d \in ShownInUi /\ ui_on /\ ~callbacks
     /\ Goto("crashed")
     /\ UNCHANGED <<allocated, ui_pointers, starved>>
  \/ /\ starved' = TRUE
     /\ Goto(IF d = "clock" THEN "bus" ELSE "crashed")
     /\ UNCHANGED <<allocated, ui_pointers>>

InitDevice ==
  /\ stage = "start"
  /\ \E n \in 1..5 :
       /\ Devices[n] \notin allocated /\ \A m \in 1..n-1 : Devices[m] \in allocated
       /\ init_device(Devices[n])
  /\ UNCHANGED <<callbacks, next_row, segments>>
  /\ RestUnchanged

(* The test of the five pointers, then create_bus, which uses its memory   *)
(* before boot_sequence tests it.  "refused" is boot_sequence's NULL.      *)
CreateBus ==
  /\ stage = "bus"
  /\ \/ /\ {"ram", "console", "vga", "keyboard", "clock"} \subseteq allocated
        /\ \/ allocated' = allocated \cup {"bus"} /\ Goto("map") /\ UNCHANGED starved
           \/ starved' = TRUE /\ Goto("crashed") /\ UNCHANGED allocated
     \/ /\ ~ {"ram", "console", "vga", "keyboard", "clock"} \subseteq allocated
        /\ Goto("refused")
        /\ UNCHANGED <<allocated, starved>>
  /\ UNCHANGED <<callbacks, ui_pointers, next_row, segments>>
  /\ RestUnchanged

(* create_addr_space, one bus_register a step. *)
Registration == <<"ram", "console", "vga", "keyboard">>

RegisterDevice ==
  /\ stage = "map"
  /\ bus_register(Registration[Len(map) + 1]) /\ UNCHANGED <<ram, strays>>
  /\ Goto(IF Len(map) + 1 = Len(Registration) THEN "gdt" ELSE stage)
  /\ UNCHANGED <<loadvars, previewvars, bootvars, text>>

(* create_gdt, one create_gdt_entry a step: both dwords must be taken.     *)
RowAddress(row) == GDT_BASE_ADDR + GDT_DESC_SIZE * (row - 1)

CreateEntry ==
  /\ stage = "gdt"
  /\ LET d    == Descriptor(Rows[next_row])
         addr == RowAddress(next_row)
     IN IF Taker(addr) = "ram" /\ Taker(addr + 4) = "ram"
        THEN /\ ram' = [a \in DOMAIN ram \cup (addr..addr+7) |->
                          IF a \in addr..addr+7 THEN d[a - addr + 1] ELSE ram[a]]
             /\ next_row' = next_row + 1
             /\ Goto(IF next_row = Len(Rows) THEN "cpu" ELSE stage)
        ELSE Goto("refused") /\ UNCHANGED <<ram, next_row>>
  /\ UNCHANGED <<map, strays, callbacks, allocated, ui_pointers, starved, segments>>
  /\ UNCHANGED <<loadvars, previewvars, text>>

(* create_cpu and cpu_protected_mode_reset: the selectors, and the caches  *)
(* filled from the table.  A descriptor behind the table's end is zero.    *)
Selector == [CS |-> 19, DS |-> 27, SS |-> 35]   \* 0x13, 0x1B, 0x23

(* Mistake: the last byte of the table is taken for the size. *)
get_descriptor_Short(index) ==
  IF index * GDT_DESC_SIZE + GDT_DESC_SIZE - 1 >= GDT_SIZE - 1 THEN [n \in 1..8 |-> 0]
  ELSE [n \in 1..8 |-> RamByte(GDT_BASE_ADDR + index * GDT_DESC_SIZE + n - 1)]

get_descriptor(index) ==
  IF index * GDT_DESC_SIZE + GDT_DESC_SIZE - 1 > GDT_SIZE THEN [n \in 1..8 |-> 0]
  ELSE [n \in 1..8 |-> RamByte(GDT_BASE_ADDR + index * GDT_DESC_SIZE + n - 1)]

SegmentCache(selector) ==
  LET d == get_descriptor(selector \div 8)
  IN [base |-> get_base(d), limit |-> get_limit(d), flag |-> get_flag(d)]

ResetCpu ==
  /\ stage = "cpu"
  /\ \/ /\ allocated' = allocated \cup {"cpu"}
        /\ segments' = [s \in DOMAIN Selector |-> SegmentCache(Selector[s])]
        /\ Goto("load")
        /\ UNCHANGED starved
     \/ /\ starved' = TRUE /\ Goto("refused")
        /\ UNCHANGED <<allocated, segments>>
  /\ UNCHANGED <<callbacks, ui_pointers, next_row>>
  /\ RestUnchanged

(* load_program, with the file that create_program has opened. *)
OpenFile ==
  /\ stage = "load" /\ StartLoading(text)
  /\ UNCHANGED <<clivars, previewvars, bootvars, text>>

(* The UI is given the program between its parsing and its loading. *)
Load ==
  /\ stage = "load"
  /\ \/ EndOfFile /\ (IF ui_on THEN SetProgram(arr) ELSE UNCHANGED previewvars)
     \/ /\ ReadLine \/ ScanByte \/ EndOfLine \/ CopyDword \/ CopyRemainder
        /\ UNCHANGED previewvars
  /\ UNCHANGED <<clivars, bootvars, text>>

(* malloc(0) may return NULL, and an empty program end in exit(1); with    *)
(* any other program NULL means that memory has run out.                   *)
NoMemoryForProgram ==
  /\ stage = "load" /\ phase = "read" /\ rest = <<>>
  /\ Goto("exit")
  /\ UNCHANGED <<busvars, loadvars, previewvars, bootvars, text>>

(* The machine's record is filled before its pointer is tested. *)
CreateMachine ==
  /\ stage = "load" /\ phase = "loaded"
  /\ \/ allocated' = allocated \cup {"machine"} /\ Goto("loop") /\ UNCHANGED starved
     \/ starved' = TRUE /\ Goto("crashed") /\ UNCHANGED allocated
  /\ UNCHANGED <<callbacks, ui_pointers, next_row, segments>>
  /\ RestUnchanged

-----------------------------------------------------------------------------
(* start's loop: an instruction leaves EIP somewhere and the UI a copy of  *)
(* it, or the program has ended; cb_flush_ui follows, and the test for q.  *)

Turn ==
  /\ stage = "loop"
  /\ Goto("flush")
  /\ (ui_on /\ \E eip \in Eips : CopyCpu(eip)) \/ UNCHANGED previewvars
  /\ UNCHANGED <<busvars, loadvars, bootvars, text>>

Flush ==
  /\ stage = "flush"
  /\ IF ui_on THEN FlushPreview(arr) ELSE UNCHANGED previewvars
  /\ \/ Goto("loop")
     \/ Report("MACHINE_TURN_OFF") /\ UNCHANGED <<argv, i, ui_on, delay>>
  /\ UNCHANGED <<busvars, loadvars, bootvars, text>>

(* start returns a failure of the interpreter, or MACHINE_FAILURE. *)
Stop ==
  /\ \/ stage = "loop" /\ \E status \in Failures : Report(status)
     \/ stage = "refused" /\ Report("MACHINE_FAILURE")
  /\ UNCHANGED <<argv, i, ui_on, delay, busvars, loadvars, previewvars, bootvars, text>>

Ended == stage \in {"exit", "crashed"} /\ UNCHANGED vars

Boot ==
  \/ init_ui \/ InitDevice \/ CreateBus \/ RegisterDevice \/ CreateEntry \/ ResetCpu
  \/ OpenFile \/ Load \/ NoMemoryForProgram \/ CreateMachine \/ Starves

Next == Main \/ Boot \/ Turn \/ Flush \/ Stop \/ Ended

Spec == Init /\ [][Next]_vars

(* main and boot_sequence wait for nothing. *)
FairSpec == Spec /\ WF_vars(Main \/ Boot)
-----------------------------------------------------------------------------
StartupTypeOK ==
  /\ stage \in {"arguments", "open", "options", "ui", "start", "bus", "map", "gdt", "cpu",
                "load", "loop", "flush", "refused", "crashed", "exit"}
  /\ i \in 0..argc+1 /\ ui_on \in BOOLEAN /\ delay \in Int
  /\ map \in Seq(Device)
  /\ \A a \in DOMAIN ram : a \in Address /\ ram[a] \in Byte
  /\ strays \subseteq Device
  /\ phase \in {"wait", "read", "scan", "copy", "loaded"}
  /\ rest \in Seq(Character) /\ buff \in Seq(Character) /\ Len(buff) < BUFF_SIZE
  /\ arr \in Seq(Byte) /\ offset \in 0..Len(arr)
  /\ preview_matrix \in [0..MatrixSize-1 -> Byte]

(* The program in memory is the listing: on every line the numbers before  *)
(* the first character that belongs to none, in order, each cut to its     *)
(* last two digits; what follows on a line, its comment, is never read as  *)
(* bytes.  Lines must fit parse_file's buffer: a longer one is taken in    *)
(* pieces, and the later pieces of a comment may look like numbers.        *)
(* Numbers are digits alone, with neither a sign nor 0x, which Loader has  *)
(* no characters for.                                                      *)
LinesFit ==
  \A p \in 1..Len(text)-(BUFF_SIZE - 1) :
    \E q \in p..p+BUFF_SIZE-2 : text[q] = Newline

NumberEnds ==
  {p \in 1..Len(text) :
     /\ text[p] \in Digit
     /\ p < Len(text) => text[p + 1] \notin Digit
     /\ \A q \in 1..p : text[q] = Other => \E r \in q..p : text[r] = Newline}

BytesAreText ==
  phase \in {"copy", "loaded"} /\ LinesFit =>
    /\ Len(arr) = Cardinality(NumberEnds)
    /\ \A p \in NumberEnds :
         arr[Cardinality({q \in NumberEnds : q <= p})] =
           text[p] + (IF p > 1 /\ text[p - 1] \in Digit THEN 16 * text[p - 1] ELSE 0)

(* Once the machine runs, the three segments are where create_gdt put      *)
(* them, with their limits and rights, and the first byte fetched, at EIP  *)
(* 0 of the code segment, is the first of the program: selectors, size of  *)
(* the table, layout of a descriptor and the loader's address fit.         *)
SegmentIs(s, row) ==
  segments[s] = [base |-> row.base, limit |-> row.limit,
                 flag |-> row.access + 4096 * row.flags]

SegmentsAsWritten ==
  stage \in {"loop", "flush"} =>
    /\ SegmentIs("CS", Rows[3]) /\ SegmentIs("DS", Rows[4]) /\ SegmentIs("SS", Rows[5])
    /\ arr # <<>> /\ segments["CS"].base \in Address =>
         RamByte(segments["CS"].base) = arr[1]

(* No part of the machine is used before it is there: start's loop begins  *)
(* with every part allocated, the bus and the table filled, and the UI's   *)
(* callbacks and pointers set; and nothing but memory running out crashes. *)
MachineComplete ==
  /\ stage = "crashed" => starved
  /\ stage \in {"loop", "flush"} =>
       /\ allocated = {"ram", "console", "vga", "keyboard", "clock", "bus", "cpu", "machine"}
       /\ map = Registration /\ next_row > Len(Rows) /\ phase = "loaded"
       /\ ui_on => callbacks /\ ui_pointers = ShownInUi

(* The program window, between two turns of the loop. *)
PreviewRight ==
  stage = "loop" /\ ui_on => PreviewIsProgram(arr) /\ PreviewShowsEip(arr)

(* Whatever the command line and the file, starting up comes to an end:    *)
(* the machine's loop, or the end of the process.                          *)
StartupEnds == <>(stage \in {"loop", "exit", "crashed", "refused"})

===============================================================================
