# A verification development of the i386 emulator

TLA+ modules that model the emulator in `src/`, TLC configurations that check
them on small instances, and TLAPS proofs for every value of the constants.
Source files are named below relative to the repository's `src/` directory
(`core/cpu.c` is `src/core/cpu.c` in the repository).

1. [The system](#1-the-system)
2. [The modules](#2-the-modules)
3. [The runs](#3-the-runs)
4. [The proofs](#4-the-proofs)
5. [Where code and documentation disagree](#5-where-code-and-documentation-disagree)
6. [What is left out](#6-what-is-left-out)
7. [What could come next](#7-what-could-come-next)

## 1. The system

One thread runs everything. `main` reads the command line, opens the program's
listing, sets up the windows and calls `start()` in `machine/boot.c`, which boots
the machine (devices, bus, descriptor table, CPU, program) and then repeats, until
it has read a `q`:

```
interpreter()            end of program? - prefetch - decode - EIP += length
                         - handler - tick - pending interrupts
getch()                  a key -> enqueue, raise the keyboard's line
clock % refresh_rate     0 -> raise the VGA's line
ui_flush_ui()            draw the windows; the screen window if it was altered
```

What makes it hard is not threads. Several producers and consumers meet in one
loop without waiting for each other: the user at the terminal, the loop, the
interrupt handlers, and a guest program that polls memory-mapped registers
between any two of those steps. And the instruction set is implemented by
handlers in which the order of the steps, the width of an operand and the early
returns decide what a failure leaves behind. Around it are pieces that work only
if numbers in different files agree to the byte: the decoder's table and its
cursor, descriptors packed in one file and unpacked in another, the address at
which the loader begins and the one the CPU fetches from.

### Inventory

| Component | State | Operations | Talks to | What is hard | Correct when |
|---|---|---|---|---|---|
| Keyboard device and handler (`devices.c`, `interrupt_handlers.c`) | data register, status flag, ten-place array, count | `enqueue`, `dequeue`, bus read and write, `keyboard_handler` | loop (enqueue), interrupt controller, guest through the bus | the array is shifted on every key; `dequeue`'s result is ignored; the register is overwritten whether read or not | it is a bounded FIFO in front of a register; the count stays in the array |
| VGA device and screen window (`devices.c`, `ui/display.c`) | cells, dirty list with counter, dirty map; the window's glyphs and colour pair | `vram_write`, `update_screen_window`, `draw_cell` | guest through the bus, refresh | two representations of "dirty" that must agree; switching a colour pair on and off under different conditions | no store is forgotten; a clean cell is on the screen as it is in memory |
| Main loop, interrupt controller, clock, refresh (`boot.c`, `cpu.c`, `interrupt_cotroller.c`, `clock.c`) | pending lines, clock, `altered_vram`, last key | one turn of the loop | all devices, the interpreter | one pending bit for a queue of keys; a refresh goes through three steps of the loop; stopping | keys arrive once, in order; stores get drawn in time; `q` stops |
| ALU, flag policies, status register (`alu.c`, `flag_policy.c`) | six flags | `ALU`, `update_status_register`, jump conditions | handlers | results are kept in 32 bits for byte operations too; flags an operation does not write survive | jumps tell what the operands say |
| Instruction handlers (`internal/executor.c`) | nine registers, RAM, flags | one handler per opcode group | ALU, bus, stack, segments | rollbacks, partial failures, order of register write, clearing and moving ESP | failures leave no trace; the stack is last-in first-out |
| Interpreter and CPU state (`cpu.c`) | EIP, `halt`, return code | `interpreter`, `prefetch`, `check_instr` | decoder, handlers, interrupts | the end of the program stops interrupts but not the loop | instructions are fetched from the code segment |
| Bus, RAM, console stub (`bus.c`, `devices.c`) | region table, bytes | `bus_read`, `bus_write`, registration | handlers, devices, boot, loader | the first device that accepts wins; the RAM refuses its last three bytes; console reads leave the destination alone | every access reaches its device or is refused |
| Decoder and opcode tables (`internal/decoder.c`, `tables/`, `cpu.c`'s `to_byte_array`) | three counters of the unpacking loop, cursor, the instruction's fields | unpacking, prefixes, opcode, ModRM, SIB, displacement, immediate | interpreter | nothing tests the cursor; it may stand still (0x0F); immediates may exceed their array; opcodes without a row | the fields are the fetched bytes and `total_length` is the length of the instruction |
| Segmentation and GDT (`gdt.c`, `int_utils.c`) | descriptors in RAM, the segments' caches | `create_gdt`, `get_descriptor`, `get_base`, `get_limit`, `get_flag` | boot, CPU reset, jumps | fields are scattered over a descriptor; table size, descriptor size and selectors are in different files | the segments are where the table was meant to put them |
| Program loader (`program_loader.c`) | listing, byte array, offset | `parse_file`, `load_program` | boot, bus | lines of any length in a buffer of fixed size; the last dword is padded; results of the bus are ignored | memory holds the listing's bytes and nothing else changes |
| Boot (`boot.c`) | the parts of the machine | the order of initialisations | all of the above | any allocation may fail, and most are tested after their use | the loop begins with every part in place |
| Command line (`main.c`) | index, options | the walk over the arguments, the final message | loader, boot, UI | the index moves in five places; options are looked for at fixed places | `--delay` behind `--ui` behind the path takes effect, and no delay is made up |
| Program window (`ui/display.c`) | matrix of bytes, cursor, last index shown | `repopulate_matrix`, the test in `cb_flush_ui` | loader, loop (a copy of EIP) | the first index shown is inferred, not kept | it shows a piece of the program with EIP in it |
| Other windows (`ui/display.c`, `ui/utils.c`) | copies of CPU and instruction | printing | interpreter (copies) | none: nothing reads them back | - |

The hazards of this code, each with its line and with the properties that would
catch it going wrong, or the reason why none does, are listed in `PROJECT.json`.

## 2. The modules

```
KeyFifo     Framebuffer    ByteStack             abstract specifications
   ^             ^             ^                 (refinement mappings)
Keyboard        Vga            |       Alu
   ^             ^             |        ^
   +------+------+             |    Executor
       Machine                 |     ^  ^  ^
                               +- Stack |  Arithmetic
                                     Handlers

Opcodes                          Bus
   ^                              ^
Decoder        CommandLine     Loader    Preview    Gdt
   ^                ^             ^         ^        ^
MCDecoder           +-------------+----+----+--------+
                                    Startup
                                       ^
                                   MCStartup

DeviceProofs   ExecutorProofs <-+- HandlersProofs   DecoderProofs   theorems
     ^                          +- StackProofs      StartupProofs
MachineProofs                   +- ArithmeticProofs
```

`Keyboard` and `Vga` are the two devices; `Machine` extends both with the loop.
`Executor` is the instruction set over the `Alu`; `Arithmetic`, `Stack` and
`Handlers` extend it with history variables, a choice of instructions and the
properties about them. `Decoder` is one instruction from fetched dwords to the
decoded record. `Startup` composes what happens before the first instruction.
Constants stand for the sizes in the code and carry named assumptions.

Three compositions meet at narrow interfaces. `Decoder` ends where `Executor`
begins: with a record of fields and a length, and `Executor` may execute any
record of `Instr`. `Startup` ends where `Machine` begins: with the loop, every
part in place and the program in memory. `Machine` leaves open which instruction
runs, and `Executor` which devices beyond RAM and console exist.

Operators whose comment says *Mistake* are wrong versions of the definition that
follows them. No specification uses them; they document which slip in the code
each property would notice.

### Keyboard, KeyFifo

`kread`, `status`, `buffer` and `keystrokes` are the fields of `KeyboardDev`.
`Enqueue` shifts the live part of the array and inserts at index 0, or refuses;
`KeyboardHandler` is `dequeue` followed by the store through the bus, which
raises the flag, also when `dequeue` refused and left `data` at 0. The guest
reads the data register (`KeyboardReadData` lowers the flag) or stores into it.
A key is a number, the order in which the user typed it; `NoKey` is every byte
that is no keystroke. Keys that ncurses codes above 255 are cut to a byte by the
code and are keys like the others here.

`KeyFifo` is the promise: a bounded queue in front of a register. The mapping
reads the array from its high end down.

### Vga, Framebuffer

`vram`, `dirty` (whose length is `counter_vram_changes`) and `dirty_map` are the
device, `screen` and `pen` the ncurses window and its active colour pair. A
guest's store is `StoreChar`, `StoreAttr` or `StoreCell`, by width and parity of
the address; all end in `WriteCell`, the tail of `vram_write`. Stores that the
device refuses fail the instruction and are the action `Fail` of `Machine`.
`vram_write` ors the data into the cell without masking it; every handler hands
over a single byte, so the attribute is kept, and the model says so.
The walk of `update_screen_window` is one action per iteration
(`DrawDirtyCell`), so that a store in its middle could be seen. What ncurses does
with a control character is not modelled, except that a NUL draws nothing.

`Framebuffer` is the promise: a store makes a position stale, and showing a stale
position brings the screen up to date.

### Machine

`phase` is the place in the loop: `fetch`, `exec`, `getch`, `timer`, `flush`, or
why it was left (`off` by `q`, `failed`, `hung`). `Retire` is the end of
`interpreter()`: tick, keyboard handler, VGA handler, both lines acknowledged.
`EndOfProgram` is the early return, which skips the interrupts too. `GetKey` and
`GetNothing` are `getch` with `nodelay`. `Timer` raises the VGA's line on
multiples of the refresh rate, `DrawScreen` and `NextTurn` are the flush and the
loop's test. `Type` is the user, at any time, also while the decoder hangs.

Which instructions the guest runs is left open: between `Fetch` and `Retire` any
number of `ReadKeyStatus`, `ReadKey`, `WriteKey`, `WriteVram` may happen, and the
instruction may stop the program, fail (`Fail`, at any point) or hang the decoder.
The clock is a `long` in the code; only its value modulo the refresh rate is
looked at, and that is what is kept. `irc.enabled` is set to 1 at boot and never
changed, and has no variable.

History variables, read by properties only: `delivered`, `polled`, `taken`, `age`.

### Alu, Executor

`Alu` computes results and flags as `alu.c` does: on a whole dword also for byte
operations, with the borrow test, nibble test, overflow test and parity test of
the code as they are. `PolicyWrite` is what the flag policies let an operation
write. `JumpTaken` has the sixteen conditions; `Clear2` is how JL, JGE and JG
compare two masked words.

In `Executor` a handler is an operator from machines (records of the five
variables) to machines, whose `rc` is the handler's return code. `Then` is the
early return. Each action `AluRmR`, `PushR`, ... is one instruction: EIP moves
past it, then its handler runs. Which instruction lies at EIP is left open, so
every program over `Instr` is among the behaviours. `Instruction` is every record
the decoder can fill in, and `InstrAssumption` says that `Instr` has no other.
Things a reader may take for
slips of the model are the code's:

- registers are numbered as in the enumeration (4 is EIP, 8 is ESP), so an
  instruction that names register 4 means EIP;
- a byte write to registers 5 to 7 goes to the low byte of the 32-bit register of
  that number, a byte read from byte 1 of register `id % 4`;
- arithmetic with a memory destination stores 1 (`write_rm_dst`, a local
  `result` hides the parameter);
- POPA pops in the order in which PUSHA pushed;
- a pop writes the register, then clears the slot at ESP, then moves ESP;
- CALL rm32 checks no bound, and the other checks have an upper bound only;
- JMP rm32 replaces the low half of EIP, since the D bit is read from the wrong
  bit of the descriptor.

Uninitialised data is a choice: `JunkDword` for the dword a pop reads from the
console, `JunkFlags` for the flag word of INC.

The bus of this module knows RAM and console. The screen and the keyboard are in
`Machine`, and no instruction of the runs addresses them. Failures of prefetch
and decoder are `Machine`'s `Fail`. Bases and limits of the segments are
constants here; `Startup` says where they come from.

### Stack, ByteStack, Arithmetic, Handlers

`ByteStack` is the promise of the stack instructions: a last-in first-out
sequence of bytes with a capacity; a pop takes four bytes whatever pushes they
came from. `Stack` maps ESP and the RAM below `SS_TOP` to it and remembers open
calls. `Arithmetic` remembers the operation that last defined the flags.
`Handlers` has an instruction of every kind with operands in registers, memory,
on the console and off the bus; `Writes` is the set of registers an instruction
names, in the executor's numbering.

### Opcodes, Decoder

`Opcodes` is the table of `opcode_list.h`, reduced to the two columns the decoder
reads: whether a ModRM byte follows, and the number of bytes of immediate. Bytes
without a row find the first row of the table, as in the code. `Implemented` are
the opcodes with a handler that does something.

`Decoder` has the steps of the source's functions as stages: `unpack`
(`to_byte_array`, one iteration a step, with its three counters and the iteration
lost whenever `shift` reaches 32), `prefix`, `opcode`, `modrm`, `disp`, `imm`
(one `put_byte` a step), `done`. `field` holds what `put_byte` stored, by field;
the immediate has the array of four bytes of the code, and `PutImmediate` is what
happens to the bytes behind it: the fifth is `immediate_length` itself, which the
sixth is then indexed by. The escape byte 0x0F leaves the cursor where it is,
and `DecodeOpcode` repeats for ever.

`MCDecoder` gives the images: six runs of prefixes, one of them too long, before
every opcode byte, and behind every opcode with a ModRM byte sixteen forms of
address. All bytes behind are different, so that a field from the wrong place is
another value.

### Gdt, Bus, Loader, Preview, CommandLine, Startup

`Gdt` packs a descriptor as `create_gdt` does and unpacks it as the CPU's reset
does, with the middle byte of the base that `get_base` shifts out. `Bus` is the
table of ranges: `Taker` is the first device in the order of registration whose
range holds the address and which accepts the write. `Loader` reads the listing in
chunks (`Chunk`: what `fgets` takes), numbers in a chunk (`Skipped`, `Scanned`,
`Number`: what `sscanf(" %x%n")` and the cut to a byte make of it), and writes
dwords to the bus, whose answer it ignores. `CommandLine` is `main`: one argument a
step, then the places where `--ui` and `--delay` are looked for. `Preview` is the
program window: its matrix, and the test by which `cb_flush_ui` refills it.

`Startup` puts them in `main`'s order; `stage` names what runs next. An
allocation either gives memory or sets the history variable `starved`; where the
code uses the memory before its test the step ends in `crashed`, where it tests
first in `refused`. `Starves` has the allocations that no test follows: the record of
`create_program`, the matrix of the program window, and the array in which
`parse_file` collects the bytes, whenever it is full (`ArrayFull`). The one for the
finished program ends the process by `exit(1)` (`NoMemoryForProgram`). Memory that
ncurses and the C library take for themselves is not modelled, except that
`init_ui` may fail. `Turn` and `Flush` are the machine's loop as far as the
program window sees it: an instruction leaves EIP anywhere in `Eips`.

`ui_on` is initialised to true in `display_api.c` and never set to false, so the
branches without a UI are in the model but not in its behaviours; `--ui` changes
nothing but the place of the arguments behind it.

## 3. The runs

| Run | Specification | States | Shows |
|---|---|---|---|
| `machine_keys` | `FairSpec` | 42 871 | the queue is a mailbox until the program ends, no key lost, delivery in order, a guest that polls gets fresh keys and a flag it has seen up stays up, the array implements the FIFO, nothing the guest shows changes after the end of the program, `q` stops the machine, keys arrive |
| `machine_screen` | `FairSpec` | 604 427 | list and map agree (so the list's size test drops no store), clean cells shown, the frame buffer is implemented, stores are drawn within `RefreshRate` + 1 instructions and eventually, no store interrupts a refresh |
| `arithmetic` | `ArithSpec` | 71 768 | CF is the true carry over INC, DEC, moves and jumps; unsigned jumps are right; signed jumps are right for non-negative dwords |
| `stack` | `StackSpec` | 22 503 | the byte stack is implemented, returns go behind their calls, popped slots are clear |
| `handlers` | `HandlersSpec` | 137 160 | values keep their widths, failures leave no trace, pushes never touch older bytes, registers an instruction does not name keep their values |
| `decoder` | `FairSpec` | 300 259 | the fields are the fetched bytes, the cursor stays within them, lengths are the architecture's, overrun instructions are never executed, decoding ends |
| `startup` | `FairSpec` | 205 142 | the listing is in memory and nothing else changed, segments are where the table says, the loop starts on a complete machine, the program window shows EIP, `--delay` takes effect, starting up ends |
| `quit_hang`, `zero_flag`, `jump_if_less`, `jump_bounds`, `memory_result` | | | expected violations, see section 5 |

### Properties worth a word

*QueueIsMailbox.* The keyboard's interrupt is one bit, and one interrupt dequeues
one key. That is enough only because the loop reads one key per turn and handles
interrupts in every turn: the ten-place queue never holds more than one key. When
the program has ended interrupts are not handled any more and the queue fills up;
the other nine places are used only then.

*PolledReadIsFresh.* Keys overwrite each other in the register. A guest that
waits for the flag and then reads, with any number of keys typed and handled
between the two instructions, may miss keys but never gets one twice or an old
one late.

*ScreenIsRecent.* The request is raised after an instruction that completes a
period, granted by the interrupt after the next one, and drawn in the same turn.
A store by the program's first instruction comes before the first full period and
waits for `RefreshRate` + 1 instructions, every later one for at most
`RefreshRate`.

*NamedRegistersOnly.* Registers are numbered twice: by the instruction set and by
the enumeration, which agree up to 3 only. An instruction changes the registers
its numbers name, read in the enumeration, and otherwise leaves EIP behind itself;
so number 4 makes even INC and MOV jump, and `mov ch, 1` changes EBP.

*LengthIsArchitectural.* EIP moves by `total_length`, so a wrong length shows only
in the next instruction. The property computes the length from the bytes with a
definition of its own (the IA-32 rules for mod, rm and SIB), for the opcodes that
have a handler. Instructions with a 0x66 or 0x67 prefix are excluded: the decoder
notes the prefixes and does not shorten anything.

*OverrunNeverExecuted.* CALL and JMP with a far pointer have six bytes of
immediate, in an array of four. The bytes behind are the instruction's own lengths;
none of those opcodes has a handler, so the emulation ends with the instruction.

*BytesAreText.* A definition of the bytes from the listing alone, by where numbers
end, against chunks, scans and buffers: comments are not read as bytes, and numbers
are in order. Only for lines that fit the buffer: a longer line is taken in pieces.
Numbers are digits alone, without a sign or `0x`.

*ImageExact.* The whole RAM after loading: the descriptor table
is untouched, the program's bytes are in place, zeros fill the last dword, and
what does not fit in RAM is dropped (its last bytes may reach a device behind it).

*MachineComplete.* Most allocations are tested after their use, and three never. What
is true: the loop never begins without one of its parts, and only failed allocations
crash.

*PreviewRight.* After a flush the window holds EIP, unless the window had been left
partly empty by the end of the program; the property says exactly how far before
it EIP may then be. With the code's 130 bytes: a program of 200 that jumps to 150 and
then back to 100 has 100 outside the window.

*DelayAsGiven.* Holds for `--ui` before `--delay`, both behind the path, where main
looks. In other orders the delay is lost; all the property says of them is that no
delay is made up.

*CarryKept, UnsignedJumps.* The first excludes an SBB whose subtrahend plus borrow is
2^32, which wraps, the second is about CMP and SUB. After an AND, OR, XOR or TEST
nothing is said about CF, which the code leaves as it was.

*FailureIsClean, OlderSlotsKept.* PUSHA, POPA, CALL rel32 and POP ESP may fail
after some of their steps; the first property leaves them out and the second
holds of the pushing ones also when they fail.

*ImplementsByteStack.* A CALL rel32 whose target is out of bounds leaves the
return address pushed: for the byte stack it is a push. A pop of three bytes (after
PUSH imm8) succeeds and moves ESP above the stack; the abstract specification
promises nothing from then on and the run stops there (`broken`).

### Bounds

- `MachineKeys.cfg`: 4 keys and a buffer of 2, so that the queue overflows after
  the end of the program; one cell, no characters: the screen has its own run. A
  full queue in any other order of events, and every size, is `DeviceProofs`.
- `MachineScreen.cfg`: no keys, 2 x 1 cells, so that dirty lists of every length up
  to the full one occur; attributes 2 (a pair switched on and not off) and 9
  (switched off); `RefreshRate` 3. The two runs are separate because keys and stores
  do not influence each other; the proofs are about both at once.
- Words: TLC's integers have 32 bits, so bytes are scaled to 2 bits and nibbles
  to 1; a dword then has 8 bits. `Words` has both ends and the middle of the
  range. `CS_LIMIT` 4 in `Arithmetic.cfg` bounds a program to four one-byte
  instructions: two moves, an operation, and one in between or a jump.
- `Stack.cfg`: 11 bytes of RAM: two dwords, or one and a few bytes, so that full,
  refused, odd-sized and underflowing stacks occur. `CS_LIMIT` bounds addresses,
  not the length of programs, as calls go back.
- `Handlers.cfg`: 37 bytes of RAM take one PUSHA and not two, programs have
  `MaxSteps` = 4 instructions. One value of `JunkDword` and of `JunkFlags` each;
  `Arithmetic.cfg` takes both extremes of the flags.
- `Decoder.cfg`: one instruction over the images of `MCDecoder`; the proofs are for
  all images.
- `Startup.cfg`: command lines of up to four arguments behind the program's name
  over five words, and longer ones where `--delay` can be found; listings of up to
  four characters of five classes, and programs that end around the end of the RAM
  and behind it. RAM of 2060 bytes leaves 12 above the code segment's base, so the
  loader runs off its end; devices of 4 bytes lie behind it with gaps. `BUFF_SIZE` is
  4 (200 in the code), `FirstCapacity` 4 (50), `MatrixSize` 4 (130), so lines and
  programs around these sizes occur, and arrays that are full once or several times. EIPs are at and around the borders of the window and beyond the
  program. A listing's number has no sign and no `0x` prefix, both of which `%x`
  would take; tabs are blanks.
- Deadlock is not checked where programs end: `arithmetic`, `stack`, `handlers`.

### Fairness

`FairSpec` adds weak fairness of `Emulator`, the steps of the emulator's own
thread. It is justified because nothing in the loop waits: the terminal is in
`nodelay` mode, so `getch` returns at once; an instruction makes a bounded number
of accesses before it retires; a refresh draws a list of bounded length. The user
and the guest's accesses have no fairness: nobody need type, and no store need
happen. `sleep` between instructions (`--delay`) takes time and no step. The
hang in the decoder is an action of its own that no fairness excludes.

`Decoder`'s `FairSpec` is weak fairness of its only process, a function call.
`Startup`'s is weak fairness of `Main` and `Boot`, which wait for nothing: the file
is read to its end and every loop has a bound. The machine's loop has none there.

## 4. The proofs

`tlapm` checks every theorem of the eight proof modules. Every safety property of
every passing run, invariant or action property, and every refinement is one of
them: the run shows it on a small instance, the theorem for every value of the
constants. What each rests on:

- the assumptions of the modules: positive buffer, screen and refresh rate; NUL a
  character; attributes bytes; the order of the memory map; a buffer for at least
  one character and the end of the string; nibbles and bytes of at least one bit;
- `LayoutAssumption`: the code segment ends four bytes before the end of the RAM,
  the stack begins at its last byte, and above the RAM at least eight addresses of
  the address space are left, which neither RAM nor the four of the console answer
  all. The code has 16 KiB of RAM (`RAM_SIZE` 0x4000) in 4 GiB;
- `InstrAssumption`: the program is made of what the decoder can deliver;
- where a theorem says so, that the program is of a certain kind. The programs of the
  runs are (`RunsAreLifo`, `RunsAreFlagPrograms`), so the theorems reach further than the
  runs in the program too.

**DeviceProofs.** `KbTypeOK` is inductive. For the refinement, lemmas relate
the shifted array to sequences: `ShiftInAppends` (shifting in appends to the
contents) and `OldestIsHead` (the highest live element is the head and the rest
the tail); each action then is an action of `KeyFifo`. `VgaInv` = types,
`DirtyListMatchesMap`, `CleanCellsShown`, is inductive. That the list's size test
never drops a store needs the pigeonhole principle: the list has no duplicates, so a
list of `NumCells` entries names every cell (`RoomInDirtyList`, from
`FiniteSetTheorems`). `find_cell` is injective, so marked indices and stale positions
correspond, which the refinement of `Framebuffer` needs.

**MachineProofs.** First the loop is shown to drive each device as its own
specification allows (`MachineDrivesKeyboard`, `MachineDrivesVga`); the second
needs `FlushInv`: a refresh is under way only in the flush phase. This brings the
devices' invariants to the machine. Then three inductive invariants:
`KeyInv` strengthens the mailbox and `NoKeyLost` with "an instruction in progress
means the program has not ended"; `PollInv` relates register, flag, the last key
delivered and the last key taken; `AgeInv` bounds `age` by where in its period the
clock is, case by case of the phase.

**ExecutorProofs.** `ExecutorTypeOK` is inductive, and the three modules about
programs rest on it. It needs arithmetic the provers do not have. Powers of two are
positive because they number the subsets of a set; quotients and remainders are what
division says; the sizes of words divide each other. The logic operations of `Alu`
choose the dword whose ones are a given set of bits: that there is one is `OnesExist`,
by induction over the number of bits. The induction is stated with a set (`NatInSet`,
from `WellFoundedInduction`), as theorems that take an operator are out of reach.
Then one
lemma per operator of a handler: it maps `Machines` to `Machines`.

**HandlersProofs.** Each operator a handler is made of is shown to give a *clean*
machine: one that, if it failed, has the registers, memory and flags it was
given. `PushClean` is the rollback, `PopClean` that a pop that has read its slot
can also clear it, since the register written is not ESP. The invariant is only
that the register file has its nine registers. A second series of lemmas has the same
shape: each operator *keeps* the registers outside a set, and sets compose along
`Then`; `ExecuteKeeps` compares the set of each handler with `Writes`. A third is for
`PushesKeepOlderSlots`: a push lowers ESP by its size before it stores, and either
stores below where ESP was or is refused; eight of them in PUSHA do the same, also
when one in the middle fails. All hold for every set of instructions.

**StackProofs.** Two lemmas on words: the bytes of a dword put together are the dword,
and four bytes taken from a dword are the bytes. What a push and a pop do to a machine
is then stated by the depth of the stack (`PushEffect`, `PopEffect`), and `StackStep`
says of every instruction of a `LifoInstr` program that it pushes, pops or keeps
the stack. Such programs push, pop, call relatively and return in any order,
jump, and move and calculate into registers other than ESP. Left out are stores
to memory, other writes of ESP, and PUSHA, POPA and CALL rm32, which the byte stack
does not describe. On top of this:

- `PoppedSlotsCleared` is inductive;
- `FramesLie` is the inductive invariant behind `ReturnAddressRight`: of every open
  call, the return address is the dword at its depth, and the depth is on the stack.
  Pushes lie above it; a pop that reaches into it ends the call;
- the refinement: the bytes above ESP, read from the top of the RAM down, are the
  abstract stack, and each of the three kinds of step is one of `ByteStack`.

**ArithmeticProofs.** First, instruction by instruction: nothing but arithmetic, CLC
and STC changes the status register, and INC and DEC leave CF alone. Then the flags of each
operation against the integers: carry and borrow as the code tests them, zero, sign,
and the overflow of an addition that stands in for that of a subtraction. The
inductive invariant `FlagsTell` says what the flags tell of the operation that last
defined them; the three properties follow. A `FlagInstr` program has two-operand
arithmetic on registers only, since a memory operand that is not found leaves the
flags of the operation before; everything else may stand between, on memory and stack
too. The jumps need bytes of more than one bit.

**DecoderProofs.** `IInv` joins the types, `UnpackInv` (dword index and shift
address the byte `byte_index`, with the extra iteration after every fourth byte),
`Shape` (where the cursor is in each stage, and how long each field is), `Contents`
(the fields are consecutive pieces of the queue) and the same for the immediate.
The bound of the cursor follows from the shapes and one fact about the table: no
row has both six bytes of immediate and a ModRM byte. The length equation follows
from the shapes and `ImplementedRows`: for opcodes with a handler, the table and the
architecture agree.

**StartupProofs.** `StageInv` is what each stage has done: allocated
parts, registered devices, rows, callbacks. `TextInv` is that what is left of the
listing is text and every number a byte (`ChunkRange`, `ScannedDigits`: minima of
sets exist by well-foundedness). `DelayInv` follows the index over the arguments,
`PreviewInv` relates cursor, last index and the history variable `first`. `RamInv`
says how far the copy has come: the RAM is what it was, with the program up to the
offset; as the RAM's size is a multiple of four no dword is written half. `TableInv`
follows the rows byte by byte into memory and back into the segments. `TypeInv`
collects the types, which need all the others.

`BytesAreText` defines the bytes by counting where numbers end, and no induction over
the listing is needed: the inductive invariant `ParseInv` says that the bytes parsed
so far are the numbers that end in the part read so far, as many as
`FiniteSetTheorems` counts of them, and in their order. It needs that a chunk is
the rest of a line whenever lines fit the buffer, so that no number and no comment is
cut in two. TLC checked it on the run's instance before the proof.

Of any descriptor at all, whatever the table: limit, access byte and flags are read
back; the base is, exactly when its middle byte is zero; the bit taken for D is bit 6
of the base whatever the flags.

**What the proofs showed about the model.** A push on a full stack wraps below address
0 to the top of the address space, and is refused only because no device answers
there: hence the eight addresses of `LayoutAssumption`. A taken jump is to be told
from one not taken modulo 2^32, since EIP wraps where the code segment's base is above 0.
And a memory operand that is not found fails the instruction with the flags of the one
before, so two-operand arithmetic on memory is outside `FlagInstr`.

**Only model-checked.** Liveness (`QuitStops`, `KeysArrive`, `StoresShown`,
`DecodingEnds`, `StartupEnds`): TLAPS does not reason about fairness and ENABLED. The
five violations of section 5 are TLC's too.

## 5. Where code and documentation disagree

| Run | Says | Does |
|---|---|---|
| `quit_hang` | `main.c:24` "Press 'q' or ctrl-c to quit the emulator" | the decoder never leaves its loop on the byte 0x0F, and `getch` is not called again |
| `zero_flag` | `register_ids.h:27` "ZF = 1 if result is zero" | a byte operation that wraps to zero leaves ZF clear |
| `jump_if_less` | `executor.c:1028` "Jump short if less (SF≠OF)" | the masked words 1 and 32 are compared: taken if either flag is set, and OF after CMP is that of an addition |
| `jump_bounds` | `executor.c:877` "bounds check, if wrong, rollback and raise error" | only the upper bound is checked |
| `memory_result` | `example_programs/ADC_test.txt:6` expects the sum in `[eax]` | memory receives 1 |

Met while modelling, and without a run: SBB's borrow is lost when the subtrahend
plus the borrow wraps (`alu.c:38`); logic operations keep CF and OF although the table
at `flag_policy.c:50` lists both as cleared, and nothing reads a policy's `clear`; the
refresh counts instructions where `devices_internal.h:33` says it is based on time;
the pair of colours of a cell may stay on for later cells whose attribute names none
(`display.c:846`).

In the decoder: ENTER has four bytes of immediate in the table (three in the
architecture), group 3 (0xF6, 0xF7) none for TEST; a 0x66 prefix does not shorten
an immediate; a fifth prefix is taken for an opcode. None of these opcodes has a
handler, except those an unshortened immediate belongs to.

In starting up: `--delay` is found only as the second argument behind the path, so
`--program p --delay 100` runs without one, and `--ui` before `--program` does not
help; a segment violation prints two messages, since its case in `main.c:89` falls
through; a boot that fails prints none. `get_base` loses the middle byte of a base,
contrary to its comment, harmlessly for the bases of `create_gdt`. The data and the
stack segment overlap. The comment on the segments at `boot.c:96` counts the
selectors' indices differently from the reset. A line of more than 199
characters is read in pieces, and the pieces of a long comment may be read as bytes.
The program window does not show a jump back to bytes just before it after the end
of the program left it partly empty.

## 6. What is left out

- Layout and wording of the windows, and everything only printed: the windows for
  registers, memory, stack and last instruction, `ui/utils.c` and
  `ui/str_opcode_list.c`. They read copies, and nothing reads them back. The screen
  window is in `Vga` and `Machine`, the program window in `Preview`.
- Accesses of 16 bits: the bus and the devices offer them, no handler asks.
- The table of two-byte opcodes: the decoder never gets past the escape byte.
- NEG, shifts and rotates of `alu.c`: no handler asks for them.
- Destroying the machine, which only frees.
- What the undefined result of `check_instr` (`cpu.c:110`) holds: `Machine` lets
  any fetch fail, which covers both outcomes.

## 7. What could come next

1. Programs that store to memory and set ESP in `StackProofs`, under the condition
   that a store lies above the top of the stack or below its bottom and outside the
   frames: today they are left out altogether.
2. `Executor` over `Bus` with all four devices, so that instructions reach the
   keyboard and the screen, with `Machine`'s guest accesses as its abstraction.
3. Prefetch at the end of the RAM, composed with `Decoder`: `Startup`'s segments
   keep it away from the code segment's end with the sizes of the code.
