----------------------------------- MODULE Bus -----------------------------------
(***************************************************************************)
(* The bus (hardware_sim/bus.c) as boot and the loader use it: a table of  *)
(* address ranges filled in the order of registration, and writes of four  *)
(* bytes, taken by the first device whose range holds the address and      *)
(* which accepts them.  RAM keeps its bytes; of the other devices only     *)
(* whether a write reached them is of interest here.                       *)
(***************************************************************************)
EXTENDS Integers, Sequences

CONSTANTS RAM_SIZE, CONSOLE_BASE_ADDR, CONSOLE_SIZE,
          VGA_BASE_ADDR, VGA_SIZE, KEYBOARD_BASE_ADDR, KEYBOARD_SIZE

RAM_BASE_ADDR == 0
MAX_DEVICES   == 4

(* The ranges of memmap.h, in this order and without overlap. *)
ASSUME MemoryMapAssumption ==
  /\ RAM_SIZE \in Nat /\ CONSOLE_BASE_ADDR \in Nat /\ CONSOLE_SIZE \in Nat
  /\ VGA_BASE_ADDR \in Nat /\ VGA_SIZE \in Nat
  /\ KEYBOARD_BASE_ADDR \in Nat /\ KEYBOARD_SIZE \in Nat
  /\ 4 <= RAM_SIZE /\ RAM_SIZE <= CONSOLE_BASE_ADDR
  /\ CONSOLE_BASE_ADDR + CONSOLE_SIZE <= VGA_BASE_ADDR
  /\ VGA_BASE_ADDR + VGA_SIZE <= KEYBOARD_BASE_ADDR

VARIABLES
  map,     \* the bus's table: the devices in the order of registration
  ram,     \* the bytes stored in RAM so far; all others are zero
  strays   \* the devices other than RAM that have taken a write

busvars == <<map, ram, strays>>

Byte == 0..255
Address == 0..RAM_SIZE-1
Device == {"ram", "console", "vga", "keyboard"}

Base(d) == IF d = "ram" THEN RAM_BASE_ADDR ELSE IF d = "console" THEN CONSOLE_BASE_ADDR
           ELSE IF d = "vga" THEN VGA_BASE_ADDR ELSE KEYBOARD_BASE_ADDR
Size(d) == IF d = "ram" THEN RAM_SIZE ELSE IF d = "console" THEN CONSOLE_SIZE
           ELSE IF d = "vga" THEN VGA_SIZE ELSE KEYBOARD_SIZE

RamByte(a) == IF a \in DOMAIN ram THEN ram[a] ELSE 0

BusInit == map = <<>> /\ ram = <<>> /\ strays = {}

bus_register(d) == Len(map) < MAX_DEVICES /\ map' = Append(map, d)

(* What ram_write, console_write, vram_write and keyboard_write say to a   *)
(* write of a dword: RAM refuses the last three bytes, the video memory an *)
(* odd offset and its last byte.                                           *)
Accepts(d, addr) ==
  /\ d = "ram" => addr <= RAM_SIZE - 4
  /\ d = "vga" => addr + 1 < VGA_BASE_ADDR + VGA_SIZE /\ (addr - VGA_BASE_ADDR) % 2 = 0

Takers(addr) ==
  {n \in DOMAIN map : /\ Base(map[n]) <= addr /\ addr < Base(map[n]) + Size(map[n])
                      /\ Accepts(map[n], addr)}

Taker(addr) ==
  IF Takers(addr) = {} THEN "nobody"
  ELSE map[CHOOSE n \in Takers(addr) : \A m \in Takers(addr) : n <= m]

(* The RAM with four bytes stored from addr on. *)
Stored(bytes, addr) ==
  [a \in DOMAIN ram \cup (addr..addr+3) |->
     IF a \in addr..addr+3 THEN bytes[a - addr + 1] ELSE ram[a]]

(* bus_write of a dword; the caller decides what a refusal means. *)
bus_write(bytes, addr) ==
  /\ ram' = IF Taker(addr) = "ram" THEN Stored(bytes, addr) ELSE ram
  /\ strays' = strays \cup ({Taker(addr)} \ {"ram", "nobody"})
  /\ UNCHANGED map

===============================================================================
