----------------------------------- MODULE Gdt -----------------------------------
(***************************************************************************)
(* Segment descriptors: how create_gdt (machine/gdt.c) packs them into the *)
(* table and how set_SegmentRegister_cache and get_operand_size unpack     *)
(* them (core/int_utils.c, core/cpu.c, core/internal/executor.c).          *)
(*                                                                         *)
(* A descriptor is its eight bytes in memory, d[1] at the lowest address:  *)
(* the 64-bit shifts of the code select bytes, or nibbles of d[7].         *)
(***************************************************************************)
EXTENDS Integers, Sequences

GDT_BASE_ADDR == 214                      \* 0xD6
GDT_SIZE      == 40
GDT_DESC_SIZE == 8

(* Access bytes and flags, as gdt.c adds them up from the single bits.     *)
KERNEL_CODE_RX == 154   \* 0x9A
USER_CODE_RX   == 250   \* 0xFA
USER_DATA_RW   == 242   \* 0xF2
STACK          == 146   \* 0x92
DB_32_BIT      == 4

create_descriptor(base, limit, access, flags) ==
  << limit % 256, (limit \div 256) % 256,
     base % 256, (base \div 256) % 256, (base \div 65536) % 256,
     access,
     (flags % 16) * 16 + ((limit \div 65536) % 16),
     (base \div 16777216) % 256 >>

(* The rows of create_gdt, the null descriptor first. *)
Row(base, limit, access, flags) ==
  [base |-> base, limit |-> limit, access |-> access, flags |-> flags]

Rows == << Row(0, 0, 0, 0),
           Row(0, 2047, KERNEL_CODE_RX, DB_32_BIT),        \* 0, 0x7FF
           Row(2048, 2047, USER_CODE_RX, DB_32_BIT),       \* 0x800, 0x7FF
           Row(4096, 10239, USER_DATA_RW, DB_32_BIT),      \* 0x1000, 0x27FF
           Row(6144, 10239, STACK, DB_32_BIT) >>           \* 0x1800, 0x27FF

Descriptor(row) == create_descriptor(row.base, row.limit, row.access, row.flags)

-----------------------------------------------------------------------------
(* Unpacking.  get_base shifts the low dword right by sixteen, which       *)
(* leaves two bytes of it and not the three its comment claims: the middle *)
(* byte of the base is lost.                                               *)

get_base(d)  == d[3] + 256 * d[4] + 16777216 * d[8]

get_limit(d) == d[1] + 256 * d[2] + 65536 * (d[7] % 16)

get_flag(d)  == d[6] + 4096 * (d[7] \div 16)

(* get_operand_size takes bit 22 of the descriptor for the D bit. *)
d_bit(d) == (d[3] \div 64) % 2

===============================================================================
