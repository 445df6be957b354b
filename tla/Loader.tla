---------------------------------- MODULE Loader ----------------------------------
(***************************************************************************)
(* The program loader (machine/program_loader.c): parse_file reads the     *)
(* listing in chunks of at most BUFF_SIZE - 1 characters with fgets and    *)
(* scans each with sscanf(" %x%n") for as long as it finds a number;       *)
(* load_program then writes the bytes to the bus, four at a time.          *)
(*                                                                         *)
(* A character is a hexadecimal digit, a blank, the end of a line, or any  *)
(* other one.  Listings have no number with a sign or a 0x before it, both *)
(* of which %x would take.  A step is one chunk, one number or one write.  *)
(***************************************************************************)
EXTENDS Bus

CONSTANTS
  BUFF_SIZE,      \* sizeof(buff), 200
  FirstCapacity   \* of tmp in parse_file, 50

USER_CODE_BASE_ADDR == 2048   \* 0x800

ASSUME LoaderAssumption ==
  /\ BUFF_SIZE \in Nat /\ BUFF_SIZE > 1
  /\ FirstCapacity \in Nat /\ FirstCapacity > 0
  /\ RAM_SIZE >= USER_CODE_BASE_ADDR /\ RAM_SIZE % 4 = 0

Digit   == 0..15
Blank   == 16
Newline == 17
Other   == 18
Character == 0..18

VARIABLES
  phase,    \* the loop that runs: "wait", "read", "scan", "copy", "loaded"
  rest,     \* what fgets has still to read of the file
  buff,     \* what sscanf has still to scan of the chunk, from buff + i on
  arr,      \* Program.arr, as long as Program.size
  offset,   \* load_program's offset
  before    \* history: the RAM when load_program was called

loadvars == <<phase, rest, buff, arr, offset, before>>

LoaderInit ==
  /\ phase = "wait" /\ rest = <<>> /\ buff = <<>> /\ arr = <<>>
  /\ offset = 0 /\ before = <<>>

(* The call of load_program, with an open file. *)
StartLoading(file) ==
  /\ phase = "wait"
  /\ phase' = "read" /\ rest' = file /\ before' = ram
  /\ UNCHANGED <<buff, arr, offset, busvars>>

-----------------------------------------------------------------------------
(* parse_file.                                                             *)

Least(S) == CHOOSE n \in S : \A m \in S : n <= m

(* Mistake for the mutation runs: one character less than fits. *)
Chunk_Short(s) ==
  Least({n \in 1..Len(s) : n = Len(s) \/ s[n] = Newline \/ n = BUFF_SIZE - 2})

(* How many characters fgets takes. *)
Chunk(s) ==
  Least({n \in 1..Len(s) : n = Len(s) \/ s[n] = Newline \/ n = BUFF_SIZE - 1})

ReadLine ==
  /\ phase = "read" /\ rest # <<>>
  /\ buff' = SubSeq(rest, 1, Chunk(rest))
  /\ rest' = SubSeq(rest, Chunk(rest) + 1, Len(rest))
  /\ phase' = "scan"
  /\ UNCHANGED <<arr, offset, before, busvars>>

(* %x skips blanks, then takes the longest run of digits; the number is    *)
(* cut to a byte, which leaves its last two digits.                        *)
Skipped(s) ==
  Least({n \in 0..Len(s) : n = Len(s) \/ s[n + 1] \notin {Blank, Newline}})
Scanned(s) ==
  Least({n \in Skipped(s)..Len(s) : n = Len(s) \/ s[n + 1] \notin Digit})
(* Mistake: the number is not cut to a byte. *)
Number_Uncut(s) ==
  IF Scanned(s) = Skipped(s) + 1 THEN s[Scanned(s)]
  ELSE IF Scanned(s) = Skipped(s) + 2 THEN 16 * s[Scanned(s) - 1] + s[Scanned(s)]
  ELSE 256 * s[Scanned(s) - 2] + 16 * s[Scanned(s) - 1] + s[Scanned(s)]

Number(s) ==
  IF Scanned(s) = Skipped(s) + 1 THEN s[Scanned(s)]
  ELSE 16 * s[Scanned(s) - 1] + s[Scanned(s)]

ScanByte ==
  /\ phase = "scan" /\ Scanned(buff) > Skipped(buff)
  /\ arr' = Append(arr, Number(buff))
  /\ buff' = SubSeq(buff, Scanned(buff) + 1, Len(buff))
  /\ UNCHANGED <<phase, rest, offset, before, busvars>>

(* DA_APPEND has to allocate before it appends: tmp is empty, or as long   *)
(* as its capacity, which has been doubled some times.                     *)
ArrayFull ==
  Len(arr) = 0 \/ \E k \in 0..Len(arr) \div FirstCapacity : Len(arr) = FirstCapacity * 2^k

(* Mistake: after a character that is no number the chunk is tried again. *)
EndOfLine_StandsStill ==
  /\ phase = "scan" /\ Scanned(buff) = Skipped(buff)
  /\ IF Skipped(buff) = Len(buff) THEN phase' = "read" /\ buff' = <<>>
     ELSE UNCHANGED <<phase, buff>>
  /\ UNCHANGED <<rest, arr, offset, before, busvars>>

(* The rest of the chunk is no number, or nothing: it is dropped. *)
EndOfLine ==
  /\ phase = "scan" /\ Scanned(buff) = Skipped(buff)
  /\ phase' = "read" /\ buff' = <<>>
  /\ UNCHANGED <<rest, arr, offset, before, busvars>>

EndOfFile ==
  /\ phase = "read" /\ rest = <<>>
  /\ phase' = "copy"
  /\ UNCHANGED <<rest, buff, arr, offset, before, busvars>>

-----------------------------------------------------------------------------
(* load_program.  The result of bus_write is ignored.                      *)

CopyDword ==
  /\ phase = "copy" /\ offset + 4 < Len(arr)
  /\ bus_write(SubSeq(arr, offset + 1, offset + 4), USER_CODE_BASE_ADDR + offset)
  /\ offset' = offset + 4
  /\ UNCHANGED <<phase, rest, buff, arr, before>>

(* Mistake: the bytes that remain end up at the end of the dword. *)
Remainder_Shifted ==
  [n \in 1..4 |-> IF Len(arr) - 4 + n > offset THEN arr[Len(arr) - 4 + n] ELSE 0]

(* The one to four bytes that remain, with zeros behind them. *)
Remainder == [n \in 1..4 |-> IF offset + n <= Len(arr) THEN arr[offset + n] ELSE 0]

CopyRemainder ==
  /\ phase = "copy" /\ offset + 4 >= Len(arr)
  /\ IF offset < Len(arr)
     THEN bus_write(Remainder, USER_CODE_BASE_ADDR + offset)
     ELSE UNCHANGED busvars
  /\ offset' = Len(arr)
  /\ phase' = "loaded"
  /\ UNCHANGED <<rest, buff, arr, before>>

Loading ==
  \/ ReadLine \/ ScanByte \/ EndOfLine \/ EndOfFile
  \/ CopyDword \/ CopyRemainder

-----------------------------------------------------------------------------
(* What the loader leaves in RAM: the bytes of the program from the code   *)
(* segment's base on, each in its place and as many as fit, zeros up to    *)
(* the next dword, and nothing else changed, the descriptor table least of *)
(* all.  A program that fits in RAM reaches no other device: neither the   *)
(* code segment's limit nor the bus stops the loader before.               *)
DwordsEnd == USER_CODE_BASE_ADDR + 4 * ((Len(arr) + 3) \div 4)

ProgramAddresses ==
  USER_CODE_BASE_ADDR .. (IF DwordsEnd < RAM_SIZE THEN DwordsEnd ELSE RAM_SIZE) - 1

ProgramByte(a) ==
  LET k == a - USER_CODE_BASE_ADDR + 1 IN IF k <= Len(arr) THEN arr[k] ELSE 0

ImageExact ==
  /\ phase = "loaded" =>
       ram = [a \in DOMAIN before \cup ProgramAddresses |->
                IF a \in ProgramAddresses THEN ProgramByte(a) ELSE before[a]]
  /\ Len(arr) <= RAM_SIZE - USER_CODE_BASE_ADDR => strays = {}

===============================================================================
