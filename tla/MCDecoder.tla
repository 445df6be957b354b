------------------------------- MODULE MCDecoder -------------------------------
(***************************************************************************)
(* Sixteen-byte images for the decoder: runs of prefixes up to one too     *)
(* many, every opcode byte, and behind opcodes with a ModRM byte every     *)
(* form of address.  The bytes behind are all different, so that a field   *)
(* taken from the wrong place shows.                                       *)
(***************************************************************************)
EXTENDS Decoder

PrefixRuns ==
  {<<>>, <<102>>, <<242>>, <<243, 103>>, <<240, 46, 243, 46>>,
   <<46, 46, 46, 46, 102>>}

(* ModRM bytes for the four values of mod and for a register, the SIB      *)
(* escape and "no base"; SIB bytes with a base and without.                *)
AddressForms ==
  {<<64 * mod + 8 + rm, 21>> : mod \in 0..3, rm \in {0, 5}}
  \cup {<<64 * mod + 8 + 4, sib>> : mod \in 0..3, sib \in {21, 147}}

(* The fifth byte of a far pointer decides how far its sixth is thrown.    *)
Tails(op) ==
  IF HasModrm(op) \/ ImmediateBytes(op) = 6
  THEN {form \o <<21, 22, 23, 24, 25, 26, 27, 28>> : form \in AddressForms}
       \cup {<<21, 22, 23, 24, fifth, 26, 27, 28>> : fifth \in {0, 4, 5, 6, 255}}
  ELSE {<<21, 22, 23, 24, 25, 26, 27, 28>>}

Padded(s) == [i \in Position |-> IF i < Len(s) THEN s[i + 1] ELSE 15]

AllImages ==
  {Padded(p \o <<op>> \o t) :
     <<p, op, t>> \in UNION {PrefixRuns \X {op} \X Tails(op) : op \in OpcodeByte}}

===============================================================================
