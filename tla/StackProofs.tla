------------------------------ MODULE StackProofs ------------------------------
(***************************************************************************)
(* The stack instructions implement the ByteStack, the RAM below the top   *)
(* is clear, and a return goes behind the call it belongs to: proved for   *)
(* every size of bytes, RAM and stack, and for programs of any pushes,     *)
(* pops, returns, relative calls, jumps and moves and arithmetic that end  *)
(* in a register.                                                          *)
(*                                                                         *)
(* The first part shows that the bytes of a dword and the dword of four    *)
(* bytes are inverses, the second what a push and a pop do to a machine in *)
(* terms of the depth of its stack, the third what leaves the stack alone. *)
(* The fourth says of every instruction that it pushes, pops or keeps the  *)
(* stack, and the theorems follow from that.                               *)
(***************************************************************************)
EXTENDS Stack, ExecutorProofs, SequenceTheorems

-----------------------------------------------------------------------------
(* The bytes of a dword. *)

LEMMA QuotientOfQuotient ==
  ASSUME NEW p \in Nat, p > 0, NEW q \in Nat, q > 0, NEW x \in Nat
  PROVE  x \div (p * q) = (x \div p) \div q
<1> DEFINE a == x \div p
           r == x % p
           b == a \div q
           s == a % q
<1>1. a \in Int /\ r \in 0..p-1 /\ x = p * a + r
  BY Division
<1> HIDE DEF a, r
<1>2. b \in Int /\ s \in 0..q-1 /\ a = q * b + s
  BY <1>1, Division
<1> HIDE DEF b, s
<1>3. r + p * s \in 0..p*q-1
  BY <1>1, <1>2, PartsJoined
<1>4. x = (p * q) * b + (r + p * s)
  <2>1. p * (q * b + s) = (p * q) * b + p * s
    BY SMT, <1>2
  <2>2. (p * q) * b \in Int /\ p * s \in Int
    BY SMT, <1>2
  <2> QED BY SMT, <1>1, <1>2, <2>1, <2>2
<1>5. x \div (p * q) = b
  <2>1. p * q \in Nat /\ p * q > 0
    BY SMT
  <2> QED BY <1>2, <1>3, <1>4, <2>1, QuotientIs
<1> QED BY <1>5 DEF a, b

LEMMA SmallRemainder ==
  ASSUME NEW p \in Nat, NEW r \in 0..p-1
  PROVE  r % p = r
BY SMT

LEMMA BytesByQuotients ==
  ASSUME NEW x \in Nat
  PROVE  /\ ByteAt(x, 0) = x % BYTE
         /\ ByteAt(x, 1) = (x \div BYTE) % BYTE
         /\ ByteAt(x, 2) = ((x \div BYTE) \div BYTE) % BYTE
         /\ ByteAt(x, 3) = (((x \div BYTE) \div BYTE) \div BYTE) % BYTE
<1>1. BYTE \in Nat /\ BYTE > 0 /\ WORD \in Nat /\ WORD > 0 /\ WORD = BYTE * BYTE
  BY WordSizes DEF WORD
<1>2. /\ ByteAt(x, 0) = (x \div 1) % BYTE /\ ByteAt(x, 1) = (x \div BYTE) % BYTE
      /\ ByteAt(x, 2) = (x \div WORD) % BYTE /\ ByteAt(x, 3) = (x \div (WORD * BYTE)) % BYTE
  BY DEF ByteAt, Place
<1>3. x \div 1 = x
  BY SMT
<1>4. x \div WORD = (x \div BYTE) \div BYTE
  BY <1>1, QuotientOfQuotient
<1>5. x \div (WORD * BYTE) = (x \div WORD) \div BYTE
  BY <1>1, QuotientOfQuotient
<1> QED BY ONLY <1>2, <1>3, <1>4, <1>5, Zenon

LEMMA BytesOfZero == \A k \in 0..3 : ByteAt(0, k) = 0
<1>1. ASSUME NEW p \in Nat, p > 0 PROVE 0 \div p = 0 /\ 0 % p = 0
  <2>1. 0 = p * 0 + 0
    OBVIOUS
  <2> QED BY <1>1, <2>1, QuotientIs
<1> QED BY <1>1, PlaceSizes, WordSizes DEF ByteAt

FourBytes(b0, b1, b2, b3) == b0 + BYTE * (b1 + BYTE * (b2 + BYTE * b3))

LEMMA ShiftOut ==
  ASSUME NEW b \in Byte, NEW y \in Int
  PROVE  (b + BYTE * y) \div BYTE = y /\ (b + BYTE * y) % BYTE = b
<1>1. b \in 0..BYTE-1 /\ BYTE * y \in Int /\ b + BYTE * y = BYTE * y + b /\ b + BYTE * y \in Int
  BY SMT, WordSizes DEF Byte
<1> QED BY <1>1, QuotientIs, WordSizes

(* The bytes of the dword of four bytes are these four. *)
LEMMA BytesOfFour ==
  ASSUME NEW b0 \in Byte, NEW b1 \in Byte, NEW b2 \in Byte, NEW b3 \in Byte
  PROVE  LET x == FourBytes(b0, b1, b2, b3)
         IN ByteAt(x, 0) = b0 /\ ByteAt(x, 1) = b1 /\ ByteAt(x, 2) = b2 /\ ByteAt(x, 3) = b3
<1> DEFINE y2 == b2 + BYTE * b3
           y1 == b1 + BYTE * y2
           x  == b0 + BYTE * y1
<1>1. BYTE \in Nat /\ b0 \in Int /\ b1 \in Int /\ b2 \in Int /\ b3 \in Int
  BY WordSizes DEF Byte
<1>2. y2 \in Int
  BY <1>1
<1>3. y2 \div BYTE = b3 /\ y2 % BYTE = b2
  BY <1>1, ShiftOut
<1> HIDE DEF y2
<1>4. y1 \in Int
  BY SMT, <1>1, <1>2
<1>5. y1 \div BYTE = y2 /\ y1 % BYTE = b1
  BY <1>2, ShiftOut
<1> HIDE DEF y1
<1>6. x \div BYTE = y1 /\ x % BYTE = b0
  BY <1>4, ShiftOut
<1>7. x \in Nat /\ x = FourBytes(b0, b1, b2, b3)
  BY FourBytesType, WordSizes DEF Dword, FourBytes, y1, y2
<1>8. b3 % BYTE = b3
  BY SmallRemainder, WordSizes DEF Byte
<1> HIDE DEF x
<1>9. ByteAt(x, 0) = b0 /\ ByteAt(x, 1) = b1 /\ ByteAt(x, 2) = b2 /\ ByteAt(x, 3) = b3
  <2>1. /\ ByteAt(x, 0) = x % BYTE
        /\ ByteAt(x, 1) = (x \div BYTE) % BYTE
        /\ ByteAt(x, 2) = ((x \div BYTE) \div BYTE) % BYTE
        /\ ByteAt(x, 3) = (((x \div BYTE) \div BYTE) \div BYTE) % BYTE
    BY <1>7, BytesByQuotients
  <2> QED BY ONLY <1>3, <1>5, <1>6, <1>8, <2>1, Zenon
<1> QED BY ONLY <1>7, <1>9, Zenon

(* The dword of the four bytes of x is x. *)
LEMMA FourOfBytes ==
  ASSUME NEW x \in Dword
  PROVE  x = FourBytes(ByteAt(x, 0), ByteAt(x, 1), ByteAt(x, 2), ByteAt(x, 3))
<1> DEFINE q0 == x \div BYTE
           q1 == q0 \div BYTE
           q2 == q1 \div BYTE
<1>1. BYTE \in Nat /\ BYTE > 0 /\ x \in Nat
  BY WordSizes DEF Dword
<1>2. q0 \in Int /\ x = BYTE * q0 + (x % BYTE) /\ x % BYTE \in 0..BYTE-1
  BY <1>1, Division
<1> HIDE DEF q0
<1>3. q1 \in Int /\ q0 = BYTE * q1 + (q0 % BYTE) /\ q0 % BYTE \in 0..BYTE-1
  BY <1>1, <1>2, Division
<1> HIDE DEF q1
<1>4. q2 \in Int /\ q1 = BYTE * q2 + (q1 % BYTE) /\ q1 % BYTE \in 0..BYTE-1
  BY <1>1, <1>3, Division
<1>5. q2 \in 0..BYTE-1
  <2>1. q2 = x \div ((BYTE * BYTE) * BYTE)
    <3>1. BYTE * BYTE \in Nat /\ BYTE * BYTE > 0
      BY SMT, <1>1
    <3>2. x \div (BYTE * BYTE) = q1
      BY <1>1, QuotientOfQuotient DEF q0, q1
    <3>3. x \div ((BYTE * BYTE) * BYTE) = (x \div (BYTE * BYTE)) \div BYTE
      BY <1>1, <3>1, QuotientOfQuotient
    <3> QED BY <3>2, <3>3
  <2> DEFINE p == (BYTE * BYTE) * BYTE
             r == x % p
  <2>2. p \in Nat /\ p > 0 /\ p * BYTE = DWORD
    <3>1. \A y \in Nat : y > 0 => /\ (y * y) * y \in Nat /\ (y * y) * y > 0
                                  /\ ((y * y) * y) * y = (y * y) * (y * y)
      BY SMT
    <3> QED BY <1>1, <3>1 DEF DWORD, WORD
  <2>3. x = p * q2 + r /\ r \in 0..p-1
    <3> HIDE DEF q2
    <3>1. x \div p = q2
      BY <2>1
    <3> HIDE DEF p
    <3>2. x % p \in 0..p-1 /\ x = p * (x \div p) + (x % p)
      BY <1>1, <2>2, Division
    <3> QED BY ONLY <3>1, <3>2, Zenon DEF r
  <2>4. x < p * BYTE /\ x >= 0
    BY <2>2, WordSizes DEF Dword
  <2> HIDE DEF q2, p, r
  <2>5. ASSUME q2 >= BYTE PROVE FALSE
    <3>1. p * q2 >= p * BYTE /\ p * q2 \in Int /\ p * BYTE \in Int
      BY SMT, <1>1, <1>4, <2>2, <2>5
    <3> QED BY SMT, <2>2, <2>3, <2>4, <3>1
  <2>6. ASSUME q2 < 0 PROVE FALSE
    <3>1. p * q2 <= p * (0 - 1) /\ p * (0 - 1) = 0 - p /\ p * q2 \in Int
      BY SMT, <1>4, <2>2, <2>6
    <3> QED BY SMT, <2>2, <2>3, <2>4, <3>1
  <2> QED BY SMT, <1>1, <1>4, <2>5, <2>6
<1>6. q2 % BYTE = q2
  BY <1>1, <1>5, SmallRemainder
<1>7. /\ ByteAt(x, 0) = x % BYTE /\ ByteAt(x, 1) = q0 % BYTE
      /\ ByteAt(x, 2) = q1 % BYTE /\ ByteAt(x, 3) = q2
  <2>1. /\ ByteAt(x, 0) = x % BYTE
        /\ ByteAt(x, 1) = (x \div BYTE) % BYTE
        /\ ByteAt(x, 2) = ((x \div BYTE) \div BYTE) % BYTE
        /\ ByteAt(x, 3) = (((x \div BYTE) \div BYTE) \div BYTE) % BYTE
    BY <1>1, BytesByQuotients
  <2> QED BY ONLY <1>6, <2>1, Zenon DEF q0, q1, q2
<1> HIDE DEF q2
<1>8. \A y, q \in Int : BYTE * q + y = y + BYTE * q
  BY SMT, <1>1
<1>9. /\ q1 = (q1 % BYTE) + BYTE * q2
      /\ q0 = (q0 % BYTE) + BYTE * q1
      /\ x = (x % BYTE) + BYTE * q0
  <2>1. q1 % BYTE \in Int /\ q0 % BYTE \in Int /\ x % BYTE \in Int
    BY <1>1, <1>2, <1>3, <1>4
  <2> QED BY ONLY <1>2, <1>3, <1>4, <1>8, <2>1, Zenon
<1> QED BY ONLY <1>7, <1>9, Zenon DEF FourBytes

-----------------------------------------------------------------------------
(* The stack of a machine: its depth, the address of its top, and the      *)
(* dword at an address.                                                    *)

DepthOf(m) == (DWORD - m.gpr[ESP]) % DWORD

WordAt(r, a) == FourBytes(r[a], r[a+1], r[a+2], r[a+3])

LEMMA DepthType ==
  ASSUME NEW m \in Machines
  PROVE  /\ m.gpr[ESP] \in 0..DWORD-1
         /\ DepthOf(m) = (IF m.gpr[ESP] = 0 THEN 0 ELSE DWORD - m.gpr[ESP])
         /\ DepthOf(m) \in 0..DWORD-1
<1> DEFINE e == m.gpr[ESP]
<1>1. e \in 0..DWORD-1 /\ DWORD \in Nat /\ DWORD > 0
  BY WordSizes DEF Machines, Gpr, ESP, Dword
<1> HIDE DEF e
<1>2. CASE e = 0
  <2>1. (DWORD - e) % DWORD = 0
    <3>1. DWORD = DWORD * 1 + 0 /\ DWORD - 0 = DWORD
      BY SMT, <1>1
    <3>2. DWORD % DWORD = 0
      BY <1>1, <3>1, QuotientIs
    <3> QED BY ONLY <1>2, <3>1, <3>2, Zenon
  <2> QED BY <1>1, <1>2, <2>1 DEF DepthOf, e
<1>3. CASE e # 0
  <2>1. DWORD - e \in 0..DWORD-1
    BY <1>1, <1>3
  <2>2. (DWORD - e) % DWORD = DWORD - e
    BY <1>1, <2>1, SmallRemainder
  <2> QED BY <1>1, <1>3, <2>1, <2>2 DEF DepthOf, e
<1> QED BY <1>2, <1>3

(* Below the depth of the whole stack segment nothing wraps. *)
LEMMA TopOfStack ==
  ASSUME NEW m \in Machines, DepthOf(m) <= SS_TOP
  PROVE  StackAddress(m) = SS_TOP - DepthOf(m)
<1> DEFINE e == m.gpr[ESP]
           d == DepthOf(m)
<1>1. /\ e \in 0..DWORD-1 /\ d = (IF e = 0 THEN 0 ELSE DWORD - e)
      /\ d \in 0..DWORD-1 /\ d <= SS_TOP
  BY DepthType
<1>2. SS_TOP \in 0..DWORD-1 /\ DWORD \in Nat /\ DWORD > 0
  <2>1. SS_TOP \in Nat
    BY LayoutAssumption
  <2> QED BY <2>1, LayoutAssumption, WordSizes
<1> HIDE DEF e, d
<1>3. (SS_TOP + e) % DWORD = SS_TOP - d
  <2>1. CASE e = 0
    BY <1>1, <1>2, <2>1, SmallRemainder
  <2>2. CASE e # 0
    <3>1. SS_TOP + e = DWORD * 1 + (SS_TOP - d)
      BY <1>1, <1>2, <2>2
    <3>2. SS_TOP - d \in 0..DWORD-1 /\ SS_TOP + e \in Int
      BY <1>1, <1>2
    <3> QED BY <1>2, <3>1, <3>2, QuotientIs
  <2> QED BY <2>1, <2>2
<1> QED BY <1>3 DEF StackAddress, e, d

Refused(m, n) == ~Ok(n) /\ n.gpr = m.gpr /\ n.ram = m.ram

(* k bytes of x are on the stack of n that were not on that of m. *)
Pushed(m, n, k, x) ==
  /\ Ok(n)
  /\ DepthOf(n) = DepthOf(m) + k /\ DepthOf(n) <= SS_TOP
  /\ \A r \in Gpr \ {ESP} : n.gpr[r] = m.gpr[r]
  /\ LET t == SS_TOP - DepthOf(n)
     IN \A b \in Address : n.ram[b] = IF b \in t..t+k-1 THEN ByteAt(x, b - t) ELSE m.ram[b]

LEMMA PushEffect ==
  ASSUME NEW m \in Machines, DepthOf(m) <= SS_TOP, NEW width \in Width, NEW x \in Int
  PROVE  \/ Refused(m, Push(m, width, x))
         \/ Ok(m) /\ Pushed(m, Push(m, width, x), width \div ByteBits, x)
         \/ ~Ok(m)
<1> DEFINE k == width \div ByteBits
           n == Lowered(m, width)
           s == StackAddress(m)
           t == StackAddress(n)
           w == bus_write(n, t, width, x)
<1>1. k \in {1, 4} /\ s \in 0..DWORD-1 /\ t \in Nat
  BY BytesOfWidth, StackAddressType, PushType DEF Dword
<1>2. /\ n.ram = m.ram /\ n.rc = m.rc /\ n \in Machines
      /\ n.gpr[ESP] = (m.gpr[ESP] - k) % DWORD
      /\ \A r \in Gpr \ {ESP} : n.gpr[r] = m.gpr[r]
      /\ t = (IF s >= k THEN s - k ELSE s - k + DWORD)
  BY LoweredAddress, PushType
<1>3. Push(m, width, x) = IF Ok(w) THEN w ELSE Fails(m, w.rc)
  BY DEF Push
<1> HIDE DEF k, n, s
<1>4. CASE ~OnBus(t)
  <2>1. w.rc = "BUS_WRITE_FAILURE"
    BY <1>2, <1>4 DEF Fails, Machines, bus_write
  <2> HIDE DEF w
  <2>2. Push(m, width, x) = Fails(m, "BUS_WRITE_FAILURE")
    BY <1>3, <2>1 DEF Ok
  <2>3. Refused(m, Fails(m, "BUS_WRITE_FAILURE"))
    BY DEF Refused, Fails, Machines, Ok
  <2> QED BY <2>2, <2>3
<1>5. CASE OnBus(t) /\ Ok(m)
  <2> DEFINE d == DepthOf(m)
             e == m.gpr[ESP]
  <2>1. /\ s = SS_TOP - d /\ d \in 0..DWORD-1 /\ e \in 0..DWORD-1
        /\ d = (IF e = 0 THEN 0 ELSE DWORD - e) /\ d <= SS_TOP
    BY DepthType, TopOfStack DEF s
  <2> HIDE DEF d, e
  <2>2. /\ SS_TOP = RAM_SIZE - 1 /\ RAM_SIZE \in Nat /\ RAM_SIZE + 8 <= DWORD /\ DWORD \in Nat
        /\ t <= RAM_SIZE - 4 \/ t \in RAM_SIZE..RAM_SIZE+3
    BY <1>5, LayoutAssumption, WordSizes DEF OnBus, Console
  <2>3. s >= k /\ t = s - k /\ t \notin Console /\ t = SS_TOP - (d + k)
    BY SMT, <1>1, <1>2, <2>1, <2>2 DEF Console
  <2>4. DepthOf(n) = d + k
    <3>1. (e - k) % DWORD = (IF e >= k THEN e - k ELSE e - k + DWORD)
      <4>1. k \in 0..DWORD-1
        BY <1>1, <2>2
      <4> QED BY <2>1, <2>2, <4>1, DifferenceCut
    <3>2. n.gpr[ESP] = (e - k) % DWORD
      BY <1>2 DEF e
    <3>3. e >= k \/ e = 0
      BY SMT, <1>1, <2>1, <2>2, <2>3
    <3>4. DepthOf(n) = (IF n.gpr[ESP] = 0 THEN 0 ELSE DWORD - n.gpr[ESP])
      BY <1>2, DepthType
    <3>5. n.gpr[ESP] = (IF e >= k THEN e - k ELSE e - k + DWORD)
      BY ONLY <3>1, <3>2, Zenon
    <3> QED BY SMT, <1>1, <2>1, <2>2, <2>3, <3>3, <3>4, <3>5
  <2>5. w = [n EXCEPT !.ram = [b \in Address |->
               IF b \in t..t + k - 1 THEN ByteAt(x, b - t) ELSE n.ram[b]]]
    BY <1>2, <1>5, <2>3 DEF bus_write, k, Machines
  <2>6. w.gpr = n.gpr /\ w.rc = m.rc
        /\ \A b \in Address : w.ram[b] = IF b \in t..t+k-1 THEN ByteAt(x, b - t) ELSE m.ram[b]
    BY <1>2, <2>5 DEF Machines
  <2> HIDE DEF w, t
  <2>7. DepthOf(w) = d + k /\ d + k <= SS_TOP
    <3>1. DepthOf(w) = DepthOf(n)
      BY <2>6 DEF DepthOf
    <3>2. d + k <= SS_TOP
      BY SMT, <1>1, <2>1, <2>2, <2>3
    <3> QED BY <2>4, <3>1, <3>2
  <2>8. Pushed(m, w, k, x)
    <3>1. Ok(w)
      BY <1>5, <2>6 DEF Ok
    <3>2. SS_TOP - DepthOf(w) = t
      BY ONLY <2>3, <2>7, Zenon
    <3>3. \A r \in Gpr \ {ESP} : w.gpr[r] = m.gpr[r]
      BY <1>2, <2>6
    <3>4. DepthOf(w) = DepthOf(m) + k
      BY <2>7 DEF d
    <3>5. DepthOf(w) <= SS_TOP
      BY ONLY <2>7, Zenon
    <3> QED BY ONLY <2>6, <3>1, <3>2, <3>3, <3>4, <3>5, Zenon DEF Pushed
  <2>9. Push(m, width, x) = w
    BY <1>3, <2>8 DEF Pushed
  <2> QED BY <1>5, <2>8, <2>9 DEF k
<1> QED BY <1>4, <1>5

(* Register r receives the dword at the top, which is cleared. *)
Popped(m, n, r) ==
  LET s == SS_TOP - DepthOf(m)
  IN /\ Ok(n)
     /\ n.gpr[r] = WordAt(m.ram, s)
     /\ DepthOf(n) = (IF DepthOf(m) = 3 THEN DWORD - 1 ELSE DepthOf(m) - 4)
     /\ \A b \in Address : n.ram[b] = IF b \in s..s+3 THEN 0 ELSE m.ram[b]

(* The bus refuses the addresses of a stack of less than three bytes.      *)
LEMMA PopEffect ==
  ASSUME NEW m \in Machines, Ok(m), DepthOf(m) <= SS_TOP,
         NEW r \in Gpr, r # ESP, NEW junk \in JunkDword
  PROVE  \/ DepthOf(m) < 3 /\ Refused(m, pop_gpr(m, r, junk))
         \/ DepthOf(m) >= 3 /\ Popped(m, pop_gpr(m, r, junk), r)
<1> DEFINE d == DepthOf(m)
           e == m.gpr[ESP]
           s == StackAddress(m)
           x == bus_read(m, s, DwordBits, junk)
           n == [m EXCEPT !.gpr[r] = x]
           w == bus_write(n, s, DwordBits, 0)
           o == AddTo(w, ESP, 4)
<1>1. /\ s = SS_TOP - d /\ d \in 0..DWORD-1 /\ e \in 0..DWORD-1 /\ s \in Nat
      /\ d = (IF e = 0 THEN 0 ELSE DWORD - e) /\ d <= SS_TOP
  BY DepthType, TopOfStack, StackAddressType
<1>2. ESP \in Gpr /\ n.gpr[ESP] = e /\ n.gpr[r] = x /\ n.ram = m.ram /\ n.rc = m.rc
  <2>1. ESP \in Gpr
    BY DEF ESP, Gpr
  <2> HIDE DEF x
  <2> QED BY <2>1 DEF Machines
<1>3. StackAddress(n) = s
  BY <1>2 DEF StackAddress
<1>4. pop_gpr(m, r, junk) =
        IF ~OnBus(s) THEN Fails(m, "BUS_READ_FAILURE") ELSE Then(w, o)
  BY <1>3 DEF pop_gpr
<1>5. SS_TOP = RAM_SIZE - 1 /\ RAM_SIZE \in Nat /\ RAM_SIZE + 8 <= DWORD /\ DWORD \in Nat
  BY LayoutAssumption, WordSizes
<1> HIDE DEF d, e, s
<1>6. CASE ~OnBus(s)
  <2>1. Refused(m, Fails(m, "BUS_READ_FAILURE"))
    BY DEF Refused, Fails, Machines, Ok
  <2>2. DepthOf(m) < 3
    BY <1>1, <1>5, <1>6 DEF OnBus, d
  <2> QED BY <1>4, <1>6, <2>1, <2>2
<1>7. CASE OnBus(s)
  <2>1. s \notin Console /\ d >= 3 /\ s + 3 <= SS_TOP
    BY <1>1, <1>5, <1>7 DEF OnBus, Console
  <2>2. x = WordAt(m.ram, s)
    <3>1. DwordBits # ByteBits
      BY WordSizes DEF DwordBits
    <3> QED BY <2>1, <3>1 DEF bus_read, WordAt, FourBytes
  <2>3. x \in Dword
    BY <1>1, <1>7, LayoutAssumption, BusReadType
  <2> HIDE DEF x
  <2>4. n \in Machines
    BY <2>3 DEF Machines
  <2> HIDE DEF n
  <2>5. /\ w \in Machines /\ w.gpr = n.gpr /\ w.rc = m.rc
        /\ \A b \in Address : w.ram[b] = IF b \in s..s+3 THEN 0 ELSE m.ram[b]
    <3>1. DwordBits \div ByteBits = 4 /\ DwordBits \in Width
      <4>1. DwordBits \in Width /\ DwordBits # ByteBits
        BY WordSizes DEF DwordBits, Width
      <4>2. 0 \in Int
        OBVIOUS
      <4> QED BY ONLY <4>1, <4>2, BytesOfWidth
    <3>2. w \in Machines
      BY <1>1, <2>4, <3>1, BusWriteType
    <3>3. s + 4 - 1 = s + 3
      BY SMT, <1>1
    <3>4. w = [n EXCEPT !.ram = [b \in Address |->
                 IF b \in s..s+3 THEN ByteAt(0, b - s) ELSE n.ram[b]]]
      BY <1>7, <2>1, <2>4, <3>1, <3>3 DEF bus_write, Machines
    <3>5. \A b \in s..s+3 : ByteAt(0, b - s) = 0
      <4>1. \A b \in s..s+3 : b - s \in 0..3
        BY SMT, <1>1
      <4> QED BY <4>1, BytesOfZero
    <3> HIDE DEF w
    <3> QED BY <1>2, <2>4, <3>2, <3>4, <3>5 DEF Machines
  <2> HIDE DEF w
  <2>6. /\ o.gpr[ESP] = (e + 4) % DWORD /\ o.gpr[r] = w.gpr[r] /\ o.ram = w.ram /\ o.rc = m.rc
        /\ o \in Machines
    <3>1. o \in Machines
      BY <1>2, <2>5, AddToType
    <3>2. w.gpr[ESP] = e
      BY <1>2, <2>5
    <3> QED BY <1>2, <2>5, <3>1, <3>2 DEF AddTo, Machines
  <2>7. Then(w, o) = o
    BY <2>5 DEF Then, Ok
  <2> HIDE DEF o
  <2>8. DepthOf(o) = (IF d = 3 THEN DWORD - 1 ELSE d - 4)
    <3>1. DepthOf(o) = (IF o.gpr[ESP] = 0 THEN 0 ELSE DWORD - o.gpr[ESP])
      BY <2>6, DepthType
    <3>2. e = DWORD - d /\ e # 0
      BY <1>1, <1>5, <2>1
    <3>3. CASE d = 3
      <4>1. e + 4 = DWORD * 1 + 1 /\ 1 \in 0..DWORD-1
        BY <1>1, <1>5, <3>2, <3>3
      <4>2. (e + 4) % DWORD = 1
        BY <1>1, <1>5, <4>1, QuotientIs, WordSizes
      <4> QED BY <2>6, <3>1, <3>3, <4>2
    <3>4. CASE d = 4
      <4>1. e + 4 = DWORD * 1 + 0 /\ 0 \in 0..DWORD-1
        BY <1>1, <1>5, <3>2, <3>4
      <4>2. (e + 4) % DWORD = 0
        BY <1>1, <1>5, <4>1, QuotientIs, WordSizes
      <4> QED BY <2>6, <3>1, <3>4, <4>2
    <3>5. CASE d > 4
      <4>1. e + 4 \in 0..DWORD-1
        BY <1>1, <1>5, <3>2, <3>5
      <4>2. (e + 4) % DWORD = e + 4
        BY <1>5, <4>1, SmallRemainder
      <4> QED BY <1>1, <1>5, <2>6, <3>1, <3>2, <3>5, <4>2
    <3> QED BY <1>1, <2>1, <3>3, <3>4, <3>5
  <2>9. Popped(m, o, r)
    <3>1. o.gpr[r] = WordAt(m.ram, s)
      BY ONLY <1>2, <2>2, <2>5, <2>6, Zenon
    <3>2. Ok(o)
      BY <2>6 DEF Ok
    <3>3. \A b \in Address : o.ram[b] = IF b \in s..s+3 THEN 0 ELSE m.ram[b]
      BY <2>5, <2>6
    <3>4. s = SS_TOP - DepthOf(m) /\ DepthOf(m) = d
      BY <1>1 DEF d
    <3> QED BY ONLY <2>8, <3>1, <3>2, <3>3, <3>4, Zenon DEF Popped
  <2>10. DepthOf(m) >= 3
    BY <2>1 DEF d
  <2> QED BY <1>4, <1>7, <2>7, <2>9, <2>10
<1> QED BY <1>6, <1>7

-----------------------------------------------------------------------------
(* Instructions that have nothing to do with the stack. *)

(* All else that writes at most a register other than ESP: moves and       *)
(* arithmetic with a register for destination, comparisons, jumps, and     *)
(* what only changes flags, stops or fails.                                *)
QuietInstr ==
  {i \in Instruction :
     /\ i.handler \in {"ALU_RM_R", "ALU_R_RM", "INC_R", "MOV_RM_R", "MOV_R_RM", "MOV_R_IMM",
                       "JCC", "JMP_REL", "GRP5", "CLC", "STC", "HLT", "UNIMPLEMENTED"}
     /\ i.handler \in {"ALU_R_RM", "INC_R", "MOV_R_RM", "MOV_R_IMM"} => i.reg # ESP
     /\ i.handler = "ALU_RM_R" => ThrowsResult(i.opclass) \/ (i.mod = 3 /\ i.rm # ESP)
     /\ i.handler = "MOV_RM_R" => i.mod = 3 /\ i.rm # ESP
     /\ i.handler = "GRP5" => i.reg # 2 /\ (i.reg \in {0, 1} => i.mod = 3 /\ i.rm # ESP)}

Quiet(n, m) == n.gpr[ESP] = m.gpr[ESP] /\ n.ram = m.ram /\ DOMAIN n = DOMAIN m

LEMMA QuietParts ==
  ASSUME NEW m \in Machines
  PROVE  /\ \A id \in Gpr \ {ESP} : \A width, x : Quiet(set_gpr_w_handler(m, id, width, x), m)
         /\ \A id \in Gpr \ {ESP} : \A x : Quiet([m EXCEPT !.gpr[id] = x], m)
         /\ \A opclass, flags : Quiet(WithFlags(m, opclass, flags), m)
         /\ \A code : Quiet(Fails(m, code), m)
         /\ Quiet(SegmentFault(m), m)
<1>1. ESP \in Gpr
  BY DEF ESP, Gpr
<1>2. \A id \in Gpr \ {ESP} : \A x : Quiet([m EXCEPT !.gpr[id] = x], m)
  BY <1>1 DEF Quiet, Machines
<1>3. \A id \in Gpr \ {ESP} : \A width, x : Quiet(set_gpr_w_handler(m, id, width, x), m)
  BY <1>1 DEF Quiet, Machines, set_gpr_w_handler
<1>4. /\ \A opclass, flags : Quiet(WithFlags(m, opclass, flags), m)
      /\ \A code : Quiet(Fails(m, code), m)
      /\ Quiet(SegmentFault(m), m)
  BY DEF Quiet, Machines, WithFlags, Fails, SegmentFault
<1> QED BY <1>2, <1>3, <1>4

LEMMA QuietJumps ==
  ASSUME NEW m \in Machines, NEW i
  PROVE  Quiet(jmp_rel(m, i), m) /\ Quiet(jmp_rm(m, i), m) /\ Quiet(m, m)
<1>1. EIP \in Gpr \ {ESP}
  BY DEF EIP, ESP, Gpr
<1>2. \A x : Quiet(AddTo(m, EIP, x), m)
  BY <1>1 DEF Quiet, Machines, AddTo, ESP, Gpr
<1>3. Quiet(jmp_rel(m, i), m)
  BY <1>2, QuietParts DEF jmp_rel
<1>4. Quiet(jmp_rm(m, i), m)
  BY <1>1, QuietParts DEF jmp_rm
<1> QED BY <1>3, <1>4 DEF Quiet

LEMMA QuietArithmetic ==
  ASSUME NEW m \in Machines, NEW i \in QuietInstr
  PROVE  /\ i.handler = "ALU_RM_R" => Quiet(alu_two_op_rm_r(m, i), m)
         /\ i.handler = "ALU_R_RM" => Quiet(alu_two_op_r_rm(m, i), m)
         /\ i.handler = "INC_R" => \A junk : Quiet(alu_increment_register(m, i, junk), m)
         /\ i.handler = "GRP5" => Quiet(execute_GRP5(m, i), m)
<1>1. i \in Instruction /\ i.reg \in Gpr /\ i.rm \in Gpr /\ i.mod \in 0..3
  BY InstructionParts DEF QuietInstr, Instruction
<1>2. ASSUME NEW n, Quiet(n, m)
      PROVE  \A opclass, flags : Quiet(WithFlags(n, opclass, flags), m)
  <2>1. "gpr" \in DOMAIN n /\ "ram" \in DOMAIN n
    BY <1>2 DEF Quiet, Machines
  <2>2. \A opclass, flags : /\ WithFlags(n, opclass, flags).gpr = n.gpr
                            /\ WithFlags(n, opclass, flags).ram = n.ram
                            /\ DOMAIN WithFlags(n, opclass, flags) = DOMAIN n
    BY <2>1 DEF WithFlags
  <2> QED BY <1>2, <2>2 DEF Quiet
<1>3. Quiet(m, m)
  BY DEF Quiet
<1>4. i.mod = 3 /\ i.rm # ESP => \A x : Quiet(write_rm_dst(m, i, x), m)
  BY <1>1, QuietParts DEF write_rm_dst, WriteTo
<1>5. \A code : Quiet(Fails(m, code), m)
  BY QuietParts
<1>6. ASSUME i.handler = "ALU_RM_R" PROVE Quiet(alu_two_op_rm_r(m, i), m)
  <2> DEFINE out == ALU(read_rm_op(m, i), gpr_w_handler(m, i.reg, i.width),
                        Cin(m, i.opclass), i.width, i.opclass)
             n   == IF ThrowsResult(i.opclass) THEN m ELSE write_rm_dst(m, i, out.low)
  <2>1. ThrowsResult(i.opclass) \/ (i.mod = 3 /\ i.rm # ESP)
    BY <1>6 DEF QuietInstr
  <2>2. Quiet(n, m)
    BY <1>3, <1>4, <2>1
  <2>3. alu_two_op_rm_r(m, i) = IF ~RmFound(m, i) THEN Fails(m, "BUS_READ_FAILURE")
                                ELSE Then(n, WithFlags(n, i.opclass, out.flags))
    BY DEF alu_two_op_rm_r
  <2> HIDE DEF n, out
  <2> QED BY <1>2, <1>5, <2>2, <2>3 DEF Then
<1>7. ASSUME i.handler = "ALU_R_RM" PROVE Quiet(alu_two_op_r_rm(m, i), m)
  <2> DEFINE out == ALU(gpr_w_handler(m, i.reg, i.width), read_rm_op(m, i),
                        Cin(m, i.opclass), i.width, i.opclass)
             n   == IF ThrowsResult(i.opclass) THEN m
                    ELSE set_gpr_w_handler(m, i.reg, i.width, out.low)
  <2>1. i.reg \in Gpr \ {ESP}
    BY <1>1, <1>7 DEF QuietInstr
  <2>2. Quiet(n, m)
    BY <1>3, <2>1, QuietParts
  <2>3. alu_two_op_r_rm(m, i) = IF ~RmFound(m, i) THEN Fails(m, "BUS_READ_FAILURE")
                                ELSE WithFlags(n, i.opclass, out.flags)
    BY DEF alu_two_op_r_rm
  <2> HIDE DEF n, out
  <2> QED BY <1>2, <1>5, <2>2, <2>3
<1>8. ASSUME i.handler = "INC_R", NEW junk PROVE Quiet(alu_increment_register(m, i, junk), m)
  <2> DEFINE out == ALU(m.gpr[i.reg], 0, 0, DwordBits, "INC")
             n   == set_gpr_w_handler(m, i.reg, DwordBits, out.low)
  <2>1. i.reg \in Gpr \ {ESP}
    BY <1>1, <1>8 DEF QuietInstr
  <2>2. Quiet(n, m)
    BY <2>1, QuietParts
  <2>3. alu_increment_register(m, i, junk) = WithFlags(n, "INC", out.flags \cup junk)
    BY DEF alu_increment_register
  <2> HIDE DEF n, out
  <2> QED BY <1>2, <2>2, <2>3
<1>9. ASSUME i.handler = "GRP5" PROVE Quiet(execute_GRP5(m, i), m)
  <2>1. i.reg # 2 /\ (i.reg \in {0, 1} => i.mod = 3 /\ i.rm # ESP)
    BY <1>9 DEF QuietInstr
  <2>2. ASSUME NEW opclass, i.mod = 3 /\ i.rm # ESP PROVE Quiet(step_rm(m, i, opclass), m)
    <3> DEFINE out == ALU(read_rm_op(m, i), 0, 0, DwordBits, opclass)
               n   == write_rm_dst(m, i, out.low)
    <3>1. Quiet(n, m)
      BY <1>4, <2>2
    <3>2. step_rm(m, i, opclass) = Then(n, WithFlags(n, opclass, out.flags))
      BY DEF step_rm
    <3> HIDE DEF n, out
    <3> QED BY <1>2, <3>1, <3>2 DEF Then
  <2>3. CASE ~RmFound(m, i)
    <3>1. execute_GRP5(m, i) = Fails(m, "BUS_READ_FAILURE")
      BY <2>3 DEF execute_GRP5
    <3> QED BY <1>5, <3>1
  <2>4. CASE RmFound(m, i)
    <3>1. \/ i.reg = 0 /\ execute_GRP5(m, i) = step_rm(m, i, "INC")
          \/ i.reg = 1 /\ execute_GRP5(m, i) = step_rm(m, i, "DEC")
          \/ execute_GRP5(m, i) = jmp_rm(m, i)
          \/ execute_GRP5(m, i) = Fails(m, "UNIMPLEMENTED_INSTRUCTION")
      BY <1>1, <2>1, <2>4 DEF execute_GRP5, Gpr
    <3> QED BY <1>5, <2>1, <2>2, <3>1, QuietJumps
  <2> QED BY <2>3, <2>4
<1> QED BY <1>6, <1>7, <1>8, <1>9

LEMMA QuietStep ==
  ASSUME NEW m \in Machines, NEW i \in QuietInstr, m = Fetched(i), Execute(i)
  PROVE  gpr'[ESP] = m.gpr[ESP] /\ ram' = m.ram
<1> SUFFICES \E n : Quiet(n, m) /\ gpr' = n.gpr /\ ram' = n.ram
  BY DEF Quiet
<1>1. i \in Instruction /\ i.reg \in Gpr /\ i.rm \in Gpr
  BY InstructionParts DEF QuietInstr
<1>2. CASE AluRmR(i)
  BY <1>2, QuietArithmetic DEF AluRmR, Runs
<1>3. CASE AluRRm(i)
  BY <1>3, QuietArithmetic DEF AluRRm, Runs
<1>4. CASE IncR(i)
  BY <1>4, QuietArithmetic DEF IncR, Runs
<1>5. CASE MovRmR(i)
  <2>1. i.mod = 3 /\ i.rm \in Gpr \ {ESP}
    BY <1>1, <1>5 DEF MovRmR, Runs, QuietInstr
  <2> QED BY <1>5, <2>1, QuietParts DEF MovRmR, Runs, WriteTo
<1>6. CASE MovRRm(i) \/ MovRImm(i)
  <2>1. i.reg \in Gpr \ {ESP}
    BY <1>1, <1>6 DEF MovRRm, MovRImm, Runs, QuietInstr
  <2> QED BY <1>6, <2>1, QuietParts DEF MovRRm, MovRImm, Runs
<1>7. CASE Jcc(i) \/ Jmp(i)
  BY <1>7, QuietJumps DEF Jcc, Jmp, Runs
<1>8. CASE Grp5(i)
  BY <1>8, QuietArithmetic DEF Grp5, Runs
<1>9. CASE Clc(i) \/ Stc(i) \/ Hlt(i) \/ Unimplemented(i)
  <2>1. \A s, h : Quiet([m EXCEPT !.status = s], m) /\ Quiet([m EXCEPT !.halt = h], m)
    BY DEF Quiet, Machines
  <2> QED BY <1>9, <2>1, QuietParts DEF Clc, Stc, Hlt, Unimplemented, Runs
<1>10. \/ AluRmR(i) \/ AluRRm(i) \/ IncR(i) \/ MovRmR(i) \/ MovRRm(i) \/ MovRImm(i)
       \/ Jcc(i) \/ Jmp(i) \/ Grp5(i) \/ Clc(i) \/ Stc(i) \/ Hlt(i) \/ Unimplemented(i)
  BY DEF QuietInstr, Execute, PushR, PushImm, PushA, PopR, PopA, Ret, Call, Runs
<1> QED BY <1>2, <1>3, <1>4, <1>5, <1>6, <1>7, <1>8, <1>9, <1>10

-----------------------------------------------------------------------------
(* One instruction. *)

(* Any pushes, pops, returns and relative calls; left out are the PUSH of  *)
(* EIP, which no opcode asks for, and POP ESP.                             *)
PushPopInstr ==
  {i \in Instruction :
     /\ i.handler \in {"PUSH_R", "PUSH_IMM", "POP_R", "RET", "CALL_REL"}
     /\ i.handler = "PUSH_R" => i.reg # EIP
     /\ i.handler = "POP_R" => i.reg # ESP}

(* The programs the theorems are about.  They do not store into RAM other  *)
(* than by a push, nor set ESP other than by a push or a pop: the stack    *)
(* would not be theirs alone.  PUSHA, POPA and CALL rm32 are left out too, *)
(* since Moves has no bytes for them.                                      *)
LifoInstr == PushPopInstr \cup QuietInstr

StepPushes(i, k, x) ==
  /\ k \in {1, 4} /\ x \in Dword
  /\ Depth' = Depth + k /\ Depth' <= SS_TOP
  /\ LET t == SS_TOP - Depth'
     IN \A b \in Address : ram'[b] = IF b \in t..t+k-1 THEN ByteAt(x, b - t) ELSE ram[b]
  /\ Moves(i) = [j \in 1..k |-> ByteAt(x, k - j)]
  /\ i.handler = "CALL_REL" => k = 4 /\ x = Fetched(i).gpr[EIP]

StepPops(i) ==
  LET s == SS_TOP - Depth
  IN /\ Depth >= 3 /\ Depth' = (IF Depth = 3 THEN DWORD - 1 ELSE Depth - 4)
     /\ \A b \in Address : ram'[b] = IF b \in s..s+3 THEN 0 ELSE ram[b]
     /\ Moves(i) = Bytes(WordAt(ram, s), DwordBits)
     /\ i.handler # "CALL_REL"

StepKeeps(i) ==
  /\ Depth' = Depth /\ ram' = ram
  /\ Moves(i) = <<>>
  /\ i.handler = "CALL_REL" => rc' # "EXECUTE_SUCCESS"

(* The machine an instruction runs on has the stack of the state.          *)
LEMMA FetchedStack ==
  ASSUME ExecutorTypeOK, ~broken, NEW i \in Instruction, Running
  PROVE  /\ Fetched(i) \in Machines /\ Ok(Fetched(i))
         /\ Fetched(i).ram = ram
         /\ \A r \in Gpr \ {EIP} : Fetched(i).gpr[r] = gpr[r]
         /\ DepthOf(Fetched(i)) = Depth /\ Depth \in 0..DWORD-1 /\ Depth <= SS_TOP
<1> DEFINE m == Fetched(i)
<1>1. Machine \in Machines /\ m \in Machines
  BY MachineType
<1>2. Machine.ram = ram /\ Machine.gpr = gpr /\ Machine.rc = rc
  BY DEF Machine
<1>3. EIP \in Gpr /\ ESP \in Gpr /\ EIP # ESP
  BY DEF EIP, ESP, Gpr
<1>4. m.ram = ram /\ m.rc = rc /\ \A r \in Gpr \ {EIP} : m.gpr[r] = gpr[r]
  BY <1>1, <1>2, <1>3 DEF Fetched, AddTo, Machines
<1>5. DepthOf(m) = Depth
  BY <1>3, <1>4 DEF DepthOf, Depth
<1>6. Depth \in 0..DWORD-1 /\ Depth <= SS_TOP
  <2>1. Depth \in 0..DWORD-1
    BY <1>1, <1>5, DepthType
  <2>2. ~ (Depth > SS_TOP)
    BY DEF broken
  <2> HIDE DEF m
  <2> QED BY <2>1, <2>2, LayoutAssumption, WordSizes
<1> QED BY <1>1, <1>4, <1>5, <1>6 DEF Ok, Running

LEMMA ExecuteRunning ==
  ASSUME NEW i, Execute(i)
  PROVE  Running
BY DEF Execute, AluRmR, AluRRm, IncR, MovRmR, MovRRm, MovRImm, PushR, PushImm, PushA, PopR,
       PopA, Ret, Jcc, Jmp, Call, Grp5, Clc, Stc, Hlt, Unimplemented, Runs

LEMMA KeepingStep ==
  ASSUME NEW i, NEW m, NEW n, m.gpr[ESP] = gpr[ESP], m.ram = ram, Refused(m, n),
         gpr' = n.gpr, ram' = n.ram, rc' = n.rc
  PROVE  StepKeeps(i)
<1>1. gpr'[ESP] = gpr[ESP] /\ ram' = ram /\ rc' # "EXECUTE_SUCCESS"
  BY DEF Refused, Ok
<1>2. Depth' = Depth
  BY <1>1 DEF Depth
<1>3. Moves(i) = <<>>
  BY <1>1 DEF Moves, MovesNothing
<1> QED BY <1>1, <1>2, <1>3 DEF StepKeeps

(* What is pushed is what Moves says, if the instruction says so.          *)
LEMMA PushedStep ==
  ASSUME NEW i, NEW m \in Machines, NEW n, NEW width \in Width, NEW x \in Dword,
         DepthOf(m) = Depth, m.ram = ram,
         Pushed(m, n, width \div ByteBits, x),
         gpr'[ESP] = n.gpr[ESP], ram' = n.ram,
         rc' = "EXECUTE_SUCCESS" \/ i.handler = "CALL_REL",
         ~MovesNothing(i) => Moves(i) = Bytes(x, width),
         i.handler = "CALL_REL" => width = DwordBits /\ x = Fetched(i).gpr[EIP]
  PROVE  \E k : StepPushes(i, k, x)
<1> DEFINE k == width \div ByteBits
<1>1. k \in {1, 4} /\ (width = DwordBits => k = 4)
  <2>1. 0 \in Int /\ DwordBits # ByteBits
    BY WordSizes DEF DwordBits
  <2> QED BY ONLY <2>1, BytesOfWidth
<1>2. Bytes(x, width) = [j \in 1..k |-> ByteAt(x, k - j)]
  BY DEF Bytes
<1> HIDE DEF k
<1>3. Depth' = DepthOf(n) /\ Depth \in 0..DWORD-1
  BY DepthType DEF Depth, DepthOf
<1>4. Pushed(m, n, k, x)
  BY DEF k
<1>5. Depth' = Depth + k /\ Depth' <= SS_TOP
  BY <1>3, <1>4 DEF Pushed
<1>6. \A b \in Address : ram'[b] = IF b \in SS_TOP - Depth'..SS_TOP - Depth' + k - 1
                                   THEN ByteAt(x, b - (SS_TOP - Depth')) ELSE ram[b]
  BY <1>3, <1>4 DEF Pushed
<1>7. ~MovesNothing(i)
  <2>1. Depth' # Depth
    BY SMT, <1>1, <1>3, <1>5
  <2>2. gpr'[ESP] # gpr[ESP]
    BY <2>1 DEF Depth
  <2> QED BY <2>2 DEF MovesNothing
<1>8. Moves(i) = [j \in 1..k |-> ByteAt(x, k - j)]
  BY <1>2, <1>7
<1>9. StepPushes(i, k, x)
  BY ONLY <1>1, <1>5, <1>6, <1>8, x \in Dword,
          i.handler = "CALL_REL" => width = DwordBits /\ x = Fetched(i).gpr[EIP], Zenon
     DEF StepPushes
<1> QED BY <1>9

LEMMA PoppedStep ==
  ASSUME NEW i, NEW m \in Machines, NEW n, NEW r, DepthOf(m) = Depth, m.ram = ram,
         Depth <= SS_TOP, Depth >= 3, Popped(m, n, r),
         gpr' = n.gpr, ram' = n.ram, rc' = n.rc,
         \/ i.handler = "POP_R" /\ r = i.reg
         \/ i.handler = "RET" /\ r = EIP
  PROVE  StepPops(i) /\ gpr'[r] = WordAt(ram, SS_TOP - Depth)
<1> DEFINE s == SS_TOP - Depth
<1>1. Depth' = DepthOf(n) /\ Depth \in 0..DWORD-1
  BY DepthType DEF Depth, DepthOf
<1>2. /\ gpr'[r] = WordAt(ram, s)
      /\ Depth' = (IF Depth = 3 THEN DWORD - 1 ELSE Depth - 4)
      /\ \A b \in Address : ram'[b] = IF b \in s..s+3 THEN 0 ELSE ram[b]
      /\ rc' = "EXECUTE_SUCCESS"
  BY <1>1 DEF Popped, Ok
<1>3. gpr'[ESP] # gpr[ESP]
  <2>1. Depth' # Depth
    <3>1. SS_TOP \in Nat /\ SS_TOP + 9 <= DWORD /\ DWORD \in Nat
      BY LayoutAssumption, WordSizes
    <3> QED BY SMT, <1>1, <1>2, <3>1
  <2> QED BY <2>1 DEF Depth
<1> HIDE DEF s
<1>4. Moves(i) = Bytes(gpr'[r], DwordBits)
  BY <1>2, <1>3 DEF Moves, MovesNothing
<1>5. i.handler # "CALL_REL"
  OBVIOUS
<1> QED BY <1>2, <1>4, <1>5 DEF StepPops, s

(* ESP as PUSH ESP pushes it, and as Moves tells it from the state before. *)
LEMMA LoweredEsp ==
  ASSUME NEW e \in 0..DWORD-1
  PROVE  (e - 4) % DWORD = (e + DWORD - 4) % DWORD
<1>1. DWORD \in Nat /\ DWORD > 8
  BY WordSizes, LayoutAssumption
<1>2. (e - 4) % DWORD = (IF e >= 4 THEN e - 4 ELSE e - 4 + DWORD)
  <2>1. 4 \in 0..DWORD-1
    BY <1>1
  <2> QED BY <1>1, <2>1, DifferenceCut
<1>3. CASE e >= 4
  <2>1. /\ e + DWORD - 4 = DWORD * 1 + (e - 4) /\ e - 4 \in 0..DWORD-1 /\ e + DWORD - 4 \in Int
        /\ 1 \in Int /\ DWORD > 0
    BY <1>1, <1>3
  <2>2. (e + DWORD - 4) % DWORD = e - 4
    BY ONLY <1>1, <2>1, QuotientIs
  <2> QED BY <1>2, <1>3, <2>2
<1>4. CASE e < 4
  <2>1. e + DWORD - 4 \in 0..DWORD-1 /\ e - 4 + DWORD = e + DWORD - 4 /\ ~(e >= 4)
    BY <1>1, <1>4
  <2>2. (e + DWORD - 4) % DWORD = e + DWORD - 4
    BY <1>1, <2>1, SmallRemainder
  <2> QED BY ONLY <1>2, <2>1, <2>2, Zenon
<1> QED BY <1>3, <1>4

LEMMA RegisterPushed ==
  ASSUME NEW m \in Machines, NEW r \in Gpr
  PROVE  \E x \in Dword : /\ push_gpr(m, r) = Push(m, DwordBits, x)
                          /\ r # ESP => x = m.gpr[r]
                          /\ r = ESP => x = (m.gpr[ESP] + DWORD - 4) % DWORD
<1> DEFINE n == Lowered(m, DwordBits)
           x == n.gpr[r]
<1>1. DwordBits \in Width /\ DwordBits \div ByteBits = 4
  <2>1. 0 \in Int /\ DwordBits \in Width /\ DwordBits # ByteBits
    BY WordSizes DEF DwordBits, Width
  <2> QED BY ONLY <2>1, BytesOfWidth
<1>2. n \in Machines /\ n.gpr[ESP] = (m.gpr[ESP] - 4) % DWORD
      /\ \A q \in Gpr \ {ESP} : n.gpr[q] = m.gpr[q]
  BY <1>1, LoweredAddress, PushType
<1>3. x \in Dword /\ m.gpr[ESP] \in 0..DWORD-1
  BY <1>2, GprReadType, DepthType
<1>4. r = ESP => x = (m.gpr[ESP] + DWORD - 4) % DWORD
  BY <1>2, <1>3, LoweredEsp
<1>5. push_gpr(m, r) = Push(m, DwordBits, x)
  BY DEF push_gpr
<1> HIDE DEF n
<1> QED BY <1>2, <1>3, <1>4, <1>5

(* One step per kind of instruction. *)
LEMMA StackStep ==
  ASSUME ExecutorTypeOK, ~broken, NEW i \in LifoInstr, Execute(i)
  PROVE  (\E k, x : StepPushes(i, k, x)) \/ StepPops(i) \/ StepKeeps(i)
<1> DEFINE m == Fetched(i)
           Done == (\E k, x : StepPushes(i, k, x)) \/ StepPops(i) \/ StepKeeps(i)
<1> SUFFICES Done
  OBVIOUS
<1>1. /\ m \in Machines /\ Ok(m) /\ m.ram = ram /\ m.gpr[ESP] = gpr[ESP]
      /\ \A r \in Gpr \ {EIP} : m.gpr[r] = gpr[r]
      /\ DepthOf(m) = Depth /\ Depth \in 0..DWORD-1 /\ Depth <= SS_TOP
  <2>1. ESP \in Gpr \ {EIP} /\ i \in Instruction
    BY DEF ESP, EIP, Gpr, LifoInstr, PushPopInstr, QuietInstr
  <2> QED BY <2>1, ExecuteRunning, FetchedStack
<1>2. /\ i.width \in Width /\ i.imm \in Dword /\ i.reg \in Gpr /\ i \in Instruction
      /\ DwordBits \in Width /\ \A x \in Dword : x \in Int
      /\ EIP \in Gpr /\ ESP \in Gpr /\ EIP # ESP
  BY InstructionParts, WordSizes DEF LifoInstr, PushPopInstr, QuietInstr, Width, EIP, ESP, Gpr, Dword
<1>3. ASSUME NEW n, Refused(m, n), gpr' = n.gpr, ram' = n.ram, rc' = n.rc
      PROVE  Done
  BY <1>1, <1>3, KeepingStep
<1>4. ASSUME NEW n, NEW width \in Width, NEW x \in Dword,
             Pushed(m, n, width \div ByteBits, x),
             gpr'[ESP] = n.gpr[ESP], ram' = n.ram,
             rc' = n.rc \/ i.handler = "CALL_REL",
             ~MovesNothing(i) => Moves(i) = Bytes(x, width),
             i.handler = "CALL_REL" => width = DwordBits /\ x = m.gpr[EIP]
      PROVE  Done
  <2>1. n.rc = "EXECUTE_SUCCESS"
    BY <1>4 DEF Pushed, Ok
  <2> QED BY <1>1, <1>4, <2>1, PushedStep
<1>5. ASSUME NEW r \in Gpr, r # ESP, NEW junk \in JunkDword,
             gpr' = pop_gpr(m, r, junk).gpr, ram' = pop_gpr(m, r, junk).ram,
             rc' = pop_gpr(m, r, junk).rc,
             \/ i.handler = "POP_R" /\ r = i.reg
             \/ i.handler = "RET" /\ r = EIP
      PROVE  Done
  <2>1. CASE Refused(m, pop_gpr(m, r, junk))
    BY <1>3, <1>5, <2>1
  <2>2. CASE DepthOf(m) >= 3 /\ Popped(m, pop_gpr(m, r, junk), r)
    <3>1. StepPops(i)
      BY <1>1, <1>5, <2>2, PoppedStep
    <3> QED BY <3>1
  <2> QED BY <1>1, <1>5, <2>1, <2>2, PopEffect
<1> HIDE DEF m, Done
<1>6. CASE PushR(i)
  <2>1. /\ i.handler = "PUSH_R"
        /\ gpr' = push_gpr(m, i.reg).gpr /\ ram' = push_gpr(m, i.reg).ram
        /\ rc' = push_gpr(m, i.reg).rc
    BY <1>6 DEF PushR, Runs, m
  <2>2. i.reg # EIP
    BY <2>1 DEF LifoInstr, PushPopInstr, QuietInstr
  <2>3. PICK x \in Dword : /\ push_gpr(m, i.reg) = Push(m, DwordBits, x)
                           /\ i.reg # ESP => x = m.gpr[i.reg]
                           /\ i.reg = ESP => x = (m.gpr[ESP] + DWORD - 4) % DWORD
    BY <1>1, <1>2, RegisterPushed
  <2>4. ~MovesNothing(i) => Moves(i) = Bytes(x, DwordBits)
    <3>1. CASE i.reg = ESP
      BY <1>1, <2>1, <2>3, <3>1 DEF Moves
    <3>2. CASE i.reg # ESP
      <4>1. x = gpr[i.reg]
        BY <1>1, <1>2, <2>2, <2>3, <3>2
      <4> QED BY <2>1, <3>2, <4>1 DEF Moves
    <3> QED BY <3>1, <3>2
  <2>5. \/ Refused(m, Push(m, DwordBits, x))
        \/ Pushed(m, Push(m, DwordBits, x), DwordBits \div ByteBits, x)
    BY <1>1, <1>2, PushEffect
  <2> QED BY <1>2, <1>3, <1>4, <2>1, <2>3, <2>4, <2>5
<1>7. CASE PushImm(i)
  <2> DEFINE n == Push(m, i.width, i.imm)
  <2>1. i.handler = "PUSH_IMM" /\ gpr' = n.gpr /\ ram' = n.ram /\ rc' = n.rc
    BY <1>7 DEF PushImm, Runs, m
  <2>2. ~MovesNothing(i) => Moves(i) = Bytes(i.imm, i.width)
    BY <2>1 DEF Moves
  <2>3. Refused(m, n) \/ Pushed(m, n, i.width \div ByteBits, i.imm)
    BY <1>1, <1>2, PushEffect
  <2> HIDE DEF n
  <2> QED BY <1>2, <1>3, <1>4, <2>1, <2>2, <2>3
<1>8. CASE PopR(i)
  <2>1. i.handler = "POP_R"
    BY <1>8 DEF PopR, Runs
  <2>2. i.reg # ESP
    BY <2>1 DEF LifoInstr, PushPopInstr, QuietInstr
  <2>3. PICK junk \in JunkDword : Runs(i, "POP_R", pop_gpr(m, i.reg, junk))
    BY <1>8 DEF PopR, m
  <2> QED BY <1>2, <1>5, <2>1, <2>2, <2>3 DEF Runs
<1>9. CASE Ret(i)
  <2>1. PICK junk \in JunkDword : Runs(i, "RET", pop_gpr(m, EIP, junk))
    BY <1>9 DEF Ret, m
  <2> QED BY <1>2, <1>5, <2>1 DEF Runs
<1>10. CASE Call(i)
  <2> DEFINE p == push_gpr(m, EIP)
             n == call_rel(m, i)
  <2>1. i.handler = "CALL_REL" /\ gpr' = n.gpr /\ ram' = n.ram /\ rc' = n.rc
    BY <1>10 DEF Call, Runs, m
  <2>2. p = Push(m, DwordBits, m.gpr[EIP]) /\ m.gpr[EIP] \in Dword /\ p \in Machines
    <3>1. m.gpr[EIP] \in Dword /\ p \in Machines
      BY <1>1, <1>2, GprReadType, PushType
    <3> QED BY <1>1, <1>2, <3>1, RegisterPushed
  <2>3. Refused(m, p) \/ Pushed(m, p, DwordBits \div ByteBits, m.gpr[EIP])
    BY <1>1, <1>2, <2>2, PushEffect
  <2>4. n = Then(p, jmp_rel(p, i))
    BY DEF call_rel
  <2>5. jmp_rel(p, i).gpr[ESP] = p.gpr[ESP] /\ jmp_rel(p, i).ram = p.ram
    <3> HIDE DEF p
    <3> QED BY <1>2, <2>2 DEF jmp_rel, SegmentFault, Fails, AddTo, Machines
  <2> HIDE DEF p, n
  <2>6. CASE Refused(m, p)
    <3>1. n = p
      BY <2>4, <2>6 DEF Then, Refused
    <3> QED BY <1>3, <2>1, <2>6, <3>1
  <2>7. CASE Pushed(m, p, DwordBits \div ByteBits, m.gpr[EIP])
    <3>1. gpr'[ESP] = p.gpr[ESP] /\ ram' = p.ram
      BY <2>1, <2>4, <2>5 DEF Then
    <3>2. ~MovesNothing(i) => Moves(i) = Bytes(m.gpr[EIP], DwordBits)
      BY <2>1 DEF Moves, m
    <3> QED BY <1>2, <1>4, <2>1, <2>2, <2>7, <3>1, <3>2
  <2> QED BY <2>3, <2>6, <2>7
<1>11. CASE i \in QuietInstr
  <2>1. gpr'[ESP] = gpr[ESP] /\ ram' = ram
    BY <1>1, <1>11, QuietStep DEF m
  <2>2. Depth' = Depth /\ Moves(i) = <<>>
    BY <2>1 DEF Depth, Moves, MovesNothing
  <2>3. i.handler # "CALL_REL"
    BY <1>11 DEF QuietInstr
  <2> QED BY <2>1, <2>2, <2>3 DEF StepKeeps, Done
<1>12. CASE i \in PushPopInstr
  <2>1. PushR(i) \/ PushImm(i) \/ PopR(i) \/ Ret(i) \/ Call(i)
    BY <1>12 DEF PushPopInstr, Execute, AluRmR, AluRRm, IncR, MovRmR, MovRRm, MovRImm, PushA,
           PopA, Jcc, Jmp, Grp5, Clc, Stc, Hlt, Unimplemented, Runs
  <2> QED BY <1>6, <1>7, <1>8, <1>9, <1>10, <2>1
<1> QED BY <1>11, <1>12 DEF LifoInstr

-----------------------------------------------------------------------------
(* Invariants. *)

(* The return address of an open call lies on the stack, at its depth.     *)
FramesLie ==
  ~broken => \A f \in frames : /\ f.depth \in 4..Depth
                               /\ f.to = WordAt(ram, SS_TOP - f.depth)

LEMMA DepthIsNat == (ExecutorTypeOK => Depth \in Nat) /\ (ExecutorTypeOK' => Depth' \in Nat)
<1>1. \A e \in Dword : (DWORD - e) % DWORD \in Nat
  BY WordSizes DEF Dword
<1>2. ESP \in Gpr
  BY DEF ESP, Gpr
<1> QED BY <1>1, <1>2 DEF ExecutorTypeOK, Depth

LEMMA ClearStep ==
  ASSUME ~broken, Depth \in Nat, Depth' \in Nat, PoppedSlotsCleared, NEW i,
         (\E k, x : StepPushes(i, k, x)) \/ StepPops(i) \/ StepKeeps(i)
  PROVE  PoppedSlotsCleared'
<1> SUFFICES ASSUME ~broken', NEW a \in 0..SS_TOP-1, a < SS_TOP - Depth'
             PROVE  ram'[a] = 0
  BY DEF PoppedSlotsCleared, broken
<1>1. /\ SS_TOP \in Nat /\ SS_TOP = RAM_SIZE - 1 /\ SS_TOP + 9 <= DWORD /\ DWORD \in Nat
      /\ a \in Address /\ Depth <= SS_TOP /\ Depth' <= SS_TOP
      /\ a < SS_TOP - Depth => ram[a] = 0
  <2>1. SS_TOP \in Nat /\ SS_TOP = RAM_SIZE - 1 /\ SS_TOP + 9 <= DWORD /\ DWORD \in Nat
    BY LayoutAssumption, WordSizes
  <2>2. a \in Address /\ Depth <= SS_TOP
    BY <2>1 DEF Address, broken
  <2> QED BY <2>1, <2>2 DEF PoppedSlotsCleared, broken
<1>2. CASE \E k, x : StepPushes(i, k, x)
  <2>1. PICK k, x : StepPushes(i, k, x)
    BY <1>2
  <2>2. k \in {1, 4} /\ Depth' = Depth + k
        /\ ram'[a] = IF a \in SS_TOP - Depth'..SS_TOP - Depth' + k - 1
                     THEN ByteAt(x, a - (SS_TOP - Depth')) ELSE ram[a]
    BY <1>1, <2>1 DEF StepPushes
  <2>3. a < SS_TOP - Depth
    BY SMT, <1>1, <2>2
  <2>4. a \notin SS_TOP - Depth'..SS_TOP - Depth' + k - 1
    BY SMT, <1>1, <2>2
  <2> QED BY <1>1, <2>2, <2>3, <2>4
<1>3. CASE StepPops(i)
  <2>1. /\ Depth >= 3 /\ Depth' = (IF Depth = 3 THEN DWORD - 1 ELSE Depth - 4)
        /\ ram'[a] = IF a \in SS_TOP - Depth..SS_TOP - Depth + 3 THEN 0 ELSE ram[a]
    BY <1>1, <1>3 DEF StepPops
  <2>2. a \in SS_TOP - Depth..SS_TOP - Depth + 3 \/ a < SS_TOP - Depth
    BY SMT, <1>1, <2>1
  <2> QED BY <1>1, <2>1, <2>2
<1>4. CASE StepKeeps(i)
  BY <1>1, <1>4 DEF StepKeeps
<1> QED BY <1>2, <1>3, <1>4

(* The dword that a push of four bytes leaves at the new top.              *)
LEMMA WordPushed ==
  ASSUME NEW x \in Dword, NEW r, NEW t \in Nat, t + 3 \in Address,
         \A b \in t..t+3 : r[b] = ByteAt(x, b - t)
  PROVE  WordAt(r, t) = x
<1>1. /\ t \in t..t+3 /\ t + 1 \in t..t+3 /\ t + 2 \in t..t+3 /\ t + 3 \in t..t+3
      /\ t - t = 0 /\ (t + 1) - t = 1 /\ (t + 2) - t = 2 /\ (t + 3) - t = 3
  BY SMT
<1>2. /\ r[t] = ByteAt(x, 0) /\ r[t+1] = ByteAt(x, 1)
      /\ r[t+2] = ByteAt(x, 2) /\ r[t+3] = ByteAt(x, 3)
  BY ONLY <1>1, \A b \in t..t+3 : r[b] = ByteAt(x, b - t), Zenon
<1> QED BY ONLY <1>2, FourOfBytes, x \in Dword, Zenon DEF WordAt

LEMMA FramesStep ==
  ASSUME ~broken, Depth \in Nat, Depth' \in Nat, FramesLie, NEW i \in LifoInstr,
         frames' = Frames(i),
         (\E k, x : StepPushes(i, k, x)) \/ StepPops(i) \/ StepKeeps(i)
  PROVE  FramesLie'
<1>1. /\ SS_TOP \in Nat /\ SS_TOP = RAM_SIZE - 1 /\ SS_TOP + 9 <= DWORD /\ DWORD \in Nat
      /\ Depth <= SS_TOP
  <2>1. SS_TOP \in Nat /\ SS_TOP = RAM_SIZE - 1 /\ SS_TOP + 9 <= DWORD /\ DWORD \in Nat
    BY LayoutAssumption, WordSizes
  <2> QED BY <2>1 DEF broken
<1> SUFFICES ASSUME ~broken', NEW f \in frames'
             PROVE  f.depth \in 4..Depth' /\ f.to = WordAt(ram', SS_TOP - f.depth)
  BY DEF FramesLie
(* An older frame, of which no byte has been touched.                      *)
<1>2. CASE f \in frames /\ f.depth <= Depth'
  <2> DEFINE t == SS_TOP - f.depth
  <2>1. f.depth \in 4..Depth /\ f.to = WordAt(ram, t)
    BY <1>2 DEF FramesLie
  <2>2. \A c \in {0, 1, 2, 3} : t + c \in Address /\ t + c \in SS_TOP - Depth..SS_TOP - 1
    BY SMT, <1>1, <2>1 DEF Address
  <2>3. ASSUME NEW b \in Address, b >= t, b <= t + 3
        PROVE  ram'[b] = ram[b]
    <3>1. CASE \E k, x : StepPushes(i, k, x)
      <4>1. PICK k, x : StepPushes(i, k, x)
        BY <3>1
      <4>2. b \notin SS_TOP - Depth'..SS_TOP - Depth' + k - 1
        <5>1. k \in {1, 4} /\ Depth' = Depth + k
          BY <4>1 DEF StepPushes
        <5> QED BY SMT, <1>1, <2>1, <2>3, <5>1 DEF Address
      <4> QED BY <4>1, <4>2 DEF StepPushes
    <3>2. CASE StepPops(i)
      <4>1. b \notin SS_TOP - Depth..SS_TOP - Depth + 3
        <5>1. Depth >= 3 /\ Depth' = (IF Depth = 3 THEN DWORD - 1 ELSE Depth - 4)
          BY <3>2 DEF StepPops
        <5>2. Depth = 3 => FALSE
          BY <1>1, <2>1
        <5> QED BY SMT, <1>1, <1>2, <2>1, <2>3, <5>1, <5>2 DEF Address
      <4> QED BY <3>2, <4>1 DEF StepPops
    <3>3. CASE StepKeeps(i)
      BY <3>3 DEF StepKeeps
    <3> QED BY <3>1, <3>2, <3>3
  <2>4. t \in Int /\ t + 0 = t
    BY SMT, <1>1, <2>1
  <2>5. /\ ram'[t] = ram[t] /\ ram'[t+1] = ram[t+1]
        /\ ram'[t+2] = ram[t+2] /\ ram'[t+3] = ram[t+3]
    <3> HIDE DEF t
    <3>1. t \in Address /\ t + 1 \in Address /\ t + 2 \in Address /\ t + 3 \in Address
      BY <2>2, <2>4
    <3>2. /\ t >= t /\ t <= t + 3 /\ t + 1 >= t /\ t + 1 <= t + 3
          /\ t + 2 >= t /\ t + 2 <= t + 3 /\ t + 3 >= t /\ t + 3 <= t + 3
      BY SMT, <2>4
    <3> QED BY ONLY <2>3, <3>1, <3>2, Zenon
  <2>6. f.depth \in 4..Depth'
    BY <1>2, <2>1
  <2> QED BY <2>1, <2>5, <2>6 DEF WordAt
(* The frame of the call that has just been executed.                      *)
<1>3. CASE f \in Opened(i)
  <2>1. /\ i.handler = "CALL_REL" /\ rc' = "EXECUTE_SUCCESS"
        /\ f.depth = Depth' /\ f.to = Fetched(i).gpr[EIP]
    BY <1>3 DEF Opened
  <2>2. PICK k, x : StepPushes(i, k, x)
    BY <2>1 DEF StepPops, StepKeeps
  <2> DEFINE t == SS_TOP - Depth'
  <2>3. /\ Depth' = Depth + 4 /\ Depth' <= SS_TOP /\ x \in Dword /\ f.to = x
        /\ \A b \in Address : ram'[b] = IF b \in t..t+4-1 THEN ByteAt(x, b - t) ELSE ram[b]
    BY <2>1, <2>2 DEF StepPushes
  <2>4. t \in Nat /\ t + 4 - 1 = t + 3 /\ t + 3 \in Address /\ \A b \in t..t+3 : b \in Address
    BY SMT, <1>1, <2>3 DEF Address
  <2> HIDE DEF t
  <2>5. \A b \in t..t+3 : ram'[b] = ByteAt(x, b - t)
    BY <2>3, <2>4
  <2>6. WordAt(ram', t) = x
    BY <2>3, <2>4, <2>5, WordPushed
  <2>7. f.depth \in 4..Depth'
    BY SMT, <2>1, <2>3
  <2> QED BY <2>1, <2>3, <2>6, <2>7 DEF t
<1> QED BY <1>2, <1>3 DEF Frames

-----------------------------------------------------------------------------
(* The stack as a sequence. *)

StackOf(r, d) == [j \in 1..d |-> r[SS_TOP - j]]

LEMMA StackOfIsSeq ==
  ASSUME NEW r \in [Address -> Byte], NEW d \in 0..SS_TOP
  PROVE  /\ StackOf(r, d) \in Seq(Byte) /\ Len(StackOf(r, d)) = d
         /\ \A j \in 1..d : StackOf(r, d)[j] = r[SS_TOP - j]
<1>1. SS_TOP \in Nat /\ SS_TOP = RAM_SIZE - 1
  BY LayoutAssumption
<1>2. StackOf(r, d) \in [1..d -> Byte]
  <2>1. \A j \in 1..d : SS_TOP - j \in Address
    BY <1>1 DEF Address
  <2> QED BY <2>1 DEF StackOf
<1>3. d \in Nat
  BY <1>1
<1> QED BY <1>2, <1>3 DEF StackOf

LEMMA BytesAreSeq ==
  ASSUME NEW x \in Dword, NEW k \in {1, 4}
  PROVE  LET t == [j \in 1..k |-> ByteAt(x, k - j)]
         IN t \in Seq(Byte) /\ Len(t) = k /\ \A j \in 1..k : t[j] = ByteAt(x, k - j)
<1> DEFINE t == [j \in 1..k |-> ByteAt(x, k - j)]
<1>1. t \in [1..k -> Byte]
  <2>1. \A j \in 1..k : k - j \in 0..3
    BY SMT
  <2>2. x \in Int
    BY WordSizes DEF Dword
  <2>3. \A j \in 1..k : ByteAt(x, k - j) \in Byte
    BY <2>1, <2>2, ByteAtType
  <2> QED BY <2>3
<1>2. k \in Nat
  OBVIOUS
<1> QED BY <1>1, <1>2

LEMMA ConcatIs ==
  ASSUME NEW s \in Seq(Byte), NEW t \in Seq(Byte), NEW u \in Seq(Byte),
         Len(u) = Len(s) + Len(t),
         \A j \in 1..Len(s) : u[j] = s[j],
         \A j \in 1..Len(t) : u[Len(s) + j] = t[j]
  PROVE  u = s \o t
<1>1. /\ s \o t \in Seq(Byte) /\ Len(s \o t) = Len(s) + Len(t)
      /\ \A j \in 1..Len(s) + Len(t) :
           (s \o t)[j] = IF j <= Len(s) THEN s[j] ELSE t[j - Len(s)]
  BY ConcatProperties
<1>2. Len(s) \in Nat /\ Len(t) \in Nat
  BY LenProperties
<1>3. ASSUME NEW j \in 1..Len(u) PROVE u[j] = (s \o t)[j]
  <2>1. (s \o t)[j] = IF j <= Len(s) THEN s[j] ELSE t[j - Len(s)]
    BY <1>1
  <2>2. CASE j <= Len(s)
    BY <1>2, <2>1, <2>2
  <2>3. CASE ~(j <= Len(s))
    <3>1. j - Len(s) \in 1..Len(t) /\ Len(s) + (j - Len(s)) = j
      BY <1>2, <2>3
    <3> QED BY <2>1, <2>3, <3>1
  <2> QED BY <2>2, <2>3
<1> QED BY <1>1, <1>3, SeqEqual

LEMMA StackIs ==
  /\ ~broken => stack = StackOf(ram, Depth)
  /\ ~broken' => stack' = StackOf(ram', Depth')
BY DEF stack, StackOf

(* Every instruction is a step of the ByteStack.                           *)
LEMMA AbstractStep ==
  ASSUME ExecutorTypeOK, ExecutorTypeOK', ~broken, NEW i,
         (\E k, x : StepPushes(i, k, x)) \/ StepPops(i) \/ StepKeeps(i),
         moved' = Moves(i)
  PROVE  Abstract!Next
<1>1. /\ SS_TOP \in Nat /\ SS_TOP = RAM_SIZE - 1 /\ SS_TOP + 9 <= DWORD /\ DWORD \in Nat
      /\ Depth \in 0..SS_TOP /\ Depth' \in Nat
      /\ ram \in [Address -> Byte] /\ ram' \in [Address -> Byte]
  <2>1. SS_TOP \in Nat /\ SS_TOP = RAM_SIZE - 1 /\ SS_TOP + 9 <= DWORD /\ DWORD \in Nat
    BY LayoutAssumption, WordSizes
  <2>2. Depth \in Nat /\ Depth' \in Nat
    BY DepthIsNat
  <2> QED BY <2>1, <2>2 DEF broken, ExecutorTypeOK
<1>2. /\ stack = StackOf(ram, Depth) /\ stack \in Seq(Byte) /\ Len(stack) = Depth
      /\ \A j \in 1..Depth : stack[j] = ram[SS_TOP - j]
  <2>1. stack = StackOf(ram, Depth)
    BY StackIs
  <2>2. /\ StackOf(ram, Depth) \in Seq(Byte) /\ Len(StackOf(ram, Depth)) = Depth
        /\ \A j \in 1..Depth : StackOf(ram, Depth)[j] = ram[SS_TOP - j]
    BY ONLY <1>1, StackOfIsSeq, Zenon
  <2> QED BY ONLY <2>1, <2>2, Zenon
<1>3. ASSUME Depth' <= SS_TOP
      PROVE  /\ ~broken' /\ stack' = StackOf(ram', Depth')
             /\ stack' \in Seq(Byte) /\ Len(stack') = Depth'
             /\ \A j \in 1..Depth' : stack'[j] = ram'[SS_TOP - j]
  <2>1. ~broken' /\ Depth' \in 0..SS_TOP
    BY <1>1, <1>3 DEF broken
  <2>2. stack' = StackOf(ram', Depth')
    BY <2>1, StackIs
  <2>3. /\ StackOf(ram', Depth') \in Seq(Byte) /\ Len(StackOf(ram', Depth')) = Depth'
        /\ \A j \in 1..Depth' : StackOf(ram', Depth')[j] = ram'[SS_TOP - j]
    BY ONLY <1>1, <2>1, StackOfIsSeq, Zenon
  <2> QED BY ONLY <2>1, <2>2, <2>3, Zenon
<1>4. CASE \E k, x : StepPushes(i, k, x)
  <2>1. PICK k, x : StepPushes(i, k, x)
    BY <1>4
  <2>2. /\ k \in {1, 4} /\ x \in Dword /\ Depth' = Depth + k /\ Depth' <= SS_TOP
        /\ \A b \in Address : ram'[b] = IF b \in SS_TOP - Depth'..SS_TOP - Depth' + k - 1
                                        THEN ByteAt(x, b - (SS_TOP - Depth')) ELSE ram[b]
        /\ moved' = [j \in 1..k |-> ByteAt(x, k - j)]
    BY <2>1 DEF StepPushes
  <2>3. moved' \in Seq(Byte) /\ Len(moved') = k /\ \A j \in 1..k : moved'[j] = ByteAt(x, k - j)
    BY <2>2, BytesAreSeq
  <2>4. /\ ~broken' /\ stack' \in Seq(Byte) /\ Len(stack') = Depth'
        /\ \A j \in 1..Depth' : stack'[j] = ram'[SS_TOP - j]
    BY <1>3, <2>2
  <2>5. ASSUME NEW j \in 1..Depth PROVE stack'[j] = stack[j]
    <3>1. /\ SS_TOP - j \in Address /\ j \in 1..Depth'
          /\ SS_TOP - j \notin SS_TOP - Depth'..SS_TOP - Depth' + k - 1
      BY SMT, <1>1, <2>2 DEF Address
    <3>2. ram'[SS_TOP - j] = ram[SS_TOP - j]
      BY <2>2, <3>1
    <3> QED BY <1>2, <2>4, <3>1, <3>2
  <2>6. ASSUME NEW j \in 1..k PROVE stack'[Depth + j] = moved'[j]
    <3>1. /\ SS_TOP - (Depth + j) \in Address /\ Depth + j \in 1..Depth'
          /\ SS_TOP - (Depth + j) \in SS_TOP - Depth'..SS_TOP - Depth' + k - 1
          /\ (SS_TOP - (Depth + j)) - (SS_TOP - Depth') = k - j
      BY SMT, <1>1, <2>2 DEF Address
    <3>2. ram'[SS_TOP - (Depth + j)] = ByteAt(x, (SS_TOP - (Depth + j)) - (SS_TOP - Depth'))
      BY <2>2, <3>1
    <3>3. stack'[Depth + j] = ram'[SS_TOP - (Depth + j)]
      BY <2>4, <3>1
    <3> QED BY ONLY <2>3, <3>1, <3>2, <3>3, Zenon
  <2>7. stack' = stack \o moved'
    <3>1. Len(stack') = Len(stack) + Len(moved')
      BY ONLY <1>2, <2>2, <2>3, <2>4, Zenon
    <3>2. \A j \in 1..Len(stack) : stack'[j] = stack[j]
      BY ONLY <1>2, <2>5, Zenon
    <3>3. \A j \in 1..Len(moved') : stack'[Len(stack) + j] = moved'[j]
      BY ONLY <1>2, <2>3, <2>6, Zenon
    <3> QED BY ONLY <1>2, <2>3, <2>4, <3>1, <3>2, <3>3, ConcatIs, Zenon
  <2>8. Abstract!Push
    BY <1>2, <2>2, <2>3, <2>7 DEF Abstract!Push
  <2> QED BY <2>4, <2>8 DEF Abstract!Next
<1>5. CASE StepPops(i)
  <2> DEFINE s == SS_TOP - Depth
             x == WordAt(ram, s)
  <2>1. /\ Depth >= 3 /\ Depth' = (IF Depth = 3 THEN DWORD - 1 ELSE Depth - 4)
        /\ \A b \in Address : ram'[b] = IF b \in s..s+3 THEN 0 ELSE ram[b]
        /\ moved' = Bytes(x, DwordBits)
    BY <1>5 DEF StepPops
  <2>2. CASE Depth = 3
    <3>1. broken'
      BY <1>1, <2>1, <2>2 DEF broken
    <3> QED BY <1>2, <2>2, <3>1 DEF Abstract!Next, Abstract!Underflow
  <2>3. CASE Depth # 3
    <3>1. Depth >= 4 /\ Depth' = Depth - 4 /\ Depth' <= SS_TOP /\ s \in Nat
      BY SMT, <1>1, <2>1, <2>3
    <3>2. /\ s \in Address /\ s + 1 \in Address /\ s + 2 \in Address /\ s + 3 \in Address
      BY SMT, <1>1, <3>1 DEF Address
    <3>3. /\ x \in Dword /\ ByteAt(x, 0) = ram[s] /\ ByteAt(x, 1) = ram[s+1]
          /\ ByteAt(x, 2) = ram[s+2] /\ ByteAt(x, 3) = ram[s+3]
      <4> HIDE DEF s
      <4>1. ram[s] \in Byte /\ ram[s+1] \in Byte /\ ram[s+2] \in Byte /\ ram[s+3] \in Byte
        BY <1>1, <3>2
      <4> QED BY <4>1, BytesOfFour, FourBytesType DEF WordAt, FourBytes
    <3> HIDE DEF x
    <3>4. moved' = [j \in 1..4 |-> ByteAt(x, 4 - j)]
      <4>1. DwordBits \div ByteBits = 4
        <5>1. 0 \in Int /\ DwordBits \in Width /\ DwordBits # ByteBits
          BY WordSizes DEF DwordBits, Width
        <5> QED BY ONLY <5>1, BytesOfWidth
      <4> QED BY <2>1, <4>1 DEF Bytes
    <3>5. moved' \in Seq(Byte) /\ Len(moved') = 4 /\ \A j \in 1..4 : moved'[j] = ByteAt(x, 4 - j)
      BY <3>3, <3>4, BytesAreSeq
    <3>6. /\ ~broken' /\ stack' \in Seq(Byte) /\ Len(stack') = Depth'
          /\ \A j \in 1..Depth' : stack'[j] = ram'[SS_TOP - j]
      BY <1>3, <3>1
    <3>7. ASSUME NEW j \in 1..Depth' PROVE stack[j] = stack'[j]
      <4>1. SS_TOP - j \in Address /\ j \in 1..Depth /\ SS_TOP - j \notin s..s+3
        BY SMT, <1>1, <3>1 DEF Address
      <4>2. ram'[SS_TOP - j] = ram[SS_TOP - j]
        BY <2>1, <4>1
      <4> QED BY <1>2, <3>6, <4>1, <4>2
    <3>8. ASSUME NEW j \in 1..4 PROVE stack[Depth' + j] = moved'[j]
      <4>1. Depth' + j \in 1..Depth /\ SS_TOP - (Depth' + j) = s + (4 - j)
        BY SMT, <1>1, <3>1
      <4>2. stack[Depth' + j] = ram[s + (4 - j)]
        BY <1>2, <4>1
      <4>3. ram[s + (4 - j)] = ByteAt(x, 4 - j)
        <5>1. 4 - j \in {0, 1, 2, 3} /\ s + 0 = s
          BY SMT, <3>1
        <5> HIDE DEF s
        <5>2. CASE 4 - j = 0
          BY ONLY <3>3, <5>1, <5>2, Zenon
        <5>3. CASE 4 - j = 1
          BY ONLY <3>3, <5>3, Zenon
        <5>4. CASE 4 - j = 2
          BY ONLY <3>3, <5>4, Zenon
        <5>5. CASE 4 - j = 3
          BY ONLY <3>3, <5>5, Zenon
        <5> QED BY <5>1, <5>2, <5>3, <5>4, <5>5
      <4> QED BY <3>5, <4>2, <4>3
    <3>9. stack = stack' \o moved'
      <4>1. Len(stack) = Len(stack') + Len(moved')
        BY <1>1, <1>2, <3>1, <3>5, <3>6
      <4>2. \A j \in 1..Len(stack') : stack[j] = stack'[j]
        BY ONLY <3>6, <3>7, Zenon
      <4>3. \A j \in 1..Len(moved') : stack[Len(stack') + j] = moved'[j]
        BY ONLY <3>5, <3>6, <3>8, Zenon
      <4> QED BY ONLY <1>2, <3>5, <3>6, <4>1, <4>2, <4>3, ConcatIs, Zenon
    <3>10. Abstract!Pop
      BY <3>5, <3>9 DEF Abstract!Pop
    <3> QED BY <3>6, <3>10 DEF Abstract!Next
  <2> QED BY <2>2, <2>3
<1>6. CASE StepKeeps(i)
  <2>1. Depth' = Depth /\ ram' = ram /\ moved' = <<>>
    BY <1>6 DEF StepKeeps
  <2>2. ~broken' /\ stack' = stack
    BY <1>1, <1>2, <1>3, <2>1
  <2> QED BY <2>1, <2>2 DEF Abstract!Next, Abstract!Refuse
<1> QED BY <1>4, <1>5, <1>6

-----------------------------------------------------------------------------
(* The theorems. *)

LEMMA StackTypeCorrect == StackSpec => []ExecutorTypeOK
<1>1. StackInit => ExecutorTypeOK
  BY InitType DEF StackInit
<1>2. ExecutorTypeOK /\ [StackNext]_stackvars => ExecutorTypeOK'
  <2> SUFFICES ASSUME ExecutorTypeOK, [StackNext]_stackvars PROVE ExecutorTypeOK'
    OBVIOUS
  <2>1. CASE StackNext
    <3>1. PICK i \in Instr : Execute(i)
      BY <2>1 DEF StackNext
    <3>2. i \in Instruction
      BY <3>1, InstrAssumption
    <3> QED BY <3>1, <3>2, ExecuteType
  <2>2. CASE UNCHANGED stackvars
    BY <2>2 DEF stackvars, vars, ExecutorTypeOK
  <2> QED BY <2>1, <2>2
<1> QED BY <1>1, <1>2, PTL DEF StackSpec

(* The programs of the runs are such programs.                             *)
LEMMA RunsAreLifo == Instr \subseteq StackInstr => Instr \subseteq LifoInstr
<1> SUFFICES ASSUME NEW i \in Instruction, i \in StackInstr PROVE i \in LifoInstr
  BY InstrAssumption
<1>1. EAX # EIP /\ ESP # EIP /\ EAX # ESP
  BY DEF EAX, ESP, EIP
<1>2. CASE \E r \in {EAX, ESP} : i = [One("PUSH_R") EXCEPT !.reg = r]
  <2>1. PICK r \in {EAX, ESP} : i = [One("PUSH_R") EXCEPT !.reg = r]
    BY <1>2
  <2>2. i.handler = "PUSH_R" /\ i.reg = r
    BY ONLY <2>1 DEF One, Blank
  <2> QED BY ONLY <1>1, <2>2, i \in Instruction DEF LifoInstr, PushPopInstr
<1>3. CASE i = [One("POP_R") EXCEPT !.reg = EAX]
  <2>1. i.handler = "POP_R" /\ i.reg = EAX
    BY ONLY <1>3 DEF One, Blank
  <2> QED BY ONLY <1>1, <2>1, i \in Instruction DEF LifoInstr, PushPopInstr
<1>4. CASE i.handler \in {"PUSH_IMM", "RET", "CALL_REL"}
  BY <1>4 DEF LifoInstr, PushPopInstr
<1>5. CASE i = [One("PUSH_IMM") EXCEPT !.imm = 27, !.imm_length = 4]
  <2>1. i.handler = "PUSH_IMM"
    BY ONLY <1>5 DEF One, Blank
  <2> QED BY ONLY <1>4, <2>1
<1>6. CASE i = [One("PUSH_IMM") EXCEPT !.imm = 2, !.imm_length = 1, !.width = ByteBits]
  <2>1. i.handler = "PUSH_IMM"
    BY ONLY <1>6 DEF One, Blank
  <2> QED BY ONLY <1>4, <2>1
<1>7. CASE i = One("RET")
  <2>1. i.handler = "RET"
    BY ONLY <1>7 DEF One, Blank
  <2> QED BY ONLY <1>4, <2>1
<1>8. CASE \E x, n : i = [One("CALL_REL") EXCEPT !.imm = x, !.imm_length = n]
  <2>1. PICK x, n : i = [One("CALL_REL") EXCEPT !.imm = x, !.imm_length = n]
    BY <1>8, Zenon
  <2>2. i.handler = "CALL_REL"
    BY ONLY <2>1 DEF One, Blank
  <2> QED BY ONLY <1>4, <2>2
<1> QED BY ONLY <1>2, <1>3, <1>5, <1>6, <1>7, <1>8, i \in StackInstr, Zenon DEF StackInstr

(* What an instruction of the program does, for each of the three theorems *)
(* below.                                                                  *)
LEMMA ProgramStep ==
  ASSUME Instr \subseteq LifoInstr, ExecutorTypeOK, StackNext
  PROVE  /\ ~broken /\ ExecutorTypeOK' /\ Depth \in Nat /\ Depth' \in Nat
         /\ \E i \in LifoInstr :
              /\ (\E k, x : StepPushes(i, k, x)) \/ StepPops(i) \/ StepKeeps(i)
              /\ Execute(i) /\ moved' = Moves(i) /\ frames' = Frames(i)
<1>1. PICK i \in Instr : ~broken /\ Execute(i) /\ moved' = Moves(i) /\ frames' = Frames(i)
  BY DEF StackNext
<1>2. i \in LifoInstr /\ i \in Instruction
  BY <1>1 DEF LifoInstr, PushPopInstr, QuietInstr
<1>3. ExecutorTypeOK'
  BY <1>1, <1>2, ExecuteType
<1>4. Depth \in Nat /\ Depth' \in Nat
  BY <1>3, DepthIsNat
<1>5. (\E k, x : StepPushes(i, k, x)) \/ StepPops(i) \/ StepKeeps(i)
  BY <1>1, <1>2, StackStep
<1> QED BY <1>1, <1>2, <1>3, <1>4, <1>5

(* A pop wipes what it takes, and a push reaches only the bytes it counts: *)
(* whatever is pushed, popped, called and returned from, the RAM below the *)
(* top stays clear.                                                        *)
THEOREM BelowTopIsClear ==
  ASSUME Instr \subseteq LifoInstr
  PROVE  StackSpec => []PoppedSlotsCleared
<1>1. StackInit => PoppedSlotsCleared
  <2>1. \A a \in 0..SS_TOP-1 : a \in Address
    BY LayoutAssumption DEF Address
  <2> QED BY <2>1 DEF StackInit, Init, PoppedSlotsCleared
<1>2. ExecutorTypeOK /\ PoppedSlotsCleared /\ [StackNext]_stackvars => PoppedSlotsCleared'
  <2> SUFFICES ASSUME ExecutorTypeOK, PoppedSlotsCleared, [StackNext]_stackvars
               PROVE  PoppedSlotsCleared'
    OBVIOUS
  <2>1. CASE StackNext
    BY <2>1, ProgramStep, ClearStep
  <2>2. CASE UNCHANGED stackvars
    BY <2>2 DEF stackvars, vars, PoppedSlotsCleared, broken, Depth
  <2> QED BY <2>1, <2>2
<1> QED BY <1>1, <1>2, StackTypeCorrect, PTL DEF StackSpec

(* The return address of every open call lies where its frame says.        *)
THEOREM ReturnAddressesLie ==
  ASSUME Instr \subseteq LifoInstr
  PROVE  StackSpec => []FramesLie
<1>1. StackInit => FramesLie
  BY DEF StackInit, FramesLie
<1>2. ExecutorTypeOK /\ FramesLie /\ [StackNext]_stackvars => FramesLie'
  <2> SUFFICES ASSUME ExecutorTypeOK, FramesLie, [StackNext]_stackvars
               PROVE  FramesLie'
    OBVIOUS
  <2>1. CASE StackNext
    BY <2>1, ProgramStep, FramesStep
  <2>2. CASE UNCHANGED stackvars
    BY <2>2 DEF stackvars, vars, FramesLie, broken, Depth
  <2> QED BY <2>1, <2>2
<1> QED BY <1>1, <1>2, StackTypeCorrect, PTL DEF StackSpec

(* A RET at the depth of an open call goes to the instruction behind the   *)
(* call, whatever has been pushed and popped, called and returned from in  *)
(* between.                                                                *)
THEOREM ReturnsGoBehindCalls ==
  ASSUME Instr \subseteq LifoInstr
  PROVE  StackSpec => ReturnAddressRight
<1>1. ASSUME ExecutorTypeOK, FramesLie, StackNext, NEW f \in frames, f.depth = Depth,
             Ret(One("RET"))
      PROVE  gpr'[EIP] = f.to
  <2> DEFINE i == One("RET")
             m == Fetched(i)
  <2>1. PICK junk \in JunkDword : Runs(i, "RET", pop_gpr(m, EIP, junk))
    BY <1>1 DEF Ret
  <2>2. ~broken /\ f.to = WordAt(ram, SS_TOP - Depth) /\ Depth >= 4
    BY <1>1, ProgramStep DEF FramesLie
  <2>3. EIP \in Gpr /\ EIP # ESP /\ Running
    BY <2>1 DEF EIP, ESP, Gpr, Runs
  <2>4. i \in Instruction
    <3>1. DwordBits \in Width /\ 0 \in Dword
      BY ByteIsDword DEF Width
    <3>2. /\ "RET" \in Handler /\ "UNIMPLEMENTED" \in Handler
          /\ "ADD" \in Opclass /\ "JO" \in Condition
      BY DEF Handler, Opclass, Carries, Condition
    <3>3. 0 \in Gpr /\ 0 \in 0..3 /\ 3 \in 0..3 /\ 0 \in Nat /\ 1 \in Nat
      BY DEF Gpr
    <3>4. Blank \in Instruction
      BY ONLY <3>1, <3>2, <3>3 DEF Blank, Instruction
    <3> QED BY ONLY <3>2, <3>4 DEF One, Instruction, i
  <2>5. /\ m \in Machines /\ Ok(m) /\ m.ram = ram
        /\ DepthOf(m) = Depth /\ Depth \in 0..DWORD-1 /\ Depth <= SS_TOP
    BY <1>1, <2>2, <2>3, <2>4, FetchedStack
  <2> HIDE DEF m, i
  <2>6. Popped(m, pop_gpr(m, EIP, junk), EIP)
    <3>1. ~ (DepthOf(m) < 3) /\ DepthOf(m) <= SS_TOP
      BY <2>2, <2>5
    <3> QED BY <2>3, <2>5, <3>1, PopEffect
  <2> QED BY <2>1, <2>2, <2>5, <2>6 DEF Popped, Runs
<1>2. ExecutorTypeOK /\ FramesLie /\ [StackNext]_stackvars =>
        [\A f \in frames : f.depth = Depth /\ Ret(One("RET")) => gpr'[EIP] = f.to]_stackvars
  BY <1>1
<1> QED BY <1>2, StackTypeCorrect, ReturnAddressesLie, PTL DEF StackSpec, ReturnAddressRight

(* Pushes of both widths, pops, returns and relative calls work on a       *)
(* last-in first-out sequence of bytes: the initial states are its initial *)
(* state, and every instruction is one of its steps.                       *)
THEOREM StackIsByteStack ==
  ASSUME Instr \subseteq LifoInstr
  PROVE  StackSpec => ImplementsByteStack
<1>1. StackInit => Abstract!Init
  <2> SUFFICES ASSUME StackInit PROVE Abstract!Init
    OBVIOUS
  <2>1. ExecutorTypeOK /\ gpr[ESP] = 0
    BY InitType DEF StackInit, Init, ESP, Gpr
  <2>2. Machine \in Machines /\ Machine.gpr = gpr
    BY <2>1, MachineType DEF Machine
  <2>3. Depth = 0
    BY <2>1, <2>2, DepthType DEF Depth, DepthOf
  <2>4. ~broken /\ SS_TOP \in Nat
    BY <2>3, LayoutAssumption DEF broken
  <2>5. stack = <<>>
    BY <2>3, <2>4 DEF stack
  <2> QED BY <2>4, <2>5 DEF Abstract!Init, StackInit, broken
<1>2. ExecutorTypeOK /\ [StackNext]_stackvars => [Abstract!Next]_(Abstract!vars)
  <2> SUFFICES ASSUME ExecutorTypeOK, [StackNext]_stackvars
               PROVE  [Abstract!Next]_(Abstract!vars)
    OBVIOUS
  <2>1. CASE StackNext
    BY <2>1, ProgramStep, AbstractStep
  <2>2. CASE UNCHANGED stackvars
    BY <2>2 DEF stackvars, vars, Abstract!vars, stack, broken, Depth
  <2> QED BY <2>1, <2>2
<1> QED BY <1>1, <1>2, StackTypeCorrect, PTL DEF StackSpec, ImplementsByteStack, Abstract!Spec

=============================================================================
