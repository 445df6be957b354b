----------------------------- MODULE ExecutorProofs -----------------------------
(***************************************************************************)
(* Registers hold dwords, memory bytes and the status register flags, for  *)
(* every size of nibble, byte and RAM, every layout of the segments and    *)
(* every set of instructions.                                              *)
(*                                                                         *)
(* The first part is the arithmetic that words need and the provers do not *)
(* know: powers of two, which are the numbers of subsets, quotients and    *)
(* remainders by a power of two, and that every set of bits is the set of  *)
(* ones of a dword.  The second shows that every operator a handler is     *)
(* made of maps machines to machines.                                      *)
(***************************************************************************)
EXTENDS Executor, FiniteSetTheorems, WellFoundedInduction, TLAPS

(* A set with 0 that has the successors of its members has every number.   *)
LEMMA NatInSet ==
  ASSUME NEW S, 0 \in S, \A n \in Nat : n \in S => n + 1 \in S
  PROVE  \A n \in Nat : n \in S
<1> DEFINE R == {ss \in Nat \X Nat : ss[1] < ss[2]}
           T == Nat \ S
<1>1. OpToRel(<, Nat) = R
  BY Zenon DEF OpToRel
<1>2. \A n, m \in Nat : <<n, m>> \in R <=> n < m
  BY SMT
<1> HIDE DEF R
<1>3. IsWellFoundedOn(R, Nat)
  BY Zenon, <1>1, NatLessThanWellFounded
<1>4. ASSUME T # {} PROVE FALSE
  <2>1. T \subseteq Nat
    OBVIOUS
  <2> HIDE DEF T
  <2>2. PICK m \in T : \A n \in T : ~ (<<n, m>> \in R)
    BY Zenon, <1>3, <1>4, <2>1, WFMin
  <2>3. m \in Nat /\ m # 0 /\ m \notin S
    BY <2>2 DEF T
  <2>4. m - 1 \in Nat /\ m - 1 < m /\ m - 1 + 1 = m
    BY SMT, <2>3
  <2>5. m - 1 \in T
    BY <2>3, <2>4 DEF T
  <2> QED BY <1>2, <2>2, <2>3, <2>4, <2>5
<1> QED BY <1>4

-----------------------------------------------------------------------------
(* Powers of two. *)

LEMMA PowerIsNumberOfSubsets ==
  ASSUME NEW n \in Nat
  PROVE  IsFiniteSet(SUBSET (1..n)) /\ Cardinality(SUBSET (1..n)) = 2^n
<1>1. IsFiniteSet(1..n) /\ Cardinality(1..n) = n
  BY FS_Interval
<1> QED BY <1>1, FS_SUBSET

LEMMA PowerPositive ==
  ASSUME NEW n \in Nat
  PROVE  2^n \in Nat /\ 2^n > 0
<1>1. IsFiniteSet(SUBSET (1..n)) /\ Cardinality(SUBSET (1..n)) = 2^n
  BY PowerIsNumberOfSubsets
<1>2. 2^n \in Nat
  BY <1>1, FS_CardinalityType
<1>3. SUBSET (1..n) # {}
  OBVIOUS
<1>4. 2^n # 0
  BY ONLY <1>1, <1>3, FS_EmptySet
<1> QED BY <1>2, <1>4

LEMMA PowerDoubles ==
  ASSUME NEW n \in Nat
  PROVE  2^(n+1) = 2 * 2^n
<1> DEFINE A == SUBSET (1..n)
           B == {T \cup {n+1} : T \in A}
           f == [T \in A |-> T \cup {n+1}]
<1>1. /\ IsFiniteSet(A) /\ Cardinality(A) = 2^n /\ 2^n \in Nat
      /\ IsFiniteSet(SUBSET (1..n+1)) /\ Cardinality(SUBSET (1..n+1)) = 2^(n+1)
  BY PowerIsNumberOfSubsets, PowerPositive
<1>2. \A k \in 1..n : k # n + 1
  OBVIOUS
<1>3. f \in Bijection(A, B)
  <2>1. f \in [A -> B]
    OBVIOUS
  <2>2. \A S, T \in A : f[S] = f[T] => S = T
    <3> SUFFICES ASSUME NEW S \in A, NEW T \in A, S \cup {n+1} = T \cup {n+1}
                 PROVE  S = T
      OBVIOUS
    <3>1. n + 1 \notin S /\ n + 1 \notin T
      BY <1>2
    <3>2. \A k : k \in S \cup {n+1} <=> k \in T \cup {n+1}
      OBVIOUS
    <3>3. \A k : k \in S <=> k \in T
      BY ONLY <3>1, <3>2
    <3> QED BY ONLY <3>3
  <2>3. \A U \in B : \E T \in A : f[T] = U
    OBVIOUS
  <2> HIDE DEF f, A, B
  <2>4. f \in Injection(A, B) /\ f \in Surjection(A, B)
    BY <2>1, <2>2, <2>3 DEF Injection, IsInjective, Surjection
  <2> QED BY <2>4 DEF Bijection
<1>4. IsFiniteSet(B) /\ Cardinality(B) = 2^n
  <2> HIDE DEF A, B, f
  <2> QED BY <1>1, <1>3, FS_Bijection DEF ExistsBijection
<1>5. SUBSET (1..n+1) = A \cup B
  <2>1. ASSUME NEW U \in SUBSET (1..n+1) PROVE U \in A \cup B
    <3>1. \A k \in 1..n+1 : k \in 1..n \/ k = n + 1
      OBVIOUS
    <3>2. U \ {n+1} \in A
      BY <2>1, <3>1
    <3>3. CASE n + 1 \in U
      <4>1. U = (U \ {n+1}) \cup {n+1}
        BY <3>3
      <4> QED BY <3>2, <4>1
    <3>4. CASE n + 1 \notin U
      BY <3>2, <3>4
    <3> QED BY <3>3, <3>4
  <2>2. \A k \in 1..n : k \in 1..n+1
    OBVIOUS
  <2>3. n + 1 \in 1..n+1
    OBVIOUS
  <2>4. ASSUME NEW U \in A \cup B PROVE U \in SUBSET (1..n+1)
    BY <2>2, <2>3
  <2> QED BY <2>1, <2>4
<1>6. A \cap B = {}
  <2>1. n + 1 \notin 1..n
    OBVIOUS
  <2> QED BY <2>1
<1>7. Cardinality(A \cup B) = Cardinality(A) + Cardinality(B) - Cardinality(A \cap B)
  <2> HIDE DEF A, B
  <2> QED BY <1>1, <1>4, FS_Union
<1>8. Cardinality(A \cap B) = 0
  <2> HIDE DEF A, B
  <2>1. Cardinality({}) = 0
    BY FS_EmptySet
  <2> QED BY ONLY <1>6, <2>1
<1> HIDE DEF A, B
<1>9. 2^(n+1) = 2^n + 2^n - 0
  BY ONLY <1>1, <1>4, <1>5, <1>7, <1>8, Zenon
<1>10. \A x \in Nat : x + x - 0 = 2 * x
  BY SMT
<1> QED BY ONLY <1>1, <1>9, <1>10, Zenon

LEMMA PowerOfSum ==
  ASSUME NEW m \in Nat, NEW n \in Nat
  PROVE  2^(m + n) = 2^m * 2^n
<1> DEFINE S == {k \in Nat : 2^(m + k) = 2^m * 2^k}
<1>1. 0 \in S
  <2>1. 2^0 = 1 /\ m + 0 = m /\ 2^m \in Nat
    BY PowerPositive
  <2> QED BY <2>1
<1>2. ASSUME NEW k \in Nat, k \in S PROVE k + 1 \in S
  <2>1. 2^(m + (k + 1)) = 2 * 2^(m + k)
    <3>1. m + k \in Nat /\ m + (k + 1) = (m + k) + 1
      OBVIOUS
    <3> QED BY <3>1, PowerDoubles
  <2>2. 2^(m + k) = 2^m * 2^k /\ 2^(k + 1) = 2 * 2^k
    BY <1>2, PowerDoubles
  <2>3. \A a, b \in Nat : 2 * (a * b) = a * (2 * b)
    BY SMT
  <2>4. 2^m \in Nat /\ 2^k \in Nat
    BY PowerPositive
  <2> QED BY <2>1, <2>2, <2>3, <2>4
<1> HIDE DEF S
<1>3. n \in S
  BY <1>1, <1>2, NatInSet
<1> QED BY <1>3 DEF S

(* Quotients and remainders. *)

LEMMA QuotientIs ==
  ASSUME NEW p \in Nat, p > 0, NEW y \in Int, NEW q \in Int, NEW r \in 0..p-1,
         y = p * q + r
  PROVE  y \div p = q /\ y % p = r
BY SMTT(60)

LEMMA Division ==
  ASSUME NEW p \in Nat, p > 0, NEW y \in Int
  PROVE  y \div p \in Int /\ y % p \in 0..p-1 /\ y = p * (y \div p) + (y % p)
BY SMT

LEMMA HalfQuotient ==
  ASSUME NEW y \in Nat, NEW p \in Nat, p > 0, NEW b \in {0, 1}
  PROVE  (2 * y + b) \div (2 * p) = y \div p
<1> DEFINE q == y \div p
           r == y % p
<1>1. q \in Int /\ r \in 0..p-1 /\ y = p * q + r
  BY Division
<1> HIDE DEF q, r
<1>2. 2 * y + b = (2 * p) * q + (2 * r + b)
  <2>1. p * q \in Int /\ 2 * (p * q) = (2 * p) * q
    BY SMT, <1>1
  <2> QED BY SMT, <1>1, <2>1
<1>3. 2 * r + b \in 0..(2 * p) - 1 /\ 2 * p \in Nat /\ 2 * p > 0 /\ 2 * y + b \in Int
  BY SMT, <1>1
<1>4. (2 * y + b) \div (2 * p) = q
  BY <1>1, <1>2, <1>3, QuotientIs
<1> QED BY <1>4 DEF q

(* A summand may be cut before the sum is. *)
LEMMA SumCut ==
  ASSUME NEW p \in Nat, p > 0, NEW x \in Int, NEW y \in Int
  PROVE  (x + (y % p)) % p = (x + y) % p
<1> DEFINE q == y \div p
           r == y % p
           q2 == (x + r) \div p
           r2 == (x + r) % p
<1>1. q \in Int /\ r \in 0..p-1 /\ y = p * q + r
  BY Division
<1> HIDE DEF q, r
<1>2. q2 \in Int /\ r2 \in 0..p-1 /\ x + r = p * q2 + r2
  <2>1. x + r \in Int
    BY <1>1
  <2> QED BY <2>1, Division
<1> HIDE DEF q2, r2
<1>3. x + y = p * (q + q2) + r2
  <2>1. p * (q + q2) = p * q + p * q2 /\ p * q \in Int /\ p * q2 \in Int
    BY SMT, <1>1, <1>2
  <2> QED BY SMT, <1>1, <1>2, <2>1
<1>4. (x + y) % p = r2
  <2>1. q + q2 \in Int /\ x + y \in Int
    BY <1>1, <1>2
  <2> QED BY <1>2, <1>3, <2>1, QuotientIs
<1> QED BY <1>4 DEF r2, r

(* A difference that wraps at most once. *)
LEMMA DifferenceCut ==
  ASSUME NEW p \in Nat, NEW x \in 0..p-1, NEW k \in 0..p-1
  PROVE  (x - k) % p = (IF x >= k THEN x - k ELSE x - k + p)
<1>1. CASE x >= k
  <2>1. x - k = p * 0 + (x - k) /\ x - k \in 0..p-1 /\ p > 0 /\ x - k \in Int
    BY <1>1
  <2> QED BY <1>1, <2>1, QuotientIs
<1>2. CASE x < k
  <2>1. /\ x - k = p * (-1) + (x - k + p) /\ x - k + p \in 0..p-1 /\ p > 0
        /\ x - k \in Int /\ -1 \in Int
    BY <1>2
  <2> QED BY <1>2, <2>1, QuotientIs
<1> QED BY <1>1, <1>2

-----------------------------------------------------------------------------
(* The sizes of bytes, words and dwords. *)

LEMMA WordSizes ==
  /\ NIBBLE \in Nat /\ NIBBLE > 0
  /\ BYTE \in Nat /\ BYTE > 0
  /\ WORD \in Nat /\ WORD > 0
  /\ DWORD \in Nat /\ DWORD > 0
  /\ DwordBits \in Nat /\ DwordBits > 0 /\ ByteBits \in Nat /\ ByteBits > 0
<1>1. NIBBLE \in Nat /\ NIBBLE > 0 /\ BYTE \in Nat /\ BYTE > 0
  BY PowerPositive, BitsAssumption DEF NIBBLE, BYTE
<1>2. \A x \in Nat : x > 0 => x * x \in Nat /\ x * x > 0
  BY SMT
<1>3. WORD \in Nat /\ WORD > 0
  BY <1>1, <1>2 DEF WORD
<1>4. DWORD \in Nat /\ DWORD > 0
  BY <1>2, <1>3 DEF DWORD
<1> QED BY <1>1, <1>3, <1>4, BitsAssumption DEF DwordBits

LEMMA DwordIsPower == DWORD = 2^DwordBits
<1> DEFINE b == ByteBits
<1>1. b \in Nat /\ b + b \in Nat /\ DwordBits = (b + b) + (b + b)
  BY BitsAssumption DEF DwordBits
<1>2. WORD = 2^(b + b)
  BY <1>1, PowerOfSum DEF WORD, BYTE
<1>3. 2^((b + b) + (b + b)) = 2^(b + b) * 2^(b + b)
  BY <1>1, PowerOfSum
<1> HIDE DEF b
<1> QED BY ONLY <1>1, <1>2, <1>3 DEF DWORD

-----------------------------------------------------------------------------
(* Every set of bits is the set of ones of one dword at least, so that the *)
(* logic operations have a result.                                         *)

BitsAre(x, n, B) == \A k \in 0..n-1 : Bit(x, k) = 1 <=> k \in B

LEMMA BitsExist ==
  ASSUME NEW n \in Nat, NEW B
  PROVE  \E x \in 0..2^n - 1 : BitsAre(x, n, B)
<1> DEFINE S == {k \in Nat : \A C \in SUBSET Nat : \E x \in 0..2^k - 1 : BitsAre(x, k, C)}
<1>1. 0 \in S
  <2>1. 2^0 = 1
    OBVIOUS
  <2>2. ASSUME NEW C \in SUBSET Nat PROVE \E x \in 0..2^0 - 1 : BitsAre(x, 0, C)
    <3>1. 0 \in 0..2^0 - 1
      BY <2>1
    <3>2. BitsAre(0, 0, C)
      BY DEF BitsAre
    <3> QED BY <3>1, <3>2
  <2> QED BY <2>2
<1>2. ASSUME NEW k \in Nat, k \in S PROVE k + 1 \in S
  <2> SUFFICES ASSUME NEW C \in SUBSET Nat
               PROVE  \E x \in 0..2^(k+1) - 1 : BitsAre(x, k + 1, C)
    OBVIOUS
  <2> DEFINE D == {j \in Nat : j + 1 \in C}
             b == IF 0 \in C THEN 1 ELSE 0
  <2>1. PICK y \in 0..2^k - 1 : BitsAre(y, k, D)
    BY <1>2
  <2>2. b \in {0, 1} /\ (b = 1 <=> 0 \in C)
    OBVIOUS
  <2>3. \A j \in Nat : j \in D <=> j + 1 \in C
    OBVIOUS
  <2> HIDE DEF b, D, S
  <2>4. 2^k \in Nat /\ 2^k > 0 /\ 2^(k+1) = 2 * 2^k
    BY PowerPositive, PowerDoubles
  <2>5. y \in Nat /\ 2 * y + b \in 0..2^(k+1) - 1
    BY SMT, <2>2, <2>4
  <2>6. BitsAre(2 * y + b, k + 1, C)
    <3> SUFFICES ASSUME NEW j \in 0..(k+1)-1
                 PROVE  Bit(2 * y + b, j) = 1 <=> j \in C
      BY DEF BitsAre
    <3>1. CASE j = 0
      <4>1. 2^0 = 1 /\ (2 * y + b) \div 1 = 2 * y + b /\ (2 * y + b) % 2 = b
        BY SMT, <2>2, <2>5
      <4> QED BY <2>2, <3>1, <4>1 DEF Bit
    <3>2. CASE j # 0
      <4>1. j - 1 \in Nat /\ j - 1 \in 0..k-1 /\ (j - 1) + 1 = j
        BY <3>2
      <4>2. 2^j = 2 * 2^(j-1) /\ 2^(j-1) \in Nat /\ 2^(j-1) > 0
        <5>1. /\ 2^((j-1)+1) = 2 * 2^(j-1)
              /\ 2^(j-1) \in Nat /\ 2^(j-1) > 0
          BY <4>1, PowerDoubles, PowerPositive
        <5> QED BY ONLY <4>1, <5>1, Zenon
      <4>3. (2 * y + b) \div 2^j = y \div 2^(j-1)
        <5>1. \A p \in Nat : p > 0 => (2 * y + b) \div (2 * p) = y \div p
          BY <2>2, <2>5, HalfQuotient
        <5> QED BY ONLY <4>2, <5>1, Zenon
      <4>4. Bit(y, j - 1) = 1 <=> j - 1 \in D
        BY <2>1, <4>1 DEF BitsAre
      <4>5. j \in C <=> j - 1 \in D
        BY ONLY <2>3, <4>1, Zenon
      <4>6. Bit(2 * y + b, j) = Bit(y, j - 1)
        BY ONLY <4>3, Zenon DEF Bit
      <4> QED BY ONLY <4>4, <4>5, <4>6, Zenon
    <3> QED BY <3>1, <3>2
  <2> QED BY <2>5, <2>6
<1> HIDE DEF S
<1>3. n \in S
  BY <1>1, <1>2, NatInSet
<1>4. PICK x \in 0..2^n - 1 : BitsAre(x, n, B \cap Nat)
  BY <1>3 DEF S
<1>5. BitsAre(x, n, B)
  BY <1>4 DEF BitsAre
<1> QED BY <1>5

LEMMA OnesExist ==
  ASSUME NEW B, B \subseteq 0..DwordBits-1
  PROVE  OfOnes(B) \in Dword /\ Ones(OfOnes(B)) = B
<1>1. PICK x \in 0..2^DwordBits - 1 : BitsAre(x, DwordBits, B)
  BY BitsExist, WordSizes
<1>2. x \in Dword
  BY DwordIsPower DEF Dword
<1>3. Ones(x) = B
  BY <1>1 DEF Ones, BitsAre
<1> QED BY <1>2, <1>3 DEF OfOnes

-----------------------------------------------------------------------------
(* Words put together from parts. *)

(* A word of p * q values with its part below p replaced.                  *)
LEMMA PartReplaced ==
  ASSUME NEW p \in Nat, p > 0, NEW q \in Nat, NEW v \in 0..p*q-1, NEW r \in 0..p-1
  PROVE  (v - (v % p)) + r \in 0..p*q-1
<1> DEFINE k == v \div p
           s == v % p
<1>1. k \in Int /\ s \in 0..p-1 /\ v = p * k + s
  BY Division
<1> HIDE DEF k, s
<1>2. p * k \in Int /\ p * q \in Int
  BY SMT, <1>1
<1>3. k < q
  <2>1. ASSUME k >= q PROVE FALSE
    <3>1. p * k >= p * q
      BY SMT, <1>1, <2>1
    <3> QED BY SMT, <1>1, <1>2, <3>1
  <2> QED BY SMT, <1>1, <2>1
<1>4. k >= 0
  <2>1. ASSUME k < 0 PROVE FALSE
    <3>1. p * k <= p * (0 - 1)
      BY SMT, <1>1, <2>1
    <3>2. p * (0 - 1) = 0 - p
      BY SMT
    <3> QED BY SMT, <1>1, <1>2, <3>1, <3>2
  <2> QED BY SMT, <1>1, <2>1
<1>5. p * k <= p * (q - 1) /\ p * k >= 0
  BY SMT, <1>1, <1>3, <1>4
<1>6. p * (q - 1) = p * q - p
  BY SMT
<1>7. v - s = p * k
  BY SMT, <1>1, <1>2
<1>8. (v - s) + r \in 0..p*q-1
  BY SMT, <1>1, <1>2, <1>5, <1>6, <1>7
<1> QED BY <1>8 DEF s

(* A part below p and a part above it.                                     *)
LEMMA PartsJoined ==
  ASSUME NEW p \in Nat, p > 0, NEW q \in Nat, NEW r \in 0..p-1, NEW k \in 0..q-1
  PROVE  r + p * k \in 0..p*q-1
<1>1. p * k \in Int /\ p * q \in Int /\ p * k >= 0
  BY SMT
<1>2. p * k <= p * (q - 1) /\ p * (q - 1) = p * q - p
  BY SMT
<1> QED BY SMT, <1>1, <1>2

-----------------------------------------------------------------------------
(* Machines, and the operators that make them. *)

ReturnCode ==
  {"EXECUTE_SUCCESS", "BUS_READ_FAILURE", "BUS_WRITE_FAILURE",
   "FAILED_SEGBOUND_CHECK", "UNIMPLEMENTED_INSTRUCTION"}

Machines ==
  [gpr : [Gpr -> Dword], ram : [Address -> Byte], status : SUBSET Flag,
   halt : BOOLEAN, rc : ReturnCode]

LEMMA ByteIsDword == Byte \subseteq Dword /\ 0 \in Dword /\ 1 \in Dword
<1>1. BYTE \in Nat /\ BYTE > 0 /\ WORD \in Nat /\ WORD > 0
  BY WordSizes
<1>2. \A x \in Nat : x > 0 => x <= x * x
  BY SMT
<1>3. BYTE <= WORD /\ WORD <= DWORD
  BY <1>1, <1>2 DEF WORD, DWORD
<1>4. DWORD > 1
  <2>1. DwordBits - 1 \in Nat /\ DwordBits = (DwordBits - 1) + 1
    BY WordSizes
  <2>2. DWORD = 2 * 2^(DwordBits - 1)
    BY <2>1, DwordIsPower, PowerDoubles
  <2> QED BY <2>1, <2>2, PowerPositive
<1> QED BY <1>1, <1>3, <1>4, WordSizes DEF Byte, Dword

LEMMA CutToDword == \A x \in Int : x % DWORD \in Dword
BY WordSizes DEF Dword

LEMMA CutToByte == \A x \in Int : x % BYTE \in Byte
BY WordSizes DEF Byte

LEMMA PlaceSizes == \A k \in 0..3 : Place[k] \in Nat /\ Place[k] > 0
<1>1. WORD * BYTE \in Nat /\ WORD * BYTE > 0
  BY WordSizes
<1> QED BY <1>1, WordSizes DEF Place

LEMMA ByteAtType ==
  ASSUME NEW x \in Int, NEW k \in 0..3
  PROVE  ByteAt(x, k) \in Byte
BY PlaceSizes, CutToByte, Division DEF ByteAt

LEMMA DwordInBytes == BYTE * WORD \in Nat /\ BYTE * (BYTE * WORD) = DWORD
<1>1. \A y \in Nat : y * (y * (y * y)) = (y * y) * (y * y) /\ y * (y * y) \in Nat
  BY SMT
<1> QED BY ONLY <1>1, WordSizes, Zenon DEF DWORD, WORD

(* A register keeps its upper part when a byte or a word is put into it.   *)
LEMMA LowPartType ==
  ASSUME NEW v \in Dword, NEW x \in Int
  PROVE  /\ (v - (v % BYTE)) + (x % BYTE) \in Dword
         /\ (v - (v % WORD)) + (x % WORD) \in Dword
<1>1. /\ BYTE \in Nat /\ BYTE > 0 /\ WORD \in Nat /\ WORD > 0
      /\ BYTE * WORD \in Nat /\ BYTE * (BYTE * WORD) = DWORD
  BY WordSizes, DwordInBytes
<1>2. x % BYTE \in 0..BYTE-1 /\ x % WORD \in 0..WORD-1
  BY <1>1
<1>3. v \in 0..BYTE*(BYTE*WORD)-1 /\ v \in 0..WORD*WORD-1
  BY <1>1 DEF Dword, DWORD
<1>4. (v - (v % BYTE)) + (x % BYTE) \in 0..BYTE*(BYTE*WORD)-1
  BY <1>1, <1>2, <1>3, PartReplaced
<1>5. (v - (v % WORD)) + (x % WORD) \in 0..WORD*WORD-1
  BY <1>1, <1>2, <1>3, PartReplaced
<1> QED BY <1>1, <1>4, <1>5 DEF Dword, DWORD

(* A dword is read from four bytes.                                        *)
LEMMA FourBytesType ==
  ASSUME NEW b0 \in Byte, NEW b1 \in Byte, NEW b2 \in Byte, NEW b3 \in Byte
  PROVE  b0 + BYTE * (b1 + BYTE * (b2 + BYTE * b3)) \in Dword
<1>1. BYTE \in Nat /\ BYTE > 0 /\ WORD \in Nat /\ BYTE * WORD \in Nat
      /\ BYTE * BYTE = WORD /\ BYTE * (BYTE * WORD) = DWORD
  BY WordSizes, DwordInBytes DEF WORD
<1>2. b2 + BYTE * b3 \in 0..WORD-1
  BY <1>1, PartsJoined DEF Byte
<1>3. b1 + BYTE * (b2 + BYTE * b3) \in 0..BYTE*WORD-1
  BY <1>1, <1>2, PartsJoined DEF Byte
<1>4. b0 + BYTE * (b1 + BYTE * (b2 + BYTE * b3)) \in 0..BYTE*(BYTE*WORD)-1
  BY <1>1, <1>3, PartsJoined DEF Byte
<1> QED BY <1>1, <1>4 DEF Dword

LEMMA TotalType ==
  ASSUME NEW opclass \in Opclass, NEW a \in Int, NEW b \in Int, NEW cin \in {0, 1}
  PROVE  Total(opclass, a, b, cin) \in Int
<1>1. ASSUME NEW B, B \subseteq 0..DwordBits-1 PROVE OfOnes(B) \in Int
  <2>1. OfOnes(B) \in Dword
    BY ONLY <1>1, OnesExist, Zenon
  <2> QED BY ONLY <2>1, WordSizes DEF Dword
<1>2. Ones(a) \subseteq 0..DwordBits-1 /\ Ones(b) \subseteq 0..DwordBits-1
  BY DEF Ones
<1>3. CASE opclass \in Logic
  <2>1. /\ OfOnes(Ones(a) \cap Ones(b)) \in Int
        /\ OfOnes(Ones(a) \cup Ones(b)) \in Int
        /\ OfOnes((Ones(a) \ Ones(b)) \cup (Ones(b) \ Ones(a))) \in Int
    BY <1>1, <1>2
  <2> QED BY <1>3, <2>1 DEF Total, Logic
<1>4. CASE opclass \in Carries \cup Borrows
  BY <1>4 DEF Total, Carries, Borrows
<1> QED BY <1>3, <1>4 DEF Opclass

(* The result of ALU is a dword, and its flags are flags.                  *)
LEMMA AluType ==
  ASSUME NEW opclass \in Opclass, NEW a \in Dword, NEW b \in Dword, NEW cin \in {0, 1},
         NEW width \in Width
  PROVE  /\ ALU(a, b, cin, width, opclass).low \in Dword
         /\ ALU(a, b, cin, width, opclass).flags \subseteq Flag
<1>1. op_mask(a, width) \in Int /\ op_mask(b, width) \in Int
  BY WordSizes DEF op_mask, Dword
<1>2. Low(opclass, op_mask(a, width), op_mask(b, width), cin) \in Dword
  BY <1>1, TotalType, CutToDword DEF Low
<1>3. PotentialFlags(opclass, op_mask(a, width), op_mask(b, width), cin, width) \subseteq Flag
  BY DEF PotentialFlags
<1> QED BY <1>2, <1>3 DEF ALU

(* What an operator needs to know of the instruction.                      *)
LEMMA InstructionParts ==
  ASSUME NEW i \in Instruction
  PROVE  /\ i.opclass \in Opclass /\ i.width \in Width /\ i.reg \in Gpr /\ i.rm \in Gpr
         /\ i.index \in Gpr /\ i.base \in Gpr /\ i.scale \in Nat /\ i.total_length \in Nat
         /\ i.disp \in Int /\ i.imm \in Dword
BY WordSizes DEF Instruction, Dword

LEMMA GprReadType ==
  ASSUME NEW m \in Machines, NEW id \in Gpr, NEW width
  PROVE  m.gpr[id] \in Dword /\ gpr_w_handler(m, id, width) \in Dword
<1>1. m.gpr[id] \in Dword /\ id % 4 \in Gpr
  BY DEF Machines, Gpr
<1>2. m.gpr[id % 4] \in Int
  BY <1>1, WordSizes DEF Machines, Dword
<1>3. gpr8(m, id) \in Dword
  <2>1. \A k \in 0..3 : ByteAt(m.gpr[id % 4], k) \in Byte
    BY <1>2, ByteAtType
  <2> QED BY <2>1, ByteIsDword DEF gpr8
<1> QED BY <1>1, <1>3 DEF gpr_w_handler

LEMMA GprWriteType ==
  ASSUME NEW m \in Machines, NEW id \in Gpr, NEW width, NEW x \in Dword
  PROVE  set_gpr_w_handler(m, id, width, x) \in Machines
<1> DEFINE y == IF width = ByteBits THEN (m.gpr[id] - (m.gpr[id] % BYTE)) + (x % BYTE) ELSE x
<1>1. y \in Dword
  <2>1. x \in Int
    BY WordSizes DEF Dword
  <2>2. m.gpr[id] \in Dword
    BY GprReadType
  <2>3. (m.gpr[id] - (m.gpr[id] % BYTE)) + (x % BYTE) \in Dword
    BY ONLY <2>1, <2>2, LowPartType
  <2> QED BY <2>3
<1>2. set_gpr_w_handler(m, id, width, x) = [m EXCEPT !.gpr[id] = y]
  BY DEF set_gpr_w_handler, Machines
<1> HIDE DEF y
<1> QED BY <1>1, <1>2 DEF Machines

LEMMA AddToType ==
  ASSUME NEW m \in Machines, NEW id \in Gpr, NEW x \in Int
  PROVE  AddTo(m, id, x) \in Machines
<1>1. (m.gpr[id] + x) % DWORD \in Dword
  BY GprReadType, CutToDword, WordSizes DEF Dword
<1> QED BY <1>1 DEF AddTo, Machines

LEMMA FailsType ==
  ASSUME NEW m \in Machines, NEW code \in ReturnCode
  PROVE  Fails(m, code) \in Machines
BY DEF Fails, Machines

LEMMA WithFlagsType ==
  ASSUME NEW m \in Machines, NEW opclass, NEW flags \in SUBSET Flag
  PROVE  WithFlags(m, opclass, flags) \in Machines
BY DEF WithFlags, Machines, update_status_register

LEMMA SignExtendType ==
  ASSUME NEW x \in Int, NEW length
  PROVE  SignExtend(x, length) \in Int
BY WordSizes DEF SignExtend

LEMMA EaType ==
  ASSUME NEW m \in Machines, NEW i \in Instruction
  PROVE  calculate_EA(m, i) \in Dword
<1> DEFINE reg   == IF i.sib THEN i.base ELSE i.rm
           index == IF i.sib /\ i.index # 4 THEN m.gpr[i.index] * 2^i.scale ELSE 0
           base  == IF i.mod = 0 /\ reg = 5 THEN 0 ELSE m.gpr[reg]
<1>1. 2^i.scale \in Nat
  BY InstructionParts, PowerPositive
<1>2. \A r \in Gpr : m.gpr[r] \in Nat
  BY GprReadType, WordSizes DEF Dword
<1>3. reg \in Gpr
  BY InstructionParts
<1>4. base \in Int
  BY <1>2, <1>3
<1>5. index \in Int
  <2>1. m.gpr[i.index] * 2^i.scale \in Nat
    BY <1>1, <1>2, InstructionParts
  <2> QED BY <2>1
<1>6. SignExtend(i.disp, i.disp_length) \in Int
  BY InstructionParts, SignExtendType
<1> HIDE DEF base, index
<1>7. (SignExtend(i.disp, i.disp_length) + index + base) % DWORD \in Dword
  BY <1>4, <1>5, <1>6, CutToDword
<1> QED BY <1>7 DEF calculate_EA, base, index

-----------------------------------------------------------------------------
(* The bus. *)

(* Who is on the bus at all: the RAM but its last three bytes, or the      *)
(* console behind it.                                                      *)
LEMMA OnBusCases ==
  ASSUME NEW a \in Nat, OnBus(a)
  PROVE  \/ /\ a \notin Console
            /\ a \in Address /\ a + 1 \in Address /\ a + 2 \in Address /\ a + 3 \in Address
         \/ a \in Console
BY LayoutAssumption DEF OnBus, Console, Address

LEMMA BusReadType ==
  ASSUME NEW m \in Machines, NEW a \in Nat, OnBus(a), NEW width, NEW x \in Dword
  PROVE  bus_read(m, a, width, x) \in Dword
<1>1. CASE a \in Console
  BY <1>1 DEF bus_read
<1>2. CASE a \notin Console
  <2>1. a \in Address /\ a + 1 \in Address /\ a + 2 \in Address /\ a + 3 \in Address
    BY <1>2, OnBusCases
  <2>2. m.ram[a] \in Byte /\ m.ram[a+1] \in Byte /\ m.ram[a+2] \in Byte /\ m.ram[a+3] \in Byte
    BY <2>1 DEF Machines
  <2> QED BY <1>2, <2>2, ByteIsDword, FourBytesType DEF bus_read
<1> QED BY <1>1, <1>2

LEMMA BytesOfWidth ==
  ASSUME NEW a \in Int, NEW width \in Width
  PROVE  /\ width \div ByteBits \in {1, 4}
         /\ width \div ByteBits = (IF width = ByteBits THEN 1 ELSE 4)
         /\ \A b \in a..a + width \div ByteBits - 1 : b - a \in 0..3
<1>1. ByteBits \in Nat /\ ByteBits > 0
  BY WordSizes
<1>2. ByteBits \div ByteBits = 1 /\ (4 * ByteBits) \div ByteBits = 4
  <2>1. ByteBits = ByteBits * 1 + 0 /\ 4 * ByteBits = ByteBits * 4 + 0
    BY <1>1
  <2> QED BY <1>1, <2>1, QuotientIs
<1>3. width \div ByteBits = (IF width = ByteBits THEN 1 ELSE 4)
  BY <1>2 DEF Width, DwordBits
<1>4. \A k \in {1, 4} : \A b \in a..a + k - 1 : b - a \in 0..3
  BY SMT
<1> QED BY <1>3, <1>4

LEMMA BusWriteType ==
  ASSUME NEW m \in Machines, NEW a \in Nat, NEW width \in Width, NEW x \in Int
  PROVE  bus_write(m, a, width, x) \in Machines
<1> DEFINE n == a + width \div ByteBits - 1
           stored == [b \in Address |-> IF b \in a..n THEN ByteAt(x, b - a) ELSE m.ram[b]]
<1>1. \A b \in a..n : ByteAt(x, b - a) \in Byte
  BY BytesOfWidth, ByteAtType
<1>2. \A b \in Address : m.ram[b] \in Byte
  BY DEF Machines
<1> HIDE DEF n
<1>3. stored \in [Address -> Byte]
  BY <1>1, <1>2
<1>4. [m EXCEPT !.ram = stored] \in Machines
  <2> HIDE DEF stored
  <2> QED BY <1>3 DEF Machines
<1>5. Fails(m, "BUS_WRITE_FAILURE") \in Machines
  BY FailsType DEF ReturnCode
<1> QED BY <1>4, <1>5 DEF bus_write, n

LEMMA OperandType ==
  ASSUME NEW m \in Machines, NEW i \in Instruction, RmFound(m, i)
  PROVE  read_rm_op(m, i) \in Dword
<1>1. calculate_EA(m, i) \in Nat
  BY EaType, WordSizes DEF Dword
<1>2. CASE i.mod = 3
  BY <1>2, InstructionParts, GprReadType DEF read_rm_op
<1>3. CASE i.mod # 3
  BY <1>1, <1>3, ByteIsDword, BusReadType DEF read_rm_op, RmFound
<1> QED BY <1>2, <1>3

LEMMA WriteToType ==
  ASSUME NEW m \in Machines, NEW i \in Instruction, NEW x \in Dword
  PROVE  WriteTo(m, i, x) \in Machines /\ write_rm_dst(m, i, x) \in Machines
<1>1. ASSUME NEW y \in Dword PROVE WriteTo(m, i, y) \in Machines
  <2>1. calculate_EA(m, i) \in Nat /\ y \in Int
    BY EaType, WordSizes DEF Dword
  <2>2. bus_write(m, calculate_EA(m, i), i.width, y) \in Machines
    BY <2>1, InstructionParts, BusWriteType
  <2>3. set_gpr_w_handler(m, i.rm, i.width, y) \in Machines
    BY InstructionParts, GprWriteType
  <2> QED BY <2>2, <2>3 DEF WriteTo
<1> QED BY <1>1, ByteIsDword DEF write_rm_dst

-----------------------------------------------------------------------------
(* Every handler maps machines to machines. *)

LEMMA OperandsAre ==
  ASSUME NEW m \in Machines, NEW i \in Instruction, RmFound(m, i), NEW opclass
  PROVE  /\ read_rm_op(m, i) \in Dword
         /\ gpr_w_handler(m, i.reg, i.width) \in Dword
         /\ m.gpr[i.reg] \in Dword
         /\ Cin(m, opclass) \in {0, 1}
BY OperandType, InstructionParts, GprReadType DEF Cin

(* alu_two_op_rm_r and alu_two_op_r_rm.                                    *)
LEMMA AluTwoOpType ==
  ASSUME NEW m \in Machines, NEW i \in Instruction
  PROVE  alu_two_op_rm_r(m, i) \in Machines /\ alu_two_op_r_rm(m, i) \in Machines
<1>1. CASE ~RmFound(m, i)
  BY <1>1, FailsType DEF alu_two_op_rm_r, alu_two_op_r_rm, ReturnCode
<1>2. CASE RmFound(m, i)
  <2> DEFINE x == read_rm_op(m, i)
             y == gpr_w_handler(m, i.reg, i.width)
             c == Cin(m, i.opclass)
             one == ALU(x, y, c, i.width, i.opclass)
             two == ALU(y, x, c, i.width, i.opclass)
             n1 == IF ThrowsResult(i.opclass) THEN m ELSE write_rm_dst(m, i, one.low)
             n2 == IF ThrowsResult(i.opclass) THEN m
                   ELSE set_gpr_w_handler(m, i.reg, i.width, two.low)
  <2>1. x \in Dword /\ y \in Dword /\ c \in {0, 1}
    BY <1>2, OperandsAre
  <2>2. i.width \in Width /\ i.opclass \in Opclass /\ i.reg \in Gpr
    BY InstructionParts
  <2> HIDE DEF x, y, c
  <2>3. one.low \in Dword /\ two.low \in Dword
        /\ one.flags \in SUBSET Flag /\ two.flags \in SUBSET Flag
    BY <2>1, <2>2, AluType
  <2> HIDE DEF one, two
  <2>4. n1 \in Machines /\ n2 \in Machines
    BY <2>2, <2>3, WriteToType, GprWriteType
  <2> HIDE DEF n1, n2
  <2>5. /\ Then(n1, WithFlags(n1, i.opclass, one.flags)) \in Machines
        /\ WithFlags(n2, i.opclass, two.flags) \in Machines
    BY <2>3, <2>4, WithFlagsType DEF Then
  <2> QED BY <1>2, <2>5 DEF alu_two_op_rm_r, alu_two_op_r_rm, n1, n2, one, two, x, y, c
<1> QED BY <1>1, <1>2

(* alu_increment_register, and INC and DEC of group 5.                     *)
LEMMA IncrementType ==
  ASSUME NEW m \in Machines, NEW i \in Instruction
  PROVE  /\ \A junk \in JunkFlags : alu_increment_register(m, i, junk) \in Machines
         /\ RmFound(m, i) => \A opclass \in {"INC", "DEC"} : step_rm(m, i, opclass) \in Machines
<1>1. DwordBits \in Width /\ i.reg \in Gpr /\ 0 \in Dword
  BY InstructionParts, ByteIsDword DEF Width
<1>2. ASSUME NEW opclass \in {"INC", "DEC"}, NEW x \in Dword
      PROVE  /\ ALU(x, 0, 0, DwordBits, opclass).low \in Dword
             /\ ALU(x, 0, 0, DwordBits, opclass).flags \in SUBSET Flag
  <2>1. opclass \in Opclass
    BY DEF Opclass, Carries, Borrows
  <2> QED BY <1>1, <2>1, AluType
<1>3. ASSUME NEW junk \in JunkFlags PROVE alu_increment_register(m, i, junk) \in Machines
  <2> DEFINE out == ALU(m.gpr[i.reg], 0, 0, DwordBits, "INC")
             n   == set_gpr_w_handler(m, i.reg, DwordBits, out.low)
  <2>1. out.low \in Dword /\ out.flags \in SUBSET Flag
    BY <1>1, <1>2, GprReadType
  <2> HIDE DEF out
  <2>2. out.flags \cup junk \in SUBSET Flag
    BY <1>3, <2>1, LayoutAssumption
  <2>3. n \in Machines
    BY <1>1, <2>1, GprWriteType
  <2> HIDE DEF n
  <2>4. WithFlags(n, "INC", out.flags \cup junk) \in Machines
    BY <2>2, <2>3, WithFlagsType
  <2> QED BY <2>4 DEF alu_increment_register, n, out
<1>4. ASSUME RmFound(m, i), NEW opclass \in {"INC", "DEC"}
      PROVE  step_rm(m, i, opclass) \in Machines
  <2> DEFINE out == ALU(read_rm_op(m, i), 0, 0, DwordBits, opclass)
             n   == write_rm_dst(m, i, out.low)
  <2>1. out.low \in Dword /\ out.flags \in SUBSET Flag
    BY <1>2, <1>4, OperandType
  <2> HIDE DEF out
  <2>2. n \in Machines
    BY <2>1, WriteToType
  <2> HIDE DEF n
  <2>3. Then(n, WithFlags(n, opclass, out.flags)) \in Machines
    BY <2>1, <2>2, WithFlagsType DEF Then
  <2> QED BY <2>3 DEF step_rm, n, out
<1> QED BY <1>3, <1>4

LEMMA StackAddressType ==
  ASSUME NEW m \in Machines
  PROVE  StackAddress(m) \in Dword /\ StackAddress(m) \in Nat
<1>1. SS_TOP \in Int /\ m.gpr[ESP] \in Int
  BY LayoutAssumption, WordSizes DEF Machines, Gpr, ESP, Dword
<1>2. StackAddress(m) \in Dword
  BY <1>1, CutToDword DEF StackAddress
<1> QED BY <1>2, WordSizes DEF Dword

(* A push lowers the stack's address by the bytes it is to write, and from *)
(* the lowest addresses it wraps to the highest.                           *)
LEMMA LoweredAddress ==
  ASSUME NEW m \in Machines, NEW width \in Width
  PROVE  LET k == width \div ByteBits
             n == Lowered(m, width)
         IN /\ n = [m EXCEPT !.gpr[ESP] = (m.gpr[ESP] - k) % DWORD]
            /\ n.gpr[ESP] = (m.gpr[ESP] - k) % DWORD
            /\ n.ram = m.ram /\ n.rc = m.rc
            /\ \A r \in Gpr \ {ESP} : n.gpr[r] = m.gpr[r]
            /\ StackAddress(n) = (IF StackAddress(m) >= k THEN StackAddress(m) - k
                                  ELSE StackAddress(m) - k + DWORD)
<1> DEFINE k == width \div ByteBits
           n == Lowered(m, width)
           e == m.gpr[ESP]
           s == StackAddress(m)
<1>1. k \in {1, 4}
  BY BytesOfWidth
<1> HIDE DEF k
<1>2. e \in Int /\ s \in 0..DWORD-1 /\ s = (SS_TOP + e) % DWORD
  BY StackAddressType, WordSizes DEF Machines, Gpr, ESP, Dword, StackAddress
<1>3. /\ n = [m EXCEPT !.gpr[ESP] = (e - k) % DWORD]
      /\ n.gpr[ESP] = (e - k) % DWORD
      /\ n.ram = m.ram /\ n.rc = m.rc
      /\ \A r \in Gpr \ {ESP} : n.gpr[r] = m.gpr[r]
  <2>1. \A x \in Int : \A y \in {1, 4} : x + (-y) = x - y
    BY SMT
  <2>2. e + (-k) = e - k
    BY ONLY <1>1, <1>2, <2>1, Zenon
  <2>3. n = [m EXCEPT !.gpr[ESP] = (e + (-k)) % DWORD]
    BY DEF Lowered, AddTo, k, Machines
  <2>4. ESP \in Gpr
    BY DEF ESP, Gpr
  <2> HIDE DEF n, e
  <2> QED BY <2>2, <2>3, <2>4 DEF Machines
<1> HIDE DEF e, s
<1>4. StackAddress(n) = (SS_TOP + ((e - k) % DWORD)) % DWORD
  BY <1>3 DEF StackAddress
<1> HIDE DEF n
<1>5. StackAddress(n) = (s - k) % DWORD
  <2>1. \A x, y \in Int : (x + (y % DWORD)) % DWORD = (x + y) % DWORD
    BY ONLY SumCut, WordSizes, Zenon
  <2>2. SS_TOP \in Int /\ SS_TOP + e \in Int /\ e - k \in Int /\ -k \in Int
    BY <1>1, <1>2, LayoutAssumption
  <2>3. (SS_TOP + ((e - k) % DWORD)) % DWORD = (SS_TOP + (e - k)) % DWORD
    BY ONLY <2>1, <2>2, Zenon
  <2>4. ((-k) + ((SS_TOP + e) % DWORD)) % DWORD = ((-k) + (SS_TOP + e)) % DWORD
    BY ONLY <2>1, <2>2, Zenon
  <2>5. SS_TOP + (e - k) = (-k) + (SS_TOP + e) /\ s - k = (-k) + s
    BY <1>1, <1>2, LayoutAssumption
  <2> QED BY ONLY <1>2, <1>4, <2>3, <2>4, <2>5, Zenon
<1>6. (s - k) % DWORD = (IF s >= k THEN s - k ELSE s - k + DWORD)
  <2>1. k \in 0..DWORD-1
    BY <1>1, WordSizes, LayoutAssumption
  <2> QED BY <1>2, <2>1, DifferenceCut, WordSizes
<1> QED BY <1>3, <1>5, <1>6 DEF k, n, e, s

LEMMA PushType ==
  ASSUME NEW m \in Machines
  PROVE  /\ \A width \in Width : Lowered(m, width) \in Machines
         /\ \A width \in Width : \A x \in Int : Push(m, width, x) \in Machines
         /\ \A r \in Gpr : push_gpr(m, r) \in Machines
<1>1. ASSUME NEW width \in Width PROVE Lowered(m, width) \in Machines
  <2>1. -(width \div ByteBits) \in Int /\ ESP \in Gpr
    BY BytesOfWidth DEF ESP, Gpr
  <2> QED BY <2>1, AddToType DEF Lowered
<1>2. ASSUME NEW width \in Width, NEW x \in Int PROVE Push(m, width, x) \in Machines
  <2> DEFINE n == Lowered(m, width)
             w == bus_write(n, StackAddress(n), width, x)
  <2>1. n \in Machines
    BY <1>1
  <2> HIDE DEF n
  <2>2. w \in Machines
    BY <2>1, StackAddressType, BusWriteType
  <2> HIDE DEF w
  <2>3. w.rc \in ReturnCode
    BY <2>2 DEF Machines
  <2>4. (IF Ok(w) THEN w ELSE Fails(m, w.rc)) \in Machines
    BY <2>2, <2>3, FailsType
  <2> QED BY <2>4 DEF Push, n, w
<1>3. ASSUME NEW r \in Gpr PROVE push_gpr(m, r) \in Machines
  <2>1. DwordBits \in Width
    BY DEF Width
  <2>2. Lowered(m, DwordBits).gpr[r] \in Int
    BY <1>1, <2>1, GprReadType, WordSizes DEF Dword
  <2> QED BY <1>2, <2>1, <2>2 DEF push_gpr
<1> QED BY <1>1, <1>2, <1>3

LEMMA PopType ==
  ASSUME NEW m \in Machines, NEW r \in Gpr, NEW junk \in JunkDword
  PROVE  pop_gpr(m, r, junk) \in Machines
<1> DEFINE a == StackAddress(m)
           x == bus_read(m, a, DwordBits, junk)
           n == [m EXCEPT !.gpr[r] = x]
           w == bus_write(n, StackAddress(n), DwordBits, 0)
<1>1. CASE ~OnBus(a)
  BY <1>1, FailsType DEF pop_gpr, ReturnCode
<1>2. CASE OnBus(a)
  <2>1. x \in Dword
    BY <1>2, StackAddressType, LayoutAssumption, BusReadType
  <2> HIDE DEF x
  <2>2. n \in Machines
    BY <2>1 DEF Machines
  <2> HIDE DEF n
  <2>3. w \in Machines
    BY <2>2, StackAddressType, BusWriteType DEF Width
  <2> HIDE DEF w
  <2>4. ESP \in Gpr
    BY DEF ESP, Gpr
  <2>5. Then(w, AddTo(w, ESP, 4)) \in Machines
    BY <2>3, <2>4, AddToType DEF Then
  <2> QED BY <1>2, <2>5 DEF pop_gpr, w, n, x
<1> QED BY <1>1, <1>2

(* PUSHA and POPA.                                                         *)
LEMMA AllRegistersType ==
  ASSUME NEW m \in Machines
  PROVE  /\ execute_PUSHA(m) \in Machines
         /\ \A junk \in JunkDword : execute_POPA(m, junk) \in Machines
<1>1. {EAX, ECX, EDX, EBX, ESP, EBP, ESI, EDI} \subseteq Gpr
  BY DEF EAX, ECX, EDX, EBX, ESP, EBP, ESI, EDI, Gpr
<1>2. ASSUME NEW n \in Machines, NEW r \in Gpr PROVE ThenPush(n, r) \in Machines
  BY PushType DEF ThenPush, Then
<1>3. ASSUME NEW n \in Machines, NEW a \in Gpr, NEW b \in Gpr, NEW c \in Gpr, NEW d \in Gpr
      PROVE  PushFour(n, a, b, c, d) \in Machines
  BY <1>2 DEF PushFour
<1>4. ASSUME NEW n \in Machines, NEW r \in Gpr, NEW junk \in JunkDword
      PROVE  ThenPop(n, r, junk) \in Machines
  BY PopType DEF ThenPop, Then
<1>5. ASSUME NEW n \in Machines, NEW a \in Gpr, NEW b \in Gpr, NEW c \in Gpr, NEW d \in Gpr,
             NEW junk \in JunkDword
      PROVE  PopFour(n, a, b, c, d, junk) \in Machines
  BY <1>4 DEF PopFour
<1>6. execute_PUSHA(m) \in Machines
  BY <1>1, <1>3 DEF execute_PUSHA
<1>7. \A junk \in JunkDword : execute_POPA(m, junk) \in Machines
  BY <1>1, <1>5 DEF execute_POPA
<1> QED BY <1>6, <1>7

LEMMA SegmentFaultType ==
  ASSUME NEW m \in Machines
  PROVE  SegmentFault(m) \in Machines
<1>1. Fails(m, "FAILED_SEGBOUND_CHECK") \in Machines
  BY FailsType DEF ReturnCode
<1> QED BY <1>1 DEF SegmentFault, Machines

LEMMA JumpType ==
  ASSUME NEW m \in Machines, NEW i \in Instruction
  PROVE  jmp_rel(m, i) \in Machines /\ call_rel(m, i) \in Machines
<1>1. EIP \in Gpr
  BY DEF EIP, Gpr
<1>2. ASSUME NEW n \in Machines PROVE jmp_rel(n, i) \in Machines
  <2>1. SignExtend(i.imm, i.imm_length) \in Int
    BY InstructionParts, SignExtendType, WordSizes DEF Dword
  <2>2. AddTo(n, EIP, SignExtend(i.imm, i.imm_length)) \in Machines
    BY <1>1, <2>1, AddToType
  <2> QED BY <2>2, SegmentFaultType DEF jmp_rel
<1>3. push_gpr(m, EIP) \in Machines
  BY <1>1, PushType
<1> QED BY <1>2, <1>3 DEF call_rel, Then

(* CALL rm32 and JMP rm32.                                                 *)
LEMMA IndirectJumpType ==
  ASSUME NEW m \in Machines, NEW i \in Instruction, RmFound(m, i)
  PROVE  call_rm(m, i) \in Machines /\ jmp_rm(m, i) \in Machines
<1> DEFINE x == read_rm_op(m, i)
<1>1. EIP \in Gpr /\ x \in Dword
  BY OperandType DEF EIP, Gpr
<1>2. \A n \in Machines : [n EXCEPT !.gpr[EIP] = x] \in Machines
  BY <1>1 DEF Machines
<1>3. call_rm(m, i) \in Machines
  <2>1. push_gpr(m, EIP) \in Machines
    BY <1>1, PushType
  <2> QED BY <1>2, <2>1 DEF call_rm, Then
<1>4. jmp_rm(m, i) \in Machines
  <2> DEFINE y == IF i.has_operand_size_override THEN x
                  ELSE (m.gpr[EIP] - (m.gpr[EIP] % WORD)) + (x % WORD)
  <2>1. m.gpr[EIP] \in Dword /\ x \in Int
    BY <1>1, GprReadType, WordSizes DEF Dword
  <2> HIDE DEF x
  <2>2. y \in Dword
    BY <1>1, <2>1, LowPartType
  <2> HIDE DEF y
  <2>3. [m EXCEPT !.gpr[EIP] = y] \in Machines
    BY <1>1, <2>2 DEF Machines
  <2>4. [m EXCEPT !.gpr[EIP] = y] =
        [m EXCEPT !.gpr[EIP] = IF i.has_operand_size_override THEN x
                               ELSE (@ - (@ % WORD)) + (x % WORD)]
    BY DEF y, Machines
  <2> QED BY <2>3, <2>4, SegmentFaultType DEF jmp_rm, x
<1> QED BY <1>3, <1>4

LEMMA GroupFiveType ==
  ASSUME NEW m \in Machines, NEW i \in Instruction
  PROVE  execute_GRP5(m, i) \in Machines
<1>1. CASE ~RmFound(m, i)
  BY <1>1, FailsType DEF execute_GRP5, ReturnCode
<1>2. CASE RmFound(m, i)
  <2>1. /\ step_rm(m, i, "INC") \in Machines /\ step_rm(m, i, "DEC") \in Machines
        /\ call_rm(m, i) \in Machines /\ jmp_rm(m, i) \in Machines
        /\ Fails(m, "UNIMPLEMENTED_INSTRUCTION") \in Machines
    BY <1>2, IncrementType, IndirectJumpType, FailsType DEF ReturnCode
  <2> QED BY <1>2, <2>1 DEF execute_GRP5
<1> QED BY <1>1, <1>2

-----------------------------------------------------------------------------
(* The interpreter. *)

LEMMA MachineType ==
  ASSUME ExecutorTypeOK
  PROVE  Machine \in Machines /\ \A i \in Instruction : Fetched(i) \in Machines
<1>1. Machine \in Machines
  BY DEF ExecutorTypeOK, Machine, Machines, ReturnCode
<1>2. EIP \in Gpr
  BY DEF EIP, Gpr
<1> QED BY <1>1, <1>2, AddToType, InstructionParts DEF Fetched

LEMMA RunsType ==
  ASSUME NEW i, NEW handler, NEW m \in Machines, Runs(i, handler, m)
  PROVE  ExecutorTypeOK'
BY DEF Runs, Machines, ReturnCode, ExecutorTypeOK

LEMMA InitType == Init => ExecutorTypeOK
<1>1. 0 \in Dword /\ 0 \in Byte
  BY ByteIsDword, WordSizes DEF Byte
<1> QED BY <1>1 DEF Init, ExecutorTypeOK

(* Whatever instruction is executed.                                       *)
LEMMA ExecuteType ==
  ASSUME ExecutorTypeOK, NEW i \in Instruction, Execute(i)
  PROVE  ExecutorTypeOK'
<1> DEFINE m == Fetched(i)
<1>1. /\ m \in Machines
      /\ i.reg \in Gpr /\ i.width \in Width /\ i.imm \in Dword /\ i.imm \in Int
      /\ EIP \in Gpr
  BY MachineType, InstructionParts, WordSizes DEF Dword, EIP, Gpr
<1> HIDE DEF m
<1>2. CASE AluRmR(i)
  BY <1>1, <1>2, AluTwoOpType, RunsType DEF AluRmR, m
<1>3. CASE AluRRm(i)
  BY <1>1, <1>3, AluTwoOpType, RunsType DEF AluRRm, m
<1>4. CASE IncR(i)
  <2>1. PICK junk \in JunkFlags : Runs(i, "INC_R", alu_increment_register(m, i, junk))
    BY <1>4 DEF IncR, m
  <2>2. alu_increment_register(m, i, junk) \in Machines
    BY <1>1, IncrementType
  <2> QED BY <2>1, <2>2, RunsType
<1>5. CASE MovRmR(i)
  <2>1. WriteTo(m, i, gpr_w_handler(m, i.reg, i.width)) \in Machines
    BY <1>1, GprReadType, WriteToType
  <2> QED BY <1>5, <2>1, RunsType DEF MovRmR, m
<1>6. CASE MovRRm(i)
  <2> DEFINE n == IF RmFound(m, i)
                  THEN set_gpr_w_handler(m, i.reg, i.width, read_rm_op(m, i))
                  ELSE Fails(m, "BUS_READ_FAILURE")
  <2>1. n \in Machines
    BY <1>1, OperandType, GprWriteType, FailsType DEF ReturnCode
  <2> QED BY <1>6, <2>1, RunsType DEF MovRRm, m
<1>7. CASE MovRImm(i)
  <2>1. set_gpr_w_handler(m, i.reg, i.width, i.imm) \in Machines
    BY <1>1, GprWriteType
  <2> QED BY <1>7, <2>1, RunsType DEF MovRImm, m
<1>8. CASE PushR(i)
  BY <1>1, <1>8, PushType, RunsType DEF PushR, m
<1>9. CASE PushImm(i)
  BY <1>1, <1>9, PushType, RunsType DEF PushImm, m
<1>10. CASE PushA(i)
  BY <1>1, <1>10, AllRegistersType, RunsType DEF PushA, m
<1>11. CASE PopR(i)
  <2>1. PICK junk \in JunkDword : Runs(i, "POP_R", pop_gpr(m, i.reg, junk))
    BY <1>11 DEF PopR, m
  <2> QED BY <1>1, <2>1, PopType, RunsType
<1>12. CASE PopA(i)
  <2>1. PICK junk \in JunkDword : Runs(i, "POPA", execute_POPA(m, junk))
    BY <1>12 DEF PopA, m
  <2> QED BY <1>1, <2>1, AllRegistersType, RunsType
<1>13. CASE Ret(i)
  <2>1. PICK junk \in JunkDword : Runs(i, "RET", pop_gpr(m, EIP, junk))
    BY <1>13 DEF Ret, m
  <2> QED BY <1>1, <2>1, PopType, RunsType
<1>14. CASE Jcc(i)
  <2>1. (IF JumpTaken(i.condition, m.status) THEN jmp_rel(m, i) ELSE m) \in Machines
    BY <1>1, JumpType
  <2> QED BY <1>14, <2>1, RunsType DEF Jcc, m
<1>15. CASE Jmp(i)
  BY <1>1, <1>15, JumpType, RunsType DEF Jmp, m
<1>16. CASE Call(i)
  BY <1>1, <1>16, JumpType, RunsType DEF Call, m
<1>17. CASE Grp5(i)
  BY <1>1, <1>17, GroupFiveType, RunsType DEF Grp5, m
<1>18. CASE Clc(i)
  <2>1. [m EXCEPT !.status = @ \ {"CF"}] \in Machines
    BY <1>1 DEF Machines
  <2> QED BY <1>18, <2>1, RunsType DEF Clc, m
<1>19. CASE Stc(i)
  <2>1. [m EXCEPT !.status = @ \cup {"CF"}] \in Machines
    BY <1>1 DEF Machines, Flag
  <2> QED BY <1>19, <2>1, RunsType DEF Stc, m
<1>20. CASE Hlt(i)
  <2>1. [m EXCEPT !.halt = TRUE] \in Machines
    BY <1>1 DEF Machines
  <2> QED BY <1>20, <2>1, RunsType DEF Hlt, m
<1>21. CASE Unimplemented(i)
  BY <1>1, <1>21, FailsType, RunsType DEF Unimplemented, ReturnCode, m
<1>22. Execute(i)
  OBVIOUS
<1> QED
  BY ONLY <1>2, <1>3, <1>4, <1>5, <1>6, <1>7, <1>8, <1>9, <1>10, <1>11, <1>12, <1>13,
          <1>14, <1>15, <1>16, <1>17, <1>18, <1>19, <1>20, <1>21, <1>22 DEF Execute

(* Registers hold dwords, memory bytes and the status register flags, for  *)
(* every program: no handler stores a sum, a difference, an offset or a    *)
(* popped word without cutting it to the width of where it goes.           *)
THEOREM ExecutorTypeCorrect == Spec => []ExecutorTypeOK
<1>1. Init => ExecutorTypeOK
  BY InitType
<1>2. ExecutorTypeOK /\ [Next]_vars => ExecutorTypeOK'
  <2> SUFFICES ASSUME ExecutorTypeOK, [Next]_vars PROVE ExecutorTypeOK'
    OBVIOUS
  <2>1. CASE Next
    <3>1. PICK i \in Instr : Execute(i)
      BY <2>1 DEF Next
    <3>2. i \in Instruction
      BY <3>1, InstrAssumption
    <3> QED BY <3>1, <3>2, ExecuteType
  <2>2. CASE UNCHANGED vars
    BY <2>2 DEF vars, ExecutorTypeOK
  <2> QED BY <2>1, <2>2
<1> QED BY <1>1, <1>2, PTL DEF Spec

=============================================================================
