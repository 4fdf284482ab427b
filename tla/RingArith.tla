----------------------------- MODULE RingArith ------------------------------
(***************************************************************************)
(* Arithmetic of the ring buffers of the pipe and of the console, whose    *)
(* unsigned indexes wrap around at a multiple of the size of the buffer.   *)
(***************************************************************************)
EXTENDS Integers, TLAPS

\* Products are monotone.
LEMMA Multiples ==
  ASSUME NEW P \in Nat \ {0}, NEW d \in Int
  PROVE  (d > 0 => P * d >= P) /\ (d = 0 => P * d = 0) /\ (d < 0 => P * d <= -P)
<1>1. ASSUME d > 0 PROVE P * d >= P
  BY <1>1
<1>2. ASSUME d < 0 PROVE P * d <= -P
  BY <1>2
<1> QED
  BY <1>1, <1>2

\* Quotient and remainder, and that they are the only ones.
LEMMA Division ==
  ASSUME NEW P \in Nat \ {0}, NEW a \in Nat
  PROVE  a % P \in 0 .. P - 1 /\ \E q \in Nat : a = P * q + (a % P)
<1>1. a = P * (a \div P) + (a % P) /\ a % P \in 0 .. P - 1 /\ a \div P \in Int
  OBVIOUS
<1>2. a \div P \in Nat
  OBVIOUS
<1> QED
  BY <1>1, <1>2

LEMMA UniqueRemainder ==
  ASSUME NEW P \in Nat \ {0}, NEW q \in Int, NEW s \in Int,
         NEW i \in 0 .. P - 1, NEW j \in 0 .. P - 1, P * q + i = P * s + j
  PROVE  i = j
<1>1. P * (q - s) = j - i /\ q - s \in Int
  OBVIOUS
<1>2. q - s = 0
  BY <1>1, Multiples
<1> QED
  BY <1>1, <1>2

\* Two indexes less than a buffer apart have places of their own.
LEMMA DistinctPlaces ==
  ASSUME NEW P \in Nat \ {0}, NEW a \in Nat, NEW b \in Nat, a < b, b - a < P
  PROVE  a % P # b % P
<1> SUFFICES ASSUME a % P = b % P PROVE FALSE
  OBVIOUS
<1>1. PICK q \in Nat : a = P * q + (a % P)
  BY Division
<1>2. PICK s \in Nat : b = P * s + (b % P)
  BY Division
<1>3. b - a = P * (s - q) /\ s - q \in Int
  BY <1>1, <1>2
<1> QED
  BY <1>3, Multiples

\* An index keeps its place when it wraps around.
LEMMA SamePlace ==
  ASSUME NEW P \in Nat \ {0}, NEW M \in Nat, M % P = 0, NEW a \in Nat
  PROVE  (a + M) % P = a % P
<1>1. PICK q \in Nat : a = P * q + (a % P) /\ a % P \in 0 .. P - 1
  BY Division
<1>2. PICK s \in Nat : M = P * s
  <2>1. \E s \in Nat : M = P * s + (M % P)
    BY Division
  <2> QED
    BY <2>1
<1>3. PICK t \in Nat : a + M = P * t + ((a + M) % P) /\ (a + M) % P \in 0 .. P - 1
  <2>1. a + M \in Nat
    OBVIOUS
  <2> QED
    BY <2>1, Division
<1> DEFINE u == q + s
           i == a % P
           j == (a + M) % P
<1>4. P * u + i = P * t + j /\ u \in Int /\ t \in Int
  BY <1>1, <1>2, <1>3
<1>5. i \in 0 .. P - 1 /\ j \in 0 .. P - 1
  BY <1>1, <1>3
<1> HIDE DEF u, i, j
<1>6. i = j
  BY <1>4, <1>5, UniqueRemainder
<1> QED
  BY <1>6 DEF i, j

\* Distance and successor on the ring of the numbers below M.
LEMMA Wrapping ==
  ASSUME NEW M \in Nat \ {0}, NEW i \in 0 .. M - 1, NEW j \in 0 .. M - 1
  PROVE  /\ (i - j) % M = (IF j <= i THEN i - j ELSE i - j + M)
         /\ (i + 1) % M = (IF i + 1 = M THEN 0 ELSE i + 1)
<1>1. \A m \in Nat \ {0}, x \in Nat : x < m => x % m = x
  OBVIOUS
<1>2. \A m \in Nat \ {0}, x \in Int : x < 0 /\ -m <= x => x % m = x + m
  OBVIOUS
<1>3. \A m \in Nat \ {0} : m % m = 0
  OBVIOUS
<1>4. (i - j) % M = (IF j <= i THEN i - j ELSE i - j + M)
  <2> DEFINE x == i - j
  <2>1. x \in Int /\ -M <= x /\ x < M /\ (j <= i <=> x >= 0)
    OBVIOUS
  <2>2. x >= 0 => x % M = x
    <3> HIDE DEF x
    <3> QED
      BY <1>1, <2>1
  <2>3. x < 0 => x % M = x + M
    <3> HIDE DEF x
    <3> QED
      BY <1>2, <2>1
  <2> QED
    BY <2>1, <2>2, <2>3
<1>5. (i + 1) % M = (IF i + 1 = M THEN 0 ELSE i + 1)
  BY <1>1, <1>3
<1> QED
  BY <1>4, <1>5
=============================================================================
