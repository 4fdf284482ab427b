----------------------------- MODULE LineProofs -----------------------------
(***************************************************************************)
(* Proof that the console's circular buffer, with its three indexes that   *)
(* wrap around, implements LineDiscipline for any size of the buffer and   *)
(* any number of readers, writers and printing CPUs.                       *)
(***************************************************************************)
EXTENDS ConsoleProofs, RingArith, SequenceTheorems

Stored == Char \cup {NL, EOF}

\* Where the k-th character from index i on is kept.
Place(i, k) == Plus(i, k - 1) % INPUT_BUF_SIZE

LEMMA PlaceOf ==
  ASSUME NEW i \in Idx, NEW k \in 1 .. IdxMod
  PROVE  Place(i, k) = (i + k - 1) % INPUT_BUF_SIZE /\ Place(i, k) \in 0 .. INPUT_BUF_SIZE - 1
<1>1. /\ INPUT_BUF_SIZE \in Nat \ {0} /\ IdxMod \in Nat \ {0} /\ IdxMod % INPUT_BUF_SIZE = 0
      /\ k - 1 \in Idx /\ i \in Nat /\ k \in Nat
  BY Constants, ConsoleAssumption DEF Idx
<1>2. Plus(i, k - 1) = i + k - 1 \/ Plus(i, k - 1) + IdxMod = i + k - 1
  BY <1>1, Arith
<1>3. Plus(i, k - 1) \in Nat
  BY <1>1, Indexes DEF Idx
<1> DEFINE a == Plus(i, k - 1)
           b == i + k - 1
<1>4. a \in Nat /\ (a = b \/ a + IdxMod = b)
  BY <1>2, <1>3
<1> HIDE DEF a, b
<1>5. (a + IdxMod) % INPUT_BUF_SIZE = a % INPUT_BUF_SIZE /\ a % INPUT_BUF_SIZE \in 0 .. INPUT_BUF_SIZE - 1
  BY <1>1, <1>4, SamePlace, Division
<1>6. a % INPUT_BUF_SIZE = b % INPUT_BUF_SIZE
  BY <1>4, <1>5
<1> QED
  BY <1>5, <1>6 DEF a, b, Place

LEMMA PlaceShift ==
  ASSUME NEW i \in Idx, NEW d \in Idx, NEW k \in 1 .. IdxMod, d + k <= IdxMod
  PROVE  Place(Plus(i, d), k) = Place(i, d + k)
<1>1. /\ INPUT_BUF_SIZE \in Nat \ {0} /\ IdxMod \in Nat \ {0} /\ IdxMod % INPUT_BUF_SIZE = 0
      /\ i \in Nat /\ d \in Nat /\ k \in Nat /\ k > 0 /\ d + k \in 1 .. IdxMod
  BY Constants, ConsoleAssumption DEF Idx
<1>2. Plus(i, d) \in Idx /\ Plus(i, d) \in Nat /\ (Plus(i, d) = i + d \/ Plus(i, d) + IdxMod = i + d)
  <2>1. Plus(i, d) = (IF i + d < IdxMod THEN i + d ELSE i + d - IdxMod)
    BY Arith
  <2>2. Plus(i, d) \in Idx
    BY Indexes
  <2> QED
    BY <1>1, <2>1, <2>2 DEF Idx
<1> DEFINE a == Plus(i, d) + k - 1
           b == i + (d + k) - 1
<1>3. a \in Nat /\ (a = b \/ a + IdxMod = b)
  BY <1>1, <1>2
<1>4. Place(Plus(i, d), k) = a % INPUT_BUF_SIZE /\ Place(i, d + k) = b % INPUT_BUF_SIZE
  BY <1>1, <1>2, PlaceOf
<1> HIDE DEF a, b
<1>5. (a + IdxMod) % INPUT_BUF_SIZE = a % INPUT_BUF_SIZE
  BY <1>1, <1>3, SamePlace
<1> QED
  BY <1>3, <1>4, <1>5

LEMMA PlaceApart ==
  ASSUME NEW i \in Idx, NEW k \in 1 .. IdxMod, NEW m \in 1 .. IdxMod, k < m, m - k < INPUT_BUF_SIZE
  PROVE  Place(i, k) # Place(i, m)
<1>1. INPUT_BUF_SIZE \in Nat \ {0} /\ IdxMod \in Nat \ {0} /\ i \in Nat
  BY Constants DEF Idx
<1> DEFINE a == i + k - 1
           b == i + m - 1
<1>2. a \in Nat /\ b \in Nat /\ a < b /\ b - a < INPUT_BUF_SIZE
  BY <1>1
<1>3. Place(i, k) = a % INPUT_BUF_SIZE /\ Place(i, m) = b % INPUT_BUF_SIZE
  BY PlaceOf
<1> HIDE DEF a, b
<1> QED
  BY <1>1, <1>2, <1>3, DistinctPlaces

\* Distances on the ring.
LEMMA Distances ==
  ASSUME NEW i \in Idx, NEW j \in Idx, NEW d \in Idx
  PROVE  /\ d <= Minus(j, i) => Minus(j, Plus(i, d)) = Minus(j, i) - d
         /\ Minus(j, i) + 1 < IdxMod => Minus(Plus(j, 1), i) = Minus(j, i) + 1
         /\ d <= Minus(j, i) => Minus(Minus(j, d), i) = Minus(j, i) - d
         /\ Minus(d, j) + Minus(j, i) < IdxMod => Minus(d, i) = Minus(d, j) + Minus(j, i)
<1>1. IdxMod \in Nat /\ IdxMod > 1 /\ i \in Nat /\ j \in Nat /\ d \in Nat /\ i < IdxMod /\ j < IdxMod /\ d < IdxMod
      /\ 1 \in Idx
  BY Constants DEF Idx
<1>2. Minus(j, i) = (IF i <= j THEN j - i ELSE j + IdxMod - i)
  BY Arith
<1>3. ASSUME d <= Minus(j, i) PROVE Minus(j, Plus(i, d)) = Minus(j, i) - d
  <2>1. Plus(i, d) \in Idx /\ Plus(i, d) = (IF i + d < IdxMod THEN i + d ELSE i + d - IdxMod)
    BY Arith, Indexes
  <2>2. Minus(j, Plus(i, d)) = (IF Plus(i, d) <= j THEN j - Plus(i, d) ELSE j + IdxMod - Plus(i, d))
    BY <2>1, Arith
  <2> QED
    BY <1>1, <1>2, <1>3, <2>1, <2>2
<1>4. ASSUME Minus(j, i) + 1 < IdxMod PROVE Minus(Plus(j, 1), i) = Minus(j, i) + 1
  <2>1. Plus(j, 1) \in Idx /\ Plus(j, 1) = (IF j + 1 < IdxMod THEN j + 1 ELSE j + 1 - IdxMod)
    BY <1>1, Arith, Indexes
  <2>2. Minus(Plus(j, 1), i) = (IF i <= Plus(j, 1) THEN Plus(j, 1) - i ELSE Plus(j, 1) + IdxMod - i)
    BY <2>1, Arith
  <2> QED
    BY <1>1, <1>2, <1>4, <2>1, <2>2
<1>5. ASSUME d <= Minus(j, i) PROVE Minus(Minus(j, d), i) = Minus(j, i) - d
  <2>1. Minus(j, d) \in Idx /\ Minus(j, d) = (IF d <= j THEN j - d ELSE j + IdxMod - d)
    BY Arith, Indexes
  <2>2. Minus(Minus(j, d), i) = (IF i <= Minus(j, d) THEN Minus(j, d) - i ELSE Minus(j, d) + IdxMod - i)
    BY <2>1, Arith
  <2> QED
    BY <1>1, <1>2, <1>5, <2>1, <2>2
<1>6. ASSUME Minus(d, j) + Minus(j, i) < IdxMod PROVE Minus(d, i) = Minus(d, j) + Minus(j, i)
  <2>1. Minus(d, j) = (IF j <= d THEN d - j ELSE d + IdxMod - j)
    BY Arith
  <2>2. Minus(d, i) = (IF i <= d THEN d - i ELSE d + IdxMod - i)
    BY Arith
  <2> QED
    BY <1>1, <1>2, <1>6, <2>1, <2>2
<1> QED
  BY <1>3, <1>4, <1>5, <1>6
-----------------------------------------------------------------------------
(* The two sequences kept in the buffer *)

LEMMA Segment ==
  ASSUME TypeOK, NEW i \in Idx, NEW j \in Idx
  PROVE  /\ Between(i, j) \in Seq(Stored) /\ Len(Between(i, j)) = Minus(j, i)
         /\ \A k \in 1 .. Minus(j, i) : Between(i, j)[k] = buf[Place(i, k)]
         /\ Minus(j, i) \in Nat /\ Minus(j, i) < IdxMod
<1>1. Minus(j, i) \in Nat /\ Minus(j, i) < IdxMod /\ IdxMod \in Nat
  BY Indexes, Constants DEF Idx
<1>2. Between(i, j) = [k \in 1 .. Minus(j, i) |-> buf[Place(i, k)]]
  BY DEF Between, Place
<1>3. \A k \in 1 .. Minus(j, i) : buf[Place(i, k)] \in Stored
  <2> SUFFICES ASSUME NEW k \in 1 .. Minus(j, i) PROVE buf[Place(i, k)] \in Stored
    OBVIOUS
  <2>1. k \in 1 .. IdxMod
    BY <1>1
  <2>2. Place(i, k) \in 0 .. INPUT_BUF_SIZE - 1
    BY <2>1, PlaceOf
  <2> QED
    BY <2>2 DEF TypeOK, Stored
<1>4. Between(i, j) \in [1 .. Minus(j, i) -> Stored]
  BY <1>2, <1>3
<1> HIDE DEF Between
<1> QED
  BY <1>1, <1>2, <1>4

\* Sequences with the same length and elements are the same.
LEMMA SameSeq ==
  ASSUME NEW S, NEW s \in Seq(S), NEW t \in Seq(S), Len(s) = Len(t), \A k \in 1 .. Len(s) : s[k] = t[k]
  PROVE  s = t
  OBVIOUS

\* Reading takes characters from the front of what is ready.
LEMMA Dropped ==
  ASSUME TypeOK, InOrder, NEW d \in 0 .. Minus(w, r), r' = Plus(r, d), UNCHANGED <<buf, w, e>>
  PROVE  /\ Between(r, w)' = SubSeq(Between(r, w), d + 1, Len(Between(r, w)))
         /\ Between(w, e)' = Between(w, e) /\ InOrder'
<1>1. /\ r \in Idx /\ w \in Idx /\ e \in Idx /\ r' \in Idx /\ IdxMod \in Nat
      /\ Minus(w, r) \in Nat /\ Minus(w, r) < IdxMod /\ d \in Idx /\ Minus(e, w) \in Nat
  <2>1. r \in Idx /\ w \in Idx /\ e \in Idx /\ IdxMod \in Nat
    BY Constants DEF TypeOK, Idx
  <2>2. Minus(w, r) \in Idx /\ Minus(e, w) \in Idx
    BY <2>1, Indexes
  <2>3. d \in Idx
    BY <2>1, <2>2 DEF Idx
  <2>4. r' \in Idx
    BY <2>1, <2>3, Indexes
  <2> QED
    BY <2>1, <2>2, <2>3, <2>4 DEF Idx
<1>2. Minus(w, r') = Minus(w, r) - d
  <2>1. d <= Minus(w, r)
    BY <1>1
  <2> QED
    BY <1>1, <2>1, Distances
<1> DEFINE s == Between(r, w)
           t == [k \in 1 .. Minus(w, r) - d |-> buf[Place(r', k)]]
<1>3. Between(r, w)' = t
  BY <1>2 DEF Between, Minus, Plus, Place
<1>4. s \in Seq(Stored) /\ Len(s) = Minus(w, r) /\ \A k \in 1 .. Minus(w, r) : s[k] = buf[Place(r, k)]
  BY <1>1, Segment
<1>5. \A k \in 1 .. Minus(w, r) - d : Place(r', k) = Place(r, d + k)
  <2> SUFFICES ASSUME NEW k \in 1 .. Minus(w, r) - d PROVE Place(r', k) = Place(r, d + k)
    OBVIOUS
  <2>1. k \in 1 .. IdxMod /\ d + k <= IdxMod
    BY <1>1
  <2> QED
    BY <1>1, <2>1, PlaceShift
<1>6. \A k \in 1 .. Minus(w, r) - d : t[k] = s[k + d]
  <2> SUFFICES ASSUME NEW k \in 1 .. Minus(w, r) - d PROVE t[k] = s[k + d]
    OBVIOUS
  <2>1. k + d \in 1 .. Minus(w, r) /\ k + d = d + k
    BY <1>1
  <2>2. s[k + d] = buf[Place(r, k + d)]
    BY <1>4, <2>1
  <2>3. t[k] = buf[Place(r', k)]
    OBVIOUS
  <2> QED
    BY <1>5, <2>1, <2>2, <2>3
<1>7. t = SubSeq(s, d + 1, Len(s))
  <2> HIDE DEF s
  <2>1. DOMAIN t = 1 .. Minus(w, r) - d /\ t = [k \in 1 .. Minus(w, r) - d |-> s[k + d]]
    BY <1>6
  <2> HIDE DEF t
  <2>2. SubSeq(s, d + 1, Len(s)) = [k \in 1 .. Len(s) - d |-> s[k + d]]
    BY <1>1, <1>4
  <2> QED
    BY <1>4, <2>1, <2>2
<1>8. Between(w, e)' = Between(w, e)
  BY DEF Between, Minus, Plus
<1>9. InOrder'
  <2>1. Minus(w, r)' = Minus(w, r) - d /\ Minus(e, w)' = Minus(e, w)
    BY <1>2 DEF Minus
  <2> QED
    BY <1>1, <2>1, Constants DEF InOrder
<1> QED
  BY <1>3, <1>7, <1>8, <1>9

\* consoleread() stops at a newline and at an end-of-file mark.
LEMMA TakenLine ==
  ASSUME TypeOK, NEW n \in Nat
  PROVE  \A i \in 1 .. Take(n) - 1 : Ahead[i] \notin {NL, EOF}
<1>1. Len(Ahead) \in Nat /\ Take(n) \in Nat
  BY Taken DEF Idx
<1> DEFINE stops == {k \in 1 .. Len(Ahead) : Ahead[k] \in {NL, EOF}}
           k0 == IF stops = {} THEN Len(Ahead) ELSE CHOOSE k \in stops : \A j \in stops : k <= j
<1>2. Take(n) = IF k0 <= n THEN k0 ELSE n
  BY DEF Take
<1>3. k0 \in Nat /\ k0 <= Len(Ahead) /\ \A j \in stops : k0 <= j
  <2>1. CASE stops = {}
    BY <1>1, <2>1
  <2>2. CASE stops # {}
    <3>1. stops \in SUBSET Nat
      BY <1>1
    <3>2. \E k \in stops : \A j \in stops : k <= j
      BY <2>2, <3>1, Least
    <3>3. k0 = CHOOSE k \in stops : \A j \in stops : k <= j
      BY <2>2
    <3>4. k0 \in stops /\ \A j \in stops : k0 <= j
      <4> HIDE DEF stops, k0
      <4> QED
        BY <3>2, <3>3
    <3> HIDE DEF k0
    <3> QED
      BY <1>1, <3>4
  <2> QED
    BY <2>1, <2>2
<1> HIDE DEF k0
<1>4. Take(n) <= k0
  BY <1>2, <1>3
<1> SUFFICES ASSUME NEW i \in 1 .. Take(n) - 1 PROVE Ahead[i] \notin {NL, EOF}
  OBVIOUS
<1>5. i \in 1 .. Len(Ahead) /\ i < k0 /\ i \in Nat
  BY <1>1, <1>3, <1>4
<1> QED
  BY <1>3, <1>5
-----------------------------------------------------------------------------
(* Every step is a step of the line discipline, and keeps the indexes in order *)

LEMMA ReadRefines ==
  ASSUME IInv, InOrder, NEW p \in Reader, consoleread(p)
  PROVE  (Lines!Read \/ UNCHANGED <<Between(w, e), Between(r, w), given>>) /\ InOrder'
<1> DEFINE n == reader[p].n
           k == Take(n)
           last == Ahead[k]
           eof == k > 0 /\ last = EOF
           got == IF eof THEN k - 1 ELSE k
           n1 == n - got
           d == IF eof /\ n1 < reader[p].target THEN got ELSE k
           s == Between(r, w)
<1>1. /\ TypeOK /\ n \in Nat /\ n > 0 /\ reader[p].target \in Nat /\ n <= reader[p].target
      /\ r \in Idx /\ w \in Idx /\ s = Ahead
  BY DEF IInv, consoleread, WakeupInv, ReadersWait, TypeOK, Idx, Ahead
<1>2. /\ r' = Plus(r, d) /\ UNCHANGED <<buf, w, e>>
      /\ given' = IF got = 0 THEN given ELSE SubSeq(s, 1, got)
  BY <1>1 DEF consoleread
<1>3. /\ k \in Nat /\ k <= n /\ k <= Len(s) /\ Len(s) = Minus(w, r) /\ Len(s) \in Nat /\ s \in Seq(Stored)
      /\ \A i \in 1 .. k - 1 : s[i] \notin {NL, EOF}
      /\ last = s[k]
  BY <1>1, Taken, TakenLine, Segment
<1> HIDE DEF s, k
<1>4. /\ eof => got = k - 1 /\ k > 0 /\ s[k] = EOF
      /\ ~eof => got = k /\ d = k
      /\ got \in Nat /\ n1 = n - got
      /\ k > 0 /\ ~eof => s[k] # EOF
  BY <1>3
<1>5. eof => d = (IF n1 < reader[p].target THEN k - 1 ELSE k)
  BY <1>4
<1> HIDE DEF eof, got, n1, d
<1>6. d \in 0 .. Minus(w, r)
  BY <1>3, <1>4, <1>5
<1>7. Between(r, w)' = SubSeq(s, d + 1, Len(s)) /\ Between(w, e)' = Between(w, e) /\ InOrder'
  BY <1>1, <1>2, <1>6, Dropped DEF s
<1>8. CASE d = 0 /\ got = 0
  <2>1. SubSeq(s, d + 1, Len(s)) = s
    BY <1>3, <1>8
  <2> QED
    BY <1>2, <1>7, <1>8, <2>1 DEF s
<1>9. CASE got > 0
  <2>1. d = got /\ got \in 1 .. Len(s)
    BY <1>1, <1>3, <1>4, <1>5, <1>9
  <2>2. \A i \in 1 .. got : s[i] # EOF /\ (s[i] = NL => i = got)
    <3> SUFFICES ASSUME NEW i \in 1 .. got PROVE s[i] # EOF /\ (s[i] = NL => i = got)
      OBVIOUS
    <3>1. CASE i \in 1 .. k - 1
      BY <1>3, <3>1
    <3>2. CASE i = k /\ got = k /\ ~eof
      BY <1>3, <1>4, <3>2
    <3> QED
      BY <1>3, <1>4, <3>1, <3>2
  <2>3. given' = SubSeq(s, 1, got)
    BY <1>2, <1>4, <1>9
  <2> QED
    BY <1>7, <2>1, <2>2, <2>3 DEF Lines!Read, s
<1>10. CASE d # 0 /\ got = 0
  <2>1. eof /\ k = 1 /\ d = 1 /\ s[1] = EOF
    BY <1>3, <1>4, <1>5, <1>10
  <2>2. s # <<>> /\ Head(s) = EOF /\ SubSeq(s, 2, Len(s)) = Tail(s)
    <3>1. Len(s) >= 1
      BY <1>3, <2>1
    <3> QED
      BY <1>3, <2>1, <3>1, TailIsSubSeq
  <2>3. given' = given /\ Between(r, w)' = Tail(s)
    BY <1>2, <1>7, <1>10, <2>1, <2>2
  <2> QED
    BY <1>7, <2>2, <2>3 DEF Lines!Read, s
<1> QED
  BY <1>4, <1>7, <1>8, <1>9, <1>10

LEMMA FaultRefines ==
  ASSUME IInv, InOrder, NEW p \in Reader, consoleread_fault(p)
  PROVE  Lines!ReadFault /\ InOrder'
<1> DEFINE n == reader[p].n
           s == Between(r, w)
<1>1. TypeOK /\ n \in Nat /\ r \in Idx /\ w \in Idx /\ s = Ahead
  BY DEF IInv, TypeOK, Idx, Ahead
<1>2. PICK k \in 0 .. Take(n) - 1 : /\ s[k + 1] # EOF /\ r' = Plus(r, k + 1)
                                    /\ given' = IF k = 0 THEN given ELSE SubSeq(s, 1, k)
  BY <1>1 DEF consoleread_fault
<1>3. UNCHANGED <<buf, w, e>>
  BY DEF consoleread_fault
<1>4. /\ Take(n) \in Nat /\ Take(n) <= Len(s) /\ Len(s) = Minus(w, r) /\ Len(s) \in Nat
      /\ s \in Seq(Stored) /\ \A i \in 1 .. Take(n) - 1 : s[i] \notin {NL, EOF}
  BY <1>1, Taken, TakenLine, Segment
<1>5. k + 1 \in 0 .. Minus(w, r) /\ k \in 0 .. Len(s) - 1 /\ k + 1 + 1 = k + 2
  BY <1>4
<1>6. \A i \in 1 .. k : s[i] \notin {NL, EOF}
  BY <1>4
<1>7. Between(r, w)' = SubSeq(s, k + 1 + 1, Len(s)) /\ Between(w, e)' = Between(w, e) /\ InOrder'
  BY <1>1, <1>2, <1>3, <1>5, Dropped
<1> HIDE DEF s
<1>8. Between(r, w)' = SubSeq(s, k + 2, Len(s))
  BY <1>5, <1>7
<1> QED
  BY <1>2, <1>5, <1>6, <1>7, <1>8 DEF Lines!ReadFault, s

\* A character is stored behind all others, and disturbs none of them.
LEMMA StoreRefines ==
  ASSUME TypeOK, InOrder, NEW c \in Stored, Minus(e, r) < INPUT_BUF_SIZE,
         buf' = [buf EXCEPT ![e % INPUT_BUF_SIZE] = c], e' = Plus(e, 1), r' = r, UNCHANGED given,
         IF Finished(c) THEN w' = e' ELSE w' = w
  PROVE  Lines!Type(c) /\ InOrder'
<1> DEFINE L == Minus(e, w)
           R == Minus(w, r)
           l == Between(w, e)
           s == Between(r, w)
<1>1. /\ r \in Idx /\ w \in Idx /\ e \in Idx /\ IdxMod \in Nat /\ INPUT_BUF_SIZE \in Nat \ {0}
      /\ INPUT_BUF_SIZE < IdxMod /\ 0 \in Idx /\ 1 \in Idx
  BY Constants DEF TypeOK, Idx
<1>2. /\ L \in Nat /\ R \in Nat /\ L \in Idx /\ R \in Idx /\ L + R < INPUT_BUF_SIZE
      /\ Minus(e, r) = L + R /\ R + L \in Idx
  <2>1. L \in Idx /\ R \in Idx
    BY <1>1, Indexes
  <2>2. L \in Nat /\ R \in Nat /\ R + L <= INPUT_BUF_SIZE
    BY <2>1 DEF Idx, InOrder
  <2>3. L + R < IdxMod
    BY <1>1, <2>2
  <2>4. Minus(e, r) = L + R
    BY <1>1, <2>3, Distances
  <2> QED
    BY <1>1, <2>1, <2>2, <2>4 DEF Idx
<1>3. /\ l \in Seq(Stored) /\ Len(l) = L /\ \A k \in 1 .. L : l[k] = buf[Place(w, k)]
      /\ s \in Seq(Stored) /\ Len(s) = R /\ \A k \in 1 .. R : s[k] = buf[Place(r, k)]
  BY <1>1, Segment
<1>4. e' \in Idx /\ Minus(e', w) = L + 1 /\ Minus(e', r) = R + L + 1
  <2>1. L + 1 < IdxMod /\ Minus(e, r) + 1 < IdxMod
    BY <1>1, <1>2
  <2>2. Minus(e', w) = L + 1 /\ Minus(e', r) = Minus(e, r) + 1
    BY <1>1, <2>1, Distances
  <2> QED
    BY <1>1, <1>2, <2>2, Indexes
<1>5. e % INPUT_BUF_SIZE = Place(w, L + 1) /\ e % INPUT_BUF_SIZE = Place(r, R + L + 1)
  <2>1. Plus(w, L) = e /\ Plus(r, R + L) = e /\ Plus(e, 0) = e
    BY <1>1, <1>2, Indexes
  <2>2. Place(e, 1) = e % INPUT_BUF_SIZE
    BY <2>1 DEF Place
  <2>3. 1 \in 1 .. IdxMod /\ L + 1 <= IdxMod /\ R + L + 1 <= IdxMod
    BY <1>1, <1>2
  <2>4. Place(Plus(w, L), 1) = Place(w, L + 1) /\ Place(Plus(r, R + L), 1) = Place(r, R + L + 1)
    BY <1>1, <1>2, <2>3, PlaceShift
  <2> QED
    BY <2>1, <2>2, <2>4
<1>6. \A k \in 1 .. L : Place(r, R + k) = Place(w, k)
  <2> SUFFICES ASSUME NEW k \in 1 .. L PROVE Place(r, R + k) = Place(w, k)
    OBVIOUS
  <2>1. Plus(r, R) = w /\ k \in 1 .. IdxMod /\ R + k <= IdxMod
    BY <1>1, <1>2, Indexes
  <2> QED
    BY <1>1, <1>2, <2>1, PlaceShift
<1>7. \A k \in 1 .. R + L : buf'[Place(r, k)] = buf[Place(r, k)]
  <2> SUFFICES ASSUME NEW k \in 1 .. R + L PROVE buf'[Place(r, k)] = buf[Place(r, k)]
    OBVIOUS
  <2>2. Place(r, k) # Place(r, R + L + 1) /\ Place(r, k) \in 0 .. INPUT_BUF_SIZE - 1
    <3> DEFINE m == R + L + 1
    <3>1. k \in 1 .. IdxMod /\ m \in 1 .. IdxMod /\ k < m /\ m - k < INPUT_BUF_SIZE
      BY <1>1, <1>2
    <3> HIDE DEF m
    <3>2. Place(r, k) # Place(r, m)
      BY <1>1, <3>1, PlaceApart
    <3>3. Place(r, k) \in 0 .. INPUT_BUF_SIZE - 1
      BY <1>1, <3>1, PlaceOf
    <3> QED
      BY <3>2, <3>3 DEF m
  <2> QED
    BY <1>5, <2>2 DEF TypeOK
<1>8. buf'[e % INPUT_BUF_SIZE] = c
  BY <1>1, Division DEF TypeOK, Idx
<1>9. \A k \in 1 .. R : buf'[Place(r, k)] = s[k]
  <2> SUFFICES ASSUME NEW k \in 1 .. R PROVE buf'[Place(r, k)] = s[k]
    OBVIOUS
  <2>1. k \in 1 .. R + L
    BY <1>2
  <2> QED
    BY <1>3, <1>7, <2>1
<1>10. \A k \in 1 .. L : buf'[Place(r, R + k)] = l[k]
  <2> SUFFICES ASSUME NEW k \in 1 .. L PROVE buf'[Place(r, R + k)] = l[k]
    OBVIOUS
  <2>1. R + k \in 1 .. R + L
    BY <1>2
  <2> QED
    BY <1>3, <1>6, <1>7, <2>1
<1>11. /\ Finished(c) <=> c \in {NL, EOF} \/ Len(s) + Len(l) = INPUT_BUF_SIZE - 1
       /\ Len(s) + Len(l) < INPUT_BUF_SIZE
  BY <1>1, <1>2, <1>3, <1>4 DEF Finished
<1>12. Append(l, c) \in Seq(Stored) /\ Len(Append(l, c)) = L + 1
       /\ \A k \in 1 .. L + 1 : Append(l, c)[k] = IF k = L + 1 THEN c ELSE l[k]
  <2> HIDE DEF l, L
  <2> QED
    BY <1>2, <1>3, AppendProperties
<1> HIDE DEF L, R, l, s
<1>13. CASE Finished(c)
  <2>1. w' = e'
    BY <1>13
  <2>2. Between(w, e)' = <<>>
    <3>1. Minus(e', w') = 0
      BY <1>4, <2>1, Indexes
    <3>2. Between(w, e)' = [k \in 1 .. Minus(e', w') |-> buf'[Place(w', k)]]
      BY DEF Between, Minus, Plus, Place
    <3> QED
      BY <3>1, <3>2
  <2> DEFINE t == s \o Append(l, c)
             u == Between(r, w)'
  <2>3. /\ t \in Seq(Stored) /\ Len(t) = R + (L + 1)
        /\ \A k \in 1 .. R + (L + 1) : t[k] = IF k <= R THEN s[k] ELSE Append(l, c)[k - R]
    <3> DEFINE a == Append(l, c)
    <3>1. a \in Seq(Stored) /\ Len(a) = L + 1 /\ s \in Seq(Stored) /\ Len(s) = R
      BY <1>3, <1>12
    <3> HIDE DEF a
    <3>2. /\ s \o a \in Seq(Stored) /\ Len(s \o a) = Len(s) + Len(a)
          /\ \A k \in 1 .. Len(s) + Len(a) : (s \o a)[k] = IF k <= Len(s) THEN s[k] ELSE a[k - Len(s)]
      BY <3>1, ConcatProperties
    <3> QED
      BY <3>1, <3>2 DEF a
  <2>4. u = [k \in 1 .. R + L + 1 |-> buf'[Place(r, k)]]
    <3>1. Between(r, w)' = [k \in 1 .. Minus(w', r') |-> buf'[Place(r', k)]]
      BY DEF Between, Minus, Plus, Place
    <3> QED
      BY <1>4, <2>1, <3>1
  <2>5. \A k \in 1 .. R + L + 1 : buf'[Place(r, k)] = t[k]
    <3> SUFFICES ASSUME NEW k \in 1 .. R + L + 1 PROVE buf'[Place(r, k)] = t[k]
      OBVIOUS
    <3> HIDE DEF t
    <3>1. k \in 1 .. R + (L + 1)
      BY <1>2
    <3>2. CASE k <= R
      <4>1. k \in 1 .. R
        BY <1>2, <3>2
      <4> QED
        BY <1>9, <2>3, <3>1, <4>1
    <3>3. CASE R < k /\ k < R + L + 1
      <4>1. k - R \in 1 .. L /\ R + (k - R) = k /\ k - R # L + 1 /\ k - R \in 1 .. L + 1 /\ ~(k <= R)
        BY <1>2, <3>3
      <4>2. buf'[Place(r, k)] = l[k - R]
        BY <1>10, <4>1
      <4> QED
        BY <1>12, <2>3, <3>1, <4>1, <4>2
    <3>4. CASE k = R + L + 1
      <4>1. k - R = L + 1 /\ ~(k <= R) /\ L + 1 \in 1 .. L + 1
        BY <1>2, <3>4
      <4>2. buf'[Place(r, k)] = c
        BY <1>5, <1>8, <3>4
      <4> QED
        BY <1>12, <2>3, <3>1, <4>1, <4>2
    <3> QED
      BY <1>2, <3>2, <3>3, <3>4
  <2>6. u = t
    <3>1. u = [k \in 1 .. R + L + 1 |-> t[k]]
      BY <2>4, <2>5
    <3>2. R + (L + 1) = R + L + 1
      BY <1>2
    <3> HIDE DEF t, u
    <3> QED
      BY <2>3, <3>1, <3>2
  <2>7. InOrder'
    <3>1. Minus(w, r)' = R + L + 1 /\ Minus(e, w)' = 0
      BY <1>4, <2>1, Indexes DEF Minus
    <3> QED
      BY <1>1, <1>2, <3>1 DEF InOrder
  <2> QED
    BY <1>11, <1>13, <2>2, <2>6, <2>7 DEF Lines!Type, Stored, s, l
<1>14. CASE ~Finished(c)
  <2>1. w' = w
    BY <1>14
  <2> DEFINE t == Append(l, c)
             u == Between(w, e)'
  <2>2. u = [k \in 1 .. L + 1 |-> buf'[Place(w, k)]]
    <3>1. Between(w, e)' = [k \in 1 .. Minus(e', w') |-> buf'[Place(w', k)]]
      BY DEF Between, Minus, Plus, Place
    <3> QED
      BY <1>4, <2>1, <3>1
  <2>3. \A k \in 1 .. L + 1 : buf'[Place(w, k)] = t[k]
    <3> SUFFICES ASSUME NEW k \in 1 .. L + 1 PROVE buf'[Place(w, k)] = t[k]
      OBVIOUS
    <3>1. CASE k = L + 1
      BY <1>5, <1>8, <1>12, <3>1
    <3>2. CASE k # L + 1
      <4>1. k \in 1 .. L
        BY <1>2, <3>2
      <4> QED
        BY <1>6, <1>10, <1>12, <3>2, <4>1
    <3> QED
      BY <3>1, <3>2
  <2>4. u = t
    <3>1. u = [k \in 1 .. L + 1 |-> t[k]]
      BY <2>2, <2>3
    <3>2. t \in Seq(Stored) /\ Len(t) = L + 1
      BY <1>12
    <3> HIDE DEF t, u
    <3> QED
      BY <3>1, <3>2
  <2>5. Between(r, w)' = s
    <3>1. Between(r, w)' = [k \in 1 .. Minus(w', r') |-> buf'[Place(r', k)]]
      BY DEF Between, Minus, Plus, Place
    <3>2. Between(r, w)' = [k \in 1 .. R |-> buf'[Place(r, k)]]
      BY <2>1, <3>1 DEF R
    <3>3. Between(r, w)' = [k \in 1 .. R |-> s[k]]
      BY <1>9, <3>2
    <3> QED
      BY <1>3, <3>3
  <2>6. InOrder'
    <3>1. Minus(w, r)' = R /\ Minus(e, w)' = L + 1
      BY <1>4, <2>1 DEF Minus, R
    <3> QED
      BY <1>1, <1>2, <3>1 DEF InOrder
  <2> QED
    BY <1>11, <1>14, <2>4, <2>5, <2>6 DEF Lines!Type, Stored, s, l
<1> QED
  BY <1>13, <1>14

LEMMA IntrRefines ==
  ASSUME IInv, InOrder, consoleintr
  PROVE  /\ \/ Lines!Edit \/ (\E c \in Char \cup {NL, EOF} : Lines!Type(c))
            \/ UNCHANGED <<Between(w, e), Between(r, w), given>>
         /\ InOrder'
<1> DEFINE c == Head(rx)
           L == Minus(e, w)
           l == Between(w, e)
           erased == IF c = KILL THEN L ELSE IF c = ERASE /\ e # w THEN 1 ELSE 0
           stored == c \notin {KILL, ERASE} /\ HasRoom
<1>1. /\ TypeOK /\ c \in Typed /\ UNCHANGED <<r, given>>
      /\ r \in Idx /\ w \in Idx /\ e \in Idx /\ 1 \in Idx /\ 0 \in Idx /\ IdxMod \in Nat
  BY Constants DEF consoleintr, IInv, TypeOK, Idx
<1>2. CASE stored
  <2>1. /\ buf' = [buf EXCEPT ![e % INPUT_BUF_SIZE] = c] /\ e' = Plus(e, 1)
        /\ IF Finished(c) THEN w' = e' ELSE w' = w
    BY <1>2 DEF consoleintr
  <2>2. c \in Stored /\ Minus(e, r) < INPUT_BUF_SIZE
    BY <1>1, <1>2 DEF Typed, Stored, HasRoom
  <2> HIDE DEF c
  <2>3. Lines!Type(c) /\ InOrder'
    BY <1>1, <2>1, <2>2, StoreRefines
  <2> QED
    BY <2>2, <2>3 DEF Stored
<1>3. CASE ~stored
  <2>1. e' = Minus(e, erased) /\ UNCHANGED <<buf, w>>
    BY <1>3 DEF consoleintr
  <2>2. /\ L \in Nat /\ L \in Idx /\ (L = 0 => e = w) /\ Minus(w, r) \in Nat
        /\ l \in Seq(Stored) /\ Len(l) = L /\ \A k \in 1 .. L : l[k] = buf[Place(w, k)]
    BY <1>1, Segment, Indexes
  <2>3. erased \in Idx /\ erased <= L /\ erased \in Nat /\ erased \in {0, 1, L}
    <3>1. e # w => L >= 1
      BY <2>2
    <3> HIDE DEF L, c
    <3> QED
      BY <1>1, <2>2, <3>1 DEF Idx
  <2> HIDE DEF erased, L, l
  <2>4. Minus(e', w) = L - erased
    BY <1>1, <2>1, <2>3, Distances DEF L
  <2>5. Between(r, w)' = Between(r, w)
    BY <1>1, <2>1 DEF Between, Minus, Plus
  <2>6. Between(w, e)' = SubSeq(l, 1, L - erased)
    <3>1. Between(w, e)' = [k \in 1 .. Minus(e', w') |-> buf'[Place(w', k)]]
      BY DEF Between, Minus, Plus, Place
    <3>2. Between(w, e)' = [k \in 1 .. L - erased |-> buf[Place(w, k)]]
      BY <2>1, <2>4, <3>1
    <3>3. \A k \in 1 .. L - erased : buf[Place(w, k)] = l[k]
      BY <2>2, <2>3
    <3>4. Between(w, e)' = [k \in 1 .. L - erased |-> l[k]]
      BY <3>2, <3>3
    <3>5. SubSeq(l, 1, L - erased) = [k \in 1 .. L - erased |-> l[k]]
      BY <2>2, <2>3
    <3> QED
      BY <3>4, <3>5
  <2>7. InOrder'
    <3>1. Minus(e, w)' = L - erased /\ Minus(w, r)' = Minus(w, r)
      BY <1>1, <2>1, <2>4 DEF Minus
    <3>2. Minus(w, r) + L <= INPUT_BUF_SIZE
      BY DEF InOrder, L
    <3> QED
      BY <2>2, <2>3, <3>1, <3>2, Constants DEF InOrder
  <2>8. CASE erased = 0
    <3>1. SubSeq(l, 1, L - erased) = l
      BY <2>2, <2>8
    <3> QED
      BY <1>1, <2>5, <2>6, <2>7, <3>1 DEF l
  <2>9. CASE erased # 0
    <3>1. l # <<>> /\ L > 0
      BY <2>2, <2>3, <2>9
    <3>2. Between(w, e)' \in {<<>>, SubSeq(l, 1, Len(l) - 1)}
      <4>1. CASE erased = 1
        BY <2>2, <2>6, <4>1
      <4>2. CASE erased = L
        <5>1. L - erased = 0
          BY <2>2, <4>2
        <5>2. SubSeq(l, 1, 0) = <<>>
          BY <2>2
        <5> QED
          BY <2>6, <5>1, <5>2
      <4> QED
        BY <2>3, <2>9, <4>1, <4>2
    <3> QED
      BY <1>1, <2>5, <2>7, <3>1, <3>2 DEF Lines!Edit, l
  <2> QED
    BY <2>8, <2>9
<1> QED
  BY <1>2, <1>3
-----------------------------------------------------------------------------
\* The circular buffer implements the line discipline: what consoleintr() stores
\* consoleread() gives once and in order, line by line, nothing waiting is
\* overwritten, and editing never reaches into a finished line.
THEOREM ConsoleIsLineDiscipline == Spec => IsLineDiscipline
<1>1. Init => Lines!Init /\ InOrder
  <2> SUFFICES ASSUME Init PROVE Lines!Init /\ InOrder
    OBVIOUS
  <2>1. r = w /\ w = e /\ r \in Idx /\ given = <<>>
    BY Constants DEF Init
  <2>2. Minus(w, r) = 0 /\ Minus(e, w) = 0
    BY <2>1, Indexes
  <2>3. Between(w, e) = <<>> /\ Between(r, w) = <<>>
    BY <2>2 DEF Between
  <2> QED
    BY <2>1, <2>2, <2>3, Constants DEF Lines!Init, InOrder
<1>2. IInv /\ InOrder /\ [Next]_vars =>
        [Lines!Next]_<<Between(w, e), Between(r, w), given>> /\ InOrder'
  <2> SUFFICES ASSUME IInv, InOrder, [Next]_vars
               PROVE  (Lines!Next \/ UNCHANGED <<Between(w, e), Between(r, w), given>>) /\ InOrder'
    BY Zenon
  <2>1. ASSUME UNCHANGED <<buf, r, w, e, given>>
        PROVE  UNCHANGED <<Between(w, e), Between(r, w), given>> /\ InOrder'
    BY <2>1 DEF Between, Minus, Plus, InOrder
  <2>2. ASSUME NEW p \in Reader, consoleread(p)
        PROVE  (Lines!Next \/ UNCHANGED <<Between(w, e), Between(r, w), given>>) /\ InOrder'
    BY <2>2, ReadRefines DEF Lines!Next
  <2>3. ASSUME NEW p \in Reader, consoleread_fault(p) PROVE Lines!Next /\ InOrder'
    BY <2>3, FaultRefines DEF Lines!Next
  <2>4. ASSUME consoleintr
        PROVE  (Lines!Next \/ UNCHANGED <<Between(w, e), Between(r, w), given>>) /\ InOrder'
    BY <2>4, IntrRefines DEF Lines!Next
  <2>5. ASSUME NEW p \in Reader, Sleep(p) \/ Kill(p) \/ \E n \in ReadSizes : ReadCall(p, n)
        PROVE  UNCHANGED <<buf, r, w, e, given>>
    BY <2>5 DEF Sleep, Kill, ReadCall, cons
  <2>6. ASSUME NEW p \in Writer, WriteCall(p) \/ uartwrite(p)
        PROVE  UNCHANGED <<buf, r, w, e, given>>
    BY <2>6 DEF WriteCall, uartwrite, cons
  <2>7. ASSUME NEW p \in Printer, PrintCall(p) \/ SyncWait(p) \/ SyncPut(p)
        PROVE  UNCHANGED <<buf, r, w, e, given>>
    BY <2>7 DEF PrintCall, SyncWait, SyncPut, cons
  <2>8. ASSUME \/ uartintr \/ uartintr_tx \/ EchoWait \/ EchoPut \/ uartintr_end \/ Transmit
               \/ \E c \in Typed : Keyboard(c)
        PROVE  UNCHANGED <<buf, r, w, e, given>>
    BY <2>8 DEF uartintr, uartintr_tx, EchoWait, EchoPut, uartintr_end, Transmit, Keyboard, cons
  <2>9. CASE UNCHANGED vars
    BY <2>1, <2>9 DEF vars
  <2>10. CASE Next
    BY <2>1, <2>2, <2>3, <2>4, <2>5, <2>6, <2>7, <2>8, <2>10 DEF Next, Intr, ReadStep, PrintStep
  <2> QED
    BY <2>9, <2>10
<1> QED
  BY <1>1, <1>2, ConsoleInvariant, PTL DEF Spec, IsLineDiscipline, Lines!Spec, Lines!vars
=============================================================================
