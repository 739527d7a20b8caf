----------------------------- MODULE LogProofs -----------------------------
(***************************************************************************)
(* What TLAPS proves of the ring of log entries and of the two that use    *)
(* it, the message log and the resource monitors of the driver: for every  *)
(* size of the ring and every length of the entries, and for any number of *)
(* sessions, of their processes and of readers.                            *)
(*                                                                         *)
(* First come lemmas about the ring.  The entries lie one behind the other *)
(* from the beginning of the oldest one on, wherever that is; what is      *)
(* written is read again; the loops that drop entries and look for the     *)
(* next one stop at entries, and after as many rounds as there are         *)
(* entries.                                                                *)
(***************************************************************************)
EXTENDS MessageLog, Session, SequenceTheorems, FiniteSetTheorems,
        WellFoundedInduction, TLAPS

-----------------------------------------------------------------------------
(* Induction, for sets of numbers                                          *)

LEMMA Least ==
    ASSUME NEW T \in SUBSET Nat, T # {}
    PROVE  \E m \in T : \A k \in T : m <= k
<1>1. PICK m \in T : \A k \in T : <<k, m>> \notin OpToRel(<, Nat)
  BY WFMin, NatLessThanWellFounded, Zenon
<1>2. \A k \in T : ~ (k < m)
  BY <1>1, Zenon DEF OpToRel
<1>3. m \in Nat /\ \A k \in T : k \in Nat
  OBVIOUS
<1>4. \A k \in T : m <= k
  BY <1>2, <1>3
<1> QED
  BY <1>4

(* What holds of 0 and passes on from each number to the next holds up to n. *)
LEMMA UpTo ==
    ASSUME NEW n \in Nat, NEW S, 0 \in S,
           \A k \in 0 .. n - 1 : k \in S => k + 1 \in S
    PROVE  \A k \in 0 .. n : k \in S
<1> SUFFICES ASSUME (0 .. n) \ S # {} PROVE FALSE
  OBVIOUS
<1>0. (0 .. n) \ S \in SUBSET Nat
  OBVIOUS
<1>1. PICK m \in (0 .. n) \ S : \A k \in (0 .. n) \ S : m <= k
  BY <1>0, Least
<1>2. m # 0 /\ m - 1 \in 0 .. n - 1 /\ m - 1 \in S
  BY <1>1
<1> QED
  BY <1>1, <1>2

-----------------------------------------------------------------------------
(* The rounds of a loop                                                    *)

(* There is only one way to go n rounds, and there is one.                 *)
Rounds(step, x, n, f) ==
    /\ DOMAIN f = 0 .. n
    /\ \A k \in 0 .. n : f[k] = IF k = 0 THEN x ELSE step[f[k - 1]]

LEMMA SomeRounds ==
    ASSUME NEW S, NEW step \in [S -> S], NEW x \in S, NEW n \in Nat
    PROVE  \E f \in [0 .. n -> S] : Rounds(step, x, n, f)
<1> DEFINE T == {m \in Nat : \E f \in [0 .. m -> S] : Rounds(step, x, m, f)}
<1>1. 0 \in T
  <2>1. [k \in 0 .. 0 |-> x] \in [0 .. 0 -> S]
    OBVIOUS
  <2>2. Rounds(step, x, 0, [k \in 0 .. 0 |-> x])
    BY DEF Rounds
  <2> QED
    BY <2>1, <2>2
<1>2. ASSUME NEW k \in 0 .. n - 1, k \in T PROVE k + 1 \in T
  <2>1. PICK f \in [0 .. k -> S] : Rounds(step, x, k, f)
    BY <1>2
  <2>2. PICK g : g = [j \in 0 .. k + 1 |-> IF j = k + 1 THEN step[f[k]] ELSE f[j]]
    OBVIOUS
  <2>3. g \in [0 .. k + 1 -> S]
    <3>1. f[k] \in S /\ step[f[k]] \in S
      OBVIOUS
    <3> QED
      BY <2>2, <3>1
  <2>4. Rounds(step, x, k + 1, g)
    <3>1. ASSUME NEW j \in 0 .. k PROVE g[j] = f[j]
      BY <2>2
    <3>2. g[k + 1] = step[f[k]]
      BY <2>2
    <3>3. ASSUME NEW j \in 0 .. k + 1
          PROVE  g[j] = IF j = 0 THEN x ELSE step[g[j - 1]]
      <4>1. CASE j = k + 1
        BY <3>1, <3>2, <4>1
      <4>2. CASE j \in 0 .. k
        <5>1. j # 0 => j - 1 \in 0 .. k
          BY <4>2
        <5> QED
          BY <2>1, <3>1, <4>2, <5>1 DEF Rounds
      <4> QED
        BY <4>1, <4>2
    <3> QED
      BY <2>3, <3>3 DEF Rounds
  <2> QED
    BY <2>3, <2>4
<1> HIDE DEF T
<1>3. n \in T
  BY <1>1, <1>2, UpTo
<1> QED
  BY <1>3 DEF T

Steps(step, x, n, f) ==
    f[0] = x /\ \A k \in 0 .. n - 1 : f[k + 1] = step[f[k]]

LEMMA IterateRounds ==
    ASSUME NEW S, NEW step \in [S -> S], NEW x \in S, NEW n \in Nat
    PROVE  /\ Iterate(step, x, n) \in [0 .. n -> S]
           /\ Steps(step, x, n, Iterate(step, x, n))
<1> DEFINE it == Iterate(step, x, n)
<1>1. PICK f \in [0 .. n -> S] : Rounds(step, x, n, f)
  BY SomeRounds
<1>2. f = [k \in 0 .. n |-> IF k = 0 THEN x ELSE step[f[k - 1]]]
  BY <1>1 DEF Rounds
<1>3. it = [k \in 0 .. n |-> IF k = 0 THEN x ELSE step[it[k - 1]]]
  BY <1>2 DEF Iterate
<1> HIDE DEF it
<1>4. it[0] = x
  BY <1>3
<1>5. \A k \in 0 .. n - 1 : it[k + 1] = step[it[k]]
  BY <1>3
<1>6. \A k \in 0 .. n : it[k] \in S
  <2> DEFINE T == {k \in 0 .. n : it[k] \in S}
  <2>1. 0 \in T
    BY <1>4
  <2>2. \A k \in 0 .. n - 1 : k \in T => k + 1 \in T
    BY <1>5
  <2> HIDE DEF T
  <2>3. \A k \in 0 .. n : k \in T
    BY <2>1, <2>2, UpTo
  <2> QED
    BY <2>3 DEF T
<1> QED
  BY <1>3, <1>4, <1>5, <1>6 DEF it, Steps

-----------------------------------------------------------------------------
(* Pointers                                                                *)

LEMMA ModSame ==
    ASSUME NEW n \in Nat, n > 0, NEW a \in Int, NEW b \in Int, NEW i \in Int,
           a % n = b % n
    PROVE  (a + i) % n = (b + i) % n
<1> DEFINE q == a \div n
           p == b \div n
           r == a % n
           u == (r + i) \div n
           v == (r + i) % n
<1>1. /\ q \in Int /\ p \in Int /\ r \in 0 .. n - 1
      /\ a = q * n + r /\ b = p * n + r
  OBVIOUS
<1>2. u \in Int /\ v \in 0 .. n - 1 /\ r + i = u * n + v
  BY <1>1
<1> HIDE DEF q, p, r, u, v
<1>3. /\ q * n \in Int /\ p * n \in Int /\ u * n \in Int
      /\ (q + u) * n = q * n + u * n /\ (p + u) * n = p * n + u * n
  BY <1>1, <1>2
<1>4. a + i = (q + u) * n + v /\ b + i = (p + u) * n + v
  BY <1>1, <1>2, <1>3
<1>5. ((q + u) * n + v) % n = v /\ ((p + u) * n + v) % n = v
  BY <1>1, <1>2
<1> QED
  BY <1>4, <1>5

LEMMA ModMod ==
    ASSUME NEW n \in Nat, n > 0, NEW a \in Int
    PROVE  (a % n) % n = a % n /\ a % n \in 0 .. n - 1
<1>1. a % n \in 0 .. n - 1
  OBVIOUS
<1>2. ASSUME NEW r \in 0 .. n - 1 PROVE r % n = r
  OBVIOUS
<1> QED
  BY <1>1, <1>2

(* An entry takes six cells at least. *)
LEMMA EntriesFit ==
    /\ MostEntries \in Nat
    /\ \A n \in Nat : 6 * n <= BufferSize => n <= MostEntries
<1>1. TotalSize(0) = 6 /\ BufferSize \in Nat
  BY RingAssumption DEF TotalSize, Ulong
<1>2. PICK m : m = BufferSize \div 6
  OBVIOUS
<1>3. m \in Nat /\ BufferSize < 6 * m + 6
  BY <1>1, <1>2
<1>4. MostEntries = m
  BY <1>1, <1>2 DEF MostEntries
<1>5. ASSUME NEW n \in Nat, 6 * n <= BufferSize PROVE n <= m
  BY <1>1, <1>3, <1>5
<1> QED
  BY <1>3, <1>4, <1>5

LEMMA RingSize == BufferSize \in Nat /\ BufferSize > 0 /\ Base \in Nat /\ Base > 1
BY RingAssumption

(* The cell of the ring that is meant by a pointer.                        *)
Place(p) == p % BufferSize

LEMMA PlaceType == \A p \in Int : Place(p) \in 0 .. BufferSize - 1 /\ Place(p) \in Int
BY RingSize, ModMod DEF Place

LEMMA InRing == \A p \in 0 .. BufferSize - 1 : Place(p) = p
BY RingSize DEF Place

LEMMA OneRound ==
    \A p \in Int : Place(p + BufferSize) = Place(p) /\ Place(p - BufferSize) = Place(p)
<1> SUFFICES ASSUME NEW p \in Int
             PROVE  Place(p + BufferSize) = Place(p) /\ Place(p - BufferSize) = Place(p)
  OBVIOUS
<1> DEFINE n == BufferSize
           q == p \div n
           r == p % n
<1>1. n \in Nat /\ n > 0
  BY RingSize
<1> HIDE DEF n
<1>2. q \in Int /\ r \in 0 .. n - 1 /\ p = q * n + r
  BY <1>1
<1> HIDE DEF q, r
<1>3. q * n \in Int /\ (q + 1) * n = q * n + n /\ (q - 1) * n = q * n - n
  BY <1>1, <1>2
<1>4. p + n = (q + 1) * n + r /\ p - n = (q - 1) * n + r
  BY <1>1, <1>2, <1>3
<1>5. ((q + 1) * n + r) % n = r /\ ((q - 1) * n + r) % n = r
  BY <1>1, <1>2
<1>6. Place(p + n) = r /\ Place(p - n) = r
  BY <1>4, <1>5 DEF Place, n
<1> QED
  BY <1>6 DEF Place, r, n

LEMMA SameMod ==
    ASSUME NEW a \in Int, NEW b \in Int, NEW i \in Int, Place(a) = Place(b)
    PROVE  (a + i) % BufferSize = (b + i) % BufferSize
<1>1. a % BufferSize = b % BufferSize
  BY DEF Place
<1>2. BufferSize \in Nat /\ BufferSize > 0
  BY RingSize
<1> QED
  BY <1>1, <1>2, ModSame, Zenon

(* What is as far from the same cell is the same cell.                     *)
LEMMA SamePlace ==
    ASSUME NEW a \in Int, NEW b \in Int, NEW c \in Int, NEW d \in Int,
           Place(a) = Place(b), c - a = d - b
    PROVE  Place(c) = Place(d)
<1>1. PICK i \in Int : i = c - a
  OBVIOUS
<1>2. c = a + i /\ d = b + i
  BY <1>1
<1>3. (a + i) % BufferSize = (b + i) % BufferSize
  BY SameMod, Zenon
<1> QED
  BY <1>2, <1>3 DEF Place

LEMMA Backwards ==
    ASSUME NEW a \in Int, NEW b \in Int, NEW c \in Int, Place(a) = Place(b)
    PROVE  Place(c - a) = Place(c - b)
<1>1. PICK i \in Int : i = c - a - b
  OBVIOUS
<1>2. (a + i) % BufferSize = (b + i) % BufferSize
  BY <1>1, SameMod, Zenon
<1>3. a + i = c - b /\ b + i = c - a
  BY <1>1
<1> QED
  BY <1>2, <1>3 DEF Place

(* A pointer that is off by at most one round.                             *)
Pointer == - BufferSize .. 2 * BufferSize - 1

LEMMA Corrected ==
    ASSUME NEW p \in Pointer
    PROVE  ByteAt(p) = Place(p) /\ ByteAt(p) \in 0 .. BufferSize - 1 /\ p \in Int
<1> USE RingSize
<1>1. p \in Int /\ p >= - BufferSize /\ p < 2 * BufferSize
  BY DEF Pointer
<1>2. CASE p >= BufferSize
  <2>1. ByteAt(p) = p - BufferSize /\ p - BufferSize \in 0 .. BufferSize - 1
    BY <1>1, <1>2 DEF ByteAt
  <2> QED
    BY <1>1, <2>1, InRing, OneRound
<1>3. CASE p < 0
  <2>1. ByteAt(p) = p + BufferSize /\ p + BufferSize \in 0 .. BufferSize - 1
    BY <1>1, <1>3 DEF ByteAt
  <2> QED
    BY <1>1, <2>1, InRing, OneRound
<1>4. CASE p \in 0 .. BufferSize - 1
  <2>1. ByteAt(p) = p
    BY <1>1, <1>4 DEF ByteAt
  <2> QED
    BY <1>1, <1>4, <2>1, InRing
<1> QED
  BY <1>1, <1>2, <1>3, <1>4

LEMMA NthByte ==
    ASSUME NEW p \in Pointer, NEW i \in Nat, i > 0
    PROVE  /\ Nth(p, i) = Place(p + (i - 1))
           /\ Nth(p, i) \in 0 .. BufferSize - 1
<1>1. /\ ByteAt(p) \in Int /\ p \in Int /\ p + (i - 1) \in Int
      /\ ByteAt(p) + i - 1 \in Int
  BY RingSize, Corrected
<1>2. Place(ByteAt(p)) = Place(p)
  BY Corrected, InRing
<1>3. Place(ByteAt(p) + i - 1) = Place(p + (i - 1))
  BY <1>1, <1>2, SamePlace
<1>4. Nth(p, i) = Place(ByteAt(p) + i - 1)
  BY DEF Nth, Place
<1> QED
  BY <1>1, <1>3, <1>4, PlaceType

LEMMA BehindBytes ==
    ASSUME NEW p \in Pointer, NEW k \in Nat, k > 0
    PROVE  /\ Behind(p, k) \in 1 .. BufferSize /\ Behind(p, k) \in Pointer
           /\ Place(Behind(p, k)) = Place(p + k)
<1>1. /\ Nth(p, k) = Place(p + (k - 1)) /\ Nth(p, k) \in 0 .. BufferSize - 1
      /\ p \in Int /\ p + (k - 1) \in Int /\ p + k \in Int
  BY NthByte, Corrected
<1>2. Behind(p, k) = Nth(p, k) + 1
  BY DEF Behind
<1>3. Place(Nth(p, k)) = Place(p + (k - 1)) /\ Nth(p, k) \in Int
  BY <1>1, InRing
<1>4. Place(Nth(p, k) + 1) = Place(p + k)
  BY <1>1, <1>3, SamePlace
<1> QED
  BY RingSize, <1>1, <1>2, <1>4 DEF Pointer

-----------------------------------------------------------------------------
(* Reading and writing cells                                               *)

(* The cell at a distance from the beginning of the oldest entry.          *)
At(ring, o) == ring.buffer_data[Place(ring.buffer_start_ptr + o)]

(* A pointer means the cell at a distance.                                 *)
Means(ring, p, o) ==
    p \in Pointer /\ o \in Int /\ Place(p) = Place(ring.buffer_start_ptr + o)

LEMMA RingShape ==
    ASSUME NEW ring \in Ring
    PROVE  /\ ring.seq_counter \in 0 .. Limit - 1
           /\ ring.buffer_used \in 0 .. BufferSize
           /\ ring.buffer_start_ptr \in 0 .. BufferSize - 1
           /\ ring.buffer_start_ptr \in Int
           /\ ring.buffer_data \in [0 .. BufferSize - 1 -> Cell]
           /\ ring.buffer_data \in [0 .. BufferSize - 1 -> Int]
           /\ ring \in AnyRing
<1>1. Cell \subseteq Int
  BY RingSize DEF Cell
<1>2. /\ ring.seq_counter \in 0 .. Limit - 1
      /\ ring.buffer_used \in 0 .. BufferSize
      /\ ring.buffer_start_ptr \in 0 .. BufferSize - 1
      /\ ring.buffer_data \in [0 .. BufferSize - 1 -> Cell]
  BY DEF Ring
<1>3. ring.buffer_data \in [0 .. BufferSize - 1 -> Int]
  BY <1>1, <1>2
<1>4. ring.seq_counter \in Int /\ ring.buffer_used \in Int /\ ring.buffer_start_ptr \in Int
  BY <1>2, RingSize
<1>5. ring \in AnyRing
  BY <1>3, <1>4 DEF Ring, AnyRing
<1> QED
  BY <1>2, <1>3, <1>4, <1>5

LEMMA AtCell ==
    ASSUME NEW ring \in Ring, NEW o \in Int
    PROVE  At(ring, o) \in Cell
<1>1. Place(ring.buffer_start_ptr + o) \in 0 .. BufferSize - 1
  BY RingShape, PlaceType
<1> QED
  BY <1>1, RingShape DEF At

LEMMA StartMeans ==
    ASSUME NEW ring \in Ring
    PROVE  Means(ring, ring.buffer_start_ptr, 0)
<1>1. ring.buffer_start_ptr \in Pointer /\ ring.buffer_start_ptr + 0 = ring.buffer_start_ptr
  BY RingShape, RingSize DEF Pointer
<1> QED
  BY <1>1 DEF Means

(* A pointer that is moved, by arithmetic or by reading.                   *)
LEMMA MovedMeans ==
    ASSUME NEW ring \in Ring, NEW p, NEW o, Means(ring, p, o), NEW k \in Int,
           p + k \in Pointer
    PROVE  Means(ring, p + k, o + k)
<1>1. p \in Int /\ p + k \in Int /\ ring.buffer_start_ptr + o \in Int
      /\ ring.buffer_start_ptr + (o + k) \in Int /\ o + k \in Int
  BY Corrected, RingShape DEF Means
<1>2. (p + k) - p = (ring.buffer_start_ptr + (o + k)) - (ring.buffer_start_ptr + o)
  BY RingShape, <1>1 DEF Means
<1>3. Place(p + k) = Place(ring.buffer_start_ptr + (o + k))
  BY <1>1, <1>2, SamePlace DEF Means
<1> QED
  BY <1>1, <1>3 DEF Means

LEMMA BehindMeans ==
    ASSUME NEW ring \in Ring, NEW p, NEW o, Means(ring, p, o), NEW k \in Nat, k > 0
    PROVE  Means(ring, Behind(p, k), o + k) /\ Behind(p, k) \in 1 .. BufferSize
<1>1. p \in Int /\ p + k \in Int /\ ring.buffer_start_ptr + o \in Int
      /\ ring.buffer_start_ptr + (o + k) \in Int /\ o + k \in Int
  BY Corrected, RingShape DEF Means
<1>2. (p + k) - p = (ring.buffer_start_ptr + (o + k)) - (ring.buffer_start_ptr + o)
  BY RingShape, <1>1 DEF Means
<1>3. Place(p + k) = Place(ring.buffer_start_ptr + (o + k))
  BY <1>1, <1>2, SamePlace DEF Means
<1> QED
  BY <1>1, <1>3, BehindBytes DEF Means

LEMMA NthMeans ==
    ASSUME NEW ring \in Ring, NEW p, NEW o, Means(ring, p, o), NEW i \in Nat, i > 0
    PROVE  ring.buffer_data[Nth(p, i)] = At(ring, o + (i - 1))
<1>1. p \in Int /\ p + (i - 1) \in Int /\ ring.buffer_start_ptr + o \in Int
      /\ ring.buffer_start_ptr + (o + (i - 1)) \in Int
  BY Corrected, RingShape DEF Means
<1>2. (p + (i - 1)) - p = (ring.buffer_start_ptr + (o + (i - 1))) - (ring.buffer_start_ptr + o)
  BY RingShape, <1>1 DEF Means
<1>3. Place(p + (i - 1)) = Place(ring.buffer_start_ptr + (o + (i - 1)))
  BY <1>1, <1>2, SamePlace DEF Means
<1> QED
  BY <1>3, NthByte DEF Means, At

LEMMA BytesMeant ==
    ASSUME NEW ring \in Ring, NEW p, NEW o, Means(ring, p, o), NEW k \in Nat
    PROVE  /\ DOMAIN GetBytes(ring, p, k) = 1 .. k
           /\ \A i \in 1 .. k : GetBytes(ring, p, k)[i] = At(ring, o + (i - 1))
<1>1. \A i \in 1 .. k : ring.buffer_data[Nth(p, i)] = At(ring, o + (i - 1))
  BY NthMeans
<1> QED
  BY <1>1 DEF GetBytes

(* A number that is stored in two cells.                                   *)
Stores(ring, o, n) == At(ring, o) = n % Base /\ At(ring, o + 1) = n \div Base

LEMMA Digits ==
    ASSUME NEW n \in 0 .. Limit - 1
    PROVE  /\ n % Base \in Cell /\ n \div Base \in Cell
           /\ (n % Base) + Base * (n \div Base) = n
<1> DEFINE b == Base
           q == n \div b
           r == n % b
<1>1. b \in Nat /\ b > 1 /\ n \in Nat /\ n < b * b
  BY RingSize DEF Limit
<1> HIDE DEF b
<1>2. q \in Int /\ r \in 0 .. b - 1 /\ n = q * b + r
  BY <1>1
<1> HIDE DEF q, r
<1>3. q >= 0
  <2>1. CASE q <= -1
    <3>1. (q + 1) * b <= 0
      BY <1>1, <1>2, <2>1
    <3>2. q * b + b <= 0 /\ q * b \in Int
      BY <1>1, <1>2, <3>1
    <3> QED
      BY <1>1, <1>2, <3>2
  <2> QED
    BY <1>2, <2>1
<1>4. q < b
  <2>1. CASE q >= b
    <3>1. (q - b) * b >= 0
      BY <1>1, <1>2, <2>1
    <3>2. q * b - b * b >= 0 /\ q * b \in Int /\ b * b \in Int
      BY <1>1, <1>2, <3>1
    <3> QED
      BY <1>1, <1>2, <3>2
  <2> QED
    BY <1>1, <1>2, <2>1
<1>5. r \in 0 .. b - 1 /\ q \in 0 .. b - 1 /\ r + b * q = n
  BY <1>1, <1>2, <1>3, <1>4
<1> QED
  BY <1>5 DEF q, r, b, Cell

LEMMA UlongRead ==
    ASSUME NEW ring \in Ring, NEW p, NEW o, Means(ring, p, o),
           NEW n \in 0 .. Limit - 1, Stores(ring, o, n)
    PROVE  GetUlong(ring, p) = n
<1>1. \A i \in 1 .. Ulong : GetBytes(ring, p, Ulong)[i] = At(ring, o + (i - 1))
  BY BytesMeant DEF Ulong
<1>2. o + (1 - 1) = o /\ o + (2 - 1) = o + 1
  BY DEF Means
<1>3. GetBytes(ring, p, Ulong)[1] = n % Base /\ GetBytes(ring, p, Ulong)[2] = n \div Base
  BY <1>1, <1>2 DEF Stores, Ulong
<1> QED
  BY <1>3, Digits DEF GetUlong, FromBytes

(* Writing: the cells from a distance on hold the bytes, no other cell     *)
(* changes.                                                                *)
LEMMA Written ==
    ASSUME NEW ring \in Ring, NEW p, NEW o \in 0 .. BufferSize - 1, Means(ring, p, o),
           NEW bytes \in Seq(Cell), o + Len(bytes) <= BufferSize
    PROVE  /\ PushBytes(ring, p, bytes) \in Ring
           /\ PushBytes(ring, p, bytes).seq_counter = ring.seq_counter
           /\ PushBytes(ring, p, bytes).buffer_used = ring.buffer_used
           /\ PushBytes(ring, p, bytes).buffer_start_ptr = ring.buffer_start_ptr
           /\ \A x \in 0 .. BufferSize - 1 :
                 At(PushBytes(ring, p, bytes), x) =
                    IF x \in o .. o + Len(bytes) - 1 THEN bytes[x - o + 1] ELSE At(ring, x)
<1> DEFINE at(q) == ((q - ByteAt(p)) % BufferSize) + 1
           new == [q \in 0 .. BufferSize - 1 |->
                     IF at(q) \in DOMAIN bytes THEN bytes[at(q)] ELSE ring.buffer_data[q]]
           out == PushBytes(ring, p, bytes)
           start == ring.buffer_start_ptr
<1>1. /\ DOMAIN ring.buffer_data = 0 .. BufferSize - 1 /\ start \in Int
      /\ ring.buffer_data \in [0 .. BufferSize - 1 -> Cell]
  BY RingShape
<1>2. out = [ring EXCEPT !.buffer_data = new]
  BY <1>1 DEF PushBytes
<1>3. new \in [0 .. BufferSize - 1 -> Cell]
  <2>1. \A q \in 0 .. BufferSize - 1 :
          (IF at(q) \in DOMAIN bytes THEN bytes[at(q)] ELSE ring.buffer_data[q]) \in Cell
    <3>1. \A i \in DOMAIN bytes : bytes[i] \in Cell
      OBVIOUS
    <3> HIDE DEF at
    <3> QED
      BY <1>1, <3>1
  <2> QED
    BY <2>1
<1>4. /\ out \in Ring /\ out.seq_counter = ring.seq_counter
      /\ out.buffer_used = ring.buffer_used /\ out.buffer_start_ptr = start
      /\ out.buffer_data = new
  <2> HIDE DEF new, out
  <2> QED
    BY <1>2, <1>3 DEF Ring
<1>5. ASSUME NEW x \in 0 .. BufferSize - 1
      PROVE  At(out, x) = IF x \in o .. o + Len(bytes) - 1 THEN bytes[x - o + 1]
                          ELSE At(ring, x)
  <2> DEFINE q == Place(start + x)
  <2>0. x \in Int /\ o \in Int /\ start + x \in Int
    BY <1>1, RingSize
  <2>1. q \in 0 .. BufferSize - 1 /\ q \in Int /\ x \in Int /\ o \in Int /\ start + x \in Int
    BY <2>0, PlaceType
  <2>2. At(out, x) = new[q] /\ At(ring, x) = ring.buffer_data[q]
    <3> HIDE DEF new, out
    <3> QED
      BY <1>4 DEF At
  <2>3. at(q) = Place(x - o) + 1
    <3>1. /\ ByteAt(p) \in Int /\ Place(ByteAt(p)) = Place(start + o)
          /\ start + o \in Int
      BY <1>1, <2>1, Corrected, InRing DEF Means
    <3>2. Place(q) = Place(start + x)
      BY <2>1, InRing
    <3> DEFINE b == ByteAt(p)
    <3> HIDE DEF q, b
    <3>3. Place(q - b) = Place((start + x) - b)
      <4>1. q - b \in Int /\ (start + x) - b \in Int
            /\ (q - b) - q = ((start + x) - b) - (start + x)
        BY <2>1, <3>1 DEF b
      <4> QED
        BY <2>1, <3>2, <4>1, SamePlace
    <3>4. Place((start + x) - b) = Place((start + x) - (start + o))
      <4>1. b \in Int /\ Place(b) = Place(start + o)
        BY <3>1 DEF b
      <4> QED
        BY <2>1, <3>1, <4>1, Backwards
    <3>5. (start + x) - (start + o) = x - o
      BY <1>1, <2>1
    <3> QED
      BY <3>3, <3>4, <3>5 DEF Place, b
  <2>4. Place(x - o) = IF x >= o THEN x - o ELSE x - o + BufferSize
    <3>1. CASE x >= o
      <4>1. x - o \in 0 .. BufferSize - 1
        BY RingSize, <3>1
      <4> QED
        BY <3>1, <4>1, InRing
    <3>2. CASE x < o
      <4>1. x - o + BufferSize \in 0 .. BufferSize - 1 /\ x - o \in Int
        BY RingSize, <3>2
      <4>2. Place(x - o) = x - o + BufferSize
        BY <4>1, InRing, OneRound
      <4> QED
        BY <2>1, <3>2, <4>2
    <3> QED
      BY <2>1, <3>1, <3>2
  <2>5. DOMAIN bytes = 1 .. Len(bytes) /\ Len(bytes) \in Nat
    OBVIOUS
  <2>6. at(q) \in DOMAIN bytes <=> x \in o .. o + Len(bytes) - 1
    <3> HIDE DEF q, at
    <3> QED
      BY RingSize, <2>1, <2>3, <2>4, <2>5
  <2>7. x \in o .. o + Len(bytes) - 1 => at(q) = x - o + 1
    <3> HIDE DEF q, at
    <3> QED
      BY RingSize, <2>1, <2>3, <2>4, <2>5
  <2>8. new[q] = IF at(q) \in DOMAIN bytes THEN bytes[at(q)] ELSE ring.buffer_data[q]
    <3> HIDE DEF q
    <3> QED
      BY <2>1
  <2> HIDE DEF q, at, new, out
  <2> QED
    BY <2>2, <2>6, <2>7, <2>8
<1> HIDE DEF new, at
<1> QED
  BY <1>4, <1>5

-----------------------------------------------------------------------------
(* Entries                                                                 *)

Entry == [number : 0 .. Limit - 1, data : Seq(Cell)]
Fit   == {e \in Entry : Len(e.data) < Limit}

SizeOf(e) == TotalSize(Len(e.data))

(* An entry lies at a distance from the beginning of the oldest one.       *)
Lies(ring, o, e) ==
    /\ Stores(ring, o, Len(e.data))
    /\ Stores(ring, o + 2, e.number)
    /\ \A i \in 1 .. Len(e.data) : At(ring, o + 3 + i) = e.data[i]
    /\ Stores(ring, o + 4 + Len(e.data), Len(e.data))

(* The entries that lie in the ring, oldest first, and where each ends.    *)
Laid(ring, es, off) ==
    /\ es \in Seq(Fit)
    /\ off \in [0 .. Len(es) -> 0 .. BufferSize]
    /\ off[0] = 0 /\ off[Len(es)] = ring.buffer_used
    /\ \A i \in 1 .. Len(es) :
          off[i] = off[i - 1] + SizeOf(es[i]) /\ Lies(ring, off[i - 1], es[i])

Holds(ring, es) == \E off \in [0 .. Len(es) -> 0 .. BufferSize] : Laid(ring, es, off)

LEMMA FitEntry ==
    ASSUME NEW e \in Fit
    PROVE  /\ e.number \in 0 .. Limit - 1 /\ e.data \in Seq(Cell)
           /\ Len(e.data) \in 0 .. Limit - 1 /\ Len(e.data) \in Nat
           /\ SizeOf(e) = Len(e.data) + 6 /\ SizeOf(e) \in Nat
<1>1. e.number \in 0 .. Limit - 1 /\ e.data \in Seq(Cell) /\ Len(e.data) < Limit
  BY DEF Fit, Entry
<1>2. Len(e.data) \in Nat
  BY <1>1
<1>3. Limit \in Int
  BY RingSize DEF Limit
<1> QED
  BY <1>1, <1>2, <1>3 DEF SizeOf, TotalSize, Ulong

(* The entries lie one behind the other, within what is used.              *)
LEMMA Bounds ==
    ASSUME NEW ring \in Ring, NEW es, NEW off, Laid(ring, es, off)
    PROVE  /\ Len(es) \in Nat
           /\ \A i \in 0 .. Len(es) : off[i] \in 0 .. ring.buffer_used
           /\ \A i \in 0 .. Len(es) : i <= off[i] /\ 6 * i <= off[i]
           /\ \A i, j \in 0 .. Len(es) : i < j => off[i] + 6 <= off[j]
           /\ \A i \in 1 .. Len(es) :
                 /\ i - 1 \in 0 .. Len(es) /\ es[i] \in Fit
                 /\ off[i - 1] \in Nat /\ off[i] = off[i - 1] + SizeOf(es[i])
<1> DEFINE n == Len(es)
<1>0. /\ n \in Nat /\ off \in [0 .. n -> 0 .. BufferSize] /\ off[n] = ring.buffer_used
      /\ off[0] = 0 /\ BufferSize \in Nat
  BY RingSize DEF Laid
<1>1. ASSUME NEW i \in 1 .. n
      PROVE  /\ i - 1 \in 0 .. n /\ es[i] \in Fit /\ off[i - 1] \in Nat /\ off[i] \in Nat
             /\ off[i] = off[i - 1] + SizeOf(es[i]) /\ off[i - 1] + 6 <= off[i]
  <2>1. i - 1 \in 0 .. n /\ es[i] \in Fit /\ i \in 0 .. n
    BY <1>0 DEF Laid
  <2>2. off[i] = off[i - 1] + SizeOf(es[i]) /\ off[i - 1] \in Nat /\ off[i] \in Nat
    BY <1>0, <2>1 DEF Laid
  <2>3. SizeOf(es[i]) = Len(es[i].data) + 6 /\ Len(es[i].data) \in Nat
    BY <2>1, FitEntry
  <2> QED
    BY <2>1, <2>2, <2>3
<1>2. \A i \in 0 .. n : i <= off[i] /\ 6 * i <= off[i]
  <2> DEFINE T == {i \in 0 .. n : i <= off[i] /\ 6 * i <= off[i]}
  <2>1. 0 \in T
    BY <1>0
  <2>2. ASSUME NEW k \in 0 .. n - 1, k \in T PROVE k + 1 \in T
    <3>1. k + 1 \in 1 .. n /\ (k + 1) - 1 = k
      BY <1>0
    <3>2. off[k] + 6 <= off[k + 1] /\ off[k] \in Nat /\ off[k + 1] \in Nat
      BY <1>1, <3>1
    <3> QED
      BY <2>2, <3>1, <3>2
  <2> HIDE DEF T
  <2>3. \A i \in 0 .. n : i \in T
    BY <1>0, <2>1, <2>2, UpTo
  <2> QED
    BY <2>3 DEF T
<1>3. ASSUME NEW i \in 0 .. n
      PROVE  \A j \in 0 .. n : i < j => off[i] + 6 <= off[j]
  <2> DEFINE T == {j \in 0 .. n : i < j => off[i] + 6 <= off[j]}
  <2>1. 0 \in T
    BY <1>0
  <2>2. ASSUME NEW k \in 0 .. n - 1, k \in T PROVE k + 1 \in T
    <3>1. k + 1 \in 1 .. n /\ (k + 1) - 1 = k /\ k \in 0 .. n
      BY <1>0
    <3>2. off[k] + 6 <= off[k + 1] /\ off[k] \in Nat /\ off[k + 1] \in Nat /\ off[i] \in Nat
      BY <1>0, <1>1, <3>1
    <3>3. i < k + 1 => i = k \/ i < k
      BY <1>3, <3>1
    <3>4. i < k => off[i] + 6 <= off[k]
      BY <2>2
    <3> QED
      BY <3>1, <3>2, <3>3, <3>4
  <2> HIDE DEF T
  <2>3. \A j \in 0 .. n : j \in T
    BY <1>0, <2>1, <2>2, UpTo
  <2> QED
    BY <2>3 DEF T
<1>4. ASSUME NEW i \in 0 .. n PROVE off[i] \in 0 .. ring.buffer_used
  <2>1. i = n \/ i < n
    BY <1>0, <1>4
  <2>2. off[i] \in Nat /\ off[n] \in Nat /\ n \in 0 .. n
    BY <1>0
  <2>3. i < n => off[i] + 6 <= off[n]
    BY <1>3, <2>2
  <2> QED
    BY <1>0, <2>1, <2>2, <2>3
<1> QED
  BY <1>0, <1>1, <1>2, <1>3, <1>4

LEMMA FewEntries ==
    ASSUME NEW ring \in Ring, NEW es, NEW off, Laid(ring, es, off)
    PROVE  Len(es) \in Nat /\ Len(es) <= MostEntries
<1>1. Len(es) \in Nat /\ Len(es) \in 0 .. Len(es)
  BY Bounds
<1>2. 6 * Len(es) <= off[Len(es)] /\ off[Len(es)] \in 0 .. ring.buffer_used
  BY <1>1, Bounds
<1>3. ring.buffer_used \in 0 .. BufferSize
  BY RingShape
<1> QED
  BY <1>1, <1>2, <1>3, RingSize, EntriesFit

(* Where an entry lies, its numbers can be read.                           *)
LEMMA EntryRead ==
    ASSUME NEW ring \in Ring, NEW e \in Fit, NEW o \in Nat, Lies(ring, o, e),
           NEW p, Means(ring, p, o)
    PROVE  /\ SizeAt(ring, p) = Len(e.data)
           /\ SeqAt(ring, p) = e.number
           /\ Means(ring, DataPtr(p), o + 4) /\ DataPtr(p) \in 1 .. BufferSize
<1>1. SizeAt(ring, p) = Len(e.data)
  BY UlongRead, FitEntry DEF Lies, SizeAt
<1>2. Means(ring, Behind(p, Ulong), o + 2)
  BY BehindMeans DEF Ulong
<1>3. SeqAt(ring, p) = e.number
  BY <1>2, UlongRead, FitEntry DEF Lies, SeqAt
<1>4. 2 * Ulong = 4
  BY DEF Ulong
<1>5. Means(ring, Behind(p, 4), o + 4) /\ Behind(p, 4) \in 1 .. BufferSize
  BY BehindMeans
<1> QED
  BY <1>1, <1>3, <1>4, <1>5 DEF DataPtr

(* An entry that lies elsewhere in another ring of the same cells.         *)
LEMMA LiesAlso ==
    ASSUME NEW ring, NEW other, NEW e \in Fit, NEW o \in Nat, NEW d \in Nat,
           Lies(ring, o, e),
           \A x \in o .. o + SizeOf(e) - 1 : At(other, x - o + d) = At(ring, x)
    PROVE  Lies(other, d, e)
<1> DEFINE n == Len(e.data)
<1>1. n \in Nat /\ SizeOf(e) = n + 6
  BY FitEntry
<1>2. ASSUME NEW k \in 0 .. n + 5 PROVE At(other, d + k) = At(ring, o + k)
  <2>1. PICK x : x = o + k
    OBVIOUS
  <2>2. x \in o .. o + SizeOf(e) - 1 /\ x - o + d = d + k
    BY <1>1, <2>1
  <2> QED
    BY <2>1, <2>2
<1> HIDE DEF n
<1>3. Stores(other, d, n) /\ Stores(other, d + 2, e.number)
  <2>1. /\ At(other, d + 0) = At(ring, o + 0) /\ At(other, d + 1) = At(ring, o + 1)
        /\ At(other, d + 2) = At(ring, o + 2) /\ At(other, d + 3) = At(ring, o + 3)
    BY <1>1, <1>2
  <2>2. d + 0 = d /\ o + 0 = o /\ (d + 2) + 1 = d + 3 /\ (o + 2) + 1 = o + 3
    OBVIOUS
  <2> QED
    BY <2>1, <2>2 DEF Lies, Stores, n
<1>4. ASSUME NEW i \in 1 .. n PROVE At(other, d + 3 + i) = e.data[i]
  <2>1. PICK k : k = 3 + i
    OBVIOUS
  <2>2. k \in 0 .. n + 5 /\ d + k = d + 3 + i /\ o + k = o + 3 + i
    BY <1>1, <2>1
  <2>3. At(ring, o + 3 + i) = e.data[i]
    BY DEF Lies, n
  <2> QED
    BY <1>2, <2>2, <2>3
<1>5. Stores(other, d + 4 + n, n)
  <2>1. PICK k, l : k = n + 4 /\ l = n + 5
    OBVIOUS
  <2>2. /\ k \in 0 .. n + 5 /\ l \in 0 .. n + 5 /\ d + k = d + 4 + n /\ o + k = o + 4 + n
        /\ d + l = (d + 4 + n) + 1 /\ o + l = (o + 4 + n) + 1
    BY <1>1, <2>1
  <2>3. At(other, d + k) = At(ring, o + k) /\ At(other, d + l) = At(ring, o + l)
    BY <1>2, <2>2
  <2>4. Stores(ring, o + 4 + n, n)
    BY DEF Lies, n
  <2> QED
    BY <2>2, <2>3, <2>4 DEF Stores
<1> QED
  BY <1>3, <1>4, <1>5 DEF Lies, n

-----------------------------------------------------------------------------
(* Dropping and appending entries                                          *)

LEMMA NothingLies == EmptyRing \in Ring /\ Holds(EmptyRing, << >>)
<1>1. EmptyRing \in Ring
  <2>1. 0 \in Cell /\ 0 \in 0 .. Limit - 1 /\ 0 \in 0 .. BufferSize /\ 0 \in 0 .. BufferSize - 1
    <3>1. Base * Base > 0 /\ Base * Base \in Nat
      BY RingSize
    <3> QED
      BY RingSize, <3>1 DEF Cell, Limit
  <2>2. [i \in 0 .. BufferSize - 1 |-> 0] \in [0 .. BufferSize - 1 -> Cell]
    BY <2>1
  <2> QED
    BY <2>1, <2>2 DEF EmptyRing, Ring
<1>2. PICK off : off = [i \in 0 .. 0 |-> 0]
  OBVIOUS
<1>3. /\ Len(<< >>) = 0 /\ << >> \in Seq(Fit)
      /\ off \in [0 .. 0 -> 0 .. BufferSize] /\ off[0] = 0
  BY <1>2, RingSize
<1>4. Laid(EmptyRing, << >>, off)
  BY <1>3 DEF Laid, EmptyRing
<1> QED
  BY <1>1, <1>3, <1>4 DEF Holds

(* The entries behind the first k, and where they end.                     *)
Rest(es, k)  == SubSeq(es, k + 1, Len(es))
Ends(off, n, k) == [i \in 0 .. n - k |-> off[i + k] - off[k]]

LEMMA RestIs ==
    ASSUME NEW es \in Seq(Fit), NEW k \in 0 .. Len(es)
    PROVE  /\ Rest(es, k) \in Seq(Fit) /\ Len(Rest(es, k)) = Len(es) - k
           /\ \A i \in 1 .. Len(es) - k : Rest(es, k)[i] = es[i + k]
<1>1. Len(es) \in Nat /\ k \in Int
  OBVIOUS
<1>2. k + 1 \in 1 .. Len(es) + 1
  BY <1>1
<1>3. /\ Rest(es, k) = [i \in 1 .. Len(es) - k |-> es[i + k]]
  <2>1. Len(es) - (k + 1) + 1 = Len(es) - k
    BY <1>1
  <2>2. \A i \in 1 .. Len(es) - k : i + (k + 1) - 1 = i + k
    BY <1>1
  <2>3. Rest(es, k) = [i \in 1 .. Len(es) - (k + 1) + 1 |-> es[i + (k + 1) - 1]]
    BY <1>1 DEF Rest
  <2> QED
    BY <2>1, <2>2, <2>3
<1>4. \A i \in 1 .. Len(es) - k : i + k \in 1 .. Len(es) /\ es[i + k] \in Fit
  BY <1>1
<1>5. Len(es) - k \in Nat
  BY <1>1
<1> QED
  BY <1>3, <1>4, <1>5

(* The ring with another beginning and fewer cells in use.                 *)
Without(ring, start, total) ==
    [ring EXCEPT !.buffer_start_ptr = start, !.buffer_used = @ - total]

LEMMA PopOne ==
    ASSUME NEW ring \in Ring, NEW es, NEW off, Laid(ring, es, off), Len(es) > 0
    PROVE  /\ PopEntry(ring) \in Ring
           /\ PopEntry(ring).seq_counter = ring.seq_counter
           /\ Laid(PopEntry(ring), Rest(es, 1), Ends(off, Len(es), 1))
<1> DEFINE n == Len(es)
           total == off[1]
           out == PopEntry(ring)
           start == ring.buffer_start_ptr
<1>1. /\ n \in Nat /\ 1 \in 1 .. n /\ es[1] \in Fit /\ es \in Seq(Fit)
      /\ off[0] = 0 /\ total = SizeOf(es[1]) /\ Lies(ring, 0, es[1])
      /\ total \in Nat /\ total >= 6 /\ total <= ring.buffer_used
  <2>1. n \in Nat /\ es \in Seq(Fit) /\ off[0] = 0
    BY DEF Laid
  <2>2. 1 \in 1 .. n /\ 1 \in 0 .. n /\ 0 \in 0 .. n /\ 0 < 1
    BY <2>1
  <2>3. off[0] + 6 <= off[1] /\ off[1] \in 0 .. ring.buffer_used /\ es[1] \in Fit
        /\ off[1] = off[1 - 1] + SizeOf(es[1])
    BY <2>2, Bounds
  <2>4. Lies(ring, off[1 - 1], es[1])
    BY <2>2 DEF Laid
  <2> QED
    BY <2>1, <2>2, <2>3, <2>4, FitEntry
<1>2. /\ start \in 0 .. BufferSize - 1 /\ ring.buffer_used \in 0 .. BufferSize
      /\ ring.buffer_data \in [0 .. BufferSize - 1 -> Cell]
      /\ BufferSize \in Nat /\ BufferSize > 0
  BY RingShape, RingSize
<1>3. TotalSize(GetUlong(ring, start)) = total
  <2>1. SizeAt(ring, start) = Len(es[1].data)
    BY <1>1, StartMeans, EntryRead
  <2> QED
    BY <1>1, <2>1 DEF SizeOf, SizeAt
<1>4. PICK first \in Int :
        first = IF start + total >= BufferSize THEN (start + total) - BufferSize
                ELSE start + total
  BY <1>1, <1>2
<1>5. first \in 0 .. BufferSize - 1 /\ Place(first) = Place(start + total)
  <2>1. first \in 0 .. BufferSize - 1 /\ start + total \in Int
    BY <1>1, <1>2, <1>4
  <2>2. CASE start + total >= BufferSize
    <3>1. PICK y \in Int : y = start + total
      BY <2>1
    <3>2. first = y - BufferSize
      BY <1>1, <1>2, <1>4, <2>2, <3>1
    <3>3. Place(y - BufferSize) = Place(y)
      BY OneRound
    <3> QED
      BY <2>1, <3>1, <3>2, <3>3
  <2>3. CASE ~ (start + total >= BufferSize)
    BY <1>4, <2>1, <2>3
  <2> QED
    BY <2>2, <2>3
<1>6. /\ out.buffer_start_ptr = first /\ out.buffer_used = ring.buffer_used - total
      /\ out.buffer_data = ring.buffer_data /\ out.seq_counter = ring.seq_counter
      /\ out \in Ring
  <2>1. ring.buffer_used # 0
    BY <1>1, <1>2
  <2>2. out = [ring EXCEPT !.buffer_start_ptr = first,
                           !.buffer_used = ring.buffer_used - total]
    <3> DEFINE t == TotalSize(GetUlong(ring, start))
    <3>1. out = Without(ring, Wrapped(start + t), t)
      BY <2>1, Zenon DEF PopEntry, Without
    <3>2. t = total /\ first = Wrapped(start + total)
      <4>1. t = total
        BY <1>3
      <4> HIDE DEF total, start
      <4>2. first = Wrapped(start + total)
        BY <1>4 DEF Wrapped
      <4> QED
        BY <4>1, <4>2
    <3>3. out = Without(ring, first, total)
      <4> HIDE DEF out, start, total, t
      <4> QED
        BY <3>1, <3>2
    <3> HIDE DEF out, total
    <3> QED
      BY <3>3 DEF Without
  <2>3. ring.buffer_used - total \in 0 .. BufferSize
    BY <1>1, <1>2
  <2> HIDE DEF total, out
  <2> QED
    BY <1>5, <2>2, <2>3 DEF Ring
<1>7. ASSUME NEW x \in Int PROVE At(out, x - total) = At(ring, x)
  <2>1. /\ first \in Int /\ start + total \in Int /\ start + x \in Int
        /\ first + (x - total) \in Int /\ total \in Int
    BY <1>1, <1>2, <1>4
  <2>2. PICK i \in Int : i = x - total
    BY <2>1
  <2>3. Place(first + i) = Place((start + total) + i)
    <3>1. PICK y \in Int : y = start + total
      BY <2>1
    <3>2. (first + i) % BufferSize = (y + i) % BufferSize
      BY <1>2, <1>5, <3>1, SameMod
    <3> QED
      BY <3>1, <3>2 DEF Place
  <2>4. (start + total) + i = start + x
    BY <1>1, <1>2, <2>2
  <2> HIDE DEF out, total, start
  <2> QED
    BY <1>6, <2>2, <2>3, <2>4 DEF At, start
<1> HIDE DEF out
<1>8. Laid(out, Rest(es, 1), Ends(off, n, 1))
  <2> DEFINE f == Ends(off, n, 1)
             rest == Rest(es, 1)
  <2>1. /\ rest \in Seq(Fit) /\ Len(rest) = n - 1 /\ n - 1 \in Nat
        /\ \A i \in 1 .. n - 1 : rest[i] = es[i + 1]
    BY <1>1, RestIs
  <2>2. ASSUME NEW i \in 0 .. n - 1
        PROVE  /\ f[i] = off[i + 1] - total /\ i + 1 \in 0 .. n
               /\ off[i + 1] \in Nat /\ off[i + 1] >= total
               /\ off[i + 1] <= ring.buffer_used
    <3>1. f[i] = off[i + 1] - total /\ i + 1 \in 0 .. n /\ 1 \in 0 .. n
      BY <1>1 DEF Ends
    <3>2. off[i + 1] \in 0 .. ring.buffer_used /\ (1 < i + 1 => off[1] + 6 <= off[i + 1])
      BY <3>1, Bounds
    <3>3. i + 1 = 1 \/ 1 < i + 1
      OBVIOUS
    <3> QED
      BY <1>1, <1>2, <3>1, <3>2, <3>3
  <2>3. f \in [0 .. n - 1 -> 0 .. BufferSize]
    <3>1. \A i \in 0 .. n - 1 : f[i] \in 0 .. BufferSize
      BY <1>1, <1>2, <2>2
    <3>2. f = [i \in 0 .. n - 1 |-> f[i]]
      BY DEF Ends
    <3> HIDE DEF f
    <3> QED
      BY <3>1, <3>2
  <2>4. f[0] = 0 /\ f[n - 1] = out.buffer_used
    <3>1. 0 \in 0 .. n - 1 /\ n - 1 \in 0 .. n - 1 /\ (n - 1) + 1 = n /\ 0 + 1 = 1
      BY <1>1
    <3>2. off[n] = ring.buffer_used
      BY DEF Laid
    <3>3. f[0] = off[1] - total /\ f[n - 1] = off[n] - total
      BY <2>2, <3>1
    <3> HIDE DEF f
    <3> QED
      BY <1>1, <1>6, <3>2, <3>3
  <2>5. ASSUME NEW i \in 1 .. n - 1
        PROVE  f[i] = f[i - 1] + SizeOf(rest[i]) /\ Lies(out, f[i - 1], rest[i])
    <3>1. /\ i \in 0 .. n - 1 /\ i - 1 \in 0 .. n - 1 /\ (i - 1) + 1 = i
          /\ i + 1 \in 1 .. n /\ (i + 1) - 1 = i
      BY <1>1
    <3>2. /\ f[i] = off[i + 1] - total /\ f[i - 1] = off[i] - total
          /\ off[i] \in Nat /\ off[i] >= total
      BY <2>2, <3>1
    <3>3. /\ off[i + 1] = off[i] + SizeOf(es[i + 1]) /\ es[i + 1] \in Fit
          /\ Lies(ring, off[i], es[i + 1])
      BY <3>1, Bounds DEF Laid
    <3>4. rest[i] = es[i + 1] /\ SizeOf(es[i + 1]) \in Nat
      BY <2>1, <3>3, FitEntry
    <3>5. f[i - 1] \in Nat
      BY <1>1, <3>2
    <3>6. \A x \in off[i] .. off[i] + SizeOf(es[i + 1]) - 1 :
             At(out, x - off[i] + f[i - 1]) = At(ring, x)
      <4>1. ASSUME NEW x \in off[i] .. off[i] + SizeOf(es[i + 1]) - 1
            PROVE  At(out, x - off[i] + f[i - 1]) = At(ring, x)
        <5>1. x \in Int /\ x - off[i] + (off[i] - total) = x - total
          BY <1>1, <3>2, <3>4
        <5>2. x - off[i] + f[i - 1] = x - total
          BY <3>2, <5>1
        <5> HIDE DEF f
        <5> QED
          BY <1>7, <5>1, <5>2
      <4> QED
        BY <4>1
    <3> HIDE DEF f, rest
    <3>7. Lies(out, f[i - 1], es[i + 1])
      BY <3>2, <3>3, <3>5, <3>6, LiesAlso
    <3>8. f[i] = f[i - 1] + SizeOf(es[i + 1])
      BY <1>1, <3>2, <3>3, <3>4
    <3> QED
      BY <3>4, <3>7, <3>8
  <2> HIDE DEF f, rest
  <2>6. Laid(out, rest, f)
    BY <2>1, <2>3, <2>4, <2>5 DEF Laid
  <2> QED
    BY <2>6 DEF f, rest
<1> QED
  BY <1>6, <1>8 DEF out

LEMMA TwoDigits ==
    ASSUME NEW n \in 0 .. Limit - 1
    PROVE  /\ ToBytes(n) \in Seq(Cell) /\ Len(ToBytes(n)) = 2
           /\ ToBytes(n)[1] = n % Base /\ ToBytes(n)[2] = n \div Base
BY Digits DEF ToBytes

(* Written, with the bytes counted from the first one.                     *)
Wrote(ring, o, bytes, out) ==
    /\ out \in Ring /\ out.seq_counter = ring.seq_counter
    /\ out.buffer_used = ring.buffer_used
    /\ out.buffer_start_ptr = ring.buffer_start_ptr
    /\ \A i \in 1 .. Len(bytes) : At(out, o + (i - 1)) = bytes[i]
    /\ \A x \in 0 .. BufferSize - 1 :
          x < o \/ x >= o + Len(bytes) => At(out, x) = At(ring, x)

LEMMA WrittenAt ==
    ASSUME NEW ring \in Ring, NEW p, NEW o \in Nat, Means(ring, p, o),
           o < BufferSize, NEW bytes \in Seq(Cell), o + Len(bytes) <= BufferSize
    PROVE  Wrote(ring, o, bytes, PushBytes(ring, p, bytes))
<1>0. o \in 0 .. BufferSize - 1 /\ BufferSize \in Nat
  BY RingSize
<1>1. PICK out : out = PushBytes(ring, p, bytes)
  OBVIOUS
<1>2. /\ out \in Ring /\ out.seq_counter = ring.seq_counter
      /\ out.buffer_used = ring.buffer_used
      /\ out.buffer_start_ptr = ring.buffer_start_ptr
      /\ \A x \in 0 .. BufferSize - 1 :
            At(out, x) = IF x \in o .. o + Len(bytes) - 1 THEN bytes[x - o + 1]
                         ELSE At(ring, x)
  BY <1>0, <1>1, Written
<1>3. ASSUME NEW i \in 1 .. Len(bytes) PROVE At(out, o + (i - 1)) = bytes[i]
  <2>1. PICK x : x = o + (i - 1)
    OBVIOUS
  <2>2. x \in 0 .. BufferSize - 1 /\ x \in o .. o + Len(bytes) - 1 /\ x - o + 1 = i
    BY <1>0, <2>1
  <2>3. At(out, x) = bytes[x - o + 1]
    BY <1>2, <2>2
  <2> QED
    BY <2>1, <2>2, <2>3
<1>4. ASSUME NEW x \in 0 .. BufferSize - 1, x < o \/ x >= o + Len(bytes)
      PROVE  At(out, x) = At(ring, x)
  <2>1. ~ (x \in o .. o + Len(bytes) - 1)
    BY <1>0, <1>4
  <2> QED
    BY <1>2, <2>1
<1> QED
  BY <1>1, <1>2, <1>3, <1>4 DEF Wrote

(* The three writes of log_buffer_push_entry and its callers.              *)
WroteEntry(ring, u, s, h, data, out) ==
    /\ out \in Ring /\ out.seq_counter = ring.seq_counter
    /\ out.buffer_used = ring.buffer_used
    /\ out.buffer_start_ptr = ring.buffer_start_ptr
    /\ \A i \in 1 .. 4 : At(out, u + (i - 1)) = h[i]
    /\ \A i \in 1 .. s : At(out, (u + 4) + (i - 1)) = data[i]
    /\ \A i \in 1 .. 2 : At(out, (u + (s + 4)) + (i - 1)) = ToBytes(s)[i]
    /\ \A x \in 0 .. u - 1 : At(out, x) = At(ring, x)

LEMMA ThreeWrites ==
    ASSUME NEW ring \in Ring, NEW u \in Nat, NEW s \in 0 .. Limit - 1,
           u + (s + 6) <= BufferSize, NEW first, Means(ring, first, u),
           NEW h \in Seq(Cell), Len(h) = 4, NEW data \in Seq(Cell), Len(data) = s,
           NEW head, head = PushBytes(ring, first, h),
           NEW wp, wp = Behind(first, 4),
           NEW tail, tail = PushBytes(head, wp + s, ToBytes(s)),
           NEW out, out = PushBytes(tail, wp, data)
    PROVE  WroteEntry(ring, u, s, h, data, out)
<1>1. PICK o \in Int : o = u + 4
  OBVIOUS
<1>2. PICK d \in Int : d = u + (s + 4)
  BY RingSize DEF Limit
<1>3. /\ s \in Nat /\ BufferSize \in Nat /\ BufferSize > 0
      /\ o \in Nat /\ o < BufferSize /\ o + s <= BufferSize
      /\ d \in Nat /\ d < BufferSize /\ d + 2 <= BufferSize /\ d = o + s
      /\ u < BufferSize /\ u + 4 <= BufferSize
  BY <1>1, <1>2, RingSize DEF Limit
<1>4. /\ ToBytes(s) \in Seq(Cell) /\ Len(ToBytes(s)) = 2
  BY TwoDigits
<1>5. /\ head \in Ring /\ head.seq_counter = ring.seq_counter
      /\ head.buffer_used = ring.buffer_used
      /\ head.buffer_start_ptr = ring.buffer_start_ptr
      /\ \A i \in 1 .. 4 : At(head, u + (i - 1)) = h[i]
      /\ \A x \in 0 .. BufferSize - 1 :
            x < u \/ x >= u + 4 => At(head, x) = At(ring, x)
  <2>1. Wrote(ring, u, h, head)
    BY <1>3, WrittenAt
  <2> QED
    BY <2>1 DEF Wrote
<1>6. Means(ring, wp, u + 4) /\ wp \in 1 .. BufferSize
  BY BehindMeans
<1>7. Means(head, wp, o)
  BY <1>1, <1>5, <1>6 DEF Means
<1>8. wp + s \in Pointer /\ s \in Int
  BY <1>3, <1>6 DEF Pointer
<1>9. Means(head, wp + s, d)
  BY <1>3, <1>5, <1>7, <1>8, MovedMeans
<1>10. /\ tail \in Ring /\ tail.seq_counter = head.seq_counter
       /\ tail.buffer_used = head.buffer_used
       /\ tail.buffer_start_ptr = head.buffer_start_ptr
       /\ \A i \in 1 .. 2 : At(tail, d + (i - 1)) = ToBytes(s)[i]
       /\ \A x \in 0 .. BufferSize - 1 :
             x < d \/ x >= d + 2 => At(tail, x) = At(head, x)
  <2>1. Wrote(head, d, ToBytes(s), tail)
    BY <1>3, <1>4, <1>5, <1>9, WrittenAt
  <2> QED
    BY <1>4, <2>1 DEF Wrote
<1>11. Means(tail, wp, o)
  BY <1>7, <1>10 DEF Means
<1>12. /\ out \in Ring /\ out.seq_counter = tail.seq_counter
       /\ out.buffer_used = tail.buffer_used
       /\ out.buffer_start_ptr = tail.buffer_start_ptr
       /\ \A i \in 1 .. s : At(out, o + (i - 1)) = data[i]
       /\ \A x \in 0 .. BufferSize - 1 :
             x < o \/ x >= o + s => At(out, x) = At(tail, x)
  <2>1. Wrote(tail, o, data, out)
    BY <1>3, <1>10, <1>11, WrittenAt
  <2> QED
    BY <2>1 DEF Wrote
<1>13. ASSUME NEW i \in 1 .. 4 PROVE At(out, u + (i - 1)) = h[i]
  <2>1. PICK x : x = u + (i - 1)
    OBVIOUS
  <2>2. x \in 0 .. BufferSize - 1 /\ x < o /\ x < d
    BY <1>1, <1>3, <2>1
  <2> QED
    BY <1>5, <1>10, <1>12, <2>1, <2>2
<1>14. ASSUME NEW i \in 1 .. 2 PROVE At(out, d + (i - 1)) = ToBytes(s)[i]
  <2>1. PICK x : x = d + (i - 1)
    OBVIOUS
  <2>2. x \in 0 .. BufferSize - 1 /\ x >= o + s
    BY <1>3, <2>1
  <2> QED
    BY <1>10, <1>12, <2>1, <2>2
<1>15. ASSUME NEW x \in 0 .. u - 1 PROVE At(out, x) = At(ring, x)
  <2>1. x \in 0 .. BufferSize - 1 /\ x < u /\ x < o /\ x < d
    BY <1>1, <1>3
  <2> QED
    BY <1>5, <1>10, <1>12, <2>1
<1> QED
  BY <1>1, <1>2, <1>5, <1>10, <1>12, <1>13, <1>14, <1>15 DEF WroteEntry

(* The entry that is written behind the others.                            *)
Wider(ring, total) == [ring EXCEPT !.buffer_used = @ + total]

LEMMA AppendWrites ==
    ASSUME NEW ring \in Ring, NEW data \in Seq(Cell), Len(data) < Limit,
           HasRoom(ring, Len(data)),
           NEW e, e = [number |-> ring.seq_counter, data |-> data],
           NEW out, out = AppendEntry(ring, data)
    PROVE  /\ out \in Ring /\ out.seq_counter = ring.seq_counter
           /\ e \in Fit /\ out.buffer_used = ring.buffer_used + SizeOf(e)
           /\ Lies(out, ring.buffer_used, e)
           /\ \A x \in 0 .. ring.buffer_used - 1 : At(out, x) = At(ring, x)
<1>1. PICK s, u, start, number :
        /\ s = Len(data) /\ u = ring.buffer_used
        /\ start = ring.buffer_start_ptr /\ number = ring.seq_counter
  OBVIOUS
<1>2. /\ s \in Nat /\ s \in 0 .. Limit - 1 /\ TotalSize(s) = s + 6
      /\ u \in Nat /\ start \in 0 .. BufferSize - 1 /\ start \in Int
      /\ BufferSize \in Nat /\ BufferSize > 0 /\ u + (s + 6) <= BufferSize
      /\ number \in 0 .. Limit - 1
  <2>1. Limit \in Int
    BY RingSize DEF Limit
  <2>2. TotalSize(s) = s + 6
    BY <1>1 DEF TotalSize, Ulong
  <2>3. BufferSize - u >= s + 6
    BY <1>1, <2>2 DEF HasRoom
  <2> QED
    BY <1>1, <2>1, <2>2, <2>3, RingShape, RingSize
<1>3. /\ e \in Fit /\ SizeOf(e) = s + 6 /\ Len(e.data) = s
      /\ e.data = data /\ e.number = number
  BY <1>1, <1>2 DEF Fit, Entry, SizeOf
<1>4. PICK used : used = Wider(ring, s + 6)
  OBVIOUS
<1>5. /\ used \in Ring /\ used.seq_counter = number
      /\ used.buffer_used = u + (s + 6) /\ used.buffer_start_ptr = start
      /\ used.buffer_data = ring.buffer_data
  <2>1. used = [ring EXCEPT !.buffer_used = u + (s + 6)]
    BY <1>1, <1>2, <1>4 DEF Wider
  <2>2. u + (s + 6) \in 0 .. BufferSize
    BY <1>2
  <2> QED
    BY <1>1, <2>1, <2>2 DEF Ring
<1>6. PICK first \in Int : first = start + u
  BY <1>2
<1>7. Means(used, first, u)
  <2>1. first \in Pointer /\ u \in Int
    BY <1>2, <1>6 DEF Pointer
  <2> QED
    BY <1>5, <1>6, <2>1 DEF Means
<1>8. PICK h : h = ToBytes(s) \o ToBytes(number)
  OBVIOUS
<1>9. /\ h \in Seq(Cell) /\ Len(h) = 4
      /\ h[1] = s % Base /\ h[2] = s \div Base
      /\ h[3] = number % Base /\ h[4] = number \div Base
  <2>1. PICK a, b : a = ToBytes(s) /\ b = ToBytes(number)
    OBVIOUS
  <2>2. /\ a \in Seq(Cell) /\ b \in Seq(Cell) /\ Len(a) = 2 /\ Len(b) = 2
        /\ a[1] = s % Base /\ a[2] = s \div Base
        /\ b[1] = number % Base /\ b[2] = number \div Base
    BY <1>2, <2>1, TwoDigits
  <2>3. /\ h \in Seq(Cell) /\ Len(h) = 4
        /\ \A i \in 1 .. 4 : h[i] = IF i <= 2 THEN a[i] ELSE b[i - 2]
    <3>1. /\ a \o b \in Seq(Cell) /\ Len(a \o b) = Len(a) + Len(b)
          /\ \A i \in 1 .. Len(a) + Len(b) :
                (a \o b)[i] = IF i <= Len(a) THEN a[i] ELSE b[i - Len(a)]
      BY <2>2, ConcatProperties, Zenon
    <3>2. h = a \o b
      BY <1>8, <2>1
    <3> QED
      BY <2>2, <3>1, <3>2
  <2> QED
    BY <2>2, <2>3
<1>10. PICK head, wp, tail :
         /\ head = PushBytes(used, first, h)
         /\ wp = Behind(first, 4)
         /\ tail = PushBytes(head, wp + s, ToBytes(s))
  OBVIOUS
<1>11. out = PushBytes(tail, wp, data)
  <2>1. 2 * Ulong = 4
    BY DEF Ulong
  <2>2. used = [ring EXCEPT !.buffer_used = @ + TotalSize(s)]
    BY <1>2, <1>4 DEF Wider
  <2> QED
    BY <1>1, <1>6, <1>8, <1>10, <2>1, <2>2, Zenon DEF AppendEntry
<1>12. /\ out \in Ring /\ out.seq_counter = used.seq_counter
       /\ out.buffer_used = used.buffer_used
       /\ out.buffer_start_ptr = used.buffer_start_ptr
       /\ \A i \in 1 .. 4 : At(out, u + (i - 1)) = h[i]
       /\ \A i \in 1 .. s : At(out, (u + 4) + (i - 1)) = data[i]
       /\ \A i \in 1 .. 2 : At(out, (u + (s + 4)) + (i - 1)) = ToBytes(s)[i]
       /\ \A x \in 0 .. u - 1 : At(out, x) = At(used, x)
  <2>1. Len(data) = s /\ s \in 0 .. Limit - 1 /\ u + (s + 6) <= BufferSize /\ Len(h) = 4
    BY <1>1, <1>2, <1>9
  <2>2. WroteEntry(used, u, s, h, data, out)
    BY <1>2, <1>5, <1>7, <1>9, <1>10, <1>11, <2>1, ThreeWrites, Zenon
  <2> QED
    BY <2>2, Zenon DEF WroteEntry
<1>13. ASSUME NEW x \in 0 .. u - 1 PROVE At(out, x) = At(ring, x)
  BY <1>1, <1>5, <1>12 DEF At
<1>14. Lies(out, u, e)
  <2>1. Stores(out, u, s) /\ Stores(out, u + 2, number)
    <3>1. /\ u + (1 - 1) = u /\ u + (2 - 1) = u + 1
          /\ u + (3 - 1) = u + 2 /\ u + (4 - 1) = (u + 2) + 1
      BY <1>2
    <3>2. /\ At(out, u) = h[1] /\ At(out, u + 1) = h[2]
          /\ At(out, u + 2) = h[3] /\ At(out, (u + 2) + 1) = h[4]
      BY <1>12, <3>1
    <3> QED
      BY <1>9, <3>2 DEF Stores
  <2>2. ASSUME NEW i \in 1 .. s PROVE At(out, u + 3 + i) = data[i]
    <3>1. (u + 4) + (i - 1) = u + 3 + i
      BY <1>2
    <3> QED
      BY <1>12, <3>1
  <2>3. Stores(out, u + 4 + s, s)
    <3>1. /\ (u + (s + 4)) + (1 - 1) = u + 4 + s
          /\ (u + (s + 4)) + (2 - 1) = (u + 4 + s) + 1
      BY <1>2
    <3>2. /\ At(out, u + 4 + s) = ToBytes(s)[1]
          /\ At(out, (u + 4 + s) + 1) = ToBytes(s)[2]
      BY <1>12, <3>1
    <3> QED
      BY <1>2, <3>2, TwoDigits DEF Stores
  <2> QED
    BY <1>3, <2>1, <2>2, <2>3 DEF Lies
<1> QED
  BY <1>1, <1>3, <1>5, <1>12, <1>13, <1>14

LEMMA AppendOne ==
    ASSUME NEW ring \in Ring, NEW es, Holds(ring, es), NEW data \in Seq(Cell),
           Len(data) < Limit, HasRoom(ring, Len(data)),
           NEW e, e = [number |-> ring.seq_counter, data |-> data]
    PROVE  /\ AppendEntry(ring, data) \in Ring
           /\ AppendEntry(ring, data).seq_counter = ring.seq_counter
           /\ e \in Fit /\ Holds(AppendEntry(ring, data), Append(es, e))
<1>1. PICK off : Laid(ring, es, off)
  BY DEF Holds
<1>2. PICK out, n, u, more :
        /\ out = AppendEntry(ring, data) /\ n = Len(es) /\ u = ring.buffer_used
        /\ more = Append(es, e)
  OBVIOUS
<1>3. /\ out \in Ring /\ out.seq_counter = ring.seq_counter
      /\ e \in Fit /\ out.buffer_used = u + SizeOf(e)
      /\ Lies(out, u, e)
      /\ \A x \in 0 .. u - 1 : At(out, x) = At(ring, x)
  BY <1>2, AppendWrites
<1>4. /\ n \in Nat /\ es \in Seq(Fit) /\ off[0] = 0 /\ off[n] = u
      /\ u \in Nat /\ SizeOf(e) \in Nat /\ u + SizeOf(e) \in 0 .. BufferSize
      /\ BufferSize \in Nat
  BY <1>1, <1>2, <1>3, RingShape, FitEntry, RingSize DEF Laid
<1>5. /\ more \in Seq(Fit) /\ Len(more) = n + 1
      /\ \A i \in 1 .. n : more[i] = es[i]
      /\ more[n + 1] = e
  BY <1>2, <1>3, <1>4
<1>6. PICK f : f = [i \in 0 .. n + 1 |-> IF i = n + 1 THEN u + SizeOf(e) ELSE off[i]]
  OBVIOUS
<1>7. /\ f[n + 1] = u + SizeOf(e)
      /\ \A i \in 0 .. n : f[i] = off[i] /\ off[i] \in 0 .. u
  <2>1. \A i \in 0 .. n : off[i] \in 0 .. u
    BY <1>1, <1>2, Bounds
  <2>2. n + 1 \in 0 .. n + 1 /\ \A i \in 0 .. n : i \in 0 .. n + 1 /\ i # n + 1
    BY <1>4
  <2> QED
    BY <1>6, <2>1, <2>2
<1>8. f \in [0 .. n + 1 -> 0 .. BufferSize]
  <2>1. \A i \in 0 .. n + 1 : f[i] \in 0 .. BufferSize
    <3>1. \A i \in 0 .. n + 1 : i = n + 1 \/ i \in 0 .. n
      BY <1>4
    <3> QED
      BY <1>4, <1>7, <3>1
  <2>2. f = [i \in 0 .. n + 1 |-> f[i]]
    BY <1>6
  <2> QED
    BY <2>1, <2>2
<1>9. ASSUME NEW i \in 1 .. n + 1
      PROVE  f[i] = f[i - 1] + SizeOf(more[i]) /\ Lies(out, f[i - 1], more[i])
  <2>1. CASE i = n + 1
    <3>1. i - 1 = n /\ n \in 0 .. n /\ f[n] = u
      BY <1>4, <1>7, <2>1
    <3> QED
      BY <1>3, <1>5, <1>7, <2>1, <3>1
  <2>2. CASE i \in 1 .. n
    <3>1. i \in 0 .. n /\ i - 1 \in 0 .. n /\ more[i] = es[i] /\ es[i] \in Fit
      BY <1>4, <1>5, <2>2
    <3>2. off[i] = off[i - 1] + SizeOf(es[i]) /\ Lies(ring, off[i - 1], es[i])
      BY <1>1, <1>2, <2>2 DEF Laid
    <3>3. off[i - 1] \in Nat /\ off[i] <= u /\ SizeOf(es[i]) \in Nat
      <4>1. off[i - 1] \in 0 .. u /\ off[i] \in 0 .. u
        BY <1>7, <3>1
      <4>2. SizeOf(es[i]) \in Nat
        BY <3>1, FitEntry
      <4> QED
        BY <1>4, <4>1, <4>2
    <3>4. \A x \in off[i - 1] .. off[i - 1] + SizeOf(es[i]) - 1 :
             At(out, x - off[i - 1] + off[i - 1]) = At(ring, x)
      <4>1. ASSUME NEW x \in off[i - 1] .. off[i - 1] + SizeOf(es[i]) - 1
            PROVE  At(out, x - off[i - 1] + off[i - 1]) = At(ring, x)
        <5>1. PICK o, s : o = off[i - 1] /\ s = SizeOf(es[i])
          OBVIOUS
        <5>2. o \in Nat /\ s \in Nat /\ o + s <= u
          BY <3>2, <3>3, <5>1
        <5>3. x \in o .. o + s - 1
          BY <5>1, Zenon
        <5>4. x - o + o = x /\ x \in 0 .. u - 1
          BY <1>4, <5>2, <5>3
        <5> QED
          BY <1>3, <5>1, <5>4
      <4> QED
        BY <4>1
    <3>5. Lies(out, off[i - 1], es[i])
      BY <3>1, <3>2, <3>3, <3>4, LiesAlso
    <3> QED
      BY <1>7, <3>1, <3>2, <3>5
  <2> QED
    BY <1>4, <2>1, <2>2
<1>10. Laid(out, more, f)
  <2>1. f[0] = 0 /\ 0 \in 0 .. n
    BY <1>4, <1>7
  <2> QED
    BY <1>3, <1>5, <1>7, <1>8, <1>9, <2>1 DEF Laid
<1>11. Holds(out, more)
  BY <1>5, <1>8, <1>10 DEF Holds
<1> QED
  BY <1>2, <1>3, <1>11

(* A step of the loop of log_buffer_push_entry, whatever the ring holds.   *)
LEMMA PopAny == \A r \in AnyRing : PopEntry(r) \in AnyRing
<1> SUFFICES ASSUME NEW r \in AnyRing PROVE PopEntry(r) \in AnyRing
  OBVIOUS
<1>1. /\ r.buffer_start_ptr \in Int /\ r.buffer_used \in Int
      /\ r.buffer_data \in [0 .. BufferSize - 1 -> Int]
  BY DEF AnyRing
<1>2. PICK p : p = r.buffer_start_ptr
  OBVIOUS
<1>3. ByteAt(p) \in Int
  BY <1>1, <1>2, RingSize DEF ByteAt
<1>4. Nth(p, 1) \in 0 .. BufferSize - 1 /\ Nth(p, 2) \in 0 .. BufferSize - 1
  <2>1. ByteAt(p) + 1 - 1 \in Int /\ ByteAt(p) + 2 - 1 \in Int
    BY <1>3
  <2> QED
    BY <2>1, RingSize, ModMod DEF Nth
<1>5. GetUlong(r, p) \in Int
  <2>1. /\ GetBytes(r, p, Ulong)[1] = r.buffer_data[Nth(p, 1)]
        /\ GetBytes(r, p, Ulong)[2] = r.buffer_data[Nth(p, 2)]
    BY DEF GetBytes, Ulong
  <2>2. r.buffer_data[Nth(p, 1)] \in Int /\ r.buffer_data[Nth(p, 2)] \in Int
    BY <1>1, <1>4
  <2> QED
    BY <2>1, <2>2, RingSize DEF GetUlong, FromBytes
<1>6. PICK total : total = TotalSize(GetUlong(r, p))
  OBVIOUS
<1>7. total \in Int
  BY <1>5, <1>6 DEF TotalSize, Ulong
<1>8. CASE r.buffer_used = 0
  BY <1>8 DEF PopEntry
<1>9. CASE r.buffer_used # 0
  <2>1. PopEntry(r) = Without(r, Wrapped(p + total), total)
    BY <1>2, <1>6, <1>9, Zenon DEF PopEntry, Without
  <2>2. PICK w : w = Wrapped(p + total)
    OBVIOUS
  <2>3. w \in Int
    BY <1>1, <1>2, <1>7, <2>2, RingSize DEF Wrapped
  <2>4. Without(r, w, total) \in AnyRing
    <3>1. r.buffer_used - total \in Int
      BY <1>1, <1>7
    <3>2. Without(r, w, total) = [r EXCEPT !.buffer_start_ptr = w,
                                           !.buffer_used = r.buffer_used - total]
      BY DEF Without, AnyRing
    <3> QED
      BY <2>3, <3>1, <3>2 DEF AnyRing
  <2> QED
    BY <2>1, <2>2, <2>4
<1> QED
  BY <1>8, <1>9

LEMMA RestOfAll ==
    ASSUME NEW es \in Seq(Fit)
    PROVE  Rest(es, 0) = es
<1>1. Len(es) \in Nat /\ 0 \in 0 .. Len(es)
  OBVIOUS
<1>2. /\ Rest(es, 0) \in Seq(Fit) /\ Len(Rest(es, 0)) = Len(es) - 0
      /\ \A i \in 1 .. Len(es) - 0 : Rest(es, 0)[i] = es[i + 0]
  BY <1>1, RestIs
<1>3. PICK all : all = Rest(es, 0)
  OBVIOUS
<1>4. Len(all) = Len(es) /\ \A i \in 1 .. Len(es) : all[i] = es[i]
  BY <1>1, <1>2, <1>3
<1> QED
  BY <1>2, <1>3, <1>4, SeqEqual

LEMMA RestOfRest ==
    ASSUME NEW es \in Seq(Fit), NEW k \in 0 .. Len(es) - 1
    PROVE  Rest(Rest(es, k), 1) = Rest(es, k + 1)
<1>1. /\ Len(es) \in Nat /\ k \in 0 .. Len(es) /\ k + 1 \in 0 .. Len(es)
  OBVIOUS
<1>2. PICK a, b, c : a = Rest(es, k) /\ b = Rest(a, 1) /\ c = Rest(es, k + 1)
  OBVIOUS
<1>3. /\ a \in Seq(Fit) /\ Len(a) = Len(es) - k
      /\ \A i \in 1 .. Len(es) - k : a[i] = es[i + k]
  BY <1>1, <1>2, RestIs
<1>4. /\ c \in Seq(Fit) /\ Len(c) = Len(es) - (k + 1)
      /\ \A i \in 1 .. Len(es) - (k + 1) : c[i] = es[i + (k + 1)]
  BY <1>1, <1>2, RestIs
<1>5. 1 \in 0 .. Len(a)
  BY <1>1, <1>3
<1>6. /\ b \in Seq(Fit) /\ Len(b) = Len(a) - 1
      /\ \A i \in 1 .. Len(a) - 1 : b[i] = a[i + 1]
  BY <1>2, <1>3, <1>5, RestIs
<1>7. Len(b) = Len(c)
  BY <1>1, <1>3, <1>4, <1>6
<1>8. ASSUME NEW i \in 1 .. Len(b) PROVE b[i] = c[i]
  <2>1. /\ i \in 1 .. Len(a) - 1 /\ i + 1 \in 1 .. Len(es) - k
        /\ i \in 1 .. Len(es) - (k + 1) /\ (i + 1) + k = i + (k + 1)
    BY <1>1, <1>3, <1>6
  <2> QED
    BY <1>3, <1>4, <1>6, <2>1
<1> QED
  BY <1>2, <1>4, <1>6, <1>7, <1>8, SeqEqual

(* Each round drops the oldest entry, as long as there is one.             *)
PoppedRing(ring, es, k, out) ==
    out \in Ring /\ out.seq_counter = ring.seq_counter /\ Holds(out, Rest(es, k))

LEMMA PoppedRounds ==
    ASSUME NEW ring \in Ring, NEW es \in Seq(Fit), Holds(ring, es),
           NEW popped, popped = Iterate([r \in AnyRing |-> PopEntry(r)], ring, MostEntries)
    PROVE  Len(es) <= MostEntries /\ \A k \in 0 .. Len(es) : PoppedRing(ring, es, k, popped[k])
<1>0. BufferSize \in Nat /\ Len(es) \in Nat /\ MostEntries \in Nat
  BY RingSize, EntriesFit
<1>1. PICK step : step = [r \in AnyRing |-> PopEntry(r)]
  OBVIOUS
<1>2. step \in [AnyRing -> AnyRing]
  BY <1>1, PopAny
<1>3. ring \in AnyRing
  BY RingShape
<1>4. /\ popped[0] = ring
      /\ \A k \in 0 .. MostEntries - 1 : popped[k + 1] = step[popped[k]]
  <2>1. popped = Iterate(step, ring, MostEntries)
    BY <1>1
  <2>2. Steps(step, ring, MostEntries, Iterate(step, ring, MostEntries))
    BY <1>0, <1>2, <1>3, IterateRounds
  <2> QED
    BY <2>1, <2>2 DEF Steps
<1>5. Len(es) <= MostEntries
  BY FewEntries DEF Holds
<1> DEFINE T == {k \in 0 .. Len(es) : PoppedRing(ring, es, k, popped[k])}
<1>6. 0 \in T
  <2>1. PoppedRing(ring, es, 0, popped[0])
    BY <1>4, RestOfAll DEF PoppedRing
  <2> QED
    BY <1>0, <2>1
<1>7. ASSUME NEW k \in 0 .. Len(es) - 1, k \in T PROVE k + 1 \in T
  <2>1. PICK now, rest : now = popped[k] /\ rest = Rest(es, k)
    OBVIOUS
  <2>2. now \in Ring /\ now.seq_counter = ring.seq_counter /\ Holds(now, rest)
    BY <1>7, <2>1 DEF PoppedRing
  <2>3. PICK off : Laid(now, rest, off)
    BY <2>2 DEF Holds
  <2>4. k \in 0 .. Len(es) /\ k + 1 \in 0 .. Len(es) /\ k \in 0 .. MostEntries - 1
    BY <1>0, <1>5
  <2>5. rest \in Seq(Fit) /\ Len(rest) = Len(es) - k
    BY <2>1, <2>4, RestIs
  <2>6. Len(rest) > 0
    BY <1>0, <2>5
  <2>7. PICK next : next = PopEntry(now)
    OBVIOUS
  <2>8. /\ next \in Ring /\ next.seq_counter = now.seq_counter
        /\ Laid(next, Rest(rest, 1), Ends(off, Len(rest), 1))
    BY <2>2, <2>3, <2>6, <2>7, PopOne
  <2>9. Holds(next, Rest(rest, 1))
    BY <2>8 DEF Holds, Laid
  <2>10. popped[k + 1] = next
    <3>1. now \in AnyRing
      BY <2>2, RingShape
    <3> QED
      BY <1>1, <1>4, <2>1, <2>4, <2>7, <3>1
  <2>11. Rest(rest, 1) = Rest(es, k + 1)
    BY <2>1, RestOfRest
  <2>12. PoppedRing(ring, es, k + 1, popped[k + 1])
    BY <2>2, <2>8, <2>9, <2>10, <2>11 DEF PoppedRing
  <2> QED
    BY <2>4, <2>12
<1> HIDE DEF T
<1>8. \A k \in 0 .. Len(es) : k \in T
  BY <1>0, <1>6, <1>7, UpTo
<1> QED
  BY <1>5, <1>8 DEF T

(* The loop stops, as an empty ring has room for whatever fits.            *)
NoRoom(es, k, size) ==
    k > 0 => \E before \in Ring : Holds(before, Rest(es, k - 1)) /\ ~ HasRoom(before, size)

MadeRoom(ring, es, size, out) ==
    \E k \in 0 .. Len(es) :
        PoppedRing(ring, es, k, out) /\ HasRoom(out, size) /\ NoRoom(es, k, size)

LEMMA PopMakesRoom ==
    ASSUME NEW ring \in Ring, NEW es \in Seq(Fit), Holds(ring, es),
           NEW size \in Nat, Fits(size)
    PROVE  MadeRoom(ring, es, size, PopUntilRoom(ring, size))
<1>1. PICK popped : popped = Iterate([r \in AnyRing |-> PopEntry(r)], ring, MostEntries)
  OBVIOUS
<1>2. /\ Len(es) <= MostEntries /\ MostEntries \in Nat /\ Len(es) \in Nat /\ BufferSize \in Nat
      /\ \A k \in 0 .. Len(es) : PoppedRing(ring, es, k, popped[k])
  BY <1>1, PoppedRounds, RingSize, EntriesFit
<1>3. HasRoom(popped[Len(es)], size)
  <2>1. PICK last, none : last = popped[Len(es)] /\ none = Rest(es, Len(es))
    OBVIOUS
  <2>2. last \in Ring /\ Holds(last, none) /\ Len(none) = 0
    <3>1. Len(es) \in 0 .. Len(es) /\ Len(es) - Len(es) = 0
      BY <1>2
    <3> QED
      BY <1>2, <2>1, <3>1, RestIs DEF PoppedRing
  <2>3. last.buffer_used = 0
    BY <2>2 DEF Holds, Laid
  <2>4. BufferSize - 0 = BufferSize
    BY <1>2
  <2>5. TotalSize(size) <= BufferSize /\ TotalSize(size) \in Int
    BY DEF Fits, TotalSize, Ulong
  <2> QED
    BY <1>2, <2>1, <2>3, <2>4, <2>5 DEF HasRoom
<1> DEFINE T == {k \in 0 .. Len(es) : HasRoom(popped[k], size)}
           Enough(k) == /\ HasRoom(popped[k], size)
                        /\ \A j \in 0 .. k - 1 : ~ HasRoom(popped[j], size)
           enough == CHOOSE k \in 0 .. MostEntries : Enough(k)
<1>4. PICK m \in T : \A k \in T : m <= k
  <2>1. Len(es) \in T /\ T \in SUBSET Nat
    BY <1>2, <1>3
  <2> HIDE DEF T
  <2> QED
    BY <2>1, Least
<1>5. m \in 0 .. Len(es) /\ m \in 0 .. MostEntries /\ Enough(m)
  <2>1. m \in 0 .. Len(es) /\ m \in 0 .. MostEntries /\ HasRoom(popped[m], size)
    BY <1>2, <1>4
  <2>2. ASSUME NEW j \in 0 .. m - 1 PROVE ~ HasRoom(popped[j], size)
    <3>1. j \in 0 .. Len(es) /\ ~ (m <= j)
      BY <1>2, <2>1
    <3> QED
      BY <1>4, <3>1
  <2> QED
    BY <2>1, <2>2
<1>6. enough \in 0 .. MostEntries /\ Enough(enough)
  <2> HIDE DEF Enough
  <2> QED
    BY <1>5
<1>7. PopUntilRoom(ring, size) = popped[enough]
  BY <1>1, Zenon DEF PopUntilRoom
<1> HIDE DEF enough, T
<1>8. enough \in 0 .. Len(es) /\ HasRoom(popped[enough], size)
  <2>1. ~ (m \in 0 .. enough - 1)
    BY <1>5, <1>6
  <2> QED
    BY <1>2, <1>5, <1>6, <2>1
<1>9. NoRoom(es, enough, size)
  <2>1. ASSUME enough > 0
        PROVE  \E before \in Ring : Holds(before, Rest(es, enough - 1)) /\ ~ HasRoom(before, size)
    <3>1. enough - 1 \in 0 .. enough - 1 /\ enough - 1 \in 0 .. Len(es)
      BY <1>2, <1>8, <2>1
    <3>2. PICK before : before = popped[enough - 1]
      OBVIOUS
    <3>3. ~ HasRoom(before, size)
      BY <1>6, <3>1, <3>2
    <3>4. before \in Ring /\ Holds(before, Rest(es, enough - 1))
      BY <1>2, <3>1, <3>2 DEF PoppedRing
    <3> QED
      BY <3>3, <3>4
  <2> QED
    BY <2>1 DEF NoRoom
<1> QED
  BY <1>2, <1>7, <1>8, <1>9 DEF MadeRoom

(* log_buffer_push_entry takes the next number.                            *)
Numbered(ring) == [ring EXCEPT !.seq_counter = Successor(@)]

LEMMA NumberedHolds ==
    ASSUME NEW ring \in Ring, NEW es, Holds(ring, es)
    PROVE  /\ Numbered(ring) \in Ring /\ Holds(Numbered(ring), es)
           /\ Numbered(ring).seq_counter = Successor(ring.seq_counter)
           /\ Numbered(ring).buffer_used = ring.buffer_used
<1>1. PICK next, out : next = Successor(ring.seq_counter) /\ out = Numbered(ring)
  OBVIOUS
<1>2. next \in 0 .. Limit - 1
  <2>1. ring.seq_counter + 1 \in Int /\ Limit \in Nat /\ Limit > 0
    <3>1. Base * Base > 0 /\ Base * Base \in Nat
      BY RingSize
    <3> QED
      BY <3>1, RingShape DEF Limit
  <2> QED
    BY <1>1, <2>1, ModMod DEF Successor
<1>3. /\ out \in Ring /\ out.seq_counter = next /\ out.buffer_used = ring.buffer_used
      /\ out.buffer_start_ptr = ring.buffer_start_ptr
      /\ out.buffer_data = ring.buffer_data
  <2>1. out = [ring EXCEPT !.seq_counter = next]
    BY <1>1 DEF Numbered, Ring
  <2> QED
    BY <1>2, <2>1 DEF Ring
<1>4. \A o : At(out, o) = At(ring, o)
  BY <1>3 DEF At
<1>5. PICK off \in [0 .. Len(es) -> 0 .. BufferSize] : Laid(ring, es, off)
  BY DEF Holds
<1>6. \A i \in 1 .. Len(es) : Lies(out, off[i - 1], es[i])
  <2>1. \A i \in 1 .. Len(es) : Lies(ring, off[i - 1], es[i])
    BY <1>5 DEF Laid
  <2> QED
    BY <1>4, <2>1 DEF Lies, Stores
<1>7. Laid(out, es, off)
  BY <1>3, <1>5, <1>6 DEF Laid
<1> QED
  BY <1>1, <1>3, <1>5, <1>7 DEF Holds

(* log_buffer_push_entry: what is left of the entries, and the new one.    *)
PushedRing(ring, es, e, out) ==
    /\ out.seq_counter = e.number
    /\ \E k \in 0 .. Len(es) :
          Holds(out, Append(Rest(es, k), e)) /\ NoRoom(es, k, Len(e.data))

AfterPush(ring, es, e, out) ==
    out \in Ring /\ IF Fits(Len(e.data)) THEN PushedRing(ring, es, e, out) ELSE out = ring

LEMMA PushOne ==
    ASSUME NEW ring \in Ring, NEW es \in Seq(Fit), Holds(ring, es),
           NEW data \in Seq(Cell), Len(data) < Limit,
           NEW e, e = [number |-> Successor(ring.seq_counter), data |-> data],
           NEW out, out = PushEntry(ring, data, TRUE)
    PROVE  AfterPush(ring, es, e, out)
<1>1. PICK size, next : size = Len(data) /\ next = Numbered(ring)
  OBVIOUS
<1>2. /\ next \in Ring /\ Holds(next, es) /\ size \in Nat /\ size < Limit
      /\ next.seq_counter = Successor(ring.seq_counter)
      /\ next.buffer_used = ring.buffer_used
  BY <1>1, NumberedHolds
<1>3. out = IF ~ Fits(size) THEN ring
            ELSE IF HasRoom(ring, size) THEN AppendEntry(next, data)
            ELSE AppendEntry(PopUntilRoom(next, size), data)
  BY <1>1, Zenon DEF PushEntry, Numbered
<1>4. CASE ~ Fits(size)
  BY <1>1, <1>3, <1>4 DEF AfterPush
<1>5. CASE Fits(size) /\ HasRoom(ring, size)
  <2>1. HasRoom(next, size) /\ out = AppendEntry(next, data)
    BY <1>2, <1>3, <1>5 DEF HasRoom
  <2>2. out \in Ring /\ Holds(out, Append(es, e)) /\ out.seq_counter = e.number
    BY <1>1, <1>2, <2>1, AppendOne
  <2>3. 0 \in 0 .. Len(es) /\ Rest(es, 0) = es /\ NoRoom(es, 0, Len(e.data))
    BY RestOfAll DEF NoRoom
  <2> QED
    BY <1>1, <1>5, <2>2, <2>3 DEF AfterPush, PushedRing
<1>6. CASE Fits(size) /\ ~ HasRoom(ring, size)
  <2>1. PICK room : room = PopUntilRoom(next, size)
    OBVIOUS
  <2>2. MadeRoom(next, es, size, room)
    BY <1>2, <1>6, <2>1, PopMakesRoom
  <2>3. PICK k \in 0 .. Len(es) :
          PoppedRing(next, es, k, room) /\ HasRoom(room, size) /\ NoRoom(es, k, size)
    BY <2>2 DEF MadeRoom
  <2>4. room \in Ring /\ room.seq_counter = Successor(ring.seq_counter)
        /\ Holds(room, Rest(es, k))
    BY <1>2, <2>3 DEF PoppedRing
  <2>5. out = AppendEntry(room, data)
    BY <1>3, <1>6, <2>1
  <2>6. out \in Ring /\ Holds(out, Append(Rest(es, k), e)) /\ out.seq_counter = e.number
    BY <1>1, <2>3, <2>4, <2>5, AppendOne
  <2> QED
    BY <1>1, <1>6, <2>3, <2>6 DEF AfterPush, PushedRing
<1> QED
  BY <1>4, <1>5, <1>6

-----------------------------------------------------------------------------
(* Finding the next entry                                                  *)

LEMMA UlongAny ==
    ASSUME NEW ring \in AnyRing, NEW p \in Int
    PROVE  GetUlong(ring, p) \in Int
<1>1. ring.buffer_data \in [0 .. BufferSize - 1 -> Int]
  BY DEF AnyRing
<1>2. ByteAt(p) \in Int
  BY RingSize DEF ByteAt
<1>3. Nth(p, 1) \in 0 .. BufferSize - 1 /\ Nth(p, 2) \in 0 .. BufferSize - 1
  <2>1. ByteAt(p) + 1 - 1 \in Int /\ ByteAt(p) + 2 - 1 \in Int
    BY <1>2
  <2> QED
    BY <2>1, RingSize, ModMod DEF Nth
<1>4. /\ GetBytes(ring, p, Ulong)[1] = ring.buffer_data[Nth(p, 1)]
      /\ GetBytes(ring, p, Ulong)[2] = ring.buffer_data[Nth(p, 2)]
  BY DEF GetBytes, Ulong
<1>5. ring.buffer_data[Nth(p, 1)] \in Int /\ ring.buffer_data[Nth(p, 2)] \in Int
  BY <1>1, <1>3
<1> QED
  BY <1>4, <1>5, RingSize DEF GetUlong, FromBytes

(* What is read where an entry ends.                                       *)
LEMMA ReadBack ==
    ASSUME NEW ring \in Ring, NEW es, NEW off, Laid(ring, es, off),
           NEW i \in 1 .. Len(es), NEW left, left = off[i]
    PROVE  /\ TotalAt(ring, left) = SizeOf(es[i])
           /\ NumberAt(ring, left) = es[i].number
           /\ Means(ring, ReadPtr(ring, left), off[i - 1])
<1>1. PICK e, s, o, start : /\ e = es[i] /\ s = Len(e.data) /\ o = off[i - 1]
                            /\ start = ring.buffer_start_ptr
  OBVIOUS
<1>2. /\ e \in Fit /\ s \in Nat /\ s \in 0 .. Limit - 1 /\ e.number \in 0 .. Limit - 1
      /\ SizeOf(e) = s + 6 /\ o \in Nat /\ left = o + (s + 6) /\ Lies(ring, o, e)
      /\ left <= BufferSize /\ BufferSize \in Nat
      /\ start \in 0 .. BufferSize - 1 /\ start \in Int
  <2>1. /\ e \in Fit /\ o \in Nat /\ left = o + SizeOf(e) /\ Lies(ring, o, e)
    BY <1>1, Bounds DEF Laid
  <2>2. i \in 0 .. Len(es) /\ left \in 0 .. ring.buffer_used
    BY Bounds
  <2>3. ring.buffer_used \in 0 .. BufferSize
    BY RingShape
  <2>4. /\ e.number \in 0 .. Limit - 1 /\ Len(e.data) \in 0 .. Limit - 1
        /\ Len(e.data) \in Nat /\ SizeOf(e) = Len(e.data) + 6
    BY <2>1, FitEntry
  <2>5. s \in 0 .. Limit - 1 /\ s \in Nat /\ SizeOf(e) = s + 6
    BY <1>1, <2>4, Zenon
  <2>6. left = o + (s + 6)
    BY <2>1, <2>5, Zenon
  <2>7. left <= BufferSize /\ BufferSize \in Nat
    BY <2>2, <2>3, RingSize
  <2>8. start \in 0 .. BufferSize - 1 /\ start \in Int
    BY <1>1, RingShape
  <2> QED
    BY <2>1, <2>4, <2>5, <2>6, <2>7, <2>8, Zenon
<1>3. PICK p, d : p = EndPtr(ring, left) /\ d = o + 4 + s
  OBVIOUS
<1>4. p = start + d /\ p \in Pointer /\ d \in Int
  <2>1. p = ring.buffer_start_ptr + left - 2
    BY <1>3 DEF EndPtr, Ulong
  <2>2. d = left - 2 /\ d \in 0 .. BufferSize /\ left \in Int
    <3>1. left = o + (s + 6) /\ o \in Nat /\ s \in Nat /\ left <= BufferSize
      BY <1>2
    <3>2. d = o + 4 + s
      BY <1>3
    <3> QED
      BY <3>1, <3>2, RingSize
  <2>3. p = start + d
    BY <1>1, <1>2, <2>1, <2>2
  <2> QED
    BY <1>2, <2>2, <2>3 DEF Pointer
<1>5. Means(ring, p, d)
  BY <1>1, <1>4 DEF Means
<1>6. Stores(ring, d, s)
  BY <1>1, <1>3, <1>2 DEF Lies
<1>7. GetUlong(ring, p) = s
  BY <1>2, <1>5, <1>6, UlongRead
<1>8. TotalAt(ring, left) = s + 6
  BY <1>2, <1>3, <1>7 DEF TotalAt, TotalSize, Ulong
<1>9. PICK b, q : b = Behind(p, 2) /\ q = ReadPtr(ring, left)
  OBVIOUS
<1>10. Means(ring, b, d + 2) /\ b \in 1 .. BufferSize
  BY <1>5, <1>9, BehindMeans
<1>11. q = b + (- (s + 6)) /\ q \in Pointer /\ - (s + 6) \in Int
  BY <1>2, <1>3, <1>8, <1>9, <1>10 DEF ReadPtr, Ulong, Pointer
<1>12. Means(ring, q, o)
  <2>1. Means(ring, q, (d + 2) + (- (s + 6)))
    BY <1>10, <1>11, MovedMeans
  <2>2. (d + 2) + (- (s + 6)) = o
    BY <1>2, <1>3
  <2> QED
    BY <2>1, <2>2
<1>13. NumberAt(ring, left) = e.number
  <2>1. q + 2 \in Pointer
    BY <1>2, <1>10, <1>11 DEF Pointer
  <2>2. Means(ring, q + 2, o + 2)
    BY <1>12, <2>1, MovedMeans
  <2>3. Stores(ring, o + 2, e.number)
    BY <1>2 DEF Lies
  <2>4. GetUlong(ring, q + 2) = e.number
    BY <1>2, <2>2, <2>3, UlongRead
  <2> QED
    BY <1>9, <2>4 DEF NumberAt, Ulong
<1> QED
  BY <1>1, <1>2, <1>8, <1>9, <1>12, <1>13

(* The walk back passes the end of one entry after the other.              *)
LEMMA WalkBack ==
    ASSUME NEW ring \in Ring, NEW es, NEW off, Laid(ring, es, off),
           NEW left, left = Iterate([l \in Int |-> l - TotalAt(ring, l)],
                                    ring.buffer_used, MostEntries)
    PROVE  Len(es) <= MostEntries /\ \A k \in 0 .. Len(es) : left[k] = off[Len(es) - k]
<1>1. PICK step, n : step = [l \in Int |-> l - TotalAt(ring, l)] /\ n = Len(es)
  OBVIOUS
<1>2. /\ BufferSize \in Nat /\ MostEntries \in Nat /\ n \in Nat
      /\ ring.buffer_used \in 0 .. BufferSize
      /\ ring.buffer_used \in Int
  BY <1>1, RingSize, RingShape, EntriesFit, FewEntries
<1>3. step \in [Int -> Int]
  <2>1. ASSUME NEW l \in Int PROVE l - TotalAt(ring, l) \in Int
    <3>1. EndPtr(ring, l) \in Int
      BY RingShape DEF EndPtr, Ulong
    <3>2. GetUlong(ring, EndPtr(ring, l)) \in Int
      BY <3>1, UlongAny, RingShape
    <3> QED
      BY <3>2 DEF TotalAt, TotalSize, Ulong
  <2> QED
    BY <1>1, <2>1
<1>4. left[0] = ring.buffer_used
      /\ \A k \in 0 .. MostEntries - 1 : left[k + 1] = step[left[k]]
  <2>1. Steps(step, ring.buffer_used, MostEntries, Iterate(step, ring.buffer_used, MostEntries))
    BY <1>2, <1>3, IterateRounds
  <2> QED
    BY <1>1, <2>1 DEF Steps
<1>5. n <= MostEntries
  BY <1>1, FewEntries
<1> DEFINE T == {k \in 0 .. n : left[k] = off[n - k]}
<1>6. 0 \in T
  <2>1. off[n] = ring.buffer_used /\ n - 0 = n
    BY <1>1, <1>2 DEF Laid
  <2> QED
    BY <1>2, <1>4, <2>1
<1>7. ASSUME NEW k \in 0 .. n - 1, k \in T PROVE k + 1 \in T
  <2>1. PICK i : i = n - k
    OBVIOUS
  <2>2. /\ i \in 1 .. n /\ i - 1 = n - (k + 1) /\ k + 1 \in 0 .. n
        /\ k \in 0 .. MostEntries - 1
    BY <1>2, <1>5, <2>1
  <2>3. left[k] = off[i] /\ off[i] \in Int
    <3>1. off[i] = off[i - 1] + SizeOf(es[i]) /\ off[i - 1] \in Nat /\ es[i] \in Fit
      BY <1>1, <2>2, Bounds
    <3> QED
      BY <1>7, <2>1, <3>1, FitEntry
  <2>4. TotalAt(ring, left[k]) = SizeOf(es[i])
    BY <1>1, <2>2, <2>3, ReadBack
  <2>5. left[k + 1] = left[k] - TotalAt(ring, left[k])
    BY <1>1, <1>4, <2>2, <2>3
  <2>6. off[i] = off[i - 1] + SizeOf(es[i]) /\ off[i - 1] \in Nat /\ SizeOf(es[i]) \in Nat
    BY <1>1, <2>2, Bounds, FitEntry
  <2>7. left[k + 1] = off[i - 1]
    BY <2>3, <2>4, <2>5, <2>6
  <2> QED
    BY <2>2, <2>7
<1> HIDE DEF T
<1>8. \A k \in 0 .. n : k \in T
  BY <1>2, <1>6, <1>7, UpTo
<1> QED
  BY <1>1, <1>5, <1>8 DEF T

(* The entry with the number after seq, or else the oldest one; nothing if *)
(* there is no entry, or the newest is the one with number seq.            *)
IsNext(es, seq, i) ==
    /\ es[Len(es)].number # seq
    /\ i = 1 \/ es[i].number = Successor(seq)
    /\ \A j \in i + 1 .. Len(es) : es[j].number # Successor(seq)

NextFound(ring, es, off, seq, found) ==
    \/ found = {} /\ (Len(es) = 0 \/ es[Len(es)].number = seq)
    \/ \E i \in 1 .. Len(es), ptr \in found :
          found = {ptr} /\ Means(ring, ptr, off[i - 1]) /\ IsNext(es, seq, i)

LEMMA GetNextFinds ==
    ASSUME NEW ring \in Ring, NEW es, NEW off, Laid(ring, es, off), NEW seq
    PROVE  NextFound(ring, es, off, seq, GetNext(seq, ring))
<1>1. PICK left, n, found :
        /\ left = Iterate([l \in Int |-> l - TotalAt(ring, l)], ring.buffer_used, MostEntries)
        /\ n = Len(es) /\ found = GetNext(seq, ring)
  OBVIOUS
<1>2. /\ n \in Nat /\ n <= MostEntries /\ MostEntries \in Nat
      /\ \A k \in 0 .. n : left[k] = off[n - k]
      /\ off[0] = 0 /\ off[n] = ring.buffer_used
      /\ \A i \in 0 .. n : i <= off[i] /\ off[i] \in Nat
  <2>1. /\ n <= MostEntries /\ \A k \in 0 .. n : left[k] = off[n - k]
    BY <1>1, WalkBack
  <2>2. /\ n \in Nat /\ \A i \in 0 .. n : i <= off[i] /\ off[i] \in 0 .. ring.buffer_used
    BY <1>1, Bounds
  <2>3. ring.buffer_used \in 0 .. BufferSize
    BY RingShape
  <2> QED
    BY <1>1, <2>1, <2>2, <2>3, RingSize, EntriesFit DEF Laid
<1>3. ASSUME NEW k \in 0 .. n - 1
      PROVE  /\ n - k \in 1 .. n /\ left[k] # 0
             /\ NumberAt(ring, left[k]) = es[n - k].number
             /\ Means(ring, ReadPtr(ring, left[k]), off[(n - k) - 1])
  <2>1. PICK i : i = n - k
    OBVIOUS
  <2>2. i \in 1 .. n /\ i \in 0 .. n /\ left[k] = off[i]
    BY <1>2, <2>1
  <2>3. left[k] # 0
    BY <1>2, <2>2
  <2>4. /\ NumberAt(ring, left[k]) = es[i].number
        /\ Means(ring, ReadPtr(ring, left[k]), off[i - 1])
    BY <1>1, <2>2, ReadBack
  <2> QED
    BY <2>1, <2>2, <2>3, <2>4
<1>4. left[n] = 0
  BY <1>2
<1> DEFINE gotLast(k) == k = 0 /\ NumberAt(ring, left[k]) = seq
           ends(k) == \/ left[k] = 0 \/ gotLast(k)
                      \/ NumberAt(ring, left[k]) = Successor(seq)
           First(k) == ends(k) /\ \A j \in 0 .. k - 1 : ~ ends(j)
           round == CHOOSE k \in 0 .. MostEntries : First(k)
           T == {k \in 0 .. n : ends(k)}
<1>5. PICK m \in T : \A k \in T : m <= k
  <2>1. n \in T /\ T \in SUBSET Nat
    BY <1>2, <1>4
  <2> HIDE DEF T
  <2> QED
    BY <2>1, Least
<1>6. m \in 0 .. n /\ m \in 0 .. MostEntries /\ First(m)
  <2>1. m \in 0 .. n /\ m \in 0 .. MostEntries /\ ends(m)
    BY <1>2, <1>5
  <2>2. ASSUME NEW j \in 0 .. m - 1 PROVE ~ ends(j)
    <3>1. j \in 0 .. n /\ ~ (m <= j)
      BY <1>2, <2>1
    <3> HIDE DEF ends
    <3> QED
      BY <1>5, <3>1
  <2> HIDE DEF ends
  <2> QED
    BY <2>1, <2>2
<1>7. round \in 0 .. MostEntries /\ First(round)
  <2> HIDE DEF First
  <2> QED
    BY <1>6
<1>8. found = IF ring.buffer_used = 0 THEN {}
              ELSE IF left[round] = 0 THEN {ring.buffer_start_ptr}
              ELSE IF gotLast(round) THEN {}
              ELSE {ReadPtr(ring, left[round])}
  BY <1>1, Zenon DEF GetNext
<1> HIDE DEF round, T
<1>9. round \in 0 .. n /\ ends(round) /\ \A j \in 0 .. round - 1 : ~ ends(j)
  <2>1. ~ (m \in 0 .. round - 1)
    <3> HIDE DEF ends
    <3> QED
      BY <1>6, <1>7
  <2> HIDE DEF ends
  <2> QED
    BY <1>2, <1>6, <1>7, <2>1
<1>10. CASE ring.buffer_used = 0
  <2>1. n = 0
    BY <1>2, <1>10
  <2>2. found = {}
    BY <1>8, <1>10
  <2> QED
    BY <1>1, <2>1, <2>2 DEF NextFound
<1>11. CASE ring.buffer_used # 0 /\ gotLast(round) /\ left[round] # 0
  <2>1. found = {} /\ round = 0 /\ NumberAt(ring, left[0]) = seq
    BY <1>8, <1>11
  <2>2. n # 0 /\ 0 \in 0 .. n - 1 /\ n - 0 = n
    BY <1>2, <1>11
  <2>3. es[n].number = seq
    BY <1>3, <2>1, <2>2
  <2> QED
    BY <1>1, <2>1, <2>3 DEF NextFound
<1>12. CASE ring.buffer_used # 0 /\ (left[round] = 0 \/ ~ gotLast(round))
  <2>0. n # 0 /\ 0 \in 0 .. n - 1 /\ n - 0 = n /\ n \in 1 .. n /\ 1 \in 1 .. n
    BY <1>2, <1>12
  <2>1. es[n].number # seq
    <3>1. ~ gotLast(0)
      <4>1. CASE round = 0
        <5>1. left[0] # 0
          BY <1>3, <2>0
        <5> QED
          BY <1>12, <4>1, <5>1
      <4>2. CASE round # 0
        BY <1>9, <4>2
      <4> QED
        BY <4>1, <4>2
    <3> QED
      BY <1>3, <2>0, <3>1
  <2>2. ASSUME NEW j \in 1 .. n, NEW i \in 1 .. n, i < j, n - round <= i
        PROVE  es[j].number # Successor(seq)
    <3>1. PICK k : k = n - j
      OBVIOUS
    <3>2. k \in 0 .. n - 1 /\ k \in 0 .. round - 1 /\ n - k = j
      BY <1>2, <1>9, <2>2, <3>1
    <3>3. ~ (NumberAt(ring, left[k]) = Successor(seq))
      BY <1>9, <3>2
    <3> QED
      BY <1>3, <3>2, <3>3
  <2>3. CASE left[round] = 0
    <3>1. round = n
      <4>1. ~ (round \in 0 .. n - 1)
        BY <1>3, <2>3
      <4> QED
        BY <1>2, <1>9, <4>1
    <3>2. IsNext(es, seq, 1)
      <4>1. \A j \in 1 + 1 .. n : j \in 1 .. n /\ 1 < j /\ n - round <= 1
        BY <1>2, <3>1
      <4> QED
        BY <1>1, <2>0, <2>1, <2>2, <4>1 DEF IsNext
    <3>3. Means(ring, ring.buffer_start_ptr, off[1 - 1])
      BY <1>2, StartMeans
    <3>4. found = {ring.buffer_start_ptr}
      BY <1>8, <1>12, <2>3
    <3> QED
      BY <1>1, <2>0, <3>2, <3>3, <3>4 DEF NextFound
  <2>4. CASE left[round] # 0
    <3>1. round \in 0 .. n - 1 /\ NumberAt(ring, left[round]) = Successor(seq)
      BY <1>2, <1>4, <1>9, <1>12, <2>4
    <3>2. PICK i, ptr : i = n - round /\ ptr = ReadPtr(ring, left[round])
      OBVIOUS
    <3>3. /\ i \in 1 .. n /\ es[i].number = Successor(seq) /\ Means(ring, ptr, off[i - 1])
      BY <1>3, <3>1, <3>2
    <3>4. IsNext(es, seq, i)
      <4>1. \A j \in i + 1 .. n : j \in 1 .. n /\ i < j /\ n - round <= i
        BY <1>2, <3>2, <3>3
      <4> QED
        BY <1>1, <2>1, <2>2, <3>3, <4>1 DEF IsNext
    <3>5. found = {ptr}
      BY <1>8, <1>12, <2>4, <3>2
    <3> QED
      BY <1>1, <3>3, <3>4, <3>5 DEF NextFound
  <2> QED
    BY <2>3, <2>4
<1> QED
  BY <1>10, <1>11, <1>12

-----------------------------------------------------------------------------
(* Walking the ring                                                        *)

(* What has been seen of the entries after some rounds.                    *)
Walked(ring, n, off, read, k, walk) ==
    \E m \in 0 .. n :
        /\ walk.past = off[m] /\ Len(walk.seen) = m /\ (m = n \/ m = k)
        /\ \A i \in 1 .. m : walk.seen[i] = read[ring.buffer_start_ptr + off[i - 1]]

LEMMA WalkRounds ==
    ASSUME NEW ring \in Ring, NEW es, NEW off, Laid(ring, es, off),
           NEW S, NEW read \in [Int -> S]
    PROVE  /\ Walk(ring, S, read) \in Seq(S) /\ Len(Walk(ring, S, read)) = Len(es)
           /\ \A i \in 1 .. Len(es) :
                 Walk(ring, S, read)[i] = read[ring.buffer_start_ptr + off[i - 1]]
<1>1. PICK W, n, start, used :
        /\ W = [past : Int, seen : Seq(S)] /\ n = Len(es)
        /\ start = ring.buffer_start_ptr /\ used = ring.buffer_used
  OBVIOUS
<1>2. PICK step : step = [walk \in W |-> WalkOne(ring, read, walk)]
  OBVIOUS
<1>3. PICK first : first = [past |-> 0, seen |-> << >>]
  OBVIOUS
<1>4. PICK walks : walks = Iterate(step, first, MostEntries)
  OBVIOUS
<1>5. /\ n \in Nat /\ n <= MostEntries /\ MostEntries \in Nat /\ start \in Int
      /\ off[0] = 0 /\ off[n] = used
      /\ \A i \in 0 .. n : off[i] \in Nat
      /\ \A i \in 0 .. n : i < n => off[i] # used
  <2>1. /\ n \in Nat /\ \A i \in 0 .. n : off[i] \in 0 .. used
        /\ \A i, j \in 0 .. n : i < j => off[i] + 6 <= off[j]
    BY <1>1, Bounds
  <2>2. used \in 0 .. BufferSize /\ start \in Int
    BY <1>1, RingShape
  <2>3. off[0] = 0 /\ off[n] = used /\ n \in 0 .. n
    BY <1>1, <2>1 DEF Laid
  <2>4. \A i \in 0 .. n : off[i] \in Nat
    BY <2>1, <2>2, RingSize
  <2>5. \A i \in 0 .. n : i < n => off[i] # used
    BY <2>1, <2>3, <2>4
  <2> QED
    BY <1>1, <2>1, <2>2, <2>3, <2>4, <2>5, FewEntries, EntriesFit
<1>6. ASSUME NEW walk \in W
      PROVE  /\ WalkOne(ring, read, walk) \in W
             /\ walk.past = used => WalkOne(ring, read, walk) = walk
             /\ walk.past # used =>
                  /\ WalkOne(ring, read, walk).past =
                        walk.past + TotalSize(SizeAt(ring, start + walk.past))
                  /\ WalkOne(ring, read, walk).seen =
                        Append(walk.seen, read[start + walk.past])
  <2>1. PICK ptr : ptr = start + walk.past
    OBVIOUS
  <2>2. walk.past \in Int /\ walk.seen \in Seq(S) /\ ptr \in Int
    BY <1>1, <1>5, <2>1
  <2>3. PICK total : total = TotalSize(SizeAt(ring, ptr))
    OBVIOUS
  <2>4. total \in Int
    <3>1. GetUlong(ring, ptr) \in Int
      BY <2>2, UlongAny, RingShape
    <3> QED
      BY <2>3, <3>1 DEF SizeAt, TotalSize, Ulong
  <2>5. WalkOne(ring, read, walk) = IF walk.past = used THEN walk
                                    ELSE [past |-> walk.past + total,
                                          seen |-> Append(walk.seen, read[ptr])]
    BY <1>1, <2>1, <2>3, Zenon DEF WalkOne
  <2>6. Append(walk.seen, read[ptr]) \in Seq(S)
    BY <2>2
  <2> QED
    BY <1>1, <2>1, <2>2, <2>3, <2>4, <2>5, <2>6
<1>7. step \in [W -> W] /\ first \in W
  <2>1. << >> \in Seq(S)
    OBVIOUS
  <2> QED
    BY <1>1, <1>2, <1>3, <1>6, <2>1
<1>8. /\ walks \in [0 .. MostEntries -> W] /\ walks[0] = first
      /\ \A k \in 0 .. MostEntries - 1 : walks[k + 1] = step[walks[k]]
  <2>1. /\ walks \in [0 .. MostEntries -> W] /\ Steps(step, first, MostEntries, walks)
    BY <1>4, <1>5, <1>7, IterateRounds
  <2> QED
    BY <2>1 DEF Steps
<1> DEFINE T == {k \in 0 .. MostEntries : Walked(ring, n, off, read, k, walks[k])}
<1>9. 0 \in T
  <2>1. Len(<< >>) = 0
    OBVIOUS
  <2>2. walks[0].past = off[0] /\ Len(walks[0].seen) = 0 /\ 0 \in 0 .. n
    BY <1>3, <1>5, <1>8, <2>1
  <2>3. Walked(ring, n, off, read, 0, walks[0])
    BY <2>2 DEF Walked
  <2> QED
    BY <1>5, <2>3
<1>10. ASSUME NEW k \in 0 .. MostEntries - 1, k \in T PROVE k + 1 \in T
  <2>1. PICK walk, next : walk = walks[k] /\ next = walks[k + 1]
    OBVIOUS
  <2>2. walk \in W /\ next = WalkOne(ring, read, walk)
    BY <1>2, <1>5, <1>8, <2>1
  <2>3. PICK m \in 0 .. n :
          /\ walk.past = off[m] /\ Len(walk.seen) = m /\ (m = n \/ m = k)
          /\ \A i \in 1 .. m : walk.seen[i] = read[start + off[i - 1]]
    BY <1>1, <1>10, <2>1 DEF Walked
  <2>4. CASE m = n
    <3>1. next = walk
      BY <1>5, <1>6, <2>2, <2>3, <2>4
    <3>2. Walked(ring, n, off, read, k + 1, next)
      BY <1>1, <2>3, <2>4, <3>1 DEF Walked
    <3> QED
      BY <1>5, <2>1, <3>2
  <2>5. CASE m < n
    <3>1. m = k /\ m \in Nat /\ m + 1 \in 0 .. n /\ m + 1 \in 1 .. n /\ (m + 1) - 1 = m
      BY <1>5, <2>3, <2>5
    <3>2. PICK e, o : e = es[m + 1] /\ o = off[m]
      OBVIOUS
    <3>3. /\ e \in Fit /\ o \in Nat /\ off[m + 1] = o + SizeOf(e) /\ Lies(ring, o, e)
      BY <1>1, <1>5, <3>1, <3>2, Bounds DEF Laid
    <3>4. Means(ring, start + o, o)
      <4>1. start + o \in Pointer
        <5>1. o \in 0 .. used /\ used \in 0 .. BufferSize /\ start \in 0 .. BufferSize - 1
          BY <1>1, <3>1, <3>2, Bounds, RingShape
        <5> QED
          BY <5>1, RingSize DEF Pointer
      <4> QED
        BY <1>1, <3>3, <4>1 DEF Means
    <3>5. TotalSize(SizeAt(ring, start + o)) = SizeOf(e)
      BY <3>3, <3>4, EntryRead DEF SizeOf
    <3>6. walk.past = o /\ walk.past # used
      BY <1>5, <2>3, <2>5, <3>2
    <3>7. next.past = off[m + 1] /\ next.seen = Append(walk.seen, read[start + o])
      BY <1>6, <2>2, <3>3, <3>5, <3>6
    <3>8. walk.seen \in Seq(S) /\ read[start + o] \in S
      BY <1>1, <1>5, <2>2, <3>3
    <3>9. /\ Len(next.seen) = m + 1 /\ next.seen[m + 1] = read[start + o]
          /\ \A i \in 1 .. m : next.seen[i] = walk.seen[i]
      BY <2>3, <3>7, <3>8
    <3>10. \A i \in 1 .. m + 1 : next.seen[i] = read[start + off[i - 1]]
      <4>1. \A i \in 1 .. m + 1 : i \in 1 .. m \/ i = m + 1
        BY <3>1
      <4> QED
        BY <2>3, <3>1, <3>2, <3>9, <4>1
    <3>11. Walked(ring, n, off, read, k + 1, next)
      BY <1>1, <3>1, <3>7, <3>9, <3>10 DEF Walked
    <3> QED
      BY <1>5, <2>1, <3>11
  <2> QED
    BY <1>5, <2>3, <2>4, <2>5
<1> HIDE DEF T
<1>11. \A k \in 0 .. MostEntries : k \in T
  BY <1>5, <1>9, <1>10, UpTo
<1>12. PICK out : out = walks[MostEntries].seen
  OBVIOUS
<1>13. out = Walk(ring, S, read)
  BY <1>1, <1>2, <1>3, <1>4, <1>12, Zenon DEF Walk
<1>14. out \in Seq(S)
  BY <1>1, <1>5, <1>8, <1>12
<1>15. Len(out) = n /\ \A i \in 1 .. n : out[i] = read[start + off[i - 1]]
  <2>1. Walked(ring, n, off, read, MostEntries, walks[MostEntries])
    BY <1>5, <1>11 DEF T
  <2>2. PICK m \in 0 .. n :
          /\ Len(out) = m /\ (m = n \/ m = MostEntries)
          /\ \A i \in 1 .. m : out[i] = read[start + off[i - 1]]
    BY <1>1, <1>12, <2>1 DEF Walked
  <2>3. m = n
    BY <1>5, <2>2
  <2> QED
    BY <2>2, <2>3
<1> QED
  BY <1>1, <1>13, <1>14, <1>15

-----------------------------------------------------------------------------
(* Messages                                                                *)

(* An entry holds what Api_AddMessage wrote: the session and the text that *)
(* belongs to the number.                                                  *)
Message(e) ==
    \E owner \in Session, len \in TextLength :
        e.data = ToBytes(owner) \o TextOf(e.number, len)

Messages(es) == es \in Seq(Fit) /\ \A i \in 1 .. Len(es) : Message(es[i])

(* Messages are numbered one after the other, up to the last number.       *)
Numbers(es, last) ==
    \A i \in 1 .. Len(es) : es[i].number = (last - (Len(es) - i)) % Limit

OwnText ==
    got.status = "SUCCESS" =>
        \A i \in DOMAIN got.text :
            got.text[i] # Foreign => got.text[i] = TextOf(got.number, Len(got.text))[i]

MessageInv ==
    /\ MessageTypeOK
    /\ OwnText
    /\ \E es : Messages(es) /\ Holds(log, es) /\ Numbers(es, log.seq_counter)

LEMMA LimitSize == Limit \in Nat /\ Limit > 3 /\ Limit > 0
<1>1. (Base - 2) * (Base - 2) >= 0 /\ Base * Base = (Base - 2) * (Base - 2) + 4 * Base - 4
  BY RingSize
<1>2. Base * Base \in Nat /\ Base * Base > 3
  BY RingSize, <1>1
<1> QED
  BY <1>2 DEF Limit

LEMMA Apart ==
    ASSUME NEW n \in Nat, n > 0, NEW a \in Int, NEW b \in Int, a < b, b - a < n
    PROVE  a % n # b % n
<1> SUFFICES ASSUME a % n = b % n PROVE FALSE
  OBVIOUS
<1>1. PICK p, q, r : p = a \div n /\ q = b \div n /\ r = a % n
  OBVIOUS
<1>2. p \in Int /\ q \in Int /\ r \in Int /\ a = p * n + r /\ b = q * n + r
  BY <1>1
<1>3. p * n \in Int /\ q * n \in Int /\ (q - p) * n = q * n - p * n
  BY <1>2
<1>4. (q - p) * n > 0 /\ (q - p) * n < n
  BY <1>2, <1>3
<1>5. CASE q - p <= 0
  BY <1>2, <1>4, <1>5
<1>6. CASE q - p >= 1
  BY <1>2, <1>4, <1>6
<1> QED
  BY <1>2, <1>5, <1>6

(* There are fewer messages than numbers: no two have the same one.        *)
LEMMA NumbersApart ==
    ASSUME NEW es \in Seq(Fit), Len(es) <= MostEntries, NEW last \in 0 .. Limit - 1,
           Numbers(es, last)
    PROVE  /\ \A i, j \in 1 .. Len(es) : es[i].number = es[j].number => i = j
           /\ \A i \in 1 .. Len(es) - 1 : es[i + 1].number = Successor(es[i].number)
           /\ \A n \in 0 .. Limit - 1, i \in 1 .. Len(es) :
                 i > 1 /\ es[i].number = Successor(n) => es[i - 1].number = n
<1>0. PICK n, L : n = Len(es) /\ L = Limit
  OBVIOUS
<1>1. /\ n \in Nat /\ L \in Nat /\ L > 0 /\ n < L /\ last \in 0 .. L - 1
      /\ \A i \in 1 .. n : es[i].number = (last - (n - i)) % L
      /\ \A i \in 1 .. n : es[i].number \in 0 .. L - 1
  <2>1. n \in Nat /\ L \in Nat /\ L > 0
    BY <1>0, LimitSize
  <2>2. n < L
    BY <1>0, <2>1, EntriesFit, MessageAssumption
  <2>3. \A i \in 1 .. n : es[i] \in Fit
    BY <1>0
  <2> QED
    BY <1>0, <2>1, <2>2, <2>3, FitEntry DEF Numbers
<1>2. ASSUME NEW i \in 1 .. n, NEW j \in 1 .. n, i < j
      PROVE  es[i].number # es[j].number
  <2>1. PICK a, b : a = last - (n - i) /\ b = last - (n - j)
    OBVIOUS
  <2>2. a \in Int /\ b \in Int /\ a < b /\ b - a < L
    BY <1>1, <1>2, <2>1
  <2>3. a % L # b % L
    BY <1>1, <2>2, Apart
  <2> QED
    BY <1>1, <2>1, <2>3
<1>3. ASSUME NEW i \in 1 .. n - 1
      PROVE  es[i + 1].number = (es[i].number + 1) % L
  <2>1. PICK a : a = last - (n - i)
    OBVIOUS
  <2>2. a \in Int /\ a + 1 = last - (n - (i + 1)) /\ i \in 1 .. n /\ i + 1 \in 1 .. n
    BY <1>1, <2>1
  <2>3. es[i].number = a % L /\ es[i + 1].number = (a + 1) % L
    BY <1>1, <2>1, <2>2
  <2>4. PICK b : b = a % L
    OBVIOUS
  <2>5. b % L = a % L /\ b \in Int
    BY <1>1, <2>2, <2>4, ModMod
  <2>6. (b + 1) % L = (a + 1) % L
    <3>1. ASSUME NEW one \in Int PROVE (b + one) % L = (a + one) % L
      BY <1>1, <2>2, <2>5, ModSame
    <3> QED
      BY <3>1
  <2> QED
    BY <2>3, <2>4, <2>6
<1>4. ASSUME NEW m \in 0 .. L - 1, NEW i \in 1 .. n, i > 1,
             es[i].number = (m + 1) % L
      PROVE  es[i - 1].number = m
  <2>1. PICK a : a = es[i - 1].number
    OBVIOUS
  <2>2. i - 1 \in 1 .. n - 1 /\ i - 1 \in 1 .. n /\ (i - 1) + 1 = i
    BY <1>1, <1>4
  <2>3. es[i].number = (a + 1) % L /\ a \in 0 .. L - 1
    BY <1>1, <1>3, <2>1, <2>2
  <2>4. PICK b, c : b = a + 1 /\ c = m + 1
    OBVIOUS
  <2>5. /\ b \in Int /\ c \in Int /\ b % L = c % L
        /\ (b < c => c - b < L) /\ (c < b => b - c < L)
    BY <1>1, <1>4, <2>3, <2>4
  <2>6. ~ (b < c)
    BY <1>1, <2>5, Apart
  <2>7. ~ (c < b)
    BY <1>1, <2>5, Apart
  <2>8. a = m
    BY <1>1, <2>3, <2>4, <2>5, <2>6, <2>7
  <2> QED
    BY <2>1, <2>8
<1>5. \A i, j \in 1 .. n : i < j \/ j < i \/ i = j
  BY <1>1
<1> QED
  BY <1>0, <1>2, <1>3, <1>4, <1>5 DEF Successor

(* The numbers of what is left of the messages and a new one.              *)
LEMMA NumbersGrow ==
    ASSUME NEW es \in Seq(Fit), NEW last \in 0 .. Limit - 1, Numbers(es, last),
           NEW k \in 0 .. Len(es), NEW e \in Fit, e.number = Successor(last),
           NEW more, more = Append(Rest(es, k), e)
    PROVE  Numbers(more, e.number)
<1>1. PICK rest, n, L : rest = Rest(es, k) /\ n = Len(es) - k /\ L = Limit
  OBVIOUS
<1>2. /\ rest \in Seq(Fit) /\ Len(rest) = n /\ n \in Nat /\ Len(es) \in Nat
      /\ \A i \in 1 .. n : rest[i] = es[i + k]
  <2>1. /\ rest \in Seq(Fit) /\ Len(rest) = n
        /\ \A i \in 1 .. n : rest[i] = es[i + k]
    BY <1>1, RestIs
  <2> QED
    BY <1>1, <2>1
<1>3. /\ Len(more) = n + 1 /\ more[n + 1] = e
      /\ \A i \in 1 .. n : more[i] = rest[i]
  BY <1>1, <1>2
<1>4. L \in Nat /\ L > 0 /\ last + 1 \in Int /\ last \in Int
  BY <1>1, LimitSize
<1>5. PICK new : new = e.number
  OBVIOUS
<1>6. new = (last + 1) % L /\ new % L = (last + 1) % L /\ new \in Int
  BY <1>1, <1>4, <1>5, ModMod DEF Successor
<1>7. ASSUME NEW i \in 1 .. n
      PROVE  more[i].number = (new - ((n + 1) - i)) % L
  <2>1. i + k \in 1 .. Len(es) /\ Len(es) - (i + k) = n - i /\ n - i \in Int
    BY <1>1, <1>2
  <2>2. es[i + k].number = (last - (n - i)) % L
    BY <1>1, <2>1 DEF Numbers
  <2>3. PICK d : d = - ((n + 1) - i)
    OBVIOUS
  <2>4. d \in Int /\ (last + 1) + d = last - (n - i) /\ new + d = new - ((n + 1) - i)
    BY <1>2, <1>4, <1>6, <2>3
  <2>5. (new + d) % L = ((last + 1) + d) % L
    BY <1>4, <1>6, <2>4, ModSame
  <2> QED
    BY <1>2, <1>3, <2>2, <2>4, <2>5
<1>8. more[n + 1].number = (new - ((n + 1) - (n + 1))) % L
  <2>1. new - ((n + 1) - (n + 1)) = new
    BY <1>2, <1>6
  <2>2. new % L = new
    BY <1>6
  <2> QED
    BY <1>3, <1>5, <2>1, <2>2
<1>9. \A i \in 1 .. n + 1 : i \in 1 .. n \/ i = n + 1
  BY <1>2
<1> QED
  BY <1>1, <1>3, <1>5, <1>7, <1>8, <1>9 DEF Numbers

LEMMA SequenceOf ==
    ASSUME NEW S, NEW k \in Nat, NEW f \in [1 .. k -> S]
    PROVE  f \in Seq(S) /\ Len(f) = k
OBVIOUS

(* What Api_AddMessage writes, cell by cell.                               *)
Carries(data, number, len) ==
    /\ data \in Seq(Cell) /\ len \in Nat /\ Len(data) = len + 2 /\ Len(data) < Limit
    /\ \A i \in 1 .. len : data[i + 2] = TextOf(number, len)[i]

LEMMA MessageData ==
    ASSUME NEW number \in Int, NEW owner \in Session, NEW len \in TextLength
    PROVE  Carries(ToBytes(owner) \o TextOf(number, len), number, len)
<1>0. PICK data : data = ToBytes(owner) \o TextOf(number, len)
  OBVIOUS
<1>1. owner \in 0 .. Limit - 1 /\ len \in Nat /\ len + 2 < Limit
  BY MessageAssumption, LimitSize DEF Ulong
<1>2. PICK a, b : a = ToBytes(owner) /\ b = TextOf(number, len)
  OBVIOUS
<1>3. a \in Seq(Cell) /\ Len(a) = 2
  BY <1>1, <1>2, TwoDigits
<1>4. b \in Seq(Cell) /\ Len(b) = len
  <2>1. ASSUME NEW i \in 1 .. len PROVE (number + i) % Base \in Cell
    <3>1. number + i \in Int
      OBVIOUS
    <3> QED
      BY <3>1, RingSize, ModMod DEF Cell
  <2>2. b \in [1 .. len -> Cell]
    BY <1>2, <2>1 DEF TextOf
  <2> QED
    BY <1>1, <2>2, SequenceOf
<1>5. /\ a \o b \in Seq(Cell) /\ Len(a \o b) = Len(a) + Len(b)
      /\ \A i \in 1 .. Len(a) + Len(b) :
            (a \o b)[i] = IF i <= Len(a) THEN a[i] ELSE b[i - Len(a)]
  BY <1>3, <1>4, ConcatProperties, Zenon
<1>6. data = a \o b
  BY <1>0, <1>2
<1>7. ASSUME NEW i \in 1 .. len PROVE data[i + 2] = b[i]
  <2>1. PICK j : j = i + 2
    OBVIOUS
  <2>2. j \in 1 .. Len(a) + Len(b) /\ ~ (j <= Len(a)) /\ j - Len(a) = i
    BY <1>1, <1>3, <1>4, <2>1
  <2> QED
    BY <1>5, <1>6, <2>1, <2>2
<1> QED
  BY <1>0, <1>1, <1>2, <1>3, <1>4, <1>5, <1>6, <1>7 DEF Carries

(* The text that is copied from an entry.                                  *)
LEMMA TextRead ==
    ASSUME log \in Ring, NEW e \in Fit, Message(e), NEW o \in Nat, Lies(log, o, e),
           NEW ptr, Means(log, ptr, o), NEW k, k = TextSize(ptr),
           NEW text, text = Text(ptr)
    PROVE  /\ k \in Nat /\ text \in Seq(0 .. Base) /\ Len(text) = k
           /\ \A i \in 1 .. k : text[i] # Foreign => text[i] = TextOf(e.number, k)[i]
<1>1. PICK owner \in Session, len \in TextLength :
        e.data = ToBytes(owner) \o TextOf(e.number, len)
  BY DEF Message
<1>2. e.number \in Int
  BY FitEntry, LimitSize
<1>3. /\ e.data \in Seq(Cell) /\ len \in Nat /\ Len(e.data) = len + 2
      /\ \A i \in 1 .. len : e.data[i + 2] = TextOf(e.number, len)[i]
  <2>1. Carries(e.data, e.number, len)
    BY <1>1, <1>2, MessageData
  <2> QED
    BY <2>1 DEF Carries
<1>4. /\ SizeAt(log, ptr) = Len(e.data)
      /\ Means(log, DataPtr(ptr), o + 4)
  BY EntryRead
<1>5. k = len /\ k \in Nat
  BY <1>3, <1>4 DEF TextSize, Ulong
<1>6. PICK p : p = Behind(DataPtr(ptr), 2)
  OBVIOUS
<1>7. Means(log, p, (o + 4) + 2) /\ p \in 1 .. BufferSize /\ p \in Int
  BY <1>4, <1>6, BehindMeans, RingSize
<1>8. text = [i \in 1 .. k |-> IF p + i - 1 < BufferSize
                               THEN log.buffer_data[p + i - 1] ELSE Foreign]
  BY <1>6 DEF Text, MemCopy, Ulong
<1>9. ASSUME NEW i \in 1 .. k
      PROVE  /\ text[i] \in 0 .. Base
             /\ text[i] # Foreign => text[i] = TextOf(e.number, k)[i]
  <2>1. PICK q : q = p + i - 1
    OBVIOUS
  <2>2. q \in Int /\ i \in Int /\ i >= 1 /\ q >= 0 /\ q = p + (i - 1)
    BY <1>5, <1>7, <2>1
  <2>3. text[i] = IF q < BufferSize THEN log.buffer_data[q] ELSE Foreign
    BY <1>8, <2>1
  <2>4. CASE q < BufferSize
    <3>1. q \in 0 .. BufferSize - 1 /\ q \in Pointer /\ i - 1 \in Int
      BY <2>2, <2>4, RingSize DEF Pointer
    <3>2. Means(log, p + (i - 1), ((o + 4) + 2) + (i - 1))
      BY <1>7, <2>2, <3>1, MovedMeans
    <3>3. PICK j : j = i + 2
      OBVIOUS
    <3>4. ((o + 4) + 2) + (i - 1) = o + 3 + j /\ j \in 1 .. Len(e.data)
      BY <1>3, <1>5, <2>2, <3>3
    <3>5. Place(q) = q /\ Place(q) = Place(log.buffer_start_ptr + (o + 3 + j))
      BY <2>2, <3>1, <3>2, <3>4, InRing DEF Means
    <3>6. log.buffer_data[q] = At(log, o + 3 + j)
      BY <3>5 DEF At
    <3>7. At(log, o + 3 + j) = e.data[j]
      BY <3>4 DEF Lies
    <3>8. e.data[j] = TextOf(e.number, k)[i] /\ e.data[j] \in Cell
      BY <1>3, <1>5, <3>3, <3>4
    <3> QED
      BY <2>3, <2>4, <3>6, <3>7, <3>8, RingSize DEF Cell
  <2>5. CASE ~ (q < BufferSize)
    BY <2>3, <2>5, RingSize DEF Foreign
  <2> QED
    BY <2>4, <2>5
<1>10. text \in [1 .. k -> 0 .. Base]
  <2>1. text = [i \in 1 .. k |-> text[i]]
    BY <1>8
  <2> QED
    BY <1>9, <2>1
<1> QED
  BY <1>5, <1>9, <1>10, SequenceOf

LEMMA AnsweredIs ==
    ASSUME NEW status,
           status \in {"SUCCESS", "NO_MORE_ENTRIES", "BUFFER_TOO_SMALL", "EXCEPTION", "NONE"}
    PROVE  /\ Answered(status) \in Answer /\ Answered(status).status = status
           /\ Answered(status).reader = Everything /\ Answered(status).number = 0
           /\ Answered(status).text = << >>
<1>1. << >> \in Seq(0 .. Base)
  OBVIOUS
<1>2. 0 \in 0 .. Limit - 1
  BY LimitSize
<1> QED
  BY <1>1, <1>2 DEF Answer, Answered

LEMMA MessageStart ==
    ASSUME MessageInit
    PROVE  MessageInv
<1>1. /\ log = EmptyRing
      /\ num = [r \in Reader |-> 0]
      /\ got \in Answer /\ got.status = "NONE"
  BY AnsweredIs DEF MessageInit
<1>2. 0 \in 0 .. Limit - 1
  BY LimitSize
<1>3. MessageTypeOK
  <2>1. log \in Ring
    BY <1>1, NothingLies
  <2> QED
    BY <1>1, <1>2, <2>1 DEF MessageTypeOK
<1>4. OwnText
  BY <1>1 DEF OwnText
<1>5. Messages(<< >>) /\ Holds(log, << >>) /\ Numbers(<< >>, log.seq_counter)
  BY <1>1, NothingLies DEF Messages, Numbers
<1> QED
  BY <1>3, <1>4, <1>5 DEF MessageInv

(* Api_AddMessage appends a message to what is left of the others.         *)
LEMMA AddKeeps ==
    ASSUME MessageInv, NEW owner \in Session, NEW len \in TextLength,
           Api_AddMessage(owner, len)
    PROVE  MessageInv'
<1>1. /\ log \in Ring /\ num \in [Reader -> 0 .. Limit - 1]
      /\ num' = num /\ got' \in Answer /\ got'.status = "NONE"
  BY AnsweredIs DEF MessageInv, MessageTypeOK, Api_AddMessage
<1>2. PICK es : Messages(es) /\ Holds(log, es) /\ Numbers(es, log.seq_counter)
  BY DEF MessageInv
<1>3. PICK number : number = Successor(log.seq_counter)
  OBVIOUS
<1>4. number \in Int
  <2>1. log.seq_counter + 1 \in Int
    BY <1>1, RingShape, LimitSize
  <2> QED
    BY <1>3, <2>1, LimitSize DEF Successor
<1>5. PICK data : data = ToBytes(owner) \o TextOf(number, len)
  OBVIOUS
<1>6. data \in Seq(Cell) /\ Len(data) < Limit
  BY <1>4, <1>5, MessageData DEF Carries
<1>7. PICK e : e = [number |-> number, data |-> data]
  OBVIOUS
<1>8. PICK out : out = PushEntry(log, data, TRUE)
  OBVIOUS
<1>9. log' = out
  BY <1>3, <1>5, <1>8 DEF Api_AddMessage
<1>10. out \in Ring /\ (out = log \/ PushedRing(log, es, e, out))
  <2>1. AfterPush(log, es, e, out)
    BY <1>1, <1>2, <1>3, <1>6, <1>7, <1>8, PushOne DEF Messages
  <2> QED
    BY <2>1 DEF AfterPush
<1>11. e \in Fit /\ Message(e)
  <2>1. number \in 0 .. Limit - 1
    <3>1. log.seq_counter + 1 \in Int
      BY <1>1, RingShape, LimitSize
    <3> QED
      BY <1>3, <3>1, LimitSize, ModMod DEF Successor
  <2> QED
    BY <1>5, <1>6, <1>7, <2>1 DEF Fit, Entry, Message
<1>12. \E more : Messages(more) /\ Holds(out, more) /\ Numbers(more, out.seq_counter)
  <2>1. CASE out = log
    BY <1>2, <2>1
  <2>2. CASE PushedRing(log, es, e, out)
    <3>1. PICK k \in 0 .. Len(es) : Holds(out, Append(Rest(es, k), e))
      BY <2>2 DEF PushedRing
    <3>2. PICK rest, more, n : /\ rest = Rest(es, k) /\ more = Append(rest, e)
                               /\ n = Len(es) - k
      OBVIOUS
    <3>3. /\ rest \in Seq(Fit) /\ Len(rest) = n
          /\ \A i \in 1 .. n : rest[i] = es[i + k]
      BY <1>2, <3>2, RestIs DEF Messages
    <3>4. n \in Nat /\ \A i \in 1 .. n : i + k \in 1 .. Len(es)
      BY <1>2, <3>2 DEF Messages
    <3>5. /\ more \in Seq(Fit) /\ Len(more) = n + 1 /\ more[n + 1] = e
          /\ \A i \in 1 .. n : more[i] = rest[i]
      BY <1>11, <3>2, <3>3, <3>4
    <3>6. ASSUME NEW i \in 1 .. n + 1 PROVE Message(more[i])
      <4>1. CASE i = n + 1
        BY <1>11, <3>5, <4>1
      <4>2. CASE i \in 1 .. n
        BY <1>2, <3>3, <3>4, <3>5, <4>2 DEF Messages
      <4> QED
        BY <3>4, <4>1, <4>2
    <3>7. Messages(more)
      BY <3>5, <3>6 DEF Messages
    <3>8. Numbers(more, number) /\ out.seq_counter = number
      BY <1>1, <1>2, <1>3, <1>7, <1>11, <2>2, <3>2, RingShape, NumbersGrow
         DEF Messages, PushedRing
    <3> QED
      BY <3>1, <3>2, <3>7, <3>8
  <2> QED
    BY <1>10, <2>1, <2>2
<1>13. MessageTypeOK'
  BY <1>1, <1>9, <1>10 DEF MessageTypeOK
<1>14. OwnText'
  BY <1>1 DEF OwnText
<1>15. (\E more : Messages(more) /\ Holds(log, more) /\ Numbers(more, log.seq_counter))'
  BY <1>9, <1>12
<1> QED
  BY <1>13, <1>14, <1>15 DEF MessageInv

(* Api_GetMessage finds entries only where they lie.                       *)
LEMMA GetKeeps ==
    ASSUME MessageInv, NEW r \in Reader, NEW maximum \in Capacity,
           Api_GetMessage(r, maximum)
    PROVE  MessageInv'
<1>1. /\ log \in Ring /\ num \in [Reader -> 0 .. Limit - 1] /\ got \in Answer /\ log' = log
  BY DEF MessageInv, MessageTypeOK, Api_GetMessage
<1>2. PICK es, off : Messages(es) /\ Laid(log, es, off)
  BY DEF MessageInv, Holds
<1>3. PICK seq, found : seq = Passed(r) /\ found = GetNext(seq, log)
  OBVIOUS
<1>4. NextFound(log, es, off, seq, found)
  BY <1>1, <1>2, <1>3, GetNextFinds
<1>5. (\E more : Messages(more) /\ Holds(log, more) /\ Numbers(more, log.seq_counter))'
  BY <1>1 DEF MessageInv
<1>6. CASE /\ found = {}
           /\ got' = [reader |-> r, number |-> num[r], text |-> << >>,
                      status |-> "NO_MORE_ENTRIES"]
           /\ UNCHANGED num
  <2>1. got' \in Answer
    <3>1. num[r] \in 0 .. Limit - 1
      BY <1>1
    <3>2. << >> \in Seq(0 .. Base)
      OBVIOUS
    <3> QED
      BY <1>6, <3>1, <3>2 DEF Answer
  <2>2. MessageTypeOK'
    BY <1>1, <1>6, <2>1 DEF MessageTypeOK
  <2>3. OwnText'
    BY <1>6 DEF OwnText
  <2> QED
    BY <1>5, <2>2, <2>3 DEF MessageInv
<1>7. ASSUME NEW ptr \in found,
             num' = [num EXCEPT ![r] = SeqAt(log, ptr)],
             got' = [reader |-> r, number |-> SeqAt(log, ptr),
                     text |-> IF TextSize(ptr) <= maximum THEN Text(ptr) ELSE << >>,
                     status |-> IF TextSize(ptr) <= maximum THEN "SUCCESS"
                                ELSE "BUFFER_TOO_SMALL"]
      PROVE  MessageInv'
  <2>1. PICK i \in 1 .. Len(es) : Means(log, ptr, off[i - 1])
    BY <1>4, <1>7 DEF NextFound
  <2>2. PICK e, o : e = es[i] /\ o = off[i - 1]
    OBVIOUS
  <2>3. /\ e \in Fit /\ Message(e) /\ o \in Nat /\ Lies(log, o, e) /\ Means(log, ptr, o)
    BY <1>1, <1>2, <2>1, <2>2, Bounds DEF Messages, Laid
  <2>4. SeqAt(log, ptr) = e.number /\ e.number \in 0 .. Limit - 1
    BY <1>1, <2>3, EntryRead, FitEntry
  <2>5. PICK k, text : k = TextSize(ptr) /\ text = Text(ptr)
    OBVIOUS
  <2>6. /\ k \in Nat /\ text \in Seq(0 .. Base) /\ Len(text) = k
        /\ \A j \in 1 .. k : text[j] # Foreign => text[j] = TextOf(e.number, k)[j]
    BY <1>1, <2>3, <2>5, TextRead
  <2>7. num' \in [Reader -> 0 .. Limit - 1]
    BY <1>1, <1>7, <2>4
  <2>8. got' = [reader |-> r, number |-> e.number,
                text |-> IF k <= maximum THEN text ELSE << >>,
                status |-> IF k <= maximum THEN "SUCCESS" ELSE "BUFFER_TOO_SMALL"]
    BY <1>7, <2>4, <2>5
  <2>9. got' \in Answer
    <3>1. << >> \in Seq(0 .. Base)
      OBVIOUS
    <3> QED
      BY <2>4, <2>6, <2>8, <3>1 DEF Answer
  <2>10. OwnText'
    <3>1. CASE k <= maximum
      <4>1. got'.text = text /\ got'.number = e.number
        BY <2>8, <3>1
      <4>2. DOMAIN text = 1 .. k
        BY <2>6
      <4> QED
        BY <2>6, <4>1, <4>2 DEF OwnText, Foreign, TextOf
    <3>2. CASE ~ (k <= maximum)
      <4>1. got'.status = "BUFFER_TOO_SMALL"
        BY <2>8, <3>2
      <4> QED
        BY <4>1 DEF OwnText
    <3> QED
      BY <3>1, <3>2
  <2>11. MessageTypeOK'
    BY <1>1, <2>7, <2>9 DEF MessageTypeOK
  <2> QED
    BY <1>5, <2>10, <2>11 DEF MessageInv
<1>8. CASE got' = Answered("EXCEPTION") /\ UNCHANGED num
  <2>1. got' \in Answer /\ got'.status = "EXCEPTION"
    BY <1>8, AnsweredIs
  <2>2. MessageTypeOK' /\ OwnText'
    BY <1>1, <1>8, <2>1 DEF MessageTypeOK, OwnText
  <2> QED
    BY <1>5, <2>2 DEF MessageInv
<1>9. \/ /\ found = {}
         /\ got' = [reader |-> r, number |-> num[r], text |-> << >>,
                    status |-> "NO_MORE_ENTRIES"]
         /\ UNCHANGED num
      \/ got' = Answered("EXCEPTION") /\ UNCHANGED num
      \/ \E ptr \in found :
         /\ num' = [num EXCEPT ![r] = SeqAt(log, ptr)]
         /\ got' = [reader |-> r, number |-> SeqAt(log, ptr),
                    text |-> IF TextSize(ptr) <= maximum THEN Text(ptr) ELSE << >>,
                    status |-> IF TextSize(ptr) <= maximum THEN "SUCCESS"
                               ELSE "BUFFER_TOO_SMALL"]
  BY <1>3, Zenon DEF Api_GetMessage
<1> QED
  BY <1>6, <1>7, <1>8, <1>9

LEMMA MessageInductive == MessageSpec => []MessageInv
<1>1. MessageInit => MessageInv
  BY MessageStart
<1>2. MessageInv /\ [MessageNext]_messageVars => MessageInv'
  <2> SUFFICES ASSUME MessageInv, [MessageNext]_messageVars PROVE MessageInv'
    OBVIOUS
  <2>1. ASSUME NEW owner \in Session, NEW len \in TextLength,
               Api_AddMessage(owner, len)
        PROVE  MessageInv'
    BY <2>1, AddKeeps
  <2>2. ASSUME NEW r \in Reader, NEW maximum \in Capacity, Api_GetMessage(r, maximum)
        PROVE  MessageInv'
    BY <2>2, GetKeeps
  <2>3. CASE UNCHANGED messageVars
    BY <2>3 DEF MessageInv, MessageTypeOK, OwnText, messageVars
  <2> QED
    BY <2>1, <2>2, <2>3 DEF MessageNext
<1> QED
  BY <1>1, <1>2, PTL DEF MessageSpec

(* Whatever the lengths of the messages are and however the entries lie    *)
(* around the end of the ring, Api_GetMessage never mixes up two messages: *)
(* log_buffer_push_entry drops whole entries only, log_buffer_get_next     *)
(* returns the beginning of an entry only, and what is copied from it, up  *)
(* to the end of the ring, belongs to the number that is returned.         *)
THEOREM MessagesUnmixed == MessageSpec => []TextOwn
<1>1. MessageInv => TextOwn
  BY DEF MessageInv, OwnText, TextOwn
<1> QED
  BY <1>1, MessageInductive, PTL

-----------------------------------------------------------------------------
(* The messages in the ring, as the readers know them                      *)

Shown(es) ==
    [i \in 1 .. Len(es) |-> [number  |-> es[i].number,
                             session |-> FromBytes(es[i].data),
                             size    |-> SizeOf(es[i])]]

Seen == [number : Int, session : Int, size : Int]

ReadAt(ring, ptr) ==
    [number  |-> SeqAt(ring, ptr),
     session |-> GetUlong(ring, DataPtr(ptr)),
     size    |-> TotalSize(SizeAt(ring, ptr))]

KeptOf(ring) == Walk(ring, Seen, [ptr \in Int |-> ReadAt(ring, ptr)])

LEMMA KeptIs == Kept = KeptOf(log) /\ Kept' = KeptOf(log')
BY Zenon DEF Kept, KeptOf, Seen, ReadAt, SessionAt

LEMMA ReadAny ==
    ASSUME NEW ring \in Ring
    PROVE  [ptr \in Int |-> ReadAt(ring, ptr)] \in [Int -> Seen]
<1>1. ring \in AnyRing
  BY RingShape
<1>2. ASSUME NEW ptr \in Int, NEW k \in Nat PROVE Behind(ptr, k) \in Int
  <2>1. ByteAt(ptr) \in Int
    BY RingSize DEF ByteAt
  <2>2. ByteAt(ptr) + k - 1 \in Int
    BY <2>1
  <2>3. (ByteAt(ptr) + k - 1) % BufferSize \in Int
    BY <2>2, RingSize
  <2> QED
    BY <1>2, <2>3 DEF Behind, Nth
<1>3. ASSUME NEW ptr \in Int PROVE ReadAt(ring, ptr) \in Seen
  <2>1. GetUlong(ring, ptr) \in Int
    BY <1>1, UlongAny
  <2>2. GetUlong(ring, Behind(ptr, Ulong)) \in Int
    <3>1. Behind(ptr, Ulong) \in Int
      BY <1>2 DEF Ulong
    <3> QED
      BY <1>1, <3>1, UlongAny
  <2>3. GetUlong(ring, DataPtr(ptr)) \in Int
    <3>1. Behind(ptr, 2 * Ulong) \in Int
      <4>1. 2 * Ulong \in Nat
        BY DEF Ulong
      <4> QED
        BY <1>2, <4>1
    <3> QED
      BY <1>1, <3>1, UlongAny DEF DataPtr
  <2>4. TotalSize(GetUlong(ring, ptr)) \in Int
    BY <2>1 DEF TotalSize, Ulong
  <2> QED
    BY <2>2, <2>3, <2>4 DEF ReadAt, Seen, SeqAt, SizeAt
<1> QED
  BY <1>3

LEMMA ShownIs ==
    ASSUME NEW es, Messages(es)
    PROVE  /\ Shown(es) \in Seq(Seen) /\ Len(Shown(es)) = Len(es) /\ Len(es) \in Nat
           /\ \A i \in 1 .. Len(es) :
                 Shown(es)[i] = [number  |-> es[i].number,
                                 session |-> FromBytes(es[i].data),
                                 size    |-> SizeOf(es[i])]
<1>1. es \in Seq(Fit) /\ Len(es) \in Nat
  BY DEF Messages
<1>2. ASSUME NEW i \in 1 .. Len(es)
      PROVE  [number  |-> es[i].number, session |-> FromBytes(es[i].data),
              size    |-> SizeOf(es[i])] \in Seen
  <2>1. PICK e : e = es[i]
    OBVIOUS
  <2>2. e \in Fit /\ Message(e)
    BY <1>1, <2>1 DEF Messages
  <2>3. e.number \in Int /\ SizeOf(e) \in Int /\ e.data \in Seq(Cell)
    BY <2>2, FitEntry, LimitSize
  <2>4. Len(e.data) >= 2
    <3>1. PICK owner \in Session, len \in TextLength :
            e.data = ToBytes(owner) \o TextOf(e.number, len)
      BY <2>2 DEF Message
    <3>2. Carries(e.data, e.number, len)
      BY <2>3, <3>1, MessageData
    <3> QED
      BY <3>2 DEF Carries
  <2>5. e.data[1] \in Cell /\ e.data[2] \in Cell
    BY <2>3, <2>4
  <2>6. FromBytes(e.data) \in Int
    BY <2>5, RingSize DEF FromBytes, Cell
  <2> QED
    BY <2>1, <2>3, <2>6 DEF Seen
<1>3. PICK n, shown : n = Len(es) /\ shown = Shown(es)
  OBVIOUS
<1>4. shown = [i \in 1 .. n |-> [number  |-> es[i].number,
                                 session |-> FromBytes(es[i].data),
                                 size    |-> SizeOf(es[i])]]
  BY <1>3 DEF Shown
<1>5. shown \in [1 .. n -> Seen]
  BY <1>2, <1>3, <1>4
<1>6. shown \in Seq(Seen) /\ Len(shown) = n
  BY <1>1, <1>3, <1>5, SequenceOf
<1> QED
  BY <1>1, <1>3, <1>4, <1>6

(* What is read where a message lies.                                      *)
LEMMA MessageRead ==
    ASSUME NEW ring \in Ring, NEW e \in Fit, Message(e), NEW o \in Nat, Lies(ring, o, e),
           NEW ptr, Means(ring, ptr, o)
    PROVE  /\ SizeAt(ring, ptr) = Len(e.data)
           /\ SeqAt(ring, ptr) = e.number
           /\ GetUlong(ring, DataPtr(ptr)) = FromBytes(e.data)
<1>1. /\ SizeAt(ring, ptr) = Len(e.data) /\ SeqAt(ring, ptr) = e.number
      /\ Means(ring, DataPtr(ptr), o + 4)
  BY EntryRead
<1>2. Len(e.data) \in Nat /\ Len(e.data) >= 2
  <2>1. PICK owner \in Session, len \in TextLength :
          e.data = ToBytes(owner) \o TextOf(e.number, len)
    BY DEF Message
  <2>2. e.number \in Int
    BY FitEntry, LimitSize
  <2>3. Carries(e.data, e.number, len)
    BY <2>1, <2>2, MessageData
  <2> QED
    BY <2>3, FitEntry DEF Carries
<1>3. At(ring, o + 4) = e.data[1] /\ At(ring, o + 5) = e.data[2]
  <2>1. \A i \in 1 .. Len(e.data) : At(ring, o + 3 + i) = e.data[i]
    BY DEF Lies
  <2>2. o + 3 + 1 = o + 4 /\ o + 3 + 2 = o + 5
    OBVIOUS
  <2>3. 1 \in 1 .. Len(e.data) /\ 2 \in 1 .. Len(e.data)
    BY <1>2
  <2> QED
    BY <2>1, <2>2, <2>3
<1>4. \A i \in 1 .. Ulong :
        GetBytes(ring, DataPtr(ptr), Ulong)[i] = At(ring, (o + 4) + (i - 1))
  BY <1>1, BytesMeant DEF Ulong
<1>5. (o + 4) + (1 - 1) = o + 4 /\ (o + 4) + (2 - 1) = o + 5
  OBVIOUS
<1>6. /\ GetBytes(ring, DataPtr(ptr), Ulong)[1] = e.data[1]
      /\ GetBytes(ring, DataPtr(ptr), Ulong)[2] = e.data[2]
  BY <1>3, <1>4, <1>5 DEF Ulong
<1> QED
  BY <1>1, <1>6, Zenon DEF GetUlong, FromBytes

LEMMA KeptShown ==
    ASSUME NEW ring \in Ring, NEW es, Messages(es), Holds(ring, es)
    PROVE  KeptOf(ring) = Shown(es)
<1>1. PICK off : Laid(ring, es, off)
  BY DEF Holds
<1>2. PICK kept, shown, read : /\ kept = KeptOf(ring) /\ shown = Shown(es)
                               /\ read = [ptr \in Int |-> ReadAt(ring, ptr)]
  OBVIOUS
<1>3. read \in [Int -> Seen]
  BY <1>2, ReadAny
<1>4. /\ kept \in Seq(Seen) /\ Len(kept) = Len(es)
      /\ \A i \in 1 .. Len(es) : kept[i] = read[ring.buffer_start_ptr + off[i - 1]]
  BY <1>1, <1>2, <1>3, WalkRounds DEF KeptOf
<1>5. /\ shown \in Seq(Seen) /\ Len(shown) = Len(es) /\ Len(es) \in Nat
      /\ \A i \in 1 .. Len(es) :
            shown[i] = [number  |-> es[i].number, session |-> FromBytes(es[i].data),
                        size    |-> SizeOf(es[i])]
  BY <1>2, ShownIs
<1>6. ASSUME NEW i \in 1 .. Len(es) PROVE kept[i] = shown[i]
  <2>1. PICK e, o, ptr : e = es[i] /\ o = off[i - 1] /\ ptr = ring.buffer_start_ptr + o
    OBVIOUS
  <2>2. e \in Fit /\ Message(e) /\ o \in Nat /\ Lies(ring, o, e)
    BY <1>1, <2>1, Bounds DEF Messages, Laid
  <2>3. Means(ring, ptr, o) /\ ptr \in Int
    <3>1. i - 1 \in 0 .. Len(es)
      BY <1>5
    <3>2. /\ o \in 0 .. ring.buffer_used /\ ring.buffer_used \in 0 .. BufferSize
          /\ ring.buffer_start_ptr \in 0 .. BufferSize - 1
      BY <1>1, <2>1, <3>1, Bounds, RingShape
    <3>3. ptr \in Pointer /\ ptr \in Int
      BY <2>1, <3>2, RingSize DEF Pointer
    <3> QED
      BY <2>1, <2>2, <3>3 DEF Means
  <2>4. /\ SizeAt(ring, ptr) = Len(e.data) /\ SeqAt(ring, ptr) = e.number
        /\ GetUlong(ring, DataPtr(ptr)) = FromBytes(e.data)
    BY <2>2, <2>3, MessageRead
  <2>5. kept[i] = ReadAt(ring, ptr)
    BY <1>2, <1>4, <2>1, <2>3
  <2> QED
    BY <1>5, <2>1, <2>4, <2>5 DEF ReadAt, SizeOf
<1> QED
  BY <1>2, <1>4, <1>5, <1>6, SeqEqual

(* The messages fill the ring up to where the newest one ends.             *)
LEMMA LoadSum ==
    ASSUME NEW es, Messages(es), NEW off \in [0 .. Len(es) -> Int], off[0] = 0,
           \A i \in 1 .. Len(es) : off[i] = off[i - 1] + SizeOf(es[i])
    PROVE  Window!Load(Shown(es)) = off[Len(es)]
<1>1. PICK messages, n : messages = Shown(es) /\ n = Len(es)
  OBVIOUS
<1>2. /\ n \in Nat /\ Len(messages) = n
      /\ \A i \in 1 .. n : messages[i].size = SizeOf(es[i])
  <2>1. /\ Len(es) \in Nat /\ Len(messages) = Len(es)
        /\ \A i \in 1 .. Len(es) :
              messages[i] = [number  |-> es[i].number, session |-> FromBytes(es[i].data),
                             size    |-> SizeOf(es[i])]
    BY <1>1, ShownIs
  <2>2. ASSUME NEW i \in 1 .. n PROVE messages[i].size = SizeOf(es[i])
    <3>1. messages[i] = [number  |-> es[i].number, session |-> FromBytes(es[i].data),
                         size    |-> SizeOf(es[i])]
      BY <1>1, <2>1
    <3> QED
      BY <3>1
  <2> QED
    BY <1>1, <2>1, <2>2
<1> DEFINE load == CHOOSE f : f = [i \in 0 .. n |-> IF i = 0 THEN 0
                                                   ELSE f[i - 1] + messages[i].size]
<1>3. off = [i \in 0 .. n |-> IF i = 0 THEN 0 ELSE off[i - 1] + messages[i].size]
  <2>1. \A i \in 0 .. n : i # 0 => i \in 1 .. n
    BY <1>2
  <2> QED
    BY <1>1, <1>2, <2>1
<1>4. load = [i \in 0 .. n |-> IF i = 0 THEN 0 ELSE load[i - 1] + messages[i].size]
  BY <1>3
<1>5. Window!Load(messages) = load[n]
  BY <1>2, Zenon DEF Window!Load
<1> HIDE DEF load
<1> DEFINE T == {i \in 0 .. n : load[i] = off[i]}
<1>6. 0 \in T
  BY <1>2, <1>4
<1>7. \A i \in 0 .. n - 1 : i \in T => i + 1 \in T
  <2>1. \A i \in 0 .. n - 1 : i + 1 \in 0 .. n /\ i + 1 # 0 /\ (i + 1) - 1 = i
    BY <1>2
  <2> QED
    BY <1>3, <1>4, <2>1
<1> HIDE DEF T
<1>8. \A i \in 0 .. n : i \in T
  BY <1>2, <1>6, <1>7, UpTo
<1> QED
  BY <1>1, <1>2, <1>5, <1>8 DEF T

LEMMA LoadUsed ==
    ASSUME NEW ring \in Ring, NEW es, Messages(es), Holds(ring, es)
    PROVE  Window!Load(Shown(es)) = ring.buffer_used
<1>1. PICK off : Laid(ring, es, off)
  BY DEF Holds
<1>2. /\ off \in [0 .. Len(es) -> Int] /\ off[0] = 0 /\ off[Len(es)] = ring.buffer_used
      /\ \A i \in 1 .. Len(es) : off[i] = off[i - 1] + SizeOf(es[i])
  BY <1>1, RingSize DEF Laid
<1> QED
  BY <1>2, LoadSum

(* What is left of the messages when the oldest ones are dropped.          *)
LEMMA ShownRest ==
    ASSUME NEW es, Messages(es), NEW k \in 0 .. Len(es)
    PROVE  /\ Messages(Rest(es, k))
           /\ Shown(Rest(es, k)) = SubSeq(Shown(es), k + 1, Len(Shown(es)))
<1>1. PICK rest, n, all : rest = Rest(es, k) /\ n = Len(es) - k /\ all = Shown(es)
  OBVIOUS
<1>2. es \in Seq(Fit) /\ Len(es) \in Nat /\ n \in Nat /\ k \in Nat
  BY <1>1 DEF Messages
<1>3. /\ rest \in Seq(Fit) /\ Len(rest) = n
      /\ \A i \in 1 .. n : rest[i] = es[i + k]
  BY <1>1, <1>2, RestIs
<1>4. \A i \in 1 .. n : i + k \in 1 .. Len(es)
  BY <1>1, <1>2
<1>5. Messages(rest)
  BY <1>2, <1>3, <1>4 DEF Messages
<1>6. PICK shown : shown = Shown(rest)
  OBVIOUS
<1>7. /\ shown \in Seq(Seen) /\ Len(shown) = n
      /\ \A i \in 1 .. n :
            shown[i] = [number  |-> rest[i].number, session |-> FromBytes(rest[i].data),
                        size    |-> SizeOf(rest[i])]
  BY <1>3, <1>5, <1>6, ShownIs
<1>8. /\ all \in Seq(Seen) /\ Len(all) = Len(es)
      /\ \A i \in 1 .. Len(es) :
            all[i] = [number  |-> es[i].number, session |-> FromBytes(es[i].data),
                      size    |-> SizeOf(es[i])]
  BY <1>1, ShownIs
<1>9. PICK sub : sub = SubSeq(all, k + 1, Len(es))
  OBVIOUS
<1>10. sub \in Seq(Seen) /\ Len(sub) = n /\ \A i \in 1 .. n : sub[i] = all[i + k]
  <2>1. Len(es) - (k + 1) + 1 = n /\ \A i \in 1 .. n : i + (k + 1) - 1 = i + k
    BY <1>1, <1>2
  <2>2. sub = [i \in 1 .. Len(es) - (k + 1) + 1 |-> all[i + (k + 1) - 1]]
    BY <1>2, <1>8, <1>9
  <2>3. sub = [i \in 1 .. n |-> all[i + k]]
    BY <2>1, <2>2
  <2>4. \A i \in 1 .. n : all[i + k] \in Seen
    BY <1>4, <1>8
  <2>5. sub \in [1 .. n -> Seen]
    BY <2>3, <2>4
  <2> QED
    BY <1>2, <2>3, <2>5, SequenceOf
<1>11. \A i \in 1 .. n : shown[i] = sub[i]
  BY <1>3, <1>4, <1>7, <1>8, <1>10
<1>12. shown = sub
  BY <1>7, <1>10, <1>11, SeqEqual
<1> QED
  BY <1>1, <1>5, <1>6, <1>8, <1>9, <1>12

LEMMA ShownMore ==
    ASSUME NEW es, Messages(es), NEW e \in Fit, Message(e)
    PROVE  /\ Messages(Append(es, e))
           /\ Shown(Append(es, e)) =
                 Append(Shown(es), [number |-> e.number, session |-> FromBytes(e.data),
                                    size |-> SizeOf(e)])
<1>1. PICK more, n, last : /\ more = Append(es, e) /\ n = Len(es)
                           /\ last = [number |-> e.number, session |-> FromBytes(e.data),
                                      size |-> SizeOf(e)]
  OBVIOUS
<1>2. es \in Seq(Fit) /\ n \in Nat
  BY <1>1 DEF Messages
<1>3. /\ more \in Seq(Fit) /\ Len(more) = n + 1 /\ more[n + 1] = e
      /\ \A i \in 1 .. n : more[i] = es[i]
  BY <1>1, <1>2
<1>4. \A i \in 1 .. n + 1 : i \in 1 .. n \/ i = n + 1
  BY <1>2
<1>5. Messages(more)
  BY <1>1, <1>3, <1>4 DEF Messages
<1>6. PICK shown, old : shown = Shown(more) /\ old = Shown(es)
  OBVIOUS
<1>7. /\ shown \in Seq(Seen) /\ Len(shown) = n + 1
      /\ \A i \in 1 .. n + 1 :
            shown[i] = [number  |-> more[i].number, session |-> FromBytes(more[i].data),
                        size    |-> SizeOf(more[i])]
  BY <1>3, <1>5, <1>6, ShownIs
<1>8. /\ old \in Seq(Seen) /\ Len(old) = n
      /\ \A i \in 1 .. n :
            old[i] = [number  |-> es[i].number, session |-> FromBytes(es[i].data),
                      size    |-> SizeOf(es[i])]
  BY <1>1, <1>6, ShownIs
<1>9. n + 1 \in 1 .. n + 1
  BY <1>2
<1>10. shown[n + 1] = last /\ last \in Seen
  BY <1>1, <1>3, <1>7, <1>9
<1>11. PICK longer : longer = Append(old, last)
  OBVIOUS
<1>12. /\ longer \in Seq(Seen) /\ Len(longer) = n + 1 /\ longer[n + 1] = last
       /\ \A i \in 1 .. n : longer[i] = old[i]
  BY <1>2, <1>8, <1>10, <1>11
<1>13. \A i \in 1 .. n + 1 : shown[i] = longer[i]
  BY <1>3, <1>4, <1>7, <1>8, <1>10, <1>12
<1>14. shown = longer
  BY <1>7, <1>12, <1>13, SeqEqual
<1> QED
  BY <1>1, <1>5, <1>6, <1>11, <1>14

-----------------------------------------------------------------------------
(* The log implements what MessageWindow promises                          *)

LEMMA SessionWritten ==
    ASSUME NEW number \in Int, NEW owner \in Session, NEW len \in TextLength
    PROVE  FromBytes(ToBytes(owner) \o TextOf(number, len)) = owner
<1>1. PICK a, b, data : a = ToBytes(owner) /\ b = TextOf(number, len) /\ data = a \o b
  OBVIOUS
<1>2. owner \in 0 .. Limit - 1 /\ len \in Nat
  BY MessageAssumption, LimitSize DEF Ulong
<1>3. /\ a \in Seq(Cell) /\ Len(a) = 2
      /\ a[1] = owner % Base /\ a[2] = owner \div Base
  BY <1>1, <1>2, TwoDigits
<1>4. b \in Seq(Int) /\ a \in Seq(Int)
  <2>1. ASSUME NEW i \in 1 .. len PROVE (number + i) % Base \in Int
    <3>1. number + i \in Int
      OBVIOUS
    <3> QED
      BY <3>1, RingSize
  <2>2. b \in [1 .. len -> Int]
    BY <1>1, <2>1 DEF TextOf
  <2>3. Cell \subseteq Int
    BY RingSize DEF Cell
  <2>4. a \in Seq(Int)
    <3>1. a = <<owner % Base, owner \div Base>>
      BY <1>1 DEF ToBytes
    <3>2. owner % Base \in Int /\ owner \div Base \in Int
      BY <1>2, <2>3, Digits
    <3> QED
      BY <3>1, <3>2
  <2>5. b \in Seq(Int)
    BY <1>2, <2>2, SequenceOf
  <2> QED
    BY <2>4, <2>5
<1>5. \A i \in 1 .. Len(a) + Len(b) :
          (a \o b)[i] = IF i <= Len(a) THEN a[i] ELSE b[i - Len(a)]
  BY <1>4, ConcatProperties, Zenon
<1>6. 1 \in 1 .. Len(a) + Len(b) /\ 2 \in 1 .. Len(a) + Len(b) /\ 1 <= Len(a) /\ 2 <= Len(a)
  BY <1>3, <1>4
<1>7. data[1] = a[1] /\ data[2] = a[2]
  BY <1>1, <1>5, <1>6
<1> QED
  BY <1>1, <1>2, <1>3, <1>7, Digits DEF FromBytes

(* The window that corresponds to a ring of messages.                      *)
windowVars ==
    <<Kept, log.seq_counter, num,
      [reader |-> got.reader, number |-> got.number, length |-> Len(got.text),
       status |-> got.status]>>

(* What is seen of an answer without a message.                            *)
LEMMA AnsweredSeen ==
    ASSUME NEW answer, NEW status,
           status \in {"SUCCESS", "NO_MORE_ENTRIES", "BUFFER_TOO_SMALL", "EXCEPTION", "NONE"},
           answer = Answered(status)
    PROVE  [reader |-> answer.reader, number |-> answer.number,
            length |-> Len(answer.text), status |-> answer.status]
              = Window!Nothing(status)
<1>1. Len(<< >>) = 0
  OBVIOUS
<1> QED
  BY <1>1, AnsweredIs DEF Window!Nothing, Window!Outcome

LEMMA WindowStart ==
    ASSUME MessageInit
    PROVE  Window!Init
<1>1. log = EmptyRing /\ num = [r \in Reader |-> 0] /\ got = Answered("NONE")
  BY DEF MessageInit
<1>2. Kept = << >>
  <2>1. log \in Ring /\ Holds(log, << >>) /\ Messages(<< >>)
    BY <1>1, NothingLies DEF Messages
  <2>2. Kept = Shown(<< >>)
    BY <2>1, KeptIs, KeptShown
  <2>3. Shown(<< >>) \in Seq(Seen) /\ Len(Shown(<< >>)) = Len(<< >>)
    BY <2>1, ShownIs
  <2> QED
    BY <2>2, <2>3
<1>3. log.seq_counter = 0
  BY <1>1 DEF EmptyRing
<1>4. [reader |-> got.reader, number |-> got.number, length |-> Len(got.text),
       status |-> got.status] = Window!Nothing("NONE")
  BY <1>1, AnsweredSeen
<1> QED
  BY <1>1, <1>2, <1>3, <1>4 DEF Window!Init

LEMMA WindowAdd ==
    ASSUME MessageInv, NEW owner \in Session, NEW len \in TextLength,
           Api_AddMessage(owner, len)
    PROVE  Window!Next
<1>1. log \in Ring /\ num' = num /\ got' = Answered("NONE")
  BY DEF MessageInv, MessageTypeOK, Api_AddMessage
<1>2. PICK es : Messages(es) /\ Holds(log, es)
  BY DEF MessageInv
<1>3. PICK number, data, e, out :
        /\ number = Successor(log.seq_counter)
        /\ data = ToBytes(owner) \o TextOf(number, len)
        /\ e = [number |-> number, data |-> data]
        /\ out = PushEntry(log, data, TRUE)
  OBVIOUS
<1>4. log' = out
  BY <1>3 DEF Api_AddMessage
<1>5. number \in 0 .. Limit - 1 /\ number \in Int
  <2>1. log.seq_counter + 1 \in Int
    BY <1>1, RingShape, LimitSize
  <2> QED
    BY <1>3, <2>1, LimitSize, ModMod DEF Successor
<1>6. /\ data \in Seq(Cell) /\ Len(data) < Limit /\ Len(data) = len + 2 /\ len \in Nat
      /\ FromBytes(data) = owner
  BY <1>3, <1>5, MessageData, SessionWritten DEF Carries
<1>7. e \in Fit /\ Message(e) /\ e.number = number /\ e.data = data
  BY <1>3, <1>5, <1>6 DEF Fit, Entry, Message
<1>8. AfterPush(log, es, e, out)
  BY <1>1, <1>2, <1>3, <1>6, PushOne DEF Messages
<1>9. Kept = Shown(es)
  BY <1>1, <1>2, KeptIs, KeptShown
<1>10. PICK size : size = TotalSize(Ulong + len)
  OBVIOUS
<1>11. size = SizeOf(e) /\ size \in Nat /\ size = TotalSize(Len(data))
  <2>1. Ulong + len = Len(data)
    BY <1>6 DEF Ulong
  <2> QED
    BY <1>7, <1>10, <2>1, FitEntry DEF SizeOf
<1>14. [reader |-> got.reader, number |-> got.number, length |-> Len(got.text),
        status |-> got.status]' = Window!Nothing("NONE")
  BY <1>1, AnsweredSeen
<1>12. CASE ~ Fits(Len(data))
  <2>1. out = log
    BY <1>7, <1>8, <1>12 DEF AfterPush
  <2>2. Kept' = Kept /\ log' = log
    BY <1>4, <2>1, KeptIs
  <2>3. size > BufferSize
    BY <1>11, <1>12, RingSize DEF Fits
  <2>4. Window!Add(owner, size)
    BY <1>1, <1>14, <2>2, <2>3 DEF Window!Add
  <2> QED
    BY <1>10, <2>4 DEF Window!Next
<1>13. CASE Fits(Len(data))
  <2>1. out \in Ring /\ out.seq_counter = number
    BY <1>7, <1>8, <1>13 DEF AfterPush, PushedRing
  <2>2. PICK k \in 0 .. Len(es) :
          Holds(out, Append(Rest(es, k), e)) /\ NoRoom(es, k, Len(data))
    BY <1>7, <1>8, <1>13 DEF AfterPush, PushedRing
  <2>3. PICK rest, more : rest = Rest(es, k) /\ more = Append(rest, e)
    OBVIOUS
  <2>4. /\ Messages(rest) /\ Messages(more)
        /\ Shown(rest) = SubSeq(Shown(es), k + 1, Len(Shown(es)))
        /\ Shown(more) = Append(Shown(rest), [number |-> number, session |-> owner,
                                              size |-> size])
    <3>1. /\ Messages(rest) /\ Shown(rest) = SubSeq(Shown(es), k + 1, Len(Shown(es)))
      BY <1>2, <2>3, ShownRest
    <3>2. /\ Messages(more)
          /\ Shown(more) = Append(Shown(rest), [number |-> e.number,
                                                session |-> FromBytes(e.data),
                                                size |-> SizeOf(e)])
      BY <1>7, <2>3, <3>1, ShownMore
    <3> QED
      BY <1>6, <1>7, <1>11, <3>1, <3>2
  <2>5. Kept' = Shown(more)
    BY <1>4, <2>1, <2>2, <2>3, <2>4, KeptIs, KeptShown
  <2>6. Window!Load(Shown(rest)) + size <= BufferSize
    <3>1. PICK off : Laid(out, more, off)
      BY <2>2, <2>3 DEF Holds
    <3>2. PICK n : n = Len(rest)
      OBVIOUS
    <3>3. /\ n \in Nat /\ rest \in Seq(Fit) /\ more \in Seq(Fit) /\ Len(more) = n + 1
          /\ more[n + 1] = e /\ \A i \in 1 .. n : more[i] = rest[i]
      BY <1>7, <2>3, <2>4, <3>2 DEF Messages
    <3>4. /\ off \in [0 .. n + 1 -> 0 .. BufferSize] /\ off[0] = 0
          /\ \A i \in 1 .. n + 1 : off[i] = off[i - 1] + SizeOf(more[i])
      BY <3>1, <3>3 DEF Laid
    <3>5. PICK cut : cut = [i \in 0 .. n |-> off[i]]
      OBVIOUS
    <3>6. cut \in [0 .. n -> Int] /\ cut[0] = 0 /\ cut[n] = off[n]
      BY <3>3, <3>4, <3>5, RingSize
    <3>7. \A i \in 1 .. n : cut[i] = cut[i - 1] + SizeOf(rest[i])
      <4>1. \A i \in 1 .. n : i \in 1 .. n + 1 /\ i - 1 \in 0 .. n /\ i \in 0 .. n
        BY <3>3
      <4> QED
        BY <3>3, <3>4, <3>5, <4>1
    <3>8. Window!Load(Shown(rest)) = cut[n]
      BY <2>4, <3>2, <3>6, <3>7, LoadSum
    <3>9. /\ n + 1 \in 1 .. n + 1 /\ (n + 1) - 1 = n
          /\ off[n + 1] \in 0 .. BufferSize
      BY <3>3, <3>4
    <3>10. off[n + 1] = off[n] + size
      BY <1>11, <3>3, <3>4, <3>9
    <3> QED
      BY <3>6, <3>8, <3>9, <3>10, RingSize
  <2>7. k > 0 => Window!Load(SubSeq(Shown(es), k, Len(Shown(es)))) + size > BufferSize
    <3> SUFFICES ASSUME k > 0
                 PROVE  Window!Load(SubSeq(Shown(es), k, Len(Shown(es)))) + size > BufferSize
      OBVIOUS
    <3>1. PICK before \in Ring : Holds(before, Rest(es, k - 1)) /\ ~ HasRoom(before, Len(data))
      BY <2>2 DEF NoRoom
    <3>2. k - 1 \in 0 .. Len(es) /\ (k - 1) + 1 = k
      BY <1>2 DEF Messages
    <3>3. /\ Messages(Rest(es, k - 1))
          /\ Shown(Rest(es, k - 1)) = SubSeq(Shown(es), (k - 1) + 1, Len(Shown(es)))
      BY <1>2, <3>2, ShownRest
    <3>4. Window!Load(Shown(Rest(es, k - 1))) = before.buffer_used
      BY <3>1, <3>3, LoadUsed
    <3>5. before.buffer_used \in Int /\ BufferSize - before.buffer_used < size
      BY <1>11, <3>1, RingShape, RingSize DEF HasRoom
    <3>6. PICK load : load = Window!Load(Shown(Rest(es, k - 1)))
      OBVIOUS
    <3>7. load + size > BufferSize
      BY <1>11, <3>4, <3>5, <3>6, RingSize
    <3> QED
      BY <3>2, <3>3, <3>6, <3>7
  <2>8. ~ (size > BufferSize)
    BY <1>11, <1>13, RingSize DEF Fits
  <2>9. log'.seq_counter = number
    BY <1>4, <2>1
  <2>10. k \in 0 .. Len(Shown(es))
    BY <1>2, ShownIs
  <2>12. Window!Add(owner, size)
    BY <1>1, <1>3, <1>9, <1>14, <2>3, <2>4, <2>5, <2>6, <2>7, <2>8, <2>9, <2>10
       DEF Window!Add, Window!Successor, Successor, Limit
  <2> QED
    BY <1>10, <2>12 DEF Window!Next
<1> QED
  BY <1>12, <1>13

(* How far a reader has come with his number: to the message that has it,  *)
(* or nowhere when no message has it.                                      *)
Position(es, n, p) ==
    /\ p \in 0 .. Len(es)
    /\ IF p = 0 THEN \A i \in 1 .. Len(es) : es[i].number # n ELSE es[p].number = n

LEMMA SomePosition ==
    ASSUME NEW es, NEW n
    PROVE  \E p : Position(es, n, p)
<1>1. CASE \E i \in 1 .. Len(es) : es[i].number = n
  <2>1. PICK i \in 1 .. Len(es) : es[i].number = n
    BY <1>1
  <2>2. i # 0 /\ i \in 0 .. Len(es)
    BY <2>1
  <2> QED
    BY <2>1, <2>2 DEF Position
<1>2. CASE ~ \E i \in 1 .. Len(es) : es[i].number = n
  <2>1. 0 \in 0 .. Len(es) \/ Len(es) \notin Nat
    OBVIOUS
  <2> QED
    BY <1>2, <2>1 DEF Position
<1> QED
  BY <1>1, <1>2

(* log_buffer_get_next finds the message behind the position of a number.  *)
FoundBehind(off, n, p, found) ==
    IF p = n THEN found = {}
    ELSE \E ptr : found = {ptr} /\ Means(log, ptr, off[p])

LEMMA NextBehind ==
    ASSUME log \in Ring, NEW es, Messages(es), NEW off, Laid(log, es, off),
           Numbers(es, log.seq_counter), NEW seq \in 0 .. Limit - 1,
           NEW p, Position(es, seq, p)
    PROVE  FoundBehind(off, Len(es), p, GetNext(seq, log))
<1>1. PICK n, found : n = Len(es) /\ found = GetNext(seq, log)
  OBVIOUS
<1>2. /\ es \in Seq(Fit) /\ n \in Nat /\ n <= MostEntries
      /\ log.seq_counter \in 0 .. Limit - 1
  BY <1>1, FewEntries, RingShape DEF Messages
<1>3. /\ \A i, j \in 1 .. n : es[i].number = es[j].number => i = j
      /\ \A i \in 1 .. n - 1 : es[i + 1].number = Successor(es[i].number)
      /\ \A m \in 0 .. Limit - 1, i \in 1 .. n :
            i > 1 /\ es[i].number = Successor(m) => es[i - 1].number = m
  BY <1>1, <1>2, NumbersApart
<1>4. p \in 0 .. n /\ IF p = 0 THEN \A i \in 1 .. n : es[i].number # seq
                     ELSE es[p].number = seq
  BY <1>1 DEF Position
<1>5. NextFound(log, es, off, seq, found)
  BY <1>1, GetNextFinds
<1>6. CASE found = {} /\ (n = 0 \/ es[n].number = seq)
  <2>1. p = n
    <3>1. CASE n = 0
      BY <1>4, <3>1
    <3>2. CASE n > 0 /\ es[n].number = seq
      BY <1>2, <1>3, <1>4, <3>2
    <3> QED
      BY <1>2, <1>6, <3>1, <3>2
  <2> QED
    BY <1>1, <1>6, <2>1 DEF FoundBehind
<1>7. ASSUME NEW i \in 1 .. n, NEW ptr \in found, found = {ptr},
             Means(log, ptr, off[i - 1]), IsNext(es, seq, i)
      PROVE  FoundBehind(off, n, p, found)
  <2>1. /\ es[n].number # seq /\ (i = 1 \/ es[i].number = Successor(seq))
        /\ \A j \in i + 1 .. n : es[j].number # Successor(seq)
    BY <1>1, <1>7 DEF IsNext
  <2>2. i = p + 1
    <3>1. CASE p = 0
      <4>1. ~ (i > 1)
        <5>1. i > 1 => i - 1 \in 1 .. n
          BY <1>2
        <5> QED
          BY <1>3, <1>4, <2>1, <3>1, <5>1
      <4> QED
        BY <1>2, <3>1, <4>1
    <3>2. CASE p > 0
      <4>1. p # n /\ p \in 1 .. n - 1 /\ p + 1 \in 1 .. n
        BY <1>2, <1>4, <2>1, <3>2
      <4>2. es[p + 1].number = Successor(seq)
        BY <1>3, <1>4, <3>2, <4>1
      <4>3. ~ (p + 1 \in i + 1 .. n)
        BY <2>1, <4>2
      <4>4. i > 1
        BY <1>2, <4>1, <4>3
      <4>5. es[i].number = es[p + 1].number
        BY <2>1, <4>2, <4>4
      <4> QED
        BY <1>3, <4>1, <4>5
    <3> QED
      BY <1>4, <3>1, <3>2
  <2>3. p # n /\ i - 1 = p
    BY <1>2, <1>4, <2>2
  <2> QED
    BY <1>7, <2>3 DEF FoundBehind
<1> QED
  BY <1>1, <1>5, <1>6, <1>7 DEF NextFound

Mine(r, e) == r = Everything \/ FromBytes(e.data) = r

PassedTo(es, r, seq, p, next) ==
    next = IF p < Len(es) /\ ~ Mine(r, es[p + 1]) THEN es[p + 1].number ELSE seq

LEMMA ConcernsMine ==
    ASSUME log \in Ring, NEW e \in Fit, Message(e), NEW o \in Nat, Lies(log, o, e),
           NEW ptr, Means(log, ptr, o), NEW r
    PROVE  (Concerns(r, ptr) <=> Mine(r, e)) /\ SeqAt(log, ptr) = e.number
<1>1. SeqAt(log, ptr) = e.number /\ GetUlong(log, DataPtr(ptr)) = FromBytes(e.data)
  BY MessageRead
<1> QED
  BY <1>1 DEF Concerns, SessionAt, Mine

LEMMA PassAny ==
    ASSUME log \in Ring, NEW es, Messages(es), NEW off, Laid(log, es, off), NEW r,
           NEW seq \in Int
    PROVE  PassedOne(r, seq) \in Int
<1>1. PICK found, next : found = GetNext(seq, log) /\ next = PassedOne(r, seq)
  OBVIOUS
<1>2. next = IF \A ptr \in found : Concerns(r, ptr) THEN seq
             ELSE SeqAt(log, CHOOSE ptr \in found : TRUE)
  <2>1. PassedOne(r, seq) = IF \A ptr \in GetNext(seq, log) : Concerns(r, ptr) THEN seq
                            ELSE SeqAt(log, CHOOSE ptr \in GetNext(seq, log) : TRUE)
    BY DEF PassedOne
  <2> QED
    BY <1>1, <2>1
<1>3. NextFound(log, es, off, seq, found)
  BY <1>1, GetNextFinds
<1>4. ASSUME NEW ptr \in found PROVE SeqAt(log, ptr) \in Int
  <2>1. PICK i \in 1 .. Len(es) : Means(log, ptr, off[i - 1])
    BY <1>3 DEF NextFound
  <2>2. PICK e, o : e = es[i] /\ o = off[i - 1]
    OBVIOUS
  <2>3. /\ e \in Fit /\ Message(e) /\ o \in Nat /\ Lies(log, o, e) /\ Means(log, ptr, o)
    BY <2>1, <2>2, Bounds DEF Messages, Laid
  <2> QED
    BY <2>3, ConcernsMine, FitEntry, LimitSize
<1>5. CASE \A ptr \in found : Concerns(r, ptr)
  BY <1>1, <1>2, <1>5
<1>6. CASE ~ \A ptr \in found : Concerns(r, ptr)
  <2>1. PICK ptr : ptr = CHOOSE q \in found : TRUE
    OBVIOUS
  <2>2. ptr \in found
    BY <1>6, <2>1
  <2> QED
    BY <1>1, <1>2, <1>4, <1>6, <2>1, <2>2
<1> QED
  BY <1>5, <1>6

(* One round passes the next message if it is for somebody else.           *)
LEMMA PassesOne ==
    ASSUME log \in Ring, NEW es, Messages(es), NEW off, Laid(log, es, off),
           Numbers(es, log.seq_counter), NEW r, NEW seq \in 0 .. Limit - 1,
           NEW p, Position(es, seq, p)
    PROVE  PassedTo(es, r, seq, p, PassedOne(r, seq))
<1>1. PICK found, next, n : /\ found = GetNext(seq, log) /\ next = PassedOne(r, seq)
                            /\ n = Len(es)
  OBVIOUS
<1>2. next = IF \A ptr \in found : Concerns(r, ptr) THEN seq
             ELSE SeqAt(log, CHOOSE ptr \in found : TRUE)
  <2>1. PassedOne(r, seq) = IF \A ptr \in GetNext(seq, log) : Concerns(r, ptr) THEN seq
                            ELSE SeqAt(log, CHOOSE ptr \in GetNext(seq, log) : TRUE)
    BY DEF PassedOne
  <2> QED
    BY <1>1, <2>1
<1>3. FoundBehind(off, n, p, found)
  BY <1>1, NextBehind
<1>4. n \in Nat /\ p \in 0 .. n
  BY <1>1 DEF Messages, Position
<1>5. CASE p = n
  <2>1. next = seq
    BY <1>2, <1>3, <1>5 DEF FoundBehind
  <2> QED
    BY <1>1, <1>4, <1>5, <2>1 DEF PassedTo
<1>6. CASE p # n
  <2>1. PICK ptr : found = {ptr} /\ Means(log, ptr, off[p])
    BY <1>3, <1>6 DEF FoundBehind
  <2>2. PICK e, o : e = es[p + 1] /\ o = off[p]
    OBVIOUS
  <2>3. p + 1 \in 1 .. n /\ (p + 1) - 1 = p /\ p < n
    BY <1>4, <1>6
  <2>4. e \in Fit /\ Message(e) /\ o \in Nat /\ Lies(log, o, e)
    BY <1>1, <2>2, <2>3, Bounds DEF Messages, Laid
  <2>5. (Concerns(r, ptr) <=> Mine(r, e)) /\ SeqAt(log, ptr) = e.number
    BY <2>1, <2>2, <2>4, ConcernsMine
  <2>6. (CHOOSE q \in found : TRUE) = ptr
    BY <2>1
  <2>7. next = IF Mine(r, e) THEN seq ELSE e.number
    BY <1>2, <2>1, <2>5, <2>6
  <2> QED
    BY <1>1, <2>2, <2>3, <2>7 DEF PassedTo
<1> QED
  BY <1>5, <1>6

(* The messages from one position on, up to another, are for others.       *)
Passing(es, r, from, seq, p) ==
    /\ p \in from .. Len(es) /\ Position(es, seq, p) /\ seq \in 0 .. Limit - 1
    /\ \A j \in from + 1 .. p : ~ Mine(r, es[j])

Stops(es, r, p) == p = Len(es) \/ Mine(r, es[p + 1])

PassedRound(es, r, from, k, seq) ==
    \E p : Passing(es, r, from, seq, p) /\ (p = from + k \/ Stops(es, r, p))

(* The loop of Api_GetMessage ends before a message for the reader, or     *)
(* behind them all.                                                        *)
LEMMA PassedRounds ==
    ASSUME log \in Ring, NEW es, Messages(es), NEW off, Laid(log, es, off),
           Numbers(es, log.seq_counter), NEW r, num[r] \in 0 .. Limit - 1,
           NEW from, Position(es, num[r], from)
    PROVE  \E p : Passing(es, r, from, Passed(r), p) /\ Stops(es, r, p)
<1>1. PICK n, first, step : /\ n = Len(es) /\ first = num[r]
                            /\ step = [seq \in Int |-> PassedOne(r, seq)]
  OBVIOUS
<1>2. PICK passed : passed = Iterate(step, first, MostEntries)
  OBVIOUS
<1>3. /\ n \in Nat /\ n <= MostEntries /\ MostEntries \in Nat /\ from \in 0 .. n
      /\ first \in 0 .. Limit - 1 /\ first \in Int
  BY <1>1, FewEntries, EntriesFit, LimitSize DEF Position
<1>4. step \in [Int -> Int]
  BY <1>1, PassAny
<1>5. /\ passed[0] = first
      /\ \A k \in 0 .. MostEntries - 1 : passed[k + 1] = step[passed[k]]
  <2>1. Steps(step, first, MostEntries, passed)
    BY <1>2, <1>3, <1>4, IterateRounds
  <2> QED
    BY <2>1 DEF Steps
<1> DEFINE T == {k \in 0 .. MostEntries : PassedRound(es, r, from, k, passed[k])}
<1>6. 0 \in T
  <2>1. Passing(es, r, from, first, from)
    BY <1>1, <1>3 DEF Passing
  <2>2. from = from + 0
    BY <1>3
  <2>3. PassedRound(es, r, from, 0, passed[0])
    BY <1>5, <2>1, <2>2 DEF PassedRound
  <2> QED
    BY <1>3, <2>3
<1>7. ASSUME NEW k \in 0 .. MostEntries - 1, k \in T PROVE k + 1 \in T
  <2>1. PICK seq, next : seq = passed[k] /\ next = passed[k + 1]
    OBVIOUS
  <2>2. PICK p : Passing(es, r, from, seq, p) /\ (p = from + k \/ Stops(es, r, p))
    BY <1>7, <2>1 DEF PassedRound
  <2>3. /\ p \in from .. n /\ Position(es, seq, p) /\ seq \in 0 .. Limit - 1
        /\ \A j \in from + 1 .. p : ~ Mine(r, es[j])
    BY <1>1, <2>2 DEF Passing
  <2>4. seq \in Int /\ p \in Int /\ p \in 0 .. n
    BY <1>3, <2>3, LimitSize
  <2>5. next = PassedOne(r, seq)
    BY <1>1, <1>5, <2>1, <2>4
  <2>6. PassedTo(es, r, seq, p, next)
    BY <2>3, <2>5, PassesOne
  <2>7. CASE Stops(es, r, p)
    <3>1. next = seq
      BY <1>1, <2>4, <2>6, <2>7 DEF PassedTo, Stops
    <3>2. PassedRound(es, r, from, k + 1, next)
      BY <2>2, <2>7, <3>1 DEF PassedRound
    <3> QED
      BY <1>3, <2>1, <3>2
  <2>8. CASE ~ Stops(es, r, p)
    <3>1. p = from + k /\ p # n /\ ~ Mine(r, es[p + 1])
      BY <1>1, <2>2, <2>8 DEF Stops
    <3>2. p + 1 \in from .. n /\ p + 1 = from + (k + 1) /\ p + 1 \in 1 .. n /\ p < n
      BY <1>3, <2>3, <2>4, <3>1
    <3>3. next = es[p + 1].number
      BY <1>1, <2>6, <3>1, <3>2 DEF PassedTo
    <3>4. next \in 0 .. Limit - 1
      <4>1. es[p + 1] \in Fit
        BY <1>1, <3>2 DEF Messages
      <4> QED
        BY <3>3, <4>1, FitEntry
    <3>5. Position(es, next, p + 1)
      BY <1>1, <3>2, <3>3 DEF Position
    <3>6. \A j \in from + 1 .. p + 1 : ~ Mine(r, es[j])
      <4>1. \A j \in from + 1 .. p + 1 : j = p + 1 \/ j \in from + 1 .. p
        BY <1>3, <2>4
      <4> QED
        BY <2>3, <3>1, <4>1
    <3>7. Passing(es, r, from, next, p + 1)
      BY <1>1, <3>2, <3>4, <3>5, <3>6 DEF Passing
    <3>8. PassedRound(es, r, from, k + 1, next)
      BY <3>2, <3>7 DEF PassedRound
    <3> QED
      BY <1>3, <2>1, <3>8
  <2> QED
    BY <2>7, <2>8
<1> HIDE DEF T
<1>8. \A k \in 0 .. MostEntries : k \in T
  BY <1>3, <1>6, <1>7, UpTo
<1>9. PassedRound(es, r, from, MostEntries, passed[MostEntries])
  BY <1>3, <1>8 DEF T
<1>10. Passed(r) = passed[MostEntries]
  BY <1>1, <1>2, Zenon DEF Passed
<1>11. PICK p : /\ Passing(es, r, from, Passed(r), p)
                /\ p = from + MostEntries \/ Stops(es, r, p)
  BY <1>9, <1>10 DEF PassedRound
<1>12. Stops(es, r, p)
  <2>1. p \in from .. n
    BY <1>1, <1>11 DEF Passing
  <2>2. p = from + MostEntries => p = n
    BY <1>3, <2>1
  <2> QED
    BY <1>1, <1>11, <2>2 DEF Stops
<1> QED
  BY <1>11, <1>12

LEMMA AheadIs ==
    ASSUME NEW es, Messages(es), Len(es) <= MostEntries, NEW last \in 0 .. Limit - 1,
           Numbers(es, last), NEW m, NEW from, Position(es, m, from)
    PROVE  Window!Ahead(Shown(es), m) = from + 1 .. Len(es)
<1>1. PICK messages, n : messages = Shown(es) /\ n = Len(es)
  OBVIOUS
<1>2. /\ n \in Nat /\ DOMAIN messages = 1 .. n
      /\ \A i \in 1 .. n : messages[i].number = es[i].number
  <2>1. /\ Shown(es) \in Seq(Seen) /\ Len(Shown(es)) = Len(es) /\ Len(es) \in Nat
        /\ \A i \in 1 .. Len(es) :
              Shown(es)[i] = [number  |-> es[i].number, session |-> FromBytes(es[i].data),
                              size    |-> SizeOf(es[i])]
    BY ShownIs
  <2>2. ASSUME NEW i \in 1 .. n PROVE messages[i].number = es[i].number
    <3>1. messages[i] = [number  |-> es[i].number, session |-> FromBytes(es[i].data),
                         size    |-> SizeOf(es[i])]
      BY <1>1, <2>1
    <3> QED
      BY <3>1
  <2> QED
    BY <1>1, <2>1, <2>2
<1>3. \A i, j \in 1 .. n : es[i].number = es[j].number => i = j
  BY <1>1, NumbersApart DEF Messages
<1>4. from \in 0 .. n /\ IF from = 0 THEN \A i \in 1 .. n : es[i].number # m
                         ELSE es[from].number = m
  BY <1>1 DEF Position
<1>5. PICK ahead : ahead = Window!Ahead(messages, m)
  OBVIOUS
<1>6. ahead = IF \E i \in 1 .. n : messages[i].number = m
              THEN {i \in 1 .. n : \E j \in 1 .. i - 1 : messages[j].number = m}
              ELSE 1 .. n
  BY <1>2, <1>5 DEF Window!Ahead
<1>7. CASE from = 0
  <2>1. ahead = 1 .. n /\ from + 1 = 1
    BY <1>2, <1>4, <1>6, <1>7
  <2> QED
    BY <1>1, <1>5, <2>1
<1>8. CASE from # 0
  <2>1. from \in 1 .. n /\ messages[from].number = m
    BY <1>2, <1>4, <1>8
  <2>2. ahead = {i \in 1 .. n : \E j \in 1 .. i - 1 : messages[j].number = m}
    BY <1>6, <2>1
  <2>3. ASSUME NEW i \in 1 .. n
        PROVE  (\E j \in 1 .. i - 1 : messages[j].number = m) <=> i \in from + 1 .. n
    <3>1. ASSUME NEW j \in 1 .. i - 1, messages[j].number = m PROVE i \in from + 1 .. n
      <4>1. j \in 1 .. n
        BY <1>2
      <4>2. j = from
        BY <1>2, <1>3, <2>1, <3>1, <4>1
      <4> QED
        BY <1>2, <4>2
    <3>2. ASSUME i \in from + 1 .. n PROVE from \in 1 .. i - 1
      BY <1>2, <2>1, <3>2
    <3> QED
      BY <2>1, <3>1, <3>2
  <2>4. from + 1 .. n \subseteq 1 .. n
    BY <1>2, <2>1
  <2>5. ahead = from + 1 .. n
    BY <2>2, <2>3, <2>4
  <2> QED
    BY <1>1, <1>5, <2>5
<1> QED
  BY <1>7, <1>8

LEMMA WindowRead ==
    ASSUME MessageInv, NEW r \in Reader, NEW maximum \in Capacity,
           Api_GetMessage(r, maximum)
    PROVE  Window!Read(r, maximum) \/ Window!Fail
<1>1. /\ log \in Ring /\ num \in [Reader -> 0 .. Limit - 1] /\ log' = log
      /\ num[r] \in 0 .. Limit - 1 /\ log.seq_counter \in 0 .. Limit - 1
  BY RingShape DEF MessageInv, MessageTypeOK, Api_GetMessage
<1>2. PICK es : Messages(es) /\ Holds(log, es) /\ Numbers(es, log.seq_counter)
  BY DEF MessageInv
<1>3. PICK off : Laid(log, es, off)
  BY <1>2 DEF Holds
<1>4. PICK from : Position(es, num[r], from)
  BY SomePosition
<1>5. PICK p : Passing(es, r, from, Passed(r), p) /\ Stops(es, r, p)
  BY <1>1, <1>2, <1>3, <1>4, PassedRounds
<1>6. PICK n, found, messages : /\ n = Len(es) /\ found = GetNext(Passed(r), log)
                                /\ messages = Shown(es)
  OBVIOUS
<1>7. /\ p \in from .. n /\ Position(es, Passed(r), p) /\ Passed(r) \in 0 .. Limit - 1
      /\ \A j \in from + 1 .. p : ~ Mine(r, es[j])
      /\ p = n \/ Mine(r, es[p + 1])
  BY <1>5, <1>6 DEF Passing, Stops
<1>8. FoundBehind(off, n, p, found)
  BY <1>1, <1>2, <1>3, <1>6, <1>7, NextBehind
<1>9. n \in Nat /\ n <= MostEntries /\ from \in 0 .. n
  BY <1>1, <1>3, <1>4, <1>6, FewEntries DEF Position
<1>10. Kept = messages /\ Kept' = Kept
  BY <1>1, <1>2, <1>6, KeptIs, KeptShown
<1>11. Window!Ahead(messages, num[r]) = from + 1 .. n
  BY <1>1, <1>2, <1>4, <1>6, <1>9, AheadIs
<1>12. ASSUME NEW i \in 1 .. n
       PROVE  /\ messages[i].number = es[i].number
              /\ Window!Concerns(r, messages[i]) <=> Mine(r, es[i])
  <2>1. messages[i] = [number  |-> es[i].number, session |-> FromBytes(es[i].data),
                       size    |-> SizeOf(es[i])]
    BY <1>2, <1>6, ShownIs
  <2> QED
    BY <2>1 DEF Window!Concerns, Mine
<1>13. PICK mine : mine = {i \in Window!Ahead(messages, num[r]) :
                             Window!Concerns(r, messages[i])}
  OBVIOUS
<1>14. mine = {i \in from + 1 .. n : Mine(r, es[i])}
  <2>1. from + 1 .. n \subseteq 1 .. n
    BY <1>9
  <2> QED
    BY <1>11, <1>12, <1>13, <2>1
<1>15. UNCHANGED <<Kept, log.seq_counter>>
  BY <1>1, <1>10
<1>16. PICK answer, answer1 :
         /\ answer = [reader |-> got.reader, number |-> got.number,
                      length |-> Len(got.text), status |-> got.status]
         /\ answer1 = [reader |-> got'.reader, number |-> got'.number,
                       length |-> Len(got'.text), status |-> got'.status]
  OBVIOUS
<1>17. CASE got' = Answered("EXCEPTION") /\ num' = num
  <2>1. answer1 = Window!Nothing("EXCEPTION")
    BY <1>16, <1>17, AnsweredSeen
  <2> QED
    BY <1>15, <1>16, <1>17, <2>1 DEF Window!Fail
<1>18. CASE /\ found = {}
            /\ got' = [reader |-> r, number |-> num[r], text |-> << >>,
                       status |-> "NO_MORE_ENTRIES"]
            /\ num' = num
  <2>1. p = n
    BY <1>8, <1>18 DEF FoundBehind
  <2>2. mine = {}
    BY <1>7, <1>14, <2>1
  <2>3. answer1 = Window!Outcome(r, num[r], 0, "NO_MORE_ENTRIES")
    <3>1. Len(<< >>) = 0
      OBVIOUS
    <3> QED
      BY <1>16, <1>18, <3>1 DEF Window!Outcome
  <2> QED
    BY <1>10, <1>13, <1>15, <1>16, <1>18, <2>2, <2>3 DEF Window!Read
<1>19. ASSUME NEW ptr \in found, NEW text, NEW status,
              num' = [num EXCEPT ![r] = SeqAt(log, ptr)],
              got' = [reader |-> r, number |-> SeqAt(log, ptr),
                      text |-> text, status |-> status],
              text = IF TextSize(ptr) <= maximum THEN Text(ptr) ELSE << >>,
              status = IF TextSize(ptr) <= maximum THEN "SUCCESS" ELSE "BUFFER_TOO_SMALL"
       PROVE  Window!Read(r, maximum)
  <2>1. p # n /\ Means(log, ptr, off[p])
    BY <1>8, <1>19 DEF FoundBehind
  <2>2. PICK i, e, o : i = p + 1 /\ e = es[i] /\ o = off[p]
    OBVIOUS
  <2>3. i \in 1 .. n /\ i - 1 = p /\ i \in from + 1 .. n
    BY <1>7, <1>9, <2>1, <2>2
  <2>4. e \in Fit /\ Message(e) /\ o \in Nat /\ Lies(log, o, e) /\ Means(log, ptr, o)
    BY <1>1, <1>2, <1>3, <1>6, <2>1, <2>2, <2>3, Bounds DEF Messages, Laid
  <2>5. SeqAt(log, ptr) = e.number
    BY <1>1, <2>4, EntryRead
  <2>6. i \in mine /\ \A j \in mine : i <= j
    <3>1. Mine(r, es[i])
      BY <1>7, <2>1, <2>2
    <3>2. ASSUME NEW j \in from + 1 .. n, Mine(r, es[j]) PROVE i <= j
      <4>1. ~ (j \in from + 1 .. p)
        BY <1>7, <3>2
      <4> QED
        BY <1>7, <1>9, <2>2, <4>1
    <3> QED
      BY <1>14, <2>3, <3>1, <3>2
  <2>7. mine # {} /\ num' = [num EXCEPT ![r] = messages[i].number]
    BY <1>12, <1>19, <2>2, <2>3, <2>5, <2>6
  <2>8. PICK k : k = TextSize(ptr)
    OBVIOUS
  <2>9. k \in Nat /\ Len(Text(ptr)) = k /\ messages[i].size - TotalSize(Ulong) = k
    <3>1. k \in Nat /\ Len(Text(ptr)) = k
      BY <1>1, <2>4, <2>8, TextRead
    <3>2. messages[i].size = SizeOf(e)
      <4>1. messages[i] = [number  |-> es[i].number, session |-> FromBytes(es[i].data),
                           size    |-> SizeOf(es[i])]
        BY <1>2, <1>6, <2>3, ShownIs
      <4> QED
        BY <2>2, <4>1
    <3>3. SizeAt(log, ptr) = Len(e.data) /\ Len(e.data) \in Nat
      BY <1>1, <2>4, EntryRead, FitEntry
    <3>4. PICK length : length = Len(e.data)
      OBVIOUS
    <3>5. k = length - Ulong /\ SizeOf(e) = TotalSize(length)
      BY <2>8, <3>3, <3>4 DEF TextSize, SizeOf
    <3> QED
      BY <3>1, <3>2, <3>3, <3>4, <3>5 DEF TotalSize, Ulong
  <2>10. answer1 = IF k <= maximum
                   THEN Window!Outcome(r, messages[i].number, k, "SUCCESS")
                   ELSE Window!Outcome(r, messages[i].number, 0, "BUFFER_TOO_SMALL")
    <3>1. Len(<< >>) = 0
      OBVIOUS
    <3>2. messages[i].number = e.number
      BY <1>12, <2>2, <2>3
    <3>3. Len(text) = (IF k <= maximum THEN k ELSE 0)
      BY <1>19, <2>8, <2>9, <3>1
    <3>4. status = IF k <= maximum THEN "SUCCESS" ELSE "BUFFER_TOO_SMALL"
      BY <1>19, <2>8
    <3>5. answer1 = [reader |-> r, number |-> e.number, length |-> Len(text),
                     status |-> status]
      BY <1>16, <1>19, <2>5
    <3> QED
      BY <3>2, <3>3, <3>4, <3>5 DEF Window!Outcome
  <2>11. PICK length : length = messages[i].size - TotalSize(Ulong)
    OBVIOUS
  <2>12. answer1 = IF length <= maximum
                   THEN Window!Outcome(r, messages[i].number, length, "SUCCESS")
                   ELSE Window!Outcome(r, messages[i].number, 0, "BUFFER_TOO_SMALL")
    BY <2>9, <2>10, <2>11
  <2> QED
    BY <1>10, <1>13, <1>15, <1>16, <2>6, <2>7, <2>11, <2>12 DEF Window!Read
<1>20. \/ /\ found = {}
          /\ got' = [reader |-> r, number |-> num[r], text |-> << >>,
                     status |-> "NO_MORE_ENTRIES"]
          /\ num' = num
       \/ got' = Answered("EXCEPTION") /\ num' = num
       \/ \E ptr \in found :
          /\ num' = [num EXCEPT ![r] = SeqAt(log, ptr)]
          /\ got' = [reader |-> r, number |-> SeqAt(log, ptr),
                     text |-> IF TextSize(ptr) <= maximum THEN Text(ptr) ELSE << >>,
                     status |-> IF TextSize(ptr) <= maximum THEN "SUCCESS"
                                ELSE "BUFFER_TOO_SMALL"]
  BY <1>6, Zenon DEF Api_GetMessage
<1> QED
  BY <1>17, <1>18, <1>19, <1>20

(* The readers get what MessageWindow says: log_buffer_push_entry drops no *)
(* more than it must, Api_AddMessage numbers the messages in order, and    *)
(* the loop of Api_GetMessage stops at the first message for the reader    *)
(* behind the one he had, wherever the entries lie and whatever was        *)
(* dropped since.  He gets as much text as the message has; only when that *)
(* is more than he has room for, or when the call fails, he gets none.     *)
THEOREM WindowKept == MessageSpec => WindowSpec
<1>1. MessageInit => Window!Init
  BY WindowStart
<1>2. MessageInv /\ [MessageNext]_messageVars => [Window!Next]_windowVars
  <2> SUFFICES ASSUME MessageInv, [MessageNext]_messageVars
               PROVE  [Window!Next]_windowVars
    OBVIOUS
  <2>1. ASSUME NEW owner \in Session, NEW len \in TextLength,
               Api_AddMessage(owner, len)
        PROVE  [Window!Next]_windowVars
    BY <2>1, WindowAdd
  <2>2. ASSUME NEW r \in Reader, NEW maximum \in Capacity, Api_GetMessage(r, maximum)
        PROVE  [Window!Next]_windowVars
    BY <2>2, WindowRead DEF Window!Next
  <2>3. CASE UNCHANGED messageVars
    <3>1. log' = log /\ num' = num /\ got' = got
      BY <2>3 DEF messageVars
    <3>2. Kept' = Kept
      BY <3>1, KeptIs
    <3> QED
      BY <3>1, <3>2 DEF windowVars
  <2> QED
    BY <2>1, <2>2, <2>3 DEF MessageNext
<1> QED
  BY <1>1, <1>2, MessageInductive, PTL DEF MessageSpec, WindowSpec, Window!Spec, windowVars

-----------------------------------------------------------------------------
(* Entries of a monitor                                                    *)

(* Every entry begins with a time and ids.                                 *)
Records(es) == es \in Seq(Fit) /\ \A i \in 1 .. Len(es) : Len(es[i].data) >= 2

Kind(ring) == \E es : Records(es) /\ Holds(ring, es)

(* The set of monitors is finite, since every session was made by a step,  *)
(* and every ring lays out entries of a monitor.                           *)
SessionInv ==
    /\ SessionTypeOK
    /\ IsFiniteSet({s \in SessionId : Monitored(s)})
    /\ monitorCount = Cardinality({s \in SessionId : Monitored(s)})
    /\ \A s \in SessionId : Monitored(s) => Kind(session[s].log)

StampOf(e) == [stamp |-> e.data[2], size |-> SizeOf(e)]
StampsOf(es) == [i \in 1 .. Len(es) |-> StampOf(es[i])]

StampAt(ring, ptr) ==
    [stamp |-> IdsAt(ring, ptr), size |-> TotalSize(SizeAt(ring, ptr))]

LEMMA RecordsIs ==
    ASSUME NEW es, Records(es)
    PROVE  /\ es \in Seq(Fit) /\ Len(es) \in Nat
           /\ \A i \in 1 .. Len(es) :
                 /\ es[i] \in Fit /\ Len(es[i].data) >= 2
                 /\ es[i].data[2] \in Cell /\ StampOf(es[i]) \in Stamped
                 /\ StampOf(es[i]).stamp = es[i].data[2]
                 /\ StampOf(es[i]).size = SizeOf(es[i])
<1>1. es \in Seq(Fit) /\ Len(es) \in Nat
  BY DEF Records
<1>2. ASSUME NEW i \in 1 .. Len(es)
      PROVE  /\ es[i] \in Fit /\ Len(es[i].data) >= 2
             /\ es[i].data[2] \in Cell /\ StampOf(es[i]) \in Stamped
             /\ StampOf(es[i]).stamp = es[i].data[2]
             /\ StampOf(es[i]).size = SizeOf(es[i])
  <2>1. PICK e : e = es[i]
    OBVIOUS
  <2>2. e \in Fit /\ Len(e.data) >= 2
    BY <1>1, <2>1 DEF Records
  <2>3. e.data \in Seq(Cell) /\ Len(e.data) \in Nat /\ SizeOf(e) \in Int
    BY <2>2, FitEntry
  <2>4. e.data[2] \in Cell /\ e.data[2] \in Int
    BY <2>2, <2>3, RingSize DEF Cell
  <2> QED
    BY <2>1, <2>2, <2>3, <2>4 DEF StampOf, Stamped
<1> QED
  BY <1>1, <1>2

LEMMA StampsIs ==
    ASSUME NEW es, Records(es)
    PROVE  /\ StampsOf(es) \in Seq(Stamped) /\ Len(StampsOf(es)) = Len(es)
           /\ \A i \in 1 .. Len(es) : StampsOf(es)[i] = StampOf(es[i])
<1>1. PICK n, stamps : n = Len(es) /\ stamps = StampsOf(es)
  OBVIOUS
<1>2. stamps = [i \in 1 .. n |-> StampOf(es[i])]
  BY <1>1 DEF StampsOf
<1>3. n \in Nat /\ \A i \in 1 .. n : StampOf(es[i]) \in Stamped
  BY <1>1, RecordsIs
<1>4. stamps \in [1 .. n -> Stamped]
  BY <1>2, <1>3
<1>5. stamps \in Seq(Stamped) /\ Len(stamps) = n
  BY <1>3, <1>4
<1> QED
  BY <1>1, <1>2, <1>5

LEMMA StampAny ==
    ASSUME NEW ring \in AnyRing, NEW ptr \in Int
    PROVE  IdsAt(ring, ptr) \in Int /\ SizeAt(ring, ptr) \in Int
<1>1. ASSUME NEW p \in Int, NEW k \in Nat PROVE Behind(p, k) \in Int
  <2>1. ByteAt(p) \in Int
    BY RingSize DEF ByteAt
  <2>2. ByteAt(p) + k - 1 \in Int
    BY <2>1
  <2>3. (ByteAt(p) + k - 1) % BufferSize \in Int
    BY <2>2, RingSize
  <2> QED
    BY <1>1, <2>3 DEF Behind, Nth
<1>2. PICK p : p = Behind(DataPtr(ptr), TimeCell)
  OBVIOUS
<1>3. p \in Int
  <2>1. 2 * Ulong \in Nat /\ TimeCell \in Nat
    BY DEF Ulong, TimeCell
  <2>2. DataPtr(ptr) \in Int
    BY <1>1, <2>1 DEF DataPtr
  <2> QED
    BY <1>1, <1>2, <2>1, <2>2
<1>4. ring.buffer_data[Nth(p, 1)] \in Int
  <2>1. ring.buffer_data \in [0 .. BufferSize - 1 -> Int]
    BY DEF AnyRing
  <2>2. ByteAt(p) \in Int
    BY <1>3, RingSize DEF ByteAt
  <2>3. ByteAt(p) + 1 - 1 \in Int
    BY <2>2
  <2>4. Nth(p, 1) \in 0 .. BufferSize - 1
    BY <2>3, RingSize, ModMod DEF Nth
  <2> QED
    BY <2>1, <2>4
<1>5. IdsAt(ring, ptr) = ring.buffer_data[Nth(p, 1)]
  BY <1>2 DEF IdsAt, GetBytes, IdsCell
<1>6. SizeAt(ring, ptr) \in Int
  BY UlongAny DEF SizeAt
<1> QED
  BY <1>4, <1>5, <1>6

(* What is read where an entry lies.                                       *)
LEMMA StampRead ==
    ASSUME NEW ring \in Ring, NEW e \in Fit, Len(e.data) >= 2, NEW o \in Nat,
           Lies(ring, o, e), NEW ptr, Means(ring, ptr, o)
    PROVE  IdsAt(ring, ptr) = e.data[2] /\ SizeAt(ring, ptr) = Len(e.data)
<1>1. SizeAt(ring, ptr) = Len(e.data) /\ Means(ring, DataPtr(ptr), o + 4)
  BY EntryRead
<1>2. PICK p : p = Behind(DataPtr(ptr), TimeCell)
  OBVIOUS
<1>3. Means(ring, p, (o + 4) + 1)
  BY <1>1, <1>2, BehindMeans DEF TimeCell
<1>4. ring.buffer_data[Nth(p, 1)] = At(ring, ((o + 4) + 1) + (1 - 1))
  BY <1>3, NthMeans
<1>5. IdsAt(ring, ptr) = ring.buffer_data[Nth(p, 1)]
  BY <1>2 DEF IdsAt, GetBytes, IdsCell
<1>6. At(ring, o + 5) = e.data[2]
  <2>1. \A i \in 1 .. Len(e.data) : At(ring, o + 3 + i) = e.data[i]
    BY DEF Lies
  <2>2. o + 3 + 2 = o + 5 /\ 2 \in 1 .. Len(e.data)
    BY FitEntry
  <2> QED
    BY <2>1, <2>2
<1>7. ((o + 4) + 1) + (1 - 1) = o + 5
  OBVIOUS
<1> QED
  BY <1>1, <1>4, <1>5, <1>6, <1>7

LEMMA HeldStamps ==
    ASSUME NEW ring \in Ring, NEW es, Records(es), Holds(ring, es)
    PROVE  Held(ring) = StampsOf(es)
<1>1. PICK off : Laid(ring, es, off)
  BY DEF Holds
<1>2. PICK held, stamps, read : /\ held = Held(ring) /\ stamps = StampsOf(es)
                                /\ read = [ptr \in Int |-> StampAt(ring, ptr)]
  OBVIOUS
<1>3. read \in [Int -> Stamped]
  <2>1. ASSUME NEW ptr \in Int PROVE StampAt(ring, ptr) \in Stamped
    <3>1. IdsAt(ring, ptr) \in Int /\ SizeAt(ring, ptr) \in Int
      BY RingShape, StampAny
    <3>2. TotalSize(SizeAt(ring, ptr)) \in Int
      BY <3>1 DEF TotalSize, Ulong
    <3> QED
      BY <3>1, <3>2 DEF StampAt, Stamped
  <2> QED
    BY <1>2, <2>1
<1>4. held = Walk(ring, Stamped, read)
  BY <1>2, Zenon DEF Held, StampAt
<1>5. /\ held \in Seq(Stamped) /\ Len(held) = Len(es)
      /\ \A i \in 1 .. Len(es) : held[i] = read[ring.buffer_start_ptr + off[i - 1]]
  BY <1>1, <1>3, <1>4, WalkRounds
<1>6. /\ stamps \in Seq(Stamped) /\ Len(stamps) = Len(es)
      /\ \A i \in 1 .. Len(es) : stamps[i] = StampOf(es[i])
  BY <1>2, StampsIs
<1>7. ASSUME NEW i \in 1 .. Len(es) PROVE held[i] = stamps[i]
  <2>1. PICK e, o, ptr : e = es[i] /\ o = off[i - 1] /\ ptr = ring.buffer_start_ptr + o
    OBVIOUS
  <2>2. e \in Fit /\ Len(e.data) >= 2 /\ o \in Nat /\ Lies(ring, o, e)
    BY <1>1, <2>1, Bounds, RecordsIs DEF Laid
  <2>3. Means(ring, ptr, o) /\ ptr \in Int
    <3>1. i - 1 \in 0 .. Len(es)
      BY RecordsIs
    <3>2. /\ o \in 0 .. ring.buffer_used /\ ring.buffer_used \in 0 .. BufferSize
          /\ ring.buffer_start_ptr \in 0 .. BufferSize - 1
      BY <1>1, <2>1, <3>1, Bounds, RingShape
    <3>3. ptr \in Pointer /\ ptr \in Int
      BY <2>1, <3>2, RingSize DEF Pointer
    <3> QED
      BY <2>1, <2>2, <3>3 DEF Means
  <2>4. IdsAt(ring, ptr) = e.data[2] /\ SizeAt(ring, ptr) = Len(e.data)
    BY <2>2, <2>3, StampRead
  <2>5. held[i] = StampAt(ring, ptr)
    BY <1>2, <1>5, <2>1, <2>3
  <2> QED
    BY <1>6, <2>1, <2>4, <2>5 DEF StampAt, StampOf, SizeOf
<1> QED
  BY <1>2, <1>5, <1>6, <1>7, SeqEqual

-----------------------------------------------------------------------------
(* Putting and getting                                                     *)

LEMMA RecordData ==
    ASSUME NEW number \in 0 .. Limit - 1, NEW len \in DataLength,
           NEW data, data = EntryOf(number, len)
    PROVE  /\ data \in Seq(Cell) /\ Len(data) = 2 + len /\ len \in Nat /\ Len(data) < Limit
           /\ Len(data) >= 2 /\ data[2] \in Cell
<1>1. PICK a, b : a = <<0, number % Base>> /\ b = DataOf(number, len)
  OBVIOUS
<1>2. Limit \in Int /\ number \in Int /\ Base * Base \in Int
  BY RingSize DEF Limit
<1>3. len \in Nat /\ 2 + len < Limit
  BY <1>2, SessionAssumption DEF TimeCell, IdsCell
<1>4. number % Base \in Cell /\ 0 \in Cell
  BY <1>2, RingSize, ModMod DEF Cell
<1>5. a \in Seq(Cell) /\ Len(a) = 2
  BY <1>1, <1>4
<1>6. b \in Seq(Cell) /\ Len(b) = len
  <2>1. ASSUME NEW i \in 1 .. len PROVE (number + i) % Base \in Cell
    <3>1. number + i \in Int
      BY <1>2
    <3> QED
      BY <3>1, RingSize, ModMod DEF Cell
  <2>2. b \in [1 .. len -> Cell]
    BY <1>1, <2>1 DEF DataOf
  <2> QED
    BY <1>3, <2>2
<1>7. /\ a \o b \in Seq(Cell) /\ Len(a \o b) = Len(a) + Len(b)
  BY <1>5, <1>6, ConcatProperties, Zenon
<1>8. data = a \o b
  BY <1>1 DEF EntryOf
<1>9. data \in Seq(Cell) /\ Len(data) = 2 + len
  BY <1>5, <1>6, <1>7, <1>8
<1>10. data[2] \in Cell
  BY <1>3, <1>9
<1> QED
  BY <1>3, <1>9, <1>10

PutRing(ring, es, data, out) ==
    /\ out \in Ring
    /\ \/ /\ HasRoom(ring, Len(data)) /\ Pushed(ring, data, FALSE)
          /\ \E e \in Fit : e.data = data /\ Holds(out, Append(es, e))
       \/ /\ ~ HasRoom(ring, Len(data)) /\ ~ Pushed(ring, data, FALSE)
          /\ Holds(out, es)

LEMMA PutOne ==
    ASSUME NEW ring \in Ring, NEW es \in Seq(Fit), Holds(ring, es),
           NEW data \in Seq(Cell), Len(data) < Limit,
           NEW out, out = PushEntry(ring, data, FALSE)
    PROVE  PutRing(ring, es, data, out)
<1>1. PICK size, next : size = Len(data) /\ next = Numbered(ring)
  OBVIOUS
<1>2. /\ next \in Ring /\ Holds(next, es) /\ size \in Nat /\ size < Limit
      /\ next.buffer_used = ring.buffer_used
  BY <1>1, NumberedHolds
<1>3. out = IF ~ Fits(size) THEN ring
            ELSE IF HasRoom(ring, size) THEN AppendEntry(next, data)
            ELSE next
  BY <1>1, Zenon DEF PushEntry, Numbered
<1>4. Pushed(ring, data, FALSE) <=> Fits(size) /\ HasRoom(ring, size)
  BY <1>1 DEF Pushed
<1>5. HasRoom(ring, size) => Fits(size)
  <2>1. TotalSize(size) \in Int /\ ring.buffer_used \in 0 .. BufferSize
    BY <1>2, RingShape DEF TotalSize, Ulong
  <2> QED
    BY <2>1, RingSize DEF HasRoom, Fits
<1>6. CASE HasRoom(ring, size)
  <2>1. HasRoom(next, size) /\ out = AppendEntry(next, data)
    BY <1>2, <1>3, <1>5, <1>6 DEF HasRoom
  <2>2. PICK e : e = [number |-> next.seq_counter, data |-> data]
    OBVIOUS
  <2>3. out \in Ring /\ e \in Fit /\ Holds(out, Append(es, e))
    BY <1>1, <1>2, <2>1, <2>2, AppendOne
  <2> QED
    BY <1>1, <1>4, <1>5, <1>6, <2>2, <2>3 DEF PutRing
<1>7. CASE ~ HasRoom(ring, size)
  BY <1>1, <1>2, <1>3, <1>4, <1>7 DEF PutRing
<1> QED
  BY <1>6, <1>7

LEMMA RecordsRest ==
    ASSUME NEW es, Records(es), NEW k \in 0 .. Len(es)
    PROVE  /\ Records(Rest(es, k)) /\ Len(Rest(es, k)) = Len(es) - k
           /\ StampsOf(Rest(es, k)) = SubSeq(StampsOf(es), k + 1, Len(StampsOf(es)))
<1>1. PICK rest, n, all : rest = Rest(es, k) /\ n = Len(es) - k /\ all = StampsOf(es)
  OBVIOUS
<1>2. es \in Seq(Fit) /\ Len(es) \in Nat /\ n \in Nat /\ k \in Nat
  BY <1>1, RecordsIs
<1>3. /\ rest \in Seq(Fit) /\ Len(rest) = n
      /\ \A i \in 1 .. n : rest[i] = es[i + k]
  BY <1>1, <1>2, RestIs
<1>4. \A i \in 1 .. n : i + k \in 1 .. Len(es)
  BY <1>1, <1>2
<1>5. Records(rest)
  BY <1>3, <1>4 DEF Records
<1>6. PICK stamps : stamps = StampsOf(rest)
  OBVIOUS
<1>7. /\ stamps \in Seq(Stamped) /\ Len(stamps) = n
      /\ \A i \in 1 .. n : stamps[i] = StampOf(rest[i])
  BY <1>3, <1>5, <1>6, StampsIs
<1>8. /\ all \in Seq(Stamped) /\ Len(all) = Len(es)
      /\ \A i \in 1 .. Len(es) : all[i] = StampOf(es[i])
  BY <1>1, StampsIs
<1>9. PICK sub : sub = SubSeq(all, k + 1, Len(es))
  OBVIOUS
<1>10. sub \in Seq(Stamped) /\ Len(sub) = n /\ \A i \in 1 .. n : sub[i] = all[i + k]
  <2>1. Len(es) - (k + 1) + 1 = n /\ \A i \in 1 .. n : i + (k + 1) - 1 = i + k
    BY <1>1, <1>2
  <2>2. sub = [i \in 1 .. Len(es) - (k + 1) + 1 |-> all[i + (k + 1) - 1]]
    BY <1>2, <1>8, <1>9
  <2>3. sub = [i \in 1 .. n |-> all[i + k]]
    BY <2>1, <2>2
  <2>4. \A i \in 1 .. n : all[i + k] \in Stamped
    BY <1>4, <1>8
  <2>5. sub \in [1 .. n -> Stamped]
    BY <2>3, <2>4
  <2>6. sub \in Seq(Stamped) /\ Len(sub) = n
    BY <1>2, <2>5
  <2> QED
    BY <2>3, <2>6
<1>11. \A i \in 1 .. n : stamps[i] = sub[i]
  BY <1>3, <1>4, <1>7, <1>8, <1>10
<1>12. stamps = sub
  BY <1>7, <1>10, <1>11, SeqEqual
<1> QED
  BY <1>1, <1>3, <1>5, <1>6, <1>8, <1>9, <1>12

LEMMA RecordsMore ==
    ASSUME NEW es, Records(es), NEW e \in Fit, Len(e.data) >= 2
    PROVE  /\ Records(Append(es, e))
           /\ StampsOf(Append(es, e)) = Append(StampsOf(es), StampOf(e))
<1>1. PICK more, n, last : more = Append(es, e) /\ n = Len(es) /\ last = StampOf(e)
  OBVIOUS
<1>2. es \in Seq(Fit) /\ n \in Nat
  BY <1>1, RecordsIs
<1>3. /\ more \in Seq(Fit) /\ Len(more) = n + 1 /\ more[n + 1] = e
      /\ \A i \in 1 .. n : more[i] = es[i]
  BY <1>1, <1>2
<1>4. \A i \in 1 .. n + 1 : i \in 1 .. n \/ i = n + 1
  BY <1>2
<1>5. Records(more)
  BY <1>1, <1>3, <1>4 DEF Records
<1>6. PICK stamps, old : stamps = StampsOf(more) /\ old = StampsOf(es)
  OBVIOUS
<1>7. /\ stamps \in Seq(Stamped) /\ Len(stamps) = n + 1
      /\ \A i \in 1 .. n + 1 : stamps[i] = StampOf(more[i])
  BY <1>3, <1>5, <1>6, StampsIs
<1>8. /\ old \in Seq(Stamped) /\ Len(old) = n /\ \A i \in 1 .. n : old[i] = StampOf(es[i])
  BY <1>1, <1>6, StampsIs
<1>9. stamps[n + 1] = last /\ last \in Stamped
  <2>1. n + 1 \in 1 .. n + 1
    BY <1>2
  <2> QED
    BY <1>1, <1>3, <1>7, <2>1
<1>10. PICK longer : longer = Append(old, last)
  OBVIOUS
<1>11. /\ longer \in Seq(Stamped) /\ Len(longer) = n + 1 /\ longer[n + 1] = last
       /\ \A i \in 1 .. n : longer[i] = old[i]
  BY <1>2, <1>8, <1>9, <1>10
<1>12. \A i \in 1 .. n + 1 : stamps[i] = longer[i]
  BY <1>3, <1>4, <1>7, <1>8, <1>9, <1>11
<1>13. stamps = longer
  BY <1>7, <1>11, <1>12, SeqEqual
<1> QED
  BY <1>1, <1>5, <1>6, <1>10, <1>13

LEMMA LoadHeld ==
    ASSUME NEW ring \in Ring, NEW es, Records(es), Holds(ring, es)
    PROVE  Monitor!Load(StampsOf(es)) = ring.buffer_used
<1>1. PICK off : Laid(ring, es, off)
  BY DEF Holds
<1>2. PICK stamps, n : stamps = StampsOf(es) /\ n = Len(es)
  OBVIOUS
<1>3. /\ n \in Nat /\ Len(stamps) = n
      /\ \A i \in 1 .. n : stamps[i].size = SizeOf(es[i])
  <2>1. /\ Len(stamps) = n /\ n \in Nat /\ \A i \in 1 .. n : stamps[i] = StampOf(es[i])
    BY <1>2, StampsIs, RecordsIs
  <2> QED
    BY <1>2, <2>1, RecordsIs
<1>4. /\ off \in [0 .. n -> Int] /\ off[0] = 0 /\ off[n] = ring.buffer_used
      /\ \A i \in 1 .. n : off[i] = off[i - 1] + SizeOf(es[i])
  BY <1>1, <1>2, RingSize DEF Laid
<1> DEFINE load == CHOOSE f : f = [i \in 0 .. n |-> IF i = 0 THEN 0
                                                   ELSE f[i - 1] + stamps[i].size]
<1>5. off = [i \in 0 .. n |-> IF i = 0 THEN 0 ELSE off[i - 1] + stamps[i].size]
  <2>1. \A i \in 0 .. n : i # 0 => i \in 1 .. n
    BY <1>3
  <2> QED
    BY <1>3, <1>4, <2>1
<1>6. load = [i \in 0 .. n |-> IF i = 0 THEN 0 ELSE load[i - 1] + stamps[i].size]
  BY <1>5
<1>7. Monitor!Load(stamps) = load[n]
  BY <1>3, Zenon DEF Monitor!Load
<1> HIDE DEF load
<1> DEFINE T == {i \in 0 .. n : load[i] = off[i]}
<1>8. 0 \in T
  BY <1>3, <1>4, <1>6
<1>9. \A i \in 0 .. n - 1 : i \in T => i + 1 \in T
  <2>1. \A i \in 0 .. n - 1 : i + 1 \in 0 .. n /\ i + 1 # 0 /\ (i + 1) - 1 = i
    BY <1>3
  <2> QED
    BY <1>5, <1>6, <2>1
<1> HIDE DEF T
<1>10. \A i \in 0 .. n : i \in T
  BY <1>3, <1>8, <1>9, UpTo
<1> QED
  BY <1>2, <1>3, <1>4, <1>7, <1>10 DEF T

LEMMA EmptyLog ==
    ASSUME NEW ring \in Ring, NEW es, Records(es), Holds(ring, es)
    PROVE  ring.buffer_used = 0 <=> Len(es) = 0
<1>1. PICK off : Laid(ring, es, off)
  BY DEF Holds
<1>2. off[0] = 0 /\ off[Len(es)] = ring.buffer_used /\ Len(es) \in Nat
  BY <1>1, RecordsIs DEF Laid
<1>3. \A i \in 0 .. Len(es) : 6 * i <= off[i] /\ off[i] \in 0 .. ring.buffer_used
  BY <1>1, Bounds
<1>4. Len(es) \in 0 .. Len(es) /\ ring.buffer_used \in 0 .. BufferSize
  BY <1>2, RingShape
<1>5. 6 * Len(es) <= ring.buffer_used
  BY <1>2, <1>3, <1>4
<1> QED
  BY <1>2, <1>4, <1>5, RingSize

(* The oldest entry is the one that is read.                               *)
LEMMA OldestRead ==
    ASSUME NEW ring \in Ring, NEW es, Records(es), Holds(ring, es), Len(es) > 0,
           NEW ptr, ptr = ring.buffer_start_ptr
    PROVE  /\ IdsAt(ring, ptr) = es[1].data[2]
           /\ SizeAt(ring, ptr) = Len(es[1].data)
           /\ PoppedRing(ring, es, 1, PopEntry(ring))
<1>1. PICK off : Laid(ring, es, off)
  BY DEF Holds
<1>2. PICK e : e = es[1]
  OBVIOUS
<1>3. 1 \in 1 .. Len(es)
  BY RecordsIs
<1>4. e \in Fit /\ Len(e.data) >= 2
  BY <1>2, <1>3, RecordsIs
<1>5. Lies(ring, 0, e) /\ Means(ring, ptr, 0)
  <2>1. off[0] = 0 /\ 1 - 1 = 0
    BY <1>1 DEF Laid
  <2>2. Lies(ring, off[1 - 1], es[1])
    BY <1>1, <1>3 DEF Laid
  <2> QED
    BY <1>2, <2>1, <2>2, StartMeans
<1>6. IdsAt(ring, ptr) = e.data[2] /\ SizeAt(ring, ptr) = Len(e.data)
  BY <1>4, <1>5, StampRead
<1>7. /\ PopEntry(ring) \in Ring /\ PopEntry(ring).seq_counter = ring.seq_counter
      /\ Laid(PopEntry(ring), Rest(es, 1), Ends(off, Len(es), 1))
  BY <1>1, PopOne
<1>8. PoppedRing(ring, es, 1, PopEntry(ring))
  BY <1>7 DEF PoppedRing, Holds, Laid
<1> QED
  BY <1>2, <1>6, <1>8

(* Session_Api_MonitorGet2: the entries copied in k rounds are the oldest  *)
(* ones, in order, and they are dropped.                                   *)
CopiedTo(ring, es, k, now) ==
    /\ now \in Copying /\ PoppedRing(ring, es, k, now.log)
    /\ now.left \in 0 .. Limit - 1 /\ now.used \in Nat
    /\ Len(now.ids) = k /\ \A i \in 1 .. k : now.ids[i] = es[i].data[2]

CopiedSome(ring, es, now) == \E k \in 0 .. Len(es) : CopiedTo(ring, es, k, now)

LEMMA LimitNat == Limit \in Nat /\ Limit > 0
<1>1. Base * Base \in Nat /\ Base * Base > 0
  BY RingSize
<1> QED
  BY <1>1 DEF Limit

LEMMA CopyAny ==
    ASSUME NEW now \in Copying
    PROVE  CopyOne(now) \in Copying
<1>1. /\ now.log \in AnyRing /\ now.left \in Int /\ now.ids \in Seq(Int)
      /\ now.used \in Int /\ now.log.buffer_start_ptr \in Int
  BY DEF Copying, AnyRing
<1>2. PICK ptr, size : ptr = now.log.buffer_start_ptr /\ size = SizeAt(now.log, ptr)
  OBVIOUS
<1>3. size \in Int /\ IdsAt(now.log, ptr) \in Int
  BY <1>1, <1>2, StampAny
<1>4. PopEntry(now.log) \in AnyRing
  BY <1>1, PopAny
<1>5. PICK left, ids, used : /\ left = (now.left - Ulong - size) % Limit
                             /\ ids = Append(now.ids, IdsAt(now.log, ptr))
                             /\ used = now.used + Ulong + size
  OBVIOUS
<1>6. left \in Int /\ ids \in Seq(Int) /\ used \in Int
  <2>1. now.left - Ulong - size \in Int
    BY <1>1, <1>3 DEF Ulong
  <2>2. left \in Int
    BY <1>5, <2>1, LimitNat
  <2> QED
    BY <1>1, <1>3, <1>5, <2>2 DEF Ulong
<1>7. CopyOne(now) = IF now.log.buffer_used > 0 /\ CopyFits(now.log, now.left)
                     THEN [log |-> PopEntry(now.log), left |-> left,
                           ids |-> ids, used |-> used]
                     ELSE now
  BY <1>2, <1>5, Zenon DEF CopyOne
<1> QED
  BY <1>4, <1>6, <1>7 DEF Copying

LEMMA CopyStep ==
    ASSUME NEW ring \in Ring, NEW es, Records(es), NEW now, CopiedSome(ring, es, now)
    PROVE  CopiedSome(ring, es, CopyOne(now))
<1>1. PICK k \in 0 .. Len(es) : CopiedTo(ring, es, k, now)
  BY DEF CopiedSome
<1>2. /\ now \in Copying /\ now.ids \in Seq(Int) /\ PoppedRing(ring, es, k, now.log)
      /\ now.left \in 0 .. Limit - 1 /\ now.used \in Nat
      /\ Len(now.ids) = k /\ \A i \in 1 .. k : now.ids[i] = es[i].data[2]
  BY <1>1 DEF CopiedTo, Copying
<1>3. PICK ring1, ptr, size, rest : /\ ring1 = now.log /\ ptr = ring1.buffer_start_ptr
                                  /\ size = SizeAt(ring1, ptr) /\ rest = Rest(es, k)
  OBVIOUS
<1>4. PICK left, ids, used : /\ left = (now.left - Ulong - size) % Limit
                             /\ ids = Append(now.ids, IdsAt(ring1, ptr))
                             /\ used = now.used + Ulong + size
  OBVIOUS
<1>5. PICK next : next = CopyOne(now)
  OBVIOUS
<1>6. next = IF ring1.buffer_used > 0 /\ CopyFits(ring1, now.left)
             THEN [log |-> PopEntry(ring1), left |-> left, ids |-> ids, used |-> used]
             ELSE now
  BY <1>3, <1>4, <1>5, Zenon DEF CopyOne
<1>7. CASE ~ (ring1.buffer_used > 0 /\ CopyFits(ring1, now.left))
  BY <1>5, <1>6, <1>7
<1>8. CASE ring1.buffer_used > 0 /\ CopyFits(ring1, now.left)
  <2>1. next = [log |-> PopEntry(ring1), left |-> left, ids |-> ids, used |-> used]
    BY <1>6, <1>8
  <2>2. ring1 \in Ring /\ Holds(ring1, rest) /\ ring1.seq_counter = ring.seq_counter
    BY <1>2, <1>3 DEF PoppedRing
  <2>3. Records(rest) /\ Len(rest) = Len(es) - k /\ Len(es) \in Nat /\ es \in Seq(Fit)
    BY <1>3, RecordsRest, RecordsIs
  <2>4. Len(rest) > 0 /\ k + 1 \in 0 .. Len(es) /\ k \in 0 .. Len(es) - 1
        /\ k + 1 \in 1 .. Len(es)
    BY <1>8, <2>2, <2>3, EmptyLog
  <2>5. rest[1] = es[k + 1]
    <3>1. \A i \in 1 .. Len(es) - k : rest[i] = es[i + k]
      BY <1>3, <2>3, RestIs
    <3>2. 1 \in 1 .. Len(es) - k /\ 1 + k = k + 1
      BY <2>4
    <3> QED
      BY <3>1, <3>2
  <2>6. /\ IdsAt(ring1, ptr) = es[k + 1].data[2]
        /\ SizeAt(ring1, ptr) = Len(es[k + 1].data)
        /\ PoppedRing(ring1, rest, 1, PopEntry(ring1))
    BY <1>3, <2>2, <2>3, <2>4, <2>5, OldestRead
  <2>7. PoppedRing(ring, es, k + 1, PopEntry(ring1))
    <3>1. Rest(rest, 1) = Rest(es, k + 1)
      BY <1>3, <2>3, <2>4, RestOfRest
    <3> QED
      BY <2>2, <2>6, <3>1 DEF PoppedRing
  <2>8. size \in Nat /\ es[k + 1].data[2] \in Int
    <3>1. es[k + 1] \in Fit /\ es[k + 1].data[2] \in Cell
      BY <2>4, RecordsIs
    <3> QED
      BY <1>3, <2>6, <3>1, FitEntry, RingSize DEF Cell
  <2>9. left \in 0 .. Limit - 1 /\ used \in Nat
    <3>1. now.left - Ulong - size \in Int
      BY <1>2, <2>8, LimitNat DEF Ulong
    <3>2. left \in 0 .. Limit - 1
      BY <1>4, <3>1, LimitNat, ModMod
    <3> QED
      BY <1>2, <1>4, <2>8, <3>2 DEF Ulong
  <2>10. Len(ids) = k + 1 /\ \A i \in 1 .. k + 1 : ids[i] = es[i].data[2]
    <3>1. /\ Len(ids) = k + 1 /\ ids[k + 1] = es[k + 1].data[2]
          /\ \A i \in 1 .. k : ids[i] = now.ids[i]
      BY <1>2, <1>4, <2>6, <2>8
    <3>2. \A i \in 1 .. k + 1 : i \in 1 .. k \/ i = k + 1
      BY <2>4
    <3> QED
      BY <1>2, <3>1, <3>2
  <2>11. next \in Copying
    BY <1>2, <1>5, CopyAny
  <2>12. CopiedTo(ring, es, k + 1, next)
    BY <2>1, <2>7, <2>9, <2>10, <2>11 DEF CopiedTo
  <2> QED
    BY <1>5, <2>4, <2>12 DEF CopiedSome
<1> QED
  BY <1>7, <1>8

LEMMA CopiedRounds ==
    ASSUME NEW ring \in Ring, NEW es, Records(es), Holds(ring, es),
           NEW given \in 0 .. Limit - 1
    PROVE  \A k \in 0 .. MostEntries : CopiedSome(ring, es, Copies(ring, given)[k])
<1>1. PICK start, step : /\ start = [log |-> ring, left |-> given, ids |-> << >>, used |-> 0]
                         /\ step = [now \in Copying |-> CopyOne(now)]
  OBVIOUS
<1>2. start \in Copying /\ step \in [Copying -> Copying]
  <2>1. ring \in AnyRing /\ given \in Int /\ << >> \in Seq(Int)
    BY RingShape, LimitNat
  <2>2. start \in Copying
    BY <1>1, <2>1 DEF Copying
  <2> QED
    BY <1>1, <2>2, CopyAny
<1>3. PICK rounds : rounds = Iterate(step, start, MostEntries)
  OBVIOUS
<1>4. /\ MostEntries \in Nat /\ rounds \in [0 .. MostEntries -> Copying]
      /\ rounds[0] = start
      /\ \A k \in 0 .. MostEntries - 1 : rounds[k + 1] = step[rounds[k]]
  <2>1. /\ rounds \in [0 .. MostEntries -> Copying] /\ Steps(step, start, MostEntries, rounds)
    BY <1>2, <1>3, EntriesFit, IterateRounds
  <2> QED
    BY <2>1, EntriesFit DEF Steps
<1> DEFINE T == {k \in 0 .. MostEntries : CopiedSome(ring, es, rounds[k])}
<1>5. 0 \in T
  <2>1. es \in Seq(Fit) /\ Rest(es, 0) = es /\ 0 \in 0 .. Len(es)
    BY RecordsIs, RestOfAll
  <2>2. PoppedRing(ring, es, 0, ring)
    BY <2>1 DEF PoppedRing
  <2>3. Len(<< >>) = 0 /\ \A i \in 1 .. 0 : FALSE
    OBVIOUS
  <2>4. CopiedTo(ring, es, 0, start)
    BY <1>1, <1>2, <2>2, <2>3 DEF CopiedTo
  <2>5. CopiedSome(ring, es, rounds[0])
    BY <1>4, <2>1, <2>4 DEF CopiedSome
  <2> QED
    BY <1>4, <2>5
<1>6. ASSUME NEW k \in 0 .. MostEntries - 1, k \in T PROVE k + 1 \in T
  <2>1. k \in 0 .. MostEntries /\ k + 1 \in 0 .. MostEntries /\ rounds[k] \in Copying
    BY <1>4
  <2>2. rounds[k + 1] = CopyOne(rounds[k])
    BY <1>1, <1>4, <2>1
  <2>3. CopiedSome(ring, es, rounds[k + 1])
    BY <1>6, <2>2, CopyStep
  <2> QED
    BY <2>1, <2>3
<1> HIDE DEF T
<1>7. \A k \in 0 .. MostEntries : k \in T
  BY <1>4, <1>5, <1>6, UpTo
<1>8. \A k \in 0 .. MostEntries : CopiedSome(ring, es, rounds[k])
  BY <1>7 DEF T
<1>9. Copies(ring, given) = rounds
  BY <1>1, <1>3, Zenon DEF Copies
<1> QED
  BY <1>8, <1>9

-----------------------------------------------------------------------------
(* What a call does to a session                                           *)

On(block)     == block # Null /\ block.log # Null
HeldBy(block) == IF On(block) THEN Held(block.log) ELSE Null
Noted(block)  == block # Null /\ block.overflow

Fine(block) ==
    block \in SessionBlock \cup {Null} /\ (On(block) => Kind(block.log))

Replies == [ids : Seq(Cell), used : Nat, given : Nat, failed : BOOLEAN]
Sizes   == {TotalSize(TimeCell + IdsCell + len) : len \in DataLength}

(* The four things MonitorQueue allows, for one session.                   *)
Switches(old, new, out) ==
    /\ HeldBy(new) \in {Null, << >>} /\ (HeldBy(old) = Null \/ HeldBy(new) = Null)
    /\ (Noted(new) => Noted(old))
    /\ out = << >>

Puts(old, new, out) ==
    /\ HeldBy(old) # Null
    /\ \E stamp \in Cell, size \in Sizes :
          \/ /\ Monitor!Load(HeldBy(old)) + size <= BufferSize
             /\ HeldBy(new) = Append(HeldBy(old), [stamp |-> stamp, size |-> size])
             /\ (Noted(new) <=> Noted(old))
          \/ /\ ~ (Monitor!Load(HeldBy(old)) + size <= BufferSize)
             /\ HeldBy(new) = HeldBy(old) /\ Noted(new)
    /\ out = << >>

Gets(old, new, out) ==
    /\ HeldBy(old) # Null
    /\ \E k \in 0 .. Len(HeldBy(old)) :
          /\ HeldBy(new) = SubSeq(HeldBy(old), k + 1, Len(HeldBy(old)))
          /\ out = [i \in 1 .. k |-> HeldBy(old)[i].stamp]
    /\ IF HeldBy(old) = << >> THEN ~ Noted(new) ELSE (Noted(new) <=> Noted(old))

Loses(old, new, out) ==
    /\ HeldBy(old) # Null
    /\ \E k \in 0 .. Len(HeldBy(old)) : HeldBy(new) = SubSeq(HeldBy(old), k + 1, Len(HeldBy(old)))
    /\ out = << >>
    /\ Noted(new) <=> Noted(old)

Answers(old, new, reply) ==
    IF reply.failed
    THEN Loses(old, new, reply.ids)
    ELSE Switches(old, new, reply.ids) \/ Puts(old, new, reply.ids) \/ Gets(old, new, reply.ids)

One(b) == IF b THEN 1 ELSE 0

Changes(s, block) ==
    /\ Fine(block)
    /\ session' = [session EXCEPT ![s] = block]
    /\ monitorCount' = (monitorCount - One(On(session[s]))) + One(On(block))
    /\ returned' \in Replies
    /\ Answers(session[s], block, returned')

LEMMA MonitoredOn == \A s : Monitored(s) <=> On(session[s])
BY DEF Monitored, On

(* A call changes one session, and counts it.                              *)
LEMMA ChangeKeeps ==
    ASSUME SessionInv, NEW s \in SessionId, NEW block, Changes(s, block)
    PROVE  SessionInv'
<1>1. /\ session \in [SessionId -> SessionBlock \cup {Null}] /\ monitorCount \in Int
      /\ IsFiniteSet({t \in SessionId : Monitored(t)})
      /\ monitorCount = Cardinality({t \in SessionId : Monitored(t)})
      /\ \A t \in SessionId : Monitored(t) => Kind(session[t].log)
  BY DEF SessionInv, SessionTypeOK
<1>2. /\ block \in SessionBlock \cup {Null} /\ (On(block) => Kind(block.log))
      /\ session' = [session EXCEPT ![s] = block]
      /\ monitorCount' = (monitorCount - One(On(session[s]))) + One(On(block))
      /\ returned' \in Replies
  BY DEF Changes, Fine
<1>3. PICK M, N, R : /\ M = {t \in SessionId : On(session[t])}
                     /\ N = {t \in SessionId : On(session'[t])}
                     /\ R = M \ {s}
  OBVIOUS
<1>4. /\ {t \in SessionId : Monitored(t)} = M
      /\ {t \in SessionId : Monitored(t)'} = N
  BY <1>3, Zenon DEF Monitored, On
<1>5. N = IF On(block) THEN R \cup {s} ELSE R
  <2>1. \A t \in SessionId : session'[t] = IF t = s THEN block ELSE session[t]
    BY <1>1, <1>2
  <2> QED
    BY <1>3, <2>1
<1>6. IsFiniteSet(M) /\ monitorCount = Cardinality(M) /\ Cardinality(M) \in Nat
  BY <1>1, <1>4, FS_CardinalityType
<1>7. /\ IsFiniteSet(R) /\ s \notin R
      /\ Cardinality(R) = IF s \in M THEN Cardinality(M) - 1 ELSE Cardinality(M)
  BY <1>3, <1>6, FS_RemoveElement
<1>8. Cardinality(R) = monitorCount - One(On(session[s]))
  <2>1. s \in M <=> On(session[s])
    BY <1>3
  <2> QED
    BY <1>6, <1>7, <2>1 DEF One
<1>9. IsFiniteSet(N) /\ monitorCount' = Cardinality(N)
  <2>1. CASE On(block)
    <3>1. N = R \cup {s} /\ One(On(block)) = 1
      BY <1>5, <2>1 DEF One
    <3>2. IsFiniteSet(N) /\ Cardinality(N) = Cardinality(R) + 1
      BY <1>7, <3>1, FS_AddElement
    <3> QED
      BY <1>2, <1>8, <3>1, <3>2
  <2>2. CASE ~ On(block)
    <3>1. N = R /\ One(On(block)) = 0
      BY <1>5, <2>2 DEF One
    <3>2. monitorCount - One(On(session[s])) \in Int
      BY <1>6 DEF One
    <3> QED
      BY <1>2, <1>7, <1>8, <3>1, <3>2
  <2> QED
    BY <2>1, <2>2
<1>10. SessionTypeOK'
  <2>1. session' \in [SessionId -> SessionBlock \cup {Null}]
    BY <1>1, <1>2
  <2>2. monitorCount' \in Int
    BY <1>6, <1>2 DEF One
  <2> QED
    BY <1>2, <2>1, <2>2 DEF SessionTypeOK, Replies
<1>11. (\A t \in SessionId : Monitored(t) => Kind(session[t].log))'
  <2> SUFFICES ASSUME NEW t \in SessionId, Monitored(t)' PROVE Kind(session'[t].log)
    BY DEF Kind
  <2>1. On(session'[t])
    BY Zenon DEF Monitored, On
  <2>2. session'[t] = IF t = s THEN block ELSE session[t]
    BY <1>1, <1>2
  <2>3. CASE t = s
    BY <1>2, <2>1, <2>2, <2>3
  <2>4. CASE t # s
    <3>1. Monitored(t)
      BY <2>1, <2>2, <2>4, MonitoredOn
    <3> QED
      BY <1>1, <2>2, <2>4, <3>1
  <2> QED
    BY <2>3, <2>4
<1>12. IsFiniteSet({t \in SessionId : Monitored(t)})'
  BY <1>4, <1>9
<1>13. (monitorCount = Cardinality({t \in SessionId : Monitored(t)}))'
  BY <1>4, <1>9
<1> QED
  BY <1>10, <1>11, <1>12, <1>13 DEF SessionInv

(* The monitors, all together, as MonitorQueue has them.                   *)
HeldAll  == [s \in SessionId |-> IF Monitored(s) THEN Held(session[s].log) ELSE Null]
NotedAll == {s \in SessionId : session[s] # Null /\ session[s].overflow}

LEMMA AllIs ==
    ASSUME SessionInv, NEW s \in SessionId, NEW block,
           session' = [session EXCEPT ![s] = block]
    PROVE  /\ HeldAll[s] = HeldBy(session[s])
           /\ DOMAIN HeldAll = SessionId
           /\ HeldAll' = [HeldAll EXCEPT ![s] = HeldBy(block)]
           /\ (s \in NotedAll <=> Noted(session[s]))
           /\ NotedAll' = IF Noted(block) THEN NotedAll \cup {s} ELSE NotedAll \ {s}
<1>1. session \in [SessionId -> SessionBlock \cup {Null}]
  BY DEF SessionInv, SessionTypeOK
<1>2. \A t \in SessionId : session'[t] = IF t = s THEN block ELSE session[t]
  BY <1>1
<1>3. /\ HeldAll = [t \in SessionId |-> HeldBy(session[t])]
      /\ HeldAll' = [t \in SessionId |-> HeldBy(session'[t])]
  BY Zenon DEF HeldAll, HeldBy, Monitored, On
<1>4. /\ NotedAll = {t \in SessionId : Noted(session[t])}
      /\ NotedAll' = {t \in SessionId : Noted(session'[t])}
  BY Zenon DEF NotedAll, Noted
<1>5. PICK held, held1 : held = HeldAll /\ held1 = HeldAll'
  OBVIOUS
<1>6. held1 = [held EXCEPT ![s] = HeldBy(block)]
  <2>1. \A t \in SessionId : held1[t] = IF t = s THEN HeldBy(block) ELSE held[t]
    BY <1>2, <1>3, <1>5
  <2>2. /\ held = [t \in SessionId |-> held[t]] /\ held1 = [t \in SessionId |-> held1[t]]
    BY <1>3, <1>5
  <2> QED
    BY <2>1, <2>2
<1>7. NotedAll' = IF Noted(block) THEN NotedAll \cup {s} ELSE NotedAll \ {s}
  BY <1>2, <1>4
<1> QED
  BY <1>3, <1>4, <1>5, <1>6, <1>7

LEMMA SwitchNext ==
    ASSUME SessionInv, NEW s \in SessionId, NEW block,
           session' = [session EXCEPT ![s] = block],
           Switches(session[s], block, returned'.ids), ~ returned'.failed, returned' \in Replies
    PROVE  Monitor!Switch(s)
<1>1. PICK held, noted, held1, noted1 : /\ held = HeldAll /\ noted = NotedAll
                                        /\ held1 = HeldAll' /\ noted1 = NotedAll'
  OBVIOUS
<1>2. /\ held[s] = HeldBy(session[s]) /\ DOMAIN held = SessionId
      /\ held1 = [held EXCEPT ![s] = HeldBy(block)]
      /\ (s \in noted <=> Noted(session[s]))
      /\ noted1 = IF Noted(block) THEN noted \cup {s} ELSE noted \ {s}
  BY <1>1, AllIs
<1>3. held \in [SessionId -> {held[t] : t \in SessionId}]
  BY <1>1 DEF HeldAll
<1>4. /\ HeldBy(block) \in {Null, << >>} /\ (HeldBy(session[s]) = Null \/ HeldBy(block) = Null)
      /\ (Noted(block) => Noted(session[s])) /\ returned'.ids = << >>
  BY Zenon DEF Switches
<1>5. held1[s] = HeldBy(block)
  BY <1>2, <1>3
<1>6. /\ held1 \in {[held EXCEPT ![s] = Null], [held EXCEPT ![s] = << >>]}
      /\ held[s] = Null \/ held1[s] = Null
      /\ noted1 \in {noted, noted \ {s}}
  BY <1>2, <1>4, <1>5
<1>7. returned'.failed = FALSE
  BY DEF Replies
<1> QED
  BY <1>1, <1>4, <1>6, <1>7, Zenon DEF Monitor!Switch, HeldAll, NotedAll

LEMMA PutNext ==
    ASSUME SessionInv, NEW s \in SessionId, NEW block,
           session' = [session EXCEPT ![s] = block],
           Puts(session[s], block, returned'.ids), ~ returned'.failed, returned' \in Replies
    PROVE  \E stamp \in Cell, size \in Sizes : Monitor!Put(s, stamp, size)
<1>1. PICK held, noted, held1, noted1 : /\ held = HeldAll /\ noted = NotedAll
                                        /\ held1 = HeldAll' /\ noted1 = NotedAll'
  OBVIOUS
<1>2. /\ held[s] = HeldBy(session[s]) /\ DOMAIN held = SessionId
      /\ held1 = [held EXCEPT ![s] = HeldBy(block)]
      /\ (s \in noted <=> Noted(session[s]))
      /\ noted1 = IF Noted(block) THEN noted \cup {s} ELSE noted \ {s}
  BY <1>1, AllIs
<1>3. held = [t \in SessionId |-> held[t]]
  BY <1>1 DEF HeldAll
<1>4. PICK stamp \in Cell, size \in Sizes :
          \/ /\ Monitor!Load(HeldBy(session[s])) + size <= BufferSize
             /\ HeldBy(block) = Append(HeldBy(session[s]), [stamp |-> stamp, size |-> size])
             /\ (Noted(block) <=> Noted(session[s]))
          \/ /\ ~ (Monitor!Load(HeldBy(session[s])) + size <= BufferSize)
             /\ HeldBy(block) = HeldBy(session[s]) /\ Noted(block)
  BY Zenon DEF Puts
<1>5. held[s] # Null /\ returned'.ids = << >>
  BY <1>2, Zenon DEF Puts
<1>6. PICK fits \in BOOLEAN : fits <=> Monitor!Load(held[s]) + size <= BufferSize
  OBVIOUS
<1>7. fits <=> Monitor!Load(HeldBy(session[s])) + size <= BufferSize
  BY <1>2, <1>6
<1>8. IF fits
      THEN /\ held1 = [held EXCEPT ![s] = Append(held[s], [stamp |-> stamp, size |-> size])]
           /\ noted1 = noted
      ELSE noted1 = noted \cup {s} /\ held1 = held
  BY <1>2, <1>3, <1>4, <1>7
<1>9. IF Monitor!Load(held[s]) + size <= BufferSize
      THEN /\ held1 = [held EXCEPT ![s] = Append(held[s], [stamp |-> stamp, size |-> size])]
           /\ noted1 = noted
      ELSE noted1 = noted \cup {s} /\ held1 = held
  BY <1>6, <1>8, Zenon
<1>0. returned'.failed = FALSE
  BY DEF Replies
<1>10. Monitor!Put(s, stamp, size)
  BY <1>0, <1>1, <1>5, <1>9, Zenon DEF Monitor!Put, HeldAll, NotedAll
<1> QED
  BY <1>4, <1>10

LEMMA TakeNext ==
    ASSUME SessionInv, NEW s \in SessionId, NEW block,
           session' = [session EXCEPT ![s] = block],
           Gets(session[s], block, returned'.ids), ~ returned'.failed, returned' \in Replies
    PROVE  Monitor!Get(s)
<1>1. PICK held, noted, held1, noted1 : /\ held = HeldAll /\ noted = NotedAll
                                        /\ held1 = HeldAll' /\ noted1 = NotedAll'
  OBVIOUS
<1>2. /\ held[s] = HeldBy(session[s]) /\ DOMAIN held = SessionId
      /\ held1 = [held EXCEPT ![s] = HeldBy(block)]
      /\ (s \in noted <=> Noted(session[s]))
      /\ noted1 = IF Noted(block) THEN noted \cup {s} ELSE noted \ {s}
  BY <1>1, AllIs
<1>3. /\ HeldBy(session[s]) # Null
      /\ \E k \in 0 .. Len(HeldBy(session[s])) :
          /\ HeldBy(block) = SubSeq(HeldBy(session[s]), k + 1, Len(HeldBy(session[s])))
          /\ returned'.ids = [i \in 1 .. k |-> HeldBy(session[s])[i].stamp]
      /\ IF HeldBy(session[s]) = << >> THEN ~ Noted(block)
         ELSE (Noted(block) <=> Noted(session[s]))
  BY Zenon DEF Gets
<1>4. PICK k \in 0 .. Len(held[s]) :
          /\ HeldBy(block) = SubSeq(held[s], k + 1, Len(held[s]))
          /\ returned'.ids = [i \in 1 .. k |-> held[s][i].stamp]
  BY <1>2, <1>3, Zenon
<1>5. held1 = [held EXCEPT ![s] = SubSeq(held[s], k + 1, Len(held[s]))]
  BY <1>2, <1>4, Zenon
<1>6. noted1 = IF held[s] = << >> THEN noted \ {s} ELSE noted
  BY <1>2, <1>3
<1>7. held[s] # Null
  BY <1>2, <1>3
<1>8. /\ HeldAll[s] # Null /\ k \in 0 .. Len(HeldAll[s])
      /\ HeldAll' = [HeldAll EXCEPT ![s] = SubSeq(HeldAll[s], k + 1, Len(HeldAll[s]))]
      /\ returned'.ids = [i \in 1 .. k |-> HeldAll[s][i].stamp]
      /\ NotedAll' = IF HeldAll[s] = << >> THEN NotedAll \ {s} ELSE NotedAll
  BY <1>1, <1>4, <1>5, <1>6, <1>7
<1>9. /\ HeldAll[s] # Null
       /\ \E j \in 0 .. Len(HeldAll[s]) :
          /\ HeldAll' = [HeldAll EXCEPT ![s] = SubSeq(HeldAll[s], j + 1, Len(HeldAll[s]))]
          /\ returned'.ids = [i \in 1 .. j |-> HeldAll[s][i].stamp]
      /\ NotedAll' = IF HeldAll[s] = << >> THEN NotedAll \ {s} ELSE NotedAll
  BY <1>8, Zenon
<1>10. returned'.failed = FALSE
  BY DEF Replies
<1> QED
  BY <1>9, <1>10, Zenon DEF Monitor!Get, HeldAll, NotedAll

LEMMA LoseNext ==
    ASSUME SessionInv, NEW s \in SessionId, NEW block,
           session' = [session EXCEPT ![s] = block],
           Loses(session[s], block, returned'.ids), returned'.failed, returned' \in Replies
    PROVE  Monitor!Lose(s)
<1>1. PICK held, noted, held1, noted1 : /\ held = HeldAll /\ noted = NotedAll
                                        /\ held1 = HeldAll' /\ noted1 = NotedAll'
  OBVIOUS
<1>2. /\ held[s] = HeldBy(session[s]) /\ DOMAIN held = SessionId
      /\ held1 = [held EXCEPT ![s] = HeldBy(block)]
      /\ (s \in noted <=> Noted(session[s]))
      /\ noted1 = IF Noted(block) THEN noted \cup {s} ELSE noted \ {s}
  BY <1>1, AllIs
<1>3. /\ HeldBy(session[s]) # Null /\ returned'.ids = << >>
      /\ Noted(block) <=> Noted(session[s])
      /\ \E k \in 0 .. Len(HeldBy(session[s])) :
            HeldBy(block) = SubSeq(HeldBy(session[s]), k + 1, Len(HeldBy(session[s])))
  BY Zenon DEF Loses
<1>4. PICK k \in 0 .. Len(held[s]) : HeldBy(block) = SubSeq(held[s], k + 1, Len(held[s]))
  BY <1>2, <1>3, Zenon
<1>5. held1 = [held EXCEPT ![s] = SubSeq(held[s], k + 1, Len(held[s]))] /\ held[s] # Null
  BY <1>2, <1>3, <1>4, Zenon
<1>6. noted1 = noted
  BY <1>2, <1>3
<1>7. returned'.failed = TRUE
  BY DEF Replies
<1> QED
  BY <1>1, <1>3, <1>4, <1>5, <1>6, <1>7, Zenon DEF Monitor!Lose, HeldAll, NotedAll

LEMMA ChangeNext ==
    ASSUME SessionInv, NEW s \in SessionId, NEW block, Changes(s, block)
    PROVE  Monitor!Next
<1>1. session' = [session EXCEPT ![s] = block] /\ returned' \in Replies
  BY DEF Changes
<1>2. CASE ~ returned'.failed /\ Switches(session[s], block, returned'.ids)
  BY <1>1, <1>2, SwitchNext, Zenon DEF Monitor!Next
<1>3. CASE ~ returned'.failed /\ Puts(session[s], block, returned'.ids)
  BY <1>1, <1>3, PutNext, Zenon DEF Monitor!Next, Sizes
<1>4. CASE ~ returned'.failed /\ Gets(session[s], block, returned'.ids)
  BY <1>1, <1>4, TakeNext, Zenon DEF Monitor!Next
<1>5. CASE returned'.failed /\ Loses(session[s], block, returned'.ids)
  BY <1>1, <1>5, LoseNext, Zenon DEF Monitor!Next
<1> QED
  BY <1>2, <1>3, <1>4, <1>5, Zenon DEF Changes, Answers

-----------------------------------------------------------------------------
(* What each call does                                                     *)

(* A monitor, and the entries in it.                                       *)
OnAs(block, es) ==
    /\ block \in SessionBlock /\ On(block) /\ block.log \in Ring
    /\ Records(es) /\ Holds(block.log, es)
    /\ HeldBy(block) = StampsOf(es) /\ HeldBy(block) # Null

LEMMA OnWith ==
    ASSUME NEW block \in SessionBlock, block.log \in Ring,
           NEW es, Records(es), Holds(block.log, es)
    PROVE  OnAs(block, es) /\ Fine(block)
<1>1. On(block)
  BY NullAssumption DEF On
<1>2. HeldBy(block) = StampsOf(es)
  BY <1>1, HeldStamps DEF HeldBy
<1>3. StampsOf(es) \in Seq(Stamped)
  BY StampsIs
<1>4. HeldBy(block) # Null
  BY <1>2, <1>3, NullAssumption
<1> QED
  BY <1>1, <1>2, <1>4 DEF OnAs, Fine, Kind

LEMMA BlockAt ==
    ASSUME SessionInv, NEW s \in SessionId
    PROVE  /\ session[s] # Null => session[s] \in SessionBlock
           /\ Monitored(s) <=> On(session[s])
           /\ Monitored(s) => \E es : OnAs(session[s], es)
           /\ monitorCount \in Int
<1>1. session[s] \in SessionBlock \cup {Null} /\ monitorCount \in Int
  BY DEF SessionInv, SessionTypeOK
<1>2. ASSUME Monitored(s) PROVE \E es : OnAs(session[s], es)
  <2>1. session[s] # Null /\ session[s].log # Null /\ Kind(session[s].log)
    BY <1>2 DEF Monitored, SessionInv
  <2>2. session[s] \in SessionBlock /\ session[s].log \in Ring
    BY <1>1, <2>1 DEF SessionBlock
  <2>3. PICK es : Records(es) /\ Holds(session[s].log, es)
    BY <2>1 DEF Kind
  <2> QED
    BY <2>2, <2>3, OnWith
<1> QED
  BY <1>1, <1>2, MonitoredOn

LEMMA NothingSaid == Nothing \in Replies /\ Nothing.ids = << >> /\ ~ Nothing.failed
BY DEF Nothing, Reply, Replies

LEMMA FaultSaid == Fault \in Replies /\ Fault.ids = << >> /\ Fault.failed
BY DEF Fault, Replies

(* A call that does not fail answers in one of three ways.                 *)
LEMMA AnswersWith ==
    ASSUME NEW old, NEW new, NEW reply, ~ reply.failed,
           \/ Switches(old, new, reply.ids)
           \/ Puts(old, new, reply.ids)
           \/ Gets(old, new, reply.ids)
    PROVE  Answers(old, new, reply)
BY Zenon DEF Answers

(* A block without a monitor.                                              *)
LEMMA OffIs ==
    ASSUME NEW block \in SessionBlock \cup {Null}, ~ On(block)
    PROVE  Fine(block) /\ HeldBy(block) = Null /\ One(On(block)) = 0
BY DEF Fine, HeldBy, One

Moves == \E s \in SessionId : \E block : Changes(s, block)

LEMMA LeaderMoves ==
    ASSUME SessionInv, NEW p \in Pid, Session_Api_Leader(p)
    PROVE  Moves
<1>1. PICK s, block : s = p[1] /\ block = [leader |-> p, log |-> Null, overflow |-> FALSE]
  OBVIOUS
<1>2. /\ s \in SessionId /\ session[s] = Null /\ monitorCount' = monitorCount
      /\ session' = [session EXCEPT ![s] = block] /\ returned' = Nothing
  BY <1>1 DEF Session_Api_Leader, Pid
<1>3. block \in SessionBlock /\ ~ On(block) /\ ~ Noted(block)
  BY <1>1 DEF SessionBlock, On, Noted
<1>4. /\ Fine(block) /\ HeldBy(block) = Null /\ One(On(block)) = 0
      /\ HeldBy(session[s]) = Null /\ One(On(session[s])) = 0
  <2>1. ~ On(session[s])
    BY <1>2 DEF On
  <2> QED
    BY <1>2, <1>3, <2>1, OffIs
<1>5. Answers(session[s], block, returned') /\ returned' \in Replies
  <2>1. Switches(session[s], block, returned'.ids)
    BY <1>2, <1>3, <1>4, NothingSaid DEF Switches
  <2> QED
    BY <1>2, <2>1, NothingSaid, AnswersWith
<1>6. monitorCount' = (monitorCount - One(On(session[s]))) + One(On(block))
  BY <1>2, <1>4, BlockAt
<1>7. Changes(s, block)
  BY <1>2, <1>4, <1>5, <1>6 DEF Changes
<1> QED
  BY <1>2, <1>7 DEF Moves

LEMMA CancelMoves ==
    ASSUME SessionInv, NEW p \in Pid, Session_Cancel(p)
    PROVE  Moves
<1>1. PICK s \in SessionId :
          /\ session[s] # Null /\ session[s].leader = p
          /\ session' = [session EXCEPT ![s] = Null]
          /\ monitorCount' = monitorCount - (IF Monitored(s) THEN 1 ELSE 0)
  BY DEF Session_Cancel
<1>2. returned' = Nothing
  BY DEF Session_Cancel
<1>3. Fine(Null) /\ HeldBy(Null) = Null /\ One(On(Null)) = 0 /\ ~ Noted(Null)
  <2>1. ~ On(Null) /\ ~ Noted(Null)
    BY DEF On, Noted
  <2> QED
    BY <2>1, OffIs
<1>4. Answers(session[s], Null, returned') /\ returned' \in Replies
  <2>1. Switches(session[s], Null, returned'.ids)
    BY <1>2, <1>3, NothingSaid DEF Switches
  <2> QED
    BY <1>2, <2>1, NothingSaid, AnswersWith
<1>5. monitorCount' = (monitorCount - One(On(session[s]))) + One(On(Null))
  <2>1. PICK one : one = One(On(session[s]))
    OBVIOUS
  <2>2. one \in Int /\ one = IF Monitored(s) THEN 1 ELSE 0
    BY <2>1, BlockAt DEF One
  <2> QED
    BY <1>1, <1>3, <2>1, <2>2, BlockAt
<1>6. Changes(s, Null)
  BY <1>1, <1>3, <1>4, <1>5 DEF Changes
<1> QED
  BY <1>6 DEF Moves

LEMMA DisableMoves ==
    ASSUME SessionInv, NEW s \in SessionId, Disable(s)
    PROVE  Moves
<1>1. PICK old, block : old = session[s] /\ block = [old EXCEPT !.log = Null]
  OBVIOUS
<1>2. /\ Monitored(s) /\ session' = [session EXCEPT ![s] = block]
      /\ monitorCount' = monitorCount - 1 /\ returned' = Nothing
  BY <1>1 DEF Disable
<1>3. old \in SessionBlock /\ On(old)
  BY <1>1, <1>2, BlockAt DEF Monitored
<1>4. block \in SessionBlock /\ ~ On(block) /\ (Noted(block) => Noted(old))
  BY <1>1, <1>3, NullAssumption DEF SessionBlock, On, Noted
<1>5. Fine(block) /\ HeldBy(block) = Null /\ One(On(block)) = 0
  BY <1>4, OffIs
<1>6. Answers(old, block, returned') /\ returned' \in Replies
  <2>1. Switches(old, block, returned'.ids)
    BY <1>2, <1>4, <1>5, NothingSaid DEF Switches
  <2> QED
    BY <1>2, <2>1, NothingSaid, AnswersWith
<1>7. monitorCount' = (monitorCount - One(On(old))) + One(On(block))
  <2>1. One(On(old)) = 1
    BY <1>3 DEF One
  <2> QED
    BY <1>2, <1>5, <2>1, BlockAt
<1>8. Changes(s, block)
  BY <1>1, <1>2, <1>5, <1>6, <1>7 DEF Changes
<1> QED
  BY <1>8 DEF Moves

LEMMA EnableMoves ==
    ASSUME SessionInv, NEW s \in SessionId, Enable(s)
    PROVE  Moves
<1>1. PICK old : old = session[s]
  OBVIOUS
<1>2. old \in SessionBlock /\ ~ On(old) /\ returned' = Nothing
  BY <1>1, BlockAt DEF Enable
<1>3. HeldBy(old) = Null /\ Fine(old) /\ One(On(old)) = 0
  BY <1>2, OffIs
<1>4. CASE session' = [session EXCEPT ![s].log = EmptyRing] /\ monitorCount' = monitorCount + 1
  <2>1. PICK block : block = [old EXCEPT !.log = EmptyRing]
    OBVIOUS
  <2>2. session' = [session EXCEPT ![s] = block]
    BY <1>1, <1>4, <2>1
  <2>3. block \in SessionBlock /\ block.log = EmptyRing /\ (Noted(block) => Noted(old))
    BY <1>2, <2>1, NothingLies, NullAssumption DEF SessionBlock, Noted
  <2>4. Records(<< >>)
    BY DEF Records
  <2>5. OnAs(block, << >>) /\ Fine(block)
    BY <2>3, <2>4, NothingLies, OnWith
  <2>6. HeldBy(block) = << >> /\ One(On(block)) = 1
    <3>1. StampsOf(<< >>) \in Seq(Stamped) /\ Len(StampsOf(<< >>)) = Len(<< >>)
      BY <2>4, StampsIs
    <3>2. StampsOf(<< >>) = << >>
      BY <3>1
    <3> QED
      BY <2>5, <3>2 DEF OnAs, One
  <2>7. Answers(old, block, returned') /\ returned' \in Replies
    <3>1. Switches(old, block, returned'.ids)
      BY <1>2, <1>3, <2>3, <2>6, NothingSaid DEF Switches
    <3> QED
      BY <1>2, <3>1, NothingSaid, AnswersWith
  <2>8. monitorCount' = (monitorCount - One(On(old))) + One(On(block))
    BY <1>3, <1>4, <2>6, BlockAt
  <2>9. Changes(s, block)
    BY <1>1, <2>2, <2>5, <2>7, <2>8 DEF Changes
  <2> QED
    BY <2>9 DEF Moves
<1>5. CASE UNCHANGED <<session, monitorCount>>
  <2>1. session' = [session EXCEPT ![s] = old]
    <3>1. session \in [SessionId -> SessionBlock \cup {Null}]
      BY DEF SessionInv, SessionTypeOK
    <3> QED
      BY <1>1, <1>5, <3>1
  <2>2. Answers(old, old, returned') /\ returned' \in Replies
    <3>1. Switches(old, old, returned'.ids)
      BY <1>2, <1>3, NothingSaid DEF Switches
    <3> QED
      BY <1>2, <3>1, NothingSaid, AnswersWith
  <2>3. monitorCount' = (monitorCount - One(On(old))) + One(On(old))
    BY <1>3, <1>5, BlockAt
  <2>4. Changes(s, old)
    BY <1>1, <1>3, <2>1, <2>2, <2>3 DEF Changes
  <2> QED
    BY <2>4 DEF Moves
<1> QED
  BY <1>4, <1>5 DEF Enable

LEMMA PutMoves ==
    ASSUME SessionInv, NEW s \in SessionId, NEW len \in DataLength,
           Session_MonitorPutEx(s, len)
    PROVE  Moves
<1>1. PICK old, ring, data, out : /\ old = session[s] /\ ring = old.log
                                  /\ data = EntryOf(ring.seq_counter, len)
                                  /\ out = PushEntry(ring, data, FALSE)
  OBVIOUS
<1>2. PICK lost : lost = (~ Pushed(ring, data, FALSE))
  OBVIOUS
<1>3. PICK block : block = [old EXCEPT !.log = out, !.overflow = old.overflow \/ lost]
  OBVIOUS
<1>4. /\ Monitored(s) /\ monitorCount' = monitorCount /\ returned' = Nothing
      /\ session' = [session EXCEPT ![s].log = out, ![s].overflow = @ \/ lost]
  BY <1>1, <1>2, Zenon DEF Session_MonitorPutEx
<1>5. session' = [session EXCEPT ![s] = block]
  <2>1. session \in [SessionId -> SessionBlock \cup {Null}] /\ old \in SessionBlock
    BY <1>1, <1>4, BlockAt DEF SessionInv, SessionTypeOK, Monitored
  <2>2. block = [leader |-> old.leader, log |-> out, overflow |-> old.overflow \/ lost]
    BY <1>3, <2>1 DEF SessionBlock
  <2>3. PICK noted : noted = (old.overflow \/ lost)
    OBVIOUS
  <2>4. session' = [session EXCEPT ![s].log = out, ![s].overflow = noted]
    BY <1>1, <1>4, <2>3, Zenon
  <2>5. block = [old EXCEPT !.log = out, !.overflow = noted]
    BY <1>3, <2>3, Zenon
  <2> QED
    BY <1>1, <2>1, <2>4, <2>5 DEF SessionBlock
<1>6. PICK es : OnAs(old, es)
  BY <1>1, <1>4, BlockAt
<1>7. old \in SessionBlock /\ ring \in Ring /\ Records(es) /\ Holds(ring, es)
      /\ HeldBy(old) = StampsOf(es) /\ HeldBy(old) # Null /\ On(old) /\ es \in Seq(Fit)
  BY <1>1, <1>6, RecordsIs DEF OnAs
<1>8. /\ data \in Seq(Cell) /\ Len(data) = 2 + len /\ len \in Nat /\ Len(data) < Limit
      /\ Len(data) >= 2 /\ data[2] \in Cell
  BY <1>1, <1>7, RingShape, RecordData
<1>9. PutRing(ring, es, data, out)
  BY <1>1, <1>7, <1>8, PutOne
<1>10. PICK stamp, size : stamp = data[2] /\ size = TotalSize(Len(data))
  OBVIOUS
<1>11. stamp \in Cell /\ size \in Sizes
  <2>1. TimeCell + IdsCell + len = Len(data)
    BY <1>8 DEF TimeCell, IdsCell
  <2> QED
    BY <1>8, <1>10, <2>1 DEF Sizes
<1>12. HasRoom(ring, Len(data)) <=> Monitor!Load(HeldBy(old)) + size <= BufferSize
  <2>1. Monitor!Load(HeldBy(old)) = ring.buffer_used
    BY <1>7, LoadHeld
  <2> QED
    BY <1>7, <1>8, <1>10, <2>1, RingShape, RingSize DEF HasRoom, TotalSize, Ulong
<1>13. block \in SessionBlock /\ block.log = out /\ out \in Ring
       /\ (Noted(block) <=> Noted(old) \/ lost)
  <2>1. out \in Ring
    BY <1>9 DEF PutRing
  <2> QED
    BY <1>3, <1>7, <2>1, NullAssumption DEF SessionBlock, Noted
<1>14. On(block) /\ Fine(block) /\ Puts(old, block, returned'.ids)
  <2>1. CASE HasRoom(ring, Len(data))
    <3>1. Pushed(ring, data, FALSE) /\ \E e \in Fit : e.data = data /\ Holds(out, Append(es, e))
      BY <1>9, <2>1 DEF PutRing
    <3>2. PICK e \in Fit : e.data = data /\ Holds(out, Append(es, e))
      BY <3>1
    <3>3. Records(Append(es, e)) /\ StampsOf(Append(es, e)) = Append(StampsOf(es), StampOf(e))
      BY <1>7, <1>8, <3>2, RecordsMore
    <3>4. OnAs(block, Append(es, e)) /\ Fine(block)
      BY <1>13, <3>2, <3>3, OnWith
    <3>5. StampOf(e) = [stamp |-> stamp, size |-> size]
      BY <1>10, <3>2 DEF StampOf, SizeOf
    <3>6. HeldBy(block) = Append(HeldBy(old), [stamp |-> stamp, size |-> size])
      BY <1>7, <3>3, <3>4, <3>5, Zenon DEF OnAs
    <3>7. Noted(block) <=> Noted(old)
      BY <1>2, <1>13, <3>1
    <3>8. Puts(old, block, returned'.ids)
      BY <1>4, <1>7, <1>11, <1>12, <2>1, <3>6, <3>7, NothingSaid, Zenon DEF Puts
    <3> QED
      BY <3>4, <3>8 DEF OnAs
  <2>2. CASE ~ HasRoom(ring, Len(data))
    <3>1. ~ Pushed(ring, data, FALSE) /\ Holds(out, es)
      BY <1>9, <2>2 DEF PutRing
    <3>2. OnAs(block, es) /\ Fine(block)
      BY <1>7, <1>13, <3>1, OnWith
    <3>3. HeldBy(block) = HeldBy(old) /\ Noted(block)
      BY <1>2, <1>7, <1>13, <3>1, <3>2 DEF OnAs
    <3>4. Puts(old, block, returned'.ids)
      BY <1>4, <1>7, <1>11, <1>12, <2>2, <3>3, NothingSaid, Zenon DEF Puts
    <3> QED
      BY <3>2, <3>4 DEF OnAs
  <2> QED
    BY <2>1, <2>2
<1>15. monitorCount' = (monitorCount - One(On(old))) + One(On(block))
  <2>1. One(On(old)) = 1 /\ One(On(block)) = 1
    BY <1>7, <1>14 DEF One
  <2> QED
    BY <1>4, <2>1, BlockAt
<1>16. Changes(s, block)
  <2>1. Answers(old, block, returned') /\ returned' \in Replies
    BY <1>4, <1>14, NothingSaid, AnswersWith
  <2> QED
    BY <1>1, <1>4, <1>5, <1>14, <1>15, <2>1 DEF Changes
<1> QED
  BY <1>16 DEF Moves

LEMMA EmptyMoves ==
    ASSUME SessionInv, NEW s \in SessionId, NoMoreEntries(s)
    PROVE  Moves
<1>1. PICK old, ring, block : /\ old = session[s] /\ ring = old.log
                              /\ block = [old EXCEPT !.overflow = FALSE]
  OBVIOUS
<1>2. /\ Monitored(s) /\ monitorCount' = monitorCount /\ returned' = Nothing
      /\ ring.buffer_used = 0 /\ session' = [session EXCEPT ![s] = block]
  BY <1>1 DEF NoMoreEntries
<1>3. PICK es : OnAs(old, es)
  BY <1>1, <1>2, BlockAt
<1>4. /\ old \in SessionBlock /\ ring \in Ring /\ Records(es) /\ Holds(ring, es)
      /\ HeldBy(old) = StampsOf(es) /\ HeldBy(old) # Null /\ On(old)
  BY <1>1, <1>3 DEF OnAs
<1>5. HeldBy(old) = << >>
  <2>1. Len(es) = 0
    BY <1>2, <1>4, EmptyLog
  <2>2. HeldBy(old) \in Seq(Stamped) /\ Len(HeldBy(old)) = 0
    BY <1>4, <2>1, StampsIs
  <2> QED
    BY <2>2
<1>6. block \in SessionBlock /\ block.log = ring /\ ~ Noted(block)
  BY <1>1, <1>4 DEF SessionBlock, Noted
<1>7. OnAs(block, es) /\ Fine(block)
  BY <1>4, <1>6, OnWith
<1>8. HeldBy(block) = << >> /\ On(block)
  BY <1>4, <1>5, <1>7 DEF OnAs
<1>9. Gets(old, block, returned'.ids)
  <2>1. HeldBy(block) = SubSeq(HeldBy(old), 0 + 1, Len(HeldBy(old)))
    BY <1>5, <1>8
  <2>2. 0 \in 0 .. Len(HeldBy(old))
    BY <1>5
  <2>3. returned'.ids = [i \in 1 .. 0 |-> HeldBy(old)[i].stamp]
    BY <1>2, NothingSaid
  <2> QED
    BY <1>4, <1>5, <1>6, <2>1, <2>2, <2>3, Zenon DEF Gets
<1>10. monitorCount' = (monitorCount - One(On(old))) + One(On(block))
  BY <1>2, <1>4, <1>8, BlockAt DEF One
<1>11. Changes(s, block)
  <2>1. Answers(old, block, returned') /\ returned' \in Replies
    BY <1>2, <1>9, NothingSaid, AnswersWith
  <2> QED
    BY <1>1, <1>2, <1>7, <1>10, <2>1 DEF Changes
<1> QED
  BY <1>11 DEF Moves

(* The oldest entries are taken, and told by their stamps, unless the call *)
(* fails.                                                                  *)
LEMMA TakeMoves ==
    ASSUME SessionInv, NEW s \in SessionId, Monitored(s), session[s].log.buffer_used > 0,
           NEW es, OnAs(session[s], es), NEW k \in 0 .. Len(es),
           NEW out, PoppedRing(session[s].log, es, k, out),
           session' = [session EXCEPT ![s].log = out], monitorCount' = monitorCount,
           returned' \in Replies,
           \/ returned' = Fault
           \/ /\ ~ returned'.failed /\ Len(returned'.ids) = k
              /\ \A i \in 1 .. k : returned'.ids[i] = es[i].data[2]
    PROVE  Moves
<1>1. PICK old, ring, block : /\ old = session[s] /\ ring = old.log
                              /\ block = [old EXCEPT !.log = out]
  OBVIOUS
<1>2. session' = [session EXCEPT ![s] = block]
  BY <1>1
<1>3. /\ old \in SessionBlock /\ ring \in Ring /\ Records(es) /\ Holds(ring, es)
      /\ HeldBy(old) = StampsOf(es) /\ HeldBy(old) # Null /\ On(old) /\ ring.buffer_used > 0
  BY <1>1 DEF OnAs
<1>4. PICK held, rest : held = HeldBy(old) /\ rest = Rest(es, k)
  OBVIOUS
<1>5. /\ Len(held) = Len(es) /\ Len(es) \in Nat /\ held \in Seq(Stamped)
      /\ \A i \in 1 .. Len(es) : held[i].stamp = es[i].data[2]
  <2>1. \A i \in 1 .. Len(es) : held[i] = StampOf(es[i])
    BY <1>3, <1>4, StampsIs
  <2> QED
    BY <1>3, <1>4, <2>1, StampsIs, RecordsIs
<1>6. /\ Records(rest) /\ out \in Ring /\ Holds(out, rest)
      /\ StampsOf(rest) = SubSeq(held, k + 1, Len(held))
  BY <1>1, <1>3, <1>4, RecordsRest DEF PoppedRing
<1>7. block \in SessionBlock /\ block.log = out /\ (Noted(block) <=> Noted(old))
  BY <1>1, <1>3, <1>6, NullAssumption DEF SessionBlock, Noted
<1>8. OnAs(block, rest) /\ Fine(block)
  BY <1>6, <1>7, OnWith
<1>9. HeldBy(block) = SubSeq(held, k + 1, Len(held)) /\ On(block)
  BY <1>6, <1>8 DEF OnAs
<1>10. PICK ids : ids = returned'.ids
  OBVIOUS
<1>11. held # << >> /\ k \in 0 .. Len(held)
  BY <1>3, <1>5, EmptyLog
<1>12. Answers(old, block, returned')
  <2>1. HeldBy(old) # Null /\ k \in 0 .. Len(HeldBy(old)) /\ HeldBy(old) # << >>
        /\ HeldBy(block) = SubSeq(HeldBy(old), k + 1, Len(HeldBy(old)))
    BY <1>3, <1>4, <1>9, <1>11
  <2>2. CASE returned' = Fault
    <3>1. ids = << >> /\ returned'.failed
      BY <1>10, <2>2, FaultSaid
    <3>2. Loses(old, block, ids)
      BY <1>7, <2>1, <3>1, Zenon DEF Loses
    <3> QED
      BY <1>10, <3>1, <3>2, Zenon DEF Answers
  <2>3. CASE /\ ~ returned'.failed /\ Len(ids) = k
             /\ \A i \in 1 .. k : ids[i] = es[i].data[2]
    <3>1. ids \in Seq(Cell)
      BY <1>10 DEF Replies
    <3>2. \A i \in 1 .. k : ids[i] = held[i].stamp
      BY <1>5, <2>3
    <3>3. ids = [i \in 1 .. k |-> held[i].stamp]
      BY <2>3, <3>1, <3>2
    <3>4. ids = [i \in 1 .. k |-> HeldBy(old)[i].stamp]
      BY <1>4, <3>3
    <3>5. Gets(old, block, ids)
      BY <1>7, <2>1, <3>4, Zenon DEF Gets
    <3> QED
      BY <1>10, <2>3, <3>5, AnswersWith
  <2> QED
    BY <1>10, <2>2, <2>3
<1>13. monitorCount' = (monitorCount - One(On(old))) + One(On(block))
  BY <1>3, <1>9, BlockAt DEF One
<1>14. Changes(s, block)
  BY <1>1, <1>2, <1>8, <1>12, <1>13 DEF Changes
<1> QED
  BY <1>14 DEF Moves

LEMMA GetExMoves ==
    ASSUME SessionInv, NEW s \in SessionId, Session_Api_MonitorGetEx(s)
    PROVE  Moves
<1>1. PICK old, ring, ptr : old = session[s] /\ ring = old.log /\ ptr = ring.buffer_start_ptr
  OBVIOUS
<1>2. /\ Monitored(s) /\ ring.buffer_used > 0 /\ monitorCount' = monitorCount
      /\ \/ /\ returned' = Reply(<<IdsAt(ring, ptr)>>, 0, 0)
            /\ session' = [session EXCEPT ![s].log = PopEntry(ring)]
         \/ returned' = Fault /\ session' = session
  BY <1>1, Zenon DEF Session_Api_MonitorGetEx
<1>3. PICK es : OnAs(old, es)
  BY <1>1, <1>2, BlockAt
<1>4. /\ ring \in Ring /\ Records(es) /\ Holds(ring, es) /\ Len(es) \in Nat
  BY <1>1, <1>3, RecordsIs DEF OnAs
<1>5. Len(es) > 0 /\ 1 \in 0 .. Len(es) /\ 1 \in 1 .. Len(es) /\ 0 \in 0 .. Len(es)
  BY <1>2, <1>4, EmptyLog
<1>6. CASE /\ returned' = Reply(<<IdsAt(ring, ptr)>>, 0, 0)
           /\ session' = [session EXCEPT ![s].log = PopEntry(ring)]
  <2>1. IdsAt(ring, ptr) = es[1].data[2] /\ PoppedRing(ring, es, 1, PopEntry(ring))
    BY <1>1, <1>4, <1>5, OldestRead
  <2>2. es[1].data[2] \in Cell
    BY <1>4, <1>5, RecordsIs
  <2>3. returned' \in Replies /\ ~ returned'.failed /\ returned'.ids = <<es[1].data[2]>>
    BY <1>6, <2>1, <2>2 DEF Reply, Replies
  <2>4. Len(returned'.ids) = 1 /\ \A i \in 1 .. 1 : returned'.ids[i] = es[i].data[2]
    BY <2>3
  <2> QED
    BY <1>1, <1>2, <1>3, <1>5, <1>6, <2>1, <2>3, <2>4, TakeMoves
<1>7. CASE returned' = Fault /\ session' = session
  <2>1. Rest(es, 0) = es /\ PoppedRing(ring, es, 0, ring)
    BY <1>4, RecordsIs, RestOfAll DEF PoppedRing
  <2>2. session' = [session EXCEPT ![s].log = ring]
    <3>1. session \in [SessionId -> SessionBlock \cup {Null}] /\ old \in SessionBlock
      BY <1>1, <1>2, BlockAt DEF SessionInv, SessionTypeOK, Monitored
    <3>2. old = [old EXCEPT !.log = ring]
      BY <1>1, <3>1 DEF SessionBlock
    <3> QED
      BY <1>1, <1>7, <3>1, <3>2
  <2> QED
    BY <1>1, <1>2, <1>3, <1>5, <1>7, <2>1, <2>2, FaultSaid, TakeMoves
<1> QED
  BY <1>2, <1>6, <1>7

LEMMA Get2Moves ==
    ASSUME SessionInv, NEW s \in SessionId, NEW given \in BufferLength,
           Session_Api_MonitorGet2(s, given)
    PROVE  Moves
<1>1. PICK old, ring, rounds : /\ old = session[s] /\ ring = old.log
                               /\ rounds = Copies(ring, given)
  OBVIOUS
<1>2. PICK copied : copied = rounds[MostEntries]
  OBVIOUS
<1>3. /\ Monitored(s) /\ ring.buffer_used > 0 /\ monitorCount' = monitorCount
      /\ \/ /\ returned' = Reply(copied.ids, copied.used + Ulong, given)
            /\ session' = [session EXCEPT ![s].log = copied.log]
         \/ /\ returned' = Fault
            /\ \E k \in 0 .. MostEntries : session' = [session EXCEPT ![s].log = rounds[k].log]
  BY <1>1, <1>2, Zenon DEF Session_Api_MonitorGet2
<1>4. PICK es : OnAs(old, es)
  BY <1>1, <1>3, BlockAt
<1>5. /\ ring \in Ring /\ Records(es) /\ Holds(ring, es) /\ Len(es) \in Nat
  BY <1>1, <1>4, RecordsIs DEF OnAs
<1>6. given \in 0 .. Limit - 1 /\ given \in Nat
  BY SessionAssumption, LimitNat
<1>7. \A k \in 0 .. MostEntries : CopiedSome(ring, es, rounds[k])
  BY <1>1, <1>5, <1>6, CopiedRounds
<1>8. CASE /\ returned' = Reply(copied.ids, copied.used + Ulong, given)
           /\ session' = [session EXCEPT ![s].log = copied.log]
  <2>1. PICK k \in 0 .. Len(es) : CopiedTo(ring, es, k, copied)
    BY <1>2, <1>7, EntriesFit DEF CopiedSome
  <2>2. /\ copied \in Copying /\ PoppedRing(ring, es, k, copied.log) /\ copied.used \in Nat
        /\ Len(copied.ids) = k /\ \A i \in 1 .. k : copied.ids[i] = es[i].data[2]
    BY <2>1 DEF CopiedTo
  <2>3. copied.ids \in Seq(Cell)
    <3>1. copied.ids \in Seq(Int)
      BY <2>2 DEF Copying
    <3>2. \A i \in 1 .. k : copied.ids[i] \in Cell
      <4>1. \A i \in 1 .. k : i \in 1 .. Len(es)
        BY <1>5
      <4> QED
        BY <1>5, <2>2, <4>1, RecordsIs
    <3> QED
      BY <2>2, <3>1, <3>2
  <2>4. returned' \in Replies /\ ~ returned'.failed /\ returned'.ids = copied.ids
    BY <1>6, <1>8, <2>2, <2>3 DEF Reply, Replies, Ulong
  <2>5. Len(returned'.ids) = k /\ \A i \in 1 .. k : returned'.ids[i] = es[i].data[2]
    BY <2>2, <2>4
  <2> QED
    BY <1>1, <1>3, <1>4, <1>8, <2>2, <2>4, <2>5, TakeMoves
<1>9. ASSUME returned' = Fault, NEW j \in 0 .. MostEntries,
             session' = [session EXCEPT ![s].log = rounds[j].log]
      PROVE  Moves
  <2>1. PICK k \in 0 .. Len(es) : CopiedTo(ring, es, k, rounds[j])
    BY <1>7 DEF CopiedSome
  <2>2. PICK out : out = rounds[j].log
    OBVIOUS
  <2>3. PoppedRing(ring, es, k, out)
    BY <2>1, <2>2 DEF CopiedTo
  <2> QED
    BY <1>1, <1>3, <1>4, <1>9, <2>2, <2>3, FaultSaid, TakeMoves
<1> QED
  BY <1>3, <1>8, <1>9

LEMMA SessionMoves ==
    ASSUME SessionInv, SessionNext
    PROVE  Moves
<1>1. CASE \E p \in Pid : Session_Api_Leader(p) \/ Session_Cancel(p)
  BY <1>1, LeaderMoves, CancelMoves
<1>2. ASSUME NEW s \in SessionId,
             \/ Enable(s)
             \/ Disable(s)
             \/ \E len \in DataLength : Session_MonitorPutEx(s, len)
             \/ NoMoreEntries(s)
             \/ Session_Api_MonitorGetEx(s)
             \/ \E given \in BufferLength : Session_Api_MonitorGet2(s, given)
      PROVE  Moves
  <2>1. CASE Enable(s)
    BY <2>1, EnableMoves
  <2>2. CASE Disable(s)
    BY <2>2, DisableMoves
  <2>3. CASE \E len \in DataLength : Session_MonitorPutEx(s, len)
    BY <2>3, PutMoves
  <2>4. CASE NoMoreEntries(s)
    BY <2>4, EmptyMoves
  <2>5. CASE Session_Api_MonitorGetEx(s)
    BY <2>5, GetExMoves
  <2>6. CASE \E given \in BufferLength : Session_Api_MonitorGet2(s, given)
    BY <2>6, Get2Moves
  <2> QED
    BY <1>2, <2>1, <2>2, <2>3, <2>4, <2>5, <2>6
<1> QED
  BY <1>1, <1>2 DEF SessionNext

LEMMA SessionStart ==
    ASSUME SessionInit
    PROVE  SessionInv /\ Monitor!Init
<1>1. session = [s \in SessionId |-> Null] /\ monitorCount = 0 /\ returned = Nothing
  BY DEF SessionInit
<1>2. \A s \in SessionId : session[s] = Null /\ ~ Monitored(s)
  BY <1>1 DEF Monitored
<1>3. {s \in SessionId : Monitored(s)} = {} /\ NotedAll = {}
  BY <1>2 DEF NotedAll
<1>4. HeldAll = [s \in SessionId |-> Null]
  BY <1>2 DEF HeldAll
<1>5. SessionTypeOK
  BY <1>1, NothingSaid DEF SessionTypeOK, Replies
<1>6. IsFiniteSet({}) /\ Cardinality({}) = 0
  BY FS_EmptySet
<1>7. SessionInv
  BY <1>1, <1>2, <1>3, <1>5, <1>6 DEF SessionInv
<1>8. returned.ids = << >> /\ returned.failed = FALSE
  BY <1>1 DEF Nothing, Reply
<1>9. Monitor!Init
  BY <1>3, <1>4, <1>8, Zenon DEF Monitor!Init, HeldAll, NotedAll
<1> QED
  BY <1>7, <1>9

LEMMA SessionStays ==
    ASSUME SessionInv, UNCHANGED sessionVars
    PROVE  SessionInv' /\ UNCHANGED <<HeldAll, NotedAll, returned.ids, returned.failed>>
<1>1. session' = session /\ monitorCount' = monitorCount /\ returned' = returned
  BY DEF sessionVars
<1>2. SessionInv'
  BY <1>1, Zenon DEF SessionInv, SessionTypeOK, Monitored
<1>3. HeldAll' = HeldAll /\ NotedAll' = NotedAll
  BY <1>1, Zenon DEF HeldAll, NotedAll, Monitored
<1> QED
  BY <1>1, <1>2, <1>3

(* However the sessions end, Session_MonitorCount is the number of their   *)
(* monitors, so the callers that look at it first skip no monitor.         *)
THEOREM CountsMonitors == SessionSpec => []CountExact
<1>1. SessionInit => SessionInv
  BY SessionStart
<1>2. SessionInv /\ [SessionNext]_sessionVars => SessionInv'
  <2>1. ASSUME SessionInv, SessionNext PROVE SessionInv'
    BY <2>1, SessionMoves, ChangeKeeps DEF Moves
  <2> QED
    BY <2>1, SessionStays
<1>3. SessionInv => CountExact
  BY DEF SessionInv, CountExact
<1> QED
  BY <1>1, <1>2, <1>3, PTL DEF SessionSpec

(* Each call does to the monitors what MonitorQueue allows: what is in the *)
(* rings is a bounded queue of every session, an entry is taken by one     *)
(* call, in order, which hands it out or fails, and what found no room is  *)
(* noted until a reader finds the monitor empty.                           *)
THEOREM MonitorsAreQueues == SessionSpec => QueueSpec
<1>1. SessionInit => SessionInv /\ Monitor!Init
  BY SessionStart
<1>2. SessionInv /\ [SessionNext]_sessionVars
        => SessionInv' /\ [Monitor!Next]_<<HeldAll, NotedAll, returned.ids, returned.failed>>
  <2>1. ASSUME SessionInv, SessionNext PROVE SessionInv' /\ Monitor!Next
    BY <2>1, SessionMoves, ChangeKeeps, ChangeNext DEF Moves
  <2> QED
    BY <2>1, SessionStays
<1> QED
  BY <1>1, <1>2, PTL DEF SessionSpec, QueueSpec, Monitor!Spec, HeldAll, NotedAll
=============================================================================
