---------------------------- MODULE RingTheorems -----------------------------
(* Facts about positions of a ring that the queue proofs share.            *)
EXTENDS Integers, TLAPS

(* The order of the naturals is irreflexive.                               *)
LEMMA NotBelow == ASSUME NEW a \in Nat, NEW b \in Nat, a < b, b <= a PROVE FALSE
OBVIOUS

(* A later index is another one.                                           *)
LEMMA LaterDiffers ==
    ASSUME NEW a \in Nat, NEW b \in Nat, a < b PROVE b # a /\ b > a
OBVIOUS

(* Two indices of one revolution that select the same position are equal.  *)
LEMMA OneRevolution ==
    ASSUME NEW Q \in Nat \ {0}, NEW a \in Nat, NEW b \in Nat,
           a <= b, b < a + Q, a % Q = b % Q
    PROVE  a = b
<1> DEFINE x == a \div Q
           y == b \div Q
<1>1. x \in Int /\ y \in Int /\ a = Q * x + (a % Q) /\ b = Q * y + (b % Q)
    OBVIOUS
<1>2. b - a = Q * (y - x)
    BY <1>1
<1>3. CASE y - x <= 0
  <2>1. Q * (y - x) <= 0
      BY <1>1, <1>3
  <2> QED
      BY <2>1, <1>2
<1>4. CASE y - x >= 1
  <2>1. Q * (y - x) >= Q
      BY <1>1, <1>4
  <2> QED
      BY <2>1, <1>2
<1> QED
    BY <1>1, <1>3, <1>4

(* The same, for two indices of a window of one revolution in any order.   *)
LEMMA SamePosition ==
    ASSUME NEW Q \in Nat \ {0}, NEW r \in Nat, NEW a \in Nat, NEW b \in Nat,
           r <= a, a < r + Q, r <= b, b < r + Q, a % Q = b % Q
    PROVE  a = b
<1>1. CASE a <= b
  <2>1. b < a + Q
      OBVIOUS
  <2> QED
      BY <1>1, <2>1, OneRevolution
<1>2. CASE b <= a
  <2>1. a < b + Q
      OBVIOUS
  <2> QED
      BY <1>2, <2>1, OneRevolution
<1> QED
    BY <1>1, <1>2

(* A number below the modulus is its own remainder, whole turns apart.     *)
LEMMA RemainderOf ==
    ASSUME NEW M \in Nat \ {0}, NEW x \in Int, NEW q \in Int, 0 <= x, x < M
    PROVE  (x + M * q) % M = x
<1> DEFINE y == x + M * q
           d == y \div M
<1>1. y \in Int /\ d \in Int /\ y = M * d + (y % M) /\ 0 <= y % M /\ y % M < M
    OBVIOUS
<1>2. M * (d - q) = x - (y % M)
    BY <1>1
<1>3. CASE d - q >= 1
  <2>1. M * (d - q) >= M
      BY <1>1, <1>3
  <2> QED
      BY <2>1, <1>1, <1>2
<1>4. CASE d - q <= -1
  <2>1. M * (d - q) <= -M
      BY <1>1, <1>4
  <2> QED
      BY <2>1, <1>1, <1>2
<1>5. CASE d = q
    BY <1>1, <1>2, <1>5
<1> QED
    BY <1>1, <1>3, <1>4, <1>5

(* The 16-bit difference of two counters that are close is the difference. *)
LEMMA CloseDifference ==
    ASSUME NEW M \in Nat \ {0}, NEW p \in Nat, NEW d \in Nat \ {0},
           d <= p, p - d < M
    PROVE  (p - (((d - 1) % M) + 1)) % M = p - d
<1> DEFINE r == (d - 1) % M
           q == (d - 1) \div M
<1>1. r \in Int /\ q \in Int /\ d - 1 = M * q + r
    OBVIOUS
<1>2. p - (r + 1) = (p - d) + M * q
    BY <1>1
<1>3. ((p - d) + M * q) % M = p - d
  <2>1. p - d \in Int /\ 0 <= p - d /\ p - d < M /\ q \in Int
      BY <1>1
  <2> HIDE DEF q
  <2> QED
      BY <2>1, RemainderOf
<1> QED
    BY <1>2, <1>3

(* Reducing by a multiple of D first does not change the remainder by D.    *)
LEMMA RemainderOfRemainder ==
    ASSUME NEW D \in Nat \ {0}, NEW C \in Nat \ {0}, C % D = 0, NEW i \in Nat
    PROVE  (i % C) % D = i % D
<1>1. PICK k \in Int : C = D * k
  <2>1. (C \div D) \in Int /\ C = D * (C \div D) + (C % D)
      OBVIOUS
  <2> QED
      BY <2>1
<1>2. PICK q \in Int, r \in Int : i = C * q + r /\ r = i % C
  <2>1. (i \div C) \in Int /\ (i % C) \in Int /\ i = C * (i \div C) + (i % C)
      OBVIOUS
  <2> QED
      BY <2>1
<1>3. PICK s \in Int, t \in Int : r = D * s + t /\ 0 <= t /\ t < D /\ t = r % D
  <2>1. /\ (r \div D) \in Int /\ (r % D) \in Int /\ 0 <= r % D /\ r % D < D
        /\ r = D * (r \div D) + (r % D)
      OBVIOUS
  <2> QED
      BY <2>1
<1>4. k * q \in Int /\ k * q + s \in Int
    OBVIOUS
<1>5. i = t + D * (k * q + s)
  <2>1. C * q = D * (k * q)
      BY <1>1
  <2>2. ASSUME NEW x \in Int PROVE D * (x + s) = D * x + D * s
      OBVIOUS
  <2>3. D * (k * q + s) = D * (k * q) + D * s
      BY <1>4, <2>2
  <2>4. i = C * q + (D * s + t)
      BY <1>2, <1>3
  <2> QED
      BY <2>1, <2>3, <2>4
<1>6. (t + D * (k * q + s)) % D = t
  <2>1. PICK z \in Int : z = k * q + s
      BY <1>4
  <2>2. (t + D * z) % D = t
      BY <1>3, RemainderOf
  <2> QED
      BY <2>1, <2>2
<1> QED
    BY <1>2, <1>3, <1>5, <1>6

(* An index may be reduced before it is advanced.                          *)
LEMMA PlusRemainder ==
    ASSUME NEW M \in Nat \ {0}, NEW a \in Nat, NEW b \in Nat
    PROVE  ((a % M) + b) % M = (a + b) % M
<1>1. PICK q \in Int, x \in Nat : a = M * q + x /\ x = a % M
  <2>1. (a \div M) \in Int /\ (a % M) \in Nat /\ a = M * (a \div M) + (a % M)
      OBVIOUS
  <2> QED
      BY <2>1
<1>2. PICK p \in Int, y \in Int : /\ x + b = M * p + y /\ y = (x + b) % M
                                  /\ 0 <= y /\ y < M
  <2>1. x + b \in Nat
      OBVIOUS
  <2>2. ASSUME NEW z \in Nat
        PROVE  /\ (z \div M) \in Int /\ (z % M) \in Int
               /\ z = M * (z \div M) + (z % M) /\ 0 <= z % M /\ z % M < M
      OBVIOUS
  <2> QED
      BY <2>1, <2>2
<1>3. a + b = y + M * (p + q)
  <2>1. PICK u \in Int, v \in Int : u = M * p /\ v = M * q
      OBVIOUS
  <2>2. M * (p + q) = M * p + M * q
      OBVIOUS
  <2>3. M * (p + q) = u + v
      BY <2>1, <2>2
  <2>4. x + b = u + y /\ a = v + x
      BY <1>1, <1>2, <2>1
  <2>5. a + b = y + (u + v)
      BY <2>4
  <2> QED
      BY <2>3, <2>5
<1>4. (y + M * (p + q)) % M = y
  <2>1. p + q \in Int
      OBVIOUS
  <2> QED
      BY <1>2, <2>1, RemainderOf
<1> QED
    BY <1>1, <1>2, <1>3, <1>4

(* With at least two positions the next one is another one.                *)
LEMMA NextDiffers ==
    ASSUME NEW M \in Nat \ {0, 1}, NEW a \in Nat
    PROVE  (a + 1) % M # a % M
<1> SUFFICES ASSUME a % M = (a + 1) % M PROVE FALSE
    OBVIOUS
<1>1. a + 1 \in Nat /\ a <= a + 1 /\ a + 1 < a + M
    OBVIOUS
<1>2. a = a + 1
    BY <1>1, OneRevolution
<1> QED
    BY <1>2
=============================================================================
