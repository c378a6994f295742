---------------------------- MODULE TrainerProofs ----------------------------
(***************************************************************************)
(* The tensors of a training job: how a dense tensor is cut (for every     *)
(* number of rows and of servers, as long as the sum i + hash does not     *)
(* wrap or the number of servers divides the modulus; and otherwise it is  *)
(* not cut well, once there is a row for every server); and that save      *)
(* leaves a complete checkpoint.  TensorProofs goes on from here.          *)
(***************************************************************************)
EXTENDS DistributedTrainer, SequenceTheorems, FiniteSetTheorems, TLAPS

-----------------------------------------------------------------------------
(***************************************************************************)
(* The slices of a dense tensor.                                           *)
(***************************************************************************)

\* Division with remainder is unique.
LEMMA DivUnique ==
    ASSUME NEW n \in Nat \ {0}, NEW q \in Int, NEW r \in 0..(n - 1)
    PROVE  (q * n + r) \div n = q /\ (q * n + r) % n = r
<1> DEFINE a == (q * n + r) \div n
           b == (q * n + r) % n
<1>1. a \in Int /\ b \in 0..(n - 1) /\ q * n + r = a * n + b
  BY SMT
<1>2. (q - a) * n = b - r
  BY <1>1, SMT
<1>3. q - a < 1
  <2>1. SUFFICES ASSUME q - a >= 1 PROVE FALSE
    BY <1>1
  <2>2. (q - a) * n >= n
    BY <2>1, <1>1, SMT
  <2> QED BY <2>2, <1>2, <1>1, SMT
<1>4. q - a > -1
  <2>1. SUFFICES ASSUME q - a <= -1 PROVE FALSE
    BY <1>1
  <2>2. (q - a) * n <= -n
    BY <2>1, <1>1, SMT
  <2> QED BY <2>2, <1>2, <1>1, SMT
<1>5. q = a
  BY <1>3, <1>4, <1>1, SMT
<1> QED BY <1>5, <1>1, SMT

\* Euclid: what quotient and remainder are.
LEMMA DivFacts ==
    ASSUME NEW n \in Nat \ {0}, NEW x \in Int
    PROVE  /\ x \div n \in Int /\ x % n \in 0..(n - 1)
           /\ x = (x \div n) * n + (x % n)
           /\ x >= 0 => x \div n \in Nat
<1>1. x \div n \in Int /\ x % n \in 0..(n - 1) /\ x = (x \div n) * n + (x % n)
  <2>1. x \div n \in Int
    OBVIOUS
  <2>2. x % n \in 0..(n - 1)
    OBVIOUS
  <2>3. \A k \in Nat \ {0}, y \in Int : y = (y \div k) * k + (y % k)
    BY SMT
  <2> QED BY <2>1, <2>2, <2>3
<1>2. ASSUME x >= 0, x \div n <= -1 PROVE FALSE
  <2>1. (x \div n) * n <= -n
    BY <1>1, <1>2, SMT
  <2> QED BY <2>1, <1>1, <1>2, SMT
<1> QED BY <1>1, <1>2, SMT

\* The number of rows of a slot: the average, and one more in the first slots.
LEMMA ItemsValue ==
    ASSUME NEW m \in Nat, NEW n \in Nat \ {0}, NEW k \in 0..(n - 1)
    PROVE  Items(k, m, n) = m \div n + (IF k < m % n THEN 1 ELSE 0)
<1> DEFINE q == m \div n
           r == m % n
<1>1. q \in Nat /\ r \in 0..(n - 1) /\ m = q * n + r
  BY DivFacts, m \in Int, m >= 0
<1> HIDE DEF q, r
<1>2. CASE k < r
  <2>1. m + n - 1 - k = (q + 1) * n + (r - 1 - k)
    BY <1>1, SMT
  <2>2. r - 1 - k \in 0..(n - 1)
    BY <1>1, <1>2, SMT
  <2>3. ((q + 1) * n + (r - 1 - k)) \div n = q + 1
    BY <2>2, <1>1, DivUnique, q + 1 \in Int
  <2> QED BY <2>1, <2>3, <1>2 DEF Items, q, r
<1>3. CASE ~(k < r)
  <2>1. m + n - 1 - k = q * n + (r + n - 1 - k)
    BY <1>1, SMT
  <2>2. r + n - 1 - k \in 0..(n - 1)
    BY <1>1, <1>3, SMT
  <2>3. (q * n + (r + n - 1 - k)) \div n = q
    BY <2>2, <1>1, DivUnique, q \in Int
  <2> QED BY <2>1, <2>3, <1>3, <1>1, SMT DEF Items, q, r
<1> QED BY <1>2, <1>3

\* Quotient and remainder, to be picked by name.
LEMMA DivExists ==
    ASSUME NEW x \in Nat, NEW n \in Nat \ {0}
    PROVE  \E a \in Nat, b \in 0..(n - 1) : x = a * n + b
<1>1. x \in Int /\ x >= 0
  OBVIOUS
<1>2. x \div n \in Nat /\ x % n \in 0..(n - 1) /\ x = (x \div n) * n + (x % n)
  BY <1>1, DivFacts
<1> QED BY <1>2, Zenon

\* Where the slots begin and end, in terms of the average q and the remainder r.
LEMMA SlotValue ==
    ASSUME NEW m \in Nat, NEW n \in Nat \ {0}
    PROVE  \E q \in Nat, r \in 0..(n - 1) :
              /\ m = q * n + r
              /\ \A k \in 0..(n - 1) :
                    /\ SlotBegin(k, m, n) = q * k + (IF k < r THEN k ELSE r)
                    /\ SlotEnd(k, m, n) = q * k + q + (IF k < r THEN k + 1 ELSE r)
<1> DEFINE q == m \div n
           r == m % n
<1>1. q \in Nat /\ r \in 0..(n - 1) /\ m = q * n + r
  BY DivFacts, m \in Int, m >= 0
<1>2. ASSUME NEW k \in 0..(n - 1)
      PROVE  /\ SlotBegin(k, m, n) = q * k + (IF k < r THEN k ELSE r)
             /\ SlotEnd(k, m, n) = q * k + q + (IF k < r THEN k + 1 ELSE r)
  <2>1. SlotBegin(k, m, n) = q * k + (IF k < r THEN k ELSE r)
    BY Zenon DEF SlotBegin
  <2>2. Items(k, m, n) = q + (IF k < r THEN 1 ELSE 0)
    BY ItemsValue
  <2>3. q * k \in Nat
    <3> HIDE DEF q
    <3> QED BY <1>1, SMT
  <2>4. SlotEnd(k, m, n) = SlotBegin(k, m, n) + Items(k, m, n)
    BY Zenon DEF SlotEnd
  <2> HIDE DEF q, r
  <2>5. SlotEnd(k, m, n) = q * k + q + (IF k < r THEN k + 1 ELSE r)
    BY <1>1, <2>1, <2>2, <2>3, <2>4, SMT
  <2> QED BY <2>1, <2>5
<1> HIDE DEF q, r
<1>3. \A k \in 0..(n - 1) :
         /\ SlotBegin(k, m, n) = q * k + (IF k < r THEN k ELSE r)
         /\ SlotEnd(k, m, n) = q * k + q + (IF k < r THEN k + 1 ELSE r)
  BY <1>2
<1> QED BY <1>1, <1>3, Zenon

\* The slots follow one another: slot k ends before any later slot begins, and
\* all of them end within the tensor.
LEMMA SlotsOrdered ==
    ASSUME NEW m \in Nat, NEW n \in Nat \ {0},
           NEW k \in 0..(n - 1), NEW l \in 0..(n - 1), k < l
    PROVE  SlotEnd(k, m, n) <= SlotBegin(l, m, n)
<1>1. PICK q \in Nat, r \in 0..(n - 1) :
         /\ m = q * n + r
         /\ \A i \in 0..(n - 1) :
               /\ SlotBegin(i, m, n) = q * i + (IF i < r THEN i ELSE r)
               /\ SlotEnd(i, m, n) = q * i + q + (IF i < r THEN i + 1 ELSE r)
  BY SlotValue
<1>2. /\ SlotEnd(k, m, n) = q * k + q + (IF k < r THEN k + 1 ELSE r)
      /\ SlotBegin(l, m, n) = q * l + (IF l < r THEN l ELSE r)
  BY <1>1
<1>3. q * (k + 1) <= q * l
  <2>1. PICK d \in Nat : l = k + 1 + d
    BY l - k - 1 \in Nat, l = k + 1 + (l - k - 1)
  <2>2. q * l = q * (k + 1) + q * d /\ q * d \in Nat
    BY <2>1, <1>1, SMT
  <2> QED BY <2>2, <1>1, SMT
<1>4. q * (k + 1) = q * k + q
  BY <1>1, SMT
<1>5. (IF k < r THEN k + 1 ELSE r) <= (IF l < r THEN l ELSE r)
  BY <1>1, SMT
<1>6. q * k \in Int /\ q * l \in Int
  BY <1>1, SMT
<1> QED BY <1>1, <1>2, <1>3, <1>4, <1>5, <1>6, SMT

\* The rows of a slot are rows of the tensor.
LEMMA SlotWithin ==
    ASSUME NEW m \in Nat, NEW n \in Nat \ {0}, NEW k \in 0..(n - 1)
    PROVE  /\ SlotBegin(k, m, n) \in Nat /\ SlotEnd(k, m, n) \in Nat
           /\ SlotEnd(k, m, n) <= m
<1>1. PICK q \in Nat, r \in 0..(n - 1) :
         /\ m = q * n + r
         /\ \A i \in 0..(n - 1) :
               /\ SlotBegin(i, m, n) = q * i + (IF i < r THEN i ELSE r)
               /\ SlotEnd(i, m, n) = q * i + q + (IF i < r THEN i + 1 ELSE r)
  BY SlotValue
<1>2. /\ SlotBegin(k, m, n) = q * k + (IF k < r THEN k ELSE r)
      /\ SlotEnd(k, m, n) = q * k + q + (IF k < r THEN k + 1 ELSE r)
  BY <1>1
<1>3. q * k + q <= q * n
  <2>1. PICK d \in Nat : n = k + 1 + d
    BY n - k - 1 \in Nat, n = k + 1 + (n - k - 1)
  <2>2. q * n = q * k + q + q * d /\ q * d \in Nat /\ q * k \in Nat
    BY <2>1, <1>1, SMT
  <2> QED BY <2>2, <1>1, SMT
<1>4. q * k \in Nat /\ q * n \in Nat
  BY <1>1, SMT
<1> QED BY <1>1, <1>2, <1>3, <1>4, SMT

\* A row is in some slot: among the first r slots of q + 1 rows, or else among
\* the slots of q rows that follow.
LEMMA SlotExists ==
    ASSUME NEW m \in Nat, NEW n \in Nat \ {0}, NEW row \in 0..(m - 1)
    PROVE  \E k \in 0..(n - 1) : row \in SlotBegin(k, m, n) .. (SlotEnd(k, m, n) - 1)
<1>1. PICK q \in Nat, r \in 0..(n - 1) :
         /\ m = q * n + r
         /\ \A i \in 0..(n - 1) :
               /\ SlotBegin(i, m, n) = q * i + (IF i < r THEN i ELSE r)
               /\ SlotEnd(i, m, n) = q * i + q + (IF i < r THEN i + 1 ELSE r)
  BY SlotValue
<1>2. m = q * n + r
  BY <1>1
<1>3. CASE row < (q + 1) * r
  <2>1. PICK k \in Nat, b \in 0..q : row = k * (q + 1) + b
    <3>1. q + 1 \in Nat \ {0}
      BY <1>1, SMT
    <3>2. \E k \in Nat, b \in 0..((q + 1) - 1) : row = k * (q + 1) + b
      BY <3>1, DivExists, row \in Nat
    <3>3. (q + 1) - 1 = q
      OBVIOUS
    <3> QED BY <3>2, <3>3, Zenon
  <2>2. k < r
    <3>1. SUFFICES ASSUME k >= r PROVE FALSE
      BY <1>1
    <3>2. PICK d \in Nat : k = r + d
      BY <3>1, <1>1, k - r \in Nat, k = r + (k - r)
    <3>3. k * (q + 1) = (q + 1) * r + d * (q + 1) /\ d * (q + 1) \in Nat
      BY <3>2, <1>1, SMT
    <3> QED BY <3>3, <2>1, <1>1, <1>3, SMT
  <2>3. k \in 0..(n - 1)
    BY <2>2, <1>1, SMT
  <2>4. SlotBegin(k, m, n) = q * k + k /\ SlotEnd(k, m, n) = q * k + q + (k + 1)
    BY <2>2, <2>3, <1>1
  <2>5. k * (q + 1) = q * k + k /\ q * k \in Nat
    BY <1>1, SMT
  <2>6. row \in SlotBegin(k, m, n) .. (SlotEnd(k, m, n) - 1)
    BY <2>1, <2>4, <2>5, <1>1, SMT
  <2> QED BY <2>3, <2>6
<1>4. CASE ~(row < (q + 1) * r)
  <2>1. (q + 1) * r = q * r + r /\ q * r \in Nat /\ q * n \in Nat
    BY <1>1, SMT
  <2>2. q # 0
    <3>1. ASSUME q = 0 PROVE q * n = 0 /\ q * r = 0
      BY <3>1, <1>1, SMT
    <3> QED BY <3>1, <2>1, <1>1, <1>4, SMT
  <2>3. PICK e \in Nat, b \in 0..(q - 1) : row - (q + 1) * r = e * q + b
    <3>1. q \in Nat \ {0} /\ row - (q + 1) * r \in Nat
      BY <1>1, <2>1, <2>2, <1>4, SMT
    <3> QED BY <3>1, DivExists
  <2> DEFINE k == r + e
  <2>4. q * k = q * r + e * q /\ e * q \in Nat
    BY <1>1, SMT
  <2>5. k < n
    <3>1. SUFFICES ASSUME k >= n PROVE FALSE
      BY <1>1
    <3>2. PICK d \in Nat : k = n + d
      BY <3>1, <1>1, k - n \in Nat, k = n + (k - n)
    <3>3. q * k = q * n + q * d /\ q * d \in Nat
      BY <3>2, <1>1, SMT
    <3> HIDE DEF k
    <3> QED BY <3>3, <2>1, <2>3, <2>4, <1>1, SMT
  <2>6. k \in 0..(n - 1) /\ ~(k < r)
    BY <2>5, <1>1, SMT
  <2>7. SlotBegin(k, m, n) = q * k + r /\ SlotEnd(k, m, n) = q * k + q + r
    BY <2>6, <1>1
  <2> HIDE DEF k
  <2>8. row \in SlotBegin(k, m, n) .. (SlotEnd(k, m, n) - 1)
    BY <2>1, <2>3, <2>4, <2>7, <1>1, SMT
  <2> QED BY <2>6, <2>8
<1> QED BY <1>3, <1>4

\* A number below the modulus is left as it is.
LEMMA NoWrap ==
    ASSUME NEW W \in Nat \ {0}, NEW x \in 0..(W - 1)
    PROVE  x % W = x
<1>1. 0 * W + x = x
  BY SMT
<1>2. (0 * W + x) % W = x
  BY DivUnique, 0 \in Int
<1> QED BY <1>1, <1>2

\* When the sum does not wrap: the slots are those of unbounded numbers.
Unwrapped(h, n, W) == h + n <= W \/ W % n = 0

\* The wrap takes off a multiple of n.
LEMMA WrapByMultiple ==
    ASSUME NEW n \in Nat \ {0}, NEW W \in Nat \ {0}, W % n = 0, NEW x \in Nat
    PROVE  (x % W) % n = x % n
<1>1. PICK a \in Int, b \in 0..(W - 1) : x = a * W + b /\ x % W = b
  <2>1. x \div W \in Int /\ x % W \in 0..(W - 1) /\ x = (x \div W) * W + (x % W)
    BY DivFacts, x \in Int
  <2> QED BY <2>1, Zenon
<1>2. PICK c \in Int : W = c * n
  <2>1. W \div n \in Int /\ W = (W \div n) * n + (W % n)
    BY DivFacts, W \in Int
  <2>2. W = (W \div n) * n
    BY <2>1, SMT
  <2> QED BY <2>1, <2>2, Zenon
<1>3. PICK d \in Int, e \in 0..(n - 1) : b = d * n + e /\ b % n = e
  <2>1. b \div n \in Int /\ b % n \in 0..(n - 1) /\ b = (b \div n) * n + (b % n)
    BY DivFacts, b \in Int
  <2> QED BY <2>1, Zenon
<1>4. x = (a * c + d) * n + e
  <2>1. a * W = a * (c * n)
    BY <1>2
  <2>2. a * (c * n) + d * n = (a * c + d) * n
    BY <1>1, <1>2, <1>3, SMT
  <2>3. /\ a * W \in Int /\ a * (c * n) \in Int /\ d * n \in Int /\ (a * c + d) * n \in Int
    BY <1>1, <1>2, <1>3, SMT
  <2> QED BY <1>1, <1>3, <2>1, <2>2, <2>3
<1>5. ((a * c + d) * n + e) % n = e
  <2>1. a * c + d \in Int
    BY <1>1, <1>2, <1>3, SMT
  <2> QED BY <2>1, <1>3, DivUnique
<1> QED BY <1>1, <1>3, <1>4, <1>5

\* Without a harmful wrap the slot is that of unbounded numbers.
LEMMA SlotMod ==
    ASSUME NEW n \in Nat \ {0}, NEW h \in Nat, NEW W \in Nat \ {0}, Unwrapped(h, n, W),
           NEW i \in 0..(n - 1)
    PROVE  Slot(i, h, n, W) = (i + h) % n
<1>1. CASE h + n <= W
  <2>1. i + h \in 0..(W - 1)
    BY <1>1, SMT
  <2> QED BY <2>1, NoWrap DEF Slot
<1>2. CASE W % n = 0
  <2>1. i + h \in Nat
    OBVIOUS
  <2> QED BY <1>2, <2>1, WrapByMultiple DEF Slot
<1> QED BY <1>1, <1>2 DEF Unwrapped

\* Different servers have different slots ...
LEMMA SlotInjective ==
    ASSUME NEW n \in Nat \ {0}, NEW h \in Nat, NEW W \in Nat \ {0}, Unwrapped(h, n, W),
           NEW i \in 0..(n - 1), NEW j \in 0..(n - 1), Slot(i, h, n, W) = Slot(j, h, n, W)
    PROVE  i = j
<1>1. Slot(i, h, n, W) = (i + h) % n /\ Slot(j, h, n, W) = (j + h) % n
  BY SlotMod
<1>2. PICK a \in Int, b \in Int, t \in 0..(n - 1) : i + h = a * n + t /\ j + h = b * n + t
  <2>1. /\ (i + h) \div n \in Int /\ (i + h) % n \in 0..(n - 1)
        /\ i + h = ((i + h) \div n) * n + ((i + h) % n)
    BY DivFacts, i + h \in Int
  <2>2. /\ (j + h) \div n \in Int
        /\ j + h = ((j + h) \div n) * n + ((j + h) % n)
    BY DivFacts, j + h \in Int
  <2>3. (i + h) % n = (j + h) % n
    BY <1>1
  <2> QED BY <2>1, <2>2, <2>3, Zenon
<1>3. i - j = (a - b) * n
  BY <1>2, SMT
<1>4. ASSUME a - b >= 1 PROVE FALSE
  <2>1. (a - b) * n >= n
    BY <1>4, <1>2, SMT
  <2> QED BY <2>1, <1>3, SMT
<1>5. ASSUME a - b <= -1 PROVE FALSE
  <2>1. (a - b) * n <= -n
    BY <1>5, <1>2, SMT
  <2> QED BY <2>1, <1>3, SMT
<1>6. a - b = 0
  BY <1>2, <1>4, <1>5, SMT
<1> QED BY <1>3, <1>6, SMT

\* ... and every slot has a server.
LEMMA SlotSurjective ==
    ASSUME NEW n \in Nat \ {0}, NEW h \in Nat, NEW W \in Nat \ {0}, Unwrapped(h, n, W),
           NEW k \in 0..(n - 1)
    PROVE  \E i \in 0..(n - 1) : Slot(i, h, n, W) = k
<1>1. PICK a \in Int, i \in 0..(n - 1) : k - h = a * n + i
  <2>1. /\ (k - h) \div n \in Int /\ (k - h) % n \in 0..(n - 1)
        /\ k - h = ((k - h) \div n) * n + ((k - h) % n)
    BY DivFacts, k - h \in Int
  <2> QED BY <2>1, Zenon
<1>2. Slot(i, h, n, W) = (i + h) % n
  BY SlotMod
<1>3. i + h = (-a) * n + k
  BY <1>1, SMT
<1>4. (i + h) % n = k
  <2>1. -a \in Int
    OBVIOUS
  <2>2. ((-a) * n + k) % n = k
    BY <2>1, DivUnique
  <2> QED BY <2>2, <1>3
<1> QED BY <1>2, <1>4

\* A slot number is one of 0 .. n - 1, wrapped or not.
LEMMA SlotRange ==
    ASSUME NEW n \in Nat \ {0}, NEW h \in Nat, NEW W \in Nat \ {0}, NEW i \in 0..(n - 1)
    PROVE  Slot(i, h, n, W) \in 0..(n - 1)
<1>1. (i + h) % W \in Int
  BY DivFacts, i + h \in Int
<1> QED BY <1>1, DivFacts DEF Slot

\* A slice that Pull copies into the result lies within it, whatever the hash.
THEOREM DenseWithinTensor ==
    ASSUME NEW m \in Nat, NEW n \in Nat \ {0}, NEW h \in Nat, NEW W \in Nat \ {0}
    PROVE  WithinTensor(h, m, n, W)
<1> SUFFICES ASSUME NEW i \in 0..(n - 1)
             PROVE  Rows(i, h, m, n, W) \subseteq 0..(m - 1)
  BY DEF WithinTensor
<1>1. PICK k \in 0..(n - 1) : k = Slot(i, h, n, W)
  BY SlotRange
<1>2. SlotBegin(k, m, n) \in Nat /\ SlotEnd(k, m, n) \in Nat /\ SlotEnd(k, m, n) <= m
  BY SlotWithin
<1>3. SlotBegin(k, m, n) .. (SlotEnd(k, m, n) - 1) \subseteq 0..(m - 1)
  BY <1>2, SMT
<1> QED BY <1>1, <1>3 DEF Rows

\* The slices of a dense tensor tile it: for any number of rows and of servers,
\* every row has exactly one server, provided that i + hash does not wrap or that
\* the number of servers divides the modulus (as 1, 2, 4, 8, ... divide 2^64).
THEOREM DenseTiles ==
    ASSUME NEW m \in Nat, NEW n \in Nat \ {0}, NEW h \in Nat, NEW W \in Nat \ {0},
           Unwrapped(h, n, W)
    PROVE  Tiles(h, m, n, W)
<1> SUFFICES ASSUME NEW row \in 0..(m - 1)
             PROVE  \E i \in 0..(n - 1) :
                       /\ row \in Rows(i, h, m, n, W)
                       /\ \A j \in 0..(n - 1) : row \in Rows(j, h, m, n, W) => j = i
  BY DEF Tiles
<1>1. PICK k \in 0..(n - 1) : row \in SlotBegin(k, m, n) .. (SlotEnd(k, m, n) - 1)
  BY SlotExists
<1>2. PICK i \in 0..(n - 1) : Slot(i, h, n, W) = k
  BY SlotSurjective
<1>3. row \in Rows(i, h, m, n, W)
  BY <1>1, <1>2 DEF Rows
<1>4. ASSUME NEW j \in 0..(n - 1), row \in Rows(j, h, m, n, W) PROVE j = i
  <2>1. PICK l \in 0..(n - 1) : l = Slot(j, h, n, W)
    BY SlotRange
  <2>2. row \in SlotBegin(l, m, n) .. (SlotEnd(l, m, n) - 1)
    BY <1>4, <2>1 DEF Rows
  <2>3. /\ SlotBegin(k, m, n) \in Nat /\ SlotEnd(k, m, n) \in Nat
        /\ SlotBegin(l, m, n) \in Nat /\ SlotEnd(l, m, n) \in Nat
    BY SlotWithin
  <2>4. ~(k < l)
    <3>1. SUFFICES ASSUME k < l PROVE FALSE
      OBVIOUS
    <3>2. SlotEnd(k, m, n) <= SlotBegin(l, m, n)
      BY <3>1, SlotsOrdered
    <3> QED BY <3>2, <2>2, <2>3, <1>1, SMT
  <2>5. ~(l < k)
    <3>1. SUFFICES ASSUME l < k PROVE FALSE
      OBVIOUS
    <3>2. SlotEnd(l, m, n) <= SlotBegin(k, m, n)
      BY <3>1, SlotsOrdered
    <3> QED BY <3>2, <2>2, <2>3, <1>1, SMT
  <2>6. k = l
    BY <2>4, <2>5, SMT
  <2> QED BY <2>1, <2>6, <1>2, SlotInjective
<1> QED BY <1>3, <1>4

\* If the sum wraps, by what is no multiple of n, two servers have one slot.
LEMMA SlotsCollide ==
    ASSUME NEW n \in Nat \ {0}, NEW W \in Nat \ {0}, NEW h \in 0..(W - 1), ~Unwrapped(h, n, W)
    PROVE  \E i, j \in 0..(n - 1) : i # j /\ Slot(i, h, n, W) = Slot(j, h, n, W)
<1> DEFINE L == W - h
           r == W % n
<1>1. PICK c \in Int : W = c * n + r
  <2>1. W \div n \in Int /\ W = (W \div n) * n + (W % n)
    BY DivFacts, W \in Int
  <2> QED BY <2>1, Zenon
<1>2. r \in 1..(n - 1) /\ L \in 1..(n - 1)
  <2>1. W % n \in 0..(n - 1)
    BY DivFacts, W \in Int
  <2>2. W % n # 0 /\ h + n > W
    BY DEF Unwrapped
  <2> QED BY <2>1, <2>2
<1> HIDE DEF r
<1>3. ASSUME NEW i \in 0..(n - 1), i < L PROVE (i + h) % W = i + h
  <2>1. i + h \in 0..(W - 1)
    BY <1>3
  <2> QED BY <2>1, NoWrap
<1>4. ASSUME NEW i \in L..(n - 1), i - L < W PROVE (i + h) % W = i - L
  <2>1. 1 * W + (i - L) = i + h /\ i - L \in 0..(W - 1)
    BY <1>2, <1>4
  <2>2. (1 * W + (i - L)) % W = i - L
    BY <2>1, DivUnique, 1 \in Int
  <2> QED BY <2>1, <2>2
<1>5. CASE r < L
  <2>1. L - r \in 0..(n - 1) /\ L - r < L /\ L - r # L
    BY <1>2, <1>5
  <2>2. Slot(L - r, h, n, W) = 0
    <3>1. (L - r) + h = c * n + 0
      <4>1. c * n \in Int
        BY <1>1, SMT
      <4> QED BY <1>1, <1>2, <4>1
    <3>2. (c * n + 0) % n = 0
      BY <1>1, DivUnique, 0 \in 0..(n - 1)
    <3>3. ((L - r) + h) % W = (L - r) + h
      BY <1>3, <2>1
    <3> QED BY <3>1, <3>2, <3>3 DEF Slot
  <2>3. Slot(L, h, n, W) = 0
    <3>1. (L + h) % W = 0
      <4>1. L \in L..(n - 1) /\ L - L < W /\ L - L = 0
        BY <1>2
      <4> QED BY <1>4, <4>1
    <3>2. 0 % n = 0
      BY NoWrap, 0 \in 0..(n - 1)
    <3> QED BY <3>1, <3>2 DEF Slot
  <2>4. L \in 0..(n - 1)
    BY <1>2
  <2> HIDE DEF L
  <2> QED BY <2>1, <2>2, <2>3, <2>4
<1>6. CASE r >= L
  <2>1. 0 \in 0..(n - 1) /\ r \in 0..(n - 1) /\ r # 0 /\ r - L \in 0..(n - 1)
    BY <1>2, <1>6
  <2>2. Slot(0, h, n, W) = r - L
    <3>1. 0 + h = c * n + (r - L)
      <4>1. c * n \in Int
        BY <1>1, SMT
      <4> QED BY <1>1, <1>2, <4>1
    <3>2. (c * n + (r - L)) % n = r - L
      BY <1>1, <2>1, DivUnique
    <3>3. (0 + h) % W = 0 + h
      BY <1>2, <1>3, <2>1
    <3> QED BY <3>1, <3>2, <3>3 DEF Slot
  <2>3. Slot(r, h, n, W) = r - L
    <3>1. r \in L..(n - 1)
      BY <1>2, <1>6
    <3>2. r - L < W
      <4>1. r <= W
        <5>1. W \div n \in Nat /\ W = (W \div n) * n + r
          BY DivFacts, W \in Int, W >= 0 DEF r
        <5>2. (W \div n) * n \in Nat
          BY <5>1, SMT
        <5> QED BY <1>2, <5>1, <5>2
      <4> QED BY <1>2, <4>1
    <3>3. (r + h) % W = r - L
      BY <1>4, <3>1, <3>2
    <3>4. (r - L) % n = r - L
      BY <2>1, NoWrap
    <3> QED BY <3>3, <3>4 DEF Slot
  <2> HIDE DEF L
  <2> QED BY <2>1, <2>2, <2>3
<1> QED BY <1>2, <1>5, <1>6

\* With a row for every server no slot is empty.
LEMMA SlotNotEmpty ==
    ASSUME NEW m \in Nat, NEW n \in Nat \ {0}, m >= n, NEW k \in 0..(n - 1)
    PROVE  SlotBegin(k, m, n) \in SlotBegin(k, m, n) .. (SlotEnd(k, m, n) - 1)
<1>1. PICK q \in Nat, r \in 0..(n - 1) :
         /\ m = q * n + r
         /\ \A i \in 0..(n - 1) :
               /\ SlotBegin(i, m, n) = q * i + (IF i < r THEN i ELSE r)
               /\ SlotEnd(i, m, n) = q * i + q + (IF i < r THEN i + 1 ELSE r)
  BY SlotValue
<1>2. q >= 1
  <2>1. SUFFICES ASSUME q = 0 PROVE FALSE
    OBVIOUS
  <2>2. q * n = 0
    BY <2>1, SMT
  <2> QED BY <1>1, <2>2, SMT
<1>3. q * k \in Int
  BY SMT
<1> QED BY <1>1, <1>2, <1>3, SMT

\* ComputePartitionShapesWithHash, exactly: for a hash that is a size_t and a tensor
\* with a row for every server, the slices tile the tensor if and only if the sum
\* of index and hash does not wrap for a server or the number of servers divides
\* the modulus.
THEOREM DenseTilesExactly ==
    ASSUME NEW m \in Nat, NEW n \in Nat \ {0}, m >= n,
           NEW W \in Nat \ {0}, NEW h \in 0..(W - 1)
    PROVE  Tiles(h, m, n, W) <=> Unwrapped(h, n, W)
<1>1. h \in Nat
  OBVIOUS
<1>2. ASSUME ~Unwrapped(h, n, W) PROVE ~Tiles(h, m, n, W)
  <2>1. PICK i \in 0..(n - 1), j \in 0..(n - 1) : i # j /\ Slot(i, h, n, W) = Slot(j, h, n, W)
    BY <1>2, SlotsCollide
  <2>2. PICK k \in 0..(n - 1) : k = Slot(i, h, n, W)
    BY <1>1, SlotRange
  <2> DEFINE row == SlotBegin(k, m, n)
  <2>3. row \in Rows(i, h, m, n, W) /\ row \in Rows(j, h, m, n, W)
    <3>1. row \in SlotBegin(k, m, n) .. (SlotEnd(k, m, n) - 1)
      BY SlotNotEmpty
    <3> QED BY <2>1, <2>2, <3>1 DEF Rows
  <2>4. row \in 0..(m - 1)
    BY <1>1, <2>3, DenseWithinTensor DEF WithinTensor
  <2> HIDE DEF row
  <2> QED BY <2>1, <2>3, <2>4 DEF Tiles
<1> QED BY <1>1, <1>2, DenseTiles

-----------------------------------------------------------------------------
(***************************************************************************)
(* The programs of the workers: those of all workers have as many          *)
(* barriers, and end with Finish.                                          *)
(***************************************************************************)
\* Barriers of a program.
Bars(s) == Cardinality({i \in 1..Len(s) : s[i] \in Barriers})

\* Barriers of a program can be counted,
LEMMA BarsFinite ==
    ASSUME NEW s \in Seq(Operations)
    PROVE  IsFiniteSet({i \in 1..Len(s) : s[i] \in Barriers}) /\ Bars(s) \in Nat
<1>1. IsFiniteSet(1..Len(s))
  BY FS_Interval
<1>2. IsFiniteSet({i \in 1..Len(s) : s[i] \in Barriers})
  BY <1>1, FS_Subset
<1> QED
  BY <1>2, FS_CardinalityType DEF Bars

\* add up,
LEMMA BarsConcat ==
    ASSUME NEW s \in Seq(Operations), NEW t \in Seq(Operations)
    PROVE  s \o t \in Seq(Operations) /\ Bars(s \o t) = Bars(s) + Bars(t)
<1> DEFINE A == {i \in 1..Len(s) : s[i] \in Barriers}
           B == {i \in 1..Len(t) : t[i] \in Barriers}
           C == {i \in 1..Len(s \o t) : (s \o t)[i] \in Barriers}
           D == {i \in C : i > Len(s)}
<1>0. /\ s \o t \in Seq(Operations) /\ Len(s \o t) = Len(s) + Len(t)
      /\ Len(s) \in Nat /\ Len(t) \in Nat
      /\ \A i \in 1..(Len(s) + Len(t)) :
            (s \o t)[i] = IF i <= Len(s) THEN s[i] ELSE t[i - Len(s)]
  BY ConcatProperties, LenProperties
<1>1. IsFiniteSet(A) /\ IsFiniteSet(B) /\ IsFiniteSet(C)
  BY <1>0, BarsFinite
<1>2. IsFiniteSet(D)
  BY <1>1, FS_Subset
<1>3. C = A \cup D /\ A \cap D = {}
  <2>1. ASSUME NEW i \in C PROVE i \in A \cup D
    BY <1>0
  <2>2. ASSUME NEW i \in A PROVE i \in C /\ i \notin D
    BY <1>0
  <2> QED
    BY <2>1, <2>2
<1>4. Cardinality(D) = Cardinality(B)
  <2> DEFINE f == [i \in B |-> i + Len(s)]
  <2>1. \A i \in B : f[i] \in D
    <3> SUFFICES ASSUME NEW i \in B PROVE i + Len(s) \in D
      OBVIOUS
    <3>1. /\ i + Len(s) \in 1..(Len(s) + Len(t)) /\ ~(i + Len(s) <= Len(s))
          /\ (i + Len(s)) - Len(s) = i
      BY <1>0
    <3> QED
      BY <1>0, <3>1
  <2>2. \A i, j \in B : f[i] = f[j] => i = j
    BY <1>0
  <2>3. \A d \in D : \E i \in B : f[i] = d
    <3> SUFFICES ASSUME NEW d \in D PROVE d - Len(s) \in B /\ (d - Len(s)) + Len(s) = d
      BY Zenon
    <3> QED
      BY <1>0
  <2>4. f \in Bijection(B, D)
    <3>1. f \in [B -> D]
      BY <2>1
    <3> HIDE DEF f, B, D
    <3> QED
      BY <2>2, <2>3, <3>1 DEF Bijection, Injection, Surjection, IsInjective
  <2>5. ExistsBijection(B, D)
    BY <2>4 DEF ExistsBijection
  <2> QED
    BY <1>1, <2>5, FS_Bijection
<1>5. Cardinality(C) = Cardinality(A) + Cardinality(D)
  <2>1. Cardinality(A \cap D) = 0
    BY <1>3, FS_EmptySet
  <2>2. Cardinality(A) \in Nat /\ Cardinality(D) \in Nat
    BY <1>1, <1>2, FS_CardinalityType
  <2> HIDE DEF A, B, C, D
  <2>3. Cardinality(A \cup D) = Cardinality(A) + Cardinality(D) - Cardinality(A \cap D)
    BY <1>1, <1>2, FS_Union
  <2> QED
    BY <1>3, <2>1, <2>2, <2>3
<1> QED
  BY <1>0, <1>4, <1>5 DEF Bars

\* one operation has one or none,
LEMMA BarsOne ==
    ASSUME NEW x \in Operations
    PROVE  <<x>> \in Seq(Operations) /\ Bars(<<x>>) = IF x \in Barriers THEN 1 ELSE 0
<1>1. {i \in 1..Len(<<x>>) : <<x>>[i] \in Barriers} = IF x \in Barriers THEN {1} ELSE {}
  OBVIOUS
<1>2. Cardinality({1}) = 1 /\ Cardinality({}) = 0
  BY FS_Singleton, FS_EmptySet
<1>3. <<x>> \in Seq(Operations)
  OBVIOUS
<1>4. CASE x \in Barriers
  BY <1>1, <1>2, <1>3, <1>4 DEF Bars
<1>5. CASE x \notin Barriers
  BY <1>1, <1>2, <1>3, <1>5 DEF Bars
<1> QED
  BY <1>4, <1>5

\* and what has no barrier has none.
LEMMA BarsNone ==
    ASSUME NEW s \in Seq(Operations \ Barriers)
    PROVE  s \in Seq(Operations) /\ Bars(s) = 0
<1>1. {i \in 1..Len(s) : s[i] \in Barriers} = {}
  OBVIOUS
<1>2. Cardinality({}) = 0
  BY FS_EmptySet
<1>3. s \in Seq(Operations)
  BY SeqMonotonic
<1> QED
  BY <1>1, <1>2, <1>3 DEF Bars

\* A step takes one away when it is a barrier.
LEMMA BarsTail ==
    ASSUME NEW s \in Seq(Operations), s # <<>>
    PROVE  /\ Tail(s) \in Seq(Operations) /\ Head(s) \in Operations
           /\ Bars(s) = Bars(Tail(s)) + IF Head(s) \in Barriers THEN 1 ELSE 0
<1>1. /\ Tail(s) \in Seq(Operations) /\ Head(s) \in Operations
      /\ Len(Tail(s)) = Len(s) - 1 /\ Len(s) \in Nat /\ Len(s) >= 1
      /\ \A i \in 1..(Len(s) - 1) : Tail(s)[i] = s[i + 1]
      /\ Head(s) = s[1]
  BY HeadTailProperties, LenProperties, EmptySeq
<1>2. s = <<Head(s)>> \o Tail(s)
  <2>1. <<Head(s)>> \in Seq(Operations) /\ Len(<<Head(s)>>) = 1 /\ <<Head(s)>>[1] = s[1]
    BY <1>1
  <2> DEFINE t == <<Head(s)>> \o Tail(s)
  <2>2. t \in Seq(Operations) /\ Len(t) = Len(s)
        /\ \A i \in 1..Len(s) : t[i] = IF i <= 1 THEN s[1] ELSE Tail(s)[i - 1]
    BY <1>1, <2>1, ConcatProperties
  <2>3. \A i \in 1..Len(s) : t[i] = s[i]
    BY <1>1, <2>2
  <2> HIDE DEF t
  <2>4. s = t
    BY <2>2, <2>3, SeqEqual
  <2> QED
    BY <2>4 DEF t
<1>3. Bars(s) = Bars(<<Head(s)>>) + Bars(Tail(s))
  BY <1>1, <1>2, BarsOne, BarsConcat
<1>4. Bars(Tail(s)) \in Nat
  BY <1>1, BarsFinite
<1> QED
  BY <1>1, <1>3, <1>4, BarsOne

\* The operations of save, and those of the program before Finish.
SaveOps == {"SparsePullMeta", "SparseSave", "DensePullMeta", "DenseSaveData", "DenseSaveState"}
PreOps == Operations \ SaveOps

\* Finish, spelled out.
Finish0 == <<"barrier", "SparsePruneOld", "barrier", "barrier",
             "SparsePullMeta", "SparseSave", "DensePullMeta", "DenseSaveData", "DenseSaveState",
             "barrier", "barrier", "SparsePruneSmall", "barrier", "barrier",
             "SparsePullReadOnly", "DensePull", "SparseExport", "synced">>
FinishOther == <<"barrier", "barrier", "barrier", "barrier", "barrier", "barrier", "barrier",
                 "SparsePullReadOnly", "DensePull", "synced">>
FinishList(w) == IF w = 0 THEN Finish0 ELSE FinishOther
FinishLen(w) == IF w = 0 THEN 18 ELSE 10

\* s is the first n elements of F.
Starts(s, n, F) ==
    s \in Seq(Operations) /\ Len(s) = n /\ \A i \in 1..n : s[i] = F[i]

\* A list is put together piece by piece.
LEMMA StartsMore ==
    ASSUME NEW F, NEW n \in Nat, NEW s, Starts(s, n, F), NEW m \in Nat,
           NEW t \in Seq(Operations), Len(t) = m, \A i \in 1..m : t[i] = F[n + i]
    PROVE  Starts(s \o t, n + m, F)
<1>1. s \in Seq(Operations) /\ Len(s) = n /\ \A i \in 1..n : s[i] = F[i]
  BY DEF Starts
<1>2. ASSUME NEW u, u = s \o t PROVE Starts(u, n + m, F)
  <2>1. /\ u \in Seq(Operations) /\ Len(u) = n + m
        /\ \A i \in 1..(n + m) : u[i] = IF i <= n THEN s[i] ELSE t[i - n]
    <3>1. /\ u \in Seq(Operations) /\ Len(u) = Len(s) + Len(t)
          /\ \A i \in 1..(Len(s) + Len(t)) :
                u[i] = IF i <= Len(s) THEN s[i] ELSE t[i - Len(s)]
      <4>1. s \in Seq(Operations)
        BY <1>1
      <4> QED
        BY <1>2, <4>1, ConcatProperties
    <3> QED
      BY <1>1, <3>1
  <2>2. ASSUME NEW i \in 1..(n + m), ~(i <= n) PROVE u[i] = F[i]
    <3>1. i - n \in 1..m /\ n + (i - n) = i
      BY <2>2
    <3>2. t[i - n] = F[n + (i - n)]
      BY <3>1
    <3> QED
      BY <2>1, <2>2, <3>1, <3>2
  <2>3. \A i \in 1..(n + m) : u[i] = F[i]
    BY <1>1, <2>1, <2>2
  <2> QED
    BY <2>1, <2>3 DEF Starts
<1> QED
  BY <1>2

\* Finish of worker 0, and of the others.
LEMMA FinishOf0 == Finish(0) = Finish0
<1> DEFINE F == Finish0
           s1 == <<"barrier">>
           s2 == s1 \o <<"SparsePruneOld">>
           s3 == s2 \o <<"barrier">>
           s4 == s3 \o <<"barrier">>
           s5 == s4 \o Save
           s6 == s5 \o <<"barrier">>
           s7 == s6 \o <<"barrier">>
           s8 == s7 \o <<"SparsePruneSmall">>
           s9 == s8 \o <<"barrier">>
           s10 == s9 \o <<"barrier", "SparsePullReadOnly", "DensePull">>
           s11 == s10 \o <<"SparseExport">>
           s12 == s11 \o <<"synced">>
<1>0. /\ <<"barrier">> \in Seq(Operations) /\ Len(<<"barrier">>) = 1
      /\ <<"SparsePruneOld">> \in Seq(Operations) /\ Len(<<"SparsePruneOld">>) = 1
      /\ Save \in Seq(Operations) /\ Len(Save) = 5
      /\ <<"SparsePruneSmall">> \in Seq(Operations) /\ Len(<<"SparsePruneSmall">>) = 1
      /\ <<"barrier", "SparsePullReadOnly", "DensePull">> \in Seq(Operations)
      /\ Len(<<"barrier", "SparsePullReadOnly", "DensePull">>) = 3
      /\ <<"SparseExport">> \in Seq(Operations) /\ Len(<<"SparseExport">>) = 1
      /\ <<"synced">> \in Seq(Operations) /\ Len(<<"synced">>) = 1
  BY DEF Save, Operations, Barriers
<1>1. Starts(s1, 1, F)
  BY <1>0 DEF Starts, Finish0
<1>2. Starts(s2, 2, F)
  <2>1. \A i \in 1..1 : <<"SparsePruneOld">>[i] = F[1 + i]
    BY DEF Finish0
  <2> HIDE DEF F, s1
  <2>2. Starts(s2, 1 + 1, F)
    BY <1>0, <1>1, <2>1, StartsMore
  <2> QED
    BY <2>2
<1>3. Starts(s3, 3, F)
  <2>1. \A i \in 1..1 : <<"barrier">>[i] = F[2 + i]
    BY DEF Finish0
  <2> HIDE DEF F, s2
  <2>2. Starts(s3, 2 + 1, F)
    BY <1>0, <1>2, <2>1, StartsMore
  <2> QED
    BY <2>2
<1>4. Starts(s4, 4, F)
  <2>1. \A i \in 1..1 : <<"barrier">>[i] = F[3 + i]
    BY DEF Finish0
  <2> HIDE DEF F, s3
  <2>2. Starts(s4, 3 + 1, F)
    BY <1>0, <1>3, <2>1, StartsMore
  <2> QED
    BY <2>2
<1>5. Starts(s5, 9, F)
  <2>1. \A i \in 1..5 : Save[i] = F[4 + i]
    BY DEF Save, Finish0
  <2> HIDE DEF F, s4
  <2>2. Starts(s5, 4 + 5, F)
    BY <1>0, <1>4, <2>1, StartsMore
  <2> QED
    BY <2>2
<1>6. Starts(s6, 10, F)
  <2>1. \A i \in 1..1 : <<"barrier">>[i] = F[9 + i]
    BY DEF Finish0
  <2> HIDE DEF F, s5
  <2>2. Starts(s6, 9 + 1, F)
    BY <1>0, <1>5, <2>1, StartsMore
  <2> QED
    BY <2>2
<1>7. Starts(s7, 11, F)
  <2>1. \A i \in 1..1 : <<"barrier">>[i] = F[10 + i]
    BY DEF Finish0
  <2> HIDE DEF F, s6
  <2>2. Starts(s7, 10 + 1, F)
    BY <1>0, <1>6, <2>1, StartsMore
  <2> QED
    BY <2>2
<1>8. Starts(s8, 12, F)
  <2>1. \A i \in 1..1 : <<"SparsePruneSmall">>[i] = F[11 + i]
    BY DEF Finish0
  <2> HIDE DEF F, s7
  <2>2. Starts(s8, 11 + 1, F)
    BY <1>0, <1>7, <2>1, StartsMore
  <2> QED
    BY <2>2
<1>9. Starts(s9, 13, F)
  <2>1. \A i \in 1..1 : <<"barrier">>[i] = F[12 + i]
    BY DEF Finish0
  <2> HIDE DEF F, s8
  <2>2. Starts(s9, 12 + 1, F)
    BY <1>0, <1>8, <2>1, StartsMore
  <2> QED
    BY <2>2
<1>10. Starts(s10, 16, F)
  <2>1. \A i \in 1..3 : <<"barrier", "SparsePullReadOnly", "DensePull">>[i] = F[13 + i]
    BY DEF Finish0
  <2> HIDE DEF F, s9
  <2>2. Starts(s10, 13 + 3, F)
    BY <1>0, <1>9, <2>1, StartsMore
  <2> QED
    BY <2>2
<1>11. Starts(s11, 17, F)
  <2>1. \A i \in 1..1 : <<"SparseExport">>[i] = F[16 + i]
    BY DEF Finish0
  <2> HIDE DEF F, s10
  <2>2. Starts(s11, 16 + 1, F)
    BY <1>0, <1>10, <2>1, StartsMore
  <2> QED
    BY <2>2
<1>12. Starts(s12, 18, F)
  <2>1. \A i \in 1..1 : <<"synced">>[i] = F[17 + i]
    BY DEF Finish0
  <2> HIDE DEF F, s11
  <2>2. Starts(s12, 17 + 1, F)
    BY <1>0, <1>11, <2>1, StartsMore
  <2> QED
    BY <2>2
<1> HIDE DEF s12
<1>13. s12 = F
  BY <1>12 DEF Starts, Finish0
<1> QED
  BY <1>13 DEF Finish, Rank0, s12

LEMMA FinishOfOthers ==
    ASSUME NEW w, w # 0
    PROVE  Finish(w) = FinishOther
<1> DEFINE F == FinishOther
           s1 == <<"barrier">>
           s2 == s1 \o <<>>
           s3 == s2 \o <<"barrier">>
           s4 == s3 \o <<"barrier">>
           s5 == s4 \o <<>>
           s6 == s5 \o <<"barrier">>
           s7 == s6 \o <<"barrier">>
           s8 == s7 \o <<>>
           s9 == s8 \o <<"barrier">>
           s10 == s9 \o <<"barrier", "SparsePullReadOnly", "DensePull">>
           s11 == s10 \o <<>>
           s12 == s11 \o <<"synced">>
<1>0. /\ <<"barrier">> \in Seq(Operations) /\ Len(<<"barrier">>) = 1
      /\ <<>> \in Seq(Operations) /\ Len(<<>>) = 0
      /\ <<"barrier", "SparsePullReadOnly", "DensePull">> \in Seq(Operations)
      /\ Len(<<"barrier", "SparsePullReadOnly", "DensePull">>) = 3
      /\ <<"synced">> \in Seq(Operations) /\ Len(<<"synced">>) = 1
  BY DEF Operations, Barriers
<1>1. Starts(s1, 1, F)
  BY <1>0 DEF Starts, FinishOther
<1>2. Starts(s2, 1, F)
  <2>1. \A i \in 1..0 : <<>>[i] = F[1 + i]
    BY DEF FinishOther
  <2> HIDE DEF F, s1
  <2>2. Starts(s2, 1 + 0, F)
    BY <1>0, <1>1, <2>1, StartsMore
  <2> QED
    BY <2>2
<1>3. Starts(s3, 2, F)
  <2>1. \A i \in 1..1 : <<"barrier">>[i] = F[1 + i]
    BY DEF FinishOther
  <2> HIDE DEF F, s2
  <2>2. Starts(s3, 1 + 1, F)
    BY <1>0, <1>2, <2>1, StartsMore
  <2> QED
    BY <2>2
<1>4. Starts(s4, 3, F)
  <2>1. \A i \in 1..1 : <<"barrier">>[i] = F[2 + i]
    BY DEF FinishOther
  <2> HIDE DEF F, s3
  <2>2. Starts(s4, 2 + 1, F)
    BY <1>0, <1>3, <2>1, StartsMore
  <2> QED
    BY <2>2
<1>5. Starts(s5, 3, F)
  <2>1. \A i \in 1..0 : <<>>[i] = F[3 + i]
    BY DEF FinishOther
  <2> HIDE DEF F, s4
  <2>2. Starts(s5, 3 + 0, F)
    BY <1>0, <1>4, <2>1, StartsMore
  <2> QED
    BY <2>2
<1>6. Starts(s6, 4, F)
  <2>1. \A i \in 1..1 : <<"barrier">>[i] = F[3 + i]
    BY DEF FinishOther
  <2> HIDE DEF F, s5
  <2>2. Starts(s6, 3 + 1, F)
    BY <1>0, <1>5, <2>1, StartsMore
  <2> QED
    BY <2>2
<1>7. Starts(s7, 5, F)
  <2>1. \A i \in 1..1 : <<"barrier">>[i] = F[4 + i]
    BY DEF FinishOther
  <2> HIDE DEF F, s6
  <2>2. Starts(s7, 4 + 1, F)
    BY <1>0, <1>6, <2>1, StartsMore
  <2> QED
    BY <2>2
<1>8. Starts(s8, 5, F)
  <2>1. \A i \in 1..0 : <<>>[i] = F[5 + i]
    BY DEF FinishOther
  <2> HIDE DEF F, s7
  <2>2. Starts(s8, 5 + 0, F)
    BY <1>0, <1>7, <2>1, StartsMore
  <2> QED
    BY <2>2
<1>9. Starts(s9, 6, F)
  <2>1. \A i \in 1..1 : <<"barrier">>[i] = F[5 + i]
    BY DEF FinishOther
  <2> HIDE DEF F, s8
  <2>2. Starts(s9, 5 + 1, F)
    BY <1>0, <1>8, <2>1, StartsMore
  <2> QED
    BY <2>2
<1>10. Starts(s10, 9, F)
  <2>1. \A i \in 1..3 : <<"barrier", "SparsePullReadOnly", "DensePull">>[i] = F[6 + i]
    BY DEF FinishOther
  <2> HIDE DEF F, s9
  <2>2. Starts(s10, 6 + 3, F)
    BY <1>0, <1>9, <2>1, StartsMore
  <2> QED
    BY <2>2
<1>11. Starts(s11, 9, F)
  <2>1. \A i \in 1..0 : <<>>[i] = F[9 + i]
    BY DEF FinishOther
  <2> HIDE DEF F, s10
  <2>2. Starts(s11, 9 + 0, F)
    BY <1>0, <1>10, <2>1, StartsMore
  <2> QED
    BY <2>2
<1>12. Starts(s12, 10, F)
  <2>1. \A i \in 1..1 : <<"synced">>[i] = F[9 + i]
    BY DEF FinishOther
  <2> HIDE DEF F, s11
  <2>2. Starts(s12, 9 + 1, F)
    BY <1>0, <1>11, <2>1, StartsMore
  <2> QED
    BY <2>2
<1> HIDE DEF s12
<1>13. s12 = F
  BY <1>12 DEF Starts, FinishOther
<1> QED
  BY <1>13 DEF Finish, Rank0, s12

LEMMA FinishIsList ==
    ASSUME NEW w
    PROVE  /\ Finish(w) = FinishList(w) /\ FinishList(w) \in Seq(Operations)
           /\ Len(FinishList(w)) = FinishLen(w) /\ FinishLen(w) \in Nat
<1>1. Finish0 \in Seq(Operations) /\ Len(Finish0) = 18
  BY DEF Finish0, Operations, Barriers
<1>2. FinishOther \in Seq(Operations) /\ Len(FinishOther) = 10
  BY DEF FinishOther, Operations, Barriers
<1> QED
  BY <1>1, <1>2, FinishOf0, FinishOfOthers DEF FinishList, FinishLen

\* A cardinality, one element after another.
LEMMA TwoElements ==
    ASSUME NEW a \in Nat, NEW b \in Nat, a < b
    PROVE  Cardinality({a, b}) = 2
<1>0. a \notin {b}
  OBVIOUS
<1>1. IsFiniteSet({b}) /\ Cardinality({b}) = 1
  BY FS_Singleton
<1>2. Cardinality({b} \cup {a}) = 2
  BY <1>0, <1>1, FS_AddElement
<1>3. {b} \cup {a} = {a, b}
  OBVIOUS
<1> QED
  BY <1>2, <1>3

LEMMA FiveElements ==
    ASSUME NEW a \in Nat, NEW b \in Nat, NEW c \in Nat, NEW d \in Nat, NEW e \in Nat,
           a < b, b < c, c < d, d < e
    PROVE  IsFiniteSet({a, b, c, d, e}) /\ Cardinality({a, b, c, d, e}) = 5
<1> DEFINE S == {e}
           T == S \cup {d}
           U == T \cup {c}
           V == U \cup {b}
<1>1. IsFiniteSet(S) /\ Cardinality(S) = 1
  BY FS_Singleton
<1>2. d \notin S /\ c \notin T /\ b \notin U /\ a \notin V /\ V \cup {a} = {a, b, c, d, e}
  OBVIOUS
<1> HIDE DEF S
<1>3. IsFiniteSet(T) /\ Cardinality(T) = 2
  BY <1>1, <1>2, FS_AddElement
<1> HIDE DEF T
<1>4. IsFiniteSet(U) /\ Cardinality(U) = 3
  BY <1>2, <1>3, FS_AddElement
<1> HIDE DEF U
<1>5. IsFiniteSet(V) /\ Cardinality(V) = 4
  BY <1>2, <1>4, FS_AddElement
<1> HIDE DEF V
<1>6. IsFiniteSet(V \cup {a}) /\ Cardinality(V \cup {a}) = 5
  BY <1>2, <1>5, FS_AddElement
<1> QED
  BY <1>2, <1>6

LEMMA EightElements ==
    ASSUME NEW a \in Nat, NEW b \in Nat, NEW c \in Nat, NEW d \in Nat, NEW e \in Nat,
           NEW f \in Nat, NEW g \in Nat, NEW h \in Nat,
           a < b, b < c, c < d, d < e, e < f, f < g, g < h
    PROVE  Cardinality({a, b, c, d, e, f, g, h}) = 8
<1> DEFINE S == {d, e, f, g, h}
           T == S \cup {c}
           U == T \cup {b}
<1>1. IsFiniteSet(S) /\ Cardinality(S) = 5
  BY FiveElements
<1>2. c \notin S /\ b \notin T /\ a \notin U /\ U \cup {a} = {a, b, c, d, e, f, g, h}
  OBVIOUS
<1> HIDE DEF S
<1>3. IsFiniteSet(T) /\ Cardinality(T) = 6
  BY <1>1, <1>2, FS_AddElement
<1> HIDE DEF T
<1>4. IsFiniteSet(U) /\ Cardinality(U) = 7
  BY <1>2, <1>3, FS_AddElement
<1> HIDE DEF U
<1>5. Cardinality(U \cup {a}) = 8
  BY <1>2, <1>4, FS_AddElement
<1> QED
  BY <1>2, <1>5

\* Finish has as many barriers for every worker.
LEMMA FinishBars ==
    ASSUME NEW w
    PROVE  Bars(FinishList(w)) = 8
<1>1. Bars(Finish0) = 8
  <2>1. {i \in 1..18 : Finish0[i] \in Barriers} = {1, 3, 4, 10, 11, 13, 14, 18}
    BY DEF Finish0, Barriers
  <2>2. Len(Finish0) = 18
    BY DEF Finish0
  <2>3. Cardinality({1, 3, 4, 10, 11, 13, 14, 18}) = 8
    BY EightElements
  <2> QED
    BY <2>1, <2>2, <2>3 DEF Bars
<1>2. Bars(FinishOther) = 8
  <2>1. {i \in 1..10 : FinishOther[i] \in Barriers} = {1, 2, 3, 4, 5, 6, 7, 10}
    BY DEF FinishOther, Barriers
  <2>2. Len(FinishOther) = 10
    BY DEF FinishOther
  <2>3. Cardinality({1, 2, 3, 4, 5, 6, 7, 10}) = 8
    BY EightElements
  <2> QED
    BY <2>1, <2>2, <2>3 DEF Bars
<1> QED
  BY <1>1, <1>2 DEF FinishList

\* What is left of a program, counted from its end: Finish comes last.
Ends(w, s) ==
    /\ s \in Seq(Operations)
    /\ \A j \in 1..Len(s) :
          /\ j <= FinishLen(w) => s[Len(s) + 1 - j] = FinishList(w)[FinishLen(w) + 1 - j]
          /\ j > FinishLen(w) => s[Len(s) + 1 - j] \in PreOps

\* What is left after an operation still ends with Finish.
LEMMA EndsTail ==
    ASSUME NEW w, NEW s, Ends(w, s), s # <<>>
    PROVE  Ends(w, Tail(s))
<1>1. s \in Seq(Operations)
  BY DEF Ends
<1>2. /\ Tail(s) \in Seq(Operations) /\ Len(Tail(s)) = Len(s) - 1 /\ Len(s) \in Nat
      /\ \A i \in 1..(Len(s) - 1) : Tail(s)[i] = s[i + 1]
  BY <1>1, HeadTailProperties, LenProperties, EmptySeq
<1>3. ASSUME NEW j \in 1..(Len(s) - 1)
      PROVE  Tail(s)[Len(s) - j] = s[Len(s) + 1 - j]
  <2>1. Len(s) - j \in 1..(Len(s) - 1) /\ (Len(s) - j) + 1 = Len(s) + 1 - j
    BY <1>2
  <2> QED
    BY <1>2, <2>1
<1> SUFFICES ASSUME NEW j \in 1..Len(Tail(s))
             PROVE  /\ j <= FinishLen(w) => Tail(s)[Len(Tail(s)) + 1 - j]
                                              = FinishList(w)[FinishLen(w) + 1 - j]
                    /\ j > FinishLen(w) => Tail(s)[Len(Tail(s)) + 1 - j] \in PreOps
  BY <1>2 DEF Ends
<1>4. j \in 1..(Len(s) - 1) /\ j \in 1..Len(s) /\ Len(Tail(s)) + 1 - j = Len(s) - j
  BY <1>2
<1> QED
  BY <1>3, <1>4 DEF Ends

\* The present operation, by the number of those left.
LEMMA EndsHead ==
    ASSUME NEW w, NEW s, Ends(w, s), s # <<>>
    PROVE  /\ Len(s) \in Nat /\ Len(s) >= 1 /\ Head(s) = s[1]
           /\ Len(s) <= FinishLen(w) => Head(s) = FinishList(w)[FinishLen(w) + 1 - Len(s)]
           /\ Len(s) > FinishLen(w) => Head(s) \in PreOps
<1>1. s \in Seq(Operations)
  BY DEF Ends
<1>2. Len(s) \in Nat /\ Len(s) >= 1 /\ Head(s) = s[1]
  BY <1>1, HeadTailProperties, LenProperties, EmptySeq
<1>3. Len(s) \in 1..Len(s) /\ Len(s) + 1 - Len(s) = 1
  BY <1>2
<1> QED
  BY <1>2, <1>3 DEF Ends

\* Worker 0 is in save: five barriers are left.
LEMMA SaveBars ==
    ASSUME NEW s, Ends(0, s), s # <<>>, Head(s) \in SaveOps
    PROVE  /\ Len(s) \in 10..14 /\ Bars(s) = 5
           /\ Head(s) = Finish0[19 - Len(s)]
<1>1. /\ Len(s) \in Nat /\ Len(s) >= 1
      /\ Len(s) <= 18 => Head(s) = Finish0[18 + 1 - Len(s)]
      /\ Len(s) > 18 => Head(s) \in PreOps
  BY EndsHead DEF FinishLen, FinishList
<1>2. PICK n \in Nat : n = Len(s) /\ n >= 1
  BY <1>1
<1>3. n <= 18 /\ Head(s) = Finish0[19 - n]
  <2>1. n <= 18
    BY <1>1, <1>2 DEF PreOps
  <2>2. 18 + 1 - n = 19 - n
    OBVIOUS
  <2> QED
    BY <1>1, <1>2, <2>1, <2>2
<1>4. n \in 10..14
  <2>1. \A i \in 1..18 : Finish0[i] \in SaveOps => i \in 5..9
    BY DEF Finish0, SaveOps
  <2>2. 19 - n \in 1..18
    <3>1. n >= 1 /\ n <= 18
      BY <1>2, <1>3
    <3> QED
      BY <3>1
  <2>3. 19 - n \in 5..9
    BY <1>3, <2>1, <2>2
  <2> QED
    BY <2>3
<1>5. ASSUME NEW i \in 1..n PROVE s[i] = Finish0[18 - n + i]
  <2> DEFINE j == n + 1 - i
  <2>1. j \in 1..n /\ n + 1 - j = i /\ j <= 18 /\ 18 + 1 - j = 18 - n + i
    BY <1>4
  <2> HIDE DEF j
  <2>2. s[n + 1 - j] = Finish0[18 + 1 - j]
    BY <1>2, <2>1 DEF Ends, FinishLen, FinishList
  <2> QED
    BY <2>1, <2>2
<1>6. \A i \in 1..18 : Finish0[i] \in Barriers <=> i \in {1, 3, 4, 10, 11, 13, 14, 18}
  BY DEF Finish0, Barriers
<1>7. {i \in 1..n : s[i] \in Barriers} = {n - 8, n - 7, n - 5, n - 4, n}
  <2>1. ASSUME NEW i \in 1..n
        PROVE  s[i] \in Barriers <=> i \in {n - 8, n - 7, n - 5, n - 4, n}
    <3>1. 18 - n + i \in 5..18
      BY <1>4
    <3>2. Finish0[18 - n + i] \in Barriers <=> 18 - n + i \in {1, 3, 4, 10, 11, 13, 14, 18}
      BY <1>6, <3>1
    <3>3. 18 - n + i \in {1, 3, 4, 10, 11, 13, 14, 18}
            <=> i \in {n - 8, n - 7, n - 5, n - 4, n}
      BY <1>4, <3>1
    <3> QED
      BY <1>5, <3>2, <3>3
  <2>2. {n - 8, n - 7, n - 5, n - 4, n} \subseteq 1..n
    BY <1>4
  <2> QED
    BY <2>1, <2>2
<1>8. Cardinality({n - 8, n - 7, n - 5, n - 4, n}) = 5
  <2>1. n - 8 \in Nat /\ n - 7 \in Nat /\ n - 5 \in Nat /\ n - 4 \in Nat
    BY <1>4
  <2>2. n - 8 < n - 7 /\ n - 7 < n - 5 /\ n - 5 < n - 4 /\ n - 4 < n
    OBVIOUS
  <2> QED
    BY <2>1, <2>2, FiveElements
<1> QED
  BY <1>2, <1>3, <1>4, <1>7, <1>8 DEF Bars

\* When five are left another worker is at one of them.
LEMMA OthersAtBarrier ==
    ASSUME NEW w, w # 0, NEW s, Ends(w, s), Bars(s) = 5
    PROVE  s # <<>> /\ Head(s) \in Barriers
<1> DEFINE B == {i \in 1..Len(s) : s[i] \in Barriers}
<1>1. s \in Seq(Operations)
  BY DEF Ends
<1>2. IsFiniteSet(B) /\ Cardinality(B) = 5 /\ Len(s) \in Nat
  BY <1>1, BarsFinite, LenProperties DEF Bars
<1>3. Len(s) > 3
  <2>1. IsFiniteSet(1..Len(s)) /\ Cardinality(1..Len(s)) = Len(s)
    <3>1. PICK n \in Nat : n = Len(s)
      BY <1>2
    <3>2. IsFiniteSet(1..n) /\ Cardinality(1..n) = IF 1 > n THEN 0 ELSE n - 1 + 1
      <4>1. 1 \in Int /\ n \in Int
        OBVIOUS
      <4> QED
        BY ONLY <4>1, FS_Interval
    <3>3. (IF 1 > n THEN 0 ELSE n - 1 + 1) = n
      OBVIOUS
    <3> QED
      BY <3>1, <3>2, <3>3
  <2>2. B \subseteq 1..Len(s)
    OBVIOUS
  <2> HIDE DEF B
  <2>3. Cardinality(B) <= Len(s)
    BY <2>1, <2>2, FS_Subset
  <2> QED
    BY <1>2, <2>3
<1>4. s # <<>>
  BY <1>1, <1>3, EmptySeq
<1>5. Len(s) <= 10
  <2> SUFFICES ASSUME Len(s) > 10 PROVE FALSE
    BY <1>2
  <2> DEFINE I == (Len(s) - 9)..(Len(s) - 3)
  <2>1. IsFiniteSet(I) /\ Cardinality(I) = 7
    <3>1. Len(s) - 9 \in Int /\ Len(s) - 3 \in Int
      BY <1>2
    <3>2. Cardinality(I) = IF Len(s) - 9 > Len(s) - 3 THEN 0 ELSE (Len(s) - 3) - (Len(s) - 9) + 1
      BY <3>1, FS_Interval
    <3>3. IsFiniteSet(I)
      BY <3>1, FS_Interval
    <3> QED
      BY <1>2, <3>2, <3>3
  <2>2. I \subseteq B
    <3> SUFFICES ASSUME NEW i \in I PROVE i \in B
      OBVIOUS
    <3>1. /\ i \in 1..Len(s) /\ Len(s) + 1 - i \in 1..Len(s)
          /\ Len(s) + 1 - (Len(s) + 1 - i) = i /\ Len(s) + 1 - i <= 10
          /\ 10 + 1 - (Len(s) + 1 - i) \in 1..7
      BY <1>2
    <3>2. s[i] = FinishOther[10 + 1 - (Len(s) + 1 - i)]
      BY <3>1 DEF Ends, FinishLen, FinishList
    <3>3. \A j \in 1..7 : FinishOther[j] \in Barriers
      BY DEF FinishOther, Barriers
    <3> QED
      BY <3>1, <3>2, <3>3
  <2> HIDE DEF B, I
  <2>3. Cardinality(I) <= Cardinality(B)
    BY <1>2, <2>1, <2>2, FS_Subset
  <2> QED
    BY <1>2, <2>1, <2>3
<1>6. Head(s) = FinishOther[10 + 1 - Len(s)]
  BY <1>4, <1>5, EndsHead DEF FinishLen, FinishList
<1>7. 10 + 1 - Len(s) \in 1..7
  BY <1>2, <1>3, <1>5
<1>8. \A j \in 1..7 : FinishOther[j] \in Barriers
  BY DEF FinishOther, Barriers
<1> QED
  BY <1>4, <1>6, <1>7, <1>8

\* Another worker has no operation of save.
LEMMA OthersDoNotSave ==
    ASSUME NEW w, w # 0, NEW s, Ends(w, s), s # <<>>
    PROVE  Head(s) \notin SaveOps
<1>1. /\ Len(s) \in Nat /\ Len(s) >= 1
      /\ Len(s) <= 10 => Head(s) = FinishOther[10 + 1 - Len(s)]
      /\ Len(s) > 10 => Head(s) \in PreOps
  BY EndsHead DEF FinishLen, FinishList
<1>2. PICK n \in Nat : n = Len(s) /\ n >= 1
  BY <1>1
<1>3. CASE n <= 10
  <2>1. \A j \in 1..10 : FinishOther[j] \notin SaveOps
    BY DEF FinishOther, SaveOps
  <2>2. 10 + 1 - n \in 1..10
    BY <1>2, <1>3
  <2>3. Head(s) = FinishOther[10 + 1 - n]
    BY <1>1, <1>2, <1>3
  <2> QED
    BY <2>1, <2>2, <2>3
<1>4. CASE n > 10
  BY <1>1, <1>2, <1>4 DEF PreOps
<1> QED
  BY <1>3, <1>4

\* A part of a program before Finish, with b barriers.
Piece(s, b) == s \in Seq(PreOps) /\ Bars(s) = b

\* Parts are put together.
LEMMA PieceConcat ==
    ASSUME NEW s, NEW t, NEW b \in Nat, NEW c \in Nat, Piece(s, b), Piece(t, c)
    PROVE  Piece(s \o t, b + c)
<1>1. s \in Seq(PreOps) /\ t \in Seq(PreOps)
  BY DEF Piece
<1>2. s \o t \in Seq(PreOps)
  BY <1>1, ConcatProperties
<1>3. s \in Seq(Operations) /\ t \in Seq(Operations)
  <2>1. PreOps \subseteq Operations
    BY DEF PreOps
  <2> QED
    BY <1>1, <2>1, SeqMonotonic
<1>4. Bars(s \o t) = Bars(s) + Bars(t)
  BY <1>3, BarsConcat
<1> QED
  BY <1>2, <1>4 DEF Piece

LEMMA PieceNone ==
    ASSUME NEW s \in Seq(PreOps \ Barriers)
    PROVE  Piece(s, 0)
<1>1. PreOps \ Barriers \subseteq PreOps /\ PreOps \ Barriers \subseteq Operations \ Barriers
  BY DEF PreOps
<1>2. s \in Seq(PreOps) /\ s \in Seq(Operations \ Barriers)
  BY <1>1, SeqMonotonic
<1> QED
  BY <1>2, BarsNone DEF Piece

LEMMA PieceOne ==
    ASSUME NEW x \in PreOps
    PROVE  Piece(<<x>>, IF x \in Barriers THEN 1 ELSE 0)
<1>1. x \in Operations /\ <<x>> \in Seq(PreOps)
  BY DEF PreOps
<1> QED
  BY <1>1, BarsOne DEF Piece

\* What worker 0 does alone, and what is done on a condition.
LEMMA PieceMaybe ==
    ASSUME NEW w, NEW c, NEW s, Piece(s, 0)
    PROVE  Piece(Rank0(w, s), 0) /\ Piece(If(c, s), 0)
<1>1. Piece(<<>>, 0)
  <2>1. <<>> \in Seq(PreOps \ Barriers)
    OBVIOUS
  <2> QED
    BY <2>1, PieceNone
<1> QED
  BY <1>1 DEF Rank0, If

\* The parts of a program: barriers are the same for every worker.
LEMMA PieceInitialize ==
    ASSUME NEW w
    PROVE  Piece(Initialize(w), 4)
<1> DEFINE a == <<"barrier", "SparseInit", "DenseInit", "barrier">>
           b == Rank0(w, <<"DensePushValue">>)
           c == <<"barrier", "DensePull", "synced">>
<1>1. Piece(a, 2)
  <2>1. a \in Seq(PreOps)
    BY DEF PreOps, Operations, Barriers, SaveOps
  <2>2. {i \in 1..4 : a[i] \in Barriers} = {1, 4} /\ Len(a) = 4
    BY DEF Barriers
  <2>3. Cardinality({1, 4}) = 2
    BY TwoElements
  <2> HIDE DEF a
  <2> QED
    BY <2>1, <2>2, <2>3 DEF Piece, Bars
<1>2. Piece(b, 0)
  <2>1. <<"DensePushValue">> \in Seq(PreOps \ Barriers)
    BY DEF PreOps, Operations, Barriers, SaveOps
  <2> QED
    BY <2>1, PieceNone, PieceMaybe
<1>3. Piece(c, 2)
  <2>1. c \in Seq(PreOps)
    BY DEF PreOps, Operations, Barriers, SaveOps
  <2>2. {i \in 1..3 : c[i] \in Barriers} = {1, 3} /\ Len(c) = 3
    BY DEF Barriers
  <2>3. Cardinality({1, 3}) = 2
    BY TwoElements
  <2> HIDE DEF c
  <2> QED
    BY <2>1, <2>2, <2>3 DEF Piece, Bars
<1> HIDE DEF a, b, c
<1>4. Piece(a \o b, 2 + 0)
  BY <1>1, <1>2, PieceConcat
<1>5. Piece(a \o b \o c, 2 + 2)
  BY <1>3, <1>4, PieceConcat
<1> QED
  BY <1>5 DEF Initialize, a, b, c

LEMMA PieceTrain ==
    ASSUME NEW w \in Workers
    PROVE  Piece(Train(w), 0)
<1> DEFINE n == 4 * Batches[w]
<1>1. n \in Nat
  BY TrainerAssumption DEF Workers
<1>2. ASSUME NEW i \in 1..n PROVE Minibatch[((i - 1) % 4) + 1] \in PreOps \ Barriers
  <2>1. ((i - 1) % 4) + 1 \in 1..4
    BY <1>1
  <2>2. \A j \in 1..4 : Minibatch[j] \in PreOps \ Barriers
    BY DEF Minibatch, PreOps, Operations, Barriers, SaveOps
  <2> QED
    BY <2>1, <2>2
<1> HIDE DEF n
<1>3. [i \in 1..n |-> Minibatch[((i - 1) % 4) + 1]] \in Seq(PreOps \ Barriers)
  BY <1>1, <1>2
<1>4. Train(w) \in Seq(PreOps \ Barriers)
  BY <1>3 DEF Train, n
<1> QED
  BY <1>4, PieceNone

LEMMA PieceLoad ==
    ASSUME NEW w, NEW n, NEW old
    PROVE  Piece(Load(w, n, old), 4)
<1> DEFINE bar == <<"barrier">>
           a == Rank0(w, <<"SparseClear">>)
           b == <<"barrier", "SparseReadMeta">>
           c == Rank0(w, If(~KeepMeta, <<"SparsePushMeta">>))
           d == IF old = n THEN Rank0(w, <<"SparseLoad">>) ELSE <<"Import">>
           e == <<"DenseReadMeta">>
           f == Rank0(w, If(~KeepMeta, <<"DensePushMeta">>) \o <<"DenseLoadData">>
                             \o If(HasState, <<"DenseLoadState">>))
           g == <<"barrier", "DensePull", "synced">>
<1>1. /\ Piece(<<"SparseClear">>, 0) /\ Piece(<<"SparsePushMeta">>, 0)
      /\ Piece(<<"SparseLoad">>, 0) /\ Piece(<<"Import">>, 0) /\ Piece(<<"DenseReadMeta">>, 0)
      /\ Piece(<<"DensePushMeta">>, 0) /\ Piece(<<"DenseLoadData">>, 0)
      /\ Piece(<<"DenseLoadState">>, 0)
  <2>1. ASSUME NEW x \in PreOps \ Barriers PROVE Piece(<<x>>, 0)
    BY PieceOne
  <2>2. {"SparseClear", "SparsePushMeta", "SparseLoad", "Import", "DenseReadMeta",
         "DensePushMeta", "DenseLoadData", "DenseLoadState"} \subseteq PreOps \ Barriers
    BY DEF PreOps, Operations, Barriers, SaveOps
  <2> QED
    BY <2>1, <2>2
<1>2. Piece(bar, 1)
  <2>1. "barrier" \in PreOps /\ "barrier" \in Barriers
    BY DEF PreOps, Operations, Barriers, SaveOps
  <2> QED
    BY <2>1, PieceOne
<1>3. Piece(b, 1)
  <2>1. b \in Seq(PreOps)
    BY DEF PreOps, Operations, Barriers, SaveOps
  <2>2. {i \in 1..2 : b[i] \in Barriers} = {1} /\ Len(b) = 2
    BY DEF Barriers
  <2>3. Cardinality({1}) = 1
    BY FS_Singleton
  <2> HIDE DEF b
  <2> QED
    BY <2>1, <2>2, <2>3 DEF Piece, Bars
<1>4. Piece(g, 2)
  <2>1. g \in Seq(PreOps)
    BY DEF PreOps, Operations, Barriers, SaveOps
  <2>2. {i \in 1..3 : g[i] \in Barriers} = {1, 3} /\ Len(g) = 3
    BY DEF Barriers
  <2>3. Cardinality({1, 3}) = 2
    BY TwoElements
  <2> HIDE DEF g
  <2> QED
    BY <2>1, <2>2, <2>3 DEF Piece, Bars
<1>5. Piece(a, 0) /\ Piece(c, 0) /\ Piece(d, 0) /\ Piece(e, 0)
  BY <1>1, PieceMaybe
<1>6. Piece(f, 0)
  <2> DEFINE f1 == If(~KeepMeta, <<"DensePushMeta">>)
             f2 == <<"DenseLoadData">>
             f3 == If(HasState, <<"DenseLoadState">>)
  <2>1. Piece(f1, 0) /\ Piece(f2, 0) /\ Piece(f3, 0)
    BY <1>1, PieceMaybe
  <2> HIDE DEF f1, f2, f3
  <2>2. Piece(f1 \o f2, 0 + 0)
    BY <2>1, PieceConcat
  <2>3. Piece(f1 \o f2, 0)
    BY <2>2
  <2>4. Piece(f1 \o f2 \o f3, 0 + 0)
    BY <2>1, <2>3, PieceConcat
  <2>5. Piece(f1 \o f2 \o f3, 0)
    BY <2>4
  <2>6. Piece(Rank0(w, f1 \o f2 \o f3), 0)
    BY <2>5, PieceMaybe
  <2> QED
    BY <2>6 DEF f1, f2, f3
<1> HIDE DEF bar, a, b, c, d, e, f, g
<1>7. Piece(bar \o a, 1 + 0)
  BY <1>2, <1>5, PieceConcat
<1>8. Piece(bar \o a \o b, 1 + 1)
  BY <1>3, <1>7, PieceConcat
<1>9. Piece(bar \o a \o b \o c, 2 + 0)
  BY <1>5, <1>8, PieceConcat
<1>10. Piece(bar \o a \o b \o c \o d, 2 + 0)
  BY <1>5, <1>9, PieceConcat
<1>11. Piece(bar \o a \o b \o c \o d \o e, 2 + 0)
  BY <1>5, <1>10, PieceConcat
<1>12. Piece(bar \o a \o b \o c \o d \o e \o f, 2 + 0)
  BY <1>6, <1>11, PieceConcat
<1>13. Piece(bar \o a \o b \o c \o d \o e \o f \o g, 2 + 2)
  BY <1>4, <1>12, PieceConcat
<1> QED
  BY <1>13 DEF Load, bar, a, b, c, d, e, f, g

\* The programs: all workers have as many barriers, and Finish comes last.
LEMMA ProgramEnds ==
    ASSUME NEW w \in Workers, NEW n, NEW loads \in BOOLEAN, NEW old
    PROVE  /\ Ends(w, Program(w, n, loads, old))
           /\ Bars(Program(w, n, loads, old)) = IF loads THEN 16 ELSE 12
           /\ Program(w, n, loads, old) # <<>>
<1> DEFINE a == Initialize(w)
           b == If(loads, Load(w, n, old))
           c == Train(w)
           X == a \o b \o c
           m == IF loads THEN 4 ELSE 0
           F == FinishList(w)
           P == X \o F
<1>1. Piece(a, 4) /\ Piece(c, 0) /\ m \in Nat
  BY PieceInitialize, PieceTrain
<1>2. Piece(b, m)
  <2>1. Piece(<<>>, 0)
    <3>1. <<>> \in Seq(PreOps \ Barriers)
      OBVIOUS
    <3> QED
      BY <3>1, PieceNone
  <2>2. Piece(Load(w, n, old), 4)
    BY PieceLoad
  <2> QED
    BY <2>1, <2>2 DEF If
<1> HIDE DEF a, b, c
<1>3. Piece(X, 4 + m)
  <2> HIDE DEF m
  <2>1. Piece(a \o b, 4 + m)
    BY <1>1, <1>2, PieceConcat
  <2>2. Piece(a \o b \o c, (4 + m) + 0) /\ (4 + m) + 0 = 4 + m
    BY <1>1, <2>1, PieceConcat
  <2> QED
    BY <2>2
<1> HIDE DEF X
<1>4. X \in Seq(PreOps) /\ X \in Seq(Operations) /\ Bars(X) = 4 + m
  <2>1. PreOps \subseteq Operations
    BY DEF PreOps
  <2> QED
    BY <1>3, <2>1, SeqMonotonic DEF Piece
<1>5. /\ F \in Seq(Operations) /\ Len(F) = FinishLen(w) /\ FinishLen(w) \in Nat
      /\ F = Finish(w) /\ Bars(F) = 8
  BY FinishIsList, FinishBars
<1>6. P = Program(w, n, loads, old)
  BY <1>5 DEF Program, X, a, b, c
<1> HIDE DEF F, P
<1>7. P \in Seq(Operations) /\ Bars(P) = (4 + m) + 8
  BY <1>4, <1>5, BarsConcat DEF P
<1>8. PICK k \in Nat : k = Len(X)
  BY <1>4, LenProperties
<1>9. PICK l \in Nat : l = FinishLen(w) /\ l > 0
  BY DEF FinishLen
<1>10. /\ Len(P) = k + l
       /\ \A i \in 1..(k + l) : P[i] = IF i <= k THEN X[i] ELSE F[i - k]
  <2>1. /\ Len(P) = Len(X) + Len(F)
        /\ \A i \in 1..(Len(X) + Len(F)) : P[i] = IF i <= Len(X) THEN X[i] ELSE F[i - Len(X)]
    <3>1. X \in Seq(Operations) /\ F \in Seq(Operations)
      BY <1>4, <1>5
    <3> QED
      BY <3>1, ConcatProperties DEF P
  <2> QED
    BY <1>5, <1>8, <1>9, <2>1
<1>11. \A i \in 1..k : X[i] \in PreOps
  BY <1>4, <1>8, ElementOfSeq
<1>12. ASSUME NEW j \in 1..(k + l)
       PROVE  /\ j <= l => P[k + l + 1 - j] = F[l + 1 - j]
              /\ j > l => P[k + l + 1 - j] \in PreOps
  <2>1. CASE j <= l
    <3>1. /\ k + l + 1 - j \in 1..(k + l) /\ ~(k + l + 1 - j <= k)
          /\ (k + l + 1 - j) - k = l + 1 - j
      BY <2>1
    <3>2. P[k + l + 1 - j] = F[(k + l + 1 - j) - k]
      BY <1>10, <3>1
    <3> QED
      BY <2>1, <3>1, <3>2
  <2>2. CASE j > l
    <3>1. k + l + 1 - j \in 1..(k + l) /\ k + l + 1 - j <= k /\ k + l + 1 - j \in 1..k
      BY <2>2
    <3>2. P[k + l + 1 - j] = X[k + l + 1 - j]
      BY <1>10, <3>1
    <3> QED
      BY <1>11, <2>2, <3>1, <3>2
  <2> QED
    BY <2>1, <2>2
<1>13. Ends(w, P)
  BY <1>7, <1>9, <1>10, <1>12 DEF Ends, F
<1>14. P # <<>>
  <2>1. Len(P) # 0
    BY <1>9, <1>10
  <2> QED
    BY <1>7, <2>1, EmptySeq
<1> QED
  BY <1>6, <1>7, <1>13, <1>14

-----------------------------------------------------------------------------
(***************************************************************************)
(* Programs and requests.  All workers have as many barriers left; a       *)
(* worker that is at a barrier, or at its end, waits for no answer.        *)
(***************************************************************************)
ProgInv ==
    /\ prog \in [Workers -> Seq(Operations)]
    /\ \A w \in Workers : Ends(w, prog[w])
    /\ \A v, w \in Workers : Bars(prog[v]) = Bars(prog[w])

WaitInv ==
    /\ sent \in [Workers -> BOOLEAN]
    /\ todo \in [Workers -> SUBSET Servers]
    /\ \A w \in Workers : prog[w] = <<>> \/ Head(prog[w]) \in Barriers => ~sent[w]
    /\ \A w \in Workers : ~sent[w] => todo[w] = {}

OrderInv == ProgInv /\ WaitInv

\* What the steps of a worker and of a server do to these variables.
Busy(w) == prog[w] # <<>> /\ Head(prog[w]) = Op(w) /\ Op(w) \in Operations \ Barriers
Idles == UNCHANGED <<job, prog, sent, todo>>
Sends(w) ==
    /\ Busy(w)
    /\ sent' = [sent EXCEPT ![w] = TRUE] /\ todo' = [todo EXCEPT ![w] = Servers]
    /\ UNCHANGED <<job, prog>>
Comes(w) ==
    /\ Busy(w) /\ todo[w] = {}
    /\ sent' = [sent EXCEPT ![w] = FALSE]
    /\ prog' = prog \/ prog' = [prog EXCEPT ![w] = Tail(@)]
    /\ UNCHANGED <<job, todo>>
Answers(w, s) ==
    /\ todo' = [todo EXCEPT ![w] = @ \ {s}]
    /\ UNCHANGED <<job, prog, sent>>

LEMMA BusyOp ==
    ASSUME NEW w, Op(w) \in Operations \ Barriers
    PROVE  Busy(w)
BY NoneAssumption DEF Busy, Op

LEMMA OpsAreOperations ==
    {"SparseInit", "DenseInit", "DensePushValue", "DensePull", "SparseClear",
     "SparseReadMeta", "SparsePushMeta", "SparseLoad", "Import", "DenseReadMeta",
     "DensePushMeta", "DenseLoadData", "DenseLoadState", "SparsePull", "SparsePush",
     "DensePush", "SparsePruneOld", "SparsePullMeta", "SparseSave", "DensePullMeta",
     "DenseSaveData", "DenseSaveState", "SparsePruneSmall", "SparsePullReadOnly",
     "SparseExport"} \subseteq Operations \ Barriers
BY DEF Operations, Barriers

\* A step of a worker does one of three things to its program and requests.
LEMMA WorkerEffect ==
    ASSUME NEW w \in Workers, WaitInv, WorkerStep(w)
    PROVE  Idles \/ Sends(w) \/ Comes(w)
<1>0. sent \in [Workers -> BOOLEAN] /\ (~sent[w] => todo[w] = {})
  BY DEF WaitInv
<1>1. Fail(w) => Idles
  BY DEF Fail, Idles
<1>2. Send(w) /\ Op(w) \in Operations \ Barriers => Sends(w)
  BY BusyOp DEF Send, Sends
<1>3. Done(w) /\ Advance(w) /\ todo[w] = {} /\ Op(w) \in Operations \ Barriers => Comes(w)
  BY BusyOp DEF Done, Advance, Comes
<1>4. CASE SendSparsePull(w)
  BY <1>2, <1>4, OpsAreOperations DEF SendSparsePull, Calls
<1>5. CASE SendSparsePush(w)
  BY <1>2, <1>5, OpsAreOperations DEF SendSparsePush, Calls
<1>6. CASE SendDensePush(w)
  BY <1>2, <1>6, OpsAreOperations DEF SendDensePush, Calls
<1>7. CASE SendDensePushValue(w)
  BY <1>2, <1>7, OpsAreOperations DEF SendDensePushValue, Calls
<1>8. CASE SendSparseClear(w)
  BY <1>2, <1>8, OpsAreOperations DEF SendSparseClear, Calls
<1>9. CASE SendSparsePrune(w)
  BY <1>2, <1>9, OpsAreOperations DEF SendSparsePrune, Calls
<1>10. CASE SendOther(w)
  BY <1>2, <1>10, OpsAreOperations DEF SendOther, Requests
<1>11. CASE SendDenseLoad(w)
  <2>1. PICK part \in {<<"DenseLoadData", disk.data>>, <<"DenseLoadState", disk.state>>} :
           /\ Calls(w, part[1])
           /\ Fail(w) \/ Send(w)
    BY <1>11 DEF SendDenseLoad
  <2>2. part[1] \in {"DenseLoadData", "DenseLoadState"}
    OBVIOUS
  <2>3. Op(w) \in Operations \ Barriers
    BY <2>1, <2>2, OpsAreOperations DEF Calls
  <2> QED
    BY <1>1, <1>2, <2>1, <2>3
<1>12. CASE SendImport(w)
  BY <1>1, <1>2, <1>12, OpsAreOperations DEF SendImport, Calls
<1>13. ASSUME Op(w) \in Operations \ Barriers, ~sent[w], Advance(w), UNCHANGED <<job, sent, todo>>
       PROVE  Comes(w)
  <2>1. sent' = [sent EXCEPT ![w] = FALSE]
    BY <1>0, <1>13
  <2> QED
    BY <1>0, <1>13, <2>1, BusyOp DEF Advance, Comes
<1>14. CASE ReadMeta(w)
  <2>1. Op(w) \in Operations \ Barriers /\ ~sent[w]
    BY <1>14, OpsAreOperations DEF ReadMeta, Calls
  <2>2. Fail(w) \/ (Advance(w) /\ UNCHANGED <<job, sent, todo>>)
    BY <1>14 DEF ReadMeta
  <2> QED
    BY <1>1, <1>13, <2>1, <2>2
<1>15. CASE Skip(w)
  <2>1. Op(w) \in Operations \ Barriers /\ ~sent[w]
    BY <1>15, OpsAreOperations DEF Skip, Calls
  <2>2. Advance(w) /\ UNCHANGED <<job, sent, todo>>
    BY <1>15 DEF Skip
  <2> QED
    BY <1>13, <2>1, <2>2
<1>16. CASE Return(w)
  BY <1>3, <1>16, OpsAreOperations DEF Return, Returns, Plain
<1>17. CASE ReturnDensePull(w)
  BY <1>3, <1>17, OpsAreOperations DEF ReturnDensePull, Returns
<1>18. CASE ReturnImport(w)
  <2>1. Op(w) \in Operations \ Barriers /\ todo[w] = {} /\ Done(w) /\ prog' = prog
    BY <1>18, OpsAreOperations DEF ReturnImport, Returns
  <2> QED
    BY <2>1, BusyOp DEF Done, Comes
<1>19. CASE ReturnPullMeta(w)
  <2>1. Op(w) \in Operations \ Barriers /\ todo[w] = {}
    BY <1>19, OpsAreOperations DEF ReturnPullMeta, Returns
  <2>2. Fail(w) \/ (Done(w) /\ Advance(w))
    BY <1>19 DEF ReturnPullMeta
  <2> QED
    BY <1>1, <1>3, <2>1, <2>2
<1>20. CASE ReturnDenseSave(w)
  BY <1>3, <1>20, OpsAreOperations DEF ReturnDenseSave, Returns
<1>21. CASE ReturnExport(w)
  BY <1>3, <1>21, OpsAreOperations DEF ReturnExport, Returns
<1>22. CASE Raise(w)
  BY <1>1, <1>22 DEF Raise
<1> QED
  BY <1>4, <1>5, <1>6, <1>7, <1>8, <1>9, <1>10, <1>11, <1>12, <1>14, <1>15, <1>16, <1>17,
     <1>18, <1>19, <1>20, <1>21, <1>22 DEF WorkerStep

\* A server takes a request off the list.
LEMMA HandleEffect ==
    ASSUME NEW w, NEW s, Handle(w, s)
    PROVE  Answers(w, s)
<1>1. \A a, ok : Answer(w, s, a, ok) => Answers(w, s)
  BY DEF Answer, Answers
<1>2. Refuse(w, s) => Answers(w, s)
  BY <1>1 DEF Refuse
<1>3. \A op, map, a : SparseCommand(w, s, op, map, a) => Answers(w, s)
  BY <1>1, <1>2 DEF SparseCommand
<1>4. CASE HandleSparseInit(w, s)
  BY <1>1, <1>4 DEF HandleSparseInit
<1>5. CASE HandleDenseInit(w, s)
  BY <1>1, <1>5 DEF HandleDenseInit
<1>6. CASE HandleSparseClear(w, s)
  BY <1>3, <1>6 DEF HandleSparseClear
<1>7. CASE HandleSparsePush(w, s)
  BY <1>3, <1>7 DEF HandleSparsePush
<1>8. CASE HandleSparsePull(w, s)
  BY <1>3, <1>8 DEF HandleSparsePull
<1>9. CASE HandleSparsePushPartition(w, s)
  BY <1>3, <1>9 DEF HandleSparsePushPartition
<1>10. CASE HandleSparsePrune(w, s)
  BY <1>3, <1>10 DEF HandleSparsePrune
<1>11. CASE HandleSparseLoad(w, s)
  BY <1>2, <1>3, <1>11 DEF HandleSparseLoad
<1>12. CASE HandleSparseSave(w, s)
  BY <1>1, <1>2, <1>12 DEF HandleSparseSave
<1>13. CASE HandleSparseExport(w, s)
  BY <1>1, <1>2, <1>13 DEF HandleSparseExport
<1>14. CASE HandlePushMeta(w, s)
  BY <1>1, <1>2, <1>14 DEF HandlePushMeta
<1>15. CASE HandlePullMeta(w, s)
  BY <1>1, <1>15 DEF HandlePullMeta
<1>16. CASE HandleDensePush(w, s)
  BY <1>1, <1>2, <1>16 DEF HandleDensePush
<1>17. CASE HandleDensePull(w, s)
  BY <1>1, <1>2, <1>17 DEF HandleDensePull
<1> QED
  BY <1>4, <1>5, <1>6, <1>7, <1>8, <1>9, <1>10, <1>11, <1>12, <1>13, <1>14, <1>15, <1>16,
     <1>17 DEF Handle

\* An operation that is no barrier leaves the barriers as they are.
LEMMA AdvanceKeepsBars ==
    ASSUME ProgInv, NEW w \in Workers, prog[w] # <<>>, Head(prog[w]) \notin Barriers
    PROVE  /\ Ends(w, Tail(prog[w])) /\ Tail(prog[w]) \in Seq(Operations)
           /\ Bars(Tail(prog[w])) = Bars(prog[w])
<1>1. Ends(w, prog[w]) /\ prog[w] \in Seq(Operations)
  BY DEF ProgInv
<1>2. Ends(w, Tail(prog[w]))
  BY <1>1, EndsTail
<1>3. /\ Tail(prog[w]) \in Seq(Operations)
      /\ Bars(prog[w]) = Bars(Tail(prog[w])) + 0
  BY <1>1, BarsTail
<1>4. Bars(Tail(prog[w])) \in Nat
  BY <1>3, BarsFinite
<1> QED
  BY <1>2, <1>3, <1>4

\* Each of these keeps the order,
LEMMA OrderIdles ==
    ASSUME OrderInv, Idles
    PROVE  OrderInv'
BY DEF OrderInv, ProgInv, WaitInv, Idles, Servers

LEMMA OrderSends ==
    ASSUME OrderInv, NEW w \in Workers, Sends(w)
    PROVE  OrderInv'
<1>1. ProgInv'
  BY DEF OrderInv, ProgInv, Sends
<1>2. WaitInv'
  BY DEF OrderInv, WaitInv, Sends, Busy, Servers
<1> QED
  BY <1>1, <1>2 DEF OrderInv

LEMMA OrderComes ==
    ASSUME OrderInv, NEW w \in Workers, Comes(w)
    PROVE  OrderInv'
<1>1. /\ Ends(w, Tail(prog[w])) /\ Tail(prog[w]) \in Seq(Operations)
      /\ Bars(Tail(prog[w])) = Bars(prog[w])
  BY AdvanceKeepsBars DEF OrderInv, Comes, Busy
<1>2. ProgInv'
  <2>1. CASE prog' = prog
    BY <2>1 DEF OrderInv, ProgInv
  <2>2. CASE prog' = [prog EXCEPT ![w] = Tail(@)]
    <3>1. /\ prog' \in [Workers -> Seq(Operations)] /\ prog'[w] = Tail(prog[w])
          /\ \A v \in Workers : v # w => prog'[v] = prog[v]
      BY <1>1, <2>2 DEF OrderInv, ProgInv
    <3>2. \A v \in Workers : Ends(v, prog'[v]) /\ Bars(prog'[v]) = Bars(prog[v])
      BY <1>1, <3>1 DEF OrderInv, ProgInv
    <3> QED
      BY <3>1, <3>2 DEF OrderInv, ProgInv
  <2> QED
    BY <2>1, <2>2 DEF Comes
<1>3. /\ sent' \in [Workers -> BOOLEAN] /\ ~sent'[w]
      /\ \A v \in Workers : v # w => sent'[v] = sent[v] /\ prog'[v] = prog[v]
  BY DEF OrderInv, WaitInv, ProgInv, Comes
<1>4. WaitInv'
  BY <1>3 DEF OrderInv, WaitInv, Comes, Servers
<1> QED
  BY <1>2, <1>4 DEF OrderInv

LEMMA OrderAnswers ==
    ASSUME OrderInv, NEW w \in Workers, NEW s, Answers(w, s)
    PROVE  OrderInv'
<1>1. ProgInv'
  BY DEF OrderInv, ProgInv, Answers
<1>2. WaitInv'
  BY DEF OrderInv, WaitInv, Answers, Servers
<1> QED
  BY <1>1, <1>2 DEF OrderInv

\* as do a barrier, which all pass together,
LEMMA OrderBarrier ==
    ASSUME OrderInv, Barrier
    PROVE  OrderInv'
<1>1. ASSUME NEW w \in Workers
      PROVE  /\ prog[w] # <<>> /\ Head(prog[w]) \in Barriers
             /\ prog'[w] = Tail(prog[w]) /\ Tail(prog[w]) \in Seq(Operations)
             /\ Ends(w, Tail(prog[w])) /\ Bars(prog[w]) = Bars(Tail(prog[w])) + 1
             /\ Bars(Tail(prog[w])) \in Nat
  <2>1. prog[w] # <<>> /\ Head(prog[w]) \in Barriers
    BY NoneAssumption DEF Barrier, AtBarrier, Op, Operations
  <2>2. prog'[w] = Tail(prog[w])
    BY DEF Barrier
  <2>3. Ends(w, prog[w]) /\ prog[w] \in Seq(Operations)
    BY DEF OrderInv, ProgInv
  <2>4. Tail(prog[w]) \in Seq(Operations) /\ Bars(prog[w]) = Bars(Tail(prog[w])) + 1
    BY <2>1, <2>3, BarsTail
  <2> QED
    BY <2>1, <2>2, <2>3, <2>4, EndsTail, BarsFinite
<1>2. prog' \in [Workers -> Seq(Operations)]
  BY <1>1 DEF Barrier
<1>3. ASSUME NEW v \in Workers, NEW w \in Workers PROVE Bars(prog'[v]) = Bars(prog'[w])
  <2>1. Bars(prog[v]) = Bars(prog[w])
    BY DEF OrderInv, ProgInv
  <2> QED
    BY <1>1, <2>1
<1>4. ProgInv'
  BY <1>1, <1>2, <1>3 DEF ProgInv
<1>5. sent' = sent /\ todo' = todo /\ \A w \in Workers : ~sent[w]
  BY <1>1 DEF Barrier, OrderInv, WaitInv
<1>6. WaitInv'
  BY <1>5 DEF OrderInv, WaitInv, Servers, Barrier
<1> QED
  BY <1>4, <1>6 DEF OrderInv

\* and a new job.
LEMMA OrderNewJob ==
    ASSUME NewJob
    PROVE  OrderInv'
<1>1. PICK n \in ServerCounts, loads \in BOOLEAN :
          StartJob(job.num + 1, n, loads, disk.count, loads => intact /\ saved.sound)
  BY DEF NewJob
<1>2. /\ prog' = [w \in Workers |-> Program(w, n, loads, disk.count)]
      /\ sent' = [w \in Workers |-> FALSE] /\ todo' = [w \in Workers |-> {}]
  BY <1>1 DEF StartJob
<1>3. ASSUME NEW w \in Workers
      PROVE  /\ Ends(w, prog'[w]) /\ Bars(prog'[w]) = IF loads THEN 16 ELSE 12
             /\ prog'[w] \in Seq(Operations)
  BY <1>2, ProgramEnds DEF Ends
<1>4. prog' \in [Workers -> Seq(Operations)]
  BY <1>2, <1>3
<1>5. ProgInv'
  BY <1>3, <1>4 DEF ProgInv
<1>6. WaitInv'
  BY <1>2 DEF WaitInv
<1> QED
  BY <1>5, <1>6 DEF OrderInv

LEMMA OrderInit == Init => OrderInv
<1> SUFFICES ASSUME Init PROVE OrderInv
  OBVIOUS
<1>1. <<>> \in Seq(Operations) /\ \A w : Ends(w, <<>>)
  BY DEF Ends
<1>2. prog = [w \in Workers |-> <<>>]
  BY DEF Init
<1>3. ProgInv
  BY <1>1, <1>2 DEF ProgInv
<1>4. WaitInv
  BY DEF WaitInv, Init
<1> QED
  BY <1>3, <1>4 DEF OrderInv

\* The order of programs and requests is inductive.
LEMMA OrderNext == OrderInv /\ [Next]_vars => OrderInv'
<1> SUFFICES ASSUME OrderInv, [Next]_vars PROVE OrderInv'
  OBVIOUS
<1>1. CASE NewJob
  BY <1>1, OrderNewJob
<1>2. CASE Barrier
  BY <1>2, OrderBarrier
<1>3. CASE Over \/ UNCHANGED vars
  <2>1. Idles
    BY <1>3 DEF Over, vars, worker_vars, Idles
  <2> QED
    BY <2>1, OrderIdles
<1>4. ASSUME NEW w \in Workers, WorkerStep(w) PROVE OrderInv'
  <2>1. Idles \/ Sends(w) \/ Comes(w)
    BY <1>4, WorkerEffect DEF OrderInv
  <2> QED
    BY <2>1, OrderIdles, OrderSends, OrderComes
<1>5. ASSUME NEW w \in Workers, NEW s \in Servers, Handle(w, s) PROVE OrderInv'
  <2>1. Answers(w, s)
    BY <1>5, HandleEffect
  <2> QED
    BY <2>1, OrderAnswers
<1> QED
  BY <1>1, <1>2, <1>3, <1>4, <1>5 DEF Next

-----------------------------------------------------------------------------
(***************************************************************************)
(* The checkpoint.  While worker 0 is in save no other worker has          *)
(* requests, so that the tensors stay as they were when it began; what is  *)
(* on the disk by then follows from the operation worker 0 is at.          *)
(***************************************************************************)
ShapeInv ==
    /\ job.n \in ServerCounts \cup {0}
    /\ job.n = 0 => \A w \in Workers : prog[w] = <<>>
    /\ sparse = [s \in Servers |-> sparse[s]]
    /\ DOMAIN disk = {"count", "meta", "dmeta", "data", "state", "file"}
    /\ DOMAIN raised = Workers
    /\ DOMAIN got = Workers /\ \A w \in Workers : DOMAIN got[w] = Servers

\* The answer of server s has come.
Answered(s) == sent[0] /\ s \notin todo[0] /\ ~raised[0]
Stored(s) == s \in DOMAIN disk.file /\ disk.file[s].entries = sparse[s]

SaveInv ==
    /\ Op(0) \in SaveOps \ {"SparsePullMeta"} =>
          ~intact /\ disk.count = job.n /\ saved = Held
    /\ Op(0) = "SparseSave" => \A s \in Servers : Answered(s) => Stored(s)
    /\ Op(0) \in {"DensePullMeta", "DenseSaveData", "DenseSaveState"} =>
          \A s \in Servers : Stored(s)
    /\ Op(0) = "DenseSaveData" => \A s \in Servers : Answered(s) => got[0][s] = dense[s].data
    /\ Op(0) = "DenseSaveState" =>
          /\ disk.data = saved.vec.data
          /\ \A s \in Servers : Answered(s) => got[0][s] = dense[s].state

CheckpointInv == OrderInv /\ ShapeInv /\ SaveInv /\ CheckpointComplete

LEMMA ZeroIsWorker == 0 \in Workers
BY TrainerAssumption DEF Workers

LEMMA OpIsHead ==
    ASSUME ProgInv, NEW w \in Workers, Op(w) \in Operations
    PROVE  prog[w] # <<>> /\ Head(prog[w]) = Op(w)
BY NoneAssumption DEF Op

LEMMA SaveOpsAreOperations == SaveOps \subseteq Operations \ Barriers
BY DEF SaveOps, Operations, Barriers

\* Only worker 0 saves, and the others wait at a barrier meanwhile.
LEMMA OnlyZeroSaves ==
    ASSUME ProgInv, NEW w \in Workers, Op(w) \in SaveOps
    PROVE  w = 0
<1>1. prog[w] # <<>> /\ Head(prog[w]) \in SaveOps
  BY OpIsHead, SaveOpsAreOperations
<1>2. Ends(w, prog[w])
  BY DEF ProgInv
<1> QED
  BY <1>1, <1>2, OthersDoNotSave

LEMMA OthersWait ==
    ASSUME OrderInv, Op(0) \in SaveOps, NEW w \in Workers, w # 0
    PROVE  todo[w] = {}
<1>1. prog[0] # <<>> /\ Head(prog[0]) \in SaveOps
  BY ZeroIsWorker, OpIsHead, SaveOpsAreOperations DEF OrderInv
<1>2. Ends(0, prog[0]) /\ Ends(w, prog[w]) /\ Bars(prog[w]) = Bars(prog[0])
  BY ZeroIsWorker DEF OrderInv, ProgInv
<1>3. Bars(prog[0]) = 5
  BY <1>1, <1>2, SaveBars
<1>4. prog[w] # <<>> /\ Head(prog[w]) \in Barriers
  BY <1>2, <1>3, OthersAtBarrier
<1> QED
  BY <1>4 DEF OrderInv, WaitInv

\* The operations of save follow each other.
LEMMA SaveOrder ==
    ASSUME NEW s, Ends(0, s), s # <<>>, Tail(s) # <<>>
    PROVE  /\ Head(Tail(s)) = "SparseSave" => Head(s) = "SparsePullMeta"
           /\ Head(Tail(s)) = "DensePullMeta" => Head(s) = "SparseSave"
           /\ Head(Tail(s)) = "DenseSaveData" => Head(s) = "DensePullMeta"
           /\ Head(Tail(s)) = "DenseSaveState" => Head(s) = "DenseSaveData"
<1> SUFFICES ASSUME Head(Tail(s)) \in SaveOps \ {"SparsePullMeta"}
             PROVE  /\ Head(Tail(s)) = "SparseSave" => Head(s) = "SparsePullMeta"
                    /\ Head(Tail(s)) = "DensePullMeta" => Head(s) = "SparseSave"
                    /\ Head(Tail(s)) = "DenseSaveData" => Head(s) = "DensePullMeta"
                    /\ Head(Tail(s)) = "DenseSaveState" => Head(s) = "DenseSaveData"
  BY DEF SaveOps
<1>1. Ends(0, Tail(s))
  BY EndsTail
<1>2. PICK m \in 10..14 : m = Len(Tail(s)) /\ Head(Tail(s)) = Finish0[19 - m]
  BY <1>1, SaveBars
<1>3. s \in Seq(Operations)
  BY DEF Ends
<1>4. Len(Tail(s)) = Len(s) - 1 /\ Len(s) \in Nat
  BY <1>3, HeadTailProperties, LenProperties
<1>5. Len(s) = m + 1
  BY <1>2, <1>4
<1>6. Head(s) = Finish0[18 - m]
  <2>1. Len(s) <= 18 => Head(s) = Finish0[18 + 1 - Len(s)]
    BY EndsHead DEF FinishLen, FinishList
  <2>2. m + 1 <= 18 /\ 18 + 1 - (m + 1) = 18 - m
    OBVIOUS
  <2> QED
    BY <1>5, <2>1, <2>2
<1>7. /\ Finish0[5] = "SparsePullMeta" /\ Finish0[6] = "SparseSave"
      /\ Finish0[7] = "DensePullMeta" /\ Finish0[8] = "DenseSaveData"
      /\ Finish0[9] = "DenseSaveState"
  BY DEF Finish0
<1>8. \/ 19 - m = 5
      \/ 19 - m = 6 /\ 18 - m = 5
      \/ 19 - m = 7 /\ 18 - m = 6
      \/ 19 - m = 8 /\ 18 - m = 7
      \/ 19 - m = 9 /\ 18 - m = 8
  OBVIOUS
<1> QED
  BY <1>2, <1>6, <1>7, <1>8

\* What the steps do to the rest of the state.
SameDisk == UNCHANGED <<disk, saved, intact>>
WorkerData(w) ==
    /\ UNCHANGED <<job, raised, sparse, dense>>
    /\ got' = got \/ got' = [got EXCEPT ![w] = [s \in Servers |-> None]]
    /\ Op(w) \notin SaveOps => SameDisk

LEMMA WorkerDataStep ==
    ASSUME NEW w, WorkerStep(w)
    PROVE  WorkerData(w)
<1>1. Fail(w) => WorkerData(w)
  BY DEF Fail, WorkerData, SameDisk, server_vars, disk_vars, ghost_vars
<1>2. Send(w) => WorkerData(w)
  BY DEF Send, WorkerData, SameDisk, server_vars, disk_vars
<1>3. Done(w) /\ (Op(w) \notin SaveOps => SameDisk) => WorkerData(w)
  BY DEF Done, WorkerData, server_vars
<1>4. CASE SendSparsePull(w)
  BY <1>2, <1>4 DEF SendSparsePull
<1>5. CASE SendSparsePush(w)
  BY <1>2, <1>5 DEF SendSparsePush
<1>6. CASE SendDensePush(w)
  BY <1>2, <1>6 DEF SendDensePush
<1>7. CASE SendDensePushValue(w)
  BY <1>2, <1>7 DEF SendDensePushValue
<1>8. CASE SendSparseClear(w)
  BY <1>2, <1>8 DEF SendSparseClear
<1>9. CASE SendSparsePrune(w)
  BY <1>2, <1>9 DEF SendSparsePrune
<1>10. CASE SendOther(w)
  BY <1>2, <1>10 DEF SendOther
<1>11. CASE SendDenseLoad(w)
  BY <1>1, <1>2, <1>11 DEF SendDenseLoad
<1>12. CASE SendImport(w)
  BY <1>1, <1>2, <1>12 DEF SendImport
<1>13. CASE ReadMeta(w)
  BY <1>1, <1>13 DEF ReadMeta, WorkerData, SameDisk, server_vars, disk_vars
<1>14. CASE Skip(w)
  BY <1>14 DEF Skip, WorkerData, SameDisk, server_vars, disk_vars, ghost_vars
<1>15. CASE Return(w)
  BY <1>3, <1>15 DEF Return, SameDisk, disk_vars
<1>16. CASE ReturnDensePull(w)
  BY <1>3, <1>16 DEF ReturnDensePull, SameDisk, disk_vars
<1>17. CASE ReturnImport(w)
  BY <1>3, <1>17 DEF ReturnImport, SameDisk, disk_vars
<1>18. CASE ReturnPullMeta(w)
  BY <1>1, <1>3, <1>18 DEF ReturnPullMeta, Returns, SaveOps
<1>19. CASE ReturnDenseSave(w)
  BY <1>3, <1>19 DEF ReturnDenseSave, Returns, SaveOps
<1>20. CASE ReturnExport(w)
  BY <1>3, <1>20 DEF ReturnExport, SameDisk
<1>21. CASE Raise(w)
  BY <1>1, <1>21 DEF Raise
<1> QED
  BY <1>4, <1>5, <1>6, <1>7, <1>8, <1>9, <1>10, <1>11, <1>12, <1>13, <1>14, <1>15, <1>16,
     <1>17, <1>18, <1>19, <1>20, <1>21 DEF WorkerStep

HandleData(w, s) ==
    /\ s \in todo[w]
    /\ UNCHANGED <<saved, intact>>
    /\ \E a, ok : /\ got' = [got EXCEPT ![w][s] = a]
                  /\ raised' = [raised EXCEPT ![w] = @ \/ ~ok]
    /\ sparse' = sparse \/ \E map : sparse' = [sparse EXCEPT ![s] = map]
    /\ Op(w) = "SparseSave" \/ UNCHANGED disk
    /\ Op(w) \in SaveOps => UNCHANGED <<sparse, dense>>

LEMMA HandleDataStep ==
    ASSUME NEW w, NEW s, Handle(w, s)
    PROVE  HandleData(w, s)
<1>1. ASSUME NEW a, NEW ok, NEW op, Handles(w, s, op), Answer(w, s, a, ok),
             sparse' = sparse \/ (\E map : sparse' = [sparse EXCEPT ![s] = map]),
             op = "SparseSave" \/ UNCHANGED disk,
             op \in SaveOps => UNCHANGED <<sparse, dense>>
      PROVE  HandleData(w, s)
  BY <1>1 DEF Handles, Answer, ghost_vars, HandleData
<1>2. ASSUME NEW op, Handles(w, s, op), Refuse(w, s)
      PROVE  HandleData(w, s)
  BY <1>1, <1>2 DEF Refuse, server_vars, disk_vars
<1>3. ASSUME NEW op, NEW map, NEW a, SparseCommand(w, s, op, map, a), op \notin SaveOps
      PROVE  HandleData(w, s)
  BY <1>1, <1>2, <1>3 DEF SparseCommand, disk_vars
<1>4. CASE HandleSparseInit(w, s)
  BY <1>1, <1>4 DEF HandleSparseInit, SaveOps, server_vars, disk_vars
<1>5. CASE HandleDenseInit(w, s)
  BY <1>1, <1>5 DEF HandleDenseInit, SaveOps, server_vars, disk_vars
<1>6. CASE HandleSparseClear(w, s)
  BY <1>3, <1>6 DEF HandleSparseClear, SaveOps
<1>7. CASE HandleSparsePush(w, s)
  BY <1>3, <1>7 DEF HandleSparsePush, SaveOps
<1>8. CASE HandleSparsePull(w, s)
  BY <1>3, <1>8 DEF HandleSparsePull, SaveOps
<1>9. CASE HandleSparsePushPartition(w, s)
  BY <1>3, <1>9 DEF HandleSparsePushPartition, SaveOps
<1>10. CASE HandleSparsePrune(w, s)
  BY <1>3, <1>10 DEF HandleSparsePrune, SaveOps
<1>11. CASE HandleSparseLoad(w, s)
  BY <1>2, <1>3, <1>11 DEF HandleSparseLoad, SaveOps
<1>12. CASE HandleSparseSave(w, s)
  BY <1>1, <1>2, <1>12 DEF HandleSparseSave, server_vars
<1>13. CASE HandleSparseExport(w, s)
  BY <1>1, <1>2, <1>13 DEF HandleSparseExport, server_vars, SaveOps
<1>14. CASE HandlePushMeta(w, s)
  BY <1>1, <1>2, <1>14 DEF HandlePushMeta, disk_vars, SaveOps
<1>15. CASE HandlePullMeta(w, s)
  BY <1>1, <1>15 DEF HandlePullMeta, server_vars, disk_vars
<1>16. CASE HandleDensePush(w, s)
  BY <1>1, <1>2, <1>16 DEF HandleDensePush, disk_vars, SaveOps
<1>17. CASE HandleDensePull(w, s)
  BY <1>1, <1>2, <1>17 DEF HandleDensePull, server_vars, disk_vars
<1> QED
  BY <1>4, <1>5, <1>6, <1>7, <1>8, <1>9, <1>10, <1>11, <1>12, <1>13, <1>14, <1>15, <1>16,
     <1>17 DEF Handle

\* The steps of a worker, and of the servers for it, in save.
SavingSteps(w) ==
    \/ Idles /\ SameDisk /\ UNCHANGED got
    \/ Sends(w) /\ SameDisk
    \/ Op(w) = "SparseSave" /\ Return(w)
    \/ Op(w) = "SparsePullMeta" /\ ReturnPullMeta(w)
    \/ Op(w) = "DensePullMeta" /\ ReturnPullMeta(w)
    \/ ReturnDenseSave(w)

LEMMA SavingStep ==
    ASSUME NEW w \in Workers, WorkerStep(w), Op(w) \in SaveOps
    PROVE  SavingSteps(w)
<1>1. Fail(w) => Idles /\ SameDisk /\ UNCHANGED got
  BY DEF Fail, Idles, SameDisk, disk_vars, ghost_vars
<1>2. Send(w) => Sends(w) /\ SameDisk
  BY SaveOpsAreOperations, BusyOp DEF Send, Sends, SameDisk, disk_vars
<1>3. CASE SendOther(w)
  BY <1>2, <1>3 DEF SendOther, SavingSteps
<1>4. CASE Return(w)
  BY <1>4 DEF SavingSteps, SaveOps, Return, Plain, Returns
<1>5. CASE ReturnPullMeta(w)
  BY <1>5 DEF SavingSteps, ReturnPullMeta, Returns
<1>6. CASE ReturnDenseSave(w)
  BY <1>6 DEF SavingSteps
<1>7. CASE Raise(w)
  BY <1>1, <1>7 DEF Raise, SavingSteps
<1>8. ~SendSparsePull(w) /\ ~SendSparsePush(w) /\ ~SendDensePush(w) /\ ~SendDensePushValue(w)
      /\ ~SendSparseClear(w) /\ ~SendSparsePrune(w) /\ ~SendImport(w)
  BY DEF SaveOps, SendSparsePull, SendSparsePush, SendDensePush, SendDensePushValue,
         SendSparseClear, SendSparsePrune, SendImport, Calls
<1>9. ~SendDenseLoad(w)
  BY DEF SaveOps, SendDenseLoad, Calls
<1>10. ~ReadMeta(w) /\ ~Skip(w) /\ ~ReturnDensePull(w) /\ ~ReturnImport(w) /\ ~ReturnExport(w)
  BY DEF SaveOps, ReadMeta, Skip, Calls, ReturnDensePull, ReturnImport, ReturnExport, Returns
<1> QED
  BY <1>3, <1>4, <1>5, <1>6, <1>7, <1>8, <1>9, <1>10 DEF WorkerStep

LEMMA HandleSaving ==
    ASSUME NEW w, NEW s, Handle(w, s), Op(w) \in SaveOps
    PROVE  /\ Op(w) = "SparseSave" => HandleSparseSave(w, s)
           /\ Op(w) \in {"DenseSaveData", "DenseSaveState"} => HandleDensePull(w, s)
<1>1. ~HandleSparseInit(w, s) /\ ~HandleDenseInit(w, s) /\ ~HandleSparseClear(w, s)
      /\ ~HandleSparsePush(w, s) /\ ~HandleSparsePull(w, s)
  BY DEF SaveOps, HandleSparseInit, HandleDenseInit, HandleSparseClear, HandleSparsePush,
         HandleSparsePull, SparseCommand, Handles
<1>2. ~HandleSparsePushPartition(w, s) /\ ~HandleSparsePrune(w, s) /\ ~HandleSparseLoad(w, s)
      /\ ~HandleSparseExport(w, s) /\ ~HandlePushMeta(w, s) /\ ~HandleDensePush(w, s)
  BY DEF SaveOps, HandleSparsePushPartition, HandleSparsePrune, HandleSparseLoad,
         HandleSparseExport, HandlePushMeta, HandleDensePush, SparseCommand, Handles
<1>3. HandleSparseSave(w, s) => Op(w) = "SparseSave"
  BY DEF HandleSparseSave, Handles
<1>4. HandleDensePull(w, s) => Op(w) # "SparseSave"
  BY DEF HandleDensePull, Handles
<1>5. HandlePullMeta(w, s) => Op(w) \in {"SparsePullMeta", "DensePullMeta"}
  BY DEF HandlePullMeta, Handles
<1>6. HandleSparseSave(w, s) \/ HandlePullMeta(w, s) \/ HandleDensePull(w, s)
  BY <1>1, <1>2 DEF Handle
<1> QED
  BY <1>3, <1>4, <1>5, <1>6

\* The shapes of the state are kept.
LEMMA ShapeNext ==
    ASSUME CheckpointInv, [Next]_vars
    PROVE  ShapeInv'
<1>0. ShapeInv /\ OrderInv
  BY DEF CheckpointInv
<1>1. CASE NewJob
  <2>1. PICK n \in ServerCounts, loads \in BOOLEAN :
            StartJob(job.num + 1, n, loads, disk.count, loads => intact /\ saved.sound)
    BY <1>1 DEF NewJob
  <2>2. job'.n = n /\ n # 0 /\ disk' = disk /\ raised' = [w \in Workers |-> FALSE]
    BY <1>1, <2>1, TrainerAssumption DEF NewJob, StartJob
  <2>3. /\ sparse' = [s \in 0..(n - 1) |-> EmptyMap]
        /\ got' = [w \in Workers |-> [s \in 0..(n - 1) |-> None]]
    BY <2>1 DEF StartJob
  <2>4. sparse' = [s \in 0..(n - 1) |-> sparse'[s]]
    BY <2>3
  <2>5. DOMAIN got' = Workers /\ \A w \in Workers : DOMAIN got'[w] = 0..(n - 1)
    BY <2>3
  <2> QED
    BY <1>0, <2>2, <2>4, <2>5 DEF ShapeInv, Servers
<1>2. CASE Barrier
  <2>1. UNCHANGED <<job, sparse, disk, raised, got>>
    BY <1>2 DEF Barrier, server_vars, disk_vars
  <2>2. job.n # 0
    BY <1>0, <1>2, ZeroIsWorker, NoneAssumption DEF Barrier, AtBarrier, Op, Operations, ShapeInv
  <2> QED
    BY <1>0, <2>1, <2>2 DEF ShapeInv, Servers
<1>3. CASE Over \/ UNCHANGED vars
  BY <1>0, <1>3 DEF Over, vars, worker_vars, server_vars, disk_vars, ShapeInv, Servers
<1>4. ASSUME NEW w \in Workers, WorkerStep(w) PROVE ShapeInv'
  <2>1. /\ UNCHANGED <<job, raised, sparse>>
        /\ got' = got \/ got' = [got EXCEPT ![w] = [s \in Servers |-> None]]
    BY <1>4, WorkerDataStep DEF WorkerData
  <2>2. Idles \/ Sends(w) \/ Comes(w)
    BY <1>0, <1>4, WorkerEffect DEF OrderInv
  <2>3. job.n = 0 => \A v \in Workers : prog'[v] = <<>>
    BY <1>0, <2>2 DEF Idles, Sends, Comes, Busy, ShapeInv
  <2>4. DOMAIN disk' = DOMAIN disk
    <3>1. CASE Op(w) \notin SaveOps
      BY <1>4, <3>1, WorkerDataStep DEF WorkerData, SameDisk
    <3>2. CASE Op(w) \in SaveOps
      BY <1>4, <3>2, SavingStep DEF SavingSteps, Return, ReturnPullMeta, Fail,
                                        ReturnDenseSave, SameDisk, disk_vars
    <3> QED
      BY <3>1, <3>2
  <2>5. DOMAIN got' = Workers /\ \A v \in Workers : DOMAIN got'[v] = Servers
    BY <1>0, <2>1 DEF ShapeInv
  <2> QED
    BY <1>0, <2>1, <2>3, <2>4, <2>5 DEF ShapeInv, Servers
<1>5. ASSUME NEW w \in Workers, NEW s \in Servers, Handle(w, s) PROVE ShapeInv'
  <2>1. HandleData(w, s) /\ Answers(w, s)
    BY <1>5, HandleDataStep, HandleEffect
  <2>2. job' = job /\ prog' = prog
    BY <2>1 DEF Answers
  <2>3. sparse' = [t \in Servers |-> sparse'[t]]
    <3>1. CASE sparse' = sparse
      BY <1>0, <3>1 DEF ShapeInv
    <3>2. ASSUME NEW map, sparse' = [sparse EXCEPT ![s] = map]
          PROVE  sparse' = [t \in Servers |-> sparse'[t]]
      <4>1. DOMAIN sparse = Servers
        BY <1>0 DEF ShapeInv
      <4> QED
        BY <3>2, <4>1
    <3> QED
      BY <2>1, <3>1, <3>2 DEF HandleData
  <2>4. PICK a, ok : got' = [got EXCEPT ![w][s] = a] /\ raised' = [raised EXCEPT ![w] = @ \/ ~ok]
    BY <2>1 DEF HandleData
  <2>5. /\ DOMAIN raised' = Workers
        /\ DOMAIN got' = Workers /\ \A v \in Workers : DOMAIN got'[v] = Servers
    BY <1>0, <2>4 DEF ShapeInv
  <2>6. DOMAIN disk' = DOMAIN disk
    <3>1. CASE disk' = disk
      BY <3>1
    <3>2. CASE Op(w) = "SparseSave"
      BY <1>5, <3>2, HandleSaving DEF HandleSparseSave, Refuse, disk_vars, SaveOps
    <3> QED
      BY <2>1, <3>1, <3>2 DEF HandleData
  <2> QED
    BY <1>0, <2>2, <2>3, <2>5, <2>6 DEF ShapeInv, Servers
<1> QED
  BY <1>1, <1>2, <1>3, <1>4, <1>5 DEF Next

\* What save has achieved stays as long as nothing it is about changes.
LEMMA SaveStays ==
    ASSUME SaveInv, CheckpointComplete, SameDisk, UNCHANGED <<job, sparse, dense>>,
           Op(0)' = Op(0),
           \A s \in Servers : Answered(s)' => Answered(s) /\ got'[0][s] = got[0][s]
    PROVE  SaveInv' /\ CheckpointComplete'
<1>1. CheckpointComplete'
  BY DEF CheckpointComplete, SameDisk
<1>2. Servers' = Servers /\ Held' = Held /\ \A s : Stored(s)' = Stored(s)
  BY DEF SameDisk, Servers, Held, Stored, OwnerOf, RowsOf, Union
<1>3. SaveInv'
  BY <1>2 DEF SaveInv, SameDisk
<1> QED
  BY <1>1, <1>3

\* Nothing is to be shown of a step to an operation before or after save.
LEMMA SaveAway ==
    ASSUME CheckpointComplete, SameDisk, Op(0)' \notin SaveOps \ {"SparsePullMeta"}
    PROVE  SaveInv' /\ CheckpointComplete'
<1>1. CheckpointComplete'
  BY DEF CheckpointComplete, SameDisk
<1>2. SaveInv'
  BY DEF SaveInv, SaveOps
<1> QED
  BY <1>1, <1>2

\* The operation that follows.
LEMMA NextOp ==
    ASSUME ProgInv, prog[0] # <<>>, prog'[0] = Tail(prog[0])
    PROVE  /\ Op(0)' = "SparseSave" => Op(0) = "SparsePullMeta"
           /\ Op(0)' = "DensePullMeta" => Op(0) = "SparseSave"
           /\ Op(0)' = "DenseSaveData" => Op(0) = "DensePullMeta"
           /\ Op(0)' = "DenseSaveState" => Op(0) = "DenseSaveData"
<1>1. Ends(0, prog[0])
  BY ZeroIsWorker DEF ProgInv
<1>2. CASE Tail(prog[0]) = <<>>
  BY <1>2, NoneAssumption DEF Op, Operations
<1>3. CASE Tail(prog[0]) # <<>>
  BY <1>1, <1>3, SaveOrder DEF Op
<1> QED
  BY <1>2, <1>3

\* A barrier is not in save, and a job does not begin with it.
LEMMA SaveBarrier ==
    ASSUME CheckpointInv, Barrier
    PROVE  SaveInv' /\ CheckpointComplete'
<1>1. prog[0] # <<>> /\ prog'[0] = Tail(prog[0]) /\ Op(0) \in Barriers
  BY ZeroIsWorker, NoneAssumption DEF Barrier, AtBarrier, Op, Operations
<1>2. Op(0)' \notin SaveOps \ {"SparsePullMeta"}
  BY <1>1, NextOp, SaveOpsAreOperations DEF CheckpointInv, OrderInv, SaveOps
<1>3. SameDisk
  BY DEF Barrier, SameDisk, disk_vars, ghost_vars
<1> QED
  BY <1>2, <1>3, SaveAway DEF CheckpointInv

LEMMA SaveNewJob ==
    ASSUME CheckpointInv, NewJob
    PROVE  SaveInv' /\ CheckpointComplete'
<1>1. PICK n \in ServerCounts, loads \in BOOLEAN :
          StartJob(job.num + 1, n, loads, disk.count, loads => intact /\ saved.sound)
  BY DEF NewJob
<1>2. prog'[0] = Program(0, n, loads, disk.count)
  BY <1>1, ZeroIsWorker DEF StartJob
<1>3. Ends(0, prog'[0]) /\ Bars(prog'[0]) # 5 /\ prog'[0] # <<>>
  BY <1>2, ProgramEnds, ZeroIsWorker
<1>4. Head(prog'[0]) \notin SaveOps
  BY <1>3, SaveBars
<1>5. Op(0)' \notin SaveOps
  BY <1>3, <1>4 DEF Op
<1>6. SameDisk
  BY DEF NewJob, SameDisk
<1> QED
  BY <1>5, <1>6, SaveAway DEF CheckpointInv

LEMMA SaveIdles ==
    ASSUME CheckpointInv, Idles, SameDisk, UNCHANGED <<got, raised, sparse, dense>>
    PROVE  SaveInv' /\ CheckpointComplete'
BY SaveStays DEF CheckpointInv, Idles, Op, Answered

\* The step of another worker does not concern the save.
LEMMA SaveOther ==
    ASSUME CheckpointInv, NEW w \in Workers, w # 0, WorkerStep(w)
    PROVE  SaveInv' /\ CheckpointComplete'
<1>1. WorkerData(w) /\ (Idles \/ Sends(w) \/ Comes(w))
  BY WorkerDataStep, WorkerEffect DEF CheckpointInv, OrderInv
<1>2. Op(w) \notin SaveOps
  BY OnlyZeroSaves DEF CheckpointInv, OrderInv
<1>3. SameDisk /\ UNCHANGED <<job, raised, sparse, dense>>
  BY <1>1, <1>2 DEF WorkerData
<1>4. prog'[0] = prog[0] /\ sent'[0] = sent[0] /\ todo'[0] = todo[0]
  BY <1>1, ZeroIsWorker DEF Idles, Sends, Comes, CheckpointInv, OrderInv, ProgInv, WaitInv
<1>5. got'[0] = got[0]
  BY <1>1, ZeroIsWorker DEF WorkerData, CheckpointInv, ShapeInv
<1>6. Op(0)' = Op(0) /\ \A s : Answered(s)' => Answered(s)
  BY <1>3, <1>4 DEF Op, Answered
<1> QED
  BY <1>3, <1>5, <1>6, SaveStays DEF CheckpointInv

\* Every row has a server.
LEMMA OwnerIsServer ==
    ASSUME ShapeInv, prog[0] # <<>>, NEW r \in AllRows
    PROVE  OwnerOf(r) \in Servers
<1>1. job.n \in ServerCounts
  BY ZeroIsWorker DEF ShapeInv
<1>2. /\ job.n \in Nat \ {0} /\ DenseRows \in Nat /\ NameHash \in Nat
      /\ Modulus \in Nat \ {0} /\ NameHash + job.n <= Modulus
  <2>1. /\ job.n \in Nat /\ job.n # 0 /\ DenseRows \in Nat /\ NameHash \in Nat
        /\ Modulus \in Nat /\ NameHash + job.n <= Modulus
    BY <1>1, TrainerAssumption
  <2> QED
    BY <2>1
<1>3. Tiles(NameHash, DenseRows, job.n, Modulus)
  BY <1>2, DenseTiles DEF Unwrapped
<1>4. \E s \in Servers : r \in RowsOf(s)
  BY <1>3 DEF Tiles, Servers, RowsOf, AllRows
<1> QED
  BY <1>4 DEF OwnerOf

\* The tensor worker 0 has put together is the one of the servers.
LEMMA AssembledIsHeld ==
    ASSUME ShapeInv, prog[0] # <<>>
    PROVE  /\ (\A s \in Servers : got[0][s] = dense[s].data) => Assembled(0) = Held.vec.data
           /\ (\A s \in Servers : got[0][s] = dense[s].state) => Assembled(0) = Held.vec.state
<1>1. \A r \in AllRows : OwnerOf(r) \in Servers
  BY OwnerIsServer
<1> HIDE DEF OwnerOf
<1>2. ASSUME \A s \in Servers : got[0][s] = dense[s].data PROVE Assembled(0) = Held.vec.data
  BY <1>1, <1>2 DEF Assembled, Held
<1>3. ASSUME \A s \in Servers : got[0][s] = dense[s].state PROVE Assembled(0) = Held.vec.state
  BY <1>1, <1>3 DEF Assembled, Held
<1> QED
  BY <1>2, <1>3

\* The steps of worker 0.
LEMMA SaveZero ==
    ASSUME CheckpointInv, WorkerStep(0)
    PROVE  SaveInv' /\ CheckpointComplete'
<1>0. 0 \in Workers /\ ProgInv /\ WaitInv /\ ShapeInv /\ SaveInv /\ CheckpointComplete
  BY ZeroIsWorker DEF CheckpointInv, OrderInv
<1>1. WorkerData(0) /\ (Idles \/ Sends(0) \/ Comes(0))
  BY <1>0, WorkerDataStep, WorkerEffect
<1>2. CASE Op(0) \notin SaveOps
  <2>1. SameDisk
    BY <1>1, <1>2 DEF WorkerData
  <2>2. prog'[0] = prog[0] \/ (prog[0] # <<>> /\ prog'[0] = Tail(prog[0]))
    BY <1>0, <1>1 DEF Idles, Sends, Comes, Busy, ProgInv
  <2>3. prog'[0] = prog[0] => Op(0)' = Op(0)
    BY DEF Op
  <2>4. Op(0)' \notin SaveOps \ {"SparsePullMeta"}
    BY <1>0, <1>2, <2>2, <2>3, NextOp DEF SaveOps
  <2> QED
    BY <1>0, <2>1, <2>4, SaveAway
<1>3. CASE Op(0) \in SaveOps
  <2>0. UNCHANGED <<job, raised, sparse, dense>> /\ Servers' = Servers /\ Held' = Held
    BY <1>1 DEF WorkerData, Servers, Held, OwnerOf, RowsOf
  <2>00. prog[0] # <<>>
    BY <1>0, <1>3, OpIsHead, SaveOpsAreOperations
  <2>1. CASE Idles /\ SameDisk /\ UNCHANGED got
    BY <2>0, <2>1, SaveIdles
  <2>2. CASE Sends(0) /\ SameDisk
    <3>1. Op(0)' = Op(0) /\ todo'[0] = Servers
      BY <1>0, <2>2 DEF Sends, Op, WaitInv
    <3>2. \A s \in Servers : ~Answered(s)'
      BY <3>1 DEF Answered
    <3> QED
      BY <1>0, <2>0, <2>2, <3>1, <3>2, SaveStays
  <2>3. ASSUME Done(0), Advance(0)
        PROVE  /\ ~sent'[0] /\ \A s : ~Answered(s)'
               /\ Op(0)' = "SparseSave" => Op(0) = "SparsePullMeta"
               /\ Op(0)' = "DensePullMeta" => Op(0) = "SparseSave"
               /\ Op(0)' = "DenseSaveData" => Op(0) = "DensePullMeta"
               /\ Op(0)' = "DenseSaveState" => Op(0) = "DenseSaveData"
    <3>1. ~sent'[0] /\ prog'[0] = Tail(prog[0])
      BY <1>0, <2>3 DEF Done, Advance, WaitInv, ProgInv
    <3> QED
      BY <1>0, <2>00, <3>1, NextOp DEF Answered
  <2>4. CASE Op(0) = "SparseSave" /\ Return(0)
    <3>1. Done(0) /\ Advance(0) /\ SameDisk /\ \A s \in Servers : Answered(s)
      BY <2>4 DEF Return, Returns, SameDisk, disk_vars, Answered
    <3>2. \A s \in Servers : Stored(s)
      BY <1>0, <2>4, <3>1 DEF SaveInv
    <3>3. \A s : Stored(s)' = Stored(s)
      BY <2>0, <3>1 DEF SameDisk, Stored
    <3>4. ~intact /\ disk.count = job.n /\ saved = Held
      BY <1>0, <2>4 DEF SaveInv, SaveOps
    <3>5. CheckpointComplete'
      BY <3>1, <3>4 DEF CheckpointComplete, SameDisk
    <3>6. SaveInv'
      BY <2>0, <2>3, <2>4, <3>1, <3>2, <3>3, <3>4 DEF SaveInv, SameDisk
    <3> QED
      BY <3>5, <3>6
  <2>5. CASE ReturnPullMeta(0) /\ Fail(0)
    BY <2>0, <2>5, SaveIdles DEF Fail, Idles, SameDisk, disk_vars, ghost_vars
  <2>6. CASE Op(0) = "SparsePullMeta" /\ ReturnPullMeta(0) /\ ~Fail(0)
    <3>1. /\ Done(0) /\ Advance(0) /\ saved' = Held /\ intact' = FALSE
          /\ disk' = [disk EXCEPT !.count = job.n, !.meta = got[0][0]]
      BY <2>6 DEF ReturnPullMeta
    <3>2. disk'.count = job.n
      BY <1>0, <3>1 DEF ShapeInv
    <3>3. CheckpointComplete'
      BY <3>1 DEF CheckpointComplete
    <3>4. SaveInv'
      BY <2>0, <2>3, <2>6, <3>1, <3>2 DEF SaveInv, SaveOps
    <3> QED
      BY <3>3, <3>4
  <2>7. CASE Op(0) = "DensePullMeta" /\ ReturnPullMeta(0) /\ ~Fail(0)
    <3>1. /\ Done(0) /\ Advance(0) /\ saved' = saved /\ intact' = intact
          /\ disk' = [disk EXCEPT !.dmeta = got[0][0]]
      BY <2>7 DEF ReturnPullMeta
    <3>2. disk'.count = disk.count /\ disk'.file = disk.file
      BY <1>0, <3>1 DEF ShapeInv
    <3>3. ~intact /\ disk.count = job.n /\ saved = Held /\ \A s \in Servers : Stored(s)
      BY <1>0, <2>7 DEF SaveInv, SaveOps
    <3>4. \A s : Stored(s)' = Stored(s)
      BY <2>0, <3>2 DEF Stored
    <3>5. CheckpointComplete'
      BY <3>1, <3>3 DEF CheckpointComplete
    <3>6. SaveInv'
      BY <2>0, <2>3, <2>7, <3>1, <3>2, <3>3, <3>4 DEF SaveInv, SaveOps
    <3> QED
      BY <3>5, <3>6
  <2>8. CASE ReturnDenseSave(0) /\ Op(0) = "DenseSaveData"
    <3>1. /\ Done(0) /\ Advance(0) /\ saved' = saved /\ intact' = intact
          /\ disk' = [disk EXCEPT !.data = Assembled(0)] /\ \A s \in Servers : Answered(s)
      BY <2>8 DEF ReturnDenseSave, Returns, Answered
    <3>2. disk'.count = disk.count /\ disk'.file = disk.file /\ disk'.data = Assembled(0)
      BY <1>0, <3>1 DEF ShapeInv
    <3>3. /\ ~intact /\ disk.count = job.n /\ saved = Held /\ \A s \in Servers : Stored(s)
          /\ \A s \in Servers : got[0][s] = dense[s].data
      BY <1>0, <2>8, <3>1 DEF SaveInv, SaveOps
    <3>4. \A s : Stored(s)' = Stored(s)
      BY <2>0, <3>2 DEF Stored
    <3>5. disk'.data = saved'.vec.data
      BY <1>0, <2>00, <3>1, <3>2, <3>3, AssembledIsHeld
    <3>6. CheckpointComplete'
      BY <3>1, <3>3 DEF CheckpointComplete
    <3>7. SaveInv'
      BY <2>0, <2>3, <2>8, <3>1, <3>2, <3>3, <3>4, <3>5 DEF SaveInv, SaveOps
    <3> QED
      BY <3>6, <3>7
  <2>9. CASE ReturnDenseSave(0) /\ Op(0) = "DenseSaveState"
    <3>1. /\ Done(0) /\ Advance(0) /\ saved' = saved /\ intact' = TRUE
          /\ disk' = IF HasState THEN [disk EXCEPT !.state = Assembled(0)] ELSE disk
          /\ \A s \in Servers : Answered(s)
      BY <2>9 DEF ReturnDenseSave, Returns, Answered
    <3>2. /\ disk'.count = disk.count /\ disk'.file = disk.file /\ disk'.data = disk.data
          /\ HasState => disk'.state = Assembled(0)
      BY <1>0, <3>1 DEF ShapeInv
    <3>3. /\ disk.count = job.n /\ saved = Held /\ \A s \in Servers : Stored(s)
          /\ disk.data = saved.vec.data /\ \A s \in Servers : got[0][s] = dense[s].state
      BY <1>0, <2>9, <3>1 DEF SaveInv, SaveOps
    <3>4. Assembled(0) = saved.vec.state
      BY <1>0, <2>00, <3>3, AssembledIsHeld
    <3>5. [i \in Servers |-> disk.file[i].entries] = sparse /\ Servers \subseteq DOMAIN disk.file
      <4>1. \A i \in Servers : disk.file[i].entries = sparse[i] /\ i \in DOMAIN disk.file
        BY <3>3 DEF Stored
      <4>2. sparse = [s \in Servers |-> sparse[s]]
        BY <1>0 DEF ShapeInv
      <4> QED
        BY <4>1, <4>2
    <3>6. saved.table = Union(sparse)
      BY <3>3 DEF Held
    <3>7. CheckpointComplete'
      <4>1. 0..(disk'.count - 1) = Servers
        BY <3>2, <3>3 DEF Servers
      <4>2. [i \in 0..(disk'.count - 1) |-> disk'.file[i].entries] = sparse
        BY <3>2, <3>5, <4>1
      <4>3. /\ 0..(disk'.count - 1) \subseteq DOMAIN disk'.file
            /\ disk'.data = saved'.vec.data
            /\ HasState => disk'.state = saved'.vec.state
        BY <3>1, <3>2, <3>3, <3>4, <3>5, <4>1
      <4>4. Union([i \in 0..(disk'.count - 1) |-> disk'.file[i].entries]) = saved'.table
        BY <3>1, <3>6, <4>2
      <4> QED
        BY <4>3, <4>4 DEF CheckpointComplete
    <3>8. SaveInv'
      BY <2>3, <2>9, <3>1 DEF SaveInv, SaveOps
    <3> QED
      BY <3>7, <3>8
  <2>10. SavingSteps(0)
    BY <1>0, <1>3, SavingStep
  <2>11. ReturnDenseSave(0) => Op(0) \in {"DenseSaveData", "DenseSaveState"}
    BY DEF ReturnDenseSave, Returns
  <2> QED
    BY <2>1, <2>2, <2>4, <2>5, <2>6, <2>7, <2>8, <2>9, <2>10, <2>11 DEF SavingSteps
<1> QED
  BY <1>2, <1>3

\* The steps of the servers.
LEMMA SaveHandle ==
    ASSUME CheckpointInv, NEW w \in Workers, NEW s \in Servers, Handle(w, s)
    PROVE  SaveInv' /\ CheckpointComplete'
<1>0. /\ 0 \in Workers /\ OrderInv /\ ProgInv /\ WaitInv /\ ShapeInv
      /\ SaveInv /\ CheckpointComplete
  BY ZeroIsWorker DEF CheckpointInv, OrderInv
<1>1. HandleData(w, s) /\ Answers(w, s)
  BY HandleDataStep, HandleEffect
<1>2. Op(0)' = Op(0) /\ job' = job /\ sent' = sent
  BY <1>1 DEF Answers, Op
<1>3. CASE Op(0) \notin SaveOps
  <2>1. Op(w) \notin SaveOps
    BY <1>0, <1>3, OnlyZeroSaves
  <2>2. SameDisk
    BY <1>1, <2>1 DEF HandleData, SameDisk, SaveOps
  <2> QED
    BY <1>0, <1>2, <1>3, <2>2, SaveAway
<1>4. CASE Op(0) \in SaveOps
  <2>1. w = 0
    BY <1>0, <1>1, <1>4, OthersWait DEF HandleData
  <2>2. UNCHANGED <<sparse, dense, saved, intact>>
    BY <1>1, <1>4, <2>1 DEF HandleData
  <2>3. todo'[0] = todo[0] \ {s}
    BY <1>0, <1>1, <2>1 DEF Answers, WaitInv
  <2>4. PICK a, ok : got' = [got EXCEPT ![0][s] = a] /\ raised' = [raised EXCEPT ![0] = @ \/ ~ok]
    BY <1>1, <2>1 DEF HandleData
  <2>5. /\ raised'[0] = (raised[0] \/ ~ok)
        /\ \A t \in Servers : t # s => got'[0][t] = got[0][t]
    BY <1>0, <2>4 DEF ShapeInv
  <2>6. \A t \in Servers : t # s /\ Answered(t)' => Answered(t) /\ got'[0][t] = got[0][t]
    BY <1>2, <2>3, <2>5 DEF Answered
  <2>7. Servers' = Servers /\ Held' = Held
    BY <1>2, <2>2 DEF Servers, Held, OwnerOf, RowsOf
  <2>8. CASE Op(0) = "SparseSave"
    <3>1. ~intact /\ disk.count = job.n /\ saved = Held
      BY <1>0, <2>8 DEF SaveInv, SaveOps
    <3>2. CheckpointComplete'
      BY <2>2, <3>1 DEF CheckpointComplete
    <3>3. HandleSparseSave(0, s)
      BY <1>4, <2>1, <2>8, HandleSaving
    <3>4. CASE smeta[s] = None
      <4>1. Refuse(0, s)
        BY <3>3, <3>4 DEF HandleSparseSave
      <4>2. disk' = disk /\ raised'[0]
        BY <1>0, <4>1 DEF Refuse, Answer, disk_vars, ShapeInv
      <4>3. \A t : ~Answered(t)'
        BY <4>2 DEF Answered
      <4> QED
        BY <1>2, <2>2, <2>7, <2>8, <3>1, <3>2, <4>2, <4>3 DEF SaveInv, SaveOps
    <3>5. CASE smeta[s] # None
      <4>1. disk' = [disk EXCEPT !.file = Written(@, s, [text |-> TextMode, entries |-> sparse[s]])]
        BY <3>3, <3>5 DEF HandleSparseSave
      <4>2. /\ disk'.count = disk.count
            /\ disk'.file = Written(disk.file, s, [text |-> TextMode, entries |-> sparse[s]])
        BY <1>0, <4>1 DEF ShapeInv
      <4>3. Stored(s)' /\ \A t : Stored(t) => Stored(t)'
        BY <2>2, <4>2 DEF Stored, Written
      <4>4. \A t \in Servers : Answered(t)' => Stored(t)'
        BY <1>0, <2>6, <2>8, <4>3 DEF SaveInv
      <4>5. SaveInv'
        BY <1>2, <2>2, <2>7, <2>8, <3>1, <4>2, <4>4 DEF SaveInv, SaveOps
      <4> QED
        BY <3>2, <4>5
    <3> QED
      BY <3>4, <3>5
  <2>9. CASE Op(0) \in {"SparsePullMeta", "DensePullMeta"}
    <3>1. SameDisk
      BY <1>1, <2>1, <2>9 DEF HandleData, SameDisk
    <3>2. \A t : Stored(t)' = Stored(t)
      BY <2>2, <3>1 DEF Stored, SameDisk
    <3>3. CheckpointComplete'
      BY <1>0, <3>1 DEF CheckpointComplete, SameDisk
    <3>4. SaveInv'
      BY <1>0, <1>2, <2>7, <2>9, <3>1, <3>2 DEF SaveInv, SaveOps, SameDisk
    <3> QED
      BY <3>3, <3>4
  <2>10. CASE Op(0) \in {"DenseSaveData", "DenseSaveState"}
    <3>1. SameDisk
      BY <1>1, <2>1, <2>10 DEF HandleData, SameDisk
    <3>2. \A t : Stored(t)' = Stored(t)
      BY <2>2, <3>1 DEF Stored, SameDisk
    <3>3. CheckpointComplete'
      BY <1>0, <3>1 DEF CheckpointComplete, SameDisk
    <3>4. HandleDensePull(0, s)
      BY <1>4, <2>1, <2>10, HandleSaving
    <3>5. \/ Refuse(0, s)
          \/ Answer(0, s, IF Op(0) = "DenseSaveState" THEN dense[s].state ELSE dense[s].data, TRUE)
      BY <3>4 DEF HandleDensePull, Handles
    <3>6. Refuse(0, s) => ~Answered(s)'
      BY <1>0 DEF Refuse, Answer, ShapeInv, Answered
    <3>7. ASSUME NEW b, Answer(0, s, b, TRUE) PROVE got'[0][s] = b
      BY <1>0, <3>7 DEF Answer, ShapeInv
    <3>8. Answered(s)' =>
            got'[0][s] = IF Op(0) = "DenseSaveState" THEN dense[s].state ELSE dense[s].data
      BY <3>5, <3>6, <3>7
    <3>9. SaveInv'
      <4>1. CASE Op(0) = "DenseSaveData"
        <5>1. \A t \in Servers : Answered(t)' => got'[0][t] = dense[t].data
          BY <1>0, <2>6, <3>8, <4>1 DEF SaveInv
        <5> QED
          BY <1>0, <1>2, <2>2, <2>7, <3>1, <3>2, <4>1, <5>1 DEF SaveInv, SaveOps, SameDisk
      <4>2. CASE Op(0) = "DenseSaveState"
        <5>1. \A t \in Servers : Answered(t)' => got'[0][t] = dense[t].state
          BY <1>0, <2>6, <3>8, <4>2 DEF SaveInv
        <5> QED
          BY <1>0, <1>2, <2>2, <2>7, <3>1, <3>2, <4>2, <5>1 DEF SaveInv, SaveOps, SameDisk
      <4> QED
        BY <2>10, <4>1, <4>2
    <3> QED
      BY <3>3, <3>9
  <2> QED
    BY <1>4, <2>8, <2>9, <2>10 DEF SaveOps
<1> QED
  BY <1>3, <1>4

LEMMA CheckpointInit == Init => CheckpointInv
<1> SUFFICES ASSUME Init PROVE CheckpointInv
  OBVIOUS
<1>1. OrderInv
  BY OrderInit
<1>2. prog[0] = <<>> /\ Op(0) = None
  BY ZeroIsWorker DEF Init, Op
<1>3. ShapeInv
  <2>1. job.n = 0 /\ Servers = {} /\ sparse = <<>>
    BY DEF Init, Servers
  <2>2. sparse = [s \in Servers |-> sparse[s]]
    BY <2>1
  <2>3. /\ DOMAIN disk = {"count", "meta", "dmeta", "data", "state", "file"}
        /\ DOMAIN raised = Workers /\ DOMAIN got = Workers
    BY DEF Init
  <2>4. \A w \in Workers : prog[w] = <<>> /\ DOMAIN got[w] = {}
    BY DEF Init
  <2> QED
    BY <2>1, <2>2, <2>3, <2>4 DEF ShapeInv
<1>4. SaveInv
  BY <1>2, NoneAssumption DEF SaveInv, SaveOps, Operations
<1>5. CheckpointComplete
  BY DEF Init, CheckpointComplete
<1> QED
  BY <1>1, <1>3, <1>4, <1>5 DEF CheckpointInv

\* The invariant is inductive.
LEMMA CheckpointNext == CheckpointInv /\ [Next]_vars => CheckpointInv'
<1> SUFFICES ASSUME CheckpointInv, [Next]_vars PROVE CheckpointInv'
  OBVIOUS
<1>1. OrderInv' /\ ShapeInv'
  BY OrderNext, ShapeNext DEF CheckpointInv
<1>2. SaveInv' /\ CheckpointComplete'
  <2>1. CASE NewJob
    BY <2>1, SaveNewJob
  <2>2. CASE Barrier
    BY <2>2, SaveBarrier
  <2>3. CASE Over \/ UNCHANGED vars
    <3>1. Idles /\ SameDisk /\ UNCHANGED <<got, raised, sparse, dense>>
      BY <2>3 DEF Over, vars, worker_vars, server_vars, disk_vars, ghost_vars, Idles, SameDisk
    <3> QED
      BY <3>1, SaveIdles
  <2>4. ASSUME NEW w \in Workers, WorkerStep(w) PROVE SaveInv' /\ CheckpointComplete'
    BY <2>4, SaveOther, SaveZero
  <2>5. ASSUME NEW w \in Workers, NEW s \in Servers, Handle(w, s)
        PROVE  SaveInv' /\ CheckpointComplete'
    BY <2>5, SaveHandle
  <2> QED
    BY <2>1, <2>2, <2>3, <2>4, <2>5 DEF Next
<1> QED
  BY <1>1, <1>2 DEF CheckpointInv

\* A complete checkpoint is not touched.
LEMMA CompleteStays ==
    ASSUME CheckpointInv, [Next]_vars, intact, intact'
    PROVE  disk' = disk /\ saved' = saved
<1>0. /\ 0 \in Workers /\ OrderInv /\ ProgInv /\ SaveInv
      /\ Op(0) \notin SaveOps \ {"SparsePullMeta"}
  BY ZeroIsWorker DEF CheckpointInv, OrderInv, SaveInv
<1>1. CASE NewJob \/ Barrier \/ Over \/ UNCHANGED vars
  BY <1>1 DEF NewJob, Barrier, Over, vars, disk_vars, ghost_vars
<1>2. ASSUME NEW w \in Workers, WorkerStep(w) PROVE disk' = disk /\ saved' = saved
  <2>1. CASE Op(w) \notin SaveOps
    BY <1>2, <2>1, WorkerDataStep DEF WorkerData, SameDisk
  <2>2. CASE Op(w) \in SaveOps
    <3>1. w = 0 /\ Op(0) = "SparsePullMeta"
      BY <1>0, <2>2, OnlyZeroSaves
    <3>2. SavingSteps(w)
      BY <1>2, <2>2, SavingStep
    <3>3. ~ReturnDenseSave(w)
      BY <3>1 DEF ReturnDenseSave, Returns
    <3>4. SameDisk \/ ReturnPullMeta(w)
      BY <3>1, <3>2, <3>3 DEF SavingSteps
    <3>5. ReturnPullMeta(w) => Fail(w)
      BY <3>1 DEF ReturnPullMeta
    <3>6. Fail(w) => SameDisk
      BY DEF Fail, SameDisk, disk_vars, ghost_vars
    <3> QED
      BY <3>4, <3>5, <3>6 DEF SameDisk
  <2> QED
    BY <2>1, <2>2
<1>3. ASSUME NEW w \in Workers, NEW s \in Servers, Handle(w, s)
      PROVE  disk' = disk /\ saved' = saved
  <2>1. Op(w) # "SparseSave"
    BY <1>0, OnlyZeroSaves DEF SaveOps
  <2> QED
    BY <1>3, <2>1, HandleDataStep DEF HandleData
<1> QED
  BY <1>1, <1>2, <1>3 DEF Next

\* The inductive invariant of the training jobs: the workers go from barrier to
\* barrier together, whatever they do in between, and what is on the disk follows
\* from the operation of worker 0.
THEOREM TrainerSafe == Spec => []CheckpointInv
<1>1. Init => CheckpointInv
  BY CheckpointInit
<1>2. CheckpointInv /\ [Next]_vars => CheckpointInv'
  BY CheckpointNext
<1> QED
  BY <1>1, <1>2, PTL DEF Spec

\* DistributedTrainer.save: when it has returned at worker 0 the directory holds
\* the sparse and the dense tensor as they were when it began, in as many partition
\* files as the meta file says, and keeps them until the next save, for any number
\* of workers, servers, minibatches and jobs, killed at any point.
THEOREM TrainerCheckpointComplete == Spec => []CheckpointComplete
<1>1. CheckpointInv => CheckpointComplete
  BY DEF CheckpointInv
<1> QED
  BY <1>1, TrainerSafe, PTL

\* No server handles a request of another worker while worker 0 is in save: the
\* barriers around it are enough, whatever the lengths of the programs.
THEOREM TrainerSavesAlone ==
    Spec => [](Op(0) \in SaveOps => \A w \in Workers \ {0} : todo[w] = {})
<1>1. CheckpointInv => (Op(0) \in SaveOps => \A w \in Workers \ {0} : todo[w] = {})
  BY OthersWait DEF CheckpointInv
<1> QED
  BY <1>1, TrainerSafe, PTL

\* The files of a complete checkpoint are written only by a save, which first
\* makes it incomplete: a job that fails, or is killed, outside of save leaves the
\* checkpoint as it was.
THEOREM TrainerCheckpointStays ==
    Spec => [][intact /\ intact' => disk' = disk /\ saved' = saved]_vars
<1>1. CheckpointInv /\ [Next]_vars
        => [intact /\ intact' => disk' = disk /\ saved' = saved]_vars
  BY CompleteStays
<1> QED
  BY <1>1, TrainerSafe, PTL DEF Spec
=============================================================================
