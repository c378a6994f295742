------------------------- MODULE ArrayHashMapProofs -------------------------
(***************************************************************************)
(* The arrays are a map, for all keys, vectors, predicates, bucket counts  *)
(* and moduli: the invariant that every chain has the entries of its       *)
(* bucket in descending order is inductive.                                *)
(***************************************************************************)
EXTENDS ArrayHashMap, NaturalsInduction, WellFoundedInduction, TLAPS

USE HashMapAssumption

(* A key has a bucket of the map.                                          *)
LEMMA BucketType ==
    ASSUME NEW k \in Keys, NEW n \in Nat \ {0}
    PROVE  get_bucket(k, n) \in 0..(n - 1)
<1>1. k \in Nat /\ Prime \in Nat /\ Prime + 1 \in Nat \ {0}
    OBVIOUS
<1> DEFINE lo == k % (Prime + 1)
           hi == k \div (Prime + 1)
<1>2. lo \in Nat /\ hi \in Nat
    BY <1>1
<1>3. fast_modulo(k) \in Nat
    BY <1>1, <1>2 DEF fast_modulo
<1> HIDE DEF lo, hi
<1>4. QED
    BY <1>3 DEF get_bucket

(* The greatest index of a set of entries.                                 *)
LEMMA LastMax ==
    ASSUME NEW c \in Nat, NEW S \in SUBSET (0..(c - 1)), S # {}
    PROVE  Last(S) \in S /\ \A j \in S : j <= Last(S)
<1> DEFINE T == {c - 1 - i : i \in S}
<1>1. T \subseteq Nat /\ T # {}
    OBVIOUS
<1> DEFINE R == {ss \in Nat \X Nat : ss[1] < ss[2]}
<1>0. IsWellFoundedOn(R, Nat)
    BY NatLessThanWellFounded DEF OpToRel
<1>2. PICK x \in T : \A y \in T : ~(<<y, x>> \in R)
    <2> HIDE DEF R, T
    <2> QED BY <1>0, <1>1, WFMin, ZenonT(60)
<1>3. \A y \in T : ~(y < x)
    <2> SUFFICES ASSUME NEW y \in T, y < x PROVE FALSE
        OBVIOUS
    <2>1. <<y, x>> \in R
        BY <1>1
    <2> QED BY <2>1, <1>2
<1>4. PICK i \in S : x = c - 1 - i
    BY <1>2
<1>5. \A j \in S : j <= i
    <2> SUFFICES ASSUME NEW j \in S PROVE j <= i
        OBVIOUS
    <2>1. c - 1 - j \in T
        OBVIOUS
    <2>2. ~(c - 1 - j < c - 1 - i)
        <3> HIDE DEF T
        <3> QED BY <2>1, <1>3, <1>4
    <2>3. i \in 0..(c - 1) /\ j \in 0..(c - 1)
        OBVIOUS
    <2> QED BY <2>2, <2>3
<1>6. \E m \in S : \A j \in S : j <= m
    BY <1>4, <1>5
<1> QED BY <1>6 DEF Last

LEMMA LastIs ==
    ASSUME NEW S \in SUBSET Nat, NEW i \in S, \A j \in S : j <= i
    PROVE  Last(S) = i
<1> DEFINE m == CHOOSE m \in S : \A j \in S : j <= m
<1>1. Last(S) = m
    BY DEF Last
<1>2. m \in S /\ \A j \in S : j <= m
    OBVIOUS
<1> HIDE DEF m
<1>3. m <= i /\ i <= m /\ m \in Nat /\ i \in Nat
    BY <1>2
<1> QED BY <1>1, <1>3

LEMMA LastType ==
    ASSUME NEW c \in Nat, NEW S \in SUBSET (0..(c - 1))
    PROVE  Last(S) \in Nat \cup {Nil}
<1>1. CASE S = {} BY <1>1 DEF Last
<1>2. CASE S # {}
    <2>1. Last(S) \in S
        BY <1>2, LastMax
    <2>2. S \subseteq Nat
        OBVIOUS
    <2> QED BY <2>1, <2>2
<1> QED BY <1>1, <1>2

-----------------------------------------------------------------------------
(* The smallest bucket count that holds a number of keys.                  *)
LEMMA PowerType ==
    ASSUME NEW x \in Nat, Holding(x) # {}
    PROVE  get_power_bucket_count(x) \in BucketCounts /\ x <= get_power_bucket_count(x)
<1> DEFINE T == Holding(x)
           R == {ss \in Nat \X Nat : ss[1] < ss[2]}
<1>1. T \subseteq Nat /\ T # {}
    BY DEF Holding
<1>2. IsWellFoundedOn(R, Nat)
    BY NatLessThanWellFounded DEF OpToRel
<1>3. PICK n \in T : \A m \in T : ~(<<m, n>> \in R)
    <2> HIDE DEF R, T
    <2> QED BY <1>1, <1>2, WFMin, ZenonT(60)
<1>4. \A m \in T : n <= m
    <2> SUFFICES ASSUME NEW m \in T PROVE n <= m
        OBVIOUS
    <2>1. m \in Nat /\ n \in Nat
        BY <1>1
    <2>2. ~(m < n)
        BY <1>3, <2>1
    <2> QED BY <2>1, <2>2
<1>5. get_power_bucket_count(x) \in T
    <2> HIDE DEF T
    <2>1. \E k \in T : \A m \in T : k <= m
        BY <1>4
    <2> QED BY <2>1 DEF get_power_bucket_count, T
<1> QED BY <1>5 DEF Holding

LEMMA PowerOfCount ==
    ASSUME NEW x \in BucketCounts
    PROVE  get_power_bucket_count(x) = x
<1>1. x \in Holding(x) /\ \A m \in Holding(x) : x <= m
    BY DEF Holding
<1>2. Holding(x) \subseteq Nat
    BY DEF Holding
<1> DEFINE n == CHOOSE n \in Holding(x) : \A m \in Holding(x) : n <= m
<1>3. n \in Holding(x) /\ \A m \in Holding(x) : n <= m
    BY <1>1
<1> HIDE DEF n
<1>4. n = x
    BY <1>1, <1>2, <1>3
<1> QED BY <1>4 DEF n, get_power_bucket_count

(* build_hash_index.                                                       *)
Reindexed(e, c, n) ==
    /\ ArraysOK(IndexedEntries(e, c, n), IndexedFirst(e, c, n), c, n)
    /\ Indexed(IndexedEntries(e, c, n), IndexedFirst(e, c, n), c, n)
    /\ \A i \in 0..(c - 1) : IndexedEntries(e, c, n)[i].key = e[i].key

LEMMA Reindex ==
    ASSUME NEW n \in BucketCounts \cup {0}, NEW c \in 0..n, NEW m \in Nat, c <= m,
           NEW k \in Nat, NEW e \in [0..(m - 1) -> Entries(k)]
    PROVE  Reindexed(e, c, n)
<1> DEFINE E == IndexedEntries(e, c, n)
           F == IndexedFirst(e, c, n)
           L(i) == Last(InBucket(e, i, get_bucket(e[i].key, n), n))
<1>0. n \in Nat /\ c \in Nat /\ c <= n
    OBVIOUS
<1>1. \A i \in 0..(c - 1) : e[i].key \in Keys /\ e[i].value \in Values
    BY <1>0 DEF Entries
<1>2. \A i \in 0..(c - 1) : L(i) \in (0..(c - 1)) \cup {Nil}
    <2> SUFFICES ASSUME NEW i \in 0..(c - 1) PROVE L(i) \in (0..(c - 1)) \cup {Nil}
        OBVIOUS
    <2> DEFINE S == InBucket(e, i, get_bucket(e[i].key, n), n)
    <2>1. S \subseteq 0..(i - 1) /\ i \in Nat
        BY <1>0 DEF InBucket
    <2>2. CASE S = {}
        BY <2>2 DEF Last
    <2>3. CASE S # {}
        <3> HIDE DEF S
        <3>1. Last(S) \in S
            BY <2>1, <2>3, LastMax
        <3>2. S \subseteq 0..(c - 1)
            BY <2>1, <1>0
        <3> QED BY <3>1, <3>2 DEF S
    <2> QED BY <2>2, <2>3
<1>3. \A b \in 0..(n - 1) : Last(InBucket(e, c, b, n)) \in (0..(c - 1)) \cup {Nil}
    <2> SUFFICES ASSUME NEW b \in 0..(n - 1)
                 PROVE  Last(InBucket(e, c, b, n)) \in (0..(c - 1)) \cup {Nil}
        OBVIOUS
    <2> DEFINE S == InBucket(e, c, b, n)
    <2>1. S \subseteq 0..(c - 1)
        BY DEF InBucket
    <2> HIDE DEF S
    <2>2. CASE S = {}
        BY <2>2 DEF Last, S
    <2>3. CASE S # {}
        BY <1>0, <2>1, <2>3, LastMax DEF S
    <2> QED BY <2>2, <2>3
<1>4. E = [i \in 0..(c - 1) |-> [key |-> e[i].key, value |-> e[i].value, next |-> L(i)]]
    BY DEF IndexedEntries, Entry
<1> HIDE DEF E, L
<1>5. E \in [0..(c - 1) -> Entries(c)]
    BY <1>1, <1>2, <1>4 DEF Entries
<1>6. \A i \in 0..(c - 1) : E[i].key = e[i].key /\ E[i].value = e[i].value /\ E[i].next = L(i)
    BY <1>4
<1>7. F \in [0..(n - 1) -> (0..(c - 1)) \cup {Nil}]
    BY <1>3 DEF IndexedFirst
<1>8. ArraysOK(E, F, c, n)
    <2>1. c \in c..n
        BY <1>0
    <2> QED BY <1>0, <1>5, <1>7, <2>1 DEF ArraysOK
<1>9. \A b \in 0..(n - 1) : F[b] = Last(InBucket(E, c, b, n))
    <2> SUFFICES ASSUME NEW b \in 0..(n - 1) PROVE F[b] = Last(InBucket(E, c, b, n))
        OBVIOUS
    <2>1. InBucket(E, c, b, n) = InBucket(e, c, b, n)
        BY <1>6 DEF InBucket
    <2> QED BY <2>1 DEF IndexedFirst
<1>10. \A i \in 0..(c - 1) : E[i].next = Last(InBucket(E, i, get_bucket(E[i].key, n), n))
    <2> SUFFICES ASSUME NEW i \in 0..(c - 1)
                 PROVE  E[i].next = Last(InBucket(E, i, get_bucket(E[i].key, n), n))
        OBVIOUS
    <2>0. i \in Nat /\ \A j \in 0..(i - 1) : j \in 0..(c - 1)
        BY <1>0
    <2>1. InBucket(E, i, get_bucket(e[i].key, n), n) = InBucket(e, i, get_bucket(e[i].key, n), n)
        BY <2>0, <1>6 DEF InBucket
    <2> QED BY <2>1, <1>6 DEF L
<1> QED BY <1>6, <1>8, <1>9, <1>10 DEF E, Indexed, Reindexed

(* get_or_init: a new entry at the head of its chain.                      *)
GrownEntries(e, f, c, n, k, v) ==
    [i \in DOMAIN e \cup {c} |-> IF i = c THEN Entry(k, v, f[get_bucket(k, n)]) ELSE e[i]]
GrownFirst(f, c, n, k) == [f EXCEPT ![get_bucket(k, n)] = c]

Growth(e, f, c, n, k, v) ==
    /\ ArraysOK(GrownEntries(e, f, c, n, k, v), GrownFirst(f, c, n, k), c + 1, n)
    /\ \A i \in 0..(c - 1) : GrownEntries(e, f, c, n, k, v)[i] = e[i]
    /\ GrownEntries(e, f, c, n, k, v)[c].key = k
    /\ Indexed(e, f, c, n) =>
          Indexed(GrownEntries(e, f, c, n, k, v), GrownFirst(f, c, n, k), c + 1, n)

LEMMA Appended ==
    ASSUME NEW n \in BucketCounts, NEW c \in Nat, c < n, NEW e, NEW f,
           ArraysOK(e, f, c, n), NEW k \in Keys, NEW v \in Values
    PROVE  Growth(e, f, c, n, k, v)
<1> DEFINE b == get_bucket(k, n)
           e2 == GrownEntries(e, f, c, n, k, v)
           f2 == GrownFirst(f, c, n, k)
<1> /\ b = get_bucket(k, n)
    /\ e2 = [i \in DOMAIN e \cup {c} |-> IF i = c THEN Entry(k, v, f[b]) ELSE e[i]]
    /\ f2 = [f EXCEPT ![b] = c]
    BY DEF GrownEntries, GrownFirst
<1> HIDE DEF b, e2, f2
<1>0. n \in Nat \ {0} /\ b \in 0..(n - 1) /\ c + 1 \in 0..n
    BY BucketType
<1>1. PICK m \in c..n : /\ e \in [0..(m - 1) -> Entries(m)]
                        /\ f \in [0..(n - 1) -> (0..(m - 1)) \cup {Nil}]
    BY DEF ArraysOK
<1> DEFINE m2 == IF m = c THEN c + 1 ELSE m
<1>2. m2 \in (c + 1)..n /\ m \in Nat /\ DOMAIN e \cup {c} = 0..(m2 - 1) /\ 0..(m - 1) \subseteq 0..(m2 - 1)
    BY <1>0, <1>1
<1>3. c \in 0..(m2 - 1) /\ c \notin 0..(c - 1) /\ 0..(c - 1) \subseteq 0..(m - 1)
    BY <1>0, <1>2
<1> HIDE DEF m2
<1>4. Entry(k, v, f[b]) \in Entries(m2)
    BY <1>0, <1>1, <1>2 DEF Entries, Entry
<1>5. \A i \in 0..(m - 1) : e[i] \in Entries(m2)
    BY <1>1, <1>2 DEF Entries
<1>6. e2 \in [0..(m2 - 1) -> Entries(m2)]
    <2>1. \A i \in 0..(m2 - 1) : i # c => i \in 0..(m - 1)
        BY <1>1, <1>2
    <2> QED BY <1>2, <1>4, <1>5, <2>1
<1>7. f2 \in [0..(n - 1) -> (0..(m2 - 1)) \cup {Nil}]
    BY <1>0, <1>1, <1>2, <1>3
<1>8. ArraysOK(e2, f2, c + 1, n)
    BY <1>0, <1>2, <1>6, <1>7 DEF ArraysOK
<1>9. \A i \in 0..(c - 1) : e2[i] = e[i]
    BY <1>2, <1>3
<1>13. \A i \in 0..(c - 1) : e2[i].key = e[i].key
    BY <1>9
<1>10. e2[c] = Entry(k, v, f[b])
    BY <1>2, <1>3
<1>11. e2[c].key = k /\ e2[c].value = v /\ e2[c].next = f[b]
    BY <1>10 DEF Entry
<1>12. ASSUME Indexed(e, f, c, n) PROVE Indexed(e2, f2, c + 1, n)
    <2>1. ASSUME NEW a PROVE InBucket(e2, c, a, n) = InBucket(e, c, a, n)
        BY <1>13 DEF InBucket
    <2>2. ASSUME NEW a \in 0..(n - 1) PROVE f2[a] = Last(InBucket(e2, c + 1, a, n))
        <3>1. CASE a # b
            <4>1. InBucket(e2, c + 1, a, n) = InBucket(e2, c, a, n)
                BY <1>0, <1>11, <3>1 DEF InBucket
            <4>2. f2[a] = f[a]
                BY <3>1, <1>1
            <4> QED BY <4>1, <4>2, <2>1, <1>12 DEF Indexed
        <3>2. CASE a = b
            <4> DEFINE S == InBucket(e2, c + 1, a, n)
            <4>1. c \in S /\ S \in SUBSET Nat /\ \A j \in S : j <= c
                BY <1>0, <1>11, <3>2 DEF InBucket
            <4> HIDE DEF S
            <4>2. Last(S) = c
                BY <4>1, LastIs
            <4> QED BY <4>2, <3>2, <1>0, <1>1 DEF S
        <3> QED BY <3>1, <3>2
    <2>3. ASSUME NEW i \in 0..c
          PROVE  e2[i].next = Last(InBucket(e2, i, get_bucket(e2[i].key, n), n))
        <3>1. CASE i = c
            <4>1. f[b] = Last(InBucket(e, c, b, n))
                BY <1>0, <1>12 DEF Indexed
            <4> QED BY <3>1, <4>1, <2>1, <1>11
        <3>2. CASE i # c
            <4>0. i \in 0..(c - 1) /\ i \in Nat /\ \A j \in 0..(i - 1) : j \in 0..(c - 1)
                BY <3>2
            <4>1. InBucket(e2, i, get_bucket(e[i].key, n), n) = InBucket(e, i, get_bucket(e[i].key, n), n)
                BY <4>0, <1>13 DEF InBucket
            <4> QED BY <4>0, <4>1, <1>9, <1>12 DEF Indexed
        <3> QED BY <3>1, <3>2
    <2>4. (c + 1) - 1 = c
        OBVIOUS
    <2> QED BY <2>2, <2>3, <2>4 DEF Indexed
<1> QED BY <1>8, <1>9, <1>11, <1>12 DEF e2, f2, Growth

-----------------------------------------------------------------------------
(***************************************************************************)
(* The invariant.  The parts that a step leaves alone follow from these    *)
(* facts about the operation in progress.                                  *)
(***************************************************************************)
FindOps == [kind : {"find"}, key : Keys, at : Nat \cup {Nil}]
PutOps == [kind : {"put"}, key : Keys, value : Values, at : Nat \cup {Nil}]
PruneOps == [kind : {"prune"}, doomed : Predicates, i : Nat, v : Nat]

LEMMA OpKinds ==
    ASSUME op \in Ops
    PROVE  /\ op = Idle => op.kind = "idle"
           /\ op.kind = "find" => op \in FindOps
           /\ op.kind = "put" => op \in PutOps
           /\ op.kind = "prune" => op \in PruneOps
BY DEF Ops, Idle, Answer, FindOps, PutOps, PruneOps

LEMMA NewOps ==
    /\ Idle \in Ops /\ Idle.kind = "idle"
    /\ \A v \in Values \cup {None} : Answer(v) \in Ops /\ Answer(v).kind = "answer"
    /\ FindOps \subseteq Ops /\ PutOps \subseteq Ops /\ PruneOps \subseteq Ops
BY DEF Ops, Idle, Answer, FindOps, PutOps, PruneOps

(* An idle map in good order.                                              *)
Good(e, f, c, n) == Distinct(e, 0..(c - 1)) /\ Indexed(e, f, c, n)

LEMMA IdleIInv ==
    ASSUME ArraysOK(entries, first, key_count, bucket_count),
           op \in Ops, op.kind \in {"idle", "answer"}, torn \in BOOLEAN,
           ~torn => Good(entries, first, key_count, bucket_count),
           file = NoFile \/ ArraysOK(file.entries, file.first, file.key_count, file.bucket_count),
           FileOK
    PROVE  IInv
BY DEF IInv, TypeOK, Live, ChainsOK, WalkOK, PruneOK, Good

LEMMA GoodFromIInv ==
    ASSUME IInv, op.kind # "prune"
    PROVE  ~torn => Good(entries, first, key_count, bucket_count)
BY DEF IInv, Live, ChainsOK, Good

LEMMA EmptyOK ==
    ASSUME NEW n \in BucketCounts \cup {0}
    PROVE  ArraysOK(Empty, NoChains(n), 0, n) /\ Good(Empty, NoChains(n), 0, n)
<1>1. n \in Nat
    OBVIOUS
<1>2. 0 \in 0..n
    BY <1>1
<1>3. Empty \in [0..(0 - 1) -> Entries(0)]
    BY DEF Empty
<1>4. NoChains(n) \in [0..(n - 1) -> (0..(0 - 1)) \cup {Nil}]
    BY DEF NoChains
<1>5. ArraysOK(Empty, NoChains(n), 0, n)
    BY <1>2, <1>3, <1>4 DEF ArraysOK
<1>6. \A b \in 0..(n - 1) : InBucket(Empty, 0, b, n) = {}
    BY DEF InBucket
<1>7. Indexed(Empty, NoChains(n), 0, n)
    BY <1>6 DEF Indexed, NoChains, Last
<1> QED BY <1>5, <1>7 DEF Good, Distinct

LEMMA InitIInv == Init => IInv
<1> SUFFICES ASSUME Init PROVE IInv
    OBVIOUS
<1>1. ArraysOK(entries, first, key_count, bucket_count) /\ Good(entries, first, key_count, bucket_count)
    BY EmptyOK DEF Init
<1>2. FileOK
    BY DEF Init, FileOK
<1> QED BY <1>1, <1>2, NewOps, IdleIInv DEF Init

(* The same for the state after a step.                                    *)
LEMMA IdleNext ==
    ASSUME ArraysOK(entries', first', key_count', bucket_count'),
           op' \in Ops, op'.kind \in {"idle", "answer"}, torn' \in BOOLEAN,
           ~torn' => Good(entries', first', key_count', bucket_count'),
           file' = NoFile \/ ArraysOK(file'.entries, file'.first, file'.key_count, file'.bucket_count),
           FileOK'
    PROVE  IInv'
BY DEF IInv, TypeOK, Live, ChainsOK, WalkOK, PruneOK, Good

(* What a step that does not touch the file leaves as it was.              *)
LEMMA SameFile ==
    ASSUME IInv, file' = file
    PROVE  /\ file' = NoFile \/ ArraysOK(file'.entries, file'.first, file'.key_count, file'.bucket_count)
           /\ FileOK'
BY DEF IInv, TypeOK, FileOK

(* The indices, as numbers.                                                *)
LEMMA Indices ==
    ASSUME IInv
    PROVE  /\ bucket_count \in BucketCounts \cup {0} /\ bucket_count \in Nat
           /\ key_count \in Nat /\ key_count <= bucket_count
           /\ \E m \in key_count..bucket_count :
                 /\ m \in Nat /\ DOMAIN entries = 0..(m - 1)
                 /\ entries \in [0..(m - 1) -> Entries(m)]
                 /\ first \in [0..(bucket_count - 1) -> (0..(m - 1)) \cup {Nil}]
           /\ DOMAIN entries \subseteq Nat
           /\ op \in Ops /\ torn \in BOOLEAN
           /\ 0..(key_count - 1) \subseteq DOMAIN entries
           /\ \A i \in DOMAIN entries : /\ entries[i].key \in Keys
                                        /\ entries[i].value \in Values
                                        /\ entries[i].next \in DOMAIN entries \cup {Nil}
<1>1. ArraysOK(entries, first, key_count, bucket_count) /\ op \in Ops /\ torn \in BOOLEAN
    BY DEF IInv, TypeOK
<1>2. /\ bucket_count \in BucketCounts \cup {0} /\ bucket_count \in Nat
      /\ key_count \in Nat /\ key_count <= bucket_count
    BY <1>1 DEF ArraysOK
<1>3. PICK m \in key_count..bucket_count :
         /\ entries \in [0..(m - 1) -> Entries(m)]
         /\ first \in [0..(bucket_count - 1) -> (0..(m - 1)) \cup {Nil}]
    BY <1>1 DEF ArraysOK
<1>4. m \in Nat /\ DOMAIN entries = 0..(m - 1) /\ 0..(key_count - 1) \subseteq 0..(m - 1)
    BY <1>2, <1>3
<1>5. \A i \in 0..(m - 1) : /\ entries[i].key \in Keys /\ entries[i].value \in Values
                            /\ entries[i].next \in 0..(m - 1) \cup {Nil}
    BY <1>3 DEF Entries
<1>6. DOMAIN entries \subseteq Nat
    BY <1>4
<1> QED BY <1>1, <1>2, <1>3, <1>4, <1>5, <1>6

(* A step of a loop over a chain.                                          *)
StandsAt(a, k) ==
    /\ a # Nil => /\ a < key_count
                 /\ get_bucket(entries[a].key, bucket_count) = get_bucket(k, bucket_count)
    /\ \A i \in 0..(key_count - 1) : entries[i].key = k => a # Nil /\ i <= a

(* The greatest entry of a bucket, from where a chain is followed.         *)
LEMMA Reaches ==
    ASSUME IInv, NEW c \in 0..key_count, NEW k \in Keys, NEW a,
           a = Last(InBucket(entries, c, get_bucket(k, bucket_count), bucket_count)),
           \A i \in 0..(key_count - 1) : entries[i].key = k => i < c
    PROVE  StandsAt(a, k)
<1> DEFINE S == InBucket(entries, c, get_bucket(k, bucket_count), bucket_count)
<1>1. c \in Nat /\ key_count \in Nat /\ S \in SUBSET (0..(c - 1))
    BY Indices DEF InBucket
<1>2. \A i \in S : i < key_count /\ get_bucket(entries[i].key, bucket_count) = get_bucket(k, bucket_count)
    BY <1>1 DEF InBucket
<1>3. \A i \in 0..(key_count - 1) : entries[i].key = k => i \in S
    BY <1>1 DEF InBucket
<1> HIDE DEF S
<1>4. CASE S = {}
    <2>1. a = Nil
        BY <1>4 DEF Last, S
    <2> QED BY <2>1, <1>3, <1>4 DEF StandsAt
<1>5. CASE S # {}
    <2>1. a \in S /\ \A j \in S : j <= a
        BY <1>1, <1>5, LastMax DEF S
    <2>2. a # Nil
        BY <1>1, <2>1
    <2> QED BY <1>2, <1>3, <2>1, <2>2 DEF StandsAt
<1> QED BY <1>4, <1>5

(* The walk begins.                                                        *)
LEMMA Heads ==
    ASSUME IInv, op = Idle, NEW k \in Keys
    PROVE  /\ ChainOf(k) \in DOMAIN entries \cup {Nil}
           /\ ~torn => StandsAt(ChainOf(k), k)
<1>0. op.kind = "idle"
    BY NewOps
<1>1. CASE bucket_count = 0
    <2>1. ChainOf(k) = Nil /\ key_count = 0
        BY <1>1, Indices DEF ChainOf
    <2> QED BY <2>1 DEF StandsAt
<1>2. CASE bucket_count # 0
    <2>1. bucket_count \in Nat \ {0}
        BY <1>2, Indices
    <2> DEFINE b == get_bucket(k, bucket_count)
    <2>2. b \in 0..(bucket_count - 1)
        BY <2>1, BucketType
    <2>3. ChainOf(k) = first[b]
        BY <1>2 DEF ChainOf
    <2> HIDE DEF b
    <2>4. first[b] \in DOMAIN entries \cup {Nil}
        BY <2>2, Indices
    <2>5. ASSUME ~torn PROVE StandsAt(first[b], k)
        <3>1. Indexed(entries, first, key_count, bucket_count)
            BY <2>5, <1>0, GoodFromIInv DEF Good
        <3>2. first[b] = Last(InBucket(entries, key_count, b, bucket_count))
            BY <3>1, <2>2 DEF Indexed
        <3>3. key_count \in 0..key_count /\ \A i \in 0..(key_count - 1) : i < key_count
            BY Indices
        <3> QED BY <3>2, <3>3, Reaches DEF b
    <2> QED BY <2>3, <2>4, <2>5
<1> QED BY <1>1, <1>2

(* A step that only moves a walk.                                          *)
LEMMA WalkNext ==
    ASSUME IInv, op.kind # "prune",
           UNCHANGED <<entries, first, key_count, bucket_count, file, torn>>,
           op' \in Ops, op'.kind \in {"find", "put"},
           op'.at \in DOMAIN entries \cup {Nil}, ~torn => StandsAt(op'.at, op'.key)
    PROVE  IInv'
<1>1. TypeOK'
    BY DEF IInv, TypeOK
<1>2. FileOK'
    BY SameFile
<1>3. ASSUME ~torn PROVE Distinct(entries, 0..(key_count - 1)) /\ Indexed(entries, first, key_count, bucket_count)
    BY <1>3, GoodFromIInv DEF Good
<1>4. ASSUME ~torn' PROVE Distinct(entries', Live') /\ ChainsOK' /\ PruneOK'
    BY <1>3, <1>4 DEF Live, ChainsOK, PruneOK
<1>5. ASSUME ~torn' PROVE WalkOK'
    BY <1>5 DEF WalkOK, StandsAt
<1> QED BY <1>1, <1>2, <1>4, <1>5 DEF IInv

LEMMA BeginFindIInv ==
    ASSUME IInv, NEW k \in Keys, BeginFind(k) PROVE IInv'
<1>1. op = Idle /\ op.kind # "prune"
    BY NewOps DEF BeginFind
<1>2. op' = [kind |-> "find", key |-> k, at |-> ChainOf(k)]
    BY DEF BeginFind
<1>3. ChainOf(k) \in Nat \cup {Nil}
    BY <1>1, Heads, Indices
<1>4. op' \in Ops
    BY <1>2, <1>3, NewOps DEF FindOps
<1>5. op'.kind = "find" /\ op'.key = k /\ op'.at = ChainOf(k)
    BY <1>2
<1> QED BY <1>1, <1>4, <1>5, Heads, WalkNext DEF BeginFind

LEMMA BeginPutIInv ==
    ASSUME IInv, NEW k \in Keys, NEW v \in Values, BeginPut(k, v) PROVE IInv'
<1>1. op = Idle /\ op.kind # "prune"
    BY NewOps DEF BeginPut
<1>2. op' = [kind |-> "put", key |-> k, value |-> v, at |-> ChainOf(k)]
    BY DEF BeginPut
<1>3. ChainOf(k) \in Nat \cup {Nil}
    BY <1>1, Heads, Indices
<1>4. op' \in Ops
    BY <1>2, <1>3, NewOps DEF PutOps
<1>5. op'.kind = "put" /\ op'.key = k /\ op'.at = ChainOf(k)
    BY <1>2
<1> QED BY <1>1, <1>4, <1>5, Heads, WalkNext DEF BeginPut

LEMMA FollowIInv ==
    ASSUME IInv, Follow PROVE IInv'
<1> DEFINE a == entries[op.at].next
<1>1. /\ op.kind \in {"find", "put"} /\ op.at # Nil /\ entries[op.at].key # op.key
      /\ op' = [op EXCEPT !.at = a]
    BY DEF Follow, Walks
<1>2. op.at \in DOMAIN entries /\ op.key \in Keys
    BY <1>1, OpKinds, Indices DEF IInv, TypeOK, FindOps, PutOps
<1>3. a \in DOMAIN entries \cup {Nil} /\ a \in Nat \cup {Nil}
    BY <1>2, Indices
<1> HIDE DEF a
<1>4. op' \in Ops /\ op'.kind = op.kind /\ op'.key = op.key /\ op'.at = a
    <2>1. CASE op.kind = "find"
        <3>1. op \in FindOps
            BY <2>1, OpKinds, Indices
        <3> QED BY <3>1, <1>1, <1>3, NewOps DEF FindOps
    <2>2. CASE op.kind = "put"
        <3>1. op \in PutOps
            BY <2>2, OpKinds, Indices
        <3> QED BY <3>1, <1>1, <1>3, NewOps DEF PutOps
    <2> QED BY <1>1, <2>1, <2>2
<1>5. ASSUME ~torn PROVE StandsAt(a, op.key)
    <2>1. WalkOK /\ Indexed(entries, first, key_count, bucket_count)
        BY <1>1, <1>5, GoodFromIInv DEF IInv, Good
    <2>2. /\ op.at < key_count
          /\ get_bucket(entries[op.at].key, bucket_count) = get_bucket(op.key, bucket_count)
          /\ \A i \in 0..(key_count - 1) : entries[i].key = op.key => i <= op.at
        BY <1>1, <2>1 DEF WalkOK
    <2>3. op.at \in Nat /\ key_count \in Nat
        BY <1>2, Indices
    <2>4. op.at \in 0..(key_count - 1) /\ op.at \in 0..key_count
        BY <2>2, <2>3
    <2>5. a = Last(InBucket(entries, op.at, get_bucket(op.key, bucket_count), bucket_count))
        BY <2>1, <2>2, <2>4 DEF Indexed, a
    <2>6. \A i \in 0..(key_count - 1) : entries[i].key = op.key => i < op.at
        BY <1>1, <2>2, <2>3
    <2> QED BY <1>2, <2>4, <2>5, <2>6, Reaches
<1> QED BY <1>1, <1>3, <1>4, <1>5, WalkNext DEF Follow

(* A step that ends an operation and leaves the arrays as they are.        *)
LEMMA EndNext ==
    ASSUME IInv, op.kind # "prune",
           UNCHANGED <<entries, first, key_count, bucket_count, file, torn>>,
           op' \in Ops, op'.kind \in {"idle", "answer"}
    PROVE  IInv'
<1>1. ArraysOK(entries, first, key_count, bucket_count) /\ torn \in BOOLEAN
    BY DEF IInv, TypeOK
<1>2. ~torn => Good(entries, first, key_count, bucket_count)
    BY GoodFromIInv
<1> QED BY <1>1, <1>2, SameFile, IdleNext

LEMMA FindEndsIInv ==
    ASSUME IInv, FindEnds PROVE IInv'
<1>1. op.kind = "find" /\ op.kind # "prune"
    BY DEF FindEnds
<1>2. op.at \in DOMAIN entries \cup {Nil}
    BY <1>1 DEF IInv, TypeOK
<1>3. op' \in Ops /\ op'.kind = "answer"
    <2>1. CASE op.at = Nil
        BY <2>1, NewOps DEF FindEnds
    <2>2. CASE op.at # Nil
        <3>1. entries[op.at].value \in Values
            BY <1>2, <2>2, Indices
        <3> QED BY <2>2, <3>1, NewOps DEF FindEnds
    <2> QED BY <2>1, <2>2
<1> QED BY <1>1, <1>3, EndNext DEF FindEnds

LEMMA ReturnIInv ==
    ASSUME IInv, Return PROVE IInv'
<1>1. op.kind # "prune"
    BY DEF Return
<1> QED BY <1>1, NewOps, EndNext DEF Return

LEMMA InsertThrowsIInv ==
    ASSUME IInv, InsertThrows PROVE IInv'
<1>1. op.kind # "prune"
    BY DEF InsertThrows
<1> QED BY <1>1, NewOps, EndNext DEF InsertThrows

LEMMA OverwriteIInv ==
    ASSUME IInv, Overwrite PROVE IInv'
<1>1. op.kind = "put" /\ op.kind # "prune" /\ op.at # Nil
    BY DEF Overwrite
<1>2. op.at \in DOMAIN entries /\ op.value \in Values
    BY <1>1, OpKinds, Indices DEF IInv, TypeOK, PutOps
<1>3. PICK m \in key_count..bucket_count :
         /\ m \in Nat /\ DOMAIN entries = 0..(m - 1)
         /\ entries \in [0..(m - 1) -> Entries(m)]
         /\ first \in [0..(bucket_count - 1) -> (0..(m - 1)) \cup {Nil}]
    BY Indices
<1>4. entries' = [entries EXCEPT ![op.at].value = op.value]
    BY DEF Overwrite
<1>5. entries' = [i \in 0..(m - 1) |-> IF i = op.at THEN [entries[i] EXCEPT !.value = op.value]
                                                  ELSE entries[i]]
    BY <1>2, <1>3, <1>4
<1>6. \A i \in 0..(m - 1) :
         /\ entries'[i] \in Entries(m)
         /\ entries'[i].key = entries[i].key /\ entries'[i].next = entries[i].next
    <2> SUFFICES ASSUME NEW i \in 0..(m - 1)
                 PROVE  /\ entries'[i] \in Entries(m)
                        /\ entries'[i].key = entries[i].key /\ entries'[i].next = entries[i].next
        OBVIOUS
    <2>1. entries[i] \in Entries(m)
        BY <1>3
    <2>2. [entries[i] EXCEPT !.value = op.value] \in Entries(m)
        BY <2>1, <1>2 DEF Entries
    <2>3. CASE i = op.at
        BY <2>1, <2>2, <2>3, <1>5 DEF Entries
    <2>4. CASE i # op.at
        BY <2>1, <2>4, <1>5
    <2> QED BY <2>3, <2>4
<1>7. entries' \in [0..(m - 1) -> Entries(m)]
    BY <1>5, <1>6
<1>8. ArraysOK(entries', first', key_count', bucket_count')
    BY <1>3, <1>7, Indices DEF Overwrite, ArraysOK
<1>9. 0..(key_count - 1) \subseteq 0..(m - 1) /\ key_count \in Nat
    BY Indices, <1>3
<1>10. ASSUME ~torn PROVE Good(entries', first, key_count, bucket_count)
    <2>1. Good(entries, first, key_count, bucket_count)
        BY <1>1, <1>10, GoodFromIInv
    <2>2. Distinct(entries', 0..(key_count - 1))
        BY <1>6, <1>9, <2>1 DEF Good, Distinct
    <2>3. ASSUME NEW c \in 0..key_count, NEW b
          PROVE  InBucket(entries', c, b, bucket_count) = InBucket(entries, c, b, bucket_count)
        <3>1. \A i \in 0..(c - 1) : i \in 0..(m - 1)
            BY <1>9
        <3> QED BY <1>6, <3>1 DEF InBucket
    <2>4. \A b \in 0..(bucket_count - 1) : first[b] = Last(InBucket(entries', key_count, b, bucket_count))
        <3>1. key_count \in 0..key_count
            BY <1>9
        <3> QED BY <2>1, <2>3, <3>1 DEF Good, Indexed
    <2>5. \A i \in 0..(key_count - 1) :
             entries'[i].next = Last(InBucket(entries', i, get_bucket(entries'[i].key, bucket_count), bucket_count))
        <3> SUFFICES ASSUME NEW i \in 0..(key_count - 1)
                     PROVE  entries'[i].next = Last(InBucket(entries', i, get_bucket(entries'[i].key, bucket_count), bucket_count))
            OBVIOUS
        <3>1. i \in 0..key_count /\ i \in 0..(m - 1)
            BY <1>9
        <3>2. entries[i].next = Last(InBucket(entries, i, get_bucket(entries[i].key, bucket_count), bucket_count))
            BY <2>1 DEF Good, Indexed
        <3> QED BY <1>6, <2>3, <3>1, <3>2
    <2> QED BY <2>2, <2>4, <2>5 DEF Good, Indexed
<1>11. op' = Idle /\ UNCHANGED <<first, key_count, bucket_count, file, torn>>
    BY DEF Overwrite
<1> QED BY <1>8, <1>10, <1>11, Indices, NewOps, SameFile, IdleNext

LEMMA SaveIInv ==
    ASSUME IInv, Save PROVE IInv'
<1>1. op = Idle /\ op.kind = "idle" /\ ~torn /\ UNCHANGED <<entries, first, key_count, bucket_count, op, torn>>
    BY NewOps DEF Save
<1>2. /\ file'.entries = entries /\ file'.first = first
      /\ file'.key_count = key_count /\ file'.bucket_count = bucket_count
    BY DEF Save
<1>3. Good(entries, first, key_count, bucket_count)
    BY <1>1, GoodFromIInv
<1>4. ArraysOK(entries, first, key_count, bucket_count)
    BY DEF IInv, TypeOK
<1>5. FileOK'
    BY <1>2, <1>3 DEF FileOK, Good
<1>6. ArraysOK(file'.entries, file'.first, file'.key_count, file'.bucket_count)
    BY <1>2, <1>4
<1>7. ArraysOK(entries', first', key_count', bucket_count') /\ Good(entries', first', key_count', bucket_count')
    BY <1>1, <1>3, <1>4
<1>8. op' \in Ops /\ op'.kind = "idle" /\ torn' = FALSE
    BY <1>1, NewOps, Indices
<1> QED BY <1>5, <1>6, <1>7, <1>8, IdleNext

LEMMA ClearIInv ==
    ASSUME IInv, Clear PROVE IInv'
<1>1. ArraysOK(Empty, NoChains(0), 0, 0) /\ Good(Empty, NoChains(0), 0, 0)
    BY EmptyOK
<1> QED BY <1>1, NewOps, SameFile, IdleNext DEF Clear

(* What a file holds.                                                      *)
LEMMA FileHas ==
    ASSUME IInv, file # NoFile
    PROVE  /\ ArraysOK(file.entries, file.first, file.key_count, file.bucket_count)
           /\ Good(file.entries, file.first, file.key_count, file.bucket_count)
           /\ file.bucket_count \in BucketCounts \cup {0}
           /\ file.bucket_count \in Nat
           /\ file.key_count \in Nat /\ file.key_count <= file.bucket_count
<1>1. /\ ArraysOK(file.entries, file.first, file.key_count, file.bucket_count)
      /\ Good(file.entries, file.first, file.key_count, file.bucket_count)
    BY DEF IInv, TypeOK, FileOK, Good
<1>2. ASSUME NEW n, NEW c, NEW e, NEW f, ArraysOK(e, f, c, n)
      PROVE  n \in BucketCounts \cup {0} /\ n \in Nat /\ c \in Nat /\ c <= n
    <2>1. n \in BucketCounts \cup {0} /\ c \in 0..n
        BY <1>2 DEF ArraysOK
    <2> QED BY <2>1
<1> QED BY <1>1, <1>2

(* reserve gives a power of two that holds the file.                       *)
LEMMA ReservedType ==
    ASSUME IInv, file # NoFile
    PROVE  /\ Reserved \in BucketCounts \cup {0} /\ Reserved \in Nat
           /\ file.bucket_count <= Reserved
<1>1. bucket_count \in BucketCounts \cup {0} /\ file.bucket_count \in BucketCounts \cup {0}
    BY Indices, FileHas
<1>2. CASE bucket_count >= file.bucket_count
    BY <1>1, <1>2 DEF Reserved
<1>3. CASE ~(bucket_count >= file.bucket_count)
    <2>1. file.bucket_count \in BucketCounts
        BY <1>1, <1>3
    <2>2. Reserved = get_power_bucket_count(file.bucket_count)
        BY <1>3 DEF Reserved
    <2>3. Reserved = file.bucket_count
        BY <2>1, <2>2, PowerOfCount
    <2>4. file.bucket_count \in Nat
        BY <2>1
    <2> QED BY <2>1, <2>3, <2>4
<1> QED BY <1>2, <1>3

LEMMA LoadThrowsIInv ==
    ASSUME IInv, NEW n, LoadThrows(n) PROVE IInv'
<1>1. n \in BucketCounts \cup {0}
    BY ReservedType, Indices DEF LoadThrows
<1>2. ArraysOK(Empty, NoChains(n), 0, n) /\ Good(Empty, NoChains(n), 0, n)
    BY <1>1, EmptyOK
<1> QED BY <1>2, NewOps, SameFile, IdleNext DEF LoadThrows

LEMMA LoadIInv ==
    ASSUME IInv, Load PROVE IInv'
<1>0. file # NoFile /\ op = Idle /\ UNCHANGED <<op, file>> /\ torn' = FALSE /\ key_count' = file.key_count
    BY DEF Load
<1>1. /\ ArraysOK(file.entries, file.first, file.key_count, file.bucket_count)
      /\ Good(file.entries, file.first, file.key_count, file.bucket_count)
      /\ file.bucket_count \in BucketCounts \cup {0} /\ file.bucket_count \in Nat
      /\ file.key_count \in Nat /\ file.key_count <= file.bucket_count
    BY <1>0, FileHas
<1>2. ArraysOK(entries', first', key_count', bucket_count') /\ Good(entries', first', key_count', bucket_count')
    <2>1. CASE Rehashed
        <3> DEFINE e == file.entries
                   c == file.key_count
                   n == Reserved
        <3>1. entries' = IndexedEntries(e, c, n) /\ first' = IndexedFirst(e, c, n) /\ bucket_count' = n
            BY <2>1 DEF Load
        <3>2. PICK m \in c..file.bucket_count : e \in [0..(m - 1) -> Entries(m)]
            BY <1>1 DEF ArraysOK
        <3>3. n \in BucketCounts \cup {0} /\ n \in Nat /\ file.bucket_count <= n
            BY <1>0, ReservedType
        <3>4. c \in 0..n /\ c \in Nat /\ m \in Nat /\ c <= m
            <4>1. c \in Nat /\ c <= file.bucket_count /\ file.bucket_count \in Nat
                BY <1>1
            <4> HIDE DEF c, n
            <4> QED BY <3>2, <3>3, <4>1
        <3>5. Distinct(e, 0..(c - 1))
            BY <1>1 DEF Good
        <3> HIDE DEF e, c, n
        <3>6. /\ ArraysOK(IndexedEntries(e, c, n), IndexedFirst(e, c, n), c, n)
              /\ Indexed(IndexedEntries(e, c, n), IndexedFirst(e, c, n), c, n)
              /\ \A i \in 0..(c - 1) : IndexedEntries(e, c, n)[i].key = e[i].key
            <4>1. Reindexed(e, c, n)
                BY <3>2, <3>3, <3>4, Reindex
            <4> QED BY <4>1 DEF Reindexed
        <3>7. Distinct(IndexedEntries(e, c, n), 0..(c - 1))
            BY <3>5, <3>6 DEF Distinct
        <3>8. key_count' = c
            BY <1>0 DEF c
        <3> QED BY <3>1, <3>6, <3>7, <3>8 DEF Good
    <2>2. CASE ~Rehashed
        <3>1. /\ entries' = file.entries /\ bucket_count' = file.bucket_count
              /\ first' = [b \in 0..(file.bucket_count - 1) |->
                              IF b < file.bucket_count THEN file.first[b] ELSE Nil]
            BY <2>2 DEF Load, LoadedBuckets
        <3>2. \A b \in 0..(file.bucket_count - 1) : b < file.bucket_count
            BY <1>1
        <3>3. DOMAIN file.first = 0..(file.bucket_count - 1) /\ file.first = [b \in DOMAIN file.first |-> file.first[b]]
            BY <1>1 DEF ArraysOK
        <3>4. first' = file.first
            BY <3>1, <3>2, <3>3
        <3> QED BY <1>0, <1>1, <3>1, <3>4
    <2> QED BY <2>1, <2>2
<1> QED BY <1>0, <1>2, NewOps, SameFile, IdleNext

LEMMA LoadTearsIInv ==
    ASSUME IInv, NEW cut, LoadTears(cut) PROVE IInv'
<1>0. /\ file # NoFile /\ op = Idle /\ UNCHANGED <<op, file>> /\ torn' = TRUE
      /\ cut \in 1..(file.bucket_count - 1)
      /\ entries' = file.entries /\ key_count' = 0 /\ bucket_count' = Reserved
      /\ first' = [b \in 0..(Reserved - 1) |-> IF b < cut THEN file.first[b] ELSE Nil]
    BY DEF LoadTears
<1>1. /\ file.bucket_count \in BucketCounts \cup {0} /\ file.bucket_count \in Nat
      /\ file.key_count \in Nat /\ file.key_count <= file.bucket_count
      /\ ArraysOK(file.entries, file.first, file.key_count, file.bucket_count)
    BY <1>0, FileHas
<1>2. Reserved \in BucketCounts \cup {0} /\ Reserved \in Nat /\ file.bucket_count <= Reserved
    BY <1>0, ReservedType
<1>3. PICK m \in file.key_count..file.bucket_count :
         /\ file.entries \in [0..(m - 1) -> Entries(m)]
         /\ file.first \in [0..(file.bucket_count - 1) -> (0..(m - 1)) \cup {Nil}]
    BY <1>1 DEF ArraysOK
<1>4. \A b \in 0..(Reserved - 1) : b < cut => b \in 0..(file.bucket_count - 1)
    BY <1>0, <1>1, <1>2
<1>5. first' \in [0..(Reserved - 1) -> (0..(m - 1)) \cup {Nil}]
    BY <1>0, <1>3, <1>4
<1>6. m \in 0..Reserved /\ 0 \in 0..Reserved
    BY <1>1, <1>2, <1>3
<1>7. ArraysOK(entries', first', key_count', bucket_count')
    BY <1>0, <1>2, <1>3, <1>5, <1>6 DEF ArraysOK
<1> QED BY <1>0, <1>7, NewOps, SameFile, IdleNext

(* A put that came to the end of its chain has a key that is not there.    *)
LEMMA Absent ==
    ASSUME IInv, ~torn, op.kind = "put", op.at = Nil
    PROVE  \A i \in 0..(key_count - 1) : entries[i].key # op.key
BY DEF IInv, WalkOK

LEMMA InsertIInv ==
    ASSUME IInv, Insert PROVE IInv'
<1>0. /\ op.kind = "put" /\ op.kind # "prune" /\ op.at = Nil
      /\ op' = Idle /\ key_count' = key_count + 1 /\ UNCHANGED <<file, torn>>
    BY DEF Insert
<1>1. op.key \in Keys /\ op.value \in Values
    BY <1>0, OpKinds, Indices DEF PutOps
<1>2. key_count \in Nat /\ bucket_count \in BucketCounts \cup {0} /\ key_count <= bucket_count
    BY Indices
<1>3. ASSUME NEW n \in BucketCounts, key_count < n, NEW e, NEW f, AppendTo(e, f, n),
             ArraysOK(e, f, key_count, n), ~torn => Good(e, f, key_count, n),
             ~torn => \A i \in 0..(key_count - 1) : e[i].key # op.key
      PROVE  /\ ArraysOK(entries', first', key_count', bucket_count')
             /\ ~torn => Good(entries', first', key_count', bucket_count')
    <2> DEFINE e2 == GrownEntries(e, f, key_count, n, op.key, op.value)
               f2 == GrownFirst(f, key_count, n, op.key)
    <2>1. entries' = e2 /\ first' = f2 /\ bucket_count' = n
        BY <1>3 DEF AppendTo, LinkOf, GrownEntries, GrownFirst
    <2>2. /\ ArraysOK(e2, f2, key_count + 1, n)
          /\ \A i \in 0..(key_count - 1) : e2[i] = e[i]
          /\ e2[key_count].key = op.key
          /\ Indexed(e, f, key_count, n) => Indexed(e2, f2, key_count + 1, n)
        <3>1. key_count \in Nat /\ key_count < n /\ ArraysOK(e, f, key_count, n)
            BY <1>2, <1>3
        <3>2. op.key \in Keys /\ op.value \in Values
            BY <1>1
        <3> DEFINE c == key_count
                   k == op.key
                   v == op.value
        <3>3. c \in Nat /\ c < n /\ ArraysOK(e, f, c, n) /\ k \in Keys /\ v \in Values
            BY <3>1, <3>2
        <3> HIDE DEF c, k, v
        <3>4. Growth(e, f, c, n, k, v)
            BY <3>3, Appended
        <3> QED BY <3>4 DEF c, k, v, Growth
    <2> HIDE DEF e2, f2
    <2>3. ASSUME ~torn PROVE Distinct(e2, 0..key_count)
        <3>1. Distinct(e, 0..(key_count - 1)) /\ \A i \in 0..(key_count - 1) : e[i].key # op.key
            BY <1>3, <2>3 DEF Good
        <3>2. \A i \in 0..(key_count - 1) : e2[i].key = e[i].key /\ e2[i].key # op.key
            BY <2>2, <3>1
        <3>3. \A i \in 0..key_count : i = key_count \/ i \in 0..(key_count - 1)
            BY <1>2
        <3> QED BY <2>2, <3>1, <3>2, <3>3 DEF Distinct
    <2>4. (key_count + 1) - 1 = key_count
        BY <1>2
    <2>5. ASSUME ~torn PROVE Good(e2, f2, key_count + 1, n)
        BY <1>3, <2>2, <2>3, <2>4, <2>5 DEF Good
    <2> QED BY <1>0, <2>1, <2>2, <2>5
<1>4. ~torn => /\ Good(entries, first, key_count, bucket_count)
               /\ \A i \in 0..(key_count - 1) : entries[i].key # op.key
    BY <1>0, GoodFromIInv, Absent
<1>5. CASE Full
    <2> DEFINE n == get_power_bucket_count(Capacity)
               e == IndexedEntries(entries, key_count, n)
               f == IndexedFirst(entries, key_count, n)
    <2>1. Holding(Capacity) # {} /\ AppendTo(e, f, n)
        BY <1>5 DEF Insert
    <2>2. Capacity \in Nat /\ key_count < Capacity
        BY <1>2 DEF Capacity
    <2>3. n \in BucketCounts /\ Capacity <= n
        BY <2>1, <2>2, PowerType
    <2> HIDE DEF n
    <2>4. key_count < n /\ key_count \in 0..n
        BY <1>2, <2>2, <2>3
    <2>5. PICK m \in Nat : key_count <= m /\ entries \in [0..(m - 1) -> Entries(m)]
        BY <1>2, Indices
    <2>6. /\ ArraysOK(e, f, key_count, n) /\ Indexed(e, f, key_count, n)
          /\ \A i \in 0..(key_count - 1) : e[i].key = entries[i].key
        <3>1. Reindexed(entries, key_count, n)
            BY <2>3, <2>4, <2>5, Reindex
        <3> QED BY <3>1 DEF Reindexed
    <2> HIDE DEF e, f
    <2>7. ~torn => Good(e, f, key_count, n) /\ \A i \in 0..(key_count - 1) : e[i].key # op.key
        BY <1>4, <2>6 DEF Good, Distinct
    <2>8. /\ ArraysOK(entries', first', key_count', bucket_count')
          /\ ~torn => Good(entries', first', key_count', bucket_count')
        BY <1>3, <2>1, <2>3, <2>4, <2>6, <2>7
    <2> QED BY <1>0, <2>8, Indices, NewOps, SameFile, IdleNext
<1>6. CASE ~Full
    <2>1. AppendTo(entries, first, bucket_count)
        BY <1>6 DEF Insert
    <2>2. bucket_count \in BucketCounts /\ key_count < bucket_count
        BY <1>2, <1>6 DEF Full
    <2>3. ArraysOK(entries, first, key_count, bucket_count)
        BY DEF IInv, TypeOK
    <2>4. /\ ArraysOK(entries', first', key_count', bucket_count')
          /\ ~torn => Good(entries', first', key_count', bucket_count')
        BY <1>3, <1>4, <2>1, <2>2, <2>3
    <2> QED BY <1>0, <2>4, Indices, NewOps, SameFile, IdleNext
<1> QED BY <1>5, <1>6

-----------------------------------------------------------------------------
(* prune.                                                                  *)
LEMMA PruneHas ==
    ASSUME IInv, op.kind = "prune"
    PROVE  /\ op \in PruneOps
           /\ op.doomed \in Predicates /\ op.i \in Nat /\ op.v \in Nat
           /\ op.v <= op.i /\ op.i <= key_count
           /\ Live = (0..(op.v - 1)) \cup (op.i..(key_count - 1))
           /\ ~torn => Distinct(entries, Live) /\ PruneOK
           /\ ~torn /\ op.i = op.v => Indexed(entries, first, key_count, bucket_count)
<1>1. op \in PruneOps
    BY OpKinds, Indices
<1>2. op.doomed \in Predicates /\ op.i \in Nat /\ op.v \in Nat
    BY <1>1 DEF PruneOps
<1>3. op.v <= op.i /\ op.i <= key_count
    BY DEF IInv, TypeOK
<1>4. Live = (0..(op.v - 1)) \cup (op.i..(key_count - 1))
    BY DEF Live
<1>5. ~torn => Distinct(entries, Live) /\ PruneOK
    BY DEF IInv
<1>6. ~torn /\ op.i = op.v => Indexed(entries, first, key_count, bucket_count)
    BY DEF IInv, ChainsOK
<1> QED BY <1>1, <1>2, <1>3, <1>4, <1>5, <1>6

(* A step of the loop over the entries.                                    *)
LEMMA PruneNext ==
    ASSUME IInv, ArraysOK(entries', first', key_count', bucket_count'),
           op' \in Ops, op'.kind = "prune", op'.v <= op'.i, op'.i <= key_count',
           file' = file, torn' = torn,
           ~torn => /\ Distinct(entries', (0..(op'.v - 1)) \cup (op'.i..(key_count' - 1)))
                    /\ op'.i = op'.v => Indexed(entries', first', key_count', bucket_count')
                    /\ \A i \in 0..(op'.v - 1) : entries'[i].value \notin op'.doomed
    PROVE  IInv'
<1>1. TypeOK'
    BY SameFile, Indices DEF TypeOK
<1>2. FileOK'
    BY SameFile
<1>3. ASSUME ~torn' PROVE Distinct(entries', Live') /\ ChainsOK' /\ PruneOK' /\ WalkOK'
    BY <1>3 DEF Live, ChainsOK, PruneOK, WalkOK
<1> QED BY <1>1, <1>2, <1>3 DEF IInv

LEMMA BeginPruneIInv ==
    ASSUME IInv, NEW D \in Predicates, BeginPrune(D) PROVE IInv'
<1>1. /\ op.kind # "prune" /\ op' = [kind |-> "prune", doomed |-> D, i |-> 0, v |-> 0]
      /\ UNCHANGED <<entries, first, key_count, bucket_count, file, torn>>
    BY NewOps DEF BeginPrune
<1>2. op' \in Ops /\ op'.kind = "prune" /\ op'.i = 0 /\ op'.v = 0
    BY <1>1, NewOps DEF PruneOps
<1>3. ArraysOK(entries, first, key_count, bucket_count) /\ key_count \in Nat
    BY Indices DEF IInv, TypeOK
<1>4. ~torn => Good(entries, first, key_count, bucket_count)
    BY <1>1, GoodFromIInv
<1>5. (0..(0 - 1)) \cup (0..(key_count - 1)) = 0..(key_count - 1)
    OBVIOUS
<1>6. ~torn => Distinct(entries, (0..(0 - 1)) \cup (0..(key_count - 1)))
    BY <1>4, <1>5 DEF Good
<1>7. \A i \in 0..(0 - 1) : entries[i].value \notin op'.doomed
    OBVIOUS
<1> QED BY <1>1, <1>2, <1>3, <1>4, <1>6, <1>7, PruneNext DEF Good

LEMMA DropIInv ==
    ASSUME IInv, Drop PROVE IInv'
<1>1. /\ op.kind = "prune" /\ op.i < key_count /\ op' = [op EXCEPT !.i = @ + 1]
      /\ UNCHANGED <<entries, first, key_count, bucket_count, file, torn>>
    BY DEF Drop
<1>2. /\ op \in PruneOps /\ op.i \in Nat /\ op.v \in Nat /\ op.v <= op.i
      /\ Live = (0..(op.v - 1)) \cup (op.i..(key_count - 1))
      /\ ~torn => Distinct(entries, Live) /\ PruneOK
    BY <1>1, PruneHas
<1>3. ArraysOK(entries, first, key_count, bucket_count) /\ key_count \in Nat
    BY Indices DEF IInv, TypeOK
<1>4. /\ op' \in PruneOps /\ op'.kind = "prune" /\ op'.i = op.i + 1 /\ op'.v = op.v
      /\ op'.doomed = op.doomed
    BY <1>1, <1>2 DEF PruneOps
<1>5. (0..(op.v - 1)) \cup ((op.i + 1)..(key_count - 1)) \subseteq Live
    BY <1>2, <1>3
<1>6. ~torn => Distinct(entries, (0..(op.v - 1)) \cup ((op.i + 1)..(key_count - 1)))
    BY <1>2, <1>5 DEF Distinct
<1>7. ~torn => \A i \in 0..(op.v - 1) : entries[i].value \notin op.doomed
    BY <1>1, <1>2 DEF PruneOK
<1>8. op.v <= op.i + 1 /\ op.i + 1 <= key_count /\ op.i + 1 # op.v
    BY <1>1, <1>2, <1>3
<1>9. op' \in Ops
    BY <1>4, NewOps
<1> QED BY <1>1, <1>3, <1>4, <1>6, <1>7, <1>8, <1>9, PruneNext

LEMMA KeepIInv ==
    ASSUME IInv, Keep PROVE IInv'
<1> DEFINE i == op.i
           v == op.v
<1>1. /\ op.kind = "prune" /\ i < key_count
      /\ op' = [op EXCEPT !.i = @ + 1, !.v = @ + 1]
      /\ entries' = [entries EXCEPT ![v].key = entries[i].key, ![v].value = entries[i].value]
      /\ entries[i].value \notin op.doomed
      /\ UNCHANGED <<first, key_count, bucket_count, file, torn>>
    BY DEF Keep
<1>2. /\ op \in PruneOps /\ i \in Nat /\ v \in Nat /\ v <= i
      /\ Live = (0..(v - 1)) \cup (i..(key_count - 1))
      /\ ~torn => Distinct(entries, Live) /\ PruneOK
      /\ ~torn /\ i = v => Indexed(entries, first, key_count, bucket_count)
    BY <1>1, PruneHas
<1>3. PICK m \in key_count..bucket_count :
         /\ m \in Nat /\ DOMAIN entries = 0..(m - 1)
         /\ entries \in [0..(m - 1) -> Entries(m)]
         /\ first \in [0..(bucket_count - 1) -> (0..(m - 1)) \cup {Nil}]
    BY Indices
<1>4. key_count \in Nat /\ bucket_count \in BucketCounts \cup {0} /\ key_count <= bucket_count /\ key_count <= m
    BY <1>3, Indices
<1>5. /\ op' \in PruneOps /\ op'.kind = "prune" /\ op'.i = i + 1 /\ op'.v = v + 1
      /\ op'.doomed = op.doomed
    <2> DEFINE o == [op EXCEPT !.i = @ + 1]
    <2>1. /\ o \in PruneOps /\ o.kind = "prune" /\ o.i = op.i + 1 /\ o.v = op.v
          /\ o.doomed = op.doomed
        BY <1>2 DEF PruneOps
    <2>2. op' = [o EXCEPT !.v = @ + 1]
        BY <1>1
    <2> HIDE DEF o
    <2> QED BY <1>2, <2>1, <2>2 DEF PruneOps
<1> HIDE DEF i, v
<1>6. /\ i \in 0..(m - 1) /\ v \in 0..(m - 1) /\ i \in 0..(key_count - 1)
      /\ v + 1 <= i + 1 /\ i + 1 <= key_count
      /\ (v + 1) - 1 = v /\ (i + 1 = v + 1 => i = v)
      /\ 0..(key_count - 1) \subseteq 0..(m - 1)
    BY <1>1, <1>2, <1>4
<1>7. entries[i] \in Entries(m) /\ entries[v] \in Entries(m)
    BY <1>3, <1>6
<1>8. /\ entries'[v].key = entries[i].key /\ entries'[v].value = entries[i].value
      /\ entries'[v].next = entries[v].next /\ entries'[v] \in Entries(m)
    BY <1>1, <1>3, <1>6, <1>7 DEF Entries
<1>9. \A j \in 0..(m - 1) : j # v => entries'[j] = entries[j]
    BY <1>1, <1>3, <1>6
<1>10. entries' \in [0..(m - 1) -> Entries(m)]
    <2>1. DOMAIN entries' = 0..(m - 1) /\ entries' = [j \in DOMAIN entries' |-> entries'[j]]
        <3> DEFINE d == [entries EXCEPT ![v].key = entries[i].key]
        <3>1. DOMAIN d = 0..(m - 1)
            BY <1>3
        <3>2. entries' = [d EXCEPT ![v].value = entries[i].value]
            BY <1>1
        <3> HIDE DEF d
        <3> QED BY <3>1, <3>2
    <2>2. \A j \in 0..(m - 1) : entries'[j] \in Entries(m)
        BY <1>3, <1>8, <1>9
    <2> QED BY <2>1, <2>2
<1>11. ArraysOK(entries', first', key_count', bucket_count')
    BY <1>1, <1>3, <1>4, <1>10 DEF ArraysOK
<1>12. ASSUME ~torn PROVE Distinct(entries', (0..v) \cup ((i + 1)..(key_count - 1)))
    <2> DEFINE S == (0..v) \cup ((i + 1)..(key_count - 1))
               g(j) == IF j = v THEN i ELSE j
    <2>1. \A j \in S : j \in 0..(m - 1) /\ g(j) \in Live
        BY <1>2, <1>4, <1>6
    <2>2. \A j \in S : entries'[j].key = entries[g(j)].key
        <3> SUFFICES ASSUME NEW j \in S PROVE entries'[j].key = entries[g(j)].key
            OBVIOUS
        <3>1. CASE j = v
            BY <1>8, <3>1
        <3>2. CASE j # v
            BY <1>9, <2>1, <3>2
        <3> QED BY <3>1, <3>2
    <2>3. \A j, k \in S : g(j) = g(k) => j = k
        BY <1>2, <1>4
    <2>4. Distinct(entries, Live)
        BY <1>2, <1>12
    <2> HIDE DEF S, g
    <2>5. Distinct(entries', S)
        BY <2>1, <2>2, <2>3, <2>4 DEF Distinct
    <2> QED BY <2>5 DEF S
<1>13. ASSUME ~torn, i = v PROVE Indexed(entries', first, key_count, bucket_count)
    <2>0. Indexed(entries, first, key_count, bucket_count)
        BY <1>2, <1>13
    <2>1. \A j \in 0..(m - 1) : entries'[j].key = entries[j].key /\ entries'[j].next = entries[j].next
        BY <1>8, <1>9, <1>13
    <2>2. ASSUME NEW c \in 0..key_count, NEW b
          PROVE  InBucket(entries', c, b, bucket_count) = InBucket(entries, c, b, bucket_count)
        <3>1. \A j \in 0..(c - 1) : j \in 0..(m - 1)
            BY <1>4
        <3> QED BY <2>1, <3>1 DEF InBucket
    <2>3. \A b \in 0..(bucket_count - 1) : first[b] = Last(InBucket(entries', key_count, b, bucket_count))
        <3>1. key_count \in 0..key_count
            BY <1>4
        <3> QED BY <2>0, <2>2, <3>1 DEF Indexed
    <2>4. \A j \in 0..(key_count - 1) :
             entries'[j].next = Last(InBucket(entries', j, get_bucket(entries'[j].key, bucket_count), bucket_count))
        <3> SUFFICES ASSUME NEW j \in 0..(key_count - 1)
                     PROVE  entries'[j].next = Last(InBucket(entries', j, get_bucket(entries'[j].key, bucket_count), bucket_count))
            OBVIOUS
        <3>1. j \in 0..key_count /\ j \in 0..(m - 1)
            BY <1>4
        <3>2. entries[j].next = Last(InBucket(entries, j, get_bucket(entries[j].key, bucket_count), bucket_count))
            BY <2>0 DEF Indexed
        <3> QED BY <2>1, <2>2, <3>1, <3>2
    <2> QED BY <2>3, <2>4 DEF Indexed
<1>14. ASSUME ~torn PROVE \A j \in 0..v : entries'[j].value \notin op.doomed
    <2> SUFFICES ASSUME NEW j \in 0..v PROVE entries'[j].value \notin op.doomed
        OBVIOUS
    <2>1. CASE j = v
        BY <1>1, <1>8, <2>1
    <2>2. CASE j # v
        <3>1. j \in 0..(v - 1) /\ j \in 0..(m - 1)
            BY <1>2, <1>6, <2>2
        <3>2. entries[j].value \notin op.doomed
            BY <1>1, <1>2, <1>14, <3>1 DEF PruneOK, v
        <3> QED BY <1>9, <2>2, <3>1, <3>2
    <2> QED BY <2>1, <2>2
<1>15. op' \in Ops
    BY <1>5, NewOps
<1> QED BY <1>1, <1>5, <1>6, <1>11, <1>12, <1>13, <1>14, <1>15, PruneNext

LEMMA PruneEndsIInv ==
    ASSUME IInv, PruneEnds PROVE IInv'
<1> DEFINE v == op.v
<1>1. /\ op.kind = "prune" /\ op.i = key_count /\ key_count' = v /\ op' = Idle
      /\ UNCHANGED <<file, torn>>
    BY DEF PruneEnds
<1>2. /\ v \in Nat /\ v <= key_count /\ key_count \in Nat
      /\ Live = (0..(v - 1)) \cup (key_count..(key_count - 1))
      /\ ~torn => Distinct(entries, Live)
      /\ ~torn /\ key_count = v => Indexed(entries, first, key_count, bucket_count)
    BY <1>1, PruneHas, Indices
<1>3. (0..(v - 1)) \cup (key_count..(key_count - 1)) = 0..(v - 1)
    BY <1>2
<1>4. ~torn => Distinct(entries, 0..(v - 1))
    BY <1>2, <1>3
<1>5. CASE v = key_count
    <2>1. UNCHANGED <<entries, first, bucket_count>>
        BY <1>5 DEF PruneEnds
    <2>2. ArraysOK(entries, first, key_count, bucket_count)
        BY DEF IInv, TypeOK
    <2>3. ~torn => Good(entries, first, key_count, bucket_count)
        BY <1>2, <1>4, <1>5 DEF Good
    <2> QED BY <1>1, <1>5, <2>1, <2>2, <2>3, Indices, NewOps, SameFile, IdleNext
<1>6. CASE v # key_count /\ v = 0
    <2>1. entries' = Empty /\ first' = NoChains(0) /\ bucket_count' = 0
        BY <1>6 DEF PruneEnds
    <2>2. ArraysOK(Empty, NoChains(0), 0, 0) /\ Good(Empty, NoChains(0), 0, 0)
        BY EmptyOK
    <2> QED BY <1>1, <1>6, <2>1, <2>2, Indices, NewOps, SameFile, IdleNext
<1>7. CASE v # key_count /\ v # 0
    <2> DEFINE n == get_power_bucket_count(v)
               e == IndexedEntries(entries, v, n)
               f == IndexedFirst(entries, v, n)
    <2>1. entries' = e /\ first' = f /\ bucket_count' = n
        BY <1>7 DEF PruneEnds, Shrink
    <2>2. bucket_count \in BucketCounts /\ bucket_count >= v
        BY <1>2, <1>7, Indices
    <2>3. Holding(v) # {}
        BY <2>2 DEF Holding
    <2>4. n \in BucketCounts /\ v <= n
        BY <1>2, <2>3, PowerType
    <2> HIDE DEF n
    <2>5. PICK m \in Nat : key_count <= m /\ entries \in [0..(m - 1) -> Entries(m)]
        BY <1>2, Indices
    <2>6. v \in 0..n /\ v <= m
        BY <1>2, <2>4, <2>5
    <2> HIDE DEF v
    <2>7. /\ ArraysOK(e, f, v, n) /\ Indexed(e, f, v, n)
          /\ \A i \in 0..(v - 1) : e[i].key = entries[i].key
        <3>1. Reindexed(entries, v, n)
            BY <2>4, <2>5, <2>6, Reindex
        <3> QED BY <3>1 DEF Reindexed
    <2> HIDE DEF e, f
    <2>8. ~torn => Good(e, f, v, n)
        BY <1>4, <2>7 DEF Good, Distinct
    <2> QED BY <1>1, <2>1, <2>7, <2>8, Indices, NewOps, SameFile, IdleNext
<1> QED BY <1>5, <1>6, <1>7

(* The entries were moved and counted, and the chains are not trusted.     *)
LEMMA PruneThrowsIInv ==
    ASSUME IInv, PruneThrows PROVE IInv'
<1>1. /\ op.v \in 1..(key_count - 1) /\ key_count' = op.v /\ op' = Idle /\ torn' = TRUE
      /\ UNCHANGED <<entries, first, bucket_count, file>>
    BY DEF PruneThrows
<1>2. /\ bucket_count \in BucketCounts \cup {0} /\ bucket_count \in Nat
      /\ key_count \in Nat /\ key_count <= bucket_count
    BY Indices
<1>3. PICK m \in key_count..bucket_count :
         /\ entries \in [0..(m - 1) -> Entries(m)]
         /\ first \in [0..(bucket_count - 1) -> (0..(m - 1)) \cup {Nil}]
    BY Indices
<1>4. op.v \in 0..bucket_count /\ m \in (op.v)..bucket_count
    BY <1>1, <1>2, <1>3
<1>5. ArraysOK(entries', first', key_count', bucket_count')
    BY <1>1, <1>2, <1>3, <1>4 DEF ArraysOK
<1> QED BY <1>1, <1>5, NewOps, SameFile, IdleNext

-----------------------------------------------------------------------------
LEMMA NextIInv ==
    ASSUME IInv, [Next]_vars PROVE IInv'
<1>1. CASE Continue
    <2>1. CASE Follow BY <2>1, FollowIInv
    <2>2. CASE FindEnds BY <2>2, FindEndsIInv
    <2>3. CASE Return BY <2>3, ReturnIInv
    <2>4. CASE Overwrite BY <2>4, OverwriteIInv
    <2>5. CASE Insert BY <2>5, InsertIInv
    <2>6. CASE InsertThrows BY <2>6, InsertThrowsIInv
    <2>7. CASE Drop BY <2>7, DropIInv
    <2>8. CASE Keep BY <2>8, KeepIInv
    <2>9. CASE PruneEnds BY <2>9, PruneEndsIInv
    <2>10. CASE PruneThrows BY <2>10, PruneThrowsIInv
    <2> QED BY <1>1, <2>1, <2>2, <2>3, <2>4, <2>5, <2>6, <2>7, <2>8, <2>9, <2>10 DEF Continue
<1>2. ASSUME NEW k \in Keys, BeginFind(k) PROVE IInv'
    BY <1>2, BeginFindIInv
<1>3. ASSUME NEW k \in Keys, NEW v \in Values, BeginPut(k, v) PROVE IInv'
    BY <1>3, BeginPutIInv
<1>4. ASSUME NEW D \in Predicates, BeginPrune(D) PROVE IInv'
    BY <1>4, BeginPruneIInv
<1>5. CASE Save BY <1>5, SaveIInv
<1>6. CASE Load BY <1>6, LoadIInv
<1>7. CASE Clear BY <1>7, ClearIInv
<1>8. ASSUME NEW n \in BucketCounts \cup {0}, LoadThrows(n) PROVE IInv'
    BY <1>8, LoadThrowsIInv
<1>9. ASSUME NEW cut \in 1..(file.bucket_count - 1), LoadTears(cut) PROVE IInv'
    BY <1>9, LoadTearsIInv
<1>10. CASE UNCHANGED vars
    BY <1>10 DEF vars, IInv, TypeOK, Live, ChainsOK, WalkOK, PruneOK, FileOK
<1> QED BY <1>1, <1>2, <1>3, <1>4, <1>5, <1>6, <1>7, <1>8, <1>9, <1>10 DEF Next

(* Whatever is done to the map, in memory or through a file, and whichever *)
(* read or reallocation of keys_ fails: every loop stays within the        *)
(* arrays, and unless a load was torn or prune could not reallocate every  *)
(* key is there once and every chain has all entries of its bucket.        *)
THEOREM MapInductive == Spec => []IInv
<1>1. Init => IInv
    BY InitIInv
<1>2. IInv /\ [Next]_vars => IInv'
    BY NextIInv
<1> QED BY <1>1, <1>2, PTL DEF Spec

-----------------------------------------------------------------------------
(***************************************************************************)
(* The arrays implement a map.                                             *)
(***************************************************************************)
LEMMA Requested ==
    /\ RequestOf(Idle) = AM!Idle
    /\ \A v \in Values \cup {None} :
          RequestOf(Answer(v)) = AM!Answer(v) /\ AM!Answer(v) \in AM!Answers
    /\ \A o \in FindOps : RequestOf(o) = AM!Find(o.key) /\ AM!Find(o.key) \in AM!Requests
    /\ \A o \in PutOps : /\ RequestOf(o) = AM!Put(o.key, o.value)
                         /\ AM!Put(o.key, o.value) \in AM!Requests
    /\ \A o \in PruneOps : /\ RequestOf(o) = AM!Prune(o.doomed)
                           /\ AM!Prune(o.doomed) \in AM!Requests
<1>1. RequestOf(Idle) = AM!Idle
    BY DEF RequestOf, Idle, AM!Idle
<1>2. \A v \in Values \cup {None} :
          RequestOf(Answer(v)) = AM!Answer(v) /\ AM!Answer(v) \in AM!Answers
    BY DEF RequestOf, Answer, AM!Answer, AM!Answers
<1>3. \A o \in FindOps : RequestOf(o) = AM!Find(o.key) /\ AM!Find(o.key) \in AM!Requests
    BY DEF RequestOf, FindOps, AM!Find, AM!Requests
<1>4. \A o \in PutOps : /\ RequestOf(o) = AM!Put(o.key, o.value)
                        /\ AM!Put(o.key, o.value) \in AM!Requests
    BY DEF RequestOf, PutOps, AM!Put, AM!Requests
<1>5. \A o \in PruneOps : /\ RequestOf(o) = AM!Prune(o.doomed)
                          /\ AM!Prune(o.doomed) \in AM!Requests
    BY DEF RequestOf, PruneOps, AM!Prune, AM!Requests
<1> QED BY <1>1, <1>2, <1>3, <1>4, <1>5

LEMMA PairsHas ==
    ASSUME NEW e, NEW S, NEW k, NEW u
    PROVE  <<k, u>> \in Pairs(e, S) <=> \E i \in S : e[i].key = k /\ e[i].value = u
BY DEF Pairs

LEMMA PairsLacks ==
    ASSUME NEW e, NEW S, NEW k, \A i \in S : e[i].key # k
    PROVE  \A u : <<k, u>> \notin Pairs(e, S)
BY DEF Pairs

LEMMA PairsSame ==
    ASSUME NEW e, NEW d, NEW S, \A i \in S : d[i].key = e[i].key /\ d[i].value = e[i].value
    PROVE  Pairs(d, S) = Pairs(e, S)
BY DEF Pairs

LEMMA Whole ==
    ASSUME IInv
    PROVE  /\ Live \subseteq DOMAIN entries /\ Live \subseteq Nat
           /\ op.kind # "prune" => Live = 0..(key_count - 1)
           /\ ~torn => MapNow = Pairs(entries, Live) /\ MapNow # Broken
<1>1. op.kind # "prune" => Live = 0..(key_count - 1)
    BY DEF Live
<1>2. 0..(key_count - 1) \subseteq DOMAIN entries /\ DOMAIN entries \subseteq Nat /\ key_count \in Nat
    BY Indices
<1>3. Live \subseteq 0..(key_count - 1)
    <2>1. CASE op.kind = "prune"
        <3>1. /\ op.i \in Nat /\ op.v \in Nat /\ op.v <= op.i /\ op.i <= key_count
              /\ Live = (0..(op.v - 1)) \cup (op.i..(key_count - 1))
            BY <2>1, PruneHas
        <3> QED BY <1>2, <3>1
    <2> QED BY <1>1, <2>1
<1>4. Pairs(entries, Live) # Broken
    <2> SUFFICES ASSUME Pairs(entries, Live) = Broken PROVE FALSE
        OBVIOUS
    <2>1. <<Nil, Nil>> \in Pairs(entries, Live)
        BY DEF Broken
    <2>2. PICK i \in Live : entries[i].key = Nil
        BY <2>1, PairsHas
    <2>3. entries[i].key \in Keys
        BY <1>2, <1>3, Indices
    <2> QED BY <2>2, <2>3
<1> QED BY <1>1, <1>2, <1>3, <1>4 DEF MapNow

(* Steps that leave the map alone.                                         *)
LEMMA SameMap ==
    ASSUME op.kind # "prune", op'.kind # "prune", UNCHANGED <<entries, key_count, torn>>
    PROVE  MapNow' = MapNow
BY DEF MapNow, Live

LEMMA SameSaved ==
    ASSUME file' = file PROVE SavedNow' = SavedNow
BY DEF SavedNow

(* A torn map.                                                             *)
LEMMA TornEnds ==
    ASSUME IInv, torn, torn' = torn, file' = file, op.kind \in {"find", "put", "prune"},
           op' = Idle \/ \E v \in Values \cup {None} : op' = Answer(v)
    PROVE  AM!Next
<1>1. op \in FindOps \/ op \in PutOps \/ op \in PruneOps
    BY OpKinds, Indices
<1>2. RequestOf(op) \in AM!Requests
    BY <1>1, Requested
<1>3. RequestOf(op') \in AM!Answers \cup {AM!Idle}
    BY Requested
<1>4. MapNow = Broken /\ MapNow' = MapNow
    BY DEF MapNow
<1>5. AM!Whatever
    BY <1>2, <1>3, <1>4, SameSaved DEF AM!Whatever
<1> QED BY <1>5 DEF AM!Next

LEMMA BeginMaps ==
    ASSUME IInv, op = Idle, op' \in FindOps \cup PutOps,
           UNCHANGED <<entries, first, key_count, bucket_count, file, torn>>
    PROVE  AM!Next
<1>1. op.kind # "prune"
    BY NewOps
<1>2. op'.kind # "prune"
    BY DEF FindOps, PutOps
<1>3. RequestOf(op) = AM!Idle /\ RequestOf(op') \in AM!Requests
    BY Requested
<1>4. AM!Begin
    BY <1>1, <1>2, <1>3, SameMap, SameSaved DEF AM!Begin
<1> QED BY <1>4 DEF AM!Next

LEMMA FollowMaps ==
    ASSUME IInv, Follow PROVE UNCHANGED AM!vars
<1>1. op \in FindOps \/ op \in PutOps
    BY OpKinds, Indices DEF Follow, Walks
<1>2. /\ op.kind # "prune" /\ op'.kind # "prune"
      /\ RequestOf(op') = RequestOf(op)
    <2>1. CASE op \in FindOps
        <3>1. op'.kind = "find" /\ op'.key = op.key /\ op.kind = "find"
            BY <2>1 DEF Follow, FindOps
        <3> QED BY <3>1 DEF RequestOf
    <2>2. CASE op \in PutOps
        <3>1. op'.kind = "put" /\ op'.key = op.key /\ op'.value = op.value /\ op.kind = "put"
            BY <2>2 DEF Follow, PutOps
        <3> QED BY <3>1 DEF RequestOf
    <2> QED BY <1>1, <2>1, <2>2
<1> QED BY <1>2, SameMap, SameSaved DEF Follow, AM!vars

LEMMA FindEndsMaps ==
    ASSUME IInv, FindEnds PROVE AM!Next
<1>1. /\ op.kind = "find" /\ op.kind # "prune"
      /\ UNCHANGED <<entries, first, key_count, bucket_count, file, torn>>
    BY DEF FindEnds
<1>2. op \in FindOps /\ op.key \in Keys /\ RequestOf(op) = AM!Find(op.key)
    BY <1>1, OpKinds, Indices, Requested DEF FindOps
<1>3. op.at \in DOMAIN entries \cup {Nil}
    BY <1>1 DEF IInv, TypeOK
<1>4. op.at # Nil => entries[op.at].value \in Values
    BY <1>3, Indices
<1>5. CASE torn
    BY <1>1, <1>4, <1>5, TornEnds DEF FindEnds
<1>6. CASE ~torn
    <2>1. /\ Live = 0..(key_count - 1) /\ MapNow = Pairs(entries, Live) /\ MapNow # Broken
          /\ WalkOK
        BY <1>1, <1>6, Whole DEF IInv
    <2>2. PICK v \in Values \cup {None} :
             /\ op' = Answer(v)
             /\ IF v = None THEN \A u \in Values : <<op.key, u>> \notin MapNow
                            ELSE <<op.key, v>> \in MapNow
        <3>1. CASE op.at = Nil
            <4>1. \A i \in Live : entries[i].key # op.key
                BY <1>1, <2>1, <3>1 DEF WalkOK
            <4>2. \A u \in Values : <<op.key, u>> \notin MapNow
                BY <2>1, <4>1, PairsLacks
            <4>3. op' = Answer(None)
                BY <3>1 DEF FindEnds
            <4> QED BY <4>2, <4>3
        <3>2. CASE op.at # Nil
            <4>1. op.at < key_count /\ op.at \in Nat /\ key_count \in Nat
                BY <1>1, <1>3, <2>1, <3>2, Indices DEF WalkOK
            <4>2. op.at \in Live
                BY <2>1, <4>1
            <4>3. entries[op.at].key = op.key /\ op' = Answer(entries[op.at].value)
                BY <3>2 DEF FindEnds
            <4>4. <<op.key, entries[op.at].value>> \in MapNow
                <5>1. <<entries[op.at].key, entries[op.at].value>> \in Pairs(entries, Live)
                    BY <4>2 DEF Pairs
                <5> QED BY <2>1, <4>3, <5>1
            <4>5. entries[op.at].value # None
                BY <1>4, <3>2
            <4> DEFINE v == entries[op.at].value
            <4>6. v \in Values \cup {None} /\ op' = Answer(v) /\ v # None /\ <<op.key, v>> \in MapNow
                BY <1>4, <3>2, <4>3, <4>4, <4>5
            <4> HIDE DEF v
            <4> QED BY <4>6
        <3> QED BY <3>1, <3>2
    <2>3. RequestOf(op') = AM!Answer(v) /\ op'.kind # "prune"
        BY <2>2, Requested, NewOps
    <2>4. AM!Found(op.key, v)
        BY <1>1, <1>2, <2>1, <2>2, <2>3, SameMap, SameSaved DEF AM!Found
    <2> QED BY <1>2, <2>4 DEF AM!Next
<1> QED BY <1>5, <1>6

LEMMA ReturnMaps ==
    ASSUME IInv, Return PROVE AM!Next
<1>1. op.kind = "answer" /\ op.kind # "prune" /\ op' = Idle
    BY DEF Return
<1>2. PICK v \in Values \cup {None} : op = Answer(v)
    BY <1>1, Indices DEF Ops, Idle, Answer
<1>3. RequestOf(op) \in AM!Answers /\ RequestOf(op') = AM!Idle
    BY <1>1, <1>2, Requested
<1>4. op'.kind # "prune"
    BY <1>1, NewOps
<1>5. AM!Return
    BY <1>1, <1>3, <1>4, SameMap, SameSaved DEF AM!Return, Return
<1> QED BY <1>5 DEF AM!Next

(* What the writes do to the pairs.                                        *)
Without(M, k) == {p \in M : p[1] # k}

LEMMA PairsReplaced ==
    ASSUME NEW e, NEW d, NEW S, NEW a \in S, NEW k, NEW v, Distinct(e, S),
           e[a].key = k, d[a].key = k, d[a].value = v,
           \A i \in S : i # a => d[i].key = e[i].key /\ d[i].value = e[i].value
    PROVE  Pairs(d, S) = Without(Pairs(e, S), k) \cup {<<k, v>>}
<1>1. \A i \in S : i # a => e[i].key # k /\ d[i].key # k
    BY DEF Distinct
<1>2. ASSUME NEW p \in Pairs(d, S) PROVE p \in {q \in Pairs(e, S) : q[1] # k} \cup {<<k, v>>}
    <2>1. PICK i \in S : p = <<d[i].key, d[i].value>>
        BY <1>2 DEF Pairs
    <2>2. CASE i = a
        BY <2>1, <2>2
    <2>3. CASE i # a
        BY <1>1, <2>1, <2>3 DEF Pairs
    <2> QED BY <2>2, <2>3
<1>3. <<k, v>> \in Pairs(d, S)
    BY DEF Pairs
<1>4. ASSUME NEW p \in Pairs(e, S), p[1] # k PROVE p \in Pairs(d, S)
    <2>1. PICK i \in S : p = <<e[i].key, e[i].value>>
        BY <1>4 DEF Pairs
    <2>2. i # a
        BY <1>4, <2>1
    <2> QED BY <2>1, <2>2 DEF Pairs
<1> QED BY <1>2, <1>3, <1>4 DEF Without

Adds(e, d, S, c, k, v) ==
    /\ d[c].key = k /\ d[c].value = v
    /\ \A i \in S : e[i].key # k /\ d[i].key = e[i].key /\ d[i].value = e[i].value

LEMMA PairsAdded ==
    ASSUME NEW e, NEW d, NEW S, NEW c, NEW k, NEW v, Adds(e, d, S, c, k, v)
    PROVE  Pairs(d, S \cup {c}) = Without(Pairs(e, S), k) \cup {<<k, v>>}
<1>0. \A i \in S : e[i].key # k
    BY DEF Adds
<1>1. Without(Pairs(e, S), k) = Pairs(e, S)
    <2>1. \A p \in Pairs(e, S) : p[1] # k
        BY <1>0 DEF Pairs
    <2> DEFINE M == Pairs(e, S)
    <2> HIDE DEF M
    <2>2. Without(M, k) = M
        BY <2>1 DEF Without, M
    <2> QED BY <2>2 DEF M
<1>2. Pairs(d, S \cup {c}) = Pairs(e, S) \cup {<<k, v>>}
    BY DEF Pairs, Adds
<1> QED BY <1>1, <1>2

LEMMA PairsRemoved ==
    ASSUME NEW e, NEW S, NEW T, NEW a \in S, T = S \ {a}, Distinct(e, S)
    PROVE  Pairs(e, T) = Pairs(e, S) \ {<<e[a].key, e[a].value>>}
<1>1. \A i \in T : <<e[i].key, e[i].value>> # <<e[a].key, e[a].value>>
    BY DEF Distinct
<1> QED BY <1>1 DEF Pairs

LEMMA PairsMoved ==
    ASSUME NEW e, NEW d, NEW S, NEW T,
           \A j \in T : \E i \in S : d[j].key = e[i].key /\ d[j].value = e[i].value,
           \A i \in S : \E j \in T : d[j].key = e[i].key /\ d[j].value = e[i].value
    PROVE  Pairs(d, T) = Pairs(e, S)
<1>1. ASSUME NEW p \in Pairs(d, T) PROVE p \in Pairs(e, S)
    BY <1>1 DEF Pairs
<1>2. ASSUME NEW p \in Pairs(e, S) PROVE p \in Pairs(d, T)
    BY <1>2 DEF Pairs
<1> QED BY <1>1, <1>2

LEMMA StoredMaps ==
    ASSUME IInv, IInv', op.kind = "put", op' = Idle, torn' = torn, file' = file,
           ~torn => Pairs(entries', 0..(key_count' - 1)) =
                      Without(Pairs(entries, 0..(key_count - 1)), op.key) \cup {<<op.key, op.value>>}
    PROVE  AM!Next
<1>1. CASE torn
    BY <1>1, TornEnds
<1>2. CASE ~torn
    <2>1. op \in PutOps /\ op.key \in Keys /\ op.value \in Values /\ RequestOf(op) = AM!Put(op.key, op.value)
        BY OpKinds, Indices, Requested DEF PutOps
    <2>2. MapNow = Pairs(entries, 0..(key_count - 1)) /\ MapNow # Broken
        BY <1>2, Whole
    <2>3. MapNow' = Pairs(entries', 0..(key_count' - 1))
        BY <1>2, NewOps DEF MapNow, Live
    <2>4. RequestOf(op') = AM!Idle
        BY Requested
    <2>5. AM!Stored(op.key, op.value)
        BY <1>2, <2>1, <2>2, <2>3, <2>4, SameSaved DEF AM!Stored, Without
    <2> QED BY <2>1, <2>5 DEF AM!Next
<1> QED BY <1>1, <1>2

LEMMA OverwriteMaps ==
    ASSUME IInv, IInv', Overwrite PROVE AM!Next
<1>1. /\ op.kind = "put" /\ op.kind # "prune" /\ op.at # Nil /\ op' = Idle /\ key_count' = key_count
      /\ entries[op.at].key = op.key /\ torn' = torn /\ file' = file
      /\ entries' = [entries EXCEPT ![op.at].value = op.value]
    BY DEF Overwrite
<1>2. op.at \in DOMAIN entries
    BY <1>1 DEF IInv, TypeOK
<1>3. PICK m \in Nat : entries \in [0..(m - 1) -> Entries(m)] /\ DOMAIN entries = 0..(m - 1)
    BY Indices
<1>4. entries[op.at] \in Entries(m)
    BY <1>2, <1>3
<1>5. entries'[op.at].key = op.key /\ entries'[op.at].value = op.value
    BY <1>1, <1>2, <1>3, <1>4 DEF Entries
<1>6. \A i \in DOMAIN entries : i # op.at => entries'[i] = entries[i]
    BY <1>1, <1>2, <1>3
<1>7. ASSUME ~torn
      PROVE  Pairs(entries', 0..(key_count - 1)) =
                Without(Pairs(entries, 0..(key_count - 1)), op.key) \cup {<<op.key, op.value>>}
    <2> DEFINE S == 0..(key_count - 1)
    <2>1. op.at < key_count /\ op.at \in Nat /\ key_count \in Nat
        BY <1>1, <1>2, <1>7, Indices DEF IInv, WalkOK
    <2>2. op.at \in S /\ S \subseteq DOMAIN entries
        BY <2>1, Indices
    <2>3. Distinct(entries, S)
        BY <1>1, <1>7, GoodFromIInv DEF Good
    <2> HIDE DEF S
    <2>4. \A i \in S : i # op.at => entries'[i].key = entries[i].key /\ entries'[i].value = entries[i].value
        BY <1>6, <2>2
    <2> DEFINE a == op.at
               k == op.key
               v == op.value
               d == entries'
    <2>5. /\ a \in S /\ entries[a].key = k /\ d[a].key = k /\ d[a].value = v
          /\ \A i \in S : i # a => d[i].key = entries[i].key /\ d[i].value = entries[i].value
        BY <1>1, <1>5, <2>2, <2>4
    <2> HIDE DEF a, k, v, d
    <2>6. Pairs(d, S) = Without(Pairs(entries, S), k) \cup {<<k, v>>}
        BY <2>3, <2>5, PairsReplaced
    <2> QED BY <2>6 DEF S, k, v, d
<1> QED BY <1>1, <1>7, StoredMaps

LEMMA InsertMaps ==
    ASSUME IInv, IInv', Insert PROVE AM!Next
<1>1. /\ op.kind = "put" /\ op.kind # "prune" /\ op.at = Nil /\ op' = Idle /\ key_count' = key_count + 1
      /\ torn' = torn /\ file' = file
    BY DEF Insert
<1>2. key_count \in Nat /\ 0..(key_count - 1) \subseteq DOMAIN entries /\ key_count <= bucket_count
    BY Indices
<1>3. ASSUME NEW n, NEW e, NEW f, AppendTo(e, f, n)
      PROVE  /\ entries'[key_count].key = op.key /\ entries'[key_count].value = op.value
             /\ \A i \in DOMAIN e : i # key_count => entries'[i] = e[i]
    <2> DEFINE x == Entry(op.key, op.value, f[get_bucket(op.key, n)])
    <2>1. entries' = [i \in DOMAIN e \cup {key_count} |-> IF i = key_count THEN x ELSE e[i]]
        BY <1>3 DEF AppendTo, LinkOf
    <2>2. x.key = op.key /\ x.value = op.value
        BY DEF Entry
    <2> HIDE DEF x
    <2> QED BY <2>1, <2>2
<1>4. /\ entries'[key_count].key = op.key /\ entries'[key_count].value = op.value
      /\ \A i \in 0..(key_count - 1) : /\ entries'[i].key = entries[i].key
                                       /\ entries'[i].value = entries[i].value
    <2>1. CASE Full
        <3> DEFINE n == get_power_bucket_count(Capacity)
                   e == IndexedEntries(entries, key_count, n)
                   f == IndexedFirst(entries, key_count, n)
        <3>1. AppendTo(e, f, n)
            BY <2>1 DEF Insert
        <3>2. DOMAIN e = 0..(key_count - 1)
            BY DEF IndexedEntries
        <3>3. \A i \in 0..(key_count - 1) : e[i].key = entries[i].key /\ e[i].value = entries[i].value
            BY DEF IndexedEntries, Entry
        <3> HIDE DEF n, e, f
        <3>4. \A i \in 0..(key_count - 1) : i # key_count
            BY <1>2
        <3>5. /\ entries'[key_count].key = op.key /\ entries'[key_count].value = op.value
              /\ \A i \in DOMAIN e : i # key_count => entries'[i] = e[i]
            BY <1>3, <3>1
        <3>6. \A i \in 0..(key_count - 1) : entries'[i] = e[i]
            BY <3>2, <3>4, <3>5
        <3> QED BY <3>3, <3>5, <3>6
    <2>2. CASE ~Full
        <3>1. AppendTo(entries, first, bucket_count)
            BY <2>2 DEF Insert
        <3>2. \A i \in 0..(key_count - 1) : i # key_count
            BY <1>2
        <3> QED BY <1>2, <1>3, <3>1, <3>2
    <2> QED BY <2>1, <2>2
<1>5. ASSUME ~torn
      PROVE  Pairs(entries', 0..(key_count' - 1)) =
                Without(Pairs(entries, 0..(key_count - 1)), op.key) \cup {<<op.key, op.value>>}
    <2> DEFINE S == 0..(key_count - 1)
               T == 0..(key_count' - 1)
               c == key_count
               k == op.key
               v == op.value
               d == entries'
    <2>1. T = S \cup {c}
        BY <1>1, <1>2
    <2>2. \A i \in S : entries[i].key # k
        BY <1>1, <1>5, Absent
    <2>3. /\ d[c].key = k /\ d[c].value = v
          /\ \A i \in S : entries[i].key # k /\ d[i].key = entries[i].key /\ d[i].value = entries[i].value
        BY <1>4, <2>2
    <2> HIDE DEF S, T, c, k, v, d
    <2>4. Pairs(d, S \cup {c}) = Without(Pairs(entries, S), k) \cup {<<k, v>>}
        <3>1. Adds(entries, d, S, c, k, v)
            BY <2>3 DEF Adds
        <3> QED BY <3>1, PairsAdded
    <2> QED BY <2>1, <2>4 DEF S, T, k, v, d
<1> QED BY <1>1, <1>5, StoredMaps

LEMMA InsertThrowsMaps ==
    ASSUME IInv, InsertThrows PROVE AM!Next
<1>1. /\ op.kind = "put" /\ op.kind # "prune" /\ op.at = Nil /\ op' = Idle
      /\ UNCHANGED <<entries, first, key_count, bucket_count, file, torn>>
    BY DEF InsertThrows
<1>2. CASE torn
    BY <1>1, <1>2, TornEnds
<1>3. CASE ~torn
    <2>1. op \in PutOps /\ op.key \in Keys /\ op.value \in Values /\ RequestOf(op) = AM!Put(op.key, op.value)
        BY <1>1, OpKinds, Indices, Requested DEF PutOps
    <2>2. Live = 0..(key_count - 1) /\ MapNow = Pairs(entries, Live) /\ MapNow # Broken
        BY <1>1, <1>3, Whole
    <2>3. \A i \in Live : entries[i].key # op.key
        BY <1>1, <1>3, <2>2, Absent
    <2>4. \A u \in Values : <<op.key, u>> \notin MapNow
        BY <2>2, <2>3, PairsLacks
    <2>5. RequestOf(op') = AM!Idle /\ op'.kind # "prune"
        BY <1>1, Requested, NewOps
    <2>6. AM!Refused(op.key, op.value)
        BY <1>1, <2>1, <2>2, <2>4, <2>5, SameMap, SameSaved DEF AM!Refused
    <2> QED BY <2>1, <2>6 DEF AM!Next
<1> QED BY <1>2, <1>3

LEMMA BeginPruneMaps ==
    ASSUME IInv, NEW D \in Predicates, BeginPrune(D) PROVE AM!Next
<1>1. /\ op = Idle /\ op.kind # "prune" /\ op' = [kind |-> "prune", doomed |-> D, i |-> 0, v |-> 0]
      /\ UNCHANGED <<entries, first, key_count, bucket_count, file, torn>>
    BY NewOps DEF BeginPrune
<1>2. op' \in PruneOps /\ op'.kind = "prune" /\ op'.i = 0 /\ op'.v = 0
    BY <1>1 DEF PruneOps
<1>3. RequestOf(op) = AM!Idle /\ RequestOf(op') \in AM!Requests
    BY <1>1, <1>2, Requested
<1>4. (0..(0 - 1)) \cup (0..(key_count - 1)) = 0..(key_count - 1)
    OBVIOUS
<1>5. Live' = Live
    BY <1>1, <1>2, <1>4 DEF Live
<1>6. MapNow' = MapNow
    BY <1>1, <1>5 DEF MapNow
<1>7. AM!Begin
    BY <1>1, <1>3, <1>6, SameSaved DEF AM!Begin
<1> QED BY <1>7 DEF AM!Next

LEMMA DropMaps ==
    ASSUME IInv, Drop PROVE AM!Next \/ UNCHANGED AM!vars
<1>1. /\ op.kind = "prune" /\ op.i < key_count /\ op' = [op EXCEPT !.i = @ + 1]
      /\ entries[op.i].value \in op.doomed
      /\ UNCHANGED <<entries, first, key_count, bucket_count, file, torn>>
    BY DEF Drop
<1>2. /\ op \in PruneOps /\ op.doomed \in Predicates /\ op.i \in Nat /\ op.v \in Nat /\ op.v <= op.i
      /\ Live = (0..(op.v - 1)) \cup (op.i..(key_count - 1)) /\ key_count \in Nat
      /\ ~torn => Distinct(entries, Live)
    BY <1>1, PruneHas, Indices
<1>3. /\ op' \in PruneOps /\ op'.kind = "prune" /\ op'.i = op.i + 1 /\ op'.v = op.v
      /\ op'.doomed = op.doomed
    BY <1>1, <1>2 DEF PruneOps
<1>4. RequestOf(op) = AM!Prune(op.doomed) /\ RequestOf(op') = RequestOf(op)
    BY <1>2, <1>3, Requested
<1>5. CASE torn
    <2>1. MapNow' = MapNow
        BY <1>1, <1>5 DEF MapNow
    <2> QED BY <1>1, <1>4, <2>1, SameSaved DEF AM!vars
<1>6. CASE ~torn
    <2>1. op.i \in Live /\ Live' = Live \ {op.i}
        <3>1. Live' = (0..(op.v - 1)) \cup ((op.i + 1)..(key_count - 1))
            BY <1>1, <1>3 DEF Live
        <3> QED BY <1>1, <1>2, <3>1
    <2>2. MapNow = Pairs(entries, Live) /\ MapNow # Broken /\ Live \subseteq DOMAIN entries
        BY <1>6, Whole
    <2> DEFINE k == entries[op.i].key
               v == entries[op.i].value
    <2>3. k \in Keys /\ v \in Values /\ <<k, v>> \in MapNow
        BY <2>1, <2>2, Indices, PairsHas
    <2>4. MapNow' = Pairs(entries, Live')
        BY <1>1, <1>6 DEF MapNow
    <2>5. MapNow' = MapNow \ {<<k, v>>}
        <3> DEFINE S == Live
                   T == Live'
                   a == op.i
        <3>1. a \in S /\ T = S \ {a} /\ Distinct(entries, S)
            BY <1>2, <1>6, <2>1
        <3> HIDE DEF S, T, a
        <3>2. Pairs(entries, T) = Pairs(entries, S) \ {<<entries[a].key, entries[a].value>>}
            BY <3>1, PairsRemoved
        <3> QED BY <2>2, <2>4, <3>2 DEF S, T, a
    <2> HIDE DEF k, v
    <2>6. v \in op.doomed
        BY <1>1 DEF v
    <2>7. AM!Remove(op.doomed, k, v)
        BY <1>1, <1>4, <2>2, <2>3, <2>5, <2>6, SameSaved DEF AM!Remove
    <2> QED BY <1>2, <2>3, <2>7 DEF AM!Next
<1> QED BY <1>5, <1>6

LEMMA KeepMaps ==
    ASSUME IInv, Keep PROVE UNCHANGED AM!vars
<1> DEFINE i == op.i
           v == op.v
<1>1. /\ op.kind = "prune" /\ i < key_count
      /\ op' = [op EXCEPT !.i = @ + 1, !.v = @ + 1]
      /\ entries' = [entries EXCEPT ![v].key = entries[i].key, ![v].value = entries[i].value]
      /\ UNCHANGED <<first, key_count, bucket_count, file, torn>>
    BY DEF Keep
<1>2. /\ op \in PruneOps /\ i \in Nat /\ v \in Nat /\ v <= i /\ key_count \in Nat
      /\ Live = (0..(v - 1)) \cup (i..(key_count - 1))
    BY <1>1, PruneHas, Indices
<1>3. /\ op' \in PruneOps /\ op'.kind = "prune" /\ op'.i = i + 1 /\ op'.v = v + 1
      /\ op'.doomed = op.doomed
    <2> DEFINE o == [op EXCEPT !.i = @ + 1]
    <2>1. /\ o \in PruneOps /\ o.kind = "prune" /\ o.i = op.i + 1 /\ o.v = op.v
          /\ o.doomed = op.doomed
        BY <1>2 DEF PruneOps
    <2>2. op' = [o EXCEPT !.v = @ + 1]
        BY <1>1
    <2> HIDE DEF o
    <2> QED BY <1>2, <2>1, <2>2 DEF PruneOps
<1>4. RequestOf(op') = RequestOf(op)
    BY <1>2, <1>3, Requested
<1> HIDE DEF i, v
<1>5. PICK m \in Nat : /\ entries \in [0..(m - 1) -> Entries(m)] /\ key_count <= m
                       /\ DOMAIN entries = 0..(m - 1)
    BY <1>2, Indices
<1>6. i \in 0..(m - 1) /\ v \in 0..(m - 1)
    BY <1>1, <1>2, <1>5
<1>7. entries[i] \in Entries(m) /\ entries[v] \in Entries(m)
    BY <1>5, <1>6
<1>8. entries'[v].key = entries[i].key /\ entries'[v].value = entries[i].value
    BY <1>1, <1>5, <1>6, <1>7 DEF Entries
<1>9. \A j \in 0..(m - 1) : j # v => entries'[j] = entries[j]
    BY <1>1, <1>5, <1>6
<1>10. MapNow' = MapNow
    <2> DEFINE S == Live
               T == (0..v) \cup ((i + 1)..(key_count - 1))
               d == entries'
    <2>1. Live' = T
        <3>1. Live' = (0..((v + 1) - 1)) \cup ((i + 1)..(key_count - 1))
            BY <1>1, <1>3 DEF Live
        <3>2. (v + 1) - 1 = v
            BY <1>2
        <3> QED BY <3>1, <3>2
    <2>2. \A j \in T : j # v => j \in S /\ j \in 0..(m - 1)
        BY <1>1, <1>2, <1>5
    <2>3. i \in S /\ v \in T /\ \A j \in S : j # i => (j \in T /\ j # v /\ j \in 0..(m - 1))
        BY <1>1, <1>2, <1>5
    <2> HIDE DEF S, T, d
    <2>4. \A j \in T : \E n \in S : d[j].key = entries[n].key /\ d[j].value = entries[n].value
        BY <1>8, <1>9, <2>2, <2>3 DEF d
    <2>5. \A n \in S : \E j \in T : d[j].key = entries[n].key /\ d[j].value = entries[n].value
        BY <1>8, <1>9, <2>2, <2>3 DEF d
    <2>6. Pairs(d, T) = Pairs(entries, S)
        BY <2>4, <2>5, PairsMoved
    <2>7. torn' = torn /\ Pairs(entries', Live') = Pairs(entries, Live)
        BY <1>1, <2>1, <2>6 DEF S, d
    <2> QED BY <2>7 DEF MapNow
<1> QED BY <1>1, <1>4, <1>10, SameSaved DEF AM!vars

LEMMA PruneEndsMaps ==
    ASSUME IInv, PruneEnds PROVE AM!Next
<1> DEFINE v == op.v
<1>1. /\ op.kind = "prune" /\ op.i = key_count /\ key_count' = v /\ op' = Idle
      /\ UNCHANGED <<file, torn>>
    BY DEF PruneEnds
<1>2. CASE torn
    BY <1>1, <1>2, TornEnds
<1>3. CASE ~torn
    <2>1. /\ op \in PruneOps /\ op.doomed \in Predicates
          /\ v \in Nat /\ v <= key_count /\ key_count \in Nat
          /\ Live = (0..(v - 1)) \cup (key_count..(key_count - 1)) /\ PruneOK
        BY <1>1, <1>3, PruneHas, Indices
    <2>2. Live = 0..(v - 1)
        BY <2>1
    <2>3. MapNow = Pairs(entries, 0..(v - 1)) /\ MapNow # Broken
        BY <1>3, <2>2, Whole
    <2>4. MapNow' = Pairs(entries', 0..(v - 1))
        BY <1>1, <1>3, NewOps DEF MapNow, Live
    <2>5. Pairs(entries', 0..(v - 1)) = Pairs(entries, 0..(v - 1))
        <3>1. CASE v = key_count
            BY <3>1 DEF PruneEnds
        <3>2. CASE v # key_count /\ v = 0
            BY <2>1, <3>2 DEF Pairs
        <3>3. CASE v # key_count /\ v # 0
            <4> DEFINE n == get_power_bucket_count(v)
            <4>1. entries' = IndexedEntries(entries, v, n)
                BY <3>3 DEF PruneEnds, Shrink
            <4>2. \A i \in 0..(v - 1) : /\ entries'[i].key = entries[i].key
                                        /\ entries'[i].value = entries[i].value
                BY <4>1 DEF IndexedEntries, Entry
            <4> HIDE DEF v, n
            <4> QED BY <4>2 DEF Pairs
        <3> QED BY <3>1, <3>2, <3>3
    <2>6. \A k \in Keys, u \in op.doomed : <<k, u>> \notin MapNow
        <3>1. \A i \in 0..(v - 1) : entries[i].value \notin op.doomed
            BY <1>1, <2>1 DEF PruneOK
        <3>2. ASSUME NEW k, NEW u, <<k, u>> \in MapNow PROVE u \notin op.doomed
            <4>1. PICK i \in 0..(v - 1) : entries[i].value = u
                BY <2>3, <3>2 DEF Pairs
            <4> QED BY <3>1, <4>1
        <3> QED BY <3>2
    <2>7. RequestOf(op) = AM!Prune(op.doomed) /\ RequestOf(op') = AM!Idle
        BY <1>1, <2>1, Requested
    <2>8. AM!Pruned(op.doomed)
        BY <1>1, <2>3, <2>4, <2>5, <2>6, <2>7, SameSaved DEF AM!Pruned
    <2> QED BY <2>1, <2>8 DEF AM!Next
<1> QED BY <1>2, <1>3

LEMMA PruneThrowsMaps ==
    ASSUME IInv, PruneThrows PROVE AM!Next
<1> DEFINE v == op.v
<1>1. /\ op.kind = "prune" /\ op.i = key_count /\ v \in 1..(key_count - 1)
      /\ op' = Idle /\ torn' = TRUE /\ file' = file
    BY DEF PruneThrows
<1>2. CASE torn
    BY <1>1, <1>2, TornEnds
<1>3. CASE ~torn
    <2>1. /\ op \in PruneOps /\ op.doomed \in Predicates
          /\ v \in Nat /\ key_count \in Nat
          /\ Live = (0..(v - 1)) \cup (key_count..(key_count - 1)) /\ PruneOK
        BY <1>1, <1>3, PruneHas, Indices
    <2>2. Live = 0..(v - 1) /\ 0 \in 0..(v - 1)
        BY <1>1, <2>1
    <2>3. MapNow = Pairs(entries, 0..(v - 1)) /\ MapNow # Broken
        BY <1>3, <2>2, Whole
    <2>4. <<entries[0].key, entries[0].value>> \in MapNow
        BY <2>2, <2>3 DEF Pairs
    <2>5. MapNow' = Broken
        BY <1>1 DEF MapNow
    <2>6. \A k \in Keys, u \in op.doomed : <<k, u>> \notin MapNow
        <3>1. \A i \in 0..(v - 1) : entries[i].value \notin op.doomed
            BY <1>1, <2>1 DEF PruneOK
        <3>2. ASSUME NEW k, NEW u, <<k, u>> \in MapNow PROVE u \notin op.doomed
            <4>1. PICK i \in 0..(v - 1) : entries[i].value = u
                BY <2>3, <3>2 DEF Pairs
            <4> QED BY <3>1, <4>1
        <3> QED BY <3>2
    <2>7. RequestOf(op) = AM!Prune(op.doomed) /\ RequestOf(op') = AM!Idle
        BY <1>1, <2>1, Requested
    <2>8. AM!Abandoned(op.doomed)
        BY <1>1, <2>3, <2>4, <2>5, <2>6, <2>7, SameSaved DEF AM!Abandoned
    <2> QED BY <2>1, <2>8 DEF AM!Next
<1> QED BY <1>2, <1>3

-----------------------------------------------------------------------------
(* Clearing, and the file.                                                 *)
LEMMA EmptyMap ==
    ASSUME NEW S, S = 0..(0 - 1) PROVE Pairs(Empty, S) = {}
BY DEF Pairs

LEMMA ClearedMaps ==
    ASSUME op = Idle, op' = op, torn' = FALSE, key_count' = 0, entries' = Empty
    PROVE  MapNow' = {} /\ RequestOf(op) = AM!Idle /\ RequestOf(op') = AM!Idle
<1>1. Live' = 0..(0 - 1)
    BY NewOps DEF Live
<1> QED BY <1>1, EmptyMap, Requested DEF MapNow

LEMMA SaveMaps ==
    ASSUME IInv, Save PROVE AM!Next
<1>1. op = Idle /\ op.kind = "idle" /\ ~torn /\ UNCHANGED <<entries, first, key_count, bucket_count, op, torn>>
    BY NewOps DEF Save
<1>2. /\ file'.entries = entries /\ file'.key_count = key_count /\ file'.bucket_count = bucket_count
    BY DEF Save
<1>3. file' # NoFile
    <2>1. bucket_count \in Nat /\ NoFile.bucket_count = Nil
        BY Indices DEF NoFile
    <2> QED BY <1>2, <2>1
<1>4. MapNow = Pairs(entries, 0..(key_count - 1)) /\ MapNow' = MapNow
    BY <1>1, Whole, SameMap
<1>5. SavedNow' = MapNow
    BY <1>2, <1>3, <1>4 DEF SavedNow
<1>6. AM!Save
    BY <1>1, <1>4, <1>5, Requested DEF AM!Save
<1> QED BY <1>6 DEF AM!Next

LEMMA LoadMaps ==
    ASSUME IInv, Load PROVE AM!Next
<1>1. /\ file # NoFile /\ op = Idle /\ UNCHANGED <<op, file>> /\ torn' = FALSE
      /\ key_count' = file.key_count
    BY DEF Load
<1>2. Live' = 0..(file.key_count - 1)
    BY <1>1, NewOps DEF Live
<1>3. \A i \in 0..(file.key_count - 1) : /\ entries'[i].key = file.entries[i].key
                                         /\ entries'[i].value = file.entries[i].value
    <2> DEFINE e == file.entries
               c == file.key_count
               n == Reserved
    <2>1. CASE Rehashed
        <3>1. entries' = IndexedEntries(e, c, n)
            BY <2>1 DEF Load
        <3> HIDE DEF e, c, n
        <3>2. \A i \in 0..(c - 1) : entries'[i].key = e[i].key /\ entries'[i].value = e[i].value
            BY <3>1 DEF IndexedEntries, Entry
        <3> QED BY <3>2 DEF e, c
    <2>2. CASE ~Rehashed
        <3>1. entries' = e
            BY <2>2 DEF Load
        <3> QED BY <3>1
    <2> QED BY <2>1, <2>2
<1>4. MapNow' = SavedNow
    <2> DEFINE S == 0..(file.key_count - 1)
               e == file.entries
               d == entries'
    <2>1. \A i \in S : d[i].key = e[i].key /\ d[i].value = e[i].value
        BY <1>3
    <2> HIDE DEF S, e, d
    <2>2. Pairs(d, S) = Pairs(e, S)
        BY <2>1, PairsSame
    <2>3. MapNow' = Pairs(d, S)
        BY <1>1, <1>2 DEF MapNow, S, d
    <2>4. SavedNow = Pairs(e, S)
        BY <1>1 DEF SavedNow, S, e
    <2> QED BY <2>2, <2>3, <2>4
<1>5. AM!Load
    BY <1>1, <1>4, SameSaved, Requested DEF AM!Load
<1> QED BY <1>5 DEF AM!Next

LEMMA LoadThrowsMaps ==
    ASSUME NEW n, LoadThrows(n) PROVE AM!Next
<1>1. AM!LoadThrows
    BY ClearedMaps, SameSaved DEF LoadThrows, AM!LoadThrows
<1> QED BY <1>1 DEF AM!Next

LEMMA LoadTearsMaps ==
    ASSUME NEW cut, LoadTears(cut) PROVE AM!Next
<1>1. MapNow' = Broken /\ RequestOf(op) = AM!Idle /\ RequestOf(op') = AM!Idle
    BY Requested DEF LoadTears, MapNow
<1>2. AM!LoadThrows
    BY <1>1, SameSaved DEF LoadTears, AM!LoadThrows
<1> QED BY <1>2 DEF AM!Next

LEMMA ClearMaps ==
    ASSUME Clear PROVE AM!Next
<1>1. AM!Clear
    BY ClearedMaps, SameSaved DEF Clear, AM!Clear
<1> QED BY <1>1 DEF AM!Next

LEMMA InitMaps == Init => AM!Init
<1> SUFFICES ASSUME Init PROVE AM!Init
    OBVIOUS
<1>1. Live = 0..(0 - 1) /\ RequestOf(op) = AM!Idle
    BY NewOps, Requested DEF Init, Live
<1>2. MapNow = {} /\ SavedNow = Broken
    BY <1>1, EmptyMap DEF Init, MapNow, SavedNow
<1> QED BY <1>1, <1>2 DEF AM!Init

LEMMA NextMaps ==
    ASSUME IInv, IInv', [Next]_vars PROVE AM!Next \/ UNCHANGED AM!vars
<1>1. CASE Continue
    <2>1. CASE Follow BY <2>1, FollowMaps
    <2>2. CASE FindEnds BY <2>2, FindEndsMaps
    <2>3. CASE Return BY <2>3, ReturnMaps
    <2>4. CASE Overwrite BY <2>4, OverwriteMaps
    <2>5. CASE Insert BY <2>5, InsertMaps
    <2>6. CASE InsertThrows BY <2>6, InsertThrowsMaps
    <2>7. CASE Drop BY <2>7, DropMaps
    <2>8. CASE Keep BY <2>8, KeepMaps
    <2>9. CASE PruneEnds BY <2>9, PruneEndsMaps
    <2>10. CASE PruneThrows BY <2>10, PruneThrowsMaps
    <2> QED BY <1>1, <2>1, <2>2, <2>3, <2>4, <2>5, <2>6, <2>7, <2>8, <2>9, <2>10 DEF Continue
<1>2. ASSUME NEW k \in Keys, BeginFind(k) PROVE AM!Next
    <2>1. op' \in FindOps
        <3>1. ChainOf(k) \in Nat \cup {Nil}
            BY <1>2, Heads, Indices DEF BeginFind
        <3> QED BY <1>2, <3>1 DEF BeginFind, FindOps
    <2> QED BY <1>2, <2>1, BeginMaps DEF BeginFind
<1>3. ASSUME NEW k \in Keys, NEW v \in Values, BeginPut(k, v) PROVE AM!Next
    <2>1. op' \in PutOps
        <3>1. ChainOf(k) \in Nat \cup {Nil}
            BY <1>3, Heads, Indices DEF BeginPut
        <3> QED BY <1>3, <3>1 DEF BeginPut, PutOps
    <2> QED BY <1>3, <2>1, BeginMaps DEF BeginPut
<1>4. ASSUME NEW D \in Predicates, BeginPrune(D) PROVE AM!Next
    BY <1>4, BeginPruneMaps
<1>5. CASE Save BY <1>5, SaveMaps
<1>6. CASE Load BY <1>6, LoadMaps
<1>7. CASE Clear BY <1>7, ClearMaps
<1>8. ASSUME NEW n \in BucketCounts \cup {0}, LoadThrows(n) PROVE AM!Next
    BY <1>8, LoadThrowsMaps
<1>9. ASSUME NEW cut \in 1..(file.bucket_count - 1), LoadTears(cut) PROVE AM!Next
    BY <1>9, LoadTearsMaps
<1>10. CASE UNCHANGED vars
    BY <1>10 DEF vars, AM!vars, MapNow, Live, SavedNow
<1> QED BY <1>1, <1>2, <1>3, <1>4, <1>5, <1>6, <1>7, <1>8, <1>9, <1>10 DEF Next

(* The arrays, with their chains, their growth, their compaction and their *)
(* files, implement a map from keys to vectors: a find has the vector put  *)
(* last, a put that throws changes nothing, prune takes away what its      *)
(* predicate says and no more, and a file gives back the map as saved.     *)
(* A prune that throws and a load that is torn leave a map of which        *)
(* nothing is promised until it is cleared or loaded.                      *)
THEOREM MapImplemented == Spec => ImplementsMap
<1>1. Init => AM!Init
    BY InitMaps
<1>2. IInv /\ IInv' /\ [Next]_vars => [AM!Next]_(AM!vars)
    BY NextMaps
<1>3. Spec => []IInv
    BY MapInductive
<1> QED BY <1>1, <1>2, <1>3, PTL DEF Spec, ImplementsMap, AM!Spec

=============================================================================
