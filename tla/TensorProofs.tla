----------------------------- MODULE TensorProofs -----------------------------
(***************************************************************************)
(* What the servers of a training job hold: the tensors that the workers   *)
(* train, load and export, whatever the order in which the servers handle  *)
(* the requests.  The lemmas of TrainerProofs about programs, requests and *)
(* the checkpoint are used.                                                *)
(***************************************************************************)
EXTENDS TrainerProofs

-----------------------------------------------------------------------------
(***************************************************************************)
(* The paths of the programs: which operation follows which, in every      *)
(* stage of a job.                                                         *)
(***************************************************************************)

\* The stage of a program: the barriers left, as if there were always a load.
Stage(loads, b) == IF loads \/ b <= 8 THEN b ELSE b + 4

\* Operation x, in stage g, is followed by y.
Edge(w, n, loads, old, x, g, y) ==
    \/ g = 16 /\ x = "barrier" /\ y = "SparseInit"
    \/ g = 15 /\ \/ x = "SparseInit" /\ y = "DenseInit"
                 \/ x = "DenseInit" /\ y = "barrier"
                 \/ x = "barrier" /\ y = IF w = 0 THEN "DensePushValue" ELSE "barrier"
    \/ g = 14 /\ \/ x = "DensePushValue" /\ w = 0 /\ y = "barrier"
                 \/ x = "barrier" /\ y = "DensePull"
    \/ g = 13 /\ \/ x = "DensePull" /\ y = "synced"
                 \/ x = "synced" /\ y \in IF loads THEN {"barrier"} ELSE {"SparsePull", "barrier"}
    \/ g = 12 /\ loads /\ x = "barrier" /\ y = IF w = 0 THEN "SparseClear" ELSE "barrier"
    \/ g = 11 /\ loads /\ \/ x = "SparseClear" /\ w = 0 /\ y = "barrier"
                          \/ x = "barrier" /\ y = "SparseReadMeta"
    \/ g = 10 /\ loads /\
          \/ x = "SparseReadMeta" /\ w = 0
               /\ y \in {"SparsePushMeta", IF old = n THEN "SparseLoad" ELSE "Import"}
          \/ x = "SparsePushMeta" /\ w = 0 /\ y = IF old = n THEN "SparseLoad" ELSE "Import"
          \/ x = "SparseLoad" /\ w = 0 /\ old = n /\ y = "DenseReadMeta"
          \/ x = "SparseReadMeta" /\ w # 0 /\ y = IF old = n THEN "DenseReadMeta" ELSE "Import"
          \/ x = "Import" /\ old # n /\ y = "DenseReadMeta"
          \/ x = "DenseReadMeta" /\ w = 0 /\ y \in {"DensePushMeta", "DenseLoadData"}
          \/ x = "DenseReadMeta" /\ w # 0 /\ y = "barrier"
          \/ x = "DensePushMeta" /\ w = 0 /\ y = "DenseLoadData"
          \/ x = "DenseLoadData" /\ w = 0 /\ y = IF HasState THEN "DenseLoadState" ELSE "barrier"
          \/ x = "DenseLoadState" /\ w = 0 /\ HasState /\ y = "barrier"
          \/ x = "barrier" /\ y = "DensePull"
    \/ g = 9 /\ loads /\ \/ x = "DensePull" /\ y = "synced"
                         \/ x = "synced" /\ y \in {"SparsePull", "barrier"}
    \/ g = 8 /\ \/ x = "SparsePull" /\ y = "DensePull"
                \/ x = "DensePull" /\ y = "SparsePush"
                \/ x = "SparsePush" /\ y = "DensePush"
                \/ x = "DensePush" /\ y \in {"SparsePull", "barrier"}
                \/ x = "barrier" /\ y = IF w = 0 THEN "SparsePruneOld" ELSE "barrier"
    \/ g = 7 /\ \/ x = "SparsePruneOld" /\ w = 0 /\ y = "barrier"
                \/ x = "barrier" /\ y = "barrier"
    \/ g = 6 /\ x = "barrier" /\ y = IF w = 0 THEN "SparsePullMeta" ELSE "barrier"
    \/ g = 5 /\ \/ x = "SparsePullMeta" /\ w = 0 /\ y = "SparseSave"
                \/ x = "SparseSave" /\ w = 0 /\ y = "DensePullMeta"
                \/ x = "DensePullMeta" /\ w = 0 /\ y = "DenseSaveData"
                \/ x = "DenseSaveData" /\ w = 0 /\ y = "DenseSaveState"
                \/ x = "DenseSaveState" /\ w = 0 /\ y = "barrier"
                \/ x = "barrier" /\ y = "barrier"
    \/ g = 4 /\ x = "barrier" /\ y = IF w = 0 THEN "SparsePruneSmall" ELSE "barrier"
    \/ g = 3 /\ \/ x = "SparsePruneSmall" /\ w = 0 /\ y = "barrier"
                \/ x = "barrier" /\ y = "barrier"
    \/ g = 2 /\ x = "barrier" /\ y = "SparsePullReadOnly"
    \/ g = 1 /\ \/ x = "SparsePullReadOnly" /\ y = "DensePull"
                \/ x = "DensePull" /\ y = IF w = 0 THEN "SparseExport" ELSE "synced"
                \/ x = "SparseExport" /\ w = 0 /\ y = "synced"
                \/ x = "synced" /\ y = None

\* The operation after the i-th of s, which y follows.
After(s, i, y) == IF i < Len(s) THEN s[i + 1] ELSE y

\* The stage of the i-th operation of s, after which c barriers are left.
StageAt(loads, s, i, c) == Stage(loads, c + Bars(SubSeq(s, i, Len(s))))

\* A list of operations that y follows, with c barriers left, goes along the edges.
Path(w, n, loads, old, s, y, c) ==
    \A i \in 1..Len(s) : Edge(w, n, loads, old, s[i], StageAt(loads, s, i, c), After(s, i, y))

First(s, y) == IF s = <<>> THEN y ELSE s[1]

\* The same with what s starts with: from x with b barriers left to y with c.
Leads(w, n, loads, old, s, x, b, y, c) ==
    /\ s \in Seq(Operations) /\ c \in Nat
    /\ Path(w, n, loads, old, s, y, c)
    /\ x = First(s, y) /\ b = c + Bars(s)

\* Taking the first operation off a path.
LEMMA PathTail ==
    ASSUME NEW w, NEW n, NEW loads, NEW old, NEW s \in Seq(Operations), s # <<>>,
           NEW y, Path(w, n, loads, old, s, y, 0)
    PROVE  /\ Edge(w, n, loads, old, Head(s), Stage(loads, Bars(s)), First(Tail(s), y))
           /\ Path(w, n, loads, old, Tail(s), y, 0)
<1>1. PICK m \in Nat : m = Len(s)
  BY LenProperties
<1>2. m > 0
  BY <1>1, EmptySeq
<1>3. /\ Tail(s) \in Seq(Operations) /\ Len(Tail(s)) = m - 1 /\ Head(s) = s[1]
      /\ \A i \in 1..(m - 1) : Tail(s)[i] = s[i + 1]
  BY <1>1, HeadTailProperties
<1>4. SubSeq(s, 1, Len(s)) = s
  BY <1>1
<1>5. \A q \in Seq(Operations) : Bars(q) \in Nat
  BY BarsFinite
<1>6. After(s, 1, y) = First(Tail(s), y)
  <2>1. CASE m = 1
    <3>0. Len(Tail(s)) = 0
      BY <1>3, <2>1
    <3>1. Tail(s) = <<>>
      BY <1>3, <3>0, EmptySeq
    <3>2. ~(1 < Len(s))
      BY <1>1, <2>1
    <3> QED
      BY <3>1, <3>2 DEF After, First
  <2>2. CASE m > 1
    BY <1>1, <1>3, <2>2, EmptySeq DEF After, First
  <2> QED
    BY <1>2, <2>1, <2>2
<1>7. Edge(w, n, loads, old, Head(s), Stage(loads, Bars(s)), First(Tail(s), y))
  <2>1. 1 \in 1..Len(s)
    BY <1>1, <1>2
  <2>2. Edge(w, n, loads, old, s[1], StageAt(loads, s, 1, 0), After(s, 1, y))
    BY <2>1 DEF Path
  <2>3. PICK q \in Nat : q = Bars(s)
    BY <1>5
  <2>4. StageAt(loads, s, 1, 0) = Stage(loads, 0 + q) /\ 0 + q = q
    <3>1. 0 + q = q
      OBVIOUS
    <3> QED
      BY <1>4, <2>3, <3>1, Zenon DEF StageAt
  <2> QED
    BY <1>3, <1>6, <2>2, <2>3, <2>4
<1>8. ASSUME NEW i \in 1..(m - 1)
      PROVE  Edge(w, n, loads, old, Tail(s)[i], StageAt(loads, Tail(s), i, 0), After(Tail(s), i, y))
  <2>1. Edge(w, n, loads, old, s[i + 1], StageAt(loads, s, i + 1, 0), After(s, i + 1, y))
    BY <1>1 DEF Path
  <2>2. SubSeq(Tail(s), i, m - 1) = SubSeq(s, i + 1, m)
    BY <1>1, <1>3
  <2>3. After(s, i + 1, y) = After(Tail(s), i, y)
    BY <1>1, <1>3 DEF After
  <2> QED
    BY <1>1, <1>3, <2>1, <2>2, <2>3 DEF StageAt
<1> QED
  BY <1>3, <1>7, <1>8 DEF Path

\* Paths are put together.
LEMMA LeadsConcat ==
    ASSUME NEW w, NEW n, NEW loads, NEW old, NEW s, NEW t, NEW x, NEW b, NEW y, NEW c, NEW z, NEW d,
           Leads(w, n, loads, old, s, x, b, y, c), Leads(w, n, loads, old, t, y, c, z, d)
    PROVE  Leads(w, n, loads, old, s \o t, x, b, z, d)
<1>1. PICK m \in Nat, k \in Nat : m = Len(s) /\ k = Len(t)
  BY LenProperties DEF Leads
<1>2. /\ s \in Seq(Operations) /\ t \in Seq(Operations) /\ d \in Nat
      /\ c = d + Bars(t) /\ b = c + Bars(s) /\ x = First(s, y) /\ y = First(t, z)
  BY DEF Leads
<1>3. /\ s \o t \in Seq(Operations) /\ Len(s \o t) = m + k
      /\ \A i \in 1..m : (s \o t)[i] = s[i]
      /\ \A i \in 1..k : (s \o t)[m + i] = t[i]
  BY <1>1, <1>2, ConcatProperties
<1>4. \A q \in Seq(Operations) : Bars(q) \in Nat
  BY BarsFinite
<1>5. b = d + Bars(s \o t)
  <2>1. Bars(s \o t) = Bars(s) + Bars(t)
    BY <1>2, BarsConcat
  <2> QED
    BY <1>2, <1>4, <2>1
<1>6. x = First(s \o t, z)
  <2>1. CASE m = 0
    BY <1>1, <1>2, <2>1, EmptySeq DEF First
  <2>2. CASE m > 0
    BY <1>1, <1>2, <1>3, <2>2, EmptySeq DEF First
  <2> QED
    BY <2>1, <2>2
<1>7. ASSUME NEW i \in 1..m
      PROVE  Edge(w, n, loads, old, (s \o t)[i], StageAt(loads, s \o t, i, d), After(s \o t, i, z))
  <2>1. Edge(w, n, loads, old, s[i], StageAt(loads, s, i, c), After(s, i, y))
    BY <1>1 DEF Leads, Path
  <2>2. SubSeq(s, i, m) \in Seq(Operations)
    BY <1>1, <1>2, SubSeqProperties
  <2>3. SubSeq(s \o t, i, m + k) = SubSeq(s, i, m) \o t
    <3>1. PICK p \in Nat : p = m - i + 1
      OBVIOUS
    <3>2. PICK r : r = s \o t
      OBVIOUS
    <3>3. PICK e \in Int : e = m + k /\ i <= e /\ e - i + 1 = p + k
      BY <3>1
    <3>4. \A j \in i..e : r[j] \in Operations
      BY <1>3, <3>2, <3>3, ElementOfSeq
    <3>5. /\ SubSeq(r, i, e) \in Seq(Operations) /\ Len(SubSeq(r, i, e)) = p + k
          /\ \A j \in 1..(p + k) : SubSeq(r, i, e)[j] = r[i + j - 1]
      <4>1. i \in Int
        OBVIOUS
      <4> QED
        BY <3>3, <3>4, <4>1, SubSeqProperties
    <3>6. PICK q \in Seq(Operations) : q = SubSeq(s \o t, i, m + k)
      BY <3>2, <3>3, <3>5
    <3>7. Len(q) = p + k /\ \A j \in 1..(p + k) : q[j] = (s \o t)[i + j - 1]
      BY <3>2, <3>3, <3>5, <3>6
    <3>8. PICK u \in Seq(Operations) : u = SubSeq(s, i, m)
      BY <2>2
    <3>9. Len(u) = p /\ \A j \in 1..p : u[j] = s[i + j - 1]
      <4>1. \A j \in i..m : s[j] \in Operations
        BY <1>1, <1>2, ElementOfSeq
      <4>2. i \in Int /\ m \in Int /\ i <= m
        OBVIOUS
      <4> QED
        BY <3>1, <3>8, <4>1, <4>2, SubSeqProperties
    <3>10. PICK v : v = u \o t
      OBVIOUS
    <3>11. /\ v \in Seq(Operations) /\ Len(v) = p + k
          /\ \A j \in 1..(p + k) : v[j] = IF j <= p THEN u[j] ELSE t[j - p]
      <4>1. Len(u) = p /\ Len(t) = k /\ t \in Seq(Operations)
        BY <1>1, <1>2, <3>9
      <4>2. /\ u \o t \in Seq(Operations) /\ Len(u \o t) = Len(u) + Len(t)
            /\ \A j \in 1..(Len(u) + Len(t)) : (u \o t)[j] = IF j <= Len(u) THEN u[j] ELSE t[j - Len(u)]
        BY <4>1, ConcatProperties, Zenon
      <4> QED
        BY <3>10, <4>1, <4>2, Zenon
    <3>12. ASSUME NEW j \in 1..(p + k) PROVE q[j] = v[j]
      <4>1. PICK h \in Int : h = i + j - 1
        OBVIOUS
      <4>2. q[j] = r[h] /\ v[j] = IF j <= p THEN u[j] ELSE t[j - p]
        BY <3>2, <3>7, <3>11, <4>1
      <4>3. CASE j <= p
        <5>1. h \in 1..m /\ j \in 1..p
          BY <3>1, <4>1, <4>3
        <5>2. r[h] = s[h]
          BY <1>3, <3>2, <5>1
        <5>3. u[j] = s[h]
          BY <3>9, <4>1, <5>1
        <5> QED
          BY <4>2, <4>3, <5>2, <5>3
      <4>4. CASE j > p
        <5>1. PICK g \in 1..k : g = j - p /\ h = m + g
          BY <3>1, <4>1, <4>4
        <5>2. r[h] = t[g]
          BY <1>3, <3>2, <5>1
        <5>3. v[j] = t[g]
          BY <4>2, <4>4, <5>1
        <5> QED
          BY <4>2, <5>2, <5>3
      <4> QED
        BY <4>3, <4>4
    <3>13. q = v
      <4>1. Len(q) = Len(v) /\ \A j \in 1..Len(q) : q[j] = v[j]
        BY <3>7, <3>12, <3>11
      <4> QED
        BY <3>11, <4>1, SeqEqual
    <3> QED
      BY <3>6, <3>8, <3>10, <3>13
  <2>4. Bars(SubSeq(s \o t, i, m + k)) = Bars(SubSeq(s, i, m)) + Bars(t)
    BY <1>2, <2>2, <2>3, BarsConcat
  <2>5. d + Bars(SubSeq(s \o t, i, m + k)) = c + Bars(SubSeq(s, i, m))
    <3>1. PICK p \in Nat, q \in Nat : p = Bars(SubSeq(s, i, m)) /\ q = Bars(t)
      BY <1>2, <1>4, <2>2
    <3>2. Bars(SubSeq(s \o t, i, m + k)) = p + q /\ c = d + q
      BY <1>2, <2>4, <3>1
    <3> HIDE <1>4
    <3> QED
      BY <1>2, <3>1, <3>2
  <2>6. StageAt(loads, s \o t, i, d) = StageAt(loads, s, i, c)
    BY <1>1, <1>3, <2>5 DEF StageAt
  <2>7. After(s \o t, i, z) = After(s, i, y)
    <3>1. CASE i < m
      BY <1>1, <1>3, <3>1 DEF After
    <3>2. CASE i = m /\ k = 0
      BY <1>1, <1>2, <1>3, <3>2, EmptySeq DEF After, First
    <3>3. CASE i = m /\ k > 0
      BY <1>1, <1>2, <1>3, <3>3, EmptySeq DEF After, First
    <3> QED
      BY <3>1, <3>2, <3>3
  <2> QED
    BY <1>3, <2>1, <2>6, <2>7
<1>8. ASSUME NEW j \in 1..k
      PROVE  Edge(w, n, loads, old, (s \o t)[m + j], StageAt(loads, s \o t, m + j, d), After(s \o t, m + j, z))
  <2>1. Edge(w, n, loads, old, t[j], StageAt(loads, t, j, d), After(t, j, z))
    BY <1>1 DEF Leads, Path
  <2>2. SubSeq(s \o t, m + j, m + k) = SubSeq(t, j, k)
    BY <1>1, <1>2, <1>3
  <2>3. After(s \o t, m + j, z) = After(t, j, z)
    BY <1>1, <1>3 DEF After
  <2> QED
    BY <1>1, <1>3, <2>1, <2>2, <2>3 DEF StageAt
<1>9. Path(w, n, loads, old, s \o t, z, d)
  <2> SUFFICES ASSUME NEW i \in 1..(m + k)
               PROVE  Edge(w, n, loads, old, (s \o t)[i], StageAt(loads, s \o t, i, d), After(s \o t, i, z))
    BY <1>3 DEF Path
  <2>1. CASE i <= m
    <3>1. i \in 1..m
      BY <2>1
    <3> QED
      BY <1>7, <3>1, Zenon
  <2>2. CASE i > m
    <3>1. i - m \in 1..k /\ m + (i - m) = i
      BY <2>2
    <3>2. Edge(w, n, loads, old, (s \o t)[m + (i - m)], StageAt(loads, s \o t, m + (i - m), d),
               After(s \o t, m + (i - m), z))
      BY <1>8, <3>1, Zenon
    <3> QED
      BY <3>1, <3>2, Zenon
  <2>3. i <= m \/ i > m
    OBVIOUS
  <2> QED
    BY <2>1, <2>2, <2>3, Zenon
<1> QED
  BY <1>2, <1>3, <1>5, <1>6, <1>9 DEF Leads

\* An empty piece leads from a place to itself.
LEMMA LeadsNone ==
    ASSUME NEW w, NEW n, NEW loads, NEW old, NEW x, NEW b \in Nat
    PROVE  Leads(w, n, loads, old, <<>>, x, b, x, b)
<1>1. Bars(<<>>) = 0
  <2>1. <<>> \in Seq(Operations \ Barriers)
    OBVIOUS
  <2> QED
    BY <2>1, BarsNone
<1> QED
  BY <1>1 DEF Leads, Path, First

\* An operation leads to what follows it, a barrier to the next stage.
LEMMA LeadsOne ==
    ASSUME NEW w, NEW n, NEW loads, NEW old, NEW x \in Operations, NEW y, NEW c \in Nat,
           NEW b \in Nat, b = c + (IF x \in Barriers THEN 1 ELSE 0),
           Edge(w, n, loads, old, x, Stage(loads, b), y)
    PROVE  Leads(w, n, loads, old, <<x>>, x, b, y, c)
<1> DEFINE s == <<x>>
<1>1. s \in Seq(Operations) /\ Len(s) = 1 /\ s[1] = x /\ s # <<>>
  OBVIOUS
<1>1a. SubSeq(s, 1, 1) = s
  <2> HIDE DEF s
  <2> QED
    BY <1>1
<1>2. Bars(s) = IF x \in Barriers THEN 1 ELSE 0
  BY BarsOne
<1> HIDE DEF s
<1>3. StageAt(loads, s, 1, c) = Stage(loads, b) /\ After(s, 1, y) = y /\ First(s, y) = x
  <2>1. ~(1 < 1)
    OBVIOUS
  <2> QED
    BY <1>1, <1>1a, <1>2, <2>1 DEF StageAt, After, First
<1>4. Path(w, n, loads, old, s, y, c)
  BY <1>1, <1>3 DEF Path
<1>5. Leads(w, n, loads, old, s, x, b, y, c)
  BY <1>1, <1>2, <1>3, <1>4 DEF Leads
<1> QED
  BY <1>5 DEF s

\* Lists of two to five operations.
LEMMA LeadsTwo ==
    ASSUME NEW w, NEW n, NEW loads, NEW old, NEW o1 \in Operations, NEW o2 \in Operations,
           NEW x, NEW b, NEW y, NEW c, NEW z, NEW d, Leads(w, n, loads, old, <<o1>>, x, b, y, c),
           Leads(w, n, loads, old, <<o2>>, y, c, z, d)
    PROVE  Leads(w, n, loads, old, <<o1, o2>>, x, b, z, d)
<1>1. <<o1>> \o <<o2>> = <<o1, o2>>
  <2>1. <<o1>> \in Seq(Operations) /\ <<o2>> \in Seq(Operations) /\ <<o1, o2>> \in Seq(Operations)
    OBVIOUS
  <2>2. <<o1>> \o <<o2>> \in Seq(Operations) /\ Len(<<o1>> \o <<o2>>) = 2
    BY <2>1
  <2>3. \A i \in 1..2 : (<<o1>> \o <<o2>>)[i] = <<o1, o2>>[i]
    BY <2>1
  <2>4. Len(<<o1, o2>>) = 2
    OBVIOUS
  <2> QED
    BY <2>1, <2>2, <2>3, <2>4, SeqEqual
<1>2. Leads(w, n, loads, old, <<o1>> \o <<o2>>, x, b, z, d)
  BY LeadsConcat, Zenon
<1> QED
  BY <1>1, <1>2, Zenon

\* The same for three operations.
LEMMA LeadsThree ==
    ASSUME NEW w, NEW n, NEW loads, NEW old, NEW o1 \in Operations, NEW o2 \in Operations, NEW o3 \in Operations,
           NEW x, NEW b, NEW y, NEW c, NEW z, NEW d, Leads(w, n, loads, old, <<o1>>, x, b, y, c),
           Leads(w, n, loads, old, <<o2, o3>>, y, c, z, d)
    PROVE  Leads(w, n, loads, old, <<o1, o2, o3>>, x, b, z, d)
<1>1. <<o1>> \o <<o2, o3>> = <<o1, o2, o3>>
  <2>1. <<o1>> \in Seq(Operations) /\ <<o2, o3>> \in Seq(Operations) /\ <<o1, o2, o3>> \in Seq(Operations)
    OBVIOUS
  <2>2. <<o1>> \o <<o2, o3>> \in Seq(Operations) /\ Len(<<o1>> \o <<o2, o3>>) = 3
    BY <2>1
  <2>3. \A i \in 1..3 : (<<o1>> \o <<o2, o3>>)[i] = <<o1, o2, o3>>[i]
    BY <2>1
  <2>4. Len(<<o1, o2, o3>>) = 3
    OBVIOUS
  <2> QED
    BY <2>1, <2>2, <2>3, <2>4, SeqEqual
<1>2. Leads(w, n, loads, old, <<o1>> \o <<o2, o3>>, x, b, z, d)
  BY LeadsConcat, Zenon
<1> QED
  BY <1>1, <1>2, Zenon

\* The same for four operations.
LEMMA LeadsFour ==
    ASSUME NEW w, NEW n, NEW loads, NEW old, NEW o1 \in Operations, NEW o2 \in Operations, NEW o3 \in Operations,
           NEW o4 \in Operations,
           NEW x, NEW b, NEW y, NEW c, NEW z, NEW d, Leads(w, n, loads, old, <<o1>>, x, b, y, c),
           Leads(w, n, loads, old, <<o2, o3, o4>>, y, c, z, d)
    PROVE  Leads(w, n, loads, old, <<o1, o2, o3, o4>>, x, b, z, d)
<1>1. <<o1>> \o <<o2, o3, o4>> = <<o1, o2, o3, o4>>
  <2>1. <<o1>> \in Seq(Operations) /\ <<o2, o3, o4>> \in Seq(Operations) /\ <<o1, o2, o3, o4>> \in Seq(Operations)
    OBVIOUS
  <2>2. <<o1>> \o <<o2, o3, o4>> \in Seq(Operations) /\ Len(<<o1>> \o <<o2, o3, o4>>) = 4
    BY <2>1
  <2>3. \A i \in 1..4 : (<<o1>> \o <<o2, o3, o4>>)[i] = <<o1, o2, o3, o4>>[i]
    BY <2>1
  <2>4. Len(<<o1, o2, o3, o4>>) = 4
    OBVIOUS
  <2> QED
    BY <2>1, <2>2, <2>3, <2>4, SeqEqual
<1>2. Leads(w, n, loads, old, <<o1>> \o <<o2, o3, o4>>, x, b, z, d)
  BY LeadsConcat, Zenon
<1> QED
  BY <1>1, <1>2, Zenon

\* The same for five operations.
LEMMA LeadsFive ==
    ASSUME NEW w, NEW n, NEW loads, NEW old, NEW o1 \in Operations, NEW o2 \in Operations, NEW o3 \in Operations,
           NEW o4 \in Operations, NEW o5 \in Operations,
           NEW x, NEW b, NEW y, NEW c, NEW z, NEW d, Leads(w, n, loads, old, <<o1>>, x, b, y, c),
           Leads(w, n, loads, old, <<o2, o3, o4, o5>>, y, c, z, d)
    PROVE  Leads(w, n, loads, old, <<o1, o2, o3, o4, o5>>, x, b, z, d)
<1>1. <<o1>> \o <<o2, o3, o4, o5>> = <<o1, o2, o3, o4, o5>>
  <2>1. <<o1>> \in Seq(Operations) /\ <<o2, o3, o4, o5>> \in Seq(Operations) /\ <<o1, o2, o3, o4, o5>> \in Seq(Operations)
    OBVIOUS
  <2>2. <<o1>> \o <<o2, o3, o4, o5>> \in Seq(Operations) /\ Len(<<o1>> \o <<o2, o3, o4, o5>>) = 5
    BY <2>1
  <2>3. \A i \in 1..5 : (<<o1>> \o <<o2, o3, o4, o5>>)[i] = <<o1, o2, o3, o4, o5>>[i]
    BY <2>1
  <2>4. Len(<<o1, o2, o3, o4, o5>>) = 5
    OBVIOUS
  <2> QED
    BY <2>1, <2>2, <2>3, <2>4, SeqEqual
<1>2. Leads(w, n, loads, old, <<o1>> \o <<o2, o3, o4, o5>>, x, b, z, d)
  BY LeadsConcat, Zenon
<1> QED
  BY <1>1, <1>2, Zenon

\* One operation in a stage.
LEMMA LeadsStep ==
    ASSUME NEW w, NEW n, NEW loads, NEW old, NEW x \in Operations, NEW y, NEW b \in 1..16, NEW g,
           g = Stage(loads, b), Edge(w, n, loads, old, x, g, y)
    PROVE  /\ x \notin Barriers => Leads(w, n, loads, old, <<x>>, x, b, y, b)
           /\ x \in Barriers => Leads(w, n, loads, old, <<x>>, x, b, y, b - 1)
<1>0. b \in Nat
  OBVIOUS
<1>1. CASE x \notin Barriers
  <2>1. b = b + (IF x \in Barriers THEN 1 ELSE 0)
    BY <1>0, <1>1
  <2> QED
    BY <1>0, <1>1, <2>1, LeadsOne, Zenon
<1>2. CASE x \in Barriers
  <2>1. b - 1 \in Nat /\ b = (b - 1) + (IF x \in Barriers THEN 1 ELSE 0)
    BY <1>2
  <2> QED
    BY <1>0, <1>2, <2>1, LeadsOne, Zenon
<1> QED
  BY <1>1, <1>2

\* DistributedTrainer.initialize
LEMMA LeadsInitialize ==
    ASSUME NEW w, NEW n, NEW loads \in BOOLEAN, NEW old, NEW y, NEW k,
           k = IF loads THEN 4 ELSE 0, y = "barrier" \/ (~loads /\ y = "SparsePull")
    PROVE  Leads(w, n, loads, old, Initialize(w), "barrier", 12 + k, y, 8 + k)
<1> DEFINE L(s, x, b, z, c) == Leads(w, n, loads, old, s, x, b, z, c)
           h == IF w = 0 THEN "DensePushValue" ELSE "barrier"
<1>0. k \in {0, 4}
  OBVIOUS
<1>1. /\ Stage(loads, 12 + k) = 16 /\ Stage(loads, 11 + k) = 15 /\ Stage(loads, 10 + k) = 14
      /\ Stage(loads, 9 + k) = 13
  BY DEF Stage
<1>2. /\ 12 + k \in 1..16 /\ 11 + k \in 1..16 /\ 10 + k \in 1..16 /\ 9 + k \in 1..16
      /\ 12 + k - 1 = 11 + k /\ 11 + k - 1 = 10 + k /\ 10 + k - 1 = 9 + k /\ 9 + k - 1 = 8 + k
  BY <1>0
<1>3. /\ {"barrier", "synced", "SparseInit", "DenseInit", "DensePushValue", "DensePull"} \subseteq Operations
      /\ "barrier" \in Barriers /\ "synced" \in Barriers /\ "SparseInit" \notin Barriers
      /\ "DenseInit" \notin Barriers /\ "DensePushValue" \notin Barriers /\ "DensePull" \notin Barriers
  BY DEF Operations, Barriers
<1>4. L(<<"barrier">>, "barrier", 12 + k, "SparseInit", 11 + k)
  <2>1. Edge(w, n, loads, old, "barrier", 16, "SparseInit")
    BY DEF Edge
  <2> QED
    BY <1>1, <1>2, <1>3, <2>1, LeadsStep
<1>5. L(<<"SparseInit">>, "SparseInit", 11 + k, "DenseInit", 11 + k)
  <2>1. Edge(w, n, loads, old, "SparseInit", 15, "DenseInit")
    BY DEF Edge
  <2> QED
    BY <1>1, <1>2, <1>3, <2>1, LeadsStep
<1>6. L(<<"DenseInit">>, "DenseInit", 11 + k, "barrier", 11 + k)
  <2>1. Edge(w, n, loads, old, "DenseInit", 15, "barrier")
    BY DEF Edge
  <2> QED
    BY <1>1, <1>2, <1>3, <2>1, LeadsStep
<1>7. L(<<"barrier">>, "barrier", 11 + k, h, 10 + k)
  <2>1. Edge(w, n, loads, old, "barrier", 15, h)
    BY DEF Edge
  <2> QED
    BY <1>1, <1>2, <1>3, <2>1, LeadsStep
<1>8. L(<<"barrier">>, "barrier", 10 + k, "DensePull", 9 + k)
  <2>1. Edge(w, n, loads, old, "barrier", 14, "DensePull")
    BY DEF Edge
  <2> QED
    BY <1>1, <1>2, <1>3, <2>1, LeadsStep
<1>9. L(<<"DensePull">>, "DensePull", 9 + k, "synced", 9 + k)
  <2>1. Edge(w, n, loads, old, "DensePull", 13, "synced")
    BY DEF Edge
  <2> QED
    BY <1>1, <1>2, <1>3, <2>1, LeadsStep
<1>10. L(<<"synced">>, "synced", 9 + k, y, 8 + k)
  <2>1. Edge(w, n, loads, old, "synced", 13, y)
    BY DEF Edge
  <2> QED
    BY <1>1, <1>2, <1>3, <2>1, LeadsStep
<1>11. L(Rank0(w, <<"DensePushValue">>), h, 10 + k, "barrier", 10 + k)
  <2>1. CASE w = 0
    <3>1. L(<<"DensePushValue">>, "DensePushValue", 10 + k, "barrier", 10 + k)
      <4>1. Edge(w, n, loads, old, "DensePushValue", 14, "barrier")
        BY <2>1 DEF Edge
      <4> QED
        BY <1>1, <1>2, <1>3, <4>1, LeadsStep
    <3> QED
      BY <2>1, <3>1 DEF Rank0
  <2>2. CASE w # 0
    BY <1>0, <2>2, LeadsNone DEF Rank0
  <2> QED
    BY <2>1, <2>2
<1> HIDE DEF h
<1>12. L(<<"barrier", "SparseInit", "DenseInit", "barrier">>, "barrier", 12 + k, h, 10 + k)
  <2>1. L(<<"DenseInit", "barrier">>, "DenseInit", 11 + k, h, 10 + k)
    BY <1>3, <1>6, <1>7, LeadsTwo
  <2>2. L(<<"SparseInit", "DenseInit", "barrier">>, "SparseInit", 11 + k, h, 10 + k)
    BY <1>3, <1>5, <2>1, LeadsThree
  <2> QED
    BY <1>3, <1>4, <2>2, LeadsFour
<1>13. L(<<"barrier", "DensePull", "synced">>, "barrier", 10 + k, y, 8 + k)
  <2>1. L(<<"DensePull", "synced">>, "DensePull", 9 + k, y, 8 + k)
    BY <1>3, <1>9, <1>10, LeadsTwo
  <2> QED
    BY <1>3, <1>8, <2>1, LeadsThree
<1>14. L(<<"barrier", "SparseInit", "DenseInit", "barrier">> \o Rank0(w, <<"DensePushValue">>),
         "barrier", 12 + k, "barrier", 10 + k)
  BY <1>11, <1>12, LeadsConcat
<1> QED
  BY <1>13, <1>14, LeadsConcat DEF Initialize

\* DistributedTrainer.load
LEMMA LeadsLoad ==
    ASSUME NEW w, NEW n, NEW loads \in BOOLEAN, NEW old, NEW k,
           k = IF loads THEN 4 ELSE 0, k = 4, NEW y, y \in {"SparsePull", "barrier"}
    PROVE  Leads(w, n, loads, old, Load(w, n, old), "barrier", 12, y, 8)
<1> DEFINE L(s, x, b, z, c) == Leads(w, n, loads, old, s, x, b, z, c)
           clear == IF w = 0 THEN "SparseClear" ELSE "barrier"
           load == IF old = n THEN "SparseLoad" ELSE "Import"
           rest == IF w = 0 THEN load ELSE IF old = n THEN "DenseReadMeta" ELSE "Import"
           meta == IF w = 0 /\ ~KeepMeta THEN "SparsePushMeta" ELSE rest
           data == IF w # 0 THEN "barrier" ELSE IF KeepMeta THEN "DenseLoadData" ELSE "DensePushMeta"
           state == IF HasState THEN "DenseLoadState" ELSE "barrier"
<1>0. KeepMeta \in BOOLEAN /\ HasState \in BOOLEAN
  BY TrainerAssumption
<1>1. \A b \in 8..16 : Stage(loads, b) = b
  BY DEF Stage
<1>2. /\ "barrier" \in Operations \cap Barriers /\ "synced" \in Operations \cap Barriers
      /\ {"SparseClear", "SparseReadMeta", "SparsePushMeta", "SparseLoad",
        "Import", "DenseReadMeta", "DensePushMeta", "DenseLoadData",
        "DenseLoadState", "DensePull"}
           \subseteq Operations \ Barriers
  BY DEF Operations, Barriers
<1>3. L(<<"barrier">>, "barrier", 12, clear, 11)
  <2>1. Edge(w, n, loads, old, "barrier", 12, clear)
    BY DEF Edge
  <2> QED
    BY <1>1, <1>2, <2>1, LeadsStep
<1>4. L(<<"barrier">>, "barrier", 11, "SparseReadMeta", 10)
  <2>1. Edge(w, n, loads, old, "barrier", 11, "SparseReadMeta")
    BY DEF Edge
  <2> QED
    BY <1>1, <1>2, <2>1, LeadsStep
<1>5. L(<<"SparseReadMeta">>, "SparseReadMeta", 10, meta, 10)
  <2>1. Edge(w, n, loads, old, "SparseReadMeta", 10, meta)
    BY <1>0 DEF Edge
  <2> QED
    BY <1>1, <1>2, <2>1, LeadsStep
<1>6. L(<<"DenseReadMeta">>, "DenseReadMeta", 10, data, 10)
  <2>1. Edge(w, n, loads, old, "DenseReadMeta", 10, data)
    BY <1>0 DEF Edge
  <2> QED
    BY <1>1, <1>2, <2>1, LeadsStep
<1>7. L(<<"barrier">>, "barrier", 10, "DensePull", 9)
  <2>1. Edge(w, n, loads, old, "barrier", 10, "DensePull")
    BY DEF Edge
  <2> QED
    BY <1>1, <1>2, <2>1, LeadsStep
<1>8. L(<<"DensePull">>, "DensePull", 9, "synced", 9)
  <2>1. Edge(w, n, loads, old, "DensePull", 9, "synced")
    BY DEF Edge
  <2> QED
    BY <1>1, <1>2, <2>1, LeadsStep
<1>9. L(<<"synced">>, "synced", 9, y, 8)
  <2>1. Edge(w, n, loads, old, "synced", 9, y)
    BY DEF Edge
  <2> QED
    BY <1>1, <1>2, <2>1, LeadsStep
<1>10. L(Rank0(w, <<"SparseClear">>), clear, 11, "barrier", 11)
  <2>1. CASE w = 0
    <3>1. L(<<"SparseClear">>, "SparseClear", 11, "barrier", 11)
      <4>1. Edge(w, n, loads, old, "SparseClear", 11, "barrier")
        BY <2>1 DEF Edge
      <4> QED
        BY <1>1, <1>2, <4>1, LeadsStep
    <3> QED
      BY <2>1, <3>1 DEF Rank0
  <2>2. CASE w # 0
    BY <2>2, LeadsNone DEF Rank0
  <2> QED
    BY <2>1, <2>2
<1>11. L(Rank0(w, If(~KeepMeta, <<"SparsePushMeta">>)), meta, 10, rest, 10)
  <2>1. CASE w = 0 /\ ~KeepMeta
    <3>1. L(<<"SparsePushMeta">>, "SparsePushMeta", 10, rest, 10)
      <4>1. Edge(w, n, loads, old, "SparsePushMeta", 10, rest)
        BY <2>1 DEF Edge
      <4> QED
        BY <1>1, <1>2, <4>1, LeadsStep
    <3> QED
      BY <2>1, <3>1 DEF Rank0, If
  <2>2. CASE ~(w = 0 /\ ~KeepMeta)
    BY <1>0, <2>2, LeadsNone DEF Rank0, If
  <2> QED
    BY <2>1, <2>2
<1>12. L(IF old = n THEN Rank0(w, <<"SparseLoad">>) ELSE <<"Import">>, rest, 10, "DenseReadMeta", 10)
  <2>1. CASE old = n /\ w = 0
    <3>1. L(<<"SparseLoad">>, "SparseLoad", 10, "DenseReadMeta", 10)
      <4>1. Edge(w, n, loads, old, "SparseLoad", 10, "DenseReadMeta")
        BY <2>1 DEF Edge
      <4> QED
        BY <1>1, <1>2, <4>1, LeadsStep
    <3> QED
      BY <2>1, <3>1 DEF Rank0
  <2>2. CASE old = n /\ w # 0
    BY <2>2, LeadsNone DEF Rank0
  <2>3. CASE old # n
    <3>1. L(<<"Import">>, "Import", 10, "DenseReadMeta", 10)
      <4>1. Edge(w, n, loads, old, "Import", 10, "DenseReadMeta")
        BY <2>3 DEF Edge
      <4> QED
        BY <1>1, <1>2, <4>1, LeadsStep
    <3> QED
      BY <2>3, <3>1
  <2> QED
    BY <2>1, <2>2, <2>3
<1>13. L(Rank0(w, If(~KeepMeta, <<"DensePushMeta">>) \o <<"DenseLoadData">>
                    \o If(HasState, <<"DenseLoadState">>)), data, 10, "barrier", 10)
  <2>1. CASE w = 0
    <3>1. L(If(~KeepMeta, <<"DensePushMeta">>), data, 10, "DenseLoadData", 10)
      <4>1. CASE ~KeepMeta
        <5>1. L(<<"DensePushMeta">>, "DensePushMeta", 10, "DenseLoadData", 10)
          <6>1. Edge(w, n, loads, old, "DensePushMeta", 10, "DenseLoadData")
            BY <2>1 DEF Edge
          <6> QED
            BY <1>1, <1>2, <6>1, LeadsStep
        <5> QED
          BY <2>1, <4>1, <5>1 DEF If
      <4>2. CASE KeepMeta
        BY <2>1, <4>2, LeadsNone DEF If
      <4> QED
        BY <1>0, <4>1, <4>2
    <3>2. L(<<"DenseLoadData">>, "DenseLoadData", 10, state, 10)
      <4>1. Edge(w, n, loads, old, "DenseLoadData", 10, state)
        BY <2>1, <1>0 DEF Edge
      <4> QED
        BY <1>1, <1>2, <4>1, LeadsStep
    <3>3. L(If(HasState, <<"DenseLoadState">>), state, 10, "barrier", 10)
      <4>1. CASE HasState
        <5>1. L(<<"DenseLoadState">>, "DenseLoadState", 10, "barrier", 10)
          <6>1. Edge(w, n, loads, old, "DenseLoadState", 10, "barrier")
            BY <2>1, <4>1 DEF Edge
          <6> QED
            BY <1>1, <1>2, <6>1, LeadsStep
        <5> QED
          BY <4>1, <5>1 DEF If
      <4>2. CASE ~HasState
        BY <4>2, LeadsNone DEF If
      <4> QED
        BY <1>0, <4>1, <4>2
    <3> HIDE DEF data, state
    <3>4. L(If(~KeepMeta, <<"DensePushMeta">>) \o <<"DenseLoadData">>, data, 10, state, 10)
      BY <3>1, <3>2, LeadsConcat
    <3>5. L(If(~KeepMeta, <<"DensePushMeta">>) \o <<"DenseLoadData">>
              \o If(HasState, <<"DenseLoadState">>), data, 10, "barrier", 10)
      BY <3>3, <3>4, LeadsConcat
    <3> QED
      BY <2>1, <3>5 DEF Rank0
  <2>2. CASE w # 0
    BY <2>2, LeadsNone DEF Rank0
  <2> QED
    BY <2>1, <2>2
<1> HIDE DEF clear, load, rest, meta, data, state
<1>14. L(<<"barrier", "SparseReadMeta">>, "barrier", 11, meta, 10)
  BY <1>2, <1>4, <1>5, LeadsTwo
<1>15. L(<<"barrier", "DensePull", "synced">>, "barrier", 10, y, 8)
  <2>1. L(<<"DensePull", "synced">>, "DensePull", 9, y, 8)
    BY <1>2, <1>8, <1>9, LeadsTwo
  <2> QED
    BY <1>2, <1>7, <2>1, LeadsThree
<1> DEFINE p2 == <<"barrier">> \o Rank0(w, <<"SparseClear">>)
           p3 == p2 \o <<"barrier", "SparseReadMeta">>
           p4 == p3 \o Rank0(w, If(~KeepMeta, <<"SparsePushMeta">>))
           p5 == p4 \o (IF old = n THEN Rank0(w, <<"SparseLoad">>) ELSE <<"Import">>)
           p6 == p5 \o <<"DenseReadMeta">>
           p7 == p6 \o Rank0(w, If(~KeepMeta, <<"DensePushMeta">>) \o <<"DenseLoadData">>
                                  \o If(HasState, <<"DenseLoadState">>))
<1>16. L(p2, "barrier", 12, "barrier", 11)
  BY <1>3, <1>10, LeadsConcat
<1> HIDE DEF p2
<1>17. L(p3, "barrier", 12, meta, 10)
  BY <1>14, <1>16, LeadsConcat
<1> HIDE DEF p3
<1>18. L(p4, "barrier", 12, rest, 10)
  BY <1>11, <1>17, LeadsConcat
<1> HIDE DEF p4
<1>19. L(p5, "barrier", 12, "DenseReadMeta", 10)
  BY <1>12, <1>18, LeadsConcat
<1> HIDE DEF p5
<1>20. L(p6, "barrier", 12, data, 10)
  BY <1>6, <1>19, LeadsConcat
<1> HIDE DEF p6
<1>21. L(p7, "barrier", 12, "barrier", 10)
  BY <1>13, <1>20, LeadsConcat
<1> HIDE DEF p7
<1>22. L(p7 \o <<"barrier", "DensePull", "synced">>, "barrier", 12, y, 8)
  BY <1>15, <1>21, LeadsConcat
<1> QED
  BY <1>22 DEF Load, p2, p3, p4, p5, p6, p7

\* SparseModel.__call__ and DistributedTrainer.train
LEMMA LeadsTrain ==
    ASSUME NEW w \in Workers, NEW n, NEW loads, NEW old
    PROVE  Leads(w, n, loads, old, Train(w), IF Batches[w] = 0 THEN "barrier" ELSE "SparsePull", 8,
                 "barrier", 8)
<1> DEFINE t == Train(w)
<1>1. PICK m \in Nat : m = Batches[w]
  BY TrainerAssumption DEF Workers
<1>2. t = [i \in 1..(4 * m) |-> Minibatch[((i - 1) % 4) + 1]]
  BY <1>1 DEF Train
<1>3. /\ Minibatch[1] = "SparsePull" /\ Minibatch[2] = "DensePull" /\ Minibatch[3] = "SparsePush"
      /\ Minibatch[4] = "DensePush"
  BY DEF Minibatch
<1>4. \A j \in 1..4 : Minibatch[j] \in Operations \ Barriers
  BY <1>3, OpsAreOperations
<1>5. \A i \in 1..(4 * m) : ((i - 1) % 4) + 1 \in 1..4
  OBVIOUS
<1>6. \A i \in 1..(4 * m) : t[i] \in Operations \ Barriers
  BY <1>2, <1>4, <1>5
<1>7. t \in Seq(Operations \ Barriers) /\ Len(t) = 4 * m
  BY <1>2, <1>6
<1> HIDE DEF t
<1>8. t \in Seq(Operations) /\ Bars(t) = 0
  BY <1>7, BarsNone
<1>9. ASSUME NEW i \in 1..(4 * m)
      PROVE  Edge(w, n, loads, old, t[i], StageAt(loads, t, i, 8), After(t, i, "barrier"))
  <2>1. Bars(SubSeq(t, i, 4 * m)) = 0
    <3>1. SubSeq(t, i, 4 * m) \in Seq(Operations \ Barriers)
      BY <1>7, SubSeqProperties
    <3> QED
      BY <3>1, BarsNone
  <2>2. StageAt(loads, t, i, 8) = 8
    BY <1>7, <2>1 DEF StageAt, Stage
  <2>3. PICK j \in 1..4 : j = ((i - 1) % 4) + 1
    BY <1>5
  <2>4. t[i] = Minibatch[j]
    BY <1>2, <2>3
  <2>5. CASE i < 4 * m
    <3>1. After(t, i, "barrier") = t[i + 1] /\ i + 1 \in 1..(4 * m)
      BY <1>7, <2>5 DEF After
    <3>2. t[i + 1] = Minibatch[(i % 4) + 1]
      BY <1>2, <3>1
    <3>3. (i % 4) + 1 = IF j = 4 THEN 1 ELSE j + 1
      BY <2>3
    <3>4. \/ t[i] = "SparsePull" /\ t[i + 1] = "DensePull"
          \/ t[i] = "DensePull" /\ t[i + 1] = "SparsePush"
          \/ t[i] = "SparsePush" /\ t[i + 1] = "DensePush"
          \/ t[i] = "DensePush" /\ t[i + 1] = "SparsePull"
      BY <1>3, <2>3, <2>4, <3>2, <3>3
    <3> QED
      BY <2>2, <3>1, <3>4 DEF Edge
  <2>6. CASE i = 4 * m
    <3>1. After(t, i, "barrier") = "barrier"
      BY <1>7, <2>6 DEF After
    <3>2. j = 4
      BY <2>3, <2>6
    <3> QED
      BY <1>3, <2>2, <2>4, <3>1, <3>2 DEF Edge
  <2> QED
    BY <2>5, <2>6
<1>10. Path(w, n, loads, old, t, "barrier", 8)
  BY <1>7, <1>9 DEF Path
<1>11. First(t, "barrier") = IF m = 0 THEN "barrier" ELSE "SparsePull"
  <2>1. CASE m = 0
    <3>1. t = <<>>
      BY <1>7, <1>8, <2>1, EmptySeq
    <3> QED
      BY <2>1, <3>1 DEF First
  <2>2. CASE m > 0
    <3>1. t # <<>>
      BY <1>7, <2>2
    <3>2. t[1] = Minibatch[((1 - 1) % 4) + 1]
      BY <1>2, <2>2
    <3>3. ((1 - 1) % 4) + 1 = 1
      OBVIOUS
    <3> QED
      BY <1>3, <2>2, <3>1, <3>2, <3>3 DEF First
  <2> QED
    BY <2>1, <2>2
<1>12. Leads(w, n, loads, old, t, IF m = 0 THEN "barrier" ELSE "SparsePull", 8, "barrier", 8)
  BY <1>8, <1>10, <1>11 DEF Leads
<1> QED
  BY <1>1, <1>12 DEF t

\* PyTorchAgent.worker_stop
LEMMA LeadsFinish ==
    ASSUME NEW w, NEW n, NEW loads, NEW old
    PROVE  Leads(w, n, loads, old, Finish(w), "barrier", 8, None, 0)
<1> DEFINE L(s, x, b, z, c) == Leads(w, n, loads, old, s, x, b, z, c)
           old_ones == IF w = 0 THEN "SparsePruneOld" ELSE "barrier"
           save == IF w = 0 THEN "SparsePullMeta" ELSE "barrier"
           small == IF w = 0 THEN "SparsePruneSmall" ELSE "barrier"
           last == IF w = 0 THEN "SparseExport" ELSE "synced"
<1>1. \A b \in 1..8 : Stage(loads, b) = b
  BY DEF Stage
<1>2. /\ "barrier" \in Operations \cap Barriers /\ "synced" \in Operations \cap Barriers
      /\ {"SparsePruneOld", "SparsePullMeta", "SparseSave", "DensePullMeta",
        "DenseSaveData", "DenseSaveState", "SparsePruneSmall",
        "SparsePullReadOnly", "DensePull", "SparseExport"}
           \subseteq Operations \ Barriers
  BY DEF Operations, Barriers
<1>3. L(<<"barrier">>, "barrier", 8, old_ones, 7)
  <2>1. Edge(w, n, loads, old, "barrier", 8, old_ones)
    BY DEF Edge
  <2> QED
    BY <1>1, <1>2, <2>1, LeadsStep
<1>4. L(<<"barrier">>, "barrier", 7, "barrier", 6)
  <2>1. Edge(w, n, loads, old, "barrier", 7, "barrier")
    BY DEF Edge
  <2> QED
    BY <1>1, <1>2, <2>1, LeadsStep
<1>5. L(<<"barrier">>, "barrier", 6, save, 5)
  <2>1. Edge(w, n, loads, old, "barrier", 6, save)
    BY DEF Edge
  <2> QED
    BY <1>1, <1>2, <2>1, LeadsStep
<1>6. L(<<"barrier">>, "barrier", 5, "barrier", 4)
  <2>1. Edge(w, n, loads, old, "barrier", 5, "barrier")
    BY DEF Edge
  <2> QED
    BY <1>1, <1>2, <2>1, LeadsStep
<1>7. L(<<"barrier">>, "barrier", 4, small, 3)
  <2>1. Edge(w, n, loads, old, "barrier", 4, small)
    BY DEF Edge
  <2> QED
    BY <1>1, <1>2, <2>1, LeadsStep
<1>8. L(<<"barrier">>, "barrier", 3, "barrier", 2)
  <2>1. Edge(w, n, loads, old, "barrier", 3, "barrier")
    BY DEF Edge
  <2> QED
    BY <1>1, <1>2, <2>1, LeadsStep
<1>9. L(<<"barrier">>, "barrier", 2, "SparsePullReadOnly", 1)
  <2>1. Edge(w, n, loads, old, "barrier", 2, "SparsePullReadOnly")
    BY DEF Edge
  <2> QED
    BY <1>1, <1>2, <2>1, LeadsStep
<1>10. L(<<"SparsePullReadOnly">>, "SparsePullReadOnly", 1, "DensePull", 1)
  <2>1. Edge(w, n, loads, old, "SparsePullReadOnly", 1, "DensePull")
    BY DEF Edge
  <2> QED
    BY <1>1, <1>2, <2>1, LeadsStep
<1>11. L(<<"DensePull">>, "DensePull", 1, last, 1)
  <2>1. Edge(w, n, loads, old, "DensePull", 1, last)
    BY DEF Edge
  <2> QED
    BY <1>1, <1>2, <2>1, LeadsStep
<1>12. L(<<"synced">>, "synced", 1, None, 0)
  <2>1. Edge(w, n, loads, old, "synced", 1, None)
    BY DEF Edge
  <2> QED
    BY <1>1, <1>2, <2>1, LeadsStep
<1>13. L(Rank0(w, <<"SparsePruneOld">>), old_ones, 7, "barrier", 7)
  <2>1. CASE w = 0
    <3>1. L(<<"SparsePruneOld">>, "SparsePruneOld", 7, "barrier", 7)
      <4>1. Edge(w, n, loads, old, "SparsePruneOld", 7, "barrier")
        BY <2>1 DEF Edge
      <4> QED
        BY <1>1, <1>2, <4>1, LeadsStep
    <3> QED
      BY <2>1, <3>1 DEF Rank0
  <2>2. CASE w # 0
    BY <2>2, LeadsNone DEF Rank0
  <2> QED
    BY <2>1, <2>2
<1>14. L(Rank0(w, <<"SparsePruneSmall">>), small, 3, "barrier", 3)
  <2>1. CASE w = 0
    <3>1. L(<<"SparsePruneSmall">>, "SparsePruneSmall", 3, "barrier", 3)
      <4>1. Edge(w, n, loads, old, "SparsePruneSmall", 3, "barrier")
        BY <2>1 DEF Edge
      <4> QED
        BY <1>1, <1>2, <4>1, LeadsStep
    <3> QED
      BY <2>1, <3>1 DEF Rank0
  <2>2. CASE w # 0
    BY <2>2, LeadsNone DEF Rank0
  <2> QED
    BY <2>1, <2>2
<1>15. L(Rank0(w, <<"SparseExport">>), last, 1, "synced", 1)
  <2>1. CASE w = 0
    <3>1. L(<<"SparseExport">>, "SparseExport", 1, "synced", 1)
      <4>1. Edge(w, n, loads, old, "SparseExport", 1, "synced")
        BY <2>1 DEF Edge
      <4> QED
        BY <1>1, <1>2, <4>1, LeadsStep
    <3> QED
      BY <2>1, <3>1 DEF Rank0
  <2>2. CASE w # 0
    BY <2>2, LeadsNone DEF Rank0
  <2> QED
    BY <2>1, <2>2
<1>16. L(Rank0(w, Save), save, 5, "barrier", 5)
  <2>1. CASE w = 0
    <3>1. L(<<"SparsePullMeta">>, "SparsePullMeta", 5, "SparseSave", 5)
      <4>1. Edge(w, n, loads, old, "SparsePullMeta", 5, "SparseSave")
        BY <2>1 DEF Edge
      <4> QED
        BY <1>1, <1>2, <4>1, LeadsStep
    <3>2. L(<<"SparseSave">>, "SparseSave", 5, "DensePullMeta", 5)
      <4>1. Edge(w, n, loads, old, "SparseSave", 5, "DensePullMeta")
        BY <2>1 DEF Edge
      <4> QED
        BY <1>1, <1>2, <4>1, LeadsStep
    <3>3. L(<<"DensePullMeta">>, "DensePullMeta", 5, "DenseSaveData", 5)
      <4>1. Edge(w, n, loads, old, "DensePullMeta", 5, "DenseSaveData")
        BY <2>1 DEF Edge
      <4> QED
        BY <1>1, <1>2, <4>1, LeadsStep
    <3>4. L(<<"DenseSaveData">>, "DenseSaveData", 5, "DenseSaveState", 5)
      <4>1. Edge(w, n, loads, old, "DenseSaveData", 5, "DenseSaveState")
        BY <2>1 DEF Edge
      <4> QED
        BY <1>1, <1>2, <4>1, LeadsStep
    <3>5. L(<<"DenseSaveState">>, "DenseSaveState", 5, "barrier", 5)
      <4>1. Edge(w, n, loads, old, "DenseSaveState", 5, "barrier")
        BY <2>1 DEF Edge
      <4> QED
        BY <1>1, <1>2, <4>1, LeadsStep
    <3>6. L(<<"DenseSaveData", "DenseSaveState">>, "DenseSaveData", 5, "barrier", 5)
      BY <1>2, <3>4, <3>5, LeadsTwo
    <3>7. L(<<"DensePullMeta", "DenseSaveData", "DenseSaveState">>, "DensePullMeta", 5, "barrier", 5)
      BY <1>2, <3>3, <3>6, LeadsThree
    <3>8. L(<<"SparseSave", "DensePullMeta", "DenseSaveData", "DenseSaveState">>, "SparseSave", 5,
            "barrier", 5)
      BY <1>2, <3>2, <3>7, LeadsFour
    <3>9. L(Save, "SparsePullMeta", 5, "barrier", 5)
      BY <1>2, <3>1, <3>8, LeadsFive DEF Save
    <3> QED
      BY <2>1, <3>9 DEF Rank0
  <2>2. CASE w # 0
    BY <2>2, LeadsNone DEF Rank0
  <2> QED
    BY <2>1, <2>2
<1> HIDE DEF old_ones, save, small, last
<1>17. L(<<"barrier", "SparsePullReadOnly", "DensePull">>, "barrier", 2, last, 1)
  <2>1. L(<<"SparsePullReadOnly", "DensePull">>, "SparsePullReadOnly", 1, last, 1)
    BY <1>2, <1>10, <1>11, LeadsTwo
  <2> QED
    BY <1>2, <1>9, <2>1, LeadsThree
<1> DEFINE p2 == <<"barrier">> \o Rank0(w, <<"SparsePruneOld">>)
           p3 == p2 \o <<"barrier">>
           p4 == p3 \o <<"barrier">>
           p5 == p4 \o Rank0(w, Save)
           p6 == p5 \o <<"barrier">>
           p7 == p6 \o <<"barrier">>
           p8 == p7 \o Rank0(w, <<"SparsePruneSmall">>)
           p9 == p8 \o <<"barrier">>
           p10 == p9 \o <<"barrier", "SparsePullReadOnly", "DensePull">>
           p11 == p10 \o Rank0(w, <<"SparseExport">>)
<1>18. L(p2, "barrier", 8, "barrier", 7)
  BY <1>3, <1>13, LeadsConcat
<1> HIDE DEF p2
<1>19. L(p3, "barrier", 8, "barrier", 6)
  BY <1>18, <1>4, LeadsConcat
<1> HIDE DEF p3
<1>20. L(p4, "barrier", 8, save, 5)
  BY <1>19, <1>5, LeadsConcat
<1> HIDE DEF p4
<1>21. L(p5, "barrier", 8, "barrier", 5)
  BY <1>20, <1>16, LeadsConcat
<1> HIDE DEF p5
<1>22. L(p6, "barrier", 8, "barrier", 4)
  BY <1>21, <1>6, LeadsConcat
<1> HIDE DEF p6
<1>23. L(p7, "barrier", 8, small, 3)
  BY <1>22, <1>7, LeadsConcat
<1> HIDE DEF p7
<1>24. L(p8, "barrier", 8, "barrier", 3)
  BY <1>23, <1>14, LeadsConcat
<1> HIDE DEF p8
<1>25. L(p9, "barrier", 8, "barrier", 2)
  BY <1>24, <1>8, LeadsConcat
<1> HIDE DEF p9
<1>26. L(p10, "barrier", 8, last, 1)
  BY <1>25, <1>17, LeadsConcat
<1> HIDE DEF p10
<1>27. L(p11, "barrier", 8, "synced", 1)
  BY <1>26, <1>15, LeadsConcat
<1> HIDE DEF p11
<1>28. L(p11 \o <<"synced">>, "barrier", 8, None, 0)
  BY <1>27, <1>12, LeadsConcat
<1> QED
  BY <1>28 DEF Finish, p2, p3, p4, p5, p6, p7, p8, p9, p10, p11

\* The program of a worker goes along the edges, from the first barrier to its end.
LEMMA ProgramPath ==
    ASSUME NEW w \in Workers, NEW n, NEW loads \in BOOLEAN, NEW old
    PROVE  /\ Path(w, n, loads, old, Program(w, n, loads, old), None, 0)
           /\ First(Program(w, n, loads, old), None) = "barrier"
           /\ Stage(loads, Bars(Program(w, n, loads, old))) = 16
<1> DEFINE L(s, x, b, z, c) == Leads(w, n, loads, old, s, x, b, z, c)
           k == IF loads THEN 4 ELSE 0
           y == IF Batches[w] = 0 THEN "barrier" ELSE "SparsePull"
           z == IF loads THEN "barrier" ELSE y
<1>1. L(Initialize(w), "barrier", 12 + k, z, 8 + k)
  BY LeadsInitialize
<1>2. L(If(loads, Load(w, n, old)), z, 8 + k, y, 8)
  <2>1. CASE loads
    <3>1. If(loads, Load(w, n, old)) = Load(w, n, old) /\ z = "barrier" /\ 8 + k = 12
      BY <2>1 DEF If
    <3>2. L(Load(w, n, old), "barrier", 12, y, 8)
      BY <2>1, <3>1, LeadsLoad
    <3> QED
      BY <3>1, <3>2
  <2>2. CASE ~loads
    BY <2>2, LeadsNone DEF If
  <2> QED
    BY <2>1, <2>2
<1>3. L(Train(w), y, 8, "barrier", 8)
  BY LeadsTrain
<1>4. L(Finish(w), "barrier", 8, None, 0)
  BY LeadsFinish
<1>5. 12 + k \in {12, 16} /\ Stage(loads, 12 + k) = 16
  BY DEF Stage
<1> HIDE DEF y, z, k
<1>6. L(Initialize(w) \o If(loads, Load(w, n, old)), "barrier", 12 + k, y, 8)
  BY <1>1, <1>2, LeadsConcat
<1>7. L(Initialize(w) \o If(loads, Load(w, n, old)) \o Train(w), "barrier", 12 + k, "barrier", 8)
  BY <1>3, <1>6, LeadsConcat
<1>8. L(Program(w, n, loads, old), "barrier", 12 + k, None, 0)
  BY <1>4, <1>7, LeadsConcat DEF Program
<1>9. Bars(Program(w, n, loads, old)) = 12 + k
  <2>1. /\ Program(w, n, loads, old) \in Seq(Operations)
        /\ 12 + k = 0 + Bars(Program(w, n, loads, old))
    BY <1>8 DEF Leads
  <2>2. PICK q \in Nat : q = Bars(Program(w, n, loads, old))
    BY <2>1, BarsFinite
  <2> QED
    BY <2>1, <2>2
<1> QED
  BY <1>5, <1>8, <1>9 DEF Leads

-----------------------------------------------------------------------------
(***************************************************************************)
(* Where the workers are.  All of them are in the same stage; with the     *)
(* present operation of a worker it says what the worker has done and what *)
(* comes next.                                                             *)
(***************************************************************************)
PathInv == \A w \in Workers : Path(w, job.n, job.loads, job.old, prog[w], None, 0)

Now == Stage(job.loads, Bars(prog[0]))

\* What follows the present operation of a worker.
Then(w) == First(Tail(prog[w]), None)

\* No server has answered with an exception.
Live == \A w \in Workers : ~raised[w]

\* A request of worker w that server s has not handled; one that it has.
Out(w, op, s) == Op(w) = op /\ s \in todo[w]
Ans(w, op, s) == Op(w) = op /\ sent[w] /\ s \notin todo[w]

FormInv ==
    /\ job = [num |-> job.num, n |-> job.n, loads |-> job.loads, old |-> job.old, sound |-> job.sound]
    /\ job.num \in 0..MaxJobs /\ job.loads \in BOOLEAN /\ job.sound \in BOOLEAN
    /\ DOMAIN smeta = Servers /\ DOMAIN dmeta = Servers /\ DOMAIN dense = Servers
    /\ DOMAIN keys = Workers /\ DOMAIN floor = Workers
    /\ DOMAIN file = Workers /\ DOMAIN model = Workers
    /\ failed \in [Workers -> BOOLEAN] /\ raised \in [Workers -> BOOLEAN]
    /\ \A w \in Workers : todo[w] # {} => ~failed[w]
    /\ \A w \in Workers : raised[w] => sent[w]
    /\ export = [count |-> export.count, parts |-> export.parts, model |-> export.model]
    /\ export.parts = [s \in Servers |-> export.parts[s]]
    /\ saved = [sound |-> saved.sound, table |-> saved.table, vec |-> saved.vec]

BaseInv == CheckpointInv /\ PathInv /\ FormInv

\* The present operation goes along an edge.
LEMMA OpEdge ==
    ASSUME ProgInv, PathInv, NEW w \in Workers, prog[w] # <<>>
    PROVE  /\ Edge(w, job.n, job.loads, job.old, Op(w), Now, Then(w))
           /\ Path(w, job.n, job.loads, job.old, Tail(prog[w]), None, 0)
<1>1. prog[w] \in Seq(Operations) /\ Path(w, job.n, job.loads, job.old, prog[w], None, 0)
  BY DEF ProgInv, PathInv
<1>2. Bars(prog[w]) = Bars(prog[0])
  BY ZeroIsWorker DEF ProgInv
<1>3. Op(w) = Head(prog[w])
  BY DEF Op
<1> QED
  BY <1>1, <1>2, <1>3, PathTail DEF Now, Then

\* A worker has no operation when its program is over.
LEMMA EmptyOp ==
    ASSUME ProgInv, NEW w \in Workers
    PROVE  /\ prog[w] # <<>> <=> Op(w) \in Operations
           /\ prog[w] = <<>> <=> Op(w) = None
<1>1. prog[w] \in Seq(Operations)
  BY DEF ProgInv
<1>2. CASE prog[w] = <<>>
  BY <1>2, NoneAssumption DEF Op
<1>3. CASE prog[w] # <<>>
  <2>1. Head(prog[w]) \in Operations
    BY <1>1, <1>3, BarsTail
  <2> QED
    BY <1>3, <2>1, NoneAssumption DEF Op
<1> QED
  BY <1>2, <1>3

\* The stages, and the end.
LEMMA NowRange ==
    ASSUME ProgInv, PathInv, FormInv
    PROVE  /\ Now \in Nat /\ Now \in 0..16
           /\ \A w \in Workers : Now = 0 <=> Op(w) = None
           /\ \A w \in Workers : Op(w) # None => Op(w) \in Operations
<1>0. PICK b \in Nat : b = Bars(prog[0])
  BY ZeroIsWorker, BarsFinite DEF ProgInv
<1>1. Now \in Nat
  BY <1>0 DEF Now, Stage, FormInv
<1>2. ASSUME NEW w \in Workers, Op(w) # None PROVE Now \in 1..16
  <2>1. prog[w] # <<>>
    BY <1>2, EmptyOp
  <2>2. Edge(w, job.n, job.loads, job.old, Op(w), Now, Then(w))
    BY <2>1, OpEdge
  <2> QED
    BY <2>2 DEF Edge
<1>3. ASSUME NEW w \in Workers, Op(w) = None PROVE Now = 0
  <2>1. prog[w] = <<>>
    BY <1>3, EmptyOp
  <2>2. <<>> \in Seq(Operations \ Barriers)
    OBVIOUS
  <2>3. Bars(prog[w]) = 0
    BY <2>1, <2>2, BarsNone
  <2>4. Bars(prog[0]) = 0
    BY <2>3, ZeroIsWorker DEF ProgInv
  <2> QED
    BY <2>4 DEF Now, Stage
<1>4. Now \in 0..16
  BY <1>1, <1>2, <1>3, ZeroIsWorker
<1> QED
  BY <1>1, <1>2, <1>3, <1>4, EmptyOp

\* A worker that goes on to its next operation stays in its stage.
LEMMA Moves ==
    ASSUME OrderInv, PathInv, NEW w \in Workers, Op(w) \in Operations \ Barriers,
           UNCHANGED job, Advance(w)
    PROVE  /\ PathInv' /\ Now' = Now /\ Op(w)' = Then(w)
           /\ Edge(w, job.n, job.loads, job.old, Op(w), Now, Op(w)')
           /\ \A v \in Workers : v # w => Op(v)' = Op(v)
<1>1. ProgInv /\ prog[w] # <<>> /\ Head(prog[w]) = Op(w)
  BY BusyOp DEF OrderInv, Busy
<1>2. /\ prog' = [prog EXCEPT ![w] = Tail(prog[w])] /\ prog'[w] = Tail(prog[w])
      /\ \A v \in Workers : v # w => prog'[v] = prog[v]
  BY DEF Advance, OrderInv, ProgInv
<1>3. /\ Edge(w, job.n, job.loads, job.old, Op(w), Now, Then(w))
      /\ Path(w, job.n, job.loads, job.old, Tail(prog[w]), None, 0)
  BY <1>1, OpEdge
<1>4. PathInv'
  BY <1>2, <1>3 DEF PathInv
<1>5. Op(w)' = Then(w)
  <2>1. Tail(prog[w]) \in Seq(Operations)
    BY <1>1, AdvanceKeepsBars
  <2>2. Tail(prog[w]) # <<>> => Head(Tail(prog[w])) = Tail(prog[w])[1]
    BY <2>1, HeadTailProperties
  <2> QED
    BY <1>2, <2>2 DEF Op, Then, First
<1>6. \A v \in Workers : v # w => Op(v)' = Op(v)
  BY <1>2 DEF Op
<1>7. Bars(Tail(prog[w])) = Bars(prog[w])
  BY <1>1, AdvanceKeepsBars
<1>8. Bars(prog'[0]) = Bars(prog[0])
  <2>1. CASE w = 0
    BY <1>2, <1>7, <2>1
  <2>2. CASE w # 0
    BY <1>2, <2>2, ZeroIsWorker
  <2> QED
    BY <2>1, <2>2
<1>9. Now' = Now
  BY <1>8 DEF Now
<1> QED
  BY <1>3, <1>4, <1>5, <1>6, <1>9

\* While nobody does, everyone stays where he is.
LEMMA Stays ==
    ASSUME UNCHANGED <<job, prog>>
    PROVE  Now' = Now /\ (PathInv => PathInv') /\ \A w : Op(w)' = Op(w)
BY DEF Now, PathInv, Op

\* A barrier brings everyone to the next stage.
LEMMA Passes ==
    ASSUME OrderInv, PathInv, FormInv, Barrier
    PROVE  /\ PathInv'
           /\ Now' = IF Now = 13 /\ ~job.loads THEN 8 ELSE Now - 1
           /\ \A w \in Workers : Op(w) \in Barriers /\ Edge(w, job.n, job.loads, job.old, Op(w), Now, Op(w)')
<1>1. ASSUME NEW w \in Workers
      PROVE  /\ prog[w] # <<>> /\ Op(w) \in Barriers
             /\ prog'[w] = Tail(prog[w]) /\ Tail(prog[w]) \in Seq(Operations)
             /\ Bars(prog[w]) = Bars(Tail(prog[w])) + 1
             /\ Bars(Tail(prog[w])) \in Nat
  <2>1. prog[w] # <<>> /\ Head(prog[w]) \in Barriers /\ Op(w) \in Barriers
    BY NoneAssumption DEF Barrier, AtBarrier, Op, Operations
  <2>2. prog'[w] = Tail(prog[w])
    BY DEF Barrier
  <2>3. prog[w] \in Seq(Operations)
    BY DEF OrderInv, ProgInv
  <2>4. Tail(prog[w]) \in Seq(Operations) /\ Bars(prog[w]) = Bars(Tail(prog[w])) + 1
    BY <2>1, <2>3, BarsTail
  <2> QED
    BY <2>1, <2>2, <2>3, <2>4, BarsFinite
<1>2. job' = job
  BY DEF Barrier
<1>3. ASSUME NEW w \in Workers
      PROVE  /\ Edge(w, job.n, job.loads, job.old, Op(w), Now, Op(w)')
             /\ Path(w, job.n, job.loads, job.old, prog'[w], None, 0)
  <2>1. /\ Edge(w, job.n, job.loads, job.old, Op(w), Now, Then(w))
        /\ Path(w, job.n, job.loads, job.old, Tail(prog[w]), None, 0)
    BY <1>1, OpEdge DEF OrderInv
  <2>2. Tail(prog[w]) # <<>> => Head(Tail(prog[w])) = Tail(prog[w])[1]
    BY <1>1, HeadTailProperties
  <2>3. Op(w)' = Then(w)
    BY <1>1, <2>2 DEF Op, Then, First
  <2> QED
    BY <1>1, <2>1, <2>3
<1>4. PathInv'
  BY <1>2, <1>3 DEF PathInv
<1>5. PICK b \in Nat : b = Bars(prog'[0]) /\ Bars(prog[0]) = b + 1
  BY <1>1, ZeroIsWorker
<1>6. Now = Stage(job.loads, b + 1) /\ Now' = Stage(job.loads, b)
  BY <1>2, <1>5 DEF Now
<1>7. Now' = IF Now = 13 /\ ~job.loads THEN 8 ELSE Now - 1
  <2>1. CASE job.loads
    BY <1>6, <2>1 DEF Stage
  <2>2. CASE ~job.loads
    BY <1>6, <2>2 DEF Stage
  <2> QED
    BY <2>1, <2>2
<1> QED
  BY <1>1, <1>3, <1>4, <1>7

\* A new job starts at the barrier of its first stage.
LEMMA StartsAt16 ==
    ASSUME NewJob
    PROVE  /\ PathInv' /\ Now' = 16 /\ \A w \in Workers : Op(w)' = "barrier"
<1>1. PICK n \in ServerCounts, loads \in BOOLEAN :
          StartJob(job.num + 1, n, loads, disk.count, loads => intact /\ saved.sound)
  BY DEF NewJob
<1>2. /\ prog' = [w \in Workers |-> Program(w, n, loads, disk.count)]
      /\ job'.n = n /\ job'.loads = loads /\ job'.old = disk.count
  BY <1>1 DEF StartJob
<1>3. ASSUME NEW w \in Workers
      PROVE  /\ Path(w, n, loads, disk.count, prog'[w], None, 0)
             /\ First(prog'[w], None) = "barrier" /\ Stage(loads, Bars(prog'[w])) = 16
             /\ prog'[w] \in Seq(Operations)
  BY <1>2, ProgramPath, ProgramEnds DEF Ends
<1>4. PathInv'
  BY <1>2, <1>3 DEF PathInv
<1>5. Now' = 16
  BY <1>2, <1>3, ZeroIsWorker DEF Now
<1>6. ASSUME NEW w \in Workers PROVE Op(w)' = "barrier"
  <2>1. "barrier" # None
    BY NoneAssumption DEF Operations, Barriers
  <2>2. prog'[w] # <<>> /\ prog'[w][1] = "barrier"
    BY <1>3, <2>1 DEF First
  <2>3. Head(prog'[w]) = prog'[w][1]
    BY <1>3, <2>2, HeadTailProperties
  <2> QED
    BY <2>2, <2>3 DEF Op
<1> QED
  BY <1>4, <1>5, <1>6

-----------------------------------------------------------------------------
(***************************************************************************)
(* What a server does with a request, by the operation of the worker: it   *)
(* refuses it, or does all of this.                                        *)
(***************************************************************************)
SparseStep(w, s) ==
    /\ DOMAIN sparse' = Servers /\ \A t \in Servers : t # s => sparse'[t] = sparse[t]
    /\ Op(w) = "SparseInit" => sparse'[s] = IF smeta[s] = None THEN EmptyMap ELSE sparse[s]
    /\ Op(w) = "SparseClear" => sparse'[s] = EmptyMap
    /\ Op(w) = "SparsePush" => sparse'[s] = HandlePush(sparse[s], SentTo(keys[w], s))
    /\ Op(w) = "SparsePull" => sparse'[s] = FindOrInit(sparse[s], SentTo(keys[w], s) \ {PaddingKey})
    /\ Op(w) = "Import" =>
          LET entries == disk.file[file[w]].entries
          IN sparse'[s] = HandlePushPartition(sparse[s], Keep(entries, SentTo(DOMAIN entries, s)))
    /\ Op(w) = "SparseLoad" => s \in DOMAIN disk.file /\ sparse'[s] = LoadFile(sparse[s], disk.file[s])
    /\ Op(w) = "SparsePruneOld" => sparse'[s] = PruneOld(sparse[s], MaxAge)
    /\ Op(w) = "SparsePruneSmall" => sparse'[s] = PruneSmall(sparse[s])
    /\ Op(w) \notin {"SparseInit", "SparseClear", "SparsePush", "SparsePull", "Import", "SparseLoad",
                     "SparsePruneOld", "SparsePruneSmall"} => sparse'[s] = sparse[s]

DensePushes == {"DensePush", "DensePushValue", "DenseLoadData", "DenseLoadState"}
DensePulls == {"DensePull", "DenseSaveData", "DenseSaveState"}
DenseStep(w, s) ==
    /\ DOMAIN dense' = Servers /\ \A t \in Servers : t # s => dense'[t] = dense[t]
    /\ Op(w) = "DenseInit" =>
          dense'[s] = IF dmeta[s] = None THEN [data |-> [r \in RowsOf(s) |-> 0],
                                               state |-> [r \in RowsOf(s) |-> 0]] ELSE dense[s]
    /\ Op(w) = "DensePush" =>
          dense'[s] = [data |-> [r \in RowsOf(s) |-> dense[s].data[r] + 1],
                       state |-> [r \in RowsOf(s) |-> IF HasState THEN dense[s].state[r] + 1
                                                      ELSE dense[s].state[r]]]
    /\ Op(w) = "DensePushValue" =>
          dense'[s] = [data |-> [r \in RowsOf(s) |-> model[w][r]], state |-> dense[s].state]
    /\ Op(w) = "DenseLoadData" =>
          dense'[s] = [data |-> [r \in RowsOf(s) |-> disk.data[r]], state |-> dense[s].state]
    /\ Op(w) = "DenseLoadState" =>
          dense'[s] = [data |-> dense[s].data, state |-> [r \in RowsOf(s) |-> disk.state[r]]]
    /\ Op(w) \notin DensePushes \cup {"DenseInit"} => dense'[s] = dense[s]

MetaStep(w, s) ==
    /\ DOMAIN smeta' = Servers /\ \A t \in Servers : t # s => smeta'[t] = smeta[t]
    /\ DOMAIN dmeta' = Servers /\ \A t \in Servers : t # s => dmeta'[t] = dmeta[t]
    /\ Op(w) = "SparseInit" => smeta'[s] = IF smeta[s] = None THEN job.num ELSE smeta[s]
    /\ Op(w) = "DenseInit" => dmeta'[s] = IF dmeta[s] = None THEN job.num ELSE dmeta[s]
    /\ Op(w) = "SparsePushMeta" => smeta'[s] = disk.meta
    /\ Op(w) = "DensePushMeta" => dmeta'[s] = disk.dmeta /\ dmeta[s] # None
    /\ Op(w) \notin {"SparseInit", "SparsePushMeta"} => smeta'[s] = smeta[s]
    /\ Op(w) \notin {"DenseInit", "DensePushMeta"} => dmeta'[s] = dmeta[s]
    /\ Op(w) \in DensePushes \cup DensePulls => dmeta[s] # None

AnswerStep(w, s) ==
    /\ Op(w) \in {"DensePull", "DenseSaveData"} => got'[w][s] = dense[s].data
    /\ Op(w) = "DenseSaveState" => got'[w][s] = dense[s].state
    /\ Op(w) = "SparsePull" =>
          got'[w][s] = HandlePull(FindOrInit(sparse[s], SentTo(keys[w], s) \ {PaddingKey}), SentTo(keys[w], s))
    /\ Op(w) = "SparsePullMeta" => got'[w][s] = smeta[s] /\ smeta[s] # None

FileStep(w, s) ==
    /\ IF Op(w) = "SparseSave"
       THEN disk' = [disk EXCEPT !.file = Written(@, s, [text |-> TextMode, entries |-> sparse[s]])]
       ELSE UNCHANGED disk
    /\ IF Op(w) = "SparseExport" THEN export' = [export EXCEPT !.parts[s] = sparse[s]]
       ELSE UNCHANGED export

HandleDone(w, s) ==
    /\ raised' = raised
    /\ SparseStep(w, s) /\ DenseStep(w, s) /\ MetaStep(w, s) /\ AnswerStep(w, s) /\ FileStep(w, s)

HandleRefused(w, s) ==
    /\ raised' = [raised EXCEPT ![w] = TRUE]
    /\ UNCHANGED <<server_vars, disk_vars>>

HandleFrame(w, s) ==
    /\ Answers(w, s) /\ s \in todo[w] /\ Op(w) \in Operations \ Barriers
    /\ UNCHANGED <<failed, keys, file, model, ghost_vars>>
    /\ DOMAIN got' = Workers
    /\ \A v \in Workers : /\ DOMAIN got'[v] = Servers
                          /\ \A t \in Servers : v # w \/ t # s => got'[v][t] = got[v][t]

\* A request is answered.
LEMMA AnswerFrame ==
    ASSUME ShapeInv, FormInv, NEW w \in Workers, NEW s \in Servers, NEW a, NEW ok \in BOOLEAN, NEW op,
           op \in Operations \ Barriers, Handles(w, s, op), Answer(w, s, a, ok)
    PROVE  HandleFrame(w, s) /\ got'[w][s] = a /\ raised' = [raised EXCEPT ![w] = @ \/ ~ok]
<1>1. got' = [got EXCEPT ![w][s] = a] /\ DOMAIN got = Workers /\ \A v \in Workers : DOMAIN got[v] = Servers
  BY DEF Answer, ShapeInv
<1>2. /\ got'[w][s] = a /\ DOMAIN got' = Workers
      /\ \A v \in Workers : /\ DOMAIN got'[v] = Servers
                            /\ \A t \in Servers : v # w \/ t # s => got'[v][t] = got[v][t]
  BY <1>1
<1>3. Answers(w, s) /\ s \in todo[w] /\ Op(w) \in Operations \ Barriers
  BY DEF Answer, Answers, Handles
<1> QED
  BY <1>2, <1>3 DEF Answer, HandleFrame

\* A request the server refuses.
LEMMA RefuseCase ==
    ASSUME ShapeInv, FormInv, NEW w \in Workers, NEW s \in Servers, NEW op,
           op \in Operations \ Barriers, Handles(w, s, op), Refuse(w, s)
    PROVE  HandleFrame(w, s) /\ HandleRefused(w, s)
<1>1. Answer(w, s, None, FALSE) /\ UNCHANGED <<server_vars, disk_vars>>
  BY DEF Refuse
<1>2. HandleFrame(w, s) /\ raised' = [raised EXCEPT ![w] = @ \/ ~FALSE]
  BY <1>1, AnswerFrame
<1>3. raised' = [raised EXCEPT ![w] = TRUE]
  BY <1>2 DEF FormInv
<1> QED
  BY <1>1, <1>2, <1>3 DEF HandleRefused

\* An answer without an exception.
LEMMA AnswerCase ==
    ASSUME ShapeInv, FormInv, NEW w \in Workers, NEW s \in Servers, NEW a, NEW op,
           op \in Operations \ Barriers, Handles(w, s, op), Answer(w, s, a, TRUE)
    PROVE  HandleFrame(w, s) /\ got'[w][s] = a /\ raised' = raised /\ Op(w) = op
<1>1. HandleFrame(w, s) /\ got'[w][s] = a /\ raised' = [raised EXCEPT ![w] = @ \/ ~TRUE]
  BY AnswerFrame
<1>2. raised' = raised
  BY <1>1 DEF FormInv
<1> QED
  BY <1>1, <1>2 DEF Handles

\* A command of a sparse tensor.
LEMMA SparseCase ==
    ASSUME ShapeInv, FormInv, NEW w \in Workers, NEW s \in Servers, NEW a, NEW op, NEW map,
           op \in Operations \ Barriers, SparseCommand(w, s, op, map, a)
    PROVE  /\ HandleFrame(w, s) /\ Op(w) = op
           /\ \/ HandleRefused(w, s)
              \/ /\ raised' = raised /\ got'[w][s] = a /\ sparse'[s] = map /\ DOMAIN sparse' = Servers
                 /\ \A t \in Servers : t # s => sparse'[t] = sparse[t]
                 /\ UNCHANGED <<smeta, dense, dmeta, disk, export>>
<1>0. Handles(w, s, op) /\ Op(w) = op
  BY DEF SparseCommand, Handles
<1>1. CASE smeta[s] = None
  <2>1. Refuse(w, s)
    BY <1>1 DEF SparseCommand
  <2> QED
    BY <1>0, <2>1, RefuseCase
<1>2. CASE smeta[s] # None
  <2>1. /\ sparse' = [sparse EXCEPT ![s] = map] /\ Answer(w, s, a, TRUE)
        /\ UNCHANGED <<smeta, dense, dmeta, disk_vars>>
    BY <1>2 DEF SparseCommand
  <2>2. HandleFrame(w, s) /\ raised' = raised /\ got'[w][s] = a
    BY <1>0, <2>1, AnswerCase
  <2>3. DOMAIN sparse = Servers
    BY DEF ShapeInv
  <2> QED
    BY <1>0, <2>1, <2>2, <2>3 DEF disk_vars
<1> QED
  BY <1>1, <1>2

\* A server refuses a request, or does what it asks for.
LEMMA HandleCases ==
    ASSUME ShapeInv, FormInv, NEW w \in Workers, NEW s \in Servers, Handle(w, s)
    PROVE  HandleFrame(w, s) /\ (HandleDone(w, s) \/ HandleRefused(w, s))
<1>0. DOMAIN sparse = Servers /\ DOMAIN smeta = Servers /\ DOMAIN dmeta = Servers /\ DOMAIN dense = Servers
  BY DEF ShapeInv, FormInv
<1> DEFINE Steps == SparseStep(w, s) /\ DenseStep(w, s) /\ MetaStep(w, s) /\ AnswerStep(w, s) /\ FileStep(w, s)
<1>a. raised' = raised /\ Steps => HandleDone(w, s)
  BY DEF HandleDone
<1>b. ASSUME NEW op \in Operations \ Barriers, NEW map, NEW a, SparseCommand(w, s, op, map, a),
             op \notin {"SparseInit", "SparsePushMeta", "SparsePullMeta", "SparseSave", "SparseExport",
                        "DenseInit", "DensePushMeta"} \cup DensePushes \cup DensePulls,
             /\ op = "SparseClear" => map = EmptyMap
             /\ op = "SparsePush" => map = HandlePush(sparse[s], SentTo(keys[w], s))
             /\ op = "SparsePull" =>
                   /\ map = FindOrInit(sparse[s], SentTo(keys[w], s) \ {PaddingKey})
                   /\ a = HandlePull(map, SentTo(keys[w], s))
             /\ op = "Import" =>
                   LET entries == disk.file[file[w]].entries
                   IN map = HandlePushPartition(sparse[s], Keep(entries, SentTo(DOMAIN entries, s)))
             /\ op = "SparseLoad" => s \in DOMAIN disk.file /\ map = LoadFile(sparse[s], disk.file[s])
             /\ op = "SparsePruneOld" => map = PruneOld(sparse[s], MaxAge)
             /\ op = "SparsePruneSmall" => map = PruneSmall(sparse[s])
             /\ op \notin {"SparseClear", "SparsePush", "SparsePull", "Import", "SparseLoad",
                           "SparsePruneOld", "SparsePruneSmall"} => map = sparse[s]
      PROVE  HandleFrame(w, s) /\ (HandleDone(w, s) \/ HandleRefused(w, s))
  <2>1. HandleFrame(w, s) /\ Op(w) = op
    BY <1>b, SparseCase
  <2>2. CASE HandleRefused(w, s)
    BY <2>1, <2>2
  <2>3. CASE /\ raised' = raised /\ got'[w][s] = a /\ sparse'[s] = map /\ DOMAIN sparse' = Servers
             /\ \A t \in Servers : t # s => sparse'[t] = sparse[t]
             /\ UNCHANGED <<smeta, dense, dmeta, disk, export>>
    <3>1. SparseStep(w, s)
      BY <1>b, <2>1, <2>3 DEF SparseStep
    <3>2a. dense' = dense /\ smeta' = smeta /\ dmeta' = dmeta
      BY <2>3
    <3>2b. op \notin DensePushes \cup DensePulls \cup {"SparseInit", "DenseInit", "SparsePushMeta", "DensePushMeta"}
      BY <1>b
    <3>2. DenseStep(w, s) /\ MetaStep(w, s)
      BY <1>0, <3>2a, <3>2b, <2>1 DEF DenseStep, MetaStep, DensePushes, DensePulls
    <3>3. AnswerStep(w, s) /\ FileStep(w, s)
      BY <1>b, <2>1, <2>3 DEF AnswerStep, FileStep, DensePulls
    <3> QED
      BY <1>a, <2>1, <2>3, <3>1, <3>2, <3>3
  <2> QED
    BY <1>b, <2>2, <2>3, SparseCase
<1>1. CASE HandleSparseInit(w, s)
  <2>1. Handles(w, s, "SparseInit") /\ "SparseInit" \in Operations \ Barriers
    BY <1>1, OpsAreOperations DEF HandleSparseInit
  <2>2. CASE smeta[s] = None
    <3>1. /\ smeta' = [smeta EXCEPT ![s] = job.num] /\ sparse' = [sparse EXCEPT ![s] = EmptyMap]
          /\ Answer(w, s, None, TRUE) /\ UNCHANGED <<dense, dmeta, disk, export>>
      BY <1>1, <2>2 DEF HandleSparseInit, disk_vars
    <3>2. HandleFrame(w, s) /\ raised' = raised /\ Op(w) = "SparseInit"
      BY <2>1, <3>1, AnswerCase
    <3>3. Steps
      BY <1>0, <2>2, <3>1, <3>2 DEF SparseStep, DenseStep, MetaStep, AnswerStep, FileStep, DensePushes, DensePulls
    <3> QED
      BY <1>a, <3>2, <3>3
  <2>3. CASE smeta[s] # None
    <3>1. Answer(w, s, None, smeta[s] = job.num) /\ UNCHANGED <<server_vars, disk_vars>>
      BY <1>1, <2>3 DEF HandleSparseInit
    <3>2. HandleFrame(w, s) /\ raised' = [raised EXCEPT ![w] = @ \/ ~(smeta[s] = job.num)]
      BY <2>1, <3>1, AnswerFrame
    <3>3. CASE smeta[s] # job.num
      <4>1. raised' = [raised EXCEPT ![w] = TRUE]
        BY <3>2, <3>3 DEF FormInv
      <4> QED
        BY <3>1, <3>2, <4>1 DEF HandleRefused
    <3>4. CASE smeta[s] = job.num
      <4>1. raised' = raised
        BY <3>2, <3>4 DEF FormInv
      <4>2. Op(w) = "SparseInit"
        BY <2>1 DEF Handles
      <4>3. Steps
        BY <1>0, <2>3, <3>1, <4>2 DEF SparseStep, DenseStep, MetaStep, AnswerStep, FileStep, DensePushes, DensePulls, server_vars, disk_vars
      <4> QED
        BY <1>a, <3>2, <4>1, <4>3
    <3> QED
      BY <3>3, <3>4
  <2> QED
    BY <2>2, <2>3
<1>2. CASE HandleDenseInit(w, s)
  <2>1. Handles(w, s, "DenseInit") /\ "DenseInit" \in Operations \ Barriers
    BY <1>2, OpsAreOperations DEF HandleDenseInit
  <2>2. CASE dmeta[s] = None
    <3>1. /\ dmeta' = [dmeta EXCEPT ![s] = job.num]
          /\ dense' = [dense EXCEPT ![s] = [data |-> [r \in RowsOf(s) |-> 0],
                                            state |-> [r \in RowsOf(s) |-> 0]]]
          /\ Answer(w, s, None, TRUE) /\ UNCHANGED <<sparse, smeta, disk, export>>
      BY <1>2, <2>2 DEF HandleDenseInit, disk_vars
    <3>2. HandleFrame(w, s) /\ raised' = raised /\ Op(w) = "DenseInit"
      BY <2>1, <3>1, AnswerCase
    <3>3. Steps
      BY <1>0, <2>2, <3>1, <3>2 DEF SparseStep, DenseStep, MetaStep, AnswerStep, FileStep, DensePushes, DensePulls
    <3> QED
      BY <1>a, <3>2, <3>3
  <2>3. CASE dmeta[s] # None
    <3>1. Answer(w, s, None, dmeta[s] = job.num) /\ UNCHANGED <<server_vars, disk_vars>>
      BY <1>2, <2>3 DEF HandleDenseInit
    <3>2. HandleFrame(w, s) /\ raised' = [raised EXCEPT ![w] = @ \/ ~(dmeta[s] = job.num)]
      BY <2>1, <3>1, AnswerFrame
    <3>3. CASE dmeta[s] # job.num
      <4>1. raised' = [raised EXCEPT ![w] = TRUE]
        BY <3>2, <3>3 DEF FormInv
      <4> QED
        BY <3>1, <3>2, <4>1 DEF HandleRefused
    <3>4. CASE dmeta[s] = job.num
      <4>1. raised' = raised
        BY <3>2, <3>4 DEF FormInv
      <4>2. Op(w) = "DenseInit"
        BY <2>1 DEF Handles
      <4>3. Steps
        BY <1>0, <2>3, <3>1, <4>2 DEF SparseStep, DenseStep, MetaStep, AnswerStep, FileStep, DensePushes, DensePulls, server_vars, disk_vars
      <4> QED
        BY <1>a, <3>2, <4>1, <4>3
    <3> QED
      BY <3>3, <3>4
  <2> QED
    BY <2>2, <2>3
<1>3. CASE HandleSparseClear(w, s)
  BY <1>3, <1>b, OpsAreOperations DEF HandleSparseClear, DensePushes, DensePulls
<1>4. CASE HandleSparsePush(w, s)
  BY <1>4, <1>b, OpsAreOperations DEF HandleSparsePush, DensePushes, DensePulls
<1>5. CASE HandleSparsePull(w, s)
  <2> DEFINE ks == SentTo(keys[w], s)
  <2>1. PICK op \in {"SparsePull", "SparsePullReadOnly"} :
           SparseCommand(w, s, op, MapAfterPull(sparse[s], ks, op = "SparsePullReadOnly"),
                         HandlePull(MapAfterPull(sparse[s], ks, op = "SparsePullReadOnly"), ks))
    BY <1>5 DEF HandleSparsePull
  <2>2. CASE op = "SparsePull"
    <3>1. MapAfterPull(sparse[s], ks, op = "SparsePullReadOnly") = FindOrInit(sparse[s], ks \ {PaddingKey})
      BY <2>2 DEF MapAfterPull
    <3>2. SparseCommand(w, s, "SparsePull", FindOrInit(sparse[s], ks \ {PaddingKey}),
                        HandlePull(FindOrInit(sparse[s], ks \ {PaddingKey}), ks))
      BY <2>1, <2>2, <3>1
    <3> QED
      BY <1>b, <3>2, OpsAreOperations DEF DensePushes, DensePulls
  <2>3. CASE op = "SparsePullReadOnly"
    <3>1. MapAfterPull(sparse[s], ks, op = "SparsePullReadOnly") = sparse[s]
      BY <2>3 DEF MapAfterPull
    <3>2. SparseCommand(w, s, "SparsePullReadOnly", sparse[s], HandlePull(sparse[s], ks))
      BY <2>1, <2>3, <3>1
    <3> QED
      BY <1>b, <3>2, OpsAreOperations DEF DensePushes, DensePulls
  <2> QED
    BY <2>2, <2>3
<1>6. CASE HandleSparsePushPartition(w, s)
  BY <1>6, <1>b, OpsAreOperations DEF HandleSparsePushPartition, DensePushes, DensePulls
<1>7. CASE HandleSparsePrune(w, s)
  BY <1>7, <1>b, OpsAreOperations DEF HandleSparsePrune, DensePushes, DensePulls
<1>8. CASE HandleSparseLoad(w, s)
  <2>1. Handles(w, s, "SparseLoad") /\ "SparseLoad" \in Operations \ Barriers
    BY <1>8, OpsAreOperations DEF HandleSparseLoad
  <2>2. CASE s \notin DOMAIN disk.file \/ ~Readable(disk.file[s], HasState)
    BY <1>8, <2>1, <2>2, RefuseCase DEF HandleSparseLoad
  <2>3. CASE ~(s \notin DOMAIN disk.file \/ ~Readable(disk.file[s], HasState))
    <3>1. SparseCommand(w, s, "SparseLoad", LoadFile(sparse[s], disk.file[s]), None)
      BY <1>8, <2>3 DEF HandleSparseLoad
    <3> QED
      BY <1>b, <2>1, <2>3, <3>1 DEF DensePushes, DensePulls
  <2> QED
    BY <2>2, <2>3
<1>9. CASE HandleSparseSave(w, s)
  <2>1. Handles(w, s, "SparseSave") /\ "SparseSave" \in Operations \ Barriers
    BY <1>9, OpsAreOperations DEF HandleSparseSave
  <2>2. CASE smeta[s] = None
    BY <1>9, <2>1, <2>2, RefuseCase DEF HandleSparseSave
  <2>3. CASE smeta[s] # None
    <3>1. /\ disk' = [disk EXCEPT !.file = Written(@, s, [text |-> TextMode, entries |-> sparse[s]])]
          /\ Answer(w, s, None, TRUE) /\ UNCHANGED <<sparse, smeta, dense, dmeta, export>>
      BY <1>9, <2>3 DEF HandleSparseSave, server_vars, disk_vars
    <3>2. HandleFrame(w, s) /\ raised' = raised /\ Op(w) = "SparseSave"
      BY <2>1, <3>1, AnswerCase
    <3>3. Steps
      BY <1>0, <2>3, <3>1, <3>2 DEF SparseStep, DenseStep, MetaStep, AnswerStep, FileStep, DensePushes, DensePulls
    <3> QED
      BY <1>a, <3>2, <3>3
  <2> QED
    BY <2>2, <2>3
<1>10. CASE HandleSparseExport(w, s)
  <2>1. Handles(w, s, "SparseExport") /\ "SparseExport" \in Operations \ Barriers
    BY <1>10, OpsAreOperations DEF HandleSparseExport
  <2>2. CASE smeta[s] = None
    BY <1>10, <2>1, <2>2, RefuseCase DEF HandleSparseExport
  <2>3. CASE smeta[s] # None
    <3>1. /\ export' = [export EXCEPT !.parts[s] = sparse[s]]
          /\ Answer(w, s, None, TRUE) /\ UNCHANGED <<sparse, smeta, dense, dmeta, disk>>
      BY <1>10, <2>3 DEF HandleSparseExport, server_vars, disk_vars
    <3>2. HandleFrame(w, s) /\ raised' = raised /\ Op(w) = "SparseExport"
      BY <2>1, <3>1, AnswerCase
    <3>3. Steps
      BY <1>0, <2>3, <3>1, <3>2 DEF SparseStep, DenseStep, MetaStep, AnswerStep, FileStep, DensePushes, DensePulls
    <3> QED
      BY <1>a, <3>2, <3>3
  <2> QED
    BY <2>2, <2>3
<1>11. CASE HandlePushMeta(w, s)
  <2>1. CASE Handles(w, s, "SparsePushMeta")
    <3>0. "SparsePushMeta" \in Operations \ Barriers /\ ~Handles(w, s, "DensePushMeta")
      BY <2>1, OpsAreOperations DEF Handles
    <3>1. CASE smeta[s] = None
      BY <1>11, <2>1, <3>0, <3>1, RefuseCase DEF HandlePushMeta
    <3>2. CASE smeta[s] # None
      <4>1. /\ smeta' = [smeta EXCEPT ![s] = disk.meta]
            /\ Answer(w, s, None, TRUE) /\ UNCHANGED <<sparse, dense, dmeta, disk, export>>
        BY <1>11, <2>1, <3>0, <3>2 DEF HandlePushMeta, disk_vars
      <4>2. HandleFrame(w, s) /\ raised' = raised /\ Op(w) = "SparsePushMeta"
        BY <2>1, <3>0, <4>1, AnswerCase
      <4>3. Steps
        BY <1>0, <4>1, <4>2 DEF SparseStep, DenseStep, MetaStep, AnswerStep, FileStep, DensePushes, DensePulls
      <4> QED
        BY <1>a, <4>2, <4>3
    <3> QED
      BY <3>1, <3>2
  <2>2. CASE Handles(w, s, "DensePushMeta")
    <3>0. "DensePushMeta" \in Operations \ Barriers /\ ~Handles(w, s, "SparsePushMeta")
      BY <2>2, OpsAreOperations DEF Handles
    <3>1. CASE dmeta[s] = None
      BY <1>11, <2>2, <3>0, <3>1, RefuseCase DEF HandlePushMeta
    <3>2. CASE dmeta[s] # None
      <4>1. /\ dmeta' = [dmeta EXCEPT ![s] = disk.dmeta]
            /\ Answer(w, s, None, TRUE) /\ UNCHANGED <<sparse, dense, smeta, disk, export>>
        BY <1>11, <2>2, <3>0, <3>2 DEF HandlePushMeta, disk_vars
      <4>2. HandleFrame(w, s) /\ raised' = raised /\ Op(w) = "DensePushMeta"
        BY <2>2, <3>0, <4>1, AnswerCase
      <4>3. Steps
        BY <1>0, <3>2, <4>1, <4>2 DEF SparseStep, DenseStep, MetaStep, AnswerStep, FileStep, DensePushes, DensePulls
      <4> QED
        BY <1>a, <4>2, <4>3
    <3> QED
      BY <3>1, <3>2
  <2> QED
    BY <1>11, <2>1, <2>2 DEF HandlePushMeta
<1>12. CASE HandlePullMeta(w, s)
  <2>0. UNCHANGED <<sparse, smeta, dense, dmeta, disk, export>> /\ UNCHANGED <<server_vars, disk_vars>>
    BY <1>12 DEF HandlePullMeta, server_vars, disk_vars
  <2>1. ASSUME NEW op \in {"SparsePullMeta", "DensePullMeta"}, NEW a, Handles(w, s, op), Answer(w, s, a, a # None),
               op = "SparsePullMeta" => a = smeta[s]
        PROVE  HandleFrame(w, s) /\ (HandleDone(w, s) \/ HandleRefused(w, s))
    <3>0. op \in Operations \ Barriers /\ Op(w) = op
      BY <2>1, OpsAreOperations DEF Handles
    <3>1. HandleFrame(w, s) /\ got'[w][s] = a /\ raised' = [raised EXCEPT ![w] = @ \/ ~(a # None)]
      BY <2>1, <3>0, AnswerFrame
    <3>2. CASE a = None
      <4>1. raised' = [raised EXCEPT ![w] = TRUE]
        BY <3>1, <3>2 DEF FormInv
      <4> QED
        BY <2>0, <3>1, <4>1 DEF HandleRefused
    <3>3. CASE a # None
      <4>1. raised' = raised
        BY <3>1, <3>3 DEF FormInv
      <4>2. Steps
        BY <1>0, <2>0, <2>1, <3>0, <3>1, <3>3 DEF SparseStep, DenseStep, MetaStep, AnswerStep, FileStep, DensePushes, DensePulls
      <4> QED
        BY <1>a, <3>1, <4>1, <4>2
    <3> QED
      BY <3>2, <3>3
  <2> QED
    BY <1>12, <2>1 DEF HandlePullMeta
<1>13. CASE HandleDensePush(w, s)
  <2>1. PICK op \in DensePushes : Handles(w, s, op) /\ Op(w) = op
    BY <1>13 DEF HandleDensePush, DensePushes, Handles
  <2>2. op \in Operations \ Barriers
    BY OpsAreOperations DEF DensePushes
  <2>3. CASE dmeta[s] = None
    <3>1. Refuse(w, s)
      BY <1>13, <2>3 DEF HandleDensePush
    <3> QED
      BY <2>1, <2>2, <3>1, RefuseCase
  <2>4. CASE dmeta[s] # None
    <3>0. /\ Answer(w, s, None, TRUE) /\ UNCHANGED <<sparse, smeta, dmeta, disk, export>>
          /\ op = "DensePush" =>
                dense' = [dense EXCEPT ![s] = [data |-> [r \in RowsOf(s) |-> dense[s].data[r] + 1],
                             state |-> [r \in RowsOf(s) |-> IF HasState THEN dense[s].state[r] + 1
                                                            ELSE dense[s].state[r]]]]
          /\ op = "DensePushValue" =>
                dense' = [dense EXCEPT ![s] = [data |-> [r \in RowsOf(s) |-> model[w][r]], state |-> dense[s].state]]
          /\ op = "DenseLoadData" =>
                dense' = [dense EXCEPT ![s] = [data |-> [r \in RowsOf(s) |-> disk.data[r]], state |-> dense[s].state]]
          /\ op = "DenseLoadState" =>
                dense' = [dense EXCEPT ![s] = [data |-> dense[s].data, state |-> [r \in RowsOf(s) |-> disk.state[r]]]]
      BY <1>13, <2>1, <2>4 DEF HandleDensePush, Handles, disk_vars
    <3>1. HandleFrame(w, s) /\ raised' = raised
      BY <2>1, <2>2, <3>0, AnswerCase
    <3>2. DenseStep(w, s)
      BY <1>0, <2>1, <3>0 DEF DenseStep, DensePushes
    <3>3. SparseStep(w, s) /\ MetaStep(w, s) /\ AnswerStep(w, s) /\ FileStep(w, s)
      BY <1>0, <2>1, <2>4, <3>0 DEF SparseStep, MetaStep, AnswerStep, FileStep, DensePushes, DensePulls
    <3> QED
      BY <1>a, <3>1, <3>2, <3>3
  <2> QED
    BY <2>3, <2>4
<1>14. CASE HandleDensePull(w, s)
  <2>1. PICK op \in DensePulls : Handles(w, s, op) /\ Op(w) = op
    BY <1>14 DEF HandleDensePull, DensePulls, Handles
  <2>2. op \in Operations \ Barriers
    BY OpsAreOperations DEF DensePulls
  <2>3. CASE dmeta[s] = None
    <3>1. Refuse(w, s)
      BY <1>14, <2>3 DEF HandleDensePull
    <3> QED
      BY <2>1, <2>2, <3>1, RefuseCase
  <2>4. CASE dmeta[s] # None
    <3> DEFINE a == IF op = "DenseSaveState" THEN dense[s].state ELSE dense[s].data
    <3>0. Answer(w, s, a, TRUE) /\ UNCHANGED <<server_vars, disk_vars>>
      BY <1>14, <2>1, <2>4 DEF HandleDensePull, Handles
    <3>1. HandleFrame(w, s) /\ raised' = raised /\ got'[w][s] = a
      BY <2>1, <2>2, <3>0, AnswerCase
    <3>2. Steps
      BY <1>0, <2>1, <2>4, <3>0, <3>1 DEF SparseStep, DenseStep, MetaStep, AnswerStep, FileStep, DensePushes, DensePulls, server_vars, disk_vars
    <3> QED
      BY <1>a, <3>1, <3>2
  <2> QED
    BY <2>3, <2>4
<1> QED
  BY <1>1, <1>2, <1>3, <1>4, <1>5, <1>6, <1>7, <1>8, <1>9, <1>10, <1>11, <1>12, <1>13, <1>14 DEF Handle

-----------------------------------------------------------------------------
(***************************************************************************)
(* What a worker does: it fails, sends the requests of its operation, goes *)
(* on without any, or comes back with their answers.                       *)
(***************************************************************************)
Fails(w) ==
    /\ todo[w] = {} /\ ~failed[w] /\ failed' = [failed EXCEPT ![w] = TRUE]
    /\ UNCHANGED <<job, prog, sent, todo, got, raised, keys, file, model, server_vars, disk_vars, ghost_vars>>

SendsKeys(w) ==
    /\ Op(w) = "SparsePull" => \E ks \in Minibatches[w] :
          /\ keys' = [keys EXCEPT ![w] = ks]
          /\ table' = FindOrInit(table, ks \ {PaddingKey})
          /\ floor' = [floor EXCEPT ![w] = [k \in ks \cap DOMAIN table |-> table[k].v - InFlight(k)]]
    /\ Op(w) # "SparsePull" => UNCHANGED <<keys, floor>>
    /\ Op(w) = "SparsePullReadOnly" => keys[w] # None

SendsTable(w) ==
    /\ Op(w) = "SparsePush" => table' = HandlePush(table, keys[w])
    /\ Op(w) = "SparseClear" => table' = EmptyMap
    /\ Op(w) = "SparsePruneOld" => table' = PruneOld(table, MaxAge)
    /\ Op(w) = "SparsePruneSmall" => table' = PruneSmall(table)
    /\ Op(w) \notin {"SparsePull", "SparsePush", "SparseClear", "SparsePruneOld", "SparsePruneSmall"}
          => table' = table

SendsVec(w) ==
    /\ Op(w) = "DensePush" =>
          vec' = [data |-> [r \in AllRows |-> vec.data[r] + 1],
                  state |-> [r \in AllRows |-> IF HasState THEN vec.state[r] + 1 ELSE 0]]
    /\ Op(w) = "DensePushValue" => vec' = [vec EXCEPT !.data = model[w]]
    /\ Op(w) \notin {"DensePush", "DensePushValue"} => vec' = vec

Asks(w) ==
    /\ Sends(w) /\ ~sent[w] /\ ~failed[w]
    /\ UNCHANGED <<got, raised, failed, file, model, server_vars, disk_vars, saved, intact>>
    /\ SendsKeys(w) /\ SendsTable(w) /\ SendsVec(w)
    /\ Op(w) = "DenseLoadData" => disk.data # None
    /\ Op(w) = "DenseLoadState" => disk.state # None
    /\ Op(w) = "Import" => file[w] < job.old /\ file[w] \in DOMAIN disk.file
    /\ Op(w) \notin {"SparseReadMeta", "DenseReadMeta"}

GoesOn(w) ==
    /\ Busy(w) /\ ~sent[w] /\ todo[w] = {} /\ ~failed[w] /\ Advance(w)
    /\ UNCHANGED <<job, sent, todo, got, raised, failed, keys, file, model, server_vars, disk_vars,
                   saved, intact, floor>>
    /\ table' = IF w = 0 /\ Op(w) = "SparseReadMeta" THEN saved.table ELSE table
    /\ vec' = IF w = 0 /\ Op(w) = "DenseReadMeta" THEN saved.vec ELSE vec
    /\ Op(w) \in {"SparseReadMeta", "DenseReadMeta", "Import", "SparsePush", "DensePush",
                  "SparsePullReadOnly"}
    /\ Op(w) = "Import" => file[w] >= job.old
    /\ Op(w) = "DenseReadMeta" => disk.dmeta # None

ComesDisk(w) ==
    /\ Op(w) = "SparsePullMeta" =>
          /\ disk' = [disk EXCEPT !.count = job.n, !.meta = got[w][0]]
          /\ saved' = Held /\ intact' = FALSE
    /\ Op(w) = "DensePullMeta" => disk' = [disk EXCEPT !.dmeta = got[w][0]] /\ UNCHANGED <<saved, intact>>
    /\ Op(w) = "DenseSaveData" => disk' = [disk EXCEPT !.data = Assembled(w)] /\ UNCHANGED <<saved, intact>>
    /\ Op(w) = "DenseSaveState" =>
          /\ disk' = IF HasState THEN [disk EXCEPT !.state = Assembled(w)] ELSE disk
          /\ saved' = saved /\ intact' = TRUE
    /\ Op(w) \notin {"SparsePullMeta", "DensePullMeta", "DenseSaveData", "DenseSaveState"}
          => UNCHANGED <<disk, saved, intact>>

ComesBack(w) ==
    /\ Busy(w) /\ sent[w] /\ todo[w] = {} /\ ~raised[w] /\ ~failed[w]
    /\ sent' = [sent EXCEPT ![w] = FALSE]
    /\ got' = [got EXCEPT ![w] = [s \in Servers |-> None]]
    /\ UNCHANGED <<job, todo, raised, failed, keys, server_vars, table, vec, floor>>
    /\ IF Op(w) = "Import" THEN prog' = prog /\ file' = [file EXCEPT ![w] = @ + WorkerCount]
                           ELSE Advance(w) /\ file' = file
    /\ model' = IF Op(w) = "DensePull" THEN [model EXCEPT ![w] = Assembled(w)] ELSE model
    /\ export' = IF Op(w) = "SparseExport" THEN [export EXCEPT !.count = job.n, !.model = model[w]]
                 ELSE export
    /\ ComesDisk(w)
    /\ Op(w) \notin {"SparseReadMeta", "DenseReadMeta"}

\* A worker fails, asks the servers, goes on without them, or comes back.
LEMMA WorkerCases ==
    ASSUME WaitInv, NEW w \in Workers, WorkerStep(w)
    PROVE  Fails(w) \/ Asks(w) \/ GoesOn(w) \/ ComesBack(w)
<1>0. ~sent[w] => todo[w] = {}
  BY DEF WaitInv
<1>1. Fail(w) /\ todo[w] = {} /\ ~failed[w] => Fails(w)
  BY DEF Fail, Fails
<1>2. ASSUME Send(w), ~sent[w], ~failed[w], Op(w) \in Operations \ Barriers,
             SendsKeys(w), SendsTable(w), SendsVec(w),
             Op(w) \notin {"DenseLoadData", "DenseLoadState", "Import", "SparseReadMeta", "DenseReadMeta"}
      PROVE  Asks(w)
  <2>1. Sends(w)
    BY <1>2, BusyOp DEF Send, Sends
  <2> QED
    BY <1>2, <2>1 DEF Send, Asks
<1>3. ASSUME NEW op, Returns(w, op), op \in Operations \ Barriers, op # "Import", Done(w), Advance(w), file' = file,
             model' = IF op = "DensePull" THEN [model EXCEPT ![w] = Assembled(w)] ELSE model,
             export' = IF op = "SparseExport" THEN [export EXCEPT !.count = job.n, !.model = model[w]]
                       ELSE export,
             ComesDisk(w), op \notin {"SparseReadMeta", "DenseReadMeta"}
      PROVE  ComesBack(w)
  <2>1. Busy(w) /\ Op(w) = op
    BY <1>3, BusyOp DEF Returns
  <2> QED
    BY <1>3, <2>1 DEF Returns, Done, ComesBack
<1>4. CASE SendSparsePull(w)
  <2>1. Op(w) = "SparsePull" /\ ~sent[w] /\ ~failed[w] /\ Send(w)
    BY <1>4 DEF SendSparsePull, Calls
  <2>2. Op(w) \in Operations \ Barriers
    BY <2>1, OpsAreOperations
  <2>3. SendsKeys(w)
    BY <1>4, <2>1 DEF SendSparsePull, SendsKeys
  <2>4. SendsTable(w)
    BY <1>4, <2>1 DEF SendSparsePull, SendsTable
  <2>5. SendsVec(w)
    BY <1>4, <2>1 DEF SendSparsePull, SendsVec
  <2> QED
    BY <1>2, <2>1, <2>2, <2>3, <2>4, <2>5
<1>5. CASE SendSparsePush(w)
  <2>1. Op(w) = "SparsePush" /\ ~sent[w] /\ ~failed[w] /\ Send(w)
    BY <1>5 DEF SendSparsePush, Calls
  <2>2. Op(w) \in Operations \ Barriers
    BY <2>1, OpsAreOperations
  <2>3. SendsKeys(w)
    BY <1>5, <2>1 DEF SendSparsePush, SendsKeys
  <2>4. SendsTable(w)
    BY <1>5, <2>1 DEF SendSparsePush, SendsTable
  <2>5. SendsVec(w)
    BY <1>5, <2>1 DEF SendSparsePush, SendsVec
  <2> QED
    BY <1>2, <2>1, <2>2, <2>3, <2>4, <2>5
<1>6. CASE SendDensePush(w)
  <2>1. Op(w) = "DensePush" /\ ~sent[w] /\ ~failed[w] /\ Send(w)
    BY <1>6 DEF SendDensePush, Calls
  <2>2. Op(w) \in Operations \ Barriers
    BY <2>1, OpsAreOperations
  <2>3. SendsKeys(w)
    BY <1>6, <2>1 DEF SendDensePush, SendsKeys
  <2>4. SendsTable(w)
    BY <1>6, <2>1 DEF SendDensePush, SendsTable
  <2>5. SendsVec(w)
    BY <1>6, <2>1 DEF SendDensePush, SendsVec
  <2> QED
    BY <1>2, <2>1, <2>2, <2>3, <2>4, <2>5
<1>7. CASE SendDensePushValue(w)
  <2>1. Op(w) = "DensePushValue" /\ ~sent[w] /\ ~failed[w] /\ Send(w)
    BY <1>7 DEF SendDensePushValue, Calls
  <2>2. Op(w) \in Operations \ Barriers
    BY <2>1, OpsAreOperations
  <2>3. SendsKeys(w)
    BY <1>7, <2>1 DEF SendDensePushValue, SendsKeys
  <2>4. SendsTable(w)
    BY <1>7, <2>1 DEF SendDensePushValue, SendsTable
  <2>5. SendsVec(w)
    BY <1>7, <2>1 DEF SendDensePushValue, SendsVec
  <2> QED
    BY <1>2, <2>1, <2>2, <2>3, <2>4, <2>5
<1>8. CASE SendSparseClear(w)
  <2>1. Op(w) = "SparseClear" /\ ~sent[w] /\ ~failed[w] /\ Send(w)
    BY <1>8 DEF SendSparseClear, Calls
  <2>2. Op(w) \in Operations \ Barriers
    BY <2>1, OpsAreOperations
  <2>3. SendsKeys(w)
    BY <1>8, <2>1 DEF SendSparseClear, SendsKeys
  <2>4. SendsTable(w)
    BY <1>8, <2>1 DEF SendSparseClear, SendsTable
  <2>5. SendsVec(w)
    BY <1>8, <2>1 DEF SendSparseClear, SendsVec
  <2> QED
    BY <1>2, <2>1, <2>2, <2>3, <2>4, <2>5
<1>9. CASE SendSparsePrune(w)
  <2>1. Op(w) \in {"SparsePruneOld", "SparsePruneSmall"} /\ ~sent[w] /\ ~failed[w] /\ Send(w)
    BY <1>9 DEF SendSparsePrune, Calls
  <2>2. Op(w) \in Operations \ Barriers
    BY <2>1, OpsAreOperations
  <2>3. SendsKeys(w)
    BY <1>9, <2>1 DEF SendSparsePrune, SendsKeys
  <2>4. SendsTable(w)
    BY <1>9, <2>1 DEF SendSparsePrune, SendsTable, Calls
  <2>5. SendsVec(w)
    BY <1>9, <2>1 DEF SendSparsePrune, SendsVec
  <2> QED
    BY <1>2, <2>1, <2>2, <2>3, <2>4, <2>5
<1>10. CASE SendOther(w)
  <2>1. /\ Op(w) \in Requests \/ (Op(w) = "SparsePullReadOnly" /\ keys[w] # None)
        /\ ~sent[w] /\ ~failed[w] /\ Send(w) /\ UNCHANGED <<keys, table, vec, floor>>
    BY <1>10 DEF SendOther
  <2>2. Op(w) \in Operations \ Barriers
    BY <2>1, OpsAreOperations DEF Requests
  <2>3. SendsKeys(w)
    BY <2>1 DEF SendsKeys, Requests
  <2>4. SendsTable(w)
    BY <2>1 DEF SendsTable, Requests
  <2>5. SendsVec(w)
    BY <2>1 DEF SendsVec, Requests
  <2>6. Op(w) \notin {"DenseLoadData", "DenseLoadState", "Import", "SparseReadMeta", "DenseReadMeta"}
    BY <2>1 DEF Requests
  <2> QED
    BY <1>2, <2>1, <2>2, <2>3, <2>4, <2>5, <2>6
<1>11. CASE SendDenseLoad(w)
  <2>1. PICK part \in {<<"DenseLoadData", disk.data>>, <<"DenseLoadState", disk.state>>} :
          /\ Calls(w, part[1])
          /\ IF part[2] = None THEN Fail(w) ELSE Send(w) /\ UNCHANGED <<keys, table, vec, floor>>
    BY <1>11 DEF SendDenseLoad
  <2>2. /\ Op(w) \in {"DenseLoadData", "DenseLoadState"} /\ ~sent[w] /\ ~failed[w]
        /\ Op(w) = "DenseLoadData" => part[2] = disk.data
        /\ Op(w) = "DenseLoadState" => part[2] = disk.state
    BY <2>1 DEF Calls
  <2>3. CASE part[2] = None
    BY <1>0, <1>1, <2>1, <2>2, <2>3
  <2>4. CASE part[2] # None
    <3>1. Send(w) /\ UNCHANGED <<keys, table, vec, floor>>
      BY <2>1, <2>4
    <3>2. Sends(w)
      BY <2>2, <3>1, BusyOp, OpsAreOperations DEF Send, Sends
    <3>3. SendsKeys(w) /\ SendsTable(w) /\ SendsVec(w)
      BY <2>2, <3>1 DEF SendsKeys, SendsTable, SendsVec
    <3> QED
      BY <2>2, <2>4, <3>1, <3>2, <3>3 DEF Send, Asks
  <2> QED
    BY <2>3, <2>4
<1>12. CASE SendImport(w)
  <2>1. Op(w) = "Import" /\ ~sent[w] /\ ~failed[w] /\ file[w] < job.old
    BY <1>12 DEF SendImport, Calls
  <2>2. CASE file[w] \notin DOMAIN disk.file \/ ~Readable(disk.file[file[w]], HasState)
    BY <1>0, <1>1, <1>12, <2>1, <2>2 DEF SendImport
  <2>3. CASE ~(file[w] \notin DOMAIN disk.file \/ ~Readable(disk.file[file[w]], HasState))
    <3>1. Send(w) /\ UNCHANGED <<keys, table, vec, floor>> /\ file[w] \in DOMAIN disk.file
      BY <1>12, <2>3 DEF SendImport
    <3>2. Sends(w)
      BY <2>1, <3>1, BusyOp, OpsAreOperations DEF Send, Sends
    <3>3. SendsKeys(w) /\ SendsTable(w) /\ SendsVec(w)
      BY <2>1, <3>1 DEF SendsKeys, SendsTable, SendsVec
    <3> QED
      BY <2>1, <3>1, <3>2, <3>3 DEF Send, Asks
  <2> QED
    BY <2>2, <2>3
<1>13. CASE ReadMeta(w)
  <2>1. Op(w) \in {"SparseReadMeta", "DenseReadMeta"} /\ ~sent[w] /\ ~failed[w]
    BY <1>13 DEF ReadMeta, Calls
  <2>2. CASE Op(w) = "DenseReadMeta" /\ disk.dmeta = None
    BY <1>0, <1>1, <1>13, <2>1, <2>2 DEF ReadMeta
  <2>3. CASE ~(Op(w) = "DenseReadMeta" /\ disk.dmeta = None)
    <3>1. Busy(w)
      BY <2>1, BusyOp, OpsAreOperations
    <3> QED
      BY <1>0, <1>13, <2>1, <2>3, <3>1 DEF ReadMeta, GoesOn
  <2> QED
    BY <2>2, <2>3
<1>14. CASE Skip(w)
  <2>1. Op(w) \in {"Import", "SparsePush", "DensePush", "SparsePullReadOnly"} /\ ~sent[w] /\ ~failed[w]
    BY <1>14 DEF Skip, Calls
  <2>2. Busy(w)
    BY <2>1, BusyOp, OpsAreOperations
  <2>3. Op(w) = "Import" => file[w] >= job.old
    BY <1>14 DEF Skip, Calls
  <2> QED
    BY <1>0, <1>14, <2>1, <2>2, <2>3 DEF Skip, GoesOn, ghost_vars
<1>15. CASE Return(w)
  <2>1. PICK op \in Plain : Returns(w, op)
    BY <1>15 DEF Return
  <2>2. op \in Operations \ Barriers /\ op \notin {"Import", "DensePull", "SparseExport", "SparseReadMeta", "DenseReadMeta"}
    BY OpsAreOperations DEF Plain
  <2>3. ComesDisk(w)
    BY <1>15, <2>1 DEF Return, ComesDisk, Plain, Returns, disk_vars
  <2> QED
    BY <1>3, <1>15, <2>1, <2>2, <2>3 DEF Return, disk_vars
<1>16. CASE ReturnDensePull(w)
  <2>1. "DensePull" \in Operations \ Barriers
    BY OpsAreOperations
  <2>2. ComesDisk(w)
    BY <1>16 DEF ReturnDensePull, ComesDisk, Returns, disk_vars
  <2> QED
    BY <1>3, <1>16, <2>1, <2>2 DEF ReturnDensePull, disk_vars
<1>17. CASE ReturnImport(w)
  <2>1. Op(w) = "Import" /\ sent[w] /\ todo[w] = {} /\ ~raised[w] /\ ~failed[w]
    BY <1>17 DEF ReturnImport, Returns
  <2>2. Busy(w)
    BY <2>1, BusyOp, OpsAreOperations
  <2>3. ComesDisk(w)
    BY <1>17, <2>1 DEF ReturnImport, ComesDisk, disk_vars
  <2> QED
    BY <1>17, <2>1, <2>2, <2>3 DEF ReturnImport, Done, ComesBack, disk_vars
<1>18. CASE ReturnPullMeta(w)
  <2>1. PICK op \in {"SparsePullMeta", "DensePullMeta"} : Returns(w, op)
    BY <1>18 DEF ReturnPullMeta
  <2>2. CASE \E s, t \in Servers : got[w][s] # got[w][t]
    BY <1>1, <1>18, <2>1, <2>2 DEF ReturnPullMeta, Returns
  <2>3. CASE ~(\E s, t \in Servers : got[w][s] # got[w][t])
    <3>1. /\ Done(w) /\ Advance(w) /\ UNCHANGED <<file, model, export>>
          /\ IF Op(w) = "SparsePullMeta"
             THEN /\ disk' = [disk EXCEPT !.count = job.n, !.meta = got[w][0]]
                  /\ saved' = Held
                  /\ intact' = FALSE
             ELSE /\ disk' = [disk EXCEPT !.dmeta = got[w][0]]
                  /\ UNCHANGED <<saved, intact>>
      BY <1>18, <2>3 DEF ReturnPullMeta
    <3>2. ComesDisk(w)
      BY <2>1, <3>1 DEF ComesDisk, Returns
    <3>3. op \in Operations \ Barriers
      BY OpsAreOperations
    <3> QED
      BY <1>3, <2>1, <3>1, <3>2, <3>3
  <2> QED
    BY <2>2, <2>3
<1>19. CASE ReturnDenseSave(w)
  <2>1. PICK op \in {"DenseSaveData", "DenseSaveState"} : Returns(w, op)
    BY <1>19 DEF ReturnDenseSave
  <2>2. ComesDisk(w)
    BY <1>19, <2>1 DEF ReturnDenseSave, ComesDisk, Returns
  <2>3. op \in Operations \ Barriers
    BY OpsAreOperations
  <2> QED
    BY <1>3, <1>19, <2>1, <2>2, <2>3 DEF ReturnDenseSave
<1>20. CASE ReturnExport(w)
  <2>1. "SparseExport" \in Operations \ Barriers
    BY OpsAreOperations
  <2>2. ComesDisk(w)
    BY <1>20 DEF ReturnExport, ComesDisk, Returns
  <2> QED
    BY <1>3, <1>20, <2>1, <2>2 DEF ReturnExport
<1>21. CASE Raise(w)
  BY <1>1, <1>21 DEF Raise
<1> QED
  BY <1>4, <1>5, <1>6, <1>7, <1>8, <1>9, <1>10, <1>11, <1>12, <1>13, <1>14, <1>15, <1>16,
     <1>17, <1>18, <1>19, <1>20, <1>21 DEF WorkerStep

-----------------------------------------------------------------------------
(***************************************************************************)
(* Where a step leaves the workers.                                        *)
(***************************************************************************)
KeepsPlace == job' = job /\ Now' = Now /\ \A v \in Workers : Op(v)' = Op(v)

\* Another worker than w has the same operation, requests, answers and data.
Others(w) ==
    \A v \in Workers : v # w =>
        /\ Op(v)' = Op(v) /\ sent'[v] = sent[v] /\ todo'[v] = todo[v] /\ raised'[v] = raised[v]
        /\ got'[v] = got[v] /\ keys'[v] = keys[v] /\ floor'[v] = floor[v]
        /\ file'[v] = file[v] /\ model'[v] = model[v] /\ failed'[v] = failed[v]

\* A worker goes on, in its stage, to the next operation.
MovesOn(w) == Edge(w, job.n, job.loads, job.old, Op(w), Now, Op(w)')

\* A worker that asks stays where it is, and waits for every server.
LEMMA AskFacts ==
    ASSUME BaseInv, NEW w \in Workers, Asks(w)
    PROVE  /\ KeepsPlace /\ Others(w) /\ sent'[w] /\ todo'[w] = Servers /\ todo[w] = {}
           /\ Op(w) \in Operations \ Barriers /\ prog[w] # <<>>
<1>1. Sends(w) /\ ~sent[w] /\ UNCHANGED <<got, raised, failed, file, model>>
  BY DEF Asks
<1>2. /\ UNCHANGED <<job, prog>> /\ sent' = [sent EXCEPT ![w] = TRUE] /\ todo' = [todo EXCEPT ![w] = Servers]
      /\ Op(w) \in Operations \ Barriers /\ prog[w] # <<>>
  BY <1>1 DEF Sends, Busy
<1>3. KeepsPlace
  BY <1>2, Stays DEF KeepsPlace
<1>4. DOMAIN sent = Workers /\ DOMAIN todo = Workers /\ todo[w] = {}
  BY <1>1 DEF BaseInv, CheckpointInv, OrderInv, WaitInv
<1>5. DOMAIN keys = Workers /\ DOMAIN floor = Workers
  BY DEF BaseInv, FormInv
<1>6. \A v \in Workers : v # w => keys'[v] = keys[v] /\ floor'[v] = floor[v]
  <2>1. CASE Op(w) = "SparsePull"
    BY <1>5, <2>1 DEF Asks, SendsKeys
  <2>2. CASE Op(w) # "SparsePull"
    BY <2>2 DEF Asks, SendsKeys
  <2> QED
    BY <2>1, <2>2
<1>7. sent'[w] /\ todo'[w] = Servers /\ \A v \in Workers : v # w => sent'[v] = sent[v] /\ todo'[v] = todo[v]
  BY <1>2, <1>4
<1>8. Others(w)
  BY <1>1, <1>3, <1>6, <1>7 DEF Others, KeepsPlace
<1> QED
  BY <1>2, <1>3, <1>4, <1>7, <1>8

\* A worker that goes on reaches its next operation.
LEMMA GoFacts ==
    ASSUME BaseInv, NEW w \in Workers, GoesOn(w)
    PROVE  /\ job' = job /\ Now' = Now /\ PathInv' /\ MovesOn(w) /\ Others(w)
           /\ Op(w) \in Operations \ Barriers /\ prog[w] # <<>>
<1>1. /\ Busy(w) /\ Advance(w)
      /\ UNCHANGED <<job, sent, todo, raised, got, keys, floor, file, model, failed>>
  BY DEF GoesOn
<1>2. Op(w) \in Operations \ Barriers /\ prog[w] # <<>>
  BY <1>1 DEF Busy
<1>3. /\ PathInv' /\ Now' = Now /\ MovesOn(w)
      /\ \A v \in Workers : v # w => Op(v)' = Op(v)
  BY <1>1, <1>2, Moves DEF BaseInv, CheckpointInv, MovesOn
<1> QED
  BY <1>1, <1>2, <1>3 DEF Others

\* A worker that comes back reaches its next operation, or its next file.
LEMMA ComeFacts ==
    ASSUME BaseInv, NEW w \in Workers, ComesBack(w)
    PROVE  /\ job' = job /\ Now' = Now /\ PathInv' /\ Others(w)
           /\ ~sent'[w] /\ todo' = todo /\ todo[w] = {}
           /\ \A s \in Servers : got'[w][s] = None
           /\ Op(w) = "Import" => Op(w)' = "Import" /\ file'[w] = file[w] + WorkerCount
           /\ Op(w) # "Import" => MovesOn(w) /\ file'[w] = file[w]
           /\ model'[w] = IF Op(w) = "DensePull" THEN Assembled(w) ELSE model[w]
           /\ Op(w) \in Operations \ Barriers /\ prog[w] # <<>>
<1>0. /\ DOMAIN sent = Workers /\ DOMAIN got = Workers /\ DOMAIN file = Workers /\ DOMAIN model = Workers
      /\ PathInv /\ OrderInv
  BY DEF BaseInv, CheckpointInv, OrderInv, WaitInv, FormInv, ShapeInv
<1>1. /\ Busy(w) /\ sent' = [sent EXCEPT ![w] = FALSE] /\ got' = [got EXCEPT ![w] = [s \in Servers |-> None]]
      /\ UNCHANGED <<job, todo, raised, failed, keys, floor>>
      /\ IF Op(w) = "Import" THEN prog' = prog /\ file' = [file EXCEPT ![w] = @ + WorkerCount]
                             ELSE Advance(w) /\ file' = file
      /\ model' = IF Op(w) = "DensePull" THEN [model EXCEPT ![w] = Assembled(w)] ELSE model
      /\ todo[w] = {}
  BY DEF ComesBack
<1>2. Op(w) \in Operations \ Barriers /\ prog[w] # <<>>
  BY <1>1 DEF Busy
<1>3. /\ ~sent'[w] /\ \A s \in Servers : got'[w][s] = None
      /\ model'[w] = IF Op(w) = "DensePull" THEN Assembled(w) ELSE model[w]
      /\ \A v \in Workers : v # w => sent'[v] = sent[v] /\ got'[v] = got[v] /\ model'[v] = model[v]
  BY <1>0, <1>1
<1>4. CASE Op(w) = "Import"
  <2>1. PathInv' /\ Now' = Now /\ \A v : Op(v)' = Op(v)
    BY <1>0, <1>1, <1>4, Stays
  <2>2. file'[w] = file[w] + WorkerCount /\ \A v \in Workers : v # w => file'[v] = file[v]
    BY <1>0, <1>1, <1>4
  <2>3. Others(w)
    BY <1>1, <1>3, <2>1, <2>2 DEF Others
  <2> QED
    BY <1>1, <1>2, <1>3, <1>4, <2>1, <2>2, <2>3
<1>5. CASE Op(w) # "Import"
  <2>1. /\ PathInv' /\ Now' = Now /\ MovesOn(w)
        /\ \A v \in Workers : v # w => Op(v)' = Op(v)
    BY <1>0, <1>1, <1>2, <1>5, Moves DEF MovesOn
  <2>2. file' = file
    BY <1>1, <1>5
  <2>3. Others(w)
    BY <1>1, <1>3, <2>1, <2>2 DEF Others
  <2> QED
    BY <1>1, <1>2, <1>3, <1>5, <2>1, <2>2, <2>3
<1> QED
  BY <1>4, <1>5

\* A worker that fails changes nothing but that.
LEMMA FailFacts ==
    ASSUME BaseInv, NEW w \in Workers, Fails(w)
    PROVE  KeepsPlace /\ UNCHANGED <<prog, sent, todo, got, raised, keys, file, model, sparse, smeta, dense, dmeta,
                                     disk, export, table, vec, saved, intact, floor>>
BY Stays DEF Fails, KeepsPlace, server_vars, disk_vars, ghost_vars

\* A server that answers leaves every worker where it is.
LEMMA HandleFacts ==
    ASSUME BaseInv, NEW w \in Workers, NEW s \in Servers, HandleFrame(w, s)
    PROVE  /\ KeepsPlace /\ prog' = prog /\ sent' = sent
           /\ todo'[w] = todo[w] \ {s} /\ \A v \in Workers : v # w => todo'[v] = todo[v]
           /\ sent[w] /\ s \in todo[w] /\ Op(w) \in Operations \ Barriers /\ prog[w] # <<>>
<1>1. /\ todo' = [todo EXCEPT ![w] = @ \ {s}] /\ UNCHANGED <<job, prog, sent>> /\ s \in todo[w]
      /\ Op(w) \in Operations \ Barriers
  BY DEF HandleFrame, Answers
<1>2. DOMAIN todo = Workers /\ (~sent[w] => todo[w] = {}) /\ sent \in [Workers -> BOOLEAN]
  BY DEF BaseInv, CheckpointInv, OrderInv, WaitInv
<1>3. KeepsPlace
  BY <1>1, Stays DEF KeepsPlace
<1>4. prog[w] # <<>>
  BY <1>1, BusyOp DEF Busy
<1> QED
  BY <1>1, <1>2, <1>3, <1>4

\* At a barrier no request is outstanding, and no answer was an exception.
LEMMA BarrierFacts ==
    ASSUME BaseInv, AtBarrier
    PROVE  /\ Live /\ \A w \in Workers : ~sent[w] /\ todo[w] = {} /\ prog[w] # <<>> /\ Op(w) \in Barriers
<1>1. ASSUME NEW w \in Workers PROVE ~sent[w] /\ todo[w] = {} /\ prog[w] # <<>> /\ Op(w) \in Barriers
  <2>1. Op(w) \in Barriers
    BY DEF AtBarrier
  <2>2. prog[w] # <<>> /\ Head(prog[w]) \in Barriers
    BY <2>1, NoneAssumption DEF Op, Operations
  <2> QED
    BY <2>1, <2>2 DEF BaseInv, CheckpointInv, OrderInv, WaitInv
<1>2. Live
  BY <1>1 DEF Live, BaseInv, FormInv
<1> QED
  BY <1>1, <1>2

\* A barrier: every worker reaches its next operation, and nothing else changes.
LEMMA PassFacts ==
    ASSUME BaseInv, Barrier
    PROVE  /\ Live /\ Live' /\ PathInv'
           /\ job' = job /\ Now' = IF Now = 13 /\ ~job.loads THEN 8 ELSE Now - 1
           /\ Now \in 1..16 /\ job.n \in ServerCounts
           /\ UNCHANGED <<sent, todo, got, raised, failed, keys, file, model, sparse, smeta, dense, dmeta,
                          disk, export, table, vec, saved, intact, floor>>
           /\ \A w \in Workers : ~sent[w] /\ todo[w] = {} /\ Op(w) \in Barriers /\ MovesOn(w)
<1>1. AtBarrier /\ UNCHANGED <<job, sent, todo, got, raised, failed, keys, file, model, sparse, smeta, dense, dmeta,
                               disk, export, table, vec, saved, intact, floor>>
  BY DEF Barrier, server_vars, disk_vars, ghost_vars
<1>2. Live /\ \A w \in Workers : ~sent[w] /\ todo[w] = {} /\ prog[w] # <<>>
  BY <1>1, BarrierFacts
<1>3. Live'
  BY <1>1, <1>2 DEF Live
<1>4. OrderInv /\ PathInv /\ FormInv /\ ProgInv
  BY DEF BaseInv, CheckpointInv, OrderInv
<1>5. /\ PathInv' /\ Now' = IF Now = 13 /\ ~job.loads THEN 8 ELSE Now - 1
      /\ \A w \in Workers : Op(w) \in Barriers /\ MovesOn(w)
  BY <1>4, Passes DEF MovesOn
<1>6. Now \in 1..16
  <2>1. Op(0) \in Barriers /\ MovesOn(0)
    BY <1>5, ZeroIsWorker
  <2> QED
    BY <2>1 DEF MovesOn, Edge
<1>7. job.n \in ServerCounts
  BY <1>2, ZeroIsWorker DEF BaseInv, CheckpointInv, ShapeInv
<1> QED
  BY <1>1, <1>2, <1>3, <1>5, <1>6, <1>7

\* An exception is not taken back.
LEMMA LiveBefore ==
    ASSUME BaseInv, Live', NEW w \in Workers,
           WorkerStep(w) \/ \E s \in Servers : Handle(w, s)
    PROVE  Live
<1>1. CASE WorkerStep(w)
  <2>1. raised' = raised
    BY <1>1, WorkerDataStep DEF WorkerData
  <2> QED
    BY <2>1 DEF Live
<1>2. CASE \E s \in Servers : Handle(w, s)
  <2>1. PICK s \in Servers : Handle(w, s)
    BY <1>2
  <2>2. HandleDone(w, s) \/ HandleRefused(w, s)
    BY <2>1, HandleCases DEF BaseInv, CheckpointInv
  <2>3. raised' = raised \/ raised' = [raised EXCEPT ![w] = TRUE]
    BY <2>2 DEF HandleDone, HandleRefused
  <2>4. raised \in [Workers -> BOOLEAN]
    BY DEF BaseInv, FormInv
  <2>5. CASE raised' = raised
    BY <2>5 DEF Live
  <2>6. CASE raised' = [raised EXCEPT ![w] = TRUE]
    BY <2>4, <2>6 DEF Live
  <2> QED
    BY <2>3, <2>5, <2>6
<1> QED
  BY <1>1, <1>2

\* A refused request is the end of the job.
LEMMA RefusedIsNotLive ==
    ASSUME BaseInv, NEW w \in Workers, NEW s \in Servers, HandleRefused(w, s)
    PROVE  ~Live'
<1>1. raised \in [Workers -> BOOLEAN] /\ raised' = [raised EXCEPT ![w] = TRUE]
  BY DEF BaseInv, FormInv, HandleRefused
<1> QED
  BY <1>1 DEF Live

\* The form of the variables at the beginning,
LEMMA FormInit == Init => FormInv /\ PathInv
<1> SUFFICES ASSUME Init PROVE FormInv /\ PathInv
  OBVIOUS
<1>0. Servers = {} /\ prog = [w \in Workers |-> <<>>]
  BY DEF Init, Servers
<1>1. PathInv
  BY <1>0 DEF PathInv, Path
<1>2. FormInv
  BY <1>0, TrainerAssumption DEF Init, FormInv
<1> QED
  BY <1>1, <1>2

\* What a job starts with.
LEMMA StartFacts ==
    ASSUME NewJob
    PROVE  /\ PathInv' /\ Now' = 16 /\ Live'
           /\ job'.n \in ServerCounts /\ job'.num = job.num + 1 /\ job'.old = disk.count
           /\ job'.loads \in BOOLEAN /\ job'.sound \in BOOLEAN
           /\ job'.loads => disk.count # None /\ (job'.sound => intact /\ saved.sound)
           /\ job' = [num |-> job'.num, n |-> job'.n, loads |-> job'.loads, old |-> job'.old, sound |-> job'.sound]
           /\ \A w \in Workers : /\ Op(w)' = "barrier" /\ ~sent'[w] /\ todo'[w] = {} /\ keys'[w] = None
                                 /\ file'[w] = w /\ ~raised'[w]
           /\ Servers' = 0..(job'.n - 1)
           /\ sparse' = [s \in Servers' |-> EmptyMap] /\ smeta' = [s \in Servers' |-> None]
           /\ dense' = [s \in Servers' |-> None] /\ dmeta' = [s \in Servers' |-> None]
           /\ table' = EmptyMap
           /\ vec' = [data |-> [r \in AllRows |-> 0], state |-> [r \in AllRows |-> 0]]
           /\ export' = [count |-> 0, parts |-> [s \in Servers' |-> EmptyMap], model |-> None]
           /\ sent' = [w \in Workers |-> FALSE] /\ raised' = [w \in Workers |-> FALSE]
           /\ todo' = [w \in Workers |-> {}] /\ failed' = [w \in Workers |-> FALSE]
           /\ keys' = [w \in Workers |-> None] /\ floor' = [w \in Workers |-> EmptyMap]
           /\ file' = [w \in Workers |-> w] /\ model' = [w \in Workers |-> [r \in AllRows |-> 10 * (w + 1)]]
           /\ UNCHANGED <<disk, saved, intact>>
<1>1. PICK n \in ServerCounts, loads \in BOOLEAN :
          /\ loads => disk.count # None
          /\ StartJob(job.num + 1, n, loads, disk.count, loads => intact /\ saved.sound)
  BY DEF NewJob
<1>2. job' = [num |-> job.num + 1, n |-> n, loads |-> loads, old |-> disk.count,
              sound |-> (loads => intact /\ saved.sound)]
  BY <1>1 DEF StartJob
<1>3. /\ job'.n = n /\ job'.num = job.num + 1 /\ job'.old = disk.count /\ job'.loads = loads
      /\ job'.sound = (loads => intact /\ saved.sound)
  BY <1>2
<1>3a. job'.sound \in BOOLEAN /\ (job'.loads => disk.count # None /\ (job'.sound => intact /\ saved.sound))
  BY <1>1, <1>3
<1>4. PathInv' /\ Now' = 16 /\ \A w \in Workers : Op(w)' = "barrier"
  BY StartsAt16
<1>5. Servers' = 0..(n - 1)
  BY <1>3 DEF Servers
<1>6. /\ sparse' = [s \in Servers' |-> EmptyMap] /\ smeta' = [s \in Servers' |-> None]
      /\ dense' = [s \in Servers' |-> None] /\ dmeta' = [s \in Servers' |-> None]
      /\ table' = EmptyMap
      /\ vec' = [data |-> [r \in AllRows |-> 0], state |-> [r \in AllRows |-> 0]]
      /\ export' = [count |-> 0, parts |-> [s \in Servers' |-> EmptyMap], model |-> None]
  BY <1>1, <1>5 DEF StartJob
<1>7. /\ sent' = [w \in Workers |-> FALSE] /\ raised' = [w \in Workers |-> FALSE]
      /\ todo' = [w \in Workers |-> {}] /\ failed' = [w \in Workers |-> FALSE]
      /\ keys' = [w \in Workers |-> None] /\ floor' = [w \in Workers |-> EmptyMap]
      /\ file' = [w \in Workers |-> w] /\ model' = [w \in Workers |-> [r \in AllRows |-> 10 * (w + 1)]]
  BY <1>1 DEF StartJob
<1>8. Live'
  BY <1>7 DEF Live
<1>9. UNCHANGED <<disk, saved, intact>>
  BY DEF NewJob
<1>10. \A w \in Workers : ~sent'[w] /\ todo'[w] = {} /\ keys'[w] = None /\ file'[w] = w /\ ~raised'[w]
  BY <1>7
<1> QED
  BY <1>1, <1>2, <1>3, <1>3a, <1>4, <1>5, <1>6, <1>7, <1>8, <1>9, <1>10

\* when a job starts,
LEMMA FormNewJob ==
    ASSUME FormInv, NewJob
    PROVE  FormInv'
<1>1. job.num \in 0..MaxJobs /\ job.num < MaxJobs /\ MaxJobs \in Nat
  BY TrainerAssumption DEF NewJob, FormInv
<1>2. job.num + 1 \in 0..MaxJobs
  BY <1>1
<1>3. saved' = saved /\ saved = [sound |-> saved.sound, table |-> saved.table, vec |-> saved.vec]
  BY StartFacts DEF FormInv
<1>4. /\ job' = [num |-> job'.num, n |-> job'.n, loads |-> job'.loads, old |-> job'.old, sound |-> job'.sound]
      /\ job'.num = job.num + 1 /\ job'.loads \in BOOLEAN /\ job'.sound \in BOOLEAN
      /\ sparse' = [s \in Servers' |-> EmptyMap] /\ smeta' = [s \in Servers' |-> None]
      /\ dense' = [s \in Servers' |-> None] /\ dmeta' = [s \in Servers' |-> None]
      /\ export' = [count |-> 0, parts |-> [s \in Servers' |-> EmptyMap], model |-> None]
      /\ sent' = [w \in Workers |-> FALSE] /\ raised' = [w \in Workers |-> FALSE]
      /\ todo' = [w \in Workers |-> {}] /\ failed' = [w \in Workers |-> FALSE]
      /\ keys' = [w \in Workers |-> None] /\ floor' = [w \in Workers |-> EmptyMap]
      /\ file' = [w \in Workers |-> w] /\ model' = [w \in Workers |-> [r \in AllRows |-> 10 * (w + 1)]]
  BY StartFacts
<1> QED
  BY <1>2, <1>3, <1>4 DEF FormInv

\* after a step of a worker,
LEMMA FormWorker ==
    ASSUME BaseInv, NEW w \in Workers, WorkerStep(w)
    PROVE  FormInv' /\ PathInv'
<1>0. FormInv /\ PathInv /\ WaitInv
  BY DEF BaseInv, CheckpointInv, OrderInv
<1>1. CASE Fails(w)
  <2>1. /\ todo[w] = {} /\ failed' = [failed EXCEPT ![w] = TRUE]
        /\ UNCHANGED <<job, prog, sent, todo, raised, keys, file, model, smeta, dense, dmeta, export, saved, floor>>
    BY <1>1 DEF Fails, server_vars, disk_vars, ghost_vars
  <2>2. Servers' = Servers
    BY <2>1 DEF Servers
  <2> QED
    BY <1>0, <2>1, <2>2, Stays DEF FormInv
<1>2. CASE Asks(w)
  <2>1. /\ ~failed[w] /\ UNCHANGED <<job, prog, raised, failed, file, model, smeta, dense, dmeta, export, saved>>
        /\ sent' = [sent EXCEPT ![w] = TRUE] /\ todo' = [todo EXCEPT ![w] = Servers]
    BY <1>2 DEF Asks, Sends, server_vars, disk_vars
  <2>2. Servers' = Servers
    BY <2>1 DEF Servers
  <2>3. DOMAIN keys' = Workers /\ DOMAIN floor' = Workers
    <3>1. CASE Op(w) = "SparsePull"
      BY <1>0, <1>2, <3>1 DEF Asks, SendsKeys, FormInv
    <3>2. CASE Op(w) # "SparsePull"
      BY <1>0, <1>2, <3>2 DEF Asks, SendsKeys, FormInv
    <3> QED
      BY <3>1, <3>2
  <2>4. \A v \in Workers : todo'[v] # {} => ~failed'[v]
    BY <1>0, <2>1 DEF FormInv, WaitInv
  <2>5. \A v \in Workers : raised'[v] => sent'[v]
    BY <1>0, <2>1 DEF FormInv, WaitInv
  <2> QED
    BY <1>0, <2>1, <2>2, <2>3, <2>4, <2>5, Stays DEF FormInv
<1>3. CASE GoesOn(w)
  <2>1. UNCHANGED <<job, sent, todo, raised, failed, keys, file, model, smeta, dense, dmeta, export, saved, floor>>
    BY <1>3 DEF GoesOn, server_vars, disk_vars
  <2>2. Servers' = Servers
    BY <2>1 DEF Servers
  <2>3. FormInv'
    BY <1>0, <2>1, <2>2 DEF FormInv
  <2> QED
    BY <1>3, <2>3, GoFacts
<1>4. CASE ComesBack(w)
  <2>1. /\ UNCHANGED <<job, todo, raised, failed, keys, smeta, dense, dmeta, floor>> /\ ~raised[w]
        /\ sent' = [sent EXCEPT ![w] = FALSE]
    BY <1>4 DEF ComesBack, server_vars
  <2>2. Servers' = Servers
    BY <2>1 DEF Servers
  <2>3. DOMAIN file' = Workers /\ DOMAIN model' = Workers
    BY <1>0, <1>4 DEF ComesBack, FormInv
  <2>4. /\ export' = [count |-> export'.count, parts |-> export'.parts, model |-> export'.model]
        /\ export'.parts = export.parts
    BY <1>0, <1>4 DEF ComesBack, FormInv
  <2>5. saved' = [sound |-> saved'.sound, table |-> saved'.table, vec |-> saved'.vec]
    <3>1. saved' = saved \/ saved' = Held
      BY <1>4 DEF ComesBack, ComesDisk
    <3>2. \E a, b, c : Held = [sound |-> a, table |-> b, vec |-> c]
      BY DEF Held
    <3> QED
      BY <1>0, <3>1, <3>2 DEF FormInv
  <2>6. \A v \in Workers : raised'[v] => sent'[v]
    BY <1>0, <2>1 DEF FormInv, WaitInv
  <2>7. FormInv'
    BY <1>0, <2>1, <2>2, <2>3, <2>4, <2>5, <2>6 DEF FormInv
  <2> QED
    BY <1>4, <2>7, ComeFacts
<1> QED
  BY <1>0, <1>1, <1>2, <1>3, <1>4, WorkerCases

\* and after a step of a server.
LEMMA FormHandle ==
    ASSUME BaseInv, NEW w \in Workers, NEW s \in Servers, Handle(w, s)
    PROVE  FormInv' /\ PathInv'
<1>0. FormInv /\ PathInv /\ WaitInv /\ ShapeInv
  BY DEF BaseInv, CheckpointInv, OrderInv
<1>1. HandleFrame(w, s) /\ (HandleDone(w, s) \/ HandleRefused(w, s))
  BY <1>0, HandleCases
<1>2. UNCHANGED <<job, prog, sent, failed, keys, file, model, saved, floor>>
  BY <1>1 DEF HandleFrame, Answers, ghost_vars
<1>3. /\ sent[w] /\ s \in todo[w] /\ todo'[w] = todo[w] \ {s}
      /\ \A v \in Workers : v # w => todo'[v] = todo[v]
  BY <1>1, HandleFacts
<1>4. Servers' = Servers
  BY <1>2 DEF Servers
<1>5. \A v \in Workers : todo'[v] # {} => ~failed'[v]
  BY <1>0, <1>2, <1>3 DEF FormInv
<1>6. raised' \in [Workers -> BOOLEAN] /\ \A v \in Workers : raised'[v] => sent'[v]
  <2>1. CASE HandleDone(w, s)
    BY <1>0, <1>2, <2>1 DEF HandleDone, FormInv
  <2>2. CASE HandleRefused(w, s)
    BY <1>0, <1>2, <1>3, <2>2 DEF HandleRefused, FormInv
  <2> QED
    BY <1>1, <2>1, <2>2
<1>7. DOMAIN smeta' = Servers /\ DOMAIN dmeta' = Servers /\ DOMAIN dense' = Servers
  BY <1>0, <1>1 DEF HandleDone, HandleRefused, MetaStep, DenseStep, server_vars, FormInv
<1>8. /\ export' = [count |-> export'.count, parts |-> export'.parts, model |-> export'.model]
      /\ export'.parts = [t \in Servers |-> export'.parts[t]]
  <2>1. export' = export \/ export' = [export EXCEPT !.parts[s] = sparse[s]]
    BY <1>1 DEF HandleDone, HandleRefused, FileStep, disk_vars
  <2>2. /\ export = [count |-> export.count, parts |-> export.parts, model |-> export.model]
        /\ export.parts = [t \in Servers |-> export.parts[t]]
    BY <1>0 DEF FormInv
  <2> QED
    BY <2>1, <2>2
<1>9. PathInv'
  BY <1>0, <1>2, Stays
<1> QED
  BY <1>0, <1>2, <1>4, <1>5, <1>6, <1>7, <1>8, <1>9 DEF FormInv

\* What every later proof starts from is true at the beginning
LEMMA BaseInit == Init => BaseInv
BY CheckpointInit, FormInit DEF BaseInv

\* and stays true.
LEMMA BaseNext == BaseInv /\ [Next]_vars => BaseInv'
<1> SUFFICES ASSUME BaseInv, [Next]_vars PROVE FormInv' /\ PathInv'
  BY CheckpointNext DEF BaseInv
<1>0. FormInv /\ PathInv
  BY DEF BaseInv
<1>1. CASE NewJob
  BY <1>0, <1>1, FormNewJob, StartFacts
<1>2. CASE Barrier
  <2>1. /\ UNCHANGED <<job, sent, todo, raised, failed, keys, file, model, smeta, dense, dmeta, export, saved, floor>>
        /\ PathInv'
    BY <1>2, PassFacts
  <2>2. Servers' = Servers
    BY <2>1 DEF Servers
  <2> QED
    BY <1>0, <2>1, <2>2 DEF FormInv
<1>3. CASE Over \/ UNCHANGED vars
  <2>1. UNCHANGED <<job, prog, sent, todo, raised, failed, keys, file, model, smeta, dense, dmeta, export, saved, floor>>
    BY <1>3 DEF Over, vars, worker_vars, server_vars, disk_vars, ghost_vars
  <2>2. Servers' = Servers
    BY <2>1 DEF Servers
  <2> QED
    BY <1>0, <2>1, <2>2, Stays DEF FormInv
<1>4. ASSUME NEW w \in Workers, WorkerStep(w) PROVE FormInv' /\ PathInv'
  BY <1>4, FormWorker
<1>5. ASSUME NEW w \in Workers, NEW s \in Servers, Handle(w, s) PROVE FormInv' /\ PathInv'
  BY <1>5, FormHandle
<1> QED
  BY <1>1, <1>2, <1>3, <1>4, <1>5 DEF Next

-----------------------------------------------------------------------------
(***************************************************************************)
(* Types.  A worker that pushes has had a minibatch; a file of the         *)
(* checkpoint that is read has been written.                               *)
(***************************************************************************)
KeysInv ==
    \A w \in Workers :
        /\ keys[w] = None \/ keys[w] \in SUBSET Nat
        /\ Op(w) \in {"SparsePull", "SparsePullReadOnly"} /\ sent[w] => keys[w] \in SUBSET Nat
        /\ Op(w) \in {"SparsePush", "DensePush"} \/ (Op(w) = "DensePull" /\ Now = 8)
              => keys[w] \in SUBSET Nat

MetaInv ==
    /\ disk.count # None => disk.count \in ServerCounts /\ disk.meta # None
    /\ job.loads => disk.count # None
    /\ \A s \in Servers : Ans(0, "SparsePullMeta", s) /\ ~raised[0] => got[0][s] # None
    /\ Op(0) = "DensePushMeta" => disk.dmeta # None

FilesInv == \A w \in Workers : file[w] \in Nat /\ file[w] % WorkerCount = w

MapsInv ==
    /\ \A s \in Servers : IsMap(sparse[s])
    /\ IsMap(table) /\ IsMap(saved.table)
    /\ \A i \in DOMAIN disk.file : IsMap(disk.file[i].entries)
    /\ \A w \in Workers : Op(w) = "Import" /\ sent[w] => file[w] \in DOMAIN disk.file

Tensors == [AllRows -> Nat]
SliceRows(s) == [RowsOf(s) -> Nat]

RowsInv ==
    /\ \A w \in Workers : model[w] \in Tensors
    /\ disk.data # None => disk.data \in Tensors
    /\ disk.state # None => disk.state \in Tensors
    /\ \A s \in Servers : dmeta[s] # None => dense[s] \in [data : SliceRows(s), state : SliceRows(s)]
    /\ \A w \in Workers :
          /\ Op(w) = "DenseLoadData" /\ sent[w] => disk.data \in Tensors
          /\ Op(w) = "DenseLoadState" /\ sent[w] => disk.state \in Tensors
          /\ Op(w) \in DensePulls /\ sent[w] /\ ~raised[w] =>
                \A s \in Servers \ todo[w] : got[w][s] \in SliceRows(s)

DataInv == KeysInv /\ MetaInv /\ FilesInv /\ MapsInv /\ RowsInv

\* None is the name of no operation.
LEMMA NoneApart ==
    None \notin {"barrier", "synced", "SparseInit", "DenseInit", "DensePushValue", "DensePull", "SparseClear",
                 "SparseReadMeta", "SparsePushMeta", "SparseLoad", "Import", "DenseReadMeta",
                 "DensePushMeta", "DenseLoadData", "DenseLoadState", "SparsePull", "SparsePush",
                 "DensePush", "SparsePruneOld", "SparsePullMeta", "SparseSave", "DensePullMeta",
                 "DenseSaveData", "DenseSaveState", "SparsePruneSmall", "SparsePullReadOnly",
                 "SparseExport"}
BY NoneAssumption DEF Operations, Barriers

\* A worker that has pulled keeps the keys of its minibatch.
LEMMA KeysNext == BaseInv /\ KeysInv /\ [Next]_vars => KeysInv'
<1> SUFFICES ASSUME BaseInv, KeysInv, [Next]_vars PROVE KeysInv'
  OBVIOUS
<1>0. WaitInv /\ ShapeInv /\ FormInv
  BY DEF BaseInv, CheckpointInv, OrderInv
<1>1. CASE NewJob
  <2>1. \A w \in Workers : Op(w)' = "barrier" /\ ~sent'[w] /\ keys'[w] = None
    BY <1>1, StartFacts
  <2> QED
    BY <2>1 DEF KeysInv
<1>2. CASE Barrier
  <2>1. keys' = keys /\ sent' = sent /\ \A w \in Workers : ~sent[w] /\ Op(w) \in Barriers /\ MovesOn(w)
    BY <1>2, PassFacts
  <2>2. Now' = IF Now = 13 /\ ~job.loads THEN 8 ELSE Now - 1
    BY <1>2, PassFacts
  <2>3. ASSUME NEW w \in Workers
        PROVE  ~(Op(w)' \in {"SparsePush", "DensePush"} \/ (Op(w)' = "DensePull" /\ Now' = 8))
    <3>1. Op(w) \in Barriers /\ MovesOn(w)
      BY <2>1
    <3>2. Op(w)' \notin {"SparsePush", "DensePush"} /\ (Op(w)' = "DensePull" => Now \in {14, 10})
      BY <3>1, NoneApart DEF MovesOn, Edge, Barriers
    <3> QED
      BY <2>2, <3>2
  <2> QED
    BY <2>1, <2>3 DEF KeysInv
<1>3. CASE Over \/ UNCHANGED vars
  <2>1. UNCHANGED <<job, prog, sent, keys>>
    BY <1>3 DEF Over, vars, worker_vars
  <2> QED
    BY <2>1, Stays DEF KeysInv
<1>4. ASSUME NEW w \in Workers, WorkerStep(w) PROVE KeysInv'
  <2>1. CASE Fails(w)
    BY <2>1, FailFacts DEF KeysInv, KeepsPlace
  <2>2. CASE Asks(w)
    <3>1. KeepsPlace /\ Others(w)
      BY <2>2, AskFacts
    <3>2. CASE Op(w) = "SparsePull"
      <4>1. PICK ks \in Minibatches[w] : keys' = [keys EXCEPT ![w] = ks]
        BY <2>2, <3>2 DEF Asks, SendsKeys
      <4>2. keys'[w] = ks
        BY <1>0, <4>1 DEF FormInv
      <4>3. ks \in SUBSET Nat
        BY TrainerAssumption DEF Workers
      <4> QED
        BY <3>1, <4>2, <4>3 DEF KeysInv, KeepsPlace, Others
    <3>3. CASE Op(w) # "SparsePull"
      <4>1. keys' = keys /\ (Op(w) = "SparsePullReadOnly" => keys[w] # None)
        BY <2>2, <3>3 DEF Asks, SendsKeys
      <4> QED
        BY <3>1, <3>3, <4>1 DEF KeysInv, KeepsPlace, Others
    <3> QED
      BY <3>2, <3>3
  <2>3. CASE GoesOn(w)
    <3>1. Now' = Now /\ MovesOn(w) /\ Others(w)
      BY <2>3, GoFacts
    <3>2. keys' = keys /\ sent' = sent /\ ~sent[w] /\ Op(w) \notin {"SparsePull", "DensePull"}
      BY <2>3 DEF GoesOn
    <3>3. /\ Op(w)' # "SparsePush" /\ (Op(w)' = "DensePush" => Op(w) = "SparsePush")
          /\ ~(Op(w)' = "DensePull" /\ Now = 8)
      BY <3>1, <3>2, NoneApart DEF MovesOn, Edge
    <3> QED
      BY <3>1, <3>2, <3>3 DEF KeysInv, Others
  <2>4. CASE ComesBack(w)
    <3>1. Now' = Now /\ Others(w) /\ (Op(w) = "Import" => Op(w)' = "Import") /\ (Op(w) # "Import" => MovesOn(w))
          /\ ~sent'[w]
      BY <2>4, ComeFacts
    <3>2. keys' = keys /\ sent[w]
      BY <2>4 DEF ComesBack
    <3>3. /\ Op(w)' = "SparsePush" => Op(w) = "DensePull" /\ Now = 8
          /\ Op(w)' = "DensePush" => Op(w) = "SparsePush"
          /\ Op(w)' = "DensePull" /\ Now = 8 => Op(w) = "SparsePull"
      BY <3>1, NoneApart DEF MovesOn, Edge
    <3> QED
      BY <3>1, <3>2, <3>3 DEF KeysInv, Others
  <2> QED
    BY <1>0, <1>4, <2>1, <2>2, <2>3, <2>4, WorkerCases
<1>5. ASSUME NEW w \in Workers, NEW s \in Servers, Handle(w, s) PROVE KeysInv'
  <2>1. HandleFrame(w, s)
    BY <1>0, <1>5, HandleCases
  <2>2. KeepsPlace /\ sent' = sent
    BY <2>1, HandleFacts
  <2>3. keys' = keys
    BY <2>1 DEF HandleFrame
  <2> QED
    BY <2>2, <2>3 DEF KeysInv, KeepsPlace
<1> QED
  BY <1>1, <1>2, <1>3, <1>4, <1>5 DEF Next

\* A worker imports the files i with i % WorkerCount equal to its rank.
LEMMA FilesNext == BaseInv /\ FilesInv /\ [Next]_vars => FilesInv'
<1> SUFFICES ASSUME BaseInv, FilesInv, [Next]_vars PROVE FilesInv'
  OBVIOUS
<1>0. WaitInv /\ ShapeInv /\ FormInv /\ WorkerCount \in Nat \ {0}
  BY TrainerAssumption DEF BaseInv, CheckpointInv, OrderInv
<1>1. CASE NewJob
  <2>1. ASSUME NEW w \in Workers PROVE w \in Nat /\ w % WorkerCount = w
    BY <1>0, NoWrap DEF Workers
  <2> QED
    BY <1>1, <2>1, StartFacts DEF FilesInv
<1>2. CASE Barrier \/ Over \/ UNCHANGED vars
  BY <1>2 DEF Barrier, Over, vars, worker_vars, FilesInv
<1>3. ASSUME NEW w \in Workers, WorkerStep(w) PROVE FilesInv'
  <2>1. CASE Fails(w) \/ Asks(w) \/ GoesOn(w)
    BY <2>1 DEF Fails, Asks, GoesOn, FilesInv
  <2>2. CASE ComesBack(w)
    <3>1. /\ \A v \in Workers : v # w => file'[v] = file[v]
          /\ file'[w] = file[w] + WorkerCount \/ file'[w] = file[w]
      BY <2>2, ComeFacts DEF Others
    <3>2. /\ file[w] \in Nat /\ file[w] % WorkerCount = w
      BY DEF FilesInv
    <3>3. file[w] + WorkerCount \in Nat /\ (file[w] + WorkerCount) % WorkerCount = w
      <4>1. PICK x \in Nat, n \in Nat \ {0} : x = file[w] /\ n = WorkerCount
        BY <1>0, <3>2
      <4>2. x % n = w
        BY <3>2, <4>1
      <4>3. PICK q \in Int, r \in 0..(n - 1) : x = q * n + r /\ x % n = r
        <5>1. x \div n \in Int /\ x % n \in 0..(n - 1) /\ x = (x \div n) * n + (x % n)
          BY DivFacts, x \in Int
        <5> QED
          BY <5>1, Zenon
      <4>4. x + n = (q + 1) * n + r
        BY <4>3, SMT
      <4>5. ((q + 1) * n + r) % n = r
        BY DivUnique, q + 1 \in Int
      <4> QED
        BY <4>1, <4>2, <4>3, <4>4, <4>5
    <3> QED
      BY <3>1, <3>2, <3>3 DEF FilesInv
  <2> QED
    BY <1>0, <1>3, <2>1, <2>2, WorkerCases
<1>4. ASSUME NEW w \in Workers, NEW s \in Servers, Handle(w, s) PROVE FilesInv'
  BY <1>0, <1>4, HandleCases DEF HandleFrame, FilesInv
<1> QED
  BY <1>1, <1>2, <1>3, <1>4 DEF Next

\* The disk changes while worker 0 saves: with the answers it comes back with, and
\* by a server that writes its partition.
LEMMA DiskComes ==
    ASSUME BaseInv, NEW w \in Workers, ComesBack(w)
    PROVE  /\ disk' # disk \/ saved' # saved \/ intact' # intact => w = 0 /\ Op(0) \in SaveOps /\ Now = 5
           /\ disk'.file = disk.file
           /\ disk'.count = IF Op(w) = "SparsePullMeta" THEN job.n ELSE disk.count
           /\ disk'.meta = IF Op(w) = "SparsePullMeta" THEN got[w][0] ELSE disk.meta
           /\ disk'.dmeta = IF Op(w) = "DensePullMeta" THEN got[w][0] ELSE disk.dmeta
           /\ disk'.data = IF Op(w) = "DenseSaveData" THEN Assembled(w) ELSE disk.data
           /\ disk'.state = IF Op(w) = "DenseSaveState" /\ HasState THEN Assembled(w) ELSE disk.state
           /\ saved' = IF Op(w) = "SparsePullMeta" THEN Held ELSE saved
<1>1. DOMAIN disk = {"count", "meta", "dmeta", "data", "state", "file"}
  BY DEF BaseInv, CheckpointInv, ShapeInv
<1>2. ComesDisk(w)
  BY DEF ComesBack
<1>3. ASSUME disk' # disk \/ saved' # saved \/ intact' # intact PROVE w = 0 /\ Op(0) \in SaveOps /\ Now = 5
  <2>1. Op(w) \in {"SparsePullMeta", "DensePullMeta", "DenseSaveData", "DenseSaveState"}
    BY <1>2, <1>3 DEF ComesDisk
  <2>2. MovesOn(w)
    BY <2>1, ComeFacts
  <2> QED
    BY <2>1, <2>2 DEF MovesOn, Edge, SaveOps
<1>4. /\ disk'.file = disk.file
      /\ disk'.count = IF Op(w) = "SparsePullMeta" THEN job.n ELSE disk.count
      /\ disk'.meta = IF Op(w) = "SparsePullMeta" THEN got[w][0] ELSE disk.meta
      /\ disk'.dmeta = IF Op(w) = "DensePullMeta" THEN got[w][0] ELSE disk.dmeta
  BY <1>1, <1>2 DEF ComesDisk
<1>5. /\ disk'.data = IF Op(w) = "DenseSaveData" THEN Assembled(w) ELSE disk.data
      /\ disk'.state = IF Op(w) = "DenseSaveState" /\ HasState THEN Assembled(w) ELSE disk.state
      /\ saved' = IF Op(w) = "SparsePullMeta" THEN Held ELSE saved
  <2> HIDE DEF Assembled, Held
  <2> QED
    BY <1>1, <1>2 DEF ComesDisk
<1> QED
  BY <1>3, <1>4, <1>5

\* A server writes no file but its own.
LEMMA DiskHandle ==
    ASSUME BaseInv, NEW w \in Workers, NEW s \in Servers, HandleDone(w, s) \/ HandleRefused(w, s)
    PROVE  /\ disk' = disk \/ Op(w) = "SparseSave"
           /\ disk'.count = disk.count /\ disk'.meta = disk.meta /\ disk'.dmeta = disk.dmeta
           /\ disk'.data = disk.data /\ disk'.state = disk.state
           /\ DOMAIN disk.file \subseteq DOMAIN disk'.file
           /\ \A i \in DOMAIN disk'.file : \/ i \in DOMAIN disk.file /\ disk'.file[i] = disk.file[i]
                                           \/ i = s /\ disk'.file[i].entries = sparse[s]
<1>1. DOMAIN disk = {"count", "meta", "dmeta", "data", "state", "file"}
  BY DEF BaseInv, CheckpointInv, ShapeInv
<1>2. \/ disk' = disk
      \/ /\ Op(w) = "SparseSave"
         /\ disk' = [disk EXCEPT !.file = Written(@, s, [text |-> TextMode, entries |-> sparse[s]])]
  BY DEF HandleDone, HandleRefused, FileStep, disk_vars
<1>3. CASE disk' = disk
  BY <1>3
<1>4. CASE /\ Op(w) = "SparseSave"
           /\ disk' = [disk EXCEPT !.file = Written(@, s, [text |-> TextMode, entries |-> sparse[s]])]
  <2>1. /\ disk'.file = Written(disk.file, s, [text |-> TextMode, entries |-> sparse[s]])
        /\ disk'.count = disk.count /\ disk'.meta = disk.meta /\ disk'.dmeta = disk.dmeta
        /\ disk'.data = disk.data /\ disk'.state = disk.state
    BY <1>1, <1>4
  <2> QED
    BY <1>4, <2>1 DEF Written
<1> QED
  BY <1>2, <1>3, <1>4

\* The meta files of a checkpoint are written from answers of the servers.
LEMMA MetaNext == BaseInv /\ MetaInv /\ [Next]_vars => MetaInv'
<1> SUFFICES ASSUME BaseInv, MetaInv, [Next]_vars PROVE MetaInv'
  OBVIOUS
<1>0. WaitInv /\ ShapeInv /\ FormInv /\ 0 \in Workers
  BY ZeroIsWorker DEF BaseInv, CheckpointInv, OrderInv
<1>1. CASE NewJob
  <2>1. /\ Op(0)' = "barrier" /\ disk' = disk /\ (job'.loads => disk.count # None)
    BY <1>0, <1>1, StartFacts
  <2> QED
    BY <2>1 DEF MetaInv, Ans
<1>2. CASE Barrier
  <2>1. UNCHANGED <<job, disk>> /\ Op(0) \in Barriers /\ MovesOn(0)
    BY <1>0, <1>2, PassFacts
  <2>2. Op(0)' # "DensePushMeta" /\ ~sent'[0]
    BY <1>0, <1>2, <2>1, PassFacts, NoneApart DEF MovesOn, Edge, Barriers
  <2> QED
    BY <2>1, <2>2 DEF MetaInv, Ans
<1>3. CASE Over \/ UNCHANGED vars
  <2>1. UNCHANGED <<job, prog, sent, todo, raised, got, disk>>
    BY <1>3 DEF Over, vars, worker_vars, disk_vars
  <2>2. Op(0)' = Op(0) /\ Servers' = Servers
    BY <2>1, Stays DEF Servers
  <2> QED
    BY <2>1, <2>2 DEF MetaInv, Ans
<1>4. ASSUME NEW w \in Workers, WorkerStep(w) PROVE MetaInv'
  <2>1. CASE Fails(w)
    <3>1. KeepsPlace /\ UNCHANGED <<sent, todo, raised, got, disk>>
      BY <2>1, FailFacts
    <3> QED
      BY <1>0, <3>1 DEF MetaInv, Ans, KeepsPlace, Servers
  <2>2. CASE Asks(w)
    <3>1. KeepsPlace /\ Others(w) /\ todo'[w] = Servers
      BY <2>2, AskFacts
    <3>2. UNCHANGED <<got, raised, disk>>
      BY <2>2 DEF Asks, disk_vars
    <3>3. Op(0)' = Op(0) /\ job' = job /\ Servers' = Servers
      BY <1>0, <3>1 DEF KeepsPlace, Servers
    <3>4. \A s \in Servers : Ans(0, "SparsePullMeta", s)' => Ans(0, "SparsePullMeta", s)
      <4>1. CASE w = 0
        BY <3>1, <4>1 DEF Ans
      <4>2. CASE w # 0
        BY <1>0, <3>1, <3>3, <4>2 DEF Ans, Others
      <4> QED
        BY <4>1, <4>2
    <3> QED
      BY <3>2, <3>3, <3>4 DEF MetaInv
  <2>3. CASE GoesOn(w)
    <3>1. job' = job /\ MovesOn(w) /\ Others(w)
      BY <2>3, GoFacts
    <3>2. UNCHANGED <<sent, todo, got, raised, disk>> /\ ~sent[w] /\ (Op(w) = "DenseReadMeta" => disk.dmeta # None)
      BY <2>3 DEF GoesOn, disk_vars
    <3>3. Servers' = Servers
      BY <3>1 DEF Servers
    <3>4. CASE w = 0
      <4>1. Op(0)' = "DensePushMeta" => Op(0) = "DenseReadMeta"
        BY <3>1, <3>4, NoneApart DEF MovesOn, Edge
      <4> QED
        BY <3>1, <3>2, <3>3, <3>4, <4>1 DEF MetaInv, Ans
    <3>5. CASE w # 0
      BY <1>0, <3>1, <3>2, <3>3, <3>5 DEF MetaInv, Ans, Others
    <3> QED
      BY <3>4, <3>5
  <2>4. CASE ComesBack(w)
    <3>1. /\ job' = job /\ Others(w) /\ (Op(w) = "Import" => Op(w)' = "Import") /\ (Op(w) # "Import" => MovesOn(w))
          /\ ~sent'[w] /\ todo' = todo /\ prog[w] # <<>>
      BY <2>4, ComeFacts
    <3>2. Servers' = Servers
      BY <3>1 DEF Servers
    <3>3. /\ disk' # disk => w = 0 /\ Op(0) \in SaveOps /\ Now = 5
          /\ disk'.count = IF Op(w) = "SparsePullMeta" THEN job.n ELSE disk.count
          /\ disk'.meta = IF Op(w) = "SparsePullMeta" THEN got[w][0] ELSE disk.meta
          /\ disk'.dmeta = IF Op(w) = "DensePullMeta" THEN got[w][0] ELSE disk.dmeta
      BY <2>4, DiskComes
    <3>4. raised' = raised /\ ~raised[w] /\ sent[w] /\ todo[w] = {}
      BY <2>4 DEF ComesBack
    <3>5. job.n \in ServerCounts /\ 0 \in Servers /\ job.n # None
      <4>1. job.n \in ServerCounts
        BY <1>0, <3>1 DEF ShapeInv
      <4>2. job.n \in Nat /\ job.n # 0
        BY <4>1, TrainerAssumption
      <4>3. 0 \in 0..(job.n - 1) /\ job.n # None
        BY <4>2, NoneAssumption
      <4> QED
        BY <4>1, <4>3 DEF Servers
    <3>6. Op(w) = "SparsePullMeta" => w = 0 /\ got[w][0] # None
      <4>1. ASSUME Op(w) = "SparsePullMeta" PROVE w = 0
        BY <3>1, <4>1, NoneApart DEF MovesOn, Edge
      <4> QED
        BY <3>4, <3>5, <4>1 DEF MetaInv, Ans
    <3>7. (disk'.count # None => disk'.count \in ServerCounts /\ disk'.meta # None) /\ (job'.loads => disk'.count # None)
      BY <3>1, <3>3, <3>5, <3>6 DEF MetaInv
    <3>8. \A s \in Servers : Ans(0, "SparsePullMeta", s)' /\ ~raised'[0] => got'[0][s] # None
      <4>1. CASE w = 0
        BY <3>1, <4>1 DEF Ans
      <4>2. CASE w # 0
        BY <1>0, <3>1, <3>4, <4>2 DEF Ans, Others, MetaInv
      <4> QED
        BY <4>1, <4>2
    <3>9. Op(0)' = "DensePushMeta" => disk'.dmeta # None
      <4>1. CASE w = 0
        <5>1. Op(0)' = "DensePushMeta" => Op(0) = "DenseReadMeta"
          BY <3>1, <4>1, NoneApart DEF MovesOn, Edge
        <5>2. Op(0) # "DenseReadMeta"
          BY <2>4, <4>1 DEF ComesBack
        <5> QED
          BY <5>1, <5>2
      <4>2. CASE w # 0
        BY <1>0, <3>1, <3>3, <4>2 DEF Others, MetaInv
      <4> QED
        BY <4>1, <4>2
    <3> QED
      BY <3>2, <3>7, <3>8, <3>9 DEF MetaInv
  <2> QED
    BY <1>0, <1>4, <2>1, <2>2, <2>3, <2>4, WorkerCases
<1>5. ASSUME NEW w \in Workers, NEW s \in Servers, Handle(w, s) PROVE MetaInv'
  <2>1. HandleFrame(w, s) /\ (HandleDone(w, s) \/ HandleRefused(w, s))
    BY <1>0, <1>5, HandleCases
  <2>2. /\ KeepsPlace /\ sent' = sent
        /\ todo'[w] = todo[w] \ {s} /\ \A v \in Workers : v # w => todo'[v] = todo[v]
    BY <2>1, HandleFacts
  <2>3. disk'.count = disk.count /\ disk'.meta = disk.meta /\ disk'.dmeta = disk.dmeta
    BY <2>1, DiskHandle
  <2>4. Op(0)' = Op(0) /\ job' = job /\ Servers' = Servers
    BY <1>0, <2>2 DEF KeepsPlace, Servers
  <2>5. ASSUME NEW t \in Servers, Ans(0, "SparsePullMeta", t)', ~raised'[0] PROVE got'[0][t] # None
    <3>1. Op(0) = "SparsePullMeta" /\ sent[0] /\ t \notin todo'[0]
      BY <2>2, <2>4, <2>5 DEF Ans
    <3>2. CASE w = 0 /\ t = s
      <4>1. raised' # [raised EXCEPT ![w] = TRUE]
        BY <1>0, <2>5, <3>2 DEF FormInv
      <4>2. HandleDone(w, s)
        BY <2>1, <4>1 DEF HandleRefused
      <4> QED
        BY <3>1, <3>2, <4>2 DEF HandleDone, AnswerStep
    <3>3. CASE w # 0 \/ t # s
      <4>1. got'[0][t] = got[0][t]
        BY <1>0, <2>1, <3>3 DEF HandleFrame
      <4>2. t \notin todo[0]
        BY <1>0, <2>2, <3>1, <3>3
      <4>3. ~raised[0]
        BY <1>0, <2>1, <2>5 DEF HandleDone, HandleRefused, FormInv
      <4> QED
        BY <3>1, <4>1, <4>2, <4>3 DEF MetaInv, Ans
    <3> QED
      BY <3>2, <3>3
  <2> QED
    BY <2>3, <2>4, <2>5 DEF MetaInv
<1> QED
  BY <1>1, <1>2, <1>3, <1>4, <1>5 DEF Next

-----------------------------------------------------------------------------
(***************************************************************************)
(* What the commands of a partition make of a map is a map.                *)
(***************************************************************************)
LEMMA MapEmpty == IsMap(EmptyMap) /\ DOMAIN EmptyMap = {}
BY DEF IsMap, EmptyMap

\* New keys,
LEMMA MapInit ==
    ASSUME NEW m, IsMap(m), NEW ks \in SUBSET Nat
    PROVE  IsMap(FindOrInit(m, ks))
<1>1. DOMAIN FindOrInit(m, ks) = DOMAIN m \cup ks
  BY DEF FindOrInit
<1>2. Fresh \in [v : Nat, age : 0..MaxAge]
  BY TrainerAssumption DEF Fresh
<1>3. \A k \in DOMAIN m \cup ks : FindOrInit(m, ks)[k] = IF k \in DOMAIN m THEN m[k] ELSE Fresh
  BY DEF FindOrInit
<1> QED
  BY <1>1, <1>2, <1>3 DEF IsMap

\* gradients,
LEMMA MapPush ==
    ASSUME NEW m, IsMap(m), NEW ks \in SUBSET Nat
    PROVE  IsMap(HandlePush(m, ks))
<1>1. IsMap(FindOrInit(m, ks))
  BY MapInit
<1>2. PICK f : f = FindOrInit(m, ks)
  OBVIOUS
<1>3. HandlePush(m, ks) = [k \in DOMAIN f |-> IF k \in ks THEN [v |-> f[k].v + 1, age |-> 0] ELSE f[k]]
  BY <1>2 DEF HandlePush
<1>4. \A k \in DOMAIN f : f[k] \in [v : Nat, age : 0..MaxAge]
  BY <1>1, <1>2 DEF IsMap
<1>5. \A k \in DOMAIN f : [v |-> f[k].v + 1, age |-> 0] \in [v : Nat, age : 0..MaxAge]
  BY <1>4, TrainerAssumption
<1>6. DOMAIN f \subseteq Nat
  BY <1>1, <1>2 DEF IsMap
<1> QED
  BY <1>3, <1>4, <1>5, <1>6 DEF IsMap

\* the entries of a file,
LEMMA MapPushPartition ==
    ASSUME NEW m, IsMap(m), NEW e, IsMap(e)
    PROVE  IsMap(HandlePushPartition(m, e))
<1>1. DOMAIN HandlePushPartition(m, e) = DOMAIN m \cup DOMAIN e
  BY DEF HandlePushPartition
<1>2. \A k \in DOMAIN m \cup DOMAIN e :
          HandlePushPartition(m, e)[k] = IF k \in DOMAIN e THEN e[k] ELSE m[k]
  BY DEF HandlePushPartition
<1> QED
  BY <1>1, <1>2 DEF IsMap

\* a selection of the keys,
LEMMA MapKeep ==
    ASSUME NEW m, IsMap(m), NEW ks \in SUBSET DOMAIN m
    PROVE  IsMap(Keep(m, ks))
<1>1. DOMAIN Keep(m, ks) = ks /\ \A k \in ks : Keep(m, ks)[k] = m[k]
  BY DEF Keep
<1> QED
  BY <1>1 DEF IsMap

\* prune_small,
LEMMA MapSmall ==
    ASSUME NEW m, IsMap(m)
    PROVE  IsMap(PruneSmall(m))
<1>1. PICK ks \in SUBSET DOMAIN m : ks = {k \in DOMAIN m : m[k].v # 0}
  OBVIOUS
<1>2. PruneSmall(m) = Keep(m, ks)
  BY <1>1 DEF PruneSmall
<1> QED
  BY <1>2, MapKeep

\* The vectors that are left by prune_old, a job older.
LEMMA OldValue ==
    ASSUME NEW m, IsMap(m)
    PROVE  /\ DOMAIN PruneOld(m, MaxAge) = {k \in DOMAIN m : m[k].age + 1 <= MaxAge}
           /\ \A k \in DOMAIN PruneOld(m, MaxAge) :
                 PruneOld(m, MaxAge)[k] = [v |-> m[k].v, age |-> m[k].age + 1]
<1> DEFINE older == [k \in DOMAIN m |-> [m[k] EXCEPT !.age = @ + 1]]
<1>1. ASSUME NEW k \in DOMAIN m PROVE older[k] = [v |-> m[k].v, age |-> m[k].age + 1]
  <2>1. m[k] \in [v : Nat, age : 0..MaxAge]
    BY DEF IsMap
  <2> QED
    BY <2>1
<1> HIDE DEF older
<1>2. DOMAIN older = DOMAIN m
  BY DEF older
<1>3. PruneOld(m, MaxAge) = Keep(older, {k \in DOMAIN m : older[k].age <= MaxAge})
  BY DEF PruneOld, older
<1>4. {k \in DOMAIN m : older[k].age <= MaxAge} = {k \in DOMAIN m : m[k].age + 1 <= MaxAge}
  <2>1. ASSUME NEW k \in DOMAIN m PROVE older[k].age = m[k].age + 1
    <3>1. older[k] = [v |-> m[k].v, age |-> m[k].age + 1]
      BY <1>1
    <3> HIDE <1>1
    <3> QED
      BY <3>1
  <2> QED
    BY <2>1
<1> QED
  BY <1>1, <1>2, <1>3, <1>4 DEF Keep

\* prune_old: no vector is older than max_sparse_feature_age;
LEMMA MapOld ==
    ASSUME NEW m, IsMap(m)
    PROVE  IsMap(PruneOld(m, MaxAge))
<1>1. \A k \in DOMAIN m : m[k].v \in Nat /\ m[k].age \in 0..MaxAge
  BY DEF IsMap
<1>2. ASSUME NEW k \in DOMAIN PruneOld(m, MaxAge)
      PROVE  k \in DOMAIN m /\ PruneOld(m, MaxAge)[k] \in [v : Nat, age : 0..MaxAge]
  <2>1. k \in DOMAIN m /\ m[k].age + 1 <= MaxAge
    BY OldValue
  <2>2. m[k].v \in Nat /\ m[k].age + 1 \in 0..MaxAge
    BY <1>1, <2>1, TrainerAssumption
  <2>3. [v |-> m[k].v, age |-> m[k].age + 1] \in [v : Nat, age : 0..MaxAge]
    BY <2>2
  <2>4. PruneOld(m, MaxAge)[k] = [v |-> m[k].v, age |-> m[k].age + 1]
    BY OldValue
  <2> QED
    BY <2>1, <2>3, <2>4
<1> QED
  BY <1>2 DEF IsMap

\* a file,
LEMMA MapLoad ==
    ASSUME NEW m, IsMap(m), NEW f, IsMap(f.entries)
    PROVE  IsMap(LoadFile(m, f))
BY MapPushPartition DEF LoadFile

\* and the union of the partitions.
LEMMA MapUnion ==
    ASSUME NEW maps, \A s \in DOMAIN maps : IsMap(maps[s])
    PROVE  IsMap(Union(maps))
<1> DEFINE ks == UNION {DOMAIN maps[s] : s \in DOMAIN maps}
           at(k) == CHOOSE t \in DOMAIN maps : k \in DOMAIN maps[t]
<1>1. Union(maps) = [k \in ks |-> maps[at(k)][k]]
  BY DEF Union
<1>2. ASSUME NEW k \in ks PROVE at(k) \in DOMAIN maps /\ k \in DOMAIN maps[at(k)]
  <2>1. \E t \in DOMAIN maps : k \in DOMAIN maps[t]
    OBVIOUS
  <2> QED
    BY <2>1
<1>3. ks \subseteq Nat
  BY DEF IsMap
<1> HIDE DEF ks, at
<1>4. DOMAIN Union(maps) = ks /\ \A k \in ks : Union(maps)[k] = maps[at(k)][k]
  BY <1>1
<1> QED
  BY <1>2, <1>3, <1>4 DEF IsMap

\* What worker w pushes to server s of the file it imports.
LEMMA MapImport ==
    ASSUME NEW m, IsMap(m), NEW s
    PROVE  IsMap(Keep(m, SentTo(DOMAIN m, s)))
<1>1. SentTo(DOMAIN m, s) \in SUBSET DOMAIN m
  BY DEF SentTo
<1> QED
  BY <1>1, MapKeep

\* Every hash map, in memory or in a file, is one.
LEMMA MapsNext == BaseInv /\ KeysInv /\ MapsInv /\ [Next]_vars => MapsInv'
<1> SUFFICES ASSUME BaseInv, KeysInv, MapsInv, [Next]_vars PROVE MapsInv'
  OBVIOUS
<1>0. WaitInv /\ ShapeInv /\ FormInv /\ DOMAIN sparse = Servers
  BY DEF BaseInv, CheckpointInv, OrderInv, ShapeInv
<1>1. CASE NewJob
  <2>1. /\ UNCHANGED <<disk, saved>> /\ table' = EmptyMap /\ sparse' = [s \in Servers' |-> EmptyMap]
        /\ \A w \in Workers : ~sent'[w]
    BY <1>1, StartFacts
  <2> QED
    BY <2>1, MapEmpty DEF MapsInv
<1>2. CASE Barrier
  <2>1. UNCHANGED <<job, sparse, table, saved, disk, file>> /\ \A w \in Workers : ~sent'[w]
    BY <1>2, PassFacts
  <2> QED
    BY <2>1 DEF MapsInv, Servers
<1>3. CASE Over \/ UNCHANGED vars
  <2>1. UNCHANGED <<job, prog, sparse, table, saved, disk, file, sent>>
    BY <1>3 DEF Over, vars, worker_vars, server_vars, disk_vars, ghost_vars
  <2> QED
    BY <2>1, Stays DEF MapsInv, Servers
<1>4. ASSUME NEW w \in Workers, WorkerStep(w) PROVE MapsInv'
  <2>0. job' = job /\ sparse' = sparse /\ Servers' = Servers
    BY <1>4, WorkerDataStep DEF WorkerData, Servers
  <2>1. CASE Fails(w)
    BY <2>0, <2>1, FailFacts DEF KeepsPlace, MapsInv
  <2>2. CASE Asks(w)
    <3>1. KeepsPlace /\ Others(w)
      BY <2>2, AskFacts
    <3>2. UNCHANGED <<saved, disk, file>> /\ (Op(w) = "Import" => file[w] \in DOMAIN disk.file)
      BY <2>2 DEF Asks, disk_vars
    <3>3. SendsKeys(w) /\ SendsTable(w)
      BY <2>2 DEF Asks
    <3>4. IsMap(table)
      BY DEF MapsInv
    <3>5. IsMap(table')
      <4>1. CASE Op(w) = "SparsePull"
        <5>1. PICK ks \in Minibatches[w] : table' = FindOrInit(table, ks \ {PaddingKey})
          BY <3>3, <4>1 DEF SendsKeys
        <5>2. ks \ {PaddingKey} \in SUBSET Nat
          BY TrainerAssumption DEF Workers
        <5> QED
          BY <3>4, <5>1, <5>2, MapInit
      <4>2. CASE Op(w) = "SparsePush"
        <5>1. keys[w] \in SUBSET Nat /\ table' = HandlePush(table, keys[w])
          BY <3>3, <4>2 DEF SendsTable, KeysInv
        <5> QED
          BY <3>4, <5>1, MapPush
      <4>3. CASE Op(w) = "SparseClear"
        BY <3>3, <4>3, MapEmpty DEF SendsTable
      <4>4. CASE Op(w) = "SparsePruneOld"
        BY <3>3, <3>4, <4>4, MapOld DEF SendsTable
      <4>5. CASE Op(w) = "SparsePruneSmall"
        BY <3>3, <3>4, <4>5, MapSmall DEF SendsTable
      <4>6. CASE Op(w) \notin {"SparsePull", "SparsePush", "SparseClear", "SparsePruneOld", "SparsePruneSmall"}
        BY <3>3, <3>4, <4>6 DEF SendsTable
      <4> QED
        BY <4>1, <4>2, <4>3, <4>4, <4>5, <4>6
    <3> QED
      BY <2>0, <3>1, <3>2, <3>5 DEF MapsInv, KeepsPlace, Others
  <2>3. CASE GoesOn(w)
    <3>1. Others(w)
      BY <2>3, GoFacts
    <3>2. UNCHANGED <<saved, disk, file, sent>> /\ ~sent[w] /\ table' \in {table, saved.table}
      BY <2>3 DEF GoesOn, disk_vars
    <3> QED
      BY <2>0, <3>1, <3>2 DEF MapsInv, Others
  <2>4. CASE ComesBack(w)
    <3>1. Others(w) /\ ~sent'[w]
      BY <2>4, ComeFacts
    <3>2. disk'.file = disk.file /\ (saved' = saved \/ saved' = Held)
      BY <2>4, DiskComes
    <3>3. table' = table
      BY <2>4 DEF ComesBack
    <3>4. IsMap(Held.table)
      <4>1. Held.table = Union(sparse)
        BY DEF Held
      <4>2. \A s \in DOMAIN sparse : IsMap(sparse[s])
        BY <1>0 DEF MapsInv
      <4> QED
        BY <4>1, <4>2, MapUnion
    <3>5. IsMap(saved'.table)
      BY <3>2, <3>4 DEF MapsInv
    <3> QED
      BY <2>0, <3>1, <3>2, <3>3, <3>5 DEF MapsInv, Others
  <2> QED
    BY <1>0, <1>4, <2>1, <2>2, <2>3, <2>4, WorkerCases
<1>5. ASSUME NEW w \in Workers, NEW s \in Servers, Handle(w, s) PROVE MapsInv'
  <2>1. HandleFrame(w, s) /\ (HandleDone(w, s) \/ HandleRefused(w, s))
    BY <1>0, <1>5, HandleCases
  <2>2. /\ KeepsPlace /\ sent' = sent /\ sent[w]
    BY <2>1, HandleFacts
  <2>3. UNCHANGED <<file, table, saved>>
    BY <2>1 DEF HandleFrame, ghost_vars
  <2>4. Servers' = Servers
    BY <2>2 DEF KeepsPlace, Servers
  <2>5. /\ DOMAIN disk.file \subseteq DOMAIN disk'.file
        /\ \A i \in DOMAIN disk'.file : \/ i \in DOMAIN disk.file /\ disk'.file[i] = disk.file[i]
                                        \/ i = s /\ disk'.file[i].entries = sparse[s]
    BY <2>1, DiskHandle
  <2>6. \A i \in DOMAIN disk'.file : IsMap(disk'.file[i].entries)
    BY <2>5 DEF MapsInv
  <2>7. \A t \in Servers : IsMap(sparse'[t])
    <3>1. CASE HandleRefused(w, s)
      BY <3>1 DEF HandleRefused, server_vars, MapsInv
    <3>2. CASE HandleDone(w, s)
      <4>1. SparseStep(w, s)
        BY <3>2 DEF HandleDone
      <4>2. IsMap(sparse[s])
        BY DEF MapsInv
      <4>3. IsMap(sparse'[s])
        <5>1. CASE Op(w) \in {"SparseInit", "SparseClear"}
          BY <4>1, <4>2, <5>1, MapEmpty DEF SparseStep
        <5>2. CASE Op(w) = "SparsePush"
          <6>1. SentTo(keys[w], s) \in SUBSET Nat
            BY <5>2 DEF KeysInv, SentTo
          <6> QED
            BY <4>1, <4>2, <5>2, <6>1, MapPush DEF SparseStep
        <5>3. CASE Op(w) = "SparsePull"
          <6>1. SentTo(keys[w], s) \ {PaddingKey} \in SUBSET Nat
            BY <2>2, <5>3 DEF KeysInv, SentTo
          <6> QED
            BY <4>1, <4>2, <5>3, <6>1, MapInit DEF SparseStep
        <5>4. CASE Op(w) = "Import"
          <6>1. PICK e : e = disk.file[file[w]].entries
            OBVIOUS
          <6>2. IsMap(e)
            BY <2>2, <5>4, <6>1 DEF MapsInv
          <6>3. sparse'[s] = HandlePushPartition(sparse[s], Keep(e, SentTo(DOMAIN e, s)))
            BY <4>1, <5>4, <6>1 DEF SparseStep
          <6> QED
            BY <4>2, <6>2, <6>3, MapImport, MapPushPartition
        <5>5. CASE Op(w) = "SparseLoad"
          BY <4>1, <4>2, <5>5, MapLoad DEF SparseStep, MapsInv
        <5>6. CASE Op(w) = "SparsePruneOld"
          BY <4>1, <4>2, <5>6, MapOld DEF SparseStep
        <5>7. CASE Op(w) = "SparsePruneSmall"
          BY <4>1, <4>2, <5>7, MapSmall DEF SparseStep
        <5>8. CASE Op(w) \notin {"SparseInit", "SparseClear", "SparsePush", "SparsePull", "Import", "SparseLoad",
                                 "SparsePruneOld", "SparsePruneSmall"}
          BY <4>1, <4>2, <5>8 DEF SparseStep
        <5> QED
          BY <5>1, <5>2, <5>3, <5>4, <5>5, <5>6, <5>7, <5>8
      <4> QED
        BY <4>1, <4>3 DEF SparseStep, MapsInv
    <3> QED
      BY <2>1, <3>1, <3>2
  <2> QED
    BY <2>2, <2>3, <2>4, <2>5, <2>6, <2>7 DEF MapsInv, KeepsPlace
<1> QED
  BY <1>1, <1>2, <1>3, <1>4, <1>5 DEF Next

\* The rows of a tensor have their owners.
LEMMA OwnerHasRow ==
    ASSUME ShapeInv, job.n \in ServerCounts
    PROVE  /\ \A r \in AllRows : OwnerOf(r) \in Servers /\ r \in RowsOf(OwnerOf(r))
           /\ \A r \in AllRows : \A s \in Servers : r \in RowsOf(s) => s = OwnerOf(r)
           /\ \A s \in Servers : RowsOf(s) \subseteq AllRows
<1>2. /\ job.n \in Nat \ {0} /\ DenseRows \in Nat /\ NameHash \in Nat
      /\ Modulus \in Nat \ {0} /\ NameHash + job.n <= Modulus
  <2>1. /\ job.n \in Nat /\ job.n # 0 /\ DenseRows \in Nat /\ NameHash \in Nat
        /\ Modulus \in Nat /\ NameHash + job.n <= Modulus
    BY TrainerAssumption
  <2> QED
    BY <2>1
<1>3. Tiles(NameHash, DenseRows, job.n, Modulus) /\ WithinTensor(NameHash, DenseRows, job.n, Modulus)
  BY <1>2, DenseTiles, DenseWithinTensor DEF Unwrapped
<1>4. ASSUME NEW r \in AllRows
      PROVE  \E s \in Servers : r \in RowsOf(s) /\ \A t \in Servers : r \in RowsOf(t) => t = s
  BY <1>3 DEF Tiles, Servers, RowsOf, AllRows
<1>5. ASSUME NEW r \in AllRows PROVE OwnerOf(r) \in Servers /\ r \in RowsOf(OwnerOf(r))
  BY <1>4 DEF OwnerOf
<1>6. ASSUME NEW r \in AllRows, NEW s \in Servers, r \in RowsOf(s) PROVE s = OwnerOf(r)
  BY <1>4, <1>5, <1>6
<1>7. \A s \in Servers : RowsOf(s) \subseteq AllRows
  BY <1>3 DEF WithinTensor, Servers, RowsOf, AllRows
<1> QED
  BY <1>5, <1>6, <1>7

\* What a worker puts together from the slices is a tensor.
LEMMA AssembledType ==
    ASSUME ShapeInv, job.n \in ServerCounts, NEW w \in Workers, \A s \in Servers : got[w][s] \in SliceRows(s)
    PROVE  Assembled(w) \in Tensors
<1>1. ASSUME NEW r \in AllRows PROVE got[w][OwnerOf(r)][r] \in Nat
  <2>1. OwnerOf(r) \in Servers /\ r \in RowsOf(OwnerOf(r))
    BY OwnerHasRow
  <2>2. got[w][OwnerOf(r)] \in [RowsOf(OwnerOf(r)) -> Nat]
    BY <2>1 DEF SliceRows
  <2> HIDE DEF OwnerOf, RowsOf
  <2> QED
    BY <2>1, <2>2
<1> HIDE DEF OwnerOf
<1> QED
  BY <1>1 DEF Assembled, Tensors

\* In a running job there are servers.
LEMMA HasServers ==
    ASSUME BaseInv, NEW w \in Workers, prog[w] # <<>>
    PROVE  job.n \in ServerCounts /\ job.n \in Nat \ {0} /\ 0 \in Servers
<1>1. job.n \in ServerCounts
  BY DEF BaseInv, CheckpointInv, ShapeInv
<1>2. job.n \in Nat \ {0}
  BY <1>1, TrainerAssumption
<1> QED
  BY <1>1, <1>2 DEF Servers

\* The slice of a dense tensor a server has after a command.
LEMMA RowsHandle ==
    ASSUME BaseInv, RowsInv, NEW w \in Workers, NEW s \in Servers, HandleFrame(w, s), HandleDone(w, s),
           dmeta'[s] # None
    PROVE  dense'[s] \in [data : SliceRows(s), state : SliceRows(s)]
<1>0. /\ sent[w] /\ RowsOf(s) \subseteq AllRows /\ model[w] \in Tensors
      /\ DenseStep(w, s) /\ MetaStep(w, s)
  <2>1. sent[w] /\ prog[w] # <<>>
    BY HandleFacts
  <2> QED
    BY <2>1, HasServers, OwnerHasRow DEF BaseInv, CheckpointInv, RowsInv, HandleDone
<1>d. dmeta[s] # None => dense[s] \in [data : SliceRows(s), state : SliceRows(s)]
  BY DEF RowsInv
<1>e. dmeta[s] # None => dense[s].data \in SliceRows(s) /\ dense[s].state \in SliceRows(s)
  BY <1>d
<1>f. ASSUME NEW t \in Tensors PROVE [r \in RowsOf(s) |-> t[r]] \in SliceRows(s)
  BY <1>0, <1>f DEF Tensors, SliceRows
<1>g. ASSUME NEW a \in SliceRows(s), NEW b \in SliceRows(s)
      PROVE  [data |-> a, state |-> b] \in [data : SliceRows(s), state : SliceRows(s)]
  OBVIOUS
<1>1. CASE Op(w) = "DenseInit"
  <2>1. [r \in RowsOf(s) |-> 0] \in SliceRows(s)
    BY DEF SliceRows
  <2> QED
    BY <1>0, <1>1, <1>d, <1>g, <2>1 DEF DenseStep
<1>2. CASE Op(w) = "DensePush"
  <2>1. dmeta[s] # None
    BY <1>0, <1>2 DEF MetaStep, DensePushes
  <2>2. dense[s].data \in [RowsOf(s) -> Nat] /\ dense[s].state \in [RowsOf(s) -> Nat]
    BY <1>e, <2>1 DEF SliceRows
  <2>3. /\ [r \in RowsOf(s) |-> dense[s].data[r] + 1] \in SliceRows(s)
        /\ [r \in RowsOf(s) |-> IF HasState THEN dense[s].state[r] + 1 ELSE dense[s].state[r]] \in SliceRows(s)
    BY <2>2 DEF SliceRows
  <2>4. dense'[s] = [data |-> [r \in RowsOf(s) |-> dense[s].data[r] + 1],
                     state |-> [r \in RowsOf(s) |-> IF HasState THEN dense[s].state[r] + 1
                                                    ELSE dense[s].state[r]]]
    BY <1>0, <1>2 DEF DenseStep
  <2> QED
    BY <1>g, <2>3, <2>4
<1>3. CASE Op(w) \in {"DensePushValue", "DenseLoadData", "DenseLoadState"}
  <2>1. dmeta[s] # None
    BY <1>0, <1>3 DEF MetaStep, DensePushes
  <2>2. CASE Op(w) = "DensePushValue"
    BY <1>0, <1>e, <1>f, <1>g, <2>1, <2>2 DEF DenseStep
  <2>3. CASE Op(w) = "DenseLoadData"
    <3>1. disk.data \in Tensors
      BY <1>0, <2>3 DEF RowsInv
    <3> QED
      BY <1>0, <1>e, <1>f, <1>g, <2>1, <2>3, <3>1 DEF DenseStep
  <2>4. CASE Op(w) = "DenseLoadState"
    <3>1. disk.state \in Tensors
      BY <1>0, <2>4 DEF RowsInv
    <3> QED
      BY <1>0, <1>e, <1>f, <1>g, <2>1, <2>4, <3>1 DEF DenseStep
  <2> QED
    BY <1>3, <2>2, <2>3, <2>4
<1>4. CASE Op(w) \notin DensePushes \cup {"DenseInit"}
  <2>1. dense'[s] = dense[s]
    BY <1>0, <1>4 DEF DenseStep
  <2>2. dmeta[s] # None
    BY <1>0, <1>4 DEF MetaStep
  <2> QED
    BY <1>d, <2>1, <2>2
<1> QED
  BY <1>1, <1>2, <1>3, <1>4 DEF DensePushes

\* Every slice of the dense tensor has the rows of its server.
LEMMA RowsNext == BaseInv /\ RowsInv /\ [Next]_vars => RowsInv'
<1> SUFFICES ASSUME BaseInv, RowsInv, [Next]_vars PROVE RowsInv'
  OBVIOUS
<1>0. WaitInv /\ ShapeInv /\ FormInv
  BY DEF BaseInv, CheckpointInv, OrderInv
<1>1. CASE NewJob
  <2>1. /\ disk' = disk /\ dmeta' = [s \in Servers' |-> None] /\ \A w \in Workers : ~sent'[w]
        /\ model' = [w \in Workers |-> [r \in AllRows |-> 10 * (w + 1)]]
    BY <1>1, StartFacts
  <2>2. ASSUME NEW w \in Workers PROVE model'[w] \in Tensors
    <3>1. 10 * (w + 1) \in Nat
      BY TrainerAssumption DEF Workers
    <3> QED
      BY <2>1, <3>1 DEF Tensors
  <2> QED
    BY <2>1, <2>2 DEF RowsInv
<1>2. CASE Barrier
  <2>1. /\ UNCHANGED <<job, model, disk, dense, dmeta>> /\ \A w \in Workers : ~sent'[w]
    BY <1>2, PassFacts
  <2>2. Servers' = Servers /\ \A s : SliceRows(s)' = SliceRows(s)
    BY <2>1 DEF Servers, SliceRows, RowsOf
  <2> QED
    BY <2>1, <2>2 DEF RowsInv
<1>3. CASE Over \/ UNCHANGED vars
  <2>1. UNCHANGED <<job, prog, sent, todo, raised, got, model, disk, dense, dmeta>>
    BY <1>3 DEF Over, vars, worker_vars, server_vars, disk_vars
  <2>2. Servers' = Servers /\ \A s : SliceRows(s)' = SliceRows(s)
    BY <2>1 DEF Servers, SliceRows, RowsOf
  <2> QED
    BY <2>1, <2>2, Stays DEF RowsInv
<1>4. ASSUME NEW w \in Workers, WorkerStep(w) PROVE RowsInv'
  <2>0. UNCHANGED <<job, raised, dense>>
    BY <1>4, WorkerDataStep DEF WorkerData
  <2>00. Servers' = Servers /\ \A s : SliceRows(s)' = SliceRows(s)
    BY <2>0 DEF Servers, SliceRows, RowsOf
  <2>1. CASE Fails(w)
    BY <2>00, <2>1, FailFacts DEF KeepsPlace, RowsInv
  <2>2. CASE Asks(w)
    <3>1. KeepsPlace /\ Others(w) /\ todo'[w] = Servers
      BY <2>2, AskFacts
    <3>2. /\ UNCHANGED <<disk, got, raised, model, dense, dmeta>>
          /\ Op(w) = "DenseLoadData" => disk.data # None
          /\ Op(w) = "DenseLoadState" => disk.state # None
      BY <2>2 DEF Asks, disk_vars, server_vars
    <3>3. \A v \in Workers : Op(v)' = Op(v)
      BY <3>1 DEF KeepsPlace
    <3>4. ASSUME NEW v \in Workers, v # w PROVE sent'[v] = sent[v] /\ todo'[v] = todo[v]
      BY <3>1, <3>4 DEF Others
    <3> QED
      BY <2>00, <3>1, <3>2, <3>3, <3>4 DEF RowsInv
  <2>3. CASE GoesOn(w)
    <3>1. Others(w)
      BY <2>3, GoFacts
    <3>2. /\ UNCHANGED <<sent, todo, disk, got, raised, model, dense, dmeta>> /\ ~sent[w]
      BY <2>3 DEF GoesOn, disk_vars, server_vars
    <3> QED
      BY <2>00, <3>1, <3>2 DEF RowsInv, Others
  <2>4. CASE ComesBack(w)
    <3>1. /\ Others(w) /\ ~sent'[w] /\ todo' = todo /\ prog[w] # <<>>
          /\ model'[w] = IF Op(w) = "DensePull" THEN Assembled(w) ELSE model[w]
      BY <2>4, ComeFacts
    <3>2. /\ disk'.data = IF Op(w) = "DenseSaveData" THEN Assembled(w) ELSE disk.data
          /\ disk'.state = IF Op(w) = "DenseSaveState" /\ HasState THEN Assembled(w) ELSE disk.state
      BY <2>4, DiskComes
    <3>3. UNCHANGED <<dense, dmeta, raised>> /\ sent[w] /\ ~raised[w] /\ todo[w] = {}
      BY <2>4 DEF ComesBack, server_vars
    <3>4. Op(w) \in DensePulls => Assembled(w) \in Tensors
      <4>1. ASSUME Op(w) \in DensePulls PROVE \A s \in Servers : got[w][s] \in SliceRows(s)
        BY <3>3, <4>1 DEF RowsInv
      <4> QED
        BY <1>0, <3>1, <4>1, HasServers, AssembledType
    <3>5. (Op(w) \in {"DensePull", "DenseSaveData", "DenseSaveState"}) => Op(w) \in DensePulls
      BY DEF DensePulls
    <3>6. /\ model'[w] \in Tensors
          /\ disk'.data = disk.data \/ disk'.data \in Tensors
          /\ disk'.state = disk.state \/ disk'.state \in Tensors
      <4> HIDE DEF Assembled
      <4> QED
        BY <3>1, <3>2, <3>4, <3>5 DEF RowsInv
    <3>7. /\ disk'.data # None => disk'.data \in Tensors
          /\ disk'.state # None => disk'.state \in Tensors
          /\ disk.data \in Tensors => disk'.data \in Tensors
          /\ disk.state \in Tensors => disk'.state \in Tensors
      BY <3>6 DEF RowsInv
    <3>8. \A v \in Workers : model'[v] \in Tensors
      BY <3>1, <3>6 DEF Others, RowsInv
    <3>9. ASSUME NEW v \in Workers
          PROVE  /\ Op(v)' = "DenseLoadData" /\ sent'[v] => disk'.data \in Tensors
                 /\ Op(v)' = "DenseLoadState" /\ sent'[v] => disk'.state \in Tensors
                 /\ Op(v)' \in DensePulls /\ sent'[v] /\ ~raised'[v] =>
                       \A s \in Servers \ todo'[v] : got'[v][s] \in SliceRows(s)
      <4>1. CASE v = w
        BY <3>1, <4>1
      <4>2. CASE v # w
        <5>1. Op(v)' = Op(v) /\ sent'[v] = sent[v] /\ raised'[v] = raised[v] /\ got'[v] = got[v] /\ todo'[v] = todo[v]
          BY <3>1, <4>2 DEF Others
        <5> QED
          BY <3>7, <5>1 DEF RowsInv
      <4> QED
        BY <4>1, <4>2
    <3>10. \A s \in Servers : dmeta'[s] # None => dense'[s] \in [data : SliceRows(s), state : SliceRows(s)]
      BY <3>3 DEF RowsInv
    <3> QED
      BY <2>00, <3>7, <3>8, <3>9, <3>10 DEF RowsInv, DensePulls
  <2> QED
    BY <1>0, <1>4, <2>1, <2>2, <2>3, <2>4, WorkerCases
<1>5. ASSUME NEW w \in Workers, NEW s \in Servers, Handle(w, s) PROVE RowsInv'
  <2>1. HandleFrame(w, s) /\ (HandleDone(w, s) \/ HandleRefused(w, s))
    BY <1>0, <1>5, HandleCases
  <2>2. /\ KeepsPlace /\ sent' = sent /\ sent[w] /\ todo'[w] = todo[w] \ {s}
        /\ \A v \in Workers : v # w => todo'[v] = todo[v]
    BY <2>1, HandleFacts
  <2>3. model' = model
    BY <2>1 DEF HandleFrame
  <2>4. Servers' = Servers /\ (\A t : SliceRows(t)' = SliceRows(t)) /\ \A v \in Workers : Op(v)' = Op(v)
    BY <2>2 DEF KeepsPlace, Servers, SliceRows, RowsOf
  <2>5. disk'.data = disk.data /\ disk'.state = disk.state
    BY <2>1, DiskHandle
  <2>6. ASSUME NEW t \in Servers, dmeta'[t] # None
        PROVE  dense'[t] \in [data : SliceRows(t), state : SliceRows(t)]
    <3>1. CASE HandleRefused(w, s)
      BY <2>6, <3>1 DEF HandleRefused, server_vars, RowsInv
    <3>2. CASE HandleDone(w, s) /\ t # s
      <4>1. dense'[t] = dense[t] /\ dmeta'[t] = dmeta[t]
        BY <3>2 DEF HandleDone, DenseStep, MetaStep
      <4> QED
        BY <2>6, <4>1 DEF RowsInv
    <3>3. CASE HandleDone(w, s) /\ t = s
      BY <2>1, <2>6, <3>3, RowsHandle
    <3> QED
      BY <2>1, <3>1, <3>2, <3>3
  <2>7. ASSUME NEW v \in Workers, Op(v)' \in DensePulls, sent'[v], ~raised'[v], NEW t \in Servers \ todo'[v]
        PROVE  got'[v][t] \in SliceRows(t)
    <3>1. Op(v) \in DensePulls /\ sent[v] /\ ~raised[v]
      <4>1. ~raised[v]
        BY <1>0, <2>1, <2>7 DEF HandleDone, HandleRefused, FormInv
      <4> QED
        BY <2>2, <2>4, <2>7, <4>1
    <3>2. CASE v = w /\ t = s
      <4>1. raised' # [raised EXCEPT ![w] = TRUE]
        BY <1>0, <2>7, <3>2 DEF FormInv
      <4>2. HandleDone(w, s)
        BY <2>1, <4>1 DEF HandleRefused
      <4>3. got'[v][t] \in {dense[s].data, dense[s].state} /\ dmeta[s] # None
        BY <3>1, <3>2, <4>2 DEF HandleDone, AnswerStep, MetaStep, DensePulls
      <4>4. dense[s] \in [data : SliceRows(s), state : SliceRows(s)]
        BY <4>3 DEF RowsInv
      <4> QED
        BY <3>2, <4>3, <4>4
    <3>3. CASE v # w \/ t # s
      <4>1. got'[v][t] = got[v][t]
        BY <2>1, <3>3 DEF HandleFrame
      <4>2. t \in Servers \ todo[v]
        BY <2>2, <2>7, <3>3
      <4> QED
        BY <3>1, <4>1, <4>2 DEF RowsInv
    <3> QED
      BY <3>2, <3>3
  <2> QED
    BY <2>2, <2>3, <2>4, <2>5, <2>6, <2>7 DEF RowsInv, DensePulls
<1> QED
  BY <1>1, <1>2, <1>3, <1>4, <1>5 DEF Next

\* The data have their types at the beginning
LEMMA DataInit == Init => DataInv
<1> SUFFICES ASSUME Init PROVE DataInv
  OBVIOUS
<1>0. Servers = {} /\ WorkerCount \in Nat \ {0} /\ \A w \in Workers : Op(w) = None
  BY TrainerAssumption DEF Init, Servers, Op
<1>1. KeysInv
  BY <1>0, NoneApart DEF KeysInv, Init
<1>2. MetaInv
  BY <1>0, NoneApart, ZeroIsWorker DEF MetaInv, Init
<1>3. FilesInv
  <2>1. ASSUME NEW w \in Workers PROVE w \in Nat /\ w % WorkerCount = w
    BY <1>0, NoWrap DEF Workers
  <2> QED
    BY <2>1 DEF Init, FilesInv
<1>4. MapsInv
  BY <1>0, MapEmpty, NoneApart DEF MapsInv, Init
<1>5. RowsInv
  BY <1>0, NoneApart DEF RowsInv, Init, DensePulls, Tensors
<1> QED
  BY <1>1, <1>2, <1>3, <1>4, <1>5 DEF DataInv

\* and keep them.
LEMMA DataNext == BaseInv /\ DataInv /\ [Next]_vars => DataInv'
BY KeysNext, MetaNext, FilesNext, MapsNext, RowsNext DEF DataInv

\* Type correctness follows.
LEMMA DataTypes == BaseInv /\ DataInv => TypeOK
<1> SUFFICES ASSUME BaseInv, DataInv PROVE TypeOK
  OBVIOUS
<1>0. WaitInv /\ ShapeInv /\ FormInv /\ ProgInv /\ MapsInv /\ RowsInv /\ FilesInv
  BY DEF BaseInv, CheckpointInv, OrderInv, DataInv
<1>1. ASSUME NEW w \in Workers
      PROVE  /\ todo[w] \subseteq Servers
             /\ todo[w] # {} => sent[w] /\ prog[w] # <<>> /\ ~failed[w]
             /\ Op(w) \in Barriers => ~sent[w]
             /\ DOMAIN got[w] = Servers
             /\ file[w] \in Nat /\ file[w] % WorkerCount = w
             /\ model[w] \in [AllRows -> Nat]
  <2>1. todo[w] \subseteq Servers /\ DOMAIN got[w] = Servers
    BY <1>0 DEF WaitInv, ShapeInv
  <2>2. todo[w] # {} => sent[w] /\ prog[w] # <<>> /\ ~failed[w]
    BY <1>0 DEF WaitInv, FormInv
  <2>3. Op(w) \in Barriers => prog[w] # <<>> /\ Head(prog[w]) \in Barriers
    BY NoneAssumption DEF Op, Operations
  <2>4. Op(w) \in Barriers => ~sent[w]
    BY <1>0, <2>3 DEF WaitInv
  <2> QED
    BY <1>0, <2>1, <2>2, <2>4 DEF FilesInv, RowsInv, Tensors
<1>2. ASSUME NEW s \in Servers, dmeta[s] # None PROVE DOMAIN dense[s].data = RowsOf(s)
  <2>1. dense[s] \in [data : SliceRows(s), state : SliceRows(s)]
    BY <1>0, <1>2 DEF RowsInv
  <2>2. dense[s].data \in SliceRows(s)
    BY <2>1
  <2> QED
    BY <2>2 DEF SliceRows
<1> QED
  BY <1>0, <1>1, <1>2 DEF TypeOK, MapsInv, FormInv, ShapeInv

\* The parts that are proved first: where the workers are, and the types.
SoundInv == BaseInv /\ DataInv

\* Type correctness: the requests a worker waits for are those of its present
\* operation, and the hash maps of the servers, of the files of a checkpoint and of
\* the tensor itself have vectors no older than max_sparse_feature_age
\* (SparseTensorPartition::PruneOld, SendRequest of the tensor clients).
THEOREM TrainerTypes == Spec => []TypeOK
<1>1. Init => SoundInv
  BY BaseInit, DataInit DEF SoundInv
<1>2. SoundInv /\ [Next]_vars => SoundInv'
  BY BaseNext, DataNext DEF SoundInv
<1>3. SoundInv => TypeOK
  BY DataTypes DEF SoundInv
<1> QED
  BY <1>1, <1>2, <1>3, PTL DEF Spec

-----------------------------------------------------------------------------
(***************************************************************************)
(* The dense tensor.  What the servers hold and the gradients on their way *)
(* to them make up the tensor; while worker 0 initializes or loads it, the *)
(* slices it has not reached are left out.                                 *)
(***************************************************************************)
DPush(s) == {w \in Workers : Out(w, "DensePush", s)}

DataAway(s) ==
    \/ Out(0, "DensePushValue", s)
    \/ Op(0) = "DensePushMeta"
    \/ Op(0) = "DenseLoadData" /\ (sent[0] => s \in todo[0])

StateAway(s) ==
    /\ HasState
    /\ \/ Op(0) \in {"DensePushMeta", "DenseLoadData"}
       \/ Op(0) = "DenseLoadState" /\ (sent[0] => s \in todo[0])

DataThere(s) ==
    ~DataAway(s) => \A r \in RowsOf(s) : vec.data[r] = dense[s].data[r] + Cardinality(DPush(s))
StateThere(s) ==
    ~StateAway(s) => \A r \in RowsOf(s) :
        vec.state[r] = dense[s].state[r] + (IF HasState THEN Cardinality(DPush(s)) ELSE 0)

Zeros == [r \in AllRows |-> 0]
IsVec(v) ==
    /\ v = [data |-> v.data, state |-> v.state] /\ v.data \in Tensors /\ v.state \in Tensors
    /\ ~HasState => v.state = Zeros

\* A job that loads has the checkpoint it was started with until it saves.
LoadInv ==
    job.loads /\ Now \in 9..16 => disk.count = job.old /\ (job.sound => intact /\ saved.sound)

DenseInv ==
    job.sound /\ Live =>
        /\ IsVec(vec)
        /\ Now \in 15..16 => vec.data = Zeros /\ vec.state = Zeros
        /\ Op(0) = "DensePushValue" /\ sent[0] => vec.data = model[0]
        /\ Op(0) \in {"DensePushMeta", "DenseLoadData", "DenseLoadState"} => vec = saved.vec
        /\ \A s \in Servers : dmeta[s] # None => DataThere(s) /\ StateThere(s)

\* The state is asked for of servers that have the tensor.
SavedDenseInv ==
    /\ \A s \in Servers : Ans(0, "DenseSaveState", s) /\ ~raised[0] => dmeta[s] # None
    /\ intact /\ saved.sound => IsVec(saved.vec)

\* The modules of the workers.
ModelInv ==
    job.sound /\ Live /\ Now \in {13, 9, 1} =>
        \A w \in Workers :
            /\ \A s \in Servers : Ans(w, "DensePull", s) =>
                  \A r \in RowsOf(s) : got[w][s][r] = vec.data[r]
            /\ Op(w) \in {"synced", "SparseExport"} => model[w] = vec.data

\* The stages of the operations, and who is at them.
LEMMA OpStage ==
    ASSUME BaseInv, NEW w \in Workers
    PROVE  /\ Op(w) \in {"SparseInit", "DenseInit"} => Now = 15
           /\ Op(w) = "DensePushValue" => Now = 14 /\ w = 0
           /\ Op(w) = "DensePull" => Now \in {13, 9, 8, 1}
           /\ Op(w) = "SparseClear" => Now = 11 /\ w = 0 /\ job.loads
           /\ Op(w) \in {"SparseReadMeta", "DenseReadMeta"} => Now = 10 /\ job.loads
           /\ Op(w) \in {"SparsePushMeta", "DensePushMeta", "DenseLoadData", "DenseLoadState"}
                 => Now = 10 /\ w = 0 /\ job.loads
           /\ Op(w) = "DenseLoadState" => HasState
           /\ Op(w) = "SparseLoad" => Now = 10 /\ w = 0 /\ job.loads /\ job.old = job.n
           /\ Op(w) = "Import" => Now = 10 /\ job.loads /\ job.old # job.n
           /\ Op(w) \in {"SparsePull", "SparsePush", "DensePush"} => Now = 8
           /\ Op(w) = "SparsePruneOld" => Now = 7 /\ w = 0
           /\ Op(w) \in SaveOps => Now = 5 /\ w = 0
           /\ Op(w) = "SparsePruneSmall" => Now = 3 /\ w = 0
           /\ Op(w) = "SparsePullReadOnly" => Now = 1
           /\ Op(w) = "SparseExport" => Now = 1 /\ w = 0
           /\ Op(w) = "synced" => Now \in {13, 9, 1}
           /\ Op(w) = "barrier" => Now \notin {13, 9, 1, 0}
<1>1. CASE prog[w] = <<>>
  <2>1. Op(w) = None
    BY <1>1, EmptyOp DEF BaseInv, CheckpointInv, OrderInv
  <2> QED
    BY <2>1, NoneApart DEF SaveOps
<1>2. CASE prog[w] # <<>>
  <2>1. Edge(w, job.n, job.loads, job.old, Op(w), Now, Then(w))
    BY <1>2, OpEdge DEF BaseInv, CheckpointInv, OrderInv
  <2>2. /\ Op(w) \in {"SparseInit", "DenseInit"} => Now = 15
        /\ Op(w) = "DensePushValue" => Now = 14 /\ w = 0
        /\ Op(w) = "DensePull" => Now \in {13, 9, 8, 1}
        /\ Op(w) = "SparseClear" => Now = 11 /\ w = 0 /\ job.loads
        /\ Op(w) \in {"SparseReadMeta", "DenseReadMeta"} => Now = 10 /\ job.loads
        /\ Op(w) \in {"SparsePushMeta", "DensePushMeta", "DenseLoadData", "DenseLoadState"}
              => Now = 10 /\ w = 0 /\ job.loads
        /\ Op(w) = "DenseLoadState" => HasState
    BY <2>1 DEF Edge
  <2>3. /\ Op(w) = "SparseLoad" => Now = 10 /\ w = 0 /\ job.loads /\ job.old = job.n
        /\ Op(w) = "Import" => Now = 10 /\ job.loads /\ job.old # job.n
        /\ Op(w) \in {"SparsePull", "SparsePush", "DensePush"} => Now = 8
        /\ Op(w) = "SparsePruneOld" => Now = 7 /\ w = 0
        /\ Op(w) \in SaveOps => Now = 5 /\ w = 0
    BY <2>1 DEF Edge, SaveOps
  <2>4. /\ Op(w) = "SparsePruneSmall" => Now = 3 /\ w = 0
        /\ Op(w) = "SparsePullReadOnly" => Now = 1
        /\ Op(w) = "SparseExport" => Now = 1 /\ w = 0
        /\ Op(w) = "synced" => Now \in {13, 9, 1}
        /\ Op(w) = "barrier" => Now \notin {13, 9, 1, 0}
    BY <2>1 DEF Edge
  <2> QED
    BY <2>2, <2>3, <2>4
<1> QED
  BY <1>1, <1>2

\* The requests that are outstanding.
LEMMA OutStays ==
    ASSUME BaseInv, NEW w \in Workers, GoesOn(w) \/ ComesBack(w), NEW v \in Workers, NEW op, NEW s
    PROVE  Out(v, op, s)' <=> Out(v, op, s)
<1>1. Others(w) /\ todo'[w] = todo[w] /\ todo[w] = {}
  BY GoFacts, ComeFacts DEF GoesOn
<1> QED
  BY <1>1 DEF Out, Others

\* The requests on their way when a worker asks,
LEMMA OutAsks ==
    ASSUME BaseInv, NEW w \in Workers, Asks(w), NEW v \in Workers, NEW op, NEW s \in Servers
    PROVE  Out(v, op, s)' <=> IF v = w THEN Op(w) = op ELSE Out(v, op, s)
<1>1. KeepsPlace /\ Others(w) /\ todo'[w] = Servers
  BY AskFacts
<1> QED
  BY <1>1 DEF Out, Others, KeepsPlace

\* and when a server answers.
LEMMA OutHandle ==
    ASSUME BaseInv, NEW w \in Workers, NEW s \in Servers, HandleFrame(w, s), NEW v \in Workers, NEW op, NEW t
    PROVE  Out(v, op, t)' <=> Out(v, op, t) /\ (v # w \/ t # s)
<1>1. /\ KeepsPlace /\ todo'[w] = todo[w] \ {s} /\ \A u \in Workers : u # w => todo'[u] = todo[u]
  BY HandleFacts
<1> QED
  BY <1>1 DEF Out, KeepsPlace

\* The gradients on their way to a server are counted.
LEMMA DPushFinite ==
    ASSUME NEW s
    PROVE  IsFiniteSet(DPush(s)) /\ Cardinality(DPush(s)) \in Nat
<1>1. IsFiniteSet(Workers)
  BY TrainerAssumption, FS_Interval DEF Workers
<1>2. DPush(s) \subseteq Workers
  BY DEF DPush
<1> QED
  BY <1>1, <1>2, FS_Subset, FS_CardinalityType

\* There are none unless the workers train.
LEMMA DPushNone ==
    ASSUME BaseInv, NEW s, Now # 8 \/ (\A w \in Workers : Op(w) # "DensePush" \/ todo[w] = {})
    PROVE  DPush(s) = {} /\ Cardinality(DPush(s)) = 0
<1>1. DPush(s) = {}
  BY OpStage DEF DPush, Out
<1> QED
  BY <1>1, FS_EmptySet

\* A job that loads has its checkpoint until it saves.
LEMMA LoadNext == BaseInv /\ LoadInv /\ [Next]_vars => LoadInv'
<1> SUFFICES ASSUME BaseInv, LoadInv, [Next]_vars PROVE LoadInv'
  OBVIOUS
<1>0. WaitInv /\ ShapeInv /\ FormInv
  BY DEF BaseInv, CheckpointInv, OrderInv
<1>1. CASE NewJob
  <2>1. /\ UNCHANGED <<disk, saved, intact>> /\ job'.old = disk.count
        /\ job'.loads => (job'.sound => intact /\ saved.sound)
    BY <1>1, StartFacts
  <2> QED
    BY <2>1 DEF LoadInv
<1>2. CASE Barrier
  <2>1. /\ UNCHANGED <<job, disk, saved, intact>> /\ Now \in 1..16
        /\ Now' = IF Now = 13 /\ ~job.loads THEN 8 ELSE Now - 1
    BY <1>2, PassFacts
  <2>2. Now' \in 9..16 => Now \in 9..16
    BY <2>1
  <2> QED
    BY <2>1, <2>2 DEF LoadInv
<1>3. CASE Over \/ UNCHANGED vars
  <2>1. UNCHANGED <<job, prog, disk, saved, intact>>
    BY <1>3 DEF Over, vars, worker_vars, disk_vars, ghost_vars
  <2> QED
    BY <2>1, Stays DEF LoadInv
<1>4. ASSUME job' = job, Now' = Now, Now # 5 => UNCHANGED <<disk, saved, intact>> PROVE LoadInv'
  BY <1>4 DEF LoadInv
<1>5. ASSUME NEW w \in Workers, WorkerStep(w) PROVE LoadInv'
  <2>1. CASE Fails(w)
    BY <1>4, <2>1, FailFacts DEF KeepsPlace
  <2>2. CASE Asks(w)
    BY <1>4, <2>2, AskFacts DEF KeepsPlace, Asks, disk_vars
  <2>3. CASE GoesOn(w)
    BY <1>4, <2>3, GoFacts DEF GoesOn, disk_vars
  <2>4. CASE ComesBack(w)
    BY <1>4, <2>4, ComeFacts, DiskComes
  <2> QED
    BY <1>0, <1>5, <2>1, <2>2, <2>3, <2>4, WorkerCases
<1>6. ASSUME NEW w \in Workers, NEW s \in Servers, Handle(w, s) PROVE LoadInv'
  <2>1. HandleFrame(w, s) /\ (HandleDone(w, s) \/ HandleRefused(w, s))
    BY <1>0, <1>6, HandleCases
  <2>2. disk' = disk \/ Op(w) = "SparseSave"
    BY <2>1, DiskHandle
  <2>3. UNCHANGED <<saved, intact>>
    BY <2>1 DEF HandleFrame, ghost_vars
  <2>4. Op(w) = "SparseSave" => Now = 5
    BY OpStage DEF SaveOps
  <2> QED
    BY <1>4, <2>1, <2>2, <2>3, <2>4, HandleFacts DEF KeepsPlace
<1> QED
  BY <1>1, <1>2, <1>3, <1>5, <1>6 DEF Next

\* A step that leaves the tensor where it is: the servers and the vector are as
\* before, and what is with server s then is already there now.
LEMMA ThereStays ==
    ASSUME job' = job, vec' = vec, NEW s, dense'[s] = dense[s],
           DPush(s)' = DPush(s), DataAway(s) => DataAway(s)', StateAway(s) => StateAway(s)',
           DataThere(s), StateThere(s)
    PROVE  DataThere(s)' /\ StateThere(s)'
<1>1. RowsOf(s)' = RowsOf(s)
  BY DEF RowsOf
<1> QED
  BY <1>1 DEF DataThere, StateThere

\* A worker asks: a gradient is in the tensor and on its way to every server.
LEMMA DenseAsks ==
    ASSUME BaseInv, DataInv, LoadInv, DenseInv, NEW w \in Workers, Asks(w)
    PROVE  DenseInv'
<1> SUFFICES ASSUME job'.sound, Live' PROVE DenseInv'
  BY DEF DenseInv
<1>0. /\ KeepsPlace /\ Others(w) /\ sent'[w] /\ todo'[w] = Servers /\ prog[w] # <<>> /\ 0 \in Workers
      /\ SendsVec(w) /\ UNCHANGED <<raised, model, dense, dmeta, saved>> /\ todo[w] = {}
  BY AskFacts, ZeroIsWorker DEF Asks, server_vars
<1>1. /\ job' = job /\ Now' = Now /\ Op(0)' = Op(0) /\ Servers' = Servers /\ Live /\ job.sound
      /\ \A s : RowsOf(s)' = RowsOf(s)
  BY <1>0 DEF KeepsPlace, Servers, Live, RowsOf
<1>2. /\ IsVec(vec) /\ (Now \in 15..16 => vec.data = Zeros /\ vec.state = Zeros)
      /\ Op(0) = "DensePushValue" /\ sent[0] => vec.data = model[0]
      /\ Op(0) \in {"DensePushMeta", "DenseLoadData", "DenseLoadState"} => vec = saved.vec
      /\ \A s \in Servers : dmeta[s] # None => DataThere(s) /\ StateThere(s)
  BY <1>1 DEF DenseInv
<1>3. ASSUME NEW s \in Servers
      PROVE  DPush(s)' = IF Op(w) = "DensePush" THEN DPush(s) \cup {w} ELSE DPush(s)
  BY OutAsks, <1>0 DEF DPush, Out
<1>4. ASSUME NEW s \in Servers PROVE (DataAway(s) => DataAway(s)') /\ (StateAway(s) => StateAway(s)')
  <2>1. CASE w = 0
    BY <1>0, <1>1, <2>1 DEF DataAway, StateAway, Out
  <2>2. CASE w # 0
    BY <1>0, <1>1, <2>2 DEF DataAway, StateAway, Out, Others
  <2> QED
    BY <2>1, <2>2
<1>5. CASE Op(w) = "DensePush"
  <2>1. Now = 8
    BY <1>5, OpStage
  <2>2. Op(0) \notin {"DensePushValue", "DensePushMeta", "DenseLoadData", "DenseLoadState"}
    BY <1>0, <2>1, OpStage
  <2>3. vec' = [data |-> [r \in AllRows |-> vec.data[r] + 1],
                state |-> [r \in AllRows |-> IF HasState THEN vec.state[r] + 1 ELSE 0]]
    BY <1>0, <1>5 DEF SendsVec
  <2>4. vec.data \in Tensors /\ vec.state \in Tensors
    BY <1>2 DEF IsVec
  <2>5. /\ vec'.data = [r \in AllRows |-> vec.data[r] + 1]
        /\ vec'.state = [r \in AllRows |-> IF HasState THEN vec.state[r] + 1 ELSE 0]
        /\ vec' = [data |-> vec'.data, state |-> vec'.state]
    BY <2>3
  <2>6. IsVec(vec')
    <3>1. vec'.data \in Tensors /\ vec'.state \in Tensors
      BY <2>4, <2>5 DEF Tensors
    <3>2. ~HasState => vec'.state = Zeros
      BY <2>5 DEF Zeros
    <3> QED
      BY <2>5, <3>1, <3>2 DEF IsVec
  <2>7. ASSUME NEW s \in Servers, dmeta[s] # None PROVE DataThere(s)' /\ StateThere(s)'
    <3>1. DPush(s)' = DPush(s) \cup {w} /\ w \notin DPush(s)
      BY <1>0, <1>3, <1>5 DEF DPush, Out
    <3>2. PICK n \in Nat : n = Cardinality(DPush(s)) /\ Cardinality(DPush(s)') = n + 1
      BY <3>1, DPushFinite, FS_AddElement
    <3>3. ~DataAway(s) /\ ~StateAway(s)
      BY <2>2 DEF DataAway, StateAway, Out
    <3>4. RowsOf(s) \subseteq AllRows
      BY <1>0, HasServers, OwnerHasRow DEF BaseInv, CheckpointInv
    <3>5. /\ dense'[s] = dense[s] /\ RowsOf(s)' = RowsOf(s)
          /\ \A r \in RowsOf(s) : vec.data[r] = dense[s].data[r] + n
          /\ \A r \in RowsOf(s) : vec.state[r] = dense[s].state[r] + (IF HasState THEN n ELSE 0)
      BY <1>0, <1>1, <1>2, <2>7, <3>2, <3>3 DEF DataThere, StateThere
    <3>6. dense[s].data \in SliceRows(s) /\ dense[s].state \in SliceRows(s)
      <4>1. dense[s] \in [data : SliceRows(s), state : SliceRows(s)]
        BY <2>7 DEF DataInv, RowsInv
      <4> QED
        BY <4>1
    <3>7. ASSUME NEW r \in RowsOf(s)
          PROVE  /\ vec'.data[r] = dense[s].data[r] + (n + 1)
                 /\ vec'.state[r] = dense[s].state[r] + (IF HasState THEN n + 1 ELSE 0)
      <4>1. r \in AllRows /\ dense[s].data[r] \in Nat /\ dense[s].state[r] \in Nat
        BY <3>4, <3>6 DEF SliceRows
      <4>2. vec'.data[r] = vec.data[r] + 1 /\ vec'.state[r] = IF HasState THEN vec.state[r] + 1 ELSE 0
        BY <2>5, <4>1
      <4>3. ~HasState => vec.state[r] = 0
        BY <1>2, <4>1 DEF IsVec, Zeros
      <4>4. vec.data[r] = dense[s].data[r] + n /\ vec.state[r] = dense[s].state[r] + (IF HasState THEN n ELSE 0)
        BY <3>5
      <4>5. CASE HasState
        BY <4>1, <4>2, <4>4, <4>5
      <4>6. CASE ~HasState
        BY <4>1, <4>2, <4>3, <4>4, <4>6
      <4> QED
        BY <4>5, <4>6
    <3> QED
      BY <3>2, <3>5, <3>7 DEF DataThere, StateThere
  <2> QED
    BY <1>0, <1>1, <2>1, <2>2, <2>6, <2>7 DEF DenseInv
<1>6. CASE Op(w) = "DensePushValue"
  <2>1. w = 0 /\ Now = 14
    BY <1>6, OpStage
  <2>2. vec' = [vec EXCEPT !.data = model[w]]
    BY <1>0, <1>6 DEF SendsVec
  <2>3. vec'.data = model[0] /\ vec'.state = vec.state /\ vec' = [data |-> vec'.data, state |-> vec'.state]
    BY <1>2, <2>1, <2>2 DEF IsVec
  <2>4. IsVec(vec')
    BY <1>0, <1>2, <2>3 DEF IsVec, DataInv, RowsInv
  <2>5. ASSUME NEW s \in Servers, dmeta[s] # None PROVE DataThere(s)' /\ StateThere(s)'
    <3>1. DataAway(s)'
      BY <1>0, <1>1, <1>6, <2>1, <2>5 DEF DataAway, Out
    <3>2. DPush(s)' = DPush(s) /\ dense'[s] = dense[s]
      BY <1>0, <1>3, <1>6
    <3>3. StateThere(s)
      BY <1>2, <2>5
    <3>4. StateThere(s)'
      BY <1>1, <1>4, <2>3, <3>2, <3>3 DEF StateThere
    <3> QED
      BY <3>1, <3>4 DEF DataThere
  <2> QED
    BY <1>0, <1>1, <1>6, <2>1, <2>3, <2>4, <2>5 DEF DenseInv
<1>7. CASE Op(w) \notin {"DensePush", "DensePushValue"}
  <2>1. vec' = vec
    BY <1>0, <1>7 DEF SendsVec
  <2>2. Op(0) = "DensePushValue" => sent'[0] = sent[0]
    BY <1>0, <1>7 DEF Others
  <2>3. ASSUME NEW s \in Servers, dmeta[s] # None PROVE DataThere(s)' /\ StateThere(s)'
    BY <1>0, <1>1, <1>2, <1>3, <1>4, <1>7, <2>1, <2>3, ThereStays
  <2> QED
    BY <1>0, <1>1, <1>2, <2>1, <2>2, <2>3 DEF DenseInv
<1> QED
  BY <1>5, <1>6, <1>7

\* A worker that goes on: worker 0 may have read the meta file.
LEMMA DenseGoes ==
    ASSUME BaseInv, LoadInv, SavedDenseInv, DenseInv, NEW w \in Workers, GoesOn(w)
    PROVE  DenseInv'
<1> SUFFICES ASSUME job'.sound, Live' PROVE DenseInv'
  BY DEF DenseInv
<1>0. /\ job' = job /\ Now' = Now /\ Others(w) /\ 0 \in Workers /\ MovesOn(w)
      /\ UNCHANGED <<raised, sent, todo, model, dense, dmeta, saved>> /\ ~sent[w]
      /\ vec' = IF w = 0 /\ Op(w) = "DenseReadMeta" THEN saved.vec ELSE vec
      /\ Op(w) \in {"SparseReadMeta", "DenseReadMeta", "Import", "SparsePush", "DensePush", "SparsePullReadOnly"}
  BY GoFacts, ZeroIsWorker DEF GoesOn, server_vars
<1>1. /\ Servers' = Servers /\ Live /\ job.sound /\ \A s : RowsOf(s)' = RowsOf(s)
  BY <1>0 DEF Servers, Live, RowsOf
<1>2. /\ IsVec(vec) /\ (Now \in 15..16 => vec.data = Zeros /\ vec.state = Zeros)
      /\ Op(0) = "DensePushValue" /\ sent[0] => vec.data = model[0]
      /\ Op(0) \in {"DensePushMeta", "DenseLoadData", "DenseLoadState"} => vec = saved.vec
      /\ \A s \in Servers : dmeta[s] # None => DataThere(s) /\ StateThere(s)
  BY <1>1 DEF DenseInv
<1>3. ASSUME NEW s PROVE DPush(s)' = DPush(s)
  BY OutStays DEF DPush
<1>4. CASE w # 0
  <2>1. vec' = vec /\ Op(0)' = Op(0)
    BY <1>0, <1>4 DEF Others
  <2>2. ASSUME NEW s PROVE DataAway(s)' = DataAway(s) /\ StateAway(s)' = StateAway(s)
    BY <1>0, <2>1 DEF DataAway, StateAway, Out
  <2>3. ASSUME NEW s \in Servers, dmeta[s] # None PROVE DataThere(s)' /\ StateThere(s)'
    BY <1>0, <1>2, <1>3, <2>1, <2>2, <2>3, ThereStays
  <2> QED
    BY <1>0, <1>1, <1>2, <2>1, <2>3 DEF DenseInv
<1>5. CASE w = 0 /\ Op(0) # "DenseReadMeta"
  <2>1. vec' = vec
    BY <1>0, <1>5
  <2>2. Op(0)' \notin {"DensePushValue", "DensePushMeta", "DenseLoadData", "DenseLoadState"}
    BY <1>0, <1>5, NoneApart DEF MovesOn, Edge
  <2>3. ASSUME NEW s PROVE ~DataAway(s) /\ ~StateAway(s)
    BY <1>0, <1>5 DEF DataAway, StateAway, Out
  <2>4. ASSUME NEW s \in Servers, dmeta[s] # None PROVE DataThere(s)' /\ StateThere(s)'
    BY <1>0, <1>2, <1>3, <2>1, <2>3, <2>4, ThereStays
  <2> QED
    BY <1>0, <1>1, <1>2, <2>1, <2>2, <2>4 DEF DenseInv
<1>6. CASE w = 0 /\ Op(0) = "DenseReadMeta"
  <2>1. vec' = saved.vec /\ Now = 10 /\ job.loads
    BY <1>0, <1>6, OpStage
  <2>2. intact /\ saved.sound
    BY <1>1, <2>1 DEF LoadInv
  <2>3. IsVec(vec')
    BY <2>1, <2>2 DEF SavedDenseInv
  <2>4. Op(0)' \in {"DensePushMeta", "DenseLoadData"}
    BY <1>0, <1>6 DEF MovesOn, Edge
  <2>5. ASSUME NEW s \in Servers, dmeta[s] # None PROVE DataThere(s)' /\ StateThere(s)'
    <3>1. DataAway(s)' /\ (HasState => StateAway(s)')
      BY <1>0, <1>6, <2>4 DEF DataAway, StateAway
    <3>2. CASE HasState
      BY <3>1, <3>2 DEF DataThere, StateThere
    <3>3. CASE ~HasState
      <4>1. vec'.state = vec.state
        BY <1>2, <2>3, <3>3 DEF IsVec
      <4>2. ~StateAway(s) /\ StateThere(s)
        BY <1>2, <2>5, <3>3 DEF StateAway
      <4>3. \A r \in RowsOf(s) : vec'.state[r] = dense'[s].state[r] + 0
        BY <1>0, <3>3, <4>1, <4>2 DEF StateThere
      <4> QED
        BY <1>1, <3>1, <3>3, <4>3 DEF DataThere, StateThere
    <3> QED
      BY <3>2, <3>3
  <2> QED
    BY <1>0, <1>1, <2>1, <2>3, <2>4, <2>5 DEF DenseInv
<1> QED
  BY <1>4, <1>5, <1>6

\* A worker that comes back: the slices have reached the servers.
LEMMA DenseComes ==
    ASSUME BaseInv, DenseInv, NEW w \in Workers, ComesBack(w)
    PROVE  DenseInv'
<1> SUFFICES ASSUME job'.sound, Live' PROVE DenseInv'
  BY DEF DenseInv
<1>0. /\ job' = job /\ Now' = Now /\ Others(w) /\ 0 \in Workers
      /\ UNCHANGED <<raised, todo, dense, dmeta, vec>> /\ sent[w] /\ ~sent'[w] /\ todo[w] = {}
      /\ (Op(w) # "Import" => MovesOn(w)) /\ (Op(w) = "Import" => Op(w)' = "Import")
      /\ (w # 0 => model'[0] = model[0])
  BY ComeFacts, ZeroIsWorker DEF ComesBack, server_vars, Others
<1>1. /\ Servers' = Servers /\ Live /\ job.sound /\ \A s : RowsOf(s)' = RowsOf(s)
  BY <1>0 DEF Servers, Live, RowsOf
<1>2. /\ IsVec(vec) /\ (Now \in 15..16 => vec.data = Zeros /\ vec.state = Zeros)
      /\ Op(0) = "DensePushValue" /\ sent[0] => vec.data = model[0]
      /\ Op(0) \in {"DensePushMeta", "DenseLoadData", "DenseLoadState"} => vec = saved.vec
      /\ \A s \in Servers : dmeta[s] # None => DataThere(s) /\ StateThere(s)
  BY <1>1 DEF DenseInv
<1>3. ASSUME NEW s PROVE DPush(s)' = DPush(s)
  BY OutStays DEF DPush
<1>4. CASE w # 0
  <2>1. Op(0)' = Op(0) /\ sent'[0] = sent[0]
    BY <1>0, <1>4 DEF Others
  <2>2. ASSUME NEW s PROVE DataAway(s)' = DataAway(s) /\ StateAway(s)' = StateAway(s)
    BY <1>0, <2>1 DEF DataAway, StateAway, Out
  <2>3. ASSUME NEW s \in Servers, dmeta[s] # None PROVE DataThere(s)' /\ StateThere(s)'
    BY <1>0, <1>2, <1>3, <2>2, <2>3, ThereStays
  <2>4. saved' = saved
    BY <1>4, DiskComes
  <2> QED
    BY <1>0, <1>1, <1>2, <2>1, <2>3, <2>4 DEF DenseInv
<1>5. CASE w = 0
  <2>1. /\ Op(0)' = "DensePushMeta" => Op(0) = "DenseReadMeta"
        /\ Op(0)' = "DenseLoadData" => Op(0) \in {"DenseReadMeta", "DensePushMeta"}
        /\ Op(0)' = "DenseLoadState" => Op(0) = "DenseLoadData" /\ HasState
        /\ Op(0) = "DensePushMeta" => Op(0)' = "DenseLoadData"
        /\ Op(0) = "DenseLoadData" /\ HasState => Op(0)' = "DenseLoadState"
    BY <1>0, <1>5, NoneApart DEF MovesOn, Edge
  <2>2. Op(0) # "DenseReadMeta"
    BY <1>5 DEF ComesBack
  <2>3. ASSUME NEW s \in Servers PROVE (DataAway(s) => DataAway(s)') /\ (StateAway(s) => StateAway(s)')
    BY <1>0, <1>5, <2>1 DEF DataAway, StateAway, Out
  <2>4. ASSUME NEW s \in Servers, dmeta[s] # None PROVE DataThere(s)' /\ StateThere(s)'
    BY <1>0, <1>2, <1>3, <2>3, <2>4, ThereStays
  <2>5. Op(0)' \in {"DensePushMeta", "DenseLoadData", "DenseLoadState"} => vec = saved.vec /\ saved' = saved
    <3>1. Op(0) \in {"DensePushMeta", "DenseLoadData"} => saved' = saved
      BY <1>5, DiskComes
    <3> QED
      BY <1>2, <2>1, <2>2, <3>1
  <2>6. ~sent'[0]
    BY <1>0, <1>5
  <2> QED
    BY <1>0, <1>1, <1>2, <2>4, <2>5, <2>6 DEF DenseInv
<1> QED
  BY <1>4, <1>5

\* A server: it takes the gradient, or the slice, that was on its way.
LEMMA DenseHandle ==
    ASSUME BaseInv, DataInv, LoadInv, DenseInv, NEW w \in Workers, NEW s \in Servers, Handle(w, s)
    PROVE  DenseInv'
<1> SUFFICES ASSUME job'.sound, Live' PROVE DenseInv'
  BY DEF DenseInv
<1>0. HandleFrame(w, s) /\ HandleDone(w, s)
  BY HandleCases, RefusedIsNotLive DEF BaseInv, CheckpointInv
<1>1. /\ KeepsPlace /\ sent' = sent /\ sent[w] /\ s \in todo[w] /\ 0 \in Workers /\ prog[w] # <<>>
      /\ todo'[w] = todo[w] \ {s} /\ \A v \in Workers : v # w => todo'[v] = todo[v]
  BY <1>0, HandleFacts, ZeroIsWorker
<1>2. UNCHANGED <<vec, model, saved, raised>>
  BY <1>0 DEF HandleFrame, ghost_vars, HandleDone
<1>3. /\ job' = job /\ Now' = Now /\ Servers' = Servers /\ Live /\ job.sound /\ Op(0)' = Op(0)
      /\ \A t : RowsOf(t)' = RowsOf(t)
  BY <1>1, <1>2 DEF Servers, Live, KeepsPlace, RowsOf
<1>4. /\ IsVec(vec) /\ (Now \in 15..16 => vec.data = Zeros /\ vec.state = Zeros)
      /\ Op(0) = "DensePushValue" /\ sent[0] => vec.data = model[0]
      /\ Op(0) \in {"DensePushMeta", "DenseLoadData", "DenseLoadState"} => vec = saved.vec
      /\ \A t \in Servers : dmeta[t] # None => DataThere(t) /\ StateThere(t)
  BY <1>3 DEF DenseInv
<1>5. DenseStep(w, s) /\ MetaStep(w, s)
  BY <1>0 DEF HandleDone
<1>6. ASSUME NEW t \in Servers, t # s, dmeta'[t] # None PROVE DataThere(t)' /\ StateThere(t)'
  <2>1. dense'[t] = dense[t] /\ dmeta'[t] = dmeta[t]
    BY <1>5, <1>6 DEF DenseStep, MetaStep
  <2>2. DPush(t)' = DPush(t)
    BY <1>0, <1>6, OutHandle DEF DPush
  <2>3. t \in todo'[0] <=> t \in todo[0]
    BY <1>1, <1>6
  <2>4. DataAway(t)' = DataAway(t) /\ StateAway(t)' = StateAway(t)
    BY <1>1, <1>3, <2>3 DEF DataAway, StateAway, Out
  <2> QED
    BY <1>2, <1>3, <1>4, <1>6, <2>1, <2>2, <2>4, ThereStays
<1>7. ASSUME dmeta'[s] # None PROVE DataThere(s)' /\ StateThere(s)'
  <2>0. /\ DPush(s)' = IF Op(w) = "DensePush" THEN DPush(s) \ {w} ELSE DPush(s)
    <3>1. \A v \in Workers : Out(v, "DensePush", s)' <=> Out(v, "DensePush", s) /\ v # w
      BY <1>0, OutHandle
    <3> QED
      BY <3>1 DEF DPush, Out
  <2>1. CASE Op(w) = "DenseInit" /\ dmeta[s] = None
    <3>1. Now = 15 /\ vec.data = Zeros /\ vec.state = Zeros
      BY <1>4, <2>1, OpStage
    <3>2. DPush(s)' = {} /\ Cardinality(DPush(s)') = 0
      BY <2>0, <2>1, <3>1, DPushNone
    <3>3. dense'[s] = [data |-> [r \in RowsOf(s) |-> 0], state |-> [r \in RowsOf(s) |-> 0]]
      BY <1>5, <2>1 DEF DenseStep
    <3>4. RowsOf(s) \subseteq AllRows
      BY <1>1, HasServers, OwnerHasRow DEF BaseInv, CheckpointInv
    <3>5. \A r \in RowsOf(s) : /\ vec.data[r] = 0 /\ vec.state[r] = 0
                               /\ dense'[s].data[r] = 0 /\ dense'[s].state[r] = 0
      BY <3>1, <3>3, <3>4 DEF Zeros
    <3> QED
      BY <1>2, <1>3, <3>2, <3>5 DEF DataThere, StateThere
  <2>2. CASE Op(w) # "DenseInit" \/ dmeta[s] # None
    <3>0. dmeta[s] # None /\ DataThere(s) /\ StateThere(s)
      <4>1. dmeta[s] # None
        BY <1>5, <1>7, <2>2 DEF MetaStep
      <4> QED
        BY <1>4, <4>1
    <3>1. CASE Op(w) = "DensePush"
      <4>1. Now = 8 /\ Op(0) \notin {"DensePushValue", "DensePushMeta", "DenseLoadData", "DenseLoadState"}
        BY <1>1, <3>1, OpStage
      <4>2. ~DataAway(s) /\ ~StateAway(s)
        BY <4>1 DEF DataAway, StateAway, Out
      <4>3. DPush(s)' = DPush(s) \ {w} /\ w \in DPush(s)
        BY <1>1, <2>0, <3>1 DEF DPush, Out
      <4>4. PICK n \in Nat : Cardinality(DPush(s)) = n + 1 /\ Cardinality(DPush(s)') = n
        <5>1. IsFiniteSet(DPush(s)') /\ Cardinality(DPush(s)') \in Nat
          BY <4>3, DPushFinite, FS_Subset, FS_CardinalityType
        <5>2. w \notin DPush(s)' /\ DPush(s) = DPush(s)' \cup {w}
          BY <4>3
        <5>3. Cardinality(DPush(s)' \cup {w}) = Cardinality(DPush(s)') + 1
          BY <5>1, <5>2, FS_AddElement
        <5> QED
          BY <5>1, <5>2, <5>3
      <4>5. /\ \A r \in RowsOf(s) : vec.data[r] = dense[s].data[r] + (n + 1)
            /\ \A r \in RowsOf(s) : vec.state[r] = dense[s].state[r] + (IF HasState THEN n + 1 ELSE 0)
        BY <3>0, <4>2, <4>4 DEF DataThere, StateThere
      <4>6. dense[s].data \in SliceRows(s) /\ dense[s].state \in SliceRows(s)
        <5>1. dense[s] \in [data : SliceRows(s), state : SliceRows(s)]
          BY <3>0 DEF DataInv, RowsInv
        <5> QED
          BY <5>1
      <4>7. dense'[s] = [data |-> [r \in RowsOf(s) |-> dense[s].data[r] + 1],
                         state |-> [r \in RowsOf(s) |-> IF HasState THEN dense[s].state[r] + 1
                                                        ELSE dense[s].state[r]]]
        BY <1>5, <3>1 DEF DenseStep
      <4>8. ASSUME NEW r \in RowsOf(s)
            PROVE  /\ vec.data[r] = dense'[s].data[r] + n
                   /\ vec.state[r] = dense'[s].state[r] + (IF HasState THEN n ELSE 0)
        <5>1. dense[s].data[r] \in Nat /\ dense[s].state[r] \in Nat
          BY <4>6 DEF SliceRows
        <5>2. /\ dense'[s].data[r] = dense[s].data[r] + 1
              /\ dense'[s].state[r] = IF HasState THEN dense[s].state[r] + 1 ELSE dense[s].state[r]
          BY <4>7
        <5>3. vec.data[r] = dense[s].data[r] + (n + 1) /\ vec.state[r] = dense[s].state[r] + (IF HasState THEN n + 1 ELSE 0)
          BY <4>5
        <5>4. CASE HasState
          BY <5>1, <5>2, <5>3, <5>4
        <5>5. CASE ~HasState
          BY <5>1, <5>2, <5>3, <5>5
        <5> QED
          BY <5>4, <5>5
      <4> QED
        BY <1>2, <1>3, <4>4, <4>8 DEF DataThere, StateThere
    <3>2. CASE Op(w) = "DensePushValue"
      <4>1. w = 0 /\ Now = 14
        BY <3>2, OpStage
      <4>2. vec.data = model[0]
        BY <1>1, <1>4, <3>2, <4>1
      <4>3. DPush(s)' = DPush(s) /\ Cardinality(DPush(s)) = 0
        BY <2>0, <3>2, <4>1, DPushNone
      <4>4. dense'[s] = [data |-> [r \in RowsOf(s) |-> model[0][r]], state |-> dense[s].state]
        BY <1>5, <3>2, <4>1 DEF DenseStep
      <4>5. ~StateAway(s)
        BY <3>2, <4>1 DEF StateAway
      <4>6. \A r \in RowsOf(s) : vec.data[r] = dense'[s].data[r] + 0
        <5>1. ASSUME NEW r \in RowsOf(s) PROVE dense'[s].data[r] = model[0][r] /\ model[0][r] \in Nat
          <6>1. r \in AllRows
            BY <1>1, HasServers, OwnerHasRow DEF BaseInv, CheckpointInv
          <6> QED
            BY <1>1, <4>4, <6>1 DEF DataInv, RowsInv, Tensors
        <5> QED
          BY <4>2, <5>1
      <4>7. dense'[s].state = dense[s].state
        BY <4>4
      <4> QED
        BY <1>2, <1>3, <3>0, <4>3, <4>5, <4>6, <4>7 DEF DataThere, StateThere
    <3>3. CASE Op(w) \in {"DenseLoadData", "DenseLoadState"}
      <4>1. w = 0 /\ Now = 10 /\ job.loads /\ (Op(w) = "DenseLoadState" => HasState)
        BY <3>3, OpStage
      <4>2. intact /\ saved.sound /\ vec = saved.vec
        BY <1>3, <1>4, <3>3, <4>1 DEF LoadInv
      <4>3. vec.data = disk.data /\ (HasState => vec.state = disk.state)
        BY <4>2 DEF BaseInv, CheckpointInv, CheckpointComplete
      <4>4. DPush(s)' = DPush(s) /\ Cardinality(DPush(s)) = 0
        BY <2>0, <3>3, <4>1, DPushNone
      <4>5. RowsOf(s) \subseteq AllRows
        BY <1>1, HasServers, OwnerHasRow DEF BaseInv, CheckpointInv
      <4>6. \A r \in RowsOf(s) : vec.data[r] \in Nat /\ vec.state[r] \in Nat
        BY <1>4, <4>5 DEF IsVec, Tensors
      <4>7. CASE Op(w) = "DenseLoadData"
        <5>1. dense'[s] = [data |-> [r \in RowsOf(s) |-> disk.data[r]], state |-> dense[s].state]
          BY <1>5, <4>7 DEF DenseStep
        <5>2. \A r \in RowsOf(s) : vec.data[r] = dense'[s].data[r] + 0
          BY <4>3, <4>6, <5>1
        <5>3. StateAway(s)' = StateAway(s) /\ dense'[s].state = dense[s].state
          BY <1>3, <4>1, <4>7, <5>1 DEF StateAway
        <5> QED
          BY <1>2, <1>3, <3>0, <4>4, <5>2, <5>3 DEF DataThere, StateThere
      <4>8. CASE Op(w) = "DenseLoadState"
        <5>1. dense'[s] = [data |-> dense[s].data, state |-> [r \in RowsOf(s) |-> disk.state[r]]]
          BY <1>5, <4>8 DEF DenseStep
        <5>2. \A r \in RowsOf(s) : vec.state[r] = dense'[s].state[r] + 0
          BY <4>1, <4>3, <4>6, <4>8, <5>1
        <5>3. ~DataAway(s) /\ dense'[s].data = dense[s].data
          BY <4>1, <4>8, <5>1 DEF DataAway, Out
        <5> QED
          BY <1>2, <1>3, <3>0, <4>4, <5>2, <5>3 DEF DataThere, StateThere
      <4> QED
        BY <3>3, <4>7, <4>8
    <3>4. CASE Op(w) \notin DensePushes
      <4>1. dense'[s] = dense[s] /\ DPush(s)' = DPush(s)
        BY <1>5, <2>0, <3>0, <3>4 DEF DenseStep, DensePushes
      <4>2. Op(0) \in {"DensePushValue", "DenseLoadData", "DenseLoadState"} => w # 0
        BY <3>4 DEF DensePushes
      <4>3. DataAway(s)' = DataAway(s) /\ StateAway(s)' = StateAway(s)
        <5>1. Op(0) \in {"DensePushValue", "DenseLoadData", "DenseLoadState"} => todo'[0] = todo[0]
          BY <1>1, <4>2
        <5> QED
          BY <1>1, <1>3, <5>1 DEF DataAway, StateAway, Out
      <4> QED
        BY <1>2, <1>3, <3>0, <4>1, <4>3, ThereStays
    <3> QED
      BY <3>1, <3>2, <3>3, <3>4 DEF DensePushes
  <2> QED
    BY <2>1, <2>2
<1> QED
  BY <1>1, <1>2, <1>3, <1>4, <1>6, <1>7 DEF DenseInv

\* The servers and the requests on their way make up the dense tensor.
LEMMA DenseNext ==
    BaseInv /\ DataInv /\ LoadInv /\ SavedDenseInv /\ DenseInv /\ [Next]_vars => DenseInv'
<1> SUFFICES ASSUME BaseInv, DataInv, LoadInv, SavedDenseInv, DenseInv, [Next]_vars PROVE DenseInv'
  OBVIOUS
<1>0. WaitInv /\ 0 \in Workers
  BY ZeroIsWorker DEF BaseInv, CheckpointInv, OrderInv
<1>1. CASE NewJob
  <2>1. /\ vec' = [data |-> Zeros, state |-> Zeros] /\ Op(0)' = "barrier"
        /\ dmeta' = [s \in Servers' |-> None]
    BY <1>0, <1>1, StartFacts DEF Zeros
  <2>2. Zeros \in Tensors
    BY DEF Zeros, Tensors
  <2>3. vec'.data = Zeros /\ vec'.state = Zeros /\ IsVec(vec')
    BY <2>1, <2>2 DEF IsVec
  <2> QED
    BY <2>1, <2>3 DEF DenseInv
<1>2. CASE Barrier
  <2>1. /\ UNCHANGED <<job, vec, dense, dmeta, sent, todo, raised, saved>> /\ Live
        /\ ~sent[0] /\ Op(0) \in Barriers /\ MovesOn(0) /\ Now \in 1..16
        /\ \A w \in Workers : todo[w] = {}
    BY <1>0, <1>2, PassFacts
  <2>2. Now' \in 15..16 => Now \in 15..16
    BY <1>2, <2>1, PassFacts
  <2>3. Op(0)' \notin {"DensePushMeta", "DenseLoadData", "DenseLoadState"}
    BY <2>1, NoneApart DEF MovesOn, Edge, Barriers
  <2>4. Servers' = Servers
    BY <2>1 DEF Servers
  <2>5. ASSUME NEW s \in Servers, dmeta[s] # None, DataThere(s), StateThere(s)
        PROVE  DataThere(s)' /\ StateThere(s)'
    <3>1. DPush(s) = {} /\ DPush(s)' = {}
      BY <2>1 DEF DPush, Out
    <3>2. ~DataAway(s) /\ ~StateAway(s)
      BY <2>1 DEF DataAway, StateAway, Out, Barriers
    <3> QED
      BY <2>1, <2>5, <3>1, <3>2, ThereStays
  <2> QED
    BY <2>1, <2>2, <2>3, <2>4, <2>5 DEF DenseInv
<1>3. ASSUME KeepsPlace, UNCHANGED <<sent, todo, raised, model, vec, dense, dmeta, saved>> PROVE DenseInv'
  <2>1. /\ Servers' = Servers /\ Op(0)' = Op(0) /\ job' = job /\ Now' = Now
        /\ \A w \in Workers : Op(w)' = Op(w)
    BY <1>0, <1>3 DEF KeepsPlace, Servers
  <2>2. ASSUME NEW s PROVE DPush(s)' = DPush(s) /\ DataAway(s)' = DataAway(s) /\ StateAway(s)' = StateAway(s)
    BY <1>3, <2>1 DEF DPush, DataAway, StateAway, Out
  <2>3. ASSUME NEW s, DataThere(s), StateThere(s) PROVE DataThere(s)' /\ StateThere(s)'
    BY <1>3, <2>1, <2>2, <2>3, ThereStays
  <2> QED
    BY <1>3, <2>1, <2>3 DEF DenseInv, Live
<1>4. CASE Over \/ UNCHANGED vars
  <2>1. UNCHANGED <<job, prog, sent, todo, raised, model, vec, dense, dmeta, saved>>
    BY <1>4 DEF Over, vars, worker_vars, server_vars, ghost_vars
  <2> QED
    BY <1>3, <2>1, Stays DEF KeepsPlace
<1>5. ASSUME NEW w \in Workers, WorkerStep(w) PROVE DenseInv'
  <2>1. CASE Fails(w)
    BY <1>3, <2>1, FailFacts
  <2> QED
    BY <1>0, <1>5, <2>1, WorkerCases, DenseAsks, DenseGoes, DenseComes
<1>6. ASSUME NEW w \in Workers, NEW s \in Servers, Handle(w, s) PROVE DenseInv'
  BY <1>6, DenseHandle
<1> QED
  BY <1>1, <1>2, <1>4, <1>5, <1>6 DEF Next

\* A worker at a barrier, or at its end, has no requests.
LEMMA Quiet ==
    ASSUME BaseInv, NEW w \in Workers, Op(w) \in Barriers \cup {None}
    PROVE  ~sent[w] /\ todo[w] = {} /\ ~raised[w]
<1>0. ProgInv
  BY DEF BaseInv, CheckpointInv, OrderInv
<1>1. prog[w] = <<>> \/ Head(prog[w]) \in Barriers
  <2>1. CASE Op(w) = None
    BY <1>0, <2>1, EmptyOp
  <2>2. CASE Op(w) \in Barriers
    BY <2>2, NoneAssumption DEF Op, Operations
  <2> QED
    BY <2>1, <2>2
<1>2. ~sent[w] /\ todo[w] = {}
  BY <1>1 DEF BaseInv, CheckpointInv, OrderInv, WaitInv
<1> QED
  BY <1>2 DEF BaseInv, FormInv

\* The stages in which the other workers wait for worker 0.
LEMMA Waits ==
    ASSUME BaseInv, NEW w \in Workers, w # 0, Now \in {14, 11, 7, 5, 3}
    PROVE  Op(w) = "barrier" /\ ~sent[w] /\ todo[w] = {} /\ ~raised[w]
<1>0. ProgInv /\ PathInv /\ FormInv
  BY DEF BaseInv, CheckpointInv, OrderInv
<1>1. prog[w] # <<>>
  BY <1>0, NowRange, EmptyOp
<1>2. Edge(w, job.n, job.loads, job.old, Op(w), Now, Then(w))
  BY <1>0, <1>1, OpEdge
<1>3. Op(w) = "barrier"
  <2>1. CASE Now \in {14, 11}
    BY <1>2, <2>1 DEF Edge
  <2>2. CASE Now \in {7, 5, 3}
    BY <1>2, <2>2 DEF Edge
  <2> QED
    BY <2>1, <2>2
<1> QED
  BY <1>3, Quiet DEF Barriers

\* With all slices in their places and no gradient on its way the tensor is the
\* one of the servers.
LEMMA HeldVec ==
    ASSUME BaseInv, DenseInv, job.sound, Live, job.n \in ServerCounts,
           Op(0) \notin {"DensePushValue", "DensePushMeta", "DenseLoadData", "DenseLoadState"}, Now # 8,
           \A s \in Servers : dmeta[s] # None, DataInv
    PROVE  Held.vec = vec
<1>1. ASSUME NEW r \in AllRows
      PROVE  dense[OwnerOf(r)].data[r] = vec.data[r] /\ dense[OwnerOf(r)].state[r] = vec.state[r]
  <2>1. PICK s \in Servers : s = OwnerOf(r) /\ r \in RowsOf(s)
    BY OwnerHasRow DEF BaseInv, CheckpointInv
  <2>2. DataThere(s) /\ StateThere(s) /\ ~DataAway(s) /\ ~StateAway(s)
    BY DEF DenseInv, DataAway, StateAway, Out
  <2>3. Cardinality(DPush(s)) = 0
    BY DPushNone
  <2>4. vec.data[r] = dense[s].data[r] + 0 /\ vec.state[r] = dense[s].state[r] + 0
    BY <2>1, <2>2, <2>3 DEF DataThere, StateThere
  <2>5. dense[s].data \in SliceRows(s) /\ dense[s].state \in SliceRows(s)
    <3>1. dense[s] \in [data : SliceRows(s), state : SliceRows(s)]
      BY DEF DataInv, RowsInv
    <3> QED
      BY <3>1
  <2>6. dense[s].data[r] \in Nat /\ dense[s].state[r] \in Nat
    BY <2>1, <2>5 DEF SliceRows
  <2> HIDE DEF OwnerOf, RowsOf
  <2> QED
    BY <2>1, <2>4, <2>6
<1>2. IsVec(vec)
  BY DEF DenseInv
<1>3. Held.vec = [data |-> [r \in AllRows |-> dense[OwnerOf(r)].data[r]],
                  state |-> [r \in AllRows |-> dense[OwnerOf(r)].state[r]]]
  BY DEF Held
<1>4. [r \in AllRows |-> dense[OwnerOf(r)].data[r]] = vec.data
  <2> HIDE DEF OwnerOf
  <2> QED
    BY <1>1, <1>2 DEF IsVec, Tensors
<1>5. [r \in AllRows |-> dense[OwnerOf(r)].state[r]] = vec.state
  <2> HIDE DEF OwnerOf
  <2> QED
    BY <1>1, <1>2 DEF IsVec, Tensors
<1> QED
  BY <1>2, <1>3, <1>4, <1>5 DEF IsVec

\* The dense tensor of a complete checkpoint of a sound job is one.
LEMMA SavedDenseNext ==
    BaseInv /\ DataInv /\ DenseInv /\ SavedDenseInv /\ [Next]_vars => SavedDenseInv'
<1> SUFFICES ASSUME BaseInv, DataInv, DenseInv, SavedDenseInv, [Next]_vars PROVE SavedDenseInv'
  OBVIOUS
<1>0. WaitInv /\ 0 \in Workers /\ FormInv
  BY ZeroIsWorker DEF BaseInv, CheckpointInv, OrderInv
<1>1. CASE NewJob
  <2>1. Op(0)' = "barrier" /\ UNCHANGED <<saved, intact>>
    BY <1>0, <1>1, StartFacts
  <2> QED
    BY <2>1 DEF SavedDenseInv, Ans
<1>2. CASE Barrier
  <2>1. ~sent'[0] /\ UNCHANGED <<saved, intact>>
    BY <1>0, <1>2, PassFacts
  <2> QED
    BY <2>1 DEF SavedDenseInv, Ans
<1>3. ASSUME KeepsPlace, UNCHANGED <<sent, todo, raised, dmeta, saved, intact>> PROVE SavedDenseInv'
  <2>1. Servers' = Servers /\ Op(0)' = Op(0)
    BY <1>0, <1>3 DEF KeepsPlace, Servers
  <2> QED
    BY <1>3, <2>1 DEF SavedDenseInv, Ans
<1>4. CASE Over \/ UNCHANGED vars
  <2>1. UNCHANGED <<job, prog, sent, todo, raised, dmeta, saved, intact>>
    BY <1>4 DEF Over, vars, worker_vars, server_vars, ghost_vars
  <2> QED
    BY <1>3, <2>1, Stays DEF KeepsPlace
<1>5. ASSUME NEW w \in Workers, WorkerStep(w) PROVE SavedDenseInv'
  <2>1. CASE Fails(w)
    BY <1>3, <2>1, FailFacts
  <2>2. CASE Asks(w)
    <3>1. KeepsPlace /\ Others(w) /\ todo'[w] = Servers
      BY <2>2, AskFacts
    <3>2. UNCHANGED <<raised, dmeta, saved, intact>>
      BY <2>2 DEF Asks, server_vars
    <3>3. Servers' = Servers /\ Op(0)' = Op(0)
      BY <1>0, <3>1 DEF KeepsPlace, Servers
    <3>4. ASSUME NEW s \in Servers, Ans(0, "DenseSaveState", s)' PROVE Ans(0, "DenseSaveState", s)
      BY <1>0, <3>1, <3>3, <3>4 DEF Ans, Others
    <3> QED
      BY <3>2, <3>3, <3>4 DEF SavedDenseInv
  <2>3. CASE GoesOn(w)
    <3>1. job' = job /\ Others(w)
      BY <2>3, GoFacts
    <3>2. UNCHANGED <<sent, todo, raised, dmeta, saved, intact>> /\ ~sent[w]
      BY <2>3 DEF GoesOn, server_vars
    <3>3. Servers' = Servers
      BY <3>1 DEF Servers
    <3>4. ASSUME NEW s \in Servers, Ans(0, "DenseSaveState", s)' PROVE Ans(0, "DenseSaveState", s)
      BY <1>0, <3>1, <3>2, <3>4 DEF Ans, Others
    <3> QED
      BY <3>2, <3>3, <3>4 DEF SavedDenseInv
  <2>4. CASE ComesBack(w)
    <3>1. job' = job /\ Others(w) /\ ~sent'[w] /\ prog[w] # <<>>
      BY <2>4, ComeFacts
    <3>2. UNCHANGED <<raised, dmeta, todo>> /\ ~raised[w] /\ sent[w] /\ todo[w] = {}
      BY <2>4 DEF ComesBack, server_vars
    <3>3. Servers' = Servers
      BY <3>1 DEF Servers
    <3>4. ASSUME NEW s \in Servers, Ans(0, "DenseSaveState", s)' PROVE Ans(0, "DenseSaveState", s)
      BY <1>0, <3>1, <3>2, <3>4 DEF Ans, Others
    <3>5. ComesDisk(w)
      BY <2>4 DEF ComesBack
    <3>6. CASE Op(w) = "DenseSaveState"
      <4>1. w = 0 /\ Now = 5
        BY <3>6, OpStage DEF SaveOps
      <4>2. Live
        BY <3>2, <4>1, Waits DEF Live
      <4>3. saved' = saved /\ saved = Held
        BY <3>5, <3>6, <4>1 DEF ComesDisk, BaseInv, CheckpointInv, SaveInv, SaveOps
      <4>4. saved.sound = job.sound
        <5>1. Held.sound = job.sound
          BY DEF Held
        <5> QED
          BY <4>3, <5>1
      <4>5. \A s \in Servers : dmeta[s] # None
        BY <3>2, <3>6, <4>1 DEF SavedDenseInv, Ans
      <4>6. job.n \in ServerCounts
        BY <3>1, HasServers
      <4>7. ASSUME saved.sound PROVE IsVec(saved.vec)
        <5>1. Held.vec = vec
          BY <3>6, <4>1, <4>2, <4>4, <4>5, <4>6, <4>7, HeldVec
        <5>2. IsVec(vec)
          BY <4>2, <4>4, <4>7 DEF DenseInv
        <5> QED
          BY <4>3, <5>1, <5>2
      <4> QED
        BY <3>2, <3>3, <3>4, <4>3, <4>7 DEF SavedDenseInv
    <3>7. CASE Op(w) # "DenseSaveState"
      <4>1. UNCHANGED <<saved, intact>> \/ ~intact'
        BY <3>5, <3>7 DEF ComesDisk
      <4> QED
        BY <3>2, <3>3, <3>4, <4>1 DEF SavedDenseInv
    <3> QED
      BY <3>6, <3>7
  <2> QED
    BY <1>0, <1>5, <2>1, <2>2, <2>3, <2>4, WorkerCases
<1>6. ASSUME NEW w \in Workers, NEW s \in Servers, Handle(w, s) PROVE SavedDenseInv'
  <2>1. HandleFrame(w, s) /\ (HandleDone(w, s) \/ HandleRefused(w, s))
    BY <1>6, HandleCases DEF BaseInv, CheckpointInv
  <2>2. /\ KeepsPlace /\ sent' = sent
        /\ todo'[w] = todo[w] \ {s} /\ \A v \in Workers : v # w => todo'[v] = todo[v]
    BY <2>1, HandleFacts
  <2>3. Servers' = Servers /\ Op(0)' = Op(0)
    BY <1>0, <2>2 DEF KeepsPlace, Servers
  <2>4. UNCHANGED <<saved, intact>>
    BY <2>1 DEF HandleFrame, ghost_vars
  <2>5. ASSUME NEW t \in Servers, Ans(0, "DenseSaveState", t)', ~raised'[0] PROVE dmeta'[t] # None
    <3>1. Op(0) = "DenseSaveState" /\ sent[0] /\ t \notin todo'[0]
      BY <2>2, <2>3, <2>5 DEF Ans
    <3>2. Now = 5
      BY <1>0, <3>1, OpStage DEF SaveOps
    <3>3. Op(w) \notin {"DenseInit", "DensePushMeta"}
      BY <3>2, OpStage
    <3>4. dmeta'[t] = dmeta[t]
      <4>1. CASE HandleDone(w, s)
        BY <3>3, <4>1 DEF HandleDone, MetaStep
      <4>2. CASE HandleRefused(w, s)
        BY <4>2 DEF HandleRefused, server_vars
      <4> QED
        BY <2>1, <4>1, <4>2
    <3>5. ~raised[0]
      BY <1>0, <2>1, <2>5 DEF HandleDone, HandleRefused, FormInv
    <3>6. CASE w = 0 /\ t = s
      <4>1. raised' # [raised EXCEPT ![w] = TRUE]
        BY <1>0, <2>5, <3>6 DEF FormInv
      <4>2. HandleDone(w, s)
        BY <2>1, <4>1 DEF HandleRefused
      <4> QED
        BY <3>1, <3>4, <3>6, <4>2 DEF HandleDone, MetaStep, DensePulls
    <3>7. CASE w # 0 \/ t # s
      BY <1>0, <2>2, <3>1, <3>4, <3>5, <3>7 DEF SavedDenseInv, Ans
    <3> QED
      BY <3>6, <3>7
  <2> QED
    BY <2>3, <2>4, <2>5 DEF SavedDenseInv
<1> QED
  BY <1>1, <1>2, <1>4, <1>5, <1>6 DEF Next

\* The modules of the workers after a pull between two barriers.
LEMMA ModelNext ==
    BaseInv /\ DataInv /\ DenseInv /\ ModelInv /\ [Next]_vars => ModelInv'
<1> SUFFICES ASSUME BaseInv, DataInv, DenseInv, ModelInv, [Next]_vars, job'.sound, Live', Now' \in {13, 9, 1}
             PROVE  \A v \in Workers :
                       /\ \A s \in Servers' : Ans(v, "DensePull", s)' =>
                             \A r \in RowsOf(s)' : got'[v][s][r] = vec'.data[r]
                       /\ Op(v)' \in {"synced", "SparseExport"} => model'[v] = vec'.data
  BY DEF ModelInv
<1>0. WaitInv /\ 0 \in Workers /\ FormInv
  BY ZeroIsWorker DEF BaseInv, CheckpointInv, OrderInv
<1>1. CASE NewJob
  BY <1>1, StartFacts
<1>2. CASE Barrier
  <2>1. /\ \A v \in Workers : ~sent'[v] /\ Op(v) \in Barriers /\ MovesOn(v)
        /\ Now' = IF Now = 13 /\ ~job.loads THEN 8 ELSE Now - 1
        /\ Now \in 1..16
    BY <1>2, PassFacts
  <2>2. Now \in {14, 10, 2}
    BY <2>1
  <2>3. \A v \in Workers : Op(v)' \in {"DensePull", "SparsePullReadOnly"}
    <3>1. ASSUME NEW v \in Workers PROVE Op(v)' \in {"DensePull", "SparsePullReadOnly"}
      <4>1. Op(v) \in Barriers /\ MovesOn(v)
        BY <2>1
      <4> QED
        BY <2>2, <4>1 DEF MovesOn, Edge, Barriers
    <3> QED
      BY <3>1
  <2> QED
    BY <2>1, <2>3 DEF Ans
<1>3. ASSUME KeepsPlace, UNCHANGED <<sent, todo, raised, got, model, vec>>
      PROVE  \A v \in Workers :
                       /\ \A s \in Servers' : Ans(v, "DensePull", s)' =>
                             \A r \in RowsOf(s)' : got'[v][s][r] = vec'.data[r]
                       /\ Op(v)' \in {"synced", "SparseExport"} => model'[v] = vec'.data
  <2>1. /\ Servers' = Servers /\ Live /\ job.sound /\ Now' = Now /\ (\A v \in Workers : Op(v)' = Op(v))
        /\ \A s : RowsOf(s)' = RowsOf(s)
    BY <1>3 DEF KeepsPlace, Servers, Live, RowsOf
  <2> QED
    BY <1>3, <2>1 DEF ModelInv, Ans
<1>4. CASE Over \/ UNCHANGED vars
  <2>1. UNCHANGED <<job, prog, sent, todo, raised, got, model, vec>>
    BY <1>4 DEF Over, vars, worker_vars, ghost_vars
  <2> QED
    BY <1>3, <2>1, Stays DEF KeepsPlace
<1>5. ASSUME NEW w \in Workers, WorkerStep(w), NEW v \in Workers
      PROVE  /\ \A s \in Servers' : Ans(v, "DensePull", s)' =>
                             \A r \in RowsOf(s)' : got'[v][s][r] = vec'.data[r]
             /\ Op(v)' \in {"synced", "SparseExport"} => model'[v] = vec'.data
  <2>0. raised' = raised /\ job' = job /\ job.sound /\ Servers' = Servers /\ \A s : RowsOf(s)' = RowsOf(s)
    BY <1>5, WorkerDataStep DEF WorkerData, Servers, RowsOf
  <2>1. Live
    BY <2>0 DEF Live
  <2>2. ASSUME Now' = Now
        PROVE  \A u \in Workers :
            /\ \A s \in Servers : Ans(u, "DensePull", s) =>
                  \A r \in RowsOf(s) : got[u][s][r] = vec.data[r]
            /\ Op(u) \in {"synced", "SparseExport"} => model[u] = vec.data
    BY <2>0, <2>1, <2>2 DEF ModelInv
  <2>3. CASE Fails(w)
    BY <1>3, <2>3, FailFacts
  <2>4. CASE Asks(w)
    <3>1. KeepsPlace /\ Others(w) /\ todo'[w] = Servers
      BY <2>4, AskFacts
    <3>2. SendsVec(w) /\ UNCHANGED <<got, model>>
      BY <2>4 DEF Asks
    <3>3. vec' = vec
      BY <3>1, <3>2, OpStage DEF SendsVec, KeepsPlace
    <3>4. ASSUME NEW s \in Servers, Ans(v, "DensePull", s)' PROVE Ans(v, "DensePull", s)
      BY <3>1, <3>4 DEF Ans, Others, KeepsPlace
    <3> QED
      BY <2>0, <2>2, <3>1, <3>2, <3>3, <3>4 DEF KeepsPlace
  <2>5. CASE GoesOn(w)
    <3>1. Now' = Now /\ Others(w) /\ MovesOn(w)
      BY <2>5, GoFacts
    <3>2. /\ UNCHANGED <<sent, todo, got, model>> /\ ~sent[w]
          /\ Op(w) \in {"SparseReadMeta", "DenseReadMeta", "Import", "SparsePush", "DensePush", "SparsePullReadOnly"}
          /\ vec' = IF w = 0 /\ Op(w) = "DenseReadMeta" THEN saved.vec ELSE vec
      BY <2>5 DEF GoesOn
    <3>3. vec' = vec /\ Op(w) = "SparsePullReadOnly"
      BY <3>1, <3>2, OpStage
    <3>4. Op(w)' = "DensePull"
      BY <3>1, <3>3 DEF MovesOn, Edge
    <3>5. CASE v = w
      BY <3>2, <3>4, <3>5 DEF Ans
    <3>6. CASE v # w
      BY <2>0, <2>2, <3>1, <3>2, <3>3, <3>6 DEF Ans, Others
    <3> QED
      BY <3>5, <3>6
  <2>6. CASE ComesBack(w)
    <3>1. /\ Now' = Now /\ Others(w) /\ ~sent'[w] /\ prog[w] # <<>>
          /\ (Op(w) = "Import" => Op(w)' = "Import") /\ (Op(w) # "Import" => MovesOn(w))
          /\ model'[w] = IF Op(w) = "DensePull" THEN Assembled(w) ELSE model[w]
      BY <2>6, ComeFacts
    <3>2. vec' = vec /\ sent[w] /\ todo[w] = {} /\ ~raised[w]
      BY <2>6 DEF ComesBack
    <3>3. CASE v # w
      <4>1. /\ Op(v)' = Op(v) /\ sent'[v] = sent[v] /\ todo'[v] = todo[v] /\ got'[v] = got[v] /\ model'[v] = model[v]
        BY <3>1, <3>3 DEF Others
      <4> QED
        BY <2>0, <2>2, <3>1, <3>2, <4>1 DEF Ans
    <3>4. CASE v = w
      <4>1. \A s : ~Ans(v, "DensePull", s)'
        BY <3>1, <3>4 DEF Ans
      <4>2. ASSUME Op(w)' \in {"synced", "SparseExport"} PROVE model'[w] = vec'.data
        <5>1. Op(w) \in {"DensePull", "SparseExport"}
          BY <3>1, <4>2, NoneApart DEF MovesOn, Edge, ComesBack
        <5>2. CASE Op(w) = "SparseExport"
          BY <2>2, <3>1, <3>2, <5>2
        <5>3. CASE Op(w) = "DensePull"
          <6>1. \A s \in Servers : \A r \in RowsOf(s) : got[w][s][r] = vec.data[r]
            BY <2>2, <3>1, <3>2, <5>3 DEF Ans
          <6>2. ASSUME NEW r \in AllRows PROVE got[w][OwnerOf(r)][r] = vec.data[r]
            <7>1. OwnerOf(r) \in Servers /\ r \in RowsOf(OwnerOf(r))
              BY <3>1, HasServers, OwnerHasRow DEF BaseInv, CheckpointInv
            <7> HIDE DEF OwnerOf, RowsOf
            <7> QED
              BY <6>1, <7>1
          <6>3. vec.data \in Tensors
            BY <2>0, <2>1 DEF DenseInv, IsVec
          <6>4. Assembled(w) = vec.data
            <7> HIDE DEF OwnerOf
            <7> QED
              BY <6>2, <6>3 DEF Assembled, Tensors
          <6> QED
            BY <3>1, <3>2, <5>3, <6>4
        <5> QED
          BY <5>1, <5>2, <5>3
      <4> QED
        BY <3>4, <4>1, <4>2
    <3> QED
      BY <3>3, <3>4
  <2> QED
    BY <1>0, <1>5, <2>3, <2>4, <2>5, <2>6, WorkerCases
<1>6. ASSUME NEW w \in Workers, NEW s \in Servers, Handle(w, s), NEW v \in Workers
      PROVE  /\ \A t \in Servers' : Ans(v, "DensePull", t)' =>
                             \A r \in RowsOf(t)' : got'[v][t][r] = vec'.data[r]
             /\ Op(v)' \in {"synced", "SparseExport"} => model'[v] = vec'.data
  <2>1. HandleFrame(w, s) /\ HandleDone(w, s)
    BY <1>6, HandleCases, RefusedIsNotLive DEF BaseInv, CheckpointInv
  <2>2. /\ KeepsPlace /\ sent' = sent /\ prog[w] # <<>>
        /\ todo'[w] = todo[w] \ {s} /\ \A u \in Workers : u # w => todo'[u] = todo[u]
    BY <2>1, HandleFacts
  <2>3. UNCHANGED <<vec, model, raised>>
    BY <2>1 DEF HandleFrame, ghost_vars, HandleDone
  <2>4. /\ job' = job /\ Now' = Now /\ Servers' = Servers /\ Live /\ job.sound /\ Op(v)' = Op(v)
        /\ \A t : RowsOf(t)' = RowsOf(t)
    BY <2>2, <2>3 DEF Servers, Live, KeepsPlace, RowsOf
  <2>5. \A u \in Workers :
            /\ \A t \in Servers : Ans(u, "DensePull", t) =>
                  \A r \in RowsOf(t) : got[u][t][r] = vec.data[r]
            /\ Op(u) \in {"synced", "SparseExport"} => model[u] = vec.data
    BY <2>4 DEF ModelInv
  <2>6. ASSUME NEW t \in Servers, Ans(v, "DensePull", t)', NEW r \in RowsOf(t) PROVE got'[v][t][r] = vec.data[r]
    <3>1. Op(v) = "DensePull" /\ sent[v] /\ t \notin todo'[v]
      BY <2>2, <2>4, <2>6 DEF Ans
    <3>2. CASE v = w /\ t = s
      <4>1. got'[v][t] = dense[s].data /\ dmeta[s] # None
        BY <2>1, <3>1, <3>2 DEF HandleDone, AnswerStep, MetaStep, DensePulls
      <4>2. DataThere(s) /\ ~DataAway(s)
        BY <1>0, <2>4, <4>1, OpStage DEF DenseInv, DataAway, Out
      <4>3. Cardinality(DPush(s)) = 0
        BY <2>4, DPushNone
      <4>4. vec.data[r] = dense[s].data[r] + 0
        BY <2>6, <3>2, <4>2, <4>3 DEF DataThere
      <4>5. dense[s].data[r] \in Nat
        <5>1. dense[s] \in [data : SliceRows(s), state : SliceRows(s)]
          BY <4>1 DEF DataInv, RowsInv
        <5>2. dense[s].data \in SliceRows(s)
          BY <5>1
        <5> QED
          BY <2>6, <3>2, <5>2 DEF SliceRows
      <4> QED
        BY <4>1, <4>4, <4>5
    <3>3. CASE v # w \/ t # s
      <4>1. got'[v][t] = got[v][t]
        BY <2>1, <3>3 DEF HandleFrame
      <4>2. Ans(v, "DensePull", t)
        BY <2>2, <3>1, <3>3 DEF Ans
      <4> QED
        BY <2>5, <2>6, <4>1, <4>2
    <3> QED
      BY <3>2, <3>3
  <2> QED
    BY <2>3, <2>4, <2>5, <2>6
<1> QED
  BY <1>1, <1>2, <1>4, <1>5, <1>6 DEF Next

\* At a barrier.
LEMMA DenseAtBarrier ==
    ASSUME BaseInv, DataInv, DenseInv, AtBarrier, job.sound, NEW s \in Servers, dmeta[s] # None, NEW r \in RowsOf(s)
    PROVE  dense[s].data[r] = vec.data[r] /\ dense[s].state[r] = vec.state[r]
<1>1. Live /\ 0 \in Workers /\ \A w \in Workers : todo[w] = {} /\ Op(w) \in Barriers
  BY BarrierFacts, ZeroIsWorker
<1>2. DataThere(s) /\ StateThere(s)
  BY <1>1 DEF DenseInv
<1>3. ~DataAway(s) /\ ~StateAway(s)
  BY <1>1 DEF DataAway, StateAway, Out, Barriers
<1>4. Cardinality(DPush(s)) = 0
  BY <1>1, DPushNone
<1>5. vec.data[r] = dense[s].data[r] + 0 /\ vec.state[r] = dense[s].state[r] + 0
  BY <1>2, <1>3, <1>4 DEF DataThere, StateThere
<1>6. dense[s] \in [data : SliceRows(s), state : SliceRows(s)]
  BY DEF DataInv, RowsInv
<1>7. dense[s].data \in SliceRows(s) /\ dense[s].state \in SliceRows(s)
  BY <1>6
<1>8. dense[s].data[r] \in Nat /\ dense[s].state[r] \in Nat
  BY <1>7 DEF SliceRows
<1> QED
  BY <1>5, <1>8

\* All workers have pulled the same tensor when they reach the barrier.
LEMMA ModelsAtBarrier == BaseInv /\ ModelInv => ModelsAgree
<1> SUFFICES ASSUME BaseInv, ModelInv, AtBarrier, job.sound, NEW w \in Workers, Op(w) = "synced", NEW v \in Workers
             PROVE  model[v] = vec.data
  BY DEF ModelsAgree
<1>1. Live /\ Op(v) \in Barriers
  BY BarrierFacts
<1>2. Now \in {13, 9, 1}
  BY OpStage
<1>3. Op(v) = "synced"
  BY <1>1, <1>2, OpStage DEF Barriers
<1> QED
  BY <1>1, <1>2, <1>3 DEF ModelInv

\* The dense tensor at the beginning.
LEMMA DenseStart == Init => LoadInv /\ SavedDenseInv /\ DenseInv /\ ModelInv
<1> SUFFICES ASSUME Init PROVE LoadInv /\ SavedDenseInv /\ DenseInv /\ ModelInv
  OBVIOUS
<1>0. /\ Servers = {} /\ 0 \in Workers /\ Op(0) = None /\ (\A w \in Workers : Op(w) = None) /\ Zeros \in Tensors
      /\ vec = [data |-> Zeros, state |-> Zeros] /\ job.loads = FALSE /\ intact = FALSE
      /\ ~Ans(0, "DenseSaveState", 0)
  BY ZeroIsWorker DEF Init, Servers, Op, Zeros, Tensors, Ans
<1>1. vec.data = Zeros /\ vec.state = Zeros /\ IsVec(vec)
  BY <1>0 DEF IsVec
<1>2. LoadInv /\ SavedDenseInv
  BY <1>0 DEF LoadInv, SavedDenseInv
<1>3. DenseInv
  BY <1>0, <1>1, NoneApart DEF DenseInv
<1>4. ModelInv
  BY <1>0, NoneApart DEF ModelInv
<1> QED
  BY <1>2, <1>3, <1>4

DenseParts == LoadInv /\ SavedDenseInv /\ DenseInv /\ ModelInv

\* initialize, load and export leave the same dense tensor in the modules of all
\* workers, that of the servers (DistributedTrainer.initialize and load,
\* Model.export: the pull of the dense tensor before a barrier).
THEOREM TrainerModelsAgree == Spec => []ModelsAgree
<1>1. Init => SoundInv /\ DenseParts
  BY BaseInit, DataInit, DenseStart DEF SoundInv, DenseParts
<1>2. SoundInv /\ DenseParts /\ [Next]_vars => SoundInv' /\ DenseParts'
  BY BaseNext, DataNext, LoadNext, SavedDenseNext, DenseNext, ModelNext DEF SoundInv, DenseParts
<1>3. SoundInv /\ DenseParts => ModelsAgree
  BY ModelsAtBarrier DEF SoundInv, DenseParts
<1> QED
  BY <1>1, <1>2, <1>3, PTL DEF Spec

-----------------------------------------------------------------------------
(***************************************************************************)
(* The sparse tensor.  Every map is a function; a worker that imports goes *)
(* through the files of its own, one after another.                        *)
(***************************************************************************)
Slice(m, s, n) == Keep(m, {k \in DOMAIN m : Part(k, n) = s})

Whole(m) == m = [k \in DOMAIN m |-> m[k]]
WholeInv == Whole(table) /\ Whole(saved.table)

ImportInv ==
    \A w \in Workers :
        /\ Now \in 11..16 \/ Op(w) \in {"SparseReadMeta", "SparsePushMeta"} => file[w] = w
        /\ Op(w) = "Import" /\ sent[w] => file[w] < job.old
        /\ Now = 10 /\ job.old # job.n /\ Op(w) \notin {"SparseReadMeta", "SparsePushMeta", "Import"}
              => file[w] >= job.old

\* A complete checkpoint of a sound job has the keys of a server in its file.
SavedSparseInv ==
    intact /\ saved.sound =>
        \A i \in 0..(disk.count - 1) : disk.file[i].entries = Slice(saved.table, i, disk.count)

\* Servers hold nothing before the tensors are loaded.
NothingYet == table = EmptyMap /\ \A s \in Servers : sparse[s] = EmptyMap

\* The load has brought key k to server s.
Loaded(s) ==
    \/ Ans(0, "SparseLoad", s)
    \/ Op(0) \notin {"SparseReadMeta", "SparsePushMeta", "SparseLoad"}
Imported(i, s) ==
    LET w == i % WorkerCount
    IN i < file[w] \/ (i = file[w] /\ Ans(w, "Import", s))
Arrived(k, s) == IF job.old = job.n THEN Loaded(s) ELSE Imported(Part(k, job.old), s)

Arrivals(s) == {k \in DOMAIN saved.table : Part(k, job.n) = s /\ Arrived(k, s)}
Loading ==
    /\ table = IF Op(0) = "SparseReadMeta" THEN EmptyMap ELSE saved.table
    /\ \A s \in Servers : sparse[s] = Keep(saved.table, Arrivals(s))

\* Worker w has an update of key k on its way to server s; makes it a vector.
Pushing(s, k) == {w \in Workers : Out(w, "SparsePush", s) /\ k \in keys[w]}
Makes(w, s, k) ==
    /\ Out(w, "SparsePush", s) \/ (Out(w, "SparsePull", s) /\ k # PaddingKey)
    /\ k \in keys[w]

Vector(s, k) == IF k \in DOMAIN sparse[s] THEN sparse[s][k] ELSE Fresh
TrainKey(s, k) ==
    /\ table[k].v = Vector(s, k).v + Cardinality(Pushing(s, k))
    /\ table[k].age = IF Pushing(s, k) = {} THEN Vector(s, k).age ELSE 0
    /\ k \in DOMAIN sparse[s] \/ \E w \in Workers : Makes(w, s, k)
Training(s) ==
    /\ Whole(sparse[s])
    /\ \A k \in DOMAIN sparse[s] : k \in DOMAIN table /\ Part(k, job.n) = s
    /\ \A k \in DOMAIN table : Part(k, job.n) = s => TrainKey(s, k)
Asked(w) ==
    /\ Op(w) = "SparsePull" /\ sent[w] => keys[w] \ {PaddingKey} \subseteq DOMAIN table
    /\ Op(w) = "SparsePush" /\ sent[w] => keys[w] \subseteq DOMAIN table

\* What server s will hold when it has handled the requests of worker 0.
Expect(s) ==
    IF Out(0, "SparsePruneOld", s) THEN PruneOld(sparse[s], MaxAge)
    ELSE IF Out(0, "SparsePruneSmall", s) THEN PruneSmall(sparse[s])
    ELSE sparse[s]
Trained(s) == Expect(s) = Slice(table, s, job.n)

NoZeros == \A k \in DOMAIN table : table[k].v # 0
Pruned == Now < 3 \/ (Now = 3 /\ (Op(0) = "SparsePruneSmall" => sent[0]))

SparseInv ==
    job.sound /\ Live =>
        /\ Now \in 11..16 => NothingYet
        /\ Now = 10 => Loading
        /\ Now \in 8..9 => (\A s \in Servers : Training(s)) /\ (\A w \in Workers : Asked(w))
        /\ Now \in 0..7 => \A s \in Servers : Trained(s)
        /\ Pruned => NoZeros

\* Maps are equal when they have the same keys and vectors.
LEMMA MapEqual ==
    ASSUME NEW f, NEW g, Whole(f), Whole(g), DOMAIN f = DOMAIN g, \A k \in DOMAIN f : f[k] = g[k]
    PROVE  f = g
BY DEF Whole

\* What the operators of a partition make is a function.
LEMMA WholeMaps ==
    ASSUME NEW m, NEW e, NEW ks
    PROVE  /\ Whole(EmptyMap) /\ Whole(FindOrInit(m, ks)) /\ Whole(HandlePush(m, ks)) /\ Whole(Keep(m, ks))
           /\ Whole(HandlePushPartition(m, e)) /\ Whole(PruneOld(m, MaxAge)) /\ Whole(PruneSmall(m))
<1>1. Whole(EmptyMap) /\ Whole(FindOrInit(m, ks)) /\ Whole(Keep(m, ks)) /\ Whole(HandlePushPartition(m, e))
  BY DEF Whole, EmptyMap, FindOrInit, Keep, HandlePushPartition
<1>2. Whole(HandlePush(m, ks))
  BY DEF Whole, HandlePush
<1>3. \A f, s : Whole(Keep(f, s))
  BY DEF Whole, Keep
<1>4. Whole(PruneOld(m, MaxAge)) /\ Whole(PruneSmall(m))
  BY <1>3 DEF PruneOld, PruneSmall
<1> QED
  BY <1>1, <1>2, <1>4

\* A union of maps is a function.
LEMMA WholeUnion ==
    ASSUME NEW maps
    PROVE  Whole(Union(maps))
BY DEF Whole, Union

\* The vectors that are left by prune_small.
LEMMA SmallValue ==
    ASSUME NEW m
    PROVE  /\ DOMAIN PruneSmall(m) = {k \in DOMAIN m : m[k].v # 0}
           /\ \A k \in DOMAIN PruneSmall(m) : PruneSmall(m)[k] = m[k]
BY DEF PruneSmall, Keep

\* The keys of one server.
LEMMA SliceValue ==
    ASSUME NEW m, NEW s, NEW n
    PROVE  /\ \A k : k \in DOMAIN Slice(m, s, n) <=> k \in DOMAIN m /\ Part(k, n) = s
           /\ \A k \in DOMAIN Slice(m, s, n) : Slice(m, s, n)[k] = m[k]
           /\ Whole(Slice(m, s, n))
<1> QED
  BY WholeMaps DEF Slice, Keep

\* A slice of a map is a map.
LEMMA SliceMap ==
    ASSUME NEW m, IsMap(m), NEW s, NEW n
    PROVE  IsMap(Slice(m, s, n))
<1>1. PICK ks : ks = {k \in DOMAIN m : Part(k, n) = s}
  OBVIOUS
<1>2. ks \in SUBSET DOMAIN m
  BY <1>1
<1> QED
  BY <1>1, <1>2, MapKeep DEF Slice

\* Nothing has no slices.
LEMMA SliceEmpty ==
    ASSUME NEW s, NEW n
    PROVE  Slice(EmptyMap, s, n) = EmptyMap
<1>1. DOMAIN Slice(EmptyMap, s, n) = DOMAIN EmptyMap
  BY SliceValue, MapEmpty
<1> QED
  BY <1>1, SliceValue, WholeMaps, MapEqual, MapEmpty

\* Pruning the partitions prunes the tensor.
LEMMA SliceOld ==
    ASSUME NEW m, IsMap(m), NEW s, NEW n
    PROVE  PruneOld(Slice(m, s, n), MaxAge) = Slice(PruneOld(m, MaxAge), s, n)
<1>1. PICK p : p = Slice(m, s, n)
  OBVIOUS
<1>2. PICK o : o = PruneOld(m, MaxAge)
  OBVIOUS
<1>3. /\ \A k : k \in DOMAIN p <=> k \in DOMAIN m /\ Part(k, n) = s
      /\ \A k \in DOMAIN p : p[k] = m[k]
  BY <1>1, SliceValue
<1>4. /\ DOMAIN o = {k \in DOMAIN m : m[k].age + 1 <= MaxAge}
      /\ \A k \in DOMAIN o : o[k] = [v |-> m[k].v, age |-> m[k].age + 1]
  BY <1>2, OldValue
<1>5. IsMap(p)
  BY <1>1, SliceMap
<1>6. /\ DOMAIN PruneOld(p, MaxAge) = {k \in DOMAIN p : p[k].age + 1 <= MaxAge}
      /\ \A k \in DOMAIN PruneOld(p, MaxAge) : PruneOld(p, MaxAge)[k] = [v |-> p[k].v, age |-> p[k].age + 1]
  BY <1>5, OldValue
<1>7. /\ \A k : k \in DOMAIN Slice(o, s, n) <=> k \in DOMAIN o /\ Part(k, n) = s
      /\ \A k \in DOMAIN Slice(o, s, n) : Slice(o, s, n)[k] = o[k]
  BY SliceValue
<1>8. DOMAIN PruneOld(p, MaxAge) = DOMAIN Slice(o, s, n)
  BY <1>3, <1>4, <1>6, <1>7
<1>9. \A k \in DOMAIN Slice(o, s, n) : PruneOld(p, MaxAge)[k] = Slice(o, s, n)[k]
  BY <1>3, <1>4, <1>6, <1>7, <1>8
<1>10. Whole(PruneOld(p, MaxAge)) /\ Whole(Slice(o, s, n))
  BY WholeMaps, SliceValue
<1> QED
  BY <1>1, <1>2, <1>8, <1>9, <1>10, MapEqual

\* The same of prune_small.
LEMMA SliceSmall ==
    ASSUME NEW m, NEW s, NEW n
    PROVE  PruneSmall(Slice(m, s, n)) = Slice(PruneSmall(m), s, n)
<1>1. PICK p : p = Slice(m, s, n)
  OBVIOUS
<1>2. PICK o : o = PruneSmall(m)
  OBVIOUS
<1>3. /\ \A k : k \in DOMAIN p <=> k \in DOMAIN m /\ Part(k, n) = s
      /\ \A k \in DOMAIN p : p[k] = m[k]
  BY <1>1, SliceValue
<1>4. /\ DOMAIN o = {k \in DOMAIN m : m[k].v # 0} /\ \A k \in DOMAIN o : o[k] = m[k]
  BY <1>2, SmallValue
<1>6. /\ DOMAIN PruneSmall(p) = {k \in DOMAIN p : p[k].v # 0}
      /\ \A k \in DOMAIN PruneSmall(p) : PruneSmall(p)[k] = p[k]
  BY SmallValue
<1>7. /\ \A k : k \in DOMAIN Slice(o, s, n) <=> k \in DOMAIN o /\ Part(k, n) = s
      /\ \A k \in DOMAIN Slice(o, s, n) : Slice(o, s, n)[k] = o[k]
  BY SliceValue
<1>8. DOMAIN PruneSmall(p) = DOMAIN Slice(o, s, n)
  <2>1. ASSUME NEW k PROVE k \in DOMAIN PruneSmall(p) <=> k \in DOMAIN Slice(o, s, n)
    BY <1>3, <1>4, <1>6, <1>7
  <2> QED
    BY <2>1
<1>9. \A k \in DOMAIN Slice(o, s, n) : PruneSmall(p)[k] = Slice(o, s, n)[k]
  BY <1>3, <1>4, <1>6, <1>7, <1>8
<1>10. Whole(PruneSmall(p)) /\ Whole(Slice(o, s, n))
  BY WholeMaps, SliceValue
<1> QED
  BY <1>1, <1>2, <1>8, <1>9, <1>10, MapEqual

\* A key belongs to one server.
LEMMA PartRange ==
    ASSUME NEW k \in Nat, NEW n \in Nat \ {0}
    PROVE  Part(k, n) \in 0..(n - 1)
BY DEF Part

\* The partitions make up the tensor, and have no key in common.
LEMMA UnionOfSlices ==
    ASSUME NEW m, IsMap(m), Whole(m), NEW n \in Nat \ {0}, NEW maps, DOMAIN maps = 0..(n - 1),
           \A s \in 0..(n - 1) : maps[s] = Slice(m, s, n)
    PROVE  /\ Union(maps) = m
           /\ \A s, t \in 0..(n - 1) : s # t => DOMAIN maps[s] \cap DOMAIN maps[t] = {}
<1> DEFINE ks == UNION {DOMAIN maps[s] : s \in DOMAIN maps}
           at(k) == CHOOSE t \in DOMAIN maps : k \in DOMAIN maps[t]
<1>1. \A s \in 0..(n - 1) : /\ \A k : k \in DOMAIN maps[s] <=> k \in DOMAIN m /\ Part(k, n) = s
                            /\ \A k \in DOMAIN maps[s] : maps[s][k] = m[k]
  BY SliceValue
<1>2. \A k \in DOMAIN m : Part(k, n) \in 0..(n - 1)
  BY PartRange DEF IsMap
<1>3. ks = DOMAIN m
  <2>1. ASSUME NEW k \in DOMAIN m PROVE k \in ks
    BY <1>1, <1>2
  <2>2. ASSUME NEW k \in ks PROVE k \in DOMAIN m
    BY <1>1
  <2> QED
    BY <2>1, <2>2
<1>4. Union(maps) = [k \in ks |-> maps[at(k)][k]]
  BY DEF Union
<1>5. ASSUME NEW k \in ks PROVE at(k) \in DOMAIN maps /\ k \in DOMAIN maps[at(k)]
  <2>1. \E t \in DOMAIN maps : k \in DOMAIN maps[t]
    OBVIOUS
  <2> QED
    BY <2>1
<1> HIDE DEF ks, at
<1>6. DOMAIN Union(maps) = ks /\ \A k \in ks : Union(maps)[k] = maps[at(k)][k]
  BY <1>4
<1>7. \A k \in DOMAIN m : Union(maps)[k] = m[k]
  BY <1>1, <1>3, <1>5, <1>6
<1>8. Union(maps) = m
  BY <1>3, <1>6, <1>7, WholeUnion, MapEqual
<1>9. ASSUME NEW s \in 0..(n - 1), NEW t \in 0..(n - 1), s # t PROVE DOMAIN maps[s] \cap DOMAIN maps[t] = {}
  BY <1>1, <1>9
<1> QED
  BY <1>8, <1>9

\* The files of a worker are WorkerCount apart.
LEMMA NextFile ==
    ASSUME NEW w \in Workers, NEW f \in Nat, f % WorkerCount = w, NEW i \in Nat, i % WorkerCount = w
    PROVE  i < f + WorkerCount <=> i < f \/ i = f
<1> DEFINE W == WorkerCount
<1>1. W \in Nat \ {0}
  BY TrainerAssumption
<1> HIDE DEF W
<1>2. PICK p \in Int : f = p * W + w
  <2>1. f \div W \in Int /\ f = (f \div W) * W + (f % W)
    BY <1>1, DivFacts
  <2> QED
    BY <2>1 DEF W
<1>3. PICK q \in Int : i = q * W + w
  <2>1. i \div W \in Int /\ i = (i \div W) * W + (i % W)
    BY <1>1, DivFacts
  <2> QED
    BY <2>1 DEF W
<1>4. w \in Nat /\ w < W
  BY <1>1 DEF Workers, W
<1>5. CASE q <= p - 1
  <2>1. (p - q) * W >= W
    BY <1>1, <1>5, SMT
  <2>2. f - i = (p - q) * W
    BY <1>1, <1>2, <1>3, <1>4, SMT
  <2>3. i < f
    BY <1>1, <2>1, <2>2
  <2> QED
    BY <1>1, <2>3 DEF W
<1>6. CASE q = p
  BY <1>1, <1>2, <1>3, <1>6 DEF W
<1>7. CASE q >= p + 1
  <2>1. (q - p) * W >= W
    BY <1>1, <1>7, SMT
  <2>2. i - f = (q - p) * W
    BY <1>1, <1>2, <1>3, <1>4, SMT
  <2>3. i >= f + W
    BY <1>1, <2>1, <2>2
  <2> QED
    BY <1>1, <2>3 DEF W
<1> QED
  BY <1>5, <1>6, <1>7

\* What the sparse tensor should hold is always a function.
LEMMA WholeNext == BaseInv /\ WholeInv /\ [Next]_vars => WholeInv'
<1> SUFFICES ASSUME BaseInv, WholeInv, [Next]_vars PROVE WholeInv'
  OBVIOUS
<1>0. WaitInv /\ Whole(table) /\ Whole(saved.table)
  BY DEF BaseInv, CheckpointInv, OrderInv, WholeInv
<1>1. CASE NewJob
  <2>1. saved' = saved /\ table' = EmptyMap
    BY <1>1, StartFacts
  <2>2. Whole(EmptyMap)
    BY WholeMaps
  <2> QED
    BY <1>0, <2>1, <2>2 DEF WholeInv
<1>2. CASE Barrier \/ Over \/ UNCHANGED vars
  <2>1. saved' = saved /\ table' = table
    BY <1>2, PassFacts DEF Over, vars, ghost_vars
  <2> QED
    BY <1>0, <2>1 DEF WholeInv
<1>3. ASSUME NEW w \in Workers, WorkerStep(w) PROVE WholeInv'
  <2>1. CASE Fails(w)
    BY <1>0, <2>1, FailFacts DEF WholeInv
  <2>2. CASE Asks(w)
    <3>1. saved' = saved /\ SendsKeys(w) /\ SendsTable(w)
      BY <2>2 DEF Asks
    <3>2. Whole(table')
      <4>1. CASE Op(w) = "SparsePull"
        <5>1. PICK ks : table' = FindOrInit(table, ks)
          BY <3>1, <4>1 DEF SendsKeys
        <5> QED
          BY <5>1, WholeMaps
      <4>2. CASE Op(w) \in {"SparsePush", "SparseClear", "SparsePruneOld", "SparsePruneSmall"}
        BY <3>1, <4>2, WholeMaps DEF SendsTable
      <4>3. CASE Op(w) \notin {"SparsePull", "SparsePush", "SparseClear", "SparsePruneOld", "SparsePruneSmall"}
        BY <1>0, <3>1, <4>3 DEF SendsTable
      <4> QED
        BY <4>1, <4>2, <4>3
    <3> QED
      BY <1>0, <3>1, <3>2 DEF WholeInv
  <2>3. CASE GoesOn(w)
    <3>1. saved' = saved /\ table' \in {table, saved.table}
      BY <2>3 DEF GoesOn
    <3> QED
      BY <1>0, <3>1 DEF WholeInv
  <2>4. CASE ComesBack(w)
    <3>1. table' = table /\ (saved' = saved \/ saved' = Held)
      BY <2>4, DiskComes DEF ComesBack
    <3>2. Whole(Held.table)
      <4>1. Held.table = Union(sparse)
        BY DEF Held
      <4> QED
        BY <4>1, WholeUnion
    <3> QED
      BY <1>0, <3>1, <3>2 DEF WholeInv
  <2> QED
    BY <1>0, <1>3, <2>1, <2>2, <2>3, <2>4, WorkerCases
<1>4. ASSUME NEW w \in Workers, NEW s \in Servers, Handle(w, s) PROVE WholeInv'
  <2>1. HandleFrame(w, s)
    BY <1>4, HandleCases DEF BaseInv, CheckpointInv
  <2>2. UNCHANGED <<table, saved>>
    BY <2>1 DEF HandleFrame, ghost_vars
  <2> QED
    BY <1>0, <2>2 DEF WholeInv
<1> QED
  BY <1>1, <1>2, <1>3, <1>4 DEF Next

\* Where the workers are in the files of their own.
LEMMA ImportNext == BaseInv /\ ImportInv /\ [Next]_vars => ImportInv'
<1> SUFFICES ASSUME BaseInv, ImportInv, [Next]_vars, NEW v \in Workers
             PROVE  /\ Now' \in 11..16 \/ Op(v)' \in {"SparseReadMeta", "SparsePushMeta"} => file'[v] = v
                    /\ Op(v)' = "Import" /\ sent'[v] => file'[v] < job'.old
                    /\ Now' = 10 /\ job'.old # job'.n
                       /\ Op(v)' \notin {"SparseReadMeta", "SparsePushMeta", "Import"} => file'[v] >= job'.old
  BY DEF ImportInv
<1>0. /\ Now \in 11..16 \/ Op(v) \in {"SparseReadMeta", "SparsePushMeta"} => file[v] = v
      /\ Op(v) = "Import" /\ sent[v] => file[v] < job.old
      /\ Now = 10 /\ job.old # job.n /\ Op(v) \notin {"SparseReadMeta", "SparsePushMeta", "Import"}
            => file[v] >= job.old
  BY DEF ImportInv
<1>1. CASE NewJob
  <2>1. Now' = 16 /\ Op(v)' = "barrier" /\ file'[v] = v
    BY <1>1, StartFacts
  <2> QED
    BY <2>1
<1>2. CASE Barrier
  <2>1. /\ Now' = IF Now = 13 /\ ~job.loads THEN 8 ELSE Now - 1
        /\ Now \in 1..16 /\ file' = file /\ ~sent'[v] /\ Op(v) \in Barriers /\ MovesOn(v)
    BY <1>2, PassFacts
  <2>2. Op(v)' \in {"SparseReadMeta", "SparsePushMeta"} => Now = 11
    BY <2>1, NoneApart DEF MovesOn, Edge, Barriers
  <2>3. Now = 11 => Op(v)' = "SparseReadMeta"
    BY <2>1 DEF MovesOn, Edge, Barriers
  <2>4. Now' \in 11..16 => Now \in 11..16
    BY <2>1
  <2>5. Now' = 10 => Now = 11
    BY <2>1
  <2> QED
    BY <1>0, <2>1, <2>2, <2>3, <2>4, <2>5
<1>3. ASSUME KeepsPlace, UNCHANGED <<sent, file>>
      PROVE  /\ Now' \in 11..16 \/ Op(v)' \in {"SparseReadMeta", "SparsePushMeta"} => file'[v] = v
             /\ Op(v)' = "Import" /\ sent'[v] => file'[v] < job'.old
             /\ Now' = 10 /\ job'.old # job'.n
                /\ Op(v)' \notin {"SparseReadMeta", "SparsePushMeta", "Import"} => file'[v] >= job'.old
  <2>1. job' = job /\ Now' = Now /\ Op(v)' = Op(v)
    BY <1>3 DEF KeepsPlace
  <2> QED
    BY <1>0, <1>3, <2>1
<1>4. CASE Over \/ UNCHANGED vars
  <2>1. UNCHANGED <<job, prog, sent, file>>
    BY <1>4 DEF Over, vars, worker_vars
  <2> QED
    BY <1>3, <2>1, Stays DEF KeepsPlace
<1>5. ASSUME NEW w \in Workers, WorkerStep(w), ~Fails(w)
      PROVE  /\ Now' \in 11..16 \/ Op(v)' \in {"SparseReadMeta", "SparsePushMeta"} => file'[v] = v
             /\ Op(v)' = "Import" /\ sent'[v] => file'[v] < job'.old
             /\ Now' = 10 /\ job'.old # job'.n
                /\ Op(v)' \notin {"SparseReadMeta", "SparsePushMeta", "Import"} => file'[v] >= job'.old
  <2>0. Asks(w) \/ GoesOn(w) \/ ComesBack(w)
    BY <1>5, WorkerCases DEF BaseInv, CheckpointInv, OrderInv
  <2>1. job' = job /\ Now' = Now /\ Others(w)
    BY <2>0, AskFacts, GoFacts, ComeFacts DEF KeepsPlace
  <2>2. CASE v # w
    <3>1. Op(v)' = Op(v) /\ sent'[v] = sent[v] /\ file'[v] = file[v]
      BY <2>1, <2>2 DEF Others
    <3> QED
      BY <1>0, <2>1, <3>1
  <2>3. CASE v = w /\ Asks(w)
    <3>1. Op(v)' = Op(v) /\ file'[v] = file[v] /\ (Op(v) = "Import" => file[v] < job.old)
      BY <2>3, AskFacts DEF KeepsPlace, Asks
    <3> QED
      BY <1>0, <2>1, <3>1
  <2>4. CASE v = w /\ GoesOn(w)
    <3>1. MovesOn(v) /\ file'[v] = file[v] /\ ~sent'[v] /\ (Op(v) = "Import" => file[v] >= job.old)
      BY <2>4, GoFacts DEF GoesOn
    <3>2. /\ Op(v)' \in {"SparseReadMeta", "SparsePushMeta"} => Op(v) = "SparseReadMeta" \/ Now \in 11..16
          /\ Now = 10 /\ job.old # job.n /\ Op(v) \in {"SparseReadMeta", "SparsePushMeta"}
                => Op(v)' \in {"SparsePushMeta", "Import"}
      BY <3>1, NoneApart DEF MovesOn, Edge
    <3> QED
      BY <1>0, <2>1, <3>1, <3>2
  <2>5. CASE v = w /\ ComesBack(w)
    <3>1. ~sent'[v]
      BY <2>5, ComeFacts
    <3>2. CASE Op(v) = "Import"
      <4>1. Op(v)' = "Import" /\ Now = 10
        BY <2>5, <3>2, ComeFacts, OpStage
      <4> QED
        BY <2>1, <3>1, <4>1
    <3>3. CASE Op(v) # "Import"
      <4>1. MovesOn(v) /\ file'[v] = file[v]
        BY <2>5, <3>3, ComeFacts
      <4>2. /\ Op(v)' \in {"SparseReadMeta", "SparsePushMeta"} => Op(v) = "SparseReadMeta" \/ Now \in 11..16
            /\ Now = 10 /\ job.old # job.n /\ Op(v) \in {"SparseReadMeta", "SparsePushMeta"}
                  => Op(v)' \in {"SparsePushMeta", "Import"}
        BY <4>1, NoneApart DEF MovesOn, Edge
      <4> QED
        BY <1>0, <2>1, <3>1, <3>3, <4>1, <4>2
    <3> QED
      BY <3>2, <3>3
  <2> QED
    BY <2>0, <2>2, <2>3, <2>4, <2>5
<1>6. ASSUME NEW w \in Workers, Fails(w)
      PROVE  KeepsPlace /\ UNCHANGED <<sent, file>>
  BY <1>6, FailFacts
<1>7. ASSUME NEW w \in Workers, NEW s \in Servers, Handle(w, s)
      PROVE  KeepsPlace /\ UNCHANGED <<sent, file>>
  <2>1. HandleFrame(w, s)
    BY <1>7, HandleCases DEF BaseInv, CheckpointInv
  <2> QED
    BY <2>1, HandleFacts DEF HandleFrame
<1> QED
  BY <1>1, <1>2, <1>3, <1>4, <1>5, <1>6, <1>7 DEF Next

\* When worker 0 saves nothing is on its way to the servers: they hold the tensor.
LEMMA HeldTable ==
    ASSUME BaseInv, DataInv, WholeInv, job.n \in ServerCounts,
           \A s \in Servers : sparse[s] = Slice(table, s, job.n)
    PROVE  /\ Union(sparse) = table /\ Held.table = table
           /\ \A s, t \in Servers : s # t => DOMAIN sparse[s] \cap DOMAIN sparse[t] = {}
<1>1. job.n \in Nat \ {0} /\ DOMAIN sparse = 0..(job.n - 1)
  BY TrainerAssumption DEF BaseInv, CheckpointInv, ShapeInv, Servers
<1>2. IsMap(table) /\ Whole(table)
  BY DEF DataInv, MapsInv, WholeInv
<1>3. /\ Union(sparse) = table
      /\ \A s, t \in Servers : s # t => DOMAIN sparse[s] \cap DOMAIN sparse[t] = {}
  BY <1>1, <1>2, UnionOfSlices DEF Servers
<1>4. Held.table = Union(sparse)
  BY DEF Held
<1> QED
  BY <1>3, <1>4

\* A file of a complete checkpoint of a sound job has the slice of its server.
LEMMA SavedSparseNext ==
    BaseInv /\ DataInv /\ WholeInv /\ SparseInv /\ SavedSparseInv /\ [Next]_vars => SavedSparseInv'
<1> SUFFICES ASSUME BaseInv, DataInv, WholeInv, SparseInv, SavedSparseInv, [Next]_vars PROVE SavedSparseInv'
  OBVIOUS
<1>0. WaitInv
  BY DEF BaseInv, CheckpointInv, OrderInv
<1>1. CASE NewJob \/ Barrier \/ Over \/ UNCHANGED vars
  <2>1. UNCHANGED <<disk, saved, intact>>
    BY <1>1, StartFacts, PassFacts DEF Over, vars, disk_vars, ghost_vars
  <2> QED
    BY <2>1 DEF SavedSparseInv
<1>2. ASSUME NEW w \in Workers, WorkerStep(w) PROVE SavedSparseInv'
  <2>1. CASE Fails(w) \/ Asks(w) \/ GoesOn(w)
    <3>1. UNCHANGED <<disk, saved, intact>>
      BY <2>1, FailFacts DEF Asks, GoesOn, disk_vars
    <3> QED
      BY <3>1 DEF SavedSparseInv
  <2>2. CASE ComesBack(w)
    <3>1. /\ disk'.file = disk.file
          /\ disk'.count = IF Op(w) = "SparsePullMeta" THEN job.n ELSE disk.count
      BY <2>2, DiskComes
    <3>2. ComesDisk(w) /\ sent[w] /\ ~raised[w] /\ todo[w] = {} /\ prog[w] # <<>>
      BY <2>2, ComeFacts DEF ComesBack
    <3>3. CASE Op(w) = "DenseSaveState"
      <4>1. w = 0 /\ Now = 5 /\ 0 \in Workers
        BY <3>3, OpStage, ZeroIsWorker DEF SaveOps
      <4>2. Live
        BY <3>2, <4>1, Waits DEF Live
      <4>3. saved' = saved /\ saved = Held /\ disk.count = job.n
        BY <3>2, <3>3, <4>1 DEF ComesDisk, BaseInv, CheckpointInv, SaveInv, SaveOps
      <4>4. saved.sound = job.sound
        <5>1. Held.sound = job.sound
          BY DEF Held
        <5> QED
          BY <4>3, <5>1
      <4>5. \A s \in Servers : Stored(s)
        BY <3>3, <4>1 DEF BaseInv, CheckpointInv, SaveInv
      <4>6. job.n \in ServerCounts
        BY <3>2, HasServers
      <4>7. ASSUME saved.sound PROVE \A i \in 0..(disk.count - 1) : disk.file[i].entries = Slice(saved.table, i, disk.count)
        <5>1. \A s \in Servers : Trained(s)
          BY <4>1, <4>2, <4>4, <4>7 DEF SparseInv
        <5>2. \A s \in Servers : sparse[s] = Slice(table, s, job.n)
          BY <3>3, <4>1, <5>1 DEF Trained, Expect, Out
        <5>3. saved.table = table
          BY <4>3, <4>6, <5>2, HeldTable
        <5> QED
          BY <4>3, <4>5, <5>2, <5>3 DEF Stored, Servers
      <4> QED
        BY <3>1, <3>3, <4>3, <4>7 DEF SavedSparseInv
    <3>4. CASE Op(w) # "DenseSaveState"
      <4>1. ~intact' \/ (UNCHANGED <<saved, intact>> /\ disk'.count = disk.count)
        BY <3>1, <3>2, <3>4 DEF ComesDisk
      <4> QED
        BY <3>1, <4>1 DEF SavedSparseInv
    <3> QED
      BY <3>3, <3>4
  <2> QED
    BY <1>0, <1>2, <2>1, <2>2, WorkerCases
<1>3. ASSUME NEW w \in Workers, NEW s \in Servers, Handle(w, s) PROVE SavedSparseInv'
  <2>1. HandleFrame(w, s) /\ (HandleDone(w, s) \/ HandleRefused(w, s))
    BY <1>3, HandleCases DEF BaseInv, CheckpointInv
  <2>2. disk' = disk \/ Op(w) = "SparseSave"
    BY <2>1, DiskHandle
  <2>3. UNCHANGED <<saved, intact>>
    BY <2>1 DEF HandleFrame, ghost_vars
  <2>4. Op(w) = "SparseSave" => w = 0
    BY OpStage DEF SaveOps
  <2>5. Op(w) = "SparseSave" => ~intact
    BY <2>4 DEF BaseInv, CheckpointInv, SaveInv, SaveOps
  <2> QED
    BY <2>2, <2>3, <2>5 DEF SavedSparseInv
<1> QED
  BY <1>1, <1>2, <1>3 DEF Next

\* The partitions a load is from are counted.
LEMMA OldCount ==
    ASSUME BaseInv, DataInv, LoadInv, Now \in 10..11
    PROVE  /\ job.loads /\ disk.count = job.old /\ job.old \in Nat \ {0} /\ job.n \in Nat \ {0}
           /\ job.n \in ServerCounts /\ (job.sound => intact /\ saved.sound)
<1>0. ProgInv /\ PathInv /\ FormInv /\ 0 \in Workers
  BY ZeroIsWorker DEF BaseInv, CheckpointInv, OrderInv
<1>1. prog[0] # <<>>
  BY <1>0, NowRange, EmptyOp
<1>2. Edge(0, job.n, job.loads, job.old, Op(0), Now, Then(0))
  BY <1>0, <1>1, OpEdge
<1>3. job.loads
  BY <1>2 DEF Edge
<1>4. disk.count = job.old /\ (job.sound => intact /\ saved.sound)
  BY <1>3 DEF LoadInv
<1>5. disk.count \in ServerCounts
  BY <1>3 DEF DataInv, MetaInv
<1>6. disk.count \in Nat \ {0}
  BY <1>5, TrainerAssumption
<1>7. job.n \in ServerCounts /\ job.n \in Nat \ {0}
  BY <1>0, <1>1, HasServers
<1> QED
  BY <1>3, <1>4, <1>6, <1>7

\* With no update on its way to a server it holds its keys of the tensor.
LEMMA TrainedSlice ==
    ASSUME NEW s, Training(s), IsMap(table), IsMap(sparse[s]), \A w \in Workers : s \notin todo[w]
    PROVE  sparse[s] = Slice(table, s, job.n)
<1>1. \A k : Pushing(s, k) = {} /\ \A w \in Workers : ~Makes(w, s, k)
  BY DEF Pushing, Makes, Out
<1>2. Cardinality({}) = 0
  BY FS_EmptySet
<1>3. ASSUME NEW k \in DOMAIN table, Part(k, job.n) = s
      PROVE  k \in DOMAIN sparse[s] /\ sparse[s][k] = table[k]
  <2>1. TrainKey(s, k)
    BY <1>3 DEF Training
  <2>2. k \in DOMAIN sparse[s]
    BY <1>1, <2>1 DEF TrainKey
  <2>3. Vector(s, k) = sparse[s][k] /\ Cardinality(Pushing(s, k)) = 0 /\ Pushing(s, k) = {}
    BY <1>1, <1>2, <2>2 DEF Vector
  <2>4. table[k].v = sparse[s][k].v + 0 /\ table[k].age = sparse[s][k].age
    BY <2>1, <2>3 DEF TrainKey
  <2>5. table[k] \in [v : Nat, age : 0..MaxAge] /\ sparse[s][k] \in [v : Nat, age : 0..MaxAge]
    BY <1>3, <2>2 DEF IsMap
  <2>6. sparse[s][k].v \in Nat
    BY <2>5
  <2>7. table[k].v = sparse[s][k].v
    BY <2>4, <2>6
  <2> QED
    BY <2>2, <2>4, <2>5, <2>7
<1>4. \A k \in DOMAIN sparse[s] : k \in DOMAIN table /\ Part(k, job.n) = s
  BY DEF Training
<1>5. \A k : k \in DOMAIN sparse[s] <=> k \in DOMAIN table /\ Part(k, job.n) = s
  BY <1>3, <1>4
<1>6. PICK p : p = Slice(table, s, job.n)
  OBVIOUS
<1>7. /\ \A k : k \in DOMAIN p <=> k \in DOMAIN table /\ Part(k, job.n) = s
      /\ \A k \in DOMAIN p : p[k] = table[k]
      /\ Whole(p)
  BY <1>6, SliceValue
<1>8. DOMAIN sparse[s] = DOMAIN p
  <2>1. \A k : k \in DOMAIN sparse[s] <=> k \in DOMAIN p
    BY <1>5, <1>7
  <2>2. Whole(sparse[s])
    BY DEF Training
  <2> QED
    BY <2>1, <2>2, <1>7
<1>9. \A k \in DOMAIN sparse[s] : sparse[s][k] = p[k]
  BY <1>3, <1>4, <1>7, <1>8
<1>10. Whole(sparse[s])
  BY DEF Training
<1> QED
  BY <1>6, <1>7, <1>8, <1>9, <1>10, MapEqual

\* and the other way round.
LEMMA SliceTrains ==
    ASSUME NEW s, sparse[s] = Slice(table, s, job.n), IsMap(table), \A w \in Workers : s \notin todo[w]
    PROVE  Training(s)
<1>1. \A k : Pushing(s, k) = {}
  BY DEF Pushing, Out
<1>2. Cardinality({}) = 0
  BY FS_EmptySet
<1>3. PICK p : p = Slice(table, s, job.n)
  OBVIOUS
<1>4. /\ \A k : k \in DOMAIN p <=> k \in DOMAIN table /\ Part(k, job.n) = s
      /\ \A k \in DOMAIN p : p[k] = table[k]
      /\ Whole(p)
  BY <1>3, SliceValue
<1>5. ASSUME NEW k \in DOMAIN table, Part(k, job.n) = s PROVE TrainKey(s, k)
  <2>1. k \in DOMAIN sparse[s] /\ sparse[s][k] = table[k]
    BY <1>3, <1>4, <1>5
  <2>2. Vector(s, k) = table[k] /\ Cardinality(Pushing(s, k)) = 0
    BY <1>1, <1>2, <2>1 DEF Vector
  <2>3. table[k] \in [v : Nat, age : 0..MaxAge]
    BY <1>5 DEF IsMap
  <2>4. table[k].v \in Nat
    BY <2>3
  <2>5. table[k].v = table[k].v + 0
    BY <2>4
  <2> QED
    BY <1>1, <2>1, <2>2, <2>5 DEF TrainKey
<1>6. \A k \in DOMAIN sparse[s] : k \in DOMAIN table /\ Part(k, job.n) = s
  BY <1>3, <1>4
<1> QED
  BY <1>3, <1>4, <1>5, <1>6 DEF Training

\* A load that is over has brought every key.
LEMMA AllArrived ==
    ASSUME BaseInv, DataInv, LoadInv, ImportInv, Now = 10, AtBarrier, NEW k \in DOMAIN saved.table, NEW s
    PROVE  Arrived(k, s)
<1>0. 0 \in Workers /\ \A w \in Workers : Op(w) = "barrier"
  <2>1. \A w \in Workers : Op(w) \in Barriers
    BY BarrierFacts
  <2>2. \A w \in Workers : Op(w) # "synced"
    BY OpStage
  <2> QED
    BY <2>1, <2>2, ZeroIsWorker DEF Barriers
<1>1. CASE job.old = job.n
  BY <1>0, <1>1 DEF Arrived, Loaded
<1>2. CASE job.old # job.n
  <2>1. job.old \in Nat \ {0} /\ k \in Nat
    BY OldCount DEF DataInv, MapsInv, IsMap
  <2>2. PICK i \in 0..(job.old - 1) : i = Part(k, job.old)
    BY <2>1, PartRange
  <2>3. i % WorkerCount \in Workers /\ i \in Int
    BY <2>1, <2>2, TrainerAssumption DEF Workers
  <2>4. PICK w \in Workers : w = i % WorkerCount
    BY <2>3
  <2>5. file[w] >= job.old /\ file[w] \in Nat
    BY <1>0, <1>2, <2>4 DEF ImportInv, DataInv, FilesInv
  <2>6. i < file[w]
    BY <2>1, <2>2, <2>5
  <2>7. Imported(i, s)
    BY <2>4, <2>6 DEF Imported
  <2> QED
    BY <1>2, <2>2, <2>7 DEF Arrived
<1> QED
  BY <1>1, <1>2

\* At a barrier the servers hold the tensor.
LEMMA SparseAtBarrier ==
    ASSUME BaseInv, DataInv, LoadInv, ImportInv, SparseInv, job.sound, AtBarrier, NEW s \in Servers
    PROVE  sparse[s] = Slice(table, s, job.n)
<1>0. /\ Live /\ 0 \in Workers /\ \A w \in Workers : todo[w] = {} /\ Op(w) \in Barriers
      /\ IsMap(table) /\ IsMap(sparse[s])
  BY BarrierFacts, ZeroIsWorker DEF DataInv, MapsInv
<1>1. CASE Now \in 11..16
  <2>1. NothingYet
    BY <1>0, <1>1 DEF SparseInv
  <2> QED
    BY <2>1, SliceEmpty DEF NothingYet
<1>2. CASE Now = 10
  <2>1. Loading
    BY <1>0, <1>2 DEF SparseInv
  <2>2. Op(0) # "SparseReadMeta"
    BY <1>0 DEF Barriers
  <2>3. table = saved.table /\ sparse[s] = Keep(saved.table, Arrivals(s))
    BY <2>1, <2>2 DEF Loading
  <2>4. Arrivals(s) = {k \in DOMAIN saved.table : Part(k, job.n) = s}
    <3>1. ASSUME NEW k \in DOMAIN saved.table PROVE Arrived(k, s)
      BY <1>2, AllArrived
    <3> QED
      BY <3>1 DEF Arrivals
  <2> QED
    BY <2>3, <2>4 DEF Slice
<1>3. CASE Now \in 8..9
  <2>1. Training(s)
    BY <1>0, <1>3 DEF SparseInv
  <2> QED
    BY <1>0, <2>1, TrainedSlice
<1>4. CASE Now \in 0..7
  <2>1. Trained(s)
    BY <1>0, <1>4 DEF SparseInv
  <2> QED
    BY <1>0, <2>1 DEF Trained, Expect, Out
<1>5. Now \in 0..16
  BY NowRange DEF BaseInv, CheckpointInv, OrderInv
<1> QED
  BY <1>1, <1>2, <1>3, <1>4, <1>5

\* Before the load no vector is made.
LEMMA NothingStep ==
    ASSUME BaseInv, Now \in 11..16, NothingYet, NEW w \in Workers,
           \/ Asks(w) \/ GoesOn(w) \/ ComesBack(w)
           \/ \E s \in Servers : HandleFrame(w, s) /\ HandleDone(w, s)
    PROVE  NothingYet'
<1>0. table = EmptyMap /\ \A s \in Servers : sparse[s] = EmptyMap
  BY DEF NothingYet
<1>1. /\ Op(w) \notin {"SparsePull", "SparsePush", "SparsePruneOld", "SparsePruneSmall", "Import", "SparseLoad"}
      /\ Op(w) \notin {"SparseReadMeta", "DenseReadMeta"}
  BY OpStage
<1>2. CASE Asks(w)
  <2>1. sparse' = sparse /\ job' = job /\ SendsTable(w)
    BY <1>2, AskFacts DEF Asks, server_vars, KeepsPlace
  <2>2. table' = EmptyMap
    BY <1>0, <1>1, <2>1 DEF SendsTable
  <2> QED
    BY <1>0, <2>1, <2>2 DEF NothingYet, Servers
<1>3. CASE GoesOn(w) \/ ComesBack(w)
  <2>1. sparse' = sparse /\ job' = job /\ table' = table
    BY <1>1, <1>3 DEF GoesOn, ComesBack, server_vars
  <2> QED
    BY <1>0, <2>1 DEF NothingYet, Servers
<1>4. CASE \E s \in Servers : HandleFrame(w, s) /\ HandleDone(w, s)
  <2>1. PICK s \in Servers : HandleFrame(w, s) /\ HandleDone(w, s)
    BY <1>4
  <2>2. job' = job /\ table' = table
    BY <2>1, HandleFacts DEF HandleFrame, ghost_vars, KeepsPlace
  <2>3. SparseStep(w, s)
    BY <2>1 DEF HandleDone
  <2>4. sparse'[s] = EmptyMap
    BY <1>0, <1>1, <2>3 DEF SparseStep
  <2>5. \A t \in Servers : sparse'[t] = EmptyMap
    BY <1>0, <2>3, <2>4 DEF SparseStep
  <2> QED
    BY <1>0, <2>2, <2>5 DEF NothingYet, Servers
<1> QED
  BY <1>2, <1>3, <1>4

\* A step of the load that brings nothing to server s.
LEMMA ArrivalsStay ==
    ASSUME job' = job, saved' = saved, NEW s, \A k \in DOMAIN saved.table : Arrived(k, s)' <=> Arrived(k, s)
    PROVE  Arrivals(s)' = Arrivals(s)
<1>1. \A k \in DOMAIN saved.table : (Part(k, job.n) = s /\ Arrived(k, s))' <=> (Part(k, job.n) = s /\ Arrived(k, s))
  BY DEF Part
<1> HIDE DEF Arrived, Part
<1> QED
  BY <1>1 DEF Arrivals, Part

\* A key arrives with the file of its old partition, or with those of all servers.
LEMMA ArrivedFile ==
    ASSUME BaseInv, DataInv, LoadInv, Now = 10, job' = job, NEW k \in DOMAIN saved.table, job.old # job.n
    PROVE  \E i \in Nat, v \in Workers :
              /\ i = Part(k, job.old) /\ v = i % WorkerCount /\ i < job.old
              /\ \A s : /\ Arrived(k, s) <=> i < file[v] \/ (i = file[v] /\ Ans(v, "Import", s))
                        /\ Arrived(k, s)' <=> i < file'[v] \/ (i = file'[v] /\ Ans(v, "Import", s)')
<1>1. job.old \in Nat \ {0} /\ k \in Nat
  BY OldCount DEF DataInv, MapsInv, IsMap
<1>2. PICK i \in 0..(job.old - 1) : i = Part(k, job.old)
  BY <1>1, PartRange
<1>3. i % WorkerCount \in Workers /\ i \in Nat /\ i < job.old
  BY <1>1, <1>2, TrainerAssumption DEF Workers
<1>4. PICK v \in Workers : v = i % WorkerCount
  BY <1>3
<1>5. ASSUME NEW s
      PROVE  /\ Arrived(k, s) <=> i < file[v] \/ (i = file[v] /\ Ans(v, "Import", s))
             /\ Arrived(k, s)' <=> i < file'[v] \/ (i = file'[v] /\ Ans(v, "Import", s)')
  <2>1. Arrived(k, s) <=> Imported(i, s)
    BY <1>2 DEF Arrived
  <2>2. Arrived(k, s)' <=> Imported(i, s)'
    BY <1>2 DEF Arrived, Part
  <2>3. Imported(i, s) <=> i < file[v] \/ (i = file[v] /\ Ans(v, "Import", s))
    BY <1>4 DEF Imported
  <2>4. Imported(i, s)' <=> i < file'[v] \/ (i = file'[v] /\ Ans(v, "Import", s)')
    BY <1>4 DEF Imported
  <2> QED
    BY <2>1, <2>2, <2>3, <2>4
<1> QED
  BY <1>2, <1>3, <1>4, <1>5

\* A server that loads its own file has all its keys at once.
LEMMA ArrivedLoad ==
    ASSUME job' = job, job.old = job.n, NEW k, NEW s
    PROVE  (Arrived(k, s) <=> Loaded(s)) /\ (Arrived(k, s)' <=> Loaded(s)')
BY DEF Arrived

\* What worker 0 and a worker that imports have to do for a key to stay away, or there.
LEMMA ArrivedStays ==
    ASSUME BaseInv, DataInv, LoadInv, Now = 10, job' = job, saved' = saved, NEW s,
           job.old = job.n => (Loaded(s)' <=> Loaded(s)),
           job.old # job.n => \A v \in Workers, i \in Nat : i % WorkerCount = v =>
              ((i < file'[v] \/ (i = file'[v] /\ Ans(v, "Import", s)'))
                  <=> (i < file[v] \/ (i = file[v] /\ Ans(v, "Import", s))))
    PROVE  Arrivals(s)' = Arrivals(s)
<1>1. ASSUME NEW k \in DOMAIN saved.table PROVE Arrived(k, s)' <=> Arrived(k, s)
  <2>1. CASE job.old = job.n
    BY <2>1, ArrivedLoad
  <2>2. CASE job.old # job.n
    <3>1. PICK i \in Nat, v \in Workers :
              /\ v = i % WorkerCount
              /\ \A t : /\ Arrived(k, t) <=> i < file[v] \/ (i = file[v] /\ Ans(v, "Import", t))
                        /\ Arrived(k, t)' <=> i < file'[v] \/ (i = file'[v] /\ Ans(v, "Import", t)')
      BY <2>2, ArrivedFile
    <3> QED
      BY <2>2, <3>1
  <2> QED
    BY <2>1, <2>2
<1> QED
  BY <1>1, ArrivalsStay

\* A load goes on: a request is sent,
LEMMA LoadingAsks ==
    ASSUME BaseInv, DataInv, LoadInv, Now = 10, Loading, NEW w \in Workers, Asks(w)
    PROVE  Loading'
<1>0. /\ KeepsPlace /\ Others(w) /\ ~sent[w] /\ todo'[w] = Servers /\ 0 \in Workers
      /\ sparse' = sparse /\ saved' = saved /\ file' = file /\ SendsTable(w)
  BY AskFacts, ZeroIsWorker DEF Asks, server_vars
<1>1. job' = job /\ Servers' = Servers /\ \A v \in Workers : Op(v)' = Op(v)
  BY <1>0 DEF KeepsPlace, Servers
<1>2. table' = table
  BY <1>0, OpStage DEF SendsTable
<1>3. ASSUME NEW s \in Servers, NEW v \in Workers, NEW op PROVE Ans(v, op, s)' <=> Ans(v, op, s)
  <2>1. CASE v = w
    BY <1>0, <2>1 DEF Ans
  <2>2. CASE v # w
    BY <1>0, <1>1, <2>2 DEF Ans, Others
  <2> QED
    BY <2>1, <2>2
<1>4. ASSUME NEW s \in Servers PROVE Arrivals(s)' = Arrivals(s)
  <2>1. Loaded(s)' <=> Loaded(s)
    BY <1>0, <1>1, <1>3 DEF Loaded
  <2> QED
    BY <1>0, <1>1, <1>3, <2>1, ArrivedStays
<1> QED
  BY <1>0, <1>1, <1>2, <1>4 DEF Loading

\* Worker 0 has read the meta file, or a worker has imported its last file.
LEMMA LoadingGoes ==
    ASSUME BaseInv, DataInv, LoadInv, Now = 10, Loading, NEW w \in Workers, GoesOn(w)
    PROVE  Loading'
<1>0. /\ job' = job /\ Others(w) /\ MovesOn(w) /\ ~sent[w] /\ 0 \in Workers
      /\ UNCHANGED <<sparse, saved, file, sent, todo>>
      /\ table' = IF w = 0 /\ Op(w) = "SparseReadMeta" THEN saved.table ELSE table
      /\ Op(w) \in {"SparseReadMeta", "DenseReadMeta", "Import", "SparsePush", "DensePush", "SparsePullReadOnly"}
  BY GoFacts, ZeroIsWorker DEF GoesOn, server_vars
<1>1. Servers' = Servers
  BY <1>0 DEF Servers
<1>2. Op(w) \in {"SparseReadMeta", "DenseReadMeta", "Import"}
  BY <1>0, OpStage
<1>3. /\ Op(w)' # "SparseReadMeta"
      /\ w = 0 /\ Op(0) = "SparseReadMeta" /\ job.old = job.n => Op(0)' \in {"SparsePushMeta", "SparseLoad"}
      /\ w = 0 /\ Op(0) = "DenseReadMeta" => Op(0)' \in {"DensePushMeta", "DenseLoadData"}
      /\ Op(w) = "Import" => job.old # job.n
  BY <1>0, <1>2, NoneApart, OpStage DEF MovesOn, Edge
<1>4. table' = IF Op(0)' = "SparseReadMeta" THEN EmptyMap ELSE saved.table
  <2>1. CASE w = 0
    BY <1>0, <1>2, <1>3, <2>1 DEF Loading
  <2>2. CASE w # 0
    BY <1>0, <2>2 DEF Loading, Others
  <2> QED
    BY <2>1, <2>2
<1>5. ASSUME NEW s \in Servers PROVE Arrivals(s)' = Arrivals(s)
  <2>1. ASSUME job.old = job.n PROVE Loaded(s)' <=> Loaded(s)
    <3>1. CASE w = 0
      BY <1>0, <1>2, <1>3, <2>1, <3>1 DEF Loaded, Ans
    <3>2. CASE w # 0
      BY <1>0, <3>2 DEF Loaded, Ans, Others
    <3> QED
      BY <3>1, <3>2
  <2>2. ASSUME NEW v \in Workers PROVE Ans(v, "Import", s)' <=> Ans(v, "Import", s)
    <3>1. CASE v = w
      BY <1>0, <3>1 DEF Ans
    <3>2. CASE v # w
      BY <1>0, <3>2 DEF Ans, Others
    <3> QED
      BY <3>1, <3>2
  <2> QED
    BY <1>0, <2>1, <2>2, ArrivedStays
<1> QED
  BY <1>0, <1>1, <1>4, <1>5 DEF Loading

\* A worker comes back from a file, worker 0 from its own operations.
LEMMA LoadingComes ==
    ASSUME BaseInv, DataInv, LoadInv, Now = 10, Loading, NEW w \in Workers, ComesBack(w)
    PROVE  Loading'
<1>0. /\ job' = job /\ Others(w) /\ sent[w] /\ ~sent'[w] /\ todo[w] = {} /\ todo' = todo /\ 0 \in Workers
      /\ UNCHANGED <<sparse, table>> /\ Op(w) \notin {"SparseReadMeta", "DenseReadMeta"}
      /\ (Op(w) = "Import" => Op(w)' = "Import" /\ file'[w] = file[w] + WorkerCount)
      /\ (Op(w) # "Import" => MovesOn(w) /\ file'[w] = file[w])
  BY ComeFacts, ZeroIsWorker DEF ComesBack, server_vars
<1>1. Servers' = Servers /\ saved' = saved
  BY <1>0, DiskComes DEF Servers
<1>2. /\ Op(w)' # "SparseReadMeta"
      /\ w = 0 /\ Op(0) = "SparsePushMeta" => Op(0)' \in {"SparseLoad", "Import"}
      /\ w = 0 /\ Op(0) \notin {"SparsePushMeta"} => Op(0)' \notin {"SparsePushMeta", "SparseLoad"}
  BY <1>0, NoneApart DEF MovesOn, Edge
<1>3. table' = IF Op(0)' = "SparseReadMeta" THEN EmptyMap ELSE saved.table
  <2>1. CASE w = 0
    BY <1>0, <1>2, <2>1 DEF Loading
  <2>2. CASE w # 0
    BY <1>0, <2>2 DEF Loading, Others
  <2> QED
    BY <2>1, <2>2
<1>4. ASSUME NEW s \in Servers PROVE Arrivals(s)' = Arrivals(s)
  <2>1. ASSUME job.old = job.n PROVE Loaded(s)' <=> Loaded(s)
    <3>1. CASE w = 0
      <4>1. CASE Op(0) = "SparsePushMeta"
        <5>1. Op(0)' \in {"SparseLoad", "Import"}
          BY <1>2, <3>1, <4>1
        <5>2. Op(0)' = "SparseLoad"
          BY <1>0, <2>1, <3>1, <4>1 DEF MovesOn, Edge
        <5> QED
          BY <1>0, <3>1, <4>1, <5>2 DEF Loaded, Ans
      <4>2. CASE Op(0) # "SparsePushMeta"
        BY <1>0, <1>2, <3>1, <4>2 DEF Loaded, Ans
      <4> QED
        BY <4>1, <4>2
    <3>2. CASE w # 0
      BY <1>0, <3>2 DEF Loaded, Ans, Others
    <3> QED
      BY <3>1, <3>2
  <2>2. ASSUME NEW v \in Workers, NEW i \in Nat, i % WorkerCount = v
        PROVE  (i < file'[v] \/ (i = file'[v] /\ Ans(v, "Import", s)'))
                   <=> (i < file[v] \/ (i = file[v] /\ Ans(v, "Import", s)))
    <3>1. CASE v # w
      BY <1>0, <3>1 DEF Ans, Others
    <3>2. CASE v = w /\ Op(w) = "Import"
      <4>1. file[w] \in Nat /\ file[w] % WorkerCount = w
        BY DEF DataInv, FilesInv
      <4>2. i < file[w] + WorkerCount <=> i < file[w] \/ i = file[w]
        BY <2>2, <3>2, <4>1, NextFile
      <4>3. Ans(v, "Import", s) /\ ~Ans(v, "Import", s)'
        BY <1>0, <3>2 DEF Ans
      <4> QED
        BY <1>0, <3>2, <4>2, <4>3
    <3>3. CASE v = w /\ Op(w) # "Import"
      <4>1. ~Ans(v, "Import", s) /\ ~Ans(v, "Import", s)'
        BY <1>0, <3>3 DEF Ans
      <4> QED
        BY <1>0, <3>3, <4>1
    <3> QED
      BY <3>1, <3>2, <3>3
  <2> QED
    BY <1>0, <1>1, <2>1, <2>2, ArrivedStays
<1> QED
  BY <1>0, <1>1, <1>3, <1>4 DEF Loading

\* The file of a partition.
LEMMA FileOf ==
    ASSUME BaseInv, DataInv, LoadInv, SavedSparseInv, Now = 10, job.sound, NEW i \in Nat, i < job.old
    PROVE  disk.file[i].entries = Slice(saved.table, i, job.old)
<1>1. disk.count = job.old /\ job.old \in Nat \ {0} /\ intact /\ saved.sound
  BY OldCount
<1>2. i \in 0..(job.old - 1)
  BY <1>1
<1> QED
  BY <1>1, <1>2 DEF SavedSparseInv

\* A server that loads its file.
LEMMA LoadingLoads ==
    ASSUME BaseInv, DataInv, LoadInv, SavedSparseInv, job.sound, Now = 10, Loading,
           NEW s \in Servers, HandleFrame(0, s), HandleDone(0, s), Op(0) = "SparseLoad"
    PROVE  sparse'[s] = Keep(saved.table, Arrivals(s)') /\ job' = job /\ saved' = saved
<1>0. /\ job' = job /\ sent[0] /\ s \in todo[0] /\ todo'[0] = todo[0] \ {s} /\ sent' = sent /\ 0 \in Workers
      /\ saved' = saved /\ SparseStep(0, s) /\ Op(0)' = Op(0)
  BY HandleFacts, ZeroIsWorker DEF HandleFrame, ghost_vars, HandleDone, KeepsPlace
<1>1. job.old = job.n
  BY <1>0, OpStage
<1>2. ~Loaded(s) /\ Loaded(s)'
  BY <1>0 DEF Loaded, Ans
<1>3. \A k : ~Arrived(k, s) /\ Arrived(k, s)'
  BY <1>0, <1>1, <1>2, ArrivedLoad
<1>4. Arrivals(s) = {}
  BY <1>3 DEF Arrivals
<1>5. sparse[s] = EmptyMap
  <2>1. sparse[s] = Keep(saved.table, {})
    BY <1>4 DEF Loading
  <2>2. DOMAIN sparse[s] = DOMAIN EmptyMap /\ Whole(sparse[s]) /\ Whole(EmptyMap)
    BY <2>1, MapEmpty, WholeMaps DEF Keep
  <2> QED
    BY <2>2, MapEmpty, MapEqual
<1>6. disk.file[s].entries = Slice(saved.table, s, job.n)
  <2>1. s \in Nat /\ s < job.old
    BY <1>1, OldCount DEF Servers
  <2> QED
    BY <1>1, <2>1, FileOf
<1>7. PICK e : e = disk.file[s].entries
  OBVIOUS
<1>8. HandlePushPartition(EmptyMap, e) = e
  <2>1. Whole(e)
    BY <1>6, <1>7, SliceValue
  <2>2. DOMAIN HandlePushPartition(EmptyMap, e) = DOMAIN e
    BY MapEmpty DEF HandlePushPartition
  <2>3. \A k \in DOMAIN e : HandlePushPartition(EmptyMap, e)[k] = e[k]
    BY DEF HandlePushPartition
  <2>4. Whole(HandlePushPartition(EmptyMap, e))
    BY WholeMaps
  <2> QED
    BY <2>1, <2>2, <2>3, <2>4, MapEqual
<1>9. sparse'[s] = e
  <2>1. sparse'[s] = LoadFile(sparse[s], disk.file[s])
    BY <1>0 DEF SparseStep
  <2> QED
    BY <1>5, <1>7, <1>8, <2>1 DEF LoadFile
<1>10. Arrivals(s)' = {k \in DOMAIN saved.table : Part(k, job.n) = s}
  <2>1. Arrivals(s)' = {k \in DOMAIN saved.table : Part(k, job.n) = s /\ Arrived(k, s)'}
    BY <1>0 DEF Arrivals, Part
  <2> HIDE DEF Arrived, Part
  <2> QED
    BY <1>3, <2>1
<1> QED
  BY <1>0, <1>6, <1>7, <1>9, <1>10 DEF Slice

\* A server that takes its keys of the file a worker imports.
LEMMA LoadingImports ==
    ASSUME BaseInv, DataInv, LoadInv, ImportInv, SavedSparseInv, job.sound, Now = 10, Loading, NEW w \in Workers,
           NEW s \in Servers, HandleFrame(w, s), HandleDone(w, s), Op(w) = "Import"
    PROVE  sparse'[s] = Keep(saved.table, Arrivals(s)') /\ job' = job /\ saved' = saved
<1>0. /\ job' = job /\ sent[w] /\ s \in todo[w] /\ todo'[w] = todo[w] \ {s} /\ sent' = sent
      /\ saved' = saved /\ file' = file /\ SparseStep(w, s) /\ \A v \in Workers : Op(v)' = Op(v)
      /\ \A v \in Workers : v # w => todo'[v] = todo[v]
  BY HandleFacts DEF HandleFrame, ghost_vars, HandleDone, KeepsPlace
<1>1. job.old # job.n /\ job.old \in Nat \ {0}
  BY OpStage, OldCount
<1>2. PICK f \in Nat : f = file[w] /\ f % WorkerCount = w /\ f < job.old
  BY <1>0 DEF DataInv, FilesInv, ImportInv
<1>3. PICK e : e = disk.file[f].entries
  OBVIOUS
<1>4. /\ \A k : k \in DOMAIN e <=> k \in DOMAIN saved.table /\ Part(k, job.old) = f
      /\ \A k \in DOMAIN e : e[k] = saved.table[k]
  <2>1. e = Slice(saved.table, f, job.old)
    BY <1>2, <1>3, FileOf
  <2> QED
    BY <2>1, SliceValue
<1>5. ASSUME NEW k \in DOMAIN saved.table
      PROVE  Arrived(k, s)' <=> Arrived(k, s) \/ Part(k, job.old) = f
  <2>1. PICK i \in Nat, v \in Workers :
            /\ i = Part(k, job.old) /\ v = i % WorkerCount
            /\ \A t : /\ Arrived(k, t) <=> i < file[v] \/ (i = file[v] /\ Ans(v, "Import", t))
                      /\ Arrived(k, t)' <=> i < file'[v] \/ (i = file'[v] /\ Ans(v, "Import", t)')
    BY <1>0, <1>1, ArrivedFile
  <2>2. CASE v = w
    BY <1>0, <1>2, <2>1, <2>2 DEF Ans
  <2>3. CASE v # w
    <3>1. i # f
      BY <1>2, <2>1, <2>3
    <3>2. Ans(v, "Import", s)' <=> Ans(v, "Import", s)
      BY <1>0, <2>3 DEF Ans
    <3> QED
      BY <1>0, <2>1, <3>1, <3>2
  <2> QED
    BY <2>2, <2>3
<1>6. PICK mine : mine = Keep(e, SentTo(DOMAIN e, s))
  OBVIOUS
<1>7. sparse'[s] = HandlePushPartition(sparse[s], mine)
  BY <1>0, <1>2, <1>3, <1>6 DEF SparseStep
<1>8. /\ \A k : k \in DOMAIN mine <=> k \in DOMAIN e /\ Part(k, job.n) = s
      /\ \A k \in DOMAIN mine : mine[k] = e[k]
  BY <1>6 DEF Keep, SentTo
<1>9. /\ \A k : k \in DOMAIN sparse[s] <=> k \in DOMAIN saved.table /\ Part(k, job.n) = s /\ Arrived(k, s)
      /\ \A k \in DOMAIN sparse[s] : sparse[s][k] = saved.table[k]
  <2>1. sparse[s] = Keep(saved.table, Arrivals(s))
    BY DEF Loading
  <2>2. \A k : k \in Arrivals(s) <=> k \in DOMAIN saved.table /\ Part(k, job.n) = s /\ Arrived(k, s)
    BY DEF Arrivals
  <2>3. DOMAIN sparse[s] = Arrivals(s) /\ \A k \in Arrivals(s) : sparse[s][k] = saved.table[k]
    BY <2>1 DEF Keep
  <2> QED
    BY <2>2, <2>3
<1>10. \A k : k \in Arrivals(s)' <=> k \in DOMAIN saved.table /\ Part(k, job.n) = s /\ Arrived(k, s)'
  BY <1>0 DEF Arrivals, Part
<1>11. PICK new : new = HandlePushPartition(sparse[s], mine)
  OBVIOUS
<1>12. /\ DOMAIN new = DOMAIN sparse[s] \cup DOMAIN mine
       /\ \A k \in DOMAIN new : new[k] = IF k \in DOMAIN mine THEN mine[k] ELSE sparse[s][k]
  BY <1>11 DEF HandlePushPartition
<1>13. PICK goal : goal = Keep(saved.table, Arrivals(s)')
  OBVIOUS
<1>14. DOMAIN goal = Arrivals(s)' /\ \A k \in DOMAIN goal : goal[k] = saved.table[k]
  BY <1>13 DEF Keep
<1>15. DOMAIN new = DOMAIN goal
  <2>1. ASSUME NEW k PROVE k \in DOMAIN new <=> k \in DOMAIN goal
    BY <1>4, <1>5, <1>8, <1>9, <1>10, <1>12, <1>14
  <2> QED
    BY <2>1
<1>16. \A k \in DOMAIN new : new[k] = goal[k]
  BY <1>4, <1>8, <1>9, <1>12, <1>14, <1>15
<1>17. Whole(new) /\ Whole(goal)
  BY <1>11, <1>13, WholeMaps
<1>18. new = goal
  BY <1>15, <1>16, <1>17, MapEqual
<1> QED
  BY <1>0, <1>7, <1>11, <1>13, <1>18

\* a server handles a request.
LEMMA LoadingHandle ==
    ASSUME BaseInv, DataInv, LoadInv, ImportInv, SavedSparseInv, job.sound, Now = 10, Loading, NEW w \in Workers,
           NEW s \in Servers, HandleFrame(w, s), HandleDone(w, s)
    PROVE  Loading'
<1>0. /\ KeepsPlace /\ sent' = sent /\ 0 \in Workers
      /\ todo'[w] = todo[w] \ {s} /\ \A v \in Workers : v # w => todo'[v] = todo[v]
      /\ UNCHANGED <<table, saved, file>> /\ SparseStep(w, s)
  BY HandleFacts, ZeroIsWorker DEF HandleFrame, ghost_vars, HandleDone
<1>1. job' = job /\ Servers' = Servers /\ \A v \in Workers : Op(v)' = Op(v)
  BY <1>0 DEF KeepsPlace, Servers
<1>2. ASSUME NEW v \in Workers, NEW op, NEW t, v # w \/ t # s \/ op # Op(w)
      PROVE  Ans(v, op, t)' <=> Ans(v, op, t)
  BY <1>0, <1>1, <1>2 DEF Ans
<1>3. ASSUME NEW t \in Servers, t # s \/ Op(w) \notin {"SparseLoad", "Import"}
      PROVE  Arrivals(t)' = Arrivals(t)
  <2>1. \A v \in Workers : Ans(v, "Import", t)' <=> Ans(v, "Import", t)
    BY <1>2, <1>3
  <2>2. Ans(0, "SparseLoad", t)' <=> Ans(0, "SparseLoad", t)
    BY <1>0, <1>2, <1>3
  <2>3. Loaded(t)' <=> Loaded(t)
    BY <1>0, <1>1, <2>2 DEF Loaded
  <2> QED
    BY <1>0, <1>1, <2>1, <2>3, ArrivedStays
<1>4. ASSUME NEW t \in Servers PROVE sparse'[t] = Keep(saved.table, Arrivals(t)')
  <2>1. CASE t # s
    BY <1>0, <1>3, <2>1 DEF SparseStep, Loading
  <2>2. CASE t = s /\ Op(w) = "SparseLoad"
    <3>1. w = 0
      BY <2>2, OpStage
    <3> QED
      BY <2>2, <3>1, LoadingLoads
  <2>3. CASE t = s /\ Op(w) = "Import"
    BY <2>3, LoadingImports
  <2>4. CASE t = s /\ Op(w) \notin {"SparseLoad", "Import"}
    <3>1. Op(w) \notin {"SparseInit", "SparseClear", "SparsePush", "SparsePull", "SparsePruneOld", "SparsePruneSmall"}
      BY OpStage
    <3>2. sparse'[s] = sparse[s]
      BY <1>0, <2>4, <3>1 DEF SparseStep
    <3> QED
      BY <1>3, <2>4, <3>2 DEF Loading
  <2> QED
    BY <2>1, <2>2, <2>3, <2>4
<1> QED
  BY <1>0, <1>1, <1>4 DEF Loading

\* Updates on their way are counted.
LEMMA PushingFinite ==
    ASSUME NEW s, NEW k
    PROVE  IsFiniteSet(Pushing(s, k)) /\ Cardinality(Pushing(s, k)) \in Nat
<1>1. IsFiniteSet(Workers)
  BY TrainerAssumption, FS_Interval DEF Workers
<1>2. Pushing(s, k) \subseteq Workers
  BY DEF Pushing
<1> QED
  BY <1>1, <1>2, FS_Subset, FS_CardinalityType

\* A key the tensor does not have is nowhere, and nobody updates it.
LEMMA NewKey ==
    ASSUME BaseInv, NEW s, Training(s), \A w \in Workers : Asked(w), NEW k, k \notin DOMAIN table
    PROVE  Vector(s, k) = Fresh /\ Pushing(s, k) = {} /\ Cardinality(Pushing(s, k)) = 0
<1>1. k \notin DOMAIN sparse[s]
  BY DEF Training
<1>2. ASSUME NEW w \in Workers, w \in Pushing(s, k) PROVE FALSE
  <2>1. Op(w) = "SparsePush" /\ todo[w] # {} /\ k \in keys[w]
    BY <1>2 DEF Pushing, Out
  <2>2. sent[w]
    BY <2>1 DEF BaseInv, CheckpointInv, OrderInv, WaitInv
  <2>3. Asked(w)
    OBVIOUS
  <2> QED
    BY <2>1, <2>2, <2>3 DEF Asked
<1>3. Pushing(s, k) = {}
  BY <1>2 DEF Pushing
<1> QED
  BY <1>1, <1>3, FS_EmptySet DEF Vector

\* A step that leaves a key where it is.
LEMMA KeyStays ==
    ASSUME NEW s, NEW k, TrainKey(s, k), table'[k] = table[k], Vector(s, k)' = Vector(s, k),
           Pushing(s, k)' = Pushing(s, k),
           k \in DOMAIN sparse[s] => k \in DOMAIN sparse'[s],
           \A w \in Workers : Makes(w, s, k) => Makes(w, s, k)' \/ k \in DOMAIN sparse'[s]
    PROVE  TrainKey(s, k)'
BY DEF TrainKey

\* A worker pulls: new keys are in the tensor, and on their way to a server.
LEMMA TrainingPulls ==
    ASSUME BaseInv, DataInv, \A s \in Servers : Training(s), \A v \in Workers : Asked(v),
           NEW w \in Workers, Asks(w), Op(w) = "SparsePull"
    PROVE  (\A s \in Servers : Training(s)') /\ (\A v \in Workers : Asked(v)')
<1>0. /\ KeepsPlace /\ Others(w) /\ sent'[w] /\ todo'[w] = Servers /\ todo[w] = {}
      /\ sparse' = sparse /\ job' = job
  BY AskFacts DEF Asks, server_vars, KeepsPlace
<1>1. PICK ks \in Minibatches[w] : keys' = [keys EXCEPT ![w] = ks] /\ table' = FindOrInit(table, ks \ {PaddingKey})
  BY DEF Asks, SendsKeys
<1>2. keys'[w] = ks /\ \A v \in Workers : v # w => keys'[v] = keys[v]
  BY <1>1 DEF BaseInv, FormInv
<1>3. /\ DOMAIN table' = DOMAIN table \cup (ks \ {PaddingKey})
      /\ \A k \in DOMAIN table' : table'[k] = IF k \in DOMAIN table THEN table[k] ELSE Fresh
  BY <1>1 DEF FindOrInit
<1>4. ASSUME NEW s \in Servers, NEW k PROVE Pushing(s, k)' = Pushing(s, k)
  <2>1. ASSUME NEW v \in Workers
        PROVE  (Out(v, "SparsePush", s) /\ k \in keys[v])' <=> (Out(v, "SparsePush", s) /\ k \in keys[v])
    <3>1. CASE v = w
      BY <1>0, <3>1, OutAsks DEF Out
    <3>2. CASE v # w
      BY <1>2, <3>2, OutAsks
    <3> QED
      BY <3>1, <3>2
  <2> QED
    BY <2>1 DEF Pushing
<1>5. ASSUME NEW s \in Servers, NEW k \in DOMAIN table', Part(k, job.n) = s PROVE TrainKey(s, k)'
  <2>1. Vector(s, k)' = Vector(s, k)
    BY <1>0 DEF Vector
  <2>2. CASE k \in DOMAIN table
    <3>1. TrainKey(s, k) /\ table'[k] = table[k]
      BY <1>3, <1>5, <2>2 DEF Training
    <3>2. ASSUME NEW v \in Workers, Makes(v, s, k) PROVE Makes(v, s, k)'
      <4>1. v # w
        BY <1>0, <3>2 DEF Makes, Out
      <4> QED
        BY <1>2, <3>2, <4>1, OutAsks DEF Makes
    <3> QED
      BY <1>0, <1>4, <2>1, <3>1, <3>2, KeyStays
  <2>3. CASE k \notin DOMAIN table
    <3>1. table'[k] = Fresh /\ k \in ks /\ k # PaddingKey
      BY <1>3, <2>3
    <3>2. Vector(s, k)' = Fresh /\ Pushing(s, k)' = {} /\ Cardinality(Pushing(s, k)') = 0
      BY <1>4, <2>1, <2>3, NewKey
    <3>3. Makes(w, s, k)'
      BY <1>2, <3>1, OutAsks DEF Makes
    <3>4. table'[k].v = 0 /\ Fresh.v = 0 /\ Fresh.age = 0
      BY <3>1 DEF Fresh
    <3> QED
      BY <3>1, <3>2, <3>3, <3>4 DEF TrainKey
  <2> QED
    BY <2>2, <2>3
<1>6. ASSUME NEW s \in Servers PROVE Training(s)'
  <2>1. Training(s)
    OBVIOUS
  <2>2. Whole(sparse'[s])
    BY <1>0, <2>1 DEF Training
  <2>3. \A k \in DOMAIN sparse'[s] : k \in DOMAIN table' /\ Part(k, job'.n) = s
    BY <1>0, <1>3, <2>1 DEF Training
  <2> QED
    BY <1>0, <1>5, <2>2, <2>3 DEF Training
<1>7. ASSUME NEW v \in Workers PROVE Asked(v)'
  <2>1. CASE v = w
    BY <1>0, <1>2, <1>3, <2>1 DEF Asked, KeepsPlace
  <2>2. CASE v # w
    <3>1. Asked(v) /\ Op(v)' = Op(v) /\ sent'[v] = sent[v] /\ keys'[v] = keys[v]
      BY <1>0, <2>2 DEF Others
    <3> QED
      BY <1>3, <3>1 DEF Asked
  <2> QED
    BY <2>1, <2>2
<1> QED
  BY <1>6, <1>7

\* A worker pushes: an update is in the tensor, and on its way to a server.
LEMMA TrainingPushes ==
    ASSUME BaseInv, DataInv, \A s \in Servers : Training(s), \A v \in Workers : Asked(v),
           NEW w \in Workers, Asks(w), Op(w) = "SparsePush"
    PROVE  (\A s \in Servers : Training(s)') /\ (\A v \in Workers : Asked(v)')
<1>0. /\ KeepsPlace /\ Others(w) /\ sent'[w] /\ todo'[w] = Servers /\ todo[w] = {}
      /\ sparse' = sparse /\ job' = job /\ keys' = keys
  BY AskFacts DEF Asks, server_vars, KeepsPlace, SendsKeys
<1>1. table' = HandlePush(table, keys[w])
  BY DEF Asks, SendsTable
<1>2. PICK ks \in SUBSET Nat : ks = keys[w]
  BY DEF DataInv, KeysInv
<1>3. /\ DOMAIN table' = DOMAIN table \cup ks
      /\ \A k \in DOMAIN table' :
            table'[k] = IF k \in ks THEN [v |-> (IF k \in DOMAIN table THEN table[k] ELSE Fresh).v + 1, age |-> 0]
                        ELSE table[k]
  BY <1>1, <1>2 DEF HandlePush, FindOrInit
<1>4. ASSUME NEW s \in Servers, NEW k
      PROVE  /\ k \in ks => Pushing(s, k)' = Pushing(s, k) \cup {w} /\ w \notin Pushing(s, k)
             /\ k \notin ks => Pushing(s, k)' = Pushing(s, k)
  <2>1. \A v \in Workers : Out(v, "SparsePush", s)' <=> v = w \/ Out(v, "SparsePush", s)
    BY OutAsks
  <2>2. ~Out(w, "SparsePush", s)
    BY <1>0 DEF Out
  <2> QED
    BY <1>0, <1>2, <2>1, <2>2 DEF Pushing
<1>5. ASSUME NEW s \in Servers, NEW k \in DOMAIN table', Part(k, job.n) = s PROVE TrainKey(s, k)'
  <2>1. Vector(s, k)' = Vector(s, k)
    BY <1>0 DEF Vector
  <2>2. CASE k \notin ks
    <3>1. TrainKey(s, k) /\ table'[k] = table[k]
      BY <1>3, <1>5, <2>2 DEF Training
    <3>2. ASSUME NEW v \in Workers, Makes(v, s, k) PROVE Makes(v, s, k)'
      <4>1. v # w
        BY <1>0, <3>2 DEF Makes, Out
      <4> QED
        BY <1>0, <3>2, <4>1, OutAsks DEF Makes
    <3> QED
      BY <1>0, <1>4, <2>1, <2>2, <3>1, <3>2, KeyStays
  <2>3. CASE k \in ks
    <3>1. PICK x : x = IF k \in DOMAIN table THEN table[k] ELSE Fresh
      OBVIOUS
    <3>2. table'[k].v = x.v + 1 /\ table'[k].age = 0
      <4>1. table'[k] = [v |-> x.v + 1, age |-> 0]
        BY <1>3, <2>3, <3>1
      <4> QED
        BY <4>1
    <3>3. PICK n \in Nat : n = Cardinality(Pushing(s, k)) /\ Cardinality(Pushing(s, k)') = n + 1
      BY <1>4, <2>3, PushingFinite, FS_AddElement
    <3>4. PICK y \in Nat : y = Vector(s, k).v
      <4>1. CASE k \in DOMAIN sparse[s]
        <5>1. sparse[s][k] \in [v : Nat, age : 0..MaxAge]
          BY <4>1 DEF DataInv, MapsInv, IsMap
        <5>2. sparse[s][k].v \in Nat
          BY <5>1
        <5> QED
          BY <4>1, <5>2 DEF Vector
      <4>2. CASE k \notin DOMAIN sparse[s]
        BY <4>2 DEF Vector, Fresh
      <4> QED
        BY <4>1, <4>2
    <3>5. x.v = y + n
      <4>1. CASE k \in DOMAIN table
        BY <1>5, <3>1, <3>3, <3>4, <4>1 DEF Training, TrainKey
      <4>2. CASE k \notin DOMAIN table
        <5>1. y = Fresh.v /\ n = 0
          BY <3>3, <3>4, <4>2, NewKey
        <5> QED
          BY <3>1, <4>2, <5>1 DEF Fresh
      <4> QED
        BY <4>1, <4>2
    <3>6. table'[k].v = y + (n + 1)
      BY <3>2, <3>5
    <3>7. Makes(w, s, k)'
      BY <1>0, <1>2, <2>3, OutAsks DEF Makes
    <3>8. Pushing(s, k)' # {}
      BY <1>4, <2>3
    <3> QED
      BY <2>1, <3>2, <3>3, <3>4, <3>6, <3>7, <3>8 DEF TrainKey
  <2> QED
    BY <2>2, <2>3
<1>6. ASSUME NEW s \in Servers PROVE Training(s)'
  <2>1. Training(s)
    OBVIOUS
  <2>2. Whole(sparse'[s])
    BY <1>0, <2>1 DEF Training
  <2>3. \A k \in DOMAIN sparse'[s] : k \in DOMAIN table' /\ Part(k, job'.n) = s
    BY <1>0, <1>3, <2>1 DEF Training
  <2> QED
    BY <1>0, <1>5, <2>2, <2>3 DEF Training
<1>7. ASSUME NEW v \in Workers PROVE Asked(v)'
  <2>1. CASE v = w
    BY <1>0, <1>2, <1>3, <2>1 DEF Asked, KeepsPlace
  <2>2. CASE v # w
    <3>1. Asked(v) /\ Op(v)' = Op(v) /\ sent'[v] = sent[v] /\ keys'[v] = keys[v]
      BY <1>0, <2>2 DEF Others
    <3> QED
      BY <1>3, <3>1 DEF Asked
  <2> QED
    BY <2>1, <2>2
<1> QED
  BY <1>6, <1>7

\* A step of a worker that asks for no key and updates none.
LEMMA TrainingMoves ==
    ASSUME BaseInv, DataInv, Now \in 8..9, \A s \in Servers : Training(s), \A v \in Workers : Asked(v),
           NEW w \in Workers, \/ Asks(w) /\ Op(w) \notin {"SparsePull", "SparsePush"}
                              \/ GoesOn(w) \/ ComesBack(w)
    PROVE  (\A s \in Servers : Training(s)') /\ (\A v \in Workers : Asked(v)')
<1>0. /\ Others(w) /\ todo[w] = {} /\ UNCHANGED <<sparse, job, keys>>
      /\ (sent'[w] => Op(w)' = Op(w) /\ Op(w) \notin {"SparsePull", "SparsePush"})
  <2>1. CASE Asks(w) /\ Op(w) \notin {"SparsePull", "SparsePush"}
    <3>1. /\ Others(w) /\ todo[w] = {} /\ Op(w)' = Op(w) /\ job' = job
      BY <2>1, AskFacts DEF KeepsPlace
    <3>2. sparse' = sparse /\ keys' = keys
      BY <2>1 DEF Asks, server_vars, SendsKeys
    <3> QED
      BY <2>1, <3>1, <3>2
  <2>2. CASE GoesOn(w)
    BY <2>2, GoFacts DEF GoesOn, server_vars
  <2>3. CASE ComesBack(w)
    BY <2>3, ComeFacts DEF ComesBack, server_vars
  <2> QED
    BY <2>1, <2>2, <2>3
<1>1. table' = table
  <2>1. Op(w) \notin {"SparseClear", "SparsePruneOld", "SparsePruneSmall", "SparseReadMeta"}
    BY OpStage
  <2> QED
    BY <2>1 DEF Asks, SendsTable, GoesOn, ComesBack
<1>2. ASSUME NEW v \in Workers, NEW s \in Servers, NEW op \in {"SparsePull", "SparsePush"}
      PROVE  Out(v, op, s)' <=> Out(v, op, s)
  <2>1. CASE Asks(w) /\ Op(w) \notin {"SparsePull", "SparsePush"}
    BY <1>0, <2>1, OutAsks DEF Out
  <2>2. CASE GoesOn(w) \/ ComesBack(w)
    BY <2>2, OutStays
  <2> QED
    BY <2>1, <2>2
<1>3. ASSUME NEW s \in Servers, NEW k \in DOMAIN table, Part(k, job.n) = s PROVE TrainKey(s, k)'
  <2>1. Vector(s, k)' = Vector(s, k) /\ TrainKey(s, k)
    BY <1>0, <1>3 DEF Vector, Training
  <2>2. Pushing(s, k)' = Pushing(s, k)
    BY <1>0, <1>2 DEF Pushing
  <2>3. \A v \in Workers : Makes(v, s, k) => Makes(v, s, k)'
    BY <1>0, <1>2 DEF Makes
  <2> QED
    BY <1>0, <1>1, <2>1, <2>2, <2>3, KeyStays
<1>4. ASSUME NEW s \in Servers PROVE Training(s)'
  <2>1. Training(s)
    OBVIOUS
  <2> QED
    BY <1>0, <1>1, <1>3, <2>1 DEF Training
<1>5. ASSUME NEW v \in Workers PROVE Asked(v)'
  <2>1. CASE v = w
    BY <1>0, <2>1 DEF Asked
  <2>2. CASE v # w
    <3>1. Asked(v) /\ Op(v)' = Op(v) /\ sent'[v] = sent[v] /\ keys'[v] = keys[v]
      BY <1>0, <2>2 DEF Others
    <3> QED
      BY <1>1, <3>1 DEF Asked
  <2> QED
    BY <2>1, <2>2
<1> QED
  BY <1>4, <1>5

\* A server takes the updates of its keys.
LEMMA TakesPush ==
    ASSUME BaseInv, DataInv, NEW w \in Workers, NEW s \in Servers, HandleFrame(w, s), HandleDone(w, s),
           Op(w) = "SparsePush", NEW k, Part(k, job.n) = s, TrainKey(s, k), k \in DOMAIN table
    PROVE  TrainKey(s, k)' /\ (k \in DOMAIN sparse'[s] => k \in DOMAIN sparse[s] \/ k \in keys[w])
<1>0. /\ job' = job /\ s \in todo[w] /\ keys' = keys /\ table' = table /\ SparseStep(w, s)
  BY HandleFacts DEF KeepsPlace, HandleFrame, ghost_vars, HandleDone
<1>1. PICK ks \in SUBSET Nat : ks = keys[w]
  BY DEF DataInv, KeysInv
<1>2. PICK mine : mine = SentTo(ks, s) /\ (k \in mine <=> k \in ks)
  <2>1. k \in SentTo(ks, s) <=> k \in ks
    BY DEF SentTo
  <2> QED
    BY <2>1
<1>3. /\ DOMAIN sparse'[s] = DOMAIN sparse[s] \cup mine
      /\ k \in mine => sparse'[s][k] = [v |-> Vector(s, k).v + 1, age |-> 0]
      /\ k \in DOMAIN sparse[s] /\ k \notin mine => sparse'[s][k] = sparse[s][k]
  <2>1. sparse'[s] = HandlePush(sparse[s], mine)
    BY <1>0, <1>1, <1>2 DEF SparseStep
  <2> QED
    BY <2>1 DEF HandlePush, FindOrInit, Vector
<1>4. /\ k \in ks => Pushing(s, k)' = Pushing(s, k) \ {w} /\ w \in Pushing(s, k)
      /\ k \notin ks => Pushing(s, k)' = Pushing(s, k)
  <2>1. \A v \in Workers : Out(v, "SparsePush", s)' <=> Out(v, "SparsePush", s) /\ v # w
    BY OutHandle
  <2>2. Out(w, "SparsePush", s)
    BY <1>0 DEF Out
  <2> QED
    BY <1>0, <1>1, <2>1, <2>2 DEF Pushing
<1>5. CASE k \in ks
  <2>1. PICK n \in Nat : n = Cardinality(Pushing(s, k)) /\ Cardinality(Pushing(s, k)') = n - 1 /\ n - 1 \in Nat
    BY <1>4, <1>5, PushingFinite, FS_RemoveElement, FS_CardinalityType, FS_EmptySet
  <2>2. PICK y \in Nat : y = Vector(s, k).v
    <3>1. CASE k \in DOMAIN sparse[s]
      <4>1. sparse[s][k] \in [v : Nat, age : 0..MaxAge]
        BY <3>1 DEF DataInv, MapsInv, IsMap
      <4>2. sparse[s][k].v \in Nat
        BY <4>1
      <4> QED
        BY <3>1, <4>2 DEF Vector
    <3>2. CASE k \notin DOMAIN sparse[s]
      BY <3>2 DEF Vector, Fresh
    <3> QED
      BY <3>1, <3>2
  <2>3. table[k].v = y + n /\ table[k].age = 0
    <3>1. Pushing(s, k) # {}
      BY <1>4, <1>5
    <3> QED
      BY <2>1, <2>2, <3>1 DEF TrainKey
  <2>4. k \in DOMAIN sparse'[s] /\ sparse'[s][k].v = y + 1 /\ sparse'[s][k].age = 0
    <3>1. sparse'[s][k] = [v |-> y + 1, age |-> 0]
      BY <1>2, <1>3, <1>5, <2>2
    <3> QED
      BY <1>2, <1>3, <1>5, <3>1
  <2>5. Vector(s, k)' = sparse'[s][k]
    BY <2>4 DEF Vector
  <2>6. table'[k].v = (y + 1) + (n - 1)
    BY <1>0, <2>1, <2>2, <2>3
  <2> QED
    BY <1>0, <1>5, <1>1, <2>1, <2>3, <2>4, <2>5, <2>6 DEF TrainKey
<1>6. CASE k \notin ks
  <2>1. k \in DOMAIN sparse'[s] <=> k \in DOMAIN sparse[s]
    BY <1>2, <1>3, <1>6
  <2>2. Vector(s, k)' = Vector(s, k)
    BY <1>2, <1>3, <1>6, <2>1 DEF Vector
  <2>3. ASSUME NEW v \in Workers, Makes(v, s, k) PROVE Makes(v, s, k)'
    <3>1. v # w
      BY <1>1, <1>6, <2>3 DEF Makes
    <3> QED
      BY <1>0, <2>3, <3>1, OutHandle DEF Makes
  <2> QED
    BY <1>0, <1>4, <1>6, <2>1, <2>2, <2>3, KeyStays
<1> QED
  BY <1>5, <1>6

\* A server makes the vectors that are pulled.
LEMMA MakesPulled ==
    ASSUME BaseInv, DataInv, NEW w \in Workers, NEW s \in Servers, HandleFrame(w, s), HandleDone(w, s),
           Op(w) = "SparsePull", NEW k, Part(k, job.n) = s, TrainKey(s, k), k \in DOMAIN table
    PROVE  TrainKey(s, k)'
<1>0. /\ job' = job /\ keys' = keys /\ table' = table /\ SparseStep(w, s)
  BY HandleFacts DEF KeepsPlace, HandleFrame, ghost_vars, HandleDone
<1>1. PICK ks : ks = SentTo(keys[w], s) \ {PaddingKey} /\ (k \in ks <=> k \in keys[w] /\ k # PaddingKey)
  <2>1. k \in SentTo(keys[w], s) <=> k \in keys[w]
    BY DEF SentTo
  <2>2. k \in SentTo(keys[w], s) \ {PaddingKey} <=> k \in keys[w] /\ k # PaddingKey
    BY <2>1
  <2> QED
    BY <2>2
<1>2. /\ DOMAIN sparse'[s] = DOMAIN sparse[s] \cup ks
      /\ \A j \in DOMAIN sparse'[s] : sparse'[s][j] = IF j \in DOMAIN sparse[s] THEN sparse[s][j] ELSE Fresh
  BY <1>0, <1>1 DEF SparseStep, FindOrInit
<1>3. Vector(s, k)' = Vector(s, k)
  BY <1>2 DEF Vector
<1>4. Pushing(s, k)' = Pushing(s, k)
  <2>1. \A v \in Workers : Out(v, "SparsePush", s)' <=> Out(v, "SparsePush", s)
    BY OutHandle DEF Out
  <2> QED
    BY <1>0, <2>1 DEF Pushing
<1>5. ASSUME NEW v \in Workers, Makes(v, s, k) PROVE Makes(v, s, k)' \/ k \in DOMAIN sparse'[s]
  <2>1. CASE v = w
    BY <1>1, <1>2, <1>5, <2>1 DEF Makes, Out
  <2>2. CASE v # w
    BY <1>0, <1>5, <2>2, OutHandle DEF Makes
  <2> QED
    BY <2>1, <2>2
<1> QED
  BY <1>0, <1>2, <1>3, <1>4, <1>5, KeyStays

\* A server takes a request of a worker that trains.
LEMMA TrainingHandle ==
    ASSUME BaseInv, DataInv, Now \in 8..9, \A s \in Servers : Training(s), \A v \in Workers : Asked(v),
           NEW w \in Workers, NEW s \in Servers, HandleFrame(w, s), HandleDone(w, s)
    PROVE  (\A t \in Servers : Training(t)') /\ (\A v \in Workers : Asked(v)')
<1>0. /\ KeepsPlace /\ job' = job /\ sent' = sent /\ sent[w] /\ s \in todo[w]
      /\ UNCHANGED <<keys, table>> /\ SparseStep(w, s)
  BY HandleFacts DEF KeepsPlace, HandleFrame, ghost_vars, HandleDone
<1>1. Op(w) \notin {"SparseInit", "SparseClear", "Import", "SparseLoad", "SparsePruneOld", "SparsePruneSmall"}
  BY OpStage
<1>2. ASSUME NEW t \in Servers, NEW k, TrainKey(t, k), sparse'[t] = sparse[t],
             t # s \/ Op(w) \notin {"SparsePush", "SparsePull"}
      PROVE  TrainKey(t, k)'
  <2>1. \A v \in Workers : /\ Out(v, "SparsePush", t)' <=> Out(v, "SparsePush", t)
                           /\ Out(v, "SparsePull", t)' <=> Out(v, "SparsePull", t)
    BY <1>2, OutHandle DEF Out
  <2>2. Pushing(t, k)' = Pushing(t, k)
    BY <1>0, <2>1 DEF Pushing
  <2>3. \A v \in Workers : Makes(v, t, k) => Makes(v, t, k)'
    BY <1>0, <2>1 DEF Makes
  <2>4. Vector(t, k)' = Vector(t, k)
    BY <1>2 DEF Vector
  <2> QED
    BY <1>0, <1>2, <2>2, <2>3, <2>4, KeyStays
<1>3. ASSUME NEW t \in Servers, NEW k \in DOMAIN table, Part(k, job.n) = t PROVE TrainKey(t, k)'
  <2>1. TrainKey(t, k)
    BY <1>3 DEF Training
  <2>2. CASE t # s
    <3>1. sparse'[t] = sparse[t]
      BY <1>0, <2>2 DEF SparseStep
    <3> QED
      BY <1>2, <2>1, <2>2, <3>1
  <2>3. CASE t = s /\ Op(w) = "SparsePush"
    BY <1>3, <2>1, <2>3, TakesPush
  <2>4. CASE t = s /\ Op(w) = "SparsePull"
    BY <1>3, <2>1, <2>4, MakesPulled
  <2>5. CASE t = s /\ Op(w) \notin {"SparsePush", "SparsePull"}
    <3>1. sparse'[t] = sparse[t]
      BY <1>0, <1>1, <2>5 DEF SparseStep
    <3> QED
      BY <1>2, <2>1, <2>5, <3>1
  <2> QED
    BY <2>2, <2>3, <2>4, <2>5
<1>4. ASSUME NEW t \in Servers PROVE Whole(sparse'[t]) /\ \A k \in DOMAIN sparse'[t] : k \in DOMAIN table /\ Part(k, job.n) = t
  <2>0. Whole(sparse[t]) /\ \A k \in DOMAIN sparse[t] : k \in DOMAIN table /\ Part(k, job.n) = t
    BY DEF Training
  <2>1. Asked(w)
    OBVIOUS
  <2>2. CASE t = s /\ Op(w) = "SparsePush"
    <3>1. sparse'[s] = HandlePush(sparse[s], SentTo(keys[w], s)) /\ keys[w] \subseteq DOMAIN table
      BY <1>0, <2>1, <2>2 DEF SparseStep, Asked
    <3>2. DOMAIN HandlePush(sparse[s], SentTo(keys[w], s)) = DOMAIN sparse[s] \cup SentTo(keys[w], s)
      BY DEF HandlePush, FindOrInit
    <3>3. \A k \in SentTo(keys[w], s) : k \in keys[w] /\ Part(k, job.n) = s
      BY DEF SentTo
    <3> QED
      BY <2>0, <2>2, <3>1, <3>2, <3>3, WholeMaps
  <2>3. CASE t = s /\ Op(w) = "SparsePull"
    <3>1. /\ sparse'[s] = FindOrInit(sparse[s], SentTo(keys[w], s) \ {PaddingKey})
          /\ keys[w] \ {PaddingKey} \subseteq DOMAIN table
      BY <1>0, <2>1, <2>3 DEF SparseStep, Asked
    <3>2. DOMAIN FindOrInit(sparse[s], SentTo(keys[w], s) \ {PaddingKey})
              = DOMAIN sparse[s] \cup (SentTo(keys[w], s) \ {PaddingKey})
      BY DEF FindOrInit
    <3>3. \A k \in SentTo(keys[w], s) \ {PaddingKey} : k \in keys[w] \ {PaddingKey} /\ Part(k, job.n) = s
      BY DEF SentTo
    <3> QED
      BY <2>0, <2>3, <3>1, <3>2, <3>3, WholeMaps
  <2>4. CASE t # s \/ Op(w) \notin {"SparsePush", "SparsePull"}
    <3>1. sparse'[t] = sparse[t]
      BY <1>0, <1>1, <2>4 DEF SparseStep
    <3> QED
      BY <2>0, <3>1
  <2> QED
    BY <2>2, <2>3, <2>4
<1>5. ASSUME NEW t \in Servers PROVE Training(t)'
  BY <1>0, <1>3, <1>4 DEF Training
<1>6. ASSUME NEW v \in Workers PROVE Asked(v)'
  <2>1. Asked(v) /\ Op(v)' = Op(v)
    BY <1>0 DEF KeepsPlace
  <2> QED
    BY <1>0, <2>1 DEF Asked
<1> QED
  BY <1>5, <1>6

\* What worker 0 prunes, after the training, the servers will prune.
LEMMA TrainedStep ==
    ASSUME BaseInv, DataInv, Now \in 0..7, \A s \in Servers : Trained(s), NEW w \in Workers,
           \/ Asks(w) \/ GoesOn(w) \/ ComesBack(w)
           \/ \E s \in Servers : HandleFrame(w, s) /\ HandleDone(w, s)
    PROVE  \A s \in Servers : Trained(s)'
<1>0. 0 \in Workers /\ IsMap(table)
  BY ZeroIsWorker DEF DataInv, MapsInv
<1>1. Op(w) \notin {"SparsePull", "SparsePush", "SparseClear", "SparseInit", "Import", "SparseLoad", "SparseReadMeta"}
  BY OpStage
<1>2. ASSUME NEW s \in Servers, job' = job, sparse'[s] = sparse[s], table' = table,
             \A op \in {"SparsePruneOld", "SparsePruneSmall"} : Out(0, op, s)' <=> Out(0, op, s)
      PROVE  Trained(s)'
  <2>1. Expect(s)' = Expect(s)
    BY <1>2 DEF Expect
  <2>2. Trained(s)
    OBVIOUS
  <2>3. Slice(table, s, job.n)' = Slice(table, s, job.n)
    BY <1>2
  <2> QED
    BY <2>1, <2>2, <2>3 DEF Trained
<1>3. ASSUME Asks(w), NEW s \in Servers PROVE Trained(s)'
  <2>1. /\ KeepsPlace /\ Others(w) /\ todo[w] = {} /\ todo'[w] = Servers /\ sparse' = sparse /\ SendsTable(w)
        /\ job' = job /\ Op(w)' = Op(w)
    BY <1>3, AskFacts DEF Asks, server_vars, KeepsPlace
  <2>2. CASE Op(w) \in {"SparsePruneOld", "SparsePruneSmall"}
    <3>1. w = 0
      BY <2>2, OpStage
    <3>2. sparse[s] = Slice(table, s, job.n)
      <4>1. Trained(s)
        OBVIOUS
      <4>2. Expect(s) = sparse[s]
        BY <2>1, <3>1 DEF Expect, Out
      <4> QED
        BY <4>1, <4>2 DEF Trained
    <3>3. CASE Op(0) = "SparsePruneOld"
      <4>1. Expect(s)' = PruneOld(sparse[s], MaxAge) /\ table' = PruneOld(table, MaxAge)
        BY <2>1, <3>1, <3>3 DEF Expect, Out, SendsTable
      <4>2. PruneOld(sparse[s], MaxAge) = Slice(table', s, job.n)
        BY <1>0, <3>2, <4>1, SliceOld
      <4> QED
        BY <2>1, <4>1, <4>2 DEF Trained
    <3>4. CASE Op(0) = "SparsePruneSmall"
      <4>1. Expect(s)' = PruneSmall(sparse[s]) /\ table' = PruneSmall(table)
        BY <2>1, <3>1, <3>4 DEF Expect, Out, SendsTable
      <4>2. PruneSmall(sparse[s]) = Slice(table', s, job.n)
        BY <3>2, <4>1, SliceSmall
      <4> QED
        BY <2>1, <4>1, <4>2 DEF Trained
    <3> QED
      BY <2>2, <3>1, <3>3, <3>4
  <2>3. CASE Op(w) \notin {"SparsePruneOld", "SparsePruneSmall"}
    <3>1. table' = table
      BY <1>1, <2>1, <2>3 DEF SendsTable
    <3>2. \A op \in {"SparsePruneOld", "SparsePruneSmall"} : Out(0, op, s)' <=> Out(0, op, s)
      <4>1. CASE w = 0
        BY <2>1, <2>3, <4>1 DEF Out
      <4>2. CASE w # 0
        BY <1>0, <2>1, <4>2 DEF Out, Others
      <4> QED
        BY <4>1, <4>2
    <3> QED
      BY <1>2, <2>1, <3>1, <3>2
  <2> QED
    BY <2>2, <2>3
<1>4. ASSUME GoesOn(w) \/ ComesBack(w), NEW s \in Servers PROVE Trained(s)'
  <2>1. job' = job /\ sparse' = sparse /\ table' = table
    BY <1>1, <1>4 DEF GoesOn, ComesBack, server_vars
  <2>2. \A op \in {"SparsePruneOld", "SparsePruneSmall"} : Out(0, op, s)' <=> Out(0, op, s)
    BY <1>0, <1>4, OutStays
  <2> QED
    BY <1>2, <2>1, <2>2
<1>5. ASSUME NEW s \in Servers, HandleFrame(w, s), HandleDone(w, s), NEW t \in Servers PROVE Trained(t)'
  <2>1. /\ job' = job /\ table' = table /\ s \in todo[w] /\ SparseStep(w, s)
        /\ \A op : Out(0, op, t)' <=> Out(0, op, t) /\ (0 # w \/ t # s)
    BY <1>0, <1>5, HandleFacts, OutHandle DEF KeepsPlace, HandleFrame, ghost_vars, HandleDone
  <2>2. CASE t = s /\ Op(w) \in {"SparsePruneOld", "SparsePruneSmall"}
    <3>1. w = 0
      BY <2>2, OpStage
    <3>2. Expect(s) = IF Op(0) = "SparsePruneOld" THEN PruneOld(sparse[s], MaxAge) ELSE PruneSmall(sparse[s])
      BY <2>1, <2>2, <3>1 DEF Expect, Out
    <3>3. sparse'[s] = Expect(s)
      BY <2>1, <2>2, <3>1, <3>2 DEF SparseStep
    <3>4. Expect(s)' = sparse'[s]
      BY <2>1, <2>2, <3>1 DEF Expect
    <3>5. Trained(s)
      OBVIOUS
    <3> QED
      BY <2>1, <2>2, <3>3, <3>4, <3>5 DEF Trained
  <2>3. CASE t # s
    <3>1. sparse'[t] = sparse[t]
      BY <2>1, <2>3 DEF SparseStep
    <3> QED
      BY <1>2, <2>1, <2>3, <3>1
  <2>4. CASE t = s /\ Op(w) \notin {"SparsePruneOld", "SparsePruneSmall"}
    <3>1. sparse'[t] = sparse[t]
      BY <1>1, <2>1, <2>4 DEF SparseStep
    <3>2. \A op \in {"SparsePruneOld", "SparsePruneSmall"} : Out(0, op, t)' <=> Out(0, op, t)
      BY <2>1, <2>4 DEF Out
    <3> QED
      BY <1>2, <2>1, <3>1, <3>2
  <2> QED
    BY <2>2, <2>3, <2>4
<1> QED
  BY <1>3, <1>4, <1>5

\* Once worker 0 has pruned them there are no vectors of zeros.
LEMMA PrunedStep ==
    ASSUME BaseInv, Pruned => NoZeros, NEW w \in Workers,
           \/ Asks(w) \/ GoesOn(w) \/ ComesBack(w)
           \/ \E s \in Servers : HandleFrame(w, s) /\ HandleDone(w, s)
    PROVE  Pruned' => NoZeros'
<1> SUFFICES ASSUME Pruned' PROVE NoZeros'
  OBVIOUS
<1>0. 0 \in Workers
  BY ZeroIsWorker
<1>1. Now' = Now
  BY AskFacts, GoFacts, ComeFacts, HandleFacts DEF KeepsPlace
<1>2. Now \in 0..3
  <2>1. Now \in 0..16
    BY NowRange DEF BaseInv, CheckpointInv, OrderInv
  <2> QED
    BY <1>1, <2>1 DEF Pruned
<1>3. Op(w) \notin {"SparsePull", "SparsePush", "SparseClear", "SparsePruneOld", "SparseReadMeta"}
  BY <1>2, OpStage
<1>4. CASE Asks(w) /\ Op(w) = "SparsePruneSmall"
  <2>1. table' = PruneSmall(table)
    BY <1>4 DEF Asks, SendsTable
  <2>2. ASSUME NEW k \in DOMAIN table' PROVE table'[k].v # 0
    <3>1. k \in DOMAIN table /\ table[k].v # 0 /\ table'[k] = table[k]
      BY <2>1, SmallValue
    <3> QED
      BY <3>1
  <2> QED
    BY <2>2 DEF NoZeros
<1>5. CASE ~(Asks(w) /\ Op(w) = "SparsePruneSmall")
  <2>1. table' = table
    BY <1>3, <1>5 DEF Asks, SendsTable, GoesOn, ComesBack, HandleFrame, ghost_vars
  <2>2. Pruned
    <3>1. CASE w = 0
      <4>1. Op(0) = "SparsePruneSmall" => sent[0]
        BY <1>5, <3>1, HandleFacts DEF GoesOn, ComesBack
      <4> QED
        BY <1>1, <4>1 DEF Pruned
    <3>2. CASE w # 0
      <4>1. Op(0)' = Op(0) /\ sent'[0] = sent[0]
        BY <1>0, <3>2, AskFacts, GoFacts, ComeFacts, HandleFacts DEF Others, KeepsPlace
      <4> QED
        BY <1>1, <4>1 DEF Pruned
    <3> QED
      BY <3>1, <3>2
  <2> QED
    BY <2>1, <2>2 DEF NoZeros
<1> QED
  BY <1>4, <1>5

\* The servers hold nothing when the load begins.
LEMMA LoadingBegins ==
    ASSUME BaseInv, DataInv, LoadInv, ImportInv, Barrier, Now = 11, NothingYet
    PROVE  Loading'
<1>0. /\ job' = job /\ 0 \in Workers
      /\ UNCHANGED <<sent, todo, file, sparse, table, saved>>
      /\ \A w \in Workers : ~sent[w] /\ Op(w) \in Barriers /\ MovesOn(w)
  BY PassFacts, ZeroIsWorker
<1>1. Op(0)' = "SparseReadMeta"
  <2>1. Op(0) \in Barriers /\ MovesOn(0)
    BY <1>0
  <2> QED
    BY <2>1, OpStage DEF MovesOn, Edge, Barriers
<1>2. job.old \in Nat \ {0}
  BY OldCount
<1>3. ASSUME NEW k \in DOMAIN saved.table, NEW s PROVE ~Arrived(k, s)'
  <2>1. CASE job.old = job.n
    <3>1. ~Loaded(s)'
      BY <1>1 DEF Loaded, Ans
    <3> QED
      BY <1>0, <2>1, <3>1 DEF Arrived
  <2>2. CASE job.old # job.n
    <3>1. k \in Nat
      BY DEF DataInv, MapsInv, IsMap
    <3>2. PICK i \in Nat : i = Part(k, job.old)
      BY <1>2, <3>1, PartRange
    <3>3. i % WorkerCount \in Workers /\ i % WorkerCount <= i
      <4>1. WorkerCount \in Nat \ {0} /\ i \in Nat
        BY TrainerAssumption
      <4>2. i % WorkerCount \in 0..(WorkerCount - 1)
        BY <4>1
      <4>3. i \div WorkerCount \in Nat /\ i = (i \div WorkerCount) * WorkerCount + (i % WorkerCount)
        BY <4>1, DivFacts
      <4>4. (i \div WorkerCount) * WorkerCount \in Nat
        BY <4>1, <4>3
      <4> QED
        BY <4>1, <4>2, <4>3, <4>4 DEF Workers
    <3>4. PICK v \in Workers : v = i % WorkerCount
      BY <3>3
    <3>5. file[v] = v /\ ~sent'[v] /\ file'[v] = file[v]
      BY <1>0 DEF ImportInv
    <3>6. ~(i < v) /\ ~Ans(v, "Import", s)'
      BY <3>3, <3>4, <3>5 DEF Ans, Workers
    <3>7. Imported(i, s)' <=> i < file'[v] \/ (i = file'[v] /\ Ans(v, "Import", s)')
      BY <3>4 DEF Imported
    <3>8. Arrived(k, s)' <=> Imported(i, s)'
      BY <1>0, <2>2, <3>2 DEF Arrived, Part
    <3> QED
      BY <3>5, <3>6, <3>7, <3>8
  <2> QED
    BY <2>1, <2>2
<1>4. ASSUME NEW s \in Servers PROVE sparse'[s] = Keep(saved.table, Arrivals(s)')
  <2>1. Arrivals(s)' = {}
    <3>1. Arrivals(s)' = {k \in DOMAIN saved.table : Part(k, job.n) = s /\ Arrived(k, s)'}
      BY <1>0 DEF Arrivals, Part
    <3> HIDE DEF Arrived, Part
    <3> QED
      BY <1>3, <3>1
  <2>2. sparse'[s] = EmptyMap
    BY <1>0 DEF NothingYet
  <2>3. DOMAIN Keep(saved.table, {}) = DOMAIN EmptyMap /\ Whole(Keep(saved.table, {})) /\ Whole(EmptyMap)
    BY MapEmpty, WholeMaps DEF Keep
  <2>4. Keep(saved.table, {}) = EmptyMap
    BY <2>3, MapEmpty, MapEqual
  <2> QED
    BY <2>1, <2>2, <2>4
<1>5. table' = EmptyMap
  BY <1>0 DEF NothingYet
<1> QED
  BY <1>0, <1>1, <1>4, <1>5 DEF Loading, Servers

\* Everyone passes a barrier.
LEMMA SparsePass ==
    ASSUME BaseInv, DataInv, LoadInv, ImportInv, SparseInv, Barrier
    PROVE  SparseInv'
<1> SUFFICES ASSUME job'.sound, Live' PROVE SparseInv'
  BY DEF SparseInv
<1>0. /\ Live /\ job' = job /\ job.sound /\ Servers' = Servers /\ Now \in 1..16
      /\ Now' = IF Now = 13 /\ ~job.loads THEN 8 ELSE Now - 1
      /\ UNCHANGED <<sent, todo, keys, file, sparse, table, saved>>
      /\ \A w \in Workers : ~sent[w] /\ todo[w] = {} /\ Op(w) \in Barriers /\ MovesOn(w)
  BY PassFacts DEF Servers
<1>1. AtBarrier /\ 0 \in Workers
  BY ZeroIsWorker DEF Barrier
<1>2. \A s \in Servers : sparse[s] = Slice(table, s, job.n)
  BY <1>0, <1>1, SparseAtBarrier
<1>3. /\ Now \in 11..16 => NothingYet
      /\ Pruned => NoZeros
  BY <1>0 DEF SparseInv
<1>4. ASSUME Now' \in 11..16 PROVE NothingYet'
  <2>1. Now \in 11..16
    BY <1>0, <1>4
  <2> QED
    BY <1>0, <1>3, <2>1 DEF NothingYet
<1>5. ASSUME Now' = 10 PROVE Loading'
  <2>1. Now = 11
    BY <1>0, <1>5
  <2> QED
    BY <1>3, <2>1, LoadingBegins
<1>6. ASSUME NEW s \in Servers PROVE Training(s)'
  <2>1. IsMap(table) /\ \A w \in Workers : s \notin todo[w]
    BY <1>0 DEF DataInv, MapsInv
  <2>2. Training(s)
    BY <1>2, <2>1, SliceTrains
  <2>3. ASSUME NEW k \in DOMAIN table, Part(k, job.n) = s PROVE TrainKey(s, k)'
    <3>1. TrainKey(s, k) /\ Vector(s, k)' = Vector(s, k)
      BY <1>0, <2>2, <2>3 DEF Training, Vector
    <3>2. Pushing(s, k)' = {} /\ Pushing(s, k) = {}
      BY <1>0 DEF Pushing, Out
    <3>3. \A w \in Workers : ~Makes(w, s, k)
      BY <1>0 DEF Makes, Out
    <3> QED
      BY <1>0, <3>1, <3>2, <3>3, KeyStays
  <2> QED
    BY <1>0, <2>2, <2>3 DEF Training
<1>7. ASSUME NEW v \in Workers PROVE Asked(v)'
  BY <1>0 DEF Asked
<1>8. ASSUME NEW s \in Servers PROVE Trained(s)'
  <2>1. Expect(s)' = sparse[s]
    BY <1>0, <1>1 DEF Expect, Out
  <2> QED
    BY <1>0, <1>2, <2>1 DEF Trained
<1>9. ASSUME Pruned' PROVE NoZeros'
  <2>1. Now \in {1, 2, 3}
    <3>1. CASE Now = 4
      <4>1. Op(0) \in Barriers /\ MovesOn(0)
        BY <1>0, <1>1
      <4>2. Op(0)' = "SparsePruneSmall"
        BY <3>1, <4>1 DEF MovesOn, Edge, Barriers
      <4>3. Now' = 3 /\ ~sent'[0]
        BY <1>0, <1>1, <3>1
      <4> QED
        BY <1>9, <4>2, <4>3 DEF Pruned
    <3> QED
      BY <1>0, <1>9, <3>1 DEF Pruned
  <2>2. Pruned
    BY <1>0, <1>1, <2>1 DEF Pruned, Barriers
  <2> QED
    BY <1>0, <1>3, <2>2 DEF NoZeros
<1> QED
  BY <1>0, <1>4, <1>5, <1>6, <1>7, <1>8, <1>9 DEF SparseInv

\* A step that changes nothing the sparse tensor depends on.
LEMMA SparseStays ==
    ASSUME SparseInv, UNCHANGED <<job, prog, sent, todo, raised, keys, file, sparse, table, saved>>
    PROVE  SparseInv'
<1>0. /\ Servers' = Servers /\ (Live' <=> Live) /\ Now' = Now /\ \A w : Op(w)' = Op(w)
  BY Stays DEF Servers, Live
<1>1. /\ NothingYet' <=> NothingYet
      /\ NoZeros' <=> NoZeros
      /\ Pruned' <=> Pruned
  BY <1>0 DEF NothingYet, NoZeros, Pruned
<1>2. /\ \A w, op, s : Out(w, op, s)' <=> Out(w, op, s)
      /\ \A w, op, s : Ans(w, op, s)' <=> Ans(w, op, s)
  BY <1>0 DEF Out, Ans
<1>3. ASSUME NEW s \in Servers, Training(s) PROVE Training(s)'
  <2>1. ASSUME NEW k, TrainKey(s, k) PROVE TrainKey(s, k)'
    <3>1. Vector(s, k)' = Vector(s, k) /\ Pushing(s, k)' = Pushing(s, k) /\ \A w \in Workers : Makes(w, s, k)' = Makes(w, s, k)
      BY <1>2 DEF Vector, Pushing, Makes
    <3> QED
      BY <2>1, <3>1, KeyStays
  <2> QED
    BY <1>3, <2>1 DEF Training
<1>4. \A w \in Workers : Asked(w)' <=> Asked(w)
  BY <1>0 DEF Asked
<1>5. \A s \in Servers : Trained(s)' <=> Trained(s)
  BY <1>2 DEF Trained, Expect, Slice
<1>6. Loading' <=> Loading
  <2>1. ASSUME NEW s PROVE Arrivals(s)' = Arrivals(s)
    <3>1. Loaded(s)' <=> Loaded(s)
      BY <1>0, <1>2 DEF Loaded
    <3>2. \A i : Imported(i, s)' <=> Imported(i, s)
      BY <1>2 DEF Imported
    <3>3. \A k : Arrived(k, s)' <=> Arrived(k, s)
      BY <3>1, <3>2 DEF Arrived, Part
    <3> QED
      BY <3>3, ArrivalsStay
  <2> QED
    BY <1>0, <2>1 DEF Loading
<1> QED
  BY <1>0, <1>1, <1>3, <1>4, <1>5, <1>6 DEF SparseInv

\* A worker or a server takes a step of the job.
LEMMA SparseSteps ==
    ASSUME BaseInv, DataInv, LoadInv, ImportInv, SavedSparseInv, SparseInv, NEW w \in Workers,
           \/ Asks(w) \/ GoesOn(w) \/ ComesBack(w)
           \/ \E s \in Servers : HandleFrame(w, s) /\ HandleDone(w, s)
    PROVE  SparseInv'
<1> SUFFICES ASSUME job'.sound, Live' PROVE SparseInv'
  BY DEF SparseInv
<1>0. /\ job' = job /\ Now' = Now /\ Servers' = Servers /\ raised' = raised
  <2>1. CASE Asks(w)
    BY <2>1, AskFacts DEF KeepsPlace, Servers, Asks
  <2>2. CASE GoesOn(w)
    BY <2>2, GoFacts DEF Servers, GoesOn
  <2>3. CASE ComesBack(w)
    BY <2>3, ComeFacts DEF Servers, ComesBack
  <2>4. CASE \E s \in Servers : HandleFrame(w, s) /\ HandleDone(w, s)
    BY <2>4, HandleFacts DEF KeepsPlace, Servers, HandleDone
  <2> QED
    BY <2>1, <2>2, <2>3, <2>4
<1>1. job.sound /\ Live
  BY <1>0 DEF Live
<1>2. /\ Now \in 11..16 => NothingYet
      /\ Now = 10 => Loading
      /\ Now \in 8..9 => (\A s \in Servers : Training(s)) /\ (\A v \in Workers : Asked(v))
      /\ Now \in 0..7 => \A s \in Servers : Trained(s)
      /\ Pruned => NoZeros
  BY <1>1 DEF SparseInv
<1>3. Now \in 11..16 => NothingYet'
  BY <1>2, NothingStep
<1>4. Now = 10 => Loading'
  BY <1>1, <1>2, LoadingAsks, LoadingGoes, LoadingComes, LoadingHandle
<1>5. Now \in 8..9 => (\A s \in Servers : Training(s)') /\ (\A v \in Workers : Asked(v)')
  <2> SUFFICES ASSUME Now \in 8..9 PROVE (\A s \in Servers : Training(s)') /\ (\A v \in Workers : Asked(v)')
    OBVIOUS
  <2>0. (\A s \in Servers : Training(s)) /\ (\A v \in Workers : Asked(v))
    BY <1>2
  <2>1. CASE Asks(w) /\ Op(w) = "SparsePull"
    BY <2>0, <2>1, TrainingPulls
  <2>2. CASE Asks(w) /\ Op(w) = "SparsePush"
    BY <2>0, <2>2, TrainingPushes
  <2>3. CASE \/ Asks(w) /\ Op(w) \notin {"SparsePull", "SparsePush"}
             \/ GoesOn(w) \/ ComesBack(w)
    BY <2>0, <2>3, TrainingMoves
  <2>4. ASSUME NEW s \in Servers, HandleFrame(w, s), HandleDone(w, s)
        PROVE  (\A t \in Servers : Training(t)') /\ (\A v \in Workers : Asked(v)')
    BY <2>0, <2>4, TrainingHandle
  <2> QED
    BY <2>1, <2>2, <2>3, <2>4
<1>6. Now \in 0..7 => \A s \in Servers : Trained(s)'
  BY <1>2, TrainedStep
<1>7. Pruned' => NoZeros'
  BY <1>2, PrunedStep
<1> QED
  BY <1>0, <1>3, <1>4, <1>5, <1>6, <1>7 DEF SparseInv

\* What the servers hold of the sparse tensor, in every stage of a job.
LEMMA SparseNext ==
    BaseInv /\ DataInv /\ LoadInv /\ ImportInv /\ SavedSparseInv /\ SparseInv /\ [Next]_vars => SparseInv'
<1> SUFFICES ASSUME BaseInv, DataInv, LoadInv, ImportInv, SavedSparseInv, SparseInv, [Next]_vars PROVE SparseInv'
  OBVIOUS
<1>1. CASE NewJob
  <2>1. /\ Now' = 16 /\ table' = EmptyMap /\ sparse' = [s \in Servers' |-> EmptyMap]
    BY <1>1, StartFacts
  <2>2. NothingYet' /\ ~Pruned'
    BY <2>1 DEF NothingYet, Pruned
  <2> QED
    BY <2>1, <2>2 DEF SparseInv
<1>2. CASE Barrier
  BY <1>2, SparsePass
<1>3. CASE Over \/ UNCHANGED vars
  <2>1. UNCHANGED <<job, prog, sent, todo, raised, keys, file, sparse, table, saved>>
    BY <1>3 DEF Over, vars, worker_vars, server_vars, ghost_vars
  <2> QED
    BY <2>1, SparseStays
<1>4. ASSUME NEW w \in Workers, WorkerStep(w) PROVE SparseInv'
  <2>1. CASE Fails(w)
    <3>1. UNCHANGED <<job, prog, sent, todo, raised, keys, file, sparse, table, saved>>
      BY <2>1, FailFacts DEF KeepsPlace
    <3> QED
      BY <3>1, SparseStays
  <2>2. CASE ~Fails(w)
    <3>1. Asks(w) \/ GoesOn(w) \/ ComesBack(w)
      BY <1>4, <2>2, WorkerCases DEF BaseInv, CheckpointInv, OrderInv
    <3> QED
      BY <3>1, SparseSteps
  <2> QED
    BY <2>1, <2>2
<1>5. ASSUME NEW w \in Workers, NEW s \in Servers, Handle(w, s) PROVE SparseInv'
  <2>1. HandleFrame(w, s) /\ (HandleDone(w, s) \/ HandleRefused(w, s))
    BY <1>5, HandleCases DEF BaseInv, CheckpointInv
  <2>2. CASE HandleRefused(w, s)
    <3>1. ~Live'
      BY <2>2, RefusedIsNotLive
    <3> QED
      BY <3>1 DEF SparseInv
  <2>3. CASE HandleDone(w, s)
    BY <2>1, <2>3, SparseSteps
  <2> QED
    BY <2>1, <2>2, <2>3
<1> QED
  BY <1>1, <1>2, <1>3, <1>4, <1>5 DEF Next

SparseParts == WholeInv /\ ImportInv /\ SavedSparseInv /\ SparseInv

\* The sparse tensor at the beginning.
LEMMA SparseStart == Init => SparseParts
<1> SUFFICES ASSUME Init PROVE SparseParts
  OBVIOUS
<1>1. /\ Servers = {} /\ table = EmptyMap /\ saved.table = EmptyMap /\ intact = FALSE
      /\ \A w \in Workers : prog[w] = <<>> /\ file[w] = w /\ Op(w) = None /\ ~sent[w]
  BY DEF Init, Servers, Op
<1>2. Now = 0
  <2>1. BaseInv /\ 0 \in Workers
    BY BaseInit, ZeroIsWorker
  <2> QED
    BY <1>1, <2>1, NowRange DEF BaseInv, CheckpointInv, OrderInv
<1>3. WholeInv
  <2>1. Whole(EmptyMap)
    BY WholeMaps
  <2> QED
    BY <1>1, <2>1 DEF WholeInv
<1>4. ImportInv
  BY <1>1, <1>2, NoneApart DEF ImportInv
<1>5. SavedSparseInv
  BY <1>1 DEF SavedSparseInv
<1>6. SparseInv
  <2>1. NoZeros
    BY <1>1, MapEmpty DEF NoZeros
  <2> QED
    BY <1>1, <1>2, <2>1 DEF SparseInv
<1> QED
  BY <1>3, <1>4, <1>5, <1>6 DEF SparseParts

\* At a barrier nothing is on its way: the servers hold the tensors.
LEMMA TensorsAtBarrier == SoundInv /\ DenseParts /\ SparseParts => TensorsMatch
<1> SUFFICES ASSUME SoundInv, DenseParts, SparseParts PROVE TensorsMatch
  OBVIOUS
<1>0. BaseInv /\ DataInv /\ LoadInv /\ DenseInv /\ WholeInv /\ ImportInv /\ SparseInv
  BY DEF SoundInv, DenseParts, SparseParts
<1>1. TypeOK
  BY <1>0, DataTypes
<1>2. ASSUME AtBarrier, job.sound
      PROVE  /\ table = Union(sparse)
             /\ \A s, t \in Servers : s # t => DOMAIN sparse[s] \cap DOMAIN sparse[t] = {}
  <2>1. \A s \in Servers : sparse[s] = Slice(table, s, job.n)
    BY <1>0, <1>2, SparseAtBarrier
  <2>2. job.n \in ServerCounts
    BY <1>0, <1>2, BarrierFacts, HasServers, ZeroIsWorker
  <2> QED
    BY <1>0, <2>1, <2>2, HeldTable
<1>3. ASSUME AtBarrier, job.sound, NEW s \in Servers, dmeta[s] # None, NEW r \in RowsOf(s)
      PROVE  dense[s].data[r] = vec.data[r] /\ dense[s].state[r] = vec.state[r]
  BY <1>0, <1>3, DenseAtBarrier
<1> QED
  BY <1>1, <1>2, <1>3 DEF TensorsMatch

\* The invariant of the tensors is inductive.
LEMMA PartsNext == SoundInv /\ DenseParts /\ SparseParts /\ [Next]_vars => SoundInv' /\ DenseParts' /\ SparseParts'
BY BaseNext, DataNext, LoadNext, SavedDenseNext, DenseNext, ModelNext, WholeNext, ImportNext, SavedSparseNext, SparseNext
   DEF SoundInv, DenseParts, SparseParts

\* When all workers wait at a barrier the servers hold the tensors that the
\* operations of the job make: every update once, whatever was loaded and by how
\* many servers it was saved (SparseTensor::Load and Push, DenseTensor::Load and
\* Push, the partitions' handlers).
THEOREM TrainerTensorsMatch == Spec => []TensorsMatch
<1>1. Init => SoundInv /\ DenseParts /\ SparseParts
  BY BaseInit, DataInit, DenseStart, SparseStart DEF SoundInv, DenseParts
<1>2. SoundInv /\ DenseParts /\ SparseParts /\ [Next]_vars => SoundInv' /\ DenseParts' /\ SparseParts'
  BY PartsNext
<1>3. SoundInv /\ DenseParts /\ SparseParts => TensorsMatch
  BY TensorsAtBarrier
<1> QED
  BY <1>1, <1>2, <1>3, PTL DEF Spec

-----------------------------------------------------------------------------
(***************************************************************************)
(* The exported model: each server has written the partition it holds, and *)
(* worker 0 the module it pulled.                                          *)
(***************************************************************************)
ExportInv ==
    /\ job.num > 0 => job.n \in ServerCounts
    /\ job.sound /\ Live /\ job.num > 0 =>
        /\ \A s \in Servers : Ans(0, "SparseExport", s) => export.parts[s] = sparse[s]
        /\ Now = 0 \/ (Now = 1 /\ Op(0) = "synced") =>
              /\ export.count = job.n /\ export.model = vec.data
              /\ \A s \in Servers : export.parts[s] = sparse[s]

\* A worker or a server takes a step of the job.
LEMMA ExportSteps ==
    ASSUME BaseInv, ModelInv, ExportInv, NEW w \in Workers,
           \/ Asks(w) \/ GoesOn(w) \/ ComesBack(w)
           \/ \E s \in Servers : HandleFrame(w, s) /\ HandleDone(w, s)
    PROVE  ExportInv'
<1>0. /\ job' = job /\ Now' = Now /\ Servers' = Servers /\ raised' = raised /\ 0 \in Workers
      /\ Op(w) \in Operations \ Barriers
  <2>1. CASE Asks(w)
    BY <2>1, AskFacts, ZeroIsWorker DEF KeepsPlace, Servers, Asks
  <2>2. CASE GoesOn(w)
    BY <2>2, GoFacts, ZeroIsWorker DEF Servers, GoesOn
  <2>3. CASE ComesBack(w)
    BY <2>3, ComeFacts, ZeroIsWorker DEF Servers, ComesBack
  <2>4. CASE \E s \in Servers : HandleFrame(w, s) /\ HandleDone(w, s)
    BY <2>4, HandleFacts, ZeroIsWorker DEF KeepsPlace, Servers, HandleDone
  <2> QED
    BY <2>1, <2>2, <2>3, <2>4
<1>1. Now # 0
  BY <1>0, NowRange, NoneAssumption DEF BaseInv, CheckpointInv, OrderInv
<1> SUFFICES ASSUME job.sound, Live, job.num > 0
             PROVE  /\ \A s \in Servers : Ans(0, "SparseExport", s)' => export'.parts[s] = sparse'[s]
                    /\ Now = 1 /\ Op(0)' = "synced" =>
                          /\ export'.count = job.n /\ export'.model = vec'.data
                          /\ \A s \in Servers : export'.parts[s] = sparse'[s]
  BY <1>0, <1>1 DEF ExportInv, Live
<1>2. /\ \A s \in Servers : Ans(0, "SparseExport", s) => export.parts[s] = sparse[s]
      /\ Now = 1 /\ Op(0) = "synced" =>
            /\ export.count = job.n /\ export.model = vec.data
            /\ \A s \in Servers : export.parts[s] = sparse[s]
  BY DEF ExportInv
<1>3. Now = 1 => Op(w) \in {"SparsePullReadOnly", "DensePull", "SparseExport"}
  <2>1. Edge(w, job.n, job.loads, job.old, Op(w), Now, Then(w))
    <3>1. ProgInv /\ PathInv /\ prog[w] # <<>>
      BY AskFacts, GoFacts, ComeFacts, HandleFacts DEF BaseInv, CheckpointInv, OrderInv
    <3> QED
      BY <3>1, OpEdge
  <2> QED
    BY <1>0, <2>1 DEF Edge, Barriers
<1>4. CASE Asks(w)
  <2>1. /\ KeepsPlace /\ Others(w) /\ todo'[w] = Servers /\ UNCHANGED <<sparse, export>> /\ SendsVec(w)
    BY <1>4, AskFacts DEF Asks, server_vars, disk_vars
  <2>2. Now = 1 => vec' = vec
    BY <1>3, <2>1 DEF SendsVec
  <2>3. ASSUME NEW s \in Servers, Ans(0, "SparseExport", s)' PROVE Ans(0, "SparseExport", s)
    <3>1. w # 0
      BY <2>1, <2>3 DEF Ans
    <3> QED
      BY <1>0, <2>1, <2>3, <3>1 DEF Ans, Others
  <2> QED
    BY <1>0, <1>2, <2>1, <2>2, <2>3 DEF KeepsPlace
<1>5. CASE GoesOn(w)
  <2>1. /\ Others(w) /\ MovesOn(w) /\ UNCHANGED <<sparse, export, sent, todo>> /\ ~sent[w]
        /\ Op(w) \in {"SparseReadMeta", "DenseReadMeta", "Import", "SparsePush", "DensePush", "SparsePullReadOnly"}
        /\ (Op(w) # "DenseReadMeta" => vec' = vec)
    BY <1>5, GoFacts DEF GoesOn, server_vars, disk_vars
  <2>2. Now = 1 => vec' = vec /\ Op(w) = "SparsePullReadOnly" /\ Op(w)' = "DensePull"
    <3>1. Now = 1 => Op(w) = "SparsePullReadOnly"
      BY <1>3, <2>1
    <3> QED
      BY <2>1, <3>1 DEF MovesOn, Edge
  <2>3. ASSUME NEW s \in Servers, Ans(0, "SparseExport", s)' PROVE Ans(0, "SparseExport", s)
    <3>1. w # 0
      BY <2>1, <2>3 DEF Ans
    <3> QED
      BY <1>0, <2>1, <2>3, <3>1 DEF Ans, Others
  <2>4. Now = 1 /\ Op(0)' = "synced" => Op(0) = "synced"
    BY <1>0, <2>1, <2>2 DEF Others
  <2> QED
    BY <1>2, <2>1, <2>2, <2>3, <2>4
<1>6. CASE ComesBack(w)
  <2>1. /\ Others(w) /\ UNCHANGED <<sparse, vec, todo>> /\ sent[w] /\ ~sent'[w] /\ todo[w] = {}
        /\ (Op(w) # "Import" => MovesOn(w))
        /\ export' = IF Op(w) = "SparseExport" THEN [export EXCEPT !.count = job.n, !.model = model[w]] ELSE export
    BY <1>6, ComeFacts DEF ComesBack, server_vars
  <2>2. export'.parts = export.parts
    BY <2>1 DEF BaseInv, FormInv
  <2>3. ASSUME NEW s \in Servers, Ans(0, "SparseExport", s)' PROVE Ans(0, "SparseExport", s)
    <3>1. w # 0
      BY <2>1, <2>3 DEF Ans
    <3> QED
      BY <1>0, <2>1, <2>3, <3>1 DEF Ans, Others
  <2>4. CASE Op(w) = "SparseExport"
    <3>1. w = 0 /\ Now = 1
      BY <2>4, OpStage
    <3>2. \A s \in Servers : export.parts[s] = sparse[s]
      BY <1>2, <2>1, <2>4, <3>1 DEF Ans
    <3>3. model[w] = vec.data
      BY <2>4, <3>1 DEF ModelInv
    <3>4. export'.count = job.n /\ export'.model = model[w]
      <4>1. export = [count |-> export.count, parts |-> export.parts, model |-> export.model]
        BY DEF BaseInv, FormInv
      <4> QED
        BY <2>1, <2>4, <4>1
    <3> QED
      BY <2>1, <2>2, <3>2, <3>3, <3>4
  <2>5. CASE Op(w) # "SparseExport"
    <3>1. export' = export
      BY <2>1, <2>5
    <3>2. Now = 1 /\ Op(0)' = "synced" => Op(0) = "synced"
      <4>1. CASE w = 0
        BY <1>3, <2>1, <2>5, <4>1 DEF MovesOn, Edge
      <4>2. CASE w # 0
        BY <1>0, <2>1, <4>2 DEF Others
      <4> QED
        BY <4>1, <4>2
    <3> QED
      BY <1>2, <2>1, <2>3, <3>1, <3>2
  <2> QED
    BY <2>4, <2>5
<1>7. ASSUME NEW s \in Servers, HandleFrame(w, s), HandleDone(w, s)
      PROVE  /\ \A t \in Servers : Ans(0, "SparseExport", t)' => export'.parts[t] = sparse'[t]
             /\ Now = 1 /\ Op(0)' = "synced" =>
                   /\ export'.count = job.n /\ export'.model = vec'.data
                   /\ \A t \in Servers : export'.parts[t] = sparse'[t]
  <2>1. /\ KeepsPlace /\ sent' = sent /\ vec' = vec /\ SparseStep(w, s) /\ FileStep(w, s)
        /\ todo'[w] = todo[w] \ {s} /\ \A v \in Workers : v # w => todo'[v] = todo[v]
    BY <1>7, HandleFacts DEF HandleFrame, ghost_vars, HandleDone
  <2>2. Now = 1 => \A t \in Servers : sparse'[t] = sparse[t]
    <3>1. Now = 1 => sparse'[s] = sparse[s]
      BY <1>3, <2>1 DEF SparseStep
    <3> QED
      BY <2>1, <3>1 DEF SparseStep
  <2>3. Op(0)' = Op(0)
    BY <1>0, <2>1 DEF KeepsPlace
  <2>4. CASE Op(w) = "SparseExport"
    <3>1. w = 0 /\ Now = 1
      BY <2>4, OpStage
    <3>2. export'.parts = [export.parts EXCEPT ![s] = sparse[s]]
      <4>1. export = [count |-> export.count, parts |-> export.parts, model |-> export.model]
        BY DEF BaseInv, FormInv
      <4>2. export' = [export EXCEPT !.parts[s] = sparse[s]]
        BY <2>1, <2>4 DEF FileStep
      <4> QED
        BY <4>1, <4>2
    <3>3. export'.parts[s] = sparse[s] /\ \A t \in Servers : t # s => export'.parts[t] = export.parts[t]
      <4>1. DOMAIN export.parts = Servers
        BY DEF BaseInv, FormInv
      <4> QED
        BY <3>2, <4>1
    <3>4. ASSUME NEW t \in Servers, Ans(0, "SparseExport", t)' PROVE export'.parts[t] = sparse'[t]
      <4>1. CASE t = s
        BY <2>2, <3>1, <3>3, <4>1
      <4>2. CASE t # s
        <5>1. Ans(0, "SparseExport", t)
          BY <2>1, <2>3, <3>1, <3>4, <4>2 DEF Ans
        <5> QED
          BY <1>2, <2>2, <3>1, <3>3, <4>2, <5>1
      <4> QED
        BY <4>1, <4>2
    <3> QED
      BY <2>3, <2>4, <3>1, <3>4
  <2>5. CASE Op(w) # "SparseExport"
    <3>1. export' = export
      BY <2>1, <2>5 DEF FileStep
    <3>2. ASSUME NEW t \in Servers, Ans(0, "SparseExport", t)' PROVE export'.parts[t] = sparse'[t]
      <4>1. w # 0
        BY <2>3, <2>5, <3>2 DEF Ans
      <4>2. Ans(0, "SparseExport", t)
        BY <1>0, <2>1, <2>3, <3>2, <4>1 DEF Ans
      <4>3. Now = 1
        BY <1>0, <4>2, OpStage DEF Ans
      <4> QED
        BY <1>2, <2>2, <3>1, <4>2, <4>3
    <3> QED
      BY <1>2, <2>1, <2>2, <2>3, <3>1, <3>2
  <2> QED
    BY <2>4, <2>5
<1> QED
  BY <1>4, <1>5, <1>6, <1>7

\* The parts of an exported model are what the servers hold.
LEMMA ExportNext == BaseInv /\ ModelInv /\ ExportInv /\ [Next]_vars => ExportInv'
<1> SUFFICES ASSUME BaseInv, ModelInv, ExportInv, [Next]_vars PROVE ExportInv'
  OBVIOUS
<1>0. 0 \in Workers /\ (job.num > 0 => job.n \in ServerCounts)
  BY ZeroIsWorker DEF ExportInv
<1>1. CASE NewJob
  <2>1. job'.n \in ServerCounts /\ Now' = 16 /\ Op(0)' = "barrier"
    BY <1>0, <1>1, StartFacts
  <2> QED
    BY <2>1 DEF ExportInv, Ans
<1>2. CASE Barrier
  <2>1. /\ Live /\ job' = job /\ Now' = IF Now = 13 /\ ~job.loads THEN 8 ELSE Now - 1
        /\ Now \in 1..16 /\ ~sent'[0] /\ Op(0) \in Barriers /\ MovesOn(0)
        /\ UNCHANGED <<sparse, export, vec>>
    BY <1>0, <1>2, PassFacts
  <2>2. Now' = 0 => Now = 1 /\ Op(0) = "synced"
    BY <1>0, <2>1, OpStage DEF Barriers
  <2>3. ~(Now' = 1 /\ Op(0)' = "synced")
    BY <2>1 DEF MovesOn, Edge, Barriers
  <2>4. Servers' = Servers /\ \A s : ~Ans(0, "SparseExport", s)'
    BY <2>1 DEF Servers, Ans
  <2> QED
    BY <1>0, <2>1, <2>2, <2>3, <2>4 DEF ExportInv
<1>3. ASSUME KeepsPlace, UNCHANGED <<sent, todo, raised, export, sparse, vec>>
      PROVE  ExportInv'
  <2>1. job' = job /\ Now' = Now /\ Op(0)' = Op(0) /\ Servers' = Servers /\ (Live' <=> Live)
    BY <1>0, <1>3 DEF KeepsPlace, Servers, Live
  <2>2. \A s : Ans(0, "SparseExport", s)' <=> Ans(0, "SparseExport", s)
    BY <1>3, <2>1 DEF Ans
  <2> QED
    BY <1>3, <2>1, <2>2 DEF ExportInv
<1>4. CASE Over \/ UNCHANGED vars
  <2>1. UNCHANGED <<job, prog, sent, todo, raised, export, sparse, vec>>
    BY <1>4 DEF Over, vars, worker_vars, server_vars, disk_vars, ghost_vars
  <2> QED
    BY <1>3, <2>1, Stays DEF KeepsPlace
<1>5. ASSUME NEW w \in Workers, WorkerStep(w) PROVE ExportInv'
  <2>1. CASE Fails(w)
    BY <1>3, <2>1, FailFacts
  <2>2. CASE ~Fails(w)
    <3>1. Asks(w) \/ GoesOn(w) \/ ComesBack(w)
      BY <1>5, <2>2, WorkerCases DEF BaseInv, CheckpointInv, OrderInv
    <3> QED
      BY <3>1, ExportSteps
  <2> QED
    BY <2>1, <2>2
<1>6. ASSUME NEW w \in Workers, NEW s \in Servers, Handle(w, s) PROVE ExportInv'
  <2>1. HandleFrame(w, s) /\ (HandleDone(w, s) \/ HandleRefused(w, s))
    BY <1>6, HandleCases DEF BaseInv, CheckpointInv
  <2>2. CASE HandleRefused(w, s)
    <3>1. ~Live' /\ job' = job
      BY <2>1, <2>2, RefusedIsNotLive, HandleFacts DEF KeepsPlace
    <3> QED
      BY <1>0, <3>1 DEF ExportInv
  <2>3. CASE HandleDone(w, s)
    BY <2>1, <2>3, ExportSteps
  <2> QED
    BY <2>1, <2>2, <2>3
<1> QED
  BY <1>1, <1>2, <1>4, <1>5, <1>6 DEF Next

\* A job that is over.
LEMMA ExportAtEnd ==
    SoundInv /\ DenseParts /\ SparseParts /\ ExportInv => ExportComplete
<1> SUFFICES ASSUME SoundInv, DenseParts, SparseParts, ExportInv, Complete, job.sound, job.num > 0
             PROVE  /\ export.count = job.n /\ export.model = vec.data
                    /\ Union(export.parts) = table
                    /\ \A k \in DOMAIN table : table[k].v # 0
  BY DEF ExportComplete
<1>0. /\ BaseInv /\ DataInv /\ WholeInv /\ SparseInv /\ 0 \in Workers
      /\ ProgInv /\ PathInv /\ FormInv
  BY ZeroIsWorker DEF SoundInv, DenseParts, SparseParts, BaseInv, CheckpointInv, OrderInv
<1>1. \A w \in Workers : Op(w) = None
  BY DEF Complete, Op
<1>2. Now = 0
  BY <1>0, <1>1, NowRange
<1>3. \A w \in Workers : todo[w] = {} /\ ~raised[w]
  BY <1>0, <1>1, Quiet
<1>4. Live
  BY <1>3 DEF Live
<1>5. /\ export.count = job.n /\ export.model = vec.data
      /\ \A s \in Servers : export.parts[s] = sparse[s]
  BY <1>2, <1>4 DEF ExportInv
<1>6. \A s \in Servers : export.parts[s] = Slice(table, s, job.n)
  <2>1. \A s \in Servers : Trained(s)
    BY <1>0, <1>2, <1>4 DEF SparseInv
  <2>2. \A s \in Servers : Expect(s) = sparse[s]
    BY <1>0, <1>3 DEF Expect, Out
  <2> QED
    BY <1>5, <2>1, <2>2 DEF Trained
<1>7. Union(export.parts) = table
  <2>1. job.n \in Nat \ {0}
    BY TrainerAssumption DEF ExportInv
  <2>2. DOMAIN export.parts = 0..(job.n - 1)
    BY <1>0 DEF FormInv, Servers
  <2>3. IsMap(table) /\ Whole(table)
    BY <1>0 DEF DataInv, MapsInv, WholeInv
  <2> QED
    BY <1>6, <2>1, <2>2, <2>3, UnionOfSlices DEF Servers
<1>8. NoZeros
  BY <1>0, <1>2, <1>4 DEF SparseInv, Pruned
<1> QED
  BY <1>5, <1>7, <1>8 DEF NoZeros

\* No model is exported at the beginning.
LEMMA ExportStart == Init => ExportInv
<1> SUFFICES ASSUME Init PROVE ExportInv
  OBVIOUS
<1>1. job.num = 0
  BY DEF Init
<1> QED
  BY <1>1 DEF ExportInv

\* A finished job has exported, in as many parts as it has servers, the tensors it
\* trained, without vectors of zeros (Model.prune_small, Model.export,
\* SparseTensorPartition's HandleExport).
THEOREM TrainerExportComplete == Spec => []ExportComplete
<1> DEFINE Parts == SoundInv /\ DenseParts /\ SparseParts /\ ExportInv
<1>1. Init => Parts
  BY BaseInit, DataInit, DenseStart, SparseStart, ExportStart DEF SoundInv, DenseParts
<1>2. Parts /\ [Next]_vars => Parts'
  BY PartsNext, ExportNext DEF SoundInv, DenseParts
<1>3. Parts => ExportComplete
  BY ExportAtEnd
<1> QED
  BY <1>1, <1>2, <1>3, PTL DEF Spec

-----------------------------------------------------------------------------
(***************************************************************************)
(* Pulls.  From the first barrier after the initialization on every server *)
(* has the tensors, so that no request is refused while the workers train; *)
(* an answer has a vector as it was when the server took it.               *)
(***************************************************************************)
MetasInv ==
    /\ Now = 15 /\ ~raised[0] => \A s \in Servers :
          /\ Op(0) \in {"DenseInit", "barrier"} \/ Ans(0, "SparseInit", s) => smeta[s] # None
          /\ Op(0) = "barrier" \/ Ans(0, "DenseInit", s) => dmeta[s] # None
    /\ Now \in 1..14 => \A s \in Servers : smeta[s] # None /\ dmeta[s] # None
    /\ Now \in 1..8 => Live

FreshKey(w, s, k) ==
    /\ k \in DOMAIN floor[w] =>
          /\ floor[w][k] \in Int
          /\ Out(w, "SparsePull", s) => floor[w][k] <= Vector(s, k).v
    /\ Ans(w, "SparsePull", s) =>
          IF k = PaddingKey THEN got[w][s][k] = 0
          ELSE /\ k \in DOMAIN sparse[s] /\ got[w][s][k] \in Nat /\ got[w][s][k] <= sparse[s][k].v
               /\ k \in DOMAIN floor[w] => floor[w][k] <= got[w][s][k]
FreshInv ==
    job.sound => \A w \in Workers : Op(w) = "SparsePull" /\ sent[w] =>
        \A k \in keys[w] : FreshKey(w, Part(k, job.n), k)

\* A server that has the tensors refuses no request but those that make them or
\* read a file.
LEMMA NotRefused ==
    ASSUME FormInv, NEW w \in Workers, NEW s \in Servers, Handle(w, s), smeta[s] # None, dmeta[s] # None,
           Op(w) \notin {"SparseInit", "DenseInit", "SparseLoad"}
    PROVE  raised' = raised
<1>0. raised \in [Workers -> BOOLEAN]
  BY DEF FormInv
<1>1. \A a : Answer(w, s, a, TRUE) => raised' = raised
  BY <1>0 DEF Answer
<1>2. \A op, map, a : SparseCommand(w, s, op, map, a) => raised' = raised
  BY <1>1 DEF SparseCommand
<1>3. CASE HandleSparseInit(w, s) \/ HandleDenseInit(w, s) \/ HandleSparseLoad(w, s)
  BY <1>3 DEF HandleSparseInit, HandleDenseInit, HandleSparseLoad, Handles
<1>4. CASE \/ HandleSparseClear(w, s) \/ HandleSparsePush(w, s) \/ HandleSparsePushPartition(w, s)
           \/ HandleSparsePrune(w, s)
  BY <1>2, <1>4 DEF HandleSparseClear, HandleSparsePush, HandleSparsePushPartition, HandleSparsePrune
<1>5. CASE HandleSparsePull(w, s)
  BY <1>2, <1>5 DEF HandleSparsePull
<1>6. CASE HandleSparseSave(w, s) \/ HandleSparseExport(w, s) \/ HandlePushMeta(w, s)
  BY <1>1, <1>6 DEF HandleSparseSave, HandleSparseExport, HandlePushMeta
<1>7. CASE HandlePullMeta(w, s)
  <2>1. \/ raised' = [raised EXCEPT ![w] = @ \/ ~(smeta[s] # None)]
        \/ raised' = [raised EXCEPT ![w] = @ \/ ~(dmeta[s] # None)]
    BY <1>7 DEF HandlePullMeta, Answer
  <2> QED
    BY <1>0, <2>1
<1>8. CASE HandleDensePush(w, s)
  <2>1. Answer(w, s, None, TRUE)
    BY <1>8 DEF HandleDensePush
  <2> QED
    BY <1>1, <2>1
<1>9. CASE HandleDensePull(w, s)
  BY <1>1, <1>9 DEF HandleDensePull
<1> QED
  BY <1>3, <1>4, <1>5, <1>6, <1>7, <1>8, <1>9 DEF Handle

\* Nor do the servers while the workers train, or later.
LEMMA AliveHandle ==
    ASSUME BaseInv, MetasInv, Now \in 1..8, NEW w \in Workers, NEW s \in Servers, Handle(w, s)
    PROVE  HandleFrame(w, s) /\ HandleDone(w, s) /\ raised' = raised /\ Live /\ Live'
<1>1. HandleFrame(w, s) /\ (HandleDone(w, s) \/ HandleRefused(w, s))
  BY HandleCases DEF BaseInv, CheckpointInv
<1>2. smeta[s] # None /\ dmeta[s] # None /\ Live
  BY DEF MetasInv
<1>3. Op(w) \notin {"SparseInit", "DenseInit", "SparseLoad"}
  BY OpStage
<1>4. raised' = raised
  BY <1>2, <1>3, NotRefused DEF BaseInv
<1>5. ~HandleRefused(w, s)
  BY <1>2, <1>4, RefusedIsNotLive DEF Live
<1> QED
  BY <1>1, <1>2, <1>4, <1>5 DEF Live

\* The servers have both tensors once worker 0 has initialized them.
LEMMA MetasNext == BaseInv /\ MetaInv /\ MetasInv /\ [Next]_vars => MetasInv'
<1> SUFFICES ASSUME BaseInv, MetaInv, MetasInv, [Next]_vars PROVE MetasInv'
  OBVIOUS
<1>0. 0 \in Workers /\ WaitInv
  BY ZeroIsWorker DEF BaseInv, CheckpointInv, OrderInv
<1>1. CASE NewJob
  <2>1. Now' = 16
    BY <1>1, StartFacts
  <2> QED
    BY <2>1 DEF MetasInv
<1>2. CASE Barrier
  <2>1. /\ Live /\ Live' /\ job' = job /\ Now' = IF Now = 13 /\ ~job.loads THEN 8 ELSE Now - 1
        /\ Now \in 1..16 /\ ~sent'[0] /\ Op(0) \in Barriers /\ MovesOn(0)
        /\ UNCHANGED <<smeta, dmeta>> /\ Servers' = Servers
    BY <1>0, <1>2, PassFacts DEF Servers
  <2>2. CASE Now = 16
    <3>1. Op(0)' = "SparseInit" /\ Now' = 15
      BY <2>1, <2>2 DEF MovesOn, Edge, Barriers
    <3> QED
      BY <2>1, <3>1 DEF MetasInv, Ans
  <2>3. CASE Now = 15
    <3>1. Op(0) = "barrier" /\ ~raised[0]
      BY <1>0, <2>1, <2>3, OpStage DEF Barriers, Live
    <3>2. \A s \in Servers : smeta[s] # None /\ dmeta[s] # None
      BY <2>3, <3>1 DEF MetasInv
    <3>3. Now' = 14
      BY <2>1, <2>3
    <3> QED
      BY <2>1, <3>2, <3>3 DEF MetasInv
  <2>4. CASE Now \in 1..14
    <3>1. Now' # 15
      BY <2>1, <2>4
    <3> QED
      BY <2>1, <2>4, <3>1 DEF MetasInv
  <2> QED
    BY <2>1, <2>2, <2>3, <2>4
<1>3. ASSUME KeepsPlace, UNCHANGED <<sent, todo, raised, smeta, dmeta>>
      PROVE  MetasInv'
  <2>1. Now' = Now /\ Op(0)' = Op(0) /\ Servers' = Servers /\ (Live' <=> Live)
    BY <1>0, <1>3 DEF KeepsPlace, Servers, Live
  <2>2. \A op, s : Ans(0, op, s)' <=> Ans(0, op, s)
    BY <1>3, <2>1 DEF Ans
  <2> QED
    BY <1>3, <2>1, <2>2 DEF MetasInv
<1>4. CASE Over \/ UNCHANGED vars
  <2>1. UNCHANGED <<job, prog, sent, todo, raised, smeta, dmeta>>
    BY <1>4 DEF Over, vars, worker_vars, server_vars
  <2> QED
    BY <1>3, <2>1, Stays DEF KeepsPlace
<1>5. ASSUME NEW w \in Workers, WorkerStep(w) PROVE MetasInv'
  <2>1. CASE Fails(w)
    BY <1>3, <2>1, FailFacts
  <2>2. CASE Asks(w)
    <3>1. KeepsPlace /\ Others(w) /\ todo'[w] = Servers /\ UNCHANGED <<raised, smeta, dmeta>>
      BY <2>2, AskFacts DEF Asks, server_vars
    <3>2. Now' = Now /\ Op(0)' = Op(0) /\ Servers' = Servers /\ (Live' <=> Live)
      BY <1>0, <3>1 DEF KeepsPlace, Servers, Live
    <3>3. ASSUME NEW s \in Servers, NEW op, Ans(0, op, s)' PROVE Ans(0, op, s)
      <4>1. w # 0
        BY <3>1, <3>3 DEF Ans
      <4> QED
        BY <1>0, <3>1, <3>3, <4>1 DEF Ans, Others
    <3> QED
      BY <3>1, <3>2, <3>3 DEF MetasInv
  <2>3. CASE GoesOn(w)
    <3>1. Now' = Now /\ Servers' = Servers /\ UNCHANGED <<raised, smeta, dmeta>>
      BY <2>3, GoFacts DEF GoesOn, server_vars, Servers
    <3>2. Now # 15
      BY <2>3, OpStage DEF GoesOn
    <3> QED
      BY <3>1, <3>2 DEF MetasInv, Live
  <2>4. CASE ComesBack(w)
    <3>1. /\ Now' = Now /\ Servers' = Servers /\ UNCHANGED <<raised, smeta, dmeta>> /\ Others(w)
          /\ sent[w] /\ ~sent'[w] /\ todo[w] = {} /\ (Op(w) # "Import" => MovesOn(w))
      BY <2>4, ComeFacts DEF ComesBack, server_vars, Servers
    <3>2. CASE Now # 15
      BY <3>1, <3>2 DEF MetasInv, Live
    <3>3. CASE Now = 15 /\ w = 0
      <4>1. Op(0) # "Import"
        BY <1>0, <3>3, OpStage
      <4>2. \/ Op(0) = "SparseInit" /\ Op(0)' = "DenseInit"
            \/ Op(0) = "DenseInit" /\ Op(0)' = "barrier"
            \/ Op(0) = "barrier"
        BY <3>1, <3>3, <4>1 DEF MovesOn, Edge
      <4>3. Op(0) # "barrier"
        BY <2>4, <3>3, ComeFacts DEF Barriers
      <4>4. \A s \in Servers : Ans(0, Op(0), s)
        BY <3>1, <3>3 DEF Ans
      <4> QED
        BY <3>1, <3>3, <4>2, <4>3, <4>4 DEF MetasInv, Ans
    <3>4. CASE Now = 15 /\ w # 0
      <4>1. Op(0)' = Op(0) /\ \A op, s : Ans(0, op, s)' <=> Ans(0, op, s)
        BY <1>0, <3>1, <3>4 DEF Others, Ans
      <4> QED
        BY <3>1, <3>4, <4>1 DEF MetasInv
    <3> QED
      BY <3>2, <3>3, <3>4
  <2> QED
    BY <1>0, <1>5, <2>1, <2>2, <2>3, <2>4, WorkerCases
<1>6. ASSUME NEW w \in Workers, NEW s \in Servers, Handle(w, s) PROVE MetasInv'
  <2>1. HandleFrame(w, s) /\ (HandleDone(w, s) \/ HandleRefused(w, s))
    BY <1>6, HandleCases DEF BaseInv, CheckpointInv
  <2>2. /\ KeepsPlace /\ sent' = sent /\ sent[w] /\ s \in todo[w]
        /\ todo'[w] = todo[w] \ {s} /\ \A v \in Workers : v # w => todo'[v] = todo[v]
    BY <2>1, HandleFacts
  <2>3. job' = job /\ Now' = Now /\ Op(0)' = Op(0) /\ Servers' = Servers
    BY <1>0, <2>2 DEF KeepsPlace, Servers
  <2>4. Now \in 1..8 => Live'
    BY <1>6, AliveHandle
  <2>5. job.num # None
    <3>1. job.num \in 0..MaxJobs
      BY DEF BaseInv, FormInv
    <3> QED
      BY <3>1, TrainerAssumption, NoneAssumption
  <2>6. ASSUME NEW t \in Servers
        PROVE  (smeta[t] # None => smeta'[t] # None) /\ (dmeta[t] # None => dmeta'[t] # None)
    <3>1. CASE HandleRefused(w, s)
      BY <3>1 DEF HandleRefused, server_vars
    <3>2. CASE HandleDone(w, s)
      <4>1. Op(w) = "SparsePushMeta" => disk.meta # None
        BY OpStage DEF MetaInv
      <4>2. Op(w) = "DensePushMeta" => disk.dmeta # None
        BY OpStage DEF MetaInv
      <4>3. MetaStep(w, s)
        BY <3>2 DEF HandleDone
      <4>4. smeta[t] # None => smeta'[t] # None
        BY <4>1, <4>3 DEF MetaStep
      <4>5. dmeta[t] # None => dmeta'[t] # None
        BY <4>2, <4>3 DEF MetaStep
      <4> QED
        BY <4>4, <4>5
    <3> QED
      BY <2>1, <3>1, <3>2
  <2>7. ASSUME Now = 15, ~raised'[0], NEW t \in Servers
        PROVE  /\ Op(0) \in {"DenseInit", "barrier"} \/ Ans(0, "SparseInit", t)' => smeta'[t] # None
               /\ Op(0) = "barrier" \/ Ans(0, "DenseInit", t)' => dmeta'[t] # None
    <3>1. ~raised[0]
      BY <1>0, <2>1, <2>7 DEF HandleDone, HandleRefused, BaseInv, FormInv
    <3>2. /\ Op(0) \in {"DenseInit", "barrier"} \/ Ans(0, "SparseInit", t) => smeta[t] # None
          /\ Op(0) = "barrier" \/ Ans(0, "DenseInit", t) => dmeta[t] # None
      BY <2>7, <3>1 DEF MetasInv
    <3>3. CASE w = 0 /\ t = s
      <4>1. HandleDone(w, s)
        <5>1. ~HandleRefused(w, s)
          BY <1>0, <2>7, <3>3 DEF HandleRefused, BaseInv, FormInv
        <5> QED
          BY <2>1, <5>1
      <4>2. /\ Op(0) = "SparseInit" => smeta'[t] # None
            /\ Op(0) = "DenseInit" => dmeta'[t] # None
        BY <2>5, <3>3, <4>1 DEF HandleDone, MetaStep
      <4> QED
        BY <2>3, <2>6, <3>2, <4>2 DEF Ans
    <3>4. CASE w # 0 \/ t # s
      <4>1. \A op : Ans(0, op, t)' => Ans(0, op, t)
        BY <1>0, <2>2, <2>3, <3>4 DEF Ans
      <4> QED
        BY <2>6, <3>2, <4>1
    <3> QED
      BY <3>3, <3>4
  <2> QED
    BY <2>3, <2>4, <2>6, <2>7 DEF MetasInv
<1> QED
  BY <1>1, <1>2, <1>4, <1>5, <1>6 DEF Next

\* No worker pulls at the beginning.
LEMMA FreshStart == Init => MetasInv /\ FreshInv
<1> SUFFICES ASSUME Init PROVE MetasInv /\ FreshInv
  OBVIOUS
<1>1. Servers = {} /\ \A w \in Workers : ~sent[w] /\ prog[w] = <<>> /\ Op(w) = None
  BY DEF Init, Servers, Op
<1>2. Now = 0
  <2>1. BaseInv /\ 0 \in Workers
    BY BaseInit, ZeroIsWorker
  <2> QED
    BY <1>1, <2>1, NowRange DEF BaseInv, CheckpointInv, OrderInv
<1> QED
  BY <1>1, <1>2 DEF MetasInv, FreshInv

\* The updates of a vector that a server has, as a number.
LEMMA VectorCount ==
    ASSUME DataInv, NEW s \in Servers, NEW k
    PROVE  /\ Vector(s, k).v \in Nat
           /\ k \in DOMAIN sparse[s] => Vector(s, k) = sparse[s][k] /\ sparse[s][k].v \in Nat
<1>1. CASE k \in DOMAIN sparse[s]
  <2>1. sparse[s][k] \in [v : Nat, age : 0..MaxAge]
    BY <1>1 DEF DataInv, MapsInv, IsMap
  <2>2. sparse[s][k].v \in Nat
    BY <2>1
  <2> QED
    BY <1>1, <2>2 DEF Vector
<1>2. CASE k \notin DOMAIN sparse[s]
  BY <1>2 DEF Vector, Fresh
<1> QED
  BY <1>1, <1>2

\* While the workers train, the vectors of a server stay and grow.
LEMMA VectorsGrow ==
    ASSUME BaseInv, DataInv, Now = 8, NEW w \in Workers, NEW s \in Servers,
           HandleFrame(w, s), HandleDone(w, s), NEW t \in Servers, NEW k
    PROVE  /\ k \in DOMAIN sparse[t] => k \in DOMAIN sparse'[t]
           /\ Vector(t, k)'.v \in Nat /\ Vector(t, k).v <= Vector(t, k)'.v
<1>0. SparseStep(w, s)
  BY DEF HandleDone
<1>1. Op(w) \notin {"SparseInit", "SparseClear", "Import", "SparseLoad", "SparsePruneOld", "SparsePruneSmall"}
  BY OpStage
<1>2. PICK y \in Nat : y = Vector(t, k).v
  BY VectorCount
<1>3. CASE t # s \/ Op(w) \notin {"SparsePush", "SparsePull"}
  <2>1. sparse'[t] = sparse[t]
    BY <1>0, <1>1, <1>3 DEF SparseStep
  <2>2. Vector(t, k)' = Vector(t, k)
    BY <2>1 DEF Vector
  <2> QED
    BY <1>2, <2>1, <2>2
<1>4. CASE t = s /\ Op(w) = "SparsePush"
  <2>1. PICK ks : ks = SentTo(keys[w], s)
    OBVIOUS
  <2>2. /\ DOMAIN sparse'[s] = DOMAIN sparse[s] \cup ks
        /\ \A j \in DOMAIN sparse'[s] :
              sparse'[s][j] = IF j \in ks THEN [v |-> (IF j \in DOMAIN sparse[s] THEN sparse[s][j] ELSE Fresh).v + 1, age |-> 0]
                              ELSE sparse[s][j]
    BY <1>0, <1>4, <2>1 DEF SparseStep, HandlePush, FindOrInit
  <2>3. CASE k \in ks
    <3>1. sparse'[s][k] = [v |-> y + 1, age |-> 0]
      BY <1>2, <1>4, <2>2, <2>3 DEF Vector
    <3>2. k \in DOMAIN sparse'[s]
      BY <2>2, <2>3
    <3>3. Vector(s, k)' = sparse'[s][k]
      BY <3>2 DEF Vector
    <3>4. Vector(s, k)'.v = y + 1
      BY <3>1, <3>3
    <3> QED
      BY <1>2, <1>4, <3>2, <3>4
  <2>4. CASE k \notin ks
    <3>1. k \in DOMAIN sparse'[s] <=> k \in DOMAIN sparse[s]
      BY <2>2, <2>4
    <3>2. Vector(s, k)' = Vector(s, k)
      BY <2>2, <2>4, <3>1 DEF Vector
    <3> QED
      BY <1>2, <1>4, <3>1, <3>2
  <2> QED
    BY <2>3, <2>4
<1>5. CASE t = s /\ Op(w) = "SparsePull"
  <2>1. PICK ks : ks = SentTo(keys[w], s) \ {PaddingKey}
    OBVIOUS
  <2>2. /\ DOMAIN sparse'[s] = DOMAIN sparse[s] \cup ks
        /\ \A j \in DOMAIN sparse'[s] : sparse'[s][j] = IF j \in DOMAIN sparse[s] THEN sparse[s][j] ELSE Fresh
    BY <1>0, <1>5, <2>1 DEF SparseStep, FindOrInit
  <2>3. Vector(s, k)' = Vector(s, k)
    BY <2>2 DEF Vector
  <2> QED
    BY <1>2, <1>5, <2>2, <2>3
<1> QED
  BY <1>3, <1>4, <1>5

\* The server answers a pull with its vectors.
LEMMA PullAnswers ==
    ASSUME DataInv, NEW w \in Workers, NEW s \in Servers,
           HandleFrame(w, s), HandleDone(w, s), Op(w) = "SparsePull",
           NEW k, k \in keys[w], Part(k, job.n) = s
    PROVE  IF k = PaddingKey THEN got'[w][s][k] = 0
           ELSE k \in DOMAIN sparse'[s] /\ got'[w][s][k] = Vector(s, k).v /\ sparse'[s][k] = Vector(s, k)
<1>1. PICK ks : ks = SentTo(keys[w], s) /\ k \in ks
  <2>1. k \in SentTo(keys[w], s)
    BY DEF SentTo
  <2> QED
    BY <2>1
<1>2. PICK m : m = FindOrInit(sparse[s], ks \ {PaddingKey})
  OBVIOUS
<1>3. got'[w][s] = HandlePull(m, ks) /\ sparse'[s] = m
  BY <1>1, <1>2 DEF HandleDone, SparseStep, AnswerStep
<1>4. got'[w][s][k] = IF k = PaddingKey \/ k \notin DOMAIN m THEN 0 ELSE m[k].v
  BY <1>1, <1>3 DEF HandlePull
<1>5. /\ DOMAIN m = DOMAIN sparse[s] \cup (ks \ {PaddingKey})
      /\ \A j \in DOMAIN m : m[j] = IF j \in DOMAIN sparse[s] THEN sparse[s][j] ELSE Fresh
  BY <1>2 DEF FindOrInit
<1>6. k # PaddingKey => k \in DOMAIN m /\ m[k] = Vector(s, k)
  BY <1>1, <1>5 DEF Vector
<1> QED
  BY <1>3, <1>4, <1>6

\* A key is counted at most once for every update that its server has not had.
LEMMA FloorIsLow ==
    ASSUME BaseInv, DataInv, NEW s \in Servers, NEW k \in DOMAIN table, TrainKey(s, k)
    PROVE  table[k].v - InFlight(k) \in Int /\ table[k].v - InFlight(k) <= Vector(s, k).v
<1> DEFINE Flying == {w \in Workers : Op(w) = "SparsePush" /\ sent[w] /\ k \in keys[w]}
<1>1. IsFiniteSet(Workers)
  BY TrainerAssumption, FS_Interval DEF Workers
<1>2. IsFiniteSet(Flying) /\ Cardinality(Flying) \in Nat
  BY <1>1, FS_Subset, FS_CardinalityType
<1>3. PICK n \in Nat : n = Cardinality(Pushing(s, k))
  BY PushingFinite
<1>4. PICK y \in Nat : y = Vector(s, k).v
  BY VectorCount
<1>5. table[k].v = y + n
  BY <1>3, <1>4 DEF TrainKey
<1>6. InFlight(k) = Cardinality(Flying)
  BY DEF InFlight
<1>7. Pushing(s, k) \subseteq Flying
  <2>1. \A w \in Workers : todo[w] # {} => sent[w]
    BY DEF BaseInv, CheckpointInv, OrderInv, WaitInv
  <2> QED
    BY <2>1 DEF Pushing, Out
<1>8. PICK f \in Nat : f = Cardinality(Flying) /\ n <= f
  BY <1>2, <1>3, <1>7, FS_Subset
<1>9. InFlight(k) = f
  BY <1>6, <1>8
<1> QED
  BY <1>4, <1>5, <1>8, <1>9

\* A pull that a worker waits for belongs to a minibatch.
LEMMA PullFacts ==
    ASSUME BaseInv, DataInv, MetasInv, NEW w \in Workers, Op(w) = "SparsePull"
    PROVE  /\ Now = 8 /\ Live /\ job.n \in Nat \ {0}
           /\ sent[w] => keys[w] \in SUBSET Nat /\ \A k \in keys[w] : Part(k, job.n) \in Servers
<1>1. Now = 8
  BY OpStage
<1>2. Live
  BY <1>1 DEF MetasInv
<1>3. prog[w] # <<>>
  <2>1. Op(w) # None
    BY NoneApart
  <2> QED
    BY <2>1 DEF Op
<1>4. job.n \in Nat \ {0}
  BY <1>3, HasServers
<1>5. ASSUME sent[w] PROVE keys[w] \in SUBSET Nat /\ \A k \in keys[w] : Part(k, job.n) \in Servers
  <2>1. keys[w] \in SUBSET Nat
    BY <1>5 DEF DataInv, KeysInv
  <2> QED
    BY <1>4, <2>1, PartRange DEF Servers
<1> QED
  BY <1>1, <1>2, <1>4, <1>5

\* Worker w asks for the vectors of its minibatch.
LEMMA FreshAsks ==
    ASSUME BaseInv, DataInv, SparseInv, MetasInv, NEW w \in Workers, Asks(w), Op(w) = "SparsePull",
           job.sound, NEW k, k \in keys'[w]
    PROVE  FreshKey(w, Part(k, job.n), k)'
<1>0. /\ KeepsPlace /\ Others(w) /\ sent'[w] /\ todo'[w] = Servers /\ prog[w] # <<>>
      /\ sparse' = sparse /\ job' = job
  BY AskFacts DEF Asks, server_vars, KeepsPlace
<1>1. PICK ks \in Minibatches[w] :
          /\ keys' = [keys EXCEPT ![w] = ks]
          /\ floor' = [floor EXCEPT ![w] = [j \in ks \cap DOMAIN table |-> table[j].v - InFlight(j)]]
  BY DEF Asks, SendsKeys
<1>2. keys'[w] = ks /\ floor'[w] = [j \in ks \cap DOMAIN table |-> table[j].v - InFlight(j)]
  BY <1>1 DEF BaseInv, FormInv
<1>3. k \in Nat
  BY <1>2, TrainerAssumption DEF Workers
<1>4. PICK s \in Servers : s = Part(k, job.n)
  BY <1>3, PullFacts, PartRange DEF Servers
<1>5. Part(k, job.n)' = s
  BY <1>0, <1>4 DEF Part
<1>6. ~Ans(w, "SparsePull", s)'
  BY <1>0 DEF Ans
<1>7. Vector(s, k)' = Vector(s, k)
  BY <1>0 DEF Vector
<1>8. ASSUME k \in DOMAIN floor'[w] PROVE floor'[w][k] \in Int /\ floor'[w][k] <= Vector(s, k).v
  <2>1. k \in DOMAIN table /\ floor'[w][k] = table[k].v - InFlight(k)
    BY <1>2, <1>8
  <2>2. Now = 8 /\ Live
    BY PullFacts
  <2>3. Training(s)
    BY <2>2 DEF SparseInv
  <2>4. TrainKey(s, k)
    BY <1>4, <2>1, <2>3 DEF Training
  <2> QED
    BY <2>1, <2>4, FloorIsLow
<1>9. FreshKey(w, s, k)'
  BY <1>6, <1>7, <1>8 DEF FreshKey
<1> QED
  BY <1>0, <1>4, <1>9 DEF Part

\* A server handles a request of worker w while worker v pulls.
LEMMA FreshHandle ==
    ASSUME BaseInv, DataInv, MetasInv, FreshInv, job.sound, NEW v \in Workers, Op(v) = "SparsePull", sent[v],
           NEW w \in Workers, NEW s \in Servers, Handle(w, s), NEW k \in keys[v]
    PROVE  FreshKey(v, Part(k, job.n), k)'
<1>0. /\ Now = 8 /\ HandleFrame(w, s) /\ HandleDone(w, s)
  BY PullFacts, AliveHandle
<1>1. PICK t \in Servers : t = Part(k, job.n)
  BY PullFacts
<1>2. /\ KeepsPlace /\ sent' = sent /\ UNCHANGED <<keys, floor>>
      /\ \A u \in Servers : v # w \/ u # s => got'[v][u] = got[v][u]
      /\ todo'[w] = todo[w] \ {s} /\ \A u \in Workers : u # w => todo'[u] = todo[u]
      /\ s \in todo[w]
  BY <1>0, HandleFacts DEF HandleFrame, ghost_vars
<1>3. job' = job /\ Op(v)' = Op(v)
  BY <1>2 DEF KeepsPlace
<1>4. FreshKey(v, t, k)
  BY <1>1 DEF FreshInv
<1>5. /\ k \in DOMAIN sparse[t] => k \in DOMAIN sparse'[t]
      /\ Vector(t, k)'.v \in Nat /\ Vector(t, k).v \in Nat /\ Vector(t, k).v <= Vector(t, k)'.v
      /\ k \in DOMAIN sparse'[t] => Vector(t, k)' = sparse'[t][k]
      /\ k \in DOMAIN sparse[t] => Vector(t, k) = sparse[t][k]
  BY <1>0, VectorsGrow, VectorCount DEF Vector
<1>6. PICK y \in Nat, z \in Nat : y = Vector(t, k).v /\ z = Vector(t, k)'.v /\ y <= z
  BY <1>5
<1>7. ASSUME k \in DOMAIN floor[v]
      PROVE  floor'[v][k] \in Int /\ (Out(v, "SparsePull", t)' => floor'[v][k] <= Vector(t, k)'.v)
  <2>1. PICK f \in Int : f = floor[v][k]
    BY <1>4, <1>7 DEF FreshKey
  <2>2. Out(v, "SparsePull", t)' => Out(v, "SparsePull", t)
    BY <1>2, <1>3 DEF Out
  <2>3. Out(v, "SparsePull", t) => f <= y
    BY <1>4, <1>6, <1>7, <2>1 DEF FreshKey
  <2> QED
    BY <1>2, <1>6, <2>1, <2>2, <2>3
<1>8. CASE v = w /\ t = s
  <2>1. IF k = PaddingKey THEN got'[w][s][k] = 0
        ELSE k \in DOMAIN sparse'[s] /\ got'[w][s][k] = Vector(s, k).v /\ sparse'[s][k] = Vector(s, k)
    <3>1. Op(w) = "SparsePull" /\ k \in keys[w] /\ Part(k, job.n) = s
      BY <1>1, <1>8
    <3> HIDE DEF Part
    <3> QED
      BY <1>0, <3>1, PullAnswers
  <2>2. ASSUME k # PaddingKey
        PROVE  /\ k \in DOMAIN sparse'[t] /\ got'[v][t][k] \in Nat /\ got'[v][t][k] <= sparse'[t][k].v
               /\ k \in DOMAIN floor[v] => floor[v][k] <= got'[v][t][k]
    <3>1. k \in DOMAIN sparse'[t] /\ got'[v][t][k] = y /\ sparse'[t][k].v = y
      BY <1>6, <1>8, <2>1, <2>2
    <3>2. Out(v, "SparsePull", t)
      BY <1>2, <1>8 DEF Out
    <3>3. k \in DOMAIN floor[v] => floor[v][k] <= y
      BY <1>4, <1>6, <3>2 DEF FreshKey
    <3> QED
      BY <3>1, <3>3
  <2>3. FreshKey(v, t, k)'
    BY <1>2, <1>7, <1>8, <2>1, <2>2 DEF FreshKey
  <2> QED
    BY <1>1, <1>3, <2>3 DEF Part
<1>9. CASE v # w \/ t # s
  <2>1. got'[v][t] = got[v][t] /\ (Ans(v, "SparsePull", t)' => Ans(v, "SparsePull", t))
    BY <1>2, <1>3, <1>9 DEF Ans
  <2>2. ASSUME Ans(v, "SparsePull", t), k # PaddingKey
        PROVE  /\ k \in DOMAIN sparse'[t] /\ got'[v][t][k] \in Nat /\ got'[v][t][k] <= sparse'[t][k].v
               /\ k \in DOMAIN floor[v] => floor[v][k] <= got'[v][t][k]
    <3>1. /\ k \in DOMAIN sparse[t] /\ got[v][t][k] \in Nat /\ got[v][t][k] <= sparse[t][k].v
          /\ k \in DOMAIN floor[v] => floor[v][k] <= got[v][t][k]
      BY <1>4, <2>2 DEF FreshKey
    <3>2. k \in DOMAIN sparse'[t] /\ sparse'[t][k].v = z /\ sparse[t][k].v = y
      BY <1>5, <1>6, <3>1
    <3> QED
      BY <1>6, <2>1, <3>1, <3>2
  <2>3. Ans(v, "SparsePull", t) /\ k = PaddingKey => got'[v][t][k] = 0
    BY <1>4, <2>1 DEF FreshKey
  <2>4. FreshKey(v, t, k)'
    BY <1>2, <1>7, <2>1, <2>2, <2>3 DEF FreshKey
  <2> QED
    BY <1>1, <1>3, <2>4 DEF Part
<1> QED
  BY <1>8, <1>9

\* An answer to a pull is between the updates acknowledged and those begun.
LEMMA FreshNext ==
    BaseInv /\ DataInv /\ SparseInv /\ MetasInv /\ FreshInv /\ [Next]_vars => FreshInv'
<1> SUFFICES ASSUME BaseInv, DataInv, SparseInv, MetasInv, FreshInv, [Next]_vars, job'.sound,
                    NEW v \in Workers, Op(v)' = "SparsePull", sent'[v], NEW k, k \in keys'[v]
             PROVE  FreshKey(v, Part(k, job.n), k)'
  BY DEF FreshInv
<1>1. CASE NewJob
  <2>1. ~sent'[v]
    BY <1>1, StartFacts
  <2> QED
    BY <2>1
<1>2. CASE Barrier
  <2>1. ~sent'[v]
    BY <1>2, PassFacts
  <2> QED
    BY <2>1
<1>3. ASSUME UNCHANGED <<job, sparse>>, Op(v)' = Op(v), sent'[v] = sent[v], todo'[v] = todo[v],
             keys'[v] = keys[v], floor'[v] = floor[v], got'[v] = got[v]
      PROVE  FreshKey(v, Part(k, job.n), k)'
  <2>1. FreshKey(v, Part(k, job.n), k)
    BY <1>3 DEF FreshInv
  <2> QED
    BY <1>3, <2>1 DEF FreshKey, Out, Ans, Vector, Part
<1>4. CASE Over \/ UNCHANGED vars
  <2>1. UNCHANGED <<job, prog, sent, todo, keys, floor, got, sparse>>
    BY <1>4 DEF Over, vars, worker_vars, server_vars, ghost_vars
  <2> QED
    BY <1>3, <2>1, Stays
<1>5. ASSUME NEW w \in Workers, WorkerStep(w) PROVE FreshKey(v, Part(k, job.n), k)'
  <2>1. CASE Fails(w)
    <3>1. UNCHANGED <<job, sent, todo, keys, floor, got, sparse>> /\ Op(v)' = Op(v)
      BY <2>1, FailFacts DEF KeepsPlace
    <3> QED
      BY <1>3, <3>1
  <2>2. CASE Asks(w)
    <3>1. KeepsPlace /\ Others(w) /\ sparse' = sparse /\ job' = job
      BY <2>2, AskFacts DEF Asks, server_vars, KeepsPlace
    <3>2. CASE v = w
      <4>1. Op(w) = "SparsePull" /\ job.sound
        BY <3>1, <3>2 DEF KeepsPlace
      <4>2. k \in keys'[w]
        BY <3>2
      <4>3. FreshKey(w, Part(k, job.n), k)'
        BY <2>2, <4>1, <4>2, FreshAsks
      <4> QED
        BY <3>2, <4>3
    <3>3. CASE v # w
      BY <1>3, <3>1, <3>3 DEF Others
    <3> QED
      BY <3>2, <3>3
  <2>3. CASE GoesOn(w)
    <3>1. Others(w) /\ sparse' = sparse /\ job' = job /\ sent' = sent /\ ~sent[w]
      BY <2>3, GoFacts DEF GoesOn, server_vars
    <3>2. v # w
      BY <3>1
    <3> QED
      BY <1>3, <3>1, <3>2 DEF Others
  <2>4. CASE ComesBack(w)
    <3>1. Others(w) /\ sparse' = sparse /\ job' = job /\ ~sent'[w]
      BY <2>4, ComeFacts DEF ComesBack, server_vars
    <3>2. v # w
      BY <3>1
    <3> QED
      BY <1>3, <3>1, <3>2 DEF Others
  <2> QED
    BY <1>5, <2>1, <2>2, <2>3, <2>4, WorkerCases DEF BaseInv, CheckpointInv, OrderInv
<1>6. ASSUME NEW w \in Workers, NEW s \in Servers, Handle(w, s) PROVE FreshKey(v, Part(k, job.n), k)'
  <2>1. HandleFrame(w, s)
    BY <1>6, HandleCases DEF BaseInv, CheckpointInv
  <2>2. KeepsPlace /\ sent' = sent /\ keys' = keys
    BY <2>1, HandleFacts DEF HandleFrame
  <2>3. Op(v) = "SparsePull" /\ sent[v] /\ job.sound /\ k \in keys[v]
    BY <2>2 DEF KeepsPlace
  <2> QED
    BY <1>6, <2>3, FreshHandle
<1> QED
  BY <1>1, <1>2, <1>4, <1>5, <1>6 DEF Next

\* What a pull returns.
LEMMA FreshAtReturn ==
    SoundInv /\ DenseParts /\ SparseParts /\ MetasInv /\ FreshInv => FreshPull
<1> SUFFICES ASSUME SoundInv, DenseParts, SparseParts, MetasInv, FreshInv, job.sound,
                    NEW w \in Workers, Returns(w, "SparsePull"), NEW k \in keys[w]
             PROVE  LET pulled == got[w][Part(k, job.n)][k]
                    IN IF k = PaddingKey THEN pulled = 0
                       ELSE /\ pulled <= table[k].v
                            /\ k \in DOMAIN floor[w] => floor[w][k] <= pulled
  BY DEF FreshPull
<1>0. BaseInv /\ DataInv /\ SparseInv
  BY DEF SoundInv, DenseParts, SparseParts
<1>1. Op(w) = "SparsePull" /\ sent[w] /\ todo[w] = {}
  BY DEF Returns
<1>2. Now = 8 /\ Live
  BY <1>0, <1>1, PullFacts
<1>3. PICK s \in Servers : s = Part(k, job.n)
  BY <1>0, <1>1, PullFacts
<1>4. Ans(w, "SparsePull", s) /\ FreshKey(w, s, k)
  BY <1>1, <1>3 DEF Ans, FreshInv
<1>5. CASE k = PaddingKey
  BY <1>3, <1>4, <1>5 DEF FreshKey
<1>6. CASE k # PaddingKey
  <2>1. /\ k \in DOMAIN sparse[s] /\ got[w][s][k] \in Nat /\ got[w][s][k] <= sparse[s][k].v
        /\ k \in DOMAIN floor[w] => floor[w][k] <= got[w][s][k]
    BY <1>4, <1>6 DEF FreshKey
  <2>2. Training(s)
    BY <1>0, <1>2 DEF SparseInv
  <2>3. k \in DOMAIN table
    BY <2>1, <2>2 DEF Training
  <2>4. TrainKey(s, k)
    BY <1>3, <2>2, <2>3 DEF Training
  <2>5. PICK y \in Nat : y = sparse[s][k].v /\ Vector(s, k).v = y
    BY <1>0, <2>1, VectorCount
  <2>6. PICK n \in Nat : n = Cardinality(Pushing(s, k))
    BY PushingFinite
  <2>7. table[k].v = y + n
    BY <2>4, <2>5, <2>6 DEF TrainKey
  <2>8. PICK g \in Nat : g = got[w][s][k] /\ g <= y
    BY <2>1, <2>5
  <2>9. got[w][s][k] <= table[k].v
    BY <2>6, <2>7, <2>8
  <2> QED
    BY <1>3, <1>6, <2>1, <2>9
<1> QED
  BY <1>5, <1>6

\* Every vector a pull returns has the updates that were answered before it was
\* sent and none that had not been sent; the padding key is zeros
\* (SparseTensor::Pull, SparseTensorPartition::HandlePull).
THEOREM TrainerFreshPull == Spec => []FreshPull
<1> DEFINE Parts == SoundInv /\ DenseParts /\ SparseParts /\ MetasInv /\ FreshInv
<1>1. Init => Parts
  BY BaseInit, DataInit, DenseStart, SparseStart, FreshStart DEF SoundInv, DenseParts
<1>2. Parts /\ [Next]_vars => Parts'
  BY PartsNext, MetasNext, FreshNext DEF SoundInv, DenseParts, SparseParts, DataInv
<1>3. Parts => FreshPull
  BY FreshAtReturn
<1> QED
  BY <1>1, <1>2, <1>3, PTL DEF Spec

=============================================================================
