---------------------------- MODULE ArrayHashMap ----------------------------
(***************************************************************************)
(* The hash map that holds the vectors of a sparse partition on a server   *)
(* (common/hashmap/array_hash_map.h).  Keys, vectors and the links of the  *)
(* collision chains are in three arrays that grow together, in the order   *)
(* in which keys were added; first_ has the head of the chain of every     *)
(* bucket.  Pruning moves the vectors that are left to the front, and the  *)
(* arrays are written to a file and read from it as they are in memory.    *)
(*                                                                         *)
(* One thread uses the map, the receiver thread of the server.  Loops over *)
(* a chain and over the entries take a step per element.  Array entries    *)
(* that are never read are left out.                                       *)
(***************************************************************************)
EXTENDS Integers

CONSTANTS
    Keys,             \* the keys
    Values,           \* the vectors
    Puts,             \* the pairs of a key and a vector that are put
    Predicates,       \* the sets of vectors that a predicate of prune is true of
    Prime,            \* 2^31 - 1, the modulus of the hash function
    BucketCounts,     \* the powers of two that do not exceed 2^32 - 1
    InitialCapacity,  \* 1000
    AllocFails,       \* realloc may return null
    TornKeys,         \* bound: nothing is put in a torn map with as many keys
    Nil, None

ASSUME HashMapAssumption ==
    /\ Keys \subseteq Nat
    /\ Puts \subseteq Keys \X Values
    /\ Predicates \subseteq SUBSET Values
    /\ Prime \in Nat \ {0}
    /\ BucketCounts \subseteq Nat \ {0}
    /\ InitialCapacity \in Nat \ {0}
    /\ AllocFails \in BOOLEAN
    /\ TornKeys \in Nat
    /\ Nil \notin Nat /\ None \notin Values

VARIABLES
    entries,       \* keys_, values_ and next_ by index
    first,         \* first_ by bucket
    key_count,     \* key_count_
    bucket_count,  \* bucket_count_
    op,            \* the operation in progress, and its loop variables
    file,          \* the map as it was serialized, or NoFile
    torn           \* history: since the map was last cleared, first_ was read in part
                   \* or prune could not reallocate

vars == <<entries, first, key_count, bucket_count, op, file, torn>>

Idle == [kind |-> "idle"]
Answer(v) == [kind |-> "answer", value |-> v]
NoFile == [bucket_count |-> Nil]
Entry(k, v, i) == [key |-> k, value |-> v, next |-> i]

-----------------------------------------------------------------------------
(***************************************************************************)
(* Buckets.                                                                *)
(***************************************************************************)

\* a & prime is the remainder, and a >> q the quotient, of a by prime + 1.
fast_modulo(a) ==
    LET r == (a % (Prime + 1)) + (a \div (Prime + 1))
    IN IF r >= Prime THEN r - Prime ELSE r

\* The mask bucket_count - 1 of a power of two.
get_bucket(k, n) == fast_modulo(k) % n

\* The bucket counts that hold size keys, and the smallest of them.
Holding(size) == {n \in BucketCounts : n >= size}
get_power_bucket_count(size) ==
    CHOOSE n \in Holding(size) : \A m \in Holding(size) : n <= m

\* The greatest index of a set, where the chain of a bucket begins or goes on.
Last(S) == IF S = {} THEN Nil ELSE CHOOSE i \in S : \A j \in S : j <= i

\* build_hash_index for the first c of the entries e and n buckets: the loop puts
\* every entry at the head of its chain.
InBucket(e, c, b, n) == {i \in 0..(c - 1) : get_bucket(e[i].key, n) = b}
IndexedEntries(e, c, n) ==
    [i \in 0..(c - 1) |->
        Entry(e[i].key, e[i].value, Last(InBucket(e, i, get_bucket(e[i].key, n), n)))]
IndexedFirst(e, c, n) == [b \in 0..(n - 1) |-> Last(InBucket(e, c, b, n))]

NoChains(n) == [b \in 0..(n - 1) |-> Nil]
Empty == [i \in {} |-> Nil]

Init ==
    /\ entries = Empty /\ first = NoChains(0)
    /\ key_count = 0 /\ bucket_count = 0
    /\ op = Idle
    /\ file = NoFile
    /\ torn = FALSE

-----------------------------------------------------------------------------
(***************************************************************************)
(* find, and get_or_init with the vector its caller writes.                *)
(***************************************************************************)

ChainOf(k) == IF bucket_count = 0 THEN Nil ELSE first[get_bucket(k, bucket_count)]

BeginFind(k) ==
    /\ op = Idle
    /\ op' = [kind |-> "find", key |-> k, at |-> ChainOf(k)]
    /\ UNCHANGED <<entries, first, key_count, bucket_count, file, torn>>

BeginPut(k, v) ==
    /\ op = Idle
    /\ torn => key_count < TornKeys
    /\ op' = [kind |-> "put", key |-> k, value |-> v, at |-> ChainOf(k)]
    /\ UNCHANGED <<entries, first, key_count, bucket_count, file, torn>>

Walks == op.kind \in {"find", "put"}

\* i = next_[i]
Follow ==
    /\ Walks
    /\ op.at # Nil /\ entries[op.at].key # op.key
    /\ op' = [op EXCEPT !.at = entries[op.at].next]
    /\ UNCHANGED <<entries, first, key_count, bucket_count, file, torn>>

FindEnds ==
    /\ op.kind = "find"
    /\ \/ op.at = Nil /\ op' = Answer(None)
       \/ op.at # Nil /\ entries[op.at].key = op.key /\ op' = Answer(entries[op.at].value)
    /\ UNCHANGED <<entries, first, key_count, bucket_count, file, torn>>

Return ==
    /\ op.kind = "answer"
    /\ op' = Idle
    /\ UNCHANGED <<entries, first, key_count, bucket_count, file, torn>>

Overwrite ==
    /\ op.kind = "put"
    /\ op.at # Nil /\ entries[op.at].key = op.key
    /\ entries' = [entries EXCEPT ![op.at].value = op.value]
    /\ op' = Idle
    /\ UNCHANGED <<first, key_count, bucket_count, file, torn>>

\* ensure_capacity: what is asked of reserve.
Full == key_count = bucket_count
Capacity == IF key_count = 0 THEN InitialCapacity ELSE key_count * 2

\* The key gets the next index and becomes the head of its chain.
LinkOf_Mutant(heads, b) == Nil
LinkOf_Mutant2(heads, b) == key_count
LinkOf(heads, b) == heads[b]

AppendTo(e, heads, n) ==
    LET b == get_bucket(op.key, n)
    IN /\ entries' = [i \in DOMAIN e \cup {key_count} |->
                         IF i = key_count THEN Entry(op.key, op.value, LinkOf(heads, b)) ELSE e[i]]
       /\ first' = [heads EXCEPT ![b] = key_count]
       /\ bucket_count' = n

Insert ==
    /\ op.kind = "put" /\ op.at = Nil
    /\ IF Full
       THEN LET n == get_power_bucket_count(Capacity)
            IN /\ Holding(Capacity) # {}
               /\ AppendTo(IndexedEntries(entries, key_count, n),
                           IndexedFirst(entries, key_count, n), n)
       ELSE AppendTo(entries, first, bucket_count)
    /\ key_count' = key_count + 1
    /\ op' = Idle
    /\ UNCHANGED <<file, torn>>

\* reallocate throws: too many buckets, or no memory for the first of the arrays.
InsertThrows ==
    /\ op.kind = "put" /\ op.at = Nil
    /\ Full
    /\ Holding(Capacity) = {} \/ AllocFails
    /\ op' = Idle
    /\ UNCHANGED <<entries, first, key_count, bucket_count, file, torn>>

-----------------------------------------------------------------------------
(***************************************************************************)
(* prune, with a predicate on the vectors.                                 *)
(***************************************************************************)
BeginPrune(D) ==
    /\ op = Idle
    /\ op' = [kind |-> "prune", doomed |-> D, i |-> 0, v |-> 0]
    /\ UNCHANGED <<entries, first, key_count, bucket_count, file, torn>>

Drop ==
    /\ op.kind = "prune"
    /\ op.i < key_count
    /\ entries[op.i].value \in op.doomed
    /\ op' = [op EXCEPT !.i = @ + 1]
    /\ UNCHANGED <<entries, first, key_count, bucket_count, file, torn>>

Keep ==
    /\ op.kind = "prune"
    /\ op.i < key_count
    /\ entries[op.i].value \notin op.doomed
    /\ entries' = [entries EXCEPT ![op.v].key = entries[op.i].key,
                                  ![op.v].value = entries[op.i].value]
    /\ op' = [op EXCEPT !.i = @ + 1, !.v = @ + 1]
    /\ UNCHANGED <<first, key_count, bucket_count, file, torn>>

\* Nothing was dropped; nothing is left (deallocate); or reallocate for what is.
Shrink(c) ==
    LET n == get_power_bucket_count(c)
    IN /\ entries' = IndexedEntries(entries, c, n)
       /\ first' = IndexedFirst(entries, c, n)
       /\ bucket_count' = n

PruneEnds ==
    /\ op.kind = "prune"
    /\ op.i = key_count
    /\ IF op.v = key_count THEN UNCHANGED <<entries, first, bucket_count>>
       ELSE IF op.v = 0 THEN entries' = Empty /\ first' = NoChains(0) /\ bucket_count' = 0
       ELSE Shrink(op.v)
    /\ key_count' = op.v
    /\ op' = Idle
    /\ UNCHANGED <<file, torn>>

\* Some entries are left, and reallocate throws: they were moved and counted, but
\* the chains and their heads are those of the entries there were.
PruneThrows ==
    /\ op.kind = "prune"
    /\ op.i = key_count /\ op.v \in 1..(key_count - 1)
    /\ AllocFails
    /\ key_count' = op.v
    /\ op' = Idle
    /\ torn' = TRUE
    /\ UNCHANGED <<entries, first, bucket_count, file>>

-----------------------------------------------------------------------------
(***************************************************************************)
(* serialize and deserialize_with_header, as Save and Load use them, and   *)
(* SparseTensorPartition::Clear, which swaps a new map in.                 *)
(***************************************************************************)

\* A torn map, whose file would point beyond the entries in it, is not saved: the
\* request that threw is answered by an exception, which ends the job.
Save ==
    /\ op = Idle /\ ~torn
    /\ file' = [entries |-> entries, first |-> first,
                key_count |-> key_count, bucket_count |-> bucket_count]
    /\ UNCHANGED <<entries, first, key_count, bucket_count, op, torn>>

\* reserve(header.bucket_count) after clear().
Reserved == IF bucket_count >= file.bucket_count THEN bucket_count
            ELSE get_power_bucket_count(file.bucket_count)

\* The entries of a small file are put one by one; the arrays of another one are
\* read as they are, and its bucket count with them.
Rehashed == file.bucket_count <= 2

LoadedBuckets_Mutant == Reserved
LoadedBuckets == file.bucket_count

Load ==
    /\ op = Idle /\ file # NoFile
    /\ IF Rehashed
       THEN /\ entries' = IndexedEntries(file.entries, file.key_count, Reserved)
            /\ first' = IndexedFirst(file.entries, file.key_count, Reserved)
            /\ bucket_count' = Reserved
       ELSE /\ entries' = file.entries
            /\ first' = [b \in 0..(LoadedBuckets - 1) |->
                            IF b < file.bucket_count THEN file.first[b] ELSE Nil]
            /\ bucket_count' = LoadedBuckets
    /\ key_count' = file.key_count
    /\ torn' = FALSE
    /\ UNCHANGED <<op, file>>

\* reserve throws, or the file ends before first_: the map was cleared.
LoadThrows(n) ==
    /\ op = Idle /\ file # NoFile
    /\ n = Reserved \/ (AllocFails /\ n = bucket_count)
    /\ entries' = Empty /\ first' = NoChains(n)
    /\ key_count' = 0 /\ bucket_count' = n
    /\ torn' = FALSE
    /\ UNCHANGED <<op, file>>

\* The file ends within first_, of which the buckets below cut have been read:
\* key_count_ is still zero.
LoadTears(cut) ==
    /\ op = Idle /\ file # NoFile /\ ~Rehashed
    /\ cut \in 1..(file.bucket_count - 1)
    /\ entries' = file.entries
    /\ first' = [b \in 0..(Reserved - 1) |-> IF b < cut THEN file.first[b] ELSE Nil]
    /\ key_count' = 0 /\ bucket_count' = Reserved
    /\ torn' = TRUE
    /\ UNCHANGED <<op, file>>

Clear ==
    /\ op = Idle
    /\ entries' = Empty /\ first' = NoChains(0)
    /\ key_count' = 0 /\ bucket_count' = 0
    /\ torn' = FALSE
    /\ UNCHANGED <<op, file>>

-----------------------------------------------------------------------------

Continue ==
    \/ Follow \/ FindEnds \/ Return \/ Overwrite \/ Insert \/ InsertThrows
    \/ Drop \/ Keep \/ PruneEnds \/ PruneThrows

Next ==
    \/ Continue
    \/ \E k \in Keys : BeginFind(k)
    \/ \E k \in Keys, v \in Values : <<k, v>> \in Puts /\ BeginPut(k, v)
    \/ \E D \in Predicates : BeginPrune(D)
    \/ Save \/ Load \/ Clear
    \/ \E n \in BucketCounts \cup {0} : LoadThrows(n)
    \/ file # NoFile /\ \E cut \in 1..(file.bucket_count - 1) : LoadTears(cut)

Spec == Init /\ [][Next]_vars

\* The thread that is in a loop goes on.
FairSpec == Spec /\ WF_vars(Continue)

-----------------------------------------------------------------------------
(***************************************************************************)
(* Properties.                                                             *)
(***************************************************************************)

Entries(m) == [key : Keys, value : Values, next : (0..(m - 1)) \cup {Nil}]

Ops == {Idle} \cup {Answer(v) : v \in Values \cup {None}}
          \cup [kind : {"find"}, key : Keys, at : Nat \cup {Nil}]
          \cup [kind : {"put"}, key : Keys, value : Values, at : Nat \cup {Nil}]
          \cup [kind : {"prune"}, doomed : Predicates, i : Nat, v : Nat]

\* There are as many heads as buckets, no more entries than the buckets they were
\* allocated for, and no head or link leads out of the entries.
ArraysOK(e, f, c, n) ==
    /\ n \in BucketCounts \cup {0}
    /\ c \in 0..n
    /\ \E m \in c..n : /\ e \in [0..(m - 1) -> Entries(m)]
                       /\ f \in [0..(n - 1) -> (0..(m - 1)) \cup {Nil}]

\* Every loop stays within the arrays, be they torn or not.
TypeOK ==
    /\ ArraysOK(entries, first, key_count, bucket_count)
    /\ op \in Ops
    /\ op.kind \in {"find", "put"} => op.at \in DOMAIN entries \cup {Nil}
    /\ op.kind = "prune" => op.v <= op.i /\ op.i <= key_count
    /\ torn \in BOOLEAN
    /\ \/ file = NoFile
       \/ ArraysOK(file.entries, file.first, file.key_count, file.bucket_count)

\* The chains of the first c entries: every head and every link is the closest
\* entry before it in the same bucket.
Indexed(e, f, c, n) ==
    /\ \A b \in 0..(n - 1) : f[b] = Last(InBucket(e, c, b, n))
    /\ \A i \in 0..(c - 1) : e[i].next = Last(InBucket(e, i, get_bucket(e[i].key, n), n))

Distinct(e, S) == \A i, j \in S : e[i].key = e[j].key => i = j

\* The entries that hold the map: while it is pruned, those kept and those to come.
Live == IF op.kind = "prune" THEN (0..(op.v - 1)) \cup (op.i..(key_count - 1))
        ELSE 0..(key_count - 1)

\* The chains are as they should be, until prune has moved an entry.
ChainsOK ==
    (op.kind = "prune" => op.i = op.v) => Indexed(entries, first, key_count, bucket_count)

\* A walk is in the chain of its key and has not passed the entry it looks for.
WalkOK ==
    op.kind \in {"find", "put"} =>
        /\ op.at # Nil =>
            /\ op.at < key_count
            /\ get_bucket(entries[op.at].key, bucket_count) = get_bucket(op.key, bucket_count)
        /\ \A i \in 0..(key_count - 1) : entries[i].key = op.key => op.at # Nil /\ i <= op.at

\* What prune has kept is at the front.
PruneOK ==
    op.kind = "prune" => \A i \in 0..(op.v - 1) : entries[i].value \notin op.doomed

FileOK ==
    file # NoFile =>
        /\ Distinct(file.entries, 0..(file.key_count - 1))
        /\ Indexed(file.entries, file.first, file.key_count, file.bucket_count)

\* Unless it is torn, the map has every key once and all keys can be reached from
\* the heads of their chains; and so can those of the file.
IInv ==
    /\ TypeOK
    /\ ~torn => Distinct(entries, Live) /\ ChainsOK /\ WalkOK /\ PruneOK
    /\ FileOK

\* The map of pairs that the arrays stand for.
Pairs(e, S) == {<<e[i].key, e[i].value>> : i \in S}

\* Nothing is promised of a torn map.
Broken == {<<Nil, Nil>>}

MapNow == IF torn THEN Broken ELSE Pairs(entries, Live)
SavedNow == IF file = NoFile THEN Broken ELSE Pairs(file.entries, 0..(file.key_count - 1))

RequestOf(o) == CASE o.kind = "find" -> [kind |-> "find", key |-> o.key]
                  [] o.kind = "put" -> [kind |-> "put", key |-> o.key, value |-> o.value]
                  [] o.kind = "prune" -> [kind |-> "prune", doomed |-> o.doomed]
                  [] OTHER -> o

AM == INSTANCE AbstractMap WITH
    map <- MapNow, saved <- SavedNow,
    request <- RequestOf(op)

\* The arrays implement a map: a find has the vector put last, a put that throws
\* changes nothing, prune takes away what its predicate says and nothing else, and
\* a file gives back the map that was saved, whatever was in memory before.  Of a
\* map that prune could not reallocate, or that a load has torn, nothing is promised
\* until it is cleared or loaded.
ImplementsMap == AM!Spec

\* Every loop over a chain or over the entries ends, unless the map is torn: then a
\* put may have linked an entry to itself.
WalksEnd == (op # Idle /\ ~torn) ~> (op = Idle)

=============================================================================
