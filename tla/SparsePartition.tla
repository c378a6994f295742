--------------------------- MODULE SparsePartition ---------------------------
(***************************************************************************)
(* The part of a sparse tensor that one server keeps                       *)
(* (SparseTensorPartition): a hash map from the keys k with k % n equal to *)
(* its index to embedding vectors.  A vector is a record of v, the number  *)
(* of updates it has had since its initializer wrote it, and its age.      *)
(* Which gradients the updates were, and in which order, is left out.      *)
(***************************************************************************)
EXTENDS Integers, Sequences

\* The partition of a key: key % num_parts, at every place that splits keys.
Part(key, n) == key % n

PaddingKey == 0

Fresh == [v |-> 0, age |-> 0]

EmptyMap == [k \in {} |-> Fresh]

\* TransformIndices without read_only: find_or_init every key, then run the
\* initializer on the new ones.
FindOrInit(map, keys) ==
    [k \in DOMAIN map \cup keys |-> IF k \in DOMAIN map THEN map[k] ELSE Fresh]

\* With gradients: the updater, then age = 0.  The padding key is created
\* like any other.
HandlePush(map, keys) ==
    LET found == FindOrInit(map, keys)
    IN [k \in DOMAIN found |->
            IF k \in keys THEN [v |-> found[k].v + 1, age |-> 0] ELSE found[k]]

\* What a pull leaves in the map, and what it returns: zeros for the padding key
\* and, when read_only, for a key that is not there.
MapAfterPull(map, keys, read_only) ==
    IF read_only THEN map ELSE FindOrInit(map, keys \ {PaddingKey})

HandlePull_Mutant(map, keys) == [k \in keys |-> IF k \notin DOMAIN map THEN 0 ELSE map[k].v]
HandlePull(map, keys) ==
    [k \in keys |-> IF k = PaddingKey \/ k \notin DOMAIN map THEN 0 ELSE map[k].v]

\* With skip_existing = false and data_only = false, as Load imports.
HandlePushPartition(map, entries) ==
    [k \in DOMAIN map \cup DOMAIN entries |->
        IF k \in DOMAIN entries THEN entries[k] ELSE map[k]]

Keep(map, keys) == [k \in keys |-> map[k]]

\* With epsilon 0.0: a vector of zeros, which is one without an update.
PruneSmall(map) == Keep(map, {k \in DOMAIN map : map[k].v # 0})

\* ++age, then remove what is older than max_age.
PruneOld(map, max_age) ==
    LET older == [k \in DOMAIN map |-> [map[k] EXCEPT !.age = @ + 1]]
    IN Keep(older, {k \in DOMAIN map : older[k].age <= max_age})

-----------------------------------------------------------------------------
(***************************************************************************)
(* The file of a partition: the hash map as it is in memory, or a line     *)
(* key<TAB>data|state|age for every vector.                                *)
(***************************************************************************)

\* The fields that ArrayHashMapWriter puts between the separators of a line: the
\* state of a vector without optimizer state is no text at all.
WrittenFields(has_state) == <<"data", IF has_state THEN "state" ELSE "", "age">>

\* A run of separators counts as one: there are no empty fields.
SplitStringView(fields) == SelectSeq(fields, LAMBDA f : f # "")

\* Whether the reader accepts the file: a line must have three fields.
Readable(file, has_state) ==
    file.text /\ DOMAIN file.entries # {}
        => Len(SplitStringView(WrittenFields(has_state))) = 3

\* A binary file replaces the map, the lines of a text are added to it.
LoadFile(map, file) ==
    IF file.text THEN HandlePushPartition(map, file.entries) ELSE file.entries

=============================================================================
