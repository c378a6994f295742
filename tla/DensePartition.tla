--------------------------- MODULE DensePartition ---------------------------
(***************************************************************************)
(* How a dense tensor of m rows is cut into n slices, one for each server  *)
(* (DenseTensorMeta::ComputePartitionShapesWithHash).  The slices are in   *)
(* order of slots; server i has the slot (i + hash) % n, so that the slots *)
(* with a row more than the others are not always with the first servers.  *)
(*                                                                         *)
(* The sum i + hash is a size_t: it wraps at the modulus W (2^64 in the    *)
(* build).  The other intermediate results are at most m + n.              *)
(***************************************************************************)
EXTENDS Integers

\* i = (i + h) % n, the sum modulo W.
Slot(i, h, n, W) == ((i + h) % W) % n

\* my_items, of the slot k.
Items(k, m, n) == (m + n - 1 - k) \div n

\* begin and end, of the slot k.
SlotBegin_Mutant(k, m, n) == (m \div n) * k
SlotBegin(k, m, n) ==
    (m \div n) * k + (IF k < m % n THEN k ELSE m % n)
SlotEnd(k, m, n) == SlotBegin(k, m, n) + Items(k, m, n)

\* The rows of server i.
Rows(i, h, m, n, W) ==
    LET k == Slot(i, h, n, W)
    IN SlotBegin(k, m, n) .. (SlotEnd(k, m, n) - 1)

-----------------------------------------------------------------------------
(***************************************************************************)
(* What Push and Pull of a tensor rely on                                  *)
(***************************************************************************)

\* Every row is with exactly one server: a Push reaches all of the tensor, and
\* a Pull, which copies the slices to their places, leaves no row unset.
Tiles(h, m, n, W) ==
    \A row \in 0..(m - 1) : \E i \in 0..(n - 1) :
        /\ row \in Rows(i, h, m, n, W)
        /\ \A j \in 0..(n - 1) : row \in Rows(j, h, m, n, W) => j = i

\* A slice copied to its place stays within the tensor.
WithinTensor(h, m, n, W) ==
    \A i \in 0..(n - 1) : Rows(i, h, m, n, W) \subseteq 0..(m - 1)

=============================================================================
