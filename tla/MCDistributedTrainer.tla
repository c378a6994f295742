------------------------ MODULE MCDistributedTrainer ------------------------
(***************************************************************************)
(* Two workers, and jobs with different numbers of servers; the slices of  *)
(* dense tensors for every hash of a small word.                           *)
(***************************************************************************)
EXTENDS DistributedTrainer

\* Minibatches with the padding key, with a key in common and with keys that two
\* and three servers divide differently.
FewMinibatches == (0 :> {{0, 1}, {1, 3}}) @@ (1 :> {{1, 2}})
OneBatch == [w \in Workers |-> 1]

-----------------------------------------------------------------------------
(***************************************************************************)
(* Before the first job, dense tensors of every size and hash are cut for  *)
(* every number of servers, in arithmetic of four bits.                    *)
(***************************************************************************)
Word == 16
Cuts == [hash : 0..(Word - 1), rows : 0..12, servers : 1..5]
NoCut == [hash |-> 0, rows |-> 0, servers |-> 1]

VARIABLE cut

MCInit == Init /\ cut = NoCut

ComputePartitionShapes ==
    /\ job.num = 0
    /\ cut' \in (IF cut = NoCut THEN Cuts ELSE {NoCut})
    /\ UNCHANGED vars

MCNext == \/ cut = NoCut /\ Next /\ UNCHANGED cut
          \/ ComputePartitionShapes

MCSpec == MCInit /\ [][MCNext]_<<vars, cut>> /\ Fairness

\* ComputePartitionShapesWithHash gives every row to exactly one server, unless
\* the sum of index and hash wraps for some of the servers (and the wrap is not
\* a multiple of their number).
TilesUnlessWraps ==
    cut.hash + cut.servers <= Word \/ Word % cut.servers = 0
        => Tiles(cut.hash, cut.rows, cut.servers, Word)

=============================================================================
