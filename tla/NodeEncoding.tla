---------------------------- MODULE NodeEncoding ----------------------------
(***************************************************************************)
(* Integer encodings of nodes and of groups of nodes (node_encoding.h) and *)
(* the table of groups (NodeManager::InitNodeIds).  A node id is its rank  *)
(* shifted left by four bits, or-ed with a tag of four bits: the role's    *)
(* bit and the bit SingleNodeIdTag.  A group is an or of role bits.        *)
(***************************************************************************)
EXTENDS Integers

Roles == {"Coordinator", "Server", "Worker"}

\* 1 << static_cast<int>(NodeRole::n)
RoleBit(role) == CASE role = "Coordinator" -> 1
                   [] role = "Server" -> 2
                   [] role = "Worker" -> 4

SingleNodeIdTag == 8

\* role bits are below SingleNodeIdTag, so that or is addition.
NodeIdTag(role) == RoleBit(role) + SingleNodeIdTag

\* rank << 4 | tag, the tag being below 16.
RankToNodeId(role, rank) == rank * 16 + NodeIdTag(role)

\* id >> 4, an arithmetic shift: the rank of the unassigned id -1 is -1.
NodeIdToRank_Mutant(id) == id \div 8
NodeIdToRank(id) == id \div 16

CoordinatorNodeId == RankToNodeId("Coordinator", 0)

UnassignedId == -1

=============================================================================
