-------------------------- MODULE MCRp2040Transfer --------------------------
EXTENDS Rp2040Transfer

Op(kind, size, type, reply) == [kind |-> kind, size |-> size, type |-> type, reply |-> reply]

\* Sizes from an empty transfer to one of several packets, ending in a full, a
\* short and an empty one; replies as long as was asked for, or shorter.
In(kind, sizes, type) ==
    UNION {{Op(kind, n, type, r) : r \in 0 .. n} : n \in sizes}
ControlOps ==
    In("control_in", {0, 3, 4}, "FixedSize")
    \cup {Op("control_out", n, "FixedSize", 0) : n \in {1, 5}}
    \cup {Op(kind, 0, "FixedSize", 0) : kind \in {"control_none", "clear_halt"}}
BulkOps ==
    In("bulk_in", {4, 6, 7}, "VariableSize")
    \cup {Op("bulk_in", n, "FixedSize", n) : n \in {2, 6}}
    \cup {Op("bulk_out", n, "FixedSize", 0) : n \in {2, 4, 7}}
    \cup {Op("bulk_out", n, "VariableSize", 0) : n \in {0, 4, 5}}
AllOps == ControlOps \cup BulkOps
FullPackets == {Op("bulk_out", n, "VariableSize", 0) : n \in {4, 6}}
=============================================================================
