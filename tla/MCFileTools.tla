----------------------------- MODULE MCFileTools -----------------------------
EXTENDS FileTools, TLC
CONSTANTS t1, t2, l1, l2, u

Write(p) == [path |-> p, op |-> "write"]
Create(p) == [path |-> p, op |-> "create"]
Delete(p) == [path |-> p, op |-> "delete"]

\* One edit, a patch of two files in each order, a move.
MCPlans == {<<Write(1)>>, <<Write(1), Write(2)>>, <<Write(2), Write(1)>>, <<Create(2), Delete(1)>>}
\* Nothing tells the calls, or the lock objects, apart.
MCSymmetry == Permutations({t1, t2}) \cup Permutations({l1, l2})

\* Two files, locked by patches that name them in either order.
CrossPlans == {<<Write(1), Write(2)>>, <<Write(2), Write(1)>>, <<Write(1)>>}

OnePlan == {<<Write(1)>>}
=============================================================================
