---------------------------- MODULE MCAdminStore ----------------------------
(* A small instance of AdminStore. *)
EXTENDS AdminStore, TLC

CONSTANTS a1, a2, a3, a4, i1, i2, f1, f2

Ask(op, i, f) == [op |-> op, id |-> i, out |-> f]

\* Registrations that compete for an output and the last free row, a rotation
\* and a revocation of one of them.
MCCommands ==
    {Ask("init", i1, f1), Ask("register", i1, f1), Ask("register", i2, f2),
     Ask("rotate", i1, f2), Ask("revoke", i1, f1)}

Symmetry == Permutations(Admins)
=============================================================================
