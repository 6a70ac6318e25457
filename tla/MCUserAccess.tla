---------------------------- MODULE MCUserAccess ----------------------------
(***************************************************************************)
(* A small instance of UserAccess for TLC.                                 *)
(***************************************************************************)
EXTENDS UserAccess, TLC

(* One key has a prefix of its own, the others share one. *)
OneApart ==
    CHOOSE f \in [Keys -> Prefixes] :
        \E k \in Keys : \A x, y \in Keys : (f[x] = f[y]) <=> ((x = k) <=> (y = k))

Symmetry == Permutations(Emails) \cup Permutations(Passwords)
                \cup Permutations(Slots) \cup Permutations(Secrets)

=============================================================================
