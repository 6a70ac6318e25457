-------------------------- MODULE MCMetaConnection --------------------------
(***************************************************************************)
(* Small instances of MetaConnection for TLC.                              *)
(***************************************************************************)
EXTENDS MetaConnection, TLC

(* Every user registered an app of their own. *)
OneAppEach ==
    CHOOSE o \in [Apps -> Users] : \A p, q \in Apps : o[p] = o[q] => p = q

(* One user registered every app. *)
OneOwner == [p \in Apps |-> CHOOSE u \in Users : TRUE]

(* Tokens, ad accounts and flow slots are interchangeable; users and apps  *)
(* are not, because AppOwner tells them apart.                             *)
Symmetry == Permutations(Tokens) \cup Permutations(AdAccounts) \cup Permutations(Flows)

=============================================================================
