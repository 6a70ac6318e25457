-------------------------- MODULE MCCampaignMirror --------------------------
(***************************************************************************)
(* Small instances of CampaignMirror for TLC.                              *)
(***************************************************************************)
EXTENDS CampaignMirror, TLC

DraftOrActive == {"DRAFT", "ACTIVE"}

(* A status the schema has, one it has not, and one that is not listed. *)
SeenAtMeta == {"PAUSED", "IN_PROCESS"}
AnyAtMeta  == SeenAtMeta \cup {"ARCHIVED"}

Symmetry == Permutations(MetaIds) \cup Permutations(Requests)

=============================================================================
