---------------------------- MODULE MCApiKeyAuth ----------------------------
(* Instance of ApiKeyAuth for TLC: requests and admin calls are symmetric. *)
EXTENDS ApiKeyAuth, TLC

Symmetry == Permutations(Requests) \cup Permutations(Admins)
=============================================================================
