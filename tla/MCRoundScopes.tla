---------------------------- MODULE MCRoundScopes -----------------------------
(* Round scopes with two contexts, two environments and two round ids, so  *)
(* that the environments may have one id or one each.                      *)
EXTENDS RoundScopes
=============================================================================
