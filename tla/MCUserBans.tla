----------------------------- MODULE MCUserBans -----------------------------
(***************************************************************************)
(* UserBans with the constants of its model-checking runs: one of the      *)
(* three addresses, which is IPv4, is in every blacklist.                  *)
(***************************************************************************)
EXTENDS UserBans, TLC

CONSTANTS bad, good, ipv6

Dotted == {bad, good}

OnlyBad == {bad} \X Blacklists

Symmetry ==
    UNION {Permutations(Structs), Permutations(Queries), Permutations(Blacklists)}
=============================================================================
