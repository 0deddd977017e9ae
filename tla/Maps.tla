-------------------------------- MODULE Maps --------------------------------
(***************************************************************************)
(* Functions used as tables: lists of keyed records in the code.           *)
(***************************************************************************)
EmptyMap == [x \in {} |-> {}]

Put(f, x, y) == [z \in DOMAIN f \cup {x} |-> IF z = x THEN y ELSE f[z]]

Del(f, x) == [z \in DOMAIN f \ {x} |-> f[z]]
=============================================================================
