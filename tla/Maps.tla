-------------------------------- MODULE Maps --------------------------------
(***************************************************************************)
(* Insertion into and removal from a hash map, which is a function on the  *)
(* set of its keys.                                                        *)
(***************************************************************************)
EXTENDS Functions

Insert(map, key, value) ==
  [k \in DOMAIN map \cup {key} |-> IF k = key THEN value ELSE map[k]]

Remove(map, key) == Restrict(map, DOMAIN map \ {key})
=============================================================================
