------------------------------- MODULE GoMaps -------------------------------
(* Maps, as functions on the keys that they have. *)

\* m[key] = value
Put(map, key, value) ==
  [k \in {key} \cup DOMAIN map |-> IF k = key THEN value ELSE map[k]]

\* Both maps, the first for what both have.
Merge(first, second) ==
  [k \in DOMAIN first \cup DOMAIN second |-> IF k \in DOMAIN first THEN first[k] ELSE second[k]]
=============================================================================
