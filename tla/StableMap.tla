----------------------------- MODULE StableMap -----------------------------
(***************************************************************************)
(* The two mutations of ic-stable-structures' StableBTreeMap that the      *)
(* canisters use.  A map is a function whose domain is the set of keys     *)
(* stored; `get' is application guarded by membership in the domain.       *)
(***************************************************************************)

EmptyMap == [k \in {} |-> k]

\* insert(&k, v): adds the key or replaces its value.
Insert(map, k, v) ==
    [x \in DOMAIN map \cup {k} |-> IF x = k THEN v ELSE map[x]]

\* remove(&k) for every k in keys; removing an absent key does nothing.
RemoveKeys(map, keys) == [x \in DOMAIN map \ keys |-> map[x]]
=============================================================================
