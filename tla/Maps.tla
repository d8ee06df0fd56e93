-------------------------------- MODULE Maps --------------------------------
(***************************************************************************)
(* Python dicts as functions with a finite domain: dict.update and the     *)
(* removal of keys.  Override is the @@ of module TLC with its arguments   *)
(* swapped, spelt out because the proof system does not know @@.           *)
(***************************************************************************)
EXTENDS Functions

EmptyMap == <<>>

\* d.update(e): the entries of e win.
Override(d, e) ==
    [k \in DOMAIN d \cup DOMAIN e |-> IF k \in DOMAIN e THEN e[k] ELSE d[k]]

\* d without the keys of K.
Without(d, K) == Restrict(d, DOMAIN d \ K)

\* d maps some of the keys of K into V.
IsMap(d, K, V) == DOMAIN d \subseteq K /\ d \in [DOMAIN d -> V]

\* The dicts over given keys and values.
MapsOver(Keys, Values) == UNION {[D -> Values] : D \in SUBSET Keys}
=============================================================================
