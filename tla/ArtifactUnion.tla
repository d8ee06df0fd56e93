--------------------------- MODULE ArtifactUnion ---------------------------
(***************************************************************************)
(* The artifact union of data.py: the flat map from union keys             *)
(* ("{node}/{name}") to values that a batch carries through the graph,     *)
(* with the set of keys a DataArchiver freed.  A union is immutable in the *)
(* code (every write returns a new one), so the module holds operators and *)
(* no state.                                                               *)
(*                                                                         *)
(* A key is opaque.  A value is a record whose kind tells a Batch (the one *)
(* live object a union may carry) from a LazyRaw handle and from plain     *)
(* data; values are equal when _same says so.                              *)
(***************************************************************************)
EXTENDS FiniteSets, Maps, Sequences

\* The union a run starts every fold with: ArtifactUnion().
EmptyUnion == [data |-> EmptyMap, deleted |-> {}]

\* The unions over given keys and values that the methods below can build:
\* a key that was freed is never among the data.
Unions(Keys, Values) ==
    {u \in [data : MapsOver(Keys, Values),
            deleted : SUBSET Keys] : DOMAIN u.data \cap u.deleted = {}}

\* Where the Batch travels in u: isinstance(value, Batch).
BatchKeys(u) == {k \in DOMAIN u.data : u.data[k].kind = "batch"}

-----------------------------------------------------------------------------
(* Writes *)

\* extended(node, ext): new keys.  (That it raises on a key that is already
\* there cannot happen in a graph: a node writes under its own name.)
Extended(u, ext) == [u EXCEPT !.data = Override(u.data, ext)]

\* with_mutations: replace, then delete.
WithMutations(u, replace, delete) ==
    [data |-> Without(Override(u.data, replace), delete),
     deleted |-> u.deleted \cup delete]

DropsDeleted(u) ==    \* bug: a fresh union, without what was freed
    [data |-> Without(u.data, BatchKeys(u)), deleted |-> {}]

\* without_transients: the Batch does not outlive its batch run.
WithoutTransients(u) ==
    [u EXCEPT !.data = Without(u.data, BatchKeys(u))]

IgnoresHandles(u, v) ==    \* bug: a LazyRaw is never compared
    \E k \in DOMAIN u.data \cap DOMAIN v.data :
        /\ "lazy" \notin {u.data[k].kind, v.data[k].kind}
        /\ u.data[k] # v.data[k]

\* union(other): a key of both must have one value.  A key either side freed
\* is dropped, but only after the comparison.
UnionConflict(u, v) ==
    \E k \in DOMAIN u.data \cap DOMAIN v.data : u.data[k] # v.data[k]

ResurrectsFreed(u, v) ==    \* bug: deleted is carried, the data is not purged
    [data |-> Override(u.data, v.data), deleted |-> u.deleted \cup v.deleted]

Union(u, v) ==
    LET freed == u.deleted \cup v.deleted
    IN  [data |-> Without(Override(u.data, v.data), freed), deleted |-> freed]

-----------------------------------------------------------------------------
(* The fold of Union over a sequence of unions, in closed form.  Module    *)
(* Joins runs the code's loop and checks that it computes this.  The       *)
(* sequence may have holes: only the order of its positions counts.        *)

\* The keys freed by the unions at the positions of P.
FreedAt(us, P) == UNION {us[i].deleted : i \in DOMAIN us \cap P}

\* A key conflicts when two of the unions disagree on it and none of the
\* unions before the later of the two has freed it: a freed key has left the
\* accumulator and is not compared again.
JoinConflict(us) ==
    \E i, j \in DOMAIN us :
        /\ i < j
        /\ \E k \in DOMAIN us[i].data \cap DOMAIN us[j].data :
              us[i].data[k] # us[j].data[k] /\ k \notin FreedAt(us, 1 .. j - 1)

JoinAll(us) ==
    LET freed == FreedAt(us, DOMAIN us)
        keys  == (UNION {DOMAIN us[i].data : i \in DOMAIN us}) \ freed
    IN  [data |-> [k \in keys |->
                     us[CHOOSE i \in DOMAIN us : k \in DOMAIN us[i].data].data[k]],
         deleted |-> freed]

-----------------------------------------------------------------------------
(* find_batch *)

\* find_batch raises when two Batch objects travel in one union.
Ambiguous(u) == Cardinality(BatchKeys(u)) > 1

HasBatch(u) == BatchKeys(u) # {}

\* find_batch, when there is one.
FindBatch(u) == u.data[CHOOSE k \in BatchKeys(u) : TRUE]
=============================================================================
