-------------------------------- MODULE Dag --------------------------------
(***************************************************************************)
(* The graph of a pipeline: in[n] is the set of nodes n takes as input.    *)
(***************************************************************************)

\* S holds the inputs of its members.
InputClosed(in, S) == \A n \in S : in[n] \subseteq S

\* Pipeline.ancestors: every node n transitively depends on, that is the
\* least input-closed set that holds n's inputs.
AncestorsOf(in, n) ==
    {m \in DOMAIN in : \A S \in SUBSET DOMAIN in :
        in[n] \subseteq S /\ InputClosed(in, S) => m \in S}

\* No set of nodes where each waits for another of the set.
Acyclic(in) == \A S \in SUBSET DOMAIN in :
    S # {} => \E n \in S : in[n] \cap S = {}
=============================================================================
