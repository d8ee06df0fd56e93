------------------------------ MODULE Pipeline ------------------------------
(***************************************************************************)
(* The loading of a definition, from pipeline.py: from_yaml and from_dict   *)
(* read a document, validated() makes its checks in the order of the code,  *)
(* with the loop of topo_order that both finds cycles and fixes the         *)
(* execution order, and to_dict writes the definition back.                 *)
(*                                                                          *)
(* A document is what YAML gives: [yaml, keys, job_id, nodes, cache].  A    *)
(* node in it is [keys, name, inputs, params, class, replaces]: the keys it *)
(* has beside its name and kernel, its inputs as a set of scalars, whether  *)
(* its kernel takes its params, the base class of the kernel, and the globs *)
(* over union keys its replaced_key_patterns() returns.  A node spec is the *)
(* same without keys, its name made a string.                               *)
(***************************************************************************)
EXTENDS FiniteSets, Sequences, Naturals, Dag, Maps

CONSTANTS
    Documents, \* the documents to load
    Text,      \* Text[v]: str(v) of a scalar; a scalar that is a string is itself
    Float,     \* Float[v]: float(v) as a scalar, for the scalars it takes
    Positive,  \* the floats above zero
    Covers,    \* Covers[g]: the union keys glob g matches
    Literal    \* <<g, h>>: glob g, read as a literal string, matches glob h

VARIABLES
    document,  \* the document being loaded
    settings,  \* self.job_id, self.cache and self.source
    nodes,     \* self.nodes, in YAML order
    step,      \* the check the loading is at, or its outcome
    order,     \* topo_order: the names placed so far
    error      \* which check raised PipelineError

vars == <<document, settings, nodes, step, order, error>>

Names == {nodes[i].name : i \in DOMAIN nodes}

Init == /\ document \in Documents
        /\ settings = [job_id |-> "", cache |-> EmptyMap, source |-> ""]
        /\ nodes = <<>>
        /\ step = "document"
        /\ order = <<>>
        /\ error = "none"

Reject == /\ step' = "rejected"
          /\ error' = step
          /\ UNCHANGED <<document, settings, nodes, order>>

Proceed(next) == /\ step' = next
                 /\ UNCHANGED <<document, settings, nodes, order, error>>

-----------------------------------------------------------------------------
(* from_yaml and from_dict *)

\* A scalar Python takes for false: absent, null or empty.
Falsy == {"null", ""}

\* _cache_spec raises: not a mapping, an unknown key, or a size that is no
\* positive number.
BadCache(raw) ==
    \/ raw.form = "other"
    \/ raw.form = "mapping" /\ ~(DOMAIN raw.entries \subseteq {"dir", "size_gb"})
    \/ /\ raw.form = "mapping" /\ "size_gb" \in DOMAIN raw.entries
       /\ raw.entries["size_gb"] # "null"
       /\ \/ raw.entries["size_gb"] \notin DOMAIN Float
          \/ Float[raw.entries["size_gb"]] \notin Positive

\* _cache_spec: the entries that say something, as a string and a float.
CacheSpec(raw) ==
    LET said == {k \in DOMAIN raw.entries :
                    IF k = "dir" THEN raw.entries[k] \notin Falsy
                    ELSE raw.entries[k] # "null"}
    IN  [k \in said |-> IF k = "dir" THEN Text[raw.entries[k]] ELSE Float[raw.entries[k]]]

\* A document's nodes are a list; its scalars are falsy or have a text, which is
\* its own text; a positive float is its own float, and not null.
ASSUME DocumentAssumption ==
    /\ \A d \in Documents :
          /\ d.nodes \in Seq({d.nodes[i] : i \in DOMAIN d.nodes})
          /\ \A i \in DOMAIN d.nodes : /\ d.nodes[i].name \in DOMAIN Text \cup Falsy
                                       /\ d.nodes[i].replaces \subseteq DOMAIN Covers
          /\ d.job_id \in DOMAIN Text \cup Falsy
          /\ d.cache.form \in {"null", "mapping", "other"}
          /\ d.cache.form = "null" => DOMAIN d.cache.entries = {}
          /\ "dir" \in DOMAIN d.cache.entries => d.cache.entries["dir"] \in DOMAIN Text \cup Falsy
    /\ \A v \in DOMAIN Text :
          Text[v] \in DOMAIN Text /\ Text[Text[v]] = Text[v] /\ Text[v] \notin Falsy
    /\ \A v \in DOMAIN Float : Float[v] \in Positive =>
          Float[v] \in DOMAIN Float /\ Float[Float[v]] = Float[v] /\ Float[v] # "null"

NodeSpec(n) == [name |-> Text[n.name], inputs |-> n.inputs, params |-> n.params,
                class |-> n.class, replaces |-> n.replaces]

NodeSpecs(doc) == [i \in DOMAIN doc.nodes |-> NodeSpec(doc.nodes[i])]

\* Why from_yaml or from_dict raises: no "pipeline" mapping in the file, a key
\* nobody reads, no job_id, no nodes, or a node without a name or a kernel or
\* with a key nobody reads.
Malformed(doc) ==
    \/ doc.yaml # "mapping"
    \/ ~(doc.keys \subseteq {"job_id", "nodes", "cache"})
    \/ doc.job_id \in Falsy
    \/ doc.nodes = <<>>
    \/ \E i \in DOMAIN doc.nodes :
          \/ doc.nodes[i].name \in Falsy \/ doc.nodes[i].class = "null"
          \/ ~(doc.nodes[i].keys \subseteq {"params", "inputs"})
    \/ BadCache(doc.cache)

FromDict ==
    /\ step = "document"
    /\ IF Malformed(document) THEN Reject
       ELSE /\ settings' = [settings EXCEPT !.job_id = Text[document.job_id],
                                            !.cache  = CacheSpec(document.cache)]
            /\ nodes' = NodeSpecs(document)
            /\ step' = "names"
            /\ UNCHANGED <<document, order, error>>

\* to_dict(): what the archiver writes for a pipeline without a file.
ToDict ==
    [yaml   |-> "mapping",
     keys   |-> {"job_id", "nodes"} \cup (IF settings.cache = EmptyMap THEN {} ELSE {"cache"}),
     job_id |-> settings.job_id,
     nodes  |-> [i \in DOMAIN nodes |->
                   [keys |-> {"params", "inputs"}, name |-> nodes[i].name,
                    inputs |-> nodes[i].inputs, params |-> nodes[i].params,
                    class |-> nodes[i].class, replaces |-> nodes[i].replaces]],
     cache  |-> [form    |-> IF settings.cache = EmptyMap THEN "null" ELSE "mapping",
                 entries |-> settings.cache]]

-----------------------------------------------------------------------------
(* validated *)

DuplicateNames == \E i, j \in DOMAIN nodes : i # j /\ nodes[i].name = nodes[j].name

CheckNames ==
    /\ step = "names"
    /\ IF DuplicateNames THEN Reject ELSE Proceed("inputs")

SelfInputs == \E i \in DOMAIN nodes :    \* bug: unknown inputs pass
    nodes[i].name \in nodes[i].inputs

BadInputs == \E i \in DOMAIN nodes :
    nodes[i].name \in nodes[i].inputs \/ ~(nodes[i].inputs \subseteq Names)

CheckInputs ==
    /\ step = "inputs"
    /\ IF BadInputs THEN Reject ELSE Proceed("source")

Roots == {i \in DOMAIN nodes : nodes[i].inputs = {}}

CheckSource ==
    /\ step = "source"
    /\ IF Cardinality(Roots) # 1 THEN Reject ELSE Proceed("classes")

\* The source is a SourceKernel, every other node a Kernel and not one.
WrongClass == \E i \in DOMAIN nodes :
    IF i \in Roots THEN nodes[i].class # "source"
    ELSE nodes[i].class \notin {"kernel", "mutating"}

Rebuilt ==    \* bug: a positional rebuild forgets a field
    [settings EXCEPT !.cache = EmptyMap, !.source = nodes[CHOOSE i \in Roots : TRUE].name]

\* replace(self, source=...)
WithSource == [settings EXCEPT !.source = nodes[CHOOSE i \in Roots : TRUE].name]

CheckClasses ==
    /\ step = "classes"
    /\ IF WrongClass THEN Reject
       ELSE /\ settings' = WithSource
            /\ step' = "topo"
            /\ UNCHANGED <<document, nodes, order, error>>

-----------------------------------------------------------------------------
(* topo_order *)

Placed == {order[i] : i \in DOMAIN order}

\* Positions in the YAML, as are the nodes of ReadyNow.
Remaining == {i \in DOMAIN nodes : nodes[i].name \notin Placed}

AnyInputPlaced ==    \* bug: one input is enough
    {i \in Remaining : nodes[i].inputs = {} \/ nodes[i].inputs \cap Placed # {}}

ReadyNow == {i \in Remaining : nodes[i].inputs \subseteq Placed}

LastListedFirst(I) ==    \* bug: ties are broken backwards
    [k \in 1 .. Cardinality(I) |->
        nodes[CHOOSE i \in I : Cardinality({j \in I : j >= i}) = k].name]

\* The names at the positions of I, in the order of the YAML.
InYamlOrder(I) ==
    [k \in 1 .. Cardinality(I) |->
        nodes[CHOOSE i \in I : Cardinality({j \in I : j <= i}) = k].name]

TopoSpins ==    \* bug: a turn that places nothing is not noticed
    /\ step = "topo"
    /\ Remaining # {}
    /\ order' = order \o InYamlOrder(ReadyNow)
    /\ UNCHANGED <<document, settings, nodes, step, error>>

\* One turn of the while loop: everything ready is placed, in YAML order.
TopoTurn ==
    /\ step = "topo"
    /\ Remaining # {}
    /\ IF ReadyNow = {} THEN Reject
       ELSE /\ order' = order \o InYamlOrder(ReadyNow)
            /\ UNCHANGED <<document, settings, nodes, step, error>>

TopoDone ==
    /\ step = "topo"
    /\ Remaining = {}
    /\ Proceed("replacements")

-----------------------------------------------------------------------------
(* _check_replacement_conflicts *)

InputsByName == [n \in Names |->
    UNION {nodes[i].inputs : i \in {i \in DOMAIN nodes : nodes[i].name = n}}]

Ordered(a, b) == \/ a \in AncestorsOf(InputsByName, b)
                 \/ b \in AncestorsOf(InputsByName, a)

SameGlob(g, h) == g = h    \* bug: only equal globs overlap

\* _globs_overlap: equal, or one matches the other read as a literal.
GlobsOverlap(g, h) == g = h \/ <<g, h>> \in Literal \/ <<h, g>> \in Literal

\* _instantiate raises: the kernel of a mutating node refuses its params.  The
\* other nodes are instantiated by the executor.
BadParams == \E i \in DOMAIN nodes :
    nodes[i].class = "mutating" /\ nodes[i].params = "refused"

Mutators == {i \in DOMAIN nodes : nodes[i].class = "mutating" /\ nodes[i].replaces # {}}

ReplacementClash == \E i, j \in Mutators :
    /\ i < j
    /\ ~Ordered(nodes[i].name, nodes[j].name)
    /\ \E g \in nodes[i].replaces, h \in nodes[j].replaces : GlobsOverlap(g, h)

CheckReplacements ==
    /\ step = "replacements"
    /\ IF BadParams \/ ReplacementClash THEN Reject ELSE Proceed("accepted")

-----------------------------------------------------------------------------
Next == \/ FromDict \/ CheckNames \/ CheckInputs \/ CheckSource \/ CheckClasses
        \/ TopoTurn \/ TopoDone \/ CheckReplacements

Spec == Init /\ [][Next]_vars /\ WF_vars(Next)

-----------------------------------------------------------------------------
Accepted == step = "accepted"

Before(m, n) == \E i, j \in DOMAIN order : i < j /\ order[i] = m /\ order[j] = n

\* What Executor relies on (executor.py 94, 207-208; PipelineAssumption in
\* Executor): an accepted pipeline is acyclic, its order holds every node
\* once, after all of its inputs, and every node but the source descends from
\* the source.
AcceptedIsRunnable ==
    Accepted =>
        /\ Acyclic(InputsByName)
        /\ Placed = Names /\ Len(order) = Cardinality(Names)
        /\ \A n \in Names : \A m \in InputsByName[n] : Before(m, n)
        /\ \E s \in Names : \A n \in Names \ {s} : s \in AncestorsOf(InputsByName, n)

\* pipeline.py 187: "cycle among nodes" is only said of a graph that has one,
\* and of the names of the nodes that are on it or wait for it.
CycleIsReal ==
    error = "topo" =>
        /\ ~Acyclic(InputsByName)
        /\ \A n \in Names \ Placed : InputsByName[n] \cap (Names \ Placed) # {}

\* pipeline.py 180, "YAML order breaks ties, so runs are stable": of two nodes
\* the one listed first also runs first, unless it waits for something the
\* other does not.
YamlBreaksTies ==
    Accepted => \A i, j \in DOMAIN nodes :
        i < j /\ nodes[i].inputs \subseteq nodes[j].inputs
            => Before(nodes[i].name, nodes[j].name)

\* archiver.md 38-47 and kernel.py 152-161: in an accepted pipeline two nodes
\* that replace a common key are ordered.  (The globs of a run decide whether
\* _globs_overlap sees every overlap: see the README.)
NoParallelReplacement ==
    Accepted => \A i, j \in Mutators :
        (\E g \in nodes[i].replaces, h \in nodes[j].replaces :
            Covers[g] \cap Covers[h] # {})
        => i = j \/ Ordered(nodes[i].name, nodes[j].name)

\* archiver.py 125-134 and pipeline.py 130-131 ("every field added to Pipeline
\* has to survive validation"): a job's config is archived as a copy of its
\* YAML or, without a file, as its definition written back; either of them
\* loads again, and to the same definition.
ConfigsAgree ==
    Accepted =>
        /\ ~Malformed(ToDict)
        /\ NodeSpecs(ToDict) = NodeSpecs(document)
        /\ Text[ToDict.job_id] = Text[document.job_id]
        /\ CacheSpec(ToDict.cache) = CacheSpec(document.cache)

\* Loading always ends.
Decides == <>(step \in {"accepted", "rejected"})
=============================================================================
