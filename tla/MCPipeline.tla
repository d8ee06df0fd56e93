----------------------------- MODULE MCPipeline -----------------------------
(***************************************************************************)
(* Small documents of five kinds: any graph over three names with a        *)
(* missing or repeated one; any graph over four; any classes on a chain;   *)
(* three archivers below a source, ordered in every way, with every choice *)
(* of globs; and documents of two nodes written in every way YAML allows.  *)
(***************************************************************************)
EXTENDS Pipeline

Node(name, inputs, class, replaces) ==
    [keys |-> {"inputs"}, name |-> name, inputs |-> inputs, params |-> "taken",
     class |-> class, replaces |-> replaces]

\* A node of the class its place in the graph asks for.
Plain(name, inputs) ==
    Node(name, inputs, IF inputs = {} THEN "source" ELSE "kernel", {})

Graphs(names, from) ==
    {[i \in DOMAIN names |-> Plain(names[i], f[i])] : f \in [DOMAIN names -> SUBSET from]}

Chains ==
    {<<Node("a", {}, f[1], {}), Node("b", {"a"}, f[2], {}), Node("c", {"b"}, f[3], {})>> :
        f \in [1 .. 3 -> {"source", "kernel", "mutating", "neither"}]}

MCGlobs == {"dur/*", "dur/v", "imu/*", "*"}

Archivers ==
    {<<Plain("load", {}), Node("x", {"load"}, "mutating", {g[1]}),
       Node("y", fy, "mutating", {g[2]}), Node("z", fz, "mutating", {g[3]})>> :
        g \in [1 .. 3 -> MCGlobs],
        fy \in SUBSET {"load", "x"} \ {{}},
        fz \in SUBSET {"load", "x", "y"} \ {{}}}

NoCache == [form |-> "null", entries |-> EmptyMap]

Document(ns) == [yaml |-> "mapping", keys |-> {"job_id", "nodes"}, job_id |-> "j",
                 nodes |-> ns, cache |-> NoCache]

\* YAML's unquoted 1 is a number (written #1 here) and is not the string "1".
MCText == [v \in {"a", "b", "c", "d", "load", "x", "y", "z", "j", "/tmp", "1", "#1"} |->
              IF v = "#1" THEN "1" ELSE v]

MCFloat == [v \in {"64", "#64", "64.0", "#0"} |-> IF v = "#0" THEN "0.0" ELSE "64.0"]

Caches ==
    {NoCache, [form |-> "other", entries |-> EmptyMap]}
    \cup {[form |-> "mapping", entries |-> e] : e \in
            UNION {[K -> {"null", "", "/tmp", "64", "#64", "#0"}] :
                      K \in SUBSET {"dir", "size_gb"} \cup {{"size"}}}}

Written ==
    {[Document(<<Plain(n, {}), Plain("b", i)>>) EXCEPT !.job_id = j] :
        n \in {"a", "1", "#1", "null", "b"}, j \in {"j", "#1", "null"},
        i \in SUBSET {"a", "1", "#1"}}
    \cup {[Document(<<Plain("a", {}), [Node("b", {"a"}, c, {"*"}) EXCEPT
                         !.params = p, !.keys = k]>>) EXCEPT !.yaml = y, !.keys = t] :
            c \in {"kernel", "mutating", "null"}, p \in {"taken", "refused"},
            k \in {{}, {"params", "inputs"}, {"input"}}, y \in {"mapping", "invalid"},
            t \in {{"job_id", "nodes"}, {"job_id", "nodes", "caches"}}}
    \cup {[Document(<<Plain("a", {}), Plain("b", {"a"})>>) EXCEPT
              !.keys = {"job_id", "nodes", "cache"}, !.cache = c] :
            c \in {c \in Caches : \A k \in DOMAIN c.entries :
                      k = "dir" => c.entries[k] \in {"null", "", "/tmp"}}}
    \cup {Document(<<>>)}

MCDocuments ==
    {Document(ns) : ns \in Graphs(<<"a", "b", "c">>, {"a", "b", "c", "ghost"})
                           \cup Graphs(<<"a", "b", "a">>, {"a", "b"})
                           \cup Graphs(<<"a", "b", "c", "d">>, {"a", "b", "c"})
                           \cup Chains \cup Archivers}
    \cup Written

MCCovers == [g \in MCGlobs |-> CASE g \in {"dur/*", "dur/v"} -> {"dur/v"}
                                 [] g = "imu/*" -> {"imu/v"}
                                 [] g = "*" -> {"dur/v", "imu/v"}]

MCLiteral == {<<"dur/v", "dur/*">>} \cup (MCGlobs \X {"*"})
=============================================================================
