--------------------------- MODULE PipelineProofs ---------------------------
(***************************************************************************)
(* What loading promises for every document: an accepted pipeline can be   *)
(* executed, in an order that is stable, a cycle is only said of a graph   *)
(* that has one, and the definition written back loads to itself.          *)
(*                                                                         *)
(* Nothing of this is induction on the list of nodes.  The order is built  *)
(* turn by turn, and what a turn appends is described by ranks: the node   *)
(* at position k is the one with k ready nodes up to itself.  That the     *)
(* result is acyclic, and that all of it descends from the source, follows *)
(* from a set of nodes having a member that is placed first.               *)
(***************************************************************************)
EXTENDS Pipeline, DataLemmas, FiniteSetTheorems, SequenceTheorems

\* The check the loading is at, or the one that rejected the document.
Reached == IF step = "rejected" THEN error ELSE step

\* What the checks passed so far have established.
Checked ==
    /\ DOMAIN nodes = 1 .. Len(nodes) /\ Len(nodes) \in Nat
    /\ Reached \notin {"document", "names"} => ~DuplicateNames
    /\ Reached \notin {"document", "names", "inputs"} => ~BadInputs
    /\ Reached \notin {"document", "names", "inputs", "source"} => Cardinality(Roots) = 1
    /\ Reached \notin {"topo", "replacements", "accepted"} => order = <<>>
    /\ Reached \in {"replacements", "accepted"} => Remaining = {}
    /\ Reached = "accepted" => ~ReplacementClash
    /\ error # "none" => step = "rejected"
    /\ error = "topo" => Remaining # {} /\ ReadyNow = {}

\* The order so far: names, each once, each after its inputs.
Topological ==
    /\ order \in Seq(Names)
    /\ \A i, j \in DOMAIN order : order[i] = order[j] => i = j
    /\ \A j \in DOMAIN order : \A i \in DOMAIN nodes :
          nodes[i].name = order[j] => nodes[i].inputs \subseteq {order[k] : k \in 1 .. j - 1}

\* Of two nodes the one that waits for no more than the other and is listed
\* first is placed first.
Stable == \A i, j \in DOMAIN nodes :
    (i < j /\ nodes[i].inputs \subseteq nodes[j].inputs /\ nodes[j].name \in Placed)
        => Before(nodes[i].name, nodes[j].name)

\* The definition says what the document says.
AsWritten ==
    /\ document \in Documents
    /\ DOMAIN settings = {"job_id", "cache", "source"}
    /\ Reached # "document" =>
          /\ ~Malformed(document)
          /\ nodes = NodeSpecs(document)
          /\ settings.job_id = Text[document.job_id]
          /\ settings.cache = CacheSpec(document.cache)

IInv == Checked /\ Topological /\ Stable /\ AsWritten

-----------------------------------------------------------------------------
(* Ranks *)

RankIn(I, i) == Cardinality({j \in I : j <= i})

\* The member of I with rank k.
Ranked(I, k) == CHOOSE i \in I : RankIn(I, i) = k

\* Ranks number a set of positions from 1, in their order.
LEMMA Ranks ==
    ASSUME NEW m \in Nat, NEW I, I \subseteq 1 .. m
    PROVE  /\ Cardinality(I) \in Nat
           /\ \A i \in I : RankIn(I, i) \in 1 .. Cardinality(I)
           /\ \A i, j \in I : i < j => RankIn(I, i) < RankIn(I, j)
           /\ \A k \in 1 .. Cardinality(I) : \E i \in I : RankIn(I, i) = k
<1> DEFINE c == Cardinality(I)
           upto(i) == {j \in I : j <= i}
           r == [i \in I |-> RankIn(I, i)]
<1>0. \A i \in I : i \in Nat
  OBVIOUS
<1>1. IsFiniteSet(I)
  <2>1. IsFiniteSet(1 .. m) /\ I \in SUBSET (1 .. m)
    BY FS_Interval
  <2> QED BY <2>1, FS_Subset
<1>2. c \in Nat
  BY <1>1, FS_CardinalityType
<1>3. ASSUME NEW i \in I
      PROVE  IsFiniteSet(upto(i)) /\ RankIn(I, i) \in Nat /\ RankIn(I, i) <= c /\ RankIn(I, i) # 0
  <2>1. upto(i) \in SUBSET I /\ i \in upto(i)
    OBVIOUS
  <2>2. IsFiniteSet(upto(i)) /\ Cardinality(upto(i)) <= c
    BY <1>1, <2>1, FS_Subset
  <2>3. Cardinality(upto(i)) \in Nat /\ (Cardinality(upto(i)) = 0 <=> upto(i) = {})
    BY <2>2, FS_CardinalityType, FS_EmptySet
  <2> QED BY <2>1, <2>2, <2>3 DEF RankIn
<1>4. ASSUME NEW i \in I, NEW j \in I, i < j PROVE RankIn(I, i) < RankIn(I, j)
  <2>1. upto(i) \in SUBSET upto(j) /\ j \in upto(j) /\ j \notin upto(i)
    <3>1. /\ \A k \in I : k <= i => k <= j
          /\ j <= j /\ ~(j <= i)
      BY <1>0, <1>4
    <3> QED BY <3>1
  <2>2. Cardinality(upto(i)) <= Cardinality(upto(j)) /\ Cardinality(upto(i)) # Cardinality(upto(j))
    BY <1>3, <2>1, FS_Subset
  <2> QED BY <1>3, <2>2 DEF RankIn
<1>5. ASSUME NEW i \in I PROVE RankIn(I, i) \in 1 .. c
  <2> DEFINE q == RankIn(I, i)
  <2>1. q \in Nat /\ q <= c /\ q # 0
    BY <1>3
  <2> HIDE DEF q, c
  <2>2. q \in 1 .. c
    BY <1>2, <2>1
  <2> QED BY <2>2 DEF q
<1>6. \A k \in 1 .. c : \E i \in I : RankIn(I, i) = k
  <2>1. r \in Injection(I, 1 .. c)
    <3>1. r \in [I -> 1 .. c]
      BY <1>5
    <3>2. ASSUME NEW i \in I, NEW j \in I, r[i] = r[j] PROVE i = j
      <4>1. RankIn(I, i) = RankIn(I, j) /\ RankIn(I, i) \in Nat
        BY <1>3, <3>2
      <4>2. i \in Nat /\ j \in Nat
        BY <1>0
      <4>3. ~(i < j) /\ ~(j < i)
        BY <1>4, <4>1
      <4> QED BY <4>2, <4>3
    <3> HIDE DEF r, c
    <3> QED BY <3>1, <3>2 DEF Injection, IsInjective
  <2>2. IsFiniteSet(1 .. c) /\ Cardinality(1 .. c) = c
    BY <1>2, FS_Interval
  <2> HIDE DEF r
  <2>3. r \in Surjection(I, 1 .. c)
    BY <2>1, <2>2, FS_Injection
  <2>4. \A k \in 1 .. c : \E i \in I : r[i] = k
    BY <2>3 DEF Surjection
  <2> QED BY <2>4 DEF r
<1> QED BY <1>2, <1>4, <1>5, <1>6

\* What a turn appends: the names at the positions of I, in their order.
LEMMA InOrderOfRank ==
    ASSUME NEW m \in Nat, NEW I, I \subseteq 1 .. m
    PROVE  /\ Cardinality(I) \in Nat
           /\ InYamlOrder(I) = [k \in 1 .. Cardinality(I) |-> nodes[Ranked(I, k)].name]
           /\ \A k \in 1 .. Cardinality(I) : Ranked(I, k) \in I
           /\ \A k, l \in 1 .. Cardinality(I) : Ranked(I, k) < Ranked(I, l) => k < l
           /\ \A k, l \in 1 .. Cardinality(I) : Ranked(I, k) = Ranked(I, l) => k = l
           /\ \A i \in I : \E k \in 1 .. Cardinality(I) : Ranked(I, k) = i
<1>1. \A k \in 1 .. Cardinality(I) : Ranked(I, k) \in I /\ RankIn(I, Ranked(I, k)) = k
  BY Ranks DEF Ranked
<1>2. InYamlOrder(I) = [k \in 1 .. Cardinality(I) |-> nodes[Ranked(I, k)].name]
  BY DEF InYamlOrder, Ranked, RankIn
<1>3. \A i \in I : i \in Nat
  OBVIOUS
<1>4. ASSUME NEW i \in I PROVE \E k \in 1 .. Cardinality(I) : Ranked(I, k) = i
  <2>1. PICK k \in 1 .. Cardinality(I) : k = RankIn(I, i)
    BY Ranks
  <2>2. PICK j \in I : j = Ranked(I, k) /\ RankIn(I, j) = k
    BY <1>1
  <2>3. ~(i < j) /\ ~(j < i)
    <3>1. (i < j => k < k) /\ (j < i => k < k)
      BY <2>1, <2>2, Ranks
    <3>2. k \in Nat
      <4>1. Cardinality(I) \in Nat
        BY Ranks
      <4> QED BY <4>1
    <3> QED BY <3>1, <3>2
  <2>4. j = i
    BY <1>3, <2>3
  <2> QED BY <2>2, <2>4
<1>5. ASSUME NEW k \in 1 .. Cardinality(I), NEW l \in 1 .. Cardinality(I)
      PROVE  /\ Ranked(I, k) < Ranked(I, l) => k < l
             /\ Ranked(I, k) = Ranked(I, l) => k = l
  BY <1>1, Ranks
<1>6. Cardinality(I) \in Nat
  BY Ranks
<1> QED BY <1>1, <1>2, <1>4, <1>5, <1>6

-----------------------------------------------------------------------------
(* The order *)

\* A turn keeps the order topological, and breaks ties as the YAML does.
LEMMA TurnOrders ==
    ASSUME DOMAIN nodes = 1 .. Len(nodes), Len(nodes) \in Nat, ~DuplicateNames,
           Topological, Stable, NEW R, R = ReadyNow, nodes' = nodes,
           order' = order \o InYamlOrder(R)
    PROVE  Topological' /\ Stable'
<1> DEFINE c == Cardinality(R)
           p(k) == Ranked(R, k)
           Y == InYamlOrder(R)
           L == Len(order)
<1>1. /\ R \subseteq DOMAIN nodes
      /\ \A i \in R : nodes[i].name \notin Placed /\ nodes[i].inputs \subseteq Placed
  BY DEF ReadyNow, Remaining
<1>2. /\ c \in Nat /\ Y = [k \in 1 .. c |-> nodes[p(k)].name]
      /\ \A k \in 1 .. c : p(k) \in R
      /\ \A k, l \in 1 .. c : p(k) < p(l) => k < l
      /\ \A k, l \in 1 .. c : p(k) = p(l) => k = l
      /\ \A i \in R : \E k \in 1 .. c : p(k) = i
  BY <1>1, InOrderOfRank
<1>3. \A i, j \in DOMAIN nodes : nodes[i].name = nodes[j].name => i = j
  BY DEF DuplicateNames
<1>4. Names' = Names /\ \A i \in DOMAIN nodes : nodes[i].name \in Names
  BY DEF Names
<1> HIDE DEF c, p, Y
<1>5. Y \in Seq(Names) /\ Len(Y) = c
  <2>1. \A k \in 1 .. c : nodes[p(k)].name \in Names
    BY <1>1, <1>2, <1>4
  <2>2. Y \in [1 .. c -> Names]
    BY <1>2, <2>1
  <2> QED BY <1>2, <2>2
<1>6. /\ order \in Seq(Names) /\ L \in Nat /\ DOMAIN order = 1 .. L
  BY DEF Topological
<1>7. /\ order' \in Seq(Names) /\ DOMAIN order' = 1 .. L + c
      /\ \A j \in 1 .. L : order'[j] = order[j]
      /\ \A k \in 1 .. c : order'[L + k] = nodes[p(k)].name
  <2>1. order' = order \o Y
    BY DEF Y
  <2>2. /\ order' \in Seq(Names) /\ Len(order') = L + c
        /\ \A j \in 1 .. L + c : order'[j] = IF j <= L THEN order[j] ELSE Y[j - L]
    <3>1. /\ order \o Y \in Seq(Names) /\ Len(order \o Y) = Len(order) + Len(Y)
          /\ \A j \in 1 .. Len(order) + Len(Y) :
                (order \o Y)[j] = IF j <= Len(order) THEN order[j] ELSE Y[j - Len(order)]
      BY <1>5, <1>6, ConcatProperties
    <3> QED BY <1>5, <2>1, <3>1
  <2>3. \A j \in 1 .. L : order'[j] = order[j]
    BY <1>2, <1>6, <2>2
  <2>4. \A k \in 1 .. c : order'[L + k] = Y[k]
    <3> SUFFICES ASSUME NEW k \in 1 .. c PROVE order'[L + k] = Y[k]
      OBVIOUS
    <3>1. L + k \in 1 .. L + c /\ ~(L + k <= L) /\ (L + k) - L = k
      BY <1>2, <1>6
    <3> QED BY <2>2, <3>1
  <2> QED BY <1>2, <1>6, <2>2, <2>3, <2>4
<1> HIDE DEF L
<1>8. Placed = {order[k] : k \in 1 .. L}
  BY <1>6 DEF Placed
<1>9. ASSUME NEW j \in DOMAIN order'
      PROVE  \/ j \in 1 .. L
             \/ \E k \in 1 .. c : j = L + k
  <2>1. CASE j <= L
    BY <1>6, <1>7, <2>1
  <2>2. CASE ~(j <= L)
    <3>1. j - L \in 1 .. c /\ j = L + (j - L)
      BY <1>2, <1>6, <1>7, <2>2
    <3> QED BY <3>1
  <2> QED BY <2>1, <2>2
<1>10. \A j \in 1 .. L : \A k \in 1 .. c : order'[j] # order'[L + k]
  <2> SUFFICES ASSUME NEW j \in 1 .. L, NEW k \in 1 .. c PROVE order'[j] # order'[L + k]
    OBVIOUS
  <2>1. order'[j] \in Placed
    BY <1>7, <1>8
  <2>2. p(k) \in R
    BY <1>2
  <2>3. order'[L + k] \notin Placed
    BY <1>1, <1>7, <2>2
  <2> QED BY <2>1, <2>3
<1>11. ASSUME NEW k \in 1 .. c, NEW l \in 1 .. c, order'[L + k] = order'[L + l] PROVE k = l
  <2>1. p(k) \in DOMAIN nodes /\ p(l) \in DOMAIN nodes
    BY <1>1, <1>2
  <2>2. nodes[p(k)].name = nodes[p(l)].name
    BY <1>7, <1>11
  <2>3. p(k) = p(l)
    BY <1>3, <2>1, <2>2
  <2> QED BY <1>2, <2>3
<1>12. \A i, j \in DOMAIN order' : order'[i] = order'[j] => i = j
  <2> SUFFICES ASSUME NEW i \in DOMAIN order', NEW j \in DOMAIN order', order'[i] = order'[j]
               PROVE  i = j
    OBVIOUS
  <2>1. CASE i \in 1 .. L /\ j \in 1 .. L
    BY <1>6, <1>7, <2>1 DEF Topological
  <2>2. CASE i \notin 1 .. L /\ j \notin 1 .. L
    BY <1>9, <1>11, <2>2
  <2>3. CASE i \in 1 .. L /\ j \notin 1 .. L
    BY <1>9, <1>10, <2>3
  <2>4. CASE i \notin 1 .. L /\ j \in 1 .. L
    BY <1>9, <1>10, <2>4
  <2> QED BY <2>1, <2>2, <2>3, <2>4
<1>13. ASSUME NEW j \in DOMAIN order', NEW i \in DOMAIN nodes, nodes[i].name = order'[j]
       PROVE  nodes[i].inputs \subseteq {order'[k] : k \in 1 .. j - 1}
  <2>1. CASE j \in 1 .. L
    <3>1. nodes[i].inputs \subseteq {order[k] : k \in 1 .. j - 1}
      BY <1>6, <1>7, <1>13, <2>1 DEF Topological
    <3>2. \A k \in 1 .. j - 1 : order'[k] = order[k]
      BY <1>6, <1>7, <2>1
    <3> QED BY <3>1, <3>2
  <2>2. ASSUME NEW k \in 1 .. c, j = L + k
        PROVE  nodes[i].inputs \subseteq {order'[l] : l \in 1 .. j - 1}
    <3>1. i = p(k)
      BY <1>1, <1>2, <1>3, <1>7, <1>13, <2>2
    <3>2. nodes[i].inputs \subseteq {order[l] : l \in 1 .. L}
      BY <1>1, <1>2, <1>8, <3>1
    <3>3. \A l \in 1 .. L : l \in 1 .. j - 1 /\ order'[l] = order[l]
      BY <1>2, <1>6, <1>7, <2>2
    <3> QED BY <3>2, <3>3
  <2> QED BY <1>9, <2>1, <2>2
<1>14. Topological'
  BY <1>4, <1>7, <1>12, <1>13 DEF Topological
<1>15. ASSUME NEW i \in DOMAIN nodes, NEW j \in DOMAIN nodes, i < j,
              nodes[i].inputs \subseteq nodes[j].inputs, nodes[j].name \in Placed'
       PROVE  \E a, b \in DOMAIN order' :
                 a < b /\ order'[a] = nodes[i].name /\ order'[b] = nodes[j].name
  <2>1. PICK b \in DOMAIN order' : order'[b] = nodes[j].name
    BY <1>15 DEF Placed
  <2>2. CASE b \in 1 .. L
    <3>1. nodes[j].name \in Placed
      BY <1>7, <1>8, <2>1, <2>2
    <3>2. PICK x \in DOMAIN order, y \in DOMAIN order :
             x < y /\ order[x] = nodes[i].name /\ order[y] = nodes[j].name
      BY <1>15, <3>1 DEF Stable, Before
    <3>3. x \in DOMAIN order' /\ y \in DOMAIN order' /\ order'[x] = order[x] /\ order'[y] = order[y]
      BY <1>2, <1>6, <1>7
    <3> QED BY <3>2, <3>3
  <2>3. ASSUME NEW l \in 1 .. c, b = L + l
        PROVE  \E a \in DOMAIN order' : a < b /\ order'[a] = nodes[i].name
    <3>1. j = p(l) /\ j \in R
      BY <1>1, <1>2, <1>3, <1>7, <2>1, <2>3
    <3>2. nodes[i].inputs \subseteq Placed
      BY <1>1, <1>15, <3>1
    <3>3. CASE nodes[i].name \in Placed
      <4>1. PICK a \in 1 .. L : order[a] = nodes[i].name
        BY <1>8, <3>3
      <4>2. a \in DOMAIN order' /\ a < b /\ order'[a] = order[a]
        BY <1>2, <1>6, <1>7, <2>3
      <4> QED BY <4>1, <4>2
    <3>4. CASE nodes[i].name \notin Placed
      <4>1. i \in R
        BY <3>2, <3>4 DEF ReadyNow, Remaining
      <4>2. PICK k \in 1 .. c : p(k) = i
        BY <1>2, <4>1
      <4>3. k < l
        BY <1>2, <1>15, <3>1, <4>2
      <4>4. L + k \in DOMAIN order' /\ L + k < b /\ order'[L + k] = nodes[i].name
        BY <1>2, <1>6, <1>7, <2>3, <4>2, <4>3
      <4> QED BY <4>4
    <3> QED BY <3>3, <3>4
  <2> QED BY <1>9, <2>1, <2>2, <2>3
<1>16. Stable'
  BY <1>15 DEF Stable, Before
<1> QED BY <1>14, <1>16

\* The steps that neither load nodes nor place them.
LEMMA SameOrder ==
    ASSUME UNCHANGED <<nodes, order>>, Topological, Stable
    PROVE  Topological' /\ Stable'
BY DEF Topological, Stable, Before, Placed, Names

-----------------------------------------------------------------------------
(* The invariant *)

LEMMA InitInv == ASSUME Init PROVE IInv
<1>1. /\ document \in Documents /\ step = "document" /\ error = "none"
      /\ nodes = <<>> /\ order = <<>>
      /\ DOMAIN settings = {"job_id", "cache", "source"}
  BY DEF Init
<1>2. DOMAIN nodes = 1 .. Len(nodes) /\ Len(nodes) = 0 /\ DOMAIN nodes = {}
  BY <1>1
<1>3. Checked
  BY <1>1, <1>2 DEF Checked, Reached
<1>4. Topological /\ Stable
  BY <1>1, <1>2 DEF Topological, Stable
<1> QED BY <1>1, <1>3, <1>4 DEF IInv, AsWritten, Reached

\* Whether replacements clash is a matter of the nodes alone.
LEMMA SameClash == ASSUME nodes' = nodes PROVE ReplacementClash' = ReplacementClash
<1>1. Mutators' = Mutators /\ Names' = Names
  BY DEF Mutators, Names
<1>2. InputsByName' = InputsByName
  BY <1>1 DEF InputsByName
<1>3. \A a, b : Ordered(a, b)' <=> Ordered(a, b)
  BY <1>2 DEF Ordered
<1> QED BY <1>1, <1>3 DEF ReplacementClash

\* What a rejection leaves: all that was known of the definition.
LEMMA RejectStep ==
    ASSUME IInv, Reject, step \notin {"rejected", "accepted"},
           step = "topo" => Remaining # {} /\ ReadyNow = {}
    PROVE  IInv'
<1>1. /\ step' = "rejected" /\ error' = step
      /\ document' = document /\ settings' = settings /\ nodes' = nodes /\ order' = order
  BY DEF Reject
<1>2. Reached' = step /\ Reached = step
  BY <1>1 DEF Reached
<1>3. Checked'
  BY <1>1, <1>2 DEF IInv, Checked, DuplicateNames, BadInputs, Roots, Remaining, ReadyNow, Placed, Names
<1>4. Topological' /\ Stable'
  BY <1>1, SameOrder DEF IInv
<1>5. AsWritten'
  BY <1>1, <1>2 DEF IInv, AsWritten
<1> QED BY <1>3, <1>4, <1>5 DEF IInv

\* What passing a check leaves, given what the check establishes.
LEMMA ProceedStep ==
    ASSUME IInv, NEW next, Proceed(next),
           next \in {"inputs", "source", "classes", "replacements", "accepted"},
           step \notin {"document", "rejected"},
           Reached' \notin {"document", "names"} => ~DuplicateNames,
           Reached' \notin {"document", "names", "inputs"} => ~BadInputs,
           Reached' \notin {"document", "names", "inputs", "source"} => Cardinality(Roots) = 1,
           Reached' \notin {"topo", "replacements", "accepted"} => order = <<>>,
           Reached' \in {"replacements", "accepted"} => Remaining = {},
           Reached' = "accepted" => ~ReplacementClash
    PROVE  IInv'
<1>1. /\ step' = next /\ error' = error
      /\ document' = document /\ settings' = settings /\ nodes' = nodes /\ order' = order
  BY DEF Proceed
<1>2. error = "none" /\ Reached = step
  BY DEF IInv, Checked, Reached
<1>3. Checked'
  BY <1>1, <1>2, SameClash DEF IInv, Checked, DuplicateNames, BadInputs, Roots, Remaining, ReadyNow,
     Placed, Names
<1>4. Topological' /\ Stable'
  BY <1>1, SameOrder DEF IInv
<1>5. AsWritten'
  BY <1>1, <1>2 DEF IInv, AsWritten
<1> QED BY <1>3, <1>4, <1>5 DEF IInv

LEMMA FromDictStep == ASSUME IInv, FromDict, ~Malformed(document) PROVE IInv'
<1>1. /\ step = "document" /\ step' = "names" /\ document' = document
      /\ nodes' = NodeSpecs(document) /\ order' = order /\ error' = error
      /\ settings' = [settings EXCEPT !.job_id = Text[document.job_id],
                                      !.cache  = CacheSpec(document.cache)]
  BY DEF FromDict
<1>2. /\ document \in Documents /\ DOMAIN settings = {"job_id", "cache", "source"}
      /\ error = "none" /\ order = <<>>
  BY <1>1 DEF IInv, AsWritten, Checked, Reached
<1>3. DOMAIN nodes' = 1 .. Len(nodes') /\ Len(nodes') \in Nat
  <2>1. DOMAIN document.nodes = 1 .. Len(document.nodes) /\ Len(document.nodes) \in Nat
    BY <1>2, DocumentAssumption
  <2> DEFINE N == Len(document.nodes)
  <2>2. nodes' = [k \in 1 .. N |-> NodeSpec(document.nodes[k])]
    BY <1>1, <2>1 DEF NodeSpecs
  <2> HIDE DEF N
  <2>3. N \in Nat
    BY <2>1 DEF N
  <2>4. DOMAIN nodes' = 1 .. N /\ nodes' \in Seq({nodes'[k] : k \in 1 .. N})
    BY <2>2, <2>3
  <2> QED BY <2>3, <2>4
<1>4. Reached' = "names"
  BY <1>1 DEF Reached
<1>5. Checked'
  BY <1>1, <1>2, <1>3, <1>4 DEF Checked
<1>6. order' = <<>> /\ DOMAIN order' = {} /\ Placed' = {}
  BY <1>1, <1>2 DEF Placed
<1>7. Topological' /\ Stable'
  BY <1>6 DEF Topological, Stable
<1>8. /\ DOMAIN settings' = {"job_id", "cache", "source"}
      /\ settings'.job_id = Text[document.job_id]
      /\ settings'.cache = CacheSpec(document.cache)
  BY <1>1, <1>2
<1>9. AsWritten'
  BY <1>1, <1>2, <1>8 DEF AsWritten
<1> QED BY <1>5, <1>7, <1>9 DEF IInv

LEMMA ClassesStep == ASSUME IInv, CheckClasses, ~WrongClass PROVE IInv'
<1>1. /\ step = "classes" /\ step' = "topo" /\ document' = document
      /\ nodes' = nodes /\ order' = order /\ error' = error
      /\ \E s : settings' = [settings EXCEPT !.source = s]
  BY DEF CheckClasses, WithSource
<1>2. Reached = "classes" /\ error = "none" /\ Reached' = "topo"
  BY <1>1 DEF IInv, Checked, Reached
<1>3. Checked'
  BY <1>1, <1>2 DEF IInv, Checked, DuplicateNames, BadInputs, Roots, Names
<1>4. Topological' /\ Stable'
  BY <1>1, SameOrder DEF IInv
<1>5. /\ DOMAIN settings' = DOMAIN settings /\ settings'.job_id = settings.job_id
      /\ settings'.cache = settings.cache
  BY <1>1 DEF IInv, AsWritten
<1>6. AsWritten'
  BY <1>1, <1>2, <1>5 DEF IInv, AsWritten
<1> QED BY <1>3, <1>4, <1>6 DEF IInv

LEMMA TurnStep == ASSUME IInv, TopoTurn, ReadyNow # {} PROVE IInv'
<1>1. /\ step = "topo" /\ order' = order \o InYamlOrder(ReadyNow)
      /\ document' = document /\ settings' = settings /\ nodes' = nodes
      /\ step' = step /\ error' = error
  BY DEF TopoTurn
<1>2. Reached = "topo" /\ Reached' = "topo" /\ error = "none"
  BY <1>1 DEF IInv, Checked, Reached
<1>3. Checked'
  BY <1>1, <1>2 DEF IInv, Checked, DuplicateNames, BadInputs, Roots, Names
<1>4. /\ DOMAIN nodes = 1 .. Len(nodes) /\ Len(nodes) \in Nat /\ ~DuplicateNames
      /\ Topological /\ Stable
  BY <1>2 DEF IInv, Checked
<1>5. Topological' /\ Stable'
  BY <1>1, <1>4, TurnOrders
<1>6. AsWritten'
  BY <1>1, <1>2 DEF IInv, AsWritten
<1> QED BY <1>3, <1>5, <1>6 DEF IInv

LEMMA StepInv == ASSUME IInv, [Next]_vars PROVE IInv'
<1>1. CASE FromDict
  BY <1>1, FromDictStep, RejectStep DEF FromDict
<1>2. CASE CheckNames
  <2>1. CASE DuplicateNames
    BY <1>2, <2>1, RejectStep DEF CheckNames
  <2>2. CASE ~DuplicateNames
    BY <1>2, <2>2, ProceedStep DEF CheckNames, Proceed, Reached, IInv, Checked
  <2> QED BY <2>1, <2>2
<1>3. CASE CheckInputs
  <2>1. CASE BadInputs
    BY <1>3, <2>1, RejectStep DEF CheckInputs
  <2>2. CASE ~BadInputs
    BY <1>3, <2>2, ProceedStep DEF CheckInputs, Proceed, Reached, IInv, Checked
  <2> QED BY <2>1, <2>2
<1>4. CASE CheckSource
  <2>1. CASE Cardinality(Roots) # 1
    BY <1>4, <2>1, RejectStep DEF CheckSource
  <2>2. CASE Cardinality(Roots) = 1
    BY <1>4, <2>2, ProceedStep DEF CheckSource, Proceed, Reached, IInv, Checked
  <2> QED BY <2>1, <2>2
<1>5. CASE CheckClasses
  BY <1>5, ClassesStep, RejectStep DEF CheckClasses
<1>6. CASE TopoTurn
  BY <1>6, TurnStep, RejectStep DEF TopoTurn
<1>7. CASE TopoDone
  BY <1>7, ProceedStep DEF TopoDone, Proceed, Reached, IInv, Checked
<1>8. CASE CheckReplacements
  <2>1. CASE BadParams \/ ReplacementClash
    BY <1>8, <2>1, RejectStep DEF CheckReplacements
  <2>2. CASE ~(BadParams \/ ReplacementClash)
    BY <1>8, <2>2, ProceedStep DEF CheckReplacements, Proceed, Reached, IInv, Checked
  <2> QED BY <2>1, <2>2
<1>9. CASE UNCHANGED vars
  <2>1. Topological' /\ Stable'
    BY <1>9, SameOrder DEF vars, IInv
  <2>2. nodes' = nodes
    BY <1>9 DEF vars
  <2> QED BY <1>9, <2>1, <2>2, SameClash DEF vars, IInv, Checked, AsWritten, Reached,
         DuplicateNames, BadInputs, Roots, Remaining, ReadyNow, Placed, Names
<1> QED BY <1>1, <1>2, <1>3, <1>4, <1>5, <1>6, <1>7, <1>8, <1>9 DEF Next

LEMMA Inductive == Spec => []IInv
<1>1. Init => IInv
  BY InitInv
<1>2. IInv /\ [Next]_vars => IInv'
  BY StepInv
<1> QED BY <1>1, <1>2, PTL DEF Spec

-----------------------------------------------------------------------------
(* What an order is good for *)

\* Every node by its name.
LEMMA InputsOfNodes ==
    ASSUME ~DuplicateNames
    PROVE  /\ DOMAIN InputsByName = Names
           /\ \A i \in DOMAIN nodes : /\ nodes[i].name \in Names
                                      /\ InputsByName[nodes[i].name] = nodes[i].inputs
           /\ \A n \in Names : \E i \in DOMAIN nodes : nodes[i].name = n
<1>1. ASSUME NEW i \in DOMAIN nodes
      PROVE  InputsByName[nodes[i].name] = nodes[i].inputs
  <2>1. {j \in DOMAIN nodes : nodes[j].name = nodes[i].name} = {i}
    BY DEF DuplicateNames
  <2>2. nodes[i].name \in Names
    BY DEF Names
  <2>3. InputsByName[nodes[i].name] = UNION {nodes[j].inputs : j \in {i}}
    BY <2>1, <2>2 DEF InputsByName
  <2> QED BY <2>3
<1> QED BY <1>1 DEF Names, InputsByName

\* Where every name is placed, the inputs of a node are placed before it.
LEMMA InputsAreBefore ==
    ASSUME IInv, ~DuplicateNames, Placed = Names, NEW j \in DOMAIN order
    PROVE  /\ order[j] \in Names
           /\ \A m \in InputsByName[order[j]] : \E k \in 1 .. j - 1 : order[k] = m
<1>1. PICK i \in DOMAIN nodes : nodes[i].name = order[j]
  BY DEF Placed, Names
<1>2. nodes[i].inputs \subseteq {order[k] : k \in 1 .. j - 1}
  BY <1>1 DEF IInv, Topological
<1> QED BY <1>1, <1>2, InputsOfNodes DEF Placed

\* So a set of names has a member none of whose inputs is in the set.
LEMMA FirstPlaced ==
    ASSUME IInv, ~DuplicateNames, Placed = Names, NEW S, S \subseteq Names, S # {}
    PROVE  \E n \in S : InputsByName[n] \cap S = {}
<1> DEFINE P == {j \in DOMAIN order : order[j] \in S}
<1>1. DOMAIN order \subseteq Nat
  BY DEF IInv, Topological
<1>2. P \subseteq Nat /\ P # {}
  BY <1>1 DEF Placed
<1>3. PICK j \in P : \A k \in P : j <= k
  BY <1>2, LeastPosition
<1>4. ASSUME NEW m \in InputsByName[order[j]], m \in S PROVE FALSE
  <2>1. PICK k \in 1 .. j - 1 : order[k] = m
    BY <1>3, InputsAreBefore
  <2>2. DOMAIN order = 1 .. Len(order) /\ Len(order) \in Nat
    BY DEF IInv, Topological
  <2>3. k \in DOMAIN order /\ k < j
    BY <1>3, <2>1, <2>2
  <2>4. k \in P
    BY <1>4, <2>1, <2>3
  <2> QED BY <1>1, <1>3, <2>3, <2>4
<1> QED BY <1>3, <1>4

\* An accepted pipeline passed every check.
LEMMA AcceptedFacts ==
    ASSUME IInv, Accepted
    PROVE  /\ ~DuplicateNames /\ ~BadInputs /\ Cardinality(Roots) = 1
           /\ Placed = Names
<1>1. Reached = "accepted" /\ Remaining = {}
  BY DEF IInv, Checked, Reached, Accepted
<1>2. Names \subseteq Placed
  BY <1>1 DEF Remaining, Names
<1>3. Placed \subseteq Names
  BY DEF IInv, Topological, Placed
<1> QED BY <1>1, <1>2, <1>3 DEF IInv, Checked

LEMMA OneRoot ==
    ASSUME IInv, Accepted
    PROVE  \E r \in DOMAIN nodes : \A i \in DOMAIN nodes : nodes[i].inputs = {} <=> i = r
<1>1. Cardinality(Roots) = 1 /\ IsFiniteSet(Roots)
  <2>1. DOMAIN nodes = 1 .. Len(nodes) /\ Len(nodes) \in Nat
    BY DEF IInv, Checked
  <2>2. IsFiniteSet(DOMAIN nodes) /\ Roots \in SUBSET DOMAIN nodes
    BY <2>1, FS_Interval DEF Roots
  <2> QED BY <2>2, FS_Subset, AcceptedFacts
<1>2. PICK r : Roots = {r}
  BY <1>1, FS_Singleton
<1> QED BY <1>2 DEF Roots

-----------------------------------------------------------------------------
\* pipeline.py 100-192 and executor.py 94, 207-208: an accepted definition is
\* acyclic, its order holds every node once and after its inputs, and every
\* node descends from the source.  It is what the executor takes for granted.
THEOREM AcceptedRuns == Spec => []AcceptedIsRunnable
<1>1. ASSUME IInv, Accepted
      PROVE  /\ Acyclic(InputsByName)
             /\ Placed = Names /\ Len(order) = Cardinality(Names)
             /\ \A n \in Names : \A m \in InputsByName[n] : Before(m, n)
             /\ \E s \in Names : \A n \in Names \ {s} : s \in AncestorsOf(InputsByName, n)
  <2>1. ~DuplicateNames /\ ~BadInputs /\ Placed = Names
    BY <1>1, AcceptedFacts
  <2>2. DOMAIN InputsByName = Names
    BY <2>1, InputsOfNodes
  <2>3. DOMAIN order = 1 .. Len(order) /\ Len(order) \in Nat
    BY <1>1 DEF IInv, Topological
  <2>4. Acyclic(InputsByName)
    BY <1>1, <2>1, <2>2, FirstPlaced DEF Acyclic
  <2>5. Len(order) = Cardinality(Names)
    <3> DEFINE L == Len(order)
    <3>0. L \in Nat
      BY <2>3
    <3>1. order \in [1 .. L -> Names] /\ (\A n \in Names : \E j \in 1 .. L : order[j] = n)
          /\ \A i, j \in 1 .. L : order[i] = order[j] => i = j
      BY <1>1, <2>1, <2>3 DEF IInv, Topological, Placed
    <3> HIDE DEF L
    <3>2. IsFiniteSet(1 .. L) /\ Cardinality(1 .. L) = L
      BY <3>0, FS_Interval
    <3>3. order \in Bijection(1 .. L, Names)
      BY <3>1 DEF Bijection, Injection, Surjection, IsInjective
    <3>4. Cardinality(Names) = Cardinality(1 .. L)
      BY <3>2, <3>3, FS_Bijection DEF ExistsBijection
    <3> QED BY <3>2, <3>4 DEF L
  <2>6. ASSUME NEW n \in Names, NEW m \in InputsByName[n] PROVE Before(m, n)
    <3>1. PICK j \in DOMAIN order : order[j] = n
      BY <2>1 DEF Placed
    <3>2. PICK k \in 1 .. j - 1 : order[k] = m
      BY <1>1, <2>1, <2>6, <3>1, InputsAreBefore
    <3>3. k \in DOMAIN order /\ k < j
      BY <2>3, <3>1, <3>2
    <3> QED BY <3>1, <3>2, <3>3 DEF Before
  <2>7. PICK r \in DOMAIN nodes : \A i \in DOMAIN nodes : nodes[i].inputs = {} <=> i = r
    BY <1>1, OneRoot
  <2> DEFINE s == nodes[r].name
  <2>8. s \in Names /\ \A n \in Names : InputsByName[n] = {} => n = s
    BY <2>1, <2>7, InputsOfNodes
  <2>9. ASSUME NEW n \in Names \ {s} PROVE s \in AncestorsOf(InputsByName, n)
    <3>1. ASSUME NEW S \in SUBSET Names, InputsByName[n] \subseteq S, InputClosed(InputsByName, S)
          PROVE  s \in S
      <4>1. S # {}
        BY <2>8, <3>1
      <4>2. PICK m \in S : InputsByName[m] \cap S = {}
        BY <1>1, <2>1, <4>1, FirstPlaced
      <4>3. InputsByName[m] = {}
        BY <3>1, <4>2 DEF InputClosed
      <4> QED BY <2>8, <4>3
    <3> QED BY <2>2, <2>8, <3>1 DEF AncestorsOf
  <2> QED BY <2>1, <2>4, <2>5, <2>6, <2>8, <2>9
<1>2. IInv => AcceptedIsRunnable
  BY <1>1 DEF AcceptedIsRunnable
<1> QED BY <1>2, Inductive, PTL

\* pipeline.py 187: of a definition rejected as cyclic, every remaining node
\* waits for a remaining one.
THEOREM CyclesAreReal == Spec => []CycleIsReal
<1>1. ASSUME IInv, error = "topo"
      PROVE  /\ ~Acyclic(InputsByName)
             /\ \A n \in Names \ Placed : InputsByName[n] \cap (Names \ Placed) # {}
  <2>1. ~DuplicateNames /\ ~BadInputs /\ Remaining # {} /\ ReadyNow = {}
    BY <1>1 DEF IInv, Checked, Reached
  <2>2. ASSUME NEW n \in Names \ Placed PROVE InputsByName[n] \cap (Names \ Placed) # {}
    <3>1. PICK i \in DOMAIN nodes : nodes[i].name = n /\ InputsByName[n] = nodes[i].inputs
      BY <2>1, InputsOfNodes
    <3>2. nodes[i].inputs \subseteq Names /\ ~(nodes[i].inputs \subseteq Placed)
      BY <2>1, <2>2, <3>1 DEF BadInputs, ReadyNow, Remaining
    <3> QED BY <3>1, <3>2
  <2>3. Names \ Placed # {} /\ Names \ Placed \in SUBSET DOMAIN InputsByName
    BY <2>1, InputsOfNodes DEF Remaining
  <2> QED BY <2>2, <2>3 DEF Acyclic
<1>2. IInv => CycleIsReal
  BY <1>1 DEF CycleIsReal
<1> QED BY <1>2, Inductive, PTL

\* pipeline.py 180, "YAML order breaks ties, so runs are stable".
THEOREM TiesFollowTheYaml == Spec => []YamlBreaksTies
<1>1. ASSUME IInv, Accepted, NEW i \in DOMAIN nodes, NEW j \in DOMAIN nodes,
             i < j, nodes[i].inputs \subseteq nodes[j].inputs
      PROVE  Before(nodes[i].name, nodes[j].name)
  <2>1. nodes[j].name \in Placed
    BY <1>1, AcceptedFacts DEF Names
  <2> QED BY <1>1, <2>1 DEF IInv, Stable
<1>2. IInv => YamlBreaksTies
  BY <1>1 DEF YamlBreaksTies
<1> QED BY <1>2, Inductive, PTL

\* archiver.py 125-134 and pipeline.py 130-131: the definition written back is
\* well formed, and loads to the definition the document loads to.
THEOREM ArchivedConfigLoads == Spec => []ConfigsAgree
<1>1. ASSUME IInv, Accepted
      PROVE  /\ ~Malformed(ToDict)
             /\ NodeSpecs(ToDict) = NodeSpecs(document)
             /\ Text[ToDict.job_id] = Text[document.job_id]
             /\ CacheSpec(ToDict.cache) = CacheSpec(document.cache)
  <2> DEFINE d == document
             raw == d.cache
             C == CacheSpec(raw)
             back == ToDict.cache
  <2>1. /\ d \in Documents /\ ~Malformed(d) /\ nodes = NodeSpecs(d)
        /\ settings.job_id = Text[d.job_id] /\ settings.cache = C
    BY <1>1 DEF IInv, AsWritten, Accepted, Checked, Reached
  <2>2. /\ d.job_id \in DOMAIN Text /\ d.nodes # <<>> /\ ~BadCache(raw)
        /\ \A i \in DOMAIN d.nodes : d.nodes[i].name \in DOMAIN Text /\ d.nodes[i].class # "null"
    BY <2>1, DocumentAssumption DEF Malformed
  <2>3. /\ ToDict.job_id = Text[d.job_id] /\ ToDict.yaml = "mapping"
        /\ ToDict.keys \subseteq {"job_id", "nodes", "cache"}
        /\ back = [form |-> IF C = EmptyMap THEN "null" ELSE "mapping", entries |-> C]
    BY <2>1 DEF ToDict
  <2>4. Text[ToDict.job_id] = Text[d.job_id] /\ ToDict.job_id \notin Falsy
    BY <2>2, <2>3, DocumentAssumption
  <2>5. /\ DOMAIN nodes = DOMAIN d.nodes /\ nodes # <<>>
        /\ \A i \in DOMAIN d.nodes : nodes[i] = NodeSpec(d.nodes[i])
    <3>1. DOMAIN d.nodes = 1 .. Len(d.nodes) /\ Len(d.nodes) \in Nat /\ Len(d.nodes) # 0
      BY <2>1, <2>2, DocumentAssumption
    <3>2. DOMAIN nodes = DOMAIN d.nodes /\ 1 \in DOMAIN nodes
      BY <2>1, <3>1 DEF NodeSpecs
    <3> QED BY <2>1, <3>2 DEF NodeSpecs
  <2>6. /\ DOMAIN ToDict.nodes = DOMAIN d.nodes /\ ToDict.nodes # <<>>
        /\ \A i \in DOMAIN d.nodes :
              /\ NodeSpec(ToDict.nodes[i]) = NodeSpec(d.nodes[i])
              /\ ToDict.nodes[i].name \notin Falsy /\ ToDict.nodes[i].class # "null"
              /\ ToDict.nodes[i].keys = {"params", "inputs"}
    <3> DEFINE ns == ToDict.nodes
    <3>1. ns = [i \in DOMAIN d.nodes |->
                  [keys |-> {"params", "inputs"}, name |-> nodes[i].name,
                   inputs |-> nodes[i].inputs, params |-> nodes[i].params,
                   class |-> nodes[i].class, replaces |-> nodes[i].replaces]]
      BY <2>5 DEF ToDict
    <3> HIDE DEF ns
    <3>2. DOMAIN ns = DOMAIN d.nodes /\ ns # <<>>
      <4>1. \E i : i \in DOMAIN nodes
        <5>1. DOMAIN d.nodes = 1 .. Len(d.nodes) /\ Len(d.nodes) \in Nat /\ Len(d.nodes) # 0
          BY <2>1, <2>2, DocumentAssumption
        <5>2. 1 \in DOMAIN d.nodes
          BY <5>1
        <5> QED BY <2>5, <5>2
      <4>2. DOMAIN ns = DOMAIN d.nodes /\ DOMAIN ns # {}
        BY <2>5, <3>1, <4>1
      <4> QED BY <4>2
    <3>3. ASSUME NEW i \in DOMAIN d.nodes
          PROVE  /\ NodeSpec(ns[i]) = NodeSpec(d.nodes[i])
                 /\ ns[i].name \notin Falsy /\ ns[i].class # "null"
                 /\ ns[i].keys = {"params", "inputs"}
      <4>1. nodes[i] = NodeSpec(d.nodes[i]) /\ d.nodes[i].name \in DOMAIN Text
            /\ d.nodes[i].class # "null"
        BY <2>2, <2>5
      <4> QED BY <3>1, <4>1, DocumentAssumption DEF NodeSpec
    <3> QED BY <3>2, <3>3 DEF ns
  <2>7. NodeSpecs(ToDict) = NodeSpecs(d)
    BY <2>6 DEF NodeSpecs
  <2>8. /\ DOMAIN C \subseteq {"dir", "size_gb"}
        /\ "dir" \in DOMAIN C => C["dir"] \notin Falsy /\ Text[C["dir"]] = C["dir"]
        /\ "size_gb" \in DOMAIN C => /\ C["size_gb"] # "null" /\ C["size_gb"] \in DOMAIN Float
                                     /\ Float[C["size_gb"]] = C["size_gb"]
                                     /\ C["size_gb"] \in Positive
    <3>1. DOMAIN raw.entries \subseteq {"dir", "size_gb"}
      BY <2>1, <2>2, DocumentAssumption DEF BadCache
    <3>2. /\ DOMAIN C = {k \in DOMAIN raw.entries : IF k = "dir" THEN raw.entries[k] \notin Falsy
                                                    ELSE raw.entries[k] # "null"}
          /\ \A k \in DOMAIN C : C[k] = IF k = "dir" THEN Text[raw.entries[k]]
                                        ELSE Float[raw.entries[k]]
      BY DEF CacheSpec
    <3>3. "dir" \in DOMAIN C => raw.entries["dir"] \in DOMAIN Text
      BY <2>1, <3>2, DocumentAssumption
    <3>4. "size_gb" \in DOMAIN C =>
             raw.entries["size_gb"] \in DOMAIN Float /\ Float[raw.entries["size_gb"]] \in Positive
      <4>1. ASSUME "size_gb" \in DOMAIN C
            PROVE  raw.form = "mapping" /\ raw.entries["size_gb"] # "null"
                   /\ "size_gb" \in DOMAIN raw.entries
        <5>1. "size_gb" \in DOMAIN raw.entries /\ raw.entries["size_gb"] # "null"
          BY <3>2, <4>1
        <5>2. raw.form \in {"null", "mapping"}
          BY <2>1, <2>2, DocumentAssumption DEF BadCache
        <5>3. raw.form # "null"
          BY <2>1, <5>1, DocumentAssumption
        <5> QED BY <5>1, <5>2, <5>3
      <4> QED BY <2>2, <4>1 DEF BadCache
    <3> QED BY <3>1, <3>2, <3>3, <3>4, DocumentAssumption
  <2> HIDE DEF C, raw
  <2>9. back.entries = C
    BY <2>3
  <2>10. CacheSpec(back) = C
    <3>1. {k \in DOMAIN C : IF k = "dir" THEN C[k] \notin Falsy ELSE C[k] # "null"} = DOMAIN C
      BY <2>8
    <3>2. CacheSpec(back) = [k \in DOMAIN C |-> IF k = "dir" THEN Text[C[k]] ELSE Float[C[k]]]
      BY <2>9, <3>1 DEF CacheSpec
    <3>3. \A k \in DOMAIN C : C[k] = IF k = "dir" THEN Text[C[k]] ELSE Float[C[k]]
      BY <2>8
    <3>4. C = [k \in DOMAIN C |-> C[k]]
      BY DEF C, CacheSpec
    <3> QED BY <3>2, <3>3, <3>4
  <2>11. ~BadCache(back)
    BY <2>3, <2>8, <2>9 DEF BadCache
  <2>12. ~Malformed(ToDict)
    BY <2>3, <2>4, <2>6, <2>11 DEF Malformed
  <2> QED BY <2>4, <2>7, <2>10, <2>12 DEF C, raw
<1>2. IInv => ConfigsAgree
  BY <1>1 DEF ConfigsAgree
<1> QED BY <1>2, Inductive, PTL

\* _globs_overlap sees every overlap.  Two patterns that match a common key,
\* and neither of which matches the other's text, escape it.
OverlapsAreSeen ==
    \A g, h \in DOMAIN Covers : Covers[g] \cap Covers[h] # {} => GlobsOverlap(g, h)

\* archiver.md 38-47: where _globs_overlap sees every overlap, two nodes of an
\* accepted definition that replace a common key are ordered.
THEOREM ReplacementsAreOrdered ==
    ASSUME OverlapsAreSeen
    PROVE  Spec => []NoParallelReplacement
<1>1. ASSUME IInv, Accepted, NEW i \in Mutators, NEW j \in Mutators,
             NEW g \in nodes[i].replaces, NEW h \in nodes[j].replaces,
             Covers[g] \cap Covers[h] # {}
      PROVE  i = j \/ Ordered(nodes[i].name, nodes[j].name)
  <2>1. ~ReplacementClash /\ nodes = NodeSpecs(document) /\ document \in Documents
    BY <1>1 DEF IInv, Checked, AsWritten, Reached, Accepted
  <2>2. i \in Nat /\ j \in Nat /\ i \in DOMAIN nodes /\ j \in DOMAIN nodes
    BY <1>1 DEF IInv, Checked, Mutators
  <2>3. \A k \in DOMAIN nodes : nodes[k].replaces \subseteq DOMAIN Covers
    BY <2>1, DocumentAssumption DEF NodeSpecs, NodeSpec
  <2>4. GlobsOverlap(g, h) /\ GlobsOverlap(h, g)
    BY <1>1, <2>2, <2>3 DEF OverlapsAreSeen, GlobsOverlap
  <2>5. CASE i < j
    BY <2>1, <2>4, <2>5 DEF ReplacementClash
  <2>6. CASE j < i
    BY <2>1, <2>4, <2>6 DEF ReplacementClash, Ordered
  <2> QED BY <2>2, <2>5, <2>6
<1>2. IInv => NoParallelReplacement
  BY <1>1 DEF NoParallelReplacement
<1> QED BY <1>2, Inductive, PTL
=============================================================================
