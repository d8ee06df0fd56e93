------------------------- MODULE BatchStreamProofs -------------------------
(***************************************************************************)
(* A loader and batch_stream, for any tree, listing, parameters and order  *)
(* of the steps: no batch holds more than batch_size samples and none but  *)
(* the last fewer; every sample and finding that was taken is in its place *)
(* in the stream, in order; the items are those of the lowest media files  *)
(* or directories, each once; and a directory's item has its largest video *)
(* and its sidecar.                                                        *)
(*                                                                         *)
(* What a recursive function (the loop over the listing, the concatenation *)
(* of the batches) holds at n is proved by the least n where it would not. *)
(***************************************************************************)
EXTENDS BatchStream, DataLemmas, SequenceTheorems, FiniteSetTheorems

-----------------------------------------------------------------------------
(* The sizes of the batches *)

\* How many samples make a batch.
Full == IF params.batch_size <= 0 THEN 1 ELSE params.batch_size

\* Batch b is at position i of the stream, and holds what it should.
Sized(b, i) ==
    /\ b.index = i - 1
    /\ b.samples # <<>> \/ b.findings # EmptyMap
    /\ Len(b.samples) = Full \/ (params.batch_size <= 0 /\ Len(b.samples) <= Full)

\* Less than a batch is held; and nothing at all where each item is a batch.
Held ==
    /\ \E S : pending \in Seq(S)
    /\ Len(pending) < Full
    /\ params.batch_size <= 0 => pending = <<>> /\ rext = EmptyMap

IInv ==
    /\ params.batch_size \in Int
    /\ \E S : batches \in Seq(S)
    /\ Held
    /\ \A b \in DOMAIN batches :
          \/ Sized(batches[b], b)
          \/ /\ phase = "done" /\ b = Len(batches)
             /\ batches[b].index = b - 1 /\ Len(batches[b].samples) < Full
             /\ batches[b].samples # <<>> \/ batches[b].findings # EmptyMap

\* The batches after another one is yielded.
LEMMA OneMore ==
    ASSUME NEW S, NEW s \in Seq(S), NEW e
    PROVE  /\ \E T : Append(s, e) \in Seq(T)
           /\ Len(Append(s, e)) = Len(s) + 1 /\ Append(s, e)[Len(s) + 1] = e
           /\ \A i \in 1 .. Len(s) : Append(s, e)[i] = s[i]
           /\ DOMAIN Append(s, e) = 1 .. Len(s) + 1 /\ DOMAIN s = 1 .. Len(s) /\ Len(s) \in Nat
<1> DEFINE T == S \cup {e}
<1>1. s \in Seq(T) /\ e \in T
  OBVIOUS
<1> HIDE DEF T
<1>2. /\ Append(s, e) \in Seq(T)
      /\ Len(Append(s, e)) = Len(s) + 1
      /\ \A i \in 1 .. Len(s) : Append(s, e)[i] = s[i]
      /\ Append(s, e)[Len(s) + 1] = e
  BY <1>1, AppendProperties
<1>3. DOMAIN Append(s, e) = 1 .. Len(s) + 1 /\ DOMAIN s = 1 .. Len(s) /\ Len(s) \in Nat
  BY <1>1, <1>2
<1> QED BY <1>2, <1>3

\* A stream starts with empty hands.
LEMMA InitInv == Init => IInv
BY ParamsAssumption, EmptyDomain DEF Init, IInv, Held, Full, EmptyMap

\* Yielding or holding what the turn has made keeps the sizes.
LEMMA YieldInv ==
    ASSUME IInv, phase = "items", phase' = phase, params' = params,
           NEW samples, NEW findings, YieldIfFull(samples, findings),
           \E S : samples \in Seq(S), Len(samples) <= Full,
           samples # <<>> \/ findings # EmptyMap,
           params.batch_size <= 0 => Len(samples) <= 1
    PROVE  IInv'
<1>1. PICK S : batches \in Seq(S)
  BY DEF IInv
<1>2. params.batch_size \in Int /\ params'.batch_size = params.batch_size /\ Full' = Full
      /\ Len(samples) \in Nat
  BY DEF IInv, Full
<1>3. CASE Len(samples) >= params.batch_size
  <2> DEFINE b == Batch(samples, findings)
  <2>1. batches' = Append(batches, b) /\ pending' = <<>> /\ rext' = EmptyMap
    BY <1>3 DEF YieldIfFull
  <2>2. Held'
    BY <1>2, <2>1 DEF Held, Full
  <2>3. Sized(b, Len(batches) + 1)
    BY <1>1, <1>2, <1>3 DEF Sized, Batch, Full
  <2> HIDE DEF b
  <2>4. /\ \E T : batches' \in Seq(T)
        /\ DOMAIN batches' = 1 .. Len(batches) + 1 /\ DOMAIN batches = 1 .. Len(batches)
        /\ batches'[Len(batches) + 1] = b /\ Len(batches) \in Nat
        /\ \A i \in 1 .. Len(batches) : batches'[i] = batches[i]
    <3> DEFINE more == Append(batches, b)
    <3>1. /\ \E T : more \in Seq(T)
          /\ Len(more) = Len(batches) + 1 /\ more[Len(batches) + 1] = b
          /\ \A i \in 1 .. Len(batches) : more[i] = batches[i]
          /\ DOMAIN more = 1 .. Len(batches) + 1 /\ DOMAIN batches = 1 .. Len(batches)
          /\ Len(batches) \in Nat
      BY <1>1, OneMore
    <3> QED BY <2>1, <3>1
  <2>5. \A i \in DOMAIN batches' : Sized(batches'[i], i)
    BY <2>3, <2>4 DEF IInv
  <2>6. \A i \in DOMAIN batches' : Sized(batches[i], i)'
    BY <1>2, <2>5 DEF Sized
  <2> QED BY <1>2, <2>2, <2>4, <2>6 DEF IInv
<1>4. CASE ~(Len(samples) >= params.batch_size)
  <2>1. batches' = batches /\ pending' = samples /\ rext' = findings
    BY <1>4 DEF YieldIfFull
  <2>2. Held'
    BY <1>2, <1>4, <2>1 DEF Held, Full
  <2> QED BY <1>2, <2>1, <2>2 DEF IInv, Sized
<1> QED BY <1>3, <1>4

\* One turn of the loop keeps the sizes.
LEMMA TakeItemInv == ASSUME IInv, TakeItem PROVE IInv'
<1> DEFINE item == items[taken + 1]
           findings == Override(rext, [i \in {item.id} |-> "error"])
<1>1. phase = "items" /\ phase' = phase /\ params' = params
  BY DEF TakeItem, input
<1>2. PICK S : pending \in Seq(S)
  BY DEF IInv, Held
<1>3. Full \in Nat /\ Full >= 1 /\ params.batch_size \in Int /\ Len(pending) < Full
  BY DEF IInv, Held, Full
<1>4. CASE item.kind = "sample"
  <2> DEFINE more == Append(pending, item)
  <2>1. YieldIfFull(more, rext)
    BY <1>4 DEF TakeItem
  <2> HIDE DEF item
  <2>2. (\E T : more \in Seq(T)) /\ Len(more) = Len(pending) + 1 /\ Len(pending) \in Nat
    BY <1>2, OneMore
  <2>3. Len(more) <= Full /\ more # <<>> /\ (params.batch_size <= 0 => Len(more) <= 1)
    BY <1>3, <2>2 DEF IInv, Held
  <2> HIDE DEF more
  <2> QED BY <1>1, <2>1, <2>2, <2>3, YieldInv
<1>5. CASE item.kind # "sample"
  <2>1. YieldIfFull(pending, findings)
    BY <1>5 DEF TakeItem
  <2>2. findings # EmptyMap
    <3> DEFINE e == [i \in {item.id} |-> "error"]
    <3>1. item.id \in DOMAIN e
      OBVIOUS
    <3> HIDE DEF e
    <3>2. item.id \in DOMAIN Override(rext, e)
      BY <3>1, OverrideDomain
    <3> QED BY <3>2, EmptyDomain DEF e
  <2>3. Len(pending) <= Full /\ (params.batch_size <= 0 => Len(pending) <= 1)
    BY <1>2, <1>3 DEF Full
  <2> HIDE DEF findings
  <2> QED BY <1>1, <1>2, <2>1, <2>2, <2>3, YieldInv
<1> QED BY <1>4, <1>5

\* The stream's last batch may be smaller.
LEMMA TrailingInv == ASSUME IInv, Trailing PROVE IInv'
<1>1. /\ phase = "items" /\ phase' = "done" /\ pending' = <<>> /\ rext' = EmptyMap
      /\ params' = params
  BY DEF Trailing, input
<1>2. params.batch_size \in Int /\ params'.batch_size = params.batch_size /\ Full' = Full
      /\ Full \in Nat /\ Full >= 1 /\ Len(pending) < Full
  BY <1>1 DEF IInv, Held, Full
<1>3. Held'
  BY <1>1, <1>2 DEF Held
<1>4. PICK S : batches \in Seq(S)
  BY DEF IInv
<1>5. CASE pending # <<>> \/ rext # EmptyMap
  <2> DEFINE b == Batch(pending, rext)
  <2>1. batches' = Append(batches, b)
    BY <1>5 DEF Trailing
  <2>2. /\ b.index = Len(batches) /\ Len(b.samples) < Full
        /\ b.samples # <<>> \/ b.findings # EmptyMap
    BY <1>2, <1>5 DEF Batch
  <2> HIDE DEF b
  <2>3. /\ \E T : batches' \in Seq(T)
        /\ DOMAIN batches' = 1 .. Len(batches) + 1 /\ DOMAIN batches = 1 .. Len(batches)
        /\ batches'[Len(batches) + 1] = b /\ Len(batches) \in Nat
        /\ Len(batches') = Len(batches) + 1
        /\ \A i \in 1 .. Len(batches) : batches'[i] = batches[i]
    BY <1>4, <2>1, OneMore
  <2>4. \A i \in DOMAIN batches : Sized(batches[i], i)
    BY <1>1 DEF IInv
  <2>5. \A i \in DOMAIN batches : Sized(batches[i], i)'
    BY <1>2, <2>3, <2>4 DEF Sized
  <2>6. batches'[Len(batches) + 1].index = Len(batches') - 1
    BY <2>2, <2>3
  <2> QED BY <1>1, <1>2, <1>3, <2>2, <2>3, <2>5, <2>6 DEF IInv
<1>6. CASE ~(pending # <<>> \/ rext # EmptyMap)
  <2>1. batches' = batches
    BY <1>6 DEF Trailing
  <2> QED BY <1>1, <1>2, <1>3, <2>1 DEF IInv, Sized
<1> QED BY <1>5, <1>6

\* The stream goes on, or ends, without a batch.
LEMMA SameBatches ==
    ASSUME IInv, UNCHANGED <<params, pending, rext, batches>>, phase' = phase \/ phase # "done"
    PROVE  IInv'
<1>1. Full' = Full /\ Held'
  BY DEF IInv, Held, Full
<1>2. \A b, i : Sized(b, i)' <=> Sized(b, i)
  BY <1>1 DEF Sized
<1> QED BY <1>1, <1>2 DEF IInv

\* Every step keeps the sizes.
LEMMA InductiveStep == ASSUME IInv, [Next]_vars PROVE IInv'
<1>1. CASE List
  BY <1>1, SameBatches DEF List, input
<1>2. CASE Raises
  BY <1>2, SameBatches DEF Raises, input
<1>3. CASE UNCHANGED vars
  BY <1>3, SameBatches DEF vars
<1> QED BY <1>1, <1>2, <1>3, TakeItemInv, TrailingInv DEF Next

LEMMA Inductive == Spec => []IInv
BY InitInv, InductiveStep, PTL DEF Spec

\* flat_dir.py 29 and kernel.py 88-103: a batch is never larger than
\* batch_size, and only the last one of a stream that was not cut off is
\* smaller; with 0 or less each item is a batch.
THEOREM BatchesAreSized == Spec => []BatchesAreFull
<1>1. IInv => BatchesAreFull
  BY DEF IInv, Held, Sized, Full, BatchesAreFull
<1> QED BY <1>1, Inductive, PTL

-----------------------------------------------------------------------------
(* Order by rank *)

\* The numbers of S that come before i.
Earlier(S, keys, i) == {j \in S : Before(keys, j, i)}

\* A number that comes earlier has a lower rank, and no rank exceeds what there
\* is.
LEMMA Ranks ==
    ASSUME NEW S, S \subseteq Int, IsFiniteSet(S), NEW keys, \A i \in S : keys[i] \in Int
    PROVE  /\ \A i \in S : Cardinality(Earlier(S, keys, i)) \in 0 .. Cardinality(S) - 1
           /\ \A i, j \in S : Before(keys, i, j) =>
                 Cardinality(Earlier(S, keys, i)) < Cardinality(Earlier(S, keys, j))
           /\ \A i, j \in S : i # j => Before(keys, i, j) \/ Before(keys, j, i)
<1>1. \A i \in S : IsFiniteSet(Earlier(S, keys, i)) /\ Cardinality(Earlier(S, keys, i)) \in Nat
  <2>1. \A i \in S : Earlier(S, keys, i) \in SUBSET S
    BY DEF Earlier
  <2>2. \A i \in S : IsFiniteSet(Earlier(S, keys, i))
    BY <2>1, FS_Subset
  <2> QED BY <2>2, FS_CardinalityType
<1>2. \A R, T, i : IsFiniteSet(T) /\ R \subseteq T /\ i \in T \ R =>
                       Cardinality(R) < Cardinality(T) /\ Cardinality(T) \in Nat
  <2> SUFFICES ASSUME NEW R, NEW T, NEW i, IsFiniteSet(T), R \subseteq T, i \in T \ R
               PROVE  Cardinality(R) < Cardinality(T) /\ Cardinality(T) \in Nat
    OBVIOUS
  <2>1. R \in SUBSET (T \ {i}) /\ i \in T
    OBVIOUS
  <2>2. IsFiniteSet(T \ {i}) /\ Cardinality(T \ {i}) = Cardinality(T) - 1
    BY <2>1, FS_RemoveElement
  <2>3. Cardinality(R) <= Cardinality(T \ {i}) /\ IsFiniteSet(R)
    BY <2>1, <2>2, FS_Subset
  <2>4. Cardinality(T) \in Nat /\ Cardinality(R) \in Nat
    BY <2>3, FS_CardinalityType
  <2> QED BY <2>2, <2>3, <2>4
<1>3. ASSUME NEW i \in S
      PROVE  Cardinality(Earlier(S, keys, i)) \in 0 .. Cardinality(S) - 1
  <2>1. Earlier(S, keys, i) \subseteq S /\ i \in S \ Earlier(S, keys, i)
    BY DEF Earlier, Before
  <2>2. Cardinality(Earlier(S, keys, i)) < Cardinality(S) /\ Cardinality(S) \in Nat
    BY <1>2, <2>1
  <2> QED BY <1>1, <2>2
<1>4. ASSUME NEW i \in S, NEW j \in S, Before(keys, i, j)
      PROVE  Cardinality(Earlier(S, keys, i)) < Cardinality(Earlier(S, keys, j))
  <2>1. i \in Earlier(S, keys, j) \ Earlier(S, keys, i)
    BY <1>4 DEF Earlier, Before
  <2>2. \A k \in S : Before(keys, k, i) => Before(keys, k, j)
    <3>1. ASSUME NEW k \in S, Before(keys, k, i) PROVE Before(keys, k, j)
      <4>1. keys[k] \in Int /\ keys[i] \in Int /\ keys[j] \in Int
            /\ k \in Int /\ i \in Int /\ j \in Int
        OBVIOUS
      <4> QED BY <1>4, <3>1, <4>1 DEF Before
    <3> QED BY <3>1
  <2>3. Earlier(S, keys, i) \subseteq Earlier(S, keys, j)
    BY <2>2 DEF Earlier
  <2> QED BY <1>1, <1>2, <2>1, <2>3
<1>5. \A i, j \in S : i # j => Before(keys, i, j) \/ Before(keys, j, i)
  BY DEF Before
<1> QED BY <1>3, <1>4, <1>5

\* q has every number of S once, in order, at its rank.
IsAscending(q, S, keys) ==
    /\ q \in [1 .. Cardinality(S) -> S]
    /\ \A a, b \in 1 .. Cardinality(S) : a < b => Before(keys, q[a], q[b])
    /\ \A a, b \in 1 .. Cardinality(S) : a # b => q[a] # q[b]
    /\ \A i \in S : /\ Cardinality(Earlier(S, keys, i)) + 1 \in 1 .. Cardinality(S)
                    /\ q[Cardinality(Earlier(S, keys, i)) + 1] = i

\* The sort is one.
LEMMA AscendingIs ==
    ASSUME NEW S, S \subseteq Int, IsFiniteSet(S), NEW keys, \A i \in S : keys[i] \in Int
    PROVE  Cardinality(S) \in Nat /\ IsAscending(Ascending(S, keys), S, keys)
<1> DEFINE N == Cardinality(S)
           rank(i) == Cardinality(Earlier(S, keys, i))
           q == Ascending(S, keys)
<1>1. N \in Nat
  BY FS_CardinalityType
<1>2. /\ \A i \in S : rank(i) \in 0 .. N - 1
      /\ \A i, j \in S : Before(keys, i, j) => rank(i) < rank(j)
      /\ \A i, j \in S : i # j => Before(keys, i, j) \/ Before(keys, j, i)
  BY Ranks
<1>3. q = [n \in 1 .. N |-> CHOOSE i \in S : rank(i) = n - 1]
  BY DEF Ascending, Earlier
<1> HIDE DEF q, rank
<1>4. \A i, j \in S : i # j => rank(i) # rank(j)
  <2>1. \A i \in S : rank(i) \in Int
    BY <1>1, <1>2
  <2> QED BY <1>2, <2>1
<1>5. \A n \in 1 .. N : \E i \in S : rank(i) = n - 1
  <2> DEFINE r == [i \in S |-> rank(i) + 1]
  <2>1. r \in Injection(S, 1 .. N)
    <3>1. \A i \in S : rank(i) + 1 \in 1 .. N
      BY <1>1, <1>2
    <3>2. r \in [S -> 1 .. N]
      BY <3>1
    <3>3. \A i, j \in S : r[i] = r[j] => i = j
      BY <1>1, <1>2, <1>4
    <3> QED BY <3>2, <3>3 DEF Injection, IsInjective
  <2>2. IsFiniteSet(1 .. N) /\ Cardinality(1 .. N) = N
    BY <1>1, FS_Interval
  <2>3. r \in Surjection(S, 1 .. N)
    BY <2>1, <2>2, FS_Injection
  <2>4. \A n \in 1 .. N : \E i \in S : r[i] = n
    BY <2>3 DEF Surjection
  <2>5. \A i \in S : r[i] = rank(i) + 1 /\ rank(i) \in Int
    BY <1>1, <1>2
  <2> HIDE DEF r
  <2> QED BY <1>1, <2>4, <2>5
<1>6. \A n \in 1 .. N : q[n] \in S /\ rank(q[n]) = n - 1
  BY <1>3, <1>5
<1>7. q \in [1 .. N -> S]
  BY <1>3, <1>5
<1>8. \A i \in S : rank(i) + 1 \in 1 .. N /\ q[rank(i) + 1] = i
  <2> SUFFICES ASSUME NEW i \in S PROVE rank(i) + 1 \in 1 .. N /\ q[rank(i) + 1] = i
    OBVIOUS
  <2>1. rank(i) + 1 \in 1 .. N /\ rank(i) \in Int
    BY <1>1, <1>2
  <2>2. rank(q[rank(i) + 1]) = rank(i) /\ q[rank(i) + 1] \in S
    BY <1>6, <2>1
  <2> QED BY <1>4, <2>1, <2>2
<1>9. ASSUME NEW a \in 1 .. N, NEW b \in 1 .. N, a < b
      PROVE  Before(keys, q[a], q[b]) /\ q[a] # q[b]
  <2>1. q[a] \in S /\ q[b] \in S /\ rank(q[a]) = a - 1 /\ rank(q[b]) = b - 1
    BY <1>6
  <2>2. ~ (rank(q[b]) < rank(q[a])) /\ rank(q[a]) # rank(q[b])
    BY <1>1, <1>9, <2>1
  <2> QED BY <1>2, <2>1, <2>2
<1>10. \A a, b \in 1 .. N : a # b => q[a] # q[b]
  <2>1. \A a, b \in 1 .. N : a # b => a < b \/ b < a
    BY <1>1
  <2> QED BY <1>9, <2>1
<1>11. IsAscending(q, S, keys)
  BY <1>7, <1>8, <1>9, <1>10 DEF IsAscending, rank
<1> QED BY <1>1, <1>11 DEF q

\* The positions of a set, from the first to the last.
LEMMA InOrderIs ==
    ASSUME NEW I, I \subseteq Int, IsFiniteSet(I)
    PROVE  /\ Cardinality(I) \in Nat
           /\ InOrder(I) \in [1 .. Cardinality(I) -> I]
           /\ \A a, b \in 1 .. Cardinality(I) : a < b => InOrder(I)[a] < InOrder(I)[b]
           /\ \A a, b \in 1 .. Cardinality(I) : a # b => InOrder(I)[a] # InOrder(I)[b]
           /\ \A i \in I : \E n \in 1 .. Cardinality(I) : InOrder(I)[n] = i
           /\ \A i \in I : /\ Cardinality({j \in I : j < i}) + 1 \in 1 .. Cardinality(I)
                           /\ InOrder(I)[Cardinality({j \in I : j < i}) + 1] = i
<1> DEFINE keys == [i \in I |-> i]
           q == Ascending(I, keys)
<1>1. \A i \in I : keys[i] \in Int
  OBVIOUS
<1>2. \A i, j \in I : Before(keys, i, j) <=> i < j
  BY DEF Before
<1>3. \A i \in I : Earlier(I, keys, i) = {j \in I : j < i}
  BY <1>2 DEF Earlier
<1>4. InOrder(I) = q
  BY DEF InOrder
<1> HIDE DEF keys
<1>5. Cardinality(I) \in Nat /\ IsAscending(q, I, keys)
  BY <1>1, AscendingIs
<1> HIDE DEF q
<1>6. /\ Cardinality(I) \in Nat
      /\ q \in [1 .. Cardinality(I) -> I]
      /\ \A a, b \in 1 .. Cardinality(I) : a < b => Before(keys, q[a], q[b])
      /\ \A a, b \in 1 .. Cardinality(I) : a # b => q[a] # q[b]
      /\ \A i \in I : /\ Cardinality(Earlier(I, keys, i)) + 1 \in 1 .. Cardinality(I)
                      /\ q[Cardinality(Earlier(I, keys, i)) + 1] = i
  BY <1>5 DEF IsAscending
<1>7. \A a, b \in 1 .. Cardinality(I) : a < b => q[a] < q[b]
  BY <1>2, <1>6
<1> QED BY <1>3, <1>4, <1>6, <1>7

\* a has the elements of s at the positions I, in order.
Lists(a, s, I) ==
    /\ Len(a) = Cardinality(I)
    /\ \A n \in 1 .. Cardinality(I) : a[n] = s[InOrder(I)[n]]

\* The elements at the positions I.
LEMMA AtIs ==
    ASSUME NEW T, NEW s \in Seq(T), NEW I, I \subseteq DOMAIN s, IsFiniteSet(I)
    PROVE  At(s, I) \in Seq(T) /\ Lists(At(s, I), s, I)
<1> DEFINE q == InOrder(I)
           N == Cardinality(I)
           a == At(s, I)
<1>1. N \in Nat /\ q \in [1 .. N -> I]
  <2>1. I \subseteq Int
    OBVIOUS
  <2> QED BY <2>1, InOrderIs
<1>2. a = [n \in DOMAIN q |-> s[q[n]]]
  BY DEF At
<1> HIDE DEF q, N, a
<1>3. a = [n \in 1 .. N |-> s[q[n]]]
  BY <1>1, <1>2
<1>4. \A n \in 1 .. N : a[n] = s[q[n]]
  BY <1>3
<1>5. a \in [1 .. N -> T]
  BY <1>1, <1>3
<1>6. a \in Seq(T) /\ Len(a) = N
  BY <1>1, <1>5
<1> QED BY <1>1, <1>4, <1>6 DEF q, N, a, Lists

\* One position more, after all the others.
LEMMA AtAppend ==
    ASSUME NEW T, NEW s \in Seq(T), NEW I, I \subseteq DOMAIN s, IsFiniteSet(I),
           NEW m \in DOMAIN s, \A i \in I : i < m,
           NEW J, J = I \cup {m}
    PROVE  At(s, J) = Append(At(s, I), s[m]) /\ Cardinality(J) = Cardinality(I) + 1
<1> DEFINE N == Cardinality(I)
<1>1. /\ N \in Nat /\ IsFiniteSet(J) /\ Cardinality(J) = N + 1 /\ J \subseteq DOMAIN s
      /\ J \subseteq Int /\ I \subseteq Int /\ m \in Int
  <2>1. m \in Int /\ I \subseteq Int /\ m \notin I
    OBVIOUS
  <2>2. N \in Nat /\ IsFiniteSet(J) /\ Cardinality(J) = N + 1
    BY <2>1, FS_AddElement, FS_CardinalityType
  <2> QED BY <2>1, <2>2
<1>2. ASSUME NEW n \in 1 .. N PROVE InOrder(J)[n] = InOrder(I)[n]
  <2> DEFINE i == InOrder(I)[n]
  <2>1. i \in I /\ \A k \in I : \E a \in 1 .. N : InOrder(I)[a] = k
    BY <1>1, InOrderIs
  <2>2. {j \in J : j < i} = {j \in I : j < i}
    <3> HIDE DEF i
    <3>1. i \in Int /\ i < m
      BY <1>1, <2>1
    <3>2. ~(m < i)
      BY <1>1, <3>1
    <3> QED BY <3>1, <3>2
  <2>3. Cardinality({j \in I : j < i}) + 1 = n
    <3>1. /\ Cardinality({j \in I : j < i}) + 1 \in 1 .. N
          /\ InOrder(I)[Cardinality({j \in I : j < i}) + 1] = i
      BY <1>1, <2>1, InOrderIs
    <3>2. \A a \in 1 .. N : a # n => InOrder(I)[a] # i
      BY <1>1, InOrderIs
    <3> QED BY <3>1, <3>2
  <2>4. i \in J /\ InOrder(J)[Cardinality({j \in J : j < i}) + 1] = i
    BY <1>1, <2>1, InOrderIs
  <2> QED BY <2>2, <2>3, <2>4
<1>3. InOrder(J)[N + 1] = m
  <2>1. {j \in J : j < m} = I /\ m \in J
    <3>1. ~(m < m)
      BY <1>1
    <3> QED BY <3>1
  <2>2. InOrder(J)[Cardinality({j \in J : j < m}) + 1] = m
    BY <1>1, <2>1, InOrderIs
  <2> QED BY <2>1, <2>2
<1> DEFINE a == At(s, I)
           b == At(s, J)
<1>4. a \in Seq(T) /\ Lists(a, s, I) /\ b \in Seq(T) /\ Lists(b, s, J)
  BY <1>1, AtIs
<1> HIDE DEF a, b
<1>5. Len(a) = N /\ \A n \in 1 .. N : a[n] = s[InOrder(I)[n]]
  BY <1>4 DEF Lists
<1> HIDE DEF N
<1>6. Len(b) = N + 1 /\ \A n \in 1 .. N + 1 : b[n] = s[InOrder(J)[n]]
  BY <1>1, <1>4 DEF Lists
<1>7. b[N + 1] = s[m] /\ \A n \in 1 .. N : b[n] = a[n]
  <2>1. N + 1 \in 1 .. N + 1 /\ \A n \in 1 .. N : n \in 1 .. N + 1
    BY <1>1
  <2>2. ASSUME NEW n \in 1 .. N PROVE b[n] = a[n]
    <3>1. InOrder(J)[n] = InOrder(I)[n] /\ n \in 1 .. N + 1
      BY <1>2, <2>1 DEF N
    <3>2. a[n] = s[InOrder(I)[n]] /\ b[n] = s[InOrder(J)[n]]
      BY <1>5, <1>6, <3>1
    <3> QED BY <3>1, <3>2
  <2> QED BY <1>3, <1>6, <2>1, <2>2
<1>8. b = Append(a, s[m])
  <2> DEFINE e == s[m]
  <2>1. b[N + 1] = e
    BY <1>7
  <2>2. e \in T
    BY DEF e
  <2> HIDE DEF e
  <2> DEFINE c == Append(a, e)
  <2>3. /\ c \in Seq(T) /\ Len(c) = N + 1 /\ c[N + 1] = e
        /\ \A i \in 1 .. N : c[i] = a[i]
    BY <1>4, <1>5, <2>2, AppendProperties
  <2> HIDE DEF c
  <2>4. \A i \in 1 .. N + 1 : b[i] = c[i]
    BY <1>1, <1>7, <2>1, <2>3
  <2>5. b = c
    BY <1>4, <1>6, <2>3, <2>4, SeqEqual
  <2> QED BY <2>5 DEF e, c
<1> QED BY <1>1, <1>8 DEF a, b, N

-----------------------------------------------------------------------------
(* The batches' samples, one after the other *)

\* What FlattenSeq computes on the way.
Flattens(f, ss, n) ==
    f = [i \in 1 .. n |-> IF i = 1 THEN ss[i] ELSE f[i - 1] \o ss[i]]

\* Its value at i, from the one before.
LEMMA FlattensAt ==
    ASSUME NEW f, NEW ss, NEW n \in Nat, Flattens(f, ss, n), NEW i \in 1 .. n
    PROVE  f[i] = IF i = 1 THEN ss[i] ELSE f[i - 1] \o ss[i]
BY DEF Flattens

\* FlattenSeq is the last value of such a function.
LEMMA Flattened ==
    ASSUME NEW ss
    PROVE  FlattenSeq(ss) = IF Len(ss) = 0 THEN ss
                            ELSE (CHOOSE f : Flattens(f, ss, Len(ss)))[Len(ss)]
BY DEF FlattenSeq, Flattens

\* There is such a function: the least n without one would extend the one before.
LEMMA FlattensDefined ==
    ASSUME NEW ss, NEW n \in Nat
    PROVE  \E f : Flattens(f, ss, n)
<1> DEFINE Bad == {m \in Nat : ~ \E f : Flattens(f, ss, m)}
<1>1. Bad = {}
  <2> SUFFICES ASSUME Bad # {} PROVE FALSE
    OBVIOUS
  <2>1. PICK m \in Bad : \A k \in Bad : m <= k
    <3>1. Bad \subseteq Nat
      OBVIOUS
    <3> QED BY <3>1, LeastPosition
  <2>2. m \in Nat /\ ~ \E f : Flattens(f, ss, m)
    BY <2>1
  <2>3. CASE m = 0
    <3>1. Flattens([i \in 1 .. 0 |-> 0], ss, 0)
      <4>1. 1 .. 0 = {}
        OBVIOUS
      <4> QED BY <4>1 DEF Flattens
    <3> QED BY <2>2, <2>3, <3>1
  <2>4. CASE m # 0
    <3>1. m - 1 \in Nat /\ ~(m <= m - 1)
      BY <2>2, <2>4
    <3>2. PICK g : Flattens(g, ss, m - 1)
      BY <2>1, <3>1
    <3> DEFINE f == [i \in 1 .. m |-> IF i = 1 THEN ss[i] ELSE g[i - 1] \o ss[i]]
    <3>3. \A i \in 1 .. m - 1 : f[i] = g[i]
      BY <2>2, <3>1, <3>2, FlattensAt
    <3>4. \A i \in 1 .. m : i # 1 => i - 1 \in 1 .. m - 1
      BY <2>2
    <3>5. Flattens(f, ss, m)
      BY <3>3, <3>4 DEF Flattens
    <3> QED BY <2>2, <3>5
  <2> QED BY <2>3, <2>4
<1> QED BY <1>1

\* One batch more: its samples come last.
LEMMA FlattenAppend ==
    ASSUME NEW T, NEW ss \in Seq(Seq(T)), NEW s \in Seq(T)
    PROVE  /\ FlattenSeq(Append(ss, s)) = FlattenSeq(ss) \o s
           /\ FlattenSeq(ss) \in Seq(T)
<1> DEFINE n == Len(ss)
           tt == Append(ss, s)
<1>1. /\ n \in Nat /\ Len(tt) = n + 1 /\ tt[n + 1] = s
      /\ \A i \in 1 .. n : tt[i] = ss[i] /\ ss[i] \in Seq(T)
  OBVIOUS
<1>2. PICK g : Flattens(g, tt, n + 1) /\ FlattenSeq(tt) = g[n + 1]
  <2> DEFINE h == CHOOSE h : Flattens(h, tt, n + 1)
  <2>1. Flattens(h, tt, n + 1)
    <3>1. n + 1 \in Nat
      BY <1>1
    <3> HIDE DEF n, tt
    <3> QED BY <3>1, FlattensDefined
  <2>2. FlattenSeq(tt) = h[n + 1]
    <3>1. Len(tt) # 0 /\ Len(tt) = n + 1
      BY <1>1
    <3> HIDE DEF n, tt
    <3> QED BY <3>1, Flattened
  <2> QED BY <2>1, <2>2
<1>3. CASE n = 0
  <2>1. ss = <<>> /\ FlattenSeq(ss) = ss
    BY <1>3 DEF FlattenSeq
  <2>2. g[1] = s
    BY <1>1, <1>2, <1>3, FlattensAt
  <2>3. <<>> \o s = s /\ <<>> \in Seq(T)
    OBVIOUS
  <2>4. FlattenSeq(tt) = s
    <3>1. n + 1 = 1
      BY <1>3
    <3> HIDE DEF n, tt
    <3> QED BY <1>2, <2>2, <3>1
  <2> QED BY <2>1, <2>3, <2>4
<1>4. CASE n # 0
  <2>1. PICK f : Flattens(f, ss, n) /\ FlattenSeq(ss) = f[n]
    <3> DEFINE h == CHOOSE h : Flattens(h, ss, n)
    <3>1. Flattens(h, ss, n)
      BY <1>1, FlattensDefined
    <3>2. FlattenSeq(ss) = h[n]
      BY <1>4, Flattened
    <3> QED BY <3>1, <3>2
  <2> HIDE DEF tt
  <2> DEFINE Bad == {i \in 1 .. n : ~(f[i] = g[i] /\ f[i] \in Seq(T))}
  <2>2. Bad = {}
    <3> SUFFICES ASSUME Bad # {} PROVE FALSE
      OBVIOUS
    <3>1. PICK i \in Bad : \A j \in Bad : i <= j
      <4>1. Bad \subseteq Nat
        BY <1>1
      <4> QED BY <4>1, LeastPosition
    <3> HIDE DEF n
    <3>2. i \in 1 .. n /\ i \in 1 .. n + 1 /\ ~(f[i] = g[i] /\ f[i] \in Seq(T))
      BY <1>1, <3>1
    <3>3. /\ f[i] = IF i = 1 THEN ss[i] ELSE f[i - 1] \o ss[i]
          /\ g[i] = IF i = 1 THEN tt[i] ELSE g[i - 1] \o tt[i]
      <4>1. n + 1 \in Nat
        BY <1>1
      <4>2. f[i] = IF i = 1 THEN ss[i] ELSE f[i - 1] \o ss[i]
        BY <1>1, <2>1, <3>2, FlattensAt
      <4>3. g[i] = IF i = 1 THEN tt[i] ELSE g[i - 1] \o tt[i]
        BY <1>2, <3>2, <4>1, FlattensAt
      <4> QED BY <4>2, <4>3
    <3>4. CASE i = 1
      BY <1>1, <3>2, <3>3, <3>4
    <3>5. CASE i # 1
      <4>1. i - 1 \in 1 .. n /\ ~(i <= i - 1)
        BY <1>1, <3>2, <3>5
      <4>2. f[i - 1] = g[i - 1] /\ f[i - 1] \in Seq(T)
        BY <3>1, <4>1
      <4>3. ss[i] \in Seq(T) /\ tt[i] = ss[i]
        BY <1>1, <3>2
      <4>4. f[i - 1] \o ss[i] \in Seq(T)
        BY <4>2, <4>3
      <4> QED BY <3>2, <3>3, <3>5, <4>2, <4>3, <4>4
    <3> QED BY <3>4, <3>5
  <2> HIDE DEF n
  <2>3. f[n] = g[n] /\ f[n] \in Seq(T)
    BY <1>1, <1>4, <2>2
  <2>4. g[n + 1] = g[n] \o s
    <3>1. n + 1 \in Nat /\ n + 1 \in 1 .. n + 1 /\ n + 1 # 1 /\ (n + 1) - 1 = n
      BY <1>1, <1>4
    <3>2. g[n + 1] = g[(n + 1) - 1] \o tt[n + 1]
      BY <1>2, <3>1, FlattensAt
    <3> QED BY <1>1, <3>1, <3>2
  <2> QED BY <1>2, <2>1, <2>3, <2>4 DEF tt
<1> QED BY <1>3, <1>4

-----------------------------------------------------------------------------
(* Listings *)

Sz(t, f) == IF t[f] = NoSize THEN 0 ELSE t[f]

Entry == [name : Files, size : Nat]

\* e lists each of the files F once, with its size.
IsListing(e, F, t) ==
    /\ e \in Seq(Entry)
    /\ \A i \in DOMAIN e : e[i].name \in F /\ e[i].size = Sz(t, e[i].name)
    /\ \A i, j \in DOMAIN e : i # j => e[i].name # e[j].name
    /\ \A f \in F : \E i \in DOMAIN e : e[i].name = f

\* q enumerates the positions I.
Enumerates(q, n, I) ==
    /\ n \in Nat /\ q \in [1 .. n -> I]
    /\ \A a, b \in 1 .. n : a # b => q[a] # q[b]
    /\ \A i \in I : \E a \in 1 .. n : q[a] = i

\* a has the elements of s at each of the positions I.
Picks(a, s, I) ==
    \E q : Enumerates(q, Len(a), I) /\ \A n \in DOMAIN a : a[n] = s[q[n]]

\* What is left of a sequence when some positions are picked.
LEMMA Picked ==
    ASSUME NEW T, NEW s \in Seq(T), NEW I, I \subseteq DOMAIN s
    PROVE  At(s, I) \in Seq(T) /\ Picks(At(s, I), s, I)
<1>1. Len(s) \in Nat /\ DOMAIN s = 1 .. Len(s)
  OBVIOUS
<1>2. IsFiniteSet(DOMAIN s)
  BY <1>1, FS_Interval
<1>3. IsFiniteSet(I) /\ I \subseteq Int
  BY <1>1, <1>2, FS_Subset
<1> DEFINE q == InOrder(I)
           a == At(s, I)
           N == Cardinality(I)
<1>4. a \in Seq(T) /\ Lists(a, s, I)
  BY <1>3, AtIs
<1>5. Enumerates(q, N, I)
  BY <1>3, InOrderIs DEF Enumerates
<1> HIDE DEF q, a
<1>6. Len(a) = N /\ \A n \in 1 .. N : a[n] = s[q[n]]
  BY <1>4 DEF Lists, q
<1> HIDE DEF N
<1>7. Enumerates(q, Len(a), I) /\ \A n \in DOMAIN a : a[n] = s[q[n]]
  BY <1>4, <1>5, <1>6
<1>8. Picks(a, s, I)
  BY <1>7 DEF Picks
<1> QED BY <1>4, <1>8 DEF a

\* Names and sizes of what is a file.
LEMMA ListFilesIs ==
    ASSUME NEW t, NEW F, F \subseteq Files, F \subseteq DOMAIN t,
           \A f \in F : t[f] \in Nat \/ t[f] = NoSize,
           NEW T, NEW l \in Seq(T),
           \A i \in DOMAIN l : l[i].type = "file" =>
              l[i].name \in F /\ l[i].size = t[l[i].name],
           \A i, j \in DOMAIN l :
              i # j /\ l[i].type = "file" /\ l[j].type = "file" => l[i].name # l[j].name,
           \A f \in F : \E i \in DOMAIN l : l[i].type = "file" /\ l[i].name = f
    PROVE  IsListing(ListFiles(l), F, t)
<1> DEFINE I == {i \in DOMAIN l : l[i].type = "file"}
           a == At(l, I)
           e == ListFiles(l)
<1>1. a \in Seq(T) /\ Picks(a, l, I)
  BY Picked
<1>2. e = [n \in DOMAIN a |-> [name |-> a[n].name,
                               size |-> IF a[n].size = NoSize THEN 0 ELSE a[n].size]]
  BY DEF ListFiles
<1> HIDE DEF a, e
<1>3. PICK q : Enumerates(q, Len(a), I) /\ \A n \in DOMAIN a : a[n] = l[q[n]]
  BY <1>1 DEF Picks
<1>4. \A i \in I : l[i].name \in F /\ l[i].size = t[l[i].name] /\ i \in DOMAIN l
  OBVIOUS
<1>5. \A i, j \in I : i # j => l[i].name # l[j].name
  OBVIOUS
<1>6. \A f \in F : \E i \in I : l[i].name = f
  OBVIOUS
<1> HIDE DEF I
<1>7. DOMAIN a = 1 .. Len(a) /\ Len(a) \in Nat /\ DOMAIN e = DOMAIN a
  BY <1>1, <1>2
<1>8. \A n \in DOMAIN a : q[n] \in I
  BY <1>3, <1>7 DEF Enumerates
<1>9. ASSUME NEW n \in DOMAIN a
      PROVE  /\ e[n].name = l[q[n]].name /\ e[n].name \in F /\ e[n].size = Sz(t, e[n].name)
             /\ e[n] \in Entry
  <2> DEFINE f == l[q[n]].name
             z == IF t[f] = NoSize THEN 0 ELSE t[f]
  <2>1. a[n] = l[q[n]] /\ q[n] \in I
    BY <1>3, <1>8
  <2>2. f \in F /\ l[q[n]].size = t[f]
    BY <1>4, <2>1
  <2>3. a[n].name = f /\ a[n].size = t[f]
    BY <2>1, <2>2
  <2> HIDE DEF f
  <2>4. e[n] = [name |-> f, size |-> z]
    BY <1>2, <2>3
  <2>5. z \in Nat /\ f \in Files /\ z = Sz(t, f)
    BY <2>2 DEF NoSize, Sz
  <2> HIDE DEF z
  <2>6. e[n] \in Entry /\ e[n].name = f /\ e[n].size = z
    BY <2>4, <2>5 DEF Entry
  <2> QED BY <2>2, <2>5, <2>6 DEF f
<1>10. e \in Seq(Entry)
  <2>1. e \in [1 .. Len(a) -> Entry]
    BY <1>2, <1>7, <1>9
  <2> QED BY <1>7, <2>1
<1>11. \A i, j \in DOMAIN e : i # j => e[i].name # e[j].name
  <2> SUFFICES ASSUME NEW i \in DOMAIN a, NEW j \in DOMAIN a, i # j
               PROVE  e[i].name # e[j].name
    BY <1>7
  <2>1. q[i] # q[j] /\ q[i] \in I /\ q[j] \in I
    BY <1>3, <1>7, <1>8 DEF Enumerates
  <2> QED BY <1>5, <1>9, <2>1
<1>12. \A f \in F : \E i \in DOMAIN e : e[i].name = f
  <2> SUFFICES ASSUME NEW f \in F PROVE \E i \in DOMAIN a : e[i].name = f
    BY <1>7
  <2>1. PICK i \in I : l[i].name = f
    BY <1>6
  <2>2. PICK n \in DOMAIN a : q[n] = i
    BY <1>3, <1>7 DEF Enumerates
  <2> QED BY <1>9, <2>1, <2>2
<1> QED BY <1>7, <1>9, <1>10, <1>11, <1>12 DEF IsListing, e

\* find and ls: every file in reach, once.
LEMMA ListingIs ==
    ASSUME NEW t \in Trees, NEW recursive \in BOOLEAN, NEW l \in Listings(t, recursive)
    PROVE  IsListing(ListFiles(l), {f \in DOMAIN t : recursive \/ Dir[f] = Top}, t)
<1> DEFINE F == {f \in DOMAIN t : recursive \/ Dir[f] = Top}
<1>1. /\ DOMAIN t \subseteq Files /\ IsFiniteSet(DOMAIN t)
      /\ \A f \in DOMAIN t : t[f] \in Nat \/ t[f] = NoSize
      /\ Files \subseteq Int
  BY ParamsAssumption, FilesAssumption
<1>2. F \subseteq DOMAIN t /\ F \subseteq Files /\ \A f \in F : t[f] \in Nat \/ t[f] = NoSize
  BY <1>1
<1>3. CASE recursive
  <2> DEFINE q == InOrder(DOMAIN t)
             N == Cardinality(DOMAIN t)
             T == {FileEntry(t, f) : f \in DOMAIN t}
  <2>1. /\ N \in Nat /\ q \in [1 .. N -> DOMAIN t]
        /\ \A a, b \in 1 .. N : a # b => q[a] # q[b]
        /\ \A f \in DOMAIN t : \E n \in 1 .. N : q[n] = f
    <3>1. DOMAIN t \subseteq Int
      BY <1>1
    <3> QED BY <1>1, <3>1, InOrderIs
  <2>2. l = [i \in DOMAIN q |-> FileEntry(t, q[i])]
    BY <1>3 DEF Listings
  <2> HIDE DEF q, N
  <2>3. DOMAIN l = 1 .. N /\ \A i \in 1 .. N : l[i] = FileEntry(t, q[i]) /\ q[i] \in DOMAIN t
    BY <2>1, <2>2
  <2>4. l \in Seq(T)
    <3>1. l \in [1 .. N -> T]
      BY <2>1, <2>2
    <3> QED BY <2>1, <3>1
  <2>5. F = DOMAIN t
    BY <1>3
  <2>6. \A i \in DOMAIN l : /\ l[i].name = q[i] /\ l[i].name \in F /\ l[i].size = t[l[i].name]
                            /\ l[i].type = "file"
    BY <2>3, <2>5 DEF FileEntry
  <2>7. \A i, j \in DOMAIN l : i # j => l[i].name # l[j].name
    BY <2>1, <2>3, <2>6
  <2>8. \A f \in F : \E i \in DOMAIN l : l[i].type = "file" /\ l[i].name = f
    BY <2>1, <2>3, <2>5, <2>6
  <2> HIDE DEF F, T
  <2>9. IsListing(ListFiles(l), F, t)
    BY <1>2, <2>4, <2>6, <2>7, <2>8, ListFilesIs
  <2> QED BY <2>9 DEF F
<1>4. CASE ~recursive
  <2> DEFINE D == IF \E f \in DOMAIN t : Dir[f] # Top THEN {Subdirectories} ELSE {}
             E == {FileEntry(t, f) : f \in {f \in DOMAIN t : Dir[f] = Top}}
             S == E \cup D
             N == Cardinality(S)
  <2>1. F = {f \in DOMAIN t : Dir[f] = Top}
    BY <1>4
  <2>2. l \in [1 .. N -> S] /\ \A i, j \in 1 .. N : i # j => l[i] # l[j]
    BY <1>4 DEF Listings, SetToSeqs
  <2>3. E = {FileEntry(t, f) : f \in F}
    BY <2>1
  <2>4. \A e \in S : e.type = "file" =>
           e.name \in F /\ e = FileEntry(t, e.name) /\ e.size = t[e.name]
    <3>1. \A e \in D : e.type # "file"
      BY DEF Subdirectories
    <3> HIDE DEF D, F
    <3>2. \A e \in E : e.name \in F /\ e = FileEntry(t, e.name) /\ e.size = t[e.name]
      BY <2>3 DEF FileEntry
    <3> HIDE DEF E
    <3> QED BY <3>1, <3>2
  <2>5. IsFiniteSet(S)
    <3>1. IsFiniteSet(F)
      BY <1>1, <1>2, FS_Subset
    <3>2. [f \in F |-> FileEntry(t, f)] \in Surjection(F, E)
      BY <2>3 DEF Surjection
    <3> HIDE DEF E, F
    <3>3. IsFiniteSet(E)
      BY <3>1, <3>2, FS_Surjection
    <3>4. IsFiniteSet(E \cup {Subdirectories})
      BY <3>3, FS_AddElement
    <3> QED BY <3>3, <3>4
  <2>6. \A f \in F : FileEntry(t, f) \in S /\ FileEntry(t, f).type = "file" /\ FileEntry(t, f).name = f
    <3> HIDE DEF F, D
    <3> QED BY <2>3 DEF FileEntry
  <2> HIDE DEF S, F
  <2>7. N \in Nat
    BY <2>5, FS_CardinalityType
  <2>8. \A e \in S : \E i \in 1 .. N : l[i] = e
    <3>1. l \in Injection(1 .. N, S)
      BY <2>2 DEF Injection, IsInjective
    <3>2. Cardinality(1 .. N) = N
      BY <2>7, FS_Interval
    <3> HIDE DEF N
    <3>3. l \in Surjection(1 .. N, S)
      BY <2>5, <3>1, <3>2, FS_Injection DEF N
    <3> QED BY <3>3 DEF Surjection
  <2> HIDE DEF N
  <2>9. l \in Seq(S) /\ DOMAIN l = 1 .. N /\ \A i \in 1 .. N : l[i] \in S
    BY <2>2, <2>7
  <2>10. \A i \in DOMAIN l : l[i].type = "file" => l[i].name \in F /\ l[i].size = t[l[i].name]
    BY <2>4, <2>9
  <2>11. \A i, j \in DOMAIN l :
            i # j /\ l[i].type = "file" /\ l[j].type = "file" => l[i].name # l[j].name
    BY <2>2, <2>4, <2>9
  <2>12. \A f \in F : \E i \in DOMAIN l : l[i].type = "file" /\ l[i].name = f
    BY <2>6, <2>8, <2>9
  <2>13. IsListing(ListFiles(l), F, t)
    <3>1. F \subseteq DOMAIN t /\ F \subseteq Files /\ \A f \in F : t[f] \in Nat \/ t[f] = NoSize
      BY <1>2
    <3> QED BY <3>1, <2>9, <2>10, <2>11, <2>12, ListFilesIs
  <2> QED BY <2>13 DEF F
<1> QED BY <1>3, <1>4

\* The media files among them.
LEMMA MediaIs ==
    ASSUME NEW e, NEW F, NEW t, IsListing(e, F, t)
    PROVE  IsListing(Media(e), {f \in F : Ext[f] = "video"}, t)
<1> DEFINE I == {i \in DOMAIN e : Ext[e[i].name] = "video"}
           V == {f \in F : Ext[f] = "video"}
           a == At(e, I)
<1>1. e \in Seq(Entry)
  BY DEF IsListing
<1>2. a \in Seq(Entry) /\ Picks(a, e, I)
  BY <1>1, Picked
<1> HIDE DEF a
<1>3. PICK q : Enumerates(q, Len(a), I) /\ \A n \in DOMAIN a : a[n] = e[q[n]]
  BY <1>2 DEF Picks
<1>4. DOMAIN a = 1 .. Len(a)
  BY <1>2
<1>5. \A n \in DOMAIN a : q[n] \in I /\ a[n] = e[q[n]]
  BY <1>3, <1>4 DEF Enumerates
<1>6. \A i \in I : i \in DOMAIN e /\ e[i].name \in V /\ e[i].size = Sz(t, e[i].name)
  BY DEF IsListing
<1>7. \A f \in V : \E i \in I : e[i].name = f
  BY DEF IsListing
<1>8. \A i, j \in I : i # j => e[i].name # e[j].name
  BY DEF IsListing
<1> HIDE DEF I, V
<1>9. \A n \in DOMAIN a : a[n].name \in V /\ a[n].size = Sz(t, a[n].name)
  BY <1>5, <1>6
<1>10. \A n, m \in DOMAIN a : n # m => a[n].name # a[m].name
  <2>1. \A n, m \in DOMAIN a : n # m => q[n] # q[m]
    BY <1>3, <1>4 DEF Enumerates
  <2> QED BY <1>5, <1>8, <2>1
<1>11. \A f \in V : \E n \in DOMAIN a : a[n].name = f
  <2> SUFFICES ASSUME NEW f \in V PROVE \E n \in DOMAIN a : a[n].name = f
    OBVIOUS
  <2>1. PICK i \in I : e[i].name = f
    BY <1>7
  <2>2. PICK n \in DOMAIN a : q[n] = i
    BY <1>3, <1>4 DEF Enumerates
  <2> QED BY <1>5, <2>1, <2>2
<1>12. IsListing(a, V, t)
  BY <1>2, <1>9, <1>10, <1>11 DEF IsListing
<1>13. Media(e) = a
  BY DEF Media, a, I
<1> QED BY <1>12, <1>13 DEF V

-----------------------------------------------------------------------------
(* What is chosen of a sequence *)

\* A slice keeps no more than there is.
LEMMA KeptIs ==
    ASSUME NEW n \in Nat, NEW max, max = NoMax \/ max \in Int
    PROVE  Kept(n, max) \in 0 .. n
<1>1. CASE max = NoMax
  BY <1>1 DEF Kept
<1>2. CASE max # NoMax /\ max >= 0
  <2> DEFINE S == {n, max}
  <2>1. \E x \in S : \A y \in S : x <= y
    <3>1. CASE n <= max
      BY <1>2, <3>1
    <3>2. CASE max <= n
      BY <1>2, <3>2
    <3> QED BY <1>2, <3>1, <3>2
  <2>2. Min(S) \in S /\ \A y \in S : Min(S) <= y
    BY <2>1 DEF Min
  <2>3. Min(S) \in 0 .. n
    BY <1>2, <2>2
  <2> QED BY <1>2, <2>3 DEF Kept
<1>3. CASE max # NoMax /\ max < 0
  <2> DEFINE S == {0, n + max}
  <2>0. n + max \in Int /\ n + max <= n
    BY <1>3
  <2>1. \E x \in S : \A y \in S : y <= x
    <3>1. CASE n + max <= 0
      BY <2>0, <3>1
    <3>2. CASE 0 <= n + max
      BY <2>0, <3>2
    <3> QED BY <2>0, <3>1, <3>2
  <2>2. Max(S) \in S /\ \A y \in S : y <= Max(S)
    BY <2>1 DEF Max
  <2>3. Max(S) \in 0 .. n
    BY <2>0, <2>2
  <2>4. ~(max >= 0)
    BY <1>3
  <2> QED BY <1>3, <2>3, <2>4 DEF Kept
<1> QED BY <1>1, <1>2, <1>3

\* p puts the numbers up to n in the order of keys.
Sorts(p, n, keys) ==
    /\ p \in [1 .. n -> 1 .. n]
    /\ \A a, b \in 1 .. n : a < b => keys[p[a]] <= keys[p[b]]
    /\ \A a, b \in 1 .. n : a # b => p[a] # p[b]
    /\ \A i \in 1 .. n : \E a \in 1 .. n : p[a] = i

\* c is the first k of s in the order of keys.
Lowest(c, k, s, keys) ==
    \E p : Sorts(p, Len(s), keys) /\ \A a \in 1 .. k : c[a] = s[p[a]]

\* The first of the sorted: what both loaders take of what they found.
LEMMA ChosenIs ==
    ASSUME NEW T, NEW s \in Seq(T), NEW keys, \A i \in DOMAIN s : keys[i] \in Int,
           NEW max, max = NoMax \/ max \in Int,
           NEW k, k = Kept(Len(s), max), NEW c, c = Cut(SortedBy(s, keys), max)
    PROVE  /\ c \in Seq(T) /\ Len(c) = k /\ k \in 0 .. Len(s)
           /\ Lowest(c, k, s, keys)
<1> DEFINE n == Len(s)
           p == Ascending(DOMAIN s, keys)
           a == SortedBy(s, keys)
<1>1. n \in Nat /\ DOMAIN s = 1 .. n
  OBVIOUS
<1>2. IsFiniteSet(DOMAIN s) /\ Cardinality(DOMAIN s) = n /\ DOMAIN s \subseteq Int
  <2> HIDE DEF n
  <2>1. IsFiniteSet(1 .. n) /\ Cardinality(1 .. n) = n
    BY <1>1, FS_Interval
  <2> QED BY <1>1, <2>1
<1>3. /\ p \in [1 .. n -> 1 .. n]
      /\ \A x, y \in 1 .. n : x < y => Before(keys, p[x], p[y])
      /\ \A x, y \in 1 .. n : x # y => p[x] # p[y]
      /\ \A i \in 1 .. n : \E x \in 1 .. n : p[x] = i
  <2> DEFINE D == DOMAIN s
             N == Cardinality(D)
             q == Ascending(D, keys)
  <2>1. IsFiniteSet(D) /\ D \subseteq Int /\ \A i \in D : keys[i] \in Int
    BY <1>2
  <2> HIDE DEF D
  <2>2. IsAscending(q, D, keys)
    BY <2>1, AscendingIs
  <2> HIDE DEF q
  <2>3. /\ q \in [1 .. N -> D]
        /\ \A x, y \in 1 .. N : x < y => Before(keys, q[x], q[y])
        /\ \A x, y \in 1 .. N : x # y => q[x] # q[y]
        /\ \A i \in D :
              /\ Cardinality(Earlier(D, keys, i)) + 1 \in 1 .. N
              /\ q[Cardinality(Earlier(D, keys, i)) + 1] = i
    BY <2>2 DEF IsAscending
  <2>4. \A i \in D : \E x \in 1 .. N : q[x] = i
    BY <2>3
  <2>5. N = n /\ D = 1 .. n /\ p = q
    BY <1>1, <1>2 DEF D, q
  <2> HIDE DEF p, N, n
  <2> QED BY <2>3, <2>4, <2>5
<1>4. a = [i \in 1 .. n |-> s[p[i]]]
  BY <1>1 DEF SortedBy
<1> HIDE DEF p, a
<1>5. Sorts(p, n, keys)
  <2>1. ASSUME NEW x \in 1 .. n, NEW y \in 1 .. n, x < y PROVE keys[p[x]] <= keys[p[y]]
    <3>1. Before(keys, p[x], p[y]) /\ keys[p[x]] \in Int /\ keys[p[y]] \in Int
      BY <1>1, <1>3, <2>1
    <3> QED BY <3>1 DEF Before
  <2> QED BY <1>3, <2>1 DEF Sorts
<1>6. \A i \in 1 .. n : a[i] = s[p[i]] /\ a[i] \in T
  <2>1. \A i \in 1 .. n : p[i] \in DOMAIN s
    BY <1>1, <1>3
  <2>2. \A i \in DOMAIN s : s[i] \in T
    OBVIOUS
  <2> HIDE DEF n
  <2>3. \A i \in 1 .. n : a[i] = s[p[i]]
    BY <1>4
  <2> QED BY <2>1, <2>2, <2>3
<1>7. Len(a) = n
  BY <1>1, <1>4
<1>8. k \in 0 .. n
  BY <1>1, KeptIs
<1>9. c = [i \in 1 .. k |-> a[i]]
  BY <1>7 DEF Cut, a
<1> HIDE DEF n
<1>10. \A i \in 1 .. k : i \in 1 .. n
  BY <1>1, <1>8
<1>11. c \in [1 .. k -> T] /\ \A i \in 1 .. k : c[i] = s[p[i]]
  BY <1>6, <1>9, <1>10
<1>12. c \in Seq(T) /\ Len(c) = k
  <2>1. k \in Nat
    BY <1>1, <1>8
  <2> QED BY <1>11, <2>1
<1>13. Lowest(c, k, s, keys)
  BY <1>5, <1>11 DEF Lowest, n
<1> QED BY <1>8, <1>12, <1>13 DEF n

Elements(its) == {its[i] : i \in DOMAIN its}

\* Samples, and findings that say no more than an id.
AreItems(its) ==
    /\ its \in Seq(Elements(its))
    /\ \A i \in DOMAIN its : its[i].kind # "sample" => its[i] = Finding(its[i].id)

\* What a loader promises of its items, of the things W to answer.
Answers(its, W, max) ==
    /\ Len(its) = LET all == Cardinality(W) IN
                  IF max = NoMax THEN all
                  ELSE IF max >= 0 THEN Min({max, all}) ELSE Max({0, all + max})
    /\ \E key \in [DOMAIN its -> W] :
          /\ \A i, j \in DOMAIN its : i < j => key[i] # key[j] /\ key[i].key <= key[j].key
          /\ \A i \in DOMAIN its : its[i].id = key[i].id
          /\ \A w \in W \ {key[i] : i \in DOMAIN its} :
                \A i \in DOMAIN its : key[i].key <= w.key

\* w numbers the things of W, with the keys they are sorted by.
Numbers(w, n, W, keys) ==
    /\ w \in [1 .. n -> W]
    /\ \A i, j \in 1 .. n : i # j => w[i] # w[j]
    /\ \A x \in W : \E i \in 1 .. n : w[i] = x
    /\ \A i \in 1 .. n : keys[i] \in Int /\ w[i].key = keys[i]

\* There are k items, each for the thing it is numbered.
Items(its, k, w, p) ==
    /\ DOMAIN its = 1 .. k /\ Len(its) = k
    /\ \A i \in DOMAIN its : its[i].id = w[p[i]].id

\* The items of the first elements, where w numbers the things to answer.
LEMMA LowestAnswer ==
    ASSUME NEW n \in Nat, NEW W, NEW w, NEW keys, Numbers(w, n, W, keys),
           NEW max, max = NoMax \/ max \in Int,
           NEW p, Sorts(p, n, keys),
           NEW k, k = Kept(n, max), NEW its, Items(its, k, w, p)
    PROVE  Answers(its, W, max)
<1>1. /\ w \in [1 .. n -> W]
      /\ \A i, j \in 1 .. n : i # j => w[i] # w[j]
      /\ \A x \in W : \E i \in 1 .. n : w[i] = x
      /\ \A i \in 1 .. n : keys[i] \in Int /\ w[i].key = keys[i]
  BY DEF Numbers
<1>2. /\ DOMAIN its = 1 .. k /\ Len(its) = k
      /\ \A i \in DOMAIN its : its[i].id = w[p[i]].id
  BY DEF Items
<1>3. k \in 0 .. n
  BY KeptIs
<1>4. Cardinality(W) = n
  <2>1. w \in Bijection(1 .. n, W)
    BY <1>1 DEF Bijection, Injection, IsInjective, Surjection
  <2>2. ExistsBijection(1 .. n, W)
    BY <2>1 DEF ExistsBijection
  <2> QED BY <2>2, FS_CountingElements
<1>5. Len(its) = LET all == Cardinality(W) IN
                 IF max = NoMax THEN all
                 ELSE IF max >= 0 THEN Min({max, all}) ELSE Max({0, all + max})
  <2>1. {max, n} = {n, max}
    OBVIOUS
  <2> QED BY <1>2, <1>4, <2>1 DEF Kept
<1>6. \A i \in DOMAIN its : i \in 1 .. n
  BY <1>2, <1>3
<1> DEFINE key == [i \in DOMAIN its |-> w[p[i]]]
<1>7. \A i \in DOMAIN its : p[i] \in 1 .. n /\ key[i] = w[p[i]] /\ key[i] \in W
  BY <1>1, <1>6 DEF Sorts
<1>8. key \in [DOMAIN its -> W]
  BY <1>7
<1> HIDE DEF key
<1>9. ASSUME NEW i \in DOMAIN its, NEW j \in DOMAIN its, i < j
      PROVE  key[i] # key[j] /\ key[i].key <= key[j].key
  <2>1. i \in 1 .. n /\ j \in 1 .. n /\ i # j
    BY <1>6, <1>9
  <2>2. p[i] # p[j] /\ keys[p[i]] <= keys[p[j]]
    BY <1>9, <2>1 DEF Sorts
  <2> QED BY <1>1, <1>6, <1>7, <2>2
<1>10. \A i \in DOMAIN its : its[i].id = key[i].id
  BY <1>2, <1>7
<1>11. ASSUME NEW x \in W \ {key[i] : i \in DOMAIN its}, NEW i \in DOMAIN its
      PROVE  key[i].key <= x.key
  <2>1. PICK m \in 1 .. n : w[m] = x
    BY <1>1
  <2>2. PICK a \in 1 .. n : p[a] = m
    BY DEF Sorts
  <2>3. a \notin DOMAIN its
    <3>1. \A j \in DOMAIN its : key[j] # x
      BY <1>11
    <3> QED BY <1>7, <2>1, <2>2, <3>1
  <2>4. i < a /\ i \in 1 .. n
    BY <1>2, <1>3, <1>6, <2>3
  <2>5. keys[p[i]] <= keys[p[a]]
    BY <2>4 DEF Sorts
  <2> QED BY <1>1, <1>6, <1>7, <2>1, <2>2, <2>5
<1> QED BY <1>5, <1>8, <1>9, <1>10, <1>11 DEF Answers

-----------------------------------------------------------------------------
(* FlatDirLoader *)

\* Files, directories and sizes are numbers.
LEMMA TreeTypes ==
    ASSUME NEW t \in Trees
    PROVE  /\ DOMAIN t \subseteq Files /\ Files \subseteq Nat \ {0}
           /\ \A f \in DOMAIN t : Sz(t, f) \in Nat
           /\ \A f \in Files : Dir[f] \in DOMAIN Basename
           /\ DOMAIN Basename \subseteq Nat
           /\ IsFiniteSet(DOMAIN t)
BY ParamsAssumption, FilesAssumption DEF Sz, NoSize

FlatKeys(media, order) ==
    [i \in DOMAIN media |-> IF order = "size" THEN media[i].size ELSE media[i].name]

FlatWanted(F, t, order) ==
    {[id |-> FlatId(f), key |-> IF order = "size" THEN Sz(t, f) ELSE f, of |-> f] : f \in F}

\* The files chosen, the items made of them, and that they are the lowest.
LEMMA FlatAnswers ==
    ASSUME NEW t \in Trees, NEW F, F \subseteq DOMAIN t,
           NEW e, IsListing(Media(e), F, t), NEW order,
           NEW max, max = NoMax \/ max \in Int,
           NEW its, its = FlatItems(e, order, max)
    PROVE  Answers(its, FlatWanted(F, t, order), max) /\ AreItems(its)
<1> DEFINE media == Media(e)
           keys == FlatKeys(media, order)
           c == Cut(SortedBy(media, keys), max)
           n == Len(media)
           k == Kept(n, max)
           W == FlatWanted(F, t, order)
           item(x) == IF x.size = 0 THEN Finding(FlatId(x.name))
                      ELSE SampleOf(FlatId(x.name), x.name, NoFile)
           thing(f) == [id |-> FlatId(f), key |-> IF order = "size" THEN Sz(t, f) ELSE f,
                        of |-> f]
<1>1. its = [i \in DOMAIN c |-> item(c[i])]
  BY DEF FlatItems, FlatChosen, FlatKeys
<1> HIDE DEF media, c
<1>2. /\ media \in Seq(Entry)
      /\ \A i \in DOMAIN media : media[i].name \in F /\ media[i].size = Sz(t, media[i].name)
      /\ \A i, j \in DOMAIN media : i # j => media[i].name # media[j].name
      /\ \A f \in F : \E i \in DOMAIN media : media[i].name = f
  BY DEF IsListing, media
<1>3. DOMAIN media = 1 .. n /\ n \in Nat
  BY <1>2
<1>4. \A f \in F : f \in Int /\ Sz(t, f) \in Int
  BY TreeTypes
<1>5. \A i \in DOMAIN media : keys[i] \in Int /\ keys[i] = thing(media[i].name).key
  <2> SUFFICES ASSUME NEW i \in DOMAIN media
               PROVE  keys[i] \in Int /\ keys[i] = thing(media[i].name).key
    OBVIOUS
  <2>1. keys[i] = IF order = "size" THEN media[i].size ELSE media[i].name
    BY DEF FlatKeys
  <2>2. media[i].name \in F /\ media[i].size = Sz(t, media[i].name)
    BY <1>2
  <2> QED BY <1>4, <2>1, <2>2
<1> HIDE DEF keys, k, n
<1>6. /\ c \in Seq(Entry) /\ Len(c) = k /\ k \in 0 .. n
      /\ Lowest(c, k, media, keys)
  BY <1>2, <1>5, ChosenIs DEF c, k, n
<1>7. PICK p : Sorts(p, n, keys) /\ \A a \in 1 .. k : c[a] = media[p[a]]
  BY <1>6 DEF Lowest, n
<1>8. DOMAIN its = 1 .. k /\ Len(its) = k /\ its \in Seq({its[i] : i \in DOMAIN its})
  <2>1. DOMAIN c = 1 .. k /\ k \in Nat
    BY <1>3, <1>6
  <2> HIDE DEF item
  <2>2. DOMAIN its = 1 .. k
    BY <1>1, <2>1
  <2>3. its \in [1 .. k -> {its[i] : i \in DOMAIN its}]
    BY <1>1, <2>1, <2>2
  <2> QED BY <2>1, <2>2, <2>3
<1>9. \A i \in DOMAIN its : /\ its[i].id = FlatId(c[i].name)
                            /\ its[i].kind # "sample" => its[i] = Finding(its[i].id)
  <2> SUFFICES ASSUME NEW i \in DOMAIN its
               PROVE  /\ its[i].id = FlatId(c[i].name)
                      /\ its[i].kind # "sample" => its[i] = Finding(its[i].id)
    OBVIOUS
  <2>1. its[i] = item(c[i])
    BY <1>1
  <2> QED BY <2>1 DEF Finding, SampleOf
<1> DEFINE w == [i \in 1 .. n |-> thing(media[i].name)]
<1>10. W = {thing(f) : f \in F}
  BY DEF FlatWanted
<1>11. \A f, g \in F : f # g => thing(f) # thing(g)
  <2>1. \A f \in F : thing(f).of = f
    OBVIOUS
  <2> HIDE DEF thing
  <2> QED BY <2>1
<1>12. \A f \in F : thing(f).id = FlatId(f)
  OBVIOUS
<1> HIDE DEF thing, W
<1>13. /\ w \in [1 .. n -> W]
       /\ \A i, j \in 1 .. n : i # j => w[i] # w[j]
       /\ \A x \in W : \E i \in 1 .. n : w[i] = x
  <2>1. \A i \in 1 .. n : media[i].name \in F /\ w[i] = thing(media[i].name)
    BY <1>2, <1>3
  <2>2. w \in [1 .. n -> W]
    BY <1>10, <2>1
  <2> HIDE DEF w
  <2>3. \A i, j \in 1 .. n : i # j => w[i] # w[j]
    BY <1>2, <1>3, <1>11, <2>1
  <2>4. \A x \in W : \E i \in 1 .. n : w[i] = x
    BY <1>2, <1>3, <1>10, <2>1
  <2> QED BY <2>2, <2>3, <2>4
<1>14. \A i \in 1 .. n : keys[i] \in Int /\ w[i].key = keys[i] /\ w[i].id = FlatId(media[i].name)
  BY <1>2, <1>3, <1>5, <1>12
<1> HIDE DEF w, item
<1>15. \A i \in DOMAIN its : its[i].id = w[p[i]].id
  <2> SUFFICES ASSUME NEW i \in 1 .. k PROVE its[i].id = w[p[i]].id
    BY <1>8
  <2>1. i \in 1 .. n
    BY <1>3, <1>6
  <2>2. p[i] \in 1 .. n
    BY <1>7, <2>1 DEF Sorts
  <2> QED BY <1>7, <1>8, <1>9, <1>14, <2>2
<1>16. Answers(its, W, max)
  <2>1. Numbers(w, n, W, keys)
    BY <1>13, <1>14 DEF Numbers
  <2>2. Items(its, k, w, p)
    BY <1>8, <1>15 DEF Items
  <2>3. k = Kept(n, max)
    BY DEF k
  <2> QED BY <1>3, <1>7, <2>1, <2>2, <2>3, LowestAnswer
<1>17. AreItems(its)
  BY <1>8, <1>9 DEF AreItems, Elements
<1> QED BY <1>16, <1>17 DEF W

-----------------------------------------------------------------------------
(* _group_by_directory *)

\* No two directories that hold samples have one name.
NamesAreUnique ==
    \A c, d \in DOMAIN Basename \ {Top} : Basename[c] = Basename[d] => c = d

Group == [id : {Basename[d] : d \in DOMAIN Basename}, dir : DOMAIN Basename,
          video : Files \cup {NoFile}, video_size : Nat, json : Files \cup {NoFile}]

\* r has the largest video of its directory, and the sidecar, of n entries.
Describes(r, e, n) ==
    /\ r \in Group /\ r.id = Basename[r.dir] /\ r.dir # Top
    /\ \A m \in 1 .. n : Dir[e[m].name] = r.dir /\ Ext[e[m].name] = "video" =>
          e[m].size <= r.video_size
    /\ r.video = NoFile => r.video_size = 0
    /\ r.video # NoFile => \E m \in 1 .. n :
          /\ e[m].name = r.video /\ Dir[e[m].name] = r.dir /\ Ext[e[m].name] = "video"
          /\ e[m].size = r.video_size /\ r.video_size > 0
    /\ r.json # NoFile => \E m \in 1 .. n :
          e[m].name = r.json /\ Dir[e[m].name] = r.dir /\ Ext[e[m].name] = "json"
    /\ \A m \in 1 .. n : Dir[e[m].name] = r.dir /\ Ext[e[m].name] = "json" =>
          r.json # NoFile

\* The groups of n entries: one for each of their directories.
Groups(g, e, n) ==
    /\ g \in Seq(Group)
    /\ \A i \in DOMAIN g : /\ Describes(g[i], e, n)
                           /\ \E m \in 1 .. n : Dir[e[m].name] = g[i].dir
    /\ \A i, j \in DOMAIN g : i # j => g[i].dir # g[j].dir
    /\ \A m \in 1 .. n : Dir[e[m].name] # Top => \E i \in DOMAIN g : g[i].dir = Dir[e[m].name]

\* i is the position of the group of a name, 0 if there is none.
IsPlace(i, g, name) ==
    i = LET I == {j \in 1 .. Len(g) : g[j].id = name} IN IF I # {} THEN Min(I) ELSE 0

\* Where a name is found, or that it is not.
LEMMA PlaceOf ==
    ASSUME NEW g, Len(g) \in Nat, NEW name, NEW i,
           IsPlace(i, g, name)
    PROVE  \/ i = 0 /\ \A j \in 1 .. Len(g) : g[j].id # name
           \/ i \in 1 .. Len(g) /\ g[i].id = name
<1> DEFINE I == {j \in 1 .. Len(g) : g[j].id = name}
<1>1. i = IF I # {} THEN Min(I) ELSE 0
  BY DEF IsPlace
<1>2. CASE I = {}
  BY <1>1, <1>2
<1>3. CASE I # {}
  <2>1. I \subseteq Nat
    OBVIOUS
  <2>2. PICK j \in I : \A k \in I : j <= k
    BY <1>3, <2>1, LeastPosition
  <2>3. Min(I) \in I
    BY <2>2 DEF Min
  <2> QED BY <1>1, <1>3, <2>3
<1> QED BY <1>2, <1>3

\* One entry more, of the group's own directory.
LEMMA GroupWithDescribes ==
    ASSUME NEW e \in Seq(Entry), NEW n \in Nat, n + 1 \in DOMAIN e,
           NEW r, Describes(r, e, n), Dir[e[n + 1].name] = r.dir
    PROVE  Describes(GroupWith(r, e[n + 1]), e, n + 1)
<1> DEFINE x == e[n + 1]
<1>1. x.name \in Files /\ x.size \in Nat /\ NoFile \notin Files
      /\ Ext[x.name] \in {"video", "json", "other"}
  <2>1. x \in Entry
    OBVIOUS
  <2> HIDE DEF x
  <2> QED BY <2>1, FilesAssumption DEF Entry
<1>2. 1 .. n + 1 = 1 .. n \cup {n + 1}
  OBVIOUS
<1>3. r \in Group
  BY DEF Describes
<1>4. CASE Ext[x.name] = "video" /\ x.size > r.video_size
  <2> DEFINE q == [r EXCEPT !.video = x.name, !.video_size = x.size]
  <2>1. GroupWith(r, x) = q
    BY <1>4 DEF GroupWith
  <2> HIDE DEF x
  <2>2. /\ q \in Group /\ q.id = r.id /\ q.dir = r.dir /\ q.json = r.json
        /\ q.video = x.name /\ q.video_size = x.size
    BY <1>1, <1>3 DEF Group
  <2> HIDE DEF q
  <2>3. r.video_size \in Nat
    BY <1>3 DEF Group
  <2>4. ASSUME NEW m \in 1 .. n + 1, Dir[e[m].name] = q.dir, Ext[e[m].name] = "video"
        PROVE  e[m].size <= q.video_size
    <3>1. CASE m \in 1 .. n
      <4>1. e[m].size <= r.video_size /\ e[m].size \in Nat
        <5>1. e[m] \in Entry
          BY <3>1
        <5>2. e[m].size <= r.video_size
          BY <2>2, <2>4, <3>1 DEF Describes
        <5> QED BY <5>1, <5>2 DEF Entry
      <4> QED BY <1>1, <1>4, <2>2, <2>3, <4>1
    <3>2. CASE m = n + 1
      BY <1>1, <2>2, <3>2 DEF x
    <3> QED BY <1>2, <3>1, <3>2
  <2>5. \E m \in 1 .. n + 1 :
          /\ e[m].name = q.video /\ Dir[e[m].name] = q.dir /\ Ext[e[m].name] = "video"
          /\ e[m].size = q.video_size /\ q.video_size > 0
    <3>1. n + 1 \in 1 .. n + 1 /\ x.size > 0
      BY <1>1, <1>4, <2>3
    <3> QED BY <1>4, <2>2, <3>1 DEF x
  <2>6. q.video # NoFile
    BY <1>1, <2>2
  <2>7. q.json # NoFile => \E m \in 1 .. n + 1 :
          e[m].name = q.json /\ Dir[e[m].name] = q.dir /\ Ext[e[m].name] = "json"
    BY <1>2, <2>2 DEF Describes
  <2>8. ASSUME NEW m \in 1 .. n + 1, Dir[e[m].name] = q.dir, Ext[e[m].name] = "json"
        PROVE  q.json # NoFile
    <3>1. m # n + 1
      BY <1>4, <2>8 DEF x
    <3> QED BY <1>2, <2>2, <2>8, <3>1 DEF Describes
  <2>9. q.id = Basename[q.dir] /\ q.dir # Top
    BY <2>2 DEF Describes
  <2>10. Describes(q, e, n + 1)
    BY <2>2, <2>4, <2>5, <2>6, <2>7, <2>8, <2>9 DEF Describes
  <2> QED BY <2>1, <2>10 DEF x
<1>5. CASE ~(Ext[x.name] = "video" /\ x.size > r.video_size) /\ Ext[x.name] = "json"
  <2> DEFINE q == [r EXCEPT !.json = x.name]
  <2>1. GroupWith(r, x) = q
    BY <1>5 DEF GroupWith
  <2> HIDE DEF x
  <2>2. /\ q \in Group /\ q.id = r.id /\ q.dir = r.dir /\ q.json = x.name
        /\ q.video = r.video /\ q.video_size = r.video_size
    BY <1>1, <1>3 DEF Group
  <2> HIDE DEF q
  <2>3. ASSUME NEW m \in 1 .. n + 1, Dir[e[m].name] = q.dir, Ext[e[m].name] = "video"
        PROVE  e[m].size <= q.video_size
    <3>1. m # n + 1
      BY <1>5, <2>3 DEF x
    <3> QED BY <1>2, <2>2, <2>3, <3>1 DEF Describes
  <2>4. q.video = NoFile => q.video_size = 0
    BY <2>2 DEF Describes
  <2>5. q.video # NoFile => \E m \in 1 .. n + 1 :
          /\ e[m].name = q.video /\ Dir[e[m].name] = q.dir /\ Ext[e[m].name] = "video"
          /\ e[m].size = q.video_size /\ q.video_size > 0
    BY <1>2, <2>2 DEF Describes
  <2>6. q.json # NoFile
    BY <1>1, <2>2
  <2>7. \E m \in 1 .. n + 1 :
          e[m].name = q.json /\ Dir[e[m].name] = q.dir /\ Ext[e[m].name] = "json"
    <3>1. n + 1 \in 1 .. n + 1
      OBVIOUS
    <3> QED BY <1>5, <2>2, <3>1 DEF x
  <2>8. q.id = Basename[q.dir] /\ q.dir # Top
    BY <2>2 DEF Describes
  <2>9. Describes(q, e, n + 1)
    BY <2>2, <2>3, <2>4, <2>5, <2>6, <2>7, <2>8 DEF Describes
  <2> QED BY <2>1, <2>9 DEF x
<1>6. CASE ~(Ext[x.name] = "video" /\ x.size > r.video_size) /\ Ext[x.name] # "json"
  <2>1. GroupWith(r, x) = r
    BY <1>6 DEF GroupWith
  <2>2. ASSUME NEW m \in 1 .. n + 1, Dir[e[m].name] = r.dir, Ext[e[m].name] = "video"
        PROVE  e[m].size <= r.video_size
    <3>1. CASE m = n + 1
      <4>1. r.video_size \in Nat
        BY <1>3 DEF Group
      <4>2. ~(x.size > r.video_size)
        BY <1>6, <2>2, <3>1
      <4>3. x.size <= r.video_size
        BY <1>1, <4>1, <4>2
      <4> QED BY <3>1, <4>3
    <3> QED BY <1>2, <2>2, <3>1 DEF Describes
  <2>3. ASSUME NEW m \in 1 .. n + 1, Dir[e[m].name] = r.dir, Ext[e[m].name] = "json"
        PROVE  r.json # NoFile
    <3>1. m # n + 1
      BY <1>6, <2>3
    <3> QED BY <1>2, <2>3, <3>1 DEF Describes
  <2>4. Describes(r, e, n + 1)
    BY <1>2, <2>2, <2>3 DEF Describes
  <2> QED BY <2>1, <2>4
<1> QED BY <1>4, <1>5, <1>6

\* One entry more, of another directory.
LEMMA StillDescribes ==
    ASSUME NEW e, NEW n \in Nat, NEW r, Describes(r, e, n), Dir[e[n + 1].name] # r.dir
    PROVE  Describes(r, e, n + 1)
<1>1. 1 .. n + 1 = 1 .. n \cup {n + 1}
  OBVIOUS
<1> QED BY <1>1 DEF Describes

\* A group before the first of its files.
LEMMA NewDescribes ==
    ASSUME NEW e, NEW n \in Nat, NEW d \in DOMAIN Basename, d # Top,
           \A m \in 1 .. n : Dir[e[m].name] # d
    PROVE  Describes(NewGroup(d), e, n) /\ NewGroup(d).dir = d
<1> DEFINE r == NewGroup(d)
<1>1. /\ r \in Group /\ r.id = Basename[d] /\ r.dir = d /\ r.video = NoFile
      /\ r.video_size = 0 /\ r.json = NoFile
  BY DEF NewGroup, Group
<1> HIDE DEF r
<1>2. Describes(r, e, n) /\ r.dir = d
  BY <1>1 DEF Describes
<1> QED BY <1>2 DEF r

\* groups.setdefault and what follows it: one turn of the loop.
LEMMA AddKeepsGroups ==
    ASSUME NamesAreUnique, NEW e \in Seq(Entry), NEW n \in Nat, n + 1 \in DOMAIN e,
           NEW g, Groups(g, e, n)
    PROVE  Groups(AddToGroups(g, e[n + 1]), e, n + 1)
<1> DEFINE x == e[n + 1]
           d == Dir[x.name]
           k == SelectInSeq(g, LAMBDA r : r.id = Basename[d])
           h == AddToGroups(g, x)
<1>1. x \in Entry
  OBVIOUS
<1>2. h = IF d = Top THEN g
          ELSE IF k = 0 THEN Append(g, GroupWith(NewGroup(d), x))
          ELSE [g EXCEPT ![k] = GroupWith(@, x)]
  BY DEF AddToGroups
<1>3. 1 .. n + 1 = 1 .. n \cup {n + 1} /\ n + 1 \in 1 .. n + 1
  OBVIOUS
<1>4. /\ g \in Seq(Group)
      /\ \A i \in DOMAIN g : Describes(g[i], e, n)
      /\ \A i \in DOMAIN g : \E m \in 1 .. n : Dir[e[m].name] = g[i].dir
      /\ \A i, j \in DOMAIN g : i # j => g[i].dir # g[j].dir
      /\ \A m \in 1 .. n : Dir[e[m].name] # Top => \E i \in DOMAIN g : g[i].dir = Dir[e[m].name]
  BY DEF Groups
<1>5. DOMAIN g = 1 .. Len(g) /\ Len(g) \in Nat
  BY <1>4
<1>6. \/ k = 0 /\ \A j \in DOMAIN g : g[j].id # Basename[d]
      \/ k \in DOMAIN g /\ g[k].id = Basename[d]
  <2> DEFINE name == Basename[d]
  <2>1. IsPlace(k, g, name)
    BY DEF SelectInSeq, IsPlace
  <2> HIDE DEF k, name
  <2>2. \/ k = 0 /\ \A j \in 1 .. Len(g) : g[j].id # name
        \/ k \in 1 .. Len(g) /\ g[k].id = name
    BY <1>5, <2>1, PlaceOf
  <2> QED BY <1>5, <2>2 DEF name
<1>7. d \in DOMAIN Basename
  <2> HIDE DEF x
  <2> QED BY <1>1, FilesAssumption DEF Entry
<1>8. \A i \in DOMAIN g : /\ g[i].id = Basename[g[i].dir] /\ g[i].dir # Top
                           /\ g[i].dir \in DOMAIN Basename /\ g[i] \in Group
  <2>1. \A i \in DOMAIN g : g[i] \in Group /\ g[i].id = Basename[g[i].dir] /\ g[i].dir # Top
    BY <1>4 DEF Describes
  <2> QED BY <2>1 DEF Group
<1> HIDE DEF h, k, d, x
<1>9. \A i \in DOMAIN g : g[i].dir # d => Describes(g[i], e, n + 1)
  BY <1>4, StillDescribes DEF d, x
<1>10. CASE d = Top
  <2>1. h = g
    BY <1>2, <1>10
  <2>2. \A i \in DOMAIN g : Describes(g[i], e, n + 1)
    BY <1>8, <1>9, <1>10
  <2>3. \A i \in DOMAIN g : \E m \in 1 .. n + 1 : Dir[e[m].name] = g[i].dir
    BY <1>3, <1>4
  <2>4. \A m \in 1 .. n + 1 :
           Dir[e[m].name] # Top => \E i \in DOMAIN g : g[i].dir = Dir[e[m].name]
    BY <1>3, <1>4, <1>10 DEF d, x
  <2>5. Groups(g, e, n + 1)
    BY <1>4, <2>2, <2>3, <2>4 DEF Groups
  <2> QED BY <2>1, <2>5 DEF h, x
<1>11. CASE d # Top /\ k = 0
  <2> DEFINE r == GroupWith(NewGroup(d), x)
             N == Len(g)
  <2>1. h = Append(g, r)
    BY <1>2, <1>11
  <2>2. \A i \in DOMAIN g : g[i].dir # d
    <3>1. 0 \notin DOMAIN g
      BY <1>5
    <3> QED BY <1>6, <1>8, <1>11, <3>1
  <2>3. Describes(NewGroup(d), e, n) /\ NewGroup(d).dir = d
    <3>1. \A m \in 1 .. n : Dir[e[m].name] # d
      BY <1>4, <1>11, <2>2
    <3> QED BY <1>7, <1>11, <3>1, NewDescribes
  <2>4. Describes(r, e, n + 1)
    BY <2>3, GroupWithDescribes DEF d, x
  <2>5. r.dir = d
    BY <2>3 DEF GroupWith, NewGroup
  <2>6. r \in Group
    BY <2>4 DEF Describes
  <2> HIDE DEF r
  <2>7. /\ h \in Seq(Group) /\ DOMAIN h = 1 .. N + 1 /\ h[N + 1] = r
        /\ \A i \in DOMAIN g : h[i] = g[i]
    BY <1>4, <1>5, <2>1, <2>6, AppendProperties
  <2>8. \A i \in DOMAIN h : i \in DOMAIN g \/ i = N + 1
    BY <1>5, <2>7
  <2>9. \A i \in DOMAIN h : Describes(h[i], e, n + 1)
    BY <1>9, <2>2, <2>4, <2>7, <2>8
  <2>10. \A i \in DOMAIN h : \E m \in 1 .. n + 1 : Dir[e[m].name] = h[i].dir
    <3>1. Dir[e[n + 1].name] = r.dir
      BY <2>5 DEF d, x
    <3> QED BY <1>3, <1>4, <2>7, <2>8, <3>1
  <2>11. \A i, j \in DOMAIN h : i # j => h[i].dir # h[j].dir
    BY <1>4, <2>2, <2>5, <2>7, <2>8
  <2>12. \A m \in 1 .. n + 1 :
            Dir[e[m].name] # Top => \E i \in DOMAIN h : h[i].dir = Dir[e[m].name]
    <3>1. N + 1 \in DOMAIN h /\ h[N + 1].dir = Dir[e[n + 1].name]
      BY <1>5, <2>5, <2>7 DEF d, x
    <3>2. \A i \in DOMAIN g : i \in DOMAIN h
      BY <1>5, <2>7
    <3> SUFFICES ASSUME NEW m \in 1 .. n + 1, Dir[e[m].name] # Top
                 PROVE  \E i \in DOMAIN h : h[i].dir = Dir[e[m].name]
      OBVIOUS
    <3>3. CASE m = n + 1
      BY <3>1, <3>3
    <3>4. CASE m # n + 1
      <4>1. PICK i \in DOMAIN g : g[i].dir = Dir[e[m].name]
        BY <1>3, <1>4, <3>4
      <4> QED BY <2>7, <3>2, <4>1
    <3> QED BY <3>3, <3>4
  <2>13. Groups(h, e, n + 1)
    BY <2>7, <2>9, <2>10, <2>11, <2>12 DEF Groups
  <2> QED BY <2>13 DEF h, x
<1>12. CASE d # Top /\ k # 0
  <2> DEFINE r == GroupWith(g[k], x)
  <2>1. h = [g EXCEPT ![k] = r]
    BY <1>2, <1>12
  <2>2. k \in DOMAIN g /\ g[k].id = Basename[d]
    BY <1>6, <1>12
  <2>3. g[k].dir = d
    BY <1>7, <1>8, <1>12, <2>2 DEF NamesAreUnique
  <2>4. Describes(g[k], e, n)
    BY <1>4, <2>2
  <2>5. Describes(r, e, n + 1)
    BY <2>3, <2>4, GroupWithDescribes DEF d, x
  <2>6. r.dir = d
    <3>1. g[k] \in Group
      BY <1>8, <2>2
    <3> QED BY <2>3, <3>1 DEF GroupWith, Group
  <2>7. r \in Group
    BY <2>5 DEF Describes
  <2> HIDE DEF r
  <2>8. /\ h \in Seq(Group) /\ DOMAIN h = DOMAIN g /\ h[k] = r
        /\ \A i \in DOMAIN g : i # k => h[i] = g[i]
    BY <1>4, <2>1, <2>2, <2>7
  <2>9. \A i \in DOMAIN g : h[i].dir = g[i].dir
    BY <2>3, <2>6, <2>8
  <2>10. \A i \in DOMAIN g : i # k => g[i].dir # d
    BY <1>4, <2>2, <2>3
  <2>11. \A i \in DOMAIN h : Describes(h[i], e, n + 1)
    BY <1>9, <2>5, <2>8, <2>10
  <2>12. \A i \in DOMAIN h : \E m \in 1 .. n + 1 : Dir[e[m].name] = h[i].dir
    BY <1>3, <1>4, <2>8, <2>9
  <2>13. \A i, j \in DOMAIN h : i # j => h[i].dir # h[j].dir
    BY <1>4, <2>8, <2>9
  <2>14. \A m \in 1 .. n + 1 :
            Dir[e[m].name] # Top => \E i \in DOMAIN h : h[i].dir = Dir[e[m].name]
    <3>1. h[k].dir = Dir[e[n + 1].name]
      BY <2>6, <2>8 DEF d, x
    <3> QED BY <1>3, <1>4, <2>2, <2>8, <2>9, <3>1
  <2>15. Groups(h, e, n + 1)
    BY <2>8, <2>11, <2>12, <2>13, <2>14 DEF Groups
  <2> QED BY <2>15 DEF h, x
<1> QED BY <1>10, <1>11, <1>12

\* What the loop computes on the way.
Grows(f, e, n) ==
    f = [m \in 0 .. n |-> IF m = 0 THEN <<>> ELSE AddToGroups(f[m - 1], e[m])]

\* Its value after m entries, from the one before.
LEMMA GrowsAt ==
    ASSUME NEW f, NEW e, NEW n \in Nat, Grows(f, e, n), NEW m \in 0 .. n
    PROVE  f[m] = IF m = 0 THEN <<>> ELSE AddToGroups(f[m - 1], e[m])
BY DEF Grows

\* The groups are the last value of such a function.
LEMMA Grown ==
    ASSUME NEW e
    PROVE  GroupByDirectory(e) = (CHOOSE f : Grows(f, e, Len(e)))[Len(e)]
BY DEF GroupByDirectory, Grows

\* There is such a function, as for FlattenSeq.
LEMMA GrowsDefined ==
    ASSUME NEW e, NEW n \in Nat
    PROVE  \E f : Grows(f, e, n)
<1> DEFINE Bad == {m \in Nat : ~ \E f : Grows(f, e, m)}
<1>1. Bad = {}
  <2> SUFFICES ASSUME Bad # {} PROVE FALSE
    OBVIOUS
  <2>1. PICK m \in Bad : \A k \in Bad : m <= k
    <3>1. Bad \subseteq Nat
      OBVIOUS
    <3> QED BY <3>1, LeastPosition
  <2>2. m \in Nat /\ ~ \E f : Grows(f, e, m)
    BY <2>1
  <2>3. CASE m = 0
    <3>1. Grows([i \in 0 .. 0 |-> <<>>], e, 0)
      <4>1. 0 .. 0 = {0}
        OBVIOUS
      <4> QED BY <4>1 DEF Grows
    <3> QED BY <2>2, <2>3, <3>1
  <2>4. CASE m # 0
    <3>1. m - 1 \in Nat /\ ~(m <= m - 1)
      BY <2>2, <2>4
    <3>2. PICK g : Grows(g, e, m - 1)
      BY <2>1, <3>1
    <3> DEFINE f == [i \in 0 .. m |-> IF i = 0 THEN <<>> ELSE AddToGroups(g[i - 1], e[i])]
    <3>3. \A i \in 0 .. m - 1 : f[i] = g[i]
      BY <2>2, <3>1, <3>2, GrowsAt
    <3>4. \A i \in 0 .. m : i # 0 => i - 1 \in 0 .. m - 1
      BY <2>2
    <3>5. Grows(f, e, m)
      <4>1. f = [i \in 0 .. m |-> IF i = 0 THEN <<>> ELSE AddToGroups(f[i - 1], e[i])]
        <5>1. \A i \in 0 .. m : (IF i = 0 THEN <<>> ELSE AddToGroups(g[i - 1], e[i]))
                               = (IF i = 0 THEN <<>> ELSE AddToGroups(f[i - 1], e[i]))
          <6> HIDE DEF f
          <6> QED BY <3>3, <3>4
        <5> DEFINE F(i) == IF i = 0 THEN <<>> ELSE AddToGroups(g[i - 1], e[i])
                   G(i) == IF i = 0 THEN <<>> ELSE AddToGroups(f[i - 1], e[i])
        <5>2. \A i \in 0 .. m : F(i) = G(i)
          BY <5>1
        <5>3. f = [i \in 0 .. m |-> F(i)]
          OBVIOUS
        <5> HIDE DEF F, G, f
        <5>4. f = [i \in 0 .. m |-> G(i)]
          BY <5>2, <5>3
        <5> QED BY <5>4 DEF G
      <4> HIDE DEF f
      <4> QED BY <4>1 DEF Grows
    <3> QED BY <2>2, <3>5
  <2> QED BY <2>3, <2>4
<1> QED BY <1>1

\* The loop's result: the groups of all the entries.
LEMMA GroupsAre ==
    ASSUME NamesAreUnique, NEW e \in Seq(Entry)
    PROVE  Groups(GroupByDirectory(e), e, Len(e))
<1> DEFINE N == Len(e)
<1>1. N \in Nat /\ DOMAIN e = 1 .. N
  OBVIOUS
<1>2. PICK f : Grows(f, e, N) /\ GroupByDirectory(e) = f[N]
  <2> DEFINE h == CHOOSE h : Grows(h, e, N)
  <2>1. Grows(h, e, N)
    BY <1>1, GrowsDefined
  <2>2. GroupByDirectory(e) = h[N]
    BY Grown
  <2> QED BY <2>1, <2>2
<1> HIDE DEF N
<1> DEFINE Bad == {m \in 0 .. N : ~ Groups(f[m], e, m)}
<1>3. Bad = {}
  <2> SUFFICES ASSUME Bad # {} PROVE FALSE
    OBVIOUS
  <2>1. PICK m \in Bad : \A k \in Bad : m <= k
    <3>1. Bad \subseteq Nat
      BY <1>1
    <3> QED BY <3>1, LeastPosition
  <2>2. m \in 0 .. N /\ ~ Groups(f[m], e, m)
    BY <2>1
  <2>3. f[m] = IF m = 0 THEN <<>> ELSE AddToGroups(f[m - 1], e[m])
    BY <1>1, <1>2, <2>2, GrowsAt
  <2>4. CASE m = 0
    <3>1. Groups(<<>>, e, 0)
      BY DEF Groups
    <3> QED BY <2>2, <2>3, <2>4, <3>1
  <2>5. CASE m # 0
    <3>1. m - 1 \in Nat /\ ~(m <= m - 1) /\ (m - 1) + 1 = m /\ m \in DOMAIN e /\ m - 1 \in 0 .. N
      BY <1>1, <2>2, <2>5
    <3>2. Groups(f[m - 1], e, m - 1)
      BY <2>1, <3>1
    <3>3. Groups(AddToGroups(f[m - 1], e[m]), e, m)
      BY <3>1, <3>2, AddKeepsGroups
    <3> QED BY <2>2, <2>3, <2>5, <3>3
  <2> QED BY <2>4, <2>5
<1>4. Groups(f[N], e, N)
  BY <1>1, <1>3
<1> QED BY <1>2, <1>4 DEF N

-----------------------------------------------------------------------------
(* EgoverseDjiLoader *)

Vids(t, d) == {f \in DOMAIN t : Ext[f] = "video" /\ Dir[f] = d}

Sidecars(t, d) == {f \in DOMAIN t : Ext[f] = "json" /\ Dir[f] = d}

Dirs(t) == {Dir[f] : f \in DOMAIN t} \ {Top}

\* A group says of its directory what the tree holds there.
Summarises(r, t) ==
    /\ r \in Group /\ r.id = Basename[r.dir] /\ r.dir \in Dirs(t)
    /\ \A f \in Vids(t, r.dir) : Sz(t, f) <= r.video_size
    /\ r.video = NoFile => r.video_size = 0
    /\ r.video # NoFile =>
          r.video \in Vids(t, r.dir) /\ Sz(t, r.video) = r.video_size /\ r.video_size > 0
    /\ r.json # NoFile => r.json \in Sidecars(t, r.dir)
    /\ Sidecars(t, r.dir) # {} => r.json # NoFile

\* The groups of a whole listing: one for each directory, in the tree's terms.
LEMMA GroupsSummarise ==
    ASSUME NEW t \in Trees, NEW e, IsListing(e, DOMAIN t, t),
           NEW g, Groups(g, e, Len(e))
    PROVE  /\ g \in Seq(Group)
           /\ \A i \in DOMAIN g : Summarises(g[i], t)
           /\ \A i, j \in DOMAIN g : i # j => g[i].dir # g[j].dir
           /\ \A d \in Dirs(t) : \E i \in DOMAIN g : g[i].dir = d
<1> DEFINE N == Len(e)
<1>1. /\ e \in Seq(Entry)
      /\ \A i \in DOMAIN e : e[i].name \in DOMAIN t /\ e[i].size = Sz(t, e[i].name)
      /\ \A f \in DOMAIN t : \E i \in DOMAIN e : e[i].name = f
  BY DEF IsListing
<1>2. DOMAIN e = 1 .. N
  BY <1>1
<1> HIDE DEF N
<1>3. /\ g \in Seq(Group)
      /\ \A i \in DOMAIN g : Describes(g[i], e, N)
      /\ \A i \in DOMAIN g : \E m \in 1 .. N : Dir[e[m].name] = g[i].dir
      /\ \A i, j \in DOMAIN g : i # j => g[i].dir # g[j].dir
      /\ \A m \in 1 .. N : Dir[e[m].name] # Top => \E i \in DOMAIN g : g[i].dir = Dir[e[m].name]
  BY DEF Groups, N
<1>4. ASSUME NEW i \in DOMAIN g PROVE Summarises(g[i], t)
  <2> DEFINE r == g[i]
  <2>1. Describes(r, e, N) /\ \E m \in 1 .. N : Dir[e[m].name] = r.dir
    BY <1>3
  <2> HIDE DEF r
  <2>2. r \in Group /\ r.id = Basename[r.dir] /\ r.dir # Top
    BY <2>1 DEF Describes
  <2>3. r.dir \in Dirs(t)
    BY <1>1, <1>2, <2>1, <2>2 DEF Dirs
  <2>4. ASSUME NEW f \in Vids(t, r.dir) PROVE Sz(t, f) <= r.video_size
    <3>1. f \in DOMAIN t /\ Ext[f] = "video" /\ Dir[f] = r.dir
      BY DEF Vids
    <3>2. PICK m \in 1 .. N : e[m].name = f
      BY <1>1, <1>2, <3>1
    <3>3. e[m].size = Sz(t, f)
      BY <1>1, <1>2, <3>2
    <3>4. e[m].size <= r.video_size
      BY <2>1, <3>1, <3>2 DEF Describes
    <3> QED BY <3>3, <3>4
  <2>5. r.video = NoFile => r.video_size = 0
    BY <2>1 DEF Describes
  <2>6. ASSUME r.video # NoFile
        PROVE  r.video \in Vids(t, r.dir) /\ Sz(t, r.video) = r.video_size /\ r.video_size > 0
    <3>1. PICK m \in 1 .. N :
            /\ e[m].name = r.video /\ Dir[e[m].name] = r.dir /\ Ext[e[m].name] = "video"
            /\ e[m].size = r.video_size /\ r.video_size > 0
      BY <2>1, <2>6 DEF Describes
    <3>2. e[m].name \in DOMAIN t /\ e[m].size = Sz(t, e[m].name)
      BY <1>1, <1>2
    <3> QED BY <3>1, <3>2 DEF Vids
  <2>7. ASSUME r.json # NoFile PROVE r.json \in Sidecars(t, r.dir)
    <3>1. PICK m \in 1 .. N :
            e[m].name = r.json /\ Dir[e[m].name] = r.dir /\ Ext[e[m].name] = "json"
      BY <2>1, <2>7 DEF Describes
    <3>2. e[m].name \in DOMAIN t
      BY <1>1, <1>2
    <3> QED BY <3>1, <3>2 DEF Sidecars
  <2>8. ASSUME NEW f \in Sidecars(t, r.dir) PROVE r.json # NoFile
    <3>1. f \in DOMAIN t /\ Ext[f] = "json" /\ Dir[f] = r.dir
      BY DEF Sidecars
    <3>2. PICK m \in 1 .. N : e[m].name = f
      BY <1>1, <1>2, <3>1
    <3> QED BY <2>1, <3>1, <3>2 DEF Describes
  <2>9. Summarises(r, t)
    BY <2>2, <2>3, <2>4, <2>5, <2>6, <2>7, <2>8 DEF Summarises
  <2> QED BY <2>9 DEF r
<1>5. ASSUME NEW d \in Dirs(t) PROVE \E i \in DOMAIN g : g[i].dir = d
  <2>1. PICK f \in DOMAIN t : Dir[f] = d /\ d # Top
    BY DEF Dirs
  <2>2. PICK m \in 1 .. N : e[m].name = f
    BY <1>1, <1>2
  <2> QED BY <1>3, <2>1, <2>2
<1> QED BY <1>3, <1>4, <1>5

LargestOf(t, d) == Max({0} \cup {Sz(t, f) : f \in Vids(t, d)})

\* The size a group is sorted by is that of its directory's largest video.
LEMMA SizeIsLargest ==
    ASSUME NEW t \in Trees, NEW r, Summarises(r, t)
    PROVE  r.video_size = LargestOf(t, r.dir) /\ r.video_size \in Nat
<1> DEFINE S == {0} \cup {Sz(t, f) : f \in Vids(t, r.dir)}
           z == r.video_size
<1>1. z \in Nat
  BY DEF Summarises, Group
<1>2. S \subseteq Nat
  BY TreeTypes DEF Vids
<1>3. z \in S
  <2>1. CASE r.video = NoFile
    BY <2>1 DEF Summarises
  <2>2. CASE r.video # NoFile
    BY <2>2 DEF Summarises
  <2> QED BY <2>1, <2>2
<1>4. \A y \in S : y <= z
  BY <1>1 DEF Summarises
<1> HIDE DEF S, z
<1>5. Max(S) \in S /\ \A y \in S : y <= Max(S)
  <2>1. \E x \in S : \A y \in S : x >= y
    BY <1>2, <1>3, <1>4
  <2>2. Max(S) \in S /\ \A y \in S : Max(S) >= y
    BY <2>1 DEF Max
  <2> QED BY <1>2, <2>2
<1>6. z = Max(S)
  <2>1. z <= Max(S) /\ Max(S) <= z /\ Max(S) \in Nat
    BY <1>2, <1>3, <1>4, <1>5
  <2> QED BY <1>1, <2>1
<1> QED BY <1>1, <1>6 DEF LargestOf, S, z

\* The item is the finding of an empty directory, or the directory's sample.
Right(x, t) ==
    \E d \in Dirs(t) :
        /\ x.id = Basename[d]
        /\ IF \A f \in Vids(t, d) : Sz(t, f) = 0
           THEN x = Finding(Basename[d])
           ELSE /\ x.video \in Vids(t, d)
                /\ \A f \in Vids(t, d) : Sz(t, f) <= Sz(t, x.video)
                /\ x.json \in Sidecars(t, d) \cup {NoFile}
                /\ x.json = NoFile => Sidecars(t, d) = {}

ItemOf(r) == IF r.video = NoFile THEN Finding(r.id) ELSE SampleOf(r.id, r.video, r.json)

\* What a group is turned into is its directory's finding or sample.
LEMMA ItemIsRight ==
    ASSUME NEW t \in Trees, NEW r, Summarises(r, t)
    PROVE  Right(ItemOf(r), t) /\ ItemOf(r).id = r.id
<1> DEFINE x == ItemOf(r)
           d == r.dir
<1>1. d \in Dirs(t) /\ r.id = Basename[d] /\ r.video_size \in Nat
  BY DEF Summarises, Group
<1>2. \A f \in Vids(t, d) : Sz(t, f) \in Nat
  BY TreeTypes DEF Vids
<1>3. CASE r.video = NoFile
  <2>1. x = Finding(r.id)
    BY <1>3 DEF ItemOf
  <2>2. \A f \in Vids(t, d) : Sz(t, f) = 0
    <3>1. \A f \in Vids(t, d) : Sz(t, f) <= 0
      BY <1>3 DEF Summarises
    <3> QED BY <1>2, <3>1
  <2>3. x.id = r.id
    BY <2>1 DEF Finding
  <2> HIDE DEF x, d
  <2> QED BY <1>1, <2>1, <2>2, <2>3 DEF Right, x
<1>4. CASE r.video # NoFile
  <2>1. x = SampleOf(r.id, r.video, r.json)
    BY <1>4 DEF ItemOf
  <2> HIDE DEF x
  <2>2. x.id = r.id /\ x.kind = "sample" /\ x.video = r.video /\ x.json = r.json
    BY <2>1 DEF SampleOf
  <2>3. /\ r.video \in Vids(t, d) /\ Sz(t, r.video) = r.video_size /\ r.video_size > 0
        /\ \A f \in Vids(t, d) : Sz(t, f) <= r.video_size
        /\ r.json \in Sidecars(t, d) \cup {NoFile}
        /\ r.json = NoFile => Sidecars(t, d) = {}
    BY <1>4 DEF Summarises
  <2> HIDE DEF d
  <2>4. ~ \A f \in Vids(t, d) : Sz(t, f) = 0
    BY <1>1, <2>3
  <2>5. Right(x, t)
    BY <1>1, <2>2, <2>3, <2>4 DEF Right
  <2> QED BY <2>2, <2>5 DEF x
<1> QED BY <1>3, <1>4

EgKeys(g, order) ==
    [i \in DOMAIN g |-> IF order = "size" THEN g[i].video_size ELSE g[i].dir]

EgWanted(t, order) ==
    {[id |-> Basename[d], of |-> d,
      key |-> IF order = "size" THEN LargestOf(t, d) ELSE d] : d \in Dirs(t)}

\* The groups chosen, the items made of them, and that they are the lowest.
LEMMA EgoverseAnswers ==
    ASSUME NamesAreUnique, NEW t \in Trees, NEW e, IsListing(e, DOMAIN t, t), NEW order,
           NEW max, max = NoMax \/ max \in Int,
           NEW its, its = EgoverseItems(e, order, max)
    PROVE  Answers(its, EgWanted(t, order), max) /\ \A i \in DOMAIN its : Right(its[i], t)
<1> DEFINE g == GroupByDirectory(e)
           keys == EgKeys(g, order)
           c == Cut(SortedBy(g, keys), max)
           n == Len(g)
           k == Kept(n, max)
           W == EgWanted(t, order)
           thing(d) == [id |-> Basename[d], of |-> d,
                        key |-> IF order = "size" THEN LargestOf(t, d) ELSE d]
<1>1. its = [i \in DOMAIN c |-> ItemOf(c[i])]
  BY DEF EgoverseItems, EgKeys, ItemOf
<1>2. Groups(g, e, Len(e))
  BY GroupsAre DEF IsListing
<1> HIDE DEF g, c
<1>3. /\ g \in Seq(Group)
      /\ \A i \in DOMAIN g : Summarises(g[i], t)
      /\ \A i, j \in DOMAIN g : i # j => g[i].dir # g[j].dir
      /\ \A d \in Dirs(t) : \E i \in DOMAIN g : g[i].dir = d
  BY <1>2, GroupsSummarise
<1>4. DOMAIN g = 1 .. n /\ n \in Nat
  BY <1>3
<1>5. \A i \in DOMAIN g : keys[i] \in Int /\ keys[i] = thing(g[i].dir).key
  <2> SUFFICES ASSUME NEW i \in DOMAIN g
               PROVE  keys[i] \in Int /\ keys[i] = thing(g[i].dir).key
    OBVIOUS
  <2>1. keys[i] = IF order = "size" THEN g[i].video_size ELSE g[i].dir
    BY DEF EgKeys
  <2>2. g[i].video_size = LargestOf(t, g[i].dir) /\ g[i].video_size \in Nat
    BY <1>3, SizeIsLargest
  <2>3. g[i].dir \in Nat
    <3>1. g[i] \in Group
      BY <1>3
    <3>2. g[i].dir \in DOMAIN Basename
      BY <3>1 DEF Group
    <3> QED BY <3>2, FilesAssumption
  <2> QED BY <2>1, <2>2, <2>3
<1> HIDE DEF keys, k, n
<1>6. /\ c \in Seq(Group) /\ Len(c) = k /\ k \in 0 .. n
      /\ Lowest(c, k, g, keys)
  BY <1>3, <1>5, ChosenIs DEF c, k, n
<1>7. PICK p : Sorts(p, n, keys) /\ \A a \in 1 .. k : c[a] = g[p[a]]
  BY <1>6 DEF Lowest, n
<1>8. DOMAIN its = 1 .. k /\ Len(its) = k
  <2>1. DOMAIN c = 1 .. k /\ k \in Nat
    BY <1>4, <1>6
  <2>2. its = [i \in 1 .. k |-> its[i]]
    BY <1>1, <2>1
  <2> QED BY <2>1, <2>2
<1>9. ASSUME NEW i \in 1 .. k
      PROVE  /\ p[i] \in 1 .. n /\ c[i] = g[p[i]] /\ Summarises(c[i], t)
             /\ its[i] = ItemOf(c[i])
  <2>1. i \in 1 .. n
    BY <1>4, <1>6
  <2>2. p[i] \in 1 .. n
    BY <1>7, <2>1 DEF Sorts
  <2> QED BY <1>1, <1>3, <1>4, <1>7, <1>8, <2>2
<1>10. \A i \in DOMAIN its : its[i].id = c[i].id /\ Right(its[i], t)
  <2> SUFFICES ASSUME NEW i \in 1 .. k
               PROVE  its[i].id = c[i].id /\ Right(its[i], t)
    BY <1>8
  <2> DEFINE r == c[i]
  <2>1. Summarises(r, t) /\ its[i] = ItemOf(r)
    BY <1>9
  <2> HIDE DEF r
  <2>2. Right(ItemOf(r), t) /\ ItemOf(r).id = r.id
    BY <2>1, ItemIsRight
  <2> QED BY <2>1, <2>2 DEF r
<1> DEFINE w == [i \in 1 .. n |-> thing(g[i].dir)]
<1>11. W = {thing(d) : d \in Dirs(t)}
  BY DEF EgWanted
<1>12. \A d, b \in Dirs(t) : d # b => thing(d) # thing(b)
  <2>1. \A d \in Dirs(t) : thing(d).of = d
    OBVIOUS
  <2> HIDE DEF thing
  <2> QED BY <2>1
<1>13. \A d \in Dirs(t) : thing(d).id = Basename[d]
  OBVIOUS
<1> HIDE DEF thing, W
<1>14. \A i \in 1 .. n : g[i].dir \in Dirs(t) /\ g[i].id = Basename[g[i].dir]
  BY <1>3, <1>4 DEF Summarises
<1>15. /\ w \in [1 .. n -> W]
       /\ \A i, j \in 1 .. n : i # j => w[i] # w[j]
       /\ \A x \in W : \E i \in 1 .. n : w[i] = x
  <2>1. \A i \in 1 .. n : w[i] = thing(g[i].dir)
    OBVIOUS
  <2>2. w \in [1 .. n -> W]
    BY <1>11, <1>14
  <2> HIDE DEF w
  <2>3. \A i, j \in 1 .. n : i # j => w[i] # w[j]
    BY <1>3, <1>4, <1>12, <1>14, <2>1
  <2>4. \A x \in W : \E i \in 1 .. n : w[i] = x
    BY <1>3, <1>4, <1>11, <2>1
  <2> QED BY <2>2, <2>3, <2>4
<1>16. \A i \in 1 .. n : keys[i] \in Int /\ w[i].key = keys[i] /\ w[i].id = g[i].id
  BY <1>4, <1>5, <1>13, <1>14
<1> HIDE DEF w
<1>17. \A i \in DOMAIN its : its[i].id = w[p[i]].id
  BY <1>8, <1>9, <1>10, <1>16
<1>18. Answers(its, W, max)
  <2>1. Numbers(w, n, W, keys)
    BY <1>15, <1>16 DEF Numbers
  <2>2. Items(its, k, w, p)
    BY <1>8, <1>17 DEF Items
  <2>3. k = Kept(n, max)
    BY DEF k
  <2> QED BY <1>4, <1>7, <2>1, <2>2, <2>3, LowestAnswer
<1> QED BY <1>8, <1>10, <1>18 DEF W

-----------------------------------------------------------------------------
(* What batch_stream has of the first n items *)

\* The batches before a position, as quotient and rest.
LEMMA DivOf ==
    ASSUME NEW q \in Nat, NEW d \in Nat, d > 0, NEW r \in 0 .. d - 1
    PROVE  (q * d + r) \div d = q
OBVIOUS

\* Concatenation ends as its second half does.
LEMMA AppendLast ==
    ASSUME NEW T, NEW a \in Seq(T), NEW b \in Seq(T), NEW x \in T
    PROVE  a \o Append(b, x) = Append(a \o b, x)
<1> DEFINE u == <<x>>
<1>1. u \in Seq(T)
  OBVIOUS
<1>2. a \o b \in Seq(T)
  BY ConcatProperties
<1>3. Append(b, x) = b \o u
  BY AppendIsConcat
<1>4. Append(a \o b, x) = (a \o b) \o u
  <2> DEFINE c == a \o b
  <2>1. c \in Seq(T)
    BY <1>2
  <2> HIDE DEF c
  <2>2. Append(c, x) = c \o u
    BY <2>1, AppendIsConcat
  <2> QED BY <2>2 DEF c
<1> HIDE DEF u
<1>5. (a \o b) \o u = a \o (b \o u)
  BY <1>1, ConcatAssociative
<1> QED BY <1>3, <1>4, <1>5

SamplesIn(its, n) == {i \in 1 .. n : its[i].kind = "sample"}

BatchIn(its, z, i) ==
    IF z <= 0 THEN i - 1 ELSE Cardinality(SamplesIn(its, i - 1)) \div z

SamplesOfAll(bs) == [i \in DOMAIN bs |-> bs[i].samples]

\* The findings of the first n items are where they belong: in a batch of bs,
\* or with the one under construction.
Places(its, z, n, findings, bs) ==
    /\ \A i \in 1 .. n : its[i].kind = "finding" =>
          /\ BatchIn(its, z, i) \in 0 .. Len(bs)
          /\ BatchIn(its, z, i) < Len(bs) =>
                its[i].id \in DOMAIN bs[BatchIn(its, z, i) + 1].findings
          /\ BatchIn(its, z, i) = Len(bs) => its[i].id \in DOMAIN findings
    /\ \A b \in DOMAIN bs : \A id \in DOMAIN bs[b].findings :
          \E i \in 1 .. n : its[i] = Finding(id) /\ BatchIn(its, z, i) = b - 1
    /\ \A id \in DOMAIN findings :
          \E i \in 1 .. n : its[i] = Finding(id) /\ BatchIn(its, z, i) = Len(bs)

\* And so are the samples, in order.
Carries(its, n, samples, bs) ==
    /\ \E S : bs \in Seq(S)
    /\ samples \in Seq(Elements(its))
    /\ SamplesOfAll(bs) \in Seq(Seq(Elements(its)))
    /\ FlattenSeq(SamplesOfAll(bs)) \o samples = At(its, SamplesIn(its, n))

\* All batches so far are full ones.
AllFull(its, z, n, samples, bs) ==
    IF z <= 0 THEN Len(bs) = n
    ELSE Cardinality(SamplesIn(its, n)) = Len(bs) * z + Len(samples)

\* The samples of one item more.
LEMMA SamplesGrow ==
    ASSUME NEW its, NEW n \in Nat
    PROVE  /\ IsFiniteSet(SamplesIn(its, n)) /\ Cardinality(SamplesIn(its, n)) \in Nat
           /\ SamplesIn(its, n) \subseteq 1 .. n
           /\ its[n + 1].kind = "sample" =>
                 SamplesIn(its, n + 1) = SamplesIn(its, n) \cup {n + 1}
           /\ its[n + 1].kind # "sample" => SamplesIn(its, n + 1) = SamplesIn(its, n)
<1>1. SamplesIn(its, n) \in SUBSET (1 .. n)
  BY DEF SamplesIn
<1>2. IsFiniteSet(SamplesIn(its, n))
  BY <1>1, FS_Interval, FS_Subset
<1>3. 1 .. n + 1 = 1 .. n \cup {n + 1}
  OBVIOUS
<1> QED BY <1>1, <1>2, <1>3, FS_CardinalityType DEF SamplesIn

\* The batch the next finding belongs to is the one under construction.
LEMMA NextPlace ==
    ASSUME NEW its, NEW z \in Int, NEW n \in Nat, NEW samples, NEW bs,
           Len(bs) \in Nat, Len(samples) \in Nat, z > 0 => Len(samples) < z,
           AllFull(its, z, n, samples, bs)
    PROVE  BatchIn(its, z, n + 1) = Len(bs)
<1>1. (n + 1) - 1 = n
  OBVIOUS
<1>2. CASE z <= 0
  BY <1>1, <1>2 DEF BatchIn, AllFull
<1>3. CASE z > 0
  <2>1. ~(z <= 0) /\ z \in Nat /\ Len(samples) \in 0 .. z - 1
    BY <1>3
  <2>2. Cardinality(SamplesIn(its, n)) = Len(bs) * z + Len(samples)
    BY <2>1 DEF AllFull
  <2>3. (Len(bs) * z + Len(samples)) \div z = Len(bs)
    BY <1>3, <2>1, DivOf
  <2>4. BatchIn(its, z, n + 1) = Cardinality(SamplesIn(its, n)) \div z
    BY <1>1, <2>1 DEF BatchIn
  <2> QED BY <2>2, <2>3, <2>4
<1> QED BY <1>2, <1>3

\* The next item is a sample.
LEMMA CarriesSample ==
    ASSUME NEW its, AreItems(its), NEW n \in Nat, n + 1 \in DOMAIN its,
           its[n + 1].kind = "sample", NEW samples, NEW bs, Carries(its, n, samples, bs)
    PROVE  Carries(its, n + 1, Append(samples, its[n + 1]), bs)
<1> DEFINE T == Elements(its)
           x == its[n + 1]
           I == SamplesIn(its, n)
           J == SamplesIn(its, n + 1)
           done == FlattenSeq(SamplesOfAll(bs))
<1>1. its \in Seq(T) /\ x \in T
  BY DEF AreItems, Elements
<1>2. /\ samples \in Seq(T) /\ SamplesOfAll(bs) \in Seq(Seq(T))
      /\ done \o samples = At(its, I) /\ \E S : bs \in Seq(S)
  BY DEF Carries
<1>3. done \in Seq(T)
  BY <1>2, FlattenAppend
<1>4. I \subseteq DOMAIN its /\ IsFiniteSet(I) /\ J = I \cup {n + 1} /\ \A i \in I : i < n + 1
  <2>1. I \subseteq 1 .. n /\ IsFiniteSet(I) /\ J = I \cup {n + 1}
    BY SamplesGrow
  <2>2. \A i \in 1 .. n : i \in DOMAIN its /\ i < n + 1
    BY <1>1
  <2> QED BY <2>1, <2>2
<1> HIDE DEF T, I, J, done
<1>5. At(its, J) = Append(At(its, I), x)
  <2> DEFINE m == n + 1
  <2>1. m \in DOMAIN its /\ J = I \cup {m} /\ \A i \in I : i < m
    BY <1>4
  <2>2. x = its[m]
    OBVIOUS
  <2> HIDE DEF m, x
  <2> QED BY <1>1, <1>4, <2>1, <2>2, AtAppend
<1> HIDE DEF x
<1>6. done \o Append(samples, x) = Append(done \o samples, x)
  BY <1>1, <1>2, <1>3, AppendLast
<1>7. Append(samples, x) \in Seq(T)
  BY <1>1, <1>2
<1>8. done \o Append(samples, x) = At(its, J)
  BY <1>2, <1>5, <1>6
<1> QED BY <1>2, <1>7, <1>8 DEF Carries, T, J, done, x

\* A sample moves no finding.
LEMMA PlacesSample ==
    ASSUME NEW its, NEW z, NEW n \in Nat, its[n + 1].kind = "sample",
           NEW findings, NEW bs, Places(its, z, n, findings, bs)
    PROVE  Places(its, z, n + 1, findings, bs)
<1>1. 1 .. n + 1 = 1 .. n \cup {n + 1}
  OBVIOUS
<1> QED BY <1>1 DEF Places

\* The next item is a finding.
LEMMA PlacesFinding ==
    ASSUME NEW its, NEW z, NEW n \in Nat, NEW id, its[n + 1] = Finding(id),
           NEW findings, NEW bs, Places(its, z, n, findings, bs),
           Len(bs) \in Nat, BatchIn(its, z, n + 1) = Len(bs),
           NEW more, DOMAIN more = DOMAIN findings \cup {id}
    PROVE  Places(its, z, n + 1, more, bs)
<1>1. 1 .. n + 1 = 1 .. n \cup {n + 1} /\ n + 1 \in 1 .. n + 1
  OBVIOUS
<1>2. its[n + 1].id = id
  BY DEF Finding
<1>3. ASSUME NEW i \in 1 .. n + 1, its[i].kind = "finding"
      PROVE  /\ BatchIn(its, z, i) \in 0 .. Len(bs)
             /\ BatchIn(its, z, i) < Len(bs) =>
                   its[i].id \in DOMAIN bs[BatchIn(its, z, i) + 1].findings
             /\ BatchIn(its, z, i) = Len(bs) => its[i].id \in DOMAIN more
  <2>1. CASE i = n + 1
    BY <1>2, <2>1
  <2>2. CASE i # n + 1
    BY <1>1, <1>3, <2>2 DEF Places
  <2> QED BY <2>1, <2>2
<1>4. \A b \in DOMAIN bs : \A x \in DOMAIN bs[b].findings :
         \E i \in 1 .. n + 1 : its[i] = Finding(x) /\ BatchIn(its, z, i) = b - 1
  BY <1>1 DEF Places
<1>5. \A x \in DOMAIN more :
         \E i \in 1 .. n + 1 : its[i] = Finding(x) /\ BatchIn(its, z, i) = Len(bs)
  BY <1>1 DEF Places
<1> QED BY <1>3, <1>4, <1>5 DEF Places

\* A batch is yielded with what is held.
LEMMA CarriesBatch ==
    ASSUME NEW its, NEW n, NEW samples, NEW bs, Carries(its, n, samples, bs),
           NEW b, b.samples = samples
    PROVE  Carries(its, n, <<>>, Append(bs, b))
<1> DEFINE T == Elements(its)
           cs == Append(bs, b)
           ss == SamplesOfAll(bs)
           tt == SamplesOfAll(cs)
<1>1. /\ samples \in Seq(T) /\ ss \in Seq(Seq(T))
      /\ FlattenSeq(ss) \o samples = At(its, SamplesIn(its, n))
  BY DEF Carries
<1>2. PICK S : bs \in Seq(S)
  BY DEF Carries
<1>3. /\ \E U : cs \in Seq(U)
      /\ cs[Len(bs) + 1] = b
      /\ \A i \in 1 .. Len(bs) : cs[i] = bs[i]
      /\ DOMAIN cs = 1 .. Len(bs) + 1 /\ DOMAIN bs = 1 .. Len(bs) /\ Len(bs) \in Nat
  BY <1>2, OneMore
<1> HIDE DEF cs
<1>4. Len(ss) = Len(bs) /\ \A i \in 1 .. Len(bs) : ss[i] = bs[i].samples
  BY <1>1, <1>3 DEF SamplesOfAll
<1>5. /\ tt = [i \in 1 .. Len(bs) + 1 |-> cs[i].samples]
  BY <1>3 DEF SamplesOfAll
<1> HIDE DEF ss, tt, T
<1>6. tt = Append(ss, samples) /\ tt \in Seq(Seq(T))
  <2> DEFINE u == Append(ss, samples)
             N == Len(bs)
  <2>1. /\ u \in Seq(Seq(T)) /\ Len(u) = N + 1 /\ u[N + 1] = samples
        /\ \A i \in 1 .. N : u[i] = ss[i]
    BY <1>1, <1>4, AppendProperties
  <2> HIDE DEF u
  <2>2. \A i \in 1 .. N + 1 : tt[i] = u[i]
    <3> SUFFICES ASSUME NEW i \in 1 .. N + 1 PROVE tt[i] = u[i]
      OBVIOUS
    <3>1. tt[i] = cs[i].samples
      BY <1>5
    <3>2. CASE i = N + 1
      BY <1>3, <2>1, <3>1, <3>2
    <3>3. CASE i # N + 1
      <4>1. i \in 1 .. N
        BY <1>3, <3>3
      <4> QED BY <1>3, <1>4, <2>1, <3>1, <4>1
    <3> QED BY <3>2, <3>3
  <2> HIDE DEF N
  <2>3. tt = u
    <3>1. u = [i \in 1 .. N + 1 |-> u[i]]
      BY <2>1
    <3>2. tt = [i \in 1 .. N + 1 |-> tt[i]]
      BY <1>5 DEF N
    <3> QED BY <2>2, <3>1, <3>2
  <2> QED BY <2>1, <2>3 DEF u
<1>7. FlattenSeq(tt) = FlattenSeq(ss) \o samples /\ FlattenSeq(ss) \in Seq(T)
  BY <1>1, <1>6, FlattenAppend
<1>8. FlattenSeq(tt) \o <<>> = At(its, SamplesIn(its, n)) /\ <<>> \in Seq(T)
  <2> DEFINE f == FlattenSeq(ss)
             a == f \o samples
  <2>1. a \in Seq(T)
    <3>1. f \in Seq(T)
      BY <1>7
    <3> HIDE DEF f
    <3> QED BY <1>1, <3>1, ConcatProperties
  <2> HIDE DEF a
  <2>2. a \o <<>> = a
    BY <2>1
  <2> QED BY <1>1, <1>7, <2>2 DEF a, f
<1> QED BY <1>3, <1>6, <1>8 DEF Carries, T, tt, cs

\* What was with the batch under construction is now in it.
LEMMA PlacesBatch ==
    ASSUME NEW its, NEW z, NEW n, NEW findings, NEW bs, Places(its, z, n, findings, bs),
           NEW S, bs \in Seq(S), NEW b, b.findings = findings
    PROVE  Places(its, z, n, EmptyMap, Append(bs, b))
<1> DEFINE cs == Append(bs, b)
           N == Len(bs)
<1>1. /\ Len(cs) = N + 1 /\ cs[N + 1] = b
      /\ \A i \in 1 .. N : cs[i] = bs[i]
      /\ DOMAIN cs = 1 .. N + 1 /\ DOMAIN bs = 1 .. N /\ N \in Nat
  BY OneMore
<1> HIDE DEF cs
<1>2. ASSUME NEW i \in 1 .. n, its[i].kind = "finding"
      PROVE  /\ BatchIn(its, z, i) \in 0 .. Len(cs)
             /\ BatchIn(its, z, i) < Len(cs) =>
                   its[i].id \in DOMAIN cs[BatchIn(its, z, i) + 1].findings
             /\ BatchIn(its, z, i) = Len(cs) => its[i].id \in DOMAIN EmptyMap
  <2> DEFINE p == BatchIn(its, z, i)
  <2>1. /\ p \in 0 .. N
        /\ p < N => its[i].id \in DOMAIN bs[p + 1].findings
        /\ p = N => its[i].id \in DOMAIN findings
    BY <1>2 DEF Places
  <2> HIDE DEF p, N
  <2>2. p \in 0 .. N + 1 /\ p # N + 1
    BY <1>1, <2>1
  <2>3. its[i].id \in DOMAIN cs[p + 1].findings
    <3>1. CASE p = N
      BY <1>1, <2>1, <3>1
    <3>2. CASE p # N
      <4>1. p < N /\ p + 1 \in 1 .. N
        BY <1>1, <2>1, <3>2
      <4> QED BY <1>1, <2>1, <4>1
    <3> QED BY <3>1, <3>2
  <2> QED BY <1>1, <2>2, <2>3 DEF p
<1>3. \A c \in DOMAIN cs : \A id \in DOMAIN cs[c].findings :
         \E i \in 1 .. n : its[i] = Finding(id) /\ BatchIn(its, z, i) = c - 1
  <2> SUFFICES ASSUME NEW c \in DOMAIN cs, NEW id \in DOMAIN cs[c].findings
               PROVE  \E i \in 1 .. n : its[i] = Finding(id) /\ BatchIn(its, z, i) = c - 1
    OBVIOUS
  <2>1. CASE c = N + 1
    <3>1. (N + 1) - 1 = N /\ id \in DOMAIN findings
      BY <1>1, <2>1
    <3> QED BY <2>1, <3>1 DEF Places
  <2>2. CASE c # N + 1
    <3>1. c \in DOMAIN bs /\ cs[c] = bs[c]
      BY <1>1, <2>2
    <3> QED BY <3>1 DEF Places
  <2> QED BY <2>1, <2>2
<1> QED BY <1>2, <1>3, EmptyDomain DEF Places, cs

-----------------------------------------------------------------------------
(* The stream *)

\* Before the listing there is nothing; until the end every batch is full.
Whole(its, z, n, samples, findings, bs, ph) ==
    /\ Carries(its, n, samples, bs)
    /\ Places(its, z, n, findings, bs)
    /\ ph # "done" => AllFull(its, z, n, samples, bs)
    /\ ph = "done" => samples = <<>> /\ findings = EmptyMap
    /\ ph = "listing" =>
          n = 0 /\ samples = <<>> /\ findings = EmptyMap /\ bs = <<>>

\* What has been listed are the items of the tree.
Listed ==
    /\ tree \in Trees /\ params \in Params
    /\ listing \in Listings(tree, params.loader = "egoverse" \/ params.recursive)
    /\ phase = "listing" => items = <<>>
    /\ \/ items = <<>>
       \/ items = Enumerate(params.loader, listing, params.order, params.max_samples)
    /\ phase \in {"items", "done"} =>
          items = Enumerate(params.loader, listing, params.order, params.max_samples)

StreamInv ==
    /\ IInv /\ Listed
    /\ AreItems(items) /\ taken \in 0 .. Len(items)
    /\ Whole(items, params.batch_size, taken, pending, rext, batches, phase)

\* A stream that was not started.
LEMMA NothingYet ==
    ASSUME NEW its, AreItems(its), NEW z \in Int, NEW ph, ph # "done"
    PROVE  Whole(its, z, 0, <<>>, EmptyMap, <<>>, ph)
<1> DEFINE T == Elements(its)
           bs == SamplesOfAll(<<>>)
<1>1. SamplesIn(its, 0) = {}
  BY DEF SamplesIn
<1>2. bs = <<>> /\ FlattenSeq(<<>>) = <<>>
  <2>1. bs = <<>>
    BY DEF SamplesOfAll
  <2>2. FlattenSeq(<<>>) = <<>>
    BY DEF FlattenSeq
  <2> QED BY <2>1, <2>2
<1> HIDE DEF bs
<1>3. At(its, {}) = <<>> /\ Cardinality({}) = 0
  <2>1. IsFiniteSet({}) /\ Cardinality({}) = 0
    BY FS_EmptySet
  <2> DEFINE I == {}
  <2>2. I \subseteq DOMAIN its /\ IsFiniteSet(I)
    BY <2>1
  <2> HIDE DEF I
  <2>3. its \in Seq(T)
    BY DEF AreItems
  <2> HIDE DEF T
  <2> DEFINE a == At(its, I)
  <2>4. a \in Seq(T) /\ Lists(a, its, I)
    BY <2>2, <2>3, AtIs
  <2> HIDE DEF a
  <2>5. Len(a) = 0
    BY <2>1, <2>4 DEF Lists, I
  <2>6. a = <<>>
    BY <2>4, <2>5
  <2> QED BY <2>1, <2>6 DEF a, I
<1>4. Carries(its, 0, <<>>, <<>>)
  <2>1. <<>> \o <<>> = <<>> /\ <<>> \in Seq(T) /\ <<>> \in Seq(Seq(T)) /\ <<>> \in Seq({})
    OBVIOUS
  <2> HIDE DEF T
  <2>2. SamplesOfAll(<<>>) = <<>>
    BY <1>2 DEF bs
  <2> QED BY <1>1, <1>2, <1>3, <2>1, <2>2 DEF Carries, T
<1>5. Places(its, z, 0, EmptyMap, <<>>)
  <2>1. 1 .. 0 = {} /\ DOMAIN <<>> = {}
    OBVIOUS
  <2> QED BY <2>1, EmptyDomain DEF Places
<1>6. AllFull(its, z, 0, <<>>, <<>>)
  BY <1>1, <1>3 DEF AllFull
<1> QED BY <1>4, <1>5, <1>6 DEF Whole

\* What is full is yielded, what is not is held.
LEMMA WholeYields ==
    ASSUME NEW its, NEW z \in Int, NEW n \in Nat, NEW s, NEW f, NEW S, NEW bs \in Seq(S),
           Carries(its, n, s, bs), Places(its, z, n, f, bs),
           z > 0 => AllFull(its, z, n, s, bs) /\ Len(s) <= z,
           z <= 0 => Len(bs) + 1 = n,
           NEW b, b.samples = s, b.findings = f,
           NEW s2, NEW f2, NEW bs2,
           IF Len(s) >= z THEN bs2 = Append(bs, b) /\ s2 = <<>> /\ f2 = EmptyMap
           ELSE s2 = s /\ f2 = f /\ bs2 = bs
    PROVE  Whole(its, z, n, s2, f2, bs2, "items")
<1>1. Len(s) \in Nat
  <2>1. s \in Seq(Elements(its))
    BY DEF Carries
  <2> HIDE DEF Elements
  <2> QED BY <2>1
<1>2. CASE Len(s) >= z
  <2>1. bs2 = Append(bs, b) /\ s2 = <<>> /\ f2 = EmptyMap
    BY <1>2
  <2>2. Carries(its, n, s2, bs2) /\ Places(its, z, n, f2, bs2)
    BY <2>1, CarriesBatch, PlacesBatch
  <2>3. Len(bs2) = Len(bs) + 1 /\ Len(bs) \in Nat
    BY <2>1, OneMore
  <2>4. AllFull(its, z, n, s2, bs2)
    <3>1. CASE z <= 0
      BY <2>3, <3>1 DEF AllFull
    <3>2. CASE z > 0
      <4>1. Len(s) = z /\ ~(z <= 0)
        BY <1>1, <1>2, <3>2
      <4>2. Cardinality(SamplesIn(its, n)) = Len(bs) * z + Len(s)
        BY <3>2, <4>1 DEF AllFull
      <4>3. (Len(bs) + 1) * z = Len(bs) * z + z
        BY <2>3
      <4>4. Len(s2) = 0 /\ (Len(bs) + 1) * z \in Int
        BY <2>1, <2>3
      <4>5. Cardinality(SamplesIn(its, n)) = Len(bs2) * z + Len(s2)
        BY <2>3, <4>1, <4>2, <4>3, <4>4
      <4> QED BY <4>1, <4>5 DEF AllFull
    <3> QED BY <3>1, <3>2
  <2> QED BY <2>2, <2>4 DEF Whole
<1>3. CASE ~(Len(s) >= z)
  <2>1. s2 = s /\ f2 = f /\ bs2 = bs /\ z > 0
    BY <1>1, <1>3
  <2> QED BY <2>1 DEF Whole
<1> QED BY <1>2, <1>3

\* One turn of the loop loses nothing and puts nothing elsewhere.
LEMMA WholeTakes ==
    ASSUME StreamInv, TakeItem
    PROVE  Whole(items, params.batch_size, taken + 1, pending', rext', batches', "items")
<1> DEFINE z == params.batch_size
           item == items[taken + 1]
           bs == batches
           more == Override(rext, [i \in {item.id} |-> "error"])
<1>1. /\ taken \in Nat /\ taken + 1 \in DOMAIN items /\ phase = "items"
      /\ IF item.kind = "sample" THEN YieldIfFull(Append(pending, item), rext)
         ELSE YieldIfFull(pending, more)
  <2>1. items \in Seq(Elements(items)) /\ taken \in 0 .. Len(items)
    BY DEF StreamInv, AreItems
  <2> HIDE DEF Elements
  <2>2. taken \in Nat /\ taken + 1 \in DOMAIN items
    BY <2>1 DEF TakeItem
  <2> QED BY <2>2 DEF TakeItem
<1>2. /\ AreItems(items) /\ Carries(items, taken, pending, bs)
      /\ Places(items, z, taken, rext, bs) /\ AllFull(items, z, taken, pending, bs)
  BY <1>1 DEF StreamInv, Whole
<1>3. z \in Int /\ (z > 0 => Len(pending) < z) /\ (z <= 0 => pending = <<>>)
  BY DEF StreamInv, IInv, Held, Full
<1>4. PICK S : bs \in Seq(S)
  BY DEF StreamInv, IInv
<1>5. pending \in Seq(Elements(items)) /\ item \in Elements(items) /\ Len(bs) \in Nat
  BY <1>1, <1>2, <1>4 DEF Carries, Elements
<1> HIDE DEF z, bs
<1>6. Len(pending) \in Nat
  <2> HIDE DEF Elements
  <2> QED BY <1>5
<1>7. CASE item.kind = "sample"
  <2> DEFINE s == Append(pending, item)
             b == Batch(s, rext)
  <2>1. Carries(items, taken + 1, s, bs) /\ Places(items, z, taken + 1, rext, bs)
    BY <1>1, <1>2, <1>7, CarriesSample, PlacesSample
  <2>2. Len(s) = Len(pending) + 1
    BY <1>5, AppendProperties
  <2>3. Cardinality(SamplesIn(items, taken + 1)) = Cardinality(SamplesIn(items, taken)) + 1
    <3> DEFINE I == SamplesIn(items, taken)
    <3>1. SamplesIn(items, taken + 1) = I \cup {taken + 1} /\ IsFiniteSet(I) /\ I \subseteq 1 .. taken
      BY <1>1, <1>7, SamplesGrow
    <3> HIDE DEF I
    <3>2. taken + 1 \notin I
      BY <1>1, <3>1
    <3> QED BY <3>1, <3>2, FS_AddElement DEF I
  <2>4. b.samples = s /\ b.findings = rext
    BY DEF Batch
  <2>5. IF Len(s) >= z THEN batches' = Append(bs, b) /\ pending' = <<>> /\ rext' = EmptyMap
        ELSE pending' = s /\ rext' = rext /\ batches' = bs
    BY <1>1, <1>7 DEF YieldIfFull, z, bs
  <2> HIDE DEF s, b, item
  <2>6. z > 0 => AllFull(items, z, taken + 1, s, bs) /\ Len(s) <= z
    <3>1. ASSUME z > 0 PROVE AllFull(items, z, taken + 1, s, bs) /\ Len(s) <= z
      <4>1. ~(z <= 0) /\ Len(bs) * z \in Int
        BY <1>3, <1>5, <3>1
      <4>2. Cardinality(SamplesIn(items, taken)) = Len(bs) * z + Len(pending)
        BY <1>2, <4>1 DEF AllFull
      <4>3. Cardinality(SamplesIn(items, taken + 1)) = Len(bs) * z + Len(s)
        BY <1>6, <2>2, <2>3, <4>1, <4>2
      <4> QED BY <1>3, <1>6, <2>2, <3>1, <4>1, <4>3 DEF AllFull
    <3> QED BY <3>1
  <2>7. z <= 0 => Len(bs) + 1 = taken + 1
    BY <1>2 DEF AllFull
  <2>8. taken + 1 \in Nat
    BY <1>1
  <2>9. Whole(items, z, taken + 1, pending', rext', batches', "items")
    BY <1>3, <1>4, <2>1, <2>4, <2>5, <2>6, <2>7, <2>8, WholeYields
  <2> QED BY <2>9 DEF z
<1>8. CASE item.kind # "sample"
  <2> DEFINE id == item.id
             b == Batch(pending, more)
  <2>1. item = Finding(id)
    BY <1>1, <1>2, <1>8 DEF AreItems
  <2>2. DOMAIN more = DOMAIN rext \cup {id}
    BY OverrideDomain
  <2>3. SamplesIn(items, taken + 1) = SamplesIn(items, taken)
    BY <1>1, <1>8, SamplesGrow
  <2>4. Carries(items, taken + 1, pending, bs)
    BY <1>2, <2>3 DEF Carries
  <2>5. BatchIn(items, z, taken + 1) = Len(bs)
    BY <1>1, <1>2, <1>3, <1>5, <1>6, NextPlace
  <2>6. b.samples = pending /\ b.findings = more
    BY DEF Batch
  <2>7. IF Len(pending) >= z THEN batches' = Append(bs, b) /\ pending' = <<>> /\ rext' = EmptyMap
        ELSE pending' = pending /\ rext' = more /\ batches' = bs
    BY <1>1, <1>8 DEF YieldIfFull, z, bs
  <2> HIDE DEF more, b, id
  <2>8. Places(items, z, taken + 1, more, bs)
    BY <1>1, <1>2, <1>5, <2>1, <2>2, <2>5, PlacesFinding
  <2>9. z > 0 => AllFull(items, z, taken + 1, pending, bs) /\ Len(pending) <= z
    <3>1. ASSUME z > 0 PROVE AllFull(items, z, taken + 1, pending, bs) /\ Len(pending) <= z
      <4>1. ~(z <= 0)
        BY <1>3, <3>1
      <4> QED BY <1>2, <1>3, <1>6, <2>3, <3>1, <4>1 DEF AllFull
    <3> QED BY <3>1
  <2>10. z <= 0 => Len(bs) + 1 = taken + 1
    BY <1>2 DEF AllFull
  <2>11. taken + 1 \in Nat
    BY <1>1
  <2>12. Whole(items, z, taken + 1, pending', rext', batches', "items")
    BY <1>3, <1>4, <2>4, <2>6, <2>7, <2>8, <2>9, <2>10, <2>11, WholeYields
  <2> QED BY <2>12 DEF z
<1> QED BY <1>7, <1>8

\* Nor does the trailing batch.
LEMMA WholeEnds ==
    ASSUME StreamInv, Trailing
    PROVE  Whole(items, params.batch_size, taken, pending', rext', batches', "done")
<1> DEFINE z == params.batch_size
<1>1. /\ pending' = <<>> /\ rext' = EmptyMap
      /\ batches' = IF pending # <<>> \/ rext # EmptyMap
                    THEN Append(batches, Batch(pending, rext)) ELSE batches
  BY DEF Trailing
<1>2. Carries(items, taken, pending, batches) /\ Places(items, z, taken, rext, batches)
  BY DEF StreamInv, Whole
<1>3. PICK S : batches \in Seq(S)
  BY DEF StreamInv, IInv
<1> HIDE DEF z
<1>4. Carries(items, taken, <<>>, batches') /\ Places(items, z, taken, EmptyMap, batches')
  <2>1. CASE pending # <<>> \/ rext # EmptyMap
    <3> DEFINE b == Batch(pending, rext)
    <3>1. b.samples = pending /\ b.findings = rext
      BY DEF Batch
    <3>2. batches' = Append(batches, b)
      BY <1>1, <2>1
    <3> HIDE DEF b
    <3> QED BY <1>2, <1>3, <3>1, <3>2, CarriesBatch, PlacesBatch
  <2>2. CASE ~(pending # <<>> \/ rext # EmptyMap)
    BY <1>1, <1>2, <2>2
  <2> QED BY <2>1, <2>2
<1>5. Whole(items, z, taken, pending', rext', batches', "done")
  BY <1>1, <1>4 DEF Whole
<1> QED BY <1>5 DEF z

-----------------------------------------------------------------------------
(* What _enumerate answers *)

\* The loop over the listing keeps a sequence of groups, whatever the names.
LEMMA GroupsTyped ==
    ASSUME NEW e \in Seq(Entry)
    PROVE  GroupByDirectory(e) \in Seq(Group)
<1> DEFINE N == Len(e)
<1>1. N \in Nat /\ DOMAIN e = 1 .. N
  OBVIOUS
<1>2. PICK f : Grows(f, e, N) /\ GroupByDirectory(e) = f[N]
  <2> DEFINE h == CHOOSE h : Grows(h, e, N)
  <2>1. Grows(h, e, N)
    BY <1>1, GrowsDefined
  <2>2. GroupByDirectory(e) = h[N]
    BY Grown
  <2> QED BY <2>1, <2>2
<1>3. ASSUME NEW r \in Group, NEW x \in Entry PROVE GroupWith(r, x) \in Group
  BY DEF GroupWith, Group, Entry
<1>4. ASSUME NEW g \in Seq(Group), NEW x \in Entry PROVE AddToGroups(g, x) \in Seq(Group)
  <2> DEFINE d == Dir[x.name]
             k == SelectInSeq(g, LAMBDA r : r.id = Basename[d])
  <2>1. AddToGroups(g, x) = IF d = Top THEN g
          ELSE IF k = 0 THEN Append(g, GroupWith(NewGroup(d), x))
          ELSE [g EXCEPT ![k] = GroupWith(@, x)]
    BY DEF AddToGroups
  <2>2. d \in DOMAIN Basename
    BY FilesAssumption DEF Entry
  <2> HIDE DEF d, k
  <2>3. NewGroup(d) \in Group
    BY <2>2 DEF NewGroup, Group
  <2>4. GroupWith(NewGroup(d), x) \in Group
    BY <1>3, <2>3
  <2>5. CASE k \in DOMAIN g
    <3>1. GroupWith(g[k], x) \in Group
      BY <1>3, <2>5
    <3> DEFINE r == GroupWith(g[k], x)
               q == GroupWith(NewGroup(d), x)
    <3>2. r \in Group /\ q \in Group
      BY <2>4, <3>1
    <3>3. AddToGroups(g, x) = IF d = Top THEN g
            ELSE IF k = 0 THEN Append(g, q) ELSE [g EXCEPT ![k] = r]
      BY <2>1
    <3> HIDE DEF r, q
    <3>4. Append(g, q) \in Seq(Group)
      BY <3>2
    <3>5. [g EXCEPT ![k] = r] \in Seq(Group)
      BY <2>5, <3>2
    <3> QED BY <3>3, <3>4, <3>5
  <2>6. CASE k \notin DOMAIN g
    <3> DEFINE q == GroupWith(NewGroup(d), x)
    <3>1. [g EXCEPT ![k] = GroupWith(@, x)] = g
      BY <2>6
    <3>2. q \in Group /\ AddToGroups(g, x) = IF d = Top THEN g
            ELSE IF k = 0 THEN Append(g, q) ELSE g
      BY <2>1, <2>4, <3>1
    <3> HIDE DEF q
    <3> QED BY <3>2
  <2> QED BY <2>5, <2>6
<1> HIDE DEF N
<1> DEFINE Bad == {m \in 0 .. N : f[m] \notin Seq(Group)}
<1>5. Bad = {}
  <2> SUFFICES ASSUME Bad # {} PROVE FALSE
    OBVIOUS
  <2>1. PICK m \in Bad : \A k \in Bad : m <= k
    <3>1. Bad \subseteq Nat
      BY <1>1
    <3> HIDE DEF Bad
    <3> QED BY <3>1, LeastPosition
  <2>2. m \in 0 .. N /\ f[m] \notin Seq(Group)
    BY <2>1
  <2>3. f[m] = IF m = 0 THEN <<>> ELSE AddToGroups(f[m - 1], e[m])
    BY <1>1, <1>2, <2>2, GrowsAt
  <2>4. CASE m = 0
    BY <2>2, <2>3, <2>4
  <2>5. CASE m # 0
    <3>1. ~(m <= m - 1) /\ m \in DOMAIN e /\ m - 1 \in 0 .. N
      BY <1>1, <2>2, <2>5
    <3>2. f[m - 1] \in Seq(Group) /\ e[m] \in Entry
      BY <2>1, <3>1
    <3> QED BY <1>4, <2>2, <2>3, <2>5, <3>2
  <2> QED BY <2>4, <2>5
<1>6. f[N] \in Seq(Group)
  BY <1>1, <1>5
<1> QED BY <1>2, <1>6

\* What the two loaders are given.
LEMMA Reached ==
    ASSUME Listed
    PROVE  /\ params.loader = "egoverse" =>
                 IsListing(ListFiles(listing), DOMAIN tree, tree)
           /\ params.loader = "flat" =>
                 IsListing(Media(ListFiles(listing)),
                           {f \in DOMAIN tree : Ext[f] = "video" /\ (params.recursive \/ Dir[f] = Top)},
                           tree)
           /\ params.loader \in {"flat", "egoverse"}
           /\ params.max_samples = NoMax \/ params.max_samples \in Int
           /\ tree \in Trees
<1> DEFINE r == params.loader = "egoverse" \/ params.recursive
           F == {f \in DOMAIN tree : r \/ Dir[f] = Top}
           e == ListFiles(listing)
<1>1. /\ params.loader \in {"flat", "egoverse"} /\ params.recursive \in BOOLEAN
      /\ params.max_samples = NoMax \/ params.max_samples \in Int
      /\ tree \in Trees /\ r \in BOOLEAN
  BY ParamsAssumption DEF Listed
<1>2. IsListing(e, F, tree)
  BY <1>1, ListingIs DEF Listed
<1> HIDE DEF e
<1>3. params.loader = "egoverse" => F = DOMAIN tree
  OBVIOUS
<1>4. params.loader = "flat" =>
         {f \in F : Ext[f] = "video"}
           = {f \in DOMAIN tree : Ext[f] = "video" /\ (params.recursive \/ Dir[f] = Top)}
  BY <1>1
<1> HIDE DEF F
<1>5. IsListing(Media(e), {f \in F : Ext[f] = "video"}, tree)
  BY <1>2, MediaIs
<1> QED BY <1>1, <1>2, <1>3, <1>4, <1>5 DEF e

\* Samples and findings, in a sequence.
LEMMA EnumerateTyped ==
    ASSUME Listed, NEW its,
           its = Enumerate(params.loader, listing, params.order, params.max_samples)
    PROVE  AreItems(its)
<1> DEFINE e == ListFiles(listing)
           max == params.max_samples
           order == params.order
<1>1. max = NoMax \/ max \in Int
  BY Reached
<1>2. CASE params.loader = "flat"
  <2> DEFINE F == {f \in DOMAIN tree : Ext[f] = "video" /\ (params.recursive \/ Dir[f] = Top)}
  <2>1. IsListing(Media(e), F, tree) /\ F \subseteq DOMAIN tree /\ tree \in Trees
    BY <1>2, Reached
  <2>2. its = FlatItems(e, order, max)
    BY <1>2 DEF Enumerate
  <2> HIDE DEF F, e, order, max
  <2> QED BY <1>1, <2>1, <2>2, FlatAnswers
<1>3. CASE params.loader = "egoverse"
  <2> DEFINE g == GroupByDirectory(e)
             s == SortedBy(g, EgKeys(g, order))
             c == Cut(s, max)
             k == Kept(Len(s), max)
  <2>1. its = [i \in DOMAIN c |-> ItemOf(c[i])]
    <3>1. its = EgoverseItems(e, order, max)
      BY <1>3 DEF Enumerate
    <3> QED BY <3>1 DEF EgoverseItems, EgKeys, ItemOf
  <2>2. e \in Seq(Entry)
    BY <1>3, Reached DEF IsListing
  <2> HIDE DEF e, order, max
  <2>3. g \in Seq(Group)
    BY <2>2, GroupsTyped
  <2> HIDE DEF g
  <2>4. DOMAIN s = DOMAIN g /\ DOMAIN g = 1 .. Len(g) /\ Len(g) \in Nat
    BY <2>3 DEF SortedBy
  <2>5. Len(s) = Len(g)
    <3>1. s = [i \in 1 .. Len(g) |-> s[i]]
      BY <2>4 DEF SortedBy
    <3> HIDE DEF s
    <3> QED BY <2>4, <3>1
  <2> HIDE DEF s
  <2>6. k \in 0 .. Len(g)
    BY <1>1, <2>4, <2>5, KeptIs
  <2>7. DOMAIN c = 1 .. k
    BY DEF Cut
  <2> HIDE DEF c, k
  <2>8. its = [i \in 1 .. k |-> ItemOf(c[i])]
    BY <2>1, <2>7
  <2>9. DOMAIN its = 1 .. k /\ its \in Seq(Elements(its))
    <3>1. DOMAIN its = 1 .. k /\ k \in Nat
      BY <2>4, <2>6, <2>8
    <3>2. its \in [1 .. k -> Elements(its)]
      BY <2>8, <3>1 DEF Elements
    <3> HIDE DEF Elements
    <3> QED BY <3>1, <3>2
  <2>10. \A i \in DOMAIN its : its[i].kind # "sample" => its[i] = Finding(its[i].id)
    <3> SUFFICES ASSUME NEW i \in 1 .. k, its[i].kind # "sample"
                 PROVE  its[i] = Finding(its[i].id)
      BY <2>9
    <3>1. its[i] = ItemOf(c[i])
      BY <2>8
    <3> QED BY <3>1 DEF ItemOf, Finding, SampleOf
  <2> QED BY <2>9, <2>10 DEF AreItems
<1> QED BY <1>2, <1>3, Reached

\* No items are items.
LEMMA NoItemsTyped == AreItems(<<>>)
BY DEF AreItems, Elements

-----------------------------------------------------------------------------
(* The invariant of the stream *)

\* A stream starts whole.
LEMMA StreamInit == Init => StreamInv
<1> SUFFICES ASSUME Init PROVE StreamInv
  OBVIOUS
<1>1. /\ phase = "listing" /\ items = <<>> /\ taken = 0 /\ pending = <<>> /\ rext = EmptyMap
      /\ batches = <<>>
  BY DEF Init
<1>2. IInv /\ params.batch_size \in Int
  BY InitInv DEF IInv
<1>3. Listed
  BY <1>1 DEF Init, Listed
<1>4. Whole(items, params.batch_size, taken, pending, rext, batches, phase)
  BY <1>1, <1>2, NoItemsTyped, NothingYet
<1>5. taken \in 0 .. Len(items)
  BY <1>1
<1> QED BY <1>1, <1>2, <1>3, <1>4, <1>5, NoItemsTyped DEF StreamInv

\* The listing is what it was, and so are the items once they are listed.
LEMMA ListedKept == Listed /\ Next => Listed'
<1> SUFFICES ASSUME Listed, Next PROVE Listed'
  OBVIOUS
<1>1. tree' = tree /\ params' = params /\ listing' = listing
  BY DEF Next, List, Raises, TakeItem, Trailing, input
<1>2. CASE List
  BY <1>1, <1>2 DEF List, Listed
<1>3. CASE Raises
  BY <1>1, <1>3 DEF Raises, Listed
<1>4. CASE TakeItem
  BY <1>1, <1>4 DEF TakeItem, Listed
<1>5. CASE Trailing
  BY <1>1, <1>5 DEF Trailing, Listed, input
<1> QED BY <1>2, <1>3, <1>4, <1>5 DEF Next

\* Every step keeps the stream whole.
LEMMA StreamStep == StreamInv /\ [Next]_vars => StreamInv'
<1> SUFFICES ASSUME StreamInv, [Next]_vars PROVE StreamInv'
  OBVIOUS
<1>1. IInv'
  BY InductiveStep DEF StreamInv
<1>2. CASE UNCHANGED vars
  BY <1>1, <1>2 DEF StreamInv, Listed, vars
<1>3. CASE Next
  <2>1. Listed' /\ params' = params
    BY <1>3, ListedKept DEF StreamInv, Next, List, Raises, TakeItem, Trailing, input
  <2>2. CASE List
    <3>1. /\ taken' = 0 /\ pending' = <<>> /\ rext' = EmptyMap /\ batches' = <<>>
          /\ phase' = "items"
          /\ items' = Enumerate(params.loader, listing, params.order, params.max_samples)
      BY <2>2 DEF List, StreamInv, Whole
    <3>2. AreItems(items')
      BY <3>1, EnumerateTyped DEF StreamInv
    <3>3. Whole(items', params.batch_size, taken', pending', rext', batches', phase')
      BY <3>1, <3>2, NothingYet DEF StreamInv, IInv
    <3>4. taken' \in 0 .. Len(items')
      <4>1. items' \in Seq(Elements(items'))
        BY <3>2 DEF AreItems
      <4> HIDE DEF Elements
      <4>2. Len(items') \in Nat
        BY <4>1
      <4> QED BY <3>1, <4>2
    <3> QED BY <1>1, <2>1, <3>2, <3>3, <3>4 DEF StreamInv
  <2>3. CASE Raises
    <3>1. /\ phase' = "raised" /\ phase # "done"
          /\ UNCHANGED <<items, taken, pending, rext, batches>>
      BY <2>3 DEF Raises
    <3> QED BY <1>1, <2>1, <3>1 DEF StreamInv, Whole
  <2>4. CASE TakeItem
    <3>1. phase' = "items" /\ items' = items /\ taken' = taken + 1 /\ taken < Len(items)
      BY <2>4 DEF TakeItem
    <3>2. Whole(items, params.batch_size, taken + 1, pending', rext', batches', "items")
      BY <2>4, WholeTakes
    <3>3. taken + 1 \in 0 .. Len(items)
      <4>1. items \in Seq(Elements(items)) /\ taken \in 0 .. Len(items)
        BY DEF StreamInv, AreItems
      <4> HIDE DEF Elements
      <4> QED BY <3>1, <4>1
    <3> QED BY <1>1, <2>1, <3>1, <3>2, <3>3 DEF StreamInv
  <2>5. CASE Trailing
    <3>1. phase' = "done" /\ items' = items /\ taken' = taken
      BY <2>5 DEF Trailing
    <3>2. Whole(items, params.batch_size, taken, pending', rext', batches', "done")
      BY <2>5, WholeEnds
    <3> QED BY <1>1, <2>1, <3>1, <3>2 DEF StreamInv
  <2> QED BY <1>3, <2>2, <2>3, <2>4, <2>5 DEF Next
<1> QED BY <1>2, <1>3

LEMMA StreamIsInductive == Spec => []StreamInv
BY StreamInit, StreamStep, PTL DEF Spec

\* kernel.py 77-78, "Findings ride along with the batch under construction, and
\* a trailing batch carrying nothing but findings is still emitted": whatever
\* the loader, the tree and the parameters, and wherever an exception ends the
\* stream, the samples taken are those yielded and held, in order, and each
\* finding is in the batch it came with and in no other.
THEOREM NothingLost == Spec => []StreamIsWhole
<1>1. StreamInv => StreamIsWhole
  <2> SUFFICES ASSUME StreamInv PROVE StreamIsWhole
    OBVIOUS
  <2> DEFINE z == params.batch_size
  <2>1. /\ Carries(items, taken, pending, batches)
        /\ Places(items, z, taken, rext, batches)
        /\ phase = "done" => pending = <<>> /\ rext = EmptyMap
    BY DEF StreamInv, Whole
  <2>2. \A n : Samples(n) = SamplesIn(items, n)
    BY DEF Samples, SamplesIn
  <2>3. \A i : BatchOf(i) = BatchIn(items, z, i)
    BY <2>2 DEF BatchOf, BatchIn
  <2>4. Emitted = FlattenSeq(SamplesOfAll(batches))
    BY DEF Emitted, SamplesOfAll
  <2>5. Emitted \o pending = At(items, Samples(taken))
    BY <2>1, <2>2, <2>4 DEF Carries
  <2>6. ASSUME NEW i \in 1 .. taken, items[i].kind = "finding"
        PROVE  IF BatchOf(i) < Len(batches)
               THEN items[i].id \in DOMAIN batches[BatchOf(i) + 1].findings
               ELSE items[i].id \in DOMAIN rext
    <3> DEFINE b == BatchOf(i)
    <3>1. /\ b \in 0 .. Len(batches)
          /\ b < Len(batches) => items[i].id \in DOMAIN batches[b + 1].findings
          /\ b = Len(batches) => items[i].id \in DOMAIN rext
      BY <2>1, <2>3, <2>6 DEF Places
    <3> HIDE DEF b
    <3>2. Len(batches) \in Nat
      BY DEF StreamInv, IInv
    <3>3. b < Len(batches) \/ b = Len(batches)
      BY <3>1, <3>2
    <3> QED BY <3>1, <3>3 DEF b
  <2>7. \A b \in DOMAIN batches : \A id \in DOMAIN batches[b].findings :
           \E i \in 1 .. taken : items[i] = Finding(id) /\ BatchOf(i) = b - 1
    BY <2>1, <2>3 DEF Places
  <2> QED BY <2>1, <2>5, <2>6, <2>7 DEF StreamIsWhole
<1> QED BY <1>1, StreamIsInductive, PTL

\* loaders.md, "Within a directory the largest media file wins": where no two
\* sample directories have one name, every item of the egoverse loader is that
\* of a directory, with its largest video and its sidecar, or the finding of a
\* directory with no video that is not empty.
THEOREM LargestWins == Spec => [](NamesAreUnique => LargestVideoWins)
<1>1. StreamInv => (NamesAreUnique => LargestVideoWins)
  <2> SUFFICES ASSUME NamesAreUnique, StreamInv, params.loader = "egoverse",
                      NEW i \in DOMAIN items
               PROVE  Right(items[i], tree)
    <3>1. Dirs(tree) = SampleDirs
      BY DEF SampleDirs, Dirs
    <3>2. \A d : Vids(tree, d) = Videos(d)
      BY DEF Vids, Videos
    <3>3. \A f : Sz(tree, f) = SizeOf(f)
      BY DEF Sz, SizeOf
    <3> QED BY <3>1, <3>2, <3>3 DEF LargestVideoWins, Right, Sidecars
  <2>1. /\ IsListing(ListFiles(listing), DOMAIN tree, tree) /\ tree \in Trees
        /\ params.max_samples = NoMax \/ params.max_samples \in Int
    BY Reached DEF StreamInv
  <2>2. items = <<>> \/ items = EgoverseItems(ListFiles(listing), params.order, params.max_samples)
    BY DEF StreamInv, Listed, Enumerate
  <2> DEFINE e == ListFiles(listing)
             order == params.order
             max == params.max_samples
  <2>3. items = EgoverseItems(e, order, max)
    BY <2>2
  <2> HIDE DEF e, order, max
  <2> QED BY <2>1, <2>3, EgoverseAnswers DEF e, max
<1> QED BY <1>1, StreamIsInductive, PTL

\* flat_dir.py 32-33, "ascending" and "stop after N samples": every media file
\* or directory gets one answer, lowest first, and with max_samples it is the
\* lowest that are answered, whatever order the listing had.
THEOREM LowestAnswered ==
    Spec => []((params.loader = "egoverse" => NamesAreUnique) => LowestAreAnswered)
<1>1. StreamInv => ((params.loader = "egoverse" => NamesAreUnique) => LowestAreAnswered)
  <2> SUFFICES ASSUME StreamInv, params.loader = "egoverse" => NamesAreUnique,
                      phase \in {"items", "done"}
               PROVE  Answers(items, Wanted, params.max_samples)
    BY DEF LowestAreAnswered, Answers
  <2> DEFINE e == ListFiles(listing)
             order == params.order
             max == params.max_samples
  <2>1. Listed /\ items = Enumerate(params.loader, listing, order, max)
    BY DEF StreamInv, Listed
  <2>2. tree \in Trees /\ (max = NoMax \/ max \in Int)
    BY <2>1, Reached
  <2>3. CASE params.loader = "flat"
    <3> DEFINE F == {f \in DOMAIN tree : Ext[f] = "video" /\ (params.recursive \/ Dir[f] = Top)}
    <3>1. IsListing(Media(e), F, tree) /\ F \subseteq DOMAIN tree
      BY <2>1, <2>3, Reached
    <3>2. items = FlatItems(e, order, max)
      BY <2>1, <2>3 DEF Enumerate
    <3>3. Wanted = FlatWanted(F, tree, order)
      BY <2>3 DEF Wanted, FlatWanted, SizeOf, Sz
    <3> HIDE DEF F, e, order, max
    <3>4. Answers(items, FlatWanted(F, tree, order), max)
      BY <2>1, <2>2, <3>1, <3>2, Reached, FlatAnswers
    <3> QED BY <3>3, <3>4 DEF max
  <2>4. CASE params.loader = "egoverse"
    <3>1. IsListing(e, DOMAIN tree, tree)
      BY <2>1, <2>4, Reached
    <3>2. items = EgoverseItems(e, order, max)
      BY <2>1, <2>4 DEF Enumerate
    <3>3. Wanted = EgWanted(tree, order)
      <4>1. Dirs(tree) = SampleDirs
        BY DEF SampleDirs, Dirs
      <4>2. \A d : LargestOf(tree, d) = Max({0} \cup {SizeOf(f) : f \in Videos(d)})
        <5>1. \A d : Vids(tree, d) = Videos(d)
          BY DEF Vids, Videos
        <5>2. \A f : Sz(tree, f) = SizeOf(f)
          BY DEF Sz, SizeOf
        <5> QED BY <5>1, <5>2 DEF LargestOf
      <4>3. Wanted = {[id |-> Basename[d], of |-> d,
                       key |-> IF params.order = "size"
                               THEN Max({0} \cup {SizeOf(f) : f \in Videos(d)}) ELSE d] :
                        d \in SampleDirs}
        BY <2>4 DEF Wanted
      <4> DEFINE one(d) == [id |-> Basename[d], of |-> d,
                            key |-> IF params.order = "size" THEN LargestOf(tree, d) ELSE d]
                 two(d) == [id |-> Basename[d], of |-> d,
                            key |-> IF params.order = "size"
                                    THEN Max({0} \cup {SizeOf(f) : f \in Videos(d)}) ELSE d]
      <4>4. \A d : one(d) = two(d)
        BY <4>2
      <4>5. Wanted = {two(d) : d \in SampleDirs}
        BY <4>3
      <4>6. EgWanted(tree, order) = {one(d) : d \in SampleDirs}
        BY <4>1 DEF EgWanted
      <4> HIDE DEF one, two
      <4> QED BY <4>4, <4>5, <4>6
    <3> HIDE DEF e, order, max
    <3>4. NamesAreUnique
      BY <2>4
    <3>5. Answers(items, EgWanted(tree, order), max)
      BY <2>2, <3>1, <3>2, <3>4, EgoverseAnswers
    <3> QED BY <3>3, <3>5 DEF max
  <2> QED BY <2>1, <2>3, <2>4, Reached
<1> QED BY <1>1, StreamIsInductive, PTL
=============================================================================
