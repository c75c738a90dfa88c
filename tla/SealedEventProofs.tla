-------------------------- MODULE SealedEventProofs -------------------------
(***************************************************************************)
(* What is decided from sealed events alone, for every value of the        *)
(* constants: the memory projections rebuilt from the sealed events of     *)
(* several streams, and the acceptance gate of a generated puzzle, whose   *)
(* decision is sealed with its evidence.                                   *)
(*                                                                         *)
(* Both are pure functions, so the work is in lemmas about them.  The      *)
(* memory projections need one inductive invariant, Chained: every stream  *)
(* is the chain its writer made.  From it, a rebuild depends only on the   *)
(* set of events and their number; sums over attempts are sizes of unions  *)
(* of disjoint sets of events; and an index in step with the first n       *)
(* events of its stream is in step with n + 1, so the least n where it is  *)
(* not does not exist.  A generation decision is never changed once made,  *)
(* so its invariant is inductive as it stands.                             *)
(***************************************************************************)
EXTENDS Generation, MemoryProjections, FiniteSetTheorems, FunctionTheorems, SequenceTheorems,
        WellFoundedInduction, TLAPS

----------------------------------------------------------------------------
(* Sums. *)

(* The sum over a function is computed by a function on the subsets of its domain. *)
Sums(f, it) ==
  it = [t \in SUBSET DOMAIN f |->
          IF t = {} THEN 0 ELSE f[CHOOSE x \in t : TRUE] + it[t \ {CHOOSE x \in t : TRUE}]]

(* The sum over a function is one of those functions, applied to the whole    *)
(* domain.                                                                    *)
LEMMA TotalIsSum ==
  ASSUME NEW f, NEW it0, Sums(f, it0)
  PROVE  \E it : Sums(f, it) /\ Total(f) = it[DOMAIN f]
  <1> DEFINE it == CHOOSE it : Sums(f, it)
  <1>1. Sums(f, it)
    BY Zenon
  <1>2. Total(f) = it[DOMAIN f]
    BY DEF Total, FoldFunction, FoldFunctionOnSet, MapThenFoldSet, Sums
  <1>3. QED
    BY <1>1, <1>2

(* A set of naturals that is not empty has a least member. *)
LEMMA LeastNat ==
  ASSUME NEW S \in SUBSET Nat, S # {}
  PROVE  \E n \in S : \A m \in S : n <= m
  <1>1. PICK n \in S : \A m \in S : ~ (<<m, n>> \in OpToRel(<, Nat))
    BY NatLessThanWellFounded, WFMin
  <1>2. \A m \in S : ~ (m < n)
    BY <1>1 DEF OpToRel
  <1>3. QED
    BY <1>2

(* Any two such functions agree on a finite domain. *)
LEMMA SumsAgree ==
  ASSUME NEW f, IsFiniteSet(DOMAIN f), NEW g, NEW h, Sums(f, g), Sums(f, h)
  PROVE  g[DOMAIN f] = h[DOMAIN f]
  <1> DEFINE Wrong(t) == t \in SUBSET DOMAIN f /\ g[t] # h[t]
             Sizes == {n \in Nat : \E t : Wrong(t) /\ Cardinality(t) = n}
             Rest(t) == t \ {CHOOSE x \in t : TRUE}
  <1>1. SUFFICES ASSUME g[DOMAIN f] # h[DOMAIN f] PROVE FALSE
    OBVIOUS
  <1>2. Cardinality(DOMAIN f) \in Sizes
    BY <1>1, FS_CardinalityType
  <1>3. PICK n \in Sizes : \A m \in Sizes : n <= m
    <2> HIDE DEF Sizes
    <2> QED BY <1>2, LeastNat DEF Sizes
  <1>4. PICK t : Wrong(t) /\ Cardinality(t) = n
    BY <1>3
  <1>5. IsFiniteSet(t)
    BY <1>4, FS_Subset
  <1>6. t # {}
    BY <1>4 DEF Sums
  <1>7. (CHOOSE x \in t : TRUE) \in t
    BY <1>6
  <1>8. Cardinality(Rest(t)) = n - 1 /\ Cardinality(Rest(t)) \in Nat
    BY <1>4, <1>5, <1>7, FS_RemoveElement, FS_CardinalityType
  <1>9. g[Rest(t)] = h[Rest(t)]
    <2>1. CASE Wrong(Rest(t))
      BY <2>1, <1>3, <1>8
    <2>2. CASE ~Wrong(Rest(t))
      BY <2>2, <1>4
    <2>3. QED
      BY <2>1, <2>2
  <1>10. /\ g[t] = f[CHOOSE x \in t : TRUE] + g[Rest(t)]
         /\ h[t] = f[CHOOSE x \in t : TRUE] + h[Rest(t)]
    BY <1>4, <1>6 DEF Sums
  <1>11. QED
    BY <1>4, <1>9, <1>10

(* Disjoint finite sets add up. *)
LEMMA DisjointCardinality ==
  ASSUME NEW S, IsFiniteSet(S), NEW T, IsFiniteSet(T), S \cap T = {}
  PROVE  Cardinality(S \cup T) = Cardinality(S) + Cardinality(T)
  <1>1. /\ Cardinality(S \cup T) = Cardinality(S) + Cardinality(T) - Cardinality(S \cap T)
        /\ Cardinality(S) \in Nat /\ Cardinality(T) \in Nat
    BY FS_Union, FS_CardinalityType
  <1>2. QED
    BY <1>1, FS_EmptySet

(* The sizes of pairwise disjoint finite sets add up to the size of their     *)
(* union.                                                                     *)
LEMMA TotalOfDisjoint ==
  ASSUME NEW D, IsFiniteSet(D), NEW A, \A x \in D : IsFiniteSet(A[x]),
         \A x, y \in D : x # y => A[x] \cap A[y] = {}
  PROVE  /\ Total([x \in D |-> Cardinality(A[x])]) = Cardinality(UNION {A[x] : x \in D})
         /\ IsFiniteSet(UNION {A[x] : x \in D})
  <1> DEFINE f == [x \in D |-> Cardinality(A[x])]
             Of(t) == UNION {A[x] : x \in t}
             it0 == [t \in SUBSET D |-> Cardinality(Of(t))]
  <1>1. ASSUME NEW t \in SUBSET D PROVE IsFiniteSet(Of(t))
    <2>1. IsFiniteSet(t)
      BY FS_Subset
    <2> DEFINE image == [x \in t |-> A[x]]
    <2>2. image \in Surjection(t, {A[x] : x \in t})
      BY DEF Surjection
    <2>3. IsFiniteSet({A[x] : x \in t})
      BY <2>1, <2>2, FS_Surjection
    <2>4. QED
      BY <2>3, FS_UNION
  <1>2. ASSUME NEW t \in SUBSET D, t # {}
        PROVE  LET x == CHOOSE y \in t : TRUE IN Cardinality(Of(t)) = f[x] + Cardinality(Of(t \ {x}))
    <2> DEFINE x == CHOOSE y \in t : TRUE
    <2>1. x \in t
      BY <1>2
    <2> HIDE DEF x
    <2>2. /\ Of(t) = A[x] \cup Of(t \ {x})
          /\ A[x] \cap Of(t \ {x}) = {}
      BY <2>1
    <2>3. IsFiniteSet(A[x]) /\ IsFiniteSet(Of(t \ {x}))
      BY <1>1, <2>1
    <2> HIDE DEF Of
    <2>4. Cardinality(Of(t)) = Cardinality(A[x]) + Cardinality(Of(t \ {x}))
      BY <2>2, <2>3, DisjointCardinality
    <2>5. QED
      BY <2>1, <2>4 DEF x
  <1>3. Cardinality(Of({})) = 0
    BY FS_EmptySet
  <1>4. Sums(f, it0)
    <2> HIDE DEF Of
    <2>1. ASSUME NEW t \in SUBSET D
          PROVE it0[t] = IF t = {} THEN 0
                         ELSE f[CHOOSE x \in t : TRUE] + it0[t \ {CHOOSE x \in t : TRUE}]
      <3>1. CASE t = {}
        BY <3>1, <1>3
      <3>2. CASE t # {}
        BY <3>2, <1>2
      <3>3. QED
        BY <3>1, <3>2
    <2>2. QED
      BY <2>1 DEF Sums
  <1>5. PICK it : Sums(f, it) /\ Total(f) = it[DOMAIN f]
    BY <1>4, TotalIsSum
  <1>6. Total(f) = it0[D]
    <2> HIDE DEF it0
    <2>1. DOMAIN f = D
      OBVIOUS
    <2> HIDE DEF f
    <2> QED BY <1>4, <1>5, <2>1, SumsAgree
  <1>7. QED
    BY <1>1, <1>6

----------------------------------------------------------------------------
(* The chains. *)

(* What a stream can hold, and the digests its events can have. *)
AnyPayload == UNION {First(s) \cup Payloads(s) : s \in Streams}
Hashes == {Genesis} \cup {<<<<s, n>>, p>> : s \in Streams, n \in Nat, p \in AnyPayload}
SealedEvents ==
  {ProjectionEvent(s, n, h, p) : s \in Streams, n \in Nat, h \in Hashes, p \in AnyPayload}

(* The inductive invariant: each event is the one seal_projection_event made  *)
(* at its place.                                                              *)
Chained ==
  /\ streams \in [Streams -> Seq(SealedEvents)]
  /\ \A s \in Streams : \A i \in 1 .. Len(streams[s]) :
       /\ streams[s][i] =
            ProjectionEvent(s, i - 1, IF i = 1 THEN Genesis ELSE streams[s][i - 1].event_hash,
                            streams[s][i].payload)
       /\ streams[s][i].payload \in IF i = 1 THEN First(s) ELSE Payloads(s)

(* Nothing sealed is chained. *)
LEMMA ChainedInit == NothingSealed => Chained
  BY DEF NothingSealed, Chained

(* Sealing an event extends the chain of its stream and touches no other. *)
LEMMA ChainedStep == Chained /\ [Seal]_streams => Chained'
  <1> SUFFICES ASSUME Chained, [Seal]_streams PROVE Chained'
    OBVIOUS
  <1>1. CASE UNCHANGED streams
    BY <1>1 DEF Chained
  <1>2. CASE Seal
    <2>1. PICK s \in Streams : \E p \in First(s) \cup Payloads(s) : seal_projection_event(s, p)
      BY <1>2 DEF Seal
    <2>2. PICK p \in First(s) \cup Payloads(s) : seal_projection_event(s, p)
      BY <2>1
    <2> DEFINE previous == IF streams[s] = <<>> THEN Genesis ELSE Last(streams[s]).event_hash
               e == ProjectionEvent(s, Len(streams[s]), previous, p)
    <2>3. /\ p \in IF streams[s] = <<>> THEN First(s) ELSE Payloads(s)
          /\ streams' = [streams EXCEPT ![s] = Append(@, e)]
      BY <2>2 DEF seal_projection_event
    <2>4. /\ streams \in [Streams -> Seq(SealedEvents)] /\ Len(streams[s]) \in Nat
          /\ streams[s] \in Seq(SealedEvents)
      BY DEF Chained
    <2>5. e.payload = p
      BY DEF ProjectionEvent
    <2>6. previous \in Hashes
      <3>1. CASE streams[s] = <<>>
        BY <3>1 DEF Hashes
      <3>2. CASE streams[s] # <<>>
        <4>1. Len(streams[s]) \in 1 .. Len(streams[s])
          BY <3>2, <2>4
        <4>2. PICK f \in SealedEvents : f = Last(streams[s])
          BY <4>1, <2>4 DEF Last
        <4>3. f.event_hash \in Hashes
          BY DEF SealedEvents, ProjectionEvent, Hashes
        <4>4. QED
          BY <4>2, <4>3, <3>2
      <3>3. QED
        BY <3>1, <3>2
    <2>7. e \in SealedEvents
      <3>1. p \in AnyPayload
        BY DEF AnyPayload
      <3> HIDE DEF previous
      <3>2. QED
        BY <3>1, <2>4, <2>6 DEF SealedEvents
    <2> HIDE DEF e
    <2>8. streams' \in [Streams -> Seq(SealedEvents)]
      BY <2>3, <2>4, <2>7
    <2>9. ASSUME NEW t \in Streams, NEW i \in 1 .. Len(streams'[t])
          PROVE  /\ streams'[t][i] =
                      ProjectionEvent(t, i - 1, IF i = 1 THEN Genesis ELSE streams'[t][i - 1].event_hash,
                                      streams'[t][i].payload)
                 /\ streams'[t][i].payload \in IF i = 1 THEN First(t) ELSE Payloads(t)
      <3>1. CASE t # s
        BY <3>1, <2>3, <2>4 DEF Chained
      <3>2. CASE t = s /\ i <= Len(streams[s])
        <4>1. /\ streams'[t][i] = streams[s][i]
              /\ i # 1 => streams'[t][i - 1] = streams[s][i - 1]
              /\ i \in 1 .. Len(streams[s])
          BY <3>2, <2>3, <2>4, <2>7
        <4>2. QED
          BY <4>1, <3>2 DEF Chained
      <3>3. CASE t = s /\ i = Len(streams[s]) + 1
        <4>1. /\ streams'[t][i] = e
              /\ i # 1 => streams'[t][i - 1] = streams[s][Len(streams[s])]
              /\ i = 1 <=> streams[s] = <<>>
          BY <3>3, <2>3, <2>4, <2>7
        <4>2. QED
          BY <4>1, <3>3, <2>3, <2>4, <2>5 DEF e, Last
      <3>4. QED
        BY <3>1, <3>2, <3>3, <2>3, <2>4, <2>7
    <2>10. QED
      BY <2>8, <2>9 DEF Chained
  <1>3. QED
    BY <1>1, <1>2

(* Every stream is always the chain its writer made: seal_projection_event    *)
(* sets the number, the previous hash and the digest from the stream itself.  *)
THEOREM AlwaysChained == MemorySpec => []Chained
  BY ChainedInit, ChainedStep, PTL DEF MemorySpec

(* What the chains say of each event sealed: its number, its stream, its      *)
(* digest, and that no two events have one id.                                *)
LEMMA SealedFacts ==
  ASSUME Chained
  PROVE  /\ \A s \in Streams :
              /\ Len(streams[s]) \in Nat /\ DOMAIN streams[s] = 1 .. Len(streams[s])
              /\ streams[s] \in Seq(SealedEvents)
         /\ \A s \in Streams : \A i \in 1 .. Len(streams[s]) :
              LET e == streams[s][i] IN
              /\ e.event_id = <<s, i - 1>> /\ e.stream_id = s /\ e.sequence_no = i - 1
              /\ e.event_hash = <<e.event_id, e.payload>>
              /\ e.previous_event_hash = IF i = 1 THEN Genesis ELSE streams[s][i - 1].event_hash
              /\ e.payload \in IF i = 1 THEN First(s) ELSE Payloads(s)
              /\ e \in Sealed
         /\ \A e \in Sealed : \E s \in Streams : \E i \in 1 .. Len(streams[s]) : e = streams[s][i]
         /\ \A d, e \in Sealed : d.event_id = e.event_id => d = e
         /\ IsFiniteSet(Sealed)
  <1>1. \A s \in Streams :
              /\ Len(streams[s]) \in Nat /\ DOMAIN streams[s] = 1 .. Len(streams[s])
              /\ streams[s] \in Seq(SealedEvents)
    BY DEF Chained
  <1>2. ASSUME NEW s \in Streams, NEW i \in 1 .. Len(streams[s]), NEW e, e = streams[s][i]
        PROVE /\ e.event_id = <<s, i - 1>> /\ e.stream_id = s /\ e.sequence_no = i - 1
              /\ e.event_hash = <<e.event_id, e.payload>>
              /\ e.previous_event_hash = IF i = 1 THEN Genesis ELSE streams[s][i - 1].event_hash
              /\ e.payload \in IF i = 1 THEN First(s) ELSE Payloads(s)
              /\ e \in Sealed
    <2>1. /\ e = ProjectionEvent(s, i - 1, IF i = 1 THEN Genesis ELSE streams[s][i - 1].event_hash,
                                 e.payload)
          /\ e.payload \in IF i = 1 THEN First(s) ELSE Payloads(s)
      BY <1>2 DEF Chained
    <2>2. e \in Sealed
      BY <1>1, <1>2 DEF Sealed, ToSet
    <2>3. QED
      BY <2>1, <2>2 DEF ProjectionEvent
  <1>3. \A e \in Sealed : \E s \in Streams : \E i \in 1 .. Len(streams[s]) : e = streams[s][i]
    BY <1>1 DEF Sealed, ToSet
  <1>4. ASSUME NEW s \in Streams, NEW i \in 1 .. Len(streams[s])
        PROVE  streams[s][i].event_id = <<s, i - 1>>
    <2>1. PICK h, p : streams[s][i] = ProjectionEvent(s, i - 1, h, p)
      BY DEF Chained
    <2>2. QED
      BY <2>1 DEF ProjectionEvent
  <1>5. ASSUME NEW d \in Sealed, NEW e \in Sealed, d.event_id = e.event_id PROVE d = e
    <2>1. PICK s \in Streams : \E i \in 1 .. Len(streams[s]) : d = streams[s][i]
      BY <1>3
    <2>2. PICK t \in Streams : \E i \in 1 .. Len(streams[t]) : e = streams[t][i]
      BY <1>3
    <2>3. PICK i \in 1 .. Len(streams[s]) : d = streams[s][i]
      BY <2>1
    <2>4. PICK j \in 1 .. Len(streams[t]) : e = streams[t][j]
      BY <2>2
    <2>5. <<s, i - 1>> = <<t, j - 1>>
      <3>1. d.event_id = <<s, i - 1>> /\ e.event_id = <<t, j - 1>>
        BY <2>3, <2>4, <1>4
      <3>2. QED
        BY ONLY <3>1, <1>5
    <2>6. s = t /\ i = j
      BY <2>5, <1>1
    <2>7. QED
      BY <2>3, <2>4, <2>6
  <1>6. IsFiniteSet(Sealed)
    <2>1. ASSUME NEW s \in Streams PROVE IsFiniteSet(ToSet(streams[s]))
      <3>1. streams[s] \in Surjection(1 .. Len(streams[s]), ToSet(streams[s]))
        <4> DEFINE q == streams[s]
        <4>1. q \in Seq(SealedEvents) /\ DOMAIN q = 1 .. Len(q)
          BY <1>1
        <4> HIDE DEF q
        <4>2. q \in [1 .. Len(q) -> ToSet(q)] /\ \A x \in ToSet(q) : \E i \in 1 .. Len(q) : q[i] = x
          BY ONLY <4>1 DEF ToSet
        <4>3. QED
          BY ONLY <4>2 DEF Surjection, q
      <3>2. IsFiniteSet(1 .. Len(streams[s]))
        BY <1>1, FS_Interval
      <3>3. QED
        BY <3>1, <3>2, FS_Surjection
    <2> DEFINE image == [s \in Streams |-> ToSet(streams[s])]
    <2>2. image \in Surjection(Streams, {ToSet(streams[s]) : s \in Streams})
      BY DEF Surjection
    <2>3. IsFiniteSet({ToSet(streams[s]) : s \in Streams})
      BY <2>2, FS_Surjection, AttemptStreamsAssumption
    <2>4. QED
      BY <2>1, <2>3, FS_UNION DEF Sealed
  <1>7. QED
    BY <1>1, <1>2, <1>3, <1>5, <1>6

(* Everything sealed, in one order, each event once. *)
LEMMA InOrderFacts ==
  ASSUME Chained
  PROVE  /\ InOrder \in [1 .. Cardinality(Sealed) -> Sealed] /\ Cardinality(Sealed) \in Nat
         /\ InOrder \in Seq(Sealed) /\ Len(InOrder) = Cardinality(Sealed)
         /\ ToSet(InOrder) = Sealed
         /\ \A i, j \in DOMAIN InOrder : InOrder[i] = InOrder[j] => i = j
  <1>1. IsFiniteSet(Sealed)
    BY SealedFacts
  <1>2. Cardinality(Sealed) \in Nat /\ ExistsBijection(1 .. Cardinality(Sealed), Sealed)
    BY <1>1, FS_CardinalityType
  <1>3. \E f \in [1 .. Cardinality(Sealed) -> Sealed] : IsInjective(f)
    BY <1>2 DEF ExistsBijection, Bijection, Injection, IsInjective
  <1>4. /\ InOrder \in [1 .. Cardinality(Sealed) -> Sealed]
        /\ \A i, j \in DOMAIN InOrder : InOrder[i] = InOrder[j] => i = j
    BY <1>3 DEF InOrder, SetToSeq, IsInjective
  <1>5. InOrder \in Injection(1 .. Cardinality(Sealed), Sealed)
    BY <1>4 DEF Injection, IsInjective
  <1>6. InOrder \in Surjection(1 .. Cardinality(Sealed), Sealed)
    <2>1. Cardinality(1 .. Cardinality(Sealed)) = Cardinality(Sealed)
      BY <1>2, FS_Interval
    <2>2. QED
      BY <1>1, <1>5, <2>1, FS_Injection
  <1>7. ToSet(InOrder) = Sealed
    BY <1>4, <1>6 DEF Surjection, ToSet
  <1>8. InOrder \in Seq(Sealed) /\ Len(InOrder) = Cardinality(Sealed)
    BY <1>2, <1>4
  <1>9. QED
    BY <1>2, <1>4, <1>7, <1>8

----------------------------------------------------------------------------
(* A rebuild reads the streams, however the events arrive. *)

(* A set listed in the strict order of its numbers is ordered as listed. *)
LEMMA OrderedAsListed ==
  ASSUME NEW n \in Nat, NEW X, NEW g \in [1 .. n -> X],
         \A i \in 1 .. n : g[i].sequence_no \in Int,
         \A i, j \in 1 .. n : i < j => g[i].sequence_no < g[j].sequence_no
  PROVE  Ordered({g[i] : i \in 1 .. n}) = g
  <1> DEFINE E == {g[i] : i \in 1 .. n}
             Below(e) == Cardinality({d \in E : d.sequence_no < e.sequence_no})
             UpTo(e)  == Cardinality({d \in E : d.sequence_no <= e.sequence_no})
             to == [m \in 0 .. n |-> {g[i] : i \in 1 .. m}]
  <1>1. ASSUME NEW m \in 0 .. n PROVE Cardinality(to[m]) = m
    <2>1. g \in [1 .. n -> X] /\ 1 .. m \subseteq 1 .. n
      OBVIOUS
    <2> DEFINE h == [i \in 1 .. m |-> g[i]]
    <2>2. h \in Bijection(1 .. m, to[m])
      <3>1. h \in [1 .. m -> to[m]] /\ \A i, j \in 1 .. m : h[i] = h[j] => i = j
        <4>1. h \in [1 .. m -> to[m]]
          OBVIOUS
        <4>2. ASSUME NEW i \in 1 .. m, NEW j \in 1 .. m, h[i] = h[j] PROVE i = j
          <5>1. g[i] = g[j] /\ i \in 1 .. n /\ j \in 1 .. n
            BY <4>2, <2>1
          <5>2. ~ (i < j) /\ ~ (j < i)
            BY <5>1
          <5>3. QED
            BY <5>2
        <4>3. QED
          BY <4>1, <4>2
      <3>2. \A e \in to[m] : \E i \in 1 .. m : h[i] = e
        OBVIOUS
      <3>3. QED
        BY <3>1, <3>2 DEF Bijection, Injection, Surjection, IsInjective
    <2>3. ExistsBijection(1 .. m, to[m])
      BY <2>2 DEF ExistsBijection
    <2> HIDE DEF to
    <2>4. QED
      BY <2>3, FS_CountingElements
  <1>2. to[n] = E
    OBVIOUS
  <1>3. ASSUME NEW i \in 1 .. n PROVE Below(g[i]) = i - 1 /\ UpTo(g[i]) = i
    <2>1. {d \in E : d.sequence_no < g[i].sequence_no} = to[i - 1]
      <3>1. ASSUME NEW k \in 1 .. n PROVE g[k].sequence_no < g[i].sequence_no <=> k < i
        <4>1. CASE k < i
          BY <4>1
        <4>2. CASE k = i
          BY <4>2
        <4>3. CASE k > i
          <5>1. g[i].sequence_no < g[k].sequence_no
            BY <4>3
          <5>2. QED
            BY <5>1, <4>3
        <4>4. QED
          BY <4>1, <4>2, <4>3
      <3>2. QED
        BY <3>1
    <2>2. {d \in E : d.sequence_no <= g[i].sequence_no} = to[i]
      <3>1. ASSUME NEW k \in 1 .. n PROVE g[k].sequence_no <= g[i].sequence_no <=> k <= i
        <4>1. CASE k < i
          BY <4>1
        <4>2. CASE k = i
          BY <4>2
        <4>3. CASE k > i
          <5>1. g[i].sequence_no < g[k].sequence_no
            BY <4>3
          <5>2. QED
            BY <5>1, <4>3
        <4>4. QED
          BY <4>1, <4>2, <4>3
      <3>2. QED
        BY <3>1
    <2>3. i - 1 \in 0 .. n /\ i \in 0 .. n
      OBVIOUS
    <2> HIDE DEF to, E
    <2>4. Cardinality(to[i - 1]) = i - 1 /\ Cardinality(to[i]) = i
      BY <2>3, <1>1
    <2>5. Below(g[i]) = Cardinality(to[i - 1]) /\ UpTo(g[i]) = Cardinality(to[i])
      BY ONLY <2>1, <2>2
    <2>6. QED
      BY ONLY <2>4, <2>5
  <1>4. ASSUME NEW i \in 1 .. n
        PROVE  (CHOOSE e \in E : Below(e) < i /\ i <= UpTo(e)) = g[i]
    <2>1. g[i] \in E /\ Below(g[i]) < i /\ i <= UpTo(g[i])
      <3>1. g[i] \in E
        OBVIOUS
      <3> HIDE DEF Below, UpTo, E
      <3>2. QED
        BY <3>1, <1>3
    <2>2. ASSUME NEW e \in E, Below(e) < i, i <= UpTo(e) PROVE e = g[i]
      <3>1. PICK k \in 1 .. n : e = g[k]
        OBVIOUS
      <3>2. Below(e) = k - 1 /\ UpTo(e) = k
        <4> HIDE DEF Below, UpTo, E
        <4> QED BY <3>1, <1>3
      <3>3. k = i
        <4> HIDE DEF Below, UpTo, E
        <4> QED BY <2>2, <3>2
      <3>4. QED
        BY <3>1, <3>3
    <2> HIDE DEF Below, UpTo, E
    <2>3. QED
      BY <2>1, <2>2
  <1>5. Cardinality(E) = n
    BY <1>1, <1>2
  <1>6. Ordered(E) = [i \in 1 .. n |-> CHOOSE e \in E : Below(e) < i /\ i <= UpTo(e)]
    <2> HIDE DEF E
    <2> QED BY <1>5 DEF Ordered
  <1>7. QED
    <2> HIDE DEF E, Below, UpTo
    <2>1. [i \in 1 .. n |-> CHOOSE e \in E : Below(e) < i /\ i <= UpTo(e)] = [i \in 1 .. n |-> g[i]]
      BY <1>4
    <2>2. QED
      BY <1>6, <2>1 DEF E

(* The events sealed so far, in whatever order, are split into their streams. *)
LEMMA SplitIsStreams ==
  ASSUME Chained, NEW source, ToSet(source) = Sealed
  PROVE  validated_streams(source) = streams
  <1>1. ASSUME NEW s \in Streams PROVE Ordered(Grouped(source, s)) = streams[s]
    <2> DEFINE n == Len(streams[s])
    <2>1. /\ n \in Nat /\ streams[s] \in [1 .. n -> Sealed]
          /\ \A i \in 1 .. n : streams[s][i].sequence_no = i - 1
      BY SealedFacts DEF Sealed, ToSet
    <2>2. Grouped(source, s) = {streams[s][i] : i \in 1 .. n}
      <3>1. ASSUME NEW e \in Sealed, e.stream_id = s PROVE \E i \in 1 .. n : e = streams[s][i]
        BY <3>1, SealedFacts
      <3>2. \A i \in 1 .. n : streams[s][i] \in Sealed /\ streams[s][i].stream_id = s
        BY SealedFacts
      <3>3. QED
        BY <3>1, <3>2 DEF Grouped
    <2>3. \A i, j \in 1 .. n : i < j => streams[s][i].sequence_no < streams[s][j].sequence_no
      BY <2>1
    <2> DEFINE g == streams[s]
    <2>4. /\ n \in Nat /\ g \in [1 .. n -> Sealed] /\ \A i \in 1 .. n : g[i].sequence_no \in Int
          /\ \A i, j \in 1 .. n : i < j => g[i].sequence_no < g[j].sequence_no
      BY <2>1, <2>3
    <2>5. Grouped(source, s) = {g[i] : i \in 1 .. n}
      BY <2>2
    <2> HIDE DEF n, g
    <2>6. Ordered({g[i] : i \in 1 .. n}) = g
      BY <2>4, OrderedAsListed
    <2>7. QED
      BY <2>5, <2>6 DEF g
  <1>2. streams = [s \in Streams |-> streams[s]]
    BY DEF Chained
  <1>3. validated_streams(source) = [s \in Streams |-> streams[s]]
    BY <1>1 DEF validated_streams
  <1>4. QED
    BY <1>2, <1>3

(* No two events sealed have one id. *)
LEMMA NoDuplicates ==
  ASSUME Chained, NEW source, ToSet(source) = Sealed,
         \A i, j \in DOMAIN source : source[i] = source[j] => i = j
  PROVE  ~DuplicateEvents(source)
  BY SealedFacts DEF DuplicateEvents, ToSet

(* What a rebuild of everything sealed gives, read from the streams themselves. *)
LEMMA RebuildReadsStreams ==
  ASSUME Chained, NEW source, ToSet(source) = Sealed,
         \A i, j \in DOMAIN source : source[i] = source[j] => i = j
  PROVE  rebuild_memory_projections(source) =
           IF Unusable(streams) THEN Refused ELSE Views(streams, Len(source))
  BY SplitIsStreams, NoDuplicates DEF rebuild_memory_projections

----------------------------------------------------------------------------
(* What one attempt counts. *)

(* The attempt of a stream, the streams of a user, the evidence on a stream. *)
Projected(s) == rebuild_attempt_projection(streams[s])
PlayedBy(u) == {s \in AttemptStreams : UserOf[s] = u /\ streams[s] # <<>>}
EvidenceOn(s, kind, r) ==
  {e \in ToSet(streams[s]) : e.payload.kind = kind /\ e.payload.rule_id = r}

(* The first event of an attempt is its start. *)
LEMMA FirstStarts ==
  ASSUME Chained, NEW s \in AttemptStreams, streams[s] # <<>>
  PROVE  /\ s \in Streams /\ Len(streams[s]) \in Nat \ {0}
         /\ streams[s][1].payload = AttemptStarted(s) /\ streams[s][1].stream_id = s
  <1>1. s \in Streams
    BY DEF AttemptStreams
  <1>2. Len(streams[s]) \in Nat \ {0}
    BY <1>1, SealedFacts
  <1>3. 1 \in 1 .. Len(streams[s])
    BY <1>2
  <1>4. streams[s][1].payload \in First(s) /\ streams[s][1].stream_id = s
    BY <1>1, <1>3, SealedFacts
  <1>5. QED
    BY <1>1, <1>2, <1>4 DEF First

(* The positions counted are the events themselves. *)
LEMMA CountedAreEvents ==
  ASSUME Chained, NEW s \in AttemptStreams, streams[s] # <<>>, NEW kind \in Evidence, NEW r
  PROVE  /\ Cardinality(Counted(streams[s], kind, r)) = Cardinality(EvidenceOn(s, kind, r))
         /\ IsFiniteSet(Counted(streams[s], kind, r)) /\ IsFiniteSet(EvidenceOn(s, kind, r))
         /\ EvidenceOn(s, kind, r) = {streams[s][i] : i \in Counted(streams[s], kind, r)}
         /\ Counted(streams[s], kind, r) \subseteq 2 .. Len(streams[s])
  <1> DEFINE C == Counted(streams[s], kind, r)
             E == EvidenceOn(s, kind, r)
             f == [i \in C |-> streams[s][i]]
  <1>1. /\ s \in Streams /\ Len(streams[s]) \in Nat /\ DOMAIN streams[s] = 1 .. Len(streams[s])
        /\ streams[s][1].payload.kind = "attempt_started"
    <2>1. s \in Streams /\ streams[s][1].payload = AttemptStarted(s)
      BY FirstStarts
    <2>2. Len(streams[s]) \in Nat /\ DOMAIN streams[s] = 1 .. Len(streams[s])
      BY <2>1, SealedFacts
    <2>3. QED
      BY <2>1, <2>2 DEF AttemptStarted
  <1>2. C \subseteq 2 .. Len(streams[s]) /\ IsFiniteSet(C)
    <2>1. C \subseteq 2 .. Len(streams[s]) /\ IsFiniteSet(2 .. Len(streams[s]))
      BY <1>1, FS_Interval DEF Counted
    <2>2. QED
      BY <2>1, FS_Subset
  <1>3. E = {streams[s][i] : i \in C}
    <2>1. ASSUME NEW i \in 1 .. Len(streams[s]), streams[s][i].payload.kind = kind,
                 streams[s][i].payload.rule_id = r
          PROVE  i \in C
      <3>1. i # 1
        BY <1>1, <2>1 DEF Evidence
      <3>2. QED
        BY <1>1, <2>1, <3>1 DEF Counted
    <2>2. QED
      BY <2>1, <1>1 DEF EvidenceOn, Counted, ToSet
  <1>4. \A i, j \in C : streams[s][i] = streams[s][j] => i = j
    <2>1. \A i \in C : i \in Int /\ streams[s][i].sequence_no = i - 1
      BY <1>1, <1>2, SealedFacts
    <2>2. QED
      BY <2>1
  <1> HIDE DEF C, E
  <1>5. f \in Bijection(C, E)
    BY <1>3, <1>4 DEF Bijection, Injection, Surjection, IsInjective
  <1>6. ExistsBijection(C, E)
    BY <1>5 DEF ExistsBijection
  <1>7. Cardinality(E) = Cardinality(C) /\ IsFiniteSet(E)
    BY <1>2, <1>6, FS_Bijection
  <1>8. QED
    BY <1>2, <1>3, <1>7 DEF C, E

(* The evidence ids of a rule are those of its evidence events. *)
LEMMA EvidenceIdsAreEvents ==
  ASSUME Chained, NEW s \in AttemptStreams, streams[s] # <<>>, NEW r
  PROVE  EvidenceIds(streams[s], r) =
           {e.event_id : e \in UNION {EvidenceOn(s, kind, r) : kind \in Evidence}}
  <1>1. \A kind \in Evidence :
          EvidenceOn(s, kind, r) = {streams[s][i] : i \in Counted(streams[s], kind, r)}
    BY CountedAreEvents
  <1>2. QED
    BY <1>1 DEF EvidenceIds

(* What an attempt projection says, field by field. *)
LEMMA ProjectedFields ==
  ASSUME Chained, NEW s \in AttemptStreams, streams[s] # <<>>
  PROVE  LET a == Projected(s) IN
         /\ a.attempt_id = AttemptOf[s] /\ a.user_id = UserOf[s]
         /\ a.status \in {"attempt_completed", "attempt_abandoned", "active"}
         /\ \A kind \in Evidence :
              a.totals[kind] =
                Cardinality({i \in 2 .. Len(streams[s]) : streams[s][i].payload.kind = kind})
         /\ DOMAIN a.rule_evidence = {r \in Rules : EvidenceIds(streams[s], r) # {}}
         /\ \A r \in DOMAIN a.rule_evidence :
              /\ a.rule_evidence[r].evidence_event_ids = EvidenceIds(streams[s], r)
              /\ \A kind \in Evidence :
                   a.rule_evidence[r].counts[kind] = Cardinality(EvidenceOn(s, kind, r))
  <1> DEFINE a == Projected(s)
  <1>1. a.attempt_id = AttemptOf[s] /\ a.user_id = UserOf[s]
    <2>1. streams[s][1].payload = AttemptStarted(s) /\ streams[s][1].stream_id = s
      BY FirstStarts
    <2>2. a.attempt_id = streams[s][1].payload.attempt_id /\ a.user_id = UserOf[streams[s][1].stream_id]
      BY DEF Projected, rebuild_attempt_projection
    <2>3. QED
      BY <2>1, <2>2 DEF AttemptStarted
  <1>2. a.status \in {"attempt_completed", "attempt_abandoned", "active"}
    BY DEF Projected, rebuild_attempt_projection, AttemptEnds
  <1>3. \A kind \in Evidence :
          a.totals[kind] = Cardinality({i \in 2 .. Len(streams[s]) : streams[s][i].payload.kind = kind})
    BY DEF Projected, rebuild_attempt_projection, Interactions
  <1>4. a.rule_evidence = [r \in {q \in Rules : EvidenceIds(streams[s], q) # {}} |->
                             AttemptRuleEvidence(streams[s], r)]
    BY DEF Projected, rebuild_attempt_projection
  <1>5. ASSUME NEW r \in DOMAIN a.rule_evidence
        PROVE  a.rule_evidence[r] = AttemptRuleEvidence(streams[s], r)
    BY <1>4
  <1>6. ASSUME NEW r, NEW kind \in Evidence
        PROVE  AttemptRuleEvidence(streams[s], r).counts[kind] = Cardinality(EvidenceOn(s, kind, r))
    BY CountedAreEvents DEF AttemptRuleEvidence
  <1>7. \A r : AttemptRuleEvidence(streams[s], r).evidence_event_ids = EvidenceIds(streams[s], r)
    BY DEF AttemptRuleEvidence
  <1>8. DOMAIN a.rule_evidence = {r \in Rules : EvidenceIds(streams[s], r) # {}}
    BY <1>4
  <1> HIDE DEF a
  <1>9. QED
    BY <1>1, <1>2, <1>3, <1>5, <1>6, <1>7, <1>8 DEF a

(* An attempt's totals cover what its rules count. *)
LEMMA TotalsCoverRules ==
  ASSUME Chained, NEW s \in AttemptStreams, streams[s] # <<>>, NEW kind \in Evidence
  PROVE  LET a == Projected(s) IN
         a.totals[kind] >= Total([r \in DOMAIN a.rule_evidence |-> a.rule_evidence[r].counts[kind]])
  <1> DEFINE a == Projected(s)
             D == DOMAIN a.rule_evidence
             A == [r \in D |-> Counted(streams[s], kind, r)]
             all == {i \in 2 .. Len(streams[s]) : streams[s][i].payload.kind = kind}
  <1>1. Len(streams[s]) \in Nat /\ IsFiniteSet(2 .. Len(streams[s]))
    <2>1. Len(streams[s]) \in Nat
      BY FirstStarts
    <2>2. 2 \in Int /\ Len(streams[s]) \in Int
      BY <2>1
    <2>3. IsFiniteSet(2 .. Len(streams[s]))
      BY ONLY <2>2, FS_Interval
    <2>4. QED
      BY <2>1, <2>3
  <1>2. IsFiniteSet(all)
    BY <1>1, FS_Subset
  <1>3. IsFiniteSet(D)
    <2> DEFINE rule == [i \in 2 .. Len(streams[s]) |-> streams[s][i].payload.rule_id]
               named == {streams[s][i].payload.rule_id : i \in 2 .. Len(streams[s])}
    <2>1. rule \in Surjection(2 .. Len(streams[s]), named)
      BY DEF Surjection
    <2>2. IsFiniteSet(named)
      BY <2>1, <1>1, FS_Surjection
    <2>3. D \subseteq named
      <3>1. ASSUME NEW r \in D PROVE r \in named
        <4>1. EvidenceIds(streams[s], r) # {}
          BY ProjectedFields
        <4>2. PICK k \in Evidence : Counted(streams[s], k, r) # {}
          BY <4>1 DEF EvidenceIds
        <4>3. QED
          BY <4>2 DEF Counted
      <3>2. QED
        BY <3>1
    <2>4. QED
      BY <2>2, <2>3, FS_Subset
  <1>4. /\ \A r \in D : IsFiniteSet(A[r]) /\ A[r] \subseteq all
        /\ \A q, r \in D : q # r => A[q] \cap A[r] = {}
    <2>1. \A r \in D : IsFiniteSet(A[r])
      <3>1. \A r : IsFiniteSet(Counted(streams[s], kind, r))
        BY CountedAreEvents
      <3>2. QED
        BY <3>1
    <2>2. \A r \in D : A[r] \subseteq all
      BY DEF Counted
    <2>3. \A r \in D : IsFiniteSet(A[r]) /\ A[r] \subseteq all
      BY <2>1, <2>2
    <2>4. \A q, r \in D : q # r => A[q] \cap A[r] = {}
      BY DEF Counted
    <2>5. QED
      BY <2>3, <2>4
  <1>5. [r \in D |-> Cardinality(A[r])] = [r \in D |-> a.rule_evidence[r].counts[kind]]
    <2>1. \A r \in D : Cardinality(A[r]) = a.rule_evidence[r].counts[kind]
      BY ProjectedFields, CountedAreEvents
    <2> HIDE DEF A, D, a
    <2>2. QED
      BY <2>1
  <1>6. a.totals[kind] = Cardinality(all)
    BY ProjectedFields
  <1> HIDE DEF a, D, A, all
  <1>7. Total([r \in D |-> Cardinality(A[r])]) = Cardinality(UNION {A[r] : r \in D})
    BY <1>3, <1>4, TotalOfDisjoint
  <1>8. UNION {A[r] : r \in D} \subseteq all
    BY <1>4
  <1>9. Cardinality(UNION {A[r] : r \in D}) <= Cardinality(all)
    BY <1>2, <1>8, FS_Subset
  <1>10. Cardinality(UNION {A[r] : r \in D}) \in Nat /\ Cardinality(all) \in Nat
    BY <1>2, <1>8, FS_Subset, FS_CardinalityType
  <1>11. QED
    BY <1>5, <1>6, <1>7, <1>9, <1>10 DEF D, a

----------------------------------------------------------------------------
(* What a user's attempts count. *)

(* The evidence on all the streams of a user. *)
EvidenceOf(u, kind, r) == UNION {EvidenceOn(s, kind, r) : s \in PlayedBy(u)}

(* The attempts of one user, each from a stream of its own. *)
LEMMA AttemptsAreStreams ==
  ASSUME Chained, NEW u,
         NEW observed, observed = {Projected(s) : s \in PlayedBy(u)}
  PROVE  /\ \A s, t \in PlayedBy(u) : Projected(s) = Projected(t) => s = t
         /\ IsFiniteSet(observed) /\ Cardinality(observed) = Cardinality(PlayedBy(u))
  <1>1. ASSUME NEW s \in PlayedBy(u), NEW t \in PlayedBy(u), Projected(s) = Projected(t) PROVE s = t
    <2>1. /\ s \in AttemptStreams /\ streams[s] # <<>> /\ t \in AttemptStreams /\ streams[t] # <<>>
      BY DEF PlayedBy
    <2>2. Projected(s).attempt_id = AttemptOf[s] /\ Projected(t).attempt_id = AttemptOf[t]
      BY <2>1, ProjectedFields
    <2>3. QED
      BY <1>1, <2>1, <2>2, AttemptStreamsAssumption
  <1>2. IsFiniteSet(PlayedBy(u))
    BY AttemptStreamsAssumption, FS_Subset DEF PlayedBy, AttemptStreams
  <1> DEFINE f == [s \in PlayedBy(u) |-> Projected(s)]
  <1>3. f \in Bijection(PlayedBy(u), observed)
    BY <1>1 DEF Bijection, Injection, Surjection, IsInjective
  <1>4. QED
    BY <1>1, <1>2, <1>3, FS_Bijection DEF ExistsBijection

(* The counts of a user's attempts add up to the evidence events on all of    *)
(* the user's streams: the streams are disjoint.                              *)
LEMMA LearningCountsEvents ==
  ASSUME Chained, NEW u, NEW r \in Rules, NEW kind \in Evidence,
         NEW observed, observed = {Projected(s) : s \in PlayedBy(u)}
  PROVE  LearningCounts(observed, r, kind) = Cardinality(EvidenceOf(u, kind, r))
  <1> DEFINE W == {b \in observed : r \in DOMAIN b.rule_evidence}
             of(a) == CHOOSE s \in PlayedBy(u) : a = Projected(s)
             A == [a \in W |-> EvidenceOn(of(a), kind, r)]
  <1>1. \A s \in PlayedBy(u) : s \in AttemptStreams /\ s \in Streams /\ streams[s] # <<>>
    BY DEF PlayedBy, AttemptStreams
  <1>2. /\ \A s \in PlayedBy(u) : of(Projected(s)) = s
        /\ \A a \in W : of(a) \in PlayedBy(u) /\ a = Projected(of(a))
    BY AttemptsAreStreams
  <1> HIDE DEF of
  <1>3. IsFiniteSet(W)
    <2>1. IsFiniteSet(observed) /\ W \subseteq observed
      BY AttemptsAreStreams
    <2>2. QED
      BY <2>1, FS_Subset
  <1>4. ASSUME NEW a \in W
        PROVE  IsFiniteSet(A[a]) /\ a.rule_evidence[r].counts[kind] = Cardinality(A[a])
    <2>1. of(a) \in AttemptStreams /\ streams[of(a)] # <<>> /\ a = Projected(of(a))
      BY <1>1, <1>2
    <2>2. r \in DOMAIN a.rule_evidence
      OBVIOUS
    <2>3. IsFiniteSet(EvidenceOn(of(a), kind, r))
      BY <2>1, CountedAreEvents
    <2>4. a.rule_evidence[r].counts[kind] = Cardinality(EvidenceOn(of(a), kind, r))
      BY <2>1, <2>2, ProjectedFields
    <2>5. QED
      BY <2>3, <2>4
  <1>5. ASSUME NEW a \in W, NEW b \in W, a # b PROVE A[a] \cap A[b] = {}
    <2>1. of(a) # of(b) /\ of(a) \in Streams /\ of(b) \in Streams
      BY <1>1, <1>2, <1>5
    <2>2. ASSUME NEW s \in Streams, NEW e \in ToSet(streams[s]) PROVE e.stream_id = s
      BY SealedFacts DEF ToSet
    <2>3. \A e \in EvidenceOn(of(a), kind, r) : e.stream_id = of(a)
      BY <2>1, <2>2 DEF EvidenceOn
    <2>4. \A e \in EvidenceOn(of(b), kind, r) : e.stream_id = of(b)
      BY <2>1, <2>2 DEF EvidenceOn
    <2>5. QED
      BY <2>1, <2>3, <2>4
  <1>6. UNION {A[a] : a \in W} = EvidenceOf(u, kind, r)
    <2>1. ASSUME NEW s \in PlayedBy(u), EvidenceOn(s, kind, r) # {} PROVE Projected(s) \in W
      <3>1. s \in AttemptStreams /\ streams[s] # <<>>
        BY <1>1
      <3>2. EvidenceIds(streams[s], r) =
              {e.event_id : e \in UNION {EvidenceOn(s, k, r) : k \in Evidence}}
        BY <3>1, EvidenceIdsAreEvents
      <3>3. EvidenceIds(streams[s], r) # {}
        BY <2>1, <3>2
      <3>4. QED
        BY <3>1, <3>3, ProjectedFields
    <2>2. ASSUME NEW s \in PlayedBy(u), NEW e \in EvidenceOn(s, kind, r)
          PROVE  Projected(s) \in W /\ e \in A[Projected(s)]
      <3>1. Projected(s) \in W
        BY <2>1
      <3>2. A[Projected(s)] = EvidenceOn(s, kind, r)
        BY <3>1, <1>2
      <3>3. QED
        BY <3>1, <3>2
    <2>3. ASSUME NEW a \in W, NEW e \in A[a]
          PROVE  of(a) \in PlayedBy(u) /\ e \in EvidenceOn(of(a), kind, r)
      BY <1>2
    <2> HIDE DEF A, W
    <2>4. QED
      BY <2>2, <2>3 DEF EvidenceOf
  <1>7. LearningCounts(observed, r, kind) = Total([a \in W |-> a.rule_evidence[r].counts[kind]])
    BY DEF LearningCounts
  <1>8. [a \in W |-> a.rule_evidence[r].counts[kind]] = [a \in W |-> Cardinality(A[a])]
    <2> HIDE DEF A, W
    <2> QED BY <1>4
  <1> HIDE DEF A, W
  <1>9. Total([a \in W |-> Cardinality(A[a])]) = Cardinality(UNION {A[a] : a \in W})
    BY <1>3, <1>4, <1>5, TotalOfDisjoint
  <1>10. QED
    BY <1>6, <1>7, <1>8, <1>9

(* Every attempt of a user has one status. *)
LEMMA StatusesPartition ==
  ASSUME Chained, NEW u, NEW observed, observed = {Projected(s) : s \in PlayedBy(u)}
  PROVE  Cardinality(observed) = Having(observed, "attempt_completed")
                                 + Having(observed, "attempt_abandoned") + Having(observed, "active")
  <1> DEFINE C == {a \in observed : a.status = "attempt_completed"}
             B == {a \in observed : a.status = "attempt_abandoned"}
             A == {a \in observed : a.status = "active"}
  <1>1. IsFiniteSet(observed)
    BY AttemptsAreStreams
  <1>2. IsFiniteSet(C) /\ IsFiniteSet(B) /\ IsFiniteSet(A)
    BY <1>1, FS_Subset
  <1>3. \A a \in observed : a.status \in {"attempt_completed", "attempt_abandoned", "active"}
    BY ProjectedFields DEF PlayedBy
  <1>4. observed = (C \cup B) \cup A /\ (C \cup B) \cap A = {} /\ C \cap B = {}
    BY <1>3
  <1>5. IsFiniteSet(C \cup B)
    BY <1>2, FS_Union
  <1>6. Cardinality(C \cup B) = Cardinality(C) + Cardinality(B)
    BY <1>2, <1>4, DisjointCardinality
  <1>7. Cardinality((C \cup B) \cup A) = Cardinality(C \cup B) + Cardinality(A)
    BY <1>2, <1>4, <1>5, DisjointCardinality
  <1>8. QED
    BY <1>4, <1>6, <1>7 DEF Having

(* What a learning projection says of the attempts it was given. *)
LEMMA LearningOfUser ==
  ASSUME Chained, NEW u, NEW observed, observed = {Projected(s) : s \in PlayedBy(u)}
  PROVE  LET l == LearningProjection(observed) IN
         /\ l.attempts_observed = Cardinality(PlayedBy(u))
         /\ l.attempts_observed = l.completed_attempts + l.abandoned_attempts + l.active_attempts
         /\ \A r \in DOMAIN l.rule_evidence :
              /\ \A kind \in Evidence :
                   l.rule_evidence[r].counts[kind] = Cardinality(EvidenceOf(u, kind, r))
              /\ l.rule_evidence[r].evidence_event_ids =
                   {e.event_id : e \in UNION {EvidenceOf(u, kind, r) : kind \in Evidence}}
  <1> DEFINE l == LearningProjection(observed)
             with(r) == {a \in observed : r \in DOMAIN a.rule_evidence}
  <1>1. l.attempts_observed = Cardinality(PlayedBy(u))
    BY AttemptsAreStreams DEF LearningProjection
  <1>2. l.attempts_observed = l.completed_attempts + l.abandoned_attempts + l.active_attempts
    BY StatusesPartition DEF LearningProjection
  <1>3. /\ DOMAIN l.rule_evidence = UNION {DOMAIN a.rule_evidence : a \in observed}
        /\ \A r \in DOMAIN l.rule_evidence : l.rule_evidence[r] = LearningRuleEvidence(observed, r)
    BY DEF LearningProjection
  <1>4. \A s \in PlayedBy(u) : s \in AttemptStreams /\ streams[s] # <<>>
    BY DEF PlayedBy
  <1>5. DOMAIN l.rule_evidence \subseteq Rules
    <2>1. \A s \in PlayedBy(u) : DOMAIN Projected(s).rule_evidence \subseteq Rules
      BY <1>4, ProjectedFields
    <2>2. QED
      BY <1>3, <2>1
  <1>6. ASSUME NEW r \in DOMAIN l.rule_evidence, NEW kind \in Evidence
        PROVE  l.rule_evidence[r].counts[kind] = Cardinality(EvidenceOf(u, kind, r))
    <2>1. l.rule_evidence[r] = LearningRuleEvidence(observed, r) /\ r \in Rules
      BY <1>3, <1>5
    <2>2. LearningRuleEvidence(observed, r).counts[kind] = LearningCounts(observed, r, kind)
      BY DEF LearningRuleEvidence
    <2>3. QED
      BY <2>1, <2>2, LearningCountsEvents
  <1>7. ASSUME NEW r \in DOMAIN l.rule_evidence
        PROVE  l.rule_evidence[r].evidence_event_ids =
                 {e.event_id : e \in UNION {EvidenceOf(u, kind, r) : kind \in Evidence}}
    <2>1. l.rule_evidence[r].evidence_event_ids =
            UNION {a.rule_evidence[r].evidence_event_ids : a \in with(r)}
      <3>1. l.rule_evidence[r] = LearningRuleEvidence(observed, r)
        BY <1>3
      <3>2. LearningRuleEvidence(observed, r).evidence_event_ids =
              UNION {a.rule_evidence[r].evidence_event_ids : a \in with(r)}
        BY DEF LearningRuleEvidence
      <3> HIDE DEF with, l
      <3>3. QED
        BY <3>1, <3>2
    <2>2. ASSUME NEW s \in PlayedBy(u), Projected(s) \in with(r)
          PROVE  Projected(s).rule_evidence[r].evidence_event_ids =
                   {e.event_id : e \in UNION {EvidenceOn(s, kind, r) : kind \in Evidence}}
      <3>1. r \in DOMAIN Projected(s).rule_evidence
        BY <2>2
      <3>2. Projected(s).rule_evidence[r].evidence_event_ids = EvidenceIds(streams[s], r)
        BY <3>1, <1>4, ProjectedFields
      <3>3. QED
        BY <3>2, <1>4, EvidenceIdsAreEvents
    <2>3. ASSUME NEW s \in PlayedBy(u), NEW kind \in Evidence, NEW e \in EvidenceOn(s, kind, r)
          PROVE  Projected(s) \in with(r)
      <3>1. EvidenceIds(streams[s], r) =
              {d.event_id : d \in UNION {EvidenceOn(s, k, r) : k \in Evidence}}
        BY <1>4, EvidenceIdsAreEvents
      <3>2. EvidenceIds(streams[s], r) # {}
        BY <3>1
      <3>3. QED
        BY <3>2, <1>4, <1>5, ProjectedFields
    <2>4. ASSUME NEW x \in UNION {a.rule_evidence[r].evidence_event_ids : a \in with(r)}
          PROVE  x \in {e.event_id : e \in UNION {EvidenceOf(u, kind, r) : kind \in Evidence}}
      <3>1. PICK s \in PlayedBy(u) :
              Projected(s) \in with(r) /\ x \in Projected(s).rule_evidence[r].evidence_event_ids
        OBVIOUS
      <3>2. PICK kind \in Evidence : \E e \in EvidenceOn(s, kind, r) : x = e.event_id
        BY <2>2, <3>1
      <3>3. QED
        BY <3>2 DEF EvidenceOf
    <2>5. ASSUME NEW kind \in Evidence, NEW e \in EvidenceOf(u, kind, r)
          PROVE  e.event_id \in UNION {a.rule_evidence[r].evidence_event_ids : a \in with(r)}
      <3>1. PICK s \in PlayedBy(u) : e \in EvidenceOn(s, kind, r)
        BY DEF EvidenceOf
      <3>2. Projected(s) \in with(r)
        BY <2>3, <3>1
      <3>3. e.event_id \in Projected(s).rule_evidence[r].evidence_event_ids
        BY <2>2, <3>1, <3>2
      <3>4. QED
        BY <3>2, <3>3
    <2> HIDE DEF with, l
    <2>6. QED
      BY <2>1, <2>4, <2>5
  <1> HIDE DEF l
  <1>8. QED
    BY <1>1, <1>2, <1>6, <1>7 DEF l

(* The bundle of everything sealed. *)
LEMMA BundleReadsStreams ==
  ASSUME Chained
  PROVE  Bundle = IF Unusable(streams) THEN Refused ELSE Views(streams, Len(InOrder))
  BY InOrderFacts, RebuildReadsStreams DEF Bundle

(* Chained streams are counted once. *)
LEMMA CountsOnce == Chained => LearningCountsOnce
  <1> SUFFICES ASSUME Chained, ~Bundle.refused PROVE LearningCountsOnce
    BY DEF LearningCountsOnce
  <1>1. Bundle = Views(streams, Len(InOrder))
    BY BundleReadsStreams DEF Refused
  <1> DEFINE P == OfKind(streams, "attempt")
             L == rebuild_learning_projections(Bundle.attempts)
             observed(u) == {a \in Bundle.attempts : a.user_id = u}
  <1>2. /\ Bundle.attempts = {Projected(s) : s \in P}
        /\ Bundle.learning = L
    BY <1>1 DEF Views, Projected
  <1>3. P = {s \in AttemptStreams : streams[s] # <<>>}
    BY DEF OfKind, AttemptStreams
  <1>4. ASSUME NEW a \in Bundle.attempts, NEW kind \in Evidence
        PROVE  a.totals[kind] >= Total([r \in DOMAIN a.rule_evidence |-> a.rule_evidence[r].counts[kind]])
    <2>1. PICK s \in AttemptStreams : streams[s] # <<>> /\ a = Projected(s)
      BY <1>2, <1>3
    <2>2. QED
      BY <2>1, TotalsCoverRules
  <1>5. ASSUME NEW u PROVE observed(u) = {Projected(s) : s \in PlayedBy(u)}
    <2>1. \A s \in P : Projected(s).user_id = UserOf[s]
      BY <1>3, ProjectedFields
    <2> HIDE DEF P
    <2>2. observed(u) = {Projected(s) : s \in {t \in P : UserOf[t] = u}}
      BY <2>1, <1>2
    <2>3. {t \in P : UserOf[t] = u} = PlayedBy(u)
      BY <1>3 DEF PlayedBy
    <2>4. QED
      BY <2>2, <2>3
  <1>6. ASSUME NEW u \in DOMAIN Bundle.learning
        PROVE  Bundle.learning[u] = LearningProjection(observed(u))
    BY <1>2 DEF rebuild_learning_projections
  <1>7. ASSUME NEW u \in DOMAIN Bundle.learning
        PROVE  LET l == Bundle.learning[u] IN
         /\ l.attempts_observed = Cardinality(PlayedBy(u))
         /\ l.attempts_observed = l.completed_attempts + l.abandoned_attempts + l.active_attempts
         /\ \A r \in DOMAIN l.rule_evidence :
              /\ \A kind \in Evidence :
                   l.rule_evidence[r].counts[kind] = Cardinality(EvidenceOf(u, kind, r))
              /\ l.rule_evidence[r].evidence_event_ids =
                   {e.event_id : e \in UNION {EvidenceOf(u, kind, r) : kind \in Evidence}}
    <2> HIDE DEF observed
    <2>1. QED
      BY <1>5, <1>6, LearningOfUser
  <1>8. QED
    BY <1>4, <1>7 DEF LearningCountsOnce, PlayedBy, EvidenceOf, EvidenceOn

----------------------------------------------------------------------------
(* Delayed, repeated, altered and lost events. *)

(* Inserting and removing, element by element. *)
LEMMA RemoveAtElements ==
  ASSUME NEW X, NEW q \in Seq(X), NEW i \in 1 .. Len(q)
  PROVE  /\ RemoveAt(q, i) \in Seq(X) /\ Len(RemoveAt(q, i)) = Len(q) - 1
         /\ \A k \in 1 .. Len(q) - 1 : RemoveAt(q, i)[k] = q[IF k < i THEN k ELSE k + 1]
  <1> DEFINE a == SubSeq(q, 1, i - 1)
             b == SubSeq(q, i + 1, Len(q))
  <1>1. /\ a \in Seq(X) /\ Len(a) = i - 1 /\ \A k \in 1 .. i - 1 : a[k] = q[k]
        /\ b \in Seq(X) /\ Len(b) = Len(q) - i /\ \A k \in 1 .. Len(q) - i : b[k] = q[k + i]
    OBVIOUS
  <1> HIDE DEF a, b
  <1>2. Len(q) \in Nat /\ i \in 1 .. Len(q)
    OBVIOUS
  <1>3. /\ a \o b \in Seq(X) /\ Len(a \o b) = Len(q) - 1
        /\ \A k \in 1 .. Len(a) + Len(b) :
             (a \o b)[k] = IF k <= Len(a) THEN a[k] ELSE b[k - Len(a)]
    <2>1. /\ a \o b \in Seq(X) /\ Len(a \o b) = Len(a) + Len(b)
          /\ \A k \in 1 .. Len(a) + Len(b) :
               (a \o b)[k] = IF k <= Len(a) THEN a[k] ELSE b[k - Len(a)]
      BY <1>1, ConcatProperties
    <2>2. QED
      BY <1>1, <1>2, <2>1
  <1>4. ASSUME NEW k \in 1 .. Len(q) - 1 PROVE (a \o b)[k] = q[IF k < i THEN k ELSE k + 1]
    <2>1. k \in 1 .. Len(a) + Len(b)
      BY <1>1, <1>2
    <2>2. CASE k < i
      BY <2>1, <2>2, <1>1, <1>2, <1>3
    <2>3. CASE ~ (k < i)
      <3>1. k - Len(a) \in 1 .. Len(q) - i /\ (k - Len(a)) + i = k + 1
        BY <2>3, <1>1, <1>2
      <3>2. QED
        BY <2>1, <2>3, <3>1, <1>1, <1>2, <1>3
    <2>4. QED
      BY <2>2, <2>3
  <1>5. QED
    BY <1>3, <1>4 DEF RemoveAt, a, b

(* Inserting shifts what comes after. *)
LEMMA InsertAtElements ==
  ASSUME NEW X, NEW q \in Seq(X), NEW j \in 1 .. Len(q) + 1, NEW e \in X
  PROVE  /\ InsertAt(q, j, e) \in Seq(X) /\ Len(InsertAt(q, j, e)) = Len(q) + 1
         /\ \A k \in 1 .. Len(q) + 1 :
              InsertAt(q, j, e)[k] = IF k = j THEN e ELSE q[IF k < j THEN k ELSE k - 1]
  <1> DEFINE a == SubSeq(q, 1, j - 1)
             b == SubSeq(q, j, Len(q))
             c == a \o <<e>>
  <1>1. /\ a \in Seq(X) /\ Len(a) = j - 1 /\ \A k \in 1 .. j - 1 : a[k] = q[k]
        /\ b \in Seq(X) /\ Len(b) = Len(q) - j + 1
        /\ \A k \in 1 .. Len(q) - j + 1 : b[k] = q[k + j - 1]
    OBVIOUS
  <1> HIDE DEF a, b
  <1>2. /\ c \in Seq(X) /\ Len(c) = j
        /\ \A k \in 1 .. j : c[k] = IF k = j THEN e ELSE a[k]
    BY <1>1
  <1> HIDE DEF c
  <1>3. Len(q) \in Nat /\ j \in 1 .. Len(q) + 1
    OBVIOUS
  <1>4. /\ c \o b \in Seq(X) /\ Len(c \o b) = Len(q) + 1
        /\ \A k \in 1 .. Len(q) + 1 : (c \o b)[k] = IF k <= j THEN c[k] ELSE b[k - j]
    <2>1. /\ c \o b \in Seq(X) /\ Len(c \o b) = Len(c) + Len(b)
          /\ \A k \in 1 .. Len(c) + Len(b) :
               (c \o b)[k] = IF k <= Len(c) THEN c[k] ELSE b[k - Len(c)]
      <3>1. c \in Seq(X) /\ b \in Seq(X)
        BY <1>1, <1>2
      <3>2. QED
        BY ONLY <3>1, ConcatProperties
    <2>2. Len(c) + Len(b) = Len(q) + 1
      BY <1>1, <1>2, <1>3
    <2>3. QED
      BY <1>2, <2>1, <2>2
  <1>5. ASSUME NEW k \in 1 .. Len(q) + 1
        PROVE  (c \o b)[k] = IF k = j THEN e ELSE q[IF k < j THEN k ELSE k - 1]
    <2>1. CASE k <= j
      BY <2>1, <1>1, <1>2, <1>4, <1>3
    <2>2. CASE k > j
      <3>1. k - j \in 1 .. Len(q) - j + 1 /\ (k - j) + j - 1 = k - 1
        BY <2>2, <1>3
      <3>2. QED
        BY <2>2, <3>1, <1>1, <1>4, <1>3
    <2>3. k \in Int /\ j \in Int
      BY <1>3
    <2>4. k <= j \/ k > j
      BY <2>3
    <2>5. QED
      BY <2>1, <2>2, <2>4
  <1>6. QED
    BY <1>4, <1>5 DEF InsertAt, a, b, c

(* A delayed event: the same events, as many of them, each once. *)
LEMMA MovedIsPermuted ==
  ASSUME NEW X, NEW q \in Seq(X), \A i, j \in 1 .. Len(q) : q[i] = q[j] => i = j,
         NEW i \in 1 .. Len(q), NEW j \in 1 .. Len(q)
  PROVE  /\ Len(Moved(q, i, j)) = Len(q) /\ ToSet(Moved(q, i, j)) = ToSet(q)
         /\ DOMAIN Moved(q, i, j) = 1 .. Len(q)
         /\ \A k, l \in 1 .. Len(q) : Moved(q, i, j)[k] = Moved(q, i, j)[l] => k = l
  <1> DEFINE n == Len(q)
             m == Moved(q, i, j)
             skip(k) == IF k < i THEN k ELSE k + 1
             from(k) == IF k = j THEN i ELSE skip(IF k < j THEN k ELSE k - 1)
             to(k) == IF k = i THEN j
                      ELSE LET r == IF k < i THEN k ELSE k - 1 IN IF r < j THEN r ELSE r + 1
  <1>1. n \in Nat /\ q[i] \in X /\ i \in 1 .. n /\ j \in 1 .. n
    OBVIOUS
  <1>2. /\ RemoveAt(q, i) \in Seq(X) /\ Len(RemoveAt(q, i)) = n - 1
        /\ \A k \in 1 .. n - 1 : RemoveAt(q, i)[k] = q[skip(k)]
    BY RemoveAtElements
  <1> HIDE DEF n
  <1>3. /\ m \in Seq(X) /\ Len(m) = n
        /\ \A k \in 1 .. n :
             m[k] = IF k = j THEN q[i] ELSE RemoveAt(q, i)[IF k < j THEN k ELSE k - 1]
    <2>1. j \in 1 .. Len(RemoveAt(q, i)) + 1 /\ Len(RemoveAt(q, i)) + 1 = n
      BY <1>1, <1>2
    <2> DEFINE p == RemoveAt(q, i)
    <2>2. p \in Seq(X)
      BY <1>2
    <2> HIDE DEF p
    <2>3. m = InsertAt(p, j, q[i])
      BY DEF Moved, p
    <2> HIDE DEF m
    <2>4. /\ InsertAt(p, j, q[i]) \in Seq(X) /\ Len(InsertAt(p, j, q[i])) = Len(p) + 1
          /\ \A k \in 1 .. Len(p) + 1 :
               InsertAt(p, j, q[i])[k] = IF k = j THEN q[i] ELSE p[IF k < j THEN k ELSE k - 1]
      BY <2>1, <2>2, <1>1, InsertAtElements DEF p
    <2>5. QED
      BY <2>1, <2>3, <2>4 DEF p
  <1> HIDE DEF m
  <1>4. \A k \in 1 .. n : m[k] = q[from(k)] /\ from(k) \in 1 .. n
    <2>1. ASSUME NEW k \in 1 .. n, k # j PROVE m[k] = q[from(k)]
      <3>1. (IF k < j THEN k ELSE k - 1) \in 1 .. n - 1
        BY <2>1, <1>1
      <3>2. QED
        BY <2>1, <3>1, <1>2, <1>3
    <2>2. QED
      BY <2>1, <1>1, <1>3
  <1>5. \A k \in 1 .. n : to(k) \in 1 .. n /\ from(to(k)) = k /\ to(from(k)) = k
    BY <1>1
  <1> HIDE DEF from, to, skip
  <1>6. DOMAIN m = 1 .. n /\ DOMAIN q = 1 .. n
    BY <1>1, <1>3 DEF n
  <1>7. ToSet(m) = ToSet(q)
    BY <1>4, <1>5, <1>6 DEF ToSet
  <1>8. ASSUME NEW k \in 1 .. n, NEW l \in 1 .. n, m[k] = m[l] PROVE k = l
    <2>1. from(k) = from(l)
      BY <1>4, <1>8 DEF n
    <2>2. QED
      BY <2>1, <1>5
  <1>9. QED
    BY <1>3, <1>6, <1>7, <1>8 DEF m, n

(* A delayed event changes nothing: a rebuild reads the set and its size. *)
LEMMA MovedChangesNothing ==
  ASSUME Chained, NEW i \in DOMAIN InOrder, NEW j \in DOMAIN InOrder
  PROVE  rebuild_memory_projections(Moved(InOrder, i, j)) = rebuild_memory_projections(InOrder)
  <1> DEFINE m == Moved(InOrder, i, j)
  <1>1. /\ InOrder \in Seq(Sealed) /\ ToSet(InOrder) = Sealed
        /\ \A k, l \in DOMAIN InOrder : InOrder[k] = InOrder[l] => k = l
    BY InOrderFacts
  <1>2. DOMAIN InOrder = 1 .. Len(InOrder)
    BY <1>1
  <1>3. /\ Len(m) = Len(InOrder) /\ ToSet(m) = Sealed
        /\ \A k, l \in DOMAIN m : m[k] = m[l] => k = l
    BY <1>1, <1>2, MovedIsPermuted
  <1> HIDE DEF m
  <1>4. rebuild_memory_projections(m) = IF Unusable(streams) THEN Refused ELSE Views(streams, Len(m))
    BY <1>3, RebuildReadsStreams
  <1>5. rebuild_memory_projections(InOrder) =
          IF Unusable(streams) THEN Refused ELSE Views(streams, Len(InOrder))
    BY <1>1, RebuildReadsStreams
  <1>6. QED
    BY <1>3, <1>4, <1>5 DEF m

(* An event delivered twice is refused by its id. *)
LEMMA RepeatIsRefused ==
  ASSUME Chained, NEW i \in DOMAIN InOrder, NEW j \in DOMAIN InOrder, i # j
  PROVE  rebuild_memory_projections(InsertAt(InOrder, j, InOrder[i])) = Refused
  <1> DEFINE a == InsertAt(InOrder, j, InOrder[i])
             k == IF i < j THEN i ELSE i + 1
  <1>1. InOrder \in Seq(Sealed) /\ DOMAIN InOrder = 1 .. Len(InOrder) /\ Len(InOrder) \in Nat
    BY InOrderFacts
  <1>2. i \in 1 .. Len(InOrder) /\ j \in 1 .. Len(InOrder) /\ InOrder[i] \in Sealed
    BY <1>1
  <1>3. j \in 1 .. Len(InOrder) + 1
    BY <1>1, <1>2
  <1> DEFINE e == InOrder[i]
  <1>4. e \in Sealed
    BY <1>2
  <1>5. /\ a \in Seq(Sealed) /\ Len(a) = Len(InOrder) + 1
        /\ \A l \in 1 .. Len(InOrder) + 1 :
             a[l] = IF l = j THEN InOrder[i] ELSE InOrder[IF l < j THEN l ELSE l - 1]
    <2>1. a = InsertAt(InOrder, j, e)
      OBVIOUS
    <2> HIDE DEF a, e
    <2>2. /\ InsertAt(InOrder, j, e) \in Seq(Sealed)
          /\ Len(InsertAt(InOrder, j, e)) = Len(InOrder) + 1
          /\ \A l \in 1 .. Len(InOrder) + 1 :
               InsertAt(InOrder, j, e)[l] = IF l = j THEN e ELSE InOrder[IF l < j THEN l ELSE l - 1]
      <3> DEFINE q == InOrder
      <3>1. q \in Seq(Sealed) /\ j \in 1 .. Len(q) + 1 /\ e \in Sealed
        BY <1>1, <1>3, <1>4
      <3> HIDE DEF q
      <3>2. /\ InsertAt(q, j, e) \in Seq(Sealed) /\ Len(InsertAt(q, j, e)) = Len(q) + 1
            /\ \A l \in 1 .. Len(q) + 1 :
                 InsertAt(q, j, e)[l] = IF l = j THEN e ELSE q[IF l < j THEN l ELSE l - 1]
        BY ONLY <3>1, InsertAtElements, SMTT(30)
      <3>3. QED
        BY <3>2 DEF q
    <2>3. QED
      BY <2>1, <2>2 DEF e
  <1> HIDE DEF a
  <1>6. /\ j \in 1 .. Len(a) /\ k \in 1 .. Len(a) /\ j # k
        /\ a[j] = InOrder[i] /\ a[k] = InOrder[i]
    BY <1>1, <1>2, <1>5
  <1>7. DuplicateEvents(a)
    BY <1>5, <1>6 DEF DuplicateEvents
  <1>8. QED
    BY <1>7 DEF rebuild_memory_projections, a

(* A rebuild is refused when the events of one of its streams, in order, break   *)
(* their chain.                                                                  *)
LEMMA BrokenChainIsRefused ==
  ASSUME NEW source, NEW s \in Streams, NEW n \in Nat, NEW X, NEW g \in [1 .. n -> X],
         \A i \in 1 .. n : g[i].sequence_no \in Int,
         \A i, j \in 1 .. n : i < j => g[i].sequence_no < g[j].sequence_no,
         Grouped(source, s) = {g[i] : i \in 1 .. n},
         projection_event_chain_failures(g) # {}
  PROVE  rebuild_memory_projections(source) = Refused
  <1>1. Ordered(Grouped(source, s)) = g
    BY OrderedAsListed
  <1>2. validated_streams(source)[s] = g
    BY <1>1 DEF validated_streams
  <1>3. Unusable(validated_streams(source))
    BY <1>2 DEF Unusable
  <1>4. QED
    BY <1>3 DEF rebuild_memory_projections

(* The stream of an event holds every event sealed on it, by number. *)
LEMMA StreamFacts ==
  ASSUME Chained, NEW s \in Streams, NEW n, n = Len(streams[s])
  PROVE  /\ n \in Nat /\ DOMAIN streams[s] = 1 .. n
         /\ streams[s] \in Seq(SealedEvents)
         /\ \A l \in 1 .. n : /\ streams[s][l].sequence_no = l - 1 /\ streams[s][l].stream_id = s
                              /\ streams[s][l] \in Sealed
         /\ \A d \in Sealed : d.stream_id = s => \E l \in 1 .. n : d = streams[s][l]
  <1>1. /\ n \in Nat /\ DOMAIN streams[s] = 1 .. n /\ streams[s] \in Seq(SealedEvents)
    BY SealedFacts
  <1>2. \A l \in 1 .. n : /\ streams[s][l].sequence_no = l - 1 /\ streams[s][l].stream_id = s
                          /\ streams[s][l] \in Sealed
    BY SealedFacts
  <1>3. ASSUME NEW d \in Sealed, d.stream_id = s PROVE \E l \in 1 .. n : d = streams[s][l]
    <2>1. PICK t \in Streams : \E l \in 1 .. Len(streams[t]) : d = streams[t][l]
      BY SealedFacts
    <2>2. PICK l \in 1 .. Len(streams[t]) : d = streams[t][l]
      BY <2>1
    <2>3. d.stream_id = t
      BY <2>2, SealedFacts
    <2>4. QED
      BY <1>3, <2>2, <2>3
  <1>4. QED
    BY <1>1, <1>2, <1>3

(* An altered payload is refused: it is not what the digest was computed      *)
(* from.                                                                      *)
LEMMA AlteredIsRefused ==
  ASSUME Chained, NEW i \in DOMAIN InOrder, NEW f \in Misreports(InOrder[i])
  PROVE  rebuild_memory_projections(ReplaceAt(InOrder, i, f)) = Refused
  <1> DEFINE e == InOrder[i]
             a == ReplaceAt(InOrder, i, f)
  <1>1. /\ InOrder \in Seq(Sealed) /\ DOMAIN InOrder = 1 .. Len(InOrder) /\ ToSet(InOrder) = Sealed
        /\ \A k, l \in DOMAIN InOrder : InOrder[k] = InOrder[l] => k = l
    BY InOrderFacts
  <1>2. e \in Sealed
    BY <1>1 DEF ToSet
  <1>3. PICK s \in Streams : \E k \in 1 .. Len(streams[s]) : e = streams[s][k]
    BY <1>2, SealedFacts
  <1>4. PICK k \in 1 .. Len(streams[s]) : e = streams[s][k]
    BY <1>3
  <1> DEFINE n == Len(streams[s])
             g == [streams[s] EXCEPT ![k] = f]
  <1>5. PICK p : p # e.payload /\ f = [e EXCEPT !.payload = p]
    BY DEF Misreports
  <1>6. /\ n \in Nat /\ k \in 1 .. n /\ DOMAIN streams[s] = 1 .. n
        /\ streams[s] \in Seq(SealedEvents)
        /\ \A l \in 1 .. n : /\ streams[s][l].sequence_no = l - 1 /\ streams[s][l].stream_id = s
                             /\ streams[s][l] \in Sealed
        /\ \A d \in Sealed : d.stream_id = s => \E l \in 1 .. n : d = streams[s][l]
    <2>1. n = Len(streams[s])
      OBVIOUS
    <2> HIDE DEF n
    <2>2. QED
      BY <2>1, StreamFacts
  <1>7. /\ f.sequence_no = k - 1 /\ f.stream_id = s /\ f.event_id = e.event_id /\ f.payload = p
        /\ f.event_hash = <<e.event_id, e.payload>>
    <2>1. e = ProjectionEvent(s, k - 1, IF k = 1 THEN Genesis ELSE streams[s][k - 1].event_hash,
                              e.payload)
      BY <1>4 DEF Chained
    <2> DEFINE h == IF k = 1 THEN Genesis ELSE streams[s][k - 1].event_hash
    <2>2. PICK x : e = ProjectionEvent(s, k - 1, h, x)
      BY <2>1
    <2> HIDE DEF e, h
    <2>3. e.event_hash = <<e.event_id, e.payload>> /\ e.sequence_no = k - 1 /\ e.stream_id = s
      BY <2>2 DEF ProjectionEvent
    <2>4. /\ f.sequence_no = e.sequence_no /\ f.stream_id = e.stream_id /\ f.event_id = e.event_id
          /\ f.payload = p /\ f.event_hash = e.event_hash
      BY <1>5, <2>2 DEF ProjectionEvent
    <2>5. QED
      BY <2>3, <2>4
  <1>8. /\ g \in [1 .. n -> SealedEvents \cup {f}]
        /\ \A l \in 1 .. n : g[l] = IF l = k THEN f ELSE streams[s][l]
    BY <1>6
  <1>9. DOMAIN a = DOMAIN InOrder /\ \A l \in DOMAIN InOrder : a[l] = IF l = i THEN f ELSE InOrder[l]
    BY DEF ReplaceAt
  <1> HIDE DEF a, g
  <1>10. Grouped(a, s) = {g[l] : l \in 1 .. n}
    <2>1. ToSet(a) = (Sealed \ {e}) \cup {f}
      BY <1>1, <1>9 DEF ToSet
    <2>2. Grouped(a, s) = {d \in Sealed \ {e} : d.stream_id = s} \cup {f}
      BY <2>1, <1>7 DEF Grouped
    <2>3. {d \in Sealed \ {e} : d.stream_id = s} = {streams[s][l] : l \in (1 .. n) \ {k}}
      <3>1. ASSUME NEW l \in (1 .. n) \ {k} PROVE streams[s][l] # e
        <4>1. streams[s][l].sequence_no = l - 1 /\ streams[s][k].sequence_no = k - 1
          BY ONLY <1>6
        <4>2. l - 1 # k - 1
          BY ONLY <1>6
        <4> HIDE DEF e
        <4>3. QED
          BY ONLY <4>1, <4>2, <1>4
      <3>2. QED
        BY <3>1, <1>4, <1>6
    <2> HIDE DEF e, n
    <2>4. {g[l] : l \in 1 .. n} = {g[l] : l \in (1 .. n) \ {k}} \cup {g[k]}
      BY <1>6
    <2>5. g[k] = f /\ \A l \in (1 .. n) \ {k} : g[l] = streams[s][l]
      BY <1>6, <1>8
    <2>6. QED
      BY <2>2, <2>3, <2>4, <2>5
  <1>11. \A l \in 1 .. n : g[l].sequence_no = l - 1
    BY <1>6, <1>7, <1>8
  <1>12. k \in projection_event_chain_failures(g)
    <2>1. g[k] = f /\ DOMAIN g = 1 .. n
      BY <1>6, <1>8
    <2>2. <<f.event_id, f.payload>> # f.event_hash
      BY <1>5, <1>7
    <2>3. QED
      BY <2>1, <2>2, <1>6 DEF projection_event_chain_failures
  <1> HIDE DEF n
  <1>13. /\ \A l \in 1 .. n : g[l].sequence_no \in Int
         /\ \A l, m \in 1 .. n : l < m => g[l].sequence_no < g[m].sequence_no
    BY <1>6, <1>11
  <1>14. projection_event_chain_failures(g) # {}
    BY <1>12
  <1>15. rebuild_memory_projections(a) = Refused
    BY <1>6, <1>8, <1>10, <1>13, <1>14, BrokenChainIsRefused
  <1>16. QED
    BY <1>15 DEF a

(* A lost event that was not the last of its stream leaves a gap in the       *)
(* numbers.                                                                   *)
LEMMA LossIsRefused ==
  ASSUME Chained, NEW i \in DOMAIN InOrder,
         InOrder[i] # Last(streams[InOrder[i].stream_id])
  PROVE  rebuild_memory_projections(RemoveAt(InOrder, i)) = Refused
  <1> DEFINE e == InOrder[i]
             a == RemoveAt(InOrder, i)
  <1>1. /\ InOrder \in Seq(Sealed) /\ DOMAIN InOrder = 1 .. Len(InOrder) /\ ToSet(InOrder) = Sealed
        /\ \A k, l \in DOMAIN InOrder : InOrder[k] = InOrder[l] => k = l
    BY InOrderFacts
  <1>2. e \in Sealed
    BY <1>1 DEF ToSet
  <1>3. PICK s \in Streams : \E k \in 1 .. Len(streams[s]) : e = streams[s][k]
    BY <1>2, SealedFacts
  <1>4. PICK k \in 1 .. Len(streams[s]) : e = streams[s][k]
    BY <1>3
  <1> DEFINE n == Len(streams[s]) - 1
             g == [l \in 1 .. n |-> streams[s][IF l < k THEN l ELSE l + 1]]
  <1>5. /\ n + 1 \in Nat /\ k \in 1 .. n + 1 /\ DOMAIN streams[s] = 1 .. n + 1
        /\ streams[s] \in Seq(SealedEvents)
        /\ \A l \in 1 .. n + 1 : /\ streams[s][l].sequence_no = l - 1 /\ streams[s][l].stream_id = s
                                 /\ streams[s][l] \in Sealed
        /\ \A d \in Sealed : d.stream_id = s => \E l \in 1 .. n + 1 : d = streams[s][l]
    <2> DEFINE m == n + 1
    <2>1. m = Len(streams[s])
      BY SealedFacts
    <2> HIDE DEF m
    <2>2. /\ m \in Nat /\ k \in 1 .. m /\ DOMAIN streams[s] = 1 .. m
          /\ streams[s] \in Seq(SealedEvents)
          /\ \A l \in 1 .. m : /\ streams[s][l].sequence_no = l - 1 /\ streams[s][l].stream_id = s
                               /\ streams[s][l] \in Sealed
          /\ \A d \in Sealed : d.stream_id = s => \E l \in 1 .. m : d = streams[s][l]
      BY <2>1, StreamFacts
    <2> HIDE DEF n
    <2>3. QED
      BY <2>2 DEF m
  <1>6. k \in 1 .. n /\ n \in Nat
    <2>1. e.stream_id = s /\ Len(streams[s]) = n + 1
      BY <1>4, <1>5
    <2>2. e # streams[s][Len(streams[s])]
      BY <2>1 DEF Last
    <2>3. k # n + 1
      BY <2>1, <2>2, <1>4
    <2>4. QED
      BY <2>3, <1>5
  <1> HIDE DEF n
  <1>7. /\ g \in [1 .. n -> SealedEvents]
        /\ \A l \in 1 .. n : g[l].sequence_no = IF l < k THEN l - 1 ELSE l
    <2>1. ASSUME NEW l \in 1 .. n
          PROVE  (IF l < k THEN l ELSE l + 1) \in 1 .. n + 1
      BY ONLY <1>6
    <2>2. \A l \in 1 .. n + 1 : streams[s][l] \in SealedEvents
      BY <1>5
    <2>3. \A l \in 1 .. n + 1 : streams[s][l].sequence_no = l - 1
      BY <1>5
    <2>4. \A l \in 1 .. n : IF l < k THEN g[l] = streams[s][l] ELSE g[l] = streams[s][l + 1]
      OBVIOUS
    <2>5. g \in [1 .. n -> SealedEvents]
      BY ONLY <2>1, <2>2
    <2> HIDE DEF g
    <2>6. ASSUME NEW l \in 1 .. n PROVE g[l].sequence_no = IF l < k THEN l - 1 ELSE l
      <3>1. CASE l < k
        <4>1. l \in 1 .. n + 1 /\ g[l] = streams[s][l]
          BY <3>1, <2>1, <2>4
        <4>2. QED
          BY ONLY <4>1, <3>1, <2>3
      <3>2. CASE ~ (l < k)
        <4>1. l + 1 \in 1 .. n + 1 /\ g[l] = streams[s][l + 1] /\ l + 1 - 1 = l
          BY <3>2, <2>1, <2>4
        <4>2. QED
          BY ONLY <4>1, <3>2, <2>3
      <3>3. QED
        BY ONLY <3>1, <3>2
    <2>7. QED
      BY <2>5, <2>6
  <1>8. ToSet(a) = Sealed \ {e}
    <2>1. /\ a \in Seq(Sealed) /\ Len(a) = Len(InOrder) - 1
          /\ \A l \in 1 .. Len(InOrder) - 1 : a[l] = InOrder[IF l < i THEN l ELSE l + 1]
      BY <1>1, RemoveAtElements
    <2> HIDE DEF a
    <2>2. DOMAIN a = 1 .. Len(InOrder) - 1
      BY <2>1, <1>1
    <2>3. ASSUME NEW l \in 1 .. Len(InOrder) - 1 PROVE a[l] \in Sealed \ {e}
      <3>1. PICK m \in DOMAIN InOrder : a[l] = InOrder[m] /\ m # i
        <4>1. (IF l < i THEN l ELSE l + 1) \in DOMAIN InOrder /\ (IF l < i THEN l ELSE l + 1) # i
          BY <1>1
        <4>2. a[l] = InOrder[IF l < i THEN l ELSE l + 1]
          BY ONLY <2>1
        <4>3. QED
          BY ONLY <4>1, <4>2
      <3>2. InOrder[m] # InOrder[i] /\ InOrder[m] \in Sealed
        BY ONLY <3>1, <1>1, i \in DOMAIN InOrder DEF ToSet
      <3>3. QED
        BY ONLY <3>1, <3>2
    <2>4. ASSUME NEW d \in Sealed \ {e} PROVE \E l \in 1 .. Len(InOrder) - 1 : a[l] = d
      <3>1. PICK l \in DOMAIN InOrder : d = InOrder[l]
        BY <1>1 DEF ToSet
      <3>2. l # i
        BY <3>1
      <3>3. CASE l < i
        BY <3>1, <3>3, <2>1, <1>1
      <3>4. CASE l > i
        <4>1. l - 1 \in 1 .. Len(InOrder) - 1 /\ ~ (l - 1 < i) /\ l - 1 + 1 = l
          BY <3>4, <1>1
        <4>2. QED
          BY <4>1, <3>1, <2>1
      <3>5. QED
        BY <3>2, <3>3, <3>4, <1>1
    <2>5. QED
      BY <2>2, <2>3, <2>4 DEF ToSet
  <1> HIDE DEF a
  <1>9. Grouped(a, s) = {g[l] : l \in 1 .. n}
    <2>1. Grouped(a, s) = {d \in Sealed \ {e} : d.stream_id = s}
      BY <1>8 DEF Grouped
    <2>2. ASSUME NEW d \in Sealed \ {e}, d.stream_id = s PROVE \E l \in 1 .. n : g[l] = d
      <3>1. PICK m \in 1 .. n + 1 : d = streams[s][m] /\ m # k
        BY <2>2, <1>4, <1>5
      <3>2. CASE m < k
        BY <3>1, <3>2, <1>5, <1>6
      <3>3. CASE m > k
        <4>1. m - 1 \in 1 .. n /\ ~ (m - 1 < k) /\ m - 1 + 1 = m
          BY <3>3, <1>5, <1>6
        <4>2. QED
          BY <4>1, <3>1
      <3>4. QED
        BY <3>1, <3>2, <3>3, <1>5
    <2>3. ASSUME NEW l \in 1 .. n PROVE g[l] \in Sealed \ {e} /\ g[l].stream_id = s
      <3>1. g[l] \in Sealed /\ g[l].stream_id = s
        BY <1>5, <1>6
      <3>2. g[l].sequence_no # e.sequence_no
        BY <1>4, <1>5, <1>6, <1>7
      <3>3. QED
        BY <3>1, <3>2
    <2> HIDE DEF g
    <2>4. QED
      BY <2>1, <2>2, <2>3
  <1> HIDE DEF g
  <1>10. k \in projection_event_chain_failures(g)
    <2>1. DOMAIN g = 1 .. n
      BY <1>7
    <2>2. g[k].sequence_no # k - 1
      BY <1>6, <1>7
    <2>3. QED
      BY <2>1, <2>2, <1>6 DEF projection_event_chain_failures
  <1>11. \A l \in 1 .. n : g[l].sequence_no \in Int
    BY <1>6, <1>7
  <1>12. \A l, m \in 1 .. n : l < m => g[l].sequence_no < g[m].sequence_no
    BY <1>6, <1>7
  <1>13. QED
    BY <1>6, <1>7, <1>9, <1>10, <1>11, <1>12, BrokenChainIsRefused DEF a

(* Chained streams are checked on delivery. *)
LEMMA DeliveryChecked == Chained => DeliveryIsChecked
  BY MovedChangesNothing, RepeatIsRefused, AlteredIsRefused, LossIsRefused
     DEF DeliveryIsChecked, validate_rebuild_equivalence

----------------------------------------------------------------------------
(* The indexes, event by event. *)

(* An index as it grows, event by event. *)
Grown(kind, events, n, after) ==
  after = [m \in 0 .. n |-> IF m = 0 THEN Empty ELSE index_step(kind, after[m - 1], events[m])]

(* Such a function exists for every number of events. *)
LEMMA GrownExists ==
  ASSUME NEW kind, NEW events, NEW n \in Nat
  PROVE  \E after : Grown(kind, events, n, after)
  <1> DEFINE Stuck == {m \in Nat : ~ \E after : Grown(kind, events, m, after)}
  <1>1. SUFFICES ASSUME n \in Stuck PROVE FALSE
    OBVIOUS
  <1>2. PICK m \in Stuck : \A k \in Stuck : m <= k
    <2> HIDE DEF Stuck
    <2>1. Stuck \subseteq Nat
      BY DEF Stuck
    <2>2. QED
      BY <1>1, <2>1, LeastNat
  <1>3. m # 0
    <2>1. Grown(kind, events, 0, [k \in 0 .. 0 |-> Empty])
      BY DEF Grown
    <2>2. QED
      BY <2>1
  <1>4. PICK a : Grown(kind, events, m - 1, a)
    <2>1. m - 1 \in Nat /\ m - 1 \notin Stuck
      BY <1>2, <1>3
    <2>2. QED
      BY <2>1
  <1> DEFINE b == [k \in 0 .. m |-> IF k = m THEN index_step(kind, a[m - 1], events[m]) ELSE a[k]]
  <1>5. \A k \in 0 .. m : b[k] = IF k = 0 THEN Empty ELSE index_step(kind, b[k - 1], events[k])
    <2>1. /\ \A k \in 0 .. m - 1 : a[k] = IF k = 0 THEN Empty ELSE index_step(kind, a[k - 1], events[k])
      BY <1>4 DEF Grown
    <2>2. m \in Nat
      OBVIOUS
    <2>3. ASSUME NEW k \in 0 .. m
          PROVE  b[k] = IF k = 0 THEN Empty ELSE index_step(kind, b[k - 1], events[k])
      <3>1. CASE k = m
        <4>1. b[k - 1] = a[m - 1] /\ k # 0
          BY <3>1, <1>3, <2>2
        <4>2. b[k] = index_step(kind, a[m - 1], events[m])
          BY <3>1
        <4> HIDE DEF b
        <4>3. QED
          BY <4>1, <4>2, <3>1
      <3>2. CASE k # m /\ k # 0
        <4>1. b[k] = a[k] /\ b[k - 1] = a[k - 1] /\ k \in 0 .. m - 1
          BY <3>2, <2>2
        <4> HIDE DEF b
        <4>2. QED
          BY <4>1, <3>2, <2>1
      <3>3. CASE k = 0 /\ k # m
        BY <3>3, <2>1, <2>2
      <3>4. QED
        BY <3>1, <3>2, <3>3
    <2>4. QED
      BY <2>3
  <1>6. Grown(kind, events, m, b)
    <2>1. b = [k \in 0 .. m |-> b[k]]
      OBVIOUS
    <2> HIDE DEF b
    <2>2. QED
      BY <1>5, <2>1 DEF Grown
  <1>7. QED
    BY <1>6

(* An index read from a stream is the last of the indexes grown event by      *)
(* event.                                                                     *)
LEMMA IndexGrows ==
  ASSUME NEW kind, NEW events, Len(events) \in Nat
  PROVE  \E after :
           /\ after[0] = Empty /\ rebuild_index(kind, events) = after[Len(events)]
           /\ \A n \in 1 .. Len(events) : after[n] = index_step(kind, after[n - 1], events[n])
  <1> DEFINE a == CHOOSE after : Grown(kind, events, Len(events), after)
  <1>1. Grown(kind, events, Len(events), a)
    BY GrownExists
  <1>2. rebuild_index(kind, events) = a[Len(events)]
    BY DEF rebuild_index, Grown
  <1> HIDE DEF a
  <1>3. /\ a[0] = Empty
        /\ \A n \in 1 .. Len(events) : a[n] = index_step(kind, a[n - 1], events[n])
    BY <1>1 DEF Grown
  <1>4. QED
    BY <1>2, <1>3

(* What one event may do to an index. *)
Shaped(index) ==
  /\ index = [refused |-> index.refused, entries |-> index.entries] /\ index.refused \in BOOLEAN
  /\ index.entries = [x \in DOMAIN index.entries |-> index.entries[x]]

(* A refused index keeps its entries. *)
LEMMA RefuseShape ==
  ASSUME NEW index, Shaped(index)
  PROVE  Shaped(Refuse(index)) /\ Refuse(index).refused
  <1>1. PICK r, f : index = [refused |-> r, entries |-> f]
    BY DEF Shaped
  <1>2. Refuse(index) = [refused |-> TRUE, entries |-> f]
    <2>1. ASSUME NEW b
          PROVE  [[refused |-> r, entries |-> f] EXCEPT !.refused = b] = [refused |-> b, entries |-> f]
      OBVIOUS
    <2>2. QED
      BY <1>1, <2>1, Zenon DEF Refuse
  <1>3. index.entries = f
    BY <1>1
  <1>4. f = [x \in DOMAIN f |-> f[x]]
    BY <1>3 DEF Shaped
  <1>5. QED
    BY <1>2, <1>4 DEF Shaped

(* Recording an id that is not listed lists it and leaves the others alone. *)
LEMMA EnterShape ==
  ASSUME NEW index, Shaped(index), NEW id, NEW entry
  PROVE  LET after == Enter(index, id, entry) IN
         /\ Shaped(after) /\ (index.refused => after.refused)
         /\ ~after.refused =>
              /\ id \notin DOMAIN index.entries
              /\ DOMAIN after.entries = DOMAIN index.entries \cup {id}
              /\ after.entries[id] = entry
              /\ \A x \in DOMAIN index.entries : after.entries[x] = index.entries[x]
  <1>1. CASE id \in DOMAIN index.entries
    BY <1>1, RefuseShape DEF Enter
  <1>2. CASE id \notin DOMAIN index.entries
    <2> DEFINE f == [x \in DOMAIN index.entries \cup {id} |-> IF x = id THEN entry ELSE index.entries[x]]
    <2>1. Enter(index, id, entry) = [index EXCEPT !.entries = f]
      BY <1>2 DEF Enter
    <2>2. [index EXCEPT !.entries = f] = [refused |-> index.refused, entries |-> f]
      <3> HIDE DEF f
      <3> QED BY DEF Shaped
    <2>3. QED
      BY <1>2, <2>1, <2>2 DEF Shaped
  <1>3. QED
    BY <1>1, <1>2

(* Removing an id that is listed leaves the others alone. *)
LEMMA DropShape ==
  ASSUME NEW index, Shaped(index), NEW id
  PROVE  LET after == Drop(index, id) IN
         /\ Shaped(after) /\ (index.refused => after.refused)
         /\ ~after.refused =>
              /\ id \in DOMAIN index.entries
              /\ DOMAIN after.entries = DOMAIN index.entries \ {id}
              /\ \A x \in DOMAIN after.entries : after.entries[x] = index.entries[x]
  <1>1. CASE id \notin DOMAIN index.entries
    BY <1>1, RefuseShape DEF Drop
  <1>2. CASE id \in DOMAIN index.entries
    <2> DEFINE f == [x \in DOMAIN index.entries \ {id} |-> index.entries[x]]
    <2>1. Drop(index, id) = [index EXCEPT !.entries = f]
      BY <1>2 DEF Drop
    <2>2. [index EXCEPT !.entries = f] = [refused |-> index.refused, entries |-> f]
      <3> HIDE DEF f
      <3> QED BY DEF Shaped
    <2>3. QED
      BY <1>2, <2>1, <2>2 DEF Shaped
  <1>3. QED
    BY <1>1, <1>2

(* Superseding touches one entry of two that are listed. *)
LEMMA SupersedeShape ==
  ASSUME NEW index, Shaped(index), NEW id, NEW replacement
  PROVE  LET after == Supersede(index, id, replacement) IN
         /\ Shaped(after) /\ (index.refused => after.refused)
         /\ ~after.refused =>
              /\ {id, replacement} \subseteq DOMAIN index.entries /\ id # replacement
              /\ DOMAIN after.entries = DOMAIN index.entries
              /\ after.entries[id] = [index.entries[id] EXCEPT !.superseded_by = replacement]
              /\ \A x \in DOMAIN after.entries \ {id} : after.entries[x] = index.entries[x]
  <1>1. CASE ~({id, replacement} \subseteq DOMAIN index.entries /\ id # replacement)
    BY <1>1, RefuseShape DEF Supersede
  <1>2. CASE {id, replacement} \subseteq DOMAIN index.entries /\ id # replacement
    <2> DEFINE f == [index.entries EXCEPT ![id].superseded_by = replacement]
    <2>1. Supersede(index, id, replacement) = [index EXCEPT !.entries[id].superseded_by = replacement]
      BY <1>2 DEF Supersede
    <2>2. [index EXCEPT !.entries[id].superseded_by = replacement]
            = [refused |-> index.refused, entries |-> f]
      BY DEF Shaped
    <2>3. /\ DOMAIN f = DOMAIN index.entries
          /\ f[id] = [index.entries[id] EXCEPT !.superseded_by = replacement]
          /\ \A x \in DOMAIN f \ {id} : f[x] = index.entries[x]
      BY <1>2
    <2> HIDE DEF f
    <2>4. QED
      BY <1>2, <2>1, <2>2, <2>3 DEF Shaped
  <1>3. QED
    BY <1>1, <1>2

----------------------------------------------------------------------------
(* The novelty index. *)

(* What one event says. *)
Says1(e, kind, id) == e.payload.kind = kind /\ e.payload.id = id

(* The novelty entries after n events. *)
NoveltyUpTo(f, events, n) ==
  /\ \A id \in DOMAIN f : \E i \in 1 .. n :
       /\ Says1(events[i], "novelty_entry_recorded", id)
       /\ f[id].fingerprint = events[i].payload.fingerprint
       /\ \A j \in i + 1 .. n : events[j].payload.id # id
  /\ \A i \in 1 .. n :
       /\ events[i].payload.kind = "novelty_entry_recorded"
       /\ \A j \in i + 1 .. n : events[j].payload.id # events[i].payload.id
       => events[i].payload.id \in DOMAIN f

(* Recording an entry keeps the novelty index in step with its events. *)
LEMMA NoveltyEntered ==
  ASSUME NEW f, NEW g, NEW events, NEW n \in Nat \ {0}, NoveltyUpTo(f, events, n - 1),
         NEW id, Says1(events[n], "novelty_entry_recorded", id),
         id \notin DOMAIN f, DOMAIN g = DOMAIN f \cup {id},
         g[id].fingerprint = events[n].payload.fingerprint,
         \A x \in DOMAIN f : g[x] = f[x]
  PROVE  NoveltyUpTo(g, events, n)
  <1>1. ASSUME NEW x \in DOMAIN g
        PROVE  \E i \in 1 .. n : /\ Says1(events[i], "novelty_entry_recorded", x)
                                 /\ g[x].fingerprint = events[i].payload.fingerprint
                                 /\ \A j \in i + 1 .. n : events[j].payload.id # x
    <2>1. CASE x = id
      <3>1. n \in 1 .. n /\ n + 1 .. n = {}
        OBVIOUS
      <3>2. QED
        BY <2>1, <3>1
    <2>2. CASE x # id
      <3>1. x \in DOMAIN f /\ g[x] = f[x]
        BY <2>2
      <3>2. PICK i \in 1 .. n - 1 : /\ Says1(events[i], "novelty_entry_recorded", x)
                                    /\ f[x].fingerprint = events[i].payload.fingerprint
                                    /\ \A j \in i + 1 .. n - 1 : events[j].payload.id # x
        BY <3>1 DEF NoveltyUpTo
      <3>3. \A j \in i + 1 .. n : j \in i + 1 .. n - 1 \/ j = n
        OBVIOUS
      <3>4. events[n].payload.id # x
        BY <2>2 DEF Says1
      <3>5. \A j \in i + 1 .. n : events[j].payload.id # x
        BY <3>2, <3>3, <3>4
      <3>6. i \in 1 .. n
        OBVIOUS
      <3>7. QED
        BY <3>1, <3>2, <3>5, <3>6
    <2>3. QED
      BY <2>1, <2>2
  <1>2. ASSUME NEW i \in 1 .. n, events[i].payload.kind = "novelty_entry_recorded",
               \A j \in i + 1 .. n : events[j].payload.id # events[i].payload.id
        PROVE  events[i].payload.id \in DOMAIN g
    <2>1. CASE i = n
      BY <2>1 DEF Says1
    <2>2. CASE i # n
      <3>1. i \in 1 .. n - 1 /\ \A j \in i + 1 .. n - 1 : j \in i + 1 .. n
        BY <2>2
      <3>2. \A j \in i + 1 .. n - 1 : events[j].payload.id # events[i].payload.id
        BY <3>1, <1>2
      <3>3. events[i].payload.id \in DOMAIN f
        BY <3>1, <3>2, <1>2 DEF NoveltyUpTo
      <3>4. QED
        BY <3>3
    <2>3. QED
      BY <2>1, <2>2
  <1>3. QED
    BY <1>1, <1>2 DEF NoveltyUpTo

(* Removing an entry keeps the novelty index in step with its events. *)
LEMMA NoveltyDropped ==
  ASSUME NEW f, NEW g, NEW events, NEW n \in Nat \ {0}, NoveltyUpTo(f, events, n - 1),
         NEW id, events[n].payload.id = id, events[n].payload.kind # "novelty_entry_recorded",
         DOMAIN g = DOMAIN f \ {id}, \A x \in DOMAIN g : g[x] = f[x]
  PROVE  NoveltyUpTo(g, events, n)
  <1>1. ASSUME NEW x \in DOMAIN g
        PROVE  \E i \in 1 .. n : /\ Says1(events[i], "novelty_entry_recorded", x)
                                 /\ g[x].fingerprint = events[i].payload.fingerprint
                                 /\ \A j \in i + 1 .. n : events[j].payload.id # x
    <2>1. x \in DOMAIN f /\ g[x] = f[x] /\ x # id
      OBVIOUS
    <2>2. PICK i \in 1 .. n - 1 : /\ Says1(events[i], "novelty_entry_recorded", x)
                                  /\ f[x].fingerprint = events[i].payload.fingerprint
                                  /\ \A j \in i + 1 .. n - 1 : events[j].payload.id # x
      BY <2>1 DEF NoveltyUpTo
    <2>3. \A j \in i + 1 .. n : j \in i + 1 .. n - 1 \/ j = n
      OBVIOUS
    <2>4. \A j \in i + 1 .. n : events[j].payload.id # x
      BY <2>1, <2>2, <2>3
    <2>5. i \in 1 .. n
      OBVIOUS
    <2>6. QED
      BY <2>1, <2>2, <2>4, <2>5
  <1>2. ASSUME NEW i \in 1 .. n, events[i].payload.kind = "novelty_entry_recorded",
               \A j \in i + 1 .. n : events[j].payload.id # events[i].payload.id
        PROVE  events[i].payload.id \in DOMAIN g
    <2>1. i # n
      BY <1>2
    <2>2. i \in 1 .. n - 1 /\ n \in i + 1 .. n /\ \A j \in i + 1 .. n - 1 : j \in i + 1 .. n
      BY <2>1
    <2>3. \A j \in i + 1 .. n - 1 : events[j].payload.id # events[i].payload.id
      BY <2>2, <1>2
    <2>4. events[i].payload.id \in DOMAIN f
      BY <2>2, <2>3, <1>2 DEF NoveltyUpTo
    <2>5. events[i].payload.id # id
      BY <2>2, <1>2
    <2>6. QED
      BY <2>4, <2>5
  <1>3. QED
    BY <1>1, <1>2 DEF NoveltyUpTo

(* A novelty index that is not refused is in step with its whole stream. *)
LEMMA NoveltyReplay ==
  ASSUME NEW events, Len(events) \in Nat,
         ~rebuild_index("novelty", events).refused
  PROVE  NoveltyUpTo(rebuild_index("novelty", events).entries, events, Len(events))
  <1> DEFINE N == Len(events)
  <1>1. PICK after :
           /\ after[0] = Empty /\ rebuild_index("novelty", events) = after[N]
           /\ \A n \in 1 .. N : after[n] = index_step("novelty", after[n - 1], events[n])
    BY IndexGrows
  <1> DEFINE Good(n) == Shaped(after[n]) /\ (after[n].refused \/ NoveltyUpTo(after[n].entries, events, n))
             Bad == {n \in 0 .. N : ~Good(n)}
  <1>2. SUFFICES Good(N)
    BY <1>1
  <1>3. SUFFICES ASSUME Bad # {} PROVE FALSE
    OBVIOUS
  <1>4. PICK n \in Bad : \A m \in Bad : n <= m
    <2>1. Bad \subseteq Nat
      OBVIOUS
    <2> HIDE DEF Bad
    <2>2. QED
      BY <1>3, <2>1, LeastNat
  <1>5. n # 0
    <2>1. Shaped(after[0]) /\ after[0].entries = <<>>
      BY <1>1 DEF Empty, Shaped
    <2>2. NoveltyUpTo(<<>>, events, 0)
      BY DEF NoveltyUpTo
    <2>3. QED
      BY <2>1, <2>2
  <1>6. Good(n - 1) /\ n \in 1 .. N
    BY <1>4, <1>5
  <1> DEFINE e == events[n]
             prior == after[n - 1]
             next == after[n]
  <1>7. next = novelty_step(prior, e)
    BY <1>1, <1>6 DEF index_step
  <1>8. n \in Nat \ {0}
    BY <1>6
  <1>9. Shaped(prior) /\ (prior.refused \/ NoveltyUpTo(prior.entries, events, n - 1))
    BY <1>6
  <1>10. Good(n)
    <2> HIDE DEF prior, next
    <2> SUFFICES Shaped(next) /\ (next.refused \/ NoveltyUpTo(next.entries, events, n))
      BY DEF next
    <2>1. CASE e.payload.kind = "novelty_entry_recorded"
      <3> DEFINE id == e.payload.id
                 entry == [fingerprint |-> e.payload.fingerprint, source_event_id |-> e.event_id]
      <3>1. next = Enter(prior, id, entry)
        BY <2>1, <1>7 DEF novelty_step
      <3>2. /\ Says1(events[n], "novelty_entry_recorded", id)
            /\ entry.fingerprint = events[n].payload.fingerprint
        BY <2>1 DEF Says1
      <3> HIDE DEF id, entry, e
      <3>3. /\ Shaped(next) /\ (prior.refused => next.refused)
            /\ ~next.refused =>
                 /\ id \notin DOMAIN prior.entries
                 /\ DOMAIN next.entries = DOMAIN prior.entries \cup {id}
                 /\ next.entries[id] = entry
                 /\ \A x \in DOMAIN prior.entries : next.entries[x] = prior.entries[x]
        BY <3>1, <1>9, EnterShape
      <3>4. ASSUME ~next.refused PROVE NoveltyUpTo(next.entries, events, n)
        <4> DEFINE f == prior.entries
                   g == next.entries
        <4>1. /\ id \notin DOMAIN f /\ DOMAIN g = DOMAIN f \cup {id}
              /\ g[id].fingerprint = events[n].payload.fingerprint
              /\ \A x \in DOMAIN f : g[x] = f[x]
          BY <3>2, <3>3, <3>4
        <4>2. NoveltyUpTo(f, events, n - 1)
          BY <3>3, <3>4, <1>9
        <4> HIDE DEF f, g
        <4>3. NoveltyUpTo(g, events, n)
          BY ONLY <4>1, <4>2, <3>2, <1>8, NoveltyEntered
        <4>4. QED
          BY <4>3 DEF g
      <3>5. QED
        BY <3>3, <3>4
    <2>2. CASE e.payload.kind # "novelty_entry_recorded"
      <3> DEFINE id == e.payload.id
      <3>1. next = Drop(prior, id)
        BY <2>2, <1>7 DEF novelty_step
      <3>2. events[n].payload.id = id /\ events[n].payload.kind # "novelty_entry_recorded"
        BY <2>2
      <3> HIDE DEF id, e
      <3>3. /\ Shaped(next) /\ (prior.refused => next.refused)
            /\ ~next.refused =>
                 /\ id \in DOMAIN prior.entries
                 /\ DOMAIN next.entries = DOMAIN prior.entries \ {id}
                 /\ \A x \in DOMAIN next.entries : next.entries[x] = prior.entries[x]
        BY <3>1, <1>9, DropShape
      <3>4. ASSUME ~next.refused PROVE NoveltyUpTo(next.entries, events, n)
        <4> DEFINE f == prior.entries
                   g == next.entries
        <4>1. DOMAIN g = DOMAIN f \ {id} /\ \A x \in DOMAIN g : g[x] = f[x]
          BY <3>3, <3>4
        <4>2. NoveltyUpTo(f, events, n - 1)
          BY <3>3, <3>4, <1>9
        <4> HIDE DEF f, g
        <4>3. NoveltyUpTo(g, events, n)
          BY ONLY <4>1, <4>2, <3>2, <1>8, NoveltyDropped
        <4>4. QED
          BY <4>3 DEF g
      <3>5. QED
        BY <3>3, <3>4
    <2>3. QED
      BY <2>1, <2>2
  <1>11. QED
    BY <1>4, <1>10

----------------------------------------------------------------------------
(* The artifact index. *)

(* The record at i is the last word on whether the id is listed. *)
RecordedAt(events, n, id, i) ==
  /\ Says1(events[i], "artifact_recorded", id)
  /\ \A j \in i + 1 .. n : events[j].payload.id = id => events[j].payload.kind = "artifact_superseded"

(* The entry was never superseded since its record, or it was last            *)
(* superseded by one that was listed then.                                    *)
SupersededAs(f, events, n, id, i) ==
  \/ /\ f[id].superseded_by = Absent
     /\ \A j \in i + 1 .. n : ~Says1(events[j], "artifact_superseded", id)
  \/ \E k \in i + 1 .. n :
       /\ Says1(events[k], "artifact_superseded", id)
       /\ f[id].superseded_by = events[k].payload.replacement /\ f[id].superseded_by # id
       /\ \A j \in k + 1 .. n : ~Says1(events[j], "artifact_superseded", id)
       /\ \/ f[id].superseded_by \in DOMAIN f
          \/ \E j \in k + 1 .. n : Says1(events[j], "artifact_removed", f[id].superseded_by)

(* The artifact entries after n events. *)
ArtifactUpTo(f, events, n) ==
  /\ \A id \in DOMAIN f :
       /\ f[id] = [source_event_id |-> f[id].source_event_id, superseded_by |-> f[id].superseded_by]
       /\ \E i \in 1 .. n : RecordedAt(events, n, id, i) /\ SupersededAs(f, events, n, id, i)
  /\ \A i \in 1 .. n : RecordedAt(events, n, events[i].payload.id, i) => events[i].payload.id \in DOMAIN f

(* A record still counts after an event that neither repeats nor removes it. *)
LEMMA RecordedKept ==
  ASSUME NEW events, NEW n \in Nat \ {0}, NEW id, NEW i \in 1 .. n - 1,
         RecordedAt(events, n - 1, id, i),
         events[n].payload.id = id => events[n].payload.kind = "artifact_superseded"
  PROVE  RecordedAt(events, n, id, i)
  <1>1. \A j \in i + 1 .. n : j \in i + 1 .. n - 1 \/ j = n
    OBVIOUS
  <1>2. QED
    BY <1>1 DEF RecordedAt

(* A record that counts now counted one event ago. *)
LEMMA RecordedBefore ==
  ASSUME NEW events, NEW n \in Nat \ {0}, NEW id, NEW i \in 1 .. n - 1,
         RecordedAt(events, n, id, i)
  PROVE  /\ RecordedAt(events, n - 1, id, i)
         /\ events[n].payload.id = id => events[n].payload.kind = "artifact_superseded"
  <1>1. n \in i + 1 .. n /\ \A j \in i + 1 .. n - 1 : j \in i + 1 .. n
    OBVIOUS
  <1>2. QED
    BY <1>1 DEF RecordedAt

(* A supersession still holds after an event that is not another of the same  *)
(* id; what the index dropped meanwhile was removed.                          *)
LEMMA SupersededKept ==
  ASSUME NEW f, NEW g, NEW events, NEW n \in Nat \ {0}, NEW id, NEW i \in 1 .. n - 1,
         SupersededAs(f, events, n - 1, id, i), g[id] = f[id],
         ~Says1(events[n], "artifact_superseded", id),
         \A x \in DOMAIN f \ DOMAIN g : Says1(events[n], "artifact_removed", x)
  PROVE  SupersededAs(g, events, n, id, i)
  <1> DEFINE by == f[id].superseded_by
  <1>1. CASE /\ by = Absent
             /\ \A j \in i + 1 .. n - 1 : ~Says1(events[j], "artifact_superseded", id)
    <2>1. \A j \in i + 1 .. n : j \in i + 1 .. n - 1 \/ j = n
      OBVIOUS
    <2>2. \A j \in i + 1 .. n : ~Says1(events[j], "artifact_superseded", id)
      BY <1>1, <2>1
    <2>3. g[id].superseded_by = Absent
      BY <1>1
    <2>4. QED
      BY <2>2, <2>3 DEF SupersededAs
  <1>2. ASSUME NEW k \in i + 1 .. n - 1,
               Says1(events[k], "artifact_superseded", id),
               by = events[k].payload.replacement /\ by # id,
               \A j \in k + 1 .. n - 1 : ~Says1(events[j], "artifact_superseded", id),
               \/ by \in DOMAIN f
               \/ \E j \in k + 1 .. n - 1 : Says1(events[j], "artifact_removed", by)
        PROVE  SupersededAs(g, events, n, id, i)
    <2>1. \A j \in k + 1 .. n : j \in k + 1 .. n - 1 \/ j = n
      OBVIOUS
    <2>2. \A j \in k + 1 .. n : ~Says1(events[j], "artifact_superseded", id)
      BY <1>2, <2>1
    <2>3. k \in i + 1 .. n /\ n \in k + 1 .. n /\ \A j \in k + 1 .. n - 1 : j \in k + 1 .. n
      OBVIOUS
    <2>4. g[id].superseded_by = by
      OBVIOUS
    <2> HIDE DEF by
    <2>5. by \in DOMAIN g \/ \E j \in k + 1 .. n : Says1(events[j], "artifact_removed", by)
      <3>1. CASE by \in DOMAIN f
        BY <3>1, <2>3
      <3>2. CASE \E j \in k + 1 .. n - 1 : Says1(events[j], "artifact_removed", by)
        BY <3>2, <2>3
      <3>3. QED
        BY <1>2, <3>1, <3>2
    <2>6. QED
      BY <1>2, <2>2, <2>3, <2>4, <2>5 DEF SupersededAs
  <1>3. QED
    BY <1>1, <1>2 DEF SupersededAs

(* What is said of an id that is listed. *)
LEMMA ListedBefore ==
  ASSUME NEW f, NEW events, NEW n \in Nat \ {0}, ArtifactUpTo(f, events, n - 1), NEW id \in DOMAIN f
  PROVE  /\ f[id] = [source_event_id |-> f[id].source_event_id, superseded_by |-> f[id].superseded_by]
         /\ \E i \in 1 .. n - 1 : RecordedAt(events, n - 1, id, i) /\ SupersededAs(f, events, n - 1, id, i)
  BY DEF ArtifactUpTo

(* An id the event is not about stays in step. *)
LEMMA ArtifactKept ==
  ASSUME NEW f, NEW g, NEW events, NEW n \in Nat \ {0}, ArtifactUpTo(f, events, n - 1),
         NEW id \in DOMAIN f, g[id] = f[id], events[n].payload.id # id,
         \A x \in DOMAIN f \ DOMAIN g : Says1(events[n], "artifact_removed", x)
  PROVE  /\ g[id] = [source_event_id |-> g[id].source_event_id, superseded_by |-> g[id].superseded_by]
         /\ \E i \in 1 .. n : RecordedAt(events, n, id, i) /\ SupersededAs(g, events, n, id, i)
  <1>1. f[id] = [source_event_id |-> f[id].source_event_id, superseded_by |-> f[id].superseded_by]
    BY ListedBefore
  <1>2. PICK i \in 1 .. n - 1 : RecordedAt(events, n - 1, id, i) /\ SupersededAs(f, events, n - 1, id, i)
    BY ListedBefore
  <1>3. RecordedAt(events, n, id, i)
    BY <1>2, RecordedKept
  <1>4. ~Says1(events[n], "artifact_superseded", id)
    BY DEF Says1
  <1>5. SupersededAs(g, events, n, id, i)
    BY <1>2, <1>4, SupersededKept
  <1>6. i \in 1 .. n
    OBVIOUS
  <1>7. QED
    BY <1>1, <1>3, <1>5, <1>6

(* Recording an artifact keeps the artifact index in step with its events. *)
LEMMA ArtifactEntered ==
  ASSUME NEW f, NEW g, NEW events, NEW n \in Nat \ {0}, ArtifactUpTo(f, events, n - 1),
         NEW id, Says1(events[n], "artifact_recorded", id),
         id \notin DOMAIN f, DOMAIN g = DOMAIN f \cup {id}, NEW source,
         g[id] = [source_event_id |-> source, superseded_by |-> Absent],
         \A x \in DOMAIN f : g[x] = f[x]
  PROVE  ArtifactUpTo(g, events, n)
  <1>1. ASSUME NEW x \in DOMAIN g
        PROVE  /\ g[x] = [source_event_id |-> g[x].source_event_id, superseded_by |-> g[x].superseded_by]
               /\ \E i \in 1 .. n : RecordedAt(events, n, x, i) /\ SupersededAs(g, events, n, x, i)
    <2>1. CASE x = id
      <3>1. n \in 1 .. n /\ n + 1 .. n = {}
        OBVIOUS
      <3>2. RecordedAt(events, n, id, n)
        BY <3>1 DEF RecordedAt
      <3>3. g[id].superseded_by = Absent
        OBVIOUS
      <3>4. SupersededAs(g, events, n, id, n)
        BY <3>1, <3>3 DEF SupersededAs
      <3>5. g[id] = [source_event_id |-> g[id].source_event_id, superseded_by |-> g[id].superseded_by]
        OBVIOUS
      <3>6. QED
        BY <2>1, <3>1, <3>2, <3>4, <3>5
    <2>2. CASE x # id
      <3>1. x \in DOMAIN f /\ g[x] = f[x] /\ events[n].payload.id # x
        BY <2>2 DEF Says1
      <3>2. QED
        BY <3>1, ArtifactKept
    <2>3. QED
      BY <2>1, <2>2
  <1>2. ASSUME NEW i \in 1 .. n, RecordedAt(events, n, events[i].payload.id, i)
        PROVE  events[i].payload.id \in DOMAIN g
    <2>1. CASE i = n
      BY <2>1 DEF Says1
    <2>2. CASE i # n
      <3>1. i \in 1 .. n - 1
        BY <2>2
      <3>2. RecordedAt(events, n - 1, events[i].payload.id, i)
        BY <3>1, <1>2, RecordedBefore
      <3>3. QED
        BY <3>1, <3>2 DEF ArtifactUpTo
    <2>3. QED
      BY <2>1, <2>2
  <1>3. QED
    BY <1>1, <1>2 DEF ArtifactUpTo

(* Removing an artifact keeps the artifact index in step with its events. *)
LEMMA ArtifactDropped ==
  ASSUME NEW f, NEW g, NEW events, NEW n \in Nat \ {0}, ArtifactUpTo(f, events, n - 1),
         NEW id, Says1(events[n], "artifact_removed", id),
         DOMAIN g = DOMAIN f \ {id}, \A x \in DOMAIN g : g[x] = f[x]
  PROVE  ArtifactUpTo(g, events, n)
  <1>1. ASSUME NEW x \in DOMAIN g
        PROVE  /\ g[x] = [source_event_id |-> g[x].source_event_id, superseded_by |-> g[x].superseded_by]
               /\ \E i \in 1 .. n : RecordedAt(events, n, x, i) /\ SupersededAs(g, events, n, x, i)
    <2>1. x \in DOMAIN f /\ g[x] = f[x] /\ events[n].payload.id # x
      BY DEF Says1
    <2>2. QED
      BY <2>1, ArtifactKept
  <1>2. ASSUME NEW i \in 1 .. n, RecordedAt(events, n, events[i].payload.id, i)
        PROVE  events[i].payload.id \in DOMAIN g
    <2>1. i # n
      BY <1>2 DEF RecordedAt, Says1
    <2>2. i \in 1 .. n - 1
      BY <2>1
    <2>3. /\ RecordedAt(events, n - 1, events[i].payload.id, i)
          /\ events[n].payload.id = events[i].payload.id => events[n].payload.kind = "artifact_superseded"
      BY <2>2, <1>2, RecordedBefore
    <2>4. events[i].payload.id \in DOMAIN f
      BY <2>2, <2>3 DEF ArtifactUpTo
    <2>5. events[i].payload.id # id
      BY <2>3 DEF Says1
    <2>6. QED
      BY <2>4, <2>5
  <1>3. QED
    BY <1>1, <1>2 DEF ArtifactUpTo

(* Superseding an artifact keeps the artifact index in step with its events. *)
LEMMA ArtifactSuperseded ==
  ASSUME NEW f, NEW g, NEW events, NEW n \in Nat \ {0}, ArtifactUpTo(f, events, n - 1),
         NEW id, Says1(events[n], "artifact_superseded", id),
         {id, events[n].payload.replacement} \subseteq DOMAIN f, id # events[n].payload.replacement,
         DOMAIN g = DOMAIN f, NEW source,
         g[id] = [source_event_id |-> source, superseded_by |-> events[n].payload.replacement],
         \A x \in DOMAIN g \ {id} : g[x] = f[x]
  PROVE  ArtifactUpTo(g, events, n)
  <1>1. ASSUME NEW x \in DOMAIN g
        PROVE  /\ g[x] = [source_event_id |-> g[x].source_event_id, superseded_by |-> g[x].superseded_by]
               /\ \E i \in 1 .. n : RecordedAt(events, n, x, i) /\ SupersededAs(g, events, n, x, i)
    <2>1. CASE x = id
      <3>1. PICK i \in 1 .. n - 1 : RecordedAt(events, n - 1, id, i)
        BY ListedBefore
      <3>2. RecordedAt(events, n, id, i)
        BY <3>1, RecordedKept DEF Says1
      <3>3. g[id].superseded_by = events[n].payload.replacement
        OBVIOUS
      <3>4. n \in i + 1 .. n /\ n + 1 .. n = {} /\ i \in 1 .. n
        OBVIOUS
      <3>5. SupersededAs(g, events, n, id, i)
        BY <3>3, <3>4 DEF SupersededAs
      <3>6. g[id] = [source_event_id |-> g[id].source_event_id, superseded_by |-> g[id].superseded_by]
        OBVIOUS
      <3>7. QED
        BY <2>1, <3>2, <3>4, <3>5, <3>6
    <2>2. CASE x # id
      <3>1. x \in DOMAIN f /\ g[x] = f[x] /\ events[n].payload.id # x
        BY <2>2 DEF Says1
      <3>2. QED
        BY <3>1, ArtifactKept
    <2>3. QED
      BY <2>1, <2>2
  <1>2. ASSUME NEW i \in 1 .. n, RecordedAt(events, n, events[i].payload.id, i)
        PROVE  events[i].payload.id \in DOMAIN g
    <2>1. i # n
      BY <1>2 DEF RecordedAt, Says1
    <2>2. i \in 1 .. n - 1
      BY <2>1
    <2>3. RecordedAt(events, n - 1, events[i].payload.id, i)
      BY <2>2, <1>2, RecordedBefore
    <2>4. QED
      BY <2>2, <2>3 DEF ArtifactUpTo
  <1>3. QED
    BY <1>1, <1>2 DEF ArtifactUpTo

(* An artifact index that is not refused is in step with its whole stream. *)
LEMMA ArtifactReplay ==
  ASSUME NEW events, Len(events) \in Nat,
         \A i \in 1 .. Len(events) :
           events[i].payload.kind \in {"artifact_recorded", "artifact_superseded", "artifact_removed"},
         ~rebuild_index("artifact", events).refused
  PROVE  ArtifactUpTo(rebuild_index("artifact", events).entries, events, Len(events))
  <1> DEFINE N == Len(events)
  <1>1. PICK after :
           /\ after[0] = Empty /\ rebuild_index("artifact", events) = after[N]
           /\ \A n \in 1 .. N : after[n] = index_step("artifact", after[n - 1], events[n])
    BY IndexGrows
  <1> DEFINE Good(n) == Shaped(after[n]) /\ (after[n].refused \/ ArtifactUpTo(after[n].entries, events, n))
             Bad == {n \in 0 .. N : ~Good(n)}
  <1>2. SUFFICES Good(N)
    BY <1>1
  <1>3. SUFFICES ASSUME Bad # {} PROVE FALSE
    OBVIOUS
  <1>4. PICK n \in Bad : \A m \in Bad : n <= m
    <2>1. Bad \subseteq Nat
      OBVIOUS
    <2> HIDE DEF Bad
    <2>2. QED
      BY <1>3, <2>1, LeastNat
  <1>5. n # 0
    <2>1. Shaped(after[0]) /\ after[0].entries = <<>>
      BY <1>1 DEF Empty, Shaped
    <2>2. ArtifactUpTo(<<>>, events, 0)
      BY DEF ArtifactUpTo
    <2>3. QED
      BY <2>1, <2>2
  <1>6. Good(n - 1) /\ n \in 1 .. N
    BY <1>4, <1>5
  <1> DEFINE e == events[n]
             prior == after[n - 1]
             next == after[n]
             id == e.payload.id
             f == prior.entries
             g == next.entries
  <1>7. next = artifact_step(prior, e)
    BY <1>1, <1>6 DEF index_step
  <1>8. n \in Nat \ {0}
    BY <1>6
  <1>9. Shaped(prior) /\ (prior.refused \/ ArtifactUpTo(f, events, n - 1))
    BY <1>6
  <1>10. Good(n)
    <2> HIDE DEF prior, next
    <2> SUFFICES Shaped(next) /\ (~next.refused => ArtifactUpTo(g, events, n))
      BY DEF next
    <2>1. CASE e.payload.kind = "artifact_recorded"
      <3> DEFINE source == e.event_id
                 entry == [source_event_id |-> source, superseded_by |-> Absent]
      <3>1. next = Enter(prior, id, entry)
        BY <2>1, <1>7 DEF artifact_step
      <3>2. Says1(events[n], "artifact_recorded", id)
        BY <2>1 DEF Says1
      <3>3. entry = [source_event_id |-> source, superseded_by |-> Absent]
        OBVIOUS
      <3> HIDE DEF id, entry, e, source
      <3>4. /\ Shaped(next) /\ (prior.refused => next.refused)
            /\ ~next.refused =>
                 /\ id \notin DOMAIN f /\ DOMAIN g = DOMAIN f \cup {id} /\ g[id] = entry
                 /\ \A x \in DOMAIN f : g[x] = f[x]
        BY <3>1, <1>9, EnterShape
      <3> HIDE DEF f, g
      <3>5. ASSUME ~next.refused PROVE ArtifactUpTo(g, events, n)
        <4>1. /\ ArtifactUpTo(f, events, n - 1)
              /\ id \notin DOMAIN f /\ DOMAIN g = DOMAIN f \cup {id}
              /\ g[id] = [source_event_id |-> source, superseded_by |-> Absent]
              /\ \A x \in DOMAIN f : g[x] = f[x]
          BY <3>3, <3>4, <3>5, <1>9
        <4>2. QED
          BY ONLY <4>1, <3>2, <1>8, ArtifactEntered
      <3>6. QED
        BY <3>4, <3>5
    <2>2. CASE e.payload.kind = "artifact_removed"
      <3>1. next = Drop(prior, id)
        BY <2>2, <1>7 DEF artifact_step
      <3>2. Says1(events[n], "artifact_removed", id)
        BY <2>2 DEF Says1
      <3> HIDE DEF id, e
      <3>3. /\ Shaped(next) /\ (prior.refused => next.refused)
            /\ ~next.refused => DOMAIN g = DOMAIN f \ {id} /\ \A x \in DOMAIN g : g[x] = f[x]
        BY <3>1, <1>9, DropShape
      <3> HIDE DEF f, g
      <3>4. ASSUME ~next.refused PROVE ArtifactUpTo(g, events, n)
        <4>1. /\ ArtifactUpTo(f, events, n - 1)
              /\ DOMAIN g = DOMAIN f \ {id} /\ \A x \in DOMAIN g : g[x] = f[x]
          BY <3>3, <3>4, <1>9
        <4>2. QED
          BY ONLY <4>1, <3>2, <1>8, ArtifactDropped
      <3>5. QED
        BY <3>3, <3>4
    <2>3. CASE e.payload.kind = "artifact_superseded"
      <3> DEFINE by == e.payload.replacement
      <3>1. next = Supersede(prior, id, by)
        BY <2>3, <1>7 DEF artifact_step
      <3>2. Says1(events[n], "artifact_superseded", id) /\ by = events[n].payload.replacement
        BY <2>3 DEF Says1
      <3> HIDE DEF id, e, by
      <3>3. /\ Shaped(next) /\ (prior.refused => next.refused)
            /\ ~next.refused =>
                 /\ {id, by} \subseteq DOMAIN f /\ id # by /\ DOMAIN g = DOMAIN f
                 /\ g[id] = [f[id] EXCEPT !.superseded_by = by]
                 /\ \A x \in DOMAIN g \ {id} : g[x] = f[x]
        BY <3>1, <1>9, SupersedeShape
      <3> HIDE DEF f, g
      <3>4. ASSUME ~next.refused PROVE ArtifactUpTo(g, events, n)
        <4> DEFINE source == f[id].source_event_id
        <4>1. ArtifactUpTo(f, events, n - 1) /\ id \in DOMAIN f
          BY <3>3, <3>4, <1>9
        <4>2. f[id] = [source_event_id |-> source, superseded_by |-> f[id].superseded_by]
          BY <4>1, <1>8, ListedBefore
        <4>3. g[id] = [source_event_id |-> source, superseded_by |-> by]
          <5> DEFINE old == f[id].superseded_by
          <5> HIDE DEF source, old
          <5>1. f[id] = [source_event_id |-> source, superseded_by |-> old]
            BY <4>2 DEF old
          <5>2. g[id] = [f[id] EXCEPT !.superseded_by = by]
            BY <3>3, <3>4
          <5>3. QED
            BY ONLY <5>1, <5>2
        <4> HIDE DEF source
        <4>4. /\ {id, events[n].payload.replacement} \subseteq DOMAIN f
              /\ id # events[n].payload.replacement /\ DOMAIN g = DOMAIN f
              /\ g[id] = [source_event_id |-> source, superseded_by |-> events[n].payload.replacement]
              /\ \A x \in DOMAIN g \ {id} : g[x] = f[x]
          BY <3>2, <3>3, <3>4, <4>3
        <4>5. QED
          BY ONLY <4>1, <4>4, <3>2, <1>8, ArtifactSuperseded
      <3>5. QED
        BY <3>3, <3>4
    <2>4. QED
      BY <1>6, <2>1, <2>2, <2>3
  <1>11. QED
    BY <1>4, <1>10

----------------------------------------------------------------------------
(* The indexes are the last word of their streams. *)

(* A finite set with at most one member. *)
LEMMA AtMostOne ==
  ASSUME NEW S, IsFiniteSet(S), Cardinality(S) <= 1, NEW s \in S, NEW t \in S
  PROVE  s = t
  <1>1. SUFFICES ASSUME s # t PROVE FALSE
    OBVIOUS
  <1>2. IsFiniteSet(S \ {s}) /\ Cardinality(S \ {s}) = Cardinality(S) - 1
    BY FS_RemoveElement
  <1>3. Cardinality(S \ {s}) = 0
    <2>1. Cardinality(S) \in Nat /\ Cardinality(S \ {s}) \in Nat
      BY <1>2, FS_CardinalityType
    <2>2. QED
      BY <1>2, <2>1
  <1>4. S \ {s} = {}
    BY <1>2, <1>3, FS_EmptySet
  <1>5. QED
    BY <1>1, <1>4

(* An accepted index is read from the one stream of its kind. *)
LEMMA SingleStream ==
  ASSUME ~Unusable(streams), NEW kind \in {"novelty", "artifact"}, NEW s \in OfKind(streams, kind)
  PROVE  single_stream(streams, kind) = streams[s] /\ ~rebuild_index(kind, streams[s]).refused
  <1> DEFINE of == OfKind(streams, kind)
             t == CHOOSE x \in of : TRUE
  <1>1. of \subseteq Streams
    BY DEF OfKind
  <1>2. IsFiniteSet(of)
    BY <1>1, AttemptStreamsAssumption, FS_Subset
  <1>3. Cardinality(of) <= 1
    <2>1. ~(Cardinality(of) > 1)
      BY DEF Unusable
    <2>2. Cardinality(of) \in Nat
      BY <1>2, FS_CardinalityType
    <2>3. QED
      BY <2>1, <2>2
  <1>4. t \in of
    OBVIOUS
  <1>5. t = s
    <2> HIDE DEF of, t
    <2>1. s \in of
      BY DEF of
    <2>2. QED
      BY <2>1, <1>2, <1>3, <1>4, AtMostOne
  <1>6. single_stream(streams, kind) = streams[s]
    BY <1>4, <1>5 DEF single_stream
  <1>7. ~rebuild_index(kind, single_stream(streams, kind)).refused
    BY DEF Unusable
  <1>8. QED
    BY <1>6, <1>7

(* What is sealed on a stream an index is built from is of its kind. *)
LEMMA IndexKinds ==
  ASSUME Chained, NEW s \in Streams, NEW i \in 1 .. Len(streams[s])
  PROVE  /\ StreamKind[s] = "novelty" =>
              streams[s][i].payload.kind \in {"novelty_entry_recorded", "novelty_entry_removed"}
         /\ StreamKind[s] = "artifact" =>
              streams[s][i].payload.kind
                \in {"artifact_recorded", "artifact_superseded", "artifact_removed"}
  <1>1. streams[s][i].payload \in IF i = 1 THEN First(s) ELSE Payloads(s)
    BY SealedFacts
  <1>2. StreamKind[s] # "attempt" => streams[s][i].payload \in Payloads(s)
    BY <1>1 DEF First, AttemptStreams
  <1>3. QED
    BY <1>2, PayloadsAssumption

(* What an index must say of the stream it was read from. *)
NoveltyLastWord(index, events) ==
  LET recorded == UNION {Live(events, "novelty_entry_recorded", "novelty_entry_removed",
                              e.payload.id) : e \in ToSet(events)}
      stated   == {events[i].payload : i \in recorded}
  IN  /\ DOMAIN index.entries = {p.id : p \in stated}
      /\ \A p \in stated : canonical_matches(index, p.fingerprint) =
                            {q.id : q \in {r \in stated : r.fingerprint = p.fingerprint}}

ArtifactLastWord(a, events) ==
  LET Listed(id) == Live(events, "artifact_recorded", "artifact_removed", id)
  IN  /\ DOMAIN a = {id \in {e.payload.id : e \in ToSet(events)} : Listed(id) # {}}
      /\ \A id \in DOMAIN a :
           LET since == {i \in Says(events, "artifact_superseded", id) : \A j \in Listed(id) : i > j}
               by    == a[id].superseded_by
           IN  IF since = {} THEN by = Absent
               ELSE /\ by = events[Max(since)].payload.replacement /\ by # id
                    /\ \/ by \in DOMAIN a
                       \/ \E j \in Says(events, "artifact_removed", by) : j > Max(since)

(* A novelty index in step with its stream is what the stream last said. *)
LEMMA NoveltyIsLastWord ==
  ASSUME NEW events, Len(events) \in Nat, DOMAIN events = 1 .. Len(events),
         \A i \in 1 .. Len(events) :
           events[i].payload.kind \in {"novelty_entry_recorded", "novelty_entry_removed"},
         NEW index, NoveltyUpTo(index.entries, events, Len(events))
  PROVE  NoveltyLastWord(index, events)
  <1> DEFINE n == Len(events)
             f == index.entries
             Id(i) == events[i].payload.id
             newest == {i \in 1 .. n : /\ events[i].payload.kind = "novelty_entry_recorded"
                                       /\ \A j \in i + 1 .. n : Id(j) # Id(i)}
             recorded == UNION {Live(events, "novelty_entry_recorded", "novelty_entry_removed",
                                     e.payload.id) : e \in ToSet(events)}
             stated == {events[i].payload : i \in recorded}
  <1>1. ASSUME NEW id
        PROVE  Live(events, "novelty_entry_recorded", "novelty_entry_removed", id)
                 = {i \in newest : Id(i) = id}
    <2>1. Says(events, "novelty_entry_recorded", id) \cup Says(events, "novelty_entry_removed", id)
            = {j \in 1 .. n : Id(j) = id}
      BY DEF Says
    <2>2. \A i \in 1 .. n : (\A j \in {k \in 1 .. n : Id(k) = id} : j <= i)
                              <=> \A j \in i + 1 .. n : Id(j) # id
      OBVIOUS
    <2> HIDE DEF Id
    <2>3. \A i : i \in Says(events, "novelty_entry_recorded", id)
                 <=> i \in 1 .. n /\ events[i].payload.kind = "novelty_entry_recorded" /\ Id(i) = id
      BY DEF Says, Id
    <2>4. ASSUME NEW i
          PROVE  i \in Live(events, "novelty_entry_recorded", "novelty_entry_removed", id)
                   <=> i \in newest /\ Id(i) = id
      <3>1. i \in Live(events, "novelty_entry_recorded", "novelty_entry_removed", id)
              <=> /\ i \in Says(events, "novelty_entry_recorded", id)
                  /\ \A j \in {k \in 1 .. n : Id(k) = id} : j <= i
        BY <2>1 DEF Live, Id
      <3>2. QED
        BY <3>1, <2>2, <2>3
    <2>5. QED
      BY <2>4
  <1>2. recorded = newest
    <2>1. \A i \in newest : \E e \in ToSet(events) : Id(i) = e.payload.id
      BY DEF ToSet
    <2> HIDE DEF newest
    <2>2. \A i \in recorded : i \in newest
      BY <1>1
    <2>3. \A i \in newest : i \in recorded
      BY <1>1, <2>1
    <2>4. QED
      BY <2>2, <2>3
  <1>3. stated = {events[i].payload : i \in newest}
    BY <1>2
  <1>4. \A i, k \in newest : Id(i) = Id(k) => i = k
    <2>1. ASSUME NEW i \in newest, NEW k \in newest, Id(i) = Id(k), i < k PROVE FALSE
      <3>1. k \in i + 1 .. n
        BY <2>1
      <3>2. QED
        BY <2>1, <3>1
    <2>2. \A i, k \in newest : i = k \/ i < k \/ k < i
      OBVIOUS
    <2>3. QED
      BY <2>1, <2>2
  <1>5. \A id \in DOMAIN f : \E i \in newest :
          Id(i) = id /\ f[id].fingerprint = events[i].payload.fingerprint
    BY DEF NoveltyUpTo, Says1
  <1>6. \A i \in newest : Id(i) \in DOMAIN f
    BY DEF NoveltyUpTo
  <1>7. \A i \in newest : f[Id(i)].fingerprint = events[i].payload.fingerprint
    <2> HIDE DEF newest
    <2>1. TAKE i \in newest
    <2>2. PICK k \in newest : Id(k) = Id(i) /\ f[Id(i)].fingerprint = events[k].payload.fingerprint
      BY <1>5, <1>6
    <2>3. k = i
      BY <1>4, <2>2
    <2>4. QED
      BY <2>2, <2>3
  <1> HIDE DEF newest, recorded, stated
  <1>8. DOMAIN f = {p.id : p \in stated}
    BY <1>3, <1>5, <1>6
  <1>9. ASSUME NEW p \in stated
        PROVE  canonical_matches(index, p.fingerprint)
                 = {q.id : q \in {r \in stated : r.fingerprint = p.fingerprint}}
    <2>1. canonical_matches(index, p.fingerprint) = {id \in DOMAIN f : f[id].fingerprint = p.fingerprint}
      BY DEF canonical_matches
    <2>2. ASSUME NEW id \in DOMAIN f, f[id].fingerprint = p.fingerprint
          PROVE  \E q \in stated : q.fingerprint = p.fingerprint /\ id = q.id
      <3>1. PICK i \in newest : Id(i) = id /\ f[id].fingerprint = events[i].payload.fingerprint
        BY <1>5
      <3>2. events[i].payload \in stated
        BY <1>3
      <3>3. QED
        BY <2>2, <3>1, <3>2
    <2>3. ASSUME NEW q \in stated, q.fingerprint = p.fingerprint
          PROVE  q.id \in DOMAIN f /\ f[q.id].fingerprint = p.fingerprint
      <3>1. PICK i \in newest : q = events[i].payload
        BY <1>3
      <3>2. QED
        BY <2>3, <3>1, <1>6, <1>7
    <2>4. QED
      BY <2>1, <2>2, <2>3
  <1>10. QED
    BY <1>8, <1>9 DEF stated, recorded, NoveltyLastWord

(* An artifact index in step with its stream is what the stream last said. *)
LEMMA ArtifactIsLastWord ==
  ASSUME NEW events, Len(events) \in Nat, DOMAIN events = 1 .. Len(events),
         \A i \in 1 .. Len(events) :
           events[i].payload.kind \in {"artifact_recorded", "artifact_superseded", "artifact_removed"},
         NEW a, ArtifactUpTo(a, events, Len(events))
  PROVE  ArtifactLastWord(a, events)
  <1> DEFINE n == Len(events)
             Listed(id) == Live(events, "artifact_recorded", "artifact_removed", id)
  <1>1. ASSUME NEW id, NEW i
        PROVE  i \in Listed(id) <=> i \in 1 .. n /\ RecordedAt(events, n, id, i)
    <2>1. Says(events, "artifact_removed", id) \cup Says(events, "artifact_recorded", id)
            = {j \in 1 .. n : events[j].payload.id = id /\ events[j].payload.kind # "artifact_superseded"}
      BY DEF Says
    <2>2. i \in 1 .. n =>
            ((\A j \in Says(events, "artifact_removed", id) \cup Says(events, "artifact_recorded", id) :
                j <= i)
              <=> \A j \in i + 1 .. n :
                    events[j].payload.id = id => events[j].payload.kind = "artifact_superseded")
      BY <2>1
    <2>3. QED
      BY <2>2 DEF Live, Says, RecordedAt, Says1
  <1>2. ASSUME NEW id, NEW i \in Listed(id), NEW k \in Listed(id) PROVE i = k
    <2>1. i \in 1 .. n /\ k \in 1 .. n /\ RecordedAt(events, n, id, i) /\ RecordedAt(events, n, id, k)
      BY <1>1
    <2>2. ~(i < k)
      <3>1. i < k => k \in i + 1 .. n
        BY <2>1
      <3>2. QED
        BY <2>1, <3>1 DEF RecordedAt, Says1
    <2>3. ~(k < i)
      <3>1. k < i => i \in k + 1 .. n
        BY <2>1
      <3>2. QED
        BY <2>1, <3>1 DEF RecordedAt, Says1
    <2>4. QED
      BY <2>1, <2>2, <2>3
  <1> HIDE DEF Listed
  <1>3. DOMAIN a = {id \in {e.payload.id : e \in ToSet(events)} : Listed(id) # {}}
    <2>1. ASSUME NEW id \in DOMAIN a
          PROVE  Listed(id) # {} /\ \E e \in ToSet(events) : id = e.payload.id
      <3>1. PICK i \in 1 .. n : RecordedAt(events, n, id, i)
        BY DEF ArtifactUpTo
      <3>2. i \in Listed(id)
        BY <3>1, <1>1
      <3>3. events[i] \in ToSet(events) /\ id = events[i].payload.id
        BY <3>1 DEF RecordedAt, Says1, ToSet
      <3>4. QED
        BY <3>2, <3>3
    <2>2. ASSUME NEW id, Listed(id) # {} PROVE id \in DOMAIN a
      <3>1. PICK i \in Listed(id) : TRUE
        BY <2>2
      <3>2. i \in 1 .. n /\ RecordedAt(events, n, id, i)
        BY <1>1
      <3>3. id = events[i].payload.id
        BY <3>2 DEF RecordedAt, Says1
      <3>4. QED
        BY <3>2, <3>3 DEF ArtifactUpTo
    <2>3. QED
      BY <2>1, <2>2
  <1>4. ASSUME NEW id \in DOMAIN a
        PROVE  LET since == {i \in Says(events, "artifact_superseded", id) : \A j \in Listed(id) : i > j}
                   by    == a[id].superseded_by
               IN  IF since = {} THEN by = Absent
                   ELSE /\ by = events[Max(since)].payload.replacement /\ by # id
                        /\ \/ by \in DOMAIN a
                           \/ \E j \in Says(events, "artifact_removed", by) : j > Max(since)
    <2> DEFINE since == {i \in Says(events, "artifact_superseded", id) : \A j \in Listed(id) : i > j}
               by == a[id].superseded_by
    <2>1. PICK i \in 1 .. n : RecordedAt(events, n, id, i) /\ SupersededAs(a, events, n, id, i)
      BY DEF ArtifactUpTo
    <2>2. Listed(id) = {i}
      BY <2>1, <1>1, <1>2
    <2>3. \A k : k \in since <=> k \in i + 1 .. n /\ Says1(events[k], "artifact_superseded", id)
      BY <2>2 DEF Says, Says1
    <2> HIDE DEF since
    <2>4. CASE /\ by = Absent
               /\ \A j \in i + 1 .. n : ~Says1(events[j], "artifact_superseded", id)
      <3>1. since = {}
        BY <2>4, <2>3
      <3>2. QED
        BY <3>1, <2>4 DEF since
    <2>5. ASSUME NEW k \in i + 1 .. n,
                 Says1(events[k], "artifact_superseded", id),
                 by = events[k].payload.replacement /\ by # id,
                 \A j \in k + 1 .. n : ~Says1(events[j], "artifact_superseded", id),
                 \/ by \in DOMAIN a
                 \/ \E j \in k + 1 .. n : Says1(events[j], "artifact_removed", by)
          PROVE  /\ since # {}
                 /\ by = events[Max(since)].payload.replacement /\ by # id
                 /\ \/ by \in DOMAIN a
                    \/ \E j \in Says(events, "artifact_removed", by) : j > Max(since)
      <3>1. k \in since
        BY <2>3, <2>5
      <3>2. ASSUME NEW m \in since PROVE m \in Int /\ k >= m
        <4>1. m \in i + 1 .. n /\ Says1(events[m], "artifact_superseded", id)
          BY <2>3
        <4>2. m \notin k + 1 .. n
          BY <4>1, <2>5
        <4>3. QED
          BY <4>1, <4>2
      <3>3. Max(since) = k
        <4>1. Max(since) \in since /\ \A m \in since : Max(since) >= m
          BY <3>1, <3>2 DEF Max
        <4> DEFINE top == Max(since)
        <4> HIDE DEF top
        <4>2. top \in since /\ top >= k
          BY <4>1, <3>1 DEF top
        <4>3. top \in Int /\ k >= top /\ k \in Int
          BY <4>2, <3>2
        <4>4. top = k
          BY <4>2, <4>3
        <4>5. QED
          BY <4>4 DEF top
      <3> HIDE DEF by
      <3>4. by \in DOMAIN a \/ \E j \in Says(events, "artifact_removed", by) : j > k
        <4>1. CASE by \in DOMAIN a
          BY <4>1
        <4>2. CASE \E j \in k + 1 .. n : Says1(events[j], "artifact_removed", by)
          <5>1. PICK j \in k + 1 .. n : Says1(events[j], "artifact_removed", by)
            BY <4>2
          <5>2. j \in Says(events, "artifact_removed", by) /\ j > k
            BY <5>1 DEF Says, Says1
          <5>3. QED
            BY <5>2
        <4>3. QED
          BY <2>5, <4>1, <4>2
      <3>5. QED
        BY <2>5, <3>1, <3>3, <3>4
    <2>6. QED
      BY <2>1, <2>4, <2>5 DEF SupersededAs, since
  <1>5. QED
    BY <1>3, <1>4 DEF Listed, ArtifactLastWord

(* Chained streams give indexes of their last word. *)
LEMMA IndexesLastWord == Chained => IndexesAreLastWord
  <1> SUFFICES ASSUME Chained, ~Bundle.refused PROVE IndexesAreLastWord
    BY DEF IndexesAreLastWord
  <1>1. Bundle = Views(streams, Len(InOrder)) /\ ~Unusable(streams)
    BY BundleReadsStreams DEF Refused
  <1>2. /\ Bundle.novelty = rebuild_index("novelty", single_stream(streams, "novelty"))
        /\ Bundle.artifacts = rebuild_index("artifact", single_stream(streams, "artifact"))
    BY <1>1 DEF Views
  <1>3. ASSUME NEW s \in OfKind(streams, "novelty")
        PROVE  /\ NoveltyUpTo(Bundle.novelty.entries, streams[s], Len(streams[s]))
               /\ Len(streams[s]) \in Nat /\ DOMAIN streams[s] = 1 .. Len(streams[s])
               /\ \A i \in 1 .. Len(streams[s]) :
                    streams[s][i].payload.kind \in {"novelty_entry_recorded", "novelty_entry_removed"}
    <2>1. s \in Streams /\ StreamKind[s] = "novelty"
      BY DEF OfKind
    <2>2. Len(streams[s]) \in Nat /\ DOMAIN streams[s] = 1 .. Len(streams[s])
      BY <2>1, SealedFacts
    <2>3. /\ Bundle.novelty = rebuild_index("novelty", streams[s])
          /\ ~rebuild_index("novelty", streams[s]).refused
      BY <1>1, <1>2, SingleStream
    <2>4. QED
      BY <2>1, <2>2, <2>3, IndexKinds, NoveltyReplay
  <1>4. ASSUME NEW s \in OfKind(streams, "artifact")
        PROVE  /\ ArtifactUpTo(Bundle.artifacts.entries, streams[s], Len(streams[s]))
               /\ Len(streams[s]) \in Nat /\ DOMAIN streams[s] = 1 .. Len(streams[s])
               /\ \A i \in 1 .. Len(streams[s]) :
                    streams[s][i].payload.kind
                      \in {"artifact_recorded", "artifact_superseded", "artifact_removed"}
    <2>1. s \in Streams /\ StreamKind[s] = "artifact"
      BY DEF OfKind
    <2>2. Len(streams[s]) \in Nat /\ DOMAIN streams[s] = 1 .. Len(streams[s])
      BY <2>1, SealedFacts
    <2>3. /\ Bundle.artifacts = rebuild_index("artifact", streams[s])
          /\ ~rebuild_index("artifact", streams[s]).refused
      BY <1>1, <1>2, SingleStream
    <2>4. \A i \in 1 .. Len(streams[s]) :
            streams[s][i].payload.kind \in {"artifact_recorded", "artifact_superseded", "artifact_removed"}
      BY <2>1, IndexKinds
    <2>5. QED
      BY <2>2, <2>3, <2>4, ArtifactReplay
  <1> DEFINE novelty == Bundle.novelty
             a == Bundle.artifacts.entries
  <1> HIDE DEF novelty, a
  <1>5. ASSUME NEW s \in OfKind(streams, "novelty") PROVE NoveltyLastWord(novelty, streams[s])
    <2> DEFINE events == streams[s]
    <2>1. NoveltyUpTo(novelty.entries, events, Len(events))
      BY <1>3 DEF novelty
    <2>2. /\ Len(events) \in Nat /\ DOMAIN events = 1 .. Len(events)
          /\ \A i \in 1 .. Len(events) :
               events[i].payload.kind \in {"novelty_entry_recorded", "novelty_entry_removed"}
      BY <1>3
    <2> HIDE DEF events
    <2>3. NoveltyLastWord(novelty, events)
      BY ONLY <2>1, <2>2, NoveltyIsLastWord
    <2>4. QED
      BY <2>3 DEF events
  <1>6. ASSUME NEW s \in OfKind(streams, "artifact") PROVE ArtifactLastWord(a, streams[s])
    <2> DEFINE events == streams[s]
    <2>1. ArtifactUpTo(a, events, Len(events))
      BY <1>4 DEF a
    <2>2. /\ Len(events) \in Nat /\ DOMAIN events = 1 .. Len(events)
          /\ \A i \in 1 .. Len(events) :
               events[i].payload.kind \in {"artifact_recorded", "artifact_superseded", "artifact_removed"}
      BY <1>4
    <2> HIDE DEF events
    <2>3. ArtifactLastWord(a, events)
      BY ONLY <2>1, <2>2, ArtifactIsLastWord
    <2>4. QED
      BY <2>3 DEF events
  <1>7. QED
    BY <1>5, <1>6 DEF IndexesAreLastWord, NoveltyLastWord, ArtifactLastWord, novelty, a

----------------------------------------------------------------------------
(* The properties, always. *)

(* What reaches a rebuild is always checked against the chains: a delayed event  *)
(* changes nothing, a repeated or altered one is refused, and so is a stream     *)
(* that lost an event other than its last.                                       *)
THEOREM DeliveryAlwaysChecked == MemorySpec => []DeliveryIsChecked
  BY AlwaysChained, DeliveryChecked, PTL

(* A learning projection always counts each evidence event of its user's         *)
(* attempts once, and every attempt under one status.                            *)
THEOREM LearningAlwaysCountsOnce == MemorySpec => []LearningCountsOnce
  BY AlwaysChained, CountsOnce, PTL

(* An accepted index is always the last word of its stream, and a superseding    *)
(* reference dangles only when what it names was removed later.                  *)
THEOREM IndexesAlwaysLastWord == MemorySpec => []IndexesAreLastWord
  BY AlwaysChained, IndexesLastWord, PTL

----------------------------------------------------------------------------
(* The acceptance gate. *)

(* The reasons for quarantine are exactly the ways evidence may be uncertain. *)
LEMMA UncertainIsQuarantined ==
  ASSUME NEW v \in Verifications
  PROVE  quarantine_reasons(v) # {} <=> Uncertain(v)
  <1>1. /\ v.uniqueness \in UniquenessStatus /\ v.human_solve_status \in HumanSolveStatus
        /\ \A n \in v.novelty : n.status \in NoveltyStatus
    BY VerificationsAssumption
  <1>2. uniqueness_quarantine(v) # {} <=>
          v.uniqueness \notin {"unique", "no_solution", "multiple", "model_invalid"}
    BY <1>1 DEF uniqueness_quarantine, UniquenessStatus
  <1>3. {"human_solve_inconclusive" : x \in {v.human_solve_status} \cap {"inconclusive"}} # {} <=>
          v.human_solve_status \notin {"verified", "stalled"}
    BY <1>1 DEF HumanSolveStatus
  <1>4. {"novelty_inconclusive" : n \in {m \in v.novelty : m.status = "inconclusive"}} # {} <=>
          \E n \in v.novelty : n.status = "inconclusive"
    OBVIOUS
  <1>5. QED
    BY <1>2, <1>3, <1>4 DEF quarantine_reasons, Uncertain

(* What the gate lets through meets the request and passes the hard gates, as    *)
(* far as the evidence has ids.                                                  *)
LEMMA AcceptedMeetsRequest ==
  ASSUME NEW c, NEW puzzle, NEW l, NEW v \in Verifications,
         quarantine_reasons(v) = {}, rejection_reasons(c, puzzle, l, v) = {}
  PROVE  /\ MadeAsRequested(c, l)
         /\ puzzle.family_id = request.family_id /\ puzzle.source_kind = "generated"
         /\ v.uniqueness = "unique" /\ v.human_solve_status = "verified" /\ ~Incomplete(v)
         /\ \A d \in v.difficulty : ~difficulty_mismatch(d, v) /\ technique_reasons(d) = {}
         /\ \A n \in v.novelty : n.status = "novel"
  <1>1. /\ v.uniqueness \in UniquenessStatus /\ v.human_solve_status \in HumanSolveStatus
        /\ \A n \in v.novelty : n.status \in NoveltyStatus
    BY VerificationsAssumption
  <1>2. ~Uncertain(v)
    BY UncertainIsQuarantined
  <1>3. ~Incomplete(v)
    BY <1>2 DEF Uncertain
  <1>4. /\ l.request_id = request.request_id /\ MadeAsRequested(c, l)
        /\ puzzle.family_id = request.family_id /\ puzzle.source_kind = "generated"
    BY DEF rejection_reasons
  <1>5. v.uniqueness = "unique"
    BY <1>1, <1>2 DEF rejection_reasons, uniqueness_rejection, Uncertain
  <1>6. v.human_solve_status = "verified"
    BY <1>1, <1>2 DEF rejection_reasons, Uncertain
  <1>7. \A d \in v.difficulty : ~difficulty_mismatch(d, v) /\ technique_reasons(d) = {}
    BY <1>3 DEF rejection_reasons
  <1>8. \A n \in v.novelty : n.status = "novel"
    BY <1>1, <1>2, <1>3 DEF rejection_reasons, Uncertain
  <1>9. QED
    BY <1>3, <1>4, <1>5, <1>6, <1>7, <1>8

(* One decision satisfies the property, whether or not its result stands. *)
LEMMA DecisionAgrees ==
  ASSUME NEW c, NEW puzzle, NEW l, NEW v \in Verifications
  PROVE  LET r == decide_generation_result(c, puzzle, l, v) IN
         /\ r.status = "quarantined" <=> Uncertain(r.verification)
         /\ validate_terminal_shape(r) => validate_pair(r)
         /\ ~validate_terminal_shape(r) =>
              \/ r.lineage.request_id # request.request_id
              \/ r.candidate_id \notin KnownIds(r.lineage)
              \/ ~TerminalEventMatches(r)
              \/ r.status = "accepted" /\ ~Evidenced(r.verification)
  <1> DEFINE r == decide_generation_result(c, puzzle, l, v)
  <1>1. /\ r.request_id = request.request_id /\ r.candidate_id = c
        /\ r.lineage = l /\ r.verification = v
    BY DEF decide_generation_result
  <1>2. CASE quarantine_reasons(v) # {}
    <2>1. /\ r.status = "quarantined" /\ r.puzzle = {} /\ r.rejection_reasons = {}
          /\ r.quarantine # {}
      BY <1>2 DEF decide_generation_result
    <2>2. QED
      BY <1>1, <1>2, <2>1, UncertainIsQuarantined DEF validate_terminal_shape, validate_pair
  <1>3. CASE quarantine_reasons(v) = {} /\ rejection_reasons(c, puzzle, l, v) # {}
    <2>1. /\ r.status = "rejected" /\ r.puzzle = {} /\ r.rejection_reasons # {}
          /\ r.quarantine = {}
      BY <1>3 DEF decide_generation_result
    <2>2. QED
      BY <1>1, <1>3, <2>1, UncertainIsQuarantined DEF validate_terminal_shape, validate_pair
  <1>4. CASE quarantine_reasons(v) = {} /\ rejection_reasons(c, puzzle, l, v) = {}
    <2>1. /\ r.status = "accepted" /\ r.puzzle = {puzzle} /\ r.rejection_reasons = {}
          /\ r.quarantine = {}
      BY <1>4 DEF decide_generation_result
    <2>2. /\ MadeAsRequested(c, l)
          /\ puzzle.family_id = request.family_id /\ puzzle.source_kind = "generated"
          /\ v.uniqueness = "unique" /\ v.human_solve_status = "verified" /\ ~Incomplete(v)
          /\ \A d \in v.difficulty : ~difficulty_mismatch(d, v) /\ technique_reasons(d) = {}
          /\ \A n \in v.novelty : n.status = "novel"
      BY <1>4, AcceptedMeetsRequest
    <2>3. \A d \in v.difficulty :
            /\ d.family_id = request.family_id /\ d.label = request.requested_difficulty
            /\ ~d.search_required /\ d.trace_hash = v.human_trace_hash /\ d.label # "unrated"
            /\ request.required \subseteq d.used_rules /\ request.forbidden \cap d.used_rules = {}
      BY <2>2, RequestAssumption DEF difficulty_mismatch, technique_reasons
    <2>4. validate_pair(r)
      BY <1>1, <2>1, <2>2, <2>3 DEF validate_pair
    <2>5. HardGates(v) <=> Evidenced(v)
      BY <2>2, <2>3 DEF HardGates
    <2>6. ~Uncertain(v)
      BY <1>4, UncertainIsQuarantined
    <2>7. validate_terminal_shape(r) <=>
            /\ l.request_id = request.request_id /\ c \in KnownIds(l)
            /\ Evidenced(v) /\ TerminalEventMatches(r)
      BY <1>1, <2>1, <2>2, <2>5 DEF validate_terminal_shape
    <2>8. QED
      BY <1>1, <2>1, <2>4, <2>6, <2>7
  <1>5. QED
    BY <1>2, <1>3, <1>4

(* GatesAgree holds of every decision decide_generation_result ever makes. *)
THEOREM GatesAlwaysAgree == Spec => []GatesAgree
  <1>1. Init => GatesAgree
    BY DEF Init, GatesAgree
  <1>2. GatesAgree /\ [Next]_vars => GatesAgree'
    <2>1. CASE UNCHANGED decision
      BY <2>1 DEF GatesAgree
    <2>2. ASSUME NEW c \in CandidateIds, NEW p \in Puzzles, NEW v \in Verifications, Decide(c, p, v)
          PROVE  GatesAgree'
      <3> DEFINE r == decide_generation_result(c, p, lineage, v)
      <3>1. decision' = {[result |-> r, raised |-> ~validate_terminal_shape(r)]}
        BY <2>2 DEF Decide
      <3>2. /\ r.status = "quarantined" <=> Uncertain(r.verification)
            /\ validate_terminal_shape(r) => validate_pair(r)
            /\ ~validate_terminal_shape(r) =>
                 \/ r.lineage.request_id # request.request_id
                 \/ r.candidate_id \notin KnownIds(r.lineage)
                 \/ ~TerminalEventMatches(r)
                 \/ r.status = "accepted" /\ ~Evidenced(r.verification)
        BY DecisionAgrees
      <3> HIDE DEF r
      <3>3. ASSUME NEW d \in decision'
            PROVE  d.result = r /\ (d.raised <=> ~validate_terminal_shape(r))
        <4> DEFINE refused == ~validate_terminal_shape(r)
        <4>1. refused \in BOOLEAN
          OBVIOUS
        <4> HIDE DEF refused
        <4>2. d = [result |-> r, raised |-> refused]
          BY <3>1 DEF refused
        <4>3. d.result = r /\ d.raised = refused
          BY <4>2
        <4>4. d.raised <=> refused
          BY <4>1, <4>3
        <4>5. QED
          BY <4>3, <4>4 DEF refused
      <3>4. QED
        BY <3>2, <3>3 DEF GatesAgree
    <2>3. QED
      BY <2>1, <2>2 DEF Next, Record, vars
  <1>3. QED
    BY <1>1, <1>2, PTL DEF Spec
=============================================================================
