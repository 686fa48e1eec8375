------------------------- MODULE CallGraphPassesProofs -------------------------
(* The passes over the call graph, for every module without recursion and all
   options: functions are ordered callers first, what functions pass each other in
   the end is legal, and a function is inlined for its uniform buffers only where it
   has to be. First the operators: what each transformation of the functions
   keeps. Then the passes: what holds between them and within them. *)
EXTENDS CallGraphPasses, NaturalFacts, SequenceTheorems, TLAPS

------------------------------------------------------------------------------
(* Numbers in order, and what is kept of a sequence. *)

(* InOrder lists a finite set of numbers, the smallest one first. *)
LEMMA InOrderFacts ==
  ASSUME NEW S, IsFiniteSet(S), S \subseteq Nat
  PROVE  /\ Cardinality(S) \in Nat
         /\ InOrder(S) \in [1 .. Cardinality(S) -> S]
         /\ \A i, j \in 1 .. Cardinality(S) : i < j => InOrder(S)[i] < InOrder(S)[j]
         /\ \A x \in S : \E i \in 1 .. Cardinality(S) : InOrder(S)[i] = x
<1> DEFINE below(i) == {j \in S : j < i}
           rank(i) == Cardinality(below(i))
           ranks == 0 .. Cardinality(S) - 1
           f == [i \in S |-> rank(i)]
<1>0. Cardinality(S) \in Nat
  BY FS_CardinalityType
<1>1. ASSUME NEW i \in S PROVE IsFiniteSet(below(i)) /\ rank(i) \in ranks
  <2>1. below(i) \subseteq S \ {i} /\ below(i) \in SUBSET (S \ {i})
    OBVIOUS
  <2>2. IsFiniteSet(S \ {i}) /\ Cardinality(S \ {i}) = Cardinality(S) - 1
    BY FS_RemoveElement
  <2>3. IsFiniteSet(below(i)) /\ rank(i) <= Cardinality(S) - 1
    BY <2>1, <2>2, FS_Subset
  <2>4. rank(i) \in Nat
    BY <2>3, FS_CardinalityType
  <2> QED
    BY <1>0, <2>3, <2>4
<1>2. ASSUME NEW i \in S, NEW j \in S, i < j PROVE rank(i) < rank(j)
  <2>1. below(i) \cup {i} \in SUBSET below(j) /\ i \notin below(i)
    <3>1. \A h \in S : h \in Nat
      OBVIOUS
    <3>2. \A h \in S : h < i => h < j
      BY <1>2, <3>1
    <3>3. ~(i < i)
      BY <3>1
    <3> QED
      BY <1>2, <3>2, <3>3
  <2>2. IsFiniteSet(below(i)) /\ IsFiniteSet(below(j)) /\ rank(i) \in Nat /\ rank(j) \in Nat
    BY <1>1
  <2>3. Cardinality(below(i) \cup {i}) = rank(i) + 1
    BY <2>1, <2>2, FS_AddElement
  <2>4. Cardinality(below(i) \cup {i}) <= rank(j)
    BY <2>1, <2>2, FS_Subset
  <2> QED
    BY <2>2, <2>3, <2>4
<1>3. ASSUME NEW n \in 1 .. Cardinality(S) PROVE \E i \in S : rank(i) = n - 1
  <2>1. f \in Injection(S, ranks)
    <3>1. f \in [S -> ranks]
      BY <1>1
    <3>2. ASSUME NEW i \in S, NEW j \in S, f[i] = f[j] PROVE i = j
      <4>1. rank(i) = rank(j) /\ rank(i) \in Nat /\ i \in Nat /\ j \in Nat
        BY <1>1, <3>2
      <4>2. ~(i < j) /\ ~(j < i)
        BY <1>2, <4>1
      <4> QED
        BY <4>1, <4>2
    <3> HIDE DEF f
    <3> QED
      BY <3>1, <3>2 DEF Injection, IsInjective
  <2>2. IsFiniteSet(ranks) /\ Cardinality(ranks) = Cardinality(S)
    <3>1. 0 \in Int /\ Cardinality(S) - 1 \in Int
      BY <1>0
    <3>2. IsFiniteSet(ranks) /\ Cardinality(ranks) = IF 0 > Cardinality(S) - 1 THEN 0 ELSE Cardinality(S) - 1 - 0 + 1
      BY <3>1, FS_Interval
    <3> QED
      BY <1>0, <3>2
  <2>3. f \in Surjection(S, ranks)
    BY <2>1, <2>2, FS_Injection
  <2>4. n - 1 \in ranks
    BY <1>0
  <2>5. PICK i \in S : f[i] = n - 1
    BY <2>3, <2>4 DEF Surjection
  <2> QED
    BY <2>5
<1>4. ASSUME NEW n \in 1 .. Cardinality(S)
      PROVE  InOrder(S)[n] \in S /\ rank(InOrder(S)[n]) = n - 1
  <2>1. InOrder(S)[n] = CHOOSE i \in S : rank(i) = n - 1
    BY DEF InOrder
  <2> HIDE DEF rank
  <2> QED
    BY <1>3, <2>1
<1>5. InOrder(S) \in [1 .. Cardinality(S) -> S]
  BY <1>4 DEF InOrder
<1>6. ASSUME NEW i \in 1 .. Cardinality(S), NEW j \in 1 .. Cardinality(S), i < j
      PROVE  InOrder(S)[i] < InOrder(S)[j]
  <2> DEFINE x == InOrder(S)[i]
             y == InOrder(S)[j]
  <2>1. x \in S /\ y \in S /\ rank(x) = i - 1 /\ rank(y) = j - 1
    BY <1>4
  <2> HIDE DEF x, y, rank
  <2>2. ~(y < x) /\ x # y
    BY <1>2, <1>6, <2>1
  <2>3. x < y
    BY <2>1, <2>2
  <2> QED
    BY <2>3 DEF x, y
<1>7. ASSUME NEW x \in S PROVE \E i \in 1 .. Cardinality(S) : InOrder(S)[i] = x
  <2>0. rank(x) \in Nat
    BY <1>0, <1>1
  <2>1. rank(x) + 1 \in 1 .. Cardinality(S)
    BY <1>0, <1>1
  <2> DEFINE n == rank(x) + 1
             y == InOrder(S)[n]
  <2>2. y \in S /\ rank(y) = rank(x)
    BY <1>1, <1>4, <2>1
  <2> HIDE DEF rank, y
  <2>3. ~(y < x) /\ ~(x < y)
    BY <1>2, <2>0, <2>2
  <2>4. y = x
    BY <2>2, <2>3
  <2> QED
    BY <2>1, <2>4 DEF y
<1> QED
  BY <1>0, <1>5, <1>6, <1>7

(* Where the kept elements of a sequence are. *)
KeptAt(keep) == {i \in DOMAIN keep : keep[i]}

KeptCount(keep) == Cardinality(KeptAt(keep))

LEMMA KeptFacts ==
  ASSUME NEW s, NEW n \in Nat, DOMAIN s = 1..n, NEW keep, DOMAIN keep = DOMAIN s
  PROVE  LET m == KeptCount(keep)
             at == InOrder(KeptAt(keep))
         IN  /\ m \in Nat /\ at \in [1..m -> KeptAt(keep)]
             /\ Kept(s, keep) = [k \in 1..m |-> s[at[k]]]
             /\ \A i, j \in 1..m : at[i] = at[j] => i = j
             /\ \A x \in KeptAt(keep) : \E i \in 1..m : at[i] = x
<1> DEFINE K == KeptAt(keep)
           m == KeptCount(keep)
           at == InOrder(K)
<1>1. IsFiniteSet(K) /\ K \subseteq Nat
  <2>1. K \in SUBSET (1..n) /\ K \subseteq Nat
    BY DEF KeptAt
  <2>2. IsFiniteSet(1..n)
    BY FS_Interval
  <2> QED
    BY <2>1, <2>2, FS_Subset
<1>2. /\ m \in Nat /\ at \in [1..m -> K]
      /\ \A i, j \in 1..m : i < j => at[i] < at[j]
      /\ \A x \in K : \E i \in 1..m : at[i] = x
  BY <1>1, InOrderFacts DEF KeptCount
<1>3. Kept(s, keep) = [k \in 1..m |-> s[at[k]]]
  BY <1>2 DEF Kept, KeptAt, KeptCount
<1> HIDE DEF m, at, K
<1>4. ASSUME NEW i \in 1..m, NEW j \in 1..m, at[i] = at[j] PROVE i = j
  <2>1. at[i] \in Nat /\ i \in Nat /\ j \in Nat
    <3>1. m \in Nat /\ at[i] \in K
      BY <1>2
    <3>2. i \in Nat /\ j \in Nat
      BY <3>1
    <3> QED
      BY <1>1, <3>1, <3>2
  <2>2. ~(i < j) /\ ~(j < i)
    BY <1>2, <1>4, <2>1
  <2> QED
    BY <2>1, <2>2
<1> QED
  BY <1>2, <1>3, <1>4 DEF m, at, K

------------------------------------------------------------------------------
(* Sequences of anything. *)

LEMMA IsSeqFacts ==
  ASSUME NEW s, IsSeq(s)
  PROVE  Len(s) \in Nat /\ DOMAIN s = 1 .. Len(s)
  BY DEF IsSeq

LEMMA MakeSeq ==
  ASSUME NEW n \in Nat, NEW s, s = [i \in 1..n |-> s[i]]
  PROVE  IsSeq(s) /\ Len(s) = n /\ DOMAIN s = 1..n
<1>1. DOMAIN s = 1..n /\ s \in [1..n -> Range(s)]
  BY DEF Range
<1>2. s \in Seq(Range(s))
  BY <1>1
<1> QED
  BY <1>1, <1>2 DEF IsSeq

LEMMA ConcatFacts ==
  ASSUME NEW s, IsSeq(s), NEW t, IsSeq(t)
  PROVE  /\ IsSeq(s \o t)
         /\ DOMAIN (s \o t) = 1 .. Len(s) + Len(t)
         /\ \A k \in 1 .. Len(s) : (s \o t)[k] = s[k]
         /\ \A k \in 1 .. Len(t) : (s \o t)[Len(s) + k] = t[k]
         /\ \A k \in DOMAIN (s \o t) :
              k \in 1 .. Len(s) \/ \E j \in 1 .. Len(t) : k = Len(s) + j
<1>1. Len(s) \in Nat /\ Len(t) \in Nat /\ DOMAIN s = 1 .. Len(s) /\ DOMAIN t = 1 .. Len(t)
  BY IsSeqFacts
<1> DEFINE A == Range(s) \cup Range(t)
<1>2. s \in Seq(A) /\ t \in Seq(A)
  <2>1. Range(s) \subseteq A /\ Range(t) \subseteq A
    OBVIOUS
  <2> HIDE DEF A
  <2> QED
    BY <2>1, SeqMonotonic DEF IsSeq
<1> HIDE DEF A
<1>3. /\ s \o t \in Seq(A) /\ Len(s \o t) = Len(s) + Len(t)
      /\ \A i \in 1 .. Len(s) + Len(t) : (s \o t)[i] = IF i <= Len(s) THEN s[i] ELSE t[i - Len(s)]
  BY <1>2, ConcatProperties
<1>4. DOMAIN (s \o t) = 1 .. Len(s) + Len(t) /\ s \o t = [k \in 1 .. Len(s) + Len(t) |-> (s \o t)[k]]
  <2>1. s \o t \in [1 .. Len(s) + Len(t) -> A]
    BY <1>3, LenProperties
  <2> QED
    BY <2>1
<1>5. IsSeq(s \o t)
  BY <1>1, <1>4, MakeSeq
<1>6. \A k \in 1 .. Len(s) : (s \o t)[k] = s[k]
  BY <1>1, <1>3
<1>7. \A k \in 1 .. Len(t) : (s \o t)[Len(s) + k] = t[k]
  BY <1>1, <1>3
<1>8. \A k \in 1 .. Len(s) + Len(t) : k \in 1 .. Len(s) \/ (k - Len(s) \in 1 .. Len(t) /\ k = Len(s) + (k - Len(s)))
  BY <1>1
<1> QED
  BY <1>4, <1>5, <1>6, <1>7, <1>8

------------------------------------------------------------------------------
(* Pointers: the parameter at the base, those among the indices, and what
   becomes of them when parameters are replaced. *)
BaseUse(v) == IF v.kind = "param" THEN {v.id} ELSE {}

IndexUses(v) ==
  UNION {{v.geps[k][j].id : j \in {o \in DOMAIN v.geps[k] : v.geps[k][o].kind = "param"}} : k \in DOMAIN v.geps}

LEMMA IndexUsesAre ==
  ASSUME NEW v, NEW x
  PROVE  x \in IndexUses(v) <=>
           \E k \in DOMAIN v.geps : \E j \in DOMAIN v.geps[k] : v.geps[k][j].kind = "param" /\ v.geps[k][j].id = x
  BY DEF IndexUses

LEMMA UsesAre ==
  ASSUME NEW v
  PROVE  UsesIn(v) = BaseUse(v) \cup IndexUses(v)
<1>1. ASSUME NEW x \in UsesIn(v) PROVE x \in BaseUse(v) \cup IndexUses(v)
  <2>1. PICK i \in {v} \cup UNION {Range(v.geps[k]) : k \in DOMAIN v.geps} : i.kind = "param" /\ x = i.id
    BY <1>1 DEF UsesIn
  <2>2. CASE i = v
    BY <2>1, <2>2 DEF BaseUse
  <2>3. CASE i # v
    <3>1. PICK k \in DOMAIN v.geps : i \in Range(v.geps[k])
      BY <2>3
    <3>2. PICK j \in DOMAIN v.geps[k] : v.geps[k][j] = i
      BY <3>1 DEF Range
    <3> QED
      BY <2>1, <3>2 DEF IndexUses
  <2> QED
    BY <2>2, <2>3
<1>2. ASSUME NEW x \in BaseUse(v) PROVE x \in UsesIn(v)
  <2>1. v.kind = "param" /\ x = v.id
    BY <1>2 DEF BaseUse
  <2> QED
    BY <2>1 DEF UsesIn
<1>3. ASSUME NEW x \in IndexUses(v) PROVE x \in UsesIn(v)
  <2>1. PICK k \in DOMAIN v.geps : \E j \in DOMAIN v.geps[k] : v.geps[k][j].kind = "param" /\ v.geps[k][j].id = x
    BY <1>3 DEF IndexUses
  <2>2. PICK j \in DOMAIN v.geps[k] : v.geps[k][j].kind = "param" /\ v.geps[k][j].id = x
    BY <2>1
  <2>3. v.geps[k][j] \in Range(v.geps[k])
    BY DEF Range
  <2>4. v.geps[k][j] \in UNION {Range(v.geps[h]) : h \in DOMAIN v.geps}
    BY <2>3
  <2> QED
    BY <2>2, <2>4 DEF UsesIn
<1> QED
  BY <1>1, <1>2, <1>3

Mapped(v, new) == [k \in DOMAIN v.geps |-> [j \in DOMAIN v.geps[k] |-> ReplaceIndex(v.geps[k][j], new)]]

IsReplaced(v, new) == v.kind = "param" /\ v.id \in DOMAIN new

LEMMA MappedFacts ==
  ASSUME NEW v, IsPointer(v), NEW new
  PROVE  /\ IsSeq(Mapped(v, new)) /\ DOMAIN Mapped(v, new) = DOMAIN v.geps
         /\ Len(Mapped(v, new)) = Len(v.geps)
         /\ v.geps = <<>> => Mapped(v, new) = <<>>
         /\ \A k \in DOMAIN v.geps :
              /\ IsSeq(Mapped(v, new)[k]) /\ Mapped(v, new)[k] # <<>>
              /\ DOMAIN Mapped(v, new)[k] = DOMAIN v.geps[k] /\ 1 \in DOMAIN v.geps[k]
              /\ \A j \in DOMAIN v.geps[k] : Mapped(v, new)[k][j] = ReplaceIndex(v.geps[k][j], new)
<1> DEFINE m == Mapped(v, new)
<1>1. Len(v.geps) \in Nat /\ DOMAIN v.geps = 1 .. Len(v.geps)
  BY IsSeqFacts DEF IsPointer
<1>2. IsSeq(m) /\ DOMAIN m = DOMAIN v.geps /\ Len(m) = Len(v.geps)
  <2>1. m = [k \in 1 .. Len(v.geps) |-> m[k]]
    BY <1>1 DEF Mapped
  <2> HIDE DEF m
  <2> QED
    BY <1>1, <2>1, MakeSeq
<1>3. v.geps = <<>> => m = <<>>
  <2> SUFFICES ASSUME v.geps = <<>> PROVE m = <<>>
    OBVIOUS
  <2>1. IsSeq(m) /\ Len(m) = 0
    BY <1>2
  <2> HIDE DEF m
  <2> QED
    BY <2>1, EmptySeq DEF IsSeq
<1>4. ASSUME NEW k \in DOMAIN v.geps
      PROVE  /\ IsSeq(m[k]) /\ m[k] # <<>>
             /\ DOMAIN m[k] = DOMAIN v.geps[k] /\ 1 \in DOMAIN v.geps[k]
             /\ \A j \in DOMAIN v.geps[k] : m[k][j] = ReplaceIndex(v.geps[k][j], new)
  <2> DEFINE g == v.geps[k]
             n == m[k]
  <2>1. IsSeq(g) /\ g # <<>>
    BY DEF IsPointer
  <2>2. n = [j \in DOMAIN g |-> ReplaceIndex(g[j], new)]
    BY DEF Mapped
  <2> HIDE DEF g, n
  <2>3. Len(g) \in Nat /\ DOMAIN g = 1 .. Len(g) /\ Len(g) # 0
    BY <2>1, IsSeqFacts, EmptySeq DEF IsSeq
  <2>4. n = [j \in 1 .. Len(g) |-> n[j]]
    BY <2>2, <2>3
  <2>5. IsSeq(n) /\ Len(n) = Len(g) /\ DOMAIN n = 1 .. Len(g)
    BY <2>3, <2>4, MakeSeq
  <2>6. n # <<>>
    BY <2>3, <2>5
  <2>7. 1 \in DOMAIN g
    BY <2>3
  <2>8. \A j \in DOMAIN g : n[j] = ReplaceIndex(g[j], new)
    BY <2>2
  <2> QED
    BY <2>3, <2>5, <2>6, <2>7, <2>8 DEF g, n
<1> QED
  BY <1>2, <1>3, <1>4

(* A pointer without getelementptrs has no indices. *)
LEMMA NoIndices == ASSUME NEW v, v.geps = <<>> PROVE IndexUses(v) = {}
  BY DEF IndexUses

LEMMA ReplaceInFacts ==
  ASSUME NEW v, IsPointer(v), NEW new, \A q \in DOMAIN new : IsPointer(new[q])
  PROVE  /\ IsPointer(ReplaceIn(v, new))
         /\ IsReplaced(v, new) => ReplaceIn(v, new).kind = new[v.id].kind /\ ReplaceIn(v, new).id = new[v.id].id
         /\ ~IsReplaced(v, new) => ReplaceIn(v, new).kind = v.kind /\ ReplaceIn(v, new).id = v.id
         /\ ~IsReplaced(v, new) \/ new[v.id].geps = <<>> => ReplaceIn(v, new).geps = Mapped(v, new)
         /\ IndexUses(ReplaceIn(v, new)) \subseteq
              (IF IsReplaced(v, new) THEN IndexUses(new[v.id]) ELSE {})
                \cup (IndexUses(v) \ DOMAIN new)
                \cup UNION {BaseUse(new[q]) : q \in IndexUses(v) \cap DOMAIN new}
<1> DEFINE m == Mapped(v, new)
           w == ReplaceIn(v, new)
<1>1. w = IF IsReplaced(v, new) THEN [new[v.id] EXCEPT !.geps = @ \o m] ELSE [v EXCEPT !.geps = m]
  BY DEF ReplaceIn, IsReplaced, Mapped
<1>2. /\ IsSeq(m) /\ DOMAIN m = DOMAIN v.geps /\ Len(m) = Len(v.geps)
      /\ \A k \in DOMAIN v.geps :
           /\ IsSeq(m[k]) /\ m[k] # <<>>
           /\ DOMAIN m[k] = DOMAIN v.geps[k]
           /\ \A j \in DOMAIN v.geps[k] : m[k][j] = ReplaceIndex(v.geps[k][j], new)
  BY MappedFacts
<1>3. DOMAIN v = {"kind", "id", "geps"}
  BY DEF IsPointer
<1> HIDE DEF m, w
<1>4. ASSUME NEW k \in DOMAIN m, NEW j \in DOMAIN m[k], m[k][j].kind = "param"
      PROVE  m[k][j].id \in (IndexUses(v) \ DOMAIN new) \cup UNION {BaseUse(new[q]) : q \in IndexUses(v) \cap DOMAIN new}
  <2> DEFINE i == v.geps[k][j]
  <2>1. m[k][j] = ReplaceIndex(i, new) /\ k \in DOMAIN v.geps /\ j \in DOMAIN v.geps[k]
    BY <1>2
  <2>2. i.kind = "param" => i.id \in IndexUses(v)
    BY <2>1 DEF IndexUses
  <2> HIDE DEF i
  <2>3. CASE i.kind = "param" /\ i.id \in DOMAIN new
    <3>1. m[k][j] = [kind |-> new[i.id].kind, id |-> new[i.id].id]
      BY <2>1, <2>3 DEF ReplaceIndex
    <3>2. m[k][j].id \in BaseUse(new[i.id])
      BY <1>4, <3>1 DEF BaseUse
    <3> QED
      BY <2>2, <2>3, <3>2
  <2>4. CASE ~(i.kind = "param" /\ i.id \in DOMAIN new)
    <3>1. m[k][j] = i
      BY <2>1, <2>4 DEF ReplaceIndex
    <3> QED
      BY <1>4, <2>2, <2>4, <3>1
  <2> QED
    BY <2>3, <2>4
<1>5. CASE ~IsReplaced(v, new)
  <2>1. w = [v EXCEPT !.geps = m]
    BY <1>1, <1>5
  <2>2. DOMAIN w = {"kind", "id", "geps"} /\ w.kind = v.kind /\ w.id = v.id /\ w.geps = m
    BY <1>3, <2>1
  <2>3. IsPointer(w)
    BY <1>2, <2>2 DEF IsPointer
  <2>4. IndexUses(w) \subseteq (IndexUses(v) \ DOMAIN new) \cup UNION {BaseUse(new[q]) : q \in IndexUses(v) \cap DOMAIN new}
    BY <1>4, <2>2 DEF IndexUses
  <2> QED
    BY <1>5, <2>2, <2>3, <2>4 DEF m, w
<1>6. CASE IsReplaced(v, new)
  <2> DEFINE b == new[v.id]
  <2>1. IsPointer(b)
    BY <1>6 DEF IsReplaced
  <2>2. w = [b EXCEPT !.geps = b.geps \o m]
    BY <1>1, <1>6
  <2> HIDE DEF b
  <2>3. DOMAIN w = {"kind", "id", "geps"} /\ w.kind = b.kind /\ w.id = b.id /\ w.geps = b.geps \o m
    BY <2>1, <2>2 DEF IsPointer
  <2>4. IsSeq(b.geps) /\ \A k \in DOMAIN b.geps : IsSeq(b.geps[k]) /\ b.geps[k] # <<>>
    BY <2>1 DEF IsPointer
  <2> DEFINE g == b.geps \o m
  <2>5. /\ IsSeq(g) /\ DOMAIN b.geps = 1 .. Len(b.geps) /\ DOMAIN m = 1 .. Len(m)
        /\ \A k \in 1 .. Len(b.geps) : g[k] = b.geps[k]
        /\ \A k \in 1 .. Len(m) : g[Len(b.geps) + k] = m[k]
        /\ \A k \in DOMAIN g : k \in 1 .. Len(b.geps) \/ \E j \in 1 .. Len(m) : k = Len(b.geps) + j
    <3>1. DOMAIN b.geps = 1 .. Len(b.geps)
      BY <2>4, IsSeqFacts
    <3>2. DOMAIN m = 1 .. Len(m) /\ IsSeq(m)
      BY <1>2, IsSeqFacts
    <3>3. IsSeq(b.geps)
      BY <2>4
    <3>4. IsSeq(g) /\ \A k \in 1 .. Len(b.geps) : g[k] = b.geps[k]
      BY <3>2, <3>3, ConcatFacts
    <3>5. \A k \in 1 .. Len(m) : g[Len(b.geps) + k] = m[k]
      BY <3>2, <3>3, ConcatFacts
    <3>6. \A k \in DOMAIN g : k \in 1 .. Len(b.geps) \/ \E j \in 1 .. Len(m) : k = Len(b.geps) + j
      BY <3>2, <3>3, ConcatFacts
    <3> QED
      BY <3>1, <3>2, <3>4, <3>5, <3>6
  <2> HIDE DEF g
  <2>6. \A k \in DOMAIN g : (k \in DOMAIN b.geps /\ g[k] = b.geps[k]) \/ \E j \in DOMAIN m : g[k] = m[j]
    BY <2>5
  <2>7. \A k \in DOMAIN g : IsSeq(g[k]) /\ g[k] # <<>>
    BY <1>2, <2>4, <2>6
  <2>8. IsPointer(w)
    BY <2>3, <2>5, <2>7 DEF IsPointer, g
  <2>9. IndexUses(w) \subseteq IndexUses(b) \cup (IndexUses(v) \ DOMAIN new)
                               \cup UNION {BaseUse(new[q]) : q \in IndexUses(v) \cap DOMAIN new}
    <3>0. w.geps = g
      BY <2>3 DEF g
    <3> SUFFICES ASSUME NEW k \in DOMAIN g, NEW j \in DOMAIN g[k], g[k][j].kind = "param"
                 PROVE  g[k][j].id \in IndexUses(b) \cup (IndexUses(v) \ DOMAIN new)
                               \cup UNION {BaseUse(new[q]) : q \in IndexUses(v) \cap DOMAIN new}
      BY <3>0, IndexUsesAre
    <3>1. CASE k \in DOMAIN b.geps /\ g[k] = b.geps[k]
      <4>1. g[k][j].id \in IndexUses(b)
        BY <3>1 DEF IndexUses
      <4> QED
        BY <4>1
    <3>2. CASE \E h \in DOMAIN m : g[k] = m[h]
      BY <1>4, <3>2
    <3> QED
      BY <2>6, <3>1, <3>2
  <2>10. b.geps = <<>> => w.geps = m
    <3>1. <<>> \o m = m
      BY <1>2, ConcatEmptySeq DEF IsSeq
    <3> QED
      BY <2>3, <3>1
  <2> QED
    BY <1>6, <2>3, <2>8, <2>9, <2>10 DEF m, w, b
<1> QED
  BY <1>5, <1>6

------------------------------------------------------------------------------
(* What replaces the parameters of a function is at home in the function its
   instructions go to, and is private there if the parameter was. *)
Fits(body, new, target) ==
  /\ \A q \in DOMAIN new :
       /\ IsPointerIn(target, new[q])
       /\ new[q].kind = "param" => (new[q].id \in target.private <=> q \in body.private)
  /\ \A q \in Range(body.params) \ DOMAIN new :
       q \in Range(target.params) /\ (q \in target.private <=> q \in body.private)

LEMMA IsPointerInAre ==
  ASSUME NEW body, NEW v
  PROVE  IsPointerIn(body, v) <=>
           /\ IsPointer(v)
           /\ BaseUse(v) \cup IndexUses(v) \subseteq Range(body.params)
           /\ IndexUses(v) \cap body.private = {}
<1>1. (\A k \in DOMAIN v.geps : \A j \in DOMAIN v.geps[k] :
         v.geps[k][j].kind = "param" => v.geps[k][j].id \notin body.private)
      <=> IndexUses(v) \cap body.private = {}
  BY IndexUsesAre
<1> QED
  BY <1>1, UsesAre DEF IsPointerIn

LEMMA BaseUseIs == ASSUME NEW v, v.kind = "param" PROVE BaseUse(v) = {v.id}
  BY DEF BaseUse

LEMMA PointerFits ==
  ASSUME NEW body, NEW v, IsPointerIn(body, v), NEW target, NEW new, Fits(body, new, target)
  PROVE  /\ IsPointerIn(target, ReplaceIn(v, new))
         /\ ReplaceIn(v, new).kind = "param" =>
              /\ v.kind = "param"
              /\ ReplaceIn(v, new).id \in target.private <=> v.id \in body.private
<1> DEFINE w == ReplaceIn(v, new)
<1>1. /\ IsPointer(v)
      /\ BaseUse(v) \subseteq Range(body.params)
      /\ IndexUses(v) \subseteq Range(body.params) \ body.private
  BY IsPointerInAre
<1>2. \A q \in DOMAIN new :
        /\ IsPointer(new[q])
        /\ BaseUse(new[q]) \cup IndexUses(new[q]) \subseteq Range(target.params)
        /\ IndexUses(new[q]) \cap target.private = {}
  BY IsPointerInAre DEF Fits
<1>3. /\ IsPointer(w)
      /\ IsReplaced(v, new) => w.kind = new[v.id].kind /\ w.id = new[v.id].id
      /\ ~IsReplaced(v, new) => w.kind = v.kind /\ w.id = v.id
      /\ IndexUses(w) \subseteq
              (IF IsReplaced(v, new) THEN IndexUses(new[v.id]) ELSE {})
                \cup (IndexUses(v) \ DOMAIN new)
                \cup UNION {BaseUse(new[q]) : q \in IndexUses(v) \cap DOMAIN new}
  BY <1>1, <1>2, ReplaceInFacts
<1> HIDE DEF w
<1>4. \A q \in DOMAIN new : q \notin body.private => BaseUse(new[q]) \cap target.private = {}
  BY DEF Fits, BaseUse
<1>5. IsReplaced(v, new) => v.id \in DOMAIN new
  BY DEF IsReplaced
<1>6. IndexUses(w) \subseteq Range(target.params) /\ IndexUses(w) \cap target.private = {}
  <2> SUFFICES ASSUME NEW x \in IndexUses(w) PROVE x \in Range(target.params) /\ x \notin target.private
    OBVIOUS
  <2>1. CASE IsReplaced(v, new) /\ x \in IndexUses(new[v.id])
    BY <1>2, <1>5, <2>1
  <2>2. CASE x \in IndexUses(v) \ DOMAIN new
    BY <1>1, <2>2 DEF Fits
  <2>3. CASE x \in UNION {BaseUse(new[q]) : q \in IndexUses(v) \cap DOMAIN new}
    <3>1. PICK q \in IndexUses(v) \cap DOMAIN new : x \in BaseUse(new[q])
      BY <2>3
    <3> QED
      BY <1>1, <1>2, <1>4, <3>1
  <2> QED
    BY <1>3, <2>1, <2>2, <2>3
<1>7. ASSUME w.kind = "param"
      PROVE  /\ v.kind = "param" /\ w.id \in Range(target.params)
             /\ w.id \in target.private <=> v.id \in body.private
  <2>1. CASE IsReplaced(v, new)
    <3>1. w.id = new[v.id].id /\ new[v.id].kind = "param" /\ v.id \in DOMAIN new /\ v.kind = "param"
      BY <1>3, <1>7, <2>1 DEF IsReplaced
    <3>2. BaseUse(new[v.id]) = {w.id}
      BY <3>1, BaseUseIs
    <3> QED
      BY <1>2, <3>1, <3>2 DEF Fits
  <2>2. CASE ~IsReplaced(v, new)
    <3>1. w.id = v.id /\ v.kind = "param" /\ v.id \notin DOMAIN new
      BY <1>3, <1>7, <2>2 DEF IsReplaced
    <3>2. v.id \in Range(body.params)
      BY <1>1, <3>1, BaseUseIs
    <3> QED
      BY <3>1, <3>2 DEF Fits
  <2> QED
    BY <2>1, <2>2
<1>8. BaseUse(w) \subseteq Range(target.params)
  BY <1>7 DEF BaseUse
<1>9. IsPointerIn(target, w)
  BY <1>3, <1>6, <1>8, IsPointerInAre
<1> QED
  BY <1>7, <1>9 DEF w

(* Calls and accesses of a function whose parameters were replaced. *)
IsReplacedCall(d, c, new) ==
  /\ DOMAIN d = {"site", "callee", "args"} /\ d.callee = c.callee
  /\ d.args = [i \in DOMAIN c.args |-> ReplaceIn(c.args[i], new)]

IsReplacedAccess(d, a, new) ==
  /\ DOMAIN d = {"site", "op", "operands"} /\ d.op = a.op
  /\ d.operands = [i \in DOMAIN a.operands |-> ReplaceIn(a.operands[i], new)]

LEMMA CallFits ==
  ASSUME NEW fs, NEW body, NEW c, IsCallIn(fs, body, c),
         NEW target, NEW new, Fits(body, new, target), NEW d, IsReplacedCall(d, c, new)
  PROVE  /\ IsCallIn(fs, target, d) /\ DOMAIN d.args = DOMAIN c.args
         /\ \A i \in DOMAIN d.args : d.args[i] = ReplaceIn(c.args[i], new)
<1>1. /\ DOMAIN d = {"site", "callee", "args"} /\ d.callee = c.callee
      /\ DOMAIN d.args = DOMAIN c.args
      /\ \A i \in DOMAIN d.args : d.args[i] = ReplaceIn(c.args[i], new)
  BY DEF IsReplacedCall
<1>2. IsSeq(d.args) /\ Len(d.args) = Len(c.args)
  <2>1. Len(c.args) \in Nat /\ DOMAIN c.args = 1 .. Len(c.args)
    BY IsSeqFacts DEF IsCallIn
  <2>2. d.args = [i \in 1 .. Len(c.args) |-> d.args[i]]
    BY <2>1 DEF IsReplacedCall
  <2> QED
    BY <2>1, <2>2, MakeSeq
<1>3. ASSUME NEW i \in DOMAIN d.args
      PROVE  /\ IsPointerIn(target, d.args[i])
             /\ d.args[i].kind = "param" =>
                  (d.args[i].id \in target.private <=> fs[d.callee].params[i] \in fs[d.callee].private)
  <2>1. /\ IsPointerIn(body, c.args[i])
        /\ c.args[i].kind = "param" =>
             (c.args[i].id \in body.private <=> fs[c.callee].params[i] \in fs[c.callee].private)
    BY <1>1 DEF IsCallIn
  <2>2. d.args[i] = ReplaceIn(c.args[i], new) /\ d.callee = c.callee
    BY <1>1
  <2> QED
    BY <2>1, <2>2, PointerFits
<1>4. IsCallIn(fs, target, d)
  BY <1>1, <1>2, <1>3 DEF IsCallIn
<1> QED
  BY <1>1, <1>4

LEMMA AccessFits ==
  ASSUME NEW body, NEW a, IsAccessIn(body, a),
         NEW target, NEW new, Fits(body, new, target), NEW d, IsReplacedAccess(d, a, new)
  PROVE  /\ IsAccessIn(target, d) /\ DOMAIN d.operands = DOMAIN a.operands
         /\ \A i \in DOMAIN d.operands : d.operands[i] = ReplaceIn(a.operands[i], new)
<1>1. /\ DOMAIN d = {"site", "op", "operands"} /\ d.op = a.op
      /\ DOMAIN d.operands = DOMAIN a.operands
      /\ \A i \in DOMAIN d.operands : d.operands[i] = ReplaceIn(a.operands[i], new)
  BY DEF IsReplacedAccess
<1>2. ASSUME NEW i \in DOMAIN d.operands PROVE IsPointerIn(target, d.operands[i])
  <2>1. IsPointerIn(body, a.operands[i]) /\ d.operands[i] = ReplaceIn(a.operands[i], new)
    BY <1>1 DEF IsAccessIn
  <2> QED
    BY <2>1, PointerFits
<1>3. IsAccessIn(target, d)
  BY <1>1, <1>2 DEF IsAccessIn
<1> QED
  BY <1>1, <1>3

------------------------------------------------------------------------------
(* What the passes establish one after the other. *)
CalledBy(body) == {c.callee : c \in body.calls}
CalledIn(fs) == UNION {CalledBy(fs[f]) : f \in DOMAIN fs}
HelpersOf(fs) == {f \in DOMAIN fs : ~fs[f].kernel}

(* Functions that ask for the metadata of an image, or read a 3D image with a
   sampler that is no literal, are not called. *)
Forbidden(a, what) ==
  IF what = "metadata" THEN a.op = "get_image_channel" ELSE IsReadImage3DWithNonLiteralSampler(a)

Does(body, what) == \E a \in body.accesses : Forbidden(a, what)

NoneIsCalled(fs, what) == \A f \in HelpersOf(fs) : Does(fs[f], what) => f \notin CalledIn(fs)

(* What is passed for a private pointer is a memory object, and functions that are
   called use their private pointers in place. *)
IsOf(v, p) == v.kind = "param" /\ v.id = p

StartsAt(v) == \A k \in DOMAIN v.geps : v.geps[k][1] = Zero

CallInPlace(c, p) == \A i \in DOMAIN c.args : IsOf(c.args[i], p) => c.args[i].geps = <<>>

AccessInPlace(a, p) ==
  /\ \A i \in DOMAIN a.operands : IsOf(a.operands[i], p) => StartsAt(a.operands[i])
  /\ a.op = "kept" => ~IsOf(a.operands[1], p)

IsUsedInPlace(body, p) ==
  /\ \A c \in body.calls : CallInPlace(c, p)
  /\ \A a \in body.accesses : AccessInPlace(a, p)

PassesMemory(callee, c) ==
  \A i \in DOMAIN c.args : callee.params[i] \in callee.private => IsMemoryObject(c.args[i])

PrivateIsInPlace(body) == \A p \in body.private : IsUsedInPlace(body, p)

PrivateCallsAreLegal(fs) ==
  /\ \A f \in DOMAIN fs : \A c \in fs[f].calls : PassesMemory(fs[c.callee], c)
  /\ \A f \in CalledIn(fs) : PrivateIsInPlace(fs[f])

(* No use is left of the pointers into uniform buffers. *)
PassedIn(body) == UNION {Range(c.args) : c \in body.calls}
AccessedIn(body) == UNION {Range(a.operands) : a \in body.accesses}
UsedIn(body) == UNION {UsesIn(v) : v \in PassedIn(body) \cup AccessedIn(body)}

UboIsUnused(body) == UsedIn(body) \cap body.ubo = {}

------------------------------------------------------------------------------
(* A literal sampler stays one. *)
LEMMA ForbiddenFits ==
  ASSUME NEW body, NEW a, IsAccessIn(body, a), NEW new, NEW d, IsReplacedAccess(d, a, new),
         DOMAIN d.operands = DOMAIN a.operands,
         \A i \in DOMAIN d.operands : d.operands[i] = ReplaceIn(a.operands[i], new),
         \A q \in DOMAIN new : IsPointer(new[q]),
         NEW what, Forbidden(d, what)
  PROVE  Forbidden(a, what)
<1>1. d.op = a.op
  BY DEF IsReplacedAccess
<1>2. CASE what = "metadata"
  BY <1>1, <1>2 DEF Forbidden
<1>3. CASE what # "metadata"
  <2>1. d.op = "read_image3d" /\ d.operands[2].kind # "literal"
    BY <1>3 DEF Forbidden, IsReadImage3DWithNonLiteralSampler
  <2>2. 2 \in DOMAIN a.operands /\ IsPointer(a.operands[2])
    BY <1>1, <2>1 DEF IsAccessIn, IsPointerIn
  <2>3. d.operands[2] = ReplaceIn(a.operands[2], new)
    BY <2>2
  <2>4. a.operands[2].kind # "literal"
    <3>1. CASE IsReplaced(a.operands[2], new)
      BY <3>1 DEF IsReplaced
    <3>2. CASE ~IsReplaced(a.operands[2], new)
      BY <2>1, <2>2, <2>3, <3>2, ReplaceInFacts
    <3> QED
      BY <3>1, <3>2
  <2> QED
    BY <1>1, <1>3, <2>1, <2>4 DEF Forbidden, IsReadImage3DWithNonLiteralSampler
<1> QED
  BY <1>2, <1>3

(* Parameters used after the replacement. *)
LEMMA UsesFit ==
  ASSUME NEW v, IsPointer(v), NEW new, \A q \in DOMAIN new : IsPointer(new[q])
  PROVE  UsesIn(ReplaceIn(v, new)) \subseteq (UsesIn(v) \ DOMAIN new) \cup UNION {UsesIn(new[q]) : q \in DOMAIN new}
<1> DEFINE w == ReplaceIn(v, new)
           X == (UsesIn(v) \ DOMAIN new) \cup UNION {UsesIn(new[q]) : q \in DOMAIN new}
<1>1. /\ IsReplaced(v, new) => w.kind = new[v.id].kind /\ w.id = new[v.id].id
      /\ ~IsReplaced(v, new) => w.kind = v.kind /\ w.id = v.id
      /\ IndexUses(w) \subseteq
              (IF IsReplaced(v, new) THEN IndexUses(new[v.id]) ELSE {})
                \cup (IndexUses(v) \ DOMAIN new)
                \cup UNION {BaseUse(new[q]) : q \in IndexUses(v) \cap DOMAIN new}
  BY ReplaceInFacts
<1>2. UsesIn(w) = BaseUse(w) \cup IndexUses(w)
  BY UsesAre
<1>3. UsesIn(v) = BaseUse(v) \cup IndexUses(v)
  BY UsesAre
<1>4. \A q \in DOMAIN new : BaseUse(new[q]) \cup IndexUses(new[q]) \subseteq X
  BY UsesAre
<1> HIDE DEF w
<1>5. IndexUses(w) \subseteq X
  BY <1>1, <1>3, <1>4 DEF IsReplaced
<1>6. BaseUse(w) \subseteq X
  <2>1. CASE IsReplaced(v, new)
    <3>1. BaseUse(w) = BaseUse(new[v.id]) /\ v.id \in DOMAIN new
      BY <1>1, <2>1 DEF BaseUse, IsReplaced
    <3> QED
      BY <1>4, <3>1
  <2>2. CASE ~IsReplaced(v, new)
    <3>1. BaseUse(w) = BaseUse(v) /\ (\A x \in BaseUse(v) : x \notin DOMAIN new)
      BY <1>1, <2>2 DEF BaseUse, IsReplaced
    <3> QED
      BY <1>3, <3>1
  <2> QED
    BY <2>1, <2>2
<1> QED
  BY <1>2, <1>5, <1>6 DEF w

LEMMA UsedInIs ==
  ASSUME NEW body, NEW p
  PROVE  p \in UsedIn(body) <=>
           \/ \E c \in body.calls : \E i \in DOMAIN c.args : p \in UsesIn(c.args[i])
           \/ \E a \in body.accesses : \E i \in DOMAIN a.operands : p \in UsesIn(a.operands[i])
<1>1. \A v : v \in PassedIn(body) <=> \E c \in body.calls : \E i \in DOMAIN c.args : v = c.args[i]
  BY DEF PassedIn, Range
<1>2. \A v : v \in AccessedIn(body) <=> \E a \in body.accesses : \E i \in DOMAIN a.operands : v = a.operands[i]
  BY DEF AccessedIn, Range
<1>3. p \in UsedIn(body) <=> \E v \in PassedIn(body) \cup AccessedIn(body) : p \in UsesIn(v)
  BY DEF UsedIn
<1> QED
  BY <1>1, <1>2, <1>3

(* A parameter that is private there was a private one here, and used as it was. *)
FitsPrivate(body, new) == \A q \in body.private \cap DOMAIN new : IsMemoryObject(new[q])

LEMMA PrivateFits ==
  ASSUME NEW body, NEW v, IsPointerIn(body, v), NEW target, NEW new, Fits(body, new, target),
         FitsPrivate(body, new), NEW p \in target.private, IsOf(ReplaceIn(v, new), p)
  PROVE  /\ v.id \in body.private /\ IsOf(v, v.id)
         /\ v.geps = <<>> => ReplaceIn(v, new).geps = <<>>
         /\ StartsAt(v) => StartsAt(ReplaceIn(v, new))
<1> DEFINE w == ReplaceIn(v, new)
<1>1. v.kind = "param" /\ v.id \in body.private
  BY PointerFits DEF IsOf
<1>2. ~IsReplaced(v, new) \/ new[v.id].geps = <<>>
  BY <1>1 DEF IsReplaced, FitsPrivate, IsMemoryObject
<1>3. IsPointer(v) /\ \A q \in DOMAIN new : IsPointer(new[q])
  BY DEF IsPointerIn, Fits
<1>4. w.geps = Mapped(v, new)
  BY <1>2, <1>3, ReplaceInFacts
<1>5. v.geps = <<>> => w.geps = <<>>
  BY <1>3, <1>4, MappedFacts
<1>6. ASSUME StartsAt(v) PROVE StartsAt(w)
  <2>1. DOMAIN w.geps = DOMAIN v.geps
    BY <1>3, <1>4, MappedFacts
  <2>2. ASSUME NEW k \in DOMAIN v.geps PROVE w.geps[k][1] = Zero
    <3>1. w.geps[k][1] = ReplaceIndex(v.geps[k][1], new)
      BY <1>3, <1>4, MappedFacts
    <3>2. v.geps[k][1] = Zero
      BY <1>6 DEF StartsAt
    <3> QED
      BY <3>1, <3>2 DEF ReplaceIndex, Zero, Const
  <2> HIDE DEF w
  <2> QED
    BY <2>1, <2>2 DEF StartsAt
<1> QED
  BY <1>1, <1>5, <1>6 DEF IsOf

(* A memory object stays one where the callee wants a private pointer. *)
LEMMA MemoryFits ==
  ASSUME NEW fs, NEW body, NEW c, IsCallIn(fs, body, c),
         NEW target, NEW new, Fits(body, new, target), NEW d, IsReplacedCall(d, c, new),
         FitsPrivate(body, new), PassesMemory(fs[c.callee], c)
  PROVE  PassesMemory(fs[d.callee], d)
<1>1. /\ d.callee = c.callee /\ DOMAIN d.args = DOMAIN c.args
      /\ \A i \in DOMAIN d.args : d.args[i] = ReplaceIn(c.args[i], new)
  BY CallFits DEF IsReplacedCall
<1> SUFFICES ASSUME NEW i \in DOMAIN d.args, fs[c.callee].params[i] \in fs[c.callee].private
             PROVE  IsMemoryObject(d.args[i])
  BY <1>1 DEF PassesMemory
<1> DEFINE v == c.args[i]
           w == ReplaceIn(v, new)
<1>2. IsMemoryObject(v) /\ d.args[i] = w
  BY <1>1 DEF PassesMemory
<1>3. IsPointer(v) /\ (v.kind = "param" => v.id \in body.private)
  BY <1>1 DEF IsCallIn, IsPointerIn
<1>4. \A q \in DOMAIN new : IsPointer(new[q])
  BY DEF IsPointerIn, Fits
<1> HIDE DEF v
<1>5. CASE IsReplaced(v, new)
  <2>1. IsMemoryObject(new[v.id])
    BY <1>3, <1>5 DEF IsReplaced, FitsPrivate
  <2>2. w.kind = new[v.id].kind /\ w.geps = Mapped(v, new)
    BY <1>3, <1>4, <1>5, <2>1, ReplaceInFacts DEF IsMemoryObject
  <2>3. w.geps = <<>>
    BY <1>2, <1>3, <2>2, MappedFacts DEF IsMemoryObject
  <2> QED
    BY <1>2, <2>1, <2>2, <2>3 DEF IsMemoryObject
<1>6. CASE ~IsReplaced(v, new)
  <2>1. w.kind = v.kind /\ w.geps = Mapped(v, new)
    BY <1>3, <1>4, <1>6, ReplaceInFacts
  <2>2. w.geps = <<>>
    BY <1>2, <1>3, <2>1, MappedFacts DEF IsMemoryObject
  <2> QED
    BY <1>2, <2>1, <2>2 DEF IsMemoryObject
<1> QED
  BY <1>5, <1>6

LEMMA CallInPlaceFits ==
  ASSUME NEW fs, NEW body, NEW c, IsCallIn(fs, body, c),
         NEW target, NEW new, Fits(body, new, target), NEW d, IsReplacedCall(d, c, new),
         FitsPrivate(body, new), \A q \in body.private : CallInPlace(c, q), NEW p \in target.private
  PROVE  CallInPlace(d, p)
<1>1. /\ DOMAIN d.args = DOMAIN c.args
      /\ \A i \in DOMAIN d.args : d.args[i] = ReplaceIn(c.args[i], new)
  BY CallFits
<1> SUFFICES ASSUME NEW i \in DOMAIN d.args, IsOf(d.args[i], p) PROVE d.args[i].geps = <<>>
  BY DEF CallInPlace
<1> DEFINE v == c.args[i]
<1>2. IsPointerIn(body, v) /\ d.args[i] = ReplaceIn(v, new)
  BY <1>1 DEF IsCallIn
<1>3. /\ v.id \in body.private /\ IsOf(v, v.id)
      /\ v.geps = <<>> => d.args[i].geps = <<>>
  BY <1>2, PrivateFits
<1>4. v.geps = <<>>
  BY <1>1, <1>3 DEF CallInPlace
<1> QED
  BY <1>3, <1>4

LEMMA AccessInPlaceFits ==
  ASSUME NEW body, NEW a, IsAccessIn(body, a),
         NEW target, NEW new, Fits(body, new, target), NEW d, IsReplacedAccess(d, a, new),
         FitsPrivate(body, new), \A q \in body.private : AccessInPlace(a, q), NEW p \in target.private
  PROVE  AccessInPlace(d, p)
<1>1. /\ DOMAIN d.operands = DOMAIN a.operands /\ d.op = a.op
      /\ \A i \in DOMAIN d.operands : d.operands[i] = ReplaceIn(a.operands[i], new)
  BY AccessFits DEF IsReplacedAccess
<1>2. ASSUME NEW i \in DOMAIN d.operands, IsOf(d.operands[i], p)
      PROVE  /\ a.operands[i].id \in body.private /\ IsOf(a.operands[i], a.operands[i].id)
             /\ StartsAt(a.operands[i]) => StartsAt(d.operands[i])
  <2>1. IsPointerIn(body, a.operands[i]) /\ d.operands[i] = ReplaceIn(a.operands[i], new)
    BY <1>1 DEF IsAccessIn
  <2> QED
    BY <1>2, <2>1, PrivateFits
<1>3. \A i \in DOMAIN d.operands : IsOf(d.operands[i], p) => StartsAt(d.operands[i])
  BY <1>1, <1>2 DEF AccessInPlace
<1>4. 1 \in DOMAIN d.operands
  BY <1>1 DEF IsAccessIn
<1>5. d.op = "kept" => ~IsOf(d.operands[1], p)
  BY <1>1, <1>2, <1>4 DEF AccessInPlace
<1> QED
  BY <1>3, <1>5 DEF AccessInPlace

------------------------------------------------------------------------------
(* Calls of a function, and what they give to its parameters. *)
LEMMA UserFacts ==
  ASSUME IsModule(functions), NEW f, NEW u \in Users(f)
  PROVE  /\ u.in \in DOMAIN functions /\ u.call \in functions[u.in].calls /\ u.call.callee = f
         /\ f \in DOMAIN functions
         /\ IsFunction(functions, functions[u.in]) /\ IsFunction(functions, functions[f])
         /\ IsCallIn(functions, functions[u.in], u.call)
         /\ f \in CalledIn(functions)
<1>1. PICK g \in DOMAIN functions : \E c \in functions[g].calls : c.callee = f /\ u = [in |-> g, call |-> c]
  BY DEF Users
<1>2. u.in \in DOMAIN functions /\ u.call \in functions[u.in].calls /\ u.call.callee = f
  BY <1>1
<1>3. IsFunction(functions, functions[u.in])
  BY <1>2 DEF IsModule
<1>4. IsCallIn(functions, functions[u.in], u.call)
  BY <1>2, <1>3 DEF IsFunction
<1>5. f \in DOMAIN functions
  BY <1>2, <1>4 DEF IsCallIn
<1>6. f \in CalledIn(functions)
  BY <1>2 DEF CalledIn, CalledBy
<1> QED
  BY <1>2, <1>3, <1>4, <1>5, <1>6 DEF IsModule

LEMMA CalledAreFunctions ==
  ASSUME NEW fs, IsModule(fs)
  PROVE  CalledIn(fs) \subseteq DOMAIN fs
<1> SUFFICES ASSUME NEW f \in DOMAIN fs, NEW c \in fs[f].calls PROVE c.callee \in DOMAIN fs
  BY DEF CalledIn, CalledBy
<1> QED
  BY DEF IsModule, IsFunction, IsCallIn

LEMMA UserIs ==
  ASSUME NEW g \in DOMAIN functions, NEW c \in functions[g].calls
  PROVE  [in |-> g, call |-> c] \in Users(c.callee)
  BY DEF Users

LEMMA GivenFacts ==
  ASSUME NEW f, NEW body, IsFunction(functions, functions[f]), NEW c, IsCallIn(functions, body, c), c.callee = f
  PROVE  /\ DOMAIN ArgsByParam(f, c.args) = Range(functions[f].params)
         /\ DOMAIN c.args = DOMAIN functions[f].params
         /\ \A i \in DOMAIN c.args : ArgsByParam(f, c.args)[functions[f].params[i]] = c.args[i]
         /\ \A q \in Range(functions[f].params) :
              \E i \in DOMAIN c.args : functions[f].params[i] = q /\ ArgsByParam(f, c.args)[q] = c.args[i]
<1> DEFINE params == functions[f].params
           given == ArgsByParam(f, c.args)
<1>1. IsSeq(params) /\ IsSeq(c.args) /\ Len(c.args) = Len(params)
  BY DEF IsFunction, IsCallIn
<1>2. DOMAIN c.args = DOMAIN params
  BY <1>1, IsSeqFacts
<1>3. \A i, j \in DOMAIN params : params[i] = params[j] => i = j
  BY DEF IsFunction
<1>4. \A q \in Range(params) : given[q] = c.args[CHOOSE i \in DOMAIN c.args : params[i] = q]
  BY DEF ArgsByParam
<1>5. DOMAIN given = Range(params)
  BY DEF ArgsByParam
<1> HIDE DEF params, given
<1>6. ASSUME NEW i \in DOMAIN c.args PROVE given[params[i]] = c.args[i]
  <2>1. params[i] \in Range(params)
    BY <1>2 DEF Range
  <2>2. (CHOOSE j \in DOMAIN c.args : params[j] = params[i]) = i
    BY <1>2, <1>3
  <2> QED
    BY <1>4, <2>1, <2>2
<1>7. \A q \in Range(params) : \E i \in DOMAIN c.args : params[i] = q
  BY <1>2 DEF Range
<1> QED
  BY <1>2, <1>5, <1>6, <1>7 DEF params, given

LEMMA GivenFits ==
  ASSUME IsModule(functions), NEW f, NEW u \in Users(f)
  PROVE  /\ Fits(functions[f], ArgsByParam(f, u.call.args), functions[u.in])
         /\ PassesMemory(functions[f], u.call) => FitsPrivate(functions[f], ArgsByParam(f, u.call.args))
<1> DEFINE new == ArgsByParam(f, u.call.args)
           body == functions[f]
<1>1. /\ u.call.callee = f /\ IsFunction(functions, body)
      /\ IsCallIn(functions, functions[u.in], u.call)
  BY UserFacts
<1>2. /\ DOMAIN new = Range(body.params)
      /\ \A q \in DOMAIN new : \E i \in DOMAIN u.call.args : body.params[i] = q /\ new[q] = u.call.args[i]
  <2>1. DOMAIN new = Range(body.params)
    BY <1>1, GivenFacts
  <2>2. \A q \in Range(body.params) : \E i \in DOMAIN u.call.args : body.params[i] = q /\ new[q] = u.call.args[i]
    BY <1>1, GivenFacts
  <2> HIDE DEF new
  <2> QED
    BY <2>1, <2>2
<1> HIDE DEF new
<1>3. ASSUME NEW q \in DOMAIN new
      PROVE  /\ IsPointerIn(functions[u.in], new[q])
             /\ new[q].kind = "param" => (new[q].id \in functions[u.in].private <=> q \in body.private)
             /\ PassesMemory(body, u.call) /\ q \in body.private => IsMemoryObject(new[q])
  <2>1. PICK i \in DOMAIN u.call.args : body.params[i] = q /\ new[q] = u.call.args[i]
    BY <1>2
  <2> QED
    BY <1>1, <2>1 DEF IsCallIn, PassesMemory
<1>4. Fits(body, new, functions[u.in])
  BY <1>2, <1>3 DEF Fits
<1>5. PassesMemory(body, u.call) => FitsPrivate(body, new)
  BY <1>3 DEF FitsPrivate
<1> QED
  BY <1>4, <1>5 DEF new

(* The calls and accesses after all uses of parameters were replaced. *)
LEMMA ReplaceAllUsesIs ==
  ASSUME NEW fs, NEW body, IsFunction(fs, body), NEW new
  PROVE  /\ DOMAIN ReplaceAllUses(body, new) = DOMAIN body
         /\ \A field \in {"kernel", "noinline", "params", "ubo", "private"} : ReplaceAllUses(body, new)[field] = body[field]
         /\ \A d \in ReplaceAllUses(body, new).calls : \E c \in body.calls : IsReplacedCall(d, c, new)
         /\ \A c \in body.calls : \E d \in ReplaceAllUses(body, new).calls : IsReplacedCall(d, c, new)
         /\ \A d \in ReplaceAllUses(body, new).accesses : \E a \in body.accesses : IsReplacedAccess(d, a, new)
<1> DEFINE r == ReplaceAllUses(body, new)
           again(c) == [c EXCEPT !.args = [i \in DOMAIN @ |-> ReplaceIn(@[i], new)]]
           access(a) == [a EXCEPT !.operands = [i \in DOMAIN @ |-> ReplaceIn(@[i], new)]]
<1>1. DOMAIN body = {"kernel", "noinline", "params", "ubo", "private", "calls", "accesses"}
  BY DEF IsFunction
<1>2. r = [body EXCEPT !.calls = {again(c) : c \in body.calls}, !.accesses = {access(a) : a \in body.accesses}]
  BY DEF ReplaceAllUses
<1>3. ASSUME NEW c \in body.calls PROVE IsReplacedCall(again(c), c, new)
  <2>1. DOMAIN c = {"site", "callee", "args"}
    BY DEF IsFunction, IsCallIn
  <2> QED
    BY <2>1 DEF IsReplacedCall
<1>4. ASSUME NEW a \in body.accesses PROVE IsReplacedAccess(access(a), a, new)
  <2>1. DOMAIN a = {"site", "op", "operands"}
    BY DEF IsFunction, IsAccessIn
  <2> QED
    BY <2>1 DEF IsReplacedAccess
<1> HIDE DEF again, access
<1>5. DOMAIN r = DOMAIN body /\ r.calls = {again(c) : c \in body.calls} /\ r.accesses = {access(a) : a \in body.accesses}
  BY <1>1, <1>2
<1>6. \A field \in {"kernel", "noinline", "params", "ubo", "private"} : r[field] = body[field]
  BY <1>1, <1>2
<1> HIDE DEF r
<1>7. \A d \in r.calls : \E c \in body.calls : IsReplacedCall(d, c, new)
  BY <1>3, <1>5
<1>8. \A c \in body.calls : \E d \in r.calls : IsReplacedCall(d, c, new)
  BY <1>3, <1>5
<1>9. \A d \in r.accesses : \E a \in body.accesses : IsReplacedAccess(d, a, new)
  BY <1>4, <1>5
<1> QED
  BY <1>5, <1>6, <1>7, <1>8, <1>9 DEF r

------------------------------------------------------------------------------
(* One function changes: it keeps its signature, and its calls and accesses are
   legal. Then the others are as legal as before. *)
SameSignature(body, target) ==
  \A field \in {"kernel", "noinline", "params", "ubo", "private"} : target[field] = body[field]

LEMMA SameHome ==
  ASSUME NEW fs, NEW body, NEW target, body.params = target.params, body.private = target.private
  PROVE  /\ \A v : IsPointerIn(body, v) => IsPointerIn(target, v)
         /\ \A c : IsCallIn(fs, body, c) => IsCallIn(fs, target, c)
         /\ \A a : IsAccessIn(body, a) => IsAccessIn(target, a)
<1>1. \A v : IsPointerIn(body, v) => IsPointerIn(target, v)
  BY DEF IsPointerIn
<1>2. \A c : IsCallIn(fs, body, c) => IsCallIn(fs, target, c)
  BY <1>1 DEF IsCallIn
<1>3. \A a : IsAccessIn(body, a) => IsAccessIn(target, a)
  BY <1>1 DEF IsAccessIn
<1> QED
  BY <1>1, <1>2, <1>3

LEMMA SameCallee ==
  ASSUME NEW fs, NEW body, NEW c, IsCallIn(fs, body, c),
         NEW other, c.callee \in DOMAIN other,
         other[c.callee].params = fs[c.callee].params, other[c.callee].private = fs[c.callee].private
  PROVE  IsCallIn(other, body, c)
  BY DEF IsCallIn

LEMMA OneChanges ==
  ASSUME NEW fs, \A f \in DOMAIN fs : IsFunction(fs, fs[f]),
         NEW other, NEW g \in DOMAIN fs, DOMAIN fs \subseteq DOMAIN other,
         \A h \in DOMAIN fs \ {g} : other[h] = fs[h],
         DOMAIN other[g] = DOMAIN fs[g], SameSignature(fs[g], other[g]),
         \A d \in other[g].calls : IsCallIn(other, fs[g], d),
         \A a \in other[g].accesses : IsAccessIn(fs[g], a)
  PROVE  \A h \in DOMAIN fs : IsFunction(other, other[h])
<1>1. \A h \in DOMAIN fs : other[h].params = fs[h].params /\ other[h].private = fs[h].private
  BY DEF SameSignature
<1>2. ASSUME NEW h \in DOMAIN fs \ {g} PROVE IsFunction(other, other[h])
  <2>1. IsFunction(fs, fs[h]) /\ other[h] = fs[h]
    OBVIOUS
  <2>2. ASSUME NEW c \in fs[h].calls PROVE IsCallIn(other, fs[h], c)
    <3>1. IsCallIn(fs, fs[h], c)
      BY <2>1 DEF IsFunction
    <3>2. c.callee \in DOMAIN fs
      BY <3>1 DEF IsCallIn
    <3> QED
      BY <1>1, <3>1, <3>2, SameCallee
  <2> QED
    BY <2>1, <2>2 DEF IsFunction
<1>3. IsFunction(other, other[g])
  <2>1. IsFunction(fs, fs[g])
    OBVIOUS
  <2>2. /\ other[g].params = fs[g].params /\ other[g].private = fs[g].private
        /\ other[g].kernel = fs[g].kernel /\ other[g].ubo = fs[g].ubo
    BY DEF SameSignature
  <2>3. \A d \in other[g].calls : IsCallIn(other, other[g], d)
    BY <2>2, SameHome
  <2>4. \A a \in other[g].accesses : IsAccessIn(other[g], a)
    BY <2>2, SameHome
  <2> QED
    BY <2>1, <2>2, <2>3, <2>4 DEF IsFunction
<1> QED
  BY <1>2, <1>3

(* No new cycles: whom a function calls now, it called before, or one of its callees did. *)
LEMMA StillNotRecursive ==
  ASSUME NEW fs, IsNotRecursive(fs), NEW other, DOMAIN other = DOMAIN fs,
         NEW g \in DOMAIN fs, NEW f \in CalledBy(fs[g]) \cap DOMAIN fs,
         \A h \in DOMAIN fs \ {g} : CalledBy(other[h]) \subseteq CalledBy(fs[h]),
         CalledBy(other[g]) \subseteq CalledBy(fs[g]) \cup CalledBy(fs[f])
  PROVE  IsNotRecursive(other)
<1> SUFFICES ASSUME NEW group \in (SUBSET DOMAIN fs) \ {{}}
             PROVE  \E h \in group : \A k \in group : \A c \in other[k].calls : c.callee # h
  BY DEF IsNotRecursive
<1> DEFINE all == IF g \in group THEN group \cup {f} ELSE group
<1>1. all \in (SUBSET DOMAIN fs) \ {{}}
  OBVIOUS
<1>2. PICK h \in all : \A k \in all : \A c \in fs[k].calls : c.callee # h
  BY <1>1 DEF IsNotRecursive
<1>3. \A k \in all : h \notin CalledBy(fs[k])
  BY <1>2 DEF CalledBy
<1>4. h \in group
  BY <1>2, <1>3
<1>5. \A k \in group : h \notin CalledBy(other[k])
  BY <1>3
<1>6. \A k \in group : \A c \in other[k].calls : c.callee # h
  BY <1>5 DEF CalledBy
<1> QED
  BY <1>4, <1>6

LEMMA FewerCallsNotRecursive ==
  ASSUME NEW fs, IsNotRecursive(fs), NEW other, DOMAIN other \subseteq DOMAIN fs,
         \A h \in DOMAIN other : CalledBy(other[h]) \subseteq CalledBy(fs[h])
  PROVE  IsNotRecursive(other)
<1> SUFFICES ASSUME NEW group \in (SUBSET DOMAIN other) \ {{}}
             PROVE  \E h \in group : \A k \in group : \A c \in other[k].calls : c.callee # h
  BY DEF IsNotRecursive
<1>1. PICK h \in group : \A k \in group : \A c \in fs[k].calls : c.callee # h
  BY DEF IsNotRecursive
<1>2. \A k \in group : h \notin CalledBy(other[k])
  BY <1>1 DEF CalledBy
<1> QED
  BY <1>2 DEF CalledBy

------------------------------------------------------------------------------
(* llvm::InlineFunction: the caller gets the calls and accesses of the callee,
   with what it gave for the parameters. *)
LEMMA InlinedIs ==
  ASSUME IsModule(functions), NEW f, NEW u \in Users(f)
  PROVE  LET g == u.in
             new == ArgsByParam(f, u.call.args)
             after == Inlined(u)
         IN  /\ DOMAIN after = DOMAIN functions
             /\ \A h \in DOMAIN functions \ {g} : after[h] = functions[h]
             /\ DOMAIN after[g] = DOMAIN functions[g] /\ SameSignature(functions[g], after[g])
             /\ \A d \in after[g].calls :
                  d \in functions[g].calls \ {u.call} \/ \E c \in functions[f].calls : IsReplacedCall(d, c, new)
             /\ \A c \in functions[f].calls : \E d \in after[g].calls : IsReplacedCall(d, c, new)
             /\ functions[g].calls \ {u.call} \subseteq after[g].calls
             /\ \A d \in after[g].accesses :
                  d \in functions[g].accesses \/ \E a \in functions[f].accesses : IsReplacedAccess(d, a, new)
<1> DEFINE g == u.in
           new == ArgsByParam(f, u.call.args)
           body == ReplaceAllUses(functions[f], new)
           after == Inlined(u)
           calls == {[c EXCEPT !.site = u.call.site \o @] : c \in body.calls}
           accesses == {[a EXCEPT !.site = u.call.site \o @] : a \in body.accesses}
<1>1. /\ g \in DOMAIN functions /\ u.call.callee = f
      /\ IsFunction(functions, functions[g]) /\ IsFunction(functions, functions[f])
  BY UserFacts
<1>2. DOMAIN functions[g] = {"kernel", "noinline", "params", "ubo", "private", "calls", "accesses"}
  BY <1>1 DEF IsFunction
<1>3. after = [functions EXCEPT ![g].calls = (functions[g].calls \ {u.call}) \cup calls,
                                ![g].accesses = functions[g].accesses \cup accesses]
  BY <1>1, <1>2 DEF Inlined
<1>4. /\ \A d \in body.calls : \E c \in functions[f].calls : IsReplacedCall(d, c, new)
      /\ \A c \in functions[f].calls : \E d \in body.calls : IsReplacedCall(d, c, new)
      /\ \A d \in body.accesses : \E a \in functions[f].accesses : IsReplacedAccess(d, a, new)
  BY <1>1, ReplaceAllUsesIs
<1> HIDE DEF body, new
<1>5. ASSUME NEW e \in body.calls, NEW c, IsReplacedCall(e, c, new)
      PROVE  IsReplacedCall([e EXCEPT !.site = u.call.site \o @], c, new)
  BY <1>5 DEF IsReplacedCall
<1>6. ASSUME NEW e \in body.accesses, NEW a, IsReplacedAccess(e, a, new)
      PROVE  IsReplacedAccess([e EXCEPT !.site = u.call.site \o @], a, new)
  BY <1>6 DEF IsReplacedAccess
<1>7. \A d \in calls : \E c \in functions[f].calls : IsReplacedCall(d, c, new)
  BY <1>4, <1>5
<1>8. ASSUME NEW c \in functions[f].calls PROVE \E d \in calls : IsReplacedCall(d, c, new)
  <2>1. PICK e \in body.calls : IsReplacedCall(e, c, new)
    BY <1>4
  <2>2. [e EXCEPT !.site = u.call.site \o @] \in calls
    OBVIOUS
  <2> QED
    BY <1>5, <2>1, <2>2
<1>9. \A d \in accesses : \E a \in functions[f].accesses : IsReplacedAccess(d, a, new)
  BY <1>4, <1>6
<1> HIDE DEF after, calls, accesses
<1>10. /\ DOMAIN after = DOMAIN functions
       /\ \A h \in DOMAIN functions \ {g} : after[h] = functions[h]
       /\ DOMAIN after[g] = DOMAIN functions[g] /\ SameSignature(functions[g], after[g])
       /\ after[g].calls = (functions[g].calls \ {u.call}) \cup calls
       /\ after[g].accesses = functions[g].accesses \cup accesses
  BY <1>1, <1>2, <1>3 DEF SameSignature
<1> QED
  BY <1>7, <1>8, <1>9, <1>10 DEF after, new

(* It calls and uses nothing that the caller and the callee did not, and leaves no
   callee of theirs without calls but the one that was inlined. *)
LEMMA InlinedCalls ==
  ASSUME IsModule(functions), NEW f, NEW u \in Users(f)
  PROVE  /\ CalledBy(Inlined(u)[u.in]) \subseteq CalledBy(functions[u.in]) \cup CalledBy(functions[f])
         /\ CalledBy(functions[f]) \subseteq CalledBy(Inlined(u)[u.in])
         /\ CalledIn(Inlined(u)) \subseteq CalledIn(functions)
         /\ UsedIn(Inlined(u)[u.in]) \subseteq UsedIn(functions[u.in])
<1> DEFINE g == u.in
           new == ArgsByParam(f, u.call.args)
           after == Inlined(u)
<1>1. /\ DOMAIN after = DOMAIN functions
      /\ \A h \in DOMAIN functions \ {g} : after[h] = functions[h]
      /\ \A d \in after[g].calls :
           d \in functions[g].calls \/ \E c \in functions[f].calls : IsReplacedCall(d, c, new)
      /\ \A c \in functions[f].calls : \E d \in after[g].calls : IsReplacedCall(d, c, new)
      /\ \A d \in after[g].accesses :
           d \in functions[g].accesses \/ \E a \in functions[f].accesses : IsReplacedAccess(d, a, new)
  BY InlinedIs
<1>2. /\ f \in DOMAIN functions /\ g \in DOMAIN functions /\ u.call \in functions[g].calls /\ u.call.callee = f
      /\ IsFunction(functions, functions[f]) /\ IsCallIn(functions, functions[g], u.call)
  BY UserFacts
<1>3. Fits(functions[f], new, functions[g])
  BY GivenFits
<1>4. /\ DOMAIN new = Range(functions[f].params)
      /\ \A q \in DOMAIN new : \E i \in DOMAIN u.call.args : new[q] = u.call.args[i]
  <2>1. DOMAIN new = Range(functions[f].params)
    BY <1>2, GivenFacts
  <2>2. \A q \in Range(functions[f].params) : \E i \in DOMAIN u.call.args : new[q] = u.call.args[i]
    BY <1>2, GivenFacts
  <2> HIDE DEF new
  <2> QED
    BY <2>1, <2>2
<1> HIDE DEF new, after
<1>5. CalledBy(after[g]) \subseteq CalledBy(functions[g]) \cup CalledBy(functions[f])
  <2> SUFFICES ASSUME NEW d \in after[g].calls PROVE d.callee \in CalledBy(functions[g]) \cup CalledBy(functions[f])
    BY DEF CalledBy
  <2>1. d \in functions[g].calls \/ \E c \in functions[f].calls : d.callee = c.callee
    BY <1>1 DEF IsReplacedCall
  <2> QED
    BY <2>1 DEF CalledBy
<1>6. CalledBy(functions[f]) \subseteq CalledBy(after[g])
  <2> SUFFICES ASSUME NEW c \in functions[f].calls PROVE c.callee \in CalledBy(after[g])
    BY DEF CalledBy
  <2>1. PICK d \in after[g].calls : IsReplacedCall(d, c, new)
    BY <1>1
  <2> QED
    BY <2>1 DEF CalledBy, IsReplacedCall
<1>7. CalledIn(after) \subseteq CalledIn(functions)
  BY <1>1, <1>2, <1>5 DEF CalledIn
<1>8. \A q \in DOMAIN new : UsesIn(new[q]) \subseteq UsedIn(functions[g])
  BY <1>2, <1>4, UsedInIs
<1>9. ASSUME NEW v, IsPointerIn(functions[f], v) PROVE UsesIn(ReplaceIn(v, new)) \subseteq UsedIn(functions[g])
  <2>1. IsPointer(v) /\ UsesIn(v) \subseteq DOMAIN new
    BY <1>4, <1>9 DEF IsPointerIn
  <2>2. \A q \in DOMAIN new : IsPointer(new[q])
    BY <1>3 DEF Fits, IsPointerIn
  <2>3. UsesIn(ReplaceIn(v, new)) \subseteq (UsesIn(v) \ DOMAIN new) \cup UNION {UsesIn(new[q]) : q \in DOMAIN new}
    BY <2>1, <2>2, UsesFit
  <2> QED
    BY <1>8, <2>1, <2>3
<1>10. UsedIn(after[g]) \subseteq UsedIn(functions[g])
  <2>1. ASSUME NEW p, NEW d \in after[g].calls, NEW i \in DOMAIN d.args, p \in UsesIn(d.args[i])
        PROVE  p \in UsedIn(functions[g])
    <3>1. CASE d \in functions[g].calls
      BY <2>1, <3>1, UsedInIs
    <3>2. CASE \E c \in functions[f].calls : IsReplacedCall(d, c, new)
      <4>1. PICK c \in functions[f].calls : IsReplacedCall(d, c, new)
        BY <3>2
      <4>2. IsCallIn(functions, functions[f], c)
        BY <1>2 DEF IsFunction
      <4>3. d.args[i] = ReplaceIn(c.args[i], new) /\ i \in DOMAIN c.args
        BY <4>1 DEF IsReplacedCall
      <4> QED
        BY <1>9, <2>1, <4>2, <4>3 DEF IsCallIn
    <3> QED
      BY <1>1, <3>1, <3>2
  <2>2. ASSUME NEW p, NEW d \in after[g].accesses, NEW i \in DOMAIN d.operands, p \in UsesIn(d.operands[i])
        PROVE  p \in UsedIn(functions[g])
    <3>1. CASE d \in functions[g].accesses
      BY <2>2, <3>1, UsedInIs
    <3>2. CASE \E a \in functions[f].accesses : IsReplacedAccess(d, a, new)
      <4>1. PICK a \in functions[f].accesses : IsReplacedAccess(d, a, new)
        BY <3>2
      <4>2. IsAccessIn(functions[f], a)
        BY <1>2 DEF IsFunction
      <4>3. d.operands[i] = ReplaceIn(a.operands[i], new) /\ i \in DOMAIN a.operands
        BY <4>1 DEF IsReplacedAccess
      <4> QED
        BY <1>9, <2>2, <4>2, <4>3 DEF IsAccessIn
    <3> QED
      BY <1>1, <3>1, <3>2
  <2> QED
    BY <2>1, <2>2, UsedInIs
<1> QED
  BY <1>5, <1>6, <1>7, <1>10 DEF after

(* The module stays well-formed. *)
LEMMA InlinedModule ==
  ASSUME IsModule(functions), NEW f, NEW u \in Users(f)
  PROVE  IsModule(Inlined(u))
<1> DEFINE g == u.in
           new == ArgsByParam(f, u.call.args)
           after == Inlined(u)
<1>1. /\ DOMAIN after = DOMAIN functions
      /\ \A h \in DOMAIN functions \ {g} : after[h] = functions[h]
      /\ DOMAIN after[g] = DOMAIN functions[g] /\ SameSignature(functions[g], after[g])
      /\ \A d \in after[g].calls :
           d \in functions[g].calls \/ \E c \in functions[f].calls : IsReplacedCall(d, c, new)
      /\ \A d \in after[g].accesses :
           d \in functions[g].accesses \/ \E a \in functions[f].accesses : IsReplacedAccess(d, a, new)
  BY InlinedIs
<1>2. /\ f \in DOMAIN functions /\ g \in DOMAIN functions /\ u.call \in functions[g].calls /\ u.call.callee = f
      /\ IsFunction(functions, functions[f]) /\ IsFunction(functions, functions[g])
  BY UserFacts
<1>3. Fits(functions[f], new, functions[g])
  BY GivenFits
<1>4. CalledBy(after[g]) \subseteq CalledBy(functions[g]) \cup CalledBy(functions[f])
  BY InlinedCalls
<1> HIDE DEF new, after
<1>5. ASSUME NEW d \in after[g].calls PROVE IsCallIn(functions, functions[g], d)
  <2>1. CASE d \in functions[g].calls
    BY <1>2, <2>1 DEF IsFunction
  <2>2. CASE \E c \in functions[f].calls : IsReplacedCall(d, c, new)
    <3>1. PICK c \in functions[f].calls : IsReplacedCall(d, c, new)
      BY <2>2
    <3>2. IsCallIn(functions, functions[f], c)
      BY <1>2 DEF IsFunction
    <3> QED
      BY <1>3, <3>1, <3>2, CallFits
  <2> QED
    BY <1>1, <2>1, <2>2
<1>6. ASSUME NEW d \in after[g].accesses PROVE IsAccessIn(functions[g], d)
  <2>1. CASE d \in functions[g].accesses
    BY <1>2, <2>1 DEF IsFunction
  <2>2. CASE \E a \in functions[f].accesses : IsReplacedAccess(d, a, new)
    <3>1. PICK a \in functions[f].accesses : IsReplacedAccess(d, a, new)
      BY <2>2
    <3>2. IsAccessIn(functions[f], a)
      BY <1>2 DEF IsFunction
    <3> QED
      BY <1>3, <3>1, <3>2, AccessFits
  <2> QED
    BY <1>1, <2>1, <2>2
<1>7. ASSUME NEW d \in after[g].calls PROVE IsCallIn(after, functions[g], d)
  <2>1. d.callee \in DOMAIN functions
    BY <1>5 DEF IsCallIn
  <2>2. after[d.callee].params = functions[d.callee].params /\ after[d.callee].private = functions[d.callee].private
    BY <1>1, <2>1 DEF SameSignature
  <2> QED
    BY <1>1, <1>5, <2>1, <2>2, SameCallee
<1>8. \A h \in DOMAIN functions : IsFunction(after, after[h])
  <2>1. \A h \in DOMAIN functions : IsFunction(functions, functions[h])
    BY DEF IsModule
  <2> QED
    BY <1>1, <1>2, <1>6, <1>7, <2>1, OneChanges
<1>9. IsNotRecursive(after)
  <2>1. IsNotRecursive(functions)
    BY DEF IsModule
  <2>2. f \in CalledBy(functions[g]) \cap DOMAIN functions
    BY <1>2 DEF CalledBy
  <2>3. \A h \in DOMAIN functions \ {g} : CalledBy(after[h]) \subseteq CalledBy(functions[h])
    BY <1>1
  <2> QED
    BY <1>1, <1>2, <1>4, <2>1, <2>2, <2>3, StillNotRecursive
<1> QED
  BY <1>1, <1>8, <1>9 DEF IsModule, after

(* What earlier passes established stays: the callee does nothing that is forbidden,
   as it is called, and what it did with its private pointers its caller may do. *)
LEMMA InlinedForbidden ==
  ASSUME IsModule(functions), NEW f \in HelpersOf(functions), NEW u \in Users(f),
         NEW what, NoneIsCalled(functions, what)
  PROVE  NoneIsCalled(Inlined(u), what)
<1> DEFINE g == u.in
           new == ArgsByParam(f, u.call.args)
           after == Inlined(u)
<1>1. /\ DOMAIN after = DOMAIN functions
      /\ \A h \in DOMAIN functions \ {g} : after[h] = functions[h]
      /\ SameSignature(functions[g], after[g])
      /\ \A d \in after[g].accesses :
           d \in functions[g].accesses \/ \E a \in functions[f].accesses : IsReplacedAccess(d, a, new)
  BY InlinedIs
<1>2. /\ f \in CalledIn(functions) /\ IsFunction(functions, functions[f])
  BY UserFacts
<1>3. Fits(functions[f], new, functions[g])
  BY GivenFits
<1>4. CalledIn(after) \subseteq CalledIn(functions)
  BY InlinedCalls
<1> HIDE DEF new, after
<1>5. ASSUME NEW d \in after[g].accesses, Forbidden(d, what) PROVE Does(functions[g], what)
  <2>1. SUFFICES ASSUME d \notin functions[g].accesses PROVE FALSE
    BY <1>5 DEF Does
  <2>2. PICK a \in functions[f].accesses : IsReplacedAccess(d, a, new)
    BY <1>1, <2>1
  <2>3. IsAccessIn(functions[f], a)
    BY <1>2 DEF IsFunction
  <2>4. /\ DOMAIN d.operands = DOMAIN a.operands
        /\ \A i \in DOMAIN d.operands : d.operands[i] = ReplaceIn(a.operands[i], new)
    BY <1>3, <2>2, <2>3, AccessFits
  <2>5. \A q \in DOMAIN new : IsPointer(new[q])
    BY <1>3 DEF Fits, IsPointerIn
  <2>6. Forbidden(a, what)
    BY <1>5, <2>2, <2>3, <2>4, <2>5, ForbiddenFits
  <2> QED
    BY <1>2, <2>6 DEF Does, NoneIsCalled
<1> SUFFICES ASSUME NEW h \in HelpersOf(after), Does(after[h], what) PROVE h \notin CalledIn(after)
  BY DEF NoneIsCalled, after
<1>6. h \in HelpersOf(functions)
  BY <1>1 DEF HelpersOf, SameSignature
<1>7. Does(functions[h], what)
  <2>1. CASE h = g
    BY <1>5, <2>1 DEF Does
  <2>2. CASE h # g
    BY <1>1, <1>6, <2>2 DEF HelpersOf
  <2> QED
    BY <2>1, <2>2
<1> QED
  BY <1>4, <1>6, <1>7 DEF NoneIsCalled

LEMMA InlinedPrivate ==
  ASSUME IsModule(functions), NEW f, NEW u \in Users(f), PrivateCallsAreLegal(functions)
  PROVE  PrivateCallsAreLegal(Inlined(u))
<1> DEFINE g == u.in
           new == ArgsByParam(f, u.call.args)
           after == Inlined(u)
<1>1. /\ DOMAIN after = DOMAIN functions
      /\ \A h \in DOMAIN functions \ {g} : after[h] = functions[h]
      /\ SameSignature(functions[g], after[g])
      /\ \A d \in after[g].calls :
           d \in functions[g].calls \/ \E c \in functions[f].calls : IsReplacedCall(d, c, new)
      /\ \A d \in after[g].accesses :
           d \in functions[g].accesses \/ \E a \in functions[f].accesses : IsReplacedAccess(d, a, new)
  BY InlinedIs
<1>2. /\ g \in DOMAIN functions /\ u.call \in functions[g].calls /\ u.call.callee = f
      /\ f \in CalledIn(functions) /\ f \in DOMAIN functions
      /\ IsFunction(functions, functions[f]) /\ IsFunction(functions, functions[g])
  BY UserFacts
<1>3. Fits(functions[f], new, functions[g]) /\ FitsPrivate(functions[f], new)
  <2>1. PassesMemory(functions[f], u.call)
    BY <1>2 DEF PrivateCallsAreLegal
  <2> QED
    BY <2>1, GivenFits
<1>4. CalledIn(after) \subseteq CalledIn(functions)
  BY InlinedCalls
<1> HIDE DEF new, after
<1>5. ASSUME NEW d, NEW callee, callee = d.callee, callee \in DOMAIN functions, PassesMemory(functions[callee], d)
      PROVE  PassesMemory(after[callee], d)
  <2>1. after[callee].params = functions[callee].params /\ after[callee].private = functions[callee].private
    BY <1>1, <1>5 DEF SameSignature
  <2> QED
    BY <1>5, <2>1 DEF PassesMemory
<1>6. ASSUME NEW h \in DOMAIN functions, NEW c \in functions[h].calls
      PROVE  PassesMemory(functions[c.callee], c) /\ c.callee \in DOMAIN functions /\ IsCallIn(functions, functions[h], c)
  BY <1>6 DEF PrivateCallsAreLegal, IsModule, IsFunction, IsCallIn
<1>7. ASSUME NEW h \in DOMAIN functions, NEW d \in after[h].calls PROVE PassesMemory(after[d.callee], d)
  <2>1. CASE d \in functions[h].calls
    BY <1>5, <1>6, <2>1
  <2>2. CASE d \notin functions[h].calls
    <3>1. PICK c \in functions[f].calls : h = g /\ IsReplacedCall(d, c, new)
      BY <1>1, <1>7, <2>2
    <3>2. PassesMemory(functions[c.callee], c) /\ IsCallIn(functions, functions[f], c) /\ c.callee \in DOMAIN functions
      BY <1>2, <1>6
    <3>3. PassesMemory(functions[d.callee], d)
      BY <1>3, <3>1, <3>2, MemoryFits
    <3>4. d.callee = c.callee
      BY <3>1 DEF IsReplacedCall
    <3> QED
      BY <1>5, <3>2, <3>3, <3>4
  <2> QED
    BY <2>1, <2>2
<1>8. ASSUME NEW h \in CalledIn(after), NEW p \in after[h].private PROVE IsUsedInPlace(after[h], p)
  <2>1. PrivateIsInPlace(functions[h]) /\ h \in CalledIn(functions)
    BY <1>4 DEF PrivateCallsAreLegal
  <2>2. h \in DOMAIN functions
    BY <1>6, <2>1 DEF CalledIn, CalledBy
  <2>3. CASE h # g
    BY <1>1, <2>1, <2>2, <2>3 DEF PrivateIsInPlace
  <2>4. CASE h = g
    <3>1. p \in functions[g].private
      BY <1>1, <2>4 DEF SameSignature
    <3>2. PrivateIsInPlace(functions[f])
      BY <1>2 DEF PrivateCallsAreLegal
    <3>3. ASSUME NEW d \in after[g].calls PROVE CallInPlace(d, p)
      <4>1. CASE d \in functions[g].calls
        BY <2>1, <2>4, <3>1, <4>1 DEF PrivateIsInPlace, IsUsedInPlace
      <4>2. CASE \E c \in functions[f].calls : IsReplacedCall(d, c, new)
        <5>1. PICK c \in functions[f].calls : IsReplacedCall(d, c, new)
          BY <4>2
        <5>2. IsCallIn(functions, functions[f], c) /\ \A q \in functions[f].private : CallInPlace(c, q)
          BY <1>2, <1>6, <3>2 DEF PrivateIsInPlace, IsUsedInPlace
        <5> QED
          BY <1>3, <3>1, <5>1, <5>2, CallInPlaceFits
      <4> QED
        BY <1>1, <4>1, <4>2
    <3>4. ASSUME NEW d \in after[g].accesses PROVE AccessInPlace(d, p)
      <4>1. CASE d \in functions[g].accesses
        BY <2>1, <2>4, <3>1, <4>1 DEF PrivateIsInPlace, IsUsedInPlace
      <4>2. CASE \E a \in functions[f].accesses : IsReplacedAccess(d, a, new)
        <5>1. PICK a \in functions[f].accesses : IsReplacedAccess(d, a, new)
          BY <4>2
        <5>2. IsAccessIn(functions[f], a) /\ \A q \in functions[f].private : AccessInPlace(a, q)
          BY <1>2, <3>2 DEF PrivateIsInPlace, IsUsedInPlace, IsFunction
        <5> QED
          BY <1>3, <3>1, <5>1, <5>2, AccessInPlaceFits
      <4> QED
        BY <1>1, <4>1, <4>2
    <3> QED
      BY <2>4, <3>3, <3>4 DEF IsUsedInPlace
  <2> QED
    BY <2>3, <2>4
<1> QED
  BY <1>1, <1>7, <1>8 DEF PrivateCallsAreLegal, PrivateIsInPlace, after

------------------------------------------------------------------------------
(* Functions are erased that none of those left calls. *)
LEMMA ErasedOK ==
  ASSUME NEW fs, IsModule(fs), NEW L \in SUBSET DOMAIN fs, CallsStayIn(fs, L),
         NEW after, after = [f \in L |-> fs[f]]
  PROVE  /\ IsModule(after)
         /\ CalledIn(after) \subseteq CalledIn(fs)
         /\ \A what : NoneIsCalled(fs, what) => NoneIsCalled(after, what)
         /\ PrivateCallsAreLegal(fs) => PrivateCallsAreLegal(after)
<1>1. DOMAIN after = L /\ \A h \in L : after[h] = fs[h]
  OBVIOUS
<1>2. \A h \in L : \A c \in fs[h].calls : c.callee \in L
  BY DEF CallsStayIn
<1>3. IsModule(after)
  <2>1. ASSUME NEW h \in L PROVE IsFunction(after, after[h])
    <3>1. IsFunction(fs, fs[h]) /\ after[h] = fs[h]
      BY <1>1 DEF IsModule
    <3>2. \A c \in fs[h].calls : IsCallIn(after, fs[h], c)
      BY <1>1, <1>2, <3>1, SameCallee DEF IsFunction
    <3> QED
      BY <3>1, <3>2 DEF IsFunction
  <2>2. IsNotRecursive(after)
    BY <1>1, FewerCallsNotRecursive DEF IsModule
  <2>3. IsFiniteSet(L) /\ L \subseteq Nat \ {0}
    BY FS_Subset DEF IsModule
  <2> QED
    BY <1>1, <2>1, <2>2, <2>3 DEF IsModule
<1>4. CalledIn(after) \subseteq CalledIn(fs)
  BY <1>1 DEF CalledIn
<1>5. ASSUME NEW what, NoneIsCalled(fs, what) PROVE NoneIsCalled(after, what)
  BY <1>1, <1>4, <1>5 DEF NoneIsCalled, HelpersOf
<1>6. ASSUME PrivateCallsAreLegal(fs) PROVE PrivateCallsAreLegal(after)
  <2>1. \A h \in L : \A c \in fs[h].calls : PassesMemory(after[c.callee], c)
    BY <1>1, <1>2, <1>6 DEF PrivateCallsAreLegal
  <2>2. CalledIn(after) \subseteq L
    BY <1>1, <1>2 DEF CalledIn, CalledBy
  <2>3. \A h \in CalledIn(after) : PrivateIsInPlace(after[h])
    BY <1>1, <1>4, <1>6, <2>2 DEF PrivateCallsAreLegal
  <2> QED
    BY <1>1, <2>1, <2>3 DEF PrivateCallsAreLegal
<1> QED
  BY <1>3, <1>4, <1>5, <1>6

(* What the kernels reach calls nothing else. *)
LEMMA DeadFacts ==
  ASSUME NEW fs, IsModule(fs)
  PROVE  \E L \in SUBSET DOMAIN fs : CallsStayIn(fs, L) /\ EraseDead(fs) = [f \in L |-> fs[f]]
<1> DEFINE L == {f \in DOMAIN fs : \A reached \in SUBSET DOMAIN fs :
                   KernelFunctions \subseteq reached /\ CallsStayIn(fs, reached) => f \in reached}
<1>1. ASSUME NEW f \in L, NEW c \in fs[f].calls PROVE c.callee \in L
  <2>1. c.callee \in DOMAIN fs
    BY DEF IsModule, IsFunction, IsCallIn
  <2>2. ASSUME NEW reached \in SUBSET DOMAIN fs, KernelFunctions \subseteq reached, CallsStayIn(fs, reached)
        PROVE  c.callee \in reached
    BY <2>2 DEF CallsStayIn
  <2> QED
    BY <2>1, <2>2
<1>2. CallsStayIn(fs, L)
  BY <1>1 DEF CallsStayIn
<1> QED
  BY <1>2 DEF EraseDead

LEMMA UncalledFacts ==
  ASSUME IsModule(functions)
  PROVE  CallsStayIn(functions, {g \in DOMAIN functions : functions[g].kernel \/ Users(g) # {}})
<1> SUFFICES ASSUME NEW f \in DOMAIN functions, NEW c \in functions[f].calls
             PROVE  c.callee \in DOMAIN functions /\ Users(c.callee) # {}
  BY DEF CallsStayIn
<1>1. c.callee \in DOMAIN functions
  BY DEF IsModule, IsFunction, IsCallIn
<1> QED
  BY <1>1, UserIs

------------------------------------------------------------------------------
(* The indices of a pointer are finitely many. *)
LEMMA ImageIsFinite ==
  ASSUME NEW S, IsFiniteSet(S), NEW f, f = [x \in S |-> f[x]]
  PROVE  IsFiniteSet({f[x] : x \in S})
<1> DEFINE T == {f[x] : x \in S}
<1>1. f \in Surjection(S, T)
  BY DEF Surjection
<1> QED
  BY <1>1, FS_Surjection

Places(v) == UNION {{<<k, j>> : j \in DOMAIN v.geps[k]} : k \in DOMAIN v.geps}

LEMMA PlacesAreFinite ==
  ASSUME NEW v, IsPointer(v)
  PROVE  IsFiniteSet(Places(v))
<1> DEFINE of == [k \in DOMAIN v.geps |-> {<<k, j>> : j \in DOMAIN v.geps[k]}]
<1>1. IsFiniteSet(DOMAIN v.geps)
  <2>1. Len(v.geps) \in Nat /\ DOMAIN v.geps = 1 .. Len(v.geps)
    BY IsSeqFacts DEF IsPointer
  <2> QED
    BY <2>1, FS_Interval
<1>2. ASSUME NEW k \in DOMAIN v.geps PROVE IsFiniteSet(of[k])
  <2> DEFINE at == [j \in DOMAIN v.geps[k] |-> <<k, j>>]
  <2>1. Len(v.geps[k]) \in Nat /\ DOMAIN v.geps[k] = 1 .. Len(v.geps[k])
    BY IsSeqFacts DEF IsPointer
  <2>2. IsFiniteSet(DOMAIN v.geps[k])
    BY <2>1, FS_Interval
  <2>3. of[k] = {at[j] : j \in DOMAIN v.geps[k]} /\ at = [j \in DOMAIN v.geps[k] |-> at[j]]
    OBVIOUS
  <2> HIDE DEF at, of
  <2> QED
    BY <2>2, <2>3, ImageIsFinite
<1>3. Places(v) = UNION {of[k] : k \in DOMAIN v.geps} /\ of = [k \in DOMAIN v.geps |-> of[k]]
  BY DEF Places
<1> HIDE DEF of
<1>4. IsFiniteSet({of[k] : k \in DOMAIN v.geps})
  BY <1>1, <1>3, ImageIsFinite
<1> QED
  BY <1>2, <1>3, <1>4, FS_UNION

LEMMA ZeroesAreCounted ==
  ASSUME NEW v, IsPointer(v)
  PROVE  NumGepZeroes(v) \in Nat
<1> DEFINE S == UNION {{<<k, j>> : j \in {o \in DOMAIN v.geps[k] : k = 1 \/ o > 1}} : k \in DOMAIN v.geps}
<1>1. S \in SUBSET Places(v)
  BY DEF Places
<1>2. NumGepZeroes(v) = Cardinality(S)
  BY DEF NumGepZeroes
<1> HIDE DEF S
<1> QED
  BY <1>1, <1>2, PlacesAreFinite, FS_Subset, FS_CardinalityType

------------------------------------------------------------------------------
(* DirectResourceAccessPass: what a parameter becomes is a resource. *)
DirectParams(f) == {functions[f].params[i] : i \in {j \in DOMAIN functions[f].params : CanRewrite(f, j)}}

LEMMA DirectFacts ==
  ASSUME IsModule(functions), NEW f, NEW i \in DOMAIN functions[f].params, CanRewrite(f, i)
  PROVE  /\ \E u \in Users(f) : IsResource(u.call.args[i])
         /\ (CHOOSE c \in CommonParamInfo(f, i) : TRUE).zeroes \in Nat
<1> DEFINE given == {u.call.args[i] : u \in Users(f)}
           info == CHOOSE c \in CommonParamInfo(f, i) : TRUE
<1>1. CommonParamInfo(f, i) # {}
  BY FS_EmptySet DEF CanRewrite
<1>2. /\ CommonParamInfo(f, i) = {ParamInfo(v) : v \in given}
      /\ \A v \in given : IsResource(v)
  BY <1>1 DEF CommonParamInfo
<1>3. PICK v \in given : info = ParamInfo(v)
  BY <1>1, <1>2
<1>4. PICK u \in Users(f) : v = u.call.args[i]
  BY <1>3
<1>5. IsPointer(v)
  <2>1. /\ IsCallIn(functions, functions[u.in], u.call) /\ u.call.callee = f
        /\ IsFunction(functions, functions[f])
    BY UserFacts
  <2>2. i \in DOMAIN u.call.args
    BY <2>1, GivenFacts
  <2> QED
    BY <1>4, <2>1, <2>2 DEF IsCallIn, IsPointerIn
<1>6. info.zeroes \in Nat
  <2> HIDE DEF info
  <2>1. info.zeroes = NumGepZeroes(v)
    BY <1>3 DEF ParamInfo
  <2> QED
    BY <1>5, <2>1, ZeroesAreCounted
<1> QED
  BY <1>2, <1>4, <1>6

LEMMA DirectAccessFacts ==
  ASSUME NEW info, info.zeroes \in Nat
  PROVE  /\ IsPointer(DirectAccess(info)) /\ DirectAccess(info).kind = "resource"
         /\ IndexUses(DirectAccess(info)) = {} /\ BaseUse(DirectAccess(info)) = {}
<1> DEFINE v == DirectAccess(info)
           zeroes == [k \in 1 .. info.zeroes |-> Zero]
<1>1. /\ DOMAIN v = {"kind", "id", "geps"} /\ v.kind = "resource"
      /\ v.geps = IF info.zeroes = 0 THEN <<>> ELSE <<zeroes>>
  BY DEF DirectAccess
<1>2. IsSeq(zeroes) /\ Len(zeroes) = info.zeroes
  <2>1. zeroes = [k \in 1 .. info.zeroes |-> zeroes[k]]
    OBVIOUS
  <2> HIDE DEF zeroes
  <2> QED
    BY <2>1, MakeSeq
<1>3. \A j \in DOMAIN zeroes : zeroes[j].kind # "param"
  BY DEF Zero, Const
<1> HIDE DEF v, zeroes
<1>4. CASE info.zeroes = 0
  <2>1. v.geps = <<>>
    BY <1>1, <1>4
  <2>2. IsSeq(v.geps) /\ DOMAIN v.geps = {}
    BY <2>1 DEF IsSeq
  <2> QED
    BY <1>1, <2>2 DEF IsPointer, IndexUses, BaseUse, v
<1>5. CASE info.zeroes # 0
  <2>1. v.geps = <<zeroes>>
    BY <1>1, <1>5
  <2>2. IsSeq(v.geps) /\ DOMAIN v.geps = {1} /\ v.geps[1] = zeroes
    BY <2>1 DEF IsSeq, Range
  <2>3. zeroes # <<>>
    BY <1>2, <1>5
  <2>4. IsPointer(v)
    BY <1>1, <1>2, <2>2, <2>3 DEF IsPointer
  <2>5. IndexUses(v) = {}
    BY <1>3, <2>2 DEF IndexUses
  <2> QED
    BY <1>1, <2>4, <2>5 DEF BaseUse, v
<1> QED
  BY <1>4, <1>5

LEMMA RewriteIs ==
  ASSUME IsModule(functions), NEW f \in DOMAIN functions, RewriteResourceAccesses(f)
  PROVE  \E new :
           /\ DOMAIN new = DirectParams(f)
           /\ \A q \in DOMAIN new : /\ IsPointer(new[q]) /\ new[q].kind = "resource"
                                    /\ IndexUses(new[q]) = {} /\ BaseUse(new[q]) = {}
           /\ functions' = [functions EXCEPT ![f] = ReplaceAllUses(@, new)]
<1> DEFINE direct == {i \in DOMAIN functions[f].params : CanRewrite(f, i)}
           info(i) == CHOOSE c \in CommonParamInfo(f, i) : TRUE
           index(p) == CHOOSE i \in direct : functions[f].params[i] = p
           new == [p \in {functions[f].params[i] : i \in direct} |-> DirectAccess(info(index(p)))]
<1>1. functions' = [functions EXCEPT ![f] = ReplaceAllUses(@, new)]
  BY DEF RewriteResourceAccesses
<1>2. DOMAIN new = DirectParams(f)
  BY DEF DirectParams
<1>3. ASSUME NEW q \in DOMAIN new PROVE info(index(q)).zeroes \in Nat /\ new[q] = DirectAccess(info(index(q)))
  <2>1. index(q) \in direct
    OBVIOUS
  <2> DEFINE i == index(q)
  <2>2. i \in DOMAIN functions[f].params /\ CanRewrite(f, i)
    BY <2>1
  <2>3. new[q] = DirectAccess(info(i))
    OBVIOUS
  <2> HIDE DEF i
  <2>4. info(i).zeroes \in Nat
    BY <2>2, DirectFacts
  <2> QED
    BY <2>3, <2>4 DEF i
<1>4. \A q \in DOMAIN new : /\ IsPointer(new[q]) /\ new[q].kind = "resource"
                            /\ IndexUses(new[q]) = {} /\ BaseUse(new[q]) = {}
  <2> SUFFICES ASSUME NEW q \in DOMAIN new
               PROVE  /\ IsPointer(new[q]) /\ new[q].kind = "resource"
                      /\ IndexUses(new[q]) = {} /\ BaseUse(new[q]) = {}
    OBVIOUS
  <2> DEFINE c == info(index(q))
  <2>1. c.zeroes \in Nat /\ new[q] = DirectAccess(c)
    BY <1>3
  <2> HIDE DEF c, new
  <2> QED
    BY <2>1, DirectAccessFacts
<1> QED
  BY <1>1, <1>2, <1>4

LEMMA DirectFits ==
  ASSUME IsModule(functions), NEW f \in DOMAIN functions,
         NEW new, DOMAIN new = DirectParams(f),
         \A q \in DOMAIN new : /\ IsPointer(new[q]) /\ new[q].kind = "resource"
                               /\ IndexUses(new[q]) = {} /\ BaseUse(new[q]) = {}
  PROVE  /\ Fits(functions[f], new, functions[f])
         /\ PrivateCallsAreLegal(functions) => FitsPrivate(functions[f], new)
<1>1. \A q \in DOMAIN new : IsPointerIn(functions[f], new[q])
  BY IsPointerInAre
<1>2. Fits(functions[f], new, functions[f])
  BY <1>1 DEF Fits
<1>3. ASSUME PrivateCallsAreLegal(functions), NEW q \in functions[f].private \cap DOMAIN new PROVE FALSE
  <2>1. PICK i \in DOMAIN functions[f].params : functions[f].params[i] = q /\ CanRewrite(f, i)
    BY <1>3 DEF DirectParams
  <2>2. PICK u \in Users(f) : IsResource(u.call.args[i])
    BY <2>1, DirectFacts
  <2>3. /\ u.in \in DOMAIN functions /\ u.call \in functions[u.in].calls /\ u.call.callee = f
        /\ IsFunction(functions, functions[f])
        /\ IsCallIn(functions, functions[u.in], u.call)
    BY UserFacts
  <2>4. i \in DOMAIN u.call.args
    BY <2>3, GivenFacts
  <2>5. PassesMemory(functions[f], u.call)
    BY <1>3, <2>3 DEF PrivateCallsAreLegal
  <2>6. IsMemoryObject(u.call.args[i])
    BY <1>3, <2>1, <2>4, <2>5 DEF PassesMemory
  <2> QED
    BY <2>2, <2>6 DEF IsMemoryObject, IsResource
<1>4. PrivateCallsAreLegal(functions) => FitsPrivate(functions[f], new)
  BY <1>3 DEF FitsPrivate
<1> QED
  BY <1>2, <1>4

(* Parameters of one function are replaced: nothing else changes. *)
LEMMA ReplacedOK ==
  ASSUME NEW fs, IsModule(fs), NEW f \in DOMAIN fs, NEW new, Fits(fs[f], new, fs[f]),
         NEW after, DOMAIN after = DOMAIN fs, after[f] = ReplaceAllUses(fs[f], new),
         \A h \in DOMAIN fs \ {f} : after[h] = fs[h]
  PROVE  /\ \A h \in DOMAIN fs : SameSignature(fs[h], after[h]) /\ CalledBy(after[h]) = CalledBy(fs[h])
         /\ CalledIn(after) = CalledIn(fs)
         /\ IsModule(after)
         /\ \A what : NoneIsCalled(fs, what) => NoneIsCalled(after, what)
         /\ PrivateCallsAreLegal(fs) /\ FitsPrivate(fs[f], new) => PrivateCallsAreLegal(after)
<1> DEFINE body == ReplaceAllUses(fs[f], new)
<1>1. DOMAIN after = DOMAIN fs /\ after[f] = body /\ \A h \in DOMAIN fs \ {f} : after[h] = fs[h]
  OBVIOUS
<1>2. \A h \in DOMAIN fs : IsFunction(fs, fs[h])
  BY DEF IsModule
<1>3. /\ DOMAIN body = DOMAIN fs[f] /\ SameSignature(fs[f], body)
      /\ \A d \in body.calls : \E c \in fs[f].calls : IsReplacedCall(d, c, new)
      /\ \A c \in fs[f].calls : \E d \in body.calls : IsReplacedCall(d, c, new)
      /\ \A d \in body.accesses : \E a \in fs[f].accesses : IsReplacedAccess(d, a, new)
  BY <1>2, ReplaceAllUsesIs DEF SameSignature
<1> HIDE DEF body
<1>4. \A h \in DOMAIN fs : SameSignature(fs[h], after[h])
  BY <1>1, <1>3 DEF SameSignature
<1>5. \A h \in DOMAIN fs : after[h].params = fs[h].params /\ after[h].private = fs[h].private /\ after[h].kernel = fs[h].kernel
  BY <1>4 DEF SameSignature
<1>6. CalledBy(body) = CalledBy(fs[f])
  <2>1. \A d \in body.calls : d.callee \in CalledBy(fs[f])
    BY <1>3 DEF CalledBy, IsReplacedCall
  <2>2. ASSUME NEW c \in fs[f].calls PROVE c.callee \in CalledBy(body)
    <3>1. PICK d \in body.calls : IsReplacedCall(d, c, new)
      BY <1>3
    <3> QED
      BY <3>1 DEF CalledBy, IsReplacedCall
  <2> QED
    BY <2>1, <2>2 DEF CalledBy
<1>7. \A h \in DOMAIN fs : CalledBy(after[h]) = CalledBy(fs[h])
  BY <1>1, <1>6
<1>8. CalledIn(after) = CalledIn(fs)
  BY <1>1, <1>7 DEF CalledIn
<1>9. ASSUME NEW d \in body.calls, NEW c \in fs[f].calls, IsReplacedCall(d, c, new)
      PROVE  /\ IsCallIn(fs, fs[f], c) /\ IsCallIn(fs, fs[f], d) /\ d.callee = c.callee
             /\ IsCallIn(after, fs[f], d)
  <2>1. IsCallIn(fs, fs[f], c)
    BY <1>2 DEF IsFunction
  <2>2. IsCallIn(fs, fs[f], d)
    BY <1>9, <2>1, CallFits
  <2>3. d.callee \in DOMAIN fs
    BY <2>2 DEF IsCallIn
  <2>4. IsCallIn(after, fs[f], d)
    BY <1>1, <1>5, <2>2, <2>3, SameCallee
  <2> QED
    BY <1>9, <2>1, <2>2, <2>4 DEF IsReplacedCall
<1>10. ASSUME NEW d \in body.accesses, NEW a \in fs[f].accesses, IsReplacedAccess(d, a, new)
       PROVE  IsAccessIn(fs[f], a) /\ IsAccessIn(fs[f], d)
  <2>1. IsAccessIn(fs[f], a)
    BY <1>2 DEF IsFunction
  <2> QED
    BY <1>10, <2>1, AccessFits
<1>11. IsModule(after)
  <2>1. \A d \in after[f].calls : IsCallIn(after, fs[f], d)
    BY <1>1, <1>3, <1>9
  <2>2. \A a \in after[f].accesses : IsAccessIn(fs[f], a)
    BY <1>1, <1>3, <1>10
  <2>3. \A h \in DOMAIN fs : IsFunction(after, after[h])
    BY <1>1, <1>2, <1>3, <2>1, <2>2, OneChanges
  <2>4. IsNotRecursive(after)
    BY <1>1, <1>7, FewerCallsNotRecursive DEF IsModule
  <2> QED
    BY <1>1, <2>3, <2>4 DEF IsModule
<1>12. ASSUME NEW what, NoneIsCalled(fs, what) PROVE NoneIsCalled(after, what)
  <2>1. ASSUME NEW d \in body.accesses, Forbidden(d, what) PROVE Does(fs[f], what)
    <3>1. PICK a \in fs[f].accesses : IsReplacedAccess(d, a, new)
      BY <1>3
    <3>2. IsAccessIn(fs[f], a)
      BY <1>2 DEF IsFunction
    <3>3. /\ DOMAIN d.operands = DOMAIN a.operands
          /\ \A i \in DOMAIN d.operands : d.operands[i] = ReplaceIn(a.operands[i], new)
      BY <3>1, <3>2, AccessFits
    <3>4. \A q \in DOMAIN new : IsPointer(new[q])
      BY DEF Fits, IsPointerIn
    <3>5. Forbidden(a, what)
      BY <2>1, <3>1, <3>2, <3>3, <3>4, ForbiddenFits
    <3> QED
      BY <3>5 DEF Does
  <2>2. \A h \in DOMAIN fs : Does(after[h], what) => Does(fs[h], what)
    BY <1>1, <2>1 DEF Does
  <2> QED
    BY <1>1, <1>5, <1>8, <1>12, <2>2 DEF NoneIsCalled, HelpersOf
<1>13. ASSUME PrivateCallsAreLegal(fs), FitsPrivate(fs[f], new) PROVE PrivateCallsAreLegal(after)
  <2>1. ASSUME NEW h \in DOMAIN fs, NEW d \in after[h].calls PROVE PassesMemory(after[d.callee], d)
    <3>1. PassesMemory(fs[d.callee], d) /\ d.callee \in DOMAIN fs
      <4>1. CASE h = f
        <5>1. PICK c \in fs[f].calls : IsReplacedCall(d, c, new)
          BY <1>1, <1>3, <4>1
        <5>2. IsCallIn(fs, fs[f], c) /\ PassesMemory(fs[c.callee], c) /\ IsCallIn(fs, fs[f], d)
          BY <1>1, <1>9, <1>13, <4>1, <5>1 DEF PrivateCallsAreLegal
        <5> QED
          BY <1>13, <5>1, <5>2, MemoryFits DEF IsCallIn
      <4>2. CASE h # f
        BY <1>1, <1>2, <1>13, <4>2 DEF PrivateCallsAreLegal, IsFunction, IsCallIn
      <4> QED
        BY <4>1, <4>2
    <3> QED
      BY <1>5, <3>1 DEF PassesMemory
  <2>2. ASSUME NEW h \in CalledIn(after) PROVE PrivateIsInPlace(after[h])
    <3>1. h \in CalledIn(fs) /\ PrivateIsInPlace(fs[h])
      BY <1>8, <1>13 DEF PrivateCallsAreLegal
    <3>2. h \in DOMAIN fs
      BY <1>2, <3>1 DEF CalledIn, CalledBy, IsFunction, IsCallIn
    <3>3. CASE h # f
      BY <1>1, <3>1, <3>2, <3>3
    <3>4. CASE h = f
      <4> SUFFICES ASSUME NEW p \in fs[f].private PROVE IsUsedInPlace(body, p)
        BY <1>1, <1>5, <3>4 DEF PrivateIsInPlace
      <4>1. ASSUME NEW d \in body.calls PROVE CallInPlace(d, p)
        <5>1. PICK c \in fs[f].calls : IsReplacedCall(d, c, new)
          BY <1>3
        <5>2. IsCallIn(fs, fs[f], c) /\ \A q \in fs[f].private : CallInPlace(c, q)
          BY <1>9, <3>1, <3>4, <5>1 DEF PrivateIsInPlace, IsUsedInPlace
        <5> QED
          BY <1>13, <5>1, <5>2, CallInPlaceFits
      <4>2. ASSUME NEW d \in body.accesses PROVE AccessInPlace(d, p)
        <5>1. PICK a \in fs[f].accesses : IsReplacedAccess(d, a, new)
          BY <1>3
        <5>2. IsAccessIn(fs[f], a) /\ \A q \in fs[f].private : AccessInPlace(a, q)
          BY <1>10, <3>1, <3>4, <5>1 DEF PrivateIsInPlace, IsUsedInPlace
        <5> QED
          BY <1>13, <5>1, <5>2, AccessInPlaceFits
      <4> QED
        BY <4>1, <4>2 DEF IsUsedInPlace
    <3> QED
      BY <3>3, <3>4
  <2> QED
    BY <1>1, <2>1, <2>2 DEF PrivateCallsAreLegal
<1> QED
  BY <1>1, <1>4, <1>7, <1>8, <1>11, <1>12, <1>13

------------------------------------------------------------------------------
(* RemoveUnusedArguments: parameters go away, and with them what calls give for
   them. Those with a use are kept. *)
KeepsUsed(body, keep) ==
  /\ DOMAIN keep = DOMAIN body.params
  /\ \A i \in DOMAIN keep : keep[i] \in BOOLEAN /\ (body.params[i] \in UsedIn(body) => keep[i])

NoneTwice(s) == \A i, j \in DOMAIN s : s[i] = s[j] => i = j

LEMMA KeptParams ==
  ASSUME NEW fs, NEW body, IsFunction(fs, body), NEW keep, KeepsUsed(body, keep),
         NEW params, params = Kept(body.params, keep)
  PROVE  /\ IsSeq(params) /\ Len(params) = KeptCount(keep) /\ Range(params) \subseteq Range(body.params)
         /\ NoneTwice(params)
         /\ UsedIn(body) \cap Range(body.params) \subseteq Range(params)
<1> DEFINE m == KeptCount(keep)
           at == InOrder(KeptAt(keep))
<1>1. Len(body.params) \in Nat /\ DOMAIN body.params = 1 .. Len(body.params)
  BY IsSeqFacts DEF IsFunction
<1>2. DOMAIN keep = DOMAIN body.params
  BY DEF KeepsUsed
<1>3. /\ m \in Nat /\ at \in [1..m -> KeptAt(keep)]
      /\ params = [k \in 1..m |-> body.params[at[k]]]
      /\ \A i, j \in 1..m : at[i] = at[j] => i = j
      /\ \A x \in KeptAt(keep) : \E i \in 1..m : at[i] = x
  BY <1>1, <1>2, KeptFacts
<1> HIDE DEF m, at
<1>4. IsSeq(params) /\ Len(params) = m /\ DOMAIN params = 1..m
  <2>1. params = [k \in 1..m |-> params[k]]
    BY <1>3
  <2> QED
    BY <1>3, <2>1, MakeSeq
<1>5. \A k \in 1..m : at[k] \in DOMAIN body.params /\ params[k] = body.params[at[k]]
  BY <1>2, <1>3 DEF KeptAt
<1>6. Range(params) \subseteq Range(body.params)
  BY <1>4, <1>5 DEF Range
<1>7. NoneTwice(params)
  BY <1>3, <1>4, <1>5 DEF IsFunction, NoneTwice
<1>8. ASSUME NEW p \in UsedIn(body) \cap Range(body.params) PROVE p \in Range(params)
  <2>1. PICK i \in DOMAIN body.params : body.params[i] = p
    BY DEF Range
  <2>2. i \in KeptAt(keep)
    BY <1>2, <2>1 DEF KeepsUsed, KeptAt
  <2>3. PICK k \in 1..m : at[k] = i
    BY <1>3, <2>2
  <2> QED
    BY <1>4, <1>5, <2>1, <2>3 DEF Range
<1> QED
  BY <1>4, <1>6, <1>7, <1>8 DEF m

(* What a call still gives, it gave before, to the same parameter. *)
LEMMA KeptArgs ==
  ASSUME NEW fs, NEW body, IsFunction(fs, body), NEW keep, KeepsUsed(body, keep),
         NEW args, IsSeq(args), Len(args) = Len(body.params)
  PROVE  /\ IsSeq(Kept(args, keep)) /\ Len(Kept(args, keep)) = KeptCount(keep)
         /\ \A k \in DOMAIN Kept(args, keep) :
              \E i \in DOMAIN args : /\ Kept(args, keep)[k] = args[i]
                                     /\ Kept(body.params, keep)[k] = body.params[i]
<1> DEFINE m == KeptCount(keep)
           at == InOrder(KeptAt(keep))
           s == Kept(args, keep)
           params == Kept(body.params, keep)
<1>1. /\ Len(body.params) \in Nat /\ DOMAIN body.params = 1 .. Len(body.params)
      /\ DOMAIN args = DOMAIN body.params
  BY IsSeqFacts DEF IsFunction
<1>2. DOMAIN keep = DOMAIN body.params
  BY DEF KeepsUsed
<1>3. /\ m \in Nat /\ at \in [1..m -> KeptAt(keep)]
      /\ params = [k \in 1..m |-> body.params[at[k]]]
  <2>1. m \in Nat /\ at \in [1..m -> KeptAt(keep)]
    BY <1>1, <1>2, KeptFacts
  <2>2. params = [k \in 1..m |-> body.params[at[k]]]
    BY <1>1, <1>2, KeptFacts
  <2> QED
    BY <2>1, <2>2
<1>4. s = [k \in 1..m |-> args[at[k]]]
  BY <1>1, <1>2, KeptFacts
<1> HIDE DEF m, at, s, params
<1>5. IsSeq(s) /\ Len(s) = m /\ DOMAIN s = 1..m
  <2>1. s = [k \in 1..m |-> s[k]]
    BY <1>4
  <2> QED
    BY <1>3, <2>1, MakeSeq
<1>6. \A k \in 1..m : at[k] \in DOMAIN args /\ s[k] = args[at[k]] /\ params[k] = body.params[at[k]]
  BY <1>1, <1>2, <1>3, <1>4 DEF KeptAt
<1> QED
  BY <1>5, <1>6 DEF m, s, params

LEMMA RemovedIs ==
  ASSUME IsModule(functions), NEW f, f \in HelpersOf(functions), RemoveUnusedParameters(f)
  PROVE  LET kept == Kept(functions[f].params, candidates[f])
         IN  /\ DOMAIN functions' = DOMAIN functions
             /\ \A h \in DOMAIN functions :
                  /\ DOMAIN functions'[h] = DOMAIN functions[h]
                  /\ functions'[h].kernel = functions[h].kernel /\ functions'[h].accesses = functions[h].accesses
                  /\ h # f => /\ functions'[h].params = functions[h].params
                              /\ functions'[h].ubo = functions[h].ubo /\ functions'[h].private = functions[h].private
                  /\ \A d \in functions'[h].calls : \E c \in functions[h].calls :
                       /\ DOMAIN d = {"site", "callee", "args"} /\ d.callee = c.callee
                       /\ d.args = IF c.callee = f THEN Kept(c.args, candidates[f]) ELSE c.args
                  /\ CalledBy(functions'[h]) = CalledBy(functions[h])
             /\ functions'[f].params = kept
             /\ functions'[f].ubo = functions[f].ubo \cap Range(kept)
             /\ functions'[f].private = functions[f].private \cap Range(kept)
<1> DEFINE keep == candidates[f]
           kept == Kept(functions[f].params, keep)
           again(c) == IF c.callee = f THEN [c EXCEPT !.args = Kept(@, keep)] ELSE c
           body(g) == [functions[g] EXCEPT
                            !.params = IF g = f THEN kept ELSE functions[g].params,
                            !.ubo = IF g = f THEN functions[g].ubo \cap Range(kept) ELSE functions[g].ubo,
                            !.private = IF g = f THEN functions[g].private \cap Range(kept) ELSE functions[g].private,
                            !.calls = {again(c) : c \in functions[g].calls}]
<1>1. \A h \in DOMAIN functions : /\ IsFunction(functions, functions[h])
        /\ DOMAIN functions[h] = {"kernel", "noinline", "params", "ubo", "private", "calls", "accesses"}
        /\ \A c \in functions[h].calls : DOMAIN c = {"site", "callee", "args"}
  BY DEF IsModule, IsFunction, IsCallIn
<1>2. functions' = [g \in DOMAIN functions |-> body(g)]
  <2>1. \A g \in DOMAIN functions : g = f \/ g # f
    OBVIOUS
  <2> QED
    BY <1>1 DEF RemoveUnusedParameters
<1>3. f \in DOMAIN functions
  BY DEF HelpersOf
<1>4. ASSUME NEW h \in DOMAIN functions
      PROVE  /\ DOMAIN functions'[h] = DOMAIN functions[h]
             /\ functions'[h].kernel = functions[h].kernel /\ functions'[h].accesses = functions[h].accesses
             /\ functions'[h].params = IF h = f THEN kept ELSE functions[h].params
             /\ functions'[h].ubo = IF h = f THEN functions[h].ubo \cap Range(kept) ELSE functions[h].ubo
             /\ functions'[h].private = IF h = f THEN functions[h].private \cap Range(kept) ELSE functions[h].private
             /\ functions'[h].calls = {again(c) : c \in functions[h].calls}
  <2> HIDE DEF kept, again
  <2>1. functions'[h] = body(h)
    BY <1>2
  <2> QED
    BY <1>1, <2>1
<1>5. ASSUME NEW h \in DOMAIN functions, NEW c \in functions[h].calls
      PROVE  /\ DOMAIN again(c) = {"site", "callee", "args"} /\ again(c).callee = c.callee
             /\ again(c).args = IF c.callee = f THEN Kept(c.args, candidates[f]) ELSE c.args
  <2>1. DOMAIN c = {"site", "callee", "args"}
    BY <1>1
  <2>2. CASE c.callee = f
    BY <2>1, <2>2
  <2>3. CASE c.callee # f
    BY <2>1, <2>3
  <2> QED
    BY <2>2, <2>3
<1> HIDE DEF kept, again, body
<1>6. ASSUME NEW h \in DOMAIN functions
      PROVE  /\ \A d \in functions'[h].calls : \E c \in functions[h].calls :
                  /\ DOMAIN d = {"site", "callee", "args"} /\ d.callee = c.callee
                  /\ d.args = IF c.callee = f THEN Kept(c.args, candidates[f]) ELSE c.args
             /\ CalledBy(functions'[h]) = CalledBy(functions[h])
  <2>1. functions'[h].calls = {again(c) : c \in functions[h].calls}
    BY <1>4
  <2>2. CalledBy(functions'[h]) = CalledBy(functions[h])
    BY <1>5, <2>1 DEF CalledBy
  <2> QED
    BY <1>5, <2>1, <2>2
<1>7. DOMAIN functions' = DOMAIN functions
  BY <1>2
<1>8. ASSUME NEW h \in DOMAIN functions
      PROVE  /\ DOMAIN functions'[h] = DOMAIN functions[h]
             /\ functions'[h].kernel = functions[h].kernel /\ functions'[h].accesses = functions[h].accesses
             /\ h # f => /\ functions'[h].params = functions[h].params
                         /\ functions'[h].ubo = functions[h].ubo /\ functions'[h].private = functions[h].private
  BY <1>4
<1>9. /\ functions'[f].params = kept
      /\ functions'[f].ubo = functions[f].ubo \cap Range(kept)
      /\ functions'[f].private = functions[f].private \cap Range(kept)
  BY <1>3, <1>4
<1> QED
  BY <1>6, <1>7, <1>8, <1>9 DEF kept

LEMMA RemovedOK ==
  ASSUME IsModule(functions), NEW f, f \in HelpersOf(functions), KeepsUsed(functions[f], candidates[f]),
         RemoveUnusedParameters(f)
  PROVE  /\ IsModule(functions')
         /\ DOMAIN functions' = DOMAIN functions
         /\ \A h \in DOMAIN functions :
              /\ functions'[h].kernel = functions[h].kernel
              /\ CalledBy(functions'[h]) = CalledBy(functions[h])
              /\ UsedIn(functions'[h]) \subseteq UsedIn(functions[h])
              /\ functions'[h].ubo \subseteq functions[h].ubo
              /\ Range(functions'[h].params) \subseteq Range(functions[h].params)
              /\ h # f => functions'[h].params = functions[h].params
         /\ CalledIn(functions') = CalledIn(functions)
         /\ \A what : NoneIsCalled(functions, what) => NoneIsCalled(functions', what)
         /\ PrivateCallsAreLegal(functions) => PrivateCallsAreLegal(functions')
<1> DEFINE keep == candidates[f]
           kept == Kept(functions[f].params, keep)
           after == functions'
<1>1. /\ DOMAIN after = DOMAIN functions
      /\ \A h \in DOMAIN functions :
           /\ DOMAIN after[h] = DOMAIN functions[h]
           /\ after[h].kernel = functions[h].kernel /\ after[h].accesses = functions[h].accesses
           /\ h # f => /\ after[h].params = functions[h].params
                       /\ after[h].ubo = functions[h].ubo /\ after[h].private = functions[h].private
           /\ \A d \in after[h].calls : \E c \in functions[h].calls :
                /\ DOMAIN d = {"site", "callee", "args"} /\ d.callee = c.callee
                /\ d.args = IF c.callee = f THEN Kept(c.args, keep) ELSE c.args
           /\ CalledBy(after[h]) = CalledBy(functions[h])
      /\ after[f].params = kept
      /\ after[f].ubo = functions[f].ubo \cap Range(kept)
      /\ after[f].private = functions[f].private \cap Range(kept)
  BY RemovedIs
<1>2. \A h \in DOMAIN functions : IsFunction(functions, functions[h])
  BY DEF IsModule
<1>3. f \in DOMAIN functions /\ ~functions[f].kernel
  BY DEF HelpersOf
<1>4. /\ IsSeq(kept) /\ Len(kept) = KeptCount(keep) /\ Range(kept) \subseteq Range(functions[f].params)
      /\ NoneTwice(kept)
      /\ UsedIn(functions[f]) \cap Range(functions[f].params) \subseteq Range(kept)
  <2>1. /\ kept = Kept(functions[f].params, keep) /\ IsFunction(functions, functions[f])
        /\ KeepsUsed(functions[f], keep)
    BY <1>2, <1>3
  <2> HIDE DEF kept, keep
  <2>2. IsSeq(kept) /\ Len(kept) = KeptCount(keep) /\ Range(kept) \subseteq Range(functions[f].params)
    BY <2>1, KeptParams
  <2>3. NoneTwice(kept)
    BY <2>1, KeptParams
  <2>4. UsedIn(functions[f]) \cap Range(functions[f].params) \subseteq Range(kept)
    BY <2>1, KeptParams
  <2> QED
    BY <2>2, <2>3, <2>4
<1>5. ASSUME NEW args, IsSeq(args), Len(args) = Len(functions[f].params)
      PROVE  /\ IsSeq(Kept(args, keep)) /\ Len(Kept(args, keep)) = KeptCount(keep)
             /\ \A k \in DOMAIN Kept(args, keep) :
                  \E i \in DOMAIN args : Kept(args, keep)[k] = args[i] /\ kept[k] = functions[f].params[i]
  BY <1>2, <1>3, <1>5, KeptArgs
<1> HIDE DEF keep, kept, after
<1>6. ASSUME NEW h \in DOMAIN functions
      PROVE  /\ IsSeq(after[h].params) /\ Range(after[h].params) \subseteq Range(functions[h].params)
             /\ \A i, j \in DOMAIN after[h].params : after[h].params[i] = after[h].params[j] => i = j
             /\ UsedIn(functions[h]) \cap Range(functions[h].params) \subseteq Range(after[h].params)
             /\ after[h].ubo \subseteq functions[h].ubo
             /\ \A p \in Range(after[h].params) : p \in after[h].private <=> p \in functions[h].private
             /\ after[h].private \subseteq functions[h].private
             /\ after[h].ubo \cup after[h].private \subseteq Range(after[h].params)
  <2>1. CASE h = f
    <3>1. functions[f].ubo \cup functions[f].private \subseteq Range(functions[f].params)
      BY <1>2, <1>3 DEF IsFunction
    <3> QED
      BY <1>1, <1>4, <2>1, <3>1 DEF NoneTwice
  <2>2. CASE h # f
    BY <1>1, <1>2, <2>2 DEF IsFunction
  <2> QED
    BY <2>1, <2>2
<1>7. ASSUME NEW h \in DOMAIN functions, NEW d \in after[h].calls
      PROVE  \E c \in functions[h].calls :
               /\ DOMAIN d = {"site", "callee", "args"} /\ d.callee = c.callee /\ c.callee \in DOMAIN functions
               /\ IsCallIn(functions, functions[h], c)
               /\ IsSeq(d.args) /\ Len(d.args) = Len(after[c.callee].params)
               /\ \A k \in DOMAIN d.args : \E i \in DOMAIN c.args :
                    d.args[k] = c.args[i] /\ after[c.callee].params[k] = functions[c.callee].params[i]
  <2>1. PICK c \in functions[h].calls :
              /\ DOMAIN d = {"site", "callee", "args"} /\ d.callee = c.callee
              /\ d.args = IF c.callee = f THEN Kept(c.args, keep) ELSE c.args
    BY <1>1
  <2>2. /\ IsCallIn(functions, functions[h], c) /\ c.callee \in DOMAIN functions
        /\ IsSeq(c.args) /\ Len(c.args) = Len(functions[c.callee].params)
    BY <1>2 DEF IsFunction, IsCallIn
  <2>3. /\ IsSeq(d.args) /\ Len(d.args) = Len(after[c.callee].params)
        /\ \A k \in DOMAIN d.args : \E i \in DOMAIN c.args :
             d.args[k] = c.args[i] /\ after[c.callee].params[k] = functions[c.callee].params[i]
    <3>1. CASE c.callee = f
      <4>1. /\ IsSeq(d.args) /\ Len(d.args) = KeptCount(keep)
            /\ \A k \in DOMAIN d.args : \E i \in DOMAIN c.args : d.args[k] = c.args[i] /\ kept[k] = functions[f].params[i]
        BY <1>5, <2>1, <2>2, <3>1
      <4>2. after[c.callee].params = kept /\ functions[c.callee].params = functions[f].params
        BY <1>1, <3>1
      <4> QED
        BY <1>4, <4>1, <4>2
    <3>2. CASE c.callee # f
      BY <1>1, <2>1, <2>2, <3>2
    <3> QED
      BY <3>1, <3>2
  <2> QED
    BY <2>1, <2>2, <2>3
<1>8. ASSUME NEW h \in DOMAIN functions, NEW v, IsPointerIn(functions[h], v), UsesIn(v) \subseteq UsedIn(functions[h])
      PROVE  IsPointerIn(after[h], v)
  BY <1>6, <1>8 DEF IsPointerIn
<1>9. ASSUME NEW h \in DOMAIN functions, NEW d \in after[h].calls PROVE IsCallIn(after, after[h], d)
  <2>1. PICK c \in functions[h].calls :
               /\ DOMAIN d = {"site", "callee", "args"} /\ d.callee = c.callee /\ c.callee \in DOMAIN functions
               /\ IsCallIn(functions, functions[h], c)
               /\ IsSeq(d.args) /\ Len(d.args) = Len(after[c.callee].params)
               /\ \A k \in DOMAIN d.args : \E i \in DOMAIN c.args :
                    d.args[k] = c.args[i] /\ after[c.callee].params[k] = functions[c.callee].params[i]
    BY <1>7
  <2>2. ASSUME NEW k \in DOMAIN d.args
        PROVE  /\ IsPointerIn(after[h], d.args[k])
               /\ d.args[k].kind = "param" =>
                    (d.args[k].id \in after[h].private <=> after[c.callee].params[k] \in after[c.callee].private)
    <3>1. PICK i \in DOMAIN c.args : d.args[k] = c.args[i] /\ after[c.callee].params[k] = functions[c.callee].params[i]
      BY <2>1
    <3>2. /\ IsPointerIn(functions[h], c.args[i])
          /\ c.args[i].kind = "param" =>
               (c.args[i].id \in functions[h].private <=> functions[c.callee].params[i] \in functions[c.callee].private)
      BY <2>1 DEF IsCallIn
    <3>3. UsesIn(c.args[i]) \subseteq UsedIn(functions[h])
      BY UsedInIs
    <3>4. IsPointerIn(after[h], c.args[i])
      BY <1>8, <3>2, <3>3
    <3>5. after[c.callee].params[k] \in Range(after[c.callee].params)
      <4>1. DOMAIN d.args = DOMAIN after[c.callee].params
        BY <1>6, <2>1, IsSeqFacts
      <4> QED
        BY <4>1 DEF Range
    <3>6. c.args[i].kind = "param" => c.args[i].id \in Range(after[h].params)
      BY <3>4, IsPointerInAre, BaseUseIs
    <3> QED
      BY <1>6, <2>1, <3>1, <3>2, <3>4, <3>5, <3>6
  <2> QED
    BY <1>1, <2>1, <2>2 DEF IsCallIn
<1>10. ASSUME NEW h \in DOMAIN functions, NEW a \in after[h].accesses PROVE IsAccessIn(after[h], a)
  <2>1. a \in functions[h].accesses /\ IsAccessIn(functions[h], a)
    BY <1>1, <1>2 DEF IsFunction
  <2>2. \A i \in DOMAIN a.operands : UsesIn(a.operands[i]) \subseteq UsedIn(functions[h])
    BY <2>1, UsedInIs
  <2> QED
    BY <1>8, <2>1, <2>2 DEF IsAccessIn
<1>11. ASSUME NEW h \in DOMAIN functions PROVE IsFunction(after, after[h])
  <2>1. after[h].kernel => after[h].params = <<>>
    <3>1. functions[h].kernel => functions[h].params = <<>>
      BY <1>2 DEF IsFunction
    <3> QED
      BY <1>1, <1>3, <3>1
  <2>2. DOMAIN after[h] = {"kernel", "noinline", "params", "ubo", "private", "calls", "accesses"} /\ after[h].kernel \in BOOLEAN
    BY <1>1, <1>2 DEF IsFunction
  <2> QED
    BY <1>6, <1>9, <1>10, <2>1, <2>2 DEF IsFunction
<1>12. IsModule(after)
  <2>1. IsNotRecursive(after)
    BY <1>1, FewerCallsNotRecursive DEF IsModule
  <2> QED
    BY <1>1, <1>11, <2>1 DEF IsModule
<1>13. ASSUME NEW h \in DOMAIN functions PROVE UsedIn(after[h]) \subseteq UsedIn(functions[h])
  <2>1. ASSUME NEW p, NEW d \in after[h].calls, NEW k \in DOMAIN d.args, p \in UsesIn(d.args[k])
        PROVE  p \in UsedIn(functions[h])
    <3>1. PICK c \in functions[h].calls : \E i \in DOMAIN c.args : d.args[k] = c.args[i]
      BY <1>7
    <3> QED
      BY <2>1, <3>1, UsedInIs
  <2>2. ASSUME NEW p, NEW a \in after[h].accesses, NEW i \in DOMAIN a.operands, p \in UsesIn(a.operands[i])
        PROVE  p \in UsedIn(functions[h])
    BY <1>1, <2>2, UsedInIs
  <2> QED
    BY <2>1, <2>2, UsedInIs
<1>14. CalledIn(after) = CalledIn(functions)
  BY <1>1 DEF CalledIn
<1>15. ASSUME NEW what, NoneIsCalled(functions, what) PROVE NoneIsCalled(after, what)
  BY <1>1, <1>14, <1>15 DEF NoneIsCalled, HelpersOf, Does
<1>16. ASSUME PrivateCallsAreLegal(functions) PROVE PrivateCallsAreLegal(after)
  <2>1. ASSUME NEW h \in DOMAIN functions, NEW d \in after[h].calls PROVE PassesMemory(after[d.callee], d)
    <3>1. PICK c \in functions[h].calls :
               /\ d.callee = c.callee /\ c.callee \in DOMAIN functions
               /\ \A k \in DOMAIN d.args : \E i \in DOMAIN c.args :
                    d.args[k] = c.args[i] /\ after[c.callee].params[k] = functions[c.callee].params[i]
      BY <1>7
    <3>2. PassesMemory(functions[c.callee], c)
      BY <1>16 DEF PrivateCallsAreLegal
    <3>3. after[c.callee].private \subseteq functions[c.callee].private
      BY <1>6, <3>1
    <3> QED
      BY <3>1, <3>2, <3>3 DEF PassesMemory
  <2>2. ASSUME NEW h \in CalledIn(after), NEW p \in after[h].private PROVE IsUsedInPlace(after[h], p)
    <3>1. PrivateIsInPlace(functions[h])
      BY <1>14, <1>16 DEF PrivateCallsAreLegal
    <3>2. h \in DOMAIN functions
      BY <1>14, CalledAreFunctions
    <3>3. p \in functions[h].private /\ IsUsedInPlace(functions[h], p)
      BY <1>6, <3>1, <3>2 DEF PrivateIsInPlace
    <3>4. ASSUME NEW d \in after[h].calls PROVE CallInPlace(d, p)
      <4>1. PICK c \in functions[h].calls : \A k \in DOMAIN d.args : \E i \in DOMAIN c.args : d.args[k] = c.args[i]
        BY <1>7, <3>2
      <4>2. CallInPlace(c, p)
        BY <3>3 DEF IsUsedInPlace
      <4> QED
        BY <4>1, <4>2 DEF CallInPlace
    <3>5. \A a \in after[h].accesses : AccessInPlace(a, p)
      BY <1>1, <3>2, <3>3 DEF IsUsedInPlace
    <3> QED
      BY <3>4, <3>5 DEF IsUsedInPlace
  <2> QED
    BY <1>1, <2>1, <2>2 DEF PrivateCallsAreLegal, PrivateIsInPlace
<1> QED
  BY <1>1, <1>6, <1>12, <1>13, <1>14, <1>15, <1>16 DEF after

------------------------------------------------------------------------------
(* MultiVersionUBOFunctionsPass: the indices a version is handed, in some order. *)
LEMMA SetToSeqFacts ==
  ASSUME NEW S, IsFiniteSet(S)
  PROVE  LET s == SetToSeq(S)
             n == Cardinality(S)
         IN  /\ n \in Nat /\ s \in [1..n -> S]
             /\ \A i, j \in 1..n : s[i] = s[j] => i = j
             /\ \A x \in S : \E i \in 1..n : s[i] = x
<1> DEFINE n == Cardinality(S)
           s == SetToSeq(S)
<1>1. n \in Nat /\ ExistsBijection(1..n, S)
  BY FS_CardinalityType
<1>2. \E f \in [1..n -> S] : IsInjective(f)
  BY <1>1 DEF ExistsBijection, Bijection, Injection
<1>3. s \in [1..n -> S] /\ IsInjective(s)
  BY <1>2 DEF SetToSeq
<1> HIDE DEF s
<1>4. IsFiniteSet(1..n) /\ Cardinality(1..n) = n
  <2>1. 1 \in Int /\ n \in Int
    BY <1>1
  <2>2. IsFiniteSet(1..n) /\ Cardinality(1..n) = IF 1 > n THEN 0 ELSE n - 1 + 1
    BY <2>1, FS_Interval
  <2> QED
    BY <1>1, <2>2
<1>5. s \in Injection(1..n, S)
  BY <1>3 DEF Injection
<1>6. s \in Surjection(1..n, S)
  BY <1>4, <1>5, FS_Injection
<1>7. \A x \in S : \E i \in 1..n : s[i] = x
  BY <1>6 DEF Surjection
<1> QED
  BY <1>1, <1>3, <1>7 DEF IsInjective, s

LEMMA MaxFacts ==
  ASSUME NEW S, IsFiniteSet(S), S \subseteq Nat, S # {}
  PROVE  Max(S) \in S /\ \A x \in S : x <= Max(S)
<1> DEFINE n == Cardinality(S)
           top == InOrder(S)[n]
<1>1. /\ n \in Nat
      /\ InOrder(S) \in [1 .. n -> S]
      /\ \A i, j \in 1 .. n : i < j => InOrder(S)[i] < InOrder(S)[j]
      /\ \A x \in S : \E i \in 1 .. n : InOrder(S)[i] = x
  BY InOrderFacts
<1>2. n \in 1..n
  <2>1. PICK x \in S : TRUE
    OBVIOUS
  <2>2. PICK i \in 1 .. n : InOrder(S)[i] = x
    BY <1>1
  <2> HIDE DEF n
  <2> QED
    BY <1>1, <2>2
<1>3. top \in S
  BY <1>1, <1>2
<1>4. ASSUME NEW x \in S PROVE top >= x
  <2>1. PICK i \in 1..n : InOrder(S)[i] = x
    BY <1>1
  <2>2. x = top \/ x < top
    <3>1. i = n \/ i < n
      BY <1>1
    <3> QED
      BY <1>1, <1>2, <2>1, <3>1
  <2>3. x \in Nat /\ top \in Nat
    BY <1>3
  <2> HIDE DEF top
  <2> QED
    BY <2>2, <2>3
<1> HIDE DEF top
<1>5. Max(S) \in S /\ \A x \in S : Max(S) >= x
  BY <1>3, <1>4 DEF Max
<1> QED
  BY <1>5

(* The names of the new parameters: a place in what was given for a pointer. *)
IsNewName(x) == x \in Seq(Nat) /\ Len(x) = 3

IsNewNameFor(x, p, k, j) == IsNewName(x) /\ x[1] = p[1] /\ x[2] = k /\ x[3] = j

LEMMA NewNames ==
  ASSUME NEW p, IsNamed(p), NEW k \in Nat, NEW j \in Nat
  PROVE  IsNewNameFor(p \o <<k, j>>, p, k, j)
<1> DEFINE t == <<k, j>>
           x == p \o t
<1>1. t \in Seq(Nat) /\ Len(t) = 2 /\ t[1] = k /\ t[2] = j
  OBVIOUS
<1>2. p \in Seq(Nat) /\ Len(p) = 1
  BY DEF IsNamed
<1> HIDE DEF t
<1>3. /\ x \in Seq(Nat) /\ Len(x) = Len(p) + Len(t)
      /\ \A i \in 1 .. Len(p) + Len(t) : x[i] = IF i <= Len(p) THEN p[i] ELSE t[i - Len(p)]
  BY <1>1, <1>2, ConcatProperties
<1> HIDE DEF x
<1>4. Len(x) = 3 /\ x[1] = p[1] /\ x[2] = t[1] /\ x[3] = t[2]
  BY <1>1, <1>2, <1>3
<1> QED
  BY <1>1, <1>3, <1>4 DEF x, t, IsNewName, IsNewNameFor

LEMMA NamesDiffer ==
  ASSUME NEW p, IsNamed(p), NEW q, IsNamed(q), p[1] = q[1]
  PROVE  p = q
<1>1. p \in [1..1 -> Nat] /\ q \in [1..1 -> Nat]
  <2>1. p \in Seq(Nat) /\ Len(p) = 1 /\ q \in Seq(Nat) /\ Len(q) = 1
    BY DEF IsNamed
  <2> QED
    BY <2>1, LenProperties
<1>2. \A i \in 1..1 : p[i] = q[i]
  OBVIOUS
<1> QED
  BY <1>1, <1>2

LEMMA NewNamesDiffer == \A x : IsNewName(x) => ~IsNamed(x)
  BY DEF IsNewName, IsNamed

------------------------------------------------------------------------------
(* The version of a function for one of its calls: what it is handed instead of
   its pointers into uniform buffers. *)
IsVariable(v, k, j) == k \in DOMAIN v.geps /\ j \in DOMAIN v.geps[k] /\ v.geps[k][j].kind # "const"

LEMMA VariablePlacesAre ==
  ASSUME NEW v, NEW at
  PROVE  at \in VariablePlaces(v) <=> \E k, j : IsVariable(v, k, j) /\ at = <<k, j>>
  BY DEF VariablePlaces, IsVariable

LEMMA VariablePlacesAreFinite ==
  ASSUME NEW v, IsPointer(v)
  PROVE  IsFiniteSet(VariablePlaces(v))
<1>1. VariablePlaces(v) \subseteq Places(v)
  BY DEF VariablePlaces, Places
<1> QED
  BY <1>1, PlacesAreFinite, FS_Subset

ExtraArg(u, p, at) == [param |-> p \o at, index |-> Given(u)[p].geps[at[1]][at[2]]]

ExtraArgsFor(u, p) == {ExtraArg(u, p, at) : at \in VariablePlaces(Given(u)[p])}

AllExtraArgs(u) == UNION {ExtraArgsFor(u, p) : p \in functions[u.call.callee].ubo}

LEMMA AllExtraArgsAre ==
  ASSUME NEW u, NEW x
  PROVE  x \in AllExtraArgs(u) <=>
           \E p \in functions[u.call.callee].ubo : \E k, j :
             IsVariable(Given(u)[p], k, j) /\ x = ExtraArg(u, p, <<k, j>>)
<1>1. x \in AllExtraArgs(u) <=>
        \E p \in functions[u.call.callee].ubo : \E at \in VariablePlaces(Given(u)[p]) : x = ExtraArg(u, p, at)
  BY DEF AllExtraArgs, ExtraArgsFor
<1>2. ASSUME NEW p \in functions[u.call.callee].ubo
      PROVE  (\E at \in VariablePlaces(Given(u)[p]) : x = ExtraArg(u, p, at)) <=>
               \E k, j : IsVariable(Given(u)[p], k, j) /\ x = ExtraArg(u, p, <<k, j>>)
  <2> DEFINE v == Given(u)[p]
  <2>1. \A at : at \in VariablePlaces(v) <=> \E k, j : IsVariable(v, k, j) /\ at = <<k, j>>
    BY VariablePlacesAre
  <2>2. ASSUME NEW at \in VariablePlaces(v), x = ExtraArg(u, p, at)
        PROVE  \E k, j : IsVariable(v, k, j) /\ x = ExtraArg(u, p, <<k, j>>)
    <3>1. PICK k, j : IsVariable(v, k, j) /\ at = <<k, j>>
      BY <2>1
    <3> QED
      BY <2>2, <3>1
  <2>3. ASSUME NEW k, NEW j, IsVariable(v, k, j), x = ExtraArg(u, p, <<k, j>>)
        PROVE  \E at \in VariablePlaces(v) : x = ExtraArg(u, p, at)
    <3>1. <<k, j>> \in VariablePlaces(v)
      BY <2>1, <2>3
    <3> QED
      BY <2>3, <3>1
  <2> QED
    BY <2>2, <2>3
<1> QED
  BY <1>1, <1>2

(* As a sequence: each of them once. *)
Lists(s, S) ==
  \E n \in Nat :
    /\ DOMAIN s = 1..n
    /\ \A i \in 1..n : s[i] \in S
    /\ \A x \in S : \E i \in 1..n : s[i] = x
    /\ \A i, j \in 1..n : s[i] = s[j] => i = j

(* What the call gives for the pointers. *)
LEMMA GivenPointers ==
  ASSUME IsModule(functions), NEW f, NEW u \in Users(f)
  PROVE  /\ DOMAIN Given(u) = Range(functions[f].params)
         /\ \A q \in Range(functions[f].params) : IsPointerIn(functions[u.in], Given(u)[q])
         /\ \A q \in Range(functions[f].params) :
              \E i \in DOMAIN u.call.args : functions[f].params[i] = q /\ Given(u)[q] = u.call.args[i]
         /\ functions[f].ubo \subseteq Range(functions[f].params)
<1>1. /\ u.call.callee = f /\ IsFunction(functions, functions[f])
      /\ IsCallIn(functions, functions[u.in], u.call)
  BY UserFacts
<1>2. DOMAIN Given(u) = Range(functions[f].params)
  BY <1>1, GivenFacts DEF Given
<1>3. Fits(functions[f], Given(u), functions[u.in])
  BY <1>1, GivenFits DEF Given
<1>4. \A q \in Range(functions[f].params) :
        \E i \in DOMAIN u.call.args :
          functions[f].params[i] = q /\ ArgsByParam(f, u.call.args)[q] = u.call.args[i]
  BY <1>1, GivenFacts
<1>5. Given(u) = ArgsByParam(f, u.call.args)
  BY <1>1 DEF Given
<1> QED
  BY <1>1, <1>2, <1>3, <1>4, <1>5 DEF Fits, IsFunction

LEMMA ExtraArgsAreFinite ==
  ASSUME IsModule(functions), NEW f, NEW u \in Users(f)
  PROVE  IsFiniteSet(AllExtraArgs(u))
<1> DEFINE for == [p \in functions[f].ubo |-> ExtraArgsFor(u, p)]
<1>1. u.call.callee = f /\ IsFunction(functions, functions[f])
  BY UserFacts
<1>2. IsFiniteSet(functions[f].ubo)
  <2>1. Len(functions[f].params) \in Nat /\ DOMAIN functions[f].params = 1 .. Len(functions[f].params)
    BY <1>1, IsSeqFacts DEF IsFunction
  <2>2. IsFiniteSet(DOMAIN functions[f].params)
    BY <2>1, FS_Interval
  <2> DEFINE params == [i \in DOMAIN functions[f].params |-> functions[f].params[i]]
  <2>3. params = [i \in DOMAIN functions[f].params |-> params[i]] /\ \A i \in DOMAIN functions[f].params : params[i] = functions[f].params[i]
    OBVIOUS
  <2> HIDE DEF params
  <2>4. IsFiniteSet({params[i] : i \in DOMAIN functions[f].params})
    BY <2>2, <2>3, ImageIsFinite
  <2>5. functions[f].ubo \subseteq {params[i] : i \in DOMAIN functions[f].params}
    BY <1>1, <2>3 DEF IsFunction, Range
  <2> QED
    BY <2>4, <2>5, FS_Subset
<1>3. ASSUME NEW p \in functions[f].ubo PROVE IsFiniteSet(for[p])
  <2> DEFINE places == VariablePlaces(Given(u)[p])
             arg == [at \in places |-> ExtraArg(u, p, at)]
  <2>1. IsPointer(Given(u)[p])
    BY GivenPointers DEF IsPointerIn
  <2>2. IsFiniteSet(places)
    BY <2>1, VariablePlacesAreFinite
  <2>3. for[p] = {arg[at] : at \in places} /\ arg = [at \in places |-> arg[at]]
    BY <1>1 DEF ExtraArgsFor
  <2> HIDE DEF places, arg, for
  <2> QED
    BY <2>2, <2>3, ImageIsFinite
<1>4. for = [p \in functions[f].ubo |-> for[p]]
  BY <1>1 DEF ExtraArgsFor
<1> HIDE DEF for
<1>5. IsFiniteSet({for[p] : p \in functions[f].ubo})
  BY <1>2, <1>4, ImageIsFinite
<1>6. IsFiniteSet(UNION {for[p] : p \in functions[f].ubo})
  BY <1>3, <1>5, FS_UNION
<1>7. AllExtraArgs(u) = UNION {for[p] : p \in functions[f].ubo}
  BY <1>1 DEF for, AllExtraArgs
<1> QED
  BY <1>6, <1>7

(* Each index that is no constant has its own parameter. *)
LEMMA ExtraArgFacts ==
  ASSUME IsModule(functions), NEW f, NEW u \in Users(f),
         NEW p, IsNamed(p), p \in functions[f].ubo, NEW k, NEW j, IsVariable(Given(u)[p], k, j)
  PROVE  /\ ExtraArg(u, p, <<k, j>>).param = p \o <<k, j>>
         /\ ExtraArg(u, p, <<k, j>>).index = Given(u)[p].geps[k][j]
         /\ IsNewNameFor(p \o <<k, j>>, p, k, j)
<1>1. IsPointer(Given(u)[p])
  BY GivenPointers DEF IsPointerIn
<1>2. k \in Nat /\ j \in Nat
  <2>1. Len(Given(u)[p].geps) \in Nat /\ DOMAIN Given(u)[p].geps = 1 .. Len(Given(u)[p].geps)
    BY <1>1, IsSeqFacts DEF IsPointer
  <2>2. IsSeq(Given(u)[p].geps[k])
    BY <1>1 DEF IsPointer, IsVariable
  <2>3. Len(Given(u)[p].geps[k]) \in Nat /\ DOMAIN Given(u)[p].geps[k] = 1 .. Len(Given(u)[p].geps[k])
    BY <2>2, IsSeqFacts
  <2> QED
    BY <2>1, <2>3 DEF IsVariable
<1>3. IsNewNameFor(p \o <<k, j>>, p, k, j)
  BY <1>2, NewNames
<1> QED
  BY <1>3 DEF ExtraArg

NewParams(u) == ExtraParams(u)

NewArgs(u) == ExtraArgs(u)

LEMMA ExtraArgsAre ==
  ASSUME IsModule(functions), NEW f, NEW u \in Users(f)
  PROVE  Lists(VariableIndices(u), AllExtraArgs(u))
<1> DEFINE all == AllExtraArgs(u)
           n == Cardinality(all)
           s == SetToSeq(all)
<1>1. VariableIndices(u) = s
  BY DEF VariableIndices, AllExtraArgs, ExtraArgsFor, ExtraArg
<1>2. IsFiniteSet(all)
  BY ExtraArgsAreFinite
<1> HIDE DEF all
<1>3. /\ n \in Nat /\ s \in [1..n -> all]
      /\ \A i, j \in 1..n : s[i] = s[j] => i = j
      /\ \A x \in all : \E i \in 1..n : s[i] = x
  BY <1>2, SetToSeqFacts
<1> HIDE DEF s, n
<1>4. Lists(s, all)
  BY <1>3 DEF Lists
<1> QED
  BY <1>1, <1>4 DEF all

LEMMA ExtraArgIs ==
  ASSUME IsModule(functions), NEW f, NEW u \in Users(f), NEW i \in DOMAIN VariableIndices(u)
  PROVE  \E p \in functions[f].ubo : \E k, j :
           IsVariable(Given(u)[p], k, j) /\ VariableIndices(u)[i] = ExtraArg(u, p, <<k, j>>)
<1>1. VariableIndices(u)[i] \in AllExtraArgs(u)
  BY ExtraArgsAre DEF Lists
<1>2. u.call.callee = f
  BY UserFacts
<1> QED
  BY <1>1, <1>2, AllExtraArgsAre

(* They come after the old parameters, and none of them is there already. *)
LEMMA NewParamsFacts ==
  ASSUME IsModule(functions), NEW f, NEW u \in Users(f), \A p \in Range(functions[f].params) : IsNamed(p)
  PROVE  /\ IsSeq(NewParams(u)) /\ NoneTwice(NewParams(u))
         /\ \A x \in Range(NewParams(u)) : IsNewName(x)
         /\ \A p \in functions[f].ubo : \A k, j : IsVariable(Given(u)[p], k, j) => p \o <<k, j>> \in Range(NewParams(u))
<1> DEFINE extra == VariableIndices(u)
           names == NewParams(u)
<1>1. PICK n \in Nat :
        /\ DOMAIN extra = 1..n
        /\ \A x \in AllExtraArgs(u) : \E i \in 1..n : extra[i] = x
        /\ \A i, j \in 1..n : extra[i] = extra[j] => i = j
  BY ExtraArgsAre DEF Lists
<1>0. \A i \in 1..n : \E p \in functions[f].ubo : \E k, j :
        IsVariable(Given(u)[p], k, j) /\ extra[i] = ExtraArg(u, p, <<k, j>>)
  <2> SUFFICES ASSUME NEW i \in DOMAIN VariableIndices(u)
               PROVE  \E p \in functions[f].ubo : \E k, j :
                        IsVariable(Given(u)[p], k, j) /\ VariableIndices(u)[i] = ExtraArg(u, p, <<k, j>>)
    BY <1>1
  <2> QED
    BY ExtraArgIs
<1>2. /\ DOMAIN names = 1..n /\ names = [i \in 1..n |-> names[i]]
      /\ \A i \in 1..n : names[i] = extra[i].param
  BY <1>1 DEF NewParams, ExtraParams
<1> HIDE DEF extra, names
<1>3. \A p \in functions[f].ubo : IsNamed(p)
  BY GivenPointers
<1>4. ASSUME NEW i \in 1..n, NEW p \in functions[f].ubo, NEW k, NEW j,
             IsVariable(Given(u)[p], k, j), extra[i] = ExtraArg(u, p, <<k, j>>)
      PROVE  names[i] = p \o <<k, j>> /\ IsNewNameFor(names[i], p, k, j)
  <2>1. IsNamed(p)
    BY <1>3
  <2>2. ExtraArg(u, p, <<k, j>>).param = p \o <<k, j>> /\ IsNewNameFor(p \o <<k, j>>, p, k, j)
    BY <1>4, <2>1, ExtraArgFacts
  <2> QED
    BY <1>2, <1>4, <2>2
<1>5. ASSUME NEW i \in 1..n PROVE IsNewName(names[i])
  <2>1. PICK p \in functions[f].ubo : \E k, j : IsVariable(Given(u)[p], k, j) /\ extra[i] = ExtraArg(u, p, <<k, j>>)
    BY <1>0
  <2>2. PICK k, j : IsVariable(Given(u)[p], k, j) /\ extra[i] = ExtraArg(u, p, <<k, j>>)
    BY <2>1
  <2> QED
    BY <1>4, <2>2 DEF IsNewNameFor
<1>6. ASSUME NEW i \in 1..n, NEW m \in 1..n, names[i] = names[m] PROVE i = m
  <2>1. PICK p \in functions[f].ubo : \E k, j : IsVariable(Given(u)[p], k, j) /\ extra[i] = ExtraArg(u, p, <<k, j>>)
    BY <1>0
  <2>2. PICK k, j : IsVariable(Given(u)[p], k, j) /\ extra[i] = ExtraArg(u, p, <<k, j>>)
    BY <2>1
  <2>3. PICK q \in functions[f].ubo : \E a, b : IsVariable(Given(u)[q], a, b) /\ extra[m] = ExtraArg(u, q, <<a, b>>)
    BY <1>0
  <2>4. PICK a, b : IsVariable(Given(u)[q], a, b) /\ extra[m] = ExtraArg(u, q, <<a, b>>)
    BY <2>3
  <2>5. IsNewNameFor(names[i], p, k, j) /\ IsNewNameFor(names[m], q, a, b)
    BY <1>4, <2>2, <2>4
  <2>6. p[1] = q[1] /\ k = a /\ j = b
    BY <1>6, <2>5 DEF IsNewNameFor
  <2>7. p = q
    BY <1>3, <2>6, NamesDiffer
  <2>8. extra[i] = extra[m]
    BY <2>2, <2>4, <2>6, <2>7
  <2> QED
    BY <1>1, <2>8
<1>7. IsSeq(names)
  BY <1>2, MakeSeq
<1>8. NoneTwice(names)
  BY <1>2, <1>6 DEF NoneTwice
<1>9. \A x \in Range(names) : IsNewName(x)
  BY <1>2, <1>5 DEF Range
<1>10. ASSUME NEW p \in functions[f].ubo, NEW k, NEW j, IsVariable(Given(u)[p], k, j)
       PROVE  p \o <<k, j>> \in Range(names)
  <2>0. ExtraArg(u, p, <<k, j>>) \in AllExtraArgs(u)
    BY <1>10, AllExtraArgsAre, UserFacts
  <2>1. PICK i \in 1..n : extra[i] = ExtraArg(u, p, <<k, j>>)
    BY <1>1, <2>0
  <2>2. names[i] = p \o <<k, j>>
    BY <1>4, <1>10, <2>1
  <2> QED
    BY <1>2, <2>2 DEF Range
<1> QED
  BY <1>7, <1>8, <1>9, <1>10 DEF names

LEMMA PointerFacts ==
  ASSUME NEW kind, NEW id
  PROVE  /\ IsPointer(Pointer(kind, id)) /\ IndexUses(Pointer(kind, id)) = {}
         /\ Pointer(kind, id).kind = kind /\ Pointer(kind, id).id = id /\ Pointer(kind, id).geps = <<>>
         /\ BaseUse(Pointer(kind, id)) = IF kind = "param" THEN {id} ELSE {}
<1> DEFINE v == Pointer(kind, id)
<1>1. DOMAIN v = {"kind", "id", "geps"} /\ v.kind = kind /\ v.id = id /\ v.geps = <<>>
  BY DEF Pointer
<1> HIDE DEF v
<1>2. IsSeq(<<>>) /\ DOMAIN <<>> = {}
  BY DEF IsSeq
<1>3. IsPointer(v)
  BY <1>1, <1>2 DEF IsPointer
<1>4. IndexUses(v) = {}
  BY <1>1, NoIndices
<1> QED
  BY <1>1, <1>3, <1>4 DEF v, BaseUse

LEMMA NewArgsFacts ==
  ASSUME IsModule(functions), NEW f, NEW u \in Users(f)
  PROVE  /\ IsSeq(NewArgs(u)) /\ DOMAIN NewArgs(u) = DOMAIN NewParams(u)
         /\ \A i \in DOMAIN NewArgs(u) :
              /\ IsPointerIn(functions[u.in], NewArgs(u)[i])
              /\ NewArgs(u)[i].kind = "param" => NewArgs(u)[i].id \notin functions[u.in].private
              /\ NewArgs(u)[i].geps = <<>>
              /\ \E m \in DOMAIN u.call.args : UsesIn(NewArgs(u)[i]) \subseteq UsesIn(u.call.args[m])
<1> DEFINE extra == VariableIndices(u)
           args == NewArgs(u)
           home == functions[u.in]
<1>1. PICK n \in Nat : DOMAIN extra = 1..n
  BY ExtraArgsAre DEF Lists
<1>0. \A i \in 1..n : \E p \in functions[f].ubo : \E k, j :
        IsVariable(Given(u)[p], k, j) /\ extra[i] = ExtraArg(u, p, <<k, j>>)
  <2> SUFFICES ASSUME NEW i \in DOMAIN VariableIndices(u)
               PROVE  \E p \in functions[f].ubo : \E k, j :
                        IsVariable(Given(u)[p], k, j) /\ VariableIndices(u)[i] = ExtraArg(u, p, <<k, j>>)
    BY <1>1
  <2> QED
    BY ExtraArgIs
<1>2. /\ DOMAIN args = 1..n /\ args = [i \in 1..n |-> args[i]]
      /\ \A i \in 1..n : args[i] = Pointer(extra[i].index.kind, extra[i].index.id)
      /\ DOMAIN NewParams(u) = 1..n
  BY <1>1 DEF NewArgs, NewParams, ExtraArgs, ExtraParams
<1> HIDE DEF extra, args
<1>3. ASSUME NEW i \in 1..n
      PROVE  /\ IsPointerIn(home, args[i])
             /\ args[i].kind = "param" => args[i].id \notin home.private
             /\ args[i].geps = <<>>
             /\ \E m \in DOMAIN u.call.args : UsesIn(args[i]) \subseteq UsesIn(u.call.args[m])
  <2>1. PICK p \in functions[f].ubo : \E k, j : IsVariable(Given(u)[p], k, j) /\ extra[i] = ExtraArg(u, p, <<k, j>>)
    BY <1>0
  <2>2. PICK k, j : IsVariable(Given(u)[p], k, j) /\ extra[i] = ExtraArg(u, p, <<k, j>>)
    BY <2>1
  <2> DEFINE index == extra[i].index
  <2>3. index = Given(u)[p].geps[k][j]
    BY <2>2 DEF ExtraArg
  <2>4. /\ IndexUses(Given(u)[p]) \subseteq Range(home.params)
        /\ IndexUses(Given(u)[p]) \cap home.private = {}
    BY GivenPointers, IsPointerInAre
  <2>5. index.kind = "param" => index.id \in IndexUses(Given(u)[p])
    BY <2>2, <2>3, IndexUsesAre DEF IsVariable
  <2>6. args[i] = Pointer(index.kind, index.id)
    BY <1>2
  <2> HIDE DEF index
  <2>7. /\ IsPointer(args[i]) /\ IndexUses(args[i]) = {} /\ args[i].kind = index.kind /\ args[i].id = index.id
        /\ args[i].geps = <<>>
        /\ BaseUse(args[i]) = IF index.kind = "param" THEN {index.id} ELSE {}
    <3> DEFINE kind == index.kind
               id == index.id
    <3>1. args[i] = Pointer(kind, id)
      BY <2>6
    <3> HIDE DEF kind, id
    <3>2. /\ IsPointer(args[i]) /\ IndexUses(args[i]) = {} /\ args[i].kind = kind /\ args[i].id = id
          /\ args[i].geps = <<>>
          /\ BaseUse(args[i]) = IF kind = "param" THEN {id} ELSE {}
      BY <3>1, PointerFacts
    <3> QED
      BY <3>2 DEF kind, id
  <2>8. BaseUse(args[i]) \cup IndexUses(args[i]) \subseteq Range(home.params)
    BY <2>4, <2>5, <2>7
  <2>9. IsPointerIn(home, args[i])
    BY <2>7, <2>8, IsPointerInAre
  <2>10. UsesIn(args[i]) \subseteq IndexUses(Given(u)[p])
    BY <2>5, <2>7, UsesAre
  <2>11. PICK m \in DOMAIN u.call.args : Given(u)[p] = u.call.args[m]
    <3>1. /\ u.call.callee = f /\ IsFunction(functions, functions[f]) /\ IsCallIn(functions, home, u.call)
      BY UserFacts
    <3>2. p \in Range(functions[f].params)
      BY <3>1 DEF IsFunction
    <3> QED
      BY <3>1, <3>2, GivenFacts DEF Given
  <2>12. IndexUses(Given(u)[p]) \subseteq UsesIn(Given(u)[p])
    BY UsesAre
  <2>13. UsesIn(args[i]) \subseteq UsesIn(u.call.args[m])
    BY <2>10, <2>11, <2>12
  <2> QED
    BY <2>4, <2>5, <2>7, <2>9, <2>13
<1>4. IsSeq(args)
  BY <1>2, MakeSeq
<1> QED
  BY <1>2, <1>3, <1>4 DEF args

Clone == Max(DOMAIN functions) + 1

OwnPointers(u) == [p \in functions[u.call.callee].ubo |-> OwnPointer(p, Given(u)[p])]

NewCall(u) == [u.call EXCEPT !.callee = Clone, !.args = @ \o NewArgs(u)]

LEMMA OwnPointerFacts ==
  ASSUME IsModule(functions), NEW f, NEW u \in Users(f), \A q \in Range(functions[f].params) : IsNamed(q),
         NEW p \in functions[f].ubo, Given(u)[p].kind = "resource"
  PROVE  LET own == OwnPointer(p, Given(u)[p])
         IN  /\ IsPointer(own) /\ own.kind = "resource" /\ BaseUse(own) = {}
             /\ IndexUses(own) \subseteq Range(NewParams(u))
<1> DEFINE v == Given(u)[p]
           own == OwnPointer(p, v)
<1>1. IsPointer(v)
  BY GivenPointers DEF IsPointerIn
<1>2. \A k, j : IsVariable(v, k, j) => p \o <<k, j>> \in Range(NewParams(u))
  BY NewParamsFacts
<1>3. v.kind = "resource"
  OBVIOUS
<1> HIDE DEF v
<1>4. /\ DOMAIN own = {"kind", "id", "geps"} /\ own.kind = "resource"
      /\ own.geps = [k \in DOMAIN v.geps |-> own.geps[k]]
      /\ \A k \in DOMAIN v.geps :
           /\ own.geps[k] = [j \in DOMAIN v.geps[k] |-> own.geps[k][j]]
           /\ \A j \in DOMAIN v.geps[k] :
                own.geps[k][j] = IF v.geps[k][j].kind = "const" THEN v.geps[k][j]
                                 ELSE [kind |-> "param", id |-> p \o <<k, j>>]
  <2>1. DOMAIN v = {"kind", "id", "geps"}
    BY <1>1 DEF IsPointer
  <2> QED
    BY <1>3, <2>1 DEF OwnPointer
<1> HIDE DEF own
<1>5. IsSeq(own.geps)
  <2>1. Len(v.geps) \in Nat /\ DOMAIN v.geps = 1 .. Len(v.geps)
    BY <1>1, IsSeqFacts DEF IsPointer
  <2> QED
    BY <1>4, <2>1, MakeSeq
<1>6. ASSUME NEW k \in DOMAIN own.geps PROVE IsSeq(own.geps[k]) /\ own.geps[k] # <<>>
  <2>1. k \in DOMAIN v.geps /\ IsSeq(v.geps[k]) /\ v.geps[k] # <<>>
    BY <1>1, <1>4 DEF IsPointer
  <2>2. Len(v.geps[k]) \in Nat /\ DOMAIN v.geps[k] = 1 .. Len(v.geps[k])
    BY <2>1, IsSeqFacts
  <2>3. 1 \in DOMAIN v.geps[k]
    <3>1. v.geps[k] \in Seq(Range(v.geps[k]))
      BY <2>1 DEF IsSeq
    <3>2. Len(v.geps[k]) # 0
      BY <2>1, <3>1
    <3> QED
      BY <2>2, <3>2
  <2>4. own.geps[k] = [j \in 1 .. Len(v.geps[k]) |-> own.geps[k][j]]
    BY <1>4, <2>1, <2>2
  <2>5. IsSeq(own.geps[k]) /\ DOMAIN own.geps[k] = 1 .. Len(v.geps[k])
    BY <2>2, <2>4, MakeSeq
  <2>6. DOMAIN <<>> = {}
    OBVIOUS
  <2> QED
    BY <2>2, <2>3, <2>5, <2>6
<1>7. IsPointer(own)
  BY <1>4, <1>5, <1>6 DEF IsPointer
<1>8. ASSUME NEW x \in IndexUses(own) PROVE x \in Range(NewParams(u))
  <2>1. PICK k \in DOMAIN own.geps : \E j \in DOMAIN own.geps[k] : own.geps[k][j].kind = "param" /\ own.geps[k][j].id = x
    BY <1>8, IndexUsesAre
  <2>2. PICK j \in DOMAIN own.geps[k] : own.geps[k][j].kind = "param" /\ own.geps[k][j].id = x
    BY <2>1
  <2>3. k \in DOMAIN v.geps /\ j \in DOMAIN v.geps[k]
    BY <1>4
  <2>4. v.geps[k][j].kind # "const"
    BY <1>4, <2>2, <2>3
  <2> DEFINE name == p \o <<k, j>>
  <2>0. own.geps[k][j] = [kind |-> "param", id |-> name]
    BY <1>4, <2>3, <2>4
  <2>5. x = name
    <3> HIDE DEF name
    <3> QED
      BY <2>0, <2>2
  <2> QED
    BY <1>2, <2>3, <2>4, <2>5 DEF IsVariable
<1>9. BaseUse(own) = {}
  BY <1>4 DEF BaseUse
<1> QED
  BY <1>4, <1>7, <1>8, <1>9 DEF own, v

LEMMA SpecializedIs ==
  ASSUME IsModule(functions), NEW f, NEW u \in Users(f)
  PROVE  LET g == u.in
             after == SpecializeCall(u)
             body == ReplaceAllUses(functions[f], OwnPointers(u))
         IN  /\ Clone \in Nat \ {0} /\ Clone \notin DOMAIN functions
             /\ DOMAIN after = DOMAIN functions \cup {Clone}
             /\ \A h \in DOMAIN functions \ {g} : after[h] = functions[h]
             /\ DOMAIN after[g] = DOMAIN functions[g] /\ SameSignature(functions[g], after[g])
             /\ after[g].accesses = functions[g].accesses
             /\ after[g].calls = (functions[g].calls \ {u.call}) \cup {NewCall(u)}
             /\ DOMAIN after[Clone] = DOMAIN functions[f]
             /\ \A field \in {"kernel", "noinline", "ubo", "private"} : after[Clone][field] = functions[f][field]
             /\ after[Clone].params = functions[f].params \o NewParams(u)
             /\ after[Clone].calls = body.calls /\ after[Clone].accesses = body.accesses
<1> DEFINE g == u.in
           after == SpecializeCall(u)
           body == ReplaceAllUses(functions[f], OwnPointers(u))
           version == [body EXCEPT !.params = @ \o NewParams(u)]
           callers == [functions EXCEPT ![g].calls = (@ \ {u.call}) \cup {NewCall(u)}]
<1>1. /\ g \in DOMAIN functions /\ f \in DOMAIN functions /\ u.call.callee = f
      /\ IsFunction(functions, functions[g]) /\ IsFunction(functions, functions[f])
  BY UserFacts
<1>2. /\ DOMAIN functions[g] = {"kernel", "noinline", "params", "ubo", "private", "calls", "accesses"}
      /\ DOMAIN functions[f] = {"kernel", "noinline", "params", "ubo", "private", "calls", "accesses"}
  BY <1>1 DEF IsFunction
<1>3. Clone \in Nat \ {0} /\ Clone \notin DOMAIN functions
  <2>1. IsFiniteSet(DOMAIN functions) /\ DOMAIN functions \subseteq Nat
    BY DEF IsModule
  <2>2. Max(DOMAIN functions) \in DOMAIN functions /\ \A x \in DOMAIN functions : x <= Max(DOMAIN functions)
    BY <1>1, <2>1, MaxFacts
  <2> DEFINE top == Max(DOMAIN functions)
  <2>3. top \in Nat /\ \A x \in DOMAIN functions : x \in Nat /\ x <= top
    BY <2>1, <2>2
  <2> HIDE DEF top
  <2>4. top + 1 \in Nat \ {0} /\ top + 1 \notin DOMAIN functions
    BY <2>3
  <2> QED
    BY <2>4 DEF Clone, top
<1>4. after = [h \in DOMAIN functions \cup {Clone} |-> IF h = Clone THEN version ELSE callers[h]]
  BY <1>1 DEF SpecializeCall, OwnPointers, NewParams, NewArgs, NewCall, Clone
<1>5. /\ DOMAIN body = DOMAIN functions[f]
      /\ \A field \in {"kernel", "noinline", "params", "ubo", "private"} : body[field] = functions[f][field]
  BY <1>1, ReplaceAllUsesIs
<1> HIDE DEF body, after, g
<1>6. /\ DOMAIN version = DOMAIN functions[f]
      /\ \A field \in {"kernel", "noinline", "ubo", "private"} : version[field] = functions[f][field]
      /\ version.params = functions[f].params \o NewParams(u)
      /\ version.calls = body.calls /\ version.accesses = body.accesses
  BY <1>2, <1>5
<1>7. /\ DOMAIN callers = DOMAIN functions
      /\ \A h \in DOMAIN functions \ {g} : callers[h] = functions[h]
      /\ DOMAIN callers[g] = DOMAIN functions[g] /\ SameSignature(functions[g], callers[g])
      /\ callers[g].accesses = functions[g].accesses
      /\ callers[g].calls = (functions[g].calls \ {u.call}) \cup {NewCall(u)}
  BY <1>1, <1>2 DEF SameSignature
<1> HIDE DEF version, callers
<1>8. /\ DOMAIN after = DOMAIN functions \cup {Clone} /\ after[Clone] = version
      /\ \A h \in DOMAIN functions : after[h] = callers[h]
  BY <1>3, <1>4
<1> QED
  BY <1>1, <1>3, <1>6, <1>7, <1>8 DEF after, g, body

(* Who calls whom after it. *)
LEMMA SpecializedCalls ==
  ASSUME IsModule(functions), NEW f, NEW u \in Users(f)
  PROVE  /\ \A h \in DOMAIN functions \ {u.in} : CalledBy(SpecializeCall(u)[h]) = CalledBy(functions[h])
         /\ CalledBy(SpecializeCall(u)[u.in]) \subseteq CalledBy(functions[u.in]) \cup {Clone}
         /\ (CalledBy(functions[u.in]) \ {f}) \cup {Clone} \subseteq CalledBy(SpecializeCall(u)[u.in])
         /\ CalledBy(SpecializeCall(u)[Clone]) = CalledBy(functions[f])
<1> DEFINE after == SpecializeCall(u)
           body == ReplaceAllUses(functions[f], OwnPointers(u))
<1>1. /\ u.in \in DOMAIN functions /\ u.call \in functions[u.in].calls /\ u.call.callee = f
      /\ IsFunction(functions, functions[f]) /\ IsCallIn(functions, functions[u.in], u.call)
  BY UserFacts
<1>2. /\ \A h \in DOMAIN functions \ {u.in} : after[h] = functions[h]
      /\ after[u.in].calls = (functions[u.in].calls \ {u.call}) \cup {NewCall(u)}
      /\ after[Clone].calls = body.calls
  BY SpecializedIs
<1>3. NewCall(u).callee = Clone
  BY <1>1 DEF NewCall, IsCallIn
<1>4. /\ \A d \in body.calls : \E c \in functions[f].calls : d.callee = c.callee
      /\ \A c \in functions[f].calls : \E d \in body.calls : d.callee = c.callee
  <2>1. /\ \A d \in body.calls : \E c \in functions[f].calls : IsReplacedCall(d, c, OwnPointers(u))
        /\ \A c \in functions[f].calls : \E d \in body.calls : IsReplacedCall(d, c, OwnPointers(u))
    BY <1>1, ReplaceAllUsesIs
  <2> HIDE DEF body
  <2> QED
    BY <2>1 DEF IsReplacedCall
<1> HIDE DEF after, body
<1>5. CalledBy(after[Clone]) = CalledBy(functions[f])
  BY <1>2, <1>4 DEF CalledBy
<1>6. \A h \in DOMAIN functions \ {u.in} : CalledBy(after[h]) = CalledBy(functions[h])
  BY <1>2
<1>7. CalledBy(after[u.in]) \subseteq CalledBy(functions[u.in]) \cup {Clone}
  BY <1>2, <1>3 DEF CalledBy
<1>8. (CalledBy(functions[u.in]) \ {f}) \cup {Clone} \subseteq CalledBy(after[u.in])
  BY <1>1, <1>2, <1>3 DEF CalledBy
<1> QED
  BY <1>5, <1>6, <1>7, <1>8 DEF after

LEMMA SpecializedCalledIn ==
  ASSUME IsModule(functions), NEW f, NEW u \in Users(f)
  PROVE  /\ CalledIn(SpecializeCall(u)) \subseteq CalledIn(functions) \cup {Clone}
         /\ (CalledIn(functions) \ {f}) \cup {Clone} \subseteq CalledIn(SpecializeCall(u))
<1> DEFINE after == SpecializeCall(u)
<1>1. u.in \in DOMAIN functions /\ f \in DOMAIN functions
  BY UserFacts
<1>2. DOMAIN after = DOMAIN functions \cup {Clone}
  BY SpecializedIs
<1>3. /\ \A h \in DOMAIN functions \ {u.in} : CalledBy(after[h]) = CalledBy(functions[h])
      /\ CalledBy(after[u.in]) \subseteq CalledBy(functions[u.in]) \cup {Clone}
      /\ (CalledBy(functions[u.in]) \ {f}) \cup {Clone} \subseteq CalledBy(after[u.in])
      /\ CalledBy(after[Clone]) = CalledBy(functions[f])
  BY SpecializedCalls
<1> HIDE DEF after
<1>4. ASSUME NEW h \in DOMAIN after PROVE CalledBy(after[h]) \subseteq CalledIn(functions) \cup {Clone}
  <2>1. CASE h = Clone
    BY <1>1, <1>3, <2>1 DEF CalledIn
  <2>2. CASE h # Clone
    BY <1>1, <1>2, <1>3, <2>2 DEF CalledIn
  <2> QED
    BY <2>1, <2>2
<1>5. ASSUME NEW x \in (CalledIn(functions) \ {f}) \cup {Clone} PROVE x \in CalledIn(after)
  <2>1. CASE x = Clone
    BY <1>1, <1>2, <1>3, <2>1 DEF CalledIn
  <2>2. CASE x # Clone
    <3>1. PICK h \in DOMAIN functions : x \in CalledBy(functions[h])
      BY <1>5, <2>2 DEF CalledIn
    <3>2. x \in CalledBy(after[h])
      BY <1>3, <1>5, <2>2, <3>1
    <3> QED
      BY <1>2, <3>1, <3>2 DEF CalledIn
  <2> QED
    BY <2>1, <2>2
<1>6. CalledIn(after) \subseteq CalledIn(functions) \cup {Clone}
  BY <1>4 DEF CalledIn
<1> QED
  BY <1>5, <1>6 DEF after

LEMMA SpecializedNotRecursive ==
  ASSUME IsModule(functions), NEW f, NEW u \in Users(f)
  PROVE  IsNotRecursive(SpecializeCall(u))
<1> DEFINE after == SpecializeCall(u)
           g == u.in
<1>1. g \in DOMAIN functions /\ f \in DOMAIN functions /\ f \in CalledBy(functions[g])
  BY UserFacts DEF CalledBy
<1>2. DOMAIN after = DOMAIN functions \cup {Clone} /\ Clone \notin DOMAIN functions
  BY SpecializedIs
<1>3. /\ \A h \in DOMAIN functions \ {g} : CalledBy(after[h]) = CalledBy(functions[h])
      /\ CalledBy(after[g]) \subseteq CalledBy(functions[g]) \cup {Clone}
      /\ CalledBy(after[Clone]) = CalledBy(functions[f])
  BY SpecializedCalls
<1>4. \A h \in DOMAIN functions : CalledBy(functions[h]) \subseteq DOMAIN functions
  BY CalledAreFunctions DEF CalledIn
<1>5. ASSUME NEW group, group \subseteq DOMAIN functions, group # {}
      PROVE  \E e \in group : \A h \in group : e \notin CalledBy(functions[h])
  <2>1. group \in (SUBSET DOMAIN functions) \ {{}}
    BY <1>5
  <2>2. \E e \in group : \A h \in group : \A c \in functions[h].calls : c.callee # e
    BY <2>1 DEF IsModule, IsNotRecursive
  <2> QED
    BY <2>2 DEF CalledBy
<1> HIDE DEF after, g
<1>6. \A h \in DOMAIN functions : CalledBy(after[h]) \subseteq CalledBy(functions[h]) \cup {Clone}
  BY <1>3
<1>7. ASSUME NEW group, group \subseteq DOMAIN after, group # {}
      PROVE  \E e \in group : \A h \in group : e \notin CalledBy(after[h])
  <2>1. CASE Clone \notin group
    <3>1. group \subseteq DOMAIN functions
      BY <1>2, <1>7, <2>1
    <3>2. PICK e \in group : \A h \in group : e \notin CalledBy(functions[h])
      BY <1>5, <1>7, <3>1
    <3> QED
      BY <1>6, <2>1, <3>1, <3>2
  <2>2. CASE Clone \in group
    <3> DEFINE others == (group \ {Clone}) \cup {f}
    <3>1. others \subseteq DOMAIN functions /\ others # {}
      BY <1>1, <1>2, <1>7
    <3>2. \A h \in group : h \in others \/ h = Clone
      OBVIOUS
    <3>3. f \in others /\ \A h \in others : h \in group \/ h = f
      OBVIOUS
    <3> HIDE DEF others
    <3>4. PICK e \in others : \A h \in others : e \notin CalledBy(functions[h])
      BY <1>5, <3>1
    <3>5. CASE e \in group
      <4>1. e # Clone
        BY <1>2, <3>1
      <4>2. \A h \in group : e \notin CalledBy(after[h])
        BY <1>3, <1>6, <3>1, <3>2, <3>3, <3>4, <4>1
      <4> QED
        BY <3>5, <4>2
    <3>6. CASE e \notin group
      <4>1. g \notin group
        BY <1>1, <1>2, <3>2, <3>3, <3>4, <3>6
      <4>2. \A h \in group : Clone \notin CalledBy(after[h])
        <5>1. \A h \in others : Clone \notin CalledBy(functions[h])
          BY <1>2, <1>4, <3>1
        <5> QED
          BY <1>3, <3>1, <3>2, <3>3, <4>1, <5>1
      <4> QED
        BY <2>2, <4>2
    <3> QED
      BY <3>5, <3>6
  <2> QED
    BY <2>1, <2>2
<1>8. IsNotRecursive(after)
  BY <1>7 DEF IsNotRecursive, CalledBy
<1> QED
  BY <1>8 DEF after

(* The version as a function of the module, and the call of it. *)
ExtendsParams(params, old, new) ==
  /\ IsSeq(params) /\ NoneTwice(params)
  /\ DOMAIN params = 1 .. Len(old) + Len(new)
  /\ \A i \in DOMAIN old : i \in DOMAIN params /\ params[i] = old[i]
  /\ \A i \in 1 .. Len(new) : params[Len(old) + i] = new[i]
  /\ \A i \in DOMAIN params : i \in DOMAIN old \/ \E j \in 1 .. Len(new) : i = Len(old) + j
  /\ Range(old) \cup Range(new) \subseteq Range(params)

LEMMA VersionParams ==
  ASSUME IsModule(functions), NEW f, NEW u \in Users(f), \A q \in Range(functions[f].params) : IsNamed(q),
         NEW params, params = functions[f].params \o NewParams(u)
  PROVE  ExtendsParams(params, functions[f].params, NewParams(u))
<1> DEFINE old == functions[f].params
           new == NewParams(u)
           n == Len(old)
<1>1. IsSeq(old) /\ NoneTwice(old)
  BY UserFacts DEF IsFunction, NoneTwice
<1>2. IsSeq(new) /\ NoneTwice(new) /\ (\A x \in Range(new) : IsNewName(x))
  BY NewParamsFacts
<1>3. \A q \in Range(old) : ~IsNewName(q)
  BY NewNamesDiffer
<1>0. params = old \o new
  OBVIOUS
<1> HIDE DEF new, old
<1>4. n \in Nat /\ DOMAIN old = 1 .. n /\ Len(new) \in Nat /\ DOMAIN new = 1 .. Len(new)
  BY <1>1, <1>2, IsSeqFacts
<1>5. /\ IsSeq(params)
      /\ DOMAIN params = 1 .. n + Len(new)
      /\ \A k \in 1 .. n : params[k] = old[k]
      /\ \A k \in 1 .. Len(new) : params[n + k] = new[k]
      /\ \A k \in DOMAIN params : k \in 1 .. n \/ \E j \in 1 .. Len(new) : k = n + j
  BY <1>0, <1>1, <1>2, ConcatFacts
<1> HIDE DEF n
<1>6. \A i \in 1 .. n : i \in DOMAIN params
  BY <1>4, <1>5
<1>7. \A i \in 1 .. Len(new) : n + i \in DOMAIN params
  BY <1>4, <1>5
<1>8. Range(old) \cup Range(new) \subseteq Range(params)
  <2>1. ASSUME NEW x \in Range(old) PROVE x \in Range(params)
    <3>1. PICK k \in 1 .. n : old[k] = x
      BY <1>4, <2>1 DEF Range
    <3> QED
      BY <1>5, <1>6, <3>1 DEF Range
  <2>2. ASSUME NEW x \in Range(new) PROVE x \in Range(params)
    <3>1. PICK k \in 1 .. Len(new) : new[k] = x
      BY <1>4, <2>2 DEF Range
    <3> QED
      BY <1>5, <1>7, <3>1 DEF Range
  <2> QED
    BY <2>1, <2>2
<1>9. \A i \in 1 .. n : \A j \in 1 .. Len(new) : old[i] # new[j]
  BY <1>2, <1>3, <1>4 DEF Range
<1>10. ASSUME NEW i \in DOMAIN params, NEW j \in DOMAIN params, params[i] = params[j] PROVE i = j
  <2>1. CASE i \in 1 .. n /\ j \in 1 .. n
    BY <1>1, <1>4, <1>5, <1>10, <2>1 DEF NoneTwice
  <2>2. CASE i \in 1 .. n /\ j \notin 1 .. n
    <3>1. PICK b \in 1 .. Len(new) : j = n + b
      BY <1>5, <2>2
    <3> QED
      BY <1>5, <1>9, <1>10, <2>2, <3>1
  <2>3. CASE i \notin 1 .. n /\ j \in 1 .. n
    <3>1. PICK a \in 1 .. Len(new) : i = n + a
      BY <1>5, <2>3
    <3> QED
      BY <1>5, <1>9, <1>10, <2>3, <3>1
  <2>4. CASE i \notin 1 .. n /\ j \notin 1 .. n
    <3>1. PICK a \in 1 .. Len(new) : i = n + a
      BY <1>5, <2>4
    <3>2. PICK b \in 1 .. Len(new) : j = n + b
      BY <1>5, <2>4
    <3>3. new[a] = new[b]
      BY <1>5, <1>10, <3>1, <3>2
    <3> QED
      BY <1>2, <1>4, <3>1, <3>2, <3>3 DEF NoneTwice
  <2> QED
    BY <2>1, <2>2, <2>3, <2>4
<1>11. NoneTwice(params)
  BY <1>10 DEF NoneTwice
<1>12. ExtendsParams(params, old, new)
  <2>1. IsSeq(params) /\ NoneTwice(params) /\ Range(old) \cup Range(new) \subseteq Range(params)
    BY <1>5, <1>8, <1>11
  <2>2. DOMAIN params = 1 .. Len(old) + Len(new)
    BY <1>5 DEF n
  <2>3. \A i \in DOMAIN old : i \in DOMAIN params /\ params[i] = old[i]
    BY <1>4, <1>5, <1>6
  <2>4. \A i \in 1 .. Len(new) : params[Len(old) + i] = new[i]
    BY <1>5 DEF n
  <2>5. \A i \in DOMAIN params : i \in DOMAIN old \/ \E j \in 1 .. Len(new) : i = Len(old) + j
    <3>1. \A i \in DOMAIN params : i \in 1 .. n \/ \E j \in 1 .. Len(new) : i = n + j
      BY <1>5
    <3> QED
      BY <1>4, <3>1 DEF n
  <2> QED
    BY <2>1, <2>2, <2>3, <2>4, <2>5 DEF ExtendsParams
<1> QED
  BY <1>12 DEF old, new

LEMMA VersionFits ==
  ASSUME IsModule(functions), NEW f, NEW u \in Users(f), CanSpecialize(u),
         \A q \in Range(functions[f].params) : IsNamed(q)
  PROVE  /\ DOMAIN OwnPointers(u) = functions[f].ubo
         /\ \A q \in functions[f].ubo :
              /\ IsPointer(OwnPointers(u)[q]) /\ OwnPointers(u)[q].kind = "resource"
              /\ UsesIn(OwnPointers(u)[q]) \subseteq Range(NewParams(u))
         /\ Fits(functions[f], OwnPointers(u), SpecializeCall(u)[Clone])
         /\ PassesMemory(functions[f], u.call) => FitsPrivate(functions[f], OwnPointers(u))
<1> DEFINE new == OwnPointers(u)
           version == SpecializeCall(u)[Clone]
           old == functions[f].params
<1>1. /\ u.call.callee = f /\ IsFunction(functions, functions[f])
      /\ IsCallIn(functions, functions[u.in], u.call)
  BY UserFacts
<1>2. functions[f].ubo \subseteq Range(old) /\ functions[f].private \subseteq Range(old)
  BY <1>1 DEF IsFunction
<1>3. \A q \in functions[f].ubo : Given(u)[q].kind = "resource"
  BY <1>1 DEF CanSpecialize
<1>4. DOMAIN new = functions[f].ubo /\ \A q \in functions[f].ubo : new[q] = OwnPointer(q, Given(u)[q])
  BY <1>1 DEF OwnPointers
<1> HIDE DEF new
<1>5. ASSUME NEW q \in functions[f].ubo
      PROVE  /\ IsPointer(new[q]) /\ new[q].kind = "resource" /\ BaseUse(new[q]) = {}
             /\ IndexUses(new[q]) \subseteq Range(NewParams(u))
  BY <1>3, <1>4, OwnPointerFacts
<1>6. version.params = old \o NewParams(u) /\ version.private = functions[f].private
  BY SpecializedIs
<1> HIDE DEF version
<1>7. Range(old) \cup Range(NewParams(u)) \subseteq Range(version.params)
  <2>1. ExtendsParams(version.params, old, NewParams(u))
    BY <1>6, VersionParams
  <2> QED
    BY <2>1 DEF ExtendsParams
<1>8. Range(NewParams(u)) \cap version.private = {}
  <2>1. \A x \in Range(NewParams(u)) : IsNewName(x)
    BY NewParamsFacts
  <2> QED
    BY <1>2, <1>6, <2>1, NewNamesDiffer
<1>9. \A q \in DOMAIN new : IsPointerIn(version, new[q])
  BY <1>4, <1>5, <1>7, <1>8, IsPointerInAre
<1>10. Fits(functions[f], new, version)
  BY <1>4, <1>5, <1>6, <1>7, <1>9 DEF Fits
<1>11. ASSUME PassesMemory(functions[f], u.call), NEW q \in functions[f].private \cap DOMAIN new PROVE FALSE
  <2>1. PICK i \in DOMAIN u.call.args : old[i] = q /\ Given(u)[q] = u.call.args[i]
    BY <1>2, <1>11, GivenPointers
  <2>2. IsMemoryObject(Given(u)[q])
    BY <1>11, <2>1 DEF PassesMemory
  <2> QED
    BY <1>3, <1>4, <1>11, <2>2 DEF IsMemoryObject
<1>12. \A q \in functions[f].ubo : UsesIn(new[q]) \subseteq Range(NewParams(u))
  BY <1>5, UsesAre
<1> QED
  BY <1>4, <1>5, <1>10, <1>11, <1>12 DEF new, version, FitsPrivate

IsOldArg(u, i) == /\ i \in DOMAIN u.call.args /\ NewCall(u).args[i] = u.call.args[i]
                  /\ SpecializeCall(u)[Clone].params[i] = functions[u.call.callee].params[i]

IsNewArg(u, i) == /\ SpecializeCall(u)[Clone].params[i] \in Range(NewParams(u))
                  /\ \E j \in DOMAIN NewArgs(u) : NewCall(u).args[i] = NewArgs(u)[j]

LEMMA NewCallIs ==
  ASSUME IsModule(functions), NEW f, NEW u \in Users(f), \A q \in Range(functions[f].params) : IsNamed(q)
  PROVE  /\ DOMAIN NewCall(u) = {"site", "callee", "args"} /\ NewCall(u).callee = Clone
         /\ IsSeq(NewCall(u).args) /\ Len(NewCall(u).args) = Len(SpecializeCall(u)[Clone].params)
         /\ \A i \in DOMAIN NewCall(u).args : IsOldArg(u, i) \/ IsNewArg(u, i)
<1> DEFINE call == NewCall(u)
           old == functions[f].params
           new == NewParams(u)
           params == SpecializeCall(u)[Clone].params
<1>1. /\ u.call.callee = f /\ IsFunction(functions, functions[f])
      /\ IsCallIn(functions, functions[u.in], u.call)
  BY UserFacts
<1>2. call.callee = Clone /\ DOMAIN call = {"site", "callee", "args"} /\ call.args = u.call.args \o NewArgs(u)
  BY <1>1 DEF NewCall, IsCallIn
<1>3. params = old \o new
  BY SpecializedIs
<1> HIDE DEF params, call
<1>0. ExtendsParams(params, functions[f].params, NewParams(u))
  BY <1>3, VersionParams
<1>4. /\ IsSeq(params)
      /\ DOMAIN params = 1 .. Len(old) + Len(new)
      /\ \A i \in DOMAIN old : i \in DOMAIN params /\ params[i] = old[i]
      /\ \A i \in 1 .. Len(new) : params[Len(old) + i] = new[i]
  <2> HIDE DEF old, new
  <2>1. ExtendsParams(params, old, new)
    BY <1>0 DEF old, new
  <2> QED
    BY <2>1 DEF ExtendsParams
<1>5. IsSeq(NewArgs(u)) /\ DOMAIN NewArgs(u) = DOMAIN new /\ IsSeq(new)
  BY NewArgsFacts, NewParamsFacts
<1>6. /\ Len(new) \in Nat /\ DOMAIN new = 1 .. Len(new) /\ Len(NewArgs(u)) = Len(new)
  <2>1. Len(new) \in Nat /\ DOMAIN new = 1 .. Len(new)
    BY <1>5, IsSeqFacts
  <2>2. Len(NewArgs(u)) \in Nat /\ DOMAIN NewArgs(u) = 1 .. Len(NewArgs(u))
    BY <1>5, IsSeqFacts
  <2> QED
    BY <1>5, <2>1, <2>2
<1>7. IsSeq(u.call.args) /\ Len(u.call.args) = Len(old)
  BY <1>1 DEF IsCallIn
<1>8. Len(old) \in Nat /\ DOMAIN u.call.args = 1 .. Len(old) /\ DOMAIN old = 1 .. Len(old)
  BY <1>1, <1>7, IsSeqFacts DEF IsFunction
<1>9. /\ IsSeq(call.args)
      /\ DOMAIN call.args = 1 .. Len(u.call.args) + Len(NewArgs(u))
      /\ \A k \in 1 .. Len(u.call.args) : call.args[k] = u.call.args[k]
      /\ \A k \in 1 .. Len(NewArgs(u)) : call.args[Len(u.call.args) + k] = NewArgs(u)[k]
      /\ \A k \in DOMAIN call.args :
           k \in 1 .. Len(u.call.args) \/ \E j \in 1 .. Len(NewArgs(u)) : k = Len(u.call.args) + j
  <2> DEFINE s == u.call.args
             t == NewArgs(u)
  <2>1. IsSeq(s) /\ IsSeq(t) /\ call.args = s \o t
    BY <1>2, <1>5, <1>7
  <2> HIDE DEF s, t
  <2>2. /\ IsSeq(call.args)
        /\ DOMAIN call.args = 1 .. Len(s) + Len(t)
        /\ \A k \in 1 .. Len(s) : call.args[k] = s[k]
        /\ \A k \in 1 .. Len(t) : call.args[Len(s) + k] = t[k]
        /\ \A k \in DOMAIN call.args : k \in 1 .. Len(s) \/ \E j \in 1 .. Len(t) : k = Len(s) + j
    BY <2>1, ConcatFacts
  <2> QED
    BY <2>2 DEF s, t
<1>10. Len(call.args) = Len(params)
  <2>1. Len(call.args) \in Nat /\ DOMAIN call.args = 1 .. Len(call.args)
    BY <1>9, IsSeqFacts
  <2>2. Len(params) \in Nat /\ DOMAIN params = 1 .. Len(params)
    BY <1>4, IsSeqFacts
  <2>3. 1 .. Len(call.args) = 1 .. Len(params)
    BY <1>4, <1>6, <1>7, <1>9, <2>1, <2>2
  <2> QED
    BY <2>1, <2>2, <2>3
<1> HIDE DEF old, new
<1>11. ASSUME NEW i \in DOMAIN call.args PROVE IsOldArg(u, i) \/ IsNewArg(u, i)
  <2>1. CASE i \in 1 .. Len(u.call.args)
    <3>1. i \in DOMAIN u.call.args /\ call.args[i] = u.call.args[i] /\ params[i] = old[i]
      BY <1>4, <1>7, <1>8, <1>9, <2>1
    <3> QED
      BY <1>1, <3>1 DEF IsOldArg, call, params, old
  <2>2. CASE i \notin 1 .. Len(u.call.args)
    <3>1. PICK j \in 1 .. Len(NewArgs(u)) : i = Len(u.call.args) + j
      BY <1>9, <2>2
    <3>2. params[i] = new[j] /\ call.args[i] = NewArgs(u)[j] /\ j \in DOMAIN NewArgs(u) /\ j \in DOMAIN new
      BY <1>4, <1>5, <1>6, <1>7, <1>9, <3>1
    <3>3. params[i] \in Range(new)
      BY <3>2 DEF Range
    <3> QED
      BY <3>2, <3>3 DEF IsNewArg, call, params, new
  <2> QED
    BY <2>1, <2>2
<1> QED
  BY <1>2, <1>9, <1>10, <1>11 DEF call, params

LEMMA NewNamesAreNew ==
  ASSUME IsModule(functions), NEW f, NEW u \in Users(f), \A q \in Range(functions[f].params) : IsNamed(q)
  PROVE  Range(NewParams(u)) \cap Range(functions[f].params) = {}
<1>1. \A x \in Range(NewParams(u)) : IsNewName(x)
  BY NewParamsFacts
<1> QED
  BY <1>1, NewNamesDiffer

LEMMA NewCallIsLegal ==
  ASSUME IsModule(functions), NEW f, NEW u \in Users(f), \A q \in Range(functions[f].params) : IsNamed(q)
  PROVE  /\ IsCallIn(SpecializeCall(u), functions[u.in], NewCall(u))
         /\ PassesMemory(functions[f], u.call) => PassesMemory(SpecializeCall(u)[Clone], NewCall(u))
         /\ \A p : CallInPlace(u.call, p) => CallInPlace(NewCall(u), p)
         /\ \A i \in DOMAIN NewCall(u).args :
              \E m \in DOMAIN u.call.args : UsesIn(NewCall(u).args[i]) \subseteq UsesIn(u.call.args[m])
<1> DEFINE after == SpecializeCall(u)
           call == NewCall(u)
           home == functions[u.in]
<1>1. /\ u.call.callee = f /\ IsFunction(functions, functions[f]) /\ IsCallIn(functions, home, u.call)
  BY UserFacts
<1>2. Clone \in DOMAIN after /\ after[Clone].private = functions[f].private
  BY SpecializedIs
<1>3. functions[f].private \subseteq Range(functions[f].params)
  BY <1>1 DEF IsFunction
<1>4. /\ DOMAIN call = {"site", "callee", "args"} /\ call.callee = Clone
      /\ IsSeq(call.args) /\ Len(call.args) = Len(after[Clone].params)
      /\ \A i \in DOMAIN call.args : IsOldArg(u, i) \/ IsNewArg(u, i)
  BY NewCallIs
<1>5. \A x \in Range(NewParams(u)) : x \notin functions[f].private
  BY <1>3, NewNamesAreNew
<1>6. \A j \in DOMAIN NewArgs(u) :
        /\ IsPointerIn(home, NewArgs(u)[j])
        /\ NewArgs(u)[j].kind = "param" => NewArgs(u)[j].id \notin home.private
        /\ NewArgs(u)[j].geps = <<>>
        /\ \E m \in DOMAIN u.call.args : UsesIn(NewArgs(u)[j]) \subseteq UsesIn(u.call.args[m])
  BY NewArgsFacts
<1> HIDE DEF after, call
<1>7. ASSUME NEW i \in DOMAIN call.args, IsOldArg(u, i)
      PROVE  i \in DOMAIN u.call.args /\ call.args[i] = u.call.args[i] /\ after[Clone].params[i] = functions[f].params[i]
  BY <1>1, <1>7 DEF IsOldArg, call, after
<1>8. ASSUME NEW i \in DOMAIN call.args, IsNewArg(u, i)
      PROVE  /\ after[Clone].params[i] \notin functions[f].private
             /\ \E j \in DOMAIN NewArgs(u) : call.args[i] = NewArgs(u)[j]
  BY <1>5, <1>8 DEF IsNewArg, call, after
<1>9. ASSUME NEW i \in DOMAIN call.args
      PROVE  /\ IsPointerIn(home, call.args[i])
             /\ call.args[i].kind = "param" =>
                  (call.args[i].id \in home.private <=> after[Clone].params[i] \in after[Clone].private)
  <2>1. CASE IsOldArg(u, i)
    BY <1>1, <1>2, <1>7, <2>1 DEF IsCallIn
  <2>2. CASE IsNewArg(u, i)
    BY <1>2, <1>6, <1>8, <2>2
  <2> QED
    BY <1>4, <2>1, <2>2
<1>10. IsCallIn(after, home, call)
  BY <1>2, <1>4, <1>9 DEF IsCallIn
<1>11. PassesMemory(functions[f], u.call) => PassesMemory(after[Clone], call)
  BY <1>2, <1>4, <1>7, <1>8 DEF PassesMemory
<1>12. ASSUME NEW p, CallInPlace(u.call, p) PROVE CallInPlace(call, p)
  BY <1>4, <1>6, <1>7, <1>8, <1>12 DEF CallInPlace
<1>13. \A i \in DOMAIN call.args : \E m \in DOMAIN u.call.args : UsesIn(call.args[i]) \subseteq UsesIn(u.call.args[m])
  BY <1>4, <1>6, <1>7, <1>8
<1> QED
  BY <1>10, <1>11, <1>12, <1>13 DEF after, call

LEMMA SpecializedSignatures ==
  ASSUME IsModule(functions), NEW f, NEW u \in Users(f), NEW h \in DOMAIN functions
  PROVE  SameSignature(functions[h], SpecializeCall(u)[h]) /\ SpecializeCall(u)[h].accesses = functions[h].accesses
<1>1. CASE h = u.in
  BY <1>1, SpecializedIs
<1>2. CASE h # u.in
  BY <1>2, SpecializedIs DEF SameSignature
<1> QED
  BY <1>1, <1>2

LEMMA SpecializedModule ==
  ASSUME IsModule(functions), NEW f \in HelpersOf(functions), NEW u \in Users(f), CanSpecialize(u),
         \A q \in Range(functions[f].params) : IsNamed(q)
  PROVE  IsModule(SpecializeCall(u))
<1> DEFINE after == SpecializeCall(u)
           g == u.in
           new == OwnPointers(u)
           version == after[Clone]
<1>1. /\ g \in DOMAIN functions /\ IsFunction(functions, functions[f]) /\ ~functions[f].kernel
      /\ \A h \in DOMAIN functions : IsFunction(functions, functions[h])
  BY UserFacts DEF HelpersOf, IsModule
<1>2. /\ Clone \in Nat \ {0} /\ Clone \notin DOMAIN functions /\ DOMAIN after = DOMAIN functions \cup {Clone}
      /\ \A h \in DOMAIN functions \ {g} : after[h] = functions[h]
      /\ DOMAIN after[g] = DOMAIN functions[g] /\ SameSignature(functions[g], after[g])
      /\ after[g].accesses = functions[g].accesses
      /\ after[g].calls = (functions[g].calls \ {u.call}) \cup {NewCall(u)}
  BY SpecializedIs
<1>3. /\ DOMAIN version = DOMAIN functions[f]
      /\ \A field \in {"kernel", "noinline", "ubo", "private"} : version[field] = functions[f][field]
      /\ version.params = functions[f].params \o NewParams(u)
      /\ version.calls = ReplaceAllUses(functions[f], new).calls
      /\ version.accesses = ReplaceAllUses(functions[f], new).accesses
  BY SpecializedIs
<1>4. \A h \in DOMAIN functions :
        after[h].params = functions[h].params /\ after[h].private = functions[h].private
  BY SpecializedSignatures DEF SameSignature
<1>5. Fits(functions[f], new, version)
  BY VersionFits
<1>6. /\ \A d \in version.calls : \E c \in functions[f].calls : IsReplacedCall(d, c, new)
      /\ \A d \in version.accesses : \E a \in functions[f].accesses : IsReplacedAccess(d, a, new)
  BY <1>1, <1>3, ReplaceAllUsesIs
<1>7. IsSeq(version.params) /\ NoneTwice(version.params) /\ Range(functions[f].params) \subseteq Range(version.params)
  <2> DEFINE params == version.params
  <2>1. params = functions[f].params \o NewParams(u)
    BY <1>3
  <2> HIDE DEF params
  <2>2. ExtendsParams(params, functions[f].params, NewParams(u))
    BY <2>1, VersionParams
  <2>3. IsSeq(params) /\ NoneTwice(params) /\ Range(functions[f].params) \subseteq Range(params)
    BY <2>2 DEF ExtendsParams
  <2> QED
    BY <2>3 DEF params
<1>8. IsCallIn(after, functions[g], NewCall(u))
  BY NewCallIsLegal
<1>9. IsNotRecursive(after)
  BY SpecializedNotRecursive
<1> HIDE DEF after, g, new, version
<1>10. ASSUME NEW body, NEW c, IsCallIn(functions, body, c) PROVE IsCallIn(after, body, c)
  <2>1. c.callee \in DOMAIN functions
    BY <1>10 DEF IsCallIn
  <2> QED
    BY <1>2, <1>4, <1>10, <2>1, SameCallee
<1>11. ASSUME NEW d \in version.calls PROVE IsCallIn(after, version, d)
  <2>1. PICK c \in functions[f].calls : IsReplacedCall(d, c, new)
    BY <1>6
  <2>2. IsCallIn(functions, functions[f], c)
    BY <1>1 DEF IsFunction
  <2>3. IsCallIn(functions, version, d)
    BY <1>5, <2>1, <2>2, CallFits
  <2> QED
    BY <1>10, <2>3
<1>12. ASSUME NEW d \in version.accesses PROVE IsAccessIn(version, d)
  <2>1. PICK a \in functions[f].accesses : IsReplacedAccess(d, a, new)
    BY <1>6
  <2>2. IsAccessIn(functions[f], a)
    BY <1>1 DEF IsFunction
  <2> QED
    BY <1>5, <2>1, <2>2, AccessFits
<1>13. IsFunction(after, version)
  <2>1. DOMAIN version = {"kernel", "noinline", "params", "ubo", "private", "calls", "accesses"} /\ version.kernel = FALSE
    BY <1>1, <1>3 DEF IsFunction
  <2>2. version.ubo \cup version.private \subseteq Range(version.params)
    BY <1>1, <1>3, <1>7 DEF IsFunction
  <2> QED
    BY <1>7, <1>11, <1>12, <2>1, <2>2 DEF IsFunction, NoneTwice
<1>14. \A d \in after[g].calls : IsCallIn(after, functions[g], d)
  <2>1. \A d \in functions[g].calls : IsCallIn(functions, functions[g], d)
    BY <1>1 DEF IsFunction
  <2> QED
    BY <1>2, <1>8, <1>10, <2>1
<1>15. \A a \in after[g].accesses : IsAccessIn(functions[g], a)
  BY <1>1, <1>2 DEF IsFunction
<1>16. \A h \in DOMAIN functions : IsFunction(after, after[h])
  BY <1>1, <1>2, <1>14, <1>15, OneChanges
<1>17. IsFiniteSet(DOMAIN after) /\ DOMAIN after \subseteq Nat \ {0}
  <2>1. IsFiniteSet(DOMAIN functions) /\ DOMAIN functions \subseteq Nat \ {0}
    BY DEF IsModule
  <2> QED
    BY <1>2, <2>1, FS_AddElement
<1>18. \A h \in DOMAIN after : IsFunction(after, after[h])
  BY <1>2, <1>13, <1>16 DEF version
<1>19. IsModule(after)
  BY <1>9, <1>17, <1>18 DEF IsModule
<1> QED
  BY <1>19 DEF after

LEMMA SpecializedForbidden ==
  ASSUME IsModule(functions), NEW f \in HelpersOf(functions), NEW u \in Users(f), CanSpecialize(u),
         \A q \in Range(functions[f].params) : IsNamed(q),
         NEW what, NoneIsCalled(functions, what)
  PROVE  NoneIsCalled(SpecializeCall(u), what)
<1> DEFINE after == SpecializeCall(u)
           new == OwnPointers(u)
<1>1. IsFunction(functions, functions[f]) /\ f \in CalledIn(functions)
  BY UserFacts
<1>2. /\ Clone \notin DOMAIN functions /\ DOMAIN after = DOMAIN functions \cup {Clone}
      /\ after[Clone].accesses = ReplaceAllUses(functions[f], new).accesses
  BY SpecializedIs
<1>3. \A h \in DOMAIN functions : after[h].kernel = functions[h].kernel /\ after[h].accesses = functions[h].accesses
  BY SpecializedSignatures DEF SameSignature
<1>4. CalledIn(after) \subseteq CalledIn(functions) \cup {Clone}
  BY SpecializedCalledIn
<1>5. /\ Fits(functions[f], new, after[Clone]) /\ DOMAIN new = functions[f].ubo
      /\ \A q \in functions[f].ubo : IsPointer(new[q])
  BY VersionFits
<1>6. \A d \in after[Clone].accesses : \E a \in functions[f].accesses : IsReplacedAccess(d, a, new)
  BY <1>1, <1>2, ReplaceAllUsesIs
<1> HIDE DEF after, new
<1>7. ~Does(after[Clone], what)
  <2> SUFFICES ASSUME NEW d \in after[Clone].accesses, Forbidden(d, what) PROVE FALSE
    BY DEF Does
  <2>1. PICK a \in functions[f].accesses : IsReplacedAccess(d, a, new)
    BY <1>6
  <2>2. IsAccessIn(functions[f], a)
    BY <1>1 DEF IsFunction
  <2>3. DOMAIN d.operands = DOMAIN a.operands /\ \A i \in DOMAIN d.operands : d.operands[i] = ReplaceIn(a.operands[i], new)
    BY <1>5, <2>1, <2>2, AccessFits
  <2>4. Forbidden(a, what)
    BY <1>5, <2>1, <2>2, <2>3, ForbiddenFits
  <2> QED
    BY <1>1, <2>4 DEF Does, NoneIsCalled
<1>8. ASSUME NEW h \in HelpersOf(after), Does(after[h], what) PROVE h \notin CalledIn(after)
  <2>1. h # Clone /\ h \in DOMAIN functions
    BY <1>2, <1>7, <1>8 DEF HelpersOf
  <2>2. h \in HelpersOf(functions) /\ Does(functions[h], what)
    BY <1>3, <1>8, <2>1 DEF HelpersOf, Does
  <2> QED
    BY <1>4, <2>1, <2>2 DEF NoneIsCalled
<1> QED
  BY <1>8 DEF NoneIsCalled, after

LEMMA SpecializedUses ==
  ASSUME IsModule(functions), NEW f \in HelpersOf(functions), NEW u \in Users(f), CanSpecialize(u),
         \A q \in Range(functions[f].params) : IsNamed(q)
  PROVE  /\ UboIsUnused(SpecializeCall(u)[Clone])
         /\ \A h \in DOMAIN functions : UsedIn(SpecializeCall(u)[h]) \subseteq UsedIn(functions[h])
<1> DEFINE after == SpecializeCall(u)
           new == OwnPointers(u)
           body == functions[f]
           g == u.in
<1>1. /\ IsFunction(functions, body) /\ body.ubo \subseteq Range(body.params)
      /\ u.call \in functions[g].calls /\ g \in DOMAIN functions
  BY UserFacts DEF IsFunction
<1>2. /\ \A h \in DOMAIN functions \ {g} : after[h] = functions[h]
      /\ after[g].calls = (functions[g].calls \ {u.call}) \cup {NewCall(u)}
      /\ after[g].accesses = functions[g].accesses
      /\ after[Clone].calls = ReplaceAllUses(functions[f], new).calls
      /\ after[Clone].accesses = ReplaceAllUses(functions[f], new).accesses
      /\ after[Clone].ubo = body.ubo
  BY SpecializedIs
<1>3. /\ Fits(body, new, after[Clone]) /\ DOMAIN new = body.ubo
      /\ \A q \in body.ubo : IsPointer(new[q]) /\ UsesIn(new[q]) \subseteq Range(NewParams(u))
  BY VersionFits
<1>4. /\ \A d \in after[Clone].calls : \E c \in body.calls : IsReplacedCall(d, c, new)
      /\ \A d \in after[Clone].accesses : \E a \in body.accesses : IsReplacedAccess(d, a, new)
  BY <1>1, <1>2, ReplaceAllUsesIs
<1>5. Range(NewParams(u)) \cap body.ubo = {}
  BY <1>1, NewNamesAreNew
<1>6. \A i \in DOMAIN NewCall(u).args : \E m \in DOMAIN u.call.args : UsesIn(NewCall(u).args[i]) \subseteq UsesIn(u.call.args[m])
  BY NewCallIsLegal
<1> HIDE DEF after, new, body, g
<1>7. ASSUME NEW v, IsPointer(v) PROVE UsesIn(ReplaceIn(v, new)) \cap body.ubo = {}
  <2>1. UsesIn(ReplaceIn(v, new)) \subseteq (UsesIn(v) \ DOMAIN new) \cup UNION {UsesIn(new[q]) : q \in DOMAIN new}
    BY <1>3, <1>7, UsesFit
  <2> SUFFICES ASSUME NEW x \in UsesIn(ReplaceIn(v, new)), x \in body.ubo PROVE FALSE
    OBVIOUS
  <2>2. x \in UNION {UsesIn(new[q]) : q \in DOMAIN new}
    BY <1>3, <2>1
  <2>3. PICK q \in body.ubo : x \in UsesIn(new[q])
    BY <1>3, <2>2
  <2> QED
    BY <1>3, <1>5, <2>3
<1>8. ASSUME NEW x \in UsedIn(after[Clone]), x \in body.ubo PROVE FALSE
  <2>1. CASE \E d \in after[Clone].calls : \E i \in DOMAIN d.args : x \in UsesIn(d.args[i])
    <3>1. PICK d \in after[Clone].calls : \E i \in DOMAIN d.args : x \in UsesIn(d.args[i])
      BY <2>1
    <3>2. PICK c \in body.calls : IsReplacedCall(d, c, new)
      BY <1>4
    <3>3. IsCallIn(functions, body, c)
      BY <1>1 DEF IsFunction
    <3>4. PICK i \in DOMAIN d.args : x \in UsesIn(d.args[i])
      BY <3>1
    <3>5. d.args[i] = ReplaceIn(c.args[i], new) /\ i \in DOMAIN c.args
      BY <1>3, <3>2, <3>3, CallFits
    <3>6. IsPointer(c.args[i])
      BY <3>3, <3>5 DEF IsCallIn, IsPointerIn
    <3> QED
      BY <1>7, <1>8, <3>4, <3>5, <3>6
  <2>2. CASE \E d \in after[Clone].accesses : \E i \in DOMAIN d.operands : x \in UsesIn(d.operands[i])
    <3>1. PICK d \in after[Clone].accesses : \E i \in DOMAIN d.operands : x \in UsesIn(d.operands[i])
      BY <2>2
    <3>2. PICK a \in body.accesses : IsReplacedAccess(d, a, new)
      BY <1>4
    <3>3. IsAccessIn(body, a)
      BY <1>1 DEF IsFunction
    <3>4. PICK i \in DOMAIN d.operands : x \in UsesIn(d.operands[i])
      BY <3>1
    <3>5. d.operands[i] = ReplaceIn(a.operands[i], new) /\ i \in DOMAIN a.operands
      BY <1>3, <3>2, <3>3, AccessFits
    <3>6. IsPointer(a.operands[i])
      BY <3>3, <3>5 DEF IsAccessIn, IsPointerIn
    <3> QED
      BY <1>7, <1>8, <3>4, <3>5, <3>6
  <2> QED
    BY <1>8, <2>1, <2>2, UsedInIs
<1>9. UboIsUnused(after[Clone])
  BY <1>2, <1>8 DEF UboIsUnused
<1>10. ASSUME NEW x \in UsedIn(after[g]) PROVE x \in UsedIn(functions[g])
  <2>1. CASE \E c \in after[g].calls : \E i \in DOMAIN c.args : x \in UsesIn(c.args[i])
    <3>1. PICK c \in after[g].calls : \E i \in DOMAIN c.args : x \in UsesIn(c.args[i])
      BY <2>1
    <3>2. CASE c = NewCall(u)
      <4>1. \E m \in DOMAIN u.call.args : x \in UsesIn(u.call.args[m])
        BY <1>6, <3>1, <3>2
      <4> QED
        BY <1>1, <4>1, UsedInIs
    <3>3. CASE c \in functions[g].calls
      BY <3>1, <3>3, UsedInIs
    <3> QED
      BY <1>2, <3>2, <3>3
  <2>2. CASE \E a \in after[g].accesses : \E i \in DOMAIN a.operands : x \in UsesIn(a.operands[i])
    BY <1>2, <2>2, UsedInIs
  <2> QED
    BY <1>10, <2>1, <2>2, UsedInIs
<1>11. \A h \in DOMAIN functions : UsedIn(after[h]) \subseteq UsedIn(functions[h])
  BY <1>2, <1>10
<1> QED
  BY <1>9, <1>11 DEF after

LEMMA SpecializedPrivate ==
  ASSUME IsModule(functions), NEW f \in HelpersOf(functions), NEW u \in Users(f), CanSpecialize(u),
         \A q \in Range(functions[f].params) : IsNamed(q), PrivateCallsAreLegal(functions)
  PROVE  PrivateCallsAreLegal(SpecializeCall(u))
<1> DEFINE after == SpecializeCall(u)
           new == OwnPointers(u)
           body == functions[f]
           g == u.in
<1>1. /\ IsFunction(functions, body) /\ f \in CalledIn(functions) /\ u.call.callee = f
      /\ u.call \in functions[g].calls /\ g \in DOMAIN functions
      /\ \A h \in DOMAIN functions : IsFunction(functions, functions[h])
  BY UserFacts DEF IsModule
<1>2. /\ Clone \notin DOMAIN functions /\ DOMAIN after = DOMAIN functions \cup {Clone}
      /\ \A h \in DOMAIN functions \ {g} : after[h] = functions[h]
      /\ after[g].calls = (functions[g].calls \ {u.call}) \cup {NewCall(u)}
      /\ after[g].accesses = functions[g].accesses
      /\ after[Clone].calls = ReplaceAllUses(functions[f], new).calls
      /\ after[Clone].accesses = ReplaceAllUses(functions[f], new).accesses
  BY SpecializedIs
<1>3. \A h \in DOMAIN functions : after[h].params = functions[h].params /\ after[h].private = functions[h].private
  BY SpecializedSignatures DEF SameSignature
<1>4. PassesMemory(body, u.call) /\ PrivateIsInPlace(body)
  BY <1>1 DEF PrivateCallsAreLegal
<1>5. Fits(body, new, after[Clone]) /\ FitsPrivate(body, new)
  BY <1>4, VersionFits
<1>6. /\ \A d \in after[Clone].calls : \E c \in body.calls : IsReplacedCall(d, c, new)
      /\ \A d \in after[Clone].accesses : \E a \in body.accesses : IsReplacedAccess(d, a, new)
  BY <1>1, <1>2, ReplaceAllUsesIs
<1>7. NewCall(u).callee = Clone
  BY NewCallIs
<1>8. PassesMemory(after[Clone], NewCall(u)) /\ \A p : CallInPlace(u.call, p) => CallInPlace(NewCall(u), p)
  BY <1>4, NewCallIsLegal
<1>9. CalledIn(after) \subseteq CalledIn(functions) \cup {Clone}
  BY SpecializedCalledIn
<1> HIDE DEF after, new, body, g
<1>10. ASSUME NEW h \in DOMAIN functions, NEW c \in functions[h].calls
       PROVE  IsCallIn(functions, functions[h], c) /\ PassesMemory(after[c.callee], c)
  <2>1. IsCallIn(functions, functions[h], c) /\ PassesMemory(functions[c.callee], c)
    BY <1>1 DEF IsFunction, PrivateCallsAreLegal
  <2>2. c.callee \in DOMAIN functions
    BY <2>1 DEF IsCallIn
  <2> QED
    BY <1>3, <2>1, <2>2 DEF PassesMemory
<1>11. ASSUME NEW d \in after[Clone].calls PROVE PassesMemory(after[d.callee], d)
  <2>1. PICK c \in body.calls : IsReplacedCall(d, c, new)
    BY <1>6
  <2>2. IsCallIn(functions, body, c) /\ PassesMemory(functions[c.callee], c)
    BY <1>1 DEF IsFunction, PrivateCallsAreLegal, body, HelpersOf
  <2>3. PassesMemory(functions[d.callee], d)
    BY <1>5, <2>1, <2>2, MemoryFits
  <2>4. d.callee \in DOMAIN functions
    BY <2>1, <2>2 DEF IsCallIn, IsReplacedCall
  <2> QED
    BY <1>3, <2>3, <2>4 DEF PassesMemory
<1>12. ASSUME NEW h \in DOMAIN after, NEW c \in after[h].calls PROVE PassesMemory(after[c.callee], c)
  <2>1. CASE h = Clone
    BY <1>11, <1>12, <2>1
  <2>2. CASE h = g
    BY <1>1, <1>2, <1>7, <1>8, <1>10, <1>12, <2>2
  <2>3. CASE h # Clone /\ h # g
    BY <1>2, <1>10, <1>12, <2>3
  <2> QED
    BY <2>1, <2>2, <2>3
<1>13. PrivateIsInPlace(after[Clone])
  <2> SUFFICES ASSUME NEW p \in after[Clone].private PROVE IsUsedInPlace(after[Clone], p)
    BY DEF PrivateIsInPlace
  <2>1. ASSUME NEW d \in after[Clone].calls PROVE CallInPlace(d, p)
    <3>1. PICK c \in body.calls : IsReplacedCall(d, c, new)
      BY <1>6
    <3>2. IsCallIn(functions, body, c)
      BY <1>1 DEF IsFunction
    <3>3. \A q \in body.private : CallInPlace(c, q)
      BY <1>4 DEF PrivateIsInPlace, IsUsedInPlace
    <3> QED
      BY <1>5, <3>1, <3>2, <3>3, CallInPlaceFits
  <2>2. ASSUME NEW d \in after[Clone].accesses PROVE AccessInPlace(d, p)
    <3>1. PICK a \in body.accesses : IsReplacedAccess(d, a, new)
      BY <1>6
    <3>2. IsAccessIn(body, a)
      BY <1>1 DEF IsFunction
    <3>3. \A q \in body.private : AccessInPlace(a, q)
      BY <1>4 DEF PrivateIsInPlace, IsUsedInPlace
    <3> QED
      BY <1>5, <3>1, <3>2, <3>3, AccessInPlaceFits
  <2> QED
    BY <2>1, <2>2 DEF IsUsedInPlace
<1>14. ASSUME NEW h \in CalledIn(functions) PROVE PrivateIsInPlace(after[h])
  <2>1. PrivateIsInPlace(functions[h]) /\ h \in DOMAIN functions
    BY CalledAreFunctions DEF PrivateCallsAreLegal
  <2>2. CASE h # g
    BY <1>2, <2>1, <2>2
  <2>3. CASE h = g
    <3> SUFFICES ASSUME NEW p \in functions[g].private PROVE IsUsedInPlace(after[g], p)
      BY <1>1, <1>3, <2>3 DEF PrivateIsInPlace
    <3>1. (\A c \in functions[g].calls : CallInPlace(c, p)) /\ \A a \in functions[g].accesses : AccessInPlace(a, p)
      BY <2>1, <2>3 DEF PrivateIsInPlace, IsUsedInPlace
    <3>2. CallInPlace(NewCall(u), p)
      BY <1>1, <1>8, <3>1
    <3> QED
      BY <1>2, <3>1, <3>2 DEF IsUsedInPlace
  <2> QED
    BY <2>2, <2>3
<1> QED
  BY <1>9, <1>12, <1>13, <1>14 DEF PrivateCallsAreLegal, after

------------------------------------------------------------------------------
(* The pipeline. What must come right before what, and what comes last. *)
LatePasses == {"OrderForDRA", "DirectResourceAccess", "RemoveUnusedArguments", "OrderForUBO", "MultiVersionUBO"}

MayFollow(before, after) ==
  /\ after = "MultiVersionUBO" => before = "OrderForUBO"
  /\ after = "DirectResourceAccess" => before = "OrderForDRA"
  /\ after \in {"OrderForDRA", "OrderForUBO"} => before \in {"FunctionInternalizer", "RemoveUnusedArguments"}
  /\ after \in LatePasses => before \in LatePasses \cup {"FunctionInternalizer"}

IsChain(s) == IsSeq(s) /\ \A i \in 1 .. Len(s) - 1 : MayFollow(s[i], s[i + 1])

(* The functions that take uniform buffers get versions. *)
MakesVersions == options.uniform /\ ~options.inlineEntryPoints

PassOK ==
  /\ IsChain(pass)
  /\ pass # <<>> => pass[Len(pass)] = "RemoveUnusedArguments"
  /\ \A i \in DOMAIN pass : pass[i] = "MultiVersionUBO" => i + 1 = Len(pass)
  /\ MakesVersions => "MultiVersionUBO" \in Range(pass) \/ Range(pass) \subseteq {"RemoveUnusedArguments"}

LEMMA TailFacts ==
  ASSUME NEW s, IsSeq(s), s # <<>>
  PROVE  /\ Len(s) \in Nat \ {0} /\ IsSeq(Tail(s)) /\ Len(Tail(s)) = Len(s) - 1
         /\ DOMAIN s = 1 .. Len(s) /\ DOMAIN Tail(s) = 1 .. Len(s) - 1
         /\ \A i \in 1 .. Len(s) - 1 : Tail(s)[i] = s[i + 1]
         /\ Head(s) = s[1] /\ (Tail(s) = <<>> <=> Len(s) = 1)
         /\ Range(s) = {s[1]} \cup Range(Tail(s))
<1>1. s \in Seq(Range(s))
  BY DEF IsSeq
<1> DEFINE n == Len(s)
           A == Range(s)
           t == Tail(s)
<1>2. n \in Nat \ {0} /\ DOMAIN s = 1 .. n /\ Head(s) = s[1]
  BY <1>1
<1>3. t \in Seq(A) /\ Len(t) = n - 1 /\ \A i \in 1 .. n - 1 : t[i] = s[i + 1]
  BY <1>1
<1> HIDE DEF A, n, t
<1>4. DOMAIN t = 1 .. n - 1 /\ t = [i \in 1 .. n - 1 |-> t[i]]
  <2>1. t \in [1 .. n - 1 -> A]
    BY <1>2, <1>3, LenProperties
  <2> QED
    BY <2>1
<1>5. n - 1 \in Nat
  BY <1>2
<1>6. IsSeq(t)
  BY <1>4, <1>5, MakeSeq
<1>7. t = <<>> <=> n = 1
  BY <1>2, <1>3
<1>8. Range(s) = {s[1]} \cup Range(t)
  <2>1. ASSUME NEW x \in Range(s) PROVE x \in {s[1]} \cup Range(t)
    <3>1. PICK i \in 1 .. n : s[i] = x
      BY <1>2, <2>1 DEF Range
    <3>2. i = 1 \/ (i - 1 \in 1 .. n - 1 /\ (i - 1) + 1 = i)
      BY <1>2
    <3> QED
      BY <1>3, <1>4, <3>1, <3>2 DEF Range
  <2>2. s[1] \in Range(s)
    BY <1>2 DEF Range
  <2>3. ASSUME NEW x \in Range(t) PROVE x \in Range(s)
    <3>1. PICK i \in 1 .. n - 1 : t[i] = x
      BY <1>4, <2>3 DEF Range
    <3>2. i + 1 \in DOMAIN s /\ s[i + 1] = x
      BY <1>2, <1>3, <3>1
    <3> QED
      BY <3>2 DEF Range
  <2> QED
    BY <2>1, <2>2, <2>3
<1> QED
  BY <1>2, <1>3, <1>4, <1>6, <1>7, <1>8 DEF n, t

(* One pass is over. *)
LEMMA TailOK ==
  ASSUME PassOK, pass # <<>>, pass' = Tail(pass), options' = options
  PROVE  /\ PassOK'
         /\ Head(pass) = pass[1] /\ Range(pass) = {pass[1]} \cup Range(pass')
         /\ pass' # <<>> => Head(pass') = pass'[1] /\ MayFollow(pass[1], pass'[1])
         /\ pass' = <<>> => pass[1] = "RemoveUnusedArguments"
         /\ pass[1] = "MultiVersionUBO" => Range(pass) \subseteq {"MultiVersionUBO", "RemoveUnusedArguments"}
<1> DEFINE s == pass
           t == pass'
           n == Len(s)
<1>1. /\ n \in Nat \ {0} /\ IsSeq(t) /\ Len(t) = n - 1
      /\ DOMAIN s = 1 .. n /\ DOMAIN t = 1 .. n - 1
      /\ \A i \in 1 .. n - 1 : t[i] = s[i + 1]
      /\ Head(s) = s[1] /\ (t = <<>> <=> n = 1)
      /\ Range(s) = {s[1]} \cup Range(t)
  BY TailFacts DEF PassOK, IsChain
<1>2. /\ \A i \in 1 .. n - 1 : MayFollow(s[i], s[i + 1])
      /\ s[n] = "RemoveUnusedArguments"
      /\ \A i \in 1 .. n : s[i] = "MultiVersionUBO" => i + 1 = n
      /\ MakesVersions => "MultiVersionUBO" \in Range(s) \/ Range(s) \subseteq {"RemoveUnusedArguments"}
  BY <1>1 DEF PassOK, IsChain
<1>3. MakesVersions' <=> MakesVersions
  BY DEF MakesVersions
<1> HIDE DEF s, t, n
<1>4. IsChain(t)
  <2>1. ASSUME NEW i \in 1 .. Len(t) - 1 PROVE MayFollow(t[i], t[i + 1])
    <3>1. i \in 1 .. n - 1 /\ i + 1 \in 1 .. n - 1
      BY <1>1
    <3> QED
      BY <1>1, <1>2, <3>1
  <2> QED
    BY <1>1, <2>1 DEF IsChain
<1>5. t # <<>> => t[Len(t)] = "RemoveUnusedArguments"
  <2> SUFFICES ASSUME t # <<>> PROVE t[Len(t)] = "RemoveUnusedArguments"
    OBVIOUS
  <2>1. n - 1 \in 1 .. n - 1 /\ (n - 1) + 1 = n /\ Len(t) = n - 1
    BY <1>1
  <2> QED
    BY <1>1, <1>2, <2>1
<1>6. \A i \in DOMAIN t : t[i] = "MultiVersionUBO" => i + 1 = Len(t)
  <2> SUFFICES ASSUME NEW i \in 1 .. n - 1, t[i] = "MultiVersionUBO" PROVE i + 1 = Len(t)
    BY <1>1
  <2>1. i + 1 \in 1 .. n /\ s[i + 1] = "MultiVersionUBO"
    BY <1>1
  <2>2. (i + 1) + 1 = n
    BY <1>2, <2>1
  <2> QED
    BY <1>1, <2>2
<1>7. s[1] = "MultiVersionUBO" => n = 2 /\ Range(t) = {"RemoveUnusedArguments"}
  <2> SUFFICES ASSUME s[1] = "MultiVersionUBO" PROVE n = 2 /\ Range(t) = {"RemoveUnusedArguments"}
    OBVIOUS
  <2>1. 1 \in 1 .. n
    BY <1>1
  <2>2. n = 2
    BY <1>2, <2>1
  <2>3. DOMAIN t = {1} /\ t[1] = "RemoveUnusedArguments"
    BY <1>1, <1>2, <2>2
  <2> QED
    BY <2>2, <2>3 DEF Range
<1>8. MakesVersions' => "MultiVersionUBO" \in Range(t) \/ Range(t) \subseteq {"RemoveUnusedArguments"}
  BY <1>1, <1>2, <1>3, <1>7
<1>9. t # <<>> => Head(t) = t[1] /\ MayFollow(s[1], t[1])
  <2> SUFFICES ASSUME t # <<>> PROVE Head(t) = t[1] /\ MayFollow(s[1], t[1])
    OBVIOUS
  <2>1. 1 \in 1 .. n - 1 /\ t[1] = s[2]
    BY <1>1
  <2>2. Head(t) = t[1]
    BY <1>1, TailFacts
  <2> QED
    BY <1>2, <2>1, <2>2
<1>10. t = <<>> => s[1] = "RemoveUnusedArguments"
  BY <1>1, <1>2
<1>11. PassOK'
  BY <1>4, <1>5, <1>6, <1>8 DEF PassOK, t
<1> QED
  BY <1>1, <1>7, <1>9, <1>10, <1>11 DEF s, t

(* A pipeline with more passes at its end, or without them. *)
IsExtended(q, p, t, on) ==
  /\ IsChain(q) /\ Len(p) \in Nat /\ Len(t) \in Nat \ {0}
  /\ Len(q) = IF on THEN Len(p) + Len(t) ELSE Len(p)
  /\ p # <<>> => q # <<>> /\ q[1] = p[1]
  /\ p = <<>> /\ on => q # <<>> /\ q[1] = t[1]
  /\ IF on THEN q # <<>> /\ q[Len(q)] = t[Len(t)] ELSE q = p
  /\ Range(q) = IF on THEN Range(p) \cup Range(t) ELSE Range(p)

LEMMA AddPasses ==
  ASSUME NEW p, IsChain(p), NEW t, IsChain(t), t # <<>>, p # <<>> => MayFollow(p[Len(p)], t[1]),
         NEW on \in BOOLEAN, NEW q, q = p \o When(on, t)
  PROVE  IsExtended(q, p, t, on)
<1>1. /\ Len(p) \in Nat /\ DOMAIN p = 1 .. Len(p)
      /\ Len(t) \in Nat \ {0} /\ DOMAIN t = 1 .. Len(t)
      /\ p = <<>> <=> Len(p) = 0
  <2>1. Len(p) \in Nat /\ DOMAIN p = 1 .. Len(p) /\ Len(t) \in Nat /\ DOMAIN t = 1 .. Len(t)
    BY IsSeqFacts DEF IsChain
  <2>2. p \in Seq(Range(p)) /\ t \in Seq(Range(t))
    BY DEF IsChain, IsSeq
  <2> QED
    BY <2>1, <2>2
<1>2. CASE ~on
  <2>1. q = p
    <3>1. p \in Seq(Range(p)) /\ q = p \o <<>>
      BY <1>2 DEF When, IsChain, IsSeq
    <3> QED
      BY <3>1
  <2> QED
    BY <1>1, <1>2, <2>1 DEF IsExtended
<1>3. CASE on
  <2>1. q = p \o t /\ IsSeq(p) /\ IsSeq(t)
    BY <1>3 DEF When, IsChain
  <2>2. /\ IsSeq(q) /\ DOMAIN q = 1 .. Len(p) + Len(t)
        /\ \A k \in 1 .. Len(p) : q[k] = p[k]
        /\ \A k \in 1 .. Len(t) : q[Len(p) + k] = t[k]
        /\ \A k \in DOMAIN q : k \in 1 .. Len(p) \/ \E j \in 1 .. Len(t) : k = Len(p) + j
    BY <2>1, ConcatFacts
  <2>3. Len(q) = Len(p) + Len(t) /\ q # <<>>
    <3>1. Len(q) \in Nat /\ DOMAIN q = 1 .. Len(q)
      BY <2>2, IsSeqFacts
    <3>2. 1 .. Len(q) = 1 .. Len(p) + Len(t)
      BY <2>2, <3>1
    <3>3. Len(q) = Len(p) + Len(t)
      BY <1>1, <3>1, <3>2
    <3>4. Len(p) + Len(t) # 0
      BY <1>1
    <3> QED
      BY <3>3, <3>4
  <2>4. ASSUME NEW i \in 1 .. Len(q) - 1 PROVE MayFollow(q[i], q[i + 1])
    <3>1. CASE i \in 1 .. Len(p) - 1
      <4>1. i \in 1 .. Len(p) /\ i + 1 \in 1 .. Len(p)
        BY <1>1, <3>1
      <4> QED
        BY <2>2, <3>1, <4>1 DEF IsChain
    <3>2. CASE i = Len(p)
      <4>1. i \in 1 .. Len(p) /\ 1 \in 1 .. Len(t) /\ p # <<>>
        BY <1>1, <3>2
      <4>2. q[i] = p[i] /\ q[i + 1] = t[1]
        BY <2>2, <3>2, <4>1
      <4> QED
        BY <3>2, <4>1, <4>2
    <3>3. CASE i > Len(p)
      <4>1. i - Len(p) \in 1 .. Len(t) - 1
        BY <1>1, <2>3, <3>3
      <4> DEFINE j == i - Len(p)
      <4>2. j \in 1 .. Len(t) - 1 /\ j \in 1 .. Len(t) /\ j + 1 \in 1 .. Len(t) /\ i = Len(p) + j /\ i + 1 = Len(p) + (j + 1)
        BY <1>1, <4>1
      <4> HIDE DEF j
      <4>3. q[i] = t[j] /\ q[i + 1] = t[j + 1]
        BY <2>2, <4>2
      <4> QED
        BY <4>2, <4>3 DEF IsChain
    <3>4. i \in 1 .. Len(p) - 1 \/ i = Len(p) \/ i > Len(p)
      <4> DEFINE n == Len(p)
      <4>1. i \in Int /\ 1 <= i /\ n \in Nat
        BY <1>1, <2>3
      <4> HIDE DEF n
      <4>2. i \in 1 .. n - 1 \/ i = n \/ i > n
        BY <4>1
      <4> QED
        BY <4>2 DEF n
    <3> QED
      BY <3>1, <3>2, <3>3, <3>4
  <2>5. IsChain(q)
    BY <2>2, <2>4 DEF IsChain
  <2>6. q[Len(q)] = t[Len(t)]
    <3>1. Len(t) \in 1 .. Len(t)
      BY <1>1
    <3> QED
      BY <2>2, <2>3, <3>1
  <2>7. p # <<>> => q[1] = p[1]
    <3>1. p # <<>> => 1 \in 1 .. Len(p)
      BY <1>1
    <3> QED
      BY <2>2, <3>1
  <2>8. p = <<>> => q[1] = t[1]
    <3>1. p = <<>> => 1 \in 1 .. Len(t) /\ Len(p) + 1 = 1
      BY <1>1
    <3> QED
      BY <2>2, <3>1
  <2>9. Range(q) = Range(p) \cup Range(t)
    <3>1. ASSUME NEW x \in Range(q) PROVE x \in Range(p) \cup Range(t)
      <4>1. PICK k \in DOMAIN q : q[k] = x
        BY <3>1 DEF Range
      <4>2. CASE k \in 1 .. Len(p)
        BY <1>1, <2>2, <4>1, <4>2 DEF Range
      <4>3. CASE \E j \in 1 .. Len(t) : k = Len(p) + j
        <5>1. PICK j \in 1 .. Len(t) : k = Len(p) + j
          BY <4>3
        <5>2. t[j] = x /\ j \in DOMAIN t
          BY <1>1, <2>2, <4>1, <5>1
        <5> QED
          BY <5>2 DEF Range
      <4> QED
        BY <2>2, <4>2, <4>3
    <3>2. ASSUME NEW x \in Range(p) PROVE x \in Range(q)
      <4>1. PICK k \in 1 .. Len(p) : p[k] = x
        BY <1>1, <3>2 DEF Range
      <4>2. k \in DOMAIN q /\ q[k] = x
        BY <1>1, <2>2, <4>1
      <4> QED
        BY <4>2 DEF Range
    <3>3. ASSUME NEW x \in Range(t) PROVE x \in Range(q)
      <4>1. PICK k \in 1 .. Len(t) : t[k] = x
        BY <1>1, <3>3 DEF Range
      <4>2. Len(p) + k \in DOMAIN q /\ q[Len(p) + k] = x
        BY <1>1, <2>2, <4>1
      <4> QED
        BY <4>2 DEF Range
    <3> QED
      BY <3>1, <3>2, <3>3
  <2> QED
    BY <1>1, <1>3, <2>3, <2>5, <2>6, <2>7, <2>8, <2>9 DEF IsExtended
<1> QED
  BY <1>2, <1>3

LEMMA OnePass ==
  ASSUME NEW a
  PROVE  IsChain(<<a>>) /\ <<a>> # <<>> /\ Len(<<a>>) = 1 /\ <<a>>[1] = a /\ Range(<<a>>) = {a}
<1> DEFINE s == <<a>>
<1>1. s = [i \in 1 .. 1 |-> s[i]] /\ Len(s) = 1 /\ s[1] = a /\ s # <<>>
  OBVIOUS
<1> HIDE DEF s
<1>2. IsSeq(s) /\ DOMAIN s = 1 .. 1
  BY <1>1, MakeSeq
<1>3. IsChain(s) /\ Range(s) = {a}
  BY <1>1, <1>2 DEF IsChain, Range
<1> QED
  BY <1>1, <1>3 DEF s

LEMMA TwoPasses ==
  ASSUME NEW a, NEW b, MayFollow(a, b)
  PROVE  /\ IsChain(<<a, b>>) /\ <<a, b>> # <<>> /\ Len(<<a, b>>) = 2
         /\ <<a, b>>[1] = a /\ <<a, b>>[2] = b /\ Range(<<a, b>>) = {a, b}
<1> DEFINE s == <<a, b>>
<1>1. s = [i \in 1 .. 2 |-> s[i]] /\ Len(s) = 2 /\ s[1] = a /\ s[2] = b /\ s # <<>>
  OBVIOUS
<1> HIDE DEF s
<1>2. IsSeq(s) /\ DOMAIN s = 1 .. 2
  BY <1>1, MakeSeq
<1>3. IsChain(s) /\ Range(s) = {a, b}
  BY <1>1, <1>2 DEF IsChain, Range
<1> QED
  BY <1>1, <1>3 DEF s

LEMMA ThreePasses ==
  ASSUME NEW a, NEW b, NEW c, MayFollow(a, b), MayFollow(b, c)
  PROVE  /\ IsChain(<<a, b, c>>) /\ <<a, b, c>> # <<>> /\ Len(<<a, b, c>>) = 3
         /\ <<a, b, c>>[1] = a /\ <<a, b, c>>[3] = c /\ Range(<<a, b, c>>) = {a, b, c}
<1> DEFINE s == <<a, b, c>>
<1>1. s = [i \in 1 .. 3 |-> s[i]] /\ Len(s) = 3 /\ s[1] = a /\ s[2] = b /\ s[3] = c /\ s # <<>>
  OBVIOUS
<1> HIDE DEF s
<1>2. IsSeq(s) /\ DOMAIN s = 1 .. 3
  BY <1>1, MakeSeq
<1>3. IsChain(s) /\ Range(s) = {a, b, c}
  BY <1>1, <1>2 DEF IsChain, Range
<1> QED
  BY <1>1, <1>3 DEF s

LEMMA PipelineOK ==
  ASSUME NEW o, o.inlineEntryPoints \in BOOLEAN, o.inlineSingle \in BOOLEAN, o.direct \in BOOLEAN, o.uniform \in BOOLEAN,
         NEW p, p = Pipeline(o)
  PROVE  /\ IsChain(p) /\ p # <<>> /\ p[1] \notin LatePasses
         /\ p[Len(p)] = "RemoveUnusedArguments"
         /\ \A i \in DOMAIN p : p[i] = "MultiVersionUBO" => i + 1 = Len(p)
         /\ {"InlineImageMetadataGetter", "InlinePointerToFunctionArg", "InlineReadImage3D"} \subseteq Range(p)
         /\ o.uniform /\ ~o.inlineEntryPoints => "MultiVersionUBO" \in Range(p)
<1> DEFINE t1 == <<"InlineEntryPoints">>
           t2 == <<"FunctionInternalizer", "InlineImageMetadataGetter", "InlinePointerToFunctionArg">>
           t3 == <<"InlineSingleCallSite", "EraseUncalled">>
           t4 == <<"InlineReadImage3D", "FunctionInternalizer">>
           t5 == <<"OrderForDRA", "DirectResourceAccess">>
           t6 == <<"RemoveUnusedArguments">>
           t7 == <<"OrderForUBO", "MultiVersionUBO">>
           versions == o.uniform /\ ~o.inlineEntryPoints
           p1 == When(o.inlineEntryPoints, t1)
           p2 == p1 \o t2
           p3 == p2 \o When(o.inlineSingle, t3)
           p4 == p3 \o t4
           p5 == p4 \o When(o.direct, t5)
           p6 == p5 \o t6
           p7 == p6 \o When(versions, t7)
<1>1. p = p7 \o t6
  BY DEF Pipeline
<1>2. IsChain(t1) /\ t1 # <<>> /\ Len(t1) = 1 /\ t1[1] = "InlineEntryPoints" /\ Range(t1) = {"InlineEntryPoints"}
  BY OnePass
<1>3. /\ IsChain(t2) /\ t2 # <<>> /\ Len(t2) = 3 /\ t2[1] = "FunctionInternalizer" /\ t2[3] = "InlinePointerToFunctionArg"
      /\ Range(t2) = {"FunctionInternalizer", "InlineImageMetadataGetter", "InlinePointerToFunctionArg"}
  BY ThreePasses DEF MayFollow, LatePasses
<1>4. /\ IsChain(t3) /\ t3 # <<>> /\ Len(t3) = 2 /\ t3[1] = "InlineSingleCallSite" /\ t3[2] = "EraseUncalled"
      /\ Range(t3) = {"InlineSingleCallSite", "EraseUncalled"}
  BY TwoPasses DEF MayFollow, LatePasses
<1>5. /\ IsChain(t4) /\ t4 # <<>> /\ Len(t4) = 2 /\ t4[1] = "InlineReadImage3D" /\ t4[2] = "FunctionInternalizer"
      /\ Range(t4) = {"InlineReadImage3D", "FunctionInternalizer"}
  BY TwoPasses DEF MayFollow, LatePasses
<1>6. /\ IsChain(t5) /\ t5 # <<>> /\ Len(t5) = 2 /\ t5[1] = "OrderForDRA" /\ t5[2] = "DirectResourceAccess"
      /\ Range(t5) = {"OrderForDRA", "DirectResourceAccess"}
  BY TwoPasses DEF MayFollow, LatePasses
<1>7. IsChain(t6) /\ t6 # <<>> /\ Len(t6) = 1 /\ t6[1] = "RemoveUnusedArguments" /\ Range(t6) = {"RemoveUnusedArguments"}
  BY OnePass
<1>8. /\ IsChain(t7) /\ t7 # <<>> /\ Len(t7) = 2 /\ t7[1] = "OrderForUBO" /\ t7[2] = "MultiVersionUBO"
      /\ Range(t7) = {"OrderForUBO", "MultiVersionUBO"}
  BY TwoPasses DEF MayFollow, LatePasses
<1>9. When(TRUE, t2) = t2 /\ When(TRUE, t4) = t4 /\ When(TRUE, t6) = t6 /\ versions \in BOOLEAN
  BY DEF When
<1>10. /\ IsChain(p1) /\ (p1 # <<>> => p1[1] = "InlineEntryPoints" /\ p1[Len(p1)] = "InlineEntryPoints")
       /\ Range(p1) \subseteq {"InlineEntryPoints"}
  <2>1. CASE o.inlineEntryPoints
    BY <1>2, <2>1 DEF When
  <2>2. CASE ~o.inlineEntryPoints
    <3>1. p1 = <<>>
      BY <2>2 DEF When
    <3>2. IsSeq(<<>>) /\ Len(<<>>) = 0 /\ DOMAIN <<>> = {} /\ 1 .. 0 - 1 = {}
      BY DEF IsSeq
    <3> QED
      BY <3>1, <3>2 DEF IsChain, Range
  <2> QED
    BY <2>1, <2>2
<1> HIDE DEF t1, t2, t3, t4, t5, t6, t7, versions, p1, p2, p3, p4, p5, p6, p7
<1>11. /\ IsChain(p2) /\ p2 # <<>> /\ p2[1] \in {"InlineEntryPoints", "FunctionInternalizer"}
       /\ p2[Len(p2)] = "InlinePointerToFunctionArg"
       /\ Range(p2) = Range(p1) \cup Range(t2)
  <2>1. p2 = p1 \o When(TRUE, t2)
    BY <1>9 DEF p2
  <2>2. p1 # <<>> => MayFollow(p1[Len(p1)], t2[1])
    BY <1>3, <1>10 DEF MayFollow, LatePasses
  <2>3. /\ IsChain(p2)
        /\ p1 # <<>> => p2 # <<>> /\ p2[1] = p1[1]
        /\ p1 = <<>> => p2 # <<>> /\ p2[1] = t2[1]
        /\ p2[Len(p2)] = t2[Len(t2)]
        /\ Range(p2) = Range(p1) \cup Range(t2)
    <3>1. IsExtended(p2, p1, t2, TRUE)
      BY <1>3, <1>10, <2>1, <2>2, AddPasses
    <3> QED
      BY <3>1 DEF IsExtended
  <2> QED
    BY <1>3, <1>10, <2>3
<1>12. /\ IsChain(p3) /\ p3 # <<>> /\ p3[1] = p2[1]
       /\ p3[Len(p3)] \in {"InlinePointerToFunctionArg", "EraseUncalled"}
       /\ Range(p2) \subseteq Range(p3) /\ Range(p3) \subseteq Range(p2) \cup Range(t3)
  <2>1. p3 = p2 \o When(o.inlineSingle, t3)
    BY DEF p3
  <2>2. MayFollow(p2[Len(p2)], t3[1])
    BY <1>4, <1>11 DEF MayFollow, LatePasses
  <2>3. /\ IsChain(p3) /\ p3 # <<>> /\ p3[1] = p2[1]
        /\ IF o.inlineSingle THEN p3[Len(p3)] = t3[Len(t3)] ELSE p3 = p2
        /\ Range(p3) = IF o.inlineSingle THEN Range(p2) \cup Range(t3) ELSE Range(p2)
    <3>1. IsExtended(p3, p2, t3, o.inlineSingle)
      BY <1>4, <1>11, <2>1, <2>2, AddPasses
    <3> QED
      BY <1>11, <3>1 DEF IsExtended
  <2> QED
    BY <1>4, <1>11, <2>3
<1>13. /\ IsChain(p4) /\ p4 # <<>> /\ p4[1] = p3[1]
       /\ p4[Len(p4)] = "FunctionInternalizer"
       /\ Range(p4) = Range(p3) \cup Range(t4)
  <2>1. p4 = p3 \o When(TRUE, t4)
    BY <1>9 DEF p4
  <2>2. MayFollow(p3[Len(p3)], t4[1])
    BY <1>5, <1>12 DEF MayFollow, LatePasses
  <2>3. /\ IsChain(p4) /\ p4 # <<>> /\ p4[1] = p3[1]
        /\ p4[Len(p4)] = t4[Len(t4)]
        /\ Range(p4) = Range(p3) \cup Range(t4)
    <3>1. IsExtended(p4, p3, t4, TRUE)
      BY <1>5, <1>12, <2>1, <2>2, AddPasses
    <3> QED
      BY <1>12, <3>1 DEF IsExtended
  <2> QED
    BY <1>5, <2>3
<1>14. /\ IsChain(p5) /\ p5 # <<>> /\ p5[1] = p4[1]
       /\ p5[Len(p5)] \in {"FunctionInternalizer", "DirectResourceAccess"}
       /\ Range(p4) \subseteq Range(p5) /\ Range(p5) \subseteq Range(p4) \cup Range(t5)
  <2>1. p5 = p4 \o When(o.direct, t5)
    BY DEF p5
  <2>2. MayFollow(p4[Len(p4)], t5[1])
    BY <1>6, <1>13 DEF MayFollow, LatePasses
  <2>3. /\ IsChain(p5) /\ p5 # <<>> /\ p5[1] = p4[1]
        /\ IF o.direct THEN p5[Len(p5)] = t5[Len(t5)] ELSE p5 = p4
        /\ Range(p5) = IF o.direct THEN Range(p4) \cup Range(t5) ELSE Range(p4)
    <3>1. IsExtended(p5, p4, t5, o.direct)
      BY <1>6, <1>13, <2>1, <2>2, AddPasses
    <3> QED
      BY <1>13, <3>1 DEF IsExtended
  <2> QED
    BY <1>6, <1>13, <2>3
<1>15. /\ IsChain(p6) /\ p6 # <<>> /\ p6[1] = p5[1]
       /\ p6[Len(p6)] = "RemoveUnusedArguments"
       /\ Range(p6) = Range(p5) \cup Range(t6)
  <2>1. p6 = p5 \o When(TRUE, t6)
    BY <1>9 DEF p6
  <2>2. MayFollow(p5[Len(p5)], t6[1])
    BY <1>7, <1>14 DEF MayFollow, LatePasses
  <2>3. /\ IsChain(p6) /\ p6 # <<>> /\ p6[1] = p5[1]
        /\ p6[Len(p6)] = t6[Len(t6)]
        /\ Range(p6) = Range(p5) \cup Range(t6)
    <3>1. IsExtended(p6, p5, t6, TRUE)
      BY <1>7, <1>14, <2>1, <2>2, AddPasses
    <3> QED
      BY <1>14, <3>1 DEF IsExtended
  <2> QED
    BY <1>7, <2>3
<1>16. "MultiVersionUBO" \notin Range(p6)
  <2>1. "MultiVersionUBO" \notin Range(p2)
    BY <1>3, <1>10, <1>11
  <2>2. "MultiVersionUBO" \notin Range(p4)
    BY <1>4, <1>5, <1>12, <1>13, <2>1
  <2> QED
    BY <1>6, <1>7, <1>14, <1>15, <2>2
<1>17. /\ IsChain(p7) /\ p7 # <<>> /\ p7[1] = p6[1]
       /\ p7[Len(p7)] \in {"RemoveUnusedArguments", "MultiVersionUBO"}
       /\ Len(p6) \in Nat /\ Len(p7) = IF versions THEN Len(p6) + Len(t7) ELSE Len(p6)
       /\ versions \/ p7 = p6
       /\ Range(p7) = IF versions THEN Range(p6) \cup Range(t7) ELSE Range(p6)
  <2>1. p7 = p6 \o When(versions, t7)
    BY DEF p7
  <2>2. MayFollow(p6[Len(p6)], t7[1])
    BY <1>8, <1>15 DEF MayFollow, LatePasses
  <2>3. /\ IsChain(p7) /\ Len(p6) \in Nat /\ p7 # <<>> /\ p7[1] = p6[1]
        /\ Len(p7) = IF versions THEN Len(p6) + Len(t7) ELSE Len(p6)
        /\ IF versions THEN p7[Len(p7)] = t7[Len(t7)] ELSE p7 = p6
        /\ Range(p7) = IF versions THEN Range(p6) \cup Range(t7) ELSE Range(p6)
    <3>1. IsExtended(p7, p6, t7, versions)
      BY <1>8, <1>9, <1>15, <2>1, <2>2, AddPasses
    <3> QED
      BY <1>15, <3>1 DEF IsExtended
  <2> QED
    BY <1>8, <1>15, <2>3
<1>18. /\ IsChain(p) /\ p # <<>> /\ p[1] = p7[1]
       /\ p[Len(p)] = "RemoveUnusedArguments"
       /\ Len(p7) \in Nat /\ Len(p) = Len(p7) + 1
       /\ Range(p) = Range(p7) \cup Range(t6)
  <2>1. p = p7 \o When(TRUE, t6)
    BY <1>1, <1>9
  <2>2. MayFollow(p7[Len(p7)], t6[1])
    BY <1>7, <1>17 DEF MayFollow, LatePasses
  <2>3. /\ IsChain(p) /\ Len(p7) \in Nat /\ p # <<>> /\ p[1] = p7[1]
        /\ Len(p) = Len(p7) + Len(t6)
        /\ p[Len(p)] = t6[Len(t6)]
        /\ Range(p) = Range(p7) \cup Range(t6)
    <3>1. IsExtended(p, p7, t6, TRUE)
      BY <1>7, <1>17, <2>1, <2>2, AddPasses
    <3> QED
      BY <1>17, <3>1 DEF IsExtended
  <2> QED
    BY <1>7, <2>3
<1>19. ASSUME NEW i \in DOMAIN p, p[i] = "MultiVersionUBO" PROVE i + 1 = Len(p)
  <2>1. /\ IsSeq(p7) /\ IsSeq(t6) /\ IsSeq(p6) /\ IsSeq(t7)
    BY <1>7, <1>8, <1>15, <1>17 DEF IsChain
  <2>2. i \in 1 .. Len(p7) /\ p[i] = p7[i]
    <3>1. /\ \A k \in 1 .. Len(p7) : p[k] = p7[k]
          /\ \A k \in 1 .. Len(t6) : p[Len(p7) + k] = t6[k]
          /\ \A k \in DOMAIN p : k \in 1 .. Len(p7) \/ \E j \in 1 .. Len(t6) : k = Len(p7) + j
      BY <1>1, <2>1, ConcatFacts
    <3>2. \A j \in 1 .. Len(t6) : j = 1
      BY <1>7
    <3> QED
      BY <1>7, <1>19, <3>1, <3>2
  <2>3. versions
    <3> SUFFICES ASSUME ~versions PROVE FALSE
      OBVIOUS
    <3>1. DOMAIN p6 = 1 .. Len(p6) /\ p7 = p6
      BY <1>17, <2>1, IsSeqFacts
    <3>2. p6[i] \in Range(p6)
      BY <2>2, <3>1 DEF Range
    <3> QED
      BY <1>16, <1>19, <2>2, <3>1, <3>2
  <2>4. /\ p7 = p6 \o t7
    BY <2>3 DEF p7, When
  <2>5. /\ DOMAIN p7 = 1 .. Len(p6) + Len(t7)
        /\ \A k \in 1 .. Len(p6) : p7[k] = p6[k]
        /\ \A k \in 1 .. Len(t7) : p7[Len(p6) + k] = t7[k]
        /\ \A k \in DOMAIN p7 : k \in 1 .. Len(p6) \/ \E j \in 1 .. Len(t7) : k = Len(p6) + j
    BY <2>1, <2>4, ConcatFacts
  <2>6. i \notin 1 .. Len(p6)
    <3> SUFFICES ASSUME i \in 1 .. Len(p6) PROVE FALSE
      OBVIOUS
    <3>1. DOMAIN p6 = 1 .. Len(p6)
      BY <2>1, IsSeqFacts
    <3>2. p6[i] \in Range(p6)
      BY <3>1 DEF Range
    <3> QED
      BY <1>16, <1>19, <2>2, <2>5, <3>2
  <2>7. i \in DOMAIN p7
    BY <1>17, <2>2, <2>3, <2>5
  <2>8. PICK j \in 1 .. Len(t7) : i = Len(p6) + j
    BY <2>5, <2>6, <2>7
  <2>9. j = 2
    <3>1. j = 1 \/ j = 2
      BY <1>8
    <3>2. t7[j] = "MultiVersionUBO"
      BY <1>19, <2>2, <2>5, <2>8
    <3> QED
      BY <1>8, <3>1, <3>2
  <2> QED
    BY <1>8, <1>17, <1>18, <2>3, <2>8, <2>9
<1>20. p[1] \notin LatePasses
  BY <1>11, <1>12, <1>13, <1>14, <1>15, <1>17, <1>18 DEF LatePasses
<1>21. {"InlineImageMetadataGetter", "InlinePointerToFunctionArg", "InlineReadImage3D"} \subseteq Range(p)
  BY <1>3, <1>5, <1>11, <1>12, <1>13, <1>14, <1>15, <1>17, <1>18
<1>22. o.uniform /\ ~o.inlineEntryPoints => "MultiVersionUBO" \in Range(p)
  BY <1>8, <1>17, <1>18 DEF versions
<1> QED
  BY <1>18, <1>19, <1>20, <1>21, <1>22

------------------------------------------------------------------------------
(* The calls of a function in a module that need not be the one at hand. *)
UsersIn(fs, f) ==
  UNION {{[in |-> g, call |-> c] : c \in {d \in fs[g].calls : d.callee = f}} : g \in DOMAIN fs}

LEMMA UsersInAre ==
  ASSUME NEW fs, NEW f, NEW v
  PROVE  /\ v \in UsersIn(fs, f) <=> \E g \in DOMAIN fs : \E c \in fs[g].calls : c.callee = f /\ v = [in |-> g, call |-> c]
         /\ v \in UsersIn(fs, f) => /\ v.in \in DOMAIN fs /\ v.call \in fs[v.in].calls /\ v.call.callee = f
                                    /\ v = [in |-> v.in, call |-> v.call]
<1>1. v \in UsersIn(fs, f) <=> \E g \in DOMAIN fs : \E c \in fs[g].calls : c.callee = f /\ v = [in |-> g, call |-> c]
  BY DEF UsersIn
<1>2. ASSUME v \in UsersIn(fs, f)
      PROVE  /\ v.in \in DOMAIN fs /\ v.call \in fs[v.in].calls /\ v.call.callee = f
             /\ v = [in |-> v.in, call |-> v.call]
  <2>1. PICK g \in DOMAIN fs : \E c \in fs[g].calls : c.callee = f /\ v = [in |-> g, call |-> c]
    BY <1>1, <1>2
  <2>2. PICK c \in fs[g].calls : c.callee = f /\ v = [in |-> g, call |-> c]
    BY <2>1
  <2>3. v.in = g /\ v.call = c
    BY <2>2
  <2> QED
    BY <2>2, <2>3
<1> QED
  BY <1>1, <1>2

LEMMA UsersAre ==
  /\ \A f : Users(f) = UsersIn(functions, f)
  /\ \A f : Users(f)' = UsersIn(functions', f)
<1>1. ASSUME NEW f PROVE Users(f) = UsersIn(functions, f) /\ Users(f)' = UsersIn(functions', f)
  BY DEF Users, UsersIn
<1> QED
  BY <1>1

LEMMA CalledInIs ==
  ASSUME NEW fs, NEW f
  PROVE  /\ f \in CalledIn(fs) <=> \E g \in DOMAIN fs : f \in CalledBy(fs[g])
         /\ f \in CalledIn(fs) <=> UsersIn(fs, f) # {}
<1>1. f \in CalledIn(fs) <=> \E g \in DOMAIN fs : f \in CalledBy(fs[g])
  BY DEF CalledIn
<1>2. ASSUME NEW g \in DOMAIN fs, f \in CalledBy(fs[g]) PROVE UsersIn(fs, f) # {}
  <2>1. PICK c \in fs[g].calls : c.callee = f
    BY <1>2 DEF CalledBy
  <2>2. [in |-> g, call |-> c] \in UsersIn(fs, f)
    BY <2>1, UsersInAre
  <2> QED
    BY <2>2
<1>3. ASSUME NEW v \in UsersIn(fs, f) PROVE \E g \in DOMAIN fs : f \in CalledBy(fs[g])
  BY <1>3, UsersInAre DEF CalledBy
<1> QED
  BY <1>1, <1>2, <1>3

LEMMA NotItself ==
  ASSUME NEW fs, IsModule(fs), NEW f \in DOMAIN fs
  PROVE  f \notin CalledBy(fs[f])
<1>1. {f} \in (SUBSET DOMAIN fs) \ {{}}
  OBVIOUS
<1>2. \A c \in fs[f].calls : c.callee # f
  BY <1>1 DEF IsModule, IsNotRecursive
<1> QED
  BY <1>2 DEF CalledBy

LEMMA HelpersAre ==
  Helpers = HelpersOf(functions) /\ KernelFunctions \subseteq DOMAIN functions
  BY DEF Helpers, KernelFunctions, HelpersOf

LEMMA UsedParamsAre == \A f : UsedParams(f) = UsedIn(functions[f])
<1>1. ASSUME NEW f PROVE UsedParams(f) = UsedIn(functions[f])
  BY DEF UsedParams, UsedIn, Passed, Accessed, PassedIn, AccessedIn
<1> QED
  BY <1>1

------------------------------------------------------------------------------
(* One call is inlined or gets a version: the other calls of the functions there
   were stay what they are, and only their callee may lose its last call. *)
LEMMA InlinedUsers ==
  ASSUME IsModule(functions), NEW f, NEW u \in Users(f)
  PROVE  /\ \A h : UsersIn(functions, h) \ {u} \subseteq UsersIn(Inlined(u), h)
         /\ UsersIn(Inlined(u), f) = UsersIn(functions, f) \ {u}
         /\ CalledIn(functions) \ {f} \subseteq CalledIn(Inlined(u))
<1> DEFINE g == u.in
           after == Inlined(u)
           new == ArgsByParam(f, u.call.args)
<1>1. /\ DOMAIN after = DOMAIN functions
      /\ \A h \in DOMAIN functions \ {g} : after[h] = functions[h]
      /\ \A d \in after[g].calls :
           d \in functions[g].calls \ {u.call} \/ \E c \in functions[f].calls : IsReplacedCall(d, c, new)
      /\ functions[g].calls \ {u.call} \subseteq after[g].calls
  BY InlinedIs
<1>2. /\ g \in DOMAIN functions /\ u.call \in functions[g].calls /\ u.call.callee = f /\ f \in DOMAIN functions
  BY UserFacts
<1>3. u = [in |-> g, call |-> u.call]
  BY UsersAre, UsersInAre
<1> HIDE DEF after, new, g
<1>4. ASSUME NEW h, NEW v \in UsersIn(functions, h), v # u PROVE v \in UsersIn(after, h)
  <2>1. /\ v.in \in DOMAIN functions /\ v.call \in functions[v.in].calls /\ v.call.callee = h
        /\ v = [in |-> v.in, call |-> v.call]
    BY UsersInAre
  <2>2. v.call \in after[v.in].calls
    BY <1>1, <1>3, <1>4, <2>1
  <2> QED
    BY <1>1, <2>1, <2>2, UsersInAre
<1>5. \A d \in after[g].calls : d.callee = f => d \in functions[g].calls \ {u.call}
  <2>1. \A c \in functions[f].calls : c.callee # f
    BY <1>2, NotItself DEF CalledBy
  <2>2. \A d, c : IsReplacedCall(d, c, new) => d.callee = c.callee
    BY DEF IsReplacedCall
  <2> QED
    BY <1>1, <2>1, <2>2
<1>6. ASSUME NEW v \in UsersIn(after, f) PROVE v \in UsersIn(functions, f) /\ v # u
  <2>1. /\ v.in \in DOMAIN functions /\ v.call \in after[v.in].calls /\ v.call.callee = f
        /\ v = [in |-> v.in, call |-> v.call]
    BY <1>1, UsersInAre
  <2>2. v.call \in functions[v.in].calls /\ (v.in = g => v.call # u.call)
    BY <1>1, <1>5, <2>1
  <2>3. v # u
    BY <2>2 DEF g
  <2> QED
    BY <2>1, <2>2, <2>3, UsersInAre
<1>7. ASSUME NEW h \in CalledIn(functions), h # f PROVE h \in CalledIn(after)
  <2>1. PICK v : v \in UsersIn(functions, h)
    BY CalledInIs
  <2>2. v # u
    BY <1>2, <1>7, <2>1, UsersInAre
  <2> QED
    BY <1>4, <2>1, <2>2, CalledInIs
<1>8. UsersIn(after, f) = UsersIn(functions, f) \ {u}
  BY <1>4, <1>6
<1> QED
  BY <1>4, <1>7, <1>8 DEF after

LEMMA SpecializedUsers ==
  ASSUME IsModule(functions), NEW f, NEW u \in Users(f)
  PROVE  UsersIn(SpecializeCall(u), f) = UsersIn(functions, f) \ {u}
<1> DEFINE g == u.in
           after == SpecializeCall(u)
           body == ReplaceAllUses(functions[f], OwnPointers(u))
<1>1. /\ Clone \notin DOMAIN functions /\ DOMAIN after = DOMAIN functions \cup {Clone}
      /\ \A h \in DOMAIN functions \ {g} : after[h] = functions[h]
      /\ after[g].calls = (functions[g].calls \ {u.call}) \cup {NewCall(u)}
      /\ after[Clone].calls = body.calls
  BY SpecializedIs
<1>2. /\ g \in DOMAIN functions /\ u.call \in functions[g].calls /\ u.call.callee = f /\ f \in DOMAIN functions
      /\ IsCallIn(functions, functions[g], u.call)
  BY UserFacts
<1>3. u = [in |-> g, call |-> u.call]
  BY UsersAre, UsersInAre
<1>4. f \notin CalledBy(after[Clone])
  BY <1>2, NotItself, SpecializedCalls
<1>5. NewCall(u).callee # f
  <2>1. "callee" \in DOMAIN u.call
    BY <1>2 DEF IsCallIn
  <2>2. NewCall(u).callee = Clone
    BY <2>1 DEF NewCall
  <2> QED
    BY <1>1, <1>2, <2>2
<1> HIDE DEF after, body, g
<1>6. ASSUME NEW v \in UsersIn(functions, f), v # u PROVE v \in UsersIn(after, f)
  <2>1. /\ v.in \in DOMAIN functions /\ v.call \in functions[v.in].calls /\ v.call.callee = f
        /\ v = [in |-> v.in, call |-> v.call]
    BY UsersInAre
  <2>2. v.call \in after[v.in].calls
    BY <1>1, <1>3, <1>6, <2>1
  <2> QED
    BY <1>1, <2>1, <2>2, UsersInAre
<1>7. ASSUME NEW v \in UsersIn(after, f) PROVE v \in UsersIn(functions, f) /\ v # u
  <2>1. /\ v.in \in DOMAIN after /\ v.call \in after[v.in].calls /\ v.call.callee = f
        /\ v = [in |-> v.in, call |-> v.call]
    BY UsersInAre
  <2>2. v.in # Clone
    BY <1>4, <2>1 DEF CalledBy
  <2>3. v.call \in functions[v.in].calls /\ (v.in = g => v.call # u.call)
    BY <1>1, <1>5, <2>1, <2>2
  <2>4. v # u
    BY <2>3 DEF g
  <2> QED
    BY <1>1, <2>1, <2>2, <2>3, <2>4, UsersInAre
<1> QED
  BY <1>6, <1>7 DEF after

------------------------------------------------------------------------------
(* CallGraphOrderedFunctions, for the functions of a module. *)
OrderProofs == INSTANCE CallGraphOrderProofs
  WITH Function <- 1..MaxFunctions, kernels <- KernelFunctions, calls <- CallEdges

OrderInv == OrderProofs!IInv /\ OrderProofs!CompleteInv

LEMMA CallEdgesAre ==
  ASSUME NEW f, NEW g
  PROVE  <<f, g>> \in CallEdges <=> f \in DOMAIN functions /\ g \in CalledBy(functions[f])
<1>1. ASSUME <<f, g>> \in CallEdges PROVE f \in DOMAIN functions /\ g \in CalledBy(functions[f])
  <2>1. PICK h \in DOMAIN functions : <<f, g>> \in {<<h, c.callee>> : c \in functions[h].calls}
    BY <1>1 DEF CallEdges
  <2>2. PICK c \in functions[h].calls : <<f, g>> = <<h, c.callee>>
    BY <2>1
  <2>3. f = h /\ g = c.callee
    BY <2>2
  <2> QED
    BY <2>2, <2>3 DEF CalledBy
<1>2. ASSUME f \in DOMAIN functions, g \in CalledBy(functions[f]) PROVE <<f, g>> \in CallEdges
  <2>1. PICK c \in functions[f].calls : g = c.callee
    BY <1>2 DEF CalledBy
  <2>2. <<f, g>> \in {<<f, d.callee>> : d \in functions[f].calls}
    BY <2>1
  <2> QED
    BY <1>2, <2>2 DEF CallEdges
<1> QED
  BY <1>1, <1>2

LEMMA CallEdgesArePairs ==
  ASSUME IsModule(functions), DOMAIN functions \subseteq 1..MaxFunctions
  PROVE  /\ CallEdges \subseteq (1..MaxFunctions) \X (1..MaxFunctions)
         /\ KernelFunctions \subseteq 1..MaxFunctions
<1>1. CalledIn(functions) \subseteq DOMAIN functions
  BY CalledAreFunctions
<1>2. ASSUME NEW h \in DOMAIN functions, NEW c \in functions[h].calls
      PROVE  <<h, c.callee>> \in (1..MaxFunctions) \X (1..MaxFunctions)
  <2>1. c.callee \in CalledIn(functions)
    BY DEF CalledIn, CalledBy
  <2> QED
    BY <1>1, <2>1
<1>3. CallEdges \subseteq (1..MaxFunctions) \X (1..MaxFunctions)
  BY <1>2 DEF CallEdges
<1> QED
  BY <1>3, HelpersAre

LEMMA KernelsAreListed ==
  ASSUME IsModule(functions), DOMAIN functions \subseteq 1..MaxFunctions
  PROVE  /\ KernelsInOrder \in OrderProofs!KernelList
         /\ KernelFunctions = {KernelsInOrder[i] : i \in DOMAIN KernelsInOrder}
<1> DEFINE n == Cardinality(KernelFunctions)
<1>1. IsFiniteSet(KernelFunctions) /\ KernelFunctions \subseteq Nat /\ KernelFunctions \subseteq 1..MaxFunctions
  BY HelpersAre, FS_Subset DEF IsModule
<1>2. /\ n \in Nat /\ KernelsInOrder \in [1..n -> KernelFunctions]
      /\ \A i, j \in 1..n : i < j => KernelsInOrder[i] < KernelsInOrder[j]
      /\ \A x \in KernelFunctions : \E i \in 1..n : KernelsInOrder[i] = x
  BY <1>1, InOrderFacts DEF KernelsInOrder
<1> HIDE DEF n
<1>3. KernelsInOrder \in [1..n -> 1..MaxFunctions]
  BY <1>1, <1>2
<1>4. KernelsInOrder \in Seq(1..MaxFunctions)
  BY <1>2, <1>3, SeqDef
<1>5. KernelFunctions = {KernelsInOrder[i] : i \in DOMAIN KernelsInOrder}
  BY <1>2
<1> QED
  BY <1>2, <1>4, <1>5 DEF OrderProofs!KernelList

(* It starts with the kernels and the calls there are. *)
LEMMA OrderStarts ==
  ASSUME IsModule(functions), DOMAIN functions \subseteq 1..MaxFunctions,
         Order!StartOrder(KernelsInOrder), functions' = functions
  PROVE  OrderInv'
<1>1. KernelFunctions' = KernelFunctions /\ CallEdges' = CallEdges /\ KernelsInOrder' = KernelsInOrder
  BY DEF KernelFunctions, CallEdges, KernelsInOrder
<1>2. /\ KernelsInOrder \in OrderProofs!KernelList
      /\ KernelFunctions = {KernelsInOrder[i] : i \in DOMAIN KernelsInOrder}
      /\ CallEdges \subseteq (1..MaxFunctions) \X (1..MaxFunctions)
  BY KernelsAreListed, CallEdgesArePairs
<1>3. CallEdges \in SUBSET ((1..MaxFunctions) \X (1..MaxFunctions))
  BY <1>2
<1>4. /\ reverseEdges' = OrderProofs!ReversedCalls' /\ workList' = KernelsInOrder
      /\ caller' = 0 /\ callees' = {} /\ result' = <<>>
  BY <1>1 DEF Order!StartOrder, Order!ReversedCalls, OrderProofs!ReversedCalls
<1>5. OrderProofs!Init'
  BY <1>1, <1>2, <1>3, <1>4 DEF OrderProofs!Init, OrderProofs!KernelList
<1> QED
  BY <1>5, OrderProofs!StartOfOrder DEF OrderInv

LEMMA OrderGoesOn ==
  ASSUME OrderInv, Order!OrderStep, functions' = functions
  PROVE  OrderInv'
<1>1. KernelFunctions' = KernelFunctions /\ CallEdges' = CallEdges
  BY DEF KernelFunctions, CallEdges
<1>2. OrderProofs!IInv /\ OrderProofs!CompleteInv /\ OrderProofs!TypeOK
  BY DEF OrderInv, OrderProofs!IInv
<1>3. CASE Order!TakeCaller
  <2>1. OrderProofs!TakeCaller
    BY <1>3 DEF Order!TakeCaller, OrderProofs!TakeCaller, Order!Visited, OrderProofs!Visited,
                Order!CalleesOf, OrderProofs!CalleesOf
  <2>2. OrderProofs!IInv'
    BY <1>1, <1>2, <2>1, OrderProofs!TakeCallerIInv
  <2>3. OrderProofs!CompleteInv'
    BY <1>1, <1>2, <2>1, OrderProofs!TakeCallerCompleteInv
  <2> QED
    BY <2>2, <2>3 DEF OrderInv
<1>4. CASE \E g \in 1..MaxFunctions : Order!VisitCallee(g)
  <2>1. PICK g \in 1..MaxFunctions : Order!VisitCallee(g)
    BY <1>4
  <2>2. OrderProofs!VisitCallee(g)
    BY <2>1 DEF Order!VisitCallee, OrderProofs!VisitCallee
  <2>3. OrderProofs!IInv'
    BY <1>1, <1>2, <2>2, OrderProofs!VisitCalleeIInv
  <2>4. OrderProofs!CompleteInv'
    BY <1>1, <1>2, <2>2, OrderProofs!VisitCalleeCompleteInv
  <2> QED
    BY <2>3, <2>4 DEF OrderInv
<1> QED
  BY <1>3, <1>4 DEF Order!OrderStep

(* Passes that change neither kernels nor who calls whom do not disturb it. *)
LEMMA OrderIsKept ==
  ASSUME DOMAIN functions' = DOMAIN functions,
         \A h \in DOMAIN functions : /\ functions'[h].kernel = functions[h].kernel
                                     /\ CalledBy(functions'[h]) = CalledBy(functions[h]),
         UNCHANGED orderVars, OrderInv
  PROVE  OrderInv'
<1>1. KernelFunctions' = KernelFunctions
  BY DEF KernelFunctions
<1>2. \A h : {<<h, c.callee>> : c \in functions[h].calls} = {<<h, g>> : g \in CalledBy(functions[h])}
  BY DEF CalledBy
<1>3. \A h : {<<h, c.callee>> : c \in functions'[h].calls} = {<<h, g>> : g \in CalledBy(functions'[h])}
  BY DEF CalledBy
<1>4. CallEdges' = CallEdges
  BY <1>2, <1>3 DEF CallEdges
<1>5. UNCHANGED OrderProofs!vars
  BY <1>1, <1>4 DEF OrderProofs!vars, OrderProofs!orderVars, orderVars
<1> QED
  BY <1>5, OrderProofs!OrderStays DEF OrderInv

(* What is in the result is a function of the module. *)
LEMMA OrderIsKnown ==
  ASSUME IsModule(functions), OrderInv
  PROVE  /\ result \in Seq(Nat) /\ NoneTwice(result)
         /\ \A i \in DOMAIN result : result[i] \in DOMAIN functions
<1>1. OrderProofs!TypeOK /\ OrderProofs!CompleteInv
  BY DEF OrderInv, OrderProofs!IInv
<1>2. result \in Seq(1..MaxFunctions)
  BY <1>1 DEF OrderProofs!TypeOK
<1>3. \A i \in DOMAIN result : OrderProofs!IsKnown(result[i])
  BY <1>1 DEF OrderProofs!CompleteInv, OrderProofs!OnlyKnown
<1>4. ASSUME NEW f, OrderProofs!IsKnown(f) PROVE f \in DOMAIN functions
  <2>1. CASE f \in KernelFunctions
    BY <2>1, HelpersAre
  <2>2. CASE \E g \in 1..MaxFunctions : <<g, f>> \in CallEdges
    <3>1. f \in CalledIn(functions)
      BY <2>2, CallEdgesAre, CalledInIs
    <3> QED
      BY <3>1, CalledAreFunctions
  <2> QED
    BY <1>4, <2>1, <2>2 DEF OrderProofs!IsKnown
<1>5. result \in Seq(Nat)
  <2>1. (1..MaxFunctions) \subseteq Nat
    OBVIOUS
  <2> QED
    BY <1>2, <2>1, SeqMonotonic
<1> QED
  BY <1>1, <1>3, <1>4, <1>5 DEF OrderProofs!CompleteInv, OrderProofs!Once, NoneTwice

(* At its end all functions are, if there are none that nobody calls. *)
LEMMA OrderEnds ==
  ASSUME IsModule(functions), DOMAIN functions \subseteq 1..MaxFunctions,
         \A f \in HelpersOf(functions) : f \in CalledIn(functions),
         OrderInv, Order!OrderDone
  PROVE  \A f \in DOMAIN functions : \E i \in DOMAIN result : result[i] = f
<1>1. OrderProofs!OrderDone /\ OrderProofs!CompleteInv
  BY DEF Order!OrderDone, OrderProofs!OrderDone, OrderInv
<1>2. \A f \in DOMAIN functions : OrderProofs!IsKnown(f)
  <2> SUFFICES ASSUME NEW f \in DOMAIN functions PROVE OrderProofs!IsKnown(f)
    OBVIOUS
  <2>1. CASE f \in KernelFunctions
    BY <2>1 DEF OrderProofs!IsKnown
  <2>2. CASE f \in HelpersOf(functions)
    <3>1. PICK g \in DOMAIN functions : f \in CalledBy(functions[g])
      BY <2>2, CalledInIs
    <3>2. <<g, f>> \in CallEdges /\ g \in 1..MaxFunctions
      BY <3>1, CallEdgesAre
    <3> QED
      BY <3>2 DEF OrderProofs!IsKnown
  <2> QED
    BY <2>1, <2>2, HelpersAre DEF Helpers
<1>3. OrderProofs!CallersAreKnown
  <2> SUFFICES ASSUME NEW f \in 1..MaxFunctions, NEW g \in 1..MaxFunctions, <<g, f>> \in CallEdges
               PROVE  OrderProofs!IsKnown(g)
    BY DEF OrderProofs!CallersAreKnown
  <2> QED
    BY <1>2, CallEdgesAre
<1>4. OrderProofs!IsNotRecursive
  <2> SUFFICES ASSUME NEW group \in (SUBSET (1..MaxFunctions)) \ {{}}
               PROVE  \E f \in group : \A g \in group : <<g, f>> \notin CallEdges
    BY DEF OrderProofs!IsNotRecursive
  <2> DEFINE inside == group \cap DOMAIN functions
  <2>1. CASE inside = {}
    BY <2>1, CallEdgesAre
  <2>2. CASE inside # {}
    <3>1. inside \in (SUBSET DOMAIN functions) \ {{}}
      BY <2>2
    <3>2. PICK f \in inside : \A g \in inside : \A c \in functions[g].calls : c.callee # f
      BY <3>1 DEF IsModule, IsNotRecursive
    <3>3. \A g \in group : <<g, f>> \notin CallEdges
      BY <3>2, CallEdgesAre DEF CalledBy
    <3> QED
      BY <3>2, <3>3
  <2> QED
    BY <2>1, <2>2
<1>5. OrderProofs!IsComplete
  BY <1>1, <1>3, <1>4, OrderProofs!DoneIsComplete
<1> QED
  BY <1>2, <1>5 DEF OrderProofs!IsComplete, OrderProofs!Visited

------------------------------------------------------------------------------
(* What holds between the passes and within them. First the functions: the module is
   well-formed, and numbered and named like the source until versions are made. *)
AreNamed(f) == \A p \in Range(functions[f].params) : IsNamed(p)

InBounds ==
  \/ Range(pass) \subseteq {"MultiVersionUBO", "RemoveUnusedArguments"}
  \/ DOMAIN functions \subseteq 1..MaxFunctions /\ \A f \in DOMAIN functions : AreNamed(f)

(* Each pass has done what it is there for once it is no longer ahead. *)
LegalOK ==
  /\ "InlineImageMetadataGetter" \in Range(pass) \/ NoneIsCalled(functions, "metadata")
  /\ "InlineReadImage3D" \in Range(pass) \/ NoneIsCalled(functions, "samplers")
  /\ "InlinePointerToFunctionArg" \in Range(pass) \/ PrivateCallsAreLegal(functions)

UboOK ==
  MakesVersions => "MultiVersionUBO" \in Range(pass) \/ \A f \in HelpersOf(functions) : UboIsUnused(functions[f])

UsedOK == pass = <<>> => \A f \in HelpersOf(functions) : Range(functions[f].params) \subseteq UsedIn(functions[f])

(* From the order on, only the function being replaced by its versions may have no
   calls. *)
Late == pass = <<>> \/ pass[1] \in LatePasses
Current == result[turn + 1]
CalledOK == Late => \A f \in HelpersOf(functions) : f \in CalledIn(functions) \/ (localChanged /\ f = Current)

(* What a pass has collected is there while the pass runs. *)
InlinePasses ==
  {"InlineEntryPoints", "InlineImageMetadataGetter", "InlinePointerToFunctionArg", "InlineSingleCallSite", "InlineReadImage3D"}

ToInlineOK ==
  /\ toInline # {} => pass # <<>> /\ pass[1] \in InlinePasses
  /\ \A v \in toInline : \E f \in HelpersOf(functions) : v \in UsersIn(functions, f)

CandidatesOK ==
  /\ DOMAIN candidates # {} => Running("RemoveUnusedArguments")
  /\ \A f \in DOMAIN candidates : f \in HelpersOf(functions) /\ KeepsUsed(functions[f], candidates[f])

OrderOK ==
  /\ Ordering \/ Running("DirectResourceAccess") => OrderInv
  /\ Running("DirectResourceAccess") => turn \in 0 .. Len(result)

(* While versions are made: the functions that are left to do are there, and all
   the others use no pointer into a uniform buffer. The one at hand has the calls
   that are left, and once one of them is gone, what it calls itself is called by
   another function too. *)
IsLeft(f) == \E i \in turn + 1 .. Len(result) : result[i] = f

MakingVersions ==
  /\ result \in Seq(Nat) /\ NoneTwice(result) /\ turn \in 0 .. Len(result)
  /\ \A i \in turn + 1 .. Len(result) : result[i] \in DOMAIN functions /\ AreNamed(result[i])
  /\ \A f \in HelpersOf(functions) : IsLeft(f) \/ UboIsUnused(functions[f])
  /\ usersLeft # {} \/ localChanged =>
       turn < Len(result) /\ Current \in HelpersOf(functions) /\ usersLeft = UsersIn(functions, Current)
  /\ localChanged =>
       \A g \in CalledBy(functions[Current]) : \E h \in DOMAIN functions \ {Current} : g \in CalledBy(functions[h])

VersionsOK == IF Running("MultiVersionUBO") THEN MakingVersions ELSE usersLeft = {} /\ ~localChanged

PassInv ==
  /\ IsModule(functions) /\ options \in PassOptions /\ localChanged \in BOOLEAN
  /\ PassOK /\ InBounds /\ LegalOK /\ UboOK /\ UsedOK /\ CalledOK
  /\ ToInlineOK /\ CandidatesOK /\ OrderOK /\ VersionsOK

LEMMA RunningIs ==
  ASSUME IsChain(pass)
  PROVE  /\ \A name : Running(name) <=> pass # <<>> /\ pass[1] = name
         /\ Ordering <=> pass # <<>> /\ pass[1] \in {"OrderForDRA", "OrderForUBO"}
  BY TailFacts DEF IsChain, Running, Ordering

LEMMA OptionsAre ==
  ASSUME NEW o \in PassOptions
  PROVE  o.inlineEntryPoints \in BOOLEAN /\ o.inlineSingle \in BOOLEAN /\ o.direct \in BOOLEAN /\ o.uniform \in BOOLEAN
  BY PassAssumption

(* Everything is still ahead. *)
LEMMA InitPassInv == PassInit => PassInv
<1> SUFFICES ASSUME PassInit PROVE PassInv
  OBVIOUS
<1>1. /\ functions \in PassPrograms /\ options \in PassOptions /\ pass = Pipeline(options)
      /\ toInline = {} /\ DOMAIN candidates = {} /\ usersLeft = {} /\ localChanged = FALSE
  BY DEF PassInit
<1>2. /\ IsModule(functions) /\ DOMAIN functions \subseteq 1..MaxFunctions
      /\ \A f \in DOMAIN functions : AreNamed(f)
  BY <1>1, PassAssumption DEF AreNamed
<1>3. /\ IsChain(pass) /\ pass # <<>> /\ pass[1] \notin LatePasses
      /\ pass[Len(pass)] = "RemoveUnusedArguments"
      /\ \A i \in DOMAIN pass : pass[i] = "MultiVersionUBO" => i + 1 = Len(pass)
      /\ {"InlineImageMetadataGetter", "InlinePointerToFunctionArg", "InlineReadImage3D"} \subseteq Range(pass)
      /\ MakesVersions => "MultiVersionUBO" \in Range(pass)
  BY <1>1, OptionsAre, PipelineOK DEF MakesVersions
<1>4. /\ \A name \in LatePasses : ~Running(name)
      /\ ~Ordering
  BY <1>3, RunningIs DEF LatePasses
<1>5. ~Running("MultiVersionUBO") /\ ~Running("DirectResourceAccess")
  BY <1>4 DEF LatePasses
<1>6. PassOK /\ InBounds /\ LegalOK /\ UboOK
  BY <1>2, <1>3 DEF PassOK, InBounds, LegalOK, UboOK
<1>7. UsedOK /\ CalledOK
  BY <1>3 DEF UsedOK, CalledOK, Late
<1>8. ToInlineOK /\ CandidatesOK
  BY <1>1 DEF ToInlineOK, CandidatesOK
<1>9. OrderOK /\ VersionsOK
  BY <1>1, <1>4, <1>5 DEF OrderOK, VersionsOK
<1> QED
  BY <1>1, <1>2, <1>6, <1>7, <1>8, <1>9 DEF PassInv

------------------------------------------------------------------------------
(* The early passes, which inline calls and erase functions: no function is new,
   none has other parameters, and what was established stays. *)
Refined(fs, after) ==
  /\ IsModule(after) /\ DOMAIN after \subseteq DOMAIN fs
  /\ \A h \in DOMAIN after : after[h].params = fs[h].params
  /\ \A what : NoneIsCalled(fs, what) => NoneIsCalled(after, what)
  /\ PrivateCallsAreLegal(fs) => PrivateCallsAreLegal(after)

LEMMA SameIsRefined == ASSUME NEW fs, IsModule(fs) PROVE Refined(fs, fs)
  BY DEF Refined

LEMMA EarlyFacts ==
  ASSUME PassInv, pass # <<>>, pass[1] \notin LatePasses
  PROVE  /\ IsModule(functions) /\ IsChain(pass)
         /\ DOMAIN functions \subseteq 1..MaxFunctions /\ \A f \in DOMAIN functions : AreNamed(f)
         /\ MakesVersions => "MultiVersionUBO" \in Range(pass)
         /\ DOMAIN candidates = {} /\ usersLeft = {} /\ localChanged = FALSE
<1>1. IsModule(functions) /\ IsChain(pass)
  BY DEF PassInv, PassOK
<1>2. pass[1] \in Range(pass)
  BY <1>1, TailFacts DEF IsChain, Range
<1>3. DOMAIN functions \subseteq 1..MaxFunctions /\ \A f \in DOMAIN functions : AreNamed(f)
  BY <1>2 DEF PassInv, InBounds, LatePasses
<1>4. MakesVersions => "MultiVersionUBO" \in Range(pass)
  BY <1>2 DEF PassInv, PassOK, LatePasses
<1>5. ~Running("MultiVersionUBO") /\ ~Running("RemoveUnusedArguments")
  BY <1>1, RunningIs DEF LatePasses
<1>6. DOMAIN candidates = {}
  BY <1>5 DEF PassInv, CandidatesOK
<1>7. usersLeft = {} /\ ~localChanged /\ localChanged \in BOOLEAN
  BY <1>5 DEF PassInv, VersionsOK
<1> QED
  BY <1>1, <1>3, <1>4, <1>6, <1>7

LEMMA EarlyStep ==
  ASSUME PassInv, pass # <<>>, pass[1] \notin LatePasses,
         Stay, UNCHANGED <<options, candidates, uboVars>>, Refined(functions, functions'), ToInlineOK'
  PROVE  PassInv'
<1>1. /\ IsModule(functions) /\ IsChain(pass)
      /\ DOMAIN functions \subseteq 1..MaxFunctions /\ \A f \in DOMAIN functions : AreNamed(f)
      /\ MakesVersions => "MultiVersionUBO" \in Range(pass)
      /\ DOMAIN candidates = {} /\ usersLeft = {} /\ localChanged = FALSE
  BY EarlyFacts
<1>2. /\ pass' = pass /\ turn' = turn /\ options' = options /\ candidates' = candidates
      /\ usersLeft' = {} /\ localChanged' = FALSE
  BY <1>1 DEF Stay, uboVars
<1>3. \A name \in LatePasses : ~Running(name)'
  BY <1>1, <1>2, RunningIs DEF Running
<1>4. ~Ordering' /\ ~Running("DirectResourceAccess")' /\ ~Running("MultiVersionUBO")'
  BY <1>3 DEF Ordering, LatePasses
<1>5. PassOK'
  BY <1>2 DEF PassInv, PassOK, MakesVersions
<1>6. IsModule(functions') /\ DOMAIN functions' \subseteq 1..MaxFunctions /\ \A f \in DOMAIN functions' : AreNamed(f)'
  BY <1>1 DEF Refined, AreNamed
<1>7. LegalOK'
  BY <1>2 DEF PassInv, LegalOK, Refined
<1>8. UboOK'
  BY <1>1, <1>2 DEF UboOK, MakesVersions
<1>9. UsedOK' /\ CalledOK'
  BY <1>2 DEF UsedOK, CalledOK, Late
<1>10. CandidatesOK'
  BY <1>1, <1>2 DEF CandidatesOK
<1>11. OrderOK' /\ VersionsOK'
  BY <1>2, <1>4 DEF OrderOK, VersionsOK
<1>12. InBounds'
  BY <1>6 DEF InBounds
<1> QED
  BY <1>2, <1>5, <1>6, <1>7, <1>8, <1>9, <1>10, <1>11, <1>12 DEF PassInv

LEMMA EarlyEnd ==
  ASSUME PassInv, pass # <<>>, pass[1] \notin LatePasses,
         Begin(Tail(pass)), UNCHANGED <<options, candidates, uboVars>>, toInline' = {}, Refined(functions, functions'),
         pass[1] = "FunctionInternalizer" =>
           functions' = functions /\ \A f \in HelpersOf(functions) : f \in CalledIn(functions),
         pass[1] = "InlineImageMetadataGetter" => NoneIsCalled(functions', "metadata"),
         pass[1] = "InlineReadImage3D" => NoneIsCalled(functions', "samplers"),
         pass[1] = "InlinePointerToFunctionArg" => PrivateCallsAreLegal(functions')
  PROVE  PassInv'
<1>1. /\ IsModule(functions) /\ IsChain(pass)
      /\ DOMAIN functions \subseteq 1..MaxFunctions /\ \A f \in DOMAIN functions : AreNamed(f)
      /\ MakesVersions => "MultiVersionUBO" \in Range(pass)
      /\ DOMAIN candidates = {} /\ usersLeft = {} /\ localChanged = FALSE
  BY EarlyFacts
<1>2. /\ pass' = Tail(pass) /\ options' = options /\ candidates' = candidates
      /\ usersLeft' = {} /\ localChanged' = FALSE
      /\ pass' # <<>> /\ Head(pass') \in {"OrderForDRA", "OrderForUBO"} => Order!StartOrder(KernelsInOrder)
  BY <1>1 DEF Begin, uboVars
<1>3. /\ PassOK' /\ Range(pass) = {pass[1]} \cup Range(pass')
      /\ pass' # <<>> /\ Head(pass') = pass'[1] /\ MayFollow(pass[1], pass'[1])
  BY <1>2, TailOK DEF PassInv, LatePasses
<1>4. ~Running("DirectResourceAccess")' /\ ~Running("MultiVersionUBO")'
  BY <1>3 DEF Running, MayFollow, LatePasses
<1>5. pass'[1] \in LatePasses => pass[1] = "FunctionInternalizer"
  BY <1>3 DEF MayFollow
<1>6. OrderOK'
  <2> SUFFICES ASSUME Ordering' PROVE OrderInv'
    BY <1>4 DEF OrderOK
  <2>1. pass'[1] \in {"OrderForDRA", "OrderForUBO"}
    BY <1>3 DEF Ordering, Running
  <2>2. functions' = functions
    BY <1>5, <2>1 DEF LatePasses
  <2> QED
    BY <1>1, <1>2, <1>3, <2>1, <2>2, OrderStarts
<1>7. CalledOK'
  <2> SUFFICES ASSUME pass'[1] \in LatePasses, NEW f \in HelpersOf(functions') PROVE f \in CalledIn(functions')
    BY <1>3 DEF CalledOK, Late
  <2> QED
    BY <1>5
<1>8. IsModule(functions') /\ DOMAIN functions' \subseteq 1..MaxFunctions /\ \A f \in DOMAIN functions' : AreNamed(f)'
  BY <1>1 DEF Refined, AreNamed
<1>9. LegalOK'
  BY <1>3 DEF PassInv, LegalOK, Refined
<1>10. UboOK'
  BY <1>1, <1>2, <1>3 DEF UboOK, MakesVersions, LatePasses
<1>11. UsedOK' /\ VersionsOK' /\ InBounds'
  BY <1>2, <1>3, <1>4, <1>8 DEF UsedOK, VersionsOK, InBounds
<1>12. CandidatesOK' /\ ToInlineOK'
  BY <1>1, <1>2 DEF CandidatesOK, ToInlineOK
<1>13. options' \in PassOptions /\ localChanged' \in BOOLEAN
  BY <1>2 DEF PassInv
<1> QED
  BY <1>3, <1>6, <1>7, <1>8, <1>9, <1>10, <1>11, <1>12, <1>13 DEF PassInv

LEMMA InlinedRefined ==
  ASSUME IsModule(functions), NEW f \in HelpersOf(functions), NEW u \in Users(f)
  PROVE  Refined(functions, Inlined(u)) /\ HelpersOf(Inlined(u)) = HelpersOf(functions)
<1>1. /\ DOMAIN Inlined(u) = DOMAIN functions
      /\ \A h \in DOMAIN functions \ {u.in} : Inlined(u)[h] = functions[h]
      /\ SameSignature(functions[u.in], Inlined(u)[u.in])
  BY InlinedIs
<1>2. \A h \in DOMAIN functions : Inlined(u)[h].params = functions[h].params /\ Inlined(u)[h].kernel = functions[h].kernel
  BY <1>1 DEF SameSignature
<1>3. IsModule(Inlined(u)) /\ \A what : NoneIsCalled(functions, what) => NoneIsCalled(Inlined(u), what)
  BY InlinedModule, InlinedForbidden
<1>4. PrivateCallsAreLegal(functions) => PrivateCallsAreLegal(Inlined(u))
  BY InlinedPrivate
<1> QED
  BY <1>1, <1>2, <1>3, <1>4 DEF Refined, HelpersOf

LEMMA ErasedRefined ==
  ASSUME NEW fs, IsModule(fs), NEW L \in SUBSET DOMAIN fs, CallsStayIn(fs, L), NEW after, after = [f \in L |-> fs[f]]
  PROVE  Refined(fs, after)
<1>1. DOMAIN after \subseteq DOMAIN fs /\ \A h \in DOMAIN after : after[h].params = fs[h].params
  OBVIOUS
<1>2. /\ IsModule(after) /\ \A what : NoneIsCalled(fs, what) => NoneIsCalled(after, what)
      /\ PrivateCallsAreLegal(fs) => PrivateCallsAreLegal(after)
  BY ErasedOK
<1> QED
  BY <1>1, <1>2 DEF Refined

LEMMA DeadRefined ==
  ASSUME NEW fs, IsModule(fs)
  PROVE  Refined(fs, EraseDead(fs))
  BY DeadFacts, ErasedRefined

LEMMA RefinedTwice ==
  ASSUME NEW fs, NEW mid, NEW after, Refined(fs, mid), Refined(mid, after)
  PROVE  Refined(fs, after)
  BY DEF Refined

LEMMA UncalledRefined ==
  ASSUME IsModule(functions), EraseUncalled
  PROVE  Refined(functions, functions')
<1> DEFINE L == {g \in DOMAIN functions : functions[g].kernel \/ Users(g) # {}}
<1>1. CallsStayIn(functions, L)
  BY UncalledFacts
<1>2. functions' = [f \in L |-> functions[f]]
  BY DEF EraseUncalled
<1>3. L \in SUBSET DOMAIN functions
  OBVIOUS
<1> HIDE DEF L
<1> QED
  BY <1>1, <1>2, <1>3, ErasedRefined

(* The calls a round selects are calls of functions that are no kernels. *)
AreCalls(selected) == \A v \in selected : \E f \in HelpersOf(functions) : v \in UsersIn(functions, f)

LEMMA SelectedAreCalls ==
  /\ AreCalls(CallsInKernels) /\ AreCalls(OnlyCalls) /\ AreCalls(CallsForMetadata)
  /\ AreCalls(CallsForSamplers) /\ AreCalls(CallsWithPrivatePointers)
<1>1. \A fs, v : v \in CallsOf(fs) => \E f \in fs : v \in UsersIn(functions, f)
  BY UsersAre DEF CallsOf
<1>2. AreCalls(CallsInKernels) /\ AreCalls(OnlyCalls)
  BY UsersAre, HelpersAre DEF CallsInKernels, OnlyCalls, AreCalls
<1>3. AreCalls(CallsForMetadata) /\ AreCalls(CallsWithPrivatePointers)
  BY <1>1, HelpersAre DEF CallsForMetadata, CallsWithPrivatePointers, AreCalls
<1>4. AreCalls(CallsForSamplers)
  BY <1>1, HelpersAre DEF CallsForSamplers, AreCalls
<1> QED
  BY <1>2, <1>3, <1>4

LEMMA CollectStep ==
  ASSUME PassInv, pass # <<>>, pass[1] \in InlinePasses, NEW selected, AreCalls(selected),
         toInline' = selected, functions' = functions, Stay, UNCHANGED <<options, candidates, uboVars>>
  PROVE  PassInv'
<1>1. pass[1] \notin LatePasses
  BY DEF InlinePasses, LatePasses
<1>2. pass' = pass
  BY DEF Stay
<1>3. ToInlineOK'
  BY <1>2 DEF ToInlineOK, AreCalls
<1>4. Refined(functions, functions')
  BY SameIsRefined DEF PassInv
<1> QED
  BY <1>1, <1>3, <1>4, EarlyStep

(* What was collected is not disturbed when another call is inlined. *)
LEMMA InlineStep ==
  ASSUME PassInv, pass # <<>>, pass[1] \in InlinePasses, NEW u \in toInline,
         toInline' = toInline \ {u}, functions' = Inlined(u) \/ (toInline' = {} /\ functions' = EraseDead(Inlined(u))),
         Stay, UNCHANGED <<options, candidates, uboVars>>
  PROVE  PassInv'
<1>1. pass[1] \notin LatePasses
  BY DEF InlinePasses, LatePasses
<1>2. pass' = pass
  BY DEF Stay
<1>3. IsModule(functions)
  BY DEF PassInv
<1>4. PICK f \in HelpersOf(functions) : u \in Users(f)
  BY UsersAre DEF PassInv, ToInlineOK
<1>5. Refined(functions, Inlined(u)) /\ HelpersOf(Inlined(u)) = HelpersOf(functions)
  BY <1>3, <1>4, InlinedRefined
<1>6. Refined(functions, functions')
  <2>1. IsModule(Inlined(u))
    BY <1>5 DEF Refined
  <2> QED
    BY <1>5, <2>1, DeadRefined, RefinedTwice
<1>7. ToInlineOK'
  <2>1. toInline' # {} => pass' # <<>> /\ pass'[1] \in InlinePasses
    BY <1>2
  <2>2. ASSUME NEW v \in toInline' PROVE \E h \in HelpersOf(functions') : v \in UsersIn(functions', h)
    <3>1. functions' = Inlined(u) /\ v # u /\ v \in toInline
      BY <2>2
    <3>2. PICK h \in HelpersOf(functions) : v \in UsersIn(functions, h)
      BY <3>1 DEF PassInv, ToInlineOK
    <3>3. v \in UsersIn(Inlined(u), h)
      BY <1>3, <1>4, <3>1, <3>2, InlinedUsers
    <3> QED
      BY <1>5, <3>1, <3>2, <3>3
  <2> QED
    BY <2>1, <2>2 DEF ToInlineOK
<1> QED
  BY <1>1, <1>6, <1>7, EarlyStep

------------------------------------------------------------------------------
(* A round that finds nothing has established what the pass is for. *)
LEMMA NoMetadata ==
  ASSUME CallsForMetadata = {} PROVE NoneIsCalled(functions, "metadata")
<1> SUFFICES ASSUME NEW f \in HelpersOf(functions), Does(functions[f], "metadata") PROVE f \notin CalledIn(functions)
  BY DEF NoneIsCalled
<1>1. AsksForMetadata(f) /\ f \in Helpers
  BY HelpersAre DEF Does, Forbidden, AsksForMetadata
<1>2. Users(f) = {}
  BY <1>1 DEF CallsForMetadata, CallsOf
<1> QED
  BY <1>2, UsersAre, CalledInIs

LEMMA NoSamplers ==
  ASSUME CallsForSamplers = {} PROVE NoneIsCalled(functions, "samplers")
<1> SUFFICES ASSUME NEW f \in HelpersOf(functions), Does(functions[f], "samplers") PROVE f \notin CalledIn(functions)
  BY DEF NoneIsCalled
<1>1. f \in Helpers /\ ReadsWithNonLiteralSampler(f) /\ ReadsWithSampler(f)
  BY HelpersAre DEF Does, Forbidden, ReadsWithNonLiteralSampler, ReadsWithSampler, IsReadImage3DWithNonLiteralSampler
<1>2. Users(f) = {}
  BY <1>1 DEF CallsForSamplers, CallsOf
<1> QED
  BY <1>2, UsersAre, CalledInIs

LEMMA NoPrivatePointers ==
  ASSUME IsModule(functions), CallsWithPrivatePointers = {}
  PROVE  PrivateCallsAreLegal(functions)
<1>1. ASSUME NEW f \in DOMAIN functions, NEW u \in Users(f)
      PROVE  \A p \in functions[f].private : IsMemoryObject(Given(u)[p]) /\ ~ParamRequiresInlining(f, p)
  <2>1. u.call.callee = f /\ IsFunction(functions, functions[f])
    BY <1>1, UserFacts
  <2>2. CASE functions[f].kernel
    <3>1. functions[f].params = <<>> /\ functions[f].private \subseteq Range(functions[f].params)
      BY <2>1, <2>2 DEF IsFunction
    <3>2. Range(<<>>) = {}
      BY DEF Range
    <3> QED
      BY <3>1, <3>2
  <2>3. CASE ~functions[f].kernel
    <3>1. u \in CallsOf(Helpers)
      BY <1>1, <2>3, HelpersAre DEF CallsOf, HelpersOf
    <3>2. ~CallRequiresInlining(u)
      BY <3>1 DEF CallsWithPrivatePointers
    <3> QED
      BY <2>1, <3>2 DEF CallRequiresInlining
  <2> QED
    BY <2>2, <2>3
<1>2. ASSUME NEW g \in DOMAIN functions, NEW c \in functions[g].calls PROVE PassesMemory(functions[c.callee], c)
  <2> DEFINE u == [in |-> g, call |-> c]
  <2>1. u \in Users(c.callee) /\ u.call = c
    BY UserIs
  <2> HIDE DEF u
  <2>2. c.callee \in DOMAIN functions /\ IsFunction(functions, functions[c.callee]) /\ IsCallIn(functions, functions[u.in], c)
    BY <2>1, UserFacts
  <2>3. \A i \in DOMAIN c.args : Given(u)[functions[c.callee].params[i]] = c.args[i]
    BY <2>1, <2>2, GivenFacts DEF Given
  <2> QED
    BY <1>1, <2>1, <2>2, <2>3 DEF PassesMemory
<1>3. ASSUME NEW f \in CalledIn(functions) PROVE PrivateIsInPlace(functions[f])
  <2>1. PICK u : u \in Users(f)
    BY UsersAre, CalledInIs
  <2>2. f \in DOMAIN functions
    BY CalledAreFunctions
  <2>3. ASSUME NEW p \in functions[f].private PROVE IsUsedInPlace(functions[f], p)
    <3>1. ~ParamRequiresInlining(f, p)
      BY <1>1, <2>1, <2>2
    <3>2. /\ \A v \in Passed(f) \cup Accessed(f) : IsOf(v, p) => StartsAt(v)
          /\ \A v \in Passed(f) : IsOf(v, p) => v.geps = <<>>
          /\ \A a \in functions[f].accesses : a.op = "kept" => ~IsOf(a.operands[1], p)
      BY <3>1 DEF ParamRequiresInlining, IsOf, StartsAt
    <3>3. \A c \in functions[f].calls : \A i \in DOMAIN c.args : c.args[i] \in Passed(f)
      BY DEF Passed, Range
    <3>4. \A a \in functions[f].accesses : \A i \in DOMAIN a.operands : a.operands[i] \in Accessed(f)
      BY DEF Accessed, Range
    <3> QED
      BY <3>2, <3>3, <3>4 DEF IsUsedInPlace, CallInPlace, AccessInPlace
  <2> QED
    BY <2>3 DEF PrivateIsInPlace
<1> QED
  BY <1>2, <1>3 DEF PrivateCallsAreLegal

LEMMA NoUncalled ==
  ASSUME UncalledHelpers = {} PROVE \A f \in HelpersOf(functions) : f \in CalledIn(functions)
<1> SUFFICES ASSUME NEW f \in HelpersOf(functions) PROVE f \in CalledIn(functions)
  OBVIOUS
<1>1. Users(f) # {}
  BY HelpersAre DEF UncalledHelpers
<1> QED
  BY <1>1, UsersAre, CalledInIs

------------------------------------------------------------------------------
(* The actions of the early passes. *)
LEMMA InlineRoundsInv ==
  ASSUME PassInv, NEW name \in InlinePasses, NEW selected, AreCalls(selected), InlineRounds(name, selected),
         selected = {} => /\ name = "InlineImageMetadataGetter" => NoneIsCalled(functions, "metadata")
                          /\ name = "InlineReadImage3D" => NoneIsCalled(functions, "samplers"),
         name # "InlinePointerToFunctionArg"
  PROVE  PassInv'
<1>1. IsChain(pass) /\ IsModule(functions)
  BY DEF PassInv, PassOK
<1>2. pass # <<>> /\ pass[1] = name /\ pass[1] \in InlinePasses /\ pass[1] \notin LatePasses /\ name # "FunctionInternalizer"
  BY <1>1, RunningIs DEF InlineRounds, InlinePasses, LatePasses
<1>3. UNCHANGED <<options, candidates, uboVars>>
  BY DEF InlineRounds
<1>4. CASE CollectCalls(selected) /\ Stay
  BY <1>2, <1>3, <1>4, CollectStep DEF CollectCalls
<1>5. CASE InlineCall /\ Stay
  <2>1. PICK u \in toInline : functions' = Inlined(u) /\ toInline' = toInline \ {u}
    BY <1>5 DEF InlineCall
  <2> QED
    BY <1>2, <1>3, <1>5, <2>1, InlineStep
<1>6. CASE toInline = {} /\ selected = {} /\ UNCHANGED <<functions, toInline>> /\ Begin(Tail(pass))
  <2>1. Refined(functions, functions')
    BY <1>1, <1>6, SameIsRefined
  <2> QED
    BY <1>2, <1>3, <1>6, <2>1, EarlyEnd
<1> QED
  BY <1>4, <1>5, <1>6 DEF InlineRounds

LEMMA InlineActionsInv ==
  ASSUME PassInv, EntryPoints \/ ImageMetadataGetters \/ SingleCallSites \/ NonLiteralSamplers
  PROVE  PassInv'
<1>1. CASE EntryPoints
  BY <1>1, SelectedAreCalls, InlineRoundsInv DEF EntryPoints, InlinePasses
<1>2. CASE ImageMetadataGetters
  BY <1>2, SelectedAreCalls, NoMetadata, InlineRoundsInv DEF ImageMetadataGetters, InlinePasses
<1>3. CASE SingleCallSites
  BY <1>3, SelectedAreCalls, InlineRoundsInv DEF SingleCallSites, InlinePasses
<1>4. CASE NonLiteralSamplers
  BY <1>4, SelectedAreCalls, NoSamplers, InlineRoundsInv DEF NonLiteralSamplers, InlinePasses
<1> QED
  BY <1>1, <1>2, <1>3, <1>4

LEMMA PointersToFunctionArgsInv ==
  ASSUME PassInv, PointersToFunctionArgs
  PROVE  PassInv'
<1>1. IsChain(pass) /\ IsModule(functions)
  BY DEF PassInv, PassOK
<1>2. pass # <<>> /\ pass[1] = "InlinePointerToFunctionArg" /\ pass[1] \in InlinePasses /\ pass[1] \notin LatePasses
  BY <1>1, RunningIs DEF PointersToFunctionArgs, InlinePasses, LatePasses
<1>3. UNCHANGED <<options, candidates, uboVars>>
  BY DEF PointersToFunctionArgs
<1>4. CASE CollectCalls(CallsWithPrivatePointers) /\ Stay
  BY <1>2, <1>3, <1>4, SelectedAreCalls, CollectStep DEF CollectCalls
<1>5. CASE InlineCallAndErase /\ Stay
  <2>1. PICK u \in toInline : /\ functions' = IF toInline = {u} THEN EraseDead(Inlined(u)) ELSE Inlined(u)
                              /\ toInline' = toInline \ {u}
    BY <1>5 DEF InlineCallAndErase
  <2>2. functions' = Inlined(u) \/ (toInline' = {} /\ functions' = EraseDead(Inlined(u)))
    BY <2>1
  <2> QED
    BY <1>2, <1>3, <1>5, <2>1, <2>2, InlineStep
<1>6. CASE /\ toInline = {} /\ CallsWithPrivatePointers = {}
           /\ functions' = EraseDead(functions)
           /\ UNCHANGED toInline
           /\ Begin(Tail(pass))
  <2>1. Refined(functions, functions')
    BY <1>1, <1>6, DeadRefined
  <2>2. PrivateCallsAreLegal(functions')
    BY <1>1, <1>6, <2>1, NoPrivatePointers DEF Refined
  <2> QED
    BY <1>2, <1>3, <1>6, <2>1, <2>2, EarlyEnd
<1> QED
  BY <1>4, <1>5, <1>6 DEF PointersToFunctionArgs

LEMMA SweepUncalledInv ==
  ASSUME PassInv, SweepUncalled
  PROVE  PassInv'
<1>1. IsChain(pass) /\ IsModule(functions)
  BY DEF PassInv, PassOK
<1>2. pass # <<>> /\ pass[1] = "EraseUncalled" /\ pass[1] \notin InlinePasses /\ pass[1] \notin LatePasses
  BY <1>1, RunningIs DEF SweepUncalled, InlinePasses, LatePasses
<1>3. toInline' = {}
  BY <1>2 DEF SweepUncalled, PassInv, ToInlineOK
<1>4. Refined(functions, functions')
  BY <1>1, UncalledRefined DEF SweepUncalled
<1> QED
  BY <1>2, <1>3, <1>4, EarlyEnd DEF SweepUncalled

LEMMA InternalizerInv ==
  ASSUME PassInv, Internalizer
  PROVE  PassInv'
<1>1. IsChain(pass) /\ IsModule(functions)
  BY DEF PassInv, PassOK
<1>2. pass # <<>> /\ pass[1] = "FunctionInternalizer" /\ pass[1] \notin InlinePasses /\ pass[1] \notin LatePasses
  BY <1>1, RunningIs DEF Internalizer, InlinePasses, LatePasses
<1>3. toInline = {} /\ UNCHANGED <<options, candidates, uboVars>>
  BY <1>2 DEF Internalizer, PassInv, ToInlineOK
<1>4. CASE InternalizeFunctions /\ Stay
  <2>1. toInline' = {} /\ EraseUncalled
    BY <1>3, <1>4 DEF InternalizeFunctions
  <2>2. Refined(functions, functions')
    BY <1>1, <2>1, UncalledRefined
  <2>3. ToInlineOK'
    BY <2>1 DEF ToInlineOK
  <2> QED
    BY <1>2, <1>3, <1>4, <2>2, <2>3, EarlyStep
<1>5. CASE UncalledHelpers = {} /\ UNCHANGED <<functions, toInline>> /\ Begin(Tail(pass))
  <2>1. Refined(functions, functions') /\ \A f \in HelpersOf(functions) : f \in CalledIn(functions)
    BY <1>1, <1>5, SameIsRefined, NoUncalled
  <2> QED
    BY <1>2, <1>3, <1>5, <2>1, EarlyEnd
<1> QED
  BY <1>4, <1>5 DEF Internalizer

------------------------------------------------------------------------------
(* The late passes change functions in place: they call whom they called. *)
Rewritten(fs, after) ==
  /\ IsModule(after) /\ DOMAIN after = DOMAIN fs /\ CalledIn(after) = CalledIn(fs)
  /\ \A h \in DOMAIN fs : /\ after[h].kernel = fs[h].kernel
                          /\ CalledBy(after[h]) = CalledBy(fs[h])
                          /\ Range(after[h].params) \subseteq Range(fs[h].params)
  /\ \A what : NoneIsCalled(fs, what) => NoneIsCalled(after, what)
  /\ PrivateCallsAreLegal(fs) => PrivateCallsAreLegal(after)

LEMMA SameIsRewritten == ASSUME NEW fs, IsModule(fs) PROVE Rewritten(fs, fs)
  BY DEF Rewritten

LEMMA LateFacts ==
  ASSUME PassInv, pass # <<>>, pass[1] \in LatePasses
  PROVE  /\ IsModule(functions) /\ IsChain(pass) /\ toInline = {}
         /\ pass[1] # "MultiVersionUBO" =>
              /\ usersLeft = {} /\ localChanged = FALSE
              /\ \A f \in HelpersOf(functions) : f \in CalledIn(functions)
         /\ pass[1] # "RemoveUnusedArguments" => DOMAIN candidates = {}
         /\ MakesVersions /\ pass[1] # "RemoveUnusedArguments" => "MultiVersionUBO" \in Range(pass)
         /\ pass[1] \notin {"MultiVersionUBO", "RemoveUnusedArguments"} =>
              DOMAIN functions \subseteq 1..MaxFunctions /\ \A f \in DOMAIN functions : AreNamed(f)
<1>1. IsModule(functions) /\ IsChain(pass)
  BY DEF PassInv, PassOK
<1>2. pass[1] \in Range(pass)
  BY <1>1, TailFacts DEF IsChain, Range
<1>3. toInline = {}
  BY DEF PassInv, ToInlineOK, LatePasses, InlinePasses
<1>4. pass[1] # "MultiVersionUBO" => usersLeft = {} /\ localChanged = FALSE
  BY <1>1, RunningIs DEF PassInv, VersionsOK
<1>5. pass[1] # "MultiVersionUBO" => \A f \in HelpersOf(functions) : f \in CalledIn(functions)
  BY <1>4 DEF PassInv, CalledOK, Late
<1>6. pass[1] # "RemoveUnusedArguments" => DOMAIN candidates = {}
  BY <1>1, RunningIs DEF PassInv, CandidatesOK
<1>7. MakesVersions /\ pass[1] # "RemoveUnusedArguments" => "MultiVersionUBO" \in Range(pass)
  BY <1>2 DEF PassInv, PassOK
<1>8. pass[1] \notin {"MultiVersionUBO", "RemoveUnusedArguments"} =>
        DOMAIN functions \subseteq 1..MaxFunctions /\ \A f \in DOMAIN functions : AreNamed(f)
  BY <1>2 DEF PassInv, InBounds
<1> QED
  BY <1>1, <1>3, <1>4, <1>5, <1>6, <1>7, <1>8

LEMMA LateStep ==
  ASSUME PassInv, pass # <<>>, pass[1] \in LatePasses, pass[1] # "MultiVersionUBO",
         Rewritten(functions, functions'), UNCHANGED <<pass, options, toInline, uboVars>>,
         UboOK', CandidatesOK', OrderOK'
  PROVE  PassInv'
<1>1. /\ IsModule(functions) /\ IsChain(pass) /\ toInline = {}
      /\ usersLeft = {} /\ localChanged = FALSE
      /\ \A f \in HelpersOf(functions) : f \in CalledIn(functions)
  BY LateFacts
<1>2. /\ pass' = pass /\ options' = options /\ toInline' = {}
      /\ usersLeft' = {} /\ localChanged' = FALSE
  BY <1>1 DEF uboVars
<1>3. HelpersOf(functions') = HelpersOf(functions)
  BY DEF Rewritten, HelpersOf
<1>4. PassOK'
  BY <1>2 DEF PassInv, PassOK, MakesVersions
<1>5. InBounds'
  <2>1. CASE Range(pass) \subseteq {"MultiVersionUBO", "RemoveUnusedArguments"}
    BY <1>2, <2>1 DEF InBounds
  <2>2. CASE DOMAIN functions \subseteq 1..MaxFunctions /\ \A f \in DOMAIN functions : AreNamed(f)
    BY <2>2 DEF InBounds, AreNamed, Rewritten
  <2> QED
    BY <2>1, <2>2 DEF PassInv, InBounds
<1>6. LegalOK'
  BY <1>2 DEF PassInv, LegalOK, Rewritten
<1>7. UsedOK' /\ CalledOK'
  BY <1>1, <1>2, <1>3 DEF UsedOK, CalledOK, Rewritten
<1>8. VersionsOK' /\ ToInlineOK'
  BY <1>1, <1>2, RunningIs DEF VersionsOK, ToInlineOK, Running
<1>9. IsModule(functions') /\ options' \in PassOptions
  BY <1>2 DEF PassInv, Rewritten
<1> QED
  BY <1>2, <1>4, <1>5, <1>6, <1>7, <1>8, <1>9 DEF PassInv

LEMMA LateEnd ==
  ASSUME PassInv, pass # <<>>, pass[1] \in LatePasses, pass' = Tail(pass),
         UNCHANGED <<functions, options, toInline, candidates, uboVars>>,
         DOMAIN candidates = {}, usersLeft = {}, localChanged = FALSE,
         pass[1] = "MultiVersionUBO" => \A f \in HelpersOf(functions) : UboIsUnused(functions[f]),
         pass[1] = "RemoveUnusedArguments" => \A f \in HelpersOf(functions) : Range(functions[f].params) \subseteq UsedIn(functions[f]),
         Running("MultiVersionUBO")' => MakingVersions', OrderOK'
  PROVE  PassInv'
<1>1. IsModule(functions) /\ IsChain(pass) /\ toInline = {}
  BY LateFacts
<1>2. /\ functions' = functions /\ options' = options /\ toInline' = {} /\ candidates' = candidates
      /\ usersLeft' = {} /\ localChanged' = FALSE
  BY <1>1 DEF uboVars
<1>3. /\ PassOK' /\ Range(pass) = {pass[1]} \cup Range(pass')
      /\ pass' # <<>> => MayFollow(pass[1], pass'[1])
      /\ pass' = <<>> => pass[1] = "RemoveUnusedArguments"
  BY TailOK DEF PassInv
<1>4. InBounds'
  BY <1>2, <1>3 DEF PassInv, InBounds, AreNamed
<1>5. LegalOK'
  BY <1>2, <1>3 DEF PassInv, LegalOK, LatePasses
<1>6. UboOK'
  BY <1>2, <1>3 DEF PassInv, UboOK, MakesVersions
<1>7. UsedOK' /\ CalledOK'
  BY <1>2, <1>3 DEF PassInv, UsedOK, CalledOK, Late
<1>8. ToInlineOK' /\ CandidatesOK' /\ VersionsOK'
  BY <1>2 DEF ToInlineOK, CandidatesOK, VersionsOK
<1>9. IsModule(functions') /\ options' \in PassOptions
  BY <1>2 DEF PassInv
<1> QED
  BY <1>2, <1>3, <1>4, <1>5, <1>6, <1>7, <1>8, <1>9 DEF PassInv

LEMMA OrderFunctionsInv ==
  ASSUME PassInv, OrderFunctions
  PROVE  PassInv'
<1>1. IsChain(pass) /\ IsModule(functions)
  BY DEF PassInv, PassOK
<1>2. /\ pass # <<>> /\ pass[1] \in {"OrderForDRA", "OrderForUBO"} /\ pass[1] \in LatePasses
      /\ pass[1] \notin {"MultiVersionUBO", "RemoveUnusedArguments"}
      /\ Ordering
  BY <1>1, RunningIs DEF OrderFunctions, LatePasses
<1>3. /\ DOMAIN functions \subseteq 1..MaxFunctions /\ \A f \in DOMAIN functions : AreNamed(f)
      /\ usersLeft = {} /\ localChanged = FALSE /\ DOMAIN candidates = {}
      /\ \A f \in HelpersOf(functions) : f \in CalledIn(functions)
      /\ MakesVersions => "MultiVersionUBO" \in Range(pass)
  BY <1>2, LateFacts
<1>4. UNCHANGED <<functions, options, toInline, candidates, uboVars>> /\ functions' = functions
  BY DEF OrderFunctions
<1>5. OrderInv
  BY <1>2 DEF PassInv, OrderOK
<1>6. CASE Order!OrderStep /\ UNCHANGED <<pass, turn>>
  <2>1. OrderInv'
    BY <1>4, <1>5, <1>6, OrderGoesOn
  <2>2. OrderOK'
    <3>1. ~Running("DirectResourceAccess")'
      BY <1>1, <1>2, <1>6, RunningIs DEF Running
    <3> QED
      BY <2>1, <3>1 DEF OrderOK
  <2>3. CandidatesOK'
    BY <1>3, <1>4 DEF CandidatesOK
  <2>4. UboOK'
    BY <1>3, <1>4, <1>6 DEF UboOK, MakesVersions
  <2>5. Rewritten(functions, functions')
    BY <1>1, <1>4, SameIsRewritten
  <2> QED
    BY <1>2, <1>4, <1>6, <2>2, <2>3, <2>4, <2>5, LateStep
<1>7. CASE Order!OrderDone /\ pass' = Tail(pass) /\ turn' = 0 /\ UNCHANGED orderVars
  <2>1. /\ result \in Seq(Nat) /\ NoneTwice(result) /\ DOMAIN result = 1 .. Len(result) /\ Len(result) \in Nat
        /\ \A i \in DOMAIN result : result[i] \in DOMAIN functions
        /\ \A f \in DOMAIN functions : \E i \in DOMAIN result : result[i] = f
    BY <1>1, <1>3, <1>5, <1>7, OrderIsKnown, OrderEnds
  <2>2. result' = result
    BY <1>7 DEF orderVars
  <2>3. pass' # <<>> => MayFollow(pass[1], pass'[1]) /\ Head(pass') = pass'[1]
    BY <1>2, <1>4, <1>7, TailOK DEF PassInv
  <2>4. ~Ordering'
    BY <1>2, <2>3 DEF Ordering, Running, MayFollow
  <2>5. OrderInv'
    BY <1>4, <1>5, <1>7, OrderIsKept
  <2>6. OrderOK'
    BY <1>7, <2>1, <2>2, <2>4, <2>5 DEF OrderOK
  <2>7. MakingVersions'
    <3>1. usersLeft' = {} /\ localChanged' = FALSE
      BY <1>3, <1>4 DEF uboVars
    <3>2. ASSUME NEW f \in HelpersOf(functions') PROVE IsLeft(f)'
      <4>1. f \in DOMAIN functions
        BY <1>4 DEF HelpersOf
      <4> QED
        BY <1>7, <2>1, <2>2, <4>1 DEF IsLeft
    <3>3. \A i \in turn' + 1 .. Len(result') : result'[i] \in DOMAIN functions' /\ AreNamed(result[i])'
      BY <1>3, <1>4, <1>7, <2>1, <2>2 DEF AreNamed
    <3>4. result' \in Seq(Nat) /\ NoneTwice(result') /\ turn' \in 0 .. Len(result')
      BY <1>7, <2>1, <2>2
    <3> QED
      BY <3>1, <3>2, <3>3, <3>4 DEF MakingVersions
  <2> QED
    BY <1>2, <1>3, <1>4, <1>7, <2>6, <2>7, LateEnd
<1> QED
  BY <1>6, <1>7 DEF OrderFunctions

LEMMA DirectAccessesInv ==
  ASSUME PassInv, DirectAccesses
  PROVE  PassInv'
<1>1. IsChain(pass) /\ IsModule(functions)
  BY DEF PassInv, PassOK
<1>2. /\ pass # <<>> /\ pass[1] = "DirectResourceAccess" /\ pass[1] \in LatePasses
      /\ Running("DirectResourceAccess")
  BY <1>1, RunningIs DEF DirectAccesses, LatePasses
<1>3. /\ usersLeft = {} /\ localChanged = FALSE /\ DOMAIN candidates = {}
      /\ MakesVersions => "MultiVersionUBO" \in Range(pass)
  BY <1>2, LateFacts
<1>4. UNCHANGED <<options, toInline, candidates, uboVars>>
  BY DEF DirectAccesses
<1>5. OrderInv /\ turn \in 0 .. Len(result)
  BY <1>2 DEF PassInv, OrderOK
<1>6. CASE /\ turn < Len(result)
           /\ RewriteResourceAccesses(result[turn + 1])
           /\ turn' = turn + 1
           /\ UNCHANGED <<pass, orderVars>>
  <2> DEFINE f == result[turn + 1]
  <2>1. f \in DOMAIN functions /\ Len(result) \in Nat
    BY <1>1, <1>5, <1>6, OrderIsKnown
  <2>2. PICK new : /\ DOMAIN new = DirectParams(f)
                   /\ \A q \in DOMAIN new : /\ IsPointer(new[q]) /\ new[q].kind = "resource"
                                            /\ IndexUses(new[q]) = {} /\ BaseUse(new[q]) = {}
                   /\ functions' = [functions EXCEPT ![f] = ReplaceAllUses(@, new)]
    BY <1>1, <1>6, <2>1, RewriteIs
  <2>3. /\ DOMAIN functions' = DOMAIN functions /\ functions'[f] = ReplaceAllUses(functions[f], new)
        /\ \A h \in DOMAIN functions \ {f} : functions'[h] = functions[h]
    BY <2>1, <2>2
  <2>4. /\ Fits(functions[f], new, functions[f])
        /\ PrivateCallsAreLegal(functions) => FitsPrivate(functions[f], new)
    BY <1>1, <2>1, <2>2, DirectFits
  <2> HIDE DEF f
  <2>5. /\ DOMAIN functions' = DOMAIN functions
        /\ \A h \in DOMAIN functions : /\ SameSignature(functions[h], functions'[h])
                                       /\ CalledBy(functions'[h]) = CalledBy(functions[h])
        /\ CalledIn(functions') = CalledIn(functions)
        /\ IsModule(functions')
        /\ \A what : NoneIsCalled(functions, what) => NoneIsCalled(functions', what)
        /\ PrivateCallsAreLegal(functions) => PrivateCallsAreLegal(functions')
    BY <1>1, <2>1, <2>3, <2>4, ReplacedOK
  <2>6. \A h \in DOMAIN functions : functions'[h].kernel = functions[h].kernel /\ functions'[h].params = functions[h].params
    BY <2>5 DEF SameSignature
  <2>7. Rewritten(functions, functions')
    BY <2>5, <2>6 DEF Rewritten
  <2>8. OrderOK'
    <3>1. OrderInv'
      BY <1>5, <1>6, <2>5, <2>6, OrderIsKept
    <3>2. turn' \in 0 .. Len(result')
      BY <1>5, <1>6, <2>1 DEF orderVars
    <3> QED
      BY <3>1, <3>2 DEF OrderOK
  <2>9. UboOK' /\ CandidatesOK'
    BY <1>3, <1>4, <1>6 DEF UboOK, MakesVersions, CandidatesOK
  <2> QED
    BY <1>2, <1>4, <1>6, <2>7, <2>8, <2>9, LateStep
<1>7. CASE turn = Len(result) /\ UNCHANGED functions /\ Begin(Tail(pass))
  <2>1. pass' = Tail(pass)
    BY <1>7 DEF Begin
  <2>2. pass' # <<>> => MayFollow(pass[1], pass'[1]) /\ Head(pass') = pass'[1]
    BY <1>2, <1>4, <2>1, TailOK DEF PassInv
  <2>3. ~Ordering' /\ ~Running("DirectResourceAccess")' /\ ~Running("MultiVersionUBO")'
    BY <1>2, <2>2 DEF Ordering, Running, MayFollow
  <2>4. OrderOK'
    BY <2>3 DEF OrderOK
  <2> QED
    BY <1>2, <1>3, <1>4, <1>7, <2>1, <2>3, <2>4, LateEnd
<1> QED
  BY <1>6, <1>7 DEF DirectAccesses

LEMMA FoundCandidates ==
  ASSUME IsModule(functions)
  PROVE  /\ \A f \in DOMAIN FindCandidates : f \in HelpersOf(functions) /\ KeepsUsed(functions[f], FindCandidates[f])
         /\ DOMAIN FindCandidates = {} =>
              \A f \in HelpersOf(functions) : Range(functions[f].params) \subseteq UsedIn(functions[f])
<1>1. DOMAIN FindCandidates = {g \in Helpers : Range(functions[g].params) \ UsedParams(g) # {}}
  BY DEF FindCandidates
<1>2. ASSUME NEW f \in DOMAIN FindCandidates
      PROVE  f \in HelpersOf(functions) /\ KeepsUsed(functions[f], FindCandidates[f])
  <2>1. f \in HelpersOf(functions)
    BY <1>1, HelpersAre
  <2>2. FindCandidates[f] = [i \in DOMAIN functions[f].params |-> functions[f].params[i] \in UsedIn(functions[f])]
    BY <1>1, <1>2, UsedParamsAre DEF FindCandidates
  <2> DEFINE keep == FindCandidates[f]
             used == UsedIn(functions[f])
  <2>3. keep = [i \in DOMAIN functions[f].params |-> functions[f].params[i] \in used]
    BY <2>2
  <2> HIDE DEF keep, used
  <2>4. DOMAIN keep = DOMAIN functions[f].params
    BY <2>3
  <2>5. \A i \in DOMAIN keep : keep[i] = (functions[f].params[i] \in used)
    BY <2>3
  <2>6. ASSUME NEW i \in DOMAIN keep PROVE keep[i] \in BOOLEAN /\ (functions[f].params[i] \in used => keep[i])
    <3>1. CASE functions[f].params[i] \in used
      BY <2>5, <3>1
    <3>2. CASE functions[f].params[i] \notin used
      <4>1. (functions[f].params[i] \in used) = FALSE
        BY <3>2
      <4>2. keep[i] = FALSE
        BY <2>5, <4>1
      <4> QED
        BY <3>2, <4>2
    <3> QED
      BY <3>1, <3>2
  <2> QED
    BY <2>1, <2>4, <2>6 DEF KeepsUsed, keep, used
<1>3. ASSUME DOMAIN FindCandidates = {}, NEW f \in HelpersOf(functions)
      PROVE  Range(functions[f].params) \subseteq UsedIn(functions[f])
  BY <1>1, <1>3, HelpersAre, UsedParamsAre
<1> QED
  BY <1>2, <1>3

LEMMA RemoveArgumentsInv ==
  ASSUME PassInv, RemoveArguments
  PROVE  PassInv'
<1>1. IsChain(pass) /\ IsModule(functions)
  BY DEF PassInv, PassOK
<1>2. /\ pass # <<>> /\ pass[1] = "RemoveUnusedArguments" /\ pass[1] \in LatePasses
      /\ Running("RemoveUnusedArguments") /\ ~Ordering /\ ~Running("DirectResourceAccess")
  BY <1>1, RunningIs DEF RemoveArguments, LatePasses
<1>3. usersLeft = {} /\ localChanged = FALSE
  BY <1>2, LateFacts
<1>4. UNCHANGED <<options, toInline, uboVars>>
  BY DEF RemoveArguments
<1>5. ASSUME pass' = pass PROVE OrderOK'
  BY <1>2, <1>5 DEF OrderOK, Ordering, Running
<1>6. CASE StartRound /\ Stay
  <2>1. pass' = pass /\ candidates' = FindCandidates /\ functions' = functions
    BY <1>6 DEF Stay, StartRound
  <2>2. CandidatesOK'
    BY <1>1, <1>2, <2>1, FoundCandidates DEF CandidatesOK, Running
  <2>3. UboOK'
    BY <1>4, <2>1 DEF PassInv, UboOK, MakesVersions
  <2>4. Rewritten(functions, functions')
    BY <1>1, <2>1, SameIsRewritten
  <2> QED
    BY <1>2, <1>4, <1>5, <2>1, <2>2, <2>3, <2>4, LateStep
<1>7. CASE (\E f \in DOMAIN candidates : RemoveUnusedParameters(f)) /\ Stay
  <2>1. PICK f \in DOMAIN candidates : RemoveUnusedParameters(f)
    BY <1>7
  <2>2. f \in HelpersOf(functions) /\ KeepsUsed(functions[f], candidates[f])
    BY DEF PassInv, CandidatesOK
  <2>3. pass' = pass /\ candidates' = [g \in DOMAIN candidates \ {f} |-> candidates[g]]
    BY <1>7, <2>1 DEF Stay, RemoveUnusedParameters
  <2>4. /\ IsModule(functions')
        /\ DOMAIN functions' = DOMAIN functions
        /\ \A h \in DOMAIN functions :
             /\ functions'[h].kernel = functions[h].kernel
             /\ CalledBy(functions'[h]) = CalledBy(functions[h])
             /\ UsedIn(functions'[h]) \subseteq UsedIn(functions[h])
             /\ functions'[h].ubo \subseteq functions[h].ubo
             /\ Range(functions'[h].params) \subseteq Range(functions[h].params)
             /\ h # f => functions'[h].params = functions[h].params
        /\ CalledIn(functions') = CalledIn(functions)
        /\ \A what : NoneIsCalled(functions, what) => NoneIsCalled(functions', what)
        /\ PrivateCallsAreLegal(functions) => PrivateCallsAreLegal(functions')
    BY <1>1, <2>1, <2>2, RemovedOK
  <2>5. Rewritten(functions, functions')
    BY <2>4 DEF Rewritten
  <2>6. HelpersOf(functions') = HelpersOf(functions)
    BY <2>4 DEF HelpersOf
  <2>7. CandidatesOK'
    <3>1. Running("RemoveUnusedArguments")'
      BY <1>2, <2>3 DEF Running
    <3>2. ASSUME NEW g \in DOMAIN candidates' PROVE g \in HelpersOf(functions') /\ KeepsUsed(functions'[g], candidates'[g])
      <4>1. g \in DOMAIN candidates /\ g # f /\ candidates'[g] = candidates[g]
        BY <2>3
      <4>2. g \in HelpersOf(functions) /\ KeepsUsed(functions[g], candidates[g])
        BY <4>1 DEF PassInv, CandidatesOK
      <4>3. g \in DOMAIN functions
        BY <4>2 DEF HelpersOf
      <4>4. functions'[g].params = functions[g].params /\ UsedIn(functions'[g]) \subseteq UsedIn(functions[g])
        BY <2>4, <4>1, <4>3
      <4> QED
        BY <2>6, <4>1, <4>2, <4>4 DEF KeepsUsed
    <3> QED
      BY <3>1, <3>2 DEF CandidatesOK
  <2>8. UboOK'
    <3> SUFFICES ASSUME MakesVersions, "MultiVersionUBO" \notin Range(pass), NEW h \in HelpersOf(functions)
                 PROVE  UboIsUnused(functions'[h])
      BY <1>4, <2>3, <2>6 DEF UboOK, MakesVersions
    <3>1. UboIsUnused(functions[h]) /\ h \in DOMAIN functions
      BY DEF PassInv, UboOK, HelpersOf
    <3> QED
      BY <2>4, <3>1 DEF UboIsUnused
  <2> QED
    BY <1>2, <1>4, <1>5, <2>3, <2>5, <2>7, <2>8, LateStep
<1>8. CASE RemoveDone /\ UNCHANGED <<functions, candidates>> /\ Begin(Tail(pass))
  <2>1. /\ pass' = Tail(pass) /\ functions' = functions /\ DOMAIN candidates = {} /\ DOMAIN FindCandidates = {}
        /\ pass' # <<>> /\ Head(pass') \in {"OrderForDRA", "OrderForUBO"} => Order!StartOrder(KernelsInOrder)
    BY <1>8 DEF Begin, RemoveDone
  <2>2. /\ Range(pass) = {pass[1]} \cup Range(pass')
        /\ pass' # <<>> => MayFollow(pass[1], pass'[1]) /\ Head(pass') = pass'[1]
    BY <1>2, <1>4, <2>1, TailOK DEF PassInv
  <2>3. ~Running("DirectResourceAccess")' /\ ~Running("MultiVersionUBO")'
    BY <1>2, <2>2 DEF Running, MayFollow
  <2>4. OrderOK'
    <3> SUFFICES ASSUME Ordering' PROVE OrderInv'
      BY <2>3 DEF OrderOK
    <3>1. pass' # <<>> /\ Head(pass') \in {"OrderForDRA", "OrderForUBO"}
      BY DEF Ordering, Running
    <3>2. pass'[1] \in {"OrderForDRA", "OrderForUBO"}
      BY <2>2, <3>1
    <3>3. pass'[1] \in Range(pass)
      <4>1. IsChain(pass')
        BY <1>2, <1>4, <2>1, TailOK DEF PassInv, PassOK
      <4>2. pass'[1] \in Range(pass')
        BY <3>1, <4>1, TailFacts DEF IsChain, Range
      <4> QED
        BY <2>2, <4>2
    <3>4. DOMAIN functions \subseteq 1..MaxFunctions
      BY <3>2, <3>3 DEF PassInv, InBounds
    <3> QED
      BY <1>1, <2>1, <3>1, <3>4, OrderStarts
  <2>5. \A f \in HelpersOf(functions) : Range(functions[f].params) \subseteq UsedIn(functions[f])
    BY <1>1, <2>1, FoundCandidates
  <2> QED
    BY <1>2, <1>3, <1>4, <1>8, <2>1, <2>3, <2>4, <2>5, LateEnd
<1> QED
  BY <1>6, <1>7, <1>8 DEF RemoveArguments, RemoveStep

------------------------------------------------------------------------------
(* One call of a function gets its version, or is inlined. *)
VersionMade(fs, after, f, u) ==
  /\ IsModule(after) /\ DOMAIN fs \subseteq DOMAIN after
  /\ \A h \in DOMAIN fs : after[h].kernel = fs[h].kernel /\ after[h].params = fs[h].params
  /\ \A what : NoneIsCalled(fs, what) => NoneIsCalled(after, what)
  /\ PrivateCallsAreLegal(fs) => PrivateCallsAreLegal(after)
  /\ CalledBy(after[f]) = CalledBy(fs[f])
  /\ \A g \in CalledBy(fs[f]) : \E h \in DOMAIN after \ {f} : g \in CalledBy(after[h])
  /\ CalledIn(fs) \ {f} \subseteq CalledIn(after)
  /\ \A h \in DOMAIN after \ DOMAIN fs : h \in CalledIn(after) /\ UboIsUnused(after[h])
  /\ \A h \in DOMAIN fs : UboIsUnused(fs[h]) => UboIsUnused(after[h])
  /\ UsersIn(after, f) = UsersIn(fs, f) \ {u}

LEMMA NotInItself ==
  ASSUME IsModule(functions), NEW f, NEW u \in Users(f)
  PROVE  u.in # f /\ u.in \in DOMAIN functions /\ f \in DOMAIN functions
<1>1. u.in \in DOMAIN functions /\ f \in DOMAIN functions /\ f \in CalledBy(functions[u.in])
  BY UserFacts DEF CalledBy
<1> QED
  BY <1>1, NotItself

LEMMA SpecializedMade ==
  ASSUME IsModule(functions), NEW f \in HelpersOf(functions), NEW u \in Users(f), AreNamed(f), CanSpecialize(u)
  PROVE  VersionMade(functions, SpecializeCall(u), f, u)
<1> DEFINE after == SpecializeCall(u)
<1>1. \A q \in Range(functions[f].params) : IsNamed(q)
  BY DEF AreNamed
<1>2. u.in # f /\ u.in \in DOMAIN functions /\ f \in DOMAIN functions
  BY NotInItself
<1>3. IsModule(after)
  BY <1>1, SpecializedModule
<1>4. \A what : NoneIsCalled(functions, what) => NoneIsCalled(after, what)
  BY <1>1, SpecializedForbidden
<1>5. PrivateCallsAreLegal(functions) => PrivateCallsAreLegal(after)
  BY <1>1, SpecializedPrivate
<1>6. Clone \notin DOMAIN functions /\ DOMAIN after = DOMAIN functions \cup {Clone}
  BY SpecializedIs
<1>7. \A h \in DOMAIN functions : SameSignature(functions[h], after[h])
  BY SpecializedSignatures
<1>8. /\ \A h \in DOMAIN functions \ {u.in} : CalledBy(after[h]) = CalledBy(functions[h])
      /\ CalledBy(after[Clone]) = CalledBy(functions[f])
  BY SpecializedCalls
<1>9. (CalledIn(functions) \ {f}) \cup {Clone} \subseteq CalledIn(after)
  BY SpecializedCalledIn
<1>10. /\ UboIsUnused(after[Clone])
       /\ \A h \in DOMAIN functions : UsedIn(after[h]) \subseteq UsedIn(functions[h])
  BY <1>1, SpecializedUses
<1>11. UsersIn(after, f) = UsersIn(functions, f) \ {u}
  BY SpecializedUsers
<1> HIDE DEF after
<1>12. \A h \in DOMAIN functions : /\ after[h].kernel = functions[h].kernel /\ after[h].params = functions[h].params
                                   /\ after[h].ubo = functions[h].ubo
  BY <1>7 DEF SameSignature
<1>13. \A h \in DOMAIN functions : UboIsUnused(functions[h]) => UboIsUnused(after[h])
  BY <1>10, <1>12 DEF UboIsUnused
<1>14. \A g \in CalledBy(functions[f]) : \E h \in DOMAIN after \ {f} : g \in CalledBy(after[h])
  BY <1>2, <1>6, <1>8
<1>15. \A h \in DOMAIN after \ DOMAIN functions : h \in CalledIn(after) /\ UboIsUnused(after[h])
  BY <1>6, <1>9, <1>10
<1>16. CalledBy(after[f]) = CalledBy(functions[f]) /\ CalledIn(functions) \ {f} \subseteq CalledIn(after)
  BY <1>2, <1>8, <1>9
<1>17. VersionMade(functions, after, f, u)
  BY <1>3, <1>4, <1>5, <1>6, <1>11, <1>12, <1>13, <1>14, <1>15, <1>16 DEF VersionMade
<1> QED
  BY <1>17 DEF after

LEMMA InlinedMade ==
  ASSUME IsModule(functions), NEW f \in HelpersOf(functions), NEW u \in Users(f)
  PROVE  VersionMade(functions, Inlined(u), f, u)
<1> DEFINE after == Inlined(u)
<1>1. u.in # f /\ u.in \in DOMAIN functions /\ f \in DOMAIN functions
  BY NotInItself
<1>2. /\ DOMAIN after = DOMAIN functions
      /\ \A h \in DOMAIN functions \ {u.in} : after[h] = functions[h]
      /\ SameSignature(functions[u.in], after[u.in])
  BY InlinedIs
<1>3. /\ IsModule(after)
      /\ \A what : NoneIsCalled(functions, what) => NoneIsCalled(after, what)
      /\ PrivateCallsAreLegal(functions) => PrivateCallsAreLegal(after)
  BY InlinedRefined DEF Refined
<1>4. CalledBy(functions[f]) \subseteq CalledBy(after[u.in]) /\ UsedIn(after[u.in]) \subseteq UsedIn(functions[u.in])
  BY InlinedCalls
<1>5. UsersIn(after, f) = UsersIn(functions, f) \ {u} /\ CalledIn(functions) \ {f} \subseteq CalledIn(after)
  BY InlinedUsers
<1> HIDE DEF after
<1>6. \A h \in DOMAIN functions : /\ after[h].kernel = functions[h].kernel /\ after[h].params = functions[h].params
                                  /\ after[h].ubo = functions[h].ubo
  BY <1>2 DEF SameSignature
<1>7. \A h \in DOMAIN functions : UboIsUnused(functions[h]) => UboIsUnused(after[h])
  BY <1>2, <1>4, <1>6 DEF UboIsUnused
<1>8. \A g \in CalledBy(functions[f]) : \E h \in DOMAIN after \ {f} : g \in CalledBy(after[h])
  BY <1>1, <1>2, <1>4
<1>9. CalledBy(after[f]) = CalledBy(functions[f])
  BY <1>1, <1>2
<1>10. VersionMade(functions, after, f, u)
  BY <1>2, <1>3, <1>5, <1>6, <1>7, <1>8, <1>9 DEF VersionMade
<1> QED
  BY <1>10 DEF after

(* A step within the pass. *)
LEMMA VersionFacts ==
  ASSUME PassInv, Running("MultiVersionUBO")
  PROVE  /\ pass # <<>> /\ pass[1] = "MultiVersionUBO" /\ pass[1] \in LatePasses /\ IsModule(functions)
         /\ MakingVersions /\ toInline = {} /\ DOMAIN candidates = {} /\ localChanged \in BOOLEAN
         /\ Range(pass) \subseteq {"MultiVersionUBO", "RemoveUnusedArguments"} /\ "MultiVersionUBO" \in Range(pass)
<1>1. IsChain(pass) /\ IsModule(functions) /\ localChanged \in BOOLEAN
  BY DEF PassInv, PassOK
<1>2. pass # <<>> /\ pass[1] = "MultiVersionUBO" /\ pass[1] \in LatePasses
  BY <1>1, RunningIs DEF LatePasses
<1>3. toInline = {} /\ DOMAIN candidates = {}
  BY <1>2, LateFacts
<1>4. Len(pass) \in Nat /\ DOMAIN pass = 1 .. Len(pass) /\ 1 \in DOMAIN pass
  BY <1>1, <1>2, TailFacts DEF IsChain
<1>5. Len(pass) = 2 /\ pass[Len(pass)] = "RemoveUnusedArguments"
  BY <1>2, <1>4 DEF PassInv, PassOK
<1>6. \A i \in DOMAIN pass : i = 1 \/ i = 2
  BY <1>4, <1>5
<1>7. Range(pass) \subseteq {"MultiVersionUBO", "RemoveUnusedArguments"} /\ "MultiVersionUBO" \in Range(pass)
  BY <1>2, <1>4, <1>5, <1>6 DEF Range
<1> QED
  BY <1>1, <1>2, <1>3, <1>7 DEF PassInv, VersionsOK

LEMMA VersionStep ==
  ASSUME PassInv, Running("MultiVersionUBO"), UNCHANGED <<pass, options, toInline, candidates>>,
         IsModule(functions'), localChanged' \in BOOLEAN,
         \A what : NoneIsCalled(functions, what) => NoneIsCalled(functions', what),
         PrivateCallsAreLegal(functions) => PrivateCallsAreLegal(functions'),
         CalledOK', MakingVersions'
  PROVE  PassInv'
<1>1. /\ pass # <<>> /\ pass[1] = "MultiVersionUBO" /\ pass[1] \in LatePasses /\ IsModule(functions)
      /\ MakingVersions /\ toInline = {} /\ DOMAIN candidates = {}
      /\ Range(pass) \subseteq {"MultiVersionUBO", "RemoveUnusedArguments"} /\ "MultiVersionUBO" \in Range(pass)
  BY VersionFacts
<1>2. Running("MultiVersionUBO")' /\ ~Ordering' /\ ~Running("DirectResourceAccess")'
  BY DEF Running, Ordering
<1>3. PassOK' /\ options' \in PassOptions
  BY DEF PassInv, PassOK, MakesVersions
<1>4. InBounds' /\ LegalOK' /\ UboOK' /\ UsedOK'
  BY <1>1 DEF PassInv, InBounds, LegalOK, UboOK, UsedOK
<1>5. ToInlineOK' /\ CandidatesOK' /\ OrderOK' /\ VersionsOK'
  BY <1>1, <1>2 DEF ToInlineOK, CandidatesOK, OrderOK, VersionsOK
<1> QED
  BY <1>3, <1>4, <1>5 DEF PassInv

(* MultiVersionUBOFunctionsPass comes to a function: if it has no such pointers, it
   is done with it; if it has, there are calls. *)
LEMMA StartFunctionInv ==
  ASSUME PassInv, Running("MultiVersionUBO"),
         usersLeft = {}, localChanged = FALSE, turn < Len(result), StartFunction(result[turn + 1]),
         turn' = IF usersLeft' = {} THEN turn + 1 ELSE turn,
         UNCHANGED <<functions, pass, orderVars, options, toInline, candidates>>
  PROVE  PassInv'
<1> DEFINE f == result[turn + 1]
<1>1. /\ pass # <<>> /\ pass[1] = "MultiVersionUBO" /\ pass[1] \in LatePasses /\ IsModule(functions) /\ MakingVersions
  BY VersionFacts
<1>2. /\ result' = result /\ functions' = functions /\ localChanged' = FALSE
      /\ usersLeft' = IF functions[f].kernel \/ functions[f].ubo = {} THEN {} ELSE UsersIn(functions, f)
  BY UsersAre DEF StartFunction, orderVars
<1>3. /\ result \in Seq(Nat) /\ NoneTwice(result) /\ turn \in Nat /\ Len(result) \in Nat
      /\ turn + 1 \in turn + 1 .. Len(result)
  BY <1>1 DEF MakingVersions
<1>4. f \in DOMAIN functions
  BY <1>1, <1>3 DEF MakingVersions
<1>5. \A h \in HelpersOf(functions) : h \in CalledIn(functions)
  BY <1>1 DEF PassInv, CalledOK, Late
<1>6. usersLeft' = {} => functions[f].kernel \/ functions[f].ubo = {}
  <2> SUFFICES ASSUME ~functions[f].kernel PROVE UsersIn(functions, f) # {}
    BY <1>2
  <2>1. f \in CalledIn(functions)
    BY <1>4, <1>5 DEF HelpersOf
  <2> QED
    BY <2>1, CalledInIs
<1> HIDE DEF f
<1>7. /\ turn' \in 0 .. Len(result) /\ turn' \in Nat
      /\ \A i \in turn' + 1 .. Len(result) : i \in turn + 1 .. Len(result)
  BY <1>3
<1>8. \A i \in turn' + 1 .. Len(result') : result'[i] \in DOMAIN functions' /\ AreNamed(result[i])'
  BY <1>1, <1>2, <1>7 DEF MakingVersions, AreNamed
<1>9. ASSUME NEW h \in HelpersOf(functions') PROVE IsLeft(h)' \/ UboIsUnused(functions'[h])
  <2>1. h \in HelpersOf(functions) /\ (IsLeft(h) \/ UboIsUnused(functions[h]))
    BY <1>1, <1>2 DEF MakingVersions
  <2>2. CASE UboIsUnused(functions[h])
    BY <1>2, <2>2
  <2>3. CASE IsLeft(h)
    <3>1. PICK i \in turn + 1 .. Len(result) : result[i] = h
      BY <2>3 DEF IsLeft
    <3>2. CASE i \in turn' + 1 .. Len(result)
      BY <1>2, <3>1, <3>2 DEF IsLeft
    <3>3. CASE i \notin turn' + 1 .. Len(result)
      <4>1. usersLeft' = {} /\ i = turn + 1
        BY <1>3, <3>1, <3>3
      <4>2. functions[h].ubo = {}
        BY <1>6, <2>1, <3>1, <4>1 DEF f, HelpersOf
      <4> QED
        BY <1>2, <4>2 DEF UboIsUnused
    <3> QED
      BY <3>2, <3>3
  <2> QED
    BY <2>1, <2>2, <2>3
<1>10. usersLeft' # {} \/ localChanged' =>
         turn' < Len(result') /\ Current' \in HelpersOf(functions') /\ usersLeft' = UsersIn(functions', Current')
  <2> SUFFICES ASSUME usersLeft' # {} PROVE turn < Len(result) /\ f \in HelpersOf(functions) /\ usersLeft' = UsersIn(functions, f)
    BY <1>2 DEF Current, f
  <2> QED
    BY <1>2, <1>4 DEF HelpersOf
<1>11. MakingVersions'
  BY <1>2, <1>3, <1>7, <1>8, <1>9, <1>10 DEF MakingVersions
<1>12. CalledOK'
  BY <1>2, <1>5 DEF CalledOK
<1> QED
  BY <1>1, <1>2, <1>11, <1>12, VersionStep

(* It deals with one call. *)
LEMMA SpecializeOrInlineInv ==
  ASSUME PassInv, Running("MultiVersionUBO"), SpecializeOrInline, Stay, UNCHANGED <<options, toInline, candidates>>
  PROVE  PassInv'
<1> DEFINE f == result[turn + 1]
<1>1. /\ pass # <<>> /\ pass[1] = "MultiVersionUBO" /\ pass[1] \in LatePasses /\ IsModule(functions) /\ MakingVersions
  BY VersionFacts
<1>2. pass' = pass /\ result' = result /\ turn' = turn /\ localChanged' = TRUE
  BY DEF SpecializeOrInline, Stay, orderVars
<1>3. /\ turn < Len(result) /\ f \in HelpersOf(functions) /\ usersLeft = UsersIn(functions, f)
  BY <1>1 DEF MakingVersions, SpecializeOrInline, Current
<1>4. /\ result \in Seq(Nat) /\ NoneTwice(result) /\ turn \in 0 .. Len(result) /\ Len(result) \in Nat
      /\ turn + 1 \in turn + 1 .. Len(result)
  BY <1>1, <1>3 DEF MakingVersions
<1>5. PICK u \in usersLeft : /\ functions' = IF CanSpecialize(u) THEN SpecializeCall(u) ELSE Inlined(u)
                             /\ usersLeft' = usersLeft \ {u}
  BY DEF SpecializeOrInline
<1>6. u \in Users(f) /\ AreNamed(f)
  BY <1>1, <1>3, <1>4, UsersAre DEF MakingVersions
<1> HIDE DEF f
<1>7. VersionMade(functions, functions', f, u)
  BY <1>1, <1>3, <1>5, <1>6, SpecializedMade, InlinedMade
<1>8. /\ IsModule(functions') /\ DOMAIN functions \subseteq DOMAIN functions'
      /\ \A h \in DOMAIN functions : functions'[h].kernel = functions[h].kernel /\ functions'[h].params = functions[h].params
      /\ \A what : NoneIsCalled(functions, what) => NoneIsCalled(functions', what)
      /\ PrivateCallsAreLegal(functions) => PrivateCallsAreLegal(functions')
      /\ CalledBy(functions'[f]) = CalledBy(functions[f])
      /\ \A g \in CalledBy(functions[f]) : \E h \in DOMAIN functions' \ {f} : g \in CalledBy(functions'[h])
      /\ CalledIn(functions) \ {f} \subseteq CalledIn(functions')
      /\ \A h \in DOMAIN functions' \ DOMAIN functions : h \in CalledIn(functions') /\ UboIsUnused(functions'[h])
      /\ \A h \in DOMAIN functions : UboIsUnused(functions[h]) => UboIsUnused(functions'[h])
      /\ UsersIn(functions', f) = UsersIn(functions, f) \ {u}
  BY <1>7 DEF VersionMade
<1>9. ASSUME NEW h \in HelpersOf(functions'), h \in DOMAIN functions PROVE h \in HelpersOf(functions)
  BY <1>8, <1>9 DEF HelpersOf
<1>10. Current' = f /\ Current = f
  BY <1>2 DEF Current, f
<1>11. CalledOK'
  <2> SUFFICES ASSUME NEW h \in HelpersOf(functions') PROVE h \in CalledIn(functions') \/ h = f
    BY <1>2, <1>10 DEF CalledOK
  <2>1. CASE h \in DOMAIN functions
    <3>1. h \in CalledIn(functions) \/ h = f
      BY <1>1, <1>9, <1>10, <2>1 DEF PassInv, CalledOK, Late
    <3> QED
      BY <1>8, <3>1
  <2>2. CASE h \notin DOMAIN functions
    BY <1>8, <2>2 DEF HelpersOf
  <2> QED
    BY <2>1, <2>2
<1>12. \A i \in turn' + 1 .. Len(result') : result'[i] \in DOMAIN functions' /\ AreNamed(result[i])'
  <2>1. \A i \in turn + 1 .. Len(result) : result[i] \in DOMAIN functions /\ AreNamed(result[i])
    BY <1>1 DEF MakingVersions
  <2> QED
    BY <1>2, <1>8, <2>1 DEF AreNamed
<1>13. ASSUME NEW h \in HelpersOf(functions') PROVE IsLeft(h)' \/ UboIsUnused(functions'[h])
  <2>1. CASE h \in DOMAIN functions
    <3>1. IsLeft(h) \/ UboIsUnused(functions[h])
      BY <1>1, <1>9, <2>1 DEF MakingVersions
    <3>2. IsLeft(h) => IsLeft(h)'
      BY <1>2 DEF IsLeft
    <3> QED
      BY <1>8, <2>1, <3>1, <3>2
  <2>2. CASE h \notin DOMAIN functions
    BY <1>8, <2>2 DEF HelpersOf
  <2> QED
    BY <2>1, <2>2
<1>14. turn' < Len(result') /\ Current' \in HelpersOf(functions') /\ usersLeft' = UsersIn(functions', Current')
  <2>1. f \in HelpersOf(functions')
    BY <1>3, <1>8 DEF HelpersOf
  <2> QED
    BY <1>2, <1>3, <1>5, <1>8, <1>10, <2>1
<1>15. \A g \in CalledBy(functions'[Current']) :
         \E h \in DOMAIN functions' \ {Current'} : g \in CalledBy(functions'[h])
  BY <1>8, <1>10
<1>16. MakingVersions'
  BY <1>2, <1>4, <1>12, <1>13, <1>14, <1>15 DEF MakingVersions
<1> QED
  BY <1>2, <1>8, <1>11, <1>16, VersionStep

(* No call is left: the function goes, and nobody misses it. *)
LEMMA EraseOriginalInv ==
  ASSUME PassInv, Running("MultiVersionUBO"),
         usersLeft = {}, localChanged = TRUE, EraseOriginal(result[turn + 1]),
         turn' = turn + 1, localChanged' = FALSE,
         UNCHANGED <<usersLeft, pass, orderVars, options, toInline, candidates>>
  PROVE  PassInv'
<1> DEFINE f == result[turn + 1]
           L == DOMAIN functions \ {f}
<1>1. /\ pass # <<>> /\ pass[1] = "MultiVersionUBO" /\ pass[1] \in LatePasses /\ IsModule(functions) /\ MakingVersions
  BY VersionFacts
<1>2. /\ result' = result /\ usersLeft' = {}
      /\ functions' = [g \in L |-> functions[g]]
  BY DEF EraseOriginal, orderVars
<1>3. Current = f
  BY DEF Current
<1> HIDE DEF f, L
<1>4. /\ turn < Len(result) /\ f \in HelpersOf(functions) /\ UsersIn(functions, f) = {}
      /\ \A g \in CalledBy(functions[f]) : \E h \in L : g \in CalledBy(functions[h])
  BY <1>1, <1>3 DEF MakingVersions, L
<1>5. /\ result \in Seq(Nat) /\ NoneTwice(result) /\ turn \in Nat /\ Len(result) \in Nat /\ DOMAIN result = 1 .. Len(result)
      /\ \A i \in turn' + 1 .. Len(result) : i \in turn + 1 .. Len(result) /\ i \in DOMAIN result /\ i # turn + 1
      /\ turn + 1 \in DOMAIN result /\ turn' \in 0 .. Len(result)
  BY <1>1, <1>4 DEF MakingVersions
<1>6. f \notin CalledIn(functions)
  BY <1>4, CalledInIs
<1>7. CallsStayIn(functions, L)
  <2> SUFFICES ASSUME NEW h \in L, NEW c \in functions[h].calls PROVE c.callee \in L
    BY DEF CallsStayIn
  <2>1. c.callee \in CalledIn(functions)
    BY DEF CalledIn, CalledBy, L
  <2> QED
    BY <1>1, <1>6, <2>1, CalledAreFunctions DEF L
<1>8. L \in SUBSET DOMAIN functions
  BY DEF L
<1>9. /\ IsModule(functions')
      /\ \A what : NoneIsCalled(functions, what) => NoneIsCalled(functions', what)
      /\ PrivateCallsAreLegal(functions) => PrivateCallsAreLegal(functions')
  BY <1>1, <1>2, <1>7, <1>8, ErasedRefined DEF Refined
<1>10. DOMAIN functions' = L /\ \A h \in L : functions'[h] = functions[h]
  BY <1>2
<1>11. \A h \in HelpersOf(functions') : h \in HelpersOf(functions) /\ h # f /\ h \in L
  BY <1>10 DEF HelpersOf, L
<1>12. CalledOK'
  <2> SUFFICES ASSUME NEW h \in HelpersOf(functions') PROVE h \in CalledIn(functions')
    BY DEF CalledOK
  <2>1. h \in CalledIn(functions)
    BY <1>1, <1>3, <1>11 DEF PassInv, CalledOK, Late
  <2>2. PICK g \in DOMAIN functions : h \in CalledBy(functions[g])
    BY <2>1, CalledInIs
  <2>3. \E k \in L : h \in CalledBy(functions[k])
    BY <1>4, <2>2 DEF L
  <2>4. \E k \in DOMAIN functions' : h \in CalledBy(functions'[k])
    BY <1>10, <2>3
  <2> QED
    BY <2>4, CalledInIs
<1>13. \A i \in turn' + 1 .. Len(result') : result'[i] \in DOMAIN functions' /\ AreNamed(result[i])'
  <2> SUFFICES ASSUME NEW i \in turn' + 1 .. Len(result)
               PROVE  result[i] \in L /\ AreNamed(result[i])'
    BY <1>2, <1>10
  <2>1. result[i] \in DOMAIN functions /\ AreNamed(result[i])
    BY <1>1, <1>5 DEF MakingVersions
  <2>2. result[i] \in L
    BY <1>5, <2>1 DEF NoneTwice, L, f
  <2> QED
    BY <1>2, <1>10, <2>1, <2>2 DEF AreNamed
<1>14. ASSUME NEW h \in HelpersOf(functions') PROVE IsLeft(h)' \/ UboIsUnused(functions'[h])
  <2>1. IsLeft(h) \/ UboIsUnused(functions[h])
    BY <1>1, <1>11 DEF MakingVersions
  <2>2. IsLeft(h) => IsLeft(h)'
    <3> SUFFICES ASSUME NEW i \in turn + 1 .. Len(result), result[i] = h PROVE i \in turn' + 1 .. Len(result')
      BY <1>2 DEF IsLeft
    <3>1. i # turn + 1
      BY <1>11 DEF f
    <3> QED
      BY <1>2, <1>5, <3>1
  <2> QED
    BY <1>10, <1>11, <2>1, <2>2
<1>15. MakingVersions'
  BY <1>2, <1>5, <1>13, <1>14 DEF MakingVersions
<1> QED
  BY <1>9, <1>12, <1>15, VersionStep

LEMMA MultiVersionInv ==
  ASSUME PassInv, MultiVersion
  PROVE  PassInv'
<1>1. Running("MultiVersionUBO") /\ UNCHANGED <<options, toInline, candidates>>
  BY DEF MultiVersion
<1>2. /\ pass # <<>> /\ pass[1] = "MultiVersionUBO" /\ pass[1] \in LatePasses /\ IsModule(functions)
      /\ MakingVersions /\ DOMAIN candidates = {} /\ localChanged \in BOOLEAN
  BY <1>1, VersionFacts
<1>3. CASE /\ usersLeft = {} /\ ~localChanged /\ turn < Len(result)
           /\ StartFunction(result[turn + 1])
           /\ turn' = IF usersLeft' = {} THEN turn + 1 ELSE turn
           /\ UNCHANGED <<functions, pass, orderVars>>
  <2>1. localChanged = FALSE
    BY <1>2, <1>3
  <2> QED
    BY <1>1, <1>3, <2>1, StartFunctionInv
<1>4. CASE SpecializeOrInline /\ Stay
  BY <1>1, <1>4, SpecializeOrInlineInv
<1>5. CASE /\ usersLeft = {} /\ localChanged
           /\ EraseOriginal(result[turn + 1])
           /\ turn' = turn + 1
           /\ localChanged' = FALSE
           /\ UNCHANGED <<usersLeft, pass, orderVars>>
  <2>1. localChanged = TRUE
    BY <1>2, <1>5
  <2> QED
    BY <1>1, <1>5, <2>1, EraseOriginalInv
<1>6. CASE turn = Len(result) /\ usersLeft = {} /\ UNCHANGED <<functions, uboVars>> /\ Begin(Tail(pass))
  <2>1. localChanged = FALSE
    BY <1>2, <1>6 DEF MakingVersions
  <2>2. pass' = Tail(pass)
    BY <1>6 DEF Begin
  <2>3. pass' # <<>> => MayFollow(pass[1], pass'[1]) /\ Head(pass') = pass'[1]
    BY <1>1, <1>2, <2>2, TailOK DEF PassInv
  <2>4. ~Ordering' /\ ~Running("DirectResourceAccess")' /\ ~Running("MultiVersionUBO")'
    BY <1>2, <2>3 DEF Ordering, Running, MayFollow
  <2>5. OrderOK'
    BY <2>4 DEF OrderOK
  <2>6. \A f \in HelpersOf(functions) : UboIsUnused(functions[f])
    <3>1. (turn + 1) .. Len(result) = {}
      BY <1>2, <1>6 DEF MakingVersions
    <3> QED
      BY <1>2, <3>1 DEF MakingVersions, IsLeft
  <2> QED
    BY <1>1, <1>2, <1>6, <2>1, <2>2, <2>4, <2>5, <2>6, LateEnd
<1> QED
  BY <1>3, <1>4, <1>5, <1>6 DEF MultiVersion

------------------------------------------------------------------------------
LEMMA PassInvariant == PassSpec => []PassInv
<1>1. PassInv /\ [PassNext]_passVars => PassInv'
  <2> SUFFICES ASSUME PassInv, [PassNext]_passVars PROVE PassInv'
    OBVIOUS
  <2>1. CASE EntryPoints \/ ImageMetadataGetters \/ SingleCallSites \/ NonLiteralSamplers
    BY <2>1, InlineActionsInv
  <2>2. CASE PointersToFunctionArgs
    BY <2>2, PointersToFunctionArgsInv
  <2>3. CASE SweepUncalled
    BY <2>3, SweepUncalledInv
  <2>4. CASE Internalizer
    BY <2>4, InternalizerInv
  <2>5. CASE OrderFunctions
    BY <2>5, OrderFunctionsInv
  <2>6. CASE DirectAccesses
    BY <2>6, DirectAccessesInv
  <2>7. CASE RemoveArguments
    BY <2>7, RemoveArgumentsInv
  <2>8. CASE MultiVersion
    BY <2>8, MultiVersionInv
  <2>9. CASE UNCHANGED passVars
    <3> USE <2>9 DEF passVars
    <3>1. /\ functions' = functions /\ pass' = pass /\ options' = options /\ turn' = turn /\ toInline' = toInline
          /\ candidates' = candidates /\ usersLeft' = usersLeft /\ localChanged' = localChanged /\ UNCHANGED orderVars
          /\ result' = result
      BY DEF uboVars, orderVars
    <3>2. PassOK' /\ InBounds' /\ LegalOK'
      BY <3>1 DEF PassInv, PassOK, MakesVersions, InBounds, AreNamed, LegalOK
    <3>3. UboOK' /\ UsedOK' /\ CalledOK'
      BY <3>1 DEF PassInv, UboOK, MakesVersions, UsedOK, CalledOK, Late, Current
    <3>4. ToInlineOK' /\ CandidatesOK'
      BY <3>1 DEF PassInv, ToInlineOK, CandidatesOK, Running
    <3>5. OrderOK'
      <4>1. OrderInv => OrderInv'
        BY <3>1, OrderIsKept
      <4> QED
        BY <3>1, <4>1 DEF PassInv, OrderOK, Ordering, Running
    <3>6. VersionsOK'
      BY <3>1 DEF PassInv, VersionsOK, MakingVersions, Running, AreNamed, IsLeft, Current
    <3> QED
      BY <3>1, <3>2, <3>3, <3>4, <3>5, <3>6 DEF PassInv
  <2> QED
    BY <2>1, <2>2, <2>3, <2>4, <2>5, <2>6, <2>7, <2>8, <2>9 DEF PassNext, Compiled
<1> QED
  BY <1>1, InitPassInv, PTL DEF PassSpec

(* Whatever was inlined, erased and removed before, the passes that tell callees what
   their callers give them find callers before callees in the order. *)
THEOREM CallersComeFirst == PassSpec => []CallersFirst
<1>1. PassInv => CallersFirst
  BY DEF PassInv, OrderOK, OrderInv, OrderProofs!IInv, OrderProofs!CallersFirst, CallersFirst, Order!CallersFirst
<1> QED
  BY <1>1, PassInvariant, PTL

(* At the end of the pipeline nothing is ahead that could still make a function legal,
   and every function is called. *)
LEMMA FinalIsLegal ==
  ASSUME PassInv, pass = <<>>, NEW f \in HelpersOf(functions)
  PROVE  /\ options.uniform /\ ~options.inlineEntryPoints => functions[f].ubo = {}
         /\ \A u \in Users(f) : \A p \in functions[f].private : IsMemoryObject(Given(u)[p])
         /\ PrivateIsInPlace(functions[f])
         /\ ~Does(functions[f], "metadata") /\ ~Does(functions[f], "samplers")
<1>1. IsModule(functions) /\ f \in DOMAIN functions /\ IsFunction(functions, functions[f])
  BY DEF PassInv, HelpersOf, IsModule
<1>2. Range(pass) = {} /\ ~Running("MultiVersionUBO")
  BY DEF Range, Running
<1>3. f \in CalledIn(functions)
  BY <1>2 DEF PassInv, CalledOK, Late, VersionsOK
<1>4. PrivateCallsAreLegal(functions) /\ NoneIsCalled(functions, "metadata") /\ NoneIsCalled(functions, "samplers")
  BY <1>2 DEF PassInv, LegalOK
<1>5. ASSUME MakesVersions PROVE functions[f].ubo = {}
  <2>1. UboIsUnused(functions[f]) /\ Range(functions[f].params) \subseteq UsedIn(functions[f])
    BY <1>2, <1>5 DEF PassInv, UboOK, UsedOK
  <2>2. functions[f].ubo \subseteq Range(functions[f].params)
    BY <1>1 DEF IsFunction
  <2> QED
    BY <2>1, <2>2 DEF UboIsUnused
<1>6. ASSUME NEW u \in Users(f), NEW p \in functions[f].private PROVE IsMemoryObject(Given(u)[p])
  <2>1. /\ u.in \in DOMAIN functions /\ u.call \in functions[u.in].calls /\ u.call.callee = f
    BY <1>1, UserFacts
  <2>2. PassesMemory(functions[f], u.call)
    BY <1>4, <2>1 DEF PrivateCallsAreLegal
  <2>3. p \in Range(functions[f].params)
    BY <1>1 DEF IsFunction
  <2>4. PICK i \in DOMAIN u.call.args : functions[f].params[i] = p /\ Given(u)[p] = u.call.args[i]
    BY <1>1, <2>3, GivenPointers
  <2> QED
    BY <2>2, <2>4 DEF PassesMemory
<1>7. PrivateIsInPlace(functions[f])
  BY <1>3, <1>4 DEF PrivateCallsAreLegal
<1>8. ~Does(functions[f], "metadata") /\ ~Does(functions[f], "samplers")
  BY <1>3, <1>4 DEF NoneIsCalled
<1> QED
  BY <1>5, <1>6, <1>7, <1>8 DEF MakesVersions

(* The passes leave behind what SPIR-V allows functions to pass and to do: what
   InlineFuncWith... passes, MultiVersionUBOFunctionsPass and RemoveUnusedArguments
   each establish is undone by no later round and by no later pass. *)
THEOREM FunctionsBecomeLegal == PassSpec => []FunctionsAreLegal
<1>1. PassInv => FunctionsAreLegal
  <2> SUFFICES ASSUME PassInv, pass = <<>>, NEW f \in Helpers
               PROVE  /\ options.uniform /\ ~options.inlineEntryPoints => functions[f].ubo = {}
                      /\ \A p \in functions[f].private :
                           /\ \A u \in Users(f) : IsMemoryObject(Given(u)[p])
                           /\ \A v \in Passed(f) \cup Accessed(f) :
                                v.kind = "param" /\ v.id = p => \A k \in DOMAIN v.geps : v.geps[k][1] = Zero
                      /\ \A a \in functions[f].accesses :
                           /\ a.op = "kept" => UsesIn(a.operands[1]) \cap functions[f].private = {}
                           /\ a.op # "get_image_channel"
                           /\ a.op = "read_image3d" => a.operands[2].kind = "literal"
    BY DEF FunctionsAreLegal
  <2>1. f \in HelpersOf(functions) /\ IsModule(functions) /\ f \in DOMAIN functions /\ IsFunction(functions, functions[f])
    BY HelpersAre DEF PassInv, HelpersOf, IsModule
  <2>2. /\ options.uniform /\ ~options.inlineEntryPoints => functions[f].ubo = {}
        /\ \A u \in Users(f) : \A p \in functions[f].private : IsMemoryObject(Given(u)[p])
        /\ PrivateIsInPlace(functions[f])
        /\ ~Does(functions[f], "metadata") /\ ~Does(functions[f], "samplers")
    BY <2>1, FinalIsLegal
  <2>3. ASSUME NEW p \in functions[f].private, NEW v \in Passed(f) \cup Accessed(f), v.kind = "param", v.id = p
        PROVE  \A k \in DOMAIN v.geps : v.geps[k][1] = Zero
    <3>1. IsOf(v, p) /\ IsUsedInPlace(functions[f], p)
      BY <2>2, <2>3 DEF IsOf, PrivateIsInPlace
    <3>2. CASE v \in Passed(f)
      <4>1. PICK c \in functions[f].calls : v \in Range(c.args)
        BY <3>2 DEF Passed
      <4>2. v.geps = <<>>
        BY <3>1, <4>1 DEF IsUsedInPlace, CallInPlace, Range
      <4> QED
        BY <4>2
    <3>3. CASE v \in Accessed(f)
      <4>1. PICK a \in functions[f].accesses : v \in Range(a.operands)
        BY <3>3 DEF Accessed
      <4> QED
        BY <3>1, <4>1 DEF IsUsedInPlace, AccessInPlace, StartsAt, Range
    <3> QED
      BY <3>2, <3>3
  <2>4. ASSUME NEW a \in functions[f].accesses, a.op = "kept"
        PROVE  UsesIn(a.operands[1]) \cap functions[f].private = {}
    <3>1. IsPointerIn(functions[f], a.operands[1])
      BY <2>1 DEF IsFunction, IsAccessIn
    <3>2. IndexUses(a.operands[1]) \cap functions[f].private = {}
      BY <3>1, IsPointerInAre
    <3>3. ASSUME NEW p \in functions[f].private PROVE ~IsOf(a.operands[1], p)
      BY <2>2, <2>4 DEF PrivateIsInPlace, IsUsedInPlace, AccessInPlace
    <3>4. BaseUse(a.operands[1]) \cap functions[f].private = {}
      BY <3>3 DEF BaseUse, IsOf
    <3> QED
      BY <3>2, <3>4, UsesAre
  <2>5. \A a \in functions[f].accesses :
          a.op # "get_image_channel" /\ (a.op = "read_image3d" => a.operands[2].kind = "literal")
    BY <2>2 DEF Does, Forbidden, IsReadImage3DWithNonLiteralSampler
  <2> QED
    BY <2>2, <2>3, <2>4, <2>5
<1> QED
  BY <1>1, PassInvariant, PTL

------------------------------------------------------------------------------
(* The runs of functions: those with n + 1 calls come from those with n. *)
Extended(runs) == UNION {RunsOfCalls(run) : run \in runs}

LEMMA RunsByStep ==
  /\ RunsAfter[0] = RunsOfKernels
  /\ \A n \in Nat : RunsAfter[n + 1] = Extended(RunsAfter[n])
<1> DEFINE Solves(g, m) == g = [n \in 0..m |-> IF n = 0 THEN RunsOfKernels ELSE Extended(g[n - 1])]
           Bad == {m \in Nat : \A g : ~Solves(g, m)}
           first(m) == CHOOSE g : Solves(g, m)
           all == [n \in Nat |-> first(n)[n]]
<1>1. Bad = {}
  <2>1. SUFFICES ASSUME Bad # {} PROVE FALSE
    OBVIOUS
  <2>2. PICK m \in Bad : \A n \in Bad : m <= n
    <3>1. Bad \subseteq Nat
      OBVIOUS
    <3> HIDE DEF Bad
    <3> QED
      BY <2>1, <3>1, LeastNatural
  <2>3. CASE m = 0
    <3>1. Solves([n \in 0..0 |-> RunsOfKernels], 0)
      OBVIOUS
    <3> QED
      BY <2>2, <2>3, <3>1
  <2>4. CASE m # 0
    <3>1. m \in Nat /\ m - 1 \in Nat /\ ~(m <= m - 1)
      BY <2>4
    <3>2. PICK g : Solves(g, m - 1)
      <4>1. m - 1 \notin Bad
        <5> HIDE DEF Bad
        <5> QED
          BY <2>2, <3>1
      <4> QED
        BY <3>1, <4>1
    <3> DEFINE h == [n \in 0..m |-> IF n = m THEN Extended(g[m - 1]) ELSE g[n]]
    <3>3. ASSUME NEW n \in 0..m PROVE h[n] = IF n = 0 THEN RunsOfKernels ELSE Extended(h[n - 1])
      <4>1. CASE n = m
        <5>1. h[n] = Extended(g[m - 1]) /\ m - 1 \in 0..m /\ m - 1 # m
          BY <3>1, <4>1
        <5>2. h[m - 1] = g[m - 1]
          BY <5>1
        <5> HIDE DEF h
        <5> QED
          BY <2>4, <4>1, <5>1, <5>2
      <4>2. CASE n # m
        <5>1. n \in 0 .. m - 1 /\ h[n] = g[n]
          BY <3>1, <4>2
        <5>2. n # 0 => n - 1 \in 0..m /\ n - 1 # m
          BY <3>1, <5>1
        <5>3. n # 0 => h[n - 1] = g[n - 1]
          BY <5>2
        <5>4. g[n] = IF n = 0 THEN RunsOfKernels ELSE Extended(g[n - 1])
          BY <3>2, <5>1
        <5> HIDE DEF h
        <5> QED
          BY <5>1, <5>3, <5>4
      <4> QED
        BY <4>1, <4>2
    <3>4. h = [n \in 0..m |-> h[n]]
      OBVIOUS
    <3>5. Solves(h, m)
      <4> HIDE DEF h
      <4> QED
        BY <3>3, <3>4
    <3> QED
      BY <2>2, <3>5
  <2> QED
    BY <2>3, <2>4
<1>2. ASSUME NEW m \in Nat PROVE Solves(first(m), m)
  <2>1. \E g : Solves(g, m)
    BY <1>1
  <2> HIDE DEF Solves
  <2> QED
    BY <2>1
<1> HIDE DEF first
<1>3. ASSUME NEW m \in Nat, NEW n \in 0..m PROVE first(m)[n] = first(n)[n]
  <2> DEFINE Differ == {k \in 0..m : first(m)[k] # first(n)[k] /\ k <= n}
  <2>0. /\ \A k \in 0..m : first(m)[k] = IF k = 0 THEN RunsOfKernels ELSE Extended(first(m)[k - 1])
        /\ \A k \in 0..n : first(n)[k] = IF k = 0 THEN RunsOfKernels ELSE Extended(first(n)[k - 1])
    <3>1. Solves(first(m), m)
      BY <1>2
    <3>2. n \in Nat
      OBVIOUS
    <3>3. Solves(first(n), n)
      BY <1>2, <3>2
    <3> QED
      BY <3>1, <3>3
  <2>1. Differ = {}
    <3>1. SUFFICES ASSUME Differ # {} PROVE FALSE
      OBVIOUS
    <3>2. PICK k \in Differ : \A l \in Differ : k <= l
      <4>1. Differ \subseteq Nat
        OBVIOUS
      <4> HIDE DEF Differ
      <4> QED
        BY <3>1, <4>1, LeastNatural
    <3>3. k \in 0..m /\ k \in 0..n /\ first(m)[k] # first(n)[k]
      BY <3>2
    <3>4. k # 0
      BY <2>0, <3>3
    <3>5. k - 1 \in 0..m /\ k - 1 \in 0..n /\ ~(k <= k - 1)
      BY <3>3, <3>4
    <3>6. first(m)[k - 1] = first(n)[k - 1]
      <4>1. k - 1 \notin Differ
        <5> HIDE DEF Differ
        <5> QED
          BY <3>2, <3>5
      <4> QED
        BY <3>5, <4>1
    <3> QED
      BY <2>0, <3>3, <3>4, <3>6
  <2> QED
    BY <2>1
<1>4. ASSUME NEW n \in Nat PROVE all[n] = IF n = 0 THEN RunsOfKernels ELSE Extended(all[n - 1])
  <2>1. n \in 0..n /\ first(n) = [k \in 0..n |-> IF k = 0 THEN RunsOfKernels ELSE Extended(first(n)[k - 1])]
    BY <1>2
  <2>2. first(n)[n] = IF n = 0 THEN RunsOfKernels ELSE Extended(first(n)[n - 1])
    BY <2>1
  <2>3. n # 0 => n - 1 \in Nat /\ n - 1 \in 0..n
    OBVIOUS
  <2>4. n # 0 => first(n)[n - 1] = first(n - 1)[n - 1]
    BY <1>3, <2>3
  <2>5. all[n] = first(n)[n] /\ (n # 0 => all[n - 1] = first(n - 1)[n - 1])
    BY <2>3
  <2> HIDE DEF all
  <2> QED
    BY <2>2, <2>4, <2>5
<1>5. all = [n \in Nat |-> all[n]]
  OBVIOUS
<1> HIDE DEF all
<1>6. all = [n \in Nat |-> IF n = 0 THEN RunsOfKernels ELSE Extended(all[n - 1])]
  BY <1>4, <1>5
<1>7. RunsAfter = [n \in Nat |-> IF n = 0 THEN RunsOfKernels ELSE Extended(RunsAfter[n - 1])]
  <2>1. RunsAfter = CHOOSE g : g = [n \in Nat |-> IF n = 0 THEN RunsOfKernels ELSE Extended(g[n - 1])]
    BY DEF RunsAfter, Extended
  <2> QED
    BY <1>6, <2>1
<1>8. ASSUME NEW n \in Nat PROVE RunsAfter[n + 1] = Extended(RunsAfter[n])
  <2>1. n + 1 \in Nat /\ n + 1 # 0 /\ n + 1 - 1 = n
    OBVIOUS
  <2> QED
    BY <1>7, <2>1
<1>9. RunsAfter[0] = RunsOfKernels
  BY <1>7
<1> QED
  BY <1>8, <1>9

(* Every call of a function that has a run gives its callee one. *)
Ran(n) == {run.function : run \in RunsAfter[n]}

GivenIn(run) == ArgsByParam(run.function, run.args)

RunOfCall(run, c) ==
  [kernel |-> run.kernel, through |-> run.through \o c.site, function |-> c.callee,
   args |-> [i \in DOMAIN c.args |-> ReplaceIn(c.args[i], GivenIn(run))]]

LEMMA CallsRun ==
  ASSUME IsModule(functions), NEW n \in Nat, NEW run \in RunsAfter[n], run.function \in DOMAIN functions,
         NEW c \in functions[run.function].calls
  PROVE  RunOfCall(run, c) \in RunsAfter[n + 1]
<1> DEFINE g == run.function
           new == GivenIn(run)
           d == [c EXCEPT !.args = [i \in DOMAIN @ |-> ReplaceIn(@[i], new)]]
<1>1. IsFunction(functions, functions[g]) /\ IsCallIn(functions, functions[g], c)
  BY DEF IsModule, IsFunction
<1>2. d \in BodyOf(run).calls
  <2>1. DOMAIN functions[g] = {"kernel", "noinline", "params", "ubo", "private", "calls", "accesses"}
    BY <1>1 DEF IsFunction
  <2>2. BodyOf(run).calls = {[e EXCEPT !.args = [i \in DOMAIN @ |-> ReplaceIn(@[i], new)]] : e \in functions[g].calls}
    BY <2>1 DEF BodyOf, ReplaceAllUses, GivenIn
  <2> QED
    BY <2>2
<1>3. d.site = c.site /\ d.callee = c.callee /\ d.args = [i \in DOMAIN c.args |-> ReplaceIn(c.args[i], new)]
  BY <1>1 DEF IsCallIn
<1> HIDE DEF d
<1>4. RunOfCall(run, c) \in RunsOfCalls(run)
  BY <1>2, <1>3 DEF RunsOfCalls, RunOfCall
<1>5. RunsAfter[n + 1] = Extended(RunsAfter[n])
  BY RunsByStep
<1> QED
  BY <1>4, <1>5 DEF Extended

(* Where every helper is called by another function, kernels get to all of them, and
   to the last one with fewer calls than there are functions. *)
AreReached(T, n) == \A f \in T : \E m \in 0 .. n - 1 : f \in Ran(m)

LEMMA OneMoreIsReached ==
  ASSUME IsModule(functions), \A f \in HelpersOf(functions) : f \in CalledIn(functions),
         NEW n \in Nat, NEW T \in SUBSET DOMAIN functions, AreReached(T, n), T # DOMAIN functions
  PROVE  \E f \in DOMAIN functions \ T : AreReached(T \cup {f}, n + 1)
<1> DEFINE rest == DOMAIN functions \ T
<1>1. PICK f \in rest : \A g \in rest : \A c \in functions[g].calls : c.callee # f
  <2>1. rest \in (SUBSET DOMAIN functions) \ {{}}
    OBVIOUS
  <2> HIDE DEF rest
  <2> QED
    BY <2>1 DEF IsModule, IsNotRecursive
<1>2. \E m \in 0 .. n : f \in Ran(m)
  <2>1. CASE functions[f].kernel
    <3>1. [kernel |-> f, through |-> <<>>, function |-> f, args |-> <<>>] \in RunsAfter[0]
      BY <2>1, RunsByStep DEF RunsOfKernels, KernelFunctions
    <3>2. f \in Ran(0)
      BY <3>1 DEF Ran
    <3> QED
      BY <3>2
  <2>2. CASE ~functions[f].kernel
    <3>1. PICK g \in DOMAIN functions : f \in CalledBy(functions[g])
      BY <2>2, CalledInIs DEF HelpersOf
    <3>2. PICK c \in functions[g].calls : c.callee = f
      BY <3>1 DEF CalledBy
    <3>3. g \in T
      BY <1>1, <3>2
    <3>4. PICK m \in 0 .. n - 1 : g \in Ran(m)
      BY <3>3 DEF AreReached
    <3>5. PICK run \in RunsAfter[m] : run.function = g
      BY <3>4 DEF Ran
    <3>6. RunOfCall(run, c) \in RunsAfter[m + 1]
      BY <3>2, <3>5, CallsRun
    <3>7. f \in Ran(m + 1)
      BY <3>2, <3>6 DEF RunOfCall, Ran
    <3>8. m + 1 \in 0 .. n
      OBVIOUS
    <3> QED
      BY <3>7, <3>8
  <2> QED
    BY <2>1, <2>2
<1>3. AreReached(T \cup {f}, n + 1)
  <2>1. ASSUME NEW g \in T PROVE \E m \in 0 .. n : g \in Ran(m)
    <3>1. PICK m \in 0 .. n - 1 : g \in Ran(m)
      BY DEF AreReached
    <3>2. m \in 0 .. n
      OBVIOUS
    <3> QED
      BY <3>1, <3>2
  <2>2. n + 1 - 1 = n
    OBVIOUS
  <2> QED
    BY <1>2, <2>1, <2>2 DEF AreReached
<1> QED
  BY <1>3

LEMMA AllAreReached ==
  ASSUME IsModule(functions), \A f \in HelpersOf(functions) : f \in CalledIn(functions),
         NEW f \in DOMAIN functions
  PROVE  \E m \in 0 .. Cardinality(DOMAIN functions) - 1 : f \in Ran(m)
<1> DEFINE N == Cardinality(DOMAIN functions)
           IsReachedIn(T, n) == T \in SUBSET DOMAIN functions /\ Cardinality(T) = n /\ AreReached(T, n)
           Bad == {n \in 0..N : \A T : ~IsReachedIn(T, n)}
<1>1. IsFiniteSet(DOMAIN functions) /\ N \in Nat
  BY FS_CardinalityType DEF IsModule
<1>2. Bad = {}
  <2>1. SUFFICES ASSUME Bad # {} PROVE FALSE
    OBVIOUS
  <2>2. PICK n \in Bad : \A k \in Bad : n <= k
    <3>1. Bad \subseteq Nat
      BY <1>1
    <3> HIDE DEF Bad
    <3> QED
      BY <2>1, <3>1, LeastNatural
  <2>3. n \in Nat /\ n <= N
    BY <1>1, <2>2
  <2>4. CASE n = 0
    <3>1. IsReachedIn({}, 0)
      BY FS_EmptySet DEF AreReached
    <3> QED
      BY <2>2, <2>4, <3>1
  <2>5. CASE n # 0
    <3>1. n - 1 \in 0..N /\ ~(n <= n - 1) /\ n - 1 \in Nat
      BY <1>1, <2>3, <2>5
    <3>2. PICK T : IsReachedIn(T, n - 1)
      <4>1. n - 1 \notin Bad
        <5> HIDE DEF Bad
        <5> QED
          BY <2>2, <3>1
      <4> QED
        BY <3>1, <4>1
    <3>3. T # DOMAIN functions
      BY <1>1, <2>3, <3>2
    <3>4. PICK g \in DOMAIN functions \ T : AreReached(T \cup {g}, n - 1 + 1)
      BY <3>1, <3>2, <3>3, OneMoreIsReached
    <3>5. Cardinality(T \cup {g}) = n
      <4>1. IsFiniteSet(T)
        BY <1>1, <3>2, FS_Subset
      <4>2. Cardinality(T \cup {g}) = Cardinality(T) + 1
        BY <3>4, <4>1, FS_AddElement
      <4> QED
        BY <2>3, <3>2, <4>2
    <3>6. n - 1 + 1 = n
      BY <2>3
    <3>7. IsReachedIn(T \cup {g}, n)
      BY <3>2, <3>4, <3>5, <3>6
    <3> QED
      BY <2>2, <3>7
  <2> QED
    BY <2>4, <2>5
<1>3. PICK T : IsReachedIn(T, N)
  <2>1. N \in 0..N
    BY <1>1
  <2> QED
    BY <1>2, <2>1
<1>4. T = DOMAIN functions
  <2>1. T \in SUBSET DOMAIN functions /\ Cardinality(T) = Cardinality(DOMAIN functions)
    BY <1>3
  <2> QED
    BY <1>1, <2>1, FS_Subset
<1> QED
  BY <1>3, <1>4 DEF AreReached

(* So every call is made in a run, and gives the callee something other than a
   resource or a parameter if that is written there. *)
LEMMA CallGives ==
  ASSUME IsModule(functions), \A f \in HelpersOf(functions) : f \in CalledIn(functions),
         NEW f, NEW u \in Users(f), NEW p \in Range(functions[f].params), Given(u)[p].kind = "other"
  PROVE  \E place \in GivenByKernels(f, p) : place.base[1] = "other"
<1>1. /\ u.in \in DOMAIN functions /\ u.call \in functions[u.in].calls /\ u.call.callee = f
      /\ IsFunction(functions, functions[f]) /\ IsCallIn(functions, functions[u.in], u.call)
  BY UserFacts
<1>2. PICK m \in 0 .. Cardinality(DOMAIN functions) - 1 : u.in \in Ran(m)
  BY <1>1, AllAreReached
<1>3. PICK run \in RunsAfter[m] : run.function = u.in
  BY <1>2 DEF Ran
<1> DEFINE next == RunOfCall(run, u.call)
           arg(i) == ReplaceIn(u.call.args[i], GivenIn(run))
<1>4. Cardinality(DOMAIN functions) \in Nat
  BY FS_CardinalityType DEF IsModule
<1>5. m \in Nat /\ m + 1 \in 0 .. Cardinality(DOMAIN functions)
  BY <1>4
<1>6. next \in RunsAfter[m + 1]
  BY <1>1, <1>3, <1>5, CallsRun
<1>7. next.function = f /\ next.args = [i \in DOMAIN u.call.args |-> arg(i)]
  BY <1>1 DEF RunOfCall
<1>8. next \in Runs
  <2> HIDE DEF next
  <2> QED
    BY <1>5, <1>6 DEF Runs
<1>9. Place(ArgsByParam(f, next.args)[p]) \in GivenByKernels(f, p)
  <2> HIDE DEF next
  <2> QED
    BY <1>7, <1>8 DEF GivenByKernels
<1>10. Place(ArgsByParam(f, next.args)[p]).base[1] = "other"
  <2> DEFINE i == CHOOSE j \in DOMAIN u.call.args : functions[f].params[j] = p
  <2>1. /\ DOMAIN u.call.args = DOMAIN functions[f].params
        /\ \E j \in DOMAIN u.call.args : functions[f].params[j] = p
    BY <1>1, GivenFacts
  <2>2. i \in DOMAIN u.call.args
    BY <2>1
  <2>3. ArgsByParam(f, next.args)[p] = arg(i)
    <3>1. DOMAIN next.args = DOMAIN u.call.args
      BY <1>7
    <3>2. ArgsByParam(f, next.args)[p] = next.args[CHOOSE j \in DOMAIN next.args : functions[f].params[j] = p]
      BY DEF ArgsByParam
    <3>3. ArgsByParam(f, next.args)[p] = next.args[i]
      BY <3>1, <3>2
    <3> QED
      BY <1>7, <2>2, <3>3
  <2>4. Given(u)[p] = u.call.args[i]
    BY <1>1 DEF Given, ArgsByParam
  <2> HIDE DEF i, next
  <2>5. u.call.args[i].kind = "other" /\ IsPointer(u.call.args[i])
    BY <1>1, <2>2, <2>4 DEF IsCallIn, IsPointerIn
  <2>6. arg(i).kind = "other"
    BY <2>5 DEF ReplaceIn, IsPointer
  <2>7. Place(arg(i)).base = <<arg(i).kind, arg(i).id>>
    BY DEF Place
  <2> QED
    BY <2>3, <2>6, <2>7
<1> QED
  BY <1>9, <1>10

------------------------------------------------------------------------------
(* Pointers into uniform buffers: what replaces one is a resource, or is one where it
   goes to. *)
FitsUniform(body, new, target) ==
  /\ \A q \in body.ubo \cap DOMAIN new :
       /\ new[q].kind \in {"resource", "param", "other"}
       /\ new[q].kind = "param" => new[q].id \in target.ubo
  /\ \A q \in body.ubo \ DOMAIN new : q \in target.ubo

LEMMA UniformFits ==
  ASSUME NEW fs, NEW body, NEW c, IsCallIn(fs, body, c), UniformStays(fs, body, c),
         NEW target, NEW new, FitsUniform(body, new, target), \A q \in DOMAIN new : IsPointer(new[q]),
         NEW d, IsReplacedCall(d, c, new)
  PROVE  UniformStays(fs, target, d)
<1>1. d.callee = c.callee /\ DOMAIN d.args = DOMAIN c.args
      /\ \A i \in DOMAIN c.args : d.args[i] = ReplaceIn(c.args[i], new)
  BY DEF IsReplacedCall
<1>2. ASSUME NEW i \in DOMAIN c.args, fs[c.callee].params[i] \in fs[c.callee].ubo
      PROVE  /\ d.args[i].kind \in {"resource", "param", "other"}
             /\ d.args[i].kind = "param" => d.args[i].id \in target.ubo
  <2> DEFINE v == c.args[i]
  <2>1. IsPointer(v)
    BY DEF IsCallIn, IsPointerIn
  <2>2. v.kind \in {"resource", "param", "other"} /\ (v.kind = "param" => v.id \in body.ubo)
    BY <1>2 DEF UniformStays
  <2>3. d.args[i] = ReplaceIn(v, new)
    BY <1>1
  <2> HIDE DEF v
  <2>4. /\ IsReplaced(v, new) => ReplaceIn(v, new).kind = new[v.id].kind /\ ReplaceIn(v, new).id = new[v.id].id
        /\ ~IsReplaced(v, new) => ReplaceIn(v, new).kind = v.kind /\ ReplaceIn(v, new).id = v.id
    BY <2>1, ReplaceInFacts
  <2>5. CASE IsReplaced(v, new)
    <3>1. v.id \in body.ubo \cap DOMAIN new
      BY <2>2, <2>5 DEF IsReplaced
    <3> QED
      BY <2>3, <2>4, <2>5, <3>1 DEF FitsUniform
  <2>6. CASE ~IsReplaced(v, new)
    <3>1. v.kind = "param" => v.id \in body.ubo \ DOMAIN new
      BY <2>2, <2>6 DEF IsReplaced
    <3> QED
      BY <2>2, <2>3, <2>4, <2>6, <3>1 DEF FitsUniform
  <2> QED
    BY <2>5, <2>6
<1> QED
  BY <1>1, <1>2 DEF UniformStays

(* Callees with the same parameters ask for the same. *)
LEMMA SameUniform ==
  ASSUME NEW fs, NEW body, NEW c, UniformStays(fs, body, c),
         NEW other, other[c.callee].params = fs[c.callee].params, other[c.callee].ubo = fs[c.callee].ubo,
         NEW target, target.ubo = body.ubo
  PROVE  UniformStays(other, target, c)
  BY DEF UniformStays

LEMMA ErasedUniform ==
  ASSUME NEW fs, UniformCallsAreLegal(fs), NEW L \in SUBSET DOMAIN fs, CallsStayIn(fs, L),
         NEW after, after = [f \in L |-> fs[f]]
  PROVE  UniformCallsAreLegal(after)
<1> SUFFICES ASSUME NEW f \in L, NEW c \in after[f].calls PROVE UniformStays(after, after[f], c)
  BY DEF UniformCallsAreLegal
<1>1. after[f] = fs[f] /\ c.callee \in L /\ after[c.callee] = fs[c.callee]
  BY DEF CallsStayIn
<1>2. UniformStays(fs, fs[f], c)
  BY <1>1 DEF UniformCallsAreLegal
<1> QED
  BY <1>1, <1>2, SameUniform

LEMMA InlinedUniform ==
  ASSUME IsModule(functions), NEW f, NEW u \in Users(f), UniformCallsAreLegal(functions)
  PROVE  UniformCallsAreLegal(Inlined(u))
<1> DEFINE g == u.in
           new == ArgsByParam(f, u.call.args)
           after == Inlined(u)
<1>1. /\ g \in DOMAIN functions /\ u.call \in functions[g].calls /\ u.call.callee = f /\ f \in DOMAIN functions
      /\ IsFunction(functions, functions[f]) /\ IsCallIn(functions, functions[g], u.call)
  BY UserFacts
<1>2. /\ DOMAIN after = DOMAIN functions
      /\ \A h \in DOMAIN functions \ {g} : after[h] = functions[h]
      /\ SameSignature(functions[g], after[g])
      /\ \A d \in after[g].calls :
           d \in functions[g].calls \ {u.call} \/ \E c \in functions[f].calls : IsReplacedCall(d, c, new)
  BY InlinedIs
<1>3. /\ DOMAIN new = Range(functions[f].params)
      /\ \A q \in Range(functions[f].params) :
           \E i \in DOMAIN u.call.args : functions[f].params[i] = q /\ new[q] = u.call.args[i]
  BY <1>1, GivenFacts
<1>4. \A q \in DOMAIN new : IsPointer(new[q])
  BY <1>1, <1>3 DEF IsCallIn, IsPointerIn
<1>5. UniformStays(functions, functions[g], u.call)
  BY <1>1 DEF UniformCallsAreLegal
<1> HIDE DEF new, after
<1>6. FitsUniform(functions[f], new, after[g])
  <2>1. functions[f].ubo \subseteq DOMAIN new
    BY <1>1, <1>3 DEF IsFunction
  <2>2. after[g].ubo = functions[g].ubo
    BY <1>2 DEF SameSignature
  <2>3. ASSUME NEW q \in functions[f].ubo
        PROVE  /\ new[q].kind \in {"resource", "param", "other"}
               /\ new[q].kind = "param" => new[q].id \in functions[g].ubo
    <3>1. PICK i \in DOMAIN u.call.args : functions[f].params[i] = q /\ new[q] = u.call.args[i]
      BY <1>3, <2>1
    <3> QED
      BY <1>1, <1>5, <3>1 DEF UniformStays
  <2> QED
    BY <2>1, <2>2, <2>3 DEF FitsUniform
<1>7. \A h \in DOMAIN functions : after[h].params = functions[h].params /\ after[h].ubo = functions[h].ubo
  BY <1>2 DEF SameSignature
<1>8. ASSUME NEW h \in DOMAIN functions, NEW c \in functions[h].calls PROVE UniformStays(after, after[h], c)
  <2>1. UniformStays(functions, functions[h], c)
    BY DEF UniformCallsAreLegal
  <2>2. c.callee \in DOMAIN functions
    BY DEF IsModule, IsFunction, IsCallIn
  <2> QED
    BY <1>7, <2>1, <2>2, SameUniform
<1>9. ASSUME NEW d, NEW c \in functions[f].calls, IsReplacedCall(d, c, new) PROVE UniformStays(after, after[g], d)
  <2>1. IsCallIn(functions, functions[f], c) /\ c.callee \in DOMAIN functions
    BY <1>1 DEF IsFunction, IsCallIn
  <2>2. UniformStays(functions, functions[f], c)
    BY <1>1 DEF UniformCallsAreLegal
  <2>3. UniformStays(functions, after[g], d)
    BY <1>4, <1>6, <1>9, <2>1, <2>2, UniformFits
  <2>4. d.callee = c.callee
    BY <1>9 DEF IsReplacedCall
  <2> QED
    BY <1>7, <2>1, <2>3, <2>4, SameUniform
<1>10. ASSUME NEW h \in DOMAIN after, NEW d \in after[h].calls PROVE UniformStays(after, after[h], d)
  <2>1. CASE h # g
    BY <1>2, <1>8, <1>10, <2>1
  <2>2. CASE h = g
    BY <1>1, <1>2, <1>8, <1>9, <1>10, <2>2
  <2> QED
    BY <2>1, <2>2
<1>11. UniformCallsAreLegal(after)
  BY <1>10 DEF UniformCallsAreLegal
<1> QED
  BY <1>11 DEF after

LEMMA DirectUniform ==
  ASSUME IsModule(functions), NEW f \in DOMAIN functions, UniformCallsAreLegal(functions), RewriteResourceAccesses(f)
  PROVE  UniformCallsAreLegal(functions')
<1>1. PICK new :
        /\ DOMAIN new = DirectParams(f)
        /\ \A q \in DOMAIN new : IsPointer(new[q]) /\ new[q].kind = "resource"
        /\ functions' = [functions EXCEPT ![f] = ReplaceAllUses(@, new)]
  BY RewriteIs
<1>2. IsFunction(functions, functions[f])
  BY DEF IsModule
<1> DEFINE body == ReplaceAllUses(functions[f], new)
<1>3. /\ body.params = functions[f].params /\ body.ubo = functions[f].ubo
      /\ \A d \in body.calls : \E c \in functions[f].calls : IsReplacedCall(d, c, new)
  BY <1>2, ReplaceAllUsesIs
<1> HIDE DEF body
<1>4. functions'[f] = body /\ DOMAIN functions' = DOMAIN functions /\ \A h \in DOMAIN functions \ {f} : functions'[h] = functions[h]
  BY <1>1 DEF body
<1>5. \A h \in DOMAIN functions : functions'[h].params = functions[h].params /\ functions'[h].ubo = functions[h].ubo
  BY <1>3, <1>4
<1>6. FitsUniform(functions[f], new, body)
  BY <1>1, <1>3 DEF FitsUniform
<1>7. ASSUME NEW h \in DOMAIN functions, NEW c \in functions[h].calls
      PROVE  UniformStays(functions, functions[h], c) /\ c.callee \in DOMAIN functions /\ IsCallIn(functions, functions[h], c)
  BY DEF UniformCallsAreLegal, IsModule, IsFunction, IsCallIn
<1>8. ASSUME NEW h \in DOMAIN functions, NEW d \in functions'[h].calls PROVE UniformStays(functions', functions'[h], d)
  <2>1. CASE h # f
    <3>1. functions'[h] = functions[h]
      BY <1>4, <2>1
    <3>2. UniformStays(functions, functions[h], d) /\ d.callee \in DOMAIN functions
      BY <1>7, <1>8, <3>1
    <3> QED
      BY <1>5, <3>2, SameUniform
  <2>2. CASE h = f
    <3>1. PICK c \in functions[f].calls : IsReplacedCall(d, c, new)
      BY <1>3, <1>4, <1>8, <2>2
    <3>2. UniformStays(functions, body, d)
      BY <1>1, <1>6, <1>7, <3>1, UniformFits
    <3>3. d.callee \in DOMAIN functions
      BY <1>7, <3>1 DEF IsReplacedCall
    <3> QED
      BY <1>4, <1>5, <2>2, <3>2, <3>3, SameUniform
  <2> QED
    BY <2>1, <2>2
<1> QED
  BY <1>4, <1>8 DEF UniformCallsAreLegal

LEMMA RemovedUniform ==
  ASSUME IsModule(functions), NEW f, f \in HelpersOf(functions), KeepsUsed(functions[f], candidates[f]),
         RemoveUnusedParameters(f), UniformCallsAreLegal(functions)
  PROVE  UniformCallsAreLegal(functions')
<1> DEFINE keep == candidates[f]
           kept == Kept(functions[f].params, keep)
<1>1. f \in DOMAIN functions /\ IsFunction(functions, functions[f])
  BY DEF IsModule, HelpersOf
<1>2. /\ DOMAIN functions' = DOMAIN functions
      /\ \A h \in DOMAIN functions :
           /\ h # f => functions'[h].params = functions[h].params /\ functions'[h].ubo = functions[h].ubo
           /\ \A d \in functions'[h].calls : \E c \in functions[h].calls :
                d.callee = c.callee /\ d.args = IF c.callee = f THEN Kept(c.args, keep) ELSE c.args
      /\ functions'[f].params = kept /\ functions'[f].ubo = functions[f].ubo \cap Range(kept)
  BY RemovedIs
<1>3. UsedIn(functions[f]) \cap Range(functions[f].params) \subseteq Range(kept)
  BY <1>1, KeptParams
<1>4. \A h \in DOMAIN functions : functions'[h].ubo \subseteq functions[h].ubo
  BY <1>2
<1> HIDE DEF keep, kept
<1>5. ASSUME NEW h \in DOMAIN functions, NEW c \in functions[h].calls, NEW i \in DOMAIN c.args,
             functions[c.callee].params[i] \in functions[c.callee].ubo
      PROVE  /\ c.args[i].kind \in {"resource", "param", "other"}
             /\ c.args[i].kind = "param" => c.args[i].id \in functions'[h].ubo
  <2>1. UniformStays(functions, functions[h], c)
    BY DEF UniformCallsAreLegal
  <2>2. /\ c.args[i].kind \in {"resource", "param", "other"}
        /\ c.args[i].kind = "param" => c.args[i].id \in functions[h].ubo
    BY <1>5, <2>1 DEF UniformStays
  <2>3. ASSUME c.args[i].kind = "param", h = f PROVE c.args[i].id \in Range(kept)
    <3>1. c.args[i].id \in UsesIn(c.args[i])
      BY <2>3, UsesAre, BaseUseIs
    <3>2. c.args[i].id \in UsedIn(functions[h])
      BY <3>1, UsedInIs
    <3>3. c.args[i].id \in Range(functions[f].params)
      BY <1>1, <2>2, <2>3 DEF IsFunction
    <3> QED
      BY <1>3, <2>3, <3>2, <3>3
  <2> QED
    BY <1>2, <2>2, <2>3
<1>6. ASSUME NEW h \in DOMAIN functions, NEW d \in functions'[h].calls PROVE UniformStays(functions', functions'[h], d)
  <2>1. PICK c \in functions[h].calls : d.callee = c.callee /\ d.args = IF c.callee = f THEN Kept(c.args, keep) ELSE c.args
    BY <1>2
  <2>2. IsCallIn(functions, functions[h], c)
    BY DEF IsModule, IsFunction
  <2>3. c.callee \in DOMAIN functions
    BY <2>2 DEF IsCallIn
  <2>4. ASSUME NEW k \in DOMAIN d.args, functions'[d.callee].params[k] \in functions'[d.callee].ubo
        PROVE  \E i \in DOMAIN c.args : d.args[k] = c.args[i] /\ functions[c.callee].params[i] \in functions[c.callee].ubo
    <3>1. CASE c.callee # f
      BY <1>2, <2>1, <2>3, <2>4, <3>1
    <3>2. CASE c.callee = f
      <4>1. IsSeq(c.args) /\ Len(c.args) = Len(functions[f].params)
        BY <2>2, <3>2 DEF IsCallIn
      <4>2. PICK i \in DOMAIN c.args : Kept(c.args, keep)[k] = c.args[i] /\ kept[k] = functions[f].params[i]
        BY <1>1, <2>1, <3>2, <4>1, KeptArgs DEF keep, kept
      <4> QED
        BY <1>2, <2>1, <2>4, <3>2, <4>2
    <3> QED
      BY <3>1, <3>2
  <2> QED
    BY <1>5, <2>4 DEF UniformStays
<1> QED
  BY <1>2, <1>6 DEF UniformCallsAreLegal

LEMMA SpecializedUniform ==
  ASSUME IsModule(functions), NEW f, NEW u \in Users(f), CanSpecialize(u), AreNamed(f), UniformCallsAreLegal(functions)
  PROVE  UniformCallsAreLegal(SpecializeCall(u))
<1> DEFINE g == u.in
           after == SpecializeCall(u)
           new == OwnPointers(u)
           body == ReplaceAllUses(functions[f], new)
<1>1. /\ g \in DOMAIN functions /\ u.call \in functions[g].calls /\ u.call.callee = f /\ f \in DOMAIN functions
      /\ IsFunction(functions, functions[f])
  BY UserFacts
<1>2. \A q \in Range(functions[f].params) : IsNamed(q)
  BY DEF AreNamed
<1>3. /\ DOMAIN after = DOMAIN functions \cup {Clone} /\ Clone \notin DOMAIN functions
      /\ \A h \in DOMAIN functions \ {g} : after[h] = functions[h]
      /\ after[g].calls = (functions[g].calls \ {u.call}) \cup {NewCall(u)}
      /\ after[Clone].ubo = functions[f].ubo
      /\ after[Clone].calls = body.calls
  BY SpecializedIs
<1>4. /\ DOMAIN new = functions[f].ubo
      /\ \A q \in functions[f].ubo : IsPointer(new[q]) /\ new[q].kind = "resource"
  BY <1>2, VersionFits
<1>5. \A d \in body.calls : \E c \in functions[f].calls : IsReplacedCall(d, c, new)
  BY <1>1, ReplaceAllUsesIs
<1>6. \A h \in DOMAIN functions : after[h].params = functions[h].params /\ after[h].ubo = functions[h].ubo
  BY SpecializedSignatures DEF SameSignature
<1> HIDE DEF g, after, new, body
<1>7. ASSUME NEW h \in DOMAIN functions, NEW c \in functions[h].calls
      PROVE  UniformStays(functions, functions[h], c) /\ c.callee \in DOMAIN functions /\ IsCallIn(functions, functions[h], c)
  BY DEF UniformCallsAreLegal, IsModule, IsFunction, IsCallIn
<1>8. ASSUME NEW h \in DOMAIN functions, NEW c \in functions[h].calls PROVE UniformStays(after, after[h], c)
  BY <1>6, <1>7, SameUniform
<1>9. UniformStays(after, after[g], NewCall(u))
  <2>1. /\ NewCall(u).callee = Clone
        /\ \A i \in DOMAIN NewCall(u).args : IsOldArg(u, i) \/ IsNewArg(u, i)
    BY <1>2, NewCallIs
  <2>2. ASSUME NEW i \in DOMAIN NewCall(u).args, after[Clone].params[i] \in functions[f].ubo
        PROVE  /\ NewCall(u).args[i].kind \in {"resource", "param", "other"}
               /\ NewCall(u).args[i].kind = "param" => NewCall(u).args[i].id \in functions[g].ubo
    <3>1. after[Clone].params[i] \in Range(functions[f].params)
      BY <1>1, <2>2 DEF IsFunction
    <3>2. Range(NewParams(u)) \cap Range(functions[f].params) = {}
      BY <1>2, NewNamesAreNew
    <3>3. IsOldArg(u, i)
      BY <2>1, <3>1, <3>2 DEF IsNewArg, after
    <3>4. i \in DOMAIN u.call.args /\ NewCall(u).args[i] = u.call.args[i] /\ functions[f].params[i] \in functions[f].ubo
      BY <1>1, <2>2, <3>3 DEF IsOldArg, after
    <3>5. UniformStays(functions, functions[g], u.call)
      BY <1>1, <1>7
    <3> QED
      BY <1>1, <3>4, <3>5 DEF UniformStays
  <2> QED
    BY <1>1, <1>3, <1>6, <2>1, <2>2 DEF UniformStays
<1>10. ASSUME NEW d \in after[Clone].calls PROVE UniformStays(after, after[Clone], d)
  <2>1. PICK c \in functions[f].calls : IsReplacedCall(d, c, new)
    BY <1>3, <1>5
  <2>2. FitsUniform(functions[f], new, after[Clone])
    BY <1>3, <1>4 DEF FitsUniform
  <2>3. UniformStays(functions, after[Clone], d)
    BY <1>1, <1>4, <1>7, <2>1, <2>2, UniformFits
  <2>4. d.callee \in DOMAIN functions
    BY <1>1, <1>7, <2>1 DEF IsReplacedCall
  <2> QED
    BY <1>6, <2>3, <2>4, SameUniform
<1>11. ASSUME NEW h \in DOMAIN after, NEW d \in after[h].calls PROVE UniformStays(after, after[h], d)
  <2>1. CASE h = Clone
    BY <1>10, <1>11, <2>1
  <2>2. CASE h \in DOMAIN functions /\ h # g
    <3>1. d \in functions[h].calls
      BY <1>3, <1>11, <2>2
    <3> QED
      BY <1>8, <2>2, <3>1
  <2>3. CASE h = g
    <3>1. d \in functions[g].calls \/ d = NewCall(u)
      BY <1>3, <1>11, <2>3
    <3> QED
      BY <1>1, <1>8, <1>9, <2>3, <3>1
  <2> QED
    BY <1>3, <2>1, <2>2, <2>3
<1>12. UniformCallsAreLegal(after)
  BY <1>11 DEF UniformCallsAreLegal
<1> QED
  BY <1>12 DEF after

(* The call that MultiVersionUBOFunctionsPass deals with in a step. *)
LEMMA CallAtHand ==
  ASSUME PassInv, Running("MultiVersionUBO"), SpecializeOrInline
  PROVE  /\ turn < Len(result) /\ Current \in HelpersOf(functions) /\ AreNamed(Current)
         /\ usersLeft = Users(Current)
         /\ \E u \in usersLeft :
              functions' = (IF CanSpecialize(u) THEN SpecializeCall(u) ELSE Inlined(u)) /\ usersLeft' = usersLeft \ {u}
<1>1. MakingVersions
  BY VersionFacts
<1>2. turn < Len(result) /\ Current \in HelpersOf(functions) /\ usersLeft = UsersIn(functions, Current)
  BY <1>1 DEF MakingVersions, SpecializeOrInline
<1>3. turn \in Nat /\ Len(result) \in Nat /\ turn + 1 \in turn + 1 .. Len(result)
  BY <1>1, <1>2 DEF MakingVersions
<1>4. AreNamed(Current)
  BY <1>1, <1>3 DEF MakingVersions, Current
<1>5. usersLeft = Users(Current)
  BY <1>2, UsersAre
<1>6. \E u \in usersLeft :
        functions' = (IF CanSpecialize(u) THEN SpecializeCall(u) ELSE Inlined(u)) /\ usersLeft' = usersLeft \ {u}
  BY DEF SpecializeOrInline
<1> QED
  BY <1>2, <1>4, <1>5, <1>6

(* A function whose calls are gone is called by none of the others. *)
LEMMA UncalledIsErased ==
  ASSUME PassInv, Running("MultiVersionUBO"), usersLeft = {}, localChanged, EraseOriginal(result[turn + 1])
  PROVE  /\ functions' = [g \in DOMAIN functions \ {Current} |-> functions[g]]
         /\ CallsStayIn(functions, DOMAIN functions \ {Current})
<1>1. IsModule(functions) /\ MakingVersions
  BY VersionFacts
<1>2. UsersIn(functions, Current) = {}
  BY <1>1 DEF MakingVersions
<1>3. Current \notin CalledIn(functions)
  BY <1>2, CalledInIs
<1>4. ASSUME NEW h \in DOMAIN functions, NEW c \in functions[h].calls PROVE c.callee \in DOMAIN functions \ {Current}
  <2>1. c.callee \in CalledIn(functions)
    BY DEF CalledIn, CalledBy
  <2> QED
    BY <1>1, <1>3, <2>1, CalledAreFunctions
<1>5. CallsStayIn(functions, DOMAIN functions \ {Current})
  BY <1>4 DEF CallsStayIn
<1>6. functions' = [g \in DOMAIN functions \ {Current} |-> functions[g]]
  BY DEF EraseOriginal, Current
<1> QED
  BY <1>5, <1>6

(* Erasing, for the uniform buffers. *)
LEMMA DeadUniform ==
  ASSUME NEW fs, IsModule(fs), UniformCallsAreLegal(fs)
  PROVE  UniformCallsAreLegal(EraseDead(fs))
<1>1. PICK L \in SUBSET DOMAIN fs : CallsStayIn(fs, L) /\ EraseDead(fs) = [f \in L |-> fs[f]]
  BY DeadFacts
<1> QED
  BY <1>1, ErasedUniform

LEMMA UncalledUniform ==
  ASSUME IsModule(functions), UniformCallsAreLegal(functions), EraseUncalled
  PROVE  UniformCallsAreLegal(functions')
<1> DEFINE L == {g \in DOMAIN functions : functions[g].kernel \/ Users(g) # {}}
<1>1. CallsStayIn(functions, L)
  BY UncalledFacts
<1>2. functions' = [f \in L |-> functions[f]]
  BY DEF EraseUncalled
<1>3. L \in SUBSET DOMAIN functions
  OBVIOUS
<1> HIDE DEF L
<1> QED
  BY <1>1, <1>2, <1>3, ErasedUniform

LEMMA CollectedUniform ==
  ASSUME PassInv, UniformCallsAreLegal(functions), NEW u \in toInline
  PROVE  IsModule(Inlined(u)) /\ UniformCallsAreLegal(Inlined(u))
<1>1. IsModule(functions)
  BY DEF PassInv
<1>2. PICK f \in HelpersOf(functions) : u \in Users(f)
  BY UsersAre DEF PassInv, ToInlineOK
<1> QED
  BY <1>1, <1>2, InlinedModule, InlinedUniform

(* No pass makes one of a pointer of another kind. *)
LEMMA UniformCallsStayLegal ==
  ASSUME PassInv, UniformCallsAreLegal(functions), [PassNext]_passVars
  PROVE  UniformCallsAreLegal(functions')
<1>1. IsModule(functions) /\ IsChain(pass)
  BY DEF PassInv, PassOK
<1>2. CASE functions' = functions
  BY <1>2
<1>3. ASSUME NEW name, NEW selected, InlineRounds(name, selected) PROVE UniformCallsAreLegal(functions')
  <2>1. functions' = functions \/ \E u \in toInline : functions' = Inlined(u)
    BY <1>3 DEF InlineRounds, CollectCalls, InlineCall
  <2> QED
    BY <2>1, CollectedUniform
<1>4. CASE EntryPoints \/ ImageMetadataGetters \/ SingleCallSites \/ NonLiteralSamplers
  BY <1>3, <1>4 DEF EntryPoints, ImageMetadataGetters, SingleCallSites, NonLiteralSamplers
<1>5. CASE PointersToFunctionArgs
  <2>1. \/ functions' = functions
        \/ \E u \in toInline : functions' = Inlined(u) \/ functions' = EraseDead(Inlined(u))
        \/ functions' = EraseDead(functions)
    BY <1>5 DEF PointersToFunctionArgs, CollectCalls, InlineCallAndErase
  <2> QED
    BY <1>1, <2>1, CollectedUniform, DeadUniform
<1>6. CASE SweepUncalled
  BY <1>1, <1>6, UncalledUniform DEF SweepUncalled
<1>7. CASE Internalizer
  <2>1. functions' = functions \/ EraseUncalled
    BY <1>7 DEF Internalizer, InternalizeFunctions
  <2> QED
    BY <1>1, <2>1, UncalledUniform
<1>8. CASE OrderFunctions \/ Compiled
  BY <1>8 DEF OrderFunctions, Compiled, passVars
<1>9. CASE DirectAccesses
  <2>1. functions' = functions \/ (turn < Len(result) /\ RewriteResourceAccesses(result[turn + 1]))
    BY <1>9 DEF DirectAccesses
  <2>2. OrderInv /\ turn \in 0 .. Len(result)
    BY <1>1, <1>9 DEF PassInv, OrderOK, DirectAccesses
  <2>3. ASSUME turn < Len(result) PROVE result[turn + 1] \in DOMAIN functions
    <3>1. result \in Seq(Nat) /\ \A i \in DOMAIN result : result[i] \in DOMAIN functions
      BY <1>1, <2>2, OrderIsKnown
    <3>2. turn + 1 \in DOMAIN result
      BY <2>2, <2>3, <3>1
    <3> QED
      BY <3>1, <3>2
  <2> QED
    BY <1>1, <2>1, <2>3, DirectUniform
<1>10. CASE RemoveArguments
  <2>1. functions' = functions \/ \E f \in DOMAIN candidates : RemoveUnusedParameters(f)
    BY <1>10 DEF RemoveArguments, RemoveStep, StartRound
  <2>2. \A f \in DOMAIN candidates : f \in HelpersOf(functions) /\ KeepsUsed(functions[f], candidates[f])
    BY DEF PassInv, CandidatesOK
  <2> QED
    BY <1>1, <2>1, <2>2, RemovedUniform
<1>11. CASE MultiVersion
  <2>1. Running("MultiVersionUBO")
    BY <1>11 DEF MultiVersion
  <2>2. CASE SpecializeOrInline
    <3>1. AreNamed(Current) /\ usersLeft = Users(Current)
      BY <2>1, <2>2, CallAtHand
    <3>2. PICK u \in Users(Current) : functions' = IF CanSpecialize(u) THEN SpecializeCall(u) ELSE Inlined(u)
      BY <2>1, <2>2, CallAtHand
    <3> QED
      BY <1>1, <3>1, <3>2, SpecializedUniform, InlinedUniform
  <2>3. CASE usersLeft = {} /\ localChanged /\ EraseOriginal(result[turn + 1])
    <3> DEFINE L == DOMAIN functions \ {Current}
    <3>1. functions' = [g \in L |-> functions[g]] /\ CallsStayIn(functions, L) /\ L \in SUBSET DOMAIN functions
      BY <2>1, <2>3, UncalledIsErased
    <3> HIDE DEF L
    <3> QED
      BY <3>1, ErasedUniform
  <2>4. functions' = functions \/ SpecializeOrInline \/ (usersLeft = {} /\ localChanged /\ EraseOriginal(result[turn + 1]))
    BY <1>11 DEF MultiVersion
  <2> QED
    BY <2>2, <2>3, <2>4
<1>12. CASE UNCHANGED passVars
  BY <1>12 DEF passVars
<1> QED
  BY <1>4, <1>5, <1>6, <1>7, <1>8, <1>9, <1>10, <1>11, <1>12 DEF PassNext

(* The order callers first, for the functions that are left: while versions are made,
   none of them gets a new call. So of the functions that are left none calls the one
   at hand, but functions that were dealt with and kernels. *)
LeftInOrder ==
  \A i, j \in turn + 1 .. Len(result) :
    result[i] \in HelpersOf(functions) /\ result[i] \in CalledBy(functions[result[j]]) => j < i

OrderIsLeft == Running("MultiVersionUBO") => LeftInOrder

LEMMA LeftAfterOrder ==
  ASSUME PassInv, OrderFunctions, Order!OrderDone, turn' = 0, UNCHANGED orderVars
  PROVE  LeftInOrder'
<1>1. IsModule(functions) /\ IsChain(pass)
  BY DEF PassInv, PassOK
<1>2. pass # <<>> /\ pass[1] \in {"OrderForDRA", "OrderForUBO"} /\ Ordering
  BY <1>1, RunningIs DEF OrderFunctions
<1>3. DOMAIN functions \subseteq 1..MaxFunctions
  BY <1>2, LateFacts DEF LatePasses
<1>4. OrderInv
  BY <1>2 DEF PassInv, OrderOK
<1>5. \A i \in DOMAIN result : result[i] \notin KernelFunctions =>
        \A f \in 1..MaxFunctions : <<f, result[i]>> \in CallEdges => \E j \in DOMAIN result : j < i /\ result[j] = f
  BY <1>4 DEF OrderInv, OrderProofs!IInv, OrderProofs!CallersFirst
<1>6. /\ result \in Seq(Nat) /\ NoneTwice(result) /\ DOMAIN result = 1 .. Len(result)
      /\ \A i \in DOMAIN result : result[i] \in DOMAIN functions
  BY <1>1, <1>4, OrderIsKnown
<1>7. functions' = functions /\ result' = result
  BY DEF OrderFunctions, orderVars
<1>8. ASSUME NEW i \in 1 .. Len(result), NEW j \in 1 .. Len(result),
             result[i] \in HelpersOf(functions), result[i] \in CalledBy(functions[result[j]])
      PROVE  j < i
  <2>1. <<result[j], result[i]>> \in CallEdges /\ result[j] \in 1..MaxFunctions
    BY <1>3, <1>6, <1>8, CallEdgesAre
  <2>2. result[i] \notin KernelFunctions
    BY <1>8 DEF HelpersOf, KernelFunctions
  <2>3. PICK k \in DOMAIN result : k < i /\ result[k] = result[j]
    BY <1>5, <1>6, <2>1, <2>2
  <2> QED
    BY <1>6, <2>3 DEF NoneTwice
<1> QED
  BY <1>7, <1>8 DEF LeftInOrder

(* The functions that are left are what they were. *)
LEMMA StillLeftInOrder ==
  ASSUME LeftInOrder, result' = result,
         \A i \in turn' + 1 .. Len(result) : i \in turn + 1 .. Len(result),
         \A i \in turn' + 1 .. Len(result) : result[i] \in DOMAIN functions /\ functions'[result[i]] = functions[result[i]]
  PROVE  LeftInOrder'
<1> SUFFICES ASSUME NEW i \in turn' + 1 .. Len(result), NEW j \in turn' + 1 .. Len(result),
                    result[i] \in HelpersOf(functions'), result[i] \in CalledBy(functions'[result[j]])
             PROVE  j < i
  BY DEF LeftInOrder
<1>1. i \in turn + 1 .. Len(result) /\ j \in turn + 1 .. Len(result)
  OBVIOUS
<1>2. result[i] \in HelpersOf(functions) /\ result[i] \in CalledBy(functions[result[j]])
  BY DEF HelpersOf
<1> QED
  BY <1>1, <1>2 DEF LeftInOrder

LEMMA MultiVersionLeaves ==
  ASSUME PassInv, PassInv', MultiVersion, pass' = pass, LeftInOrder
  PROVE  LeftInOrder'
<1>1. Running("MultiVersionUBO") /\ pass # <<>>
  BY DEF MultiVersion, Running
<1>2. Running("MultiVersionUBO")'
  BY <1>1 DEF Running
<1>3. IsModule(functions) /\ MakingVersions /\ MakingVersions'
  BY <1>1, <1>2, VersionFacts DEF PassInv, VersionsOK
<1>4. Tail(pass) # pass
  <2>1. IsSeq(pass)
    BY DEF PassInv, PassOK, IsChain
  <2> QED
    BY <1>1, <2>1, TailFacts
<1>5. ~Begin(Tail(pass))
  BY <1>4 DEF Begin
<1>6. /\ result \in Seq(Nat) /\ result' = result /\ turn \in Nat /\ Len(result) \in Nat
      /\ turn' = turn \/ turn' = turn + 1
  BY <1>3, <1>5 DEF MakingVersions, MultiVersion, Stay, orderVars
<1>7. /\ \A i \in turn + 1 .. Len(result) : result[i] \in DOMAIN functions
      /\ \A i \in turn' + 1 .. Len(result) : result[i] \in DOMAIN functions'
  BY <1>3, <1>6 DEF MakingVersions
<1>8. \A i \in turn' + 1 .. Len(result) : i \in turn + 1 .. Len(result)
  BY <1>6
<1>9. CASE SpecializeOrInline
  <2>1. /\ turn < Len(result) /\ Current \in HelpersOf(functions) /\ usersLeft = Users(Current)
    BY <1>1, <1>9, CallAtHand
  <2>2. PICK u \in Users(Current) : functions' = IF CanSpecialize(u) THEN SpecializeCall(u) ELSE Inlined(u)
    BY <1>1, <1>9, CallAtHand
  <2>3. \A h \in DOMAIN functions \ {u.in} : functions'[h] = functions[h]
    BY <1>3, <2>2, SpecializedIs, InlinedIs
  <2>4. Current \in CalledBy(functions[u.in])
    BY <1>3, UserFacts DEF CalledBy
  <2>5. ASSUME NEW j \in turn + 1 .. Len(result) PROVE result[j] # u.in
    <3>1. turn + 1 \in turn + 1 .. Len(result) /\ ~(j < turn + 1)
      BY <1>6, <2>1
    <3> QED
      BY <2>1, <2>4, <3>1 DEF LeftInOrder, Current
  <2> QED
    BY <1>6, <1>7, <1>8, <2>3, <2>5, StillLeftInOrder
<1>10. CASE usersLeft = {} /\ localChanged /\ EraseOriginal(result[turn + 1])
  <2>1. functions' = [g \in DOMAIN functions \ {Current} |-> functions[g]]
    BY <1>1, <1>10, UncalledIsErased
  <2>2. \A h \in DOMAIN functions' : h \in DOMAIN functions /\ functions'[h] = functions[h]
    BY <2>1
  <2> QED
    BY <1>6, <1>7, <1>8, <2>2, StillLeftInOrder
<1>11. CASE functions' = functions
  BY <1>6, <1>7, <1>8, <1>11, StillLeftInOrder
<1> QED
  BY <1>5, <1>9, <1>10, <1>11 DEF MultiVersion

(* How the pass is reached and left. *)
LEMMA PassesInTurn ==
  ASSUME PassInv, [PassNext]_passVars, Running("MultiVersionUBO")'
  PROVE  \/ Running("MultiVersionUBO") /\ pass' = pass /\ (MultiVersion \/ UNCHANGED passVars)
         \/ OrderFunctions /\ Order!OrderDone /\ turn' = 0 /\ UNCHANGED orderVars
<1>1. IsChain(pass) /\ IsSeq(pass)
  BY DEF PassInv, PassOK, IsChain
<1>2. CASE UNCHANGED passVars
  BY <1>2 DEF passVars, Running
<1>3. CASE OrderFunctions
  <2>1. ~Running("MultiVersionUBO")
    BY <1>3 DEF OrderFunctions, Ordering, Running
  <2>2. pass' # pass
    BY <2>1 DEF Running
  <2> QED
    BY <1>3, <2>2 DEF OrderFunctions
<1>4. ASSUME NEW name \in InlinePasses \cup {"EraseUncalled", "FunctionInternalizer", "DirectResourceAccess",
                                            "RemoveUnusedArguments", "MultiVersionUBO"},
             Running(name), Stay \/ pass' = pass \/ Begin(Tail(pass))
      PROVE  name = "MultiVersionUBO" /\ pass' = pass
  <2>1. pass # <<>> /\ pass[1] = name
    BY <1>1, <1>4, RunningIs
  <2>2. CASE pass' = pass
    BY <1>4, <2>2 DEF Running
  <2>3. CASE Begin(Tail(pass))
    <3>1. pass' = Tail(pass) /\ pass' # <<>> /\ Head(pass') = "MultiVersionUBO"
      BY <2>3 DEF Begin, Running
    <3>2. Len(pass) \in Nat \ {0} /\ Len(Tail(pass)) = Len(pass) - 1 /\ Tail(pass) # <<>> /\ Len(pass) # 1
          /\ \A i \in 1 .. Len(pass) - 1 : Tail(pass)[i] = pass[i + 1]
      BY <1>1, <2>1, <3>1, TailFacts
    <3>3. IsSeq(pass') /\ Head(pass') = pass'[1]
      BY <1>1, <2>1, <3>1, TailFacts
    <3>4. pass[2] = "MultiVersionUBO"
      BY <3>1, <3>2, <3>3
    <3>5. MayFollow(pass[1], pass[2])
      BY <1>1, <3>2 DEF IsChain
    <3> QED
      BY <1>4, <2>1, <3>4, <3>5 DEF MayFollow, InlinePasses
  <2> QED
    BY <1>4, <2>2, <2>3 DEF Stay
<1>5. ASSUME NEW name \in InlinePasses, NEW selected, InlineRounds(name, selected) PROVE FALSE
  <2>1. Running(name) /\ (Stay \/ Begin(Tail(pass)))
    BY <1>5 DEF InlineRounds
  <2> QED
    BY <1>4, <2>1 DEF InlinePasses
<1>6. ~EntryPoints /\ ~ImageMetadataGetters /\ ~SingleCallSites /\ ~NonLiteralSamplers
  BY <1>5 DEF EntryPoints, ImageMetadataGetters, SingleCallSites, NonLiteralSamplers, InlinePasses
<1>7. ~PointersToFunctionArgs
  <2> SUFFICES ASSUME PointersToFunctionArgs PROVE Running("InlinePointerToFunctionArg") /\ (Stay \/ Begin(Tail(pass)))
    BY <1>4 DEF InlinePasses
  <2> QED
    BY DEF PointersToFunctionArgs
<1>8. ~SweepUncalled /\ ~Internalizer /\ ~RemoveArguments
  <2>1. ASSUME SweepUncalled PROVE Running("EraseUncalled") /\ Begin(Tail(pass))
    BY <2>1 DEF SweepUncalled
  <2>2. ASSUME Internalizer PROVE Running("FunctionInternalizer") /\ (Stay \/ Begin(Tail(pass)))
    BY <2>2 DEF Internalizer
  <2>3. ASSUME RemoveArguments PROVE Running("RemoveUnusedArguments") /\ (Stay \/ Begin(Tail(pass)))
    BY <2>3 DEF RemoveArguments
  <2> QED
    BY <1>4, <2>1, <2>2, <2>3
<1>9. ~DirectAccesses
  <2> SUFFICES ASSUME DirectAccesses PROVE Running("DirectResourceAccess") /\ (pass' = pass \/ Begin(Tail(pass)))
    BY <1>4
  <2> QED
    BY DEF DirectAccesses
<1>10. CASE MultiVersion
  <2>1. Running("MultiVersionUBO") /\ (Stay \/ pass' = pass \/ Begin(Tail(pass)))
    BY <1>10 DEF MultiVersion
  <2> QED
    BY <1>4, <1>10, <2>1
<1>11. CASE Compiled
  BY <1>11 DEF Compiled, passVars, Running
<1> QED
  BY <1>2, <1>3, <1>6, <1>7, <1>8, <1>9, <1>10, <1>11 DEF PassNext

LEMMA OrderStaysLeft ==
  ASSUME PassInv, PassInv', [PassNext]_passVars, OrderIsLeft
  PROVE  OrderIsLeft'
<1> SUFFICES ASSUME Running("MultiVersionUBO")' PROVE LeftInOrder'
  BY DEF OrderIsLeft
<1>1. CASE Running("MultiVersionUBO") /\ pass' = pass /\ (MultiVersion \/ UNCHANGED passVars)
  <2>1. LeftInOrder
    BY <1>1 DEF OrderIsLeft
  <2>2. CASE MultiVersion
    BY <1>1, <2>1, <2>2, MultiVersionLeaves
  <2>3. CASE UNCHANGED passVars
    BY <2>1, <2>3 DEF passVars, orderVars, LeftInOrder
  <2> QED
    BY <1>1, <2>2, <2>3
<1>2. CASE OrderFunctions /\ Order!OrderDone /\ turn' = 0 /\ UNCHANGED orderVars
  BY <1>2, LeftAfterOrder
<1> QED
  BY <1>1, <1>2, PassesInTurn

(* MultiVersionUBOFunctionsPass deals with callers first, and leaves them no use of
   their own pointers into uniform buffers. So what a call gives for such a pointer is
   never a parameter: if it is no resource, it was chosen from several, and as every
   function has a run, some kernel gives the function that. *)
LEMMA CannotSpecialize ==
  ASSUME PassInv, UniformCallsAreLegal(functions), OrderIsLeft,
         Running("MultiVersionUBO"), NEW u \in usersLeft, ~CanSpecialize(u)
  PROVE  \E p \in functions[u.call.callee].ubo :
           \E place \in GivenByKernels(u.call.callee, p) : place.base[1] = "other"
<1> DEFINE f == Current
           g == u.in
<1>1. IsModule(functions) /\ MakingVersions /\ pass # <<>> /\ pass[1] \in LatePasses /\ LeftInOrder
  BY VersionFacts DEF OrderIsLeft
<1>2. turn < Len(result) /\ f \in HelpersOf(functions) /\ usersLeft = UsersIn(functions, f)
  BY <1>1 DEF MakingVersions
<1>3. u \in Users(f)
  BY <1>2, UsersAre
<1>4. /\ g \in DOMAIN functions /\ u.call \in functions[g].calls /\ u.call.callee = f /\ f \in DOMAIN functions
      /\ IsFunction(functions, functions[g]) /\ f \in CalledIn(functions)
  BY <1>1, <1>3, UserFacts
<1> HIDE DEF g
<1>5. PICK p \in functions[f].ubo : Given(u)[p].kind # "resource"
  BY <1>4 DEF CanSpecialize
<1>6. /\ p \in Range(functions[f].params)
      /\ \E i \in DOMAIN u.call.args : functions[f].params[i] = p /\ Given(u)[p] = u.call.args[i]
  BY <1>1, <1>3, GivenPointers
<1>7. PICK i \in DOMAIN u.call.args : functions[f].params[i] = p /\ Given(u)[p] = u.call.args[i]
  BY <1>6
<1>8. UniformStays(functions, functions[g], u.call)
  BY <1>4 DEF UniformCallsAreLegal
<1>9. u.call.args[i].kind \in {"param", "other"} /\ (u.call.args[i].kind = "param" => u.call.args[i].id \in functions[g].ubo)
  BY <1>4, <1>5, <1>7, <1>8 DEF UniformStays
<1>10. u.call.args[i].kind # "param"
  <2> SUFFICES ASSUME u.call.args[i].kind = "param" PROVE FALSE
    OBVIOUS
  <2>1. u.call.args[i].id \in UsesIn(u.call.args[i])
    BY UsesAre, BaseUseIs
  <2>2. u.call.args[i].id \in UsedIn(functions[g])
    BY <1>4, <2>1, UsedInIs
  <2>3. ~UboIsUnused(functions[g])
    BY <1>9, <2>2 DEF UboIsUnused
  <2>4. functions[g].params # <<>>
    BY <1>4, <1>9 DEF IsFunction, Range
  <2>5. g \in HelpersOf(functions)
    BY <1>4, <2>4 DEF IsFunction, HelpersOf
  <2>6. PICK j \in turn + 1 .. Len(result) : result[j] = g
    BY <1>1, <2>3, <2>5 DEF MakingVersions, IsLeft
  <2>7. turn \in Nat /\ Len(result) \in Nat /\ turn + 1 \in turn + 1 .. Len(result) /\ ~(j < turn + 1)
    BY <1>1, <1>2, <2>6 DEF MakingVersions
  <2>8. result[turn + 1] \in HelpersOf(functions) /\ result[turn + 1] \in CalledBy(functions[result[j]])
    BY <1>2, <1>4, <2>6 DEF CalledBy, Current
  <2> QED
    BY <1>1, <2>7, <2>8 DEF LeftInOrder
<1>11. Given(u)[p].kind = "other"
  BY <1>7, <1>9, <1>10
<1>12. \A h \in HelpersOf(functions) : h \in CalledIn(functions)
  BY <1>1, <1>4 DEF PassInv, CalledOK, Late
<1> HIDE DEF f
<1>13. \E place \in GivenByKernels(f, p) : place.base[1] = "other"
  BY <1>1, <1>3, <1>6, <1>11, <1>12, CallGives
<1> QED
  BY <1>4, <1>13

(* A function is inlined for its uniform buffers only where no version can be made:
   some kernel gives it a pointer that is chosen from several. *)
THEOREM InliningIsNeeded == PassSpec => InlinedOnlyIfNeeded
<1> DEFINE Inv == PassInv /\ UniformCallsAreLegal(functions) /\ OrderIsLeft
<1>1. PassInit => UniformCallsAreLegal(functions) /\ OrderIsLeft
  <2> SUFFICES ASSUME PassInit PROVE UniformCallsAreLegal(functions) /\ OrderIsLeft
    OBVIOUS
  <2>1. UniformCallsAreLegal(functions)
    BY PassAssumption DEF PassInit
  <2>2. ~Running("MultiVersionUBO")
    <3>1. PassInv
      BY InitPassInv
    <3>2. options \in PassOptions /\ pass = Pipeline(options) /\ IsChain(pass)
      BY <3>1 DEF PassInit, PassInv, PassOK
    <3>3. pass[1] \notin LatePasses
      BY <3>2, OptionsAre, PipelineOK
    <3> QED
      BY <3>2, <3>3, RunningIs DEF LatePasses
  <2> QED
    BY <2>1, <2>2 DEF OrderIsLeft
<1>2. Inv /\ PassInv' /\ [PassNext]_passVars => Inv'
  BY UniformCallsStayLegal, OrderStaysLeft
<1>3. Inv => [Running("MultiVersionUBO") =>
       \A u \in usersLeft \ usersLeft' : ~CanSpecialize(u) =>
         \E p \in functions[u.call.callee].ubo :
           \E place \in GivenByKernels(u.call.callee, p) : place.base[1] = "other"]_passVars
  BY CannotSpecialize
<1>4. PassSpec => []Inv
  <2> HIDE DEF Inv
  <2>1. PassInit => Inv
    BY <1>1, InitPassInv DEF Inv
  <2> QED
    BY <1>2, <2>1, PassInvariant, PTL DEF PassSpec
<1> QED
  BY <1>3, <1>4, PTL DEF InlinedOnlyIfNeeded
=============================================================================
