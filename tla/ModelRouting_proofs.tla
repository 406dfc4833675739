------------------------ MODULE ModelRouting_proofs -------------------------
(***************************************************************************)
(* Proofs about ModelRouting: what the walk reports, and what it promises  *)
(* of backends that are dead or alive throughout, for any registry, any    *)
(* chain and any behaviour of the backends.                                *)
(***************************************************************************)
EXTENDS ModelRouting, SetInduction

\* The given up models are those before the one in hand.
Accounted ==
  /\ Len(attempts) = at - 1
  /\ \A i \in 1..at - 1 :
       attempts[i].model = chain[i] /\ attempts[i].error \notin RequestFaults
  /\ Len(chain) = 1 => at = 1
  /\ outcome.kind = "none" <=> pc # "done"
  /\ outcome.kind = "ok" => at <= Len(chain) /\ outcome.model = Here
  /\ outcome.kind = "allFailed" => at > Len(chain)
  /\ outcome.kind = "error" =>
       at <= Len(chain) /\ (outcome.error \in RequestFaults \/ Len(chain) = 1)

\* A model in hand has passed the probe that it has.
Probed ==
  /\ pc = "models" => was[Here] # {"down"}
  /\ pc = "dispatch" =>
       reg.provider[Here] = "openai" \/ Len(chain) = 1 \/ was[Here] # {"down"}
  /\ pc = "agent" =>
       \/ was[Here] # {"down"} \/ reg.provider[Here] = "openai"
       \/ reg.provider[Here] = "ollama" /\ Len(chain) = 1
  /\ DeadSkipped

\* A usable model was asked before it was given up, and an error that ends the
\* walk is of a model that was asked, or of one that cannot be used.
GivenUpAsked ==
  /\ \A i \in 1..at - 1 : Usable(chain[i]) => chain[i] \in asked
  /\ outcome.kind = "error" =>
       \/ Here \in asked
       \/ outcome.error \notin RequestFaults /\ ~ Usable(Here)

Remembered == \A m \in ToSet(chain) : backend[m] \in was[m]

IInv ==
  /\ TypeOK
  /\ Remembered
  /\ asked \subseteq ToSet(chain)
  /\ Accounted
  /\ Probed
  /\ GivenUpAsked

-----------------------------------------------------------------------------
(* The chain: what BuildChain folds together, for any registry and seeds.  *)

\* What FlattenSeq computes on the way.
Joined(ss, f) == f = [i \in 1..Len(ss) |-> IF i = 1 THEN ss[i] ELSE f[i - 1] \o ss[i]]

\* Sequences end to end are a sequence.
LEMMA FlattenTyped ==
  ASSUME NEW S, NEW ss \in Seq(Seq(S))
  PROVE  FlattenSeq(ss) \in Seq(S)
<1>1. CASE Len(ss) = 0
  BY <1>1 DEF FlattenSeq
<1>2. CASE Len(ss) # 0
  <2> DEFINE n == Len(ss)
             Q == Seq(S)
             step == [p \in Q \X (1..n) |-> IF p[2] = 1 THEN ss[1] ELSE p[1] \o ss[p[2]]]
  <2>1. n \in Nat /\ n >= 1 /\ \A i \in 1..n : ss[i] \in Q
    BY <1>2
  <2>2. step \in [Q \X (1..n) -> Q]
    <3>1. ASSUME NEW p \in Q \X (1..n)
          PROVE  (IF p[2] = 1 THEN ss[1] ELSE p[1] \o ss[p[2]]) \in Q
      <4>1. p[1] \in Seq(S) /\ p[2] \in 1..n /\ ss[p[2]] \in Seq(S) /\ ss[1] \in Seq(S)
        BY <2>1
      <4> QED BY <4>1
    <3> QED BY <3>1
  <2> DEFINE empty == <<>>
  <2>3. empty \in Q
    OBVIOUS
  <2>4. PICK f \in [0..n -> Q] :Recurs(f, n, empty, step)
    <3>1. n \in Nat
      BY <2>1
    <3> HIDE DEF step, Q, n, empty
    <3> QED BY <3>1, <2>2, <2>3, Recursion
  <2> DEFINE g == [i \in 1..n |-> f[i]]
  <2>5. \A i \in 1..n : f[i] = IF i = 1 THEN ss[i] ELSE f[i - 1] \o ss[i]
    <3> SUFFICES ASSUME NEW i \in 1..n
                 PROVE  f[i] = IF i = 1 THEN ss[i] ELSE f[i - 1] \o ss[i]
      OBVIOUS
    <3>1. i \in 0..n /\ i # 0 /\ i - 1 \in 0..n
      BY <2>1
    <3>2. f[i] = step[<<f[i - 1], i>>] /\ f[i - 1] \in Q
      <4> HIDE DEF step
      <4> QED BY <2>4, <3>1 DEF Recurs
    <3>3. <<f[i - 1], i>> \in Q \X (1..n)
      BY <3>2
    <3> QED BY <3>2, <3>3
  <2>6. Joined(ss, g)
    BY <2>1, <2>5 DEF Joined
  <2> DEFINE h == CHOOSE x : Joined(ss, x)
  <2>7. Joined(ss, h)
    BY <2>6
  <2>8. 1..n \subseteq {i \in Nat : i \in 1..n => h[i] \in Q}
    <3> DEFINE T == {i \in Nat : i \in 1..n => h[i] \in Q}
    <3>1. 0 \in T
      OBVIOUS
    <3>2. ASSUME NEW i \in Nat, i \in T PROVE i + 1 \in T
      <4> SUFFICES ASSUME i + 1 \in 1..n PROVE h[i + 1] \in Q
        OBVIOUS
      <4>1. h[i + 1] = IF i + 1 = 1 THEN ss[i + 1] ELSE h[(i + 1) - 1] \o ss[i + 1]
        <5> HIDE DEF h
        <5> QED BY <2>7 DEF Joined
      <4>2. ss[i + 1] \in Q /\ (i + 1) - 1 = i /\ (i + 1 # 1 => i \in 1..n /\ h[i] \in Q)
        BY <2>1, <3>2
      <4> HIDE DEF h
      <4> QED BY <4>1, <4>2
    <3> HIDE DEF T
    <3>3. Nat \subseteq T
      BY <3>1, <3>2, Induction
    <3> QED BY <3>3, <2>1 DEF T
  <2>9. FlattenSeq(ss) = h[n]
    BY <1>2 DEF FlattenSeq, Joined
  <2> QED BY <2>1, <2>8, <2>9
<1> QED BY <1>1, <1>2
\* What the fold of AddNew computes on the way: its value for each set of
\* positions.
Folded(seq, D, f) ==
  f = [s \in SUBSET D |->
         IF s = {} THEN <<>>
         ELSE LET x == Max(s) IN AddNew(f[s \ {x}], seq[x])]

\* The same from set to set.
LEMMA FoldedStep ==
  ASSUME NEW seq, NEW D, NEW f, DOMAIN f = SUBSET D, f = [s \in SUBSET D |-> f[s]],
         f[{}] = <<>>,
         \A s \in SUBSET D : s # {} => f[s] = AddNew(f[s \ {Max(s)}], seq[Max(s)])
  PROVE  Folded(seq, D, f)
<1>1. ASSUME NEW s \in SUBSET D
      PROVE  f[s] = IF s = {} THEN <<>>
                    ELSE LET x == Max(s) IN AddNew(f[s \ {x}], seq[x])
  OBVIOUS
<1> QED BY <1>1 DEF Folded

LEMMA Highest ==
  ASSUME NEW n \in Nat, NEW s \in SUBSET (1..(n + 1)), n + 1 \in s
  PROVE  Max(s) = n + 1
<1>1. \A y \in s : n + 1 >= y
  OBVIOUS
<1>2. \A x \in s : (\A y \in s : x >= y) => x = n + 1
  OBVIOUS
<1> QED BY <1>1, <1>2 DEF Max

LEMMA FoldExists ==
  ASSUME NEW seq, NEW N \in Nat
  PROVE  \E f : Folded(seq, 1..N, f)
<1> DEFINE T == {n \in Nat : \E f : Folded(seq, 1..n, f)}
<1>1. 0 \in T
  <2> DEFINE D == 1..0
             f == [s \in SUBSET D |-> <<>>]
  <2>1. D = {}
    OBVIOUS
  <2>2. Folded(seq, D, f)
    <3>1. \A s \in SUBSET D : s = {}
      BY <2>1
    <3> QED BY <3>1, FoldedStep
  <2> QED BY <2>2
<1>2. ASSUME NEW n \in Nat, n \in T PROVE n + 1 \in T
  <2>1. PICK f : Folded(seq, 1..n, f)
    BY <1>2
  <2> DEFINE D == 1..(n + 1)
             g == [s \in SUBSET D |->
                     IF n + 1 \in s THEN AddNew(f[s \ {n + 1}], seq[n + 1]) ELSE f[s]]
  <2>2. g[{}] = <<>>
    BY <2>1 DEF Folded
  <2>3. ASSUME NEW s \in SUBSET D, s # {}
        PROVE  g[s] = AddNew(g[s \ {Max(s)}], seq[Max(s)])
    <3>1. CASE n + 1 \in s
      <4>1. Max(s) = n + 1
        BY <3>1, Highest
      <4>2. g[s \ {n + 1}] = f[s \ {n + 1}] /\ g[s] = AddNew(f[s \ {n + 1}], seq[n + 1])
        BY <3>1
      <4> HIDE DEF g
      <4> QED BY <4>1, <4>2
    <3>2. CASE n + 1 \notin s
      <4>1. s \in SUBSET (1..n)
        BY <3>2
      <4>2. g[s] = f[s] /\ g[s \ {Max(s)}] = f[s \ {Max(s)}]
        BY <3>2
      <4>3. f[s] = AddNew(f[s \ {Max(s)}], seq[Max(s)])
        BY <2>1, <2>3, <4>1 DEF Folded
      <4> HIDE DEF g
      <4> QED BY <4>2, <4>3
    <3> QED BY <3>1, <3>2
  <2>4. g = [s \in SUBSET D |-> g[s]] /\ DOMAIN g = SUBSET D
    OBVIOUS
  <2>5. Folded(seq, D, g)
    <3> HIDE DEF g, D
    <3> QED BY <2>2, <2>3, <2>4, FoldedStep
  <2> QED BY <2>5
<1> HIDE DEF T
<1>3. Nat \subseteq T
  BY <1>1, <1>2, Induction
<1> QED BY <1>3 DEF T

\* Folding AddNew from left to right, one position after the other.
LEMMA FoldSteps ==
  ASSUME NEW seq \in Seq(Model)
  PROVE  \E g : /\ g[0] = <<>>
                /\ \A i \in 1..Len(seq) : g[i] = AddNew(g[i - 1], seq[i])
                /\ FoldLeft(AddNew, <<>>, seq) = g[Len(seq)]
<1> DEFINE N == Len(seq)
           D == 1..N
           h == CHOOSE f : Folded(seq, D, f)
           g == [i \in 0..N |-> h[1..i]]
<1>1. N \in Nat /\ DOMAIN seq = D
  OBVIOUS
<1>2. Folded(seq, D, h)
  BY <1>1, FoldExists
<1>3. FoldLeft(AddNew, <<>>, seq) = h[D]
  BY <1>1 DEF FoldLeft, MapThenFoldSet, Folded
<1> HIDE DEF h
<1>4. g[0] = <<>>
  BY <1>1, <1>2 DEF Folded
<1>5. ASSUME NEW i \in 1..N PROVE g[i] = AddNew(g[i - 1], seq[i])
  <2>1. i - 1 \in Nat /\ (i - 1) + 1 = i /\ 1..i \in SUBSET D /\ i \in 1..i
    BY <1>1
  <2>2. Max(1..i) = i
    BY <2>1, Highest
  <2>3. (1..i) \ {i} = 1..(i - 1) /\ 1..i # {}
    <3>1. \A k : k \in 1..(i - 1) <=> k \in 1..i /\ k # i
      BY <2>1
    <3> QED BY <2>1, <3>1
  <2>4. h[1..i] = AddNew(h[1..(i - 1)], seq[i])
    BY <1>2, <2>1, <2>2, <2>3 DEF Folded
  <2> QED BY <1>1, <2>4
<1>6. g[N] = h[D]
  BY <1>1
<1> HIDE DEF g
<1> QED BY <1>3, <1>4, <1>5, <1>6

\* The position at which a model is first listed.
FirstPlace(listed, m) == CHOOSE i \in DOMAIN listed :
                      listed[i] = m /\ \A j \in 1..i - 1 : listed[j] # m

LEMMA FirstListed ==
  ASSUME NEW listed \in Seq(Model), NEW i \in 1..Len(listed)
  PROVE  /\ FirstPlace(listed, listed[i]) \in 1..i
         /\ (\A j \in 1..(i - 1) : listed[j] # listed[i]) => FirstPlace(listed, listed[i]) = i
<1> DEFINE m == listed[i]
           P(k) == listed[k] = m /\ \A j \in 1..(k - 1) : listed[j] # m
           T == {k \in 1..Len(listed) : listed[k] = m}
           f == CHOOSE k \in DOMAIN listed : P(k)
<1>0. Len(listed) \in Nat /\ DOMAIN listed = 1..Len(listed)
  OBVIOUS
<1>1. PICK k \in T : \A j \in T : k <= j
  <2>1. T \subseteq Nat /\ T # {}
    BY <1>0
  <2> HIDE DEF T
  <2> QED BY <2>1, LeastMember
<1>2. k \in DOMAIN listed /\ P(k)
  BY <1>0, <1>1
<1>3. f \in DOMAIN listed /\ P(f)
  BY <1>2
<1>4. FirstPlace(listed, m) = f
  BY DEF FirstPlace
<1> HIDE DEF f
<1>5. f <= i
  BY <1>0, <1>3
<1>6. (\A j \in 1..(i - 1) : listed[j] # m) => f = i
  BY <1>0, <1>3, <1>5
<1> QED BY <1>0, <1>3, <1>4, <1>5, <1>6

\* A chain that lists the models of the first k positions, each once, in the
\* order of their first places.
Ordered(listed, k, c) ==
  /\ c \in Seq(Model)
  /\ ToSet(c) = {listed[i] : i \in 1..k}
  /\ \A p \in DOMAIN c : FirstPlace(listed, c[p]) \in 1..k
  /\ \A p, q \in DOMAIN c : p < q => FirstPlace(listed, c[p]) < FirstPlace(listed, c[q])

LEMMA OrderedStep ==
  ASSUME NEW listed \in Seq(Model), NEW k \in 1..Len(listed), NEW c,
         Ordered(listed, k - 1, c)
  PROVE  Ordered(listed, k, AddNew(c, listed[k]))
<1> DEFINE m == listed[k]
           d == AddNew(c, m)
<1>0. Len(listed) \in Nat /\ m \in Model /\ c \in Seq(Model) /\ Len(c) \in Nat
  BY DEF Ordered
<1>1. {listed[i] : i \in 1..k} = {listed[i] : i \in 1..(k - 1)} \cup {m}
  BY <1>0
<1>2. CASE Contains(c, m)
  <2>1. d = c /\ m \in ToSet(c)
    BY <1>2 DEF AddNew, Contains, ToSet
  <2> QED BY <1>1, <2>1 DEF Ordered
<1>3. CASE ~ Contains(c, m)
  <2>1. d = Append(c, m) /\ \A p \in DOMAIN c : c[p] # m
    BY <1>0, <1>3 DEF AddNew, Contains
  <2>2. /\ d \in Seq(Model) /\ Len(d) = Len(c) + 1 /\ d[Len(c) + 1] = m
        /\ \A p \in 1..Len(c) : d[p] = c[p]
    BY <1>0, <2>1
  <2>3. ToSet(d) = ToSet(c) \cup {m}
    <3>1. \A p \in 1..(Len(c) + 1) : p \in 1..Len(c) \/ p = Len(c) + 1
      BY <1>0
    <3>2. ToSet(d) = {d[p] : p \in 1..(Len(c) + 1)}
      BY <1>0, <2>2 DEF ToSet
    <3>3. ToSet(c) = {c[p] : p \in 1..Len(c)}
      BY <1>0 DEF ToSet
    <3> HIDE DEF m, d
    <3>4. {d[p] : p \in 1..(Len(c) + 1)} = {d[p] : p \in 1..Len(c)} \cup {m}
      BY <1>0, <2>2, <3>1
    <3>5. {d[p] : p \in 1..Len(c)} = {c[p] : p \in 1..Len(c)}
      BY <2>2
    <3> QED BY <3>2, <3>3, <3>4, <3>5
  <2>4. \A j \in 1..(k - 1) : listed[j] # m
    <3>1. m \notin ToSet(c)
      BY <2>1 DEF ToSet
    <3> QED BY <3>1 DEF Ordered
  <2>5. FirstPlace(listed, m) = k
    BY <2>4, FirstListed
  <2>6. \A p \in 1..Len(c) : FirstPlace(listed, d[p]) \in 1..(k - 1)
    BY <1>0, <2>2 DEF Ordered
  <2>7. ASSUME NEW p \in DOMAIN d, NEW q \in DOMAIN d, p < q
        PROVE  FirstPlace(listed, d[p]) < FirstPlace(listed, d[q])
    <3>1. p \in 1..Len(c) /\ (q \in 1..Len(c) \/ q = Len(c) + 1)
      BY <1>0, <2>2, <2>7
    <3>2. CASE q \in 1..Len(c)
      <4>1. p \in DOMAIN c /\ q \in DOMAIN c /\ d[p] = c[p] /\ d[q] = c[q]
        BY <1>0, <2>2, <3>1, <3>2
      <4> QED BY <2>7, <4>1 DEF Ordered
    <3>3. CASE q = Len(c) + 1
      BY <2>2, <2>5, <2>6, <3>1, <3>3
    <3> QED BY <3>1, <3>2, <3>3
  <2>8. \A p \in DOMAIN d : FirstPlace(listed, d[p]) \in 1..k
    <3> SUFFICES ASSUME NEW p \in DOMAIN d PROVE FirstPlace(listed, d[p]) \in 1..k
      OBVIOUS
    <3>1. p \in 1..Len(c) \/ p = Len(c) + 1
      BY <1>0, <2>2
    <3> QED BY <2>2, <2>5, <2>6, <3>1
  <2>9. ToSet(d) = {listed[i] : i \in 1..k}
    BY <1>1, <2>3 DEF Ordered
  <2>10. d \in Seq(Model)
    BY <2>2
  <2> HIDE DEF d, m
  <2>11. Ordered(listed, k, d)
    BY <2>7, <2>8, <2>9, <2>10 DEF Ordered
  <2> QED BY <2>11 DEF d, m
<1> QED BY <1>2, <1>3

\* The chain is a sequence of models, in order.
LEMMA ChainBuilt ==
  ASSUME NEW r, Listed(r) \in Seq(Model)
  PROVE  Ordered(Listed(r), Len(Listed(r)), BuildChain(r))
<1> DEFINE listed == Listed(r)
           N == Len(listed)
<1>0. listed \in Seq(Model) /\ N \in Nat
  OBVIOUS
<1> HIDE DEF listed
<1>1. PICK g : /\ g[0] = <<>>
               /\ \A i \in 1..N : g[i] = AddNew(g[i - 1], listed[i])
               /\ FoldLeft(AddNew, <<>>, listed) = g[N]
  BY <1>0, FoldSteps
<1> DEFINE T == {k \in Nat : Ordered(listed, k, g[k])}
<1>2. 0 \in T
  <2>1. {listed[i] : i \in 1..0} = {} /\ ToSet(<<>>) = {} /\ DOMAIN <<>> = {}
    <3>1. 1..0 = {}
      OBVIOUS
    <3> QED BY <3>1 DEF ToSet
  <2>2. Ordered(listed, 0, <<>>)
    BY <2>1 DEF Ordered
  <2> QED BY <1>1, <2>2
<1>3. ASSUME NEW k \in 0..(N - 1), k \in T PROVE k + 1 \in T
  <2>1. k + 1 \in 1..N /\ (k + 1) - 1 = k /\ k + 1 \in Nat /\ Ordered(listed, k, g[k])
    BY <1>0, <1>3
  <2>2. g[k + 1] = AddNew(g[k], listed[k + 1])
    BY <1>1, <2>1
  <2>3. Ordered(listed, k + 1, AddNew(g[k], listed[k + 1]))
    BY <1>0, <2>1, OrderedStep
  <2> QED BY <2>1, <2>2, <2>3
<1> HIDE DEF T
<1>4. N \in T
  <2>1. 0..N \subseteq T
    BY <1>0, <1>2, <1>3, BoundedInduction
  <2> QED BY <1>0, <2>1
<1> QED BY <1>1, <1>4 DEF T, BuildChain, listed

LEMMA ListedTyped ==
  ASSUME NEW r \in Routes
  PROVE  Listed(r) \in Seq(Model)
<1> DEFINE lists == [i \in DOMAIN r.seeds |->
                       <<r.seeds[i]>> \o r.registry.fallback[r.seeds[i]]]
<1>1. r.seeds \in Seq(Model) /\ r.registry.fallback \in [Model -> Seq(Model)]
  BY RoutingAssumptions DEF RoutingAssumptions, Loadable
<1>2. lists \in Seq(Seq(Model))
  <2>1. ASSUME NEW i \in 1..Len(r.seeds)
        PROVE  <<r.seeds[i]>> \o r.registry.fallback[r.seeds[i]] \in Seq(Model)
    <3>1. r.seeds[i] \in Model /\ <<r.seeds[i]>> \in Seq(Model)
      BY <1>1
    <3>2. r.registry.fallback[r.seeds[i]] \in Seq(Model)
      BY <1>1, <3>1
    <3> QED BY <3>1, <3>2
  <2>2. DOMAIN r.seeds = 1..Len(r.seeds) /\ Len(r.seeds) \in Nat
    BY <1>1
  <2> QED BY <2>1, <2>2
<1> HIDE DEF lists
<1>3. FlattenSeq(lists) \in Seq(Model)
  BY <1>2, FlattenTyped
<1> QED BY <1>3 DEF Listed, lists

\* The chain of a route is a sequence of models.
LEMMA ChainTyped ==
  ASSUME NEW r \in Routes
  PROVE  BuildChain(r) \in Seq(Model)
BY ListedTyped, ChainBuilt DEF Ordered

-----------------------------------------------------------------------------
\* A registry that was loaded has a provider for each model.
LEMMA Loaded ==
  ASSUME route \in Routes
  PROVE  reg.provider \in [Model -> Provider]
  BY RoutingAssumptions DEF RoutingAssumptions, Loadable, reg

LEMMA Bounds == MaxTurns \in Nat /\ MaxChanges \in Nat
  BY RoutingAssumptions DEF RoutingAssumptions

LEMMA JustOne == \A n \in Nat : n >= 1 /\ ~ (n > 1) => n = 1
  OBVIOUS

\* The model in hand is one of the chain.
LEMMA InHand ==
  ASSUME TypeOK, pc \notin {"select", "done"}
  PROVE  /\ at \in 1..Len(chain) /\ at \in DOMAIN chain
         /\ Here \in ToSet(chain) /\ Here \in Model
         /\ reg.provider[Here] \in Provider
  <1>1. at \in 1..Len(chain)  BY DEF TypeOK
  <1>2. at \in DOMAIN chain /\ chain[at] \in Model  BY <1>1 DEF TypeOK
  <1>3. chain[at] \in ToSet(chain)  BY <1>2 DEF ToSet
  <1>4. reg.provider \in [Model -> Provider]  BY Loaded DEF TypeOK
  <1> QED  BY <1>1, <1>2, <1>3, <1>4 DEF Here

\* The walk begins in the invariant.
LEMMA InitInv == Init => IInv
  <1> SUFFICES ASSUME Init PROVE IInv  OBVIOUS
  <1>1. chain \in Seq(Model)  BY ChainTyped DEF Init
  <1>2. TypeOK
    <2>1. at \in 1..Len(chain) + 1 /\ pc = "select"
      BY <1>1 DEF Init
    <2>2. turn \in 0..MaxTurns /\ changes \in 0..MaxChanges
      BY Bounds DEF Init
    <2>6. routing \in BOOLEAN
      BY Zenon DEF Init
    <2>3. attempts \in Seq([model : Model, error : Errors]) /\ asked \subseteq Model
      BY DEF Init
    <2>4. outcome \in [kind : {"none", "allFailed"}]
      BY DEF Init
    <2>5. was \in [ToSet(chain) -> SUBSET Backend]
      BY DEF Init
    <2> QED  BY <1>1, <2>1, <2>2, <2>3, <2>4, <2>5, <2>6 DEF Init, TypeOK
  <1>3. Remembered  BY DEF Init, Remembered
  <1>4. Accounted  BY <1>1 DEF Init, Accounted
  <1>5. Probed  BY DEF Init, Probed, DeadSkipped
  <1>6. GivenUpAsked  BY DEF Init, GivenUpAsked
  <1> QED  BY <1>2, <1>3, <1>4, <1>5, <1>6 DEF IInv, Init

\* What stays as it is in a step of the router.
Still == UNCHANGED <<route, chain, backend, was, changes>>

\* Giving up the model in hand keeps the account, if it was asked or cannot be
\* used.
LEMMA FailKeeps ==
  ASSUME IInv, Still, pc \notin {"select", "done"},
         NEW error \in Errors, Fail(error),
         \/ Here \in asked'
         \/ error \notin RequestFaults /\ ~ Usable(Here),
         routing' \in BOOLEAN, turn' \in 0..MaxTurns,
         asked \subseteq asked', asked' \subseteq ToSet(chain), DeadSkipped'
  PROVE  IInv'
  <1> USE DEF IInv
  <1>0. at \in 1..Len(chain) /\ Here \in Model  BY InHand
  <1>1. /\ reg' = reg /\ \A m : Usable(m)' <=> Usable(m)
    BY DEF Still, reg, Usable
  <1>2. asked' \subseteq Model
    BY DEF TypeOK, ToSet
  <1>3. CASE Eligible(error) /\ Len(chain) > 1
    <2>1. /\ at' = at + 1 /\ pc' = "select" /\ outcome' = outcome
          /\ attempts' = Append(attempts, [model |-> Here, error |-> error])
      BY <1>3 DEF Fail, Advance
    <2>2. TypeOK'
      BY <1>0, <1>2, <2>1 DEF TypeOK, Still
    <2>3. /\ Len(attempts') = at
          /\ \A i \in 1..at - 1 : attempts'[i] = attempts[i]
          /\ attempts'[at] = [model |-> chain[at], error |-> error]
      BY <2>1, <1>0, SMTT(30) DEF TypeOK, Accounted, Here
    <2>4. error \notin RequestFaults
      BY <1>3 DEF Eligible, RequestFaults
    <2>5. outcome.kind = "none"
      BY DEF Accounted
    <2>6. Accounted'
      BY <1>0, <1>3, <2>1, <2>3, <2>4, <2>5 DEF Accounted, Still, TypeOK, Here
    <2>7. Probed'
      BY <2>1 DEF Probed
    <2>8. Usable(chain[at]) => chain[at] \in asked'
      BY DEF Here
    <2>9. GivenUpAsked'
      <3>1. \A i \in 1..at' - 1 : Usable(chain'[i]) => chain'[i] \in asked'
        BY <1>0, <2>1, <2>8 DEF GivenUpAsked, Still
      <3> QED  BY <3>1, <1>1, <2>1, <2>5 DEF GivenUpAsked, Still
    <2> QED  BY <2>2, <2>6, <2>7, <2>9 DEF Remembered, Still
  <1>4. CASE ~ (Eligible(error) /\ Len(chain) > 1)
    <2>1. /\ pc' = "done" /\ outcome' = [kind |-> "error", error |-> error]
          /\ at' = at /\ attempts' = attempts
      BY <1>4 DEF Fail, Return
    <2>2. error \in RequestFaults \/ Len(chain) = 1
      <3>1. Len(chain) \in Nat  BY DEF TypeOK
      <3>2. Len(chain) >= 1  BY <1>0, <3>1
      <3>3. CASE ~ Eligible(error)  BY <3>3 DEF Eligible, RequestFaults, Errors
      <3>4. CASE ~ (Len(chain) > 1)  BY <3>1, <3>2, <3>4, JustOne, Zenon
      <3> QED  BY <1>4, <3>3, <3>4
    <2>3. TypeOK'
      BY <1>0, <1>2, <2>1 DEF TypeOK, Still
    <2>4. Accounted'
      BY <1>0, <2>1, <2>2 DEF Accounted, Still
    <2>5. Probed'
      BY <2>1 DEF Probed
    <2>6. GivenUpAsked'
      BY <1>1, <2>1 DEF GivenUpAsked, Still, Here
    <2> QED  BY <2>3, <2>4, <2>5, <2>6 DEF Remembered, Still
  <1> QED  BY <1>3, <1>4

LEMMA GotoKeeps ==
  ASSUME IInv, Still, pc # "done", NEW next \in {"health", "models", "dispatch", "agent"},
         Goto(next), at <= Len(chain),
         routing' \in BOOLEAN, turn' \in 0..MaxTurns,
         asked \subseteq asked', asked' \subseteq ToSet(chain), Probed'
  PROVE  IInv'
  <1> USE DEF IInv
  <1>1. /\ pc' = next /\ at' = at /\ attempts' = attempts /\ outcome' = outcome
    BY DEF Goto
  <1>2. asked' \subseteq Model
    BY DEF TypeOK, ToSet
  <1>3. TypeOK'
    BY <1>1, <1>2 DEF TypeOK, Still
  <1>4. Accounted'
    BY <1>1 DEF Accounted, Still, Here
  <1>5. /\ reg' = reg /\ \A m : Usable(m)' <=> Usable(m)
    BY DEF Still, reg, Usable
  <1>6. GivenUpAsked'
    BY <1>1, <1>5 DEF GivenUpAsked, Still, Here
  <1> QED  BY <1>3, <1>4, <1>6 DEF Remembered, Still

LEMMA ReturnKeeps ==
  ASSUME IInv, Still, pc # "done", NEW result, Return(result),
         \/ result = [kind |-> "allFailed"] /\ at > Len(chain)
         \/ result = [kind |-> "ok", model |-> Here] /\ at <= Len(chain),
         routing' \in BOOLEAN, turn' \in 0..MaxTurns,
         asked \subseteq asked', asked' \subseteq ToSet(chain), DeadSkipped'
  PROVE  IInv'
  <1> USE DEF IInv
  <1>1. /\ pc' = "done" /\ outcome' = result /\ at' = at /\ attempts' = attempts
    BY DEF Return
  <1>2. asked' \subseteq Model
    BY DEF TypeOK, ToSet
  <1>3. /\ outcome' \in [kind : {"none", "allFailed"}] \cup [kind : {"ok"}, model : Model]
        /\ outcome'.kind \in {"allFailed", "ok"}
        /\ outcome'.kind = "allFailed" => at > Len(chain)
        /\ outcome'.kind = "ok" => at <= Len(chain) /\ outcome'.model = Here
    BY <1>1 DEF TypeOK, Here
  <1>4. TypeOK'
    BY <1>1, <1>2, <1>3 DEF TypeOK, Still
  <1>5. Accounted'
    BY <1>1, <1>3 DEF Accounted, Still, Here
  <1>6. Probed'
    BY <1>1 DEF Probed
  <1>7. /\ reg' = reg /\ \A m : Usable(m)' <=> Usable(m)
    BY DEF Still, reg, Usable
  <1>8. GivenUpAsked'
    BY <1>1, <1>3, <1>7 DEF GivenUpAsked, Still, Here
  <1> QED  BY <1>4, <1>5, <1>6, <1>8 DEF Remembered, Still

-----------------------------------------------------------------------------
LEMMA SelectKeeps ==
  ASSUME IInv, Still, Select
  PROVE  IInv'
  <1> USE DEF IInv
  <1>1. /\ pc = "select" /\ routing' = TRUE /\ turn' = turn /\ asked' = asked
    BY DEF Select
  <1>2. turn' \in 0..MaxTurns /\ asked' \subseteq ToSet(chain)
    BY <1>1 DEF TypeOK
  <1>3. DeadSkipped'
    BY <1>1 DEF Probed, DeadSkipped, Still, reg
  <1>4. CASE at > Len(chain)
    BY <1>1, <1>2, <1>3, <1>4, ReturnKeeps DEF Select
  <1>5. CASE ~ (at > Len(chain)) /\ Len(chain) > 1 /\ reg.provider[Here] # "openai"
    <2>1. Goto("health")  BY <1>5 DEF Select
    <2>2. Probed'  BY <2>1, <1>3 DEF Probed, Goto
    <2> QED  BY <1>1, <1>2, <1>5, <2>1, <2>2, GotoKeeps DEF TypeOK
  <1>6. CASE ~ (at > Len(chain)) /\ ~ (Len(chain) > 1 /\ reg.provider[Here] # "openai")
    <2>1. Goto("dispatch")  BY <1>6 DEF Select
    <2>2. reg.provider[Here] = "openai" \/ Len(chain) = 1
      <3>1. Len(chain) \in Nat  BY DEF TypeOK
      <3>2. Len(chain) >= 1  BY <1>6, <3>1 DEF TypeOK
      <3> QED  BY <1>6, <3>1, <3>2, JustOne, Zenon
    <2>3. Probed'  BY <2>1, <2>2, <1>3 DEF Probed, Goto, Still, Here, reg
    <2> QED  BY <1>1, <1>2, <1>6, <2>1, <2>3, GotoKeeps DEF TypeOK
  <1> QED  BY <1>4, <1>5, <1>6

\* A backend that answered once has not been down all the time.
LEMMA Answered ==
  ASSUME IInv, Still, pc \notin {"select", "done"}, backend[Here] # "down"
  PROVE  was[Here] # {"down"}
  BY InHand DEF IInv, Remembered

\* A probe that passes leaves the model in hand probed.
LEMMA AliveKeeps ==
  ASSUME IInv, Still, pc \in {"health", "models"}, Alive, was[Here] # {"down"},
         UNCHANGED <<routing, turn, asked>>
  PROVE  IInv'
  <1> USE DEF IInv
  <1>0. at <= Len(chain)  BY DEF TypeOK
  <1> DEFINE next == IF routing THEN "dispatch" ELSE "agent"
  <1>1. Goto(next) /\ next \in {"health", "models", "dispatch", "agent"}
    BY DEF Alive
  <1>2. DeadSkipped'
    BY DEF Probed, DeadSkipped, Still, reg
  <1>3. Probed'
    BY <1>1, <1>2 DEF Probed, Goto, Still, Here, reg
  <1>4. routing' \in BOOLEAN /\ turn' \in 0..MaxTurns /\ asked' \subseteq ToSet(chain)
    BY DEF TypeOK
  <1> HIDE DEF next
  <1> QED  BY <1>0, <1>1, <1>3, <1>4, GotoKeeps

LEMMA HealthKeeps ==
  ASSUME IInv, Still, Health
  PROVE  IInv'
  <1> USE DEF IInv
  <1>1. /\ pc = "health" /\ UNCHANGED <<routing, turn, asked>>
    BY DEF Health
  <1>2. /\ at <= Len(chain) /\ Here \in ToSet(chain) /\ backend[Here] \in was[Here]
    BY <1>1, InHand DEF Remembered
  <1>3. DeadSkipped'
    BY <1>1 DEF Probed, DeadSkipped, Still, reg
  <1>4. routing' \in BOOLEAN /\ turn' \in 0..MaxTurns /\ asked' \subseteq ToSet(chain)
    BY <1>1 DEF TypeOK
  <1>5. CASE ProbeFails(Here)
    <2>1. Fail("unreachable")  BY <1>5 DEF Health
    <2>2. ~ Usable(Here)  BY <1>2, <1>5 DEF ProbeFails, Usable
    <2> QED
      <3>1. asked \subseteq asked'  BY <1>1
      <3> QED  BY <1>1, <1>3, <1>4, <2>1, <2>2, <3>1, FailKeeps DEF Errors, RequestFaults
  <1>6. CASE ~ ProbeFails(Here) /\ reg.provider[Here] = "trtllm"
    <2>1. Goto("models")  BY <1>6 DEF Health
    <2>2. was[Here] # {"down"}  BY <1>2, <1>6 DEF ProbeFails
    <2>3. Probed'  BY <2>1, <2>2, <1>3 DEF Probed, Goto, Still, Here
    <2> QED  BY <1>1, <1>2, <1>4, <2>1, <2>3, GotoKeeps
  <1>7. CASE ~ ProbeFails(Here) /\ reg.provider[Here] # "trtllm"
    <2>1. Alive  BY <1>7 DEF Health
    <2>2. was[Here] # {"down"}  BY <1>2, <1>7 DEF ProbeFails
    <2> QED  BY <1>1, <2>1, <2>2, AliveKeeps
  <1> QED  BY <1>5, <1>6, <1>7

LEMMA ModelsKeeps ==
  ASSUME IInv, Still, Models
  PROVE  IInv'
  <1> USE DEF IInv
  <1>1. /\ pc = "models" /\ UNCHANGED <<routing, turn, asked>>
    BY DEF Models
  <1>2. backend[Here] \in was[Here]
    BY <1>1, InHand DEF Remembered
  <1>3. DeadSkipped'
    BY <1>1 DEF Probed, DeadSkipped, Still, reg
  <1>4. routing' \in BOOLEAN /\ turn' \in 0..MaxTurns /\ asked' \subseteq ToSet(chain)
    BY <1>1 DEF TypeOK
  <1>5. CASE backend[Here] = "absent"
    <2>1. Fail("notLoaded")  BY <1>5 DEF Models
    <2>2. ~ Usable(Here)  BY <1>2, <1>5 DEF Usable
    <2> QED
      <3>1. asked \subseteq asked'  BY <1>1
      <3> QED  BY <1>1, <1>3, <1>4, <2>1, <2>2, <3>1, FailKeeps DEF Errors, RequestFaults
  <1>6. CASE backend[Here] # "absent"
    <2>1. Alive  BY <1>6 DEF Models
    <2>2. was[Here] # {"down"}  BY <1>1 DEF Probed
    <2> QED  BY <1>1, <2>1, <2>2, AliveKeeps
  <1> QED  BY <1>5, <1>6

LEMMA DispatchKeeps ==
  ASSUME IInv, Still, Dispatch
  PROVE  IInv'
  <1> USE DEF IInv
  <1>1. /\ pc = "dispatch" /\ routing' = FALSE /\ turn' = 0 /\ asked' = asked
    BY DEF Dispatch
  <1>2. at <= Len(chain) /\ reg.provider[Here] \in Provider
    BY <1>1, InHand
  <1>3. DeadSkipped'
    BY <1>1 DEF Probed, DeadSkipped, Still, reg
  <1>4. routing' \in BOOLEAN /\ turn' \in 0..MaxTurns /\ asked' \subseteq ToSet(chain)
    <2>1. turn' \in 0..MaxTurns  BY <1>1, Bounds
    <2> QED  BY <1>1, <2>1, Zenon
  <1>5. CASE reg.provider[Here] = "trtllm"
    <2>1. Goto("health")  BY <1>5 DEF Dispatch
    <2>2. Probed'  BY <2>1, <1>3 DEF Probed, Goto
    <2> QED  BY <1>1, <1>2, <1>4, <2>1, <2>2, GotoKeeps
  <1>6. CASE reg.provider[Here] = "openai" /\ Here \notin reg.keyed
    <2>1. Fail("noKey")  BY <1>6 DEF Dispatch
    <2>2. ~ Usable(Here)  BY <1>6 DEF Usable
    <2> QED
      <3>1. asked \subseteq asked'  BY <1>1
      <3> QED  BY <1>1, <1>3, <1>4, <2>1, <2>2, <3>1, FailKeeps DEF Errors, RequestFaults
  <1>7. CASE /\ reg.provider[Here] # "trtllm"
             /\ ~ (reg.provider[Here] = "openai" /\ Here \notin reg.keyed)
    <2>1. Goto("agent")  BY <1>7 DEF Dispatch
    <2>2. \/ was[Here] # {"down"} \/ reg.provider[Here] = "openai"
          \/ reg.provider[Here] = "ollama" /\ Len(chain) = 1
      BY <1>1, <1>2, <1>7 DEF Probed, Provider
    <2>3. Probed'  BY <2>1, <2>2, <1>3 DEF Probed, Goto, Still, Here, reg
    <2> QED  BY <1>1, <1>2, <1>4, <2>1, <2>3, GotoKeeps
  <1> QED  BY <1>5, <1>6, <1>7

LEMMA RefusalsTyped ==
  ASSUME IInv, pc \notin {"select", "done"}, NEW error \in Refusals(Here)
  PROVE  error \in Errors
<1>1. reg.provider[Here] \in Provider /\ backend[Here] \in Backend
  BY InHand DEF IInv, TypeOK
<1>2. CASE backend[Here] = "absent"
  <2>1. error \in {"notFound", "rejected", "notLoaded"}
    BY <1>1, <1>2 DEF Refusals, Provider
  <2> QED BY <2>1 DEF Errors, RequestFaults
<1>3. CASE backend[Here] # "absent"
  BY <1>1, <1>3 DEF Refusals, Worded, Errors, RequestFaults, Backend
<1> QED BY <1>2, <1>3

LEMMA AgentKeeps ==
  ASSUME IInv, Still, Agent
  PROVE  IInv'
  <1> USE DEF IInv
  <1>1. /\ pc = "agent" /\ routing' = routing /\ asked' = asked \cup {Here}
    BY DEF Agent
  <1>2. at <= Len(chain) /\ Here \in ToSet(chain)
    BY <1>1, InHand
  <1>3. routing' \in BOOLEAN /\ asked' \subseteq ToSet(chain)
    BY <1>1, <1>2 DEF TypeOK
  <1>4. DeadSkipped'
    BY <1>1 DEF Probed, DeadSkipped, Still, reg
  <1>5. ASSUME NEW error \in Refusals(Here), Fail(error), turn' = turn
        PROVE  IInv'
    <2>1. turn' \in 0..MaxTurns  BY <1>5 DEF TypeOK
    <2> QED  BY <1>1, <1>3, <1>4, <1>5, <2>1, RefusalsTyped, FailKeeps
  <1>6. CASE Return([kind |-> "ok", model |-> Here]) /\ turn' = turn
    <2>1. turn' \in 0..MaxTurns  BY <1>6 DEF TypeOK
    <2> QED  BY <1>1, <1>2, <1>3, <1>4, <1>6, <2>1, ReturnKeeps
  <1>7. CASE turn < MaxTurns /\ turn' = turn + 1 /\ Goto("agent")
    <2>1. turn' \in 0..MaxTurns
      BY <1>7, Bounds DEF TypeOK
    <2>2. Probed'
      BY <1>1, <1>4, <1>7 DEF Probed, Goto, Still, Here, reg
    <2> QED  BY <1>1, <1>2, <1>3, <1>7, <2>1, <2>2, GotoKeeps
  <1> QED  BY <1>5, <1>6, <1>7 DEF Agent

\* The history of a backend only grows: who was not dead, or not steady, stays so.
LEMMA ChangeKeeps ==
  ASSUME IInv, Change
  PROVE  IInv'
  <1> USE DEF IInv
  <1>1. /\ changes < MaxChanges /\ changes' = changes + 1
        /\ UNCHANGED <<route, chain, at, pc, routing, turn, attempts, asked, outcome>>
    BY DEF Change, walk
  <1>2. PICK m \in ToSet(chain), b \in Backend :
          /\ backend' = [backend EXCEPT ![m] = b]
          /\ was' = [was EXCEPT ![m] = @ \cup {b}]
    BY DEF Change
  <1>3. /\ backend' \in [ToSet(chain) -> Backend]
        /\ was' \in [ToSet(chain) -> SUBSET Backend]
    BY <1>2 DEF TypeOK
  <1>4. TypeOK'
    BY <1>1, <1>3, Bounds DEF TypeOK
  <1>5. /\ Remembered'
        /\ \A n \in ToSet(chain) : was[n] \subseteq was'[n] /\ was[n] # {}
    BY <1>1, <1>2 DEF Remembered, TypeOK
  <1>6. \A n \in ToSet(chain) : \A s : was'[n] = {s} => was[n] = {s}
    <2> SUFFICES ASSUME NEW n \in ToSet(chain), NEW s, was'[n] = {s}
                 PROVE  was[n] = {s}
      OBVIOUS
    <2>1. was[n] \subseteq {s} /\ was[n] # {}  BY <1>5
    <2> QED  BY <2>1
  <1>7. reg' = reg /\ Here' = Here  BY <1>1 DEF reg, Here
  <1>8. Accounted'
    BY <1>1, <1>7 DEF Accounted
  <1>9. Probed'
    <2>1. DeadSkipped'
      BY <1>1, <1>6, <1>7 DEF Probed, DeadSkipped
    <2>2. pc \in {"models", "dispatch", "agent"} => Here \in ToSet(chain)
      BY InHand
    <2> QED  BY <1>1, <1>6, <1>7, <2>1, <2>2 DEF Probed
  <1>10. GivenUpAsked'
    <2>1. \A n \in ToSet(chain) : Usable(n)' => Usable(n)
      BY <1>6, <1>7 DEF Usable
    <2>2. \A i \in 1..at - 1 : chain[i] \in ToSet(chain)
      BY DEF TypeOK, ToSet
    <2>3. pc = "done" => FALSE
      BY DEF Change
    <2>4. outcome.kind = "none"
      BY <2>3 DEF Accounted
    <2> QED  BY <1>1, <2>1, <2>2, <2>4 DEF GivenUpAsked
  <1> QED  BY <1>1, <1>4, <1>5, <1>8, <1>9, <1>10

LEMMA NextInv ==
  ASSUME IInv, [Next]_vars
  PROVE  IInv'
  <1>1. CASE Router
    <2>1. Still
      BY <1>1 DEF Router, Select, Health, Models, Dispatch, Agent, Still
    <2> QED
      BY <1>1, <2>1, SelectKeeps, HealthKeeps, ModelsKeeps, DispatchKeeps, AgentKeeps
      DEF Router
  <1>2. CASE Change
    BY <1>2, ChangeKeeps
  <1>3. CASE UNCHANGED vars
    BY <1>3 DEF vars, walk, IInv, TypeOK, Remembered, Accounted, Probed, DeadSkipped,
                GivenUpAsked, Usable, Here, reg
  <1> QED  BY <1>1, <1>2, <1>3 DEF Next

LEMMA Invariance == Spec => []IInv
  <1>1. IInv /\ [Next]_vars => IInv'  BY NextInv
  <1> QED  BY InitInv, <1>1, PTL DEF Spec

-----------------------------------------------------------------------------
\* The state of the walk keeps its types.
THEOREM RoutingTypeCorrect == Spec => []TypeOK
  <1>1. IInv => TypeOK  BY DEF IInv
  <1> QED  BY <1>1, Invariance, PTL

\* The walk accounts for each model that it gave up, names the one that served,
\* and lets an error of a backend out only if there was no other model.
THEOREM WalkAccounts == Spec => []WalkRecorded
  <1>1. ASSUME IInv PROVE WalkRecorded
    <2> USE DEF IInv
    <2>1. [i \in DOMAIN attempts |-> attempts[i].model] = SubSeq(chain, 1, at - 1)
      <3>1. DOMAIN attempts = 1..at - 1  BY <1>1 DEF TypeOK, Accounted
      <3>2. SubSeq(chain, 1, at - 1) = [i \in 1..at - 1 |-> chain[i]]
        BY <1>1 DEF TypeOK
      <3> QED  BY <1>1, <3>1, <3>2 DEF Accounted
    <2>2. \A i \in DOMAIN attempts : attempts[i].error \notin RequestFaults
      BY <1>1 DEF TypeOK, Accounted
    <2>3. outcome.kind \in {"none", "ok", "error", "allFailed"}
      BY <1>1 DEF TypeOK
    <2>4. outcome.kind = "allFailed" => at > Len(chain) /\ Len(chain) # 1
      <3>1. /\ outcome.kind = "allFailed" => at > Len(chain)
            /\ Len(chain) = 1 => at = 1
        BY <1>1 DEF Accounted
      <3> HIDE DEF IInv
      <3> QED  BY <3>1
    <2>5. /\ outcome.kind = "ok" => outcome.model = Here
          /\ outcome.kind = "error" => outcome.error \in RequestFaults \/ Len(chain) = 1
          /\ outcome.kind = "none" => pc # "done"
      BY <1>1 DEF Accounted
    <2> HIDE DEF IInv
    <2> QED  BY <2>1, <2>2, <2>3, <2>4, <2>5 DEF WalkRecorded
  <1> QED  BY <1>1, Invariance, PTL

\* No prompt goes to a backend that is dead throughout, if it has a probe.
THEOREM DeadNeverAsked == Spec => []DeadSkipped
  <1>1. IInv => DeadSkipped  BY DEF IInv, Probed
  <1> QED  BY <1>1, Invariance, PTL

\* A model that stays usable is never passed over: it is given up only once it
\* was asked, and what ends the walk before that is an error that says of an
\* earlier model's answer that no other model would help.
THEOREM SteadyNeverPassedOver == Spec => []SteadyAsked
  <1>1. ASSUME IInv PROVE SteadyAsked
    <2> USE DEF IInv
    <2> SUFFICES ASSUME NEW m \in ToSet(chain), m \notin asked, Usable(m)
                 PROVE  /\ \A i \in DOMAIN attempts : attempts[i].model # m
                        /\ outcome.kind # "allFailed"
                        /\ outcome.kind = "error" =>
                             outcome.error \in RequestFaults /\ asked # {}
      BY DEF SteadyAsked
    <2>1. PICK k \in 1..Len(chain) : chain[k] = m
      BY <1>1 DEF TypeOK, ToSet
    <2>2. \A i \in DOMAIN attempts : attempts[i].model # m
      BY <1>1 DEF Accounted, GivenUpAsked, TypeOK
    <2>3. outcome.kind # "allFailed"
      BY <1>1, <2>1 DEF Accounted, GivenUpAsked, TypeOK
    <2>4. ASSUME outcome.kind = "error"
          PROVE  outcome.error \in RequestFaults /\ asked # {}
      <3>1. outcome.error \in RequestFaults \/ Here = m
        <4>1. outcome.error \in RequestFaults \/ (Len(chain) = 1 /\ at = 1)
          BY <1>1, <2>4 DEF Accounted
        <4> QED  BY <2>1, <4>1 DEF Here
      <3>2. Here \in asked \/ (outcome.error \notin RequestFaults /\ ~ Usable(Here))
        BY <1>1, <2>4 DEF GivenUpAsked
      <3> QED  BY <3>1, <3>2
    <2> QED  BY <2>2, <2>3, <2>4
  <1> QED  BY <1>1, Invariance, PTL
-----------------------------------------------------------------------------

\* For every registry and every list of seeds, the candidates are the seeds and
\* their fallbacks, each once, in the order in which they are first listed.
THEOREM ChainInOrder == Spec => []ChainOrder
  <1> DEFINE Built == route \in Routes /\ chain = BuildChain(route)
  <1>1. Init => Built
    BY DEF Init
  <1>2. Built /\ [Next]_vars => Built'
    BY DEF Next, Router, Change, Select, Health, Models, Dispatch, Agent, vars, walk
  <1>3. Built => ChainOrder
    <2> SUFFICES ASSUME Built PROVE ChainOrder
      OBVIOUS
    <2> DEFINE listed == Listed(route)
    <2>1. listed \in Seq(Model) /\ Ordered(listed, Len(listed), chain)
      BY ListedTyped, ChainBuilt
    <2> HIDE DEF listed
    <2>2. ToSet(chain) = ToSet(listed)
      <3>1. 1..Len(listed) = DOMAIN listed
        BY <2>1
      <3>2. ToSet(listed) = {listed[i] : i \in 1..Len(listed)}
        BY <3>1 DEF ToSet
      <3>3. ToSet(chain) = {listed[i] : i \in 1..Len(listed)}
        BY <2>1 DEF Ordered
      <3> QED BY <3>2, <3>3
    <2>3. \A i, j \in DOMAIN chain :
            i < j => FirstPlace(listed, chain[i]) < FirstPlace(listed, chain[j])
      BY <2>1 DEF Ordered
    <2> QED BY <2>2, <2>3 DEF ChainOrder, FirstPlace, listed
  <1> QED BY <1>1, <1>2, <1>3, PTL DEF Spec
====================
