------------------------- MODULE SharedRosterProofs -------------------------
(***************************************************************************)
(* Theorems about a shared vault with one admin: its roster records are a  *)
(* chain, of which every device applies as much as it holds; so nothing    *)
(* accepted is taken back, members agree, and a rotation keeps the removed *)
(* device out.                                                             *)
(***************************************************************************)
EXTENDS SharedVaultProofs

(***************************************************************************)
(* linearize leaves out nothing that it could place.                       *)
(***************************************************************************)

LEMMA OrderComplete ==
  ASSUME TypeOK, NEW S \in SUBSET DOMAIN signed,
         NEW i \in Graph(S), Edges(Kept(S), i) \subseteq Elements(Order(S))
  PROVE  i \in Elements(Order(S))
<1> DEFINE N == Cardinality(Graph(S))
<1>1. N \in Nat /\ IsFiniteSet(Graph(S))
  <2>1. Graph(S) \subseteq 1..Len(signed)
    BY RecordTypes DEF Graph, Kept
  <2>2. IsFiniteSet(1..Len(signed))
    BY FS_Interval, RecordTypes
  <2> QED BY <2>1, <2>2, FS_Subset, FS_CardinalityType
<1>2. \E grown : IsGrown(grown, S, N)
  BY <1>1, GrownExists
<1>3. PICK grown : IsGrown(grown, S, N) /\ Order(S) = grown[N]
  <2> DEFINE g == CHOOSE grown : IsGrown(grown, S, N)
  <2>1. Order(S) = g[N]
    BY DEF Order, IsGrown, Graph
  <2>2. IsGrown(g, S, N)
    BY <1>2
  <2> QED BY <2>1, <2>2
<1> HIDE DEF N
<1> DEFINE Ready(order) == {j \in Graph(S) \ Elements(order) :
                              Edges(Kept(S), j) \subseteq Elements(order)}
           Good == {n \in Nat : n <= N => /\ Linear(S, grown[n])
                                          /\ Len(grown[n]) = n \/ Ready(grown[n]) = {}}
<1>4. 0 \in Good
  <2>1. grown[0] = <<>>
    BY <1>1, <1>3 DEF IsGrown
  <2>2. Linear(S, <<>>)
    BY DEF Linear
  <2> QED BY <2>1, <2>2
<1>5. ASSUME NEW n \in Nat, n \in Good PROVE n + 1 \in Good
  <2> SUFFICES ASSUME n + 1 <= N
               PROVE  /\ Linear(S, grown[n + 1])
                      /\ Len(grown[n + 1]) = n + 1 \/ Ready(grown[n + 1]) = {}
    OBVIOUS
  <2> DEFINE before == grown[n]
             ready  == Ready(before)
  <2>1. Linear(S, before) /\ (Len(before) = n \/ ready = {})
    BY <1>1, <1>5
  <2>2. grown[n + 1] = IF ready = {} THEN before ELSE Append(before, Smallest(ready))
    <3>1. n + 1 \in 0..N /\ n + 1 # 0 /\ (n + 1) - 1 = n
      BY <1>1
    <3> QED BY <1>3, <3>1 DEF IsGrown
  <2> HIDE DEF before
  <2>3. CASE ready = {}
    BY <2>1, <2>2, <2>3
  <2>4. CASE ready # {}
    <3>1. Linear(S, Append(before, Smallest(ready)))
      BY <2>1, <2>4, LinearGrows
    <3>2. before \in Seq(Graph(S)) /\ Len(before) = n
      BY <2>1, <2>4 DEF Linear
    <3>3. Len(Append(before, Smallest(ready))) = n + 1
      BY <3>2
    <3> QED BY <2>2, <2>4, <3>1, <3>3
  <2> QED BY <2>3, <2>4
<1> HIDE DEF Good
<1>6. N \in Good
  BY <1>1, <1>4, <1>5, InductiveSet
<1> DEFINE order == Order(S)
<1>7. Linear(S, order) /\ (Len(order) = N \/ Ready(order) = {})
  BY <1>1, <1>3, <1>6 DEF Good
<1> HIDE DEF order
<1>8. ASSUME Len(order) = N PROVE Graph(S) \subseteq Elements(order)
  <2>1. order \in Injection(1..N, Graph(S))
    <3>1. order \in [1..N -> Graph(S)]
      BY <1>1, <1>7, <1>8 DEF Linear
    <3>2. \A m, n \in 1..N : order[m] = order[n] => m = n
      BY <1>7, <1>8 DEF Linear
    <3> QED BY <3>1, <3>2 DEF Injection, IsInjective
  <2>2. Cardinality(1..N) = N
    BY <1>1, FS_Interval
  <2>3. order \in Surjection(1..N, Graph(S))
    BY <1>1, <2>1, <2>2, FS_Injection DEF N
  <2>4. DOMAIN order = 1..N
    BY <2>1 DEF Injection
  <2> QED BY <2>3, <2>4 DEF Surjection, Elements
<1> QED BY <1>7, <1>8 DEF order

(***************************************************************************)
(* A chain.                                                                *)
(***************************************************************************)

Rising(s) == \A m, n \in 1..Len(s) : m < n => s[m] < s[n]

\* Of two rising sequences, the one whose members come first in the other is a prefix.
LEMMA RisingPrefix ==
  ASSUME NEW s \in Seq(Nat), NEW t \in Seq(Nat), Rising(s), Rising(t),
         Elements(s) \subseteq Elements(t),
         \A x \in Elements(t), y \in Elements(s) : x < y => x \in Elements(s)
  PROVE  Len(s) <= Len(t) /\ \A n \in 1..Len(s) : s[n] = t[n]
<1> DEFINE Good == {n \in Nat : n <= Len(s) => n <= Len(t) /\ \A k \in 1..n : s[k] = t[k]}
<1>1. /\ Len(s) \in Nat /\ DOMAIN s = 1..Len(s) /\ \A n \in 1..Len(s) : s[n] \in Nat
      /\ Len(t) \in Nat /\ DOMAIN t = 1..Len(t) /\ \A n \in 1..Len(t) : t[n] \in Nat
  OBVIOUS
<1>2. 0 \in Good
  BY <1>1
<1>3. ASSUME NEW k \in Nat, k \in Good PROVE k + 1 \in Good
  <2> SUFFICES ASSUME k + 1 <= Len(s) PROVE k + 1 <= Len(t) /\ s[k + 1] = t[k + 1]
    BY <1>1, <1>3
  <2> DEFINE n == k + 1
  <2>1. n \in 1..Len(s) /\ k <= Len(t) /\ \A q \in 1..k : s[q] = t[q]
    BY <1>1, <1>3
  <2>2. PICK m \in 1..Len(t) : t[m] = s[n]
    BY <1>1, <2>1 DEF Elements
  <2>3. n <= m
    <3>1. ASSUME m < n PROVE FALSE
      <4>1. m \in 1..k /\ m \in 1..Len(s)
        BY <1>1, <2>1, <3>1
      <4>2. s[m] < s[n] /\ s[m] = s[n]
        BY <2>1, <2>2, <3>1, <4>1 DEF Rising
      <4> QED BY <1>1, <2>1, <4>2
    <3> QED BY <2>1, <3>1
  <2>4. n \in 1..Len(t)
    BY <1>1, <2>1, <2>3
  <2>5. CASE n = m
    BY <2>2, <2>4, <2>5
  <2>6. CASE n < m
    <3>1. t[n] < s[n]
      BY <2>2, <2>4, <2>6 DEF Rising
    <3>2. t[n] \in Elements(s)
      <4>1. t[n] \in Elements(t) /\ s[n] \in Elements(s)
        BY <1>1, <2>1, <2>4 DEF Elements
      <4> QED BY <3>1, <4>1
    <3>3. PICK q \in 1..Len(s) : s[q] = t[n]
      BY <1>1, <3>2 DEF Elements
    <3>4. q < n
      <4>1. ASSUME n <= q PROVE FALSE
        <5>1. s[n] \in Nat /\ s[q] \in Nat /\ t[n] \in Nat /\ t[n] < s[n] /\ s[q] = t[n]
          BY <1>1, <2>1, <2>4, <3>1, <3>3
        <5>2. n \in 1..Len(s) /\ n \in Nat /\ q \in Nat
          BY <1>1, <2>1, <3>3
        <5> HIDE DEF n
        <5>3. n # q
          BY <5>1
        <5>4. s[n] < s[q]
          BY <4>1, <5>2, <5>3 DEF Rising
        <5> QED BY <5>1, <5>4
      <4> QED BY <2>1, <3>3, <4>1
    <3>5. q \in 1..k /\ t[q] = t[n] /\ q \in 1..Len(t)
      <4>1. q \in 1..k
        BY <1>1, <2>1, <3>3, <3>4
      <4>2. s[q] = t[q] /\ q \in 1..Len(t)
        BY <1>1, <2>1, <4>1
      <4> QED BY <3>3, <4>1, <4>2
    <3>6. t[q] < t[n]
      BY <2>4, <3>4, <3>5 DEF Rising
    <3> QED BY <1>1, <2>4, <3>5, <3>6
  <2> QED BY <2>3, <2>4, <2>5, <2>6
<1> HIDE DEF Good
<1>4. Len(s) \in Good
  BY <1>1, <1>2, <1>3, InductiveSet
<1> QED BY <1>1, <1>4 DEF Good

\* The part of the chain of roster records that is here without a gap.
Lead(S) == {i \in S \cap OfKind(RosterOp) : Earlier(RosterOp, i) \subseteq S}

\* One author whose positions only rise uses none twice.
LEMMA KeptAll ==
  ASSUME TypeOK, ChainInv, NEW S \in SUBSET DOMAIN signed
  PROVE  Kept(S) = S \cap OfKind(RosterOp)
<1>1. ASSUME NEW i \in S \cap OfKind(RosterOp), NEW j \in S \cap OfKind(RosterOp),
             signed[i].seq = signed[j].seq, i # j
      PROVE  FALSE
  <2>1. signed[i].author = Creator /\ signed[j].author = Creator
    BY DEF ChainInv
  <2>2. i \in DOMAIN signed /\ j \in DOMAIN signed /\ i \in Nat /\ j \in Nat
        /\ signed[i].seq \in Nat /\ signed[j].seq \in Nat
    BY RecordTypes
  <2>3. CASE i < j
    BY <1>1, <2>1, <2>2, <2>3 DEF ChainInv
  <2>4. CASE j < i
    BY <1>1, <2>1, <2>2, <2>4 DEF ChainInv
  <2> QED BY <1>1, <2>2, <2>3, <2>4
<1>2. \A i \in S : ~Before(i, i)
  BY RecordTypes DEF Before
<1> QED BY <1>1, <1>2 DEF Kept, OfKind

\* The order of a chain is the chain, as far as it is here.
LEMMA OrderIsLead ==
  ASSUME TypeOK, ChainInv, NEW S \in SUBSET DOMAIN signed
  PROVE  /\ Elements(Order(S)) = Lead(S) /\ Rising(Order(S))
         /\ Order(S) \in Seq(Nat) /\ DOMAIN Order(S) = 1..Len(Order(S))
<1> DEFINE order == Order(S)
           L     == Len(order)
<1>1. Kept(S) = S \cap OfKind(RosterOp)
  BY KeptAll
<1>2. /\ order \in Seq(Graph(S)) /\ \A m, n \in 1..L : order[m] = order[n] => m = n
      /\ \A n \in 1..L : \A i \in Edges(Kept(S), order[n]) : \E m \in 1..(n - 1) : order[m] = i
  BY OrderLinear DEF Linear
<1>3. /\ L \in Nat /\ DOMAIN order = 1..L /\ \A n \in 1..L : order[n] \in Graph(S)
      /\ \A n \in 1..L : order[n] \in S \cap OfKind(RosterOp) /\ order[n] \in Nat \ {0}
  <2>1. L \in Nat /\ DOMAIN order = 1..L /\ \A n \in 1..L : order[n] \in Graph(S)
    BY <1>2
  <2>2. Graph(S) \subseteq S \cap OfKind(RosterOp)
    BY <1>1 DEF Graph
  <2>3. S \subseteq Nat \ {0}
    BY RecordTypes
  <2> QED BY <2>1, <2>2, <2>3
<1> HIDE DEF order, L
<1> DEFINE Good == {n \in Nat : \A k \in 1..L : k <= n =>
                      \A i \in Earlier(RosterOp, order[k]) : \E m \in 1..(k - 1) : order[m] = i}
<1>4. 0 \in Good
  OBVIOUS
<1>5. ASSUME NEW n \in Nat, n \in Good PROVE n + 1 \in Good
  <2> SUFFICES ASSUME NEW k \in 1..L, k <= n + 1, NEW i \in Earlier(RosterOp, order[k])
               PROVE  \E m \in 1..(k - 1) : order[m] = i
    OBVIOUS
  <2> DEFINE prior == Earlier(RosterOp, order[k])
  <2>1. prior \subseteq 0..order[k] /\ order[k] \in Nat
    BY <1>3, RecordTypes DEF Earlier, OfKind
  <2>2. PICK p \in prior : \A q \in prior : q <= p
    BY <2>1, GreatestNatural
  <2>3. p \in signed[order[k]].heads
    BY <1>3, <2>2 DEF ChainInv
  <2>4. PICK m \in 1..(k - 1) : order[m] = p
    BY <1>2, <2>3 DEF Edges, order, L
  <2>5. m \in 1..L /\ m <= n /\ i <= p /\ i \in Nat /\ p \in Nat
    BY <1>3, <2>1, <2>2, <2>4
  <2>6. CASE i = p
    BY <2>4, <2>6
  <2>7. CASE i < p
    <3>1. i \in Earlier(RosterOp, order[m])
      BY <2>4, <2>7 DEF Earlier
    <3>2. PICK q \in 1..(m - 1) : order[q] = i
      BY <1>5, <2>5, <3>1
    <3> QED BY <2>4, <3>2
  <2> QED BY <2>5, <2>6, <2>7
<1>6. L \in Good
  <2> HIDE DEF Good
  <2> QED BY <1>3, <1>4, <1>5, InductiveSet
<1>7. \A k \in 1..L : \A i \in Earlier(RosterOp, order[k]) : \E m \in 1..(k - 1) : order[m] = i
  BY <1>3, <1>6
<1> HIDE DEF Good
<1>8. Rising(order)
  <2> SUFFICES ASSUME NEW m \in 1..L, NEW n \in 1..L, m < n, ~(order[m] < order[n])
               PROVE  FALSE
    BY DEF Rising, L
  <2>1. order[m] # order[n]
    BY <1>2, <1>3 DEF order, L
  <2>2. order[n] \in Earlier(RosterOp, order[m])
    BY <1>3, <2>1 DEF Earlier
  <2>3. PICK k \in 1..(m - 1) : order[k] = order[n]
    BY <1>7, <2>2
  <2>4. k = n
    BY <1>2, <1>3, <2>3 DEF order, L
  <2> QED BY <1>3, <2>4
<1>9. Elements(order) \subseteq Lead(S)
  <2> SUFFICES ASSUME NEW n \in 1..L PROVE order[n] \in Lead(S)
    BY <1>3 DEF Elements
  <2>1. \A i \in Earlier(RosterOp, order[n]) : i \in S
    BY <1>3, <1>7
  <2> QED BY <1>3, <2>1 DEF Lead
<1>10. Lead(S) \subseteq Elements(order)
  <2> DEFINE rest == Lead(S) \ Elements(order)
  <2> SUFFICES ASSUME rest # {} PROVE FALSE
    OBVIOUS
  <2>1. PICK i \in rest : \A j \in rest : i <= j
    <3>1. rest \subseteq Nat
      BY RecordTypes DEF Lead
    <3> HIDE DEF rest
    <3> QED BY <3>1, LeastNatural
  <2>2. i \in DOMAIN signed /\ i \in S \cap OfKind(RosterOp)
    BY <2>1 DEF Lead
  <2>3. ASSUME NEW j \in Earlier(RosterOp, i) PROVE j \in Elements(order) /\ j \in Kept(S)
    <3>1. j \in S \cap OfKind(RosterOp) /\ j < i /\ j \in Nat /\ i \in Nat
      BY <2>1, RecordTypes DEF Lead, Earlier
    <3>2. Earlier(RosterOp, j) \subseteq Earlier(RosterOp, i)
      BY <3>1, RecordTypes DEF Earlier, OfKind
    <3>3. j \in Lead(S)
      BY <2>1, <3>1, <3>2 DEF Lead
    <3> QED BY <1>1, <2>1, <3>1, <3>3
  <2>4. signed[i].heads \subseteq Earlier(RosterOp, i)
    BY <2>2 DEF ChainInv
  <2>5. i \in Graph(S)
    BY <1>1, <2>2, <2>3, <2>4 DEF Graph
  <2>6. Edges(Kept(S), i) \subseteq Earlier(RosterOp, i)
    <3>1. signed[i].prev \in 0..(i - 1) /\ i \in Nat
      BY <2>2, RecordTypes
    <3> QED BY <1>1, <2>4, <3>1, RecordTypes DEF Edges, Earlier
  <2>7. i \in Elements(order)
    BY <2>3, <2>5, <2>6, OrderComplete DEF order
  <2> QED BY <2>1, <2>7
<1>11. order \in Seq(Nat)
  BY <1>2, <1>3 DEF order
<1> QED BY <1>3, <1>8, <1>9, <1>10, <1>11 DEF order, L

\* After each record of the order, the roles are as it leaves them.
LEMMA RolesStep ==
  ASSUME TypeOK, NEW S \in SUBSET DOMAIN signed
  PROVE  LET R == RosterOf(S)
         IN  \A n \in 1..Len(R.order) :
               LET now == R.roles[n]
                   r   == signed[R.order[n]]
               IN  R.roles[n + 1] = IF Applies(now, r) THEN Applied(now, r) ELSE now
<1> DEFINE order == Order(S)
           N     == Len(order)
           next(now, r) == IF Applies(now, r) THEN Applied(now, r) ELSE now
           Steps(h, n) == /\ h \in Seq([Devices -> Roles]) /\ Len(h) = n + 1
                          /\ \A k \in 1..n : h[k + 1] = next(h[k], signed[order[k]])
<1>1. N \in Nat /\ \A n \in 1..N : signed[order[n]] \in Record
  BY OrderIsHere, RecordTypes
<1>2. \E roles : IsHistory(roles, order, N)
  BY <1>1, HistoryExists
<1>3. PICK roles : /\ IsHistory(roles, order, N)
                   /\ RosterOf(S) = [order |-> order, roles |-> roles[N]]
  <2> DEFINE h == CHOOSE roles : IsHistory(roles, order, N)
  <2>1. RosterOf(S) = [order |-> order, roles |-> h[N]]
    BY DEF RosterOf, IsHistory
  <2>2. IsHistory(h, order, N)
    BY <1>2
  <2> QED BY <2>1, <2>2
<1> HIDE DEF order, N
<1> DEFINE Good == {n \in Nat : n <= N => Steps(roles[n], n)}
<1>4. 0 \in Good
  <2> DEFINE nobody == [d \in Devices |-> "absent"]
  <2>1. roles[0] = <<nobody>>
    BY <1>1, <1>3 DEF IsHistory
  <2>2. nobody \in [Devices -> Roles]
    BY DEF Roles
  <2> HIDE DEF nobody
  <2>3. roles[0] \in Seq([Devices -> Roles]) /\ Len(roles[0]) = 1
    BY <2>1, <2>2
  <2> QED BY <2>3
<1>5. ASSUME NEW n \in Nat, n \in Good PROVE n + 1 \in Good
  <2> SUFFICES ASSUME n + 1 <= N PROVE Steps(roles[n + 1], n + 1)
    OBVIOUS
  <2> DEFINE before == roles[n]
             now    == before[n + 1]
             r      == signed[order[n + 1]]
             after  == next(now, r)
             more   == roles[n + 1]
  <2>1. Steps(before, n)
    BY <1>1, <1>5
  <2>2. more = Append(before, after)
    <3>1. n + 1 \in 0..N /\ n + 1 # 0 /\ (n + 1) - 1 = n
      BY <1>1
    <3> QED BY <1>3, <3>1 DEF IsHistory
  <2>3. now \in [Devices -> Roles]
    BY <2>1
  <2>4. r \in Record
    BY <1>1
  <2>5. after \in [Devices -> Roles]
    <3> HIDE DEF now, r
    <3> QED BY <2>3, <2>4, AppliedRoles
  <2>6. after = next(before[n + 1], signed[order[n + 1]])
    OBVIOUS
  <2> HIDE DEF before, now, r, after, more, next
  <2>7. /\ more \in Seq([Devices -> Roles]) /\ Len(more) = n + 2
        /\ \A k \in 1..(n + 1) : more[k] = before[k]
        /\ more[n + 2] = after
    BY <2>1, <2>2, <2>5
  <2>8. ASSUME NEW k \in 1..(n + 1) PROVE more[k + 1] = next(more[k], signed[order[k]])
    <3>1. CASE k = n + 1
      BY <2>6, <2>7, <3>1
    <3>2. CASE k \in 1..n
      <4>1. k + 1 \in 1..(n + 1)
        BY <3>2
      <4> QED BY <2>1, <2>7, <3>2, <4>1
    <3> QED BY <3>1, <3>2
  <2> QED BY <2>7, <2>8 DEF more
<1> HIDE DEF Good
<1>6. N \in Good
  BY <1>1, <1>4, <1>5, InductiveSet
<1>7. Steps(roles[N], N)
  BY <1>1, <1>6 DEF Good
<1> QED BY <1>3, <1>7 DEF N

(***************************************************************************)
(* Two views of one chain: who holds more has the same order and roles, as *)
(* far as the other goes.                                                  *)
(***************************************************************************)

LEMMA SamePlace ==
  ASSUME TypeOK, ChainInv, NEW T \in SUBSET DOMAIN signed, NEW S \in SUBSET T
  PROVE  /\ Len(Order(S)) <= Len(Order(T))
         /\ \A n \in 1..Len(Order(S)) : Order(S)[n] = Order(T)[n]
<1>1. S \in SUBSET DOMAIN signed
  OBVIOUS
<1>2. /\ Order(S) \in Seq(Nat) /\ Rising(Order(S)) /\ Elements(Order(S)) = Lead(S)
      /\ Order(T) \in Seq(Nat) /\ Rising(Order(T)) /\ Elements(Order(T)) = Lead(T)
  BY <1>1, OrderIsLead
<1>3. Lead(S) \subseteq Lead(T)
  BY DEF Lead
<1>4. \A x \in Lead(T), y \in Lead(S) : x < y => x \in Lead(S)
  <2> SUFFICES ASSUME NEW x \in Lead(T), NEW y \in Lead(S), x < y PROVE x \in Lead(S)
    OBVIOUS
  <2>1. x \in Earlier(RosterOp, y) /\ x \in Nat /\ y \in Nat
    BY RecordTypes DEF Lead, Earlier
  <2>2. Earlier(RosterOp, x) \subseteq Earlier(RosterOp, y)
    BY <2>1, RecordTypes DEF Earlier, OfKind
  <2> QED BY <2>1, <2>2 DEF Lead
<1> DEFINE s == Order(S)
           t == Order(T)
<1>5. /\ s \in Seq(Nat) /\ t \in Seq(Nat) /\ Rising(s) /\ Rising(t)
      /\ Elements(s) \subseteq Elements(t)
      /\ \A x \in Elements(t), y \in Elements(s) : x < y => x \in Elements(s)
  BY <1>2, <1>3, <1>4
<1> HIDE DEF s, t
<1>6. Len(s) <= Len(t) /\ \A n \in 1..Len(s) : s[n] = t[n]
  BY <1>5, RisingPrefix
<1> QED BY <1>6 DEF s, t

LEMMA SameRoles ==
  ASSUME TypeOK, ChainInv, NEW T \in SUBSET DOMAIN signed, NEW S \in SUBSET T
  PROVE  \A n \in 1..(Len(Order(S)) + 1) : RosterOf(S).roles[n] = RosterOf(T).roles[n]
<1> DEFINE N == Len(Order(S))
           P == RosterOf(S)
           Q == RosterOf(T)
           next(now, r) == IF Applies(now, r) THEN Applied(now, r) ELSE now
           Good == {n \in Nat : n + 1 <= N + 1 => P.roles[n + 1] = Q.roles[n + 1]}
<1>1. S \in SUBSET DOMAIN signed
  OBVIOUS
<1>2. /\ P.order = Order(S) /\ Q.order = Order(T) /\ P.roles[1] = Q.roles[1]
      /\ N \in Nat /\ Len(Order(T)) \in Nat
  BY <1>1, RosterIs, OrderIsHere
<1>3. /\ \A n \in 1..N : P.roles[n + 1] = next(P.roles[n], signed[P.order[n]])
      /\ \A n \in 1..Len(Q.order) : Q.roles[n + 1] = next(Q.roles[n], signed[Q.order[n]])
  BY <1>1, <1>2, RolesStep
<1>4. N <= Len(Q.order) /\ \A n \in 1..N : P.order[n] = Q.order[n]
  BY <1>2, SamePlace
<1>5. Len(Q.order) \in Nat
  BY <1>2
<1> HIDE DEF N, P, Q, next
<1>6. 0 \in Good
  BY <1>2
<1>7. ASSUME NEW n \in Nat, n \in Good PROVE n + 1 \in Good
  <2> SUFFICES ASSUME n + 2 <= N + 1 PROVE P.roles[n + 2] = Q.roles[n + 2]
    OBVIOUS
  <2>1. n + 1 \in 1..N /\ n + 1 \in 1..Len(Q.order) /\ (n + 1) + 1 = n + 2
    BY <1>2, <1>4, <1>5
  <2>2. P.roles[n + 1] = Q.roles[n + 1]
    <3>1. n + 1 <= N + 1
      BY <1>2, <2>1
    <3> QED BY <1>7, <3>1
  <2>3. /\ P.roles[n + 2] = next(P.roles[n + 1], signed[P.order[n + 1]])
        /\ Q.roles[n + 2] = next(Q.roles[n + 1], signed[Q.order[n + 1]])
    BY <1>3, <2>1
  <2> QED BY <1>4, <2>1, <2>2, <2>3
<1> HIDE DEF Good
<1>8. Nat \subseteq Good
  BY <1>6, <1>7, InductiveSet
<1>9. ASSUME NEW n \in 1..(N + 1) PROVE P.roles[n] = Q.roles[n]
  <2>1. n - 1 \in Nat /\ (n - 1) + 1 = n /\ n <= N + 1
    BY <1>2
  <2>2. n - 1 \in Good
    BY <1>8, <2>1
  <2> QED BY <2>1, <2>2 DEF Good
<1> QED BY <1>9 DEF N, P, Q

\* With the heads it names a record has its author's role, in every view that has them.
LEMMA SameAuthority ==
  ASSUME TypeOK, ChainInv, NEW T \in SUBSET DOMAIN signed, NEW S \in SUBSET T,
         NEW i, signed[i].heads # {}, signed[i].heads \subseteq Lead(S)
  PROVE  Authority(RosterOf(S), i) = Authority(RosterOf(T), i)
<1> DEFINE P == RosterOf(S)
           Q == RosterOf(T)
           heads == signed[i].heads
           placesP == {n \in DOMAIN P.order : P.order[n] \in heads}
           placesQ == {n \in DOMAIN Q.order : Q.order[n] \in heads}
           latest(places) == CHOOSE n \in places : \A m \in places : m <= n
<1>1. S \in SUBSET DOMAIN signed
  OBVIOUS
<1>2. P.order = Order(S) /\ Q.order = Order(T)
  BY <1>1, RosterIs
<1>3. /\ Elements(P.order) = Lead(S) /\ Elements(Q.order) = Lead(T) /\ Rising(Q.order)
      /\ DOMAIN P.order = 1..Len(P.order) /\ DOMAIN Q.order = 1..Len(Q.order)
      /\ Len(P.order) \in Nat /\ Len(Q.order) \in Nat
      /\ \A n \in DOMAIN Q.order : Q.order[n] \in Nat
  BY <1>1, <1>2, OrderIsLead, OrderIsHere
<1>4. /\ Len(P.order) <= Len(Q.order)
      /\ \A n \in DOMAIN P.order : P.order[n] = Q.order[n]
  BY <1>2, <1>3, SamePlace
<1>5. Lead(S) \subseteq Lead(T)
  BY DEF Lead
<1>6. \A n \in 1..(Len(P.order) + 1) : P.roles[n] = Q.roles[n]
  BY <1>2, SameRoles
<1>7. /\ Authority(P, i) = P.roles[latest(placesP) + 1][signed[i].author]
      /\ Authority(Q, i) = Q.roles[latest(placesQ) + 1][signed[i].author]
  BY <1>3, <1>5 DEF Authority
<1> HIDE DEF P, Q, heads
<1>8. placesP = placesQ
  <2>1. placesP \subseteq placesQ
    BY <1>3, <1>4
  <2>2. ASSUME NEW n \in placesQ PROVE n \in placesP
    <3>1. PICK m \in DOMAIN P.order : P.order[m] = Q.order[n]
      BY <1>3 DEF Elements, heads
    <3>2. m \in DOMAIN Q.order /\ Q.order[m] = Q.order[n]
      BY <1>3, <1>4, <3>1
    <3>3. m = n
      <4>1. m < n => Q.order[m] < Q.order[n]
        BY <1>3, <3>2 DEF Rising
      <4>2. n < m => Q.order[n] < Q.order[m]
        BY <1>3, <3>2 DEF Rising
      <4> QED BY <1>3, <3>2, <4>1, <4>2
    <3> QED BY <3>1, <3>3
  <2> QED BY <2>1, <2>2
<1>9. latest(placesP) \in 1..Len(P.order)
  <2>1. placesP # {}
    <3>1. PICK j \in heads : TRUE
      BY DEF heads
    <3> QED BY <1>3, <3>1 DEF Elements, heads
  <2>2. placesP \subseteq 1..Len(P.order) /\ placesP \subseteq 0..Len(P.order)
    BY <1>3
  <2> HIDE DEF placesP
  <2>3. \E n \in placesP : \A m \in placesP : m <= n
    BY <1>3, <2>1, <2>2, GreatestNatural
  <2> QED BY <2>2, <2>3
<1> HIDE DEF placesP, placesQ, latest
<1>10. latest(placesP) + 1 \in 1..(Len(P.order) + 1)
  BY <1>3, <1>9
<1> QED BY <1>6, <1>7, <1>8, <1>10 DEF P, Q

\* Whoever has the heads and may write by one view may by every other.
LEMMA SameWrite ==
  ASSUME TypeOK, ChainInv, NEW T \in SUBSET DOMAIN signed, NEW S \in SUBSET T,
         NEW i \in DOMAIN signed, i # 1
  PROVE  MayWrite(RosterOf(S), i) <=> MayWrite(RosterOf(T), i) /\ signed[i].heads \subseteq Lead(S)
<1>1. signed[i].heads # {}
  BY DEF ChainInv
<1>2. S \in SUBSET DOMAIN signed
  OBVIOUS
<1>3. RosterOf(S).order = Order(S) /\ Elements(Order(S)) = Lead(S)
  BY <1>2, RosterIs, OrderIsLead
<1>4. CASE signed[i].heads \subseteq Lead(S)
  BY <1>1, <1>4, SameAuthority DEF MayWrite
<1>5. CASE ~(signed[i].heads \subseteq Lead(S))
  <2>1. Authority(RosterOf(S), i) = "absent"
    BY <1>3, <1>5 DEF Authority
  <2> QED BY <1>5, <2>1 DEF MayWrite, Writers
<1> QED BY <1>4, <1>5

\* What a view has, every larger one has.
LEMMA ViewGrows ==
  ASSUME TypeOK, ChainInv, NEW T \in SUBSET DOMAIN signed, NEW S \in SUBSET T, NEW d
  PROVE  /\ Epochs(S, RosterOf(S)) \subseteq Epochs(T, RosterOf(T))
         /\ KeysOf(S, RosterOf(S), d) \subseteq KeysOf(T, RosterOf(T), d)
         /\ Accepted(S, d) \subseteq Accepted(T, d)
<1> DEFINE P == RosterOf(S)
           Q == RosterOf(T)
<1>1. ASSUME NEW i \in S, signed[i].kind \notin RosterOp, MayWrite(P, i) PROVE MayWrite(Q, i)
  <2>1. i \in DOMAIN signed /\ i # 1
    BY <1>1 DEF ChainInv, RosterOp
  <2> QED BY <1>1, <2>1, SameWrite
<1> HIDE DEF P, Q
<1>2. Epochs(S, P) \subseteq Epochs(T, Q)
  BY <1>1 DEF Epochs, RosterOp
<1>3. \A e : Grants(S, P, e) \subseteq Grants(T, Q, e)
  BY <1>1 DEF Grants, RosterOp
<1>4. \A e : Recipients(S, P, e) \subseteq Recipients(T, Q, e)
  BY <1>3 DEF Recipients
<1>5. KeysOf(S, P, d) \subseteq KeysOf(T, Q, d)
  BY <1>2, <1>4 DEF KeysOf
<1>6. Accepted(S, d) \subseteq Accepted(T, d)
  <2>1. \A i \in S : signed[i].kind \in ItemOp /\ MayWrite(P, i) => MayWrite(Q, i)
    BY <1>1 DEF ItemOp, RosterOp
  <2> QED BY <1>5, <2>1 DEF Accepted, P, Q
<1> QED BY <1>2, <1>5, <1>6 DEF P, Q

LEMMA ChainAccepts == TypeOK /\ ChainInv => AcceptedStays
<1> SUFFICES ASSUME TypeOK, ChainInv, NEW d \in Devices, NEW i \in file[d]
             PROVE  Accepted(file[d] \ {i}, d) \subseteq Accepted(file[d], d)
  BY DEF AcceptedStays, AcceptedBy
<1>1. file[d] \in SUBSET DOMAIN signed
  BY HeldTypes
<1> DEFINE T == file[d]
           S == T \ {i}
<1>2. T \in SUBSET DOMAIN signed /\ S \in SUBSET T
  BY <1>1
<1> HIDE DEF T, S
<1>3. Accepted(S, d) \subseteq Accepted(T, d)
  BY <1>2, ViewGrows
<1> QED BY <1>3 DEF S, T

(***************************************************************************)
(* Roles.                                                                  *)
(***************************************************************************)

\* The order of a view is made of roster records, the first of which is the first of all.
LEMMA ChainOrder ==
  ASSUME TypeOK, ChainInv, NEW S \in SUBSET DOMAIN signed
  PROVE  LET R == RosterOf(S)
         IN  /\ R.order = Order(S) /\ DOMAIN R.order = 1..Len(R.order) /\ Len(R.order) \in Nat
             /\ Len(R.roles) = Len(R.order) + 1
             /\ R.roles[1] = [d \in Devices |-> "absent"]
             /\ \A n \in 1..(Len(R.order) + 1) : R.roles[n] \in [Devices -> Roles]
             /\ \A n \in 1..Len(R.order) :
                  /\ R.order[n] \in OfKind(RosterOp) /\ (R.order[n] = 1 <=> n = 1)
                  /\ signed[R.order[n]].kind \in RosterOp /\ signed[R.order[n]] \in Record
                  /\ R.order[n] \in Nat /\ R.order[n] \in S
<1> DEFINE R     == RosterOf(S)
           order == Order(S)
           roles == R.roles
           L     == Len(order)
<1>1. R.order = order /\ DOMAIN order = 1..L /\ L \in Nat
      /\ roles \in Seq([Devices -> Roles]) /\ Len(roles) = L + 1
      /\ roles[1] = [d \in Devices |-> "absent"]
  BY RosterIs, OrderIsHere
<1>2. Elements(order) = Lead(S) /\ Rising(order)
  BY OrderIsLead
<1> HIDE DEF R, order, roles, L
<1>3. \A n \in 1..(L + 1) : roles[n] \in [Devices -> Roles]
  BY <1>1
<1>4. ASSUME NEW n \in 1..L
      PROVE  /\ order[n] \in OfKind(RosterOp) /\ signed[order[n]].kind \in RosterOp
             /\ signed[order[n]] \in Record /\ order[n] \in Nat /\ order[n] \in Lead(S)
  <2>1. order[n] \in Lead(S)
    BY <1>1, <1>2 DEF Elements
  <2> QED BY <2>1, RecordTypes DEF Lead, OfKind
<1>5. ASSUME NEW n \in 1..L PROVE order[n] = 1 <=> n = 1
  <2>1. 1 \in OfKind(RosterOp) /\ (order[n] # 1 => 1 < order[n])
    <3>1. order[n] \in DOMAIN signed
      BY <1>4 DEF OfKind
    <3>2. 1 \in DOMAIN signed /\ order[n] >= 1
      BY <3>1, RecordTypes
    <3>3. signed[1].kind = "genesis"
      BY <3>2 DEF ChainInv
    <3> QED BY <1>4, <3>2, <3>3 DEF OfKind, RosterOp
  <2>2. 1 \in Elements(order)
    <3>1. CASE order[n] = 1
      BY <1>1, <3>1 DEF Elements
    <3>2. CASE order[n] # 1
      <4>1. 1 \in Earlier(RosterOp, order[n])
        BY <2>1, <3>2 DEF Earlier
      <4>2. 1 \in S /\ Earlier(RosterOp, 1) = {}
        <5>1. Earlier(RosterOp, 1) = {}
          BY RecordTypes DEF Earlier, OfKind
        <5> QED BY <1>4, <4>1, <5>1 DEF Lead
      <4> QED BY <1>2, <2>1, <4>2 DEF Lead
    <3> QED BY <3>1, <3>2
  <2>3. PICK k \in 1..L : order[k] = 1
    BY <1>1, <2>2 DEF Elements
  <2>4. k = 1
    <3>1. 1 < k => order[1] < order[k]
      BY <1>1, <1>2, <2>3 DEF Rising, L
    <3>2. 1 \in 1..L /\ order[1] >= 1
      <4>1. 1 \in 1..L
        BY <1>1
      <4>2. order[1] \in DOMAIN signed
        BY <1>4, <4>1 DEF OfKind
      <4> QED BY <4>1, <4>2, RecordTypes
    <3> QED BY <1>1, <1>4, <2>3, <3>1, <3>2
  <2>5. 1 < n => order[1] < order[n]
    BY <1>1, <1>2 DEF Rising, L
  <2> QED BY <1>1, <1>4, <2>3, <2>4, <2>5
<1> QED BY <1>1, <1>3, <1>4, <1>5 DEF R, order, roles, L, Lead

\* Nobody but the creator ever is an admin.
LEMMA OnlyAdmin ==
  ASSUME TypeOK, ChainInv, NEW S \in SUBSET DOMAIN signed, NEW m \in Devices, m # Creator
  PROVE  /\ \A n \in 1..(Len(RosterOf(S).order) + 1) : RosterOf(S).roles[n][m] # "admin"
         /\ RolesNow(RosterOf(S))[m] # "admin"
<1> DEFINE R     == RosterOf(S)
           order == R.order
           roles == R.roles
           L     == Len(order)
           Good  == {n \in Nat : n <= L => roles[n + 1][m] # "admin"}
<1>1. /\ L \in Nat /\ Len(roles) = L + 1 /\ roles[1] = [d \in Devices |-> "absent"]
      /\ \A n \in 1..L : order[n] \in OfKind(RosterOp)
  BY ChainOrder
<1>2. \A n \in 1..L : roles[n + 1] = IF Applies(roles[n], signed[order[n]])
                                     THEN Applied(roles[n], signed[order[n]]) ELSE roles[n]
  BY RolesStep
<1>3. RolesNow(R) = roles[L + 1]
  BY <1>1 DEF RolesNow
<1> HIDE DEF R, order, roles, L
<1>4. 0 \in Good
  BY <1>1
<1>5. ASSUME NEW n \in Nat, n \in Good PROVE n + 1 \in Good
  <2> SUFFICES ASSUME n + 1 <= L PROVE roles[n + 2][m] # "admin"
    OBVIOUS
  <2> DEFINE k == n + 1
             r == signed[order[k]]
  <2>1. k \in 1..L /\ k + 1 = n + 2 /\ n <= L
    BY <1>1
  <2>2. roles[k][m] # "admin"
    BY <1>5, <2>1
  <2>3. roles[k + 1] = IF Applies(roles[k], r) THEN Applied(roles[k], r) ELSE roles[k]
    BY <1>2, <2>1
  <2>4. r.subject = m => r.kind = "remove" \/ r.role # "admin"
    <3>1. order[k] \in OfKind(RosterOp)
      BY <1>1, <2>1
    <3> QED BY <3>1 DEF ChainInv
  <2> HIDE DEF k, r
  <2> QED BY <2>1, <2>2, <2>3, <2>4 DEF Applied
<1> HIDE DEF Good
<1>6. Nat \subseteq Good
  BY <1>4, <1>5, InductiveSet
<1>7. ASSUME NEW n \in 1..(L + 1) PROVE roles[n][m] # "admin"
  <2>1. n - 1 \in Nat /\ n - 1 <= L /\ (n - 1) + 1 = n
    BY <1>1
  <2>2. n - 1 \in Good
    BY <1>6, <2>1
  <2> QED BY <2>1, <2>2 DEF Good
<1>8. L + 1 \in 1..(L + 1)
  BY <1>1
<1> QED BY <1>3, <1>7, <1>8 DEF R, order, roles, L

\* Among the first n records of an order there is one of a kind about a device.
Told(order, n, kind, m) ==
  \E k \in 1..n : signed[order[k]].kind = kind /\ signed[order[k]].subject = m

\* Roles after n records that all applied: the creator is the admin; others are absent
\* until they are added, and removed once they are.
LEMMA RolesAre ==
  ASSUME TypeOK, ChainInv, NEW S \in SUBSET DOMAIN signed,
         NEW N \in 0..Len(RosterOf(S).order),
         \A n \in 1..N : Applies(RosterOf(S).roles[n], signed[RosterOf(S).order[n]])
  PROVE  LET R == RosterOf(S)
         IN  /\ N # 0 => R.roles[N + 1][Creator] = "admin"
             /\ \A m \in Devices \ {Creator} :
                  /\ R.roles[N + 1][m] = "absent" <=> ~Told(R.order, N, "add", m)
                  /\ R.roles[N + 1][m] = "removed" <=> Told(R.order, N, "remove", m)
<1> DEFINE R     == RosterOf(S)
           order == R.order
           roles == R.roles
           L     == Len(order)
           Fits(n) ==
             /\ n # 0 => roles[n + 1][Creator] = "admin"
             /\ \A m \in Devices \ {Creator} :
                  /\ roles[n + 1][m] = "absent" <=> ~Told(order, n, "add", m)
                  /\ roles[n + 1][m] = "removed" <=> Told(order, n, "remove", m)
           Good  == {n \in Nat : n <= N => Fits(n)}
<1>1. /\ L \in Nat /\ roles[1] = [d \in Devices |-> "absent"]
      /\ \A n \in 1..L : order[n] \in OfKind(RosterOp) /\ (order[n] = 1 <=> n = 1)
      /\ \A n \in 1..(L + 1) : roles[n] \in [Devices -> Roles]
  BY ChainOrder
<1>2. \A n \in 1..L : roles[n + 1] = IF Applies(roles[n], signed[order[n]])
                                     THEN Applied(roles[n], signed[order[n]]) ELSE roles[n]
  BY RolesStep
<1>3. \A n \in 1..N : Applies(roles[n], signed[order[n]])
  OBVIOUS
<1>4. Creator \in Devices /\ N \in Nat /\ N <= L
  BY <1>1, SharedAssumption
<1> HIDE DEF R, order, roles, L
<1>5. 0 \in Good
  <2>1. \A kind, m : ~Told(order, 0, kind, m)
    BY DEF Told
  <2>2. \A m \in Devices : roles[0 + 1][m] = "absent"
    BY <1>1
  <2> QED BY <2>1, <2>2
<1>6. ASSUME NEW n \in Nat, n \in Good PROVE n + 1 \in Good
  <2> SUFFICES ASSUME n + 1 <= N PROVE Fits(n + 1)
    OBVIOUS
  <2> DEFINE k == n + 1
             r == signed[order[k]]
             now == roles[k]
             after == roles[k + 1]
  <2>1. k \in 1..L /\ k \in 1..N /\ n <= N /\ k \in Nat /\ k # 0
    BY <1>1, <1>4
  <2>2. /\ n # 0 => now[Creator] = "admin"
        /\ \A m \in Devices \ {Creator} :
             /\ now[m] = "absent" <=> ~Told(order, n, "add", m)
             /\ now[m] = "removed" <=> Told(order, n, "remove", m)
    BY <1>6, <2>1
  <2>3. after = Applied(now, r) /\ Applies(now, r)
    BY <1>2, <1>3, <2>1
  <2>4. \A kind, m : Told(order, k, kind, m) <=>
          Told(order, n, kind, m) \/ (r.kind = kind /\ r.subject = m)
    <3>1. 1..k = (1..n) \cup {k}
      BY <2>1
    <3> QED BY <3>1 DEF Told
  <2>5. /\ r.kind \in RosterOp /\ (r.kind = "genesis" <=> k = 1)
        /\ IF k = 1 THEN r.subject = Creator /\ r.role = "admin"
           ELSE r.subject # Creator
    <3>1. order[k] \in OfKind(RosterOp) /\ (order[k] = 1 <=> k = 1)
      BY <1>1, <2>1
    <3>2. order[k] \in DOMAIN signed /\ signed[order[k]].kind \in RosterOp
      BY <3>1 DEF OfKind
    <3> QED BY <3>1, <3>2 DEF ChainInv
  <2>6. r.subject \in Devices /\ r.role \in Members
    <3>1. signed[order[k]] \in Record
      BY <1>1, <2>1, RecordTypes DEF OfKind
    <3> QED BY <3>1 DEF Record
  <2>7. k = 1 <=> n = 0
    OBVIOUS
  <2> HIDE DEF k, r, now, after
  <2>8. after[Creator] = "admin"
    BY <1>4, <2>2, <2>3, <2>5, <2>7 DEF Applied
  <2>9. ASSUME NEW m \in Devices \ {Creator}
        PROVE  /\ after[m] = "absent" <=> ~Told(order, k, "add", m)
               /\ after[m] = "removed" <=> Told(order, k, "remove", m)
    <3>1. CASE r.subject # m
      <4>1. after[m] = now[m]
        BY <2>3, <3>1 DEF Applied
      <4> QED BY <2>2, <2>4, <3>1, <4>1
    <3>2. CASE r.subject = m
      <4>1. k # 1 /\ after[m] = IF r.kind = "remove" THEN "removed" ELSE r.role
        BY <2>3, <2>5, <3>2 DEF Applied
      <4>2. CASE r.kind = "add"
        <5>1. now[m] = "absent" /\ after[m] \in Members
          BY <2>3, <2>6, <3>2, <4>1, <4>2 DEF Applies
        <5> QED BY <2>2, <2>4, <3>2, <4>2, <5>1 DEF Members
      <4>3. CASE r.kind = "remove"
        <5>1. now[m] \in Members /\ after[m] = "removed"
          BY <2>3, <3>2, <4>1, <4>3 DEF Applies
        <5> QED BY <2>2, <2>4, <3>2, <4>3, <5>1 DEF Members
      <4>4. CASE r.kind = "role"
        <5>1. now[m] \in Members /\ after[m] \in Members
          BY <2>3, <2>6, <3>2, <4>1, <4>4 DEF Applies
        <5> QED BY <2>2, <2>4, <4>4, <5>1 DEF Members
      <4> QED BY <2>5, <4>1, <4>2, <4>3, <4>4 DEF RosterOp
    <3> QED BY <3>1, <3>2
  <2>10. k + 1 = (n + 1) + 1 /\ k = n + 1
    BY DEF k
  <2> QED BY <2>8, <2>9, <2>10 DEF after
<1> HIDE DEF Good
<1>7. N \in Good
  BY <1>4, <1>5, <1>6, InductiveSet
<1>8. Fits(N)
  BY <1>4, <1>7 DEF Good
<1> QED BY <1>8 DEF R, order, roles

\* Every record that a view orders applies, for it applied among all that are signed.
LEMMA AllApply ==
  ASSUME TypeOK, ChainInv, AppliesInv, NEW S \in SUBSET DOMAIN signed
  PROVE  LET R == RosterOf(S)
         IN  \A n \in 1..Len(R.order) : Applies(R.roles[n], signed[R.order[n]])
<1> DEFINE T == DOMAIN signed
           P == RosterOf(S)
           Q == RosterOf(T)
<1>1. T \in SUBSET DOMAIN signed /\ S \in SUBSET T /\ T \in {DOMAIN signed}
  OBVIOUS
<1>2. \A n \in DOMAIN Q.order : Applies(Q.roles[n], signed[Q.order[n]])
  BY DEF AppliesInv
<1> HIDE DEF T
<1>3. /\ P.order = Order(S) /\ Q.order = Order(T)
      /\ DOMAIN Q.order = 1..Len(Q.order) /\ Len(Q.order) \in Nat /\ Len(P.order) \in Nat
  BY <1>1, RosterIs, OrderIsHere
<1>4. /\ Len(Order(S)) <= Len(Order(T))
      /\ \A n \in 1..Len(Order(S)) : Order(S)[n] = Order(T)[n]
  BY <1>1, SamePlace
<1>5. \A n \in 1..(Len(Order(S)) + 1) : P.roles[n] = Q.roles[n]
  BY <1>1, SameRoles
<1> HIDE DEF P, Q
<1>6. ASSUME NEW n \in 1..Len(P.order) PROVE Applies(P.roles[n], signed[P.order[n]])
  <2>1. n \in DOMAIN Q.order /\ n \in 1..(Len(Order(S)) + 1)
    BY <1>3, <1>4
  <2> QED BY <1>2, <1>3, <1>4, <1>5, <2>1
<1> QED BY <1>6 DEF P

\* What a view tells of a device's role.
LEMMA RolesToday ==
  ASSUME TypeOK, ChainInv, AppliesInv, NEW S \in SUBSET DOMAIN signed
  PROVE  LET roles == RolesNow(RosterOf(S))
         IN  /\ roles \in [Devices -> Roles]
             /\ Lead(S) # {} => roles[Creator] = "admin"
             /\ Lead(S) = {} => \A m \in Devices : roles[m] = "absent"
             /\ \A m \in Devices \ {Creator} :
                  /\ roles[m] = "absent" <=> Lead(S) \cap About("add", m) = {}
                  /\ roles[m] = "removed" <=> Lead(S) \cap About("remove", m) # {}
<1> DEFINE R == RosterOf(S)
           order == R.order
           L == Len(order)
<1>1. /\ order = Order(S) /\ DOMAIN order = 1..L /\ L \in Nat /\ Len(R.roles) = L + 1
      /\ R.roles[1] = [d \in Devices |-> "absent"]
      /\ \A n \in 1..(L + 1) : R.roles[n] \in [Devices -> Roles]
  BY ChainOrder
<1>2. Elements(order) = Lead(S)
  BY <1>1, OrderIsLead
<1>3. \A n \in 1..L : Applies(R.roles[n], signed[order[n]])
  BY AllApply
<1>4. L \in 0..Len(RosterOf(S).order)
  BY <1>1
<1>5. /\ L # 0 => R.roles[L + 1][Creator] = "admin"
      /\ \A m \in Devices \ {Creator} :
           /\ R.roles[L + 1][m] = "absent" <=> ~Told(order, L, "add", m)
           /\ R.roles[L + 1][m] = "removed" <=> Told(order, L, "remove", m)
  BY <1>3, <1>4, RolesAre
<1>6. RolesNow(R) = R.roles[L + 1]
  BY <1>1 DEF RolesNow
<1> HIDE DEF R, order, L
<1>7. Lead(S) # {} <=> L # 0
  <2>1. ASSUME L # 0 PROVE Lead(S) # {}
    <3>1. 1 \in DOMAIN order
      BY <1>1, <2>1
    <3>2. order[1] \in Elements(order)
      BY <3>1 DEF Elements
    <3> QED BY <1>2, <3>2
  <2>2. ASSUME L = 0 PROVE Lead(S) = {}
    <3>1. DOMAIN order = {}
      BY <1>1, <2>2
    <3> QED BY <1>2, <3>1 DEF Elements
  <2> QED BY <2>1, <2>2
<1>8. \A kind, m : Told(order, L, kind, m) <=> Lead(S) \cap About(kind, m) # {}
  <2>1. \A i \in Lead(S) : i \in DOMAIN signed
    BY DEF Lead
  <2> QED BY <1>1, <1>2, <2>1 DEF Told, Elements, About, OfKind
<1>9. L + 1 \in 1..(L + 1)
  BY <1>1
<1>10. L = 0 => R.roles[L + 1] = [d \in Devices |-> "absent"]
  BY <1>1
<1> QED BY <1>1, <1>5, <1>6, <1>7, <1>8, <1>9, <1>10 DEF R

\* A new record names the last roster record that is here.
LEMMA HeadsAre ==
  ASSUME TypeOK, ChainInv, AppliesInv, NEW S \in SUBSET DOMAIN signed
  PROVE  HeadsOf(S, RosterOf(S)) = {j \in Lead(S) : \A k \in Lead(S) : k <= j}
<1> DEFINE R == RosterOf(S)
           order == R.order
           L == Len(order)
           changed == {m \in DOMAIN order : R.roles[m + 1] # R.roles[m]}
           applied == {order[n] : n \in changed}
           named == UNION {Edges(Kept(S), i) : i \in applied}
<1>1. /\ order = Order(S) /\ DOMAIN order = 1..L /\ L \in Nat
      /\ R.roles[1] = [d \in Devices |-> "absent"]
      /\ \A n \in 1..(L + 1) : R.roles[n] \in [Devices -> Roles]
      /\ \A n \in 1..L : order[n] \in OfKind(RosterOp) /\ (order[n] = 1 <=> n = 1)
                           /\ signed[order[n]] \in Record
  BY ChainOrder
<1>2. Elements(order) = Lead(S)
  BY <1>1, OrderIsLead
<1>3. \A n \in 1..L : Applies(R.roles[n], signed[order[n]])
  BY AllApply
<1>4. \A n \in 1..L : R.roles[n + 1] = IF Applies(R.roles[n], signed[order[n]])
                                       THEN Applied(R.roles[n], signed[order[n]])
                                       ELSE R.roles[n]
  BY RolesStep
<1>5. HeadsOf(S, R) = applied \ named
  BY DEF HeadsOf
<1> HIDE DEF R, order, L
<1>6. ASSUME NEW n \in 1..L PROVE R.roles[n + 1] # R.roles[n]
  <2> DEFINE r == signed[order[n]]
             now == R.roles[n]
  <2>1. order[n] \in DOMAIN signed /\ (r.kind = "genesis" <=> n = 1)
        /\ (n = 1 => r.subject = Creator /\ r.role = "admin")
    <3>1. order[n] \in OfKind(RosterOp) /\ (order[n] = 1 <=> n = 1)
      BY <1>1
    <3> QED BY <3>1 DEF ChainInv, OfKind
  <2>2. r.subject \in Devices /\ r.role \in Members
    <3>1. r \in Record
      BY <1>1
    <3> QED BY <3>1 DEF Record
  <2>3. Applied(now, r)[r.subject] = IF r.kind = "remove" THEN "removed" ELSE r.role
    BY <2>2 DEF Applied
  <2>4. Applies(now, r) /\ R.roles[n + 1] = Applied(now, r)
    BY <1>3, <1>4
  <2>5. n = 1 => now[r.subject] = "absent"
    BY <1>1, <2>2
  <2> HIDE DEF r, now
  <2>6. Applied(now, r)[r.subject] # now[r.subject]
    BY <2>1, <2>2, <2>3, <2>4, <2>5 DEF Applies, Members
  <2> QED BY <2>4, <2>6 DEF now
<1>7. applied = Lead(S)
  BY <1>1, <1>2, <1>6 DEF Elements
<1>8. ASSUME NEW j \in Lead(S) PROVE (\A i \in Lead(S) : j \notin Edges(Kept(S), i))
                                      <=> \A k \in Lead(S) : k <= j
  <2>1. Lead(S) \subseteq OfKind(RosterOp) /\ OfKind(RosterOp) \subseteq DOMAIN signed
        /\ DOMAIN signed \subseteq Nat
    BY RecordTypes DEF Lead, OfKind
  <2>2. ASSUME NEW k \in Lead(S), ~(k <= j)
        PROVE  \E i \in Lead(S) : j \in Edges(Kept(S), i)
    <3> DEFINE above == {i \in Lead(S) : j < i}
    <3>1. PICK i \in above : \A q \in above : i <= q
      <4>1. above \subseteq Nat /\ above # {}
        BY <2>1, <2>2
      <4> HIDE DEF above
      <4> QED BY <4>1, LeastNatural
    <3>2. i \in Lead(S) /\ i \in OfKind(RosterOp) /\ j \in Earlier(RosterOp, i)
      BY <2>1 DEF Earlier
    <3>3. ASSUME NEW q \in Earlier(RosterOp, i) PROVE q <= j
      <4>1. q \in OfKind(RosterOp) /\ q < i /\ q \in S /\ q \in Nat /\ i \in Nat
        BY <2>1, <3>2 DEF Lead, Earlier
      <4>2. Earlier(RosterOp, q) \subseteq Earlier(RosterOp, i)
        BY <2>1, <4>1 DEF Earlier
      <4>3. q \in Lead(S)
        BY <3>2, <4>1, <4>2 DEF Lead
      <4> QED BY <2>1, <3>1, <4>1, <4>3
    <3>4. j \in signed[i].heads
      BY <3>2, <3>3 DEF ChainInv
    <3> QED BY <3>2, <3>4 DEF Edges
  <2>3. ASSUME NEW i \in Lead(S), j \in Edges(Kept(S), i) PROVE j < i
    <3>1. signed[i].heads \subseteq 0..(i - 1) /\ signed[i].prev \in 0..(i - 1) /\ i \in Nat
      BY <2>1, RecordTypes
    <3> QED BY <2>3, <3>1 DEF Edges
  <2> QED BY <2>1, <2>2, <2>3
<1> HIDE DEF applied, changed
<1> QED BY <1>5, <1>7, <1>8 DEF R

(***************************************************************************)
(* What the admin signed counts with everybody who has what it names.      *)
(***************************************************************************)

LEMMA CreatorWrites ==
  ASSUME TypeOK, ChainInv, AppliesInv, NEW S \in SUBSET DOMAIN signed,
         NEW i \in DOMAIN signed, NEW h, signed[i].heads = {h}, signed[i].author = Creator
  PROVE  MayWrite(RosterOf(S), i) <=> h \in Lead(S)
<1> DEFINE R == RosterOf(S)
           L == Len(R.order)
           places == {n \in DOMAIN R.order : R.order[n] \in {h}}
           latest == CHOOSE n \in places : \A m \in places : m <= n
<1>1. R.order = Order(S) /\ DOMAIN R.order = 1..L /\ L \in Nat
  BY ChainOrder
<1>2. Elements(R.order) = Lead(S)
  BY <1>1, OrderIsLead
<1>3. Authority(R, i) = IF {h} \subseteq Elements(R.order)
                        THEN R.roles[latest + 1][Creator] ELSE "absent"
  BY DEF Authority
<1>4. \A n \in 1..L : Applies(R.roles[n], signed[R.order[n]])
  BY AllApply
<1>5. CASE h \notin Lead(S)
  BY <1>2, <1>3, <1>5 DEF MayWrite, Writers
<1>6. CASE h \in Lead(S)
  <2>1. places # {} /\ places \subseteq 0..L
    BY <1>1, <1>2, <1>6 DEF Elements
  <2>2. \E n \in places : \A m \in places : m <= n
    <3> HIDE DEF places, L
    <3> QED BY <1>1, <2>1, GreatestNatural
  <2>3. latest \in places
    <3> HIDE DEF places
    <3> QED BY <2>2
  <2>4. latest \in 1..L
    BY <1>1, <2>3
  <2> HIDE DEF latest
  <2>5. latest \in 0..Len(RosterOf(S).order) /\ latest # 0
    BY <1>1, <2>4
  <2>6. \A n \in 1..latest : Applies(R.roles[n], signed[R.order[n]])
    BY <1>1, <1>4, <2>4
  <2>7. R.roles[latest + 1][Creator] = "admin"
    BY <2>5, <2>6, RolesAre
  <2> QED BY <1>2, <1>3, <1>6, <2>7 DEF MayWrite, Writers
<1> QED BY <1>5, <1>6

\* The epochs of a view: those whose removal is here too.
LEMMA EpochsAre ==
  ASSUME TypeOK, ChainInv, AppliesInv, EpochsInv, NEW S \in SUBSET DOMAIN signed
  PROVE  Epochs(S, RosterOf(S)) = {e \in S \cap OfKind({"new"}) : e - 1 \in Lead(S)}
<1>1. ASSUME NEW e \in S, signed[e].kind = "new"
      PROVE  MayWrite(RosterOf(S), e) <=> e - 1 \in Lead(S)
  <2>1. e \in OfKind({"new"}) /\ e \in DOMAIN signed
    BY <1>1 DEF OfKind
  <2>2. signed[e].heads = {e - 1} /\ signed[e].author = Creator
    BY <2>1 DEF EpochsInv
  <2> QED BY <2>1, <2>2, CreatorWrites
<1>2. S \subseteq DOMAIN signed
  OBVIOUS
<1> QED BY <1>1, <1>2 DEF Epochs, OfKind

\* A member has every key of its view: it was wrapped to it when it was minted, or
\* granted when the member was added.
LEMMA MemberHasKeys ==
  ASSUME TypeOK, ChainInv, AppliesInv, MembersInv, EpochsInv, GrantsInv,
         NEW d \in Devices, Joined(d), NEW S \in SUBSET DOMAIN signed, file[d] \subseteq S,
         RolesNow(RosterOf(S))[d] \in Members
  PROVE  KeysOf(S, RosterOf(S), d) = Epochs(S, RosterOf(S))
<1> DEFINE R == RosterOf(S)
<1> SUFFICES ASSUME NEW e \in Epochs(S, R) PROVE d \in Recipients(S, R, e)
  BY DEF KeysOf
<1>1. e \in S /\ e \in OfKind({"new"}) /\ e - 1 \in Lead(S) /\ e \in Nat
  BY EpochsAre, RecordTypes DEF OfKind
<1>2. signed[e].to = MembersAt(e)
  BY <1>1 DEF EpochsInv
<1>3. CASE d = Creator
  BY <1>2, <1>3 DEF Recipients, MembersAt
<1>4. CASE d # Creator
  <2>1. PICK a \in Lead(S) : a \in About("add", d)
    BY <1>4, RolesToday DEF Members
  <2>2. Lead(S) \cap About("remove", d) = {}
    BY <1>4, RolesToday DEF Members
  <2>3. a \in DOMAIN signed /\ a \in Nat /\ signed[a].kind = "add" /\ a \in OfKind({"add"})
    BY <2>1, RecordTypes DEF About, OfKind
  <2>4. CASE a < e
    <3>1. ASSUME NEW j \in About("remove", d), ~(e <= j) PROVE FALSE
      <4>1. j \in OfKind(RosterOp) /\ j \in Nat /\ j <= e - 1
        BY <1>1, <3>1, RecordTypes DEF About, OfKind, RosterOp
      <4>2. j \in Lead(S)
        <5>1. CASE j = e - 1
          BY <1>1, <5>1
        <5>2. CASE j < e - 1
          <6>1. j \in Earlier(RosterOp, e - 1)
            BY <4>1, <5>2 DEF Earlier
          <6>2. Earlier(RosterOp, j) \subseteq Earlier(RosterOp, e - 1)
            BY <1>1, <4>1, <5>2, RecordTypes DEF Earlier, OfKind
          <6> QED BY <1>1, <4>1, <6>1, <6>2 DEF Lead
        <5> QED BY <1>1, <4>1, <5>1, <5>2
      <4> QED BY <2>2, <3>1, <4>2
    <3>2. d \in MembersAt(e)
      BY <2>1, <2>4, <3>1 DEF MembersAt
    <3> QED BY <1>2, <3>2 DEF Recipients
  <2>5. CASE ~(a < e)
    <3>1. e < a
      BY <1>1, <2>3, <2>5 DEF OfKind
    <3>2. e \in Earlier({"new"}, a)
      BY <1>1, <3>1 DEF Earlier
    <3>3. PICK g \in file[d] \cap OfKind({"grant"}) :
            signed[g].heads = {a} /\ signed[g].epoch = e /\ signed[g].to = {d}
      <4>1. file[d] \in Replicas(d) \ {{}} /\ d \in Devices \ {Creator}
        BY <1>4 DEF Joined, Replicas
      <4>2. \A b \in About("add", d) : \A f \in Earlier({"new"}, b) :
              \E g \in file[d] \cap OfKind({"grant"}) :
                signed[g].heads = {b} /\ signed[g].epoch = f /\ signed[g].to = {d}
        <5> DEFINE Has(Z) ==
              /\ About("add", d) # {}
              /\ \A b \in About("add", d) : \A f \in Earlier({"new"}, b) :
                   \E h \in Z \cap OfKind({"grant"}) :
                     signed[h].heads = {b} /\ signed[h].epoch = f /\ signed[h].to = {d}
        <5>1. \A Z \in Replicas(d) \ {{}} : Has(Z)
          BY <4>1 DEF GrantsInv
        <5> HIDE DEF Has
        <5>2. Has(file[d])
          BY <4>1, <5>1
        <5> QED BY <5>2 DEF Has
      <4> QED BY <2>1, <3>2, <4>2
    <3>4. signed[g].author = Creator /\ g \in DOMAIN signed /\ signed[g].kind = "grant"
      BY <3>3 DEF EpochsInv, OfKind
    <3>5. MayWrite(R, g)
      BY <2>1, <3>3, <3>4, CreatorWrites
    <3> QED BY <3>3, <3>4, <3>5 DEF Recipients, Grants
  <2> QED BY <2>4, <2>5
<1> QED BY <1>3, <1>4

\* Members with the same records accept the same, and so are shown the same.
LEMMA KeysAgree ==
  TypeOK /\ ChainInv /\ AppliesInv /\ MembersInv /\ EpochsInv /\ GrantsInv => MembersAgree
<1> SUFFICES ASSUME TypeOK, ChainInv, AppliesInv, MembersInv, EpochsInv, GrantsInv,
                    NEW d \in Devices, NEW e \in Devices, Joined(d), file[d] = file[e],
                    RolesNow(RosterOf(file[d]))[d] \in Members,
                    RolesNow(RosterOf(file[d]))[e] \in Members
             PROVE  Accepted(file[d], d) = Accepted(file[d], e)
  BY DEF MembersAgree
<1> DEFINE S == file[d]
           R == RosterOf(S)
<1>1. S \in SUBSET DOMAIN signed /\ Joined(e) /\ file[d] \subseteq S /\ file[e] \subseteq S
  BY HeldTypes DEF Joined
<1> HIDE DEF S
<1>2. RolesNow(R)[d] \in Members /\ RolesNow(R)[e] \in Members
  BY DEF S
<1>3. KeysOf(S, R, d) = Epochs(S, R) /\ KeysOf(S, R, e) = Epochs(S, R)
  BY <1>1, <1>2, MemberHasKeys
<1>4. Accepted(S, d) = Accepted(S, e)
  BY <1>3 DEF Accepted
<1> QED BY <1>4 DEF S

\* The key a writer writes under is of its last removal's epoch or a later one, which
\* the removed device is not among the members of, nor was it granted.
LEMMA RotatedOut ==
  TypeOK /\ ChainInv /\ AppliesInv /\ MembersInv /\ EpochsInv /\ GrantsInv
    => RotationKeepsOut
<1> SUFFICES ASSUME TypeOK, ChainInv, AppliesInv, MembersInv, EpochsInv, GrantsInv,
                    NEW d \in Devices, Joined(d),
                    RolesNow(RosterOf(Holds(d)))[d] \in Writers,
                    NEW j \in Holds(d), signed[j].kind = "remove",
                    j + 1 \in Epochs(Holds(d), RosterOf(Holds(d)))
             PROVE  signed[j].subject \notin
                      Readers(Current(Holds(d), RosterOf(Holds(d)), d))
  BY DEF RotationKeepsOut
<1> DEFINE S == Holds(d)
           R == RosterOf(S)
           c == Current(S, R, d)
           m == signed[j].subject
<1>1. S \in SUBSET DOMAIN signed /\ file[d] \subseteq S
  BY HeldTypes DEF Holds
<1> HIDE DEF S
<1>2. RolesNow(R)[d] \in Members /\ j \in S /\ j + 1 \in Epochs(S, R)
  BY DEF S, Writers, Members
<1>3. KeysOf(S, R, d) = Epochs(S, R)
  BY <1>1, <1>2, MemberHasKeys
<1>4. c \in KeysOf(S, R, d)
  BY <1>1, <1>2, <1>3, CurrentIsKey
<1>5. \A f \in KeysOf(S, R, d) : signed[f].height <= signed[c].height
  BY <1>1, <1>2, <1>3, CurrentIsKey
<1>6. /\ c \in OfKind({"new"}) /\ j + 1 \in OfKind({"new"}) /\ c \in Nat /\ j \in Nat
      /\ j \in DOMAIN signed /\ j \in About("remove", m) /\ j \in OfKind({"remove"})
  BY <1>1, <1>2, <1>3, <1>4, EpochsAre, RecordTypes DEF OfKind, About
<1> HIDE DEF c, R
<1>7. j < c
  <2>1. signed[j + 1].height <= signed[c].height
    BY <1>2, <1>3, <1>5
  <2>2. c < j + 1 => signed[c].height < signed[j + 1].height
    BY <1>6 DEF EpochsInv
  <2>3. signed[c].height \in Nat /\ signed[j + 1].height \in Nat
    BY <1>6, RecordTypes DEF OfKind
  <2> QED BY <1>6, <2>1, <2>2, <2>3
<1>8. m \notin signed[c].to
  <2>1. signed[c].to = MembersAt(c)
    BY <1>6 DEF EpochsInv
  <2>2. m # Creator
    <3>1. j \in OfKind(RosterOp) /\ j # 1
      BY <1>6 DEF OfKind, RosterOp, ChainInv
    <3> QED BY <3>1 DEF ChainInv
  <2> QED BY <1>6, <1>7, <2>1, <2>2 DEF MembersAt
<1>9. ASSUME NEW g \in DOMAIN signed, signed[g].kind = "grant", signed[g].epoch = c,
             m \in signed[g].to
      PROVE  FALSE
  <2>1. PICK a \in OfKind({"add"}) : c < a /\ signed[g].to = {signed[a].subject}
    BY <1>9 DEF EpochsInv, OfKind
  <2>2. PICK b \in About("add", m) : b < j
    BY <1>6 DEF MembersInv
  <2>3. a = b
    BY <1>9, <2>1, <2>2 DEF MembersInv, About
  <2>4. a \in Nat
    BY <2>1, RecordTypes DEF OfKind
  <2> QED BY <1>6, <1>7, <2>1, <2>2, <2>3, <2>4
<1>10. m \notin Readers(c)
  BY <1>8, <1>9 DEF Readers
<1> QED BY <1>10 DEF c, R, S

(***************************************************************************)
(* What is signed only grows, and what holds of each record goes on to     *)
(* hold: only what is new is to be shown of a step.                        *)
(***************************************************************************)

Grows == Extended /\ Len(signed) <= Len(signed')

NewRecords == (Len(signed) + 1)..Len(signed')

LEMMA GrownRecords ==
  ASSUME TypeOK, TypeOK', Grows
  PROVE  /\ DOMAIN signed \subseteq DOMAIN signed' /\ DOMAIN signed' \subseteq Nat
         /\ DOMAIN signed' = DOMAIN signed \cup NewRecords
         /\ \A i \in DOMAIN signed : signed'[i] = signed[i] /\ i <= Len(signed)
         /\ \A i \in NewRecords : i \notin DOMAIN signed /\ Len(signed) < i /\ i \in Nat \ {0}
         /\ Len(signed) \in Nat /\ DOMAIN signed = 1..Len(signed)
<1>1. Len(signed) \in Nat /\ DOMAIN signed = 1..Len(signed)
  BY RecordTypes
<1>2. Len(signed') \in Nat /\ DOMAIN signed' = 1..Len(signed')
  <2>1. signed' \in Seq(Record)
    BY DEF TypeOK
  <2> QED BY <2>1
<1> QED BY <1>1, <1>2 DEF Grows, Extended, NewRecords

LEMMA KindsGrow ==
  ASSUME TypeOK, TypeOK', Grows, NEW kinds
  PROVE  /\ OfKind(kinds) = OfKind(kinds)' \cap DOMAIN signed
         /\ \A i \in DOMAIN signed : Earlier(kinds, i)' = Earlier(kinds, i)
         /\ \A i \in NewRecords : Earlier(kinds, i)' =
              OfKind(kinds) \cup {j \in NewRecords : signed'[j].kind \in kinds /\ j < i}
<1>1. OfKind(kinds) = OfKind(kinds)' \cap DOMAIN signed
  BY GrownRecords DEF OfKind
<1>2. ASSUME NEW i \in DOMAIN signed PROVE Earlier(kinds, i)' = Earlier(kinds, i)
  <2>1. \A j \in DOMAIN signed' : j < i => j \in DOMAIN signed
    BY <1>2, GrownRecords
  <2> QED BY <1>1, <2>1 DEF Earlier, OfKind
<1>3. ASSUME NEW i \in NewRecords
      PROVE  Earlier(kinds, i)' =
               OfKind(kinds) \cup {j \in NewRecords : signed'[j].kind \in kinds /\ j < i}
  <2>1. \A j \in DOMAIN signed : j < i /\ signed'[j] = signed[j]
    BY <1>3, GrownRecords
  <2>2. DOMAIN signed' = DOMAIN signed \cup NewRecords
    BY GrownRecords
  <2> QED BY <2>1, <2>2 DEF Earlier, OfKind
<1> QED BY <1>1, <1>2, <1>3

\* ChainInv, of one record.
ChainAt(i) ==
  LET r     == signed[i]
      prior == Earlier(RosterOp, i)
  IN  /\ r.kind = "genesis" <=> i = 1
      /\ i # 1 => r.heads # {}
      /\ r.author = Creator =>
           /\ i \in file[Creator]
           /\ \A j \in DOMAIN signed : signed[j].author = Creator /\ j < i
                                         => signed[j].seq < r.seq
      /\ r.kind \in RosterOp =>
           /\ r.author = Creator
           /\ r.heads = {j \in prior : \A k \in prior : k <= j}
           /\ IF i = 1 THEN r.subject = Creator /\ r.role = "admin"
              ELSE r.subject # Creator /\ (r.kind # "remove" => r.role # "admin")

LEMMA ChainIs == ChainInv <=> \A i \in DOMAIN signed : ChainAt(i)
  BY DEF ChainInv, ChainAt, OfKind

LEMMA ChainGrows ==
  ASSUME TypeOK, TypeOK', ChainInv, Grows, file[Creator] \subseteq file'[Creator],
         \A i \in NewRecords : ChainAt(i)'
  PROVE  ChainInv'
<1> SUFFICES ASSUME NEW i \in DOMAIN signed PROVE ChainAt(i)'
  <2>1. (\A i \in DOMAIN signed' : ChainAt(i)') => ChainInv'
    BY DEF ChainInv, ChainAt, OfKind
  <2> QED BY <2>1, GrownRecords
<1>1. ChainAt(i) /\ signed'[i] = signed[i]
  BY ChainIs, GrownRecords
<1>2. Earlier(RosterOp, i)' = Earlier(RosterOp, i)
  BY KindsGrow
<1>3. \A j \in DOMAIN signed' : j < i => j \in DOMAIN signed /\ signed'[j] = signed[j]
  BY GrownRecords
<1> QED BY <1>1, <1>2, <1>3 DEF ChainAt

(***************************************************************************)
(* What holds of the views of a chain, now and after a step.               *)
(***************************************************************************)

ViewsAgree ==
  \A T \in SUBSET DOMAIN signed : \A S \in SUBSET T :
    /\ Len(Order(S)) <= Len(Order(T))
    /\ \A n \in 1..Len(Order(S)) : Order(S)[n] = Order(T)[n]
    /\ \A n \in 1..(Len(Order(S)) + 1) : RosterOf(S).roles[n] = RosterOf(T).roles[n]

OrdersAre ==
  \A S \in SUBSET DOMAIN signed :
    /\ RosterOf(S).order = Order(S) /\ Len(RosterOf(S).roles) = Len(Order(S)) + 1
    /\ DOMAIN Order(S) = 1..Len(Order(S)) /\ Len(Order(S)) \in Nat
    /\ Elements(Order(S)) = Lead(S) /\ Rising(Order(S))

LEMMA ViewsOfChain == TypeOK /\ ChainInv => ViewsAgree /\ OrdersAre
<1> SUFFICES ASSUME TypeOK, ChainInv PROVE ViewsAgree /\ OrdersAre
  OBVIOUS
<1>1. ViewsAgree
  BY SamePlace, SameRoles DEF ViewsAgree
<1>2. OrdersAre
  <2> SUFFICES ASSUME NEW S \in SUBSET DOMAIN signed
               PROVE  /\ RosterOf(S).order = Order(S)
                      /\ Len(RosterOf(S).roles) = Len(Order(S)) + 1
                      /\ DOMAIN Order(S) = 1..Len(Order(S)) /\ Len(Order(S)) \in Nat
                      /\ Elements(Order(S)) = Lead(S) /\ Rising(Order(S))
    BY DEF OrdersAre
  <2> QED BY RosterIs, OrderIsHere, OrderIsLead
<1> QED BY <1>1, <1>2

LEMMA ViewsNext == TypeOK' /\ ChainInv' => ViewsAgree' /\ OrdersAre'
  BY ViewsOfChain, PTL

\* A roster record at the end of the chain, which applies to the roles of today.
LEMMA AppliesGrows ==
  ASSUME TypeOK, TypeOK', ChainInv, ChainInv', AppliesInv, Grows,
         NEW S \in SUBSET DOMAIN signed, S = DOMAIN signed,
         \A i \in NewRecords : signed'[i].kind \in RosterOp =>
           i = Len(signed) + 1 /\ Applies(RolesNow(RosterOf(S)), signed'[i])
  PROVE  AppliesInv'
<1> SUFFICES ASSUME NEW T, T = DOMAIN signed',
                    NEW n \in DOMAIN RosterOf(T)'.order
             PROVE  Applies(RosterOf(T)'.roles[n], signed'[RosterOf(T)'.order[n]])
  BY DEF AppliesInv, Applies
<1> DEFINE P == RosterOf(S)
           Q == RosterOf(T)'
           L == Len(P.order)
<1>1. S \in SUBSET DOMAIN signed /\ S \in SUBSET T /\ T \in SUBSET DOMAIN signed' /\ Extended
  BY GrownRecords DEF Grows
<1>2. RosterOf(S)' = P /\ Order(S)' = Order(S)
  BY <1>1, RosterSame, OrderSame
<1>3. /\ P.order = Order(S) /\ DOMAIN P.order = 1..L /\ L \in Nat /\ Len(P.roles) = L + 1
      /\ Elements(P.order) = Lead(S)
  BY <1>1, ViewsOfChain DEF OrdersAre
<1>4. /\ Q.order = Order(T)' /\ DOMAIN Q.order = 1..Len(Q.order) /\ Len(Q.order) \in Nat
      /\ Elements(Q.order) = Lead(T)' /\ Rising(Q.order)
  BY <1>1, ViewsNext DEF OrdersAre
<1>5. /\ L <= Len(Q.order) /\ \A k \in 1..L : P.order[k] = Q.order[k]
      /\ \A k \in 1..(L + 1) : P.roles[k] = Q.roles[k]
  BY <1>1, <1>2, <1>3, <1>4, ViewsNext DEF ViewsAgree
<1>6. \A k \in 1..L : Applies(P.roles[k], signed[P.order[k]])
  BY <1>3 DEF AppliesInv
<1>7. Lead(S) = OfKind(RosterOp)
  BY DEF Lead, Earlier, OfKind
<1>8. \A k \in 1..Len(Q.order) : Q.order[k] \in DOMAIN signed'
                                  /\ signed'[Q.order[k]].kind \in RosterOp
  <2>1. Lead(T)' \subseteq OfKind(RosterOp)'
    BY DEF Lead
  <2> QED BY <1>4, <2>1 DEF Elements, OfKind
<1>9. \A k \in 1..Len(Q.order) : Q.order[k] \in Nat
  BY <1>8, GrownRecords
<1> HIDE DEF P, Q, L
<1>10. CASE n <= L
  <2>1. n \in 1..L /\ n \in 1..(L + 1)
    BY <1>3, <1>4, <1>10 DEF Q
  <2>2. P.order[n] \in DOMAIN signed
    BY <1>3, <1>7, <2>1 DEF Elements, OfKind
  <2>3. signed'[P.order[n]] = signed[P.order[n]]
    BY <2>2, GrownRecords
  <2> QED BY <1>5, <1>6, <2>1, <2>3 DEF Q
<1>11. ASSUME NEW k \in 1..Len(Q.order), L < k PROVE Q.order[k] = Len(signed) + 1
              /\ Applies(RolesNow(P), signed'[Q.order[k]])
  <2>1. Q.order[k] \notin DOMAIN signed
    <3>1. ASSUME Q.order[k] \in DOMAIN signed PROVE FALSE
      <4>1. Q.order[k] \in OfKind(RosterOp)
        BY <1>8, <3>1, GrownRecords DEF OfKind
      <4>2. PICK j \in 1..L : P.order[j] = Q.order[k]
        BY <1>3, <1>7, <4>1 DEF Elements
      <4>3. j \in 1..Len(Q.order) /\ j < k /\ Q.order[j] = Q.order[k]
        BY <1>3, <1>4, <1>5, <1>11, <4>2
      <4> QED BY <1>4, <1>9, <4>3 DEF Rising
    <3> QED BY <3>1
  <2>2. Q.order[k] \in NewRecords
    BY <1>8, <2>1, GrownRecords
  <2> QED BY <1>8, <2>2 DEF P
<1>12. CASE L < n
  <2>1. n \in 1..Len(Q.order) /\ L + 1 \in 1..Len(Q.order) /\ L < L + 1 /\ L + 1 \in 1..(L + 1)
    BY <1>3, <1>4, <1>12 DEF Q
  <2>2. Q.order[n] = Q.order[L + 1]
    BY <1>11, <1>12, <2>1
  <2>3. n = L + 1
    <3>1. L + 1 < n => Q.order[L + 1] < Q.order[n]
      BY <1>4, <2>1 DEF Rising
    <3> QED BY <1>3, <1>9, <1>12, <2>1, <2>2, <3>1
  <2>4. RolesNow(P) = Q.roles[L + 1]
    BY <1>3, <1>5, <2>1 DEF RolesNow
  <2> QED BY <1>11, <1>12, <2>1, <2>3, <2>4 DEF Q
<1> QED BY <1>3, <1>4, <1>10, <1>12 DEF Q

LEMMA MembersGrow ==
  ASSUME TypeOK, TypeOK', MembersInv, Grows,
         \A i \in NewRecords : signed'[i].kind = "add" =>
           \A j \in DOMAIN signed' : signed'[j].kind = "add"
                                     /\ signed'[j].subject = signed'[i].subject => j = i,
         \A i \in NewRecords : signed'[i].kind = "remove" =>
           \E j \in About("add", signed'[i].subject) : TRUE
  PROVE  MembersInv'
<1>1. ASSUME NEW i \in OfKind({"add"})', NEW j \in OfKind({"add"})',
             signed'[i].subject = signed'[j].subject
      PROVE  i = j
  <2>1. CASE i \in DOMAIN signed /\ j \in DOMAIN signed
    BY <1>1, <2>1, GrownRecords DEF MembersInv, OfKind
  <2>2. CASE ~(i \in DOMAIN signed /\ j \in DOMAIN signed)
    <3>1. i \in NewRecords \/ j \in NewRecords
      BY <1>1, <2>2, GrownRecords DEF OfKind
    <3> QED BY <1>1, <3>1 DEF OfKind
  <2> QED BY <2>1, <2>2
<1>2. ASSUME NEW i \in OfKind({"remove"})'
      PROVE  \E j \in About("add", signed[i].subject)' : j < i
  <2>1. ASSUME NEW j, NEW m, j \in About("add", m)
        PROVE  signed'[j].kind = "add" /\ signed'[j].subject = m /\ j \in DOMAIN signed'
               /\ j \in DOMAIN signed
    BY <2>1, GrownRecords DEF About, OfKind
  <2>2. CASE i \in DOMAIN signed
    <3>1. signed'[i] = signed[i] /\ i \in OfKind({"remove"})
      BY <1>2, <2>2, GrownRecords DEF OfKind
    <3>2. PICK j \in About("add", signed[i].subject) : j < i
      BY <3>1 DEF MembersInv
    <3> QED BY <2>1, <3>1, <3>2 DEF About, OfKind
  <2>3. CASE i \notin DOMAIN signed
    <3>1. i \in NewRecords /\ signed'[i].kind = "remove"
      BY <1>2, <2>3, GrownRecords DEF OfKind
    <3>2. PICK j : j \in About("add", signed'[i].subject)
      BY <3>1
    <3>3. j < i
      BY <2>1, <3>1, <3>2, GrownRecords
    <3> QED BY <2>1, <3>2, <3>3 DEF About, OfKind
  <2> QED BY <2>2, <2>3
<1> QED BY <1>1, <1>2 DEF MembersInv

\* What EpochsInv says of one record.
EpochAt(e) ==
  /\ signed[e].author = Creator /\ signed[e].to = MembersAt(e)
  /\ signed[e].heads = {e - 1} /\ e - 1 \in OfKind(RosterOp)
  /\ \A f \in OfKind({"new"}) : f < e => signed[f].height < signed[e].height

GrantAt(g) ==
  /\ signed[g].author = Creator
  /\ \E a \in OfKind({"add"}) : /\ signed[g].heads = {a} /\ signed[g].epoch < a
                                /\ signed[g].to = {signed[a].subject}

LEMMA EpochsGrow ==
  ASSUME TypeOK, TypeOK', EpochsInv, Grows,
         \A i \in NewRecords : signed'[i].kind = "new" => EpochAt(i)',
         \A i \in NewRecords : signed'[i].kind = "grant" => GrantAt(i)'
  PROVE  EpochsInv'
<1>1. ASSUME NEW e \in OfKind({"new"})' PROVE EpochAt(e)'
  <2>1. CASE e \in DOMAIN signed
    <3>1. e \in OfKind({"new"}) /\ signed'[e] = signed[e] /\ EpochAt(e)
      BY <1>1, <2>1, GrownRecords DEF OfKind, EpochsInv, EpochAt
    <3>2. MembersAt(e)' = MembersAt(e)
      <4>1. \A kind, m : /\ About(kind, m) \subseteq About(kind, m)'
                         /\ About(kind, m)' \subseteq About(kind, m) \cup NewRecords
        BY GrownRecords DEF About, OfKind
      <4>2. \A j \in NewRecords : ~(j < e) /\ e <= j
        BY <2>1, GrownRecords
      <4> QED BY <4>1, <4>2 DEF MembersAt
    <3>3. OfKind(RosterOp) \subseteq OfKind(RosterOp)'
      BY GrownRecords DEF OfKind
    <3>4. \A f \in DOMAIN signed' : f < e => f \in DOMAIN signed /\ signed'[f] = signed[f]
      BY <2>1, GrownRecords
    <3> QED BY <3>1, <3>2, <3>3, <3>4 DEF EpochAt, OfKind
  <2>2. CASE e \notin DOMAIN signed
    BY <1>1, <2>2, GrownRecords DEF OfKind
  <2> QED BY <2>1, <2>2
<1>2. ASSUME NEW g \in OfKind({"grant"})' PROVE GrantAt(g)'
  <2>1. CASE g \in DOMAIN signed
    <3>1. g \in OfKind({"grant"}) /\ signed'[g] = signed[g] /\ GrantAt(g)
      BY <1>2, <2>1, GrownRecords DEF OfKind, EpochsInv, GrantAt
    <3>2. \A a \in OfKind({"add"}) : a \in OfKind({"add"})' /\ signed'[a] = signed[a]
      BY GrownRecords DEF OfKind
    <3> QED BY <3>1, <3>2 DEF GrantAt
  <2>2. CASE g \notin DOMAIN signed
    BY <1>2, <2>2, GrownRecords DEF OfKind
  <2> QED BY <2>1, <2>2
<1> QED BY <1>1, <1>2 DEF EpochsInv, EpochAt, GrantAt

(***************************************************************************)
(* What a step signs.                                                      *)
(***************************************************************************)

RosterInv == ChainInv /\ AppliesInv /\ MembersInv /\ EpochsInv /\ GrantsInv

\* The new records are the drafts, at positions after all that the admin ever signed.
LEMMA Signs ==
  ASSUME TypeOK, ChainInv, NEW d \in Devices, NEW drafts \in Drafts,
         signed' = signed \o Signing(Holds(d), d, drafts)
  PROVE  /\ Grows /\ Len(signed') = Len(signed) + Len(drafts)
         /\ \A i \in NewRecords :
              LET r == signed'[i]
                  draft == drafts[i - Len(signed)]
              IN  /\ i - Len(signed) \in 1..Len(drafts) /\ r.author = d
                  /\ r.kind = draft.kind /\ r.heads = draft.heads /\ r.epoch = draft.epoch
                  /\ r.subject = draft.subject /\ r.role = draft.role
                  /\ r.height = draft.height /\ r.to = draft.to
         /\ d = Creator => \A i \in NewRecords : \A j \in DOMAIN signed' :
              signed'[j].author = Creator /\ j < i => signed'[j].seq < signed'[i].seq
<1> DEFINE S == Holds(d)
           N == Len(signed)
           more == Signing(S, d, drafts)
           first == NextSeq(S, d)
<1>1. S \in SUBSET DOMAIN signed /\ drafts \in Seq(Record)
  BY HeldTypes DEF Drafts
<1>2. /\ DOMAIN signed' = 1..(N + Len(drafts)) /\ Len(signed') = N + Len(drafts)
      /\ \A i \in DOMAIN signed : signed'[i] = signed[i]
      /\ \A n \in 1..Len(drafts) : signed'[N + n] = more[n]
  BY <1>1, SignedIs
<1>3. N \in Nat /\ DOMAIN signed = 1..N /\ Len(drafts) \in Nat
      /\ \A i \in DOMAIN signed : signed[i].seq \in Nat
  BY <1>1, RecordTypes
<1>4. \A n \in 1..Len(drafts) :
        /\ more[n].author = d /\ more[n].seq = first + n - 1
        /\ more[n].kind = drafts[n].kind /\ more[n].heads = drafts[n].heads
        /\ more[n].epoch = drafts[n].epoch /\ more[n].subject = drafts[n].subject
        /\ more[n].role = drafts[n].role /\ more[n].height = drafts[n].height
        /\ more[n].to = drafts[n].to
  BY <1>1, SigningIs
<1>5. first \in Nat /\ \A k \in Own(S, d) : signed[k].seq < first
  BY <1>1, LastOwnIs
<1> HIDE DEF more, first
<1>6. Grows
  BY <1>2, <1>3 DEF Grows, Extended
<1>7. ASSUME NEW i \in NewRecords
      PROVE  /\ i - N \in 1..Len(drafts) /\ signed'[i] = more[i - N]
             /\ signed'[i].seq = first + (i - N) - 1
  <2>1. i - N \in 1..Len(drafts) /\ i = N + (i - N)
    BY <1>2, <1>3 DEF NewRecords
  <2>2. signed'[i] = more[i - N]
    BY <1>2, <2>1
  <2> QED BY <1>4, <2>1, <2>2
<1>8. ASSUME d = Creator, NEW i \in NewRecords, NEW j \in DOMAIN signed',
             signed'[j].author = Creator, j < i
      PROVE  signed'[j].seq < signed'[i].seq
  <2>1. signed'[i].seq = first + (i - N) - 1 /\ i - N \in 1..Len(drafts)
    BY <1>7
  <2>2. CASE j \in DOMAIN signed
    <3>1. signed'[j] = signed[j] /\ signed[j].author = Creator
      BY <1>2, <1>8, <2>2
    <3>2. j \in file[Creator]
      BY <2>2, <3>1 DEF ChainInv
    <3>3. j \in Own(S, d)
      BY <1>8, <3>1, <3>2 DEF Own, Holds
    <3> QED BY <1>3, <1>5, <2>1, <2>2, <3>1, <3>3
  <2>3. CASE j \notin DOMAIN signed
    <3>1. j \in NewRecords
      BY <1>2, <1>3, <2>3 DEF NewRecords
    <3>2. signed'[j].seq = first + (j - N) - 1 /\ j - N \in 1..Len(drafts)
      BY <1>7, <3>1
    <3>3. i \in Nat /\ j \in Nat
      BY <1>2, <1>3, <3>1 DEF NewRecords
    <3>4. first + (j - N) - 1 < first + (i - N) - 1
      <4>1. first \in Nat /\ N \in Nat /\ i \in Nat /\ j \in Nat /\ j < i
        BY <1>3, <1>5, <1>8, <3>3
      <4> HIDE DEF N
      <4> QED BY <4>1
    <3> QED BY <2>1, <3>2, <3>4
  <2> QED BY <2>2, <2>3
<1>9. ASSUME NEW i \in NewRecords
      PROVE  LET r == signed'[i]
                 draft == drafts[i - N]
             IN  /\ i - N \in 1..Len(drafts) /\ r.author = d
                 /\ r.kind = draft.kind /\ r.heads = draft.heads /\ r.epoch = draft.epoch
                 /\ r.subject = draft.subject /\ r.role = draft.role
                 /\ r.height = draft.height /\ r.to = draft.to
  BY <1>4, <1>7
<1> QED BY <1>2, <1>6, <1>8, <1>9

\* The same of what the admin signs.
LEMMA AdminSigns ==
  ASSUME TypeOK, ChainInv, NEW drafts \in Drafts,
         signed' = signed \o Signing(Holds(Creator), Creator, drafts)
  PROVE  \A i \in NewRecords :
           LET r == signed'[i]
                  draft == drafts[i - Len(signed)]
              IN  /\ i - Len(signed) \in 1..Len(drafts) /\ r.author = Creator
                  /\ r.kind = draft.kind /\ r.heads = draft.heads /\ r.epoch = draft.epoch
                  /\ r.subject = draft.subject /\ r.role = draft.role
                  /\ r.height = draft.height /\ r.to = draft.to
<1>1. Creator \in Devices
  BY SharedAssumption
<1>2. PICK d \in Devices : d = Creator
  BY <1>1
<1>3. signed' = signed \o Signing(Holds(d), d, drafts)
  BY <1>2
<1>4. ASSUME NEW i \in NewRecords
      PROVE  LET r == signed'[i]
                 draft == drafts[i - Len(signed)]
             IN  /\ i - Len(signed) \in 1..Len(drafts) /\ r.author = d
                  /\ r.kind = draft.kind /\ r.heads = draft.heads /\ r.epoch = draft.epoch
                  /\ r.subject = draft.subject /\ r.role = draft.role
                  /\ r.height = draft.height /\ r.to = draft.to
  BY <1>3, Signs
<1> QED BY <1>2, <1>4

\* The same, draft by draft.
LEMMA SignsAt ==
  ASSUME TypeOK, ChainInv, NEW d \in Devices, NEW drafts \in Drafts,
         signed' = signed \o Signing(Holds(d), d, drafts),
         NEW n \in 1..Len(drafts), NEW i, i = Len(signed) + n
  PROVE  LET r == signed'[i]
             draft == drafts[n]
         IN  /\ i \in NewRecords /\ r.author = d
             /\ r.kind = draft.kind /\ r.heads = draft.heads /\ r.epoch = draft.epoch
             /\ r.subject = draft.subject /\ r.role = draft.role
             /\ r.height = draft.height /\ r.to = draft.to
<1>1. Len(signed) \in Nat /\ Len(drafts) \in Nat
  BY RecordTypes DEF Drafts
<1>2. Len(signed') = Len(signed) + Len(drafts)
  BY Signs
<1>3. i \in NewRecords /\ i - Len(signed) = n
  BY <1>1, <1>2 DEF NewRecords
<1>4. LET r == signed'[i]
          draft == drafts[i - Len(signed)]
      IN  /\ r.author = d
          /\ r.kind = draft.kind /\ r.heads = draft.heads /\ r.epoch = draft.epoch
          /\ r.subject = draft.subject /\ r.role = draft.role
          /\ r.height = draft.height /\ r.to = draft.to
  BY <1>3, Signs
<1> QED BY <1>3, <1>4

\* The admin has the whole chain, and so today's roles, its end, and every key.
LEMMA CreatorView ==
  ASSUME TypeOK, ChainInv, AppliesInv, EpochsInv,
         NEW S \in SUBSET DOMAIN signed, S = Holds(Creator),
         NEW D \in SUBSET DOMAIN signed, D = DOMAIN signed
  PROVE  LET R == RosterOf(S)
         IN  /\ Lead(S) = OfKind(RosterOp)
             /\ HeadsOf(S, R) = {j \in OfKind(RosterOp) : \A k \in OfKind(RosterOp) : k <= j}
             /\ RolesNow(R) = RolesNow(RosterOf(D))
             /\ Epochs(S, R) = OfKind({"new"}) /\ KeysOf(S, R, Creator) = OfKind({"new"})
<1> DEFINE R == RosterOf(S)
           Q == RosterOf(D)
<1>1. file[Creator] \subseteq S
  BY DEF Holds
<1>2. Lead(S) = OfKind(RosterOp) /\ Lead(D) = OfKind(RosterOp)
  <2>1. OfKind(RosterOp) \subseteq S
    BY <1>1 DEF ChainInv, OfKind
  <2>2. OfKind(RosterOp) \subseteq D
    BY DEF OfKind
  <2> QED BY <2>1, <2>2 DEF Lead, Earlier
<1>3. HeadsOf(S, R) = {j \in OfKind(RosterOp) : \A k \in OfKind(RosterOp) : k <= j}
  BY <1>2, HeadsAre
<1>4. RolesNow(R) = RolesNow(Q)
  <2> DEFINE s == Order(S)
             t == Order(D)
  <2>1. /\ Len(R.roles) = Len(s) + 1 /\ Len(Q.roles) = Len(t) + 1
        /\ Len(s) \in Nat /\ Len(t) \in Nat /\ DOMAIN s = 1..Len(s) /\ DOMAIN t = 1..Len(t)
        /\ Elements(s) = Lead(S) /\ Elements(t) = Lead(D) /\ Rising(t)
    BY ViewsOfChain DEF OrdersAre
  <2>2. /\ Len(s) <= Len(t) /\ \A n \in 1..Len(s) : s[n] = t[n]
        /\ \A n \in 1..(Len(s) + 1) : R.roles[n] = Q.roles[n]
    <3>1. S \in SUBSET D
      OBVIOUS
    <3> QED BY <3>1, ViewsOfChain DEF ViewsAgree
  <2>3. \A n \in 1..Len(t) : t[n] \in Nat
    <3>1. \A n \in 1..Len(t) : t[n] \in Lead(D)
      BY <2>1 DEF Elements
    <3> QED BY <3>1, RecordTypes DEF Lead, OfKind
  <2> HIDE DEF s, t, R, Q
  <2>4. Len(t) <= Len(s)
    <3>1. ASSUME Len(s) < Len(t) PROVE FALSE
      <4>1. Len(s) + 1 \in 1..Len(t)
        BY <2>1, <3>1
      <4>2. t[Len(s) + 1] \in Elements(s)
        BY <1>2, <2>1, <4>1 DEF Elements
      <4>3. PICK k \in 1..Len(s) : s[k] = t[Len(s) + 1]
        BY <2>1, <4>2 DEF Elements
      <4>4. k \in 1..Len(t) /\ k < Len(s) + 1 /\ t[k] = t[Len(s) + 1]
        BY <2>1, <2>2, <4>3
      <4>5. t[k] < t[Len(s) + 1]
        BY <2>1, <4>1, <4>4 DEF Rising
      <4> QED BY <2>3, <4>1, <4>4, <4>5
    <3> QED BY <2>1, <3>1
  <2>5. Len(s) = Len(t) /\ Len(s) + 1 \in 1..(Len(s) + 1)
    <3>1. Len(s) \in Nat /\ Len(t) \in Nat /\ Len(s) <= Len(t) /\ Len(t) <= Len(s)
      BY <2>1, <2>2, <2>4
    <3> QED BY <3>1
  <2> QED BY <2>1, <2>2, <2>5 DEF RolesNow
<1>5. Epochs(S, R) = OfKind({"new"})
  <2>1. ASSUME NEW e \in OfKind({"new"}) PROVE e \in S /\ e - 1 \in Lead(S)
    <3>1. signed[e].author = Creator /\ e - 1 \in OfKind(RosterOp) /\ e \in DOMAIN signed
      BY <2>1 DEF EpochsInv, OfKind
    <3>2. e \in file[Creator]
      BY <3>1 DEF ChainInv
    <3> QED BY <1>1, <1>2, <3>1, <3>2
  <2> QED BY <2>1, EpochsAre
<1>6. KeysOf(S, R, Creator) = OfKind({"new"})
  <2>1. \A e \in OfKind({"new"}) : Creator \in signed[e].to
    BY DEF EpochsInv, MembersAt
  <2> QED BY <1>5, <2>1 DEF KeysOf, Recipients
<1> QED BY <1>2, <1>3, <1>4, <1>5, <1>6

\* Whoever is an admin is the creator.
LEMMA AdminIsCreator ==
  ASSUME TypeOK, ChainInv, NEW d \in Devices, Admin(d, RosterOf(Holds(d)))
  PROVE  d = Creator
  BY OnlyAdmin, HeldTypes DEF Admin

\* Whoever had the grants of its keys has them, unless a device is added.
LEMMA GrantsKept ==
  ASSUME TypeOK, TypeOK', GrantsInv, Grows,
         \A i \in NewRecords : signed'[i].kind # "add",
         \A d \in Devices \ {Creator} :
           \A X \in Replicas(d)' \ {{}} :
             \E Y \in Replicas(d) \ {{}} : Y \subseteq X
  PROVE  GrantsInv'
<1> SUFFICES ASSUME NEW d \in Devices \ {Creator},
                    NEW X \in Replicas(d)' \ {{}}
             PROVE  /\ About("add", d)' # {}
                    /\ \A a \in About("add", d)' : \A e \in Earlier({"new"}, a)' :
                         \E g \in X \cap OfKind({"grant"})' :
                           /\ signed'[g].heads = {a} /\ signed'[g].epoch = e
                           /\ signed'[g].to = {d}
  BY DEF GrantsInv
<1>1. PICK Y \in Replicas(d) \ {{}} : Y \subseteq X
  OBVIOUS
<1>2. /\ About("add", d) # {}
      /\ \A a \in About("add", d) : \A e \in Earlier({"new"}, a) :
           \E g \in Y \cap OfKind({"grant"}) :
             signed[g].heads = {a} /\ signed[g].epoch = e /\ signed[g].to = {d}
  <2> DEFINE Has(Z) ==
        /\ About("add", d) # {}
        /\ \A a \in About("add", d) : \A e \in Earlier({"new"}, a) :
             \E g \in Z \cap OfKind({"grant"}) :
               signed[g].heads = {a} /\ signed[g].epoch = e /\ signed[g].to = {d}
  <2>1. \A Z \in Replicas(d) \ {{}} : Has(Z)
    BY DEF GrantsInv
  <2> HIDE DEF Has
  <2>2. Has(Y)
    BY <2>1
  <2> QED BY <2>2 DEF Has
<1>3. About("add", d)' = About("add", d)
  BY GrownRecords DEF About, OfKind
<1>4. \A a \in About("add", d) : Earlier({"new"}, a)' = Earlier({"new"}, a)
  BY KindsGrow DEF About, OfKind
<1>5. \A g \in OfKind({"grant"}) : g \in OfKind({"grant"})' /\ signed'[g] = signed[g]
  BY GrownRecords DEF OfKind
<1> HIDE DEF GrantsInv
<1> QED BY <1>1, <1>2, <1>3, <1>4, <1>5

(***************************************************************************)
(* The steps.                                                              *)
(***************************************************************************)

\* A transaction takes nothing from anybody, and its author has what it signed.
LEMMA TransactKeeps ==
  ASSUME TypeOK, TypeOK', Grows, NEW d \in Devices, NEW drafts,
         Joined(d), Transact(d, drafts), copies' = copies, Len(signed') = Len(signed) + Len(drafts)
  PROVE  /\ file[Creator] \subseteq file'[Creator] /\ NewRecords \subseteq file'[d]
         /\ \A e \in Devices \ {Creator} :
              \A X \in Replicas(e)' \ {{}} :
                \E Y \in Replicas(e) \ {{}} : Y \subseteq X
<1> DEFINE all == Holds(d) \cup NewRecords
<1>1. /\ file' = [file EXCEPT ![d] = all]
      /\ handle' = handle \/ handle' = [handle EXCEPT ![d] = all]
  BY DEF Transact, NewRecords
<1>2. file[d] \subseteq all /\ NewRecords \subseteq all /\ file[d] # {}
  BY DEF Holds, Joined
<1>3. file \in [Devices -> SUBSET DOMAIN signed] /\ handle \in [Devices -> SUBSET DOMAIN signed]
  BY HeldTypes
<1> HIDE DEF all
<1>4. /\ file'[d] = all /\ \A e \in Devices : e # d => file'[e] = file[e]
      /\ \A e \in Devices : handle'[e] = handle[e] \/ (e = d /\ handle'[e] = all)
  BY <1>1, <1>3
<1>5. file[Creator] \subseteq file'[Creator]
  BY <1>2, <1>4, SharedAssumption
<1>6. ASSUME NEW e \in Devices, NEW X \in Replicas(e)' \ {{}}
      PROVE  \E Y \in Replicas(e) \ {{}} : Y \subseteq X
  <2>1. CASE e = d /\ X = all
    BY <1>2, <2>1 DEF Replicas
  <2>2. CASE X \in Replicas(e)
    BY <1>6, <2>2
  <2> QED BY <1>4, <1>6, <2>1, <2>2 DEF Replicas
<1> QED BY <1>2, <1>4, <1>5, <1>6

\* Somebody with a role has a head to name.
LEMMA HeadsThere ==
  ASSUME TypeOK, ChainInv, AppliesInv, NEW S \in SUBSET DOMAIN signed, NEW d \in Devices,
         RolesNow(RosterOf(S))[d] \in Members
  PROVE  HeadsOf(S, RosterOf(S)) # {} /\ DOMAIN signed # {}
<1>1. Lead(S) # {}
  BY RolesToday DEF Members
<1>2. Lead(S) \subseteq 0..Len(signed) /\ Len(signed) \in Nat
  BY RecordTypes DEF Lead, OfKind
<1>3. \E j \in Lead(S) : \A k \in Lead(S) : k <= j
  BY <1>1, <1>2, GreatestNatural
<1>4. HeadsOf(S, RosterOf(S)) # {}
  BY <1>3, HeadsAre
<1> QED BY <1>1, <1>4 DEF Lead, OfKind

LEMMA WriteRoster ==
  ASSUME TypeOK, TypeOK', RosterInv, NEW d \in Devices, NEW kind \in ItemOp,
         NEW value \in Values \cup {Deleted}, NEW time \in Times,
         WriteVersion(d, kind, value, time)
  PROVE  RosterInv'
<1>1. PICK S \in SUBSET DOMAIN signed : S = Holds(d)
  BY HeldTypes
<1>2. PICK D \in SUBSET DOMAIN signed : D = DOMAIN signed
  OBVIOUS
<1>3. PICK drafts \in Drafts :
        /\ Transact(d, drafts) /\ Len(drafts) = 1 /\ drafts[1].kind = kind
        /\ drafts[1].heads = HeadsOf(S, RosterOf(S))
  BY <1>1, WriteDrafts
<1>4. Joined(d) /\ RolesNow(RosterOf(S))[d] \in Members /\ copies' = copies
  BY <1>1 DEF WriteVersion, Writers, Members
<1>5. signed' = signed \o Signing(Holds(d), d, drafts)
  BY <1>3 DEF Transact
<1>6. ChainInv /\ AppliesInv /\ MembersInv /\ EpochsInv /\ GrantsInv
  BY DEF RosterInv
<1>7. Grows /\ Len(signed') = Len(signed) + Len(drafts)
  BY <1>5, <1>6, Signs
<1>8. drafts[1].heads # {} /\ DOMAIN signed # {}
  BY <1>3, <1>4, <1>6, HeadsThere
<1>9. ASSUME NEW i \in NewRecords
      PROVE  /\ signed'[i].kind \in ItemOp /\ signed'[i].heads # {} /\ i # 1
             /\ signed'[i].author = d
             /\ d = Creator => \A j \in DOMAIN signed' :
                  signed'[j].author = Creator /\ j < i => signed'[j].seq < signed'[i].seq
  <2>1. /\ i - Len(signed) \in 1..Len(drafts) /\ signed'[i].author = d
        /\ signed'[i].kind = drafts[i - Len(signed)].kind
        /\ signed'[i].heads = drafts[i - Len(signed)].heads
    BY <1>5, <1>6, Signs
  <2>2. i - Len(signed) = 1 /\ i # 1
    BY <1>3, <1>8, <2>1, RecordTypes, GrownRecords, <1>7
  <2>3. d = Creator => \A j \in DOMAIN signed' :
          signed'[j].author = Creator /\ j < i => signed'[j].seq < signed'[i].seq
    BY <1>5, <1>6, Signs
  <2> QED BY <1>3, <1>8, <2>1, <2>2, <2>3
<1>10. /\ file[Creator] \subseteq file'[Creator] /\ NewRecords \subseteq file'[d]
       /\ \A e \in Devices \ {Creator} :
            \A X \in Replicas(e)' \ {{}} :
              \E Y \in Replicas(e) \ {{}} : Y \subseteq X
  BY <1>3, <1>4, <1>7, TransactKeeps
<1>11. ChainInv'
  <2>1. ASSUME NEW i \in NewRecords PROVE ChainAt(i)'
    BY <1>9, <1>10 DEF ChainAt, ItemOp, RosterOp
  <2> QED BY <1>6, <1>7, <1>10, <2>1, ChainGrows
<1>12. AppliesInv'
  BY <1>2, <1>6, <1>7, <1>9, <1>11, AppliesGrows DEF ItemOp, RosterOp
<1>13. MembersInv'
  BY <1>6, <1>7, <1>9, MembersGrow DEF ItemOp
<1>14. EpochsInv'
  BY <1>6, <1>7, <1>9, EpochsGrow DEF ItemOp
<1>15. GrantsInv'
  BY <1>6, <1>7, <1>9, <1>10, GrantsKept DEF ItemOp
<1> QED BY <1>11, <1>12, <1>13, <1>14, <1>15 DEF RosterInv

\* The admin's next roster record continues the chain.
LEMMA OpChained ==
  ASSUME TypeOK, TypeOK', RosterInv, NEW drafts \in Drafts,
         signed' = signed \o Signing(Holds(Creator), Creator, drafts),
         NewRecords \subseteq file'[Creator],
         Admin(Creator, RosterOf(Holds(Creator))),
         Len(drafts) # 0,
         drafts[1].kind \in RosterOp \ {"genesis"},
         drafts[1].subject # Creator, drafts[1].kind # "remove" => drafts[1].role # "admin",
         drafts[1].heads = HeadsOf(Holds(Creator), RosterOf(Holds(Creator))),
         \A n \in 2..Len(drafts) : drafts[n].kind \notin RosterOp /\ drafts[n].heads # {}
  PROVE  \A i \in NewRecords : ChainAt(i)'
<1> SUFFICES ASSUME NEW i \in NewRecords PROVE ChainAt(i)'
  OBVIOUS
<1>1. PICK S \in SUBSET DOMAIN signed : S = Holds(Creator)
  BY HeldTypes, SharedAssumption
<1>2. PICK D \in SUBSET DOMAIN signed : D = DOMAIN signed
  OBVIOUS
<1>3. ChainInv /\ AppliesInv /\ MembersInv /\ EpochsInv /\ GrantsInv /\ Creator \in Devices
  BY SharedAssumption DEF RosterInv
<1> DEFINE n == i - Len(signed)
           r == signed'[i]
<1>4. /\ Grows /\ n \in 1..Len(drafts) /\ r.author = Creator
      /\ r.kind = drafts[n].kind /\ r.heads = drafts[n].heads
      /\ r.subject = drafts[n].subject /\ r.role = drafts[n].role
      /\ \A j \in DOMAIN signed' :
           signed'[j].author = Creator /\ j < i => signed'[j].seq < r.seq
  <2>1. Grows
    BY <1>3, Signs
  <2>3. /\ i - Len(signed) \in 1..Len(drafts) /\ signed'[i].author = Creator
        /\ signed'[i].kind = drafts[i - Len(signed)].kind
        /\ signed'[i].heads = drafts[i - Len(signed)].heads
        /\ signed'[i].subject = drafts[i - Len(signed)].subject
        /\ signed'[i].role = drafts[i - Len(signed)].role
    BY <1>3, AdminSigns
  <2>2. ASSUME NEW j \in DOMAIN signed', signed'[j].author = Creator, j < i
        PROVE  signed'[j].seq < signed'[i].seq
    <3>1. Creator = Creator => \A k \in NewRecords : \A l \in DOMAIN signed' :
            signed'[l].author = Creator /\ l < k => signed'[l].seq < signed'[k].seq
      BY <1>3, Signs
    <3> QED BY <2>2, <3>1
  <2> QED BY <2>1, <2>2, <2>3
<1>5. HeadsOf(S, RosterOf(S)) = {j \in OfKind(RosterOp) : \A k \in OfKind(RosterOp) : k <= j}
  BY <1>1, <1>2, <1>3, CreatorView
<1>6. HeadsOf(S, RosterOf(S)) # {} /\ DOMAIN signed # {}
  <2>1. RolesNow(RosterOf(S))[Creator] \in Members
    BY <1>1 DEF Admin, Members
  <2> QED BY <1>3, <2>1, HeadsThere
<1>7. i # 1 /\ i \in Nat /\ Len(signed) \in Nat /\ i \in file'[Creator]
  BY <1>4, <1>6, GrownRecords
<1>8. CASE n = 1
  <2>1. i = Len(signed) + 1
    BY <1>7, <1>8
  <2>2. Earlier(RosterOp, i)' = OfKind(RosterOp)
    <3>1. Earlier(RosterOp, i)' =
            OfKind(RosterOp) \cup {j \in NewRecords : signed'[j].kind \in RosterOp /\ j < i}
      BY <1>4, KindsGrow
    <3>2. \A j \in NewRecords : ~(j < i)
      BY <1>4, <1>7, <2>1, GrownRecords
    <3> QED BY <3>1, <3>2
  <2>3. /\ r.kind \in RosterOp \ {"genesis"} /\ r.subject # Creator
        /\ r.kind # "remove" => r.role # "admin"
        /\ r.heads = HeadsOf(S, RosterOf(S))
    BY <1>1, <1>4, <1>8
  <2>4. r.heads = {j \in Earlier(RosterOp, i)' : \A k \in Earlier(RosterOp, i)' : k <= j}
    BY <1>5, <2>2, <2>3
  <2> HIDE DEF n
  <2> QED BY <1>4, <1>6, <1>7, <2>3, <2>4 DEF ChainAt
<1>9. CASE n # 1
  <2>1. n \in 2..Len(drafts)
    BY <1>4, <1>7, <1>9, RecordTypes
  <2>2. r.kind \notin RosterOp /\ r.heads # {}
    BY <1>4, <2>1
  <2> HIDE DEF n
  <2> QED BY <1>4, <1>7, <2>2 DEF ChainAt, RosterOp
<1> QED BY <1>8, <1>9

\* A roster record makes sense at these roles.
Suits(roles, r) ==
  \/ r.kind = "add" /\ roles[r.subject] = "absent"
  \/ r.kind = "remove" /\ roles[r.subject] \in Members
  \/ r.kind = "role" /\ roles[r.subject] \in Members /\ roles[r.subject] # r.role

LEMMA OpApplies ==
  ASSUME TypeOK, TypeOK', RosterInv, NEW drafts \in Drafts,
         signed' = signed \o Signing(Holds(Creator), Creator, drafts),
         NewRecords \subseteq file'[Creator], file[Creator] \subseteq file'[Creator],
         Admin(Creator, RosterOf(Holds(Creator))),
         Len(drafts) # 0,
         drafts[1].kind \in RosterOp \ {"genesis"},
         drafts[1].subject # Creator, drafts[1].kind # "remove" => drafts[1].role # "admin",
         drafts[1].heads = HeadsOf(Holds(Creator), RosterOf(Holds(Creator))),
         \A n \in 2..Len(drafts) : drafts[n].kind \notin RosterOp /\ drafts[n].heads # {},
         Suits(RolesNow(RosterOf(Holds(Creator))), drafts[1])
  PROVE  Grows /\ ChainInv' /\ AppliesInv'
<1>1. PICK S \in SUBSET DOMAIN signed : S = Holds(Creator)
  BY HeldTypes, SharedAssumption
<1>2. PICK D \in SUBSET DOMAIN signed : D = DOMAIN signed
  OBVIOUS
<1>3. ChainInv /\ AppliesInv /\ MembersInv /\ EpochsInv /\ GrantsInv /\ Creator \in Devices
  BY SharedAssumption DEF RosterInv
<1>4. PICK d \in Devices : d = Creator
  BY <1>3
<1>5. signed' = signed \o Signing(Holds(d), d, drafts)
  BY <1>4
<1>6. Grows /\ Len(signed') = Len(signed) + Len(drafts)
  BY <1>3, <1>5, Signs
<1>7. ChainInv'
  <2>1. \A i \in NewRecords : ChainAt(i)'
    BY OpChained
  <2> QED BY <1>3, <1>6, <2>1, ChainGrows
<1>8. RolesNow(RosterOf(S)) = RolesNow(RosterOf(D))
  BY <1>1, <1>2, <1>3, CreatorView
<1>9. ASSUME NEW i \in NewRecords, signed'[i].kind \in RosterOp
      PROVE  i = Len(signed) + 1 /\ Applies(RolesNow(RosterOf(D)), signed'[i])
  <2>1. /\ i - Len(signed) \in 1..Len(drafts) /\ signed'[i].author = Creator
        /\ signed'[i].kind = drafts[i - Len(signed)].kind
        /\ signed'[i].subject = drafts[i - Len(signed)].subject
        /\ signed'[i].role = drafts[i - Len(signed)].role
    BY <1>3, AdminSigns
  <2>2. i - Len(signed) \notin 2..Len(drafts)
    BY <1>9, <2>1
  <2>3. i - Len(signed) = 1 /\ i = Len(signed) + 1
    BY <1>6, <2>1, <2>2, RecordTypes, GrownRecords
  <2>4. RolesNow(RosterOf(D))[Creator] = "admin"
    BY <1>1, <1>8 DEF Admin
  <2>5. Suits(RolesNow(RosterOf(D)), drafts[1])
    BY <1>1, <1>8
  <2>6. /\ signed'[i].kind = drafts[1].kind /\ signed'[i].subject = drafts[1].subject
        /\ signed'[i].role = drafts[1].role
    BY <2>1, <2>3
  <2>7. Applies(RolesNow(RosterOf(D)), signed'[i])
    BY <2>1, <2>4, <2>5, <2>6 DEF Suits, Applies
  <2> QED BY <2>3, <2>7
<1>10. AppliesInv'
  BY <1>2, <1>3, <1>6, <1>7, <1>9, AppliesGrows
<1> QED BY <1>6, <1>7, <1>10

\* A removal's epoch is for the members that are left.
LEMMA RemovalRoster ==
  ASSUME TypeOK, TypeOK', RosterInv, NEW d \in Devices, NEW m \in Devices \ {d},
         RemoveMember(d, m)
  PROVE  RosterInv'
<1>1. PICK S \in SUBSET DOMAIN signed : S = Holds(d)
  BY HeldTypes
<1>2. PICK D \in SUBSET DOMAIN signed : D = DOMAIN signed
  OBVIOUS
<1>3. ChainInv /\ AppliesInv /\ MembersInv /\ EpochsInv /\ GrantsInv /\ Creator \in Devices
  BY SharedAssumption DEF RosterInv
<1> DEFINE R     == RosterOf(S)
           roles == RolesNow(R)
<1>4. Joined(d) /\ Admin(d, R) /\ roles[m] \in Members
  BY <1>1 DEF RemoveMember
<1>5. d = Creator /\ m # Creator
  <2>1. Admin(d, RosterOf(Holds(d)))
    BY <1>1, <1>4
  <2>2. d = Creator
    BY <1>3, <2>1, AdminIsCreator
  <2> QED BY <2>2
<1>6. PICK drafts \in Drafts :
        /\ Transact(d, drafts) /\ Len(drafts) = 2
        /\ drafts[1].kind = "remove" /\ drafts[1].subject = m
        /\ drafts[1].heads = HeadsOf(S, R)
        /\ drafts[2].kind = "new" /\ drafts[2].heads = {Len(signed) + 1}
        /\ drafts[2].height = NextHeight(S, R)
        /\ drafts[2].to = {x \in Devices : x # m /\ RolesNow(R)[x] \in Members}
  BY <1>1, RemovalDrafts
<1>7. copies' = copies /\ signed' = signed \o Signing(Holds(d), d, drafts)
  BY <1>6 DEF RemoveMember, Transact
<1>8. Grows /\ Len(signed') = Len(signed) + 2
  <2>1. Grows /\ Len(signed') = Len(signed) + Len(drafts)
    BY <1>3, <1>7, Signs
  <2> QED BY <1>6, <2>1
<1>9. /\ file[Creator] \subseteq file'[Creator] /\ NewRecords \subseteq file'[Creator]
      /\ \A e \in Devices \ {Creator} :
           \A X \in Replicas(e)' \ {{}} :
             \E Y \in Replicas(e) \ {{}} : Y \subseteq X
  BY <1>4, <1>5, <1>6, <1>7, <1>8, TransactKeeps
<1>10. PICK N \in Nat : N = Len(signed) /\ NewRecords = {N + 1, N + 2}
  <2>1. \A n \in Nat : (n + 1)..(n + 2) = {n + 1, n + 2}
    OBVIOUS
  <2> QED BY <1>8, <2>1, RecordTypes DEF NewRecords
<1>11. ChainInv' /\ AppliesInv'
  <2>1. \A n \in 2..Len(drafts) : n = 2
    BY <1>6
  <2>2. Suits(roles, drafts[1])
    BY <1>4, <1>6 DEF Suits
  <2>3. /\ drafts[1].kind \in RosterOp \ {"genesis"} /\ drafts[1].subject # Creator
        /\ drafts[1].kind # "remove" => drafts[1].role # "admin"
        /\ Len(drafts) # 0
    BY <1>5, <1>6 DEF RosterOp
  <2>5. \A n \in 2..Len(drafts) : drafts[n].kind \notin RosterOp /\ drafts[n].heads # {}
    <3>1. drafts[2].kind \notin RosterOp /\ drafts[2].heads # {}
      BY <1>6 DEF RosterOp
    <3> QED BY <2>1, <3>1
  <2>4. /\ signed' = signed \o Signing(Holds(Creator), Creator, drafts)
        /\ Admin(Creator, RosterOf(Holds(Creator)))
        /\ drafts[1].heads = HeadsOf(Holds(Creator), RosterOf(Holds(Creator)))
        /\ Suits(RolesNow(RosterOf(Holds(Creator))), drafts[1])
    BY <1>1, <1>4, <1>5, <1>6, <1>7, <2>2
  <2> HIDE DEF R, roles
  <2> QED BY <1>9, <2>3, <2>4, <2>5, OpApplies
<1> DEFINE o == signed'[N + 1]
           n == signed'[N + 2]
<1>12. /\ o.kind = "remove" /\ o.subject = m /\ n.kind = "new" /\ n.author = Creator
       /\ n.heads = {N + 1} /\ n.height = NextHeight(S, R)
       /\ n.to = {x \in Devices : x # m /\ RolesNow(R)[x] \in Members}
  <2>1. \A k \in 1..Len(drafts) : \A i : i = Len(signed) + k =>
          LET r == signed'[i]
              draft == drafts[k]
          IN  /\ i \in NewRecords /\ r.author = d
              /\ r.kind = draft.kind /\ r.heads = draft.heads /\ r.epoch = draft.epoch
              /\ r.subject = draft.subject /\ r.role = draft.role
              /\ r.height = draft.height /\ r.to = draft.to
    BY <1>3, <1>7, SignsAt
  <2>2. /\ 1 \in 1..Len(drafts) /\ N + 1 = Len(signed) + 1
        /\ 2 \in 1..Len(drafts) /\ N + 2 = Len(signed) + 2
    BY <1>6, <1>10
  <2>3. /\ o.kind = drafts[1].kind /\ o.subject = drafts[1].subject
    BY <2>1, <2>2
  <2>4. /\ n.kind = drafts[2].kind /\ n.author = d /\ n.heads = drafts[2].heads
        /\ n.height = drafts[2].height /\ n.to = drafts[2].to
    BY <2>1, <2>2
  <2> QED BY <1>5, <1>6, <1>10, <2>3, <2>4
<1>13. Lead(S) = OfKind(RosterOp) /\ Epochs(S, R) = OfKind({"new"})
  BY <1>1, <1>2, <1>3, <1>5, CreatorView
<1>14. /\ Lead(S) # {} => roles[Creator] = "admin"
       /\ Lead(S) = {} => \A x \in Devices : roles[x] = "absent"
       /\ roles \in [Devices -> Roles]
       /\ \A x \in Devices \ {Creator} :
            /\ roles[x] = "absent" <=> Lead(S) \cap About("add", x) = {}
            /\ roles[x] = "removed" <=> Lead(S) \cap About("remove", x) # {}
  BY <1>3, RolesToday
<1>15. \A x : /\ Lead(S) \cap About("add", x) = About("add", x)
              /\ Lead(S) \cap About("remove", x) = About("remove", x)
  BY <1>13 DEF About, OfKind, RosterOp
<1>16. \A x \in Devices \ {Creator} :
         roles[x] \in Members <=> About("add", x) # {} /\ About("remove", x) = {}
  <2>1. \A x \in Devices : roles[x] \in Members <=> roles[x] \notin {"absent", "removed"}
    BY <1>14 DEF Roles, Members
  <2> HIDE DEF roles
  <2> QED BY <1>14, <1>15, <2>1
<1>17. roles[Creator] \in Members
  BY <1>4, <1>5 DEF Admin, Members
<1> HIDE DEF R, roles
<1>18. MembersInv'
  <2>1. \A i \in NewRecords : signed'[i].kind # "add"
    BY <1>10, <1>12
  <2>2. \A i \in NewRecords : signed'[i].kind = "remove" => signed'[i].subject = m
    BY <1>10, <1>12
  <2>3. About("add", m) # {}
    BY <1>4, <1>5, <1>16
  <2> HIDE DEF o, n
  <2> QED BY <1>3, <1>8, <2>1, <2>2, <2>3, MembersGrow
<1>19. EpochAt(N + 2)'
  <2>1. \A x \in Devices \ {m} :
          About("add", x)' = About("add", x) /\ About("remove", x)' = About("remove", x)
    BY <1>8, <1>10, <1>12, GrownRecords DEF About, OfKind
  <2>2. N + 1 \in About("remove", m)' /\ N + 1 \in OfKind(RosterOp)'
    BY <1>8, <1>10, <1>12, GrownRecords DEF About, OfKind, RosterOp
  <2>3. \A x : \A j \in About("add", x) \cup About("remove", x) :
          j < N + 2 /\ ~(N + 2 <= j)
    BY <1>10, RecordTypes DEF About, OfKind
  <2>4. n.to = MembersAt(N + 2)'
    <3> DEFINE At == MembersAt(N + 2)'
    <3>1. ASSUME NEW x PROVE x \in At <=> x \in n.to
      <4>1. CASE x = Creator
        BY <1>3, <1>5, <1>12, <1>17, <4>1 DEF MembersAt, roles
      <4>2. CASE x = m
        <5>1. ~(N + 2 <= N + 1)
          BY <1>10
        <5>2. x \notin At
          BY <1>5, <2>2, <4>2, <5>1 DEF MembersAt
        <5> QED BY <1>12, <4>2, <5>2
      <4>3. CASE x \in Devices \ {Creator, m}
        <5>1. x \in n.to <=> roles[x] \in Members
          BY <1>12, <4>3 DEF roles
        <5>2. x \in At <=> About("add", x) # {} /\ About("remove", x) = {}
          BY <2>1, <2>3, <4>3 DEF MembersAt
        <5> QED BY <1>16, <4>3, <5>1, <5>2
      <4>4. CASE x \notin Devices
        BY <1>3, <1>12, <4>4 DEF MembersAt
      <4> QED BY <4>1, <4>2, <4>3, <4>4
    <3> QED BY <3>1, <1>12 DEF MembersAt
  <2>5. ASSUME NEW f \in OfKind({"new"})', f < N + 2
        PROVE  signed'[f].height < n.height
    <3>1. f \in DOMAIN signed
      BY <1>8, <1>10, <1>12, <2>5, GrownRecords DEF OfKind
    <3>2. signed'[f] = signed[f] /\ f \in Epochs(S, R)
      BY <1>8, <1>13, <2>5, <3>1, GrownRecords DEF OfKind
    <3> QED BY <1>12, <3>2, HeightIsNat
  <2>6. N + 2 - 1 = N + 1
    BY <1>10
  <2> QED BY <1>12, <2>2, <2>4, <2>5, <2>6 DEF EpochAt
<1>20. EpochsInv'
  <2>1. \A i \in NewRecords : signed'[i].kind # "grant"
    BY <1>10, <1>12
  <2>2. \A i \in NewRecords : signed'[i].kind = "new" => i = N + 2
    BY <1>10, <1>12
  <2> HIDE DEF o, n
  <2>3. \A i \in NewRecords : signed'[i].kind = "new" => EpochAt(i)'
    BY <1>19, <2>2
  <2> QED BY <1>3, <1>8, <2>1, <2>3, EpochsGrow
<1>21. GrantsInv'
  <2>1. \A i \in NewRecords : signed'[i].kind # "add"
    BY <1>10, <1>12
  <2> QED BY <1>3, <1>8, <1>9, <2>1, GrantsKept
<1> QED BY <1>11, <1>18, <1>20, <1>21 DEF RosterInv

LEMMA RoleRoster ==
  ASSUME OneAdmin, TypeOK, TypeOK', RosterInv, NEW d \in Devices, NEW m \in Devices \ {d},
         SetRole(d, m)
  PROVE  RosterInv'
<1>1. PICK S \in SUBSET DOMAIN signed : S = Holds(d)
  BY HeldTypes
<1>2. ChainInv /\ AppliesInv /\ MembersInv /\ EpochsInv /\ GrantsInv
  BY DEF RosterInv
<1> DEFINE R     == RosterOf(S)
           roles == RolesNow(R)
<1>3. Joined(d) /\ Admin(d, R)
  BY <1>1 DEF SetRole
<1>4. d = Creator /\ m # Creator
  <2>1. Admin(d, RosterOf(Holds(d)))
    BY <1>1, <1>3
  <2>2. d = Creator
    BY <1>2, <2>1, AdminIsCreator
  <2> QED BY <2>2
<1>5. PICK role \in GrantedRoles : \E drafts \in Drafts :
        /\ roles[m] \in Members \ {role}
        /\ Transact(d, drafts) /\ Len(drafts) = 1
        /\ drafts[1].kind = "role" /\ drafts[1].subject = m /\ drafts[1].role = role
        /\ drafts[1].heads = HeadsOf(S, R)
  BY <1>1, RoleDrafts
<1>6. PICK drafts \in Drafts :
        /\ roles[m] \in Members \ {role}
        /\ Transact(d, drafts) /\ Len(drafts) = 1
        /\ drafts[1].kind = "role" /\ drafts[1].subject = m /\ drafts[1].role = role
        /\ drafts[1].heads = HeadsOf(S, R)
  BY <1>5
<1>7. copies' = copies /\ signed' = signed \o Signing(Holds(d), d, drafts)
  BY <1>6 DEF SetRole, Transact
<1>8. Grows /\ Len(signed') = Len(signed) + Len(drafts)
  BY <1>2, <1>7, Signs
<1>9. /\ file[Creator] \subseteq file'[Creator] /\ NewRecords \subseteq file'[Creator]
      /\ \A e \in Devices \ {Creator} :
           \A X \in Replicas(e)' \ {{}} :
             \E Y \in Replicas(e) \ {{}} : Y \subseteq X
  BY <1>3, <1>4, <1>6, <1>7, <1>8, TransactKeeps
<1>10. ChainInv' /\ AppliesInv'
  <2>1. role # "admin"
    BY DEF OneAdmin
  <2>2. Suits(roles, drafts[1])
    BY <1>6 DEF Suits
  <2>3. /\ drafts[1].kind \in RosterOp \ {"genesis"} /\ drafts[1].subject # Creator
        /\ drafts[1].kind # "remove" => drafts[1].role # "admin"
        /\ Len(drafts) # 0
    BY <1>4, <1>6, <2>1 DEF RosterOp
  <2>4. \A n \in 2..Len(drafts) : drafts[n].kind \notin RosterOp /\ drafts[n].heads # {}
    BY <1>6
  <2>5. /\ signed' = signed \o Signing(Holds(Creator), Creator, drafts)
        /\ Admin(Creator, RosterOf(Holds(Creator)))
        /\ drafts[1].heads = HeadsOf(Holds(Creator), RosterOf(Holds(Creator)))
        /\ Suits(RolesNow(RosterOf(Holds(Creator))), drafts[1])
    BY <1>1, <1>3, <1>4, <1>6, <1>7, <2>2
  <2> HIDE DEF R, roles
  <2> QED BY <1>9, <2>3, <2>4, <2>5, OpApplies
<1>11. \A i \in NewRecords : signed'[i].kind = "role"
  <2>1. \A k \in 1..Len(drafts) : \A i : i = Len(signed) + k =>
          LET r == signed'[i]
              draft == drafts[k]
          IN  /\ i \in NewRecords /\ r.author = d
              /\ r.kind = draft.kind /\ r.heads = draft.heads /\ r.epoch = draft.epoch
              /\ r.subject = draft.subject /\ r.role = draft.role
              /\ r.height = draft.height /\ r.to = draft.to
    BY <1>2, <1>7, SignsAt
  <2>3. \A i \in NewRecords : \E k \in 1..Len(drafts) : i = Len(signed) + k
    <3>1. Len(drafts) = 1 /\ 1 \in 1..Len(drafts)
      BY <1>6
    <3>2. \A i \in NewRecords : i = Len(signed) + 1
      BY <1>8, <3>1, RecordTypes DEF NewRecords
    <3> QED BY <3>1, <3>2
  <2>2. \A k \in 1..Len(drafts) : drafts[k].kind = "role"
    <3>1. Len(drafts) = 1 /\ drafts[1].kind = "role"
      BY <1>6
    <3> QED BY <3>1
  <2> HIDE DEF R, roles
  <2>4. ASSUME NEW i \in NewRecords PROVE signed'[i].kind = "role"
    <3>1. PICK k \in 1..Len(drafts) : i = Len(signed) + k
      BY <2>3
    <3>2. signed'[i].kind = drafts[k].kind
      BY <2>1, <3>1
    <3> QED BY <2>2, <3>2
  <2> QED BY <2>4
<1>12. MembersInv'
  BY <1>2, <1>8, <1>11, MembersGrow
<1>13. EpochsInv'
  BY <1>2, <1>8, <1>11, EpochsGrow
<1>14. GrantsInv'
  BY <1>2, <1>8, <1>9, <1>11, GrantsKept
<1> QED BY <1>10, <1>12, <1>13, <1>14 DEF RosterInv

\* A device that is added has been granted every key there is.
LEMMA InviteRoster ==
  ASSUME OneAdmin, TypeOK, TypeOK', RosterInv, NEW d \in Devices, NEW m \in Devices \ {d},
         Invite(d, m)
  PROVE  RosterInv'
<1>1. PICK S \in SUBSET DOMAIN signed : S = Holds(d)
  BY HeldTypes
<1>2. PICK D \in SUBSET DOMAIN signed : D = DOMAIN signed
  OBVIOUS
<1>3. ChainInv /\ AppliesInv /\ MembersInv /\ EpochsInv /\ GrantsInv
  BY DEF RosterInv
<1> DEFINE R     == RosterOf(S)
           roles == RolesNow(R)
           keys  == KeysOf(S, R, d)
<1>4. Joined(d) /\ Admin(d, R)
  BY <1>1 DEF Invite
<1>5. d = Creator /\ m # Creator
  <2>1. Admin(d, RosterOf(Holds(d)))
    BY <1>1, <1>4
  <2>2. d = Creator
    BY <1>3, <2>1, AdminIsCreator
  <2> QED BY <2>2
<1>6. PICK drafts \in Drafts :
        /\ signed' = signed \o Signing(S, d, drafts) /\ Len(drafts) # 0
        /\ drafts[1].kind = "add" /\ drafts[1].subject = m
        /\ drafts[1].role \in GrantedRoles /\ drafts[1].heads = HeadsOf(S, R)
        /\ \A n \in 2..Len(drafts) :
             /\ drafts[n].kind = "grant" /\ drafts[n].heads = {Len(signed) + 1}
             /\ drafts[n].epoch \in keys /\ drafts[n].to = {m}
        /\ \A e \in keys : \E n \in 2..Len(drafts) : drafts[n].epoch = e
  <2>1. PICK drafts \in Drafts : Invitation(d, m, S, drafts)
    BY <1>1, InviteDrafts
  <2> QED BY <2>1 DEF Invitation
<1>7. signed' = signed \o Signing(Holds(d), d, drafts)
  BY <1>1, <1>6
<1>8. Grows /\ Len(signed') = Len(signed) + Len(drafts)
  BY <1>3, <1>7, Signs
<1>9. PICK N \in Nat : N = Len(signed) /\ NewRecords = (N + 1)..(N + Len(drafts))
                       /\ Len(drafts) \in Nat /\ N + 1 \in NewRecords
  <2>1. Len(drafts) \in Nat
    BY DEF Drafts
  <2>2. Len(drafts) >= 1 /\ Len(signed) \in Nat /\ Len(signed') = Len(signed) + Len(drafts)
    BY <1>6, <1>8, <2>1, RecordTypes
  <2> QED BY <2>1, <2>2 DEF NewRecords
<1>10. About("add", m) = {}
  BY DEF Invite, About, OfKind
<1>11. keys = OfKind({"new"}) /\ Lead(S) = OfKind(RosterOp)
  BY <1>1, <1>2, <1>3, <1>5, CreatorView
<1>12. roles[m] = "absent"
  <2>1. roles[m] = "absent" <=> Lead(S) \cap About("add", m) = {}
    BY <1>3, <1>5, RolesToday
  <2> QED BY <1>10, <2>1
<1>13. \/ /\ file' = [file EXCEPT ![d] = S \cup NewRecords, ![m] = S \cup NewRecords]
          /\ handle' = [handle EXCEPT ![d] = S \cup NewRecords, ![m] = S \cup NewRecords]
          /\ UNCHANGED copies
       \/ /\ file' = [file EXCEPT ![d] = S \cup NewRecords]
          /\ UNCHANGED <<handle, copies>>
  BY <1>1 DEF Invite, NewRecords
<1>14. /\ file \in [Devices -> SUBSET DOMAIN signed]
       /\ handle \in [Devices -> SUBSET DOMAIN signed]
       /\ copies \in [Devices -> SUBSET SUBSET DOMAIN signed]
  BY HeldTypes
<1>15. file'[d] = S \cup NewRecords /\ file[d] \subseteq S
  BY <1>1, <1>13, <1>14 DEF Holds
<1>16. ChainInv' /\ AppliesInv'
  <2>1. Suits(roles, drafts[1])
    BY <1>6, <1>12 DEF Suits
  <2>2. /\ drafts[1].kind \in RosterOp \ {"genesis"} /\ drafts[1].subject # Creator
        /\ drafts[1].kind # "remove" => drafts[1].role # "admin"
        /\ Len(drafts) # 0
    BY <1>5, <1>6 DEF RosterOp, OneAdmin
  <2>3. \A n \in 2..Len(drafts) : drafts[n].kind \notin RosterOp /\ drafts[n].heads # {}
    <3> SUFFICES ASSUME NEW n \in 2..Len(drafts)
                 PROVE  drafts[n].kind \notin RosterOp /\ drafts[n].heads # {}
      OBVIOUS
    <3>1. drafts[n].kind = "grant" /\ drafts[n].heads = {Len(signed) + 1}
      BY <1>6
    <3> QED BY <3>1 DEF RosterOp
  <2>4. /\ signed' = signed \o Signing(Holds(Creator), Creator, drafts)
        /\ Admin(Creator, RosterOf(Holds(Creator)))
        /\ drafts[1].heads = HeadsOf(Holds(Creator), RosterOf(Holds(Creator)))
        /\ Suits(RolesNow(RosterOf(Holds(Creator))), drafts[1])
    BY <1>1, <1>4, <1>5, <1>6, <1>7, <2>1
  <2>5. NewRecords \subseteq file'[Creator] /\ file[Creator] \subseteq file'[Creator]
    BY <1>5, <1>15
  <2> HIDE DEF R, roles, keys
  <2> QED BY <2>2, <2>3, <2>4, <2>5, OpApplies
<1>17. \A k \in 1..Len(drafts) : \A i : i = Len(signed) + k =>
         LET r == signed'[i]
             draft == drafts[k]
         IN  /\ i \in NewRecords /\ r.author = d
             /\ r.kind = draft.kind /\ r.heads = draft.heads /\ r.epoch = draft.epoch
             /\ r.subject = draft.subject /\ r.role = draft.role
             /\ r.height = draft.height /\ r.to = draft.to
  BY <1>3, <1>7, SignsAt
<1>18. /\ signed'[N + 1].kind = "add" /\ signed'[N + 1].subject = m
       /\ N + 1 \in About("add", m)' /\ N + 1 \in OfKind({"add"})'
  <2>1. 1 \in 1..Len(drafts) /\ N + 1 = Len(signed) + 1
    BY <1>6, <1>9
  <2>2. signed'[N + 1].kind = "add" /\ signed'[N + 1].subject = m
    BY <1>6, <1>17, <2>1
  <2>3. N + 1 \in DOMAIN signed'
    BY <1>8, <1>9
  <2> QED BY <2>2, <2>3, GrownRecords DEF About, OfKind
<1>19. ASSUME NEW n \in 2..Len(drafts), NEW i, i = N + n
       PROVE  /\ i \in NewRecords
              /\ signed'[i].author = Creator /\ signed'[i].kind = "grant"
              /\ signed'[i].heads = {N + 1} /\ signed'[i].epoch = drafts[n].epoch
              /\ signed'[i].epoch \in OfKind({"new"}) /\ signed'[i].to = {m}
  <2>1. n \in 1..Len(drafts) /\ i = Len(signed) + n
    BY <1>9, <1>19
  <2>2. LET r == signed'[i]
            draft == drafts[n]
        IN  /\ i \in NewRecords /\ r.author = d
            /\ r.kind = draft.kind /\ r.heads = draft.heads /\ r.epoch = draft.epoch
            /\ r.to = draft.to
    BY <1>17, <2>1
  <2>3. /\ drafts[n].kind = "grant" /\ drafts[n].heads = {Len(signed) + 1}
        /\ drafts[n].epoch \in OfKind({"new"}) /\ drafts[n].to = {m}
    BY <1>6, <1>11
  <2> QED BY <1>5, <1>9, <2>2, <2>3
<1>20. ASSUME NEW i \in NewRecords, i # N + 1
       PROVE  \E n \in 2..Len(drafts) : i = N + n
  <2>1. i - N \in 2..Len(drafts) /\ i = N + (i - N)
    BY <1>9, <1>20
  <2> QED BY <2>1
<1>21. \A i \in NewRecords : i # N + 1 => signed'[i].kind = "grant"
  BY <1>19, <1>20
<1> HIDE DEF R, roles, keys
<1>22. MembersInv'
  <2>1. ASSUME NEW i \in NewRecords, signed'[i].kind = "add", NEW j \in DOMAIN signed',
               signed'[j].kind = "add" /\ signed'[j].subject = signed'[i].subject
        PROVE  j = i
    <3>1. i = N + 1 /\ signed'[j].subject = m
      BY <1>18, <1>21, <2>1
    <3>2. j \notin DOMAIN signed
      BY <1>8, <1>10, <2>1, <3>1, GrownRecords DEF About, OfKind
    <3>3. j \in NewRecords
      BY <1>8, <3>2, GrownRecords
    <3> QED BY <1>21, <2>1, <3>1, <3>3
  <2>2. \A i \in NewRecords : signed'[i].kind # "remove"
    BY <1>18, <1>21
  <2> QED BY <1>3, <1>8, <2>1, <2>2, MembersGrow
<1>23. EpochsInv'
  <2>1. \A i \in NewRecords : signed'[i].kind # "new"
    BY <1>18, <1>21
  <2>2. ASSUME NEW i \in NewRecords, signed'[i].kind = "grant" PROVE GrantAt(i)'
    <3>1. i # N + 1
      BY <1>18, <2>2
    <3>2. PICK n \in 2..Len(drafts) : i = N + n
      BY <1>20, <3>1
    <3>3. /\ signed'[i].author = Creator /\ signed'[i].heads = {N + 1}
          /\ signed'[i].epoch \in OfKind({"new"}) /\ signed'[i].to = {m}
      BY <1>19, <3>2
    <3>4. signed'[i].epoch < N + 1
      BY <1>9, <3>3, RecordTypes DEF OfKind
    <3> QED BY <1>18, <3>3, <3>4 DEF GrantAt
  <2> QED BY <1>3, <1>8, <2>1, <2>2, EpochsGrow
<1>24. GrantsInv'
  <2>1. ASSUME NEW e \in Devices \ {Creator}, NEW X \in Replicas(e)' \ {{}}
        PROVE  /\ About("add", e)' # {}
               /\ \A a \in About("add", e)' : \A f \in Earlier({"new"}, a)' :
                    \E g \in X \cap OfKind({"grant"})' :
                      /\ signed'[g].heads = {a} /\ signed'[g].epoch = f
                      /\ signed'[g].to = {e}
    <3> DEFINE Has(Z) ==
          /\ About("add", e) # {}
          /\ \A a \in About("add", e) : \A f \in Earlier({"new"}, a) :
               \E g \in Z \cap OfKind({"grant"}) :
                 signed[g].heads = {a} /\ signed[g].epoch = f /\ signed[g].to = {e}
    <3>1. \A Z \in Replicas(e) \ {{}} : Has(Z)
      BY <1>3 DEF GrantsInv
    <3> HIDE DEF Has
    <3>2. CASE e # m
      <4>1. X \in Replicas(e) \ {{}}
        BY <1>5, <1>13, <1>14, <2>1, <3>2 DEF Replicas
      <4>2. Has(X)
        BY <3>1, <4>1
      <4>3. About("add", e)' = About("add", e)
        BY <1>8, <1>18, <1>21, <3>2, GrownRecords DEF About, OfKind
      <4>4. \A a \in About("add", e) : Earlier({"new"}, a)' = Earlier({"new"}, a)
        BY <1>8, KindsGrow DEF About, OfKind
      <4>5. \A g \in OfKind({"grant"}) : g \in OfKind({"grant"})' /\ signed'[g] = signed[g]
        BY <1>8, GrownRecords DEF OfKind
      <4> QED BY <4>2, <4>3, <4>4, <4>5 DEF Has
    <3>3. CASE e = m
      <4>1. file[m] = {} /\ handle[m] = {} /\ copies[m] \subseteq {{}}
        BY <1>10, <3>1, <3>3 DEF Has, Replicas
      <4>2. X = S \cup NewRecords
        BY <1>5, <1>13, <1>14, <2>1, <3>3, <4>1 DEF Replicas
      <4>3. About("add", e)' = {N + 1}
        BY <1>8, <1>10, <1>18, <1>21, <3>3, GrownRecords DEF About, OfKind
      <4>4. Earlier({"new"}, N + 1)' = OfKind({"new"})
        <5>1. Earlier({"new"}, N + 1)' =
                OfKind({"new"}) \cup {j \in NewRecords : signed'[j].kind \in {"new"} /\ j < N + 1}
          BY <1>8, <1>9, KindsGrow
        <5>2. \A j \in NewRecords : signed'[j].kind \notin {"new"}
          BY <1>18, <1>21
        <5> QED BY <5>1, <5>2
      <4>5. ASSUME NEW f \in OfKind({"new"})
            PROVE  \E g \in X \cap OfKind({"grant"})' :
                     /\ signed'[g].heads = {N + 1} /\ signed'[g].epoch = f
                     /\ signed'[g].to = {e}
        <5>1. PICK n \in 2..Len(drafts) : drafts[n].epoch = f
          BY <1>6, <1>11
        <5>2. PICK g : g = N + n
          OBVIOUS
        <5>3. /\ g \in NewRecords /\ signed'[g].kind = "grant" /\ signed'[g].heads = {N + 1}
              /\ signed'[g].epoch = f /\ signed'[g].to = {m}
          BY <1>19, <5>1, <5>2
        <5>4. g \in OfKind({"grant"})'
          BY <1>8, <5>3, GrownRecords DEF OfKind
        <5> QED BY <3>3, <4>2, <5>3, <5>4
      <4> QED BY <4>3, <4>4, <4>5
    <3> QED BY <3>2, <3>3
  <2> QED BY <2>1 DEF GrantsInv
<1> QED BY <1>16, <1>22, <1>23, <1>24 DEF RosterInv

\* What is carried around is what was signed; the admin's replica only grows, for
\* nobody puts back an older copy of it.
LEMMA HandlingRoster ==
  ASSUME OneAdmin, TypeOK, TypeOK', RosterInv, NEW d \in Devices, Handles(d)
  PROVE  RosterInv'
<1>1. ChainInv /\ AppliesInv /\ MembersInv /\ EpochsInv /\ GrantsInv /\ Creator \in Devices
  BY SharedAssumption DEF RosterInv
<1>2. signed' = signed
  BY DEF Handles, ExchangeStep, Export, Import, Reopen, Backup, Restore
<1>3. Grows /\ NewRecords = {}
  <2>1. \A n \in Nat : (n + 1)..n = {}
    OBVIOUS
  <2> QED BY <1>2, <2>1, RecordTypes DEF Grows, Extended, NewRecords
<1>4. /\ file \in [Devices -> SUBSET DOMAIN signed]
      /\ handle \in [Devices -> SUBSET DOMAIN signed]
      /\ copies \in [Devices -> SUBSET SUBSET DOMAIN signed]
  BY HeldTypes
<1>5. /\ file[Creator] \subseteq file'[Creator]
      /\ \A e \in Devices \ {Creator} :
           \A X \in Replicas(e)' \ {{}} :
             \E Y \in Replicas(e) \ {{}} : Y \subseteq X
  <2>1. ASSUME NEW i \in DOMAIN signed, Export(d, i) PROVE <1>5!:
    BY <2>1 DEF Export, Replicas
  <2>2. ASSUME NEW i \in DOMAIN signed, Import(d, i) PROVE <1>5!:
    <3> DEFINE all == file[d] \cup handle[d] \cup {i}
    <3>1. /\ file' = [file EXCEPT ![d] = all] /\ handle' = [handle EXCEPT ![d] = all]
          /\ copies' = copies /\ file[d] # {} /\ file[d] \subseteq all
      BY <2>2 DEF Import, Joined
    <3> HIDE DEF all
    <3>2. /\ file'[d] = all /\ handle'[d] = all
          /\ \A e \in Devices \ {d} : file'[e] = file[e] /\ handle'[e] = handle[e]
      BY <1>4, <3>1
    <3>3. ASSUME NEW e \in Devices \ {Creator}, NEW X \in Replicas(e)' \ {{}}
          PROVE  \E Y \in Replicas(e) \ {{}} : Y \subseteq X
      <4>1. CASE e = d /\ X = all
        BY <3>1, <4>1 DEF Replicas
      <4>2. CASE X \in Replicas(e)
        BY <3>3, <4>2
      <4> QED BY <3>1, <3>2, <3>3, <4>1, <4>2 DEF Replicas
    <3> QED BY <1>1, <3>1, <3>2, <3>3
  <2>3. ASSUME Reopen(d) PROVE <1>5!:
    <3>1. file' = file /\ copies' = copies
          /\ \A e \in Devices : handle'[e] = IF e = d THEN file[e] ELSE handle[e]
      BY <1>4, <2>3 DEF Reopen
    <3> QED BY <1>1, <3>1 DEF Replicas
  <2>4. ASSUME Backup(d) PROVE <1>5!:
    <3>1. file' = file /\ handle' = handle
          /\ \A e \in Devices : copies'[e] \subseteq copies[e] \cup {file[e]}
      BY <1>4, <2>4 DEF Backup
    <3> QED BY <1>1, <3>1 DEF Replicas
  <2>5. ASSUME Restore(d) PROVE <1>5!:
    <3>1. PICK c \in copies[d] : file' = [file EXCEPT ![d] = c]
      BY <2>5 DEF Restore
    <3>2. handle' = handle /\ copies' = copies
          /\ \A e \in Devices : file'[e] = IF e = d THEN c ELSE file[e]
      BY <1>4, <2>5, <3>1 DEF Restore
    <3>3. d # Creator
      BY <2>5 DEF Restore, OneAdmin
    <3> QED BY <1>1, <3>1, <3>2, <3>3 DEF Replicas
  <2> QED BY <2>1, <2>2, <2>3, <2>4, <2>5 DEF Handles, ExchangeStep
<1>6. ChainInv'
  BY <1>1, <1>3, <1>5, ChainGrows
<1>7. AppliesInv'
  <2>1. PICK D \in SUBSET DOMAIN signed : D = DOMAIN signed
    OBVIOUS
  <2> QED BY <1>1, <1>3, <1>6, <2>1, AppliesGrows
<1>8. MembersInv'
  BY <1>1, <1>3, MembersGrow
<1>9. EpochsInv'
  BY <1>1, <1>3, EpochsGrow
<1>10. GrantsInv'
  BY <1>1, <1>3, <1>5, GrantsKept
<1> QED BY <1>6, <1>7, <1>8, <1>9, <1>10 DEF RosterInv

(***************************************************************************)
(* The records a vault starts with.                                        *)
(***************************************************************************)

\* The genesis and its epoch, then for each founder an addition and a grant.
LEMMA InitialFields ==
  LET joined == SetToSeq(Founders)
      all    == InitialRecords
  IN  /\ joined \in Seq(Founders) /\ Len(joined) \in Nat
      /\ DOMAIN all = 1..(2 + 2 * Len(joined))
      /\ /\ all[1].kind = "genesis" /\ all[1].subject = Creator
         /\ all[1].role = "admin" /\ all[1].heads = {}
      /\ all[2].kind = "new" /\ all[2].heads = {1} /\ all[2].to = {Creator}
      /\ \A k \in 1..Len(joined) :
           LET a == all[2 * k + 1]
               g == all[2 * k + 2]
           IN  /\ a.kind = "add" /\ a.subject = joined[k] /\ a.role = "writer"
               /\ a.heads = {2 * k - 1}
               /\ g.kind = "grant" /\ g.epoch = 2 /\ g.to = {joined[k]}
               /\ g.heads = {2 * k + 1}
<1> DEFINE joined == SetToSeq(Founders)
           all    == InitialRecords
           N == 2 + 2 * Len(joined)
           Placed(r, n, heads) ==
             [r EXCEPT !.seq = n - 1, !.prev = n - 1, !.heads = heads]
           Adding(n) == IF n = 0 THEN {1} ELSE {2 * n + 1}
           odd(n)  == LET k == (n - 1) \div 2
                      IN  Placed(Addition(joined[k], "writer"), n, Adding(k - 1))
           even(n) == LET k == (n - 1) \div 2
                      IN  Placed(Grant(2, joined[k]), n, Adding(k))
           second == Placed(NewEpoch(0, {Creator}), 2, {1})
<1>1. joined \in Seq(Founders)
  BY SetToSeqIs, SharedAssumption
<1>2. Founders \subseteq Devices /\ Creator \in Devices
  BY SharedAssumption
<1>3. /\ DOMAIN all = 1..N
      /\ \A n \in 1..N : all[n] = IF n = 1 THEN Blank
                                  ELSE IF n = 2 THEN Placed(NewEpoch(0, {Creator}), n, {1})
                                  ELSE IF n % 2 = 1 THEN odd(n) ELSE even(n)
  BY DEF InitialRecords
<1> HIDE DEF joined, all
<1>4. Len(joined) \in Nat /\ \A k \in 1..Len(joined) : joined[k] \in Devices
  BY <1>1, <1>2
<1>5. ASSUME NEW r \in Record, NEW n \in Nat \ {0}, NEW heads \in SUBSET Nat
      PROVE  LET p == Placed(r, n, heads)
             IN  /\ p.kind = r.kind /\ p.subject = r.subject /\ p.role = r.role
                 /\ p.epoch = r.epoch /\ p.to = r.to /\ p.heads = heads
  BY <1>5 DEF Record
<1> HIDE DEF Placed
<1>6. /\ all[1].kind = "genesis" /\ all[1].subject = Creator
      /\ all[1].role = "admin" /\ all[1].heads = {}
  <2>1. 1 \in 1..N
    BY <1>4
  <2>2. all[1] = Blank
    <3> HIDE DEF N, odd, even, Adding
    <3> QED BY <1>3, <2>1
  <2> QED BY <2>2 DEF Blank
<1>7. all[2].kind = "new" /\ all[2].heads = {1} /\ all[2].to = {Creator}
  <2> DEFINE r == NewEpoch(0, {Creator})
  <2>1. r \in Record /\ r.kind = "new" /\ r.to = {Creator}
    BY <1>2, BlankIs DEF Record, Blank, NewEpoch, EpochOp
  <2> HIDE DEF r
  <2>2. all[2] = Placed(r, 2, {1})
    <3>1. 2 \in 1..N
      BY <1>4
    <3> HIDE DEF N, odd, even, Adding
    <3> QED BY <1>3, <3>1 DEF r
  <2>3. 2 \in Nat \ {0} /\ {1} \in SUBSET Nat
    OBVIOUS
  <2> QED BY <1>5, <2>1, <2>2, <2>3
<1>8. ASSUME NEW k \in 1..Len(joined)
      PROVE  LET a == all[2 * k + 1]
                 g == all[2 * k + 2]
             IN  /\ a.kind = "add" /\ a.subject = joined[k] /\ a.role = "writer"
                 /\ a.heads = {2 * k - 1}
                 /\ g.kind = "grant" /\ g.epoch = 2 /\ g.to = {joined[k]}
                 /\ g.heads = {2 * k + 1}
  <2> DEFINE i == 2 * k + 1
             j == 2 * k + 2
             r == Addition(joined[k], "writer")
             s == Grant(2, joined[k])
  <2>1. /\ k \in Nat /\ i \in 1..N /\ j \in 1..N /\ i \notin {1, 2} /\ j \notin {1, 2}
        /\ i % 2 = 1 /\ j % 2 # 1 /\ (i - 1) \div 2 = k /\ (j - 1) \div 2 = k
    BY <1>4
  <2>2. i \in Nat \ {0} /\ j \in Nat \ {0}
    BY <2>1
  <2>3. Adding(k - 1) = {2 * k - 1} /\ Adding(k) = {2 * k + 1}
    BY <2>1
  <2>4. Adding(k - 1) \in SUBSET Nat /\ Adding(k) \in SUBSET Nat
    BY <2>1, <2>3
  <2>5. all[i] = Placed(r, i, Adding(k - 1)) /\ all[j] = Placed(s, j, Adding(k))
    <3>1. odd(i) = Placed(r, i, Adding(k - 1)) /\ even(j) = Placed(s, j, Adding(k))
      <4> HIDE DEF i, j, Adding
      <4> QED BY <2>1
    <3> HIDE DEF i, j, Adding, odd, even, r, s
    <3> QED BY <1>3, <2>1, <3>1
  <2>6. /\ r \in Record /\ r.kind = "add" /\ r.subject = joined[k] /\ r.role = "writer"
        /\ s \in Record /\ s.kind = "grant" /\ s.epoch = 2 /\ s.to = {joined[k]}
    BY <1>4, BlankIs DEF Record, Blank, Addition, Grant, RosterOp, EpochOp, Members
  <2> HIDE DEF i, j, r, s, Adding
  <2>7. LET a == all[i]
            g == all[j]
        IN  /\ a.kind = "add" /\ a.subject = joined[k] /\ a.role = "writer"
            /\ a.heads = Adding(k - 1)
            /\ g.kind = "grant" /\ g.epoch = 2 /\ g.to = {joined[k]} /\ g.heads = Adding(k)
    BY <1>5, <2>2, <2>4, <2>5, <2>6
  <2> QED BY <2>3, <2>7 DEF i, j
<1> QED BY <1>1, <1>3, <1>4, <1>6, <1>7, <1>8 DEF joined, all

\* Which records of the first are of which kind.
LEMMA InitialKinds ==
  ASSUME Init
  PROVE  LET joined == SetToSeq(Founders)
             L      == Len(joined)
         IN  /\ L \in Nat /\ DOMAIN signed = 1..(2 + 2 * L)
             /\ OfKind({"add"}) = {2 * k + 1 : k \in 1..L}
             /\ OfKind({"grant"}) = {2 * k + 2 : k \in 1..L}
             /\ OfKind({"new"}) = {2} /\ OfKind({"remove"}) = {}
             /\ OfKind(RosterOp) = {1} \cup {2 * k + 1 : k \in 1..L}
             /\ \A i \in DOMAIN signed : signed[i].kind = "genesis" <=> i = 1
             /\ signed[1].subject = Creator /\ signed[1].role = "admin"
             /\ signed[1].heads = {}
             /\ signed[2].heads = {1} /\ signed[2].to = {Creator}
             /\ \A k \in 1..L :
                  LET a == signed[2 * k + 1]
                      g == signed[2 * k + 2]
                  IN  /\ a.subject = joined[k] /\ a.role = "writer"
                      /\ a.heads = {2 * k - 1}
                      /\ g.epoch = 2 /\ g.to = {joined[k]} /\ g.heads = {2 * k + 1}
             /\ \A i \in DOMAIN signed : signed[i].author = Creator /\ signed[i].seq = i - 1
<1> DEFINE joined == SetToSeq(Founders)
           L      == Len(joined)
           odds   == {2 * k + 1 : k \in 1..L}
           evens  == {2 * k + 2 : k \in 1..L}
<1>1. signed = InitialRecords
  BY DEF Init
<1>2. /\ L \in Nat /\ DOMAIN signed = 1..(2 + 2 * L)
      /\ signed[1].kind = "genesis" /\ signed[1].subject = Creator
      /\ signed[1].role = "admin" /\ signed[1].heads = {}
      /\ signed[2].kind = "new" /\ signed[2].heads = {1} /\ signed[2].to = {Creator}
  BY <1>1, InitialFields
<1>3. \A k \in 1..L :
        LET a == signed[2 * k + 1]
            g == signed[2 * k + 2]
        IN  /\ a.kind = "add" /\ a.subject = joined[k] /\ a.role = "writer"
            /\ a.heads = {2 * k - 1}
            /\ g.kind = "grant" /\ g.epoch = 2 /\ g.to = {joined[k]}
            /\ g.heads = {2 * k + 1}
  BY <1>1, InitialFields
<1>4. \A i \in DOMAIN signed : signed[i].author = Creator /\ signed[i].seq = i - 1
  BY <1>1, InitialIs
<1> HIDE DEF joined, L
<1>5. ASSUME NEW i \in DOMAIN signed
      PROVE  i = 1 \/ i = 2 \/ \E k \in 1..L : i = 2 * k + 1 \/ i = 2 * k + 2
  <2>1. i \in Nat /\ i <= 2 + 2 * L /\ i >= 1
    BY <1>2
  <2> DEFINE k == (i - 1) \div 2
  <2>2. CASE i # 1 /\ i # 2
    <3>1. k \in 1..L /\ (i = 2 * k + 1 \/ i = 2 * k + 2)
      BY <1>2, <2>1, <2>2
    <3> HIDE DEF k
    <3> QED BY <3>1
  <2> QED BY <2>2
<1>6. \A k \in 1..L : 2 * k + 1 \in DOMAIN signed /\ 2 * k + 2 \in DOMAIN signed
                      /\ 2 * k + 1 # 1 /\ 2 * k + 2 # 1
  BY <1>2
<1>7. 1 \in DOMAIN signed /\ 2 \in DOMAIN signed
  BY <1>2
<1>8. \A i \in odds : i \in DOMAIN signed /\ signed[i].kind = "add" /\ i # 1
  BY <1>3, <1>6
<1>9. \A i \in evens : i \in DOMAIN signed /\ signed[i].kind = "grant" /\ i # 1
  BY <1>3, <1>6
<1>10. \A i \in DOMAIN signed : i = 1 \/ i = 2 \/ i \in odds \/ i \in evens
  BY <1>5
<1> HIDE DEF odds, evens
<1>11. /\ OfKind({"add"}) = odds /\ OfKind({"grant"}) = evens
       /\ OfKind({"new"}) = {2} /\ OfKind({"remove"}) = {}
       /\ OfKind(RosterOp) = {1} \cup odds
       /\ \A i \in DOMAIN signed : signed[i].kind = "genesis" <=> i = 1
  BY <1>2, <1>7, <1>8, <1>9, <1>10 DEF OfKind, RosterOp
<1> QED BY <1>2, <1>3, <1>4, <1>11 DEF joined, L, odds, evens

LEMMA InitRoster == Init => RosterInv
<1> SUFFICES ASSUME Init PROVE RosterInv
  OBVIOUS
<1> DEFINE joined == SetToSeq(Founders)
           L      == Len(joined)
<1>1. TypeOK
  BY InitTypes
<1>2. /\ L \in Nat /\ DOMAIN signed = 1..(2 + 2 * L)
      /\ OfKind({"add"}) = {2 * k + 1 : k \in 1..L}
      /\ OfKind({"grant"}) = {2 * k + 2 : k \in 1..L}
      /\ OfKind({"new"}) = {2} /\ OfKind({"remove"}) = {}
      /\ OfKind(RosterOp) = {1} \cup {2 * k + 1 : k \in 1..L}
      /\ \A i \in DOMAIN signed : signed[i].kind = "genesis" <=> i = 1
      /\ signed[1].subject = Creator /\ signed[1].role = "admin"
      /\ signed[1].heads = {}
      /\ signed[2].heads = {1} /\ signed[2].to = {Creator}
      /\ \A i \in DOMAIN signed : signed[i].author = Creator /\ signed[i].seq = i - 1
  BY InitialKinds
<1>3. \A k \in 1..L :
        LET a == signed[2 * k + 1]
            g == signed[2 * k + 2]
        IN  /\ a.subject = joined[k] /\ a.role = "writer"
            /\ a.heads = {2 * k - 1}
            /\ g.epoch = 2 /\ g.to = {joined[k]} /\ g.heads = {2 * k + 1}
  BY InitialKinds
<1>4. /\ \A m \in Founders : \E k \in 1..L : joined[k] = m
      /\ \A k, l \in 1..L : joined[k] = joined[l] => k = l
      /\ \A k \in 1..L : joined[k] \in Founders
  <2>1. IsFiniteSet(Founders)
    BY SharedAssumption
  <2> QED BY <2>1, SetToSeqIs
<1>5. Founders \subseteq Devices \ {Creator} /\ Creator \in Devices
  BY SharedAssumption
<1>6. /\ file = Start /\ handle = Start /\ copies = [d \in Devices |-> {}]
      /\ \A d \in Devices : Start[d] = IF d \in Founders \cup {Creator}
                                       THEN DOMAIN signed ELSE {}
  BY DEF Init, Start
<1> HIDE DEF joined, L
<1>7. ChainInv
  <2>1. ASSUME NEW i \in DOMAIN signed PROVE ChainAt(i)
    <3>1. i \in Nat /\ i >= 1
      BY <1>2
    <3>2. i # 1 => signed[i].heads # {}
      <4>1. i = 1 \/ i = 2 \/ i \in OfKind({"add"}) \/ i \in OfKind({"grant"})
        <5> DEFINE k == (i - 1) \div 2
        <5>1. i # 1 /\ i # 2 => k \in 1..L /\ (i = 2 * k + 1 \/ i = 2 * k + 2)
          <6>1. L \in Nat /\ i <= 2 + 2 * L
            BY <1>2
          <6> QED BY <3>1, <6>1
        <5> HIDE DEF k
        <5> QED BY <1>2, <5>1
      <4>2. \A k \in 1..L : /\ signed[2 * k + 1].heads = {2 * k - 1}
                            /\ signed[2 * k + 2].heads = {2 * k + 1}
        BY <1>3
      <4>3. CASE i = 2
        BY <1>2, <4>3
      <4>4. CASE i \in OfKind({"add"}) \cup OfKind({"grant"})
        <5>1. PICK k \in 1..L : i = 2 * k + 1 \/ i = 2 * k + 2
          BY <1>2, <4>4
        <5>2. signed[i].heads = {2 * k - 1} \/ signed[i].heads = {2 * k + 1}
          BY <4>2, <5>1
        <5> QED BY <5>2
      <4> QED BY <4>1, <4>3, <4>4
    <3>3. i \in file[Creator]
      BY <1>5, <1>6
    <3>4. \A j \in DOMAIN signed : j < i => signed[j].seq < signed[i].seq
      BY <1>2
    <3>5. ASSUME i \in OfKind(RosterOp)
          PROVE  /\ signed[i].heads = {j \in Earlier(RosterOp, i) :
                                         \A k \in Earlier(RosterOp, i) : k <= j}
                 /\ IF i = 1 THEN signed[i].subject = Creator /\ signed[i].role = "admin"
                    ELSE /\ signed[i].subject # Creator
                         /\ signed[i].kind # "remove" => signed[i].role # "admin"
      <4>1. CASE i = 1
        <5>1. Earlier(RosterOp, i) = {}
          BY <1>2, <4>1 DEF Earlier
        <5> QED BY <1>2, <4>1, <5>1
      <4>2. CASE i # 1
        <5>1. PICK k \in 1..L : i = 2 * k + 1
          BY <1>2, <3>5, <4>2
        <5>2. /\ signed[i].heads = {2 * k - 1} /\ signed[i].subject = joined[k]
              /\ signed[i].role = "writer"
          BY <1>3, <5>1
        <5>3. 2 * k - 1 \in Earlier(RosterOp, i)
          <6>1. CASE k = 1
            BY <1>2, <5>1, <6>1 DEF Earlier
          <6>2. CASE k # 1
            <7>1. k - 1 \in 1..L /\ 2 * k - 1 = 2 * (k - 1) + 1 /\ 2 * k - 1 < i
              BY <1>2, <5>1, <6>2
            <7> QED BY <1>2, <7>1 DEF Earlier
          <6> QED BY <6>1, <6>2
        <5>4. \A j \in Earlier(RosterOp, i) : j \in Nat /\ j <= 2 * k - 1
          <6>1. ASSUME NEW j \in Earlier(RosterOp, i) PROVE j \in Nat /\ j <= 2 * k - 1
            <7>1. j = 1 \/ \E l \in 1..L : j = 2 * l + 1
              BY <1>2 DEF Earlier
            <7>2. j < 2 * k + 1
              BY <5>1 DEF Earlier
            <7>3. CASE j = 1
              BY <5>1, <7>3
            <7>4. ASSUME NEW l \in 1..L, j = 2 * l + 1 PROVE j \in Nat /\ j <= 2 * k - 1
              <8>1. l < k
                BY <1>2, <5>1, <7>2, <7>4
              <8> QED BY <1>2, <7>4, <8>1
            <7> QED BY <7>1, <7>3, <7>4
          <6> QED BY <6>1
        <5>5. {2 * k - 1} = {j \in Earlier(RosterOp, i) :
                               \A l \in Earlier(RosterOp, i) : l <= j}
          <6> DEFINE top == 2 * k - 1
          <6>1. top \in Earlier(RosterOp, i) /\ top \in Nat
                /\ \A j \in Earlier(RosterOp, i) : j \in Nat /\ j <= top
            BY <5>3, <5>4
          <6> HIDE DEF top
          <6>2. \A j \in Earlier(RosterOp, i) :
                  (\A l \in Earlier(RosterOp, i) : l <= j) => j = top
            BY <6>1
          <6> QED BY <6>1, <6>2 DEF top
        <5> QED BY <1>4, <1>5, <4>2, <5>2, <5>5
      <4> QED BY <4>1, <4>2
    <3>6. signed[i].kind \in RosterOp => i \in OfKind(RosterOp)
      BY DEF OfKind
    <3> QED BY <1>2, <3>2, <3>3, <3>4, <3>5, <3>6 DEF ChainAt
  <2> QED BY <2>1, ChainIs
<1>8. \A i, j \in OfKind({"add"}) : signed[i].subject = signed[j].subject => i = j
  <2> SUFFICES ASSUME NEW i \in OfKind({"add"}), NEW j \in OfKind({"add"}),
                      signed[i].subject = signed[j].subject
               PROVE  i = j
    OBVIOUS
  <2>1. PICK k \in 1..L : i = 2 * k + 1
    BY <1>2
  <2>2. PICK l \in 1..L : j = 2 * l + 1
    BY <1>2
  <2>3. joined[k] = joined[l]
    BY <1>3, <2>1, <2>2
  <2> QED BY <1>4, <2>1, <2>2, <2>3
<1>9. MembersInv
  BY <1>2, <1>8 DEF MembersInv
<1>10. AppliesInv
  <2>1. PICK S \in SUBSET DOMAIN signed : S = DOMAIN signed
    OBVIOUS
  <2> DEFINE R   == RosterOf(S)
             bad == {n \in 1..Len(R.order) : ~Applies(R.roles[n], signed[R.order[n]])}
  <2>2. /\ R.order = Order(S) /\ DOMAIN R.order = 1..Len(R.order) /\ Len(R.order) \in Nat
        /\ \A n \in 1..Len(R.order) :
             R.order[n] \in OfKind(RosterOp) /\ (R.order[n] = 1 <=> n = 1)
    BY <1>1, <1>7, ChainOrder
  <2>3. Rising(R.order)
    BY <1>1, <1>7, <2>2, OrderIsLead
  <2>4. ASSUME NEW n \in bad, \A m \in bad : n <= m PROVE FALSE
    <3>1. n \in 1..Len(R.order) /\ n - 1 \in 0..Len(R.order) /\ n = (n - 1) + 1
      BY <2>2
    <3>2. \A m \in 1..(n - 1) : Applies(R.roles[m], signed[R.order[m]])
      BY <2>2, <2>4, <3>1
    <3>3. /\ n - 1 # 0 => R.roles[(n - 1) + 1][Creator] = "admin"
          /\ \A m \in Devices \ {Creator} :
               R.roles[(n - 1) + 1][m] = "absent" <=> ~Told(R.order, n - 1, "add", m)
      BY <1>1, <1>7, <3>1, <3>2, RolesAre
    <3> DEFINE i == R.order[n]
    <3>4. i \in OfKind(RosterOp) /\ (i = 1 <=> n = 1)
      BY <2>2, <3>1
    <3>5. ~Applies(R.roles[n], signed[i])
      OBVIOUS
    <3>6. n # 1
      <4>1. 1 \in DOMAIN signed
        BY <1>2
      <4> QED BY <1>2, <3>4, <3>5, <4>1 DEF Applies
    <3>7. i \in OfKind({"add"}) /\ i \in DOMAIN signed
      BY <1>2, <3>4, <3>6 DEF OfKind
    <3>8. PICK k \in 1..L : i = 2 * k + 1
      BY <1>2, <3>7
    <3>9. signed[i].subject = joined[k] /\ joined[k] \in Devices \ {Creator}
          /\ signed[i].kind = "add" /\ signed[i].author = Creator
      BY <1>2, <1>3, <1>4, <1>5, <3>7, <3>8 DEF OfKind
    <3>10. ~Told(R.order, n - 1, "add", joined[k])
      <4>1. ASSUME NEW m \in 1..(n - 1), signed[R.order[m]].kind = "add",
                   signed[R.order[m]].subject = joined[k]
            PROVE  FALSE
        <5>1. m \in 1..Len(R.order) /\ m < n
          BY <2>2, <3>1
        <5>2. R.order[m] < R.order[n] /\ R.order[m] \in OfKind(RosterOp)
          BY <2>2, <2>3, <3>1, <5>1 DEF Rising
        <5>3. R.order[m] \in OfKind({"add"})
          BY <4>1, <5>2 DEF OfKind
        <5>4. R.order[m] = R.order[n]
          BY <1>8, <3>7, <3>9, <4>1, <5>3
        <5>5. R.order[n] \in Nat
          BY <1>2, <3>7
        <5> QED BY <5>2, <5>4, <5>5
      <4> QED BY <4>1 DEF Told
    <3>11. R.roles[n][Creator] = "admin" /\ R.roles[n][joined[k]] = "absent"
      BY <3>1, <3>3, <3>6, <3>9, <3>10
    <3> QED BY <3>5, <3>9, <3>11 DEF Applies
  <2>5. bad = {}
    <3>1. bad \subseteq Nat
      OBVIOUS
    <3> HIDE DEF bad
    <3> QED BY <2>4, <3>1, LeastNatural
  <2> QED BY <2>1, <2>2, <2>5 DEF AppliesInv
<1>11. EpochsInv
  <2>1. ASSUME NEW e \in OfKind({"new"}) PROVE EpochAt(e)
    <3>1. e = 2 /\ e - 1 = 1
      BY <1>2
    <3>2. MembersAt(e) = {Creator}
      <4>1. \A m : \A j \in About("add", m) : ~(j < 2)
        <5>1. \A j \in OfKind({"add"}) : ~(j < 2)
          BY <1>2
        <5> QED BY <5>1 DEF About
      <4> QED BY <3>1, <4>1 DEF MembersAt
    <3>3. 2 \in DOMAIN signed
      BY <1>2
    <3>4. \A f \in OfKind({"new"}) : ~(f < e)
      BY <1>2, <3>1
    <3> QED BY <1>2, <3>1, <3>2, <3>3, <3>4 DEF EpochAt
  <2>2. ASSUME NEW g \in OfKind({"grant"}) PROVE GrantAt(g)
    <3>1. PICK k \in 1..L : g = 2 * k + 2
      BY <1>2
    <3>2. signed[g].heads = {2 * k + 1} /\ signed[g].epoch = 2 /\ signed[g].to = {joined[k]}
      BY <1>3, <3>1
    <3>3. /\ 2 * k + 1 \in OfKind({"add"}) /\ 2 < 2 * k + 1
          /\ signed[2 * k + 1].subject = joined[k] /\ g \in DOMAIN signed
      BY <1>2, <1>3, <3>1
    <3>4. signed[g].author = Creator
      BY <1>2, <3>3
    <3> QED BY <3>2, <3>3, <3>4 DEF GrantAt
  <2> QED BY <2>1, <2>2 DEF EpochsInv, EpochAt, GrantAt
<1>12. GrantsInv
  <2>1. ASSUME NEW d \in Devices \ {Creator}, NEW X \in Replicas(d) \ {{}}
        PROVE  /\ About("add", d) # {}
               /\ \A a \in About("add", d) : \A e \in Earlier({"new"}, a) :
                    \E g \in X \cap OfKind({"grant"}) :
                      signed[g].heads = {a} /\ signed[g].epoch = e /\ signed[g].to = {d}
    <3>1. d \in Founders /\ X = DOMAIN signed
      BY <1>6, <2>1 DEF Replicas
    <3>2. PICK k \in 1..L : joined[k] = d
      BY <1>4, <3>1
    <3>3. 2 * k + 1 \in About("add", d)
      BY <1>2, <1>3, <3>2 DEF About
    <3>4. \A a \in About("add", d) : a = 2 * k + 1
      BY <1>8, <3>3 DEF About
    <3>5. \A e \in Earlier({"new"}, 2 * k + 1) : e = 2
      BY <1>2 DEF Earlier
    <3> DEFINE g == 2 * k + 2
    <3>6. /\ g \in X \cap OfKind({"grant"})
          /\ signed[g].heads = {2 * k + 1} /\ signed[g].epoch = 2 /\ signed[g].to = {d}
      BY <1>2, <1>3, <3>1, <3>2
    <3> HIDE DEF g
    <3> QED BY <3>3, <3>4, <3>5, <3>6
  <2> QED BY <2>1 DEF GrantsInv
<1> QED BY <1>7, <1>9, <1>10, <1>11, <1>12 DEF RosterInv

LEMMA StepRoster == OneAdmin /\ TypeOK /\ RosterInv /\ [Next]_vars => RosterInv'
<1> SUFFICES ASSUME OneAdmin, TypeOK, RosterInv, [Next]_vars PROVE RosterInv'
  OBVIOUS
<1>1. TypeOK'
  BY StepTypes
<1>2. CASE UNCHANGED vars
  <2>1. /\ signed' = signed /\ file' = file /\ handle' = handle /\ copies' = copies
    BY <1>2 DEF vars, stateVars
  <2>2. Grows /\ NewRecords = {}
    <3>1. \A n \in Nat : (n + 1)..n = {}
      OBVIOUS
    <3> QED BY <2>1, <3>1, RecordTypes DEF Grows, Extended, NewRecords
  <2>3. ChainInv /\ AppliesInv /\ MembersInv /\ EpochsInv /\ GrantsInv
    BY DEF RosterInv
  <2>4. ChainInv'
    BY <1>1, <2>1, <2>2, <2>3, ChainGrows
  <2>5. AppliesInv'
    <3>1. PICK D \in SUBSET DOMAIN signed : D = DOMAIN signed
      OBVIOUS
    <3> QED BY <1>1, <2>2, <2>3, <2>4, <3>1, AppliesGrows
  <2>6. MembersInv' /\ EpochsInv'
    BY <1>1, <2>2, <2>3, MembersGrow, EpochsGrow
  <2>7. GrantsInv'
    BY <1>1, <2>1, <2>2, <2>3, GrantsKept DEF Replicas
  <2> QED BY <2>4, <2>5, <2>6, <2>7 DEF RosterInv
<1>3. ASSUME NEW d \in Devices, ItemStep(d) PROVE RosterInv'
  <2>1. PICK kind \in ItemOp, value \in Values \cup {Deleted}, time \in Times :
          WriteVersion(d, kind, value, time)
    BY <1>3 DEF ItemStep, PutItem, DeleteItem, ItemOp
  <2> QED BY <1>1, <2>1, WriteRoster
<1>4. ASSUME NEW d \in Devices, AdminStep(d) PROVE RosterInv'
  BY <1>1, <1>4, RemovalRoster, RoleRoster, InviteRoster DEF AdminStep
<1>5. ASSUME NEW d \in Devices, Handles(d) PROVE RosterInv'
  BY <1>1, <1>5, HandlingRoster
<1> QED BY <1>2, <1>3, <1>4, <1>5 DEF Next, Handles

\* With one admin, the roster's records are a chain that every device has a beginning
\* of, and whoever joined has every key there was (linearize, invite).
THEOREM SharedRoster == OneAdmin /\ Spec => []RosterInv
<1>1. OneAdmin /\ [Next]_vars => OneAdmin'
  BY DEF OneAdmin
<1> QED BY <1>1, InitRoster, StepRoster, SharedTypeCorrect, PTL DEF Spec

\* With one admin, a device goes on accepting what it accepted, in whatever order
\* records arrive: a version's author is judged by the roster its version names
\* (authority, SharedView::compute).
THEOREM SharedAcceptedStays == OneAdmin /\ Spec => []AcceptedStays
<1>1. TypeOK /\ RosterInv => AcceptedStays
  BY ChainAccepts DEF RosterInv
<1> QED BY <1>1, SharedRoster, SharedTypeCorrect, PTL

\* With one admin, members that hold the same records accept the same versions, from
\* which each merges the item it shows, whoever joined when and whoever was set back
\* (KeyRing::build, merge).
THEOREM SharedMembersAgree == OneAdmin /\ Spec => []MembersAgree
<1>1. TypeOK /\ RosterInv => MembersAgree
  BY KeysAgree DEF RosterInv
<1> QED BY <1>1, SharedRoster, SharedTypeCorrect, PTL

\* With one admin, a device that holds both records of a removal writes nothing more
\* that the removed one could read (remove_member, rotate).
THEOREM SharedRotationKeepsOut == OneAdmin /\ Spec => []RotationKeepsOut
<1>1. TypeOK /\ RosterInv => RotationKeepsOut
  BY RotatedOut DEF RosterInv
<1> QED BY <1>1, SharedRoster, SharedTypeCorrect, PTL
=============================================================================
