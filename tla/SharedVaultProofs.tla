------------------------- MODULE SharedVaultProofs -------------------------
(***************************************************************************)
(* Theorems about shared vaults: types, positions that are used once, and  *)
(* that a person sees what they wrote.                                     *)
(***************************************************************************)
EXTENDS SharedVault, FiniteSetTheorems, SequenceTheorems, TLAPS

(***************************************************************************)
(* Least and greatest members. A set of naturals has a least one, and so   *)
(* one that holds 0 and all successors holds every natural.                *)
(***************************************************************************)

\* A set of naturals has a least one.
LEMMA LeastNatural ==
  ASSUME NEW T, T \subseteq Nat, T # {}
  PROVE  \E m \in T : \A n \in T : m <= n
<1>1. \E x \in T : \A y \in T : ~(<<y, x>> \in OpToRel(<, Nat))
  BY NatLessThanWellFounded, WFMin
<1>2. PICK x \in T : \A y \in T : ~(<<y, x>> \in OpToRel(<, Nat))
  BY <1>1
<1>3. ASSUME NEW y \in T, y < x PROVE FALSE
  <2>1. y \in Nat /\ x \in Nat
    OBVIOUS
  <2>2. <<y, x>> \in Nat \X Nat /\ <<y, x>>[1] < <<y, x>>[2]
    BY <1>3, <2>1
  <2>3. <<y, x>> \in OpToRel(<, Nat)
    BY <2>2 DEF OpToRel
  <2> QED BY <1>2, <2>3
<1> QED BY <1>3

\* Induction, for a set of naturals.
LEMMA InductiveSet ==
  ASSUME NEW Good, 0 \in Good, \A n \in Nat : n \in Good => n + 1 \in Good
  PROVE  Nat \subseteq Good
<1> SUFFICES ASSUME Nat \ Good # {} PROVE FALSE
  OBVIOUS
<1>1. PICK m \in Nat \ Good : \A n \in Nat \ Good : m <= n
  BY LeastNatural
<1>2. m # 0 /\ m - 1 \in Nat
  BY <1>1
<1>3. m - 1 \in Good
  BY <1>1, <1>2
<1> QED BY <1>1, <1>2, <1>3

\* A bounded set of naturals has a greatest one.
LEMMA GreatestNatural ==
  ASSUME NEW n \in Nat, NEW T, T \subseteq 0..n, T # {}
  PROVE  \E m \in T : \A k \in T : k <= m
<1> DEFINE U == {n - k : k \in T}
<1>1. U \subseteq Nat /\ U # {}
  <2>1. \A k \in T : n - k \in Nat
    OBVIOUS
  <2> QED BY <2>1
<1>2. PICK u \in U : \A v \in U : u <= v
  BY <1>1, LeastNatural
<1>3. PICK m \in T : u = n - m
  OBVIOUS
<1>4. ASSUME NEW k \in T PROVE k <= m
  <2>1. n - k \in U
    OBVIOUS
  <2> QED BY SMTT(40), <1>2, <1>3, <2>1
<1> QED BY <1>4

\* Of places with a number each, one has the greatest.
LEMMA GreatestOf ==
  ASSUME NEW N \in Nat, NEW f, \A i \in 1..N : f[i] \in Nat,
         NEW T, T \subseteq 1..N, T # {}
  PROVE  \E m \in T : \A k \in T : f[k] <= f[m]
<1> DEFINE Top(U) == \E m \in U : \A k \in U : f[k] <= f[m]
           Good   == {n \in Nat : n <= N => \A U \in SUBSET (1..n) : U # {} => Top(U)}
<1>1. 0 \in Good
  <2>1. \A U \in SUBSET (1..0) : U = {}
    OBVIOUS
  <2> QED BY <2>1
<1>2. ASSUME NEW n \in Nat, n \in Good PROVE n + 1 \in Good
  <2> SUFFICES ASSUME n + 1 <= N, NEW U \in SUBSET (1..(n + 1)), U # {} PROVE Top(U)
    OBVIOUS
  <2> DEFINE V == U \ {n + 1}
  <2>1. V \in SUBSET (1..n) /\ n <= N /\ \A k \in U : f[k] \in Nat
    OBVIOUS
  <2>2. CASE n + 1 \notin U
    BY <1>2, <2>1, <2>2
  <2>3. CASE V = {}
    <3>1. n + 1 \in U /\ \A k \in U : k = n + 1
      BY <2>3
    <3>2. f[n + 1] \in Nat
      BY <2>1, <3>1
    <3>3. \A k \in U : f[k] <= f[n + 1]
      BY <3>1, <3>2
    <3> QED BY <3>1, <3>3
  <2>4. CASE n + 1 \in U /\ V # {}
    <3>1. PICK m \in V : \A k \in V : f[k] <= f[m]
      BY <1>2, <2>1, <2>4
    <3>2. CASE f[n + 1] <= f[m]
      BY <3>1, <3>2
    <3>3. CASE f[m] < f[n + 1]
      BY <2>1, <2>4, <3>1, <3>3
    <3> QED BY <2>1, <2>4, <3>2, <3>3
  <2> QED BY <2>2, <2>3, <2>4
<1> HIDE DEF Good
<1>3. N \in Good
  BY <1>1, <1>2, InductiveSet
<1> QED BY <1>3 DEF Good

(***************************************************************************)
(* Records.                                                                *)
(***************************************************************************)

\* The types of the records and of what devices hold.
LEMMA RecordTypes ==
  ASSUME TypeOK
  PROVE  /\ Len(signed) \in Nat /\ DOMAIN signed = 1..Len(signed)
         /\ \A i \in DOMAIN signed :
              /\ signed[i] \in Record
              /\ signed[i].seq \in Nat /\ signed[i].rank \in Nat
              /\ signed[i].height \in Nat /\ signed[i].author \in Devices
              /\ signed[i].heads \subseteq 0..(i - 1)
              /\ signed[i].parents \subseteq 0..(i - 1)
              /\ signed[i].prev \in 0..(i - 1)
              /\ signed[i].subject \in Devices
<1>1. signed \in Seq(Record)
  BY DEF TypeOK
<1>2. Len(signed) \in Nat /\ DOMAIN signed = 1..Len(signed)
      /\ \A i \in DOMAIN signed : signed[i] \in Record
  BY <1>1
<1> QED BY <1>2 DEF TypeOK, Record

\* Of records that are there, one comes before the others.
LEMMA SmallestIs ==
  ASSUME TypeOK, NEW T, T \subseteq DOMAIN signed, T # {}
  PROVE  /\ Smallest(T) \in T
         /\ \A j \in T \ {Smallest(T)} : Before(Smallest(T), j)
<1> DEFINE ranks == {signed[i].rank : i \in T}
<1>1. ranks \subseteq Nat /\ ranks # {}
  BY RecordTypes
<1>2. PICK m \in ranks : \A k \in ranks : m <= k
  BY <1>1, LeastNatural
<1> DEFINE U == {i \in T : signed[i].rank = m}
<1>3. U \subseteq Nat /\ U # {}
  BY RecordTypes
<1>4. PICK i \in U : \A k \in U : i <= k
  BY <1>3, LeastNatural
<1>5. ASSUME NEW j \in T \ {i} PROVE Before(i, j)
  <2>1. signed[j].rank \in ranks /\ signed[i].rank = m
    OBVIOUS
  <2>2. i \in DOMAIN signed /\ j \in DOMAIN signed /\ i # j
    BY <1>4
  <2>3. i \in Nat /\ j \in Nat
    BY <2>2, RecordTypes
  <2>4. m \in Nat /\ signed[j].rank \in Nat /\ m <= signed[j].rank
    BY <1>1, <1>2, <2>1
  <2>5. CASE signed[j].rank = m
    <3>1. j \in U
      BY <2>5
    <3> QED BY <1>4, <2>1, <2>2, <2>3, <2>5, <3>1 DEF Before
  <2>6. CASE signed[j].rank # m
    BY <2>1, <2>4, <2>6 DEF Before
  <2> QED BY <2>5, <2>6
<1>6. i \in T /\ \A j \in T \ {i} : Before(i, j)
  BY <1>5
<1> HIDE DEF U, ranks
<1> QED BY <1>6 DEF Smallest

(***************************************************************************)
(* The roster.                                                             *)
(***************************************************************************)

\* The records linearize places: those whose heads are here.
Graph(S) == {i \in Kept(S) : signed[i].heads \subseteq Kept(S)}

\* The sequences linearize grows, one record at a time.
IsGrown(grown, S, N) ==
  grown = [n \in 0..N |->
    IF n = 0 THEN <<>>
    ELSE LET before == grown[n - 1]
             done   == Elements(before)
             ready  == {i \in Graph(S) \ done : Edges(Kept(S), i) \subseteq done}
         IN  IF ready = {} THEN before ELSE Append(before, Smallest(ready))]

\* The recursive function that orders the roster exists.
LEMMA GrownExists ==
  ASSUME NEW S, NEW N \in Nat
  PROVE  \E grown : IsGrown(grown, S, N)
<1> DEFINE Good == {n \in Nat : \E grown : IsGrown(grown, S, n)}
<1>1. 0 \in Good
  <2> DEFINE none == [n \in 0..0 |-> <<>>]
  <2>1. IsGrown(none, S, 0)
    BY DEF IsGrown
  <2> QED BY <2>1
<1>2. ASSUME NEW n \in Nat, n \in Good PROVE n + 1 \in Good
  <2>1. PICK grown : IsGrown(grown, S, n)
    BY <1>2
  <2> DEFINE next(f, k) ==
               IF k = 0 THEN <<>>
               ELSE LET before == f[k - 1]
                        done   == Elements(before)
                        ready  == {i \in Graph(S) \ done : Edges(Kept(S), i) \subseteq done}
                    IN  IF ready = {} THEN before ELSE Append(before, Smallest(ready))
             more == [k \in 0..(n + 1) |-> next(grown, k)]
  <2>2. grown = [k \in 0..n |-> next(grown, k)]
    BY <2>1 DEF IsGrown
  <2> HIDE DEF next
  <2>3. \A k \in 0..n : more[k] = grown[k]
    BY <2>2
  <2>4. ASSUME NEW k \in 0..(n + 1) PROVE next(grown, k) = next(more, k)
    <3>1. k # 0 => grown[k - 1] = more[k - 1]
      BY <2>3
    <3> QED BY <3>1 DEF next
  <2>5. more = [k \in 0..(n + 1) |-> next(more, k)]
    BY <2>4
  <2>6. IsGrown(more, S, n + 1)
    BY <2>5 DEF IsGrown, next
  <2> QED BY <2>6
<1> HIDE DEF Good
<1>3. N \in Good
  BY <1>1, <1>2, InductiveSet
<1> QED BY <1>3 DEF Good

\* What linearize gives: records of the graph, each once, each after its edges.
Linear(S, order) ==
  /\ order \in Seq(Graph(S))
  /\ \A m, n \in 1..Len(order) : order[m] = order[n] => m = n
  /\ \A n \in 1..Len(order) : \A i \in Edges(Kept(S), order[n]) :
       \E m \in 1..(n - 1) : order[m] = i

\* Every longer order is linear.
LEMMA LinearGrows ==
  ASSUME TypeOK, NEW S \in SUBSET DOMAIN signed, NEW order, Linear(S, order),
         NEW ready,
         ready = {i \in Graph(S) \ Elements(order) :
                    Edges(Kept(S), i) \subseteq Elements(order)},
         ready # {}
  PROVE  Linear(S, Append(order, Smallest(ready)))
<1> DEFINE next == Smallest(ready)
           longer == Append(order, next)
<1>1. next \in ready
  <2>1. ready \subseteq DOMAIN signed
    BY DEF Graph, Kept
  <2> QED BY <2>1, SmallestIs
<1> HIDE DEF next
<1>2. order \in Seq(Graph(S)) /\ next \in Graph(S) /\ Len(order) \in Nat
  BY <1>1 DEF Linear
<1>3. /\ longer \in Seq(Graph(S)) /\ Len(longer) = Len(order) + 1
      /\ \A n \in 1..Len(order) : longer[n] = order[n]
      /\ longer[Len(order) + 1] = next
  BY <1>2
<1>4. \A n \in 1..Len(order) : order[n] # next
  BY <1>1, <1>2 DEF Elements
<1>5. \A i \in Edges(Kept(S), next) : \E m \in 1..Len(order) : order[m] = i
  BY <1>1, <1>2 DEF Elements
<1> HIDE DEF longer
<1>6. ASSUME NEW m \in 1..Len(longer), NEW n \in 1..Len(longer), longer[m] = longer[n]
      PROVE  m = n
  BY <1>2, <1>3, <1>4, <1>6 DEF Linear
<1>7. ASSUME NEW n \in 1..Len(longer), NEW i \in Edges(Kept(S), longer[n])
      PROVE  \E m \in 1..(n - 1) : longer[m] = i
  <2>1. CASE n \in 1..Len(order)
    <3>1. PICK m \in 1..(n - 1) : order[m] = i
      BY <1>3, <1>7, <2>1 DEF Linear
    <3> QED BY <1>2, <1>3, <2>1, <3>1
  <2>2. CASE n = Len(order) + 1
    <3>1. PICK m \in 1..Len(order) : order[m] = i
      BY <1>3, <1>5, <1>7, <2>2
    <3> QED BY <1>2, <1>3, <2>2, <3>1
  <2> QED BY <1>2, <1>3, <2>1, <2>2
<1> QED BY <1>3, <1>6, <1>7 DEF Linear, longer, next

\* What linearize returns is linear.
LEMMA OrderLinear ==
  ASSUME TypeOK, NEW S \in SUBSET DOMAIN signed
  PROVE  Linear(S, Order(S))
<1> DEFINE N == Cardinality(Graph(S))
<1>1. N \in Nat
  <2>1. Graph(S) \subseteq 1..Len(signed)
    BY RecordTypes DEF Graph, Kept
  <2>2. IsFiniteSet(1..Len(signed))
    <3>1. 1 \in Int /\ Len(signed) \in Int
      BY RecordTypes
    <3> QED BY <3>1, FS_Interval
  <2>3. IsFiniteSet(Graph(S))
    BY <2>1, <2>2, FS_Subset
  <2> QED BY <2>3, FS_CardinalityType
<1>2. \E grown : IsGrown(grown, S, N)
  BY <1>1, GrownExists
<1>3. PICK grown : IsGrown(grown, S, N) /\ Order(S) = grown[N]
  <2> DEFINE g == CHOOSE grown : IsGrown(grown, S, N)
  <2>1. Order(S) = g[N]
    BY DEF Order, IsGrown, Graph
  <2>2. IsGrown(g, S, N)
    BY <1>2
  <2> QED BY <2>1, <2>2
<1> HIDE DEF N
<1> DEFINE Good == {n \in Nat : n <= N => Linear(S, grown[n])}
<1>4. 0 \in Good
  <2>1. grown[0] = <<>>
    BY <1>1, <1>3 DEF IsGrown
  <2>2. Linear(S, <<>>)
    BY DEF Linear
  <2> QED BY <2>1, <2>2
<1>5. ASSUME NEW n \in Nat, n \in Good PROVE n + 1 \in Good
  <2> SUFFICES ASSUME n + 1 <= N PROVE Linear(S, grown[n + 1])
    OBVIOUS
  <2> DEFINE before == grown[n]
             ready  == {i \in Graph(S) \ Elements(before) :
                          Edges(Kept(S), i) \subseteq Elements(before)}
  <2>1. Linear(S, before)
    BY <1>1, <1>5
  <2>2. grown[n + 1] = IF ready = {} THEN before ELSE Append(before, Smallest(ready))
    <3>1. n + 1 \in 0..N /\ n + 1 # 0 /\ (n + 1) - 1 = n
      BY <1>1
    <3> QED BY <1>3, <3>1 DEF IsGrown
  <2> HIDE DEF before
  <2>3. ready # {} => Linear(S, Append(before, Smallest(ready)))
    BY <2>1, LinearGrows
  <2> QED BY <2>1, <2>2, <2>3
<1> HIDE DEF Good
<1>6. N \in Good
  BY <1>1, <1>4, <1>5, InductiveSet
<1> QED BY <1>1, <1>3, <1>6 DEF Good

\* A record applied keeps everybody's role a role.
LEMMA AppliedRoles ==
  ASSUME NEW roles \in [Devices -> Roles], NEW r \in Record
  PROVE  Applied(roles, r) \in [Devices -> Roles]
<1>1. r.subject \in Devices /\ r.role \in Roles
  BY DEF Record, Roles
<1> QED BY <1>1 DEF Applied, Roles

\* Everybody's role after each record of an order, from nobody's.
IsHistory(roles, order, N) ==
  roles = [n \in 0..N |->
    IF n = 0 THEN <<[d \in Devices |-> "absent"]>>
    ELSE LET before == roles[n - 1]
             now    == before[n]
             r      == signed[order[n]]
         IN  Append(before, IF Applies(now, r) THEN Applied(now, r) ELSE now)]

\* The recursive function of the roles exists.
LEMMA HistoryExists ==
  ASSUME NEW order, NEW N \in Nat
  PROVE  \E roles : IsHistory(roles, order, N)
<1> DEFINE Good == {n \in Nat : \E roles : IsHistory(roles, order, n)}
<1>1. 0 \in Good
  <2> DEFINE none == [n \in 0..0 |-> <<[d \in Devices |-> "absent"]>>]
  <2>1. IsHistory(none, order, 0)
    BY DEF IsHistory
  <2> QED BY <2>1
<1>2. ASSUME NEW n \in Nat, n \in Good PROVE n + 1 \in Good
  <2>1. PICK roles : IsHistory(roles, order, n)
    BY <1>2
  <2> DEFINE next(f, k) ==
               IF k = 0 THEN <<[d \in Devices |-> "absent"]>>
               ELSE LET before == f[k - 1]
                        now    == before[k]
                        r      == signed[order[k]]
                    IN  Append(before, IF Applies(now, r) THEN Applied(now, r) ELSE now)
             more == [k \in 0..(n + 1) |-> next(roles, k)]
  <2>2. roles = [k \in 0..n |-> next(roles, k)]
    BY <2>1 DEF IsHistory
  <2> HIDE DEF next
  <2>3. \A k \in 0..n : more[k] = roles[k]
    BY <2>2
  <2>4. ASSUME NEW k \in 0..(n + 1) PROVE next(roles, k) = next(more, k)
    <3>1. k # 0 => roles[k - 1] = more[k - 1]
      BY <2>3
    <3> QED BY <3>1 DEF next
  <2>5. more = [k \in 0..(n + 1) |-> next(more, k)]
    BY <2>4
  <2>6. IsHistory(more, order, n + 1)
    BY <2>5 DEF IsHistory, next
  <2> QED BY <2>6
<1> HIDE DEF Good
<1>3. N \in Good
  BY <1>1, <1>2, InductiveSet
<1> QED BY <1>3 DEF Good

\* A roster has a role for everybody before its order and after each record of it.
LEMMA RosterIs ==
  ASSUME TypeOK, NEW S \in SUBSET DOMAIN signed
  PROVE  LET R == RosterOf(S)
         IN  /\ R.order = Order(S)
             /\ R.roles \in Seq([Devices -> Roles])
             /\ Len(R.roles) = Len(Order(S)) + 1
             /\ R.roles[1] = [d \in Devices |-> "absent"]
<1> DEFINE N == Len(Order(S))
           Fits(roles, n) == /\ roles \in Seq([Devices -> Roles])
                             /\ Len(roles) = n + 1
                             /\ roles[1] = [d \in Devices |-> "absent"]
<1>1. Order(S) \in Seq(Graph(S)) /\ N \in Nat
  BY OrderLinear DEF Linear
<1>2. \E roles : IsHistory(roles, Order(S), N)
  BY <1>1, HistoryExists
<1>3. PICK roles : /\ IsHistory(roles, Order(S), N)
                   /\ RosterOf(S) = [order |-> Order(S), roles |-> roles[N]]
  <2> DEFINE h == CHOOSE roles : IsHistory(roles, Order(S), N)
  <2>1. RosterOf(S) = [order |-> Order(S), roles |-> h[N]]
    BY DEF RosterOf, IsHistory
  <2>2. IsHistory(h, Order(S), N)
    BY <1>2
  <2> QED BY <2>1, <2>2
<1> HIDE DEF N
<1> DEFINE Good == {n \in Nat : n <= N => Fits(roles[n], n)}
<1>4. 0 \in Good
  <2>1. roles[0] = <<[d \in Devices |-> "absent"]>>
    BY <1>1, <1>3 DEF IsHistory
  <2> DEFINE nobody == [d \in Devices |-> "absent"]
  <2>2. nobody \in [Devices -> Roles]
    BY DEF Roles
  <2>3. roles[0] = <<nobody>>
    BY <2>1
  <2> HIDE DEF nobody
  <2>4. /\ roles[0] \in Seq([Devices -> Roles]) /\ Len(roles[0]) = 1
        /\ roles[0][1] = nobody
    BY <2>2, <2>3
  <2> QED BY <2>4 DEF nobody
<1>5. ASSUME NEW n \in Nat, n \in Good PROVE n + 1 \in Good
  <2> SUFFICES ASSUME n + 1 <= N PROVE Fits(roles[n + 1], n + 1)
    OBVIOUS
  <2> DEFINE before == roles[n]
             now    == before[n + 1]
             r      == signed[Order(S)[n + 1]]
             after  == IF Applies(now, r) THEN Applied(now, r) ELSE now
  <2>1. Fits(before, n)
    BY <1>1, <1>5
  <2>2. roles[n + 1] = Append(before, after)
    <3>1. n + 1 \in 0..N /\ n + 1 # 0 /\ (n + 1) - 1 = n
      BY <1>1
    <3> QED BY <1>3, <3>1 DEF IsHistory
  <2>3. now \in [Devices -> Roles]
    BY <2>1
  <2>4. r \in Record
    <3>1. Order(S)[n + 1] \in Graph(S)
      BY <1>1 DEF N
    <3>2. Order(S)[n + 1] \in DOMAIN signed
      BY <3>1 DEF Graph, Kept
    <3> QED BY <3>2, RecordTypes
  <2> HIDE DEF before, now, r
  <2>5. after \in [Devices -> Roles]
    BY <2>3, <2>4, AppliedRoles
  <2> HIDE DEF after
  <2> QED BY <2>1, <2>2, <2>5
<1> HIDE DEF Good
<1>6. N \in Good
  BY <1>1, <1>4, <1>5, InductiveSet
<1>7. Fits(roles[N], N)
  BY <1>1, <1>6 DEF Good
<1> QED BY <1>3, <1>7 DEF N

\* The order's records are among those it was computed from.
LEMMA OrderIsHere ==
  ASSUME TypeOK, NEW S \in SUBSET DOMAIN signed
  PROVE  /\ DOMAIN Order(S) = 1..Len(Order(S)) /\ Len(Order(S)) \in Nat
         /\ \A n \in DOMAIN Order(S) : Order(S)[n] \in S
<1>1. Order(S) \in Seq(Graph(S))
  BY OrderLinear DEF Linear
<1>2. Graph(S) \subseteq S
  BY DEF Graph, Kept
<1> QED BY <1>1, <1>2

LEMMA HeadsAreHere ==
  ASSUME TypeOK, NEW S \in SUBSET DOMAIN signed
  PROVE  HeadsOf(S, RosterOf(S)) \subseteq S
  BY OrderIsHere, RosterIs DEF HeadsOf

(***************************************************************************)
(* Keys and positions.                                                     *)
(***************************************************************************)

LEMMA KeysAreEpochs ==
  ASSUME NEW S, NEW R, NEW d
  PROVE  /\ KeysOf(S, R, d) \subseteq Epochs(S, R) /\ Epochs(S, R) \subseteq S
         /\ \A e \in Epochs(S, R) : signed[e].kind = "new"
  BY DEF KeysOf, Epochs

\* A device that holds a key has a newest one to write under.
LEMMA CurrentIsKey ==
  ASSUME TypeOK, NEW S \in SUBSET DOMAIN signed, NEW R, NEW d, KeysOf(S, R, d) # {}
  PROVE  /\ Current(S, R, d) \in KeysOf(S, R, d)
         /\ \A f \in KeysOf(S, R, d) : signed[f].height <= signed[Current(S, R, d)].height
<1> DEFINE keys   == KeysOf(S, R, d)
           newest == {e \in keys : \A f \in keys : signed[f].height <= signed[e].height}
           height == [i \in 1..Len(signed) |-> signed[i].height]
<1>1. keys \subseteq 1..Len(signed)
  BY KeysAreEpochs, RecordTypes
<1>2. \A i \in 1..Len(signed) : height[i] \in Nat
  BY RecordTypes
<1> HIDE DEF keys
<1>3. \A i \in keys : height[i] = signed[i].height
  BY <1>1
<1> HIDE DEF height
<1>4. PICK m \in keys : \A k \in keys : height[k] <= height[m]
  BY <1>1, <1>2, GreatestOf, RecordTypes DEF keys
<1>5. newest # {} /\ newest \subseteq keys
  BY <1>3, <1>4
<1>6. Smallest(newest) \in newest
  BY <1>1, <1>5, SmallestIs, RecordTypes
<1> QED BY <1>5, <1>6 DEF Current, keys

LEMMA HeightIsNat ==
  ASSUME TypeOK, NEW S \in SUBSET DOMAIN signed, NEW R
  PROVE  /\ NextHeight(S, R) \in Nat
         /\ \A e \in Epochs(S, R) : signed[e].height < NextHeight(S, R)
<1> DEFINE epochs  == Epochs(S, R)
           heights == {signed[e].height + 1 : e \in epochs}
           all     == heights \cup {0}
           height  == [i \in 1..Len(signed) |-> signed[i].height]
<1>1. epochs \subseteq 1..Len(signed)
  BY KeysAreEpochs, RecordTypes
<1>2. \A i \in 1..Len(signed) : height[i] \in Nat
  BY RecordTypes
<1> HIDE DEF epochs
<1>3. \A i \in epochs : height[i] = signed[i].height
  BY <1>1
<1> HIDE DEF height
<1>4. heights \subseteq Nat
  BY <1>1, RecordTypes
<1>5. \E h \in all : \A k \in heights : k <= h
  <2>1. CASE epochs = {}
    BY <2>1
  <2>2. CASE epochs # {}
    <3>1. PICK m \in epochs : \A k \in epochs : height[k] <= height[m]
      BY <1>1, <1>2, <2>2, GreatestOf, RecordTypes
    <3>2. signed[m].height + 1 \in heights
      OBVIOUS
    <3>3. \A k \in epochs : signed[k].height + 1 <= signed[m].height + 1
      BY <1>1, <1>2, <1>3, <3>1
    <3> QED BY <1>4, <3>2, <3>3
  <2> QED BY <2>1, <2>2
<1> HIDE DEF heights
<1> DEFINE highest == CHOOSE h \in all : \A k \in heights : k <= h
<1>6. highest \in all /\ \A k \in heights : k <= highest
  BY <1>5
<1>7. NextHeight(S, R) = highest
  BY DEF NextHeight, heights, epochs
<1> HIDE DEF highest
<1>8. ASSUME NEW e \in epochs PROVE signed[e].height < highest
  <2>1. signed[e].height + 1 \in heights /\ signed[e].height \in Nat
    BY <1>1, RecordTypes DEF heights
  <2> QED BY <1>4, <1>6, <2>1
<1> QED BY <1>4, <1>6, <1>7, <1>8 DEF epochs

Own(S, d) == {i \in S : signed[i].author = d}

\* The next position is after every record the device starts from.
LEMMA LastOwnIs ==
  ASSUME TypeOK, NEW S \in SUBSET DOMAIN signed, NEW d
  PROVE  /\ LastOwn(S, d) = NoRecord \/ LastOwn(S, d) \in S
         /\ NextSeq(S, d) \in Nat
         /\ \A i \in Own(S, d) : signed[i].seq < NextSeq(S, d)
<1> DEFINE own == Own(S, d)
           top == {i \in own : \A j \in own : signed[j].seq <= signed[i].seq}
           seq == [i \in 1..Len(signed) |-> signed[i].seq]
<1>1. own \subseteq 1..Len(signed) /\ own \subseteq S
  BY RecordTypes DEF Own
<1>2. \A i \in 1..Len(signed) : seq[i] \in Nat
  BY RecordTypes
<1>3. LastOwn(S, d) = IF own = {} THEN NoRecord ELSE Smallest(top)
  BY DEF LastOwn, Own
<1> HIDE DEF own
<1>4. CASE own = {}
  BY <1>3, <1>4 DEF NextSeq, own
<1>5. CASE own # {}
  <2>1. \A i \in own : seq[i] = signed[i].seq
    BY <1>1
  <2> HIDE DEF seq
  <2>2. PICK m \in own : \A k \in own : seq[k] <= seq[m]
    BY <1>1, <1>2, <1>5, GreatestOf, RecordTypes
  <2>3. top # {} /\ top \subseteq own
    BY <2>1, <2>2
  <2>4. LastOwn(S, d) \in top
    BY <1>1, <1>3, <1>5, <2>3, SmallestIs, RecordTypes
  <2>5. \A j \in own : signed[j].seq <= signed[LastOwn(S, d)].seq
    BY <2>4
  <2>6. LastOwn(S, d) \in own /\ LastOwn(S, d) \in 1..Len(signed) /\ LastOwn(S, d) # NoRecord
    BY <1>1, <2>3, <2>4, RecordTypes DEF NoRecord
  <2>7. NextSeq(S, d) = signed[LastOwn(S, d)].seq + 1
    BY <2>6 DEF NextSeq
  <2>8. \A i \in own : signed[i].seq \in Nat
    BY <1>1, RecordTypes
  <2> QED BY <1>1, <2>5, <2>6, <2>7, <2>8 DEF own
<1> QED BY <1>4, <1>5

\* A finite set as a sequence has every member once.
LEMMA SetToSeqIs ==
  ASSUME NEW T, IsFiniteSet(T)
  PROVE  /\ SetToSeq(T) \in Seq(T)
         /\ \A x \in T : \E n \in 1..Len(SetToSeq(T)) : SetToSeq(T)[n] = x
         /\ \A m, n \in 1..Len(SetToSeq(T)) : SetToSeq(T)[m] = SetToSeq(T)[n] => m = n
<1> DEFINE N == Cardinality(T)
           s == SetToSeq(T)
<1>1. N \in Nat /\ ExistsBijection(1..N, T)
  BY FS_CardinalityType
<1>2. \E f \in [1..N -> T] : IsInjective(f)
  BY <1>1 DEF ExistsBijection, Bijection, Injection, IsInjective
<1>3. s \in [1..N -> T] /\ IsInjective(s)
  BY <1>2 DEF SetToSeq
<1>4. Cardinality(1..N) = N /\ IsFiniteSet(1..N)
  BY <1>1, FS_Interval
<1> HIDE DEF s
<1>5. s \in Injection(1..N, T)
  BY <1>3 DEF Injection
<1>6. s \in Surjection(1..N, T)
  BY <1>4, <1>5, FS_Injection DEF N
<1> HIDE DEF N
<1>7. s \in Seq(T) /\ Len(s) = N
  BY <1>1, <1>3, IsASeq, LenProperties
<1> QED BY <1>3, <1>6, <1>7 DEF IsInjective, Surjection, s

(***************************************************************************)
(* What a transaction signs.                                               *)
(***************************************************************************)

\* A draft that refers to what is signed before it.
Draftable(r, n) ==
  /\ r \in Record
  /\ r.heads \cup r.parents \subseteq 0..(Len(signed) + n - 1)
  /\ r.kind \in ItemOp \cup {"grant"} =>
       r.epoch \in 1..Len(signed) /\ signed[r.epoch].kind = "new"

\* The last part of TypeOK, of one record.
Refers(i) ==
  LET r == signed[i]
  IN  /\ r.heads \cup r.parents \cup {r.prev} \subseteq 0..(i - 1)
      /\ r.kind \in ItemOp \cup {"grant"} =>
           r.epoch \in 1..(i - 1) /\ signed[r.epoch].kind = "new"

\* Signing a sequence of drafts gives the author's next records.
LEMMA SigningIs ==
  ASSUME TypeOK, NEW S \in SUBSET DOMAIN signed, NEW d \in Devices,
         NEW drafts \in Seq(Record)
  PROVE  /\ Signing(S, d, drafts) \in Seq(Record)
         /\ Len(Signing(S, d, drafts)) = Len(drafts)
         /\ \A n \in 1..Len(drafts) :
              LET r == Signing(S, d, drafts)[n]
              IN  /\ r.author = d /\ r.seq = NextSeq(S, d) + n - 1
                  /\ r.prev \in 0..(Len(signed) + n - 1)
                  /\ r.kind = drafts[n].kind /\ r.heads = drafts[n].heads
                  /\ r.parents = drafts[n].parents /\ r.epoch = drafts[n].epoch
                  /\ r.value = drafts[n].value /\ r.subject = drafts[n].subject
                  /\ r.role = drafts[n].role /\ r.height = drafts[n].height
                  /\ r.to = drafts[n].to
<1> DEFINE sign(n) ==
             [drafts[n] EXCEPT
                !.author = d, !.seq = NextSeq(S, d) + n - 1,
                !.prev = IF n = 1 THEN LastOwn(S, d) ELSE Len(signed) + n - 1]
<1>1. NextSeq(S, d) \in Nat /\ LastOwn(S, d) \in 0..Len(signed) /\ Len(signed) \in Nat
  BY LastOwnIs, RecordTypes DEF NoRecord
<1>2. DOMAIN drafts = 1..Len(drafts) /\ Len(drafts) \in Nat
  OBVIOUS
<1>3. Signing(S, d, drafts) = [n \in 1..Len(drafts) |-> sign(n)]
  BY <1>2 DEF Signing
<1>4. ASSUME NEW n \in 1..Len(drafts)
      PROVE  /\ sign(n) \in Record
             /\ sign(n).author = d /\ sign(n).seq = NextSeq(S, d) + n - 1
             /\ sign(n).prev \in 0..(Len(signed) + n - 1)
             /\ sign(n).kind = drafts[n].kind /\ sign(n).heads = drafts[n].heads
             /\ sign(n).parents = drafts[n].parents /\ sign(n).epoch = drafts[n].epoch
             /\ sign(n).value = drafts[n].value /\ sign(n).subject = drafts[n].subject
             /\ sign(n).role = drafts[n].role /\ sign(n).height = drafts[n].height
             /\ sign(n).to = drafts[n].to
  <2>1. drafts[n] \in Record
    BY <1>2
  <2>2. NextSeq(S, d) + n - 1 \in Nat
    BY <1>1, <1>2
  <2> DEFINE q == NextSeq(S, d) + n - 1
             p == IF n = 1 THEN LastOwn(S, d) ELSE Len(signed) + n - 1
  <2>3. p \in 0..(Len(signed) + n - 1) /\ p \in Nat
    BY <1>1, <1>2
  <2> HIDE DEF q, p
  <2>4. sign(n) = [drafts[n] EXCEPT !.author = d, !.seq = q, !.prev = p]
    BY DEF q, p
  <2> HIDE DEF sign
  <2> QED BY <2>1, <2>2, <2>3, <2>4 DEF Record, q
<1> HIDE DEF sign
<1>5. Signing(S, d, drafts) \in [1..Len(drafts) -> Record]
  BY <1>3, <1>4
<1>6. Signing(S, d, drafts) \in Seq(Record) /\ Len(Signing(S, d, drafts)) = Len(drafts)
  BY <1>2, <1>5, IsASeq, LenProperties
<1>7. ASSUME NEW n \in 1..Len(drafts) PROVE Signing(S, d, drafts)[n] = sign(n)
  <2>1. [k \in 1..Len(drafts) |-> sign(k)][n] = sign(n)
    OBVIOUS
  <2> QED BY <1>3, <2>1
<1>8. ASSUME NEW n \in 1..Len(drafts)
      PROVE  LET r == Signing(S, d, drafts)[n]
             IN  /\ r.author = d /\ r.seq = NextSeq(S, d) + n - 1
                 /\ r.prev \in 0..(Len(signed) + n - 1)
                 /\ r.kind = drafts[n].kind /\ r.heads = drafts[n].heads
                 /\ r.parents = drafts[n].parents /\ r.epoch = drafts[n].epoch
                 /\ r.value = drafts[n].value /\ r.subject = drafts[n].subject
                 /\ r.role = drafts[n].role /\ r.height = drafts[n].height
                 /\ r.to = drafts[n].to
  BY <1>4, <1>7
<1> QED BY <1>6, <1>8

\* The records signed before are as they were, and the new ones are what was drafted.
LEMMA SignedIs ==
  ASSUME TypeOK, NEW S \in SUBSET DOMAIN signed, NEW d \in Devices,
         NEW drafts \in Seq(Record),
         signed' = signed \o Signing(S, d, drafts)
  PROVE  /\ signed' \in Seq(Record)
         /\ Len(signed') = Len(signed) + Len(drafts)
         /\ DOMAIN signed' = 1..(Len(signed) + Len(drafts))
         /\ \A i \in DOMAIN signed : signed'[i] = signed[i]
         /\ \A n \in 1..Len(drafts) :
              signed'[Len(signed) + n] = Signing(S, d, drafts)[n]
<1> DEFINE more == Signing(S, d, drafts)
<1>1. more \in Seq(Record) /\ Len(more) = Len(drafts)
  BY SigningIs
<1>2. signed \in Seq(Record)
  BY DEF TypeOK
<1> HIDE DEF more
<1>3. signed' = signed \o more
  BY DEF more
<1>4. /\ signed' \in Seq(Record) /\ Len(signed') = Len(signed) + Len(more)
      /\ \A i \in 1..Len(signed') :
           signed'[i] = IF i <= Len(signed) THEN signed[i] ELSE more[i - Len(signed)]
  <2> DEFINE all == signed \o more
  <2>1. /\ all \in Seq(Record) /\ Len(all) = Len(signed) + Len(more)
        /\ \A i \in 1..Len(all) :
             all[i] = IF i <= Len(signed) THEN signed[i] ELSE more[i - Len(signed)]
    BY ZenonT(60), <1>1, <1>2, ConcatProperties
  <2>2. signed' = all
    BY <1>3
  <2> HIDE DEF all
  <2> QED BY <2>1, <2>2
<1>5. /\ \A n \in 1..Len(drafts) : signed'[Len(signed) + n] = more[n]
      /\ \A i \in 1..Len(signed) : signed'[i] = signed[i]
  <2>1. Len(signed) \in Nat /\ Len(more) \in Nat
    BY <1>1, <1>2
  <2>2. ASSUME NEW n \in 1..Len(drafts) PROVE signed'[Len(signed) + n] = more[n]
    <3>1. /\ Len(signed) + n \in 1..Len(signed') /\ ~(Len(signed) + n <= Len(signed))
          /\ (Len(signed) + n) - Len(signed) = n
      BY <1>1, <1>4, <2>1
    <3> QED BY <1>4, <3>1
  <2>3. ASSUME NEW i \in 1..Len(signed) PROVE signed'[i] = signed[i]
    <3>1. i \in 1..Len(signed') /\ i <= Len(signed)
      BY <1>4, <2>1
    <3> QED BY <1>4, <3>1
  <2> QED BY <2>2, <2>3
<1>6. DOMAIN signed' = 1..(Len(signed) + Len(drafts)) /\ DOMAIN signed = 1..Len(signed)
  BY <1>1, <1>2, <1>4
<1> QED BY <1>1, <1>4, <1>5, <1>6 DEF more

LEMMA SignedRefers ==
  ASSUME TypeOK, NEW S \in SUBSET DOMAIN signed, NEW d \in Devices,
         NEW drafts \in Seq(Record),
         \A n \in 1..Len(drafts) : Draftable(drafts[n], n),
         signed' = signed \o Signing(S, d, drafts)
  PROVE  \A i \in DOMAIN signed' : Refers(i)'
<1> SUFFICES ASSUME NEW i \in DOMAIN signed' PROVE Refers(i)'
  OBVIOUS
<1>1. Len(signed) \in Nat /\ DOMAIN signed = 1..Len(signed) /\ Len(drafts) \in Nat
  BY RecordTypes
<1>2. \A k \in 1..Len(signed) : signed'[k] = signed[k]
  BY <1>1, SignedIs
<1>3. CASE i \in 1..Len(signed)
  <2>1. Refers(i) /\ signed'[i] = signed[i] /\ i \in DOMAIN signed
    BY <1>1, <1>2, <1>3 DEF TypeOK, Refers
  <2>2. 1..(i - 1) \subseteq 1..Len(signed)
    BY <1>1, <1>3
  <2> QED BY <1>2, <2>1, <2>2 DEF Refers
<1>4. CASE i \notin 1..Len(signed)
  <2>1. PICK n \in 1..Len(drafts) : i = Len(signed) + n
    <3>1. i \in 1..(Len(signed) + Len(drafts))
      BY SignedIs
    <3>2. i - Len(signed) \in 1..Len(drafts) /\ i = Len(signed) + (i - Len(signed))
      BY <1>1, <1>4, <3>1
    <3> QED BY <3>2
  <2> DEFINE r == Signing(S, d, drafts)[n]
  <2>2. /\ signed'[i] = r /\ Draftable(drafts[n], n)
        /\ r.prev \in 0..(Len(signed) + n - 1)
        /\ r.kind = drafts[n].kind /\ r.heads = drafts[n].heads
        /\ r.parents = drafts[n].parents /\ r.epoch = drafts[n].epoch
    BY <2>1, SignedIs, SigningIs
  <2> HIDE DEF r
  <2>3. 1..Len(signed) \subseteq 1..(i - 1) /\ Len(signed) + n - 1 = i - 1
    BY <1>1, <2>1
  <2> QED BY <1>2, <2>2, <2>3 DEF Refers, Draftable
<1> QED BY <1>3, <1>4

(***************************************************************************)
(* Types.                                                                  *)
(***************************************************************************)

LEMMA HeldTypes ==
  ASSUME TypeOK
  PROVE  /\ file \in [Devices -> SUBSET DOMAIN signed]
         /\ handle \in [Devices -> SUBSET DOMAIN signed]
         /\ copies \in [Devices -> SUBSET SUBSET DOMAIN signed]
         /\ revived \subseteq DOMAIN signed
         /\ dir \subseteq DOMAIN signed /\ mishaps \in 0..MaxMishaps
         /\ \A d \in Devices : Holds(d) \in SUBSET DOMAIN signed
  BY DEF TypeOK, Holds

LEMMA BlankIs == Blank \in Record
<1>1. Creator \in Devices
  BY SharedAssumption
<1> QED BY <1>1 DEF Blank, Record, NoRecord, Members, RosterOp

Drafts == {drafts \in Seq(Record) : \A n \in 1..Len(drafts) : Draftable(drafts[n], n)}

\* What an item version, a removal and a new role do alike.
Transacts(d) ==
  /\ \E drafts \in Drafts : Transact(d, drafts)
  /\ UNCHANGED <<dir, copies, revived>> /\ fresh' \in {NoRecord, Len(signed')}

\* What an invitation does.
Invites(d, m) ==
  /\ \E drafts \in Drafts :
       /\ Len(drafts) # 0 /\ signed' = signed \o Signing(Holds(d), d, drafts)
  /\ LET new == (Len(signed) + 1)..Len(signed')
         all == Holds(d) \cup new
     IN  \/ /\ dir' = dir \cup new
            /\ file' = [file EXCEPT ![d] = all, ![m] = all]
            /\ handle' = [handle EXCEPT ![d] = all, ![m] = all]
            /\ mishaps' = mishaps
         \/ /\ Mishap /\ file' = [file EXCEPT ![d] = all]
            /\ UNCHANGED <<dir, handle>>
  /\ fresh' = NoRecord
  /\ UNCHANGED <<copies, revived>>

LEMMA TransactTypes ==
  ASSUME TypeOK, NEW d \in Devices, Transacts(d)
  PROVE  TypeOK'
<1>1. PICK drafts \in Drafts : Transact(d, drafts)
  BY DEF Transacts
<1>2. drafts \in Seq(Record) /\ \A n \in 1..Len(drafts) : Draftable(drafts[n], n)
  BY <1>1 DEF Drafts
<1> DEFINE S   == Holds(d)
           all == S \cup ((Len(signed) + 1)..(Len(signed) + Len(drafts)))
<1>3. S \in SUBSET DOMAIN signed
  BY HeldTypes
<1>4. signed' = signed \o Signing(S, d, drafts)
  BY <1>1 DEF Transact
<1>5. \A i \in DOMAIN signed' : Refers(i)'
  BY <1>2, <1>3, <1>4, SignedRefers
<1>6. /\ signed' \in Seq(Record)
      /\ DOMAIN signed' = 1..(Len(signed) + Len(drafts))
      /\ DOMAIN signed = 1..Len(signed) /\ Len(signed) \in Nat /\ Len(drafts) \in Nat
  BY <1>2, <1>3, <1>4, SignedIs, RecordTypes
<1>7. DOMAIN signed \subseteq DOMAIN signed' /\ all \subseteq DOMAIN signed'
  BY <1>3, <1>6
<1>8. /\ file' = [file EXCEPT ![d] = all]
      /\ handle' = handle \/ handle' = [handle EXCEPT ![d] = all]
      /\ mishaps' = mishaps \/ Mishap
  BY <1>1 DEF Transact
<1> HIDE DEF all
<1>9. /\ {file', handle'} \subseteq [Devices -> SUBSET DOMAIN signed']
      /\ copies' \in [Devices -> SUBSET SUBSET DOMAIN signed']
  BY <1>7, <1>8, HeldTypes DEF Transacts
<1>10. mishaps' \in 0..MaxMishaps
  BY <1>8, HeldTypes, SharedAssumption DEF Mishap
<1>11. dir' \cup revived' \subseteq DOMAIN signed'
  BY <1>7, HeldTypes DEF Transacts
<1> QED BY <1>5, <1>6, <1>9, <1>10, <1>11 DEF TypeOK, Refers, Transacts

\* What a transaction refers to is signed.
LEMMA HereIsSigned ==
  ASSUME TypeOK, NEW T, T \subseteq DOMAIN signed
  PROVE  T \in SUBSET Nat /\ T \subseteq 0..(Len(signed) + 1 - 1)
<1>1. Len(signed) \in Nat /\ T \subseteq 1..Len(signed)
  BY RecordTypes
<1> QED BY <1>1

LEMMA WriteDrafts ==
  ASSUME TypeOK, NEW d \in Devices, NEW kind \in ItemOp,
         NEW value \in Values \cup {Deleted}, NEW time \in Times,
         WriteVersion(d, kind, value, time)
  PROVE  /\ \E drafts \in Drafts :
              /\ Transact(d, drafts) /\ Len(drafts) = 1 /\ drafts[1].kind = kind
              /\ drafts[1].heads = HeadsOf(Holds(d), RosterOf(Holds(d)))
         /\ UNCHANGED <<dir, copies, revived>> /\ fresh' = Len(signed')
<1> DEFINE S == Holds(d)
           R == RosterOf(S)
           heads   == HeadsOf(S, R)
           parents == Tips(Accepted(S, d))
           epoch   == Current(S, R, d)
           draft   == [Blank EXCEPT
             !.kind = kind, !.value = value, !.rank = time,
             !.heads = heads, !.parents = parents, !.epoch = epoch]
<1>1. S \in SUBSET DOMAIN signed
  BY HeldTypes
<1>2. heads \subseteq DOMAIN signed
  BY <1>1, HeadsAreHere
<1>3. parents \subseteq DOMAIN signed
  BY <1>1 DEF Tips, Accepted
<1>4. epoch \in DOMAIN signed /\ signed[epoch].kind = "new"
  <2>1. KeysOf(S, R, d) # {}
    BY DEF WriteVersion
  <2> QED BY <1>1, <2>1, CurrentIsKey, KeysAreEpochs
<1>5. /\ Transact(d, <<draft>>) /\ fresh' = Len(signed') /\ UNCHANGED <<dir, copies, revived>>
  BY DEF WriteVersion
<1> HIDE DEF S, R, heads, parents, epoch
<1>6. /\ heads \in SUBSET Nat /\ parents \in SUBSET Nat /\ epoch \in Nat
      /\ heads \cup parents \subseteq 0..(Len(signed) + 1 - 1) /\ epoch \in 1..Len(signed)
  BY <1>2, <1>3, <1>4, HereIsSigned, RecordTypes
<1>7. draft \in Record /\ draft.heads = heads /\ draft.parents = parents
      /\ draft.kind = kind /\ draft.epoch = epoch
  <2>1. time \in Nat
    BY SharedAssumption
  <2> QED BY <1>6, <2>1, BlankIs DEF Record
<1>8. Draftable(draft, 1)
  BY <1>4, <1>6, <1>7 DEF Draftable
<1> HIDE DEF draft
<1>9. <<draft>> \in Seq(Record) /\ \A n \in 1..Len(<<draft>>) : Draftable(<<draft>>[n], n)
  BY <1>7, <1>8
<1>10. <<draft>> \in Drafts /\ Len(<<draft>>) = 1 /\ <<draft>>[1] = draft
  BY <1>9 DEF Drafts
<1> QED BY <1>5, <1>7, <1>10 DEF heads, R, S

LEMMA WriteTransacts ==
  ASSUME TypeOK, NEW d \in Devices, NEW kind \in ItemOp,
         NEW value \in Values \cup {Deleted}, NEW time \in Times,
         WriteVersion(d, kind, value, time)
  PROVE  Transacts(d)
  BY WriteDrafts DEF Transacts

\* The records of a removal.
LEMMA RemovalDrafts ==
  ASSUME TypeOK, NEW d \in Devices, NEW m \in Devices, RemoveMember(d, m)
  PROVE  LET S == Holds(d)
             R == RosterOf(S)
         IN  /\ \E drafts \in Drafts :
                  /\ Transact(d, drafts) /\ Len(drafts) = 2
                  /\ drafts[1].kind = "remove" /\ drafts[1].subject = m
                  /\ drafts[1].heads = HeadsOf(S, R)
                  /\ drafts[2].kind = "new" /\ drafts[2].heads = {Len(signed) + 1}
                  /\ drafts[2].height = NextHeight(S, R)
                  /\ drafts[2].to = {x \in Devices : x # m /\ RolesNow(R)[x] \in Members}
             /\ UNCHANGED <<dir, copies, revived>> /\ fresh' = NoRecord
<1> DEFINE S == Holds(d)
           R == RosterOf(S)
           heads   == HeadsOf(S, R)
           op(h)   == [Blank EXCEPT !.kind = "remove", !.subject = m, !.rank = h,
                                    !.heads = heads]
           epoch(h, k) == [NewEpoch(NextHeight(S, R), ActiveAfter(R, op(h))) EXCEPT
                             !.rank = k, !.heads = {Len(signed) + 1}]
<1>1. S \in SUBSET DOMAIN signed
  BY HeldTypes
<1>2. PICK h \in Hashes, k \in Hashes :
        /\ Transact(d, <<op(h), epoch(h, k)>>)
        /\ fresh' = NoRecord /\ UNCHANGED <<dir, copies, revived>>
  BY DEF RemoveMember
<1>3. h \in Nat /\ k \in Nat
  BY SharedAssumption
<1>4. heads \in SUBSET Nat /\ heads \subseteq 0..(Len(signed) + 1 - 1)
  BY <1>1, HeadsAreHere, HereIsSigned
<1>5. NextHeight(S, R) \in Nat /\ Len(signed) \in Nat
  BY <1>1, HeightIsNat, RecordTypes
<1>6. ActiveAfter(R, op(h)) \in SUBSET Devices
  BY DEF ActiveAfter
<1> DEFINE o == op(h)
           e == epoch(h, k)
<1>7. o \in Record /\ o.heads = heads /\ o.parents = {} /\ o.kind = "remove"
      /\ o.subject = m
  <2> HIDE DEF heads
  <2> QED BY <1>3, <1>4, BlankIs DEF Record, RosterOp, Blank
<1>8. e \in Record /\ e.heads = {Len(signed) + 1} /\ e.parents = {} /\ e.kind = "new"
      /\ e.height = NextHeight(S, R) /\ e.to = ActiveAfter(R, op(h))
  <2> DEFINE height == NextHeight(S, R)
             to     == ActiveAfter(R, op(h))
             base   == NewEpoch(height, to)
  <2>1. height \in Nat /\ to \in SUBSET Devices
    BY <1>5, <1>6
  <2> HIDE DEF height, to
  <2>2. base \in Record /\ base.parents = {} /\ base.kind = "new"
        /\ base.height = height /\ base.to = to
    BY <2>1, BlankIs DEF Record, Blank, NewEpoch, EpochOp
  <2>3. e = [base EXCEPT !.rank = k, !.heads = {Len(signed) + 1}]
    BY DEF height, to
  <2>4. {Len(signed) + 1} \in SUBSET Nat
    BY <1>5
  <2> HIDE DEF base, e
  <2>5. e \in Record /\ e.heads = {Len(signed) + 1} /\ e.parents = {} /\ e.kind = "new"
        /\ e.height = height /\ e.to = to
    BY <1>3, <2>2, <2>3, <2>4 DEF Record
  <2> QED BY <2>5 DEF height, to
<1>9. ActiveAfter(R, op(h)) = {x \in Devices : x # m /\ RolesNow(R)[x] \in Members}
  <2> DEFINE q == op(h)
  <2>1. q.kind = "remove" /\ q.subject = m
    BY <1>7 DEF o
  <2> HIDE DEF q
  <2>2. \A x \in Devices : Applied(RolesNow(R), q)[x] =
                             IF x # m THEN RolesNow(R)[x] ELSE "removed"
    BY <2>1 DEF Applied
  <2> QED BY <2>2 DEF ActiveAfter, Members, q
<1>10. e.to = {x \in Devices : x # m /\ RolesNow(R)[x] \in Members}
  BY <1>8, <1>9
<1> HIDE DEF o, e, heads
<1>11. Draftable(o, 1) /\ Draftable(e, 2)
  BY <1>4, <1>5, <1>7, <1>8 DEF Draftable, ItemOp
<1>12. <<o, e>> \in Seq(Record)
       /\ \A n \in 1..Len(<<o, e>>) : Draftable(<<o, e>>[n], n)
  BY <1>7, <1>8, <1>11
<1>13. Transact(d, <<o, e>>) /\ fresh' = NoRecord /\ UNCHANGED <<dir, copies, revived>>
  BY <1>2 DEF o, e
<1>14. <<o, e>> \in Drafts /\ Len(<<o, e>>) = 2 /\ <<o, e>>[1] = o /\ <<o, e>>[2] = e
  BY <1>12 DEF Drafts
<1> QED BY <1>7, <1>8, <1>13, <1>10, <1>14 DEF heads

LEMMA RemovalTransacts ==
  ASSUME TypeOK, NEW d \in Devices, NEW m \in Devices, RemoveMember(d, m)
  PROVE  Transacts(d)
  BY RemovalDrafts DEF Transacts

LEMMA RoleDrafts ==
  ASSUME TypeOK, NEW d \in Devices, NEW m \in Devices, SetRole(d, m)
  PROVE  /\ \E role \in GrantedRoles : \E drafts \in Drafts :
              /\ RolesNow(RosterOf(Holds(d)))[m] \in Members \ {role}
              /\ Transact(d, drafts) /\ Len(drafts) = 1
              /\ drafts[1].kind = "role" /\ drafts[1].subject = m /\ drafts[1].role = role
              /\ drafts[1].heads = HeadsOf(Holds(d), RosterOf(Holds(d)))
         /\ UNCHANGED <<dir, copies, revived>> /\ fresh' = NoRecord
<1> DEFINE S == Holds(d)
           heads   == HeadsOf(S, RosterOf(S))
           op(h, role) == [Blank EXCEPT !.kind = "role", !.subject = m, !.role = role,
                                        !.rank = h, !.heads = heads]
<1>1. S \in SUBSET DOMAIN signed
  BY HeldTypes
<1>2. PICK h \in Hashes, role \in GrantedRoles :
        /\ RolesNow(RosterOf(S))[m] \in Members \ {role}
        /\ Transact(d, <<op(h, role)>>)
        /\ fresh' = NoRecord /\ UNCHANGED <<dir, copies, revived>>
  BY DEF SetRole
<1>3. h \in Nat /\ role \in Members
  BY SharedAssumption
<1>4. heads \in SUBSET Nat /\ heads \subseteq 0..(Len(signed) + 1 - 1)
  BY <1>1, HeadsAreHere, HereIsSigned
<1> DEFINE o == op(h, role)
<1> HIDE DEF heads
<1>5. o \in Record /\ o.heads = heads /\ o.parents = {} /\ o.kind = "role"
      /\ o.subject = m /\ o.role = role
  BY <1>3, <1>4, BlankIs DEF Record, RosterOp, Blank
<1> HIDE DEF o
<1>6. Draftable(o, 1)
  BY <1>4, <1>5 DEF Draftable, ItemOp
<1>7. <<o>> \in Seq(Record) /\ \A n \in 1..Len(<<o>>) : Draftable(<<o>>[n], n)
  BY <1>5, <1>6
<1>8. Transact(d, <<o>>) /\ fresh' = NoRecord /\ UNCHANGED <<dir, copies, revived>>
  BY <1>2 DEF o
<1>9. <<o>> \in Drafts /\ Len(<<o>>) = 1 /\ <<o>>[1] = o
  BY <1>7 DEF Drafts
<1> QED BY <1>2, <1>5, <1>8, <1>9 DEF heads

LEMMA RoleTransacts ==
  ASSUME TypeOK, NEW d \in Devices, NEW m \in Devices, SetRole(d, m)
  PROVE  Transacts(d)
  BY RoleDrafts DEF Transacts

\* The records of an invitation: the device's addition, and a grant of each key.
Invitation(d, m, S, drafts) ==
  LET R    == RosterOf(S)
      keys == KeysOf(S, R, d)
  IN  /\ signed' = signed \o Signing(S, d, drafts) /\ Len(drafts) # 0
      /\ drafts[1].kind = "add" /\ drafts[1].subject = m
      /\ drafts[1].role \in GrantedRoles /\ drafts[1].heads = HeadsOf(S, R)
      /\ \A n \in 2..Len(drafts) :
           /\ drafts[n].kind = "grant" /\ drafts[n].heads = {Len(signed) + 1}
           /\ drafts[n].epoch \in keys /\ drafts[n].to = {m}
      /\ \A e \in keys : \E n \in 2..Len(drafts) : drafts[n].epoch = e

LEMMA InviteDrafts ==
  ASSUME TypeOK, NEW d \in Devices, NEW m \in Devices, Invite(d, m)
  PROVE  \E drafts \in Drafts : Invitation(d, m, Holds(d), drafts)
<1> DEFINE S     == Holds(d)
           R     == RosterOf(S)
           heads == HeadsOf(S, R)
           granted == GrantsAll(S, R, d)
           keys  == SetToSeq(granted)
           add(h, role) == [Addition(m, role) EXCEPT !.rank = h, !.heads = heads]
           grant(n) == [Grant(keys[n], m) EXCEPT !.heads = {Len(signed) + 1}]
           grants == [n \in DOMAIN keys |-> grant(n)]
<1>1. PICK h \in Hashes, role \in GrantedRoles :
        signed' = signed \o Signing(S, d, <<add(h, role)>> \o grants)
  BY DEF Invite
<1>2. h \in Nat /\ role \in Members
  BY SharedAssumption
<1>3. S \in SUBSET DOMAIN signed /\ Len(signed) \in Nat
  BY HeldTypes, RecordTypes
<1>4. heads \in SUBSET Nat /\ heads \subseteq 0..(Len(signed) + 1 - 1)
  BY <1>3, HeadsAreHere, HereIsSigned
<1>5. \A e \in granted : e \in 1..Len(signed) /\ signed[e].kind = "new"
  BY <1>3, KeysAreEpochs, RecordTypes DEF GrantsAll
<1> DEFINE o == add(h, role)
<1>6. o \in Record /\ o.heads = heads /\ o.parents = {} /\ o.kind = "add"
      /\ o.subject = m /\ o.role = role
  <2> HIDE DEF heads
  <2> QED BY <1>2, <1>4, BlankIs DEF Record, RosterOp, Blank, Addition
<1> HIDE DEF o, heads
<1>7. Draftable(o, 1)
  BY <1>4, <1>6 DEF Draftable, ItemOp
<1>8. keys \in Seq(granted) /\ \A e \in granted : \E n \in 1..Len(keys) : keys[n] = e
  <2>1. granted \subseteq 1..Len(signed)
    BY <1>5
  <2>2. IsFiniteSet(1..Len(signed))
    BY <1>3, FS_Interval
  <2>3. IsFiniteSet(granted)
    BY <2>1, <2>2, FS_Subset
  <2> HIDE DEF granted
  <2> QED BY <2>3, SetToSeqIs
<1> HIDE DEF keys, granted
<1>9. DOMAIN keys = 1..Len(keys) /\ Len(keys) \in Nat
  BY <1>8
<1>10. ASSUME NEW n \in 1..Len(keys)
       PROVE  /\ grant(n) \in Record /\ Draftable(grant(n), n + 1)
              /\ grant(n).kind = "grant" /\ grant(n).heads = {Len(signed) + 1}
              /\ grant(n).epoch = keys[n] /\ grant(n).to = {m}
  <2> DEFINE e == keys[n]
             g == Grant(e, m)
  <2>1. e \in 1..Len(signed) /\ signed[e].kind = "new" /\ e \in Nat
    BY <1>3, <1>5, <1>8, <1>9
  <2> HIDE DEF e
  <2>2. g \in Record /\ g.parents = {} /\ g.kind = "grant" /\ g.epoch = e
        /\ g.to = {m}
    BY <2>1, BlankIs DEF Record, Blank, Grant, EpochOp
  <2>3. grant(n) = [g EXCEPT !.heads = {Len(signed) + 1}]
    BY DEF e
  <2>4. {Len(signed) + 1} \in SUBSET Nat /\ {Len(signed) + 1} \subseteq 0..(Len(signed) + (n + 1) - 1)
    BY <1>3, <1>9
  <2> HIDE DEF g, grant
  <2>5. /\ grant(n) \in Record /\ grant(n).heads = {Len(signed) + 1}
        /\ grant(n).parents = {} /\ grant(n).kind = "grant" /\ grant(n).epoch = e
        /\ grant(n).to = {m}
    BY <2>2, <2>3, <2>4 DEF Record
  <2>6. Draftable(grant(n), n + 1)
    BY <2>1, <2>4, <2>5 DEF Draftable
  <2> QED BY <2>5, <2>6 DEF e
<1> HIDE DEF grant
<1>11. grants \in Seq(Record) /\ Len(grants) = Len(keys)
       /\ \A n \in 1..Len(keys) : grants[n] = grant(n)
  <2>1. grants \in [1..Len(keys) -> Record]
    BY <1>9, <1>10
  <2> QED BY <1>9, <2>1, IsASeq, LenProperties
<1> HIDE DEF grants
<1> DEFINE drafts == <<o>> \o grants
<1>12. <<o>> \in Seq(Record) /\ Len(<<o>>) = 1 /\ <<o>>[1] = o
  BY <1>6
<1>13. /\ drafts \in Seq(Record) /\ Len(drafts) = 1 + Len(keys)
       /\ \A n \in 1..Len(drafts) :
            drafts[n] = IF n <= 1 THEN <<o>>[n] ELSE grants[n - 1]
  BY <1>11, <1>12, ConcatProperties
<1>14. signed' = signed \o Signing(S, d, drafts)
  BY <1>1 DEF o, grants
<1> HIDE DEF drafts
<1>15. ASSUME NEW n \in 1..Len(drafts) PROVE Draftable(drafts[n], n)
  <2>1. CASE n = 1
    BY <1>7, <1>12, <1>13, <2>1
  <2>2. CASE n # 1
    <3>1. n - 1 \in 1..Len(keys) /\ (n - 1) + 1 = n /\ ~(n <= 1)
      BY <1>9, <1>13, <2>2
    <3>2. drafts[n] = grant(n - 1)
      BY <1>11, <1>13, <3>1
    <3>3. Draftable(grant(n - 1), (n - 1) + 1)
      BY <1>10, <3>1
    <3> QED BY <3>1, <3>2, <3>3
  <2> QED BY <2>1, <2>2
<1>16. drafts \in Drafts /\ Len(drafts) # 0
  BY <1>9, <1>13, <1>15 DEF Drafts
<1>17. drafts[1] = o
  BY <1>9, <1>12, <1>13
<1>18. ASSUME NEW n \in 2..Len(drafts)
       PROVE  n - 1 \in 1..Len(keys) /\ drafts[n] = grant(n - 1) /\ keys[n - 1] \in granted
  <2>1. n - 1 \in 1..Len(keys) /\ ~(n <= 1) /\ n \in 1..Len(drafts)
    BY <1>9, <1>13
  <2>2. drafts[n] = grants[n - 1]
    BY <1>13, <2>1
  <2>3. keys[n - 1] \in granted
    BY <1>8, <1>9, <2>1
  <2> QED BY <1>11, <2>1, <2>2, <2>3
<1>19. ASSUME NEW e \in granted
       PROVE  \E n \in 2..Len(drafts) : drafts[n].epoch = e
  <2>1. PICK k \in 1..Len(keys) : keys[k] = e
    BY <1>8
  <2>2. k + 1 \in 2..Len(drafts) /\ (k + 1) - 1 = k
    BY <1>9, <1>13
  <2>3. drafts[k + 1].epoch = e
    BY <1>10, <1>18, <2>1, <2>2
  <2> QED BY <2>2, <2>3
<1>20. role \in GrantedRoles /\ granted = KeysOf(S, R, d)
  BY DEF granted, GrantsAll
<1> HIDE DEF S, R
<1>21. \A n \in 2..Len(drafts) :
         /\ drafts[n].kind = "grant" /\ drafts[n].heads = {Len(signed) + 1}
         /\ drafts[n].epoch \in granted /\ drafts[n].to = {m}
  BY <1>10, <1>18
<1>22. Invitation(d, m, S, drafts)
  BY <1>6, <1>14, <1>16, <1>17, <1>19, <1>20, <1>21 DEF Invitation, R, heads
<1> QED BY <1>16, <1>22 DEF S

LEMMA InviteInvites ==
  ASSUME TypeOK, NEW d \in Devices, NEW m \in Devices, Invite(d, m)
  PROVE  Invites(d, m)
<1>1. \E drafts \in Drafts :
        Len(drafts) # 0 /\ signed' = signed \o Signing(Holds(d), d, drafts)
  BY InviteDrafts DEF Invitation
<1> QED BY <1>1 DEF Invite, Invites

LEMMA InviteTypes ==
  ASSUME TypeOK, NEW d \in Devices, NEW m \in Devices, Invites(d, m)
  PROVE  TypeOK'
<1> DEFINE S   == Holds(d)
           new == (Len(signed) + 1)..Len(signed')
           all == S \cup new
<1>1. S \in SUBSET DOMAIN signed
  BY HeldTypes
<1>2. PICK drafts \in Drafts : signed' = signed \o Signing(S, d, drafts)
  BY DEF Invites
<1>3. drafts \in Seq(Record) /\ \A n \in 1..Len(drafts) : Draftable(drafts[n], n)
  BY <1>2 DEF Drafts
<1>4. \A i \in DOMAIN signed' : Refers(i)'
  BY <1>1, <1>2, <1>3, SignedRefers
<1>5. /\ signed' \in Seq(Record) /\ DOMAIN signed' = 1..Len(signed')
      /\ Len(signed') = Len(signed) + Len(drafts)
      /\ DOMAIN signed = 1..Len(signed) /\ Len(signed) \in Nat /\ Len(drafts) \in Nat
  <2>1. Len(signed) \in Nat /\ DOMAIN signed = 1..Len(signed)
    BY RecordTypes
  <2>2. drafts \in Seq(Record) /\ Len(drafts) \in Nat
    BY <1>3
  <2>3. /\ signed' \in Seq(Record) /\ Len(signed') = Len(signed) + Len(drafts)
        /\ DOMAIN signed' = 1..(Len(signed) + Len(drafts))
    BY <1>1, <1>2, <2>2, SignedIs
  <2> QED BY <2>1, <2>2, <2>3
<1>6. /\ DOMAIN signed \subseteq DOMAIN signed' /\ all \subseteq DOMAIN signed'
      /\ new \subseteq DOMAIN signed'
  BY <1>1, <1>5
<1> DEFINE sets == \/ /\ dir' = dir \cup new
                      /\ file' = [file EXCEPT ![d] = all, ![m] = all]
                      /\ handle' = [handle EXCEPT ![d] = all, ![m] = all]
                      /\ mishaps' = mishaps
                   \/ /\ Mishap /\ file' = [file EXCEPT ![d] = all]
                      /\ UNCHANGED <<dir, handle>>
<1>7. sets /\ fresh' = NoRecord /\ UNCHANGED <<copies, revived>>
  BY DEF Invites
<1> HIDE DEF all, new
<1>8. /\ {file', handle'} \subseteq [Devices -> SUBSET DOMAIN signed']
      /\ copies' \in [Devices -> SUBSET SUBSET DOMAIN signed']
  BY <1>6, <1>7, HeldTypes
<1>9. mishaps' \in 0..MaxMishaps
  BY <1>7, HeldTypes, SharedAssumption DEF Mishap
<1>10. dir' \cup revived' \subseteq DOMAIN signed'
  BY <1>6, <1>7, HeldTypes
<1> QED BY <1>4, <1>5, <1>7, <1>8, <1>9, <1>10 DEF TypeOK, Refers

\* Exchanging, opening again, copying and restoring.
Handles(d) == ExchangeStep(d) \/ Reopen(d) \/ Backup(d) \/ Restore(d)

\* They sign nothing.
LEMMA HandlingTypes ==
  ASSUME TypeOK, NEW d \in Devices, Handles(d)
  PROVE  TypeOK'
<1> USE DEF Handles, ExchangeStep
<1>1. signed' = signed /\ fresh' = NoRecord
  BY DEF Export, Import, Reopen, Backup, Restore
<1>2. dir' \cup revived' \subseteq DOMAIN signed
  <2>1. CASE Restore(d)
    <3>1. PICK c \in copies[d] :
            revived' = revived \cup {i \in c \ Holds(d) : signed[i].author = d}
      BY <2>1 DEF Restore
    <3>2. c \subseteq DOMAIN signed
      BY HeldTypes
    <3>3. dir' = dir
      BY <2>1 DEF Restore
    <3> QED BY <3>1, <3>2, <3>3, HeldTypes
  <2> QED BY <2>1, HeldTypes DEF Export, Import, Reopen, Backup
<1>3. /\ {file', handle'} \subseteq [Devices -> SUBSET DOMAIN signed]
      /\ copies' \in [Devices -> SUBSET SUBSET DOMAIN signed]
  <2> DEFINE held == [Devices -> SUBSET DOMAIN signed]
             kept == [Devices -> SUBSET SUBSET DOMAIN signed]
  <2>1. file \in held /\ handle \in held /\ copies \in kept
    BY HeldTypes
  <2>2. ASSUME NEW i \in DOMAIN signed, Import(d, i)
        PROVE  file' \in held /\ handle' \in held /\ copies' \in kept
    <3> DEFINE all == file[d] \cup handle[d] \cup {i}
    <3>1. all \in SUBSET DOMAIN signed
      BY <2>1
    <3>2. /\ file' = [file EXCEPT ![d] = all] /\ handle' = [handle EXCEPT ![d] = all]
          /\ copies' = copies
      BY <2>2 DEF Import
    <3> HIDE DEF all
    <3> QED BY <2>1, <3>1, <3>2
  <2>3. CASE \E i \in DOMAIN signed : Export(d, i)
    BY <2>3, HeldTypes DEF Export
  <2>4. CASE Reopen(d)
    BY <2>4, HeldTypes DEF Reopen
  <2>5. CASE Backup(d)
    <3>1. /\ file' = file /\ handle' = handle
          /\ copies' = [copies EXCEPT ![d] = copies[d] \cup {file[d]}]
      BY <2>5 DEF Backup
    <3>2. copies[d] \cup {file[d]} \in SUBSET SUBSET DOMAIN signed
      BY <2>1
    <3> QED BY <2>1, <3>1, <3>2
  <2>6. CASE Restore(d)
    <3>1. PICK c \in copies[d] : file' = [file EXCEPT ![d] = c]
      BY <2>6 DEF Restore
    <3>2. c \in SUBSET DOMAIN signed /\ handle' = handle /\ copies' = copies
      BY <2>1, <2>6 DEF Restore
    <3> QED BY <2>1, <3>1, <3>2
  <2> QED BY <2>2, <2>3, <2>4, <2>5, <2>6
<1>4. mishaps' \in 0..MaxMishaps
  BY HeldTypes, SharedAssumption DEF Export, Import, Reopen, Backup, Restore, Mishap
<1> QED BY <1>1, <1>2, <1>3, <1>4 DEF TypeOK

\* The records a vault starts with are one device's, in order.
LEMMA InitialIs ==
  LET all == InitialRecords
  IN  /\ all \in Seq(Record)
      /\ \A i \in DOMAIN all :
           LET r == all[i]
           IN  /\ r.author = Creator /\ r.seq = i - 1
               /\ r.heads \cup r.parents \cup {r.prev} \subseteq 0..(i - 1)
               /\ r.kind \in ItemOp \cup {"grant"} =>
                    r.epoch \in 1..(i - 1) /\ all[r.epoch].kind = "new"
<1> DEFINE joined == SetToSeq(Founders)
           Placed(r, n, heads) ==
             [r EXCEPT !.seq = n - 1, !.prev = n - 1, !.heads = heads]
           Adding(n) == IF n = 0 THEN {1} ELSE {2 * n + 1}
           N == 2 + 2 * Len(joined)
           first  == Blank
           second == Placed(NewEpoch(0, {Creator}), 2, {1})
           odd(n)  == LET k == (n - 1) \div 2
                      IN  Placed(Addition(joined[k], "writer"), n, Adding(k - 1))
           even(n) == LET k == (n - 1) \div 2
                      IN  Placed(Grant(2, joined[k]), n, Adding(k))
           all == [n \in 1..N |->
                     IF n = 1 THEN first
                     ELSE IF n = 2 THEN second
                     ELSE IF n % 2 = 1 THEN odd(n) ELSE even(n)]
           Good(r, i) ==
             /\ r \in Record /\ r.author = Creator /\ r.seq = i - 1
             /\ r.heads \cup r.parents \cup {r.prev} \subseteq 0..(i - 1)
             /\ r.kind \in ItemOp \cup {"grant"} => r.epoch = 2 /\ i > 2
<1>1. InitialRecords = all
  <2>1. ASSUME NEW n \in 1..N
        PROVE  all[n] = IF n = 1 THEN Blank
                        ELSE IF n = 2 THEN Placed(NewEpoch(0, {Creator}), n, {1})
                        ELSE LET k == (n - 1) \div 2
                             IN  IF n % 2 = 1
                                 THEN Placed(Addition(joined[k], "writer"), n, Adding(k - 1))
                                 ELSE Placed(Grant(2, joined[k]), n, Adding(k))
    BY DEF all
  <2> QED BY <2>1 DEF InitialRecords
<1>2. joined \in Seq(Founders)
  BY SetToSeqIs, SharedAssumption
<1>3. Founders \subseteq Devices /\ Creator \in Devices
  BY SharedAssumption
<1> HIDE DEF joined
<1>4. Len(joined) \in Nat /\ \A k \in 1..Len(joined) : joined[k] \in Devices
  BY <1>2, <1>3
<1>5. Blank \in Record /\ Good(first, 1) /\ first.kind = "genesis"
  BY BlankIs DEF Blank, ItemOp, NoRecord
<1>6. ASSUME NEW r \in Record, NEW n \in Nat, n > 1, NEW heads \in SUBSET (1..(n - 1)),
             r.author = Creator, r.parents = {},
             r.kind \in ItemOp \cup {"grant"} => r.epoch = 2 /\ n > 2
      PROVE  Good(Placed(r, n, heads), n) /\ Placed(r, n, heads).kind = r.kind
  <2>1. n - 1 \in Nat /\ n - 1 \in 0..(n - 1) /\ heads \in SUBSET Nat /\ heads \subseteq 0..(n - 1)
    BY <1>6
  <2> DEFINE q == n - 1
             p == [r EXCEPT !.seq = q, !.prev = q, !.heads = heads]
  <2> HIDE DEF q
  <2>2. /\ p \in Record /\ p.author = r.author /\ p.seq = q /\ p.prev = q
        /\ p.heads = heads /\ p.parents = r.parents /\ p.kind = r.kind
        /\ p.epoch = r.epoch
    BY <2>1 DEF Record, q
  <2>3. p = Placed(r, n, heads)
    BY DEF q
  <2> HIDE DEF p, Placed
  <2> QED BY <1>6, <2>1, <2>2, <2>3 DEF q
<1> HIDE DEF Placed
<1>7. Good(second, 2) /\ second.kind = "new"
  <2> DEFINE r == NewEpoch(0, {Creator})
  <2>1. r \in Record /\ r.author = Creator /\ r.parents = {} /\ r.kind = "new"
    BY <1>3, BlankIs DEF Record, Blank, NewEpoch, EpochOp
  <2> HIDE DEF r, Good
  <2>2. {1} \in SUBSET (1..(2 - 1)) /\ 2 \in Nat /\ 2 > 1
    OBVIOUS
  <2>3. "new" \notin ItemOp \cup {"grant"}
    BY DEF ItemOp
  <2>4. Good(Placed(r, 2, {1}), 2) /\ Placed(r, 2, {1}).kind = r.kind
    BY <1>6, <2>1, <2>2, <2>3
  <2> QED BY <2>1, <2>4 DEF r
<1> HIDE DEF Good, first, second
<1>8. ASSUME NEW n \in 1..N, n # 1, n # 2, n % 2 = 1 PROVE Good(odd(n), n)
  <2> DEFINE k == (n - 1) \div 2
             r == Addition(joined[k], "writer")
  <2>1. k \in 1..Len(joined) /\ n = 2 * k + 1 /\ n \in Nat /\ n > 2
    BY <1>4, <1>8
  <2>2. Adding(k - 1) \in SUBSET (1..(n - 1))
    BY <2>1
  <2> HIDE DEF k, Adding
  <2>3. r \in Record /\ r.author = Creator /\ r.parents = {} /\ r.kind = "add"
    BY <1>4, <2>1, BlankIs DEF Record, Blank, Addition, RosterOp, Members
  <2> HIDE DEF r
  <2>4. "add" \notin ItemOp \cup {"grant"}
    BY DEF ItemOp
  <2>5. Good(Placed(r, n, Adding(k - 1)), n)
    BY <1>6, <2>1, <2>2, <2>3, <2>4
  <2> QED BY <2>5 DEF k, r
<1>9. ASSUME NEW n \in 1..N, n # 1, n # 2, n % 2 # 1 PROVE Good(even(n), n)
  <2> DEFINE k == (n - 1) \div 2
             r == Grant(2, joined[k])
  <2>1. k \in 1..Len(joined) /\ n = 2 * k + 2 /\ n \in Nat /\ n > 2
    BY <1>4, <1>9
  <2>2. Adding(k) \in SUBSET (1..(n - 1))
    BY <2>1
  <2> HIDE DEF k, Adding
  <2>3. r \in Record /\ r.author = Creator /\ r.parents = {} /\ r.epoch = 2
    BY <1>4, <2>1, BlankIs DEF Record, Blank, Grant, EpochOp
  <2> HIDE DEF r
  <2>4. Good(Placed(r, n, Adding(k)), n)
    BY <1>6, <2>1, <2>2, <2>3
  <2> QED BY <2>4 DEF k, r
<1> HIDE DEF odd, even
<1>10. N \in Nat /\ 2 \in 1..N
  BY <1>4
<1>11. \A n \in 1..N : Good(all[n], n)
  BY <1>5, <1>7, <1>8, <1>9
<1>12. all[2].kind = "new"
  BY <1>7, <1>10
<1>13. DOMAIN all = 1..N
  OBVIOUS
<1> HIDE DEF all, N
<1>14. all \in Seq(Record)
  <2>1. all \in [1..N -> Record]
    BY <1>11, <1>13 DEF all, Good
  <2> QED BY <1>10, <2>1, IsASeq
<1>15. ASSUME NEW i \in DOMAIN all
       PROVE  LET r == all[i]
              IN  /\ r.author = Creator /\ r.seq = i - 1
                  /\ r.heads \cup r.parents \cup {r.prev} \subseteq 0..(i - 1)
                  /\ r.kind \in ItemOp \cup {"grant"} =>
                       r.epoch \in 1..(i - 1) /\ all[r.epoch].kind = "new"
  <2>1. Good(all[i], i) /\ i \in Nat
    BY <1>10, <1>11, <1>13
  <2>2. i > 2 => 2 \in 1..(i - 1)
    BY <2>1
  <2> QED BY <1>12, <2>1, <2>2 DEF Good
<1> QED BY <1>1, <1>14, <1>15

LEMMA InitTypes == Init => TypeOK
<1> SUFFICES ASSUME Init PROVE TypeOK
  OBVIOUS
<1>1. signed = InitialRecords
  BY DEF Init
<1>2. /\ signed \in Seq(Record)
      /\ \A i \in DOMAIN signed :
           LET r == signed[i]
           IN  /\ r.heads \cup r.parents \cup {r.prev} \subseteq 0..(i - 1)
               /\ r.kind \in ItemOp \cup {"grant"} =>
                    r.epoch \in 1..(i - 1) /\ signed[r.epoch].kind = "new"
  BY <1>1, InitialIs
<1>3. Start \in [Devices -> SUBSET DOMAIN signed]
  BY <1>1 DEF Start
<1>4. MaxMishaps \in Nat
  BY SharedAssumption
<1> QED BY <1>1, <1>2, <1>3, <1>4 DEF Init, TypeOK

LEMMA StepTypes == TypeOK /\ [Next]_vars => TypeOK'
<1> SUFFICES ASSUME TypeOK, [Next]_vars PROVE TypeOK'
  OBVIOUS
<1>1. CASE UNCHANGED vars
  BY <1>1 DEF vars, stateVars, TypeOK
<1>2. ASSUME NEW d \in Devices, ItemStep(d) PROVE TypeOK'
  <2>1. PICK kind \in ItemOp, value \in Values \cup {Deleted}, time \in Times :
          WriteVersion(d, kind, value, time)
    BY <1>2 DEF ItemStep, PutItem, DeleteItem, ItemOp
  <2> QED BY <2>1, WriteTransacts, TransactTypes
<1>3. ASSUME NEW d \in Devices, AdminStep(d) PROVE TypeOK'
  BY <1>3, RemovalTransacts, RoleTransacts, TransactTypes, InviteInvites, InviteTypes
     DEF AdminStep
<1>4. ASSUME NEW d \in Devices, Handles(d)
      PROVE  TypeOK'
  BY <1>4, HandlingTypes
<1> QED BY <1>1, <1>2, <1>3, <1>4 DEF Next, Handles

\* Everything a device holds was signed; a record comes after the records it names,
\* and under a key that an earlier one minted.
THEOREM SharedTypeCorrect == Spec => []TypeOK
<1> QED BY InitTypes, StepTypes, PTL DEF Spec

(***************************************************************************)
(* Positions.                                                              *)
(***************************************************************************)

\* Whatever is at large of an author is before the position it goes on with.
LEMMA AfterAllAtLarge ==
  ASSUME TypeOK, PositionsInv, NEW d \in Devices,
         NEW i \in DOMAIN signed, AtLarge(i), signed[i].author = d
  PROVE  signed[i].seq < NextSeq(Holds(d), d)
<1>1. Holds(d) \in SUBSET DOMAIN signed
  BY HeldTypes
<1>2. /\ \A k \in Own(Holds(d), d) : signed[k].seq < NextSeq(Holds(d), d)
      /\ NextSeq(Holds(d), d) \in Nat
  BY <1>1, LastOwnIs
<1>3. CASE Abroad(i)
  <2>1. PICK j \in dir : signed[j].author = d /\ signed[i].seq <= signed[j].seq
    BY <1>3 DEF PositionsInv
  <2>2. j \in Own(Holds(d), d) /\ j \in DOMAIN signed
    BY <2>1, HeldTypes DEF Own, Holds
  <2>3. signed[i].seq \in Nat /\ signed[j].seq \in Nat
    BY <2>2, RecordTypes
  <2> QED BY <1>2, <2>1, <2>2, <2>3
<1>4. CASE ~Abroad(i)
  <2>1. i \in Own(Holds(d), d)
    BY <1>4 DEF AtLarge, Own, Holds
  <2> QED BY <1>2, <2>1
<1> QED BY <1>3, <1>4

\* Positions stay distinct when the new records are all that is new at large.
LEMMA NewPositions ==
  ASSUME TypeOK, PositionsInv, NEW d \in Devices, NEW drafts \in Drafts,
         signed' = signed \o Signing(Holds(d), d, drafts),
         revived' = revived, \A i \in DOMAIN signed : AtLarge(i)' => AtLarge(i)
  PROVE  \A i, j \in DOMAIN signed' :
           /\ AtLarge(i)' /\ AtLarge(j)'
           /\ signed'[i].author = signed'[j].author /\ signed'[i].seq = signed'[j].seq
           /\ {i, j} \cap revived' = {}
           => i = j
<1> DEFINE S == Holds(d)
           N == Len(signed)
<1>1. S \in SUBSET DOMAIN signed /\ drafts \in Seq(Record)
  BY HeldTypes DEF Drafts
<1>2. /\ DOMAIN signed' = 1..(N + Len(drafts)) /\ DOMAIN signed = 1..N
      /\ N \in Nat /\ Len(drafts) \in Nat
      /\ \A i \in DOMAIN signed : signed'[i] = signed[i]
      /\ \A n \in 1..Len(drafts) : signed'[N + n] = Signing(S, d, drafts)[n]
  BY <1>1, SignedIs, RecordTypes
<1>3. ASSUME NEW i \in DOMAIN signed', i \notin DOMAIN signed
      PROVE  /\ i - N \in Nat /\ signed'[i].author = d
             /\ signed'[i].seq = NextSeq(S, d) + (i - N) - 1 /\ i - N >= 1
  <2>1. i - N \in 1..Len(drafts) /\ N + (i - N) = i
    BY <1>2, <1>3
  <2>2. signed'[i] = Signing(S, d, drafts)[i - N]
    BY <1>2, <2>1
  <2> QED BY <1>1, <2>1, <2>2, SigningIs
<1>4. NextSeq(S, d) \in Nat
  BY <1>1, LastOwnIs
<1>5. ASSUME NEW i \in DOMAIN signed, NEW j \in DOMAIN signed', j \notin DOMAIN signed,
             AtLarge(i)', signed'[i].author = signed'[j].author
      PROVE  signed'[i].seq # signed'[j].seq
  <2>1. AtLarge(i) /\ signed[i].author = d /\ signed'[i] = signed[i]
    BY <1>2, <1>3, <1>5
  <2>2. signed[i].seq < NextSeq(S, d) /\ signed[i].seq \in Nat
    BY <2>1, AfterAllAtLarge, RecordTypes
  <2> QED BY <1>2, <1>3, <1>4, <1>5, <2>1, <2>2
<1> SUFFICES ASSUME NEW i \in DOMAIN signed', NEW j \in DOMAIN signed',
                    AtLarge(i)', AtLarge(j)', signed'[i].author = signed'[j].author,
                    signed'[i].seq = signed'[j].seq, {i, j} \cap revived = {}
             PROVE  i = j
  OBVIOUS
<1>6. CASE i \in DOMAIN signed /\ j \in DOMAIN signed
  BY <1>2, <1>6 DEF PositionsInv
<1>7. CASE i \notin DOMAIN signed /\ j \notin DOMAIN signed
  <2>1. i \in Nat /\ j \in Nat
    BY <1>2
  <2>2. NextSeq(S, d) + (i - N) - 1 = NextSeq(S, d) + (j - N) - 1
    BY <1>3, <1>7
  <2> QED BY <1>2, <1>4, <2>1, <2>2
<1> QED BY <1>5, <1>6, <1>7

LEMMA TransactPositions ==
  ASSUME TypeOK, PositionsInv, NEW d \in Devices, Transacts(d)
  PROVE  PositionsInv'
<1> DEFINE S == Holds(d)
           N == Len(signed)
<1>1. PICK drafts \in Drafts : Transact(d, drafts)
  BY DEF Transacts
<1> DEFINE new == (N + 1)..(N + Len(drafts))
           all == S \cup new
<1>2. S \in SUBSET DOMAIN signed /\ drafts \in Seq(Record)
  BY HeldTypes DEF Drafts
<1>3. /\ signed' = signed \o Signing(S, d, drafts) /\ dir' = dir
      /\ copies' = copies /\ revived' = revived /\ file' = [file EXCEPT ![d] = all]
      /\ handle' = handle \/ handle' = [handle EXCEPT ![d] = all]
  BY <1>1 DEF Transact, Transacts
<1>4. /\ DOMAIN signed' = 1..(N + Len(drafts)) /\ DOMAIN signed = 1..N
      /\ N \in Nat /\ Len(drafts) \in Nat
      /\ \A i \in DOMAIN signed : signed'[i] = signed[i]
      /\ \A n \in 1..Len(drafts) : signed'[N + n] = Signing(S, d, drafts)[n]
  BY SMTT(40), <1>2, <1>3, SignedIs, RecordTypes
<1>5. ASSUME NEW i \in new PROVE signed'[i].author = d /\ i \notin DOMAIN signed
  <2>1. i - N \in 1..Len(drafts) /\ N + (i - N) = i /\ i \notin DOMAIN signed
    BY <1>4
  <2>2. signed'[i] = Signing(S, d, drafts)[i - N]
    BY <1>4, <2>1
  <2> QED BY <1>2, <2>1, <2>2, SigningIs
<1>6. new \cup DOMAIN signed = DOMAIN signed'
  BY <1>4
<1> HIDE DEF new
<1>7. \A e \in Devices :
        file'[e] \cup handle'[e] \subseteq IF e = d THEN all ELSE file[e] \cup handle[e]
  <2>1. file[d] \cup handle[d] \subseteq all
    BY DEF Holds
  <2> HIDE DEF all
  <2> QED BY <1>3, <2>1, HeldTypes
<1>8. \A i \in all : \/ i \in new
                     \/ i \in file[d] \cup handle[d]
                     \/ i \in dir /\ signed[i].author = d
  BY DEF Holds
<1> HIDE DEF all
<1>9. ASSUME NEW i \in DOMAIN signed', Abroad(i)' PROVE i \in DOMAIN signed /\ Abroad(i)
  <2>1. CASE i \in dir \/ \E e \in Devices \ {signed'[i].author} : i \in UNION copies[e]
    <3>1. i \in DOMAIN signed
      BY <2>1, HeldTypes
    <3> QED BY <1>4, <2>1, <3>1 DEF Abroad
  <2>2. CASE \E e \in Devices \ {signed'[i].author} : i \in file'[e] \cup handle'[e]
    <3>1. PICK e \in Devices \ {signed'[i].author} : i \in file'[e] \cup handle'[e]
      BY <2>2
    <3>2. CASE e # d
      <4>1. i \in file[e] \cup handle[e] /\ i \in DOMAIN signed
        BY <1>7, <3>1, <3>2, HeldTypes
      <4> QED BY <1>4, <3>1, <4>1 DEF Abroad
    <3>3. CASE e = d
      <4>1. i \in all /\ i \notin new
        BY <1>5, <1>7, <3>1, <3>3
      <4>2. i \in DOMAIN signed /\ signed'[i] = signed[i]
        BY <1>4, <1>6, <4>1
      <4> QED BY <1>8, <3>1, <3>3, <4>1, <4>2 DEF Abroad
    <3> QED BY <3>2, <3>3
  <2> QED BY <1>3, <1>9, <2>1, <2>2 DEF Abroad
<1>10. ASSUME NEW i \in DOMAIN signed, AtLarge(i)' PROVE AtLarge(i)
  <2>1. CASE Abroad(i)'
    BY <1>6, <1>9, <2>1 DEF AtLarge
  <2>2. CASE ~Abroad(i)'
    <3> DEFINE e == signed[i].author
    <3>1. i \in file'[e] \cup handle'[e] /\ e \in Devices
      BY <1>4, <1>10, <2>2, RecordTypes DEF AtLarge
    <3>2. CASE e # d
      BY <1>7, <3>1, <3>2 DEF AtLarge
    <3>3. CASE e = d
      <4>1. i \in all /\ i \notin new
        BY <1>5, <1>7, <3>1, <3>3
      <4> QED BY <1>8, <3>3, <4>1 DEF AtLarge, Abroad
    <3> QED BY <3>2, <3>3
  <2> QED BY <2>1, <2>2
<1>11. ASSUME NEW i \in DOMAIN signed', Abroad(i)'
       PROVE  \E j \in dir' : /\ signed'[j].author = signed'[i].author
                              /\ signed'[i].seq <= signed'[j].seq
  <2>1. i \in DOMAIN signed /\ Abroad(i)
    BY <1>9, <1>11
  <2>2. PICK j \in dir : signed[j].author = signed[i].author /\ signed[i].seq <= signed[j].seq
    BY <2>1 DEF PositionsInv
  <2>3. j \in DOMAIN signed
    BY HeldTypes
  <2> QED BY <1>3, <1>4, <2>1, <2>2, <2>3
<1>12. \A i, j \in DOMAIN signed' :
         /\ AtLarge(i)' /\ AtLarge(j)'
         /\ signed'[i].author = signed'[j].author /\ signed'[i].seq = signed'[j].seq
         /\ {i, j} \cap revived' = {}
         => i = j
  BY <1>3, <1>10, NewPositions
<1> QED BY <1>11, <1>12 DEF PositionsInv

LEMMA InvitePositions ==
  ASSUME TypeOK, PositionsInv, NEW d \in Devices, NEW m \in Devices, Invites(d, m)
  PROVE  PositionsInv'
<1> DEFINE S == Holds(d)
           N == Len(signed)
           new == (N + 1)..Len(signed')
           all == S \cup new
<1>1. PICK drafts \in Drafts :
        Len(drafts) # 0 /\ signed' = signed \o Signing(S, d, drafts)
  BY DEF Invites
<1>2. S \in SUBSET DOMAIN signed /\ drafts \in Seq(Record)
  BY HeldTypes DEF Drafts
<1>3. /\ DOMAIN signed' = 1..Len(signed') /\ Len(signed') = N + Len(drafts)
      /\ DOMAIN signed = 1..N /\ N \in Nat /\ Len(drafts) \in Nat
      /\ \A i \in DOMAIN signed : signed'[i] = signed[i]
      /\ \A n \in 1..Len(drafts) : signed'[N + n] = Signing(S, d, drafts)[n]
  <2>1. N \in Nat /\ DOMAIN signed = 1..N
    BY RecordTypes
  <2>2. drafts \in Seq(Record) /\ Len(drafts) \in Nat
    BY <1>2 DEF Drafts
  <2>3. /\ Len(signed') = Len(signed) + Len(drafts)
        /\ DOMAIN signed' = 1..(Len(signed) + Len(drafts))
        /\ \A i \in DOMAIN signed : signed'[i] = signed[i]
        /\ \A n \in 1..Len(drafts) :
             signed'[Len(signed) + n] = Signing(S, d, drafts)[n]
    BY <1>1, <1>2, <2>2, SignedIs
  <2> QED BY <2>1, <2>2, <2>3
<1> DEFINE sets == \/ /\ dir' = dir \cup new
                      /\ file' = [file EXCEPT ![d] = all, ![m] = all]
                      /\ handle' = [handle EXCEPT ![d] = all, ![m] = all]
                   \/ /\ file' = [file EXCEPT ![d] = all]
                      /\ UNCHANGED <<dir, handle>>
<1>4. sets /\ UNCHANGED <<copies, revived>>
  BY DEF Invites
<1>5. ASSUME NEW i \in new
      PROVE  /\ signed'[i].author = d /\ i \notin DOMAIN signed /\ i \in DOMAIN signed'
             /\ signed'[i].seq = NextSeq(S, d) + (i - N) - 1
  <2>1. i - N \in 1..Len(drafts) /\ N + (i - N) = i /\ i \notin DOMAIN signed
        /\ i \in DOMAIN signed'
    BY <1>3
  <2>2. signed'[i] = Signing(S, d, drafts)[i - N]
    BY <1>3, <2>1
  <2> QED BY <1>2, <2>1, <2>2, SigningIs
<1>6. new \cup DOMAIN signed = DOMAIN signed' /\ N + 1 \in new
  BY <1>1, <1>3
<1>7. NextSeq(S, d) \in Nat /\ signed'[N + 1].author = d
      /\ signed'[N + 1].seq = NextSeq(S, d)
  <2>1. NextSeq(S, d) \in Nat
    BY <1>2, LastOwnIs
  <2>2. /\ signed'[N + 1].author = d
        /\ signed'[N + 1].seq = NextSeq(S, d) + ((N + 1) - N) - 1
    BY <1>5, <1>6
  <2>3. NextSeq(S, d) + ((N + 1) - N) - 1 = NextSeq(S, d)
    BY <1>3, <2>1
  <2> QED BY <2>1, <2>2, <2>3
<1> HIDE DEF new
<1>8. \A i \in all : \/ i \in new
                     \/ i \in file[d] \cup handle[d]
                     \/ i \in dir /\ signed[i].author = d
  BY DEF Holds
<1>9. file[d] \cup handle[d] \subseteq all /\ S \subseteq all
  BY DEF Holds
<1> HIDE DEF all
<1>10. ASSUME NEW e \in Devices
       PROVE  \/ file'[e] \cup handle'[e] \subseteq file[e] \cup handle[e]
              \/ e = d /\ file'[e] \cup handle'[e] \subseteq all
              \/ e = m /\ file'[e] \cup handle'[e] \subseteq all /\ dir' = dir \cup new
  BY <1>4, <1>9, HeldTypes
<1>11. copies' = copies /\ revived' = revived
  BY <1>4
<1>12. dir \subseteq dir' /\ dir' \subseteq dir \cup new
  BY <1>4
\* What was not abroad before, of what the device holds, it wrote itself.
<1>13. ASSUME NEW i \in all, i \in DOMAIN signed, ~Abroad(i)
       PROVE  signed[i].author = d /\ i \in S
  <2>1. i \notin new /\ i \in S
    BY <1>5, <1>13 DEF all
  <2>2. i \notin dir /\ i \in file[d] \cup handle[d]
    BY <1>8, <1>13, <2>1 DEF Abroad
  <2> QED BY <1>13, <2>1, <2>2 DEF Abroad
<1>14. ASSUME NEW i \in DOMAIN signed, AtLarge(i)' PROVE AtLarge(i)
  <2>1. ASSUME i \in all PROVE AtLarge(i)
    <3>1. CASE Abroad(i)
      BY <3>1 DEF AtLarge
    <3>2. CASE ~Abroad(i)
      BY <1>5, <1>8, <1>13, <2>1, <3>2 DEF AtLarge, Abroad
    <3> QED BY <3>1, <3>2
  <2>2. signed'[i] = signed[i] /\ i \notin new /\ signed[i].author \in Devices
    BY <1>3, <1>5, RecordTypes
  <2>3. CASE i \in dir' \/ \E e \in Devices \ {signed[i].author} : i \in UNION copies[e]
    BY <1>12, <2>2, <2>3 DEF AtLarge, Abroad
  <2>4. ASSUME NEW e \in Devices, i \in file'[e] \cup handle'[e], i \notin all
        PROVE  AtLarge(i)
    <3>1. i \in file[e] \cup handle[e]
      BY <1>10, <2>4
    <3> QED BY <2>2, <3>1 DEF AtLarge, Abroad
  <2>5. \/ i \in dir' \/ \E e \in Devices \ {signed[i].author} : i \in UNION copies[e]
        \/ \E e \in Devices : i \in file'[e] \cup handle'[e]
    BY <1>11, <1>14, <2>2 DEF AtLarge, Abroad
  <2> QED BY <2>1, <2>3, <2>4, <2>5
<1>15. ASSUME NEW i \in DOMAIN signed', Abroad(i)'
       PROVE  \E j \in dir' : /\ signed'[j].author = signed'[i].author
                              /\ signed'[i].seq <= signed'[j].seq
  <2>1. CASE i \in dir'
    <3>1. signed'[i].seq <= signed'[i].seq
      <4>1. CASE i \in DOMAIN signed
        BY <1>3, <4>1, RecordTypes
      <4>2. CASE i \in new
        <5>1. i \in Nat /\ signed'[i].seq = NextSeq(S, d) + (i - N) - 1
          BY <1>3, <1>5, <4>2
        <5> QED BY <1>3, <1>7, <5>1
      <4> QED BY <1>6, <4>1, <4>2
    <3> QED BY <2>1, <3>1
  <2>2. CASE i \in DOMAIN signed /\ Abroad(i)
    <3>1. PICK j \in dir : signed[j].author = signed[i].author /\ signed[i].seq <= signed[j].seq
      BY <2>2 DEF PositionsInv
    <3>2. j \in DOMAIN signed /\ j \in dir'
      BY <1>12, <3>1, HeldTypes
    <3> QED BY <1>3, <2>2, <3>1, <3>2
  <2>3. CASE i \notin dir' /\ ~(i \in DOMAIN signed /\ Abroad(i))
    <3>1. i \in all /\ (dir' = dir \cup new \/ i \in new)
      <4>1. ~\E e \in Devices \ {signed'[i].author} : i \in UNION copies'[e]
        BY <1>3, <1>11, <2>3, HeldTypes DEF Abroad
      <4>2. CASE \E e \in Devices \ {signed'[i].author} : i \in file'[e] \cup handle'[e]
        <5>1. PICK e \in Devices \ {signed'[i].author} : i \in file'[e] \cup handle'[e]
          BY <4>2
        <5>2. i \notin file[e] \cup handle[e]
          BY <1>3, <2>3, <5>1, HeldTypes DEF Abroad
        <5>3. CASE e = d
          <6>1. i \in all /\ i \notin new
            BY <1>5, <1>10, <5>1, <5>2, <5>3
          <6>2. i \in DOMAIN signed /\ signed[i].author # d
            BY <1>3, <1>6, <5>1, <5>3, <6>1
          <6> QED BY <1>13, <2>3, <6>1, <6>2
        <5> QED BY <1>10, <5>1, <5>2, <5>3
      <4> QED BY <1>15, <2>3, <4>1, <4>2 DEF Abroad
    <3>2. dir' = dir \cup new /\ i \in DOMAIN signed
      <4>1. CASE i \notin new
        BY <1>6, <3>1, <4>1
      <4>2. CASE i \in new
        <5>1. dir' # dir \cup new
          BY <2>3, <4>2
        <5>2. \A e \in Devices : i \notin UNION copies'[e]
          BY <1>5, <1>11, <4>2, HeldTypes
        <5>3. \A e \in Devices \ {d} : file'[e] \cup handle'[e] \subseteq file[e] \cup handle[e]
          BY <1>10, <5>1
        <5>4. i \notin DOMAIN signed /\ signed'[i].author = d
          BY <1>5, <4>2
        <5> QED BY <1>15, <2>3, <5>2, <5>3, <5>4, HeldTypes DEF Abroad
      <4> QED BY <4>1, <4>2
    <3>3. signed[i].author = d /\ i \in Own(S, d)
      BY <1>13, <2>3, <3>1, <3>2 DEF Own
    <3>4. signed[i].seq < NextSeq(S, d) /\ signed[i].seq \in Nat
      BY <1>2, <3>2, <3>3, LastOwnIs, RecordTypes
    <3>5. signed'[i].seq <= signed'[N + 1].seq /\ N + 1 \in dir'
      BY <1>3, <1>6, <1>7, <3>2, <3>4
    <3> QED BY <1>3, <1>7, <3>2, <3>3, <3>5
  <2> QED BY <2>1, <2>2, <2>3
<1>16. \A i, j \in DOMAIN signed' :
         /\ AtLarge(i)' /\ AtLarge(j)'
         /\ signed'[i].author = signed'[j].author /\ signed'[i].seq = signed'[j].seq
         /\ {i, j} \cap revived' = {}
         => i = j
  BY <1>1, <1>11, <1>14, NewPositions
<1> QED BY <1>15, <1>16 DEF PositionsInv

LEMMA HandlingPositions ==
  ASSUME TypeOK, PositionsInv, NEW d \in Devices, Handles(d)
  PROVE  PositionsInv'
<1> USE DEF Handles, ExchangeStep
<1>1. signed' = signed
  BY DEF Export, Import, Reopen, Backup, Restore
<1>2. dir \subseteq dir' /\ revived \subseteq revived'
  BY DEF Export, Import, Reopen, Backup, Restore
<1>3. ASSUME NEW i \in DOMAIN signed
      PROVE  /\ Abroad(i)' => Abroad(i) \/ i \in dir'
             /\ AtLarge(i)' => AtLarge(i) \/ i \in revived'
  <2> DEFINE goal == /\ Abroad(i)' => Abroad(i) \/ i \in dir'
                     /\ AtLarge(i)' => AtLarge(i) \/ i \in revived'
  <2>1. signed[i].author \in Devices /\ file' \in [Devices -> SUBSET DOMAIN signed']
    BY RecordTypes, HandlingTypes, HeldTypes DEF TypeOK
  <2>2. ASSUME NEW k \in DOMAIN signed, Export(d, k) PROVE goal
    <3>1. /\ file' = file /\ handle' = handle /\ copies' = copies /\ dir' = dir \cup {k}
          /\ k \in handle[d]
      BY <2>2 DEF Export
    <3> QED BY <1>1, <2>1, <3>1 DEF Abroad, AtLarge
  <2>3. ASSUME NEW k \in DOMAIN signed, Import(d, k) PROVE goal
    <3>1. /\ dir' = dir /\ copies' = copies /\ k \in dir
          /\ \A e \in Devices : file'[e] \cup handle'[e] \subseteq file[e] \cup handle[e] \cup {k}
      BY <2>3, HeldTypes DEF Import
    <3> QED BY <1>1, <2>1, <3>1 DEF Abroad, AtLarge
  <2>4. CASE Reopen(d)
    <3>1. /\ dir' = dir /\ copies' = copies
          /\ \A e \in Devices : file'[e] \cup handle'[e] \subseteq file[e] \cup handle[e]
      BY <2>4, HeldTypes DEF Reopen
    <3> QED BY <1>1, <2>1, <3>1 DEF Abroad, AtLarge
  <2>5. CASE Backup(d)
    <3>1. /\ dir' = dir /\ file' = file /\ handle' = handle
          /\ \A e \in Devices : UNION copies'[e] \subseteq file[e] \cup UNION copies[e]
      BY <2>5, HeldTypes DEF Backup
    <3> QED BY <1>1, <2>1, <3>1 DEF Abroad, AtLarge
  <2>6. CASE Restore(d)
    <3>1. PICK c \in copies[d] :
            /\ file' = [file EXCEPT ![d] = c]
            /\ revived' = revived \cup {k \in c \ Holds(d) : signed[k].author = d}
      BY <2>6 DEF Restore
    <3>2. dir' = dir /\ copies' = copies /\ handle' = handle
      BY <2>6 DEF Restore
    <3>3. \A e \in Devices : /\ e # d => file'[e] = file[e]
                             /\ e = d => file'[e] = c
      BY <3>1, HeldTypes
    <3>4. ASSUME Abroad(i)' PROVE Abroad(i)
      <4>1. CASE i \in dir'
        BY <3>2, <4>1 DEF Abroad
      <4>2. CASE \E e \in Devices \ {signed[i].author} :
                   i \in file'[e] \cup handle'[e] \cup UNION copies'[e]
        <5>1. PICK e \in Devices \ {signed[i].author} :
                i \in file'[e] \cup handle'[e] \cup UNION copies'[e]
          BY <4>2
        <5>2. i \in file[e] \cup handle[e] \cup UNION copies[e]
          BY <3>1, <3>2, <3>3, <5>1
        <5> QED BY <5>1, <5>2 DEF Abroad
      <4> QED BY <1>1, <3>4, <4>1, <4>2 DEF Abroad
    <3>5. ASSUME AtLarge(i)', ~Abroad(i)' PROVE AtLarge(i) \/ i \in revived'
      <4> DEFINE e == signed[i].author
      <4>1. i \in file'[e] \cup handle[e]
        BY <1>1, <3>2, <3>5 DEF AtLarge
      <4>2. CASE i \in file[e] \cup handle[e]
        BY <4>2 DEF AtLarge
      <4>3. CASE i \notin file[e] \cup handle[e]
        <5>1. e = d /\ i \in c
          BY <2>1, <3>3, <4>1, <4>3
        <5>2. i \in Holds(d) => i \in dir
          BY <4>3, <5>1 DEF Holds
        <5> QED BY <3>1, <5>1, <5>2 DEF AtLarge, Abroad
      <4> QED BY <4>2, <4>3
    <3> QED BY <3>4, <3>5 DEF AtLarge
  <2> QED BY <2>2, <2>3, <2>4, <2>5, <2>6
<1>4. ASSUME NEW i \in DOMAIN signed, Abroad(i)'
      PROVE  \E j \in dir' : /\ signed[j].author = signed[i].author
                             /\ signed[i].seq <= signed[j].seq
  <2>1. CASE Abroad(i)
    BY <1>2, <2>1 DEF PositionsInv
  <2>2. CASE i \in dir'
    BY <2>2, RecordTypes
  <2> QED BY <1>3, <1>4, <2>1, <2>2
<1>5. \A i, j \in DOMAIN signed :
        /\ AtLarge(i)' /\ AtLarge(j)'
        /\ signed[i].author = signed[j].author /\ signed[i].seq = signed[j].seq
        /\ {i, j} \cap revived' = {}
        => i = j
  BY <1>2, <1>3 DEF PositionsInv
<1> QED BY <1>1, <1>4, <1>5 DEF PositionsInv

LEMMA InitPositions == Init => PositionsInv
<1> SUFFICES ASSUME Init PROVE PositionsInv
  OBVIOUS
<1>1. signed = InitialRecords /\ dir = DOMAIN signed
  BY DEF Init
<1>2. TypeOK
  BY InitTypes
<1>3. ASSUME NEW i \in DOMAIN signed PROVE signed[i].seq = i - 1 /\ i \in Nat /\ i \in dir
  BY <1>1, <1>2, InitialIs, RecordTypes
<1>4. ASSUME NEW i \in DOMAIN signed, NEW j \in DOMAIN signed, signed[i].seq = signed[j].seq
      PROVE  i = j
  BY <1>3, <1>4
<1>5. ASSUME NEW i \in DOMAIN signed
      PROVE  \E j \in dir : /\ signed[j].author = signed[i].author
                            /\ signed[i].seq <= signed[j].seq
  BY <1>2, <1>3, RecordTypes
<1> QED BY <1>4, <1>5 DEF PositionsInv

LEMMA StepPositions == TypeOK /\ PositionsInv /\ [Next]_vars => PositionsInv'
<1> SUFFICES ASSUME TypeOK, PositionsInv, [Next]_vars PROVE PositionsInv'
  OBVIOUS
<1>1. CASE UNCHANGED vars
  BY <1>1 DEF vars, stateVars, PositionsInv, Abroad, AtLarge
<1>2. ASSUME NEW d \in Devices, ItemStep(d) PROVE PositionsInv'
  <2>1. PICK kind \in ItemOp, value \in Values \cup {Deleted}, time \in Times :
          WriteVersion(d, kind, value, time)
    BY <1>2 DEF ItemStep, PutItem, DeleteItem, ItemOp
  <2> QED BY <2>1, WriteTransacts, TransactPositions
<1>3. ASSUME NEW d \in Devices, AdminStep(d) PROVE PositionsInv'
  BY <1>3, RemovalTransacts, RoleTransacts, TransactPositions, InviteInvites,
     InvitePositions DEF AdminStep
<1>4. ASSUME NEW d \in Devices, Handles(d)
      PROVE  PositionsInv'
  BY <1>4, HandlingPositions
<1> QED BY <1>1, <1>2, <1>3, <1>4 DEF Next, Handles

\* What left its author, into the directory, another replica or a copy of one, is no
\* further than what the author published, so that it goes on after everything it
\* published and holds. Two records at large at one position are one, unless a restore
\* brought one of them back.
THEOREM SharedPositions == Spec => []PositionsInv
<1> QED BY InitTypes, StepTypes, InitPositions, StepPositions, PTL DEF Spec

\* A device publishes no position twice, whatever copies of its replica were put back
\* and whose reply was lost, except by a record that it had lost and a restore brought
\* back (next_position, import_own).
THEOREM SharedPublishedOnce == Spec => []PositionsPublishedOnce
<1>1. TypeOK /\ PositionsInv => PositionsPublishedOnce
  BY HeldTypes DEF PositionsInv, PositionsPublishedOnce, Abroad, AtLarge
<1> QED BY <1>1, SharedTypeCorrect, SharedPositions, PTL

(***************************************************************************)
(* A view depends on its records alone: what is signed later is not in it. *)
(***************************************************************************)

Extended == \A i \in DOMAIN signed : signed'[i] = signed[i]

\* The roster records kept are the same, and what they come after.
LEMMA KeptSame ==
  ASSUME TypeOK, NEW S \in SUBSET DOMAIN signed, Extended
  PROVE  /\ Kept(S)' = Kept(S) /\ Graph(S)' = Graph(S)
         /\ \A i \in S : Edges(Kept(S), i)' = Edges(Kept(S), i)
<1>1. \A i, j \in S : Before(i, j)' = Before(i, j)
  BY DEF Extended, Before
<1>2. Kept(S)' = Kept(S)
  BY <1>1 DEF Kept, Extended
<1>3. \A i \in Kept(S) : signed'[i] = signed[i]
  BY DEF Kept, Extended
<1> QED BY <1>2, <1>3 DEF Graph, Edges, Extended

LEMMA OrderSame ==
  ASSUME TypeOK, NEW S \in SUBSET DOMAIN signed, Extended
  PROVE  Order(S)' = Order(S)
<1> DEFINE N == Cardinality(Graph(S))
<1>1. Graph(S)' = Graph(S) /\ N' = N
  BY KeptSame
<1>2. Order(S) = (CHOOSE g : IsGrown(g, S, N))[N]
  BY DEF Order, IsGrown, Graph
<1>3. Order(S)' = (CHOOSE g : IsGrown(g, S, N)')[N]
  BY <1>1 DEF Order, IsGrown, Graph
<1>4. ASSUME NEW g PROVE IsGrown(g, S, N)' <=> IsGrown(g, S, N)
  <2> DEFINE Ready(n) == {i \in Graph(S) \ Elements(g[n - 1]) :
                            Edges(Kept(S), i) \subseteq Elements(g[n - 1])}
             next(n) == IF n = 0 THEN <<>>
                        ELSE IF Ready(n) = {} THEN g[n - 1]
                        ELSE Append(g[n - 1], Smallest(Ready(n)))
  <2>1. Graph(S) \subseteq S
    BY DEF Graph, Kept
  <2>2. ASSUME NEW n \in 0..N PROVE next(n)' = next(n)
    <3>1. Ready(n)' = Ready(n)
      BY <1>1, <2>1, KeptSame DEF Elements
    <3>2. Ready(n) \subseteq DOMAIN signed
      BY <2>1
    <3> DEFINE ready == Ready(n)
    <3>3. Smallest(ready)' = Smallest(ready)
      <4>1. \A i, j \in ready : Before(i, j)' = Before(i, j)
        BY <3>2 DEF Before, Extended
      <4> HIDE DEF Ready
      <4> QED BY <3>1, <4>1 DEF Smallest
    <3> HIDE DEF Ready
    <3> QED BY <3>1, <3>3
  <2>3. IsGrown(g, S, N) <=> g = [n \in 0..N |-> next(n)]
    BY DEF IsGrown
  <2>4. IsGrown(g, S, N)' <=> g = [n \in 0..N |-> next(n)']
    BY <1>1 DEF IsGrown
  <2> HIDE DEF next, N
  <2> QED BY <2>2, <2>3, <2>4
<1> HIDE DEF N
<1>5. (CHOOSE g : IsGrown(g, S, N)') = (CHOOSE g : IsGrown(g, S, N))
  BY <1>4
<1> QED BY <1>2, <1>3, <1>5

LEMMA RosterSame ==
  ASSUME TypeOK, NEW S \in SUBSET DOMAIN signed, Extended
  PROVE  RosterOf(S)' = RosterOf(S)
<1> DEFINE order == Order(S)
           N == Len(order)
<1>1. order' = order /\ N' = N
  BY OrderSame
<1>2. RosterOf(S) = [order |-> order, roles |-> (CHOOSE h : IsHistory(h, order, N))[N]]
  BY DEF RosterOf, IsHistory
<1>3. RosterOf(S)' = [order |-> order, roles |-> (CHOOSE h : IsHistory(h, order, N)')[N]]
  BY <1>1 DEF RosterOf, IsHistory
<1>4. N \in Nat /\ \A n \in 1..N : order[n] \in DOMAIN signed
  BY OrderIsHere
<1>5. ASSUME NEW h PROVE IsHistory(h, order, N)' <=> IsHistory(h, order, N)
  <2> DEFINE now(n) == h[n - 1][n]
             next(n) == IF n = 0 THEN <<[d \in Devices |-> "absent"]>>
                        ELSE Append(h[n - 1],
                                    IF Applies(now(n), signed[order[n]])
                                    THEN Applied(now(n), signed[order[n]]) ELSE now(n))
  <2>1. ASSUME NEW n \in 0..N PROVE next(n)' = next(n)
    <3>1. n # 0 => signed'[order'[n]] = signed[order[n]]
      BY <1>1, <1>4 DEF Extended
    <3> HIDE DEF order
    <3> QED BY <3>1 DEF Applies, Applied
  <2>2. IsHistory(h, order, N) <=> h = [n \in 0..N |-> next(n)]
    BY DEF IsHistory
  <2>3. IsHistory(h, order, N)' <=> h = [n \in 0..N |-> next(n)']
    BY <1>1 DEF IsHistory
  <2> HIDE DEF next, N
  <2> QED BY <2>1, <2>2, <2>3
<1> HIDE DEF N
<1>6. (CHOOSE h : IsHistory(h, order, N)') = (CHOOSE h : IsHistory(h, order, N))
  BY <1>5
<1> QED BY <1>2, <1>3, <1>6

\* So are the heads, the keys and the accepted versions.
LEMMA ViewSame ==
  ASSUME TypeOK, NEW S \in SUBSET DOMAIN signed, Extended, NEW d
  PROVE  LET R == RosterOf(S)
         IN  /\ HeadsOf(S, R)' = HeadsOf(S, R)
             /\ RolesNow(R)' = RolesNow(R)
             /\ Epochs(S, R)' = Epochs(S, R)
             /\ KeysOf(S, R, d)' = KeysOf(S, R, d)
             /\ Current(S, R, d)' = Current(S, R, d)
             /\ Accepted(S, d)' = Accepted(S, d)
             /\ Tips(Accepted(S, d))' = Tips(Accepted(S, d))
<1> DEFINE R == RosterOf(S)
<1>1. R' = R
  BY RosterSame
<1>2. \A i \in S : signed'[i] = signed[i]
  BY DEF Extended
<1>3. \A n \in DOMAIN R.order : R.order[n] \in S
  BY OrderIsHere, RosterIs
<1> HIDE DEF R
<1>4. RolesNow(R)' = RolesNow(R)
  BY <1>1 DEF RolesNow
<1>5. HeadsOf(S, R)' = HeadsOf(S, R)
  <2> DEFINE applied == {R.order[n] : n \in {m \in DOMAIN R.order : R.roles[m + 1] # R.roles[m]}}
  <2>1. applied' = applied /\ applied \subseteq S
    BY <1>1, <1>3
  <2>2. \A i \in S : Edges(Kept(S), i)' = Edges(Kept(S), i)
    BY KeptSame
  <2>3. HeadsOf(S, R) = applied \ UNION {Edges(Kept(S), i) : i \in applied}
    BY DEF HeadsOf
  <2>4. HeadsOf(S, R)' = applied' \ UNION {Edges(Kept(S), i)' : i \in applied'}
    BY DEF HeadsOf
  <2> HIDE DEF applied
  <2>5. UNION {Edges(Kept(S), i)' : i \in applied} = UNION {Edges(Kept(S), i) : i \in applied}
    BY <2>1, <2>2
  <2> QED BY <2>1, <2>3, <2>4, <2>5
<1>6. ASSUME NEW i \in S PROVE MayWrite(R, i)' = MayWrite(R, i)
  <2> DEFINE places == {n \in DOMAIN R.order : R.order[n] \in signed[i].heads}
             latest == CHOOSE n \in places : \A m \in places : m <= n
             here   == signed[i].heads \subseteq Elements(R.order)
  <2>1. places' = places /\ here' = here /\ signed'[i] = signed[i]
    BY <1>1, <1>2 DEF Elements
  <2>2. Authority(R, i) = IF here THEN R.roles[latest + 1][signed[i].author] ELSE "absent"
    BY DEF Authority
  <2>3. Authority(R, i)' =
          IF here' THEN R'.roles[latest' + 1][signed'[i].author] ELSE "absent"
    BY DEF Authority
  <2> HIDE DEF places, here
  <2>4. latest' = latest
    BY <2>1
  <2> HIDE DEF latest
  <2> QED BY <1>1, <2>1, <2>2, <2>3, <2>4 DEF MayWrite
<1>7. Epochs(S, R)' = Epochs(S, R)
  BY <1>2, <1>6 DEF Epochs
<1>8. \A e : Grants(S, R, e)' = Grants(S, R, e)
  BY <1>2, <1>6 DEF Grants
<1>9. \A e \in S : Recipients(S, R, e)' = Recipients(S, R, e)
  <2>1. \A e : Grants(S, R, e) \subseteq S
    BY DEF Grants
  <2> QED BY <1>2, <1>8, <2>1 DEF Recipients
<1>10. KeysOf(S, R, d)' = KeysOf(S, R, d)
  BY <1>7, <1>9, KeysAreEpochs DEF KeysOf
<1>11. Current(S, R, d)' = Current(S, R, d)
  <2> DEFINE keys   == KeysOf(S, R, d)
             newest == {e \in keys : \A f \in keys : signed[f].height <= signed[e].height}
  <2>1. keys' = keys /\ keys \subseteq S
    BY <1>10, KeysAreEpochs
  <2> HIDE DEF keys
  <2>2. newest' = newest
    BY <1>2, <2>1
  <2>3. Current(S, R, d) = Smallest(newest) /\ Current(S, R, d)' = Smallest(newest)'
    BY DEF Current, keys
  <2>4. newest \subseteq DOMAIN signed
    BY <2>1
  <2>5. \A i, j \in newest : Before(i, j)' = Before(i, j)
    BY <2>4 DEF Before, Extended
  <2> HIDE DEF newest
  <2>6. Smallest(newest)' = Smallest(newest)
    BY <2>2, <2>5 DEF Smallest
  <2> QED BY <2>3, <2>6
<1>12. Accepted(S, d)' = Accepted(S, d)
  <2>1. Accepted(S, d) = {i \in S : /\ signed[i].kind \in ItemOp
                                    /\ signed[i].epoch \in KeysOf(S, R, d) /\ MayWrite(R, i)}
    BY DEF Accepted, R
  <2>2. Accepted(S, d)' = {i \in S : /\ signed'[i].kind \in ItemOp
                                     /\ signed'[i].epoch \in KeysOf(S, R, d)'
                                     /\ MayWrite(R, i)'}
    BY DEF Accepted, R
  <2> QED BY <1>2, <1>6, <1>10, <2>1, <2>2
<1>13. Tips(Accepted(S, d))' = Tips(Accepted(S, d))
  <2> DEFINE V == Accepted(S, d)
  <2>1. V' = V /\ V \subseteq S
    BY <1>12 DEF Accepted
  <2> HIDE DEF V
  <2>2. \A i \in V : signed'[i].parents = signed[i].parents
    BY <1>2, <2>1
  <2> QED BY <2>1, <2>2 DEF Tips, V
<1> QED BY <1>4, <1>5, <1>7, <1>10, <1>11, <1>12, <1>13 DEF R

(***************************************************************************)
(* A version its author just wrote.                                        *)
(***************************************************************************)

\* A version is written on what its author holds, all of it.
LEMMA WriteFresh ==
  ASSUME TypeOK, NEW d \in Devices, NEW kind \in ItemOp,
         NEW value \in Values \cup {Deleted}, NEW time \in Times,
         kind = "delete" => value = Deleted, WriteVersion(d, kind, value, time)
  PROVE  FreshInv'
<1> DEFINE N == Len(signed)
           r == signed'[N + 1]
<1>1. PICK S \in SUBSET DOMAIN signed : S = Holds(d)
  BY HeldTypes
<1> DEFINE R == RosterOf(S)
           draft == [Blank EXCEPT
             !.kind = kind, !.value = value, !.rank = time,
             !.heads = HeadsOf(S, R), !.parents = Tips(Accepted(S, d)),
             !.epoch = Current(S, R, d)]
<1>2. /\ signed' = signed \o Signing(S, d, <<draft>>)
      /\ file' = [file EXCEPT ![d] = S \cup (N + 1)..(N + Len(<<draft>>))]
      /\ fresh' = Len(signed')
      /\ RolesNow(R)[d] \in Writers /\ KeysOf(S, R, d) # {}
  BY <1>1 DEF WriteVersion, Transact
<1>3. N \in Nat /\ DOMAIN signed = 1..N
  BY RecordTypes
<1>4. draft \in Record /\ draft.heads = HeadsOf(S, R) /\ draft.epoch = Current(S, R, d)
      /\ draft.parents = Tips(Accepted(S, d)) /\ draft.kind = kind /\ draft.value = value
  <2> DEFINE heads   == HeadsOf(S, R)
             parents == Tips(Accepted(S, d))
             epoch   == Current(S, R, d)
  <2>1. heads \subseteq DOMAIN signed
    BY HeadsAreHere
  <2>2. parents \subseteq DOMAIN signed
    BY DEF Tips, Accepted
  <2>3. epoch \in DOMAIN signed
    BY <1>2, CurrentIsKey, KeysAreEpochs
  <2>4. heads \in SUBSET Nat /\ parents \in SUBSET Nat /\ epoch \in Nat
    BY <1>3, <2>1, <2>2, <2>3
  <2>5. time \in Nat
    BY SharedAssumption
  <2>6. draft = [Blank EXCEPT !.kind = kind, !.value = value, !.rank = time,
                   !.heads = heads, !.parents = parents, !.epoch = epoch]
    OBVIOUS
  <2> HIDE DEF heads, parents, epoch, draft
  <2>7. draft \in Record /\ draft.heads = heads /\ draft.epoch = epoch
        /\ draft.parents = parents /\ draft.kind = kind /\ draft.value = value
    BY <2>4, <2>5, <2>6, BlankIs DEF Record
  <2> QED BY <2>7 DEF heads, parents, epoch
<1> HIDE DEF draft
<1> DEFINE drafts == <<draft>>
<1>5. /\ drafts \in Seq(Record) /\ Len(drafts) = 1 /\ drafts[1] = draft
      /\ signed' = signed \o Signing(S, d, drafts)
  BY <1>2, <1>4
<1> HIDE DEF drafts
<1>6. /\ Len(signed') = N + 1 /\ signed'[N + 1] = Signing(S, d, drafts)[1]
      /\ \A i \in DOMAIN signed : signed'[i] = signed[i]
  <2>1. /\ Len(signed') = Len(signed) + Len(drafts)
        /\ \A i \in DOMAIN signed : signed'[i] = signed[i]
        /\ \A n \in 1..Len(drafts) :
             signed'[Len(signed) + n] = Signing(S, d, drafts)[n]
    BY ONLY <1>5, SignedIs, TypeOK, S \in SUBSET DOMAIN signed, d \in Devices
  <2>2. 1 \in 1..Len(drafts)
    BY <1>5
  <2> QED BY <1>5, <2>1, <2>2
<1>7. /\ r.author = d /\ r.kind = kind /\ r.value = value
      /\ r.heads = HeadsOf(S, R) /\ r.parents = Tips(Accepted(S, d))
      /\ r.epoch = Current(S, R, d)
  BY <1>4, <1>5, <1>6, SigningIs
<1>8. file'[d] = S \cup {N + 1} /\ N + 1 \notin S
  BY <1>2, <1>3, HeldTypes
<1>9. file'[d] \ {fresh'} = S /\ fresh' \in file'[d] /\ fresh' = N + 1
  BY <1>2, <1>6, <1>8
<1>10. Extended
  BY <1>6 DEF Extended
<1>11. /\ HeadsOf(S, R)' = HeadsOf(S, R) /\ RolesNow(R)' = RolesNow(R)
       /\ KeysOf(S, R, d)' = KeysOf(S, R, d) /\ Current(S, R, d)' = Current(S, R, d)
       /\ Tips(Accepted(S, d))' = Tips(Accepted(S, d))
  BY <1>10, ViewSame
<1>12. signed'[fresh'] = r
  BY <1>9
<1>13. StandsOn(S, d, fresh)'
  BY <1>2, <1>7, <1>11, <1>12 DEF StandsOn
<1> QED BY <1>2, <1>9, <1>13 DEF FreshInv

LEMMA StepFresh == TypeOK /\ FreshInv /\ [Next]_vars => FreshInv'
<1> SUFFICES ASSUME TypeOK, FreshInv, [Next]_vars PROVE FreshInv'
  OBVIOUS
<1>1. CASE UNCHANGED vars
  <2> SUFFICES ASSUME fresh # NoRecord PROVE FreshInv'
    BY <1>1 DEF vars, FreshInv
  <2>1. PICK d \in Devices, S \in SUBSET DOMAIN signed :
          S = file[d] \ {fresh} /\ StandsOn(S, d, fresh) /\ fresh \in file[d]
    BY HeldTypes DEF FreshInv
  <2>2. signed' = signed /\ file' = file /\ fresh' = fresh
    BY <1>1 DEF vars, stateVars
  <2>3. Extended
    BY <2>2 DEF Extended
  <2> DEFINE R == RosterOf(S)
  <2>4. /\ HeadsOf(S, R)' = HeadsOf(S, R) /\ RolesNow(R)' = RolesNow(R)
        /\ KeysOf(S, R, d)' = KeysOf(S, R, d) /\ Current(S, R, d)' = Current(S, R, d)
        /\ Tips(Accepted(S, d))' = Tips(Accepted(S, d))
    BY <2>3, ViewSame
  <2>5. StandsOn(S, d, fresh)'
    BY <2>1, <2>2, <2>4 DEF StandsOn
  <2>6. fresh' = Len(signed')
    BY <2>2 DEF FreshInv
  <2>7. S = file'[d] \ {fresh'} /\ fresh' \in file'[d]
    BY <2>1, <2>2
  <2> QED BY <2>5, <2>6, <2>7 DEF FreshInv
<1>2. ASSUME NEW d \in Devices, ItemStep(d) PROVE FreshInv'
  <2>1. ASSUME PutItem(d) PROVE FreshInv'
    BY <2>1, WriteFresh DEF PutItem, ItemOp
  <2>2. ASSUME DeleteItem(d) PROVE FreshInv'
    BY <2>2, WriteFresh DEF DeleteItem, ItemOp
  <2> QED BY <1>2, <2>1, <2>2 DEF ItemStep
<1>3. ASSUME NEW d \in Devices, AdminStep(d) \/ Handles(d)
      PROVE FreshInv'
  BY <1>3 DEF FreshInv, AdminStep, Handles, ExchangeStep, Reopen, Backup, Restore,
     RemoveMember, SetRole, Invite, Export, Import
<1> QED BY <1>1, <1>2, <1>3 DEF Next, Handles

\* The version just written names, for its author and everything the author holds, the
\* heads of the roster, the newest key and every version nobody built on.
THEOREM SharedFresh == Spec => []FreshInv
<1>1. Init => FreshInv
  BY DEF Init, FreshInv
<1> QED BY <1>1, SharedTypeCorrect, StepFresh, PTL DEF Spec

(***************************************************************************)
(* The author of a version accepts it.                                     *)
(***************************************************************************)

\* A version of an item changes neither the roster nor the keys.
LEMMA ItemChangesNoView ==
  ASSUME NEW S, NEW i, signed[i].kind \in ItemOp, NEW d
  PROVE  LET T == S \cup {i}
             R == RosterOf(S)
         IN  RosterOf(T) = R /\ KeysOf(T, R, d) = KeysOf(S, R, d)
<1> DEFINE T == S \cup {i}
           R == RosterOf(S)
<1>1. Kept(T) = Kept(S)
  BY DEF Kept, RosterOp, ItemOp
<1>2. Order(T) = Order(S)
  <2> DEFINE Over(kept) ==
        LET graph == {j \in kept : signed[j].heads \subseteq kept}
            grown[n \in 0..Cardinality(graph)] ==
              IF n = 0 THEN <<>>
              ELSE LET before == grown[n - 1]
                       done   == Elements(before)
                       ready  == {j \in graph \ done : Edges(kept, j) \subseteq done}
                   IN  IF ready = {} THEN before ELSE Append(before, Smallest(ready))
        IN  grown[Cardinality(graph)]
  <2>1. \A U : Order(U) = Over(Kept(U))
    BY DEF Order
  <2> HIDE DEF Over
  <2> QED BY <1>1, <2>1
<1>3. RosterOf(T) = R
  <2> DEFINE Over(order) ==
        LET roles[n \in 0..Len(order)] ==
              IF n = 0 THEN <<[e \in Devices |-> "absent"]>>
              ELSE LET before == roles[n - 1]
                       now    == before[n]
                       r      == signed[order[n]]
                   IN  Append(before, IF Applies(now, r) THEN Applied(now, r) ELSE now)
        IN  [order |-> order, roles |-> roles[Len(order)]]
  <2>1. \A U : RosterOf(U) = Over(Order(U))
    BY DEF RosterOf
  <2> HIDE DEF Over, T
  <2> QED BY <1>2, <2>1
<1> HIDE DEF R
<1>4. Epochs(T, R) = Epochs(S, R)
  BY DEF Epochs, ItemOp
<1>5. \A e : Grants(T, R, e) = Grants(S, R, e)
  BY DEF Grants, ItemOp
<1>6. \A e : Recipients(T, R, e) = Recipients(S, R, e)
  BY <1>5 DEF Recipients
<1>7. KeysOf(T, R, d) = KeysOf(S, R, d)
  <2>1. \A U : KeysOf(U, R, d) = {e \in Epochs(U, R) : d \in Recipients(U, R, e)}
    BY DEF KeysOf
  <2> HIDE DEF T
  <2> QED BY <1>4, <1>6, <2>1
<1> QED BY <1>3, <1>7 DEF R

\* What no step from a to b changes is at b as it was at a.
LEMMA Steady ==
  ASSUME NEW a \in Nat, NEW b \in Nat, a <= b, NEW f, \A k \in a..(b - 1) : f[k + 1] = f[k]
  PROVE  f[b] = f[a]
<1> DEFINE Good == {n \in Nat : a + n <= b => f[a + n] = f[a]}
<1>1. 0 \in Good
  OBVIOUS
<1>2. ASSUME NEW n \in Nat, n \in Good PROVE n + 1 \in Good
  <2>1. a + n + 1 <= b => a + n \in a..(b - 1)
    OBVIOUS
  <2> QED BY <1>2, <2>1
<1> HIDE DEF Good
<1>3. b - a \in Good /\ a + (b - a) = b
  BY <1>1, <1>2, InductiveSet
<1> QED BY <1>3 DEF Good

\* A version that names the heads of the roster has its author's role of today.
LEMMA HeadsCarry ==
  ASSUME TypeOK, NEW S \in SUBSET DOMAIN signed, NEW i,
         signed[i].heads = HeadsOf(S, RosterOf(S)), signed[i].author \in Devices,
         RolesNow(RosterOf(S))[signed[i].author] \in Writers
  PROVE  MayWrite(RosterOf(S), i)
<1> DEFINE R       == RosterOf(S)
           L       == Len(R.order)
           changed == {m \in 1..L : R.roles[m + 1] # R.roles[m]}
           applied == {R.order[n] : n \in changed}
           heads   == HeadsOf(S, R)
           d       == signed[i].author
<1>1. /\ R.order = Order(S) /\ DOMAIN R.order = 1..L /\ L \in Nat
      /\ Len(R.roles) = L + 1 /\ R.roles[1] = [e \in Devices |-> "absent"]
  BY RosterIs, OrderIsHere
<1>2. /\ \A m, n \in 1..L : R.order[m] = R.order[n] => m = n
      /\ \A n \in 1..L : \A j \in Edges(Kept(S), R.order[n]) :
           \E m \in 1..(n - 1) : R.order[m] = j
  <2> DEFINE order == Order(S)
  <2>1. /\ \A m, n \in 1..Len(order) : order[m] = order[n] => m = n
        /\ \A n \in 1..Len(order) : \A j \in Edges(Kept(S), order[n]) :
             \E m \in 1..(n - 1) : order[m] = j
    BY OrderLinear DEF Linear
  <2> HIDE DEF order, R
  <2> QED BY <1>1, <2>1 DEF order
<1>3. heads = applied \ UNION {Edges(Kept(S), j) : j \in applied}
  BY <1>1 DEF HeadsOf
<1>4. RolesNow(R) = R.roles[L + 1]
  BY <1>1 DEF RolesNow
<1>5. Authority(R, i) =
        LET places == {n \in 1..L : R.order[n] \in heads}
            latest == CHOOSE n \in places : \A m \in places : m <= n
        IN  IF heads \subseteq Elements(R.order) THEN R.roles[latest + 1][d] ELSE "absent"
  BY <1>1 DEF Authority
<1> HIDE DEF R, L, heads
<1>6. changed # {}
  <2> SUFFICES ASSUME changed = {} PROVE FALSE
    OBVIOUS
  <2> DEFINE roles == R.roles
  <2>1. ASSUME NEW k \in 1..((L + 1) - 1) PROVE roles[k + 1] = roles[k]
    <3>1. k \in 1..L
      BY <1>1
    <3>2. k \notin changed
      OBVIOUS
    <3> QED BY <3>1, <3>2
  <2> HIDE DEF roles
  <2>2. L + 1 \in Nat /\ 1 <= L + 1
    BY <1>1
  <2>3. roles[L + 1] = roles[1]
    BY SMTT(40), <2>1, <2>2, Steady
  <2> QED BY <1>1, <1>4, <2>3 DEF Writers, roles, R
<1>7. PICK m \in changed : \A n \in changed : n <= m
  <2>1. changed \subseteq 0..L
    BY <1>1
  <2> QED BY <1>1, <1>6, <2>1, GreatestNatural
<1>8. R.roles[L + 1] = R.roles[m + 1]
  <2> DEFINE roles == R.roles
  <2>1. \A k \in (m + 1)..((L + 1) - 1) : roles[k + 1] = roles[k]
    BY <1>1, <1>7
  <2>2. m + 1 \in Nat /\ L + 1 \in Nat /\ m + 1 <= L + 1
    BY <1>1
  <2> HIDE DEF roles
  <2>3. roles[L + 1] = roles[m + 1]
    BY <2>1, <2>2, Steady
  <2> QED BY <2>3 DEF roles
<1>9. R.order[m] \in heads
  <2>1. ASSUME NEW n \in changed, R.order[m] \in Edges(Kept(S), R.order[n]) PROVE FALSE
    <3>1. PICK k \in 1..(n - 1) : R.order[k] = R.order[m]
      BY <1>2, <2>1
    <3>2. k = m /\ n <= m
      BY <1>1, <1>2, <1>7, <3>1
    <3> QED BY <1>1, <3>2
  <2> QED BY <1>3, <2>1
<1>10. heads \subseteq applied /\ heads \subseteq Elements(R.order)
  BY <1>1, <1>3 DEF Elements
<1> DEFINE places == {n \in 1..L : R.order[n] \in heads}
           latest == CHOOSE n \in places : \A k \in places : k <= n
<1>11. m \in places /\ \A n \in places : n <= m
  <2>1. ASSUME NEW n \in places PROVE n <= m
    <3>1. PICK k \in changed : R.order[n] = R.order[k]
      BY <1>10
    <3>2. n = k
      BY <1>2, <3>1
    <3> QED BY <1>7, <3>2
  <2> QED BY <1>9, <2>1
<1>12. latest = m
  <2>1. places \subseteq Int
    BY <1>1
  <2> HIDE DEF places
  <2>2. latest \in places /\ \A n \in places : n <= latest
    BY <1>11
  <2> HIDE DEF latest
  <2> QED BY <1>11, <2>1, <2>2
<1>13. Authority(R, i) = R.roles[m + 1][d]
  BY <1>5, <1>10, <1>12
<1> QED BY <1>4, <1>8, <1>13 DEF MayWrite, R

\* The author's accepted versions are those it had and the one it wrote.
LEMMA OwnAccepted ==
  ASSUME TypeOK, NEW S \in SUBSET DOMAIN signed, NEW d \in Devices, NEW i, StandsOn(S, d, i)
  PROVE  Accepted(S \cup {i}, d) = Accepted(S, d) \cup {i}
<1> DEFINE T    == S \cup {i}
           R    == RosterOf(S)
           keys == KeysOf(S, R, d)
<1>1. /\ signed[i].author = d /\ signed[i].kind \in ItemOp
      /\ RolesNow(R)[d] \in Writers /\ keys # {}
      /\ signed[i].heads = HeadsOf(S, R) /\ signed[i].epoch = Current(S, R, d)
  BY DEF StandsOn
<1>2. RosterOf(T) = R /\ KeysOf(T, R, d) = keys
  BY <1>1, ItemChangesNoView
<1>3. MayWrite(R, i)
  BY <1>1, HeadsCarry
<1>4. signed[i].epoch \in keys
  BY <1>1, CurrentIsKey
<1>5. Accepted(T, d) = {j \in T : /\ signed[j].kind \in ItemOp
                                  /\ signed[j].epoch \in keys /\ MayWrite(R, j)}
  BY <1>2 DEF Accepted
<1>6. Accepted(S, d) = {j \in S : /\ signed[j].kind \in ItemOp
                                  /\ signed[j].epoch \in keys /\ MayWrite(R, j)}
  BY DEF Accepted
<1> HIDE DEF R, keys
<1> QED BY <1>1, <1>3, <1>4, <1>5, <1>6

(***************************************************************************)
(* What an item version descends from.                                     *)
(***************************************************************************)

IsAncestry(up, V) ==
  up = [i \in V |-> LET above == signed[i].parents \cap V
                    IN  above \cup UNION {up[p] : p \in above}]

\* The recursive function of the ancestors exists.
LEMMA AncestryExists ==
  ASSUME TypeOK, NEW V \in SUBSET DOMAIN signed
  PROVE  \E up : IsAncestry(up, V)
<1> DEFINE First(n) == V \cap 1..n
           Good     == {n \in Nat : \E up : IsAncestry(up, First(n))}
<1>1. 0 \in Good
  <2> DEFINE up == [i \in {} |-> {}]
  <2>1. First(0) = {}
    OBVIOUS
  <2>2. IsAncestry(up, {})
    BY DEF IsAncestry
  <2> QED BY <2>1, <2>2
<1>2. ASSUME NEW n \in Nat, n \in Good PROVE n + 1 \in Good
  <2>1. PICK up : IsAncestry(up, First(n))
    BY <1>2
  <2> DEFINE W          == First(n + 1)
             next(f, i) == LET above == signed[i].parents \cap W
                           IN  above \cup UNION {f[p] : p \in above}
             more       == [i \in W |-> next(up, i)]
  <2>2. /\ First(n) \subseteq W
        /\ \A i \in W : signed[i].parents \cap W = signed[i].parents \cap First(n)
    <3> SUFFICES ASSUME NEW i \in W, NEW p \in signed[i].parents \cap W
                 PROVE  p \in First(n)
      OBVIOUS
    <3>1. i \in DOMAIN signed /\ i \in 1..(n + 1) /\ p \in V /\ p \in 1..(n + 1)
      OBVIOUS
    <3>2. p \in 0..(i - 1)
      BY <3>1, RecordTypes
    <3> QED BY <3>1, <3>2
  <2>3. ASSUME NEW i \in First(n) PROVE more[i] = up[i]
    <3>1. up[i] = LET above == signed[i].parents \cap First(n)
                  IN  above \cup UNION {up[p] : p \in above}
      BY <2>1 DEF IsAncestry
    <3>2. i \in W
      BY <2>2
    <3> HIDE DEF First
    <3> QED BY <2>2, <3>1, <3>2
  <2>4. ASSUME NEW i \in W PROVE next(up, i) = next(more, i)
    <3>1. \A p \in signed[i].parents \cap W : more[p] = up[p]
      BY <2>2, <2>3
    <3> HIDE DEF more, W
    <3> QED BY <3>1
  <2> HIDE DEF next, First
  <2>5. more = [i \in W |-> next(more, i)]
    BY <2>4
  <2>6. IsAncestry(more, W)
    <3> HIDE DEF more, W
    <3> QED BY <2>5 DEF IsAncestry, next
  <2> QED BY <2>6
<1>3. First(Len(signed)) = V /\ Len(signed) \in Nat
  BY RecordTypes
<1> HIDE DEF Good, First
<1>4. Len(signed) \in Good
  BY <1>1, <1>2, <1>3, InductiveSet
<1> QED BY <1>3, <1>4 DEF Good

\* A version descends from the versions it was made on and what they descend from.
LEMMA AncestryIs ==
  ASSUME TypeOK, NEW V \in SUBSET DOMAIN signed
  PROVE  \A i \in V :
           Ancestry(V)[i] = (signed[i].parents \cap V)
                              \cup UNION {Ancestry(V)[p] : p \in signed[i].parents \cap V}
<1> DEFINE up == CHOOSE f : IsAncestry(f, V)
<1>1. IsAncestry(up, V)
  BY AncestryExists
<1>2. Ancestry(V) = up
  BY DEF Ancestry, IsAncestry
<1> HIDE DEF up
<1>3. up = [i \in V |-> LET above == signed[i].parents \cap V
                        IN  above \cup UNION {up[p] : p \in above}]
  BY <1>1 DEF IsAncestry
<1>4. ASSUME NEW i \in V
      PROVE  up[i] = (signed[i].parents \cap V) \cup UNION {up[p] : p \in signed[i].parents \cap V}
  BY <1>3
<1> QED BY <1>2, <1>4

\* It descends from earlier versions, and from what any of those was made on.
LEMMA AncestorsEarlier ==
  ASSUME TypeOK, NEW V \in SUBSET DOMAIN signed
  PROVE  /\ \A i \in V : \A w \in Ancestry(V)[i] : w \in V /\ w < i
         /\ \A i \in V : \A w \in Ancestry(V)[i] :
              signed[w].parents \cap V \subseteq Ancestry(V)[i]
<1> DEFINE up == Ancestry(V)
           above(i) == signed[i].parents \cap V
           Fits(i) == /\ \A w \in up[i] : w \in V /\ w < i
                      /\ \A w \in up[i] : above(w) \subseteq up[i]
           Good == {n \in Nat : \A i \in V : i <= n => Fits(i)}
<1>1. \A i \in V : up[i] = above(i) \cup UNION {up[p] : p \in above(i)}
  BY AncestryIs
<1>2. \A i \in V : i \in Nat \ {0} /\ i <= Len(signed)
  BY RecordTypes
<1>3. \A i \in V : \A p \in above(i) : p \in V /\ p < i
  BY <1>2, RecordTypes
<1> HIDE DEF up, above
<1>4. 0 \in Good
  BY <1>2
<1>5. ASSUME NEW n \in Nat, n \in Good PROVE n + 1 \in Good
  <2> SUFFICES ASSUME NEW i \in V, i <= n + 1 PROVE Fits(i)
    OBVIOUS
  <2>1. \A p \in above(i) : p \in V /\ p < i /\ Fits(p)
    <3>1. \A p \in above(i) : p \in V /\ p < i /\ p <= n
      BY <1>2, <1>3
    <3> QED BY <1>5, <3>1
  <2>2. ASSUME NEW w \in up[i]
        PROVE  w \in V /\ w < i /\ above(w) \subseteq up[i]
    <3>1. CASE w \in above(i)
      <4>1. w \in V /\ w < i
        BY <2>1, <3>1
      <4>2. above(w) \subseteq up[w]
        BY <1>1, <4>1
      <4>3. up[w] \subseteq up[i]
        BY <1>1, <3>1
      <4> QED BY <4>1, <4>2, <4>3
    <3>2. ASSUME NEW p \in above(i), w \in up[p]
          PROVE  w \in V /\ w < i /\ above(w) \subseteq up[i]
      <4>1. w \in V /\ w < p /\ above(w) \subseteq up[p] /\ p \in V /\ p < i
        BY <2>1, <3>2
      <4>2. w < i
        BY <1>2, <4>1
      <4>3. up[p] \subseteq up[i]
        BY <1>1
      <4> QED BY <4>1, <4>2, <4>3
    <3> QED BY <1>1, <3>1, <3>2
  <2> QED BY <2>2
<1>6. Len(signed) \in Good
  <2> HIDE DEF Good
  <2> QED BY <1>4, <1>5, InductiveSet, RecordTypes
<1>7. \A i \in V : Fits(i)
  BY <1>2, <1>6
<1> QED BY <1>7 DEF up, above

\* A version on all the tips descends from every other.
LEMMA AllAncestors ==
  ASSUME TypeOK, NEW W \in SUBSET DOMAIN signed, NEW i, i = Len(signed),
         i \in DOMAIN signed, i \notin W, signed[i].parents = Tips(W)
  PROVE  LET up == Ancestry(W \cup {i})
         IN  up[i] = W /\ \A e \in W : i \notin up[e]
<1> DEFINE V  == W \cup {i}
           up == Ancestry(V)
<1>1. V \in SUBSET DOMAIN signed
  OBVIOUS
<1> HIDE DEF V
<1>2. /\ \A e \in V : \A w \in up[e] : w \in V /\ w < e
      /\ \A e \in V : \A w \in up[e] : signed[w].parents \cap V \subseteq up[e]
  BY <1>1, AncestorsEarlier
<1>3. up[i] = (signed[i].parents \cap V) \cup UNION {up[p] : p \in signed[i].parents \cap V}
  BY <1>1, AncestryIs DEF V
<1> USE DEF V
<1>4. i \in Nat /\ W \subseteq 1..i
  BY RecordTypes
<1> HIDE DEF up
<1> DEFINE others == W \ up[i]
<1>5. others = {}
  <2> SUFFICES ASSUME others # {} PROVE FALSE
    OBVIOUS
  <2>1. PICK e \in others : \A f \in others : f <= e
    <3>1. others \subseteq 0..i
      BY <1>4
    <3> HIDE DEF others
    <3> QED BY <1>4, <3>1, GreatestNatural
  <2>2. e \notin Tips(W)
    BY <1>3, <2>1 DEF Tips
  <2>3. PICK w \in W : e \in signed[w].parents
    BY <2>1, <2>2 DEF Tips
  <2>4. e < w
    BY <1>4, <2>1, <2>3, RecordTypes
  <2>5. w \in up[i]
    BY <1>4, <2>1, <2>4
  <2> QED BY <1>2, <2>1, <2>3, <2>5
<1>6. i \notin up[i] /\ up[i] \subseteq V
  BY <1>2, <1>4
<1>7. \A e \in W : i \notin up[e]
  BY <1>2, <1>4
<1> QED BY <1>5, <1>6, <1>7 DEF up

\* The merge shows a version that descends from every other.
LEMMA NewestShown ==
  ASSUME TypeOK, NEW W \in SUBSET DOMAIN signed, NEW i, i = Len(signed),
         i \in DOMAIN signed, i \notin W, signed[i].parents = Tips(W),
         signed[i].kind \in ItemOp, signed[i].kind = "delete" => signed[i].value = Deleted
  PROVE  \/ Shown(W \cup {i}) = signed[i].value
         \/ \E p \in signed[i].parents : signed[p].value = signed[i].value
<1> DEFINE V        == W \cup {i}
           up       == Ancestry(V)
           standing == {e \in V : signed[e].kind = "put" /\ ~Beaten(V, up, e)}
           setters  == {e \in standing : Sets(V, e)}
           left     == IF setters # {} THEN setters ELSE standing
<1>1. up[i] = W /\ \A e \in V : i \notin up[e]
  BY ZenonT(60), AllAncestors
<1>2. Shown(V) = IF standing = {} THEN Deleted ELSE signed[Winner(up, left)].value
  BY DEF Shown
<1> HIDE DEF up
<1>3. CASE signed[i].kind = "delete"
  <2>1. ASSUME NEW e \in standing PROVE FALSE
    <3>1. e \in up[i]
      BY <1>1, <1>3
    <3> QED BY <1>3, <3>1 DEF Beaten
  <2> QED BY <1>2, <1>3, <2>1
<1>4. CASE signed[i].kind = "put" /\ Sets(V, i)
  <2>1. i \in standing
    <3>1. ASSUME Beaten(V, up, i) PROVE FALSE
      <4>1. PICK x \in V : /\ signed[x].kind = "delete"
                           /\ i \in up[x] \/ (x \notin up[i] /\ Before(i, x))
        BY <3>1 DEF Beaten
      <4> QED BY <1>1, <1>4, <4>1
    <3> QED BY <1>4, <3>1
  <2>2. i \in setters /\ left = setters
    BY <1>4, <2>1
  <2>3. {e \in left : \A j \in left : e \notin up[j]} = {i}
    <3>1. left \subseteq V
      BY <2>2
    <3> HIDE DEF left, setters
    <3> QED BY <1>1, <2>2, <3>1
  <2>4. Latest({i}) = i
    <3>1. \A e : e \in {i} /\ (\A j \in {i} \ {e} : Before(j, e)) <=> e = i
      OBVIOUS
    <3> QED BY <3>1 DEF Latest
  <2>5. Winner(up, left) = i
    <3> HIDE DEF left
    <3> QED BY <2>3, <2>4 DEF Winner
  <2> QED BY <1>2, <2>1, <2>5
<1>5. CASE signed[i].kind = "put" /\ ~Sets(V, i)
  BY <1>5 DEF Sets
<1> QED BY <1>3, <1>4, <1>5 DEF ItemOp

\* A person who writes sees what they wrote, whatever times the other versions claim,
\* unless it set nothing (write_version, merge).
THEOREM SharedOwnWriteShown == Spec => []OwnWriteShown
<1>1. ASSUME TypeOK, FreshInv, fresh # NoRecord PROVE OwnWriteShown
  <2>1. PICK d \in Devices, S \in SUBSET DOMAIN signed :
          S = file[d] \ {fresh} /\ StandsOn(S, d, fresh) /\ fresh \in file[d]
    BY <1>1, HeldTypes DEF FreshInv
  <2> DEFINE W == Accepted(S, d)
             V == Accepted(file[d], d)
  <2>2. file[d] = S \cup {fresh} /\ fresh \notin S /\ fresh \in DOMAIN signed
    BY <1>1, <2>1, HeldTypes
  <2>3. V = W \cup {fresh}
    BY <1>1, <2>1, <2>2, OwnAccepted
  <2>4. W \in SUBSET DOMAIN signed /\ fresh \notin W
    BY <2>1, <2>2 DEF Accepted
  <2>5. /\ signed[fresh].parents = Tips(W) /\ signed[fresh].kind \in ItemOp
        /\ signed[fresh].kind = "delete" => signed[fresh].value = Deleted
        /\ signed[fresh].author = d /\ fresh = Len(signed)
    BY <1>1, <2>1 DEF StandsOn, FreshInv
  <2> HIDE DEF W
  <2>6. \/ Shown(V) = signed[fresh].value
        \/ \E p \in signed[fresh].parents : signed[p].value = signed[fresh].value
    BY <1>1, <2>2, <2>3, <2>4, <2>5, NewestShown
  <2>7. AcceptedBy(d) = V
    BY DEF AcceptedBy
  <2> HIDE DEF V
  <2> QED BY <2>3, <2>5, <2>6, <2>7 DEF OwnWriteShown
<1>2. TypeOK /\ FreshInv => OwnWriteShown
  BY <1>1 DEF OwnWriteShown
<1> QED BY <1>2, SharedTypeCorrect, SharedFresh, PTL
=============================================================================
