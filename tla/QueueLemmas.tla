---------------------------- MODULE QueueLemmas ----------------------------
(***************************************************************************)
(* What the proofs about the queues rest on: the ticket map, finite sets   *)
(* of tickets, and the combinations of a rule, for every number of players *)
(* and every size of a party.                                              *)
(***************************************************************************)
EXTENDS TicketMap, MatchCombination, FiniteSetTheorems, WellFoundedInduction, TLAPS

-----------------------------------------------------------------------------
(* The ticket map.                                                         *)

MapOK == MapTypeOK /\ IndexMatchesTickets

LEMMA EmptyMapOK == EmptyMap => MapOK
BY TicketsAssumption DEF EmptyMap, MapOK, MapTypeOK, IndexMatchesTickets

LEMMA UnchangedMap == MapOK /\ UNCHANGED mapVars => MapOK'
BY DEF mapVars, MapOK, MapTypeOK, IndexMatchesTickets

\* An inserted ticket is in the map with all of its players.
LEMMA InsertKeepsMap ==
  ASSUME MapOK, NEW t \in Tickets, CanInsert(t), InsertMatchTicket(t)
  PROVE  MapOK'
<1>1. MapTypeOK'
  BY DEF MapOK, MapTypeOK, InsertMatchTicket
<1>2. ASSUME NEW p \in Players, NEW u \in Tickets
      PROVE  playerIndex'[p] = u <=> u \in ticketMap' /\ p \in PlayersOf[u]
  <2>1. playerIndex[p] = u <=> u \in ticketMap /\ p \in PlayersOf[u]
    BY DEF MapOK, IndexMatchesTickets
  <2>2. playerIndex'[p] = IF p \in PlayersOf[t] THEN t ELSE playerIndex[p]
    BY DEF InsertMatchTicket
  <2>3. p \in PlayersOf[t] => playerIndex[p] # u
    BY TicketsAssumption DEF CanInsert
  <2> QED BY <2>1, <2>2, <2>3 DEF InsertMatchTicket, CanInsert
<1> QED BY <1>1, <1>2 DEF MapOK, IndexMatchesTickets

\* An erased ticket is out of the map, and the other tickets are still in it.
LEMMA EraseKeepsMap ==
  ASSUME MapOK, NEW t \in Tickets, EraseMatchTicket(t)
  PROVE  MapOK' /\ ticketMap' = ticketMap \ {t}
<1>1. MapTypeOK' /\ ticketMap' = ticketMap \ {t}
  BY DEF MapOK, MapTypeOK, EraseMatchTicket
<1>2. ASSUME NEW p \in Players, NEW u \in Tickets
      PROVE  playerIndex'[p] = u <=> u \in ticketMap' /\ p \in PlayersOf[u]
  <2>1. \A v \in Tickets : playerIndex[p] = v <=> v \in ticketMap /\ p \in PlayersOf[v]
    BY DEF MapOK, IndexMatchesTickets
  <2>2. playerIndex'[p] = IF t \in ticketMap /\ p \in PlayersOf[t] /\ playerIndex[p] = t
                          THEN NoTicket ELSE playerIndex[p]
    BY DEF EraseMatchTicket
  <2> QED BY <1>1, <2>1, <2>2, TicketsAssumption
<1> QED BY <1>1, <1>2 DEF MapOK, IndexMatchesTickets

\* A ticket that is found is in the map.
LEMMA FoundTicket ==
  ASSUME NEW p \in Players, FindByPlayerKey(p) # NoTicket
  PROVE  FindByPlayerKey(p) \in ticketMap /\ FindByPlayerKey(p) = playerIndex[p]
BY DEF FindByPlayerKey

\* Tickets in the map share no player.
LEMMA OneTicketPerPlayer ==
  ASSUME MapOK, NEW t \in ticketMap, NEW u \in ticketMap, t # u
  PROVE  PlayersOf[t] \cap PlayersOf[u] = {}
BY TicketsAssumption DEF MapOK, MapTypeOK, IndexMatchesTickets

-----------------------------------------------------------------------------
(* Finite sets of tickets.                                                 *)

\* Sets of tickets are finite, so they have a first and a last ticket: of the sets
\* of those before or after a ticket one is the smallest.
LEMMA SmallestSet ==
  ASSUME NEW S, IsFiniteSet(S), NEW F, F # {}, \A A \in F : A \subseteq S
  PROVE  \E B \in F : \A A \in F : A \subseteq B => A = B
<1>1. F \subseteq FiniteSubsetsOf(S)
  <2>1. \A A \in F : IsFiniteSet(A)
    BY FS_Subset
  <2> QED BY <2>1 DEF FiniteSubsetsOf
<1>2. PICK B \in F : \A A \in F : <<A, B>> \notin StrictSubsetOrdering(S)
  BY <1>1, WFMin, FS_StrictSubsetOrderingWellFounded, Zenon
<1>3. ASSUME NEW A \in F, A \subseteq B, A # B
      PROVE  FALSE
  <2>1. <<A, B>> \in (SUBSET S) \X (SUBSET S)
    BY Zenon
  <2>2. <<A, B>>[1] = A /\ <<A, B>>[2] = B
    OBVIOUS
  <2>3. <<A, B>> \in StrictSubsetOrdering(S)
    BY <1>3, <2>1, <2>2 DEF StrictSubsetOrdering
  <2> QED BY <1>2, <2>3
<1> QED BY <1>3

Before(S, t) == {u \in S : u < t}
After(S, t) == {u \in S : t < u}

LEMMA FirstOf ==
  ASSUME NEW S, S \subseteq Nat, IsFiniteSet(S), S # {}
  PROVE  \E x \in S : \A y \in S : x <= y
<1> DEFINE F == {Before(S, t) : t \in S}
<1>1. F # {} /\ \A A \in F : A \subseteq S
  BY DEF Before
<1>2. \E B \in F : \A A \in F : A \subseteq B => A = B
  <2> HIDE DEF F
  <2> QED BY <1>1, SmallestSet
<1>3. PICK x \in S : \A y \in S : Before(S, y) \subseteq Before(S, x) => Before(S, y) = Before(S, x)
  BY <1>2
<1>4. ASSUME NEW y \in S, y < x
      PROVE  FALSE
  <2>1. ASSUME NEW u \in Before(S, y)
        PROVE  u \in Before(S, x)
    <3>1. u \in Nat /\ x \in Nat /\ y \in Nat
      BY DEF Before
    <3> QED BY <1>4, <3>1 DEF Before
  <2>2. y \in Before(S, x) /\ y \notin Before(S, y)
    BY <1>4 DEF Before
  <2> QED BY <1>3, <2>1, <2>2, Zenon
<1>5. \A y \in S : x \in Nat /\ y \in Nat
  OBVIOUS
<1> QED BY <1>4, <1>5

LEMMA LastOf ==
  ASSUME NEW S, S \subseteq Nat, IsFiniteSet(S), S # {}
  PROVE  \E x \in S : \A y \in S : y <= x
<1> DEFINE F == {After(S, t) : t \in S}
<1>1. F # {} /\ \A A \in F : A \subseteq S
  BY DEF After
<1>2. \E B \in F : \A A \in F : A \subseteq B => A = B
  <2> HIDE DEF F
  <2> QED BY <1>1, SmallestSet
<1>3. PICK x \in S : \A y \in S : After(S, y) \subseteq After(S, x) => After(S, y) = After(S, x)
  BY <1>2
<1>4. ASSUME NEW y \in S, x < y
      PROVE  FALSE
  <2>1. ASSUME NEW u \in After(S, y)
        PROVE  u \in After(S, x)
    <3>1. u \in Nat /\ x \in Nat /\ y \in Nat
      BY DEF After
    <3> QED BY <1>4, <3>1 DEF After
  <2>2. y \in After(S, x) /\ y \notin After(S, y)
    BY <1>4 DEF After
  <2> QED BY <1>3, <2>1, <2>2, Zenon
<1>5. \A y \in S : x \in Nat /\ y \in Nat
  OBVIOUS
<1> QED BY <1>4, <1>5

\* Of a finite set of numbers at most n have fewer than n of it before them,
\* and one has if there are any.
LEMMA FirstOnes ==
  ASSUME NEW S, S \subseteq Nat, IsFiniteSet(S), NEW n \in Nat,
         NEW T, T = {t \in S : Cardinality(Before(S, t)) < n}
  PROVE  /\ T \subseteq S /\ IsFiniteSet(T) /\ Cardinality(T) \in Nat /\ Cardinality(T) <= n
         /\ S # {} /\ n > 0 => T # {}
<1>1. \A t \in S : IsFiniteSet(Before(S, t)) /\ Cardinality(Before(S, t)) \in Nat
  <2>1. \A t \in S : Before(S, t) \subseteq S
    BY DEF Before
  <2> QED BY <2>1, FS_Subset, FS_CardinalityType
<1>2. T \subseteq S /\ IsFiniteSet(T) /\ Cardinality(T) \in Nat
  BY FS_Subset, FS_CardinalityType
<1>3. ASSUME T = {}
      PROVE  Cardinality(T) <= n
  <2>1. Cardinality({}) = 0
    BY FS_EmptySet
  <2>2. Cardinality(T) = 0
    BY <1>3, <2>1, Zenon
  <2> QED BY <2>2
<1>4. ASSUME T # {}
      PROVE  Cardinality(T) <= n
  <2>1. PICK m \in T : \A t \in T : t <= m
    BY <1>2, <1>4, LastOf
  <2>2. T \subseteq Before(S, m) \cup {m} /\ m \notin Before(S, m) /\ m \in S
    <3>1. ASSUME NEW t \in T, t # m
          PROVE  t \in Before(S, m)
      <4>1. t \in S /\ m \in S /\ t <= m
        BY <1>2, <2>1, Zenon
      <4>2. t \in Nat /\ m \in Nat
        BY <4>1
      <4>3. t < m
        BY <3>1, <4>1, <4>2
      <4> QED BY <4>1, <4>3 DEF Before
    <3>2. m \in S /\ m \in Nat
      BY <1>2, <2>1
    <3>3. m \notin Before(S, m)
      BY <3>2 DEF Before
    <3> QED BY <3>1, <3>2, <3>3
  <2>3. /\ Cardinality(Before(S, m) \cup {m}) = Cardinality(Before(S, m)) + 1
        /\ IsFiniteSet(Before(S, m) \cup {m})
    BY <1>1, <2>2, FS_AddElement
  <2>4. Cardinality(T) <= Cardinality(Before(S, m)) + 1
    BY <2>2, <2>3, FS_Subset
  <2>5. Cardinality(Before(S, m)) < n
    OBVIOUS
  <2> QED BY <1>1, <1>2, <2>2, <2>4, <2>5
<1>5. ASSUME S # {}, n > 0
      PROVE  T # {}
  <2>1. PICK x \in S : \A y \in S : x <= y
    BY <1>5, FirstOf
  <2>2. Before(S, x) = {}
    <3>1. ASSUME NEW y \in S, y < x
          PROVE  FALSE
      <4>1. x \in Nat /\ y \in Nat /\ x <= y
        BY <2>1
      <4> QED BY <3>1, <4>1
    <3> QED BY <3>1 DEF Before
  <2>3. Cardinality(Before(S, x)) = 0
    BY <2>2, FS_EmptySet
  <2> QED BY <1>5, <2>3
<1> QED BY <1>2, <1>3, <1>4, <1>5, FS_EmptySet

-----------------------------------------------------------------------------
(* Recursive functions.                                                    *)

\* A set of numbers has a smallest one.
LEMMA Smallest ==
  ASSUME NEW S, S \subseteq Nat, S # {}
  PROVE  \E x \in S : \A y \in S : x <= y
<1>1. PICK n \in S : TRUE
  OBVIOUS
<1> DEFINE T == S \cap (0 .. n)
<1>2. n \in Nat /\ T \subseteq Nat /\ T # {} /\ IsFiniteSet(T)
  <2>1. n \in Nat /\ n \in T /\ T \subseteq 0 .. n /\ T \subseteq Nat
    BY <1>1
  <2>2. IsFiniteSet(0 .. n)
    BY <2>1, FS_Interval
  <2> QED BY <2>1, <2>2, FS_Subset
<1>3. PICK x \in T : \A y \in T : x <= y
  <2> HIDE DEF T
  <2> QED BY <1>2, FirstOf
<1>4. ASSUME NEW y \in S PROVE x <= y
  <2>1. CASE y \in T
    BY <1>3, <2>1
  <2>2. CASE y \notin T
    <3>1. y \in Nat /\ y > n /\ x \in Nat /\ x <= n
      BY <1>2, <2>2
    <3> QED BY <3>1, <1>2
  <2> QED BY <2>1, <2>2
<1> QED BY <1>4

\* F gives x a value that depends on values of a lower rank.
LooksBack(D, V, rank, F) ==
  \A g, h \in [D -> V], x \in D :
    (\A y \in D : rank[y] < rank[x] => g[y] = h[y]) => F[g][x] = F[h][x]

HasFunction(D, V, F) == \E g \in [D -> V] : g = F[g]

\* Then there is a function that F describes.
LEMMA Recursion ==
  ASSUME NEW D, NEW V, V # {}, NEW rank \in [D -> Nat],
         NEW F \in [[D -> V] -> [D -> V]], LooksBack(D, V, rank, F)
  PROVE  HasFunction(D, V, F)
<1> USE DEF LooksBack, HasFunction
<1> DEFINE Sol(n) == {g \in [D -> V] : \A x \in D : rank[x] < n => F[g][x] = g[x]}
<1>1. ASSUME NEW n \in Nat, NEW g \in Sol(n)
      PROVE  F[g] \in Sol(n + 1)
  <2>1. g \in [D -> V] /\ F[g] \in [D -> V]
    OBVIOUS
  <2>2. ASSUME NEW x \in D, rank[x] < n + 1
        PROVE  F[F[g]][x] = F[g][x]
    <3>1. ASSUME NEW y \in D, rank[y] < rank[x]
          PROVE  F[g][y] = g[y]
      <4>1. rank[x] \in Nat /\ rank[y] \in Nat
        OBVIOUS
      <4>2. rank[y] < n
        BY <2>2, <3>1, <4>1
      <4> QED BY <4>2
    <3> QED BY <2>1, <3>1
  <2> QED BY <2>1, <2>2
<1>2. ASSUME NEW n \in Nat
      PROVE  Sol(n) # {}
  <2> DEFINE None == {m \in Nat : Sol(m) = {}}
  <2> SUFFICES ASSUME None # {} PROVE FALSE
    <3>1. Sol(n) = {} => n \in None
      OBVIOUS
    <3> HIDE DEF None, Sol
    <3> QED BY <3>1
  <2>1. PICK m \in None : \A k \in None : m <= k
    <3>1. None \subseteq Nat
      OBVIOUS
    <3> HIDE DEF None
    <3> QED BY <3>1, Smallest
  <2>2. m # 0
    <3>1. PICK v \in V : TRUE
      OBVIOUS
    <3>2. [x \in D |-> v] \in Sol(0)
      OBVIOUS
    <3> QED BY <3>2
  <2>3. m - 1 \in Nat /\ m - 1 \notin None
    BY <2>1, <2>2
  <2>4. PICK g : g \in Sol(m - 1)
    BY <2>3
  <2>5. F[g] \in Sol(m - 1 + 1)
    BY <1>1, <2>3, <2>4
  <2> QED BY <2>1, <2>5
<1>3. ASSUME NEW n \in Nat, NEW g \in Sol(n), NEW h \in Sol(n), NEW x \in D, rank[x] < n
      PROVE  g[x] = h[x]
  <2> DEFINE Bad == {rank[y] : y \in {z \in D : rank[z] < n /\ g[z] # h[z]}}
  <2> SUFFICES ASSUME Bad # {} PROVE FALSE
    <3>1. g[x] # h[x] => rank[x] \in Bad
      BY <1>3
    <3> HIDE DEF Bad
    <3> QED BY <3>1
  <2>1. PICK m \in Bad : \A k \in Bad : m <= k
    <3>1. Bad \subseteq Nat
      OBVIOUS
    <3> HIDE DEF Bad
    <3> QED BY <3>1, Smallest
  <2>2. PICK y \in D : rank[y] < n /\ g[y] # h[y] /\ m = rank[y]
    BY <2>1
  <2>3. ASSUME NEW z \in D, rank[z] < rank[y]
        PROVE  g[z] = h[z]
    <3>1. rank[z] \in Nat /\ rank[y] \in Nat /\ rank[z] < n
      BY <2>2, <2>3
    <3>2. rank[z] \notin Bad
      <4> HIDE DEF Bad
      <4> QED BY <2>1, <2>2, <2>3, <3>1
    <3> QED BY <3>1, <3>2
  <2>4. F[g][y] = F[h][y]
    BY <2>3
  <2> QED BY <2>2, <2>4
<1> DEFINE At(x) == CHOOSE g \in Sol(rank[x] + 1) : TRUE
           G == [x \in D |-> At(x)[x]]
<1>4. \A x \in D : At(x) \in Sol(rank[x] + 1)
  <2>1. ASSUME NEW x \in D PROVE Sol(rank[x] + 1) # {}
    <3>1. rank[x] + 1 \in Nat
      OBVIOUS
    <3> HIDE DEF Sol
    <3> QED BY <1>2, <3>1
  <2> HIDE DEF Sol
  <2> QED BY <2>1
<1>5. \A x \in D : At(x) \in [D -> V] /\ F[At(x)][x] = At(x)[x]
  <2> SUFFICES ASSUME NEW x \in D PROVE At(x) \in [D -> V] /\ F[At(x)][x] = At(x)[x]
    OBVIOUS
  <2>1. At(x) \in Sol(rank[x] + 1) /\ rank[x] < rank[x] + 1
    <3>1. rank[x] \in Nat
      OBVIOUS
    <3> HIDE DEF At, Sol
    <3> QED BY <1>4, <3>1
  <2> HIDE DEF At
  <2> QED BY <2>1
<1>6. G \in [D -> V] /\ \A x \in D : G[x] = At(x)[x]
  <2> HIDE DEF At
  <2> QED BY <1>5
<1>7. ASSUME NEW x \in D
      PROVE  F[G][x] = G[x]
  <2>1. ASSUME NEW y \in D, rank[y] < rank[x]
        PROVE  G[y] = At(x)[y]
    <3>1. /\ rank[y] \in Nat /\ rank[x] \in Nat /\ rank[y] + 1 \in Nat
          /\ rank[y] < rank[y] + 1
      OBVIOUS
    <3>2. At(x) \in Sol(rank[y] + 1)
      <4>1. At(x) \in Sol(rank[x] + 1)
        BY <1>4
      <4>2. \A z \in D : rank[z] < rank[y] + 1 => rank[z] < rank[x] + 1
        BY <2>1, <3>1
      <4> HIDE DEF At
      <4> QED BY <4>1, <4>2
    <3>3. At(y) \in Sol(rank[y] + 1)
      BY <1>4
    <3>4. At(y)[y] = At(x)[y]
      <4> HIDE DEF At, Sol
      <4> QED BY <1>3, <3>1, <3>2, <3>3
    <3> HIDE DEF At, G
    <3> QED BY <1>6, <3>4
  <2>2. F[G][x] = F[At(x)][x]
    <3> HIDE DEF At, G
    <3> QED BY <1>5, <1>6, <2>1
  <2> HIDE DEF At, G
  <2> QED BY <1>5, <1>6, <2>2
<1>8. F[G] \in [D -> V]
  <2> HIDE DEF G
  <2> QED BY <1>6
<1> HIDE DEF G
<1> QED BY <1>6, <1>7, <1>8

-----------------------------------------------------------------------------
(* Sums.                                                                   *)

\* The sum of the numbers w gives to the members of S.
SumOf(w, S) == MapThenSumSet(LAMBDA x : w[x], S)

AnyOf(s) == CHOOSE x \in s : TRUE

\* The function MapThenFoldSet defines for a sum.
IsSum(w, S, g) ==
  g = [s \in SUBSET S |-> IF s = {} THEN 0 ELSE w[AnyOf(s)] + g[s \ {AnyOf(s)}]]

LEMMA RemoveOne ==
  ASSUME NEW S, IsFiniteSet(S), NEW x \in S
  PROVE  /\ IsFiniteSet(S \ {x}) /\ Cardinality(S) \in Nat /\ Cardinality(S \ {x}) \in Nat
         /\ Cardinality(S \ {x}) = Cardinality(S) - 1
         /\ Cardinality(S \ {x}) < Cardinality(S)
<1>1. IsFiniteSet(S \ {x}) /\ Cardinality(S \ {x}) = Cardinality(S) - 1
  BY FS_RemoveElement
<1>2. Cardinality(S) \in Nat /\ Cardinality(S \ {x}) \in Nat
  BY <1>1, FS_CardinalityType
<1> QED BY <1>1, <1>2

LEMMA SumExists ==
  ASSUME NEW X, NEW w \in [X -> Nat], NEW S \in SUBSET X, IsFiniteSet(S)
  PROVE  \E g : IsSum(w, S, g)
<1> DEFINE D == SUBSET S
           Step(g, s) == IF s = {} THEN 0 ELSE w[AnyOf(s)] + g[s \ {AnyOf(s)}]
           F == [g \in [D -> Nat] |-> [s \in D |-> Step(g, s)]]
           rank == [s \in D |-> Cardinality(s)]
<1>1. \A s \in D : s # {} => AnyOf(s) \in s /\ s \ {AnyOf(s)} \in D /\ w[AnyOf(s)] \in Nat
  BY DEF AnyOf
<1>2. rank \in [D -> Nat]
  <2>1. \A s \in D : Cardinality(s) \in Nat
    BY FS_Subset, FS_CardinalityType
  <2> QED BY <2>1
<1>3. F \in [[D -> Nat] -> [D -> Nat]]
  <2>1. ASSUME NEW g \in [D -> Nat], NEW s \in D PROVE Step(g, s) \in Nat
    BY <1>1
  <2> HIDE DEF Step
  <2> QED BY <2>1
<1>4. ASSUME NEW g \in [D -> Nat], NEW h \in [D -> Nat], NEW s \in D,
             \A u \in D : rank[u] < rank[s] => g[u] = h[u]
      PROVE  F[g][s] = F[h][s]
  <2>1. s # {} => rank[s \ {AnyOf(s)}] < rank[s]
    <3>1. IsFiniteSet(s)
      BY FS_Subset
    <3> QED BY <1>1, <3>1, RemoveOne
  <2>2. Step(g, s) = Step(h, s)
    <3> HIDE DEF rank
    <3> QED BY <1>1, <1>4, <2>1
  <2> HIDE DEF Step
  <2> QED BY <2>2
<1>5. \E g \in [D -> Nat] : g = F[g]
  <2> HIDE DEF D, F, rank
  <2>1. LooksBack(D, Nat, rank, F)
    BY <1>4 DEF LooksBack
  <2>2. Nat # {}
    OBVIOUS
  <2>3. HasFunction(D, Nat, F)
    BY <1>2, <1>3, <2>1, <2>2, Recursion
  <2> QED BY <2>3 DEF HasFunction
<1>6. PICK g \in [D -> Nat] : g = F[g]
  BY <1>5
<1>7. IsSum(w, S, g)
  BY <1>6 DEF IsSum
<1> QED BY <1>7

\* Two such functions agree where the numbers agree.
LEMMA SumUnique ==
  ASSUME NEW X, NEW w \in [X -> Nat], NEW S \in SUBSET X, IsFiniteSet(S),
         NEW T \in SUBSET S, NEW v, \A x \in T : v[x] = w[x],
         NEW g, IsSum(w, S, g), NEW h, IsSum(v, T, h)
  PROVE  \A s \in SUBSET T : g[s] = h[s] /\ h[s] \in Nat
<1> DEFINE Bad == {Cardinality(s) : s \in {u \in SUBSET T : ~ (g[u] = h[u] /\ h[u] \in Nat)}}
<1>1. \A s \in SUBSET T : IsFiniteSet(s) /\ Cardinality(s) \in Nat
  BY FS_Subset, FS_CardinalityType
<1> SUFFICES ASSUME Bad # {} PROVE FALSE
  OBVIOUS
<1>2. PICK m \in Bad : \A k \in Bad : m <= k
  <2>1. Bad \subseteq Nat
    BY <1>1
  <2> HIDE DEF Bad
  <2> QED BY <2>1, Smallest
<1>3. PICK s \in SUBSET T : ~ (g[s] = h[s] /\ h[s] \in Nat) /\ m = Cardinality(s)
  BY <1>2
<1>4. /\ g[s] = IF s = {} THEN 0 ELSE w[AnyOf(s)] + g[s \ {AnyOf(s)}]
      /\ h[s] = IF s = {} THEN 0 ELSE v[AnyOf(s)] + h[s \ {AnyOf(s)}]
  <2>1. s \in SUBSET S
    OBVIOUS
  <2> QED BY <2>1 DEF IsSum
<1>5. s # {}
  BY <1>3, <1>4
<1>6. AnyOf(s) \in s
  BY <1>5 DEF AnyOf
<1>7. PICK r : r = s \ {AnyOf(s)}
  OBVIOUS
<1>8. r \in SUBSET T /\ Cardinality(r) < Cardinality(s) /\ Cardinality(r) \in Nat
      /\ Cardinality(s) \in Nat
  BY <1>1, <1>6, <1>7, RemoveOne
<1>9. Cardinality(r) \notin Bad
  <2> HIDE DEF Bad
  <2> QED BY <1>2, <1>3, <1>8
<1>10. g[r] = h[r] /\ h[r] \in Nat
  BY <1>8, <1>9
<1>11. v[AnyOf(s)] = w[AnyOf(s)] /\ w[AnyOf(s)] \in Nat
  BY <1>6
<1> QED BY <1>3, <1>4, <1>5, <1>7, <1>10, <1>11

LEMMA SumIs ==
  ASSUME NEW X, NEW w \in [X -> Nat], NEW S \in SUBSET X, IsFiniteSet(S)
  PROVE  \E g : IsSum(w, S, g) /\ SumOf(w, S) = g[S]
<1>1. \E g : IsSum(w, S, g)
  BY SumExists
<1> DEFINE iter == CHOOSE iter : IsSum(w, S, iter)
<1>2. IsSum(w, S, iter)
  BY <1>1
<1>3. SumOf(w, S) = iter[S]
  BY DEF SumOf, MapThenSumSet, MapThenFoldSet, IsSum, AnyOf
<1> QED BY <1>2, <1>3

\* A sum is a number, and depends on the numbers of its members only.
LEMMA SumSame ==
  ASSUME NEW X, NEW w \in [X -> Nat], NEW Y, NEW v \in [Y -> Nat],
         NEW S \in SUBSET X, S \subseteq Y, IsFiniteSet(S), \A x \in S : v[x] = w[x]
  PROVE  SumOf(w, S) = SumOf(v, S) /\ SumOf(w, S) \in Nat
<1>1. PICK g : IsSum(w, S, g) /\ SumOf(w, S) = g[S]
  BY SumIs
<1>2. PICK h : IsSum(v, S, h) /\ SumOf(v, S) = h[S]
  BY SumIs
<1>3. g[S] = h[S] /\ h[S] \in Nat
  BY <1>1, <1>2, SumUnique
<1> QED BY <1>1, <1>2, <1>3

LEMMA SumEmpty ==
  ASSUME NEW X, NEW w \in [X -> Nat]
  PROVE  SumOf(w, {}) = 0
<1>1. PICK g : IsSum(w, {}, g) /\ SumOf(w, {}) = g[{}]
  BY SumIs, FS_EmptySet
<1>2. g[{}] = 0
  BY <1>1 DEF IsSum
<1> QED BY <1>1, <1>2

\* The sum takes one member after the other.
LEMMA SumStep ==
  ASSUME NEW X, NEW w \in [X -> Nat], NEW S \in SUBSET X, IsFiniteSet(S), S # {}
  PROVE  SumOf(w, S) = w[AnyOf(S)] + SumOf(w, S \ {AnyOf(S)})
<1>1. PICK g : IsSum(w, S, g) /\ SumOf(w, S) = g[S]
  BY SumIs
<1>2. PICK T : T = S \ {AnyOf(S)}
  OBVIOUS
<1>3. T \in SUBSET X /\ T \in SUBSET S /\ IsFiniteSet(T)
  BY <1>2, FS_Subset
<1>4. PICK h : IsSum(w, T, h) /\ SumOf(w, T) = h[T]
  BY <1>3, SumIs
<1>5. g[T] = h[T]
  BY <1>1, <1>3, <1>4, SumUnique
<1>6. g[S] = w[AnyOf(S)] + g[T]
  BY <1>1, <1>2 DEF IsSum
<1> QED BY <1>1, <1>2, <1>4, <1>5, <1>6

\* Whatever member is taken first.
LEMMA SumRemove ==
  ASSUME NEW X, NEW w \in [X -> Nat], NEW S \in SUBSET X, IsFiniteSet(S), NEW t \in S
  PROVE  SumOf(w, S) = w[t] + SumOf(w, S \ {t})
<1> DEFINE Bad == {Cardinality(U) : U \in {V \in SUBSET S :
                     \E u \in V : SumOf(w, V) # w[u] + SumOf(w, V \ {u})}}
<1>1. \A U \in SUBSET S : IsFiniteSet(U) /\ Cardinality(U) \in Nat
  BY FS_Subset, FS_CardinalityType
<1> SUFFICES ASSUME Bad # {} PROVE FALSE
  <2>1. SumOf(w, S) # w[t] + SumOf(w, S \ {t}) => Cardinality(S) \in Bad
    OBVIOUS
  <2> HIDE DEF Bad
  <2> QED BY <2>1
<1>2. PICK m \in Bad : \A k \in Bad : m <= k
  <2>1. Bad \subseteq Nat
    BY <1>1
  <2> HIDE DEF Bad
  <2> QED BY <2>1, Smallest
<1>3. PICK U \in SUBSET S :
        (\E u \in U : SumOf(w, U) # w[u] + SumOf(w, U \ {u})) /\ m = Cardinality(U)
  BY <1>2
<1>0. PICK u \in U : SumOf(w, U) # w[u] + SumOf(w, U \ {u})
  BY <1>3
<1>4. PICK x : x = AnyOf(U)
  OBVIOUS
<1>5. x \in U
  BY <1>4 DEF AnyOf
<1>6. U \in SUBSET X /\ IsFiniteSet(U) /\ SumOf(w, U) = w[x] + SumOf(w, U \ {x})
  BY <1>1, <1>4, SumStep
<1>7. x # u
  BY <1>0, <1>6
<1>8. \A V \in SUBSET S : Cardinality(V) < Cardinality(U) => \A v \in V :
        SumOf(w, V) = w[v] + SumOf(w, V \ {v})
  <2> SUFFICES ASSUME NEW V \in SUBSET S, NEW v \in V, Cardinality(V) < Cardinality(U)
               PROVE  SumOf(w, V) = w[v] + SumOf(w, V \ {v})
    OBVIOUS
  <2>1. Cardinality(V) \notin Bad
    <3>1. Cardinality(V) \in Nat /\ Cardinality(U) \in Nat
      BY <1>1
    <3>2. \A k \in Bad : Cardinality(U) <= k
      BY <1>2, <1>3
    <3> HIDE DEF Bad
    <3> QED BY <3>1, <3>2
  <2> QED BY <2>1
<1>9. /\ SumOf(w, U \ {x}) = w[u] + SumOf(w, (U \ {x}) \ {u})
      /\ SumOf(w, U \ {u}) = w[x] + SumOf(w, (U \ {u}) \ {x})
  BY <1>1, <1>5, <1>7, <1>8, RemoveOne
<1>10. (U \ {x}) \ {u} = (U \ {u}) \ {x}
  OBVIOUS
<1>11. PICK r : r = SumOf(w, (U \ {x}) \ {u})
  OBVIOUS
<1>12. r \in Nat /\ w[x] \in Nat /\ w[u] \in Nat
  <2>1. (U \ {x}) \ {u} \in SUBSET S /\ (U \ {x}) \ {u} \in SUBSET X
    OBVIOUS
  <2>2. SumOf(w, (U \ {x}) \ {u}) \in Nat
    BY <1>1, <2>1, SumSame
  <2> QED BY <1>5, <1>11, <2>2
<1>13. SumOf(w, U \ {x}) = w[u] + r /\ SumOf(w, U \ {u}) = w[x] + r
  BY <1>9, <1>10, <1>11
<1> HIDE DEF Bad
<1> QED BY <1>0, <1>6, <1>12, <1>13

-----------------------------------------------------------------------------
(* Sequences of sequences.                                                 *)

\* No member of the sequence occurs twice.
Distinct(s) == \A i, j \in DOMAIN s : s[i] = s[j] => i = j

LEMMA FunctionIsSeq ==
  ASSUME NEW X, NEW k \in Nat, NEW f, f = [i \in 1 .. k |-> f[i]], \A i \in 1 .. k : f[i] \in X
  PROVE  f \in Seq(X)
<1>1. f \in [1 .. k -> X]
  OBVIOUS
<1> QED BY <1>1

LEMMA Concatenated ==
  ASSUME NEW X, NEW a \in Seq(X), NEW b \in Seq(X)
  PROVE  /\ a \o b \in Seq(X) /\ Range(a \o b) = Range(a) \cup Range(b)
         /\ Distinct(a) /\ Distinct(b) /\ Range(a) \cap Range(b) = {} => Distinct(a \o b)
<1>1. PICK m \in Nat : m = Len(a) /\ DOMAIN a = 1 .. m
  OBVIOUS
<1>2. PICK n \in Nat : n = Len(b) /\ DOMAIN b = 1 .. n
  OBVIOUS
<1>3. PICK c \in Seq(X) : c = a \o b
  <2>1. a \o b \in Seq(X)
    OBVIOUS
  <2> QED BY <2>1
<1>4. /\ DOMAIN c = 1 .. m + n
      /\ \A i \in 1 .. m : i \in 1 .. m + n /\ c[i] = a[i]
      /\ \A i \in 1 .. n : i + m \in 1 .. m + n /\ c[i + m] = b[i]
  BY <1>1, <1>2, <1>3
<1>5. ASSUME NEW i \in 1 .. m + n
      PROVE  i \in 1 .. m \/ (i - m \in 1 .. n /\ i = (i - m) + m)
  BY <1>5
<1>6. Range(c) = Range(a) \cup Range(b)
  <2>1. ASSUME NEW x \in Range(c) PROVE x \in Range(a) \cup Range(b)
    <3>1. PICK i \in 1 .. m + n : x = c[i]
      BY <1>4, <2>1 DEF Range
    <3>2. CASE i \in 1 .. m
      BY <1>1, <1>4, <3>1, <3>2 DEF Range
    <3>3. CASE i - m \in 1 .. n /\ i = (i - m) + m
      <4>1. c[i] = b[i - m]
        BY <1>4, <3>3
      <4> QED BY <1>2, <3>1, <3>3, <4>1 DEF Range
    <3> QED BY <1>5, <3>1, <3>2, <3>3
  <2>2. ASSUME NEW x \in Range(a) \cup Range(b) PROVE x \in Range(c)
    <3>1. CASE x \in Range(a)
      BY <1>1, <1>4, <3>1 DEF Range
    <3>2. CASE x \in Range(b)
      <4>1. PICK i \in 1 .. n : x = b[i]
        BY <1>2, <3>2 DEF Range
      <4>2. x = c[i + m] /\ i + m \in DOMAIN c
        BY <1>4, <4>1
      <4> QED BY <4>2 DEF Range
    <3> QED BY <2>2, <3>1, <3>2
  <2> QED BY <2>1, <2>2
<1>7. ASSUME Distinct(a), Distinct(b), Range(a) \cap Range(b) = {},
             NEW i \in 1 .. m + n, NEW j \in 1 .. m + n, c[i] = c[j]
      PROVE  i = j
  <2>1. CASE i \in 1 .. m /\ j \in 1 .. m
    BY <1>1, <1>4, <1>7, <2>1 DEF Distinct
  <2>2. ASSUME NEW k \in 1 .. m, NEW l \in 1 .. n PROVE c[k] # c[l + m]
    <3>1. c[k] = a[k] /\ c[l + m] = b[l]
      BY <1>4
    <3>2. a[k] \in Range(a) /\ b[l] \in Range(b)
      BY <1>1, <1>2 DEF Range
    <3> QED BY <1>7, <3>1, <3>2
  <2>3. CASE i - m \in 1 .. n /\ i = (i - m) + m /\ j - m \in 1 .. n /\ j = (j - m) + m
    <3>1. c[i] = b[i - m] /\ c[j] = b[j - m]
      <4>1. \A k \in 1 .. n : c[k + m] = b[k]
        BY <1>4
      <4>2. c[(i - m) + m] = b[i - m] /\ c[(j - m) + m] = b[j - m]
        BY <2>3, <4>1
      <4> QED BY <2>3, <4>2
    <3>2. i - m = j - m
      BY <1>2, <1>7, <2>3, <3>1 DEF Distinct
    <3>3. i \in Int /\ j \in Int /\ m \in Int
      BY <1>1, <1>7
    <3> QED BY <3>2, <3>3
  <2>4. CASE i \in 1 .. m /\ j - m \in 1 .. n /\ j = (j - m) + m
    BY <1>7, <2>2, <2>4
  <2>5. CASE j \in 1 .. m /\ i - m \in 1 .. n /\ i = (i - m) + m
    BY <1>7, <2>2, <2>5
  <2>6. /\ i \in 1 .. m \/ (i - m \in 1 .. n /\ i = (i - m) + m)
        /\ j \in 1 .. m \/ (j - m \in 1 .. n /\ j = (j - m) + m)
    BY <1>5
  <2> QED BY <2>1, <2>3, <2>4, <2>5, <2>6
<1> QED BY <1>3, <1>4, <1>6, <1>7 DEF Distinct

\* FlattenSeq appends one sequence after the other.
LEMMA FlattenIs ==
  ASSUME NEW X, NEW s \in Seq(Seq(X)), Len(s) > 0
  PROVE  \E f \in [1 .. Len(s) -> Seq(X)] :
           /\ FlattenSeq(s) = f[Len(s)] /\ f[1] = s[1]
           /\ \A i \in 2 .. Len(s) : f[i] = f[i - 1] \o s[i]
<1> DEFINE D == 1 .. Len(s)
           V == Seq(X)
           Step(g, i) == IF i = 1 THEN s[i] ELSE g[i - 1] \o s[i]
           F == [g \in [D -> V] |-> [i \in D |-> Step(g, i)]]
           rank == [i \in D |-> i]
           Is(f) == f = [i \in D |-> Step(f, i)]
<1>1. Len(s) \in Nat /\ \A i \in D : s[i] \in V /\ i \in Nat /\ (i # 1 => i - 1 \in D)
  OBVIOUS
<1>2. rank \in [D -> Nat] /\ V # {}
  <2>1. <<>> \in V
    OBVIOUS
  <2> QED BY <1>1, <2>1
<1>3. F \in [[D -> V] -> [D -> V]]
  <2>1. ASSUME NEW g \in [D -> V], NEW i \in D PROVE Step(g, i) \in V
    <3>1. i # 1 => g[i - 1] \in Seq(X)
      BY <1>1
    <3>2. s[i] \in Seq(X)
      BY <1>1
    <3>3. i # 1 => g[i - 1] \o s[i] \in Seq(X)
      BY <3>1, <3>2
    <3> QED BY <3>2, <3>3
  <2> HIDE DEF Step
  <2> QED BY <2>1
<1>4. LooksBack(D, V, rank, F)
  <2> SUFFICES ASSUME NEW g \in [D -> V], NEW h \in [D -> V], NEW i \in D,
                      \A j \in D : rank[j] < rank[i] => g[j] = h[j]
               PROVE  F[g][i] = F[h][i]
    BY DEF LooksBack
  <2>1. i # 1 => g[i - 1] = h[i - 1]
    <3>1. i # 1 => i - 1 \in D /\ rank[i - 1] < rank[i]
      BY <1>1
    <3> HIDE DEF D, V, rank
    <3> QED BY <3>1
  <2>2. Step(g, i) = Step(h, i)
    BY <2>1
  <2> HIDE DEF Step
  <2> QED BY <2>2
<1>5. HasFunction(D, V, F)
  <2> HIDE DEF D, V, F, rank
  <2> QED BY <1>2, <1>3, <1>4, Recursion
<1>6. \E f : Is(f)
  <2>1. PICK g \in [D -> V] : g = F[g]
    BY <1>5 DEF HasFunction
  <2>2. Is(g)
    BY <2>1
  <2> QED BY <2>2
<1> DEFINE flatten == CHOOSE f : Is(f)
<1>7. Is(flatten)
  <2> HIDE DEF Is
  <2> QED BY <1>6
<1>8. FlattenSeq(s) = flatten[Len(s)]
  BY <1>1 DEF FlattenSeq
<1> HIDE DEF flatten
<1>9. \A i \in D : flatten[i] = Step(flatten, i)
  BY <1>7
<1>10. \A i \in D : flatten[i] \in V
  <2> DEFINE Bad == {i \in D : flatten[i] \notin V}
  <2> SUFFICES ASSUME Bad # {} PROVE FALSE
    OBVIOUS
  <2>1. PICK m \in Bad : \A k \in Bad : m <= k
    <3>1. Bad \subseteq Nat
      BY <1>1
    <3> HIDE DEF Bad
    <3> QED BY <3>1, Smallest
  <2>0. m \in D /\ flatten[m] \notin V /\ s[m] \in Seq(X) /\ m \in Nat
    BY <1>1
  <2>2. m # 1
    BY <1>9, <2>0
  <2>3. m - 1 \in D /\ m - 1 \notin Bad
    <3>1. m - 1 \in D /\ ~ (m <= m - 1)
      BY <1>1, <2>0, <2>2
    <3> HIDE DEF Bad
    <3> QED BY <2>1, <3>1
  <2>4. flatten[m - 1] \in Seq(X)
    BY <2>3
  <2>5. flatten[m - 1] \o s[m] \in Seq(X)
    BY <2>0, <2>4
  <2> QED BY <1>9, <2>0, <2>2, <2>5
<1>11. flatten \in [1 .. Len(s) -> Seq(X)]
  BY <1>7, <1>10
<1>12. flatten[1] = s[1] /\ \A i \in 2 .. Len(s) : flatten[i] = flatten[i - 1] \o s[i]
  <2>1. 1 \in D /\ \A i \in 2 .. Len(s) : i \in D /\ i # 1
    BY <1>1
  <2> HIDE DEF D
  <2> QED BY <1>9, <2>1
<1> QED BY <1>8, <1>11, <1>12

\* Members that occur in one of the sequences, and once in it.
Apart(s) ==
  /\ \A i \in DOMAIN s : Distinct(s[i])
  /\ \A i, j \in DOMAIN s : i # j => Range(s[i]) \cap Range(s[j]) = {}

\* It has the members of all of them, each once if each occurs in one and once.
LEMMA Flattened ==
  ASSUME NEW X, NEW s \in Seq(Seq(X))
  PROVE  /\ FlattenSeq(s) \in Seq(X)
         /\ \A x : x \in Range(FlattenSeq(s)) <=> \E i \in DOMAIN s : x \in Range(s[i])
         /\ Apart(s) => Distinct(FlattenSeq(s))
<1> DEFINE n == Len(s)
           Once == Apart(s)
<1>1. n \in Nat /\ DOMAIN s = 1 .. n
  OBVIOUS
<1>2. CASE n = 0
  <2>1. s = <<>> /\ FlattenSeq(s) = <<>>
    BY <1>2 DEF FlattenSeq
  <2>2. <<>> \in Seq(X) /\ DOMAIN <<>> = {}
    OBVIOUS
  <2>3. DOMAIN s = {} /\ DOMAIN FlattenSeq(s) = {} /\ FlattenSeq(s) \in Seq(X)
    BY <2>1, <2>2, Zenon
  <2> QED BY <2>3 DEF Range, Distinct
<1>3. CASE n > 0
  <2>1. PICK f \in [1 .. n -> Seq(X)] :
          /\ FlattenSeq(s) = f[n] /\ f[1] = s[1]
          /\ \A i \in 2 .. n : f[i] = f[i - 1] \o s[i]
    BY <1>3, FlattenIs
  <2> DEFINE Good(k) == /\ \A x : x \in Range(f[k]) <=> \E i \in 1 .. k : x \in Range(s[i])
                        /\ Once => Distinct(f[k])
             Bad == {k \in 1 .. n : ~ Good(k)}
  <2>2. \A k \in 1 .. n : Good(k)
    <3> SUFFICES ASSUME Bad # {} PROVE FALSE
      OBVIOUS
    <3>1. PICK m \in Bad : \A k \in Bad : m <= k
      <4>1. Bad \subseteq Nat
        OBVIOUS
      <4> HIDE DEF Bad
      <4> QED BY <4>1, Smallest
    <3>2. m \in 1 .. n /\ m \in Nat /\ ~ Good(m)
      <4>1. m \in 1 .. n /\ ~ Good(m)
        <5> HIDE DEF Good
        <5> QED OBVIOUS
      <4> HIDE DEF Good
      <4> QED BY <1>1, <4>1
    <3>3. CASE m = 1
      <4>1. f[m] = s[1] /\ 1 \in DOMAIN s
        BY <1>1, <2>1, <3>2, <3>3
      <4>2. \A x : (\E i \in 1 .. m : x \in Range(s[i])) <=> x \in Range(s[1])
        BY <3>3
      <4>3. Once => Distinct(s[1])
        BY <4>1 DEF Apart
      <4> QED BY <3>2, <4>1, <4>2, <4>3
    <3>4. CASE m # 1
      <4>1. PICK k : k = m - 1
        OBVIOUS
      <4>2. k \in 1 .. n /\ m \in 2 .. n /\ k \notin Bad /\ m = k + 1
        <5>1. k \in 1 .. n /\ m \in 2 .. n /\ m = k + 1 /\ ~ (m <= k)
          BY <1>1, <3>2, <3>4, <4>1
        <5> HIDE DEF Bad
        <5> QED BY <3>1, <5>1
      <4>3. Good(k)
        <5> HIDE DEF Good
        <5> QED BY <4>2
      <4>4. f[m] = f[k] \o s[m] /\ f[k] \in Seq(X) /\ s[m] \in Seq(X)
        <5>1. f[m] = f[m - 1] \o s[m]
          BY <2>1, <4>2
        <5>2. f[k] \in Seq(X) /\ m \in DOMAIN s
          BY <1>1, <4>2
        <5> QED BY <4>1, <5>1, <5>2
      <4>5. Range(f[m]) = Range(f[k]) \cup Range(s[m])
        BY <4>4, Concatenated
      <4>6. \A i : i \in 1 .. m <=> i \in 1 .. k \/ i = m
        <5>1. k \in Nat /\ m \in Nat /\ m = k + 1
          BY <1>1, <4>2
        <5> QED BY <5>1
      <4>7. \A x : x \in Range(f[m]) <=> \E i \in 1 .. m : x \in Range(s[i])
        BY <4>3, <4>5, <4>6
      <4>8. Once => Distinct(f[m])
        <5> SUFFICES ASSUME Once PROVE Distinct(f[m])
          OBVIOUS
        <5>1. Distinct(f[k]) /\ Distinct(s[m])
          BY <1>1, <3>2, <4>3 DEF Apart
        <5>2. ASSUME NEW x \in Range(f[k]), x \in Range(s[m]) PROVE FALSE
          <6>1. PICK i \in 1 .. k : x \in Range(s[i])
            BY <4>3
          <6>2. i \in DOMAIN s /\ m \in DOMAIN s /\ i # m
            BY <1>1, <4>2
          <6>3. Range(s[i]) \cap Range(s[m]) = {}
            BY <6>2 DEF Apart
          <6> QED BY <5>2, <6>1, <6>3
        <5>3. Range(f[k]) \cap Range(s[m]) = {}
          BY <5>2
        <5> HIDE DEF Once
        <5> QED BY <4>4, <5>1, <5>3, Concatenated
      <4> QED BY <3>2, <4>7, <4>8
    <3> QED BY <3>3, <3>4
  <2>3. FlattenSeq(s) = f[n] /\ f[n] \in Seq(X) /\ n \in 1 .. n
    <3>1. n \in 1 .. n
      BY <1>1, <1>3
    <3> HIDE DEF n
    <3> QED BY <2>1, <3>1
  <2>4. Good(n)
    BY <2>2, <2>3
  <2> QED BY <1>1, <2>3, <2>4
<1> QED BY <1>1, <1>2, <1>3

-----------------------------------------------------------------------------
(* Counts of parties.                                                      *)

Positive == Nat \ {0}

\* How many parties of each size there are.
IsCounts(c) ==
  /\ IsFiniteSet(DOMAIN c)
  /\ DOMAIN c \subseteq Positive
  /\ c \in [DOMAIN c -> Positive]

PlayersOfSize(c) == [n \in DOMAIN c |-> n * c[n]]

LEMMA TotalIs ==
  ASSUME NEW c, IsCounts(c)
  PROVE  /\ PlayersOfSize(c) \in [DOMAIN c -> Nat]
         /\ Total(c) = SumOf(PlayersOfSize(c), DOMAIN c)
<1> DEFINE S == DOMAIN c
           w == PlayersOfSize(c)
           Is(f) == f = [s \in SUBSET S |-> IF s = {} THEN 0
                           ELSE AnyOf(s) * c[AnyOf(s)] + f[s \ {AnyOf(s)}]]
           iter == CHOOSE f : Is(f)
<1>1. w \in [S -> Nat] /\ IsFiniteSet(S)
  <2>1. ASSUME NEW n \in S PROVE n * c[n] \in Nat
    <3>1. n \in Nat /\ c[n] \in Nat
      BY DEF IsCounts, Positive
    <3> QED BY <3>1
  <2> QED BY <2>1 DEF IsCounts, PlayersOfSize
<1>2. ASSUME NEW f PROVE Is(f) <=> IsSum(w, S, f)
  <2>1. \A s \in SUBSET S : s # {} => AnyOf(s) \in S
    BY DEF AnyOf
  <2>2. \A s \in SUBSET S : s # {} => w[AnyOf(s)] = AnyOf(s) * c[AnyOf(s)]
    BY <2>1 DEF PlayersOfSize
  <2>3. [s \in SUBSET S |-> IF s = {} THEN 0
           ELSE AnyOf(s) * c[AnyOf(s)] + f[s \ {AnyOf(s)}]] =
        [s \in SUBSET S |-> IF s = {} THEN 0 ELSE w[AnyOf(s)] + f[s \ {AnyOf(s)}]]
    <3> HIDE DEF w, S
    <3> QED BY <2>2
  <2> HIDE DEF w, S
  <2> QED BY <2>3 DEF IsSum
<1>3. PICK g : IsSum(w, S, g) /\ SumOf(w, S) = g[S]
  <2> HIDE DEF w, S
  <2> QED BY <1>1, SumIs
<1>4. Is(iter)
  <2>1. Is(g)
    <3> HIDE DEF Is
    <3> QED BY <1>2, <1>3
  <2> HIDE DEF Is
  <2> QED BY <2>1
<1>5. Total(c) = iter[S]
  BY DEF Total, MapThenSumSet, MapThenFoldSet, AnyOf
<1>6. g[S] = iter[S]
  <2>1. IsSum(w, S, iter)
    <3> HIDE DEF Is, iter, w, S
    <3> QED BY <1>2, <1>4
  <2> HIDE DEF iter, w, S
  <2> QED BY <1>1, <1>3, <2>1, SumUnique
<1> QED BY <1>1, <1>3, <1>5, <1>6

\* One more party of size n.
AddOne(c, n) ==
  [k \in DOMAIN c \cup {n} |-> IF k # n THEN c[k] ELSE IF n \in DOMAIN c THEN c[n] + 1 ELSE 1]

LEMMA Distribute ==
  ASSUME NEW m \in Nat, NEW n \in Nat
  PROVE  m * (n + 1) = m * n + m /\ m * n \in Nat /\ m * 1 = m
OBVIOUS

LEMMA OneMore ==
  ASSUME NEW c, IsCounts(c), NEW n \in Positive
  PROVE  /\ IsCounts(AddOne(c, n)) /\ DOMAIN AddOne(c, n) = DOMAIN c \cup {n}
         /\ Total(AddOne(c, n)) = Total(c) + n /\ Total(c) \in Nat
<1> DEFINE d == AddOne(c, n)
           R == DOMAIN c \ {n}
<1>1. /\ DOMAIN d = DOMAIN c \cup {n} /\ n \in DOMAIN d
      /\ \A k \in DOMAIN c : c[k] \in Positive
      /\ \A k \in DOMAIN d : /\ d[k] \in Positive /\ (k # n => d[k] = c[k])
                             /\ k = n /\ n \in DOMAIN c => d[k] = c[n] + 1
                             /\ k = n /\ n \notin DOMAIN c => d[k] = 1
  BY DEF AddOne, IsCounts, Positive
<1>2. IsCounts(d)
  <2>1. IsFiniteSet(DOMAIN d)
    BY <1>1, FS_AddElement DEF IsCounts
  <2>2. d = [k \in DOMAIN d |-> d[k]]
    BY DEF AddOne
  <2> HIDE DEF d
  <2> QED BY <1>1, <2>1, <2>2 DEF IsCounts
<1> HIDE DEF d
<1> DEFINE v == PlayersOfSize(c)
           w == PlayersOfSize(d)
<1>3. /\ v \in [DOMAIN c -> Nat] /\ Total(c) = SumOf(v, DOMAIN c)
      /\ w \in [DOMAIN d -> Nat] /\ Total(d) = SumOf(w, DOMAIN d)
  BY <1>2, TotalIs
<1>4. IsFiniteSet(DOMAIN c) /\ IsFiniteSet(DOMAIN d) /\ IsFiniteSet(R)
  BY <1>2, FS_RemoveElement DEF IsCounts
<1>5. SumOf(w, DOMAIN d) = w[n] + SumOf(w, DOMAIN d \ {n})
  <2> HIDE DEF w
  <2> QED BY <1>1, <1>3, <1>4, SumRemove
<1>6. DOMAIN d \ {n} = R
  BY <1>1
<1>7. SumOf(w, R) = SumOf(v, R) /\ SumOf(v, R) \in Nat
  <2>1. \A k \in R : v[k] = w[k] /\ k \in DOMAIN c /\ k \in DOMAIN d
    BY <1>1 DEF PlayersOfSize
  <2>2. R \in SUBSET DOMAIN d /\ R \subseteq DOMAIN c
    BY <2>1
  <2> HIDE DEF v, w, R
  <2> QED BY <1>3, <1>4, <2>1, <2>2, SumSame
<1>8. n \in Nat /\ w[n] = n * d[n]
  BY <1>1 DEF PlayersOfSize, Positive
<1>9. CASE n \in DOMAIN c
  <2>1. SumOf(v, DOMAIN c) = v[n] + SumOf(v, R)
    <3> HIDE DEF v
    <3> QED BY <1>3, <1>4, <1>9, SumRemove
  <2>2. v[n] = n * c[n] /\ c[n] \in Nat /\ d[n] = c[n] + 1
    BY <1>1, <1>9 DEF PlayersOfSize, Positive
  <2>3. w[n] = v[n] + n /\ v[n] \in Nat
    BY <1>8, <2>2, Distribute
  <2>4. Total(d) = v[n] + n + SumOf(v, R) /\ Total(c) = v[n] + SumOf(v, R)
    <3> HIDE DEF v, w, R
    <3> QED BY <1>3, <1>5, <1>6, <1>7, <2>1, <2>3
  <2>5. Total(d) = Total(c) + n /\ Total(c) \in Nat
    <3> HIDE DEF v, w, R
    <3> QED BY <1>7, <1>8, <2>3, <2>4
  <2> QED BY <1>1, <1>2, <2>5 DEF d
<1>10. CASE n \notin DOMAIN c
  <2>1. R = DOMAIN c
    BY <1>10
  <2>2. w[n] = n
    BY <1>1, <1>8, <1>10, Distribute
  <2>3. Total(d) = Total(c) + n /\ Total(c) \in Nat
    <3> HIDE DEF v, w, R
    <3> QED BY <1>3, <1>5, <1>6, <1>7, <1>8, <2>1, <2>2
  <2> QED BY <1>1, <1>2, <2>3 DEF d
<1> QED BY <1>9, <1>10

\* What was there before one was added can be told.
LEMMA OneMoreOf ==
  ASSUME NEW c, IsCounts(c), NEW d, IsCounts(d), NEW n \in Positive, AddOne(c, n) = AddOne(d, n)
  PROVE  c = d
<1> DEFINE a == AddOne(c, n)
           b == AddOne(d, n)
<1>1. /\ \A k \in DOMAIN c : c[k] \in Nat /\ c[k] # 0
      /\ \A k \in DOMAIN d : d[k] \in Nat /\ d[k] # 0
      /\ c = [k \in DOMAIN c |-> c[k]] /\ d = [k \in DOMAIN d |-> d[k]]
  BY DEF IsCounts, Positive
<1>2. /\ DOMAIN a = DOMAIN c \cup {n}
      /\ \A k \in DOMAIN c : k # n => a[k] = c[k]
      /\ a[n] = IF n \in DOMAIN c THEN c[n] + 1 ELSE 1
  BY DEF AddOne
<1>3. /\ DOMAIN b = DOMAIN d \cup {n}
      /\ \A k \in DOMAIN d : k # n => b[k] = d[k]
      /\ b[n] = IF n \in DOMAIN d THEN d[n] + 1 ELSE 1
  BY DEF AddOne
<1>4. a = b
  OBVIOUS
<1> HIDE DEF a, b
<1>5. n \in DOMAIN c <=> n \in DOMAIN d
  BY <1>1, <1>2, <1>3, <1>4
<1>6. DOMAIN c = DOMAIN d
  BY <1>2, <1>3, <1>4, <1>5
<1>7. \A k \in DOMAIN c : c[k] = d[k]
  BY <1>1, <1>2, <1>3, <1>4, <1>6
<1> QED BY <1>1, <1>6, <1>7

\* Of every size that is there one can be taken.
LEMMA OneLess ==
  ASSUME NEW c, IsCounts(c), NEW n \in DOMAIN c
  PROVE  \E d : IsCounts(d) /\ c = AddOne(d, n) /\ DOMAIN d \subseteq DOMAIN c
<1>1. /\ \A k \in DOMAIN c : c[k] \in Nat /\ c[k] # 0 /\ k \in Positive
      /\ c = [k \in DOMAIN c |-> c[k]] /\ IsFiniteSet(DOMAIN c)
  BY DEF IsCounts, Positive
<1>2. CASE c[n] = 1
  <2> DEFINE d == [k \in DOMAIN c \ {n} |-> c[k]]
  <2>1. DOMAIN d = DOMAIN c \ {n} /\ IsFiniteSet(DOMAIN d)
    BY <1>1, FS_RemoveElement
  <2>2. IsCounts(d)
    BY <1>1, <2>1 DEF IsCounts, Positive
  <2>3. AddOne(d, n) = [k \in DOMAIN c |-> c[k]]
    BY <1>1, <1>2, <2>1 DEF AddOne
  <2> HIDE DEF d
  <2> QED BY <1>1, <2>1, <2>2, <2>3
<1>3. CASE c[n] # 1
  <2> DEFINE d == [k \in DOMAIN c |-> IF k = n THEN c[n] - 1 ELSE c[k]]
  <2>1. DOMAIN d = DOMAIN c
    OBVIOUS
  <2>2. \A k \in DOMAIN d : d[k] \in Positive
    BY <1>1, <1>3 DEF Positive
  <2>3. IsCounts(d)
    BY <1>1, <2>1, <2>2 DEF IsCounts
  <2>4. AddOne(d, n) = [k \in DOMAIN c |-> c[k]]
    <3>1. d[n] + 1 = c[n] /\ DOMAIN d \cup {n} = DOMAIN c
      <4>1. d[n] = c[n] - 1 /\ c[n] \in Nat
        BY <1>1
      <4>2. DOMAIN d \cup {n} = DOMAIN c
        BY <2>1
      <4> HIDE DEF d
      <4> QED BY <4>1, <4>2
    <3> QED BY <3>1 DEF AddOne
  <2> HIDE DEF d
  <2> QED BY <1>1, <2>1, <2>3, <2>4
<1> QED BY <1>2, <1>3

\* Parties have players.
LEMMA TotalOf ==
  ASSUME NEW c, IsCounts(c)
  PROVE  /\ Total(c) \in Nat /\ (Total(c) = 0 <=> DOMAIN c = {})
         /\ \A n \in DOMAIN c : n <= Total(c)
<1>1. ASSUME NEW n \in DOMAIN c
      PROVE  n \in Positive /\ n <= Total(c) /\ Total(c) # 0
  <2>1. PICK d : IsCounts(d) /\ c = AddOne(d, n)
    BY OneLess
  <2>2. n \in Positive
    BY DEF IsCounts
  <2>3. Total(c) = Total(d) + n /\ Total(d) \in Nat
    BY <2>1, <2>2, OneMore
  <2> QED BY <2>2, <2>3 DEF Positive
<1>2. Total(c) \in Nat
  <2>1. 1 \in Positive
    BY DEF Positive
  <2> QED BY <2>1, OneMore
<1>3. DOMAIN c = {} => Total(c) = 0
  <2>1. Total(c) = SumOf(PlayersOfSize(c), DOMAIN c) /\ PlayersOfSize(c) \in [DOMAIN c -> Nat]
    BY TotalIs
  <2> QED BY <2>1, SumEmpty
<1> QED BY <1>1, <1>2, <1>3

-----------------------------------------------------------------------------
(* Lists of parts.                                                         *)

Positions(parts, n) == {i \in DOMAIN parts : parts[i] = n}

\* A list of parts has counts.
LEMMA GroupedCounts ==
  ASSUME NEW parts \in Seq(Positive)
  PROVE  IsCounts(Grouped(parts)) /\ DOMAIN Grouped(parts) = Range(parts)
<1> DEFINE c == Grouped(parts)
<1>1. /\ DOMAIN c = Range(parts)
      /\ \A n \in DOMAIN c : c[n] = Cardinality(Positions(parts, n))
      /\ c = [n \in DOMAIN c |-> c[n]]
  BY DEF Grouped, Positions
<1>2. DOMAIN parts = 1 .. Len(parts) /\ Len(parts) \in Nat
      /\ \A i \in DOMAIN parts : parts[i] \in Positive
  OBVIOUS
<1>3. IsFiniteSet(DOMAIN parts)
  BY <1>2, FS_Interval
<1>4. IsFiniteSet(Range(parts))
  <2> DEFINE f == [i \in DOMAIN parts |-> parts[i]]
  <2>1. f \in Surjection(DOMAIN parts, Range(parts))
    BY DEF Surjection, Range
  <2> HIDE DEF f
  <2> QED BY <1>3, <2>1, FS_Surjection
<1>5. ASSUME NEW n \in DOMAIN c PROVE c[n] \in Positive /\ n \in Positive
  <2>1. PICK i \in DOMAIN parts : parts[i] = n
    BY <1>1 DEF Range
  <2>2. i \in Positions(parts, n) /\ Positions(parts, n) \subseteq DOMAIN parts
    BY <2>1 DEF Positions
  <2>3. IsFiniteSet(Positions(parts, n))
    BY <1>3, <2>2, FS_Subset
  <2>4. /\ Cardinality(Positions(parts, n)) \in Nat
        /\ Cardinality(Positions(parts, n)) # 0
    BY <2>2, <2>3, FS_CardinalityType, FS_EmptySet
  <2> QED BY <1>1, <1>2, <2>1, <2>4 DEF Positive
<1> HIDE DEF c
<1>6. IsCounts(c)
  BY <1>1, <1>4, <1>5 DEF IsCounts
<1> QED BY <1>1, <1>6 DEF c

\* A part put before a list is one more party of its size.
LEMMA GroupedMore ==
  ASSUME NEW n \in Positive, NEW rest \in Seq(Positive)
  PROVE  /\ <<n>> \o rest \in Seq(Positive)
         /\ Grouped(<<n>> \o rest) = AddOne(Grouped(rest), n)
<1>1. PICK parts \in Seq(Positive) : parts = <<n>> \o rest
  <2>1. <<n>> \in Seq(Positive)
    OBVIOUS
  <2>2. <<n>> \o rest \in Seq(Positive)
    BY <2>1
  <2> QED BY <2>2
<1>2. PICK k \in Nat : k = Len(rest) /\ DOMAIN rest = 1 .. k
  OBVIOUS
<1>3. /\ DOMAIN parts = 1 .. k + 1 /\ parts[1] = n
      /\ \A i \in 1 .. k : parts[i + 1] = rest[i]
  BY <1>1, <1>2
<1>4. ASSUME NEW m
      PROVE  /\ IsFiniteSet(Positions(rest, m)) /\ Cardinality(Positions(rest, m)) \in Nat
             /\ Cardinality(Positions(parts, m)) =
                  IF m = n THEN Cardinality(Positions(rest, m)) + 1
                  ELSE Cardinality(Positions(rest, m))
  <2> DEFINE A == Positions(rest, m)
             B == {i \in 2 .. k + 1 : parts[i] = m}
             f == [i \in A |-> i + 1]
  <2>1. A \subseteq 1 .. k /\ IsFiniteSet(A) /\ Cardinality(A) \in Nat
    <3>1. A \subseteq 1 .. k
      BY <1>2 DEF Positions
    <3>2. IsFiniteSet(1 .. k)
      BY <1>2, FS_Interval
    <3> QED BY <3>1, <3>2, FS_Subset, FS_CardinalityType
  <2>2. \A i \in A : i + 1 \in B
    BY <1>2, <1>3 DEF Positions
  <2>3. \A i \in B : i - 1 \in A /\ i = (i - 1) + 1
    <3> SUFFICES ASSUME NEW i \in B PROVE i - 1 \in A /\ i = (i - 1) + 1
      OBVIOUS
    <3>1. i - 1 \in 1 .. k /\ i = (i - 1) + 1
      BY <1>2
    <3>2. rest[i - 1] = m
      BY <1>3, <3>1
    <3> QED BY <1>2, <3>1, <3>2 DEF Positions
  <2>4. f \in Bijection(A, B)
    <3>1. f \in [A -> B]
      BY <2>2
    <3>2. \A i, j \in A : f[i] = f[j] => i = j
      BY <2>1
    <3>3. \A i \in B : \E j \in A : f[j] = i
      BY <2>3
    <3> HIDE DEF A, B, f
    <3> QED BY <3>1, <3>2, <3>3 DEF Bijection, Injection, Surjection, IsInjective
  <2>5. IsFiniteSet(B) /\ Cardinality(B) = Cardinality(A)
    <3>1. ExistsBijection(A, B)
      <4> HIDE DEF A, B, f
      <4> QED BY <2>4 DEF ExistsBijection
    <3> HIDE DEF A, B, f
    <3> QED BY <2>1, <3>1, FS_Bijection
  <2>6. Positions(parts, m) = IF m = n THEN B \cup {1} ELSE B
    <3>1. \A i : i \in 1 .. k + 1 <=> i = 1 \/ i \in 2 .. k + 1
      BY <1>2
    <3> QED BY <1>3, <3>1 DEF Positions
  <2>7. 1 \notin B
    OBVIOUS
  <2>8. Cardinality(B \cup {1}) = Cardinality(B) + 1
    <3> HIDE DEF B
    <3> QED BY <2>5, <2>7, FS_AddElement
  <2> QED BY <2>1, <2>5, <2>6, <2>8
<1>5. Range(parts) = Range(rest) \cup {n}
  <2>1. ASSUME NEW x \in Range(parts) PROVE x \in Range(rest) \cup {n}
    <3>1. PICK i \in 1 .. k + 1 : x = parts[i]
      BY <1>3, <2>1 DEF Range
    <3>2. CASE i = 1
      BY <1>3, <3>1, <3>2
    <3>3. CASE i # 1
      <4>1. i - 1 \in 1 .. k /\ (i - 1) + 1 = i
        BY <3>3
      <4>2. x = rest[i - 1]
        BY <1>3, <3>1, <4>1
      <4> QED BY <1>2, <4>1, <4>2 DEF Range
    <3> QED BY <3>2, <3>3
  <2>2. n \in Range(parts)
    BY <1>3 DEF Range
  <2>3. ASSUME NEW x \in Range(rest) PROVE x \in Range(parts)
    <3>1. PICK i \in 1 .. k : x = rest[i]
      BY <1>2, <2>3 DEF Range
    <3>2. i + 1 \in 1 .. k + 1 /\ x = parts[i + 1]
      BY <1>3, <3>1
    <3> QED BY <1>3, <3>2 DEF Range
  <2> QED BY <2>1, <2>2, <2>3
<1>6. \A m : m \notin Range(rest) => Cardinality(Positions(rest, m)) = 0
  <2>1. \A m : m \notin Range(rest) => Positions(rest, m) = {}
    BY DEF Positions, Range
  <2> QED BY <2>1, FS_EmptySet
<1>7. /\ Grouped(parts) = [m \in Range(parts) |-> Cardinality(Positions(parts, m))]
      /\ Grouped(rest) = [m \in Range(rest) |-> Cardinality(Positions(rest, m))]
  BY DEF Grouped, Positions
<1>8. ASSUME NEW m \in Range(parts)
      PROVE  Cardinality(Positions(parts, m)) =
               IF m # n THEN Grouped(rest)[m]
               ELSE IF n \in Range(rest) THEN Grouped(rest)[n] + 1 ELSE 1
  <2>1. CASE m # n
    <3>1. m \in Range(rest)
      BY <1>5, <2>1
    <3> QED BY <1>4, <1>7, <2>1, <3>1
  <2>2. CASE m = n /\ n \in Range(rest)
    BY <1>4, <1>7, <2>2
  <2>3. CASE m = n /\ n \notin Range(rest)
    <3>1. Cardinality(Positions(rest, m)) = 0
      BY <1>6, <2>3
    <3> QED BY <1>4, <2>3, <3>1
  <2> QED BY <2>1, <2>2, <2>3
<1>9. DOMAIN Grouped(rest) = Range(rest)
  BY <1>7
<1> QED BY <1>1, <1>5, <1>7, <1>8, <1>9 DEF AddOne

-----------------------------------------------------------------------------
(* The lists of parts of the rule.                                         *)

\* A choice of parties of next to max players that has r players.
IsChoice(c, next, max, r) == IsCounts(c) /\ DOMAIN c \subseteq next .. max /\ Total(c) = r

\* The lists of parts have every choice, and each once.
Listed(s, next, max, r) ==
  /\ s \in Seq(Seq(Positive)) /\ Distinct(s)
  /\ \A l \in Range(s) : IsChoice(Grouped(l), next, max, r)
  /\ \A c : IsChoice(c, next, max, r) => \E l \in Range(s) : Grouped(l) = c
  /\ \A l, m \in Range(s) : Grouped(l) = Grouped(m) => l = m

LEMMA HeadAndTail ==
  ASSUME NEW n \in Positive, NEW m \in Positive,
         NEW a \in Seq(Positive), NEW b \in Seq(Positive), <<n>> \o a = <<m>> \o b
  PROVE  n = m /\ a = b
<1>1. PICK x \in Seq(Positive) : x = <<n>> \o a /\ x = <<m>> \o b
  BY GroupedMore
<1>2. PICK k \in Nat : k = Len(a) /\ DOMAIN a = 1 .. k
  OBVIOUS
<1>3. PICK j \in Nat : j = Len(b) /\ DOMAIN b = 1 .. j
  OBVIOUS
<1>4. Len(x) = 1 + k /\ Len(x) = 1 + j
  BY <1>1, <1>2, <1>3
<1>5. k = j
  BY <1>4
<1>6. x[1] = n /\ x[1] = m
  BY <1>1, <1>2, <1>3
<1>7. \A i \in 1 .. k : a[i] = b[i]
  <2>1. \A i \in 1 .. k : x[i + 1] = a[i] /\ x[i + 1] = b[i]
    BY <1>1, <1>2, <1>3, <1>5
  <2> QED BY <2>1
<1>8. a = b
  BY <1>2, <1>3, <1>5, <1>7
<1> QED BY <1>6, <1>8

LEMMA PrefixedIs ==
  ASSUME NEW n \in Positive, NEW s \in Seq(Seq(Positive))
  PROVE  /\ Prefixed(n, s) \in Seq(Seq(Positive))
         /\ \A x : x \in Range(Prefixed(n, s)) <=> \E m \in Range(s) : x = <<n>> \o m
         /\ Distinct(s) => Distinct(Prefixed(n, s))
<1> DEFINE p == Prefixed(n, s)
<1>1. PICK k \in Nat : k = Len(s) /\ DOMAIN s = 1 .. k /\ \A i \in 1 .. k : s[i] \in Seq(Positive)
  OBVIOUS
<1>2. p = [j \in 1 .. k |-> <<n>> \o s[j]]
  BY <1>1 DEF Prefixed
<1>3. \A j \in 1 .. k : <<n>> \o s[j] \in Seq(Positive)
  BY <1>1, GroupedMore
<1>4. p \in Seq(Seq(Positive)) /\ DOMAIN p = 1 .. k /\ \A j \in 1 .. k : p[j] = <<n>> \o s[j]
  BY <1>2, <1>3
<1> HIDE DEF p
<1>5. \A x : x \in Range(p) <=> \E m \in Range(s) : x = <<n>> \o m
  <2>1. Range(p) = {p[j] : j \in 1 .. k} /\ Range(s) = {s[j] : j \in 1 .. k}
    BY <1>1, <1>4 DEF Range
  <2>2. \A x : x \in Range(p) <=> \E j \in 1 .. k : x = p[j]
    BY <2>1
  <2>3. \A x : x \in Range(p) <=> \E j \in 1 .. k : x = <<n>> \o s[j]
    BY <1>4, <2>2
  <2> QED BY <2>1, <2>3
<1>6. ASSUME Distinct(s), NEW i \in 1 .. k, NEW j \in 1 .. k, p[i] = p[j] PROVE i = j
  <2>1. PICK a \in Seq(Positive), b \in Seq(Positive) : a = s[i] /\ b = s[j]
    BY <1>1
  <2>3. <<n>> \o a = <<n>> \o b
    BY <1>4, <1>6, <2>1
  <2>4. a = b
    BY <2>3, HeadAndTail
  <2>2. s[i] = s[j]
    BY <2>1, <2>4
  <2> QED BY <1>1, <1>6, <2>2 DEF Distinct
<1> QED BY <1>4, <1>5, <1>6 DEF p, Distinct

LEMMA NothingLeft ==
  ASSUME NEW next \in Positive, NEW max \in Positive
  PROVE  Listed(<< <<>> >>, next, max, 0)
<1>1. PICK s \in Seq(Seq(Positive)) : s = << <<>> >>
  <2>1. PICK e \in Seq(Positive) : e = <<>>
    <3>1. <<>> \in Seq(Positive)
      OBVIOUS
    <3> QED BY <3>1
  <2>2. <<e>> \in Seq(Seq(Positive))
    OBVIOUS
  <2> QED BY <2>1, <2>2
<1>2. DOMAIN s = {1} /\ s[1] = <<>> /\ Range(s) = {<<>>}
  BY <1>1 DEF Range
<1>3. IsCounts(Grouped(<<>>)) /\ DOMAIN Grouped(<<>>) = {}
  <2>1. <<>> \in Seq(Positive) /\ Range(<<>>) = {}
    BY DEF Range
  <2> QED BY <2>1, GroupedCounts
<1>4. IsChoice(Grouped(<<>>), next, max, 0)
  BY <1>3, TotalOf DEF IsChoice
<1>5. ASSUME NEW c, IsChoice(c, next, max, 0) PROVE Grouped(<<>>) = c
  <2>1. DOMAIN c = {} /\ c = [n \in DOMAIN c |-> c[n]]
    BY <1>5, TotalOf DEF IsChoice, IsCounts
  <2>2. Grouped(<<>>) = [n \in DOMAIN Grouped(<<>>) |-> Grouped(<<>>)[n]]
    BY <1>3 DEF IsCounts
  <2> QED BY <1>3, <2>1, <2>2
<1> QED BY <1>1, <1>2, <1>4, <1>5 DEF Listed, Distinct

LEMMA NoRoom ==
  ASSUME NEW next \in Positive, NEW max \in Positive, NEW r \in Positive,
         next > Least(r, max)
  PROVE  Listed(<<>>, next, max, r)
<1>1. ASSUME NEW c, IsChoice(c, next, max, r) PROVE FALSE
  <2>1. Total(c) # 0 /\ IsCounts(c)
    BY <1>1 DEF IsChoice, Positive
  <2>2. PICK n \in DOMAIN c : n <= r
    BY <1>1, <2>1, TotalOf DEF IsChoice
  <2>3. n \in next .. max
    BY <1>1 DEF IsChoice
  <2> QED BY <2>2, <2>3 DEF Least, Positive
<1>2. <<>> \in Seq(Seq(Positive)) /\ DOMAIN <<>> = {}
  OBVIOUS
<1> QED BY <1>1, <1>2 DEF Listed, Distinct, Range

\* The lists that begin with each of the parts that have room are all of them.
LEMMA Extended ==
  ASSUME NEW next \in Positive, NEW max \in Positive, NEW r \in Positive, NEW n \in Positive,
         n = Least(r, max), next <= n, NEW lower,
         \A part \in next .. n : Listed(lower[part], part, max, r - part),
         NEW s, s = [i \in 1 .. n - next + 1 |-> Prefixed(next + i - 1, lower[next + i - 1])]
  PROVE  Listed(FlattenSeq(s), next, max, r)
<1>1. \A part \in next .. n :
        part \in Positive /\ part <= r /\ part <= max /\ r - part \in Nat /\ next <= part
  BY DEF Positive, Least
<1>2. /\ DOMAIN s = 1 .. n - next + 1
      /\ \A i \in DOMAIN s : /\ next + i - 1 \in next .. n
                             /\ s[i] = Prefixed(next + i - 1, lower[next + i - 1])
      /\ \A part \in next .. n : /\ part - next + 1 \in DOMAIN s
                                 /\ s[part - next + 1] = Prefixed(part, lower[part])
      /\ \A i, j \in DOMAIN s : i # j => next + i - 1 # next + j - 1
  <2>1. DOMAIN s = 1 .. n - next + 1
    OBVIOUS
  <2>2. \A i \in DOMAIN s : /\ next + i - 1 \in next .. n
                             /\ s[i] = Prefixed(next + i - 1, lower[next + i - 1])
    BY DEF Positive
  <2>3. ASSUME NEW part \in next .. n
        PROVE  /\ part - next + 1 \in DOMAIN s
               /\ s[part - next + 1] = Prefixed(part, lower[part])
    <3>1. part - next + 1 \in DOMAIN s /\ next + (part - next + 1) - 1 = part
      BY DEF Positive
    <3> QED BY <3>1
  <2>4. \A i, j \in DOMAIN s : i # j => next + i - 1 # next + j - 1
    BY DEF Positive
  <2> QED BY <2>1, <2>2, <2>3, <2>4
<1>3. ASSUME NEW part \in next .. n
      PROVE  /\ Prefixed(part, lower[part]) \in Seq(Seq(Positive))
             /\ Distinct(Prefixed(part, lower[part]))
             /\ \A x : x \in Range(Prefixed(part, lower[part])) <=>
                         \E m \in Range(lower[part]) : x = <<part>> \o m
  <2>1. PICK k : k = lower[part]
    OBVIOUS
  <2>2. k \in Seq(Seq(Positive)) /\ Distinct(k) /\ part \in Positive
    BY <1>1, <2>1 DEF Listed
  <2>3. /\ Prefixed(part, k) \in Seq(Seq(Positive)) /\ Distinct(Prefixed(part, k))
        /\ \A x : x \in Range(Prefixed(part, k)) <=> \E m \in Range(k) : x = <<part>> \o m
    BY <2>2, PrefixedIs
  <2> QED BY <2>1, <2>3
<1>4. s \in Seq(Seq(Seq(Positive)))
  <2>1. n - next + 1 \in Nat
    BY DEF Positive
  <2>2. \A i \in 1 .. n - next + 1 : s[i] \in Seq(Seq(Positive))
    BY <1>2, <1>3
  <2>3. s = [i \in 1 .. n - next + 1 |-> s[i]]
    BY <1>2
  <2> QED BY <2>1, <2>2, <2>3
<1>5. ASSUME NEW part \in next .. n, NEW m \in Range(lower[part])
      PROVE  /\ m \in Seq(Positive) /\ <<part>> \o m \in Seq(Positive)
             /\ IsChoice(Grouped(m), part, max, r - part)
             /\ IsCounts(Grouped(<<part>> \o m))
             /\ Grouped(<<part>> \o m) = AddOne(Grouped(m), part)
             /\ DOMAIN Grouped(<<part>> \o m) \subseteq part .. max
             /\ part \in DOMAIN Grouped(<<part>> \o m)
             /\ Total(Grouped(<<part>> \o m)) = r
  <2>1. m \in Seq(Positive) /\ IsChoice(Grouped(m), part, max, r - part)
    <3>1. lower[part] \in Seq(Seq(Positive)) /\ IsChoice(Grouped(m), part, max, r - part)
      BY DEF Listed
    <3> QED BY <3>1 DEF Range
  <2>2. <<part>> \o m \in Seq(Positive) /\ Grouped(<<part>> \o m) = AddOne(Grouped(m), part)
    BY <1>1, <2>1, GroupedMore
  <2>3. /\ IsCounts(AddOne(Grouped(m), part))
        /\ DOMAIN AddOne(Grouped(m), part) = DOMAIN Grouped(m) \cup {part}
        /\ Total(AddOne(Grouped(m), part)) = Total(Grouped(m)) + part
    BY <1>1, <2>1, OneMore DEF IsChoice
  <2>4. DOMAIN Grouped(m) \cup {part} \subseteq part .. max
    BY <1>1, <2>1 DEF IsChoice, Positive
  <2>5. Total(Grouped(m)) + part = r
    BY <1>1, <2>1 DEF IsChoice, Positive
  <2> QED BY <2>1, <2>2, <2>3, <2>4, <2>5
<1>6. ASSUME NEW p \in next .. n, NEW a \in Range(lower[p]),
             NEW q \in next .. n, NEW b \in Range(lower[q]),
             Grouped(<<p>> \o a) = Grouped(<<q>> \o b)
      PROVE  p = q /\ a = b
  <2>1. p \in q .. max /\ q \in p .. max
    BY <1>5, <1>6
  <2>2. p = q
    BY <1>1, <2>1 DEF Positive
  <2>3. AddOne(Grouped(a), p) = AddOne(Grouped(b), p)
    BY <1>5, <1>6, <2>2
  <2>4. IsCounts(Grouped(a)) /\ IsCounts(Grouped(b)) /\ p \in Positive
    BY <1>1, <1>5 DEF IsChoice
  <2>5. Grouped(a) = Grouped(b)
    BY <2>3, <2>4, OneMoreOf
  <2> QED BY <2>2, <2>5 DEF Listed
<1>7. PICK t : t = FlattenSeq(s)
  OBVIOUS
<1>8. \A x : x \in Range(t) <=> \E part \in next .. n : \E m \in Range(lower[part]) :
                                 x = <<part>> \o m
  <2>1. \A x : x \in Range(t) <=> \E i \in DOMAIN s : x \in Range(s[i])
    BY <1>4, <1>7, Flattened
  <2>2. ASSUME NEW x \in Range(t)
        PROVE  \E part \in next .. n : \E m \in Range(lower[part]) : x = <<part>> \o m
    <3>1. PICK i \in DOMAIN s : x \in Range(s[i])
      BY <2>1
    <3>2. PICK part \in next .. n : s[i] = Prefixed(part, lower[part])
      BY <1>2
    <3>3. PICK P : P = Prefixed(part, lower[part])
      OBVIOUS
    <3>4. x \in Range(P)
      BY <3>1, <3>2, <3>3
    <3>5. \A y : y \in Range(P) => \E m \in Range(lower[part]) : y = <<part>> \o m
      <4>1. \A y : y \in Range(Prefixed(part, lower[part])) <=>
                    \E m \in Range(lower[part]) : y = <<part>> \o m
        BY ONLY <1>3, part \in next .. n
      <4> QED BY ONLY <4>1, <3>3
    <3> QED BY <3>4, <3>5
  <2>3. ASSUME NEW part \in next .. n, NEW m \in Range(lower[part])
        PROVE  <<part>> \o m \in Range(t)
    <3>1. PICK i \in DOMAIN s : s[i] = Prefixed(part, lower[part])
      BY <1>2
    <3>2. <<part>> \o m \in Range(s[i])
      BY <1>3, <3>1
    <3> QED BY <2>1, <3>2
  <2> QED BY <2>2, <2>3
<1>9. t \in Seq(Seq(Positive)) /\ Distinct(t)
  <2>1. \A i \in DOMAIN s : Distinct(s[i])
    BY <1>2, <1>3
  <2>2. ASSUME NEW i \in DOMAIN s, NEW j \in DOMAIN s, i # j,
               NEW x \in Range(s[i]), x \in Range(s[j])
        PROVE  FALSE
    <3>1. PICK p \in next .. n : p = next + i - 1 /\ s[i] = Prefixed(p, lower[p])
      BY <1>2
    <3>2. PICK q \in next .. n : q = next + j - 1 /\ s[j] = Prefixed(q, lower[q])
      BY <1>2
    <3>3. PICK a \in Range(lower[p]) : x = <<p>> \o a
      BY <1>3, <3>1
    <3>4. PICK b \in Range(lower[q]) : x = <<q>> \o b
      BY <1>3, <2>2, <3>2
    <3>5. p # q
      BY <1>2, <2>2, <3>1, <3>2
    <3> QED BY <1>6, <3>3, <3>4, <3>5
  <2>3. \A i, j \in DOMAIN s : i # j => Range(s[i]) \cap Range(s[j]) = {}
    BY <2>2
  <2>4. Distinct(FlattenSeq(s))
    <3>1. Apart(s)
      BY <2>1, <2>3 DEF Apart
    <3>2. Apart(s) => Distinct(FlattenSeq(s))
      BY <1>4, Flattened
    <3> QED BY <3>1, <3>2
  <2>5. FlattenSeq(s) \in Seq(Seq(Positive))
    BY <1>4, Flattened
  <2> QED BY <1>7, <2>4, <2>5
<1>10. ASSUME NEW l \in Range(t) PROVE IsChoice(Grouped(l), next, max, r)
  <2>1. PICK part \in next .. n : \E m \in Range(lower[part]) : l = <<part>> \o m
    BY <1>8
  <2>2. part .. max \subseteq next .. max
    BY <1>1 DEF Positive
  <2> QED BY <1>5, <2>1, <2>2 DEF IsChoice
<1>11. ASSUME NEW c, IsChoice(c, next, max, r) PROVE \E l \in Range(t) : Grouped(l) = c
  <2>1. IsCounts(c) /\ Total(c) = r /\ DOMAIN c \subseteq next .. max
    BY <1>11 DEF IsChoice
  <2>2. DOMAIN c # {} /\ DOMAIN c \subseteq Nat
    BY <2>1, TotalOf DEF Positive, IsCounts
  <2>3. PICK part \in DOMAIN c : \A k \in DOMAIN c : part <= k
    BY <2>2, Smallest
  <2>4. PICK d : IsCounts(d) /\ c = AddOne(d, part) /\ DOMAIN d \subseteq DOMAIN c
    BY <2>1, OneLess
  <2>5. part <= r /\ part \in next .. max
    BY <2>1, TotalOf
  <2>6. part \in next .. n /\ part \in Positive
    BY <2>5 DEF Least, Positive
  <2>7. Total(c) = Total(d) + part /\ Total(d) \in Nat
    BY <2>4, <2>6, OneMore
  <2>8. IsChoice(d, part, max, r - part)
    <3>1. \A k \in DOMAIN d : k \in part .. max
      BY <2>1, <2>2, <2>3, <2>4
    <3>2. Total(d) = r - part
      BY <2>1, <2>6, <2>7 DEF Positive
    <3> QED BY <2>4, <3>1, <3>2 DEF IsChoice
  <2>9. PICK m \in Range(lower[part]) : Grouped(m) = d
    BY <2>6, <2>8 DEF Listed
  <2> QED BY <1>5, <1>8, <2>4, <2>6, <2>9
<1>12. ASSUME NEW l \in Range(t), NEW m \in Range(t), Grouped(l) = Grouped(m) PROVE l = m
  <2>1. PICK p \in next .. n : \E a \in Range(lower[p]) : l = <<p>> \o a
    BY <1>8
  <2>2. PICK q \in next .. n : \E b \in Range(lower[q]) : m = <<q>> \o b
    BY <1>8
  <2>3. PICK a \in Range(lower[p]) : l = <<p>> \o a
    BY <2>1
  <2>4. PICK b \in Range(lower[q]) : m = <<q>> \o b
    BY <2>2
  <2> QED BY <1>6, <1>12, <2>3, <2>4
<1> QED BY <1>7, <1>9, <1>10, <1>11, <1>12 DEF Listed

\* The lists for r players with parts of next players or more, from the lists g.
Parted(g, r, next, max) ==
  [i \in 1 .. Least(r, max) - next + 1 |->
     Prefixed(next + i - 1, g[r - (next + i - 1)][next + i - 1])]

Cell(g, r, next, max) ==
  IF r = 0 THEN << <<>> >>
  ELSE IF next > Least(r, max) THEN <<>> ELSE FlattenSeq(Parted(g, r, next, max))

IsPartLists(count, max, g) ==
  g = [r \in 0 .. count |-> [next \in 1 .. count |-> Cell(g, r, next, max)]]

LEMMA PartedIs ==
  ASSUME NEW count \in Positive, NEW max \in Positive,
         NEW r \in 0 .. count, r # 0, NEW next \in 1 .. count, next <= Least(r, max),
         NEW i \in 1 .. Least(r, max) - next + 1
  PROVE  /\ next + i - 1 \in 1 .. count /\ next + i - 1 \in Positive
         /\ r - (next + i - 1) \in 0 .. count /\ r - (next + i - 1) < r
BY DEF Least, Positive

LEMMA PartListsExist ==
  ASSUME NEW count \in Positive, NEW max \in Positive
  PROVE  \E g : IsPartLists(count, max, g)
<1> DEFINE D == 0 .. count
           N == 1 .. count
           V == [N -> Seq(Seq(Positive))]
           F == [g \in [D -> V] |-> [r \in D |-> [next \in N |-> Cell(g, r, next, max)]]]
           rank == [r \in D |-> r]
<1>1. rank \in [D -> Nat]
  BY DEF Positive
<1>2. V # {}
  <2>1. <<>> \in Seq(Seq(Positive))
    OBVIOUS
  <2>2. [next \in N |-> <<>>] \in V
    BY <2>1
  <2> QED BY <2>2
<1>3. ASSUME NEW g \in [D -> V], NEW r \in D, NEW next \in N
      PROVE  Cell(g, r, next, max) \in Seq(Seq(Positive))
  <2>1. CASE r = 0
    <3>1. << <<>> >> \in Seq(Seq(Positive))
      BY NothingLeft DEF Listed
    <3> QED BY <2>1, <3>1 DEF Cell
  <2>2. CASE r # 0 /\ next > Least(r, max)
    <3>1. <<>> \in Seq(Seq(Positive))
      OBVIOUS
    <3> QED BY <2>2, <3>1 DEF Cell
  <2>3. CASE r # 0 /\ ~ (next > Least(r, max))
    <3>1. PICK s : s = Parted(g, r, next, max)
      OBVIOUS
    <3>2. next <= Least(r, max) /\ Least(r, max) - next + 1 \in Nat
      BY <2>3 DEF Least, Positive
    <3>3. ASSUME NEW i \in 1 .. Least(r, max) - next + 1
          PROVE  s[i] \in Seq(Seq(Positive))
      <4>1. PICK part \in Positive : part = next + i - 1 /\ part \in N /\ r - part \in D
        BY <2>3, <3>2, PartedIs
      <4>2. PICK k \in Seq(Seq(Positive)) : k = g[r - part][part]
        BY <4>1
      <4>3. s[i] = Prefixed(part, k)
        BY <3>1, <4>1, <4>2 DEF Parted
      <4> QED BY <4>3, PrefixedIs
    <3>4. s = [i \in 1 .. Least(r, max) - next + 1 |-> s[i]]
      BY <3>1 DEF Parted
    <3>5. s \in Seq(Seq(Seq(Positive)))
      <4>1. PICK k \in Nat : k = Least(r, max) - next + 1
        BY <3>2
      <4>2. s = [i \in 1 .. k |-> s[i]] /\ \A i \in 1 .. k : s[i] \in Seq(Seq(Positive))
        BY <3>3, <3>4, <4>1
      <4> QED BY <4>1, <4>2, FunctionIsSeq
    <3>6. FlattenSeq(s) \in Seq(Seq(Positive))
      BY <3>5, Flattened
    <3> QED BY <2>3, <3>1, <3>6 DEF Cell
  <2> QED BY <2>1, <2>2, <2>3
<1>4. F \in [[D -> V] -> [D -> V]]
  <2>1. ASSUME NEW g \in [D -> V], NEW r \in D
        PROVE  [next \in N |-> Cell(g, r, next, max)] \in V
    BY <1>3
  <2> HIDE DEF V, D, N
  <2> QED BY <2>1
<1>5. LooksBack(D, V, rank, F)
  <2> SUFFICES ASSUME NEW g \in [D -> V], NEW h \in [D -> V], NEW r \in D,
                      \A q \in D : rank[q] < rank[r] => g[q] = h[q]
               PROVE  F[g][r] = F[h][r]
    BY DEF LooksBack
  <2>1. ASSUME NEW next \in N PROVE Cell(g, r, next, max) = Cell(h, r, next, max)
    <3>1. CASE r = 0 \/ next > Least(r, max)
      BY <3>1 DEF Cell
    <3>2. CASE r # 0 /\ ~ (next > Least(r, max))
      <4>1. next <= Least(r, max)
        BY <3>2 DEF Least, Positive
      <4>2. ASSUME NEW i \in 1 .. Least(r, max) - next + 1
            PROVE  g[r - (next + i - 1)] = h[r - (next + i - 1)]
        BY <3>2, <4>1, PartedIs
      <4>3. Parted(g, r, next, max) = Parted(h, r, next, max)
        BY <4>2 DEF Parted
      <4> QED BY <4>3 DEF Cell
    <3> QED BY <3>1, <3>2
  <2>2. [next \in N |-> Cell(g, r, next, max)] = [next \in N |-> Cell(h, r, next, max)]
    BY <2>1
  <2> HIDE DEF D, V, N
  <2> QED BY <2>2
<1>6. HasFunction(D, V, F)
  <2> HIDE DEF D, V, F, rank
  <2> QED BY <1>1, <1>2, <1>4, <1>5, Recursion
<1>7. PICK g \in [D -> V] : g = F[g]
  BY <1>6 DEF HasFunction
<1>8. IsPartLists(count, max, g)
  BY <1>7 DEF IsPartLists
<1> QED BY <1>8

\* The stack of MakeCombination finishes a list for every choice and no list twice.
LEMMA PartListsListed ==
  ASSUME NEW count \in Positive, NEW max \in Positive
  PROVE  Listed(PartLists(count, max), 1, max, count)
<1> DEFINE Is(g) == IsPartLists(count, max, g)
           lists == CHOOSE g : Is(g)
<1>1. IsPartLists(count, max, lists)
  <2>1. \E g : Is(g)
    BY PartListsExist
  <2> HIDE DEF Is
  <2>2. Is(lists)
    BY <2>1
  <2> QED BY <2>2 DEF Is
<1>2. PartLists(count, max) = lists[count][1]
  BY DEF PartLists, IsPartLists, Cell, Parted
<1> HIDE DEF lists
<1>3. ASSUME NEW r \in 0 .. count, NEW next \in 1 .. count
      PROVE  lists[r][next] = Cell(lists, r, next, max)
  <2>1. lists[r] = [n \in 1 .. count |-> Cell(lists, r, n, max)]
    BY <1>1, Zenon DEF IsPartLists
  <2> QED BY <2>1, Zenon
<1> DEFINE Good(r) == \A next \in 1 .. count : Listed(lists[r][next], next, max, r)
           Bad == {r \in 0 .. count : ~ Good(r)}
<1>4. \A r \in 0 .. count : Good(r)
  <2> SUFFICES ASSUME Bad # {} PROVE FALSE
    OBVIOUS
  <2>1. PICK r \in Bad : \A k \in Bad : r <= k
    <3>1. Bad \subseteq Nat
      BY DEF Positive
    <3> HIDE DEF Bad
    <3> QED BY <3>1, Smallest
  <2>2. r \in 0 .. count /\ ~ Good(r)
    <3> HIDE DEF Good
    <3> QED OBVIOUS
  <2>3. PICK next \in 1 .. count : ~ Listed(lists[r][next], next, max, r)
    BY <2>2
  <2>4. \A q \in 0 .. count : q < r => Good(q)
    <3>1. \A q \in 0 .. count : q < r => q \notin Bad
      <4>1. r \in Int /\ count \in Int
        BY <2>2 DEF Positive
      <4> HIDE DEF Bad
      <4> QED BY <2>1, <4>1
    <3> HIDE DEF Good
    <3> QED BY <3>1
  <2>5. next \in Positive /\ r \in Nat
    BY <2>2 DEF Positive
  <2> HIDE DEF Bad
  <2>6. CASE r = 0
    BY <1>3, <2>2, <2>3, <2>5, <2>6, NothingLeft DEF Cell
  <2>7. CASE r # 0 /\ next > Least(r, max)
    <3>1. r \in Positive /\ lists[r][next] = <<>>
      BY <1>3, <2>2, <2>5, <2>7 DEF Cell, Positive
    <3> QED BY <2>3, <2>5, <2>7, <3>1, NoRoom
  <2>8. CASE r # 0 /\ ~ (next > Least(r, max))
    <3>1. PICK n : n = Least(r, max)
      OBVIOUS
    <3>2. n \in Positive /\ next <= n /\ r \in Positive /\ n <= count
      BY <2>2, <2>5, <2>8, <3>1 DEF Least, Positive
    <3>3. PICK lower : lower = [part \in next .. n |-> lists[r - part][part]]
      OBVIOUS
    <3>4. ASSUME NEW part \in next .. n PROVE Listed(lower[part], part, max, r - part)
      <4>1. part \in 1 .. count /\ r - part \in 0 .. count /\ r - part < r
        BY <2>2, <2>5, <3>1, <3>2 DEF Least, Positive
      <4> QED BY <2>4, <3>3, <4>1
    <3>5. PICK s : s = Parted(lists, r, next, max)
      OBVIOUS
    <3>6. s = [i \in 1 .. n - next + 1 |-> Prefixed(next + i - 1, lower[next + i - 1])]
      <4>1. \A i \in 1 .. n - next + 1 : next + i - 1 \in next .. n
        BY <2>5, <3>2 DEF Positive
      <4>2. \A i \in 1 .. n - next + 1 :
              lower[next + i - 1] = lists[r - (next + i - 1)][next + i - 1]
        BY <3>3, <4>1
      <4> QED BY <3>1, <3>5, <4>2 DEF Parted
    <3>7. Listed(FlattenSeq(s), next, max, r)
      BY <2>5, <3>1, <3>2, <3>4, <3>6, Extended
    <3>8. lists[r][next] = FlattenSeq(s)
      BY <1>3, <2>2, <2>8, <3>5 DEF Cell
    <3> QED BY <2>3, <3>7, <3>8
  <2> QED BY <2>6, <2>7, <2>8
<1>5. count \in 0 .. count /\ 1 \in 1 .. count
  BY DEF Positive
<1> QED BY <1>2, <1>4, <1>5

-----------------------------------------------------------------------------
(* The rule has every combination.                                         *)

LEMMA DistinctLength ==
  ASSUME NEW X, NEW s \in Seq(X), Distinct(s)
  PROVE  Len(s) = Cardinality(Range(s))
<1>1. PICK n \in Nat : n = Len(s) /\ DOMAIN s = 1 .. n /\ s = [i \in 1 .. n |-> s[i]]
  OBVIOUS
<1>2. \A x : x \in Range(s) <=> \E i \in 1 .. n : s[i] = x
  BY <1>1 DEF Range
<1>3. s \in [1 .. n -> Range(s)]
  BY <1>1, <1>2
<1>4. s \in Bijection(1 .. n, Range(s))
  BY <1>1, <1>2, <1>3 DEF Bijection, Injection, Surjection, IsInjective, Distinct
<1>5. ExistsBijection(1 .. n, Range(s))
  BY <1>4 DEF ExistsBijection
<1>6. Cardinality(Range(s)) = n
  BY <1>5, FS_CountingElements
<1> QED BY <1>1, <1>6

LEMMA AtMostTimes ==
  ASSUME NEW k \in Positive, NEW m \in Nat
  PROVE  m <= k * m /\ k * m \in Nat
<1>1. PICK j \in Nat : k = j + 1
  <2>1. k - 1 \in Nat /\ k = (k - 1) + 1
    BY DEF Positive
  <2> QED BY <2>1
<1>2. j * m \in Nat /\ (j + 1) * m = j * m + m
  OBVIOUS
<1> QED BY <1>1, <1>2

\* No size is there more often than there are players.
LEMMA CountAtMostTotal ==
  ASSUME NEW c, IsCounts(c), NEW n \in DOMAIN c
  PROVE  c[n] \in Positive /\ c[n] <= Total(c)
<1> DEFINE w == PlayersOfSize(c)
           S == DOMAIN c
<1>1. w \in [S -> Nat] /\ Total(c) = SumOf(w, S) /\ IsFiniteSet(S)
  BY TotalIs DEF IsCounts
<1>2. n \in Positive /\ c[n] \in Positive /\ w[n] = n * c[n]
  BY DEF IsCounts, PlayersOfSize
<1>3. SumOf(w, S) = w[n] + SumOf(w, S \ {n}) /\ SumOf(w, S \ {n}) \in Nat
  <2>1. S \ {n} \in SUBSET S /\ IsFiniteSet(S \ {n})
    BY <1>1, FS_RemoveElement
  <2> HIDE DEF w
  <2>2. SumOf(w, S) = w[n] + SumOf(w, S \ {n})
    BY <1>1, SumRemove
  <2>3. SumOf(w, S \ {n}) \in Nat
    <3> HIDE DEF S
    <3> QED BY <1>1, <2>1, SumSame
  <2> QED BY <2>2, <2>3
<1>4. c[n] <= w[n] /\ w[n] \in Nat /\ c[n] \in Nat
  BY <1>2, AtMostTimes DEF Positive
<1> HIDE DEF w, S
<1> QED BY <1>1, <1>2, <1>3, <1>4

LEMMA FullCountsAre ==
  ASSUME NEW n \in Positive, NEW max \in Positive
  PROVE  \A c : c \in FullCounts(n, max) <=> IsChoice(c, 1, max, n)
<1>1. Least(n, max) \in Nat /\ Least(n, max) <= max /\ n \in Nat /\ n > 0
  BY DEF Least, Positive
<1>2. ASSUME NEW c \in FullCounts(n, max) PROVE IsChoice(c, 1, max, n)
  <2>1. PICK sizes \in SUBSET (1 .. Least(n, max)) : c \in [sizes -> 1 .. n] /\ Total(c) = n
    BY <1>2 DEF FullCounts, PartyCounts
  <2>2. DOMAIN c = sizes /\ sizes \subseteq 1 .. max /\ sizes \subseteq Positive
    BY <1>1, <2>1 DEF Positive
  <2>3. IsFiniteSet(sizes)
    <3>1. IsFiniteSet(1 .. Least(n, max))
      BY <1>1, FS_Interval
    <3> QED BY <3>1, FS_Subset
  <2>4. c \in [sizes -> Positive]
    BY <1>1, <2>1 DEF Positive
  <2> QED BY <2>1, <2>2, <2>3, <2>4 DEF IsChoice, IsCounts
<1>3. ASSUME NEW c, IsChoice(c, 1, max, n) PROVE c \in FullCounts(n, max)
  <2>1. IsCounts(c) /\ Total(c) = n /\ DOMAIN c \subseteq 1 .. max
    BY <1>3 DEF IsChoice
  <2>2. ASSUME NEW k \in DOMAIN c PROVE k \in 1 .. Least(n, max) /\ c[k] \in 1 .. n
    <3>1. k \in 1 .. max /\ k <= n
      BY <2>1, TotalOf
    <3>2. c[k] \in Positive /\ c[k] <= n
      BY <2>1, CountAtMostTotal
    <3> QED BY <1>1, <3>1, <3>2 DEF Least, Positive
  <2>3. c = [k \in DOMAIN c |-> c[k]] /\ DOMAIN c \in SUBSET (1 .. Least(n, max))
    BY <2>1, <2>2 DEF IsCounts
  <2>4. c \in [DOMAIN c -> 1 .. n]
    BY <2>2, <2>3
  <2>5. c \in PartyCounts(n, max)
    BY <2>3, <2>4 DEF PartyCounts
  <2> QED BY <1>1, <2>1, <2>5 DEF FullCounts
<1> QED BY <1>2, <1>3

\* Every number of players can be made of parties of one.
LEMMA Singles ==
  ASSUME NEW m \in Nat
  PROVE  \E d : IsCounts(d) /\ DOMAIN d \subseteq {1} /\ Total(d) = m
<1>1. CASE m = 0
  <2>1. IsChoice(Grouped(<<>>), 1, 1, 0)
    <3>1. Listed(<< <<>> >>, 1, 1, 0)
      BY NothingLeft DEF Positive
    <3>2. <<>> \in Range(<< <<>> >>)
      BY DEF Range
    <3> QED BY <3>1, <3>2 DEF Listed
  <2>2. 1 .. 1 = {1}
    OBVIOUS
  <2> QED BY <1>1, <2>1, <2>2 DEF IsChoice
<1>2. CASE m # 0
  <2>1. PICK d : d = [k \in {1} |-> m]
    OBVIOUS
  <2>2. IsCounts(d) /\ DOMAIN d = {1} /\ d[1] = m
    <3>1. IsFiniteSet({1})
      BY FS_Singleton
    <3> QED BY <1>2, <2>1, <3>1 DEF IsCounts, Positive
  <2>3. PICK w : w = PlayersOfSize(d)
    OBVIOUS
  <2>4. w \in [{1} -> Nat] /\ Total(d) = SumOf(w, {1}) /\ w[1] = m
    BY <2>2, <2>3, TotalIs DEF PlayersOfSize
  <2>5. PICK S : S = {1}
    OBVIOUS
  <2>6. IsFiniteSet(S) /\ 1 \in S /\ S \ {1} = {} /\ w \in [S -> Nat]
    BY <2>4, <2>5, FS_Singleton
  <2>7. SumOf(w, S) = w[1] + SumOf(w, S \ {1})
    BY <2>6, SumRemove
  <2>8. SumOf(w, {}) = 0
    BY <2>4, SumEmpty
  <2> QED BY <2>2, <2>4, <2>5, <2>6, <2>7, <2>8
<1> QED BY <1>1, <1>2

\* A party that has room in a match can be in one.
LEMMA HasChoice ==
  ASSUME NEW n \in Positive, NEW max \in Positive, NEW size \in 1 .. Least(n, max)
  PROVE  \E c : IsChoice(c, 1, max, n) /\ size \in DOMAIN c
<1>1. size \in Positive /\ size <= n /\ size <= max /\ n - size \in Nat /\ 1 <= max
  BY DEF Least, Positive
<1>2. PICK d : IsCounts(d) /\ DOMAIN d \subseteq {1} /\ Total(d) = n - size
  BY <1>1, Singles
<1>3. /\ IsCounts(AddOne(d, size)) /\ DOMAIN AddOne(d, size) = DOMAIN d \cup {size}
      /\ Total(AddOne(d, size)) = (n - size) + size
  BY <1>1, <1>2, OneMore
<1>4. (n - size) + size = n
  BY <1>1 DEF Positive
<1>5. DOMAIN AddOne(d, size) \subseteq 1 .. max
  BY <1>1, <1>2, <1>3 DEF Positive
<1> QED BY <1>3, <1>4, <1>5 DEF IsChoice

\* The lists of the rule for each size.
RuleLists(n, max) == [i \in DOMAIN PartLists(n, max) |-> Grouped(PartLists(n, max)[i])]

OfSize(all, size) == [i \in DOMAIN all |-> IF size \in DOMAIN all[i] THEN <<all[i]>> ELSE <<>>]

LEMMA RuleListsAre ==
  ASSUME NEW n \in Positive, NEW max \in Positive
  PROVE  /\ RuleLists(n, max) \in Seq(FullCounts(n, max))
         /\ Distinct(RuleLists(n, max))
         /\ Range(RuleLists(n, max)) = FullCounts(n, max)
<1>1. PICK lists : lists = PartLists(n, max)
  OBVIOUS
<1>2. Listed(lists, 1, max, n)
  BY <1>1, PartListsListed
<1>3. PICK k \in Nat : k = Len(lists) /\ DOMAIN lists = 1 .. k
  BY <1>2 DEF Listed
<1>4. PICK all : all = RuleLists(n, max)
  OBVIOUS
<1>5. /\ all = [i \in 1 .. k |-> Grouped(lists[i])] /\ DOMAIN all = 1 .. k
      /\ \A i \in 1 .. k : all[i] = Grouped(lists[i]) /\ lists[i] \in Range(lists)
  BY <1>1, <1>3, <1>4 DEF RuleLists, Range
<1>6. \A i \in 1 .. k : all[i] \in FullCounts(n, max)
  BY <1>2, <1>5, FullCountsAre DEF Listed
<1>7. all \in Seq(FullCounts(n, max))
  BY <1>5, <1>6, FunctionIsSeq
<1>8. Distinct(all)
  <2>1. ASSUME NEW i \in 1 .. k, NEW j \in 1 .. k, all[i] = all[j] PROVE i = j
    <3>1. lists[i] = lists[j]
      BY <1>2, <1>5, <2>1 DEF Listed
    <3> QED BY <1>2, <1>3, <3>1 DEF Listed, Distinct
  <2> QED BY <1>5, <2>1 DEF Distinct
<1>9. ASSUME NEW c \in FullCounts(n, max) PROVE c \in Range(all)
  <2>1. PICK l \in Range(lists) : Grouped(l) = c
    BY <1>2, FullCountsAre DEF Listed
  <2>2. PICK i \in 1 .. k : l = lists[i]
    BY <1>3 DEF Range
  <2> QED BY <1>5, <2>1, <2>2 DEF Range
<1>10. Range(all) \subseteq FullCounts(n, max)
  BY <1>5, <1>6 DEF Range
<1> QED BY <1>4, <1>7, <1>8, <1>9, <1>10

LEMMA OfSizeIs ==
  ASSUME NEW X, NEW all \in Seq(X), Distinct(all), NEW size
  PROVE  /\ FlattenSeq(OfSize(all, size)) \in Seq(X)
         /\ Distinct(FlattenSeq(OfSize(all, size)))
         /\ Range(FlattenSeq(OfSize(all, size))) = {c \in Range(all) : size \in DOMAIN c}
<1>1. PICK k \in Nat : k = Len(all) /\ DOMAIN all = 1 .. k /\ \A i \in 1 .. k : all[i] \in X
  OBVIOUS
<1>2. PICK s : s = OfSize(all, size)
  OBVIOUS
<1>3. ASSUME NEW i \in 1 .. k
      PROVE  /\ s[i] \in Seq(X) /\ Distinct(s[i])
             /\ Range(s[i]) = IF size \in DOMAIN all[i] THEN {all[i]} ELSE {}
  <2>1. s[i] = IF size \in DOMAIN all[i] THEN <<all[i]>> ELSE <<>>
    BY <1>1, <1>2 DEF OfSize
  <2>2. PICK x \in X : x = all[i]
    BY <1>1
  <2>3. <<x>> \in Seq(X) /\ Range(<<x>>) = {x} /\ Distinct(<<x>>)
    BY DEF Range, Distinct
  <2>4. <<>> \in Seq(X) /\ Range(<<>>) = {} /\ Distinct(<<>>)
    BY DEF Range, Distinct
  <2> QED BY <2>1, <2>2, <2>3, <2>4
<1>4. s \in Seq(Seq(X)) /\ DOMAIN s = 1 .. k
  <2>1. DOMAIN s = 1 .. k /\ s = [i \in 1 .. k |-> s[i]]
    BY <1>1, <1>2 DEF OfSize
  <2> QED BY <1>3, <2>1, FunctionIsSeq
<1>5. Apart(s)
  <2>1. ASSUME NEW i \in 1 .. k, NEW j \in 1 .. k, i # j PROVE Range(s[i]) \cap Range(s[j]) = {}
    <3>1. all[i] # all[j]
      BY <1>1, <2>1 DEF Distinct
    <3> QED BY <1>3, <3>1
  <2> QED BY <1>3, <1>4, <2>1 DEF Apart
<1>6. PICK t : t = FlattenSeq(s)
  OBVIOUS
<1>7. t \in Seq(X) /\ \A x : x \in Range(t) <=> \E i \in DOMAIN s : x \in Range(s[i])
  BY <1>4, <1>6, Flattened
<1>8. Distinct(t)
  <2>1. Apart(s) => Distinct(FlattenSeq(s))
    BY <1>4, Flattened
  <2> QED BY <1>5, <1>6, <2>1
<1>9. Range(t) = {c \in Range(all) : size \in DOMAIN c}
  <2>1. ASSUME NEW x \in Range(t) PROVE x \in Range(all) /\ size \in DOMAIN x
    <3>1. PICK i \in 1 .. k : x \in Range(s[i])
      BY <1>4, <1>7
    <3>2. x = all[i] /\ size \in DOMAIN all[i]
      BY <1>3, <3>1
    <3> QED BY <1>1, <3>2 DEF Range
  <2>2. ASSUME NEW x \in Range(all), size \in DOMAIN x PROVE x \in Range(t)
    <3>1. PICK i \in 1 .. k : x = all[i]
      BY <1>1 DEF Range
    <3>2. x \in Range(s[i])
      BY <1>3, <2>2, <3>1
    <3> QED BY <1>4, <1>7, <3>2
  <2> QED BY <2>1, <2>2
<1> QED BY <1>2, <1>6, <1>7, <1>8, <1>9

LEMMA PositiveRule ==
  ASSUME NEW n \in Positive, NEW max \in Positive, NEW size
  PROVE  HasSizes(n, max) /\ HasCounts(n, max, size)
<1>1. PICK all : all = RuleLists(n, max)
  OBVIOUS
<1>2. /\ all \in Seq(FullCounts(n, max)) /\ Distinct(all)
      /\ Range(all) = FullCounts(n, max)
  BY <1>1, RuleListsAre
<1>3. PICK rule : rule = MakeCombination(n, max)
  OBVIOUS
<1>4. rule = [k \in UNION {DOMAIN all[i] : i \in DOMAIN all} |-> FlattenSeq(OfSize(all, k))]
  <2>1. ~ (n <= 0 \/ max <= 0)
    BY DEF Positive
  <2> QED BY <1>1, <1>3, <2>1 DEF MakeCombination, RuleLists, OfSize
<1>5. \A k : k \in DOMAIN rule <=> \E c \in FullCounts(n, max) : k \in DOMAIN c
  <2>1. \A k : k \in DOMAIN rule <=> \E i \in DOMAIN all : k \in DOMAIN all[i]
    BY <1>4
  <2>2. \A c : c \in FullCounts(n, max) <=> \E i \in DOMAIN all : all[i] = c
    BY <1>2 DEF Range
  <2> QED BY <2>1, <2>2
<1>6. DOMAIN rule = 1 .. Least(n, max)
  <2>1. ASSUME NEW k \in DOMAIN rule PROVE k \in 1 .. Least(n, max)
    <3>1. PICK c \in FullCounts(n, max) : k \in DOMAIN c
      BY <1>5
    <3> QED BY <3>1 DEF FullCounts, PartyCounts
  <2>2. ASSUME NEW k \in 1 .. Least(n, max) PROVE k \in DOMAIN rule
    BY <1>5, FullCountsAre, HasChoice
  <2> QED BY <2>1, <2>2
<1>7. PICK list : list = GetCombination(rule, size)
  OBVIOUS
<1>8. CASE size \in DOMAIN rule
  <2>1. list = FlattenSeq(OfSize(all, size))
    BY <1>4, <1>7, <1>8 DEF GetCombination
  <2>2. /\ list \in Seq(FullCounts(n, max)) /\ Distinct(list)
        /\ Range(list) = {c \in FullCounts(n, max) : size \in DOMAIN c}
    BY <1>2, <2>1, OfSizeIs
  <2>3. Len(list) = Cardinality(Range(list))
    BY <2>2, DistinctLength
  <2> QED BY <1>3, <1>6, <1>7, <2>2, <2>3 DEF HasSizes, HasCounts
<1>9. CASE size \notin DOMAIN rule
  <2>1. list = <<>>
    BY <1>7, <1>9 DEF GetCombination
  <2>2. Range(list) = {} /\ Len(list) = 0
    BY <2>1 DEF Range
  <2>3. {c \in FullCounts(n, max) : size \in DOMAIN c} = {}
    BY <1>5, <1>9
  <2>4. Cardinality({}) = 0
    BY FS_EmptySet
  <2> QED BY <1>3, <1>6, <1>7, <2>2, <2>3, <2>4 DEF HasSizes, HasCounts
<1> QED BY <1>8, <1>9

\* For every number of players of a match, every largest party and every size, the
\* rule has exactly the choices of parties that fill the match and have the size,
\* each once; a rule without room has none.
THEOREM RuleIsComplete ==
  \A n \in Int, max \in Int, size \in Int : HasSizes(n, max) /\ HasCounts(n, max, size)
<1> SUFFICES ASSUME NEW n \in Int, NEW max \in Int, NEW size \in Int
             PROVE  HasSizes(n, max) /\ HasCounts(n, max, size)
  OBVIOUS
<1>1. CASE n > 0 /\ max > 0
  <2>1. n \in Positive /\ max \in Positive
    BY <1>1 DEF Positive
  <2> QED BY <2>1, PositiveRule
<1>2. CASE ~ (n > 0 /\ max > 0)
  <2>1. MakeCombination(n, max) = <<>>
    BY <1>2 DEF MakeCombination
  <2>2. GetCombination(<<>>, size) = <<>> /\ Range(<<>>) = {} /\ Len(<<>>) = 0
    BY DEF GetCombination, Range
  <2>3. 1 .. Least(n, max) = {}
    BY <1>2 DEF Least
  <2>4. {c \in FullCounts(n, max) : size \in DOMAIN c} = {}
    BY <2>3 DEF FullCounts, PartyCounts
  <2>5. Cardinality({}) = 0
    BY FS_EmptySet
  <2>6. DOMAIN <<>> = {}
    OBVIOUS
  <2> QED BY <2>1, <2>2, <2>3, <2>4, <2>5, <2>6 DEF HasSizes, HasCounts
<1> QED BY <1>1, <1>2

\* The rules a run tries are complete, since every rule is.
THEOREM TriedRulesAreComplete == CombinationsAreAll
BY RuleIsComplete DEF CombinationsAreAll, CompleteRules, MaxMatch, MaxParty

-----------------------------------------------------------------------------
(* The oldest tickets of a set.                                            *)

\* k members of S, and every member of S that is older than one of them.
AreOldest(S, k, O) ==
  /\ O \subseteq S /\ Cardinality(O) = k
  /\ \A t \in O, u \in S : u < t => u \in O

LEMMA OldestOf ==
  ASSUME NEW S, S \subseteq Nat, IsFiniteSet(S), NEW k \in Nat, k <= Cardinality(S)
  PROVE  \E O : AreOldest(S, k, O)
<1> DEFINE Bad == {j \in 0 .. k : \A O : ~ AreOldest(S, j, O)}
<1> SUFFICES ASSUME Bad # {} PROVE FALSE
  <2>1. k \notin Bad => \E O : AreOldest(S, k, O)
    OBVIOUS
  <2> HIDE DEF Bad
  <2> QED BY <2>1
<1>1. PICK j \in Bad : \A i \in Bad : j <= i
  <2>1. Bad \subseteq Nat
    OBVIOUS
  <2> HIDE DEF Bad
  <2> QED BY <2>1, Smallest
<1>2. j \in 0 .. k /\ \A O : ~ AreOldest(S, j, O)
  OBVIOUS
<1>3. j # 0
  <2>1. AreOldest(S, 0, {})
    BY FS_EmptySet DEF AreOldest
  <2> QED BY <1>2, <2>1
<1>4. PICK i : i = j - 1
  OBVIOUS
<1>5. i \in 0 .. k /\ i \notin Bad /\ i + 1 = j /\ i < k
  <2>1. i \in 0 .. k /\ i + 1 = j /\ i < k /\ ~ (j <= i)
    BY <1>2, <1>3, <1>4
  <2> HIDE DEF Bad
  <2> QED BY <1>1, <2>1
<1>6. PICK O : AreOldest(S, i, O)
  BY <1>5
<1>7. O \subseteq S /\ Cardinality(O) = i /\ IsFiniteSet(O)
  BY <1>6, FS_Subset DEF AreOldest
<1>8. S \ O # {} /\ IsFiniteSet(S \ O) /\ S \ O \subseteq Nat
  <2>1. S # O
    BY <1>5, <1>7
  <2> QED BY <1>7, <2>1, FS_Subset
<1>9. PICK x \in S \ O : \A y \in S \ O : x <= y
  BY <1>8, FirstOf
<1>10. Cardinality(O \cup {x}) = j
  BY <1>5, <1>7, <1>9, FS_AddElement
<1>11. ASSUME NEW t \in O \cup {x}, NEW u \in S, u < t PROVE u \in O \cup {x}
  <2>1. CASE t \in O
    BY <1>6, <1>11, <2>1 DEF AreOldest
  <2>2. CASE t = x
    <3>1. u \in Nat /\ x \in Nat /\ ~ (x <= u)
      BY <1>8, <1>11, <2>2
    <3> QED BY <1>9, <3>1
  <2> QED BY <2>1, <2>2
<1>12. AreOldest(S, j, O \cup {x})
  BY <1>7, <1>10, <1>11 DEF AreOldest
<1> QED BY <1>2, <1>12

=============================================================================
