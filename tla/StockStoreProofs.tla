-------------------------- MODULE StockStoreProofs ---------------------------
(***************************************************************************)
(* Theorems about the search tree of StockStore, for trees of every size,  *)
(* files and logs of every length and every range of ints.  A function     *)
(* that follows links is defined at all because links lead to higher       *)
(* addresses; what it finds is told by the path an id takes from the root. *)
(***************************************************************************)
EXTENDS StockStore, FiniteSetTheorems, WellFoundedInduction, SequenceTheorems, TLAPS

\* Least and greatest elements: they stand in for induction in what follows.
LEMMA Smallest ==
  ASSUME NEW T \in SUBSET Nat, T # {}
  PROVE  \E m \in T : \A x \in T : m <= x
<1> DEFINE R == OpToRel(<, Nat)
<1>1. IsWellFoundedOn(R, Nat)
  BY NatLessThanWellFounded
<1>2. \A y, z \in Nat : z < y => <<z, y>> \in R
  BY DEF OpToRel
<1> HIDE DEF R
<1>3. PICK y \in T : \A z \in T : ~(<<z, y>> \in R)
  BY <1>1, WFMin
<1>4. \A z \in T : ~(z < y)
  BY <1>2, <1>3, Zenon
<1> QED BY <1>4

LEMMA Largest ==
  ASSUME NEW k \in Nat, NEW T \in SUBSET (1 .. k), T # {}
  PROVE  \E m \in T : \A x \in T : x <= m
<1> DEFINE U == {u \in Nat : \E x \in T : u = k - x}
<1>1. PICK x \in T : TRUE
  OBVIOUS
<1>2. \A z \in T : k - z \in U /\ z \in Int
  OBVIOUS
<1>3. U \in SUBSET Nat /\ U # {}
  BY <1>1, <1>2
<1>4. PICK u \in U : \A v \in U : u <= v
  <2> HIDE DEF U
  <2> QED BY <1>3, Smallest
<1>5. PICK m \in T : u = k - m
  OBVIOUS
<1>6. \A z \in T : u <= k - z
  BY <1>4, <1>2
<1> QED BY <1>5, <1>6, <1>2

\* f is what a loop computes that goes from n to h[n] until it stops with val[n].
Loops(f, D, h, stop, val) ==
  f = [n \in D |-> IF stop[n] THEN val[n] ELSE f[h[n]]]

\* A loop that goes from n to h[n] until it stops has a value everywhere, also
\* where it never stops.
LEMMA Loop ==
  ASSUME NEW D, NEW h \in [D -> D], NEW stop \in [D -> BOOLEAN], NEW val
  PROVE  \E f : Loops(f, D, h, stop, val)
<1> DEFINE Goes(U) == \A x \in U : ~stop[x] => h[x] \in U
           Orbit(n) == {m \in D : \A U \in SUBSET D : n \in U /\ Goes(U) => m \in U}
           Stops(n) == {m \in Orbit(n) : stop[m]}
           f == [n \in D |-> CHOOSE v : \E m \in Stops(n) : v = val[m]]
<1>1. \A n \in D : n \in Orbit(n) /\ Goes(Orbit(n))
  OBVIOUS
<1>2. ASSUME NEW n \in D, stop[n] PROVE Stops(n) = {n}
  <2>1. {n} \in SUBSET D /\ Goes({n})
    BY <1>2
  <2>2. Orbit(n) \subseteq {n}
    BY <2>1
  <2> QED BY <1>1, <1>2, <2>2
<1>3. ASSUME NEW n \in D, ~stop[n] PROVE Stops(n) = Stops(h[n])
  <2>1. h[n] \in D /\ h[n] \in Orbit(n)
    BY <1>1, <1>3
  <2>2. Orbit(h[n]) \subseteq Orbit(n)
    <3>1. Orbit(n) \in SUBSET D /\ Goes(Orbit(n))
      BY <1>1
    <3> QED BY <2>1, <3>1
  <2>3. Orbit(n) \subseteq {n} \cup Orbit(h[n])
    <3> DEFINE V == {n} \cup Orbit(h[n])
    <3>1. V \in SUBSET D /\ n \in V
      OBVIOUS
    <3>2. h[n] \in Orbit(h[n]) /\ Goes(Orbit(h[n]))
      BY <1>1, <2>1
    <3>3. Goes(V)
      <4> HIDE DEF Orbit
      <4> QED BY <3>2
    <3> HIDE DEF V
    <3>4. \A m \in Orbit(n) : m \in V
      BY <3>1, <3>3
    <3> QED BY <3>4 DEF V
  <2> HIDE DEF Orbit
  <2> QED BY <2>2, <2>3, <1>3
<1> HIDE DEF Stops
<1>4. \A n \in D : f[n] = IF stop[n] THEN val[n] ELSE f[h[n]]
  <2> SUFFICES ASSUME NEW n \in D PROVE f[n] = IF stop[n] THEN val[n] ELSE f[h[n]]
    OBVIOUS
  <2>1. CASE stop[n]
    BY <1>2, <2>1
  <2>2. CASE ~stop[n]
    <3>1. h[n] \in D /\ Stops(n) = Stops(h[n])
      BY <1>3, <2>2
    <3> QED BY <2>2, <3>1
  <2> QED BY <2>1, <2>2
<1>5. Loops(f, D, h, stop, val)
  <2>1. f = [n \in D |-> f[n]]
    OBVIOUS
  <2> HIDE DEF f
  <2> QED BY <1>4, <2>1 DEF Loops
<1> QED BY <1>5, Zenon
-----------------------------------------------------------------------------
\* The link of node n that a search for id i follows, NULL if it ends there.
Child(t, n, i) ==
  IF i < t[n].id THEN t[n].left ELSE IF i > t[n].id THEN t[n].right ELSE NULL

Follows(t, i, U) == \A n \in U : Child(t, n, i) # NULL => Child(t, n, i) \in U

\* The nodes on the way from the root to i, or to where i would be.
Path(t, r, i) ==
  {n \in DOMAIN t : \A U \in SUBSET DOMAIN t : r \in U /\ Follows(t, i, U) => n \in U}

\* Links lead to a node that was allocated later, and no two to the same one.
Linked(t) ==
  /\ \A n \in DOMAIN t : /\ t[n].left # NULL => t[n].left > n
                         /\ t[n].right # NULL => t[n].right > n
  /\ \A m, n \in DOMAIN t :
       /\ t[m].left # NULL => t[m].left # t[n].right
       /\ t[m].left # NULL /\ t[m].left = t[n].left => m = n
       /\ t[m].right # NULL /\ t[m].right = t[n].right => m = n

Items(A) ==
  [id : Ints, left_stock : Ints, left : A \cup {NULL}, right : A \cup {NULL}]

\* The search for the id of a node leads to the node.
Tree(t, r) ==
  /\ \E k \in Nat : DOMAIN t = 1 .. k
  /\ t \in [DOMAIN t -> Items(DOMAIN t)]
  /\ r = IF DOMAIN t = {} THEN NULL ELSE 1
  /\ Linked(t)
  /\ \A a \in DOMAIN t : a \in Path(t, r, t[a].id)

LEMMA TreeTyped ==
  ASSUME NEW t, NEW r, Tree(t, r)
  PROVE  /\ NULL \notin DOMAIN t
         /\ \A n \in DOMAIN t :
              /\ n \in Nat /\ t[n].id \in Int /\ t[n].left_stock \in Int
              /\ t[n].left \in DOMAIN t \cup {NULL}
              /\ t[n].right \in DOMAIN t \cup {NULL}
         /\ \A n \in DOMAIN t, i \in Int : Child(t, n, i) \in DOMAIN t \cup {NULL}
         /\ r # NULL <=> DOMAIN t # {}
         /\ DOMAIN t # {} => r \in DOMAIN t /\ \A n \in DOMAIN t : r <= n
<1>1. PICK k \in Nat : DOMAIN t = 1 .. k
  BY DEF Tree
<1>2. NULL \notin DOMAIN t
  BY <1>1, NullAssumption
<1>3. \A n \in DOMAIN t :
        /\ n \in Nat /\ t[n].id \in Int /\ t[n].left_stock \in Int
        /\ t[n].left \in DOMAIN t \cup {NULL} /\ t[n].right \in DOMAIN t \cup {NULL}
  <2> SUFFICES ASSUME NEW n \in DOMAIN t
               PROVE  /\ n \in Nat /\ t[n].id \in Int /\ t[n].left_stock \in Int
                      /\ t[n].left \in DOMAIN t \cup {NULL}
                      /\ t[n].right \in DOMAIN t \cup {NULL}
    OBVIOUS
  <2>1. t[n] \in Items(DOMAIN t)
    BY DEF Tree
  <2> QED BY <2>1, <1>1, MaxIntAssumption DEF Items, Ints
<1>4. r = (IF DOMAIN t = {} THEN NULL ELSE 1)
  BY DEF Tree
<1>5. DOMAIN t # {} => 1 \in DOMAIN t
  BY <1>1
<1>6. \A n \in DOMAIN t, i \in Int : Child(t, n, i) \in DOMAIN t \cup {NULL}
  BY <1>3 DEF Child
<1>7. r # NULL <=> DOMAIN t # {}
  <2>1. 1 # NULL
    BY NullAssumption
  <2> QED BY <1>4, <2>1
<1>8. DOMAIN t # {} => r \in DOMAIN t /\ \A n \in DOMAIN t : r <= n
  BY <1>1, <1>4, <1>5
<1> QED BY <1>2, <1>3, <1>6, <1>7, <1>8

\* A path starts at the root and follows links ...
LEMMA PathExtends ==
  ASSUME NEW t, NEW r \in DOMAIN t, NEW i, NULL \notin DOMAIN t
  PROVE  /\ r \in Path(t, r, i)
         /\ \A n \in Path(t, r, i) : Child(t, n, i) \in DOMAIN t
              => Child(t, n, i) \in Path(t, r, i)
<1> SUFFICES ASSUME NEW n \in Path(t, r, i), Child(t, n, i) \in DOMAIN t,
                    NEW U \in SUBSET DOMAIN t, r \in U, Follows(t, i, U)
             PROVE  Child(t, n, i) \in U
  BY DEF Path
<1>1. n \in U
  BY DEF Path
<1> QED BY <1>1 DEF Follows

LEMMA PathGoesOn ==
  ASSUME NEW t, NEW r \in DOMAIN t, NEW i, Tree(t, r)
  PROVE  /\ r \in Path(t, r, i)
         /\ \A n \in Path(t, r, i) : Child(t, n, i) \in DOMAIN t
              => Child(t, n, i) \in Path(t, r, i)
  BY TreeTyped, PathExtends

\* ... and nothing else is on it ...
LEMMA PathLeast ==
  ASSUME NEW t, NEW r, NEW i, NEW U \in SUBSET DOMAIN t, r \in U, Follows(t, i, U)
  PROVE  Path(t, r, i) \subseteq U
  BY DEF Path

\* ... so that every other node on it has one before it.
LEMMA PathParent ==
  ASSUME NEW t, NEW r, Tree(t, r), NEW i \in Int, NEW a \in Path(t, r, i), a # r
  PROVE  \E p \in Path(t, r, i) : Child(t, p, i) = a
<1> SUFFICES ASSUME \A p \in Path(t, r, i) : Child(t, p, i) # a
             PROVE  FALSE
  OBVIOUS
<1> DEFINE U == Path(t, r, i) \ {a}
<1>1. a \in DOMAIN t /\ U \in SUBSET DOMAIN t
  BY DEF Path
<1>2. r \in DOMAIN t /\ NULL \notin DOMAIN t
  BY <1>1, TreeTyped
<1>3. r \in U
  BY <1>2, PathGoesOn
<1>4. Follows(t, i, U)
  <2> SUFFICES ASSUME NEW n \in U, Child(t, n, i) # NULL PROVE Child(t, n, i) \in U
    BY DEF Follows
  <2>1. Child(t, n, i) \in DOMAIN t
    BY <1>1, TreeTyped
  <2> QED BY <2>1, <1>2, PathGoesOn
<1> QED BY <1>1, <1>3, <1>4, PathLeast

\* A path has a last node, where the search ends.
LEMMA PathEnds ==
  ASSUME NEW t, NEW r, Tree(t, r), NEW i \in Int, DOMAIN t # {}
  PROVE  \E m \in Path(t, r, i) : Child(t, m, i) = NULL
<1>1. PICK k \in Nat : DOMAIN t = 1 .. k
  BY DEF Tree
<1>2. Path(t, r, i) \in SUBSET (1 .. k) /\ r \in DOMAIN t
  BY <1>1, TreeTyped DEF Path
<1>3. Path(t, r, i) # {}
  BY <1>2, PathGoesOn
<1>4. PICK m \in Path(t, r, i) : \A x \in Path(t, r, i) : x <= m
  BY <1>1, <1>2, <1>3, Largest
<1>5. m \in DOMAIN t /\ m \in Nat
  BY <1>1, <1>2
<1>6. CASE Child(t, m, i) # NULL
  <2>1. Child(t, m, i) \in DOMAIN t
    BY <1>5, <1>6, TreeTyped
  <2>2. Child(t, m, i) \in Path(t, r, i)
    BY <1>2, <2>1, PathGoesOn
  <2>3. Child(t, m, i) > m
    BY <1>5, <1>6 DEF Child, Tree, Linked
  <2> QED BY <1>4, <2>1, <2>2, <2>3, <1>1, <1>5
<1> QED BY <1>6

\* It ends at one node only.
LEMMA PathEnd ==
  ASSUME NEW t, NEW r, Tree(t, r), NEW i \in Int,
         NEW x \in Path(t, r, i), NEW y \in Path(t, r, i),
         Child(t, x, i) = NULL, Child(t, y, i) = NULL
  PROVE  x = y
<1> DEFINE D == DOMAIN t
           stop == [n \in D |-> Child(t, n, i) = NULL]
           h == [n \in D |-> IF Child(t, n, i) = NULL THEN n ELSE Child(t, n, i)]
           val == [n \in D |-> n]
<1>1. h \in [D -> D] /\ stop \in [D -> BOOLEAN]
  BY TreeTyped
<1>2. PICK g : Loops(g, D, h, stop, val)
  <2> HIDE DEF D, stop, h, val
  <2> QED BY <1>1, Loop
<1>3. \A n \in D : g[n] = IF Child(t, n, i) = NULL THEN n ELSE g[Child(t, n, i)]
  BY <1>2 DEF Loops
<1> DEFINE U == {n \in D : g[n] = g[r]}
<1>4. x \in D /\ y \in D
  BY DEF Path
<1>5. U \in SUBSET D /\ r \in U
  BY <1>4, TreeTyped
<1>6. Follows(t, i, U)
  BY <1>3, TreeTyped DEF Follows
<1>7. x \in U /\ y \in U
  BY <1>5, <1>6, PathLeast
<1> HIDE DEF D, U
<1>8. g[x] = g[y]
  BY <1>7 DEF U
<1> QED BY <1>3, <1>4, <1>8
-----------------------------------------------------------------------------
\* What stock_store_find returns: the node with the id, if there is one.
LEMMA FindMeans ==
  ASSUME Tree(node, root), NEW i \in Int
  PROVE  /\ \A a \in Addresses : node[a].id = i => Find(i) = a
         /\ (\A a \in Addresses : node[a].id # i) => Find(i) = NULL
<1> DEFINE D == Addresses \cup {NULL}
           stop == [n \in D |-> n = NULL \/ i = node[n].id]
           h == [n \in D |-> IF n = NULL THEN NULL ELSE Child(node, n, i)]
           val == [n \in D |-> n]
           Turn(f) == f = [n \in Addresses \cup {NULL} |->
                             IF n = NULL THEN NULL
                             ELSE IF i < node[n].id THEN f[node[n].left]
                             ELSE IF i > node[n].id THEN f[node[n].right]
                             ELSE n]
<1>1. h \in [D -> D] /\ stop \in [D -> BOOLEAN]
  BY TreeTyped DEF Addresses
<1>2. PICK g : Loops(g, D, h, stop, val)
  <2> HIDE DEF D, stop, h, val
  <2> QED BY <1>1, Loop
<1>3. Turn(g)
  <2>1. \A n \in D : g[n] = IF n = NULL THEN NULL
                            ELSE IF i < node[n].id THEN g[node[n].left]
                            ELSE IF i > node[n].id THEN g[node[n].right]
                            ELSE n
    <3> SUFFICES ASSUME NEW n \in D
                 PROVE  g[n] = IF n = NULL THEN NULL
                               ELSE IF i < node[n].id THEN g[node[n].left]
                               ELSE IF i > node[n].id THEN g[node[n].right]
                               ELSE n
      OBVIOUS
    <3>1. CASE n = NULL
      BY <1>2, <3>1 DEF Loops
    <3>2. CASE n # NULL
      <4>1. node[n].id \in Int
        BY <3>2, TreeTyped DEF Addresses
      <4>2. g[n] = IF i = node[n].id THEN n ELSE g[Child(node, n, i)]
        BY <1>2, <3>2 DEF Loops
      <4> QED BY <3>2, <4>1, <4>2 DEF Child
    <3> QED BY <3>1, <3>2
  <2>2. g = [n \in D |-> g[n]]
    BY <1>2 DEF Loops
  <2> QED BY <2>1, <2>2
<1> DEFINE f == CHOOSE f : Turn(f)
<1>4. Turn(f)
  <2> HIDE DEF Turn
  <2> QED BY <1>3
<1>5. Find(i) = f[root]
  BY DEF Find
<1> HIDE DEF f
<1>6. \A n \in Addresses : f[n] = IF n # NULL /\ i = node[n].id THEN n
                                  ELSE f[Child(node, n, i)]
  <2> SUFFICES ASSUME NEW n \in Addresses
               PROVE  f[n] = IF n # NULL /\ i = node[n].id THEN n
                             ELSE f[Child(node, n, i)]
    OBVIOUS
  <2>1. n # NULL /\ node[n].id \in Int
    BY TreeTyped DEF Addresses
  <2> QED BY <1>4, <2>1 DEF Child
<1>7. f[NULL] = NULL
  BY <1>4
<1> HIDE DEF Turn
<1>8. ASSUME NEW a \in Path(node, root, i) PROVE f[a] = f[root]
  <2> DEFINE U == {n \in Addresses : f[n] = f[root]}
  <2>1. a \in Addresses
    BY DEF Path, Addresses
  <2>2. U \in SUBSET DOMAIN node /\ root \in U
    BY <2>1, TreeTyped DEF Addresses
  <2>3. Follows(node, i, U)
    <3> SUFFICES ASSUME NEW n \in U, Child(node, n, i) # NULL
                 PROVE  Child(node, n, i) \in U
      BY DEF Follows
    <3>1. Child(node, n, i) \in Addresses /\ n \in Addresses /\ node[n].id \in Int
      BY TreeTyped DEF Addresses
    <3>2. i # node[n].id
      BY <3>1 DEF Child
    <3> QED BY <1>6, <3>1, <3>2
  <2> HIDE DEF U
  <2>4. a \in U
    BY <2>2, <2>3, PathLeast
  <2> QED BY <2>4 DEF U
<1>9. ASSUME NEW a \in Addresses, node[a].id = i PROVE Find(i) = a
  <2>1. a \in Path(node, root, i)
    BY <1>9 DEF Tree, Addresses
  <2>2. a # NULL
    BY TreeTyped DEF Addresses
  <2> QED BY <1>5, <1>6, <1>8, <1>9, <2>1, <2>2
<1>10. ASSUME \A a \in Addresses : node[a].id # i PROVE Find(i) = NULL
  <2>1. CASE Addresses = {}
    BY <2>1, <1>5, <1>7, TreeTyped DEF Addresses
  <2>2. CASE Addresses # {}
    <3>1. PICK m \in Path(node, root, i) : Child(node, m, i) = NULL
      BY <2>2, PathEnds DEF Addresses
    <3>2. m \in Addresses
      BY DEF Path, Addresses
    <3> QED BY <1>5, <1>6, <1>7, <1>8, <1>10, <3>1, <3>2
  <2> QED BY <2>1, <2>2
<1> QED BY <1>9, <1>10

\* Where stock_store_upsert links the new node: at the end of its id's path.
LEMMA PlaceMeans ==
  ASSUME Tree(node, root), root # NULL, NEW i \in Int,
         \A a \in Addresses : node[a].id # i
  PROVE  \E n \in Path(node, root, i), side \in {"left", "right"} :
           /\ Place(i) = <<n, side>>
           /\ side = (IF i < node[n].id THEN "left" ELSE "right")
           /\ node[n][side] = NULL
<1> DEFINE D == Addresses
           stop == [n \in D |-> Child(node, n, i) = NULL]
           h == [n \in D |-> IF Child(node, n, i) = NULL THEN n ELSE Child(node, n, i)]
           val == [n \in D |-> <<n, IF i < node[n].id THEN "left" ELSE "right">>]
           Turn(f) == f = [n \in Addresses |->
                             LET side == IF i < node[n].id THEN "left" ELSE "right"
                             IN  IF node[n][side] = NULL THEN <<n, side>>
                                 ELSE f[node[n][side]]]
<1>1. h \in [D -> D] /\ stop \in [D -> BOOLEAN]
  BY TreeTyped DEF Addresses
<1>2. PICK g : Loops(g, D, h, stop, val)
  <2> HIDE DEF D, stop, h, val
  <2> QED BY <1>1, Loop
<1>3. \A n \in Addresses :
        Child(node, n, i) = node[n][IF i < node[n].id THEN "left" ELSE "right"]
  <2> SUFFICES ASSUME NEW n \in Addresses
      PROVE Child(node, n, i) = node[n][IF i < node[n].id THEN "left" ELSE "right"]
    OBVIOUS
  <2>1. node[n].id \in Int /\ node[n].id # i
    BY TreeTyped DEF Addresses
  <2> QED BY <2>1 DEF Child
<1>4. Turn(g)
  <2>1. \A n \in Addresses :
          g[n] = LET side == IF i < node[n].id THEN "left" ELSE "right"
                 IN  IF node[n][side] = NULL THEN <<n, side>> ELSE g[node[n][side]]
    BY <1>2, <1>3 DEF Loops
  <2>2. g = [n \in Addresses |-> g[n]]
    BY <1>2 DEF Loops
  <2> QED BY <2>1, <2>2
<1> DEFINE f == CHOOSE f : Turn(f)
<1>5. Turn(f)
  <2> HIDE DEF Turn
  <2> QED BY <1>4
<1>6. Place(i) = f[root]
  BY DEF Place
<1> HIDE DEF f
<1>7. \A n \in Addresses :
        f[n] = IF Child(node, n, i) = NULL
               THEN <<n, IF i < node[n].id THEN "left" ELSE "right">>
               ELSE f[Child(node, n, i)]
  BY <1>3, <1>5
<1> HIDE DEF Turn
<1>8. root \in Addresses
  BY TreeTyped DEF Addresses
<1>9. PICK n \in Path(node, root, i) : Child(node, n, i) = NULL
  BY <1>8, PathEnds DEF Addresses
<1>10. n \in Addresses
  BY DEF Path, Addresses
<1>11. f[n] = f[root]
  <2> DEFINE U == {m \in Addresses : f[m] = f[root]}
  <2>1. U \in SUBSET DOMAIN node /\ root \in U
    BY <1>8 DEF Addresses
  <2>2. Follows(node, i, U)
    <3> SUFFICES ASSUME NEW m \in U, Child(node, m, i) # NULL
                 PROVE  Child(node, m, i) \in U
      BY DEF Follows
    <3>1. Child(node, m, i) \in Addresses /\ m \in Addresses
      BY TreeTyped DEF Addresses
    <3> QED BY <1>7, <3>1
  <2> HIDE DEF U
  <2>3. n \in U
    BY <2>1, <2>2, PathLeast
  <2> QED BY <2>3 DEF U
<1> DEFINE side == IF i < node[n].id THEN "left" ELSE "right"
<1>12. Place(i) = <<n, side>>
  BY <1>6, <1>7, <1>9, <1>10, <1>11
<1>13. node[n][side] = NULL
  BY <1>3, <1>9, <1>10
<1> QED BY <1>12, <1>13

\* A path only gets longer when links are added.
LEMMA PathGrows ==
  ASSUME NEW t, NEW u, NEW r, NEW i, DOMAIN t \subseteq DOMAIN u,
         \A n \in DOMAIN t :
           /\ Child(t, n, i) \in DOMAIN t \cup {NULL}
           /\ Child(t, n, i) # NULL => Child(u, n, i) = Child(t, n, i)
  PROVE  r \in DOMAIN t => Path(t, r, i) \subseteq Path(u, r, i)
<1> SUFFICES ASSUME r \in DOMAIN t, NEW n \in Path(t, r, i),
                    NEW U \in SUBSET DOMAIN u, r \in U, Follows(u, i, U)
             PROVE  n \in DOMAIN u /\ n \in U
  BY DEF Path
<1> DEFINE V == U \cap DOMAIN t
<1>1. V \in SUBSET DOMAIN t /\ r \in V
  OBVIOUS
<1>2. Follows(t, i, V)
  BY DEF Follows
<1>3. n \in V
  BY <1>1, <1>2, PathLeast
<1> QED BY <1>3

LEMMA ApplyDeltaTree ==
  ASSUME NEW t, NEW r, Tree(t, r), NEW a \in DOMAIN t, NEW q \in Ints
  PROVE  Tree([t EXCEPT ![a].left_stock = q], r)
<1> DEFINE u == [t EXCEPT ![a].left_stock = q]
<1>1. t \in [DOMAIN t -> Items(DOMAIN t)]
  BY DEF Tree
<1>2. DOMAIN u = DOMAIN t /\ u \in [DOMAIN u -> Items(DOMAIN u)]
  BY <1>1 DEF Items
<1>3. \A n \in DOMAIN t :
        u[n].id = t[n].id /\ u[n].left = t[n].left /\ u[n].right = t[n].right
  BY <1>1 DEF Items
<1> HIDE DEF u
<1>4. Linked(u)
  <2>1. Linked(t)
    BY DEF Tree
  <2> QED BY <1>2, <1>3, <2>1 DEF Linked
<1>5. ASSUME NEW n \in DOMAIN u PROVE n \in Path(u, r, u[n].id)
  <2>1. t[n].id \in Int /\ u[n].id = t[n].id
    BY <1>2, <1>3, <1>5, TreeTyped
  <2>2. n \in Path(t, r, t[n].id) /\ r \in DOMAIN t
    BY <1>2, TreeTyped DEF Tree
  <2>3. \A m \in DOMAIN t : /\ Child(t, m, t[n].id) \in DOMAIN t \cup {NULL}
                            /\ Child(u, m, t[n].id) = Child(t, m, t[n].id)
    BY <2>1, <1>3, TreeTyped DEF Child
  <2>4. Path(t, r, t[n].id) \subseteq Path(u, r, t[n].id)
    BY <1>2, <2>2, <2>3, PathGrows
  <2> QED BY <2>1, <2>2, <2>4
<1>6. Tree(u, r)
  BY <1>2, <1>4, <1>5 DEF Tree
<1> QED BY <1>6 DEF u

\* The address the new node gets, and what the tree is afterwards.
LEMMA UpsertTree ==
  ASSUME Tree(node, root), NEW i \in Ints, NEW q \in Ints,
         \A a \in Addresses : node[a].id # i, Upsert(i, q)
  PROVE  /\ Tree(node', root')
         /\ \E new \in Nat :
              /\ new \notin Addresses
              /\ DOMAIN node' = Addresses \cup {new}
              /\ node'[new] = [id |-> i, left_stock |-> q, left |-> NULL, right |-> NULL]
              /\ \A a \in Addresses :
                   /\ node'[a].id = node[a].id
                   /\ node'[a].left_stock = node[a].left_stock
                   /\ node[a].id < i => node'[a].left = node[a].left
<1>1. PICK k \in Nat : DOMAIN node = 1 .. k
  BY DEF Tree
<1>2. Addresses = 1 .. k /\ Cardinality(Addresses) = k
  <2>1. Cardinality(1 .. k) = k
    BY FS_Interval
  <2> QED BY <1>1, <2>1 DEF Addresses
<1> DEFINE new == CHOOSE a \in 1 .. Cardinality(Addresses) + 1 : a \notin Addresses
           item == [id |-> i, left_stock |-> q, left |-> NULL, right |-> NULL]
           table == [a \in Addresses \cup {new} |-> IF a = new THEN item ELSE node[a]]
<1>3. new = k + 1
  <2>1. \A a \in 1 .. Cardinality(Addresses) + 1 : a \notin Addresses <=> a = k + 1
    BY <1>2
  <2>2. k + 1 \in 1 .. Cardinality(Addresses) + 1
    BY <1>2
  <2> QED BY <2>1, <2>2
<1>4. IF root = NULL THEN root' = new /\ node' = table
      ELSE node' = [table EXCEPT ![Place(i)[1]][Place(i)[2]] = new] /\ root' = root
  BY DEF Upsert
<1>5. /\ i \in Int /\ node \in [Addresses -> Items(Addresses)] /\ Linked(node)
      /\ root = IF Addresses = {} THEN NULL ELSE 1
      /\ \A a \in Addresses : a \in Path(node, root, node[a].id)
  BY MaxIntAssumption DEF Tree, Addresses, Ints
<1>6. /\ new \in Nat /\ new \notin Addresses /\ new # NULL
      /\ Addresses \cup {new} = 1 .. k + 1
  BY <1>2, <1>3, NullAssumption
<1>7. item \in Items(Addresses \cup {new})
  BY DEF Items
<1>8. table \in [Addresses \cup {new} -> Items(Addresses \cup {new})]
  <2>1. \A a \in Addresses : node[a] \in Items(Addresses \cup {new})
    BY <1>5 DEF Items
  <2> QED BY <2>1, <1>7
<1>9. table[new] = item /\ \A a \in Addresses : table[a] = node[a]
  BY <1>6
<1> HIDE DEF new, table, item
<1>10. CASE root = NULL
  <2>1. Addresses = {} /\ k = 0
    BY <1>10, <1>5, <1>2, NullAssumption
  <2>2. root' = 1 /\ new = 1 /\ node' = table /\ DOMAIN node' = {new}
    BY <1>3, <1>4, <1>8, <1>10, <2>1
  <2>3. /\ node'[new].left = NULL /\ node'[new].right = NULL
    BY <1>9, <2>2 DEF item
  <2>4. Linked(node')
    BY <2>2, <2>3 DEF Linked
  <2>5. DOMAIN node' = 1 .. 1
    BY <2>2
  <2>6. \A a \in DOMAIN node' : a \in Path(node', root', node'[a].id)
    BY <2>2 DEF Path
  <2>7. node' \in [DOMAIN node' -> Items(DOMAIN node')]
    BY <1>8, <2>1, <2>2
  <2>8. Tree(node', root')
    BY <2>2, <2>4, <2>5, <2>6, <2>7 DEF Tree
  <2> QED BY <2>1, <2>2, <2>8, <1>6, <1>9 DEF item
<1>11. CASE root # NULL
  <2>1. PICK n \in Path(node, root, i), side \in {"left", "right"} :
          /\ Place(i) = <<n, side>>
          /\ side = (IF i < node[n].id THEN "left" ELSE "right")
          /\ node[n][side] = NULL
    BY <1>11, <1>5, PlaceMeans
  <2>2. n \in Addresses /\ n # new /\ n < new /\ root' = root /\ root \in Addresses
    BY <1>2, <1>3, <1>4, <1>5, <1>11, TreeTyped DEF Path, Addresses
  <2>3. node' = [table EXCEPT ![n][side] = new]
    BY <1>4, <1>11, <2>1
  <2>4. DOMAIN node' = Addresses \cup {new}
    BY <1>8, <2>3
  <2>5. node'[new] = item
    BY <1>8, <1>9, <2>2, <2>3
  <2>6. \A a \in Addresses \ {n} : node'[a] = node[a]
    BY <1>6, <1>8, <1>9, <2>2, <2>3
  <2>7. /\ node'[n] = [node[n] EXCEPT ![side] = new]
        /\ node[n] \in Items(Addresses)
    BY <1>5, <1>8, <1>9, <2>2, <2>3
  <2>8. /\ node'[n].id = node[n].id /\ node'[n].left_stock = node[n].left_stock
        /\ node'[n].left = IF side = "left" THEN new ELSE node[n].left
        /\ node'[n].right = IF side = "right" THEN new ELSE node[n].right
        /\ node'[n] \in Items(Addresses \cup {new})
    <3>1. CASE side = "left"
      BY <2>7, <3>1 DEF Items
    <3>2. CASE side = "right"
      BY <2>7, <3>2 DEF Items
    <3> QED BY <3>1, <3>2
  <2>9. node' \in [DOMAIN node' -> Items(DOMAIN node')]
    <3>1. \A a \in Addresses \cup {new} : node'[a] \in Items(Addresses \cup {new})
      BY <1>8, <1>9, <2>5, <2>6, <2>8
    <3>2. node' = [a \in Addresses \cup {new} |-> node'[a]]
      BY <1>8, <2>3
    <3> QED BY <2>4, <3>1, <3>2
  <2>10. node[n].id # i
    BY <2>2
  <2>11. Linked(node')
    <3>1. \A a \in Addresses : /\ node[a].left \in Addresses \cup {NULL}
                               /\ node[a].right \in Addresses \cup {NULL}
                               /\ a < new
      BY <1>2, <1>3, <1>5 DEF Items
    <3>2. \A a \in Addresses :
            /\ node'[a].left = IF a = n /\ side = "left" THEN new ELSE node[a].left
            /\ node'[a].right = IF a = n /\ side = "right" THEN new ELSE node[a].right
      BY <2>6, <2>8
    <3>3. node'[new].left = NULL /\ node'[new].right = NULL
      BY <2>5 DEF item
    <3>4. ASSUME NEW a \in DOMAIN node'
          PROVE  /\ node'[a].left # NULL => node'[a].left > a
                 /\ node'[a].right # NULL => node'[a].right > a
      <4>1. CASE a = new
        BY <3>3, <4>1
      <4>2. CASE a \in Addresses
        BY <1>2, <1>3, <1>5, <3>1, <3>2, <4>2 DEF Linked, Addresses
      <4> QED BY <2>4, <4>1, <4>2
    <3>5. ASSUME NEW a \in DOMAIN node', NEW b \in DOMAIN node'
          PROVE  /\ node'[a].left # NULL => node'[a].left # node'[b].right
                 /\ node'[a].left # NULL /\ node'[a].left = node'[b].left => a = b
                 /\ node'[a].right # NULL /\ node'[a].right = node'[b].right => a = b
      <4>1. CASE a = new \/ b = new
        BY <1>6, <3>3, <4>1
      <4>2. CASE a \in Addresses /\ b \in Addresses
        <5>1. /\ node[a].left # NULL => node[a].left # node[b].right
              /\ node[a].left # NULL /\ node[a].left = node[b].left => a = b
              /\ node[a].right # NULL /\ node[a].right = node[b].right => a = b
          BY <1>5, <4>2 DEF Linked, Addresses
        <5>2. /\ node[a].left # new /\ node[b].left # new
              /\ node[a].right # new /\ node[b].right # new
          BY <1>6, <3>1, <4>2
        <5>3. side = "left" \/ side = "right"
          OBVIOUS
        <5>4. node[n].left = NULL \/ node[n].right = NULL
          BY <2>1
        <5> QED BY <3>2, <4>2, <5>1, <5>2, <5>3, <5>4, <2>1
      <4> QED BY <2>4, <4>1, <4>2
    <3> QED BY <3>4, <3>5 DEF Linked
  <2>12. ASSUME NEW j \in Int PROVE Path(node, root, j) \subseteq Path(node', root, j)
    <3>1. \A a \in DOMAIN node :
            /\ Child(node, a, j) \in DOMAIN node \cup {NULL}
            /\ Child(node, a, j) # NULL => Child(node', a, j) = Child(node, a, j)
      <4> SUFFICES ASSUME NEW a \in Addresses, Child(node, a, j) # NULL
                   PROVE  Child(node', a, j) = Child(node, a, j)
        BY TreeTyped DEF Addresses
      <4>1. CASE a # n
        BY <2>6, <4>1 DEF Child
      <4>2. CASE a = n /\ side = "left"
        BY <2>1, <2>8, <4>2 DEF Child
      <4>3. CASE a = n /\ side = "right"
        BY <2>1, <2>8, <4>3 DEF Child
      <4> QED BY <4>1, <4>2, <4>3
    <3> QED BY <3>1, <2>2, <2>4, PathGrows DEF Addresses
  <2>13. new \in Path(node', root, i)
    <3>1. n \in Path(node', root, i) /\ root \in DOMAIN node'
      BY <1>5, <2>2, <2>4, <2>12
    <3>2. Child(node', n, i) = new
      <4>1. i \in Int /\ node[n].id \in Int
        BY <1>5, <2>2, TreeTyped DEF Addresses
      <4> QED BY <2>1, <2>8, <2>10, <4>1 DEF Child
    <3>3. NULL \notin DOMAIN node' /\ new \in DOMAIN node'
      BY <1>2, <1>3, <2>4, NullAssumption
    <3> QED BY <3>1, <3>2, <3>3, PathExtends
  <2>14. ASSUME NEW a \in DOMAIN node' PROVE a \in Path(node', root', node'[a].id)
    <3>1. CASE a = new
      BY <2>2, <2>5, <2>13, <3>1 DEF item
    <3>2. CASE a \in Addresses
      <4>1. node'[a].id = node[a].id /\ node[a].id \in Int
        BY <2>6, <2>8, <3>2, TreeTyped DEF Addresses
      <4>2. a \in Path(node, root, node[a].id)
        BY <1>5, <3>2
      <4> QED BY <2>2, <2>12, <4>1, <4>2
    <3> QED BY <2>4, <3>1, <3>2
  <2>15. Tree(node', root')
    <3>1. root' = IF DOMAIN node' = {} THEN NULL ELSE 1
      BY <1>5, <1>11, <2>2, <2>4
    <3>2. DOMAIN node' = 1 .. k + 1 /\ k + 1 \in Nat
      BY <1>6, <2>4
    <3> QED BY <2>9, <2>11, <2>14, <3>1, <3>2 DEF Tree
  <2>16. \A a \in Addresses :
           /\ node'[a].id = node[a].id /\ node'[a].left_stock = node[a].left_stock
           /\ node[a].id < i => node'[a].left = node[a].left
    <3> SUFFICES ASSUME NEW a \in Addresses
                 PROVE  /\ node'[a].id = node[a].id
                        /\ node'[a].left_stock = node[a].left_stock
                        /\ node[a].id < i => node'[a].left = node[a].left
      OBVIOUS
    <3>1. CASE a = n
      <4>1. i \in Int /\ node[n].id \in Int
        BY <1>5, <2>2, TreeTyped DEF Addresses
      <4>2. node[n].id < i => side = "right"
        BY <2>1, <4>1
      <4> QED BY <2>8, <3>1, <4>2
    <3> QED BY <2>6, <3>1
  <2> QED BY <1>6, <2>4, <2>5, <2>15, <2>16 DEF item
<1> QED BY <1>10, <1>11
-----------------------------------------------------------------------------
\* The nodes of the subtree of n: the searches for their ids come through n.
Under(t, r, n) == {a \in DOMAIN t : n \in Path(t, r, t[a].id)}

\* No two nodes have the same id.
LEMMA IdsDiffer ==
  ASSUME NEW t, NEW r, Tree(t, r), NEW a \in DOMAIN t, NEW b \in DOMAIN t,
         t[a].id = t[b].id
  PROVE  a = b
<1>1. t[a].id \in Int
  BY TreeTyped
<1>2. Child(t, a, t[a].id) = NULL /\ Child(t, b, t[a].id) = NULL
  BY <1>1 DEF Child
<1>3. a \in Path(t, r, t[a].id) /\ b \in Path(t, r, t[a].id)
  BY DEF Tree
<1> QED BY <1>1, <1>2, <1>3, PathEnd

\* A path comes to a child through its one parent.
LEMMA ThroughParent ==
  ASSUME NEW t, NEW r, Tree(t, r), NEW n \in DOMAIN t, NEW c \in DOMAIN t,
         t[n].left = c \/ t[n].right = c, NEW i \in Int, c \in Path(t, r, i)
  PROVE  n \in Path(t, r, i) /\ Child(t, n, i) = c
<1>1. c # NULL /\ c > n /\ n \in Nat /\ r <= n /\ Linked(t) /\ r \in Nat
  BY TreeTyped DEF Linked, Tree
<1>2. c # r
  BY <1>1, TreeTyped
<1>3. PICK p \in Path(t, r, i) : Child(t, p, i) = c
  BY <1>2, PathParent
<1>4. p \in DOMAIN t
  BY DEF Path
<1>5. (i < t[p].id /\ t[p].left = c) \/ (i > t[p].id /\ t[p].right = c)
  BY <1>1, <1>3 DEF Child
<1>6. p = n
  BY <1>1, <1>4, <1>5 DEF Linked
<1> QED BY <1>3, <1>6

LEMMA UnderSelf ==
  ASSUME NEW t, NEW r, Tree(t, r)
  PROVE  /\ \A n \in DOMAIN t : n \in Under(t, r, n)
         /\ DOMAIN t # {} => Under(t, r, r) = DOMAIN t
<1>1. DOMAIN t # {} => r \in DOMAIN t
  BY TreeTyped
<1> QED BY <1>1, PathGoesOn DEF Under, Tree

LEMMA UnderLeft ==
  ASSUME NEW t, NEW r, Tree(t, r), NEW n \in DOMAIN t, t[n].left # NULL
  PROVE  \A a \in DOMAIN t :
           a \in Under(t, r, t[n].left) <=> a \in Under(t, r, n) /\ t[a].id < t[n].id
<1> SUFFICES ASSUME NEW a \in DOMAIN t
             PROVE  a \in Under(t, r, t[n].left)
                      <=> a \in Under(t, r, n) /\ t[a].id < t[n].id
  OBVIOUS
<1>1. t[n].left \in DOMAIN t /\ t[a].id \in Int /\ t[n].id \in Int /\ r \in DOMAIN t
  BY TreeTyped
<1>2. t[n].left # t[n].right
  BY DEF Tree, Linked
<1>3. ASSUME a \in Under(t, r, t[n].left)
      PROVE  a \in Under(t, r, n) /\ t[a].id < t[n].id
  <2>1. n \in Path(t, r, t[a].id) /\ Child(t, n, t[a].id) = t[n].left
    BY <1>1, <1>3, ThroughParent DEF Under
  <2> QED BY <2>1, <1>1, <1>2 DEF Under, Child
<1>4. ASSUME a \in Under(t, r, n), t[a].id < t[n].id
      PROVE  a \in Under(t, r, t[n].left)
  <2>1. Child(t, n, t[a].id) = t[n].left
    BY <1>4 DEF Child
  <2> QED BY <2>1, <1>1, <1>4, PathGoesOn DEF Under
<1> QED BY <1>3, <1>4

LEMMA UnderRight ==
  ASSUME NEW t, NEW r, Tree(t, r), NEW n \in DOMAIN t, t[n].right # NULL
  PROVE  \A a \in DOMAIN t :
           a \in Under(t, r, t[n].right) <=> a \in Under(t, r, n) /\ t[a].id > t[n].id
<1> SUFFICES ASSUME NEW a \in DOMAIN t
             PROVE  a \in Under(t, r, t[n].right)
                      <=> a \in Under(t, r, n) /\ t[a].id > t[n].id
  OBVIOUS
<1>1. t[n].right \in DOMAIN t /\ t[a].id \in Int /\ t[n].id \in Int /\ r \in DOMAIN t
  BY TreeTyped
<1>2. t[n].left # NULL => t[n].left # t[n].right
  BY DEF Tree, Linked
<1>3. ASSUME a \in Under(t, r, t[n].right)
      PROVE  a \in Under(t, r, n) /\ t[a].id > t[n].id
  <2>1. n \in Path(t, r, t[a].id) /\ Child(t, n, t[a].id) = t[n].right
    BY <1>1, <1>3, ThroughParent DEF Under
  <2> QED BY <2>1, <1>1, <1>2 DEF Under, Child
<1>4. ASSUME a \in Under(t, r, n), t[a].id > t[n].id
      PROVE  a \in Under(t, r, t[n].right)
  <2>1. Child(t, n, t[a].id) = t[n].right
    BY <1>1, <1>4 DEF Child
  <2> QED BY <2>1, <1>1, <1>4, PathGoesOn DEF Under
<1> QED BY <1>3, <1>4

\* Where a link is missing there is no node for it to lead to.
LEMMA UnderNothing ==
  ASSUME NEW t, NEW r, Tree(t, r), NEW n \in DOMAIN t, NEW a \in Under(t, r, n)
  PROVE  /\ t[a].id < t[n].id => t[n].left # NULL
         /\ t[a].id > t[n].id => t[n].right # NULL
<1>1. a \in DOMAIN t /\ n \in Path(t, r, t[a].id) /\ a \in Path(t, r, t[a].id)
  BY DEF Under, Tree
<1>2. t[a].id \in Int /\ t[n].id \in Int
  BY <1>1, TreeTyped
<1>3. Child(t, a, t[a].id) = NULL
  BY <1>2 DEF Child
<1>4. Child(t, n, t[a].id) = NULL => n = a
  BY <1>1, <1>2, <1>3, PathEnd
<1> QED BY <1>2, <1>4 DEF Child

\* The ids in a subtree are an interval of those in the tree.
LEMMA UnderBetween ==
  ASSUME NEW t, NEW r, Tree(t, r), NEW n \in DOMAIN t,
         NEW a \in Under(t, r, n), NEW b \in Under(t, r, n), NEW x \in DOMAIN t,
         t[a].id <= t[x].id, t[x].id <= t[b].id
  PROVE  x \in Under(t, r, n)
<1> DEFINE P(y) == Path(t, r, t[y].id)
           T == {m \in DOMAIN t : m \in P(a) /\ m \in P(b) /\ m \notin P(x)}
<1>1. a \in DOMAIN t /\ b \in DOMAIN t /\ n \in P(a) /\ n \in P(b)
  BY DEF Under
<1>2. t[a].id \in Int /\ t[b].id \in Int /\ t[x].id \in Int /\ r \in DOMAIN t
  BY <1>1, TreeTyped
<1>3. SUFFICES ASSUME n \notin P(x) PROVE FALSE
  BY DEF Under
<1>4. T \in SUBSET Nat /\ n \in T
  BY <1>1, <1>3, TreeTyped
<1>5. PICK m \in T : \A y \in T : m <= y
  <2> HIDE DEF T
  <2> QED BY <1>4, Smallest
<1>6. m # r
  BY <1>2, PathGoesOn
<1>7. PICK p \in P(a) : Child(t, p, t[a].id) = m
  BY <1>2, <1>6, PathParent
<1>8. p \in DOMAIN t /\ m \in DOMAIN t /\ t[p].id \in Int /\ m # NULL
  BY TreeTyped DEF Path
<1>9. t[p].left = m \/ t[p].right = m
  BY <1>7, <1>8 DEF Child
<1>10. p \in P(b) /\ Child(t, p, t[b].id) = m
  BY <1>2, <1>8, <1>9, ThroughParent
<1>11. p < m /\ p \in Nat /\ m \in Nat
  BY <1>8, <1>9, TreeTyped DEF Tree, Linked
<1>12. p \in P(x)
  <2>1. p \notin T
    BY <1>5, <1>11
  <2> QED BY <2>1, <1>8, <1>10
<1>13. Child(t, p, t[x].id) = m
  <2>1. t[p].left = m => t[p].right # m
    BY <1>8 DEF Tree, Linked
  <2> QED BY <2>1, <1>2, <1>7, <1>8, <1>10 DEF Child
<1>14. m \in P(x)
  BY <1>2, <1>8, <1>12, <1>13, PathGoesOn
<1> QED BY <1>14
-----------------------------------------------------------------------------
\* A response with memory: c bytes of it, and the text and its NUL in them.
Holds(r) ==
  \E c \in 1 .. SizeMax : r \in [data : [0 .. c - 1 -> Int], len : 0 .. c - 1]

LEMMA HoldsCap ==
  ASSUME NEW r, Holds(r)
  PROVE  /\ Cap(r) \in 1 .. SizeMax /\ DOMAIN r.data = 0 .. Cap(r) - 1
         /\ r \in [data : [0 .. Cap(r) - 1 -> Int], len : 0 .. Cap(r) - 1]
<1>1. PICK c \in 1 .. SizeMax : r \in [data : [0 .. c - 1 -> Int], len : 0 .. c - 1]
  BY DEF Holds
<1>2. c \in Int /\ SizeMax \in Nat
  BY ResponseAssumption
<1>3. Cardinality(0 .. c - 1) = c
  <2>1. 0 <= c - 1 /\ c - 1 - 0 + 1 = c
    BY <1>2
  <2> QED BY <1>2, <2>1, FS_Interval
<1> QED BY <1>1, <1>3 DEF Cap

\* By doubling, response_ensure_capacity comes to a size that is large enough
\* and not too large.
LEMMA GrownMeans ==
  ASSUME NEW r, Holds(r), NEW extra \in Nat, HasRoom(r, extra)
  PROVE  Grown(r, extra) \in r.len + extra + 1 .. SizeMax
<1> DEFINE needed == r.len + extra + 1
           D == 1 .. SizeMax
           stop == [c \in D |-> c >= needed \/ c > SizeMax \div 2]
           val == [c \in D |-> IF c >= needed THEN c ELSE needed]
           h == [c \in D |-> IF c >= needed \/ c > SizeMax \div 2 THEN c ELSE c * 2]
           Turn(f) == f = [c \in 1 .. SizeMax |->
                             IF c >= needed THEN c
                             ELSE IF c > SizeMax \div 2 THEN needed ELSE f[c * 2]]
<1>1. /\ SizeMax \in Nat /\ Cap(r) \in D /\ r.len \in Nat
      /\ needed \in Nat /\ needed <= SizeMax
  BY HoldsCap, ResponseAssumption DEF HasRoom
<1>2. \A c \in D : ~(c > SizeMax \div 2) => c * 2 \in D /\ c < c * 2
  BY <1>1
<1> HIDE DEF needed
<1>3. h \in [D -> D] /\ stop \in [D -> BOOLEAN]
  BY <1>2
<1>4. PICK g : Loops(g, D, h, stop, val)
  <2> HIDE DEF D, stop, h, val
  <2> QED BY <1>3, Loop
<1>5. Turn(g)
  <2>1. \A c \in D : g[c] = IF c >= needed THEN c
                            ELSE IF c > SizeMax \div 2 THEN needed ELSE g[c * 2]
    BY <1>4 DEF Loops
  <2>2. g = [c \in D |-> g[c]]
    BY <1>4 DEF Loops
  <2> QED BY <2>1, <2>2
<1> DEFINE f == CHOOSE f : Turn(f)
<1>6. Turn(f)
  <2> HIDE DEF Turn
  <2> QED BY <1>5
<1>7. Grown(r, extra) = f[Cap(r)]
  BY DEF Grown, needed
<1> HIDE DEF f
<1>8. \A c \in D : f[c] = IF c >= needed THEN c
                          ELSE IF c > SizeMax \div 2 THEN needed ELSE f[c * 2]
  BY <1>6
<1> HIDE DEF Turn
<1> DEFINE T == {c \in D : f[c] \notin needed .. SizeMax}
<1>9. T = {}
  <2> SUFFICES ASSUME T # {} PROVE FALSE
    OBVIOUS
  <2>1. PICK m \in T : \A c \in T : c <= m
    <3>1. T \in SUBSET (1 .. SizeMax)
      OBVIOUS
    <3> HIDE DEF T
    <3> QED BY <1>1, <3>1, Largest
  <2>2. m \in D /\ f[m] \notin needed .. SizeMax
    OBVIOUS
  <2>3. ~(m >= needed) /\ ~(m > SizeMax \div 2)
    BY <1>1, <1>8, <2>2
  <2>4. m * 2 \in D /\ m < m * 2
    BY <1>2, <2>2, <2>3
  <2>5. f[m] = f[m * 2]
    BY <1>8, <2>2, <2>3
  <2>6. m * 2 \in T
    BY <2>2, <2>4, <2>5
  <2> QED BY <2>1, <2>2, <2>4, <2>6
<1>10. f[Cap(r)] \in needed .. SizeMax
  BY <1>1, <1>9
<1> QED BY <1>7, <1>10 DEF needed

LEMMA EnsureMeans ==
  ASSUME NEW r, Holds(r), NEW extra \in Nat, HasRoom(r, extra)
  PROVE  /\ Holds(EnsureCapacity(r, extra))
         /\ EnsureCapacity(r, extra).len = r.len
         /\ extra < Cap(EnsureCapacity(r, extra)) - r.len
         /\ \A k \in 0 .. r.len - 1 : EnsureCapacity(r, extra).data[k] = r.data[k]
<1> DEFINE g == Grown(r, extra)
           s == EnsureCapacity(r, extra)
           d == [k \in 0 .. g - 1 |-> IF k \in DOMAIN r.data THEN r.data[k] ELSE Garbage]
<1>1. /\ r \in [data : [0 .. Cap(r) - 1 -> Int], len : 0 .. Cap(r) - 1]
      /\ Cap(r) \in 1 .. SizeMax /\ SizeMax \in Nat
  BY HoldsCap, ResponseAssumption
<1>2. g \in r.len + extra + 1 .. SizeMax
  BY GrownMeans
<1> HIDE DEF g
<1>3. d \in [0 .. g - 1 -> Int]
  BY <1>1 DEF Garbage
<1>4. \A k \in 0 .. r.len - 1 : k \in 0 .. g - 1 /\ d[k] = r.data[k]
  BY <1>1, <1>2
<1>5. s = [r EXCEPT !.data = d]
  BY DEF EnsureCapacity, g
<1> HIDE DEF d, s
<1>6. s.data = d /\ s.len = r.len
  BY <1>1, <1>5
<1>7. s \in [data : [0 .. g - 1 -> Int], len : 0 .. g - 1]
  <2>1. r.len \in 0 .. g - 1
    BY <1>1, <1>2
  <2> QED BY <1>1, <1>3, <1>5, <2>1
<1>8. g \in 1 .. SizeMax
  BY <1>1, <1>2
<1>9. Holds(s)
  BY <1>7, <1>8 DEF Holds
<1>10. Cap(s) = g
  <2>1. DOMAIN s.data = 0 .. g - 1 /\ DOMAIN s.data = 0 .. Cap(s) - 1
    BY <1>7, <1>9, HoldsCap
  <2>2. Cap(s) \in 1 .. SizeMax
    BY <1>9, HoldsCap
  <2> QED BY <2>1, <2>2, <1>8
<1>11. extra < g - r.len
  BY <1>1, <1>2
<1> QED BY <1>4, <1>6, <1>9, <1>10, <1>11 DEF s

LEMMA PrintedMeans ==
  ASSUME NEW r, Holds(r), NEW text \in Seq(Int)
  PROVE  /\ Holds(Printed(r, text))
         /\ Printed(r, text).len = r.len /\ Cap(Printed(r, text)) = Cap(r)
         /\ \A k \in 0 .. r.len - 1 : Printed(r, text).data[k] = r.data[k]
         /\ Len(text) < Cap(r) - r.len =>
              \A k \in r.len .. r.len + Len(text) - 1 :
                Printed(r, text).data[k] = text[k - r.len + 1]
<1> DEFINE fits == IF Len(text) < Cap(r) - r.len THEN Len(text) ELSE Cap(r) - r.len - 1
           p == Printed(r, text)
           d == [k \in DOMAIN r.data |->
                   IF k \in r.len .. r.len + fits - 1 THEN text[k - r.len + 1]
                   ELSE IF k = r.len + fits THEN NUL
                   ELSE r.data[k]]
<1>1. /\ r \in [data : [0 .. Cap(r) - 1 -> Int], len : 0 .. Cap(r) - 1]
      /\ Cap(r) \in 1 .. SizeMax /\ SizeMax \in Nat /\ DOMAIN r.data = 0 .. Cap(r) - 1
  BY HoldsCap, ResponseAssumption
<1>2. fits \in 0 .. Len(text)
  BY <1>1
<1>3. Len(text) < Cap(r) - r.len => fits = Len(text)
  OBVIOUS
<1>4. p = [r EXCEPT !.data = d]
  BY DEF Printed
<1> HIDE DEF fits, p
<1>5. d \in [0 .. Cap(r) - 1 -> Int]
  BY <1>1, <1>2 DEF NUL
<1>6. \A k \in 0 .. r.len - 1 : d[k] = r.data[k]
  BY <1>1, <1>2
<1>7. ASSUME Len(text) < Cap(r) - r.len, NEW k \in r.len .. r.len + Len(text) - 1
      PROVE  d[k] = text[k - r.len + 1]
  BY <1>1, <1>3, <1>7
<1> HIDE DEF d
<1>8. /\ p.data = d /\ p.len = r.len
      /\ p \in [data : [0 .. Cap(r) - 1 -> Int], len : 0 .. Cap(r) - 1]
  BY <1>1, <1>4, <1>5
<1>9. Holds(p)
  BY <1>1, <1>8 DEF Holds
<1>10. Cap(p) = Cap(r)
  BY <1>1, <1>5, <1>8 DEF Cap
<1> QED BY <1>6, <1>7, <1>8, <1>9, <1>10 DEF p

LEMMA SentTyped ==
  ASSUME NEW r, Holds(r)
  PROVE  Sent(r) \in Seq(Int) /\ Len(Sent(r)) = r.len /\ r.len \in Nat
<1>1. /\ r \in [data : [0 .. Cap(r) - 1 -> Int], len : 0 .. Cap(r) - 1]
      /\ Cap(r) \in 1 .. SizeMax /\ SizeMax \in Nat
  BY HoldsCap, ResponseAssumption
<1>2. r.len \in Nat /\ \A k \in 1 .. r.len : r.data[k - 1] \in Int
  BY <1>1
<1> QED BY <1>2 DEF Sent

\* Where there is room for it, a text goes behind what the response holds.
LEMMA PrintedText ==
  ASSUME NEW r, Holds(r), NEW text \in Seq(Int), Len(text) < Cap(r) - r.len,
         NEW s, s = [Printed(r, text) EXCEPT !.len = @ + Len(text)]
  PROVE  Holds(s) /\ Sent(s) = Sent(r) \o text
<1> DEFINE p == Printed(r, text)
<1>1. /\ Holds(p) /\ p.len = r.len /\ Cap(p) = Cap(r) /\ Cap(r) \in 1 .. SizeMax
      /\ p \in [data : [0 .. Cap(r) - 1 -> Int], len : 0 .. Cap(r) - 1]
      /\ \A k \in 0 .. r.len - 1 : p.data[k] = r.data[k]
      /\ \A k \in r.len .. r.len + Len(text) - 1 : p.data[k] = text[k - r.len + 1]
  <2>1. /\ Holds(p) /\ p.len = r.len /\ Cap(p) = Cap(r)
        /\ \A k \in 0 .. r.len - 1 : p.data[k] = r.data[k]
        /\ \A k \in r.len .. r.len + Len(text) - 1 : p.data[k] = text[k - r.len + 1]
    BY PrintedMeans
  <2>2. Cap(r) \in 1 .. SizeMax
    BY HoldsCap
  <2>3. p \in [data : [0 .. Cap(p) - 1 -> Int], len : 0 .. Cap(p) - 1]
    BY <2>1, HoldsCap
  <2> QED BY <2>1, <2>2, <2>3
<1> HIDE DEF p
<1>2. r.len \in Nat /\ Sent(r) \in Seq(Int) /\ Len(Sent(r)) = r.len
  BY SentTyped
<1>3. s = [p EXCEPT !.len = @ + Len(text)]
  BY DEF p
<1>4. s.data = p.data /\ s.len = r.len + Len(text)
  BY <1>1, <1>3
<1>5. s.len \in 0 .. Cap(r) - 1
  BY <1>1, <1>2, <1>4, ResponseAssumption
<1>6. s \in [data : [0 .. Cap(r) - 1 -> Int], len : 0 .. Cap(r) - 1]
  BY <1>1, <1>3, <1>4, <1>5
<1>7. Holds(s)
  BY <1>1, <1>6 DEF Holds
<1>8. Sent(s) \in Seq(Int) /\ Len(Sent(s)) = r.len + Len(text)
  BY <1>4, <1>7, SentTyped
<1>9. ASSUME NEW k \in 1 .. r.len + Len(text) PROVE Sent(s)[k] = (Sent(r) \o text)[k]
  <2>1. Sent(s)[k] = p.data[k - 1]
    BY <1>2, <1>4 DEF Sent
  <2>2. CASE k <= r.len
    <3>1. k \in 1 .. r.len /\ k - 1 \in 0 .. r.len - 1
      BY <1>2, <2>2
    <3>2. Sent(r)[k] = r.data[k - 1] /\ p.data[k - 1] = r.data[k - 1]
      BY <1>1, <3>1 DEF Sent
    <3> QED BY <1>2, <2>1, <3>1, <3>2
  <2>3. CASE k > r.len
    <3>1. p.data[k - 1] = text[k - r.len]
      <4>1. k - 1 \in r.len .. r.len + Len(text) - 1 /\ (k - 1) - r.len + 1 = k - r.len
        BY <1>2, <2>3
      <4> QED BY <1>1, <4>1
    <3> QED BY <1>2, <2>1, <2>3, <3>1
  <2> QED BY <1>2, <2>2, <2>3
<1>10. Sent(s) = Sent(r) \o text
  <2>1. Sent(r) \o text \in Seq(Int) /\ Len(Sent(r) \o text) = r.len + Len(text)
    BY <1>2, ConcatProperties
  <2> QED BY <1>8, <1>9, <2>1, SeqEqual
<1> QED BY <1>7, <1>10

LEMMA SentSame ==
  ASSUME NEW r, NEW s, s.len = r.len, r.len \in Nat,
         \A k \in 0 .. r.len - 1 : s.data[k] = r.data[k]
  PROVE  Sent(s) = Sent(r)
<1>1. \A k \in 1 .. r.len : s.data[k - 1] = r.data[k - 1]
  OBVIOUS
<1> QED BY <1>1 DEF Sent

\* A text that response_appendf has accepted is at the end of the answer, and
\* nothing before it has changed.
LEMMA AppendfMeans ==
  ASSUME NEW r, Holds(r), NEW text \in Seq(Int), AppendStatus(r, text) = "OK"
  PROVE  /\ Holds(response_appendf(r, text))
         /\ Sent(response_appendf(r, text)) = Sent(r) \o text
<1> DEFINE s == response_appendf(r, text)
           first == Printed(r, text)
           grown == EnsureCapacity(first, Len(text))
<1>1. CASE Len(text) < Cap(r) - r.len
  <2>1. ~(Len(text) >= Cap(r) - r.len)
    BY <1>1, HoldsCap
  <2>2. s = [first EXCEPT !.len = @ + Len(text)]
    BY <2>1 DEF response_appendf
  <2> QED BY <1>1, <2>2, PrintedText
<1>2. CASE ~(Len(text) < Cap(r) - r.len)
  <2>1. Len(text) >= Cap(r) - r.len /\ HasRoom(r, Len(text))
    BY <1>2, HoldsCap DEF AppendStatus
  <2>2. s = [Printed(grown, text) EXCEPT !.len = @ + Len(text)]
    BY <2>1 DEF response_appendf
  <2>3. /\ Holds(first) /\ first.len = r.len /\ r.len \in Nat
        /\ \A k \in 0 .. r.len - 1 : first.data[k] = r.data[k]
    BY PrintedMeans, SentTyped
  <2>4. HasRoom(first, Len(text))
    BY <2>1, <2>3 DEF HasRoom
  <2> HIDE DEF first
  <2>5. /\ Holds(grown) /\ grown.len = first.len
        /\ Len(text) < Cap(grown) - first.len
        /\ \A k \in 0 .. first.len - 1 : grown.data[k] = first.data[k]
    BY <2>3, <2>4, EnsureMeans
  <2> HIDE DEF grown, s
  <2>6. Sent(grown) = Sent(r)
    <3>1. grown.len = r.len /\ \A k \in 0 .. r.len - 1 : grown.data[k] = r.data[k]
      BY <2>3, <2>5
    <3> QED BY <2>3, <3>1, SentSame
  <2>7. Holds(s) /\ Sent(s) = Sent(grown) \o text
    BY <2>2, <2>5, PrintedText
  <2> QED BY <2>6, <2>7 DEF s
<1> QED BY <1>1, <1>2

\* A refusal takes the place of what the response held.
LEMMA RefusalMeans ==
  ASSUME NEW r, Holds(r), NEW text \in Seq(Int), Len(text) < SizeMax
  PROVE  Holds(Refusal(r, text)) /\ Sent(Refusal(r, text)) = text
<1> DEFINE e == [r EXCEPT !.len = 0, !.data[0] = NUL]
           grown == EnsureCapacity(e, Len(text))
           s == Refusal(r, text)
<1>1. /\ r \in [data : [0 .. Cap(r) - 1 -> Int], len : 0 .. Cap(r) - 1]
      /\ Cap(r) \in 1 .. SizeMax /\ SizeMax \in Nat
  BY HoldsCap, ResponseAssumption
<1>2. e \in [data : [0 .. Cap(r) - 1 -> Int], len : 0 .. Cap(r) - 1] /\ e.len = 0
  BY <1>1 DEF NUL
<1> HIDE DEF e
<1>3. Holds(e) /\ HasRoom(e, Len(text))
  <2>1. Holds(e)
    BY <1>1, <1>2 DEF Holds
  <2>2. Len(text) <= SizeMax - e.len - 1
    BY <1>1, <1>2
  <2> QED BY <2>1, <2>2 DEF HasRoom
<1>4. Holds(grown) /\ grown.len = 0 /\ Len(text) < Cap(grown) - grown.len
  BY <1>2, <1>3, EnsureMeans
<1>5. s = [Printed(grown, text) EXCEPT !.len = @ + Len(text)]
  BY DEF Refusal, response_append, e
<1> HIDE DEF grown, s
<1>6. Holds(s) /\ Sent(s) = Sent(grown) \o text
  BY <1>4, <1>5, PrintedText
<1>7. Sent(grown) = <<>>
  BY <1>4, SentTyped
<1> QED BY <1>6, <1>7 DEF s
-----------------------------------------------------------------------------
LEMMA ScanTyped ==
  ASSUME NEW n \in Int
  PROVE  Scan(n) \in Ints /\ (n \in Ints => Scan(n) = n)
<1> DEFINE d == 2 * (MaxInt + 1)
           x == n + MaxInt + 1
<1>1. d \in Nat /\ d > 0 /\ x \in Int
  BY MaxIntAssumption
<1>2. Scan(n) = (x % d) - (MaxInt + 1)
  BY DEF Scan
<1>3. n \in Ints => x \in 0 .. d - 1
  BY MaxIntAssumption DEF Ints
<1>4. d = MaxInt + 1 + MaxInt + 1 /\ x = n + MaxInt + 1
  BY MaxIntAssumption
<1> HIDE DEF d, x
<1>5. x % d \in 0 .. d - 1
  BY <1>1
<1>6. x \in 0 .. d - 1 => x % d = x
  BY <1>1
<1> QED BY <1>1, <1>2, <1>3, <1>4, <1>5, <1>6, MaxIntAssumption DEF Ints

LEMMA DeltaTyped ==
  ASSUME Tree(node, root), NEW i \in Int, NEW d \in -MaxInt .. MaxInt,
         DeltaStatus(i, d) = "OK"
  PROVE  /\ Find(i) \in Addresses /\ node[Find(i)].id = i
         /\ Wrap(node[Find(i)].left_stock + d) \in Ints
<1>1. Find(i) # NULL
  BY DEF DeltaStatus
<1>2. PICK a \in Addresses : node[a].id = i
  BY <1>1, FindMeans
<1>3. Find(i) = a
  BY <1>2, FindMeans
<1>4. node[a].left_stock \in Ints
  BY DEF Tree, Items, Addresses
<1>5. ~(d < 0 /\ node[a].left_stock < -d)
  BY <1>1, <1>3 DEF DeltaStatus
<1>6. Wrap(node[a].left_stock + d) \in Ints
  BY <1>4, <1>5, MaxIntAssumption DEF Wrap, Ints
<1> QED BY <1>2, <1>3, <1>6
-----------------------------------------------------------------------------
Frames == [at : Nat, next : {"left", "visit", "right"}]

LEMMA InnermostTyped ==
  ASSUME calls \in Seq(Frames), calls # <<>>
  PROVE  /\ Len(calls) \in Nat \ {0} /\ Innermost \in Frames
         /\ Innermost = calls[Len(calls)]
         /\ Outer \in Seq(Frames) /\ Len(Outer) = Len(calls) - 1
         /\ \A k \in 1 .. Len(calls) - 1 : Outer[k] = calls[k]
<1> DEFINE n == Len(calls)
           m == n - 1
           out == SubSeq(calls, 1, m)
<1>1. n \in Nat /\ n >= 1
  BY EmptySeq
<1>2. \A k \in 1 .. n : calls[k] \in Frames
  BY ElementOfSeq
<1> HIDE DEF n
<1>3. m \in Nat /\ \A k \in 1 .. m : calls[k] \in Frames
  BY <1>1, <1>2
<1> HIDE DEF m
<1>4. /\ out \in Seq(Frames)
      /\ Len(out) = IF 1 <= m THEN m - 1 + 1 ELSE 0
      /\ \A k \in 1 .. m - 1 + 1 : out[k] = calls[1 + k - 1]
  BY <1>3, SubSeqProperties
<1> HIDE DEF out
<1>5. ASSUME NEW k \in 1 .. m PROVE out[k] = calls[k]
  <2>1. k \in 1 .. m - 1 + 1 /\ 1 + k - 1 = k
    BY <1>3
  <2> QED BY <1>4, <2>1
<1>6. Len(out) = m
  BY <1>3, <1>4
<1>7. n \in 1 .. n /\ n \in Nat \ {0}
  BY <1>1
<1> QED BY <1>2, <1>4, <1>5, <1>6, <1>7 DEF Innermost, Outer, out, m, n

\* A call moves on to its next statement, and calls itself on a child if there
\* is one.
LEMMA RecurseMeans ==
  ASSUME calls \in Seq(Frames), calls # <<>>, NEW next \in {"left", "visit", "right"},
         NEW child, NULL # child => child \in Nat, Recurse(next, child)
  PROVE  LET n == Len(calls)
         IN  /\ calls' \in Seq(Frames)
             /\ Len(calls') = IF child = NULL THEN n ELSE n + 1
             /\ \A k \in 1 .. n - 1 : calls'[k] = calls[k]
             /\ calls'[n] = [at |-> Innermost.at, next |-> next]
             /\ child # NULL => calls'[n + 1] = [at |-> child, next |-> "left"]
<1> DEFINE n == Len(calls)
           moved == <<[Innermost EXCEPT !.next = next]>>
           front == Outer \o moved
           called == IF child = NULL THEN <<>> ELSE <<[at |-> child, next |-> "left"]>>
<1>1. /\ n \in Nat \ {0} /\ Innermost \in Frames
      /\ Outer \in Seq(Frames) /\ Len(Outer) = n - 1
      /\ \A k \in 1 .. n - 1 : Outer[k] = calls[k]
  BY InnermostTyped
<1>2. /\ moved[1] = [at |-> Innermost.at, next |-> next] /\ moved[1] \in Frames
      /\ Len(moved) = 1
  BY <1>1 DEF Frames
<1>3. /\ called \in Seq(Frames)
      /\ Len(called) = IF child = NULL THEN 0 ELSE 1
      /\ child # NULL => called[1] = [at |-> child, next |-> "left"]
  <2>1. CASE child = NULL
    BY <2>1
  <2>2. CASE child # NULL
    <3>1. [at |-> child, next |-> "left"] \in Frames
      BY <2>2 DEF Frames
    <3> QED BY <2>2, <3>1
  <2> QED BY <2>1, <2>2
<1>4. calls' = front \o called
  BY DEF Recurse
<1>5. moved \in Seq(Frames)
  BY <1>2
<1> HIDE DEF moved, called
<1>6. /\ front \in Seq(Frames) /\ Len(front) = n
      /\ \A k \in 1 .. n - 1 : front[k] = calls[k]
      /\ front[n] = moved[1]
  <2>1. /\ front \in Seq(Frames) /\ Len(front) = Len(Outer) + Len(moved)
        /\ \A k \in 1 .. Len(Outer) + Len(moved) : front[k] =
             IF k <= Len(Outer) THEN Outer[k] ELSE moved[k - Len(Outer)]
    BY <1>1, <1>5, ConcatProperties
  <2>2. Len(Outer) + Len(moved) = n
    BY <1>1, <1>2
  <2>3. ASSUME NEW k \in 1 .. n - 1 PROVE front[k] = calls[k]
    BY <1>1, <2>1, <2>2
  <2>4. front[n] = moved[1]
    <3>1. n \in 1 .. n /\ ~(n <= n - 1) /\ n - (n - 1) = 1
      BY <1>1
    <3> QED BY <1>1, <2>1, <2>2, <3>1
  <2> QED BY <2>1, <2>2, <2>3, <2>4
<1> HIDE DEF front
<1>7. /\ calls' \in Seq(Frames) /\ Len(calls') = n + Len(called)
      /\ \A k \in 1 .. n : calls'[k] = front[k]
      /\ Len(called) = 1 => calls'[n + 1] = called[1]
  <2>1. /\ calls' \in Seq(Frames) /\ Len(calls') = n + Len(called)
        /\ \A k \in 1 .. n + Len(called) : calls'[k] =
             IF k <= n THEN front[k] ELSE called[k - n]
    <3>1. /\ front \o called \in Seq(Frames)
          /\ Len(front \o called) = Len(front) + Len(called)
          /\ \A k \in 1 .. Len(front) + Len(called) : (front \o called)[k] =
               IF k <= Len(front) THEN front[k] ELSE called[k - Len(front)]
      <4>1. front \in Seq(Frames) /\ called \in Seq(Frames)
        BY <1>3, <1>6
      <4> HIDE DEF n
      <4> QED BY <4>1, ConcatProperties
    <3>2. Len(front) = n
      BY <1>6
    <3> HIDE DEF n
    <3> QED BY <1>4, <3>1, <3>2
  <2>2. \A k \in 1 .. n : k \in 1 .. n + Len(called) /\ k <= n
    BY <1>1, <1>3
  <2>3. Len(called) = 1 => n + 1 \in 1 .. n + Len(called) /\ ~(n + 1 <= n) /\ n + 1 - n = 1
    BY <1>1
  <2> QED BY <2>1, <2>2, <2>3
<1>8. \A k \in 1 .. n - 1 : k \in 1 .. n
  BY <1>1
<1>9. n \in 1 .. n
  BY <1>1
<1>10. Len(calls') = IF child = NULL THEN n ELSE n + 1
  BY <1>1, <1>3, <1>7
<1> QED BY <1>2, <1>3, <1>6, <1>7, <1>8, <1>9, <1>10

\* A call returns, or its last statement takes its place.
LEMMA ReturnMeans ==
  ASSUME calls \in Seq(Frames), calls # <<>>, NEW child, NULL # child => child \in Nat,
         calls' = Outer \o (IF child = NULL THEN <<>>
                            ELSE <<[at |-> child, next |-> "left"]>>)
  PROVE  LET n == Len(calls)
         IN  /\ calls' \in Seq(Frames)
             /\ Len(calls') = IF child = NULL THEN n - 1 ELSE n
             /\ \A k \in 1 .. n - 1 : calls'[k] = calls[k]
             /\ child # NULL => calls'[n] = [at |-> child, next |-> "left"]
<1> DEFINE n == Len(calls)
           called == IF child = NULL THEN <<>> ELSE <<[at |-> child, next |-> "left"]>>
<1>1. /\ n \in Nat \ {0} /\ Outer \in Seq(Frames) /\ Len(Outer) = n - 1
      /\ \A k \in 1 .. n - 1 : Outer[k] = calls[k]
  BY InnermostTyped
<1>2. /\ called \in Seq(Frames)
      /\ Len(called) = IF child = NULL THEN 0 ELSE 1
      /\ child # NULL => called[1] = [at |-> child, next |-> "left"]
  <2>1. CASE child = NULL
    BY <2>1
  <2>2. CASE child # NULL
    <3>1. [at |-> child, next |-> "left"] \in Frames
      BY <2>2 DEF Frames
    <3> QED BY <2>2, <3>1
  <2> QED BY <2>1, <2>2
<1>3. calls' = Outer \o called
  OBVIOUS
<1> HIDE DEF called
<1>4. /\ calls' \in Seq(Frames) /\ Len(calls') = n - 1 + Len(called)
      /\ \A k \in 1 .. n - 1 + Len(called) : calls'[k] =
           IF k <= n - 1 THEN Outer[k] ELSE called[k - (n - 1)]
  BY <1>1, <1>2, <1>3, ConcatProperties
<1>5. \A k \in 1 .. n - 1 : calls'[k] = calls[k]
  <2>1. \A k \in 1 .. n - 1 : k \in 1 .. n - 1 + Len(called) /\ k <= n - 1
    BY <1>1, <1>2
  <2> QED BY <1>1, <1>4, <2>1
<1>6. child # NULL => calls'[n] = called[1]
  <2>1. child # NULL =>
          n \in 1 .. n - 1 + Len(called) /\ ~(n <= n - 1) /\ n - (n - 1) = 1
    BY <1>1, <1>2
  <2> QED BY <1>4, <2>1
<1>7. Len(calls') = IF child = NULL THEN n - 1 ELSE n
  BY <1>1, <1>2, <1>4
<1> QED BY <1>2, <1>4, <1>5, <1>6, <1>7
-----------------------------------------------------------------------------
\* The nodes whose records a walk has written when a call on n is at next.
VisitedAt(t, r, n, next) ==
  {a \in DOMAIN t :
     \/ t[a].id < t[n].id /\ ~(next = "left" /\ a \in Under(t, r, n))
     \/ a = n /\ next = "right"}

\* When call n returns to call m, nothing between the two is left out: the
\* nodes there are in the subtree of n, which has none above m.
Within(t, r, n, m) ==
  \A a \in DOMAIN t :
    /\ a \in Under(t, r, n) => t[a].id < t[m].id
    /\ t[n].id < t[a].id /\ t[a].id < t[m].id => a \in Under(t, r, n)

\* The same for the outermost call.
Topmost(t, r, n) == \A a \in DOMAIN t : t[a].id > t[n].id => a \in Under(t, r, n)

LEMMA VisitedLeft ==
  ASSUME NEW t, NEW r, Tree(t, r), NEW n \in DOMAIN t
  PROVE  /\ t[n].left = NULL => VisitedAt(t, r, n, "visit") = VisitedAt(t, r, n, "left")
         /\ t[n].left # NULL =>
              /\ VisitedAt(t, r, t[n].left, "left") = VisitedAt(t, r, n, "left")
              /\ Within(t, r, t[n].left, n)
<1>1. \A a \in DOMAIN t : t[a].id \in Int
  BY TreeTyped
<1>2. CASE t[n].left = NULL
  <2>1. \A a \in DOMAIN t : ~(t[a].id < t[n].id /\ a \in Under(t, r, n))
    BY <1>2, UnderNothing
  <2> QED BY <1>2, <2>1 DEF VisitedAt
<1>3. CASE t[n].left # NULL
  <2> DEFINE c == t[n].left
  <2>1. c \in DOMAIN t
    BY <1>3, TreeTyped
  <2>2. \A a \in DOMAIN t :
          a \in Under(t, r, c) <=> a \in Under(t, r, n) /\ t[a].id < t[n].id
    BY <1>3, UnderLeft
  <2>3. c \in Under(t, r, c) /\ n \in Under(t, r, n)
    BY <2>1, UnderSelf
  <2>4. t[c].id < t[n].id /\ c \in Under(t, r, n)
    BY <2>1, <2>2, <2>3
  <2> HIDE DEF c
  <2>5. \A a \in DOMAIN t :
          t[c].id < t[a].id /\ t[a].id < t[n].id => a \in Under(t, r, n)
    <3> SUFFICES ASSUME NEW a \in DOMAIN t, t[c].id < t[a].id, t[a].id < t[n].id
                 PROVE  a \in Under(t, r, n)
      OBVIOUS
    <3>1. t[c].id <= t[a].id /\ t[a].id <= t[n].id
      BY <1>1, <2>1
    <3> QED BY <2>3, <2>4, <3>1, UnderBetween
  <2>6. Within(t, r, c, n)
    BY <2>2, <2>5 DEF Within
  <2>7. \A a \in DOMAIN t :
          t[a].id < t[c].id /\ a \notin Under(t, r, c)
            <=> t[a].id < t[n].id /\ a \notin Under(t, r, n)
    <3> SUFFICES ASSUME NEW a \in DOMAIN t
                 PROVE  t[a].id < t[c].id /\ a \notin Under(t, r, c)
                          <=> t[a].id < t[n].id /\ a \notin Under(t, r, n)
      OBVIOUS
    <3>1. t[a].id = t[c].id => a = c
      BY <2>1, IdsDiffer
    <3> QED BY <1>1, <2>1, <2>2, <2>3, <2>4, <2>5, <3>1
  <2>8. VisitedAt(t, r, c, "left") = VisitedAt(t, r, n, "left")
    BY <2>7 DEF VisitedAt
  <2> QED BY <1>3, <2>6, <2>8 DEF c
<1> QED BY <1>2, <1>3

LEMMA VisitedNode ==
  ASSUME NEW t, NEW r, Tree(t, r), NEW n \in DOMAIN t
  PROVE  /\ VisitedAt(t, r, n, "right") = VisitedAt(t, r, n, "visit") \cup {n}
         /\ \A a \in VisitedAt(t, r, n, "visit") : t[a].id < t[n].id
  BY DEF VisitedAt

LEMMA VisitedRight ==
  ASSUME NEW t, NEW r, Tree(t, r), NEW n \in DOMAIN t, t[n].right # NULL
  PROVE  /\ VisitedAt(t, r, t[n].right, "left") = VisitedAt(t, r, n, "right")
         /\ \A m \in DOMAIN t : Within(t, r, n, m) => Within(t, r, t[n].right, m)
         /\ Topmost(t, r, n) => Topmost(t, r, t[n].right)
<1> DEFINE c == t[n].right
<1>1. \A a \in DOMAIN t : t[a].id \in Int
  BY TreeTyped
<1>2. c \in DOMAIN t
  BY TreeTyped
<1>3. \A a \in DOMAIN t :
        a \in Under(t, r, c) <=> a \in Under(t, r, n) /\ t[a].id > t[n].id
  BY UnderRight
<1>4. c \in Under(t, r, c) /\ n \in Under(t, r, n)
  BY <1>2, UnderSelf
<1>5. t[c].id > t[n].id /\ c \in Under(t, r, n)
  BY <1>2, <1>3, <1>4
<1> HIDE DEF c
<1>6. \A a \in DOMAIN t :
        t[n].id < t[a].id /\ t[a].id < t[c].id => a \in Under(t, r, n)
  <2> SUFFICES ASSUME NEW a \in DOMAIN t, t[n].id < t[a].id, t[a].id < t[c].id
               PROVE  a \in Under(t, r, n)
    OBVIOUS
  <2>1. t[n].id <= t[a].id /\ t[a].id <= t[c].id
    BY <1>1, <1>2
  <2> QED BY <1>4, <1>5, <2>1, UnderBetween
<1>7. \A a \in DOMAIN t :
        t[a].id < t[c].id /\ a \notin Under(t, r, c) <=> t[a].id < t[n].id \/ a = n
  <2> SUFFICES ASSUME NEW a \in DOMAIN t
               PROVE  t[a].id < t[c].id /\ a \notin Under(t, r, c)
                        <=> t[a].id < t[n].id \/ a = n
    OBVIOUS
  <2>1. t[a].id = t[n].id => a = n
    BY IdsDiffer
  <2> QED BY <1>1, <1>2, <1>3, <1>5, <1>6, <2>1
<1>8. VisitedAt(t, r, c, "left") = VisitedAt(t, r, n, "right")
  BY <1>7 DEF VisitedAt
<1>9. ASSUME NEW m \in DOMAIN t, Within(t, r, n, m) PROVE Within(t, r, c, m)
  BY <1>1, <1>2, <1>3, <1>5, <1>9 DEF Within
<1>10. ASSUME Topmost(t, r, n) PROVE Topmost(t, r, c)
  BY <1>1, <1>2, <1>3, <1>5, <1>10 DEF Topmost
<1> QED BY <1>8, <1>9, <1>10 DEF c

LEMMA VisitedReturn ==
  ASSUME NEW t, NEW r, Tree(t, r), NEW n \in DOMAIN t, t[n].right = NULL
  PROVE  /\ \A m \in DOMAIN t : Within(t, r, n, m) =>
              VisitedAt(t, r, m, "visit") = VisitedAt(t, r, n, "right")
         /\ Topmost(t, r, n) => VisitedAt(t, r, n, "right") = DOMAIN t
<1>1. \A a \in DOMAIN t : t[a].id \in Int
  BY TreeTyped
<1>2. \A a \in Under(t, r, n) : ~(t[a].id > t[n].id)
  BY UnderNothing
<1>3. n \in Under(t, r, n)
  BY UnderSelf
<1>4. \A a \in DOMAIN t : t[a].id = t[n].id => a = n
  BY IdsDiffer
<1>5. ASSUME NEW m \in DOMAIN t, Within(t, r, n, m)
      PROVE  VisitedAt(t, r, m, "visit") = VisitedAt(t, r, n, "right")
  <2>1. t[n].id < t[m].id
    BY <1>3, <1>5 DEF Within
  <2>2. \A a \in DOMAIN t : t[a].id < t[m].id <=> t[a].id < t[n].id \/ a = n
    BY <1>1, <1>2, <1>4, <1>5, <2>1 DEF Within
  <2> QED BY <2>2 DEF VisitedAt
<1>6. ASSUME Topmost(t, r, n) PROVE VisitedAt(t, r, n, "right") = DOMAIN t
  <2>1. \A a \in DOMAIN t : t[a].id < t[n].id \/ a = n
    BY <1>1, <1>2, <1>4, <1>6 DEF Topmost
  <2> QED BY <2>1 DEF VisitedAt
<1> QED BY <1>5, <1>6
-----------------------------------------------------------------------------
\* The calls of a walk: each but the innermost has visited its left subtree,
\* and nothing else, before the next one began.
Nest ==
  /\ \A k \in 1 .. Len(calls) : calls[k].at \in Addresses
  /\ \A k \in 1 .. Len(calls) - 1 :
       calls[k].next = "visit" /\ Within(node, root, calls[k + 1].at, calls[k].at)
  /\ calls # <<>> => Topmost(node, root, calls[1].at)

\* The nodes whose records are written.
Visited ==
  IF calls = <<>> THEN Addresses
  ELSE VisitedAt(node, root, Innermost.at, Innermost.next)

Ascending(lines) == \A j, k \in DOMAIN lines : j < k => lines[j].id < lines[k].id

Written(a) == Record(node[a].id, node[a].left_stock)

\* A listing may be cut short, and has no calls then.
WalkInv ==
  pc \in {"counting", "saving", "listing"} =>
    /\ Nest
    /\ Ascending(seen)
    /\ \A k \in DOMAIN seen : \E a \in Visited : seen[k] = Written(a)
    /\ ~(pc = "listing" /\ calls = <<>>) =>
         \A a \in Visited : \E k \in DOMAIN seen : seen[k] = Written(a)

Present(a) == a \in Addresses \cup {NULL}

\* While the tree is freed: the calls lead from the root down to where it has
\* got to, and the nodes that are left hang together.
FreeInv ==
  pc = "destroying" =>
    /\ Addresses \subseteq Nat
    /\ node \in [Addresses -> Items(Nat)]
    /\ Linked(node)
    /\ \A a \in Addresses : root <= a
    /\ root \in Addresses => calls # <<>>
    /\ calls # <<>> => calls[1].at = root
    /\ \A k \in 1 .. Len(calls) : calls[k].at \in Addresses
    /\ \A j, k \in 1 .. Len(calls) : j < k => calls[j].at < calls[k].at
    /\ \A k \in 1 .. Len(calls) - 1 :
         \/ calls[k].next = "visit" /\ calls[k + 1].at = node[calls[k].at].left
         \/ calls[k].next = "right" /\ calls[k + 1].at = node[calls[k].at].right
    /\ \A a \in Addresses \ {root} : \E p \in Addresses :
         node[p].left = a \/ node[p].right = a
    /\ \A k \in 1 .. Len(calls) :
         LET n == node[calls[k].at]
             next == calls[k].next
             last == k = Len(calls)
         IN  /\ next = "left" => Present(n.left) /\ Present(n.right)
             /\ next = "visit" => Present(n.right) /\ (last => n.left \notin Addresses)
             /\ next = "right" => n.left \notin Addresses
                                  /\ (last => n.right \notin Addresses)
    /\ \A a \in Addresses : (\A k \in 1 .. Len(calls) : calls[k].at # a) =>
         Present(node[a].left) /\ Present(node[a].right)

\* A save is in the order of the ids, and so is what is left of it to load.
IsSaved(lines) ==
  /\ Ascending(lines)
  /\ \A k \in DOMAIN lines : lines[k].is = "record" /\ lines[k].id \in 1 .. MaxInt

SaveInv ==
  /\ files.by = "save" => IsSaved(files.stock) /\ files.log = <<>>
  /\ pc \notin {"down", "destroying"} /\ files.by = "init" => boot
  /\ files.by = "save" /\ pc = "loading" =>
       IsSaved(input) /\ \A a \in Addresses, k \in DOMAIN input : node[a].id < input[k].id
  /\ files.by = "save" /\ ~boot /\ pc \notin {"down", "destroying"} =>
       \A a \in Addresses : node[a].left = NULL

Typed ==
  /\ pc \in {"down", "loading", "replaying", "counting", "serving", "listing",
             "saving", "destroying"}
  /\ boot \in BOOLEAN
  /\ files \in [by : {"init", "given", "save"}, stock : Seq(Lines), log : Seq(Lines)]
  /\ input \in Seq(Lines)
  /\ calls \in Seq(Frames)
  /\ seen \in Seq(Lines)
  /\ IF pc = "listing" THEN Holds(response) ELSE response = NoResponse

TreeInv ==
  /\ pc # "destroying" =>
       Tree(node, root) /\ \A a \in Addresses : node[a].id \in 1 .. MaxInt
  /\ pc = "down" => node = NoNodes
  /\ pc \in {"down", "loading", "replaying", "serving"} => calls = <<>>

IndInv == Typed /\ TreeInv /\ WalkInv /\ FreeInv /\ SaveInv

\* A frame is a record of two fields.
LEMMA InnermostMoved ==
  ASSUME calls \in Seq(Frames), calls # <<>>, NEW next \in {"left", "visit", "right"},
         NEW child, child # NULL => child \in Nat, Recurse(next, child)
  PROVE  /\ calls' # <<>> /\ calls' \in Seq(Frames)
         /\ Innermost' = IF child = NULL THEN [at |-> Innermost.at, next |-> next]
                         ELSE [at |-> child, next |-> "left"]
<1>1. /\ calls' \in Seq(Frames)
      /\ Len(calls') = IF child = NULL THEN Len(calls) ELSE Len(calls) + 1
      /\ calls'[Len(calls)] = [at |-> Innermost.at, next |-> next]
      /\ child # NULL => calls'[Len(calls) + 1] = [at |-> child, next |-> "left"]
  BY RecurseMeans
<1>2. Len(calls) \in Nat \ {0}
  BY EmptySeq
<1>3. calls' # <<>>
  <2>1. Len(calls') # 0
    BY <1>1, <1>2
  <2> QED BY <2>1
<1> QED BY <1>1, <1>3 DEF Innermost

\* A walk that goes on to a left child, or on in the same call, stays nested.
LEMMA NestMoves ==
  ASSUME calls \in Seq(Frames), calls # <<>>, Nest, node' = node, root' = root,
         Addresses \subseteq Nat,
         NEW next \in {"visit", "right"}, NEW child, Recurse(next, child),
         child # NULL => /\ child \in Addresses /\ next = "visit"
                         /\ Within(node, root, child, Innermost.at)
  PROVE  Nest'
<1> DEFINE n == Len(calls)
<1>1. n \in Nat \ {0} /\ Innermost = calls[n]
  BY EmptySeq DEF Innermost
<1>2. /\ calls' \in Seq(Frames)
      /\ Len(calls') = IF child = NULL THEN n ELSE n + 1
      /\ \A k \in 1 .. n - 1 : calls'[k] = calls[k]
      /\ calls'[n] = [at |-> Innermost.at, next |-> next]
      /\ child # NULL => calls'[n + 1] = [at |-> child, next |-> "left"]
  BY RecurseMeans
<1>3. /\ \A k \in 1 .. n : calls[k].at \in Addresses
      /\ \A k \in 1 .. n - 1 : calls[k].next = "visit"
                               /\ Within(node, root, calls[k + 1].at, calls[k].at)
      /\ Topmost(node, root, calls[1].at)
  BY DEF Nest
<1> HIDE DEF n
<1>4. /\ \A k \in 1 .. n : calls'[k].at = calls[k].at
      /\ \A k \in 1 .. n - 1 : calls'[k].next = calls[k].next
      /\ calls'[n].next = next
      /\ child # NULL => calls'[n + 1].at = child
  BY <1>1, <1>2
<1>5. ASSUME NEW k \in 1 .. Len(calls') PROVE calls'[k].at \in Addresses
  BY <1>1, <1>2, <1>3, <1>4
<1>6. ASSUME NEW k \in 1 .. Len(calls') - 1
      PROVE  calls'[k].next = "visit"
             /\ Within(node, root, calls'[k + 1].at, calls'[k].at)
  <2>1. CASE k \in 1 .. n - 1
    <3>1. k \in 1 .. n /\ k + 1 \in 1 .. n
      BY <1>1, <2>1
    <3> QED BY <1>3, <1>4, <2>1, <3>1
  <2>2. CASE k \notin 1 .. n - 1
    <3>1. k = n /\ child # NULL
      BY <1>1, <1>2, <2>2
    <3>2. n \in 1 .. n
      BY <1>1
    <3> QED BY <1>1, <1>4, <3>1, <3>2
  <2> QED BY <2>1, <2>2
<1>7. calls'[1].at = calls[1].at
  BY <1>1, <1>4
<1> QED BY <1>3, <1>5, <1>6, <1>7 DEF Nest, Addresses

\* So does one that returns, or goes on to a right child in the call's place.
LEMMA NestReturns ==
  ASSUME calls \in Seq(Frames), calls # <<>>, Nest, node' = node, root' = root,
         Addresses \subseteq Nat, NEW child,
         calls' = Outer \o (IF child = NULL THEN <<>>
                            ELSE <<[at |-> child, next |-> "left"]>>),
         child # NULL =>
           /\ child \in Addresses
           /\ \A m \in Addresses : Within(node, root, Innermost.at, m)
                                     => Within(node, root, child, m)
           /\ Topmost(node, root, Innermost.at) => Topmost(node, root, child)
  PROVE  /\ Nest' /\ calls' \in Seq(Frames)
         /\ child # NULL => calls' # <<>> /\ Innermost' = [at |-> child, next |-> "left"]
         /\ child = NULL =>
              IF calls' = <<>> THEN Topmost(node, root, Innermost.at)
              ELSE /\ Innermost'.at \in Addresses /\ Innermost'.next = "visit"
                   /\ Within(node, root, Innermost.at, Innermost'.at)
<1> DEFINE n == Len(calls)
<1>1. n \in Nat \ {0} /\ Innermost = calls[n]
  BY EmptySeq DEF Innermost
<1>2. /\ calls' \in Seq(Frames)
      /\ Len(calls') = IF child = NULL THEN n - 1 ELSE n
      /\ \A k \in 1 .. n - 1 : calls'[k] = calls[k]
      /\ child # NULL => calls'[n] = [at |-> child, next |-> "left"]
  BY ReturnMeans
<1>3. /\ \A k \in 1 .. n : calls[k].at \in Addresses
      /\ \A k \in 1 .. n - 1 : calls[k].next = "visit"
                               /\ Within(node, root, calls[k + 1].at, calls[k].at)
      /\ Topmost(node, root, calls[1].at)
  BY DEF Nest
<1>4. Innermost' = calls'[Len(calls')]
  BY DEF Innermost
<1>5. calls' = <<>> <=> Len(calls') = 0
  BY <1>2, EmptySeq
<1> HIDE DEF n
<1>6. ASSUME NEW k \in 1 .. Len(calls') PROVE calls'[k].at \in Addresses
  BY <1>1, <1>2, <1>3
<1>7. ASSUME NEW k \in 1 .. Len(calls') - 1
      PROVE  calls'[k].next = "visit"
             /\ Within(node, root, calls'[k + 1].at, calls'[k].at)
  <2>1. k \in 1 .. n - 1 /\ calls'[k] = calls[k] /\ calls[k].at \in Addresses
    BY <1>1, <1>2, <1>3
  <2>2. CASE k + 1 \in 1 .. n - 1
    BY <1>2, <1>3, <2>1, <2>2
  <2>3. CASE k + 1 \notin 1 .. n - 1
    <3>1. k + 1 = n /\ child # NULL
      BY <1>1, <1>2, <2>3
    <3>2. calls'[k + 1].at = child /\ Within(node, root, Innermost.at, calls[k].at)
      BY <1>1, <1>2, <1>3, <2>1, <3>1
    <3> QED BY <1>3, <2>1, <3>1, <3>2
  <2> QED BY <2>2, <2>3
<1>8. calls' # <<>> => Topmost(node, root, calls'[1].at)
  <2>1. CASE n = 1
    BY <1>1, <1>2, <1>3, <1>5, <2>1
  <2>2. CASE n # 1
    <3>1. 1 \in 1 .. n - 1
      BY <1>1, <2>2
    <3> QED BY <1>2, <1>3, <3>1
  <2> QED BY <2>1, <2>2
<1>9. Nest'
  BY <1>6, <1>7, <1>8 DEF Nest, Addresses
<1>10. ASSUME child # NULL
       PROVE  calls' # <<>> /\ Innermost' = [at |-> child, next |-> "left"]
  BY <1>1, <1>2, <1>4, <1>5, <1>10
<1>11. ASSUME child = NULL, calls' # <<>>
       PROVE  /\ Innermost'.at \in Addresses /\ Innermost'.next = "visit"
              /\ Within(node, root, Innermost.at, Innermost'.at)
  <2>1. n - 1 \in 1 .. n - 1 /\ n - 1 \in 1 .. n /\ n - 1 + 1 = n
    BY <1>1, <1>2, <1>5, <1>11
  <2>2. Innermost' = calls[n - 1]
    BY <1>2, <1>4, <1>11, <2>1
  <2> QED BY <1>1, <1>3, <2>1, <2>2
<1>12. ASSUME child = NULL, calls' = <<>> PROVE Topmost(node, root, Innermost.at)
  <2>1. n = 1
    BY <1>1, <1>2, <1>5, <1>12
  <2> QED BY <1>1, <1>3, <2>1
<1> QED BY <1>2, <1>9, <1>10, <1>11, <1>12
-----------------------------------------------------------------------------
LEMMA StartTyped ==
  ASSUME NEW to, CallOnRoot(to), Tree(node, root)
  PROVE  /\ pc' = to /\ calls' \in Seq(Frames) /\ seen' = <<>> /\ seen' \in Seq(Lines)
         /\ IF to = "listing" THEN Holds(response') ELSE response' = NoResponse
         /\ root = NULL => calls' = <<>> /\ Addresses = {}
         /\ root # NULL => /\ Len(calls') = 1 /\ calls' # <<>>
                           /\ calls'[1] = [at |-> root, next |-> "left"]
                           /\ root \in Addresses
<1>1. pc' = to /\ seen' = <<>> /\ seen' \in Seq(Lines)
  BY DEF CallOnRoot
<1>2. Holds(response_init)
  BY ResponseAssumption DEF Holds, response_init, NUL, Garbage
<1>3. IF to = "listing" THEN Holds(response') ELSE response' = NoResponse
  BY <1>2 DEF CallOnRoot
<1>4. root = NULL => calls' = <<>> /\ Addresses = {}
  BY TreeTyped DEF CallOnRoot, Addresses
<1>5. ASSUME root # NULL
      PROVE  /\ Len(calls') = 1 /\ calls' # <<>> /\ calls' \in Seq(Frames)
             /\ calls'[1] = [at |-> root, next |-> "left"]
             /\ root \in Addresses
  <2>1. root \in Addresses /\ root \in Nat
    BY <1>5, TreeTyped DEF Addresses
  <2>2. [at |-> root, next |-> "left"] \in Frames
    BY <2>1 DEF Frames
  <2>3. calls' = <<[at |-> root, next |-> "left"]>>
    BY <1>5 DEF CallOnRoot
  <2> QED BY <2>1, <2>2, <2>3
<1>6. calls' \in Seq(Frames)
  <2>1. <<>> \in Seq(Frames)
    BY EmptySeq
  <2> QED BY <1>4, <1>5, <2>1
<1> QED BY <1>1, <1>3, <1>4, <1>5, <1>6

LEMMA StartsWalk ==
  ASSUME NEW to, CallOnRoot(to), Tree(node, root), UNCHANGED tree
  PROVE  WalkInv'
<1>1. /\ seen' = <<>> /\ DOMAIN seen' = {} /\ node' = node /\ root' = root
      /\ root = NULL => calls' = <<>> /\ Addresses = {}
      /\ root # NULL => /\ Len(calls') = 1 /\ calls' # <<>>
                        /\ calls'[1] = [at |-> root, next |-> "left"]
                        /\ root \in Addresses
  BY StartTyped DEF tree
<1>2. Ascending(seen')
  BY <1>1 DEF Ascending
<1>3. CASE root = NULL
  <2>1. Nest'
    <3>1. Len(calls') = 0
      BY <1>1, <1>3
    <3> QED BY <1>1, <1>3, <3>1 DEF Nest
  <2>2. Visited' = {}
    BY <1>1, <1>3 DEF Visited, Addresses
  <2> QED BY <1>1, <1>2, <2>1, <2>2 DEF WalkInv
<1>4. CASE root # NULL
  <2>1. Under(node, root, root) = Addresses
    BY <1>1, <1>4, UnderSelf DEF Addresses
  <2>2. Topmost(node, root, root)
    BY <2>1 DEF Topmost, Addresses
  <2>3. Nest'
    <3>1. /\ \A k \in 1 .. Len(calls') : k = 1
          /\ 1 .. Len(calls') - 1 = {}
      BY <1>1, <1>4
    <3>2. calls'[1].at = root
      BY <1>1, <1>4
    <3> QED BY <1>1, <1>4, <2>2, <3>1, <3>2 DEF Nest, Addresses
  <2>4. Innermost' = [at |-> root, next |-> "left"]
    BY <1>1, <1>4 DEF Innermost
  <2>5. VisitedAt(node, root, root, "left") = {}
    BY <2>1 DEF VisitedAt, Addresses
  <2>6. Visited' = {}
    BY <1>1, <1>4, <2>4, <2>5 DEF Visited
  <2> QED BY <1>1, <1>2, <2>3, <2>6 DEF WalkInv
<1> QED BY <1>3, <1>4

LEMMA StartsFreeing ==
  ASSUME Destroy, Tree(node, root), UNCHANGED tree
  PROVE  FreeInv'
<1>1. /\ node' = node /\ root' = root /\ Addresses' = Addresses
      /\ root = NULL => calls' = <<>> /\ Addresses = {}
      /\ root # NULL => /\ Len(calls') = 1 /\ calls' # <<>>
                        /\ calls'[1] = [at |-> root, next |-> "left"]
                        /\ root \in Addresses
  BY StartTyped DEF tree, Destroy, Addresses
<1>2. /\ Addresses \subseteq Nat /\ NULL \notin Addresses
      /\ \A a \in Addresses : /\ node[a].left \in Addresses \cup {NULL}
                              /\ node[a].right \in Addresses \cup {NULL}
                              /\ node[a].id \in Int
      /\ \A a \in Addresses : root <= a
  BY TreeTyped DEF Addresses
<1>3. Linked(node)
  BY DEF Tree
<1>4. node \in [Addresses -> Items(Nat)]
  <2>1. node \in [Addresses -> Items(Addresses)]
    BY DEF Tree, Addresses
  <2>2. Items(Addresses) \subseteq Items(Nat)
    BY <1>2 DEF Items
  <2> QED BY <2>1, <2>2
<1>5. ASSUME NEW a \in Addresses \ {root}
      PROVE  \E p \in Addresses : node[p].left = a \/ node[p].right = a
  <2>1. a \in Path(node, root, node[a].id) /\ node[a].id \in Int
    BY <1>2 DEF Tree, Addresses
  <2>2. PICK p \in Path(node, root, node[a].id) : Child(node, p, node[a].id) = a
    BY <2>1, PathParent
  <2> QED BY <1>2, <2>2 DEF Path, Child, Addresses
<1>6. CASE root = NULL
  <2>1. Len(calls') = 0 /\ calls' = <<>>
    BY <1>1, <1>6
  <2> QED BY <1>1, <1>2, <1>3, <1>4, <1>6, <2>1 DEF FreeInv
<1>7. CASE root # NULL
  <2>1. /\ Len(calls') = 1 /\ calls' # <<>> /\ calls'[1].at = root
        /\ calls'[1].next = "left" /\ root \in Addresses
    BY <1>1, <1>7
  <2>2. \A a \in Addresses : Present(node[a].left)' /\ Present(node[a].right)'
    BY <1>1, <1>2 DEF Present
  <2>3. \A k \in 1 .. 1 : k = 1
    OBVIOUS
  <2>4. 1 .. 1 - 1 = {}
    OBVIOUS
  <2> QED BY <1>1, <1>2, <1>3, <1>4, <1>5, <2>1, <2>2, <2>3, <2>4 DEF FreeInv, Present
<1> QED BY <1>6, <1>7

\* The steps of a walk.
LEMMA WalkLeftStep ==
  ASSUME Typed, Tree(node, root), WalkInv, WalkLeft
  PROVE  WalkInv' /\ calls' \in Seq(Frames)
<1> DEFINE n == Innermost.at
           c == node[n].left
<1>1. /\ calls \in Seq(Frames) /\ calls # <<>> /\ Innermost.next = "left"
      /\ pc \in {"counting", "saving", "listing"} /\ Recurse("visit", c)
      /\ pc' = pc /\ seen' = seen /\ node' = node /\ root' = root
  BY DEF Typed, WalkLeft, Walking, Here, tree
<1>2. Nest
  BY <1>1 DEF WalkInv
<1>3. n \in Addresses /\ Addresses \subseteq Nat
  <2>1. Len(calls) \in Nat \ {0}
    BY <1>1, EmptySeq
  <2> QED BY <1>2, <2>1, TreeTyped DEF Nest, Innermost, Addresses
<1>4. c \in Addresses \cup {NULL}
  BY <1>3, TreeTyped DEF Addresses
<1>5. /\ c = NULL => VisitedAt(node, root, n, "visit") = VisitedAt(node, root, n, "left")
      /\ c # NULL =>
           /\ VisitedAt(node, root, c, "left") = VisitedAt(node, root, n, "left")
           /\ Within(node, root, c, n)
  BY <1>3, VisitedLeft DEF Addresses
<1> HIDE DEF c
<1>6. Nest'
  BY <1>1, <1>2, <1>3, <1>4, <1>5, NestMoves
<1>7. /\ calls' # <<>> /\ calls' \in Seq(Frames)
      /\ Innermost' = IF c = NULL THEN [at |-> n, next |-> "visit"]
                      ELSE [at |-> c, next |-> "left"]
  BY <1>1, <1>3, <1>4, InnermostMoved
<1>8. Visited' = Visited
  BY <1>1, <1>5, <1>7 DEF Visited
<1>9. \A a : Written(a)' = Written(a)
  BY <1>1 DEF Written
<1> QED BY <1>1, <1>6, <1>7, <1>8, <1>9 DEF WalkInv

\* The record of the node goes behind those of lower ids.
LEMMA SeenGrows ==
  ASSUME Typed, Tree(node, root), WalkInv, pc' = pc, node' = node, root' = root,
         pc \in {"counting", "saving", "listing"}, calls # <<>>,
         Innermost.next = "visit", Recurse("right", NULL),
         seen' = Append(seen, Record(Here.id, Here.left_stock))
  PROVE  /\ WalkInv' /\ calls' \in Seq(Frames) /\ seen' \in Seq(Lines)
         /\ Innermost.at \in Addresses
<1> DEFINE n == Innermost.at
           rec == Written(n)
<1>1. /\ calls \in Seq(Frames) /\ seen \in Seq(Lines) /\ Len(seen) \in Nat
      /\ seen' = Append(seen, rec)
  BY DEF Typed, Here, Written
<1>2. /\ Nest /\ Ascending(seen) /\ DOMAIN seen = 1 .. Len(seen)
      /\ \A k \in DOMAIN seen : \E a \in Visited : seen[k] = Written(a)
      /\ \A a \in Visited : \E k \in DOMAIN seen : seen[k] = Written(a)
  BY <1>1 DEF WalkInv
<1>3. n \in Addresses /\ Addresses \subseteq Nat
  <2>1. Len(calls) \in Nat \ {0}
    BY <1>1, EmptySeq
  <2> QED BY <1>2, <2>1, TreeTyped DEF Nest, Innermost, Addresses
<1>4. Nest'
  BY <1>1, <1>2, <1>3, NestMoves
<1>5. calls' # <<>> /\ calls' \in Seq(Frames) /\ Innermost' = [at |-> n, next |-> "right"]
  BY <1>1, InnermostMoved
<1>6. /\ Visited = VisitedAt(node, root, n, "visit")
      /\ Visited' = VisitedAt(node, root, n, "right")
      /\ Visited' = Visited \cup {n}
      /\ \A a \in Visited : node[a].id < node[n].id
  <2>1. Visited = VisitedAt(node, root, n, "visit")
    BY DEF Visited
  <2>2. Visited' = VisitedAt(node, root, n, "right")
    BY <1>5 DEF Visited
  <2> QED BY <1>3, <2>1, <2>2, VisitedNode DEF Addresses
<1>7. rec \in Lines
  BY <1>3, TreeTyped DEF Written, Record, Lines, Addresses
<1>8. \A a : Written(a)' = Written(a)
  BY DEF Written
<1> HIDE DEF rec
<1>9. /\ seen' \in Seq(Lines) /\ Len(seen') = Len(seen) + 1
      /\ \A k \in 1 .. Len(seen) : seen'[k] = seen[k]
      /\ seen'[Len(seen) + 1] = rec
  BY <1>1, <1>7, AppendProperties
<1>10. DOMAIN seen' = 1 .. Len(seen) + 1
  BY <1>9
<1>11. ASSUME NEW k \in DOMAIN seen
       PROVE  k \in DOMAIN seen' /\ seen'[k] = seen[k] /\ seen[k].id < node[n].id
  BY <1>1, <1>2, <1>6, <1>9, <1>10 DEF Written, Record
<1>12. ASSUME NEW k \in DOMAIN seen' PROVE k \in DOMAIN seen \/ k = Len(seen) + 1
  BY <1>1, <1>2, <1>10
<1>13. rec.id = node[n].id /\ Len(seen) + 1 \in DOMAIN seen' /\ rec = Written(n)
  BY <1>1, <1>10 DEF rec, Written, Record
<1>14. Ascending(seen')
  <2> SUFFICES ASSUME NEW j \in DOMAIN seen', NEW k \in DOMAIN seen', j < k
               PROVE  seen'[j].id < seen'[k].id
    BY DEF Ascending
  <2>1. j \in DOMAIN seen
    BY <1>1, <1>2, <1>10
  <2>2. CASE k \in DOMAIN seen
    BY <1>2, <1>11, <2>1, <2>2 DEF Ascending
  <2>3. CASE k = Len(seen) + 1
    BY <1>9, <1>11, <1>13, <2>1, <2>3
  <2> QED BY <1>12, <2>2, <2>3
<1>15. ASSUME NEW k \in DOMAIN seen' PROVE \E a \in Visited' : seen'[k] = Written(a)
  BY <1>2, <1>6, <1>9, <1>11, <1>12, <1>13
<1>16. ASSUME NEW a \in Visited' PROVE \E k \in DOMAIN seen' : seen'[k] = Written(a)
  BY <1>2, <1>6, <1>9, <1>11, <1>13
<1> QED BY <1>3, <1>4, <1>5, <1>8, <1>9, <1>14, <1>15, <1>16 DEF WalkInv

LEMMA WalkRightStep ==
  ASSUME Typed, Tree(node, root), WalkInv, WalkRight
  PROVE  WalkInv' /\ calls' \in Seq(Frames) /\ Visited' = Visited
<1> DEFINE n == Innermost.at
           c == node[n].right
<1>1. /\ calls \in Seq(Frames) /\ calls # <<>> /\ Innermost.next = "right"
      /\ pc \in {"counting", "saving", "listing"}
      /\ calls' = Outer \o (IF c = NULL THEN <<>>
                            ELSE <<[at |-> c, next |-> "left"]>>)
      /\ pc' = pc /\ seen' = seen /\ node' = node /\ root' = root
  BY DEF Typed, WalkRight, Walking, Here, tree
<1>2. Nest
  BY <1>1 DEF WalkInv
<1>3. n \in Addresses /\ Addresses \subseteq Nat
  <2>1. Len(calls) \in Nat \ {0}
    BY <1>1, EmptySeq
  <2> QED BY <1>2, <2>1, TreeTyped DEF Nest, Innermost, Addresses
<1>4. c \in Addresses \cup {NULL}
  BY <1>3, TreeTyped DEF Addresses
<1>5. c # NULL =>
        /\ VisitedAt(node, root, c, "left") = VisitedAt(node, root, n, "right")
        /\ \A m \in Addresses : Within(node, root, n, m) => Within(node, root, c, m)
        /\ Topmost(node, root, n) => Topmost(node, root, c)
  BY <1>3, VisitedRight DEF Addresses
<1>6. c = NULL =>
        /\ \A m \in Addresses : Within(node, root, n, m) =>
             VisitedAt(node, root, m, "visit") = VisitedAt(node, root, n, "right")
        /\ Topmost(node, root, n) => VisitedAt(node, root, n, "right") = Addresses
  BY <1>3, VisitedReturn DEF Addresses
<1> HIDE DEF c
<1>7. /\ Nest' /\ calls' \in Seq(Frames)
      /\ c # NULL => calls' # <<>> /\ Innermost' = [at |-> c, next |-> "left"]
      /\ c = NULL =>
           IF calls' = <<>> THEN Topmost(node, root, n)
           ELSE /\ Innermost'.at \in Addresses /\ Innermost'.next = "visit"
                /\ Within(node, root, n, Innermost'.at)
  BY <1>1, <1>2, <1>3, <1>4, <1>5, NestReturns
<1>8. Visited = VisitedAt(node, root, n, "right")
  BY <1>1 DEF Visited
<1>9. Visited' = Visited
  <2>1. CASE c # NULL
    BY <1>1, <1>5, <1>7, <1>8, <2>1 DEF Visited
  <2>2. CASE c = NULL /\ calls' = <<>>
    BY <1>1, <1>6, <1>7, <1>8, <2>2 DEF Visited, Addresses
  <2>3. CASE c = NULL /\ calls' # <<>>
    BY <1>1, <1>6, <1>7, <1>8, <2>3 DEF Visited
  <2> QED BY <2>1, <2>2, <2>3
<1>10. \A a : Written(a)' = Written(a)
  BY <1>1 DEF Written
<1> QED BY <1>1, <1>7, <1>9, <1>10 DEF WalkInv

LEMMA RowTyped ==
  ASSUME NEW i \in Int, NEW n \in Int
  PROVE  Row(i, n) \in Seq(Int)
<1>1. /\ Digit(i) \in Seq(Int) /\ Digit(n) \in Seq(Int)
      /\ <<32>> \in Seq(Int) /\ <<10>> \in Seq(Int)
  BY DEF Digit
<1>2. Digit(i) \o <<32>> \in Seq(Int)
  BY <1>1, ConcatProperties
<1>3. Digit(i) \o <<32>> \o Digit(n) \in Seq(Int)
  BY <1>1, <1>2, ConcatProperties
<1> QED BY <1>1, <1>3, ConcatProperties DEF Row

LEMMA ListRowStep ==
  ASSUME Typed, Tree(node, root), WalkInv, ListRow
  PROVE  WalkInv' /\ calls' \in Seq(Frames) /\ seen' \in Seq(Lines) /\ Holds(response')
<1> DEFINE row == Row(Here.id, Here.left_stock)
<1>1. /\ pc = "listing" /\ pc' = pc /\ calls # <<>> /\ Innermost.next = "visit"
      /\ node' = node /\ root' = root /\ Holds(response)
      /\ calls \in Seq(Frames) /\ seen \in Seq(Lines)
  BY DEF ListRow, Walking, Typed, tree
<1>2. Innermost.at \in Addresses /\ Addresses \subseteq Nat
  <2>1. Len(calls) \in Nat \ {0}
    BY <1>1, EmptySeq
  <2> QED BY <1>1, <2>1, TreeTyped DEF WalkInv, Nest, Innermost, Addresses
<1>3. row \in Seq(Int)
  BY <1>2, TreeTyped, RowTyped DEF Here, Addresses
<1>4. CASE /\ AppendStatus(response, row) = "OK"
           /\ response' = response_appendf(response, row)
           /\ seen' = Append(seen, Record(Here.id, Here.left_stock))
           /\ Recurse("right", NULL)
  <2>1. WalkInv' /\ calls' \in Seq(Frames) /\ seen' \in Seq(Lines)
    BY <1>1, <1>4, SeenGrows
  <2>2. Holds(response')
    <3> HIDE DEF row
    <3> QED BY <1>1, <1>3, <1>4, AppendfMeans
  <2> QED BY <2>1, <2>2
<1>5. CASE /\ response' = Refusal(response, internal_error)
           /\ calls' = <<>> /\ seen' = seen
  <2>1. internal_error \in Seq(Int) /\ Len(internal_error) < SizeMax
    BY StoreAssumption DEF internal_error
  <2>2. Holds(response')
    BY <1>1, <1>5, <2>1, RefusalMeans
  <2>3. calls' \in Seq(Frames) /\ Len(calls') = 0
    BY <1>5, EmptySeq
  <2>4. Nest'
    BY <1>5, <2>3 DEF Nest
  <2>5. Visited' = Addresses /\ Visited \subseteq Addresses
    BY <1>1, <1>5 DEF Visited, VisitedAt, Addresses
  <2>6. \A a : Written(a)' = Written(a)
    BY <1>1 DEF Written
  <2> QED BY <1>1, <1>5, <2>2, <2>3, <2>4, <2>5, <2>6 DEF WalkInv
<1> QED BY <1>4, <1>5 DEF ListRow
-----------------------------------------------------------------------------
\* The steps that free the tree.
LEMMA FreeFacts ==
  ASSUME Typed, FreeInv, Freeing
  PROVE  /\ calls \in Seq(Frames) /\ Len(calls) \in Nat \ {0}
         /\ Innermost = calls[Len(calls)] /\ Innermost.at \in Addresses
         /\ Innermost.at \in Nat
         /\ Here.left \in Nat \cup {NULL} /\ Here.right \in Nat \cup {NULL}
         /\ Here.left # NULL => Here.left > Innermost.at
         /\ Here.right # NULL => Here.right > Innermost.at
         /\ \A k \in 1 .. Len(calls) : calls[k].at <= Innermost.at
<1> DEFINE n == Len(calls)
<1>1. /\ pc = "destroying" /\ calls # <<>> /\ calls \in Seq(Frames)
      /\ n \in Nat \ {0} /\ Innermost = calls[n]
  BY EmptySeq DEF Freeing, Typed, Innermost
<1> HIDE DEF n
<1>2. /\ \A k \in 1 .. n : calls[k].at \in Addresses
      /\ \A j, k \in 1 .. n : j < k => calls[j].at < calls[k].at
      /\ Addresses \subseteq Nat /\ node \in [Addresses -> Items(Nat)] /\ Linked(node)
  BY <1>1 DEF FreeInv, n
<1>3. Innermost.at \in Addresses
  BY <1>1, <1>2
<1>4. /\ Here.left \in Nat \cup {NULL} /\ Here.right \in Nat \cup {NULL}
      /\ Here.left # NULL => Here.left > Innermost.at
      /\ Here.right # NULL => Here.right > Innermost.at
  BY <1>2, <1>3 DEF Here, Items, Linked, Addresses
<1>5. ASSUME NEW k \in 1 .. n PROVE calls[k].at <= Innermost.at
  <2>0. n \in 1 .. n
    BY <1>1
  <2>1. calls[k].at \in Nat /\ calls[n].at \in Nat /\ n \in 1 .. n
    BY <1>2, <2>0
  <2>2. k < n => calls[k].at < calls[n].at
    BY <1>2, <2>1
  <2>3. k = n \/ k < n
    BY <1>1
  <2>4. calls[k].at <= calls[n].at
    BY <2>1, <2>2, <2>3
  <2> QED BY <1>1, <2>4
<1> QED BY <1>1, <1>2, <1>3, <1>4, <1>5 DEF n

LEMMA FreeMoves ==
  ASSUME Typed, FreeInv, Freeing, node' = node, root' = root, pc' = pc,
         NEW next, NEW child, Recurse(next, child),
         \/ Innermost.next = "left" /\ next = "visit" /\ child = Here.left
         \/ Innermost.next = "visit" /\ next = "right" /\ child = Here.right
  PROVE  FreeInv' /\ calls' \in Seq(Frames)
<1> DEFINE n == Len(calls)
           at == Innermost.at
           Old(k, last) ==
             /\ calls[k].next = "left" =>
                  Present(node[calls[k].at].left) /\ Present(node[calls[k].at].right)
             /\ calls[k].next = "visit" =>
                  /\ Present(node[calls[k].at].right)
                  /\ last => node[calls[k].at].left \notin Addresses
             /\ calls[k].next = "right" =>
                  /\ node[calls[k].at].left \notin Addresses
                  /\ last => node[calls[k].at].right \notin Addresses
           New(k, last) ==
             /\ calls'[k].next = "left" =>
                  Present(node[calls'[k].at].left) /\ Present(node[calls'[k].at].right)
             /\ calls'[k].next = "visit" =>
                  /\ Present(node[calls'[k].at].right)
                  /\ last => node[calls'[k].at].left \notin Addresses
             /\ calls'[k].next = "right" =>
                  /\ node[calls'[k].at].left \notin Addresses
                  /\ last => node[calls'[k].at].right \notin Addresses
<1>1. /\ calls \in Seq(Frames) /\ n \in Nat \ {0} /\ calls # <<>> /\ pc = "destroying"
      /\ Innermost = calls[n] /\ at \in Addresses /\ at \in Nat
      /\ Here = node[at]
      /\ Here.left \in Nat \cup {NULL} /\ Here.right \in Nat \cup {NULL}
      /\ Here.left # NULL => Here.left > at
      /\ Here.right # NULL => Here.right > at
      /\ \A k \in 1 .. n : calls[k].at <= at
  BY FreeFacts DEF Here, Freeing
<1>2. /\ Addresses \subseteq Nat /\ node \in [Addresses -> Items(Nat)] /\ Linked(node)
      /\ \A a \in Addresses : root <= a
      /\ calls[1].at = root
      /\ \A k \in 1 .. n : calls[k].at \in Addresses
      /\ \A j, k \in 1 .. n : j < k => calls[j].at < calls[k].at
      /\ \A k \in 1 .. n - 1 :
           \/ calls[k].next = "visit" /\ calls[k + 1].at = node[calls[k].at].left
           \/ calls[k].next = "right" /\ calls[k + 1].at = node[calls[k].at].right
      /\ \A a \in Addresses \ {root} : \E p \in Addresses :
           node[p].left = a \/ node[p].right = a
      /\ \A k \in 1 .. n : Old(k, k = n)
      /\ \A a \in Addresses : (\A k \in 1 .. n : calls[k].at # a) =>
           Present(node[a].left) /\ Present(node[a].right)
  BY <1>1 DEF FreeInv
<1>3. child \in Nat \cup {NULL} /\ next \in {"visit", "right"}
      /\ (child # NULL => child > at)
  BY <1>1
<1>4. /\ calls' \in Seq(Frames)
      /\ Len(calls') = IF child = NULL THEN n ELSE n + 1
      /\ \A k \in 1 .. n - 1 : calls'[k] = calls[k]
      /\ calls'[n] = [at |-> at, next |-> next]
      /\ child # NULL => calls'[n + 1] = [at |-> child, next |-> "left"]
  BY <1>1, <1>3, RecurseMeans
<1> HIDE DEF n, Old, New
<1>5. n \in 1 .. n /\ 1 \in 1 .. n
  BY <1>1
<1>6. Old(n, TRUE)
  BY <1>2, <1>5
<1>7. child \in Addresses \cup {NULL}
  BY <1>1, <1>6 DEF Old, Present
<1>8. NULL \notin Addresses
  BY <1>2, NullAssumption
<1>9. \A k \in 1 .. n : calls'[k].at = calls[k].at
  BY <1>1, <1>4
<1>10. child # NULL => \A k \in 1 .. n : calls[k].at # child
  BY <1>1, <1>2, <1>3
<1>11. New(n, child = NULL)
  <2>1. CASE Innermost.next = "left" /\ next = "visit" /\ child = Here.left
    <3>1. Present(Here.right) /\ (child = NULL => Here.left \notin Addresses)
      BY <1>1, <1>6, <1>8, <2>1 DEF Old
    <3> QED BY <1>1, <1>4, <2>1, <3>1 DEF New
  <2>2. CASE Innermost.next = "visit" /\ next = "right" /\ child = Here.right
    <3>1. Here.left \notin Addresses /\ (child = NULL => Here.right \notin Addresses)
      BY <1>1, <1>6, <1>8, <2>2 DEF Old
    <3> QED BY <1>1, <1>4, <2>2, <3>1 DEF New
  <2> QED BY <2>1, <2>2
<1>12. child # NULL => New(n + 1, TRUE)
  BY <1>2, <1>4, <1>7, <1>10 DEF New
<1>13. \A k \in 1 .. n - 1 : New(k, FALSE)
  <2> SUFFICES ASSUME NEW k \in 1 .. n - 1 PROVE New(k, FALSE)
    OBVIOUS
  <2>1. k \in 1 .. n /\ k # n /\ calls'[k] = calls[k]
    BY <1>1, <1>4
  <2>2. Old(k, FALSE)
    BY <1>2, <2>1
  <2> QED BY <2>1, <2>2 DEF Old, New
<1>14. ASSUME NEW k \in 1 .. Len(calls')
       PROVE  \/ k \in 1 .. n - 1 /\ k # Len(calls')
              \/ k = n /\ (k = Len(calls') <=> child = NULL)
              \/ k = n + 1 /\ k = Len(calls') /\ child # NULL
  BY <1>1, <1>4
<1>15. \A k \in 1 .. Len(calls') : New(k, k = Len(calls'))
  <2> SUFFICES ASSUME NEW k \in 1 .. Len(calls') PROVE New(k, k = Len(calls'))
    OBVIOUS
  <2>1. CASE k \in 1 .. n - 1 /\ k # Len(calls')
    <3>1. New(k, FALSE) /\ ((k = Len(calls')) = FALSE)
      BY <1>13, <2>1
    <3> QED BY <3>1 DEF New
  <2>2. CASE k = n /\ (k = Len(calls') <=> child = NULL)
    BY <1>11, <2>2 DEF New
  <2>3. CASE k = n + 1 /\ k = Len(calls') /\ child # NULL
    BY <1>12, <2>3 DEF New
  <2> QED BY <1>14, <2>1, <2>2, <2>3
<1>16. \A k \in 1 .. Len(calls') : calls'[k].at \in Addresses
  <2> SUFFICES ASSUME NEW k \in 1 .. Len(calls') PROVE calls'[k].at \in Addresses
    OBVIOUS
  <2>1. k \in 1 .. n \/ (k = n + 1 /\ child # NULL)
    BY <1>1, <1>14
  <2> QED BY <1>2, <1>4, <1>7, <1>9, <2>1
<1>17. \A j, k \in 1 .. Len(calls') : j < k => calls'[j].at < calls'[k].at
  <2> SUFFICES ASSUME NEW j \in 1 .. Len(calls'), NEW k \in 1 .. Len(calls'), j < k
               PROVE  calls'[j].at < calls'[k].at
    OBVIOUS
  <2>1. j \in 1 .. n
    BY <1>1, <1>4
  <2>2. CASE k \in 1 .. n
    BY <1>2, <1>9, <2>1, <2>2
  <2>3. CASE k \notin 1 .. n
    <3>1. k = n + 1 /\ child # NULL
      BY <1>1, <1>4, <2>3
    <3>2. calls'[k].at = child /\ calls'[j].at = calls[j].at /\ calls[j].at \in Nat
      <4>1. calls'[k].at = child
        BY <1>4, <3>1
      <4>2. calls[j].at \in Nat
        BY <1>2, <2>1
      <4> QED BY <1>9, <2>1, <4>1, <4>2
    <3>3. calls[j].at <= at /\ child > at /\ child \in Nat
      BY <1>1, <1>3, <2>1, <3>1
    <3> QED BY <1>1, <3>2, <3>3
  <2> QED BY <2>2, <2>3
<1>18. \A k \in 1 .. Len(calls') - 1 :
         \/ calls'[k].next = "visit" /\ calls'[k + 1].at = node[calls'[k].at].left
         \/ calls'[k].next = "right" /\ calls'[k + 1].at = node[calls'[k].at].right
  <2> SUFFICES ASSUME NEW k \in 1 .. Len(calls') - 1
      PROVE
         \/ calls'[k].next = "visit" /\ calls'[k + 1].at = node[calls'[k].at].left
         \/ calls'[k].next = "right" /\ calls'[k + 1].at = node[calls'[k].at].right
    OBVIOUS
  <2>1. CASE k \in 1 .. n - 1
    <3>1. calls'[k] = calls[k] /\ k + 1 \in 1 .. n
      BY <1>1, <1>4, <2>1
    <3> QED BY <1>2, <1>9, <2>1, <3>1
  <2>2. CASE k \notin 1 .. n - 1
    <3>1. k = n /\ child # NULL
      BY <1>1, <1>4, <2>2
    <3>2. /\ calls'[k].next = next /\ calls'[k].at = at /\ calls'[k + 1].at = child
      BY <1>4, <3>1
    <3> QED BY <1>1, <3>2
  <2> QED BY <2>1, <2>2
<1>19. \A a \in Addresses : (\A k \in 1 .. Len(calls') : calls'[k].at # a) =>
         Present(node[a].left) /\ Present(node[a].right)
  <2> SUFFICES ASSUME NEW a \in Addresses, \A k \in 1 .. Len(calls') : calls'[k].at # a
               PROVE  Present(node[a].left) /\ Present(node[a].right)
    OBVIOUS
  <2>1. \A k \in 1 .. n : k \in 1 .. Len(calls')
    BY <1>1, <1>4
  <2>2. \A k \in 1 .. n : calls[k].at # a
    BY <1>9, <2>1
  <2> QED BY <1>2, <2>2
<1>20. calls' # <<>> /\ calls'[1].at = root
  <2>1. Len(calls') # 0
    BY <1>1, <1>4
  <2> QED BY <1>2, <1>5, <1>9, <2>1
<1>21. \A a : Present(a)' <=> Present(a)
  BY DEF Present, Addresses
<1> QED
  BY <1>2, <1>4, <1>15, <1>16, <1>17, <1>18, <1>19, <1>20, <1>21
  DEF FreeInv, New, Addresses

LEMMA FreeNodeStep ==
  ASSUME Typed, FreeInv, FreeNode
  PROVE  FreeInv' /\ calls' \in Seq(Frames)
<1> DEFINE n == Len(calls)
           at == Innermost.at
           Old(k, last) ==
             /\ calls[k].next = "left" =>
                  Present(node[calls[k].at].left) /\ Present(node[calls[k].at].right)
             /\ calls[k].next = "visit" =>
                  /\ Present(node[calls[k].at].right)
                  /\ last => node[calls[k].at].left \notin Addresses
             /\ calls[k].next = "right" =>
                  /\ node[calls[k].at].left \notin Addresses
                  /\ last => node[calls[k].at].right \notin Addresses
           New(k, last) ==
             /\ calls'[k].next = "left" =>
                  /\ node'[calls'[k].at].left \in Addresses' \cup {NULL}
                  /\ node'[calls'[k].at].right \in Addresses' \cup {NULL}
             /\ calls'[k].next = "visit" =>
                  /\ node'[calls'[k].at].right \in Addresses' \cup {NULL}
                  /\ last => node'[calls'[k].at].left \notin Addresses'
             /\ calls'[k].next = "right" =>
                  /\ node'[calls'[k].at].left \notin Addresses'
                  /\ last => node'[calls'[k].at].right \notin Addresses'
<1>1. /\ calls \in Seq(Frames) /\ n \in Nat \ {0} /\ calls # <<>> /\ pc = "destroying"
      /\ Innermost = calls[n] /\ at \in Addresses /\ at \in Nat
      /\ Innermost.next = "right" /\ pc' = pc /\ root' = root
      /\ node' = [a \in Addresses \ {at} |-> node[a]] /\ calls' = Outer
  BY FreeFacts DEF Freeing, FreeNode
<1>2. /\ Addresses \subseteq Nat /\ node \in [Addresses -> Items(Nat)] /\ Linked(node)
      /\ \A a \in Addresses : root <= a
      /\ calls[1].at = root
      /\ \A k \in 1 .. n : calls[k].at \in Addresses
      /\ \A j, k \in 1 .. n : j < k => calls[j].at < calls[k].at
      /\ \A k \in 1 .. n - 1 :
           \/ calls[k].next = "visit" /\ calls[k + 1].at = node[calls[k].at].left
           \/ calls[k].next = "right" /\ calls[k + 1].at = node[calls[k].at].right
      /\ \A a \in Addresses \ {root} : \E p \in Addresses :
           node[p].left = a \/ node[p].right = a
      /\ \A k \in 1 .. n : Old(k, k = n)
      /\ \A a \in Addresses : (\A k \in 1 .. n : calls[k].at # a) =>
           Present(node[a].left) /\ Present(node[a].right)
  BY <1>1 DEF FreeInv
<1>3. /\ calls' \in Seq(Frames) /\ Len(calls') = n - 1
      /\ \A k \in 1 .. n - 1 : calls'[k] = calls[k]
  BY <1>1, InnermostTyped
<1>4. /\ Addresses' = Addresses \ {at}
      /\ \A a \in Addresses' : node'[a] = node[a]
      /\ node' \in [Addresses' -> Items(Nat)]
  BY <1>1, <1>2 DEF Addresses
<1> HIDE DEF n, Old, New
<1>5. n \in 1 .. n /\ 1 \in 1 .. n
  BY <1>1
<1>6. node[at].left \notin Addresses /\ node[at].right \notin Addresses
  <2>1. Old(n, TRUE)
    BY <1>2, <1>5
  <2> QED BY <1>1, <2>1 DEF Old
<1>7. NULL \notin Addresses
  BY <1>2, NullAssumption
<1>8. Linked(node')
  BY <1>2, <1>4 DEF Linked, Addresses
<1>9. \A k \in 1 .. n - 1 : /\ k \in 1 .. n /\ k + 1 \in 1 .. n /\ k # n
                            /\ calls[k].at \in Addresses'
  <2> SUFFICES ASSUME NEW k \in 1 .. n - 1
               PROVE  k \in 1 .. n /\ k + 1 \in 1 .. n /\ k # n
                      /\ calls[k].at \in Addresses'
    OBVIOUS
  <2>1. k \in 1 .. n /\ k + 1 \in 1 .. n /\ k # n /\ k < n
    BY <1>1
  <2>2. calls[k].at \in Addresses /\ calls[k].at < calls[n].at
    BY <1>2, <1>5, <2>1
  <2>3. calls[k].at \in Nat /\ calls[n].at \in Nat
    BY <1>1, <1>2, <2>2
  <2> QED BY <1>1, <1>4, <2>1, <2>2, <2>3
\* The last call's node is the child of the one before, or the root.
<1>10. ASSUME n # 1
       PROVE  LET p == calls[n - 1]
              IN  /\ n - 1 \in 1 .. n - 1
                  /\ \/ p.next = "visit" /\ at = node[p.at].left
                     \/ p.next = "right" /\ at = node[p.at].right
  <2>1. n - 1 \in 1 .. n - 1 /\ n - 1 + 1 = n
    BY <1>1, <1>10
  <2> QED BY <1>1, <1>2, <2>1
<1>11. ASSUME n = 1 PROVE at = root /\ \A a \in Addresses :
                            node[a].left # at /\ node[a].right # at
  <2>1. at = root
    BY <1>1, <1>2, <1>11
  <2>2. ASSUME NEW a \in Addresses PROVE node[a].left # at /\ node[a].right # at
    <3>1. root <= a /\ a \in Nat /\ at \in Nat /\ at # NULL
      BY <1>1, <1>2, <1>7
    <3>2. /\ node[a].left # NULL => node[a].left > a
          /\ node[a].right # NULL => node[a].right > a
      BY <1>2 DEF Linked, Addresses
    <3> QED BY <2>1, <3>1, <3>2
  <2> QED BY <2>1, <2>2
\* So no other node has a link to it.
<1>12. ASSUME NEW a \in Addresses', \A k \in 1 .. n - 1 : calls[k].at # a
       PROVE  node[a].left # at /\ node[a].right # at
  <2>1. CASE n = 1
    BY <1>4, <1>11, <2>1
  <2>2. CASE n # 1
    <3> DEFINE p == calls[n - 1].at
    <3>1. p \in Addresses /\ p # a /\ a \in Addresses /\ at # NULL
          /\ (node[p].left = at \/ node[p].right = at)
      BY <1>1, <1>4, <1>7, <1>9, <1>10, <1>12, <2>2
    <3> HIDE DEF p
    <3> QED BY <1>2, <3>1 DEF Linked, Addresses
  <2> QED BY <2>1, <2>2
<1>13. ASSUME NEW k \in 1 .. n - 1, k # n - 1
       PROVE  node[calls[k].at].left # at /\ node[calls[k].at].right # at
  <2>1. n # 1 /\ k < n - 1 /\ n - 1 \in 1 .. n
    BY <1>1, <1>13
  <2> DEFINE p == calls[n - 1].at
             a == calls[k].at
  <2>2. p \in Addresses /\ (node[p].left = at \/ node[p].right = at) /\ at # NULL
    BY <1>1, <1>7, <1>2, <1>10, <2>1
  <2>3. a \in Addresses /\ a < p
    BY <1>2, <1>9, <2>1
  <2>4. a # p
    <3>1. a \in Nat /\ p \in Nat
      BY <1>2, <2>2, <2>3
    <3> QED BY <2>3, <3>1
  <2> HIDE DEF p, a
  <2>5. node[a].left # at /\ node[a].right # at
    BY <1>2, <2>2, <2>3, <2>4 DEF Linked, Addresses
  <2> QED BY <2>5 DEF a
<1>14. \A a : a # at /\ Present(a) => a \in Addresses' \cup {NULL}
  BY <1>4 DEF Present
<1>15. \A k \in 1 .. Len(calls') : New(k, k = Len(calls'))
  <2> SUFFICES ASSUME NEW k \in 1 .. n - 1 PROVE New(k, k = n - 1)
    BY <1>3
  <2> DEFINE a == calls[k].at
  <2>1. calls'[k] = calls[k] /\ a \in Addresses' /\ node'[a] = node[a]
    BY <1>3, <1>4, <1>9
  <2>2. Old(k, FALSE)
    <3>1. k \in 1 .. n /\ (k = n) = FALSE
      BY <1>9
    <3>2. Old(k, k = n)
      BY <1>2, <3>1
    <3> QED BY <3>1, <3>2 DEF Old
  <2>3. CASE k # n - 1
    BY <1>4, <1>13, <1>14, <2>1, <2>2, <2>3 DEF Old, New
  <2>4. CASE k = n - 1
    <3>1. \/ calls[k].next = "visit" /\ at = node[a].left
          \/ calls[k].next = "right" /\ at = node[a].right
      BY <1>1, <1>10, <2>4
    <3>2. at # NULL /\ node[a].left # node[a].right
      BY <1>1, <1>2, <1>4, <1>7, <2>1, <3>1 DEF Linked, Addresses
    <3>3. at \notin Addresses'
      BY <1>4
    <3> QED BY <1>4, <1>14, <2>1, <2>2, <3>1, <3>2, <3>3 DEF Old, New
  <2> QED BY <2>3, <2>4
<1>16. \A k \in 1 .. Len(calls') : calls'[k].at \in Addresses'
  BY <1>3, <1>9
<1>17. \A j, k \in 1 .. Len(calls') : j < k => calls'[j].at < calls'[k].at
  BY <1>2, <1>3, <1>9
<1>18. \A k \in 1 .. Len(calls') - 1 :
         \/ calls'[k].next = "visit" /\ calls'[k + 1].at = node'[calls'[k].at].left
         \/ calls'[k].next = "right" /\ calls'[k + 1].at = node'[calls'[k].at].right
  <2> SUFFICES ASSUME NEW k \in 1 .. n - 1 - 1
      PROVE
         \/ calls'[k].next = "visit" /\ calls'[k + 1].at = node'[calls'[k].at].left
         \/ calls'[k].next = "right" /\ calls'[k + 1].at = node'[calls'[k].at].right
    BY <1>3
  <2>1. k \in 1 .. n - 1 /\ k + 1 \in 1 .. n - 1
    BY <1>1
  <2>2. calls'[k] = calls[k] /\ calls'[k + 1] = calls[k + 1]
    BY <1>3, <2>1
  <2>3. node'[calls[k].at] = node[calls[k].at]
    BY <1>4, <1>9, <2>1
  <2> QED BY <1>2, <2>1, <2>2, <2>3
<1>19. \A a \in Addresses' : (\A k \in 1 .. Len(calls') : calls'[k].at # a) =>
         /\ node'[a].left \in Addresses' \cup {NULL}
         /\ node'[a].right \in Addresses' \cup {NULL}
  <2> SUFFICES ASSUME NEW a \in Addresses', \A k \in 1 .. n - 1 : calls[k].at # a
               PROVE  /\ node'[a].left \in Addresses' \cup {NULL}
                      /\ node'[a].right \in Addresses' \cup {NULL}
    BY <1>3
  <2>1. node[a].left # at /\ node[a].right # at /\ a # at /\ a \in Addresses
    BY <1>4, <1>12
  <2>2. \A k \in 1 .. n : k \in 1 .. n - 1 \/ k = n
    BY <1>1
  <2>3. \A k \in 1 .. n : calls[k].at # a
    BY <1>1, <2>1, <2>2
  <2>4. Present(node[a].left) /\ Present(node[a].right)
    BY <1>2, <2>1, <2>3
  <2> QED BY <1>4, <1>14, <2>1, <2>4
<1>20. \A a \in Addresses' \ {root} : \E p \in Addresses' :
         node'[p].left = a \/ node'[p].right = a
  <2> SUFFICES ASSUME NEW a \in Addresses', a # root
               PROVE  \E p \in Addresses' : node'[p].left = a \/ node'[p].right = a
    OBVIOUS
  <2>1. PICK p \in Addresses : node[p].left = a \/ node[p].right = a
    BY <1>2, <1>4
  <2>2. p # at
    BY <1>4, <1>6, <2>1
  <2> QED BY <1>4, <2>1, <2>2
<1>21. /\ root \in Addresses' => calls' # <<>>
       /\ calls' # <<>> => calls'[1].at = root
  <2>1. CASE n = 1
    <3>1. Len(calls') = 0
      BY <1>3, <2>1
    <3>2. calls' = <<>>
      BY <1>3, <3>1, EmptySeq
    <3> QED BY <1>4, <1>11, <2>1, <3>2
  <2>2. CASE n # 1
    <3>1. 1 \in 1 .. n - 1 /\ Len(calls') # 0
      BY <1>1, <1>3, <2>2
    <3>2. calls' # <<>>
      BY <3>1
    <3> QED BY <1>2, <1>3, <3>1, <3>2
  <2> QED BY <2>1, <2>2
<1>22. Addresses' \subseteq Nat /\ \A a \in Addresses' : root <= a
  BY <1>2, <1>4
<1> HIDE DEF at
<1> QED
  BY <1>1, <1>3, <1>4, <1>8, <1>15, <1>16, <1>17, <1>18, <1>19, <1>20, <1>21, <1>22
  DEF FreeInv, New, Present, Addresses
-----------------------------------------------------------------------------
\* A recursive function is called: from here on the walk, or the freeing, has
\* done nothing yet.
LEMMA CallKeeps ==
  ASSUME IndInv, pc \notin {"down", "destroying"}, UNCHANGED <<boot, tree>>,
         NEW to \in {"destroying", "saving", "counting", "listing"}, CallOnRoot(to),
         files' \in [by : {"init", "given", "save"}, stock : Seq(Lines), log : Seq(Lines)],
         input' \in Seq(Lines)
  PROVE  Typed' /\ TreeInv' /\ WalkInv' /\ FreeInv'
<1>1. Tree(node, root) /\ \A a \in Addresses : node[a].id \in 1 .. MaxInt
  BY DEF IndInv, TreeInv
<1>2. /\ pc' = to /\ calls' \in Seq(Frames) /\ seen' \in Seq(Lines)
      /\ IF to = "listing" THEN Holds(response') ELSE response' = NoResponse
  BY <1>1, StartTyped
<1>3. Typed'
  BY <1>2 DEF IndInv, Typed
<1>4. TreeInv'
  BY <1>1, <1>2 DEF TreeInv, tree, Addresses
<1>5. WalkInv'
  BY <1>1, StartsWalk
<1>6. FreeInv'
  <2>1. CASE to = "destroying"
    BY <1>1, <2>1, StartsFreeing DEF Destroy
  <2>2. CASE to # "destroying"
    BY <1>2, <2>2 DEF FreeInv
  <2> QED BY <2>1, <2>2
<1> QED BY <1>3, <1>4, <1>5, <1>6

LEMMA CallKeepsAll ==
  ASSUME IndInv, pc \notin {"down", "destroying"}, UNCHANGED <<boot, files, tree>>,
         NEW to \in {"destroying", "saving", "counting", "listing"}, CallOnRoot(to),
         input' \in Seq(Lines)
  PROVE  IndInv'
<1>1. Typed' /\ TreeInv' /\ WalkInv' /\ FreeInv'
  BY CallKeeps DEF IndInv, Typed
<1>2. pc' = to
  BY DEF CallOnRoot
<1>3. SaveInv'
  BY <1>2 DEF IndInv, SaveInv, tree, Addresses
<1> QED BY <1>1, <1>3 DEF IndInv

\* No recursive function is active before or after the step.
LEMMA IdleKeeps ==
  ASSUME IndInv, pc # "destroying", pc' \in {"loading", "replaying", "serving"},
         calls = <<>>, UNCHANGED <<files, tree, calls, seen>>, boot' \in BOOLEAN,
         input' \in Seq(Lines), response' = NoResponse, SaveInv'
  PROVE  IndInv'
<1>1. Typed'
  BY DEF IndInv, Typed
<1>2. TreeInv'
  BY DEF IndInv, TreeInv, tree, Addresses
<1>3. WalkInv' /\ FreeInv'
  BY DEF WalkInv, FreeInv
<1> QED BY <1>1, <1>2, <1>3 DEF IndInv

LEMMA DeltaKeeps ==
  ASSUME IndInv, pc \in {"replaying", "serving"}, NEW i \in Int,
         NEW d \in -MaxInt .. MaxInt, DeltaStatus(i, d) = "OK", ApplyDelta(i, d),
         UNCHANGED <<pc, boot, files, calls, seen, response>>, input' \in Seq(Lines)
  PROVE  IndInv'
<1>1. Tree(node, root) /\ \A a \in Addresses : node[a].id \in 1 .. MaxInt
  BY DEF IndInv, TreeInv
<1>2. Find(i) \in Addresses /\ Wrap(node[Find(i)].left_stock + d) \in Ints
  BY <1>1, DeltaTyped
<1> DEFINE q == Wrap(node[Find(i)].left_stock + d)
           f == Find(i)
<1>3. node' = [node EXCEPT ![f].left_stock = q] /\ root' = root
  BY DEF ApplyDelta
<1> HIDE DEF q, f
<1>4. f \in Addresses /\ q \in Ints
  BY <1>2 DEF f, q
<1>5. Tree(node', root')
  BY <1>1, <1>3, <1>4, ApplyDeltaTree DEF Addresses
<1>6. /\ Addresses' = Addresses
      /\ \A a \in Addresses : node'[a].id = node[a].id /\ node'[a].left = node[a].left
  <2>1. node \in [Addresses -> Items(Addresses)]
    BY <1>1 DEF Tree, Addresses
  <2> QED BY <1>3, <1>4, <2>1 DEF Addresses, Items
<1>7. Typed'
  BY DEF IndInv, Typed
<1>8. TreeInv'
  BY <1>1, <1>5, <1>6 DEF IndInv, TreeInv
<1>9. WalkInv' /\ FreeInv'
  BY DEF WalkInv, FreeInv
<1>10. SaveInv'
  BY <1>6 DEF IndInv, SaveInv
<1> QED BY <1>7, <1>8, <1>9, <1>10 DEF IndInv

\* What is left of a sorted file is sorted, and above the line that was read.
LEMMA TailSaved ==
  ASSUME NEW lines \in Seq(Lines), lines # <<>>
  PROVE  /\ Head(lines) \in Lines /\ Tail(lines) \in Seq(Lines)
         /\ IsSaved(lines) =>
              /\ IsSaved(Tail(lines))
              /\ Head(lines).is = "record" /\ Head(lines).id \in 1 .. MaxInt
              /\ 1 \in DOMAIN lines /\ Head(lines) = lines[1]
              /\ \A k \in DOMAIN Tail(lines) :
                   /\ k + 1 \in DOMAIN lines /\ Tail(lines)[k] = lines[k + 1]
                   /\ Head(lines).id < Tail(lines)[k].id
<1>1. /\ Head(lines) = lines[1] /\ 1 \in DOMAIN lines /\ Len(lines) \in Nat \ {0}
      /\ Tail(lines) \in Seq(Lines) /\ Len(Tail(lines)) = Len(lines) - 1
      /\ DOMAIN lines = 1 .. Len(lines)
      /\ DOMAIN Tail(lines) = 1 .. Len(lines) - 1
      /\ \A k \in 1 .. Len(lines) - 1 : Tail(lines)[k] = lines[k + 1]
  <2>1. Len(lines) \in Nat \ {0} /\ DOMAIN lines = 1 .. Len(lines)
    BY EmptySeq
  <2>2. /\ Head(lines) = lines[1] /\ Tail(lines) \in Seq(Lines)
        /\ Len(Tail(lines)) = Len(lines) - 1
        /\ \A k \in 1 .. Len(Tail(lines)) : Tail(lines)[k] = lines[k + 1]
    BY <2>1, HeadTailProperties
  <2>3. 1 \in DOMAIN lines
    BY <2>1
  <2>4. DOMAIN Tail(lines) = 1 .. Len(Tail(lines))
    BY <2>2
  <2> QED BY <2>1, <2>2, <2>3, <2>4
<1>2. lines[1] \in Lines
  BY <1>1
<1>3. ASSUME IsSaved(lines)
      PROVE  /\ \A k \in DOMAIN Tail(lines) :
                  /\ k + 1 \in DOMAIN lines /\ Tail(lines)[k] = lines[k + 1]
                  /\ Head(lines).id < Tail(lines)[k].id
  <2> SUFFICES ASSUME NEW k \in DOMAIN Tail(lines)
               PROVE  /\ k + 1 \in DOMAIN lines /\ Tail(lines)[k] = lines[k + 1]
                      /\ Head(lines).id < Tail(lines)[k].id
    OBVIOUS
  <2>1. k + 1 \in DOMAIN lines /\ Tail(lines)[k] = lines[k + 1] /\ 1 < k + 1
    BY <1>1
  <2> QED BY <1>1, <1>3, <2>1 DEF IsSaved, Ascending
<1>4. ASSUME IsSaved(lines) PROVE IsSaved(Tail(lines))
  <2>1. ASSUME NEW j \in DOMAIN Tail(lines), NEW k \in DOMAIN Tail(lines), j < k
        PROVE  Tail(lines)[j].id < Tail(lines)[k].id
    <3>1. /\ j + 1 \in DOMAIN lines /\ k + 1 \in DOMAIN lines /\ j + 1 < k + 1
      BY <1>1, <1>3, <1>4, <2>1
    <3> QED BY <1>3, <1>4, <3>1 DEF IsSaved, Ascending
  <2>2. \A k \in DOMAIN Tail(lines) :
           Tail(lines)[k].is = "record" /\ Tail(lines)[k].id \in 1 .. MaxInt
    BY <1>3, <1>4 DEF IsSaved
  <2> QED BY <2>1, <2>2 DEF IsSaved, Ascending
<1>5. IsSaved(lines) => Head(lines).is = "record" /\ Head(lines).id \in 1 .. MaxInt
  BY <1>1 DEF IsSaved
<1> QED BY <1>1, <1>2, <1>3, <1>4, <1>5

LEMMA RecordKeeps ==
  ASSUME IndInv, pc = "loading", input # <<>>, NEW line, line = Head(input),
         Acceptable(line), Upsert(Scan(line.id), Scan(line.n)),
         UNCHANGED <<pc, boot, files, calls, seen, response>>, input' = Tail(input)
  PROVE  IndInv'
<1> DEFINE i == Scan(line.id)
           q == Scan(line.n)
<1>1. Tree(node, root) /\ \A a \in Addresses : node[a].id \in 1 .. MaxInt
  BY DEF IndInv, TreeInv
<1>2. input \in Seq(Lines)
  BY DEF IndInv, Typed
<1>3. line.id \in Int /\ line.n \in Int
  BY <1>2, TailSaved DEF Lines
<1>4. i \in Ints /\ q \in Ints /\ (line.id \in Ints => i = line.id)
  BY <1>3, ScanTyped
<1>5. i > 0 /\ Find(i) = NULL /\ Upsert(i, q)
  BY DEF Acceptable
<1> HIDE DEF i, q
<1>6. \A a \in Addresses : node[a].id # i
  <2>1. i \in Int /\ NULL \notin Addresses
    BY <1>1, <1>4, TreeTyped DEF Ints, Addresses
  <2> QED BY <1>1, <1>5, <2>1, FindMeans
<1>7. PICK new \in Nat :
        /\ new \notin Addresses
        /\ Addresses' = Addresses \cup {new}
        /\ node'[new] = [id |-> i, left_stock |-> q, left |-> NULL, right |-> NULL]
        /\ \A a \in Addresses : /\ node'[a].id = node[a].id
                                /\ node[a].id < i => node'[a].left = node[a].left
  <2>1. \E new \in Nat :
              /\ new \notin Addresses
              /\ DOMAIN node' = Addresses \cup {new}
              /\ node'[new] = [id |-> i, left_stock |-> q, left |-> NULL, right |-> NULL]
              /\ \A a \in Addresses :
                   /\ node'[a].id = node[a].id
                   /\ node'[a].left_stock = node[a].left_stock
                   /\ node[a].id < i => node'[a].left = node[a].left
    BY <1>1, <1>4, <1>5, <1>6, UpsertTree
  <2>2. Addresses' = DOMAIN node'
    BY DEF Addresses
  <2> QED BY <2>1, <2>2
<1>8. Tree(node', root')
  BY <1>1, <1>4, <1>5, <1>6, UpsertTree
<1>9. \A a \in Addresses' : node'[a].id \in 1 .. MaxInt
  <2>1. i \in 1 .. MaxInt
    BY <1>4, <1>5, MaxIntAssumption DEF Ints
  <2> QED BY <1>1, <1>7, <2>1
<1>10. Typed'
  BY <1>2, TailSaved DEF IndInv, Typed
<1>11. TreeInv'
  BY <1>8, <1>9 DEF IndInv, TreeInv
<1>12. WalkInv' /\ FreeInv'
  BY DEF WalkInv, FreeInv
<1>13. SaveInv'
  <2>1. ASSUME files.by = "save"
        PROVE  /\ IsSaved(input) /\ IsSaved(input') /\ i = Head(input).id
               /\ \A a \in Addresses : node[a].id < i
               /\ \A k \in DOMAIN input' :
                    i < input'[k].id /\ k + 1 \in DOMAIN input
                    /\ input'[k] = input[k + 1]
    <3>1. /\ IsSaved(input)
          /\ \A a \in Addresses, k \in DOMAIN input : node[a].id < input[k].id
      BY <2>1 DEF IndInv, SaveInv
    <3>2. /\ IsSaved(input') /\ Head(input).id \in 1 .. MaxInt /\ 1 \in DOMAIN input
          /\ Head(input) = input[1]
          /\ \A k \in DOMAIN input' : /\ Head(input).id < input'[k].id
                                      /\ k + 1 \in DOMAIN input
                                      /\ input'[k] = input[k + 1]
      BY <1>2, <3>1, TailSaved
    <3>3. i = Head(input).id
      BY <1>4, <3>2, MaxIntAssumption DEF Ints
    <3> QED BY <3>1, <3>2, <3>3
  <2>2. ASSUME files.by = "save", NEW a \in Addresses', NEW k \in DOMAIN input'
        PROVE  node'[a].id < input'[k].id
    <3>1. \A b \in Addresses : node[b].id < input[k + 1].id
      BY <2>1, <2>2 DEF IndInv, SaveInv
    <3> QED BY <1>7, <2>1, <2>2, <3>1
  <2>3. ASSUME files.by = "save", ~boot, NEW a \in Addresses' PROVE node'[a].left = NULL
    <3>1. \A b \in Addresses : node[b].left = NULL
      BY <2>3 DEF IndInv, SaveInv
    <3> QED BY <1>7, <2>1, <2>3, <3>1
  <2>4. files.by = "save" => IsSaved(files.stock) /\ files.log = <<>>
    BY DEF IndInv, SaveInv
  <2>5. files.by = "init" => boot
    BY DEF IndInv, SaveInv
  <2> QED BY <2>1, <2>2, <2>3, <2>4, <2>5 DEF SaveInv
<1> QED BY <1>10, <1>11, <1>12, <1>13 DEF IndInv

LEMMA InitKeeps == Init => IndInv
<1> SUFFICES ASSUME Init PROVE IndInv
  OBVIOUS
<1>1. Addresses = {} /\ node = NoNodes /\ root = NULL
  BY DEF Init, Addresses, NoNodes
<1>2. Tree(node, root)
  <2>1. DOMAIN node = 1 .. 0
    BY <1>1 DEF Addresses
  <2>2. \E k \in Nat : DOMAIN node = 1 .. k
    BY <2>1
  <2>3. node \in [DOMAIN node -> Items(DOMAIN node)]
    BY <1>1 DEF NoNodes
  <2>4. Linked(node)
    BY <1>1 DEF Linked, Addresses
  <2> QED BY <1>1, <2>2, <2>3, <2>4 DEF Tree, Addresses
<1>3. files \in [by : {"init", "given"}, stock : Seq(Lines), log : Seq(Lines)]
  BY StoreAssumption DEF Init
<1>4. calls \in Seq(Frames) /\ input \in Seq(Lines) /\ seen \in Seq(Lines)
  BY EmptySeq DEF Init
<1>5. Typed
  BY <1>3, <1>4 DEF Typed, Init
<1>6. TreeInv
  BY <1>1, <1>2 DEF TreeInv, Init
<1>7. WalkInv /\ FreeInv
  BY DEF WalkInv, FreeInv, Init
<1>8. SaveInv
  BY <1>3 DEF SaveInv, Init
<1> QED BY <1>5, <1>6, <1>7, <1>8 DEF IndInv

LEMMA StartKeeps == ASSUME IndInv, Start PROVE IndInv'
<1>1. /\ pc = "down" /\ pc' = "loading" /\ calls = <<>> /\ node = NoNodes
      /\ response = NoResponse /\ files.stock \in Seq(Lines) /\ Addresses = {}
  BY DEF IndInv, TreeInv, Typed, Start, Addresses, NoNodes
<1>2. SaveInv'
  BY <1>1 DEF IndInv, SaveInv, Start, Addresses, tree
<1>3. /\ pc # "destroying" /\ pc' \in {"loading", "replaying", "serving"}
      /\ UNCHANGED <<files, tree, calls, seen>> /\ boot' \in BOOLEAN
      /\ input' \in Seq(Lines) /\ response' = NoResponse
  BY <1>1 DEF Start
<1> QED BY <1>1, <1>2, <1>3, IdleKeeps

\* A blank line: the file goes on.
LEMMA BlankKeeps ==
  ASSUME IndInv, pc \in {"loading", "replaying"}, input # <<>>, input' = Tail(input),
         UNCHANGED <<pc, boot, files, tree, calls, seen, response>>
  PROVE  IndInv'
<1>1. /\ calls = <<>> /\ input \in Seq(Lines) /\ boot \in BOOLEAN
      /\ response = NoResponse
  BY DEF IndInv, TreeInv, Typed
<1>2. input' \in Seq(Lines)
  BY <1>1, TailSaved
<1>3. SaveInv'
  <2>1. ASSUME files.by = "save", pc = "loading"
        PROVE  /\ IsSaved(input')
               /\ \A a \in Addresses, k \in DOMAIN input' : node[a].id < input'[k].id
    <3>1. /\ IsSaved(input)
          /\ \A a \in Addresses, k \in DOMAIN input : node[a].id < input[k].id
      BY <2>1 DEF IndInv, SaveInv
    <3>2. /\ IsSaved(input')
          /\ \A k \in DOMAIN input' : k + 1 \in DOMAIN input /\ input'[k] = input[k + 1]
      BY <1>1, <3>1, TailSaved
    <3> QED BY <3>1, <3>2
  <2> QED BY <2>1 DEF IndInv, SaveInv, tree, Addresses
<1> QED BY <1>1, <1>2, <1>3, IdleKeeps

LEMMA LoadLineKeeps == ASSUME IndInv, LoadLine PROVE IndInv'
<1>1. pc = "loading" /\ input # <<>> /\ input' = Tail(input) /\ UNCHANGED <<boot, files>>
  BY DEF LoadLine
<1>2. input \in Seq(Lines)
  BY DEF IndInv, Typed
<1> DEFINE line == Head(input)
<1>3. CASE line = Blank /\ UNCHANGED <<pc, tree, calls, seen, response>>
  BY <1>1, <1>3, BlankKeeps
<1>4. CASE Acceptable(line) /\ Upsert(Scan(line.id), Scan(line.n))
           /\ UNCHANGED <<pc, calls, seen, response>>
  <2> HIDE DEF line
  <2> QED BY <1>1, <1>4, RecordKeeps DEF line
<1>5. CASE Destroy /\ UNCHANGED tree
  <2>1. input' \in Seq(Lines)
    BY <1>1, <1>2, TailSaved
  <2> QED BY <1>1, <1>5, <2>1, CallKeepsAll DEF Destroy
<1> QED BY <1>3, <1>4, <1>5 DEF LoadLine

LEMMA EndOfStockKeeps == ASSUME IndInv, EndOfStock PROVE IndInv'
<1>1. /\ pc = "loading" /\ UNCHANGED <<boot, files, tree>> /\ input \in Seq(Lines)
      /\ boot \in BOOLEAN /\ files.log \in Seq(Lines) /\ calls = <<>>
      /\ response = NoResponse
  BY DEF EndOfStock, IndInv, Typed, TreeInv
<1>2. CASE CallOnRoot("saving") /\ UNCHANGED input
  BY <1>1, <1>2, CallKeepsAll
<1>3. CASE pc' = "replaying" /\ input' = files.log /\ UNCHANGED <<calls, seen, response>>
  <2>1. SaveInv'
    BY <1>1, <1>3 DEF IndInv, SaveInv, Addresses, tree
  <2>2. /\ pc # "destroying" /\ pc' \in {"loading", "replaying", "serving"}
        /\ boot' \in BOOLEAN /\ input' \in Seq(Lines) /\ response' = NoResponse
    BY <1>1, <1>3
  <2> QED BY <1>1, <1>3, <2>1, <2>2, IdleKeeps
<1> QED BY <1>2, <1>3 DEF EndOfStock

LEMMA ReplayLineKeeps == ASSUME IndInv, ReplayLine PROVE IndInv'
<1>1. /\ pc = "replaying" /\ input # <<>> /\ input' = Tail(input)
      /\ UNCHANGED <<boot, files>>
  BY DEF ReplayLine
<1>2. input \in Seq(Lines)
  BY DEF IndInv, Typed
<1>3. input' \in Seq(Lines) /\ Head(input) \in Lines
  BY <1>1, <1>2, TailSaved
<1> DEFINE line == Head(input)
<1>4. CASE line = Blank /\ UNCHANGED <<pc, tree, calls, seen, response>>
  BY <1>1, <1>4, BlankKeeps
<1>5. CASE Replayable(line) /\ ApplyDelta(Scan(line.id), Delta(line))
           /\ UNCHANGED <<pc, calls, seen, response>>
  <2>1. line.id \in Int /\ line.n \in Int
    BY <1>3 DEF Lines
  <2> HIDE DEF line
  <2>2. Scan(line.id) \in Int /\ Scan(line.n) \in Ints /\ Scan(line.n) > 0
    BY <1>5, <2>1, ScanTyped DEF Ints, Replayable
  <2>3. Delta(line) \in -MaxInt .. MaxInt
    BY <2>2, MaxIntAssumption DEF Delta, Ints
  <2>4. DeltaStatus(Scan(line.id), Delta(line)) = "OK"
    BY <1>5 DEF Replayable
  <2> QED BY <1>1, <1>3, <1>5, <2>2, <2>3, <2>4, DeltaKeeps
<1>6. CASE Destroy /\ UNCHANGED tree
  BY <1>1, <1>3, <1>6, CallKeepsAll DEF Destroy
<1> QED BY <1>4, <1>5, <1>6 DEF ReplayLine

LEMMA TradeKeeps == ASSUME IndInv, NEW t \in Trades, Trade(t) PROVE IndInv'
<1>1. t.id \in Int /\ t.delta \in -MaxInt .. MaxInt
  BY StoreAssumption DEF Ints
<1>2. input' \in Seq(Lines)
  BY DEF IndInv, Typed, Trade
<1> QED BY <1>1, <1>2, DeltaKeeps DEF Trade

LEMMA EndOfLogKeeps == ASSUME IndInv, EndOfLog PROVE IndInv'
<1>1. input' \in Seq(Lines)
  BY DEF IndInv, Typed, EndOfLog
<1> QED BY <1>1, CallKeepsAll DEF EndOfLog

LEMMA ReadFailsKeeps == ASSUME IndInv, ReadFails PROVE IndInv'
<1>1. input' \in Seq(Lines)
  BY EmptySeq DEF ReadFails
<1> QED BY <1>1, CallKeepsAll DEF ReadFails, Destroy

LEMMA SaveFailsKeeps == ASSUME IndInv, SaveFails PROVE IndInv'
<1>1. input' \in Seq(Lines)
  BY DEF IndInv, Typed, SaveFails
<1> QED BY <1>1, CallKeepsAll DEF SaveFails, Destroy

LEMMA ShowKeeps == ASSUME IndInv, Show PROVE IndInv'
<1>1. input' \in Seq(Lines)
  BY DEF IndInv, Typed, Show
<1> QED BY <1>1, CallKeepsAll DEF Show

LEMMA ShutdownKeeps == ASSUME IndInv, Shutdown PROVE IndInv'
<1>1. input' \in Seq(Lines)
  BY DEF IndInv, Typed, Shutdown
<1>2. CASE CallOnRoot("saving")
  BY <1>1, <1>2, CallKeepsAll DEF Shutdown
<1>3. CASE Destroy
  BY <1>1, <1>3, CallKeepsAll DEF Shutdown, Destroy
<1> QED BY <1>2, <1>3 DEF Shutdown

LEMMA EndsKeep == ASSUME IndInv, EndOfCount \/ AnswerShow PROVE IndInv'
<1>1. /\ pc \in {"counting", "listing"} /\ pc' = "serving" /\ calls = <<>>
      /\ UNCHANGED <<boot, files, input, tree, calls, seen>> /\ response' = NoResponse
      /\ boot \in BOOLEAN /\ input \in Seq(Lines)
  BY DEF EndOfCount, AnswerShow, IndInv, Typed
<1>2. SaveInv'
  BY <1>1 DEF IndInv, SaveInv, Addresses, tree
<1> QED BY <1>1, <1>2, IdleKeeps

\* A step of a walk leaves all but the calls, the records and the answer alone.
LEMMA WalkKeeps ==
  ASSUME IndInv, pc \in {"counting", "saving", "listing"},
         UNCHANGED <<pc, boot, files, input, tree>>, WalkInv',
         calls' \in Seq(Frames), seen' \in Seq(Lines),
         IF pc = "listing" THEN Holds(response') ELSE response' = NoResponse
  PROVE  IndInv'
<1>1. Typed'
  BY DEF IndInv, Typed
<1>2. TreeInv'
  BY DEF IndInv, TreeInv, tree, Addresses
<1>3. FreeInv'
  BY DEF FreeInv
<1>4. SaveInv'
  BY DEF IndInv, SaveInv, tree, Addresses
<1> QED BY <1>1, <1>2, <1>3, <1>4 DEF IndInv

LEMMA WalkStepKeeps ==
  ASSUME IndInv, WalkLeft \/ Visit \/ ListRow \/ WalkRight
  PROVE  IndInv'
<1>1. /\ pc \in {"counting", "saving", "listing"} /\ calls # <<>>
      /\ UNCHANGED <<pc, boot, files, input, tree>>
  BY DEF WalkLeft, Visit, ListRow, WalkRight, Walking
<1>2. Typed /\ WalkInv /\ Tree(node, root)
  BY <1>1 DEF IndInv, TreeInv
<1>3. /\ seen \in Seq(Lines)
      /\ IF pc = "listing" THEN Holds(response) ELSE response = NoResponse
  BY <1>2 DEF Typed
<1>4. CASE WalkLeft \/ WalkRight
  <2>1. WalkInv' /\ calls' \in Seq(Frames)
    BY <1>2, <1>4, WalkLeftStep, WalkRightStep
  <2>2. UNCHANGED <<seen, response>>
    BY <1>4 DEF WalkLeft, WalkRight
  <2> QED BY <1>1, <1>3, <2>1, <2>2, WalkKeeps
<1>5. CASE Visit
  <2>1. WalkInv' /\ calls' \in Seq(Frames) /\ seen' \in Seq(Lines)
    BY <1>1, <1>2, <1>5, SeenGrows DEF Visit, tree
  <2>2. UNCHANGED response /\ pc # "listing"
    BY <1>5 DEF Visit
  <2> QED BY <1>1, <1>3, <2>1, <2>2, WalkKeeps
<1>6. CASE ListRow
  <2>1. pc = "listing"
    BY <1>6 DEF ListRow
  <2> QED BY <1>1, <1>2, <1>6, <2>1, ListRowStep, WalkKeeps
<1> QED BY <1>1, <1>4, <1>5, <1>6

\* What a save has written is in the order of the ids.
LEMMA PublishKeeps == ASSUME IndInv, Publish PROVE IndInv'
<1>1. /\ pc = "saving" /\ calls = <<>> /\ UNCHANGED <<boot, input, tree>>
      /\ files' = [by |-> "save", stock |-> seen, log |-> <<>>]
  BY DEF Publish
<1>2. seen \in Seq(Lines) /\ input \in Seq(Lines)
  BY DEF IndInv, Typed
<1>3. IsSaved(seen)
  <2>1. /\ Ascending(seen)
        /\ \A k \in DOMAIN seen : \E a \in Addresses : seen[k] = Written(a)
    BY <1>1 DEF IndInv, WalkInv, Visited
  <2>2. \A a \in Addresses : Written(a).is = "record" /\ Written(a).id \in 1 .. MaxInt
    BY <1>1 DEF IndInv, TreeInv, Written, Record
  <2> QED BY <2>1, <2>2 DEF IsSaved
<1>4. files' \in [by : {"init", "given", "save"}, stock : Seq(Lines), log : Seq(Lines)]
  BY <1>1, <1>2, EmptySeq
<1>5. PICK to \in {"destroying", "counting"} :
        CallOnRoot(to) /\ (to = "counting" => files.by = "init")
  BY DEF Publish, Destroy
<1>6. Typed' /\ TreeInv' /\ WalkInv' /\ FreeInv'
  BY <1>1, <1>2, <1>4, <1>5, CallKeeps
<1>7. pc' = to
  BY <1>5 DEF CallOnRoot
<1>8. files.by = "init" => boot
  BY <1>1 DEF IndInv, SaveInv
<1>9. SaveInv'
  BY <1>1, <1>3, <1>5, <1>7, <1>8 DEF SaveInv
<1> QED BY <1>6, <1>9 DEF IndInv

LEMMA FreeKeeps == ASSUME IndInv, FreeLeft \/ FreeRight \/ FreeNode PROVE IndInv'
<1>1. /\ Freeing /\ pc = "destroying"
      /\ UNCHANGED <<pc, boot, files, input, root, seen, response>>
  BY DEF FreeLeft, FreeRight, FreeNode, Freeing, tree
<1>2. Typed /\ FreeInv
  BY DEF IndInv
<1>3. FreeInv' /\ calls' \in Seq(Frames)
  <2>1. CASE FreeLeft
    BY <1>1, <1>2, <2>1, FreeMoves DEF FreeLeft, tree
  <2>2. CASE FreeRight
    BY <1>1, <1>2, <2>2, FreeMoves DEF FreeRight, tree
  <2>3. CASE FreeNode
    BY <1>2, <2>3, FreeNodeStep
  <2> QED BY <2>1, <2>2, <2>3
<1>4. Typed'
  BY <1>1, <1>2, <1>3 DEF Typed
<1>5. TreeInv' /\ WalkInv'
  BY <1>1 DEF TreeInv, WalkInv
<1>6. SaveInv'
  BY <1>1 DEF IndInv, SaveInv
<1> QED BY <1>3, <1>4, <1>5, <1>6 DEF IndInv

\* When the outermost call returns no node is left: the one of the lowest
\* address would have its parent below it.
LEMMA EndOfProcessKeeps == ASSUME IndInv, EndOfProcess PROVE IndInv'
<1>1. /\ pc = "destroying" /\ calls = <<>> /\ pc' = "down" /\ root' = NULL
      /\ input' = <<>> /\ boot' = FALSE /\ UNCHANGED <<files, node, calls, seen, response>>
  BY DEF EndOfProcess
<1>2. /\ Addresses \subseteq Nat /\ node \in [Addresses -> Items(Nat)] /\ Linked(node)
      /\ root \notin Addresses
      /\ \A a \in Addresses \ {root} : \E p \in Addresses :
           node[p].left = a \/ node[p].right = a
  BY <1>1 DEF IndInv, FreeInv
<1>3. Addresses = {}
  <2> SUFFICES ASSUME Addresses # {} PROVE FALSE
    OBVIOUS
  <2>1. PICK m \in Addresses : \A x \in Addresses : m <= x
    BY <1>2, Smallest
  <2>2. PICK p \in Addresses : node[p].left = m \/ node[p].right = m
    BY <1>2, <2>1
  <2>3. m # NULL /\ m \in Nat /\ p \in Nat
    BY <1>2, <2>1, <2>2, NullAssumption
  <2>4. m > p
    BY <1>2, <2>2, <2>3 DEF Linked, Addresses
  <2> QED BY <2>1, <2>3, <2>4
<1>4. node = NoNodes
  BY <1>2, <1>3 DEF NoNodes
<1>5. Tree(node', root') /\ Addresses' = {}
  <2>1. DOMAIN node' = 1 .. 0
    BY <1>1, <1>3 DEF Addresses
  <2>2. \E k \in Nat : DOMAIN node' = 1 .. k
    BY <2>1
  <2>3. node' \in [DOMAIN node' -> Items(DOMAIN node')]
    BY <1>1, <1>4 DEF NoNodes
  <2>4. Linked(node')
    BY <1>1, <1>3 DEF Linked, Addresses
  <2> QED BY <1>1, <1>3, <2>2, <2>3, <2>4 DEF Tree, Addresses
<1>6. Typed'
  BY <1>1, EmptySeq DEF IndInv, Typed
<1>7. TreeInv'
  BY <1>1, <1>4, <1>5 DEF TreeInv
<1>8. WalkInv' /\ FreeInv'
  BY <1>1 DEF WalkInv, FreeInv
<1>9. SaveInv'
  BY <1>1 DEF IndInv, SaveInv
<1> QED BY <1>6, <1>7, <1>8, <1>9 DEF IndInv

\* Nothing happens.
LEMMA StutterKeeps == ASSUME IndInv, UNCHANGED vars PROVE IndInv'
<1>1. Typed' /\ TreeInv' /\ SaveInv'
  BY DEF IndInv, Typed, TreeInv, SaveInv, vars, Addresses
<1>2. WalkInv'
  BY DEF IndInv, WalkInv, Nest, Visited, Written, Innermost, Addresses, vars
<1>3. FreeInv'
  BY DEF IndInv, FreeInv, Present, Addresses, vars
<1> QED BY <1>1, <1>2, <1>3 DEF IndInv

LEMMA NextKeeps == IndInv /\ [Next]_vars => IndInv'
<1> SUFFICES ASSUME IndInv, [Next]_vars PROVE IndInv'
  OBVIOUS
<1>1. CASE Start
  BY <1>1, StartKeeps
<1>2. CASE LoadLine
  BY <1>2, LoadLineKeeps
<1>3. CASE EndOfStock
  BY <1>3, EndOfStockKeeps
<1>4. CASE ReplayLine
  BY <1>4, ReplayLineKeeps
<1>5. CASE EndOfLog
  BY <1>5, EndOfLogKeeps
<1>6. CASE ReadFails
  BY <1>6, ReadFailsKeeps
<1>7. CASE WalkLeft \/ Visit \/ ListRow \/ WalkRight
  BY <1>7, WalkStepKeeps
<1>8. CASE SaveFails
  BY <1>8, SaveFailsKeeps
<1>9. CASE EndOfCount \/ AnswerShow
  BY <1>9, EndsKeep
<1>10. CASE Publish
  BY <1>10, PublishKeeps
<1>11. CASE Show
  BY <1>11, ShowKeeps
<1>12. CASE \E t \in Trades : Trade(t)
  BY <1>12, TradeKeeps
<1>13. CASE Shutdown
  BY <1>13, ShutdownKeeps
<1>14. CASE FreeLeft \/ FreeRight \/ FreeNode
  BY <1>14, FreeKeeps
<1>15. CASE EndOfProcess
  BY <1>15, EndOfProcessKeeps
<1>16. CASE UNCHANGED vars
  BY <1>16, StutterKeeps
<1> QED
  BY <1>1, <1>2, <1>3, <1>4, <1>5, <1>6, <1>7, <1>8, <1>9, <1>10, <1>11, <1>12,
     <1>13, <1>14, <1>15, <1>16
  DEF Next

LEMMA StoreInvariant == Spec => []IndInv
  BY InitKeeps, NextKeeps, PTL DEF Spec
-----------------------------------------------------------------------------
\* The invariant says what the properties of the runs say.
LEMMA TypesHold == IndInv => TypeOK
<1> SUFFICES ASSUME IndInv PROVE TypeOK
  OBVIOUS
<1>1. ASSUME pc # "destroying"
      PROVE  /\ root \in Addresses \cup {NULL}
             /\ node \in [Addresses -> [id : Ints, left_stock : Ints,
                            left : Addresses \cup {NULL}, right : Addresses \cup {NULL}]]
  <2>1. Tree(node, root)
    BY <1>1 DEF IndInv, TreeInv
  <2> QED BY <2>1 DEF Tree, Addresses, Items
<1>2. \A k \in DOMAIN calls : calls[k].next \in {"left", "visit", "right"}
  <2>1. calls \in Seq(Frames)
    BY DEF IndInv, Typed
  <2>2. \A k \in DOMAIN calls : calls[k] \in Frames
    BY <2>1
  <2> QED BY <2>2 DEF Frames
<1>3. Cap(response) <= SizeMax /\ (response = NoResponse \/ response.len < Cap(response))
  <2>1. CASE pc = "listing"
    <3>1. Holds(response)
      BY <2>1 DEF IndInv, Typed
    <3>2. /\ Cap(response) \in 1 .. SizeMax
          /\ response.len \in 0 .. Cap(response) - 1
      BY <3>1, HoldsCap
    <3> QED BY <3>2, ResponseAssumption
  <2>2. CASE pc # "listing"
    <3>1. response = NoResponse /\ DOMAIN NoResponse.data = {}
      BY <2>2 DEF IndInv, Typed, NoResponse
    <3>2. Cap(response) = 0
      BY <3>1, FS_EmptySet DEF Cap
    <3> QED BY <3>1, <3>2, ResponseAssumption
  <2> QED BY <2>1, <2>2
<1> QED BY <1>1, <1>2, <1>3 DEF IndInv, Typed, TypeOK

LEMMA FindFinds == IndInv => EveryStockIsFound
<1> SUFFICES ASSUME IndInv, pc # "destroying", NEW a \in Addresses
             PROVE  Find(node[a].id) = a
  BY DEF EveryStockIsFound
<1>1. Tree(node, root) /\ node[a].id \in 1 .. MaxInt
  BY DEF IndInv, TreeInv
<1> QED BY <1>1, FindMeans

\* The one node of an id is the one that CHOOSE takes.
LEMMA QuantityMeans ==
  ASSUME Tree(node, root), NEW a \in Addresses
  PROVE  node[a].id \in Stocks /\ Quantity(node[a].id) = node[a].left_stock
<1> DEFINE b == CHOOSE b \in Addresses : node[b].id = node[a].id
<1>1. b \in Addresses /\ node[b].id = node[a].id
  OBVIOUS
<1>2. b = a
  <2> HIDE DEF b
  <2> QED BY <1>1, IdsDiffer DEF Addresses
<1> QED BY <1>2 DEF Quantity, Stocks

LEMMA WalkSees == IndInv => WalkSeesAll
<1> SUFFICES ASSUME IndInv, pc \in {"counting", "saving"}, calls = <<>>
             PROVE  /\ {seen[k].id : k \in DOMAIN seen} = Stocks
                    /\ \A k \in 1 .. Len(seen) - 1 : seen[k].id < seen[k + 1].id
                    /\ \A k \in DOMAIN seen : seen[k].n = Quantity(seen[k].id)
  BY DEF WalkSeesAll
<1>1. Tree(node, root) /\ seen \in Seq(Lines)
  BY DEF IndInv, TreeInv, Typed
<1>2. /\ Ascending(seen)
      /\ \A k \in DOMAIN seen : \E a \in Addresses : seen[k] = Written(a)
      /\ \A a \in Addresses : \E k \in DOMAIN seen : seen[k] = Written(a)
  BY DEF IndInv, WalkInv, Visited
<1>3. \A a \in Addresses :
        Written(a).id = node[a].id /\ Written(a).n = node[a].left_stock
  BY DEF Written, Record
<1>4. {seen[k].id : k \in DOMAIN seen} = Stocks
  BY <1>2, <1>3 DEF Stocks
<1>5. \A k \in 1 .. Len(seen) - 1 : seen[k].id < seen[k + 1].id
  <2> SUFFICES ASSUME NEW k \in 1 .. Len(seen) - 1 PROVE seen[k].id < seen[k + 1].id
    OBVIOUS
  <2>1. k \in DOMAIN seen /\ k + 1 \in DOMAIN seen /\ k < k + 1
    BY <1>1
  <2> QED BY <1>2, <2>1 DEF Ascending
<1>6. \A k \in DOMAIN seen : seen[k].n = Quantity(seen[k].id)
  BY <1>1, <1>2, <1>3, QuantityMeans
<1> QED BY <1>4, <1>5, <1>6

LEMMA FreedOnce == IndInv => NodesFreedOnce
<1> SUFFICES ASSUME IndInv PROVE NodesFreedOnce
  OBVIOUS
<1>1. pc = "down" => node = NoNodes
  BY DEF IndInv, TreeInv
<1>2. \A k \in DOMAIN calls : calls[k].at \in Addresses
  <2>1. calls \in Seq(Frames) /\ DOMAIN calls = 1 .. Len(calls)
    BY DEF IndInv, Typed
  <2>2. CASE pc \in {"counting", "saving", "listing"}
    BY <2>1, <2>2 DEF IndInv, WalkInv, Nest
  <2>3. CASE pc = "destroying"
    BY <2>1, <2>3 DEF IndInv, FreeInv
  <2>4. CASE pc \in {"down", "loading", "replaying", "serving"}
    BY <2>4 DEF IndInv, TreeInv
  <2> QED BY <2>2, <2>3, <2>4 DEF IndInv, Typed
<1> QED BY <1>1, <1>2 DEF NodesFreedOnce

LEMMA Chain == IndInv => ReloadedTreeIsChain
  BY DEF IndInv, SaveInv, ReloadedTreeIsChain
-----------------------------------------------------------------------------
\* The variables have their types, on every path from recovery to the end of
\* the process: no link of the tree leads to a node that is not allocated, no
\* quantity leaves the range of an int, and the text of an answer fits its
\* buffer with the NUL (stock_store.c, response_appendf).
THEOREM StoreTypes == Spec => []TypeOK
  BY StoreInvariant, TypesHold, PTL

\* However a stock file is ordered and whatever a log changes, the search of
\* find_stock_item leads to every stock in the heap.
THEOREM StocksAreFound == Spec => []EveryStockIsFound
  BY StoreInvariant, FindFinds, PTL

\* stock_store_inorder_walk, where nothing stops it, visits every stock once,
\* in ascending order of the ids, with the quantity it has: nothing is left
\* out of a save or of the count of main.
THEOREM WalksSeeAll == Spec => []WalkSeesAll
  BY StoreInvariant, WalkSees, PTL

\* free_stock_tree frees each node once, after both of its subtrees, and none
\* is left when main returns, also after a recovery that failed half-way.
THEOREM FreesAreOnce == Spec => []NodesFreedOnce
  BY StoreInvariant, FreedOnce, PTL

\* A process that has recovered from a save works on a chain: no node of its
\* tree has a left child.
THEOREM ReloadsAreChains == Spec => []ReloadedTreeIsChain
  BY StoreInvariant, Chain, PTL
-----------------------------------------------------------------------------
\* The text of a show.  Listing is a function of sets of ids; that there is one
\* follows from there being one for the sets below each k.
Last(S) == CHOOSE i \in S : \A j \in S : j <= i

Ids(t) == {t[a].id : a \in DOMAIN t}

StockRow(t, i) == Row(i, t[CHOOSE a \in DOMAIN t : t[a].id = i].left_stock)

Rows(f, I, row) ==
  f = [S \in SUBSET I |->
         IF S = {} THEN <<>> ELSE f[S \ {Last(S)}] \o row[Last(S)]]

Upto(I, k) == {S \in SUBSET I : \A j \in S : j <= k}

LEMMA LastMeans ==
  ASSUME NEW n \in Nat, NEW S \in SUBSET (1 .. n)
  PROVE  /\ S # {} => Last(S) \in S /\ \A j \in S : j <= Last(S)
         /\ \A i \in 1 .. n : (\A j \in S : j < i) =>
              Last(S \cup {i}) = i /\ (S \cup {i}) \ {i} = S
<1>1. ASSUME NEW T \in SUBSET (1 .. n), T # {}
      PROVE  Last(T) \in T /\ \A j \in T : j <= Last(T)
  <2>1. \E m \in T : \A x \in T : x <= m
    BY <1>1, Largest
  <2> QED BY <2>1 DEF Last
<1>2. ASSUME NEW i \in 1 .. n, \A j \in S : j < i
      PROVE  Last(S \cup {i}) = i /\ (S \cup {i}) \ {i} = S
  <2>1. S \cup {i} \in SUBSET (1 .. n) /\ S \cup {i} # {}
    OBVIOUS
  <2> DEFINE m == Last(S \cup {i})
  <2>2. m \in S \cup {i} /\ \A j \in S \cup {i} : j <= m
    BY <1>1, <2>1
  <2> HIDE DEF m
  <2>3. m = i
    <3>1. i <= m /\ i \in Nat /\ m \in Nat /\ (m \in S => m < i)
      BY <1>2, <2>1, <2>2
    <3> QED BY <2>2, <3>1
  <2>4. i \notin S
    BY <1>2
  <2> QED BY <2>3, <2>4 DEF m
<1> QED BY <1>1, <1>2

LEMMA RowsExist ==
  ASSUME NEW n \in Nat, NEW I \in SUBSET (1 .. n), NEW row
  PROVE  \E f : Rows(f, I, row)
<1> DEFINE Part(f, k) ==
             f = [S \in Upto(I, k) |->
                    IF S = {} THEN <<>> ELSE f[S \ {Last(S)}] \o row[Last(S)]]
           T == {k \in Nat : ~ \E f : Part(f, k)}
<1>1. ASSUME NEW k \in Nat, NEW S \in Upto(I, k), S # {}
      PROVE  /\ Last(S) \in S /\ Last(S) <= k /\ Last(S) \in Nat \ {0} /\ k # 0
             /\ S \ {Last(S)} \in Upto(I, Last(S) - 1)
             /\ S \ {Last(S)} \in Upto(I, k - 1) /\ S \ {Last(S)} \in Upto(I, k)
  <2>1. S \in SUBSET (1 .. n)
    BY DEF Upto
  <2> DEFINE m == Last(S)
  <2>2. m \in S /\ \A j \in S : j <= m
    BY <1>1, <2>1, LastMeans
  <2> HIDE DEF m
  <2>3. m <= k /\ m \in Nat \ {0} /\ k # 0
    BY <2>1, <2>2 DEF Upto
  <2>4. \A j \in S \ {m} : j \in Nat /\ j < m
    <3> SUFFICES ASSUME NEW j \in S \ {m} PROVE j \in Nat /\ j < m
      OBVIOUS
    <3>1. j \in Nat /\ j <= m /\ j # m
      BY <2>1, <2>2
    <3> QED BY <2>3, <3>1
  <2>5. \A j \in S \ {m} : j <= m - 1 /\ j <= k - 1 /\ j <= k
    BY <2>3, <2>4
  <2>6. S \ {m} \in SUBSET I
    BY DEF Upto
  <2> QED BY <2>2, <2>3, <2>5, <2>6 DEF m, Upto
<1>2. T = {}
  <2> SUFFICES ASSUME T # {} PROVE FALSE
    OBVIOUS
  <2>1. PICK k \in T : \A x \in T : k <= x
    <3>1. T \in SUBSET Nat
      OBVIOUS
    <3> HIDE DEF T
    <3> QED BY <3>1, Smallest
  <2>2. k \in Nat /\ ~ \E f : Part(f, k)
    OBVIOUS
  <2>3. CASE k = 0
    <3>1. \A S \in Upto(I, 0) : S = {}
      BY <1>1
    <3> DEFINE e == [S \in Upto(I, 0) |-> <<>>]
    <3>2. Part(e, 0)
      BY <3>1
    <3> QED BY <2>2, <2>3, <3>2
  <2>4. CASE k # 0
    <3>1. k - 1 \in Nat /\ ~(k <= k - 1)
      BY <2>2, <2>4
    <3>2. k - 1 \notin T
      BY <2>1, <3>1
    <3>3. PICK g : Part(g, k - 1)
      BY <3>1, <3>2
    <3> DEFINE f == [S \in Upto(I, k) |->
                       IF S = {} THEN <<>> ELSE g[S \ {Last(S)}] \o row[Last(S)]]
    <3>4. \A S \in Upto(I, k - 1) : f[S] = g[S]
      <4> SUFFICES ASSUME NEW S \in Upto(I, k - 1) PROVE f[S] = g[S]
        OBVIOUS
      <4>1. S \in Upto(I, k)
        <5>1. \A j \in S : j \in Nat /\ j <= k - 1
          BY DEF Upto
        <5>2. \A j \in S : j <= k
          BY <2>2, <5>1
        <5> QED BY <5>2 DEF Upto
      <4> QED BY <3>3, <4>1
    <3>5. \A S \in Upto(I, k) :
            f[S] = IF S = {} THEN <<>> ELSE f[S \ {Last(S)}] \o row[Last(S)]
      <4> SUFFICES ASSUME NEW S \in Upto(I, k)
          PROVE f[S] = IF S = {} THEN <<>> ELSE f[S \ {Last(S)}] \o row[Last(S)]
        OBVIOUS
      <4>1. CASE S = {}
        BY <4>1
      <4>2. CASE S # {}
        <5>1. S \ {Last(S)} \in Upto(I, k - 1)
          BY <1>1, <2>2, <4>2
        <5>2. f[S \ {Last(S)}] = g[S \ {Last(S)}]
          BY <3>4, <5>1
        <5> QED BY <4>2, <5>2
      <4> QED BY <4>1, <4>2
    <3>6. f = [S \in Upto(I, k) |-> f[S]]
      OBVIOUS
    <3> HIDE DEF f
    <3>7. Part(f, k)
      BY <3>5, <3>6
    <3> HIDE DEF Part
    <3> QED BY <2>2, <3>7
  <2> QED BY <2>3, <2>4
<1>3. PICK f : Part(f, n)
  BY <1>2
<1>4. Upto(I, n) = SUBSET I
  <2>1. \A S \in SUBSET I : \A j \in S : j <= n
    OBVIOUS
  <2> QED BY <2>1 DEF Upto
<1>5. Rows(f, I, row)
  BY <1>3, <1>4 DEF Rows
<1> QED BY <1>5

\* A text is the rows of its ids in order, and more ids never make it shorter.
Adds(f, I, row) ==
  \A S \in SUBSET I, i \in I :
    (\A j \in S : j < i) => f[S \cup {i}] = f[S] \o row[i]

LEMMA RowsAdd ==
  ASSUME NEW n \in Nat, NEW I \in SUBSET (1 .. n), NEW row, NEW f, Rows(f, I, row)
  PROVE  Adds(f, I, row)
<1> SUFFICES ASSUME NEW S \in SUBSET I, NEW i \in I, \A j \in S : j < i
             PROVE  f[S \cup {i}] = f[S] \o row[i]
  BY DEF Adds
<1>1. S \in SUBSET (1 .. n) /\ i \in 1 .. n
  OBVIOUS
<1>2. Last(S \cup {i}) = i /\ (S \cup {i}) \ {i} = S
  BY <1>1, LastMeans
<1>3. S \cup {i} \in SUBSET I /\ S \cup {i} # {}
  OBVIOUS
<1>4. f[S \cup {i}] = f[(S \cup {i}) \ {Last(S \cup {i})}] \o row[Last(S \cup {i})]
  BY <1>3 DEF Rows
<1> QED BY <1>2, <1>4

LEMMA RowsMean ==
  ASSUME NEW n \in Nat, NEW I \in SUBSET (1 .. n), NEW row \in [I -> Seq(Int)],
         NEW f, Rows(f, I, row)
  PROVE  /\ f[{}] = <<>>
         /\ \A S \in SUBSET I : f[S] \in Seq(Int)
<1>1. f[{}] = <<>>
  BY DEF Rows
<1>3. \A S \in SUBSET I : f[S] \in Seq(Int)
  <2> DEFINE T == {k \in Nat : \E S \in Upto(I, k) : f[S] \notin Seq(Int)}
  <2>1. ASSUME T # {} PROVE FALSE
    <3>1. PICK k \in T : \A x \in T : k <= x
      <4>1. T \in SUBSET Nat
        OBVIOUS
      <4> HIDE DEF T
      <4> QED BY <2>1, <4>1, Smallest
    <3>2. PICK S \in Upto(I, k) : f[S] \notin Seq(Int)
      BY <3>1
    <3>3. S # {} /\ S \in SUBSET (1 .. n) /\ S \in SUBSET I /\ k \in Nat
          /\ \A j \in S : j <= k
      <4>1. <<>> \in Seq(Int)
        BY EmptySeq
      <4> QED BY <1>1, <3>1, <3>2, <4>1 DEF Upto
    <3> DEFINE m == Last(S)
               R == S \ {m}
    <3>4. m \in S /\ \A j \in S : j <= m
      BY <3>3, LastMeans
    <3>5. f[S] = f[R] \o row[m]
      BY <3>3 DEF Rows
    <3> HIDE DEF m
    <3>6. m \in Nat /\ m - 1 \in Nat /\ ~(k <= m - 1)
      BY <3>3, <3>4
    <3>7. R \in Upto(I, m - 1)
      <4>1. \A j \in R : j <= m - 1
        <5> SUFFICES ASSUME NEW j \in R PROVE j <= m - 1
          OBVIOUS
        <5>1. j \in Nat /\ j <= m /\ j # m
          BY <3>3, <3>4
        <5> QED BY <3>6, <5>1
      <4>2. R \in SUBSET I
        BY <3>3
      <4> QED BY <4>1, <4>2 DEF Upto
    <3>8. f[R] \in Seq(Int)
      <4>1. m - 1 \notin T
        BY <3>1, <3>6
      <4> HIDE DEF R
      <4> QED BY <3>6, <3>7, <4>1
    <3>9. row[m] \in Seq(Int)
      BY <3>3, <3>4
    <3> HIDE DEF R
    <3> QED BY <3>2, <3>5, <3>8, <3>9, ConcatProperties
  <2>2. Upto(I, n) = SUBSET I
    <3>1. \A S \in SUBSET I : \A j \in S : j <= n
      OBVIOUS
    <3> QED BY <3>1 DEF Upto
  <2>3. n \notin T
    BY <2>1
  <2> QED BY <2>2, <2>3
<1> QED BY <1>1, <1>3

LEMMA RowsGrow ==
  ASSUME NEW n \in Nat, NEW I \in SUBSET (1 .. n), NEW row \in [I -> Seq(Int)],
         NEW f, Rows(f, I, row), NEW i \in I
  PROVE  /\ {j \in I : j <= i} \in SUBSET I
         /\ Len(f[{j \in I : j <= i}]) <= Len(f[I])
<1> DEFINE B(k) == {j \in I : j <= k}
           T == {k \in Nat : i <= k /\ Len(f[B(k)]) < Len(f[B(i)])}
<1>0. \A S \in SUBSET I : f[S] \in Seq(Int)
  BY RowsMean
<1>9. ASSUME NEW S \in SUBSET I, NEW m \in I, \A j \in S : j < m
      PROVE  f[S \cup {m}] = f[S] \o row[m]
  <2>1. Adds(f, I, row)
    BY RowsAdd
  <2> HIDE DEF B, T
  <2> QED BY <1>9, <2>1 DEF Adds
<1>1. \A k \in Nat : B(k) \in SUBSET I /\ f[B(k)] \in Seq(Int) /\ Len(f[B(k)]) \in Nat
  <2> SUFFICES ASSUME NEW k \in Nat
               PROVE  B(k) \in SUBSET I /\ f[B(k)] \in Seq(Int) /\ Len(f[B(k)]) \in Nat
    OBVIOUS
  <2>1. B(k) \in SUBSET I
    OBVIOUS
  <2> HIDE DEF B
  <2>2. f[B(k)] \in Seq(Int)
    BY <1>0, <2>1
  <2> QED BY <2>1, <2>2
<1>2. i \in Nat
  OBVIOUS
<1>3. ASSUME T # {} PROVE FALSE
  <2>1. PICK k \in T : \A x \in T : k <= x
    <3>1. T \in SUBSET Nat
      OBVIOUS
    <3> HIDE DEF T
    <3> QED BY <1>3, <3>1, Smallest
  <2>2. k \in Nat /\ i <= k /\ Len(f[B(k)]) < Len(f[B(i)])
    OBVIOUS
  <2>3. k # i
    <3>1. Len(f[B(i)]) \in Nat
      BY <1>1, <1>2
    <3> HIDE DEF B
    <3> QED BY <2>2, <3>1
  <2>4. k - 1 \in Nat /\ i <= k - 1 /\ ~(k <= k - 1)
    BY <1>2, <2>2, <2>3
  <2>5. ~(Len(f[B(k - 1)]) < Len(f[B(i)]))
    <3> HIDE DEF B
    <3>1. k - 1 \notin T
      BY <2>1, <2>4
    <3> QED BY <2>4, <3>1
  <2>6. CASE k \notin I
    <3>1. \A j \in I : j <= k <=> j <= k - 1
      <4> SUFFICES ASSUME NEW j \in I PROVE j <= k <=> j <= k - 1
        OBVIOUS
      <4>1. j \in Nat /\ j # k
        BY <2>6
      <4> QED BY <2>2, <4>1
    <3>2. B(k) = B(k - 1)
      BY <3>1
    <3> HIDE DEF B
    <3> QED BY <2>2, <2>5, <3>2
  <2>7. CASE k \in I
    <3>1. \A j \in I : /\ j <= k <=> (j <= k - 1 \/ j = k)
                       /\ j <= k - 1 => j < k
      <4> SUFFICES ASSUME NEW j \in I
          PROVE  /\ j <= k <=> (j <= k - 1 \/ j = k)
                 /\ j <= k - 1 => j < k
        OBVIOUS
      <4>1. j \in Nat
        OBVIOUS
      <4> QED BY <2>2, <4>1
    <3>2. B(k) = B(k - 1) \cup {k} /\ \A j \in B(k - 1) : j < k
      BY <2>7, <3>1
    <3>3. f[B(k)] = f[B(k - 1)] \o row[k]
      <4> HIDE DEF B
      <4>1. B(k - 1) \in SUBSET I
        BY <1>1, <2>4
      <4>2. f[B(k - 1) \cup {k}] = f[B(k - 1)] \o row[k]
        BY <1>9, <2>7, <3>2, <4>1
      <4> QED BY <3>2, <4>2
    <3>4. row[k] \in Seq(Int)
      BY <2>7
    <3> HIDE DEF B
    <3>5. /\ f[B(k - 1)] \in Seq(Int) /\ Len(f[B(k - 1)]) \in Nat /\ Len(f[B(i)]) \in Nat
          /\ Len(f[B(k)]) \in Nat
      BY <1>1, <1>2, <2>2, <2>4
    <3>6. Len(f[B(k)]) = Len(f[B(k - 1)]) + Len(row[k]) /\ Len(row[k]) \in Nat
      BY <3>3, <3>4, <3>5, ConcatProperties
    <3>7. Len(f[B(k)]) >= Len(f[B(k - 1)])
      <4> DEFINE x == Len(f[B(k - 1)])
                 y == Len(row[k])
      <4>1. x \in Nat /\ y \in Nat /\ Len(f[B(k)]) = x + y
        BY <3>5, <3>6
      <4> HIDE DEF x, y
      <4>2. x + y >= x
        BY <4>1
      <4> QED BY <4>1, <4>2 DEF x
    <3> QED BY <2>2, <2>5, <3>5, <3>7
  <2> QED BY <2>6, <2>7
<1>4. B(n) = I
  OBVIOUS
<1>5. i <= n
  OBVIOUS
<1>6. ~(Len(f[B(n)]) < Len(f[B(i)]))
  <2> HIDE DEF B
  <2> QED BY <1>3, <1>5
<1>7. Len(f[I]) \in Nat /\ Len(f[B(i)]) \in Nat /\ B(i) \in SUBSET I
  BY <1>1, <1>2, <1>4
<1> HIDE DEF B
<1>8. Len(f[B(i)]) <= Len(f[I])
  BY <1>4, <1>6, <1>7
<1> QED BY <1>7, <1>8 DEF B

\* The text of the stocks of a tree.
Text(t) ==
  CHOOSE f : f = [S \in SUBSET Ids(t) |->
                    IF S = {} THEN <<>>
                    ELSE LET last == CHOOSE i \in S : \A j \in S : j <= i
                         IN  f[S \ {last}] \o StockRow(t, last)]

StockRows(t) == [i \in Ids(t) |-> StockRow(t, i)]

LEMMA ListingIsText == Listing = Text(node)[Ids(node)]
  BY DEF Listing, Text, Stocks, Quantity, Addresses, Ids, StockRow

LEMMA TextRows ==
  ASSUME NEW t, NEW r, Tree(t, r), \A a \in DOMAIN t : t[a].id \in 1 .. MaxInt
  PROVE  /\ Rows(Text(t), Ids(t), StockRows(t))
         /\ Ids(t) \in SUBSET (1 .. MaxInt) /\ MaxInt \in Nat
         /\ StockRows(t) \in [Ids(t) -> Seq(Int)]
         /\ \A a \in DOMAIN t : StockRows(t)[t[a].id] = Row(t[a].id, t[a].left_stock)
<1>1. Ids(t) \in SUBSET (1 .. MaxInt) /\ MaxInt \in Nat
  BY MaxIntAssumption DEF Ids
<1>2. PICK g : Rows(g, Ids(t), StockRows(t))
  BY <1>1, RowsExist
<1> DEFINE Turn(f) == f = [S \in SUBSET Ids(t) |->
                    IF S = {} THEN <<>>
                    ELSE LET last == CHOOSE i \in S : \A j \in S : j <= i
                         IN  f[S \ {last}] \o StockRow(t, last)]
<1>3. ASSUME NEW f PROVE Turn(f) <=> Rows(f, Ids(t), StockRows(t))
  <2>1. \A S \in SUBSET Ids(t) : S # {} =>
          StockRows(t)[Last(S)] = StockRow(t, Last(S))
    <3> SUFFICES ASSUME NEW S \in SUBSET Ids(t), S # {}
                 PROVE  StockRows(t)[Last(S)] = StockRow(t, Last(S))
      OBVIOUS
    <3>1. S \in SUBSET (1 .. MaxInt)
      BY <1>1
    <3>2. Last(S) \in S
      BY <1>1, <3>1, LastMeans
    <3> QED BY <3>2 DEF StockRows
  <2> DEFINE A(S) == IF S = {} THEN <<>> ELSE f[S \ {Last(S)}] \o StockRow(t, Last(S))
             B(S) == IF S = {} THEN <<>> ELSE f[S \ {Last(S)}] \o StockRows(t)[Last(S)]
  <2>2. \A S \in SUBSET Ids(t) : A(S) = B(S)
    BY <2>1
  <2>3. Turn(f) <=> f = [S \in SUBSET Ids(t) |-> A(S)]
    BY DEF Last
  <2>4. Rows(f, Ids(t), StockRows(t)) <=> f = [S \in SUBSET Ids(t) |-> B(S)]
    BY DEF Rows
  <2> HIDE DEF A, B, Turn
  <2>5. [S \in SUBSET Ids(t) |-> A(S)] = [S \in SUBSET Ids(t) |-> B(S)]
    BY <2>2
  <2> QED BY <2>3, <2>4, <2>5
<1>4. Text(t) = CHOOSE f : Turn(f)
  BY DEF Text
<1> HIDE DEF Turn
<1>5. Turn(Text(t))
  <2>1. Turn(g)
    BY <1>2, <1>3
  <2> QED BY <1>4, <2>1
<1>6. Rows(Text(t), Ids(t), StockRows(t))
  BY <1>3, <1>5
<1>7. ASSUME NEW a \in DOMAIN t
      PROVE  /\ t[a].id \in Ids(t)
             /\ StockRows(t)[t[a].id] = Row(t[a].id, t[a].left_stock)
             /\ StockRows(t)[t[a].id] \in Seq(Int)
  <2> DEFINE b == CHOOSE b \in DOMAIN t : t[b].id = t[a].id
  <2>1. b \in DOMAIN t /\ t[b].id = t[a].id
    OBVIOUS
  <2>2. b = a
    <3> HIDE DEF b
    <3> QED BY <2>1, IdsDiffer
  <2>3. t[a].id \in Ids(t)
    BY DEF Ids
  <2>4. StockRows(t)[t[a].id] = Row(t[a].id, t[a].left_stock)
    BY <2>2, <2>3 DEF StockRows, StockRow
  <2>5. t[a].id \in Int /\ t[a].left_stock \in Int
    BY TreeTyped
  <2> QED BY <2>3, <2>4, <2>5, RowTyped
<1>8. StockRows(t) \in [Ids(t) -> Seq(Int)]
  <2>1. \A i \in Ids(t) : StockRows(t)[i] \in Seq(Int)
    BY <1>7 DEF Ids
  <2>2. StockRows(t) = [i \in Ids(t) |-> StockRows(t)[i]]
    BY DEF StockRows
  <2> QED BY <2>1, <2>2
<1> QED BY <1>1, <1>6, <1>7, <1>8

\* What the text of a tree is, as the walk puts it together.
LEMMA TextMeans ==
  ASSUME NEW t, NEW r, Tree(t, r), \A a \in DOMAIN t : t[a].id \in 1 .. MaxInt
  PROVE  /\ Text(t)[{}] = <<>>
         /\ \A S \in SUBSET Ids(t) : Text(t)[S] \in Seq(Int)
<1>1. /\ Rows(Text(t), Ids(t), StockRows(t))
      /\ Ids(t) \in SUBSET (1 .. MaxInt) /\ MaxInt \in Nat
      /\ StockRows(t) \in [Ids(t) -> Seq(Int)]
  BY TextRows
<1> QED BY <1>1, RowsMean

LEMMA TextAdds ==
  ASSUME NEW t, NEW r, Tree(t, r), \A a \in DOMAIN t : t[a].id \in 1 .. MaxInt,
         NEW a \in DOMAIN t
  PROVE  LET below == {t[b].id : b \in {b \in DOMAIN t : t[b].id < t[a].id}}
             upto == below \cup {t[a].id}
         IN  /\ below \in SUBSET Ids(t) /\ upto \in SUBSET Ids(t)
             /\ Text(t)[upto] = Text(t)[below] \o Row(t[a].id, t[a].left_stock)
             /\ Len(Text(t)[upto]) <= Len(Text(t)[Ids(t)])
<1> DEFINE i == t[a].id
           below == {t[b].id : b \in {b \in DOMAIN t : t[b].id < i}}
           upto == below \cup {i}
<1>1. /\ Rows(Text(t), Ids(t), StockRows(t))
      /\ Ids(t) \in SUBSET (1 .. MaxInt) /\ MaxInt \in Nat
      /\ StockRows(t) \in [Ids(t) -> Seq(Int)]
      /\ StockRows(t)[i] = Row(i, t[a].left_stock)
  BY TextRows
<1>2. Adds(Text(t), Ids(t), StockRows(t))
  BY <1>1, RowsAdd
<1>3. below \in SUBSET Ids(t) /\ upto \in SUBSET Ids(t) /\ i \in Ids(t)
      /\ \A j \in below : j < i
  BY DEF Ids
<1>4. upto = {j \in Ids(t) : j <= i}
  <2>1. \A b \in DOMAIN t : t[b].id <= i <=> (t[b].id < i \/ t[b].id = i)
    <3>1. \A b \in DOMAIN t : t[b].id \in Int
      BY TreeTyped
    <3> QED BY <3>1
  <2>2. \A j : j \in upto => j \in {x \in Ids(t) : x <= i}
    BY <2>1 DEF Ids
  <2>3. \A j \in Ids(t) : j <= i => j \in upto
    BY <2>1 DEF Ids
  <2> HIDE DEF upto
  <2> QED BY <2>2, <2>3
<1> HIDE DEF i, below
<1>5. Text(t)[upto] = Text(t)[below] \o StockRows(t)[i]
  BY <1>2, <1>3 DEF Adds
<1> HIDE DEF upto
<1>6. Len(Text(t)[upto]) <= Len(Text(t)[Ids(t)])
  <2>1. Len(Text(t)[{j \in Ids(t) : j <= i}]) <= Len(Text(t)[Ids(t)])
    BY <1>1, <1>3, RowsGrow
  <2> QED BY <1>4, <2>1
<1> QED BY <1>1, <1>3, <1>5, <1>6 DEF i, below, upto

SeenIds == {seen[k].id : k \in DOMAIN seen}

\* A listing has put the rows of the stocks it has visited into the answer, and
\* has them all at its end, or has been refused because they do not fit.
ListInv ==
  pc = "listing" =>
    IF calls # <<>> THEN Sent(response) = Text(node)[SeenIds]
    ELSE Sent(response) = IF Len(Text(node)[Ids(node)]) < SizeMax
                          THEN Text(node)[Ids(node)] ELSE internal_error

LEMMA ShowStarts == ASSUME IndInv, Show PROVE ListInv'
<1>1. /\ Tree(node, root) /\ \A a \in DOMAIN node : node[a].id \in 1 .. MaxInt
      /\ CallOnRoot("listing") /\ node' = node
  BY DEF IndInv, TreeInv, Show, Addresses, tree
<1>2. /\ seen' = <<>> /\ response' = response_init
      /\ root = NULL => calls' = <<>> /\ Addresses = {}
      /\ root # NULL => calls' # <<>>
  BY <1>1, StartTyped DEF CallOnRoot
<1>3. Text(node)[{}] = <<>>
  BY <1>1, TextMeans
<1>4. Sent(response') = <<>>
  BY <1>2 DEF Sent, response_init
<1>5. CASE root = NULL
  <2>1. Ids(node) = {}
    BY <1>2, <1>5 DEF Ids, Addresses
  <2>2. Len(Text(node)[Ids(node)]) = 0 /\ SizeMax > 2
    BY <1>3, <2>1, StoreAssumption
  <2>3. Len(Text(node)[Ids(node)]) < SizeMax
    BY <2>2, ResponseAssumption
  <2> QED BY <1>1, <1>2, <1>3, <1>4, <1>5, <2>1, <2>3 DEF ListInv
<1>6. CASE root # NULL
  <2>1. SeenIds' = {}
    BY <1>2 DEF SeenIds
  <2> QED BY <1>1, <1>2, <1>3, <1>4, <1>6, <2>1 DEF ListInv
<1> QED BY <1>5, <1>6

LEMMA SeenVisited ==
  ASSUME WalkInv, pc = "listing", calls # <<>>
  PROVE  SeenIds = {node[a].id : a \in Visited}
<1>1. /\ \A k \in DOMAIN seen : \E a \in Visited : seen[k] = Written(a)
      /\ \A a \in Visited : \E k \in DOMAIN seen : seen[k] = Written(a)
  BY DEF WalkInv
<1>2. \A a \in Visited : Written(a).id = node[a].id
  BY DEF Written, Record
<1> QED BY <1>1, <1>2 DEF SeenIds

LEMMA SeenMore ==
  ASSUME seen \in Seq(Lines), NEW line \in Lines, seen' = Append(seen, line)
  PROVE  SeenIds' = SeenIds \cup {line.id}
<1> DEFINE n == Len(seen)
<1>1. n \in Nat /\ DOMAIN seen = 1 .. n
  OBVIOUS
<1>2. /\ DOMAIN seen' = 1 .. n + 1
      /\ \A k \in 1 .. n : seen'[k] = seen[k]
      /\ seen'[n + 1] = line
  BY AppendProperties
<1> HIDE DEF n
<1>3. /\ 1 .. n + 1 = (1 .. n) \cup {n + 1}
  BY <1>1
<1> QED BY <1>1, <1>2, <1>3 DEF SeenIds

LEMMA ListRowGoesOn == ASSUME IndInv, ListInv, ListRow PROVE ListInv'
<1> DEFINE at == Innermost.at
           row == Row(node[at].id, node[at].left_stock)
<1>1. /\ Tree(node, root) /\ \A a \in DOMAIN node : node[a].id \in 1 .. MaxInt
      /\ WalkInv /\ Typed /\ pc = "listing" /\ calls # <<>> /\ Innermost.next = "visit"
      /\ pc' = pc /\ node' = node
      /\ calls \in Seq(Frames) /\ seen \in Seq(Lines) /\ Holds(response)
  BY DEF IndInv, TreeInv, Typed, ListRow, Walking, Addresses, tree
<1>2. at \in DOMAIN node
  <2>1. Len(calls) \in Nat \ {0}
    BY <1>1, EmptySeq
  <2> QED BY <1>1, <2>1 DEF WalkInv, Nest, Innermost, Addresses
<1>3. node[at].id \in Int /\ node[at].left_stock \in Int /\ row \in Seq(Int)
  <2>1. node[at].id \in Int /\ node[at].left_stock \in Int
    BY <1>1, <1>2, TreeTyped
  <2> QED BY <2>1, RowTyped
<1> DEFINE below == {node[b].id : b \in {b \in DOMAIN node : node[b].id < node[at].id}}
           upto == below \cup {node[at].id}
<1>4. SeenIds = below
  <2>1. Visited = {b \in DOMAIN node : node[b].id < node[at].id}
    BY <1>1 DEF Visited, VisitedAt
  <2>2. SeenIds = {node[a].id : a \in Visited}
    BY <1>1, SeenVisited
  <2> QED BY <2>1, <2>2
<1>5. /\ upto \in SUBSET Ids(node)
      /\ Text(node)[upto] = Text(node)[below] \o row
      /\ Len(Text(node)[upto]) <= Len(Text(node)[Ids(node)])
  <2> HIDE DEF at
  <2> QED BY <1>1, <1>2, TextAdds
<1>6. Text(node)[upto] \in Seq(Int) /\ Text(node)[Ids(node)] \in Seq(Int)
  <2>1. Ids(node) \in SUBSET Ids(node)
    OBVIOUS
  <2> QED BY <1>1, <1>5, <2>1, TextMeans
<1>7. Sent(response) = Text(node)[below]
  BY <1>1, <1>4 DEF ListInv
<1> HIDE DEF below
<1>8. CASE /\ AppendStatus(response, row) = "OK"
           /\ response' = response_appendf(response, row)
           /\ seen' = Append(seen, Record(node[at].id, node[at].left_stock))
           /\ Recurse("right", NULL)
  <2>1. Sent(response') = Sent(response) \o row
    <3> HIDE DEF row
    <3> QED BY <1>1, <1>3, <1>8, AppendfMeans
  <2>2. SeenIds' = upto
    <3> DEFINE line == Record(node[at].id, node[at].left_stock)
    <3>1. line \in Lines /\ line.id = node[at].id
      BY <1>3 DEF Record, Lines
    <3> HIDE DEF line
    <3>2. seen' = Append(seen, line)
      BY <1>8 DEF line
    <3>3. SeenIds' = SeenIds \cup {line.id}
      BY <1>1, <3>1, <3>2, SeenMore
    <3> QED BY <1>4, <3>1, <3>3
  <2>3. calls' # <<>>
    BY <1>1, <1>8, InnermostMoved
  <2> HIDE DEF row, upto
  <2> QED BY <1>1, <1>5, <1>7, <2>1, <2>2, <2>3 DEF ListInv
<1>9. CASE /\ AppendStatus(response, row) # "OK"
           /\ response' = Refusal(response, internal_error)
           /\ calls' = <<>>
  <2> HIDE DEF row, upto
  <2>1. internal_error \in Seq(Int) /\ Len(internal_error) < SizeMax
    BY StoreAssumption, ResponseAssumption DEF internal_error
  <2>2. Sent(response') = internal_error
    BY <1>1, <1>9, <2>1, RefusalMeans
  <2>3. ~(Len(row) <= SizeMax - response.len - 1)
    BY <1>9 DEF AppendStatus, HasRoom
  <2>4. /\ Sent(response) \in Seq(Int) /\ Len(Sent(response)) = response.len
        /\ response.len \in Nat
    BY <1>1, SentTyped
  <2>5. Len(Text(node)[upto]) = response.len + Len(row) /\ Len(row) \in Nat
    BY <1>3, <1>5, <1>7, <2>4, ConcatProperties
  <2>6. Len(Text(node)[Ids(node)]) \in Nat
    BY <1>6
  <2> DEFINE w == Len(Text(node)[Ids(node)])
             x == Len(row)
             y == response.len
  <2>7. w \in Nat /\ x \in Nat /\ y \in Nat /\ y + x <= w /\ ~(x <= SizeMax - y - 1)
    BY <1>5, <2>3, <2>4, <2>5, <2>6
  <2> HIDE DEF w, x, y
  <2>8. ~(w < SizeMax)
    BY <2>7, ResponseAssumption
  <2> QED BY <1>1, <1>9, <2>2, <2>8 DEF ListInv, w
<1> QED BY <1>8, <1>9 DEF ListRow, Here

LEMMA WalkGoesOn == ASSUME IndInv, ListInv, WalkLeft \/ WalkRight PROVE ListInv'
<1>1. /\ Tree(node, root) /\ \A a \in DOMAIN node : node[a].id \in 1 .. MaxInt
      /\ WalkInv /\ Typed /\ calls # <<>> /\ calls \in Seq(Frames)
      /\ pc' = pc /\ node' = node /\ seen' = seen /\ response' = response
      /\ pc \in {"counting", "saving", "listing"}
  BY DEF IndInv, TreeInv, Typed, WalkLeft, WalkRight, Walking, Addresses, tree
<1> SUFFICES ASSUME pc = "listing" PROVE ListInv'
  BY <1>1 DEF ListInv
<1>2. SeenIds' = SeenIds /\ Sent(response) = Text(node)[SeenIds]
  BY <1>1 DEF SeenIds, ListInv
<1>3. CASE calls' # <<>>
  BY <1>1, <1>2, <1>3 DEF ListInv
<1>4. CASE calls' = <<>> /\ WalkRight
  <2>1. Visited' = Visited
    BY <1>1, <1>4, WalkRightStep
  <2>2. Visited = DOMAIN node
    BY <1>1, <1>4, <2>1 DEF Visited, Addresses
  <2>3. SeenIds = Ids(node)
    BY <1>1, <2>2, SeenVisited DEF Ids
  <2>4. Holds(response)
    BY <1>1 DEF Typed
  <2>5. /\ Len(Sent(response)) = response.len /\ response.len \in Nat
        /\ Cap(response) \in 1 .. SizeMax /\ response.len \in 0 .. Cap(response) - 1
    BY <2>4, SentTyped, HoldsCap
  <2>6. Len(Text(node)[Ids(node)]) < SizeMax
    BY <1>2, <2>3, <2>5, ResponseAssumption
  <2> QED BY <1>1, <1>2, <1>4, <2>3, <2>6 DEF ListInv
<1>5. CASE WalkLeft
  <2>1. Innermost.at \in Addresses
    <3>1. Len(calls) \in Nat \ {0}
      BY <1>1, EmptySeq
    <3> QED BY <1>1, <3>1 DEF WalkInv, Nest, Innermost
  <2>2. Here.left \in Nat \cup {NULL}
    BY <1>1, <2>1, TreeTyped DEF Here, Addresses
  <2> DEFINE c == Here.left
  <2> HIDE DEF c
  <2>3. Recurse("visit", c) /\ (c # NULL => c \in Nat)
    BY <1>5, <2>2 DEF WalkLeft, c
  <2>4. calls' # <<>>
    BY <1>1, <2>3, InnermostMoved
  <2> QED BY <1>3, <2>4
<1> QED BY <1>3, <1>4, <1>5

LEMMA ListKeeps == IndInv /\ ListInv /\ [Next]_vars => ListInv'
<1> SUFFICES ASSUME IndInv, ListInv, [Next]_vars PROVE ListInv'
  OBVIOUS
<1>1. CASE Show
  BY <1>1, ShowStarts
<1>2. CASE ListRow
  BY <1>2, ListRowGoesOn
<1>3. CASE WalkLeft \/ WalkRight
  BY <1>3, WalkGoesOn
<1>4. CASE pc' # "listing"
  BY <1>4 DEF ListInv
<1>5. CASE UNCHANGED vars
  BY <1>5 DEF ListInv, SeenIds, vars
<1>6. CASE \/ Start \/ LoadLine \/ EndOfStock \/ ReplayLine \/ EndOfLog \/ ReadFails
  <2>1. pc' # "listing"
    BY <1>6
    DEF Start, LoadLine, EndOfStock, ReplayLine, EndOfLog, ReadFails, Destroy, CallOnRoot
  <2> QED BY <1>4, <2>1
<1>7. CASE \/ Visit \/ SaveFails \/ EndOfCount \/ Publish \/ AnswerShow
           \/ (\E t \in Trades : Trade(t)) \/ Shutdown
           \/ FreeLeft \/ FreeRight \/ FreeNode \/ EndOfProcess
  <2>1. pc' # "listing"
    BY <1>7
    DEF Visit, SaveFails, EndOfCount, Publish, AnswerShow, Trade, Shutdown, FreeLeft,
        FreeRight, FreeNode, EndOfProcess, Freeing, Destroy, CallOnRoot
  <2> QED BY <1>4, <2>1
<1> QED BY <1>1, <1>2, <1>3, <1>5, <1>6, <1>7 DEF Next

LEMMA ListIsWhole == ListInv => ShowIsWhole
  BY ListingIsText DEF ListInv, ShowIsWhole

\* A show, row by row through buffers that double, is answered by the rows of
\* all stocks in ascending order and nothing else, and by the refusal just if
\* no buffer can hold them (append_stock_line, response_ensure_capacity).
THEOREM ShowsAreWhole == Spec => []ShowIsWhole
<1>1. Init => ListInv
  BY DEF Init, ListInv
<1> QED BY <1>1, StoreInvariant, ListKeeps, ListIsWhole, PTL DEF Spec
-----------------------------------------------------------------------------
\* The stock table that the tree stands for, whatever its shape.
TableOf(t) ==
  [i \in Ids(t) |-> t[CHOOSE a \in DOMAIN t : t[a].id = i].left_stock]

LEMMA TableIsOf == [i \in Stocks |-> Quantity(i)] = TableOf(node)
  BY DEF Stocks, Quantity, Addresses, TableOf, Ids

LEMMA TableMeans ==
  ASSUME NEW t, NEW r, Tree(t, r)
  PROVE  /\ TableOf(t) = [i \in Ids(t) |-> TableOf(t)[i]]
         /\ \A a \in DOMAIN t :
              t[a].id \in Ids(t) /\ TableOf(t)[t[a].id] = t[a].left_stock
         /\ TableOf(t) # NoTable /\ TableOf(t) # Refused
<1>1. ASSUME NEW a \in DOMAIN t
      PROVE  t[a].id \in Ids(t) /\ TableOf(t)[t[a].id] = t[a].left_stock
  <2> DEFINE b == CHOOSE b \in DOMAIN t : t[b].id = t[a].id
  <2>1. b \in DOMAIN t /\ t[b].id = t[a].id
    OBVIOUS
  <2>2. b = a
    <3> HIDE DEF b
    <3> QED BY <2>1, IdsDiffer
  <2>3. t[a].id \in Ids(t)
    BY DEF Ids
  <2> QED BY <2>2, <2>3 DEF TableOf
<1>2. TableOf(t) = [i \in Ids(t) |-> TableOf(t)[i]]
  BY DEF TableOf
<1>3. TableOf(t) \in [Ids(t) -> Ints] /\ Ids(t) \in SUBSET Ints
  <2>1. \A a \in DOMAIN t : t[a].id \in Ints /\ t[a].left_stock \in Ints
    BY DEF Tree, Items
  <2>2. \A i \in Ids(t) : TableOf(t)[i] \in Ints
    BY <1>1, <2>1 DEF Ids
  <2>3. Ids(t) \in SUBSET Ints
    BY <2>1 DEF Ids
  <2> QED BY <1>2, <2>2, <2>3
<1>4. NoTable \notin [Ids(t) -> Ints] /\ Refused \notin [Ids(t) -> Ints]
  BY <1>3, TableAssumption
<1> QED BY <1>1, <1>2, <1>3, <1>4

\* Two functions with the same domain and the same values.
LEMMA SameTable ==
  ASSUME NEW D, NEW E, NEW f, NEW g, f = [i \in D |-> f[i]], g = [i \in E |-> g[i]],
         D = E, \A i \in D : f[i] = g[i]
  PROVE  f = g
  OBVIOUS

Matches(item, line) == item.id = Scan(line.id) /\ item.left_stock = Scan(line.n)

Recorded(lines, d) == {k \in 1 .. d : lines[k] # Blank}

\* The first d lines of a stock file are acceptable, and the tree holds what
\* they say.
Says(lines, d, t) ==
  /\ \A k \in Recorded(lines, d) :
       /\ lines[k].is = "record" /\ Scan(lines[k].id) > 0 /\ Scan(lines[k].n) >= 0
       /\ \A j \in Recorded(lines, d) : Scan(lines[j].id) = Scan(lines[k].id) => j = k
       /\ \E a \in DOMAIN t : Matches(t[a], lines[k])
  /\ \A a \in DOMAIN t : \E k \in Recorded(lines, d) : Matches(t[a], lines[k])

LEMMA SaysTable ==
  ASSUME NEW lines \in Seq(Lines), NEW t, NEW r, Tree(t, r), Says(lines, Len(lines), t)
  PROVE  StockSays(lines) = TableOf(t)
<1> DEFINE records == {k \in DOMAIN lines : lines[k] # Blank}
           ids == {Scan(lines[k].id) : k \in records}
           good == \A k \in records :
                /\ lines[k].is = "record"
                /\ Scan(lines[k].id) > 0 /\ Scan(lines[k].n) >= 0
                /\ \A j \in records : Scan(lines[j].id) = Scan(lines[k].id) => j = k
           said == [i \in ids |->
        Scan(lines[CHOOSE k \in records : Scan(lines[k].id) = i].n)]
<1>1. StockSays(lines) = IF good THEN said ELSE Refused
  BY DEF StockSays
<1>2. records = Recorded(lines, Len(lines))
  BY DEF Recorded
<1> HIDE DEF records
<1>3. good
  BY <1>2 DEF Says
<1>4. \A a \in DOMAIN t : \E k \in records : Matches(t[a], lines[k])
  BY <1>2 DEF Says
<1>5. \A k \in records : \E a \in DOMAIN t : Matches(t[a], lines[k])
  BY <1>2 DEF Says
<1>6. ids = Ids(t)
  <2>1. \A i \in ids : i \in Ids(t)
    BY <1>5 DEF Ids, Matches
  <2>2. \A i \in Ids(t) : i \in ids
    BY <1>4 DEF Ids, Matches
  <2> HIDE DEF ids
  <2> QED BY <2>1, <2>2
<1>7. ASSUME NEW a \in DOMAIN t PROVE said[t[a].id] = t[a].left_stock
  <2>1. PICK k \in records : Matches(t[a], lines[k])
    BY <1>4
  <2> DEFINE j == CHOOSE j \in records : Scan(lines[j].id) = t[a].id
  <2>2. j \in records /\ Scan(lines[j].id) = t[a].id
    BY <2>1 DEF Matches
  <2>3. j = k
    <3> HIDE DEF j
    <3> QED BY <1>3, <2>1, <2>2 DEF Matches
  <2>4. t[a].id \in ids
    BY <2>1 DEF Matches
  <2>5. said[t[a].id] = Scan(lines[j].n)
    BY <2>4
  <2> HIDE DEF said, j
  <2> QED BY <2>1, <2>3, <2>5 DEF Matches
<1>8. said = [i \in ids |-> said[i]]
  OBVIOUS
<1> HIDE DEF said, good, ids
<1>9. \A i \in ids : said[i] = TableOf(t)[i]
  <2> SUFFICES ASSUME NEW i \in Ids(t) PROVE said[i] = TableOf(t)[i]
    BY <1>6
  <2>1. PICK a \in DOMAIN t : i = t[a].id
    BY DEF Ids
  <2>2. TableOf(t)[t[a].id] = t[a].left_stock
    BY TableMeans
  <2> QED BY <1>7, <2>1, <2>2
<1>10. TableOf(t) = [i \in Ids(t) |-> TableOf(t)[i]]
  BY TableMeans
<1>11. said = TableOf(t)
  BY <1>6, <1>8, <1>9, <1>10, SameTable
<1> QED BY <1>1, <1>3, <1>11

LEMMA NotSaid ==
  ASSUME NEW lines \in Seq(Lines), NEW k \in DOMAIN lines, lines[k] # Blank,
         ~(Scan(lines[k].n) >= 0)
  PROVE  StockSays(lines) = Refused
  BY DEF StockSays

\* What is left of a file while it is read.
Rest(rest, lines) ==
  /\ Len(rest) <= Len(lines)
  /\ \A k \in 1 .. Len(rest) : rest[k] = lines[Len(lines) - Len(rest) + k]

LEMMA RestTail ==
  ASSUME NEW rest \in Seq(Lines), NEW lines \in Seq(Lines), rest # <<>>, Rest(rest, lines)
  PROVE  LET d == Len(lines) - Len(rest)
         IN  /\ Rest(Tail(rest), lines) /\ d \in Nat /\ d + 1 \in 1 .. Len(lines)
             /\ Len(lines) - Len(Tail(rest)) = d + 1
             /\ Head(rest) = lines[d + 1]
<1> DEFINE m == Len(rest)
           n == Len(lines)
<1>1. m \in Nat \ {0} /\ n \in Nat /\ m <= n
  BY EmptySeq DEF Rest
<1>2. /\ Head(rest) = rest[1] /\ Len(Tail(rest)) = m - 1
      /\ \A k \in 1 .. m - 1 : Tail(rest)[k] = rest[k + 1]
  <2>1. /\ Head(rest) = rest[1] /\ Len(Tail(rest)) = Len(rest) - 1
        /\ \A k \in 1 .. Len(Tail(rest)) : Tail(rest)[k] = rest[k + 1]
    BY <1>1, HeadTailProperties
  <2> QED BY <2>1
<1>3. \A k \in 1 .. m : rest[k] = lines[n - m + k]
  BY DEF Rest
<1> HIDE DEF m, n
<1>4. Head(rest) = lines[n - m + 1]
  <2>1. 1 \in 1 .. m
    BY <1>1
  <2> QED BY <1>2, <1>3, <2>1
<1>5. \A k \in 1 .. m - 1 : Tail(rest)[k] = lines[n - (m - 1) + k]
  <2> SUFFICES ASSUME NEW k \in 1 .. m - 1
               PROVE  Tail(rest)[k] = lines[n - (m - 1) + k]
    OBVIOUS
  <2>1. k + 1 \in 1 .. m /\ n - m + (k + 1) = n - (m - 1) + k
    BY <1>1
  <2>2. rest[k + 1] = lines[n - m + (k + 1)]
    BY <1>3, <2>1
  <2> QED BY <1>2, <2>1, <2>2
<1>6. n - (m - 1) = n - m + 1 /\ n - m \in Nat /\ n - m + 1 \in 1 .. n /\ m - 1 <= n
  BY <1>1
<1>7. Rest(Tail(rest), lines)
  BY <1>2, <1>5, <1>6 DEF Rest, n
<1> QED BY <1>2, <1>4, <1>6, <1>7 DEF m, n

\* What is said after each line of a log.
After(stock, log) ==
  CHOOSE f : f = [k \in 0 .. Len(log) |->
                    IF k = 0 THEN stock ELSE LineSays(f[k - 1], log[k])]

LEMMA AfterMeans ==
  ASSUME NEW stock, NEW log, Len(log) \in Nat
  PROVE  /\ LogSays(stock, log) = After(stock, log)[Len(log)]
         /\ After(stock, log)[0] = stock
         /\ \A k \in 1 .. Len(log) :
              After(stock, log)[k] = LineSays(After(stock, log)[k - 1], log[k])
<1> DEFINE n == Len(log)
           Part(f, k) == f = [j \in 0 .. k |->
                                IF j = 0 THEN stock ELSE LineSays(f[j - 1], log[j])]
           T == {k \in Nat : ~ \E f : Part(f, k)}
<1>1. T = {}
  <2> SUFFICES ASSUME T # {} PROVE FALSE
    OBVIOUS
  <2>1. PICK k \in T : \A x \in T : k <= x
    <3>1. T \in SUBSET Nat
      OBVIOUS
    <3> HIDE DEF T
    <3> QED BY <3>1, Smallest
  <2>2. k \in Nat /\ ~ \E f : Part(f, k)
    OBVIOUS
  <2>3. CASE k = 0
    <3> DEFINE e == [j \in 0 .. 0 |-> stock]
    <3>1. \A j \in 0 .. 0 : j = 0
      OBVIOUS
    <3>2. Part(e, 0)
      BY <3>1
    <3> QED BY <2>2, <2>3, <3>2
  <2>4. CASE k # 0
    <3>1. k - 1 \in Nat /\ ~(k <= k - 1)
      BY <2>2, <2>4
    <3>2. k - 1 \notin T
      BY <2>1, <3>1
    <3>3. PICK g : Part(g, k - 1)
      BY <3>1, <3>2
    <3> DEFINE f == [j \in 0 .. k |->
                       IF j = 0 THEN stock ELSE LineSays(g[j - 1], log[j])]
    <3>4. \A j \in 0 .. k - 1 : f[j] = g[j]
      <4> SUFFICES ASSUME NEW j \in 0 .. k - 1 PROVE f[j] = g[j]
        OBVIOUS
      <4>1. j \in 0 .. k
        BY <2>2
      <4> QED BY <3>3, <4>1
    <3>5. \A j \in 0 .. k : f[j] = IF j = 0 THEN stock ELSE LineSays(f[j - 1], log[j])
      <4> SUFFICES ASSUME NEW j \in 0 .. k
                   PROVE  f[j] = IF j = 0 THEN stock ELSE LineSays(f[j - 1], log[j])
        OBVIOUS
      <4>1. CASE j = 0
        BY <4>1
      <4>2. CASE j # 0
        <5>1. j - 1 \in 0 .. k - 1
          BY <2>2, <4>2
        <5>2. f[j - 1] = g[j - 1]
          BY <3>4, <5>1
        <5> QED BY <4>2, <5>2
      <4> QED BY <4>1, <4>2
    <3>6. f = [j \in 0 .. k |-> f[j]]
      OBVIOUS
    <3> HIDE DEF f
    <3>7. Part(f, k)
      BY <3>5, <3>6
    <3> HIDE DEF Part
    <3> QED BY <2>2, <3>7
  <2> QED BY <2>3, <2>4
<1>2. PICK g : Part(g, n)
  BY <1>1
<1>3. After(stock, log) = CHOOSE f : Part(f, n)
  BY DEF After
<1>4. LogSays(stock, log) = After(stock, log)[n]
  BY DEF LogSays, After
<1> DEFINE a == After(stock, log)
<1> HIDE DEF Part
<1>5. Part(a, n)
  BY <1>2, <1>3
<1> HIDE DEF a
<1>6. a[0] = stock
  BY <1>5 DEF Part
<1>7. \A k \in 1 .. n : a[k] = LineSays(a[k - 1], log[k])
  BY <1>5 DEF Part
<1> QED BY <1>4, <1>6, <1>7 DEF a

\* While recovery reads a file, the tree holds what the lines it has read say.
RecInv ==
  /\ files.by = "init" => files.log = <<>>
  /\ pc = "loading" =>
       /\ boot <=> files.by = "init"
       /\ Rest(input, files.stock)
       /\ Says(files.stock, Len(files.stock) - Len(input), node)
  /\ pc = "replaying" =>
       /\ Rest(input, files.log)
       /\ After(StockSays(files.stock), files.log)[Len(files.log) - Len(input)]
            = TableOf(node)

LEMMA RestAll ==
  ASSUME NEW lines \in Seq(Lines)
  PROVE  Rest(lines, lines) /\ Len(lines) - Len(lines) = 0 /\ Len(lines) \in Nat
<1>1. Len(lines) \in Nat
  OBVIOUS
<1> DEFINE n == Len(lines)
<1>2. n \in Nat
  BY <1>1
<1>3. Len(lines) = n
  OBVIOUS
<1> HIDE DEF n
<1>4. n <= n /\ n - n = 0 /\ \A k \in 1 .. n : n - n + k = k
  BY <1>2
<1> QED BY <1>2, <1>3, <1>4 DEF Rest

LEMMA StartReads == ASSUME IndInv, RecInv, Start PROVE RecInv'
<1>1. /\ files.stock \in Seq(Lines) /\ node = NoNodes /\ pc' = "loading"
      /\ files' = files /\ input' = files.stock /\ node' = node
      /\ boot' = (files.by = "init")
  BY DEF IndInv, TreeInv, Typed, Start, tree
<1>2. Rest(files.stock, files.stock) /\ Len(files.stock) - Len(files.stock) = 0
  BY <1>1, RestAll
<1>3. Says(files.stock, 0, node)
  <2>1. Recorded(files.stock, 0) = {} /\ DOMAIN node = {}
    BY <1>1 DEF Recorded, NoNodes
  <2> QED BY <2>1 DEF Says
<1> QED BY <1>1, <1>2, <1>3 DEF RecInv

LEMMA RecordReads ==
  ASSUME IndInv, RecInv, pc = "loading", input # <<>>, NEW line, line = Head(input),
         line.is = "record", line # Blank,
         Acceptable(line), Upsert(Scan(line.id), Scan(line.n)),
         UNCHANGED <<pc, boot, files>>, input' = Tail(input)
  PROVE  RecInv'
<1> DEFINE i == Scan(line.id)
           q == Scan(line.n)
           lines == files.stock
           d == Len(lines) - Len(input)
<1>1. /\ Tree(node, root) /\ input \in Seq(Lines) /\ lines \in Seq(Lines)
      /\ Rest(input, lines) /\ Says(lines, d, node)
  BY DEF IndInv, TreeInv, Typed, RecInv
<1> HIDE DEF lines
<1>2. /\ Rest(input', lines) /\ d \in Nat /\ d + 1 \in 1 .. Len(lines)
      /\ Len(lines) - Len(input') = d + 1 /\ line = lines[d + 1]
  BY <1>1, RestTail
<1>3. line.id \in Int /\ line.n \in Int
  BY <1>1, TailSaved DEF Lines
<1>4. i \in Ints /\ q \in Ints
  BY <1>3, ScanTyped
<1>5. i > 0 /\ q >= 0 /\ Find(i) = NULL /\ Upsert(i, q)
  BY DEF Acceptable
<1>6. Matches([id |-> i, left_stock |-> q, left |-> NULL, right |-> NULL], line)
  BY DEF Matches
<1>7. \A x : Matches(x, line) => x.id = i
  BY DEF Matches
<1>8. /\ \A k \in Recorded(lines, d) : Scan(lines[k].id) = Scan(line.id)
           => \E a \in Addresses : node[a].id = i
      /\ Scan(line.id) = i /\ Scan(line.n) = q
  BY <1>1 DEF Says, Matches, Addresses
<1> HIDE DEF i, q, d
<1>9. \A a \in Addresses : node[a].id # i
  <2>1. i \in Int /\ NULL \notin Addresses
    BY <1>1, <1>4, TreeTyped DEF Ints, Addresses
  <2> QED BY <1>1, <1>5, <2>1, FindMeans
<1>10. PICK new \in Nat :
        /\ new \notin Addresses
        /\ DOMAIN node' = Addresses \cup {new}
        /\ node'[new] = [id |-> i, left_stock |-> q, left |-> NULL, right |-> NULL]
        /\ \A a \in Addresses : /\ node'[a].id = node[a].id
                                /\ node'[a].left_stock = node[a].left_stock
  BY <1>1, <1>4, <1>5, <1>9, UpsertTree
<1>11. Recorded(lines, d + 1) = Recorded(lines, d) \cup {d + 1}
       /\ d + 1 \notin Recorded(lines, d)
  <2>1. 1 .. d + 1 = (1 .. d) \cup {d + 1} /\ d + 1 \notin 1 .. d
    BY <1>2
  <2> QED BY <1>2, <2>1 DEF Recorded
<1>12. \A x : \A a \in Addresses : Matches(node'[a], x) <=> Matches(node[a], x)
  BY <1>10 DEF Matches
<1>13. Says(lines, d + 1, node')
  <2>1. ASSUME NEW k \in Recorded(lines, d + 1)
        PROVE  /\ lines[k].is = "record" /\ Scan(lines[k].id) > 0
               /\ Scan(lines[k].n) >= 0
               /\ \E a \in DOMAIN node' : Matches(node'[a], lines[k])
    <3>1. CASE k \in Recorded(lines, d)
      <4>1. PICK a \in DOMAIN node : Matches(node[a], lines[k])
        BY <1>1, <3>1 DEF Says
      <4>2. a \in DOMAIN node' /\ Matches(node'[a], lines[k])
        BY <1>10, <1>12, <4>1 DEF Addresses
      <4> QED BY <1>1, <3>1, <4>2 DEF Says
    <3>2. CASE k = d + 1
      <4>1. new \in DOMAIN node' /\ Matches(node'[new], lines[k])
        BY <1>2, <1>6, <1>10, <3>2
      <4> QED BY <1>2, <1>5, <1>8, <3>2, <4>1
    <3> QED BY <1>11, <2>1, <3>1, <3>2
  <2>2. ASSUME NEW j \in Recorded(lines, d + 1), NEW k \in Recorded(lines, d + 1),
               Scan(lines[j].id) = Scan(lines[k].id)
        PROVE  j = k
    <3>1. \A m \in Recorded(lines, d) : Scan(lines[m].id) # Scan(line.id)
      BY <1>8, <1>9
    <3>2. CASE j \in Recorded(lines, d) /\ k \in Recorded(lines, d)
      BY <1>1, <2>2, <3>2 DEF Says
    <3> QED BY <1>2, <1>11, <2>2, <3>1, <3>2
  <2>3. ASSUME NEW a \in DOMAIN node'
        PROVE  \E k \in Recorded(lines, d + 1) : Matches(node'[a], lines[k])
    <3>1. CASE a \in Addresses
      <4>1. PICK k \in Recorded(lines, d) : Matches(node[a], lines[k])
        BY <1>1, <3>1 DEF Says, Addresses
      <4> QED BY <1>11, <1>12, <3>1, <4>1
    <3>2. CASE a = new
      BY <1>2, <1>6, <1>10, <1>11, <3>2
    <3> QED BY <1>10, <3>1, <3>2
  <2> QED BY <2>1, <2>2, <2>3 DEF Says
<1>14. /\ pc' = "loading" /\ files' = files /\ files'.stock = lines
       /\ (files.by = "init" => files.log = <<>>)
       /\ (boot' <=> files'.by = "init")
  BY DEF RecInv, lines
<1> QED BY <1>2, <1>13, <1>14 DEF RecInv

LEMMA BlankReads ==
  ASSUME IndInv, RecInv, pc \in {"loading", "replaying"}, input # <<>>,
         input' = Tail(input), Head(input) = Blank,
         UNCHANGED <<pc, boot, files, node>>
  PROVE  RecInv'
<1>1. files.by = "init" => files.log = <<>>
  BY DEF RecInv
<1>2. /\ input \in Seq(Lines) /\ files.stock \in Seq(Lines) /\ files.log \in Seq(Lines)
  BY DEF IndInv, Typed
<1>3. CASE pc = "loading"
  <2> DEFINE lines == files.stock
             d == Len(lines) - Len(input)
  <2>1. (boot <=> files.by = "init") /\ Rest(input, lines) /\ Says(lines, d, node)
    BY <1>3 DEF RecInv
  <2> HIDE DEF lines
  <2>2. /\ Rest(input', lines) /\ d \in Nat /\ d + 1 \in 1 .. Len(lines)
        /\ Len(lines) - Len(input') = d + 1 /\ Blank = lines[d + 1]
    BY <1>2, <2>1, RestTail DEF lines
  <2> HIDE DEF d
  <2>3. Recorded(lines, d + 1) = Recorded(lines, d)
    <3>1. 1 .. d + 1 = (1 .. d) \cup {d + 1}
      BY <2>2
    <3> QED BY <2>2, <3>1 DEF Recorded
  <2>4. Says(lines, d + 1, node)
    BY <2>1, <2>3 DEF Says
  <2> QED BY <1>1, <1>3, <2>1, <2>2, <2>4 DEF RecInv, lines
<1>4. CASE pc = "replaying"
  <2> DEFINE lines == files.log
             said == StockSays(files.stock)
             d == Len(lines) - Len(input)
  <2>1. Rest(input, lines) /\ After(said, lines)[d] = TableOf(node)
    BY <1>4 DEF RecInv
  <2> HIDE DEF lines, said
  <2>2. /\ Rest(input', lines) /\ d \in Nat /\ d + 1 \in 1 .. Len(lines)
        /\ Len(lines) - Len(input') = d + 1 /\ Blank = lines[d + 1]
    BY <1>2, <2>1, RestTail DEF lines
  <2>3. Len(lines) \in Nat
    BY <1>2 DEF lines
  <2> HIDE DEF d
  <2>4. After(said, lines)[d + 1] = LineSays(After(said, lines)[d + 1 - 1], Blank)
    BY <2>2, <2>3, AfterMeans
  <2>5. d + 1 - 1 = d
    BY <2>2
  <2>6. After(said, lines)[d + 1] = TableOf(node)
    BY <2>1, <2>4, <2>5 DEF LineSays
  <2> QED BY <1>1, <1>4, <2>2, <2>6 DEF RecInv, lines, said
<1> QED BY <1>3, <1>4

\* A trade changes one value of the table.
LEMMA DeltaTable ==
  ASSUME Tree(node, root), NEW i \in Int, NEW d \in -MaxInt .. MaxInt,
         DeltaStatus(i, d) = "OK", ApplyDelta(i, d)
  PROVE  /\ i \in Ids(node) /\ i \in DOMAIN TableOf(node)
         /\ Wrap(TableOf(node)[i] + d) \in Ints
         /\ d < 0 => TableOf(node)[i] >= -d
         /\ TableOf(node') = [TableOf(node) EXCEPT ![i] = Wrap(TableOf(node)[i] + d)]
<1> DEFINE f == Find(i)
           q == Wrap(node[f].left_stock + d)
<1>1. f \in Addresses /\ node[f].id = i /\ q \in Ints
  BY DeltaTyped
<1>2. /\ node' = [node EXCEPT ![f].left_stock = q] /\ root' = root
      /\ ~(d < 0 /\ node[f].left_stock < -d)
  BY DEF ApplyDelta, DeltaStatus
<1> HIDE DEF f
<1>3. i \in Ids(node) /\ TableOf(node)[i] = node[f].left_stock
  BY <1>1, TableMeans DEF Addresses
<1>4. q = Wrap(TableOf(node)[i] + d)
  BY <1>3
<1>5. node[f].left_stock \in Int
  BY <1>1, TreeTyped DEF Addresses
<1> HIDE DEF q
<1>6. Tree(node', root')
  BY <1>1, <1>2, ApplyDeltaTree DEF Addresses
<1>7. /\ DOMAIN node' = Addresses
      /\ \A a \in Addresses :
           /\ node'[a].id = node[a].id
           /\ node'[a].left_stock = IF a = f THEN q ELSE node[a].left_stock
  <2>1. node \in [Addresses -> Items(Addresses)]
    BY DEF Tree, Addresses
  <2> QED BY <1>1, <1>2, <2>1 DEF Addresses, Items
<1>8. Ids(node') = Ids(node)
  BY <1>7 DEF Ids, Addresses
<1> DEFINE t == TableOf(node)
           u == TableOf(node')
           v == [t EXCEPT ![i] = q]
<1>9. t = [j \in Ids(node) |-> t[j]] /\ u = [j \in Ids(node) |-> u[j]]
  BY <1>6, <1>8, TableMeans
<1>10. \A a \in Addresses : /\ t[node[a].id] = node[a].left_stock
                            /\ node[a].id \in Ids(node)
  BY TableMeans DEF Addresses
<1>11. \A a \in Addresses : u[node[a].id] = IF a = f THEN q ELSE node[a].left_stock
  <2> SUFFICES ASSUME NEW a \in Addresses
               PROVE  u[node[a].id] = IF a = f THEN q ELSE node[a].left_stock
    OBVIOUS
  <2>1. a \in DOMAIN node' /\ node'[a].id = node[a].id
    BY <1>7
  <2>2. u[node'[a].id] = node'[a].left_stock
    BY <1>6, <2>1, TableMeans
  <2> QED BY <1>7, <2>1, <2>2
<1> HIDE DEF t, u
<1>12. v = [j \in Ids(node) |-> IF j = i THEN q ELSE t[j]]
  BY <1>9
<1>13. \A j \in Ids(node) : u[j] = IF j = i THEN q ELSE t[j]
  <2> SUFFICES ASSUME NEW j \in Ids(node) PROVE u[j] = IF j = i THEN q ELSE t[j]
    OBVIOUS
  <2>1. PICK a \in Addresses : j = node[a].id
    BY DEF Ids, Addresses
  <2>2. j = i => a = f
    BY <1>1, <2>1, IdsDiffer DEF Addresses
  <2>3. a = f => j = i
    BY <1>1, <2>1
  <2> QED BY <1>10, <1>11, <2>1, <2>2, <2>3
<1>14. u = v
  <2>1. [j \in Ids(node) |-> u[j]] = [j \in Ids(node) |-> IF j = i THEN q ELSE t[j]]
    BY <1>13
  <2> QED BY <1>9, <1>12, <2>1
<1>15. d < 0 => TableOf(node)[i] >= -d
  BY <1>2, <1>3, <1>5
<1>16. i \in DOMAIN t
  BY <1>3, <1>9
<1> QED BY <1>1, <1>3, <1>4, <1>14, <1>15, <1>16 DEF t, u

LEMMA TradeReads ==
  ASSUME IndInv, RecInv, pc = "replaying", input # <<>>, NEW line, line = Head(input),
         Replayable(line), ApplyDelta(Scan(line.id), Delta(line)),
         UNCHANGED <<pc, boot, files>>, input' = Tail(input)
  PROVE  RecInv'
<1> DEFINE lines == files.log
           said == StockSays(files.stock)
           k == Len(lines) - Len(input)
           i == Scan(line.id)
           d == Delta(line)
           t == TableOf(node)
<1>1. /\ Tree(node, root) /\ input \in Seq(Lines) /\ lines \in Seq(Lines)
      /\ Rest(input, lines) /\ After(said, lines)[k] = t
      /\ files.by = "init" => files.log = <<>>
  BY DEF IndInv, TreeInv, Typed, RecInv
<1> HIDE DEF lines, said
<1>2. /\ Rest(input', lines) /\ k \in Nat /\ k + 1 \in 1 .. Len(lines)
      /\ Len(lines) - Len(input') = k + 1 /\ line = lines[k + 1]
  BY <1>1, RestTail
<1>3. line.id \in Int /\ line.n \in Int
  BY <1>1, TailSaved DEF Lines
<1>4. i \in Int /\ Scan(line.n) \in Ints /\ Scan(line.n) > 0
  BY <1>3, ScanTyped DEF Ints, Replayable
<1>5. d \in -MaxInt .. MaxInt
  BY <1>4, MaxIntAssumption DEF Delta, Ints
<1>6. DeltaStatus(i, d) = "OK" /\ line.is \in {"BUY", "SELL"} /\ line # Blank
  BY DEF Replayable, Blank
<1> HIDE DEF k
<1>7. /\ i \in DOMAIN t /\ (d < 0 => t[i] >= -d)
      /\ TableOf(node') = [t EXCEPT ![i] = Wrap(t[i] + d)]
  <2> HIDE DEF i, d
  <2> QED BY <1>1, <1>4, <1>5, <1>6, DeltaTable DEF i, d
<1>8. t # Refused
  BY <1>1, TableMeans
<1>9. d = IF line.is = "BUY" THEN -Scan(line.n) ELSE Scan(line.n)
  BY DEF Delta
<1>10. line.is = "BUY" => t[i] >= Scan(line.n)
  <2> SUFFICES ASSUME line.is = "BUY" PROVE t[i] >= Scan(line.n)
    OBVIOUS
  <2>1. d = -Scan(line.n) /\ d < 0 /\ Scan(line.n) \in Int
    BY <1>4, <1>9 DEF Ints
  <2>2. -d = Scan(line.n)
    BY <2>1
  <2> QED BY <1>7, <2>1, <2>2
<1> HIDE DEF t, d
<1>11. LineSays(t, line) = [t EXCEPT ![i] = Wrap(t[i] + d)]
  <2>1. LineSays(t, line) =
          [t EXCEPT ![i] = Wrap(t[i] + IF line.is = "BUY" THEN -Scan(line.n)
                                                          ELSE Scan(line.n))]
    BY <1>4, <1>6, <1>7, <1>8, <1>10 DEF LineSays
  <2> QED BY <1>9, <2>1
<1> HIDE DEF i
<1>12. After(said, lines)[k + 1] = TableOf(node')
  <2>1. Len(lines) \in Nat
    BY <1>1
  <2>2. After(said, lines)[k + 1] = LineSays(After(said, lines)[k + 1 - 1], line)
    BY <1>2, <2>1, AfterMeans
  <2>3. k + 1 - 1 = k
    BY <1>2
  <2> QED BY <1>1, <1>7, <1>11, <2>2, <2>3
<1>13. pc' = "replaying" /\ files' = files
  OBVIOUS
<1> QED BY <1>1, <1>2, <1>12, <1>13 DEF RecInv, lines, said

LEMMA EndOfStockReads ==
  ASSUME IndInv, RecInv, EndOfStock
  PROVE  RecInv' /\ StockSays(files.stock) = TableOf(node)
<1>1. /\ Tree(node, root) /\ files.stock \in Seq(Lines) /\ files.log \in Seq(Lines)
      /\ input = <<>> /\ Says(files.stock, Len(files.stock) - Len(input), node)
      /\ files.by = "init" => files.log = <<>>
  BY DEF IndInv, TreeInv, Typed, RecInv, EndOfStock
<1>2. Len(files.stock) - Len(input) = Len(files.stock)
  BY <1>1
<1>3. StockSays(files.stock) = TableOf(node)
  BY <1>1, <1>2, SaysTable
<1>4. files' = files /\ node' = node
  BY DEF EndOfStock, tree
<1>5. CASE pc' = "saving"
  BY <1>1, <1>3, <1>4, <1>5 DEF RecInv
<1>6. CASE pc' = "replaying" /\ input' = files.log
  <2>1. /\ Rest(input', files.log) /\ Len(files.log) - Len(input') = 0
        /\ Len(files.log) \in Nat
    BY <1>1, <1>6, RestAll
  <2>2. After(StockSays(files.stock), files.log)[0] = TableOf(node)
    BY <1>3, <2>1, AfterMeans
  <2> QED BY <1>1, <1>3, <1>4, <1>6, <2>1, <2>2 DEF RecInv
<1> QED BY <1>5, <1>6 DEF EndOfStock, CallOnRoot

LEMMA RecKeeps == IndInv /\ RecInv /\ [Next]_vars => RecInv'
<1> SUFFICES ASSUME IndInv, RecInv, [Next]_vars PROVE RecInv'
  OBVIOUS
<1>1. CASE Start
  BY <1>1, StartReads
<1>2. ASSUME pc' \notin {"loading", "replaying"},
             files' = files \/ files'.by = "save"
      PROVE  RecInv'
  BY <1>2 DEF RecInv
<1>3. CASE LoadLine
  <2> DEFINE line == Head(input)
  <2>1. pc = "loading" /\ input # <<>> /\ input' = Tail(input) /\ UNCHANGED <<boot, files>>
    BY <1>3 DEF LoadLine
  <2>2. CASE line = Blank /\ UNCHANGED <<pc, tree>>
    BY <2>1, <2>2, BlankReads DEF tree
  <2>3. CASE /\ line.is = "record" /\ Acceptable(line)
             /\ Upsert(Scan(line.id), Scan(line.n)) /\ UNCHANGED pc
    <3>1. line # Blank
      BY <2>3 DEF Blank
    <3> HIDE DEF line
    <3> QED BY <2>1, <2>3, <3>1, RecordReads DEF line
  <2>4. CASE Destroy
    BY <1>2, <2>1, <2>4 DEF Destroy, CallOnRoot
  <2> QED BY <1>3, <2>2, <2>3, <2>4 DEF LoadLine
<1>4. CASE EndOfStock
  BY <1>4, EndOfStockReads
<1>5. CASE ReplayLine
  <2> DEFINE line == Head(input)
  <2>1. /\ pc = "replaying" /\ input # <<>> /\ input' = Tail(input)
        /\ UNCHANGED <<boot, files>>
    BY <1>5 DEF ReplayLine
  <2>2. CASE line = Blank /\ UNCHANGED <<pc, tree>>
    BY <2>1, <2>2, BlankReads DEF tree
  <2>3. CASE Replayable(line) /\ ApplyDelta(Scan(line.id), Delta(line)) /\ UNCHANGED pc
    <3> HIDE DEF line
    <3> QED BY <2>1, <2>3, TradeReads DEF line
  <2>4. CASE Destroy
    BY <1>2, <2>1, <2>4 DEF Destroy, CallOnRoot
  <2> QED BY <1>5, <2>2, <2>3, <2>4 DEF ReplayLine
<1>6. CASE EndOfLog \/ ReadFails \/ SaveFails \/ EndOfCount \/ Publish \/ Show
           \/ AnswerShow \/ Shutdown
  BY <1>2, <1>6 DEF EndOfLog, ReadFails, SaveFails, EndOfCount, Publish, Show,
     AnswerShow, Shutdown, Destroy, CallOnRoot
<1>7. CASE \/ WalkLeft \/ Visit \/ ListRow \/ WalkRight \/ (\E t \in Trades : Trade(t))
           \/ FreeLeft \/ FreeRight \/ FreeNode \/ EndOfProcess
  BY <1>2, <1>7 DEF WalkLeft, Visit, ListRow, WalkRight, Walking, Trade, FreeLeft,
     FreeRight, FreeNode, EndOfProcess, Freeing
<1>8. CASE UNCHANGED vars
  BY <1>8 DEF RecInv, vars
<1> QED BY <1>1, <1>3, <1>4, <1>5, <1>6, <1>7, <1>8 DEF Next

LEMMA RecInit == Init => RecInv
<1> SUFFICES ASSUME Init PROVE RecInv
  OBVIOUS
<1>1. files.by = "init" => files.log = <<>>
  BY StoreAssumption DEF Init
<1> QED BY <1>1 DEF Init, RecInv
-----------------------------------------------------------------------------
\* What a save writes says what is in the tree, unless a quantity is negative.
LEMMA SavedSays ==
  ASSUME IndInv, pc = "saving", calls = <<>>
  PROVE  StockSays(seen) = IF \A i \in DOMAIN TableOf(node) : TableOf(node)[i] >= 0
                           THEN TableOf(node) ELSE Refused
<1> DEFINE t == TableOf(node)
           n == Len(seen)
<1>1. /\ Tree(node, root) /\ \A a \in Addresses : node[a].id \in 1 .. MaxInt
      /\ seen \in Seq(Lines) /\ Ascending(seen)
      /\ \A k \in DOMAIN seen : \E a \in Addresses : seen[k] = Written(a)
      /\ \A a \in Addresses : \E k \in DOMAIN seen : seen[k] = Written(a)
  BY DEF IndInv, TreeInv, Typed, WalkInv, Visited
<1>2. \A a \in Addresses :
        LET line == Written(a)
        IN  /\ line.is = "record" /\ line # Blank /\ line.id = node[a].id
            /\ Scan(line.id) = node[a].id /\ node[a].id > 0
            /\ Scan(line.n) = node[a].left_stock /\ Matches(node[a], line)
  <2> SUFFICES ASSUME NEW a \in Addresses, NEW line, line = Written(a)
      PROVE /\ line.is = "record" /\ line # Blank /\ line.id = node[a].id
            /\ Scan(line.id) = node[a].id /\ node[a].id > 0
            /\ Scan(line.n) = node[a].left_stock /\ Matches(node[a], line)
    OBVIOUS
  <2>1. /\ line.is = "record" /\ line.id = node[a].id /\ line.n = node[a].left_stock
    BY DEF Written, Record
  <2>2. line # Blank
    BY <2>1 DEF Blank
  <2>3. node[a].id \in Ints /\ node[a].left_stock \in Ints /\ node[a].id > 0
    <3>1. node[a] \in Items(Addresses)
      BY <1>1 DEF Tree, Addresses
    <3>2. node[a].id > 0
      BY <1>1, MaxIntAssumption
    <3> QED BY <3>1, <3>2 DEF Items
  <2>4. Scan(line.id) = node[a].id /\ Scan(line.n) = node[a].left_stock
    BY <2>1, <2>3, ScanTyped DEF Ints
  <2> QED BY <2>1, <2>2, <2>3, <2>4 DEF Matches
<1>3. DOMAIN seen = 1 .. n /\ n \in Nat
  BY <1>1
<1>4. Recorded(seen, n) = DOMAIN seen
  BY <1>1, <1>2, <1>3 DEF Recorded
<1>5. t = [i \in Ids(node) |-> t[i]] /\ t # Refused
      /\ \A a \in Addresses : node[a].id \in Ids(node) /\ t[node[a].id] = node[a].left_stock
  BY <1>1, TableMeans DEF Addresses
<1>6. \A j, k \in DOMAIN seen : Scan(seen[j].id) = Scan(seen[k].id) => j = k
  <2> SUFFICES ASSUME NEW j \in DOMAIN seen, NEW k \in DOMAIN seen,
                      Scan(seen[j].id) = Scan(seen[k].id)
               PROVE  j = k
    OBVIOUS
  <2>1. seen[j].id = seen[k].id /\ seen[j].id \in Int /\ seen[k].id \in Int
    BY <1>1, <1>2
  <2>2. ~(j < k) /\ ~(k < j)
    BY <1>1, <2>1 DEF Ascending
  <2>3. j \in Nat /\ k \in Nat
    BY <1>3
  <2> QED BY <2>2, <2>3
<1> HIDE DEF t
<1>7. CASE \A i \in DOMAIN t : t[i] >= 0
  <2>1. \A a \in Addresses : node[a].left_stock >= 0
    BY <1>5, <1>7
  <2>2. ASSUME NEW k \in DOMAIN seen
        PROVE  /\ seen[k].is = "record" /\ Scan(seen[k].id) > 0 /\ Scan(seen[k].n) >= 0
               /\ \E a \in DOMAIN node : Matches(node[a], seen[k])
    BY <1>1, <1>2, <2>1 DEF Addresses
  <2>3. ASSUME NEW a \in DOMAIN node
        PROVE  \E k \in DOMAIN seen : Matches(node[a], seen[k])
    BY <1>1, <1>2 DEF Addresses
  <2>4. Says(seen, n, node)
    BY <1>4, <1>6, <2>2, <2>3 DEF Says
  <2> QED BY <1>1, <1>7, <2>4, SaysTable DEF t
<1>8. CASE ~ \A i \in DOMAIN t : t[i] >= 0
  <2>1. PICK i \in Ids(node) : ~(t[i] >= 0)
    BY <1>5, <1>8
  <2>2. PICK a \in Addresses : i = node[a].id
    BY DEF Ids, Addresses
  <2>3. PICK k \in DOMAIN seen : seen[k] = Written(a)
    BY <1>1, <2>2
  <2>4. seen[k] # Blank /\ ~(Scan(seen[k].n) >= 0)
    BY <1>2, <1>5, <2>1, <2>2, <2>3
  <2>5. StockSays(seen) = Refused
    BY <1>1, <2>4, NotSaid
  <2> QED BY <1>8, <2>5 DEF t
<1> QED BY <1>7, <1>8 DEF t

\* The table of the abstract specification.
TableNow ==
  IF pc \in {"counting", "serving", "listing", "saving"} THEN TableOf(node) ELSE NoTable

LEMMA TableNowIs ==
  TableNow = IF pc \in {"counting", "serving", "listing", "saving"}
             THEN [i \in Stocks |-> Quantity(i)] ELSE NoTable
  BY TableIsOf DEF TableNow

\* A step of StockTable, with the mapping spelled out.
TableStep == [Table!Next]_(Table!vars)

LEMMA TableSteps ==
  /\ TableNow' = TableNow /\ FilesSay' = FilesSay => TableStep
  /\ TableNow = NoTable /\ FilesSay # Refused /\ TableNow' = FilesSay
       /\ FilesSay' = FilesSay => TableStep
  /\ TableNow # NoTable /\ TableNow' = NoTable /\ FilesSay' = FilesSay => TableStep
  /\ \A i \in DOMAIN TableNow, n \in Ints :
       TableNow # NoTable /\ TableNow' = [TableNow EXCEPT ![i] = n]
         /\ FilesSay' = FilesSay => TableStep
  /\ TableNow # NoTable /\ TableNow' \in {TableNow, NoTable}
       /\ FilesSay' = (IF \A i \in DOMAIN TableNow : TableNow[i] >= 0
                       THEN TableNow ELSE Refused) => TableStep
<1> DEFINE T == IF pc \in {"counting", "serving", "listing", "saving"}
                THEN [i \in Stocks |-> Quantity(i)] ELSE NoTable
<1>1. TableNow = T
  BY TableNowIs
<1>2. TableNow' = T'
  BY DEF TableNow, TableOf, Ids, Stocks, Quantity, Addresses
<1>3. TableNow' = TableNow /\ FilesSay' = FilesSay => TableStep
  BY <1>1, <1>2 DEF Table!vars, TableStep
<1>4. TableNow = NoTable /\ FilesSay # Refused /\ TableNow' = FilesSay
        /\ FilesSay' = FilesSay => Table!Start
  BY <1>1, <1>2 DEF Table!Start
<1>5. TableNow # NoTable /\ TableNow' = NoTable /\ FilesSay' = FilesSay => Table!End
  BY <1>1, <1>2 DEF Table!End
<1>6. ASSUME NEW i \in DOMAIN TableNow, NEW n \in Ints, TableNow # NoTable,
             TableNow' = [TableNow EXCEPT ![i] = n], FilesSay' = FilesSay
      PROVE  Table!Trade
  BY <1>1, <1>2, <1>6 DEF Table!Trade
<1>7. TableNow # NoTable /\ TableNow' \in {TableNow, NoTable}
        /\ FilesSay' = (IF \A i \in DOMAIN TableNow : TableNow[i] >= 0
                        THEN TableNow ELSE Refused) => Table!Save
  BY <1>1, <1>2 DEF Table!Save
<1>8. Table!Start \/ Table!Trade \/ Table!Save \/ Table!End => TableStep
  BY DEF Table!Next, TableStep
<1> QED BY <1>3, <1>4, <1>5, <1>6, <1>7, <1>8

\* The end of recovery.
LEMMA RecoverySays ==
  ASSUME IndInv, RecInv, EndOfLog \/ (EndOfStock /\ boot)
  PROVE  FilesSay = TableOf(node)
<1>1. files.log \in Seq(Lines) /\ Len(files.log) \in Nat
  BY DEF IndInv, Typed
<1>2. CASE EndOfLog
  <2>1. Len(files.log) - Len(input) = Len(files.log)
    BY <1>1, <1>2 DEF EndOfLog
  <2>2. After(StockSays(files.stock), files.log)[Len(files.log)] = TableOf(node)
    BY <1>2, <2>1 DEF EndOfLog, RecInv
  <2> QED BY <1>1, <2>2, AfterMeans DEF FilesSay
<1>3. CASE EndOfStock /\ boot
  <2>1. StockSays(files.stock) = TableOf(node)
    BY <1>3, EndOfStockReads
  <2>2. files.log = <<>> /\ Len(files.log) = 0
    BY <1>3 DEF EndOfStock, RecInv
  <2>3. LogSays(StockSays(files.stock), files.log) = StockSays(files.stock)
    BY <1>1, <2>2, AfterMeans
  <2> QED BY <2>1, <2>3 DEF FilesSay
<1> QED BY <1>2, <1>3

LEMMA StepRefines == IndInv /\ RecInv /\ [Next]_vars => TableStep
<1> SUFFICES ASSUME IndInv, RecInv, [Next]_vars PROVE TableStep
  OBVIOUS
<1> DEFINE Open == {"counting", "serving", "listing", "saving"}
<1>1. pc # "destroying" =>
        /\ Tree(node, root) /\ TableOf(node) # NoTable /\ TableOf(node) # Refused
  BY TableMeans DEF IndInv, TreeInv
<1>2. ASSUME pc' \in Open <=> pc \in Open, pc \in Open => node' = node, files' = files
      PROVE  TableStep
  BY <1>2, TableSteps DEF TableNow, FilesSay
<1>3. ASSUME pc \in Open, pc' \notin Open, files' = files
      PROVE  TableStep
  <2>1. TableNow # NoTable /\ TableNow' = NoTable /\ FilesSay' = FilesSay
    BY <1>1, <1>3 DEF TableNow, FilesSay
  <2> QED BY <2>1, TableSteps
<1>4. CASE Start \/ LoadLine \/ ReplayLine \/ ReadFails \/ (EndOfStock /\ ~boot)
  <2>1. pc \notin Open /\ pc' \notin Open /\ files' = files
    BY <1>4 DEF Start, LoadLine, ReplayLine, ReadFails, EndOfStock, Destroy, CallOnRoot
  <2> QED BY <1>2, <2>1
<1>5. CASE EndOfLog \/ (EndOfStock /\ boot)
  <2>1. /\ pc \in {"loading", "replaying"} /\ pc' \in Open
        /\ files' = files /\ node' = node
    BY <1>5 DEF EndOfLog, EndOfStock, CallOnRoot, tree
  <2>2. FilesSay = TableOf(node)
    BY <1>5, RecoverySays
  <2>3. /\ TableNow = NoTable /\ FilesSay # Refused /\ TableNow' = FilesSay
        /\ FilesSay' = FilesSay
    BY <1>1, <2>1, <2>2 DEF TableNow, FilesSay
  <2> QED BY <2>3, TableSteps
<1>6. CASE WalkLeft \/ Visit \/ ListRow \/ WalkRight \/ EndOfCount \/ Show \/ AnswerShow
           \/ (Shutdown /\ pc' = "saving")
  <2>1. pc \in Open /\ pc' \in Open /\ files' = files /\ node' = node
    BY <1>6 DEF WalkLeft, Visit, ListRow, WalkRight, Walking, EndOfCount, Show,
       AnswerShow, Shutdown, CallOnRoot, tree
  <2> QED BY <1>2, <2>1
<1>7. CASE SaveFails \/ (Shutdown /\ pc' # "saving")
  <2>1. pc \in Open /\ pc' \notin Open /\ files' = files
    BY <1>7 DEF SaveFails, Shutdown, Destroy, CallOnRoot
  <2> QED BY <1>3, <2>1
<1>8. CASE FreeLeft \/ FreeRight \/ FreeNode \/ EndOfProcess
  <2>1. pc \notin Open /\ pc' \notin Open /\ files' = files
    BY <1>8 DEF FreeLeft, FreeRight, FreeNode, Freeing, EndOfProcess
  <2> QED BY <1>2, <2>1
<1>9. ASSUME NEW t \in Trades, Trade(t) PROVE TableStep
  <2>1. t.id \in Int /\ t.delta \in -MaxInt .. MaxInt
    BY StoreAssumption DEF Ints
  <2>2. /\ pc = "serving" /\ pc' = pc /\ files' = files
        /\ DeltaStatus(t.id, t.delta) = "OK" /\ ApplyDelta(t.id, t.delta)
    BY <1>9 DEF Trade
  <2> DEFINE q == Wrap(TableOf(node)[t.id] + t.delta)
  <2>3. /\ t.id \in DOMAIN TableOf(node) /\ q \in Ints
        /\ TableOf(node') = [TableOf(node) EXCEPT ![t.id] = q]
    BY <1>1, <2>1, <2>2, DeltaTable
  <2> HIDE DEF q
  <2>4. /\ TableNow = TableOf(node) /\ TableNow' = TableOf(node')
        /\ FilesSay' = FilesSay /\ TableNow # NoTable
    BY <1>1, <2>2 DEF TableNow, FilesSay
  <2>5. TableStep
    BY <2>3, <2>4, TableSteps
  <2> QED BY <2>5
<1>10. CASE Publish
  <2>1. /\ pc = "saving" /\ calls = <<>> /\ node' = node
        /\ files' = [by |-> "save", stock |-> seen, log |-> <<>>]
        /\ pc' \in {"destroying", "counting"}
    BY <1>10 DEF Publish, Destroy, CallOnRoot, tree
  <2>2. FilesSay' = StockSays(seen)
    <3>1. LogSays(StockSays(seen), <<>>) = StockSays(seen)
      <4>1. Len(<<>>) = 0
        OBVIOUS
      <4> QED BY <4>1, AfterMeans
    <3> QED BY <2>1, <3>1 DEF FilesSay
  <2>3. StockSays(seen) = IF \A i \in DOMAIN TableOf(node) : TableOf(node)[i] >= 0
                          THEN TableOf(node) ELSE Refused
    BY <2>1, SavedSays
  <2>4. TableNow = TableOf(node) /\ TableNow # NoTable /\ TableNow' \in {TableNow, NoTable}
    BY <1>1, <2>1 DEF TableNow
  <2>5. TableStep
    BY <2>2, <2>3, <2>4, TableSteps
  <2> QED BY <2>5
<1>11. CASE UNCHANGED vars
  BY <1>2, <1>11 DEF vars
<1>12. CASE Shutdown
  BY <1>6, <1>7, <1>12
<1>13. CASE EndOfStock
  BY <1>4, <1>5, <1>13
<1> HIDE DEF Open
<1>14. (Start \/ LoadLine \/ EndOfStock \/ ReplayLine \/ EndOfLog \/ ReadFails) => TableStep
  BY <1>4, <1>5, <1>13
<1>15. (WalkLeft \/ Visit \/ ListRow \/ WalkRight \/ EndOfCount \/ Show \/ AnswerShow)
         => TableStep
  BY <1>6
<1>16. (SaveFails \/ Publish \/ Shutdown) => TableStep
  BY <1>7, <1>10, <1>12
<1>17. (FreeLeft \/ FreeRight \/ FreeNode \/ EndOfProcess) => TableStep
  BY <1>8
<1>18. (\E t \in Trades : Trade(t)) => TableStep
  BY <1>9
<1> QED
  BY <1>11, <1>14, <1>15, <1>16, <1>17, <1>18 DEF Next

\* Recovery brings back all that the stock file and the log say, or main serves
\* nothing; a trade changes one quantity; and a save, walked out of the tree,
\* leaves what is in memory for the next recovery, or a file that none accepts
\* (recover_stock_store, materialize_store_generation).
THEOREM StoreIsTable == Spec => ImplementsTable
<1>1. Init => Table!Init
  BY DEF Init, Table!Init
<1>2. Spec => [](IndInv /\ RecInv)
  BY InitKeeps, NextKeeps, RecInit, RecKeeps, PTL DEF Spec
<1> QED BY <1>1, <1>2, StepRefines, PTL
    DEF Spec, ImplementsTable, Table!Spec, TableStep
==============================================================================
