--------------------------- MODULE HolyccProofs ---------------------------
(***************************************************************************)
(* Proofs about the resolver, the linter and the driver around them, for   *)
(* every parser, command line, manifest and bound on the depth of a tree:  *)
(* what is in scope where the walk meets a node is told by the places of   *)
(* the tree, and a run reports the names that nothing declares, the calls  *)
(* that do not fit their function, the bit operations on two names of the  *)
(* wrong types and the names that share a frame, and no other.             *)
(*                                                                         *)
(* The walk is a recursive function over the nodes of a tree.  It is shown *)
(* equal to a function told without recursion (Result): what it makes of a *)
(* node follows from what it makes of the parts, and a tree ends, so that  *)
(* what holds of a node when it holds of its parts holds of every node.    *)
(***************************************************************************)
EXTENDS HolyccNames, SequenceTheorems, WellFoundedInduction, TLAPS

-----------------------------------------------------------------------------
(* Induction, with sets for predicates.                                     *)
NatLess == {ss \in Nat \X Nat : ss[1] < ss[2]}

LEMMA NatLessWellFounded == IsWellFoundedOn(NatLess, Nat)
BY NatLessThanWellFounded DEF OpToRel, NatLess

\* A set of naturals has a least element.
LEMMA Least ==
  ASSUME NEW T, T \subseteq Nat, T # {}
  PROVE  \E x \in T : \A y \in T : x <= y
<1>1. PICK x \in T : \A y \in T : <<y, x>> \notin NatLess
  BY NatLessWellFounded, WFMin
<1>2. \A y \in T : ~(y < x)
  BY <1>1 DEF NatLess
<1> QED
  BY <1>2

\* A set of naturals that has 0, and with each number the next, has them all.
LEMMA Induction ==
  ASSUME NEW T, 0 \in T, \A n \in Nat : n \in T => n + 1 \in T
  PROVE  Nat \subseteq T
<1>1. SUFFICES ASSUME Nat \ T # {} PROVE FALSE
  OBVIOUS
<1>2. PICK x \in Nat \ T : \A y \in Nat \ T : x <= y
  BY <1>1, Least
<1>3. x # 0 /\ x - 1 \in Nat /\ x - 1 \in T /\ (x - 1) + 1 = x
  BY <1>2
<1> QED
  BY <1>3

-----------------------------------------------------------------------------
(***************************************************************************)
(* Trees.                                                                  *)
(***************************************************************************)
\* The level under l, and what g holds of the tree of root: each level, with the
\* tree down to it.
Deeper(l) ==
  LET bottom == UNION {{Part(t, n) : n \in DOMAIN Parts(t.node)} : t \in l.bottom}
  IN  Levels(l.tree \cup bottom, bottom)

IsGrown(g, root) ==
  g = [d \in 0 .. MaxDepth |-> IF d = 0 THEN Levels({Root(root)}, {Root(root)}) ELSE Deeper(g[d - 1])]

LEMMA GrownExists == ASSUME NEW root PROVE \E g : IsGrown(g, root)
<1> USE DepthAssumption
<1> DEFINE Top == Levels({Root(root)}, {Root(root)})
           Solves(g, N) == g = [d \in 0 .. N |-> IF d = 0 THEN Top ELSE Deeper(g[d - 1])]
           Solved == {N \in Nat : \E g : Solves(g, N)}
<1>1. 0 \in Solved
  <2> HIDE DEF Top
  <2>1. Solves([d \in 0 .. 0 |-> Top], 0)
    OBVIOUS
  <2> QED
    BY <2>1
<1>2. ASSUME NEW N \in Nat, N \in Solved PROVE N + 1 \in Solved
  <2> HIDE DEF Top
  <2>1. PICK g : Solves(g, N)
    BY <1>2
  <2> DEFINE h == [d \in 0 .. N + 1 |-> IF d = 0 THEN Top ELSE Deeper(g[d - 1])]
  <2>2. ASSUME NEW d \in 0 .. N + 1, d # 0 PROVE h[d - 1] = g[d - 1]
    <3>1. d - 1 \in 0 .. N /\ d - 1 \in 0 .. N + 1
      BY <2>2
    <3>2. g[d - 1] = IF d - 1 = 0 THEN Top ELSE Deeper(g[(d - 1) - 1])
      BY <2>1, <3>1
    <3> QED
      BY <3>1, <3>2
  <2>3. Solves(h, N + 1)
    BY <2>2
  <2> HIDE DEF h
  <2> QED
    BY <2>3
<1>3. MaxDepth \in Solved
  <2> HIDE DEF Solved
  <2> QED
    BY <1>1, <1>2, Induction
<1> QED
  BY <1>3 DEF IsGrown

LEMMA TreeIsGrown ==
  ASSUME NEW root
  PROVE  \E g : IsGrown(g, root) /\ Tree(root) = g[MaxDepth].tree
<1> DEFINE G == CHOOSE g : IsGrown(g, root)
<1>1. IsGrown(G, root)
  BY GrownExists
<1>2. Tree(root) = G[MaxDepth].tree
  BY DEF Tree, IsGrown, Deeper
<1> QED
  BY <1>1, <1>2

\* The levels of a tree, each with all above it.
LEMMA TreeLevels ==
  ASSUME NEW root
  PROVE  \E g : /\ Tree(root) = g[MaxDepth]
                /\ g[0] = {Root(root)}
                /\ \A d \in 0 .. MaxDepth : g[d] \subseteq Tree(root)
                /\ \A d \in 0 .. MaxDepth - 1 : g[d] \subseteq g[d + 1]
                /\ \A d \in 0 .. MaxDepth - 1 : \A x \in g[d + 1] :
                     x \in g[d] \/ \E t \in g[d] : \E n \in DOMAIN Parts(t.node) : x = Part(t, n)
<1> USE DepthAssumption
<1>0. PICK h : IsGrown(h, root) /\ Tree(root) = h[MaxDepth].tree
  BY TreeIsGrown
<1> DEFINE g == [d \in 0 .. MaxDepth |-> h[d].tree]
           Under(T) == UNION {{Part(t, n) : n \in DOMAIN Parts(t.node)} : t \in T}
           Inside == {d \in Nat : d <= MaxDepth => h[d].bottom \subseteq h[d].tree}
<1>1. Tree(root) = g[MaxDepth]
  BY <1>0
<1>2. h[0].tree = {Root(root)} /\ h[0].bottom = {Root(root)}
  BY <1>0 DEF IsGrown, Levels
<1>3. ASSUME NEW d \in 0 .. MaxDepth - 1
      PROVE  /\ h[d + 1].tree = h[d].tree \cup Under(h[d].bottom)
             /\ h[d + 1].bottom = Under(h[d].bottom)
  <2>1. d + 1 \in 0 .. MaxDepth /\ d + 1 # 0 /\ (d + 1) - 1 = d
    OBVIOUS
  <2>2. h[d + 1] = Deeper(h[d])
    BY <1>0, <2>1 DEF IsGrown
  <2>3. Deeper(h[d]) = Levels(h[d].tree \cup Under(h[d].bottom), Under(h[d].bottom))
    BY DEF Deeper
  <2> HIDE DEF Under
  <2> QED
    BY <2>2, <2>3 DEF Levels
<1>4. ASSUME NEW d \in 0 .. MaxDepth PROVE h[d].bottom \subseteq h[d].tree
  <2>1. 0 \in Inside
    BY <1>2
  <2>2. ASSUME NEW n \in Nat, n \in Inside PROVE n + 1 \in Inside
    <3>1. SUFFICES ASSUME n + 1 <= MaxDepth PROVE h[n + 1].bottom \subseteq h[n + 1].tree
      OBVIOUS
    <3>2. n \in 0 .. MaxDepth - 1
      BY <3>1
    <3> HIDE DEF Under
    <3> QED
      BY <1>3, <3>2
  <2>3. Nat \subseteq Inside
    <3> HIDE DEF Inside
    <3> QED
      BY <2>1, <2>2, Induction
  <2> QED
    BY <2>3
<1>5. ASSUME NEW d \in 0 .. MaxDepth - 1
      PROVE  /\ g[d] \subseteq g[d + 1]
             /\ \A x \in g[d + 1] :
                  x \in g[d] \/ \E t \in g[d] : \E n \in DOMAIN Parts(t.node) : x = Part(t, n)
  <2>1. /\ d \in 0 .. MaxDepth /\ d + 1 \in 0 .. MaxDepth
        /\ g[d] = h[d].tree /\ g[d + 1] = h[d + 1].tree
    OBVIOUS
  <2>2. g[d + 1] = g[d] \cup Under(h[d].bottom) /\ h[d].bottom \subseteq g[d]
    BY <1>3, <1>4, <2>1
  <2> HIDE DEF g
  <2> QED
    BY <2>2
<1> HIDE DEF g
<1> DEFINE Kept == {n \in Nat : n <= MaxDepth => g[MaxDepth - n] \subseteq Tree(root)}
<1>6. \A d \in 0 .. MaxDepth : g[d] \subseteq Tree(root)
  <2>1. 0 \in Kept
    BY <1>1
  <2>2. ASSUME NEW n \in Nat, n \in Kept PROVE n + 1 \in Kept
    <3>1. SUFFICES ASSUME n + 1 <= MaxDepth PROVE g[MaxDepth - (n + 1)] \subseteq Tree(root)
      OBVIOUS
    <3>2. MaxDepth - (n + 1) \in 0 .. MaxDepth - 1 /\ (MaxDepth - (n + 1)) + 1 = MaxDepth - n
      BY <3>1
    <3>3. g[MaxDepth - (n + 1)] \subseteq g[MaxDepth - n]
      BY <1>5, <3>2
    <3> QED
      BY <2>2, <3>1, <3>3
  <2>3. Nat \subseteq Kept
    <3> HIDE DEF Kept
    <3> QED
      BY <2>1, <2>2, Induction
  <2>4. ASSUME NEW d \in 0 .. MaxDepth PROVE g[d] \subseteq Tree(root)
    <3>1. MaxDepth - d \in Nat /\ MaxDepth - d <= MaxDepth /\ MaxDepth - (MaxDepth - d) = d
      OBVIOUS
    <3> QED
      BY <2>3, <3>1
  <2> QED
    BY <2>4
<1>7. g[0] = {Root(root)}
  BY <1>2 DEF g
<1> QED
  BY <1>1, <1>5, <1>6, <1>7

\* What holds of the root, and with each node of its parts, holds of the tree.
LEMMA TreeDown ==
  ASSUME NEW root, NEW P, Root(root) \in P,
         \A t \in Tree(root) : t \in P => \A n \in DOMAIN Parts(t.node) : Part(t, n) \in P
  PROVE  Tree(root) \subseteq P
<1> USE DepthAssumption
<1>1. PICK g : /\ Tree(root) = g[MaxDepth]
               /\ g[0] = {Root(root)}
               /\ \A d \in 0 .. MaxDepth : g[d] \subseteq Tree(root)
               /\ \A d \in 0 .. MaxDepth - 1 : \A x \in g[d + 1] :
                    x \in g[d] \/ \E t \in g[d] : \E n \in DOMAIN Parts(t.node) : x = Part(t, n)
  BY TreeLevels
<1> DEFINE Good == {d \in Nat : d <= MaxDepth => g[d] \subseteq P}
<1>2. 0 \in Good
  BY <1>1
<1>3. ASSUME NEW d \in Nat, d \in Good PROVE d + 1 \in Good
  <2>1. SUFFICES ASSUME d + 1 <= MaxDepth, NEW x \in g[d + 1] PROVE x \in P
    OBVIOUS
  <2>2. d \in 0 .. MaxDepth /\ d \in 0 .. MaxDepth - 1
    BY <2>1
  <2> QED
    BY <1>1, <1>3, <2>1, <2>2
<1>4. MaxDepth \in Good
  <2> HIDE DEF Good
  <2> QED
    BY <1>2, <1>3, Induction
<1> QED
  BY <1>1, <1>4

LEMMA RootInTree == ASSUME NEW root PROVE Root(root) \in Tree(root)
<1> USE DepthAssumption
<1>1. PICK g : /\ Tree(root) = g[MaxDepth]
               /\ g[0] = {Root(root)}
               /\ \A d \in 0 .. MaxDepth - 1 : g[d] \subseteq g[d + 1]
  BY TreeLevels
<1> DEFINE Good == {d \in Nat : d <= MaxDepth => Root(root) \in g[d]}
<1>2. 0 \in Good
  BY <1>1
<1>3. ASSUME NEW d \in Nat, d \in Good PROVE d + 1 \in Good
  <2>1. SUFFICES ASSUME d + 1 <= MaxDepth PROVE Root(root) \in g[d + 1]
    OBVIOUS
  <2>2. d \in 0 .. MaxDepth - 1 /\ d <= MaxDepth
    BY <2>1
  <2> QED
    BY <1>1, <1>3, <2>2
<1>4. MaxDepth \in Good
  <2> HIDE DEF Good
  <2> QED
    BY <1>2, <1>3, Induction
<1> QED
  BY <1>1, <1>4

-----------------------------------------------------------------------------
(* A tree that ends.                                                        *)

\* A node's place is as long as the node is deep.
LEMMA TreePlaces ==
  ASSUME NEW root, IsTree(root), NEW t \in Tree(root)
  PROVE  /\ t.place \in Seq(Nat)
         /\ Len(t.place) <= MaxDepth
         /\ t = [place |-> t.place, node |-> t.node]
<1> USE DepthAssumption
<1>1. PICK g : /\ Tree(root) = g[MaxDepth]
               /\ g[0] = {Root(root)}
               /\ \A d \in 0 .. MaxDepth : g[d] \subseteq Tree(root)
               /\ \A d \in 0 .. MaxDepth - 1 : \A x \in g[d + 1] :
                    x \in g[d] \/ \E s \in g[d] : \E n \in DOMAIN Parts(s.node) : x = Part(s, n)
  BY TreeLevels
<1> DEFINE Is(x, d) == /\ x.place \in Seq(Nat)
                       /\ Len(x.place) <= d
                       /\ x = [place |-> x.place, node |-> x.node]
           Good == {d \in Nat : d <= MaxDepth => \A x \in g[d] : Is(x, d)}
<1>2. 0 \in Good
  <2>1. Is(Root(root), 0)
    BY EmptySeq DEF Root
  <2> QED
    BY <1>1, <2>1
<1>3. ASSUME NEW d \in Nat, d \in Good PROVE d + 1 \in Good
  <2>1. SUFFICES ASSUME d + 1 <= MaxDepth, NEW x \in g[d + 1] PROVE Is(x, d + 1)
    OBVIOUS
  <2>2. d \in 0 .. MaxDepth /\ d \in 0 .. MaxDepth - 1 /\ \A s \in g[d] : Is(s, d)
    BY <1>3, <2>1
  <2>3. CASE x \in g[d]
    BY <2>2, <2>3
  <2>4. ASSUME NEW s \in g[d], NEW n \in DOMAIN Parts(s.node), x = Part(s, n) PROVE Is(x, d + 1)
    <3>1. n \in Nat
      <4>1. s \in Tree(root)
        BY <1>1, <2>2
      <4> QED
        BY <2>4, <4>1 DEF IsTree
    <3>2. s.place \in Seq(Nat) /\ Len(s.place) <= d
      BY <2>2
    <3>3. x.place = Append(s.place, n) /\ x = [place |-> x.place, node |-> x.node]
      BY <2>4 DEF Part
    <3> QED
      BY <3>1, <3>2, <3>3
  <2> QED
    BY <1>1, <2>1, <2>2, <2>3, <2>4
<1>4. MaxDepth \in Good
  <2> HIDE DEF Good
  <2> QED
    BY <1>2, <1>3, Induction
<1> QED
  BY <1>1, <1>4

\* The parts of a node are in the tree, at the places behind its own.
LEMMA TreeParts ==
  ASSUME NEW root, IsTree(root), NEW t \in Tree(root), NEW n \in DOMAIN Parts(t.node)
  PROVE  /\ Part(t, n) \in Tree(root)
         /\ n \in Nat
         /\ Part(t, n).place = Append(t.place, n)
         /\ Len(Part(t, n).place) = Len(t.place) + 1
         /\ Part(t, n).place[Len(t.place) + 1] = n
         /\ \A i \in 1 .. Len(t.place) : Part(t, n).place[i] = t.place[i]
<1>1. Part(t, n) \in Tree(root) /\ n \in Nat
  BY DEF IsTree
<1>2. t.place \in Seq(Nat)
  BY TreePlaces
<1>3. Part(t, n).place = Append(t.place, n)
  BY DEF Part
<1> QED
  BY <1>1, <1>2, <1>3, AppendProperties

\* What holds of a node when it holds of its parts holds of the tree.
LEMMA TreeUp ==
  ASSUME NEW root, IsTree(root), NEW P,
         \A t \in Tree(root) : (\A n \in DOMAIN Parts(t.node) : Part(t, n) \in P) => t \in P
  PROVE  Tree(root) \subseteq P
<1> USE DepthAssumption
<1> DEFINE Good == {h \in Nat : \A t \in Tree(root) : MaxDepth - Len(t.place) <= h - 1 => t \in P}
<1>1. 0 \in Good
  <2>1. ASSUME NEW t \in Tree(root) PROVE ~(MaxDepth - Len(t.place) <= 0 - 1)
    <3>1. t.place \in Seq(Nat) /\ Len(t.place) <= MaxDepth
      BY TreePlaces
    <3> QED
      BY <3>1
  <2> QED
    BY <2>1
<1>2. ASSUME NEW h \in Nat, h \in Good PROVE h + 1 \in Good
  <2>1. SUFFICES ASSUME NEW t \in Tree(root), MaxDepth - Len(t.place) <= h PROVE t \in P
    OBVIOUS
  <2>2. ASSUME NEW n \in DOMAIN Parts(t.node) PROVE Part(t, n) \in P
    <3>1. Part(t, n) \in Tree(root) /\ Len(Part(t, n).place) = Len(t.place) + 1
      BY TreeParts
    <3>2. Len(t.place) \in Nat
      BY TreePlaces
    <3> QED
      BY <1>2, <2>1, <3>1, <3>2
  <2> QED
    BY <2>2
<1>3. Nat \subseteq Good
  <2> HIDE DEF Good
  <2> QED
    BY <1>1, <1>2, Induction
<1>4. ASSUME NEW t \in Tree(root) PROVE t \in P
  <2>1. Len(t.place) \in Nat /\ Len(t.place) <= MaxDepth
    BY TreePlaces
  <2>2. PICK h \in Nat : h = (MaxDepth - Len(t.place)) + 1
    <3>1. \A l \in Nat : l <= MaxDepth => (MaxDepth - l) + 1 \in Nat
      OBVIOUS
    <3> QED
      BY <2>1, <3>1
  <2>3. h \in Good
    BY <1>3
  <2>4. MaxDepth - Len(t.place) <= h - 1
    BY <2>1, <2>2
  <2> QED
    BY <2>3, <2>4
<1> QED
  BY <1>4

\* Every node but the root is a part.
LEMMA TreeNodes ==
  ASSUME NEW root, NEW t \in Tree(root)
  PROVE  t = Root(root) \/ \E s \in Tree(root) : \E n \in DOMAIN Parts(s.node) : t = Part(s, n)
<1> DEFINE P == {x \in Tree(root) \cup UNION {{Part(s, n) : n \in DOMAIN Parts(s.node)} : s \in Tree(root)} :
                   x = Root(root) \/ \E s \in Tree(root) : \E n \in DOMAIN Parts(s.node) : x = Part(s, n)}
<1>1. Root(root) \in P
  BY RootInTree
<1>2. \A s \in Tree(root) : s \in P => \A n \in DOMAIN Parts(s.node) : Part(s, n) \in P
  OBVIOUS
<1>3. Tree(root) \subseteq P
  <2> HIDE DEF P
  <2> QED
    BY <1>1, <1>2, TreeDown
<1> QED
  BY <1>3

\* No two nodes have one place.
LEMMA TreeSingle ==
  ASSUME NEW root, IsTree(root), NEW s \in Tree(root), NEW t \in Tree(root), s.place = t.place
  PROVE  s = t
<1> DEFINE P == {x \in Tree(root) : \A y \in Tree(root) : y.place = x.place => y = x}
<1>1. Root(root) \in P
  <2>1. ASSUME NEW y \in Tree(root), y.place = Root(root).place PROVE y = Root(root)
    <3>1. Len(y.place) = 0
      BY <2>1 DEF Root
    <3>2. ASSUME NEW r \in Tree(root), NEW n \in DOMAIN Parts(r.node), y = Part(r, n) PROVE FALSE
      BY <3>1, <3>2, TreeParts, TreePlaces
    <3> QED
      BY <3>2, TreeNodes
  <2> QED
    BY <2>1, RootInTree
<1>2. ASSUME NEW x \in Tree(root), x \in P, NEW n \in DOMAIN Parts(x.node) PROVE Part(x, n) \in P
  <2>1. SUFFICES ASSUME NEW y \in Tree(root), y.place = Part(x, n).place PROVE y = Part(x, n)
    BY TreeParts
  <2>2. y # Root(root)
    <3>1. Len(y.place) = Len(x.place) + 1 /\ Len(x.place) \in Nat
      BY <2>1, TreeParts, TreePlaces
    <3>2. Root(root).place = <<>> /\ Len(<<>>) = 0
      BY DEF Root
    <3> QED
      BY <3>1, <3>2
  <2>3. PICK r \in Tree(root) : \E m \in DOMAIN Parts(r.node) : y = Part(r, m)
    BY <2>2, TreeNodes
  <2>3a. PICK m \in DOMAIN Parts(r.node) : y = Part(r, m)
    BY <2>3
  <2>4. r.place \in Seq(Nat) /\ x.place \in Seq(Nat) /\ m \in Nat /\ n \in Nat
    BY <2>3a, TreePlaces, TreeParts
  <2>5. Append(r.place, m) = Append(x.place, n)
    <3>1. Part(r, m).place = Append(r.place, m) /\ Part(x, n).place = Append(x.place, n)
      BY DEF Part
    <3> QED
      BY <2>1, <2>3a, <3>1
  <2>6. m = n /\ r.place = x.place
    <3>1. Len(r.place) = Len(x.place)
      BY <2>4, <2>5, AppendProperties
    <3>2. m = n
      BY <2>4, <2>5, <3>1, AppendProperties
    <3>3. ASSUME NEW i \in 1 .. Len(r.place) PROVE r.place[i] = x.place[i]
      <4>1. Append(r.place, m)[i] = r.place[i]
        BY <2>4, AppendProperties
      <4>2. Append(x.place, n)[i] = x.place[i]
        BY <2>4, <3>1, AppendProperties
      <4> QED
        BY <2>5, <4>1, <4>2
    <3> QED
      BY <2>4, <3>1, <3>2, <3>3, SeqEqual
  <2> QED
    BY <1>2, <2>3a, <2>6
<1>3. Tree(root) \subseteq P
  <2> HIDE DEF P
  <2> QED
    BY <1>1, <1>2, TreeDown
<1> QED
  BY <1>3

-----------------------------------------------------------------------------
(* What stands where.                                                       *)

LEMMA WithinSelf == ASSUME NEW t PROVE Within(t, t)
<1> SUFFICES Len(t.place) <= Len(t.place)
  BY DEF Within
<1> QED
  OBVIOUS

LEMMA WithinTrans ==
  ASSUME NEW root, IsTree(root), NEW r \in Tree(root), NEW s \in Tree(root), NEW t \in Tree(root),
         Within(r, s), Within(s, t)
  PROVE  Within(r, t)
<1>1. Len(r.place) \in Nat /\ Len(s.place) \in Nat /\ Len(t.place) \in Nat
  BY TreePlaces
<1> QED
  BY <1>1 DEF Within

\* Of two nodes around one, the deeper is inside the other.
LEMMA WithinBoth ==
  ASSUME NEW root, IsTree(root), NEW r \in Tree(root), NEW s \in Tree(root), NEW t \in Tree(root),
         Within(r, s), Within(r, t), Len(s.place) <= Len(t.place)
  PROVE  Within(t, s)
<1>1. Len(r.place) \in Nat /\ Len(s.place) \in Nat /\ Len(t.place) \in Nat
  BY TreePlaces
<1> QED
  BY <1>1 DEF Within

LEMMA WithinSame ==
  ASSUME NEW root, IsTree(root), NEW s \in Tree(root), NEW t \in Tree(root),
         Within(s, t), Len(s.place) <= Len(t.place)
  PROVE  s = t
<1>1. s.place \in Seq(Nat) /\ t.place \in Seq(Nat)
  BY TreePlaces
<1>2. s.place = t.place
  <2>1. Len(s.place) = Len(t.place) /\ \A i \in 1 .. Len(s.place) : s.place[i] = t.place[i]
    BY <1>1 DEF Within
  <2> QED
    BY <1>1, <2>1, SeqEqual
<1> QED
  BY <1>2, TreeSingle

\* The nodes inside part n of a node are those behind it that go on with n.
LEMMA WithinPart ==
  ASSUME NEW root, IsTree(root), NEW s \in Tree(root), NEW t \in Tree(root),
         NEW n \in DOMAIN Parts(t.node)
  PROVE  /\ Within(s, Part(t, n)) =>
              /\ Within(s, t)
              /\ Len(t.place) + 1 <= Len(s.place)
              /\ s.place[Len(t.place) + 1] = n
         /\ Within(s, t) /\ Len(t.place) + 1 <= Len(s.place) /\ s.place[Len(t.place) + 1] = n =>
              Within(s, Part(t, n))
<1>1. s.place \in Seq(Nat) /\ t.place \in Seq(Nat)
  BY TreePlaces
<1>2. /\ n \in Nat
      /\ Len(Part(t, n).place) = Len(t.place) + 1
      /\ Part(t, n).place[Len(t.place) + 1] = n
      /\ \A i \in 1 .. Len(t.place) : Part(t, n).place[i] = t.place[i]
  BY TreeParts
<1>3. Len(s.place) \in Nat /\ Len(t.place) \in Nat
  BY <1>1
<1>4. ASSUME Within(s, Part(t, n))
      PROVE  /\ Within(s, t)
             /\ Len(t.place) + 1 <= Len(s.place)
             /\ s.place[Len(t.place) + 1] = n
  BY <1>2, <1>3, <1>4 DEF Within
<1>5. ASSUME Within(s, t), Len(t.place) + 1 <= Len(s.place), s.place[Len(t.place) + 1] = n
      PROVE  Within(s, Part(t, n))
  <2>1. ASSUME NEW i \in 1 .. Len(t.place) + 1 PROVE Part(t, n).place[i] = s.place[i]
    <3>1. CASE i = Len(t.place) + 1
      BY <1>2, <1>5, <3>1
    <3>2. CASE i # Len(t.place) + 1
      <4>1. i \in 1 .. Len(t.place)
        BY <1>3, <3>2
      <4> QED
        BY <1>2, <1>5, <4>1 DEF Within
    <3> QED
      BY <3>1, <3>2
  <2> QED
    BY <1>2, <1>5, <2>1 DEF Within
<1> QED
  BY <1>4, <1>5

\* What stands inside a node stands inside one of its parts.
LEMMA WithinCases ==
  ASSUME NEW root, IsTree(root), NEW s \in Tree(root), NEW t \in Tree(root), Within(s, t), s # t
  PROVE  \E n \in DOMAIN Parts(t.node) : Within(s, Part(t, n))
<1> DEFINE P == {x \in Tree(root) :
                   Within(x, t) /\ x # t => \E n \in DOMAIN Parts(t.node) : Within(x, Part(t, n))}
<1>1. Root(root) \in P
  <2>1. ASSUME Within(Root(root), t) PROVE Root(root) = t
    <3>1. Len(Root(root).place) = 0 /\ Len(t.place) \in Nat
      BY EmptySeq, TreePlaces DEF Root
    <3>2. Len(Root(root).place) <= Len(t.place)
      BY <3>1
    <3> QED
      BY <2>1, <3>2, RootInTree, WithinSame
  <2> QED
    BY <2>1, RootInTree
<1>2. ASSUME NEW x \in Tree(root), x \in P, NEW m \in DOMAIN Parts(x.node) PROVE Part(x, m) \in P
  <2>0. Part(x, m) \in Tree(root)
    BY TreeParts
  <2>1. SUFFICES ASSUME Within(Part(x, m), t), Part(x, m) # t
                 PROVE  \E n \in DOMAIN Parts(t.node) : Within(Part(x, m), Part(t, n))
    BY <2>0
  <2>2. Within(Part(x, m), x)
    BY <2>0, WithinSelf, WithinPart
  <2>3. /\ Len(x.place) \in Nat /\ Len(t.place) \in Nat
        /\ Len(Part(x, m).place) = Len(x.place) + 1
    BY TreePlaces, TreeParts
  <2>4. ~(Len(Part(x, m).place) <= Len(t.place))
    BY <2>0, <2>1, WithinSame
  <2>5. Within(x, t)
    BY <2>0, <2>1, <2>2, <2>3, <2>4, WithinBoth
  <2>6. CASE x = t
    BY <2>6, WithinSelf
  <2>7. CASE x # t
    <3>1. PICK n \in DOMAIN Parts(t.node) : Within(x, Part(t, n))
      BY <1>2, <2>5, <2>7
    <3>2. Part(t, n) \in Tree(root)
      BY TreeParts
    <3> QED
      BY <2>0, <2>2, <3>1, <3>2, WithinTrans
  <2> QED
    BY <2>6, <2>7
<1>3. Tree(root) \subseteq P
  <2> HIDE DEF P
  <2> QED
    BY <1>1, <1>2, TreeDown
<1> QED
  BY <1>3

\* The parts of a node follow one another.
LEMMA BeforeParts ==
  ASSUME NEW root, IsTree(root), NEW t \in Tree(root),
         NEW m \in DOMAIN Parts(t.node), NEW n \in DOMAIN Parts(t.node),
         NEW r \in Tree(root), NEW s \in Tree(root), Within(r, Part(t, m)), Within(s, Part(t, n))
  PROVE  /\ m < n => Before(r, s)
         /\ Before(r, s) => m <= n
<1> DEFINE L == Len(t.place)
<1>1. m \in Nat /\ n \in Nat /\ L \in Nat
  BY TreeParts, TreePlaces
<1>2. /\ Within(r, t) /\ L + 1 <= Len(r.place) /\ r.place[L + 1] = m
      /\ Within(s, t) /\ L + 1 <= Len(s.place) /\ s.place[L + 1] = n
  BY WithinPart
<1>3. /\ DOMAIN r.place = 1 .. Len(r.place) /\ Len(r.place) \in Nat
      /\ DOMAIN s.place = 1 .. Len(s.place) /\ Len(s.place) \in Nat
      /\ \A i \in 1 .. Len(s.place) : s.place[i] \in Nat
  BY TreePlaces
<1>4. \A i \in 1 .. L : r.place[i] = s.place[i]
  BY <1>2 DEF Within
<1> HIDE DEF L
<1>5. ASSUME m < n PROVE Before(r, s)
  <2>1. L + 1 \in DOMAIN r.place \cap DOMAIN s.place
    BY <1>1, <1>2, <1>3
  <2>2. \A i \in 1 .. (L + 1) - 1 : r.place[i] = s.place[i]
    BY <1>1, <1>4
  <2> QED
    BY <1>2, <1>5, <2>1, <2>2 DEF Before
<1>6. ASSUME Before(r, s) PROVE m <= n
  <2>1. PICK j \in DOMAIN r.place \cap DOMAIN s.place :
          r.place[j] < s.place[j] /\ \A i \in 1 .. j - 1 : r.place[i] = s.place[i]
    BY <1>6 DEF Before
  <2>2. ~(j \in 1 .. L)
    BY <1>3, <1>4, <2>1
  <2>3. j = L + 1 \/ L + 1 \in 1 .. j - 1
    BY <1>1, <1>3, <2>1, <2>2
  <2> QED
    BY <1>1, <1>2, <2>1, <2>3
<1> QED
  BY <1>5, <1>6

\* A node comes neither before nor after what is inside it.
LEMMA BeforeInside ==
  ASSUME NEW root, IsTree(root), NEW s \in Tree(root), NEW t \in Tree(root), Within(s, t)
  PROVE  ~Before(t, s) /\ ~Before(s, t)
<1>1. /\ DOMAIN t.place = 1 .. Len(t.place) /\ Len(t.place) \in Nat
      /\ \A i \in 1 .. Len(t.place) : t.place[i] \in Nat
  BY TreePlaces
<1>2. \A i \in DOMAIN t.place : t.place[i] = s.place[i] /\ s.place[i] \in Nat
  BY <1>1 DEF Within
<1> QED
  BY <1>2 DEF Before

-----------------------------------------------------------------------------
(***************************************************************************)
(* The walk.  What it makes of a node, said without it.                    *)
(***************************************************************************)
\* The declaration d, inside t, is in no scope that t opens.
Exposed(d, t, tree) ==
  Within(d, t) /\ \A s \in ScopesIn(tree) : Within(s, t) => ~Within(d, s)

\* What t declares into the scope around it, and what its first n parts do.
Left(t, tree)      == {d \in Decls(tree) : Exposed(d, t, tree)}
LeftTo(n, t, tree) == UNION {Left(Part(t, m), tree) : m \in 1 .. n}

\* The declarations inside t that reach u.
Reaching(u, t, tree) == {d \in Decls(tree) : Within(d, t) /\ Reaches(d, u, tree)}

\* How u is met by a walk over t that starts in a scope.
Met(u, t, scope, tree) == [at |-> u, scope |-> scope \cup Reaching(u, t, tree)]

Result(t, scope, tree) ==
  Walked(scope \cup Left(t, tree), {Met(u, t, scope, tree) : u \in {x \in tree : Within(x, t)}})

\* A declaration in part m of a node reaches a node in part n when it is exposed
\* there and m comes first; and one in part n, or not at all.
LEMMA ReachesLater ==
  ASSUME NEW root, IsTree(root), NEW t \in Tree(root),
         NEW m \in DOMAIN Parts(t.node), NEW n \in DOMAIN Parts(t.node), m # n,
         NEW d \in Decls(Tree(root)), NEW u \in Tree(root),
         Within(d, Part(t, m)), Within(u, Part(t, n))
  PROVE  Reaches(d, u, Tree(root)) <=> m < n /\ Exposed(d, Part(t, m), Tree(root))
<1> DEFINE T == Tree(root)
<1>0. d \in T /\ u \in T /\ Part(t, m) \in T /\ Part(t, n) \in T
  BY TreeParts DEF Decls
<1>0a. m \in Nat /\ n \in Nat
  BY TreeParts
<1>1. ASSUME Reaches(d, u, T) PROVE m < n /\ Exposed(d, Part(t, m), T)
  <2>1. m < n
    <3>1. m <= n
      BY <1>0, <1>1, BeforeParts DEF Reaches
    <3> QED
      BY <1>0a, <3>1
  <2>2. ASSUME NEW s \in ScopesIn(T), Within(s, Part(t, m)), Within(d, s) PROVE FALSE
    <3>1. s \in T
      BY DEF ScopesIn
    <3>2. Within(u, s)
      BY <1>1, <2>2 DEF Reaches
    <3>3. Within(u, Part(t, m))
      BY <1>0, <2>2, <3>1, <3>2, WithinTrans
    <3>4. u.place[Len(t.place) + 1] = m /\ u.place[Len(t.place) + 1] = n
      BY <1>0, <3>3, WithinPart
    <3> QED
      BY <3>4
  <2> QED
    BY <2>1, <2>2 DEF Exposed
<1>2. ASSUME m < n, Exposed(d, Part(t, m), T) PROVE Reaches(d, u, T)
  <2>1. Before(d, u)
    BY <1>0, <1>2, BeforeParts
  <2>2. ASSUME NEW s \in ScopesIn(T), Within(d, s) PROVE Within(u, s)
    <3>1. s \in T
      BY DEF ScopesIn
    <3>2. ~Within(s, Part(t, m))
      BY <1>2, <2>2 DEF Exposed
    <3>3. Len(s.place) \in Nat /\ Len(t.place) \in Nat /\ Len(Part(t, m).place) = Len(t.place) + 1
      BY <3>1, TreePlaces, TreeParts
    <3>4. Len(s.place) <= Len(t.place)
      <4>1. ~(Len(Part(t, m).place) <= Len(s.place))
        BY <1>0, <2>2, <3>1, <3>2, WithinBoth
      <4> QED
        BY <3>3, <4>1
    <3>5. Within(d, t) /\ Within(u, t)
      BY <1>0, WithinPart
    <3>6. Within(t, s)
      BY <1>0, <2>2, <3>1, <3>4, <3>5, WithinBoth
    <3> QED
      BY <1>0, <3>1, <3>5, <3>6, WithinTrans
  <2> QED
    BY <2>1, <2>2 DEF Reaches
<1> QED
  BY <1>1, <1>2

\* What reaches a node in part n is what reaches it there and what the parts
\* before it leave.
LEMMA ReachingInPart ==
  ASSUME NEW root, IsTree(root), NEW t \in Tree(root), NEW n \in DOMAIN Parts(t.node),
         NEW u \in Tree(root), Within(u, Part(t, n))
  PROVE  Reaching(u, t, Tree(root))
           = LeftTo(n - 1, t, Tree(root)) \cup Reaching(u, Part(t, n), Tree(root))
<1> DEFINE T == Tree(root)
<1>0. /\ Part(t, n) \in T /\ Len(Parts(t.node)) \in Nat /\ n \in 1 .. Len(Parts(t.node))
      /\ DOMAIN Parts(t.node) = 1 .. Len(Parts(t.node))
  BY TreeParts DEF IsTree
<1>1. ASSUME NEW d \in Reaching(u, t, T)
      PROVE  d \in LeftTo(n - 1, t, T) \/ d \in Reaching(u, Part(t, n), T)
  <2>1. d \in Decls(T) /\ d \in T /\ Within(d, t) /\ Reaches(d, u, T)
    BY DEF Reaching, Decls
  <2>2. d # t
    <3>1. Within(u, t)
      BY <1>0, WithinPart
    <3> QED
      BY <2>1, <3>1, BeforeInside DEF Reaches
  <2>3. PICK m \in DOMAIN Parts(t.node) : Within(d, Part(t, m))
    BY <2>1, <2>2, WithinCases
  <2>4. CASE m = n
    BY <2>1, <2>3, <2>4 DEF Reaching
  <2>5. CASE m # n
    <3>1. m < n /\ Exposed(d, Part(t, m), T)
      BY <2>1, <2>3, <2>5, ReachesLater
    <3>2. m \in 1 .. n - 1
      BY <1>0, <3>1
    <3>3. d \in Left(Part(t, m), T)
      BY <2>1, <3>1 DEF Left
    <3> QED
      BY <3>2, <3>3 DEF LeftTo
  <2> QED
    BY <2>4, <2>5
<1>2. ASSUME NEW m \in 1 .. n - 1, NEW d \in Left(Part(t, m), T) PROVE d \in Reaching(u, t, T)
  <2>1. m \in DOMAIN Parts(t.node) /\ m < n /\ m # n
    BY <1>0
  <2>2. d \in Decls(T) /\ d \in T /\ Exposed(d, Part(t, m), T) /\ Within(d, Part(t, m))
    BY DEF Left, Exposed, Decls
  <2>3. Reaches(d, u, T)
    BY <2>1, <2>2, ReachesLater
  <2>4. Within(d, t)
    BY <2>1, <2>2, WithinPart
  <2> QED
    BY <2>2, <2>3, <2>4 DEF Reaching
<1>3. ASSUME NEW d \in Reaching(u, Part(t, n), T) PROVE d \in Reaching(u, t, T)
  <2>1. d \in T /\ Within(d, Part(t, n))
    BY DEF Reaching, Decls
  <2>2. Within(d, t)
    BY <2>1, WithinPart
  <2> QED
    BY <2>2 DEF Reaching
<1> HIDE DEF T
<1>4. ASSUME NEW d \in LeftTo(n - 1, t, T) PROVE d \in Reaching(u, t, T)
  BY <1>2 DEF LeftTo
<1>5. \A d : d \in Reaching(u, t, T) <=> d \in LeftTo(n - 1, t, T) \/ d \in Reaching(u, Part(t, n), T)
  BY <1>1, <1>3, <1>4
<1>6. Reaching(u, t, T) = LeftTo(n - 1, t, T) \cup Reaching(u, Part(t, n), T)
  BY <1>5
<1> QED
  BY <1>6 DEF T

\* So a walk over part n, in the scope that the parts before it leave, meets a
\* node as the walk over all of them does.
LEMMA MetInPart ==
  ASSUME NEW root, IsTree(root), NEW t \in Tree(root), NEW n \in DOMAIN Parts(t.node),
         NEW u \in Tree(root), Within(u, Part(t, n)), NEW scope
  PROVE  Met(u, Part(t, n), scope \cup LeftTo(n - 1, t, Tree(root)), Tree(root))
           = Met(u, t, scope, Tree(root))
<1>1. Reaching(u, t, Tree(root))
        = LeftTo(n - 1, t, Tree(root)) \cup Reaching(u, Part(t, n), Tree(root))
  BY ReachingInPart
<1>2. (scope \cup LeftTo(n - 1, t, Tree(root))) \cup Reaching(u, Part(t, n), Tree(root))
        = scope \cup Reaching(u, t, Tree(root))
  BY <1>1
<1> QED
  BY <1>2 DEF Met

\* w holds what the loop over the parts has, after each.
Loops(w, t, scope, visit) ==
  /\ DOMAIN w = 0 .. Len(Parts(t.node))
  /\ w = [n \in DOMAIN w |-> w[n]]
  /\ w[0] = Walked(scope, {})
  /\ \A n \in 1 .. Len(Parts(t.node)) :
       w[n] = Walked(visit[Part(t, n)][w[n - 1].scope].scope,
                     w[n - 1].visits \cup visit[Part(t, n)][w[n - 1].scope].visits)

LEMMA LoopIs ==
  ASSUME NEW t, NEW scope, NEW visit, NEW w, Len(Parts(t.node)) \in Nat, Loops(w, t, scope, visit)
  PROVE  WalkParts(t, scope, visit) = w[Len(Parts(t.node))]
<1> DEFINE N == Len(Parts(t.node))
           Step(n, x) == Walked(visit[Part(t, n)][x.scope].scope,
                                x.visits \cup visit[Part(t, n)][x.scope].visits)
           Is(g) == g = [n \in 0 .. N |-> IF n = 0 THEN Walked(scope, {}) ELSE Step(n, g[n - 1])]
           H == CHOOSE g : Is(g)
<1>0. /\ DOMAIN w = 0 .. N
      /\ w = [n \in DOMAIN w |-> w[n]]
      /\ w[0] = Walked(scope, {})
      /\ \A n \in 1 .. N : w[n] = Step(n, w[n - 1])
  BY DEF Loops
<1>1. WalkParts(t, scope, visit) = H[N]
  BY DEF WalkParts
<1>2. Is(w)
  <2>1. ASSUME NEW n \in 0 .. N
        PROVE  w[n] = IF n = 0 THEN Walked(scope, {}) ELSE Step(n, w[n - 1])
    <3>1. n = 0 \/ n \in 1 .. N
      OBVIOUS
    <3> HIDE DEF Step
    <3> QED
      BY <1>0, <3>1
  <2> HIDE DEF Step
  <2> QED
    BY <2>1, <1>0
<1>3. Is(H)
  <2> HIDE DEF Is
  <2> QED
    BY <1>2
<1> DEFINE Same == {n \in Nat : n <= N => H[n] = w[n]}
<1>4. 0 \in Same
  <2> HIDE DEF H, Step
  <2>1. 0 \in 0 .. N
    OBVIOUS
  <2>2. H[0] = Walked(scope, {})
    BY <1>3, <2>1
  <2> QED
    BY <1>0, <2>2
<1>5. ASSUME NEW n \in Nat, n \in Same PROVE n + 1 \in Same
  <2> HIDE DEF H
  <2>1. SUFFICES ASSUME n + 1 <= N PROVE H[n + 1] = w[n + 1]
    OBVIOUS
  <2>2. n + 1 \in 0 .. N /\ n + 1 \in 1 .. N /\ n + 1 # 0 /\ (n + 1) - 1 = n
    BY <2>1
  <2>3. H[n + 1] = Step(n + 1, H[n])
    <3> HIDE DEF Step
    <3> QED
      BY <1>3, <2>2
  <2>4. w[n + 1] = Step(n + 1, w[n])
    <3> HIDE DEF Step
    <3> QED
      BY <1>0, <2>2
  <2>5. H[n] = w[n]
    BY <1>5, <2>1
  <2> HIDE DEF Step
  <2> QED
    BY <2>3, <2>4, <2>5
<1>6. N \in Same
  <2> HIDE DEF Same
  <2> QED
    BY <1>4, <1>5, Induction
<1> QED
  BY <1>1, <1>6

\* The walk over each part of t gives its result.
Finds(visit, t, tree) ==
  \A n \in DOMAIN Parts(t.node) : \A scope \in SUBSET tree :
    visit[Part(t, n)][scope] = Result(Part(t, n), scope, tree)

\* What the loop over the parts gives, when the walk over each gives its result.
LEMMA PartsResult ==
  ASSUME NEW root, IsTree(root), NEW t \in Tree(root), NEW scope \in SUBSET Tree(root),
         NEW visit,
         Finds(visit, t, Tree(root))
  PROVE  WalkParts(t, scope, visit)
           = Walked(scope \cup LeftTo(Len(Parts(t.node)), t, Tree(root)),
                    {Met(u, t, scope, Tree(root)) : u \in {x \in Tree(root) : Within(x, t) /\ x # t}})
<1> DEFINE T == Tree(root)
           N == Len(Parts(t.node))
           M(u) == Met(u, t, scope, T)
           In(n) == {u \in T : Within(u, Part(t, n))}
           To(n) == {u \in T : \E m \in 1 .. n : Within(u, Part(t, m))}
           W(n) == Walked(scope \cup LeftTo(n, t, T), {M(u) : u \in To(n)})
           w == [n \in 0 .. N |-> W(n)]
<1>1. N \in Nat /\ DOMAIN Parts(t.node) = 1 .. N
  BY DEF IsTree
<1>2. W(0) = Walked(scope, {})
  <2>1. LeftTo(0, t, T) = {} /\ To(0) = {}
    BY DEF LeftTo
  <2>2. scope \cup LeftTo(0, t, T) = scope
    BY <2>1
  <2> HIDE DEF To, M
  <2>3. {M(u) : u \in To(0)} = {}
    BY <2>1
  <2> QED
    BY <2>2, <2>3
<1>3. ASSUME NEW n \in 1 .. N
      PROVE  W(n) = Walked(visit[Part(t, n)][W(n - 1).scope].scope,
                           W(n - 1).visits \cup visit[Part(t, n)][W(n - 1).scope].visits)
  <2> DEFINE b == scope \cup LeftTo(n - 1, t, T)
             Before1 == {M(u) : u \in To(n - 1)}
             Here == {M(u) : u \in In(n)}
  <2>1. W(n - 1).scope = b /\ W(n - 1).visits = Before1
    BY DEF Walked
  <2>2. b \in SUBSET T
    <3>1. LeftTo(n - 1, t, T) \subseteq T
      BY DEF LeftTo, Left, Decls
    <3> QED
      BY <3>1
  <2>3. visit[Part(t, n)][b] = Result(Part(t, n), b, T)
    <3> HIDE DEF b
    <3> QED
      BY <1>1, <2>2 DEF Finds
  <2>4. visit[Part(t, n)][b].scope = b \cup Left(Part(t, n), T)
    BY <2>3 DEF Result, Walked
  <2>5. visit[Part(t, n)][b].visits = Here
    <3>1. n \in DOMAIN Parts(t.node)
      BY <1>1
    <3>2. \A u \in In(n) : Met(u, Part(t, n), b, T) = M(u)
      BY <3>1, MetInPart
    <3>3. visit[Part(t, n)][b].visits = {Met(u, Part(t, n), b, T) : u \in In(n)}
      BY <2>3 DEF Result, Walked
    <3> HIDE DEF b, T, M, In
    <3>4. {Met(u, Part(t, n), b, T) : u \in In(n)} = {M(u) : u \in In(n)}
      BY <3>2
    <3> QED
      BY <3>3, <3>4
  <2>6. 1 .. n = (1 .. n - 1) \cup {n}
    BY <1>1
  <2>7. LeftTo(n, t, T) = LeftTo(n - 1, t, T) \cup Left(Part(t, n), T)
    BY <2>6 DEF LeftTo
  <2>8. To(n) = To(n - 1) \cup In(n)
    BY <2>6
  <2>9. {M(u) : u \in To(n)} = Before1 \cup Here
    <3> HIDE DEF To, In, M
    <3> QED
      BY <2>8
  <2> HIDE DEF To, In, M, T
  <2>10. b \cup Left(Part(t, n), T) = scope \cup LeftTo(n, t, T)
    BY <2>7
  <2> HIDE DEF b, Before1, Here
  <2>11. W(n) = Walked(b \cup Left(Part(t, n), T), Before1 \cup Here)
    BY <2>9, <2>10
  <2> HIDE DEF W
  <2> QED
    BY <2>1, <2>4, <2>5, <2>11
<1>4. WalkParts(t, scope, visit) = W(N)
  <2> HIDE DEF W
  <2>1. /\ DOMAIN w = 0 .. N
        /\ w = [n \in DOMAIN w |-> w[n]]
        /\ w[0] = Walked(scope, {})
    BY <1>1, <1>2
  <2>2. ASSUME NEW n \in 1 .. N
        PROVE  w[n] = Walked(visit[Part(t, n)][w[n - 1].scope].scope,
                             w[n - 1].visits \cup visit[Part(t, n)][w[n - 1].scope].visits)
    <3>1. w[n] = W(n) /\ w[n - 1] = W(n - 1)
      BY <1>1
    <3> QED
      BY <1>3, <3>1
  <2>3. w[N] = W(N)
    BY <1>1
  <2> HIDE DEF w
  <2>4. Loops(w, t, scope, visit)
    BY <2>1, <2>2 DEF Loops
  <2>5. WalkParts(t, scope, visit) = w[N]
    BY <1>1, <2>4, LoopIs
  <2> QED
    BY <2>3, <2>5
<1>5. To(N) = {x \in T : Within(x, t) /\ x # t}
  <2>1. ASSUME NEW u \in T PROVE (\E m \in 1 .. N : Within(u, Part(t, m))) <=> Within(u, t) /\ u # t
    <3>1. ASSUME NEW m \in 1 .. N, Within(u, Part(t, m)) PROVE Within(u, t) /\ u # t
      <4>1. Within(u, t) /\ Len(t.place) \in Nat /\ Len(t.place) + 1 <= Len(u.place)
        BY <1>1, <3>1, WithinPart, TreePlaces
      <4> QED
        BY <4>1
    <3>2. Within(u, t) /\ u # t => \E m \in 1 .. N : Within(u, Part(t, m))
      BY <1>1, WithinCases
    <3> QED
      BY <3>1, <3>2
  <2> HIDE DEF T
  <2> QED
    BY <2>1
<1> QED
  BY <1>4, <1>5

-----------------------------------------------------------------------------
(* One node.                                                                *)

\* Inside a node that opens no scope, a declaration is exposed when it is the
\* node or exposed in a part.
LEMMA ExposedInPart ==
  ASSUME NEW root, IsTree(root), NEW t \in Tree(root), ~OpensScope(t.node),
         NEW n \in DOMAIN Parts(t.node), NEW d \in Decls(Tree(root)), Within(d, Part(t, n))
  PROVE  Exposed(d, t, Tree(root)) <=> Exposed(d, Part(t, n), Tree(root))
<1> DEFINE T == Tree(root)
<1>0. d \in T /\ Part(t, n) \in T
  BY TreeParts DEF Decls
<1>1. Within(d, t)
  BY <1>0, WithinPart
<1>2. ASSUME Exposed(d, t, T), NEW s \in ScopesIn(T), Within(s, Part(t, n)) PROVE ~Within(d, s)
  <2>1. s \in T
    BY DEF ScopesIn
  <2>2. Within(s, t)
    BY <1>2, <2>1, WithinPart
  <2> QED
    BY <1>2, <2>2 DEF Exposed
<1>3. ASSUME Exposed(d, Part(t, n), T), NEW s \in ScopesIn(T), Within(s, t) PROVE ~Within(d, s)
  <2>1. s \in T /\ s # t
    BY DEF ScopesIn, OpensScope
  <2>2. PICK m \in DOMAIN Parts(t.node) : Within(s, Part(t, m))
    BY <1>3, <2>1, WithinCases
  <2>3. ASSUME Within(d, s) PROVE m = n
    <3>1. Part(t, m) \in T
      BY TreeParts
    <3>2. Within(d, Part(t, m))
      BY <1>0, <2>1, <2>2, <2>3, <3>1, WithinTrans
    <3>3. d.place[Len(t.place) + 1] = m /\ d.place[Len(t.place) + 1] = n
      BY <1>0, <3>2, WithinPart
    <3> QED
      BY <3>3
  <2> QED
    BY <1>3, <2>2, <2>3 DEF Exposed
<1> QED
  BY <1>1, <1>2, <1>3 DEF Exposed

\* Such a node leaves what its parts leave, and itself if it is a declaration.
LEMMA LeftByParts ==
  ASSUME NEW root, IsTree(root), NEW t \in Tree(root), ~OpensScope(t.node)
  PROVE  \A d : d \in Left(t, Tree(root))
                  <=> \/ d \in LeftTo(Len(Parts(t.node)), t, Tree(root))
                      \/ Declares(t.node) /\ d = t
<1> DEFINE T == Tree(root)
           N == Len(Parts(t.node))
<1>1. N \in Nat /\ DOMAIN Parts(t.node) = 1 .. N
  BY DEF IsTree
<1>2. ASSUME NEW d, d \in Left(t, T)
      PROVE  d \in LeftTo(N, t, T) \/ (Declares(t.node) /\ d = t)
  <2>1. d \in Decls(T) /\ d \in T /\ Declares(d.node) /\ Within(d, t) /\ Exposed(d, t, T)
    BY <1>2 DEF Left, Decls, Exposed
  <2>2. CASE d = t
    BY <2>1, <2>2
  <2>3. CASE d # t
    <3>1. PICK n \in DOMAIN Parts(t.node) : Within(d, Part(t, n))
      BY <2>1, <2>3, WithinCases
    <3>2. Exposed(d, Part(t, n), T)
      BY <2>1, <3>1, ExposedInPart
    <3>3. d \in Left(Part(t, n), T)
      BY <2>1, <3>2 DEF Left
    <3>4. n \in 1 .. N
      BY <1>1
    <3> QED
      BY <3>3, <3>4 DEF LeftTo
  <2> QED
    BY <2>2, <2>3
<1>3. ASSUME NEW d, d \in LeftTo(N, t, T) PROVE d \in Left(t, T)
  <2>1. PICK n \in 1 .. N : d \in Left(Part(t, n), T)
    BY <1>3 DEF LeftTo
  <2>2. d \in Decls(T) /\ Exposed(d, Part(t, n), T)
    BY <2>1 DEF Left
  <2>3. Within(d, Part(t, n)) /\ n \in DOMAIN Parts(t.node)
    BY <1>1, <2>2 DEF Exposed
  <2>4. Exposed(d, t, T)
    BY <2>2, <2>3, ExposedInPart
  <2> QED
    BY <2>2, <2>4 DEF Left
<1>4. ASSUME Declares(t.node) PROVE t \in Left(t, T)
  <2>1. t \in Decls(T)
    BY <1>4 DEF Decls
  <2>2. ASSUME NEW s \in ScopesIn(T), Within(s, t), Within(t, s) PROVE FALSE
    <3>1. s \in T /\ s # t
      BY DEF ScopesIn, OpensScope
    <3>2. Len(s.place) <= Len(t.place)
      BY <2>2 DEF Within
    <3>3. s = t
      BY <2>2, <3>1, <3>2, WithinSame
    <3> QED
      BY <3>1, <3>3
  <2>3. Exposed(t, t, T)
    BY <2>2, WithinSelf DEF Exposed
  <2> QED
    BY <2>1, <2>3 DEF Left
<1> QED
  BY <1>2, <1>3, <1>4

\* A node that opens a scope leaves nothing.
LEMMA ScopeLeavesNothing ==
  ASSUME NEW root, NEW t \in Tree(root), OpensScope(t.node)
  PROVE  Left(t, Tree(root)) = {}
<1>1. t \in ScopesIn(Tree(root)) /\ Within(t, t)
  BY WithinSelf DEF ScopesIn, OpensScope
<1>2. ASSUME NEW d \in Decls(Tree(root)) PROVE ~Exposed(d, t, Tree(root))
  BY <1>1 DEF Exposed
<1> QED
  BY <1>2 DEF Left

\* A node is met in the scope that the walk over it starts in.
LEMMA MetAtFirst ==
  ASSUME NEW root, IsTree(root), NEW t \in Tree(root), NEW scope
  PROVE  Met(t, t, scope, Tree(root)) = [at |-> t, scope |-> scope]
<1>1. ASSUME NEW d \in Decls(Tree(root)), Within(d, t) PROVE ~Reaches(d, t, Tree(root))
  <2>1. d \in Tree(root)
    BY DEF Decls
  <2> QED
    BY <1>1, <2>1, BeforeInside DEF Reaches
<1>2. Reaching(t, t, Tree(root)) = {}
  BY <1>1 DEF Reaching
<1>3. scope \cup Reaching(t, t, Tree(root)) = scope
  BY <1>2
<1> QED
  BY <1>3 DEF Met

\* The walk over a node gives its result, when that over its parts does.
LEMMA NodeResult ==
  ASSUME NEW root, IsTree(root), NEW t \in Tree(root), NEW scope \in SUBSET Tree(root),
         NEW visit,
         Finds(visit, t, Tree(root))
  PROVE  WalkNode(t, scope, visit) = Result(t, scope, Tree(root))
<1> DEFINE T == Tree(root)
           N == Len(Parts(t.node))
           M(u) == Met(u, t, scope, T)
           inner == WalkParts(t, scope, visit)
           visits == {[at |-> t, scope |-> scope]} \cup inner.visits
           all == {M(u) : u \in {x \in T : Within(x, t)}}
<1>1. /\ inner.scope = scope \cup LeftTo(N, t, T)
      /\ inner.visits = {M(u) : u \in {x \in T : Within(x, t) /\ x # t}}
  <2>1. inner = Walked(scope \cup LeftTo(N, t, T), {M(u) : u \in {x \in T : Within(x, t) /\ x # t}})
    BY PartsResult
  <2> HIDE DEF inner, T, M, N
  <2> QED
    BY <2>1 DEF Walked
<1>2. visits = all
  <2>1. M(t) = [at |-> t, scope |-> scope] /\ Within(t, t) /\ t \in T
    BY MetAtFirst, WithinSelf
  <2> HIDE DEF inner, T, M, N
  <2> QED
    BY <1>1, <2>1
<1>3. CASE Declares(t.node)
  <2>1. ~OpensScope(t.node)
    BY <1>3 DEF OpensScope, Declares
  <2>2. \A d : d \in Left(t, T) <=> d \in LeftTo(N, t, T) \/ d = t
    BY <1>3, <2>1, LeftByParts
  <2>3. WalkNode(t, scope, visit) = Walked(inner.scope \cup {t}, visits)
    BY <1>3, <2>1 DEF WalkNode
  <2> HIDE DEF inner, T, M, N, visits, all
  <2>4. inner.scope \cup {t} = scope \cup Left(t, T)
    BY <1>1, <2>2
  <2> QED
    BY <1>2, <2>3, <2>4 DEF Result, all, M, T
<1>4. CASE OpensScope(t.node)
  <2>1. ~Declares(t.node)
    BY <1>4 DEF OpensScope, Declares
  <2>2. WalkNode(t, scope, visit) = Walked(scope, visits)
    BY <1>4, <2>1 DEF WalkNode
  <2>3. scope \cup Left(t, T) = scope
    BY <1>4, ScopeLeavesNothing
  <2> HIDE DEF inner, T, M, N, visits, all
  <2> QED
    BY <1>2, <2>2, <2>3 DEF Result, all, M, T
<1>5. CASE ~Declares(t.node) /\ ~OpensScope(t.node)
  <2>1. WalkNode(t, scope, visit) = Walked(inner.scope, visits)
    BY <1>5 DEF WalkNode
  <2>2. \A d : d \in Left(t, T) <=> d \in LeftTo(N, t, T)
    BY <1>5, LeftByParts
  <2> HIDE DEF inner, T, M, N, visits, all
  <2>3. inner.scope = scope \cup Left(t, T)
    BY <1>1, <2>2
  <2> QED
    BY <1>2, <2>1, <2>3 DEF Result, all, M, T
<1> QED
  BY <1>3, <1>4, <1>5

-----------------------------------------------------------------------------
(* A whole tree.                                                            *)

\* visit satisfies the equations of the walk over a tree.
Walks(visit, root) ==
  visit = [t \in Tree(root) |-> [scope \in SUBSET Tree(root) |-> WalkNode(t, scope, visit)]]

\* One function does: it holds every node's result.
LEMMA ResultsWalk ==
  ASSUME NEW root, IsTree(root)
  PROVE  \E visit : Walks(visit, root)
<1> DEFINE T == Tree(root)
           R(t, b) == Result(t, b, T)
           V == [t \in T |-> [b \in SUBSET T |-> R(t, b)]]
<1>1. ASSUME NEW t \in T, NEW b \in SUBSET T PROVE WalkNode(t, b, V) = R(t, b)
  <2>1. ASSUME NEW n \in DOMAIN Parts(t.node), NEW c \in SUBSET T
        PROVE  V[Part(t, n)][c] = R(Part(t, n), c)
    <3>1. Part(t, n) \in T
      BY TreeParts
    <3> HIDE DEF R, T
    <3> QED
      BY <3>1
  <2>2. Finds(V, t, T)
    <3> HIDE DEF V
    <3> QED
      BY <2>1 DEF Finds
  <2> HIDE DEF V
  <2> QED
    BY <2>2, NodeResult
<1>2. V = [t \in T |-> [b \in SUBSET T |-> WalkNode(t, b, V)]]
  <2> DEFINE C(t, b) == WalkNode(t, b, V)
  <2>1. \A t \in T : \A b \in SUBSET T : C(t, b) = R(t, b)
    BY <1>1
  <2> HIDE DEF C, R, T
  <2>2. V = [t \in T |-> [b \in SUBSET T |-> C(t, b)]]
    BY <2>1
  <2> QED
    BY <2>2 DEF C
<1> HIDE DEF V
<1> QED
  BY <1>2 DEF Walks

\* And no function that does holds anything else.
LEMMA WalkIsResult ==
  ASSUME NEW root, IsTree(root), NEW visit, Walks(visit, root)
  PROVE  \A t \in Tree(root) : \A b \in SUBSET Tree(root) : visit[t][b] = Result(t, b, Tree(root))
<1> DEFINE P == {t \in Tree(root) : \A b \in SUBSET Tree(root) : visit[t][b] = Result(t, b, Tree(root))}
<1>1. ASSUME NEW t \in Tree(root), \A n \in DOMAIN Parts(t.node) : Part(t, n) \in P PROVE t \in P
  <2>1. Finds(visit, t, Tree(root))
    BY <1>1 DEF Finds
  <2>2. ASSUME NEW b \in SUBSET Tree(root) PROVE visit[t][b] = Result(t, b, Tree(root))
    <3>1. visit[t][b] = WalkNode(t, b, visit)
      BY DEF Walks
    <3>2. WalkNode(t, b, visit) = Result(t, b, Tree(root))
      BY <2>1, NodeResult
    <3> QED
      BY <3>1, <3>2
  <2> QED
    BY <2>2
<1>2. Tree(root) \subseteq P
  <2> HIDE DEF P
  <2> QED
    BY <1>1, TreeUp
<1> QED
  BY <1>2

\* Every node of a tree is met once, in the scope of the declarations that
\* reach it.
LEMMA VisitedIs ==
  ASSUME NEW root, IsTree(root)
  PROVE  \A v : v \in Visited(root)
                 <=> \E u \in Tree(root) :
                       v = [at    |-> u,
                            scope |-> {d \in Decls(Tree(root)) : Reaches(d, u, Tree(root))}]
<1> DEFINE T == Tree(root)
           r == Root(root)
           H == CHOOSE visit : Walks(visit, root)
           Is(u) == [at |-> u, scope |-> {d \in Decls(T) : Reaches(d, u, T)}]
<1>1. Visited(root) = H[r][{}].visits
  BY DEF Visited, Walks
<1>2. Walks(H, root)
  BY ResultsWalk
<1>3. H[r][{}] = Result(r, {}, T)
  <2>1. r \in T /\ {} \in SUBSET T
    BY RootInTree
  <2> HIDE DEF H, r
  <2> QED
    BY <1>2, <2>1, WalkIsResult
<1>4. ASSUME NEW s \in T PROVE Within(s, r)
  <2>1. Len(r.place) = 0 /\ Len(s.place) \in Nat
    BY EmptySeq, TreePlaces DEF Root
  <2> QED
    BY <2>1 DEF Within
<1>5. ASSUME NEW u \in T PROVE Met(u, r, {}, T) = Is(u)
  <2>1. \A d \in Decls(T) : Within(d, r)
    BY <1>4 DEF Decls
  <2> HIDE DEF r, T
  <2>2. Reaching(u, r, T) = {d \in Decls(T) : Reaches(d, u, T)}
    BY <2>1 DEF Reaching
  <2>3. {} \cup Reaching(u, r, T) = {d \in Decls(T) : Reaches(d, u, T)}
    BY <2>2
  <2> QED
    BY <2>3 DEF Met
<1> HIDE DEF r, T, H, Is
<1>6. Visited(root) = {Met(u, r, {}, T) : u \in {x \in T : Within(x, r)}}
  BY <1>1, <1>3 DEF Result, Walked
<1>7. \A v : v \in Visited(root) <=> \E u \in T : v = Is(u)
  BY <1>4, <1>5, <1>6
<1> QED
  BY <1>7 DEF Is, T

-----------------------------------------------------------------------------
(***************************************************************************)
(* The resolver.                                                           *)
(***************************************************************************)
\* The check of a tree finds the names that nothing in it declares for them.
LEMMA CheckTreeFinds ==
  ASSUME NEW root, IsTree(root), NEW known
  PROVE  \A x : x \in CheckTree(root, known)
                 <=> \E u \in Loose(Tree(root)) :
                       /\ u.node[3] \notin known \cup Builtins
                       /\ x = [rule |-> "unresolved-identifier", at |-> u.node[2]]
<1> DEFINE T == Tree(root)
           Scope(u) == {d \in Decls(T) : Reaches(d, u, T)}
           Is(u) == [at |-> u, scope |-> Scope(u)]
           Open(u) == u.node[1] = "id" /\ ~IsKnown(u.node[3], Scope(u), known)
<1>1. \A v : v \in Visited(root) <=> \E u \in T : v = Is(u)
  BY VisitedIs
<1>2. \A x : x \in CheckTree(root, known)
              <=> \E v \in Visited(root) :
                    /\ v.at.node[1] = "id" /\ ~IsKnown(v.at.node[3], v.scope, known)
                    /\ x = [rule |-> "unresolved-identifier", at |-> v.at.node[2]]
  BY DEF CheckTree
<1>3. \A u : Is(u).at = u /\ Is(u).scope = Scope(u)
  OBVIOUS
<1>4. ASSUME NEW u \in T
      PROVE  Open(u) <=> u \in Loose(T) /\ u.node[3] \notin known \cup Builtins
  <2>1. u.node[3] \in {NameOf(d) : d \in Scope(u)}
          <=> \E d \in Decls(T) : Reaches(d, u, T) /\ NameOf(d) = u.node[3]
    OBVIOUS
  <2> HIDE DEF T, Scope
  <2> QED
    BY <2>1 DEF Loose, Uses, IsKnown
<1>5. \A u \in Loose(T) : u \in T
  BY DEF Loose, Uses
<1> HIDE DEF T, Is
<1>6. ASSUME NEW x, x \in CheckTree(root, known)
      PROVE  \E u \in Loose(T) : /\ u.node[3] \notin known \cup Builtins
                                 /\ x = [rule |-> "unresolved-identifier", at |-> u.node[2]]
  <2>1. PICK v \in Visited(root) :
               /\ v.at.node[1] = "id" /\ ~IsKnown(v.at.node[3], v.scope, known)
               /\ x = [rule |-> "unresolved-identifier", at |-> v.at.node[2]]
    BY <1>2, <1>6
  <2>2. PICK u \in T : v = Is(u)
    BY <1>1
  <2>3. Open(u)
    BY <1>3, <2>1, <2>2
  <2> QED
    BY <1>3, <1>4, <2>1, <2>2, <2>3
<1>7. ASSUME NEW u \in Loose(T), u.node[3] \notin known \cup Builtins
      PROVE  [rule |-> "unresolved-identifier", at |-> u.node[2]] \in CheckTree(root, known)
  <2>1. u \in T /\ Open(u)
    BY <1>4, <1>5, <1>7
  <2>2. Is(u) \in Visited(root)
    BY <1>1, <2>1
  <2> QED
    BY <1>2, <1>3, <2>1, <2>2
<1> QED
  BY <1>6, <1>7 DEF T

\* The names of an item that neither it nor known declares.
OpenOf(item, known) ==
  {u \in UNION {Loose(Tree(root)) : root \in Roots(item)} : u.node[3] \notin known \cup Builtins}

LEMMA CheckTopItemFinds ==
  ASSUME NEW item, IsBuilt(item), NEW known
  PROVE  \A x : x \in CheckTopItem(item, known)
                 <=> \E u \in OpenOf(item, known) :
                       x = [rule |-> "unresolved-identifier", at |-> u.node[2]]
<1>1. ASSUME NEW root \in Roots(item)
      PROVE  \A x : x \in CheckTree(root, known)
                     <=> \E u \in Loose(Tree(root)) :
                           /\ u.node[3] \notin known \cup Builtins
                           /\ x = [rule |-> "unresolved-identifier", at |-> u.node[2]]
  <2>1. IsTree(root)
    BY DEF IsBuilt
  <2> QED
    BY <2>1, CheckTreeFinds
<1>2. ASSUME NEW x
      PROVE  x \in CheckTopItem(item, known)
               <=> \E root \in Roots(item) : x \in CheckTree(root, known)
  BY DEF CheckTopItem
<1>3. ASSUME NEW u
      PROVE  u \in OpenOf(item, known)
               <=> \E root \in Roots(item) : u \in Loose(Tree(root)) /\ u.node[3] \notin known \cup Builtins
  BY DEF OpenOf
<1>4. ASSUME NEW x, x \in CheckTopItem(item, known)
      PROVE  \E u \in OpenOf(item, known) : x = [rule |-> "unresolved-identifier", at |-> u.node[2]]
  BY <1>1, <1>2, <1>3, <1>4
<1>5. ASSUME NEW x, NEW u \in OpenOf(item, known), x = [rule |-> "unresolved-identifier", at |-> u.node[2]]
      PROVE  x \in CheckTopItem(item, known)
  BY <1>1, <1>2, <1>3, <1>5
<1> QED
  BY <1>4, <1>5

\* The check of a file finds the open names of its items, each at its place.
LEMMA CheckModuleFinds ==
  ASSUME NEW its, \A n \in DOMAIN its : IsBuilt(its[n]), NEW known
  PROVE  \A x : x \in CheckModule(its, known)
                 <=> \E n \in DOMAIN its : \E u \in OpenOf(its[n], known) :
                       x = [rule |-> "unresolved-identifier", at |-> u.node[2]]
<1>1. ASSUME NEW n \in DOMAIN its
      PROVE  \A x : x \in CheckTopItem(its[n], known)
                     <=> \E u \in OpenOf(its[n], known) :
                           x = [rule |-> "unresolved-identifier", at |-> u.node[2]]
  BY CheckTopItemFinds
<1>2. ASSUME NEW x
      PROVE  x \in CheckModule(its, known)
               <=> \E n \in DOMAIN its : x \in CheckTopItem(its[n], known)
  BY DEF CheckModule
<1>3. ASSUME NEW x, x \in CheckModule(its, known)
      PROVE  \E n \in DOMAIN its : \E u \in OpenOf(its[n], known) :
               x = [rule |-> "unresolved-identifier", at |-> u.node[2]]
  <2>1. PICK n \in DOMAIN its : x \in CheckTopItem(its[n], known)
    BY <1>2, <1>3
  <2>2. PICK u \in OpenOf(its[n], known) :
          x = [rule |-> "unresolved-identifier", at |-> u.node[2]]
    BY <1>1, <2>1
  <2> QED
    BY <2>2
<1>4. ASSUME NEW x, NEW n \in DOMAIN its, NEW u \in OpenOf(its[n], known),
             x = [rule |-> "unresolved-identifier", at |-> u.node[2]]
      PROVE  x \in CheckModule(its, known)
  BY <1>1, <1>2, <1>4
<1> QED
  BY <1>3, <1>4

-----------------------------------------------------------------------------
(***************************************************************************)
(* The driver.                                                             *)
(***************************************************************************)
\* The names that the first n files install.
Known(n) == UNION {Declared(modules[g]) : g \in 1 .. n}

\* How many files are resolved, and how many linted.
Resolved == IF phase = "parse" THEN 0 ELSE IF phase = "resolve" THEN k - 1 ELSE Len(files)
Linted   == IF phase \in {"parse", "resolve"} THEN 0 ELSE IF phase = "lint" THEN k - 1 ELSE Len(files)

FilesInv ==
  /\ files \in Seq(Seq(Seq(STRING))) \ {<<>>}
  /\ phase \in {"parse", "resolve", "lint", "report", "done"}
  /\ k \in 1 .. Len(files)

ModulesInv ==
  /\ \E S : items \in Seq(S) /\ modules \in Seq(Seq(S))
  /\ Len(modules) = IF phase = "parse" THEN k - 1 ELSE Len(files)

Resolutions == {x \in diags : x.phase = "resolve"}
Lints       == {x \in diags : x.phase = "lint"}

\* The resolver's symbols are what the files it is done with install, and its
\* diagnostics what it finds in each of them with the symbols it had by then.
ResolverInv ==
  /\ globals = Known(Resolved)
  /\ \A x : x \in Resolutions
       <=> \E f \in 1 .. Resolved : x \in From(CheckModule(modules[f], Known(f)), f, "resolve")

\* The linter's are what it finds in each of the files it is done with, against
\* all of them.
LinterInv ==
  \A x : x \in Lints
    <=> \E f \in 1 .. Linted : x \in From(LintModule(modules[f], modules), f, "lint")

HolyccInv == FilesInv /\ ModulesInv /\ ResolverInv /\ LinterInv

LEMMA FromPhase ==
  ASSUME NEW ds, NEW f, NEW ph, NEW x \in From(ds, f, ph)
  PROVE  x.phase = ph /\ x.file = f
BY DEF From

LEMMA HolyccInvInit == Init => HolyccInv
<1> SUFFICES ASSUME Init PROVE HolyccInv
  OBVIOUS
<1>1. files \in Seq(Seq(Seq(STRING))) \ {<<>>}
  BY HolyccAssumption DEF Init
<1>2. Len(files) \in Nat /\ Len(files) # 0
  BY <1>1, EmptySeq
<1>3. FilesInv
  BY <1>1, <1>2 DEF FilesInv, Init
<1>4. ModulesInv
  <2>1. items = <<>> /\ modules = <<>> /\ phase = "parse" /\ k = 1
    BY DEF Init
  <2>2. items \in Seq(Nat) /\ modules \in Seq(Seq(Nat)) /\ Len(modules) = 0
    BY <2>1, EmptySeq
  <2> QED
    BY <2>1, <2>2 DEF ModulesInv
<1>5. ResolverInv
  BY DEF ResolverInv, Resolutions, Resolved, Known, Init
<1>6. LinterInv
  BY DEF LinterInv, Lints, Linted, Init
<1> QED
  BY <1>3, <1>4, <1>5, <1>6 DEF HolyccInv

LEMMA FilesInvNext == HolyccInv /\ [Next]_vars => FilesInv'
<1> SUFFICES ASSUME HolyccInv, [Next]_vars PROVE FilesInv'
  OBVIOUS
<1>1. FilesInv /\ Len(files) \in Nat /\ Len(files) # 0
  BY EmptySeq DEF HolyccInv, FilesInv
<1>2. ASSUME NEW next \in {"resolve", "lint", "report"}, NextFile(next), files' = files PROVE FilesInv'
  BY <1>1, <1>2 DEF FilesInv, NextFile
<1>3. CASE ParseItem
  BY <1>1, <1>3 DEF ParseItem, FilesInv
<1>4. CASE FileParsed
  BY <1>2, <1>4 DEF FileParsed
<1>5. CASE ResolveFile
  BY <1>2, <1>5 DEF ResolveFile
<1>6. CASE LintFile
  BY <1>2, <1>6 DEF LintFile
<1>7. CASE Report
  BY <1>1, <1>7 DEF Report, FilesInv
<1>8. CASE UNCHANGED vars
  BY <1>1, <1>8 DEF vars, FilesInv
<1> QED
  BY <1>3, <1>4, <1>5, <1>6, <1>7, <1>8 DEF Next

LEMMA ModulesInvNext == HolyccInv /\ [Next]_vars => ModulesInv'
<1> SUFFICES ASSUME HolyccInv, [Next]_vars PROVE ModulesInv'
  OBVIOUS
<1>1. FilesInv /\ ModulesInv /\ Len(files) \in Nat /\ k \in 1 .. Len(files)
  BY EmptySeq DEF HolyccInv, FilesInv
<1>2. ASSUME phase # "parse", phase' # "parse", UNCHANGED <<files, items, modules>> PROVE ModulesInv'
  BY <1>1, <1>2 DEF ModulesInv
<1>3. CASE UNCHANGED vars
  BY <1>1, <1>3 DEF vars, ModulesInv
<1>4. CASE ParseItem
  <2>1. PICK S : items \in Seq(S) /\ modules \in Seq(Seq(S))
    BY <1>1 DEF ModulesInv
  <2>2. UNCHANGED <<files, phase, k, modules>> /\ items' = items \o Opt(ParserItem(p).r)
    BY <1>4 DEF ParseItem
  <2> DEFINE more == S \cup {ParserItem(p).r}
  <2>3. Seq(S) \subseteq Seq(more)
    OBVIOUS
  <2>4. Opt(ParserItem(p).r) \in Seq(more)
    <3>1. ASSUME NEW x \in more PROVE Opt(x) \in Seq(more)
      <4> HIDE DEF more
      <4>1. <<>> \in Seq(more) /\ <<x>> \in Seq(more)
        OBVIOUS
      <4> QED
        BY <4>1 DEF Opt
    <3> QED
      BY <3>1
  <2>5. items' \in Seq(more) /\ modules \in Seq(Seq(more))
    <3> HIDE DEF more
    <3> QED
      BY <2>1, <2>2, <2>3, <2>4
  <2> HIDE DEF more
  <2> QED
    BY <1>1, <2>2, <2>5 DEF ModulesInv
<1>5. CASE FileParsed
  <2>1. PICK S : items \in Seq(S) /\ modules \in Seq(Seq(S))
    BY <1>1 DEF ModulesInv
  <2>2. /\ modules' = Append(modules, items) /\ items' = <<>>
        /\ phase = "parse" /\ files' = files /\ NextFile("resolve")
    BY <1>5 DEF FileParsed
  <2>3. items' \in Seq(S)
    BY <2>2, EmptySeq
  <2>4. modules' \in Seq(Seq(S)) /\ Len(modules') = Len(modules) + 1
    BY <2>1, <2>2, AppendProperties
  <2>5. Len(modules) = k - 1
    BY <1>1, <2>2 DEF ModulesInv
  <2>6. Len(modules') = IF phase' = "parse" THEN k' - 1 ELSE Len(files')
    <3>1. Len(modules') = k
      BY <1>1, <2>4, <2>5
    <3>2. CASE k < Len(files)
      BY <1>1, <2>2, <3>1, <3>2 DEF NextFile
    <3>3. CASE ~(k < Len(files))
      BY <1>1, <2>2, <3>1, <3>3 DEF NextFile
    <3> QED
      BY <3>2, <3>3
  <2> QED
    BY <2>3, <2>4, <2>6 DEF ModulesInv
<1>6. CASE ResolveFile
  BY <1>2, <1>6 DEF ResolveFile, NextFile
<1>7. CASE LintFile
  BY <1>2, <1>7 DEF LintFile, NextFile
<1>8. CASE Report
  BY <1>2, <1>8 DEF Report
<1> QED
  BY <1>3, <1>4, <1>5, <1>6, <1>7, <1>8 DEF Next

\* Only the resolver's steps disturb the resolver.
LEMMA ResolverInvKept ==
  ASSUME ResolverInv, Resolved' = Resolved, globals' = globals,
         Resolved = 0 \/ modules' = modules,
         Resolutions' = Resolutions
  PROVE  ResolverInv'
<1>1. ASSUME NEW n \in {Resolved} PROVE Known(n)' = Known(n)
  <2>1. CASE Resolved = 0
    BY <2>1 DEF Known
  <2>2. CASE modules' = modules
    BY <2>2 DEF Known
  <2> QED
    BY <2>1, <2>2
<1>2. globals' = Known(Resolved)'
  BY <1>1 DEF ResolverInv
<1>3. ASSUME NEW x
      PROVE  (\E f \in 1 .. Resolved : x \in From(CheckModule(modules[f], Known(f)), f, "resolve"))'
               <=> \E f \in 1 .. Resolved : x \in From(CheckModule(modules[f], Known(f)), f, "resolve")
  <2>1. CASE Resolved = 0
    BY <2>1
  <2>2. CASE modules' = modules
    BY <2>2 DEF Known
  <2> QED
    BY <2>1, <2>2
<1> QED
  BY <1>2, <1>3 DEF ResolverInv

\* One file more.
LEMMA KnownNext == ASSUME NEW n \in Nat PROVE Known(n + 1) = Known(n) \cup Declared(modules[n + 1])
<1>1. 1 .. n + 1 = (1 .. n) \cup {n + 1}
  OBVIOUS
<1> QED
  BY <1>1 DEF Known

LEMMA ResolverInvNext == HolyccInv /\ [Next]_vars => ResolverInv'
<1> SUFFICES ASSUME HolyccInv, [Next]_vars PROVE ResolverInv'
  OBVIOUS
<1>1. FilesInv /\ ResolverInv /\ Len(files) \in Nat /\ k \in 1 .. Len(files)
  BY EmptySeq DEF HolyccInv, FilesInv
<1>2. CASE ParseItem
  <2>1. Resolved = 0 /\ Resolved' = 0
    BY <1>2 DEF ParseItem, Resolved
  <2>2. globals' = globals /\ Resolutions' = Resolutions
    BY <1>2 DEF ParseItem, Resolutions
  <2> QED
    BY <1>1, <2>1, <2>2, ResolverInvKept
<1>3. CASE FileParsed
  <2>1. Resolved = 0 /\ Resolved' = 0
    BY <1>1, <1>3 DEF FileParsed, Resolved, NextFile
  <2>2. globals' = globals /\ diags' = diags \cup From(Range(p.diags), k, "parse")
    BY <1>3 DEF FileParsed
  <2>3. \A x \in From(Range(p.diags), k, "parse") : x.phase = "parse"
    BY FromPhase
  <2>4. Resolutions' = Resolutions
    BY <2>2, <2>3 DEF Resolutions
  <2> QED
    BY <1>1, <2>1, <2>2, <2>4, ResolverInvKept
<1>4. CASE ResolveFile
  <2> DEFINE new == From(CheckModule(modules[k], globals \cup Declared(modules[k])), k, "resolve")
             Found(f) == From(CheckModule(modules[f], Known(f)), f, "resolve")
  <2>1. /\ phase = "resolve"
        /\ globals' = globals \cup Declared(modules[k])
        /\ diags' = diags \cup new
        /\ NextFile("lint")
        /\ modules' = modules
        /\ files' = files
    BY <1>4 DEF ResolveFile
  <2>2. Resolved = k - 1
    BY <2>1 DEF Resolved
  <2>3. Resolved' = k
    <3>1. CASE k < Len(files)
      BY <1>1, <2>1, <3>1 DEF Resolved, NextFile
    <3>2. CASE ~(k < Len(files))
      <4>1. phase' = "lint" /\ k = Len(files)
        BY <1>1, <2>1, <3>2 DEF NextFile
      <4> QED
        BY <2>1, <4>1 DEF Resolved
    <3> QED
      BY <3>1, <3>2
  <2>4. globals = Known(k - 1)
    BY <1>1, <2>2 DEF ResolverInv
  <2>5. Known(k) = globals \cup Declared(modules[k])
    <3>1. k - 1 \in Nat /\ (k - 1) + 1 = k
      BY <1>1
    <3>2. Known((k - 1) + 1) = Known(k - 1) \cup Declared(modules[(k - 1) + 1])
      BY <3>1, KnownNext
    <3> QED
      BY <2>4, <3>1, <3>2
  <2>6. \A n : Known(n)' = Known(n)
    BY <2>1 DEF Known
  <2>7. globals' = Known(Resolved)'
    BY <2>1, <2>3, <2>5, <2>6
  <2>8. new = Found(k)
    BY <2>5
  <2>9. \A x : x \in Resolutions <=> (\E f \in 1 .. k - 1 : x \in Found(f))
    BY <1>1, <2>2 DEF ResolverInv
  <2>10. \A f : \A x \in Found(f) : x.phase = "resolve"
    BY FromPhase
  <2>11. 1 .. k = (1 .. k - 1) \cup {k}
    BY <1>1
  <2>12. \A f : Found(f)' = From(CheckModule(modules[f], Known(f)'), f, "resolve")
    BY <2>1
  <2>13. \A f : Found(f)' = Found(f)
    BY <2>6, <2>12
  <2> HIDE DEF new, Found
  <2>14. ASSUME NEW x
         PROVE  x \in Resolutions' <=> (\E f \in 1 .. k : x \in Found(f))
    <3>1. x \in Resolutions' <=> x \in Resolutions \/ x \in Found(k)
      BY <2>1, <2>8, <2>10 DEF Resolutions
    <3> QED
      BY <2>9, <2>11, <3>1
  <2>15. ASSUME NEW x
         PROVE  x \in Resolutions' <=> (\E f \in 1 .. Resolved' : x \in Found(f)')
    BY <2>3, <2>13, <2>14
  <2> QED
    BY <2>7, <2>15 DEF ResolverInv, Found
<1>5. CASE LintFile
  <2>1. Resolved = Len(files) /\ Resolved' = Len(files)
    BY <1>1, <1>5 DEF LintFile, Resolved, NextFile
  <2>2. /\ globals' = globals /\ modules' = modules
        /\ diags' = diags \cup From(LintModule(modules[k], modules), k, "lint")
    BY <1>5 DEF LintFile
  <2>3. \A x \in From(LintModule(modules[k], modules), k, "lint") : x.phase = "lint"
    BY FromPhase
  <2>4. Resolutions' = Resolutions
    BY <2>2, <2>3 DEF Resolutions
  <2> QED
    BY <1>1, <2>1, <2>2, <2>4, ResolverInvKept
<1>6. CASE Report
  <2>1. Resolved = Len(files) /\ Resolved' = Len(files)
    BY <1>6 DEF Report, Resolved
  <2>2. globals' = globals /\ modules' = modules /\ Resolutions' = Resolutions
    BY <1>6 DEF Report, Resolutions
  <2> QED
    BY <1>1, <2>1, <2>2, ResolverInvKept
<1>7. CASE UNCHANGED vars
  <2>1. Resolved' = Resolved
    BY <1>7 DEF vars, Resolved
  <2>2. globals' = globals /\ modules' = modules /\ Resolutions' = Resolutions
    BY <1>7 DEF vars, Resolutions
  <2> QED
    BY <1>1, <2>1, <2>2, ResolverInvKept
<1> QED
  BY <1>2, <1>3, <1>4, <1>5, <1>6, <1>7 DEF Next

\* Only the linter's steps disturb the linter.
LEMMA LinterInvKept ==
  ASSUME LinterInv, Linted' = Linted, Linted = 0 \/ modules' = modules, Lints' = Lints
  PROVE  LinterInv'
<1>1. ASSUME NEW x
      PROVE  (\E f \in 1 .. Linted : x \in From(LintModule(modules[f], modules), f, "lint"))'
               <=> \E f \in 1 .. Linted : x \in From(LintModule(modules[f], modules), f, "lint")
  <2>1. CASE Linted = 0
    BY <2>1
  <2>2. CASE modules' = modules
    BY <2>2
  <2> QED
    BY <2>1, <2>2
<1> QED
  BY <1>1 DEF LinterInv

LEMMA LinterInvNext == HolyccInv /\ [Next]_vars => LinterInv'
<1> SUFFICES ASSUME HolyccInv, [Next]_vars PROVE LinterInv'
  OBVIOUS
<1>1. FilesInv /\ LinterInv /\ Len(files) \in Nat /\ k \in 1 .. Len(files)
  BY EmptySeq DEF HolyccInv, FilesInv
<1>2. CASE ParseItem
  <2>1. Linted = 0 /\ Linted' = 0
    BY <1>2 DEF ParseItem, Linted
  <2>2. Lints' = Lints
    BY <1>2 DEF ParseItem, Lints
  <2> QED
    BY <1>1, <2>1, <2>2, LinterInvKept
<1>3. CASE FileParsed
  <2>1. Linted = 0 /\ Linted' = 0
    BY <1>1, <1>3 DEF FileParsed, Linted, NextFile
  <2>2. diags' = diags \cup From(Range(p.diags), k, "parse")
    BY <1>3 DEF FileParsed
  <2>3. \A x \in From(Range(p.diags), k, "parse") : x.phase = "parse"
    BY FromPhase
  <2>4. Lints' = Lints
    BY <2>2, <2>3 DEF Lints
  <2> QED
    BY <1>1, <2>1, <2>4, LinterInvKept
<1>4. CASE ResolveFile
  <2> DEFINE new == From(CheckModule(modules[k], globals \cup Declared(modules[k])), k, "resolve")
  <2>1. Linted = 0 /\ Linted' = 0
    <3>1. phase = "resolve" /\ NextFile("lint")
      BY <1>4 DEF ResolveFile
    <3>2. CASE k < Len(files)
      BY <3>1, <3>2 DEF Linted, NextFile
    <3>3. CASE ~(k < Len(files))
      BY <3>1, <3>3 DEF Linted, NextFile
    <3> QED
      BY <3>2, <3>3
  <2>2. diags' = diags \cup new
    BY <1>4 DEF ResolveFile
  <2>3. \A x \in new : x.phase = "resolve"
    BY FromPhase
  <2> HIDE DEF new
  <2>4. Lints' = Lints
    BY <2>2, <2>3 DEF Lints
  <2> QED
    BY <1>1, <2>1, <2>4, LinterInvKept
<1>5. CASE LintFile
  <2> DEFINE Found(f) == From(LintModule(modules[f], modules), f, "lint")
  <2>1. /\ phase = "lint"
        /\ diags' = diags \cup Found(k)
        /\ NextFile("report")
        /\ modules' = modules
        /\ files' = files
    BY <1>5 DEF LintFile
  <2>2. Linted = k - 1
    BY <2>1 DEF Linted
  <2>3. Linted' = k
    <3>1. CASE k < Len(files)
      BY <1>1, <2>1, <3>1 DEF Linted, NextFile
    <3>2. CASE ~(k < Len(files))
      <4>1. phase' = "report" /\ k = Len(files)
        BY <1>1, <2>1, <3>2 DEF NextFile
      <4> QED
        BY <2>1, <4>1 DEF Linted
    <3> QED
      BY <3>1, <3>2
  <2>4. \A x : x \in Lints <=> (\E f \in 1 .. k - 1 : x \in Found(f))
    BY <1>1, <2>2 DEF LinterInv
  <2>5. \A f : \A x \in Found(f) : x.phase = "lint"
    BY FromPhase
  <2>6. 1 .. k = (1 .. k - 1) \cup {k}
    BY <1>1
  <2>7. \A f : Found(f)' = Found(f)
    BY <2>1
  <2> HIDE DEF Found
  <2>8. ASSUME NEW x
        PROVE  x \in Lints' <=> (\E f \in 1 .. k : x \in Found(f))
    <3>1. x \in Lints' <=> x \in Lints \/ x \in Found(k)
      BY <2>1, <2>5 DEF Lints
    <3> QED
      BY <2>4, <2>6, <3>1
  <2>9. ASSUME NEW x
        PROVE  x \in Lints' <=> (\E f \in 1 .. Linted' : x \in Found(f)')
    BY <2>3, <2>7, <2>8
  <2> QED
    BY <2>9 DEF LinterInv, Found
<1>6. CASE Report
  <2>1. Linted = Len(files) /\ Linted' = Len(files)
    BY <1>6 DEF Report, Linted
  <2>2. modules' = modules /\ Lints' = Lints
    BY <1>6 DEF Report, Lints
  <2> QED
    BY <1>1, <2>1, <2>2, LinterInvKept
<1>7. CASE UNCHANGED vars
  <2>1. Linted' = Linted
    BY <1>7 DEF vars, Linted
  <2>2. modules' = modules /\ Lints' = Lints
    BY <1>7 DEF vars, Lints
  <2> QED
    BY <1>1, <2>1, <2>2, LinterInvKept
<1> QED
  BY <1>2, <1>3, <1>4, <1>5, <1>6, <1>7 DEF Next

LEMMA HolyccInvNext == HolyccInv /\ [Next]_vars => HolyccInv'
BY FilesInvNext, ModulesInvNext, ResolverInvNext, LinterInvNext DEF HolyccInv

\* The symbols of the files up to f are the names IsGlobal tells.
LEMMA KnownIsGlobal ==
  ASSUME NEW f, NEW name
  PROVE  name \in Known(f) <=> IsGlobal(name, f)
<1> DEFINE Installs(item) ==
             \/ item[1] = "fn" /\ item[2].name = name
             \/ item[1] = "var" /\ \E n \in DOMAIN item[2] : item[2][n].name = name
             \/ item[1] = "class" /\ item[2] = name
             \/ item[1] = "pp" /\ item[2] = "define" /\ item[3] = name
<1>1. ASSUME NEW g
      PROVE  name \in Declared(modules[g]) <=> \E n \in DOMAIN modules[g] : Installs(modules[g][n])
  BY DEF Declared
<1>2. ASSUME NEW g
      PROVE  (\E n \in DOMAIN modules[g] : Installs(modules[g][n])) <=> \E item \in ItemsOf(g) : Installs(item)
  <2> HIDE DEF Installs
  <2> QED
    BY DEF ItemsOf, Range
<1>3. name \in Known(f) <=> \E g \in 1 .. f : name \in Declared(modules[g])
  BY DEF Known
<1>4. IsGlobal(name, f) <=> \E g \in 1 .. f : \E item \in ItemsOf(g) : Installs(item)
  BY DEF IsGlobal
<1> HIDE DEF Installs
<1> QED
  BY <1>1, <1>2, <1>3, <1>4

-----------------------------------------------------------------------------
(* The names.                                                               *)

\* The driver keeps its files, modules and symbols in step, and the diagnostics of
\* the resolver and the linter are what they find in each file they are done with
\* (bin/holycc.rs:67-101).
THEOREM HolyccIsSound == Spec => []HolyccInv
<1>1. Init => HolyccInv
  BY HolyccInvInit
<1>2. HolyccInv /\ [Next]_vars => HolyccInv'
  BY HolyccInvNext
<1> QED
  BY <1>1, <1>2, PTL DEF Spec

\* The diagnostics of a phase are those it found in each of the files.
Keeps(found, ph) ==
  \A x : (x \in diags /\ x.phase = ph) <=> \E g \in 1 .. Len(files) : x \in From(found[g], g, ph)

\* What it reports of one.
LEMMA ReportedIs ==
  ASSUME FilesInv, NEW ph, NEW rule, NEW found, NEW f \in DOMAIN files, Keeps(found, ph)
  PROVE  \A at : at \in Reported(ph, rule, f) <=> \E d \in found[f] : d.rule = rule /\ d.at = at
<1> DEFINE Found(g) == From(found[g], g, ph)
<1>1. f \in 1 .. Len(files)
  BY DEF FilesInv
<1>2. \A x : (x \in diags /\ x.phase = ph) <=> (\E g \in 1 .. Len(files) : x \in Found(g))
  BY DEF Keeps
<1>3. \A at : at \in Reported(ph, rule, f)
               <=> \E x : x \in diags /\ x.phase = ph /\ x.rule = rule /\ x.file = f /\ x.at = at
  BY DEF Reported
<1>4. \A g : \A x \in Found(g) : x.file = g
  BY FromPhase
<1>5. \A x : x \in Found(f)
              <=> \E d \in found[f] : x = [rule |-> d.rule, at |-> d.at, file |-> f, phase |-> ph]
  BY DEF From
<1> HIDE DEF Found
<1>6. ASSUME NEW at, at \in Reported(ph, rule, f)
      PROVE  \E d \in found[f] : d.rule = rule /\ d.at = at
  <2>1. PICK x : x \in diags /\ x.phase = ph /\ x.rule = rule /\ x.file = f /\ x.at = at
    BY <1>3, <1>6
  <2>2. x \in Found(f)
    BY <1>2, <1>4, <2>1
  <2> QED
    BY <1>5, <2>1, <2>2
<1>7. ASSUME NEW d \in found[f], d.rule = rule PROVE d.at \in Reported(ph, rule, f)
  <2> DEFINE x == [rule |-> d.rule, at |-> d.at, file |-> f, phase |-> ph]
  <2>1. x \in Found(f)
    BY <1>5
  <2>2. x \in diags /\ x.phase = ph
    BY <1>1, <1>2, <2>1
  <2>3. x.rule = rule /\ x.file = f /\ x.at = d.at
    BY <1>7
  <2> QED
    BY <1>3, <2>2, <2>3
<1> QED
  BY <1>6, <1>7

LEMMA AllAreParsed ==
  ASSUME HolyccInv, phase = "report"
  PROVE  DOMAIN modules = DOMAIN files /\ Resolved = Len(files) /\ Linted = Len(files)
<1>1. PICK S : modules \in Seq(Seq(S)) /\ Len(modules) = Len(files)
  BY DEF HolyccInv, ModulesInv
<1> QED
  BY <1>1 DEF HolyccInv, FilesInv, Resolved, Linted

LEMMA NamesOf ==
  ASSUME HolyccInv, TreesAreBuilt, phase = "report", NEW f \in DOMAIN files
  PROVE  Reported("resolve", "unresolved-identifier", f) = UNION {Undeclared(item, f) : item \in ItemsOf(f)}
<1> DEFINE found == [g \in 1 .. Len(files) |-> CheckModule(modules[g], Known(g))]
<1>0. \A at : at \in Reported("resolve", "unresolved-identifier", f)
               <=> \E d \in CheckModule(modules[f], Known(f)) : d.rule = "unresolved-identifier" /\ d.at = at
  <2>1. ASSUME NEW x
        PROVE  (x \in diags /\ x.phase = "resolve")
                 <=> \E g \in 1 .. Len(files) : x \in From(found[g], g, "resolve")
    <3>1. x \in Resolutions
            <=> \E g \in 1 .. Len(files) : x \in From(CheckModule(modules[g], Known(g)), g, "resolve")
      BY AllAreParsed DEF HolyccInv, ResolverInv
    <3>2. \A g \in 1 .. Len(files) : found[g] = CheckModule(modules[g], Known(g))
      OBVIOUS
    <3> HIDE DEF found
    <3> QED
      BY <3>1, <3>2 DEF Resolutions
  <2>2. f \in 1 .. Len(files) /\ FilesInv
    BY DEF HolyccInv, FilesInv
  <2>3. found[f] = CheckModule(modules[f], Known(f))
    BY <2>2
  <2> HIDE DEF found
  <2>4. Keeps(found, "resolve")
    BY <2>1 DEF Keeps
  <2>5. \A at : at \in Reported("resolve", "unresolved-identifier", f)
                 <=> \E d \in found[f] : d.rule = "unresolved-identifier" /\ d.at = at
    BY <2>2, <2>4, ReportedIs
  <2> QED
    BY <2>3, <2>5
<1> HIDE DEF found
<1>1. f \in DOMAIN modules
  BY AllAreParsed
<1>2. \A n \in DOMAIN modules[f] : IsBuilt(modules[f][n])
  BY <1>1 DEF TreesAreBuilt, ItemsOf, Range
<1>3. \A x : x \in CheckModule(modules[f], Known(f))
              <=> \E n \in DOMAIN modules[f] : \E u \in OpenOf(modules[f][n], Known(f)) :
                    x = [rule |-> "unresolved-identifier", at |-> u.node[2]]
  BY <1>2, CheckModuleFinds
<1>4. ASSUME NEW item, NEW u
      PROVE  u \in OpenOf(item, Known(f))
               <=> /\ u \in UNION {Loose(Tree(root)) : root \in Roots(item)}
                   /\ u.node[3] \notin Builtins /\ ~IsGlobal(u.node[3], f)
  BY KnownIsGlobal DEF OpenOf
<1>5. ASSUME NEW item, NEW at
      PROVE  at \in Undeclared(item, f) <=> \E u \in OpenOf(item, Known(f)) : at = u.node[2]
  <2> DEFINE Us == UNION {Loose(Tree(root)) : root \in Roots(item)}
  <2>1. Undeclared(item, f)
          = {u.node[2] : u \in {x \in Us : x.node[3] \notin Builtins /\ ~IsGlobal(x.node[3], f)}}
    BY DEF Undeclared
  <2>2. \A u : u \in OpenOf(item, Known(f))
                <=> /\ u \in Us
                    /\ u.node[3] \notin Builtins /\ ~IsGlobal(u.node[3], f)
    BY <1>4
  <2> HIDE DEF Us
  <2> QED
    BY <2>1, <2>2
<1>6. ASSUME NEW at, at \in Reported("resolve", "unresolved-identifier", f)
      PROVE  \E item \in ItemsOf(f) : at \in Undeclared(item, f)
  <2>1. PICK d \in CheckModule(modules[f], Known(f)) : d.at = at
    BY <1>0, <1>6
  <2>2. PICK n \in DOMAIN modules[f] : \E u \in OpenOf(modules[f][n], Known(f)) :
          d = [rule |-> "unresolved-identifier", at |-> u.node[2]]
    BY <1>3
  <2>3. modules[f][n] \in ItemsOf(f)
    BY DEF ItemsOf, Range
  <2>4. at \in Undeclared(modules[f][n], f)
    BY <1>5, <2>1, <2>2
  <2> QED
    BY <2>3, <2>4
<1>7. ASSUME NEW item \in ItemsOf(f), NEW at \in Undeclared(item, f)
      PROVE  at \in Reported("resolve", "unresolved-identifier", f)
  <2>1. PICK n \in DOMAIN modules[f] : item = modules[f][n]
    BY DEF ItemsOf, Range
  <2>2. PICK u \in OpenOf(item, Known(f)) : at = u.node[2]
    BY <1>5
  <2> DEFINE d == [rule |-> "unresolved-identifier", at |-> u.node[2]]
  <2>3. d \in CheckModule(modules[f], Known(f))
    BY <1>3, <2>1, <2>2
  <2>4. d.rule = "unresolved-identifier" /\ d.at = at
    BY <2>2
  <2> HIDE DEF d
  <2> QED
    BY <1>0, <2>3, <2>4
<1> QED
  BY <1>6, <1>7

\* A run reports the names that nothing declares, and no other
\* (resolver.rs:126-338), when the parser made trees of the files.
THEOREM NamesAreResolved == Spec => [](TreesAreBuilt => UndeclaredIsReported)
<1>1. HolyccInv => (TreesAreBuilt => UndeclaredIsReported)
  BY NamesOf DEF UndeclaredIsReported
<1> QED
  BY <1>1, HolyccIsSound, PTL

-----------------------------------------------------------------------------
(***************************************************************************)
(* The linter's count of arguments.                                        *)
(***************************************************************************)
\* g holds the files up to each, one after the other.
IsFlat(g, ss) == g = [i \in 1 .. Len(ss) |-> IF i = 1 THEN ss[i] ELSE g[i - 1] \o ss[i]]

LEMMA FlatExists == ASSUME NEW ss, Len(ss) \in Nat PROVE \E g : IsFlat(g, ss)
<1> DEFINE Solves(g, N) == g = [i \in 1 .. N |-> IF i = 1 THEN ss[i] ELSE g[i - 1] \o ss[i]]
           Solved == {N \in Nat : \E g : Solves(g, N)}
<1>1. 0 \in Solved
  <2>1. Solves([i \in 1 .. 0 |-> <<>>], 0)
    OBVIOUS
  <2> QED
    BY <2>1
<1>2. ASSUME NEW N \in Nat, N \in Solved PROVE N + 1 \in Solved
  <2>1. PICK g : Solves(g, N)
    BY <1>2
  <2> DEFINE h == [i \in 1 .. N + 1 |-> IF i = 1 THEN ss[i] ELSE g[i - 1] \o ss[i]]
  <2>2. ASSUME NEW i \in 1 .. N + 1, i # 1 PROVE h[i - 1] = g[i - 1]
    <3>1. i - 1 \in 1 .. N /\ i - 1 \in 1 .. N + 1
      BY <2>2
    <3>2. g[i - 1] = IF i - 1 = 1 THEN ss[i - 1] ELSE g[(i - 1) - 1] \o ss[i - 1]
      BY <2>1, <3>1
    <3> QED
      BY <3>1, <3>2
  <2>3. Solves(h, N + 1)
    BY <2>2
  <2> HIDE DEF h
  <2>4. \E f : Solves(f, N + 1)
    BY <2>3
  <2> HIDE DEF Solves
  <2> QED
    BY <2>4
<1>3. Len(ss) \in Solved
  <2> HIDE DEF Solved
  <2> QED
    BY <1>1, <1>2, Induction
<1> QED
  BY <1>3 DEF IsFlat

LEMMA FlattenIsSeq ==
  ASSUME NEW S, NEW ss \in Seq(Seq(S))
  PROVE  FlattenSeq(ss) \in Seq(S)
<1> DEFINE H == CHOOSE g : IsFlat(g, ss)
<1>0. Len(ss) \in Nat /\ \A i \in 1 .. Len(ss) : ss[i] \in Seq(S)
  OBVIOUS
<1>1. CASE Len(ss) = 0
  <2>1. FlattenSeq(ss) = ss /\ ss = <<>>
    BY <1>1, EmptySeq DEF FlattenSeq
  <2> QED
    BY <2>1, EmptySeq
<1>2. CASE Len(ss) # 0
  <2>1. FlattenSeq(ss) = H[Len(ss)]
    BY <1>2 DEF FlattenSeq, IsFlat
  <2>2. IsFlat(H, ss)
    BY <1>0, FlatExists
  <2> HIDE DEF H
  <2>3. \A i \in 1 .. Len(ss) : H[i] = IF i = 1 THEN ss[i] ELSE H[i - 1] \o ss[i]
    BY <2>2 DEF IsFlat
  <2> DEFINE Good == {n \in Nat : n + 1 <= Len(ss) => H[n + 1] \in Seq(S)}
  <2>4. 0 \in Good
    BY <1>0, <2>3
  <2>5. ASSUME NEW n \in Nat, n \in Good PROVE n + 1 \in Good
    <3>1. SUFFICES ASSUME (n + 1) + 1 <= Len(ss) PROVE H[(n + 1) + 1] \in Seq(S)
      OBVIOUS
    <3>2. /\ (n + 1) + 1 \in 1 .. Len(ss) /\ (n + 1) + 1 # 1
          /\ ((n + 1) + 1) - 1 = n + 1 /\ n + 1 <= Len(ss)
      BY <1>0, <3>1
    <3>3. H[(n + 1) + 1] = H[n + 1] \o ss[(n + 1) + 1]
      BY <2>3, <3>2
    <3>4. H[n + 1] \in Seq(S) /\ ss[(n + 1) + 1] \in Seq(S)
      BY <1>0, <2>5, <3>2
    <3> QED
      BY <3>3, <3>4, ConcatProperties
  <2>6. Nat \subseteq Good
    <3> HIDE DEF Good
    <3> QED
      BY <2>4, <2>5, Induction
  <2>7. Len(ss) - 1 \in Nat /\ (Len(ss) - 1) + 1 = Len(ss) /\ Len(ss) <= Len(ss)
    BY <1>0, <1>2
  <2>8. Len(ss) - 1 \in Good
    <3> HIDE DEF Good
    <3> QED
      BY <2>6, <2>7
  <2>9. H[(Len(ss) - 1) + 1] \in Seq(S)
    BY <2>7, <2>8
  <2> QED
    BY <2>1, <2>7, <2>9
<1> QED
  BY <1>1, <1>2

\* g holds the table after each of the items.
IsUpto(g, tables) ==
  g = [n \in 0 .. Len(tables) |-> IF n = 0 THEN NoNames ELSE Over(tables[n], g[n - 1])]

LEMMA UptoExists == ASSUME NEW tables, Len(tables) \in Nat PROVE \E g : IsUpto(g, tables)
<1> DEFINE Solves(g, N) == g = [n \in 0 .. N |-> IF n = 0 THEN NoNames ELSE Over(tables[n], g[n - 1])]
           Solved == {N \in Nat : \E g : Solves(g, N)}
<1>1. 0 \in Solved
  <2>1. Solves([n \in 0 .. 0 |-> NoNames], 0)
    OBVIOUS
  <2> QED
    BY <2>1
<1>2. ASSUME NEW N \in Nat, N \in Solved PROVE N + 1 \in Solved
  <2>1. PICK g : Solves(g, N)
    BY <1>2
  <2> DEFINE h == [n \in 0 .. N + 1 |-> IF n = 0 THEN NoNames ELSE Over(tables[n], g[n - 1])]
  <2>2. ASSUME NEW n \in 0 .. N + 1, n # 0 PROVE h[n - 1] = g[n - 1]
    <3>1. n - 1 \in 0 .. N /\ n - 1 \in 0 .. N + 1
      BY <2>2
    <3>2. g[n - 1] = IF n - 1 = 0 THEN NoNames ELSE Over(tables[n - 1], g[(n - 1) - 1])
      BY <2>1, <3>1
    <3> QED
      BY <3>1, <3>2
  <2>3. Solves(h, N + 1)
    BY <2>2
  <2> HIDE DEF h
  <2> QED
    BY <2>3
<1>3. Len(tables) \in Solved
  <2> HIDE DEF Solved
  <2> QED
    BY <1>1, <1>2, Induction
<1> QED
  BY <1>3 DEF IsUpto

\* A name has what the last table that has it gives.
LastTable(n, name, tables, N) ==
  /\ n \in 1 .. N /\ name \in DOMAIN tables[n]
  /\ \A m \in 1 .. N : m > n => name \notin DOMAIN tables[m]

LEMMA RegisteredIs ==
  ASSUME NEW tables, Len(tables) \in Nat, NEW name
  PROVE  /\ name \in DOMAIN Registered(tables)
              <=> \E n \in 1 .. Len(tables) : LastTable(n, name, tables, Len(tables))
         /\ \A n \in 1 .. Len(tables) :
              LastTable(n, name, tables, Len(tables)) => Registered(tables)[name] = tables[n][name]
<1> DEFINE L == Len(tables)
           H == CHOOSE g : IsUpto(g, tables)
           Is(N) == /\ name \in DOMAIN H[N] <=> \E n \in 1 .. N : LastTable(n, name, tables, N)
                    /\ \A n \in 1 .. N : LastTable(n, name, tables, N) => H[N][name] = tables[n][name]
           Good == {N \in Nat : N <= L => Is(N)}
<1>1. Registered(tables) = H[L]
  BY DEF Registered, IsUpto
<1>2. IsUpto(H, tables)
  BY UptoExists
<1> HIDE DEF H
<1>3. /\ H[0] = NoNames
      /\ \A n \in 1 .. L : H[n] = Over(tables[n], H[n - 1])
  BY <1>2 DEF IsUpto
<1>4. 0 \in Good
  BY <1>3 DEF NoNames
<1>5. ASSUME NEW N \in Nat, N \in Good PROVE N + 1 \in Good
  <2>1. SUFFICES ASSUME N + 1 <= L PROVE Is(N + 1)
    OBVIOUS
  <2>2. Is(N) /\ N + 1 \in 1 .. L /\ (N + 1) - 1 = N
    BY <1>5, <2>1
  <2>3. H[N + 1] = Over(tables[N + 1], H[N])
    BY <1>3, <2>2
  <2>4. 1 .. N + 1 = (1 .. N) \cup {N + 1}
    OBVIOUS
  <2>5. CASE name \in DOMAIN tables[N + 1]
    <3>1. \A n \in 1 .. N + 1 : LastTable(n, name, tables, N + 1) <=> n = N + 1
      BY <2>5 DEF LastTable
    <3>2. name \in DOMAIN H[N + 1] /\ H[N + 1][name] = tables[N + 1][name]
      BY <2>3, <2>5 DEF Over
    <3> QED
      BY <3>1, <3>2
  <2>6. CASE name \notin DOMAIN tables[N + 1]
    <3>1. ~LastTable(N + 1, name, tables, N + 1)
      BY <2>6 DEF LastTable
    <3>2. ASSUME NEW n \in 1 .. N
          PROVE  LastTable(n, name, tables, N + 1) <=> LastTable(n, name, tables, N)
      BY <2>4, <2>6 DEF LastTable
    <3>3. /\ name \in DOMAIN H[N + 1] <=> name \in DOMAIN H[N]
          /\ name \in DOMAIN H[N] => H[N + 1][name] = H[N][name]
      BY <2>3, <2>6 DEF Over
    <3> QED
      BY <2>2, <2>4, <3>1, <3>2, <3>3
  <2> QED
    BY <2>5, <2>6
<1>6. L \in Good
  <2> HIDE DEF Good
  <2> QED
    BY <1>4, <1>5, Induction
<1> QED
  BY <1>1, <1>6

LEMMA SameLength == ASSUME NEW a \in Nat, NEW b \in Nat, 1 .. a = 1 .. b PROVE a = b
<1>1. \A n \in Nat : n \in 1 .. a <=> n \in 1 .. b
  OBVIOUS
<1>2. a <= b
  <2>1. a = 0 \/ a \in 1 .. a
    OBVIOUS
  <2> QED
    BY <1>1, <2>1
<1>3. b <= a
  <2>1. b = 0 \/ b \in 1 .. b
    OBVIOUS
  <2> QED
    BY <1>1, <2>1
<1> QED
  BY <1>2, <1>3

LEMMA LastIsOne ==
  ASSUME NEW name, NEW fn, IsLast(fn, name), NEW other, IsLast(other, name),
         DOMAIN FlattenSeq(modules) \subseteq Nat
  PROVE  fn = other
<1> DEFINE all == FlattenSeq(modules)
<1>1. PICK n \in DOMAIN all : /\ fn = all[n] /\ IsFunction(fn, name)
                              /\ \A m \in DOMAIN all : m > n => ~IsFunction(all[m], name)
  BY DEF IsLast
<1>2. PICK m \in DOMAIN all : /\ other = all[m] /\ IsFunction(other, name)
                              /\ \A l \in DOMAIN all : l > m => ~IsFunction(all[l], name)
  BY DEF IsLast
<1>3. ~(m > n) /\ ~(n > m)
  BY <1>1, <1>2
<1> QED
  BY <1>1, <1>2, <1>3

\* The signature of a name is that of its last function.
LEMMA FunctionsAre ==
  ASSUME NEW S, modules \in Seq(Seq(S)), NEW name
  PROVE  /\ name \in DOMAIN TypeContext(modules).functions
              <=> \E fn \in Range(FlattenSeq(modules)) : IsLast(fn, name)
         /\ \A fn : IsLast(fn, name) =>
              TypeContext(modules).functions[name]
                = Signature(fn[2].params, {n \in DOMAIN fn[2].params : ~fn[2].params[n].variadic})
<1> DEFINE all == FlattenSeq(modules)
           tables == [n \in DOMAIN all |-> ItemFunctions(all[n])]
           N == Len(all)
           fs == TypeContext(modules).functions
<1>1. all \in Seq(S)
  BY FlattenIsSeq
<1>2. N \in Nat /\ DOMAIN all = 1 .. N
  BY <1>1, LenProperties
<1>3. fs = Registered(tables)
  BY DEF TypeContext
<1> HIDE DEF all
<1>4. Len(tables) = N
  <2> DEFINE T == {ItemFunctions(all[n]) : n \in 1 .. N}
  <2>1. tables \in [1 .. N -> T]
    BY <1>2
  <2>2. tables \in Seq(T)
    BY <1>2, <2>1, SeqDef
  <2>3. Len(tables) \in Nat /\ DOMAIN tables = 1 .. Len(tables)
    BY <2>2, LenProperties
  <2>4. 1 .. N = 1 .. Len(tables)
    BY <1>2, <2>3
  <2> HIDE DEF tables
  <2> QED
    BY <1>2, <2>3, <2>4, SameLength
<1>5. ASSUME NEW n \in 1 .. N
      PROVE  /\ name \in DOMAIN tables[n] <=> IsFunction(all[n], name)
             /\ name \in DOMAIN tables[n] =>
                  tables[n][name] = Signature(all[n][2].params,
                                              {m \in DOMAIN all[n][2].params : ~all[n][2].params[m].variadic})
  <2>1. tables[n] = ItemFunctions(all[n])
    BY <1>2
  <2> HIDE DEF tables
  <2>2. CASE all[n][1] = "fn"
    BY <2>1, <2>2 DEF ItemFunctions, Gives, IsFunction
  <2>3. CASE all[n][1] # "fn"
    BY <2>1, <2>3 DEF ItemFunctions, NoNames, IsFunction
  <2> QED
    BY <2>2, <2>3
<1> HIDE DEF tables, N, fs
<1>6. /\ name \in DOMAIN fs <=> \E n \in 1 .. N : LastTable(n, name, tables, N)
      /\ \A n \in 1 .. N : LastTable(n, name, tables, N) => fs[name] = tables[n][name]
  BY <1>2, <1>3, <1>4, RegisteredIs
<1>7. ASSUME NEW fn
      PROVE  IsLast(fn, name) <=> \E n \in 1 .. N : LastTable(n, name, tables, N) /\ fn = all[n]
  <2>1. IsLast(fn, name)
          <=> \E n \in 1 .. N : /\ fn = all[n] /\ IsFunction(fn, name)
                                /\ \A m \in 1 .. N : m > n => ~IsFunction(all[m], name)
    BY <1>2 DEF IsLast, all
  <2> QED
    BY <1>5, <2>1 DEF LastTable
<1>8. ASSUME NEW fn, IsLast(fn, name)
      PROVE  fs[name] = Signature(fn[2].params, {n \in DOMAIN fn[2].params : ~fn[2].params[n].variadic})
  <2>1. PICK n \in 1 .. N : LastTable(n, name, tables, N) /\ fn = all[n]
    BY <1>7, <1>8
  <2>2. name \in DOMAIN tables[n]
    BY <2>1 DEF LastTable
  <2> QED
    BY <1>5, <1>6, <2>1, <2>2
<1>9. name \in DOMAIN fs <=> \E fn \in Range(all) : IsLast(fn, name)
  <2>1. ASSUME NEW n \in 1 .. N, LastTable(n, name, tables, N) PROVE all[n] \in Range(all) /\ IsLast(all[n], name)
    BY <1>2, <1>7, <2>1 DEF Range
  <2> QED
    BY <1>6, <1>7, <2>1
<1> QED
  BY <1>8, <1>9 DEF all, fs

\* The arguments given to a name do not fit its signature.
Unfit(name, args, fs) ==
  /\ name \in DOMAIN fs
  /\ IF fs[name].variadic THEN args < fs[name].numParams ELSE args # fs[name].numParams

LEMMA UnfitIs ==
  ASSUME NEW S, modules \in Seq(Seq(S)), NEW name, NEW args
  PROVE  Unfit(name, args, TypeContext(modules).functions)
           <=> \E fn \in Range(FlattenSeq(modules)) : IsLast(fn, name) /\ ~FitsCall(fn, args)
<1> DEFINE all == FlattenSeq(modules)
           fs == TypeContext(modules).functions
           Sig(fn) == Signature(fn[2].params, {n \in DOMAIN fn[2].params : ~fn[2].params[n].variadic})
<1>1. /\ name \in DOMAIN fs <=> \E fn \in Range(all) : IsLast(fn, name)
      /\ \A fn : IsLast(fn, name) => fs[name] = Sig(fn)
  BY FunctionsAre
<1>2. ASSUME NEW fn
      PROVE  FitsCall(fn, args) <=> IF Sig(fn).variadic THEN ~(args < Sig(fn).numParams)
                                    ELSE args = Sig(fn).numParams
  <2>1. /\ Sig(fn).numParams = Cardinality({n \in DOMAIN fn[2].params : ~fn[2].params[n].variadic})
        /\ Sig(fn).variadic = (\E n \in DOMAIN fn[2].params : fn[2].params[n].variadic)
    BY DEF Signature
  <2> HIDE DEF Sig
  <2> QED
    BY <2>1 DEF FitsCall
<1>3. DOMAIN all \subseteq Nat
  <2>1. all \in Seq(S)
    BY FlattenIsSeq
  <2> QED
    BY <2>1
<1> HIDE DEF all, fs, Sig
<1>4. ASSUME NEW fn \in Range(all), IsLast(fn, name)
      PROVE  Unfit(name, args, fs) <=> ~FitsCall(fn, args)
  BY <1>1, <1>2, <1>4 DEF Unfit
<1>5. Unfit(name, args, fs) => \E fn \in Range(all) : IsLast(fn, name)
  BY <1>1 DEF Unfit
<1>6. Unfit(name, args, fs) <=> \E fn \in Range(all) : IsLast(fn, name) /\ ~FitsCall(fn, args)
  BY <1>4, <1>5
<1> QED
  BY <1>6 DEF all, fs

\* The walk counts the calls outside of every sizeof and dimension.
LEMMA SkippedIs ==
  ASSUME NEW root, IsTree(root), NEW c \in Tree(root)
  PROVE  c \notin Skipped(Tree(root)) <=> Entered(c, Tree(root))
<1> DEFINE T == Tree(root)
           Out(s) == {n \in DOMAIN Parts(s.node) : s.node[1] = "sizeof" \/ n <= Len(DimExprs(s.node[2]))}
           In(s) == \/ s.node[1] = "sizeof"
                    \/ s.node[1] = "declarator" /\ c.place[Len(s.place) + 1] <= Len(DimExprs(s.node[2]))
<1>1. c \in Skipped(T)
        <=> \E s \in T : /\ s.node[1] \in {"sizeof", "declarator"}
                         /\ \E n \in Out(s) : Within(c, Part(s, n))
  BY DEF Skipped
<1>2. ASSUME NEW s \in T, s.node[1] \in {"sizeof", "declarator"}, NEW n \in Out(s), Within(c, Part(s, n))
      PROVE  s # c /\ Within(c, s) /\ In(s)
  <2>1. /\ Within(c, s) /\ Len(s.place) + 1 <= Len(c.place) /\ c.place[Len(s.place) + 1] = n
        /\ Len(s.place) \in Nat
    BY <1>2, WithinPart, TreePlaces
  <2> QED
    BY <1>2, <2>1
<1>3. ASSUME NEW s \in T, s # c, Within(c, s), In(s)
      PROVE  \E n \in Out(s) : Within(c, Part(s, n))
  <2>1. PICK n \in DOMAIN Parts(s.node) : Within(c, Part(s, n))
    BY <1>3, WithinCases
  <2>2. c.place[Len(s.place) + 1] = n
    BY <2>1, WithinPart
  <2> QED
    BY <1>3, <2>1, <2>2
<1>4. \A s : In(s) => s.node[1] \in {"sizeof", "declarator"}
  OBVIOUS
<1> HIDE DEF T, Out, In
<1>5. c \in Skipped(T) <=> \E s \in T \ {c} : Within(c, s) /\ In(s)
  BY <1>1, <1>2, <1>3, <1>4
<1> QED
  BY <1>5 DEF T, In, Entered


-----------------------------------------------------------------------------
(***************************************************************************)
(* The linter's walk.                                                      *)
(***************************************************************************)
\* What each rule finds at a node is told apart by its name.
LEMMA LintNodeIs ==
  ASSUME NEW t, NEW scope, NEW tree, NEW ctx
  PROVE  /\ \A x : x \in LintNode(t, scope, tree, ctx) /\ x.rule = "f64-bitwise"
                    <=> /\ t.node[1] = "bin" /\ t.node[3] \in {"&", "|", "^"}
                        /\ x \in F64Bitwise(t, scope, tree, ctx)
         /\ \A x : x \in LintNode(t, scope, tree, ctx) /\ x.rule = "arity-mismatch"
                    <=> t.node[1] = "call" /\ x \in Arity(t, scope, ctx)
         /\ \A x : x \in LintNode(t, scope, tree, ctx) /\ x.rule = "switch-case-shared-scope"
                    <=> t.node[1] = "switch" /\ x \in SwitchSharedScope(t, tree)
         /\ \A x : x \in LintNode(t, scope, tree, ctx) /\ x.rule = "block-shared-scope"
                    <=> t.node[1] \in {"fn", "block"} /\ x \in BlockSharedScope(t, tree)
<1> DEFINE All(ds, rule) == \A x \in ds : x.rule = rule
           IsOp == t.node[1] = "bin" /\ t.node[3] \in {"&", "|", "^"}
<1>1. \A rule, at : All(Warn(rule, at), rule)
  BY DEF Warn
<1>2. All(F64Bitwise(t, scope, tree, ctx), "f64-bitwise")
  BY <1>1 DEF F64Bitwise
<1>3. All(Arity(t, scope, ctx), "arity-mismatch")
  BY <1>1 DEF Arity
<1>4. All(SwitchSharedScope(t, tree), "switch-case-shared-scope")
  <2> DEFINE W(d) == Warn("switch-case-shared-scope", d.node[2].at)
  <2>1. \E again : SwitchSharedScope(t, tree) = UNION {W(d) : d \in again}
    BY DEF SwitchSharedScope
  <2>2. \A d : All(W(d), "switch-case-shared-scope")
    BY <1>1
  <2> HIDE DEF W
  <2> QED
    BY <2>1, <2>2
<1>5. All(BlockSharedScope(t, tree), "block-shared-scope")
  <2> DEFINE W(x) == Warn("block-shared-scope", x.decl.node[2].at)
  <2>1. \E again : BlockSharedScope(t, tree) = UNION {W(x) : x \in again}
    BY DEF BlockSharedScope
  <2>2. \A x : All(W(x), "block-shared-scope")
    BY <1>1
  <2> HIDE DEF W
  <2> QED
    BY <2>1, <2>2
<1>6. CASE IsOp
  <2>1. LintNode(t, scope, tree, ctx) = F64Bitwise(t, scope, tree, ctx)
    BY <1>6 DEF LintNode
  <2> QED
    BY <1>2, <1>6, <2>1
<1>7. CASE t.node[1] = "call"
  <2>1. LintNode(t, scope, tree, ctx) = Arity(t, scope, ctx)
    BY <1>7 DEF LintNode
  <2> QED
    BY <1>3, <1>7, <2>1
<1>8. CASE t.node[1] = "switch"
  <2>1. LintNode(t, scope, tree, ctx) = SwitchSharedScope(t, tree)
    BY <1>8 DEF LintNode
  <2> QED
    BY <1>4, <1>8, <2>1
<1>9. CASE t.node[1] \in {"fn", "block"}
  <2>1. LintNode(t, scope, tree, ctx) = BlockSharedScope(t, tree)
    BY <1>9 DEF LintNode
  <2> QED
    BY <1>5, <1>9, <2>1
<1>10. CASE ~IsOp /\ t.node[1] \notin {"call", "switch", "fn", "block"}
  <2>1. LintNode(t, scope, tree, ctx) = {}
    BY <1>10 DEF LintNode
  <2> QED
    BY <1>10, <2>1
<1> QED
  BY <1>6, <1>7, <1>8, <1>9, <1>10

\* The declarations that reach a node, and what the rules find there.
ScopeAt(u, tree)   == {d \in Decls(tree) : Reaches(d, u, tree)}
FoundAt(u, tree)   == LintNode(u, ScopeAt(u, tree), tree, TypeContext(modules))
IsFound(at, rule, u, tree) == \E x \in FoundAt(u, tree) : x.rule = rule /\ x.at = at

\* The roots of the trees of a file.
RootsOf(f) == UNION {Roots(item) : item \in ItemsOf(f)}

\* Of a tree the linter finds what the rules find at the nodes it enters.
LEMMA LintTreeIs ==
  ASSUME NEW root, IsTree(root)
  PROVE  \A x : x \in LintTree(root, TypeContext(modules))
                 <=> \E u \in Tree(root) : Entered(u, Tree(root)) /\ x \in FoundAt(u, Tree(root))
<1> DEFINE T == Tree(root)
           ctx == TypeContext(modules)
           Is(u) == [at |-> u, scope |-> ScopeAt(u, T)]
<1>1. \A v : v \in Visited(root) <=> \E u \in T : v = Is(u)
  BY VisitedIs DEF ScopeAt
<1>2. \A x : x \in LintTree(root, ctx)
              <=> \E v \in Visited(root) :
                    v.at \notin Skipped(T) /\ x \in LintNode(v.at, v.scope, T, ctx)
  BY DEF LintTree
<1>3. \A u : Is(u).at = u /\ Is(u).scope = ScopeAt(u, T)
  OBVIOUS
<1>4. \A u \in T : u \notin Skipped(T) <=> Entered(u, T)
  BY SkippedIs
<1> HIDE DEF T, ctx, Is
<1>5. \A x : x \in LintTree(root, ctx)
              <=> \E u \in T : Entered(u, T) /\ x \in LintNode(u, ScopeAt(u, T), T, ctx)
  BY <1>1, <1>2, <1>3, <1>4
<1> QED
  BY <1>5 DEF T, ctx, FoundAt

\* And so of a file.
LEMMA LintFinds ==
  ASSUME HolyccInv, TreesAreBuilt, phase = "report", NEW f \in DOMAIN files, NEW rule
  PROVE  \A at : at \in Reported("lint", rule, f)
                  <=> \E root \in RootsOf(f) : \E u \in Tree(root) :
                        Entered(u, Tree(root)) /\ IsFound(at, rule, u, Tree(root))
<1> DEFINE found == [g \in 1 .. Len(files) |-> LintModule(modules[g], modules)]
           ctx == TypeContext(modules)
<1>1. \A at : at \in Reported("lint", rule, f)
               <=> \E x \in LintModule(modules[f], modules) : x.rule = rule /\ x.at = at
  <2>1. ASSUME NEW x
        PROVE  (x \in diags /\ x.phase = "lint")
                 <=> \E g \in 1 .. Len(files) : x \in From(found[g], g, "lint")
    <3>1. x \in Lints
            <=> \E g \in 1 .. Len(files) : x \in From(LintModule(modules[g], modules), g, "lint")
      BY AllAreParsed DEF HolyccInv, LinterInv
    <3>2. \A g \in 1 .. Len(files) : found[g] = LintModule(modules[g], modules)
      OBVIOUS
    <3> HIDE DEF found
    <3> QED
      BY <3>1, <3>2 DEF Lints
  <2>2. f \in 1 .. Len(files) /\ FilesInv
    BY DEF HolyccInv, FilesInv
  <2>3. found[f] = LintModule(modules[f], modules)
    BY <2>2
  <2> HIDE DEF found
  <2>4. Keeps(found, "lint")
    BY <2>1 DEF Keeps
  <2>5. \A at : at \in Reported("lint", rule, f) <=> \E x \in found[f] : x.rule = rule /\ x.at = at
    BY <2>2, <2>4, ReportedIs
  <2> QED
    BY <2>3, <2>5
<1> HIDE DEF found
<1>2. \A x : x \in LintModule(modules[f], modules)
              <=> \E n \in DOMAIN modules[f] : \E root \in Roots(modules[f][n]) : x \in LintTree(root, ctx)
  BY DEF LintModule, LintTopItem
<1>3. \A root : root \in RootsOf(f) <=> \E n \in DOMAIN modules[f] : root \in Roots(modules[f][n])
  BY DEF RootsOf, ItemsOf, Range
<1> HIDE DEF ctx
<1>4. \A x : x \in LintModule(modules[f], modules) <=> \E root \in RootsOf(f) : x \in LintTree(root, ctx)
  BY <1>2, <1>3
<1>5. ASSUME NEW root \in RootsOf(f)
      PROVE  \A x : x \in LintTree(root, ctx)
                     <=> \E u \in Tree(root) : Entered(u, Tree(root)) /\ x \in FoundAt(u, Tree(root))
  <2>1. f \in DOMAIN modules
    BY AllAreParsed
  <2>2. IsTree(root)
    BY <2>1 DEF RootsOf, TreesAreBuilt, IsBuilt
  <2> QED
    BY <2>2, LintTreeIs DEF ctx
<1>6. ASSUME NEW at, at \in Reported("lint", rule, f)
      PROVE  \E root \in RootsOf(f) : \E u \in Tree(root) :
               Entered(u, Tree(root)) /\ IsFound(at, rule, u, Tree(root))
  <2>1. PICK x \in LintModule(modules[f], modules) : x.rule = rule /\ x.at = at
    BY <1>1, <1>6
  <2>2. PICK root \in RootsOf(f) : x \in LintTree(root, ctx)
    BY <1>4
  <2>3. PICK u \in Tree(root) : Entered(u, Tree(root)) /\ x \in FoundAt(u, Tree(root))
    BY <1>5, <2>2
  <2> QED
    BY <2>1, <2>3 DEF IsFound
<1>7. ASSUME NEW at, NEW root \in RootsOf(f), NEW u \in Tree(root),
             Entered(u, Tree(root)), IsFound(at, rule, u, Tree(root))
      PROVE  at \in Reported("lint", rule, f)
  <2>1. PICK x \in FoundAt(u, Tree(root)) : x.rule = rule /\ x.at = at
    BY <1>7 DEF IsFound
  <2>2. x \in LintModule(modules[f], modules)
    BY <1>4, <1>5, <1>7
  <2> QED
    BY <1>1, <2>1, <2>2
<1> QED
  BY <1>6, <1>7

-----------------------------------------------------------------------------
(* The calls.                                                               *)

\* The call c has arguments that do not fit the function of its name.
UnfitCall(c, fs) == Unfit(Callee(c), Len(c.node[4]), fs)

LEMMA ArityIs ==
  ASSUME NEW c, NEW scope, NEW ctx
  PROVE  \A x : x \in Arity(c, scope, ctx)
                 <=> /\ c.node[3][1] = "id"
                     /\ \A d \in scope : NameOf(d) # Callee(c)
                     /\ UnfitCall(c, ctx.functions)
                     /\ x = [rule |-> "arity-mismatch", at |-> c.node[2]]
<1> DEFINE callee == c.node[3]
           args == Len(c.node[4])
           sig == ctx.functions[callee[3]]
           Wrong == /\ callee[1] = "id"
                    /\ callee[3] \in DOMAIN ctx.functions \ {NameOf(d) : d \in scope}
                    /\ IF sig.variadic THEN args < sig.numParams ELSE args # sig.numParams
<1>1. Arity(c, scope, ctx) = IF Wrong THEN {[rule |-> "arity-mismatch", at |-> c.node[2]]} ELSE {}
  BY DEF Arity, Warn
<1>2. callee[3] \in {NameOf(d) : d \in scope} <=> \E d \in scope : NameOf(d) = callee[3]
  BY Zenon
<1>3. Wrong <=> /\ callee[1] = "id"
                /\ \A d \in scope : NameOf(d) # callee[3]
                /\ UnfitCall(c, ctx.functions)
  BY <1>2 DEF UnfitCall, Unfit, Callee
<1> HIDE DEF Wrong
<1> QED
  BY <1>1, <1>3 DEF Callee

LEMMA CallsOf ==
  ASSUME HolyccInv, TreesAreBuilt, phase = "report", NEW f \in DOMAIN files
  PROVE  Reported("lint", "arity-mismatch", f) = UNION {Miscalls(item) : item \in ItemsOf(f)}
<1> DEFINE fs == TypeContext(modules).functions
           Bad(c) == \E fn \in Range(FlattenSeq(modules)) :
                       IsLast(fn, Callee(c)) /\ ~FitsCall(fn, Len(c.node[4]))
           At(c) == [rule |-> "arity-mismatch", at |-> c.node[2]]
<1>1. \A at : at \in Reported("lint", "arity-mismatch", f)
               <=> \E root \in RootsOf(f) : \E c \in Tree(root) :
                     Entered(c, Tree(root)) /\ IsFound(at, "arity-mismatch", c, Tree(root))
  BY LintFinds
<1>2. \A c : UnfitCall(c, fs) <=> Bad(c)
  <2>1. PICK S : modules \in Seq(Seq(S))
    BY DEF HolyccInv, ModulesInv
  <2> QED
    BY <2>1, UnfitIs DEF UnfitCall
<1>3. ASSUME NEW root, NEW c \in Tree(root), NEW at
      PROVE  (Entered(c, Tree(root)) /\ IsFound(at, "arity-mismatch", c, Tree(root)))
               <=> c \in OpenCalls(Tree(root)) /\ Bad(c) /\ at = c.node[2]
  <2> DEFINE T == Tree(root)
  <2>1. \A x : x \in FoundAt(c, T) /\ x.rule = "arity-mismatch"
                <=> c.node[1] = "call" /\ x \in Arity(c, ScopeAt(c, T), TypeContext(modules))
    BY LintNodeIs DEF FoundAt
  <2>2. \A x : x \in Arity(c, ScopeAt(c, T), TypeContext(modules))
                <=> /\ c.node[3][1] = "id"
                    /\ \A d \in ScopeAt(c, T) : NameOf(d) # Callee(c)
                    /\ UnfitCall(c, fs)
                    /\ x = At(c)
    BY ArityIs
  <2>3. At(c).rule = "arity-mismatch" /\ At(c).at = c.node[2]
    OBVIOUS
  <2>4. c \in OpenCalls(T)
          <=> /\ c.node[1] = "call" /\ c.node[3][1] = "id" /\ Entered(c, T)
              /\ \A d \in ScopeAt(c, T) : NameOf(d) # Callee(c)
    <3>1. (\A d \in ScopeAt(c, T) : NameOf(d) # Callee(c))
            <=> \A d \in Decls(T) : Reaches(d, c, T) => NameOf(d) # Callee(c)
      BY DEF ScopeAt
    <3> HIDE DEF T
    <3> QED
      BY <3>1 DEF OpenCalls, NamedCalls, T
  <2> HIDE DEF T, At, Bad
  <2>5. IsFound(at, "arity-mismatch", c, T)
          <=> /\ c.node[1] = "call" /\ c.node[3][1] = "id"
              /\ \A d \in ScopeAt(c, T) : NameOf(d) # Callee(c)
              /\ Bad(c) /\ at = c.node[2]
    BY <1>2, <2>1, <2>2, <2>3 DEF IsFound
  <2> QED
    BY <2>4, <2>5 DEF T
<1>4. ASSUME NEW item
      PROVE  \A at : at \in Miscalls(item)
                      <=> \E root \in Roots(item) : \E c \in OpenCalls(Tree(root)) : Bad(c) /\ at = c.node[2]
  <2> DEFINE Cs == UNION {OpenCalls(Tree(root)) : root \in Roots(item)}
  <2>1. Miscalls(item) = {c.node[2] : c \in {x \in Cs : Bad(x)}}
    BY DEF Miscalls
  <2>2. \A c : c \in Cs <=> \E root \in Roots(item) : c \in OpenCalls(Tree(root))
    OBVIOUS
  <2> HIDE DEF Cs, Bad
  <2> QED
    BY <2>1, <2>2
<1>5. \A root : \A c \in OpenCalls(Tree(root)) : c \in Tree(root)
  BY DEF OpenCalls, NamedCalls
<1> HIDE DEF Bad
<1>6. ASSUME NEW at, at \in Reported("lint", "arity-mismatch", f)
      PROVE  \E item \in ItemsOf(f) : at \in Miscalls(item)
  <2>1. PICK root \in RootsOf(f) : \E c \in Tree(root) :
          Entered(c, Tree(root)) /\ IsFound(at, "arity-mismatch", c, Tree(root))
    BY <1>1, <1>6
  <2>2. \E c \in OpenCalls(Tree(root)) : Bad(c) /\ at = c.node[2]
    BY <1>3, <2>1
  <2>3. PICK item \in ItemsOf(f) : root \in Roots(item)
    BY DEF RootsOf
  <2> QED
    BY <1>4, <2>2, <2>3
<1>7. ASSUME NEW item \in ItemsOf(f), NEW at \in Miscalls(item)
      PROVE  at \in Reported("lint", "arity-mismatch", f)
  <2>1. PICK root \in Roots(item) : \E c \in OpenCalls(Tree(root)) : Bad(c) /\ at = c.node[2]
    BY <1>4
  <2>2. PICK c \in OpenCalls(Tree(root)) : Bad(c) /\ at = c.node[2]
    BY <2>1
  <2>3. root \in RootsOf(f)
    BY DEF RootsOf
  <2>4. Entered(c, Tree(root)) /\ IsFound(at, "arity-mismatch", c, Tree(root))
    BY <1>3, <1>5, <2>2
  <2> QED
    BY <1>1, <1>5, <2>2, <2>3, <2>4
<1> QED
  BY <1>6, <1>7

\* A run reports the calls that do not fit the function they call and that no
\* default makes up for, and none that fits (lint/mod.rs:449-499), when the parser
\* made trees of the files.
THEOREM CallsAreChecked == Spec => [](TreesAreBuilt => CallsAreCounted)
<1>1. HolyccInv => (TreesAreBuilt => CallsAreCounted)
  <2> SUFFICES ASSUME HolyccInv, TreesAreBuilt, phase = "report" PROVE CallsAreCounted
    BY DEF CallsAreCounted
  <2>1. \A f \in DOMAIN files :
          Reported("lint", "arity-mismatch", f) = UNION {Miscalls(item) : item \in ItemsOf(f)}
    BY CallsOf
  <2> QED
    BY <2>1, Zenon DEF CallsAreCounted
<1> QED
  BY <1>1, HolyccIsSound, PTL

-----------------------------------------------------------------------------
(***************************************************************************)
(* The linter's types.                                                     *)
(***************************************************************************)
\* A set of naturals up to a bound has a greatest element.
LEMMA Greatest ==
  ASSUME NEW N \in Nat, NEW T, T \subseteq 0 .. N, T # {}
  PROVE  \E x \in T : \A y \in T : y <= x
<1> DEFINE Up == {N - x : x \in T}
<1>1. Up \subseteq Nat /\ Up # {}
  <2>1. ASSUME NEW x \in T PROVE N - x \in Nat
    <3>1. x \in 0 .. N
      OBVIOUS
    <3> QED
      BY <3>1
  <2> QED
    BY <2>1
<1>2. PICK u \in Up : \A v \in Up : u <= v
  BY <1>1, Least
<1>3. PICK x \in T : u = N - x
  OBVIOUS
<1>4. ASSUME NEW y \in T PROVE y <= x
  <2>1. u <= N - y
    BY <1>2
  <2> QED
    BY <1>3, <2>1
<1> QED
  BY <1>4

\* Of some nodes of a tree, one has none of them after it.
LEMMA LastExists ==
  ASSUME NEW root, IsTree(root), NEW S, S \subseteq Tree(root), S # {}
  PROVE  \E m \in S : \A e \in S : ~Before(m, e)
<1> DEFINE T == Tree(root)
           Ends(m, U) == m \in U /\ \A e \in U : ~Before(m, e)
           In(U, t) == U \subseteq T /\ U # {} /\ \A e \in U : Within(e, t)
           P == {t \in T : \A U : In(U, t) => \E m : Ends(m, U)}
<1>1. ASSUME NEW t \in T, \A n \in DOMAIN Parts(t.node) : Part(t, n) \in P PROVE t \in P
  <2>1. SUFFICES ASSUME NEW U, In(U, t) PROVE \E m : Ends(m, U)
    OBVIOUS
  <2> DEFINE N == Len(Parts(t.node))
             Held == {n \in 1 .. N : \E e \in U : Within(e, Part(t, n))}
  <2>2. N \in Nat /\ DOMAIN Parts(t.node) = 1 .. N
    BY DEF IsTree
  <2>3. ASSUME NEW e \in U, e # t PROVE \E n \in 1 .. N : Within(e, Part(t, n))
    BY <2>1, <2>2, <2>3, WithinCases
  <2>4. CASE Held = {}
    <3>1. \A e \in U : e = t
      BY <2>3, <2>4
    <3>2. ~Before(t, t)
      BY WithinSelf, BeforeInside
    <3>3. Ends(t, U)
      BY <2>1, <3>1, <3>2
    <3> QED
      BY <3>3
  <2>5. CASE Held # {}
    <3>1. Held \subseteq 0 .. N
      BY <2>2
    <3>2. PICK n \in Held : \A l \in Held : l <= n
      BY <2>2, <2>5, <3>1, Greatest
    <3> DEFINE V == {e \in U : Within(e, Part(t, n))}
    <3>3. n \in DOMAIN Parts(t.node) /\ Part(t, n) \in P
      BY <1>1, <2>2
    <3>4. In(V, Part(t, n))
      BY <2>1
    <3>5. PICK m : Ends(m, V)
      BY <3>3, <3>4
    <3>6. m \in U /\ m \in T /\ Within(m, Part(t, n))
      BY <2>1, <3>5
    <3>7. ASSUME NEW e \in U PROVE ~Before(m, e)
      <4>1. e \in T
        BY <2>1
      <4>2. CASE e = t
        <5>1. Within(m, t)
          BY <3>3, <3>6, WithinPart
        <5> QED
          BY <3>6, <4>2, <5>1, BeforeInside
      <4>3. CASE e \in V
        BY <3>5, <4>3
      <4>4. CASE e # t /\ e \notin V
        <5>1. PICK l \in 1 .. N : Within(e, Part(t, l))
          BY <2>3, <4>4
        <5>2. l \in Held /\ l # n
          BY <4>4, <5>1
        <5>3. ~(n <= l)
          BY <2>2, <3>2, <5>2
        <5> QED
          BY <2>2, <3>3, <3>6, <4>1, <5>1, <5>3, BeforeParts
      <4> QED
        BY <4>2, <4>3, <4>4
    <3>8. Ends(m, U)
      BY <3>6, <3>7
    <3> QED
      BY <3>8
  <2> QED
    BY <2>4, <2>5
<1>2. T \subseteq P
  <2> HIDE DEF P
  <2> QED
    BY <1>1, TreeUp
<1>3. Root(root) \in T
  BY RootInTree
<1>4. ASSUME NEW e \in T PROVE Within(e, Root(root))
  <2>1. Len(Root(root).place) = 0 /\ Len(e.place) \in Nat
    BY EmptySeq, TreePlaces DEF Root
  <2> QED
    BY <2>1 DEF Within
<1>5. In(S, Root(root))
  BY <1>4
<1>6. \E m : Ends(m, S)
  <2> HIDE DEF In, Ends, T
  <2> QED
    BY <1>2, <1>3, <1>5
<1> QED
  BY <1>6

\* Two nodes stand one before the other, or one inside the other.
LEMMA BeforeTotal ==
  ASSUME NEW root, IsTree(root), NEW s \in Tree(root), NEW t \in Tree(root)
  PROVE  Before(s, t) \/ Before(t, s) \/ Within(s, t) \/ Within(t, s)
<1> DEFINE Apart == {n \in Nat : /\ n \in DOMAIN s.place /\ n \in DOMAIN t.place
                                 /\ s.place[n] # t.place[n]}
<1>1. /\ DOMAIN s.place = 1 .. Len(s.place) /\ Len(s.place) \in Nat
      /\ DOMAIN t.place = 1 .. Len(t.place) /\ Len(t.place) \in Nat
      /\ \A i \in DOMAIN s.place : s.place[i] \in Nat
      /\ \A i \in DOMAIN t.place : t.place[i] \in Nat
  BY TreePlaces
<1>2. CASE Apart = {}
  <2>1. \A n \in DOMAIN s.place \cap DOMAIN t.place : s.place[n] = t.place[n]
    BY <1>1, <1>2
  <2>2. CASE Len(s.place) <= Len(t.place)
    BY <1>1, <2>1, <2>2 DEF Within
  <2>3. CASE Len(t.place) <= Len(s.place)
    BY <1>1, <2>1, <2>3 DEF Within
  <2> QED
    BY <1>1, <2>2, <2>3
<1>3. CASE Apart # {}
  <2>1. PICK n \in Apart : \A m \in Apart : n <= m
    BY <1>3, Least
  <2>2. n \in DOMAIN s.place \cap DOMAIN t.place /\ n \in Nat
    OBVIOUS
  <2>3. ASSUME NEW m \in 1 .. n - 1 PROVE s.place[m] = t.place[m] /\ t.place[m] = s.place[m]
    <3>1. m \in Nat /\ m \in DOMAIN s.place /\ m \in DOMAIN t.place /\ ~(n <= m)
      BY <1>1, <2>2
    <3> QED
      BY <2>1, <3>1
  <2>4. s.place[n] < t.place[n] \/ t.place[n] < s.place[n]
    BY <1>1, <2>1
  <2> QED
    BY <2>2, <2>3, <2>4 DEF Before
<1> QED
  BY <1>2, <1>3

\* Of declarations of a tree that are not inside one another, one is the last, and
\* it is the one that has none after it.
LastOf(S)   == CHOOSE d \in S : \A e \in S : ~Before(d, e)
LatestOf(S) == {d \in S : \A e \in S \ {d} : Before(e, d)}

LEMMA LastDecl ==
  ASSUME NEW root, IsTree(root), DeclaresApart(Tree(root)),
         NEW S, S \subseteq Decls(Tree(root)), S # {}
  PROVE  LatestOf(S) = {LastOf(S)}
<1> DEFINE m == LastOf(S)
<1>1. S \subseteq Tree(root)
  BY DEF Decls
<1>2. m \in S /\ \A e \in S : ~Before(m, e)
  <2>1. \E d \in S : \A e \in S : ~Before(d, e)
    BY <1>1, LastExists
  <2> QED
    BY <2>1 DEF LastOf
<1> HIDE DEF m
<1>3. ASSUME NEW e \in S \ {m} PROVE Before(e, m)
  <2>1. ~Within(e, m) /\ ~Within(m, e)
    BY <1>2 DEF DeclaresApart
  <2> QED
    BY <1>1, <1>2, <2>1, BeforeTotal
<1>4. ASSUME NEW d \in S, d # m PROVE ~(\A e \in S \ {d} : Before(e, d))
  BY <1>2, <1>4
<1>5. LatestOf(S) = {m}
  BY <1>2, <1>3, <1>4 DEF LatestOf
<1> QED
  BY <1>5 DEF m

\* What a table of n entries registers has n for its length.
LEMMA TableLen ==
  ASSUME NEW N \in Nat, NEW f, f = [n \in 1 .. N |-> f[n]]
  PROVE  Len(f) = N
<1> DEFINE T == {f[n] : n \in 1 .. N}
<1>1. f \in [1 .. N -> T]
  OBVIOUS
<1>2. f \in Seq(T)
  BY <1>1, SeqDef
<1>3. Len(f) \in Nat /\ DOMAIN f = 1 .. Len(f)
  BY <1>2, LenProperties
<1>4. DOMAIN f = 1 .. N
  BY <1>1
<1> HIDE DEF T
<1> QED
  BY <1>3, <1>4, SameLength

\* Of a list of variables, the last of a name has the type.
LEMMA VarTypesAre ==
  ASSUME NEW item, IsBuilt(item), item[1] = "var", NEW name
  PROVE  IF name \in DOMAIN ItemTypes(item) THEN TypesIn(item, name) = {ItemTypes(item)[name]}
         ELSE TypesIn(item, name) = {}
<1> DEFINE vs == item[2]
           N == Len(vs)
           tables == [n \in DOMAIN vs |-> Gives(vs[n].name, vs[n].ty)]
           named == {n \in DOMAIN vs : vs[n].name = name}
           Ends(n) == LastTable(n, name, tables, N)
<1>1. N \in Nat /\ DOMAIN vs = 1 .. N
  BY DEF IsBuilt
<1>2. ItemTypes(item) = Registered(tables)
  BY DEF ItemTypes
<1>3. TypesIn(item, name) = {vs[n].ty : n \in {m \in named : \A l \in named : ~(l > m)}}
  BY DEF TypesIn
<1>4. ASSUME NEW n \in 1 .. N
      PROVE  /\ name \in DOMAIN tables[n] <=> vs[n].name = name
             /\ name \in DOMAIN tables[n] => tables[n][name] = vs[n].ty
  <2>1. tables[n] = Gives(vs[n].name, vs[n].ty)
    BY <1>1
  <2> HIDE DEF tables, vs
  <2> QED
    BY <2>1 DEF Gives
<1>5. Len(tables) = N
  <2>1. tables = [n \in 1 .. N |-> tables[n]]
    BY <1>1
  <2> HIDE DEF tables, N
  <2> QED
    BY <1>1, <2>1, TableLen
<1> HIDE DEF tables, vs, N
<1>6. /\ name \in DOMAIN Registered(tables) <=> \E n \in 1 .. N : Ends(n)
      /\ \A n \in 1 .. N : Ends(n) => Registered(tables)[name] = tables[n][name]
  BY <1>1, <1>5, RegisteredIs
<1>7. \A n : n \in 1 .. N /\ Ends(n) <=> n \in named /\ \A l \in named : ~(l > n)
  BY <1>1, <1>4 DEF LastTable
<1>8. \A n \in 1 .. N : Ends(n) => Registered(tables)[name] = vs[n].ty
  BY <1>4, <1>6 DEF LastTable
<1>9. CASE name \in DOMAIN Registered(tables)
  <2>1. PICK n \in 1 .. N : Ends(n)
    BY <1>6, <1>9
  <2>2. \A m \in 1 .. N : Ends(m) => m = n
    BY <1>1, <2>1 DEF LastTable
  <2> HIDE DEF Ends, named
  <2>3. {m \in named : \A l \in named : ~(l > m)} = {n}
    BY <1>7, <2>1, <2>2
  <2>4. TypesIn(item, name) = {vs[n].ty}
    BY <1>3, <2>3 DEF vs
  <2> QED
    BY <1>2, <1>8, <1>9, <2>1, <2>4
<1>10. CASE name \notin DOMAIN Registered(tables)
  <2> HIDE DEF Ends, named
  <2>1. {m \in named : \A l \in named : ~(l > m)} = {}
    BY <1>6, <1>7, <1>10
  <2>2. TypesIn(item, name) = {}
    BY <1>3, <2>1
  <2> QED
    BY <1>2, <1>10, <2>2
<1> QED
  BY <1>9, <1>10

\* The table of an item has the types that TypesIn tells.
LEMMA ItemTypesAre ==
  ASSUME NEW item, IsBuilt(item), NEW name
  PROVE  IF name \in DOMAIN ItemTypes(item) THEN TypesIn(item, name) = {ItemTypes(item)[name]}
         ELSE TypesIn(item, name) = {}
<1>1. CASE item[1] = "var"
  BY <1>1, VarTypesAre
<1>2. CASE item[1] = "fn"
  <2>1. ItemTypes(item) = Gives(item[2].name, item[2].ret)
    BY <1>2 DEF ItemTypes
  <2>2. TypesIn(item, name) = IF item[2].name = name THEN {item[2].ret} ELSE {}
    BY <1>2 DEF TypesIn
  <2> QED
    BY <2>1, <2>2 DEF Gives
<1>3. CASE item[1] = "pp"
  <2>1. ItemTypes(item) = IF item[2] = "define" /\ DefinesInt(item[4])
                          THEN Gives(item[3], <<"ty", "I64", 0>>) ELSE NoNames
    BY <1>3 DEF ItemTypes
  <2>2. TypesIn(item, name) = IF item[2] = "define" /\ item[3] = name /\ DefinesInt(item[4])
                              THEN {<<"ty", "I64", 0>>} ELSE {}
    BY <1>3 DEF TypesIn
  <2> QED
    BY <2>1, <2>2 DEF Gives, NoNames
<1>4. CASE item[1] \notin {"var", "fn", "pp"}
  <2>1. ItemTypes(item) = NoNames /\ TypesIn(item, name) = {}
    BY <1>4 DEF ItemTypes, TypesIn
  <2> QED
    BY <2>1 DEF NoNames
<1> QED
  BY <1>1, <1>2, <1>3, <1>4

\* The linter's table has the types that GlobalTypes tells.
LEMMA TypesAre ==
  ASSUME NEW S, modules \in Seq(Seq(S)), \A item \in S : IsBuilt(item), NEW name
  PROVE  IF name \in DOMAIN TypeContext(modules).types
         THEN GlobalTypes(name) = {TypeContext(modules).types[name]}
         ELSE GlobalTypes(name) = {}
<1> DEFINE all == FlattenSeq(modules)
           N == Len(all)
           tables == [n \in DOMAIN all |-> ItemTypes(all[n])]
           types == TypeContext(modules).types
           Late == {i \in DOMAIN all : \A m \in DOMAIN all : m > i => TypesIn(all[m], name) = {}}
           Ends(n) == LastTable(n, name, tables, N)
<1>1. all \in Seq(S)
  BY FlattenIsSeq
<1>2. N \in Nat /\ DOMAIN all = 1 .. N /\ \A n \in 1 .. N : IsBuilt(all[n])
  BY <1>1, LenProperties, ElementOfSeq
<1>3. types = Registered(tables)
  BY DEF TypeContext
<1>4. GlobalTypes(name) = UNION {TypesIn(all[n], name) : n \in Late}
  BY DEF GlobalTypes
<1> HIDE DEF all, types
<1>5. Len(tables) = N
  <2>1. tables = [n \in 1 .. N |-> tables[n]]
    BY <1>2
  <2> HIDE DEF tables, N
  <2> QED
    BY <1>2, <2>1, TableLen
<1>6. \A n \in 1 .. N : tables[n] = ItemTypes(all[n])
  BY <1>2
<1> HIDE DEF tables, N
<1>7. ASSUME NEW n \in 1 .. N
      PROVE  /\ name \in DOMAIN tables[n] => TypesIn(all[n], name) = {tables[n][name]}
             /\ name \notin DOMAIN tables[n] => TypesIn(all[n], name) = {}
  BY <1>2, <1>6, ItemTypesAre
<1>8. /\ name \in DOMAIN types <=> \E n \in 1 .. N : Ends(n)
      /\ \A n \in 1 .. N : Ends(n) => types[name] = tables[n][name]
  BY <1>2, <1>3, <1>5, RegisteredIs
<1>9. ASSUME NEW n \in 1 .. N
      PROVE  Ends(n) <=> n \in Late /\ TypesIn(all[n], name) # {}
  BY <1>2, <1>7 DEF LastTable
<1>10. Late \subseteq 1 .. N
  BY <1>2
<1>11. CASE name \in DOMAIN types
  <2>1. PICK n \in 1 .. N : Ends(n)
    BY <1>8, <1>11
  <2>2. \A m \in 1 .. N : Ends(m) => m = n
    BY <1>2, <2>1 DEF LastTable
  <2>3. n \in Late /\ TypesIn(all[n], name) = {types[name]}
    BY <1>7, <1>8, <1>9, <2>1
  <2> HIDE DEF Ends, Late
  <2>4. \A m \in Late : m = n \/ TypesIn(all[m], name) = {}
    BY <1>9, <1>10, <2>2
  <2>5. \A x : x \in GlobalTypes(name) <=> \E m \in Late : x \in TypesIn(all[m], name)
    BY <1>4
  <2>6. \A x : x \in GlobalTypes(name) <=> x = types[name]
    BY <2>3, <2>4, <2>5
  <2>7. GlobalTypes(name) = {types[name]}
    BY <2>6
  <2> QED
    BY <1>11, <2>7 DEF types
<1>12. CASE name \notin DOMAIN types
  <2> HIDE DEF Ends, Late
  <2>1. \A m \in Late : TypesIn(all[m], name) = {}
    BY <1>8, <1>9, <1>10, <1>12
  <2>2. GlobalTypes(name) = {}
    BY <1>4, <2>1
  <2> QED
    BY <1>12, <2>2 DEF types
<1> QED
  BY <1>11, <1>12

\* A global without a type has none for the linter either.
IsTyped(types, ty) == types = {ty} \/ (types = {} /\ ty = None)

\* The type the walk gives a name at a node is the one TypesAt tells.
LEMMA TypesAtAre ==
  ASSUME NEW S, modules \in Seq(Seq(S)), \A item \in S : IsBuilt(item),
         NEW root, IsTree(root), DeclaresApart(Tree(root)), NEW t \in Tree(root), NEW name
  PROVE  IsTyped(TypesAt(t, name, Tree(root)),
                 DeclaredType(name, {d \in Decls(Tree(root)) : Reaches(d, t, Tree(root))},
                              TypeContext(modules)))
<1> DEFINE T == Tree(root)
           ctx == TypeContext(modules)
           scope == {d \in Decls(T) : Reaches(d, t, T)}
           local == {d \in scope : NameOf(d) = name}
           late == LatestOf(local)
           m == LastOf(local)
           types == TypesAt(t, name, T)
           ty == DeclaredType(name, scope, ctx)
<1>1. {d \in Decls(T) : NameOf(d) = name /\ Reaches(d, t, T)} = local
  OBVIOUS
<1>2. types = IF local = {} THEN GlobalTypes(name) ELSE {d.node[2].ty : d \in late}
  BY <1>1 DEF TypesAt, LatestOf
<1>3. /\ local # {} => ty = m.node[2].ty
      /\ local = {} /\ name \in DOMAIN ctx.types => ty = ctx.types[name]
      /\ local = {} /\ name \notin DOMAIN ctx.types => ty = None
  BY DEF DeclaredType, LastOf
<1>4. CASE local # {}
  <2>1. local \subseteq Decls(T)
    OBVIOUS
  <2>2. late = {m}
    <3> HIDE DEF local
    <3> QED
      BY <1>4, <2>1, LastDecl
  <2> HIDE DEF late, m, local, types, ty
  <2>3. types = {ty}
    BY <1>2, <1>3, <1>4, <2>2
  <2> QED
    BY <2>3 DEF IsTyped, types, ty, scope, ctx, T
<1>5. CASE local = {}
  <2>1. IF name \in DOMAIN ctx.types THEN GlobalTypes(name) = {ctx.types[name]} ELSE GlobalTypes(name) = {}
    BY TypesAre
  <2> HIDE DEF local, types, ty, ctx
  <2>2. IsTyped(types, ty)
    BY <1>2, <1>3, <1>5, <2>1 DEF IsTyped
  <2> QED
    BY <2>2 DEF types, ty, scope, ctx, T
<1> QED
  BY <1>4, <1>5

\* A name by itself is a float, or looks like an integer, when its type is.
LEMMA NameLooks ==
  ASSUME NEW s, s.node[1] = "id", NEW scope, NEW tree, NEW ctx
  PROVE  /\ KnownFloat(s, scope, tree, ctx) <=> IsFloatType(DeclaredType(s.node[3], scope, ctx))
         /\ LooksInteger(s, scope, tree, ctx) <=> IsIntegerType(DeclaredType(s.node[3], scope, ctx))
<1>1. s \notin Parens(tree) /\ s \notin Signs(tree)
  BY DEF Parens, Signs
<1>2. Bare(s, Parens(tree) \cup Signs(tree), tree) = {s} /\ Bare(s, Parens(tree), tree) = {s}
  BY <1>1 DEF Bare
<1>3. NamedType(s.node, scope, ctx) = DeclaredType(s.node[3], scope, ctx)
  BY DEF NamedType
<1>4. KnownFloat(s, scope, tree, ctx) <=> IsFloatType(DeclaredType(s.node[3], scope, ctx))
  BY <1>2, <1>3 DEF KnownFloat
<1>5. LooksInteger(s, scope, tree, ctx) <=> IsIntegerType(DeclaredType(s.node[3], scope, ctx))
  BY <1>2, <1>3 DEF LooksInteger
<1> QED
  BY <1>4, <1>5

\* The parts of a binary operation are its operands.
LEMMA Operands ==
  ASSUME NEW t, t.node[1] = "bin"
  PROVE  Part(t, 1).node = t.node[4] /\ Part(t, 2).node = t.node[5]
<1> DEFINE a == t.node[4]
           b == t.node[5]
<1>1. Sub(t.node) = <<a, b>> /\ Inner(t.node) = <<>>
  BY DEF Sub, Inner
<1>2. Parts(t.node) = Sub(t.node) \o Inner(t.node)
  BY DEF Parts
<1>3. <<a, b>> \in Seq({a, b})
  OBVIOUS
<1>4. <<a, b>> \o <<>> = <<a, b>>
  BY <1>3, ConcatEmptySeq
<1>5. Parts(t.node) = <<a, b>>
  BY <1>1, <1>2, <1>4
<1> QED
  BY <1>5 DEF Part

\* The rule finds something at a node of a tree.
Masked(t, tree) == F64Bitwise(t, ScopeAt(t, tree), tree, TypeContext(modules)) # {}

LEMMA MaskedIs ==
  ASSUME NEW S, modules \in Seq(Seq(S)), \A item \in S : IsBuilt(item),
         NEW root, IsTree(root), DeclaresApart(Tree(root)),
         NEW t \in Tree(root), t.node[1] = "bin", OnNames(t)
  PROVE  Masked(t, Tree(root)) <=> MasksFloat(t, Tree(root))
<1> DEFINE T == Tree(root)
           ctx == TypeContext(modules)
           scope == ScopeAt(t, T)
           l == Part(t, 1)
           r == Part(t, 2)
           Ty(name) == DeclaredType(name, scope, ctx)
           Types(name) == TypesAt(t, name, T)
           x == t.node[4][3]
           y == t.node[5][3]
<1>1. l.node = t.node[4] /\ r.node = t.node[5]
  BY Operands
<1>2. /\ KnownFloat(l, scope, T, ctx) <=> IsFloatType(Ty(x))
      /\ LooksInteger(l, scope, T, ctx) <=> IsIntegerType(Ty(x))
      /\ KnownFloat(r, scope, T, ctx) <=> IsFloatType(Ty(y))
      /\ LooksInteger(r, scope, T, ctx) <=> IsIntegerType(Ty(y))
  BY <1>1, NameLooks DEF OnNames
<1>3. Masked(t, T) <=> \/ \E s \in {l, r} : KnownFloat(s, scope, T, ctx)
                       \/ \A s \in {l, r} : ~LooksInteger(s, scope, T, ctx)
  BY DEF Masked, F64Bitwise, Warn
<1>4. IsTyped(Types(x), Ty(x)) /\ IsTyped(Types(y), Ty(y))
  BY TypesAtAre DEF ScopeAt
<1>5. MasksFloat(t, T) <=> \/ \E ty \in Types(x) \cup Types(y) : IsFloatType(ty)
                           \/ \A ty \in Types(x) \cup Types(y) : ~IsIntegerType(ty)
  BY DEF MasksFloat
<1>6. ~IsFloatType(None) /\ ~IsIntegerType(None)
  <2>1. None # <<"ty", "F64", 0>>
    BY DEF None
  <2> QED
    BY <2>1 DEF IsFloatType, IsIntegerType
<1> HIDE DEF T, ctx, scope, l, r, Ty, Types, x, y
<1>7. Masked(t, T) <=> \/ IsFloatType(Ty(x)) \/ IsFloatType(Ty(y))
                       \/ ~IsIntegerType(Ty(x)) /\ ~IsIntegerType(Ty(y))
  BY <1>2, <1>3
<1>8. MasksFloat(t, T) <=> \/ IsFloatType(Ty(x)) \/ IsFloatType(Ty(y))
                           \/ ~IsIntegerType(Ty(x)) /\ ~IsIntegerType(Ty(y))
  BY <1>4, <1>5, <1>6 DEF IsTyped
<1> QED
  BY <1>7, <1>8 DEF T

\* The modules hold nothing but items that are built.
LEMMA AllAreBuilt ==
  ASSUME HolyccInv, TreesAreBuilt
  PROVE  \E S : modules \in Seq(Seq(S)) /\ \A item \in S : IsBuilt(item)
<1>1. PICK S : modules \in Seq(Seq(S))
  BY DEF HolyccInv, ModulesInv
<1> DEFINE B == {item \in S : IsBuilt(item)}
<1>2. ASSUME NEW f \in 1 .. Len(modules) PROVE modules[f] \in Seq(B)
  <2>1. modules[f] \in Seq(S) /\ DOMAIN modules[f] = 1 .. Len(modules[f])
    BY <1>1, ElementOfSeq, LenProperties
  <2>2. ASSUME NEW n \in 1 .. Len(modules[f]) PROVE modules[f][n] \in B
    <3>1. modules[f][n] \in ItemsOf(f)
      BY <2>1 DEF ItemsOf, Range
    <3>2. f \in DOMAIN modules
      BY <1>1
    <3>3. modules[f][n] \in S
      BY <2>1, ElementOfSeq
    <3> QED
      BY <3>1, <3>2, <3>3 DEF TreesAreBuilt
  <2> HIDE DEF B
  <2> QED
    BY <2>1, <2>2
<1>3. modules \in Seq(Seq(B))
  <2> HIDE DEF B
  <2> QED
    BY <1>1, <1>2
<1> QED
  BY <1>3

LEMMA FloatsOf ==
  ASSUME HolyccInv, TreesAreBuilt, phase = "report", NEW f \in DOMAIN files, NEW x \in BitOpsOf(f),
         OnNames(x.op), \A y \in BitOpsOf(f) : y.op.node[2] = x.op.node[2] => y = x
  PROVE  MasksFloat(x.op, Tree(x.root)) <=> x.op.node[2] \in Reported("lint", "f64-bitwise", f)
<1>1. \A at : at \in Reported("lint", "f64-bitwise", f)
               <=> \E root \in RootsOf(f) : \E t \in Tree(root) :
                     Entered(t, Tree(root)) /\ IsFound(at, "f64-bitwise", t, Tree(root))
  BY LintFinds
<1>2. ASSUME NEW root, NEW t \in Tree(root), NEW at
      PROVE  (Entered(t, Tree(root)) /\ IsFound(at, "f64-bitwise", t, Tree(root)))
               <=> t \in BitOps(Tree(root)) /\ Masked(t, Tree(root)) /\ at = t.node[2]
  <2> DEFINE T == Tree(root)
             At == [rule |-> "f64-bitwise", at |-> t.node[2]]
             Fs == F64Bitwise(t, ScopeAt(t, T), T, TypeContext(modules))
  <2>1. \A y : y \in FoundAt(t, T) /\ y.rule = "f64-bitwise"
                <=> t.node[1] = "bin" /\ t.node[3] \in {"&", "|", "^"} /\ y \in Fs
    BY LintNodeIs DEF FoundAt
  <2>2. \A y : y \in Fs <=> Masked(t, T) /\ y = At
    BY DEF F64Bitwise, Warn, Masked
  <2>3. At.rule = "f64-bitwise" /\ At.at = t.node[2]
    OBVIOUS
  <2>4. t \in BitOps(T) <=> t.node[1] = "bin" /\ t.node[3] \in {"&", "|", "^"} /\ Entered(t, T)
    BY DEF BitOps
  <2> HIDE DEF T, At, Fs
  <2>5. IsFound(at, "f64-bitwise", t, T)
          <=> t.node[1] = "bin" /\ t.node[3] \in {"&", "|", "^"} /\ Masked(t, T) /\ at = t.node[2]
    BY <2>1, <2>2, <2>3 DEF IsFound
  <2> QED
    BY <2>4, <2>5 DEF T
<1>3. \A y : y \in BitOpsOf(f)
              <=> \E root \in RootsOf(f) : \E t \in BitOps(Tree(root)) : y = [root |-> root, op |-> t]
  BY DEF BitOpsOf, RootsOf
<1>4. PICK root \in RootsOf(f) : \E t \in BitOps(Tree(root)) : x = [root |-> root, op |-> t]
  BY <1>3
<1>5. x.root = root /\ x.op \in BitOps(Tree(root))
  BY <1>4
<1>6. IsTree(root) /\ DeclaresApart(Tree(root))
  <2>1. f \in DOMAIN modules
    BY AllAreParsed
  <2> QED
    BY <2>1 DEF RootsOf, TreesAreBuilt, IsBuilt
<1>7. Masked(x.op, Tree(root)) <=> MasksFloat(x.op, Tree(root))
  <2>1. PICK S : modules \in Seq(Seq(S)) /\ \A i \in S : IsBuilt(i)
    BY AllAreBuilt
  <2>2. x.op \in Tree(root) /\ x.op.node[1] = "bin"
    BY <1>5 DEF BitOps
  <2> QED
    BY <1>6, <2>1, <2>2, MaskedIs
<1>8. ASSUME x.op.node[2] \in Reported("lint", "f64-bitwise", f) PROVE Masked(x.op, Tree(root))
  <2>1. PICK r \in RootsOf(f) : \E t \in Tree(r) :
          Entered(t, Tree(r)) /\ IsFound(x.op.node[2], "f64-bitwise", t, Tree(r))
    BY <1>1, <1>8
  <2>2. PICK t \in Tree(r) : Entered(t, Tree(r)) /\ IsFound(x.op.node[2], "f64-bitwise", t, Tree(r))
    BY <2>1
  <2>3. t \in BitOps(Tree(r)) /\ Masked(t, Tree(r)) /\ x.op.node[2] = t.node[2]
    BY <1>2, <2>2
  <2> DEFINE y == [root |-> r, op |-> t]
  <2>4. y \in BitOpsOf(f)
    BY <1>3, <2>3
  <2>5. y.root = r /\ y.op = t
    OBVIOUS
  <2> HIDE DEF y
  <2>6. y = x
    BY <2>3, <2>4, <2>5
  <2> QED
    BY <1>5, <2>3, <2>5, <2>6
<1>9. ASSUME Masked(x.op, Tree(root)) PROVE x.op.node[2] \in Reported("lint", "f64-bitwise", f)
  <2>1. x.op \in Tree(root)
    BY <1>5 DEF BitOps
  <2>2. Entered(x.op, Tree(root)) /\ IsFound(x.op.node[2], "f64-bitwise", x.op, Tree(root))
    BY <1>2, <1>5, <1>9, <2>1
  <2> QED
    BY <1>1, <2>1, <2>2
<1> QED
  BY <1>5, <1>7, <1>8, <1>9

\* Of a bit operation on two names a run reports those that a float, or no integer,
\* is in, whatever hides or outlives what (lint/mod.rs:192-217 and 363-440), when
\* the parser made trees of the files.
THEOREM FloatsAreTyped == Spec => [](TreesAreBuilt => FloatsAreNotMasked)
<1>1. HolyccInv => (TreesAreBuilt => FloatsAreNotMasked)
  BY FloatsOf DEF FloatsAreNotMasked
<1> QED
  BY <1>1, HolyccIsSound, PTL
-----------------------------------------------------------------------------
(***************************************************************************)
(* The linter's shared names.                                              *)
(***************************************************************************)
\* Of some nodes of a tree, one has none of them before it.
LEMMA FirstExists ==
  ASSUME NEW root, IsTree(root), NEW S, S \subseteq Tree(root), S # {}
  PROVE  \E m \in S : \A e \in S : ~Before(e, m)
<1> DEFINE T == Tree(root)
           Starts(m, U) == m \in U /\ \A e \in U : ~Before(e, m)
           In(U, t) == U \subseteq T /\ U # {} /\ \A e \in U : Within(e, t)
           P == {t \in T : \A U : In(U, t) => \E m : Starts(m, U)}
<1>1. ASSUME NEW t \in T, \A n \in DOMAIN Parts(t.node) : Part(t, n) \in P PROVE t \in P
  <2>1. SUFFICES ASSUME NEW U, In(U, t) PROVE \E m : Starts(m, U)
    OBVIOUS
  <2> DEFINE N == Len(Parts(t.node))
             Held == {n \in 1 .. N : \E e \in U : Within(e, Part(t, n))}
  <2>2. N \in Nat /\ DOMAIN Parts(t.node) = 1 .. N
    BY DEF IsTree
  <2>3. ASSUME NEW e \in U, e # t PROVE \E n \in 1 .. N : Within(e, Part(t, n))
    BY <2>1, <2>2, <2>3, WithinCases
  <2>4. CASE Held = {}
    <3>1. \A e \in U : e = t
      BY <2>3, <2>4
    <3>2. ~Before(t, t)
      BY WithinSelf, BeforeInside
    <3>3. Starts(t, U)
      BY <2>1, <3>1, <3>2
    <3> QED
      BY <3>3
  <2>5. CASE Held # {}
    <3>1. Held \subseteq Nat
      BY <2>2
    <3>2. PICK n \in Held : \A l \in Held : n <= l
      BY <2>5, <3>1, Least
    <3> DEFINE V == {e \in U : Within(e, Part(t, n))}
    <3>3. n \in DOMAIN Parts(t.node) /\ Part(t, n) \in P
      BY <1>1, <2>2
    <3>4. In(V, Part(t, n))
      BY <2>1
    <3>5. PICK m : Starts(m, V)
      BY <3>3, <3>4
    <3>6. m \in U /\ m \in T /\ Within(m, Part(t, n))
      BY <2>1, <3>5
    <3>7. ASSUME NEW e \in U PROVE ~Before(e, m)
      <4>1. e \in T
        BY <2>1
      <4>2. CASE e = t
        <5>1. Within(m, t)
          BY <3>3, <3>6, WithinPart
        <5> QED
          BY <3>6, <4>2, <5>1, BeforeInside
      <4>3. CASE e \in V
        BY <3>5, <4>3
      <4>4. CASE e # t /\ e \notin V
        <5>1. PICK l \in 1 .. N : Within(e, Part(t, l))
          BY <2>3, <4>4
        <5>2. l \in Held /\ l # n
          BY <4>4, <5>1
        <5>3. ~(l <= n)
          BY <2>2, <3>2, <5>2
        <5> QED
          BY <2>2, <3>3, <3>6, <4>1, <5>1, <5>3, BeforeParts
      <4> QED
        BY <4>2, <4>3, <4>4
    <3>8. Starts(m, U)
      BY <3>6, <3>7
    <3> QED
      BY <3>8
  <2> QED
    BY <2>4, <2>5
<1>2. T \subseteq P
  <2> HIDE DEF P
  <2> QED
    BY <1>1, TreeUp
<1>3. Root(root) \in T
  BY RootInTree
<1>4. ASSUME NEW e \in T PROVE Within(e, Root(root))
  <2>1. Len(Root(root).place) = 0 /\ Len(e.place) \in Nat
    BY EmptySeq, TreePlaces DEF Root
  <2> QED
    BY <2>1 DEF Within
<1>5. In(S, Root(root))
  BY <1>4
<1>6. \E m : Starts(m, S)
  <2> HIDE DEF In, Starts, T
  <2> QED
    BY <1>2, <1>3, <1>5
<1> QED
  BY <1>6

\* What is inside of two nodes stands as they do.
LEMMA BeforeFrom ==
  ASSUME NEW root, IsTree(root), NEW b \in Tree(root), NEW c \in Tree(root), Before(b, c),
         NEW r \in Tree(root), NEW s \in Tree(root), Within(r, b), Within(s, c)
  PROVE  Before(r, s)
<1>1. /\ DOMAIN b.place = 1 .. Len(b.place) /\ Len(b.place) \in Nat
      /\ DOMAIN c.place = 1 .. Len(c.place) /\ Len(c.place) \in Nat
      /\ DOMAIN r.place = 1 .. Len(r.place) /\ Len(r.place) \in Nat
      /\ DOMAIN s.place = 1 .. Len(s.place) /\ Len(s.place) \in Nat
  BY TreePlaces
<1>2. PICK n \in DOMAIN b.place \cap DOMAIN c.place :
        b.place[n] < c.place[n] /\ \A m \in 1 .. n - 1 : b.place[m] = c.place[m]
  BY DEF Before
<1>3. \A m \in DOMAIN b.place : m \in DOMAIN r.place /\ r.place[m] = b.place[m]
  BY <1>1 DEF Within
<1>4. \A m \in DOMAIN c.place : m \in DOMAIN s.place /\ s.place[m] = c.place[m]
  BY <1>1 DEF Within
<1>5. ASSUME NEW m \in 1 .. n - 1 PROVE r.place[m] = s.place[m]
  <2>1. m \in DOMAIN b.place /\ m \in DOMAIN c.place
    BY <1>1, <1>2
  <2> QED
    BY <1>2, <1>3, <1>4, <2>1
<1> QED
  BY <1>2, <1>3, <1>4, <1>5 DEF Before

\* No two nodes stand before one another.
LEMMA BeforeOnce ==
  ASSUME NEW root, IsTree(root), NEW r \in Tree(root), NEW s \in Tree(root), Before(r, s)
  PROVE  ~Before(s, r)
<1>1. SUFFICES ASSUME Before(s, r) PROVE FALSE
  OBVIOUS
<1>2. /\ DOMAIN r.place = 1 .. Len(r.place) /\ Len(r.place) \in Nat
      /\ DOMAIN s.place = 1 .. Len(s.place) /\ Len(s.place) \in Nat
      /\ \A i \in DOMAIN r.place : r.place[i] \in Nat
      /\ \A i \in DOMAIN s.place : s.place[i] \in Nat
  BY TreePlaces
<1>3. PICK n \in DOMAIN r.place \cap DOMAIN s.place :
        r.place[n] < s.place[n] /\ \A m \in 1 .. n - 1 : r.place[m] = s.place[m]
  BY DEF Before
<1>4. PICK l \in DOMAIN s.place \cap DOMAIN r.place :
        s.place[l] < r.place[l] /\ \A m \in 1 .. l - 1 : s.place[m] = r.place[m]
  BY <1>1 DEF Before
<1>5. n = l \/ n \in 1 .. l - 1 \/ l \in 1 .. n - 1
  BY <1>2, <1>3, <1>4
<1> QED
  BY <1>2, <1>3, <1>4, <1>5

\* Of two blocks at the level of a node neither is inside the other.
LEMMA SiblingsApart ==
  ASSUME NEW root, IsTree(root), NEW t \in Tree(root),
         NEW b \in SiblingBlocks(t, Tree(root)), NEW c \in SiblingBlocks(t, Tree(root)), b # c
  PROVE  ~Within(b, c)
<1>1. /\ b \in Through(t, Bodies(Tree(root)), Tree(root))
      /\ c \in Through(t, Bodies(Tree(root)), Tree(root)) /\ c.node[1] = "block"
  BY DEF SiblingBlocks
<1>2. c \notin Bodies(Tree(root))
  BY <1>1 DEF Bodies
<1>3. c \in Tree(root) /\ Within(c, t) /\ c # t
  BY <1>1 DEF Through
<1>4. \A r \in Tree(root) \ (Bodies(Tree(root)) \cup {b, t}) : ~(Within(r, t) /\ Within(b, r))
  BY <1>1 DEF Through
<1> QED
  BY <1>2, <1>3, <1>4

\* The declarations of a block, each with it, and the first of each name.
BlockDecls(t, tree) ==
  UNION {{[block |-> b, decl |-> d] : d \in CollectDecls(b, tree)} : b \in SiblingBlocks(t, tree)}
FirstOf(x, found) ==
  CHOOSE y \in found : /\ NameOf(y.decl) = NameOf(x.decl)
                       /\ \A z \in found : NameOf(z.decl) = NameOf(x.decl) => ~Before(z.decl, y.decl)

LEMMA BlockDeclsAre ==
  ASSUME NEW root, IsTree(root), NEW t \in Tree(root), NEW x \in BlockDecls(t, Tree(root))
  PROVE  /\ x = [block |-> x.block, decl |-> x.decl]
         /\ x.block \in Tree(root) /\ x.block \in SiblingBlocks(t, Tree(root))
         /\ x.decl \in Tree(root) /\ x.decl \in CollectDecls(x.block, Tree(root))
         /\ Within(x.decl, x.block)
<1>1. PICK b \in SiblingBlocks(t, Tree(root)) :
        \E d \in CollectDecls(b, Tree(root)) : x = [block |-> b, decl |-> d]
  BY DEF BlockDecls
<1>2. PICK d \in CollectDecls(b, Tree(root)) : x = [block |-> b, decl |-> d]
  BY <1>1
<1>3. b \in Tree(root)
  BY DEF SiblingBlocks, Through
<1>4. d \in Tree(root) /\ Within(d, b)
  BY DEF CollectDecls, Through
<1> QED
  BY <1>2, <1>3, <1>4

LEMMA FirstOfIs ==
  ASSUME NEW root, IsTree(root), NEW t \in Tree(root), NEW x \in BlockDecls(t, Tree(root)),
         NEW y, y = FirstOf(x, BlockDecls(t, Tree(root)))
  PROVE  /\ y \in BlockDecls(t, Tree(root)) /\ NameOf(y.decl) = NameOf(x.decl)
         /\ \A z \in BlockDecls(t, Tree(root)) :
              NameOf(z.decl) = NameOf(x.decl) => ~Before(z.decl, y.decl)
<1> DEFINE found == BlockDecls(t, Tree(root))
           S == {d \in Tree(root) : \E z \in found : NameOf(z.decl) = NameOf(x.decl) /\ d = z.decl}
<1>1. \A z \in found : z.decl \in Tree(root)
  BY BlockDeclsAre
<1>2. S \subseteq Tree(root) /\ S # {}
  BY <1>1
<1>3. PICK m \in S : \A e \in S : ~Before(e, m)
  BY <1>2, FirstExists
<1>4. PICK z \in found : NameOf(z.decl) = NameOf(x.decl) /\ m = z.decl
  OBVIOUS
<1>5. \A w \in found : NameOf(w.decl) = NameOf(x.decl) => w.decl \in S
  BY <1>1
<1> HIDE DEF found, S
<1>6. \E v \in found : /\ NameOf(v.decl) = NameOf(x.decl)
                       /\ \A w \in found : NameOf(w.decl) = NameOf(x.decl) => ~Before(w.decl, v.decl)
  BY <1>3, <1>4, <1>5
<1> QED
  BY <1>6 DEF FirstOf, found

\* A declaration is in another block than the first of its name when one of its
\* name came before it in another.
LEMMA FirstIsElsewhere ==
  ASSUME NEW root, IsTree(root), NEW t \in Tree(root), NEW x \in BlockDecls(t, Tree(root))
  PROVE  FirstOf(x, BlockDecls(t, Tree(root))).block # x.block
           <=> \E z \in BlockDecls(t, Tree(root)) :
                 z.block # x.block /\ NameOf(z.decl) = NameOf(x.decl) /\ Before(z.decl, x.decl)
<1> DEFINE found == BlockDecls(t, Tree(root))
           y == FirstOf(x, found)
<1>1. /\ y \in found /\ NameOf(y.decl) = NameOf(x.decl)
      /\ \A z \in found : NameOf(z.decl) = NameOf(x.decl) => ~Before(z.decl, y.decl)
  BY FirstOfIs
<1> HIDE DEF y
<1>2. ASSUME NEW v \in found, NEW w \in found, v.block # w.block
      PROVE  Before(v.block, w.block) \/ Before(w.block, v.block)
  <2>1. /\ v.block \in Tree(root) /\ v.block \in SiblingBlocks(t, Tree(root))
        /\ w.block \in Tree(root) /\ w.block \in SiblingBlocks(t, Tree(root))
    BY BlockDeclsAre
  <2>2. ~Within(v.block, w.block) /\ ~Within(w.block, v.block)
    BY <1>2, <2>1, SiblingsApart
  <2> QED
    BY <2>1, <2>2, BeforeTotal
<1>3. ASSUME NEW v \in found, NEW w \in found, Before(v.block, w.block)
      PROVE  Before(v.decl, w.decl) /\ ~Before(w.decl, v.decl)
  <2>1. /\ v.block \in Tree(root) /\ v.decl \in Tree(root) /\ Within(v.decl, v.block)
        /\ w.block \in Tree(root) /\ w.decl \in Tree(root) /\ Within(w.decl, w.block)
    BY BlockDeclsAre
  <2>2. Before(v.decl, w.decl)
    BY <1>3, <2>1, BeforeFrom
  <2> QED
    BY <2>1, <2>2, BeforeOnce
<1>4. ASSUME y.block # x.block PROVE Before(y.decl, x.decl)
  BY <1>1, <1>2, <1>3, <1>4
<1>5. ASSUME NEW z \in found, z.block # x.block, NameOf(z.decl) = NameOf(x.decl), Before(z.decl, x.decl)
      PROVE  y.block # x.block
  <2>1. Before(z.block, x.block)
    BY <1>2, <1>3, <1>5
  <2>2. ~(y.block = x.block)
    BY <1>1, <1>3, <1>5, <2>1
  <2> QED
    BY <2>2
<1>6. y.block # x.block
        <=> \E z \in found :
              z.block # x.block /\ NameOf(z.decl) = NameOf(x.decl) /\ Before(z.decl, x.decl)
  <2> HIDE DEF found
  <2> QED
    BY <1>1, <1>4, <1>5
<1> QED
  BY <1>6 DEF y

\* What the two rules find at a node.
SwitchShares(e, t, tree) ==
  /\ e \in CollectDecls(t, tree)
  /\ \E d \in CollectDecls(t, tree) : NameOf(d) = NameOf(e) /\ Before(d, e)
BlocksShare(e, t, tree) ==
  \E b, c \in SiblingBlocks(t, tree) :
    /\ b # c /\ e \in CollectDecls(c, tree)
    /\ \E d \in CollectDecls(b, tree) : NameOf(d) = NameOf(e) /\ Before(d, e)

FindsAt(xs, at) == \E x \in xs : x.at = at

LEMMA SwitchRuleIs ==
  ASSUME NEW root, NEW t \in Tree(root), NEW at
  PROVE  FindsAt(SwitchSharedScope(t, Tree(root)), at)
           <=> \E e : SwitchShares(e, t, Tree(root)) /\ at = e.node[2].at
<1> DEFINE W(d) == [rule |-> "switch-case-shared-scope", at |-> d.node[2].at]
           again == {d \in CollectDecls(t, Tree(root)) :
                       \E e \in CollectDecls(t, Tree(root)) : NameOf(e) = NameOf(d) /\ Before(e, d)}
<1>1. SwitchSharedScope(t, Tree(root)) = UNION {{W(d)} : d \in again}
  BY DEF SwitchSharedScope, Warn
<1>2. \A e : e \in again <=> SwitchShares(e, t, Tree(root))
  BY DEF SwitchShares
<1>3. \A d : W(d).at = d.node[2].at
  OBVIOUS
<1> HIDE DEF again, W
<1>4. \A x : x \in SwitchSharedScope(t, Tree(root)) <=> \E d \in again : x = W(d)
  BY <1>1
<1> QED
  BY <1>2, <1>3, <1>4 DEF FindsAt

LEMMA BlockRuleIs ==
  ASSUME NEW root, IsTree(root), NEW t \in Tree(root), NEW at
  PROVE  FindsAt(BlockSharedScope(t, Tree(root)), at)
           <=> \E e : BlocksShare(e, t, Tree(root)) /\ at = e.node[2].at
<1> DEFINE T == Tree(root)
           found == BlockDecls(t, T)
           W(x) == [rule |-> "block-shared-scope", at |-> x.decl.node[2].at]
           Elsewhere(x) == FirstOf(x, found).block # x.block
           Pair(b, d) == [block |-> b, decl |-> d]
<1>1. BlockSharedScope(t, T) = UNION {{W(x)} : x \in {y \in found : Elsewhere(y)}}
  BY DEF BlockSharedScope, BlockDecls, FirstOf, Warn
<1>2. \A x : W(x).at = x.decl.node[2].at
  OBVIOUS
<1>3. \A x : x \in BlockSharedScope(t, T) <=> \E y \in found : Elsewhere(y) /\ x = W(y)
  <2> HIDE DEF W, Elsewhere, found
  <2> QED
    BY <1>1
<1>4. \A y \in found : Elsewhere(y) <=> \E z \in found :
        z.block # y.block /\ NameOf(z.decl) = NameOf(y.decl) /\ Before(z.decl, y.decl)
  BY FirstIsElsewhere
<1>5. \A b \in SiblingBlocks(t, T) : \A d \in CollectDecls(b, T) : Pair(b, d) \in found
  BY DEF BlockDecls
<1>6. \A b, d : Pair(b, d).block = b /\ Pair(b, d).decl = d
  OBVIOUS
<1>7. \A y \in found : y.block \in SiblingBlocks(t, T) /\ y.decl \in CollectDecls(y.block, T)
  BY BlockDeclsAre
<1> HIDE DEF found, Elsewhere, W, Pair, T
<1>8. ASSUME NEW y \in found, Elsewhere(y) PROVE BlocksShare(y.decl, t, T)
  <2>1. PICK z \in found :
          z.block # y.block /\ NameOf(z.decl) = NameOf(y.decl) /\ Before(z.decl, y.decl)
    BY <1>4, <1>8
  <2> QED
    BY <1>7, <2>1 DEF BlocksShare
<1>9. ASSUME NEW e, BlocksShare(e, t, T) PROVE \E y \in found : Elsewhere(y) /\ y.decl = e
  <2>1. PICK b \in SiblingBlocks(t, T), c \in SiblingBlocks(t, T) :
          /\ b # c /\ e \in CollectDecls(c, T)
          /\ \E d \in CollectDecls(b, T) : NameOf(d) = NameOf(e) /\ Before(d, e)
    BY <1>9 DEF BlocksShare
  <2>2. PICK d \in CollectDecls(b, T) : NameOf(d) = NameOf(e) /\ Before(d, e)
    BY <2>1
  <2>3. Pair(c, e) \in found /\ Pair(b, d) \in found
    BY <1>5, <2>1
  <2>4. Elsewhere(Pair(c, e))
    BY <1>4, <1>6, <2>1, <2>2, <2>3
  <2> QED
    BY <1>6, <2>3, <2>4
<1> QED
  BY <1>2, <1>3, <1>8, <1>9 DEF T, FindsAt

LEMMA SharesOf ==
  ASSUME HolyccInv, TreesAreBuilt, phase = "report", NEW f \in DOMAIN files
  PROVE  /\ Reported("lint", "switch-case-shared-scope", f)
              = {x.decl.node[2].at : x \in {y \in DeclsOf(f) : SharesSwitch(y.decl, Tree(y.root))}}
         /\ Reported("lint", "block-shared-scope", f)
              = {x.decl.node[2].at : x \in {y \in DeclsOf(f) : SharesBlocks(y.decl, Tree(y.root))}}
<1> DEFINE Pair(root, d) == [root |-> root, decl |-> d]
<1>1. \A y : y \in DeclsOf(f)
              <=> \E root \in RootsOf(f) : \E d \in Decls(Tree(root)) : y = Pair(root, d)
  BY DEF DeclsOf, RootsOf
<1>2. \A root, d : Pair(root, d).root = root /\ Pair(root, d).decl = d
  OBVIOUS
<1> HIDE DEF Pair
<1>3. \A root \in RootsOf(f) : IsTree(root)
  <2>1. f \in DOMAIN modules
    BY AllAreParsed
  <2> QED
    BY <2>1 DEF RootsOf, TreesAreBuilt, IsBuilt
<1>4. \A t, tree, e : e \in CollectDecls(t, tree) => e \in Decls(tree)
  BY DEF CollectDecls, Through, Decls, Declares
<1>5. ASSUME NEW root \in RootsOf(f), NEW at
      PROVE  (\E u \in Tree(root) : /\ Entered(u, Tree(root))
                                    /\ IsFound(at, "switch-case-shared-scope", u, Tree(root)))
               <=> \E e \in Decls(Tree(root)) : SharesSwitch(e, Tree(root)) /\ at = e.node[2].at
  <2> DEFINE T == Tree(root)
  <2>1. ASSUME NEW u \in T
        PROVE  IsFound(at, "switch-case-shared-scope", u, T)
                 <=> u.node[1] = "switch" /\ \E e : SwitchShares(e, u, T) /\ at = e.node[2].at
    <3>1. \A x : x \in FoundAt(u, T) /\ x.rule = "switch-case-shared-scope"
                  <=> u.node[1] = "switch" /\ x \in SwitchSharedScope(u, T)
      BY LintNodeIs DEF FoundAt
    <3>2. FindsAt(SwitchSharedScope(u, T), at)
            <=> \E e : SwitchShares(e, u, T) /\ at = e.node[2].at
      BY SwitchRuleIs
    <3> HIDE DEF T
    <3> QED
      BY <3>1, <3>2 DEF IsFound, FindsAt
  <2>2. \A e : SharesSwitch(e, T)
                <=> \E u \in T : u.node[1] = "switch" /\ Entered(u, T) /\ SwitchShares(e, u, T)
    BY DEF SharesSwitch, SwitchShares
  <2>3. \A e, u : SwitchShares(e, u, T) => e \in Decls(T)
    BY <1>4 DEF SwitchShares
  <2> HIDE DEF T
  <2>4. (\E u \in T : Entered(u, T) /\ IsFound(at, "switch-case-shared-scope", u, T))
          <=> \E e \in Decls(T) : SharesSwitch(e, T) /\ at = e.node[2].at
    BY <2>1, <2>2, <2>3
  <2> QED
    BY <2>4 DEF T
<1>6. ASSUME NEW root \in RootsOf(f), NEW at
      PROVE  (\E u \in Tree(root) : /\ Entered(u, Tree(root))
                                    /\ IsFound(at, "block-shared-scope", u, Tree(root)))
               <=> \E e \in Decls(Tree(root)) : SharesBlocks(e, Tree(root)) /\ at = e.node[2].at
  <2> DEFINE T == Tree(root)
  <2>1. ASSUME NEW u \in T
        PROVE  IsFound(at, "block-shared-scope", u, T)
                 <=> u.node[1] \in {"fn", "block"} /\ \E e : BlocksShare(e, u, T) /\ at = e.node[2].at
    <3>1. \A x : x \in FoundAt(u, T) /\ x.rule = "block-shared-scope"
                  <=> u.node[1] \in {"fn", "block"} /\ x \in BlockSharedScope(u, T)
      BY LintNodeIs DEF FoundAt
    <3>2. FindsAt(BlockSharedScope(u, T), at)
            <=> \E e : BlocksShare(e, u, T) /\ at = e.node[2].at
      BY <1>3, BlockRuleIs
    <3> HIDE DEF T
    <3> QED
      BY <3>1, <3>2 DEF IsFound, FindsAt
  <2>2. \A e : SharesBlocks(e, T)
                <=> \E u \in T : u.node[1] \in {"fn", "block"} /\ Entered(u, T) /\ BlocksShare(e, u, T)
    BY DEF SharesBlocks, BlocksShare
  <2>3. \A e, u : BlocksShare(e, u, T) => e \in Decls(T)
    BY <1>4 DEF BlocksShare
  <2> HIDE DEF T
  <2>4. (\E u \in T : Entered(u, T) /\ IsFound(at, "block-shared-scope", u, T))
          <=> \E e \in Decls(T) : SharesBlocks(e, T) /\ at = e.node[2].at
    BY <2>1, <2>2, <2>3
  <2> QED
    BY <2>4 DEF T
<1>7. \A at : at \in Reported("lint", "switch-case-shared-scope", f)
               <=> \E y \in DeclsOf(f) : SharesSwitch(y.decl, Tree(y.root)) /\ at = y.decl.node[2].at
  <2>1. \A at : at \in Reported("lint", "switch-case-shared-scope", f)
                 <=> \E root \in RootsOf(f) : \E u \in Tree(root) :
                       Entered(u, Tree(root)) /\ IsFound(at, "switch-case-shared-scope", u, Tree(root))
    BY LintFinds
  <2>2. \A at : at \in Reported("lint", "switch-case-shared-scope", f)
                 <=> \E root \in RootsOf(f) : \E e \in Decls(Tree(root)) :
                       SharesSwitch(e, Tree(root)) /\ at = e.node[2].at
    <3>1. ASSUME NEW at, NEW root \in RootsOf(f)
          PROVE  (\E u \in Tree(root) :
                    Entered(u, Tree(root)) /\ IsFound(at, "switch-case-shared-scope", u, Tree(root)))
                   <=> \E e \in Decls(Tree(root)) : SharesSwitch(e, Tree(root)) /\ at = e.node[2].at
      BY <1>5
    <3> QED
      BY <2>1, <3>1
  <2> QED
    BY <1>1, <1>2, <2>2
<1>8. \A at : at \in Reported("lint", "block-shared-scope", f)
               <=> \E y \in DeclsOf(f) : SharesBlocks(y.decl, Tree(y.root)) /\ at = y.decl.node[2].at
  <2>1. \A at : at \in Reported("lint", "block-shared-scope", f)
                 <=> \E root \in RootsOf(f) : \E u \in Tree(root) :
                       Entered(u, Tree(root)) /\ IsFound(at, "block-shared-scope", u, Tree(root))
    BY LintFinds
  <2>2. \A at : at \in Reported("lint", "block-shared-scope", f)
                 <=> \E root \in RootsOf(f) : \E e \in Decls(Tree(root)) :
                       SharesBlocks(e, Tree(root)) /\ at = e.node[2].at
    <3>1. ASSUME NEW at, NEW root \in RootsOf(f)
          PROVE  (\E u \in Tree(root) :
                    Entered(u, Tree(root)) /\ IsFound(at, "block-shared-scope", u, Tree(root)))
                   <=> \E e \in Decls(Tree(root)) : SharesBlocks(e, Tree(root)) /\ at = e.node[2].at
      BY <1>6
    <3> QED
      BY <2>1, <3>1
  <2> QED
    BY <1>1, <1>2, <2>2
<1>9. Reported("lint", "switch-case-shared-scope", f)
        = {x.decl.node[2].at : x \in {y \in DeclsOf(f) : SharesSwitch(y.decl, Tree(y.root))}}
  BY <1>7
<1>10. Reported("lint", "block-shared-scope", f)
         = {x.decl.node[2].at : x \in {y \in DeclsOf(f) : SharesBlocks(y.decl, Tree(y.root))}}
  BY <1>8
<1> QED
  BY <1>9, <1>10

\* A run reports the declarations whose name was declared before them in their
\* switch, or in a block beside their own, and no other (lint/mod.rs:652-701 and
\* 740-811), when the parser made trees of the files.
THEOREM SharedNamesAreFound == Spec => [](TreesAreBuilt => SharedNamesAreReported)
<1>1. HolyccInv => (TreesAreBuilt => SharedNamesAreReported)
  BY SharesOf DEF SharedNamesAreReported
<1> QED
  BY <1>1, HolyccIsSound, PTL
=============================================================================
