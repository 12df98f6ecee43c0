------------------------ MODULE DepthFirstICS_proofs ------------------------
(***************************************************************************)
(* Proofs about the search: when the slices of a region agree, every input   *)
(* of it is covered when the region is completed.                            *)
(***************************************************************************)
EXTENDS DepthFirstICS, WellFoundedInduction, TLAPS

\* A non-empty set of natural numbers has a least element.
LEMMA LeastElement ==
  ASSUME NEW T \in SUBSET Nat, T # {}
  PROVE  \E m \in T : \A n \in T : m <= n
<1> DEFINE R == {ss \in Nat \X Nat : ss[1] < ss[2]}
<1>1. IsWellFoundedOn(R, Nat)
  BY NatLessThanWellFounded, Zenon DEF OpToRel
<1>2. PICK x \in T : \A y \in T : ~(<<y, x>> \in R)
  <2> HIDE DEF R
  <2> QED BY <1>1, WFMin, Zenon
<1>3. ASSUME NEW y \in T PROVE x <= y
  <2>1. <<y, x>> \in Nat \X Nat OBVIOUS
  <2>2. <<y, x>>[1] = y /\ <<y, x>>[2] = x OBVIOUS
  <2>3. ~(y < x) BY Zenon, <1>2, <2>1, <2>2
  <2> QED BY <2>3
<1> QED BY Zenon, <1>3
-----------------------------------------------------------------------------
(* What a slice says of the path it belongs to.                              *)

\* The inputs that satisfy the assertions just before branch k.
Holds(p, k) == Meaning(Slice[p][k].kept \cup Slice[p][k].dropped)

\* Branch k of path p is not implied by what comes before it.
NonRed(p, k) == k \in DOMAIN Slice[p] /\ ~(At(p, k) \subseteq UNION Slice[p][k].cond)

\* The canonical constraint that processSlice has built when it reaches branch k.
Canon(p, k) == {Slice[p][m].cond : m \in {n \in 1 .. k - 1 : NonRed(p, n)}}

\* What it has then added to the explored set for branch k.
Ext(p, k) ==
  {Canon(p, k) \cup {Slice[p][k].cond}} \cup {Canon(p, k) \cup {{a}} : a \in Slice[p][k].cond}

\* Two slices have the same branches and assertions before branch k.
SameAsserted(p, q, m) ==
  Slice[p][m].kept = Slice[q][m].kept /\ Slice[p][m].dropped = Slice[q][m].dropped
Same(p, q, k) ==
  \A m \in 1 .. k - 1 : /\ m \in DOMAIN Slice[p] /\ m \in DOMAIN Slice[q]
                        /\ Slice[p][m].cond = Slice[q][m].cond
                        /\ Slice[p][m].flips = Slice[q][m].flips
                        /\ SameAsserted(p, q, m)

\* The position behind the last branch.
Last(p) == Len(Slice[p]) + 1

GoodPath(r, p) == \E j \in Good(r) : PathOf[r][j] = p

\* Two slices that are the same before a position are the same before an earlier one.
LEMMA SameShorter ==
  ASSUME NEW p, NEW q, NEW k \in Nat, NEW l \in Nat, k <= l, Same(p, q, l)
  PROVE  Same(p, q, k)
<1>1. \A m \in 1 .. k - 1 : m \in 1 .. l - 1 BY ONLY k \in Nat, l \in Nat, k <= l
<1> QED BY Zenon, <1>1 DEF Same

\* The parts of a slice have their types.
LEMMA SliceTyped ==
  ASSUME NEW p \in Path
  PROVE  /\ Len(Slice[p]) \in Nat /\ DOMAIN Slice[p] = 1 .. Len(Slice[p])
         /\ \A k \in DOMAIN Slice[p] : /\ Slice[p][k].cond \in Cond
                                       /\ Slice[p][k].flips \subseteq Atom
                                       /\ Slice[p][k].node \in Nat
                                       /\ Slice[p][k].kept \subseteq Cond
<1>1. Slice[p] \in Seq(Branch) BY Zenon, SliceAssumption
<1>2. Len(Slice[p]) \in Nat /\ DOMAIN Slice[p] = 1 .. Len(Slice[p]) BY <1>1
<1>3. \A k \in DOMAIN Slice[p] : Slice[p][k] \in Branch BY <1>1, <1>2
<1> QED BY Zenon, <1>2, <1>3 DEF Branch

\* The position of a branch, and those before it.
LEMMA SliceIndex ==
  ASSUME NEW p \in Path, NEW k \in DOMAIN Slice[p]
  PROVE  /\ k \in Nat \ {0} /\ k - 1 \in 0 .. Len(Slice[p]) /\ k \in 1 .. k
         /\ k \in 1 .. Last(p) - 1 /\ k + 1 \in 1 .. Last(p)
         /\ \A m \in 1 .. k : m \in DOMAIN Slice[p] /\ (m \in 1 .. k - 1 \/ m = k)
<1>1. Len(Slice[p]) \in Nat /\ DOMAIN Slice[p] = 1 .. Len(Slice[p]) BY Zenon, SliceTyped
<1>2. k \in 1 .. Len(Slice[p]) BY Zenon, <1>1
<1> QED BY ONLY <1>1, <1>2 DEF Last

\* The same behind the last branch.
LEMMA LastIndex ==
  ASSUME NEW p \in Path
  PROVE  /\ Last(p) \in Nat /\ Last(p) - 1 \in 0 .. Len(Slice[p]) /\ 1 \in 1 .. Last(p)
         /\ 1 .. Last(p) - 1 = DOMAIN Slice[p]
<1>1. Len(Slice[p]) \in Nat /\ DOMAIN Slice[p] = 1 .. Len(Slice[p]) BY Zenon, SliceTyped
<1> QED BY ONLY <1>1 DEF Last

\* And at any position.
LEMMA PriorIndex ==
  ASSUME NEW p \in Path, NEW k \in Nat, k - 1 \in 0 .. Len(Slice[p])
  PROVE  \A m \in 1 .. k - 1 : m \in DOMAIN Slice[p]
<1>1. Len(Slice[p]) \in Nat /\ DOMAIN Slice[p] = 1 .. Len(Slice[p]) BY Zenon, SliceTyped
<1> QED BY <1>1

\* A good input has a path.
LEMMA GoodTyped ==
  ASSUME NEW r \in Region, NEW j \in Good(r)
  PROVE  j \in Input /\ PathOf[r][j] \in Path
<1>1. j \in Input BY Zenon DEF Good
<1>2. PathOf \in [Region -> [Input -> Path]] BY Zenon, ProgramAssumption
<1> QED BY Zenon, <1>1, <1>2

\* The assertions up to a branch hold when those before each branch do.
LEMMA AssertedHolds ==
  ASSUME NEW p, NEW k, NEW i
  PROVE  i \in Meaning(Asserted(p, k)) <=> i \in Input /\ \A m \in 1 .. k : i \in Holds(p, m)
<1>1. ASSUME i \in Meaning(Asserted(p, k)), NEW m \in 1 .. k PROVE i \in Holds(p, m)
  <2>1. \A c \in Slice[p][m].kept \cup Slice[p][m].dropped : c \in Asserted(p, k) BY Zenon DEF Asserted
  <2> QED BY Zenon, <1>1, <2>1 DEF Meaning, Holds
<1>2. ASSUME i \in Input, \A m \in 1 .. k : i \in Holds(p, m), NEW c \in Asserted(p, k)
      PROVE  i \in UNION c
  <2>1. PICK m \in 1 .. k : c \in Slice[p][m].kept \cup Slice[p][m].dropped BY Zenon DEF Asserted
  <2> QED BY Zenon, <1>2, <2>1 DEF Holds, Meaning
<1> QED BY Zenon, <1>1, <1>2 DEF Meaning

\* The same for the inputs before a branch, branch by branch.
LEMMA BeforeHolds ==
  ASSUME NEW p, NEW k, NEW i
  PROVE  i \in Before(p, k) <=>
           i \in Input /\ \A m \in 1 .. k - 1 : i \in Holds(p, m) /\ i \in UNION Slice[p][m].cond
  BY Zenon, AssertedHolds DEF Before, Asserting

\* At a branch are the inputs before it that satisfy the assertions on the way.
LEMMA AtHolds ==
  ASSUME NEW p, NEW k \in Nat \ {0}
  PROVE  At(p, k) = Before(p, k) \cap Holds(p, k)
<1>1. \A m : m \in 1 .. (k + 1) - 1 <=> m \in 1 .. k - 1 \/ m = k OBVIOUS
<1>2. ASSUME NEW i PROVE i \in At(p, k) <=> i \in Before(p, k) /\ i \in Holds(p, k)
  <2>1. i \in Asserting(p, k + 1) <=> i \in Input /\ \A m \in 1 .. (k + 1) - 1 : i \in Holds(p, m)
    BY Zenon, AssertedHolds DEF Asserting
  <2> QED BY Zenon, <1>1, <2>1, BeforeHolds DEF At
<1> QED BY Zenon, <1>2

\* The canonical constraint means the whole slice, for the inputs that pass the
\* assertions: dropping a redundant branch changes nothing.
LEMMA CanonMeaning ==
  ASSUME NEW p \in Path, NEW k \in Nat, k - 1 \in 0 .. Len(Slice[p]), NEW i \in Input,
         \A m \in 1 .. k - 1 : i \in Before(p, m) => i \in Holds(p, m)
  PROVE  i \in Meaning(Canon(p, k)) <=> i \in Before(p, k)
<1>1. i \in Before(p, k) => i \in Meaning(Canon(p, k))
  BY Zenon, BeforeHolds DEF Meaning, Canon
<1>2. ASSUME i \in Meaning(Canon(p, k)), i \notin Before(p, k) PROVE FALSE
  <2> DEFINE T == {m \in 1 .. k - 1 : ~(i \in Holds(p, m) /\ i \in UNION Slice[p][m].cond)}
  <2>1. T \in SUBSET Nat
    <3>1. 1 .. k - 1 \subseteq Nat OBVIOUS
    <3> QED BY Zenon, <3>1
  <2>2. T # {} BY Zenon, <1>2, BeforeHolds
  <2>3. PICK m \in T : \A n \in T : m <= n
    <3> HIDE DEF T
    <3> QED BY Zenon, <2>1, <2>2, LeastElement
  <2>4. m \in Nat \ {0} /\ m \in 1 .. k - 1 /\ \A n \in 1 .. m - 1 : n \in 1 .. k - 1 /\ ~(m <= n)
    OBVIOUS
  <2>5. i \in Before(p, m) BY Zenon, <2>3, <2>4, BeforeHolds
  <2>6. i \in Holds(p, m) BY Zenon, <2>4, <2>5
  <2>7. m \in DOMAIN Slice[p] BY <2>4, SliceTyped
  <2>8. i \in At(p, m) BY Zenon, <2>4, <2>5, <2>6, AtHolds
  <2>9. NonRed(p, m) BY Zenon, <2>3, <2>6, <2>7, <2>8 DEF NonRed
  <2>10. Slice[p][m].cond \in Canon(p, k) BY Zenon, <2>4, <2>9 DEF Canon
  <2> QED BY Zenon, <1>2, <2>3, <2>6, <2>10 DEF Meaning
<1> QED BY Zenon, <1>1, <1>2
-----------------------------------------------------------------------------
(* What it means that slices agree.                                          *)

\* A good path satisfies the conditions and assertions of its slice, and none of
\* its flips.
LEMMA OwnSlice ==
  ASSUME NEW r \in Region, NEW j \in Good(r), NEW k \in DOMAIN Slice[PathOf[r][j]]
  PROVE  /\ PathOf[r][j] \in Path /\ j \in Input
         /\ j \in UNION Slice[PathOf[r][j]][k].cond
         /\ j \in Holds(PathOf[r][j], k)
         /\ \A f \in Slice[PathOf[r][j]][k].flips : j \notin f
<1>1. j \in Input /\ PathOf[r][j] \in Path BY Zenon, GoodTyped
<1>2. j \in UNION Slice[PathOf[r][j]][k].cond /\ j \in Meaning(Asserted(PathOf[r][j], k))
  BY Zenon, <1>1, ProgramAssumption
<1>3. k \in 1 .. k BY Zenon, <1>1, SliceIndex
<1>4. j \in Holds(PathOf[r][j], k) BY Zenon, <1>2, <1>3, AssertedHolds
<1> QED BY Zenon, <1>1, <1>2, <1>4, SliceAssumption

\* So it is before every branch of it.
LEMMA OwnBefore ==
  ASSUME NEW r \in Region, NEW j \in Good(r), NEW k \in Nat,
         k - 1 \in 0 .. Len(Slice[PathOf[r][j]])
  PROVE  j \in Before(PathOf[r][j], k)
<1>1. j \in Input /\ PathOf[r][j] \in Path BY Zenon, GoodTyped
<1>2. \A m \in 1 .. k - 1 : m \in DOMAIN Slice[PathOf[r][j]] BY Zenon, <1>1, PriorIndex
<1>3. \A m \in 1 .. k - 1 : j \in Holds(PathOf[r][j], m) /\ j \in UNION Slice[PathOf[r][j]][m].cond
  BY Zenon, <1>2, OwnSlice
<1> QED BY Zenon, <1>1, <1>3, BeforeHolds

\* A good input that is before a branch meets the assertions on the way to it, and
\* satisfies them.
LEMMA MeetsAsserted ==
  ASSUME NEW r \in Region, SlicesAgree(r), NEW i \in Good(r), NEW j \in Good(r),
         NEW k \in DOMAIN Slice[PathOf[r][i]], j \in Before(PathOf[r][i], k)
  PROVE  /\ k \in DOMAIN Slice[PathOf[r][j]]
         /\ SameAsserted(PathOf[r][i], PathOf[r][j], k)
         /\ j \in Holds(PathOf[r][i], k) /\ j \in At(PathOf[r][i], k)
         /\ \/ /\ j \in UNION Slice[PathOf[r][i]][k].cond
               /\ Slice[PathOf[r][j]][k].cond = Slice[PathOf[r][i]][k].cond
               /\ Slice[PathOf[r][j]][k].flips = Slice[PathOf[r][i]][k].flips
            \/ \E f \in Slice[PathOf[r][i]][k].flips : j \in f
         /\ \A f \in Slice[PathOf[r][i]][k].flips : j \in f => f \in Slice[PathOf[r][j]][k].cond
<1> DEFINE p == PathOf[r][i]
           q == PathOf[r][j]
<1>1. AgreesWith(j, q, p) BY Zenon DEF SlicesAgree, AgreeingRegions
<1>2. p \in Path BY Zenon, GoodTyped
<1>3. k \in Nat \ {0} BY Zenon, <1>2, SliceIndex
<1> HIDE DEF p, q
<1>4. /\ k \in DOMAIN Slice[q]
      /\ SameAsserted(p, q, k)
      /\ \/ /\ j \in UNION Slice[p][k].cond
            /\ Slice[q][k].cond = Slice[p][k].cond /\ Slice[q][k].flips = Slice[p][k].flips
         \/ \E f \in Slice[p][k].flips : j \in f
      /\ \A f \in Slice[p][k].flips : j \in f => f \in Slice[q][k].cond
  BY Zenon, <1>1 DEF AgreesWith, SameAsserted, p
<1>5. j \in Holds(q, k) BY Zenon, <1>4, OwnSlice DEF q
<1>6. j \in Holds(p, k) BY Zenon, <1>4, <1>5 DEF Holds, SameAsserted
<1>7. j \in At(p, k) BY Zenon, <1>3, <1>6, AtHolds DEF p
<1> QED BY Zenon, <1>4, <1>6, <1>7 DEF p, q

\* For a good input the canonical constraint of a good path means the whole slice.
LEMMA GoodMeaning ==
  ASSUME NEW r \in Region, SlicesAgree(r), NEW i \in Good(r), NEW j \in Good(r),
         NEW k \in Nat, k - 1 \in 0 .. Len(Slice[PathOf[r][i]])
  PROVE  j \in Meaning(Canon(PathOf[r][i], k)) <=> j \in Before(PathOf[r][i], k)
<1>1. PathOf[r][i] \in Path /\ j \in Input BY Zenon, GoodTyped
<1>2. \A m \in 1 .. k - 1 : m \in DOMAIN Slice[PathOf[r][i]] BY Zenon, <1>1, PriorIndex
<1>3. \A m \in 1 .. k - 1 : j \in Before(PathOf[r][i], m) => j \in Holds(PathOf[r][i], m)
  BY Zenon, <1>2, MeetsAsserted
<1> QED BY Zenon, <1>1, <1>3, CanonMeaning

\* An input that satisfies a path's slice up to a branch has the same slice up
\* to there.
LEMMA SameBefore ==
  ASSUME NEW r \in Region, SlicesAgree(r), NEW i \in Good(r), NEW j \in Good(r),
         NEW k \in Nat, k - 1 \in 0 .. Len(Slice[PathOf[r][i]]),
         j \in Before(PathOf[r][i], k)
  PROVE  Same(PathOf[r][i], PathOf[r][j], k)
<1> DEFINE p == PathOf[r][i]
           q == PathOf[r][j]
<1>1. p \in Path BY Zenon, GoodTyped
<1>2. SUFFICES ASSUME NEW m \in 1 .. k - 1
               PROVE  /\ m \in DOMAIN Slice[p] /\ m \in DOMAIN Slice[q]
                      /\ Slice[p][m].cond = Slice[q][m].cond /\ Slice[p][m].flips = Slice[q][m].flips
                      /\ SameAsserted(p, q, m)
  BY Zenon DEF Same
<1>3. m \in DOMAIN Slice[p] BY Zenon, <1>1, PriorIndex
<1>4. \A n \in 1 .. m - 1 : n \in 1 .. k - 1 OBVIOUS
<1>5. j \in Before(p, m) /\ j \in UNION Slice[p][m].cond BY Zenon, <1>4, BeforeHolds
<1>6. \A f \in Slice[p][m].flips : j \notin f BY Zenon, <1>1, <1>3, <1>5, SliceAssumption
<1>7. /\ m \in DOMAIN Slice[q] /\ SameAsserted(p, q, m)
      /\ \/ /\ j \in UNION Slice[p][m].cond
            /\ Slice[q][m].cond = Slice[p][m].cond /\ Slice[q][m].flips = Slice[p][m].flips
         \/ \E f \in Slice[p][m].flips : j \in f
  BY Zenon, <1>3, <1>5, MeetsAsserted
<1> HIDE DEF p, q
<1> QED BY Zenon, <1>3, <1>6, <1>7

\* Slices with the same branches have the same meaning, redundant branches and
\* canonical constraint.
LEMMA SameSlices ==
  ASSUME NEW p \in Path, NEW q \in Path, NEW k \in Nat \ {0}, Same(p, q, k)
  PROVE  /\ Before(p, k) = Before(q, k)
         /\ Canon(p, k) = Canon(q, k)
         /\ \A m \in 1 .. k - 1 : /\ NonRed(p, m) <=> NonRed(q, m)
                                  /\ Canon(p, m) = Canon(q, m)
                                  /\ Ext(p, m) = Ext(q, m)
<1>1. \A m \in 1 .. k - 1 : Holds(p, m) = Holds(q, m) BY Zenon DEF Same, SameAsserted, Holds
<1>2. ASSUME NEW m \in 1 .. k PROVE Before(p, m) = Before(q, m)
  <2>1. \A n \in 1 .. m - 1 : n \in 1 .. k - 1 OBVIOUS
  <2>2. \A n \in 1 .. m - 1 : Holds(p, n) = Holds(q, n) /\ Slice[p][n].cond = Slice[q][n].cond
    BY Zenon, <1>1, <2>1 DEF Same
  <2>3. ASSUME NEW i PROVE i \in Before(p, m) <=> i \in Before(q, m)
    <3>1. i \in Before(p, m) <=>
            i \in Input /\ \A n \in 1 .. m - 1 : i \in Holds(p, n) /\ i \in UNION Slice[p][n].cond
      BY Zenon, BeforeHolds
    <3>2. i \in Before(q, m) <=>
            i \in Input /\ \A n \in 1 .. m - 1 : i \in Holds(q, n) /\ i \in UNION Slice[q][n].cond
      BY Zenon, BeforeHolds
    <3> QED BY Zenon, <2>2, <3>1, <3>2
  <2> QED BY Zenon, <2>3
<1>3. ASSUME NEW m \in 1 .. k - 1 PROVE NonRed(p, m) <=> NonRed(q, m)
  <2>1. m \in 1 .. k /\ m \in Nat \ {0} OBVIOUS
  <2>2. At(p, m) = At(q, m) BY Zenon, <1>1, <1>2, <2>1, AtHolds
  <2> QED BY Zenon, <2>2 DEF NonRed, Same
<1>4. ASSUME NEW l \in 1 .. k PROVE Canon(p, l) = Canon(q, l)
  <2>1. \A m \in 1 .. l - 1 : m \in 1 .. k - 1 OBVIOUS
  <2>2. \A m \in 1 .. l - 1 : (NonRed(p, m) <=> NonRed(q, m)) /\ Slice[p][m].cond = Slice[q][m].cond
    BY Zenon, <1>3, <2>1 DEF Same
  <2> QED BY Zenon, <2>2 DEF Canon
<1>5. k \in 1 .. k /\ \A m \in 1 .. k - 1 : m \in 1 .. k OBVIOUS
<1>6. ASSUME NEW m \in 1 .. k - 1 PROVE Ext(p, m) = Ext(q, m)
  <2>1. Slice[p][m].cond = Slice[q][m].cond BY Zenon DEF Same
  <2> QED BY Zenon, <1>4, <1>5, <2>1 DEF Ext
<1> QED BY Zenon, <1>2, <1>3, <1>4, <1>5, <1>6

\* A branch that is redundant on one path is redundant on the paths that share
\* the conditions before it.
LEMMA NonRedShared ==
  ASSUME NEW r \in Region, SlicesAgree(r), NEW i \in Good(r), NEW j \in Good(r),
         NEW k \in DOMAIN Slice[PathOf[r][i]], NonRed(PathOf[r][j], k),
         Same(PathOf[r][i], PathOf[r][j], k)
  PROVE  NonRed(PathOf[r][i], k)
<1> DEFINE p == PathOf[r][i]
           q == PathOf[r][j]
<1>1. p \in Path /\ q \in Path /\ j \in Input BY Zenon, GoodTyped
<1>2. k \in Nat \ {0} /\ k \in 1 .. k /\ k \in DOMAIN Slice[q] BY Zenon, <1>1, SliceIndex DEF NonRed
<1>3. Before(p, k) = Before(q, k) BY ONLY <1>1, <1>2, Same(p, q, k), SameSlices
<1>4. k - 1 \in 0 .. Len(Slice[q]) BY Zenon, <1>1, <1>2, SliceIndex
<1>5. j \in Before(p, k) BY Zenon, <1>2, <1>3, <1>4, OwnBefore
<1>6. /\ SameAsserted(p, q, k) /\ j \in At(p, k)
      /\ \/ j \in UNION Slice[p][k].cond /\ Slice[q][k].cond = Slice[p][k].cond
         \/ \E f \in Slice[p][k].flips : j \in f
  BY Zenon, <1>5, MeetsAsserted
<1> HIDE DEF p, q
<1>7. SUFFICES ASSUME At(p, k) \subseteq UNION Slice[p][k].cond PROVE FALSE
  BY Zenon DEF NonRed, p
<1>8. j \in UNION Slice[p][k].cond BY Zenon, <1>6, <1>7
<1>9. \A f \in Slice[p][k].flips : j \notin f BY Zenon, <1>1, <1>8, SliceAssumption DEF p
<1>10. Slice[q][k].cond = Slice[p][k].cond BY Zenon, <1>6, <1>9
<1>11. At(p, k) = At(q, k)
  <2>1. Holds(p, k) = Holds(q, k) BY Zenon, <1>6 DEF Holds, SameAsserted
  <2> QED BY Zenon, <1>2, <1>3, <2>1, AtHolds
<1> QED BY Zenon, <1>7, <1>10, <1>11 DEF NonRed, q

\* A branch that is not redundant has a condition that is not in the canonical
\* constraint yet.
LEMMA CondNew ==
  ASSUME NEW p \in Path, NEW k, NonRed(p, k)
  PROVE  Slice[p][k].cond \notin Canon(p, k)
<1>1. SUFFICES ASSUME NEW m \in 1 .. k - 1, Slice[p][k].cond = Slice[p][m].cond PROVE FALSE
  BY Zenon DEF Canon
<1>2. At(p, k) \subseteq UNION Slice[p][m].cond BY Zenon DEF At, Before
<1> QED BY Zenon, <1>1, <1>2 DEF NonRed

\* If the flip of a branch is a constraint that another path has added, then
\* the other path has the same conditions up to this branch, and has added it
\* for this branch or a later one.
LEMMA FlipSeen ==
  ASSUME NEW r \in Region, SlicesAgree(r), NEW i \in Good(r), NEW j \in Good(r),
         NEW n, NonRed(PathOf[r][i], n),
         NEW f \in Slice[PathOf[r][i]][n].flips,
         NEW u \in Good(r), u \in Before(PathOf[r][i], n), u \in f,
         NEW k, NonRed(PathOf[r][j], k), NEW x,
         Canon(PathOf[r][i], n) \cup {{f}} = Canon(PathOf[r][j], k) \cup {x}
  PROVE  n <= k /\ Same(PathOf[r][i], PathOf[r][j], n)
<1> DEFINE p == PathOf[r][i]
           q == PathOf[r][j]
           s == PathOf[r][u]
<1>1. /\ p \in Path /\ q \in Path /\ s \in Path
      /\ i \in Input /\ j \in Input /\ u \in Input
  BY Zenon, GoodTyped
<1>2. /\ n \in DOMAIN Slice[p] /\ n \in Nat \ {0} /\ n - 1 \in 0 .. Len(Slice[p])
      /\ k \in DOMAIN Slice[q] /\ k \in Nat \ {0} /\ k - 1 \in 0 .. Len(Slice[q])
  <2>1. n \in DOMAIN Slice[p] /\ k \in DOMAIN Slice[q] BY Zenon DEF NonRed
  <2> QED BY Zenon, <1>1, <2>1, SliceIndex
<1>3. u \in Meaning(Canon(p, n)) BY Zenon, <1>1, <1>2, GoodMeaning
<1>4. u \in Meaning(Canon(q, k))
  <2>1. \A d \in Canon(p, n) \cup {{f}} : u \in UNION d BY Zenon, <1>3 DEF Meaning
  <2>2. Canon(q, k) \subseteq Canon(p, n) \cup {{f}} OBVIOUS
  <2> QED BY Zenon, <1>1, <2>1, <2>2 DEF Meaning
<1>5. u \in Before(q, k) BY Zenon, <1>1, <1>2, <1>4, GoodMeaning
<1>6. Same(p, s, n) /\ Same(q, s, k) BY Zenon, <1>2, <1>5, SameBefore
<1>7. ASSUME NEW l \in Nat, l <= n, l <= k PROVE Same(p, q, l)
  <2>1. \A m \in 1 .. l - 1 : m \in 1 .. n - 1 /\ m \in 1 .. k - 1 BY <1>2, <1>7
  <2> QED BY ZenonT(60), <1>6, <2>1 DEF Same, SameAsserted
<1>8. ASSUME k < n PROVE FALSE
  <2>1. Same(p, q, k) BY <1>2, <1>7, <1>8
  <2>2. k \in DOMAIN Slice[p] BY <1>1, <1>2, <1>8, SliceTyped
  <2>3. NonRed(p, k) BY Zenon, <2>1, <2>2, NonRedShared
  <2> DEFINE c == Slice[p][k].cond
  <2>4. c \in Canon(p, n)
    <3>1. k \in 1 .. n - 1 BY <1>2, <1>8
    <3> QED BY Zenon, <2>3, <3>1 DEF Canon
  <2>5. Canon(p, k) = Canon(q, k)
    BY ONLY <1>1, <1>2, <2>1, SameSlices
  <2>6. c \notin Canon(q, k) BY Zenon, <1>1, <2>3, <2>5, CondNew
  <2>7. c = x BY Zenon, <2>4, <2>6
  <2>8. {f} \in Canon(p, k) \cup {c} BY Zenon, <2>5, <2>7
  <2>9. \A m \in 1 .. k : m \in DOMAIN Slice[p] BY Zenon, <1>1, <2>2, SliceIndex
  <2>10. \A m \in 1 .. k : i \in UNION Slice[p][m].cond BY Zenon, <2>9, OwnSlice
  <2>11. \A d \in Canon(p, k) \cup {c} : i \in UNION d
    <3>1. k \in 1 .. k /\ 1 .. k - 1 \subseteq 1 .. k BY <1>2
    <3> QED BY Zenon, <2>10, <3>1 DEF Canon
  <2>12. i \in f BY Zenon, <2>8, <2>11
  <2> QED BY Zenon, <2>12, <1>2, OwnSlice
<1> QED BY <1>2, <1>7, <1>8

\* The paths that run under the flip of a branch share what is before the branch,
\* and take the flipped disjunct at it.
LEMMA BaseShared ==
  ASSUME NEW r \in Region, SlicesAgree(r), NEW i \in Good(r), NEW j \in Good(r),
         NEW k, NonRed(PathOf[r][i], k), NEW f \in Slice[PathOf[r][i]][k].flips,
         j \in Meaning(Canon(PathOf[r][i], k) \cup {{f}})
  PROVE  /\ Same(PathOf[r][i], PathOf[r][j], k)
         /\ SameAsserted(PathOf[r][i], PathOf[r][j], k)
         /\ NonRed(PathOf[r][j], k)
         /\ f \in Slice[PathOf[r][j]][k].cond
         /\ j \in Before(PathOf[r][i], k)
<1> DEFINE p == PathOf[r][i]
           q == PathOf[r][j]
<1>1. p \in Path /\ q \in Path /\ j \in Input BY Zenon, GoodTyped
<1>2. k \in DOMAIN Slice[p] /\ k \in Nat \ {0} /\ k - 1 \in 0 .. Len(Slice[p])
  BY Zenon, <1>1, SliceIndex DEF NonRed
<1>3. j \in Meaning(Canon(p, k)) /\ j \in f
  <2>1. \A d \in Canon(p, k) \cup {{f}} : j \in UNION d BY Zenon DEF Meaning
  <2>2. j \in UNION {f} BY Zenon, <2>1
  <2> QED BY Zenon, <1>1, <2>1, <2>2 DEF Meaning
<1>4. j \in Before(p, k) BY Zenon, <1>1, <1>2, <1>3, GoodMeaning
<1>5. Same(p, q, k) BY Zenon, <1>2, <1>4, SameBefore
<1>6. k \in DOMAIN Slice[q] /\ f \in Slice[q][k].cond /\ SameAsserted(p, q, k)
  BY Zenon, <1>2, <1>3, <1>4, MeetsAsserted
<1>7. Same(q, p, k) BY Zenon, <1>5 DEF Same, SameAsserted
<1>8. NonRed(q, k) BY Zenon, <1>6, <1>7, NonRedShared
<1> QED BY Zenon, <1>4, <1>5, <1>6, <1>8

\* The kept assertions up to a branch are satisfied by the good inputs before it.
LEMMA KeptHold ==
  ASSUME NEW r \in Region, SlicesAgree(r), NEW i \in Good(r), NEW j \in Good(r),
         NEW k \in DOMAIN Slice[PathOf[r][i]], j \in Before(PathOf[r][i], k)
  PROVE  \A c \in Kept(PathOf[r][i], k) : j \in UNION c
<1> DEFINE p == PathOf[r][i]
<1>1. p \in Path BY Zenon, GoodTyped
<1>2. j \in Holds(p, k) BY Zenon, MeetsAsserted
<1>3. \A m \in 1 .. k : m \in 1 .. k - 1 \/ m = k BY Zenon, <1>1, SliceIndex
<1>4. \A m \in 1 .. k : j \in Holds(p, m) BY Zenon, <1>2, <1>3, BeforeHolds
<1> HIDE DEF p
<1>5. ASSUME NEW c \in Kept(p, k) PROVE j \in UNION c
  <2>1. PICK m \in 1 .. k : c \in Slice[p][m].kept BY Zenon DEF Kept
  <2> QED BY Zenon, <1>4, <2>1 DEF Holds, Meaning
<1> QED BY Zenon, <1>5 DEF p

\* Paths that share the assertions up to a branch keep the same.
LEMMA SameKept ==
  ASSUME NEW p \in Path, NEW q \in Path, NEW k \in DOMAIN Slice[p],
         Same(p, q, k), SameAsserted(p, q, k)
  PROVE  Kept(p, k) = Kept(q, k)
<1>1. \A m \in 1 .. k : m \in 1 .. k - 1 \/ m = k BY Zenon, SliceIndex
<1>2. \A m \in 1 .. k : Slice[p][m].kept = Slice[q][m].kept BY Zenon, <1>1 DEF Same, SameAsserted
<1> QED BY Zenon, <1>2 DEF Kept
-----------------------------------------------------------------------------
(* The inductive invariant of the search in one region.                       *)

Slicing == stage \in {"branch", "flips"}

\* A path has added C to the explored set, or flipped a branch to it, before
\* branch l.
Added(p, l, C) == \E k \in 1 .. l - 1 : NonRed(p, k) /\ C \in Ext(p, k)
Flipped(p, l, C) ==
  \E k \in 1 .. l - 1 : NonRed(p, k) /\ \E f \in Slice[p][k].flips : C = Canon(p, k) \cup {{f}}

\* It has done so where the extra invariants D were kept.
FlippedWith(p, l, C, D) ==
  \E k \in 1 .. l - 1 : /\ NonRed(p, k) /\ \E f \in Slice[p][k].flips : C = Canon(p, k) \cup {{f}}
                        /\ D \subseteq Kept(p, k)

Entries == [canon : SUBSET Cond, extra : SUBSET Cond]

SearchTyped ==
  /\ stage \in {"idle", "branch", "flips", "subsume"} /\ phase \in {"root", "run", "done"}
  /\ current \in Region
  /\ frontier \in Seq(Entries) /\ given \subseteq Cond
  /\ explored \in Seq(Schedule)
  /\ list \in Seq([cond : Cond, node : Nat])
  /\ pos \in Nat \ {0} /\ canon \subseteq Cond /\ todo \subseteq Atom
  /\ stage = "flips" => pos \in DOMAIN Slice[path]
  /\ base \subseteq Cond /\ queue \subseteq Path
  /\ stage # "idle" => path \in Path
  /\ phase # "run" => stage = "idle" /\ queue = {} /\ frontier = <<>>
  /\ phase = "root" => explored = <<>> /\ exploredSet = {} /\ frontierSet = {} /\ given = {}

\* The running states follow paths of the constraint they were forked under.
QueueInv == queue \subseteq PathsUnder(base)

\* processSlice's locals.
SliceInv ==
  Slicing => /\ path \in queue /\ path \notin Fails
             /\ pos \in 1 .. Last(path)
             /\ canon = Canon(path, pos)
             /\ canon = {list[k].cond : k \in DOMAIN list}
             /\ stage = "flips" => NonRed(path, pos) /\ todo \subseteq Entry.flips

\* The schedules found are good paths with their canonical constraints.
ExploredInv ==
  \A n \in DOMAIN explored :
    /\ GoodPath(current, explored[n].path)
    /\ Conditions(explored[n]) = Canon(explored[n].path, Last(explored[n].path))

\* The caches hold what the explored paths, and the current one so far, have
\* put there.
CacheInv ==
  /\ \A C \in exploredSet :
       \/ \E n \in DOMAIN explored : Added(explored[n].path, Last(explored[n].path), C)
       \/ Slicing /\ Added(path, pos, C)
  /\ \A C \in frontierSet :
       \/ \E n \in DOMAIN explored : Flipped(explored[n].path, Last(explored[n].path), C)
       \/ Slicing /\ Flipped(path, pos, C)
       \/ stage = "flips" /\ \E f \in Entry.flips \ todo : C = canon \cup {{f}}
  /\ phase = "run" =>
       \A n \in DOMAIN explored : \A C :
         Added(explored[n].path, Last(explored[n].path), C) => C \in exploredSet
  /\ Slicing => \A C : Added(path, pos, C) => C \in exploredSet
  /\ \A n \in DOMAIN frontier : frontier[n].canon \in frontierSet

\* An entry of the frontier is a flip of one of these paths, and its extra
\* invariants were kept there.
OriginInv ==
  \A n \in DOMAIN frontier :
    \/ \E m \in DOMAIN explored :
         FlippedWith(explored[m].path, Last(explored[m].path), frontier[n].canon, frontier[n].extra)
    \/ Slicing /\ FlippedWith(path, pos, frontier[n].canon, frontier[n].extra)
    \/ /\ stage = "flips" /\ frontier[n].extra \subseteq Kept(path, pos)
       /\ \E f \in Entry.flips \ todo : frontier[n].canon = canon \cup {{f}}

\* No flip of these paths is forgotten.
SeenInv ==
  /\ phase = "run" =>
       \A n \in DOMAIN explored : \A C :
         Flipped(explored[n].path, Last(explored[n].path), C) => alreadySeen(C)
  /\ Slicing => \A C : Flipped(path, pos, C) => alreadySeen(C)
  /\ stage = "flips" => \A f \in Entry.flips \ todo : alreadySeen(canon \cup {{f}})

\* Nothing on the frontier has been explored, outside processSlice.
FrontierInv ==
  \A n \in DOMAIN frontier :
    stage = "idle" \/ (stage = "subsume" /\ n < pos) => frontier[n].canon \notin exploredSet

\* What runs is the whole region, or a flip that no path has explored.
BaseInv ==
  queue # {} /\ stage # "subsume" =>
    \/ base = {} /\ given = {} /\ explored = <<>>
    \/ /\ \E n \in DOMAIN explored : FlippedWith(explored[n].path, Last(explored[n].path), base, given)
       /\ \A n \in DOMAIN explored : ~Added(explored[n].path, Last(explored[n].path), base)

\* An input is safe when a schedule covers it or an unexplored constraint on the
\* frontier admits it.
Safe(i) ==
  \/ Covered(explored, i)
  \/ \E n \in DOMAIN frontier :
       frontier[n].canon \notin exploredSet /\ i \in Meaning(frontier[n].canon)

\* The branch of the current path whose flip it runs under, 0 if there is none.
Depth(d) ==
  \/ d = 0 /\ base = {} /\ given = {}
  \/ /\ NonRed(path, d)
     /\ \E f \in Slice[path][d].cond : base = Canon(path, d) \cup {{f}}
     /\ given \subseteq Kept(path, d)
     /\ \A C : Added(path, d, C) => C \in exploredSet
     /\ \A C : Flipped(path, d, C) => alreadySeen(C)

\* The input satisfies that branch and the slice so far.
InProgress(d, i) ==
  /\ i \in Before(path, d + 1) /\ i \in Before(path, pos)
  /\ stage = "flips" => i \in UNION Entry.cond \/ i \in UNION todo

PendingInv ==
  phase = "run" /\ SlicesAgree(current) =>
    /\ stage = "idle" =>
         \A i \in Good(current) : Safe(i) \/ (i \in Meaning(base) /\ PathOf[current][i] \in queue)
    /\ stage = "subsume" => \A i \in Good(current) : Safe(i)
    /\ Slicing => \E d \in Nat : Depth(d) /\ \A i \in Good(current) : Safe(i) \/ InProgress(d, i)
-----------------------------------------------------------------------------
(* Types.                                                                    *)

\* What is below the next position is below this one or at it.
LEMMA BelowNext ==
  ASSUME NEW l \in Nat, NEW k \in Nat
  PROVE  \A n \in 1 .. l : n < k + 1 => n < k \/ n = k
OBVIOUS

\* Appending an element keeps the others and puts it last.
LEMMA Appended ==
  ASSUME NEW S, NEW s \in Seq(S), NEW e, NEW t, t = Append(s, e)
  PROVE  /\ \A n \in DOMAIN s : n \in DOMAIN t /\ t[n] = s[n]
         /\ \A n \in DOMAIN t : (n \in DOMAIN s /\ t[n] = s[n]) \/ (n = Len(s) + 1 /\ t[n] = e)
         /\ Len(s) + 1 \in DOMAIN t /\ t[Len(s) + 1] = e
<1>1. DOMAIN s = 1 .. Len(s) /\ Len(s) \in Nat OBVIOUS
<1>2. DOMAIN t = 1 .. Len(s) + 1 /\ t[Len(s) + 1] = e /\ \A n \in 1 .. Len(s) : t[n] = s[n]
  BY SMTT(30)
<1>3. /\ \A n \in DOMAIN s : n \in DOMAIN t
      /\ \A n \in DOMAIN t : n \in DOMAIN s \/ n = Len(s) + 1
      /\ Len(s) + 1 \in DOMAIN t
  BY ONLY <1>1, <1>2
<1> QED BY Zenon, <1>1, <1>2, <1>3

\* Erasing an element keeps the others.
LEMMA WithoutTyped ==
  ASSUME NEW S, NEW s \in Seq(S), NEW k \in DOMAIN s
  PROVE  /\ Without(s, k) \in Seq(S)
         /\ Len(Without(s, k)) = Len(s) - 1
         /\ \A n \in DOMAIN s : n < k => n \in DOMAIN Without(s, k) /\ Without(s, k)[n] = s[n]
         /\ \A n \in DOMAIN s : n > k => n - 1 \in DOMAIN Without(s, k) /\ Without(s, k)[n - 1] = s[n]
         /\ \A n \in DOMAIN Without(s, k) : \E m \in DOMAIN s : Without(s, k)[n] = s[m]
<1>1. Len(s) \in Nat /\ DOMAIN s = 1 .. Len(s) /\ k \in 1 .. Len(s) OBVIOUS
<1>2. Len(s) - 1 \in Nat BY <1>1
<1>3. \A j \in 1 .. Len(s) - 1 : (IF j < k THEN s[j] ELSE s[j + 1]) \in S BY <1>1
<1>4. Without(s, k) \in [1 .. Len(s) - 1 -> S] BY Zenon, <1>3 DEF Without
<1>5. Without(s, k) \in Seq(S) /\ Len(Without(s, k)) = Len(s) - 1 BY <1>2, <1>4
<1>6. \A j \in 1 .. Len(s) - 1 : Without(s, k)[j] = IF j < k THEN s[j] ELSE s[j + 1]
  BY Zenon DEF Without
<1>7. DOMAIN Without(s, k) = 1 .. Len(s) - 1 BY Zenon, <1>4
<1>8. \A n \in DOMAIN s : n < k => n \in DOMAIN Without(s, k) /\ Without(s, k)[n] = s[n]
  BY SMTT(30), <1>1, <1>6, <1>7
<1>9. \A n \in DOMAIN s : n > k => n - 1 \in DOMAIN Without(s, k) /\ Without(s, k)[n - 1] = s[n]
  BY SMTT(30), <1>1, <1>6, <1>7
<1>10. \A n \in DOMAIN Without(s, k) : \E m \in DOMAIN s : Without(s, k)[n] = s[m]
  <2> SUFFICES ASSUME NEW n \in 1 .. Len(s) - 1
               PROVE  \E m \in DOMAIN s : Without(s, k)[n] = s[m]
    BY Zenon, <1>7
  <2>1. n \in DOMAIN s /\ n + 1 \in DOMAIN s BY SMTT(30), <1>1
  <2> QED BY Zenon, <1>6, <2>1
<1> QED BY Zenon, <1>5, <1>8, <1>9, <1>10

\* The search's state has its types in the beginning.
LEMMA TypedInit == Init => SearchTyped
  BY ProgramAssumption DEF Init, PathInit, SearchTyped

\* The extra invariants are conditions.
LEMMA ExtraTyped ==
  ASSUME SearchTyped, stage = "flips"
  PROVE  extraInvariants \subseteq Cond
<1>1. path \in Path /\ pos \in DOMAIN Slice[path] /\ given \subseteq Cond BY Zenon DEF SearchTyped
<1>2. \A m \in 1 .. pos : m \in DOMAIN Slice[path] BY Zenon, <1>1, SliceIndex
<1>3. \A m \in 1 .. pos : Slice[path][m].kept \subseteq Cond BY Zenon, <1>1, <1>2, SliceTyped
<1> QED BY Zenon, <1>1, <1>3 DEF extraInvariants, Kept

\* Every action keeps the types: processSlice only queues and records conditions,
\* and a region that waits has no schedules yet.
LEMMA TypedStep ==
  ASSUME SearchTyped, [Next]_vars,
         \A r \in (regionsFrontier \cup localFrontier) : r \in Region /\ schedules[r] = <<>> /\ r # current,
         schedules = [r \in Region |-> schedules[r]]
  PROVE  SearchTyped'
<1> USE DEF SearchTyped
<1>1. CASE onIcsBegin
  BY <1>1, ProgramAssumption DEF onIcsBegin, pathVars, seen, builder, PathsUnder, Meaning
<1>2. CASE onStateDiscarded
  BY Zenon, <1>2 DEF onStateDiscarded, Discard, pathVars, seen, builder
<1>3. CASE EndPath
  BY <1>3 DEF EndPath, BeginSlice, search, seen
<1>4. CASE processSlice /\ UNCHANGED <<search, ids, others, localFrontier>>
  <2>1. UNCHANGED <<phase, current, base, queue, path>>
    BY Zenon, <1>4 DEF processSlice, search, SkipBranch, TakeBranch, PushFlip, addExplored, EndSlice, Subsume
  <2>2. CASE SkipBranch BY <2>1, <2>2 DEF SkipBranch, seen
  <2>3. CASE TakeBranch BY Zenon, <2>1, <2>3, SliceTyped DEF TakeBranch, seen, Entry
  <2>4. CASE PushFlip
    <3>1. \A f \in todo : canon \cup {{f}} \in SUBSET Cond BY ZenonT(60) DEF Cond
    <3>2. frontier' \in Seq(Entries)
      <4>1. PICK f \in todo :
              \/ frontier' = Append(frontier, [canon |-> canon \cup {{f}}, extra |-> extraInvariants])
              \/ frontier' = frontier
        BY Zenon, <2>4 DEF PushFlip
      <4> DEFINE e == [canon |-> canon \cup {{f}}, extra |-> extraInvariants]
      <4>2. extraInvariants \in SUBSET Cond BY Zenon, <2>4, ExtraTyped DEF PushFlip
      <4>3. e \in Entries BY Zenon, <3>1, <4>2 DEF Entries
      <4> HIDE DEF e
      <4>4. frontier \in Seq(Entries) BY Zenon
      <4>5. Append(frontier, e) \in Seq(Entries) BY ONLY <4>3, <4>4
      <4> QED BY Zenon, <4>1, <4>4, <4>5 DEF e
    <3>3. todo' \subseteq Atom BY Zenon, <2>4 DEF PushFlip
    <3> QED BY Zenon, <2>1, <2>4, <3>2, <3>3 DEF PushFlip
  <2>5. CASE addExplored
    <3>1. Entry.cond \in Cond /\ Entry.node \in Nat
      BY Zenon, <2>5, SliceTyped DEF addExplored, Entry
    <3>2. [cond |-> Entry.cond, node |-> Entry.node] \in [cond : Cond, node : Nat] BY Zenon, <3>1
    <3>3. list' \in Seq([cond : Cond, node : Nat]) BY <2>5, <3>2 DEF addExplored
    <3> QED BY <2>1, <2>5, <3>1, <3>3 DEF addExplored
  <2>6. CASE EndSlice
    <3>1. [path |-> path, list |-> list] \in Schedule BY Zenon, <2>6 DEF EndSlice, Schedule
    <3> QED BY <2>1, <2>6, <3>1 DEF EndSlice, seen
  <2>7. CASE Subsume
    <3>1. Without(frontier, pos) \in Seq(Entries) BY Zenon, <2>7, WithoutTyped DEF Subsume
    <3> QED BY <2>1, <2>7, <3>1 DEF Subsume, seen
  <2> QED BY Zenon, <1>4, <2>2, <2>3, <2>4, <2>5, <2>6, <2>7 DEF processSlice
<1>5. CASE processPath
  BY <1>5 DEF processPath, EndSubsume, others, seen
<1>6. CASE NextPath
  <2>1. frontier \in Seq(Entries) /\ frontier # <<>> /\ frontier' = Tail(frontier)
    BY Zenon, <1>6 DEF NextPath, instantiateNextInput
  <2>2. Head(frontier) \in Entries /\ frontier' \in Seq(Entries) BY ONLY <2>1
  <2>3. Head(frontier).canon \subseteq Cond /\ Head(frontier).extra \subseteq Cond
    BY Zenon, <2>2 DEF Entries
  <2>4. base' \subseteq Cond /\ given' \subseteq Cond
    BY Zenon, <1>6, <2>3 DEF NextPath, instantiateNextInput
  <2>5. queue' \subseteq Path
    <3>1. \A i \in Input : PathOf[current][i] \in Path BY ProgramAssumption
    <3> QED BY Zenon, <1>6, <3>1 DEF NextPath, PathsUnder, Meaning
  <2> QED BY Zenon, <1>6, <2>2, <2>4, <2>5 DEF NextPath, instantiateNextInput, seen, builder, others
<1>7. CASE NextRegion
  <2>1. CASE regionsFrontier \cup localFrontier = {}
    BY Zenon, <1>7, <2>1 DEF NextRegion, CachesCleared, builder
  <2>2. CASE regionsFrontier \cup localFrontier # {}
    <3>1. PICK r \in regionsFrontier \cup localFrontier :
            phase' = "root" /\ current' = r /\ explored' = schedules'[r]
      BY Zenon, <1>7, <2>2 DEF NextRegion
    <3>2. schedules' = [schedules EXCEPT ![current] = explored] BY Zenon, <1>7 DEF NextRegion
    <3>3. schedules'[r] = schedules[r] BY Zenon, <3>1, <3>2
    <3>4. explored' = <<>> BY Zenon, <3>1, <3>3
    <3>5. /\ UNCHANGED <<frontier, stage, path, pos, canon, list, todo, queue>>
          /\ frontier = <<>> /\ stage = "idle" /\ queue = {}
          /\ base' = {} /\ given' = {} /\ frontierSet' = {} /\ exploredSet' = {}
      BY Zenon, <1>7 DEF NextRegion, CachesCleared, builder
    <3>6. r \in Region BY Zenon
    <3>7. explored' \in Seq(Schedule) BY SMT, <3>4
    <3> QED BY Zenon, <3>1, <3>4, <3>5, <3>6, <3>7
  <2> QED BY Zenon, <2>1, <2>2
<1>8. CASE UNCHANGED vars
  BY Zenon, <1>8 DEF vars, pathVars, search, seen, builder
<1> QED BY Zenon, <1>1, <1>2, <1>3, <1>4, <1>5, <1>6, <1>7, <1>8 DEF Next
-----------------------------------------------------------------------------
(* The regions: each is explored once and has an id of its own.               *)

met == regions \cup localRegions

RegionInv ==
  /\ regions \subseteq Region /\ localRegions \subseteq Region /\ completed \subseteq Region
  /\ regionsFrontier \subseteq Region /\ localFrontier \subseteq Region
  /\ numericId \in [Region -> Nat] /\ nextId \in Nat \ {0}
  /\ schedules = [r \in Region |-> schedules[r]]
  /\ \A r \in Region \ completed : schedules[r] = <<>>
  /\ stage = "subsume" => explored # <<>> /\ explored[Len(explored)].path = path
  /\ \A n \in DOMAIN explored :
       n < Len(explored) \/ stage # "subsume" => Target[explored[n].path] \subseteq met
  /\ phase = "done" => current \in completed
  /\ Initial \in met

\* In the beginning the initial region is the only one, with id 1.
LEMMA RegionInit == Init => RegionInv /\ RegionsOnce /\ IdsDense
<1> SUFFICES ASSUME Init PROVE RegionInv /\ RegionsOnce /\ IdsDense OBVIOUS
<1>1. RegionInv /\ RegionsOnce
  BY ProgramAssumption DEF Init, PathInit, RegionInv, RegionsOnce, met
<1>2. IdsDense
  <2>1. regions \cup localRegions = {Initial} /\ numericId[Initial] = 1 /\ nextId = 2
    BY Zenon, ProgramAssumption DEF Init
  <2>2. {numericId[r] : r \in regions \cup localRegions} = 1 .. nextId - 1 BY <2>1
  <2> QED BY Zenon, <2>1, <2>2 DEF IdsDense
<1> QED BY Zenon, <1>1, <1>2

\* A step that leaves the regions and the schedules alone.
LEMMA RegionKept ==
  ASSUME RegionInv, RegionsOnce, IdsDense,
         UNCHANGED <<regions, localRegions, completed, regionsFrontier, localFrontier,
                     numericId, nextId, schedules, current>>,
         phase' = "done" <=> phase = "done"
  PROVE  /\ RegionsOnce' /\ IdsDense'
         /\ UNCHANGED <<explored, path, stage>> => RegionInv'
         /\ (UNCHANGED explored /\ stage # "subsume" /\ stage' # "subsume") => RegionInv'
<1>1. RegionsOnce' BY Zenon DEF RegionsOnce
<1>2. IdsDense' BY Zenon DEF IdsDense
<1>3. UNCHANGED <<explored, path, stage>> => RegionInv' BY Zenon DEF RegionInv, met
<1>4. (UNCHANGED explored /\ stage # "subsume" /\ stage' # "subsume") => RegionInv'
  BY Zenon DEF RegionInv, met
<1> QED BY Zenon, <1>1, <1>2, <1>3, <1>4

\* Every action keeps the regions apart: addRegion numbers a region once, and the
\* end of a region moves it from the frontiers to the completed ones.
LEMMA RegionStep ==
  ASSUME SearchTyped, RegionInv, RegionsOnce, IdsDense, [Next]_vars
  PROVE  RegionInv' /\ RegionsOnce' /\ IdsDense'
<1> DEFINE Regs == <<regions, localRegions, completed, regionsFrontier, localFrontier,
                     numericId, nextId, schedules, current>>
<1>1. CASE onIcsBegin
  <2>1. UNCHANGED Regs /\ UNCHANGED <<explored, path, stage>> /\ phase = "root" /\ phase' = "run"
    BY Zenon, <1>1 DEF onIcsBegin, pathVars, builder, ids, others
  <2> QED BY Zenon, <2>1, RegionKept
<1>2. CASE onStateDiscarded
  <2>1. UNCHANGED Regs /\ UNCHANGED <<explored, path, stage, phase>>
    BY Zenon, <1>2 DEF onStateDiscarded, pathVars, builder, ids, others
  <2> QED BY Zenon, <2>1, RegionKept
<1>3. CASE EndPath
  <2>1. UNCHANGED Regs /\ UNCHANGED <<explored, phase>> /\ stage = "idle" /\ stage' = "branch"
    BY Zenon, <1>3 DEF EndPath, BeginSlice, search, ids, others
  <2> QED BY Zenon, <2>1, RegionKept
<1>4. CASE processSlice /\ UNCHANGED <<search, ids, others, localFrontier>>
  <2>1. UNCHANGED Regs /\ UNCHANGED phase BY Zenon, <1>4 DEF search, ids, others
  <2>2. CASE SkipBranch \/ TakeBranch \/ PushFlip \/ addExplored
    <3>1. UNCHANGED explored /\ stage # "subsume" /\ stage' # "subsume"
      BY Zenon, <2>2 DEF SkipBranch, TakeBranch, PushFlip, addExplored
    <3> QED BY Zenon, <2>1, <3>1, RegionKept
  <2>3. CASE EndSlice
    <3>1. RegionsOnce' /\ IdsDense' BY Zenon, <2>1, RegionKept
    <3>2. /\ explored' = Append(explored, [path |-> path, list |-> list])
          /\ stage = "branch" /\ stage' = "subsume" /\ path' = path
      BY Zenon, <2>3 DEF EndSlice
    <3> DEFINE e == [path |-> path, list |-> list]
    <3>3. e.path = path OBVIOUS
    <3> HIDE DEF e
    <3>4. explored' = Append(explored, e) BY Zenon, <3>2 DEF e
    <3>5. /\ explored' # <<>> /\ Len(explored') = Len(explored) + 1
          /\ explored'[Len(explored')] = e
          /\ \A n \in DOMAIN explored' : n < Len(explored') => n \in DOMAIN explored /\ explored'[n] = explored[n]
      BY <3>4 DEF SearchTyped
    <3>6. explored'[Len(explored')].path = path' BY Zenon, <3>2, <3>3, <3>5
    <3>7. met' = met BY Zenon, <2>1 DEF met
    <3>8. \A n \in DOMAIN explored' :
            n < Len(explored') \/ stage' # "subsume" => Target[explored'[n].path] \subseteq met'
      BY Zenon, <3>2, <3>5, <3>7 DEF RegionInv
    <3>9. RegionInv' BY Zenon, <2>1, <3>5, <3>6, <3>7, <3>8 DEF RegionInv
    <3> QED BY Zenon, <3>1, <3>9
  <2>4. CASE Subsume
    <3>1. UNCHANGED <<explored, path, stage>> BY Zenon, <2>4 DEF Subsume
    <3> QED BY Zenon, <2>1, <3>1, RegionKept
  <2> QED BY Zenon, <1>4, <2>2, <2>3, <2>4 DEF processSlice
<1>5. CASE processPath
  <2>1. /\ UNCHANGED <<regions, regionsFrontier, completed, schedules, current, phase, explored, path>>
        /\ stage = "subsume" /\ stage' = "idle" /\ phase = "run"
    BY Zenon, <1>5 DEF processPath, EndSubsume, others, SearchTyped
  <2>2. path \in Path BY Zenon, <2>1 DEF SearchTyped
  <2>3. ASSUME met' = met \cup Target[path], RegionsOnce', IdsDense', localRegions' \subseteq Region,
               localFrontier' \subseteq Region, numericId' \in [Region -> Nat], nextId' \in Nat \ {0}
        PROVE  RegionInv'
    <3>1. \A n \in DOMAIN explored' : Target[explored'[n].path] \subseteq met'
      <4>1. SUFFICES ASSUME NEW n \in DOMAIN explored PROVE Target[explored[n].path] \subseteq met'
        BY Zenon, <2>1
      <4>2. n < Len(explored) \/ n = Len(explored) BY DEF SearchTyped
      <4>3. CASE n < Len(explored) BY Zenon, <4>3, <2>3 DEF RegionInv
      <4>4. CASE n = Len(explored) BY Zenon, <4>4, <2>1, <2>3 DEF RegionInv
      <4> QED BY Zenon, <4>2, <4>3, <4>4
    <3> QED BY Zenon, <2>1, <2>3, <3>1 DEF RegionInv
  <2>4. CASE Target[path] = {}
    <3>1. UNCHANGED <<localRegions, numericId, nextId, localFrontier>>
      BY Zenon, <1>5, <2>4 DEF processPath, ids
    <3>2. RegionsOnce' BY Zenon, <2>1, <3>1 DEF RegionsOnce
    <3>3. IdsDense' BY Zenon, <2>1, <3>1 DEF IdsDense
    <3>4. met' = met \cup Target[path] BY Zenon, <2>1, <2>4, <3>1 DEF met
    <3> QED BY Zenon, <2>3, <3>1, <3>2, <3>3, <3>4 DEF RegionInv
  <2>5. CASE Target[path] # {}
    <3>1. PICK r \in Target[path] :
            /\ addRegion(r)
            /\ localFrontier' = IF r \in KnownRegions THEN localFrontier ELSE localFrontier \cup {r}
      BY Zenon, <1>5, <2>5 DEF processPath
    <3>2. Target[path] = {r} /\ r \in Region BY <2>2, ProgramAssumption
    <3>3. localRegions' = localRegions \cup {r} BY Zenon, <3>1 DEF addRegion
    <3>4. met' = met \cup Target[path] BY Zenon, <2>1, <3>2, <3>3 DEF met
    <3>5. CASE r \in met
      <4>1. UNCHANGED <<numericId, nextId, localFrontier>>
        BY Zenon, <3>1, <3>5 DEF addRegion, KnownRegions, met
      <4>2. regions' \cup localRegions' = regions \cup localRegions
        BY Zenon, <2>1, <3>3, <3>5 DEF met
      <4>3. RegionsOnce' BY Zenon, <2>1, <4>1, <4>2 DEF RegionsOnce
      <4>4. IdsDense' BY ZenonT(60), <2>1, <4>1, <4>2 DEF IdsDense
      <4> QED BY Zenon, <2>3, <3>2, <3>3, <3>4, <4>1, <4>3, <4>4 DEF RegionInv
    <3>6. CASE r \notin met
      <4>1. /\ numericId' = [numericId EXCEPT ![r] = nextId] /\ nextId' = nextId + 1
            /\ localFrontier' = localFrontier \cup {r}
        BY Zenon, <3>1, <3>6 DEF addRegion, KnownRegions, met
      <4>2. regions' \cup localRegions' = (regions \cup localRegions) \cup {r}
        BY Zenon, <2>1, <3>3
      <4>3. RegionsOnce' BY <2>1, <3>6, <4>1, <4>2 DEF RegionsOnce, met
      <4>4. IdsDense'
        <5>1. /\ \A s \in met : numericId'[s] = numericId[s] /\ s \in Region
              /\ numericId'[r] = nextId
          BY Zenon, <3>2, <3>6, <4>1 DEF RegionInv, met
        <5>2. /\ {numericId[s] : s \in met} = 1 .. nextId - 1
              /\ \A s, t \in met : numericId[s] = numericId[t] => s = t
              /\ numericId[Initial] = 1 /\ nextId \in Nat \ {0}
          BY Zenon DEF IdsDense, met, RegionInv
        <5>3. \A s \in met : numericId'[s] \in 1 .. nextId - 1 BY Zenon, <5>1, <5>2
        <5>4. \A m \in 1 .. nextId - 1 : \E s \in met : numericId'[s] = m BY <5>1, <5>2
        <5>5. {numericId'[s] : s \in met \cup {r}} = 1 .. nextId' - 1
          BY <5>1, <5>2, <5>3, <5>4, <4>1
        <5>6. \A s, t \in met \cup {r} : numericId'[s] = numericId'[t] => s = t
          BY <5>1, <5>2, <5>3
        <5>7. numericId'[Initial] = 1 BY Zenon, <5>1, <5>2 DEF RegionInv
        <5> QED BY Zenon, <4>2, <5>5, <5>6, <5>7 DEF IdsDense, met
      <4> QED BY <2>3, <3>2, <3>3, <3>4, <4>1, <4>3, <4>4 DEF RegionInv
    <3> QED BY Zenon, <3>5, <3>6
  <2> QED BY Zenon, <2>4, <2>5
<1>6. CASE NextPath
  <2>1. UNCHANGED Regs /\ UNCHANGED <<explored, path, stage, phase>>
    BY Zenon, <1>6 DEF NextPath, instantiateNextInput, builder, ids, others
  <2> QED BY Zenon, <2>1, RegionKept
<1>7. CASE UNCHANGED vars
  <2>1. UNCHANGED Regs /\ UNCHANGED <<explored, path, stage, phase>>
    BY Zenon, <1>7 DEF vars, pathVars, search, builder, ids, others
  <2> QED BY Zenon, <2>1, RegionKept
<1>8. CASE NextRegion
  <2> DEFINE waiting == regionsFrontier \cup localFrontier
  <2>1. /\ phase = "run" /\ stage = "idle" /\ stage' = "idle"
        /\ regions' = met /\ localFrontier' = {}
        /\ completed' = completed \cup {current}
        /\ schedules' = [schedules EXCEPT ![current] = explored]
        /\ numericId' = numericId /\ nextId' = nextId
    BY Zenon, <1>8 DEF NextRegion, met, builder
  <2>2. \A n \in DOMAIN explored : Target[explored[n].path] \subseteq met BY Zenon, <2>1 DEF RegionInv
  <2>3. /\ current \in Region /\ current \in met /\ current \notin completed
        /\ waiting \subseteq met /\ current \notin waiting /\ waiting \cap completed = {}
        /\ met = completed \cup {current} \cup waiting
    BY Zenon, <2>1 DEF SearchTyped, RegionsOnce, met
  <2>4. /\ schedules' = [r \in Region |-> schedules'[r]]
        /\ schedules'[current] = explored
        /\ \A r \in Region \ {current} : schedules'[r] = schedules[r]
    BY Zenon, <2>1, <2>3 DEF RegionInv
  <2>5. \A r \in completed' : \A n \in DOMAIN schedules'[r] : Target[schedules'[r][n].path] \subseteq met
    BY ZenonT(60), <2>1, <2>2, <2>4 DEF RegionsOnce, RegionInv, met
  <2>6. \A r \in Region \ completed' : schedules'[r] = <<>>
    BY Zenon, <2>1, <2>3, <2>4 DEF RegionInv
  <2>7. met' = met => IdsDense' BY Zenon, <2>1 DEF IdsDense, met
  <2>8. CASE waiting = {}
    <3>1. /\ phase' = "done" /\ localRegions' = {}
          /\ explored' = explored /\ current' = current /\ regionsFrontier' = regionsFrontier
      BY Zenon, <1>8, <2>8 DEF NextRegion
    <3>2. met' = met BY Zenon, <2>1, <3>1 DEF met
    <3>3. RegionsOnce' BY <2>1, <2>3, <2>5, <2>8, <3>1, <3>2 DEF RegionsOnce, met
    <3>4. RegionInv' BY Zenon, <2>1, <2>2, <2>3, <2>4, <2>6, <3>1, <3>2 DEF RegionInv, met
    <3> QED BY Zenon, <2>7, <3>2, <3>3, <3>4
  <2>9. CASE waiting # {}
    <3>1. PICK r \in waiting :
            /\ phase' = "root" /\ current' = r /\ localRegions' = {r}
            /\ explored' = schedules'[r] /\ regionsFrontier' = waiting \ {r}
      BY Zenon, <1>8, <2>9 DEF NextRegion
    <3>2. met' = met BY Zenon, <2>1, <2>3, <3>1 DEF met
    <3>3. RegionsOnce' BY <2>1, <2>3, <2>5, <3>1, <3>2 DEF RegionsOnce, met
    <3>4. r \in Region \ completed' BY Zenon, <2>1, <2>3, <3>1 DEF RegionInv, met
    <3>5. explored' = <<>> BY Zenon, <2>6, <3>1, <3>4
    <3>6. RegionInv' BY ZenonT(60), SMTT(30), <2>1, <2>3, <2>4, <2>6, <3>1, <3>2, <3>4, <3>5 DEF RegionInv, met
    <3> QED BY Zenon, <2>7, <3>2, <3>3, <3>6
  <2> QED BY Zenon, <2>8, <2>9
<1> QED BY Zenon, <1>1, <1>2, <1>3, <1>4, <1>5, <1>6, <1>7, <1>8 DEF Next
-----------------------------------------------------------------------------
(* The search in one region, action by action.                               *)

SearchInv ==
  /\ QueueInv /\ SliceInv /\ ExploredInv /\ CacheInv /\ OriginInv /\ SeenInv /\ FrontierInv
  /\ BaseInv /\ PendingInv /\ NoPathTwice

\* The search begins with nothing explored.
LEMMA SearchInit == Init => SearchInv
  BY DEF Init, PathInit, SearchInv, QueueInv, SliceInv, ExploredInv, CacheInv, OriginInv, SeenInv,
         FrontierInv, BaseInv, PendingInv, NoPathTwice, Slicing

\* Between two paths nothing of processSlice is left.
LEMMA SearchBegin ==
  ASSUME SearchTyped, SearchInv, SlicesAgree(current), onIcsBegin
  PROVE  SearchInv'
<1>1. /\ phase = "root" /\ phase' = "run" /\ stage = "idle" /\ stage' = "idle"
      /\ explored = <<>> /\ exploredSet = {} /\ frontierSet = {} /\ frontier = <<>>
      /\ explored' = <<>> /\ exploredSet' = {} /\ frontierSet' = {} /\ frontier' = <<>>
      /\ base' = {} /\ given' = {} /\ current' = current
      /\ queue' = {PathOf[current][i] : i \in Meaning({})}
  BY Zenon DEF onIcsBegin, SearchTyped, pathVars, seen, builder, PathsUnder
<1>2. QueueInv' BY ZenonT(60), <1>1 DEF QueueInv, PathsUnder
<1>3. /\ SliceInv' /\ ExploredInv' /\ CacheInv' /\ OriginInv' /\ SeenInv'
      /\ FrontierInv' /\ BaseInv' /\ NoPathTwice'
  <2>1. \A n : n \notin DOMAIN explored' /\ n \notin DOMAIN frontier' BY ONLY <1>1
  <2>2. CacheInv' BY Zenon, <1>1, <2>1 DEF CacheInv, Slicing
  <2> QED BY Zenon, <1>1, <2>1, <2>2
      DEF SliceInv, ExploredInv, OriginInv, SeenInv, FrontierInv, BaseInv, NoPathTwice, Slicing
<1>4. PendingInv'
  <2>1. \A i \in Good(current) : i \in Meaning({}) BY Zenon DEF Good, Meaning
  <2>2. \A i \in Good(current') : i \in Meaning(base') /\ PathOf[current'][i] \in queue'
    BY Zenon, <1>1, <2>1
  <2> QED BY Zenon, <1>1, <2>2 DEF PendingInv, Slicing
<1> QED BY Zenon, <1>2, <1>3, <1>4 DEF SearchInv

\* A path that fails is no good input's path.
LEMMA SearchDiscard ==
  ASSUME SearchTyped, SearchInv, SlicesAgree(current), onStateDiscarded
  PROVE  SearchInv'
<1>1. /\ phase = "run" /\ stage = "idle"
      /\ UNCHANGED <<frontier, frontierSet, explored, exploredSet, stage, path, pos, canon, list, todo,
                     given, phase, current, base>>
  BY Zenon DEF onStateDiscarded, pathVars, seen, builder
<1>2. PICK p \in queue \cap Fails : queue' = queue \ {p} BY Zenon DEF onStateDiscarded, Discard
<1>3. QueueInv' BY Zenon, <1>1, <1>2 DEF SearchInv, QueueInv, PathsUnder
<1>4. SliceInv' /\ ExploredInv' /\ FrontierInv' /\ NoPathTwice'
  BY Zenon, <1>1 DEF SearchInv, SliceInv, ExploredInv, FrontierInv, NoPathTwice, Slicing
<1>5. CacheInv' /\ OriginInv' /\ SeenInv'
  BY Zenon, <1>1 DEF SearchInv, CacheInv, OriginInv, SeenInv, Slicing, alreadySeen
<1>6. BaseInv' BY Zenon, <1>1, <1>2 DEF SearchInv, BaseInv
<1>7. PendingInv'
  <2>1. SUFFICES ASSUME SlicesAgree(current), NEW i \in Good(current)
                 PROVE  Safe(i)' \/ (i \in Meaning(base) /\ PathOf[current][i] \in queue')
    BY Zenon, <1>1 DEF PendingInv, Slicing
  <2>2. Safe(i) \/ (i \in Meaning(base) /\ PathOf[current][i] \in queue)
    BY Zenon, <1>1, <2>1 DEF SearchInv, PendingInv
  <2>3. Safe(i)' = Safe(i) BY Zenon, <1>1 DEF Safe
  <2>4. PathOf[current][i] # p BY Zenon, <1>2 DEF Good
  <2> QED BY Zenon, <1>2, <2>2, <2>3, <2>4
<1> QED BY Zenon, <1>3, <1>4, <1>5, <1>6, <1>7 DEF SearchInv

\* NextPath: the head of the frontier becomes what runs; it is a flip that no path
\* has explored.
LEMMA SearchNextPath ==
  ASSUME SearchTyped, SearchInv, SlicesAgree(current), NextPath
  PROVE  SearchInv'
<1>1. /\ phase = "run" /\ stage = "idle" /\ queue = {} /\ frontier # <<>>
      /\ frontier' = Tail(frontier) /\ base' = Head(frontier).canon
      /\ given' \subseteq Head(frontier).extra
      /\ queue' = {PathOf[current][i] : i \in Meaning(Head(frontier).canon \cup given')}
      /\ UNCHANGED <<frontierSet, explored, exploredSet, stage, path, pos, canon, list, todo, phase, current>>
  BY ZenonT(60) DEF NextPath, instantiateNextInput, seen, builder, PathsUnder
<1>2. /\ 1 \in DOMAIN frontier /\ Head(frontier) = frontier[1]
      /\ \A n \in DOMAIN frontier' : n + 1 \in DOMAIN frontier /\ frontier'[n] = frontier[n + 1]
      /\ \A n \in DOMAIN frontier : n = 1 \/ (n - 1 \in DOMAIN frontier' /\ frontier'[n - 1] = frontier[n])
  <2>1. frontier \in Seq(Entries) BY Zenon DEF SearchTyped
  <2> QED BY ONLY <1>1, <2>1
<1>3. QueueInv' BY Zenon, <1>1 DEF QueueInv, PathsUnder, Meaning
<1>4. SliceInv' /\ ExploredInv' /\ NoPathTwice'
  BY Zenon, <1>1 DEF SearchInv, SliceInv, ExploredInv, NoPathTwice, Slicing
<1>5. CacheInv' /\ OriginInv' /\ SeenInv'
  <2>1. CacheInv' BY Zenon, <1>1, <1>2 DEF SearchInv, CacheInv, Slicing
  <2>2. OriginInv' BY Zenon, <1>1, <1>2 DEF SearchInv, OriginInv, Slicing
  <2>3. SeenInv' BY Zenon, <1>1 DEF SearchInv, SeenInv, Slicing, alreadySeen
  <2> QED BY Zenon, <2>1, <2>2, <2>3
<1>6. FrontierInv' BY Zenon, <1>1, <1>2 DEF SearchInv, FrontierInv
<1>7. BaseInv'
  <2>1. base' \in frontierSet /\ base' \notin exploredSet
    BY Zenon, <1>1, <1>2 DEF SearchInv, CacheInv, FrontierInv
  <2>2. \E n \in DOMAIN explored : FlippedWith(explored[n].path, Last(explored[n].path), base', given')
    <3>1. PICK n \in DOMAIN explored :
            FlippedWith(explored[n].path, Last(explored[n].path), base', frontier[1].extra)
      BY Zenon, <1>1, <1>2 DEF SearchInv, OriginInv, Slicing
    <3> QED BY Zenon, <1>1, <1>2, <3>1 DEF FlippedWith
  <2>3. \A n \in DOMAIN explored : ~Added(explored[n].path, Last(explored[n].path), base')
    BY Zenon, <1>1, <2>1 DEF SearchInv, CacheInv
  <2> QED BY Zenon, <1>1, <2>2, <2>3 DEF BaseInv
<1>8. PendingInv'
  <2>1. SUFFICES ASSUME SlicesAgree(current), NEW i \in Good(current)
                 PROVE  Safe(i)' \/ (i \in Meaning(base') /\ PathOf[current][i] \in queue')
    BY Zenon, <1>1 DEF PendingInv, Slicing
  <2>2. Safe(i) BY Zenon, <1>1, <2>1 DEF SearchInv, PendingInv
  <2>3. CASE Covered(explored, i) BY Zenon, <1>1, <2>3 DEF Safe
  <2>4. CASE \E n \in DOMAIN frontier :
               frontier[n].canon \notin exploredSet /\ i \in Meaning(frontier[n].canon)
    <3>1. PICK n \in DOMAIN frontier :
            frontier[n].canon \notin exploredSet /\ i \in Meaning(frontier[n].canon)
      BY Zenon, <2>4
    <3>2. CASE n = 1
      <4> DEFINE C == frontier[1].canon
                 D == frontier[1].extra
      <4>1. i \in Meaning(C) BY Zenon, <3>1, <3>2
      <4>2. \A c \in D : i \in UNION c
        <5>1. PICK m \in DOMAIN explored : FlippedWith(explored[m].path, Last(explored[m].path), C, D)
          BY Zenon, <1>1, <1>2 DEF SearchInv, OriginInv, Slicing
        <5>2. PICK v \in Good(current) : PathOf[current][v] = explored[m].path
          BY Zenon DEF SearchInv, ExploredInv, GoodPath
        <5> HIDE DEF C, D
        <5>3. PICK k, g : /\ NonRed(PathOf[current][v], k)
                          /\ g \in Slice[PathOf[current][v]][k].flips
                          /\ C = Canon(PathOf[current][v], k) \cup {{g}}
                          /\ D \subseteq Kept(PathOf[current][v], k)
          BY Zenon, <5>1, <5>2 DEF FlippedWith
        <5>4. current \in Region BY Zenon DEF SearchTyped
        <5>5. i \in Before(PathOf[current][v], k) BY Zenon, <2>1, <4>1, <5>3, <5>4, BaseShared
        <5>6. k \in DOMAIN Slice[PathOf[current][v]] BY Zenon, <5>3 DEF NonRed
        <5>7. \A c \in Kept(PathOf[current][v], k) : i \in UNION c
          BY Zenon, <2>1, <5>4, <5>5, <5>6, KeptHold
        <5> QED BY Zenon, <5>3, <5>7
      <4>3. i \in Meaning(C \cup given') BY Zenon, <1>1, <1>2, <4>1, <4>2 DEF Meaning
      <4> QED BY Zenon, <1>1, <1>2, <4>1, <4>3
    <3>3. CASE n # 1 BY Zenon, <1>1, <1>2, <3>1, <3>3 DEF Safe
    <3> QED BY Zenon, <3>2, <3>3
  <2> QED BY Zenon, <2>2, <2>3, <2>4 DEF Safe
<1> QED BY Zenon, <1>3, <1>4, <1>5, <1>6, <1>7, <1>8 DEF SearchInv

\* NextRegion: with an empty frontier and no state left, every good input is covered.
LEMMA SearchNextRegion ==
  ASSUME SearchTyped, SearchTyped', SlicesAgree(current) => SearchInv, RegionInv, NextRegion
  PROVE  /\ SlicesAgree(current') => SearchInv'
         /\ RegionCovered => RegionCovered'
<1>1. /\ phase = "run" /\ stage = "idle" /\ queue = {} /\ frontier = <<>>
      /\ phase' # "run" /\ stage' = "idle" /\ queue' = {} /\ frontier' = <<>>
      /\ exploredSet' = {} /\ frontierSet' = {}
      /\ phase' = "root" \/ (explored' = explored /\ current' = current)
      /\ completed' = completed \cup {current}
      /\ schedules' = [schedules EXCEPT ![current] = explored]
  BY Zenon DEF NextRegion, CachesCleared, builder
<1>2. QueueInv' /\ SliceInv' /\ FrontierInv' /\ BaseInv' /\ PendingInv'
  BY ZenonT(60), <1>1 DEF QueueInv, SliceInv, FrontierInv, BaseInv, PendingInv, Slicing
<1>3. CacheInv' /\ OriginInv' /\ SeenInv' BY <1>1 DEF CacheInv, OriginInv, SeenInv, Slicing
<1>4. ASSUME SlicesAgree(current') PROVE ExploredInv' /\ NoPathTwice'
  <2>1. CASE phase' = "root"
    <3>1. explored' = <<>> BY Zenon, <2>1 DEF SearchTyped
    <3> QED BY <3>1 DEF ExploredInv, NoPathTwice
  <2>2. CASE explored' = explored /\ current' = current
    BY Zenon, <1>4, <2>2 DEF SearchInv, ExploredInv, NoPathTwice
  <2> QED BY Zenon, <1>1, <2>1, <2>2
<1>5. ASSUME RegionCovered PROVE RegionCovered'
  <2>1. SUFFICES ASSUME NEW r \in completed', SlicesAgree(r), NEW i \in Good(r)
                 PROVE  Covered(schedules'[r], i)
    BY Zenon DEF RegionCovered
  <2>2. CASE r = current
    <3>1. Safe(i) BY Zenon, <1>1, <2>1, <2>2 DEF SearchInv, PendingInv
    <3>2. Covered(explored, i) BY <1>1, <3>1 DEF Safe
    <3>3. schedules'[current] = explored BY Zenon, <1>1 DEF SearchTyped, RegionInv
    <3> QED BY Zenon, <2>2, <3>2, <3>3
  <2>3. CASE r # current
    <3>1. r \in completed /\ r \in Region BY Zenon, <1>1, <2>1, <2>3 DEF RegionInv
    <3>2. schedules'[r] = schedules[r] BY Zenon, <1>1, <2>3, <3>1 DEF RegionInv
    <3> QED BY Zenon, <1>5, <2>1, <3>1, <3>2 DEF RegionCovered
  <2> QED BY Zenon, <2>2, <2>3
<1> QED BY Zenon, <1>2, <1>3, <1>4, <1>5 DEF SearchInv

\* What a branch adds to the constraint, and to the caches.
LEMMA OneBranch ==
  ASSUME NEW p \in Path, NEW k \in DOMAIN Slice[p]
  PROVE  /\ k \in Nat \ {0} /\ k - 1 \in 0 .. Len(Slice[p]) /\ k + 1 \in 1 .. Last(p)
         /\ Before(p, k + 1) = At(p, k) \cap UNION Slice[p][k].cond
         /\ ~NonRed(p, k) => Before(p, k + 1) = At(p, k) /\ Canon(p, k + 1) = Canon(p, k)
         /\ NonRed(p, k) => Canon(p, k + 1) = Canon(p, k) \cup {Slice[p][k].cond}
         /\ \A C : Added(p, k + 1, C) <=> Added(p, k, C) \/ (NonRed(p, k) /\ C \in Ext(p, k))
         /\ \A C : Flipped(p, k + 1, C) <=>
              \/ Flipped(p, k, C)
              \/ NonRed(p, k) /\ \E f \in Slice[p][k].flips : C = Canon(p, k) \cup {{f}}
         /\ \A C, D : FlippedWith(p, k + 1, C, D) <=>
              \/ FlippedWith(p, k, C, D)
              \/ /\ NonRed(p, k) /\ \E f \in Slice[p][k].flips : C = Canon(p, k) \cup {{f}}
                 /\ D \subseteq Kept(p, k)
<1>1. k \in Nat \ {0} /\ k - 1 \in 0 .. Len(Slice[p]) /\ k + 1 \in 1 .. Last(p)
  BY Zenon, SliceIndex
<1>2. \A m : m \in 1 .. (k + 1) - 1 <=> m \in 1 .. k - 1 \/ m = k BY <1>1
<1>3. Before(p, k + 1) = At(p, k) \cap UNION Slice[p][k].cond
  <2>1. ASSUME NEW i
        PROVE  i \in Before(p, k + 1) <=> i \in Before(p, k) /\ i \in Holds(p, k) /\ i \in UNION Slice[p][k].cond
    <3>1. i \in Before(p, k + 1) <=>
            /\ i \in Input
            /\ \A m \in 1 .. (k + 1) - 1 : i \in Holds(p, m) /\ i \in UNION Slice[p][m].cond
      BY Zenon, BeforeHolds
    <3>2. i \in Before(p, k) <=>
            i \in Input /\ \A m \in 1 .. k - 1 : i \in Holds(p, m) /\ i \in UNION Slice[p][m].cond
      BY Zenon, BeforeHolds
    <3> QED BY Zenon, <1>2, <3>1, <3>2
  <2>2. At(p, k) = Before(p, k) \cap Holds(p, k) BY Zenon, <1>1, AtHolds
  <2> QED BY Zenon, <2>1, <2>2
<1>4. ~NonRed(p, k) => Before(p, k + 1) = At(p, k) BY Zenon, <1>3 DEF NonRed
<1>5. ~NonRed(p, k) => Canon(p, k + 1) = Canon(p, k)
  <2>1. ASSUME ~NonRed(p, k)
        PROVE  {n \in 1 .. (k + 1) - 1 : NonRed(p, n)} = {n \in 1 .. k - 1 : NonRed(p, n)}
    BY Zenon, <1>2, <2>1
  <2> QED BY Zenon, <2>1 DEF Canon
<1>6. NonRed(p, k) => Canon(p, k + 1) = Canon(p, k) \cup {Slice[p][k].cond}
  <2>1. ASSUME NonRed(p, k)
        PROVE  {n \in 1 .. (k + 1) - 1 : NonRed(p, n)} = {n \in 1 .. k - 1 : NonRed(p, n)} \cup {k}
    BY Zenon, <1>2, <2>1
  <2> QED BY Zenon, <2>1 DEF Canon
<1>7. \A C : Added(p, k + 1, C) <=> Added(p, k, C) \/ (NonRed(p, k) /\ C \in Ext(p, k))
  BY Zenon, <1>2 DEF Added
<1>8. \A C : Flipped(p, k + 1, C) <=>
        \/ Flipped(p, k, C)
        \/ NonRed(p, k) /\ \E f \in Slice[p][k].flips : C = Canon(p, k) \cup {{f}}
  BY Zenon, <1>2 DEF Flipped
<1>9. \A C, D : FlippedWith(p, k + 1, C, D) <=>
        \/ FlippedWith(p, k, C, D)
        \/ /\ NonRed(p, k) /\ \E f \in Slice[p][k].flips : C = Canon(p, k) \cup {{f}}
           /\ D \subseteq Kept(p, k)
  BY Zenon, <1>2 DEF FlippedWith
<1> QED BY ZenonT(60), <1>1, <1>3, <1>4, <1>5, <1>6, <1>7, <1>8, <1>9

\* The path that ends is a good one, run under the current constraint.
LEMMA PathGood ==
  ASSUME SearchTyped, SearchInv, NEW p \in queue, p \notin Fails
  PROVE  \E j \in Good(current) : j \in Meaning(base) /\ PathOf[current][j] = p
  BY Zenon DEF SearchInv, QueueInv, PathsUnder, Good, Meaning

\* EndPath: the path that ends has the branch of the flip it runs under, and every
\* input under this flip agrees with it up to there.
LEMMA SearchEndPath ==
  ASSUME SearchTyped, SearchInv, SlicesAgree(current), EndPath
  PROVE  SearchInv'
<1>1. PICK p \in queue \ Fails :
        /\ phase = "run" /\ stage = "idle"
        /\ stage' = "branch" /\ path' = p /\ pos' = 1 /\ canon' = {} /\ list' = <<>> /\ todo' = {}
        /\ UNCHANGED <<frontier, explored, frontierSet, exploredSet, given, phase, current, base, queue>>
  BY Zenon DEF EndPath, BeginSlice, search, seen
<1>2. p \in Path /\ Last(p) \in Nat /\ 1 \in 1 .. Last(p) BY Zenon, LastIndex DEF SearchTyped
<1>3. /\ Canon(p, 1) = {} /\ Before(p, 1) = Input
      /\ \A C : ~Added(p, 1, C) /\ ~Flipped(p, 1, C)
  <2>1. \A m : m \notin 1 .. 1 - 1 OBVIOUS
  <2>2. Before(p, 1) = Input BY ZenonT(60), <2>1, BeforeHolds
  <2> QED BY Zenon, <2>1, <2>2 DEF Canon, Added, Flipped
<1>4. QueueInv' BY Zenon, <1>1 DEF SearchInv, QueueInv, PathsUnder
<1>5. SliceInv' BY <1>1, <1>2, <1>3 DEF SliceInv
<1>6. ExploredInv' /\ NoPathTwice' BY Zenon, <1>1 DEF SearchInv, ExploredInv, NoPathTwice
<1>7. CacheInv' /\ OriginInv' /\ SeenInv'
  <2>1. CacheInv' BY Zenon, <1>1, <1>3 DEF SearchInv, CacheInv, Slicing
  <2>2. OriginInv' BY Zenon, <1>1 DEF SearchInv, OriginInv, Slicing
  <2>3. SeenInv' BY Zenon, <1>1, <1>3 DEF SearchInv, SeenInv, Slicing, alreadySeen
  <2> QED BY Zenon, <2>1, <2>2, <2>3
<1>8. FrontierInv' BY Zenon, <1>1 DEF FrontierInv
<1>9. BaseInv' BY Zenon, <1>1 DEF SearchInv, BaseInv
<1>10. PendingInv'
  <2>1. SUFFICES ASSUME SlicesAgree(current)
                 PROVE  \E d \in Nat : Depth(d)' /\ \A i \in Good(current) : Safe(i)' \/ InProgress(d, i)'
    BY Zenon, <1>1 DEF PendingInv, Slicing
  <2>2. \A i \in Good(current) : i \in Input /\ (Safe(i)' \/ i \in Meaning(base))
    BY Zenon, <1>1, <2>1 DEF SearchInv, PendingInv, Safe, Good
  <2>3. CASE base = {}
    <3>0. given = {} BY Zenon, <1>1, <2>3 DEF SearchInv, BaseInv, FlippedWith
    <3>1. Depth(0)' BY Zenon, <1>1, <2>3, <3>0 DEF Depth
    <3>2. \A i \in Good(current) : InProgress(0, i)' BY <1>1, <1>3, <2>2 DEF InProgress
    <3> QED BY Zenon, <3>1, <3>2
  <2>4. CASE base # {}
    <3>1. PICK n \in DOMAIN explored : FlippedWith(explored[n].path, Last(explored[n].path), base, given)
      BY Zenon, <1>1, <2>4 DEF SearchInv, BaseInv
    <3> DEFINE q == explored[n].path
    <3>2. PICK v \in Good(current) : PathOf[current][v] = q
      BY Zenon DEF SearchInv, ExploredInv, GoodPath
    <3>3. PICK k \in 1 .. Last(q) - 1 :
            /\ NonRed(q, k) /\ \E f \in Slice[q][k].flips : base = Canon(q, k) \cup {{f}}
            /\ given \subseteq Kept(q, k)
      BY Zenon, <3>1 DEF FlippedWith
    <3>4. PICK f \in Slice[q][k].flips : base = Canon(q, k) \cup {{f}} BY Zenon, <3>3
    <3>5. PICK j \in Good(current) : j \in Meaning(base) /\ PathOf[current][j] = p
      BY Zenon, PathGood
    <3>6. current \in Region /\ q \in Path BY Zenon, <3>2, GoodTyped DEF SearchTyped
    <3>7. k \in DOMAIN Slice[q] /\ k \in Nat \ {0} /\ k \in 1 .. k BY Zenon, <3>3, <3>6, SliceIndex DEF NonRed
    <3>8. Same(q, p, k) /\ SameAsserted(q, p, k) /\ NonRed(p, k) /\ f \in Slice[p][k].cond
      <4> HIDE DEF q
      <4> QED BY ZenonT(60), <2>1, <3>2, <3>3, <3>4, <3>5, <3>6, BaseShared
    <3>9. k \in DOMAIN Slice[p] BY Zenon, <3>8 DEF NonRed
    <3>10. /\ Canon(p, k) = Canon(q, k)
           /\ \A m \in 1 .. k - 1 : /\ NonRed(p, m) <=> NonRed(q, m)
                                    /\ Ext(p, m) = Ext(q, m)
                                    /\ Canon(p, m) = Canon(q, m)
           /\ given \subseteq Kept(p, k)
      <4> HIDE DEF q
      <4>3. /\ Canon(p, k) = Canon(q, k)
            /\ \A m \in 1 .. k - 1 : NonRed(p, m) <=> NonRed(q, m)
        BY ONLY <1>2, <3>6, <3>7, <3>8, SameSlices, SMTT(30)
      <4>4. \A m \in 1 .. k - 1 : Ext(p, m) = Ext(q, m) /\ Canon(p, m) = Canon(q, m)
        BY ONLY <1>2, <3>6, <3>7, <3>8, SameSlices, SMTT(30)
      <4>5. Kept(p, k) = Kept(q, k) BY Zenon, <1>2, <3>6, <3>7, <3>8, SameKept
      <4> QED BY ZenonT(60), <3>3, <4>3, <4>4, <4>5
    <3>11. ASSUME NEW C, Added(p, k, C) PROVE C \in exploredSet
      <4>1. PICK m \in 1 .. k - 1 : NonRed(p, m) /\ C \in Ext(p, m) BY Zenon, <3>11 DEF Added
      <4>0. m \in 1 .. k BY ONLY <3>7, m \in 1 .. k - 1
      <4>2. NonRed(q, m) /\ C \in Ext(q, m) BY Zenon, <3>10, <4>1
      <4>3. m \in 1 .. Last(q) - 1 BY Zenon, <3>6, <3>7, <4>0, SliceIndex, LastIndex
      <4>4. Added(q, Last(q), C) BY Zenon, <4>2, <4>3 DEF Added
      <4> QED BY Zenon, <1>1, <4>4 DEF SearchInv, CacheInv
    <3>12. Depth(k)'
      <4>1. ASSUME NEW C, Flipped(p, k, C) PROVE alreadySeen(C)
        <5>1. PICK m \in 1 .. k - 1 :
                NonRed(p, m) /\ \E g \in Slice[p][m].flips : C = Canon(p, m) \cup {{g}}
          BY Zenon, <4>1 DEF Flipped
        <5>0. m \in 1 .. k BY ONLY <3>7, m \in 1 .. k - 1
        <5>2. Slice[p][m].flips = Slice[q][m].flips BY Zenon, <3>8 DEF Same
        <5>3. NonRed(q, m) /\ \E g \in Slice[q][m].flips : C = Canon(q, m) \cup {{g}}
          BY ZenonT(60), <3>10, <5>1, <5>2
        <5>4. m \in 1 .. Last(q) - 1 BY Zenon, <3>6, <3>7, <5>0, SliceIndex, LastIndex
        <5>5. Flipped(q, Last(q), C) BY Zenon, <5>3, <5>4 DEF Flipped
        <5> QED BY Zenon, <1>1, <5>5 DEF SearchInv, SeenInv
      <4>2. \A C : alreadySeen(C)' <=> alreadySeen(C) BY Zenon, <1>1 DEF alreadySeen
      <4> QED BY ZenonT(60), <1>1, <3>4, <3>8, <3>10, <3>11, <4>1, <4>2 DEF Depth
    <3>13. ASSUME NEW i \in Good(current), i \in Meaning(base) PROVE i \in Before(p, k + 1)
      <4>1. \A c \in Canon(p, k) \cup {{f}} : i \in UNION c BY Zenon, <3>4, <3>10, <3>13 DEF Meaning
      <4>2. i \in Input BY Zenon DEF Good
      <4>3. i \in Meaning(Canon(p, k)) BY Zenon, <4>1, <4>2 DEF Meaning
      <4>4. k - 1 \in 0 .. Len(Slice[p]) BY Zenon, <1>2, <3>9, SliceIndex
      <4>5. i \in Before(p, k) BY ZenonT(60), <2>1, <3>5, <3>6, <3>7, <4>3, <4>4, GoodMeaning
      <4>6. i \in UNION {f} BY Zenon, <4>1
      <4>7. i \in UNION Slice[p][k].cond BY Zenon, <3>8, <4>6
      <4>8. i \in At(p, k) BY ZenonT(60), <2>1, <3>5, <3>6, <3>9, <4>5, MeetsAsserted
      <4>9. Before(p, k + 1) = At(p, k) \cap UNION Slice[p][k].cond BY Zenon, <1>2, <3>9, OneBranch
      <4> QED BY Zenon, <4>7, <4>8, <4>9
    <3>14. \A i \in Good(current) : Safe(i)' \/ InProgress(k, i)'
      BY Zenon, <1>1, <1>3, <2>2, <3>13 DEF InProgress
    <3> QED BY Zenon, <3>7, <3>12, <3>14
  <2> QED BY Zenon, <2>3, <2>4
<1> QED BY ZenonT(60), <1>4, <1>5, <1>6, <1>7, <1>8, <1>9, <1>10 DEF SearchInv

\* Inside processSlice: what the canonical form means, and whose path it is.
LEMMA SliceFacts ==
  ASSUME SearchTyped, SearchInv, SlicesAgree(current), Slicing
  PROVE  /\ path \in Path /\ phase = "run" /\ current \in Region
         /\ pos - 1 \in 0 .. Len(Slice[path])
         /\ \A i \in Good(current) : i \in Meaning(canon) <=> i \in Before(path, pos)
         /\ pos \in DOMAIN Slice[path] => \A i \in Good(current) : i \in Before(path, pos) =>
              /\ i \in At(path, pos)
              /\ i \in UNION Slice[path][pos].cond \/ i \in UNION Slice[path][pos].flips
         /\ \E j \in Good(current) : PathOf[current][j] = path
<1>1. path \in Path /\ phase = "run" /\ current \in Region BY Zenon DEF SearchTyped, Slicing
<1>2. pos - 1 \in 0 .. Len(Slice[path]) /\ pos \in Nat /\ canon = Canon(path, pos)
  BY <1>1, SliceTyped DEF SearchInv, SliceInv, Last
<1>3. path \in queue /\ path \notin Fails BY Zenon DEF SearchInv, SliceInv
<1>4. PICK j \in Good(current) : PathOf[current][j] = path BY Zenon, <1>3, PathGood
<1>5. ASSUME NEW i \in Good(current)
      PROVE  i \in Meaning(canon) <=> i \in Before(path, pos)
  BY Zenon, <1>1, <1>2, <1>4, GoodMeaning
<1>6. ASSUME pos \in DOMAIN Slice[path], NEW i \in Good(current), i \in Before(path, pos)
      PROVE  /\ i \in At(path, pos)
             /\ i \in UNION Slice[path][pos].cond \/ i \in UNION Slice[path][pos].flips
  <2>1. /\ i \in At(PathOf[current][j], pos)
        /\ \/ i \in UNION Slice[PathOf[current][j]][pos].cond
           \/ \E f \in Slice[PathOf[current][j]][pos].flips : i \in f
    BY Zenon, <1>1, <1>4, <1>6, MeetsAsserted
  <2> QED BY Zenon, <1>4, <2>1
<1> QED BY Zenon, <1>1, <1>2, <1>4, <1>5, <1>6

\* mustBeTrue finds the branches that the slice itself makes redundant: what it
\* sees besides the slice, the extra invariants the path was started under, are
\* assertions of the path, and these decide nothing.
LEMMA RedundantIff ==
  ASSUME SearchTyped, SearchInv, SlicesAgree(current), Slicing, pos \in DOMAIN Slice[path]
  PROVE  Redundant <=> ~NonRed(path, pos)
<1>1. path \in Path /\ phase = "run" /\ current \in Region /\ pos - 1 \in 0 .. Len(Slice[path])
  BY Zenon, SliceFacts
<1>2. PICK j \in Good(current) : PathOf[current][j] = path BY Zenon, SliceFacts
<1>3. /\ pos \in Nat \ {0} /\ canon = Canon(path, pos)
      /\ \A m : m \in 1 .. pos <=> m \in 1 .. pos - 1 \/ m = pos
      /\ \A k \in DOMAIN Slice[path] : \A m \in 1 .. k : m \in 1 .. Len(Slice[path])
      /\ \A m \in 1 .. pos - 1 : \A n \in 1 .. m - 1 : n \in 1 .. pos - 1
  <2>1. pos \in Nat \ {0} BY Zenon, <1>1, SliceIndex
  <2>2. canon = Canon(path, pos) BY Zenon DEF SearchInv, SliceInv
  <2>3. \A m : m \in 1 .. pos <=> m \in 1 .. pos - 1 \/ m = pos BY <2>1
  <2>4. \A k \in DOMAIN Slice[path] : \A m \in 1 .. k : m \in 1 .. Len(Slice[path]) BY <1>1, SliceTyped
  <2>5. \A m \in 1 .. pos - 1 : \A n \in 1 .. m - 1 : n \in 1 .. pos - 1 BY <2>1
  <2> QED BY Zenon, <2>1, <2>2, <2>3, <2>4, <2>5
<1>4. ASSUME NEW i PROVE i \in At(path, pos) <=>
                           i \in Meaning(canon) /\ i \in Meaning(Asserted(path, pos))
  <2>1. i \in At(path, pos) <=> i \in Before(path, pos) /\ i \in Holds(path, pos)
    BY Zenon, <1>3, AtHolds
  <2>2. i \in Meaning(Asserted(path, pos)) <=> i \in Input /\ \A m \in 1 .. pos : i \in Holds(path, m)
    BY Zenon, AssertedHolds
  <2>3. i \in Before(path, pos) => i \in Input /\ \A m \in 1 .. pos - 1 : i \in Holds(path, m)
    BY Zenon, BeforeHolds
  <2>4. ASSUME i \in Input, \A m \in 1 .. pos - 1 : i \in Holds(path, m)
        PROVE  i \in Meaning(canon) <=> i \in Before(path, pos)
    BY Zenon, <1>1, <1>3, <2>4, CanonMeaning
  <2> QED BY Zenon, <1>3, <2>1, <2>2, <2>3, <2>4
<1>5. ASSUME ~NonRed(path, pos) PROVE Redundant
  <2>1. Meaning(kstateConstraints) \subseteq At(path, pos)
    BY Zenon, <1>4 DEF Meaning, kstateConstraints
  <2> QED BY Zenon, <1>5, <2>1 DEF NonRed, Redundant, Entry
<1>6. ASSUME Redundant PROVE ~NonRed(path, pos)
  <2>1. PICK d \in Nat : Depth(d) BY Zenon, <1>1 DEF SearchInv, PendingInv
  <2>2. given \subseteq Kept(path, Len(Slice[path]))
    <3>1. CASE given = {} BY Zenon, <3>1
    <3>2. CASE NonRed(path, d) /\ given \subseteq Kept(path, d)
      <4>1. \A m \in 1 .. d : m \in 1 .. Len(Slice[path]) BY Zenon, <1>3, <3>2 DEF NonRed
      <4> QED BY Zenon, <3>2, <4>1 DEF Kept
    <3> QED BY Zenon, <2>1, <3>1, <3>2 DEF Depth
  <2>3. At(path, pos) \cap Meaning(Kept(path, Len(Slice[path]))) \subseteq Meaning(kstateConstraints)
    BY Zenon, <1>4, <2>2 DEF Meaning, kstateConstraints
  <2>4. KeptDecideNothing(path) BY Zenon, <1>2 DEF SlicesAgree, AgreeingRegions
  <2> QED BY Zenon, <1>6, <2>3, <2>4 DEF KeptDecideNothing, NonRed, Redundant, Entry
<1> QED BY Zenon, <1>5, <1>6

\* SkipBranch: a redundant branch excludes no input.
LEMMA SearchSkip ==
  ASSUME SearchTyped, SearchInv, SlicesAgree(current), SkipBranch,
         UNCHANGED <<search, ids, others, localFrontier>>
  PROVE  SearchInv'
<1>1. /\ stage = "branch" /\ pos \in DOMAIN Slice[path] /\ Redundant /\ pos' = pos + 1
      /\ UNCHANGED <<frontier, explored, frontierSet, exploredSet, stage, path, canon, list, todo, given,
                     phase, current, base, queue>>
  BY Zenon DEF SkipBranch, search, seen
<1>2. Slicing /\ Slicing' BY Zenon, <1>1 DEF Slicing
<1>3. path \in Path BY Zenon, <1>2, SliceFacts
<1>4. ~NonRed(path, pos) BY Zenon, <1>1, <1>2, RedundantIff
<1>5. /\ pos + 1 \in 1 .. Last(path)
      /\ Before(path, pos + 1) = At(path, pos) /\ Canon(path, pos + 1) = Canon(path, pos)
      /\ \A C : Added(path, pos + 1, C) <=> Added(path, pos, C)
      /\ \A C : Flipped(path, pos + 1, C) <=> Flipped(path, pos, C)
      /\ \A C, D : FlippedWith(path, pos + 1, C, D) <=> FlippedWith(path, pos, C, D)
  BY Zenon, <1>1, <1>3, <1>4, OneBranch
<1>6. QueueInv' /\ ExploredInv' /\ NoPathTwice' /\ FrontierInv' /\ BaseInv'
  BY ZenonT(60), <1>1 DEF SearchInv, QueueInv, ExploredInv, NoPathTwice, FrontierInv, BaseInv, PathsUnder
<1>7. SliceInv' BY Zenon, <1>1, <1>2, <1>5 DEF SearchInv, SliceInv
<1>8. CacheInv' /\ OriginInv' /\ SeenInv'
  <2>1. CacheInv' BY Zenon, <1>1, <1>2, <1>5 DEF SearchInv, CacheInv
  <2>2. OriginInv' BY Zenon, <1>1, <1>2, <1>5 DEF SearchInv, OriginInv
  <2>3. SeenInv' BY Zenon, <1>1, <1>2, <1>5 DEF SearchInv, SeenInv, alreadySeen
  <2> QED BY Zenon, <2>1, <2>2, <2>3
<1>9. PendingInv'
  <2>1. SUFFICES ASSUME phase = "run", SlicesAgree(current)
                 PROVE  \E d \in Nat : Depth(d)' /\ \A i \in Good(current) : Safe(i)' \/ InProgress(d, i)'
    BY Zenon, <1>1 DEF PendingInv
  <2>2. PICK d \in Nat : Depth(d) /\ \A i \in Good(current) : Safe(i) \/ InProgress(d, i)
    BY Zenon, <1>2, <2>1 DEF SearchInv, PendingInv
  <2>3. Depth(d)' BY Zenon, <1>1, <2>2 DEF Depth, alreadySeen
  <2>4. \A i \in Good(current) : i \in Before(path, pos) => i \in Before(path, pos + 1)
    BY Zenon, <1>1, <1>2, <1>5, SliceFacts
  <2>5. \A i \in Good(current) : Safe(i)' \/ InProgress(d, i)'
    BY ZenonT(60), <1>1, <2>2, <2>4 DEF Safe, InProgress
  <2> QED BY Zenon, <2>3, <2>5
<1> QED BY Zenon, <1>6, <1>7, <1>8, <1>9 DEF SearchInv

\* TakeBranch: an input at the branch satisfies its condition or one of its flips.
LEMMA SearchTake ==
  ASSUME SearchTyped, SearchInv, SlicesAgree(current), TakeBranch,
         UNCHANGED <<search, ids, others, localFrontier>>
  PROVE  SearchInv'
<1>1. /\ stage = "branch" /\ pos \in DOMAIN Slice[path] /\ ~Redundant /\ stage' = "flips"
      /\ todo' = Slice[path][pos].flips
      /\ UNCHANGED <<frontier, explored, frontierSet, exploredSet, path, pos, canon, list, given,
                     phase, current, base, queue>>
  BY Zenon DEF TakeBranch, search, seen, Entry
<1>2. Slicing /\ Slicing' BY Zenon, <1>1 DEF Slicing
<1>3. path \in Path /\ current \in Region BY Zenon, <1>2, SliceFacts
<1>4. NonRed(path, pos) BY ZenonT(60), <1>1, <1>2, RedundantIff
<1>5. QueueInv' /\ ExploredInv' /\ NoPathTwice' /\ FrontierInv' /\ BaseInv'
  BY <1>1 DEF SearchInv, QueueInv, ExploredInv, NoPathTwice, FrontierInv, BaseInv, PathsUnder
<1>6. SliceInv' BY ZenonT(60), <1>1, <1>2, <1>4 DEF SearchInv, SliceInv, Entry
<1>7. CacheInv' /\ OriginInv' /\ SeenInv'
  <2>1. CacheInv' BY Zenon, <1>1, <1>2 DEF SearchInv, CacheInv
  <2>2. OriginInv' BY Zenon, <1>1, <1>2 DEF SearchInv, OriginInv
  <2>3. SeenInv' BY Zenon, <1>1, <1>2 DEF SearchInv, SeenInv, alreadySeen, Entry
  <2> QED BY Zenon, <2>1, <2>2, <2>3
<1>8. PendingInv'
  <2>1. SUFFICES ASSUME phase = "run", SlicesAgree(current)
                 PROVE  \E d \in Nat : Depth(d)' /\ \A i \in Good(current) : Safe(i)' \/ InProgress(d, i)'
    BY Zenon, <1>1 DEF PendingInv
  <2>2. PICK d \in Nat : Depth(d) /\ \A i \in Good(current) : Safe(i) \/ InProgress(d, i)
    BY Zenon, <1>2, <2>1 DEF SearchInv, PendingInv
  <2>3. Depth(d)' BY Zenon, <1>1, <2>2 DEF Depth, alreadySeen
  <2>5. ASSUME NEW i \in Good(current), i \in Before(path, pos)
        PROVE  i \in UNION Slice[path][pos].cond \/ i \in UNION Slice[path][pos].flips
    BY Zenon, <1>1, <1>2, <2>5, SliceFacts
  <2>6. \A i \in Good(current) : Safe(i)' = Safe(i) BY Zenon, <1>1 DEF Safe
  <2>7. \A i \in Good(current) : InProgress(d, i) => InProgress(d, i)'
    BY Zenon, <1>1, <2>5 DEF InProgress, Entry
  <2> QED BY Zenon, <2>2, <2>3, <2>6, <2>7
<1> QED BY Zenon, <1>5, <1>6, <1>7, <1>8 DEF SearchInv

\* No explored path shares with the current one the branch it was flipped at:
\* the explored set would hold the constraint it runs under.
LEMMA NotShared ==
  ASSUME SearchTyped, SearchInv, SlicesAgree(current), Slicing, NEW d \in Nat, Depth(d), NEW n \in DOMAIN explored
  PROVE  ~Same(path, explored[n].path, d + 1)
<1> DEFINE q == explored[n].path
<1>1. path \in Path /\ q \in Path
  <2>1. \E v \in Good(current) : PathOf[current][v] = q /\ current \in Region
    BY Zenon, SliceFacts DEF SearchInv, ExploredInv, GoodPath
  <2> QED BY Zenon, <2>1, SliceFacts, GoodTyped
<1>2. queue # {} /\ stage # "subsume" BY Zenon DEF SearchInv, SliceInv, Slicing
<1>3. explored # <<>> OBVIOUS
<1>4. /\ \E m \in DOMAIN explored : Flipped(explored[m].path, Last(explored[m].path), base)
      /\ ~Added(q, Last(q), base)
  BY Zenon, <1>2, <1>3 DEF SearchInv, BaseInv, FlippedWith, Flipped
<1>5. base # {} BY Zenon, <1>4 DEF Flipped
<1>6. NonRed(path, d) /\ \E f \in Slice[path][d].cond : base = Canon(path, d) \cup {{f}}
  BY Zenon, <1>5 DEF Depth
<1>7. base \in Ext(path, d) BY Zenon, <1>6 DEF Ext
<1>8. d \in DOMAIN Slice[path] /\ d \in Nat \ {0} /\ d + 1 \in Nat \ {0} /\ d \in 1 .. (d + 1) - 1
      /\ d \in 1 .. d + 1 /\ d + 1 \in 1 .. d + 1 /\ d < d + 1
  <2>1. d \in DOMAIN Slice[path] /\ d \in Nat \ {0} BY Zenon, <1>1, <1>6, SliceIndex DEF NonRed
  <2>2. d + 1 \in Nat \ {0} /\ d \in 1 .. (d + 1) - 1 /\ d \in 1 .. d + 1 /\ d + 1 \in 1 .. d + 1 /\ d < d + 1
    BY ONLY <2>1
  <2> QED BY Zenon, <2>1, <2>2
<1>9. ASSUME Same(path, q, d + 1) PROVE FALSE
  <2>1. (NonRed(path, d) <=> NonRed(q, d)) /\ Ext(path, d) = Ext(q, d)
    <3> HIDE DEF q
    <3> QED BY ONLY <1>1, <1>8, <1>9, SameSlices
  <2>2. d \in 1 .. Last(q) - 1 BY Zenon, <1>1, <1>6, <2>1, SliceIndex DEF NonRed
  <2>3. Added(q, Last(q), base) BY Zenon, <1>6, <1>7, <2>1, <2>2 DEF Added
  <2> QED BY ZenonT(60), <1>4, <2>3
<1> QED BY ZenonT(60), <1>9

\* A flip that some input in progress needs is new.
LEMMA FlipFresh ==
  ASSUME SearchTyped, SearchInv, SlicesAgree(current), stage = "flips", NEW f \in todo,
         NEW d \in Nat, Depth(d),
         NEW i \in Good(current), i \in Before(path, d + 1), i \in Before(path, pos), i \in f
  PROVE  ~alreadySeen(canon \cup {{f}})
<1> DEFINE C == canon \cup {{f}}
<1>1. Slicing BY Zenon DEF Slicing
<1>2. /\ path \in Path /\ current \in Region
      /\ NonRed(path, pos) /\ canon = Canon(path, pos)
      /\ f \in Slice[path][pos].flips
  BY Zenon, <1>1, SliceFacts DEF SearchInv, SliceInv, Entry
<1>3. PICK j \in Good(current) : PathOf[current][j] = path BY Zenon, <1>1, SliceFacts
<1>4. pos \in DOMAIN Slice[path] /\ pos \in Nat \ {0} BY ZenonT(60), <1>2, SliceIndex DEF NonRed
<1>5. d < pos
  <2>1. i \notin UNION Slice[path][pos].cond BY Zenon, <1>2, <1>4, SliceAssumption
  <2>2. pos \notin 1 .. (d + 1) - 1 BY Zenon, <2>1 DEF Before
  <2> QED BY <1>4, <2>2
<1>6. ASSUME NEW v \in Good(current), NEW k, NonRed(PathOf[current][v], k), NEW x,
             C = Canon(PathOf[current][v], k) \cup {x}
      PROVE  pos <= k /\ Same(path, PathOf[current][v], pos)
  <2>1. NonRed(PathOf[current][j], pos) BY Zenon, <1>2, <1>3
  <2>2. f \in Slice[PathOf[current][j]][pos].flips BY Zenon, <1>2, <1>3
  <2>3. i \in Before(PathOf[current][j], pos) BY Zenon, <1>3
  <2>4. Canon(PathOf[current][j], pos) \cup {{f}} = Canon(PathOf[current][v], k) \cup {x}
    BY Zenon, <1>2, <1>3, <1>6
  <2>5. pos <= k /\ Same(PathOf[current][j], PathOf[current][v], pos)
    BY ZenonT(60), <1>2, <1>6, <2>1, <2>2, <2>3, <2>4, FlipSeen
  <2> QED BY Zenon, <1>3, <2>5
<1>7. ASSUME NEW n \in DOMAIN explored, NEW k, NonRed(explored[n].path, k), NEW x,
             C = Canon(explored[n].path, k) \cup {x}
      PROVE  FALSE
  <2>1. PICK v \in Good(current) : PathOf[current][v] = explored[n].path
    BY Zenon DEF SearchInv, ExploredInv, GoodPath
  <2>2. Same(path, explored[n].path, pos)
    <3>1. NonRed(PathOf[current][v], k) /\ C = Canon(PathOf[current][v], k) \cup {x}
      BY Zenon, <1>7, <2>1
    <3>2. Same(path, PathOf[current][v], pos) BY ZenonT(60), <1>6, <3>1
    <3> QED BY Zenon, <2>1, <3>2
  <2>3. d + 1 \in Nat /\ pos \in Nat /\ d + 1 <= pos BY ONLY d \in Nat, <1>4, <1>5
  <2>4. Same(path, explored[n].path, d + 1) BY Zenon, <2>2, <2>3, SameShorter
  <2> QED BY Zenon, <1>1, <2>4, NotShared
<1>8. ASSUME NEW k \in 1 .. pos - 1, NonRed(path, k), NEW x, C = Canon(path, k) \cup {x}
      PROVE  FALSE
  <2>1. NonRed(PathOf[current][j], k) /\ C = Canon(PathOf[current][j], k) \cup {x} BY Zenon, <1>3, <1>8
  <2>2. pos <= k BY Zenon, <1>6, <2>1
  <2> QED BY <1>4, <2>2
<1>9. ASSUME C \in exploredSet PROVE FALSE
  <2>1. CASE \E n \in DOMAIN explored : Added(explored[n].path, Last(explored[n].path), C)
    <3>1. PICK n \in DOMAIN explored : \E k : NonRed(explored[n].path, k) /\ C \in Ext(explored[n].path, k)
      BY Zenon, <2>1 DEF Added
    <3>2. PICK k : NonRed(explored[n].path, k) /\ C \in Ext(explored[n].path, k) BY Zenon, <3>1
    <3>3. \E x : C = Canon(explored[n].path, k) \cup {x} BY Zenon, <3>2 DEF Ext
    <3> HIDE DEF C
    <3> QED BY Zenon, <1>7, <3>2, <3>3
  <2>2. CASE Added(path, pos, C)
    <3>1. PICK k \in 1 .. pos - 1 : NonRed(path, k) /\ C \in Ext(path, k) BY Zenon, <2>2 DEF Added
    <3>2. \E x : C = Canon(path, k) \cup {x} BY Zenon, <3>1 DEF Ext
    <3> HIDE DEF C
    <3> QED BY Zenon, <1>8, <3>1, <3>2
  <2> HIDE DEF C
  <2> QED BY Zenon, <1>9, <2>1, <2>2 DEF SearchInv, CacheInv
<1>10. ASSUME C \in frontierSet PROVE FALSE
  <2>1. CASE \E n \in DOMAIN explored : Flipped(explored[n].path, Last(explored[n].path), C)
    <3>0. PICK n \in DOMAIN explored : Flipped(explored[n].path, Last(explored[n].path), C)
      BY Zenon, <2>1
    <3>1. PICK k, g : NonRed(explored[n].path, k) /\ C = Canon(explored[n].path, k) \cup {{g}}
      BY Zenon, <3>0 DEF Flipped
    <3> HIDE DEF C
    <3> QED BY Zenon, <1>7, <3>1
  <2>2. CASE Flipped(path, pos, C)
    <3>0. PICK k \in 1 .. pos - 1 : \E g : NonRed(path, k) /\ C = Canon(path, k) \cup {{g}}
      BY Zenon, <2>2 DEF Flipped
    <3>1. PICK g : NonRed(path, k) /\ C = Canon(path, k) \cup {{g}} BY Zenon, <3>0
    <3> HIDE DEF C
    <3> QED BY Zenon, <1>8, <3>1
  <2>3. CASE \E g \in Entry.flips \ todo : C = canon \cup {{g}}
    <3>1. PICK g \in Entry.flips \ todo : C = canon \cup {{g}} BY Zenon, <2>3
    <3>2. {f} # {g} BY Zenon, <3>1
    <3>3. {f} \in canon BY Zenon, <3>1, <3>2
    <3>4. j \in Meaning(canon)
      <4>1. pos - 1 \in 0 .. Len(Slice[path]) BY Zenon, <1>1, SliceFacts
      <4>2. j \in Before(path, pos) BY Zenon, <1>2, <1>3, <1>4, <4>1, OwnBefore
      <4> QED BY Zenon, <1>1, <4>2, SliceFacts
    <3>5. j \in f BY Zenon, <3>3, <3>4 DEF Meaning
    <3> QED BY ZenonT(60), <1>2, <1>3, <1>4, <3>5, OwnSlice
  <2> HIDE DEF C
  <2> QED BY Zenon, <1>10, <2>1, <2>2, <2>3 DEF SearchInv, CacheInv
<1> QED BY Zenon, <1>9, <1>10 DEF alreadySeen

\* A flip that is new is not before the branch the path was flipped at, so the extra
\* invariants that the path was started under are among those kept up to it.
LEMMA FlipKept ==
  ASSUME SearchTyped, SearchInv, SlicesAgree(current), stage = "flips", NEW f \in todo,
         ~alreadySeen(canon \cup {{f}})
  PROVE  given \subseteq Kept(path, pos)
<1>1. Slicing BY Zenon DEF Slicing
<1>2. /\ path \in Path /\ phase = "run" /\ NonRed(path, pos) /\ canon = Canon(path, pos)
      /\ f \in Slice[path][pos].flips
  BY Zenon, <1>1, SliceFacts DEF SearchInv, SliceInv, Entry
<1>3. PICK d \in Nat : Depth(d) BY Zenon, <1>1, <1>2 DEF SearchInv, PendingInv
<1>4. CASE given = {} BY Zenon, <1>4
<1>5. CASE NonRed(path, d) /\ given \subseteq Kept(path, d) /\ \A C : Flipped(path, d, C) => alreadySeen(C)
  <2>1. pos \notin 1 .. d - 1 BY Zenon, <1>2, <1>5 DEF Flipped
  <2>2. pos \in DOMAIN Slice[path] BY Zenon, <1>2 DEF NonRed
  <2>3. pos \in Nat \ {0} BY Zenon, <1>2, <2>2, SliceIndex
  <2>4. \A m \in 1 .. d : m \in 1 .. pos BY ONLY <2>1, <2>3, d \in Nat
  <2> QED BY Zenon, <1>5, <2>4 DEF Kept
<1> QED BY Zenon, <1>3, <1>4, <1>5 DEF Depth

\* PushFlip: a flip that was not seen goes on the frontier; one that was seen
\* admits no input that is still in progress.
LEMMA SearchPush ==
  ASSUME SearchTyped, SearchInv, SlicesAgree(current), PushFlip,
         UNCHANGED <<search, ids, others, localFrontier>>
  PROVE  SearchInv'
<1>1. PICK f \in todo :
        /\ todo' = todo \ {f}
        /\ \/ /\ ~alreadySeen(canon \cup {{f}})
              /\ frontier' = Append(frontier, [canon |-> canon \cup {{f}}, extra |-> extraInvariants])
              /\ frontierSet' = frontierSet \cup {canon \cup {{f}}}
           \/ alreadySeen(canon \cup {{f}}) /\ frontier' = frontier /\ frontierSet' = frontierSet
  BY Zenon DEF PushFlip
<1>2. /\ stage = "flips" /\ Slicing /\ Slicing'
      /\ UNCHANGED <<explored, exploredSet, stage, path, pos, canon, list, given, phase, current, base,
                     queue>>
  BY Zenon DEF PushFlip, search, Slicing
<1> DEFINE C == canon \cup {{f}}
           e == [canon |-> C, extra |-> extraInvariants]
<1>3. frontier \in Seq(Entries) BY Zenon DEF SearchTyped
<1>4. e.canon = C /\ e.extra = extraInvariants OBVIOUS
<1> HIDE DEF e
<1>5. f \in Entry.flips BY Zenon, <1>2 DEF SearchInv, SliceInv
<1>6. /\ \/ /\ ~alreadySeen(C) /\ frontier' = Append(frontier, e)
            /\ frontierSet' = frontierSet \cup {C}
         \/ alreadySeen(C) /\ frontier' = frontier /\ frontierSet' = frontierSet
      /\ \A n \in DOMAIN frontier' :
           \/ n \in DOMAIN frontier /\ frontier'[n] = frontier[n]
           \/ ~alreadySeen(C) /\ C \in frontierSet' /\ frontier'[n] = e
      /\ \A n \in DOMAIN frontier : n \in DOMAIN frontier' /\ frontier'[n] = frontier[n]
      /\ ~alreadySeen(C) => \E n \in DOMAIN frontier' : frontier'[n] = e
  <2>1. \/ /\ ~alreadySeen(C) /\ frontier' = Append(frontier, e)
           /\ frontierSet' = frontierSet \cup {C}
        \/ alreadySeen(C) /\ frontier' = frontier /\ frontierSet' = frontierSet
    BY Zenon, <1>1 DEF e
  <2>2. ASSUME frontier' = Append(frontier, e)
        PROVE  /\ \A n \in DOMAIN frontier' :
                    (n \in DOMAIN frontier /\ frontier'[n] = frontier[n]) \/ frontier'[n] = e
               /\ \A n \in DOMAIN frontier : n \in DOMAIN frontier' /\ frontier'[n] = frontier[n]
               /\ Len(frontier) + 1 \in DOMAIN frontier' /\ frontier'[Len(frontier) + 1] = e
    BY ONLY <1>3, <2>2, Appended, SMTT(30)
  <2> HIDE DEF C
  <2> QED BY Zenon, <2>1, <2>2
<1>7. QueueInv' /\ ExploredInv' /\ NoPathTwice' /\ BaseInv'
  BY <1>2 DEF SearchInv, QueueInv, ExploredInv, NoPathTwice, BaseInv, PathsUnder
<1>8. FrontierInv' BY Zenon, <1>2 DEF FrontierInv
<1>9. SliceInv' BY Zenon, <1>1, <1>2 DEF SearchInv, SliceInv, Entry
<1>10. Entry' = Entry BY Zenon, <1>2 DEF Entry
<1>11. CacheInv'
  <2>1. \A D \in frontierSet' :
          \/ \E n \in DOMAIN explored : Flipped(explored[n].path, Last(explored[n].path), D)
          \/ Flipped(path, pos, D)
          \/ \E g \in Entry.flips \ todo' : D = canon \cup {{g}}
    <3>1. SUFFICES ASSUME NEW D \in frontierSet'
                   PROVE  \/ \E n \in DOMAIN explored : Flipped(explored[n].path, Last(explored[n].path), D)
                          \/ Flipped(path, pos, D)
                          \/ \E g \in Entry.flips \ todo' : D = canon \cup {{g}}
      OBVIOUS
    <3>2. CASE D \in frontierSet
      BY Zenon, <1>1, <3>2 DEF SearchInv, CacheInv
    <3>3. CASE D = C BY Zenon, <1>1, <1>5, <3>3
    <3> HIDE DEF C
    <3> QED BY ZenonT(60), <1>6, <3>2, <3>3
  <2>2. \A n \in DOMAIN frontier' : frontier'[n].canon \in frontierSet'
    <3> HIDE DEF C
    <3> QED BY Zenon, <1>4, <1>6 DEF SearchInv, CacheInv
  <2> QED BY Zenon, <1>2, <1>10, <2>1, <2>2 DEF SearchInv, CacheInv
<1>12. OriginInv'
  <2>1. SUFFICES ASSUME NEW n \in DOMAIN frontier'
                 PROVE  \/ \E m \in DOMAIN explored :
                             FlippedWith(explored[m].path, Last(explored[m].path),
                                         frontier'[n].canon, frontier'[n].extra)
                        \/ FlippedWith(path, pos, frontier'[n].canon, frontier'[n].extra)
                        \/ /\ frontier'[n].extra \subseteq Kept(path, pos)
                           /\ \E g \in Entry.flips \ todo' : frontier'[n].canon = canon \cup {{g}}
    BY Zenon, <1>2, <1>10 DEF OriginInv
  <2>2. CASE n \in DOMAIN frontier /\ frontier'[n] = frontier[n]
    BY Zenon, <1>1, <1>2, <2>2 DEF SearchInv, OriginInv
  <2>3. CASE ~alreadySeen(C) /\ frontier'[n] = e
    <3>1. given \subseteq Kept(path, pos) BY Zenon, <1>2, <2>3, FlipKept
    <3>2. e.extra \subseteq Kept(path, pos) BY Zenon, <1>4, <3>1 DEF extraInvariants
    <3>3. f \in Entry.flips \ todo' BY Zenon, <1>1, <1>5
    <3> QED BY ZenonT(60), <1>4, <2>3, <3>2, <3>3
  <2> QED BY Zenon, <1>6, <2>2, <2>3
<1>13. SeenInv'
  <2>1. \A D : alreadySeen(D) => alreadySeen(D)' BY Zenon, <1>2, <1>6 DEF alreadySeen
  <2>2. alreadySeen(C)'
    <3> HIDE DEF C
    <3>1. C \in exploredSet' \cup frontierSet' BY Zenon, <1>2, <1>6 DEF alreadySeen
    <3> QED BY Zenon, <1>2, <3>1 DEF alreadySeen, C
  <2>3. ASSUME NEW g \in Entry.flips \ todo' PROVE alreadySeen(canon \cup {{g}})'
    <3>1. CASE g = f BY Zenon, <2>2, <3>1
    <3>2. CASE g # f
      <4>1. alreadySeen(canon \cup {{g}}) BY Zenon, <1>1, <1>2, <3>2 DEF SearchInv, SeenInv
      <4> QED BY Zenon, <1>2, <2>1, <4>1 DEF alreadySeen
    <3> QED BY Zenon, <3>1, <3>2
  <2>4. \A g \in Entry.flips \ todo' : (canon \cup {{g}}) \in exploredSet' \cup frontierSet'
    BY Zenon, <1>2, <2>3 DEF alreadySeen
  <2>5. \A D : alreadySeen(D) => D \in exploredSet' \cup frontierSet' BY Zenon, <2>1 DEF alreadySeen
  <2> QED BY Zenon, <1>2, <1>10, <2>4, <2>5 DEF SearchInv, SeenInv, alreadySeen
<1>14. PendingInv'
  <2>1. SUFFICES ASSUME phase = "run", SlicesAgree(current)
                 PROVE  \E d \in Nat : Depth(d)' /\ \A i \in Good(current) : Safe(i)' \/ InProgress(d, i)'
    BY Zenon, <1>2 DEF PendingInv
  <2>2. PICK d \in Nat : Depth(d) /\ \A i \in Good(current) : Safe(i) \/ InProgress(d, i)
    BY Zenon, <1>2, <2>1 DEF SearchInv, PendingInv
  <2>3. Depth(d)' BY Zenon, <1>2, <1>6, <2>2 DEF Depth, alreadySeen
  <2>4. ASSUME NEW i \in Good(current) PROVE Safe(i)' \/ InProgress(d, i)'
    <3>1. CASE Safe(i)
      <4> HIDE DEF C
      <4> QED BY Zenon, <1>2, <1>6, <3>1 DEF Safe
    <3>2. CASE InProgress(d, i) /\ i \in f
      <4>1. i \in Before(path, d + 1) /\ i \in Before(path, pos) BY Zenon, <3>2 DEF InProgress
      <4>2. ~alreadySeen(C) BY ZenonT(60), <1>2, <2>1, <2>2, <3>2, <4>1, FlipFresh
      <4>3. i \in Meaning(C)
        <5>1. i \in Meaning(canon) BY Zenon, <1>2, <4>1, SliceFacts
        <5> QED BY Zenon, <3>2, <5>1 DEF Meaning
      <4> HIDE DEF C
      <4>5. \E n \in DOMAIN frontier' : frontier'[n].canon = C BY Zenon, <1>4, <1>6, <4>2
      <4>6. C \notin exploredSet' BY Zenon, <1>2, <4>2 DEF alreadySeen
      <4> QED BY Zenon, <4>3, <4>5, <4>6 DEF Safe
    <3>3. CASE InProgress(d, i) /\ i \notin f
      BY ZenonT(60), <1>1, <1>2, <1>10, <3>3 DEF InProgress
    <3> QED BY Zenon, <2>2, <3>1, <3>2, <3>3
  <2> QED BY Zenon, <2>3, <2>4
<1> QED BY ZenonT(60), <1>7, <1>8, <1>9, <1>11, <1>12, <1>13, <1>14 DEF SearchInv

\* addExplored: what it adds was not on the frontier for an input in progress.
LEMMA SearchAdd ==
  ASSUME SearchTyped, SearchInv, SlicesAgree(current), addExplored,
         UNCHANGED <<search, ids, others, localFrontier>>
  PROVE  SearchInv'
<1>1. /\ stage = "flips" /\ todo = {} /\ stage' = "branch" /\ pos' = pos + 1
      /\ exploredSet' = exploredSet \cup Extensions(Slice[path][pos].cond)
      /\ canon' = canon \cup {Slice[path][pos].cond}
      /\ list' = Append(list, [cond |-> Slice[path][pos].cond, node |-> Slice[path][pos].node])
      /\ UNCHANGED <<frontier, explored, frontierSet, path, todo, given, phase, current, base, queue>>
  BY Zenon DEF addExplored, search, Entry
<1>2. Slicing /\ Slicing' BY Zenon, <1>1 DEF Slicing
<1>3. /\ path \in Path /\ pos \in DOMAIN Slice[path]
      /\ NonRed(path, pos) /\ canon = Canon(path, pos)
  BY Zenon, <1>1, <1>2, SliceFacts DEF SearchInv, SliceInv, SearchTyped
<1>4. exploredSet' = exploredSet \cup Ext(path, pos) BY Zenon, <1>1, <1>3 DEF Ext, Extensions
<1>5. /\ pos \in Nat \ {0} /\ pos + 1 \in 1 .. Last(path)
      /\ Before(path, pos + 1) = At(path, pos) \cap UNION Slice[path][pos].cond
      /\ Canon(path, pos + 1) = Canon(path, pos) \cup {Slice[path][pos].cond}
      /\ \A C : Added(path, pos + 1, C) <=> Added(path, pos, C) \/ C \in Ext(path, pos)
      /\ \A C : Flipped(path, pos + 1, C) <=>
           Flipped(path, pos, C) \/ \E f \in Slice[path][pos].flips : C = Canon(path, pos) \cup {{f}}
      /\ \A C, D : FlippedWith(path, pos, C, D) => FlippedWith(path, pos + 1, C, D)
      /\ \A f \in Slice[path][pos].flips : \A D : D \subseteq Kept(path, pos) =>
           FlippedWith(path, pos + 1, Canon(path, pos) \cup {{f}}, D)
  <2>1. pos \in Nat \ {0} /\ pos + 1 \in 1 .. Last(path) BY Zenon, <1>3, OneBranch
  <2>2. Before(path, pos + 1) = At(path, pos) \cap UNION Slice[path][pos].cond
    BY Zenon, <1>3, OneBranch
  <2>3. Canon(path, pos + 1) = Canon(path, pos) \cup {Slice[path][pos].cond} BY Zenon, <1>3, OneBranch
  <2>4. ASSUME NEW C
        PROVE  Added(path, pos + 1, C) <=> Added(path, pos, C) \/ (NonRed(path, pos) /\ C \in Ext(path, pos))
    BY Zenon, <1>3, OneBranch
  <2>5. ASSUME NEW C
        PROVE  Flipped(path, pos + 1, C) <=>
                 \/ Flipped(path, pos, C)
                 \/ NonRed(path, pos) /\ \E f \in Slice[path][pos].flips : C = Canon(path, pos) \cup {{f}}
    <3>1. \A m : m \in 1 .. (pos + 1) - 1 <=> m \in 1 .. pos - 1 \/ m = pos BY <2>1
    <3> QED BY Zenon, <3>1 DEF Flipped
  <2>6. ASSUME NEW C, NEW D
        PROVE  FlippedWith(path, pos + 1, C, D) <=>
                 \/ FlippedWith(path, pos, C, D)
                 \/ /\ NonRed(path, pos) /\ \E f \in Slice[path][pos].flips : C = Canon(path, pos) \cup {{f}}
                    /\ D \subseteq Kept(path, pos)
    BY Zenon, <1>3, OneBranch
  <2>7. ASSUME NEW f \in Slice[path][pos].flips, NEW D, D \subseteq Kept(path, pos)
        PROVE  FlippedWith(path, pos + 1, Canon(path, pos) \cup {{f}}, D)
    BY Zenon, <1>3, <2>6, <2>7
  <2> QED BY ZenonT(60), <1>3, <2>1, <2>2, <2>3, <2>4, <2>5, <2>6, <2>7
<1>6. QueueInv' /\ ExploredInv' /\ NoPathTwice' /\ BaseInv' /\ FrontierInv'
  BY ZenonT(60), <1>1 DEF SearchInv, QueueInv, ExploredInv, NoPathTwice, BaseInv, FrontierInv, PathsUnder
<1>7. SliceInv'
  <2>1. canon = {list[k].cond : k \in DOMAIN list} BY Zenon, <1>2 DEF SearchInv, SliceInv
  <2> DEFINE e == [cond |-> Slice[path][pos].cond, node |-> Slice[path][pos].node]
  <2>2. e.cond = Slice[path][pos].cond OBVIOUS
  <2> HIDE DEF e
  <2>3. list' = Append(list, e) BY Zenon, <1>1 DEF e
  <2>4. /\ \A k \in DOMAIN list : k \in DOMAIN list' /\ list'[k] = list[k]
        /\ \A k \in DOMAIN list' : (k \in DOMAIN list /\ list'[k] = list[k]) \/ list'[k] = e
        /\ Len(list) + 1 \in DOMAIN list' /\ list'[Len(list) + 1] = e
    <3>1. list \in Seq([cond : Cond, node : Nat]) BY Zenon DEF SearchTyped
    <3> QED BY ONLY <2>3, <3>1, Appended
  <2>5. {list'[k].cond : k \in DOMAIN list'} = canon \cup {e.cond} BY Zenon, <2>1, <2>4
  <2> QED BY Zenon, <1>1, <1>2, <1>3, <1>5, <2>2, <2>5 DEF SearchInv, SliceInv
<1>8. CacheInv'
  <2>1. \A C \in frontierSet' :
          \/ \E n \in DOMAIN explored : Flipped(explored[n].path, Last(explored[n].path), C)
          \/ Flipped(path, pos + 1, C)
    <3>1. \A f \in Slice[path][pos].flips : Flipped(path, pos + 1, Canon(path, pos) \cup {{f}})
      BY Zenon, <1>5
    <3>2. \A C \in frontierSet :
            \/ \E n \in DOMAIN explored : Flipped(explored[n].path, Last(explored[n].path), C)
            \/ Flipped(path, pos, C)
            \/ \E f \in Slice[path][pos].flips \ todo : C = canon \cup {{f}}
      BY Zenon DEF SearchInv, CacheInv, Entry
    <3>3. ASSUME NEW C, Flipped(path, pos, C) PROVE Flipped(path, pos + 1, C) BY Zenon, <1>5, <3>3
    <3>4. ASSUME NEW f \in Slice[path][pos].flips \ todo
          PROVE  Flipped(path, pos + 1, canon \cup {{f}})
      BY Zenon, <1>3, <3>1
    <3>5. frontierSet' = frontierSet BY Zenon, <1>1
    <3>6. SUFFICES ASSUME NEW C \in frontierSet
                   PROVE  \/ \E n \in DOMAIN explored : Flipped(explored[n].path, Last(explored[n].path), C)
                          \/ Flipped(path, pos + 1, C)
      BY Zenon, <3>5
    <3>7. CASE Flipped(path, pos, C) BY Zenon, <3>3, <3>7
    <3>8. CASE \E f \in Slice[path][pos].flips \ todo : C = canon \cup {{f}}
      BY Zenon, <3>4, <3>8
    <3> QED BY Zenon, <3>2, <3>7, <3>8
  <2>2. \A C \in exploredSet' :
          \/ \E n \in DOMAIN explored : Added(explored[n].path, Last(explored[n].path), C)
          \/ Added(path, pos + 1, C)
    BY Zenon, <1>4, <1>5 DEF SearchInv, CacheInv
  <2>3. \A C : Added(path, pos + 1, C) => C \in exploredSet'
    BY Zenon, <1>2, <1>4, <1>5 DEF SearchInv, CacheInv
  <2>4. exploredSet \subseteq exploredSet' BY Zenon, <1>4
  <2> QED BY ZenonT(60), <1>1, <1>2, <2>1, <2>2, <2>3, <2>4 DEF SearchInv, CacheInv
<1>9. OriginInv'
  <2>1. SUFFICES ASSUME NEW n \in DOMAIN frontier
                 PROVE  \/ \E m \in DOMAIN explored :
                             FlippedWith(explored[m].path, Last(explored[m].path),
                                         frontier[n].canon, frontier[n].extra)
                        \/ FlippedWith(path, pos + 1, frontier[n].canon, frontier[n].extra)
    BY Zenon, <1>1, <1>2 DEF OriginInv
  <2>2. CASE FlippedWith(path, pos, frontier[n].canon, frontier[n].extra) BY Zenon, <1>5, <2>2
  <2>3. CASE /\ frontier[n].extra \subseteq Kept(path, pos)
             /\ \E f \in Slice[path][pos].flips : frontier[n].canon = canon \cup {{f}}
    <3>1. PICK f \in Slice[path][pos].flips : frontier[n].canon = Canon(path, pos) \cup {{f}}
      BY Zenon, <1>3, <2>3
    <3>2. FlippedWith(path, pos + 1, Canon(path, pos) \cup {{f}}, frontier[n].extra)
      BY Zenon, <1>5, <2>3
    <3> QED BY Zenon, <3>1, <3>2
  <2> QED BY Zenon, <2>2, <2>3 DEF SearchInv, OriginInv, Entry
<1>10. SeenInv'
  <2>1. \A C : alreadySeen(C) => C \in exploredSet' \cup frontierSet' BY Zenon, <1>1 DEF alreadySeen
  <2>2. \A f \in Slice[path][pos].flips : alreadySeen(Canon(path, pos) \cup {{f}})
    BY Zenon, <1>1, <1>3 DEF SearchInv, SeenInv, Entry
  <2>3. \A C : Flipped(path, pos, C) => alreadySeen(C) BY Zenon, <1>2 DEF SearchInv, SeenInv
  <2>4. ASSUME NEW C, Flipped(path, pos + 1, C) PROVE C \in exploredSet' \cup frontierSet'
    <3>1. CASE Flipped(path, pos, C) BY Zenon, <2>1, <2>3, <3>1
    <3>2. CASE \E f \in Slice[path][pos].flips : C = Canon(path, pos) \cup {{f}}
      BY Zenon, <2>1, <2>2, <3>2
    <3> QED BY Zenon, <1>5, <2>4, <3>1, <3>2
  <2> QED BY Zenon, <1>1, <1>2, <2>1, <2>4 DEF SearchInv, SeenInv, alreadySeen
<1>11. PendingInv'
  <2>1. SUFFICES ASSUME phase = "run", SlicesAgree(current)
                 PROVE  \E d \in Nat : Depth(d)' /\ \A i \in Good(current) : Safe(i)' \/ InProgress(d, i)'
    BY ZenonT(60), <1>1, <1>2 DEF PendingInv
  <2>2. PICK d \in Nat : Depth(d) /\ \A i \in Good(current) : Safe(i) \/ InProgress(d, i)
    BY Zenon, <1>2, <2>1 DEF SearchInv, PendingInv
  <2>3. Depth(d)' BY Zenon, <1>1, <1>4, <2>2 DEF Depth, alreadySeen
  <2>4. ASSUME NEW i \in Good(current) PROVE Safe(i)' \/ InProgress(d, i)'
    <3>1. CASE Covered(explored, i) BY Zenon, <1>1, <3>1 DEF Safe
    <3>2. CASE \E n \in DOMAIN frontier :
               frontier[n].canon \notin exploredSet /\ i \in Meaning(frontier[n].canon)
      <4>1. PICK n \in DOMAIN frontier :
              frontier[n].canon \notin exploredSet /\ i \in Meaning(frontier[n].canon)
        BY Zenon, <3>2
      <4>2. CASE frontier[n].canon \notin Ext(path, pos) BY Zenon, <1>1, <1>4, <4>1, <4>2 DEF Safe
      <4>3. CASE frontier[n].canon \in Ext(path, pos)
        <5> DEFINE D == frontier[n].canon
        <5>1. \/ D = Canon(path, pos) \cup {Slice[path][pos].cond}
              \/ \E a \in Slice[path][pos].cond : D = Canon(path, pos) \cup {{a}}
          BY Zenon, <4>3 DEF Ext
        <5>2. \A c \in D : i \in UNION c BY Zenon, <4>1 DEF Meaning
        <5> HIDE DEF D
        <5>3. \A c \in Canon(path, pos) : i \in UNION c BY Zenon, <5>1, <5>2
        <5>4. i \in UNION Slice[path][pos].cond
          <6>1. CASE D = Canon(path, pos) \cup {Slice[path][pos].cond} BY Zenon, <5>2, <6>1
          <6>2. CASE \E a \in Slice[path][pos].cond : D = Canon(path, pos) \cup {{a}}
            <7>1. PICK a \in Slice[path][pos].cond : {a} \in D BY Zenon, <6>2
            <7>2. i \in UNION {a} BY Zenon, <5>2, <7>1
            <7> QED BY Zenon, <7>2
          <6> QED BY Zenon, <5>1, <6>1, <6>2
        <5>5. i \in Input BY Zenon DEF Good
        <5>6. i \in Before(path, pos + 1)
          <6>1. i \in Meaning(canon) BY Zenon, <1>3, <5>3, <5>5 DEF Meaning
          <6>2. i \in At(path, pos) BY Zenon, <1>2, <1>3, <6>1, SliceFacts
          <6> QED BY Zenon, <1>5, <5>4, <6>2
        <5>7. d <= pos
          <6>1. CASE d = 0
            <7>1. pos \in Nat BY ZenonT(60), <1>5
            <7> QED BY ONLY <6>1, <7>1
          <6>2. CASE d # 0
            <7>1. \A E : Added(path, d, E) => E \in exploredSet BY Zenon, <2>2, <6>2 DEF Depth
            <7>2. ~Added(path, d, D) BY Zenon, <4>1, <7>1 DEF D
            <7>3. pos \notin 1 .. d - 1 BY ZenonT(60), <1>3, <4>3, <7>2 DEF Added, D
            <7> QED BY <1>5, <7>3
          <6> QED BY ZenonT(60), <6>1, <6>2
        <5>8. i \in Before(path, d + 1)
          <6>1. \A m \in 1 .. (d + 1) - 1 : m \in 1 .. (pos + 1) - 1 BY <1>5, <5>7
          <6> QED BY ZenonT(60), <5>6, <6>1, BeforeHolds
        <5> QED BY Zenon, <1>1, <5>6, <5>8 DEF InProgress
      <4> QED BY Zenon, <4>2, <4>3
    <3>3. CASE InProgress(d, i)
      <4>1. i \in UNION Slice[path][pos].cond BY Zenon, <1>1, <3>3 DEF InProgress, Entry
      <4>2. i \in At(path, pos) BY ZenonT(60), <1>2, <1>3, <3>3, SliceFacts DEF InProgress
      <4>3. i \in Before(path, pos + 1) BY Zenon, <1>5, <4>1, <4>2
      <4> QED BY Zenon, <1>1, <3>3, <4>3 DEF InProgress
    <3> QED BY ZenonT(60), <2>2, <3>1, <3>2, <3>3 DEF Safe
  <2> QED BY Zenon, <2>3, <2>4
<1> QED BY ZenonT(60), <1>6, <1>7, <1>8, <1>9, <1>10, <1>11 DEF SearchInv

\* EndSlice: the new schedule covers what was in progress, and no explored path has
\* its constraint.
LEMMA SearchEndSlice ==
  ASSUME SearchTyped, SearchInv, SlicesAgree(current), EndSlice,
         UNCHANGED <<search, ids, others, localFrontier>>
  PROVE  SearchInv'
<1> DEFINE e == [path |-> path, list |-> list]
<1>1. /\ stage = "branch" /\ pos \notin DOMAIN Slice[path] /\ stage' = "subsume" /\ pos' = 1
      /\ explored' = Append(explored, e)
      /\ UNCHANGED <<frontier, frontierSet, exploredSet, path, canon, list, todo, given,
                     phase, current, base, queue>>
  BY Zenon DEF EndSlice, search, seen
<1>2. Slicing /\ ~Slicing' BY Zenon, <1>1 DEF Slicing
<1>3. path \in Path /\ current \in Region /\ phase = "run"
  BY Zenon, <1>2, SliceFacts
<1>4. pos = Last(path) /\ canon = Canon(path, Last(path)) /\ canon = {list[k].cond : k \in DOMAIN list}
  <2>1. pos \in 1 .. Last(path) /\ canon = Canon(path, pos) /\ canon = {list[k].cond : k \in DOMAIN list}
    BY ZenonT(60), <1>2 DEF SearchInv, SliceInv
  <2>2. pos = Last(path) BY SMTT(30), <1>1, <1>3, <2>1, SliceTyped DEF Last
  <2> QED BY Zenon, <2>1, <2>2
<1>5. e.path = path /\ e.list = list OBVIOUS
<1>6. Conditions(e) = Canon(path, Last(path)) BY Zenon, <1>4, <1>5 DEF Conditions
<1> HIDE DEF e
<1>7. /\ \A n \in DOMAIN explored : n \in DOMAIN explored' /\ explored'[n] = explored[n]
      /\ \A n \in DOMAIN explored' :
           (n \in DOMAIN explored /\ explored'[n] = explored[n]) \/ (n = Len(explored) + 1 /\ explored'[n] = e)
      /\ Len(explored) + 1 \in DOMAIN explored' /\ explored'[Len(explored) + 1] = e
  <2>1. explored \in Seq(Schedule) /\ explored' = Append(explored, e) BY Zenon, <1>1 DEF SearchTyped
  <2> QED BY ONLY <2>1, Appended
<1>8. PICK j \in Good(current) : PathOf[current][j] = path BY ZenonT(60), <1>2, SliceFacts
<1>9. QueueInv' /\ SliceInv' /\ BaseInv' /\ FrontierInv'
  BY <1>1, <1>2 DEF SearchInv, QueueInv, SliceInv, BaseInv, FrontierInv, PathsUnder, SearchTyped
<1>10. ExploredInv'
  <2>1. SUFFICES ASSUME NEW n \in DOMAIN explored'
                 PROVE  /\ GoodPath(current, explored'[n].path)
                        /\ Conditions(explored'[n]) = Canon(explored'[n].path, Last(explored'[n].path))
    BY Zenon, <1>1 DEF ExploredInv
  <2>2. CASE n \in DOMAIN explored /\ explored'[n] = explored[n]
    BY Zenon, <2>2 DEF SearchInv, ExploredInv
  <2>3. CASE explored'[n] = e BY Zenon, <1>5, <1>6, <1>8, <2>3 DEF GoodPath
  <2> QED BY Zenon, <1>7, <2>2, <2>3
<1>11. CacheInv'
  <2>1. \A C \in exploredSet :
          \E n \in DOMAIN explored' : Added(explored'[n].path, Last(explored'[n].path), C)
    <3>1. SUFFICES ASSUME NEW C \in exploredSet
                   PROVE  \E n \in DOMAIN explored' : Added(explored'[n].path, Last(explored'[n].path), C)
      OBVIOUS
    <3>2. CASE \E n \in DOMAIN explored : Added(explored[n].path, Last(explored[n].path), C)
      BY Zenon, <1>7, <3>2
    <3>3. CASE Added(path, pos, C) BY Zenon, <1>4, <1>5, <1>7, <3>3
    <3> QED BY Zenon, <3>2, <3>3 DEF SearchInv, CacheInv
  <2>2. \A C \in frontierSet :
          \E n \in DOMAIN explored' : Flipped(explored'[n].path, Last(explored'[n].path), C)
    <3>1. SUFFICES ASSUME NEW C \in frontierSet
                   PROVE  \E n \in DOMAIN explored' : Flipped(explored'[n].path, Last(explored'[n].path), C)
      OBVIOUS
    <3>2. CASE \E n \in DOMAIN explored : Flipped(explored[n].path, Last(explored[n].path), C)
      BY Zenon, <1>7, <3>2
    <3>3. CASE Flipped(path, pos, C) BY Zenon, <1>4, <1>5, <1>7, <3>3
    <3> QED BY ZenonT(60), <1>1, <3>2, <3>3 DEF SearchInv, CacheInv
  <2>3. ASSUME NEW n \in DOMAIN explored', NEW C, Added(explored'[n].path, Last(explored'[n].path), C)
        PROVE  C \in exploredSet
    <3>1. CASE n \in DOMAIN explored /\ explored'[n] = explored[n]
      BY Zenon, <1>3, <2>3, <3>1 DEF SearchInv, CacheInv
    <3>2. CASE explored'[n] = e
      BY ZenonT(60), <1>2, <1>4, <1>5, <2>3, <3>2 DEF SearchInv, CacheInv
    <3> QED BY Zenon, <1>7, <3>1, <3>2
  <2>4. \A n \in DOMAIN frontier : frontier[n].canon \in frontierSet BY Zenon DEF SearchInv, CacheInv
  <2> QED BY ZenonT(60), <1>1, <1>2, <2>1, <2>2, <2>3, <2>4 DEF CacheInv
<1>12. OriginInv'
  <2>1. SUFFICES ASSUME NEW n \in DOMAIN frontier
                 PROVE  \E m \in DOMAIN explored' :
                          FlippedWith(explored'[m].path, Last(explored'[m].path),
                                      frontier[n].canon, frontier[n].extra)
    BY Zenon, <1>1, <1>2 DEF OriginInv
  <2>2. CASE \E m \in DOMAIN explored :
               FlippedWith(explored[m].path, Last(explored[m].path), frontier[n].canon, frontier[n].extra)
    BY Zenon, <1>7, <2>2
  <2>3. CASE FlippedWith(path, pos, frontier[n].canon, frontier[n].extra)
    BY ZenonT(60), <1>4, <1>5, <1>7, <2>3
  <2> QED BY Zenon, <1>1, <2>2, <2>3 DEF SearchInv, OriginInv
<1>13. SeenInv'
  <2>1. ASSUME NEW n \in DOMAIN explored', NEW C, Flipped(explored'[n].path, Last(explored'[n].path), C)
        PROVE  alreadySeen(C)
    <3>1. CASE n \in DOMAIN explored /\ explored'[n] = explored[n]
      BY Zenon, <1>3, <2>1, <3>1 DEF SearchInv, SeenInv
    <3>2. CASE explored'[n] = e
      BY Zenon, <1>2, <1>4, <1>5, <2>1, <3>2 DEF SearchInv, SeenInv
    <3> QED BY Zenon, <1>7, <3>1, <3>2
  <2> QED BY Zenon, <1>1, <1>2, <2>1 DEF SeenInv, alreadySeen
<1>14. ASSUME SlicesAgree(current)
       PROVE  \E d \in Nat : Depth(d) /\ \A i \in Good(current) : Safe(i) \/ InProgress(d, i)
  BY Zenon, <1>2, <1>3, <1>14 DEF SearchInv, PendingInv
<1>15. PendingInv'
  <2>1. SUFFICES ASSUME SlicesAgree(current), NEW i \in Good(current) PROVE Safe(i)'
    BY Zenon, <1>1, <1>2 DEF PendingInv
  <2>2. PICK d \in Nat : Depth(d) /\ (Safe(i) \/ InProgress(d, i)) BY Zenon, <1>14, <2>1
  <2>3. CASE Covered(explored, i) BY Zenon, <1>7, <2>3 DEF Covered, Safe
  <2>4. CASE \E n \in DOMAIN frontier :
               frontier[n].canon \notin exploredSet /\ i \in Meaning(frontier[n].canon)
    BY Zenon, <1>1, <2>4 DEF Safe
  <2>5. CASE InProgress(d, i)
    <3>1. i \in Meaning(canon) BY Zenon, <1>2, <2>5, SliceFacts DEF InProgress
    <3>2. Covers(e, i) BY ZenonT(60), <1>4, <1>5, <3>1 DEF Covers, Meaning
    <3>3. Covered(explored', i) BY Zenon, <1>7, <3>2 DEF Covered
    <3> QED BY Zenon, <3>3 DEF Safe
  <2> QED BY ZenonT(60), <2>2, <2>3, <2>4, <2>5 DEF Safe
<1>16. NoPathTwice'
  <2>1. SUFFICES ASSUME SlicesAgree(current)
                 PROVE  \A m, n \in DOMAIN explored' :
                          Conditions(explored'[m]) = Conditions(explored'[n]) => m = n
    BY Zenon, <1>1 DEF NoPathTwice
  <2>2. PICK d \in Nat : Depth(d) BY Zenon, <1>14, <2>1
  <2>3. ASSUME NEW n \in DOMAIN explored, Conditions(explored[n]) = Conditions(e) PROVE FALSE
    <3> DEFINE q == explored[n].path
    <3>1. Canon(q, Last(q)) = Canon(path, Last(path))
      BY Zenon, <1>6, <2>3 DEF SearchInv, ExploredInv
    <3>2. PICK v \in Good(current) : PathOf[current][v] = q
      BY ZenonT(60) DEF SearchInv, ExploredInv, GoodPath
    <3>3. q \in Path /\ v \in Input BY Zenon, <1>3, <3>2, GoodTyped
    <3>4. /\ Last(q) \in Nat /\ Last(q) - 1 \in 0 .. Len(Slice[q])
          /\ Last(path) \in Nat /\ Last(path) - 1 \in 0 .. Len(Slice[path])
          /\ 1 .. Last(q) - 1 = DOMAIN Slice[q] /\ 1 .. Last(path) - 1 = DOMAIN Slice[path]
      BY Zenon, <1>3, <3>3, LastIndex
    <3>5. v \in Before(q, Last(q))
      <4> HIDE DEF q
      <4> QED BY ZenonT(60), <1>3, <3>2, <3>4, OwnBefore
    <3>6. v \in Before(path, Last(path))
      <4> HIDE DEF q
      <4>1. v \in Before(q, Last(q)) <=> v \in Meaning(Canon(q, Last(q)))
        BY ZenonT(60), <1>3, <2>1, <3>2, <3>4, GoodMeaning
      <4>2. v \in Before(path, Last(path)) <=> v \in Meaning(Canon(path, Last(path)))
        BY ZenonT(60), <1>3, <1>8, <2>1, <3>4, GoodMeaning
      <4> QED BY ZenonT(60), <3>1, <3>5, <4>1, <4>2
    <3>7. Same(path, q, Last(path))
      <4> HIDE DEF q
      <4>1. /\ Last(PathOf[current][j]) - 1 \in 0 .. Len(Slice[PathOf[current][j]])
            /\ v \in Before(PathOf[current][j], Last(path)) /\ Last(path) \in Nat
            /\ Last(path) - 1 \in 0 .. Len(Slice[PathOf[current][j]])
        BY Zenon, <1>8, <3>4, <3>6
      <4>2. Same(PathOf[current][j], PathOf[current][v], Last(path))
        BY Zenon, <1>3, <2>1, <4>1, SameBefore
      <4> QED BY Zenon, <1>8, <3>2, <4>2
    <3>8. d + 1 <= Last(path)
      <4>1. CASE d = 0
        <5>1. Last(path) \in Nat /\ 1 \in 1 .. Last(path) BY ZenonT(60), <1>3, LastIndex
        <5> QED BY ONLY <4>1, <5>1
      <4>2. CASE d # 0
        <5>1. d \in DOMAIN Slice[path] BY ZenonT(60), <2>2, <4>2 DEF Depth, NonRed
        <5> QED BY <3>4, <5>1
      <4> QED BY ZenonT(60), <4>1, <4>2
    <3>9. Same(path, q, d + 1)
      <4>1. d + 1 \in Nat BY ONLY d \in Nat
      <4> HIDE DEF q
      <4> QED BY ZenonT(60), <3>4, <3>7, <3>8, <4>1, SameShorter
    <3> QED BY Zenon, <1>2, <2>2, <3>9, NotShared
  <2>4. SUFFICES ASSUME NEW m \in DOMAIN explored', NEW n \in DOMAIN explored',
                        Conditions(explored'[m]) = Conditions(explored'[n]), m # n
                 PROVE  FALSE
    OBVIOUS
  <2>5. CASE m \in DOMAIN explored /\ explored'[m] = explored[m]
    <3>1. CASE n \in DOMAIN explored /\ explored'[n] = explored[n]
      BY ZenonT(60), <2>1, <2>4, <2>5, <3>1 DEF SearchInv, NoPathTwice
    <3>2. CASE explored'[n] = e
      <4>1. Conditions(explored[m]) = Conditions(e) BY Zenon, <2>4, <2>5, <3>2
      <4> QED BY Zenon, <2>3, <2>5, <4>1
    <3> QED BY Zenon, <1>7, <3>1, <3>2
  <2>6. CASE m = Len(explored) + 1 /\ explored'[m] = e
    <3>1. n \in DOMAIN explored /\ explored'[n] = explored[n] BY Zenon, <1>7, <2>4, <2>6
    <3>2. Conditions(explored[n]) = Conditions(e) BY Zenon, <2>4, <2>6, <3>1
    <3> QED BY Zenon, <2>3, <3>1, <3>2
  <2> QED BY Zenon, <1>7, <2>5, <2>6
<1> QED BY ZenonT(60), <1>9, <1>10, <1>11, <1>12, <1>13, <1>15, <1>16 DEF SearchInv

\* Subsume: what is erased is in the explored set, and no input was waiting for it.
LEMMA SearchSubsume ==
  ASSUME SearchTyped, SearchInv, SlicesAgree(current), Subsume,
         UNCHANGED <<search, ids, others, localFrontier>>
  PROVE  SearchInv'
<1>1. /\ stage = "subsume" /\ pos \in DOMAIN frontier
      /\ UNCHANGED <<frontierSet, explored, exploredSet, stage, path, canon, list, todo, given,
                     phase, current, base, queue>>
  BY Zenon DEF Subsume, search, seen
<1>2. ~Slicing /\ ~Slicing' BY Zenon, <1>1 DEF Slicing
<1>3. /\ \A n \in DOMAIN frontier' : \E m \in DOMAIN frontier : frontier'[n] = frontier[m]
      /\ \A n \in DOMAIN frontier : frontier[n].canon \notin exploredSet =>
           \E m \in DOMAIN frontier' : frontier'[m] = frontier[n]
      /\ \A n \in DOMAIN frontier' : n < pos' => frontier'[n].canon \notin exploredSet
  <2>1. \A n \in DOMAIN frontier : n < pos => frontier[n].canon \notin exploredSet
    BY Zenon, <1>1 DEF SearchInv, FrontierInv
  <2>2. CASE frontier[pos].canon \in exploredSet /\ frontier' = Without(frontier, pos) /\ pos' = pos
    <3>1. frontier \in Seq(Entries) /\ DOMAIN frontier = 1 .. Len(frontier)
          /\ pos \in Nat /\ Len(frontier) \in Nat
      BY <1>1 DEF SearchTyped
    <3>2. /\ Without(frontier, pos) \in Seq(Entries)
          /\ Len(Without(frontier, pos)) = Len(frontier) - 1
          /\ \A n \in DOMAIN frontier : n < pos =>
               n \in DOMAIN Without(frontier, pos) /\ Without(frontier, pos)[n] = frontier[n]
          /\ \A n \in DOMAIN frontier : n > pos =>
               n - 1 \in DOMAIN Without(frontier, pos) /\ Without(frontier, pos)[n - 1] = frontier[n]
          /\ \A n \in DOMAIN Without(frontier, pos) :
               \E m \in DOMAIN frontier : Without(frontier, pos)[n] = frontier[m]
      BY Zenon, <1>1, <3>1, WithoutTyped
    <3>3. ASSUME NEW n \in DOMAIN frontier, frontier[n].canon \notin exploredSet
          PROVE  \E m \in DOMAIN frontier' : frontier'[m] = frontier[n]
      <4>1. n # pos BY Zenon, <2>2, <3>3
      <4>2. CASE n < pos BY Zenon, <2>2, <3>2, <4>2
      <4>3. CASE n > pos BY Zenon, <2>2, <3>2, <4>3
      <4> QED BY <3>1, <4>1, <4>2, <4>3
    <3>4. ASSUME NEW n \in DOMAIN frontier', n < pos' PROVE frontier'[n].canon \notin exploredSet
      <4>1. n \in DOMAIN frontier BY <2>2, <3>1, <3>2, <3>4
      <4> QED BY ZenonT(60), <2>1, <2>2, <3>2, <3>4, <4>1
    <3> QED BY ZenonT(60), <2>2, <3>2, <3>3, <3>4
  <2>3. CASE frontier[pos].canon \notin exploredSet /\ frontier' = frontier /\ pos' = pos + 1
    <3>1. DOMAIN frontier = 1 .. Len(frontier) /\ Len(frontier) \in Nat /\ pos \in Nat
      BY <1>1 DEF SearchTyped
    <3>2. \A n \in 1 .. Len(frontier) : n < pos + 1 => n < pos \/ n = pos BY ZenonT(60), <3>1, BelowNext
    <3> QED BY ZenonT(60), <2>1, <2>3, <3>1, <3>2
  <2> QED BY Zenon, <2>2, <2>3 DEF Subsume
<1>4. QueueInv' /\ SliceInv' /\ ExploredInv' /\ BaseInv' /\ NoPathTwice'
  BY <1>1, <1>2 DEF SearchInv, QueueInv, SliceInv, ExploredInv, BaseInv, NoPathTwice, PathsUnder
<1>5. CacheInv' /\ OriginInv' /\ SeenInv'
  <2>1. CacheInv' BY Zenon, <1>1, <1>2, <1>3 DEF SearchInv, CacheInv
  <2>2. OriginInv' BY Zenon, <1>1, <1>2, <1>3 DEF SearchInv, OriginInv
  <2>3. SeenInv' BY Zenon, <1>1, <1>2 DEF SearchInv, SeenInv, alreadySeen
  <2> QED BY Zenon, <2>1, <2>2, <2>3
<1>6. FrontierInv' BY Zenon, <1>1, <1>3 DEF FrontierInv
<1>7. PendingInv'
  <2>1. SUFFICES ASSUME phase = "run", SlicesAgree(current), NEW i \in Good(current) PROVE Safe(i)'
    BY Zenon, <1>1, <1>2 DEF PendingInv
  <2>2. Safe(i) BY Zenon, <1>1, <2>1 DEF SearchInv, PendingInv
  <2>3. CASE Covered(explored, i) BY Zenon, <1>1, <2>3 DEF Safe
  <2>4. CASE \E n \in DOMAIN frontier :
               frontier[n].canon \notin exploredSet /\ i \in Meaning(frontier[n].canon)
    BY Zenon, <1>1, <1>3, <2>4 DEF Safe
  <2> QED BY Zenon, <2>2, <2>3, <2>4 DEF Safe
<1> QED BY Zenon, <1>4, <1>5, <1>6, <1>7 DEF SearchInv

\* processPath: the frontier that is left has not been explored.
LEMMA SearchProcessPath ==
  ASSUME SearchTyped, SearchInv, SlicesAgree(current), processPath
  PROVE  SearchInv'
<1>1. /\ stage = "subsume" /\ stage' = "idle" /\ pos \notin DOMAIN frontier /\ queue' = {}
      /\ UNCHANGED <<frontier, frontierSet, explored, exploredSet, given, phase, current, base>>
  BY Zenon DEF processPath, EndSubsume, seen
<1>2. ~Slicing /\ ~Slicing' BY Zenon, <1>1 DEF Slicing
<1>3. QueueInv' /\ SliceInv' /\ ExploredInv' /\ BaseInv' /\ NoPathTwice'
  BY ZenonT(60), <1>1, <1>2 DEF SearchInv, QueueInv, SliceInv, ExploredInv, BaseInv, NoPathTwice, PathsUnder
<1>4. CacheInv' /\ OriginInv' /\ SeenInv'
  <2>1. CacheInv' BY Zenon, <1>1, <1>2 DEF SearchInv, CacheInv
  <2>2. OriginInv' BY Zenon, <1>1, <1>2 DEF SearchInv, OriginInv
  <2>3. SeenInv' BY Zenon, <1>1, <1>2 DEF SearchInv, SeenInv, alreadySeen
  <2> QED BY Zenon, <2>1, <2>2, <2>3
<1>5. FrontierInv'
  <2>1. \A n \in DOMAIN frontier : n < pos => frontier[n].canon \notin exploredSet
    BY Zenon, <1>1 DEF SearchInv, FrontierInv
  <2>2. ASSUME NEW n \in DOMAIN frontier PROVE n < pos
    <3>1. DOMAIN frontier = 1 .. Len(frontier) /\ Len(frontier) \in Nat /\ pos \in Nat \ {0}
      BY DEF SearchTyped
    <3>2. pos \notin 1 .. Len(frontier) /\ n \in 1 .. Len(frontier) BY Zenon, <1>1, <2>2, <3>1
    <3> QED BY ONLY <3>1, <3>2
  <2> QED BY Zenon, <1>1, <2>1, <2>2 DEF FrontierInv
<1>6. PendingInv'
  <2>1. SUFFICES ASSUME phase = "run", SlicesAgree(current), NEW i \in Good(current) PROVE Safe(i)'
    BY Zenon, <1>1, <1>2 DEF PendingInv
  <2>2. Safe(i) BY Zenon, <1>1, <2>1 DEF SearchInv, PendingInv
  <2> QED BY Zenon, <1>1, <2>2 DEF Safe
<1> QED BY Zenon, <1>3, <1>4, <1>5, <1>6 DEF SearchInv
-----------------------------------------------------------------------------
(* The theorems.                                                             *)

Inv ==
  /\ SearchTyped /\ RegionInv /\ RegionsOnce /\ IdsDense /\ RegionCovered
  /\ SlicesAgree(current) => SearchInv

\* Only the end of a region changes what is completed.
LEMMA CoveredKept ==
  ASSUME RegionCovered, UNCHANGED <<completed, schedules>>
  PROVE  RegionCovered'
  BY Zenon DEF RegionCovered

\* The invariant holds in the beginning.
LEMMA InvInit == Init => Inv
<1>1. Init => RegionCovered BY Zenon DEF Init, RegionCovered
<1> QED BY Zenon, <1>1, TypedInit, RegionInit, SearchInit DEF Inv

\* Every step keeps it.
LEMMA InvStep == Inv /\ [Next]_vars => Inv'
<1> SUFFICES ASSUME Inv, [Next]_vars PROVE Inv' OBVIOUS
<1> USE DEF Inv
<1>1. \A r \in (regionsFrontier \cup localFrontier) :
        r \in Region /\ schedules[r] = <<>> /\ r # current
  BY Zenon DEF RegionInv, RegionsOnce
<1>2. schedules = [r \in Region |-> schedules[r]] BY Zenon DEF RegionInv
<1>3. SearchTyped' BY Zenon, <1>1, <1>2, TypedStep
<1>4. RegionInv' /\ RegionsOnce' /\ IdsDense' BY Zenon, RegionStep
<1>5. (SlicesAgree(current') => SearchInv') /\ RegionCovered'
  <2>1. CASE onIcsBegin
    <3>1. UNCHANGED <<completed, schedules, current>> BY Zenon, <2>1 DEF onIcsBegin, others
    <3> QED BY Zenon, <2>1, <3>1, SearchBegin, CoveredKept
  <2>2. CASE onStateDiscarded
    <3>1. UNCHANGED <<completed, schedules, current>> BY Zenon, <2>2 DEF onStateDiscarded, others
    <3> QED BY Zenon, <2>2, <3>1, SearchDiscard, CoveredKept
  <2>3. CASE EndPath
    <3>1. UNCHANGED <<completed, schedules, current>> BY Zenon, <2>3 DEF EndPath, search, others
    <3> QED BY Zenon, <2>3, <3>1, SearchEndPath, CoveredKept
  <2>4. CASE processSlice /\ UNCHANGED <<search, ids, others, localFrontier>>
    <3>1. UNCHANGED <<completed, schedules, current>> BY Zenon, <2>4 DEF search, others
    <3>2. SlicesAgree(current') => SearchInv'
      BY ZenonT(60), <2>4, <3>1, SearchSkip, SearchTake, SearchPush, SearchAdd, SearchEndSlice, SearchSubsume
      DEF processSlice
    <3> QED BY Zenon, <3>1, <3>2, CoveredKept
  <2>5. CASE processPath
    <3>1. UNCHANGED <<completed, schedules, current>> BY ZenonT(60), <2>5 DEF processPath, others
    <3> QED BY Zenon, <2>5, <3>1, SearchProcessPath, CoveredKept
  <2>6. CASE NextPath
    <3>1. UNCHANGED <<completed, schedules, current>> BY Zenon, <2>6 DEF NextPath, others
    <3> QED BY Zenon, <2>6, <3>1, SearchNextPath, CoveredKept
  <2>7. CASE NextRegion BY Zenon, <1>3, <2>7, SearchNextRegion
  <2>8. CASE UNCHANGED vars
    <3>1. UNCHANGED <<frontier, frontierSet, explored, exploredSet, stage, path, pos, canon, list, todo,
                      given, phase, current, base, queue, completed, schedules>>
      BY ZenonT(60), <2>8 DEF vars, pathVars, seen, builder, search, others
    <3>2. ASSUME SlicesAgree(current') PROVE SearchInv'
      <4>1. SearchInv BY ZenonT(60), <3>1, <3>2
      <4>2. QueueInv' /\ SliceInv' /\ ExploredInv' /\ FrontierInv' /\ BaseInv' /\ NoPathTwice'
        <5>1. QueueInv' BY ZenonT(60), <3>1, <4>1 DEF SearchInv, QueueInv, PathsUnder, Entry
        <5>2. SliceInv' BY ZenonT(60), <3>1, <4>1 DEF SearchInv, SliceInv, Slicing, Entry
        <5>3. ExploredInv' BY ZenonT(60), <3>1, <4>1 DEF SearchInv, ExploredInv
        <5>4. FrontierInv' BY ZenonT(60), <3>1, <4>1 DEF SearchInv, FrontierInv
        <5>5. BaseInv' BY ZenonT(60), <3>1, <4>1 DEF SearchInv, BaseInv
        <5>6. NoPathTwice' BY ZenonT(60), <3>1, <4>1 DEF SearchInv, NoPathTwice
        <5> QED BY ZenonT(60), <5>1, <5>2, <5>3, <5>4, <5>5, <5>6
      <4>3. CacheInv' BY Zenon, <3>1, <4>1 DEF SearchInv, CacheInv, Slicing, Entry
      <4>4. OriginInv' BY Zenon, <3>1, <4>1 DEF SearchInv, OriginInv, Slicing, Entry
      <4>5. SeenInv' BY Zenon, <3>1, <4>1 DEF SearchInv, SeenInv, Slicing, Entry, alreadySeen
      <4>6. PendingInv'
        BY Zenon, <3>1, <4>1 DEF SearchInv, PendingInv, Slicing, Entry, Safe, Depth, InProgress, alreadySeen
      <4> QED BY ZenonT(60), <4>2, <4>3, <4>4, <4>5, <4>6 DEF SearchInv
    <3> QED BY Zenon, <3>1, <3>2, CoveredKept
  <2> QED BY ZenonT(60), <2>1, <2>2, <2>3, <2>4, <2>5, <2>6, <2>7, <2>8 DEF Next
<1> QED BY Zenon, <1>3, <1>4, <1>5

\* The search loses no input: between two paths, an input that is not covered yet
\* is on the frontier or running, and when a region is completed every input of
\* it whose path does not fail satisfies one of its schedules (processSlice and
\* onNextJobSelection), provided that the slices of the region agree.
THEOREM SearchCovers == Spec => [](InputsPending /\ RegionCovered)
<1>1. Inv => InputsPending
  BY Zenon DEF Inv, SearchInv, PendingInv, InputsPending, Safe
<1>2. Inv => RegionCovered BY Zenon DEF Inv
<1> QED BY <1>1, <1>2, InvInit, InvStep, PTL DEF Spec

\* The search finds every schedule once.  The constraint it records for it, without
\* the branches that mustBeTrue finds redundant, admits just the inputs that the
\* whole slice admits, among those that satisfy the assertions of the path and
\* those whose own path does not fail (processSlice).
THEOREM SchedulesRecorded == Spec => [](SchedulesExact /\ NoPathTwice)
<1>1. Inv => NoPathTwice BY Zenon DEF Inv, SearchInv, NoPathTwice
<1>2. ASSUME Inv, SlicesAgree(current), NEW n \in DOMAIN explored,
             NEW i \in Good(current) \cup Asserting(explored[n].path, Len(Slice[explored[n].path]) + 1)
      PROVE  Covers(explored[n], i) <=> i \in Before(explored[n].path, Len(Slice[explored[n].path]) + 1)
  <2> DEFINE p == explored[n].path
  <2>1. /\ GoodPath(current, p) /\ Conditions(explored[n]) = Canon(p, Last(p))
        /\ current \in Region
    BY ZenonT(60), <1>2 DEF Inv, SearchInv, ExploredInv, SearchTyped
  <2>2. PICK j \in Good(current) : PathOf[current][j] = p BY Zenon, <2>1 DEF GoodPath
  <2>3. p \in Path BY Zenon, <2>1, <2>2, GoodTyped
  <2>4. i \in Good(current) \cup Asserting(p, Last(p)) BY Zenon, <1>2 DEF Last
  <2>5. i \in Input BY Zenon, <2>4 DEF Good, Asserting, Meaning
  <2>6. Covers(explored[n], i) <=> i \in Meaning(Conditions(explored[n]))
    BY ZenonT(60), <2>5 DEF Covers, Meaning, Conditions
  <2> HIDE DEF p
  <2>7. Last(p) \in Nat /\ Last(p) - 1 \in 0 .. Len(Slice[p]) BY Zenon, <2>3, LastIndex
  <2>8. i \in Meaning(Canon(p, Last(p))) <=> i \in Before(p, Last(p))
    <3>1. CASE i \in Good(current) BY ZenonT(60), <1>2, <2>1, <2>2, <2>7, <3>1, GoodMeaning
    <3>2. CASE i \in Asserting(p, Last(p))
      <4>1. \A m \in 1 .. Last(p) - 1 : i \in Holds(p, m)
        BY Zenon, <3>2, AssertedHolds DEF Asserting
      <4> QED BY ZenonT(60), <2>3, <2>5, <2>7, <4>1, CanonMeaning
    <3> QED BY Zenon, <2>4, <3>1, <3>2
  <2> QED BY Zenon, <2>1, <2>6, <2>8 DEF p, Last
<1>3. Inv => SchedulesExact BY Zenon, <1>2 DEF SchedulesExact
<1> QED BY <1>1, <1>3, InvInit, InvStep, PTL DEF Spec

\* Every region that a schedule leads to is explored, once, from a clean path
\* manager, and under an id of its own: the ids are 1 .. nextId - 1 (addRegion,
\* flushRegionStagingArea and onIcsBegin).
THEOREM RegionsExploredOnce == Spec => [](RegionsOnce /\ IdsDense /\ FreshRegion)
<1>1. Inv => RegionsOnce /\ IdsDense BY Zenon DEF Inv
<1>2. Inv => FreshRegion BY Zenon DEF Inv, SearchTyped, FreshRegion
<1> QED BY <1>1, <1>2, InvInit, InvStep, PTL DEF Spec
=============================================================================
