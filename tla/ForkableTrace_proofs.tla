------------------------ MODULE ForkableTrace_proofs ------------------------
(***************************************************************************)
(* ForkableTrace, proved for any number of traces, nodes and elements: the  *)
(* sharing discipline, that traces behave as sequences of their own, and    *)
(* that every way to read a trace agrees.                                   *)
(***************************************************************************)
EXTENDS ForkableTrace_refinement, WellFoundedInduction, SequenceTheorems, TLAPS

Sharing == TypeOK /\ TailPrivate

\* The arithmetic of the places: element i of the l elements that b others precede has place
\* idx = b + (i - 1), which comes before e = b + l. It is the place b itself only for i = 1, and
\* the last place before e only for i = l.
PlaceFacts(b, l, i, e, idx) ==
  /\ idx \in Nat /\ b <= idx /\ idx < e
  /\ idx <= b => i = 1 /\ b = idx
  /\ e <= idx + 1 => i = l /\ e = idx + 1
  /\ i < l => i + 1 \in 1 .. l /\ b + ((i + 1) - 1) = idx + 1 /\ idx + 1 < e
  /\ ~(i < l) => e = idx + 1
  /\ i # 1 => i - 1 \in 1 .. l /\ b + ((i - 1) - 1) = idx - 1
  /\ i = 1 => idx = b

\* Those facts hold of every element.
LEMMA Places ==
  ASSUME NEW b \in Nat, NEW l \in Nat, NEW i \in 1 .. l, NEW e, e = b + l,
         NEW idx, idx = b + (i - 1)
  PROVE  PlaceFacts(b, l, i, e, idx)
BY DEF PlaceFacts

\* In linear order, what is at most a and more than a cannot be.
LEMMA NoneBetween ==
  ASSUME NEW a \in Nat, NEW b \in Nat, a <= b, b < a
  PROVE  FALSE
OBVIOUS

\* A number is below the successor of whatever is no smaller.
LEMMA LessNext ==
  ASSUME NEW a \in Nat, NEW b \in Nat, a <= b
  PROVE  a < b + 1
OBVIOUS

\* What is below a bound is not a larger bound.
LEMMA BelowBound ==
  ASSUME NEW a \in Nat, NEW b \in Nat, NEW c \in Nat, a + 1 < b, b <= c
  PROVE  a + 1 # c
OBVIOUS

\* Nothing fits between two equal bounds.
LEMMA NothingFits ==
  ASSUME NEW a \in Nat, NEW b \in Nat, NEW l \in Nat, NEW e, e = b + l, a <= b, e <= a
  PROVE  l = 0
OBVIOUS

\* A fresh node is a node, and no list holds it.
LEMMA NewNodeUnused ==
  ASSUME NEW S, Unused \ S # {}
  PROVE  /\ NewNode(S) \in NodeId /\ NewNode(S) \notin S
         /\ \A t \in Trace : \A k \in DOMAIN nodes[t] : nodes[t][k] # NewNode(S)
BY DEF NewNode, Unused, Range

\* Store keeps the shape of the state when it is given one of that shape.
LEMMA StoreTypes ==
  ASSUME NEW ns \in [Trace -> Seq(NodeId)], NEW d, Store(ns, d)
  PROVE  TypeOK'
BY DEF Store, TypeOK

\* An operation that leaves the lists alone keeps the tails private.
LEMMA SameLists ==
  ASSUME Sharing, NEW d, Store(nodes, d)
  PROVE  Sharing'
<1>1. TypeOK' BY StoreTypes DEF Sharing, TypeOK
<1>2. nodes' = nodes BY DEF Store
<1>3. TailPrivate' BY <1>2 DEF Sharing, TailPrivate, OnlyRef, Live
<1> QED BY <1>1, <1>3 DEF Sharing

\* A trace that starts again from one fresh node keeps the tails private.
LEMMA FreshList ==
  ASSUME Sharing, NEW t \in Trace, Unused # {}, NEW d,
         Store([nodes EXCEPT ![t] = <<NewNode({})>>], d)
  PROVE  Sharing'
<1> DEFINE n == NewNode({})
<1> DEFINE ns == [nodes EXCEPT ![t] = <<n>>]
<1>1. /\ n \in NodeId
      /\ \A u \in Trace : \A k \in DOMAIN nodes[u] : nodes[u][k] # n
  <2>1. Unused \ {} # {} OBVIOUS
  <2> QED BY <2>1, NewNodeUnused
<1> HIDE DEF n
<1>2. ns \in [Trace -> Seq(NodeId)]
  <2>1. <<n>> \in Seq(NodeId) BY <1>1
  <2> QED BY <2>1 DEF Sharing, TypeOK
<1>3. nodes' = ns BY DEF Store, n
<1>4. TypeOK' BY <1>2, StoreTypes, Zenon DEF n
<1>5. /\ nodes'[t] = <<n>>
      /\ \A u \in Trace \ {t} : nodes'[u] = nodes[u]
  BY <1>3 DEF Sharing, TypeOK
<1>6. TailPrivate'
  <2> SUFFICES ASSUME NEW v \in Trace, nodes'[v] # <<>>,
                      NEW u \in Trace, NEW j \in DOMAIN nodes'[u],
                      nodes'[u][j] = nodes'[v][Len(nodes'[v])]
               PROVE  u = v /\ j = Len(nodes'[v])
    BY DEF TailPrivate, OnlyRef, Live
  <2>1. Len(nodes'[v]) \in DOMAIN nodes'[v]
    BY <1>2, <1>3
  <2>2. CASE v = t /\ u = t
    BY <2>2, <1>5
  <2>3. CASE v = t /\ u # t
    BY <2>3, <1>5, <1>1
  <2>4. CASE v # t /\ u = t
    BY <2>4, <2>1, <1>5, <1>1
  <2>5. CASE v # t /\ u # t
    BY <2>5, <1>5 DEF Sharing, TailPrivate, OnlyRef, Live
  <2> QED BY <2>2, <2>3, <2>4, <2>5
<1> QED BY <1>4, <1>6 DEF Sharing

\* The copy constructor: both tails are private afterwards.
LEMMA ForkKeepsSharing ==
  ASSUME Sharing, NEW t \in Trace, NEW u \in Trace, Fork(t, u)
  PROVE  Sharing'
<1> DEFINE n == NewNode({})
<1> DEFINE m == NewNode({n})
<1> DEFINE l == SplitTail(t)
<1> DEFINE c == ForkOf(l, m)
<1>1. /\ n \in NodeId
      /\ \A v \in Trace : \A k \in DOMAIN nodes[v] : nodes[v][k] # n
  <2>1. Unused \ {} # {} BY DEF Fork
  <2> QED BY <2>1, NewNodeUnused
<1>2. /\ m \in NodeId /\ m # n
      /\ \A v \in Trace : \A k \in DOMAIN nodes[v] : nodes[v][k] # m
  <2>1. Unused \ {n} # {} BY DEF Fork
  <2>2. m \notin {n} BY <2>1, NewNodeUnused
  <2> HIDE DEF n
  <2> QED BY <2>1, <2>2, NewNodeUnused
<1>3. t # u /\ nodes[t] # <<>> BY DEF Fork, Live
<1>4. l = nodes[t] \/ l = Append(nodes[t], n) BY DEF SplitTail
<1>5. nodes' = [nodes EXCEPT ![t] = l, ![u] = c] BY DEF Fork, Store
<1>6. c = [l EXCEPT ![Len(l)] = m] BY DEF ForkOf
<1>7. nodes[t] \in Seq(NodeId) BY DEF Sharing, TypeOK
<1>8. OnlyRef(t, Len(nodes[t])) BY <1>3 DEF Sharing, TailPrivate, Live
<1>st. Store([nodes EXCEPT ![t] = l, ![u] = c], data) BY DEF Fork
<1> HIDE DEF n, m, l, c
<1>9. /\ l \in Seq(NodeId) /\ Len(l) \in DOMAIN l /\ Len(l) \in Nat
      /\ DOMAIN l = 1 .. Len(l)
  BY SMTT(30), <1>1, <1>3, <1>4, <1>7
<1>10. /\ c \in Seq(NodeId) /\ DOMAIN c = DOMAIN l /\ Len(c) = Len(l)
       /\ c[Len(l)] = m
       /\ \A k \in DOMAIN l : k # Len(l) => c[k] = l[k]
  BY <1>2, <1>6, <1>9
<1>11. /\ nodes'[t] = l /\ nodes'[u] = c
       /\ \A v \in Trace \ {t, u} : nodes'[v] = nodes[v]
  BY <1>3, <1>5 DEF Sharing, TypeOK
<1>12. TypeOK'
  <2>1. [nodes EXCEPT ![t] = l, ![u] = c] \in [Trace -> Seq(NodeId)]
    BY ZenonT(60), <1>9, <1>10 DEF Sharing, TypeOK
  <2> QED BY <2>1, <1>st, StoreTypes, Zenon
\* the tail of the original occurs nowhere else
<1>13. /\ \A k \in DOMAIN l : l[k] = l[Len(l)] => k = Len(l)
       /\ \A v \in Trace \ {t} : \A k \in DOMAIN nodes[v] :
            nodes[v][k] # l[Len(l)]
       /\ \A k \in DOMAIN l : l[k] # m
  <2>1. CASE l = nodes[t]
    BY <2>1, <1>2, <1>8, <1>9 DEF OnlyRef
  <2>2. CASE l = Append(nodes[t], n)
    <3>1. /\ l[Len(l)] = n /\ Len(l) = Len(nodes[t]) + 1
          /\ \A k \in DOMAIN l : k # Len(l) =>
               k \in DOMAIN nodes[t] /\ l[k] = nodes[t][k]
      BY <2>2, <1>1, <1>7
    <3> QED BY <3>1, <1>1, <1>2
  <2> QED BY <2>1, <2>2, <1>4
\* the tail of a third trace is not in the lists of these two
<1>14. \A v \in Trace \ {t, u} : nodes[v] # <<>> =>
         \A k \in DOMAIN l : l[k] # nodes[v][Len(nodes[v])]
  <2> SUFFICES ASSUME NEW v \in Trace \ {t, u}, nodes[v] # <<>>, NEW k \in DOMAIN l
               PROVE  l[k] # nodes[v][Len(nodes[v])]
    OBVIOUS
  <2>1. nodes[v] \in Seq(NodeId) /\ Len(nodes[v]) \in DOMAIN nodes[v]
    BY DEF Sharing, TypeOK
  <2>2. OnlyRef(v, Len(nodes[v])) BY DEF Sharing, TailPrivate, Live
  <2>3. l[k] = n \/ (k \in DOMAIN nodes[t] /\ l[k] = nodes[t][k])
    BY <1>1, <1>4, <1>7
  <2> QED BY <2>1, <2>2, <2>3, <1>1 DEF OnlyRef
<1>15. TailPrivate'
  <2> SUFFICES ASSUME NEW v \in Trace, nodes'[v] # <<>>,
                      NEW w \in Trace, NEW j \in DOMAIN nodes'[w],
                      nodes'[w][j] = nodes'[v][Len(nodes'[v])]
               PROVE  w = v /\ j = Len(nodes'[v])
    BY DEF TailPrivate, OnlyRef, Live
  <2>1. CASE v = t
    BY <2>1, <1>3, <1>9, <1>10, <1>11, <1>13
  <2>2. CASE v = u
    BY <2>2, <1>2, <1>3, <1>9, <1>10, <1>11, <1>13
  <2>3. CASE v \notin {t, u}
    <3>1. nodes[v] \in Seq(NodeId) /\ Len(nodes[v]) \in DOMAIN nodes[v]
      BY <2>3, <1>11 DEF Sharing, TypeOK
    <3>2. CASE w \in {t, u}
      BY <2>3, <3>1, <3>2, <1>2, <1>9, <1>10, <1>11, <1>14
    <3>3. CASE w \notin {t, u}
      BY <2>3, <3>3, <1>11 DEF Sharing, TailPrivate, OnlyRef, Live
    <3> QED BY <3>2, <3>3
  <2> QED BY <2>1, <2>2, <2>3
<1> QED BY <1>12, <1>15 DEF Sharing

\* The destructor and swap: every list of the new state is a list of the old.
LEMMA DestroyKeepsSharing ==
  ASSUME Sharing, NEW t \in Trace, Destroy(t)
  PROVE  Sharing'
<1>1. nodes' = [nodes EXCEPT ![t] = <<>>] BY DEF Destroy, Store
<1>2. TypeOK'
  <2>1. [nodes EXCEPT ![t] = <<>>] \in [Trace -> Seq(NodeId)]
    BY DEF Sharing, TypeOK
  <2> QED BY <2>1, StoreTypes, Zenon DEF Destroy
<1>3. /\ nodes'[t] = <<>>
      /\ \A u \in Trace \ {t} : nodes'[u] = nodes[u]
  BY <1>1 DEF Sharing, TypeOK
<1>4. TailPrivate'
  BY <1>3 DEF Sharing, TailPrivate, OnlyRef, Live
<1> QED BY <1>2, <1>4 DEF Sharing

\* swap exchanges two whole lists, so each node keeps its one owner.
LEMMA SwapKeepsSharing ==
  ASSUME Sharing, NEW t \in Trace, NEW u \in Trace, Swap(t, u)
  PROVE  Sharing'
<1> DEFINE other(v) == IF v = t THEN u ELSE IF v = u THEN t ELSE v
<1>1. TypeOK'
  <2>1. [nodes EXCEPT ![t] = nodes[u], ![u] = nodes[t]]
          \in [Trace -> Seq(NodeId)]
    BY DEF Sharing, TypeOK
  <2> QED BY <2>1, StoreTypes, Zenon DEF Swap
<1>2. \A v \in Trace : other(v) \in Trace /\ nodes'[v] = nodes[other(v)]
  BY DEF Swap, Store, Sharing, TypeOK
<1>3. \A v, w \in Trace : other(v) = other(w) => v = w
  OBVIOUS
<1> HIDE DEF other
<1>4. TailPrivate'
  <2> SUFFICES ASSUME NEW v \in Trace, nodes'[v] # <<>>,
                      NEW w \in Trace, NEW j \in DOMAIN nodes'[w],
                      nodes'[w][j] = nodes'[v][Len(nodes'[v])]
               PROVE  w = v /\ j = Len(nodes'[v])
    BY DEF TailPrivate, OnlyRef, Live
  <2>1. OnlyRef(other(v), Len(nodes[other(v)]))
    BY <1>2 DEF Sharing, TailPrivate, Live
  <2>2. other(w) = other(v) /\ j = Len(nodes[other(v)])
    BY <2>1, <1>2 DEF OnlyRef
  <2> QED BY <2>2, <1>2, <1>3
<1> QED BY <1>1, <1>4 DEF Sharing

\* Every step keeps the tails private.
LEMMA SharingInductive == Sharing /\ [Next]_vars => Sharing'
<1> SUFFICES ASSUME Sharing, [Next]_vars PROVE Sharing' OBVIOUS
<1>1. CASE UNCHANGED vars
  BY <1>1 DEF vars, Sharing, TypeOK, TailPrivate, OnlyRef, Live
<1>2. ASSUME NEW t \in Trace, Clear(t) PROVE Sharing'
  BY <1>2, FreshList DEF Clear
<1>3. ASSUME NEW t \in Trace, Destroy(t) PROVE Sharing'
  BY <1>3, DestroyKeepsSharing
<1>4. ASSUME NEW t \in Trace, ReverseTrace(t) PROVE Sharing'
  BY <1>4, FreshList DEF ReverseTrace
<1>5. ASSUME NEW t \in Trace, NEW u \in Trace, Fork(t, u) PROVE Sharing'
  BY <1>5, ForkKeepsSharing
<1>6. ASSUME NEW t \in Trace, NEW u \in Trace, Swap(t, u) PROVE Sharing'
  BY <1>6, SwapKeepsSharing
<1>7. ASSUME NEW t \in Trace, NEW x \in Elem, PushBack(t, x) PROVE Sharing'
  BY <1>7, SameLists DEF PushBack
<1>8. ASSUME NEW t \in Trace, NEW x \in Elem, WriteBack(t, x) PROVE Sharing'
  BY <1>8, SameLists DEF WriteBack
<1>9. ASSUME NEW t \in Trace, NEW x \in Elem, NEW idx \in 0 .. MaxSize - 1,
             Write(t, idx, x)
      PROVE  Sharing'
  BY <1>9, SameLists DEF Write
<1> QED
  BY <1>1, <1>2, <1>3, <1>4, <1>5, <1>6, <1>7, <1>8, <1>9 DEF Next

\* The lists of nodes are well formed and tails private in every reachable state.
LEMMA SharingAlways == Spec => []Sharing
<1>1. Init => Sharing
  BY DEF Init, Sharing, TypeOK, TailPrivate, Live
<1> QED BY <1>1, SharingInductive, PTL DEF Spec

\* push_back, which does not look at refCount, writes only to a node that
\* belongs to one trace: the copy constructor's split of the tail suffices.
THEOREM TailsArePrivate == Spec => []TailPrivate
<1>1. Sharing => TailPrivate BY DEF Sharing
<1> QED BY <1>1, SharingAlways, PTL

\* A node that some list still holds keeps what Store is given for it.
LEMMA HeldKeeps ==
  ASSUME NEW ns, NEW d, Store(ns, d), NEW n \in NodeId,
         NEW v \in Trace, n \in Range(ns[v]), d[n] = data[n]
  PROVE  data'[n] = data[n]
BY DEF Store

\* A node that two traces share is neither the tail of a trace nor unused.
LEMMA SharedIsNotTail ==
  ASSUME Sharing, NEW n \in NodeId, Shared(n)
  PROVE  /\ n \notin Unused
         /\ \A t \in Trace : \A k \in DOMAIN nodes[t] :
              OnlyRef(t, k) => nodes[t][k] # n
         /\ \A t \in Trace : Live(t) => Back(t) # n
<1>1. PICK v \in Trace, w \in Trace :
        v # w /\ n \in Range(nodes[v]) /\ n \in Range(nodes[w])
  BY DEF Shared
<1>2. PICK i \in DOMAIN nodes[v] : nodes[v][i] = n BY <1>1 DEF Range
<1>3. PICK j \in DOMAIN nodes[w] : nodes[w][j] = n BY <1>1 DEF Range
<1>4. n \notin Unused BY <1>1 DEF Unused
<1>5. \A t \in Trace : \A k : OnlyRef(t, k) => nodes[t][k] # n
  BY <1>1, <1>2, <1>3 DEF OnlyRef
<1> QED BY <1>4, <1>5 DEF Back, Sharing, TailPrivate

\* back() of a trace that has pushed since its last fork is in the tail.
LEMMA BackInTail ==
  ASSUME Sharing, NEW t \in Trace, Live(t), BackIsOwn(t)
  PROVE  /\ BackPosition(t) = <<Len(nodes[t]), Len(Segment(t, Len(nodes[t])))>>
         /\ BackPosition(t)[1] = Len(nodes[t])
<1> DEFINE len == Len(nodes[t])
<1> DEFINE full == {m \in 1 .. len : Segment(t, m) # <<>>}
<1>1. len \in Nat /\ len \in 1 .. len
  BY DEF Sharing, TypeOK, Live
<1>2. len \in full BY <1>1 DEF BackIsOwn, Back, Segment
<1>3. Max(full) = len
  <2>1. \A y \in full : len >= y BY <1>1
  <2>2. \A x \in full : (\A y \in full : x >= y) => x = len
    BY <1>1, <1>2
  <2> HIDE DEF full
  <2> QED BY <1>2, <2>1, <2>2 DEF Max
<1>4. BackPosition(t) = SkipBackwardOverEmptyNodes(t, (len + 1) - 1)
  BY DEF BackPosition, Decrement, End
<1>5. (len + 1) - 1 = len BY <1>1
<1>6. SkipBackwardOverEmptyNodes(t, len) = <<Max(full), Len(Segment(t, Max(full)))>>
  BY <1>2 DEF SkipBackwardOverEmptyNodes
<1> QED BY <1>3, <1>4, <1>5, <1>6

\* No step changes a node that two traces share.
LEMMA FrozenStep ==
  ASSUME Sharing, Next, NEW n \in NodeId, Shared(n)
  PROVE  data'[n] = data[n]
<1>1. PICK v \in Trace, w \in Trace :
        v # w /\ n \in Range(nodes[v]) /\ n \in Range(nodes[w])
  BY DEF Shared
<1>2. nodes \in [Trace -> Seq(NodeId)] /\ DOMAIN data = NodeId
  BY DEF Sharing, TypeOK
<1>new. Unused # {} => NewNode({}) # n
  <2>1. n \notin Unused BY SharedIsNotTail
  <2> QED BY <2>1 DEF NewNode
\* a step that changes at most one list leaves another holder of the node
<1>one. ASSUME NEW t \in Trace, NEW list, NEW d,
               Store([nodes EXCEPT ![t] = list], d), d[n] = data[n]
        PROVE  data'[n] = data[n]
  <2>1. PICK h \in {v, w} : h # t BY <1>1
  <2>2. n \in Range([nodes EXCEPT ![t] = list][h]) BY <2>1, <1>1, <1>2
  <2> QED BY <1>one, <2>1, <2>2, HeldKeeps, Zenon
\* and so does a step that changes none
<1>none. ASSUME NEW d, Store(nodes, d), d[n] = data[n]
         PROVE  data'[n] = data[n]
  BY <1>none, <1>1, HeldKeeps
<1>3. ASSUME NEW t \in Trace, Clear(t) PROVE data'[n] = data[n]
  BY <1>3, <1>one DEF Clear
<1>4. ASSUME NEW t \in Trace, Destroy(t) PROVE data'[n] = data[n]
  BY ZenonT(60), <1>4, <1>one DEF Destroy
<1>5. ASSUME NEW t \in Trace, ReverseTrace(t) PROVE data'[n] = data[n]
  <2> DEFINE d == [data EXCEPT ![NewNode({})] = ReversedElements(t)]
  <2>1. d[n] = data[n] BY <1>5, <1>new, <1>2 DEF ReverseTrace
  <2>2. Store([nodes EXCEPT ![t] = <<NewNode({})>>], d) BY <1>5 DEF ReverseTrace
  <2> HIDE DEF d
  <2> QED BY <2>1, <2>2, <1>one
<1>6. ASSUME NEW t \in Trace, NEW u \in Trace, Fork(t, u)
      PROVE  data'[n] = data[n]
  <2>1. PICK h \in {v, w} : h # t BY <1>1
  <2>2. h # u
    <3>1. nodes[u] = <<>> BY <1>6 DEF Fork, Live
    <3>2. n \notin Range(nodes[u]) BY <3>1 DEF Range
    <3> QED BY <3>2, <1>1
  <2> DEFINE ns == [nodes EXCEPT ![t] = SplitTail(t),
                                 ![u] = ForkOf(SplitTail(t), NewNode({NewNode({})}))]
  <2>3. n \in Range(ns[h]) BY <2>1, <2>2, <1>1, <1>2
  <2>4. Store(ns, data) BY <1>6 DEF Fork
  <2> HIDE DEF ns
  <2> QED BY <2>3, <2>4, HeldKeeps
<1>7. ASSUME NEW t \in Trace, NEW u \in Trace, Swap(t, u)
      PROVE  data'[n] = data[n]
  <2> DEFINE ns == [nodes EXCEPT ![t] = nodes[u], ![u] = nodes[t]]
  <2>1. PICK h \in Trace : n \in Range(ns[h])
    <3>1. CASE v = t BY <3>1, <1>1, <1>2
    <3>2. CASE v = u BY <3>2, <1>1, <1>2
    <3>3. CASE v # t /\ v # u BY <3>3, <1>1, <1>2
    <3> QED BY <3>1, <3>2, <3>3, Zenon
  <2>2. Store(ns, data) BY <1>7 DEF Swap
  <2> HIDE DEF ns
  <2> QED BY <2>1, <2>2, HeldKeeps
<1>8. ASSUME NEW t \in Trace, NEW x \in Elem, PushBack(t, x)
      PROVE  data'[n] = data[n]
  <2> DEFINE d == [data EXCEPT ![Back(t)] = Append(@, x)]
  <2>1. Back(t) # n BY <1>8, SharedIsNotTail DEF PushBack
  <2>2. d[n] = data[n] BY <2>1, <1>2
  <2>3. Store(nodes, d) BY <1>8 DEF PushBack
  <2> HIDE DEF d
  <2> QED BY <2>2, <2>3, <1>none
<1>9. ASSUME NEW t \in Trace, NEW x \in Elem, WriteBack(t, x)
      PROVE  data'[n] = data[n]
  <2> DEFINE p == BackPosition(t)
  <2> DEFINE d == [data EXCEPT ![nodes[t][p[1]]][p[2]] = x]
  <2>1. nodes[t][p[1]] = Back(t) BY <1>9, BackInTail DEF WriteBack, Back
  <2>2. Back(t) # n BY <1>9, SharedIsNotTail DEF WriteBack
  <2>3. d[n] = data[n] BY <2>1, <2>2, <1>2
  <2>4. Store(nodes, d) BY <1>9 DEF WriteBack
  <2> HIDE DEF d
  <2> QED BY <2>3, <2>4, <1>none
<1>10. ASSUME NEW t \in Trace, NEW x \in Elem, NEW idx \in 0 .. MaxSize - 1,
              Write(t, idx, x)
       PROVE  data'[n] = data[n]
  <2> DEFINE p == Locate(t, idx)
  <2> DEFINE d == [data EXCEPT ![nodes[t][p[1]]][p[2]] = x]
  <2>1. OnlyRef(t, p[1]) BY <1>10 DEF Write, Mutable
  <2>2. Store(nodes, d) BY <1>10 DEF Write
  <2> HIDE DEF p
  <2>3. nodes[t][p[1]] # n BY <2>1, <1>1 DEF OnlyRef, Range
  <2>4. d[n] = data[n] BY <2>3, <1>2
  <2> HIDE DEF d
  <2> QED BY <2>2, <2>4, <1>none
<1> QED BY <1>3, <1>4, <1>5, <1>6, <1>7, <1>8, <1>9, <1>10 DEF Next

\* No operation on one trace changes a node that another holds too: neither a
\* push, a reversal, the deletion of a trace nor a write through
\* getMutableElementPtr or back().
THEOREM SharedNodesFrozen == Spec => SharedFrozen
<1>1. Sharing /\ [Next]_vars =>
        [\A n \in NodeId : Shared(n) => data'[n] = data[n]]_vars
  BY FrozenStep
<1> QED BY <1>1, SharingAlways, PTL DEF Spec, SharedFrozen

-----------------------------------------------------------------------------
(* Lists of segments, and what FlattenSeq makes of them.                     *)

\* A non-empty set of natural numbers has a least element.
LEMMA LeastNatural ==
  ASSUME NEW T \in SUBSET Nat, T # {}
  PROVE  \E m \in T : \A n \in T : m <= n
<1> DEFINE R == {ss \in Nat \X Nat : ss[1] < ss[2]}
<1>1. IsWellFoundedOn(R, Nat)
  BY NatLessThanWellFounded, Zenon DEF OpToRel
<1>2. PICK x \in T : \A y \in T : ~(<<y, x>> \in R)
  <2> HIDE DEF R
  <2> QED BY <1>1, WFMin, Zenon
<1>3. ASSUME NEW y \in T PROVE x <= y
  <2>1. <<y, x>> \in Nat \X Nat OBVIOUS
  <2>2. <<y, x>>[1] = y /\ <<y, x>>[2] = x OBVIOUS
  <2>3. ~(y < x) BY Zenon, <1>2, <2>1, <2>2
  <2> QED BY <2>3
<1> QED BY Zenon, <1>3

\* f[i] is what the first i segments of ss hold.
Sums(f, ss) ==
  /\ f \in [1 .. Len(ss) -> Seq(Elem)] /\ f[1] = ss[1]
  /\ \A i \in 2 .. Len(ss) : f[i] = f[i - 1] \o ss[i]

\* There are such partial sums.
LEMMA SumsExist ==
  ASSUME NEW ss \in Seq(Seq(Elem)), ss # <<>>
  PROVE  \E f : Sums(f, ss)
<1> DEFINE Upto(n, f) == /\ f \in [1 .. n -> Seq(Elem)] /\ f[1] = ss[1]
                         /\ \A i \in 2 .. n : f[i] = f[i - 1] \o ss[i]
<1> DEFINE bad == {n \in 1 .. Len(ss) : ~\E f : Upto(n, f)}
<1>0. Len(ss) \in Nat \ {0} /\ \A i \in 1 .. Len(ss) : ss[i] \in Seq(Elem)
  OBVIOUS
<1>1. bad = {}
  <2> SUFFICES ASSUME bad # {} PROVE FALSE
    BY Zenon
  <2>1. bad \subseteq Nat
    <3> HIDE DEF Upto
    <3> QED BY <1>0
  <2>2. PICK n \in bad : \A m \in bad : n <= m
    <3> HIDE DEF bad
    <3> QED BY <2>1, LeastNatural, Zenon
  <2>3. CASE n = 1
    <3>1. Upto(1, [i \in 1 .. 1 |-> ss[1]])
      BY <1>0
    <3> HIDE DEF Upto
    <3> QED BY <2>2, <2>3, <3>1
  <2>4. CASE n # 1
    <3>1. n - 1 \in 1 .. Len(ss) /\ n \in 1 .. Len(ss) /\ n - 1 \notin bad
      <4> HIDE DEF Upto
      <4>1. n \in 1 .. Len(ss) /\ n - 1 \in 1 .. Len(ss)
        BY <2>2, <2>4, <1>0
      <4>2. n - 1 \in bad => n <= n - 1
        <5> HIDE DEF bad
        <5> QED BY <2>2
      <4>3. ~(n <= n - 1)
        BY <4>1
      <4> QED BY <4>1, <4>2, <4>3, Zenon
    <3>2. PICK f : Upto(n - 1, f)
      <4> HIDE DEF Upto
      <4> QED BY <3>1
    <3>3. f[n - 1] \o ss[n] \in Seq(Elem)
      BY SMTT(30), <3>1, <3>2, <1>0
    <3> DEFINE last == f[n - 1] \o ss[n]
    <3> DEFINE g == [i \in 1 .. n |-> IF i = n THEN last ELSE f[i]]
    <3>4. g \in [1 .. n -> Seq(Elem)]
      <4> HIDE DEF last
      <4> QED BY <3>1, <3>2, <3>3 DEF last
    <3>5. g[1] = ss[1] /\ \A i \in 2 .. n : g[i] = g[i - 1] \o ss[i]
      <4>3. f[1] = ss[1] /\ \A i \in 2 .. n - 1 : f[i] = f[i - 1] \o ss[i]
        BY <3>2, Zenon
      <4> HIDE DEF bad, Upto
      <4>0. n \in Nat /\ n >= 2
        BY <3>1, <2>4, <1>0
      <4>1. \A i \in 1 .. n - 1 : g[i] = f[i]
        BY <4>0
      <4>2. g[n] = last
        <5> HIDE DEF last
        <5> QED BY <4>0
      <4> HIDE DEF g
      <4>4. g[1] = ss[1]
        BY <4>0, <4>1, <4>3
      <4>5. ASSUME NEW i \in 2 .. n PROVE g[i] = g[i - 1] \o ss[i]
        <5>1. CASE i = n
          <6>1. g[n - 1] = f[n - 1]
            BY <4>0, <4>1
          <6> QED BY <6>1, <5>1, <4>2, Zenon
        <5>2. CASE i # n
          <6>1. i \in 2 .. n - 1 /\ i \in 1 .. n - 1 /\ i - 1 \in 1 .. n - 1
            BY <5>2, <4>0
          <6>2. f[i] = f[i - 1] \o ss[i] /\ g[i] = f[i] /\ g[i - 1] = f[i - 1]
            BY <6>1, <4>1, <4>3, Zenon
          <6> QED BY <6>2, Zenon
        <5> QED BY <5>1, <5>2, Zenon
      <4> QED BY <4>4, <4>5, Zenon
    <3>6. Upto(n, g)
      BY <3>4, <3>5, Zenon
    <3> HIDE DEF Upto
    <3> QED BY <2>2, <3>6
  <2> QED BY <2>3, <2>4
<1>2. \E f : Upto(Len(ss), f)
  <2> HIDE DEF Upto
  <2>1. Len(ss) \in 1 .. Len(ss)
    BY <1>0
  <2> QED BY <1>1, <2>1, Zenon
<1> QED BY <1>2, Zenon DEF Sums

\* FlattenSeq is the last of them.
LEMMA FlattenIs ==
  ASSUME NEW ss \in Seq(Seq(Elem)), ss # <<>>, NEW f, Sums(f, ss)
  PROVE  FlattenSeq(ss) = f[Len(ss)]
<1> DEFINE Def(h) == [i \in 1 .. Len(ss) |-> IF i = 1 THEN ss[i] ELSE h[i - 1] \o ss[i]]
<1> DEFINE g == CHOOSE h : h = Def(h)
<1>0. Len(ss) \in Nat \ {0}
  OBVIOUS
<1>1. FlattenSeq(ss) = g[Len(ss)]
  BY <1>0 DEF FlattenSeq
<1>2. f = Def(f)
  <2>1. f \in [1 .. Len(ss) -> Seq(Elem)]
    BY DEF Sums
  <2>2. ASSUME NEW i \in 1 .. Len(ss) PROVE f[i] = IF i = 1 THEN ss[i] ELSE f[i - 1] \o ss[i]
    <3>1. i = 1 \/ i \in 2 .. Len(ss)
      BY <1>0
    <3> QED BY <3>1, Zenon DEF Sums
  <2> QED BY <2>1, <2>2, Zenon
<1>3. g = Def(g)
  <2> HIDE DEF Def
  <2> QED BY <1>2
<1>4. /\ g[1] = ss[1] /\ \A i \in 2 .. Len(ss) : g[i] = g[i - 1] \o ss[i]
  <2>1. \A i \in 1 .. Len(ss) : g[i] = IF i = 1 THEN ss[i] ELSE g[i - 1] \o ss[i]
    <3> HIDE DEF g
    <3> QED BY <1>3, Zenon
  <2> HIDE DEF g, Def
  <2>2. 1 \in 1 .. Len(ss) /\ \A i \in 2 .. Len(ss) : i \in 1 .. Len(ss) /\ i # 1
    BY <1>0
  <2> QED BY <2>1, <2>2, Zenon
<1> HIDE DEF g, Def
<1> DEFINE bad == {i \in 1 .. Len(ss) : g[i] # f[i]}
<1>5. bad = {}
  <2> SUFFICES ASSUME bad # {} PROVE FALSE
    OBVIOUS
  <2>1. bad \subseteq Nat
    BY <1>0
  <2>2. PICK n \in bad : \A m \in bad : n <= m
    <3> HIDE DEF bad
    <3> QED BY <2>1, LeastNatural, Zenon
  <2>3. n = 1 \/ (n \in 2 .. Len(ss) /\ n - 1 \in 1 .. Len(ss) /\ n - 1 \notin bad)
    BY <2>2, <1>0
  <2>4. CASE n = 1
    BY <2>2, <2>4, <1>4 DEF Sums
  <2>5. CASE n \in 2 .. Len(ss) /\ n - 1 \in 1 .. Len(ss) /\ n - 1 \notin bad
    <3>1. g[n - 1] = f[n - 1]
      BY <2>5
    <3>2. g[n] = g[n - 1] \o ss[n] /\ f[n] = f[n - 1] \o ss[n]
      BY <2>5, <1>4, Zenon DEF Sums
    <3> QED BY <2>2, <3>1, <3>2, Zenon
  <2> QED BY <2>3, <2>4, <2>5
<1> QED BY SMTT(30), <1>0, <1>1, <1>5

\* What is used of concatenation.
LEMMA ConcatAssoc ==
  \A a, b, c \in Seq(Elem) : (a \o b) \o c = a \o (b \o c)
BY ConcatAssociative

\* The elements of a concatenation.
LEMMA ConcatLists ==
  \A a, b \in Seq(Elem) :
    /\ a \o b \in Seq(Elem) /\ Len(a \o b) = Len(a) + Len(b)
    /\ \A i \in 1 .. Len(a) + Len(b) :
         (a \o b)[i] = IF i <= Len(a) THEN a[i] ELSE b[i - Len(a)]
BY ConcatProperties

\* Partial sums and what FlattenSeq makes are sequences of elements.
LEMMA FlattenSums ==
  ASSUME NEW ss \in Seq(Seq(Elem)), ss # <<>>
  PROVE  \E f : /\ Sums(f, ss) /\ FlattenSeq(ss) = f[Len(ss)]
                /\ FlattenSeq(ss) \in Seq(Elem)
<1>1. PICK f : Sums(f, ss)
  BY SumsExist, Zenon
<1>2. FlattenSeq(ss) = f[Len(ss)]
  BY <1>1, FlattenIs, Zenon
<1>3. Len(ss) \in 1 .. Len(ss)
  OBVIOUS
<1>4. f[Len(ss)] \in Seq(Elem)
  BY <1>1, <1>3, Zenon DEF Sums
<1> QED
  BY <1>1, <1>2, <1>4, Zenon

\* One segment.
LEMMA FlattenOne ==
  ASSUME NEW s \in Seq(Elem)
  PROVE  FlattenSeq(<<s>>) = s
<1>1. <<s>> \in Seq(Seq(Elem)) /\ <<s>> # <<>> /\ Len(<<s>>) = 1 /\ <<s>>[1] = s
  OBVIOUS
<1>2. PICK f : Sums(f, <<s>>) /\ FlattenSeq(<<s>>) = f[Len(<<s>>)]
  BY <1>1, FlattenSums, Zenon
<1> QED
  BY <1>1, <1>2, Zenon DEF Sums

\* What is used of a prefix.
LEMMA PrefixIs ==
  ASSUME NEW T, NEW s \in Seq(T), NEW k \in 1 .. Len(s)
  PROVE  /\ SubSeq(s, 1, k) \in Seq(T) /\ Len(SubSeq(s, 1, k)) = k /\ SubSeq(s, 1, k) # <<>>
         /\ \A i \in 1 .. k : SubSeq(s, 1, k)[i] = s[i]
OBVIOUS

\* The first k segments.
LEMMA FlattenPrefix ==
  ASSUME NEW ss \in Seq(Seq(Elem)), NEW f, Sums(f, ss), NEW k \in 1 .. Len(ss)
  PROVE  FlattenSeq(SubSeq(ss, 1, k)) = f[k]
<1> DEFINE tt == SubSeq(ss, 1, k)
<1> DEFINE g == [i \in 1 .. k |-> f[i]]
<1>0. k \in Nat /\ Len(ss) \in Nat /\ k <= Len(ss) /\ 1 <= k
  OBVIOUS
<1>1. /\ tt \in Seq(Seq(Elem)) /\ Len(tt) = k /\ tt # <<>>
      /\ \A i \in 1 .. k : tt[i] = ss[i]
  BY PrefixIs, Zenon
<1>2. /\ f \in [1 .. Len(ss) -> Seq(Elem)] /\ f[1] = ss[1]
      /\ \A i \in 2 .. Len(ss) : f[i] = f[i - 1] \o ss[i]
  BY Zenon DEF Sums
<1>3. g \in [1 .. k -> Seq(Elem)] /\ \A i \in 1 .. k : g[i] = f[i]
  <2>1. f \in [1 .. Len(ss) -> Seq(Elem)]
    BY <1>2
  <2>2. \A i \in 1 .. k : i \in 1 .. Len(ss)
    BY <1>0
  <2> QED BY <2>1, <2>2, Zenon
<1> HIDE DEF g, tt
<1>4. ASSUME NEW i \in 2 .. k PROVE g[i] = g[i - 1] \o tt[i]
  <2>1. i \in 2 .. Len(ss) /\ i \in 1 .. k /\ i - 1 \in 1 .. k
    BY <1>0
  <2> QED BY <2>1, <1>1, <1>2, <1>3, Zenon
<1>5. g[1] = tt[1]
  <2>1. 1 \in 1 .. k
    BY <1>0
  <2> QED BY <2>1, <1>1, <1>2, <1>3, Zenon
<1>6. Sums(g, tt)
  BY <1>1, <1>3, <1>4, <1>5, Zenon DEF Sums
<1>7. FlattenSeq(tt) = g[k]
  BY <1>1, <1>6, FlattenIs, Zenon
<1>8. k \in 1 .. k
  BY <1>0
<1> QED BY <1>3, <1>7, <1>8, Zenon DEF tt

\* Two lists that differ in segment k only have the same elements before and after it;
\* none after it when it is the last.
LEMMA OneSegment ==
  ASSUME NEW ss \in Seq(Seq(Elem)), NEW tt \in Seq(Seq(Elem)), Len(tt) = Len(ss),
         NEW k \in 1 .. Len(ss), \A j \in 1 .. Len(ss) : j # k => tt[j] = ss[j]
  PROVE  \E c \in Seq(Elem), e \in Seq(Elem) :
           /\ FlattenSeq(ss) = (c \o ss[k]) \o e /\ FlattenSeq(tt) = (c \o tt[k]) \o e
           /\ k = Len(ss) => e = <<>>
           /\ FlattenSeq(SubSeq(ss, 1, k)) = c \o ss[k]
<1> DEFINE n == Len(ss)
<1>0. n \in Nat \ {0} /\ ss # <<>> /\ tt # <<>>
  OBVIOUS
<1>1. PICK f : Sums(f, ss) /\ FlattenSeq(ss) = f[n]
  BY <1>0, FlattenSums, Zenon
<1>2. PICK g : Sums(g, tt) /\ FlattenSeq(tt) = g[n]
  BY <1>0, FlattenSums, Zenon
<1>3. \A j \in 1 .. n : ss[j] \in Seq(Elem) /\ tt[j] \in Seq(Elem)
  OBVIOUS
<1>4. /\ f[1] = ss[1] /\ \A i \in 2 .. n : f[i] = f[i - 1] \o ss[i]
      /\ \A j \in 1 .. n : f[j] \in Seq(Elem)
  BY <1>1, Zenon DEF Sums
<1>5. /\ g[1] = tt[1] /\ \A i \in 2 .. n : g[i] = g[i - 1] \o tt[i]
      /\ \A j \in 1 .. n : g[j] \in Seq(Elem)
  BY <1>2, Zenon DEF Sums
<1> DEFINE c == IF k = 1 THEN <<>> ELSE f[k - 1]
<1> HIDE DEF n
<1>6. \A j \in 1 .. n : j < k => g[j] = f[j]
  <2> DEFINE bad == {j \in 1 .. n : j < k /\ g[j] # f[j]}
  <2> SUFFICES ASSUME bad # {} PROVE FALSE
    OBVIOUS
  <2>1. bad \subseteq Nat
    BY <1>0
  <2>2. PICK j \in bad : \A i \in bad : j <= i
    <3> HIDE DEF bad
    <3> QED BY <2>1, LeastNatural, Zenon
  <2>3. j \in 1 .. n /\ j < k /\ g[j] # f[j] /\ tt[j] = ss[j]
    BY SMTT(30), <2>2, <1>0 DEF n
  <2>4. CASE j = 1
    BY <2>3, <2>4, <1>4, <1>5
  <2>5. CASE j # 1
    <3>1. j \in 2 .. n /\ j - 1 \in 1 .. n /\ j - 1 < k /\ ~(j <= j - 1)
      BY <2>3, <2>5, <1>0 DEF n
    <3>2. g[j - 1] = f[j - 1]
      BY <3>1, <2>2
    <3> QED BY <3>1, <3>2, <2>3, <1>4, <1>5, ZenonT(60)
  <2> QED BY <2>4, <2>5
<1>7. c \in Seq(Elem) /\ f[k] = c \o ss[k] /\ g[k] = c \o tt[k]
  <2>1. CASE k = 1
    <3>1. ss[1] \in Seq(Elem) /\ tt[1] \in Seq(Elem)
      BY <1>0, <1>3 DEF n
    <3>2. <<>> \o ss[1] = ss[1] /\ <<>> \o tt[1] = tt[1] /\ <<>> \in Seq(Elem)
      BY <3>1, ConcatEmptySeq, EmptySeq, Zenon
    <3> QED BY <2>1, <3>2, <1>4, <1>5, Zenon
  <2>2. CASE k # 1
    <3>1. k \in 2 .. n /\ k - 1 \in 1 .. n /\ k - 1 < k
      BY <2>2, <1>0 DEF n
    <3>2. f[k] = f[k - 1] \o ss[k] /\ g[k] = g[k - 1] \o tt[k] /\ g[k - 1] = f[k - 1]
      BY <3>1, <1>4, <1>5, <1>6, Zenon
    <3> QED BY <2>2, <3>1, <3>2, <1>4, Zenon
  <2> QED BY <2>1, <2>2, Zenon
<1>p. FlattenSeq(SubSeq(ss, 1, k)) = c \o ss[k]
  <2>1. FlattenSeq(SubSeq(ss, 1, k)) = f[k]
    BY <1>1, FlattenPrefix, Zenon
  <2> QED BY <2>1, <1>7, Zenon
<1> HIDE DEF c
<1> DEFINE Split(j, e) == f[j] = (c \o ss[k]) \o e /\ g[j] = (c \o tt[k]) \o e
<1>8. Split(k, <<>>)
  <2>1. c \o ss[k] \in Seq(Elem) /\ c \o tt[k] \in Seq(Elem)
    <3>1. ss[k] \in Seq(Elem) /\ tt[k] \in Seq(Elem)
      BY <1>3 DEF n
    <3> QED BY <3>1, <1>7, ConcatProperties, Zenon
  <2> QED BY <2>1, <1>7, ConcatEmptySeq, Zenon
<1>9. CASE k = n
  <2>1. Split(n, <<>>) /\ <<>> \in Seq(Elem)
    BY <1>8, <1>9, EmptySeq, Zenon
  <2> QED BY <2>1, <1>1, <1>2, <1>7, <1>p, Zenon DEF n
<1>10. CASE k # n
  <2> DEFINE bad == {j \in 1 .. n : k <= j /\ ~\E e \in Seq(Elem) : Split(j, e)}
  <2>1. bad = {}
    <3> SUFFICES ASSUME bad # {} PROVE FALSE
      BY Zenon
    <3> HIDE DEF Split
    <3>1. bad \subseteq Nat
      BY <1>0
    <3>2. PICK j \in bad : \A i \in bad : j <= i
      <4> HIDE DEF bad
      <4> QED BY <3>1, LeastNatural, Zenon
    <3>3. j \in 1 .. n /\ k <= j /\ ~\E e \in Seq(Elem) : Split(j, e)
      BY <3>2
    <3>4. j # k
      BY <3>3, <1>8, EmptySeq, Zenon
    <3>5. j \in 2 .. n /\ j - 1 \in 1 .. n /\ k <= j - 1 /\ ~(j <= j - 1) /\ j # k
      BY <3>3, <3>4, <1>0 DEF n
    <3>6. j - 1 \notin bad
      <4> HIDE DEF bad
      <4> QED BY <3>2, <3>5, Zenon
    <3>7. PICK e \in Seq(Elem) : Split(j - 1, e)
      BY <3>5, <3>6, Zenon
    <3>8. f[j] = f[j - 1] \o ss[j] /\ g[j] = g[j - 1] \o ss[j] /\ ss[j] \in Seq(Elem)
      <4>1. tt[j] = ss[j]
        BY <3>5 DEF n
      <4> QED BY <4>1, <3>3, <3>5, <1>3, <1>4, <1>5, Zenon
    <3>9. Split(j, e \o ss[j]) /\ e \o ss[j] \in Seq(Elem)
      <4>1. c \o ss[k] \in Seq(Elem) /\ c \o tt[k] \in Seq(Elem)
        <5>1. ss[k] \in Seq(Elem) /\ tt[k] \in Seq(Elem)
          BY <1>3 DEF n
        <5> QED BY <5>1, <1>7, ConcatProperties, Zenon
      <4>2. ((c \o ss[k]) \o e) \o ss[j] = (c \o ss[k]) \o (e \o ss[j])
        BY <4>1, <3>8, ConcatAssoc, Zenon
      <4>3. ((c \o tt[k]) \o e) \o ss[j] = (c \o tt[k]) \o (e \o ss[j])
        BY <4>1, <3>8, ConcatAssoc, Zenon
      <4>4. e \o ss[j] \in Seq(Elem)
        BY <3>8, ConcatProperties, Zenon
      <4> QED BY <4>2, <4>3, <4>4, <3>7, <3>8, Zenon DEF Split
    <3> QED BY <3>3, <3>9, Zenon
  <2>2. \E e \in Seq(Elem) : Split(n, e)
    <3>1. n \in 1 .. n /\ k <= n
      BY <1>0 DEF n
    <3> HIDE DEF Split
    <3> QED BY <3>1, <2>1, Zenon
  <2> QED BY <2>2, <1>1, <1>2, <1>7, <1>p, <1>10, Zenon DEF n
<1> QED BY <1>9, <1>10, Zenon

\* An empty segment at the end adds nothing.
LEMMA FlattenAppendEmpty ==
  ASSUME NEW ss \in Seq(Seq(Elem)), ss # <<>>
  PROVE  FlattenSeq(Append(ss, <<>>)) = FlattenSeq(ss)
<1> DEFINE tt == Append(ss, <<>>)
<1> DEFINE n == Len(ss)
<1>0. n \in Nat \ {0}
  OBVIOUS
<1>1. /\ tt \in Seq(Seq(Elem)) /\ Len(tt) = n + 1 /\ tt # <<>> /\ tt[n + 1] = <<>>
      /\ SubSeq(tt, 1, n) = ss
  OBVIOUS
<1> HIDE DEF tt, n
<1>2. PICK f : Sums(f, tt) /\ FlattenSeq(tt) = f[n + 1]
  BY <1>1, FlattenSums, Zenon
<1>3. n \in 1 .. Len(tt) /\ n + 1 \in 2 .. Len(tt) /\ (n + 1) - 1 = n
  BY <1>0, <1>1
<1>4. FlattenSeq(ss) = f[n]
  BY <1>1, <1>2, <1>3, FlattenPrefix, Zenon
<1>5. f[n + 1] = f[n] \o <<>> /\ f[n] \in Seq(Elem)
  BY <1>1, <1>2, <1>3, Zenon DEF Sums
<1> QED BY <1>2, <1>4, <1>5, ConcatEmptySeq, Zenon DEF tt

\* What is used of Reverse.
LEMMA ReverseLists ==
  /\ \A a \in Seq(Elem) : /\ Reverse(a) \in Seq(Elem) /\ Len(Reverse(a)) = Len(a)
                          /\ Reverse(Reverse(a)) = a
  /\ \A a, b \in Seq(Elem) : Reverse(a \o b) = Reverse(b) \o Reverse(a)
<1>1. ASSUME NEW a \in Seq(Elem)
      PROVE  /\ Reverse(a) \in Seq(Elem) /\ Len(Reverse(a)) = Len(a)
             /\ \A i \in 1 .. Len(a) : Reverse(a)[i] = a[Len(a) - i + 1]
  <2>1. Len(a) \in Nat /\ a \in [1 .. Len(a) -> Elem]
    OBVIOUS
  <2>2. \A i \in 1 .. Len(a) : Len(a) - i + 1 \in 1 .. Len(a)
    BY <2>1
  <2>3. Reverse(a) \in [1 .. Len(a) -> Elem]
    BY <2>1, <2>2 DEF Reverse
  <2> QED BY <2>1, <2>3 DEF Reverse
<1>2. ASSUME NEW a \in Seq(Elem) PROVE Reverse(Reverse(a)) = a
  <2>1. Len(Reverse(Reverse(a))) = Len(a) /\ Reverse(Reverse(a)) \in Seq(Elem)
    BY <1>1
  <2>2. ASSUME NEW i \in 1 .. Len(a) PROVE Reverse(Reverse(a))[i] = a[i]
    <3>1. Len(a) - i + 1 \in 1 .. Len(a) /\ Len(a) - (Len(a) - i + 1) + 1 = i
      OBVIOUS
    <3>2. Reverse(Reverse(a))[i] = Reverse(a)[Len(a) - i + 1]
      BY <1>1
    <3>3. Reverse(a)[Len(a) - i + 1] = a[Len(a) - (Len(a) - i + 1) + 1]
      BY <1>1, <3>1
    <3> QED BY <3>1, <3>2, <3>3, Zenon
  <2> QED BY <2>1, <2>2, SeqEqual, Zenon
<1>3. ASSUME NEW a \in Seq(Elem), NEW b \in Seq(Elem)
      PROVE  Reverse(a \o b) = Reverse(b) \o Reverse(a)
  <2> DEFINE l == Reverse(a \o b)
  <2>1. /\ a \o b \in Seq(Elem) /\ Len(a \o b) = Len(a) + Len(b)
        /\ Len(a) \in Nat /\ Len(b) \in Nat
        /\ \A i \in 1 .. Len(a) + Len(b) :
             (a \o b)[i] = IF i <= Len(a) THEN a[i] ELSE b[i - Len(a)]
    OBVIOUS
  <2>2. /\ l \in Seq(Elem) /\ Len(l) = Len(a) + Len(b)
        /\ \A i \in 1 .. Len(a) + Len(b) : l[i] = (a \o b)[Len(a) + Len(b) - i + 1]
    <3> DEFINE ab == a \o b
    <3>1. ab \in Seq(Elem) /\ Len(ab) = Len(a) + Len(b)
      BY <2>1
    <3> HIDE DEF ab
    <3>2. /\ Reverse(ab) \in Seq(Elem) /\ Len(Reverse(ab)) = Len(ab)
          /\ \A i \in 1 .. Len(ab) : Reverse(ab)[i] = ab[Len(ab) - i + 1]
      BY <3>1, <1>1, Zenon
    <3>3. l = Reverse(ab)
      BY Zenon DEF ab
    <3> HIDE DEF l
    <3>4. /\ l \in Seq(Elem) /\ Len(l) = Len(a) + Len(b)
          /\ \A i \in 1 .. Len(a) + Len(b) : l[i] = ab[Len(a) + Len(b) - i + 1]
      BY <3>1, <3>2, <3>3
    <3> QED BY <3>4, Zenon DEF ab
  <2>3. /\ Reverse(a) \in Seq(Elem) /\ Reverse(b) \in Seq(Elem)
        /\ Len(Reverse(a)) = Len(a) /\ Len(Reverse(b)) = Len(b)
        /\ \A i \in 1 .. Len(a) : Reverse(a)[i] = a[Len(a) - i + 1]
        /\ \A i \in 1 .. Len(b) : Reverse(b)[i] = b[Len(b) - i + 1]
    BY <1>1
  <2> DEFINE ra == Reverse(a)
  <2> DEFINE rb == Reverse(b)
  <2> DEFINE r == rb \o ra
  <2> HIDE DEF l, ra, rb
  <2>4. /\ r \in Seq(Elem) /\ Len(r) = Len(b) + Len(a)
        /\ \A i \in 1 .. Len(b) + Len(a) :
             r[i] = IF i <= Len(b) THEN rb[i] ELSE ra[i - Len(b)]
    <3>1. rb \in Seq(Elem) /\ ra \in Seq(Elem) /\ Len(rb) = Len(b) /\ Len(ra) = Len(a)
      BY <2>3, Zenon DEF ra, rb
    <3>3. /\ r \in Seq(Elem) /\ Len(r) = Len(rb) + Len(ra)
          /\ \A i \in 1 .. Len(rb) + Len(ra) :
               r[i] = IF i <= Len(rb) THEN rb[i] ELSE ra[i - Len(rb)]
      BY <3>1, ConcatLists, Zenon
    <3> HIDE DEF r
    <3> QED BY <3>1, <3>3
  <2> HIDE DEF r
  <2>5. ASSUME NEW i \in 1 .. Len(a) + Len(b) PROVE l[i] = r[i]
    <3>1. CASE i <= Len(b)
      <4>1. i \in 1 .. Len(b) /\ i \in 1 .. Len(b) + Len(a) /\ Len(a) + Len(b) - i + 1 \in 1 .. Len(a) + Len(b)
            /\ ~(Len(a) + Len(b) - i + 1 <= Len(a))
            /\ Len(a) + Len(b) - i + 1 - Len(a) = Len(b) - i + 1
        BY <2>1, <3>1
      <4>2. r[i] = b[Len(b) - i + 1]
        BY <4>1, <3>1, <2>3, <2>4, Zenon DEF rb
      <4>3. l[i] = b[Len(a) + Len(b) - i + 1 - Len(a)]
        BY <4>1, <2>1, <2>2
      <4> QED BY <4>1, <4>2, <4>3, Zenon
    <3>2. CASE ~(i <= Len(b))
      <4>1. /\ i \in 1 .. Len(b) + Len(a) /\ i - Len(b) \in 1 .. Len(a)
            /\ Len(a) + Len(b) - i + 1 \in 1 .. Len(a) + Len(b)
            /\ Len(a) + Len(b) - i + 1 <= Len(a)
            /\ Len(a) - (i - Len(b)) + 1 = Len(a) + Len(b) - i + 1
        BY <2>1, <3>2
      <4>2. r[i] = a[Len(a) - (i - Len(b)) + 1]
        BY <4>1, <3>2, <2>3, <2>4, Zenon DEF ra
      <4>3. l[i] = a[Len(a) + Len(b) - i + 1]
        BY <4>1, <2>1, <2>2
      <4> QED BY <4>1, <4>2, <4>3, Zenon
    <3> QED BY <3>1, <3>2
  <2>6. Len(l) = Len(r) /\ \A i \in 1 .. Len(l) : l[i] = r[i]
    BY <2>1, <2>2, <2>4, <2>5
  <2>7. l = r
    BY <2>2, <2>4, <2>6, SeqEqual, Zenon
  <2> QED BY <2>7, Zenon DEF l, r, ra, rb
<1> QED BY ZenonT(60), <1>1, <1>2, <1>3

\* The segments from the last to the first, each reversed, hold the elements in
\* reverse.
LEMMA FlattenReverse ==
  ASSUME NEW ss \in Seq(Seq(Elem)), ss # <<>>
  PROVE  FlattenSeq([k \in 1 .. Len(ss) |-> Reverse(ss[Len(ss) + 1 - k])])
           = Reverse(FlattenSeq(ss))
<1> DEFINE n == Len(ss)
<1> DEFINE rs == [k \in 1 .. n |-> Reverse(ss[n + 1 - k])]
<1>0. n \in Nat \ {0} /\ \A k \in 1 .. n : n + 1 - k \in 1 .. n /\ ss[k] \in Seq(Elem)
  OBVIOUS
<1>1. \A k \in 1 .. n : Reverse(ss[n + 1 - k]) \in Seq(Elem)
  BY <1>0, ReverseLists, Zenon
<1> DEFINE rev(k) == Reverse(ss[n + 1 - k])
<1>2. rs \in Seq(Seq(Elem)) /\ Len(rs) = n /\ rs # <<>> /\ \A k \in 1 .. n : rs[k] = rev(k)
  <2>1. \A k \in 1 .. n : rev(k) \in Seq(Elem)
    BY <1>1, Zenon
  <2>2. rs = [k \in 1 .. n |-> rev(k)]
    BY Zenon
  <2> HIDE DEF rev, n, rs
  <2>3. rs \in [1 .. n -> Seq(Elem)] /\ \A k \in 1 .. n : rs[k] = rev(k)
    BY <2>1, <2>2
  <2>4. rs \in Seq(Seq(Elem)) /\ Len(rs) = n
    BY <2>3, <1>0
  <2> QED BY <2>3, <2>4, <1>0
<1>3. PICK f : Sums(f, ss) /\ FlattenSeq(ss) = f[n]
  BY FlattenSums, Zenon
<1> HIDE DEF n, rs
<1>4. PICK h : Sums(h, rs) /\ FlattenSeq(rs) = h[n]
  BY <1>2, FlattenSums, Zenon
<1>5. /\ f[1] = ss[1] /\ \A i \in 2 .. n : f[i] = f[i - 1] \o ss[i]
      /\ \A j \in 1 .. n : f[j] \in Seq(Elem)
  BY <1>3, Zenon DEF Sums, n
<1>6. /\ h[1] = rs[1] /\ \A i \in 2 .. n : h[i] = h[i - 1] \o rs[i]
      /\ \A j \in 1 .. n : h[j] \in Seq(Elem)
  BY <1>2, <1>4, Zenon DEF Sums
<1> DEFINE before(j) == IF j = n THEN <<>> ELSE f[n - j]
<1> DEFINE Good(j) == f[n] = before(j) \o Reverse(h[j])
<1>7. Good(1)
  <2>1. h[1] = Reverse(ss[n]) /\ n \in 1 .. n /\ 1 \in 1 .. n
    <3>1. n + 1 - 1 = n /\ 1 \in 1 .. n /\ n \in 1 .. n
      BY <1>0
    <3> QED BY <3>1, <1>2, <1>6, Zenon
  <2>2. Reverse(h[1]) = ss[n] /\ ss[n] \in Seq(Elem)
    BY <2>1, <1>0, ReverseLists, Zenon
  <2>3. CASE n = 1
    BY <2>2, <2>3, <1>5, ConcatEmptySeq, Zenon
  <2>4. CASE n # 1
    <3>1. n \in 2 .. n /\ 1 # n
      BY <2>4, <1>0
    <3> QED BY <3>1, <2>2, <1>5, Zenon
  <2> QED BY <2>3, <2>4, Zenon
<1>8. ASSUME NEW j \in 1 .. n, j # n, Good(j) PROVE Good(j + 1)
  <2>0. /\ j \in Nat /\ n - j \in 1 .. n /\ j + 1 \in 2 .. n /\ j + 1 \in 1 .. n
        /\ (j + 1) - 1 = j /\ n + 1 - (j + 1) = n - j
    BY <1>0, <1>8
  <2>1. h[j + 1] = h[j] \o Reverse(ss[n - j])
    <3>1. h[j + 1] = h[j] \o rs[j + 1]
      BY <2>0, <1>6, Zenon
    <3>2. rs[j + 1] = Reverse(ss[n - j])
      BY <2>0, <1>2, Zenon
    <3> QED BY <3>1, <3>2, Zenon
  <2> DEFINE s == ss[n - j]
  <2>2. s \in Seq(Elem) /\ h[j] \in Seq(Elem) /\ Reverse(s) \in Seq(Elem)
    BY <2>0, <1>0, <1>6, ReverseLists, Zenon
  <2>3. Reverse(h[j + 1]) = s \o Reverse(h[j]) /\ Reverse(h[j]) \in Seq(Elem)
    <3>1. Reverse(h[j] \o Reverse(s)) = Reverse(Reverse(s)) \o Reverse(h[j])
      BY <2>2, ReverseLists, Zenon
    <3>2. Reverse(Reverse(s)) = s /\ Reverse(h[j]) \in Seq(Elem)
      BY <2>2, ReverseLists, Zenon
    <3> QED BY <3>1, <3>2, <2>1, Zenon
  <2>4. f[n] = f[n - j] \o Reverse(h[j])
    BY <1>8, Zenon
  <2>5. CASE j + 1 = n
    <3>1. n - j = 1
      BY <2>5, <2>0, <1>0
    <3>2. f[n - j] = s
      BY <3>1, <1>5, Zenon
    <3>3. <<>> \o (s \o Reverse(h[j])) = s \o Reverse(h[j])
      <4>1. s \o Reverse(h[j]) \in Seq(Elem)
        BY <2>2, <2>3, ConcatLists, Zenon
      <4> QED BY <4>1, ConcatEmptySeq, Zenon
    <3> QED BY <2>3, <2>4, <2>5, <3>2, <3>3, Zenon
  <2>6. CASE j + 1 # n
    <3>1. n - j \in 2 .. n /\ (n - j) - 1 = n - (j + 1) /\ n - (j + 1) \in 1 .. n
      BY <2>6, <2>0, <1>0
    <3>2. f[n - j] = f[n - (j + 1)] \o s /\ f[n - (j + 1)] \in Seq(Elem)
      BY <3>1, <1>5, Zenon
    <3>3. (f[n - (j + 1)] \o s) \o Reverse(h[j]) = f[n - (j + 1)] \o (s \o Reverse(h[j]))
      BY <3>2, <2>2, <2>3, ConcatAssoc, ZenonT(60)
    <3> QED BY <2>3, <2>4, <2>6, <3>2, <3>3, Zenon
  <2> QED BY <2>5, <2>6, Zenon
<1>9. Good(n)
  <2> DEFINE bad == {j \in 1 .. n : ~Good(j)}
  <2> HIDE DEF Good
  <2>0. n \in 1 .. n
    BY <1>0
  <2> SUFFICES ASSUME bad # {} PROVE FALSE
    BY <2>0, Zenon
  <2>1. bad \subseteq Nat
    BY <1>0
  <2>2. PICK j \in bad : \A i \in bad : j <= i
    <3> HIDE DEF bad
    <3> QED BY <2>1, LeastNatural, Zenon
  <2>3. j \in 1 .. n /\ ~Good(j) /\ j # 1
    BY <2>2, <1>7
  <2>4. j - 1 \in 1 .. n /\ j - 1 # n /\ ~(j <= j - 1) /\ (j - 1) + 1 = j
    BY <2>3, <1>0
  <2>5. Good(j - 1)
    BY <2>2, <2>4
  <2> QED BY <2>3, <2>4, <2>5, <1>8, Zenon
<1>10. f[n] = <<>> \o Reverse(h[n]) /\ h[n] \in Seq(Elem) /\ n \in 1 .. n
  BY <1>9, <1>6, <1>0
<1>11. Reverse(h[n]) \in Seq(Elem) /\ Reverse(Reverse(h[n])) = h[n]
  BY <1>10, ReverseLists, Zenon
<1>12. f[n] = Reverse(h[n])
  BY <1>10, <1>11, ConcatEmptySeq, Zenon
<1> QED BY <1>3, <1>4, <1>11, <1>12, Zenon DEF rs, n

-----------------------------------------------------------------------------
(* What a trace holds, for lists of nodes and contents that are given.       *)

Contents(list, d) == [k \in DOMAIN list |-> d[list[k]]]
ViewOf(list, d) == IF list # <<>> THEN FlattenSeq(Contents(list, d)) ELSE None
Views == [t \in Trace |-> ViewOf(nodes[t], data)]

Data == [NodeId -> Seq(Elem)]

\* With Sharing: nodes hold elements, an address not in use is empty (so that "new Node"
\* is), and _size is the number of elements.
Counted ==
  /\ data \in Data /\ \A n \in Unused : data[n] = <<>>
  /\ size \in [Trace -> Nat] /\ \A t \in Trace : Live(t) => size[t] = Len(Views[t])

\* The segments of a list of nodes.
LEMMA ContentsTyped ==
  ASSUME NEW list \in Seq(NodeId), NEW d \in Data
  PROVE  /\ Contents(list, d) \in Seq(Seq(Elem)) /\ Len(Contents(list, d)) = Len(list)
         /\ \A k \in 1 .. Len(list) : Contents(list, d)[k] = d[list[k]]
         /\ list # <<>> => /\ Contents(list, d) # <<>>
                           /\ ViewOf(list, d) = FlattenSeq(Contents(list, d))
                           /\ ViewOf(list, d) \in Seq(Elem)
<1>1. Len(list) \in Nat /\ DOMAIN list = 1 .. Len(list) /\ \A k \in 1 .. Len(list) : list[k] \in NodeId
  OBVIOUS
<1>2. \A k \in 1 .. Len(list) : d[list[k]] \in Seq(Elem)
  BY <1>1 DEF Data
<1> DEFINE c == Contents(list, d)
<1>3. c \in [1 .. Len(list) -> Seq(Elem)] /\ \A k \in 1 .. Len(list) : c[k] = d[list[k]]
  BY <1>1, <1>2 DEF Contents
<1> HIDE DEF c
<1>4. c \in Seq(Seq(Elem)) /\ Len(c) = Len(list)
  BY <1>1, <1>3
<1>5. list # <<>> => c # <<>>
  BY <1>4
<1>6. list # <<>> => FlattenSeq(c) \in Seq(Elem)
  BY <1>4, <1>5, FlattenSums, Zenon
<1> QED BY <1>3, <1>4, <1>5, <1>6, Zenon DEF c, ViewOf

\* A list whose nodes are left alone.
LEMMA ContentsKept ==
  ASSUME NEW list \in Seq(NodeId), NEW d, NEW e,
         \A k \in 1 .. Len(list) : e[list[k]] = d[list[k]]
  PROVE  Contents(list, e) = Contents(list, d) /\ ViewOf(list, e) = ViewOf(list, d)
<1>1. DOMAIN list = 1 .. Len(list)
  OBVIOUS
<1>2. Contents(list, e) = Contents(list, d)
  BY <1>1 DEF Contents
<1> QED BY <1>2, Zenon DEF ViewOf

\* Store deletes nothing that a list still shows.
LEMMA StoreViews ==
  ASSUME NEW ns \in [Trace -> Seq(NodeId)], NEW d \in Data, Store(ns, d)
  PROVE  /\ nodes' = ns /\ data' \in Data /\ \A n \in Unused' : data'[n] = <<>>
         /\ Views' = [t \in Trace |-> ViewOf(ns[t], d)]
<1>1. nodes' = ns
  BY DEF Store
<1>2. /\ data' \in Data
      /\ \A n \in NodeId : (\E t \in Trace : n \in Range(ns[t])) => data'[n] = d[n]
      /\ \A n \in NodeId : ~(\E t \in Trace : n \in Range(ns[t])) => data'[n] = <<>>
  BY DEF Store, Data
<1>3. \A n \in Unused' : data'[n] = <<>>
  BY <1>1, <1>2, Zenon DEF Unused
<1>4. ASSUME NEW t \in Trace PROVE ViewOf(ns[t], data') = ViewOf(ns[t], d)
  <2>1. ns[t] \in Seq(NodeId)
    OBVIOUS
  <2>2. ASSUME NEW k \in 1 .. Len(ns[t]) PROVE data'[ns[t][k]] = d[ns[t][k]]
    <3>1. ns[t][k] \in NodeId /\ k \in DOMAIN ns[t]
      BY <2>1
    <3>2. ns[t][k] \in Range(ns[t])
      BY <3>1 DEF Range
    <3> QED BY <3>1, <3>2, <1>2, Zenon
  <2> QED BY <2>1, <2>2, ContentsKept, Zenon
<1>5. Views' = [t \in Trace |-> ViewOf(ns[t], d)]
  <2>1. Views' = [t \in Trace |-> ViewOf(ns[t], data')]
    BY <1>1 DEF Views, ViewOf, Contents
  <2> QED BY <2>1, <1>4
<1> QED BY <1>1, <1>2, <1>3, <1>5, Zenon

\* A step that shows in one trace only.
LEMMA OneView ==
  ASSUME NEW t \in Trace, NEW ns \in [Trace -> Seq(NodeId)], NEW d \in Data, Store(ns, d),
         \A w \in Trace \ {t} : ViewOf(ns[w], d) = ViewOf(nodes[w], data)
  PROVE  Views' = [Views EXCEPT ![t] = ViewOf(ns[t], d)]
<1>1. Views' = [w \in Trace |-> ViewOf(ns[w], d)]
  BY StoreViews, Zenon
<1> QED BY <1>1, Zenon DEF Views

\* A step that shows in one trace only, with its size kept up to date.
LEMMA OneTrace ==
  ASSUME Counted, NEW t \in Trace, NEW ns \in [Trace -> Seq(NodeId)], NEW d \in Data,
         Store(ns, d), nodes \in [Trace -> Seq(NodeId)],
         \A w \in Trace \ {t} : ns[w] = nodes[w] /\ ViewOf(ns[w], d) = ViewOf(nodes[w], data),
         NEW m \in Nat, size' = [size EXCEPT ![t] = m],
         ns[t] # <<>> => m = Len(ViewOf(ns[t], d))
  PROVE  Views' = [Views EXCEPT ![t] = ViewOf(ns[t], d)] /\ Counted'
<1>0. \A w \in Trace \ {t} : ViewOf(ns[w], d) = ViewOf(nodes[w], data)
  BY Zenon
<1>1. Views' = [Views EXCEPT ![t] = ViewOf(ns[t], d)]
  BY <1>0, OneView, ZenonT(60)
<1>2. nodes' = ns /\ data' \in Data /\ \A n \in Unused' : data'[n] = <<>>
  BY StoreViews, Zenon
<1> DEFINE v == ViewOf(ns[t], d)
<1>3. DOMAIN Views = Trace
  BY DEF Views
<1>4. /\ size' \in [Trace -> Nat]
      /\ \A w \in Trace : nodes'[w] # <<>> => size'[w] = Len(Views'[w])
  <2>1. size \in [Trace -> Nat] /\ \A w \in Trace : nodes[w] # <<>> => size[w] = Len(Views[w])
    BY Zenon DEF Counted, Live
  <2> HIDE DEF v
  <2>2. Views' = [Views EXCEPT ![t] = v] /\ (ns[t] # <<>> => m = Len(v))
    BY <1>1, Zenon DEF v
  <2>3. size' \in [Trace -> Nat]
    BY <2>1
  <2>4. ASSUME NEW w \in Trace, nodes'[w] # <<>> PROVE size'[w] = Len(Views'[w])
    <3>1. CASE w = t
      <4>1. size'[w] = m /\ Views'[w] = v
        BY <3>1, <2>1, <2>2, <1>3
      <4> QED BY <4>1, <2>2, <2>4, <3>1, <1>2, Zenon
    <3>2. CASE w # t
      <4>1. size'[w] = size[w] /\ Views'[w] = Views[w]
        BY <3>2, <2>1, <2>2, <1>3
      <4>2. nodes[w] # <<>>
        BY <3>2, <2>4, <1>2, Zenon
      <4> QED BY <4>1, <4>2, <2>1, Zenon
    <3> QED BY <3>1, <3>2, Zenon
  <2> QED BY <2>3, <2>4, Zenon
<1> QED BY <1>1, <1>2, <1>4, Zenon DEF Counted, Live

\* A node that the other traces do not hold can be written without their seeing it.
LEMMA OthersKept ==
  ASSUME nodes \in [Trace -> Seq(NodeId)], NEW t \in Trace, NEW n \in NodeId,
         \A w \in Trace \ {t} : \A k \in DOMAIN nodes[w] : nodes[w][k] # n,
         NEW d, \A o \in NodeId : o # n => d[o] = data[o]
  PROVE  \A w \in Trace \ {t} : ViewOf(nodes[w], d) = ViewOf(nodes[w], data)
<1> SUFFICES ASSUME NEW w \in Trace \ {t} PROVE ViewOf(nodes[w], d) = ViewOf(nodes[w], data)
  OBVIOUS
<1>1. nodes[w] \in Seq(NodeId)
  OBVIOUS
<1>2. \A k \in 1 .. Len(nodes[w]) : d[nodes[w][k]] = data[nodes[w][k]]
  <2>1. \A k \in 1 .. Len(nodes[w]) : k \in DOMAIN nodes[w] /\ nodes[w][k] \in NodeId
    BY <1>1
  <2> QED BY <2>1, Zenon
<1> QED BY <1>1, <1>2, ContentsKept, Zenon

\* A write to a node that only t holds, and only once: it shows in t, at that segment.
LEMMA OwnNode ==
  ASSUME Sharing, Counted, NEW t \in Trace, NEW k \in 1 .. Len(nodes[t]), OnlyRef(t, k),
         NEW d \in Data, Store(nodes, d), \A o \in NodeId : o # nodes[t][k] => d[o] = data[o],
         size' = [size EXCEPT ![t] = size[t] + (Len(d[nodes[t][k]]) - Len(Segment(t, k)))]
  PROVE  \E c \in Seq(Elem), e \in Seq(Elem) :
           /\ Views[t] = (c \o Segment(t, k)) \o e /\ (k = Len(nodes[t]) => e = <<>>)
           /\ Views' = [Views EXCEPT ![t] = (c \o d[nodes[t][k]]) \o e] /\ Counted'
<1> DEFINE n == nodes[t][k]
<1> DEFINE v == d[n]
<1> DEFINE m == size[t] + (Len(v) - Len(Segment(t, k)))
<1>1. nodes \in [Trace -> Seq(NodeId)] /\ data \in Data
  BY DEF Sharing, TypeOK, Counted
<1>2. nodes[t] \in Seq(NodeId) /\ n \in NodeId /\ nodes[t] # <<>> /\ DOMAIN nodes[t] = 1 .. Len(nodes[t])
  BY <1>1
<1>3. /\ \A w \in Trace \ {t} : \A j \in DOMAIN nodes[w] : nodes[w][j] # n
      /\ \A j \in DOMAIN nodes[t] : nodes[t][j] = n => j = k
  BY DEF OnlyRef
<1>4. d[n] = v /\ \A o \in NodeId : o # n => d[o] = data[o]
  BY Zenon
<1>m. size' = [size EXCEPT ![t] = m]
  BY Zenon
<1>v. v \in Seq(Elem)
  BY <1>2 DEF Data
<1> HIDE DEF n, v, m
<1>o. \A w \in Trace \ {t} : ViewOf(nodes[w], d) = ViewOf(nodes[w], data)
  <2>1. \A w \in Trace \ {t} : \A j \in DOMAIN nodes[w] : nodes[w][j] # n
    BY <1>3, Zenon
  <2>2. \A o \in NodeId : o # n => d[o] = data[o]
    BY <1>4, Zenon
  <2>3. nodes \in [Trace -> Seq(NodeId)] /\ n \in NodeId
    BY <1>1, <1>2, Zenon
  <2> QED BY ONLY t \in Trace, <2>1, <2>2, <2>3, OthersKept, ZenonT(30)
<1> DEFINE ss == Contents(nodes[t], data)
<1> DEFINE tt == Contents(nodes[t], d)
<1>5. /\ ss \in Seq(Seq(Elem)) /\ Len(ss) = Len(nodes[t])
      /\ \A j \in 1 .. Len(nodes[t]) : ss[j] = data[nodes[t][j]]
      /\ ViewOf(nodes[t], data) = FlattenSeq(ss)
  BY <1>1, <1>2, ContentsTyped, Zenon
<1>6. /\ tt \in Seq(Seq(Elem)) /\ Len(tt) = Len(nodes[t])
      /\ \A j \in 1 .. Len(nodes[t]) : tt[j] = d[nodes[t][j]]
      /\ ViewOf(nodes[t], d) = FlattenSeq(tt)
  BY <1>4, <1>2, ContentsTyped, Zenon
<1> HIDE DEF ss, tt
<1>7. ASSUME NEW j \in 1 .. Len(ss), j # k PROVE tt[j] = ss[j]
  <2>1. j \in DOMAIN nodes[t] /\ nodes[t][j] \in NodeId
    BY <1>2, <1>5
  <2>2. nodes[t][j] # n
    BY <2>1, <1>3, <1>7, Zenon
  <2> QED BY <2>1, <2>2, <1>2, <1>4, <1>5, <1>6, ZenonT(60)
<1>8. ss[k] = Segment(t, k) /\ tt[k] = v
  BY <1>4, <1>5, <1>6, Zenon DEF Segment, n
<1>9. k \in 1 .. Len(ss) /\ Len(tt) = Len(ss)
  BY <1>5, <1>6, Zenon
<1>10. PICK c \in Seq(Elem), e \in Seq(Elem) :
         /\ FlattenSeq(ss) = (c \o ss[k]) \o e /\ FlattenSeq(tt) = (c \o tt[k]) \o e
         /\ k = Len(ss) => e = <<>>
         /\ FlattenSeq(SubSeq(ss, 1, k)) = c \o ss[k]
  BY <1>5, <1>6, <1>7, <1>9, OneSegment, ZenonT(60)
<1>11. Views[t] = ViewOf(nodes[t], data)
  BY DEF Views
<1>12. Views[t] = (c \o Segment(t, k)) \o e /\ ViewOf(nodes[t], d) = (c \o v) \o e
  BY <1>5, <1>6, <1>8, <1>10, <1>11, Zenon
<1>13. m = Len(ViewOf(nodes[t], d)) /\ m \in Nat
  <2>1. size[t] = Len(Views[t])
    BY <1>2, Zenon DEF Counted, Live
  <2>2. Segment(t, k) \in Seq(Elem)
    BY <1>1, <1>2 DEF Segment, Data
  <2> DEFINE s == Segment(t, k)
  <2>3. /\ c \o s \in Seq(Elem) /\ Len(c \o s) = Len(c) + Len(s)
        /\ c \o v \in Seq(Elem) /\ Len(c \o v) = Len(c) + Len(v)
    BY <2>2, <1>v, ConcatLists, Zenon
  <2>4. /\ Len((c \o s) \o e) = Len(c \o s) + Len(e)
        /\ Len((c \o v) \o e) = Len(c \o v) + Len(e)
    BY <2>3, ConcatLists, Zenon
  <2>5. Len(c) \in Nat /\ Len(s) \in Nat /\ Len(v) \in Nat /\ Len(e) \in Nat
    BY <2>2, <1>v
  <2>6. size[t] = (Len(c) + Len(s)) + Len(e) /\ Len(ViewOf(nodes[t], d)) = (Len(c) + Len(v)) + Len(e)
    BY <2>1, <2>3, <2>4, <1>12, ZenonT(60)
  <2>7. m = size[t] + (Len(v) - Len(s))
    BY DEF m
  <2>8. \A a, b, x, y \in Nat : ((a + b) + y) + (x - b) = (a + x) + y
    OBVIOUS
  <2> HIDE DEF s
  <2>9. ((Len(c) + Len(s)) + Len(e)) + (Len(v) - Len(s)) = (Len(c) + Len(v)) + Len(e)
    BY ONLY <2>5, SMT
  <2>10. m = ((Len(c) + Len(s)) + Len(e)) + (Len(v) - Len(s))
    BY <2>6, <2>7, Zenon
  <2>11. (Len(c) + Len(v)) + Len(e) \in Nat
    BY ONLY <2>5, SMT
  <2> QED BY <2>6, <2>9, <2>10, <2>11, Zenon
<1>14. Views' = [Views EXCEPT ![t] = ViewOf(nodes[t], d)] /\ Counted'
  BY <1>1, <1>o, <1>m, <1>13, OneTrace, Zenon
<1> QED BY <1>10, <1>12, <1>14, <1>5, ZenonT(60) DEF v, n

\* A fresh node is empty.
LEMMA NewNodeEmpty ==
  ASSUME Counted, NEW S, Unused \ S # {}
  PROVE  data[NewNode(S)] = <<>>
<1>1. NewNode(S) \in Unused
  BY DEF NewNode
<1> QED BY <1>1, Zenon DEF Counted

\* clear and the default constructor: the trace is empty, the others are untouched.
LEMMA ClearViews ==
  ASSUME Sharing, Counted, NEW t \in Trace, Clear(t)
  PROVE  Views' = [Views EXCEPT ![t] = <<>>] /\ Counted'
<1> DEFINE n == NewNode({})
<1> DEFINE ns == [nodes EXCEPT ![t] = <<n>>]
<1>1. n \in NodeId /\ data[n] = <<>>
  <2>1. Unused \ {} # {} BY DEF Clear
  <2> QED BY <2>1, NewNodeUnused, NewNodeEmpty, Zenon
<1>2. Store(ns, data) /\ size' = [size EXCEPT ![t] = 0]
  BY DEF Clear
<1> HIDE DEF n
<1>3. nodes \in [Trace -> Seq(NodeId)] /\ data \in Data
  BY DEF Sharing, TypeOK, Counted
<1>4. ns \in [Trace -> Seq(NodeId)] /\ ns[t] = <<n>> /\ \A w \in Trace \ {t} : ns[w] = nodes[w]
  BY <1>1, <1>3
<1> HIDE DEF ns
<1>5. ViewOf(ns[t], data) = <<>>
  <2>1. Contents(<<n>>, data) = <<data[n]>>
    BY DEF Contents
  <2>2. <<n>> # <<>> /\ <<>> \in Seq(Elem)
    OBVIOUS
  <2>3. FlattenSeq(<<data[n]>>) = data[n]
    BY <2>2, <1>1, FlattenOne, Zenon
  <2> QED BY <1>1, <1>4, <2>1, <2>2, <2>3, Zenon DEF ViewOf
<1>6. Len(<<>>) = 0 /\ 0 \in Nat
  OBVIOUS
<1>7. /\ \A w \in Trace \ {t} : ns[w] = nodes[w] /\ ViewOf(ns[w], data) = ViewOf(nodes[w], data)
      /\ ns[t] # <<>> => 0 = Len(ViewOf(ns[t], data))
  BY <1>4, <1>5, <1>6, Zenon
<1>8. Views' = [Views EXCEPT ![t] = ViewOf(ns[t], data)] /\ Counted'
  BY <1>2, <1>6, <1>3, <1>4, <1>7, OneTrace, ZenonT(60)
<1> QED BY <1>5, <1>8, Zenon

\* The destructor.
LEMMA DestroyViews ==
  ASSUME Sharing, Counted, NEW t \in Trace, Destroy(t)
  PROVE  Views' = [Views EXCEPT ![t] = None] /\ Counted'
<1> DEFINE ns == [nodes EXCEPT ![t] = <<>>]
<1>2. Store(ns, data) /\ size' = [size EXCEPT ![t] = 0]
  BY DEF Destroy
<1>3. nodes \in [Trace -> Seq(NodeId)] /\ data \in Data
  BY DEF Sharing, TypeOK, Counted
<1>4. ns \in [Trace -> Seq(NodeId)] /\ ns[t] = <<>> /\ \A w \in Trace \ {t} : ns[w] = nodes[w]
  BY <1>3
<1> HIDE DEF ns
<1>5. ViewOf(ns[t], data) = None
  BY <1>4, Zenon DEF ViewOf
<1>6. 0 \in Nat
  OBVIOUS
<1>7. /\ \A w \in Trace \ {t} : ns[w] = nodes[w] /\ ViewOf(ns[w], data) = ViewOf(nodes[w], data)
      /\ ns[t] # <<>> => 0 = Len(ViewOf(ns[t], data))
  BY <1>4, Zenon
<1>8. Views' = [Views EXCEPT ![t] = ViewOf(ns[t], data)] /\ Counted'
  BY <1>2, <1>6, <1>3, <1>4, <1>7, OneTrace, Zenon
<1> QED BY <1>5, <1>8, Zenon

\* reverse() puts the reversed elements into one fresh node.
LEMMA ReverseViews ==
  ASSUME Sharing, Counted, NEW t \in Trace, ReverseTrace(t)
  PROVE  Views' = [Views EXCEPT ![t] = Reverse(Views[t])] /\ Counted'
<1> DEFINE n == NewNode({})
<1> DEFINE ns == [nodes EXCEPT ![t] = <<n>>]
<1> DEFINE v == ReversedElements(t)
<1> DEFINE d == [data EXCEPT ![n] = v]
<1>1. n \in NodeId /\ \A w \in Trace : \A k \in DOMAIN nodes[w] : nodes[w][k] # n
  <2>1. Unused \ {} # {} BY DEF ReverseTrace
  <2> QED BY <2>1, NewNodeUnused, Zenon
<1>2. Store(ns, d) /\ nodes[t] # <<>>
  BY DEF ReverseTrace, Live
<1>s. size' = size
  BY DEF ReverseTrace
<1> HIDE DEF n
<1>3. nodes \in [Trace -> Seq(NodeId)] /\ data \in Data /\ nodes[t] \in Seq(NodeId)
  BY DEF Sharing, TypeOK, Counted
<1>4. ns \in [Trace -> Seq(NodeId)] /\ ns[t] = <<n>> /\ \A w \in Trace \ {t} : ns[w] = nodes[w]
  BY <1>1, <1>3
<1> HIDE DEF ns
<1>5. v = Reverse(Views[t]) /\ v \in Seq(Elem) /\ Len(v) = Len(Views[t])
  <2> DEFINE ss == Contents(nodes[t], data)
  <2>1. /\ ss \in Seq(Seq(Elem)) /\ Len(ss) = Len(nodes[t]) /\ ss # <<>>
        /\ \A k \in 1 .. Len(nodes[t]) : ss[k] = data[nodes[t][k]]
        /\ ViewOf(nodes[t], data) = FlattenSeq(ss) /\ ViewOf(nodes[t], data) \in Seq(Elem)
    BY <1>2, <1>3, ContentsTyped, ZenonT(60)
  <2>2. Views[t] = FlattenSeq(ss) /\ Views[t] \in Seq(Elem)
    BY <2>1 DEF Views
  <2> HIDE DEF ss
  <2> DEFINE rr == [k \in 1 .. Len(ss) |-> Reverse(ss[Len(ss) + 1 - k])]
  <2>3. v = FlattenSeq(rr)
    <3>1. DOMAIN nodes[t] = 1 .. Len(ss) /\ Len(ss) \in Nat
      BY <1>3, <2>1
    <3>2. ASSUME NEW k \in 1 .. Len(ss)
          PROVE  Reverse(Segment(t, Len(nodes[t]) + 1 - k)) = Reverse(ss[Len(ss) + 1 - k])
      <4>1. Len(ss) + 1 - k \in 1 .. Len(ss)
        BY <3>1
      <4> QED BY <4>1, <2>1, Zenon DEF Segment
    <3>3. [k \in DOMAIN nodes[t] |-> Reverse(Segment(t, Len(nodes[t]) + 1 - k))] = rr
      BY <3>1, <3>2
    <3> QED BY <3>3, Zenon DEF ReversedElements
  <2>4. FlattenSeq(rr) = Reverse(FlattenSeq(ss))
    BY <2>1, FlattenReverse, Zenon
  <2> HIDE DEF rr, v
  <2>5. v = Reverse(Views[t])
    BY <2>2, <2>3, <2>4, Zenon
  <2> QED BY <2>2, <2>5, ReverseLists, Zenon
<1> HIDE DEF v
<1>6. d \in Data /\ d[n] = v /\ \A o \in NodeId : o # n => d[o] = data[o]
  BY <1>1, <1>3, <1>5 DEF Data
<1> HIDE DEF d
<1>7. \A w \in Trace \ {t} : ViewOf(nodes[w], d) = ViewOf(nodes[w], data)
  <2>1. \A w \in Trace \ {t} : \A j \in DOMAIN nodes[w] : nodes[w][j] # n
    BY <1>1, Zenon
  <2>2. \A o \in NodeId : o # n => d[o] = data[o]
    BY <1>6, Zenon
  <2>3. nodes \in [Trace -> Seq(NodeId)] /\ n \in NodeId
    BY <1>1, <1>3, Zenon
  <2> QED BY ONLY t \in Trace, <2>1, <2>2, <2>3, OthersKept, ZenonT(30)
<1>8. ViewOf(ns[t], d) = v
  <2>1. Contents(<<n>>, d) = <<d[n]>>
    BY DEF Contents
  <2>2. <<n>> # <<>>
    OBVIOUS
  <2>3. FlattenSeq(<<v>>) = v
    BY <1>5, FlattenOne, Zenon
  <2> QED BY <1>4, <1>6, <2>1, <2>2, <2>3, Zenon DEF ViewOf
<1> DEFINE m == size[t]
<1>9. size' = [size EXCEPT ![t] = m] /\ m = Len(Views[t]) /\ m \in Nat
  BY <1>2, <1>s DEF Counted, Live
<1> HIDE DEF m
<1>10. /\ \A w \in Trace \ {t} : ns[w] = nodes[w] /\ ViewOf(ns[w], d) = ViewOf(nodes[w], data)
       /\ ns[t] # <<>> => m = Len(ViewOf(ns[t], d))
  BY <1>4, <1>5, <1>7, <1>8, <1>9, Zenon
<1>11. Views' = [Views EXCEPT ![t] = ViewOf(ns[t], d)] /\ Counted'
  BY <1>2, <1>3, <1>4, <1>6, <1>9, <1>10, OneTrace, ZenonT(60)
<1> QED BY <1>5, <1>8, <1>11, Zenon

\* Appending to the last segment appends to the whole.
LEMMA AppendLast ==
  ASSUME NEW c \in Seq(Elem), NEW s \in Seq(Elem), NEW x \in Elem
  PROVE  (c \o Append(s, x)) \o <<>> = Append((c \o s) \o <<>>, x)
OBVIOUS

\* push_back.
LEMMA PushViews ==
  ASSUME Sharing, Counted, NEW t \in Trace, NEW x \in Elem, PushBack(t, x)
  PROVE  Views' = [Views EXCEPT ![t] = Append(Views[t], x)] /\ Counted'
<1> DEFINE k == Len(nodes[t])
<1> DEFINE s == Segment(t, k)
<1> DEFINE v == Append(s, x)
<1>1. nodes \in [Trace -> Seq(NodeId)] /\ data \in Data /\ size \in [Trace -> Nat]
  BY DEF Sharing, TypeOK, Counted
<1>2. nodes[t] \in Seq(NodeId) /\ nodes[t] # <<>>
  BY <1>1 DEF PushBack, Live
<1>3. k \in 1 .. Len(nodes[t]) /\ nodes[t][k] \in NodeId
  BY <1>2
<1>k. k = Len(nodes[t])
  OBVIOUS
<1>4. OnlyRef(t, k)
  BY <1>2, Zenon DEF Sharing, TailPrivate, Live
<1>5. s \in Seq(Elem)
  BY <1>1, <1>3 DEF Segment, Data
<1> DEFINE d == [data EXCEPT ![nodes[t][k]] = v]
<1>6. Store(nodes, d)
  BY <1>1, <1>3 DEF PushBack, Back, Segment, Data
<1> HIDE DEF k, s
<1>7. v \in Seq(Elem)
  BY <1>5
<1>8. size' = [size EXCEPT ![t] = size[t] + (Len(v) - Len(s))]
  <2>1. size[t] + (Len(v) - Len(s)) = size[t] + 1
    BY <1>1, <1>5
  <2> QED BY <2>1, <1>1 DEF PushBack
<1> HIDE DEF v
<1>d. d \in Data /\ d[nodes[t][k]] = v /\ \A o \in NodeId : o # nodes[t][k] => d[o] = data[o]
  BY <1>1, <1>3, <1>7 DEF Data
<1> HIDE DEF d
<1>9. size' = [size EXCEPT ![t] = size[t] + (Len(d[nodes[t][k]]) - Len(Segment(t, k)))]
  BY <1>d, <1>8, Zenon DEF s
<1>10. PICK c \in Seq(Elem), e \in Seq(Elem) :
         /\ Views[t] = (c \o Segment(t, k)) \o e /\ (k = Len(nodes[t]) => e = <<>>)
         /\ Views' = [Views EXCEPT ![t] = (c \o d[nodes[t][k]]) \o e] /\ Counted'
  <2>1. d \in Data /\ \A o \in NodeId : o # nodes[t][k] => d[o] = data[o]
    BY <1>d, Zenon
  <2> QED BY ONLY Sharing, Counted, t \in Trace, <1>3, <1>4, <1>6, <2>1, <1>9, OwnNode, ZenonT(60)
<1>11. e = <<>> /\ Views[t] = (c \o s) \o <<>>
  BY <1>k, <1>10, Zenon DEF s
<1>12. (c \o v) \o <<>> = Append((c \o s) \o <<>>, x)
  BY <1>5, AppendLast, Zenon DEF v
<1> QED BY <1>d, <1>10, <1>11, <1>12, Zenon

\* swap.
LEMMA SwapViews ==
  ASSUME Sharing, Counted, NEW t \in Trace, NEW u \in Trace, Swap(t, u)
  PROVE  Views' = [Views EXCEPT ![t] = Views[u], ![u] = Views[t]] /\ Counted'
<1> DEFINE ns == [nodes EXCEPT ![t] = nodes[u], ![u] = nodes[t]]
<1>1. nodes \in [Trace -> Seq(NodeId)] /\ data \in Data /\ size \in [Trace -> Nat]
  BY DEF Sharing, TypeOK, Counted
<1>2. Store(ns, data) /\ size' = [size EXCEPT ![t] = size[u], ![u] = size[t]]
  BY DEF Swap
<1>3. ns \in [Trace -> Seq(NodeId)]
  BY <1>1, Zenon
<1> DEFINE other(w) == IF w = t THEN u ELSE IF w = u THEN t ELSE w
<1>4. \A w \in Trace : other(w) \in Trace /\ ns[w] = nodes[other(w)]
  BY <1>1
<1>5. \A w \in Trace : size'[w] = size[other(w)]
  BY <1>1, <1>2
<1>6. size' \in [Trace -> Nat]
  BY <1>1, <1>2
<1> HIDE DEF ns
<1>7. /\ nodes' = ns /\ data' \in Data /\ \A n \in Unused' : data'[n] = <<>>
      /\ Views' = [w \in Trace |-> ViewOf(ns[w], data)]
  BY <1>1, <1>2, <1>3, StoreViews, Zenon
<1>8. \A w \in Trace : Views'[w] = Views[other(w)]
  <2> HIDE DEF other
  <2> QED BY <1>4, <1>7 DEF Views
<1>9. Views' = [Views EXCEPT ![t] = Views[u], ![u] = Views[t]]
  <2>1. DOMAIN Views = Trace /\ Views = [w \in Trace |-> Views[w]]
    BY DEF Views
  <2>2. Views' = [w \in Trace |-> Views'[w]]
    BY <1>7
  <2>3. \A w \in Trace : Views'[w] = IF w = t THEN Views[u] ELSE IF w = u THEN Views[t] ELSE Views[w]
    BY <1>8, Zenon
  <2> DEFINE a == Views
  <2> DEFINE b == Views'
  <2> HIDE DEF a, b
  <2>4. b = [a EXCEPT ![t] = a[u], ![u] = a[t]]
    <3>1. /\ DOMAIN a = Trace /\ a = [w \in Trace |-> a[w]] /\ b = [w \in Trace |-> b[w]]
          /\ \A w \in Trace : b[w] = IF w = t THEN a[u] ELSE IF w = u THEN a[t] ELSE a[w]
      BY <2>1, <2>2, <2>3, Zenon DEF a, b
    <3> QED BY ONLY t \in Trace, u \in Trace, <3>1, SMT
  <2> QED BY <2>4, Zenon DEF a, b
<1>10. ASSUME NEW w \in Trace, nodes'[w] # <<>> PROVE size'[w] = Len(Views'[w])
  <2> HIDE DEF other
  <2>1. nodes[other(w)] # <<>> /\ other(w) \in Trace
    BY <1>4, <1>7, <1>10, Zenon
  <2>2. size[other(w)] = Len(Views[other(w)])
    BY <2>1, Zenon DEF Counted, Live
  <2> QED BY <2>2, <1>5, <1>8, Zenon
<1> QED BY <1>6, <1>7, <1>9, <1>10, Zenon DEF Counted, Live

\* The copy constructor: the copy holds what the original holds, and that is unchanged.
LEMMA ForkViews ==
  ASSUME Sharing, Counted, NEW t \in Trace, NEW u \in Trace, Fork(t, u)
  PROVE  Views' = [Views EXCEPT ![u] = Views[t]] /\ Counted'
<1> DEFINE n == NewNode({})
<1> DEFINE m == NewNode({n})
<1> DEFINE l == SplitTail(t)
<1> DEFINE c == ForkOf(l, m)
<1> DEFINE ns == [nodes EXCEPT ![t] = l, ![u] = c]
<1>1. nodes \in [Trace -> Seq(NodeId)] /\ data \in Data /\ size \in [Trace -> Nat]
  BY DEF Sharing, TypeOK, Counted
<1>2. n \in NodeId /\ data[n] = <<>>
  <2>1. Unused \ {} # {} BY DEF Fork
  <2> QED BY <2>1, NewNodeUnused, NewNodeEmpty, Zenon
<1>3. m \in NodeId /\ data[m] = <<>>
  <2>1. Unused \ {n} # {} BY DEF Fork
  <2> HIDE DEF n
  <2> QED BY <2>1, NewNodeUnused, NewNodeEmpty, Zenon
<1>4. t # u /\ nodes[t] # <<>> /\ nodes[t] \in Seq(NodeId)
  BY <1>1 DEF Fork, Live
<1>5. Store(ns, data) /\ size' = [size EXCEPT ![u] = size[t]]
  BY DEF Fork
<1>6. \/ data[Back(t)] = <<>> /\ l = nodes[t]
      \/ l = Append(nodes[t], n)
  BY DEF SplitTail
<1>7. c = [l EXCEPT ![Len(l)] = m]
  BY DEF ForkOf
<1> HIDE DEF n, m, l, c
<1>8. /\ l \in Seq(NodeId) /\ l # <<>> /\ Len(l) \in Nat /\ Len(l) \in 1 .. Len(l)
      /\ data[l[Len(l)]] = <<>>
  BY SMTT(30), <1>2, <1>4, <1>6 DEF Back
<1>9. ViewOf(l, data) = ViewOf(nodes[t], data)
  <2>1. CASE l = nodes[t]
    BY <2>1, Zenon
  <2>2. CASE l = Append(nodes[t], n)
    <3> DEFINE ss == Contents(nodes[t], data)
    <3>1. ss \in Seq(Seq(Elem)) /\ ss # <<>> /\ ViewOf(nodes[t], data) = FlattenSeq(ss)
      BY <1>1, <1>4, ContentsTyped, Zenon
    <3>2. ViewOf(l, data) = FlattenSeq(Contents(l, data))
      BY <1>1, <1>8, ContentsTyped, Zenon
    <3>3. Contents(l, data) = Append(ss, <<>>)
      <4>1. /\ DOMAIN l = 1 .. Len(nodes[t]) + 1 /\ l[Len(nodes[t]) + 1] = n
            /\ \A k \in 1 .. Len(nodes[t]) : l[k] = nodes[t][k]
            /\ DOMAIN nodes[t] = 1 .. Len(nodes[t]) /\ Len(nodes[t]) \in Nat
        BY <2>2, <1>2, <1>4
      <4> QED BY <4>1, <1>2 DEF Contents
    <3> HIDE DEF ss
    <3> QED BY <3>1, <3>2, <3>3, FlattenAppendEmpty, Zenon
  <2> QED BY <2>1, <2>2, <1>6, Zenon
<1>10. c \in Seq(NodeId) /\ c # <<>> /\ ViewOf(c, data) = ViewOf(l, data)
  <2>1. /\ c \in Seq(NodeId) /\ Len(c) = Len(l) /\ c[Len(l)] = m /\ c # <<>>
        /\ \A k \in 1 .. Len(l) : k # Len(l) => c[k] = l[k]
    BY <1>3, <1>7, <1>8
  <2>2. \A k \in 1 .. Len(l) : data[c[k]] = data[l[k]]
    BY <2>1, <1>3, <1>8, Zenon
  <2>3. DOMAIN c = 1 .. Len(l) /\ DOMAIN l = 1 .. Len(l)
    BY <2>1, <1>8
  <2>4. Contents(c, data) = Contents(l, data)
    BY <2>2, <2>3 DEF Contents
  <2> QED BY <2>1, <2>4, <1>8, Zenon DEF ViewOf
<1>11. /\ ns \in [Trace -> Seq(NodeId)] /\ ns[t] = l /\ ns[u] = c
       /\ \A w \in Trace : w # t /\ w # u => ns[w] = nodes[w]
  BY <1>1, <1>4, <1>8, <1>10, Zenon
<1> HIDE DEF ns
<1>12. /\ nodes' = ns /\ data' \in Data /\ \A o \in Unused' : data'[o] = <<>>
       /\ Views' = [w \in Trace |-> ViewOf(ns[w], data)]
  BY <1>1, <1>5, <1>11, StoreViews, Zenon
<1>13. /\ \A w \in Trace : Views[w] = ViewOf(nodes[w], data) /\ Views'[w] = ViewOf(ns[w], data)
       /\ DOMAIN Views = Trace
  BY <1>12 DEF Views
<1>14. Views'[u] = Views[t] /\ \A w \in Trace : w # u => Views'[w] = Views[w]
  BY <1>4, <1>9, <1>10, <1>11, <1>13, ZenonT(60)
<1>15. Views' = [Views EXCEPT ![u] = Views[t]]
  <2>1. Views = [w \in Trace |-> ViewOf(nodes[w], data)]
    BY DEF Views
  <2> QED BY <2>1, <1>12, <1>13, <1>14
<1>16. size' \in [Trace -> Nat] /\ size'[u] = size[t] /\ \A w \in Trace : w # u => size'[w] = size[w]
  BY <1>1, <1>5
<1>17. ASSUME NEW w \in Trace, nodes'[w] # <<>> PROVE size'[w] = Len(Views'[w])
  <2>1. w # u => nodes[w] # <<>>
    BY <1>4, <1>11, <1>12, <1>17, Zenon
  <2>2. \A o \in Trace : nodes[o] # <<>> => size[o] = Len(Views[o])
    BY Zenon DEF Counted, Live
  <2> QED BY <2>1, <2>2, <1>4, <1>14, <1>16, Zenon
<1> QED BY <1>12, <1>15, <1>16, <1>17, Zenon DEF Counted, Live

-----------------------------------------------------------------------------
(* Positions.                                                                *)

\* Before counts the elements ahead of a node: none ahead of the first, and each node
\* adds its own; element i of node k is where getElementAt expects it.
LEMMA BeforeIs ==
  ASSUME nodes \in [Trace -> Seq(NodeId)], data \in Data, NEW t \in Trace, nodes[t] # <<>>
  PROVE  /\ Before(t, 1) = 0 /\ Before(t, Len(nodes[t]) + 1) = Len(Views[t])
         /\ \A k \in 1 .. Len(nodes[t]) :
              /\ Segment(t, k) \in Seq(Elem) /\ Before(t, k) \in Nat
              /\ Before(t, k + 1) = Before(t, k) + Len(Segment(t, k))
              /\ \A i \in 1 .. Len(Segment(t, k)) : Views[t][Before(t, k) + i] = Segment(t, k)[i]
<1> DEFINE n == Len(nodes[t])
<1> DEFINE ss == Segments(t)
<1>0. nodes[t] \in Seq(NodeId) /\ n \in Nat /\ n \in 1 .. n
  OBVIOUS
<1>1. /\ ss \in Seq(Seq(Elem)) /\ Len(ss) = n /\ ss # <<>>
      /\ \A k \in 1 .. n : ss[k] = Segment(t, k)
      /\ Views[t] = FlattenSeq(ss)
  <2>1. ss = Contents(nodes[t], data)
    BY Zenon DEF Segments, Segment, Contents
  <2>2. Views[t] = ViewOf(nodes[t], data)
    BY DEF Views
  <2> QED BY <2>1, <2>2, <1>0, ContentsTyped, ZenonT(60) DEF Segment
<1>2. \A k \in 1 .. n : Segment(t, k) \in Seq(Elem)
  <2> HIDE DEF ss
  <2>1. \A k \in 1 .. n : ss[k] \in Seq(Elem)
    BY <1>1
  <2> QED BY <2>1, <1>1, Zenon
<1> DEFINE B(k) == Before(t, k)
<1>3. B(1) = 0
  <2>1. Before(t, 1) = Len(FlattenSeq(SubSeq(ss, 1, 1 - 1)))
    BY Zenon DEF Before
  <2> HIDE DEF ss
  <2>2. SubSeq(ss, 1, 1 - 1) = <<>>
    BY <1>1
  <2>3. FlattenSeq(<<>>) = <<>>
    BY Zenon DEF FlattenSeq
  <2>4. Len(<<>>) = 0
    OBVIOUS
  <2> QED BY <2>1, <2>2, <2>3, <2>4, Zenon
<1>p. \A k \in 1 .. n : B(k + 1) = Len(FlattenSeq(SubSeq(ss, 1, k)))
  <2> SUFFICES ASSUME NEW k \in 1 .. n PROVE B(k + 1) = Len(FlattenSeq(SubSeq(ss, 1, k)))
    OBVIOUS
  <2>1. (k + 1) - 1 = k
    BY <1>0
  <2> QED BY <2>1, Zenon DEF Before
<1> HIDE DEF n, ss
<1>4. PICK f : Sums(f, ss) /\ FlattenSeq(ss) = f[n]
  BY <1>1, FlattenSums, Zenon
<1>5. /\ f[1] = ss[1] /\ \A i \in 2 .. n : f[i] = f[i - 1] \o ss[i]
      /\ \A j \in 1 .. n : f[j] \in Seq(Elem)
  BY <1>1, <1>4, Zenon DEF Sums
<1>6. \A k \in 1 .. n : B(k + 1) = Len(f[k])
  BY <1>1, <1>4, <1>p, FlattenPrefix, Zenon
<1>7. B(n + 1) = Len(Views[t])
  BY <1>0, <1>1, <1>4, <1>6, Zenon
<1> HIDE DEF B
<1>8. ASSUME NEW k \in 1 .. n PROVE B(k) \in Nat /\ B(k + 1) = B(k) + Len(ss[k])
  <2>1. ss[k] \in Seq(Elem)
    BY <1>1, <1>2, Zenon
  <2>2. CASE k = 1
    <3>1. B(k + 1) = Len(ss[k])
      BY <2>2, <1>0, <1>5, <1>6, Zenon
    <3>2. Len(ss[k]) \in Nat
      BY <2>1
    <3> QED BY <2>2, <3>1, <3>2, <1>3
  <2>3. CASE k # 1
    <3>1. k \in 2 .. n /\ k - 1 \in 1 .. n /\ (k - 1) + 1 = k
      BY <2>3, <1>0
    <3>2. B(k) = Len(f[k - 1]) /\ f[k - 1] \in Seq(Elem)
      <4>1. B((k - 1) + 1) = Len(f[k - 1])
        BY <3>1, <1>6, Zenon
      <4> QED BY <4>1, <3>1, <1>5, Zenon
    <3>3. B(k + 1) = Len(f[k - 1] \o ss[k])
      BY <3>1, <1>5, <1>6, Zenon
    <3>4. Len(f[k - 1] \o ss[k]) = Len(f[k - 1]) + Len(ss[k])
      BY <2>1, <3>2, ConcatLists, Zenon
    <3>5. Len(f[k - 1]) \in Nat
      BY <3>2
    <3> QED BY <3>2, <3>3, <3>4, <3>5, Zenon
  <2> QED BY <2>2, <2>3, Zenon
<1>9. ASSUME NEW k \in 1 .. n, NEW i \in 1 .. Len(ss[k]) PROVE Views[t][B(k) + i] = ss[k][i]
  <2>1. ss[k] \in Seq(Elem) /\ k \in 1 .. Len(ss)
    BY <1>1, <1>2, Zenon
  <2>2. PICK c \in Seq(Elem), e \in Seq(Elem) :
          /\ FlattenSeq(ss) = (c \o ss[k]) \o e
          /\ FlattenSeq(SubSeq(ss, 1, k)) = c \o ss[k]
    BY <2>1, <1>1, OneSegment, Zenon
  <2>3. c \o ss[k] \in Seq(Elem) /\ Len(c \o ss[k]) = Len(c) + Len(ss[k])
    BY <2>1, ConcatLists, Zenon
  <2>4. Len(c) \in Nat /\ Len(ss[k]) \in Nat /\ Len(e) \in Nat
    BY <2>1
  <2>5. B(k) = Len(c)
    <3>1. B(k + 1) = Len(c) + Len(ss[k])
      BY <2>2, <2>3, <1>p, Zenon DEF B
    <3>2. B(k) \in Nat /\ B(k + 1) = B(k) + Len(ss[k])
      BY <1>8, Zenon
    <3> QED BY ONLY <3>1, <3>2, <2>4, SMT
  <2>6. /\ Len(c) + i \in 1 .. (Len(c) + Len(ss[k])) + Len(e) /\ Len(c) + i \in 1 .. Len(c) + Len(ss[k])
        /\ Len(c) + i <= Len(c) + Len(ss[k]) /\ ~(Len(c) + i <= Len(c)) /\ (Len(c) + i) - Len(c) = i
    BY ONLY <2>4, i \in 1 .. Len(ss[k]), SMT
  <2>7. ((c \o ss[k]) \o e)[Len(c) + i] = (c \o ss[k])[Len(c) + i]
    BY <2>3, <2>6, ConcatLists, ZenonT(60)
  <2>8. (c \o ss[k])[Len(c) + i] = ss[k][i]
    <3>1. (c \o ss[k])[Len(c) + i] = IF Len(c) + i <= Len(c) THEN c[Len(c) + i]
                                      ELSE ss[k][(Len(c) + i) - Len(c)]
      BY <2>1, <2>6, ConcatLists, Zenon
    <3> QED BY <3>1, <2>6, Zenon
  <2> QED BY <2>2, <2>5, <2>7, <2>8, <1>1, Zenon
<1>10. Before(t, 1) = 0 /\ Before(t, n + 1) = Len(Views[t])
  BY <1>3, <1>7, Zenon DEF B
<1>11. ASSUME NEW k \in 1 .. n
       PROVE  /\ Before(t, k) \in Nat /\ Before(t, k + 1) = Before(t, k) + Len(Segment(t, k))
              /\ \A i \in 1 .. Len(Segment(t, k)) : Views[t][Before(t, k) + i] = Segment(t, k)[i]
  <2>1. ss[k] = Segment(t, k)
    BY <1>1, Zenon
  <2>2. B(k) \in Nat /\ B(k + 1) = B(k) + Len(ss[k])
    BY <1>8, Zenon
  <2>3. \A i \in 1 .. Len(ss[k]) : Views[t][B(k) + i] = ss[k][i]
    BY <1>9, Zenon
  <2> QED BY <2>1, <2>2, <2>3, Zenon DEF B
<1> QED BY <1>2, <1>10, <1>11, Zenon DEF n

\* Before grows with the node.
LEMMA BeforeGrows ==
  ASSUME nodes \in [Trace -> Seq(NodeId)], data \in Data, NEW t \in Trace, nodes[t] # <<>>,
         NEW j \in 1 .. Len(nodes[t]) + 1, NEW k \in 1 .. Len(nodes[t]) + 1, j <= k
  PROVE  Before(t, j) <= Before(t, k) /\ Before(t, j) \in Nat
<1> DEFINE n == Len(nodes[t])
<1> DEFINE B(i) == Before(t, i)
<1> DEFINE L(i) == Len(Segment(t, i))
<1>0. n \in Nat
  OBVIOUS
<1>1. ASSUME NEW i \in 1 .. n PROVE B(i) \in Nat /\ L(i) \in Nat /\ B(i + 1) = B(i) + L(i)
  <2>1. Segment(t, i) \in Seq(Elem) /\ B(i) \in Nat /\ B(i + 1) = B(i) + L(i)
    BY BeforeIs, Zenon
  <2> QED BY <2>1
<1> HIDE DEF n, B, L
<1>2. \A i \in 1 .. n + 1 : B(i) \in Nat
  <2> SUFFICES ASSUME NEW i \in 1 .. n + 1 PROVE B(i) \in Nat
    OBVIOUS
  <2>1. CASE i = n + 1
    <3>1. CASE n = 0
      BY <3>1 DEF n
    <3>2. CASE n # 0
      <4>1. n \in 1 .. n
        BY <3>2, <1>0
      <4>2. B(n) \in Nat /\ L(n) \in Nat /\ B(n + 1) = B(n) + L(n)
        BY <4>1, <1>1, Zenon
      <4> QED BY <2>1, <4>2
    <3> QED BY <3>1, <3>2
  <2>2. CASE i # n + 1
    <3>1. i \in 1 .. n
      BY <2>2, <1>0
    <3> QED BY <3>1, <1>1, Zenon
  <2> QED BY <2>1, <2>2
<1> DEFINE bad == {i \in 1 .. n + 1 : j <= i /\ ~(B(j) <= B(i))}
<1>3. bad = {}
  <2> SUFFICES ASSUME bad # {} PROVE FALSE
    OBVIOUS
  <2>1. bad \subseteq Nat
    BY <1>0
  <2>2. PICK i \in bad : \A h \in bad : i <= h
    <3> HIDE DEF bad
    <3> QED BY <2>1, LeastNatural, Zenon
  <2>3. i \in 1 .. n + 1 /\ j <= i /\ ~(B(j) <= B(i)) /\ B(i) \in Nat /\ B(j) \in Nat
    <3>1. j \in 1 .. n + 1
      BY DEF n
    <3> QED BY <3>1, <2>2, <1>2
  <2>4. i # j
    BY <2>3
  <2>5. i - 1 \in 1 .. n /\ i - 1 \in 1 .. n + 1 /\ j <= i - 1 /\ ~(i <= i - 1) /\ (i - 1) + 1 = i
    <3>1. j \in 1 .. n + 1
      BY DEF n
    <3> QED BY <2>3, <2>4, <3>1, <1>0
  <2>6. B(j) <= B(i - 1)
    <3>1. i - 1 \notin bad
      <4> HIDE DEF bad
      <4> QED BY <2>2, <2>5, Zenon
    <3> QED BY <3>1, <2>5, Zenon
  <2>7. B(i - 1) \in Nat /\ L(i - 1) \in Nat /\ B(i) = B(i - 1) + L(i - 1)
    <3>1. B((i - 1) + 1) = B(i - 1) + L(i - 1) /\ B(i - 1) \in Nat /\ L(i - 1) \in Nat
      BY <2>5, <1>1, Zenon
    <3> QED BY <3>1, <2>5, Zenon
  <2> QED BY ONLY <2>3, <2>6, <2>7, SMT
<1>4. j \in 1 .. n + 1 /\ k \in 1 .. n + 1
  BY DEF n
<1> QED BY <1>2, <1>3, <1>4, Zenon DEF B

\* What the proofs below use of a live trace: B counts the elements ahead of a node, L the
\* elements of a node.
LEMMA Layout ==
  ASSUME nodes \in [Trace -> Seq(NodeId)], data \in Data, NEW t \in Trace, nodes[t] # <<>>
  PROVE  /\ Len(nodes[t]) \in Nat \ {0} /\ DOMAIN nodes[t] = 1 .. Len(nodes[t])
         /\ Before(t, 1) = 0 /\ Before(t, Len(nodes[t]) + 1) = Len(Views[t])
         /\ \A k \in 1 .. Len(nodes[t]) :
              /\ Len(Segment(t, k)) \in Nat /\ (Segment(t, k) = <<>> <=> Len(Segment(t, k)) = 0)
              /\ Before(t, k + 1) = Before(t, k) + Len(Segment(t, k))
         /\ \A j, k \in 1 .. Len(nodes[t]) + 1 : j <= k => Before(t, j) <= Before(t, k)
         /\ \A k \in 1 .. Len(nodes[t]) + 1 : Before(t, k) \in Nat
<1>1. Len(nodes[t]) \in Nat \ {0} /\ DOMAIN nodes[t] = 1 .. Len(nodes[t])
  OBVIOUS
<1>2. \A k \in 1 .. Len(nodes[t]) : Segment(t, k) \in Seq(Elem)
  BY BeforeIs, Zenon
<1>3. \A k \in 1 .. Len(nodes[t]) :
        Len(Segment(t, k)) \in Nat /\ (Segment(t, k) = <<>> <=> Len(Segment(t, k)) = 0)
  BY <1>2
<1>4. \A k \in 1 .. Len(nodes[t]) : Before(t, k + 1) = Before(t, k) + Len(Segment(t, k))
  BY BeforeIs, Zenon
<1>5. Before(t, 1) = 0 /\ Before(t, Len(nodes[t]) + 1) = Len(Views[t])
  BY BeforeIs, Zenon
<1>6. \A j, k \in 1 .. Len(nodes[t]) + 1 : j <= k => Before(t, j) <= Before(t, k)
  BY BeforeGrows, Zenon
<1>7. \A k \in 1 .. Len(nodes[t]) + 1 : k <= k
  BY <1>1
<1>8. \A k \in 1 .. Len(nodes[t]) + 1 : Before(t, k) \in Nat
  BY <1>7, BeforeGrows, Zenon
<1> QED BY <1>1, <1>3, <1>4, <1>5, <1>6, <1>8, Zenon

\* getElementAt's loop finds element i of node k from its index.
LEMMA LocateAt ==
  ASSUME nodes \in [Trace -> Seq(NodeId)], data \in Data, NEW t \in Trace, nodes[t] # <<>>,
         NEW k \in 1 .. Len(nodes[t]), NEW i \in 1 .. Len(Segment(t, k))
  PROVE  Locate(t, Before(t, k) + (i - 1)) = <<k, i>>
<1> DEFINE n == Len(nodes[t])
<1> DEFINE B(j) == Before(t, j)
<1> DEFINE L(j) == Len(Segment(t, j))
<1> DEFINE idx == B(k) + (i - 1)
<1> DEFINE K == {j \in DOMAIN nodes[t] : idx < Before(t, j + 1)}
<1>1. /\ n \in Nat \ {0} /\ \A j \in 1 .. n : L(j) \in Nat /\ B(j + 1) = B(j) + L(j)
      /\ \A h, j \in 1 .. n + 1 : h <= j => B(h) <= B(j)
      /\ \A j \in 1 .. n + 1 : B(j) \in Nat
      /\ DOMAIN nodes[t] = 1 .. n
  BY Layout, Zenon
<1>2. k \in 1 .. n /\ i \in 1 .. L(k)
  OBVIOUS
<1>3. K = {j \in 1 .. n : idx < B(j + 1)}
  BY <1>1, Zenon
<1>4. Locate(t, idx) = <<Min(K), idx - B(Min(K)) + 1>>
  BY DEF Locate
<1> HIDE DEF n, B, L, K
<1>5. k \in K
  <2>1. B(k) \in Nat /\ L(k) \in Nat /\ B(k + 1) = B(k) + L(k)
    BY <1>1, <1>2
  <2>2. idx < B(k + 1)
    BY <2>1, <1>2
  <2> QED BY <2>2, <1>2, <1>3, Zenon
<1>6. ASSUME NEW j \in K PROVE k <= j
  <2>1. j \in 1 .. n /\ idx < B(j + 1)
    BY <1>3, Zenon
  <2>2. SUFFICES ASSUME j < k PROVE FALSE
    BY <2>1, <1>1, <1>2
  <2>3. j + 1 <= k /\ j + 1 \in 1 .. n + 1 /\ k \in 1 .. n + 1
    BY <2>1, <2>2, <1>1, <1>2
  <2>4. B(j + 1) <= B(k) /\ B(j + 1) \in Nat /\ B(k) \in Nat
    BY <2>3, <1>1, Zenon
  <2>5. L(k) \in Nat
    BY <1>1, <1>2, Zenon
  <2> QED BY <2>1, <2>4, <2>5, <1>2
<1>7. \A j \in K : (\A h \in K : j =< h) => j = k
  <2>1. \A j \in K : j \in Nat
    BY <1>1, <1>3
  <2> QED BY SMTT(30), <1>5, <1>6, <2>1, <1>2, <1>1
<1>8. Min(K) = k
  BY <1>5, <1>6, <1>7, Zenon DEF Min
<1>9. idx - B(k) + 1 = i
  <2>1. B(k) \in Nat /\ L(k) \in Nat
    <3>1. k \in 1 .. n + 1
      BY <1>1, <1>2
    <3> QED BY <3>1, <1>1, <1>2, ZenonT(60)
  <2> QED BY <2>1, <1>2
<1> HIDE DEF idx
<1>10. Locate(t, idx) = <<k, i>>
  BY <1>4, <1>8, <1>9, Zenon
<1> QED BY <1>10, Zenon DEF idx, B

\* Every index below the size is that of some element of some node.
LEMMA Located ==
  ASSUME nodes \in [Trace -> Seq(NodeId)], data \in Data, NEW t \in Trace, nodes[t] # <<>>,
         NEW idx \in Nat, idx < Len(Views[t])
  PROVE  \E k \in 1 .. Len(nodes[t]) : \E i \in 1 .. Len(Segment(t, k)) :
           idx = Before(t, k) + (i - 1) /\ Locate(t, idx) = <<k, i>>
<1> DEFINE n == Len(nodes[t])
<1> DEFINE B(j) == Before(t, j)
<1> DEFINE L(j) == Len(Segment(t, j))
<1> DEFINE K == {j \in 1 .. n : idx < B(j + 1)}
<1>1. /\ n \in Nat \ {0} /\ B(1) = 0 /\ B(n + 1) = Len(Views[t])
      /\ \A j \in 1 .. n : L(j) \in Nat /\ B(j + 1) = B(j) + L(j)
      /\ \A j \in 1 .. n + 1 : B(j) \in Nat
  BY Layout, Zenon
<1> HIDE DEF n, B, L
<1>2. n \in K /\ K \subseteq Nat
  <2>1. n \in 1 .. n
    BY <1>1
  <2> QED BY <2>1, <1>1
<1>3. PICK k \in K : \A j \in K : k <= j
  <2> HIDE DEF K
  <2> QED BY <1>2, LeastNatural, Zenon
<1>4. k \in 1 .. n /\ idx < B(k + 1) /\ k \in 1 .. n + 1
  BY <1>1, <1>3
<1>5. B(k) <= idx
  <2>1. CASE k = 1
    BY <2>1, <1>1
  <2>2. CASE k # 1
    <3>1. k - 1 \in 1 .. n /\ ~(k <= k - 1) /\ (k - 1) + 1 = k
      BY <2>2, <1>1, <1>4
    <3>2. k - 1 \notin K
      <4> HIDE DEF K
      <4> QED BY <3>1, <1>3, Zenon
    <3>3. ~(idx < B(k))
      BY <3>1, <3>2, Zenon
    <3>4. B(k) \in Nat
      BY <1>1, <1>4, Zenon
    <3> QED BY ONLY <3>3, <3>4, idx \in Nat, SMT
  <2> QED BY <2>1, <2>2
<1> DEFINE i == idx - B(k) + 1
<1>6. i \in 1 .. L(k) /\ idx = B(k) + (i - 1)
  <2>1. B(k) \in Nat /\ L(k) \in Nat /\ B(k + 1) = B(k) + L(k)
    BY <1>1, <1>4, Zenon
  <2> QED BY ONLY SMTT(30), <2>1, <1>4, <1>5, idx \in Nat
<1> HIDE DEF i
<1>7. k \in 1 .. Len(nodes[t]) /\ i \in 1 .. Len(Segment(t, k)) /\ idx = Before(t, k) + (i - 1)
  BY <1>4, <1>6, Zenon DEF n, B, L
<1>8. Locate(t, Before(t, k) + (i - 1)) = <<k, i>>
  BY <1>7, LocateAt, Zenon
<1> QED BY <1>7, <1>8, Zenon

\* With s2 for s, one element differs: the one at element i of s.
Replaced(c, s, s2, e, i) ==
  /\ Len(c) + i \in 1 .. Len((c \o s) \o e)
  /\ (c \o s) \o e \in Seq(Elem) /\ (c \o s2) \o e \in Seq(Elem)
  /\ Len((c \o s2) \o e) = Len((c \o s) \o e)
  /\ \A j \in 1 .. Len((c \o s) \o e) :
       ((c \o s2) \o e)[j] = IF j = Len(c) + i THEN s2[i] ELSE ((c \o s) \o e)[j]

\* Replacing an element of a segment replaces it in the whole.
LEMMA ReplaceInside ==
  ASSUME NEW c \in Seq(Elem), NEW s \in Seq(Elem), NEW e \in Seq(Elem),
         NEW i \in 1 .. Len(s), NEW s2 \in Seq(Elem), Len(s2) = Len(s),
         \A j \in 1 .. Len(s) : j # i => s2[j] = s[j]
  PROVE  Replaced(c, s, s2, e, i)
<1> DEFINE x == s2[i]
<1>1. /\ s2 \in Seq(Elem) /\ Len(s2) = Len(s) /\ s2[i] = x
      /\ \A j \in 1 .. Len(s) : j # i => s2[j] = s[j]
  OBVIOUS
<1>2. Len(c) \in Nat /\ Len(s) \in Nat /\ Len(e) \in Nat
  OBVIOUS
<1> DEFINE a == (c \o s) \o e
<1> DEFINE b == (c \o s2) \o e
<1> DEFINE m == (Len(c) + Len(s)) + Len(e)
<1>3. /\ c \o s \in Seq(Elem) /\ Len(c \o s) = Len(c) + Len(s)
      /\ \A j \in 1 .. Len(c) + Len(s) : (c \o s)[j] = IF j <= Len(c) THEN c[j] ELSE s[j - Len(c)]
  BY ConcatLists, Zenon
<1>4. /\ c \o s2 \in Seq(Elem) /\ Len(c \o s2) = Len(c) + Len(s)
      /\ \A j \in 1 .. Len(c) + Len(s) : (c \o s2)[j] = IF j <= Len(c) THEN c[j] ELSE s2[j - Len(c)]
  <2>1. /\ c \o s2 \in Seq(Elem) /\ Len(c \o s2) = Len(c) + Len(s2)
        /\ \A j \in 1 .. Len(c) + Len(s2) : (c \o s2)[j] = IF j <= Len(c) THEN c[j] ELSE s2[j - Len(c)]
    BY <1>1, ConcatLists, Zenon
  <2>2. Len(s2) = Len(s)
    BY <1>1, Zenon
  <2> QED BY ONLY <2>1, <2>2, Zenon
<1> DEFINE cs == c \o s
<1> DEFINE cs2 == c \o s2
<1> HIDE DEF cs, cs2
<1>5. /\ a \in Seq(Elem) /\ Len(a) = m
      /\ \A j \in 1 .. m : a[j] = IF j <= Len(c) + Len(s) THEN (c \o s)[j] ELSE e[j - (Len(c) + Len(s))]
  <2>1. /\ cs \o e \in Seq(Elem) /\ Len(cs \o e) = Len(cs) + Len(e)
        /\ \A j \in 1 .. Len(cs) + Len(e) : (cs \o e)[j] = IF j <= Len(cs) THEN cs[j] ELSE e[j - Len(cs)]
    <3>1. cs \in Seq(Elem)
      BY <1>3, Zenon DEF cs
    <3> QED BY <3>1, ConcatLists, Zenon
  <2>2. Len(cs) = Len(c) + Len(s)
    BY <1>3, Zenon DEF cs
  <2> QED BY ONLY <2>1, <2>2, Zenon DEF cs
<1>6. /\ b \in Seq(Elem) /\ Len(b) = m
      /\ \A j \in 1 .. m : b[j] = IF j <= Len(c) + Len(s) THEN (c \o s2)[j] ELSE e[j - (Len(c) + Len(s))]
  <2>1. /\ cs2 \o e \in Seq(Elem) /\ Len(cs2 \o e) = Len(cs2) + Len(e)
        /\ \A j \in 1 .. Len(cs2) + Len(e) : (cs2 \o e)[j] = IF j <= Len(cs2) THEN cs2[j] ELSE e[j - Len(cs2)]
    <3>1. cs2 \in Seq(Elem)
      BY <1>4, Zenon DEF cs2
    <3> QED BY <3>1, ConcatLists, Zenon
  <2>2. Len(cs2) = Len(c) + Len(s)
    BY <1>4, Zenon DEF cs2
  <2> QED BY ONLY <2>1, <2>2, Zenon DEF cs2
<1> DEFINE p == Len(c) + i
<1>7. p \in 1 .. m
  BY <1>2
<1> HIDE DEF a, b
<1>8. ASSUME NEW j \in 1 .. m PROVE b[j] = IF j = p THEN x ELSE a[j]
  <2>1. CASE j <= Len(c)
    <3>1. j \in 1 .. Len(c) + Len(s) /\ j <= Len(c) + Len(s) /\ j # p
      BY <2>1, <1>2
    <3> QED BY <2>1, <3>1, <1>3, <1>4, <1>5, <1>6, ZenonT(60)
  <2>2. CASE ~(j <= Len(c)) /\ j <= Len(c) + Len(s)
    <3>1. j \in 1 .. Len(c) + Len(s) /\ j - Len(c) \in 1 .. Len(s) /\ (j - Len(c) = i <=> j = p)
      BY <2>2, <1>2
    <3>2. b[j] = s2[j - Len(c)] /\ a[j] = s[j - Len(c)]
      BY <2>2, <3>1, <1>3, <1>4, <1>5, <1>6, ZenonT(60)
    <3> QED BY <3>1, <3>2, <1>1, Zenon
  <2>3. CASE ~(j <= Len(c) + Len(s))
    <3>1. j # p
      BY <2>3, <1>2
    <3> QED BY <2>3, <3>1, <1>5, <1>6, Zenon
  <2> QED BY <2>1, <2>2, <2>3, Zenon
<1> QED BY <1>5, <1>6, <1>7, <1>8, Zenon DEF a, b, Replaced

\* A write to element i of node k, which only t holds, replaces one element of t.
LEMMA WriteAt ==
  ASSUME Sharing, Counted, NEW t \in Trace, NEW k \in 1 .. Len(nodes[t]), OnlyRef(t, k),
         NEW i \in 1 .. Len(Segment(t, k)), NEW x \in Elem,
         Store(nodes, [data EXCEPT ![nodes[t][k]][i] = x]), size' = size
  PROVE  /\ \E j \in DOMAIN Views[t] : Views' = [Views EXCEPT ![t] = [Views[t] EXCEPT ![j] = x]]
         /\ Counted'
<1> DEFINE s == Segment(t, k)
<1> DEFINE v == [s EXCEPT ![i] = x]
<1> DEFINE d == [data EXCEPT ![nodes[t][k]] = v]
<1>1. nodes \in [Trace -> Seq(NodeId)] /\ data \in Data /\ size \in [Trace -> Nat]
  BY DEF Sharing, TypeOK, Counted
<1>2. nodes[t] \in Seq(NodeId) /\ nodes[t][k] \in NodeId
  BY <1>1
<1>3. s \in Seq(Elem)
  BY ZenonT(60), <1>1, <1>2 DEF Segment, Data
<1>4. Store(nodes, d)
  BY ZenonT(60), <1>1, <1>2 DEF Segment, Data
<1>5. i \in 1 .. Len(s)
  OBVIOUS
<1> HIDE DEF s
<1>6. /\ v \in Seq(Elem) /\ Len(v) = Len(s) /\ v[i] = x
      /\ \A j \in 1 .. Len(s) : j # i => v[j] = s[j]
  BY <1>3, <1>5
<1>7. size' = [size EXCEPT ![t] = size[t] + (Len(v) - Len(s))]
  <2>1. Len(s) \in Nat /\ size[t] \in Nat
    BY SMTT(30), <1>1, <1>3
  <2>2. size[t] + (Len(v) - Len(s)) = size[t]
    BY SMTT(30), <2>1, <1>6
  <2> QED BY <2>2, <1>1
<1> HIDE DEF v
<1>8. d \in Data /\ d[nodes[t][k]] = v /\ \A o \in NodeId : o # nodes[t][k] => d[o] = data[o]
  BY <1>1, <1>2, <1>6 DEF Data
<1> HIDE DEF d
<1>9. size' = [size EXCEPT ![t] = size[t] + (Len(d[nodes[t][k]]) - Len(Segment(t, k)))]
  BY ONLY <1>8, <1>7, Zenon DEF s
<1>10. PICK c \in Seq(Elem), e \in Seq(Elem) :
         /\ Views[t] = (c \o Segment(t, k)) \o e /\ (k = Len(nodes[t]) => e = <<>>)
         /\ Views' = [Views EXCEPT ![t] = (c \o d[nodes[t][k]]) \o e] /\ Counted'
  <2>1. d \in Data /\ \A o \in NodeId : o # nodes[t][k] => d[o] = data[o]
    BY <1>8, Zenon
  <2> QED BY ONLY ZenonT(60), Sharing, Counted, t \in Trace, k \in 1 .. Len(nodes[t]), OnlyRef(t, k),
                  <1>4, <2>1, <1>9, OwnNode, Zenon
<1>11. /\ Len(c) + i \in 1 .. Len((c \o s) \o e)
       /\ (c \o v) \o e = [(c \o s) \o e EXCEPT ![Len(c) + i] = x]
  <2>1. v \in Seq(Elem) /\ Len(v) = Len(s) /\ \A j \in 1 .. Len(s) : j # i => v[j] = s[j]
    BY <1>6, Zenon
  <2> DEFINE a == (c \o s) \o e
  <2> DEFINE b == (c \o v) \o e
  <2> DEFINE p == Len(c) + i
  <2>2. /\ p \in 1 .. Len(a) /\ a \in Seq(Elem) /\ b \in Seq(Elem) /\ Len(b) = Len(a)
        /\ \A j \in 1 .. Len(a) : b[j] = IF j = p THEN v[i] ELSE a[j]
    <3>1. Replaced(c, s, v, e, i)
      BY ONLY <1>3, <1>5, <2>1, ReplaceInside, Zenon
    <3> QED BY <3>1, Zenon DEF Replaced
  <2>3. v[i] = x
    BY <1>6, Zenon
  <2> HIDE DEF a, b, p
  <2>4. /\ DOMAIN a = 1 .. Len(a) /\ b = [j \in 1 .. Len(a) |-> b[j]]
        /\ \A j \in 1 .. Len(a) : b[j] = IF j = p THEN x ELSE a[j]
    BY ONLY <2>2, <2>3
  <2>5. [a EXCEPT ![p] = x] = [j \in 1 .. Len(a) |-> IF j = p THEN x ELSE a[j]]
    <3>1. DOMAIN a = 1 .. Len(a)
      BY <2>4, Zenon
    <3> QED BY ONLY <3>1, Zenon
  <2>6. b = [j \in 1 .. Len(a) |-> IF j = p THEN x ELSE a[j]]
    BY ONLY <2>4, SMT
  <2> QED BY <2>2, <2>5, <2>6, Zenon DEF a, b, p
<1>12. Views[t] = (c \o s) \o e
  BY <1>10, Zenon DEF s
<1>13. DOMAIN Views[t] = 1 .. Len((c \o s) \o e)
  <2>1. c \o s \in Seq(Elem)
    BY <1>3, ConcatLists, Zenon
  <2>2. (c \o s) \o e \in Seq(Elem)
    BY <2>1, ConcatLists, Zenon
  <2>3. Views[t] \in Seq(Elem) /\ Len(Views[t]) = Len((c \o s) \o e)
    BY <2>2, <1>12, Zenon
  <2> QED BY ONLY <2>3
<1>14. Views' = [Views EXCEPT ![t] = [Views[t] EXCEPT ![Len(c) + i] = x]]
  <2>1. Views' = [Views EXCEPT ![t] = (c \o v) \o e]
    BY <1>8, <1>10, Zenon
  <2>2. (c \o v) \o e = [Views[t] EXCEPT ![Len(c) + i] = x]
    BY <1>11, <1>12, Zenon
  <2> QED BY ONLY <2>1, <2>2, Zenon
<1>15. Len(c) + i \in DOMAIN Views[t]
  BY <1>11, <1>13, Zenon
<1> QED BY <1>10, <1>14, <1>15, Zenon

\* A write through getMutableElementPtr.
LEMMA WriteViews ==
  ASSUME Sharing, Counted, NEW t \in Trace, NEW x \in Elem, NEW idx \in 0 .. MaxSize - 1,
         Write(t, idx, x)
  PROVE  /\ \E j \in DOMAIN Views[t] : Views' = [Views EXCEPT ![t] = [Views[t] EXCEPT ![j] = x]]
         /\ Counted'
<1>1. nodes \in [Trace -> Seq(NodeId)] /\ data \in Data
  BY DEF Sharing, TypeOK, Counted
<1>2. /\ nodes[t] # <<>> /\ idx < size[t] /\ OnlyRef(t, Locate(t, idx)[1]) /\ size' = size
      /\ Store(nodes, [data EXCEPT ![nodes[t][Locate(t, idx)[1]]][Locate(t, idx)[2]] = x])
  BY DEF Write, Mutable, Live
<1>3. idx \in Nat /\ idx < Len(Views[t])
  <2>1. size[t] = Len(Views[t])
    BY <1>2, Zenon DEF Counted, Live
  <2> QED BY <2>1, <1>2, TraceAssumption
<1>4. PICK k \in 1 .. Len(nodes[t]) : \E i \in 1 .. Len(Segment(t, k)) :
        idx = Before(t, k) + (i - 1) /\ Locate(t, idx) = <<k, i>>
  BY <1>1, <1>2, <1>3, Located, ZenonT(60)
<1>5. PICK i \in 1 .. Len(Segment(t, k)) : Locate(t, idx) = <<k, i>>
  BY <1>4, Zenon
<1>6. Locate(t, idx)[1] = k /\ Locate(t, idx)[2] = i
  BY <1>5
<1>7. OnlyRef(t, k) /\ Store(nodes, [data EXCEPT ![nodes[t][k]][i] = x])
  BY <1>2, <1>6
<1> QED BY <1>2, <1>7, WriteAt, Zenon

\* A write through back().
LEMMA WriteBackViews ==
  ASSUME Sharing, Counted, NEW t \in Trace, NEW x \in Elem, WriteBack(t, x)
  PROVE  /\ \E j \in DOMAIN Views[t] : Views' = [Views EXCEPT ![t] = [Views[t] EXCEPT ![j] = x]]
         /\ Counted'
<1> DEFINE k == Len(nodes[t])
<1> DEFINE i == Len(Segment(t, k))
<1>1. nodes \in [Trace -> Seq(NodeId)] /\ data \in Data
  BY DEF Sharing, TypeOK, Counted
<1>2. /\ Live(t) /\ BackIsOwn(t) /\ size' = size
      /\ Store(nodes, [data EXCEPT ![nodes[t][BackPosition(t)[1]]][BackPosition(t)[2]] = x])
  BY DEF WriteBack
<1>3. k \in 1 .. Len(nodes[t]) /\ nodes[t][k] \in NodeId
  BY <1>1, <1>2 DEF Live
<1>4. i \in 1 .. Len(Segment(t, k))
  <2>1. Segment(t, k) \in Seq(Elem) /\ Segment(t, k) # <<>>
    BY <1>1, <1>2, <1>3 DEF Segment, Data, BackIsOwn, Back
  <2> QED BY SMTT(30), <2>1
<1>5. OnlyRef(t, k)
  BY <1>2, Zenon DEF Sharing, TailPrivate
<1>6. BackPosition(t) = <<k, i>>
  BY <1>2, BackInTail, Zenon
<1>7. BackPosition(t)[1] = k /\ BackPosition(t)[2] = i
  BY <1>6
<1> HIDE DEF k, i
<1>8. Store(nodes, [data EXCEPT ![nodes[t][k]][i] = x])
  BY <1>2, <1>7
<1> QED BY <1>2, <1>3, <1>4, <1>5, <1>8, WriteAt, ZenonT(60)

-----------------------------------------------------------------------------
(* The traces behave as plain sequences.                                     *)

\* Views is the mapping of ForkableTrace_refinement.
LEMMA ViewsAre == Views = [t \in Trace |-> IF Live(t) THEN Elements(t) ELSE None]
BY Zenon DEF Views, ViewOf, Contents, Live, Elements, Segments, Segment

\* A live trace shows a sequence, which None is not; where there is no trace it is None.
LEMMA ViewKinds ==
  ASSUME Sharing, Counted, NEW t \in Trace
  PROVE  /\ Live(t) => Views[t] \in Seq(Elem) /\ Views[t] # None /\ size[t] = Len(Views[t])
         /\ ~Live(t) => Views[t] = None
<1>1. nodes \in [Trace -> Seq(NodeId)] /\ data \in Data
  BY DEF Sharing, TypeOK, Counted
<1>2. nodes[t] \in Seq(NodeId) /\ Views[t] = ViewOf(nodes[t], data)
  BY <1>1 DEF Views
<1>3. ASSUME Live(t) PROVE Views[t] \in Seq(Elem) /\ size[t] = Len(Views[t])
  BY <1>1, <1>2, <1>3, ContentsTyped, Zenon DEF Live, Counted
<1>4. ASSUME ~Live(t) PROVE Views[t] = None
  BY <1>2, <1>4, Zenon DEF Live, ViewOf
<1> QED BY <1>3, <1>4, TraceAssumption, Zenon

\* What the abstract operations allow.
LEMMA Allowed ==
  ASSUME NEW v
  PROVE  /\ <<>> \in Plain!Results(v)
         /\ v # None => None \in Plain!Results(v)
         /\ v # None => Plain!Backwards(v) \in Plain!Results(v)
         /\ v # None => \A x \in Elem : Len(v) < MaxSize => Append(v, x) \in Plain!Results(v)
         /\ v # None => \A x \in Elem : \A i \in DOMAIN v : [v EXCEPT ![i] = x] \in Plain!Results(v)
<1>1. CASE v = None
  BY <1>1 DEF Plain!Results
<1>2. CASE v # None
  <2> DEFINE R == Plain!Results(v)
  <2> DEFINE A == {None, <<>>, Plain!Backwards(v)}
  <2> DEFINE P == {Append(v, x) : x \in {y \in Elem : Len(v) < MaxSize}}
  <2> DEFINE W == {[v EXCEPT ![i] = x] : i \in DOMAIN v, x \in Elem}
  <2>1. R = (A \cup P) \cup W
    BY <1>2 DEF Plain!Results
  <2>2. <<>> \in A /\ None \in A /\ Plain!Backwards(v) \in A
    BY Zenon
  <2>3. ASSUME NEW x \in Elem, Len(v) < MaxSize PROVE Append(v, x) \in P
    BY <2>3
  <2>4. ASSUME NEW x \in Elem, NEW i \in DOMAIN v PROVE [v EXCEPT ![i] = x] \in W
    OBVIOUS
  <2> HIDE DEF R, A, P, W
  <2>5. \A r : r \in A \/ r \in P \/ r \in W => r \in R
    BY <2>1, Zenon
  <2> QED BY <1>2, <2>2, <2>3, <2>4, <2>5, ZenonT(60) DEF R
<1> QED BY <1>1, <1>2, Zenon

\* The loop of reverse() yields the elements backwards.
LEMMA ReverseIs ==
  ASSUME NEW v \in Seq(Elem)
  PROVE  Reverse(v) = Plain!Backwards(v)
<1>1. Len(v) \in Nat
  OBVIOUS
<1>2. \A i \in 1 .. Len(v) : (Len(v) - i) + 1 = (Len(v) + 1) - i
  BY <1>1
<1> QED BY <1>1, <1>2 DEF Reverse, Plain!Backwards

\* Each operation does to the views what its abstract counterpart does, and keeps the counts.
LEMMA StepViews ==
  ASSUME Sharing, Counted, Next
  PROVE  /\ \E t \in Trace :
              \/ \E s \in Plain!Results(Views[t]) : Views' = [Views EXCEPT ![t] = s]
              \/ \E u \in Trace :
                   \/ /\ Views[t] # None /\ Views[u] = None
                      /\ Views' = [Views EXCEPT ![u] = Views[t]]
                   \/ /\ Views[t] # None /\ Views[u] # None
                      /\ Views' = [Views EXCEPT ![t] = Views[u], ![u] = Views[t]]
         /\ Counted'
<1> DEFINE One(t) == \E s \in Plain!Results(Views[t]) : Views' = [Views EXCEPT ![t] = s]
<1> DEFINE Copy(t, u) == /\ Views[t] # None /\ Views[u] = None
                         /\ Views' = [Views EXCEPT ![u] = Views[t]]
<1> DEFINE Exchange(t, u) == /\ Views[t] # None /\ Views[u] # None
                             /\ Views' = [Views EXCEPT ![t] = Views[u], ![u] = Views[t]]
<1>1. ASSUME NEW t \in Trace, Clear(t) PROVE One(t) /\ Counted'
  BY <1>1, ClearViews, Allowed, Zenon
<1>2. ASSUME NEW t \in Trace, Destroy(t) PROVE One(t) /\ Counted'
  <2>1. Views[t] # None
    BY <1>2, ViewKinds, Zenon DEF Destroy
  <2> QED BY <1>2, <2>1, DestroyViews, Allowed, Zenon
<1>3. ASSUME NEW t \in Trace, ReverseTrace(t) PROVE One(t) /\ Counted'
  <2>1. Views[t] # None /\ Views[t] \in Seq(Elem)
    BY <1>3, ViewKinds, Zenon DEF ReverseTrace
  <2>2. Reverse(Views[t]) \in Plain!Results(Views[t])
    BY <2>1, ReverseIs, Allowed, Zenon
  <2> QED BY <1>3, <2>2, ReverseViews, Zenon
<1>4. ASSUME NEW t \in Trace, NEW u \in Trace, Fork(t, u) PROVE Copy(t, u) /\ Counted'
  <2>1. Views[t] # None /\ Views[u] = None
    BY <1>4, ViewKinds, Zenon DEF Fork
  <2> QED BY <1>4, <2>1, ForkViews, ZenonT(60)
<1>5. ASSUME NEW t \in Trace, NEW u \in Trace, Swap(t, u) PROVE Exchange(t, u) /\ Counted'
  <2>1. Views[t] # None /\ Views[u] # None
    BY <1>5, ViewKinds, Zenon DEF Swap
  <2> QED BY <1>5, <2>1, SwapViews, ZenonT(60)
<1>6. ASSUME NEW t \in Trace, NEW x \in Elem, PushBack(t, x) PROVE One(t) /\ Counted'
  <2>1. Views[t] # None /\ Len(Views[t]) < MaxSize
    <3>1. Live(t) /\ size[t] < MaxSize
      BY <1>6 DEF PushBack
    <3> QED BY <3>1, ViewKinds, Zenon
  <2>2. Append(Views[t], x) \in Plain!Results(Views[t])
    BY <2>1, Allowed, Zenon
  <2> QED BY <1>6, <2>2, PushViews, ZenonT(60)
<1>7. ASSUME NEW t \in Trace, NEW x \in Elem,
             \E j \in DOMAIN Views[t] : Views' = [Views EXCEPT ![t] = [Views[t] EXCEPT ![j] = x]],
             Live(t)
      PROVE  One(t)
  <2>1. Views[t] # None
    BY <1>7, ViewKinds, Zenon
  <2>2. PICK j \in DOMAIN Views[t] : Views' = [Views EXCEPT ![t] = [Views[t] EXCEPT ![j] = x]]
    BY <1>7, Zenon
  <2>3. [Views[t] EXCEPT ![j] = x] \in Plain!Results(Views[t])
    BY <2>1, Allowed, Zenon
  <2> QED BY <2>2, <2>3, Zenon
<1>8. ASSUME NEW t \in Trace, NEW x \in Elem, WriteBack(t, x) PROVE One(t) /\ Counted'
  <2>1. Live(t)
    BY <1>8 DEF WriteBack
  <2> HIDE DEF One
  <2> QED BY <1>8, <2>1, <1>7, WriteBackViews, ZenonT(60)
<1>9. ASSUME NEW t \in Trace, NEW x \in Elem, NEW idx \in 0 .. MaxSize - 1, Write(t, idx, x)
      PROVE  One(t) /\ Counted'
  <2>1. Live(t)
    BY <1>9 DEF Write
  <2> HIDE DEF One
  <2> QED BY <1>9, <2>1, <1>7, WriteViews, ZenonT(60)
<1> HIDE DEF One, Copy, Exchange
<1>10. (\E t \in Trace : One(t) \/ \E u \in Trace : Copy(t, u) \/ Exchange(t, u)) /\ Counted'
  BY <1>1, <1>2, <1>3, <1>4, <1>5, <1>6, <1>8, <1>9, ZenonT(60) DEF Next
<1> QED BY <1>10, Zenon DEF One, Copy, Exchange

\* The counts are kept.
LEMMA CountedAlways == Spec => [](Sharing /\ Counted)
<1>1. Init => Counted
  <2> SUFFICES ASSUME Init PROVE Counted
    OBVIOUS
  <2>1. <<>> \in Seq(Elem) /\ data \in Data /\ size \in [Trace -> Nat] /\ \A n \in NodeId : data[n] = <<>>
    BY DEF Init, Data
  <2>2. \A t \in Trace : ~Live(t)
    BY DEF Init, Live
  <2> QED BY <2>1, <2>2, Zenon DEF Counted, Unused
<1>2. Sharing /\ Counted /\ [Next]_vars => Counted'
  <2> SUFFICES ASSUME Sharing, Counted, [Next]_vars PROVE Counted'
    OBVIOUS
  <2>1. CASE Next
    BY <2>1, StepViews, Zenon
  <2>2. CASE UNCHANGED vars
    BY <2>2 DEF vars, Counted, Unused, Live, Views, ViewOf, Contents
  <2> QED BY <2>1, <2>2, Zenon
<1> QED BY <1>1, <1>2, SharingAlways, PTL DEF Spec

\* Sharing nodes and cutting a trace into segments cannot be seen: under any sequence of
\* operations every trace behaves as a sequence of its own.
THEOREM TracesAreSequences == Spec => BehavesAsSequences
<1> DEFINE v == [t \in Trace |-> IF Live(t) THEN Elements(t) ELSE None]
<1>1. Init => Plain!Init
  <2> SUFFICES ASSUME Init PROVE v = [t \in Trace |-> None]
    BY DEF Plain!Init
  <2>1. \A t \in Trace : ~Live(t)
    BY DEF Init, Live
  <2> QED BY <2>1
<1>2. Sharing /\ Counted /\ [Next]_vars => [Plain!Next]_v
  <2> SUFFICES ASSUME Sharing, Counted, [Next]_vars PROVE Plain!Next \/ v' = v
    BY Zenon
  <2>1. Views = v /\ Views' = v'
    BY Zenon DEF Views, ViewOf, Contents, Live, Elements, Segments, Segment
  <2>2. CASE UNCHANGED vars
    <3>1. v' = v
      BY <2>2, Zenon DEF vars, Live, Elements, Segments, Segment
    <3> QED BY <3>1, Zenon
  <2>3. CASE Next
    <3>1. \E t \in Trace :
              \/ \E s \in Plain!Results(Views[t]) : Views' = [Views EXCEPT ![t] = s]
              \/ \E u \in Trace :
                   \/ /\ Views[t] # None /\ Views[u] = None
                      /\ Views' = [Views EXCEPT ![u] = Views[t]]
                   \/ /\ Views[t] # None /\ Views[u] # None
                      /\ Views' = [Views EXCEPT ![t] = Views[u], ![u] = Views[t]]
      BY <2>3, StepViews, Zenon
    <3>2. \E t \in Trace :
              \/ \E s \in Plain!Results(v[t]) : v' = [v EXCEPT ![t] = s]
              \/ \E u \in Trace :
                   \/ v[t] # None /\ v[u] = None /\ v' = [v EXCEPT ![u] = v[t]]
                   \/ v[t] # None /\ v[u] # None /\ v' = [v EXCEPT ![t] = v[u], ![u] = v[t]]
      <4> HIDE DEF v
      <4> QED BY <3>1, <2>1, Zenon
    <3>3. Plain!Next
      BY <3>2, Zenon DEF Plain!Next, Plain!Becomes, Plain!Fork, Plain!Swap
    <3> QED BY <3>3, Zenon
  <2> QED BY <2>2, <2>3, Zenon
<1> QED BY <1>1, <1>2, CountedAlways, PTL DEF Spec, BehavesAsSequences, Plain!Spec

-----------------------------------------------------------------------------
(* The iterators visit what getElementAt reads.                              *)

\* The iterator after idx steps from begin().
At(t, idx) == IF idx = Len(Views[t]) THEN End(t) ELSE Locate(t, idx)

\* Skipping forward over empty nodes from the start of node k leads to the element whose
\* index is the number of elements before that node.
LEMMA SkipForwardIs ==
  ASSUME nodes \in [Trace -> Seq(NodeId)], data \in Data, NEW t \in Trace, nodes[t] # <<>>,
         NEW k \in 1 .. Len(nodes[t]) + 1
  PROVE  SkipForwardOverEmptyNodes(t, k) = At(t, Before(t, k))
<1> DEFINE n == Len(nodes[t])
<1> DEFINE B(j) == Before(t, j)
<1> DEFINE L(j) == Len(Segment(t, j))
<1> DEFINE full == {j \in k .. n : Segment(t, j) # <<>>}
<1> DEFINE m == Len(Views[t])
<1>1. /\ n \in Nat \ {0} /\ B(n + 1) = m
      /\ \A j \in 1 .. n : L(j) \in Nat /\ (Segment(t, j) = <<>> <=> L(j) = 0) /\ B(j + 1) = B(j) + L(j)
      /\ \A h, j \in 1 .. n + 1 : h <= j => B(h) <= B(j)
      /\ \A j \in 1 .. n + 1 : B(j) \in Nat
  BY Layout, Zenon
<1>2. SkipForwardOverEmptyNodes(t, k) = IF full = {} THEN End(t) ELSE <<Min(full), 1>>
  BY Zenon DEF SkipForwardOverEmptyNodes
<1>3. k \in 1 .. n + 1
  OBVIOUS
<1>loc. ASSUME B(k) < m
        PROVE  \E j \in 1 .. n : \E i \in 1 .. L(j) : B(k) = B(j) + (i - 1) /\ Locate(t, B(k)) = <<j, i>>
  <2>1. B(k) \in Nat
    BY <1>1, <1>3, Zenon
  <2> QED BY <1>loc, <2>1, Located, ZenonT(60)
<1> HIDE DEF n, B, L, m
<1>4. CASE B(k) = m
  <2>1. ASSUME NEW j \in k .. n PROVE Segment(t, j) = <<>>
    <3>1. /\ j \in 1 .. n /\ j \in 1 .. n + 1 /\ j + 1 \in 1 .. n + 1 /\ n + 1 \in 1 .. n + 1
          /\ k <= j /\ j + 1 <= n + 1
      BY <1>1, <1>3
    <3>2. B(k) <= B(j) /\ B(j + 1) <= B(n + 1) /\ B(j) \in Nat /\ B(j + 1) \in Nat
      BY <3>1, <1>1, <1>3, Zenon
    <3>3. L(j) \in Nat /\ (Segment(t, j) = <<>> <=> L(j) = 0) /\ B(j + 1) = B(j) + L(j)
      BY <3>1, <1>1, Zenon
    <3>4. B(n + 1) = m /\ B(k) = m /\ B(k) \in Nat
      BY <1>1, <1>3, <1>4, ZenonT(60)
    <3>5. L(j) = 0
      BY ONLY SMTT(30), <3>2, <3>3, <3>4
    <3> QED BY <3>3, <3>5, Zenon
  <2>2. full = {}
    BY <2>1, Zenon
  <2> QED BY <2>2, <1>2, <1>4, ZenonT(60) DEF At, B, m
<1>5. CASE B(k) # m
  <2>1. B(k) < m
    <3>1. k <= n + 1 /\ n + 1 \in 1 .. n + 1
      BY <1>1, <1>3
    <3>2. B(k) <= B(n + 1) /\ B(k) \in Nat /\ B(n + 1) \in Nat /\ B(n + 1) = m
      BY <3>1, <1>1, <1>3, ZenonT(60)
    <3> QED BY ONLY SMTT(30), <3>2, <1>5
  <2>2. PICK j \in 1 .. n : \E i \in 1 .. L(j) : B(k) = B(j) + (i - 1) /\ Locate(t, B(k)) = <<j, i>>
    BY <2>1, <1>loc, Zenon
  <2>3. PICK i \in 1 .. L(j) : B(k) = B(j) + (i - 1) /\ Locate(t, B(k)) = <<j, i>>
    BY <2>2, Zenon
  <2>4. /\ L(j) \in Nat /\ (Segment(t, j) = <<>> <=> L(j) = 0) /\ B(j + 1) = B(j) + L(j)
        /\ B(j) \in Nat /\ B(k) \in Nat /\ j \in 1 .. n + 1 /\ j + 1 \in 1 .. n + 1
    <3>1. j \in 1 .. n + 1 /\ j + 1 \in 1 .. n + 1
      BY <1>1
    <3> QED BY <3>1, <1>1, <1>3, ZenonT(60)
  <2>num. /\ B(k) = B(j) + (i - 1) /\ B(j + 1) = B(j) + L(j)
          /\ L(j) \in Nat /\ B(j) \in Nat /\ B(k) \in Nat /\ B(j + 1) \in Nat
    BY <2>3, <2>4, <1>1, ZenonT(60)
  <2>place. B(k) < B(j + 1) /\ (B(k) <= B(j) => i = 1 /\ B(j) = B(k))
    <3>p. PlaceFacts(B(j), L(j), i, B(j + 1), B(k))
      BY ONLY <2>num, i \in 1 .. L(j), Places, ZenonT(60)
    <3> QED BY ONLY <3>p, Zenon DEF PlaceFacts
  <2>5. k <= j
    <3> SUFFICES ASSUME ~(k <= j) PROVE FALSE
      OBVIOUS
    <3>1. j + 1 <= k
      BY SMTT(30), <2>4, <1>1, <1>3
    <3>2. B(j + 1) <= B(k)
      BY <3>1, <2>4, <1>1, <1>3, ZenonT(60)
    <3> QED BY ONLY <3>2, <2>num, <2>place, NoneBetween, ZenonT(60)
  <2>6. i = 1 /\ B(j) = B(k)
    <3>1. B(k) <= B(j)
      BY <2>4, <2>5, <1>1, <1>3, ZenonT(60)
    <3> QED BY ONLY <3>1, <2>place, Zenon
  <2>7. j \in full
    <3>1. j \in k .. n /\ L(j) # 0
      BY SMTT(30), <2>4, <2>5, <1>1, <1>3
    <3> QED BY <3>1, <2>4, ZenonT(60)
  <2>8. ASSUME NEW h \in full PROVE j <= h
    <3>1. /\ h \in 1 .. n /\ h \in 1 .. n + 1 /\ h + 1 \in 1 .. n + 1 /\ k <= h
          /\ Segment(t, h) # <<>>
      BY SMTT(30), <1>1, <1>3
    <3> SUFFICES ASSUME ~(j <= h) PROVE FALSE
      OBVIOUS
    <3>2. h + 1 <= j
      BY SMTT(30), <3>1, <2>4, <1>1
    <3>3. B(k) <= B(h) /\ B(h + 1) <= B(j) /\ B(h) \in Nat
      BY <3>1, <3>2, <2>4, <1>1, <1>3, ZenonT(60)
    <3>4. L(h) \in Nat /\ (Segment(t, h) = <<>> <=> L(h) = 0) /\ B(h + 1) = B(h) + L(h)
      BY <3>1, <1>1, ZenonT(60)
    <3>5. L(h) = 0
      <4>1. B(h + 1) = B(h) + L(h) /\ L(h) \in Nat /\ B(j) = B(k) /\ B(k) \in Nat
        BY <3>4, <2>4, <2>6, ZenonT(60)
      <4>2. B(k) <= B(h) /\ B(h + 1) <= B(k) /\ B(h) \in Nat
        BY <3>3, <4>1, ZenonT(60)
      <4> QED BY ONLY <4>1, <4>2, NothingFits, ZenonT(60)
    <3> QED BY <3>1, <3>4, <3>5, ZenonT(60)
  <2>9. \A h \in full : (\A g \in full : h =< g) => h = j
    <3>1. \A h \in full : h \in Nat
      BY SMTT(30), <1>1, <1>3
    <3> QED BY SMTT(30), <3>1, <2>7, <2>8, <2>4
  <2> HIDE DEF full
  <2>10. Min(full) = j
    BY <2>7, <2>8, <2>9, ZenonT(60) DEF Min
  <2>11. full # {}
    BY <2>7, Zenon
  <2>12. Locate(t, B(k)) = <<j, 1>>
    BY <2>3, <2>6, Zenon
  <2> QED BY <2>10, <2>11, <2>12, <1>2, <1>5, ZenonT(60) DEF At, B, m
<1> QED BY <1>4, <1>5, Zenon

\* Skipping backward from the end of node k leads to the last element of the first k nodes.
LEMMA SkipBackwardIs ==
  ASSUME nodes \in [Trace -> Seq(NodeId)], data \in Data, NEW t \in Trace, nodes[t] # <<>>,
         NEW k \in 0 .. Len(nodes[t]), NEW idx \in Nat, idx + 1 = Before(t, k + 1)
  PROVE  SkipBackwardOverEmptyNodes(t, k) = Locate(t, idx)
<1> DEFINE n == Len(nodes[t])
<1> DEFINE B(j) == Before(t, j)
<1> DEFINE L(j) == Len(Segment(t, j))
<1> DEFINE full == {j \in 1 .. k : Segment(t, j) # <<>>}
<1> DEFINE m == Len(Views[t])
<1>1. /\ n \in Nat \ {0} /\ B(n + 1) = m
      /\ \A j \in 1 .. n : L(j) \in Nat /\ (Segment(t, j) = <<>> <=> L(j) = 0) /\ B(j + 1) = B(j) + L(j)
      /\ \A h, j \in 1 .. n + 1 : h <= j => B(h) <= B(j)
      /\ \A j \in 1 .. n + 1 : B(j) \in Nat
  BY Layout, Zenon
<1>2. SkipBackwardOverEmptyNodes(t, k)
        = IF full = {} THEN SkipForwardOverEmptyNodes(t, 1)
          ELSE <<Max(full), Len(Segment(t, Max(full)))>>
  BY Zenon DEF SkipBackwardOverEmptyNodes
<1>3. k \in 0 .. n /\ idx + 1 = B(k + 1)
  OBVIOUS
<1>loc. ASSUME idx < m
        PROVE  \E j \in 1 .. n : \E i \in 1 .. L(j) : idx = B(j) + (i - 1) /\ Locate(t, idx) = <<j, i>>
  BY <1>loc, Located, Zenon
<1> HIDE DEF n, B, L, m
<1>4. k + 1 \in 1 .. n + 1 /\ n + 1 \in 1 .. n + 1 /\ k + 1 <= n + 1
  BY <1>1, <1>3
<1>5. idx < m
  <2>1. B(k + 1) <= B(n + 1) /\ B(k + 1) \in Nat /\ B(n + 1) \in Nat /\ B(n + 1) = m
    BY <1>4, <1>1, Zenon
  <2> QED BY ONLY SMTT(30), <2>1, <1>3, idx \in Nat
<1>6. PICK j \in 1 .. n : \E i \in 1 .. L(j) : idx = B(j) + (i - 1) /\ Locate(t, idx) = <<j, i>>
  BY <1>5, <1>loc, Zenon
<1>7. PICK i \in 1 .. L(j) : idx = B(j) + (i - 1) /\ Locate(t, idx) = <<j, i>>
  BY <1>6, Zenon
<1>8. /\ L(j) \in Nat /\ (Segment(t, j) = <<>> <=> L(j) = 0) /\ B(j + 1) = B(j) + L(j)
      /\ B(j) \in Nat /\ B(k + 1) \in Nat /\ j \in 1 .. n + 1 /\ j + 1 \in 1 .. n + 1
  <2>1. j \in 1 .. n + 1 /\ j + 1 \in 1 .. n + 1
    BY <1>1
  <2> QED BY <2>1, <1>1, <1>4, ZenonT(60)
<1>num. /\ idx = B(j) + (i - 1) /\ idx + 1 = B(k + 1) /\ B(j + 1) = B(j) + L(j)
        /\ L(j) \in Nat /\ B(j) \in Nat /\ B(k + 1) \in Nat
  BY <1>3, <1>7, <1>8, ZenonT(60)
<1>place. B(j) < B(k + 1) /\ (B(j + 1) <= B(k + 1) => i = L(j) /\ B(j + 1) = B(k + 1))
  <2>1. /\ B(j) <= idx /\ idx \in Nat
        /\ B(j + 1) <= idx + 1 => i = L(j) /\ B(j + 1) = idx + 1
    <3>p. PlaceFacts(B(j), L(j), i, B(j + 1), idx)
      BY ONLY <1>num, i \in 1 .. L(j), Places, ZenonT(60)
    <3> QED BY ONLY <3>p, Zenon DEF PlaceFacts
  <2>2. B(j) < idx + 1
    BY ONLY <2>1, <1>num, LessNext, ZenonT(60)
  <2> QED BY ONLY <2>1, <2>2, <1>num, ZenonT(60)
<1>9. j <= k
  <2> SUFFICES ASSUME ~(j <= k) PROVE FALSE
    OBVIOUS
  <2>1. k + 1 <= j
    BY SMTT(30), <1>8, <1>1, <1>3
  <2>2. B(k + 1) <= B(j)
    BY <2>1, <1>8, <1>1, <1>4, ZenonT(60)
  <2> QED BY ONLY <2>2, <1>num, <1>place, NoneBetween, ZenonT(60)
<1>10. i = L(j) /\ B(j + 1) = B(k + 1)
  <2>1. j + 1 <= k + 1
    BY SMTT(30), <1>9, <1>8, <1>1, <1>3
  <2>2. B(j + 1) <= B(k + 1)
    BY <2>1, <1>8, <1>4, <1>1, ZenonT(60)
  <2> QED BY ONLY <2>2, <1>place, ZenonT(60)
<1>11. j \in full
  <2>1. j \in 1 .. k /\ L(j) # 0
    BY SMTT(30), <1>8, <1>9, <1>1, <1>3
  <2> QED BY <2>1, <1>8, ZenonT(60)
<1>12. ASSUME NEW h \in full PROVE h <= j
  <2>1. /\ h \in 1 .. n /\ h \in 1 .. n + 1 /\ h + 1 \in 1 .. n + 1 /\ h + 1 <= k + 1
        /\ Segment(t, h) # <<>>
    <3>1. h \in 1 .. k /\ Segment(t, h) # <<>>
      BY Zenon
    <3>2. n \in Nat /\ k \in 0 .. n /\ h \in 1 .. k
      BY <3>1, <1>1, <1>3, ZenonT(60)
    <3>3. h \in 1 .. n /\ h \in 1 .. n + 1 /\ h + 1 \in 1 .. n + 1 /\ h + 1 <= k + 1
      BY ONLY <3>2, SMT
    <3> QED BY <3>1, <3>3, Zenon
  <2> SUFFICES ASSUME ~(h <= j) PROVE FALSE
    OBVIOUS
  <2>2. j + 1 <= h
    BY SMTT(30), <2>1, <1>8, <1>1
  <2>3. B(j + 1) <= B(h) /\ B(h + 1) <= B(k + 1) /\ B(h) \in Nat
    BY <2>1, <2>2, <1>4, <1>8, <1>1, ZenonT(60)
  <2>4. L(h) \in Nat /\ (Segment(t, h) = <<>> <=> L(h) = 0) /\ B(h + 1) = B(h) + L(h)
    BY <2>1, <1>1, Zenon
  <2>5. L(h) = 0
    <3>1. B(h + 1) = B(h) + L(h) /\ L(h) \in Nat /\ B(j + 1) = B(k + 1) /\ B(k + 1) \in Nat
      BY <2>4, <1>8, <1>10, ZenonT(60)
    <3>2. B(k + 1) <= B(h) /\ B(h + 1) <= B(k + 1) /\ B(h) \in Nat
      BY <2>3, <3>1, ZenonT(60)
    <3> QED BY ONLY <3>1, <3>2, NothingFits, ZenonT(60)
  <2> QED BY <2>1, <2>4, <2>5, Zenon
<1>13. \A h \in full : (\A g \in full : h >= g) => h = j
  <2>1. \A h \in full : h \in Nat
    BY SMTT(30), <1>1, <1>3
  <2> QED BY SMTT(30), <2>1, <1>11, <1>12, <1>8
<1>14. \A h \in full : j >= h
  <2>1. \A h \in full : h \in Nat
    BY <1>1, <1>3
  <2> QED BY ZenonT(60), <2>1, <1>12, <1>8
<1> HIDE DEF full
<1>15. Max(full) = j
  BY <1>11, <1>13, <1>14, ZenonT(60) DEF Max
<1>16. full # {}
  BY <1>11, Zenon
<1>17. Locate(t, idx) = <<j, Len(Segment(t, j))>>
  BY <1>7, <1>10, Zenon DEF L
<1> QED BY <1>15, <1>16, <1>17, <1>2, ZenonT(60)

\* operator++ goes from the element at idx to the next, or to end() from the last.
LEMMA IncrementIs ==
  ASSUME nodes \in [Trace -> Seq(NodeId)], data \in Data, NEW t \in Trace, nodes[t] # <<>>,
         NEW idx \in Nat, idx < Len(Views[t])
  PROVE  Increment(t, At(t, idx)) = At(t, idx + 1)
<1> DEFINE n == Len(nodes[t])
<1> DEFINE B(j) == Before(t, j)
<1> DEFINE L(j) == Len(Segment(t, j))
<1>1. /\ n \in Nat \ {0} /\ B(n + 1) = Len(Views[t])
      /\ \A j \in 1 .. n : L(j) \in Nat /\ B(j + 1) = B(j) + L(j)
      /\ \A h, j \in 1 .. n + 1 : h <= j => B(h) <= B(j)
      /\ \A j \in 1 .. n + 1 : B(j) \in Nat
  BY Layout, Zenon
<1>2. PICK k \in 1 .. n : \E i \in 1 .. L(k) : idx = B(k) + (i - 1) /\ Locate(t, idx) = <<k, i>>
  BY Located, Zenon
<1>3. PICK i \in 1 .. L(k) : idx = B(k) + (i - 1) /\ Locate(t, idx) = <<k, i>>
  BY <1>2, Zenon
<1>4. At(t, idx) = <<k, i>>
  <2>1. Len(Views[t]) \in Nat
    <3>1. n + 1 \in 1 .. n + 1
      BY <1>1
    <3> QED BY <3>1, <1>1, Zenon
  <2>2. idx # Len(Views[t])
    BY <2>1
  <2> QED BY <2>2, <1>3, Zenon DEF At
<1>5. Increment(t, <<k, i>>) = IF i < L(k) THEN <<k, i + 1>> ELSE SkipForwardOverEmptyNodes(t, k + 1)
  BY DEF Increment
<1>6. L(k) \in Nat /\ B(k) \in Nat /\ B(k + 1) = B(k) + L(k) /\ B(k + 1) \in Nat /\ k + 1 \in 1 .. n + 1
  <2>1. k \in 1 .. n + 1 /\ k + 1 \in 1 .. n + 1
    BY <1>1
  <2> QED BY <2>1, <1>1, Zenon
<1>skip. SkipForwardOverEmptyNodes(t, k + 1) = At(t, B(k + 1))
  BY <1>6, SkipForwardIs, Zenon
<1>loc. ASSUME i + 1 \in 1 .. L(k) PROVE Locate(t, B(k) + ((i + 1) - 1)) = <<k, i + 1>>
  BY <1>loc, LocateAt, Zenon
<1> HIDE DEF n, B, L
<1>num. /\ idx = B(k) + (i - 1) /\ B(k + 1) = B(k) + L(k)
        /\ L(k) \in Nat /\ B(k) \in Nat /\ B(k + 1) \in Nat
  BY <1>3, <1>6, Zenon
<1>7. CASE i < L(k)
  <2>1. i + 1 \in 1 .. L(k) /\ B(k) + ((i + 1) - 1) = idx + 1 /\ idx + 1 < B(k + 1)
    <3>p. PlaceFacts(B(k), L(k), i, B(k + 1), idx)
      BY ONLY <1>num, i \in 1 .. L(k), Places, Zenon
    <3> QED BY ONLY <3>p, <1>7, Zenon DEF PlaceFacts
  <2>2. Locate(t, idx + 1) = <<k, i + 1>>
    BY <2>1, <1>loc, Zenon
  <2>3. idx + 1 # Len(Views[t])
    <3>1. k + 1 <= n + 1 /\ n + 1 \in 1 .. n + 1
      BY <1>1, <1>6
    <3>2. B(k + 1) <= B(n + 1) /\ B(n + 1) \in Nat
      BY <3>1, <1>1, <1>6, Zenon
    <3>3. idx + 1 # B(n + 1)
      <4>1. idx + 1 < B(k + 1) /\ B(k + 1) \in Nat
        BY <2>1, <1>6, Zenon
      <4> QED BY ONLY <3>2, <4>1, idx \in Nat, BelowBound, ZenonT(60)
    <3> QED BY <3>3, <1>1, ZenonT(60)
  <2> QED BY <2>2, <2>3, <1>4, <1>5, <1>7, ZenonT(60) DEF At
<1>8. CASE ~(i < L(k))
  <2>1. B(k + 1) = idx + 1
    <3>p. PlaceFacts(B(k), L(k), i, B(k + 1), idx)
      BY ONLY <1>num, i \in 1 .. L(k), Places, Zenon
    <3> QED BY ONLY <3>p, <1>8, ZenonT(60) DEF PlaceFacts
  <2> QED BY <2>1, <1>skip, <1>4, <1>5, <1>8, ZenonT(60)
<1> QED BY <1>7, <1>8, Zenon

\* operator-- goes back to where operator++ came from.
LEMMA DecrementIs ==
  ASSUME nodes \in [Trace -> Seq(NodeId)], data \in Data, NEW t \in Trace, nodes[t] # <<>>,
         NEW idx \in Nat, idx < Len(Views[t])
  PROVE  Decrement(t, At(t, idx + 1)) = At(t, idx)
<1> DEFINE n == Len(nodes[t])
<1> DEFINE B(j) == Before(t, j)
<1> DEFINE L(j) == Len(Segment(t, j))
<1> DEFINE m == Len(Views[t])
<1>1. /\ n \in Nat \ {0} /\ B(n + 1) = m
      /\ \A j \in 1 .. n : L(j) \in Nat /\ B(j + 1) = B(j) + L(j)
      /\ \A j \in 1 .. n + 1 : B(j) \in Nat
  BY Layout, Zenon
<1>2. m \in Nat
  <2>1. n + 1 \in 1 .. n + 1
    BY <1>1
  <2> QED BY <2>1, <1>1, Zenon
<1>3. At(t, idx) = Locate(t, idx)
  <2>1. idx # Len(Views[t])
    BY <1>2
  <2> QED BY <2>1, Zenon DEF At
<1>back. ASSUME NEW k \in 0 .. n, idx + 1 = B(k + 1)
         PROVE  SkipBackwardOverEmptyNodes(t, k) = Locate(t, idx)
  BY <1>back, SkipBackwardIs, Zenon
<1>4. CASE idx + 1 = m
  <2>1. At(t, idx + 1) = End(t)
    BY <1>4, Zenon DEF At
  <2>2. End(t)[1] - 1 = n
    BY <1>1 DEF End
  <2>3. Decrement(t, End(t)) = SkipBackwardOverEmptyNodes(t, n)
    BY <2>2, Zenon DEF Decrement
  <2>4. n \in 0 .. n /\ idx + 1 = B(n + 1)
    <3>1. n \in 0 .. n
      BY <1>1
    <3> QED BY <3>1, <1>1, <1>4, Zenon
  <2> QED BY <2>1, <2>3, <2>4, <1>3, <1>back, ZenonT(60)
<1>5. CASE idx + 1 # m
  <2>1. idx + 1 \in Nat /\ idx + 1 < m
    BY <1>2, <1>5
  <2>2. PICK k \in 1 .. n : \E i \in 1 .. L(k) :
          idx + 1 = B(k) + (i - 1) /\ Locate(t, idx + 1) = <<k, i>>
    BY <2>1, Located, Zenon
  <2>3. PICK i \in 1 .. L(k) : idx + 1 = B(k) + (i - 1) /\ Locate(t, idx + 1) = <<k, i>>
    BY <2>2, Zenon
  <2>4. At(t, idx + 1) = <<k, i>>
    BY <2>3, <1>5, Zenon DEF At
  <2>5. L(k) \in Nat /\ B(k) \in Nat
    <3>1. k \in 1 .. n + 1
      BY <1>1
    <3> QED BY <3>1, <1>1, Zenon
  <2>6. <<k, i>> # End(t)
    <3>1. k # n + 1
      BY <1>1
    <3> QED BY <3>1 DEF End
  <2>7. Decrement(t, <<k, i>>) = IF i = 1 THEN SkipBackwardOverEmptyNodes(t, k - 1) ELSE <<k, i - 1>>
    BY <2>6 DEF Decrement
  <2>loc. ASSUME i - 1 \in 1 .. L(k) PROVE Locate(t, B(k) + ((i - 1) - 1)) = <<k, i - 1>>
    BY <2>loc, LocateAt, ZenonT(60)
  <2> HIDE DEF n, B, L, m
  <2>num. idx + 1 = B(k) + (i - 1) /\ L(k) \in Nat /\ B(k) \in Nat
    BY <2>3, <2>5, ZenonT(60)
  <2>8. CASE i = 1
    <3>1. k - 1 \in 0 .. n /\ idx + 1 = B((k - 1) + 1)
      <4>1. k - 1 \in 0 .. n /\ (k - 1) + 1 = k
        BY <1>1
      <4>2. idx + 1 = B(k)
        <5>p. PlaceFacts(B(k), L(k), i, B(k) + L(k), idx + 1)
          BY ONLY <2>num, i \in 1 .. L(k), Places, ZenonT(60)
        <5> QED BY ONLY <5>p, <2>8, Zenon DEF PlaceFacts
      <4> QED BY <4>1, <4>2, ZenonT(60)
    <3> QED BY <3>1, <2>4, <2>7, <2>8, <1>3, <1>back, ZenonT(60)
  <2>9. CASE i # 1
    <3>1. i - 1 \in 1 .. L(k) /\ B(k) + ((i - 1) - 1) = idx
      <4>1. i - 1 \in 1 .. L(k) /\ B(k) + ((i - 1) - 1) = (idx + 1) - 1
        <5>p. PlaceFacts(B(k), L(k), i, B(k) + L(k), idx + 1)
          BY ONLY <2>num, i \in 1 .. L(k), Places, Zenon
        <5> QED BY ONLY <5>p, <2>9, ZenonT(60) DEF PlaceFacts
      <4>2. (idx + 1) - 1 = idx
        BY ONLY idx \in Nat, SMT
      <4> QED BY ONLY <4>1, <4>2, Zenon
    <3> QED BY <3>1, <2>loc, <2>4, <2>7, <2>9, <1>3, ZenonT(60)
  <2> QED BY <2>8, <2>9, Zenon
<1> QED BY <1>4, <1>5, Zenon

\* The recursion of AccessesAgree: stepping from begin() visits the elements in order.
LEMMA ForwardIs ==
  ASSUME nodes \in [Trace -> Seq(NodeId)], data \in Data, NEW t \in Trace, nodes[t] # <<>>,
         NEW f, \A i \in 0 .. Len(Views[t]) :
                  f[i] = IF i = 0 THEN Begin(t) ELSE Increment(t, f[i - 1])
  PROVE  \A i \in 0 .. Len(Views[t]) : f[i] = At(t, i)
<1> DEFINE m == Len(Views[t])
<1>0. m \in Nat /\ Before(t, 1) = 0 /\ Len(nodes[t]) \in Nat
  <2>1. Len(nodes[t]) \in Nat /\ Before(t, 1) = 0 /\ Before(t, Len(nodes[t]) + 1) = Len(Views[t])
        /\ \A k \in 1 .. Len(nodes[t]) + 1 : Before(t, k) \in Nat
    BY Layout, Zenon
  <2>2. Len(nodes[t]) + 1 \in 1 .. Len(nodes[t]) + 1
    BY <2>1
  <2> QED BY <2>1, <2>2, Zenon
<1>1. \A i \in 0 .. m : f[i] = IF i = 0 THEN Begin(t) ELSE Increment(t, f[i - 1])
  OBVIOUS
<1>2. Begin(t) = At(t, 0)
  <2>1. 1 \in 1 .. Len(nodes[t]) + 1
    BY <1>0
  <2>2. SkipForwardOverEmptyNodes(t, 1) = At(t, Before(t, 1))
    BY <2>1, SkipForwardIs, Zenon
  <2> QED BY <2>2, <1>0, ZenonT(60) DEF Begin
<1> DEFINE bad == {i \in 0 .. m : f[i] # At(t, i)}
<1> SUFFICES ASSUME bad # {} PROVE FALSE
  BY Zenon
<1>3. bad \subseteq Nat
  BY <1>0
<1>4. PICK i \in bad : \A j \in bad : i <= j
  <2> HIDE DEF bad
  <2> QED BY <1>3, LeastNatural, Zenon
<1>5. i \in 0 .. m /\ f[i] # At(t, i)
  BY <1>4, Zenon
<1>6. i # 0
  BY <1>1, <1>2, <1>5, Zenon
<1>7. i - 1 \in 0 .. m /\ i - 1 \in Nat /\ i - 1 < m /\ ~(i <= i - 1) /\ (i - 1) + 1 = i
  BY ONLY SMTT(30), <1>0, <1>5, <1>6
<1>8. f[i - 1] = At(t, i - 1)
  <2>1. i - 1 \notin bad
    <3> HIDE DEF bad
    <3> QED BY <1>4, <1>7, Zenon
  <2> QED BY <2>1, <1>7, Zenon
<1>9. Increment(t, At(t, i - 1)) = At(t, (i - 1) + 1)
  BY <1>7, IncrementIs, Zenon
<1>10. f[i] = Increment(t, f[i - 1])
  BY <1>1, <1>5, <1>6, Zenon
<1>11. f[i] = At(t, i)
  BY <1>7, <1>8, <1>9, <1>10, ZenonT(60)
<1> QED BY <1>5, <1>11, Zenon

\* Every way to read a trace agrees, in a state of the invariant.
LEMMA ReadsOfState ==
  ASSUME Sharing, Counted
  PROVE  AccessesAgree
<1> SUFFICES ASSUME NEW t \in Trace, Live(t)
             PROVE  LET forward[i \in 0 .. size[t]] ==
                          IF i = 0 THEN Begin(t) ELSE Increment(t, forward[i - 1])
                    IN  /\ forward[size[t]] = End(t)
                        /\ \A i \in 0 .. size[t] - 1 :
                             /\ forward[i] = Locate(t, i)
                             /\ Decrement(t, forward[i + 1]) = forward[i]
                             /\ GetElementAt(t, i) = Elements(t)[i + 1]
  BY Zenon DEF AccessesAgree
<1> DEFINE m == size[t]
<1> DEFINE Step(f) == [i \in 0 .. m |-> IF i = 0 THEN Begin(t) ELSE Increment(t, f[i - 1])]
<1> DEFINE g == [i \in 0 .. m |-> At(t, i)]
<1>1. nodes \in [Trace -> Seq(NodeId)] /\ data \in Data /\ nodes[t] # <<>>
  BY DEF Sharing, TypeOK, Counted, Live
<1>2. m = Len(Views[t]) /\ m \in Nat /\ Views[t] = Elements(t)
  BY ViewsAre DEF Counted, Live
<1> HIDE DEF m
<1>3. g = Step(g)
  <2>1. ASSUME NEW i \in 0 .. m PROVE At(t, i) = IF i = 0 THEN Begin(t) ELSE Increment(t, g[i - 1])
    <3>1. CASE i = 0
      <4>1. Len(nodes[t]) \in Nat /\ Before(t, 1) = 0
        BY <1>1, Layout, Zenon
      <4>2. 1 \in 1 .. Len(nodes[t]) + 1
        BY <4>1
      <4>3. SkipForwardOverEmptyNodes(t, 1) = At(t, Before(t, 1))
        BY <1>1, <4>2, SkipForwardIs, Zenon
      <4> QED BY <3>1, <4>1, <4>3, Zenon DEF Begin
    <3>2. CASE i # 0
      <4>1. i - 1 \in 0 .. m /\ i - 1 \in Nat /\ i - 1 < m /\ (i - 1) + 1 = i
        BY <3>2, <1>2
      <4>2. g[i - 1] = At(t, i - 1)
        BY <4>1, Zenon
      <4>3. Increment(t, At(t, i - 1)) = At(t, (i - 1) + 1)
        BY <1>1, <1>2, <4>1, IncrementIs, ZenonT(60)
      <4> QED BY <3>2, <4>1, <4>2, <4>3, ZenonT(60)
    <3> QED BY <3>1, <3>2, Zenon
  <2> QED BY <2>1, Zenon
<1> DEFINE forward == CHOOSE f : f = Step(f)
<1>4. forward = Step(forward)
  <2> HIDE DEF Step, g
  <2> QED BY <1>3, Zenon
<1> HIDE DEF g, forward
<1>5. \A i \in 0 .. m : forward[i] = At(t, i)
  <2>1. m = Len(Views[t])
    BY <1>2, Zenon
  <2>2. \A i \in 0 .. m : forward[i] = IF i = 0 THEN Begin(t) ELSE Increment(t, forward[i - 1])
    <3> DEFINE h == forward
    <3>1. h = [i \in 0 .. m |-> IF i = 0 THEN Begin(t) ELSE Increment(t, forward[i - 1])]
      BY <1>4, Zenon
    <3> HIDE DEF h
    <3>2. \A i \in 0 .. m : h[i] = IF i = 0 THEN Begin(t) ELSE Increment(t, forward[i - 1])
      BY <3>1
    <3> QED BY <3>2, Zenon DEF h
  <2> QED BY ONLY t \in Trace, <1>1, <2>1, <2>2, ForwardIs, ZenonT(60)
<1>6. forward[m] = End(t)
  <2>1. m \in 0 .. m
    BY <1>2
  <2> QED BY <2>1, <1>2, <1>5, Zenon DEF At
<1>7. ASSUME NEW i \in 0 .. m - 1
      PROVE  /\ forward[i] = Locate(t, i)
             /\ Decrement(t, forward[i + 1]) = forward[i]
             /\ GetElementAt(t, i) = Elements(t)[i + 1]
  <2>1. i \in 0 .. m /\ i + 1 \in 0 .. m /\ i \in Nat /\ i < m /\ i # m
    BY <1>2
  <2>2. forward[i] = At(t, i) /\ forward[i + 1] = At(t, i + 1)
    BY <2>1, <1>5, Zenon
  <2>3. At(t, i) = Locate(t, i)
    BY <2>1, <1>2, Zenon DEF At
  <2>4. Decrement(t, At(t, i + 1)) = At(t, i)
    BY <2>1, <1>1, <1>2, DecrementIs, ZenonT(60)
  <2>5. GetElementAt(t, i) = Elements(t)[i + 1]
    <3>1. PICK k \in 1 .. Len(nodes[t]) : \E p \in 1 .. Len(Segment(t, k)) :
            i = Before(t, k) + (p - 1) /\ Locate(t, i) = <<k, p>>
      BY <2>1, <1>1, <1>2, Located, ZenonT(60)
    <3>2. PICK p \in 1 .. Len(Segment(t, k)) : i = Before(t, k) + (p - 1) /\ Locate(t, i) = <<k, p>>
      BY <3>1, Zenon
    <3>3. /\ Segment(t, k) \in Seq(Elem) /\ Before(t, k) \in Nat
          /\ Views[t][Before(t, k) + p] = Segment(t, k)[p]
      BY <1>1, BeforeIs, Zenon
    <3>4. Before(t, k) + p = i + 1
      BY <3>2, <3>3
    <3>5. GetElementAt(t, i) = Segment(t, k)[p]
      <4>1. Locate(t, i)[1] = k /\ Locate(t, i)[2] = p
        BY <3>2
      <4> QED BY <4>1, Zenon DEF GetElementAt
    <3> QED BY <3>3, <3>4, <3>5, <1>2, ZenonT(60)
  <2> QED BY <2>2, <2>3, <2>4, <2>5, ZenonT(60)
<1> QED BY <1>6, <1>7, Zenon DEF m, forward, Step

\* getElementAt, the iterators in both directions and the sequence a trace stands for
\* agree, however forks have cut the trace into nodes and however many of them are empty.
THEOREM ReadsAgree == Spec => []AccessesAgree
<1>1. Sharing /\ Counted => AccessesAgree
  BY ReadsOfState
<1> QED BY <1>1, CountedAlways, PTL
=============================================================================
