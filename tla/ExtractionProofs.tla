-------------------------- MODULE ExtractionProofs --------------------------
(***************************************************************************)
(* No file's extraction leaves a reference or a contains edge without a    *)
(* node at its end (NothingDangles), for every file in every language but  *)
(* Erlang, however it is nested and whatever is missing from it.           *)
(*                                                                         *)
(* The steps of a handler are data here, so the argument is about what is  *)
(* to come.  A step is Good for a set K of nodes if it names nodes of K    *)
(* only, and what follows a declaration names those of K and what has been *)
(* declared (GoodStep, by the sets that contain every step below it).      *)
(* Each walker is shown to make good steps of any node of a tree and any   *)
(* stack and nodes it may see: one lemma for each of its handlers, in      *)
(* every language.  With that the invariant is inductive (IInv): what is   *)
(* made so far hangs together, what is to come is good, and the stack is   *)
(* popped no more often than it is pushed (Balanced).                      *)
(*                                                                         *)
(* Walks and unfoldings of a tree are recursive functions over its height, *)
(* so the module begins with induction: no set of numbers without a least  *)
(* one, and every recursion over the numbers has a solution.               *)
(***************************************************************************)
EXTENDS Extraction, SequenceTheorems, WellFoundedInduction, TLAPS

-----------------------------------------------------------------------------
(* Induction over the natural numbers, for sets of numbers. *)

(* A set of numbers that is not empty has a least one. *)
LEMMA LeastNumber ==
  ASSUME NEW T, T \subseteq Nat, T # {}
  PROVE  \E n \in T : \A m \in T : n <= m
<1> DEFINE Less == OpToRel(<, Nat)
<1>1. IsWellFoundedOn(Less, Nat)
  BY NatLessThanWellFounded, Zenon
<1>2. Less = {p \in Nat \X Nat : p[1] < p[2]}
  BY Zenon DEF OpToRel
<1> HIDE DEF Less
<1>3. PICK n \in T : \A m \in T : ~(<<m, n>> \in Less)
  BY <1>1, WFMin
<1>4. \A m \in T : ~(m < n)
  BY <1>2, <1>3
<1>5. QED
  BY <1>4

(* A set that has 0, and n + 1 with every n, has all of them. *)
LEMMA Induction ==
  ASSUME NEW T, 0 \in T, \A n \in Nat : n \in T => n + 1 \in T
  PROVE  Nat \subseteq T
<1> SUFFICES ASSUME Nat \ T # {} PROVE FALSE
  OBVIOUS
<1>1. PICK n \in Nat \ T : \A m \in Nat \ T : n <= m
  BY LeastNumber
<1>2. n - 1 \in Nat /\ n = (n - 1) + 1 /\ ~(n <= n - 1)
  OBVIOUS
<1>3. n - 1 \in T
  BY <1>1, <1>2
<1>4. QED
  BY <1>2, <1>3

(* F takes a number, and a value for the number before. *)
Rounds(F, A) == F \in [Nat -> [A -> A]]
Values(f, A, a, F) == f \in [Nat -> A] /\ \A i \in Nat : f[i] = IF i = 0 THEN a ELSE F[i][f[i - 1]]

(* A recursive definition over the numbers, each value made of the number and the value before,
   has a solution. *)
LEMMA Iteration ==
  ASSUME NEW A, NEW a \in A, NEW F, Rounds(F, A)
  PROVE  \E f : Values(f, A, a, F)
<1>0. F \in [Nat -> [A -> A]]
  BY DEF Rounds
<1> DEFINE Upto(n, g) == g \in [0..n -> A] /\ g[0] = a /\ \A i \in 1..n : g[i] = F[i][g[i - 1]]
           T == {n \in Nat : \E g : Upto(n, g)}
<1>1. 0 \in T
  <2>1. Upto(0, [i \in 0..0 |-> a])
    OBVIOUS
  <2>2. QED
    BY <2>1
<1>2. ASSUME NEW n \in Nat, n \in T PROVE n + 1 \in T
  <2>1. PICK g : Upto(n, g)
    BY <1>2
  <2> DEFINE h == [i \in 0..(n + 1) |-> IF i = n + 1 THEN F[n + 1][g[n]] ELSE g[i]]
  <2>2. h \in [0..(n + 1) -> A] /\ h[0] = a
    BY <1>0, <2>1
  <2>3. ASSUME NEW i \in 1..(n + 1) PROVE h[i] = F[i][h[i - 1]]
    <3>1. CASE i = n + 1
      <4>1. i - 1 = n /\ n \in 0..(n + 1) /\ n # n + 1
        BY <3>1
      <4>2. QED
        BY <3>1, <4>1
    <3>2. CASE i \in 1..n
      <4>1. i - 1 \in 0..(n + 1) /\ i \in 0..(n + 1) /\ i - 1 # n + 1 /\ i # n + 1
        BY <3>2
      <4>2. h[i] = g[i] /\ h[i - 1] = g[i - 1]
        BY <4>1
      <4>3. QED
        BY <2>1, <3>2, <4>2
    <3>3. QED
      BY <3>1, <3>2
  <2>4. Upto(n + 1, h)
    BY <2>2, <2>3
  <2> HIDE DEF h
  <2>5. QED
    BY <2>4
<1>3. Nat \subseteq T
  BY <1>1, <1>2, Induction
<1> DEFINE S(n) == CHOOSE g : Upto(n, g)
<1>4. \A n \in Nat : Upto(n, S(n))
  BY <1>3, Zenon
<1> HIDE DEF S, T
<1>5. ASSUME NEW n \in Nat PROVE \A m \in Nat : m >= n => S(m)[n] = S(n)[n]
  <2> DEFINE U == {k \in Nat : \A m \in Nat : m >= k => S(m)[k] = S(k)[k]}
  <2>1. 0 \in U
    BY <1>4
  <2>2. ASSUME NEW k \in Nat, k \in U PROVE k + 1 \in U
    <3> SUFFICES ASSUME NEW m \in Nat, m >= k + 1 PROVE S(m)[k + 1] = S(k + 1)[k + 1]
      OBVIOUS
    <3>1. S(m)[k] = S(k)[k] /\ S(k + 1)[k] = S(k)[k]
      BY <2>2
    <3>2. S(m)[k + 1] = F[k + 1][S(m)[k]]
      BY <1>4
    <3>3. S(k + 1)[k + 1] = F[k + 1][S(k + 1)[k]]
      BY <1>4
    <3>4. QED
      BY <3>1, <3>2, <3>3
  <2>3. Nat \subseteq U
    BY <2>1, <2>2, Induction
  <2>4. QED
    BY <2>3
<1> DEFINE f == [n \in Nat |-> S(n)[n]]
<1>6. f \in [Nat -> A]
  BY <1>4
<1>7. ASSUME NEW i \in Nat PROVE f[i] = IF i = 0 THEN a ELSE F[i][f[i - 1]]
  <2>1. CASE i = 0
    BY <1>4, <2>1
  <2>2. CASE i # 0
    <3>1. i - 1 \in Nat /\ i >= i - 1
      BY <2>2
    <3>2. S(i)[i] = F[i][S(i)[i - 1]]
      BY <1>4, <2>2
    <3>3. S(i)[i - 1] = S(i - 1)[i - 1]
      BY <1>5, <3>1
    <3>4. QED
      BY <2>2, <3>1, <3>2, <3>3
  <2>3. QED
    BY <2>1, <2>2
<1>8. Values(f, A, a, F)
  BY <1>6, <1>7 DEF Values
<1>9. QED
  BY <1>8

-----------------------------------------------------------------------------
(* Sequences, and the nodes of the trees. *)

Tree == (UNION {Range(Walk(p.root)) : p \in Programs}) \cup {Nil}

IsSeq(s) == \E S : s \in Seq(S)

(* The domain of a sequence. *)
IsList(D) == \E k \in Nat : D = 1..k

(* What is a sequence, and of what: a function with the domain of a sequence, too. *)
LEMMA Lists ==
  /\ \A s : IsSeq(s) => IsList(DOMAIN s)
  /\ \A S : \A s \in Seq(S) : IsSeq(s) /\ IsList(DOMAIN s)
  /\ \A S, s : IsList(DOMAIN s) /\ s \in [DOMAIN s -> S] => s \in Seq(S)
  /\ \A s : IsList(DOMAIN s) /\ s = [i \in DOMAIN s |-> s[i]] => IsSeq(s)
<1>1. ASSUME NEW S, NEW s \in Seq(S) PROVE IsSeq(s) /\ IsList(DOMAIN s)
  BY LenProperties DEF IsSeq, IsList
<1>2. ASSUME NEW S, NEW s, IsList(DOMAIN s), s \in [DOMAIN s -> S] PROVE s \in Seq(S)
  <2>1. PICK k \in Nat : DOMAIN s = 1..k
    BY <1>2 DEF IsList
  <2>2. QED
    BY <1>2, <2>1
<1>3. ASSUME NEW s, IsList(DOMAIN s), s = [i \in DOMAIN s |-> s[i]] PROVE IsSeq(s)
  <2>1. s \in [DOMAIN s -> {s[i] : i \in DOMAIN s}]
    BY <1>3
  <2>2. QED
    BY <1>2, <1>3, <2>1 DEF IsSeq
<1>4. QED
  BY <1>1, <1>2, <1>3 DEF IsSeq

(* Sequences of the same things, one after the other. *)
LEMMA Flattened ==
  ASSUME NEW S, NEW ss \in Seq(Seq(S))
  PROVE  FlattenSeq(ss) \in Seq(S)
<1>1. CASE Len(ss) = 0
  <2>1. ss = <<>>
    BY <1>1, EmptySeq
  <2>2. QED
    BY <1>1, <2>1 DEF FlattenSeq
<1>2. CASE Len(ss) # 0
  <2> DEFINE n == Len(ss)
             F == [i \in Nat |-> [s \in Seq(S) |-> IF i \notin 1..n THEN s ELSE IF i = 1 THEN ss[i] ELSE s \o ss[i]]]
             Is(f) == f = [i \in 1..n |-> IF i = 1 THEN ss[i] ELSE f[i - 1] \o ss[i]]
             w == CHOOSE f : Is(f)
  <2>1. n \in Nat \ {0} /\ \A i \in 1..n : ss[i] \in Seq(S)
    BY <1>2, LenProperties
  <2>2. F \in [Nat -> [Seq(S) -> Seq(S)]] /\ <<>> \in Seq(S)
    <3>1. \A i \in 1..n, s \in Seq(S) : s \o ss[i] \in Seq(S)
      BY <2>1, ConcatProperties
    <3>2. QED
      BY <2>1, <3>1
  <2>3. PICK g : Values(g, Seq(S), <<>>, F)
    <3>1. Rounds(F, Seq(S))
      BY <2>2 DEF Rounds
    <3> HIDE DEF F
    <3>2. QED
      BY <2>2, <3>1, Iteration
  <2>4. ASSUME NEW i \in 1..n PROVE g[i] = IF i = 1 THEN ss[i] ELSE g[i - 1] \o ss[i]
    <3>1. i \in Nat /\ i # 0 /\ i - 1 \in Nat
      BY <2>1
    <3>2. g[i] = F[i][g[i - 1]] /\ g[i - 1] \in Seq(S)
      BY <2>3, <3>1 DEF Values
    <3>3. QED
      BY <3>1, <3>2
  <2>5. Is([i \in 1..n |-> g[i]])
    <3>1. \A i \in 1..n : i # 1 => i - 1 \in 1..n
      BY <2>1
    <3>2. QED
      BY <2>4, <3>1
  <2>6. Is(w)
    BY <2>5, Zenon
  <2>7. FlattenSeq(ss) = w[n]
    BY <1>2 DEF FlattenSeq
  <2> HIDE DEF w
  <2> DEFINE T == {k \in Nat : k + 1 \in 1..n => w[k + 1] \in Seq(S)}
  <2>8. 0 \in T
    BY <2>1, <2>6
  <2>9. ASSUME NEW k \in Nat, k \in T PROVE k + 1 \in T
    <3> SUFFICES ASSUME k + 2 \in 1..n PROVE w[k + 2] \in Seq(S)
      OBVIOUS
    <3>1. w[k + 2] = w[k + 1] \o ss[k + 2]
      <4>1. k + 2 # 1 /\ (k + 2) - 1 = k + 1
        OBVIOUS
      <4>2. QED
        BY <2>6, <4>1
    <3>2. w[k + 1] \in Seq(S) /\ ss[k + 2] \in Seq(S)
      <4>1. k + 1 \in 1..n
        BY <2>1
      <4>2. QED
        BY <2>1, <2>9, <4>1
    <3>3. QED
      BY <3>1, <3>2, ConcatProperties
  <2>10. n - 1 \in T
    <3> HIDE DEF T
    <3>1. Nat \subseteq T
      BY <2>8, <2>9, Induction
    <3>2. QED
      BY <2>1, <3>1
  <2>11. QED
    BY <2>1, <2>7, <2>10
<1>3. QED
  BY <1>1, <1>2

(* What is taken of each of several nodes is a sequence. *)
LEMMA Collected ==
  \A S, ss : IsList(DOMAIN ss) /\ ss \in [DOMAIN ss -> Seq(S)] => FlattenSeq(ss) \in Seq(S)
BY Lists, Flattened

(* Sequences of nodes: their parts, one node, two one after the other, and many. *)
LEMMA SeqsOfNodes ==
  /\ \A ns \in Seq(Tree) : IsSeq(ns) /\ IsList(DOMAIN ns) /\ \A i \in DOMAIN ns : ns[i] \in Tree
  /\ <<>> \in Seq(Tree)
  /\ \A n \in Tree : <<n>> \in Seq(Tree)
  /\ \A s, t \in Seq(Tree) : s \o t \in Seq(Tree)
  /\ \A ss : IsList(DOMAIN ss) /\ ss \in [DOMAIN ss -> Seq(Tree)] => FlattenSeq(ss) \in Seq(Tree)
<1>1. \A ns \in Seq(Tree) : IsSeq(ns) /\ IsList(DOMAIN ns) /\ \A i \in DOMAIN ns : ns[i] \in Tree
  BY Lists, LenProperties
<1>2. \A s, t \in Seq(Tree) : s \o t \in Seq(Tree)
  BY ConcatProperties
<1>3. QED
  BY <1>1, <1>2, Collected

(* The missing node counts as one of the trees. *)
LEMMA NilInTree == Nil \in Tree
BY DEF Tree

(* A tree has what is below its nodes. *)
LEMMA KidsInTree == \A n \in Tree : n.kids \in Seq(Tree)
<1> SUFFICES ASSUME NEW n \in Tree PROVE n.kids \in Seq(Tree)
  OBVIOUS
<1>1. CASE n = Nil
  BY <1>1, SeqsOfNodes DEF Nil
<1>2. CASE n # Nil
  <2>1. PICK p \in Programs : n \in Range(Walk(p.root))
    BY <1>2 DEF Tree
  <2>2. n.kids \in Seq(Range(Walk(p.root)))
    BY <2>1, ProgramsAssumption
  <2>3. Range(Walk(p.root)) \subseteq Tree
    BY DEF Tree
  <2>4. QED
    BY <2>2, <2>3, SeqMonotonic
<1>3. QED
  BY <1>1, <1>2

(* The root of a file is one of its nodes. *)
LEMMA RootsInTree == \A p \in Programs : p.root \in Tree
BY ProgramsAssumption DEF Tree

(* The first of some nodes, and the rest of them. *)
LEMMA EndsInTree ==
  \A ns \in Seq(Tree) : First(ns) \in Tree /\ Rest(ns) \in Seq(Tree) /\ (ns # <<>> => Head(ns) \in Tree)
<1> SUFFICES ASSUME NEW ns \in Seq(Tree)
             PROVE  First(ns) \in Tree /\ Rest(ns) \in Seq(Tree) /\ (ns # <<>> => Head(ns) \in Tree)
  OBVIOUS
<1>1. ns # <<>> => Head(ns) \in Tree
  BY HeadTailProperties
<1>2. \A i \in 2..Len(ns) : ns[i] \in Tree
  BY LenProperties
<1>3. Rest(ns) \in Seq(Tree)
  <2>1. Len(ns) \in Int
    BY LenProperties
  <2>2. QED
    BY <1>2, <2>1, SubSeqProperties DEF Rest
<1>4. QED
  BY <1>1, <1>3, NilInTree DEF First

(* ChildByFieldName gives a child, or nothing. *)
LEMMA FieldInTree == \A n \in Tree : \A f : Field(n, f) \in Tree
<1> SUFFICES ASSUME NEW n \in Tree, NEW f PROVE Field(n, f) \in Tree
  OBVIOUS
<1> DEFINE T == {i \in DOMAIN n.kids : n.kids[i].as = f}
           Is(i) == n.kids[i].as = f /\ \A j \in 1..(i - 1) : n.kids[j].as # f
<1>1. CASE T = {}
  BY <1>1, NilInTree DEF Field
<1>2. CASE T # {}
  <2>1. DOMAIN n.kids = 1..Len(n.kids) /\ Len(n.kids) \in Nat
    BY KidsInTree, LenProperties
  <2>2. T \subseteq Nat
    BY <2>1
  <2>3. PICK i \in T : \A j \in T : i <= j
    BY <1>2, <2>2, LeastNumber
  <2>4. i \in DOMAIN n.kids /\ Is(i)
    <3>1. \A j \in 1..(i - 1) : j \in DOMAIN n.kids /\ ~(i <= j)
      BY <2>1, <2>2
    <3>2. QED
      BY <2>3, <3>1
  <2>5. (CHOOSE j \in DOMAIN n.kids : Is(j)) \in DOMAIN n.kids
    BY <2>4, Zenon
  <2>6. Field(n, f) = n.kids[CHOOSE j \in DOMAIN n.kids : Is(j)]
    BY <1>2, Zenon DEF Field
  <2> HIDE DEF Is
  <2>7. QED
    BY <2>5, <2>6, SeqsOfNodes, KidsInTree
<1>3. QED
  BY <1>1, <1>2

(* The children of some kinds, and the first of them. *)
LEMMA KidInTree == \A n \in Tree : \A kinds : KidsOf(n, kinds) \in Seq(Tree) /\ Kid(n, kinds) \in Tree
<1>1. \A n \in Tree : \A kinds : KidsOf(n, kinds) \in Seq(Tree)
  BY SeqsOfNodes, KidsInTree DEF KidsOf, Those, ForEach, If
<1>2. QED
  BY <1>1, EndsInTree DEF Kid

(* The rounds of a walk, and of an unfolding, are sequences of nodes. *)
LEMMA WalkInTree == \A n \in Tree : Walk(n) \in Seq(Tree)
<1> SUFFICES ASSUME NEW n \in Tree PROVE Walk(n) \in Seq(Tree)
  OBVIOUS
<1> DEFINE Round(d, ns) == ForEach(ns, LAMBDA m : <<m>> \o If(Len(m.place) = Len(n.place) + d - 1, m.kids))
           F == [d \in Nat |-> [ns \in Seq(Tree) |-> Round(d, ns)]]
           Is(s) == s = [d \in Nat |-> IF d = 0 THEN <<n>> ELSE Round(d, s[d - 1])]
           w == CHOOSE s : Is(s)
<1>1. \A d \in Nat, ns \in Seq(Tree) : Round(d, ns) \in Seq(Tree)
  BY SeqsOfNodes, KidsInTree DEF ForEach, If
<1>2. Walk(n) = w[Height]
  BY DEF Walk
<1> HIDE DEF Round
<1>3. PICK g : Values(g, Seq(Tree), <<n>>, F)
  <2>1. Rounds(F, Seq(Tree)) /\ <<n>> \in Seq(Tree)
    BY <1>1, SeqsOfNodes DEF Rounds
  <2> HIDE DEF F
  <2>2. QED
    BY <2>1, Iteration
<1>4. g \in [Nat -> Seq(Tree)] /\ Is(g)
  <2>1. \A d \in Nat : d # 0 => d - 1 \in Nat
    OBVIOUS
  <2>2. QED
    BY <1>3, <2>1 DEF Values
<1>5. Is(w)
  BY <1>4, Zenon
<1> HIDE DEF w
<1>6. w[0] = <<n>> /\ \A d \in Nat : w[d + 1] = Round(d + 1, w[d])
  BY <1>5
<1> DEFINE T == {d \in Nat : w[d] \in Seq(Tree)}
<1>7. 0 \in T /\ \A d \in Nat : d \in T => d + 1 \in T
  <2>1. 0 \in T
    BY <1>6, SeqsOfNodes
  <2>2. ASSUME NEW d \in Nat, w[d] \in Seq(Tree) PROVE w[d + 1] \in Seq(Tree)
    <3>1. d + 1 \in Nat
      OBVIOUS
    <3>2. QED
      BY <1>1, <1>6, <2>2, <3>1
  <2>3. QED
    BY <2>1, <2>2
<1> HIDE DEF T
<1>8. Nat \subseteq T
  BY <1>7, Induction
<1>9. QED
  BY <1>2, <1>8, ProgramsAssumption DEF T

(* What a search below a node finds is in its tree. *)
LEMMA WithinInTree == \A n \in Tree : \A kinds : Within(n, kinds) \in Seq(Tree)
BY SeqsOfNodes, WalkInTree DEF Within, Those, ForEach, If

(* So is the first of a kind below a node. *)
LEMMA DescendantInTree == \A n \in Tree : \A kind : Descendant(n, kind) \in Tree
BY SeqsOfNodes, KidsInTree, WithinInTree, EndsInTree DEF Descendant, ForEach

(* Wherever a walker looks from a node, it finds nodes of the tree. *)
LEMMA InTree ==
  /\ \A n \in Tree : n.kids \in Seq(Tree)
  /\ \A n \in Tree : \A f : Field(n, f) \in Tree
  /\ \A n \in Tree : \A kinds : KidsOf(n, kinds) \in Seq(Tree)
  /\ \A n \in Tree : \A kinds : Kid(n, kinds) \in Tree
  /\ \A n \in Tree : \A kinds : Within(n, kinds) \in Seq(Tree)
  /\ \A ns \in Seq(Tree) : IsSeq(ns) /\ IsList(DOMAIN ns)
  /\ \A ns \in Seq(Tree) : \A i \in DOMAIN ns : ns[i] \in Tree
BY KidsInTree, FieldInTree, KidInTree, WithinInTree, SeqsOfNodes

(* What starts in a set and stays in it from round to round. *)
LEMMA Carried ==
  ASSUME NEW S, NEW s, s[0] \in S, \A d \in Nat : s[d] \in S => s[d + 1] \in S
  PROVE  s[Height] \in S
<1> DEFINE T == {d \in Nat : s[d] \in S}
<1>1. 0 \in T /\ \A d \in Nat : d \in T => d + 1 \in T
  OBVIOUS
<1> HIDE DEF T
<1>2. Nat \subseteq T
  BY <1>1, Induction
<1>3. QED
  BY <1>2, ProgramsAssumption DEF T

Repeats(s, S, a, Turn) == s \in [Nat -> S] /\ s = [d \in Nat |-> IF d = 0 THEN a ELSE Turn[s[d - 1]]]

(* A definition whose value depends on the value before alone has a solution. *)
LEMMA Repeated ==
  ASSUME NEW S, NEW a \in S, NEW Turn \in [S -> S]
  PROVE  \E s : Repeats(s, S, a, Turn)
<1> DEFINE F == [d \in Nat |-> Turn]
<1>1. Rounds(F, S)
  BY DEF Rounds
<1>2. \A d \in Nat : F[d] = Turn
  OBVIOUS
<1> HIDE DEF F
<1>3. PICK s : Values(s, S, a, F)
  BY <1>1, Iteration
<1>4. QED
  BY <1>2, <1>3 DEF Values, Repeats

(* extractUseDeclaration comes by nodes only, however its lists are nested. *)
LEMMA RustUsesInTree == \A n \in Tree : RustUses(n) \in Seq(Tree)
<1> SUFFICES ASSUME NEW n \in Tree PROVE RustUses(n) \in Seq(Tree)
  OBVIOUS
<1> DEFINE Parts(u) == CASE u.kind = "scoped_use_list" -> Kid(u, {"use_list"}).kids
                         [] u.kind = "use_list"        -> u.kids
                         [] OTHER                      -> <<u>>
           Round(ns) == FlattenSeq([i \in DOMAIN ns |-> Parts(ns[i])])
           Is(s) == s = [d \in Nat |-> IF d = 0 THEN <<n>> ELSE Round(s[d - 1])]
           Turn == [ns \in Seq(Tree) |-> Round(ns)]
           rounds == CHOOSE s : Is(s)
<1>1. RustUses(n) = rounds[Height]
  BY DEF RustUses, Unfold, ForEach
<1>2. \A u \in Tree : Parts(u) \in Seq(Tree)
  BY InTree, SeqsOfNodes
<1> HIDE DEF Parts
<1>3. \A ns \in Seq(Tree) : Round(ns) \in Seq(Tree)
  BY <1>2, InTree, SeqsOfNodes
<1> HIDE DEF Round
<1>4. <<n>> \in Seq(Tree) /\ Turn \in [Seq(Tree) -> Seq(Tree)] /\ \A ns \in Seq(Tree) : Turn[ns] = Round(ns)
  BY <1>3, SeqsOfNodes
<1> HIDE DEF Turn
<1>5. PICK s : Repeats(s, Seq(Tree), <<n>>, Turn)
  BY <1>4, Repeated
<1>6. Is(s)
  <2>1. s \in [Nat -> Seq(Tree)]
    BY <1>5 DEF Repeats
  <2>2. \A d \in Nat : d # 0 => d - 1 \in Nat
    OBVIOUS
  <2>3. QED
    BY <1>4, <1>5, <2>1, <2>2 DEF Repeats
<1>7. Is(rounds)
  BY <1>6, Zenon
<1> HIDE DEF rounds
<1>8. rounds[0] = <<n>>
  BY <1>7
<1>9. ASSUME NEW d \in Nat PROVE rounds[d + 1] = Round(rounds[d])
  <2>1. d + 1 \in Nat /\ d + 1 # 0 /\ (d + 1) - 1 = d
    OBVIOUS
  <2>2. QED
    BY <1>7, <2>1
<1>10. rounds[0] \in Seq(Tree) /\ \A d \in Nat : rounds[d] \in Seq(Tree) => rounds[d + 1] \in Seq(Tree)
  BY <1>3, <1>4, <1>8, <1>9
<1>11. QED
  BY <1>1, <1>10, Carried

(* typeRefs comes by nodes only, whatever a type is made of. *)
LEMMA GoTypePartsInTree == \A n \in Tree : GoTypeParts(n) \in Seq(Tree)
<1> SUFFICES ASSUME NEW n \in Tree PROVE GoTypeParts(n) \in Seq(Tree)
  OBVIOUS
<1> DEFINE Parts(u) ==
             CASE u.kind = "SelectorExpr" -> <<Field(u, "Sel")>>
               [] u.kind \in {"StarExpr", "ArrayType", "MapType", "ChanType", "Ellipsis", "IndexExpr", "IndexListExpr",
                              "FuncType", "FieldList", "Field"} ->
                    Those(u.kids, LAMBDA k : k.as \notin {"Names", "Len", "TypeParams"})
               [] OTHER                   -> <<u>>
           Round(ns) == FlattenSeq([i \in DOMAIN ns |-> Parts(ns[i])])
           Is(s) == s = [d \in Nat |-> IF d = 0 THEN <<n>> ELSE Round(s[d - 1])]
           Turn == [ns \in Seq(Tree) |-> Round(ns)]
           rounds == CHOOSE s : Is(s)
<1>1. GoTypeParts(n) = rounds[Height]
  BY DEF GoTypeParts, Unfold, ForEach
<1>2. \A u \in Tree : Parts(u) \in Seq(Tree)
  BY InTree, SeqsOfNodes DEF Those, ForEach, If
<1> HIDE DEF Parts
<1>3. \A ns \in Seq(Tree) : Round(ns) \in Seq(Tree)
  BY <1>2, InTree, SeqsOfNodes
<1> HIDE DEF Round
<1>4. <<n>> \in Seq(Tree) /\ Turn \in [Seq(Tree) -> Seq(Tree)] /\ \A ns \in Seq(Tree) : Turn[ns] = Round(ns)
  BY <1>3, SeqsOfNodes
<1> HIDE DEF Turn
<1>5. PICK s : Repeats(s, Seq(Tree), <<n>>, Turn)
  BY <1>4, Repeated
<1>6. Is(s)
  <2>1. s \in [Nat -> Seq(Tree)]
    BY <1>5 DEF Repeats
  <2>2. \A d \in Nat : d # 0 => d - 1 \in Nat
    OBVIOUS
  <2>3. QED
    BY <1>4, <1>5, <2>1, <2>2 DEF Repeats
<1>7. Is(rounds)
  BY <1>6, Zenon
<1> HIDE DEF rounds
<1>8. rounds[0] = <<n>>
  BY <1>7
<1>9. ASSUME NEW d \in Nat PROVE rounds[d + 1] = Round(rounds[d])
  <2>1. d + 1 \in Nat /\ d + 1 # 0 /\ (d + 1) - 1 = d
    OBVIOUS
  <2>2. QED
    BY <1>7, <2>1
<1>10. rounds[0] \in Seq(Tree) /\ \A d \in Nat : rounds[d] \in Seq(Tree) => rounds[d + 1] \in Seq(Tree)
  BY <1>3, <1>4, <1>8, <1>9
<1>11. QED
  BY <1>1, <1>10, Carried

(* A class body and its companions are made of nodes. *)
LEMMA KtMembersInTree == \A n \in Tree : KtMembers(n) \in Seq(Tree)
<1> SUFFICES ASSUME NEW n \in Tree PROVE KtMembers(n) \in Seq(Tree)
  OBVIOUS
<1> DEFINE Parts(u) == IF u.kind = "companion_object" THEN Kid(u, {"class_body"}).kids ELSE <<u>>
           Round(ns) == FlattenSeq([i \in DOMAIN ns |-> Parts(ns[i])])
           Is(s) == s = [d \in Nat |-> IF d = 0 THEN <<n>> ELSE Round(s[d - 1])]
           Turn == [ns \in Seq(Tree) |-> Round(ns)]
           rounds == CHOOSE s : Is(s)
<1>1. KtMembers(n) = rounds[Height]
  BY DEF KtMembers, Unfold, ForEach
<1>2. \A u \in Tree : Parts(u) \in Seq(Tree)
  BY InTree, SeqsOfNodes
<1> HIDE DEF Parts
<1>3. \A ns \in Seq(Tree) : Round(ns) \in Seq(Tree)
  BY <1>2, InTree, SeqsOfNodes
<1> HIDE DEF Round
<1>4. <<n>> \in Seq(Tree) /\ Turn \in [Seq(Tree) -> Seq(Tree)] /\ \A ns \in Seq(Tree) : Turn[ns] = Round(ns)
  BY <1>3, SeqsOfNodes
<1> HIDE DEF Turn
<1>5. PICK s : Repeats(s, Seq(Tree), <<n>>, Turn)
  BY <1>4, Repeated
<1>6. Is(s)
  <2>1. s \in [Nat -> Seq(Tree)]
    BY <1>5 DEF Repeats
  <2>2. \A d \in Nat : d # 0 => d - 1 \in Nat
    OBVIOUS
  <2>3. QED
    BY <1>4, <1>5, <2>1, <2>2 DEF Repeats
<1>7. Is(rounds)
  BY <1>6, Zenon
<1> HIDE DEF rounds
<1>8. rounds[0] = <<n>>
  BY <1>7
<1>9. ASSUME NEW d \in Nat PROVE rounds[d + 1] = Round(rounds[d])
  <2>1. d + 1 \in Nat /\ d + 1 # 0 /\ (d + 1) - 1 = d
    OBVIOUS
  <2>2. QED
    BY <1>7, <2>1
<1>10. rounds[0] \in Seq(Tree) /\ \A d \in Nat : rounds[d] \in Seq(Tree) => rounds[d + 1] \in Seq(Tree)
  BY <1>3, <1>4, <1>8, <1>9
<1>11. QED
  BY <1>1, <1>10, Carried

(* The outermost nodes of some kinds are nodes of the tree. *)
LEMMA OutermostInTree == \A n \in Tree : \A kinds : Outermost(n, kinds) \in Seq(Tree)
<1> SUFFICES ASSUME NEW n \in Tree, NEW kinds PROVE Outermost(n, kinds) \in Seq(Tree)
  OBVIOUS
<1> DEFINE Parts(u) == IF u.kind \in kinds THEN <<u>> ELSE u.kids
           Round(ns) == FlattenSeq([i \in DOMAIN ns |-> Parts(ns[i])])
           Is(s) == s = [d \in Nat |-> IF d = 0 THEN <<n>> ELSE Round(s[d - 1])]
           Turn == [ns \in Seq(Tree) |-> Round(ns)]
           rounds == CHOOSE s : Is(s)
<1>1. Unfold(n, LAMBDA m : IF m.kind \in kinds THEN <<m>> ELSE m.kids) = rounds[Height]
  BY DEF Unfold, ForEach
<1>2. \A u \in Tree : Parts(u) \in Seq(Tree)
  BY InTree, SeqsOfNodes
<1> HIDE DEF Parts
<1>3. \A ns \in Seq(Tree) : Round(ns) \in Seq(Tree)
  BY <1>2, InTree, SeqsOfNodes
<1> HIDE DEF Round
<1>4. <<n>> \in Seq(Tree) /\ Turn \in [Seq(Tree) -> Seq(Tree)] /\ \A ns \in Seq(Tree) : Turn[ns] = Round(ns)
  BY <1>3, SeqsOfNodes
<1> HIDE DEF Turn
<1>5. PICK s : Repeats(s, Seq(Tree), <<n>>, Turn)
  BY <1>4, Repeated
<1>6. Is(s)
  <2>1. s \in [Nat -> Seq(Tree)]
    BY <1>5 DEF Repeats
  <2>2. \A d \in Nat : d # 0 => d - 1 \in Nat
    OBVIOUS
  <2>3. QED
    BY <1>4, <1>5, <2>1, <2>2 DEF Repeats
<1>7. Is(rounds)
  BY <1>6, Zenon
<1> HIDE DEF rounds
<1>8. rounds[0] = <<n>>
  BY <1>7
<1>9. ASSUME NEW d \in Nat PROVE rounds[d + 1] = Round(rounds[d])
  <2>1. d + 1 \in Nat /\ d + 1 # 0 /\ (d + 1) - 1 = d
    OBVIOUS
  <2>2. QED
    BY <1>7, <2>1
<1>10. rounds[0] \in Seq(Tree) /\ \A d \in Nat : rounds[d] \in Seq(Tree) => rounds[d + 1] \in Seq(Tree)
  BY <1>3, <1>4, <1>8, <1>9
<1>11. rounds[Height] \in Seq(Tree)
  BY <1>10, Carried
<1>12. QED
  BY <1>1, <1>11, InTree, SeqsOfNodes DEF Outermost, Those, ForEach, If

(* The declarator that a C declaration's pointers and parentheses lead to is a node. *)
LEMMA CFunctionDeclaratorInTree == \A n \in Tree : CFunctionDeclarator(n) \in Tree
<1> SUFFICES ASSUME NEW n \in Tree PROVE CFunctionDeclarator(n) \in Tree
  OBVIOUS
<1> DEFINE Parts(u) == IF u.kind \in {"pointer_declarator", "init_declarator", "parenthesized_declarator"} THEN CInner(u) ELSE u
           Round(m) == Parts(m)
           Is(s) == s = [d \in Nat |-> IF d = 0 THEN n ELSE Round(s[d - 1])]
           Turn == [m \in Tree |-> Round(m)]
           rounds == CHOOSE s : Is(s)
<1>1. Follow(n, LAMBDA u : IF u.kind \in {"pointer_declarator", "init_declarator", "parenthesized_declarator"} THEN CInner(u) ELSE u) = rounds[Height]
  BY DEF Follow
<1>2. \A u \in Tree : Parts(u) \in Tree
  BY InTree, EndsInTree DEF CInner
<1> HIDE DEF Parts
<1>3. \A m \in Tree : Round(m) \in Tree
  BY <1>2, InTree, SeqsOfNodes
<1> HIDE DEF Round
<1>4. n \in Tree /\ Turn \in [Tree -> Tree] /\ \A m \in Tree : Turn[m] = Round(m)
  BY <1>3, SeqsOfNodes
<1> HIDE DEF Turn
<1>5. PICK s : Repeats(s, Tree, n, Turn)
  BY <1>4, Repeated
<1>6. Is(s)
  <2>1. s \in [Nat -> Tree]
    BY <1>5 DEF Repeats
  <2>2. \A d \in Nat : d # 0 => d - 1 \in Nat
    OBVIOUS
  <2>3. QED
    BY <1>4, <1>5, <2>1, <2>2 DEF Repeats
<1>7. Is(rounds)
  BY <1>6, Zenon
<1> HIDE DEF rounds
<1>8. rounds[0] = n
  BY <1>7
<1>9. ASSUME NEW d \in Nat PROVE rounds[d + 1] = Round(rounds[d])
  <2>1. d + 1 \in Nat /\ d + 1 # 0 /\ (d + 1) - 1 = d
    OBVIOUS
  <2>2. QED
    BY <1>7, <2>1
<1>10. rounds[0] \in Tree /\ \A d \in Nat : rounds[d] \in Tree => rounds[d + 1] \in Tree
  BY <1>3, <1>4, <1>8, <1>9
<1>11. rounds[Height] \in Tree
  BY <1>10, Carried
<1>12. QED
  BY <1>1, <1>11, NilInTree DEF CFunctionDeclarator

-----------------------------------------------------------------------------
(* Steps that are sound when the file has the nodes of K: they name no others, and
   what follows a declaration may name what is declared, too.  What is below a step
   is in G with the nodes that the file has by then. *)

With(K, id) == K \cup {id}

(* A file has what was declared last, and all it had. *)
LEMMA WithMembers == \A K, id : id \in With(K, id) /\ \A x \in K : x \in With(K, id)
BY DEF With

Sound(step, K, G) ==
  \/ step.do = "visit" /\ step.node \in Tree /\ step.mode \notin {"root", "file"}
  \/ step.do = "refer" /\ step.from \in K
  \/ step.do = "contain" /\ step.from \in K /\ step.to \in K
  \/ step.do = "enter" /\ step.id \in K
  \/ step.do = "pend" /\ step.id \in K \cup {<<>>}
  \/ /\ step.do = "inside" /\ step.id \in K /\ IsSeq(step.steps)
     /\ \A i \in DOMAIN step.steps : <<step.steps[i], K>> \in G
  \/ /\ step.do = "declare" /\ step.parent \in K /\ IsSeq(step.then)
     /\ \A i \in DOMAIN step.then : <<step.then[i], With(K, Id(step.kind, step.name, step.node))>> \in G

AllSound(G) == \A p \in G : Sound(p[1], p[2], G)

GoodStep(step, K) == \E G : <<step, K>> \in G /\ AllSound(G)

Good(steps, K) == IsSeq(steps) /\ \A i \in DOMAIN steps : GoodStep(steps[i], K)

(* What is below a step may be in a larger set. *)
LEMMA SoundGrows ==
  ASSUME NEW step, NEW K, NEW G, NEW H, Sound(step, K, G), G \subseteq H
  PROVE  Sound(step, K, H)
BY DEF Sound

(* What a good step is. *)
LEMMA GoodStepIs ==
  ASSUME NEW step, NEW K, GoodStep(step, K)
  PROVE  \/ step.do = "visit" /\ step.node \in Tree /\ step.mode \notin {"root", "file"}
         \/ step.do = "refer" /\ step.from \in K
         \/ step.do = "contain" /\ step.from \in K /\ step.to \in K
         \/ step.do = "enter" /\ step.id \in K
         \/ step.do = "pend" /\ step.id \in K \cup {<<>>}
         \/ step.do = "inside" /\ step.id \in K /\ Good(step.steps, K)
         \/ step.do = "declare" /\ step.parent \in K /\ Good(step.then, With(K, Id(step.kind, step.name, step.node)))
<1>1. PICK G : <<step, K>> \in G /\ AllSound(G)
  BY DEF GoodStep
<1>2. Sound(step, K, G)
  BY <1>1 DEF AllSound
<1>3. \A s, L : <<s, L>> \in G => GoodStep(s, L)
  BY <1>1 DEF GoodStep
<1>4. QED
  BY <1>2, <1>3 DEF Sound, Good

(* And the other way round. *)
LEMMA GoodFlat ==
  ASSUME NEW step, NEW K, Sound(step, K, {})
  PROVE  GoodStep(step, K)
<1>1. AllSound({<<step, K>>})
  BY SoundGrows DEF AllSound
<1>2. QED
  BY <1>1 DEF GoodStep

(* A step is good when what is below it is: the sets that say so are joined. *)
LEMMA GoodAbove ==
  ASSUME NEW step, NEW K, NEW steps, NEW L, Good(steps, L),
         \A G : (\A i \in DOMAIN steps : <<steps[i], L>> \in G) => Sound(step, K, G)
  PROVE  GoodStep(step, K)
<1> DEFINE Of(i) == CHOOSE G : <<steps[i], L>> \in G /\ AllSound(G)
           B == UNION {Of(i) : i \in DOMAIN steps}
           G == {<<step, K>>} \cup B
<1>1. \A i \in DOMAIN steps : <<steps[i], L>> \in Of(i) /\ AllSound(Of(i))
  BY DEF Good, GoodStep
<1> HIDE DEF Of
<1>2. \A p \in B : Sound(p[1], p[2], G)
  <2> SUFFICES ASSUME NEW p \in B PROVE Sound(p[1], p[2], G)
    OBVIOUS
  <2>1. PICK i \in DOMAIN steps : p \in Of(i)
    OBVIOUS
  <2>2. Sound(p[1], p[2], Of(i))
    BY <1>1, <2>1 DEF AllSound
  <2>3. Of(i) \subseteq G
    OBVIOUS
  <2> HIDE DEF G
  <2>4. QED
    BY <2>2, <2>3, SoundGrows
<1>3. Sound(step, K, G)
  BY <1>1
<1>4. AllSound(G)
  <2> HIDE DEF B
  <2>1. \A p \in G : p \in B \/ p = <<step, K>>
    OBVIOUS
  <2> HIDE DEF G
  <2>2. QED
    BY <1>2, <1>3, <2>1 DEF AllSound
<1>5. QED
  BY <1>4 DEF GoodStep

(* Steps inside a scope that the file has. *)
LEMMA GoodInside ==
  ASSUME NEW K, NEW id \in K, NEW steps, Good(steps, K)
  PROVE  GoodStep([do |-> "inside", id |-> id, steps |-> steps], K)
<1> DEFINE step == [do |-> "inside", id |-> id, steps |-> steps]
<1>1. IsSeq(steps)
  BY DEF Good
<1>2. \A G : (\A i \in DOMAIN steps : <<steps[i], K>> \in G) => Sound(step, K, G)
  BY <1>1 DEF Sound
<1> HIDE DEF step
<1>3. GoodStep(step, K)
  BY <1>2, GoodAbove
<1>4. QED
  BY <1>3 DEF step

(* A declaration, and what follows it. *)
LEMMA GoodDeclare ==
  ASSUME NEW K, NEW parent \in K, NEW kind, NEW name, NEW n, NEW then, Good(then, With(K, Id(kind, name, n)))
  PROVE  GoodStep(DeclareIn(parent, kind, name, n, then), K)
<1> DEFINE step == DeclareIn(parent, kind, name, n, then)
           L == With(K, Id(kind, name, n))
<1>1. IsSeq(then)
  BY DEF Good
<1>2. \A G : (\A i \in DOMAIN then : <<then[i], L>> \in G) => Sound(step, K, G)
  BY <1>1 DEF Sound, DeclareIn
<1> HIDE DEF step
<1>3. Good(then, L)
  OBVIOUS
<1> HIDE DEF L
<1>4. GoodStep(step, K)
  BY <1>2, <1>3, GoodAbove
<1>5. QED
  BY <1>4 DEF step

(* Good steps stay good. *)
LEMMA GoodStepGrows ==
  ASSUME NEW step, NEW K, NEW L, K \subseteq L, GoodStep(step, K)
  PROVE  GoodStep(step, L)
<1>1. PICK G : <<step, K>> \in G /\ AllSound(G)
  BY DEF GoodStep
<1> DEFINE H == {<<p[1], p[2] \cup L>> : p \in G}
<1>2. \A s, M : <<s, M>> \in G => <<s, M \cup L>> \in H
  OBVIOUS
<1>3. \A p \in G : Sound(p[1], p[2] \cup L, H)
  <2> SUFFICES ASSUME NEW p \in G PROVE Sound(p[1], p[2] \cup L, H)
    OBVIOUS
  <2>1. Sound(p[1], p[2], G)
    BY <1>1 DEF AllSound
  <2>2. \A id : With(p[2], id) \cup L = With(p[2] \cup L, id)
    BY DEF With
  <2> HIDE DEF H
  <2>3. \A s, id : <<s, With(p[2], id)>> \in G => <<s, With(p[2] \cup L, id)>> \in H
    BY <1>2, <2>2
  <2>4. QED
    BY <1>2, <2>1, <2>3 DEF Sound
<1>4. AllSound(H)
  <2> SUFFICES ASSUME NEW q \in H PROVE Sound(q[1], q[2], H)
    BY DEF AllSound
  <2>1. PICK p \in G : q = <<p[1], p[2] \cup L>>
    OBVIOUS
  <2> HIDE DEF H
  <2>2. QED
    BY <1>3, <2>1
<1>5. <<step, L>> \in H
  <2>1. K \cup L = L
    OBVIOUS
  <2> HIDE DEF H
  <2>2. QED
    BY <1>1, <1>2, <2>1
<1>6. QED
  BY <1>4, <1>5 DEF GoodStep

(* Good sequences of steps. *)
LEMMA GoodSteps ==
  /\ \A K : Good(<<>>, K)
  /\ \A K, step : GoodStep(step, K) => Good(<<step>>, K)
  /\ \A K, a, b : GoodStep(a, K) /\ GoodStep(b, K) => Good(<<a, b>>, K)
  /\ \A K, s, t : Good(s, K) /\ Good(t, K) => Good(s \o t, K)
  /\ \A K, ss : IsList(DOMAIN ss) /\ ss = [i \in DOMAIN ss |-> ss[i]] /\ (\A i \in DOMAIN ss : GoodStep(ss[i], K))
                  => Good(ss, K)
  /\ \A K, ss : IsList(DOMAIN ss) /\ ss = [i \in DOMAIN ss |-> ss[i]] /\ (\A i \in DOMAIN ss : Good(ss[i], K))
                  => Good(FlattenSeq(ss), K)
<1> DEFINE Of(S, K) == \A step \in S : GoodStep(step, K)
<1>1. ASSUME NEW K, NEW s, Good(s, K) PROVE \E S : s \in Seq(S) /\ Of(S, K)
  <2>1. PICK S : s \in Seq(S)
    BY <1>1 DEF Good, IsSeq
  <2>2. s \in Seq(Range(s))
    BY <2>1, SeqOfRange
  <2>3. Of(Range(s), K)
    BY <1>1 DEF Good, Range
  <2>4. QED
    BY <2>2, <2>3
<1>2. ASSUME NEW K, NEW S, NEW s \in Seq(S), Of(S, K) PROVE Good(s, K)
  BY <1>2, LenProperties DEF Good, IsSeq
<1>3. ASSUME NEW K, NEW s, NEW t, Good(s, K), Good(t, K) PROVE Good(s \o t, K)
  <2>1. PICK S : s \in Seq(S) /\ Of(S, K)
    BY <1>1, <1>3
  <2>2. PICK T : t \in Seq(T) /\ Of(T, K)
    BY <1>1, <1>3
  <2>3. s \in Seq(S \cup T) /\ t \in Seq(S \cup T)
    BY <2>1, <2>2, SeqMonotonic
  <2>4. s \o t \in Seq(S \cup T)
    BY <2>3, ConcatProperties
  <2>5. Of(S \cup T, K)
    BY <2>1, <2>2
  <2> HIDE DEF Of
  <2>6. QED
    BY <1>2, <2>4, <2>5
<1>4. ASSUME NEW K, NEW step, GoodStep(step, K) PROVE Good(<<step>>, K)
  <2>1. <<step>> \in Seq({step}) /\ Of({step}, K)
    BY <1>4
  <2> HIDE DEF Of
  <2>2. QED
    BY <1>2, <2>1
<1>5. ASSUME NEW K, NEW a, NEW b, GoodStep(a, K), GoodStep(b, K) PROVE Good(<<a, b>>, K)
  <2>1. <<a, b>> \in Seq({a, b}) /\ Of({a, b}, K)
    BY <1>5
  <2> HIDE DEF Of
  <2>2. QED
    BY <1>2, <2>1
<1>6. ASSUME NEW K, NEW ss, IsList(DOMAIN ss), ss = [i \in DOMAIN ss |-> ss[i]], \A i \in DOMAIN ss : GoodStep(ss[i], K)
      PROVE  Good(ss, K)
  <2>1. ss \in [DOMAIN ss -> {ss[i] : i \in DOMAIN ss}]
    BY <1>6
  <2>2. ss \in Seq({ss[i] : i \in DOMAIN ss})
    BY <1>6, <2>1, Lists
  <2>3. Of({ss[i] : i \in DOMAIN ss}, K)
    BY <1>6
  <2> HIDE DEF Of
  <2>4. QED
    BY <1>2, <2>2, <2>3
<1>7. ASSUME NEW K, NEW ss, IsList(DOMAIN ss), ss = [i \in DOMAIN ss |-> ss[i]], \A i \in DOMAIN ss : Good(ss[i], K)
      PROVE  Good(FlattenSeq(ss), K)
  <2> DEFINE S == UNION {Range(ss[i]) : i \in DOMAIN ss}
  <2>1. ASSUME NEW i \in DOMAIN ss PROVE ss[i] \in Seq(S)
    <3>1. PICK T : ss[i] \in Seq(T)
      BY <1>1, <1>7
    <3>2. ss[i] \in Seq(Range(ss[i]))
      BY <3>1, SeqOfRange
    <3>3. Range(ss[i]) \subseteq S
      OBVIOUS
    <3>4. QED
      BY <3>2, <3>3, SeqMonotonic
  <2>2. Of(S, K)
    BY <1>7 DEF Good, Range
  <2> HIDE DEF S, Of
  <2>3. ss \in [DOMAIN ss -> Seq(S)]
    BY <1>7, <2>1
  <2>4. FlattenSeq(ss) \in Seq(S)
    BY <1>7, <2>3, Collected
  <2>5. QED
    BY <1>2, <2>2, <2>4
<1>8. ASSUME NEW K PROVE Good(<<>>, K)
  <2>1. <<>> \in Seq({}) /\ Of({}, K)
    OBVIOUS
  <2> HIDE DEF Of
  <2>2. QED
    BY <1>2, <2>1
<1>9. QED
  BY <1>3, <1>4, <1>5, <1>6, <1>7, <1>8

(* The steps that handlers are made of. *)
Inner(mode) == mode \notin {"root", "file"}

(* Each is good when it names nodes that the file has. *)
LEMMA GoodParts ==
  /\ \A K, mode, n : Inner(mode) /\ n \in Tree => GoodStep(Visit(mode, n), K)
  /\ \A K, mode, ns : Inner(mode) /\ ns \in Seq(Tree) => Good(VisitEach(mode, ns), K)
  /\ \A K, from, kind, name, n : from \in K => GoodStep(Refer(from, kind, name, n), K)
  /\ \A K, from, kind, name, n : from \in K => Good(ReferIf(from, kind, name, n), K)
  /\ \A K, id : id \in K => GoodStep(Enter(id), K) /\ GoodStep(Pend(id), K)
  /\ \A K : GoodStep(Pend(<<>>), K)
  /\ \A K, from, to : from \in K /\ to \in K => GoodStep(Contain(from, to), K)
  /\ \A K, id, steps : id \in K /\ Good(steps, K) => Good(Inside(id, steps), K)
  /\ \A K, parent, kind, name, n, then :
       parent \in K /\ Good(then, With(K, Id(kind, name, n))) => GoodStep(DeclareIn(parent, kind, name, n, then), K)
<1>1. \A K, mode, n : Inner(mode) /\ n \in Tree => GoodStep(Visit(mode, n), K)
  BY GoodFlat DEF Sound, Visit, Inner
<1>2. \A K, mode, ns : Inner(mode) /\ ns \in Seq(Tree) => Good(VisitEach(mode, ns), K)
  BY <1>1, GoodSteps, SeqsOfNodes DEF VisitEach
<1>3. \A K, from, kind, name, n : from \in K => GoodStep(Refer(from, kind, name, n), K)
  BY GoodFlat DEF Sound, Refer
<1>4. \A K, from, kind, name, n : from \in K => Good(ReferIf(from, kind, name, n), K)
  BY <1>3, GoodSteps DEF ReferIf, If
<1>5. \A K, id : id \in K => GoodStep(Enter(id), K) /\ GoodStep(Pend(id), K)
  BY GoodFlat DEF Sound, Enter, Pend
<1>6. \A K : GoodStep(Pend(<<>>), K)
  BY GoodFlat DEF Sound, Pend
<1>7. \A K, from, to : from \in K /\ to \in K => GoodStep(Contain(from, to), K)
  BY GoodFlat DEF Sound, Contain
<1>8. \A K, id, steps : id \in K /\ Good(steps, K) => Good(Inside(id, steps), K)
  BY GoodInside, GoodSteps DEF Inside
<1>9. QED
  BY <1>1, <1>2, <1>3, <1>4, <1>5, <1>6, <1>7, <1>8, GoodDeclare

(* What a walker sees of a file with the nodes of K. *)
Sees(w, K) ==
  /\ w = [stack |-> w.stack, nodes |-> w.nodes, pending |-> w.pending]
  /\ w.stack \in Seq(K) /\ w.stack # <<>>
  /\ IsSeq(w.nodes) /\ \A i \in DOMAIN w.nodes : w.nodes[i].id \in K
  /\ w.pending \in K \cup {<<>>}
  /\ FileId \in K

(* Whatever scope or node a walker looks up, the file has it, or the walker gets none. *)
LEMMA SeenScopes ==
  ASSUME NEW w, NEW K, Sees(w, K)
  PROVE  /\ Top(w) \in K /\ FileId \in K /\ w.pending \in K \cup {<<>>}
         /\ \A kinds : Nearest(w, kinds) \in K
         /\ \A kinds, name : IdOf(w, kinds, name) \in K \cup {<<>>}
         /\ \A id : HasNode(w, id) => id \in K
<1>1. Top(w) \in K
  <2>1. Len(w.stack) \in 1..Len(w.stack)
    BY LenProperties, EmptySeq DEF Sees
  <2>2. QED
    BY <2>1, ElementOfSeq DEF Sees, Top, Last
<1>2. ASSUME NEW kinds PROVE Nearest(w, kinds) \in K
  <2> DEFINE scopes == Those(w.stack, LAMBDA id : KindOf(w, id) \in kinds)
  <2>1. scopes \in Seq(K)
    <3>1. IsList(DOMAIN w.stack) /\ \A i \in DOMAIN w.stack : w.stack[i] \in K
      BY Lists, LenProperties DEF Sees
    <3>2. <<>> \in Seq(K) /\ \A id \in K : <<id>> \in Seq(K)
      OBVIOUS
    <3>3. QED
      BY <3>1, <3>2, Collected DEF Those, ForEach, If
  <2>2. scopes # <<>> => Last(scopes) \in K
    <3> HIDE DEF scopes
    <3>1. scopes # <<>> => Len(scopes) \in 1..Len(scopes)
      BY <2>1, LenProperties, EmptySeq
    <3>2. QED
      BY <2>1, <3>1, ElementOfSeq DEF Last
  <2>3. QED
    BY <1>1, <2>2 DEF Nearest
<1>3. ASSUME NEW kinds, NEW name PROVE IdOf(w, kinds, name) \in K \cup {<<>>}
  <2> DEFINE known == Those(w.nodes, LAMBDA n : n.kind \in kinds /\ n.name = name)
             S == {w.nodes[i] : i \in DOMAIN w.nodes}
  <2>1. known \in Seq(S)
    <3>1. IsList(DOMAIN w.nodes) /\ \A i \in DOMAIN w.nodes : w.nodes[i] \in S
      BY Lists DEF Sees
    <3> HIDE DEF S
    <3>2. <<>> \in Seq(S) /\ \A n \in S : <<n>> \in Seq(S)
      OBVIOUS
    <3>3. QED
      BY <3>1, <3>2, Collected DEF Those, ForEach, If
  <2>2. known # <<>> => Head(known) \in S
    <3> HIDE DEF known, S
    <3>1. QED
      BY <2>1, HeadTailProperties
  <2>3. \A n \in S : n.id \in K
    BY DEF Sees
  <2> HIDE DEF S
  <2>4. QED
    BY <2>2, <2>3 DEF IdOf
<1>4. \A id : HasNode(w, id) => id \in K
  BY DEF HasNode, Sees
<1>5. QED
  BY <1>1, <1>2, <1>3, <1>4 DEF Sees

(* A declaration in the scope on top, one with a scope of its own, and a node put into a type of the file. *)
LEMMA GoodScopes ==
  ASSUME NEW w, NEW K, Sees(w, K)
  PROVE  /\ \A kind, name, n, then :
              Good(then, With(K, Id(kind, name, n))) => GoodStep(Declare(w, kind, name, n, then), K)
         /\ \A kind, name, n, names, inside :
              Good(names, With(K, Id(kind, name, n))) /\ Good(inside, With(K, Id(kind, name, n)))
                => Good(Scope(w, kind, name, n, names, inside), K)
         /\ \A type, id : id \in K => Good(ContainIn(w, type, id), K)
<1>1. \A kind, name, n, then :
        Good(then, With(K, Id(kind, name, n))) => GoodStep(Declare(w, kind, name, n, then), K)
  BY SeenScopes, GoodParts DEF Declare
<1>2. ASSUME NEW kind, NEW name, NEW n, NEW names, NEW inside,
             Good(names, With(K, Id(kind, name, n))), Good(inside, With(K, Id(kind, name, n)))
      PROVE  Good(Scope(w, kind, name, n, names, inside), K)
  <2> DEFINE id == Id(kind, name, n)
             L == With(K, id)
  <2>1. id \in L /\ Good(names, L) /\ Good(inside, L)
    BY <1>2, WithMembers
  <2> HIDE DEF L
  <2>2. Good(names \o Inside(id, inside), L)
    BY <2>1, GoodSteps, GoodParts
  <2>3. QED
    BY <1>1, <2>2, GoodSteps DEF Scope, L
<1>3. ASSUME NEW type, NEW id \in K PROVE Good(ContainIn(w, type, id), K)
  BY SeenScopes, GoodSteps, GoodParts DEF ContainIn, If
<1>4. QED
  BY <1>1, <1>2, <1>3

(* What handlers often do. *)
LEMMA GoodOften ==
  ASSUME NEW w, NEW K, Sees(w, K)
  PROVE  /\ \A kind, name, n : Good(<<Declare(w, kind, name, n, <<>>)>>, K)
         /\ \A kind, name, n, m : Good(<<Declare(w, "import", name, n, <<>>), Refer(Top(w), kind, name, m)>>, K)
         /\ \A kind, name, n : Good(<<Refer(Top(w), kind, name, n)>>, K)
         /\ \A kind, name, n : Good(ReferIf(Top(w), kind, name, n), K)
         /\ \A mode, n, f : Inner(mode) /\ n \in Tree => Good(VisitEach(mode, Field(n, f).kids), K)
         /\ \A mode, n : Inner(mode) /\ n \in Tree => Good(VisitEach(mode, n.kids), K)
         /\ \A mode, n, f : Inner(mode) /\ n \in Tree => Good(<<Visit(mode, Field(n, f))>>, K)
         /\ \A kind, name, n, steps : Good(steps, With(K, Id(kind, name, n)))
                                        => Good(<<Declare(w, kind, name, n, Inside(Id(kind, name, n), steps))>>, K)
         /\ \A kind, name, n, m, mode, f : Inner(mode) /\ m \in Tree =>
              Good(<<Declare(w, kind, name, n, Inside(Id(kind, name, n), VisitEach(mode, Field(m, f).kids)))>>, K)
<1>1. \A kind, name, n : Good(<<Declare(w, kind, name, n, <<>>)>>, K)
  BY GoodSteps, GoodScopes
<1>2. \A kind, name, n, m : Good(<<Declare(w, "import", name, n, <<>>), Refer(Top(w), kind, name, m)>>, K)
  BY GoodSteps, GoodScopes, GoodParts, SeenScopes
<1>3. \A kind, name, n : Good(<<Refer(Top(w), kind, name, n)>>, K) /\ Good(ReferIf(Top(w), kind, name, n), K)
  BY GoodSteps, GoodParts, SeenScopes
<1>4. \A L, mode, n : Inner(mode) /\ n \in Tree => Good(VisitEach(mode, n.kids), L)
  BY GoodParts, InTree
<1>5. \A L, mode, n, f : Inner(mode) /\ n \in Tree => Good(VisitEach(mode, Field(n, f).kids), L) /\ Good(<<Visit(mode, Field(n, f))>>, L)
  BY <1>4, GoodSteps, GoodParts, InTree
<1>6. \A kind, name, n, steps : Good(steps, With(K, Id(kind, name, n)))
                                        => Good(<<Declare(w, kind, name, n, Inside(Id(kind, name, n), steps))>>, K)
  BY GoodSteps, GoodParts, GoodScopes, WithMembers
<1>7. QED
  BY <1>1, <1>2, <1>3, <1>4, <1>5, <1>6

(* The type that the file has so far holds what is declared. *)
LEMMA GoodContain ==
  ASSUME NEW w, NEW K, Sees(w, K)
  PROVE  \A type, id : Good(ContainIn(w, type, id), With(K, id))
<1> SUFFICES ASSUME NEW type, NEW id PROVE Good(ContainIn(w, type, id), With(K, id))
  OBVIOUS
<1> DEFINE holder == IdOf(w, {"struct", "class", "enum", "trait"}, type)
<1>1. holder # <<>> => holder \in With(K, id)
  BY SeenScopes, WithMembers
<1> HIDE DEF holder
<1>2. holder # <<>> => Good(<<Contain(holder, id)>>, With(K, id))
  BY <1>1, GoodSteps, GoodParts, WithMembers
<1>3. QED
  BY <1>2, GoodSteps DEF ContainIn, If, holder

-----------------------------------------------------------------------------
(* Python. *)

(* Python's decorators refer from what they decorate. *)
LEMMA PyDecoratesGood ==
  \A K, from, decorators, n : from \in K /\ IsSeq(decorators) => Good(PyDecorates(from, decorators, n), K)
BY GoodSteps, GoodParts, Lists DEF PyDecorates

(* extractFunction of Python: decorators and body are the function's. *)
LEMMA PyFunctionGood ==
  ASSUME NEW w, NEW K, Sees(w, K), NEW n \in Tree, NEW decorators, IsSeq(decorators)
  PROVE  Good(PyFunction(w, n, decorators), K)
<1>1. \A kind, name :
         Good(<<Declare(w, kind, name, n, PyDecorates(Id(kind, name, n), decorators, n)
                 \o Inside(Id(kind, name, n), VisitEach("visit", Field(n, "body").kids)))>>, K)
  BY GoodSteps, GoodParts, WithMembers, GoodScopes, PyDecoratesGood, InTree DEF Inner
<1>2. QED
  BY <1>1 DEF PyFunction

(* extractClass of Python: bases, decorators and body are the class's. *)
LEMMA PyClassGood ==
  ASSUME NEW w, NEW K, Sees(w, K), NEW n \in Tree, NEW decorators, IsSeq(decorators)
  PROVE  Good(PyClass(w, n, decorators), K)
<1> DEFINE id == Id("class", Field(n, "name").text, n)
           extends == ForEach(Field(n, "superclasses").kids, LAMBDA b : ReferIf(id, "extends", LastName(b), b))
<1>1. \A L : id \in L => Good(extends, L)
  BY GoodSteps, GoodParts, InTree DEF ForEach
<1> HIDE DEF extends
<1>2. Good(extends \o PyDecorates(id, decorators, n) \o Inside(id, VisitEach("visit", Field(n, "body").kids)), With(K, id))
  BY <1>1, GoodSteps, GoodParts, WithMembers, PyDecoratesGood, InTree DEF Inner
<1>3. QED
  BY <1>2, GoodSteps, GoodScopes DEF PyClass, extends

(* All of walk_python.go. *)
LEMMA PythonGood ==
  ASSUME NEW w, NEW K, Sees(w, K), NEW n \in Tree
  PROVE  Good(Python(w, n), K)
<1>1. Good(PyDecorated(w, n), K)
  <2> DEFINE heads == [i \in DOMAIN KidsOf(n, {"decorator"}) |-> PyDecoratorHead(KidsOf(n, {"decorator"})[i])]
  <2>1. IsSeq(heads)
    BY InTree, Lists
  <2> HIDE DEF heads
  <2>2. Good(PyFunction(w, Field(n, "definition"), heads), K) /\ Good(PyClass(w, Field(n, "definition"), heads), K)
    BY <2>1, PyFunctionGood, PyClassGood, InTree
  <2>3. QED
    BY <2>2, GoodSteps DEF PyDecorated, heads
<1>2. Good(PyImport(w, n), K)
  BY GoodSteps, GoodParts, GoodScopes, SeenScopes, InTree DEF PyImport, ForEach, If
<1>3. Good(PyAssignment(w, n), K)
  <2> DEFINE left == Field(n, "left")
             kind == IF IsInsideClassLike(w) THEN "field"
                     ELSE IF left.text[1] \in ConstantNames THEN "constant" ELSE "variable"
             assigned == CASE left = Nil               -> <<>>
                           [] left.kind = "identifier" -> <<Declare(w, kind, left.text, n, <<>>)>>
                           [] left.kind = "attribute" /\ Field(left, "object").text = <<"self">> ->
                                <<DeclareIn(Nearest(w, {"class"}), "field", Field(left, "attribute").text, n, <<>>)>>
                           [] OTHER                    -> <<>>
  <2>1. Good(assigned, K)
    BY GoodSteps, GoodParts, GoodScopes, SeenScopes
  <2> HIDE DEF assigned
  <2>2. Field(n, "right") # Nil => Good(<<Visit("visit", Field(n, "right"))>>, K)
    BY GoodSteps, GoodParts, InTree DEF Inner
  <2>3. QED
    BY <2>1, <2>2, GoodSteps DEF PyAssignment, assigned, If
<1>4. Good(PyCall(w, n), K)
  BY GoodSteps, GoodParts, SeenScopes, InTree DEF PyCall, Inner
<1>5. Good(VisitEach("visit", n.kids), K)
  BY GoodParts, InTree DEF Inner
<1>6. QED
  BY <1>1, <1>2, <1>3, <1>4, <1>5, PyFunctionGood, PyClassGood, EmptySeq DEF Python, IsSeq

-----------------------------------------------------------------------------
(* Lua. *)

(* A require is an import of the scope on top. *)
LEMMA LuaRequireGood ==
  ASSUME NEW w, NEW K, Sees(w, K), NEW n \in Tree
  PROVE  Good(LuaRequire(w, n), K)
<1> DEFINE each(a) == If(a.kind = "string" /\ a.text # <<>>,
                        <<Declare(w, "import", <<Last(a.text)>>, n, <<>>), Refer(Top(w), "imports", <<Last(a.text)>>, n)>>)
<1>1. \A a : Good(each(a), K)
  BY GoodSteps, GoodOften DEF If
<1> HIDE DEF each
<1>2. Good(FlattenSeq([i \in DOMAIN Field(n, "arguments").kids |-> each(Field(n, "arguments").kids[i])]), K)
  BY <1>1, GoodSteps, InTree
<1>3. QED
  BY <1>2 DEF LuaRequire, ForEach, each

(* Assignments: functions and tables, and the requires on the right. *)
LEMMA LuaAssignmentGood ==
  ASSUME NEW w, NEW K, Sees(w, K), NEW n \in Tree
  PROVE  Good(LuaAssignment(w, n), K)
<1> DEFINE names == Kid(n, {"variable_list"}).kids
           exprs == Kid(n, {"expression_list"}).kids
           rhs(i) == IF i \in DOMAIN exprs THEN exprs[i] ELSE Nil
           named(i) == CASE names[i].kind # "identifier" -> <<>>
                         [] LuaIsRequire(rhs(i)) -> LuaRequire(w, rhs(i))
                         [] OTHER -> <<Declare(w, LuaVarKind(w, names[i].text, rhs(i)), names[i].text, n, <<>>)>>
           values == Those(exprs, LAMBDA e : ~LuaIsRequire(e))
<1>1. \A i : rhs(i) \in Tree
  BY InTree, NilInTree
<1> HIDE DEF rhs
<1>2. \A i : Good(named(i), K)
  BY <1>1, GoodSteps, GoodScopes, LuaRequireGood
<1> HIDE DEF named
<1>3. Good(FlattenSeq([i \in DOMAIN names |-> named(i)]), K)
  BY <1>2, GoodSteps, InTree
<1>4. values \in Seq(Tree)
  BY SeqsOfNodes, InTree DEF Those, ForEach, If
<1> HIDE DEF values
<1>5. Good(VisitEach("visit", values), K)
  BY <1>4, GoodParts DEF Inner
<1>6. QED
  BY <1>3, <1>5, GoodSteps DEF LuaAssignment, named, rhs, values

(* All of walk_lua.go. *)
LEMMA LuaGood ==
  ASSUME NEW w, NEW K, Sees(w, K), NEW n \in Tree
  PROVE  Good(Lua(w, n), K)
<1>1. Good(LuaFunction(w, n), K)
  <2>1. \A parent \in K : \A kind, member :
          Good(<<DeclareIn(parent, kind, member, n,
                   Inside(Id(kind, member, n), VisitEach("visit", Field(n, "body").kids)))>>, K)
    BY GoodSteps, GoodParts, GoodScopes, SeenScopes, WithMembers, InTree DEF Inner
  <2>2. \A kinds, name : LET id == IdOf(w, kinds, name) IN (IF id = <<>> THEN Top(w) ELSE id) \in K
    BY SeenScopes
  <2>3. QED
    BY <2>1, <2>2, SeenScopes DEF LuaFunction
<1>2. Good(ForEach(KidsOf(n, {"assignment_statement"}), LAMBDA a : LuaAssignment(w, a)), K)
  BY GoodSteps, LuaAssignmentGood, InTree DEF ForEach
<1>3. Good(LuaCall(w, n), K)
  <2>1. \A name : Good(<<Refer(Top(w), "calls", name, n)>>, K)
    BY GoodSteps, GoodParts, GoodScopes, SeenScopes, WithMembers, InTree
  <2>2. Good(VisitEach("visit", Field(n, "arguments").kids), K)
    BY GoodSteps, GoodParts, GoodScopes, SeenScopes, WithMembers, InTree DEF Inner
  <2>3. QED
    BY <2>1, <2>2, GoodSteps, LuaRequireGood DEF LuaCall, If
<1>4. Good(VisitEach("visit", n.kids), K)
  BY GoodParts, InTree DEF Inner
<1>5. QED
  BY <1>1, <1>2, <1>3, <1>4, LuaAssignmentGood DEF Lua

-----------------------------------------------------------------------------
(* Bash. *)

(* Variables and constants of a shell script. *)
LEMMA BashVariableGood ==
  ASSUME NEW w, NEW K, Sees(w, K)
  PROVE  \A name, n, readonly : Good(BashVariable(w, name, n, readonly), K)
<1>1. \A kind, name, n : Good(<<Declare(w, kind, name, n, <<>>)>>, K)
  BY GoodSteps, GoodParts, GoodScopes, SeenScopes, WithMembers, InTree
<1>2. QED
  BY <1>1, GoodSteps DEF BashVariable, If

(* All of walk_bash.go. *)
LEMMA BashGood ==
  ASSUME NEW w, NEW K, Sees(w, K), NEW n \in Tree
  PROVE  Good(Bash(w, n), K)
<1>1. Good(BashFunction(w, n), K)
  BY GoodSteps, GoodParts, GoodScopes, SeenScopes, WithMembers, InTree DEF BashFunction, Inner
<1>2. Good(BashDeclaration(w, n), K)
  BY GoodSteps, BashVariableGood, InTree DEF BashDeclaration, ForEach
<1>3. Good(BashSource(w, n), K)
  BY GoodSteps, GoodParts, GoodScopes, SeenScopes, WithMembers, InTree DEF BashSource, If
<1>4. Good(BashCommand(w, n), K)
  <2> DEFINE rest == Those(n.kids, LAMBDA k : k.kind # "command_name")
             walked == ForEach(rest, LAMBDA k : VisitEach("visit", k.kids))
  <2>1. rest \in Seq(Tree)
    BY SeqsOfNodes, InTree DEF Those, ForEach, If
  <2> HIDE DEF rest
  <2>2. Good(walked, K)
    BY <2>1, GoodSteps, GoodParts, InTree DEF ForEach, Inner
  <2> HIDE DEF walked
  <2>3. Good(ReferIf(Top(w), "calls", Field(n, "name").text, n) \o walked, K)
    BY <2>2, GoodSteps, GoodParts, SeenScopes
  <2>4. QED
    BY <1>3, <2>3 DEF BashCommand, walked, rest
<1>5. Good(VisitEach("visit", n.kids), K)
  BY GoodParts, InTree DEF Inner
<1>6. QED
  BY <1>1, <1>2, <1>4, <1>5, BashVariableGood DEF Bash

-----------------------------------------------------------------------------
(* Ruby. *)

(* A class or module, with what it includes. *)
LEMMA RubyScopeGood ==
  ASSUME NEW w, NEW K, Sees(w, K), NEW n \in Tree
  PROVE  \A kind, referred : Good(referred, With(K, Id(kind, Field(n, "name").text, n))) => Good(RubyScope(w, kind, n, referred), K)
<1> SUFFICES ASSUME NEW kind, NEW referred, Good(referred, With(K, Id(kind, Field(n, "name").text, n)))
             PROVE  Good(RubyScope(w, kind, n, referred), K)
  OBVIOUS
<1> DEFINE id == Id(kind, Field(n, "name").text, n)
<1>1. Good(referred \o Inside(id, VisitEach("visit", Field(n, "body").kids)), With(K, id))
  BY GoodSteps, GoodParts, WithMembers, InTree DEF Inner
<1>2. QED
  BY <1>1, GoodSteps, GoodScopes DEF RubyScope

(* All of walk_ruby.go. *)
LEMMA RubyGood ==
  ASSUME NEW w, NEW K, Sees(w, K), NEW n \in Tree
  PROVE  Good(Ruby(w, n), K)
<1>1. Good(RubyClass(w, n), K)
  BY RubyScopeGood, GoodParts, WithMembers DEF RubyClass
<1>2. Good(RubyMethod(w, n), K)
  BY RubyScopeGood, GoodSteps DEF RubyMethod
<1>3. Good(RubyAssignment(w, n), K)
  BY GoodSteps, GoodParts, GoodScopes, SeenScopes, WithMembers, InTree DEF RubyAssignment, If, Inner
<1>4. Good(RubyRequire(w, n), K)
  <2> DEFINE paths == KidsOf(Field(n, "arguments"), {"string"})
             each(a) == If(a.text # <<>>,
                          <<Declare(w, "import", <<Last(a.text)>>, n, <<>>), Refer(Top(w), "imports", <<Last(a.text)>>, n)>>)
  <2>1. \A a : Good(each(a), K)
    BY GoodSteps, GoodOften DEF If
  <2> HIDE DEF each
  <2>2. Good(FlattenSeq([i \in DOMAIN paths |-> each(paths[i])]), K)
    BY <2>1, GoodSteps, InTree
  <2>3. QED
    BY <2>2 DEF RubyRequire, ForEach, each
<1>5. Good(RubyAttr(w, n), K)
  BY GoodSteps, GoodOften, InTree DEF RubyAttr, ForEach
<1>6. Good(RubyMixin(w, n), K)
  BY GoodSteps, GoodOften, InTree DEF RubyMixin, ForEach
<1>7. Good(RubyCall(w, n), K)
  BY <1>4, <1>5, <1>6, GoodSteps, GoodOften DEF RubyCall, If, Inner
<1>8. Good(RubyScope(w, "module", n, <<>>), K)
  BY RubyScopeGood, GoodSteps
<1>9. QED
  BY <1>1, <1>2, <1>3, <1>7, <1>8, GoodOften DEF Ruby, Inner

-----------------------------------------------------------------------------
(* Perl, but for the package statements of a file. *)

(* All of walk_perl.go: a package below the root of a file encloses nothing that follows it. *)
LEMMA PerlGood ==
  ASSUME NEW w, NEW K, Sees(w, K), NEW n \in Tree, NEW mode, mode # "root" \/ n.kind # "package_statement"
  PROVE  Good(Perl(w, mode, n), K)
<1>1. Good(PerlSub(w, n), K)
  BY GoodOften DEF PerlSub, Inner
<1>2. Good(PerlBases(w, n), K)
  <2> DEFINE bases == Within(n, {"string_content"})
             each(s) == If(s.text \notin {<<>>, <<"-norequire">>}, <<Refer(Top(w), "extends", <<Last(s.text)>>, n)>>)
  <2>1. \A s : Good(each(s), K)
    BY GoodSteps, GoodOften DEF If
  <2> HIDE DEF each
  <2>2. Good(FlattenSeq([i \in DOMAIN bases |-> each(bases[i])]), K)
    BY <2>1, GoodSteps, InTree
  <2>3. QED
    BY <2>2 DEF PerlBases, ForEach, each
<1>3. Good(PerlConstant(w, n), K)
  BY GoodSteps, GoodOften DEF PerlConstant, If
<1>4. Good(PerlUse(w, n), K)
  BY <1>2, <1>3, GoodSteps, GoodOften DEF PerlUse
<1>5. Good(PerlAssignment(w, n), K)
  <2>1. \A kind, name : Good(<<Declare(w, kind, name, n, <<>>)>>, K)
    BY GoodOften
  <2>2. Good(<<Visit("visit", Field(n, "right"))>>, K)
    BY GoodOften DEF Inner
  <2>3. QED
    BY <1>2, <2>1, <2>2, GoodSteps DEF PerlAssignment, If
<1>6. Good(PerlMethodCall(w, n), K)
  BY GoodSteps, GoodOften DEF PerlMethodCall, If, Inner
<1>7. Good(PerlFuncCall(w, n), K)
  BY GoodSteps, GoodOften DEF PerlFuncCall, If, Inner
<1>8. QED
  BY <1>1, <1>4, <1>5, <1>6, <1>7, GoodOften DEF Perl, Inner

-----------------------------------------------------------------------------
(* R. *)

(* All of walk_r.go. *)
LEMMA RGood ==
  ASSUME NEW w, NEW K, Sees(w, K), NEW n \in Tree
  PROVE  Good(R(w, n), K)
<1>1. ASSUME NEW name, NEW fn \in Tree PROVE Good(RFunction(w, name, n, fn), K)
  <2>1. Good(If(Has(fn, "body"), <<Visit("visit", Field(fn, "body"))>>), With(K, Id("function", name, n)))
    BY GoodSteps, GoodParts, InTree DEF If, Inner
  <2>2. QED
    BY <2>1, GoodOften DEF RFunction
<1>2. Good(RAssignment(w, n), K)
  <2>1. \A kind, name : Good(<<Declare(w, kind, name, n, <<>>)>>, K)
    BY GoodOften
  <2>2. Good(<<Visit("visit", Field(n, "rhs"))>>, K)
    BY GoodOften DEF Inner
  <2>3. QED
    BY <1>1, <2>1, <2>2, GoodSteps, InTree DEF RAssignment, If
<1>3. \A name, args : Good(RImport(w, name, n, args), K)
  BY GoodSteps, GoodOften DEF RImport, If
<1>4. Good(RArgs(Field(n, "arguments")), K)
  <2>1. \A a \in Tree : (IF Has(a, "value") THEN Field(a, "value") ELSE a) \in Tree
    BY InTree
  <2>2. \A a \in Tree : Good(<<Visit("visit", IF Has(a, "value") THEN Field(a, "value") ELSE a)>>, K)
    BY <2>1, GoodSteps, GoodParts DEF Inner
  <2>3. QED
    BY <2>2, GoodSteps, InTree DEF RArgs, ForEach
<1>5. Good(RCall(w, n), K)
  BY <1>3, <1>4, GoodSteps, GoodOften DEF RCall, If
<1>6. QED
  BY <1>2, <1>5, GoodOften DEF R, Inner

-----------------------------------------------------------------------------
(* Julia. *)

(* A method of a new function, or of one that the scope has (juliaExistingFuncID). *)
LEMMA JuliaMethodGood ==
  ASSUME NEW w, NEW K, Sees(w, K), NEW n, NEW call \in Tree, NEW body, \A L : Good(body, L)
  PROVE  Good(JuliaMethod(w, n, call, body), K)
<1> DEFINE name == JuliaName(call)
           known == Those(w.nodes, LAMBDA m : m.kind = "function" /\ m.qual = QualifiedName(w, Top(w), name))
           S == {w.nodes[i] : i \in DOMAIN w.nodes}
           steps(id) == JuliaParamRefs(id, call) \o Inside(id, body)
<1>1. ASSUME NEW L, NEW id \in L PROVE Good(steps(id), L)
  <2>1. Good(JuliaParamRefs(id, call), L)
    BY GoodSteps, GoodParts, InTree DEF JuliaParamRefs, ForEach
  <2>2. QED
    BY <2>1, GoodSteps, GoodParts
<1>2. known \in Seq(S)
  <2>1. IsList(DOMAIN w.nodes) /\ \A i \in DOMAIN w.nodes : w.nodes[i] \in S
    BY Lists DEF Sees
  <2> HIDE DEF S
  <2>2. <<>> \in Seq(S) /\ \A m \in S : <<m>> \in Seq(S)
    OBVIOUS
  <2>3. QED
    BY <2>1, <2>2, Collected DEF Those, ForEach, If
<1>3. \A m \in S : m.id \in K
  BY DEF Sees
<1> HIDE DEF S, known
<1>4. known # <<>> => Last(known).id \in K
  <2>1. known # <<>> => Len(known) \in 1..Len(known)
    BY <1>2, LenProperties, EmptySeq
  <2>2. QED
    BY <1>2, <1>3, <2>1, ElementOfSeq DEF Last
<1> HIDE DEF steps
<1>5. Good(<<Declare(w, "function", name, n, steps(Id("function", name, n)))>>, K)
  BY <1>1, WithMembers, GoodSteps, GoodScopes
<1>6. known # <<>> => Good(steps(Last(known).id), K)
  BY <1>1, <1>4
<1>7. QED
  BY <1>5, <1>6, GoodSteps DEF JuliaMethod, known, steps

(* Structs and abstract types with their supertypes and fields. *)
LEMMA JuliaTypeDefinitionGood ==
  ASSUME NEW w, NEW K, Sees(w, K), NEW n \in Tree, NEW kind
  PROVE  Good(JuliaTypeDefinition(w, kind, n), K)
<1> DEFINE head == Kid(n, {"type_head"})
           inner == First(head.kids)
           name == IF inner.kind = "binary_expression" THEN JuliaName(inner) ELSE inner.text
           id == Id(kind, name, n)
           named(k) == IF k.kind = "identifier" THEN k.text ELSE JuliaName(k)
           field(k) == <<DeclareIn(id, "field", named(k), k,
                           ReferIf(Id("field", named(k), k), "references", JuliaType(k), k))>>
           members == KidsOf(Kid(n, {"block"}), {"typed_expression", "identifier"})
           fields == FlattenSeq([i \in DOMAIN members |-> field(members[i])])
<1> HIDE DEF name, named
<1>1. \A k : Good(field(k), With(K, id))
  BY GoodSteps, GoodParts, WithMembers
<1> HIDE DEF field
<1>2. Good(fields, With(K, id))
  BY <1>1, GoodSteps, InTree
<1> HIDE DEF fields
<1>3. Good(ReferIf(id, "extends", JuliaType(inner), head) \o If(kind = "struct", fields), With(K, id))
  BY <1>2, GoodSteps, GoodParts, WithMembers DEF If
<1>4. Good(<<Declare(w, kind, name, n, ReferIf(id, "extends", JuliaType(inner), head) \o If(kind = "struct", fields))>>, K)
  BY <1>3, GoodSteps, GoodScopes
<1>5. QED
  BY <1>4 DEF JuliaTypeDefinition, ForEach, fields, field, name, named

(* All of walk_julia.go. *)
LEMMA JuliaGood ==
  ASSUME NEW w, NEW K, Sees(w, K), NEW n \in Tree
  PROVE  Good(Julia(w, n), K)
<1>1. Good(JuliaModule(w, n), K)
  <2>1. \A L : Good(VisitEach("visit", Kid(n, {"block"}).kids), L)
    BY GoodParts, InTree DEF Inner
  <2>2. QED
    BY <2>1, GoodOften DEF JuliaModule
<1>2. Good(JuliaFunction(w, n), K)
  BY JuliaMethodGood, GoodParts, InTree DEF JuliaFunction, Inner
<1>3. Good(JuliaConst(w, n), K)
  BY GoodSteps, GoodOften DEF JuliaConst, If
<1>4. Good(JuliaAssignment(w, n), K)
  <2> DEFINE right == If(Len(n.kids) > 1, <<Visit("visit", Last(n.kids))>>)
  <2>1. Len(n.kids) > 1 => Last(n.kids) \in Tree
    BY InTree, LenProperties DEF Last
  <2>2. \A L : Good(right, L)
    BY <2>1, GoodSteps, GoodParts DEF If, Inner
  <2> HIDE DEF right
  <2>3. First(n.kids) \in Tree
    BY InTree, EndsInTree
  <2>4. QED
    BY <2>2, <2>3, GoodSteps, GoodOften, JuliaMethodGood DEF JuliaAssignment, right
<1>5. Good(JuliaImport(w, n), K)
  <2> DEFINE emit(k) == <<Declare(w, "import", k.text, n, <<>>), Refer(Top(w), "imports", k.text, k)>>
             named(k) == Those(Rest(k.kids), LAMBDA s : s.kind = "identifier")
             selected(k) == FlattenSeq([i \in DOMAIN named(k) |-> emit(named(k)[i])])
             each(k) == CASE k.kind \in {"identifier", "scoped_identifier", "field_expression"} -> emit(k)
                          [] k.kind = "selected_import" -> selected(k)
                          [] OTHER -> <<>>
  <2>1. \A k : Good(emit(k), K)
    BY GoodOften
  <2> HIDE DEF emit
  <2>2. \A k \in Tree : named(k) \in Seq(Tree)
    BY SeqsOfNodes, EndsInTree, InTree DEF Those, ForEach, If
  <2> HIDE DEF named
  <2>3. \A k \in Tree : Good(selected(k), K)
    BY <2>1, <2>2, GoodSteps, InTree
  <2> HIDE DEF selected
  <2>4. \A k \in Tree : Good(each(k), K)
    BY <2>1, <2>3, GoodSteps
  <2> HIDE DEF each
  <2>5. Good(FlattenSeq([i \in DOMAIN n.kids |-> each(n.kids[i])]), K)
    BY <2>4, GoodSteps, InTree
  <2>6. QED
    BY <2>5 DEF JuliaImport, ForEach, each, selected, named, emit
<1>6. Good(JuliaCall(w, n), K)
  <2>1. Good(VisitEach("visit", Kid(n, {"argument_list"}).kids), K)
    BY GoodParts, InTree DEF Inner
  <2>2. \A name : Good(<<Refer(Top(w), "calls", name, n)>>, K)
    BY GoodOften
  <2>3. QED
    BY <2>1, <2>2, GoodSteps DEF JuliaCall, If
<1>7. Good(VisitEach("visit", n.kids), K)
  BY GoodOften DEF Inner
<1>8. QED
  BY <1>1, <1>2, <1>3, <1>4, <1>5, <1>6, <1>7, JuliaTypeDefinitionGood DEF Julia

-----------------------------------------------------------------------------
(* PowerShell. *)

(* Walking on below a node opens nothing. *)
LEMMA PsWalkGood == \A K : \A n \in Tree : Good(PsWalk(n), K)
BY GoodParts, InTree DEF PsWalk, Inner

(* Classes with their bases, methods and properties. *)
LEMMA PsClassGood ==
  ASSUME NEW w, NEW K, Sees(w, K), NEW n \in Tree
  PROVE  Good(PsClass(w, n), K)
<1> DEFINE names == KidsOf(n, {"simple_name"})
           name == Kid(n, {"simple_name"}).text
           id == Id("class", name, n)
           L == With(K, id)
           base(i) == Refer(id, IF i = 1 THEN "extends" ELSE "implements", names[i + 1].text, names[i + 1])
           bases == [i \in 1..(Len(names) - 1) |-> base(i)]
           member(k) == CASE k.kind = "class_property_definition" -> <<PsProperty(id, k)>>
                          [] k.kind = "class_method_definition"   -> <<PsMethod(id, k)>>
                          [] OTHER                                -> <<>>
           members == FlattenSeq([i \in DOMAIN n.kids |-> member(n.kids[i])])
<1>1. \A i : GoodStep(base(i), L)
  BY GoodParts, WithMembers
<1> HIDE DEF base
<1>2. IsList(1..(Len(names) - 1))
  <2>1. Len(names) \in Nat
    BY InTree, LenProperties
  <2>2. CASE Len(names) = 0
    <3>1. 1..(Len(names) - 1) = 1..0
      BY <2>2
    <3>2. QED
      BY <3>1 DEF IsList
  <2>3. CASE Len(names) # 0
    BY <2>1, <2>3 DEF IsList
  <2>4. QED
    BY <2>2, <2>3
<1>3. Good(bases, L)
  BY <1>1, <1>2, GoodSteps
<1> HIDE DEF bases
<1>4. \A k : GoodStep(PsProperty(id, k), L)
  BY GoodParts, GoodSteps, WithMembers DEF PsProperty
<1>5. ASSUME NEW k \in Tree PROVE GoodStep(PsMethod(id, k), L)
  <2> DEFINE body == IF Has(k, "script_block") THEN PsWalk(Field(k, "script_block"))
                     ELSE FlattenSeq([i \in DOMAIN KidsOf(k, {"script_block"}) |-> PsWalk(KidsOf(k, {"script_block"})[i])])
             called == Kid(k, {"simple_name"}).text
  <2>1. \A M : Good(body, M)
    BY PsWalkGood, GoodSteps, InTree
  <2> HIDE DEF body
  <2>2. Good(Inside(Id("method", called, k), body), With(L, Id("method", called, k)))
    BY <2>1, GoodParts, WithMembers
  <2>3. QED
    BY <2>2, GoodParts, WithMembers DEF PsMethod, ForEach, body
<1>6. \A k \in Tree : Good(member(k), L)
  BY <1>4, <1>5, GoodSteps
<1> HIDE DEF member
<1>7. Good(members, L)
  BY <1>6, GoodSteps, InTree
<1> HIDE DEF members
<1>8. Good(bases \o Inside(id, members), L)
  BY <1>3, <1>7, GoodSteps, GoodParts, WithMembers
<1>9. Good(<<Declare(w, "class", name, n, bases \o Inside(id, members))>>, K)
  BY <1>8, GoodSteps, GoodScopes
<1>10. QED
  BY <1>9 DEF PsClass, ForEach, bases, base, members, member

(* All of walk_powershell.go. *)
LEMMA PowerShellGood ==
  ASSUME NEW w, NEW K, Sees(w, K), NEW n \in Tree
  PROVE  Good(PowerShell(w, n), K)
<1>1. Good(PsFunction(w, n), K)
  BY PsWalkGood, GoodOften DEF PsFunction
<1>2. Good(PsEnum(w, n), K)
  <2> DEFINE name == Kid(n, {"simple_name"}).text
             id == Id("enum", name, n)
             called(m) == (IF Descendant(m, "simple_name") = Nil THEN m ELSE Descendant(m, "simple_name")).text
             each(m) == <<DeclareIn(id, "enum_member", called(m), m, <<>>)>>
             members == KidsOf(n, {"enum_member"})
  <2> HIDE DEF called
  <2>1. \A m : Good(each(m), With(K, id))
    BY GoodSteps, GoodParts, WithMembers
  <2> HIDE DEF each
  <2>2. Good(FlattenSeq([i \in DOMAIN members |-> each(members[i])]), With(K, id))
    BY <2>1, GoodSteps, InTree
  <2>3. QED
    BY <2>2, GoodOften DEF PsEnum, ForEach, each, called
<1>3. \A module : Good(PsImport(w, module, n), K)
  BY GoodSteps, GoodOften DEF PsImport, If
<1>4. Good(PsCommand(w, n), K)
  <2>1. Good(PsWalk(Field(n, "command_elements")), K)
    BY PsWalkGood, InTree
  <2>2. QED
    BY <1>3, <2>1, GoodSteps, GoodOften DEF PsCommand, If
<1>5. Good(PsInvokation(w, n), K)
  <2>1. Good(PsWalk(Descendant(n, "argument_list")), K)
    BY PsWalkGood, DescendantInTree
  <2>2. QED
    BY <2>1, GoodSteps, GoodOften DEF PsInvokation
<1>6. Good(PsAssignment(w, n), K)
  <2>1. Good(PsWalk(Field(n, "value")), K)
    BY PsWalkGood, InTree
  <2>2. \A kind, name : Good(<<Declare(w, kind, name, n, <<>>)>>, K)
    BY GoodOften
  <2>3. QED
    BY <2>1, <2>2, GoodSteps DEF PsAssignment, If
<1>7. QED
  BY <1>1, <1>2, <1>4, <1>5, <1>6, PsClassGood, PsWalkGood DEF PowerShell

-----------------------------------------------------------------------------
(* SQL. *)

(* Tables are referred to from the statement they are in. *)
LEMMA SqlTableRefsGood ==
  ASSUME NEW K, NEW from \in K, NEW n \in Tree
  PROVE  Good(SqlTableRefs(from, n), K)
<1>1. ASSUME NEW clause \in Tree PROVE Good(SqlFromTables(from, clause), K)
  <2> DEFINE tables(k) == IF k.kind = "join_clause" THEN KidsOf(k, SqlNames) ELSE If(k.kind \in SqlNames, <<k>>)
             each(t) == ReferIf(from, "references", LastName(t), t)
             referred(k) == FlattenSeq([i \in DOMAIN tables(k) |-> each(tables(k)[i])])
  <2>1. \A k \in Tree : tables(k) \in Seq(Tree)
    BY SeqsOfNodes, InTree DEF If
  <2>2. \A t : Good(each(t), K)
    BY GoodParts
  <2> HIDE DEF tables, each
  <2>3. \A k \in Tree : Good(referred(k), K)
    BY <2>1, <2>2, GoodSteps, InTree
  <2> HIDE DEF referred
  <2>4. Good(FlattenSeq([i \in DOMAIN clause.kids |-> referred(clause.kids[i])]), K)
    BY <2>3, GoodSteps, InTree
  <2>5. QED
    BY <2>4 DEF SqlFromTables, ForEach, referred, tables, each
<1>2. QED
  BY <1>1, GoodSteps, GoodParts, InTree DEF SqlTableRefs, ForEach, If

(* All of walk_sql.go. *)
LEMMA SqlGood ==
  ASSUME NEW w, NEW K, Sees(w, K), NEW n \in Tree
  PROVE  Good(Sql(w, n), K)
<1>1. Good(SqlTable(w, n), K)
  <2> DEFINE name == SqlTableName(n)
             id == Id("struct", name, n)
             params == IF Has(n, "parameters") THEN Field(n, "parameters") ELSE Kid(n, {"table_parameters"})
             columns == KidsOf(params, {"table_column"})
             each(c) == <<DeclareIn(id, "field", Field(c, "name").text, c, <<>>)>>
             fields == FlattenSeq([i \in DOMAIN columns |-> each(columns[i])])
  <2>1. params \in Tree
    BY InTree
  <2> HIDE DEF params, name
  <2>2. \A c : Good(each(c), With(K, id))
    BY GoodSteps, GoodParts, WithMembers
  <2> HIDE DEF each
  <2>3. Good(fields, With(K, id))
    BY <2>1, <2>2, GoodSteps, InTree
  <2> HIDE DEF fields
  <2>4. Good(If(params # Nil, Inside(id, fields)), With(K, id))
    BY <2>3, GoodSteps, GoodParts, WithMembers DEF If
  <2>5. Good(<<Declare(w, "struct", name, n, If(params # Nil, Inside(id, fields)))>>, K)
    BY <2>4, GoodSteps, GoodScopes
  <2>6. QED
    BY <2>5 DEF SqlTable, ForEach, fields, each, params, name
<1>2. Good(SqlView(w, n), K)
  <2> DEFINE name == SqlTableName(n)
             id == Id("struct", name, n)
             body == IF Kid(n, {"view_body"}) = Nil THEN n ELSE Kid(n, {"view_body"})
             selects == KidsOf(body, {"select_statement"})
  <2>1. body \in Tree
    BY InTree
  <2> HIDE DEF body, name
  <2>2. Good(FlattenSeq([i \in DOMAIN selects |-> SqlTableRefs(id, selects[i])]), With(K, id))
    BY <2>1, SqlTableRefsGood, WithMembers, GoodSteps, InTree
  <2>3. QED
    BY <2>2, GoodOften DEF SqlView, ForEach, body, name
<1>3. QED
  BY <1>1, <1>2, SqlTableRefsGood, SeenScopes, GoodOften DEF Sql, Inner

-----------------------------------------------------------------------------
(* C. *)

(* Types are referred to from what is declared with them. *)
LEMMA CTypeRefsGood ==
  /\ \A K, from, t, n : from \in K => Good(CTypeRef(from, t, n), K)
  /\ \A K, from : \A n \in Tree : from \in K => Good(CTypeRefs(from, n), K)
<1>1. \A K, from, t, n : from \in K => Good(CTypeRef(from, t, n), K)
  BY GoodSteps, GoodParts DEF CTypeRef, If
<1>2. ASSUME NEW K, NEW from \in K, NEW n \in Tree PROVE Good(CTypeRefs(from, n), K)
  <2> DEFINE parameters == KidsOf(Field(CFunctionDeclarator(Field(n, "declarator")), "parameters"), {"parameter_declaration"})
             each(p) == CTypeRef(from, Field(p, "type"), n)
  <2>1. parameters \in Seq(Tree)
    BY InTree, CFunctionDeclaratorInTree
  <2> HIDE DEF parameters
  <2>2. \A p : Good(each(p), K)
    BY <1>1
  <2> HIDE DEF each
  <2>3. Good(FlattenSeq([i \in DOMAIN parameters |-> each(parameters[i])]), K)
    BY <2>1, <2>2, GoodSteps, InTree
  <2> DEFINE referred == FlattenSeq([i \in DOMAIN parameters |-> each(parameters[i])])
  <2> HIDE DEF referred
  <2>4. Good(CTypeRef(from, Field(n, "type"), n) \o referred, K)
    BY <1>1, <2>3, GoodSteps DEF referred
  <2>5. QED
    BY <2>4 DEF CTypeRefs, ForEach, referred, each, parameters
<1>3. QED
  BY <1>1, <1>2

(* Structs and unions with their fields. *)
LEMMA CStructGood ==
  ASSUME NEW w, NEW K, Sees(w, K), NEW n \in Tree
  PROVE  Good(CStruct(w, n), K)
<1> DEFINE name == Field(n, "name").text
           id == Id("struct", name, n)
           fields == KidsOf(Field(n, "body"), {"field_declaration"})
           each(f) == <<CField(w, id, f)>>
<1>1. ASSUME NEW f PROVE GoodStep(CField(w, id, f), With(K, id))
  <2> DEFINE called == CName(Field(f, "declarator"))
  <2> HIDE DEF called
  <2>1. Good(CTypeRef(Id("field", called, f), Field(f, "type"), f), With(With(K, id), Id("field", called, f)))
    BY CTypeRefsGood, WithMembers
  <2>2. QED
    BY <2>1, GoodParts, WithMembers DEF CField, called
<1>2. \A f : Good(each(f), With(K, id))
  BY <1>1, GoodSteps
<1> HIDE DEF each
<1>3. Good(FlattenSeq([i \in DOMAIN fields |-> each(fields[i])]), With(K, id))
  BY <1>2, GoodSteps, InTree
<1>4. QED
  BY <1>3, GoodSteps, GoodScopes DEF CStruct, ForEach, each

(* Enums with their members. *)
LEMMA CEnumGood ==
  ASSUME NEW w, NEW K, Sees(w, K), NEW n \in Tree
  PROVE  Good(CEnum(w, n), K)
<1> DEFINE name == Field(n, "name").text
           id == Id("enum", name, n)
           members == KidsOf(Field(n, "body"), {"enumerator"})
           each(m) == <<DeclareIn(id, "enum_member", Field(m, "name").text, m, <<>>)>>
<1>1. \A m : Good(each(m), With(K, id))
  BY GoodSteps, GoodParts, WithMembers
<1> HIDE DEF each
<1>2. Good(FlattenSeq([i \in DOMAIN members |-> each(members[i])]), With(K, id))
  BY <1>1, GoodSteps, InTree
<1>3. QED
  BY <1>2, GoodSteps, GoodScopes DEF CEnum, ForEach, each

(* All of walk_c.go. *)
LEMMA CGood ==
  ASSUME NEW w, NEW K, Sees(w, K), NEW n \in Tree
  PROVE  Good(C(w, n), K)
<1>1. Good(CInclude(w, n), K)
  BY GoodSteps, GoodOften DEF CInclude, If
<1>2. Good(CFunction(w, n), K)
  <2> DEFINE name == CName(Field(n, "declarator"))
             id == Id("function", name, n)
  <2> HIDE DEF name
  <2>1. Good(CCalls(id, Field(n, "body")), With(K, id))
    BY GoodSteps, GoodParts, WithMembers, InTree DEF CCalls, ForEach
  <2>2. Good(CTypeRefs(id, n) \o CCalls(id, Field(n, "body")), With(K, id))
    BY <2>1, CTypeRefsGood, GoodSteps, WithMembers
  <2>3. QED
    BY <2>2, GoodSteps, GoodScopes DEF CFunction, name
<1>3. Good(CDeclaration(w, n), K)
  <2>1. \A kind, name : Good(<<Declare(w, kind, name, n, CTypeRefs(Id(kind, name, n), n))>>, K)
    BY CTypeRefsGood, GoodSteps, GoodScopes, WithMembers
  <2>2. QED
    BY <2>1 DEF CDeclaration
<1>4. Good(CTypedef(w, n), K)
  BY CStructGood, CEnumGood, GoodSteps, GoodOften, InTree DEF CTypedef
<1>5. QED
  BY <1>1, <1>2, <1>3, <1>4, CStructGood, CEnumGood, GoodOften DEF C, Inner

-----------------------------------------------------------------------------
(* Rust. *)

(* A function's body is walked inside the function. *)
LEMMA RustBodyGood ==
  ASSUME NEW K, NEW from \in K, NEW body \in Tree
  PROVE  Good(RustBody(from, body), K)
BY GoodSteps, GoodParts, InTree DEF RustBody, ForEach

(* An impl block belongs to the type it is for, when the file has that by then. *)
LEMMA RustImplGood ==
  ASSUME NEW w, NEW K, Sees(w, K), NEW n \in Tree
  PROVE  Good(RustImpl(w, n), K)
<1> DEFINE type == LastName(Field(n, "type"))
           trait == LastName(Field(n, "trait"))
           owner == IdOf(w, {"struct", "enum", "class", "interface"}, type)
           body == IF Has(n, "body") THEN Field(n, "body") ELSE Kid(n, {"declaration_list"})
           constant(k) == RustName(k, "identifier")
           constants(k) == <<Declare(w, "constant", constant(k), k, ContainIn(w, type, Id("constant", constant(k), k)))>>
           member(k) ==
             CASE k.kind = "function_item" -> RustImplMethod(w, type, trait, k)
               [] k.kind \in {"const_item", "static_item"} -> constants(k)
               [] k.kind = "type_item"     -> RustTypeAlias(w, k)
               [] OTHER                    -> <<Visit("visit", k)>>
           members == FlattenSeq([i \in DOMAIN body.kids |-> member(body.kids[i])])
<1>1. body \in Tree
  BY InTree
<1>2. owner # <<>> => owner \in K
  BY SeenScopes
<1> HIDE DEF body, owner, type, trait
<1>3. \A id : Good(ContainIn(w, type, id), With(K, id))
  BY GoodContain
<1>4. ASSUME NEW k \in Tree PROVE Good(RustImplMethod(w, type, trait, k), K)
  <2> DEFINE name == RustName(k, "identifier")
             id == Id("method", name, k)
             referred == ContainIn(w, type, id) \o If(trait # <<>>, <<Refer(id, "overrides", trait \o name, k)>>)
  <2> HIDE DEF name
  <2>1. Good(referred, With(K, id))
    BY <1>3, GoodSteps, GoodParts, WithMembers DEF If
  <2> HIDE DEF referred
  <2>2. Good(RustBody(id, Field(k, "body")), With(K, id))
    BY RustBodyGood, WithMembers, InTree
  <2>3. QED
    BY <2>1, <2>2, GoodScopes DEF RustImplMethod, referred, name
<1> HIDE DEF constant
<1>5. \A k : Good(constants(k), K)
  BY <1>3, GoodSteps, GoodScopes
<1> HIDE DEF constants
<1>6. \A k \in Tree : Good(member(k), K)
  BY <1>4, <1>5, GoodSteps, GoodOften, GoodParts DEF RustTypeAlias, Inner
<1> HIDE DEF member
<1>7. Good(members, K)
  BY <1>1, <1>6, GoodSteps, InTree
<1> HIDE DEF members
<1>8. Good(If(owner # <<>>, ReferIf(owner, "implements", trait, n)), K)
  BY <1>2, GoodSteps, GoodParts DEF If
<1>9. Good(If(owner # <<>>, ReferIf(owner, "implements", trait, n)) \o members, K)
  BY <1>7, <1>8, GoodSteps
<1>10. Good(If(type # <<>>, If(owner # <<>>, ReferIf(owner, "implements", trait, n)) \o members), K)
  BY <1>9, GoodSteps DEF If
<1>11. QED
  BY <1>10 DEF RustImpl, ForEach, members, member, constants, constant, body, owner, type, trait

(* All of walk_rust.go. *)
LEMMA RustGood ==
  ASSUME NEW w, NEW K, Sees(w, K), NEW n \in Tree
  PROVE  Good(Rust(w, n), K)
<1>1. \A kind, name, steps : Good(steps, With(K, Id(kind, name, n))) => Good(Scope(w, kind, name, n, <<>>, steps), K)
  BY GoodSteps, GoodScopes
<1>2. Good(RustMod(w, n), K)
  <2> DEFINE body == IF Has(n, "body") THEN Field(n, "body") ELSE Kid(n, {"declaration_list"})
  <2>1. body \in Tree
    BY InTree
  <2> HIDE DEF body
  <2>2. \A L : Good(VisitEach("visit", body.kids), L)
    BY <2>1, GoodParts, InTree DEF Inner
  <2>3. QED
    BY <1>1, <2>2 DEF RustMod, body
<1>3. Good(RustTrait(w, n), K)
  BY <1>1, GoodParts, InTree DEF RustTrait, Inner
<1>4. \A kind, list, part, partKind, nameKind : Good(RustParts(w, kind, n, list, part, partKind, nameKind), K)
  <2> SUFFICES ASSUME NEW kind, NEW list, NEW part, NEW partKind, NEW nameKind
               PROVE  Good(RustParts(w, kind, n, list, part, partKind, nameKind), K)
    OBVIOUS
  <2> DEFINE id == Id(kind, RustName(n, "type_identifier"), n)
             parts == KidsOf(Kid(n, {list}), {part})
             each(p) == <<DeclareIn(id, partKind, RustName(p, nameKind), p, <<>>)>>
  <2>1. parts \in Seq(Tree)
    BY InTree
  <2>2. \A p : Good(each(p), With(K, id))
    BY GoodSteps, GoodParts, WithMembers
  <2> HIDE DEF parts, each
  <2>3. Good(FlattenSeq([i \in DOMAIN parts |-> each(parts[i])]), With(K, id))
    BY <2>1, <2>2, GoodSteps, InTree
  <2>4. QED
    BY <1>1, <2>3 DEF RustParts, ForEach, each, parts
<1>5. Good(RustFunction(w, n), K)
  <2>1. \A kind, name : Good(Scope(w, kind, name, n, <<>>, RustBody(Id(kind, name, n), Field(n, "body"))), K)
    BY <1>1, RustBodyGood, WithMembers, InTree
  <2>2. QED
    BY <2>1 DEF RustFunction
<1>6. Good(RustUse(w, n), K)
  <2> DEFINE uses == RustUses(Field(n, "argument"))
             each(u) == If(RustUsed(u) # <<>>,
                          <<Declare(w, "import", RustUsed(u), n, <<>>), Refer(Top(w), "imports", RustUsed(u), u)>>)
  <2>1. uses \in Seq(Tree)
    BY RustUsesInTree, InTree
  <2>2. \A u : Good(each(u), K)
    BY GoodSteps, GoodOften DEF If
  <2> HIDE DEF uses, each
  <2>3. Good(FlattenSeq([i \in DOMAIN uses |-> each(uses[i])]), K)
    BY <2>1, <2>2, GoodSteps, InTree
  <2>4. QED
    BY <2>3 DEF RustUse, ForEach, each, uses
<1>7. QED
  BY <1>2, <1>3, <1>4, <1>5, <1>6, RustImplGood, GoodOften DEF Rust, RustStruct, RustEnum, RustTypeAlias, Inner

-----------------------------------------------------------------------------
(* C++. *)

(* A function's body is walked inside the function. *)
LEMMA CppBodyGood ==
  ASSUME NEW K, NEW from \in K, NEW body \in Tree
  PROVE  Good(CppBody(from, body), K)
<1> DEFINE parts == Within(body, {"call_expression", "new_expression", "declaration", "using_declaration"})
           each(c) == CASE c.kind = "call_expression" -> ReferIf(from, "calls", CppCallee(Field(c, "function")), c)
                        [] c.kind = "new_expression"  -> CppNew(from, c)
                        [] c.kind = "declaration"     -> CppConstruction(from, c)
                        [] OTHER                      -> <<CppUsing(from, c)>>
<1>1. \A kind, name, n : Good(<<Refer(from, kind, name, n)>>, K)
  BY GoodSteps, GoodParts
<1>2. \A c : Good(CppNew(from, c), K)
  BY <1>1, GoodSteps DEF CppNew, If
<1>3. \A c : Good(CppConstruction(from, c), K)
  BY <1>1, GoodSteps DEF CppConstruction, If
<1>4. \A c : Good(<<CppUsing(from, c)>>, K)
  BY GoodSteps, GoodParts DEF CppUsing
<1>5. parts \in Seq(Tree)
  BY InTree
<1> HIDE DEF parts
<1>6. \A c : Good(each(c), K)
  BY <1>2, <1>3, <1>4, GoodParts
<1> HIDE DEF each
<1>7. Good(FlattenSeq([i \in DOMAIN parts |-> each(parts[i])]), K)
  BY <1>5, <1>6, GoodSteps, InTree
<1>8. QED
  BY <1>7 DEF CppBody, ForEach, each, parts

(* A method of a class, which may override one of its bases'. *)
LEMMA CppMethodGood ==
  ASSUME NEW K, NEW class \in K, NEW bases, IsList(DOMAIN bases), NEW n \in Tree
  PROVE  Good(CppMethod(class, bases, n), K)
<1> DEFINE name == CppMethodName(Field(n, "declarator"))
           id == Id("method", name, n)
           L == With(K, id)
           each(b) == <<Refer(id, "overrides", b \o name, n)>>
           overrides == FlattenSeq([i \in DOMAIN bases |-> each(bases[i])])
           body == If(n.kind = "function_definition", Inside(id, CppBody(id, Field(n, "body"))))
<1>1. id \in L
  BY WithMembers
<1> HIDE DEF name, L
<1>2. \A b : Good(each(b), L)
  BY <1>1, GoodSteps, GoodParts
<1> HIDE DEF each
<1>3. Good(overrides, L)
  BY <1>2, GoodSteps
<1> HIDE DEF overrides
<1>4. Good(If(name[1] # "~", overrides), L)
  BY <1>3, GoodSteps DEF If
<1>5. Good(body, L)
  BY <1>1, CppBodyGood, GoodSteps, GoodParts, InTree DEF If
<1> HIDE DEF body
<1>6. Good(CTypeRefs(id, n) \o If(name[1] # "~", overrides) \o body, L)
  BY <1>1, <1>4, <1>5, CTypeRefsGood, GoodSteps
<1>7. Good(<<DeclareIn(class, "method", name, n, CTypeRefs(id, n) \o If(name[1] # "~", overrides) \o body)>>, K)
  BY <1>6, GoodSteps, GoodParts DEF L
<1>8. Good(If(name # <<>>, <<DeclareIn(class, "method", name, n, CTypeRefs(id, n) \o If(name[1] # "~", overrides) \o body)>>), K)
  BY <1>7, GoodSteps DEF If
<1>9. QED
  BY <1>8 DEF CppMethod, CppOverrides, ForEach, overrides, each, body, name

(* A field of a class. *)
LEMMA CppFieldGood ==
  ASSUME NEW K, NEW class \in K, NEW n \in Tree
  PROVE  Good(CppField(class, n), K)
<1> DEFINE specifiers == {k.text : k \in Range(KidsOf(n, {"storage_class_specifier", "type_qualifier"}))}
           kind == IF <<"static">> \in specifiers /\ {<<"const">>, <<"constexpr">>} \cap specifiers # {}
                     THEN "constant" ELSE "field"
           fields == KidsOf(n, {"field_identifier"})
           names == IF fields # <<>> THEN [i \in DOMAIN fields |-> fields[i].text] ELSE <<CName(Field(n, "declarator"))>>
           each(name) == <<DeclareIn(class, kind, name, n, CTypeRef(Id(kind, name, n), Field(n, "type"), n))>>
<1>1. IsList(DOMAIN names)
  <2>1. IsList(DOMAIN fields)
    BY InTree
  <2> HIDE DEF fields
  <2>2. DOMAIN <<CName(Field(n, "declarator"))>> = 1..1
    OBVIOUS
  <2>3. QED
    BY <2>1, <2>2 DEF IsList
<1> HIDE DEF names, kind
<1>2. ASSUME NEW name PROVE Good(each(name), K)
  BY CTypeRefsGood, GoodSteps, GoodParts, WithMembers
<1> HIDE DEF each
<1>3. Good(FlattenSeq([i \in DOMAIN names |-> each(names[i])]), K)
  BY <1>1, <1>2, GoodSteps
<1>4. QED
  BY <1>3 DEF CppField, ForEach, each, names, kind

(* Classes and structs with bases and members. *)
LEMMA CppClassGood ==
  ASSUME NEW w, NEW K, Sees(w, K), NEW n \in Tree
  PROVE  Good(CppClass(w, n), K)
<1> DEFINE name == Field(n, "name").text
           id == Id("class", name, n)
           L == With(K, id)
           clause == Kid(n, {"base_class_clause"})
           basic == KidsOf(clause, {"type_identifier", "qualified_identifier"})
           bases == FlattenSeq([i \in DOMAIN basic |-> <<LastName(basic[i])>>])
           member(m) ==
             CASE m.kind = "function_definition" \/ CFunctionDeclarator(Field(m, "declarator")) # Nil ->
                    CppMethod(id, bases, m)
               [] m.kind = "field_declaration"    -> CppField(id, m)
               [] m.kind \in {"template_declaration", "using_declaration"} -> <<Visit("visit", m)>>
               [] OTHER                           -> <<>>
           base(b) == <<Refer(id, "extends", b, n)>>
           extends == FlattenSeq([i \in DOMAIN bases |-> base(bases[i])])
           members == FlattenSeq([i \in DOMAIN Field(n, "body").kids |-> member(Field(n, "body").kids[i])])
<1>1. IsList(DOMAIN bases)
  <2> DEFINE S == {LastName(basic[i]) : i \in DOMAIN basic}
  <2>1. IsList(DOMAIN basic)
    BY InTree
  <2> HIDE DEF basic
  <2>2. \A i \in DOMAIN basic : <<LastName(basic[i])>> \in Seq(S)
    OBVIOUS
  <2> HIDE DEF S
  <2>3. bases \in Seq(S)
    BY <2>1, <2>2, Collected
  <2>4. QED
    BY <2>3, Lists
<1>2. id \in L
  BY WithMembers
<1> HIDE DEF bases, L
<1>3. \A b : Good(base(b), L)
  BY <1>2, GoodSteps, GoodParts
<1> HIDE DEF base
<1>4. Good(extends, L)
  BY <1>1, <1>3, GoodSteps
<1> HIDE DEF extends
<1>5. \A m \in Tree : Good(CppMethod(id, bases, m), L) /\ Good(CppField(id, m), L)
  BY <1>1, <1>2, CppMethodGood, CppFieldGood
<1>6. \A m \in Tree : Good(member(m), L)
  BY <1>5, GoodSteps, GoodParts DEF Inner
<1> HIDE DEF member
<1>7. Good(members, L)
  BY <1>6, GoodSteps, InTree
<1> HIDE DEF members
<1>8. Good(Scope(w, "class", name, n, extends, members), K)
  BY <1>4, <1>7, GoodScopes DEF L
<1>9. QED
  BY <1>8, CStructGood DEF CppClass, ForEach, members, member, extends, base, bases

(* Functions, and methods that are defined outside their class. *)
LEMMA CppFunctionGood ==
  ASSUME NEW w, NEW K, Sees(w, K), NEW n \in Tree
  PROVE  Good(CppFunction(w, n), K)
BY CTypeRefsGood, CppBodyGood, GoodScopes, WithMembers, InTree DEF CppFunction

(* Variables, constants and prototypes. *)
LEMMA CppDeclarationGood ==
  ASSUME NEW w, NEW K, Sees(w, K), NEW n \in Tree
  PROVE  Good(CppDeclaration(w, n), K)
<1>1. ASSUME NEW id PROVE Good(CppConstruction(id, n), With(K, id))
  <2>1. \A name : Good(<<Refer(id, "instantiates", name, n)>>, With(K, id))
    BY GoodSteps, GoodParts, WithMembers
  <2>2. QED
    BY <2>1, GoodSteps DEF CppConstruction, If
<1>2. ASSUME NEW kind, NEW name
      PROVE  LET id == Id(kind, name, n)
             IN Good(<<Declare(w, kind, name, n,
                         IF kind = "function" THEN CTypeRefs(id, n)
                         ELSE CTypeRef(id, Field(n, "type"), n) \o CppConstruction(id, n))>>, K)
  BY <1>1, CTypeRefsGood, GoodSteps, GoodScopes, WithMembers
<1>3. QED
  BY <1>2 DEF CppDeclaration

(* All of walk_cpp.go. *)
LEMMA CppGood ==
  ASSUME NEW w, NEW K, Sees(w, K), NEW n \in Tree
  PROVE  Good(Cpp(w, n), K)
<1>1. Good(CppNamespace(w, n), K)
  BY GoodSteps, GoodScopes, GoodParts, InTree DEF CppNamespace, Inner
<1>2. Good(CppTemplate(w, n), K)
  BY CppFunctionGood, CppDeclarationGood, CppClassGood, GoodSteps, InTree DEF CppTemplate
<1>3. Good(<<CppUsing(Top(w), n)>>, K)
  BY GoodSteps, GoodParts, SeenScopes DEF CppUsing
<1>4. Good(CppAlias(w, n), K)
  <2> DEFINE name == Field(n, "name").text
             type == CppTypeName(Field(n, "type"))
             id == Id("type_alias", name, n)
  <2> HIDE DEF name, type
  <2>1. Good(<<Refer(id, "references", type, n)>>, With(K, id))
    BY GoodSteps, GoodParts, WithMembers
  <2>2. Good(If(type # <<>> /\ type[1] \notin Builtin["c"], <<Refer(id, "references", type, n)>>), With(K, id))
    BY <2>1, GoodSteps DEF If
  <2>3. QED
    BY <2>2, GoodSteps, GoodScopes DEF CppAlias, name, type
<1>5. QED
  BY <1>1, <1>2, <1>3, <1>4, CppClassGood, CppFunctionGood, CppDeclarationGood, CGood, GoodOften DEF Cpp, Inner

-----------------------------------------------------------------------------
(* Objective-C. *)

(* A method's body is walked inside the method. *)
LEMMA ObjCBodyGood ==
  ASSUME NEW K, NEW from \in K, NEW body \in Tree
  PROVE  Good(ObjCBody(from, body), K)
<1> DEFINE parts == Within(body, {"message_expression", "call_expression"})
           each(c) == IF c.kind = "message_expression" THEN ObjCMessage(from, c)
                      ELSE ReferIf(from, "calls", CCallee(Field(c, "function")), c)
<1>1. \A c : Good(ObjCMessage(from, c), K)
  BY GoodSteps, GoodParts DEF ObjCMessage
<1>2. parts \in Seq(Tree)
  BY InTree
<1> HIDE DEF parts
<1>3. \A c : Good(each(c), K)
  BY <1>1, GoodParts
<1> HIDE DEF each
<1>4. Good(FlattenSeq([i \in DOMAIN parts |-> each(parts[i])]), K)
  BY <1>2, <1>3, GoodSteps, InTree
<1>5. QED
  BY <1>4 DEF ObjCBody, ForEach, each, parts

(* A method of a class or protocol. *)
LEMMA ObjCMethodGood ==
  ASSUME NEW K, NEW scope \in K, NEW n \in Tree
  PROVE  GoodStep(ObjCMethod(scope, n), K)
<1> DEFINE selector == ObjCSelector(n)
<1> HIDE DEF selector
<1>1. Good(ObjCBody(Id("method", selector, n), Kid(n, {"compound_statement"})), With(K, Id("method", selector, n)))
  BY ObjCBodyGood, WithMembers, InTree
<1>2. QED
  BY <1>1, GoodParts, WithMembers DEF ObjCMethod, selector

(* A property or instance variable of a class. *)
LEMMA ObjCFieldGood ==
  ASSUME NEW K, NEW class \in K, NEW kind, NEW sd, NEW n
  PROVE  GoodStep(ObjCField(class, kind, sd, n), K)
<1> DEFINE name == ObjCFieldName(sd)
<1> HIDE DEF name
<1>1. \A t : Good(CTypeRef(Id(kind, name, n), t, n), With(K, Id(kind, name, n)))
  BY CTypeRefsGood, WithMembers
<1>2. QED
  BY <1>1, GoodParts DEF ObjCField, name

(* The instance variables of a class. *)
LEMMA ObjCInstanceVarsGood ==
  ASSUME NEW K, NEW class \in K, NEW n \in Tree
  PROVE  Good(ObjCInstanceVars(class, n), K)
<1> DEFINE variables == KidsOf(n, {"instance_variable"})
           declared(iv) == KidsOf(iv, {"struct_declaration"})
           field(sd) == <<ObjCField(class, "field", sd, sd)>>
           fields(iv) == FlattenSeq([i \in DOMAIN declared(iv) |-> field(declared(iv)[i])])
<1>1. variables \in Seq(Tree) /\ \A iv \in Tree : declared(iv) \in Seq(Tree)
  BY InTree
<1>2. \A sd : Good(field(sd), K)
  BY ObjCFieldGood, GoodSteps
<1> HIDE DEF variables, declared, field
<1>3. \A iv \in Tree : Good(fields(iv), K)
  BY <1>1, <1>2, GoodSteps, InTree
<1> HIDE DEF fields
<1>4. Good(FlattenSeq([i \in DOMAIN variables |-> fields(variables[i])]), K)
  BY <1>1, <1>3, GoodSteps, InTree
<1>5. QED
  BY <1>4 DEF ObjCInstanceVars, ForEach, fields, field, declared, variables

(* The names of the protocols that a class adopts. *)
LEMMA ObjCProtocolsAreAList == \A n \in Tree : IsList(DOMAIN ObjCProtocols(n))
<1> SUFFICES ASSUME NEW n \in Tree PROVE IsList(DOMAIN ObjCProtocols(n))
  OBVIOUS
<1> DEFINE lists == KidsOf(n, {"protocol_reference_list", "parameterized_arguments"})
           protocols(list) == KidsOf(list, {"identifier", "type_name"})
           name(p) == IF p.kind = "identifier" THEN p.text ELSE Kid(p, {"identifier"}).text
           names(p) == If(name(p) # <<>>, <<name(p)>>)
           each(list) == FlattenSeq([i \in DOMAIN protocols(list) |-> names(protocols(list)[i])])
           S == {name(p) : p \in Tree}
<1>1. lists \in Seq(Tree) /\ \A list \in Tree : protocols(list) \in Seq(Tree)
  BY InTree
<1> HIDE DEF name
<1>2. \A p \in Tree : names(p) \in Seq(S)
  <2>1. \A p \in Tree : name(p) \in S
    OBVIOUS
  <2> HIDE DEF S
  <2>2. <<>> \in Seq(S) /\ \A x \in S : <<x>> \in Seq(S)
    OBVIOUS
  <2>3. QED
    BY <2>1, <2>2 DEF If
<1> HIDE DEF lists, protocols, names, S
<1>3. \A list \in Tree : each(list) \in Seq(S)
  BY <1>1, <1>2, Collected, InTree
<1> HIDE DEF each
<1>4. FlattenSeq([i \in DOMAIN lists |-> each(lists[i])]) \in Seq(S)
  BY <1>1, <1>3, Collected, InTree
<1>5. IsList(DOMAIN FlattenSeq([i \in DOMAIN lists |-> each(lists[i])]))
  BY <1>4, Lists
<1>6. QED
  BY <1>5 DEF ObjCProtocols, ForEach, each, names, name, protocols, lists

(* Interfaces with their members; a category's methods are the scope's around it. *)
LEMMA ObjCInterfaceGood ==
  ASSUME NEW w, NEW K, Sees(w, K), NEW n \in Tree
  PROVE  Good(ObjCInterface(w, n), K)
<1> DEFINE name == Kid(n, {"identifier"}).text
           id == Id("class", name, n)
           L == With(K, id)
           property(m) == LET sd == Kid(m, {"struct_declaration"}) IN If(sd # Nil, <<ObjCField(id, "property", sd, m)>>)
           member(m) ==
             CASE m.kind = "instance_variables"   -> ObjCInstanceVars(id, m)
               [] m.kind = "property_declaration" -> property(m)
               [] m.kind \in ObjCMethods          -> <<ObjCMethod(id, m)>>
               [] OTHER                           -> <<>>
           members == FlattenSeq([i \in DOMAIN n.kids |-> member(n.kids[i])])
           methods == KidsOf(n, ObjCMethods)
           outside(m) == <<ObjCMethod(Top(w), m)>>
           others == FlattenSeq([i \in DOMAIN methods |-> outside(methods[i])])
           protocols == ObjCProtocols(n)
           protocol(p) == <<Refer(id, "implements", p, n)>>
           implements == FlattenSeq([i \in DOMAIN protocols |-> protocol(protocols[i])])
<1>1. \A m \in Tree : Good(outside(m), K)
  BY ObjCMethodGood, SeenScopes, GoodSteps
<1>2. methods \in Seq(Tree)
  BY InTree
<1> HIDE DEF methods, outside
<1>3. Good(others, K)
  BY <1>1, <1>2, GoodSteps, InTree
<1> HIDE DEF others
<1>4. id \in L
  BY WithMembers
<1> HIDE DEF L
<1>5. \A p : Good(protocol(p), L)
  BY <1>4, GoodSteps, GoodParts
<1>6. IsList(DOMAIN protocols)
  BY ObjCProtocolsAreAList
<1> HIDE DEF protocols, protocol
<1>7. Good(implements, L)
  BY <1>5, <1>6, GoodSteps
<1> HIDE DEF implements
<1>8. \A m \in Tree : Good(property(m), L)
  BY <1>4, ObjCFieldGood, GoodSteps DEF If
<1> HIDE DEF property
<1>9. \A m \in Tree : Good(member(m), L)
  BY <1>4, <1>8, ObjCInstanceVarsGood, ObjCMethodGood, GoodSteps
<1> HIDE DEF member
<1>10. Good(members, L)
  BY <1>9, GoodSteps, InTree
<1> HIDE DEF members
<1>11. Good(ReferIf(id, "extends", Field(n, "superclass").text, n) \o implements, L)
  BY <1>4, <1>7, GoodSteps, GoodParts
<1>12. Good(Scope(w, "class", name, n, ReferIf(id, "extends", Field(n, "superclass").text, n) \o implements, members), K)
  BY <1>10, <1>11, GoodScopes DEF L
<1>13. QED
  BY <1>3, <1>12, GoodSteps
     DEF ObjCInterface, ForEach, implements, protocol, protocols, members, member, property, others, outside, methods

(* Implementations: the methods are the class's, or the scope's around it. *)
LEMMA ObjCImplementationGood ==
  ASSUME NEW w, NEW K, Sees(w, K), NEW n \in Tree
  PROVE  Good(ObjCImplementation(w, n), K)
<1> DEFINE name == Kid(n, {"identifier"}).text
           id == Id("class", name, n)
           method(scope, m) == <<ObjCMethod(scope, m)>>
           definitions(m) == KidsOf(m, {"method_definition"})
           defined(scope, m) == FlattenSeq([i \in DOMAIN definitions(m) |-> method(scope, definitions(m)[i])])
           each(scope, m) ==
             CASE m.kind = "implementation_definition" -> defined(scope, m)
               [] m.kind \in ObjCMethods               -> method(scope, m)
               [] OTHER                                -> <<>>
           methods(scope) == FlattenSeq([i \in DOMAIN n.kids |-> each(scope, n.kids[i])])
<1>1. ASSUME NEW L, NEW scope \in L PROVE Good(methods(scope), L)
  <2>1. \A m \in Tree : Good(method(scope, m), L)
    BY <1>1, ObjCMethodGood, GoodSteps
  <2>2. \A m \in Tree : definitions(m) \in Seq(Tree)
    BY InTree
  <2> HIDE DEF method, definitions
  <2>3. \A m \in Tree : Good(defined(scope, m), L)
    BY <2>1, <2>2, GoodSteps, InTree
  <2> HIDE DEF defined
  <2>4. \A m \in Tree : Good(each(scope, m), L)
    BY <2>1, <2>3, GoodSteps
  <2> HIDE DEF each
  <2>5. QED
    BY <2>4, GoodSteps, InTree
<1> HIDE DEF methods
<1>2. Good(methods(Top(w)), K)
  BY <1>1, SeenScopes
<1>3. Good(Scope(w, "class", name, n, <<>>, methods(id)), K)
  BY <1>1, WithMembers, GoodSteps, GoodScopes
<1>4. QED
  BY <1>2, <1>3, GoodSteps DEF ObjCImplementation, ForEach, methods

(* All of walk_objc.go. *)
LEMMA ObjCGood ==
  ASSUME NEW w, NEW K, Sees(w, K), NEW n \in Tree
  PROVE  Good(ObjC(w, n), K)
<1>1. Good(ObjCProtocol(w, n), K)
  <2> DEFINE id == Id("interface", Kid(n, {"identifier"}).text, n)
             methods == KidsOf(n, ObjCMethods)
             each(m) == <<ObjCMethod(id, m)>>
  <2>1. \A m \in Tree : Good(each(m), With(K, id))
    BY ObjCMethodGood, WithMembers, GoodSteps
  <2> HIDE DEF each
  <2>2. Good(FlattenSeq([i \in DOMAIN methods |-> each(methods[i])]), With(K, id))
    BY <2>1, GoodSteps, InTree
  <2>3. QED
    BY <2>2, GoodSteps, GoodScopes DEF ObjCProtocol, ForEach, each
<1>2. Good(ObjCFunction(w, n), K)
  BY CTypeRefsGood, ObjCBodyGood, GoodScopes, WithMembers, InTree DEF ObjCFunction
<1>3. QED
  BY <1>1, <1>2, ObjCInterfaceGood, ObjCImplementationGood, CGood, GoodOften DEF ObjC, Inner

-----------------------------------------------------------------------------
(* Go. *)

(* Types and bodies refer from what they belong to. *)
LEMMA GoPartsGood ==
  ASSUME NEW K, NEW from \in K, NEW n \in Tree
  PROVE  Good(GoTypeRefs(from, n), K) /\ Good(GoBody(from, n), K)
<1>1. Good(GoTypeRefs(from, n), K)
  <2> DEFINE parts == GoTypeParts(n)
             each(x) == If(x.kind = "Ident" /\ x.text[1] \notin Builtin["go"], <<Refer(from, "references", x.text, x)>>)
  <2>1. \A x : Good(each(x), K)
    BY GoodSteps, GoodParts DEF If
  <2>2. parts \in Seq(Tree)
    BY GoTypePartsInTree
  <2> HIDE DEF each, parts
  <2>3. Good(FlattenSeq([i \in DOMAIN parts |-> each(parts[i])]), K)
    BY <2>1, <2>2, GoodSteps, InTree
  <2>4. QED
    BY <2>3 DEF GoTypeRefs, ForEach, each, parts
<1>2. Good(GoBody(from, n), K)
  BY GoodSteps, GoodParts, InTree DEF GoBody, ForEach
<1>3. QED
  BY <1>1, <1>2

(* Functions, and methods of a receiver whose type the file may have. *)
LEMMA GoFuncGood ==
  ASSUME NEW w, NEW K, Sees(w, K), NEW n \in Tree
  PROVE  Good(GoFunc(w, n), K)
<1> DEFINE name == Field(n, "Name").text
           kind == IF Has(n, "Recv") THEN "method" ELSE "function"
           id == Id(kind, name, n)
           of == GoTypeRefs(id, Field(n, "Type")) \o GoBody(id, Field(n, "Body"))
           type == GoTypeName(Field(n, "Recv"))
<1> HIDE DEF kind, type
<1>1. \A L : id \in L => Good(of, L)
  BY GoPartsGood, GoodSteps, InTree
<1> HIDE DEF of
<1>2. Good(ContainIn(w, type, id), With(K, id))
  BY GoodContain
<1>3. Good(If(Has(n, "Recv"), ContainIn(w, type, id)) \o of, With(K, id))
  BY <1>1, <1>2, GoodSteps, WithMembers DEF If
<1>4. Good(<<DeclareIn(FileId, kind, name, n, If(Has(n, "Recv"), ContainIn(w, type, id)) \o of)>>, K)
  BY <1>3, GoodSteps, GoodParts, SeenScopes
<1>5. HasNode(w, id) => Good(of, K)
  BY <1>1, SeenScopes
<1>6. QED
  BY <1>4, <1>5 DEF GoFunc, of, type, kind

(* Constants and variables, one node for each of their names. *)
LEMMA GoValuesGood ==
  ASSUME NEW w, NEW K, Sees(w, K), NEW kind, NEW s \in Tree
  PROVE  Good(GoValues(kind, s), K)
<1> DEFINE names == Those(s.kids, LAMBDA k : k.as = "Names" /\ k.text # <<"_">>)
           values == Those(s.kids, LAMBDA k : k.as = "Values")
           body(id, v) == GoBody(id, v)
           bodies(id) == FlattenSeq([i \in DOMAIN values |-> body(id, values[i])])
           each(x) == <<DeclareIn(FileId, kind, x.text, x, bodies(Id(kind, x.text, x)))>>
<1>1. names \in Seq(Tree) /\ values \in Seq(Tree)
  BY SeqsOfNodes, InTree DEF Those, ForEach, If
<1> HIDE DEF names, values
<1>2. ASSUME NEW L, NEW id \in L PROVE Good(bodies(id), L)
  <2>1. \A v \in Tree : Good(body(id, v), L)
    BY <1>2, GoPartsGood
  <2> HIDE DEF body
  <2>2. QED
    BY <1>1, <2>1, GoodSteps, InTree
<1> HIDE DEF bodies
<1>3. \A x : Good(each(x), K)
  BY <1>2, GoodSteps, GoodParts, SeenScopes, WithMembers
<1> HIDE DEF each
<1>4. Good(FlattenSeq([i \in DOMAIN names |-> each(names[i])]), K)
  BY <1>1, <1>3, GoodSteps, InTree
<1>5. QED
  BY <1>4 DEF GoValues, ForEach, each, bodies, names, values

(* Types with fields, embedded types and methods. *)
LEMMA GoTypeGood ==
  ASSUME NEW w, NEW K, Sees(w, K), NEW s \in Tree
  PROVE  Good(GoType(w, s), K)
<1> DEFINE type == Field(s, "Type")
           kind == CASE type.kind = "StructType"    -> "struct"
                     [] type.kind = "InterfaceType" -> "interface"
                     [] OTHER                       -> "type_alias"
           name == Field(s, "Name").text
           id == Id(kind, name, s)
           methods == Those(type.kids, LAMBDA m : Field(m, "Type").kind = "FuncType" /\ Has(m, "Names"))
           each(m) == <<DeclareIn(id, "method", Field(m, "Names").text, m, <<>>)>>
           of == If(kind = "interface", FlattenSeq([i \in DOMAIN methods |-> each(methods[i])]))
<1>1. methods \in Seq(Tree)
  BY SeqsOfNodes, InTree DEF Those, ForEach, If
<1> HIDE DEF methods, kind
<1>2. \A L, m : id \in L => Good(each(m), L)
  BY GoodSteps, GoodParts
<1> HIDE DEF each
<1>3. ASSUME NEW L, id \in L PROVE Good(of, L)
  <2>1. Good(FlattenSeq([i \in DOMAIN methods |-> each(methods[i])]), L)
    BY <1>1, <1>2, <1>3, GoodSteps, InTree
  <2>2. QED
    BY <2>1, GoodSteps DEF If
<1> HIDE DEF of
<1>4. Good(<<DeclareIn(FileId, kind, name, s, of)>>, K)
  BY <1>3, GoodSteps, GoodParts, SeenScopes, WithMembers
<1>5. HasNode(w, id) => Good(of, K)
  BY <1>3, SeenScopes
<1>6. QED
  BY <1>4, <1>5 DEF GoType, of, each, methods, kind, ForEach

(* All of walk_go.go. *)
LEMMA GoGood ==
  ASSUME NEW w, NEW K, Sees(w, K), NEW mode, NEW n \in Tree
  PROVE  Good(Go(w, mode, n), K)
<1>1. Good(GoImport(n), K)
  BY GoodSteps, GoodParts, SeenScopes, WithMembers DEF GoImport
<1>2. \A inner : Inner(inner) => Good(VisitEach(inner, n.kids), K)
  BY GoodOften
<1>3. QED
  BY <1>1, <1>2, GoFuncGood, GoValuesGood, GoTypeGood, GoodSteps DEF Go, Inner

-----------------------------------------------------------------------------
(* PHP. *)

(* Attributes refer from what they are attached to. *)
LEMMA PhpDecoratesGood ==
  ASSUME NEW K, NEW from \in K, NEW n \in Tree
  PROVE  Good(PhpDecorates(from, n), K)
<1> DEFINE lists == KidsOf(n, {"attribute_list"})
           attributes(al) == Within(al, {"attribute"})
           each(a) == ReferIf(from, "decorates",
                        LastName(IF Has(a, "name") THEN Field(a, "name") ELSE Kid(a, {"name", "qualified_name"})), n)
           referred(al) == FlattenSeq([i \in DOMAIN attributes(al) |-> each(attributes(al)[i])])
<1>1. lists \in Seq(Tree) /\ \A al \in Tree : attributes(al) \in Seq(Tree)
  BY InTree
<1>2. \A a : Good(each(a), K)
  BY GoodParts
<1> HIDE DEF lists, attributes, each
<1>3. \A al \in Tree : Good(referred(al), K)
  BY <1>1, <1>2, GoodSteps, InTree
<1> HIDE DEF referred
<1>4. Good(FlattenSeq([i \in DOMAIN lists |-> referred(lists[i])]), K)
  BY <1>1, <1>3, GoodSteps, InTree
<1>5. QED
  BY <1>4 DEF PhpDecorates, ForEach, referred, each, attributes, lists

(* extends, implements and use clauses refer from the class. *)
LEMMA PhpNameRefsGood ==
  ASSUME NEW K, NEW from \in K, NEW kind, NEW clauses \in Seq(Tree)
  PROVE  Good(PhpNameRefs(from, kind, clauses), K)
<1> DEFINE each(b) == ReferIf(from, kind, LastName(b), b)
           referred(c) == FlattenSeq([i \in DOMAIN c.kids |-> each(c.kids[i])])
<1>1. \A b : Good(each(b), K)
  BY GoodParts
<1> HIDE DEF each
<1>2. \A c \in Tree : Good(referred(c), K)
  BY <1>1, GoodSteps, InTree
<1> HIDE DEF referred
<1>3. Good(FlattenSeq([i \in DOMAIN clauses |-> referred(clauses[i])]), K)
  BY <1>2, GoodSteps, InTree
<1>4. QED
  BY <1>3 DEF PhpNameRefs, ForEach, referred, each

(* Classes, interfaces, traits, enums and functions. *)
LEMMA PhpTypesGood ==
  ASSUME NEW w, NEW K, Sees(w, K), NEW n \in Tree
  PROVE  /\ \A kind : Good(PhpClassLike(w, kind, n), K)
         /\ Good(PhpEnum(w, n), K)
         /\ \A kind : Good(PhpCallable(w, kind, n), K)
<1>1. \A L : Good(PhpBody(n), L)
  BY GoodParts, InTree DEF PhpBody, Inner
<1>2. ASSUME NEW L, NEW id \in L PROVE Good(PhpBases(id, n), L)
  <2> DEFINE each(c) == CASE c.kind = "base_clause"            -> PhpNameRefs(id, "extends", <<c>>)
                          [] c.kind = "class_interface_clause" -> PhpNameRefs(id, "implements", <<c>>)
                          [] OTHER                             -> <<>>
  <2>1. \A c \in Tree : Good(each(c), L)
    BY PhpNameRefsGood, GoodSteps, SeqsOfNodes
  <2> HIDE DEF each
  <2>2. Good(FlattenSeq([i \in DOMAIN n.kids |-> each(n.kids[i])]), L)
    BY <2>1, GoodSteps, InTree
  <2>3. QED
    BY <2>2 DEF PhpBases, ForEach, each
<1>3. ASSUME NEW kind PROVE Good(PhpClassLike(w, kind, n), K)
  BY <1>1, <1>2, PhpDecoratesGood, GoodSteps, GoodScopes, WithMembers DEF PhpClassLike
<1>4. Good(PhpEnum(w, n), K)
  <2> DEFINE id == Id("enum", Field(n, "name").text, n)
  <2>1. Good(PhpDecorates(id, n) \o PhpNameRefs(id, "implements", KidsOf(n, {"class_interface_clause"})), With(K, id))
    BY PhpDecoratesGood, PhpNameRefsGood, GoodSteps, WithMembers, InTree
  <2>2. QED
    BY <1>1, <2>1, GoodScopes DEF PhpEnum
<1>5. ASSUME NEW kind PROVE Good(PhpCallable(w, kind, n), K)
  BY <1>1, PhpDecoratesGood, GoodScopes, WithMembers DEF PhpCallable
<1>6. QED
  BY <1>3, <1>4, <1>5

(* Calls, whose chains are walked below them. *)
LEMMA PhpCallGood ==
  ASSUME NEW w, NEW K, Sees(w, K), NEW n \in Tree
  PROVE  Good(PhpCall(w, n), K)
<1> DEFINE chain == PhpChain(n)
           each(c) == ReferIf(Top(w), "calls", PhpCallee(c), c) \o VisitEach("visit", Field(c, "arguments").kids)
<1>1. chain \in Seq(Tree)
  BY WalkInTree, SeqsOfNodes DEF PhpChain, Those, ForEach, If
<1>2. \A c \in Tree : Good(each(c), K)
  BY GoodSteps, GoodOften DEF Inner
<1> HIDE DEF chain, each
<1>3. Good(FlattenSeq([i \in DOMAIN chain |-> each(chain[i])]), K)
  BY <1>1, <1>2, GoodSteps, InTree
<1>4. QED
  BY <1>3 DEF PhpCall, ForEach, each, chain

(* All of walk_php.go. *)
LEMMA PhpGood ==
  ASSUME NEW w, NEW K, Sees(w, K), NEW n \in Tree
  PROVE  Good(Php(w, n), K)
<1>1. Good(PhpNamespace(w, n), K)
  <2> DEFINE id == Id("namespace", Field(n, "name").text, n)
  <2>1. \A L : Good(PhpBody(n), L)
    BY GoodParts, InTree DEF PhpBody, Inner
  <2>2. Good(If(Has(n, "body"), Inside(id, PhpBody(n))), With(K, id))
    BY <2>1, GoodSteps, GoodParts, WithMembers DEF If
  <2>3. QED
    BY <2>1, <2>2, GoodSteps, GoodScopes DEF PhpNamespace
<1>2. Good(PhpUse(w, n), K)
  <2> DEFINE clauses == KidsOf(n, {"namespace_use_clause"})
             name(c) == IF Has(c, "alias") THEN Field(c, "alias").text
                        ELSE LastName(Kid(c, {"qualified_name", "name"}))
             each(c) == If(name(c) # <<>>, <<Declare(w, "import", name(c), c, <<>>), Refer(Top(w), "imports", name(c), c)>>)
  <2>1. clauses \in Seq(Tree)
    BY InTree
  <2> HIDE DEF clauses, name
  <2>2. \A c : Good(each(c), K)
    BY GoodSteps, GoodOften DEF If
  <2> HIDE DEF each
  <2>3. Good(FlattenSeq([i \in DOMAIN clauses |-> each(clauses[i])]), K)
    BY <2>1, <2>2, GoodSteps, InTree
  <2>4. QED
    BY <2>3 DEF PhpUse, ForEach, each, name, clauses
<1>3. Good(PhpProperty(w, n), K)
  BY GoodSteps, GoodOften, InTree DEF PhpProperty, ForEach
<1>4. Good(PhpConst(w, n), K)
  BY GoodSteps, GoodOften, InTree DEF PhpConst, ForEach
<1>5. Good(PhpTraitUse(w, n), K)
  BY GoodSteps, GoodOften, InTree DEF PhpTraitUse, ForEach
<1>6. Good(PhpNew(w, n), K)
  BY GoodSteps, GoodOften DEF PhpNew, Inner
<1>7. Good(PhpAssignment(w, n), K)
  <2>1. \A kind, name : Good(<<Declare(w, kind, name, n, <<>>)>>, K)
    BY GoodOften
  <2>2. \A kinds, name : Good(<<DeclareIn(Nearest(w, kinds), "field", name, n, <<>>)>>, K)
    BY SeenScopes, GoodSteps, GoodParts
  <2>3. Good(<<Visit("visit", Field(n, "right"))>>, K)
    BY GoodOften DEF Inner
  <2>4. QED
    BY <2>1, <2>2, <2>3, GoodSteps DEF PhpAssignment, If
<1>8. QED
  BY <1>1, <1>2, <1>3, <1>4, <1>5, <1>6, <1>7, PhpTypesGood, PhpCallGood, GoodOften DEF Php, Inner

-----------------------------------------------------------------------------
(* TypeScript. *)

(* A function's body is walked inside the function. *)
LEMMA TsBodyGood ==
  ASSUME NEW K, NEW from \in K, NEW body \in Tree
  PROVE  Good(TsBody(from, body), K)
<1> DEFINE parts == Within(body, {"call_expression", "new_expression"})
           each(c) == IF c.kind = "call_expression" THEN TsCall(from, c) ELSE TsInstantiation(from, c)
<1>1. parts \in Seq(Tree)
  BY InTree
<1>2. \A c : Good(each(c), K)
  BY GoodParts DEF TsCall, TsInstantiation
<1> HIDE DEF parts, each
<1>3. Good(FlattenSeq([i \in DOMAIN parts |-> each(parts[i])]), K)
  BY <1>1, <1>2, GoodSteps, InTree
<1>4. QED
  BY <1>3 DEF TsBody, ForEach, each, parts

(* The body of a function, or of an arrow in its place. *)
LEMMA TsResolvedBodyInTree == \A n \in Tree : TsResolvedBody(n) \in Tree
<1> SUFFICES ASSUME NEW n \in Tree PROVE TsResolvedBody(n) \in Tree
  OBVIOUS
<1> DEFINE called(k) == Field(Kid(Field(k, "arguments"), TsFunctions), "body")
           body(i) == CASE n.kids[i].kind \in TsFunctions     -> Field(n.kids[i], "body")
                        [] n.kids[i].kind = "call_expression" -> called(n.kids[i])
                        [] OTHER                              -> Nil
           all == [i \in DOMAIN n.kids |-> body(i)]
           bodies == Those(all, LAMBDA b : b # Nil)
<1>1. \A i \in DOMAIN n.kids : body(i) \in Tree
  BY InTree, NilInTree
<1> HIDE DEF body
<1>2. all \in Seq(Tree)
  BY <1>1, InTree, Lists
<1> HIDE DEF all
<1>3. bodies \in Seq(Tree)
  BY <1>2, SeqsOfNodes DEF Those, ForEach, If
<1> HIDE DEF bodies
<1>4. First(bodies) \in Tree /\ Field(n, "body") \in Tree
  BY <1>3, EndsInTree, InTree
<1>5. QED
  BY <1>4 DEF TsResolvedBody, bodies, all, body

(* Type annotations refer from what they annotate. *)
LEMMA TsTypesGood ==
  ASSUME NEW K, NEW from \in K, NEW t \in Tree
  PROVE  Good(TsTypes(from, t), K)
<1> DEFINE ids == Within(t, {"type_identifier"})
           each(i) == If(i.text # <<>> /\ i.text[1] \notin Builtin["typescript"], <<Refer(from, "references", i.text, i)>>)
<1>1. ids \in Seq(Tree)
  BY InTree
<1>2. \A i : Good(each(i), K)
  BY GoodSteps, GoodParts DEF If
<1> HIDE DEF ids, each
<1>3. Good(FlattenSeq([i \in DOMAIN ids |-> each(ids[i])]), K)
  BY <1>1, <1>2, GoodSteps, InTree
<1>4. QED
  BY <1>3 DEF TsTypes, ForEach, each, ids

(* So do those of parameters and results. *)
LEMMA TsAnnotationsGood ==
  ASSUME NEW K, NEW from \in K, NEW n \in Tree
  PROVE  Good(TsAnnotations(from, n), K)
<1> DEFINE types(a) == TsTypes(from, a)
           annotations(p) == KidsOf(p, {"type_annotation"})
           annotated(p) == FlattenSeq([i \in DOMAIN annotations(p) |-> types(annotations(p)[i])])
           of(p) == IF Has(p, "type") THEN TsTypes(from, Field(p, "type")) ELSE annotated(p)
           params == Field(n, "parameters").kids
           ofParams == FlattenSeq([i \in DOMAIN params |-> of(params[i])])
<1>1. \A a \in Tree : Good(types(a), K)
  BY TsTypesGood
<1>2. \A p \in Tree : annotations(p) \in Seq(Tree)
  BY InTree
<1> HIDE DEF types, annotations
<1>3. \A p \in Tree : Good(annotated(p), K)
  BY <1>1, <1>2, GoodSteps, InTree
<1> HIDE DEF annotated
<1>4. \A p \in Tree : Good(of(p), K)
  BY <1>3, TsTypesGood, InTree
<1> HIDE DEF of
<1>5. Good(ofParams, K)
  BY <1>4, GoodSteps, InTree
<1> HIDE DEF ofParams
<1>6. Good(If(n.kind = "type_alias_declaration", TsTypes(from, Field(n, "value"))), K)
  BY TsTypesGood, GoodSteps, InTree DEF If
<1>7. Good(TsTypes(from, Field(n, "return_type")), K) /\ Good(TsTypes(from, Kid(n, {"type_annotation"})), K)
  BY TsTypesGood, InTree
<1>8. Good(TsTypes(from, Field(n, "return_type")) \o ofParams \o TsTypes(from, Kid(n, {"type_annotation"}))
             \o If(n.kind = "type_alias_declaration", TsTypes(from, Field(n, "value"))), K)
  BY <1>5, <1>6, <1>7, GoodSteps
<1>9. QED
  BY <1>8 DEF TsAnnotations, ForEach, ofParams, of, annotated, annotations, types

(* A declaration with its types and its body. *)
LEMMA TsDeclaredGood ==
  ASSUME NEW w, NEW K, Sees(w, K), NEW kind, NEW name, NEW n \in Tree
  PROVE  Good(<<Declare(w, kind, name, n, TsAnnotations(Id(kind, name, n), n)
                         \o Inside(Id(kind, name, n), TsBody(Id(kind, name, n), TsResolvedBody(n))))>>, K)
<1> DEFINE id == Id(kind, name, n)
<1>1. Good(TsAnnotations(id, n) \o Inside(id, TsBody(id, TsResolvedBody(n))), With(K, id))
  BY TsAnnotationsGood, TsBodyGood, TsResolvedBodyInTree, GoodSteps, GoodParts, WithMembers
<1>2. QED
  BY <1>1, GoodSteps, GoodScopes

(* Functions and methods, whatever name they are given. *)
LEMMA TsFunctionGood ==
  ASSUME NEW w, NEW K, Sees(w, K), NEW given, NEW n \in Tree
  PROVE  Good(TsFunction(w, given, n), K)
<1>1. Good(TsBody(Top(w), TsResolvedBody(n)), K)
  BY TsBodyGood, TsResolvedBodyInTree, SeenScopes
<1> DEFINE name == IF given # <<>> THEN given
                   ELSE IF n.kind \in TsFunctions THEN <<>> ELSE Field(n, "name").text
<1> HIDE DEF name
<1>2. Good(<<Declare(w, "function", name, n, TsAnnotations(Id("function", name, n), n)
               \o Inside(Id("function", name, n), TsBody(Id("function", name, n), TsResolvedBody(n))))>>, K)
  BY TsDeclaredGood
<1>3. QED
  BY <1>1, <1>2 DEF TsFunction, name

(* Enums with their members. *)
LEMMA TsEnumGood ==
  ASSUME NEW w, NEW K, Sees(w, K), NEW n \in Tree
  PROVE  Good(TsEnum(w, n), K)
<1> DEFINE id == Id("enum", Field(n, "name").text, n)
           named(m) == Kid(m, {"simple_identifier", "identifier", "property_identifier"})
           member(m) ==
             CASE Has(m, "name")    -> <<DeclareIn(id, "enum_member", Field(m, "name").text, m, <<>>)>>
               [] named(m) # Nil    -> <<DeclareIn(id, "enum_member", named(m).text, named(m), <<>>)>>
               [] Len(m.kids) = 0   -> <<DeclareIn(id, "enum_member", m.text, m, <<>>)>>
               [] OTHER             -> <<>>
           members == KidsOf(Field(n, "body"), {"property_identifier", "enum_assignment"})
<1>1. members \in Seq(Tree)
  BY InTree
<1> HIDE DEF members, named
<1>2. \A m : Good(member(m), With(K, id))
  BY GoodSteps, GoodParts, WithMembers
<1> HIDE DEF member
<1>3. Good(FlattenSeq([i \in DOMAIN members |-> member(members[i])]), With(K, id))
  BY <1>1, <1>2, GoodSteps, InTree
<1>4. QED
  BY <1>3, GoodSteps, GoodScopes DEF TsEnum, ForEach, member, members, named

(* An import, and a reference for each of its names. *)
LEMMA TsImportGood ==
  ASSUME NEW w, NEW K, Sees(w, K), NEW n \in Tree
  PROVE  Good(TsImport(w, n), K)
<1>1. ASSUME NEW clause \in Tree PROVE Good(TsBindings(Top(w), n, clause), K)
  <2> DEFINE bound(s) == CASE Has(s, "alias") -> Field(s, "alias")
                           [] Has(s, "name")  -> Field(s, "name")
                           [] OTHER           -> First(s.kids)
             one(s) == ReferIf(Top(w), "imports", bound(s).text, s)
             specs(k) == KidsOf(k, {"import_specifier"})
             named(k) == FlattenSeq([i \in DOMAIN specs(k) |-> one(specs(k)[i])])
             each(k) == CASE k.kind = "identifier"       -> ReferIf(Top(w), "imports", k.text, k)
                          [] k.kind = "namespace_import" -> ReferIf(Top(w), "imports", Kid(k, {"identifier"}).text, k)
                          [] k.kind = "named_imports"    -> named(k)
                          [] OTHER                       -> <<>>
  <2> HIDE DEF bound
  <2>1. \A s : Good(one(s), K)
    BY GoodOften
  <2>2. \A k \in Tree : specs(k) \in Seq(Tree)
    BY InTree
  <2> HIDE DEF one, specs
  <2>3. \A k \in Tree : Good(named(k), K)
    BY <2>1, <2>2, GoodSteps, InTree
  <2> HIDE DEF named
  <2>4. \A k \in Tree : Good(each(k), K)
    BY <2>3, GoodSteps, GoodOften
  <2> HIDE DEF each
  <2>5. Good(FlattenSeq([i \in DOMAIN clause.kids |-> each(clause.kids[i])]), K)
    BY <2>4, GoodSteps, InTree
  <2>6. QED
    BY <2>5 DEF TsBindings, ForEach, each, named, specs, one, bound
<1> DEFINE clauses == KidsOf(n, {"import_clause"})
           bindings(c) == TsBindings(Top(w), n, c)
           all == FlattenSeq([i \in DOMAIN clauses |-> bindings(clauses[i])])
           module == Field(n, "source").text
<1>2. clauses \in Seq(Tree) /\ \A c \in Tree : Good(bindings(c), K)
  BY <1>1, InTree
<1> HIDE DEF clauses, bindings
<1>3. Good(all, K)
  BY <1>2, GoodSteps, InTree
<1> HIDE DEF all
<1>4. Good(<<Declare(w, "import", module, n, <<>>), Refer(Top(w), "imports", module, n)>> \o all, K)
  BY <1>3, GoodSteps, GoodOften
<1>5. QED
  BY <1>4, GoodSteps DEF TsImport, ForEach, If, all, bindings, clauses

(* Names that are passed on are references of the scope on top. *)
LEMMA TsReExportGood ==
  ASSUME NEW w, NEW K, Sees(w, K), NEW n \in Tree
  PROVE  Good(TsReExport(w, n), K)
<1> DEFINE clauses == KidsOf(n, {"export_clause"})
           specs(c) == KidsOf(c, {"export_specifier"})
           name(s) == (IF Has(s, "name") THEN Field(s, "name") ELSE First(s.kids)).text
           one(s) == If(name(s) \notin {<<>>, <<"default">>}, <<Refer(Top(w), "imports", name(s), s)>>)
           each(c) == FlattenSeq([i \in DOMAIN specs(c) |-> one(specs(c)[i])])
<1> HIDE DEF name
<1>1. \A s : Good(one(s), K)
  BY GoodSteps, GoodOften DEF If
<1>2. clauses \in Seq(Tree) /\ \A c \in Tree : specs(c) \in Seq(Tree)
  BY InTree
<1> HIDE DEF clauses, specs, one
<1>3. \A c \in Tree : Good(each(c), K)
  BY <1>1, <1>2, GoodSteps, InTree
<1> HIDE DEF each
<1>4. Good(FlattenSeq([i \in DOMAIN clauses |-> each(clauses[i])]), K)
  BY <1>2, <1>3, GoodSteps, InTree
<1>5. QED
  BY <1>4 DEF TsReExport, ForEach, each, one, name, specs, clauses

(* Variables and the functions they hold. *)
LEMMA TsVariableGood ==
  ASSUME NEW w, NEW K, Sees(w, K), NEW n \in Tree
  PROVE  Good(TsVariable(w, n), K)
<1> DEFINE kind == IF n.kind = "lexical_declaration" /\ "const" \in Range(n.text) THEN "constant" ELSE "variable"
           declarators == KidsOf(n, {"variable_declarator"})
           value(d) == Field(d, "value")
           plain(d) == <<Declare(w, kind, Field(d, "name").text, d,
                           If(value(d).kind \notin {"object", "object_expression"}, TsBody(Top(w), value(d))))>>
           declared(d) ==
             CASE Field(d, "name").kind \in {"nil", "object_pattern", "array_pattern"} -> <<>>
               [] value(d).kind \in TsFunctions -> TsFunction(w, Field(d, "name").text, value(d))
               [] OTHER -> plain(d)
<1> HIDE DEF kind
<1>1. ASSUME NEW d \in Tree PROVE Good(plain(d), K)
  <2>1. \A L : Top(w) \in L => Good(TsBody(Top(w), value(d)), L)
    BY TsBodyGood, InTree
  <2>2. \A id : Good(If(value(d).kind \notin {"object", "object_expression"}, TsBody(Top(w), value(d))), With(K, id))
    BY <2>1, SeenScopes, WithMembers, GoodSteps DEF If
  <2>3. QED
    BY <2>2, GoodSteps, GoodScopes
<1> HIDE DEF plain
<1>2. declarators \in Seq(Tree)
  BY InTree
<1>3. \A d \in Tree : Good(declared(d), K)
  BY <1>1, TsFunctionGood, GoodSteps, InTree
<1> HIDE DEF declarators, declared
<1>4. Good(FlattenSeq([i \in DOMAIN declarators |-> declared(declarators[i])]), K)
  BY <1>2, <1>3, GoodSteps, InTree
<1>5. QED
  BY <1>4 DEF TsVariable, ForEach, declared, plain, declarators, kind

(* All of walk_typescript.go. *)
LEMMA TypeScriptGood ==
  ASSUME NEW w, NEW K, Sees(w, K), NEW n \in Tree
  PROVE  Good(TypeScript(w, n), K)
<1>1. \A kind : Good(TsType(w, kind, n), K)
  <2> DEFINE body == IF Has(n, "body") THEN Field(n, "body") ELSE n
  <2>1. body \in Tree
    BY InTree
  <2> HIDE DEF body
  <2>2. \A L : Good(VisitEach("visit", body.kids), L)
    BY <2>1, GoodParts, InTree DEF Inner
  <2>3. QED
    BY <2>2, GoodSteps, GoodScopes DEF TsType, body
<1>2. Good(TsMethod(w, n), K)
  BY TsFunctionGood, TsDeclaredGood, GoodSteps, InTree DEF TsMethod
<1>3. Good(TsTypeAlias(w, n), K)
  BY TsAnnotationsGood, GoodSteps, GoodScopes, WithMembers DEF TsTypeAlias
<1>4. Good(TsBody(Top(w), Field(n, "body")), K)
  BY TsBodyGood, SeenScopes, InTree
<1>5. Good(TsCall(Top(w), n), K) /\ Good(TsInstantiation(Top(w), n), K)
  BY GoodOften DEF TsCall, TsInstantiation
<1>6. QED
  BY <1>1, <1>2, <1>3, <1>4, <1>5, TsFunctionGood, TsEnumGood, TsImportGood, TsReExportGood, TsVariableGood, GoodOften
     DEF TypeScript, Inner

-----------------------------------------------------------------------------
(* Java. *)

(* extends and implements refer from the class. *)
LEMMA JavaTypeRefsGood ==
  ASSUME NEW K, NEW from \in K, NEW kind, NEW types \in Tree
  PROVE  Good(JavaTypeRefs(from, kind, types), K)
<1> DEFINE outermost == Outermost(types, {"type_identifier", "scoped_type_identifier", "generic_type"})
           each(t) == ReferIf(from, kind, JavaSimple(t), types)
<1>1. outermost \in Seq(Tree)
  BY OutermostInTree
<1>2. \A t : Good(each(t), K)
  BY GoodParts
<1> HIDE DEF outermost, each
<1>3. Good(FlattenSeq([i \in DOMAIN outermost |-> each(outermost[i])]), K)
  BY <1>1, <1>2, GoodSteps, InTree
<1>4. QED
  BY <1>3 DEF JavaTypeRefs, ForEach, each, outermost

(* Annotations refer from what they annotate. *)
LEMMA JavaDecoratesGood ==
  ASSUME NEW K, NEW from \in K, NEW n \in Tree
  PROVE  Good(JavaDecorates(from, n), K)
BY GoodSteps, GoodParts, InTree DEF JavaDecorates, ForEach

(* Classes, interfaces, enums and methods. *)
LEMMA JavaTypesGood ==
  ASSUME NEW w, NEW K, Sees(w, K), NEW n \in Tree
  PROVE  /\ Good(JavaClass(w, n), K)
         /\ Good(JavaInterface(w, n), K)
         /\ Good(JavaEnum(w, n), K)
         /\ Good(JavaMethod(w, n), K)
<1> DEFINE name == Field(n, "name").text
<1>1. \A L : Good(JavaBody(n), L)
  BY GoodParts, InTree DEF JavaBody, Inner
<1>2. Good(JavaClass(w, n), K)
  <2> DEFINE id == Id("class", name, n)
  <2>1. Good(JavaDecorates(id, n) \o JavaTypeRefs(id, "extends", Field(n, "superclass"))
               \o JavaTypeRefs(id, "implements", Field(n, "interfaces")), With(K, id))
    BY JavaDecoratesGood, JavaTypeRefsGood, GoodSteps, WithMembers, InTree
  <2>2. QED
    BY <1>1, <2>1, GoodScopes DEF JavaClass
<1>3. Good(JavaInterface(w, n), K)
  <2> DEFINE id == Id("interface", name, n)
             clauses == KidsOf(n, {"extends_interfaces"})
             each(c) == JavaTypeRefs(id, "extends", c)
             referred == FlattenSeq([i \in DOMAIN clauses |-> each(clauses[i])])
  <2>1. \A c \in Tree : Good(each(c), With(K, id))
    BY JavaTypeRefsGood, WithMembers
  <2>2. clauses \in Seq(Tree)
    BY InTree
  <2> HIDE DEF clauses, each
  <2>3. Good(referred, With(K, id))
    BY <2>1, <2>2, GoodSteps, InTree
  <2> HIDE DEF referred
  <2>4. Good(JavaDecorates(id, n) \o referred, With(K, id))
    BY <2>3, JavaDecoratesGood, GoodSteps, WithMembers
  <2>5. QED
    BY <1>1, <2>4, GoodScopes DEF JavaInterface, ForEach, referred, each, clauses
<1>4. Good(JavaEnum(w, n), K)
  <2> DEFINE id == Id("enum", name, n)
             member(k) == IF k.kind = "enum_constant"
                            THEN DeclareIn(id, "enum_member", Field(k, "name").text, k, <<>>)
                            ELSE Visit("visit", k)
             each(k) == <<member(k)>>
             kids == Field(n, "body").kids
  <2>1. \A k \in Tree : GoodStep(member(k), With(K, id))
    BY GoodSteps, GoodParts, WithMembers DEF Inner
  <2> HIDE DEF member
  <2>2. \A k \in Tree : Good(each(k), With(K, id))
    BY <2>1, GoodSteps
  <2>3. kids \in Seq(Tree)
    BY InTree
  <2> HIDE DEF each, kids
  <2>4. Good(FlattenSeq([i \in DOMAIN kids |-> each(kids[i])]), With(K, id))
    BY <2>2, <2>3, GoodSteps, InTree
  <2>5. Good(JavaDecorates(id, n), With(K, id))
    BY JavaDecoratesGood, WithMembers
  <2>6. QED
    BY <2>4, <2>5, GoodScopes DEF JavaEnum, ForEach, each, member, kids
<1>5. Good(JavaMethod(w, n), K)
  BY <1>1, JavaDecoratesGood, GoodScopes, WithMembers DEF JavaMethod
<1>6. QED
  BY <1>2, <1>3, <1>4, <1>5

(* All of walk_java.go. *)
LEMMA JavaGood ==
  ASSUME NEW w, NEW K, Sees(w, K), NEW n \in Tree
  PROVE  Good(Java(w, n), K)
<1>1. Good(JavaImport(w, n), K)
  BY GoodSteps, GoodOften DEF JavaImport, If
<1>2. ASSUME NEW m \in Tree PROVE Good(JavaNew(w, m), K)
  BY GoodSteps, GoodOften DEF JavaNew, Inner
<1>3. Good(JavaField(w, n), K)
  <2> DEFINE kind == IF {"static", "final"} \subseteq Range(Kid(n, {"modifiers"}).text) THEN "constant" ELSE "field"
             declarators == KidsOf(n, {"variable_declarator"})
             each(d) == If(Field(d, "name").text # <<>>,
                          <<Declare(w, kind, Field(d, "name").text, d, <<>>)>>
                            \o If(Field(d, "value").kind = "object_creation_expression", JavaNew(w, Field(d, "value"))))
  <2> HIDE DEF kind
  <2>1. \A d \in Tree : Good(each(d), K)
    BY <1>2, GoodSteps, GoodOften, InTree DEF If
  <2>2. declarators \in Seq(Tree)
    BY InTree
  <2> HIDE DEF declarators, each
  <2>3. Good(FlattenSeq([i \in DOMAIN declarators |-> each(declarators[i])]), K)
    BY <2>1, <2>2, GoodSteps, InTree
  <2>4. QED
    BY <2>3 DEF JavaField, ForEach, each, declarators, kind
<1>4. Good(JavaLocalVar(w, n), K)
  <2> DEFINE declarators == KidsOf(n, {"variable_declarator"})
             each(d) == If(Field(d, "name").text # <<>>,
                          <<Declare(w, "variable", Field(d, "name").text, d, <<>>)>>
                            \o If(Has(d, "value"), <<Visit("visit", Field(d, "value"))>>))
  <2>1. \A d \in Tree : Good(each(d), K)
    BY GoodSteps, GoodOften DEF If, Inner
  <2>2. declarators \in Seq(Tree)
    BY InTree
  <2> HIDE DEF declarators, each
  <2>3. Good(FlattenSeq([i \in DOMAIN declarators |-> each(declarators[i])]), K)
    BY <2>1, <2>2, GoodSteps, InTree
  <2>4. QED
    BY <2>3 DEF JavaLocalVar, ForEach, each, declarators
<1>5. Good(JavaCall(w, n), K)
  <2> DEFINE object == Field(n, "object")
             method == Field(n, "name").text
             name == IF object.kind = "identifier" /\ method # <<>> THEN object.text \o method ELSE method
  <2> HIDE DEF name
  <2>1. Good(ReferIf(Top(w), "calls", name, n), K)
    BY GoodOften
  <2>2. Good(If(object # Nil, <<Visit("visit", object)>>), K)
    BY GoodSteps, GoodOften DEF If, Inner
  <2>3. Good(VisitEach("visit", Field(n, "arguments").kids), K)
    BY GoodOften DEF Inner
  <2>4. QED
    BY <2>1, <2>2, <2>3, GoodSteps DEF JavaCall, name
<1>6. QED
  BY <1>1, <1>2, <1>3, <1>4, <1>5, JavaTypesGood, GoodOften DEF Java, Inner

-----------------------------------------------------------------------------
(* C#. *)

(* Attributes refer from what they are attached to. *)
LEMMA CsDecoratesGood ==
  ASSUME NEW K, NEW from \in K, NEW n \in Tree
  PROVE  Good(CsDecorates(from, n), K)
<1> DEFINE lists == KidsOf(n, {"attribute_list"})
           attributes(al) == Those(al.kids, LAMBDA a : a.kind = "attribute" /\ Has(a, "name"))
           each(a) == <<Refer(from, "decorates", CsType(Field(a, "name")), n)>>
           referred(al) == FlattenSeq([i \in DOMAIN attributes(al) |-> each(attributes(al)[i])])
<1>1. lists \in Seq(Tree)
  BY InTree
<1>2. \A al \in Tree : attributes(al) \in Seq(Tree)
  BY SeqsOfNodes, InTree DEF Those, ForEach, If
<1>3. \A a : Good(each(a), K)
  BY GoodSteps, GoodParts
<1> HIDE DEF lists, attributes, each
<1>4. \A al \in Tree : Good(referred(al), K)
  BY <1>2, <1>3, GoodSteps, InTree
<1> HIDE DEF referred
<1>5. Good(FlattenSeq([i \in DOMAIN lists |-> referred(lists[i])]), K)
  BY <1>1, <1>4, GoodSteps, InTree
<1>6. QED
  BY <1>5 DEF CsDecorates, ForEach, referred, each, attributes, lists

(* Types, enums and methods. *)
LEMMA CsTypesGood ==
  ASSUME NEW w, NEW K, Sees(w, K), NEW n \in Tree
  PROVE  /\ \A kind : Good(CsTypeDeclaration(w, kind, n), K)
         /\ Good(CsEnum(w, n), K)
         /\ Good(CsMethod(w, n), K)
<1>1. ASSUME NEW kind PROVE Good(CsTypeDeclaration(w, kind, n), K)
  <2> DEFINE id == Id(kind, Field(n, "name").text, n)
             bases == Kid(n, {"base_list"}).kids
             base(b) == ReferIf(id, "extends", CsType(b), b)
             extends == FlattenSeq([i \in DOMAIN bases |-> base(bases[i])])
  <2>1. bases \in Seq(Tree)
    BY InTree
  <2>2. \A b : Good(base(b), With(K, id))
    BY GoodParts, WithMembers
  <2> HIDE DEF bases, base
  <2>3. Good(extends, With(K, id))
    BY <2>1, <2>2, GoodSteps, InTree
  <2> HIDE DEF extends
  <2>4. Good(CsDecorates(id, n) \o extends, With(K, id))
    BY <2>3, CsDecoratesGood, GoodSteps, WithMembers
  <2>5. Good(VisitEach("visit", Field(n, "body").kids), With(K, id))
    BY GoodParts, InTree DEF Inner
  <2>6. QED
    BY <2>4, <2>5, GoodScopes DEF CsTypeDeclaration, ForEach, extends, base, bases
<1>2. Good(CsEnum(w, n), K)
  <2> DEFINE id == Id("enum", Field(n, "name").text, n)
             body == IF Has(n, "body") THEN Field(n, "body") ELSE Kid(n, {"enum_member_declaration_list"})
             members == KidsOf(body, {"enum_member_declaration"})
             each(m) == <<DeclareIn(id, "enum_member", CsName(m), m, <<>>)>>
  <2>1. body \in Tree
    BY InTree
  <2> HIDE DEF body
  <2>2. members \in Seq(Tree)
    BY <2>1, InTree
  <2>3. \A m : Good(each(m), With(K, id))
    BY GoodSteps, GoodParts, WithMembers
  <2> HIDE DEF members, each
  <2>4. Good(FlattenSeq([i \in DOMAIN members |-> each(members[i])]), With(K, id))
    BY <2>2, <2>3, GoodSteps, InTree
  <2>5. Good(CsDecorates(id, n), With(K, id))
    BY CsDecoratesGood, WithMembers
  <2>6. QED
    BY <2>4, <2>5, GoodScopes DEF CsEnum, ForEach, each, members, body
<1>3. Good(CsMethod(w, n), K)
  <2> DEFINE id == Id("method", CsName(n), n)
             bodies == <<Field(n, "body")>> \o KidsOf(n, {"arrow_expression_clause"})
             each(b) == VisitEach("visit", b.kids)
  <2>1. bodies \in Seq(Tree)
    BY SeqsOfNodes, InTree
  <2>2. \A b \in Tree : Good(each(b), With(K, id))
    BY GoodParts, InTree DEF Inner
  <2> HIDE DEF bodies, each
  <2>3. Good(FlattenSeq([i \in DOMAIN bodies |-> each(bodies[i])]), With(K, id))
    BY <2>1, <2>2, GoodSteps, InTree
  <2>4. Good(CsDecorates(id, n), With(K, id))
    BY CsDecoratesGood, WithMembers
  <2>5. QED
    BY <2>3, <2>4, GoodScopes DEF CsMethod, ForEach, each, bodies
<1>4. QED
  BY <1>1, <1>2, <1>3

(* All of walk_csharp.go: a file-scoped namespace is entered, and is a node. *)
LEMMA CSharpGood ==
  ASSUME NEW w, NEW K, Sees(w, K), NEW n \in Tree
  PROVE  Good(CSharp(w, n), K)
<1>1. Good(CsNamespace(w, n), K)
  <2> DEFINE id == Id("namespace", Field(n, "name").text, n)
  <2>1. Good(Inside(id, VisitEach("visit", Field(n, "body").kids)), With(K, id))
    BY GoodParts, WithMembers, InTree DEF Inner
  <2>2. Good(<<Enter(id)>>, With(K, id))
    BY GoodSteps, GoodParts, WithMembers
  <2>3. QED
    BY <2>1, <2>2, GoodSteps, GoodScopes DEF CsNamespace
<1>2. Good(CsProperty(w, n), K)
  BY GoodOften DEF CsProperty
<1>3. Good(CsField(w, n), K)
  <2> DEFINE kind == IF \E m \in Range(KidsOf(n, {"modifier"})) : m.text = <<"const">> THEN "constant" ELSE "field"
             declarators == KidsOf(Kid(n, {"variable_declaration"}), {"variable_declarator"})
             each(d) == <<Declare(w, kind, CsName(d), d, <<>>)>>
  <2> HIDE DEF kind
  <2>1. declarators \in Seq(Tree)
    BY InTree
  <2>2. \A d : Good(each(d), K)
    BY GoodOften
  <2> HIDE DEF declarators, each
  <2>3. Good(FlattenSeq([i \in DOMAIN declarators |-> each(declarators[i])]), K)
    BY <2>1, <2>2, GoodSteps, InTree
  <2>4. QED
    BY <2>3 DEF CsField, ForEach, each, declarators, kind
<1>4. Good(CsDelegate(w, n), K)
  BY GoodOften DEF CsDelegate
<1>5. Good(CsUsing(w, n), K)
  BY GoodSteps, GoodOften DEF CsUsing, If
<1>6. Good(CsInvocation(w, n), K)
  BY GoodSteps, GoodOften DEF CsInvocation, Inner
<1>7. Good(CsObjectCreation(w, n), K)
  BY GoodSteps, GoodOften DEF CsObjectCreation, Inner
<1>8. QED
  BY <1>1, <1>2, <1>3, <1>4, <1>5, <1>6, <1>7, CsTypesGood, GoodOften DEF CSharp, Inner

-----------------------------------------------------------------------------
(* Kotlin. *)

(* Annotations and supertypes refer from their class. *)
LEMMA KtRefsGood ==
  ASSUME NEW K, NEW from \in K, NEW n \in Tree
  PROVE  Good(KtDecorates(from, n), K) /\ Good(KtDelegations(from, n), K)
<1>1. Good(KtDecorates(from, n), K)
  <2> DEFINE list == KidsOf(Kid(n, {"modifiers"}), {"annotation"})
             each(a) == If(Within(a, {"user_type"}) # <<>>,
                          ReferIf(from, "decorates", KtType(Head(Within(a, {"user_type"}))), n))
  <2>1. list \in Seq(Tree)
    BY InTree
  <2>2. \A a : Good(each(a), K)
    BY GoodSteps, GoodParts DEF If
  <2> HIDE DEF list, each
  <2>3. Good(FlattenSeq([i \in DOMAIN list |-> each(list[i])]), K)
    BY <2>1, <2>2, GoodSteps, InTree
  <2>4. QED
    BY <2>3 DEF KtDecorates, ForEach, each, list
<1>2. Good(KtDelegations(from, n), K)
  <2> DEFINE list == KidsOf(n, {"delegation_specifier"})
             each(d) == IF Kid(d, {"constructor_invocation"}) # Nil
                          THEN ReferIf(from, "extends", KtType(Kid(Kid(d, {"constructor_invocation"}), {"user_type"})), d)
                          ELSE ReferIf(from, "implements", KtType(Kid(d, {"user_type"})), d)
  <2>1. list \in Seq(Tree)
    BY InTree
  <2>2. \A d : Good(each(d), K)
    BY GoodParts
  <2> HIDE DEF list, each
  <2>3. Good(FlattenSeq([i \in DOMAIN list |-> each(list[i])]), K)
    BY <2>1, <2>2, GoodSteps, InTree
  <2>4. QED
    BY <2>3 DEF KtDelegations, ForEach, each, list
<1>3. QED
  BY <1>1, <1>2

(* Bodies of classes and enums, and constructors. *)
LEMMA KtBodiesGood ==
  /\ \A L : \A body \in Tree : Good(KtClassBody(body), L)
  /\ \A L : \A body \in Tree, id \in L : Good(KtEnumBody(id, body), L)
  /\ \A L : \A n \in Tree, id \in L : Good(KtConstructor(id, n), L)
<1>1. ASSUME NEW L, NEW body \in Tree PROVE Good(KtClassBody(body), L)
  <2> DEFINE list == body.kids
             each(k) == VisitEach("visit", KtMembers(k))
  <2>1. list \in Seq(Tree)
    BY InTree
  <2>2. \A k \in Tree : Good(each(k), L)
    BY KtMembersInTree, GoodParts DEF Inner
  <2> HIDE DEF list, each
  <2>3. Good(FlattenSeq([i \in DOMAIN list |-> each(list[i])]), L)
    BY <2>1, <2>2, GoodSteps, InTree
  <2>4. QED
    BY <2>3 DEF KtClassBody, ForEach, each, list
<1>2. ASSUME NEW L, NEW body \in Tree, NEW id \in L PROVE Good(KtEnumBody(id, body), L)
  <2> DEFINE list == body.kids
             each(k) == IF k.kind = "enum_entry"
                          THEN <<DeclareIn(id, "enum_member", Kid(k, {"simple_identifier"}).text, k, <<>>)>>
                          ELSE <<Visit("visit", k)>>
  <2>1. list \in Seq(Tree)
    BY InTree
  <2>2. \A k \in Tree : Good(each(k), L)
    BY GoodSteps, GoodParts DEF Inner
  <2> HIDE DEF list, each
  <2>3. Good(FlattenSeq([i \in DOMAIN list |-> each(list[i])]), L)
    BY <2>1, <2>2, GoodSteps, InTree
  <2>4. QED
    BY <2>3 DEF KtEnumBody, ForEach, each, list
<1>3. ASSUME NEW L, NEW n \in Tree, NEW id \in L PROVE Good(KtConstructor(id, n), L)
  <2> DEFINE list == KidsOf(Kid(n, {"primary_constructor"}), {"class_parameter"})
             each(p) == If(Kid(p, {"binding_pattern_kind"}) # Nil,
                          <<DeclareIn(id, "field", Kid(p, {"simple_identifier"}).text, p, <<>>)>>)
  <2>1. list \in Seq(Tree)
    BY InTree
  <2>2. \A p : Good(each(p), L)
    BY GoodSteps, GoodParts DEF If
  <2> HIDE DEF list, each
  <2>3. Good(FlattenSeq([i \in DOMAIN list |-> each(list[i])]), L)
    BY <2>1, <2>2, GoodSteps, InTree
  <2>4. QED
    BY <2>3 DEF KtConstructor, ForEach, each, list
<1>4. QED
  BY <1>1, <1>2, <1>3

(* All of walk_kotlin.go. *)
LEMMA KotlinGood ==
  ASSUME NEW w, NEW K, Sees(w, K), NEW n \in Tree
  PROVE  Good(Kotlin(w, n), K)
<1>1. \A i : Good(KtImport(w, i), K)
  BY GoodSteps, GoodOften DEF KtImport, If
<1>2. Good(ForEach(KidsOf(n, {"import_header"}), LAMBDA i : KtImport(w, i)), K)
  BY <1>1, GoodSteps, InTree DEF ForEach
<1>3. Good(KtClass(w, n), K)
  <2> DEFINE name == Kid(n, {"type_identifier"}).text
             kind == CASE "enum" \in Range(n.text)      -> "enum"
                       [] "interface" \in Range(n.text) -> "interface"
                       [] OTHER                         -> "class"
             id == Id(kind, name, n)
             inside == IF kind = "enum" THEN KtEnumBody(id, Kid(n, {"enum_class_body"}))
                       ELSE KtClassBody(Kid(n, {"class_body"}))
  <2> HIDE DEF kind
  <2>1. Good(KtDecorates(id, n) \o KtDelegations(id, n), With(K, id))
    BY KtRefsGood, GoodSteps, WithMembers
  <2>2. Good(inside, With(K, id))
    BY KtBodiesGood, WithMembers, InTree
  <2>3. Good(KtConstructor(id, n), With(K, id))
    BY KtBodiesGood, WithMembers
  <2> HIDE DEF inside
  <2>4. Good(KtConstructor(id, n) \o inside, With(K, id))
    BY <2>2, <2>3, GoodSteps
  <2>5. QED
    BY <2>1, <2>4, GoodScopes DEF KtClass, inside, kind
<1>4. Good(KtObject(w, n), K)
  <2> DEFINE id == Id("class", Kid(n, {"type_identifier"}).text, n)
  <2>1. Good(KtDecorates(id, n) \o KtDelegations(id, n), With(K, id))
    BY KtRefsGood, GoodSteps, WithMembers
  <2>2. Good(KtClassBody(Kid(n, {"class_body"})), With(K, id))
    BY KtBodiesGood, InTree
  <2>3. QED
    BY <2>1, <2>2, GoodScopes DEF KtObject
<1>5. Good(KtFunction(w, n), K)
  <2> DEFINE kind == IF IsInsideClassLike(w) THEN "method" ELSE "function"
             id == Id(kind, Kid(n, {"simple_identifier"}).text, n)
  <2> HIDE DEF kind
  <2>1. Good(KtDecorates(id, n), With(K, id))
    BY KtRefsGood, WithMembers
  <2>2. Good(VisitEach("visit", Kid(n, {"function_body"}).kids), With(K, id))
    BY GoodParts, InTree DEF Inner
  <2>3. QED
    BY <2>1, <2>2, GoodScopes DEF KtFunction, kind
<1>6. Good(KtProperty(w, n), K)
  <2> DEFINE name == Kid(Kid(n, {"variable_declaration"}), {"simple_identifier"}).text
             const == \E m \in Range(KidsOf(Kid(n, {"modifiers"}), {"property_modifier"})) : m.text = <<"const">>
             kind == CASE const                 -> "constant"
                       [] IsInsideClassLike(w)  -> "property"
                       [] KtIsInsideFunction(w) -> "variable"
                       [] OTHER                 -> "field"
             id == Id(kind, name, n)
             rest == Those(n.kids, LAMBDA k : k.kind \notin {"modifiers", "binding_pattern_kind", "variable_declaration"})
  <2> HIDE DEF kind
  <2>1. Good(KtDecorates(id, n), With(K, id))
    BY KtRefsGood, WithMembers
  <2>2. rest \in Seq(Tree)
    BY SeqsOfNodes, InTree DEF Those, ForEach, If
  <2> HIDE DEF rest
  <2>3. Good(VisitEach("visit", rest), With(K, id))
    BY <2>2, GoodParts DEF Inner
  <2>4. Good(<<Declare(w, kind, name, n, KtDecorates(id, n) \o VisitEach("visit", rest))>>, K)
    BY <2>1, <2>3, GoodSteps, GoodScopes
  <2>5. QED
    BY <2>4 DEF KtProperty, rest, kind
<1>7. Good(KtCall(w, n), K)
  <2> DEFINE list == n.kids
             below(k) == CASE k.kind = "simple_identifier"     -> <<>>
                           [] k.kind = "navigation_expression" -> If(k.kids # <<>>, <<Visit("visit", Head(k.kids))>>)
                           [] OTHER                            -> <<Visit("visit", k)>>
  <2>1. list \in Seq(Tree)
    BY InTree
  <2>2. \A k \in Tree : k.kids # <<>> => Head(k.kids) \in Tree
    BY InTree, EndsInTree
  <2>3. \A k \in Tree : Good(below(k), K)
    BY <2>2, GoodSteps, GoodParts DEF Inner, If
  <2> HIDE DEF list, below
  <2>4. Good(FlattenSeq([i \in DOMAIN list |-> below(list[i])]), K)
    BY <2>1, <2>3, GoodSteps, InTree
  <2>5. Good(ReferIf(Top(w), "calls", KtCallee(n), n), K)
    BY GoodOften
  <2>6. QED
    BY <2>4, <2>5, GoodSteps DEF KtCall, ForEach, below, list
<1>8. QED
  BY <1>1, <1>2, <1>3, <1>4, <1>5, <1>6, <1>7, GoodOften DEF Kotlin, Inner

-----------------------------------------------------------------------------
(* Swift. *)

(* The bodies of types and functions are nodes of the tree. *)
LEMMA SwiftPartsInTree == \A n \in Tree : SwiftTypeBody(n) \in Tree /\ SwiftFnBody(n) \in Tree
BY InTree DEF SwiftTypeBody, SwiftFnBody

(* Supertypes, bodies and overrides refer from what they belong to. *)
LEMMA SwiftRefsGood ==
  ASSUME NEW K, NEW from \in K, NEW n \in Tree
  PROVE  /\ Good(SwiftInheritance(from, n), K)
         /\ Good(SwiftBody(from, n), K)
         /\ \A name, m : Good(SwiftOverride(from, name, m), K)
<1>1. Good(SwiftInheritance(from, n), K)
  <2> DEFINE type(s) == LastName(IF Has(s, "inherits_from") THEN Field(s, "inherits_from") ELSE s)
             list == KidsOf(n, {"inheritance_specifier"})
             specs == Those(list, LAMBDA s : type(s) # <<>>)
             each(i) == Refer(from, IF i = 1 THEN "extends" ELSE "implements", type(specs[i]), specs[i])
  <2>1. list \in Seq(Tree)
    BY InTree
  <2> HIDE DEF list, type
  <2>2. specs \in Seq(Tree)
    BY <2>1, SeqsOfNodes, InTree DEF Those, ForEach, If
  <2> HIDE DEF specs
  <2>3. \A i : GoodStep(each(i), K)
    BY GoodParts
  <2> HIDE DEF each
  <2>4. Good([i \in DOMAIN specs |-> each(i)], K)
    BY <2>2, <2>3, GoodSteps, InTree
  <2>5. QED
    BY <2>4 DEF SwiftInheritance, each, specs, list, type
<1>2. Good(SwiftBody(from, n), K)
  <2> DEFINE list == Within(n, {"call_expression"})
             each(c) == ReferIf(from, "calls", SwiftCallee(c), c)
  <2>1. list \in Seq(Tree)
    BY InTree
  <2>2. \A c : Good(each(c), K)
    BY GoodParts
  <2> HIDE DEF list, each
  <2>3. Good(FlattenSeq([i \in DOMAIN list |-> each(list[i])]), K)
    BY <2>1, <2>2, GoodSteps, InTree
  <2>4. QED
    BY <2>3 DEF SwiftBody, ForEach, each, list
<1>3. \A name, m : Good(SwiftOverride(from, name, m), K)
  BY GoodSteps, GoodParts DEF SwiftOverride, If
<1>4. QED
  BY <1>1, <1>2, <1>3

(* Protocols, classes, structs, enums and actors. *)
LEMMA SwiftTypesGood ==
  ASSUME NEW w, NEW K, Sees(w, K), NEW n \in Tree
  PROVE  Good(SwiftProtocol(w, n), K) /\ Good(SwiftClassLike(w, n), K)
<1> DEFINE name == SwiftName(n)
<1>1. Good(SwiftProtocol(w, n), K)
  <2> DEFINE id == Id("interface", name, n)
             body == Kid(n, {"protocol_body"})
  <2>1. Good(If(body # Nil, Inside(id, VisitEach("protocol", body.kids))), With(K, id))
    BY GoodSteps, GoodParts, WithMembers, InTree DEF If, Inner
  <2>2. Good(SwiftInheritance(id, n), With(K, id))
    BY SwiftRefsGood, WithMembers
  <2>3. QED
    BY <2>1, <2>2, GoodSteps, GoodScopes DEF SwiftProtocol
<1>2. Good(SwiftClassLike(w, n), K)
  <2> DEFINE declared == Field(n, "declaration_kind").text
             kind == CASE declared = <<"struct">> -> "struct"
                       [] declared = <<"enum">>   -> "enum"
                       [] OTHER                   -> "class"
             id == Id(kind, name, n)
             body == SwiftTypeBody(n)
             entry(k, c) == <<DeclareIn(id, "enum_member", c.text, k, <<>>)>>
             entries(k) == KidsOf(k, {"simple_identifier"})
             member(k) == IF k.kind = "enum_entry" THEN SwiftEnumEntry(id, k) ELSE <<Visit("visit", k)>>
             members == FlattenSeq([i \in DOMAIN body.kids |-> member(body.kids[i])])
  <2> HIDE DEF kind
  <2>1. ASSUME NEW k \in Tree PROVE Good(SwiftEnumEntry(id, k), With(K, id))
    <3>1. \A c : Good(entry(k, c), With(K, id))
      BY GoodSteps, GoodParts, WithMembers
    <3>2. entries(k) \in Seq(Tree)
      BY InTree
    <3> HIDE DEF entry, entries
    <3>3. Good(FlattenSeq([i \in DOMAIN entries(k) |-> entry(k, entries(k)[i])]), With(K, id))
      BY <3>1, <3>2, GoodSteps, InTree
    <3>4. QED
      BY <3>3 DEF SwiftEnumEntry, ForEach, entry, entries
  <2>2. \A k \in Tree : Good(member(k), With(K, id))
    BY <2>1, GoodSteps, GoodParts DEF Inner
  <2>3. body.kids \in Seq(Tree)
    BY SwiftPartsInTree, InTree
  <2> HIDE DEF member, body
  <2>4. Good(members, With(K, id))
    BY <2>2, <2>3, GoodSteps, InTree
  <2> HIDE DEF members
  <2>5. Good(If(body # Nil, Inside(id, members)), With(K, id))
    BY <2>4, GoodSteps, GoodParts, WithMembers DEF If
  <2>6. Good(SwiftInheritance(id, n), With(K, id))
    BY SwiftRefsGood, WithMembers
  <2>7. Good(<<Declare(w, kind, name, n, SwiftInheritance(id, n) \o If(body # Nil, Inside(id, members)))>>, K)
    BY <2>5, <2>6, GoodSteps, GoodScopes
  <2>8. QED
    BY <2>7 DEF SwiftClassLike, ForEach, members, member, body, kind
<1>3. QED
  BY <1>1, <1>2

(* Functions, properties, and extensions of a type that the file may have. *)
LEMMA SwiftMembersGood ==
  ASSUME NEW w, NEW K, Sees(w, K)
  PROVE  /\ \A n \in Tree : Good(SwiftFunction(w, n), K)
         /\ \A n : Good(SwiftProperty(w, n), K)
         /\ \A n \in Tree : Good(SwiftExtension(w, n), K)
<1>1. ASSUME NEW n \in Tree PROVE Good(SwiftFunction(w, n), K)
  <2> DEFINE name == SwiftFnName(n)
             kind == IF IsInsideClassLike(w) THEN "method" ELSE "function"
             id == Id(kind, name, n)
  <2> HIDE DEF kind
  <2>1. Good(SwiftOverride(id, name, n), With(K, id)) /\ Good(SwiftBody(id, SwiftFnBody(n)), With(K, id))
    BY SwiftRefsGood, SwiftPartsInTree, WithMembers
  <2>2. QED
    BY <2>1, GoodScopes DEF SwiftFunction, kind
<1>2. ASSUME NEW n PROVE Good(SwiftProperty(w, n), K)
  <2>1. \A kind, name : Good(<<Declare(w, kind, name, n, <<>>)>>, K)
    BY GoodOften
  <2>2. QED
    BY <2>1, Zenon DEF SwiftProperty
<1>3. ASSUME NEW n \in Tree PROVE Good(SwiftExtension(w, n), K)
  <2> DEFINE type == LastName(Field(n, "name"))
             extended == IdOf(w, {"class", "struct", "enum", "interface"}, type)
             property(k) == <<Declare(w, "property", SwiftPropertyName(k), k,
                                ContainIn(w, type, Id("property", SwiftPropertyName(k), k)))>>
             member(k) ==
               CASE k.kind = "function_declaration"  -> SwiftExtMethod(w, type, SwiftFnName(k), k)
                 [] k.kind = "init_declaration"      -> SwiftExtMethod(w, type, <<"init">>, k)
                 [] k.kind = "property_declaration"  -> property(k)
                 [] k.kind = "typealias_declaration" -> SwiftTypeAlias(w, k)
                 [] OTHER                            -> <<Visit("visit", k)>>
             kids == SwiftTypeBody(n).kids
             members == FlattenSeq([i \in DOMAIN kids |-> member(kids[i])])
  <2>1. ASSUME NEW k \in Tree, NEW name PROVE Good(SwiftExtMethod(w, type, name, k), K)
    <3> DEFINE id == Id("method", name, k)
               overrides == If(k.kind = "function_declaration", SwiftOverride(id, name, k))
    <3>1. Good(overrides, With(K, id))
      BY SwiftRefsGood, GoodSteps, WithMembers DEF If
    <3>2. Good(SwiftBody(id, SwiftFnBody(k)), With(K, id))
      BY SwiftRefsGood, SwiftPartsInTree, WithMembers
    <3> HIDE DEF overrides
    <3>3. Good(ContainIn(w, type, id) \o overrides, With(K, id))
      BY <3>1, GoodContain, GoodSteps
    <3>4. QED
      BY <3>2, <3>3, GoodScopes DEF SwiftExtMethod, overrides
  <2>2. \A k : Good(property(k), K)
    BY GoodContain, GoodSteps, GoodScopes
  <2>3. \A k : Good(SwiftTypeAlias(w, k), K)
    BY GoodOften DEF SwiftTypeAlias
  <2> HIDE DEF property
  <2>4. \A k \in Tree : Good(member(k), K)
    BY <2>1, <2>2, <2>3, GoodSteps, GoodParts DEF Inner
  <2>5. kids \in Seq(Tree)
    BY SwiftPartsInTree, InTree
  <2> HIDE DEF member, kids
  <2>6. Good(members, K)
    BY <2>4, <2>5, GoodSteps, InTree
  <2>7. extended # <<>> => extended \in K
    BY SeenScopes
  <2> HIDE DEF members, extended
  <2>8. Good(If(extended # <<>>, SwiftInheritance(extended, n)), K)
    BY <2>7, SwiftRefsGood, GoodSteps DEF If
  <2>9. Good(If(extended # <<>>, SwiftInheritance(extended, n)) \o members, K)
    BY <2>6, <2>8, GoodSteps
  <2>10. Good(If(type # <<>>, If(extended # <<>>, SwiftInheritance(extended, n)) \o members), K)
    BY <2>9, GoodSteps DEF If
  <2>11. QED
    BY <2>10 DEF SwiftExtension, ForEach, members, kids, member, property, extended
<1>4. QED
  BY <1>1, <1>2, <1>3

(* All of walk_swift.go. *)
LEMMA SwiftGood ==
  ASSUME NEW w, NEW K, Sees(w, K), NEW mode, NEW n \in Tree
  PROVE  Good(Swift(w, mode, n), K)
<1>1. Good(SwiftImport(w, n), K)
  BY GoodSteps, GoodOften DEF SwiftImport, If
<1>2. Good(SwiftTypeAlias(w, n), K)
  BY GoodOften DEF SwiftTypeAlias
<1>3. QED
  BY <1>1, <1>2, SwiftTypesGood, SwiftMembersGood, GoodOften DEF Swift, Inner

-----------------------------------------------------------------------------
(* Dart. *)

(* What a walker sees with one more declaration on the stack. *)
LEMMA SeesMore ==
  ASSUME NEW w, NEW K, Sees(w, K), NEW id
  PROVE  Sees([w EXCEPT !.stack = Append(@, id)], With(K, id))
<1> DEFINE v == [w EXCEPT !.stack = Append(@, id)]
<1>1. v = [stack |-> Append(w.stack, id), nodes |-> w.nodes, pending |-> w.pending]
  <2>1. \A a, b, c : LET u == [stack |-> a, nodes |-> b, pending |-> c]
                     IN [u EXCEPT !.stack = Append(@, id)] = [stack |-> Append(a, id), nodes |-> b, pending |-> c]
    OBVIOUS
  <2>2. PICK a, b, c : w = [stack |-> a, nodes |-> b, pending |-> c]
    BY DEF Sees
  <2>3. w.stack = a /\ w.nodes = b /\ w.pending = c
    BY <2>2
  <2>4. QED
    BY <2>1, <2>2, <2>3
<1>2. v.stack = Append(w.stack, id) /\ v.nodes = w.nodes /\ v.pending = w.pending
  BY <1>1
<1>3. w.stack \in Seq(With(K, id)) /\ id \in With(K, id)
  BY WithMembers, SeqMonotonic DEF Sees, With
<1>4. Append(w.stack, id) \in Seq(With(K, id)) /\ Append(w.stack, id) # <<>>
  BY <1>3, AppendProperties
<1>5. \A x \in K : x \in With(K, id)
  BY DEF With
<1> HIDE DEF v
<1>6. Sees(v, With(K, id))
  BY <1>1, <1>2, <1>4, <1>5 DEF Sees
<1>7. QED
  BY <1>6 DEF v

(* What a file has already makes no difference. *)
LEMMA WithOne == \A K : \A id \in K : With(K, id) = K
BY DEF With

(* Annotations and supertypes refer from their class. *)
LEMMA DartRefsGood ==
  ASSUME NEW K, NEW from \in K, NEW n \in Tree
  PROVE  /\ Good(DartDecorates(from, n), K)
         /\ Good(DartBases(from, n), K)
<1>1. Good(DartDecorates(from, n), K)
  <2> DEFINE list == KidsOf(n, {"annotation"})
             name(a) == IF Has(a, "name") THEN Field(a, "name").text ELSE DartIdentifier(a)
             each(a) == ReferIf(from, "decorates", name(a), n)
  <2>1. list \in Seq(Tree)
    BY InTree
  <2> HIDE DEF name
  <2>2. \A a : Good(each(a), K)
    BY GoodParts
  <2> HIDE DEF list, each
  <2>3. Good(FlattenSeq([i \in DOMAIN list |-> each(list[i])]), K)
    BY <2>1, <2>2, GoodSteps, InTree
  <2>4. QED
    BY <2>3 DEF DartDecorates, ForEach, each, name, list
<1>2. ASSUME NEW kind, NEW m \in Tree PROVE Good(DartTypeRefs(from, kind, m), K)
  <2> DEFINE list == KidsOf(m, {"type_identifier"})
             each(t) == ReferIf(from, kind, LastName(t), t)
  <2>1. list \in Seq(Tree)
    BY InTree
  <2>2. \A t : Good(each(t), K)
    BY GoodParts
  <2> HIDE DEF list, each
  <2>3. Good(FlattenSeq([i \in DOMAIN list |-> each(list[i])]), K)
    BY <2>1, <2>2, GoodSteps, InTree
  <2>4. QED
    BY <2>3 DEF DartTypeRefs, ForEach, each, list
<1>3. Good(DartBases(from, n), K)
  <2> DEFINE list == Field(n, "superclass").kids
             each(k) == CASE k.kind = "type_identifier" -> ReferIf(from, "extends", LastName(k), k)
                          [] k.kind = "mixins"          -> DartTypeRefs(from, "implements", k)
                          [] OTHER                      -> <<>>
             referred == FlattenSeq([i \in DOMAIN list |-> each(list[i])])
  <2>1. list \in Seq(Tree)
    BY InTree
  <2>2. \A k \in Tree : Good(each(k), K)
    BY <1>2, GoodParts, GoodSteps
  <2> HIDE DEF list, each
  <2>3. Good(referred, K)
    BY <2>1, <2>2, GoodSteps, InTree
  <2>4. Good(DartTypeRefs(from, "implements", Field(n, "interfaces")), K)
    BY <1>2, InTree
  <2> HIDE DEF referred
  <2>5. Good(referred \o DartTypeRefs(from, "implements", Field(n, "interfaces")), K)
    BY <2>3, <2>4, GoodSteps
  <2>6. QED
    BY <2>5 DEF DartBases, ForEach, referred, each, list
<1>4. QED
  BY <1>1, <1>3

(* Chains of calls, and bodies. *)
LEMMA DartBodyGood ==
  ASSUME NEW w, NEW K, Sees(w, K), NEW n \in Tree
  PROVE  Good(DartCallChain(w, n), K) /\ Good(DartBody(w, n), K)
<1>1. Good(DartCallChain(w, n), K)
  <2> DEFINE selectors(i) ==
               SubSeq(n.kids, i + 1,
                 CHOOSE j \in i..Len(n.kids) :
                   /\ \A k \in (i + 1)..j : n.kids[k].kind = "selector"
                   /\ j = Len(n.kids) \/ n.kids[j + 1].kind # "selector")
             part(s) == DartIdentifier(Kid(s, {"unconditional_assignable_selector"}))
             arguments(s) == Kid(s, {"unconditional_assignable_selector"}) = Nil /\ Kid(s, {"argument_part"}) # Nil
             calls(i) == {j \in DOMAIN selectors(i) : arguments(selectors(i)[j])}
             name(i) == FoldLeft(LAMBDA names, s : names \o part(s), n.kids[i].text,
                          SubSeq(selectors(i), 1, (CHOOSE j \in calls(i) : \A k \in calls(i) : j <= k) - 1))
             call(i) == If(n.kids[i].kind = "identifier" /\ calls(i) # {}, <<Refer(Top(w), "calls", name(i), n.kids[i])>>)
             list == n.kids
  <2> HIDE DEF name, calls
  <2>1. \A i : Good(call(i), K)
    BY GoodSteps, GoodOften DEF If
  <2>2. IsList(DOMAIN list)
    BY InTree
  <2> HIDE DEF call, list
  <2>3. Good(FlattenSeq([i \in DOMAIN list |-> call(i)]), K)
    BY <2>1, <2>2, GoodSteps
  <2>4. QED
    BY <2>3 DEF DartCallChain, call, name, calls, list
<1>2. QED
  BY <1>1, GoodSteps, GoodOften DEF DartBody, Inner

(* Members of a class, whose signature comes apart from their body. *)
LEMMA DartDeclarationGood ==
  ASSUME NEW w, NEW K, Sees(w, K), NEW n \in Tree
  PROVE  /\ \A sig : Good(DartGetterSetter(w, sig), K)
         /\ Good(DartDeclaration(w, n), K)
         /\ Good(DartMethodSig(w, n), K)
         /\ Good(DartMemberBody(w, n), K)
<1>1. ASSUME NEW id PROVE Good(DartDeclBodies(w, id, n), With(K, id))
  <2> DEFINE list == KidsOf(n, {"function_body", "initializers", "block"})
             v == [w EXCEPT !.stack = Append(@, id)]
             each(b) == DartBody(v, b)
  <2>1. list \in Seq(Tree)
    BY InTree
  <2>2. Sees(v, With(K, id))
    BY SeesMore
  <2> HIDE DEF v
  <2>3. \A b \in Tree : Good(each(b), With(K, id))
    BY <2>2, DartBodyGood
  <2> HIDE DEF list, each
  <2>4. Good(FlattenSeq([i \in DOMAIN list |-> each(list[i])]), With(K, id))
    BY <2>1, <2>3, GoodSteps, InTree
  <2>5. QED
    BY <2>4 DEF DartDeclBodies, ForEach, each, v, list
<1>2. ASSUME NEW sig PROVE Good(DartConstructor(w, n, sig), K)
  <2> DEFINE ids == KidsOf(sig, {"identifier"})
             name == CASE Len(ids) >= 2 -> ids[1].text \o ids[2].text
                       [] Len(ids) = 1  -> ids[1].text
                       [] OTHER         -> Top(w)[2]
             id == Id("method", name, sig)
  <2> HIDE DEF name
  <2>1. Good(DartDeclBodies(w, id, n), With(K, id)) /\ Good(<<>>, With(K, id))
    BY <1>1, GoodSteps
  <2>2. QED
    BY <2>1, GoodScopes DEF DartConstructor, name
<1>3. ASSUME NEW sig PROVE Good(DartMethodFromSig(w, n, sig), K)
  BY <1>1, GoodSteps, GoodScopes DEF DartMethodFromSig
<1>4. \A sig : Good(DartGetterSetter(w, sig), K)
  BY GoodOften DEF DartGetterSetter
<1>5. Good(DartField(w, n), K)
  <2> DEFINE const == "const" \in Range(n.text) \/ Kid(n, {"const_builtin"}) # Nil
             kind == IF const THEN "constant" ELSE "field"
             lists == {"initialized_identifier_list", "static_final_declaration_list"}
             items(k) == IF k.kind \in lists THEN KidsOf(k, {"initialized_identifier", "static_final_declaration"})
                         ELSE If(k.kind = "initialized_identifier", <<k>>)
             item(i) == <<Declare(w, kind, DartIdentifier(i), i, <<>>)>>
             each(k) == FlattenSeq([i \in DOMAIN items(k) |-> item(items(k)[i])])
             list == n.kids
  <2> HIDE DEF kind
  <2>1. list \in Seq(Tree)
    BY InTree
  <2>2. \A k \in Tree : items(k) \in Seq(Tree)
    BY SeqsOfNodes, InTree DEF If
  <2>3. \A i : Good(item(i), K)
    BY GoodOften
  <2> HIDE DEF items, item
  <2>4. \A k \in Tree : Good(each(k), K)
    BY <2>2, <2>3, GoodSteps, InTree
  <2> HIDE DEF each, list
  <2>5. Good(FlattenSeq([i \in DOMAIN list |-> each(list[i])]), K)
    BY <2>1, <2>4, GoodSteps, InTree
  <2>6. QED
    BY <2>5 DEF DartField, ForEach, each, item, items, kind, list
<1>6. Good(DartDeclaration(w, n), K)
  BY <1>2, <1>3, <1>4, <1>5 DEF DartDeclaration
<1>7. Good(DartMethodSig(w, n), K)
  <2> DEFINE sigs == KidsOf(n, {"function_signature", "getter_signature", "setter_signature",
                                "factory_constructor_signature", "constructor_signature"})
             name == DartSigName(Last(sigs))
             id == Id("method", name, n)
  <2> HIDE DEF name
  <2>1. Good(DartDecorates(id, n) \o <<Pend(id)>>, With(K, id))
    BY DartRefsGood, GoodParts, GoodSteps, WithMembers
  <2>2. Good(<<Declare(w, "method", name, n, DartDecorates(id, n) \o <<Pend(id)>>)>>, K)
    BY <2>1, GoodSteps, GoodScopes
  <2>3. QED
    BY <1>4, <2>2, GoodSteps DEF DartMethodSig, name
<1>8. Good(DartMemberBody(w, n), K)
  <2> DEFINE v == [w EXCEPT !.stack = Append(@, w.pending)]
  <2>1. CASE w.pending = <<>>
    BY <2>1, DartBodyGood DEF DartMemberBody
  <2>2. CASE w.pending # <<>>
    <3>1. w.pending \in K
      BY <2>2 DEF Sees
    <3>2. Sees(v, K)
      BY <3>1, SeesMore, WithOne
    <3> HIDE DEF v
    <3>3. Good(Inside(w.pending, DartBody(v, n)), K)
      BY <3>1, <3>2, DartBodyGood, GoodParts
    <3>4. Good(<<Pend(<<>>)>>, K)
      BY GoodSteps, GoodParts
    <3>5. QED
      BY <2>2, <3>3, <3>4, GoodSteps DEF DartMemberBody, v
  <2>3. QED
    BY <2>1, <2>2
<1>9. QED
  BY <1>4, <1>6, <1>7, <1>8

(* Classes, mixins and enums. *)
LEMMA DartTypesGood ==
  ASSUME NEW w, NEW K, Sees(w, K), NEW n \in Tree
  PROVE  /\ Good(DartClass(w, n), K)
         /\ Good(DartMixin(w, n), K)
         /\ Good(DartEnum(w, n), K)
<1>1. \A L : \A body \in Tree : Good(DartMembers(body), L)
  BY GoodParts, InTree DEF DartMembers, Inner
<1>2. Good(DartClass(w, n), K)
  <2> DEFINE id == Id("class", Field(n, "name").text, n)
  <2>1. Good(DartDecorates(id, n) \o DartBases(id, n), With(K, id))
    BY DartRefsGood, GoodSteps, WithMembers
  <2>2. Good(DartMembers(Field(n, "body")), With(K, id))
    BY <1>1, InTree
  <2>3. QED
    BY <2>1, <2>2, GoodScopes DEF DartClass
<1>3. Good(DartMixin(w, n), K)
  <2> DEFINE named == Kid(n, {"identifier"}).text
             name == IF named = <<>> /\ n.kind = "extension_declaration" THEN <<"extension">> ELSE named
             id == Id("class", name, n)
             list == KidsOf(n, {"class_body"})
             each(b) == DartMembers(b)
  <2> HIDE DEF name
  <2>1. list \in Seq(Tree)
    BY InTree
  <2>2. \A b \in Tree : Good(each(b), With(K, id))
    BY <1>1
  <2> HIDE DEF list, each
  <2>3. Good(FlattenSeq([i \in DOMAIN list |-> each(list[i])]), With(K, id)) /\ Good(<<>>, With(K, id))
    BY <2>1, <2>2, GoodSteps, InTree
  <2>4. QED
    BY <2>3, GoodScopes DEF DartMixin, ForEach, each, list, name
<1>4. Good(DartEnum(w, n), K)
  <2> DEFINE id == Id("enum", Field(n, "name").text, n)
             list == KidsOf(Field(n, "body"), {"enum_constant"})
             name(m) == (IF Has(m, "name") THEN Field(m, "name") ELSE m).text
             each(m) == <<DeclareIn(id, "enum_member", name(m), m, <<>>)>>
  <2>1. list \in Seq(Tree)
    BY InTree
  <2> HIDE DEF name
  <2>2. \A m : Good(each(m), With(K, id))
    BY GoodSteps, GoodParts, WithMembers
  <2> HIDE DEF list, each
  <2>3. Good(FlattenSeq([i \in DOMAIN list |-> each(list[i])]), With(K, id)) /\ Good(<<>>, With(K, id))
    BY <2>1, <2>2, GoodSteps, InTree
  <2>4. QED
    BY <2>3, GoodScopes DEF DartEnum, ForEach, each, name, list
<1>5. QED
  BY <1>2, <1>3, <1>4

(* All of walk_dart.go. *)
LEMMA DartGood ==
  ASSUME NEW w, NEW K, Sees(w, K), NEW mode, NEW n \in Tree
  PROVE  Good(Dart(w, mode, n), K)
<1>1. Good(DartImport(w, n), K)
  <2> DEFINE uris == Those(Within(n, {"uri"}), LAMBDA u : u.text # <<>>)
  <2> HIDE DEF uris
  <2>1. \A a, b : Good(<<Declare(w, "import", a, n, <<>>), Refer(Top(w), "imports", b, n)>>, K)
    BY GoodSteps, GoodParts, GoodScopes, SeenScopes
  <2>2. Good(If(uris # <<>>,
               <<Declare(w, "import", LastName(uris[1]), n, <<>>), Refer(Top(w), "imports", uris[1].text, n)>>), K)
    BY <2>1, GoodSteps, Zenon DEF If
  <2>3. QED
    BY <2>2 DEF DartImport, uris
<1>2. Good(DartNew(w, n), K)
  <2>1. Good(If(Kid(n, {"arguments"}) # Nil, DartBody(w, Kid(n, {"arguments"}))), K)
    BY GoodSteps, DartBodyGood, InTree DEF If
  <2>2. QED
    BY <2>1, GoodSteps, GoodOften DEF DartNew
<1>3. Good(DartLocalVar(w, n), K)
  <2> DEFINE rest == Those(n.kids, LAMBDA k : k.kind \notin {"identifier", "selector", "inferred_type", "type_identifier"})
  <2>1. rest \in Seq(Tree)
    BY SeqsOfNodes, InTree DEF Those, ForEach, If
  <2> HIDE DEF rest
  <2>2. Good(VisitEach("visit", rest), K)
    BY <2>1, GoodParts DEF Inner
  <2>3. Good(DartCallChain(w, n) \o VisitEach("visit", rest), K)
    BY <2>2, DartBodyGood, GoodSteps
  <2>4. QED
    BY <2>3 DEF DartLocalVar, rest
<1>4. Good(<<Declare(w, "function", DartSigName(n), n, <<Pend(Id("function", DartSigName(n), n))>>)>>, K)
  BY GoodSteps, GoodParts, GoodScopes, WithMembers
<1>5. \A name : Good(<<Declare(w, "type_alias", name, n, <<>>)>>, K)
  BY GoodOften
<1>6. QED
  BY <1>1, <1>2, <1>3, <1>4, <1>5, GoodSteps, DartTypesGood, DartDeclarationGood, DartBodyGood DEF Dart

-----------------------------------------------------------------------------
(* Scala. *)

(* Supertypes and parameters refer from what they belong to. *)
LEMMA ScalaRefsGood ==
  ASSUME NEW K, NEW from \in K, NEW n \in Tree
  PROVE  Good(ScalaExtends(from, n), K) /\ Good(ScalaParams(from, n), K)
<1>1. Good(ScalaExtends(from, n), K)
  <2> DEFINE bases == KidsOf(Kid(n, {"extends_clause"}), {"type_identifier", "generic_type"})
             each(i) == Refer(from, IF i = 1 THEN "extends" ELSE "implements", LastName(bases[i]), n)
  <2>1. bases \in Seq(Tree)
    BY InTree
  <2> HIDE DEF bases
  <2>2. \A i : GoodStep(each(i), K)
    BY GoodParts
  <2> HIDE DEF each
  <2>3. Good([i \in DOMAIN bases |-> each(i)], K)
    BY <2>1, <2>2, GoodSteps, InTree
  <2>4. QED
    BY <2>3 DEF ScalaExtends, each, bases
<1>2. Good(ScalaParams(from, n), K)
  <2> DEFINE list == KidsOf(Kid(n, {"class_parameters"}), {"class_parameter"})
             each(p) == If(p.text \in {<<"val">>, <<"var">>}, <<DeclareIn(from, "field", ScName(p), p, <<>>)>>)
  <2>1. list \in Seq(Tree)
    BY InTree
  <2>2. \A p : Good(<<DeclareIn(from, "field", ScName(p), p, <<>>)>>, K)
    BY GoodSteps, GoodParts
  <2>3. \A p : Good(each(p), K)
    BY <2>2, GoodSteps, Zenon DEF If
  <2> HIDE DEF list, each
  <2>4. Good(FlattenSeq([i \in DOMAIN list |-> each(list[i])]), K)
    BY <2>1, <2>3, GoodSteps, InTree
  <2>5. QED
    BY <2>4 DEF ScalaParams, ForEach, each, list
<1>3. QED
  BY <1>1, <1>2

(* Classes, traits, objects and enums. *)
LEMMA ScalaTypesGood ==
  ASSUME NEW w, NEW K, Sees(w, K), NEW n \in Tree
  PROVE  (\A kind : Good(ScalaType(w, kind, n), K)) /\ Good(ScalaEnum(w, n), K)
<1>1. ASSUME NEW kind PROVE Good(ScalaType(w, kind, n), K)
  <2> DEFINE id == Id(kind, ScName(n), n)
  <2>1. Good(If(n.kind # "object_definition", ScalaParams(id, n)), With(K, id)) /\ Good(ScalaExtends(id, n), With(K, id))
    BY ScalaRefsGood, GoodSteps, WithMembers DEF If
  <2>2. Good(VisitEach("visit", Kid(n, {"template_body"}).kids), With(K, id))
    BY GoodParts, InTree DEF Inner
  <2>3. QED
    BY <2>1, <2>2, GoodSteps, GoodScopes DEF ScalaType
<1>2. Good(ScalaEnum(w, n), K)
  <2> DEFINE id == Id("enum", ScName(n), n)
             case(c) == <<DeclareIn(id, "enum_member", ScName(c), c, <<>>)>>
             cases(k) == KidsOf(k, {"simple_enum_case", "full_enum_case"})
             several(k) == FlattenSeq([i \in DOMAIN cases(k) |-> case(cases(k)[i])])
             member(k) == IF k.kind # "enum_case_definitions" THEN <<Visit("visit", k)>> ELSE several(k)
             list == Kid(n, {"enum_body"}).kids
  <2>1. \A c : Good(case(c), With(K, id))
    BY GoodSteps, GoodParts, WithMembers
  <2>2. \A k \in Tree : cases(k) \in Seq(Tree)
    BY InTree
  <2> HIDE DEF case, cases
  <2>3. \A k \in Tree : Good(several(k), With(K, id))
    BY <2>1, <2>2, GoodSteps, InTree
  <2> HIDE DEF several
  <2>4. \A k \in Tree : Good(member(k), With(K, id))
    BY <2>3, GoodSteps, GoodParts DEF Inner
  <2>5. list \in Seq(Tree)
    BY InTree
  <2> HIDE DEF member, list
  <2>6. Good(FlattenSeq([i \in DOMAIN list |-> member(list[i])]), With(K, id))
    BY <2>4, <2>5, GoodSteps, InTree
  <2>7. Good(ScalaExtends(id, n), With(K, id))
    BY ScalaRefsGood, WithMembers
  <2>8. QED
    BY <2>6, <2>7, GoodScopes DEF ScalaEnum, ForEach, list, member, several, cases, case
<1>3. QED
  BY <1>1, <1>2

(* One import for each name, unless it is a wildcard. *)
LEMMA ScalaImportGood ==
  ASSUME NEW w, NEW K, Sees(w, K), NEW n \in Tree
  PROVE  Good(ScalaImport(w, n), K)
<1> DEFINE prefix == ForEach(KidsOf(n, {"identifier"}), LAMBDA i : i.text)
           simple == IF prefix = <<>> THEN <<>> ELSE <<Last(prefix)>>
           list == KidsOf(Kid(n, {"namespace_selectors"}), {"identifier", "arrow_renamed_identifier"})
<1>1. \A from, to : Good(<<Declare(w, "import", to, n, <<>>), Refer(Top(w), "imports", from, n)>>, K)
  BY GoodSteps, GoodParts, GoodScopes, SeenScopes
<1>2. \A from, to : Good(ScalaImported(w, from, to, n), K)
  BY <1>1, GoodSteps, Zenon DEF ScalaImported, If
<1>3. \A s : Good(ScalaSelected(w, s, n), K)
  BY <1>2, GoodSteps, Zenon DEF ScalaSelected, If
<1>4. list \in Seq(Tree)
  BY InTree
<1> HIDE DEF list
<1>5. Good(FlattenSeq([i \in DOMAIN list |-> ScalaSelected(w, list[i], n)]), K)
  BY <1>3, <1>4, GoodSteps, InTree
<1>6. Good(ForEach(list, LAMBDA s : ScalaSelected(w, s, n)), K)
  BY <1>5 DEF ForEach
<1>7. Good(<<Declare(w, "import", prefix, n, <<>>)>>, K)
  BY GoodOften
<1>8. Good(ScalaImported(w, simple, simple, n), K)
  BY <1>2
<1>9. QED
  BY <1>6, <1>7, <1>8, Zenon DEF ScalaImport, list

(* All of walk_scala.go. *)
LEMMA ScalaGood ==
  ASSUME NEW w, NEW K, Sees(w, K), NEW n \in Tree
  PROVE  Good(Scala(w, n), K)
<1>1. \A L, kinds : Good(ScalaRest(n, kinds), L)
  <2>1. \A kinds : Those(n.kids, LAMBDA k : k.kind \notin kinds) \in Seq(Tree)
    BY SeqsOfNodes, InTree DEF Those, ForEach, If
  <2>2. QED
    BY <2>1, GoodParts DEF ScalaRest, Inner
<1>2. Good(ScalaFunction(w, n), K)
  BY <1>1, GoodSteps, GoodScopes DEF ScalaFunction
<1>3. Good(ScalaValue(w, n), K)
  <2>1. \A kind, name, kinds : Good(<<Declare(w, kind, name, n, ScalaRest(n, kinds))>>, K)
    BY <1>1, GoodSteps, GoodScopes
  <2>2. QED
    BY <2>1, Zenon DEF ScalaValue
<1>4. Good(ScalaCall(w, n), K)
  <2> DEFINE list == n.kids
             below(k) == CASE k.kind = "identifier"       -> <<>>
                           [] k.kind = "field_expression" -> If(First(k.kids).kind # "identifier", <<Visit("visit", First(k.kids))>>)
                           [] OTHER                       -> <<Visit("visit", k)>>
  <2>1. list \in Seq(Tree)
    BY InTree
  <2>2. \A k \in Tree : First(k.kids) \in Tree
    BY InTree, EndsInTree
  <2>3. \A k \in Tree : Good(below(k), K)
    BY <2>2, GoodSteps, GoodParts DEF Inner, If
  <2> HIDE DEF list, below
  <2>4. Good(FlattenSeq([i \in DOMAIN list |-> below(list[i])]), K)
    BY <2>1, <2>3, GoodSteps, InTree
  <2>5. Good(ReferIf(Top(w), "calls", ScalaCallee(First(n.kids)), n), K)
    BY GoodOften
  <2>6. QED
    BY <2>4, <2>5, GoodSteps DEF ScalaCall, ForEach, below, list
<1>5. Good(ScalaInstance(w, n), K)
  BY GoodSteps, GoodOften, GoodParts, InTree DEF ScalaInstance, Inner
<1>6. QED
  BY <1>2, <1>3, <1>4, <1>5, ScalaTypesGood, ScalaImportGood, GoodOften DEF Scala, Inner

-----------------------------------------------------------------------------
(* Elixir. *)

(* Modules and protocols, implementations of a protocol, and structs. *)
LEMMA ElixirTypesGood ==
  ASSUME NEW w, NEW K, Sees(w, K), NEW n \in Tree
  PROVE  /\ \A kind : Good(ElixirModule(w, kind, n), K)
         /\ Good(ElixirImpl(w, n), K)
         /\ Good(ElixirStruct(w, n), K)
<1>1. \A L : Good(ExBody(n), L)
  BY GoodParts, InTree DEF ExBody, Inner
<1>2. \A kind : Good(ElixirModule(w, kind, n), K)
  BY <1>1, GoodSteps, GoodScopes DEF ElixirModule
<1>3. Good(ElixirImpl(w, n), K)
  <2> DEFINE protocol == Kid(ExArgs(n), {"alias"}).text
             types == SelectSeq([i \in DOMAIN KidsOf(ExArgs(n), {"keywords"}) |-> ExKeyword(KidsOf(ExArgs(n), {"keywords"})[i], "for")],
                                LAMBDA t : t # <<>>)
             name == IF types = <<>> THEN protocol ELSE protocol \o Last(types)
             id == Id("module", name, n)
             scope == Scope(w, "module", name, n, <<Refer(Id("module", name, n), "implements", protocol, n)>>, ExBody(n))
  <2> HIDE DEF name
  <2>1. Good(<<Refer(id, "implements", protocol, n)>>, With(K, id))
    BY GoodSteps, GoodParts, WithMembers
  <2>2. Good(scope, K)
    BY <1>1, <2>1, GoodScopes
  <2> HIDE DEF scope
  <2>3. Good(If(protocol # <<>>, scope), K)
    BY <2>2, GoodSteps DEF If
  <2>4. QED
    BY <2>3, Zenon DEF ElixirImpl, scope, name
<1>4. Good(ElixirStruct(w, n), K)
  <2> DEFINE module == Nearest(w, {"module"})
             name == IF KindOf(w, module) = "module" THEN module[2] ELSE <<"Struct">>
             id == Id("struct", name, n)
             field(e) == CASE e.kind = "atom" -> <<DeclareIn(id, "field", e.text, e, <<>>)>>
                           [] e.kind = "pair" -> <<DeclareIn(id, "field", Field(e, "key").text, e, <<>>)>>
                           [] OTHER           -> <<>>
             fields(l) == FlattenSeq([i \in DOMAIN l.kids |-> field(l.kids[i])])
             list == KidsOf(ExArgs(n), {"list", "keywords"})
             inside == FlattenSeq([i \in DOMAIN list |-> fields(list[i])])
  <2> HIDE DEF name
  <2>1. \A e, name_ : Good(<<DeclareIn(id, "field", name_, e, <<>>)>>, With(K, id))
    BY GoodSteps, GoodParts, WithMembers
  <2>2. \A e : Good(field(e), With(K, id))
    BY <2>1, GoodSteps
  <2> HIDE DEF field
  <2>3. \A l \in Tree : Good(fields(l), With(K, id))
    BY <2>2, GoodSteps, InTree
  <2>4. list \in Seq(Tree)
    BY InTree DEF ExArgs
  <2> HIDE DEF fields, list
  <2>5. Good(inside, With(K, id)) /\ Good(<<>>, With(K, id))
    BY <2>3, <2>4, GoodSteps, InTree
  <2> HIDE DEF inside
  <2>6. Good(Scope(w, "struct", name, n, <<>>, inside), K)
    BY <2>5, GoodScopes
  <2>7. QED
    BY <2>6 DEF ElixirStruct, ForEach, inside, list, fields, field, name
<1>5. QED
  BY <1>2, <1>3, <1>4

(* Functions and their clauses, with the values of their keywords. *)
LEMMA ElixirFunctionGood ==
  ASSUME NEW w, NEW K, Sees(w, K), NEW n \in Tree
  PROVE  Good(ElixirFunction(w, n), K)
<1> DEFINE args == ExArgs(n).kids
           kind == IF IsInside(w, {"interface"}) THEN "method" ELSE "function"
           name == ExHeadName(First(args))
           id == Id(kind, name, n)
           value(p) == If(Has(p, "value"), <<Visit("visit", Field(p, "value"))>>)
           pairs(k) == KidsOf(k, {"pair"})
           values(k) == FlattenSeq([i \in DOMAIN pairs(k) |-> value(pairs(k)[i])])
           rest == Rest(args)
           keywords == Those(rest, LAMBDA k : k.kind = "keywords")
           each == FlattenSeq([i \in DOMAIN keywords |-> values(keywords[i])])
<1> HIDE DEF kind, name
<1>1. \A L : \A p \in Tree : Good(value(p), L)
  BY GoodSteps, GoodParts, InTree DEF If, Inner
<1>2. \A k \in Tree : pairs(k) \in Seq(Tree)
  BY InTree
<1> HIDE DEF value, pairs
<1>3. \A L : \A k \in Tree : Good(values(k), L)
  BY <1>1, <1>2, GoodSteps, InTree
<1>4. rest \in Seq(Tree)
  <2>1. args \in Seq(Tree)
    BY InTree DEF ExArgs
  <2>2. QED
    BY <2>1, EndsInTree
<1> HIDE DEF rest
<1>5. keywords \in Seq(Tree)
  BY <1>4, SeqsOfNodes, InTree DEF Those, ForEach, If
<1> HIDE DEF values, keywords
<1>6. \A L : Good(each, L)
  BY <1>3, <1>5, GoodSteps, InTree
<1> HIDE DEF each
<1>7. Good(ExBody(n), With(K, id))
  BY GoodParts, InTree DEF ExBody, Inner
<1>8. Good(Scope(w, kind, name, n, <<>>, ExBody(n) \o each), K)
  BY <1>6, <1>7, GoodSteps, GoodScopes
<1>9. Good(If(args # <<>>, Scope(w, kind, name, n, <<>>, ExBody(n) \o each)), K)
  BY <1>8, GoodSteps DEF If
<1>10. QED
  BY <1>9, Zenon DEF ElixirFunction, ForEach, each, keywords, values, rest, pairs, value, kind, name

(* All of walk_elixir.go. *)
LEMMA ElixirGood ==
  ASSUME NEW w, NEW K, Sees(w, K), NEW n \in Tree
  PROVE  Good(Elixir(w, n), K)
<1>1. ASSUME NEW macro PROVE Good(ElixirImport(w, macro, n), K)
  <2>1. \A a, b : Good(<<Declare(w, "import", a, n, <<>>), Refer(Top(w), "imports", b, n)>>, K)
    BY GoodSteps, GoodParts, GoodScopes, SeenScopes
  <2>2. \A a, b, c : Good(If(c, <<Declare(w, "import", a, n, <<>>), Refer(Top(w), "imports", b, n)>>), K)
    BY <2>1, GoodSteps, Zenon DEF If
  <2>3. QED
    BY <2>2, Zenon DEF ElixirImport
<1>2. Good(ElixirCallSite(w, n), K)
  <2> DEFINE target == Field(n, "target")
             name == IF target.kind = "dot" THEN Field(target, "left").text \o Field(target, "right").text
                     ELSE If(target.kind = "identifier", target.text)
             refers == name # <<>> /\ (Len(name) > 1 \/ name[1] \notin Builtin["elixir"])
  <2> HIDE DEF name, refers
  <2>1. Good(If(refers, <<Refer(Top(w), "calls", name, n)>>), K)
    BY GoodSteps, GoodOften DEF If
  <2>2. Good(VisitEach("visit", ExArgs(n).kids), K)
    BY GoodParts, InTree DEF ExArgs, Inner
  <2>3. QED
    BY <2>1, <2>2, GoodSteps DEF ElixirCallSite, refers, name
<1>3. Good(ElixirCall(w, n), K)
  <2> DEFINE macro == IF Field(n, "target").kind = "identifier" THEN Field(n, "target").text[1] ELSE ""
  <2> HIDE DEF macro
  <2>1. QED
    BY <1>1, <1>2, GoodSteps, ElixirTypesGood, ElixirFunctionGood DEF ElixirCall, macro
<1>4. Good(ElixirAttribute(w, n), K)
  <2>1. \A name : Good(<<Declare(w, "constant", name, n, <<>>)>>, K)
    BY GoodOften
  <2>2. Good(<<>>, K) /\ Good(VisitEach("visit", n.kids), K)
    BY GoodSteps, GoodOften DEF Inner
  <2>3. QED
    BY <2>1, <2>2 DEF ElixirAttribute
<1>5. QED
  BY <1>3, <1>4, GoodOften DEF Elixir, Inner

-----------------------------------------------------------------------------
(* Haskell. *)

(* What a walker sees of the nodes that are made from one of them on. *)
LEMMA SeesLater ==
  ASSUME NEW w, NEW K, Sees(w, K), NEW k \in DOMAIN w.nodes
  PROVE  Sees([w EXCEPT !.nodes = SubSeq(@, k + 1, Len(@))], K)
<1> DEFINE later == SubSeq(w.nodes, k + 1, Len(w.nodes))
           v == [w EXCEPT !.nodes = SubSeq(@, k + 1, Len(@))]
<1>1. v = [stack |-> w.stack, nodes |-> later, pending |-> w.pending]
  <2>1. v = [w EXCEPT !.nodes = later]
    OBVIOUS
  <2> HIDE DEF later
  <2>2. \A a, b, c, d : LET u == [stack |-> a, nodes |-> b, pending |-> c]
                        IN [u EXCEPT !.nodes = d] = [stack |-> a, nodes |-> d, pending |-> c]
    OBVIOUS
  <2>3. PICK a, b, c : w = [stack |-> a, nodes |-> b, pending |-> c]
    BY DEF Sees
  <2>4. w.stack = a /\ w.nodes = b /\ w.pending = c
    BY <2>3
  <2> HIDE DEF v
  <2>5. QED
    BY <2>1, <2>2, <2>3, <2>4
<1>2. IsSeq(later) /\ \A i \in DOMAIN later : later[i].id \in K
  <2> DEFINE S == {w.nodes[i] : i \in DOMAIN w.nodes}
  <2>1. \A x \in S : x.id \in K
    BY DEF Sees
  <2>2. w.nodes \in Seq(S)
    <3>1. PICK T : w.nodes \in Seq(T)
      BY DEF Sees, IsSeq
    <3>2. w.nodes \in Seq(Range(w.nodes))
      BY <3>1, SeqOfRange
    <3>3. QED
      BY <3>2 DEF Range
  <2> HIDE DEF S
  <2>3. Len(w.nodes) \in Nat /\ DOMAIN w.nodes = 1..Len(w.nodes) /\ \A i \in 1..Len(w.nodes) : w.nodes[i] \in S
    BY <2>2, LenProperties
  <2>4. k + 1 \in Int /\ \A i \in (k + 1)..Len(w.nodes) : w.nodes[i] \in S
    BY <2>3
  <2>5. later \in Seq(S)
    BY <2>3, <2>4, SubSeqProperties
  <2> HIDE DEF later
  <2>6. \A i \in DOMAIN later : later[i] \in S
    BY <2>5, LenProperties
  <2>7. QED
    BY <2>1, <2>5, <2>6 DEF IsSeq
<1>3. v.stack = w.stack /\ v.nodes = later /\ v.pending = w.pending
  BY <1>1
<1> HIDE DEF v, later
<1>4. Sees(v, K)
  BY <1>1, <1>2, <1>3 DEF Sees
<1>5. QED
  BY <1>4 DEF v

(* Types and calls refer from what they are in. *)
LEMMA HaskellRefsGood ==
  ASSUME NEW K, NEW from \in K, NEW n \in Tree
  PROVE  /\ \A m : Good(HsTypeRefs(from, n, m), K)
         /\ Good(HsCalls(from, n), K)
<1>1. ASSUME NEW m PROVE Good(HsTypeRefs(from, n, m), K)
  <2> DEFINE names == Within(n, {"name"})
             new(i) == names[i].text # <<>> /\ \A j \in 1..(i - 1) : names[j].text # names[i].text
             refers(i) == new(i) /\ names[i].text[1] \notin Builtin["haskell"]
             each(i) == If(refers(i), <<Refer(from, "references", names[i].text, m)>>)
  <2> HIDE DEF refers
  <2>1. names \in Seq(Tree)
    BY InTree
  <2>2. \A i : Good(each(i), K)
    BY GoodSteps, GoodParts DEF If
  <2> HIDE DEF names, each
  <2>3. Good(FlattenSeq([i \in DOMAIN names |-> each(i)]), K)
    BY <2>1, <2>2, GoodSteps, InTree
  <2>4. QED
    BY <2>3 DEF HsTypeRefs, each, refers, names
<1>2. Good(HsCalls(from, n), K)
  <2> DEFINE list == KidsOf(n, {"match", "function_body"})
             calls(b) == Within(b, {"apply", "infix"})
             call(c) == LET name == IF c.kind = "apply" THEN HsCallee(Field(c, "function")) ELSE Field(c, "operator").text
                        IN If(name # <<>> /\ (Len(name) > 1 \/ name[1] \notin Builtin["haskell"]), <<Refer(from, "calls", name, c)>>)
             each(b) == FlattenSeq([i \in DOMAIN calls(b) |-> call(calls(b)[i])])
  <2>1. \A name, refers, c : Good(If(refers, <<Refer(from, "calls", name, c)>>), K)
    BY GoodSteps, GoodParts DEF If
  <2>2. \A c : Good(call(c), K)
    BY <2>1, Zenon
  <2>3. \A b \in Tree : calls(b) \in Seq(Tree)
    BY InTree
  <2> HIDE DEF calls, call
  <2>4. \A b \in Tree : Good(each(b), K)
    BY <2>2, <2>3, GoodSteps, InTree
  <2>5. list \in Seq(Tree)
    BY InTree
  <2> HIDE DEF list, each
  <2>6. Good(FlattenSeq([i \in DOMAIN list |-> each(list[i])]), K)
    BY <2>4, <2>5, GoodSteps, InTree
  <2>7. QED
    BY <2>6 DEF HsCalls, ForEach, each, list, calls, call
<1>3. QED
  BY <1>1, <1>2

(* Signatures, functions, methods and type aliases; a method is made in a scope that is a node. *)
LEMMA HaskellDeclarationsGood ==
  ASSUME NEW w, NEW K, Sees(w, K), NEW n \in Tree
  PROVE  /\ Good(HaskellSignature(w, n), K)
         /\ Good(HaskellFunction(w, n), K)
         /\ HasNode(w, Top(w)) => Good(HaskellMethod(w, n), K)
         /\ Good(HaskellTypeAlias(w, n), K)
<1>1. Good(HaskellSignature(w, n), K)
  <2> DEFINE name == Field(n, "name").text
             known == IdOf(w, {"function"}, name)
             id == Id("function", name, n)
  <2>1. known # <<>> => known \in K
    BY SeenScopes
  <2> HIDE DEF known
  <2>2. known # <<>> => Good(HsTypeRefs(known, Field(n, "type"), n), K)
    BY <2>1, HaskellRefsGood, InTree
  <2>3. Good(HsTypeRefs(id, Field(n, "type"), n), With(K, id))
    BY HaskellRefsGood, InTree, WithMembers
  <2>4. Good(<<Declare(w, "function", name, n, HsTypeRefs(id, Field(n, "type"), n))>>, K)
    BY <2>3, GoodSteps, GoodScopes
  <2>5. QED
    BY <2>2, <2>4, GoodSteps DEF HaskellSignature, known
<1>2. \A kind, name : Good(<<Declare(w, kind, name, n, HsCalls(Id(kind, name, n), n))>>, K)
  BY HaskellRefsGood, GoodSteps, GoodScopes, WithMembers
<1>3. Good(HaskellFunction(w, n), K)
  <2> DEFINE known == IdOf(w, {"function"}, HsName(n))
  <2>1. known # <<>> => known \in K
    BY SeenScopes
  <2> HIDE DEF known
  <2>2. known # <<>> => Good(HsCalls(known, n), K)
    BY <2>1, HaskellRefsGood
  <2>3. QED
    BY <1>2, <2>2, GoodSteps DEF HaskellFunction, known
<1>4. ASSUME HasNode(w, Top(w)) PROVE Good(HaskellMethod(w, n), K)
  <2> DEFINE name == Field(n, "name").text
             start == CHOOSE i \in DOMAIN w.nodes : w.nodes[i].id = Top(w)
             v == [w EXCEPT !.nodes = SubSeq(@, start + 1, Len(@))]
             known == IdOf(v, {"method"}, name)
  <2>1. start \in DOMAIN w.nodes
    BY <1>4 DEF HasNode
  <2>2. Sees(v, K)
    BY <2>1, SeesLater
  <2> HIDE DEF v
  <2>3. known # <<>> => known \in K
    BY <2>2, SeenScopes
  <2> HIDE DEF known
  <2>4. known # <<>> => Good(HsCalls(known, n), K)
    BY <2>3, HaskellRefsGood
  <2>5. QED
    BY <1>2, <2>4, GoodSteps DEF HaskellMethod, known, v
<1>5. Good(HaskellTypeAlias(w, n), K)
  <2> DEFINE name == Field(n, "name").text
             id == Id("type_alias", name, n)
  <2>1. Good(HsTypeRefs(id, Field(n, "type"), n), With(K, id))
    BY HaskellRefsGood, InTree, WithMembers
  <2>2. QED
    BY <2>1, GoodSteps, GoodScopes DEF HaskellTypeAlias
<1>6. QED
  BY <1>1, <1>3, <1>4, <1>5

(* Data types, classes and instances. *)
LEMMA HaskellTypesGood ==
  ASSUME NEW w, NEW K, Sees(w, K), NEW n \in Tree
  PROVE  /\ Good(HaskellData(w, n), K)
         /\ Good(HaskellClass(w, n), K)
         /\ Good(HaskellInstance(w, n), K)
<1>1. Good(HaskellData(w, n), K)
  <2> DEFINE name == Field(n, "name").text
             id == Id("struct", name, n)
             called(c) == IF c.kind \in {"record", "prefix"} THEN Field(c, "name").text ELSE c.text
             field(f) == <<DeclareIn(id, "field", Field(f, "name").text, f, <<>>)>>
             fields(c) == KidsOf(Field(c, "fields"), {"field"})
             declared(c) == FlattenSeq([i \in DOMAIN fields(c) |-> field(fields(c)[i])])
             constructor(c) == <<DeclareIn(id, "enum_member", called(c), c, <<>>)>> \o If(c.kind = "record", declared(c))
             each(d) == constructor(Field(d, "constructor"))
             kids == Field(n, "constructors").kids
             list == Those(kids, LAMBDA d : d.kind = "data_constructor" /\ Has(d, "constructor"))
             inside == FlattenSeq([i \in DOMAIN list |-> each(list[i])])
  <2> HIDE DEF called
  <2>1. \A m, kind, called_ : Good(<<DeclareIn(id, kind, called_, m, <<>>)>>, With(K, id))
    BY GoodSteps, GoodParts, WithMembers
  <2>2. \A f : Good(field(f), With(K, id))
    BY <2>1
  <2>3. \A c \in Tree : fields(c) \in Seq(Tree)
    BY InTree
  <2> HIDE DEF field, fields
  <2>4. \A c \in Tree : Good(declared(c), With(K, id))
    BY <2>2, <2>3, GoodSteps, InTree
  <2> HIDE DEF declared
  <2>5. \A c \in Tree : Good(constructor(c), With(K, id))
    BY <2>1, <2>4, GoodSteps DEF If
  <2> HIDE DEF constructor
  <2>6. \A d \in Tree : Good(each(d), With(K, id))
    BY <2>5, InTree
  <2>7. kids \in Seq(Tree)
    BY InTree
  <2> HIDE DEF each, kids
  <2>8. list \in Seq(Tree)
    BY <2>7, SeqsOfNodes, InTree DEF Those, ForEach, If
  <2> HIDE DEF list
  <2>9. Good(inside, With(K, id)) /\ Good(<<>>, With(K, id))
    BY <2>6, <2>8, GoodSteps, InTree
  <2> HIDE DEF inside
  <2>10. Good(Scope(w, "struct", name, n, <<>>, inside), K)
    BY <2>9, GoodScopes
  <2>11. QED
    BY <2>10 DEF HaskellData, ForEach, inside, list, kids, each, constructor, declared, fields, field, called
<1>2. Good(HaskellClass(w, n), K)
  <2> DEFINE name == Field(n, "name").text
             id == Id("interface", name, n)
             sig(d) == IF d.kind = "signature" THEN d ELSE Kid(d, {"signature"})
             m(d) == Field(sig(d), "name").text
             referred(d) == HsTypeRefs(Id("method", m(d), sig(d)), Field(sig(d), "type"), sig(d))
             method(d) == <<DeclareIn(id, "method", m(d), sig(d), referred(d))>>
             list == Field(n, "declarations").kids
  <2>1. \A d \in Tree : sig(d) \in Tree
    BY InTree
  <2> HIDE DEF sig, m
  <2>2. \A d \in Tree : Good(referred(d), With(With(K, id), Id("method", m(d), sig(d))))
    BY <2>1, HaskellRefsGood, InTree, WithMembers
  <2> HIDE DEF referred
  <2>3. \A d \in Tree : Good(method(d), With(K, id))
    BY <2>2, GoodSteps, GoodParts, WithMembers
  <2>4. list \in Seq(Tree)
    BY InTree
  <2> HIDE DEF method, list
  <2>5. Good(FlattenSeq([i \in DOMAIN list |-> method(list[i])]), With(K, id)) /\ Good(<<>>, With(K, id))
    BY <2>3, <2>4, GoodSteps, InTree
  <2>6. QED
    BY <2>5, GoodScopes DEF HaskellClass, ForEach, list, method, referred, m, sig
<1>3. Good(HaskellInstance(w, n), K)
  <2> DEFINE class == Field(n, "name").text
             type == IF Field(n, "patterns").kids = <<>> THEN <<>> ELSE SubSeq(Head(Field(n, "patterns").kids).text, 1, 1)
             name == class \o type
             base == IF type = <<>> THEN class ELSE type \o <<"@">> \o class
             id == Id("module", name, n)
             function(d) == IF d.kind \in {"function", "bind"} THEN d ELSE Kid(d, {"function"})
             each(d) == If(function(d) # Nil, <<Visit("instance", function(d))>>)
             list == Field(n, "declarations").kids
             methods == FlattenSeq([i \in DOMAIN list |-> each(list[i])])
             scope == Scope(w, "module", name, n, <<Refer(id, "implements", base, n)>>, methods)
  <2>1. \A d \in Tree : function(d) \in Tree
    BY InTree
  <2> HIDE DEF function
  <2>2. \A d \in Tree : Good(each(d), With(K, id))
    BY <2>1, GoodSteps, GoodParts DEF If, Inner
  <2>3. list \in Seq(Tree)
    BY InTree
  <2> HIDE DEF each, list
  <2>4. Good(methods, With(K, id))
    BY <2>2, <2>3, GoodSteps, InTree
  <2> HIDE DEF methods, name, base
  <2>5. Good(<<Refer(id, "implements", base, n)>>, With(K, id))
    BY GoodSteps, GoodParts, WithMembers
  <2>6. Good(scope, K)
    BY <2>4, <2>5, GoodScopes
  <2> HIDE DEF scope
  <2>7. Good(If(class # <<>>, scope), K)
    BY <2>6, GoodSteps DEF If
  <2>8. QED
    BY <2>7, Zenon DEF HaskellInstance, ForEach, scope, methods, list, each, function, base, name
<1>4. QED
  BY <1>1, <1>2, <1>3

(* All of walk_haskell.go. *)
LEMMA HaskellGood ==
  ASSUME NEW w, NEW K, Sees(w, K), HasNode(w, Top(w)), NEW mode, NEW n \in Tree
  PROVE  Good(Haskell(w, mode, n), K)
<1>1. Good(HaskellFile(w, n), K)
  <2> DEFINE header == Kid(n, {"header"})
             name == Field(header, "module").text
             visits == VisitEach("file scope", KidsOf(Kid(n, {"imports"}), {"import"}))
                         \o VisitEach("file scope", Kid(n, {"declarations"}).kids)
  <2>1. \A L : Good(visits, L)
    BY GoodSteps, GoodParts, InTree DEF Inner
  <2> HIDE DEF visits
  <2>2. Good(Scope(w, "module", name, header, <<>>, visits), K)
    BY <2>1, GoodSteps, GoodScopes
  <2>3. QED
    BY <2>1, <2>2 DEF HaskellFile, visits
<1>2. Good(HaskellImport(w, n), K)
  <2>1. \A a, b : Good(<<Declare(w, "import", a, n, <<>>), Refer(Top(w), "imports", b, n)>>, K)
    BY GoodSteps, GoodParts, GoodScopes, SeenScopes
  <2>2. \A a, b, c : Good(If(c, <<Declare(w, "import", a, n, <<>>), Refer(Top(w), "imports", b, n)>>), K)
    BY <2>1, GoodSteps, Zenon DEF If
  <2>3. QED
    BY <2>2, Zenon DEF HaskellImport
<1>3. QED
  BY <1>1, <1>2, HaskellDeclarationsGood, HaskellTypesGood, GoodSteps DEF Haskell

-----------------------------------------------------------------------------
(* F#. *)

(* Unions, records and enums with their parts. *)
LEMMA FsTypesGood ==
  ASSUME NEW w, NEW K, Sees(w, K), NEW n \in Tree
  PROVE  /\ \A kind, list, part, partKind : Good(FsParts(w, kind, n, list, part, partKind), K)
         /\ Good(FsAnonType(w, n), K)
<1>1. ASSUME NEW kind, NEW list, NEW part, NEW partKind PROVE Good(FsParts(w, kind, n, list, part, partKind), K)
  <2> DEFINE id == Id(kind, FsTypeName(n), n)
             parts == KidsOf(Kid(n, {list}), {part})
             each(p) == <<DeclareIn(id, partKind, Kid(p, {"identifier"}).text, p, <<>>)>>
  <2>1. parts \in Seq(Tree)
    BY KidInTree, Zenon
  <2>2. \A p : Good(each(p), With(K, id))
    BY GoodSteps, GoodParts, WithMembers
  <2> HIDE DEF parts, each
  <2>3. Good(FlattenSeq([i \in DOMAIN parts |-> each(parts[i])]), With(K, id)) /\ Good(<<>>, With(K, id))
    BY <2>1, <2>2, GoodSteps, InTree
  <2>4. QED
    BY <2>3, GoodScopes DEF FsParts, ForEach, each, parts
<1>2. Good(FsAnonType(w, n), K)
  <2> DEFINE args == Kid(n, {"primary_constr_args"})
             kind == IF args = Nil /\ FsAllAbstract(n) THEN "interface" ELSE "class"
             id == Id(kind, FsTypeName(n), n)
             element(k) ==
               CASE k.kind = "class_inherits_decl"     -> ReferIf(id, "extends", LastName(Kid(k, {"simple_type"})), k)
                 [] k.kind = "type_extension_elements" -> VisitEach("member", k.kids)
                 [] OTHER                              -> <<>>
             patterns == KidsOf(args, {"typed_pattern"})
             field(p) == <<DeclareIn(id, "field", LastName(Kid(p, {"identifier_pattern"})), p, <<>>)>>
             fields == FlattenSeq([i \in DOMAIN patterns |-> field(patterns[i])])
             kids == n.kids
             elements == FlattenSeq([i \in DOMAIN kids |-> element(kids[i])])
  <2> HIDE DEF kind
  <2>1. \A k \in Tree : Good(element(k), With(K, id))
    BY GoodSteps, GoodParts, InTree, WithMembers DEF Inner
  <2>2. \A p : Good(field(p), With(K, id))
    BY GoodSteps, GoodParts, WithMembers
  <2>3. patterns \in Seq(Tree) /\ kids \in Seq(Tree)
    BY InTree
  <2> HIDE DEF element, field, patterns, kids
  <2>4. Good(fields, With(K, id)) /\ Good(elements, With(K, id)) /\ Good(<<>>, With(K, id))
    BY <2>1, <2>2, <2>3, GoodSteps, InTree
  <2> HIDE DEF fields, elements
  <2>5. Good(Scope(w, kind, FsTypeName(n), n, <<>>, fields \o elements), K)
    BY <2>4, GoodSteps, GoodScopes
  <2>6. QED
    BY <2>5 DEF FsAnonType, ForEach, elements, fields, kids, patterns, field, element, kind
<1>3. QED
  BY <1>1, <1>2

(* Types, members, and the interfaces they implement. *)
LEMMA FsMembersGood ==
  ASSUME NEW w, NEW K, Sees(w, K), NEW n \in Tree
  PROVE  /\ Good(FSharpType(w, n), K)
         /\ Good(FSharpMember(w, n), K)
         /\ Good(FSharpInterface(w, n), K)
<1>1. Good(FSharpType(w, n), K)
  <2> DEFINE list == n.kids
             each(k) ==
               CASE k.kind = "record_type_defn" -> FsParts(w, "struct", k, "record_fields", "record_field", "field")
                 [] k.kind = "union_type_defn"  -> FsParts(w, "enum", k, "union_type_cases", "union_type_case", "enum_member")
                 [] k.kind = "anon_type_defn"   -> FsAnonType(w, k)
                 [] OTHER                       -> <<>>
  <2>1. \A k \in Tree : Good(each(k), K)
    BY FsTypesGood, GoodSteps
  <2>2. list \in Seq(Tree)
    BY InTree
  <2> HIDE DEF list, each
  <2>3. Good(FlattenSeq([i \in DOMAIN list |-> each(list[i])]), K)
    BY <2>1, <2>2, GoodSteps, InTree
  <2>4. QED
    BY <2>3 DEF FSharpType, ForEach, each, list
<1>2. Good(FSharpMember(w, n), K)
  <2> DEFINE defn == Kid(n, {"method_or_prop_defn"})
             rest == Those(defn.kids, LAMBDA k : k.kind \notin {"property_or_ident", "const"})
             kids == defn.kids
  <2>1. kids \in Seq(Tree)
    BY InTree
  <2>2. rest \in Seq(Tree)
    <3> HIDE DEF kids
    <3>1. Those(kids, LAMBDA k : k.kind \notin {"property_or_ident", "const"}) \in Seq(Tree)
      BY <2>1, SeqsOfNodes, InTree DEF Those, ForEach, If
    <3>2. QED
      BY <3>1 DEF kids
  <2> HIDE DEF rest
  <2>3. \A L : Good(VisitEach("visit", rest), L)
    BY <2>2, GoodParts DEF Inner
  <2>4. \A kind, name : Good(Scope(w, kind, name, n, <<>>, VisitEach("visit", rest)), K)
    BY <2>3, GoodSteps, GoodScopes
  <2>5. \A kind, name : Good(<<Declare(w, kind, name, n, <<>>)>>, K)
    BY GoodOften
  <2>6. Good(<<>>, K)
    BY GoodSteps
  <2>7. QED
    BY <2>4, <2>5, <2>6, Zenon DEF FSharpMember, rest
<1>3. Good(FSharpInterface(w, n), K)
  BY GoodSteps, GoodOften, GoodParts, InTree DEF FSharpInterface, Inner
<1>4. QED
  BY <1>1, <1>2, <1>3

(* Bindings, applications and prefixed expressions. *)
LEMMA FsCodeGood ==
  ASSUME NEW w, NEW K, Sees(w, K), NEW n \in Tree
  PROVE  /\ Good(FSharpLet(w, n), K)
         /\ Good(FSharpApplication(w, n), K)
         /\ Good(FSharpPrefixed(w, n), K)
<1>0. \A ns \in Seq(Tree) : First(ns) \in Tree /\ Rest(ns) \in Seq(Tree)
  BY EndsInTree
<1>1. Good(FSharpLet(w, n), K)
  <2> DEFINE defn == IF n.kind = "declaration_expression" THEN Kid(n, {"function_or_value_defn"}) ELSE n
             kept(k, skipped) == Those(k.kids, LAMBDA c : c.kind # skipped)
             below(k, skipped) == VisitEach("visit", kept(k, skipped))
             steps == below(defn, "value_declaration_left")
                        \o If(n.kind = "declaration_expression", below(n, "function_or_value_defn"))
  <2>1. defn \in Tree
    BY InTree
  <2>2. \A skipped : \A k \in Tree : kept(k, skipped) \in Seq(Tree)
    BY SeqsOfNodes, InTree DEF Those, ForEach, If
  <2> HIDE DEF kept
  <2>3. \A L, skipped : \A k \in Tree : Good(below(k, skipped), L)
    BY <2>2, GoodParts DEF Inner
  <2> HIDE DEF below, defn
  <2>4. \A L : Good(steps, L)
    BY <2>1, <2>3, GoodSteps DEF If
  <2> HIDE DEF steps
  <2>5. \A kind, name : Good(Scope(w, kind, name, n, <<>>, steps), K)
    BY <2>4, GoodSteps, GoodScopes
  <2>6. Good(<<>>, K) /\ Good(VisitEach("visit", n.kids), K)
    BY GoodSteps, GoodOften DEF Inner
  <2>7. QED
    BY <2>5, <2>6, Zenon DEF FSharpLet, steps, below, kept, defn
<1>2. Good(FSharpApplication(w, n), K)
  <2> DEFINE rest == IF First(n.kids).kind \in FsCallees THEN Rest(n.kids) ELSE n.kids
  <2>1. rest \in Seq(Tree)
    BY <1>0, InTree
  <2> HIDE DEF rest
  <2>2. \A kind, name : Good(ReferIf(Top(w), kind, name, n) \o VisitEach("visit", rest), K)
    BY <2>1, GoodSteps, GoodOften, GoodParts DEF Inner
  <2>3. QED
    BY <2>2, Zenon DEF FSharpApplication, rest
<1>3. Good(FSharpPrefixed(w, n), K)
  <2> DEFINE app == Kid(n, {"application_expression"})
             rest == Rest(app.kids)
  <2>1. rest \in Seq(Tree)
    BY <1>0, InTree
  <2> HIDE DEF rest
  <2>2. \A kind, name : Good(ReferIf(Top(w), kind, name, n) \o VisitEach("visit", rest), K)
    BY <2>1, GoodSteps, GoodOften, GoodParts DEF Inner
  <2>3. Good(VisitEach("visit", n.kids), K)
    BY GoodOften DEF Inner
  <2>4. QED
    BY <2>2, <2>3, Zenon DEF FSharpPrefixed, rest
<1>4. QED
  BY <1>1, <1>2, <1>3

(* All of walk_fsharp.go. *)
LEMMA FSharpGood ==
  ASSUME NEW w, NEW K, Sees(w, K), NEW mode, NEW n \in Tree
  PROVE  Good(FSharp(w, mode, n), K)
<1> DEFINE kept(kinds) == Those(n.kids, LAMBDA k : k.kind \notin kinds)
<1>1. \A L, kinds : Good(VisitEach("visit", kept(kinds)), L)
  <2>1. \A kinds : kept(kinds) \in Seq(Tree)
    BY SeqsOfNodes, InTree DEF Those, ForEach, If
  <2> HIDE DEF kept
  <2>2. QED
    BY <2>1, GoodParts DEF Inner
<1> HIDE DEF kept
<1>2. ASSUME NEW kind, NEW name PROVE Good(FsScope(w, kind, name, n), K)
  <2> DEFINE inside == VisitEach("visit", kept(FsNames))
  <2>1. \A L : Good(inside, L)
    BY <1>1
  <2> HIDE DEF inside
  <2>2. Good(Scope(w, kind, name, n, <<>>, inside), K) /\ Good(VisitEach("visit", n.kids), K)
    BY <2>1, GoodSteps, GoodScopes, GoodOften DEF Inner
  <2>3. QED
    BY <2>2, Zenon DEF FsScope, inside, kept
<1>3. Good(FSharpImport(w, n), K)
  <2>1. \A a, b : Good(<<Declare(w, "import", a, n, <<>>), Refer(Top(w), "imports", b, n)>>, K)
    BY GoodSteps, GoodParts, GoodScopes, SeenScopes
  <2>2. \A a, b, c : Good(If(c, <<Declare(w, "import", a, n, <<>>), Refer(Top(w), "imports", b, n)>>), K)
    BY <2>1, GoodSteps, Zenon DEF If
  <2>3. QED
    BY <2>2, Zenon DEF FSharpImport
<1>4. Good(VisitEach("visit", kept(FsCallees)), K)
  BY <1>1
<1>5. QED
  BY <1>2, <1>3, <1>4, FsMembersGood, FsCodeGood, FsTypesGood, GoodOften DEF FSharp, Inner, kept

-----------------------------------------------------------------------------
(* The handlers. *)

(* A step of the root of a file, or a reset: nothing is open when it is its turn. *)
AtRoot(step) == step.do = "reset" \/ (step.do = "visit" /\ ~Inner(step.mode))

(* A step that may be to come in a file with the nodes of K. *)
Fine(step, K) ==
  \/ step.do \in {"leave", "reset"}
  \/ step.do = "visit" /\ step.node \in Tree
  \/ GoodStep(step, K)

(* A good step leaves nothing, waits for nothing to be closed, and may be to come. *)
LEMMA GoodIsPlain ==
  ASSUME NEW step, NEW K, GoodStep(step, K)
  PROVE  step.do # "leave" /\ ~AtRoot(step) /\ Fine(step, K)
BY GoodStepIs DEF AtRoot, Fine, Inner

(* What may be to come may still be to come when the file has more nodes. *)
LEMMA FineGrows ==
  ASSUME NEW step, NEW K, NEW L, K \subseteq L, Fine(step, K)
  PROVE  Fine(step, L)
BY GoodStepGrows DEF Fine

(* What is below a node of a file is good, whatever the language. *)
LEMMA HandlerInside ==
  ASSUME program \in Programs, program.lang # "erlang",
         NEW K, Sees(Walker, K), HasNode(Walker, Top(Walker)), NEW mode, NEW n \in Tree,
         mode # "file" \/ program.lang = "haskell",
         ~(program.lang = "perl" /\ n.kind = "package_statement" /\ mode = "root")
  PROVE  Good(Handler(mode, n), K)
<1> DEFINE w == Walker
           lang == program.lang
<1>0. Sees(w, K) /\ HasNode(w, Top(w))
  OBVIOUS
<1>1. lang \in Languages /\ lang # "erlang"
  BY ProgramsAssumption
<1> HIDE DEF w
<1>2. Good(Python(w, n), K) /\ Good(Lua(w, n), K) /\ Good(Bash(w, n), K) /\ Good(Ruby(w, n), K)
  BY <1>0, PythonGood, LuaGood, BashGood, RubyGood
<1>3. Good(R(w, n), K) /\ Good(Julia(w, n), K) /\ Good(PowerShell(w, n), K) /\ Good(Sql(w, n), K)
  BY <1>0, RGood, JuliaGood, PowerShellGood, SqlGood
<1>4. Good(C(w, n), K) /\ Good(Cpp(w, n), K) /\ Good(ObjC(w, n), K) /\ Good(Rust(w, n), K) /\ Good(Go(w, mode, n), K)
  BY <1>0, CGood, CppGood, ObjCGood, RustGood, GoGood
<1>5. Good(Php(w, n), K) /\ Good(TypeScript(w, n), K) /\ Good(Java(w, n), K) /\ Good(CSharp(w, n), K) /\ Good(Kotlin(w, n), K)
  BY <1>0, PhpGood, TypeScriptGood, JavaGood, CSharpGood, KotlinGood
<1>6. Good(Swift(w, mode, n), K) /\ Good(Dart(w, mode, n), K) /\ Good(Scala(w, n), K) /\ Good(Elixir(w, n), K)
  BY <1>0, SwiftGood, DartGood, ScalaGood, ElixirGood
<1>7. Good(Haskell(w, mode, n), K) /\ Good(FSharp(w, mode, n), K)
  BY <1>0, HaskellGood, FSharpGood
<1>8. lang = "perl" => Good(Perl(w, mode, n), K)
  BY <1>0, PerlGood
<1>9. Handler(mode, n) =
        CASE lang = "erlang"     -> Erlang(w, mode, n)
          [] lang = "haskell"    -> Haskell(w, mode, n)
          [] lang \notin {"erlang", "haskell"} /\ mode = "file" -> VisitEach("root", n.kids)
          [] lang \notin {"erlang", "haskell"} /\ mode # "file" ->
               CASE lang = "python"     -> Python(w, n)
                 [] lang = "lua"        -> Lua(w, n)
                 [] lang = "bash"       -> Bash(w, n)
                 [] lang = "ruby"       -> Ruby(w, n)
                 [] lang = "perl"       -> Perl(w, mode, n)
                 [] lang = "r"          -> R(w, n)
                 [] lang = "julia"      -> Julia(w, n)
                 [] lang = "powershell" -> PowerShell(w, n)
                 [] lang = "sql"        -> Sql(w, n)
                 [] lang = "c"          -> C(w, n)
                 [] lang = "cpp"        -> Cpp(w, n)
                 [] lang = "objc"       -> ObjC(w, n)
                 [] lang = "rust"       -> Rust(w, n)
                 [] lang = "go"         -> Go(w, mode, n)
                 [] lang = "php"        -> Php(w, n)
                 [] lang = "typescript" -> TypeScript(w, n)
                 [] lang = "java"       -> Java(w, n)
                 [] lang = "csharp"     -> CSharp(w, n)
                 [] lang = "kotlin"     -> Kotlin(w, n)
                 [] lang = "swift"      -> Swift(w, mode, n)
                 [] lang = "dart"       -> Dart(w, mode, n)
                 [] lang = "scala"      -> Scala(w, n)
                 [] lang = "elixir"     -> Elixir(w, n)
                 [] lang = "fsharp"     -> FSharp(w, mode, n)
  BY Zenon DEF Handler, w
<1> HIDE DEF lang
<1>10. lang = "haskell" \/ mode # "file"
  BY DEF lang
<1>11. QED
  BY <1>1, <1>2, <1>3, <1>4, <1>5, <1>6, <1>7, <1>8, <1>9, <1>10 DEF Languages

(* And what is at the root is fine, and opens nothing. *)
LEMMA HandlerAtRoot ==
  ASSUME program \in Programs, program.lang # "erlang",
         NEW K, Sees(Walker, K), HasNode(Walker, Top(Walker)), NEW mode, NEW n \in Tree
  PROVE  LET steps == Handler(mode, n)
         IN IsSeq(steps) /\ \A i \in DOMAIN steps : Fine(steps[i], K) /\ steps[i].do # "leave"
<1> DEFINE Settled(steps) == IsSeq(steps) /\ \A i \in DOMAIN steps : Fine(steps[i], K) /\ steps[i].do # "leave"
<1>1. \A steps : Good(steps, K) => Settled(steps)
  BY GoodIsPlain DEF Good
<1>2. CASE program.lang = "haskell" \/ (mode # "file" /\ ~(program.lang = "perl" /\ n.kind = "package_statement" /\ mode = "root"))
  <2>1. Good(Handler(mode, n), K)
    BY <1>2, HandlerInside
  <2>2. QED
    BY <1>1, <2>1
<1>3. CASE program.lang # "haskell" /\ mode = "file"
  <2>1. Handler(mode, n) = VisitEach("root", n.kids)
    BY <1>3 DEF Handler
  <2>2. n.kids \in Seq(Tree)
    BY InTree
  <2>3. Settled(VisitEach("root", n.kids))
    <3> DEFINE ns == n.kids
               steps == VisitEach("root", ns)
    <3>1. IsList(DOMAIN ns) /\ \A i \in DOMAIN ns : ns[i] \in Tree
      BY <2>2, InTree
    <3> HIDE DEF ns
    <3>2. steps = [i \in DOMAIN steps |-> steps[i]] /\ DOMAIN steps = DOMAIN ns
      BY DEF VisitEach
    <3>3. \A i \in DOMAIN steps : steps[i].do = "visit" /\ steps[i].node \in Tree
      BY <3>1 DEF VisitEach, Visit
    <3> HIDE DEF steps
    <3>4. Settled(steps)
      BY <3>1, <3>2, <3>3, Lists DEF Fine
    <3>5. QED
      BY <3>4 DEF steps, ns
  <2>4. QED
    BY <2>1, <2>3
<1>4. CASE program.lang = "perl" /\ n.kind = "package_statement" /\ mode = "root"
  <2> DEFINE name == Field(n, "name").text
             id == Id("module", name, n)
             declare == DeclareIn(FileId, "module", name, n, <<Enter(id)>>)
  <2>1. Handler(mode, n) = <<Reset, declare>>
    BY <1>4 DEF Handler, Perl, PerlPackage
  <2>2. Good(<<Enter(id)>>, With(K, id))
    BY GoodSteps, GoodParts, WithMembers
  <2>3. GoodStep(declare, K)
    BY <2>2, GoodParts, SeenScopes
  <2> HIDE DEF declare
  <2>4. Fine(Reset, K) /\ Reset.do # "leave" /\ Fine(declare, K) /\ declare.do # "leave"
    BY <2>3, GoodIsPlain DEF Reset, Fine
  <2>5. \A a, b : <<a, b>> \in Seq({a, b}) /\ \A i \in DOMAIN <<a, b>> : <<a, b>>[i] \in {a, b}
    OBVIOUS
  <2>6. \A a, b : Fine(a, K) /\ a.do # "leave" /\ Fine(b, K) /\ b.do # "leave" => Settled(<<a, b>>)
    <3> SUFFICES ASSUME NEW a, NEW b, Fine(a, K) /\ a.do # "leave" /\ Fine(b, K) /\ b.do # "leave"
                 PROVE  Settled(<<a, b>>)
      OBVIOUS
    <3> DEFINE s == <<a, b>>
    <3>1. s \in Seq({a, b}) /\ \A i \in DOMAIN s : s[i] \in {a, b}
      BY <2>5
    <3> HIDE DEF s
    <3>2. QED
      BY <3>1 DEF IsSeq, s
  <2>7. QED
    BY <2>1, <2>4, <2>6
<1>5. QED
  BY <1>2, <1>3, <1>4

-----------------------------------------------------------------------------
(* The steps to come. *)

(* d numbers the leaves among them, the first the highest, none as high as the
   stack is. *)
Depths(d, s, k) ==
  /\ d \in [DOMAIN s -> Nat]
  /\ \A i \in DOMAIN s : s[i].do = "leave" => 1 <= d[i] /\ d[i] < k
  /\ \A i, j \in DOMAIN s : i < j /\ s[i].do = "leave" /\ s[j].do = "leave" => d[j] < d[i]

(* A stack of k is popped no further than to its first, and what is at the root comes
   when nothing is open. *)
Balanced(s, k) ==
  /\ \E d : Depths(d, s, k)
  /\ \A i, j \in DOMAIN s : i < j /\ AtRoot(s[i]) => s[j].do # "leave"

Plain(s) == IsSeq(s) /\ \A i \in DOMAIN s : s[i].do # "leave" /\ ~AtRoot(s[i])

Open(s) == IsSeq(s) /\ \A i \in DOMAIN s : s[i].do # "leave"

(* Steps of the root, which leave nothing, are balanced on any stack. *)
LEMMA OpenBalanced ==
  ASSUME NEW s, Open(s), NEW k
  PROVE  Balanced(s, k)
<1>1. Depths([i \in DOMAIN s |-> 0], s, k)
  BY DEF Depths, Open
<1>2. QED
  BY <1>1 DEF Balanced, Open

(* The elements of two sequences, one after the other. *)
LEMMA Joined ==
  ASSUME NEW s, NEW t, IsSeq(s), IsSeq(t)
  PROVE  /\ IsSeq(s \o t)
         /\ Len(s) \in Nat /\ Len(t) \in Nat
         /\ DOMAIN s = 1..Len(s) /\ DOMAIN t = 1..Len(t)
         /\ DOMAIN (s \o t) = 1..(Len(s) + Len(t))
         /\ \A i \in 1..(Len(s) + Len(t)) : (s \o t)[i] = IF i <= Len(s) THEN s[i] ELSE t[i - Len(s)]
<1>1. PICK S, T : s \in Seq(S) /\ t \in Seq(T)
  BY DEF IsSeq
<1>2. s \in Seq(S \cup T) /\ t \in Seq(S \cup T)
  BY <1>1, SeqMonotonic
<1>3. QED
  BY <1>2, ConcatProperties, LenProperties DEF IsSeq

(* Of each in a sequence of two. *)
LEMMA JoinedEach ==
  ASSUME NEW s, NEW t, IsSeq(s), IsSeq(t), NEW P,
         \A i \in DOMAIN s : s[i] \in P, \A i \in DOMAIN t : t[i] \in P
  PROVE  \A i \in DOMAIN (s \o t) : (s \o t)[i] \in P
<1> SUFFICES ASSUME NEW i \in DOMAIN (s \o t) PROVE (s \o t)[i] \in P
  OBVIOUS
<1>1. i \in 1..(Len(s) + Len(t)) /\ Len(s) \in Nat /\ Len(t) \in Nat
  BY Joined
<1>2. CASE i <= Len(s)
  BY <1>1, <1>2, Joined
<1>3. CASE ~(i <= Len(s))
  <2>1. i - Len(s) \in 1..Len(t)
    BY <1>1, <1>3
  <2>2. QED
    BY <1>1, <1>3, <2>1, Joined
<1>4. QED
  BY <1>2, <1>3

(* The first of a sequence, and the rest. *)
LEMMA RestOf ==
  ASSUME NEW s, IsSeq(s), s # <<>>
  PROVE  /\ IsSeq(Tail(s)) /\ Len(s) \in Nat /\ Len(s) >= 1
         /\ DOMAIN s = 1..Len(s) /\ DOMAIN Tail(s) = 1..(Len(s) - 1)
         /\ Head(s) = s[1]
         /\ \A i \in 1..(Len(s) - 1) : Tail(s)[i] = s[i + 1] /\ i + 1 \in DOMAIN s
<1>1. PICK S : s \in Seq(S)
  BY DEF IsSeq
<1>2. QED
  BY <1>1, HeadTailProperties, LenProperties, EmptySeq DEF IsSeq

(* Steps of the root before others of the root. *)
LEMMA OpenJoined ==
  ASSUME NEW s, NEW t, Open(s), Open(t)
  PROVE  Open(s \o t)
<1> DEFINE P == {s[i] : i \in DOMAIN s} \cup {t[i] : i \in DOMAIN t}
<1>1. \A x \in P : x.do # "leave"
  BY DEF Open
<1>2. (\A i \in DOMAIN s : s[i] \in P) /\ (\A i \in DOMAIN t : t[i] \in P)
  OBVIOUS
<1> HIDE DEF P
<1>3. \A i \in DOMAIN (s \o t) : (s \o t)[i] \in P
  BY <1>2, JoinedEach DEF Open
<1>4. QED
  BY <1>1, <1>3, Joined DEF Open

(* A step is taken that leaves nothing, and the stack is as high as before, or higher. *)
LEMMA BalancedRest ==
  ASSUME NEW s, IsSeq(s), s # <<>>, NEW k \in Nat, Balanced(s, k), NEW l \in Nat, l >= k
  PROVE  Balanced(Tail(s), l)
<1> DEFINE t == Tail(s)
           n == Len(s) - 1
<1>1. n \in Nat /\ DOMAIN t = 1..n /\ \A i \in 1..n : t[i] = s[i + 1] /\ i + 1 \in DOMAIN s
  BY RestOf
<1>2. PICK d : Depths(d, s, k)
  BY DEF Balanced
<1> DEFINE e == [i \in DOMAIN t |-> d[i + 1]]
<1> HIDE DEF t, n
<1>3. \A i, j \in 1..n : i < j => i + 1 < j + 1
  BY <1>1
<1>4. Depths(e, t, l)
  <2>1. e \in [DOMAIN t -> Nat]
    BY <1>1, <1>2 DEF Depths
  <2>2. \A i \in DOMAIN t : t[i].do = "leave" => 1 <= e[i] /\ e[i] < l
    BY <1>1, <1>2 DEF Depths
  <2>3. \A i, j \in DOMAIN t : i < j /\ t[i].do = "leave" /\ t[j].do = "leave" => e[j] < e[i]
    BY <1>1, <1>2, <1>3 DEF Depths
  <2>4. QED
    BY <2>1, <2>2, <2>3 DEF Depths
<1>5. \A i, j \in DOMAIN t : i < j /\ AtRoot(t[i]) => t[j].do # "leave"
  BY <1>1, <1>3 DEF Balanced
<1>6. QED
  BY <1>4, <1>5 DEF Balanced, t

(* A step is taken that leaves something: there is something to leave. *)
LEMMA BalancedLeave ==
  ASSUME NEW s, IsSeq(s), s # <<>>, NEW k \in Nat, Balanced(s, k), Head(s).do = "leave"
  PROVE  k >= 2 /\ Balanced(Tail(s), k - 1)
<1> DEFINE t == Tail(s)
           n == Len(s) - 1
<1>1. n \in Nat /\ DOMAIN t = 1..n /\ \A i \in 1..n : t[i] = s[i + 1] /\ i + 1 \in DOMAIN s
  BY RestOf
<1>2. 1 \in DOMAIN s /\ s[1].do = "leave"
  BY RestOf
<1>3. PICK d : Depths(d, s, k)
  BY DEF Balanced
<1>4. d[1] \in Nat /\ 1 <= d[1] /\ d[1] < k
  BY <1>2, <1>3 DEF Depths
<1> DEFINE e == [i \in DOMAIN t |-> d[i + 1]]
<1> HIDE DEF t, n
<1>5. \A i, j \in 1..n : (i < j => i + 1 < j + 1) /\ 1 < i + 1
  BY <1>1
<1>6. Depths(e, t, k - 1)
  <2>1. e \in [DOMAIN t -> Nat]
    BY <1>1, <1>3 DEF Depths
  <2>2. ASSUME NEW i \in DOMAIN t, t[i].do = "leave" PROVE 1 <= e[i] /\ e[i] < k - 1
    <3>1. d[i + 1] < d[1] /\ 1 <= d[i + 1] /\ d[i + 1] \in Nat
      BY <1>1, <1>2, <1>3, <1>5, <2>2 DEF Depths
    <3>2. QED
      BY <1>4, <3>1
  <2>3. \A i, j \in DOMAIN t : i < j /\ t[i].do = "leave" /\ t[j].do = "leave" => e[j] < e[i]
    BY <1>1, <1>3, <1>5 DEF Depths
  <2>4. QED
    BY <2>1, <2>2, <2>3 DEF Depths
<1>7. \A i, j \in DOMAIN t : i < j /\ AtRoot(t[i]) => t[j].do # "leave"
  BY <1>1, <1>5 DEF Balanced
<1>8. QED
  BY <1>4, <1>6, <1>7 DEF Balanced, t

(* Steps that neither leave nor are at the root come before others. *)
LEMMA BalancedMore ==
  ASSUME NEW s, NEW t, Plain(s), IsSeq(t), NEW k \in Nat, Balanced(t, k)
  PROVE  Balanced(s \o t, k)
<1> DEFINE u == s \o t
           m == Len(s)
           n == Len(t)
<1>1. m \in Nat /\ n \in Nat /\ DOMAIN t = 1..n /\ DOMAIN u = 1..(m + n)
  BY Joined DEF Plain
<1>2. \A i \in 1..(m + n) : i <= m => u[i].do # "leave" /\ ~AtRoot(u[i])
  BY Joined DEF Plain
<1>3. \A i \in 1..(m + n) : ~(i <= m) => u[i] = t[i - m] /\ i - m \in 1..n
  <2>1. \A i \in 1..(m + n) : ~(i <= m) => i - m \in 1..n
    BY <1>1
  <2>2. QED
    BY <2>1, Joined DEF Plain
<1>4. PICK d : Depths(d, t, k)
  BY DEF Balanced
<1> DEFINE e == [i \in DOMAIN u |-> IF i <= m THEN 0 ELSE d[i - m]]
<1> HIDE DEF u, m, n
<1>5. \A i, j \in 1..(m + n) : i < j /\ ~(i <= m) => ~(j <= m) /\ i - m < j - m
  BY <1>1
<1>6. Depths(e, u, k)
  <2>1. e \in [DOMAIN u -> Nat]
    BY <1>1, <1>3, <1>4 DEF Depths
  <2>2. \A i \in DOMAIN u : u[i].do = "leave" => 1 <= e[i] /\ e[i] < k
    BY <1>1, <1>2, <1>3, <1>4 DEF Depths
  <2>3. ASSUME NEW i \in DOMAIN u, NEW j \in DOMAIN u, i < j, u[i].do = "leave", u[j].do = "leave" PROVE e[j] < e[i]
    <3>1. ~(i <= m) /\ ~(j <= m) /\ i - m < j - m
      BY <1>1, <1>2, <1>5, <2>3
    <3>2. QED
      BY <1>1, <1>3, <1>4, <2>3, <3>1 DEF Depths
  <2>4. QED
    BY <2>1, <2>2, <2>3 DEF Depths
<1>7. ASSUME NEW i \in DOMAIN u, NEW j \in DOMAIN u, i < j, AtRoot(u[i]) PROVE u[j].do # "leave"
  <2>1. ~(i <= m) /\ ~(j <= m) /\ i - m < j - m
    BY <1>1, <1>2, <1>5, <1>7
  <2>2. QED
    BY <1>1, <1>3, <1>7, <2>1 DEF Balanced
<1>8. QED
  BY <1>6, <1>7 DEF Balanced, u

(* What is pushed is left, after what is inside. *)
LEMMA BalancedInside ==
  ASSUME NEW t, IsSeq(t), NEW k \in Nat, k >= 1, Balanced(t, k)
  PROVE  IsSeq(<<Leave>> \o t) /\ Balanced(<<Leave>> \o t, k + 1)
<1> DEFINE u == <<Leave>> \o t
           n == Len(t)
<1>1. IsSeq(<<Leave>>) /\ Len(<<Leave>>) = 1 /\ <<Leave>>[1] = Leave
  <2>1. <<Leave>> \in Seq({Leave})
    OBVIOUS
  <2>2. QED
    BY <2>1 DEF IsSeq
<1>2. IsSeq(u) /\ n \in Nat /\ DOMAIN t = 1..n /\ DOMAIN u = 1..(1 + n)
      /\ \A i \in 1..(1 + n) : u[i] = IF i <= 1 THEN <<Leave>>[i] ELSE t[i - 1]
  BY <1>1, Joined
<1>3. \A i \in 1..(1 + n) : i = 1 \/ (~(i <= 1) /\ i - 1 \in 1..n)
  BY <1>2
<1>4. \A i \in 1..(1 + n) : IF i = 1 THEN u[i] = Leave ELSE u[i] = t[i - 1] /\ i - 1 \in 1..n
  BY <1>1, <1>2, <1>3
<1>5. PICK d : Depths(d, t, k)
  BY DEF Balanced
<1> DEFINE e == [i \in DOMAIN u |-> IF i = 1 THEN k ELSE d[i - 1]]
<1> HIDE DEF u, n
<1>6. \A i, j \in 1..(1 + n) : i < j => j # 1 /\ (i # 1 => i - 1 < j - 1)
  BY <1>2
<1>7. Depths(e, u, k + 1)
  <2>1. e \in [DOMAIN u -> Nat]
    BY <1>2, <1>4, <1>5 DEF Depths
  <2>2. \A i \in 1..n : t[i].do = "leave" => 1 <= d[i] /\ d[i] < k /\ d[i] \in Nat
    BY <1>2, <1>5 DEF Depths
  <2>3. ASSUME NEW i \in DOMAIN u, u[i].do = "leave" PROVE 1 <= e[i] /\ e[i] < k + 1
    BY <1>2, <1>4, <2>2, <2>3
  <2>4. ASSUME NEW i \in DOMAIN u, NEW j \in DOMAIN u, i < j, u[i].do = "leave", u[j].do = "leave" PROVE e[j] < e[i]
    <3>1. j # 1 /\ u[j] = t[j - 1] /\ j - 1 \in 1..n /\ e[j] = d[j - 1]
      BY <1>2, <1>4, <1>6, <2>4
    <3>2. CASE i = 1
      BY <2>2, <2>4, <3>1, <3>2
    <3>3. CASE i # 1
      <4>1. u[i] = t[i - 1] /\ i - 1 \in 1..n /\ e[i] = d[i - 1] /\ i - 1 < j - 1
        BY <1>2, <1>4, <1>6, <2>4, <3>3
      <4>2. QED
        BY <1>2, <1>5, <2>4, <3>1, <4>1 DEF Depths
    <3>4. QED
      BY <3>2, <3>3
  <2>5. QED
    BY <2>1, <2>3, <2>4 DEF Depths
<1>8. ASSUME NEW i \in DOMAIN u, NEW j \in DOMAIN u, i < j, AtRoot(u[i]) PROVE u[j].do # "leave"
  <2>1. i # 1
    BY <1>2, <1>4, <1>8 DEF AtRoot, Leave
  <2>2. j # 1 /\ i - 1 < j - 1
    BY <1>2, <1>6, <1>8, <2>1
  <2>3. QED
    BY <1>2, <1>4, <1>8, <2>1, <2>2 DEF Balanced
<1>9. QED
  BY <1>2, <1>7, <1>8 DEF Balanced, u

(* Nothing is open when it is the turn of what is at the root. *)
LEMMA BalancedRoot ==
  ASSUME NEW s, IsSeq(s), s # <<>>, NEW k, Balanced(s, k), AtRoot(Head(s))
  PROVE  Open(Tail(s))
<1>1. \A i \in 1..(Len(s) - 1) : 1 < i + 1 /\ 1 \in DOMAIN s
  BY RestOf
<1>2. QED
  BY <1>1, RestOf DEF Balanced, Open

-----------------------------------------------------------------------------
(* The invariant. *)

Ids == {nodes[i].id : i \in DOMAIN nodes}

(* Every end of an edge, every scope on the stack and every source of a reference is a
   node that the file has, at each step of its walk and not only when it is done; so
   will be those of the steps that are to come, and they pop no more than they push. *)
IInv ==
  /\ program \in Programs
  /\ IsSeq(nodes) /\ FileId \in Ids
  /\ IsSeq(edges) /\ \A i \in DOMAIN edges : edges[i].from \in Ids /\ edges[i].to \in Ids
  /\ IsSeq(refs) /\ \A i \in DOMAIN refs : refs[i].from \in Ids
  /\ stack \in Seq(Ids) /\ stack # <<>>
  /\ pending \in Ids \cup {<<>>}
  /\ IsSeq(todo) /\ \A i \in DOMAIN todo : Fine(todo[i], Ids)
  /\ Balanced(todo, Len(stack))

(* What is to come after the first step is fine, too, and so is the step itself. *)
LEMMA FirstStep ==
  ASSUME IInv, todo # <<>>
  PROVE  /\ IsSeq(Tail(todo)) /\ \A i \in DOMAIN Tail(todo) : Fine(Tail(todo)[i], Ids)
         /\ Fine(Step, Ids)
         /\ Len(stack) \in Nat /\ Len(stack) >= 1
<1>1. IsSeq(Tail(todo)) /\ \A i \in DOMAIN Tail(todo) : Fine(Tail(todo)[i], Ids)
  BY RestOf DEF IInv
<1>2. Fine(Step, Ids)
  <2>1. 1 \in DOMAIN todo /\ Head(todo) = todo[1]
    BY RestOf DEF IInv
  <2>2. QED
    BY <2>1 DEF IInv, Step
<1>3. Len(stack) \in Nat /\ Len(stack) >= 1
  BY EmptySeq, LenProperties DEF IInv
<1>4. QED
  BY <1>1, <1>2, <1>3

(* Fine steps before others. *)
LEMMA FineJoined ==
  ASSUME NEW K, NEW s, NEW t, IsSeq(s), IsSeq(t),
         \A i \in DOMAIN s : Fine(s[i], K), \A i \in DOMAIN t : Fine(t[i], K)
  PROVE  IsSeq(s \o t) /\ \A i \in DOMAIN (s \o t) : Fine((s \o t)[i], K)
<1> DEFINE P == {s[i] : i \in DOMAIN s} \cup {t[i] : i \in DOMAIN t}
<1>1. \A x \in P : Fine(x, K)
  OBVIOUS
<1>2. (\A i \in DOMAIN s : s[i] \in P) /\ (\A i \in DOMAIN t : t[i] \in P)
  OBVIOUS
<1> HIDE DEF P
<1>3. \A i \in DOMAIN (s \o t) : (s \o t)[i] \in P
  BY <1>2, JoinedEach
<1>4. QED
  BY <1>1, <1>3, Joined

(* The elements of a sequence and one more. *)
LEMMA Appended ==
  ASSUME NEW s, IsSeq(s), NEW x
  PROVE  /\ IsSeq(Append(s, x))
         /\ \A i \in DOMAIN Append(s, x) : (i \in DOMAIN s /\ Append(s, x)[i] = s[i]) \/ Append(s, x)[i] = x
         /\ \A i \in DOMAIN s : i \in DOMAIN Append(s, x) /\ Append(s, x)[i] = s[i]
         /\ \E i \in DOMAIN Append(s, x) : Append(s, x)[i] = x
<1>1. PICK S : s \in Seq(S)
  BY DEF IsSeq
<1>2. s \in Seq(S \cup {x}) /\ x \in S \cup {x}
  BY <1>1, SeqMonotonic
<1> DEFINE T == S \cup {x}
<1> HIDE DEF T
<1>3. Append(s, x) \in Seq(T) /\ Len(Append(s, x)) = Len(s) + 1 /\ Len(s) \in Nat
      /\ DOMAIN s = 1..Len(s) /\ DOMAIN Append(s, x) = 1..(Len(s) + 1)
      /\ (\A i \in 1..Len(s) : Append(s, x)[i] = s[i]) /\ Append(s, x)[Len(s) + 1] = x
  BY <1>2, AppendProperties, LenProperties DEF T
<1>4. \A i \in 1..(Len(s) + 1) : i \in 1..Len(s) \/ i = Len(s) + 1
  BY <1>3
<1>5. Len(s) + 1 \in DOMAIN Append(s, x) /\ \A i \in 1..Len(s) : i \in 1..(Len(s) + 1)
  BY <1>3
<1>6. QED
  BY <1>3, <1>4, <1>5 DEF IsSeq

(* A walker sees the nodes of the file as it is, and is always inside one of them. *)
LEMMA WhatIsSeen ==
  ASSUME IInv
  PROVE  Sees(Walker, Ids) /\ HasNode(Walker, Top(Walker))
<1>1. Walker.stack = stack /\ Walker.nodes = nodes /\ Walker.pending = pending
  BY DEF Walker
<1>2. Sees(Walker, Ids)
  BY <1>1 DEF Sees, Ids, IInv, Walker
<1>3. Top(Walker) \in Ids
  BY <1>2, SeenScopes
<1>4. QED
  BY <1>1, <1>2, <1>3 DEF HasNode, Ids

(* A file has its own node, and is on its stack, before anything of it is read. *)
LEMMA InitHolds == Init => IInv
<1> SUFFICES ASSUME Init PROVE IInv
  OBVIOUS
<1>1. nodes = <<FileNode>> /\ FileNode.id = FileId
  BY DEF Init, FileNode
<1>2. IsSeq(nodes) /\ Ids = {FileId}
  <2>1. \A x : <<x>> \in Seq({x}) /\ DOMAIN <<x>> = {1} /\ <<x>>[1] = x
    OBVIOUS
  <2>2. nodes \in Seq({FileNode}) /\ DOMAIN nodes = {1} /\ nodes[1] = FileNode
    BY <1>1, <2>1
  <2>3. QED
    BY <1>1, <2>2 DEF IsSeq, Ids
<1>3. IsSeq(<<>>) /\ DOMAIN <<>> = {}
  <2>1. <<>> \in Seq({})
    OBVIOUS
  <2>2. QED
    BY <2>1 DEF IsSeq
<1>4. stack \in Seq(Ids) /\ stack # <<>>
  BY <1>2 DEF Init
<1>5. IsSeq(todo) /\ \A i \in DOMAIN todo : Fine(todo[i], Ids) /\ todo[i].do # "leave"
  <2> DEFINE visit == Visit("file", program.root)
  <2>1. Fine(visit, Ids) /\ visit.do # "leave"
    BY RootsInTree DEF Visit, Fine, Init
  <2>2. todo = <<visit>>
    BY DEF Init
  <2> HIDE DEF visit
  <2>3. \A x : <<x>> \in Seq({x}) /\ DOMAIN <<x>> = {1} /\ <<x>>[1] = x
    OBVIOUS
  <2>4. QED
    BY <2>1, <2>2, <2>3 DEF IsSeq
<1>6. Balanced(todo, Len(stack))
  BY <1>5, OpenBalanced DEF Open
<1>7. QED
  BY <1>2, <1>3, <1>4, <1>5, <1>6 DEF Init, IInv

(* A visit puts the handler's steps before what is to come: they are good, or the root's. *)
LEMMA VisitKeeps ==
  ASSUME program.lang # "erlang", IInv, VisitNode
  PROVE  IInv'
<1> DEFINE steps == Handler(Step.mode, Step.node)
           rest == Tail(todo)
<1>1. todo # <<>> /\ Step.do = "visit" /\ todo' = steps \o rest /\ UNCHANGED <<program, nodes, edges, refs, stack, pending>>
  BY DEF VisitNode, Does
<1>2. IsSeq(rest) /\ (\A i \in DOMAIN rest : Fine(rest[i], Ids)) /\ Fine(Step, Ids) /\ Len(stack) \in Nat /\ Len(stack) >= 1
  BY <1>1, FirstStep
<1>3. Step.node \in Tree
  BY <1>1, <1>2, GoodStepIs DEF Fine
<1>4. Sees(Walker, Ids) /\ HasNode(Walker, Top(Walker)) /\ program \in Programs
  BY WhatIsSeen DEF IInv
<1>5. IsSeq(steps) /\ \A i \in DOMAIN steps : Fine(steps[i], Ids) /\ steps[i].do # "leave"
  BY <1>3, <1>4, HandlerAtRoot
<1>6. Inner(Step.mode) => Plain(steps)
  <2> SUFFICES ASSUME Inner(Step.mode) PROVE Plain(steps)
    OBVIOUS
  <2>1. Step.mode # "file" /\ Step.mode # "root"
    BY DEF Inner
  <2>2. Good(steps, Ids)
    BY <1>3, <1>4, <2>1, HandlerInside
  <2> HIDE DEF steps
  <2>3. QED
    BY <2>2, GoodIsPlain DEF Good, Plain
<1> HIDE DEF steps
<1>7. Balanced(steps \o rest, Len(stack))
  <2>1. CASE Inner(Step.mode)
    <3>1. Balanced(rest, Len(stack))
      BY <1>1, <1>2, BalancedRest DEF IInv
    <3>2. QED
      BY <1>2, <1>6, <2>1, <3>1, BalancedMore
  <2>2. CASE ~Inner(Step.mode)
    <3>1. AtRoot(Head(todo))
      BY <1>1, <2>2 DEF AtRoot, Step
    <3>2. Open(rest)
      BY <1>1, <3>1, BalancedRoot DEF IInv
    <3>3. Open(steps)
      BY <1>5 DEF Open
    <3>4. QED
      BY <3>2, <3>3, OpenJoined, OpenBalanced
  <2>3. QED
    BY <2>1, <2>2
<1>8. IsSeq(steps \o rest) /\ \A i \in DOMAIN (steps \o rest) : Fine((steps \o rest)[i], Ids)
  BY <1>2, <1>5, FineJoined
<1> HIDE DEF rest
<1>9. Ids' = Ids
  BY <1>1 DEF Ids
<1>10. QED
  BY <1>1, <1>7, <1>8, <1>9 DEF IInv

(* createNode: the file has one node more, and what follows it may name it. *)
LEMMA CreateKeeps ==
  ASSUME IInv, CreateNode
  PROVE  IInv'
<1> DEFINE id == Id(Step.kind, Step.name, Step.node)
           new == [id |-> id, kind |-> Step.kind, name |-> Step.name, node |-> Step.node,
                   qual |-> QualifiedName(Walker, Step.parent, Step.name)]
           edge == [from |-> Step.parent, to |-> id]
           then == Step.then
           rest == Tail(todo)
           L == With(Ids, id)
<1>1. /\ todo # <<>> /\ Step.do = "declare" /\ todo' = then \o rest
      /\ nodes' = Append(nodes, new) /\ edges' = Append(edges, edge)
      /\ UNCHANGED <<program, refs, stack, pending>>
  BY DEF CreateNode, Does
<1>2. IsSeq(rest) /\ (\A i \in DOMAIN rest : Fine(rest[i], Ids)) /\ Fine(Step, Ids) /\ Len(stack) \in Nat /\ Len(stack) >= 1
  BY <1>1, FirstStep
<1>3. Step.parent \in Ids /\ Good(then, L)
  BY <1>1, <1>2, GoodStepIs DEF Fine
<1>4. Ids \subseteq L /\ id \in L
  BY DEF With
<1>5. edge.from \in L /\ edge.to \in L /\ new.id = id
  BY <1>3, <1>4
<1> HIDE DEF then, new, edge
<1>6. IsSeq(nodes') /\ Ids' = L
  <2>1. Ids' = {nodes'[i].id : i \in DOMAIN nodes'}
    BY DEF Ids
  <2>2. IsSeq(nodes)
    BY DEF IInv
  <2>3. {nodes'[i].id : i \in DOMAIN nodes'} = Ids \cup {id}
    <3> DEFINE ap == Append(nodes, new)
    <3>1. /\ \A i \in DOMAIN ap : (i \in DOMAIN nodes /\ ap[i] = nodes[i]) \/ ap[i] = new
          /\ \A i \in DOMAIN nodes : i \in DOMAIN ap /\ ap[i] = nodes[i]
          /\ \E i \in DOMAIN ap : ap[i] = new
      BY <2>2, Appended
    <3> HIDE DEF ap
    <3>2. {ap[i].id : i \in DOMAIN ap} \subseteq Ids \cup {id}
      BY <1>5, <3>1 DEF Ids
    <3>3. \A i \in DOMAIN nodes : nodes[i].id \in {ap[j].id : j \in DOMAIN ap}
      BY <3>1
    <3>4. id \in {ap[j].id : j \in DOMAIN ap}
      BY <1>5, <3>1
    <3>5. {ap[i].id : i \in DOMAIN ap} = Ids \cup {id}
      BY <3>2, <3>3, <3>4 DEF Ids
    <3>6. QED
      BY <1>1, <3>5 DEF ap
  <2>4. QED
    BY <1>1, <2>1, <2>2, <2>3, Appended DEF With
<1>7. IsSeq(edges') /\ \A i \in DOMAIN edges' : edges'[i].from \in L /\ edges'[i].to \in L
  <2>1. IsSeq(edges) /\ \A i \in DOMAIN edges : edges[i].from \in Ids /\ edges[i].to \in Ids
    BY DEF IInv
  <2> HIDE DEF L
  <2>2. QED
    BY <1>1, <1>4, <1>5, <2>1, Appended
<1>8. Plain(then) /\ \A i \in DOMAIN then : Fine(then[i], L)
  <2> HIDE DEF L
  <2>1. QED
    BY <1>3, GoodIsPlain DEF Good, Plain
<1>9. \A i \in DOMAIN rest : Fine(rest[i], L)
  <2> HIDE DEF L
  <2>1. QED
    BY <1>2, <1>4, FineGrows
<1>10. Balanced(then \o rest, Len(stack))
  <2>1. Balanced(rest, Len(stack))
    BY <1>1, <1>2, BalancedRest DEF IInv
  <2>2. QED
    BY <1>2, <1>8, <2>1, BalancedMore
<1>11. IsSeq(then \o rest) /\ \A i \in DOMAIN (then \o rest) : Fine((then \o rest)[i], L)
  <2> HIDE DEF L, rest
  <2>1. QED
    BY <1>2, <1>8, <1>9, FineJoined DEF Plain
<1>12. stack \in Seq(L)
  BY <1>4, SeqMonotonic DEF IInv
<1> HIDE DEF L, rest
<1>13. QED
  BY <1>1, <1>4, <1>6, <1>7, <1>10, <1>11, <1>12 DEF IInv

(* createNode of an empty name: what would have followed is gone with it. *)
LEMMA NothingKeeps ==
  ASSUME IInv, CreateNothing
  PROVE  IInv'
<1> DEFINE rest == Tail(todo)
<1>1. todo # <<>> /\ todo' = rest /\ UNCHANGED <<program, nodes, edges, refs, stack, pending>>
  BY DEF CreateNothing, Does
<1>2. IsSeq(rest) /\ (\A i \in DOMAIN rest : Fine(rest[i], Ids)) /\ Len(stack) \in Nat
  BY <1>1, FirstStep
<1>3. Balanced(rest, Len(stack))
  BY <1>1, <1>2, BalancedRest DEF IInv
<1>4. Ids' = Ids
  BY <1>1 DEF Ids
<1> HIDE DEF rest
<1>5. QED
  BY <1>1, <1>2, <1>3, <1>4 DEF IInv

(* A reference from a node that the file has. *)
LEMMA ReferenceKeeps ==
  ASSUME IInv, AddReference
  PROVE  IInv'
<1> DEFINE rest == Tail(todo)
           ref == [from |-> Step.from, kind |-> Step.kind, name |-> Step.name, node |-> Step.node]
<1>1. /\ todo # <<>> /\ Step.do = "refer" /\ todo' = rest /\ refs' = Append(refs, ref)
      /\ UNCHANGED <<program, nodes, edges, stack, pending>>
  BY DEF AddReference, Does
<1>2. IsSeq(rest) /\ (\A i \in DOMAIN rest : Fine(rest[i], Ids)) /\ Fine(Step, Ids) /\ Len(stack) \in Nat
  BY <1>1, FirstStep
<1>3. ref.from \in Ids
  BY <1>1, <1>2, GoodStepIs DEF Fine
<1>4. Balanced(rest, Len(stack))
  BY <1>1, <1>2, BalancedRest DEF IInv
<1>5. Ids' = Ids
  BY <1>1 DEF Ids
<1> HIDE DEF ref, rest
<1>6. IsSeq(refs') /\ \A i \in DOMAIN refs' : refs'[i].from \in Ids
  <2>1. IsSeq(refs) /\ \A i \in DOMAIN refs : refs[i].from \in Ids
    BY DEF IInv
  <2>2. QED
    BY <1>1, <1>3, <2>1, Appended
<1>7. QED
  BY <1>1, <1>2, <1>4, <1>5, <1>6 DEF IInv

(* An edge between nodes that the file has. *)
LEMMA ContainsKeeps ==
  ASSUME IInv, AddContains
  PROVE  IInv'
<1> DEFINE rest == Tail(todo)
           edge == [from |-> Step.from, to |-> Step.to]
<1>1. /\ todo # <<>> /\ Step.do = "contain" /\ todo' = rest /\ edges' = Append(edges, edge)
      /\ UNCHANGED <<program, nodes, refs, stack, pending>>
  BY DEF AddContains, Does
<1>2. IsSeq(rest) /\ (\A i \in DOMAIN rest : Fine(rest[i], Ids)) /\ Fine(Step, Ids) /\ Len(stack) \in Nat
  BY <1>1, FirstStep
<1>3. edge.from \in Ids /\ edge.to \in Ids
  BY <1>1, <1>2, GoodStepIs DEF Fine
<1>4. Balanced(rest, Len(stack))
  BY <1>1, <1>2, BalancedRest DEF IInv
<1>5. Ids' = Ids
  BY <1>1 DEF Ids
<1> HIDE DEF edge, rest
<1>6. IsSeq(edges') /\ \A i \in DOMAIN edges' : edges'[i].from \in Ids /\ edges'[i].to \in Ids
  <2>1. IsSeq(edges) /\ \A i \in DOMAIN edges : edges[i].from \in Ids /\ edges[i].to \in Ids
    BY DEF IInv
  <2>2. QED
    BY <1>1, <1>3, <2>1, Appended
<1>7. QED
  BY <1>1, <1>2, <1>4, <1>5, <1>6 DEF IInv

(* The pending type is one that the file has, or none. *)
LEMMA PendingKeeps ==
  ASSUME IInv, SetPending
  PROVE  IInv'
<1> DEFINE rest == Tail(todo)
<1>1. todo # <<>> /\ Step.do = "pend" /\ todo' = rest /\ pending' = Step.id /\ UNCHANGED <<program, nodes, edges, refs, stack>>
  BY DEF SetPending, Does
<1>2. IsSeq(rest) /\ (\A i \in DOMAIN rest : Fine(rest[i], Ids)) /\ Fine(Step, Ids) /\ Len(stack) \in Nat
  BY <1>1, FirstStep
<1>3. Step.id \in Ids \cup {<<>>}
  BY <1>1, <1>2, GoodStepIs DEF Fine
<1>4. Balanced(rest, Len(stack))
  BY <1>1, <1>2, BalancedRest DEF IInv
<1>5. Ids' = Ids
  BY <1>1 DEF Ids
<1> HIDE DEF rest
<1>6. QED
  BY <1>1, <1>2, <1>3, <1>4, <1>5 DEF IInv

(* A package or namespace is on the stack for the rest of the file. *)
LEMMA EnterKeeps ==
  ASSUME IInv, EnterNode
  PROVE  IInv'
<1> DEFINE rest == Tail(todo)
<1>1. todo # <<>> /\ Step.do = "enter" /\ todo' = rest /\ stack' = Append(stack, Step.id)
      /\ UNCHANGED <<program, nodes, edges, refs, pending>>
  BY DEF EnterNode, Does
<1>2. IsSeq(rest) /\ (\A i \in DOMAIN rest : Fine(rest[i], Ids)) /\ Fine(Step, Ids) /\ Len(stack) \in Nat
  BY <1>1, FirstStep
<1>3. Step.id \in Ids
  BY <1>1, <1>2, GoodStepIs DEF Fine
<1>4. stack' \in Seq(Ids) /\ stack' # <<>> /\ Len(stack') = Len(stack) + 1
  BY <1>1, <1>3, AppendProperties DEF IInv
<1>5. Balanced(rest, Len(stack'))
  BY <1>1, <1>2, <1>4, BalancedRest DEF IInv
<1>6. Ids' = Ids
  BY <1>1 DEF Ids
<1> HIDE DEF rest
<1>7. Balanced(todo, Len(stack))'
  BY <1>1, <1>5
<1>8. QED
  BY <1>1, <1>2, <1>4, <1>6, <1>7 DEF IInv

(* pushScope: the scope is on the stack until what is inside is done. *)
LEMMA InsideKeeps ==
  ASSUME IInv, GoInside
  PROVE  IInv'
<1> DEFINE rest == Tail(todo)
           steps == Step.steps
           more == <<Leave>> \o rest
<1>1. todo # <<>> /\ Step.do = "inside" /\ todo' = steps \o <<Leave>> \o rest /\ stack' = Append(stack, Step.id)
      /\ UNCHANGED <<program, nodes, edges, refs, pending>>
  BY DEF GoInside, Does
<1>2. IsSeq(rest) /\ (\A i \in DOMAIN rest : Fine(rest[i], Ids)) /\ Fine(Step, Ids) /\ Len(stack) \in Nat /\ Len(stack) >= 1
  BY <1>1, FirstStep
<1>3. Step.id \in Ids /\ Good(steps, Ids)
  BY <1>1, <1>2, GoodStepIs DEF Fine
<1>4. stack' \in Seq(Ids) /\ stack' # <<>> /\ Len(stack') = Len(stack) + 1
  BY <1>1, <1>3, AppendProperties DEF IInv
<1>5. Balanced(rest, Len(stack))
  BY <1>1, <1>2, BalancedRest DEF IInv
<1>6. Plain(steps) /\ \A i \in DOMAIN steps : Fine(steps[i], Ids)
  BY <1>3, GoodIsPlain DEF Good, Plain
<1>7. IsSeq(more) /\ Balanced(more, Len(stack) + 1)
  BY <1>2, <1>5, BalancedInside
<1>8. \A i \in DOMAIN more : Fine(more[i], Ids)
  <2> DEFINE one == <<Leave>>
  <2>1. one \in Seq({Leave}) /\ \A i \in DOMAIN one : one[i] = Leave
    OBVIOUS
  <2> HIDE DEF one
  <2>2. IsSeq(one) /\ \A i \in DOMAIN one : Fine(one[i], Ids)
    BY <2>1 DEF IsSeq, Fine, Leave
  <2>3. IsSeq(one \o rest) /\ \A i \in DOMAIN (one \o rest) : Fine((one \o rest)[i], Ids)
    BY <1>2, <2>2, FineJoined
  <2>4. QED
    BY <2>3 DEF one
<1>9. todo' = steps \o more
  <2>1. PICK S, T : steps \in Seq(S) /\ rest \in Seq(T)
    BY <1>2, <1>6 DEF Plain, IsSeq
  <2>2. steps \in Seq(S \cup T \cup {Leave}) /\ rest \in Seq(S \cup T \cup {Leave}) /\ <<Leave>> \in Seq(S \cup T \cup {Leave})
    BY <2>1, SeqMonotonic
  <2>3. \A U : \A a, b, c \in Seq(U) : (a \o b) \o c = a \o (b \o c)
    BY ConcatAssociative
  <2> HIDE DEF steps, rest
  <2>4. QED
    BY <1>1, <2>2, <2>3
<1> HIDE DEF more, steps, rest
<1>10. Balanced(steps \o more, Len(stack) + 1)
  BY <1>2, <1>6, <1>7, BalancedMore
<1>11. IsSeq(steps \o more) /\ \A i \in DOMAIN (steps \o more) : Fine((steps \o more)[i], Ids)
  BY <1>6, <1>7, <1>8, FineJoined DEF Plain
<1>12. Ids' = Ids
  BY <1>1 DEF Ids
<1>13. Balanced(todo, Len(stack))'
  BY <1>4, <1>9, <1>10
<1>14. QED
  BY <1>1, <1>4, <1>9, <1>11, <1>12, <1>13 DEF IInv

(* popScope: what was pushed is on the stack, above the file. *)
LEMMA LeaveKeeps ==
  ASSUME IInv, LeaveNode
  PROVE  IInv'
<1> DEFINE rest == Tail(todo)
<1>1. todo # <<>> /\ Step.do = "leave" /\ todo' = rest /\ stack' = Front(stack)
      /\ UNCHANGED <<program, nodes, edges, refs, pending>>
  BY DEF LeaveNode, Does
<1>2. IsSeq(rest) /\ (\A i \in DOMAIN rest : Fine(rest[i], Ids)) /\ Len(stack) \in Nat
  BY <1>1, FirstStep
<1>3. Len(stack) >= 2 /\ Balanced(rest, Len(stack) - 1)
  BY <1>1, <1>2, BalancedLeave DEF IInv, Step
<1>4. stack' \in Seq(Ids) /\ stack' # <<>> /\ Len(stack') = Len(stack) - 1
  <2> DEFINE k == Len(stack)
             front == SubSeq(stack, 1, k - 1)
  <2>1. k - 1 \in Int /\ 1 <= k - 1 /\ (k - 1) - 1 + 1 = k - 1
    BY <1>2, <1>3
  <2>2. \A i \in 1..(k - 1) : stack[i] \in Ids
    <3>1. \A i \in 1..(k - 1) : i \in 1..k
      BY <1>2
    <3>2. QED
      BY <3>1, LenProperties DEF IInv
  <2>3. front \in Seq(Ids) /\ Len(front) = k - 1
    BY <2>1, <2>2, SubSeqProperties
  <2>4. stack' = front
    BY <1>1 DEF Front
  <2> HIDE DEF front, k
  <2>5. front # <<>>
    BY <2>1, <2>3, EmptySeq
  <2>6. QED
    BY <2>3, <2>4, <2>5 DEF k
<1>5. Ids' = Ids
  BY <1>1 DEF Ids
<1> HIDE DEF rest
<1>6. Balanced(todo, Len(stack))'
  BY <1>1, <1>3, <1>4
<1>7. QED
  BY <1>1, <1>2, <1>4, <1>5, <1>6 DEF IInv

(* The stack is the file alone again, and nothing is left to leave. *)
LEMMA ResetKeeps ==
  ASSUME IInv, ResetStack
  PROVE  IInv'
<1> DEFINE rest == Tail(todo)
<1>1. todo # <<>> /\ Step.do = "reset" /\ todo' = rest /\ stack' = <<FileId>>
      /\ UNCHANGED <<program, nodes, edges, refs, pending>>
  BY DEF ResetStack, Does
<1>2. IsSeq(rest) /\ (\A i \in DOMAIN rest : Fine(rest[i], Ids))
  BY <1>1, FirstStep
<1>3. Open(rest)
  BY <1>1, BalancedRoot DEF IInv, Step, AtRoot
<1>4. stack' \in Seq(Ids) /\ stack' # <<>>
  BY <1>1 DEF IInv
<1>5. Ids' = Ids
  BY <1>1 DEF Ids
<1> HIDE DEF rest
<1>6. \A k : Balanced(rest, k)
  BY <1>3, OpenBalanced
<1>7. Balanced(todo, Len(stack))'
  BY <1>1, <1>6
<1>8. QED
  BY <1>1, <1>2, <1>4, <1>5, <1>7 DEF IInv

(* However a file is nested and in whatever order its walker comes by what is in it, no
   reference and no contains edge has an end that is not a node of the file: what
   createNode does not make is followed by nothing that names it, and no pop empties
   the stack.  It is so in every language but Erlang, whose walker names a node that it
   may not have made. *)
THEOREM NothingDangles == Spec => [](program.lang # "erlang" => ReferencesHaveSources)
<1> DEFINE J == program.lang # "erlang" => IInv
<1>1. Init => J
  BY InitHolds
<1>2. IInv /\ UNCHANGED vars => IInv'
  <2> SUFFICES ASSUME IInv, UNCHANGED vars PROVE IInv'
    OBVIOUS
  <2>1. UNCHANGED <<program, nodes, edges, refs, stack, pending, todo>>
    BY DEF vars
  <2>2. Ids' = Ids
    BY <2>1 DEF Ids
  <2>3. Balanced(todo, Len(stack))'
    BY <2>1 DEF IInv
  <2>4. QED
    BY <2>1, <2>2, <2>3 DEF IInv
<1>3. program.lang # "erlang" /\ IInv /\ [Next]_vars => IInv'
  BY <1>2, VisitKeeps, CreateKeeps, NothingKeeps, ReferenceKeeps, EnterKeeps, InsideKeeps, LeaveKeeps, ResetKeeps,
     ContainsKeeps, PendingKeeps DEF Next
<1>4. [Next]_vars => program' = program
  BY DEF Next, vars, Does, VisitNode, CreateNode, CreateNothing, AddReference, EnterNode, GoInside, LeaveNode, ResetStack,
         AddContains, SetPending
<1>5. J /\ [Next]_vars => J'
  BY <1>3, <1>4
<1>6. IInv => ReferencesHaveSources
  <2> SUFFICES ASSUME IInv
               PROVE  /\ \A r \in Range(refs) : Known(r.from)
                      /\ \A e \in Range(edges) : Known(e.from) /\ Known(e.to)
    BY DEF ReferencesHaveSources
  <2>1. \A id \in Ids : Known(id)
    BY DEF Ids, Known
  <2>2. (\A r \in Range(refs) : r.from \in Ids) /\ \A e \in Range(edges) : e.from \in Ids /\ e.to \in Ids
    BY DEF IInv, Range
  <2>3. QED
    BY <2>1, <2>2
<1>7. J => (program.lang # "erlang" => ReferencesHaveSources)
  BY <1>6
<1>8. QED
  BY <1>1, <1>5, <1>7, PTL DEF Spec
=============================================================================
