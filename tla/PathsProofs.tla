----------------------------- MODULE PathsProofs -----------------------------
(***************************************************************************)
(* Proofs about Paths for every volume size, every set of typed paths and  *)
(* all buffer lengths in the code's order: the directories always form a   *)
(* tree below the root and the shell sits in it, and walk_path, which      *)
(* knows clusters and ".." entries only, goes where the names say.         *)
(*                                                                         *)
(* The inductive invariant has three parts.  TreeInv relates the entries,  *)
(* the clusters and the ".." entries; CwdInv says that the current         *)
(* directory exists.  Neither excludes a ring of directories that name     *)
(* each other as parents, so Ordered says that parents come first in some  *)
(* numbering of the directories.                                           *)
(***************************************************************************)
EXTENDS Paths, FiniteSetTheorems, SequenceTheorems, WellFoundedInduction, TLAPS

(* The directories there are.                                              *)
Places == {ROOT} \cup UsedClusters

(* A dir_ref_t that is the root or a directory there is.  The cluster of a *)
(* reference to the root is stale.                                         *)
RefOK(ref) ==
  /\ ref = [is_root |-> ref.is_root, cluster |-> ref.cluster]
  /\ ref.is_root \in BOOLEAN
  /\ ~ref.is_root => ref.cluster \in UsedClusters

(* Entries lie in directories; a directory has one entry, and its ".."     *)
(* names the directory of that entry; names are not used twice.            *)
TreeInv ==
  /\ \A e \in entries :
       /\ e = [dir |-> e.dir, name |-> e.name, isdir |-> e.isdir, first |-> e.first]
       /\ e.isdir \in BOOLEAN
       /\ e.dir \in Places
       /\ e.isdir => e.first \in DataClusters /\ dotdot[e.first] = e.dir
  /\ \A e, f \in entries : e.isdir /\ f.isdir /\ e.first = f.first => e = f
  /\ \A e, f \in entries : e.dir = f.dir /\ e.name = f.name => e = f
  /\ dotdot \in [DataClusters -> {ROOT} \cup DataClusters]

CwdInv == RefOK(cwd)

(* Parents come before their children.                                     *)
Numbering(r) ==
  /\ r \in [UsedClusters -> 1 .. Cardinality(UsedClusters)]
  /\ \A c, d \in UsedClusters : r[c] = r[d] => c = d
  /\ \A c \in UsedClusters : dotdot[c] # ROOT => r[dotdot[c]] < r[c]

Ordered == \E r : Numbering(r)

IInv == TreeInv /\ CwdInv /\ Ordered

-----------------------------------------------------------------------------
(* Induction.                                                              *)

(* A set of naturals that is not empty has a least element.                *)
LEMMA LeastNat ==
  ASSUME NEW T, T \subseteq Nat, T # {}
  PROVE  \E x \in T : \A y \in T : x <= y
<1>1. PICK x \in T : \A y \in T : ~(<<y, x>> \in OpToRel(<, Nat))
  BY NatLessThanWellFounded, WFMin
<1>2. \A y \in T : ~(y < x)
  BY <1>1 DEF OpToRel
<1>3. ASSUME NEW y \in T  PROVE x <= y
  <2>1. x \in Nat /\ y \in Nat /\ ~(y < x)
    BY <1>1, <1>2
  <2> QED  BY <2>1
<1> QED  BY <1>1, <1>3

-----------------------------------------------------------------------------
(* The pieces that walk_path sees.                                         *)

(* f[1], ..., f[n] are the sequences as FlattenSeq joins them.                 *)
Joining(f, seqs, n) ==
  f = [i \in 1 .. n |-> IF i = 1 THEN seqs[i] ELSE f[i - 1] \o seqs[i]]

(* The recursion of FlattenSeq has a solution for every sequence.          *)
LEMMA JoiningExists ==
  ASSUME NEW A, NEW seqs \in Seq(Seq(A))
  PROVE  \E f : Joining(f, seqs, Len(seqs))
<1> DEFINE T == {n \in 0 .. Len(seqs) : ~\E f : Joining(f, seqs, n)}
<1>1. ASSUME T # {}  PROVE FALSE
  <2>1. PICK n \in T : \A y \in T : n <= y
    <3>1. T \subseteq Nat  OBVIOUS
    <3> HIDE DEF T
    <3> QED  BY <1>1, <3>1, LeastNat
  <2>2. n \in 0 .. Len(seqs) /\ ~\E f : Joining(f, seqs, n)
    BY <2>1
  <2>3. n # 0
    <3>1. Joining([i \in 1 .. 0 |-> seqs], seqs, 0)
      BY DEF Joining
    <3> QED  BY <2>2, <3>1
  <2>4. n - 1 \in 0 .. Len(seqs) /\ n - 1 \notin T
    <3>1. Len(seqs) \in Nat
      OBVIOUS
    <3> HIDE DEF T
    <3> QED  BY <2>1, <2>2, <2>3, <3>1
  <2>5. PICK f : Joining(f, seqs, n - 1)
    BY <2>4
  <2> DEFINE g == [i \in 1 .. n |-> IF i < n THEN f[i]
                                   ELSE IF n = 1 THEN seqs[n] ELSE f[n - 1] \o seqs[n]]
  <2>6. ASSUME NEW i \in 1 .. n
        PROVE  g[i] = IF i = 1 THEN seqs[i] ELSE g[i - 1] \o seqs[i]
    <3>1. \A j \in 1 .. n - 1 : f[j] = IF j = 1 THEN seqs[j] ELSE f[j - 1] \o seqs[j]
      BY <2>5 DEF Joining
    <3>2. CASE i = 1
      BY <3>1, <3>2, <2>3, <2>2
    <3>3. CASE i # 1 /\ i < n
      <4>1. i \in 1 .. n - 1 /\ i - 1 \in 1 .. n /\ i - 1 < n
        BY <2>2, <3>3
      <4>2. g[i] = f[i] /\ g[i - 1] = f[i - 1]
        BY <3>3, <4>1
      <4> QED  BY <3>1, <3>3, <4>1, <4>2, Zenon
    <3>4. CASE i # 1 /\ i = n
      <4>1. i - 1 \in 1 .. n /\ i - 1 < n /\ ~(i < n)
        BY <2>2, <3>4
      <4>2. g[i - 1] = f[i - 1]
        BY <4>1
      <4>3. g[i] = f[n - 1] \o seqs[n]
        BY <3>4, <4>1, Zenon
      <4> QED  BY <3>4, <4>2, <4>3, Zenon
    <3>5. i = 1 \/ (i # 1 /\ i < n) \/ (i # 1 /\ i = n)
      BY <2>2
    <3> QED  BY <3>2, <3>3, <3>4, <3>5
  <2>7. g = [i \in 1 .. n |-> g[i]]
    OBVIOUS
  <2> HIDE DEF g
  <2>8. Joining(g, seqs, n)
    BY <2>6, <2>7 DEF Joining
  <2> QED  BY <2>2, <2>8
<1>2. Len(seqs) \in 0 .. Len(seqs)
  OBVIOUS
<1> QED  BY <1>1, <1>2

(* FlattenSeq joins sequences to one.                                       *)
LEMMA Flattened ==
  ASSUME NEW A, NEW seqs \in Seq(Seq(A)), Len(seqs) > 0
  PROVE  FlattenSeq(seqs) \in Seq(A)
<1>1. \E f : f = [i \in 1 .. Len(seqs) |-> IF i = 1 THEN seqs[i] ELSE f[i - 1] \o seqs[i]]
  <2>1. PICK f : Joining(f, seqs, Len(seqs))
    BY JoiningExists
  <2> QED  BY <2>1 DEF Joining
<1> DEFINE flatten[i \in 1 .. Len(seqs)] ==
      IF i = 1 THEN seqs[i] ELSE flatten[i - 1] \o seqs[i]
<1>2. FlattenSeq(seqs) = flatten[Len(seqs)]
  BY DEF FlattenSeq
<1>3. flatten = [i \in 1 .. Len(seqs) |-> IF i = 1 THEN seqs[i] ELSE flatten[i - 1] \o seqs[i]]
  BY <1>1
<1>4. \A i \in 1 .. Len(seqs) : flatten[i] = IF i = 1 THEN seqs[i] ELSE flatten[i - 1] \o seqs[i]
  BY <1>3
<1> HIDE DEF flatten
<1> DEFINE T == {n \in 1 .. Len(seqs) : flatten[n] \notin Seq(A)}
<1>5. ASSUME T # {}  PROVE FALSE
  <2>1. PICK n \in T : \A y \in T : n <= y
    <3>1. T \subseteq Nat  OBVIOUS
    <3> HIDE DEF T
    <3> QED  BY <1>5, <3>1, LeastNat
  <2>2. n \in 1 .. Len(seqs) /\ flatten[n] \notin Seq(A)
    BY <2>1
  <2>3. seqs[n] \in Seq(A)
    BY <2>2
  <2>4. n # 1
    BY <1>4, <2>2, <2>3
  <2>5. n - 1 \in 1 .. Len(seqs) /\ n - 1 \notin T
    BY <2>1, <2>2, <2>4
  <2>6. flatten[n - 1] \in Seq(A)
    BY <2>5
  <2>7. flatten[n] = flatten[n - 1] \o seqs[n]
    BY <1>4, <2>2, <2>4
  <2> QED  BY <2>2, <2>3, <2>6, <2>7
<1>6. Len(seqs) \in 1 .. Len(seqs)
  OBVIOUS
<1> QED  BY <1>2, <1>5, <1>6

(* What a component may be in the middle of walk_path.                     *)
Item == [w : Words, lo : Int, hi : Int]

(* The sizes of the buffers are numbers.                                   *)
LEMMA Sizes ==
  /\ NAME \in Nat \ {0} /\ COMPONENT \in Nat \ {0} /\ DIRPART \in Nat \ {0}
  /\ NCLUSTERS \in Nat \ {0}
  /\ NAME <= COMPONENT
BY PathsAssumption

(* FirstOf cuts a component to a component.                                *)
LEMMA FirstOfItem ==
  ASSUME NEW c \in Item, NEW n \in Int
  PROVE  FirstOf(c, n) \in Item
BY DEF FirstOf, Item, Size

(* A component is cut into components.                                     *)
LEMMA PiecesItems ==
  ASSUME NEW c \in Item
  PROVE  Pieces(c) \in Seq(Item)
<1> DEFINE N == (Size(c) + COMPONENT - 1) \div COMPONENT
<1>1. Size(c) + COMPONENT - 1 \in Int
  BY Sizes DEF Item, Size
<1>2. N \in Int
  BY <1>1, Sizes
<1>3. ASSUME NEW k \in 1 .. N
      PROVE  FirstOf([c EXCEPT !.lo = @ + (k - 1) * COMPONENT], COMPONENT) \in Item
  <2>1. (k - 1) * COMPONENT \in Int
    BY <1>2, Sizes
  <2>2. [c EXCEPT !.lo = @ + (k - 1) * COMPONENT] \in Item
    BY <2>1 DEF Item
  <2> QED  BY <2>2, FirstOfItem, Sizes
<1> DEFINE s == [k \in 1 .. N |-> FirstOf([c EXCEPT !.lo = @ + (k - 1) * COMPONENT], COMPONENT)]
<1>4. Pieces(c) = s
  BY DEF Pieces
<1>5. s \in [1 .. N -> Item]
  BY <1>3
<1> HIDE DEF s, N
<1>6. CASE N >= 0
  BY <1>2, <1>4, <1>5, <1>6
<1>7. CASE N < 0
  <2>1. 1 .. N = 1 .. 0
    BY <1>2, <1>7
  <2>2. s \in [1 .. 0 -> Item]
    BY <1>5, <2>1, Zenon
  <2>3. s \in Seq(Item)
    BY <2>2
  <2> QED  BY <1>4, <2>3
<1> QED  BY <1>2, <1>6, <1>7

(* What the loop of walk_path sees of a path.                              *)
Seen(comps) == FlattenSeq([i \in 1 .. Len(comps) |-> Pieces(comps[i])])

(* The loop of walk_path sees components.                                  *)
LEMMA AllPieces ==
  ASSUME NEW comps \in Seq(Item)
  PROVE  Seen(comps) \in Seq(Item)
<1> DEFINE s == [i \in 1 .. Len(comps) |-> Pieces(comps[i])]
<1>1. \A i \in 1 .. Len(comps) : Pieces(comps[i]) \in Seq(Item)
  <2> SUFFICES ASSUME NEW i \in 1 .. Len(comps)  PROVE Pieces(comps[i]) \in Seq(Item)
    OBVIOUS
  <2>1. comps[i] \in Item
    OBVIOUS
  <2> QED  BY <2>1, PiecesItems
<1>2. s \in [1 .. Len(comps) -> Seq(Item)] /\ Len(comps) \in Nat
  BY <1>1
<1> HIDE DEF s
<1>3. s \in Seq(Seq(Item)) /\ Len(s) = Len(comps)
  BY <1>2
<1>4. CASE Len(s) > 0
  BY <1>3, <1>4, Flattened DEF s, Seen
<1>5. CASE Len(s) = 0
  <2>1. FlattenSeq(s) = s
    BY <1>5 DEF FlattenSeq
  <2>2. s = <<>>
    BY <1>3, <1>5
  <2> QED  BY <2>1, <2>2 DEF s, Seen
<1> QED  BY <1>2, <1>3, <1>4, <1>5

-----------------------------------------------------------------------------
(* Walking.                                                                *)

(* f[0], f[1], ..., f[n] are the states of walk_path's loop from w on.     *)
Walking(f, w, pieces, n) ==
  f = [i \in 0 .. n |-> IF i = 0 THEN w ELSE walk_step(f[i - 1], pieces[i])]

(* The loop of walk_path has a result for every path.                      *)
LEMMA WalkingExists ==
  ASSUME NEW w, NEW pieces \in Seq(Item)
  PROVE  \E f : Walking(f, w, pieces, Len(pieces))
<1> DEFINE T == {n \in 0 .. Len(pieces) : ~\E f : Walking(f, w, pieces, n)}
<1>1. ASSUME T # {}  PROVE FALSE
  <2>1. PICK n \in T : \A y \in T : n <= y
    <3>1. T \subseteq Nat  OBVIOUS
    <3> HIDE DEF T
    <3> QED  BY <1>1, <3>1, LeastNat
  <2>2. n \in 0 .. Len(pieces) /\ ~\E f : Walking(f, w, pieces, n)
    BY <2>1
  <2>3. n # 0
    <3>1. Walking([i \in 0 .. 0 |-> w], w, pieces, 0)
      BY DEF Walking
    <3> QED  BY <2>2, <3>1
  <2>4. n - 1 \in 0 .. Len(pieces) /\ n - 1 \notin T
    BY <2>1, <2>2, <2>3
  <2>5. PICK f : Walking(f, w, pieces, n - 1)
    BY <2>4
  <2> DEFINE g == [i \in 0 .. n |-> IF i < n THEN f[i] ELSE walk_step(f[n - 1], pieces[n])]
  <2>6. ASSUME NEW i \in 0 .. n
        PROVE  g[i] = IF i = 0 THEN w ELSE walk_step(g[i - 1], pieces[i])
    <3>1. \A j \in 0 .. n - 1 : f[j] = IF j = 0 THEN w ELSE walk_step(f[j - 1], pieces[j])
      BY <2>5 DEF Walking
    <3>2. CASE i = 0
      BY <3>1, <3>2, <2>3, <2>2
    <3>3. CASE i # 0 /\ i < n
      BY <3>1, <3>3, <2>3, <2>2
    <3>4. CASE i = n
      BY <3>1, <3>4, <2>3, <2>2
    <3> QED  BY <3>2, <3>3, <3>4
  <2>7. g = [i \in 0 .. n |-> g[i]]
    OBVIOUS
  <2> HIDE DEF g
  <2>8. Walking(g, w, pieces, n)
    BY <2>6, <2>7 DEF Walking
  <2> QED  BY <2>2, <2>8
<1>2. Len(pieces) \in 0 .. Len(pieces)
  OBVIOUS
<1> QED  BY <1>1, <1>2

(* Where walk_path starts.                                                 *)
Start(abs, ref, text) ==
  [ok |-> TRUE, dir |-> IF abs THEN Root ELSE ref, text |-> IF abs THEN <<>> ELSE text]

(* walk_path is the last state of its loop.                                *)
LEMMA WalkIsWalking ==
  ASSUME NEW abs, NEW comps \in Seq(Item), NEW ref, NEW text
  PROVE  \E f : /\ Walking(f, Start(abs, ref, text), Seen(comps), Len(Seen(comps)))
                /\ walk_path(abs, comps, ref, text) = f[Len(Seen(comps))]
<1> DEFINE pieces == Seen(comps)
<1> DEFINE w == Start(abs, ref, text)
<1>1. \E f : f = [n \in 0 .. Len(pieces) |-> IF n = 0 THEN w ELSE walk_step(f[n - 1], pieces[n])]
  <2>1. pieces \in Seq(Item)
    BY AllPieces
  <2> HIDE DEF w, pieces
  <2>2. PICK f : Walking(f, w, pieces, Len(pieces))
    BY <2>1, WalkingExists
  <2> QED  BY <2>2 DEF Walking
<1> DEFINE after[n \in 0 .. Len(pieces)] ==
      IF n = 0 THEN w ELSE walk_step(after[n - 1], pieces[n])
<1>2. walk_path(abs, comps, ref, text) = after[Len(pieces)]
  BY DEF walk_path, Start, Seen
<1>3. after = [n \in 0 .. Len(pieces) |-> IF n = 0 THEN w ELSE walk_step(after[n - 1], pieces[n])]
  BY <1>1
<1> QED  BY <1>2, <1>3 DEF Walking

(* A state of the loop.                                                    *)
WalkOK(w) ==
  /\ w = [ok |-> w.ok, dir |-> w.dir, text |-> w.text]
  /\ w.ok \in BOOLEAN
  /\ RefOK(w.dir)

(* A used cluster is the first of a directory's entry.                     *)
LEMMA Used ==
  ASSUME TreeInv, NEW c \in UsedClusters
  PROVE  \E e \in entries : e.isdir /\ e.first = c /\ e.dir = dotdot[c] /\ c \in DataClusters
BY DEF UsedClusters, TreeInv

(* Clusters are not the root.                                              *)
LEMMA ClusterNotRoot ==
  ASSUME NEW c \in DataClusters
  PROVE  c \in Nat /\ c # ROOT
BY Sizes DEF DataClusters, ROOT

(* A reference that is fine names a directory there is.                    *)
LEMMA PlaceOfRef ==
  ASSUME NEW ref, RefOK(ref)
  PROVE  Place(ref) \in Places
BY DEF RefOK, Place, Places

(* ".." leads from a directory to a directory.                             *)
LEMMA GoUpOK ==
  ASSUME TreeInv, NEW w, WalkOK(w)
  PROVE  WalkOK(GoUp(w))
<1> DEFINE r == w.dir
<1> DEFINE d == IF r.is_root \/ dotdot[r.cluster] = ROOT
                THEN [r EXCEPT !.is_root = TRUE]
                ELSE [r EXCEPT !.cluster = dotdot[r.cluster]]
<1> DEFINE t == path_trim_last(w.text)
<1>1. r = [is_root |-> r.is_root, cluster |-> r.cluster] /\ r.is_root \in BOOLEAN
  BY DEF WalkOK, RefOK
<1>2. ASSUME r.is_root \/ dotdot[r.cluster] = ROOT  PROVE RefOK(d)
  <2>1. d = [r EXCEPT !.is_root = TRUE]
    BY <1>2
  <2>2. d = [is_root |-> TRUE, cluster |-> r.cluster]
    BY <1>1, <2>1
  <2> HIDE DEF d, r
  <2> QED  BY <2>2 DEF RefOK
<1>3. ASSUME ~(r.is_root \/ dotdot[r.cluster] = ROOT)  PROVE RefOK(d)
  <2>1. d = [r EXCEPT !.cluster = dotdot[r.cluster]]
    BY <1>3
  <2>2. d = [is_root |-> FALSE, cluster |-> dotdot[r.cluster]]
    BY <1>1, <1>3, <2>1
  <2>3. r.cluster \in UsedClusters
    BY <1>3 DEF WalkOK, RefOK
  <2>4. PICK e \in entries : e.isdir /\ e.first = r.cluster /\ e.dir = dotdot[r.cluster]
    BY <2>3, Used
  <2>5. dotdot[r.cluster] \in Places
    BY <2>4 DEF TreeInv
  <2>6. dotdot[r.cluster] \in UsedClusters
    BY <1>3, <2>5 DEF Places
  <2> HIDE DEF d, r
  <2> QED  BY <2>2, <2>6 DEF RefOK
<1>4. RefOK(d)
  BY <1>2, <1>3
<1>5. GoUp(w) = [w EXCEPT !.dir = d, !.text = t]
  BY DEF GoUp
<1> HIDE DEF d, t, r
<1>6. GoUp(w) = [ok |-> w.ok, dir |-> d, text |-> t]
  BY <1>5 DEF WalkOK
<1>7. GoUp(w).dir = d /\ GoUp(w).ok = w.ok /\ GoUp(w).text = t
  BY <1>6
<1> QED  BY <1>4, <1>6, <1>7 DEF WalkOK

(* A component leads from a directory to a directory.                      *)
LEMMA GoDownOK ==
  ASSUME TreeInv, NEW w, WalkOK(w), NEW c
  PROVE  WalkOK(GoDown(w, c))
<1> DEFINE found == {e \in dir_scan(w.dir, split_name(c)) : e.isdir}
<1>1. CASE found = {}
  <2>1. GoDown(w, c) = [w EXCEPT !.ok = FALSE]
    BY <1>1 DEF GoDown
  <2>2. GoDown(w, c) = [ok |-> FALSE, dir |-> w.dir, text |-> w.text]
    BY <2>1 DEF WalkOK
  <2> QED  BY <2>2 DEF WalkOK
<1>2. CASE found # {}
  <2> DEFINE e == CHOOSE e \in found : TRUE
  <2> DEFINE d == [is_root |-> FALSE, cluster |-> e.first]
  <2> DEFINE t == path_append(w.text, e.name)
  <2>1. e \in found
    BY <1>2
  <2>2. e \in entries /\ e.isdir
    BY <2>1 DEF dir_scan
  <2>3. GoDown(w, c) = [w EXCEPT !.dir = d, !.text = t]
    BY <1>2 DEF GoDown
  <2> HIDE DEF e
  <2>4. RefOK(d)
    BY <2>2 DEF RefOK, UsedClusters
  <2> HIDE DEF d, t
  <2>5. GoDown(w, c) = [ok |-> w.ok, dir |-> d, text |-> t]
    BY <2>3 DEF WalkOK
  <2>6. GoDown(w, c).dir = d /\ GoDown(w, c).ok = w.ok /\ GoDown(w, c).text = t
    BY <2>5
  <2> QED  BY <2>4, <2>5, <2>6 DEF WalkOK
<1> QED  BY <1>1, <1>2

(* Every iteration of walk_path leads from a directory to a directory.     *)
LEMMA WalkStepOK ==
  ASSUME TreeInv, NEW w, WalkOK(w), NEW c
  PROVE  WalkOK(walk_step(w, c))
<1>1. walk_step(w, c) \in {w, GoUp(w), GoDown(w, c)}
  BY DEF walk_step
<1> QED  BY <1>1, GoUpOK, GoDownOK

(* walk_path leads to a directory, also when it fails on the way.          *)
LEMMA WalkPathOK ==
  ASSUME TreeInv, NEW abs, NEW comps \in Seq(Item), NEW ref, RefOK(ref), NEW text
  PROVE  WalkOK(walk_path(abs, comps, ref, text))
<1> DEFINE pieces == Seen(comps)
<1>1. pieces \in Seq(Item)
  BY AllPieces
<1> DEFINE w == Start(abs, ref, text)
<1>2. WalkOK(w)
  <2>1. RefOK(Root)
    BY DEF RefOK, Root
  <2>2. w.dir \in {Root, ref} /\ w.ok = TRUE /\ w = [ok |-> w.ok, dir |-> w.dir, text |-> w.text]
    BY DEF Start
  <2> HIDE DEF w
  <2> QED  BY <2>1, <2>2 DEF WalkOK
<1>3. \E f : Walking(f, w, pieces, Len(pieces)) /\ walk_path(abs, comps, ref, text) = f[Len(pieces)]
  BY WalkIsWalking
<1> HIDE DEF w, pieces
<1>4. PICK f : Walking(f, w, pieces, Len(pieces)) /\ walk_path(abs, comps, ref, text) = f[Len(pieces)]
  BY <1>3
<1>5. \A i \in 0 .. Len(pieces) : f[i] = IF i = 0 THEN w ELSE walk_step(f[i - 1], pieces[i])
  BY <1>4 DEF Walking
<1> DEFINE T == {n \in 0 .. Len(pieces) : ~WalkOK(f[n])}
<1>6. ASSUME T # {}  PROVE FALSE
  <2>1. PICK n \in T : \A y \in T : n <= y
    <3>1. T \subseteq Nat  OBVIOUS
    <3> HIDE DEF T
    <3> QED  BY <1>6, <3>1, LeastNat
  <2>2. n \in 0 .. Len(pieces) /\ ~WalkOK(f[n])
    BY <2>1
  <2>3. n # 0
    BY <1>1, <1>2, <1>5, <2>2
  <2>4. n - 1 \in 0 .. Len(pieces) /\ n - 1 \notin T
    BY <1>1, <2>1, <2>2, <2>3
  <2>5. WalkOK(f[n - 1])
    BY <2>4
  <2>6. f[n] = walk_step(f[n - 1], pieces[n])
    BY <1>5, <2>2, <2>3
  <2> QED  BY <2>2, <2>5, <2>6, WalkStepOK
<1>7. Len(pieces) \in 0 .. Len(pieces)
  BY <1>1
<1> QED  BY <1>4, <1>6, <1>7

-----------------------------------------------------------------------------
(* Cutting a path to a buffer.                                             *)

(* The recursion of Offsets for the first n parts.                         *)
Counting(f, a, comps, n) ==
  f = [i \in 1 .. n |-> IF i = 1 THEN a ELSE f[i - 1] + Size(comps[i - 1]) + 1]

(* The recursion of Offsets has a solution for every path.                 *)
LEMMA CountingExists ==
  ASSUME NEW a, NEW comps, NEW m \in Nat
  PROVE  \E f : Counting(f, a, comps, m)
<1> DEFINE T == {n \in 0 .. m : ~\E f : Counting(f, a, comps, n)}
<1>1. ASSUME T # {}  PROVE FALSE
  <2>1. PICK n \in T : \A y \in T : n <= y
    <3>1. T \subseteq Nat  OBVIOUS
    <3> HIDE DEF T
    <3> QED  BY <1>1, <3>1, LeastNat
  <2>2. n \in 0 .. m /\ ~\E f : Counting(f, a, comps, n)
    BY <2>1
  <2>3. n # 0
    <3>1. Counting([i \in 1 .. 0 |-> a], a, comps, 0)
      BY DEF Counting
    <3> QED  BY <2>2, <3>1
  <2>4. n - 1 \in 0 .. m /\ n - 1 \notin T
    BY <2>1, <2>2, <2>3
  <2>5. PICK f : Counting(f, a, comps, n - 1)
    BY <2>4
  <2> DEFINE g == [i \in 1 .. n |-> IF i < n THEN f[i]
                                   ELSE IF n = 1 THEN a ELSE f[n - 1] + Size(comps[n - 1]) + 1]
  <2>6. ASSUME NEW i \in 1 .. n
        PROVE  g[i] = IF i = 1 THEN a ELSE g[i - 1] + Size(comps[i - 1]) + 1
    <3>1. \A j \in 1 .. n - 1 : f[j] = IF j = 1 THEN a ELSE f[j - 1] + Size(comps[j - 1]) + 1
      BY <2>5 DEF Counting
    <3>2. CASE i = 1
      BY <3>1, <3>2, <2>3, <2>2
    <3>3. CASE i # 1 /\ i < n
      <4>1. i \in 1 .. n - 1 /\ i - 1 \in 1 .. n /\ i - 1 < n
        BY <2>2, <3>3
      <4>2. g[i] = f[i] /\ g[i - 1] = f[i - 1]
        BY <3>3, <4>1
      <4> QED  BY <3>1, <3>3, <4>1, <4>2, Zenon
    <3>4. CASE i # 1 /\ i = n
      <4>1. i - 1 \in 1 .. n /\ i - 1 < n /\ ~(i < n)
        BY <2>2, <3>4
      <4>2. g[i - 1] = f[i - 1]
        BY <4>1
      <4>3. g[i] = f[n - 1] + Size(comps[n - 1]) + 1
        BY <3>4, <4>1, Zenon
      <4> QED  BY <3>4, <4>2, <4>3, Zenon
    <3>5. i = 1 \/ (i # 1 /\ i < n) \/ (i # 1 /\ i = n)
      BY <2>2
    <3> QED  BY <3>2, <3>3, <3>4, <3>5
  <2>7. g = [i \in 1 .. n |-> g[i]]
    OBVIOUS
  <2> HIDE DEF g
  <2>8. Counting(g, a, comps, n)
    BY <2>6, <2>7 DEF Counting
  <2> QED  BY <2>2, <2>8
<1>2. m \in 0 .. m
  OBVIOUS
<1> QED  BY <1>1, <1>2

(* The characters before each part of a path.                              *)
LEMMA OffsetsAre ==
  ASSUME NEW abs, NEW comps \in Seq(Item)
  PROVE  Counting(Offsets(abs, comps), IF abs THEN 1 ELSE 0, comps, Len(comps) + 1)
<1> DEFINE a == IF abs THEN 1 ELSE 0
<1> DEFINE m == Len(comps) + 1
<1>1. \E f : f = [i \in 1 .. m |-> IF i = 1 THEN a ELSE f[i - 1] + Size(comps[i - 1]) + 1]
  <2>1. m \in Nat
    OBVIOUS
  <2> HIDE DEF a, m
  <2>2. PICK f : Counting(f, a, comps, m)
    BY <2>1, CountingExists
  <2> QED  BY <2>2 DEF Counting
<1> DEFINE off[i \in 1 .. m] == IF i = 1 THEN a ELSE off[i - 1] + Size(comps[i - 1]) + 1
<1>2. Offsets(abs, comps) = off
  BY DEF Offsets
<1>3. off = [i \in 1 .. m |-> IF i = 1 THEN a ELSE off[i - 1] + Size(comps[i - 1]) + 1]
  BY <1>1
<1> HIDE DEF off
<1> QED  BY <1>2, <1>3 DEF Counting

(* They are numbers.                                                       *)
LEMMA CountingInt ==
  ASSUME NEW f, NEW a \in Int, NEW comps \in Seq(Item), NEW m \in 0 .. Len(comps) + 1,
         Counting(f, a, comps, m)
  PROVE  \A i \in 1 .. m : f[i] \in Int
<1>1. \A i \in 1 .. m : f[i] = IF i = 1 THEN a ELSE f[i - 1] + Size(comps[i - 1]) + 1
  BY DEF Counting
<1> DEFINE T == {n \in 1 .. m : f[n] \notin Int}
<1>2. ASSUME T # {}  PROVE FALSE
  <2>1. PICK n \in T : \A y \in T : n <= y
    <3>1. T \subseteq Nat  OBVIOUS
    <3> HIDE DEF T
    <3> QED  BY <1>2, <3>1, LeastNat
  <2>2. n \in 1 .. m /\ f[n] \notin Int
    BY <2>1
  <2>3. n # 1
    BY <1>1, <2>2
  <2>4. n - 1 \in 1 .. m /\ n - 1 \notin T
    BY <2>1, <2>2, <2>3
  <2>5. f[n - 1] \in Int
    BY <2>4
  <2>6. comps[n - 1] \in Item
    BY <2>2, <2>3
  <2>7. Size(comps[n - 1]) \in Int
    BY <2>6 DEF Item, Size
  <2>8. f[n] = f[n - 1] + Size(comps[n - 1]) + 1
    BY <1>1, <2>2, <2>3
  <2> QED  BY <2>2, <2>5, <2>7, <2>8
<1> QED  BY <1>2

(* The size of an interval.                                                *)
LEMMA UpTo ==
  ASSUME NEW m \in Nat
  PROVE  IsFiniteSet(1 .. m) /\ Cardinality(1 .. m) = m
<1>1. IsFiniteSet(1 .. m) /\ Cardinality(1 .. m) = IF 1 > m THEN 0 ELSE m - 1 + 1
  <2>1. 1 \in Int /\ m \in Int
    OBVIOUS
  <2> QED  BY <2>1, FS_Interval, Zenon
<1> QED  BY <1>1

(* A path that is cut is a path.                                           *)
LEMMA CutItems ==
  ASSUME NEW abs, NEW comps \in Seq(Item), NEW n \in Int
  PROVE  CutText(abs, comps, n) \in Seq(Item)
<1> DEFINE off == Offsets(abs, comps)
<1> DEFINE kept == {i \in 1 .. Len(comps) : off[i] < n}
<1> DEFINE s == [k \in 1 .. Cardinality(kept) |-> FirstOf(comps[k], n - off[k])]
<1>1. \A i \in 1 .. Len(comps) + 1 : off[i] \in Int
  <2> DEFINE a == IF abs THEN 1 ELSE 0
  <2>1. a \in Int /\ Len(comps) + 1 \in 0 .. Len(comps) + 1
    OBVIOUS
  <2>2. Counting(off, a, comps, Len(comps) + 1)
    BY OffsetsAre
  <2> HIDE DEF off, a
  <2> QED  BY <2>1, <2>2, CountingInt
<1>2. CutText(abs, comps, n) = s
  BY DEF CutText
<1> HIDE DEF off
<1>3. Cardinality(kept) \in 0 .. Len(comps)
  <2>1. kept \subseteq 1 .. Len(comps) /\ Len(comps) \in Nat
    OBVIOUS
  <2> HIDE DEF kept
  <2>2. IsFiniteSet(1 .. Len(comps)) /\ Cardinality(1 .. Len(comps)) = Len(comps)
    BY <2>1, UpTo
  <2>3. IsFiniteSet(kept) /\ Cardinality(kept) <= Len(comps)
    BY <2>1, <2>2, FS_Subset
  <2> QED  BY <2>1, <2>3, FS_CardinalityType
<1> HIDE DEF kept
<1>4. ASSUME NEW k \in 1 .. Cardinality(kept)  PROVE FirstOf(comps[k], n - off[k]) \in Item
  <2>1. k \in 1 .. Len(comps)
    BY <1>3
  <2>2. comps[k] \in Item /\ n - off[k] \in Int
    BY <1>1, <2>1
  <2> QED  BY <2>2, FirstOfItem
<1>5. s \in [1 .. Cardinality(kept) -> Item]
  BY <1>4
<1> HIDE DEF s
<1> QED  BY <1>2, <1>3, <1>5

(* Paths are sequences of components.                                      *)
LEMMA TypedItems ==
  ASSUME NEW p \in TypedPaths
  PROVE  /\ p.comps \in Seq(Item)
         /\ \A i \in 1 .. Len(p.comps) : p.comps[i].lo <= p.comps[i].hi
<1>1. p.comps \in Seq({c \in Component : c.lo <= c.hi})
  BY PathsAssumption
<1>2. \A c \in {d \in Component : d.lo <= d.hi} : c \in Item /\ c.lo <= c.hi
  BY DEF Component, Item
<1> DEFINE C == {c \in Component : c.lo <= c.hi}
<1> HIDE DEF C
<1>3. p.comps \in Seq(C) /\ C \subseteq Item /\ \A c \in C : c.lo <= c.hi
  BY <1>1, <1>2 DEF C
<1> QED  BY <1>3

(* Walking the parent of a path leads to a directory.                      *)
LEMMA ParentOK ==
  ASSUME TreeInv, CwdInv, NEW p \in TypedPaths
  PROVE  RefOK(resolve_parent(p).dir)
<1> DEFINE part == IF p.comps = <<>> \/ p.slash THEN p.comps ELSE Front(p.comps)
<1> DEFINE w == walk_path(p.abs, CutText(p.abs, part, DIRPART), cwd, <<>>)
<1>1. p.comps \in Seq(Item)
  BY TypedItems
<1>2. part \in Seq(Item)
  <2>1. CASE p.comps = <<>> \/ p.slash
    BY <1>1, <2>1
  <2>2. CASE ~(p.comps = <<>> \/ p.slash)
    <3>1. SubSeq(p.comps, 1, Len(p.comps) - 1) \in Seq(Item)
      BY <1>1, <2>2
    <3> QED  BY <2>2, <3>1 DEF Front
  <2> QED  BY <2>1, <2>2
<1> HIDE DEF part
<1>3. CutText(p.abs, part, DIRPART) \in Seq(Item)
  BY <1>2, CutItems, Sizes
<1>4. WalkOK(w)
  BY <1>3, WalkPathOK DEF CwdInv
<1>5. resolve_parent(p).dir \in {cwd, w.dir}
  BY DEF resolve_parent, part
<1> HIDE DEF w
<1> QED  BY <1>4, <1>5 DEF WalkOK, CwdInv

-----------------------------------------------------------------------------
(* The steps.                                                              *)

(* There are no more directories than clusters.                            *)
LEMMA UsedFinite ==
  ASSUME TreeInv
  PROVE  IsFiniteSet(UsedClusters) /\ Cardinality(UsedClusters) \in 0 .. NCLUSTERS
<1>1. UsedClusters \subseteq DataClusters
  BY DEF UsedClusters, TreeInv
<1>2. IsFiniteSet(DataClusters) /\ Cardinality(DataClusters) = NCLUSTERS
  <2>1. PICK b \in Int : b = NCLUSTERS + 1
    BY Sizes
  <2>2. IsFiniteSet(2 .. b) /\ Cardinality(2 .. b) = IF 2 > b THEN 0 ELSE b - 2 + 1
    <3>1. 2 \in Int
      OBVIOUS
    <3> QED  BY <3>1, FS_Interval, Zenon
  <2> QED  BY <2>1, <2>2, Sizes DEF DataClusters
<1>3. IsFiniteSet(UsedClusters) /\ Cardinality(UsedClusters) <= NCLUSTERS
  BY <1>1, <1>2, FS_Subset
<1> QED  BY <1>3, Sizes, FS_CardinalityType

(* Steps that make or remove no directory.                                 *)
LEMMA DirsStay ==
  ASSUME IInv, UsedClusters' = UsedClusters, dotdot' = dotdot, cwd' = cwd
  PROVE  CwdInv' /\ Ordered' /\ Places' = Places
BY DEF IInv, CwdInv, RefOK, Ordered, Numbering, Places

(* A file appears under a name that was free.                              *)
LEMMA AddFile ==
  ASSUME IInv, NEW d \in Places, NEW n, \A e \in entries : ~(e.dir = d /\ e.name = n),
         entries' = entries \cup {[dir |-> d, name |-> n, isdir |-> FALSE, first |-> 0]},
         UNCHANGED <<dotdot, cwd>>
  PROVE  IInv'
<1> DEFINE x == [dir |-> d, name |-> n, isdir |-> FALSE, first |-> 0]
<1>1. /\ x.dir = d /\ x.name = n /\ x.isdir = FALSE
      /\ x = [dir |-> x.dir, name |-> x.name, isdir |-> x.isdir, first |-> x.first]
  OBVIOUS
<1> HIDE DEF x
<1>2. entries' = entries \cup {x}
  BY DEF x
<1>3. UsedClusters' = UsedClusters
  BY <1>1, <1>2 DEF UsedClusters
<1>4. CwdInv' /\ Ordered' /\ Places' = Places
  BY <1>3, DirsStay
<1>5. \A e \in entries' :
       /\ e = [dir |-> e.dir, name |-> e.name, isdir |-> e.isdir, first |-> e.first]
       /\ e.isdir \in BOOLEAN
       /\ e.dir \in Places'
       /\ e.isdir => e.first \in DataClusters /\ dotdot'[e.first] = e.dir
  BY <1>1, <1>2, <1>4 DEF IInv, TreeInv
<1>6. \A e, f \in entries' : e.isdir /\ f.isdir /\ e.first = f.first => e = f
  BY <1>1, <1>2 DEF IInv, TreeInv
<1>7. \A e, f \in entries' : e.dir = f.dir /\ e.name = f.name => e = f
  BY <1>1, <1>2 DEF IInv, TreeInv
<1>8. TreeInv'
  BY <1>5, <1>6, <1>7 DEF IInv, TreeInv
<1> QED  BY <1>4, <1>8 DEF IInv

(* Files go.                                                               *)
LEMMA DropFiles ==
  ASSUME IInv, NEW S, \A e \in S : ~e.isdir, entries' = entries \ S, UNCHANGED <<dotdot, cwd>>
  PROVE  IInv'
<1>1. UsedClusters' = UsedClusters
  BY DEF UsedClusters
<1>2. CwdInv' /\ Ordered' /\ Places' = Places
  BY <1>1, DirsStay
<1>3. TreeInv'
  BY <1>2 DEF IInv, TreeInv
<1> QED  BY <1>2, <1>3 DEF IInv

(* The entries S get the name n.                                           *)
GetName(S, n) == entries' = {IF e \in S THEN [e EXCEPT !.name = n] ELSE e : e \in entries}

(* An entry gets a name that was free.                                     *)
LEMMA NewName ==
  ASSUME IInv, NEW d, NEW m, NEW n, \A e \in entries : ~(e.dir = d /\ e.name = n),
         NEW S, S = {e \in entries : e.dir = d /\ e.name = m},
         GetName(S, n), UNCHANGED <<dotdot, cwd>>
  PROVE  IInv'
<1> DEFINE New(e) == IF e \in S THEN [e EXCEPT !.name = n] ELSE e
<1>1. ASSUME NEW e \in entries
      PROVE  /\ New(e).dir = e.dir /\ New(e).isdir = e.isdir /\ New(e).first = e.first
             /\ New(e) = [dir |-> New(e).dir, name |-> New(e).name, isdir |-> New(e).isdir,
                          first |-> New(e).first]
             /\ New(e).name = IF e \in S THEN n ELSE e.name
  <2>1. e = [dir |-> e.dir, name |-> e.name, isdir |-> e.isdir, first |-> e.first]
    BY DEF IInv, TreeInv
  <2>2. CASE e \in S
    <3>1. New(e) = [dir |-> e.dir, name |-> n, isdir |-> e.isdir, first |-> e.first]
      BY <2>1, <2>2
    <3> HIDE DEF New
    <3> QED  BY <2>2, <3>1
  <2>3. CASE e \notin S
    <3>1. New(e) = e
      BY <2>3
    <3> HIDE DEF New
    <3> QED  BY <2>1, <2>3, <3>1
  <2> QED  BY <2>2, <2>3
<1>2. entries' = {New(e) : e \in entries}
  BY DEF GetName
<1> HIDE DEF New
<1>3. UsedClusters' = UsedClusters
  BY <1>1, <1>2 DEF UsedClusters
<1>4. CwdInv' /\ Ordered' /\ Places' = Places
  BY <1>3, DirsStay
<1>5. \A f \in entries' :
       /\ f = [dir |-> f.dir, name |-> f.name, isdir |-> f.isdir, first |-> f.first]
       /\ f.isdir \in BOOLEAN
       /\ f.dir \in Places'
       /\ f.isdir => f.first \in DataClusters /\ dotdot'[f.first] = f.dir
  BY <1>1, <1>2, <1>4 DEF IInv, TreeInv
<1>6. ASSUME NEW e \in entries, NEW f \in entries,
             New(e).isdir, New(f).isdir, New(e).first = New(f).first
      PROVE  New(e) = New(f)
  <2>1. e = f
    BY <1>1, <1>6 DEF IInv, TreeInv
  <2> QED  BY <2>1
<1>7. ASSUME NEW e \in entries, NEW f \in entries, New(e).dir = New(f).dir, New(e).name = New(f).name
      PROVE  New(e) = New(f)
  <2>1. e.dir = f.dir
    BY <1>1, <1>7
  <2>2. CASE e \in S /\ f \in S
    <3>1. e = f
      BY <2>2 DEF IInv, TreeInv
    <3> QED  BY <3>1
  <2>3. CASE e \in S /\ f \notin S
    BY <1>1, <1>7, <2>1, <2>3
  <2>4. CASE e \notin S /\ f \in S
    BY <1>1, <1>7, <2>1, <2>4
  <2>5. CASE e \notin S /\ f \notin S
    <3>1. e.name = f.name
      BY <1>1, <1>7, <2>5
    <3>2. e = f
      BY <2>1, <3>1 DEF IInv, TreeInv
    <3> QED  BY <3>2
  <2> QED  BY <2>2, <2>3, <2>4, <2>5
<1>8. \A e, f \in entries' : e.isdir /\ f.isdir /\ e.first = f.first => e = f
  BY <1>2, <1>6
<1>9. \A e, f \in entries' : e.dir = f.dir /\ e.name = f.name => e = f
  BY <1>2, <1>7
<1>10. TreeInv'
  BY <1>5, <1>8, <1>9 DEF IInv, TreeInv
<1> QED  BY <1>4, <1>10 DEF IInv

(* A directory appears on a free cluster.  It is the last in the order.    *)
LEMMA AddDir ==
  ASSUME IInv, NEW d \in Places, NEW n, \A e \in entries : ~(e.dir = d /\ e.name = n),
         NEW c \in FreeClusters,
         entries' = entries \cup {[dir |-> d, name |-> n, isdir |-> TRUE, first |-> c]},
         dotdot' = [dotdot EXCEPT ![c] = d], cwd' = cwd
  PROVE  IInv'
<1> DEFINE x == [dir |-> d, name |-> n, isdir |-> TRUE, first |-> c]
<1>1. /\ x.dir = d /\ x.name = n /\ x.isdir = TRUE /\ x.first = c
      /\ x = [dir |-> x.dir, name |-> x.name, isdir |-> x.isdir, first |-> x.first]
  OBVIOUS
<1> HIDE DEF x
<1>2. entries' = entries \cup {x}
  BY DEF x
<1>3. UsedClusters' = UsedClusters \cup {c} /\ Places' = Places \cup {c}
  BY <1>1, <1>2 DEF UsedClusters, Places
<1>4. c \in DataClusters /\ c \notin UsedClusters /\ c # ROOT
  BY ClusterNotRoot DEF FreeClusters
<1>5. \A e \in entries : e.isdir => e.first # c /\ e.first \in UsedClusters
  BY <1>4 DEF UsedClusters
<1>6. UsedClusters \subseteq DataClusters /\ d \in {ROOT} \cup DataClusters /\ d # c
  BY <1>4 DEF UsedClusters, IInv, TreeInv, Places
<1>7. dotdot' \in [DataClusters -> {ROOT} \cup DataClusters] /\ dotdot'[c] = d
      /\ \A b \in DataClusters : b # c => dotdot'[b] = dotdot[b]
  BY <1>4, <1>6 DEF IInv, TreeInv
<1>8. \A e \in entries' :
       /\ e = [dir |-> e.dir, name |-> e.name, isdir |-> e.isdir, first |-> e.first]
       /\ e.isdir \in BOOLEAN
       /\ e.dir \in Places'
       /\ e.isdir => e.first \in DataClusters /\ dotdot'[e.first] = e.dir
  <2> SUFFICES ASSUME NEW e \in entries'
               PROVE /\ e = [dir |-> e.dir, name |-> e.name, isdir |-> e.isdir, first |-> e.first]
                     /\ e.isdir \in BOOLEAN
                     /\ e.dir \in Places'
                     /\ e.isdir => e.first \in DataClusters /\ dotdot'[e.first] = e.dir
    OBVIOUS
  <2>1. CASE e = x
    BY <1>1, <1>3, <1>4, <1>7, <2>1
  <2>2. CASE e \in entries
    BY <1>3, <1>5, <1>7, <2>2 DEF IInv, TreeInv
  <2> QED  BY <1>2, <2>1, <2>2
<1>9. \A e, f \in entries' : e.isdir /\ f.isdir /\ e.first = f.first => e = f
  BY <1>1, <1>2, <1>5 DEF IInv, TreeInv
<1>10. \A e, f \in entries' : e.dir = f.dir /\ e.name = f.name => e = f
  BY <1>1, <1>2 DEF IInv, TreeInv
<1>11. TreeInv'
  BY <1>7, <1>8, <1>9, <1>10 DEF TreeInv
<1>12. CwdInv'
  BY <1>3 DEF IInv, CwdInv, RefOK
<1>13. Ordered'
  <2>1. PICK r : Numbering(r)
    BY DEF IInv, Ordered
  <2> DEFINE N == Cardinality(UsedClusters)
  <2>0. PICK q : q = [b \in UsedClusters \cup {c} |-> IF b = c THEN N + 1 ELSE r[b]]
    OBVIOUS
  <2>2. N \in Nat /\ Cardinality(UsedClusters') = N + 1
    <3>1. IsFiniteSet(UsedClusters) /\ N \in Nat
      BY UsedFinite, Sizes DEF IInv
    <3>2. Cardinality(UsedClusters \cup {c}) = N + 1
      BY <1>4, <3>1, FS_AddElement
    <3> QED  BY <1>3, <3>1, <3>2
  <2>3. \A b \in UsedClusters : r[b] \in 1 .. N
    BY <2>1 DEF Numbering
  <2>4. q \in [UsedClusters' -> 1 .. Cardinality(UsedClusters')]
    BY <1>3, <2>2, <2>3, <2>0
  <2>5. q[c] = N + 1 /\ \A b \in UsedClusters : q[b] = r[b]
    BY <1>4, <2>0
  <2> HIDE DEF N
  <2>6. \A a, b \in UsedClusters' : q[a] = q[b] => a = b
    <3> SUFFICES ASSUME NEW a \in UsedClusters', NEW b \in UsedClusters', q[a] = q[b]
                 PROVE  a = b
      OBVIOUS
    <3>1. CASE a \in UsedClusters /\ b \in UsedClusters
      BY <2>1, <2>5, <3>1 DEF Numbering
    <3>2. CASE a = c /\ b \in UsedClusters
      BY <2>2, <2>3, <2>5, <3>2
    <3>3. CASE a \in UsedClusters /\ b = c
      BY <2>2, <2>3, <2>5, <3>3
    <3> QED  BY <1>3, <3>1, <3>2, <3>3
  <2>7. \A b \in UsedClusters' : dotdot'[b] # ROOT => q[dotdot'[b]] < q[b]
    <3> SUFFICES ASSUME NEW b \in UsedClusters', dotdot'[b] # ROOT
                 PROVE  q[dotdot'[b]] < q[b]
      OBVIOUS
    <3>1. CASE b = c
      <4>1. d \in UsedClusters /\ dotdot'[b] = d
        BY <1>7, <3>1 DEF Places
      <4> QED  BY <2>2, <2>3, <2>5, <3>1, <4>1
    <3>2. CASE b \in UsedClusters
      <4>1. dotdot'[b] = dotdot[b]
        BY <1>4, <1>6, <1>7, <3>2
      <4>2. dotdot[b] \in Places
        BY <3>2, Used DEF IInv, TreeInv
      <4>3. dotdot[b] \in UsedClusters
        BY <4>1, <4>2 DEF Places
      <4> QED  BY <2>1, <2>5, <3>2, <4>1, <4>3 DEF Numbering
    <3> QED  BY <1>3, <3>1, <3>2
  <2>8. Numbering(q)'
    BY <2>4, <2>6, <2>7 DEF Numbering
  <2> QED  BY <2>8 DEF Ordered
<1> QED  BY <1>11, <1>12, <1>13 DEF IInv

(* An empty directory goes that nobody sits in.  Those after it move up in *)
(* the order.                                                              *)
LEMMA DropDir ==
  ASSUME IInv, NEW x \in entries, Removable(x), entries' = entries \ {x}, UNCHANGED <<dotdot, cwd>>
  PROVE  IInv'
<1> DEFINE c == x.first
<1>1. x.isdir /\ c \in UsedClusters /\ c \in DataClusters /\ c # ROOT
  BY ClusterNotRoot DEF Removable, UsedClusters, IInv, TreeInv
<1>2. \A e \in entries : e.isdir /\ e.first = c => e = x
  BY <1>1 DEF IInv, TreeInv
<1>3. UsedClusters' = UsedClusters \ {c}
  BY <1>2 DEF UsedClusters
<1>4. Places' = Places \ {c}
  BY <1>1, <1>3 DEF Places
<1>5. \A e \in entries : e.dir # c
  BY DEF Removable
<1>6. TreeInv'
  BY <1>4, <1>5 DEF IInv, TreeInv
<1>7. CwdInv'
  BY <1>1, <1>3 DEF IInv, CwdInv, RefOK, Removable
<1>8. Ordered'
  <2>1. PICK r : Numbering(r)
    BY DEF IInv, Ordered
  <2> DEFINE N == Cardinality(UsedClusters)
  <2>0. PICK q : q = [b \in UsedClusters \ {c} |-> IF r[b] > r[c] THEN r[b] - 1 ELSE r[b]]
    OBVIOUS
  <2>2. N \in Nat /\ Cardinality(UsedClusters') = N - 1
    <3>1. IsFiniteSet(UsedClusters) /\ N \in Nat
      BY UsedFinite, Sizes DEF IInv
    <3>2. Cardinality(UsedClusters \ {c}) = N - 1
      BY <1>1, <3>1, FS_RemoveElement
    <3> QED  BY <1>3, <3>1, <3>2
  <2>3. \A b \in UsedClusters : r[b] \in 1 .. N
    BY <2>1 DEF Numbering
  <2>4. \A b \in UsedClusters \ {c} : r[b] # r[c]
    BY <1>1, <2>1 DEF Numbering
  <2>5. \A b \in UsedClusters' : q[b] = IF r[b] > r[c] THEN r[b] - 1 ELSE r[b]
    BY <1>3, <2>0
  <2>6. q \in [UsedClusters' -> 1 .. Cardinality(UsedClusters')]
    <3>1. ASSUME NEW b \in UsedClusters \ {c}
          PROVE  (IF r[b] > r[c] THEN r[b] - 1 ELSE r[b]) \in 1 .. N - 1
      <4>1. r[b] \in 1 .. N /\ r[c] \in 1 .. N /\ r[b] # r[c]
        BY <1>1, <2>3, <2>4
      <4> QED  BY <2>2, <4>1
    <3> QED  BY <1>3, <2>2, <2>0, <3>1
  <2> HIDE DEF N
  <2>7. \A a, b \in UsedClusters' : q[a] = q[b] => a = b
    <3> SUFFICES ASSUME NEW a \in UsedClusters', NEW b \in UsedClusters', q[a] = q[b]
                 PROVE  a = b
      OBVIOUS
    <3>1. a \in UsedClusters /\ b \in UsedClusters /\ a # c /\ b # c
      BY <1>3
    <3>2. r[a] \in 1 .. N /\ r[b] \in 1 .. N /\ r[c] \in 1 .. N /\ r[a] # r[c] /\ r[b] # r[c]
      BY <1>1, <2>3, <2>4, <3>1
    <3>3. r[a] = r[b]
      BY <2>2, <2>5, <3>2
    <3> QED  BY <2>1, <3>1, <3>3 DEF Numbering
  <2>8. \A b \in UsedClusters' : dotdot'[b] # ROOT => q[dotdot'[b]] < q[b]
    <3> SUFFICES ASSUME NEW b \in UsedClusters', dotdot'[b] # ROOT
                 PROVE  q[dotdot'[b]] < q[b]
      OBVIOUS
    <3> DEFINE a == dotdot[b]
    <3>1. b \in UsedClusters /\ b # c /\ dotdot'[b] = a
      BY <1>3
    <3>2. PICK e \in entries : e.isdir /\ e.first = b /\ e.dir = a
      BY <3>1, Used DEF IInv
    <3>3. a \in UsedClusters /\ a # c
      BY <1>5, <3>1, <3>2 DEF IInv, TreeInv, Places
    <3>4. a \in UsedClusters'
      BY <1>3, <3>3
    <3>5. r[a] < r[b]
      BY <2>1, <3>1, <3>3 DEF Numbering
    <3> HIDE DEF a
    <3>6. r[a] \in 1 .. N /\ r[b] \in 1 .. N /\ r[c] \in 1 .. N /\ r[a] # r[c] /\ r[b] # r[c]
      BY <1>1, <2>3, <2>4, <3>1, <3>3
    <3>7. q[a] < q[b]
      BY <2>2, <2>5, <3>4, <3>5, <3>6
    <3> QED  BY <3>1, <3>7
  <2>9. Numbering(q)'
    BY <2>6, <2>7, <2>8 DEF Numbering
  <2> QED  BY <2>9 DEF Ordered
<1> QED  BY <1>6, <1>7, <1>8 DEF IInv

(* The current directory changes.                                          *)
LEMMA MoveCwd ==
  ASSUME IInv, RefOK(cwd'), UNCHANGED <<entries, dotdot>>
  PROVE  IInv'
<1>1. UsedClusters' = UsedClusters /\ Places' = Places
  BY DEF UsedClusters, Places
<1>2. CwdInv'
  BY <1>1 DEF CwdInv, RefOK
<1>3. TreeInv' /\ Ordered'
  BY <1>1 DEF IInv, TreeInv, Ordered, Numbering
<1> QED  BY <1>2, <1>3 DEF IInv

(* A step that changes nothing but the result.                             *)
LEMMA NothingChanges ==
  ASSUME IInv, UNCHANGED <<entries, dotdot, cwd>>
  PROVE  IInv'
BY MoveCwd DEF IInv, CwdInv

(* fs_create keeps the tree.                                               *)
LEMMA fs_createStep ==
  ASSUME IInv, NEW p \in TypedPaths, fs_create(p)
  PROVE  IInv'
<1> DEFINE r == resolve_parent(p)
<1> DEFINE d == Place(r.dir)
<1> DEFINE n == split_name(r.leaf)
<1>1. CASE Fail
  BY <1>1, NothingChanges DEF Fail
<1>2. CASE /\ Found(r) = {} /\ UNCHANGED <<dotdot, cwd>>
           /\ entries' = entries \cup {[dir |-> d, name |-> n, isdir |-> FALSE, first |-> 0]}
  <2>1. d \in Places
    BY ParentOK, PlaceOfRef DEF IInv
  <2>2. \A e \in entries : ~(e.dir = d /\ e.name = n)
    BY <1>2 DEF Found, dir_scan
  <2> HIDE DEF d, n
  <2> QED  BY <1>2, <2>1, <2>2, AddFile
<1> QED  BY <1>1, <1>2 DEF fs_create

(* fs_delete removes files only.                                           *)
LEMMA fs_deleteStep ==
  ASSUME IInv, NEW p \in TypedPaths, fs_delete(p)
  PROVE  IInv'
<1> DEFINE r == resolve_parent(p)
<1>1. CASE Fail
  BY <1>1, NothingChanges DEF Fail
<1>2. CASE /\ \E e \in Found(r) : ~e.isdir
           /\ entries' = entries \ Found(r) /\ UNCHANGED <<dotdot, cwd>>
  <2>1. \A e \in Found(r) : ~e.isdir
    BY <1>2 DEF Found, dir_scan, IInv, TreeInv
  <2> QED  BY <1>2, <2>1, DropFiles
<1> QED  BY <1>1, <1>2 DEF fs_delete

(* fs_mkdir puts the new directory under the parent it resolved.           *)
LEMMA fs_mkdirStep ==
  ASSUME IInv, NEW p \in TypedPaths, fs_mkdir(p)
  PROVE  IInv'
<1> DEFINE r == resolve_parent(p)
<1> DEFINE d == Place(r.dir)
<1> DEFINE n == split_name(r.leaf)
<1> DEFINE c == Min(FreeClusters)
<1>1. CASE Fail
  BY <1>1, NothingChanges DEF Fail
<1>2. CASE /\ Found(r) = {} /\ FreeClusters # {} /\ cwd' = cwd
           /\ entries' = entries \cup {[dir |-> d, name |-> n, isdir |-> TRUE, first |-> c]}
           /\ dotdot' = [dotdot EXCEPT ![c] = DotDotOf(r.dir)]
  <2>1. d \in Places
    BY ParentOK, PlaceOfRef DEF IInv
  <2>2. \A e \in entries : ~(e.dir = d /\ e.name = n)
    BY <1>2 DEF Found, dir_scan
  <2>3. DotDotOf(r.dir) = d
    BY DEF DotDotOf, Place, ROOT
  <2>4. FreeClusters \subseteq Nat
    BY ClusterNotRoot DEF FreeClusters
  <2>5. \E m \in FreeClusters : \A y \in FreeClusters : m <= y
    BY <1>2, <2>4, LeastNat
  <2>6. c \in FreeClusters
    BY <2>5 DEF Min
  <2> HIDE DEF d, n, c
  <2> QED  BY <1>2, <2>1, <2>2, <2>3, <2>6, AddDir
<1> QED  BY <1>1, <1>2 DEF fs_mkdir

(* fs_rmdir removes a directory that is empty and not the current one.     *)
LEMMA fs_rmdirStep ==
  ASSUME IInv, NEW p \in TypedPaths, fs_rmdir(p)
  PROVE  IInv'
<1> DEFINE r == resolve_parent(p)
<1>1. CASE Fail
  BY <1>1, NothingChanges DEF Fail
<1>2. CASE /\ \E e \in Found(r) : Removable(e)
           /\ entries' = entries \ Found(r) /\ UNCHANGED <<dotdot, cwd>>
  <2>1. PICK e \in Found(r) : Removable(e)
    BY <1>2
  <2>2. e \in entries /\ Found(r) = {e}
    BY DEF Found, dir_scan, IInv, TreeInv
  <2> QED  BY <1>2, <2>1, <2>2, DropDir
<1> QED  BY <1>1, <1>2 DEF fs_rmdir

(* fs_rename changes names only.                                           *)
LEMMA fs_renameStep ==
  ASSUME IInv, NEW p \in TypedPaths, NEW q \in TypedPaths, fs_rename(p, q)
  PROVE  IInv'
<1> DEFINE o == resolve_parent(p)
<1> DEFINE r == resolve_parent(q)
<1>1. CASE Fail
  BY <1>1, NothingChanges DEF Fail
<1>2. CASE /\ Renames(o, r) /\ UNCHANGED <<dotdot, cwd>>
           /\ entries' = {IF e \in Found(o) THEN [e EXCEPT !.name = split_name(r.leaf)] ELSE e :
                            e \in entries}
  <2> DEFINE d == Place(o.dir)
  <2> DEFINE m == split_name(o.leaf)
  <2> DEFINE n == split_name(r.leaf)
  <2> DEFINE S == Found(o)
  <2>1. Place(r.dir) = d
    BY <1>2 DEF Renames, Place
  <2>2. \A e \in entries : ~(e.dir = d /\ e.name = n)
    BY <1>2, <2>1 DEF Renames, Found, dir_scan
  <2>3. S = {e \in entries : e.dir = d /\ e.name = m}
    BY DEF Found, dir_scan
  <2>4. GetName(S, n)
    BY <1>2 DEF GetName
  <2>5. UNCHANGED <<dotdot, cwd>>
    BY <1>2
  <2> HIDE DEF d, m, n, S
  <2> QED  BY <2>2, <2>3, <2>4, <2>5, NewName
<1> QED  BY <1>1, <1>2 DEF fs_rename

(* fs_chdir goes to a directory there is.                                  *)
LEMMA fs_chdirStep ==
  ASSUME IInv, NEW p \in TypedPaths, fs_chdir(p)
  PROVE  IInv'
<1> DEFINE w == walk_path(p.abs, p.comps, cwd, cwd_path)
<1>1. CASE Fail
  BY <1>1, NothingChanges DEF Fail
<1>2. CASE cwd' = w.dir /\ UNCHANGED <<entries, dotdot>>
  <2>1. WalkOK(w)
    BY TypedItems, WalkPathOK DEF IInv, CwdInv
  <2> QED  BY <1>2, <2>1, MoveCwd DEF WalkOK
<1> QED  BY <1>1, <1>2 DEF fs_chdir

(* The empty volume satisfies the invariant.                               *)
LEMMA InitIInv == Init => IInv
<1> SUFFICES ASSUME Init  PROVE IInv
  OBVIOUS
<1>1. UsedClusters = {} /\ Places = {ROOT}
  BY DEF Init, UsedClusters, Places
<1>2. TreeInv
  BY DEF Init, TreeInv
<1>3. CwdInv
  BY DEF Init, CwdInv, RefOK, Root
<1>4. Ordered
  <2>1. Numbering([c \in {} |-> 0])
    BY <1>1 DEF Numbering
  <2> QED  BY <2>1 DEF Ordered
<1> QED  BY <1>2, <1>3, <1>4 DEF IInv

(* Every call keeps the invariant.                                         *)
LEMMA NextIInv == IInv /\ [Next]_vars => IInv'
<1> SUFFICES ASSUME IInv, [Next]_vars  PROVE IInv'
  OBVIOUS
<1>1. CASE UNCHANGED vars
  BY <1>1, NothingChanges DEF vars
<1>2. CASE Next
  BY <1>2, fs_createStep, fs_deleteStep, fs_mkdirStep, fs_rmdirStep, fs_renameStep,
     fs_chdirStep DEF Next
<1> QED  BY <1>1, <1>2

(* The directories form a tree and the shell sits in it.                   *)
THEOREM PathsInvariant == Spec => []IInv
BY InitIInv, NextIInv, PTL DEF Spec

-----------------------------------------------------------------------------
(* The current directory hangs below the root.                             *)

(* f[0], ..., f[n] are the directories on the way up from d.               *)
Climbing(f, d, n) ==
  f = [k \in 0 .. n |-> IF k = 0 THEN d ELSE
         IF f[k - 1] \in UsedClusters THEN dotdot[f[k - 1]] ELSE f[k - 1]]

(* The way up exists for every number of steps.                            *)
LEMMA ClimbingExists ==
  ASSUME NEW d, NEW m \in Nat
  PROVE  \E f : Climbing(f, d, m)
<1> DEFINE Up(x) == IF x \in UsedClusters THEN dotdot[x] ELSE x
<1> DEFINE T == {n \in 0 .. m : ~\E f : Climbing(f, d, n)}
<1>1. ASSUME T # {}  PROVE FALSE
  <2>1. PICK n \in T : \A y \in T : n <= y
    <3>1. T \subseteq Nat  OBVIOUS
    <3> HIDE DEF T
    <3> QED  BY <1>1, <3>1, LeastNat
  <2>2. n \in 0 .. m /\ ~\E f : Climbing(f, d, n)
    BY <2>1
  <2>3. n # 0
    <3>1. Climbing([i \in 0 .. 0 |-> d], d, 0)
      BY DEF Climbing
    <3> QED  BY <2>2, <3>1
  <2>4. n - 1 \in 0 .. m /\ n - 1 \notin T
    BY <2>1, <2>2, <2>3
  <2>5. PICK f : Climbing(f, d, n - 1)
    BY <2>4
  <2> DEFINE g == [i \in 0 .. n |-> IF i < n THEN f[i] ELSE Up(f[n - 1])]
  <2>6. ASSUME NEW i \in 0 .. n
        PROVE  g[i] = IF i = 0 THEN d ELSE Up(g[i - 1])
    <3>1. \A j \in 0 .. n - 1 : f[j] = IF j = 0 THEN d ELSE Up(f[j - 1])
      BY <2>5 DEF Climbing
    <3> HIDE DEF Up
    <3>2. CASE i = 0
      BY <3>1, <3>2, <2>3, <2>2
    <3>3. CASE i # 0 /\ i < n
      BY <3>1, <3>3, <2>3, <2>2
    <3>4. CASE i = n
      BY <3>1, <3>4, <2>3, <2>2
    <3> QED  BY <3>2, <3>3, <3>4
  <2>7. g = [i \in 0 .. n |-> g[i]]
    OBVIOUS
  <2> HIDE DEF g
  <2>8. Climbing(g, d, n)
    BY <2>6, <2>7 DEF Climbing
  <2> QED  BY <2>2, <2>8
<1>2. m \in 0 .. m
  OBVIOUS
<1> QED  BY <1>1, <1>2

(* Each step up leads to an earlier directory.                             *)
LEMMA ClimbReachesRoot ==
  ASSUME IInv, NEW d \in Places, NEW f, Climbing(f, d, NCLUSTERS)
  PROVE  f[NCLUSTERS] = ROOT
<1> DEFINE N == Cardinality(UsedClusters)
<1>1. N \in 0 .. NCLUSTERS
  BY UsedFinite DEF IInv
<1>2. PICK r : Numbering(r)
  BY DEF IInv, Ordered
<1>3. \A k \in 0 .. NCLUSTERS : f[k] = IF k = 0 THEN d ELSE
        IF f[k - 1] \in UsedClusters THEN dotdot[f[k - 1]] ELSE f[k - 1]
  BY DEF Climbing
<1>4. \A c \in UsedClusters : r[c] \in 1 .. N
  BY <1>2 DEF Numbering
<1>5. ROOT \notin UsedClusters
  BY Used, ClusterNotRoot DEF IInv
<1>6. \A c \in UsedClusters : dotdot[c] = ROOT \/ (dotdot[c] \in UsedClusters /\ r[dotdot[c]] < r[c])
  <2> SUFFICES ASSUME NEW c \in UsedClusters, dotdot[c] # ROOT
               PROVE  dotdot[c] \in UsedClusters /\ r[dotdot[c]] < r[c]
    OBVIOUS
  <2>1. dotdot[c] \in Places
    BY Used DEF IInv, TreeInv
  <2>2. dotdot[c] \in UsedClusters
    BY <2>1 DEF Places
  <2> QED  BY <1>2, <2>2 DEF Numbering
<1> HIDE DEF N
<1> DEFINE Near(k) == f[k] = ROOT \/ (f[k] \in UsedClusters /\ r[f[k]] <= N - k)
<1> DEFINE T == {k \in 0 .. NCLUSTERS : ~Near(k)}
<1>7. ASSUME T # {}  PROVE FALSE
  <2>1. PICK k \in T : \A y \in T : k <= y
    <3>1. T \subseteq Nat  OBVIOUS
    <3> HIDE DEF T
    <3> QED  BY <1>7, <3>1, LeastNat
  <2>2. k \in 0 .. NCLUSTERS /\ ~Near(k)
    BY <2>1
  <2>3. k # 0
    <3>1. f[0] = d
      BY <1>3, Sizes
    <3>2. Near(0)
      BY <1>1, <1>4, <3>1 DEF Places
    <3> QED  BY <2>2, <3>2
  <2>4. k - 1 \in 0 .. NCLUSTERS /\ k - 1 \notin T
    <3> HIDE DEF T
    <3> QED  BY <2>1, <2>2, <2>3, Sizes
  <2>5. Near(k - 1)
    BY <2>4
  <2>6. f[k] = IF f[k - 1] \in UsedClusters THEN dotdot[f[k - 1]] ELSE f[k - 1]
    BY <1>3, <2>2, <2>3
  <2>7. CASE f[k - 1] = ROOT
    BY <1>5, <2>2, <2>6, <2>7
  <2>8. CASE f[k - 1] \in UsedClusters /\ r[f[k - 1]] <= N - (k - 1)
    <3>1. f[k] = dotdot[f[k - 1]]
      BY <2>6, <2>8
    <3>2. CASE f[k] = ROOT
      BY <2>2, <3>2
    <3>3. CASE f[k] \in UsedClusters /\ r[f[k]] < r[f[k - 1]]
      <4>1. r[f[k]] \in 1 .. N /\ r[f[k - 1]] \in 1 .. N
        BY <1>4, <2>8, <3>3
      <4>2. r[f[k]] <= N - k
        BY <1>1, <2>2, <2>8, <3>3, <4>1
      <4> QED  BY <2>2, <3>3, <4>2
    <3> QED  BY <1>6, <2>8, <3>1, <3>2, <3>3
  <2> QED  BY <2>5, <2>7, <2>8
<1>8. Near(NCLUSTERS)
  BY <1>7, Sizes
<1> QED  BY <1>1, <1>4, <1>8, Sizes

(* The shell never sits in a directory that is gone or hangs below one     *)
(* that is gone: for every volume and every sequence of calls the ".."     *)
(* entries lead from cwd_cluster to the root.                              *)
THEOREM CwdStaysAttached == Spec => []CwdAttached
<1>1. ASSUME IInv  PROVE CwdAttached
  <2> DEFINE d == Place(cwd)
  <2>1. \E f : f = [k \in 0 .. NCLUSTERS |-> IF k = 0 THEN d ELSE
                      IF f[k - 1] \in UsedClusters THEN dotdot[f[k - 1]] ELSE f[k - 1]]
    <3> HIDE DEF d
    <3>1. PICK f : Climbing(f, d, NCLUSTERS)
      BY ClimbingExists, Sizes
    <3> QED  BY <3>1 DEF Climbing
  <2> DEFINE up[k \in 0 .. NCLUSTERS] == IF k = 0 THEN d ELSE
               IF up[k - 1] \in UsedClusters THEN dotdot[up[k - 1]] ELSE up[k - 1]
  <2>2. up = [k \in 0 .. NCLUSTERS |-> IF k = 0 THEN d ELSE
                IF up[k - 1] \in UsedClusters THEN dotdot[up[k - 1]] ELSE up[k - 1]]
    BY <2>1
  <2>3. CwdAttached <=> up[NCLUSTERS] = ROOT
    BY DEF CwdAttached
  <2>4. d \in Places
    BY <1>1, PlaceOfRef DEF IInv, CwdInv
  <2> HIDE DEF up, d
  <2>5. Climbing(up, d, NCLUSTERS)
    BY <2>2 DEF Climbing
  <2> QED  BY <1>1, <2>3, <2>4, <2>5, ClimbReachesRoot
<1> QED  BY <1>1, PathsInvariant, PTL

-----------------------------------------------------------------------------
(* cd goes where the path says.                                            *)

(* Components that fit walk_path's buffer.  A longer one is taken for two  *)
(* components, and the theorems below do not hold for it.                  *)
ComponentsFit ==
  \A p \in TypedPaths : \A i \in 1 .. Len(p.comps) : Size(p.comps[i]) <= COMPONENT

(* A path whose components are in order and fit.                           *)
Fits(comps) ==
  /\ comps \in Seq(Item)
  /\ \A i \in 1 .. Len(comps) : comps[i].lo <= comps[i].hi /\ Size(comps[i]) <= COMPONENT

(* A component that fits is one piece.                                     *)
LEMMA OnePiece ==
  ASSUME NEW c \in Item, c.lo <= c.hi, Size(c) <= COMPONENT
  PROVE  Pieces(c) = <<c>>
<1> DEFINE N == (Size(c) + COMPONENT - 1) \div COMPONENT
<1>1. c.lo \in Int /\ c.hi \in Int /\ Size(c) \in 1 .. COMPONENT
  BY Sizes DEF Item, Size
<1>2. N = 1
  <2>1. \A a, b \in Nat : b > 0 /\ b <= a /\ a < 2 * b => a \div b = 1
    OBVIOUS
  <2>2. PICK a \in Nat : a = Size(c) + COMPONENT - 1
    BY <1>1, Sizes
  <2>3. COMPONENT <= a /\ a < 2 * COMPONENT
    BY <1>1, <2>2, Sizes
  <2> QED  BY <2>1, <2>2, <2>3, Sizes
<1>3. FirstOf([c EXCEPT !.lo = @ + (1 - 1) * COMPONENT], COMPONENT) = c
  <2>1. (1 - 1) * COMPONENT = 0
    BY Sizes
  <2>2. [c EXCEPT !.lo = @ + (1 - 1) * COMPONENT] = c
    BY <1>1, <2>1 DEF Item
  <2>3. FirstOf(c, COMPONENT) = c
    BY <1>1, Sizes DEF FirstOf, Item
  <2> QED  BY <2>2, <2>3
<1> DEFINE P(k) == FirstOf([c EXCEPT !.lo = @ + (k - 1) * COMPONENT], COMPONENT)
<1>4. Pieces(c) = [k \in 1 .. N |-> P(k)]
  BY DEF Pieces
<1>5. P(1) = c
  BY <1>3
<1> HIDE DEF P, N
<1>6. Pieces(c) = [k \in 1 .. 1 |-> P(k)]
  BY <1>2, <1>4
<1>7. [k \in 1 .. 1 |-> P(k)] = <<P(1)>>
  OBVIOUS
<1> QED  BY <1>5, <1>6, <1>7

(* Joining single elements gives their sequence back.                      *)
LEMMA FlattenSingles ==
  ASSUME NEW A, NEW s \in Seq(A), NEW seqs \in Seq(Seq(A)), Len(seqs) = Len(s),
         \A i \in 1 .. Len(s) : seqs[i] = <<s[i]>>
  PROVE  FlattenSeq(seqs) = s
<1>1. CASE Len(s) = 0
  <2>1. seqs = <<>> /\ s = <<>>
    BY <1>1
  <2>2. FlattenSeq(seqs) = seqs
    BY <1>1 DEF FlattenSeq
  <2> QED  BY <2>1, <2>2
<1>2. CASE Len(s) # 0
  <2>1. \E f : f = [i \in 1 .. Len(seqs) |-> IF i = 1 THEN seqs[i] ELSE f[i - 1] \o seqs[i]]
    <3>1. PICK f : Joining(f, seqs, Len(seqs))
      BY JoiningExists
    <3> QED  BY <3>1 DEF Joining
  <2> DEFINE flatten[i \in 1 .. Len(seqs)] ==
        IF i = 1 THEN seqs[i] ELSE flatten[i - 1] \o seqs[i]
  <2>2. FlattenSeq(seqs) = flatten[Len(seqs)]
    BY <1>2 DEF FlattenSeq
  <2>3. flatten = [i \in 1 .. Len(seqs) |-> IF i = 1 THEN seqs[i] ELSE flatten[i - 1] \o seqs[i]]
    BY <2>1
  <2>4. \A i \in 1 .. Len(seqs) : flatten[i] = IF i = 1 THEN seqs[i] ELSE flatten[i - 1] \o seqs[i]
    BY <2>3
  <2> HIDE DEF flatten
  <2> DEFINE T == {n \in 1 .. Len(s) : flatten[n] # SubSeq(s, 1, n)}
  <2>5. ASSUME T # {}  PROVE FALSE
    <3>1. PICK n \in T : \A y \in T : n <= y
      <4>1. T \subseteq Nat  OBVIOUS
      <4> HIDE DEF T
      <4> QED  BY <2>5, <4>1, LeastNat
    <3>2. n \in 1 .. Len(s) /\ flatten[n] # SubSeq(s, 1, n)
      BY <3>1
    <3>3. n # 1
      <4>1. 1 \in 1 .. Len(s) /\ Len(s) = Len(seqs)
        BY <3>2
      <4>2. flatten[1] = seqs[1] /\ seqs[1] = <<s[1]>>
        BY <2>4, <4>1
      <4>3. SubSeq(s, 1, 1) = <<s[1]>>
        <5>1. PICK t : t = SubSeq(s, 1, 1)
          OBVIOUS
        <5>2. t \in Seq(A) /\ Len(t) = 1 /\ t[1] = s[1]
          BY <4>1, <5>1
        <5>3. \A u \in Seq(A) : Len(u) = 1 => u = <<u[1]>>
          OBVIOUS
        <5> QED  BY <5>1, <5>2, <5>3
      <4> QED  BY <3>2, <4>2, <4>3
    <3>4. n - 1 \in 1 .. Len(s) /\ n - 1 \notin T
      <4> HIDE DEF T
      <4> QED  BY <3>1, <3>2, <3>3
    <3>5. flatten[n - 1] = SubSeq(s, 1, n - 1)
      BY <3>4
    <3>6. flatten[n] = SubSeq(s, 1, n - 1) \o <<s[n]>>
      BY <2>4, <3>2, <3>3, <3>5
    <3>7. SubSeq(s, 1, n - 1) \o <<s[n]>> = SubSeq(s, 1, n)
      BY <3>2, <3>3
    <3> QED  BY <3>2, <3>6, <3>7
  <2>6. flatten[Len(s)] = SubSeq(s, 1, Len(s))
    <3>1. Len(s) \in 1 .. Len(s)
      <4>1. Len(s) \in Nat
        OBVIOUS
      <4> QED  BY <1>2, <4>1
    <3> QED  BY <2>5, <3>1
  <2>7. SubSeq(s, 1, Len(s)) = s
    OBVIOUS
  <2> QED  BY <2>2, <2>6, <2>7
<1> QED  BY <1>1, <1>2

(* A path whose components fit is walked as it is typed.                   *)
LEMMA SeenAsTyped ==
  ASSUME NEW comps, Fits(comps)
  PROVE  Seen(comps) = comps
<1> DEFINE s == [i \in 1 .. Len(comps) |-> Pieces(comps[i])]
<1>1. comps \in Seq(Item)
  BY DEF Fits
<1>2. ASSUME NEW i \in 1 .. Len(comps)  PROVE Pieces(comps[i]) = <<comps[i]>> /\ comps[i] \in Item
  <2>1. comps[i] \in Item
    BY <1>1
  <2> QED  BY <2>1, OnePiece DEF Fits
<1>3. \A i \in 1 .. Len(comps) : <<comps[i]>> \in Seq(Item)
  BY <1>2
<1>4. s \in [1 .. Len(comps) -> Seq(Item)] /\ \A i \in 1 .. Len(comps) : s[i] = <<comps[i]>>
  BY <1>2, <1>3
<1>5. Seen(comps) = FlattenSeq(s)
  BY DEF Seen
<1> HIDE DEF s
<1>6. s \in Seq(Seq(Item)) /\ Len(s) = Len(comps)
  BY <1>1, <1>4
<1> QED  BY <1>1, <1>4, <1>5, <1>6, FlattenSingles

(* walk_path and the tree agree: w stands in d, or both have failed.       *)
Agree(w, d) ==
  /\ WalkOK(w)
  /\ w.ok => Place(w.dir) = d
  /\ ~w.ok => d = NOWHERE

(* The ".." entry names the directory that holds the entry.                *)
LEMMA UpIsHome ==
  ASSUME TreeInv, NEW c \in UsedClusters
  PROVE  HomeOf(c) = dotdot[c]
<1>1. PICK e \in entries : e.isdir /\ e.first = c /\ e.dir = dotdot[c] /\ c \in DataClusters
  BY Used
<1> DEFINE h == CHOOSE x \in entries : x.isdir /\ x.first = c
<1>2. h \in entries /\ h.isdir /\ h.first = c
  BY <1>1
<1>3. h = e
  BY <1>1, <1>2 DEF TreeInv
<1>4. c # ROOT
  BY <1>1, ClusterNotRoot
<1>5. HomeOf(c) = h.dir
  BY <1>4 DEF HomeOf
<1> QED  BY <1>1, <1>3, <1>5

(* No directory is nowhere.                                                *)
LEMMA SomePlace ==
  ASSUME TreeInv, NEW d \in Places
  PROVE  d # NOWHERE
<1>1. CASE d = ROOT
  BY <1>1 DEF ROOT, NOWHERE
<1>2. CASE d \in UsedClusters
  <2>1. d \in Nat
    BY <1>2, Used, ClusterNotRoot
  <2> QED  BY <2>1 DEF NOWHERE
<1> QED  BY <1>1, <1>2 DEF Places

(* ".." goes to the directory that holds the entry.                        *)
LEMMA GoUpAgrees ==
  ASSUME TreeInv, NEW w, NEW d, Agree(w, d), w.ok
  PROVE  Agree(GoUp(w), HomeOf(d))
<1> DEFINE r == w.dir
<1>1. WalkOK(w) /\ Place(r) = d
  BY DEF Agree
<1>2. r = [is_root |-> r.is_root, cluster |-> r.cluster] /\ r.is_root \in BOOLEAN
      /\ (~r.is_root => r.cluster \in UsedClusters)
  BY <1>1 DEF WalkOK, RefOK
<1> DEFINE u == IF r.is_root \/ dotdot[r.cluster] = ROOT
                THEN [r EXCEPT !.is_root = TRUE]
                ELSE [r EXCEPT !.cluster = dotdot[r.cluster]]
<1>3. Place(u) = HomeOf(d)
  <2>1. CASE r.is_root
    <3>1. u = [r EXCEPT !.is_root = TRUE]
      BY <2>1
    <3>2. u.is_root
      BY <1>2, <3>1
    <3>3. d = ROOT
      BY <1>1, <2>1 DEF Place
    <3> HIDE DEF u
    <3> QED  BY <3>2, <3>3 DEF Place, HomeOf
  <2>2. CASE ~r.is_root
    <3>1. d = r.cluster /\ d \in UsedClusters
      BY <1>1, <1>2, <2>2 DEF Place
    <3>2. HomeOf(d) = dotdot[d]
      BY <3>1, UpIsHome
    <3>3. CASE dotdot[d] = ROOT
      <4>1. u = [r EXCEPT !.is_root = TRUE]
        BY <3>1, <3>3
      <4>2. u.is_root
        BY <1>2, <4>1
      <4> HIDE DEF u
      <4> QED  BY <3>2, <3>3, <4>2 DEF Place
    <3>4. CASE dotdot[d] # ROOT
      <4>1. u = [r EXCEPT !.cluster = dotdot[d]]
        BY <2>2, <3>1, <3>4
      <4>2. u.is_root = r.is_root /\ u.cluster = dotdot[d]
        BY <1>2, <4>1
      <4> HIDE DEF u
      <4> QED  BY <2>2, <3>2, <4>2 DEF Place
    <3> QED  BY <3>3, <3>4
  <2> QED  BY <2>1, <2>2
<1>4. GoUp(w).dir = u /\ GoUp(w).ok = w.ok
  <2> DEFINE t == path_trim_last(w.text)
  <2>1. GoUp(w) = [w EXCEPT !.dir = u, !.text = t]
    BY DEF GoUp
  <2> HIDE DEF u, t, r
  <2> QED  BY <1>1, <2>1 DEF WalkOK
<1> HIDE DEF u, r
<1> QED  BY <1>1, <1>3, <1>4, GoUpOK DEF Agree

(* A name that is neither "." nor ".." goes to the entry of that name.     *)
LEMMA GoDownAgrees ==
  ASSUME TreeInv, NEW w, NEW d, Agree(w, d), w.ok, NEW c, split_name(c) = FirstOf(c, NAME)
  PROVE  LET sub == {e \in entries : e.dir = d /\ e.isdir /\ e.name = FirstOf(c, NAME)}
         IN  Agree(GoDown(w, c), IF sub = {} THEN NOWHERE ELSE (CHOOSE e \in sub : TRUE).first)
<1> DEFINE sub == {e \in entries : e.dir = d /\ e.isdir /\ e.name = FirstOf(c, NAME)}
<1> DEFINE found == {e \in dir_scan(w.dir, split_name(c)) : e.isdir}
<1>1. WalkOK(w) /\ Place(w.dir) = d
  BY DEF Agree
<1>2. found = sub
  BY <1>1 DEF dir_scan
<1>3. WalkOK(GoDown(w, c))
  BY <1>1, GoDownOK
<1>4. CASE sub = {}
  <2>1. GoDown(w, c) = [w EXCEPT !.ok = FALSE]
    BY <1>2, <1>4 DEF GoDown
  <2>2. GoDown(w, c).ok = FALSE
    BY <1>1, <2>1 DEF WalkOK
  <2> QED  BY <1>3, <1>4, <2>2 DEF Agree
<1>5. CASE sub # {}
  <2> DEFINE e == CHOOSE e \in found : TRUE
  <2> DEFINE u == [is_root |-> FALSE, cluster |-> e.first]
  <2> DEFINE t == path_append(w.text, e.name)
  <2>1. GoDown(w, c) = [w EXCEPT !.dir = u, !.text = t]
    BY <1>2, <1>5 DEF GoDown
  <2>2. (CHOOSE x \in sub : TRUE) = e
    BY <1>2
  <2>3. Place(u) = e.first
    BY DEF Place
  <2> HIDE DEF u, t, e
  <2>4. GoDown(w, c).dir = u /\ GoDown(w, c).ok = w.ok
    BY <1>1, <2>1 DEF WalkOK
  <2> QED  BY <1>3, <1>5, <2>2, <2>3, <2>4 DEF Agree
<1> QED  BY <1>4, <1>5

(* Every iteration of walk_path follows the tree.                          *)
LEMMA StepAgrees ==
  ASSUME TreeInv, NEW w, NEW d, Agree(w, d), NEW c \in Item
  PROVE  Agree(walk_step(w, c), Follow(d, c))
<1>1. CASE ~w.ok \/ c.w = "."
  <2>1. walk_step(w, c) = w
    BY <1>1 DEF walk_step
  <2>2. d = NOWHERE \/ c.w = "."
    BY <1>1 DEF Agree
  <2>3. Follow(d, c) = d
    BY <2>2 DEF Follow
  <2> QED  BY <2>1, <2>3
<1>2. ASSUME w.ok  PROVE d # NOWHERE
  <2>1. RefOK(w.dir) /\ Place(w.dir) = d
    BY <1>2 DEF Agree, WalkOK
  <2> QED  BY <2>1, PlaceOfRef, SomePlace
<1>3. CASE w.ok /\ c.w # "." /\ c.w = ".."
  <2>1. walk_step(w, c) = GoUp(w)
    BY <1>3 DEF walk_step
  <2>2. Follow(d, c) = HomeOf(d)
    BY <1>2, <1>3 DEF Follow
  <2> QED  BY <1>3, <2>1, <2>2, GoUpAgrees
<1>4. CASE w.ok /\ c.w # "." /\ c.w # ".."
  <2> DEFINE sub == {e \in entries : e.dir = d /\ e.isdir /\ e.name = FirstOf(c, NAME)}
  <2>1. walk_step(w, c) = GoDown(w, c)
    BY <1>4 DEF walk_step
  <2>2. Follow(d, c) = IF sub = {} THEN NOWHERE ELSE (CHOOSE e \in sub : TRUE).first
    BY <1>2, <1>4 DEF Follow
  <2>3. c.w # ""
    BY PathsAssumption DEF Item
  <2>4. split_name(c) = FirstOf(c, NAME)
    BY <1>4, <2>3 DEF split_name
  <2>5. Agree(GoDown(w, c), IF sub = {} THEN NOWHERE ELSE (CHOOSE e \in sub : TRUE).first)
    BY <1>4, <2>4, GoDownAgrees
  <2> QED  BY <2>1, <2>2, <2>5
<1> QED  BY <1>1, <1>3, <1>4

(* f[0], ..., f[n] are the directories that the components name from d on. *)
Following(f, d, comps, n) ==
  f = [i \in 0 .. n |-> IF i = 0 THEN d ELSE Follow(f[i - 1], comps[i])]

(* The recursion of Meaning has a solution for every path.                 *)
LEMMA FollowingExists ==
  ASSUME NEW d, NEW comps \in Seq(Item)
  PROVE  \E f : Following(f, d, comps, Len(comps))
<1> DEFINE T == {n \in 0 .. Len(comps) : ~\E f : Following(f, d, comps, n)}
<1>1. ASSUME T # {}  PROVE FALSE
  <2>1. PICK n \in T : \A y \in T : n <= y
    <3>1. T \subseteq Nat  OBVIOUS
    <3> HIDE DEF T
    <3> QED  BY <1>1, <3>1, LeastNat
  <2>2. n \in 0 .. Len(comps) /\ ~\E f : Following(f, d, comps, n)
    BY <2>1
  <2>3. n # 0
    <3>1. Following([i \in 0 .. 0 |-> d], d, comps, 0)
      BY DEF Following
    <3> QED  BY <2>2, <3>1
  <2>4. n - 1 \in 0 .. Len(comps) /\ n - 1 \notin T
    BY <2>1, <2>2, <2>3
  <2>5. PICK f : Following(f, d, comps, n - 1)
    BY <2>4
  <2> DEFINE g == [i \in 0 .. n |-> IF i < n THEN f[i] ELSE Follow(f[n - 1], comps[n])]
  <2>6. ASSUME NEW i \in 0 .. n
        PROVE  g[i] = IF i = 0 THEN d ELSE Follow(g[i - 1], comps[i])
    <3>1. \A j \in 0 .. n - 1 : f[j] = IF j = 0 THEN d ELSE Follow(f[j - 1], comps[j])
      BY <2>5 DEF Following
    <3>2. CASE i = 0
      BY <3>1, <3>2, <2>3, <2>2
    <3>3. CASE i # 0 /\ i < n
      BY <3>1, <3>3, <2>3, <2>2
    <3>4. CASE i = n
      BY <3>1, <3>4, <2>3, <2>2
    <3> QED  BY <3>2, <3>3, <3>4
  <2>7. g = [i \in 0 .. n |-> g[i]]
    OBVIOUS
  <2> HIDE DEF g
  <2>8. Following(g, d, comps, n)
    BY <2>6, <2>7 DEF Following
  <2> QED  BY <2>2, <2>8
<1>2. Len(comps) \in 0 .. Len(comps)
  OBVIOUS
<1> QED  BY <1>1, <1>2

(* Where a path starts, as a directory of the tree.                        *)
From(abs) == IF abs THEN ROOT ELSE Place(cwd)

(* Meaning is the last of the directories.                                 *)
LEMMA MeaningIsFollowing ==
  ASSUME NEW abs, NEW comps \in Seq(Item)
  PROVE  \E f : Following(f, From(abs), comps, Len(comps)) /\ Meaning(abs, comps) = f[Len(comps)]
<1> DEFINE d == From(abs)
<1>1. \E f : f = [n \in 0 .. Len(comps) |-> IF n = 0 THEN d ELSE Follow(f[n - 1], comps[n])]
  <2> HIDE DEF d
  <2>1. PICK f : Following(f, d, comps, Len(comps))
    BY FollowingExists
  <2> QED  BY <2>1 DEF Following
<1> DEFINE to[n \in 0 .. Len(comps)] == IF n = 0 THEN d ELSE Follow(to[n - 1], comps[n])
<1>2. Meaning(abs, comps) = to[Len(comps)]
  BY DEF Meaning, From
<1>3. to = [n \in 0 .. Len(comps) |-> IF n = 0 THEN d ELSE Follow(to[n - 1], comps[n])]
  BY <1>1
<1> QED  BY <1>2, <1>3 DEF Following

(* walk_path goes where the tree says, for every path that fits.           *)
LEMMA WalkAgrees ==
  ASSUME IInv, NEW abs, NEW comps, Fits(comps), NEW text
  PROVE  Agree(walk_path(abs, comps, cwd, text), Meaning(abs, comps))
<1> DEFINE w == Start(abs, cwd, text)
<1> DEFINE d == From(abs)
<1>1. comps \in Seq(Item) /\ Seen(comps) = comps
  BY SeenAsTyped DEF Fits
<1>2. Agree(w, d)
  <2>1. RefOK(Root) /\ RefOK(cwd) /\ Place(Root) = ROOT
    BY DEF IInv, CwdInv, RefOK, Root, Place
  <2>2. /\ w.dir = (IF abs THEN Root ELSE cwd) /\ w.ok = TRUE
        /\ w = [ok |-> w.ok, dir |-> w.dir, text |-> w.text]
    BY DEF Start
  <2> HIDE DEF w
  <2> QED  BY <2>1, <2>2 DEF Agree, WalkOK, From
<1>3. \E f : Walking(f, w, comps, Len(comps)) /\ walk_path(abs, comps, cwd, text) = f[Len(comps)]
  <2>1. \E f : /\ Walking(f, Start(abs, cwd, text), Seen(comps), Len(Seen(comps)))
               /\ walk_path(abs, comps, cwd, text) = f[Len(Seen(comps))]
    BY <1>1, WalkIsWalking
  <2> QED  BY <1>1, <2>1, Zenon
<1>4. \E f : Following(f, d, comps, Len(comps)) /\ Meaning(abs, comps) = f[Len(comps)]
  BY <1>1, MeaningIsFollowing
<1> HIDE DEF w, d
<1>5. PICK f : Walking(f, w, comps, Len(comps)) /\ walk_path(abs, comps, cwd, text) = f[Len(comps)]
  BY <1>3
<1>6. PICK g : Following(g, d, comps, Len(comps)) /\ Meaning(abs, comps) = g[Len(comps)]
  BY <1>4
<1>7. \A i \in 0 .. Len(comps) : f[i] = IF i = 0 THEN w ELSE walk_step(f[i - 1], comps[i])
  BY <1>5 DEF Walking
<1>8. \A i \in 0 .. Len(comps) : g[i] = IF i = 0 THEN d ELSE Follow(g[i - 1], comps[i])
  BY <1>6 DEF Following
<1> DEFINE T == {n \in 0 .. Len(comps) : ~Agree(f[n], g[n])}
<1>9. ASSUME T # {}  PROVE FALSE
  <2>1. PICK n \in T : \A y \in T : n <= y
    <3>1. T \subseteq Nat  BY <1>1
    <3> HIDE DEF T
    <3> QED  BY <1>9, <3>1, LeastNat
  <2>2. n \in 0 .. Len(comps) /\ ~Agree(f[n], g[n])
    BY <2>1
  <2>3. n # 0
    <3>1. 0 \in 0 .. Len(comps)
      BY <1>1
    <3>2. f[0] = w /\ g[0] = d
      BY <1>7, <1>8, <3>1
    <3> QED  BY <1>2, <2>2, <3>2
  <2>4. n - 1 \in 0 .. Len(comps) /\ n - 1 \notin T
    <3> HIDE DEF T
    <3> QED  BY <1>1, <2>1, <2>2, <2>3
  <2>5. Agree(f[n - 1], g[n - 1])
    BY <2>4
  <2>6. f[n] = walk_step(f[n - 1], comps[n]) /\ g[n] = Follow(g[n - 1], comps[n])
    BY <1>7, <1>8, <2>2, <2>3
  <2>7. comps[n] \in Item
    BY <1>1, <2>2, <2>3
  <2> QED  BY <2>2, <2>5, <2>6, <2>7, StepAgrees DEF IInv
<1>10. Len(comps) \in 0 .. Len(comps)
  BY <1>1
<1> QED  BY <1>5, <1>6, <1>9, <1>10

(* A path that users type fits.                                            *)
LEMMA TypedFits ==
  ASSUME ComponentsFit, NEW p \in TypedPaths
  PROVE  Fits(p.comps)
BY TypedItems DEF ComponentsFit, Fits

(* cd goes to the directory that the tree has under the names of the path, *)
(* ".." being the directory that holds the entry, and fails exactly when   *)
(* there is none, for every tree that calls can make.                      *)
THEOREM CdFollowsTheTree == ASSUME ComponentsFit PROVE Spec => []CdGoesThere
<1>1. ASSUME IInv  PROVE CdGoesThere
  <2> SUFFICES ASSUME NEW p \in TypedPaths
               PROVE  LET w == walk_path(p.abs, p.comps, cwd, cwd_path)
                      IN  (IF w.ok THEN Place(w.dir) ELSE NOWHERE) = Meaning(p.abs, p.comps)
    BY DEF CdGoesThere
  <2>1. Agree(walk_path(p.abs, p.comps, cwd, cwd_path), Meaning(p.abs, p.comps))
    BY <1>1, TypedFits, WalkAgrees
  <2> QED  BY <2>1 DEF Agree
<1> QED  BY <1>1, PathsInvariant, PTL

-----------------------------------------------------------------------------
(* The parent of a path.                                                   *)

(* The directory part of a path.                                           *)
Part(p) == IF p.comps = <<>> \/ p.slash THEN p.comps ELSE Front(p.comps)

(* The directory parts that users type fit resolve_parent's buffer.  What  *)
(* does not fit is cut, and the parent is then another directory.          *)
DirPartsFit ==
  \A p \in TypedPaths : \A i \in 1 .. Len(Part(p)) :
    Offsets(p.abs, Part(p))[i] + Size(Part(p)[i]) <= DIRPART

(* A directory part that fits is not cut.                                  *)
LEMMA NotCut ==
  ASSUME NEW abs, NEW comps, Fits(comps),
         \A i \in 1 .. Len(comps) : Offsets(abs, comps)[i] + Size(comps[i]) <= DIRPART
  PROVE  CutText(abs, comps, DIRPART) = comps
<1> DEFINE off == Offsets(abs, comps)
<1> DEFINE kept == {i \in 1 .. Len(comps) : off[i] < DIRPART}
<1>1. comps \in Seq(Item)
  BY DEF Fits
<1>2. \A i \in 1 .. Len(comps) : off[i] \in Int
  <2> DEFINE a == IF abs THEN 1 ELSE 0
  <2>1. a \in Int /\ Len(comps) + 1 \in 0 .. Len(comps) + 1
    BY <1>1
  <2>2. Counting(off, a, comps, Len(comps) + 1)
    BY <1>1, OffsetsAre
  <2> HIDE DEF off, a
  <2>3. \A i \in 1 .. Len(comps) + 1 : off[i] \in Int
    BY <1>1, <2>1, <2>2, CountingInt
  <2> QED  BY <1>1, <2>3
<1>3. CutText(abs, comps, DIRPART) = [k \in 1 .. Cardinality(kept) |-> FirstOf(comps[k], DIRPART - off[k])]
  BY DEF CutText
<1>4. \A i \in 1 .. Len(comps) : off[i] + Size(comps[i]) <= DIRPART
  OBVIOUS
<1> HIDE DEF off
<1>5. ASSUME NEW i \in 1 .. Len(comps)
      PROVE  off[i] < DIRPART /\ FirstOf(comps[i], DIRPART - off[i]) = comps[i]
  <2>1. comps[i] \in Item /\ comps[i].lo <= comps[i].hi
    BY <1>1 DEF Fits
  <2>2. Size(comps[i]) \in Int /\ Size(comps[i]) >= 1
    BY <2>1 DEF Item, Size
  <2>3. off[i] \in Int /\ off[i] + Size(comps[i]) <= DIRPART
    BY <1>2, <1>4
  <2>4. PICK c \in Item : c = comps[i]
    BY <2>1
  <2>5. ~(Size(c) > DIRPART - off[i]) /\ off[i] < DIRPART
    BY <2>2, <2>3, <2>4, Sizes
  <2>6. FirstOf(c, DIRPART - off[i]) = c
    BY <2>5 DEF FirstOf, Item
  <2> QED  BY <2>4, <2>5, <2>6
<1>6. kept = 1 .. Len(comps)
  BY <1>5
<1>7. Cardinality(kept) = Len(comps)
  <2>1. Len(comps) \in Nat
    BY <1>1
  <2> HIDE DEF kept
  <2> QED  BY <1>6, <2>1, UpTo
<1> HIDE DEF kept
<1>8. CutText(abs, comps, DIRPART) = [k \in 1 .. Len(comps) |-> comps[k]]
  BY <1>3, <1>5, <1>7
<1> QED  BY <1>1, <1>8

(* resolve_parent finds the directory that the path without its leaf names *)
(* in the tree, for absolute paths, paths relative to any current          *)
(* directory and paths that end in a slash.                                *)
THEOREM ParentFollowsTheTree ==
  ASSUME ComponentsFit, DirPartsFit PROVE Spec => []ParentIsNamed
<1>1. ASSUME IInv  PROVE ParentIsNamed
  <2> SUFFICES ASSUME NEW p \in TypedPaths, resolve_parent(p).ok, p.comps # <<>>
               PROVE  Place(resolve_parent(p).dir)
                      = Meaning(p.abs, IF p.slash THEN p.comps ELSE Front(p.comps))
    BY DEF ParentIsNamed
  <2> DEFINE part == Part(p)
  <2> DEFINE w == walk_path(p.abs, part, cwd, <<>>)
  <2>1. p.comps \in Seq(Item) /\ Fits(p.comps)
    BY TypedItems, TypedFits
  <2>2. part = IF p.slash THEN p.comps ELSE Front(p.comps)
    BY DEF Part
  <2>3. Fits(part)
    <3>1. CASE p.slash
      BY <2>1, <2>2, <3>1
    <3>2. CASE ~p.slash
      <4>1. part = SubSeq(p.comps, 1, Len(p.comps) - 1)
        BY <2>2, <3>2 DEF Front
      <4>2. part \in Seq(Item) /\ Len(part) = Len(p.comps) - 1
            /\ \A i \in 1 .. Len(part) : part[i] = p.comps[i] /\ i \in 1 .. Len(p.comps)
        <5> HIDE DEF part
        <5> QED  BY <2>1, <4>1
      <4> HIDE DEF part
      <4> QED  BY <2>1, <4>2 DEF Fits
    <3> QED  BY <3>1, <3>2
  <2>4. CutText(p.abs, part, DIRPART) = part
    BY <2>3, NotCut DEF DirPartsFit
  <2>5. Agree(w, Meaning(p.abs, part))
    BY <1>1, <2>3, WalkAgrees
  <2>6. CASE ~p.abs /\ ~p.slash /\ part = <<>>
    <3>1. resolve_parent(p).dir = cwd
      BY <2>6 DEF resolve_parent, Part
    <3>2. Meaning(p.abs, part) = Place(cwd)
      <4>1. part \in Seq(Item) /\ Len(part) = 0
        BY <2>3, <2>6 DEF Fits
      <4> HIDE DEF part
      <4>2. PICK f : Following(f, From(p.abs), part, Len(part)) /\ Meaning(p.abs, part) = f[Len(part)]
        BY <4>1, MeaningIsFollowing
      <4>3. f[0] = From(p.abs)
        BY <4>1, <4>2 DEF Following
      <4> QED  BY <2>6, <4>1, <4>2, <4>3 DEF From
    <3> QED  BY <2>2, <3>1, <3>2
  <2>7. CASE ~(~p.abs /\ ~p.slash /\ part = <<>>)
    <3>1. resolve_parent(p).dir = walk_path(p.abs, CutText(p.abs, part, DIRPART), cwd, <<>>).dir
          /\ resolve_parent(p).ok = walk_path(p.abs, CutText(p.abs, part, DIRPART), cwd, <<>>).ok
      BY <2>7 DEF resolve_parent, Part
    <3>2. resolve_parent(p).dir = w.dir /\ w.ok
      BY <2>4, <3>1
    <3> HIDE DEF w, part
    <3> QED  BY <2>2, <2>5, <3>2 DEF Agree
  <2> QED  BY <2>6, <2>7
<1> QED  BY <1>1, PathsInvariant, PTL
=============================================================================
