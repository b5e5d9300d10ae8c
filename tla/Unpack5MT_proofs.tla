-------------------------- MODULE Unpack5MT_proofs --------------------------
(***************************************************************************)
(* That the threads of Unpack5MT do what one thread does: for any archive, *)
(* any size of the buffer and any number of threads, the window gets the   *)
(* blocks in order and whole, with the right tables, and nothing is read   *)
(* from outside the buffer.                                                *)
(*                                                                         *)
(* The invariant (Inv) has a part for each place of the loop.  It relates  *)
(* the slots to the archive (Holds, Held, Follows), says which of them are *)
(* decoded (Fresh, Ready, Pending) and how far the file is applied         *)
(* (AppliedTo), whatever rounds and reads have cut it into.                *)
(***************************************************************************)
EXTENDS Unpack5MT, WellFoundedInduction, FiniteSetTheorems, TLAPS

-----------------------------------------------------------------------------
(* Where the blocks of a file are.                                         *)

(* A set of numbers has a least one.                                       *)
LEMMA HasLeast ==
  ASSUME NEW S \in SUBSET Nat, S # {}
  PROVE  \E i \in S : \A j \in S : i <= j
<1>1. PICK i \in S : \A j \in S : ~ (<<j, i>> \in OpToRel(<, Nat))
  BY NatLessThanWellFounded, WFMin
<1>2. \A j \in S : ~ (j < i)
  BY <1>1 DEF OpToRel
<1> QED BY <1>2

(* g gives the places of the first N blocks of f, as Start defines them.   *)
StartsTo(f, N, g) ==
  g = [j \in 1 .. N |-> IF j = 1 THEN 0 ELSE g[j - 1] + Size(f[j - 1])]

(* The function that Start defines exists, for a file of any length.       *)
LEMMA StartsExist ==
  ASSUME NEW f
  PROVE  \A N \in Nat : N > 0 => \E g : StartsTo(f, N, g)
<1> DEFINE Without == {N \in Nat : N > 0 /\ ~\E g : StartsTo(f, N, g)}
<1>1. SUFFICES ASSUME Without # {} PROVE FALSE
  OBVIOUS
<1>2. PICK N \in Without : \A k \in Without : N <= k
  BY <1>1, HasLeast
<1>3. CASE N = 1
  <2>1. StartsTo(f, N, [j \in 1 .. 1 |-> 0])
    BY <1>3 DEF StartsTo
  <2> QED BY <1>2, <2>1
<1>4. CASE N > 1
  <2>1. N - 1 \in Nat /\ N - 1 > 0 /\ N - 1 \notin Without
    BY <1>2, <1>4
  <2>2. PICK g : StartsTo(f, N - 1, g)
    BY <2>1
  <2> DEFINE h == [j \in 1 .. N |-> IF j = N THEN g[N - 1] + Size(f[N - 1]) ELSE g[j]]
  <2>3. \A j \in 1 .. N - 1 : g[j] = IF j = 1 THEN 0 ELSE g[j - 1] + Size(f[j - 1])
    BY <2>2 DEF StartsTo
  <2>4. \A j \in 1 .. N : h[j] = IF j = 1 THEN 0 ELSE h[j - 1] + Size(f[j - 1])
    BY <2>3, <1>4, <2>1
  <2>5. h = [j \in 1 .. N |-> IF j = 1 THEN 0 ELSE h[j - 1] + Size(f[j - 1])]
    BY <2>4
  <2> HIDE DEF h
  <2>6. StartsTo(f, N, h)
    BY <2>5 DEF StartsTo
  <2> QED BY <1>2, <2>6
<1> QED BY <1>2, <1>3, <1>4

(* A block has a size.                                                     *)
LEMMA SizeType ==
  ASSUME NEW b \in Block
  PROVE  Size(b) \in Nat /\ Size(b) > 0
  BY DEF Block, Size

(* The first block begins at 0, each other one where the last has ended.   *)
LEMMA StartNext ==
  ASSUME NEW f \in Seq(Block)
  PROVE  /\ Start(f, 1) = 0
         /\ \A j \in 1 .. Len(f) : Start(f, j + 1) = Start(f, j) + Size(f[j])
<1> DEFINE g == CHOOSE g : StartsTo(f, Len(f) + 1, g)
<1>1. StartsTo(f, Len(f) + 1, g)
  BY StartsExist
<1>2. \A i : Start(f, i) = g[i]
  BY DEF Start, StartsTo
<1> HIDE DEF g
<1>3. \A j \in 1 .. Len(f) + 1 : g[j] = IF j = 1 THEN 0 ELSE g[j - 1] + Size(f[j - 1])
  BY <1>1 DEF StartsTo
<1>4. \A j \in 1 .. Len(f) : g[j + 1] = g[j] + Size(f[j])
  BY <1>3
<1> QED BY <1>2, <1>3, <1>4

(* A block begins at a position, and so does what is behind the last one.  *)
LEMMA StartType ==
  ASSUME NEW f \in Seq(Block)
  PROVE  \A j \in 1 .. Len(f) + 1 : Start(f, j) \in Nat
<1> DEFINE Bad == {j \in 1 .. Len(f) + 1 : Start(f, j) \notin Nat}
<1>1. SUFFICES ASSUME Bad # {} PROVE FALSE
  OBVIOUS
<1>2. Bad \in SUBSET Nat
  OBVIOUS
<1>3. PICK j \in Bad : \A k \in Bad : j <= k
  <2> HIDE DEF Bad
  <2> QED BY <1>1, <1>2, HasLeast
<1>4. j # 1
  BY StartNext
<1>5. j - 1 \in 1 .. Len(f) /\ Start(f, j - 1) \in Nat
  BY <1>3, <1>4
<1>6. f[j - 1] \in Block
  BY <1>5
<1>7. Start(f, (j - 1) + 1) = Start(f, j - 1) + Size(f[j - 1])
  BY <1>5, StartNext
<1>8. Start(f, (j - 1) + 1) \in Nat
  BY <1>5, <1>6, <1>7, SizeType
<1>9. (j - 1) + 1 = j
  BY <1>3
<1> QED BY <1>3, <1>8, <1>9

(* Blocks do not overlap.                                                  *)
LEMMA StartGrows ==
  ASSUME NEW f \in Seq(Block), NEW i \in 1 .. Len(f)
  PROVE  \A j \in 1 .. Len(f) + 1 : i < j => Start(f, i) + Size(f[i]) <= Start(f, j)
<1> DEFINE Bad == {j \in 1 .. Len(f) + 1 : i < j /\ ~(Start(f, i) + Size(f[i]) <= Start(f, j))}
<1>1. SUFFICES ASSUME Bad # {} PROVE FALSE
  OBVIOUS
<1>2. Bad \in SUBSET Nat
  OBVIOUS
<1>3. PICK j \in Bad : \A k \in Bad : j <= k
  <2> HIDE DEF Bad
  <2> QED BY <1>1, <1>2, HasLeast
<1>a. f[i] \in Block /\ Size(f[i]) \in Nat /\ Start(f, i) \in Nat
  BY SizeType, StartType
<1>4. j # i + 1
  BY <1>3, <1>a, StartNext
<1>5. j - 1 \in 1 .. Len(f) /\ i < j - 1 /\ j - 1 \notin Bad
  BY <1>3, <1>4
<1>6. f[j - 1] \in Block /\ Start(f, j - 1) \in Nat
  BY <1>5, StartType
<1>7. Start(f, (j - 1) + 1) = Start(f, j - 1) + Size(f[j - 1])
  BY <1>5, StartNext
<1>8. (j - 1) + 1 = j
  BY <1>3
<1>9. Start(f, i) + Size(f[i]) <= Start(f, j - 1)
  BY <1>5
<1>10. Size(f[j - 1]) \in Nat
  BY <1>6, SizeType
<1> QED BY <1>3, <1>6, <1>7, <1>8, <1>9, <1>10, <1>a

-----------------------------------------------------------------------------
(* What is assumed of the files of an archive.                             *)
LEMMA FileFacts ==
  ASSUME NEW a \in Archives, NEW m \in 1 .. Len(a)
  PROVE  /\ a \in Seq(Seq(Block) \ {<<>>})
         /\ a[m] \in Seq(Block) /\ Len(a[m]) \in Nat /\ Len(a[m]) > 0
<1>1. a \in Seq(Seq(Block) \ {<<>>})
  BY UnpackAssumption DEF UnpackAssumption
<1>2. a[m] \in Seq(Block) \ {<<>>}
  BY <1>1
<1> QED BY <1>1, <1>2

(* What UnpackAssumption says of a block.                                  *)
LEMMA BlockFacts ==
  ASSUME NEW a \in Archives, NEW m \in 1 .. Len(a), NEW i \in 1 .. Len(a[m])
  PROVE  /\ a[m][i] \in Block
         /\ a[m][i].header \in Nat /\ a[m][i].header > 0
         /\ a[m][i].table \in Nat /\ a[m][i].body \in Nat
         /\ a[m][i].header + a[m][i].table < TooSmallToProcess
         /\ a[m][i].table = 0 => i = 1 /\ m > 1
         /\ a[m][i].last <=> i = Len(a[m])
<1>1. a[m] \in Seq(Block)
  BY FileFacts
<1>2. a[m][i] \in Block
  BY <1>1
<1>3. /\ a[m][i].header \in Nat /\ a[m][i].header > 0
      /\ a[m][i].table \in Nat /\ a[m][i].body \in Nat
  BY <1>2 DEF Block
<1>4. /\ a[m][i].header + a[m][i].table < TooSmallToProcess
      /\ a[m][i].table = 0 => i = 1 /\ m > 1
      /\ a[m][i].last <=> i = Len(a[m])
  BY UnpackAssumption, Zenon DEF UnpackAssumption
<1> QED BY <1>2, <1>3, <1>4

(* The data of a block, and the blocks that have any.                      *)
BodyStart(a, id) ==
  Start(a[id[1]], id[2]) + a[id[1]][id[2]].header + a[id[1]][id[2]].table
BodyEnd(a, id) == Start(a[id[1]], id[2] + 1)
All(a) == Ids(a, Len(a))

(* Where a block, its data and the next block begin, in their order.       *)
LEMMA Places ==
  ASSUME NEW a \in Archives, NEW m \in 1 .. Len(a), NEW i \in 1 .. Len(a[m])
  PROVE  /\ Start(a[m], i) \in Nat /\ BodyStart(a, <<m, i>>) \in Nat
         /\ BodyEnd(a, <<m, i>>) \in Nat /\ Total(a[m]) \in Nat
         /\ BodyStart(a, <<m, i>>) = Start(a[m], i) + a[m][i].header + a[m][i].table
         /\ BodyEnd(a, <<m, i>>) = Start(a[m], i + 1)
         /\ BodyEnd(a, <<m, i>>) = BodyStart(a, <<m, i>>) + a[m][i].body
         /\ Start(a[m], i) < BodyStart(a, <<m, i>>)
         /\ BodyStart(a, <<m, i>>) <= BodyEnd(a, <<m, i>>)
         /\ BodyEnd(a, <<m, i>>) <= Total(a[m])
         /\ i = Len(a[m]) => BodyEnd(a, <<m, i>>) = Total(a[m])
         /\ \A j \in 1 .. Len(a[m]) : i < j => BodyEnd(a, <<m, i>>) <= Start(a[m], j)
<1>1. a[m] \in Seq(Block) /\ Len(a[m]) \in Nat
  BY FileFacts
<1>2. Start(a[m], i) \in Nat /\ Start(a[m], i + 1) \in Nat /\ Start(a[m], Len(a[m]) + 1) \in Nat
  BY <1>1, StartType
<1>3. Start(a[m], i + 1) = Start(a[m], i) + Size(a[m][i])
  BY <1>1, StartNext
<1>4. \A j \in 1 .. Len(a[m]) + 1 : i < j => Start(a[m], i + 1) <= Start(a[m], j)
  BY <1>1, <1>3, StartGrows
<1>5. Size(a[m][i]) = a[m][i].header + a[m][i].table + a[m][i].body
  BY DEF Size
<1>6. BodyStart(a, <<m, i>>) = Start(a[m], i) + a[m][i].header + a[m][i].table
  BY DEF BodyStart
<1>7. BodyEnd(a, <<m, i>>) = Start(a[m], i + 1)
  BY DEF BodyEnd
<1>8. Start(a[m], i + 1) <= Total(a[m]) /\ Total(a[m]) \in Nat
  BY <1>1, <1>2, <1>4 DEF Total
<1>9. i = Len(a[m]) => Start(a[m], i + 1) = Total(a[m])
  BY DEF Total
<1>10. \A j \in 1 .. Len(a[m]) : i < j => Start(a[m], i + 1) <= Start(a[m], j)
  BY <1>1, <1>4
<1>11. /\ a[m][i].header \in Nat /\ a[m][i].header > 0
       /\ a[m][i].table \in Nat /\ a[m][i].body \in Nat
  BY BlockFacts
<1>12. /\ BodyStart(a, <<m, i>>) \in Nat
       /\ Start(a[m], i) < BodyStart(a, <<m, i>>)
  BY <1>2, <1>6, <1>11
<1>13. BodyEnd(a, <<m, i>>) = BodyStart(a, <<m, i>>) + a[m][i].body
  <2>1. BodyEnd(a, <<m, i>>)
          = Start(a[m], i) + (a[m][i].header + a[m][i].table + a[m][i].body)
    BY <1>3, <1>5, <1>7
  <2> QED BY <1>2, <1>6, <1>11, <2>1
<1>14. BodyStart(a, <<m, i>>) <= BodyEnd(a, <<m, i>>)
  BY <1>11, <1>12, <1>13
<1> QED BY <1>2, <1>6, <1>7, <1>8, <1>9, <1>10, <1>12, <1>13, <1>14

(* A position is the start of one block only.                              *)
LEMMA OneStart ==
  ASSUME NEW a \in Archives, NEW m \in 1 .. Len(a),
         NEW i \in 1 .. Len(a[m]), NEW j \in 1 .. Len(a[m]),
         Start(a[m], i) = Start(a[m], j)
  PROVE  i = j
<1>1. \A k, l \in 1 .. Len(a[m]) :
        k < l => Start(a[m], k) < Start(a[m], l)
  <2> TAKE k, l \in 1 .. Len(a[m])
  <2>1. /\ Start(a[m], k) \in Nat /\ BodyStart(a, <<m, k>>) \in Nat
        /\ BodyEnd(a, <<m, k>>) \in Nat /\ Start(a[m], l) \in Nat
    BY Places
  <2>2. /\ Start(a[m], k) < BodyStart(a, <<m, k>>)
        /\ BodyStart(a, <<m, k>>) <= BodyEnd(a, <<m, k>>)
        /\ k < l => BodyEnd(a, <<m, k>>) <= Start(a[m], l)
    BY Places
  <2> QED BY <2>1, <2>2
<1>2. Len(a[m]) \in Nat /\ Start(a[m], i) \in Nat
  BY Places, FileFacts
<1> QED BY <1>1, <1>2

(* A block with data is named by its file and its number.                  *)
LEMMA IdPlace ==
  ASSUME NEW a \in Archives
  PROVE  /\ \A id \in All(a) :
              /\ id[1] \in 1 .. Len(a) /\ id[2] \in 1 .. Len(a[id[1]])
              /\ id = <<id[1], id[2]>> /\ a[id[1]][id[2]].body > 0
         /\ \A m \in 1 .. Len(a) : \A i \in 1 .. Len(a[m]) :
              a[m][i].body > 0 => <<m, i>> \in All(a)
  BY DEF All, Ids

-----------------------------------------------------------------------------
(* What has been applied to the window.                                    *)

(* The blocks that have data before position pos of file m, the pieces     *)
(* they make up to there, and a sequence of just these, in order.          *)
Passed(a, m, pos) ==
  {o \in All(a) : o[1] < m \/ (o[1] = m /\ BodyStart(a, o) < pos)}
Prior(a, id) == {o \in All(a) : Before(o, id)}
UpTo(a, id, m, pos) ==
  [id |-> id, from |-> BodyStart(a, id),
   to |-> IF id[1] = m /\ pos < BodyEnd(a, id) THEN pos ELSE BodyEnd(a, id),
   tables |-> TablesOf(a, id)]
AppliedTo(a, s, m, pos) ==
  /\ Len(s) = Cardinality(Passed(a, m, pos))
  /\ \A k \in 1 .. Len(s) :
       /\ s[k].id \in Passed(a, m, pos)
       /\ Cardinality(Prior(a, s[k].id)) = k - 1
       /\ s[k] = UpTo(a, s[k].id, m, pos)

(* An archive has finitely many blocks.                                    *)
LEMMA AllFinite ==
  ASSUME NEW a \in Archives
  PROVE  IsFiniteSet(All(a))
<1> DEFINE V == 1 .. Len(a)
           Of(f) == {f} \X {i \in 1 .. Len(a[f]) : a[f][i].body > 0}
           F == [f \in V |-> Of(f)]
           T == {F[f] : f \in V}
<1>1. Len(a) \in Nat /\ \A f \in V : Len(a[f]) \in Nat
  BY FileFacts, UnpackAssumption DEF UnpackAssumption
<1>2. IsFiniteSet(V)
  BY <1>1, FS_Interval
<1>3. F \in Surjection(V, T)
  BY DEF Surjection
<1>4. IsFiniteSet(T)
  BY <1>2, <1>3, FS_Surjection
<1>5. ASSUME NEW f \in V PROVE IsFiniteSet(Of(f))
  <2>1. IsFiniteSet(1 .. Len(a[f]))
    <3>1. Len(a[f]) \in Int
      BY <1>1
    <3> QED BY <3>1, FS_Interval
  <2>2. IsFiniteSet({i \in 1 .. Len(a[f]) : a[f][i].body > 0})
    BY <2>1, FS_Subset
  <2>3. IsFiniteSet({f})
    BY FS_Singleton
  <2> QED BY <2>2, <2>3, FS_Product
<1>6. All(a) = UNION T
  BY DEF All, Ids
<1>7. \A U \in T : IsFiniteSet(U)
  BY <1>5
<1> QED BY <1>4, <1>6, <1>7, FS_UNION

(* Parts of All are finite.                                                *)
LEMMA PartsFinite ==
  ASSUME NEW a \in Archives
  PROVE  /\ \A S \in SUBSET All(a) : IsFiniteSet(S) /\ Cardinality(S) \in Nat
         /\ \A m, pos : Passed(a, m, pos) \in SUBSET All(a)
         /\ \A id : Prior(a, id) \in SUBSET All(a)
<1>1. \A S \in SUBSET All(a) : IsFiniteSet(S)
  BY AllFinite, FS_Subset
<1> QED BY <1>1, FS_CardinalityType DEF Passed, Prior

(* Two blocks do not have the same number.                                 *)
LEMMA OneRank ==
  ASSUME NEW a \in Archives, NEW p \in All(a), NEW q \in All(a),
         Cardinality(Prior(a, p)) = Cardinality(Prior(a, q))
  PROVE  p = q
<1>1. ASSUME NEW r \in All(a), NEW s \in All(a), Before(r, s),
             Cardinality(Prior(a, r)) = Cardinality(Prior(a, s))
      PROVE  FALSE
  <2>1. Prior(a, r) \subseteq Prior(a, s)
    <3> SUFFICES ASSUME NEW t \in All(a), Before(t, r), ~Before(t, s) PROVE FALSE
      BY DEF Prior
    <3> QED BY <1>1, IdPlace DEF Before
  <2>2. IsFiniteSet(Prior(a, s))
    BY PartsFinite
  <2>3. Prior(a, r) = Prior(a, s)
    BY <1>1, <2>1, <2>2, FS_Subset
  <2>4. r \in Prior(a, s)
    BY <1>1 DEF Prior
  <2>5. r \notin Prior(a, r)
    BY IdPlace DEF Prior, Before
  <2> QED BY <2>3, <2>4, <2>5
<1>2. Before(p, q) \/ Before(q, p) \/ p = q
  <2>1. /\ p = <<p[1], p[2]>> /\ p[1] \in Nat /\ p[2] \in Nat
        /\ q = <<q[1], q[2]>> /\ q[1] \in Nat /\ q[2] \in Nat
    BY IdPlace
  <2> QED BY <2>1 DEF Before
<1> QED BY <1>1, <1>2

(* The data of the blocks of a file, with regard to one of them.           *)
LEMMA Around ==
  ASSUME NEW a \in Archives, NEW m \in 1 .. Len(a), NEW i \in 1 .. Len(a[m]),
         NEW o \in All(a), o[1] = m
  PROVE  /\ BodyStart(a, o) \in Nat /\ BodyEnd(a, o) \in Nat
         /\ BodyStart(a, o) < BodyEnd(a, o) /\ BodyEnd(a, o) <= Total(a[m])
         /\ o[2] < i => BodyEnd(a, o) <= Start(a[m], i)
         /\ i < o[2] => BodyEnd(a, <<m, i>>) < BodyStart(a, o)
         /\ o[2] = i => o = <<m, i>>
<1>1. /\ o[2] \in 1 .. Len(a[m]) /\ o = <<m, o[2]>> /\ a[m][o[2]].body > 0
  BY IdPlace
<1> DEFINE j == o[2]
<1>2. /\ BodyStart(a, <<m, j>>) \in Nat /\ BodyEnd(a, <<m, j>>) \in Nat
      /\ BodyEnd(a, <<m, j>>) = BodyStart(a, <<m, j>>) + a[m][j].body
      /\ BodyEnd(a, <<m, j>>) <= Total(a[m])
      /\ Start(a[m], j) \in Nat /\ Start(a[m], j) < BodyStart(a, <<m, j>>)
      /\ j < i => BodyEnd(a, <<m, j>>) <= Start(a[m], i)
  BY <1>1, Places
<1>3. BodyEnd(a, <<m, i>>) \in Nat /\ (i < j => BodyEnd(a, <<m, i>>) <= Start(a[m], j))
  BY <1>1, Places
<1>4. a[m][j].body \in Nat
  BY <1>1, BlockFacts
<1>5. BodyStart(a, <<m, j>>) < BodyEnd(a, <<m, j>>)
  BY <1>1, <1>2, <1>4
<1>6. i < j => BodyEnd(a, <<m, i>>) < BodyStart(a, <<m, j>>)
  BY <1>2, <1>3
<1> QED BY <1>1, <1>2, <1>5, <1>6

(* Between two blocks nothing is applied.                                  *)
LEMMA PassGap ==
  ASSUME NEW a \in Archives, NEW s, NEW m \in 1 .. Len(a), NEW p \in Nat, NEW q \in Nat,
         AppliedTo(a, s, m, p), p <= q,
         \A o \in All(a) : o[1] = m => BodyEnd(a, o) <= p \/ q <= BodyStart(a, o)
  PROVE  AppliedTo(a, s, m, q)
<1>1. 1 \in 1 .. Len(a[m])
  BY FileFacts
<1>2. \A o \in All(a) : o[1] = m =>
        /\ BodyStart(a, o) \in Nat /\ BodyEnd(a, o) \in Nat
        /\ BodyStart(a, o) < BodyEnd(a, o)
  BY <1>1, Around
<1>3. \A o \in All(a) : o[1] = m => (BodyStart(a, o) < p <=> BodyStart(a, o) < q)
  BY <1>2
<1>4. Passed(a, m, p) = Passed(a, m, q)
  BY <1>3 DEF Passed
<1>5. ASSUME NEW o \in Passed(a, m, p) PROVE UpTo(a, o, m, p) = UpTo(a, o, m, q)
  <2>1. CASE o[1] = m
    <3>1. BodyEnd(a, o) <= p /\ BodyEnd(a, o) \in Nat
      BY <1>2, <1>5, <2>1 DEF Passed
    <3> QED BY <3>1 DEF UpTo
  <2>2. CASE o[1] # m
    BY <2>2 DEF UpTo
  <2> QED BY <2>1, <2>2
<1> QED BY <1>4, <1>5 DEF AppliedTo

(* So the header and the tables of a block do not count.                   *)
LEMMA PassHeader ==
  ASSUME NEW a \in Archives, NEW s, NEW m \in 1 .. Len(a), NEW i \in 1 .. Len(a[m]),
         AppliedTo(a, s, m, Start(a[m], i))
  PROVE  AppliedTo(a, s, m, BodyStart(a, <<m, i>>))
<1>1. /\ Start(a[m], i) \in Nat /\ BodyStart(a, <<m, i>>) \in Nat
      /\ BodyEnd(a, <<m, i>>) \in Nat
      /\ Start(a[m], i) < BodyStart(a, <<m, i>>)
      /\ BodyStart(a, <<m, i>>) <= BodyEnd(a, <<m, i>>)
  BY Places
<1>2. ASSUME NEW o \in All(a), o[1] = m
      PROVE  BodyEnd(a, o) <= Start(a[m], i) \/ BodyStart(a, <<m, i>>) <= BodyStart(a, o)
  <2>1. o[2] \in Nat /\ i \in Nat
    BY IdPlace, FileFacts
  <2>2. CASE o[2] < i
    BY <1>2, <2>2, Around
  <2>3. CASE o[2] = i
    BY <1>1, <1>2, <2>3, Around
  <2>4. CASE i < o[2]
    <3>1. BodyEnd(a, <<m, i>>) < BodyStart(a, o) /\ BodyStart(a, o) \in Nat
      BY <1>2, <2>4, Around
    <3> QED BY <1>1, <3>1
  <2> QED BY <2>1, <2>2, <2>3, <2>4
<1> QED BY <1>1, <1>2, PassGap

(* After the last block of a file the next one begins.                     *)
LEMMA PassFile ==
  ASSUME NEW a \in Archives, NEW s, NEW m \in 1 .. Len(a),
         AppliedTo(a, s, m, Total(a[m]))
  PROVE  AppliedTo(a, s, m + 1, 0)
<1>1. 1 \in 1 .. Len(a[m]) /\ m \in Nat
  BY FileFacts
<1>2. \A o \in All(a) : o[1] = m =>
        /\ BodyStart(a, o) \in Nat /\ BodyEnd(a, o) \in Nat /\ Total(a[m]) \in Nat
        /\ BodyStart(a, o) < BodyEnd(a, o) /\ BodyEnd(a, o) <= Total(a[m])
  BY <1>1, Around, Places
<1>3. \A o \in All(a) : o[1] = m + 1 => BodyStart(a, o) \in Nat
  <2> TAKE o \in All(a)
  <2>1. o[1] \in 1 .. Len(a) /\ o[2] \in 1 .. Len(a[o[1]]) /\ o = <<o[1], o[2]>>
    BY IdPlace
  <2> QED BY <2>1, Places
<1>4. \A o \in All(a) : o[1] \in Nat
  BY IdPlace
<1>5. Passed(a, m, Total(a[m])) = {o \in All(a) : o[1] <= m}
  <2>1. \A o \in All(a) : o[1] = m => BodyStart(a, o) < Total(a[m])
    BY <1>2
  <2> QED BY <1>1, <1>4, <2>1 DEF Passed
<1>6. Passed(a, m + 1, 0) = {o \in All(a) : o[1] <= m}
  BY <1>1, <1>3, <1>4 DEF Passed
<1>7. ASSUME NEW o \in Passed(a, m, Total(a[m]))
      PROVE  UpTo(a, o, m, Total(a[m])) = UpTo(a, o, m + 1, 0)
  <2>1. o \in All(a) /\ o[1] <= m /\ o[1] \in Nat
    BY <1>4, <1>5
  <2>2. o[1] = m => ~(Total(a[m]) < BodyEnd(a, o))
    BY <1>2, <2>1
  <2>3. o[1] # m + 1
    BY <1>1, <2>1
  <2> QED BY <2>2, <2>3 DEF UpTo
<1> QED BY <1>5, <1>6, <1>7 DEF AppliedTo

(* Nothing is applied at first.                                            *)
LEMMA PassNone ==
  ASSUME NEW a \in Archives
  PROVE  AppliedTo(a, <<>>, 1, 0)
<1>1. \A o \in All(a) : BodyStart(a, o) \in Nat /\ o[1] \in Nat /\ o[1] >= 1
  <2> TAKE o \in All(a)
  <2>1. o[1] \in 1 .. Len(a) /\ o[2] \in 1 .. Len(a[o[1]]) /\ o = <<o[1], o[2]>>
    BY IdPlace
  <2> QED BY <2>1, Places
<1>2. Passed(a, 1, 0) = {}
  BY <1>1 DEF Passed
<1> QED BY <1>2, FS_EmptySet DEF AppliedTo

(* The blocks that have data before a position in the data of a block.     *)
LEMMA PassedWithin ==
  ASSUME NEW a \in Archives, NEW m \in 1 .. Len(a), NEW i \in 1 .. Len(a[m]),
         NEW p \in Nat, BodyStart(a, <<m, i>>) <= p, p <= BodyEnd(a, <<m, i>>),
         a[m][i].body > 0
  PROVE  /\ <<m, i>> \in All(a) /\ <<m, i>> \notin Prior(a, <<m, i>>)
         /\ Passed(a, m, p) = IF p = BodyStart(a, <<m, i>>)
              THEN Prior(a, <<m, i>>) ELSE Prior(a, <<m, i>>) \cup {<<m, i>>}
         /\ \A o \in Prior(a, <<m, i>>) : \A q \in Nat : p <= q =>
              UpTo(a, o, m, p) = UpTo(a, o, m, q)
<1> DEFINE id == <<m, i>>
<1>1. /\ Start(a[m], i) \in Nat /\ BodyStart(a, id) \in Nat /\ BodyEnd(a, id) \in Nat
      /\ Start(a[m], i) < BodyStart(a, id)
  BY Places
<1>2. id \in All(a) /\ m \in Nat /\ i \in Nat
  BY IdPlace, FileFacts
<1>3. id \notin Prior(a, id)
  BY <1>2 DEF Prior, Before
<1>4. ASSUME NEW o \in All(a), o[1] = m, Before(o, id)
      PROVE  BodyEnd(a, o) <= p /\ BodyStart(a, o) < p /\ BodyEnd(a, o) \in Nat
  <2>1. o[2] < i
    BY <1>2, <1>4 DEF Before
  <2>2. /\ BodyStart(a, o) \in Nat /\ BodyEnd(a, o) \in Nat
        /\ BodyStart(a, o) < BodyEnd(a, o) /\ BodyEnd(a, o) <= Start(a[m], i)
    BY <1>4, <2>1, Around
  <2> QED BY <1>1, <2>2
<1>5. ASSUME NEW o \in All(a), o[1] = m, ~Before(o, id), o # id
      PROVE  p <= BodyStart(a, o) /\ BodyStart(a, o) \in Nat
  <2>1. o[2] # i /\ o[2] \in Nat
    BY <1>5, IdPlace, Around, FileFacts
  <2>2. i < o[2]
    BY <1>2, <1>5, <2>1 DEF Before
  <2>3. BodyEnd(a, id) < BodyStart(a, o) /\ BodyStart(a, o) \in Nat
    BY <1>5, <2>2, Around
  <2> QED BY <1>1, <2>3
<1>6. \A o \in All(a) : o[1] # m => (o[1] < m <=> Before(o, id))
  BY DEF Before
<1>7. Passed(a, m, p) = IF p = BodyStart(a, id)
        THEN Prior(a, id) ELSE Prior(a, id) \cup {id}
  <2>1. ASSUME NEW o \in All(a), o # id
        PROVE  o \in Passed(a, m, p) <=> Before(o, id)
    <3>1. CASE o[1] # m
      BY <1>6, <3>1 DEF Passed
    <3>2. CASE o[1] = m /\ Before(o, id)
      BY <1>4, <3>2 DEF Passed
    <3>3. CASE o[1] = m /\ ~Before(o, id)
      <4>1. ~(BodyStart(a, o) < p) /\ ~(o[1] < m)
        BY <1>2, <1>5, <2>1, <3>3
      <4> QED BY <3>3, <4>1 DEF Passed
    <3> QED BY <3>1, <3>2, <3>3
  <2>2. id \in Passed(a, m, p) <=> p # BodyStart(a, id)
    <3>1. id[1] = m /\ ~(m < m)
      BY <1>2
    <3>2. BodyStart(a, id) < p <=> p # BodyStart(a, id)
      BY <1>1
    <3> HIDE DEF id
    <3> QED BY <1>2, <3>1, <3>2 DEF Passed
  <2>3. Passed(a, m, p) \subseteq All(a) /\ Prior(a, id) \subseteq All(a)
    BY DEF Passed, Prior
  <2>4. \A o \in All(a) : o \in Prior(a, id) <=> Before(o, id)
    BY DEF Prior
  <2> HIDE DEF id
  <2>5. CASE p = BodyStart(a, id)
    <3>1. \A o \in All(a) : o \in Passed(a, m, p) <=> o \in Prior(a, id)
      BY <1>3, <2>1, <2>2, <2>4, <2>5
    <3>2. Passed(a, m, p) = Prior(a, id)
      BY <2>3, <3>1
    <3> QED BY <2>5, <3>2
  <2>6. CASE p # BodyStart(a, id)
    BY <1>2, <1>3, <2>1, <2>2, <2>3, <2>4, <2>6
  <2> QED BY <2>5, <2>6
<1>8. ASSUME NEW o \in Prior(a, id), NEW q \in Nat, p <= q
      PROVE  UpTo(a, o, m, p) = UpTo(a, o, m, q)
  <2>1. o \in All(a) /\ Before(o, id)
    BY <1>8 DEF Prior
  <2>2. CASE o[1] = m
    <3>1. BodyEnd(a, o) <= p /\ BodyEnd(a, o) \in Nat
      BY <1>4, <2>1, <2>2
    <3> QED BY <1>8, <3>1 DEF UpTo
  <2>3. CASE o[1] # m
    BY <2>3 DEF UpTo
  <2> QED BY <2>2, <2>3
<1> QED BY <1>2, <1>3, <1>7, <1>8

(* A piece that begins where the last has ended is the next one, or makes  *)
(* the last one longer.                                                    *)
LEMMA ApplyNext ==
  ASSUME NEW a \in Archives, NEW S, NEW s \in Seq(S), NEW piece \in S,
         NEW m \in 1 .. Len(a), NEW i \in 1 .. Len(a[m]),
         NEW p \in Nat, NEW q \in Nat,
         BodyStart(a, <<m, i>>) <= p, p <= q, q <= BodyEnd(a, <<m, i>>),
         AppliedTo(a, s, m, p),
         piece = [id |-> <<m, i>>, from |-> p, to |-> q, tables |-> TablesOf(a, <<m, i>>)]
  PROVE  AppliedTo(a, Joined(s, piece), m, q)
<1> DEFINE id == <<m, i>>
           L == Len(s)
           t == Joined(s, piece)
<1>1. CASE p = q
  BY <1>1 DEF Joined
<1>2. CASE p < q
  <2>1. /\ BodyStart(a, id) \in Nat /\ BodyEnd(a, id) \in Nat
        /\ BodyEnd(a, id) = BodyStart(a, id) + a[m][i].body
    BY Places
  <2>2. a[m][i].body > 0 /\ a[m][i].body \in Nat
    BY <1>2, <2>1, BlockFacts
  <2>3. /\ BodyStart(a, id) <= p /\ p <= BodyEnd(a, id)
        /\ BodyStart(a, id) <= q /\ q <= BodyEnd(a, id) /\ BodyStart(a, id) # q
    BY <1>2, <2>1
  <2>4. /\ id \in All(a) /\ id \notin Prior(a, id)
        /\ Passed(a, m, p) = IF p = BodyStart(a, id)
             THEN Prior(a, id) ELSE Prior(a, id) \cup {id}
        /\ \A o \in Prior(a, id) : UpTo(a, o, m, p) = UpTo(a, o, m, q)
    <3>1. /\ <<m, i>> \in All(a) /\ <<m, i>> \notin Prior(a, <<m, i>>)
          /\ Passed(a, m, p) = IF p = BodyStart(a, <<m, i>>)
               THEN Prior(a, <<m, i>>) ELSE Prior(a, <<m, i>>) \cup {<<m, i>>}
          /\ \A o \in Prior(a, <<m, i>>) : \A r \in Nat : p <= r =>
               UpTo(a, o, m, p) = UpTo(a, o, m, r)
      BY <2>2, <2>3, PassedWithin, Zenon
    <3> QED BY <1>2, <3>1
  <2>5. Passed(a, m, q) = Prior(a, id) \cup {id}
    <3>1. Passed(a, m, q) = IF q = BodyStart(a, <<m, i>>)
               THEN Prior(a, <<m, i>>) ELSE Prior(a, <<m, i>>) \cup {<<m, i>>}
      BY <2>2, <2>3, PassedWithin
    <3> QED BY <2>3, <3>1
  <2>6. IsFiniteSet(Prior(a, id)) /\ Cardinality(Prior(a, id)) \in Nat
    BY PartsFinite
  <2>7. Cardinality(Prior(a, id) \cup {id}) = Cardinality(Prior(a, id)) + 1
    BY <2>4, <2>6, FS_AddElement
  <2>8. L \in Nat /\ L = Cardinality(Passed(a, m, p))
    BY DEF AppliedTo
  <2>9. \A k \in 1 .. L :
          /\ s[k].id \in Passed(a, m, p)
          /\ Cardinality(Prior(a, s[k].id)) = k - 1
          /\ s[k] = UpTo(a, s[k].id, m, p)
    BY DEF AppliedTo
  <2>10. UpTo(a, id, m, q)
           = [id |-> id, from |-> BodyStart(a, id), to |-> q, tables |-> TablesOf(a, id)]
    <3>1. id[1] = m
      OBVIOUS
    <3>2. (IF id[1] = m /\ q < BodyEnd(a, id) THEN q ELSE BodyEnd(a, id)) = q
      BY <2>1, <3>1
    <3> QED BY <3>2 DEF UpTo
  <2> HIDE DEF id, L, t
  <2>13. p # q /\ piece.from = p /\ piece.to = q /\ piece.id = id
         /\ piece.tables = TablesOf(a, id)
    BY <1>2 DEF id
  <2>11. CASE p = BodyStart(a, id)
    <3>1. Passed(a, m, p) = Prior(a, id)
      BY <2>4, <2>11
    <3>2. L > 0 => s[L].id # piece.id
      <4> SUFFICES ASSUME L > 0 PROVE s[L].id # piece.id
        OBVIOUS
      <4>1. L \in 1 .. L
        BY <2>8
      <4>2. s[L].id \in Prior(a, id)
        BY <2>9, <3>1, <4>1
      <4> QED BY <2>4, <2>13, <4>2
    <3>3. t = Append(s, piece)
      BY <2>13, <3>2 DEF Joined, L, t
    <3>4. /\ Len(t) = L + 1 /\ t[L + 1] = piece
          /\ \A k \in 1 .. L : t[k] = s[k]
      BY <3>3 DEF L
    <3>5. piece = UpTo(a, id, m, q)
      BY <2>10, <2>11 DEF id
    <3>6. ASSUME NEW k \in 1 .. Len(t)
          PROVE  /\ t[k].id \in Passed(a, m, q)
                 /\ Cardinality(Prior(a, t[k].id)) = k - 1
                 /\ t[k] = UpTo(a, t[k].id, m, q)
      <4>1. CASE k \in 1 .. L
        BY <2>4, <2>5, <2>9, <3>1, <3>4, <4>1
      <4>2. CASE k = L + 1
        <5>1. t[k] = piece /\ t[k].id = id
          BY <2>13, <3>4, <4>2
        <5>2. Cardinality(Prior(a, id)) = k - 1
          BY <2>8, <3>1, <4>2
        <5> QED BY <2>5, <3>5, <5>1, <5>2
      <4> QED BY <2>8, <3>4, <4>1, <4>2
    <3>7. Len(t) = Cardinality(Passed(a, m, q))
      BY <2>5, <2>7, <2>8, <3>1, <3>4
    <3> QED BY <3>6, <3>7 DEF AppliedTo, t
  <2>12. CASE BodyStart(a, id) < p
    <3>1. Passed(a, m, p) = Prior(a, id) \cup {id}
      BY <2>1, <2>4, <2>12
    <3>2. L = Cardinality(Prior(a, id)) + 1 /\ L \in 1 .. L
      BY <2>6, <2>7, <2>8, <3>1
    <3>3. s[L].id = id
      <4>1. s[L].id \in All(a) /\ Cardinality(Prior(a, s[L].id)) = Cardinality(Prior(a, id))
        BY <2>6, <2>9, <3>2 DEF Passed
      <4> QED BY <2>4, <4>1, OneRank
    <3>4. s[L] = [id |-> id, from |-> BodyStart(a, id), to |-> p, tables |-> TablesOf(a, id)]
      <4>1. s[L] = UpTo(a, id, m, p)
        BY <2>9, <3>2, <3>3
      <4>2. id[1] = m
        BY DEF id
      <4>3. (IF id[1] = m /\ p < BodyEnd(a, id) THEN p ELSE BodyEnd(a, id)) = p
        BY <1>2, <2>1, <2>3, <4>2
      <4> QED BY <4>1, <4>3 DEF UpTo
    <3>5. t = [s EXCEPT ![L].to = q]
      BY <2>8, <2>13, <3>2, <3>3, <3>4 DEF Joined, L, t
    <3>6. /\ Len(t) = L /\ \A k \in 1 .. L : k # L => t[k] = s[k]
          /\ t[L] = [s[L] EXCEPT !.to = q]
      BY <3>2, <3>5 DEF L
    <3>7. t[L] = UpTo(a, id, m, q) /\ t[L].id = id
      BY <2>10, <3>4, <3>6
    <3>8. ASSUME NEW k \in 1 .. L
          PROVE  /\ t[k].id \in Passed(a, m, q)
                 /\ Cardinality(Prior(a, t[k].id)) = k - 1
                 /\ t[k] = UpTo(a, t[k].id, m, q)
      <4>1. CASE k = L
        <5>1. Cardinality(Prior(a, id)) = k - 1
          BY <2>6, <3>2, <4>1
        <5> QED BY <2>5, <3>7, <4>1, <5>1
      <4>2. CASE k # L
        <5>1. s[k].id # id
          BY <2>6, <2>9, <3>2, <4>2
        <5>2. s[k].id \in Prior(a, id)
          BY <2>9, <3>1, <5>1
        <5> QED BY <2>4, <2>5, <2>9, <3>6, <4>2, <5>2
      <4> QED BY <4>1, <4>2
    <3>9. Len(t) = Cardinality(Passed(a, m, q))
      BY <2>5, <2>8, <3>1, <3>6
    <3> QED BY <3>6, <3>8, <3>9 DEF AppliedTo, t
  <2> QED BY <2>1, <2>11, <2>12 DEF id, t
<1> QED BY <1>1, <1>2

-----------------------------------------------------------------------------
(* What is applied is in order.                                            *)

(* Piece k of s is what AppliedInOrder says.                               *)
PriorIn(a, m, id) == {o \in Ids(a, m) : Before(o, id)}
InOrder(a, s, m, k) ==
  /\ s[k].id \in Ids(a, m)
  /\ Cardinality(PriorIn(a, m, s[k].id)) = k - 1
  /\ IF k < Len(s) THEN s[k] = PieceOf(a, s[k].id)
                   ELSE s[k] = [PieceOf(a, s[k].id) EXCEPT !.to = s[k].to]

(* The piece a block stands for goes from where its data begins to where   *)
(* it ends.                                                                *)
LEMMA PieceFields ==
  ASSUME NEW a, NEW id
  PROVE  PieceOf(a, id) = [id |-> id, from |-> BodyStart(a, id), to |-> BodyEnd(a, id),
                           tables |-> TablesOf(a, id)]
  BY DEF PieceOf, BodyStart, BodyEnd

(* The blocks up to a file are those of the archive up to there.           *)
LEMMA IdsOfFiles ==
  ASSUME NEW a \in Archives, NEW m \in 1 .. Len(a)
  PROVE  /\ Ids(a, m) = {o \in All(a) : o[1] <= m}
         /\ \A id \in Ids(a, m) : PriorIn(a, m, id) = Prior(a, id)
         /\ \A pos : Passed(a, m, pos) \subseteq Ids(a, m)
<1>1. m \in Nat /\ m <= Len(a) /\ Len(a) \in Nat
  BY FileFacts
<1>2. \A o : o \in Ids(a, m)
        <=> \E f \in 1 .. m : \E i \in 1 .. Len(a[f]) : a[f][i].body > 0 /\ o = <<f, i>>
  BY DEF Ids
<1>3. \A o : o \in All(a)
        <=> \E f \in 1 .. Len(a) : \E i \in 1 .. Len(a[f]) : a[f][i].body > 0 /\ o = <<f, i>>
  BY DEF Ids, All
<1>4. ASSUME NEW o PROVE o \in Ids(a, m) <=> o \in All(a) /\ o[1] <= m
  <2>1. ASSUME o \in Ids(a, m) PROVE o \in All(a) /\ o[1] <= m
    <3>1. PICK f \in 1 .. m : \E i \in 1 .. Len(a[f]) : a[f][i].body > 0 /\ o = <<f, i>>
      BY <1>2, <2>1
    <3>2. f \in 1 .. Len(a)
      BY <1>1
    <3>3. o \in All(a)
      BY <1>3, <3>1, <3>2
    <3>4. o[1] = f
      BY <3>1
    <3> QED BY <1>1, <3>3, <3>4
  <2>2. ASSUME o \in All(a), o[1] <= m PROVE o \in Ids(a, m)
    <3>1. PICK f \in 1 .. Len(a) : \E i \in 1 .. Len(a[f]) : a[f][i].body > 0 /\ o = <<f, i>>
      BY <1>3, <2>2
    <3>2. o[1] = f
      BY <3>1
    <3>3. f \in 1 .. m
      BY <1>1, <2>2, <3>2
    <3> QED BY <1>2, <3>1, <3>3
  <2> QED BY <2>1, <2>2
<1>5. Ids(a, m) = {o \in All(a) : o[1] <= m}
  BY <1>4
<1>6. \A o \in All(a) : o[1] \in Nat
  BY IdPlace
<1>7. ASSUME NEW id \in Ids(a, m)
      PROVE  PriorIn(a, m, id) = Prior(a, id)
  <2>1. id \in All(a) /\ id[1] <= m /\ id[1] \in Nat
    BY <1>5, <1>6
  <2>2. \A o \in All(a) : Before(o, id) => o[1] <= m
    BY <1>1, <1>6, <2>1 DEF Before
  <2> QED BY <1>5, <2>2 DEF Prior, PriorIn
<1>8. ASSUME NEW pos PROVE Passed(a, m, pos) \subseteq Ids(a, m)
  BY <1>1, <1>5, <1>6 DEF Passed
<1> QED BY <1>5, <1>7, <1>8

(* A piece of the sequence is whole or ends at the position.               *)
Placed(a, m, pos, s, k) ==
  /\ s[k].id \in Ids(a, m) /\ s[k].id \in All(a)
  /\ Cardinality(PriorIn(a, m, s[k].id)) = k - 1
  /\ s[k] = [PieceOf(a, s[k].id) EXCEPT !.to = s[k].to]
  /\ ~(s[k].id[1] = m /\ pos < BodyEnd(a, s[k].id)) => s[k] = PieceOf(a, s[k].id)

(* A piece of what was applied up to a position is the one its rank asks   *)
(* for, whole unless the position is within it.                            *)
LEMMA InOrderOf ==
  ASSUME NEW a \in Archives, NEW m \in 1 .. Len(a), NEW pos \in Nat, NEW s,
         NEW k \in 1 .. Len(s),
         AppliedTo(a, s, m, pos)
  PROVE  Placed(a, m, pos, s, k)
<1> DEFINE id == s[k].id
<1>1. /\ id \in Passed(a, m, pos) /\ Cardinality(Prior(a, id)) = k - 1
      /\ s[k] = UpTo(a, id, m, pos)
  BY DEF AppliedTo
<1>2. id \in Ids(a, m) /\ id \in All(a)
  BY <1>1, IdsOfFiles DEF Passed
<1>3. PriorIn(a, m, id) = Prior(a, id)
  BY <1>2, IdsOfFiles
<1> HIDE DEF id
<1>4. s[k] = [PieceOf(a, id) EXCEPT !.to = s[k].to]
  BY <1>1, PieceFields DEF UpTo
<1>5. ~(id[1] = m /\ pos < BodyEnd(a, id)) => s[k] = PieceOf(a, id)
  BY <1>1, PieceFields DEF UpTo
<1>6. Cardinality(PriorIn(a, m, id)) = k - 1
  BY <1>1, <1>3
<1> QED BY <1>2, <1>4, <1>5, <1>6 DEF id, Placed

(* What was applied up to a position is in order: AppliedInOrder follows   *)
(* from AppliedTo.                                                         *)
LEMMA AppliedToInOrder ==
  ASSUME NEW a \in Archives, NEW m \in 1 .. Len(a), NEW pos \in Nat, NEW s,
         AppliedTo(a, s, m, pos)
  PROVE  \A k \in 1 .. Len(s) : InOrder(a, s, m, k)
<1>1. /\ IsFiniteSet(Passed(a, m, pos)) /\ Cardinality(Passed(a, m, pos)) \in Nat
  BY PartsFinite
<1>2. Len(s) \in Nat
  BY <1>1 DEF AppliedTo
<1>3. ASSUME NEW k \in 1 .. Len(s), k < Len(s), s[k].id[1] = m,
             pos < BodyEnd(a, s[k].id)
      PROVE  FALSE
  <2> DEFINE id == s[k].id
             next == s[k + 1].id
  <2>1. k + 1 \in 1 .. Len(s) /\ (k + 1) - 1 = k /\ k \in Nat
    BY <1>2, <1>3
  <2>2. /\ id \in Passed(a, m, pos) /\ next \in Passed(a, m, pos)
        /\ Cardinality(Prior(a, id)) = k - 1 /\ Cardinality(Prior(a, next)) = k
    BY <2>1 DEF AppliedTo
  <2>3. id \in All(a) /\ next \in All(a)
    BY <2>2 DEF Passed
  <2>4. /\ id = <<id[1], id[2]>> /\ id[1] \in Nat /\ id[2] \in 1 .. Len(a[m])
        /\ next = <<next[1], next[2]>> /\ next[1] \in Nat /\ next[2] \in Nat
    <3>1. id[1] = m
      BY <1>3
    <3> HIDE DEF id, next
    <3> QED BY <2>3, <3>1, IdPlace
  <2>5. id[1] = m /\ pos < BodyEnd(a, id)
    BY <1>3
  <2> HIDE DEF id, next
  <2>6. next # id
    BY <2>1, <2>2
  <2>7. ~Before(next, id)
    <3> SUFFICES ASSUME Before(next, id) PROVE FALSE
      OBVIOUS
    <3>1. Prior(a, next) \subseteq Prior(a, id)
      <4> SUFFICES ASSUME NEW t \in All(a), Before(t, next), ~Before(t, id) PROVE FALSE
        BY DEF Prior
      <4>1. t[1] \in Nat /\ t[2] \in Nat
        BY IdPlace
      <4>2. id[2] \in Nat
        BY <2>4
      <4> QED BY <2>4, <4>1, <4>2 DEF Before
    <3>2. IsFiniteSet(Prior(a, id))
      BY PartsFinite
    <3>3. Cardinality(Prior(a, next)) <= Cardinality(Prior(a, id))
      BY <3>1, <3>2, FS_Subset
    <3> QED BY <2>1, <2>2, <3>3
  <2>8. next[1] = m /\ id[2] < next[2]
    <3>1. next[1] <= m
      BY <2>2, <2>4, FileFacts DEF Passed
    <3>2. id[2] \in Nat /\ m \in Nat
      BY <2>4, FileFacts
    <3> QED BY <2>4, <2>5, <2>6, <2>7, <3>1, <3>2 DEF Before
  <2>9. BodyStart(a, next) < pos
    BY <2>2, <2>8, FileFacts DEF Passed
  <2>10. id = <<m, id[2]>>
    BY <2>4, <2>5
  <2>11. BodyEnd(a, id) < BodyStart(a, next) /\ BodyStart(a, next) \in Nat
    BY <2>3, <2>4, <2>8, <2>10, Around
  <2>12. BodyEnd(a, id) \in Nat
    BY <2>4, <2>10, Places
  <2> QED BY <2>5, <2>9, <2>11, <2>12
<1>4. ASSUME NEW k \in 1 .. Len(s) PROVE InOrder(a, s, m, k)
  <2>1. /\ s[k].id \in Ids(a, m)
        /\ Cardinality(PriorIn(a, m, s[k].id)) = k - 1
        /\ s[k] = [PieceOf(a, s[k].id) EXCEPT !.to = s[k].to]
        /\ ~(s[k].id[1] = m /\ pos < BodyEnd(a, s[k].id)) => s[k] = PieceOf(a, s[k].id)
    BY InOrderOf DEF Placed
  <2>2. k < Len(s) => s[k] = PieceOf(a, s[k].id)
    BY <1>3, <2>1
  <2> QED BY <2>1, <2>2 DEF InOrder
<1> QED BY <1>4

(* When everything before a block is applied, each piece is whole, and so  *)
(* it is in order whatever follows.                                        *)
LEMMA StaleInOrder ==
  ASSUME NEW a \in Archives, NEW m \in 1 .. Len(a), NEW i \in 1 .. Len(a[m]),
         NEW S, NEW s \in Seq(S), NEW piece \in S,
         AppliedTo(a, s, m, BodyStart(a, <<m, i>>))
  PROVE  \A k \in 1 .. Len(Joined(s, piece)) - 1 : InOrder(a, Joined(s, piece), m, k)
<1> DEFINE pos == BodyStart(a, <<m, i>>)
           t == Joined(s, piece)
<1>1. pos \in Nat /\ Start(a[m], i) \in Nat /\ Start(a[m], i) < pos
  BY Places
<1>2. ASSUME NEW k \in 1 .. Len(s)
      PROVE  /\ s[k].id \in Ids(a, m)
             /\ Cardinality(PriorIn(a, m, s[k].id)) = k - 1
             /\ s[k] = PieceOf(a, s[k].id)
  <2>1. s[k].id \in Passed(a, m, pos) /\ s[k].id \in All(a)
    BY DEF AppliedTo, Passed
  <2>2. ASSUME s[k].id[1] = m PROVE ~(pos < BodyEnd(a, s[k].id))
    <3>1. /\ BodyStart(a, s[k].id) \in Nat /\ BodyEnd(a, s[k].id) \in Nat
          /\ s[k].id[2] < i => BodyEnd(a, s[k].id) <= Start(a[m], i)
          /\ i < s[k].id[2] => BodyEnd(a, <<m, i>>) < BodyStart(a, s[k].id)
          /\ s[k].id[2] = i => s[k].id = <<m, i>>
      BY <2>1, <2>2, Around
    <3>2. s[k].id[2] \in Nat /\ i \in Nat
      BY <2>1, IdPlace
    <3>3. BodyStart(a, s[k].id) < pos
      BY <2>1, <2>2, FileFacts DEF Passed
    <3>4. pos <= BodyEnd(a, <<m, i>>) /\ BodyEnd(a, <<m, i>>) \in Nat
      BY Places
    <3>5. s[k].id[2] < i
      BY <1>1, <3>1, <3>2, <3>3, <3>4
    <3> QED BY <1>1, <3>1, <3>5
  <2>3. Placed(a, m, pos, s, k)
    BY <1>1, InOrderOf
  <2> QED BY <2>2, <2>3 DEF Placed
<1>3. /\ Len(s) \in Nat /\ Len(t) \in Nat /\ Len(t) - 1 <= Len(s)
      /\ \A k \in 1 .. Len(t) - 1 : t[k] = s[k]
  BY DEF Joined
<1> HIDE DEF t, pos
<1>4. ASSUME NEW k \in 1 .. Len(t) - 1 PROVE InOrder(a, t, m, k)
  <2>1. k \in 1 .. Len(s) /\ t[k] = s[k] /\ k < Len(t)
    BY <1>3
  <2> QED BY <1>2, <2>1 DEF InOrder
<1> QED BY <1>4 DEF t

(* When a file is applied to its end, every block is, and is whole.        *)
LEMMA AppliedWhole ==
  ASSUME NEW a \in Archives, NEW m \in 1 .. Len(a), NEW s,
         AppliedTo(a, s, m, Total(a[m]))
  PROVE  /\ Len(s) = Cardinality(Ids(a, m))
         /\ Len(s) \in Nat
         /\ \A k \in 1 .. Len(s) : s[k] = PieceOf(a, s[k].id)
<1>0. Total(a[m]) \in Nat
  <2>1. 1 \in 1 .. Len(a[m])
    BY FileFacts
  <2> QED BY <2>1, Places
<1>1. \A o \in All(a) : o[1] = m =>
        /\ BodyStart(a, o) \in Nat /\ BodyEnd(a, o) \in Nat /\ Total(a[m]) \in Nat
        /\ BodyStart(a, o) < BodyEnd(a, o) /\ BodyEnd(a, o) <= Total(a[m])
  <2>1. 1 \in 1 .. Len(a[m])
    BY FileFacts
  <2> QED BY <2>1, Around, Places
<1>2. m \in Nat /\ \A o \in All(a) : o[1] \in Nat
  BY IdPlace
<1>3. Passed(a, m, Total(a[m])) = Ids(a, m)
  <2>1. \A o \in All(a) : o[1] = m => BodyStart(a, o) < Total(a[m])
    BY <1>1
  <2> QED BY <1>2, <2>1, IdsOfFiles DEF Passed
<1>4. Len(s) = Cardinality(Ids(a, m)) /\ Len(s) \in Nat
  BY <1>3, PartsFinite DEF AppliedTo
<1>5. ASSUME NEW k \in 1 .. Len(s) PROVE s[k] = PieceOf(a, s[k].id)
  <2>1. Placed(a, m, Total(a[m]), s, k)
    BY <1>0, InOrderOf
  <2>2. ~(s[k].id[1] = m /\ Total(a[m]) < BodyEnd(a, s[k].id))
    BY <1>1, <2>1 DEF Placed
  <2> QED BY <2>1, <2>2 DEF Placed
<1> QED BY <1>4, <1>5

-----------------------------------------------------------------------------
(* Whose tables a block is decoded with.                                   *)

(* A block that has tables, with them.                                     *)
LEMMA OwnTables ==
  ASSUME NEW a \in Archives, NEW m \in 1 .. Len(a), NEW i \in 1 .. Len(a[m]),
         a[m][i].table > 0
  PROVE  TablesOf(a, <<m, i>>) = <<m, i>>
<1> DEFINE id == <<m, i>>
           P(t) == ~Before(id, t) /\ \A o \in Tables(a) : Before(t, o) => Before(id, o)
<1>1. id \in Tables(a)
  BY DEF Tables
<1>2. P(id)
  BY FileFacts DEF Before
<1>3. ASSUME NEW t \in Tables(a), P(t) PROVE t = id
  <2>1. /\ t = <<t[1], t[2]>> /\ t[1] \in Nat /\ t[2] \in Nat /\ m \in Nat /\ i \in Nat
    BY FileFacts DEF Tables
  <2>2. ~Before(t, id)
    <3>1. ~Before(id, id)
      BY <1>2
    <3> QED BY <1>1, <1>3, <3>1
  <2>3. ~Before(id, t)
    BY <1>3
  <2> QED BY <2>1, <2>2, <2>3 DEF Before
<1>4. TablesOf(a, id) = CHOOSE t \in Tables(a) : P(t)
  BY DEF TablesOf
<1> HIDE DEF P
<1> QED BY <1>1, <1>2, <1>3, <1>4

(* Two places with no tables between them have the same.                   *)
LEMMA SameTables ==
  ASSUME NEW a, NEW p, NEW q, \A t \in Tables(a) : Before(p, t) <=> Before(q, t)
  PROVE  TablesOf(a, p) = TablesOf(a, q)
<1>1. \A t \in Tables(a) :
           ~Before(p, t) /\ (\A o \in Tables(a) : Before(t, o) => Before(p, o))
       <=> ~Before(q, t) /\ (\A o \in Tables(a) : Before(t, o) => Before(q, o))
  OBVIOUS
<1> QED BY <1>1 DEF TablesOf

(* The first block of a file goes on with the tables of the file before,   *)
(* if it has none.                                                         *)
LEMMA FirstTables ==
  ASSUME NEW a \in Archives, NEW m \in 1 .. Len(a), a[m][1].table = 0
  PROVE  TablesOf(a, <<m, 1>>) = TablesOf(a, <<m, 0>>)
<1>1. ASSUME NEW t \in Tables(a) PROVE Before(<<m, 1>>, t) <=> Before(<<m, 0>>, t)
  <2>1. /\ t = <<t[1], t[2]>> /\ t[1] \in Nat /\ t[2] \in Nat /\ t[2] >= 1 /\ m \in Nat
        /\ a[t[1]][t[2]].table > 0
    BY FileFacts DEF Tables
  <2>2. ~(t[1] = m /\ t[2] = 1)
    <3> SUFFICES ASSUME t[1] = m, t[2] = 1 PROVE FALSE
      OBVIOUS
    <3>1. a[t[1]][t[2]].table = 0
      OBVIOUS
    <3> QED BY <2>1, <3>1
  <2> QED BY <2>1, <2>2 DEF Before
<1> QED BY <1>1, SameTables

(* The file that follows begins with the tables of the last block.         *)
LEMMA LastTables ==
  ASSUME NEW a \in Archives, NEW m \in 1 .. Len(a)
  PROVE  TablesOf(a, <<m, Len(a[m])>>) = TablesOf(a, <<m + 1, 0>>)
<1>1. ASSUME NEW t \in Tables(a)
      PROVE  Before(<<m, Len(a[m])>>, t) <=> Before(<<m + 1, 0>>, t)
  <2>1. /\ t = <<t[1], t[2]>> /\ t[1] \in Nat /\ t[2] \in 1 .. Len(a[t[1]]) /\ m \in Nat
        /\ Len(a[m]) \in Nat
    BY FileFacts DEF Tables
  <2>2. CASE t[1] = m
    BY <2>1, <2>2 DEF Before
  <2>3. CASE t[1] # m
    BY <2>1, <2>3 DEF Before
  <2> QED BY <2>2, <2>3
<1> QED BY <1>1, SameTables

-----------------------------------------------------------------------------
(* The inductive invariant.                                                *)

Pieces == [id : Nat \X Nat, from : Nat, to : Nat, tables : Nat \X Nat]
SlotData ==
  [base : Nat, addr : Nat, dataSize : Nat, header : Nat, table : Nat, blockSize : Nat,
   blockStart : Nat, last : BOOLEAN, good : BOOLEAN, headerRead : BOOLEAN,
   tableRead : BOOLEAN, tables : Nat \X Nat, damaged : BOOLEAN, large : BOOLEAN,
   incomplete : BOOLEAN, id : Nat \X Nat, decoded : Pieces]

Types ==
  /\ TypeOK
  /\ avail \in Nat /\ end \in 0 .. avail /\ origin \in Nat /\ BlockStart \in Nat
  /\ data \in [Slots -> SlotData]
  /\ tables \in Nat \X Nat
  /\ applied \in Seq(Pieces)
  /\ block \in Nat
  /\ tasks \subseteq Nat \X Nat /\ IsFiniteSet(tasks)
  /\ pc # "call" => n >= 1
  /\ pc # "call" /\ lost => avail < Total(File)

(* A slot holds block d.id of file m, all of it or its rest, where the     *)
(* buffer has the file from position o on.                                 *)
IsRest(d) == d.blockStart = 0
Holds(a, m, o, d) ==
  /\ d.headerRead
  /\ d.id[1] = m /\ d.id[2] \in 1 .. Len(a[m])
  /\ d.last = a[m][d.id[2]].last /\ d.good = a[m][d.id[2]].good
  /\ d.table = a[m][d.id[2]].table
  /\ d.header = d.blockStart
  /\ o + d.base + d.blockStart + d.blockSize = BodyEnd(a, d.id)
  /\ IF IsRest(d)
       THEN d.base = 0 /\ BodyStart(a, d.id) <= o /\ o < BodyEnd(a, d.id)
       ELSE /\ o + d.base = Start(a[m], d.id[2])
            /\ d.blockStart = a[m][d.id[2]].header
From(a, o, d) == IF IsRest(d) THEN o ELSE BodyStart(a, d.id)

(* Nothing of it has been decoded.                                         *)
Fresh(a, d) ==
  /\ d.damaged = FALSE /\ d.incomplete = FALSE /\ d.addr = d.blockStart
  /\ d.tableRead = IsRest(d)
  /\ IsRest(d) \/ d.table = 0 => d.tables = TablesOf(a, d.id)

(* It has been decoded, as far as it was there.                            *)
Ready(a, o, size, noData, whole, d) ==
  IF d.damaged
    THEN ~whole /\ ~IsRest(d) /\ d.incomplete = FALSE
    ELSE /\ d.decoded = [id |-> d.id, from |-> From(a, o, d),
                         to |-> o + d.base + d.addr, tables |-> TablesOf(a, d.id)]
         /\ d.tableRead /\ d.tables = TablesOf(a, d.id)
         /\ From(a, o, d) <= o + d.base + d.addr
         /\ d.addr <= d.blockStart + d.blockSize
         /\ d.incomplete = (d.addr < d.blockStart + d.blockSize)
         /\ d.incomplete => size <= d.base + d.addr + Reserve
         /\ noData \/ d.base + d.addr < size

(* The slots of a round hold blocks that follow each other, all but the    *)
(* last of them with more behind them than a thread reads.                 *)
Held(a, m, o, size, noData, d) ==
  /\ Holds(a, m, o, d)
  /\ d.base + d.dataSize = size
  /\ d.blockStart <= d.dataSize
  /\ noData \/ IsRest(d) \/ TooSmallToProcess <= d.dataSize
Follows(size, d, e) ==
  /\ d.last = FALSE
  /\ d.base + d.blockStart + d.blockSize + TooSmallToProcess <= size
  /\ e.id[2] = d.id[2] + 1
  /\ ~IsRest(e)
Blocks ==
  /\ \A k \in 0 .. BlockNumber - 1 : Held(archive, n, origin, DataSize, NoDataLeft, data[k])
  /\ \A k \in 1 .. BlockNumber - 1 : Follows(DataSize, data[k - 1], data[k])

IsFresh(k) == Fresh(archive, data[k])
IsReady(k) == Ready(archive, origin, DataSize, NoDataLeft, Whole, data[k])
AppliedFrom(d) == AppliedTo(archive, applied, n, From(archive, origin, d))

(* Between two rounds: the rest of a block is at the beginning of the      *)
(* buffer, or the next block is where BlockStart says.                     *)
NextAt(j) ==
  /\ AppliedTo(archive, applied, n, origin + BlockStart)
  /\ origin + BlockStart = Start(File, j)
  /\ j = 1 => n = 1 \/ data[0].tables = TablesOf(archive, <<n, 0>>)
RestAtStart(d) ==
  /\ Holds(archive, n, origin, d) /\ IsRest(d)
  /\ Fresh(archive, [d EXCEPT !.incomplete = FALSE])
  /\ BlockStart = 0
  /\ AppliedTo(archive, applied, n, origin)
Waiting ==
  IF data[0].incomplete THEN RestAtStart(data[0]) ELSE \E j \in 1 .. Len(File) : NextAt(j)

AllRead == NoDataLeft => origin + DataSize = avail
Uncut(S) == \A k \in S : data[k].incomplete = FALSE
LargeLast ==
  \A k, l \in Slots : k < l /\ l < BlockNumber /\ data[k].large => data[l].large

AtCall ==
  /\ AppliedTo(archive, applied, n + 1, 0)
  /\ n > 0 => /\ tables = TablesOf(archive, <<n + 1, 0>>)
              /\ AppliedTo(archive, applied, n, Total(File))

AtRead ==
  /\ Done = FALSE /\ Waiting /\ Uncut(Slots \ {0})

AtFill ==
  /\ Done = FALSE /\ AllRead
  /\ NoDataLeft \/ BlockStart + TooSmallToProcess <= DataSize
  /\ BlockNumber \in Slots
  /\ BlockNumber = 0 => Waiting /\ Uncut(Slots \ {0})
  /\ BlockNumber > 0 =>
       /\ Blocks /\ LargeLast /\ AppliedFrom(data[0])
       /\ \A k \in 0 .. BlockNumber - 1 : IsFresh(k)
       /\ \E d \in {data[BlockNumber - 1]} :
            /\ BlockStart = d.base + d.blockStart + d.blockSize
            /\ BlockStart + TooSmallToProcess <= DataSize
            /\ d.last = FALSE
       /\ Uncut(Slots)

(* The slots are filled.                                                   *)
InRound ==
  /\ BlockNumber > 0 /\ Blocks /\ LargeLast /\ AllRead
  /\ Done => ~Whole
  /\ Done \/ LastBlockNum = BlockNumber - 1
  /\ \E d \in {data[BlockNumber - 1]} : BlockStart = d.base + d.blockStart + d.blockSize
  /\ DataSize > 0

AtAdd ==
  IF BlockNumber = 0
    THEN Done /\ ~Whole /\ AppliedTo(archive, applied, n, origin + BlockStart)
    ELSE /\ InRound /\ AppliedFrom(data[0]) /\ Uncut(Slots)
         /\ \A k \in 0 .. BlockNumber - 1 : IsFresh(k)

Pending(k) == \E t \in tasks : t[1] <= k /\ k <= t[2]
AtDecode ==
  /\ InRound /\ AppliedFrom(data[0]) /\ block = 0
  /\ \A k \in 0 .. BlockNumber - 1 :
       IF Pending(k) \/ data[k].large THEN IsFresh(k) ELSE IsReady(k)
  /\ Uncut({k \in Slots : k >= BlockNumber})
  /\ \A t \in tasks : /\ t[1] <= t[2] /\ t[2] < BlockNumber
                      /\ \A k \in t[1] .. t[2] : ~data[k].large
  /\ \A t, u \in tasks : t = u \/ t[2] < u[1] \/ u[2] < t[1]

AtProcess ==
  /\ InRound /\ AppliedFrom(data[block]) /\ block < BlockNumber
  /\ \A k \in block .. BlockNumber - 1 : IF data[k].large THEN IsFresh(k) ELSE IsReady(k)
  /\ Uncut({k \in Slots : k >= BlockNumber \/ k < block})

AtMore ==
  /\ AllRead /\ Uncut(Slots)
  /\ Done => ~Whole
  /\ \E j \in 2 .. Len(File) : NextAt(j)
  /\ NoDataLeft \/ BlockStart < DataSize

AtFinish ==
  /\ AppliedInOrder
  /\ Whole => /\ AppliedTo(archive, applied, n, Total(File))
              /\ data[LastBlockNum].tables = TablesOf(archive, <<n + 1, 0>>)

AtEnd ==
  /\ AppliedInOrder
  /\ Whole => AppliedTo(archive, applied, n, Total(File))

Inv ==
  /\ Types
  /\ pc # "call" => \A k \in Slots : data[k].large => LargeBlock
  /\ pc = "call" => AtCall
  /\ pc = "read" => AtRead
  /\ pc = "fill" => AtFill
  /\ pc = "add" => AtAdd
  /\ pc = "decode" => AtDecode
  /\ pc = "process" => AtProcess
  /\ pc = "more" => AtMore
  /\ pc = "finish" => AtFinish
  /\ pc = "end" => AtEnd

-----------------------------------------------------------------------------
(* How much is read.                                                       *)

(* Min is the least element.                                               *)
LEMMA MinIs ==
  ASSUME NEW S \in SUBSET Nat, S # {}
  PROVE  Min(S) \in S /\ \A y \in S : Min(S) <= y
<1>1. PICK i \in S : \A j \in S : i <= j
  BY HasLeast
<1> QED BY <1>1 DEF Min

(* Max with 0 cuts off what is negative.                                   *)
LEMMA MaxIs ==
  ASSUME NEW x \in Int
  PROVE  Max({x, 0}) = IF x > 0 THEN x ELSE 0
<1>1. CASE x > 0
  <2>1. x \in {x, 0} /\ \A y \in {x, 0} : x >= y
    BY <1>1
  <2>2. \A z \in {x, 0} : (\A y \in {x, 0} : z >= y) => z = x
    BY <1>1
  <2> QED BY <1>1, <2>1, <2>2 DEF Max
<1>2. CASE ~(x > 0)
  <2>1. 0 \in {x, 0} /\ \A y \in {x, 0} : 0 >= y
    BY <1>2
  <2>2. \A z \in {x, 0} : (\A y \in {x, 0} : z >= y) => z = 0
    BY <1>2
  <2> QED BY <1>2, <2>1, <2>2 DEF Max
<1> QED BY <1>1, <1>2

(* The last place a volume can end at is not behind the data.              *)
LEMMA MaxBelow ==
  ASSUME NEW x \in Nat
  PROVE  Max({x - 1, 0}) \in Nat /\ Max({x - 1, 0}) <= x
<1>1. x - 1 \in Int
  OBVIOUS
<1>2. CASE x - 1 > 0
  BY <1>1, <1>2, MaxIs
<1>3. CASE ~(x - 1 > 0)
  BY <1>1, <1>3, MaxIs
<1> QED BY <1>2, <1>3

(* Rounding down to a multiple.                                            *)
LEMMA Multiples ==
  ASSUME NEW x \in Nat, NEW y \in Nat \ {0}
  PROVE  /\ (x \div y) * y \in Nat /\ (x \div y) * y <= x
         /\ y <= x => (x \div y) * y > 0
<1>1. x \div y \in Int /\ x % y \in 0 .. y - 1
  OBVIOUS
<1>2. x = y * (x \div y) + (x % y)
  OBVIOUS
<1> DEFINE q == x \div y
           r == x % y
<1>3. x = y * q + r /\ r \in 0 .. y - 1 /\ q \in Int
  BY <1>1, <1>2
<1> HIDE DEF q, r
<1>a. q >= 0
  <2>1. q < 0 => y * q <= -y
    BY <1>3
  <2> QED BY <1>3, <2>1
<1>b. q * y = y * q /\ q * y \in Nat
  BY <1>3, <1>a
<1>4. q * y <= x
  BY <1>3, <1>b
<1>5. y <= x => q * y > 0
  BY <1>3, <1>b
<1> QED BY <1>b, <1>4, <1>5 DEF q

(* The constants.                                                          *)
LEMMA Sizes ==
  /\ Align \in Nat \ {0} /\ Reserve \in Nat /\ Reserve > 0 /\ UNP_READ_SIZE_MT \in Nat
  /\ TooSmallToProcess \in Nat /\ Reserve <= TooSmallToProcess
  /\ TooSmallToProcess + 2 * Align <= UNP_READ_SIZE_MT
  /\ LargeBlockSize \in Nat /\ MaxUserThreads \in 1 .. 8
<1>1. /\ Align \in Nat \ {0} /\ Reserve \in Nat \ {0} /\ UNP_READ_SIZE_MT \in Nat
      /\ TooSmallToProcess \in Reserve .. UNP_READ_SIZE_MT - 2 * Align
      /\ LargeBlockSize \in Nat /\ MaxUserThreads \in 1 .. 8
  BY UnpackAssumption DEF UnpackAssumption
<1> QED BY <1>1

(* A small rest leaves room for a read.                                    *)
LEMMA RoomToRead ==
  ASSUME NEW size \in Nat, size <= TooSmallToProcess
  PROVE  ((UNP_READ_SIZE_MT - size) \div Align) * Align > 0
<1>1. UNP_READ_SIZE_MT - size \in Nat /\ Align <= UNP_READ_SIZE_MT - size
  BY Sizes
<1> QED BY <1>1, Sizes, Multiples

(* A read does not go beyond the buffer or the data, finds nothing only at *)
(* the end of the data, and fails only there when a volume is missing      *)
(* (UnpRead).                                                              *)
LEMMA ReadSize ==
  ASSUME DataSize \in 0 .. UNP_READ_SIZE_MT, origin \in Nat, avail \in Nat,
         origin + DataSize <= avail, end \in 0 .. avail, lost \in BOOLEAN
  PROVE  /\ Request \in Nat /\ UnpRead \in Int
         /\ DataSize + UnpRead <= UNP_READ_SIZE_MT
         /\ origin + (DataSize + UnpRead) <= avail
         /\ UnpRead < 0 => lost /\ origin + DataSize = avail
         /\ UnpRead = 0 /\ Request > 0 => origin + DataSize = avail
<1>1. /\ Request \in Nat /\ DataSize + Request <= UNP_READ_SIZE_MT
      /\ Position \in Nat /\ Position <= avail /\ UNP_READ_SIZE_MT \in Nat
  <2>1. UNP_READ_SIZE_MT - DataSize \in Nat
    BY Sizes
  <2>2. Request \in Nat /\ Request <= UNP_READ_SIZE_MT - DataSize
    BY <2>1, Sizes, Multiples DEF Request
  <2> QED BY <2>2, Sizes DEF Position
<1>2. CASE Request = 0
  BY <1>1, <1>2 DEF UnpRead
<1>3. CASE Request # 0 /\ Position = avail
  BY <1>1, <1>3 DEF UnpRead, Position
<1>4. CASE Request # 0 /\ Position # avail
  <2> DEFINE S == {Request} \cup {e - Position : e \in {e \in {end, avail} : e > Position}}
  <2>1. S \in SUBSET Nat /\ Request \in S
    BY <1>1
  <2>2. avail - Position \in S
    BY <1>1, <1>4
  <2>3. \A y \in S : y > 0
    BY <1>1, <1>4
  <2>4. UnpRead = Min(S)
    BY <1>4 DEF UnpRead
  <2> HIDE DEF S
  <2>5. Min(S) \in S /\ Min(S) <= Request /\ Min(S) <= avail - Position
    BY <2>1, <2>2, MinIs
  <2>6. UnpRead \in Nat /\ UnpRead > 0 /\ UnpRead <= Request /\ UnpRead <= avail - Position
    BY <2>1, <2>3, <2>4, <2>5
  <2> QED BY <1>1, <2>6 DEF Position
<1> QED BY <1>2, <1>3, <1>4

-----------------------------------------------------------------------------
(* What decoding does to a slot.                                           *)

Same(d, e) ==
  /\ e.base = d.base /\ e.dataSize = d.dataSize /\ e.header = d.header
  /\ e.table = d.table /\ e.blockSize = d.blockSize /\ e.blockStart = d.blockStart
  /\ e.last = d.last /\ e.good = d.good /\ e.headerRead = d.headerRead
  /\ e.large = d.large /\ e.id = d.id

(* The fields of a slot have their types.                                  *)
LEMMA SlotTypes ==
  ASSUME NEW d \in SlotData
  PROVE  /\ d.base \in Nat /\ d.addr \in Nat /\ d.dataSize \in Nat /\ d.header \in Nat
         /\ d.table \in Nat /\ d.blockSize \in Nat /\ d.blockStart \in Nat
         /\ d.last \in BOOLEAN /\ d.good \in BOOLEAN /\ d.headerRead \in BOOLEAN
         /\ d.tableRead \in BOOLEAN /\ d.tables \in Nat \X Nat /\ d.damaged \in BOOLEAN
         /\ d.large \in BOOLEAN /\ d.incomplete \in BOOLEAN /\ d.id \in Nat \X Nat
         /\ d.decoded \in Pieces
  BY DEF SlotData

(* ReadTables takes the tables of the block, or keeps those the slot has.  *)
LEMMA WithTablesFields ==
  ASSUME NEW d \in SlotData
  PROVE  /\ WithTables(d) \in SlotData /\ Same(d, WithTables(d))
         /\ WithTables(d).tableRead = TRUE /\ WithTables(d).damaged = d.damaged
         /\ WithTables(d).incomplete = d.incomplete
         /\ IF d.tableRead = TRUE \/ d.table = 0
              THEN WithTables(d).addr = d.addr /\ WithTables(d).tables = d.tables
              ELSE WithTables(d).addr = d.addr + d.table /\ WithTables(d).tables = d.id
<1>1. d.table \in Nat /\ d.addr \in Nat /\ d.id \in Nat \X Nat /\ d.tableRead \in BOOLEAN
  BY SlotTypes
<1>2. CASE d.tableRead = TRUE \/ d.table = 0
  <2> DEFINE w == [d EXCEPT !.tableRead = TRUE]
  <2>1. WithTables(d) = w
    BY <1>2 DEF WithTables
  <2>2. w \in SlotData
    BY DEF SlotData
  <2>3. /\ Same(d, w) /\ w.tableRead = TRUE /\ w.damaged = d.damaged
        /\ w.incomplete = d.incomplete /\ w.addr = d.addr /\ w.tables = d.tables
    BY DEF Same, SlotData
  <2> HIDE DEF w
  <2> QED BY <1>2, <2>1, <2>2, <2>3
<1>3. CASE ~(d.tableRead = TRUE \/ d.table = 0)
  <2> DEFINE w == [d EXCEPT !.tableRead = TRUE, !.addr = d.addr + d.table, !.tables = d.id]
  <2>1. WithTables(d) = w
    <3>1. ~(d.tableRead \/ d.table = 0)
      BY <1>1, <1>3
    <3> QED BY <3>1 DEF WithTables, SlotData
  <2>2. w \in SlotData
    <3>1. \A p \in Nat, t \in Nat \X Nat :
            [d EXCEPT !.tableRead = TRUE, !.addr = p, !.tables = t] \in SlotData
      BY DEF SlotData
    <3>2. d.addr + d.table \in Nat
      BY <1>1
    <3> QED BY <1>1, <3>1, <3>2
  <2>3. /\ Same(d, w) /\ w.tableRead = TRUE /\ w.damaged = d.damaged
        /\ w.incomplete = d.incomplete /\ w.addr = d.addr + d.table /\ w.tables = d.id
    BY DEF Same, SlotData
  <2> HIDE DEF w
  <2> QED BY <1>3, <2>1, <2>2, <2>3
<1> QED BY <1>2, <1>3

(* A slot that is found damaged is otherwise as it was.                    *)
LEMMA DamagedFields ==
  ASSUME NEW d \in SlotData
  PROVE  \E e \in SlotData :
           /\ e = [d EXCEPT !.tableRead = TRUE, !.damaged = TRUE]
           /\ Same(d, e) /\ e.damaged = TRUE /\ e.incomplete = d.incomplete
           /\ e.addr = d.addr
<1> DEFINE e == [d EXCEPT !.tableRead = TRUE, !.damaged = TRUE]
<1>1. e \in SlotData
  BY DEF SlotData
<1>2. Same(d, e) /\ e.damaged = TRUE /\ e.incomplete = d.incomplete /\ e.addr = d.addr
  BY DEF Same, SlotData
<1> HIDE DEF e
<1>3. e = [d EXCEPT !.tableRead = TRUE, !.damaged = TRUE]
  BY DEF e
<1> QED BY <1>1, <1>2, <1>3

StoppedAt(w, p, cut, piece) ==
  [w EXCEPT !.addr = p, !.incomplete = cut, !.decoded = piece]

(* Decoding changes where a slot is, and what it has decoded.              *)
LEMMA StoppedFields ==
  ASSUME NEW w \in SlotData, NEW p \in Nat, NEW cut \in BOOLEAN, NEW piece \in Pieces
  PROVE  /\ StoppedAt(w, p, cut, piece) \in SlotData
         /\ Same(w, StoppedAt(w, p, cut, piece))
         /\ StoppedAt(w, p, cut, piece).damaged = w.damaged
         /\ StoppedAt(w, p, cut, piece).incomplete = cut
         /\ StoppedAt(w, p, cut, piece).addr = p
         /\ StoppedAt(w, p, cut, piece).decoded = piece
         /\ StoppedAt(w, p, cut, piece).tableRead = w.tableRead
         /\ StoppedAt(w, p, cut, piece).tables = w.tables
<1>1. StoppedAt(w, p, cut, piece) \in SlotData
  BY DEF SlotData, StoppedAt
<1> QED BY <1>1 DEF Same, SlotData, StoppedAt

(* It holds the same block.                                                *)
LEMMA SameHeld ==
  ASSUME NEW d, NEW e, Same(d, e)
  PROVE  /\ \A a, m, o : Holds(a, m, o, d) => Holds(a, m, o, e)
         /\ \A a, m, o, size, noData :
              Held(a, m, o, size, noData, d) => Held(a, m, o, size, noData, e)
         /\ \A size, f : /\ Follows(size, d, f) => Follows(size, e, f)
                         /\ Follows(size, f, d) => Follows(size, f, e)
         /\ \A a, o : From(a, o, e) = From(a, o, d)
<1>1. IsRest(e) <=> IsRest(d)
  BY DEF Same, IsRest
<1>2. ASSUME NEW a, NEW m, NEW o, Holds(a, m, o, d) PROVE Holds(a, m, o, e)
  BY <1>1, <1>2 DEF Holds, Same
<1>3. ASSUME NEW a, NEW m, NEW o, NEW size, NEW noData, Held(a, m, o, size, noData, d)
      PROVE  Held(a, m, o, size, noData, e)
  BY <1>1, <1>2, <1>3 DEF Held, Same
<1>4. \A size, f : /\ Follows(size, d, f) => Follows(size, e, f)
                   /\ Follows(size, f, d) => Follows(size, f, e)
  BY <1>1 DEF Follows, Same
<1>5. \A a, o : From(a, o, e) = From(a, o, d)
  BY <1>1 DEF From, Same
<1> QED BY <1>2, <1>3, <1>4, <1>5

(* Where a fresh block is decoded from.                                    *)
LEMMA FreshStart ==
  ASSUME NEW a \in Archives, NEW m \in 1 .. Len(a), NEW o \in Nat, NEW d \in SlotData,
         Holds(a, m, o, d), Fresh(a, d)
  PROVE  /\ d.id = <<m, d.id[2]>> /\ d.id[2] \in 1 .. Len(a[m])
         /\ BodyStart(a, d.id) \in Nat /\ BodyEnd(a, d.id) \in Nat
         /\ BodyStart(a, d.id) <= BodyEnd(a, d.id) /\ BodyEnd(a, d.id) <= Total(a[m])
         /\ From(a, o, d) \in Nat
         /\ BodyStart(a, d.id) <= From(a, o, d) /\ From(a, o, d) <= BodyEnd(a, d.id)
         /\ d.blockStart + d.table < TooSmallToProcess
         /\ IF d.tableRead = TRUE
              THEN /\ IsRest(d) /\ d.base = 0 /\ From(a, o, d) = o + d.base + d.addr
              ELSE /\ ~IsRest(d) /\ From(a, o, d) = o + d.base + (d.addr + d.table)
         /\ d.tableRead = TRUE \/ d.table = 0 => d.tables = TablesOf(a, d.id)
         /\ d.tableRead = FALSE /\ d.table > 0 => d.id = TablesOf(a, d.id)
<1> DEFINE i == d.id[2]
<1>1. /\ d.base \in Nat /\ d.addr \in Nat /\ d.table \in Nat /\ d.blockStart \in Nat
      /\ d.blockSize \in Nat /\ d.tableRead \in BOOLEAN /\ d.id \in Nat \X Nat
  BY SlotTypes
<1>2. /\ d.id[1] = m /\ i \in 1 .. Len(a[m]) /\ d.table = a[m][i].table
      /\ o + d.base + d.blockStart + d.blockSize = BodyEnd(a, d.id)
      /\ IF IsRest(d)
           THEN d.base = 0 /\ BodyStart(a, d.id) <= o /\ o < BodyEnd(a, d.id)
           ELSE o + d.base = Start(a[m], i) /\ d.blockStart = a[m][i].header
  BY DEF Holds
<1>3. d.id = <<m, i>>
  BY <1>1, <1>2
<1>4. /\ BodyStart(a, d.id) \in Nat /\ BodyEnd(a, d.id) \in Nat
      /\ BodyStart(a, d.id) = Start(a[m], i) + a[m][i].header + a[m][i].table
      /\ BodyStart(a, d.id) <= BodyEnd(a, d.id) /\ BodyEnd(a, d.id) <= Total(a[m])
      /\ Start(a[m], i) \in Nat
  BY <1>2, <1>3, Places
<1>5. /\ a[m][i].header \in Nat /\ a[m][i].table \in Nat
      /\ a[m][i].header + a[m][i].table < TooSmallToProcess
  BY <1>2, BlockFacts
<1>6. /\ d.addr = d.blockStart /\ d.tableRead = IsRest(d)
      /\ IsRest(d) \/ d.table = 0 => d.tables = TablesOf(a, d.id)
  BY DEF Fresh
<1>7. TooSmallToProcess \in Nat
  BY Sizes
<1> HIDE DEF i
<1>8. CASE IsRest(d)
  <2>1. d.blockStart = 0 /\ d.tableRead = TRUE /\ From(a, o, d) = o
    BY <1>6, <1>8 DEF IsRest, From
  <2>2. d.table < TooSmallToProcess
    BY <1>1, <1>2, <1>5, <1>7
  <2>3. BodyStart(a, d.id) <= o /\ o <= BodyEnd(a, d.id) /\ d.base = 0
    BY <1>2, <1>4, <1>8
  <2>4. o = o + d.base + d.addr
    BY <1>6, <2>1, <2>3
  <2> QED BY <1>1, <1>2, <1>3, <1>4, <1>6, <1>8, <2>1, <2>2, <2>3, <2>4 DEF i
<1>9. CASE ~IsRest(d)
  <2>1. d.tableRead = FALSE /\ From(a, o, d) = BodyStart(a, d.id)
    BY <1>1, <1>6, <1>9 DEF From
  <2>2. d.blockStart + d.table < TooSmallToProcess
    BY <1>2, <1>5, <1>9
  <2>3. BodyStart(a, d.id) = o + d.base + (d.addr + d.table)
    BY <1>1, <1>2, <1>4, <1>5, <1>6, <1>9
  <2>4. d.table > 0 => TablesOf(a, <<m, i>>) = <<m, i>>
    BY <1>2, OwnTables
  <2>5. (d.tableRead = TRUE \/ d.table = 0) => d.tables = TablesOf(a, d.id)
    BY <1>6, <2>1
  <2> QED BY <1>2, <1>3, <1>4, <1>9, <2>1, <2>2, <2>3, <2>4, <2>5 DEF i
<1> QED BY <1>8, <1>9

(* A fresh block that is decoded is ready, or the file is not whole.       *)
LEMMA DecodedIsReady ==
  ASSUME archive \in Archives, n \in 1 .. Len(archive), origin \in Nat, DataSize \in Nat,
         DataSize > 0, DataSize <= UNP_READ_SIZE_MT, avail \in Nat, NoDataLeft \in BOOLEAN,
         AllRead, NEW d \in SlotData,
         Held(archive, n, origin, DataSize, NoDataLeft, d), Fresh(archive, d),
         NEW e \in Decoded(d)
  PROVE  /\ e \in SlotData /\ Same(d, e)
         /\ Ready(archive, origin, DataSize, NoDataLeft, Whole, e)
         /\ e.base + e.addr <= UNP_READ_SIZE_MT + Reserve
<1>1. /\ d.base \in Nat /\ d.addr \in Nat /\ d.table \in Nat /\ d.blockStart \in Nat
      /\ d.blockSize \in Nat /\ d.dataSize \in Nat /\ d.id \in Nat \X Nat
      /\ d.tableRead \in BOOLEAN /\ d.good \in BOOLEAN
  BY SlotTypes
<1>2. /\ Holds(archive, n, origin, d) /\ d.base + d.dataSize = DataSize
      /\ d.blockStart <= d.dataSize
      /\ NoDataLeft \/ IsRest(d) \/ TooSmallToProcess <= d.dataSize
  BY DEF Held
<1>3. /\ d.id = <<n, d.id[2]>> /\ d.id[2] \in 1 .. Len(archive[n])
      /\ BodyStart(archive, d.id) \in Nat /\ BodyEnd(archive, d.id) \in Nat
      /\ BodyEnd(archive, d.id) <= Total(archive[n])
      /\ From(archive, origin, d) \in Nat
      /\ From(archive, origin, d) <= BodyEnd(archive, d.id)
      /\ d.blockStart + d.table < TooSmallToProcess
      /\ IF d.tableRead = TRUE
           THEN /\ IsRest(d) /\ d.base = 0
                /\ From(archive, origin, d) = origin + d.base + d.addr
           ELSE /\ ~IsRest(d)
                /\ From(archive, origin, d) = origin + d.base + (d.addr + d.table)
      /\ d.tableRead = TRUE \/ d.table = 0 => d.tables = TablesOf(archive, d.id)
      /\ d.tableRead = FALSE /\ d.table > 0 => d.id = TablesOf(archive, d.id)
  BY <1>2, FreshStart
<1>4. /\ d.addr = d.blockStart /\ d.damaged = FALSE /\ d.incomplete = FALSE
  BY DEF Fresh
<1>5. /\ origin + d.base + d.blockStart + d.blockSize = BodyEnd(archive, d.id)
      /\ d.good = archive[n][d.id[2]].good
  BY <1>2 DEF Holds
<1>6. Total(archive[n]) \in Nat
  BY <1>3, Places
<1>7. NoDataLeft => origin + DataSize = avail
  BY DEF AllRead
<1> DEFINE Bad == d.tableRead = FALSE /\ d.table > 0
                  /\ (d.good = FALSE \/ d.addr + d.table > d.dataSize)
<1>8. CASE Bad
  <2>1. e = [d EXCEPT !.tableRead = TRUE, !.damaged = TRUE]
    <3>1. ~d.tableRead /\ d.table > 0 /\ (~d.good \/ d.addr + d.table > d.dataSize)
      BY <1>1, <1>8
    <3> QED BY <3>1 DEF Decoded
  <2>2. /\ e \in SlotData /\ Same(d, e) /\ e.damaged = TRUE /\ e.incomplete = FALSE
        /\ e.addr = d.addr
    BY <1>4, <2>1, DamagedFields
  <2>3. ~Whole
    <3>1. CASE d.good = FALSE
      BY <1>3, <1>5, <3>1 DEF Whole, Faultless
    <3>2. CASE d.addr + d.table > d.dataSize
      <4>1. NoDataLeft
        <5>1. ~IsRest(d)
          BY <1>3, <1>8
        <5>2. ~(TooSmallToProcess <= d.dataSize)
          BY <1>1, <1>3, <1>4, <3>2, Sizes
        <5> QED BY <1>2, <5>1, <5>2
      <4>2. From(archive, origin, d) = origin + d.base + (d.addr + d.table)
        BY <1>3, <1>8
      <4>3. origin + DataSize < From(archive, origin, d)
        BY <1>1, <1>2, <3>2, <4>2
      <4>4. avail < Total(archive[n])
        BY <1>3, <1>6, <1>7, <4>1, <4>3
      <4> QED BY <1>6, <4>4 DEF Whole, File
    <3> QED BY <1>8, <3>1, <3>2
  <2>4. IsRest(e) <=> IsRest(d)
    BY <2>2 DEF Same, IsRest
  <2>5. ~IsRest(e)
    BY <1>3, <1>8, <2>4
  <2>6. e.base + e.addr <= UNP_READ_SIZE_MT + Reserve
    <3>1. e.base = d.base /\ e.addr = d.addr
      BY <2>2 DEF Same
    <3>2. d.base + d.addr <= DataSize
      BY <1>1, <1>2, <1>4
    <3> QED BY <1>1, <3>1, <3>2, Sizes
  <2> QED BY <2>2, <2>3, <2>5, <2>6 DEF Ready
<1>9. CASE ~Bad
  <2> DEFINE w == WithTables(d)
  <2>1. /\ w \in SlotData /\ Same(d, w)
        /\ w.tableRead = TRUE /\ w.damaged = d.damaged /\ w.incomplete = d.incomplete
        /\ IF d.tableRead = TRUE \/ d.table = 0
             THEN w.addr = d.addr /\ w.tables = d.tables
             ELSE w.addr = d.addr + d.table /\ w.tables = d.id
    BY WithTablesFields
  <2> DEFINE border == w.blockStart + w.blockSize
             from == origin + w.base + w.addr
             start == From(archive, origin, d)
  <2>a. ASSUME ~(w.addr > border)
        PROVE  \E p \in Stops(w) :
          e = [w EXCEPT !.addr = p, !.incomplete = (p < border),
                 !.decoded = [id |-> w.id, from |-> from, to |-> origin + w.base + p,
                              tables |-> w.tables]]
    <3>1. ~(~d.tableRead /\ d.table > 0 /\ (~d.good \/ d.addr + d.table > d.dataSize))
      BY <1>1, <1>9
    <3> HIDE DEF Bad
    <3> QED BY <2>a, <3>1 DEF Decoded
  <2> HIDE DEF w
  <2>2. /\ w.base = d.base /\ w.blockStart = d.blockStart /\ w.blockSize = d.blockSize
        /\ w.dataSize = d.dataSize /\ w.id = d.id
    BY <2>1 DEF Same
  <2>3. w.addr \in Nat
    BY <2>1, SlotTypes
  <2>4. w.tables = TablesOf(archive, d.id)
    BY <1>1, <1>3, <2>1
  <2>5. from = start
    BY <1>1, <1>3, <2>1, <2>2
  <2>6. border \in Nat /\ w.addr <= border /\ origin + d.base + border = BodyEnd(archive, d.id)
    <3>1. border = d.blockStart + d.blockSize
      BY <2>2
    <3>2. border \in Nat /\ origin + d.base + border = BodyEnd(archive, d.id)
      BY <1>1, <1>5, <3>1
    <3>3. origin + d.base + w.addr <= origin + d.base + border
      BY <1>3, <2>2, <2>5, <3>2
    <3> HIDE DEF border
    <3>4. w.addr <= border
      BY <1>1, <2>3, <3>2, <3>3
    <3> QED BY <3>2, <3>4
  <2>7. PICK p \in Stops(w) :
          e = [w EXCEPT !.addr = p, !.incomplete = (p < border),
                 !.decoded = [id |-> w.id, from |-> from, to |-> origin + w.base + p,
                              tables |-> w.tables]]
    <3>1. ~(w.addr > border)
      BY <2>3, <2>6
    <3> QED BY <2>a, <3>1
  <2> DEFINE limit == IF NoDataLeft THEN w.dataSize ELSE w.dataSize - Reserve
  <2>8. /\ p \in w.addr .. border /\ (p < border => p >= limit)
        /\ p = w.addr \/ \E q \in w.addr .. p - 1 : q < limit /\ p - q <= Reserve
    BY DEF Stops
  <2>9. p \in Nat /\ w.addr <= p /\ p <= border
    BY <2>3, <2>6, <2>8
  <2> DEFINE piece == [id |-> w.id, from |-> from, to |-> origin + w.base + p,
                       tables |-> w.tables]
             cut == p < border
  <2>10. piece \in Pieces /\ cut \in BOOLEAN
    <3>1. w.tables \in Nat \X Nat /\ w.id \in Nat \X Nat /\ w.base \in Nat
      BY <2>1, SlotTypes
    <3>2. from \in Nat /\ origin + w.base + p \in Nat
      BY <2>3, <2>9, <3>1
    <3> QED BY <3>1, <3>2 DEF Pieces
  <2>11. /\ e \in SlotData /\ Same(w, e) /\ e.damaged = w.damaged
         /\ e.incomplete = cut /\ e.addr = p /\ e.decoded = piece
         /\ e.tableRead = w.tableRead /\ e.tables = w.tables
    <3>1. e = StoppedAt(w, p, cut, piece)
      BY <2>7 DEF StoppedAt
    <3> HIDE DEF piece, cut
    <3> QED BY <2>1, <2>9, <2>10, <3>1, StoppedFields
  <2>12. Same(d, e) /\ IsRest(e) = IsRest(d) /\ From(archive, origin, e) = start
    <3>1. Same(d, e)
      BY <2>1, <2>11 DEF Same
    <3> QED BY <3>1, SameHeld DEF IsRest, Same
  <2>13. /\ e.base = d.base /\ e.blockStart = d.blockStart
         /\ e.blockSize = d.blockSize /\ e.id = d.id
    BY <2>12 DEF Same
  <2>14. cut => DataSize <= d.base + p + Reserve
    BY <1>1, <1>2, <2>2, <2>8, <2>9, Sizes
  <2>15. NoDataLeft \/ d.base + p < DataSize
    <3> SUFFICES ASSUME ~NoDataLeft PROVE d.base + p < DataSize
      OBVIOUS
    <3>1. limit = d.dataSize - Reserve
      BY <2>2
    <3>2. CASE p = w.addr
      <4>1. CASE d.tableRead = TRUE
        <5>1. d.addr = 0 /\ d.base = 0
          BY <1>3, <1>4, <4>1 DEF IsRest
        <5>2. p = 0
          BY <2>1, <3>2, <4>1, <5>1
        <5> QED BY <5>1, <5>2
      <4>2. CASE d.tableRead # TRUE
        <5>1. TooSmallToProcess <= d.dataSize
          BY <1>2, <1>3, <4>2
        <5>2. p <= d.blockStart + d.table
          BY <1>1, <1>4, <2>1, <3>2
        <5>3. p < TooSmallToProcess
          BY <1>1, <1>3, <2>9, <5>2, Sizes
        <5>4. p < d.dataSize
          BY <1>1, <2>9, <5>1, <5>3, Sizes
        <5> QED BY <1>1, <1>2, <2>9, <5>4
      <4> QED BY <4>1, <4>2
    <3>3. CASE p # w.addr
      <4>1. PICK q \in w.addr .. p - 1 : q < limit /\ p - q <= Reserve
        BY <2>8, <3>3
      <4> QED BY <1>1, <1>2, <2>3, <2>9, <3>1, <4>1, Sizes
    <3> QED BY <3>2, <3>3
  <2>16. d.base + p <= DataSize + Reserve
    <3>1. CASE p = w.addr
      <4>1. p <= d.dataSize
        BY <1>1, <1>2, <1>4, <1>9, <2>1, <3>1
      <4> QED BY <1>1, <1>2, <2>9, <4>1, Sizes
    <3>2. CASE p # w.addr
      <4>1. PICK q \in w.addr .. p - 1 : q < limit /\ p - q <= Reserve
        BY <2>8, <3>2
      <4>2. limit <= d.dataSize
        BY <1>1, <2>2, Sizes
      <4> QED BY <1>1, <1>2, <2>2, <2>3, <2>9, <4>1, <4>2, Sizes
    <3> QED BY <3>1, <3>2
  <2>17. start <= origin + d.base + p
    BY <1>1, <2>2, <2>3, <2>5, <2>9
  <2>18. e.addr <= e.blockStart + e.blockSize
    BY <2>2, <2>9, <2>11, <2>13
  <2>19. e.incomplete = (e.addr < e.blockStart + e.blockSize)
    BY <2>2, <2>11, <2>13
  <2>20. e.decoded = [id |-> e.id, from |-> start, to |-> origin + e.base + e.addr,
                      tables |-> TablesOf(archive, e.id)]
    BY <2>2, <2>4, <2>5, <2>11, <2>13
  <2>21. /\ e.damaged = FALSE /\ e.tableRead = TRUE /\ e.tables = TablesOf(archive, e.id)
         /\ start <= origin + e.base + e.addr
         /\ e.incomplete => DataSize <= e.base + e.addr + Reserve
         /\ NoDataLeft \/ e.base + e.addr < DataSize
    BY <1>4, <2>1, <2>4, <2>11, <2>13, <2>14, <2>15, <2>17
  <2>22. e.base + e.addr <= UNP_READ_SIZE_MT + Reserve
    BY <1>1, <2>9, <2>11, <2>13, <2>16, Sizes
  <2> HIDE DEF start
  <2> QED BY <2>11, <2>12, <2>18, <2>19, <2>20, <2>21, <2>22 DEF Ready
<1> HIDE DEF Bad
<1> QED BY <1>8, <1>9

-----------------------------------------------------------------------------
(* The steps.                                                              *)

(* The slots are the numbers below twice the number of threads.            *)
LEMMA SlotNumbers ==
  /\ Slots \subseteq Nat /\ 0 \in Slots /\ IsFiniteSet(Slots)
  /\ Cardinality(Slots) = 2 * MaxUserThreads /\ Cardinality(Slots) \in Nat
  /\ \A k \in Nat : k \in Slots <=> k < Cardinality(Slots)
<1>1. MaxUserThreads \in Nat /\ MaxUserThreads > 0
  BY Sizes
<1>2. Slots = 0 .. 2 * MaxUserThreads - 1
  BY <1>1 DEF Slots, UNP_BLOCKS_PER_THREAD
<1> DEFINE top == 2 * MaxUserThreads - 1
<1>3. top \in Int /\ 0 <= top
  BY <1>1
<1>4. IsFiniteSet(0 .. top) /\ Cardinality(0 .. top) = top - 0 + 1
  <2> HIDE DEF top
  <2> QED BY <1>3, FS_Interval
<1>5. Cardinality(Slots) = 2 * MaxUserThreads
  BY <1>1, <1>2, <1>4
<1>6. 0 \in Slots /\ Slots \subseteq Nat
  BY <1>1, <1>2
<1>7. \A k \in Nat : k \in Slots <=> k < 2 * MaxUserThreads
  BY <1>1, <1>2
<1> QED BY <1>1, <1>2, <1>4, <1>5, <1>6, <1>7

(* Before the first file the invariant holds.                              *)
LEMMA InitInv == Init => Inv
<1> SUFFICES ASSUME Init PROVE Inv
  OBVIOUS
<1>0. /\ archive \in Archives /\ n = 0 /\ avail = 0 /\ end = 0 /\ lost = FALSE
      /\ origin = 0 /\ DataSize = 0 /\ BlockStart = 0
      /\ BlockNumber = 0 /\ NoDataLeft = FALSE /\ LargeBlock = FALSE /\ LastBlockNum = 0
      /\ Done = FALSE /\ tasks = {} /\ block = 0 /\ over = FALSE /\ applied = <<>>
      /\ pc = "call"
  BY DEF Init
<1>1. Blank \in SlotData
  BY DEF Blank, SlotData, Pieces, Nothing, NoId
<1>2. data \in [Slots -> SlotData] /\ \A k \in Slots : data[k] = Blank
  BY <1>1 DEF Init
<1>3. NoId \in Nat \X Nat
  BY DEF NoId
<1>4. \A k \in Slots : data[k].base + data[k].addr <= UNP_READ_SIZE_MT + Reserve
  BY <1>2, Sizes DEF Blank
<1>5. Cardinality(tasks) = 0 /\ IsFiniteSet(tasks)
  BY FS_EmptySet DEF Init
<1>6. archive \in Archives /\ Len(archive) \in Nat
  BY UnpackAssumption DEF Init, UnpackAssumption
<1>7. TypeOK
  <2>1. n \in 0 .. Len(archive) /\ BlockNumber \in 0 .. Cardinality(Slots)
    BY <1>0, <1>6, SlotNumbers
  <2>2. Cardinality(tasks) <= MaxUserThreads /\ DataSize \in 0 .. UNP_READ_SIZE_MT
    BY <1>0, <1>5, Sizes
  <2>3. origin + DataSize <= avail /\ LastBlockNum \in Slots
    BY <1>0, SlotNumbers
  <2> QED BY <1>0, <1>4, <2>1, <2>2, <2>3 DEF TypeOK
<1>8. Types
  BY <1>0, <1>2, <1>3, <1>5, <1>7 DEF Init, Types
<1>9. AtCall
  BY <1>6, PassNone DEF Init, AtCall
<1> QED BY <1>8, <1>9 DEF Init, Inv

(* What holds in every state.                                              *)
LEMMA Always ==
  ASSUME Types
  PROVE  /\ archive \in Archives /\ n \in Nat /\ n <= Len(archive) /\ Len(archive) \in Nat
         /\ avail \in Nat /\ end \in 0 .. avail /\ lost \in BOOLEAN
         /\ origin \in Nat /\ DataSize \in Nat /\ DataSize <= UNP_READ_SIZE_MT
         /\ origin + DataSize <= avail /\ BlockStart \in Nat
         /\ BlockNumber \in Nat /\ BlockNumber <= Cardinality(Slots)
         /\ LastBlockNum \in Slots /\ NoDataLeft \in BOOLEAN /\ LargeBlock \in BOOLEAN
         /\ Done \in BOOLEAN /\ over \in BOOLEAN /\ block \in Nat
         /\ data \in [Slots -> SlotData] /\ tables \in Nat \X Nat
         /\ applied \in Seq(Pieces)
         /\ tasks \subseteq Nat \X Nat /\ IsFiniteSet(tasks)
         /\ Cardinality(tasks) <= MaxUserThreads
         /\ \A k \in Slots : data[k].base + data[k].addr <= UNP_READ_SIZE_MT + Reserve
<1>1. archive \in Archives /\ n \in 0 .. Len(archive) /\ DataSize \in 0 .. UNP_READ_SIZE_MT
      /\ BlockNumber \in 0 .. Cardinality(Slots)
  BY DEF Types, TypeOK
<1>2. Len(archive) \in Nat
  BY <1>1, UnpackAssumption DEF UnpackAssumption
<1>3. n \in Nat /\ n <= Len(archive)
  BY <1>1, <1>2
<1>4. DataSize \in Nat /\ DataSize <= UNP_READ_SIZE_MT
  BY <1>1, Sizes
<1>5. BlockNumber \in Nat /\ BlockNumber <= Cardinality(Slots)
  BY <1>1, SlotNumbers
<1> QED BY <1>1, <1>2, <1>3, <1>4, <1>5 DEF Types, TypeOK

(* A file is begun: with nothing read, it is at its first block, and the   *)
(* first slot has the tables the last file has left.                       *)
LEMMA CallStep ==
  ASSUME Inv, Call
  PROVE  Inv'
<1>1. Types /\ AtCall /\ pc = "call"
  BY DEF Inv, Call
<1>0. /\ n < Len(archive) /\ n' = n + 1 /\ avail' \in 0 .. Total(archive[n'])
      /\ lost' \in BOOLEAN /\ (lost' => avail' < Total(archive[n']))
      /\ end' \in 0 .. Max({avail' - 1, 0})
      /\ origin' = 0 /\ DataSize' = 0 /\ BlockStart' = 0
      /\ LargeBlock' = FALSE /\ LastBlockNum' = 0 /\ Done' = FALSE /\ pc' = "read"
      /\ archive' = archive /\ BlockNumber' = BlockNumber /\ NoDataLeft' = NoDataLeft
      /\ tasks' = tasks /\ block' = block /\ tables' = tables /\ over' = over
      /\ applied' = applied
  BY DEF Call
<1>2. /\ archive \in Archives /\ n' \in 1 .. Len(archive) /\ n' = n + 1 /\ n \in Nat
      /\ Len(archive) \in Nat
  BY <1>0, <1>1, Always
<1>3. /\ Len(archive[n']) \in Nat /\ Len(archive[n']) > 0 /\ Total(archive[n']) \in Nat
      /\ archive[n'] \in Seq(Block)
  <2>1. archive[n'] \in Seq(Block) /\ Len(archive[n']) \in Nat /\ Len(archive[n']) > 0
    BY <1>2, FileFacts
  <2>2. 1 \in 1 .. Len(archive[n'])
    BY <2>1
  <2> QED BY <1>2, <2>1, <2>2, Places
<1>4. /\ archive' = archive /\ File' = archive[n'] /\ lost' \in BOOLEAN
      /\ avail' \in Nat /\ (lost' => avail' < Total(archive[n']))
  BY <1>0, <1>3 DEF File
<1>5. end' \in 0 .. avail'
  <2>1. \A x \in Nat : Max({x - 1, 0}) \in Nat /\ Max({x - 1, 0}) <= x
    BY MaxBelow
  <2>2. Max({avail' - 1, 0}) \in Nat /\ Max({avail' - 1, 0}) <= avail'
    BY <1>4, <2>1
  <2> QED BY <1>0, <1>4, <2>2
<1>6. /\ data' \in [Slots -> SlotData]
      /\ \A k \in Slots : /\ data'[k].large = FALSE /\ data'[k].incomplete = FALSE
                          /\ data'[k].base = data[k].base /\ data'[k].addr = data[k].addr
      /\ data'[0].tables = tables
  <2>1. data \in [Slots -> SlotData] /\ tables \in Nat \X Nat
    BY <1>1, Always
  <2>2. data' = [k \in Slots |-> [data[k] EXCEPT
                   !.large = FALSE, !.incomplete = FALSE,
                   !.tables = IF k = 0 THEN tables ELSE @]]
    BY DEF Call
  <2>3. ASSUME NEW k \in Slots
        PROVE  /\ data'[k] \in SlotData
               /\ data'[k].large = FALSE /\ data'[k].incomplete = FALSE
               /\ data'[k].base = data[k].base /\ data'[k].addr = data[k].addr
               /\ k = 0 => data'[k].tables = tables
    <3>1. data[k] \in SlotData
      BY <2>1
    <3>2. CASE k = 0
      <4>1. data'[k] = [data[k] EXCEPT !.large = FALSE, !.incomplete = FALSE, !.tables = tables]
        BY <2>2, <3>2
      <4> QED BY <2>1, <3>1, <3>2, <4>1 DEF SlotData
    <3>3. CASE k # 0
      <4>1. data'[k] = [data[k] EXCEPT !.large = FALSE, !.incomplete = FALSE, !.tables = @]
        BY <2>2, <3>3
      <4> QED BY <3>1, <3>3, <4>1 DEF SlotData
    <3> QED BY <3>2, <3>3
  <2>4. DOMAIN data' = Slots /\ data' = [k \in Slots |-> data'[k]]
    BY <2>2
  <2> QED BY <2>3, <2>4, SlotNumbers
<1>7. Request' > 0
  BY <1>0, RoomToRead, Sizes DEF Request
<1>8. TypeOK'
  <2>1. n' \in 0 .. Len(archive') /\ BlockNumber' \in 0 .. Cardinality(Slots)
    BY <1>0, <1>1, <1>2, Always, SlotNumbers
  <2>2. Cardinality(tasks') <= MaxUserThreads /\ DataSize' \in 0 .. UNP_READ_SIZE_MT
    BY <1>0, <1>1, Always, Sizes
  <2>3. origin' + DataSize' <= avail' /\ LastBlockNum' \in Slots
    BY <1>0, <1>4, SlotNumbers
  <2>4. NoDataLeft' \in BOOLEAN /\ over' \in BOOLEAN
    BY <1>0, <1>1, Always
  <2>5. \A k \in Slots : data'[k].base + data'[k].addr <= UNP_READ_SIZE_MT + Reserve
    BY <1>1, <1>6, Always
  <2> QED BY <1>0, <1>2, <1>7, <2>1, <2>2, <2>3, <2>4, <2>5 DEF TypeOK
<1>9. Types'
  BY <1>1, <1>2, <1>4, <1>5, <1>6, <1>8, <1>0, Always DEF Types
<1>10. AtRead'
  <2>1. AppliedTo(archive, applied, n', 0)
    BY <1>1, <1>2 DEF AtCall
  <2>2. Start(archive[n'], 1) = 0
    BY <1>3, StartNext
  <2>3. n' = 1 \/ data'[0].tables = TablesOf(archive, <<n', 0>>)
    BY <1>1, <1>2, <1>6 DEF AtCall
  <2>4. origin' = 0 /\ BlockStart' = 0 /\ applied' = applied /\ Done' = FALSE
    BY DEF Call
  <2>5. 1 \in 1 .. Len(File')
    BY <1>3, <1>4
  <2>6. NextAt(1)'
    BY <1>4, <2>1, <2>2, <2>3, <2>4 DEF NextAt
  <2>7. ~data'[0].incomplete
    BY <1>6, SlotNumbers
  <2>8. Waiting'
    BY <2>5, <2>6, <2>7 DEF Waiting
  <2> QED BY <1>6, <2>4, <2>8 DEF AtRead, Uncut
<1>11. pc' = "read"
  BY DEF Call
<1> QED BY <1>6, <1>9, <1>10, <1>11 DEF Inv

(* What is applied up to a position is in order after the step.            *)
LEMMA InOrderNext ==
  ASSUME archive' \in Archives, n' \in 1 .. Len(archive'), NEW pos \in Nat,
         AppliedTo(archive', applied', n', pos)
  PROVE  AppliedInOrder'
<1> DEFINE s == applied'
           L == IF Damaged' THEN Len(s) - 1 ELSE Len(s)
<1>1. \A k \in 1 .. Len(s) : InOrder(archive', s, n', k)
  BY AppliedToInOrder
<1>2. Len(s) \in Nat
  BY PartsFinite DEF AppliedTo
<1>3. \A k \in 1 .. L : k \in 1 .. Len(s)
  BY <1>2
<1>4. \A k \in 1 .. L : InOrder(archive', s, n', k)
  BY <1>1, <1>3
<1> QED BY <1>4 DEF AppliedInOrder, InOrder, PriorIn

(* Between two rounds, or at the end of one, there is more of the file.    *)
LEMMA NextFacts ==
  ASSUME archive \in Archives, n \in 1 .. Len(archive), NEW j \in 1 .. Len(File), NextAt(j)
  PROVE  /\ AppliedTo(archive, applied, n, origin + BlockStart)
         /\ origin + BlockStart < Total(File) /\ Total(File) \in Nat
         /\ origin + BlockStart \in Nat
<1>1. /\ Start(archive[n], j) \in Nat /\ Total(archive[n]) \in Nat
      /\ Start(archive[n], j) < BodyStart(archive, <<n, j>>)
      /\ BodyStart(archive, <<n, j>>) <= BodyEnd(archive, <<n, j>>)
      /\ BodyEnd(archive, <<n, j>>) <= Total(archive[n])
      /\ BodyStart(archive, <<n, j>>) \in Nat /\ BodyEnd(archive, <<n, j>>) \in Nat
  BY Places DEF File
<1>2. Start(archive[n], j) < Total(archive[n])
  BY <1>1
<1> QED BY <1>1, <1>2 DEF NextAt, File

(* If the rest of a block is waiting, the file is applied up to it and not *)
(* to its end.                                                             *)
LEMMA RestFacts ==
  ASSUME archive \in Archives, n \in 1 .. Len(archive), origin \in Nat,
         NEW d \in SlotData, RestAtStart(d)
  PROVE  /\ AppliedTo(archive, applied, n, origin + BlockStart)
         /\ origin + BlockStart < Total(File) /\ Total(File) \in Nat
         /\ origin + BlockStart \in Nat
<1>1. /\ AppliedTo(archive, applied, n, origin) /\ BlockStart = 0
      /\ d.id[1] = n /\ d.id[2] \in 1 .. Len(archive[n])
      /\ origin < BodyEnd(archive, d.id)
  BY DEF RestAtStart, Holds
<1>2. d.id = <<n, d.id[2]>>
  BY <1>1, SlotTypes
<1>3. /\ BodyEnd(archive, d.id) \in Nat /\ Total(archive[n]) \in Nat
      /\ BodyEnd(archive, d.id) <= Total(archive[n])
  BY <1>1, <1>2, Places
<1>4. origin < Total(archive[n])
  BY <1>1, <1>3
<1>5. origin + BlockStart = origin
  BY <1>1
<1> QED BY <1>1, <1>3, <1>4, <1>5 DEF File

(* Between two rounds the file is applied up to BlockStart and not to its  *)
(* end.                                                                    *)
LEMMA WaitingFacts ==
  ASSUME Types, n >= 1, Waiting
  PROVE  /\ AppliedTo(archive, applied, n, origin + BlockStart)
         /\ origin + BlockStart < Total(File) /\ Total(File) \in Nat
         /\ origin + BlockStart \in Nat
<1>1. archive \in Archives /\ n \in 1 .. Len(archive) /\ origin \in Nat
  BY Always
<1>2. data[0] \in SlotData
  BY Always, SlotNumbers
<1>3. CASE data[0].incomplete
  BY <1>1, <1>2, <1>3, RestFacts DEF Waiting
<1>4. CASE ~data[0].incomplete
  BY <1>1, <1>4, NextFacts DEF Waiting
<1> QED BY <1>3, <1>4

(* Reading keeps the invariant; if there is nothing left to read the file  *)
(* was not whole.                                                          *)
LEMMA ReadStep ==
  ASSUME Inv, Read
  PROVE  Inv'
<1>0. /\ DataSize' = DataSize + Max({UnpRead, 0}) /\ NoDataLeft' = (UnpRead = 0)
      /\ BlockNumber' = 0
      /\ pc' = CASE UnpRead < 0 \/ DataSize' = 0 -> "finish"
                 [] UnpRead > 0 /\ DataSize' < TooSmallToProcess -> "read"
                 [] OTHER -> "fill"
      /\ archive' = archive /\ n' = n /\ avail' = avail /\ end' = end /\ lost' = lost
      /\ origin' = origin /\ BlockStart' = BlockStart /\ LargeBlock' = LargeBlock
      /\ LastBlockNum' = LastBlockNum /\ Done' = Done /\ data' = data /\ tasks' = tasks
      /\ block' = block /\ tables' = tables /\ over' = over /\ applied' = applied
  BY DEF Read, source
<1>1. /\ Types /\ pc = "read" /\ AtRead /\ n >= 1 /\ Request > 0 /\ BlockStart = 0
      /\ (lost => avail < Total(File))
      /\ \A k \in Slots : data[k].large => LargeBlock
  BY DEF Inv, Read, Types, TypeOK
<1>2. Waiting /\ Done = FALSE /\ Uncut(Slots \ {0})
  BY <1>1 DEF AtRead
<1>3. /\ AppliedTo(archive, applied, n, origin + BlockStart)
      /\ origin + BlockStart < Total(File) /\ Total(File) \in Nat
      /\ origin + BlockStart \in Nat
  BY <1>1, <1>2, WaitingFacts
<1>4. /\ UnpRead \in Int
      /\ DataSize + UnpRead <= UNP_READ_SIZE_MT
      /\ origin + (DataSize + UnpRead) <= avail
      /\ UnpRead < 0 => lost /\ origin + DataSize = avail
      /\ UnpRead = 0 => origin + DataSize = avail
  <2>1. DataSize \in 0 .. UNP_READ_SIZE_MT
    BY <1>1, Always
  <2> QED BY <1>1, <2>1, Always, ReadSize
<1>5. DataSize' = IF UnpRead > 0 THEN DataSize + UnpRead ELSE DataSize
  <2>1. Max({UnpRead, 0}) = IF UnpRead > 0 THEN UnpRead ELSE 0
    BY <1>4, MaxIs
  <2>2. DataSize \in Nat
    BY <1>1, Always
  <2> QED BY <1>0, <2>1, <2>2
<1>6. DataSize' \in Nat /\ DataSize' <= UNP_READ_SIZE_MT /\ origin + DataSize' <= avail
  <2>1. /\ DataSize \in Nat /\ DataSize <= UNP_READ_SIZE_MT /\ origin + DataSize <= avail
        /\ origin \in Nat
    BY <1>1, Always
  <2>2. CASE UnpRead > 0
    <3>1. DataSize' = DataSize + UnpRead
      BY <1>5, <2>2
    <3> QED BY <1>4, <2>1, <2>2, <3>1
  <2>3. CASE ~(UnpRead > 0)
    <3>1. DataSize' = DataSize
      BY <1>5, <2>3
    <3> QED BY <2>1, <3>1
  <2> QED BY <2>2, <2>3
<1>7. Waiting'
  BY <1>0, <1>2 DEF Waiting, NextAt, RestAtStart, File
<1>8. Uncut(Slots \ {0})'
  BY <1>0, <1>2 DEF Uncut
<1>9. pc' \in {"finish", "read", "fill"}
  BY <1>0
<1>10. pc' = "read" => Request' > 0
  <2> SUFFICES ASSUME pc' = "read" PROVE Request' > 0
    OBVIOUS
  <2>1. DataSize' < TooSmallToProcess
    BY <1>0
  <2>2. DataSize' <= TooSmallToProcess
    BY <1>6, <2>1, Sizes
  <2> QED BY <1>6, <2>2, RoomToRead DEF Request
<1>11. pc' = "fill" => DataSize' > 0 /\ (NoDataLeft' \/ TooSmallToProcess <= DataSize')
  <2> SUFFICES ASSUME pc' = "fill"
               PROVE  DataSize' > 0 /\ (NoDataLeft' \/ TooSmallToProcess <= DataSize')
    OBVIOUS
  <2>1. ~(UnpRead < 0) /\ DataSize' # 0 /\ ~(UnpRead > 0 /\ DataSize' < TooSmallToProcess)
    BY <1>0
  <2>2. DataSize' > 0
    BY <1>6, <2>1
  <2>3. CASE UnpRead = 0
    BY <1>0, <2>2, <2>3
  <2>4. CASE UnpRead # 0
    BY <1>4, <1>6, <2>1, <2>2, <2>4, Sizes
  <2> QED BY <2>3, <2>4
<1>12. TypeOK'
  <2>1. BlockNumber' \in 0 .. Cardinality(Slots) /\ LastBlockNum' \in Slots
    BY <1>0, <1>1, Always, SlotNumbers
  <2>2. DataSize' \in 0 .. UNP_READ_SIZE_MT
    BY <1>6, Sizes
  <2>3. NoDataLeft' \in BOOLEAN
    BY <1>0
  <2>4. pc' = "fill" => BlockStart' \in 0 .. DataSize' - 1
    BY <1>0, <1>1, <1>6, <1>11
  <2>5. pc' = "read" => Request' > 0 /\ BlockStart' = 0
    BY <1>0, <1>1, <1>10
  <2>6. n' \in 0 .. Len(archive')
    BY <1>0, <1>1, Always
  <2>7. /\ archive' \in Archives /\ lost' \in BOOLEAN /\ LargeBlock' \in BOOLEAN
        /\ Done' \in BOOLEAN /\ over' \in BOOLEAN /\ Cardinality(tasks') <= MaxUserThreads
        /\ \A k \in Slots : data'[k].base + data'[k].addr <= UNP_READ_SIZE_MT + Reserve
    BY <1>0, <1>1, Always
  <2> QED BY <1>0, <1>6, <1>9, <2>1, <2>2, <2>3, <2>4, <2>5, <2>6, <2>7 DEF TypeOK
<1>13. Types'
  BY <1>0, <1>1, <1>12, Always DEF Types, File
<1>14. pc' = "read" => AtRead'
  BY <1>0, <1>2, <1>7, <1>8 DEF AtRead
<1>15. pc' = "fill" => AtFill'
  <2>1. AllRead'
    <3>1. UnpRead = 0 => origin' + DataSize' = avail'
      <4>1. UnpRead = 0 => DataSize' = DataSize
        BY <1>5
      <4> QED BY <1>0, <1>4, <4>1
    <3>2. NoDataLeft' <=> UnpRead = 0
      BY <1>0
    <3> QED BY <3>1, <3>2 DEF AllRead
  <2>2. pc' = "fill" => NoDataLeft' \/ BlockStart' + TooSmallToProcess <= DataSize'
    BY <1>0, <1>1, <1>11, Sizes
  <2> QED BY <1>0, <1>2, <1>7, <1>8, <2>1, <2>2, SlotNumbers DEF AtFill
<1>16. pc' = "finish" => AtFinish'
  <2> SUFFICES ASSUME pc' = "finish" PROVE AtFinish'
    OBVIOUS
  <2>1. archive \in Archives /\ n \in 1 .. Len(archive) /\ avail \in Nat /\ origin \in Nat
    BY <1>1, Always
  <2>2. AppliedInOrder'
    BY <1>0, <1>3, <2>1, InOrderNext
  <2>3. UnpRead < 0 \/ DataSize' = 0
    BY <1>0
  <2>4. avail < Total(File)
    <3>1. CASE UnpRead < 0
      BY <1>1, <1>4, <3>1
    <3>2. CASE ~(UnpRead < 0) /\ DataSize' = 0
      <4>1. UnpRead = 0 /\ DataSize = 0
        <5>1. DataSize \in Nat
          BY <1>1, Always
        <5>2. ~(UnpRead > 0)
          BY <1>4, <1>5, <3>2, <5>1
        <5> QED BY <1>4, <1>5, <3>2, <5>1, <5>2
      <4>2. avail = origin + BlockStart
        BY <1>1, <1>4, <2>1, <4>1
      <4> QED BY <1>3, <4>2
    <3> QED BY <2>3, <3>1, <3>2
  <2>5. ~Whole'
    <3>1. avail # Total(archive[n])
      BY <1>3, <2>1, <2>4 DEF File
    <3> QED BY <1>0, <3>1 DEF Whole, File
  <2> QED BY <2>2, <2>5 DEF AtFinish
<1>17. \A k \in Slots : data'[k].large => LargeBlock'
  BY <1>0, <1>1
<1> QED BY <1>9, <1>13, <1>14, <1>15, <1>16, <1>17 DEF Inv

-----------------------------------------------------------------------------
(* Filling the slots.                                                      *)

(* A slot that goes on with its block has more data and is otherwise as it *)
(* was.                                                                    *)
LEMMA PreparedRest ==
  ASSUME DataSize \in Nat, NEW d \in SlotData, d.incomplete = TRUE
  PROVE  /\ Prepared(d) \in SlotData
         /\ Prepared(d).base = d.base /\ Prepared(d).addr = d.addr
         /\ Prepared(d).dataSize = DataSize /\ Prepared(d).header = d.header
         /\ Prepared(d).table = d.table /\ Prepared(d).blockSize = d.blockSize
         /\ Prepared(d).blockStart = d.blockStart /\ Prepared(d).last = d.last
         /\ Prepared(d).good = d.good /\ Prepared(d).headerRead = d.headerRead
         /\ Prepared(d).tableRead = d.tableRead /\ Prepared(d).tables = d.tables
         /\ Prepared(d).damaged = d.damaged /\ Prepared(d).large = d.large
         /\ Prepared(d).incomplete = FALSE /\ Prepared(d).id = d.id
<1> DEFINE e == [d EXCEPT !.dataSize = DataSize, !.incomplete = FALSE]
<1>1. Prepared(d) = e
  BY DEF Prepared
<1>2. e \in SlotData
  BY DEF SlotData
<1> QED BY <1>1, <1>2 DEF SlotData

(* Any other slot begins at BlockStart, with no header read.               *)
LEMMA PreparedNew ==
  ASSUME DataSize \in Nat, BlockStart \in Nat, BlockStart <= DataSize,
         NEW d \in SlotData, d.incomplete = FALSE
  PROVE  /\ Prepared(d) \in SlotData
         /\ Prepared(d).base = BlockStart /\ Prepared(d).addr = 0
         /\ Prepared(d).dataSize = DataSize - BlockStart
         /\ Prepared(d).damaged = FALSE /\ Prepared(d).headerRead = FALSE
         /\ Prepared(d).tableRead = FALSE /\ Prepared(d).tables = d.tables
         /\ Prepared(d).large = d.large /\ Prepared(d).incomplete = FALSE
<1> DEFINE e == [d EXCEPT !.base = BlockStart, !.addr = 0, !.dataSize = DataSize - BlockStart,
                   !.damaged = FALSE, !.headerRead = FALSE, !.tableRead = FALSE]
<1>1. Prepared(d) = e
  BY DEF Prepared
<1>2. e \in SlotData
  <2>1. \A x \in Nat : [d EXCEPT !.base = BlockStart, !.addr = 0, !.dataSize = x,
                   !.damaged = FALSE, !.headerRead = FALSE, !.tableRead = FALSE] \in SlotData
    BY DEF SlotData
  <2>2. DataSize - BlockStart \in Nat
    OBVIOUS
  <2> QED BY <2>1, <2>2
<1> QED BY <1>1, <1>2 DEF SlotData

(* ReadBlockHeader gives a slot what the header says.                      *)
LEMMA HeaderFields ==
  ASSUME archive \in Archives, n \in 1 .. Len(archive),
         NEW d \in SlotData, NEW i \in 1 .. Len(File)
  PROVE  /\ WithHeader(d, i) \in SlotData
         /\ WithHeader(d, i).headerRead = TRUE /\ WithHeader(d, i).addr = File[i].header
         /\ WithHeader(d, i).header = File[i].header
         /\ WithHeader(d, i).blockStart = File[i].header
         /\ WithHeader(d, i).table = File[i].table
         /\ WithHeader(d, i).blockSize = File[i].table + File[i].body
         /\ WithHeader(d, i).last = File[i].last /\ WithHeader(d, i).good = File[i].good
         /\ WithHeader(d, i).id = <<n, i>>
         /\ WithHeader(d, i).base = d.base /\ WithHeader(d, i).dataSize = d.dataSize
         /\ WithHeader(d, i).damaged = d.damaged /\ WithHeader(d, i).tableRead = d.tableRead
         /\ WithHeader(d, i).tables = d.tables /\ WithHeader(d, i).large = d.large
         /\ WithHeader(d, i).incomplete = d.incomplete
<1>1. File[i] \in Block /\ n \in Nat /\ i \in Nat
  BY BlockFacts, FileFacts DEF File
<1> DEFINE h == File[i].header
           t == File[i].table
           s == File[i].table + File[i].body
           l == File[i].last
           g == File[i].good
           id == <<n, i>>
<1>2. /\ h \in Nat /\ t \in Nat /\ s \in Nat /\ l \in BOOLEAN /\ g \in BOOLEAN
      /\ id \in Nat \X Nat
  BY <1>1 DEF Block
<1>3. WithHeader(d, i) =
        [d EXCEPT !.headerRead = TRUE, !.addr = h, !.header = h, !.blockStart = h,
                  !.table = t, !.blockSize = s, !.last = l, !.good = g, !.id = id]
  BY DEF WithHeader
<1> HIDE DEF h, t, s, l, g, id
<1>4. WithHeader(d, i) \in SlotData
  BY <1>2, <1>3 DEF SlotData
<1>5. /\ WithHeader(d, i).headerRead = TRUE /\ WithHeader(d, i).addr = h
      /\ WithHeader(d, i).header = h /\ WithHeader(d, i).blockStart = h
      /\ WithHeader(d, i).table = t /\ WithHeader(d, i).blockSize = s
      /\ WithHeader(d, i).last = l /\ WithHeader(d, i).good = g /\ WithHeader(d, i).id = id
      /\ WithHeader(d, i).base = d.base /\ WithHeader(d, i).dataSize = d.dataSize
      /\ WithHeader(d, i).damaged = d.damaged /\ WithHeader(d, i).tableRead = d.tableRead
      /\ WithHeader(d, i).tables = d.tables /\ WithHeader(d, i).large = d.large
      /\ WithHeader(d, i).incomplete = d.incomplete
  BY <1>2, <1>3 DEF SlotData
<1> QED BY <1>4, <1>5 DEF h, t, s, l, g, id

LargeFrom(e, large) == [e EXCEPT !.large = large]

(* The flag of a large block, and nothing else, is changed.                *)
LEMMA LargeFields ==
  ASSUME NEW e \in SlotData, NEW large \in BOOLEAN
  PROVE  /\ LargeFrom(e, large) \in SlotData /\ LargeFrom(e, large).large = large
         /\ LargeFrom(e, large).base = e.base /\ LargeFrom(e, large).addr = e.addr
         /\ LargeFrom(e, large).dataSize = e.dataSize /\ LargeFrom(e, large).header = e.header
         /\ LargeFrom(e, large).table = e.table
         /\ LargeFrom(e, large).blockSize = e.blockSize
         /\ LargeFrom(e, large).blockStart = e.blockStart
         /\ LargeFrom(e, large).last = e.last /\ LargeFrom(e, large).good = e.good
         /\ LargeFrom(e, large).headerRead = e.headerRead
         /\ LargeFrom(e, large).tableRead = e.tableRead
         /\ LargeFrom(e, large).tables = e.tables /\ LargeFrom(e, large).damaged = e.damaged
         /\ LargeFrom(e, large).incomplete = e.incomplete /\ LargeFrom(e, large).id = e.id
<1>1. LargeFrom(e, large) \in SlotData
  BY DEF SlotData, LargeFrom
<1> QED BY <1>1 DEF SlotData, LargeFrom

(* Where the next block is.                                                *)
LEMMA FillPlace ==
  ASSUME Inv, pc = "fill", data[BlockNumber].incomplete = FALSE
  PROVE  \E j \in 1 .. Len(File) :
           /\ origin + BlockStart = Start(File, j)
           /\ BlockNumber = 0 => NextAt(j)
           /\ BlockNumber > 0 => j = data[BlockNumber - 1].id[2] + 1 /\ j > 1
<1>1. Types /\ AtFill
  BY DEF Inv
<1>2. /\ archive \in Archives /\ n \in 1 .. Len(archive) /\ BlockNumber \in Nat
      /\ origin \in Nat /\ data \in [Slots -> SlotData] /\ BlockStart \in Nat
  BY <1>1, Always DEF Types
<1>3. CASE BlockNumber = 0
  <2>1. Waiting /\ ~data[0].incomplete
    BY <1>1, <1>3 DEF AtFill
  <2> QED BY <1>3, <2>1 DEF Waiting, NextAt
<1>4. CASE BlockNumber > 0
  <2> DEFINE d == data[BlockNumber - 1]
  <2>1. BlockNumber - 1 \in Slots /\ BlockNumber - 1 \in 0 .. BlockNumber - 1
    BY <1>1, <1>2, <1>4, SlotNumbers DEF AtFill
  <2>2. d \in SlotData
    BY <1>2, <2>1
  <2>3. /\ Holds(archive, n, origin, d) /\ d.last = FALSE
        /\ BlockStart = d.base + d.blockStart + d.blockSize
    BY <1>1, <1>4, <2>1 DEF AtFill, Blocks, Held
  <2> HIDE DEF d
  <2>4. /\ d.id[1] = n /\ d.id[2] \in 1 .. Len(archive[n]) /\ d.last = archive[n][d.id[2]].last
        /\ origin + d.base + d.blockStart + d.blockSize = BodyEnd(archive, d.id)
    BY <2>3 DEF Holds
  <2>5. d.id[2] # Len(archive[n])
    BY <1>2, <2>3, <2>4, BlockFacts
  <2>6. Len(archive[n]) \in Nat
    BY <1>2, FileFacts
  <2>7. d.id[2] + 1 \in 1 .. Len(archive[n]) /\ d.id[2] + 1 > 1
    BY <2>4, <2>5, <2>6
  <2>8. origin + BlockStart = BodyEnd(archive, d.id)
    BY <1>2, <2>2, <2>3, <2>4, SlotTypes
  <2>9. BodyEnd(archive, d.id) = Start(archive[n], d.id[2] + 1)
    BY <2>4 DEF BodyEnd
  <2> QED BY <1>4, <2>7, <2>8, <2>9 DEF d, File
<1> QED BY <1>2, <1>3, <1>4

(* A slot that can be filled: it holds the next block, of which nothing is *)
(* decoded.                                                                *)
Filled(e) ==
  /\ e \in SlotData
  /\ Held(archive, n, origin, DataSize, NoDataLeft, e) /\ Fresh(archive, e)
  /\ BlockStart + e.header + e.blockSize = e.base + e.blockStart + e.blockSize
  /\ e.base + e.addr <= DataSize
  /\ BlockNumber = 0 => AppliedFrom(e)
  /\ BlockNumber > 0 => ~IsRest(e) /\ e.id[2] = data[BlockNumber - 1].id[2] + 1
  /\ BlockNumber > 0 => e.large = data[BlockNumber].large

(* The first slot goes on with the rest that was moved.                    *)
LEMMA FilledRest ==
  ASSUME Inv, pc = "fill", data[BlockNumber].incomplete = TRUE
  PROVE  Filled(Prepared(data[BlockNumber])) /\ Prepared(data[BlockNumber]).headerRead = TRUE
<1>1. Types /\ AtFill
  BY DEF Inv
<1>2. /\ archive \in Archives /\ n \in 1 .. Len(archive) /\ BlockNumber \in Nat
      /\ origin \in Nat /\ data \in [Slots -> SlotData] /\ DataSize \in Nat
  BY <1>1, Always DEF Types
<1>3. BlockNumber = 0
  <2>1. BlockNumber \in Slots
    BY <1>1 DEF AtFill
  <2>2. ~(BlockNumber > 0)
    BY <1>1, <2>1 DEF AtFill, Uncut
  <2> QED BY <1>2, <2>2
<1> DEFINE d == data[0]
           e == Prepared(d)
<1>4. d \in SlotData /\ d.incomplete = TRUE
  BY <1>2, <1>3, SlotNumbers
<1>5. RestAtStart(d)
  BY <1>1, <1>3, <1>4 DEF AtFill, Waiting
<1> DEFINE u == [d EXCEPT !.incomplete = FALSE]
<1>6. /\ u.damaged = d.damaged /\ u.addr = d.addr /\ u.blockStart = d.blockStart
      /\ u.tableRead = d.tableRead /\ u.table = d.table /\ u.tables = d.tables /\ u.id = d.id
  BY <1>4 DEF SlotData
<1>7. /\ e \in SlotData
      /\ e.base = d.base /\ e.addr = d.addr /\ e.dataSize = DataSize /\ e.header = d.header
      /\ e.table = d.table /\ e.blockSize = d.blockSize /\ e.blockStart = d.blockStart
      /\ e.last = d.last /\ e.good = d.good /\ e.headerRead = d.headerRead
      /\ e.tableRead = d.tableRead /\ e.tables = d.tables /\ e.damaged = d.damaged
      /\ e.large = d.large /\ e.incomplete = FALSE /\ e.id = d.id
  BY <1>2, <1>4, PreparedRest
<1>8. Holds(archive, n, origin, d) /\ IsRest(d) /\ Fresh(archive, u) /\ BlockStart = 0
      /\ AppliedTo(archive, applied, n, origin)
  BY <1>5 DEF RestAtStart
<1> HIDE DEF e, u
<1>9. IsRest(e) /\ (IsRest(u) <=> IsRest(d))
  BY <1>6, <1>7, <1>8 DEF IsRest
<1>10. Holds(archive, n, origin, e)
  BY <1>7, <1>8, <1>9 DEF Holds
<1>11. Fresh(archive, e)
  BY <1>6, <1>7, <1>8, <1>9 DEF Fresh
<1>12. e.base = 0 /\ e.blockStart = 0 /\ e.header = 0 /\ e.addr = 0 /\ e.headerRead = TRUE
  BY <1>7, <1>8, <1>9, <1>10, <1>11, <1>4 DEF Holds, Fresh, IsRest, SlotData
<1>13. Held(archive, n, origin, DataSize, NoDataLeft, e)
  BY <1>2, <1>7, <1>9, <1>10, <1>12 DEF Held
<1>14. AppliedFrom(e)
  BY <1>8, <1>9 DEF AppliedFrom, From
<1>15. BlockStart + e.header + e.blockSize = e.base + e.blockStart + e.blockSize
  BY <1>7, <1>8, <1>12
<1>16. e.base + e.addr <= DataSize
  BY <1>2, <1>12
<1> QED BY <1>3, <1>7, <1>11, <1>12, <1>13, <1>14, <1>15, <1>16 DEF Filled, e

(* A header that is found where the last block ends is that of the block   *)
(* that follows.                                                           *)
LEMMA FilledNew ==
  ASSUME Inv, pc = "fill", data[BlockNumber].incomplete = FALSE,
         NEW i \in HeadersAt(Prepared(data[BlockNumber]))
  PROVE  Filled(WithHeader(Prepared(data[BlockNumber]), i))
<1>1. Types /\ AtFill /\ BlockStart < DataSize
  <2>1. Types /\ AtFill
    BY DEF Inv
  <2>2. BlockStart \in 0 .. DataSize - 1
    BY <2>1 DEF Types, TypeOK
  <2> QED BY <2>1, <2>2, Always
<1>2. /\ archive \in Archives /\ n \in 1 .. Len(archive) /\ BlockNumber \in Nat
      /\ origin \in Nat /\ data \in [Slots -> SlotData] /\ DataSize \in Nat
      /\ BlockStart \in Nat /\ BlockStart <= DataSize
  BY <1>1, Always DEF Types
<1> DEFINE d == data[BlockNumber]
           p == Prepared(d)
           e == WithHeader(p, i)
<1>3. d \in SlotData /\ d.incomplete = FALSE
  BY <1>1, <1>2 DEF AtFill
<1>4. /\ p \in SlotData /\ p.base = BlockStart /\ p.addr = 0
      /\ p.dataSize = DataSize - BlockStart
      /\ p.damaged = FALSE /\ p.headerRead = FALSE
      /\ p.tableRead = FALSE /\ p.tables = d.tables
      /\ p.large = d.large /\ p.incomplete = FALSE
  BY <1>2, <1>3, PreparedNew
<1>5. /\ i \in 1 .. Len(File) /\ Start(File, i) = origin + p.base
      /\ File[i].header <= p.dataSize
  BY DEF HeadersAt
<1> HIDE DEF p
<1>6. /\ e \in SlotData /\ e.headerRead = TRUE /\ e.addr = File[i].header
      /\ e.header = File[i].header /\ e.blockStart = File[i].header
      /\ e.table = File[i].table /\ e.blockSize = File[i].table + File[i].body
      /\ e.last = File[i].last /\ e.good = File[i].good /\ e.id = <<n, i>>
      /\ e.base = p.base /\ e.dataSize = p.dataSize
      /\ e.damaged = p.damaged /\ e.tableRead = p.tableRead
      /\ e.tables = p.tables /\ e.large = p.large /\ e.incomplete = p.incomplete
  BY <1>2, <1>4, <1>5, HeaderFields
<1> HIDE DEF e
<1>7. /\ File[i].header \in Nat /\ File[i].header > 0 /\ File[i].table \in Nat
      /\ File[i].body \in Nat /\ (File[i].table = 0 => i = 1 /\ n > 1)
  BY <1>2, <1>5, BlockFacts DEF File
<1>8. /\ Start(archive[n], i) \in Nat
      /\ BodyStart(archive, <<n, i>>) = Start(archive[n], i) + File[i].header + File[i].table
      /\ BodyEnd(archive, <<n, i>>) = BodyStart(archive, <<n, i>>) + File[i].body
  BY <1>2, <1>5, Places DEF File
<1>9. ~IsRest(e) /\ e.id[1] = n /\ e.id[2] = i
  BY <1>6, <1>7 DEF IsRest
<1>10. origin + e.base + e.blockStart + e.blockSize = BodyEnd(archive, e.id)
  <2>1. origin + e.base = Start(archive[n], i)
    BY <1>5, <1>6 DEF File
  <2>2. BodyEnd(archive, e.id)
          = (Start(archive[n], i) + File[i].header + File[i].table) + File[i].body
    BY <1>6, <1>8
  <2>3. origin + e.base + e.blockStart + e.blockSize
          = Start(archive[n], i) + File[i].header + (File[i].table + File[i].body)
    BY <1>6, <2>1
  <2> QED BY <1>7, <1>8, <2>2, <2>3
<1>11. Holds(archive, n, origin, e)
  BY <1>5, <1>6, <1>9, <1>10 DEF Holds, File
<1>12. Held(archive, n, origin, DataSize, NoDataLeft, e)
  <2>1. e.base + e.dataSize = DataSize
    BY <1>2, <1>4, <1>6
  <2>2. e.blockStart <= e.dataSize
    BY <1>5, <1>6
  <2>3. NoDataLeft \/ TooSmallToProcess <= e.dataSize
    BY <1>1, <1>2, <1>4, <1>6, Sizes DEF AtFill
  <2> QED BY <1>11, <2>1, <2>2, <2>3 DEF Held
<1>13. PICK j \in 1 .. Len(File) :
         /\ origin + BlockStart = Start(File, j)
         /\ BlockNumber = 0 => NextAt(j)
         /\ BlockNumber > 0 => j = data[BlockNumber - 1].id[2] + 1 /\ j > 1
  BY <1>3, FillPlace
<1>14. i = j
  <2>1. Start(archive[n], i) = Start(archive[n], j)
    BY <1>4, <1>5, <1>13 DEF File
  <2> QED BY <1>2, <1>5, <1>13, <2>1, OneStart DEF File
<1>15. e.table = 0 => e.tables = TablesOf(archive, e.id)
  <2> SUFFICES ASSUME e.table = 0 PROVE e.tables = TablesOf(archive, e.id)
    OBVIOUS
  <2>1. i = 1 /\ n > 1 /\ archive[n][1].table = 0
    BY <1>6, <1>7 DEF File
  <2>2. BlockNumber = 0 /\ NextAt(1)
    BY <1>2, <1>13, <1>14, <2>1
  <2>3. d.tables = TablesOf(archive, <<n, 0>>)
    BY <2>1, <2>2 DEF NextAt
  <2>4. TablesOf(archive, <<n, 1>>) = TablesOf(archive, <<n, 0>>)
    BY <1>2, <2>1, FirstTables
  <2> QED BY <1>4, <1>6, <2>1, <2>3, <2>4
<1>16. Fresh(archive, e)
  <2>1. e.tableRead = FALSE /\ IsRest(e) = FALSE
    BY <1>4, <1>6, <1>9 DEF IsRest
  <2>2. e.tableRead = IsRest(e)
    BY <2>1, Zenon
  <2>3. e.damaged = FALSE /\ e.incomplete = FALSE /\ e.addr = e.blockStart
    BY <1>4, <1>6
  <2>4. IsRest(e) \/ e.table = 0 => e.tables = TablesOf(archive, e.id)
    BY <1>9, <1>15
  <2> QED BY <2>2, <2>3, <2>4, Zenon DEF Fresh
<1>17. BlockStart + e.header + e.blockSize = e.base + e.blockStart + e.blockSize
  BY <1>4, <1>6
<1>18. e.base + e.addr <= DataSize
  BY <1>2, <1>4, <1>5, <1>6, <1>7
<1>19. BlockNumber = 0 => AppliedFrom(e)
  <2> SUFFICES ASSUME BlockNumber = 0 PROVE AppliedFrom(e)
    OBVIOUS
  <2>1. AppliedTo(archive, applied, n, Start(archive[n], i))
    BY <1>13, <1>14 DEF NextAt, File
  <2>2. AppliedTo(archive, applied, n, BodyStart(archive, <<n, i>>))
    BY <1>2, <1>5, <2>1, PassHeader DEF File
  <2> QED BY <1>6, <1>9, <2>2 DEF AppliedFrom, From
<1>20. BlockNumber > 0 => ~IsRest(e) /\ e.id[2] = data[BlockNumber - 1].id[2] + 1
  BY <1>9, <1>13, <1>14
<1>21. e.large = d.large
  BY <1>4, <1>6
<1> QED BY <1>6, <1>12, <1>16, <1>17, <1>18, <1>19, <1>20, <1>21 DEF Filled, e, p

(* Where no header is right, the file is not whole.                        *)
LEMMA NoHeader ==
  ASSUME Inv, pc = "fill", data[BlockNumber].incomplete = FALSE,
         HeadersAt(Prepared(data[BlockNumber])) = {}
  PROVE  ~Whole
<1>1. Types /\ AtFill /\ BlockStart < DataSize
  <2>1. Types /\ AtFill
    BY DEF Inv
  <2>2. BlockStart \in 0 .. DataSize - 1
    BY <2>1 DEF Types, TypeOK
  <2> QED BY <2>1, <2>2, Always
<1>2. /\ archive \in Archives /\ n \in 1 .. Len(archive) /\ BlockNumber \in Nat
      /\ origin \in Nat /\ data \in [Slots -> SlotData] /\ DataSize \in Nat /\ avail \in Nat
      /\ BlockStart \in Nat /\ BlockStart <= DataSize /\ NoDataLeft \in BOOLEAN
  BY <1>1, Always DEF Types
<1> DEFINE d == data[BlockNumber]
           p == Prepared(d)
<1>3. d \in SlotData /\ d.incomplete = FALSE
  BY <1>1, <1>2 DEF AtFill
<1>4. p.base = BlockStart /\ p.dataSize = DataSize - BlockStart
  BY <1>2, <1>3, PreparedNew
<1>5. PICK j \in 1 .. Len(File) : origin + BlockStart = Start(File, j)
  BY <1>3, FillPlace
<1> SUFFICES ASSUME Whole PROVE FALSE
  OBVIOUS
<1>6. File[j].sound /\ avail = Total(archive[n])
  BY <1>5 DEF Whole, Faultless, File
<1>7. /\ File[j].header \in Nat /\ File[j].table \in Nat
      /\ File[j].header + File[j].table < TooSmallToProcess
  BY <1>2, <1>5, BlockFacts DEF File
<1>8. /\ Start(archive[n], j) \in Nat /\ BodyStart(archive, <<n, j>>) \in Nat
      /\ BodyStart(archive, <<n, j>>) = Start(archive[n], j) + File[j].header + File[j].table
      /\ BodyStart(archive, <<n, j>>) <= BodyEnd(archive, <<n, j>>)
      /\ BodyEnd(archive, <<n, j>>) <= Total(archive[n])
      /\ BodyEnd(archive, <<n, j>>) \in Nat /\ Total(archive[n]) \in Nat
  BY <1>2, <1>5, Places DEF File
<1>9. File[j].header <= DataSize - BlockStart
  <2>1. CASE NoDataLeft
    <3>1. origin + DataSize = Total(archive[n])
      BY <1>1, <1>6, <2>1 DEF AtFill, AllRead
    <3>2. Start(archive[n], j) + File[j].header <= Total(archive[n])
      BY <1>7, <1>8
    <3>3. origin + BlockStart + File[j].header <= origin + DataSize
      BY <1>5, <3>1, <3>2 DEF File
    <3> QED BY <1>2, <1>7, <3>3
  <2>2. CASE ~NoDataLeft
    <3>1. BlockStart + TooSmallToProcess <= DataSize
      BY <1>1, <2>2 DEF AtFill
    <3> QED BY <1>2, <1>7, <3>1, Sizes
  <2> QED BY <2>1, <2>2
<1>10. j \in HeadersAt(p)
  <2> HIDE DEF p
  <2>1. Start(File, j) = origin + p.base /\ File[j].header <= p.dataSize
    BY <1>4, <1>5, <1>9
  <2> QED BY <1>6, <2>1 DEF HeadersAt
<1> QED BY <1>10

(* What Fill does with the slot it has prepared.                           *)
FillWith(c) ==
  \/ /\ ~c.headerRead /\ HeadersAt(c) = {}
     /\ data' = [data EXCEPT ![BlockNumber] = [c EXCEPT !.headerRead = TRUE]]
     /\ Done' = TRUE /\ pc' = "add"
     /\ UNCHANGED <<BlockStart, BlockNumber, LargeBlock>>
  \/ \E e \in IF c.headerRead THEN {c} ELSE {WithHeader(c, i) : i \in HeadersAt(c)} :
       /\ LargeBlock' = (LargeBlock \/ e.blockSize > LargeBlockSize)
       /\ data' = [data EXCEPT ![BlockNumber] = [e EXCEPT !.large = LargeBlock' \/ @]]
       /\ BlockStart' = BlockStart + e.header + e.blockSize
       /\ BlockNumber' = BlockNumber + 1
       /\ pc' = IF \/ DataSize - BlockStart' < TooSmallToProcess
                   \/ e.last
                   \/ BlockNumber' \notin Slots
                THEN "add" ELSE "fill"
       /\ Done' = Done

(* One slot is filled, or no header is found.                              *)
LEMMA FillCases ==
  ASSUME Inv, Fill
  PROVE  /\ LastBlockNum' = BlockNumber
         /\ \/ /\ \E d \in SlotData :
                    /\ data' = [data EXCEPT ![BlockNumber] = d]
                    /\ d.incomplete = FALSE /\ d.large = data[BlockNumber].large
                    /\ d.base + d.addr <= DataSize
               /\ ~Whole /\ Done' = TRUE /\ pc' = "add" /\ BlockStart' = BlockStart
               /\ BlockNumber' = BlockNumber /\ LargeBlock' = LargeBlock
               /\ data[BlockNumber].incomplete = FALSE
            \/ /\ \E e \in SlotData : \E large \in BOOLEAN :
                    /\ Filled(e) /\ LargeBlock' = large /\ (LargeBlock => large)
                    /\ \E l \in BOOLEAN :
                         /\ (large => l) /\ (e.large => l) /\ (l => large \/ e.large)
                         /\ data' = [data EXCEPT ![BlockNumber] = LargeFrom(e, l)]
                    /\ e.large = data[BlockNumber].large
                    /\ BlockStart' = BlockStart + e.header + e.blockSize
                    /\ pc' = IF \/ DataSize - BlockStart' < TooSmallToProcess
                                \/ e.last
                                \/ BlockNumber' \notin Slots
                             THEN "add" ELSE "fill"
               /\ BlockNumber' = BlockNumber + 1 /\ Done' = Done
<1>1. Types /\ AtFill /\ pc = "fill" /\ BlockNumber \in Slots
  BY DEF Inv, Fill
<1>2. /\ BlockNumber \in Nat /\ data \in [Slots -> SlotData] /\ DataSize \in Nat
      /\ BlockStart \in Nat /\ LargeBlock \in BOOLEAN /\ origin \in Nat
      /\ archive \in Archives /\ n \in 1 .. Len(archive)
  BY <1>1, Always DEF Types
<1>3. BlockStart <= DataSize
  <2>1. BlockStart \in 0 .. DataSize - 1
    BY <1>1 DEF Types, TypeOK
  <2> QED BY <1>2, <2>1
<1> DEFINE old == data[BlockNumber]
           d == Prepared(old)
<1>4. old \in SlotData /\ old.incomplete \in BOOLEAN
  BY <1>1, <1>2, SlotTypes
<1>5. d \in SlotData /\ d.large = old.large /\ d.incomplete = FALSE
  BY <1>2, <1>3, <1>4, PreparedNew, PreparedRest
<1>6. ~d.headerRead => old.incomplete = FALSE
  <2>1. old.incomplete = TRUE => d.headerRead = TRUE
    BY <1>1, FilledRest
  <2> QED BY <1>4, <2>1
<1>7. LastBlockNum' = BlockNumber
  BY DEF Fill
<1>8. CASE /\ ~d.headerRead /\ HeadersAt(d) = {}
           /\ data' = [data EXCEPT ![BlockNumber] = [d EXCEPT !.headerRead = TRUE]]
           /\ Done' = TRUE /\ pc' = "add"
           /\ UNCHANGED <<BlockStart, BlockNumber, LargeBlock>>
  <2>1. old.incomplete = FALSE /\ ~Whole
    BY <1>1, <1>6, <1>8, NoHeader
  <2>2. d.base = BlockStart /\ d.addr = 0
    BY <1>2, <1>3, <1>4, <2>1, PreparedNew
  <2> DEFINE f == [d EXCEPT !.headerRead = TRUE]
  <2> HIDE DEF d
  <2>3. /\ f \in SlotData /\ f.incomplete = FALSE /\ f.large = old.large
        /\ f.base = BlockStart /\ f.addr = 0
    BY <1>5, <2>2 DEF SlotData
  <2>4. f.base + f.addr <= DataSize
    BY <1>2, <1>3, <2>3
  <2>5. data' = [data EXCEPT ![BlockNumber] = f]
    BY <1>8
  <2> HIDE DEF f
  <2> QED BY <1>7, <1>8, <2>1, <2>3, <2>4, <2>5
<1>9. ASSUME NEW e, e \in IF d.headerRead THEN {d} ELSE {WithHeader(d, i) : i \in HeadersAt(d)},
             LargeBlock' = (LargeBlock \/ e.blockSize > LargeBlockSize),
             data' = [data EXCEPT ![BlockNumber] = [e EXCEPT !.large = LargeBlock' \/ @]],
             BlockStart' = BlockStart + e.header + e.blockSize,
             BlockNumber' = BlockNumber + 1,
             pc' = IF \/ DataSize - BlockStart' < TooSmallToProcess
                      \/ e.last
                      \/ BlockNumber' \notin Slots
                   THEN "add" ELSE "fill",
             Done' = Done
      PROVE  /\ \E f \in SlotData : \E large \in BOOLEAN :
                    /\ Filled(f) /\ LargeBlock' = large /\ (LargeBlock => large)
                    /\ \E l \in BOOLEAN :
                         /\ (large => l) /\ (f.large => l) /\ (l => large \/ f.large)
                         /\ data' = [data EXCEPT ![BlockNumber] = LargeFrom(f, l)]
                    /\ f.large = old.large
                    /\ BlockStart' = BlockStart + f.header + f.blockSize
                    /\ pc' = IF \/ DataSize - BlockStart' < TooSmallToProcess
                                \/ f.last
                                \/ BlockNumber' \notin Slots
                             THEN "add" ELSE "fill"
             /\ BlockNumber' = BlockNumber + 1 /\ Done' = Done
  <2>1. Filled(e) /\ e.large = old.large
    <3>1. CASE old.incomplete = TRUE
      <4>1. Filled(d) /\ d.headerRead
        BY <1>1, <3>1, FilledRest
      <4> HIDE DEF d
      <4>2. e = d
        BY <1>9, <4>1
      <4> QED BY <1>5, <4>1, <4>2
    <3>2. CASE old.incomplete = FALSE
      <4>1. d.headerRead = FALSE
        BY <1>2, <1>3, <1>4, <3>2, PreparedNew
      <4>2. PICK i \in HeadersAt(d) : e = WithHeader(d, i)
        <5> HIDE DEF d
        <5> QED BY <1>9, <4>1
      <4>3. Filled(WithHeader(d, i))
        BY <1>1, <3>2, FilledNew
      <4>4. WithHeader(d, i).large = d.large
        <5>1. i \in 1 .. Len(File)
          BY <4>2 DEF HeadersAt
        <5> HIDE DEF d
        <5> QED BY <1>2, <1>5, <5>1, HeaderFields
      <4> QED BY <1>5, <4>2, <4>3, <4>4
    <3> QED BY <1>4, <3>1, <3>2
  <2>2. e \in SlotData
    BY <2>1 DEF Filled
  <2> DEFINE large == (LargeBlock \/ e.blockSize > LargeBlockSize)
             l == (LargeBlock' \/ e.large)
  <2>3. LargeBlock' = large /\ large \in BOOLEAN /\ (LargeBlock => large)
    BY <1>9
  <2>4. l \in BOOLEAN /\ (large => l) /\ (e.large => l) /\ (l => large \/ e.large)
    BY <2>3
  <2>5. data' = [data EXCEPT ![BlockNumber] = LargeFrom(e, l)]
    BY <1>9, <2>2 DEF LargeFrom, SlotData
  <2> HIDE DEF large, l
  <2>6. /\ Filled(e) /\ LargeBlock' = large /\ (LargeBlock => large)
        /\ \E k \in BOOLEAN :
             /\ (large => k) /\ (e.large => k) /\ (k => large \/ e.large)
             /\ data' = [data EXCEPT ![BlockNumber] = LargeFrom(e, k)]
        /\ e.large = old.large
        /\ BlockStart' = BlockStart + e.header + e.blockSize
        /\ pc' = IF \/ DataSize - BlockStart' < TooSmallToProcess
                    \/ e.last
                    \/ BlockNumber' \notin Slots
                 THEN "add" ELSE "fill"
    BY <1>9, <2>1, <2>3, <2>4, <2>5, Zenon
  <2> QED BY <1>9, <2>2, <2>3, <2>6, Zenon
<1>10. \/ /\ ~d.headerRead /\ HeadersAt(d) = {}
          /\ data' = [data EXCEPT ![BlockNumber] = [d EXCEPT !.headerRead = TRUE]]
          /\ Done' = TRUE /\ pc' = "add"
          /\ UNCHANGED <<BlockStart, BlockNumber, LargeBlock>>
       \/ \E e \in IF d.headerRead THEN {d} ELSE {WithHeader(d, i) : i \in HeadersAt(d)} :
            /\ LargeBlock' = (LargeBlock \/ e.blockSize > LargeBlockSize)
            /\ data' = [data EXCEPT ![BlockNumber] = [e EXCEPT !.large = LargeBlock' \/ @]]
            /\ BlockStart' = BlockStart + e.header + e.blockSize
            /\ BlockNumber' = BlockNumber + 1
            /\ pc' = IF \/ DataSize - BlockStart' < TooSmallToProcess
                        \/ e.last
                        \/ BlockNumber' \notin Slots
                     THEN "add" ELSE "fill"
            /\ Done' = Done
  <2>1. PICK c \in {Prepared(data[BlockNumber])} : FillWith(c)
    BY DEF Fill, FillWith
  <2>2. FillWith(d)
    BY <2>1
  <2> HIDE DEF d
  <2> QED BY <2>2 DEF FillWith
<1> HIDE DEF d
<1> QED BY <1>7, <1>8, <1>9, <1>10, Zenon

(* If no header is found the round is cut short, and the file is not       *)
(* whole.                                                                  *)
LEMMA FillNothing ==
  ASSUME Inv, Fill, LastBlockNum' = BlockNumber,
         NEW d \in SlotData, data' = [data EXCEPT ![BlockNumber] = d],
         d.incomplete = FALSE, d.large = data[BlockNumber].large, d.base + d.addr <= DataSize,
         ~Whole, Done' = TRUE, pc' = "add", BlockStart' = BlockStart,
         BlockNumber' = BlockNumber, LargeBlock' = LargeBlock,
         data[BlockNumber].incomplete = FALSE
  PROVE  Inv'
<1>0. /\ archive' = archive /\ n' = n /\ avail' = avail /\ end' = end /\ lost' = lost
      /\ origin' = origin /\ DataSize' = DataSize /\ NoDataLeft' = NoDataLeft
      /\ tasks' = tasks /\ block' = block /\ tables' = tables /\ over' = over
      /\ applied' = applied
  BY DEF Fill, source
<1>1. /\ Types /\ AtFill /\ pc = "fill" /\ n >= 1 /\ BlockNumber \in Slots
      /\ (lost => avail < Total(File)) /\ BlockStart \in 0 .. DataSize - 1
      /\ \A k \in Slots : data[k].large => LargeBlock
  BY DEF Inv, Fill, Types, TypeOK
<1>2. /\ archive \in Archives /\ n \in 1 .. Len(archive) /\ BlockNumber \in Nat
      /\ origin \in Nat /\ data \in [Slots -> SlotData] /\ DataSize \in Nat
      /\ BlockStart \in Nat /\ avail \in Nat /\ DataSize <= UNP_READ_SIZE_MT
  BY <1>1, Always
<1>3. /\ data' \in [Slots -> SlotData] /\ data'[BlockNumber] = d
      /\ \A k \in Slots : k # BlockNumber => data'[k] = data[k]
  BY <1>1, <1>2
<1>4. \A k \in Slots : data'[k].base + data'[k].addr <= UNP_READ_SIZE_MT + Reserve
  <2>1. d.base + d.addr <= UNP_READ_SIZE_MT + Reserve
    <3>1. d.base \in Nat /\ d.addr \in Nat
      BY SlotTypes
    <3> QED BY <1>2, <3>1, Sizes
  <2> QED BY <1>1, <1>3, <2>1, Always
<1>5. \A k \in Slots : data'[k].large => LargeBlock'
  BY <1>1, <1>3
<1>6. TypeOK'
  <2>1. BlockNumber' \in 0 .. Cardinality(Slots) /\ LastBlockNum' \in Slots
    BY <1>1, <1>2, Always, SlotNumbers
  <2>2. DataSize' \in 0 .. UNP_READ_SIZE_MT
    BY <1>0, <1>2, Sizes
  <2>3. n' \in 0 .. Len(archive')
    BY <1>0, <1>1, Always
  <2>4. /\ archive' \in Archives /\ lost' \in BOOLEAN /\ LargeBlock' \in BOOLEAN
        /\ NoDataLeft' \in BOOLEAN /\ origin' + DataSize' <= avail'
        /\ Done' \in BOOLEAN /\ over' \in BOOLEAN /\ Cardinality(tasks') <= MaxUserThreads
    BY <1>0, <1>1, Always
  <2> QED BY <1>4, <2>1, <2>2, <2>3, <2>4 DEF TypeOK
<1>7. Types'
  BY <1>0, <1>1, <1>3, <1>6, Always DEF Types, File
<1>8. ~Whole'
  BY <1>0 DEF Whole, File
<1>9. AtAdd'
  <2>1. CASE BlockNumber = 0
    <3>1. Waiting
      BY <1>1, <2>1 DEF AtFill
    <3>2. AppliedTo(archive, applied, n, origin + BlockStart)
      BY <1>1, <3>1, WaitingFacts
    <3> QED BY <1>0, <1>8, <2>1, <3>2 DEF AtAdd
  <2>2. CASE BlockNumber # 0
    <3>1. /\ Blocks /\ LargeLast /\ AppliedFrom(data[0]) /\ AllRead
          /\ \A k \in 0 .. BlockNumber - 1 : IsFresh(k)
          /\ BlockStart = data[BlockNumber - 1].base + data[BlockNumber - 1].blockStart
                            + data[BlockNumber - 1].blockSize
          /\ Uncut(Slots)
      BY <1>1, <1>2, <2>2 DEF AtFill
    <3>2. \A k \in 0 .. BlockNumber - 1 : k \in Slots /\ k # BlockNumber /\ data'[k] = data[k]
      BY <1>1, <1>2, <1>3, SlotNumbers
    <3>3. 0 \in 0 .. BlockNumber - 1 /\ BlockNumber - 1 \in 0 .. BlockNumber - 1
      BY <1>2, <2>2
    <3>4. Blocks'
      <4>1. \A k \in 0 .. BlockNumber' - 1 :
              Held(archive', n', origin', DataSize', NoDataLeft', data'[k])
        BY <1>0, <3>1, <3>2 DEF Blocks
      <4>2. \A k \in 1 .. BlockNumber' - 1 : Follows(DataSize', data'[k - 1], data'[k])
        <5> SUFFICES ASSUME NEW k \in 1 .. BlockNumber - 1
                     PROVE  Follows(DataSize', data'[k - 1], data'[k])
          OBVIOUS
        <5>1. k - 1 \in 0 .. BlockNumber - 1 /\ k \in 0 .. BlockNumber - 1
          BY <1>2
        <5>2. data'[k - 1] = data[k - 1] /\ data'[k] = data[k]
          BY <3>2, <5>1
        <5>3. Follows(DataSize, data[k - 1], data[k])
          BY <3>1 DEF Blocks
        <5> QED BY <1>0, <5>2, <5>3
      <4> QED BY <4>1, <4>2 DEF Blocks
    <3>5. LargeLast'
      <4> SUFFICES ASSUME NEW k \in Slots, NEW l \in Slots, k < l, l < BlockNumber',
                          data'[k].large
                   PROVE  data'[l].large
        BY DEF LargeLast
      <4>1. k \in 0 .. BlockNumber - 1 /\ l \in 0 .. BlockNumber - 1 /\ l < BlockNumber
        BY <1>2, SlotNumbers
      <4>2. data'[k] = data[k] /\ data'[l] = data[l]
        BY <3>2, <4>1
      <4> QED BY <3>1, <4>1, <4>2 DEF LargeLast
    <3>6. AllRead'
      BY <1>0, <3>1 DEF AllRead
    <3>7. \E c \in {data'[BlockNumber' - 1]} : BlockStart' = c.base + c.blockStart + c.blockSize
      BY <3>1, <3>2, <3>3
    <3>8. DataSize' > 0 /\ BlockNumber' > 0
      BY <1>0, <1>1, <1>2, <2>2
    <3>9. InRound'
      BY <1>8, <3>4, <3>5, <3>6, <3>7, <3>8 DEF InRound
    <3>10. AppliedFrom(data[0])' /\ Uncut(Slots)'
      <4>1. data'[0] = data[0]
        BY <3>2, <3>3
      <4> QED BY <1>0, <1>3, <3>1, <4>1 DEF AppliedFrom, Uncut
    <3>11. \A k \in 0 .. BlockNumber' - 1 : IsFresh(k)'
      BY <1>0, <3>1, <3>2 DEF IsFresh
    <3> QED BY <2>2, <3>9, <3>10, <3>11 DEF AtAdd
  <2> QED BY <2>1, <2>2
<1> QED BY <1>5, <1>7, <1>9 DEF Inv

(* The flag is all that LargeFrom changes.                                 *)
LEMMA LargeSame ==
  ASSUME NEW e \in SlotData, NEW l \in BOOLEAN
  PROVE  /\ \A a, m, o, size, noData :
              Held(a, m, o, size, noData, e) => Held(a, m, o, size, noData, LargeFrom(e, l))
         /\ \A a : Fresh(a, e) => Fresh(a, LargeFrom(e, l))
         /\ \A a, o : From(a, o, LargeFrom(e, l)) = From(a, o, e)
         /\ IsRest(LargeFrom(e, l)) <=> IsRest(e)
<1> DEFINE f == LargeFrom(e, l)
<1>1. /\ f.base = e.base /\ f.addr = e.addr /\ f.dataSize = e.dataSize
      /\ f.header = e.header /\ f.table = e.table /\ f.blockSize = e.blockSize
      /\ f.blockStart = e.blockStart /\ f.last = e.last /\ f.good = e.good
      /\ f.headerRead = e.headerRead /\ f.tableRead = e.tableRead /\ f.tables = e.tables
      /\ f.damaged = e.damaged /\ f.incomplete = e.incomplete /\ f.id = e.id
  BY LargeFields
<1> HIDE DEF f
<1>2. IsRest(f) <=> IsRest(e)
  BY <1>1 DEF IsRest
<1>3. ASSUME NEW a, NEW m, NEW o, Holds(a, m, o, e) PROVE Holds(a, m, o, f)
  BY <1>1, <1>2, <1>3 DEF Holds
<1>4. ASSUME NEW a, NEW m, NEW o, NEW size, NEW noData, Held(a, m, o, size, noData, e)
      PROVE  Held(a, m, o, size, noData, f)
  BY <1>1, <1>2, <1>3, <1>4 DEF Held
<1>5. ASSUME NEW a, Fresh(a, e) PROVE Fresh(a, f)
  <2>1. f.tableRead = IsRest(f)
    BY <1>1, <1>5 DEF Fresh, IsRest
  <2> QED BY <1>1, <1>2, <1>5, <2>1 DEF Fresh
<1>6. \A a, o : From(a, o, f) = From(a, o, e)
  BY <1>1, <1>2 DEF From
<1> QED BY <1>2, <1>4, <1>5, <1>6 DEF f

(* A slot that is filled holds the block that follows that of the slot     *)
(* before.                                                                 *)
LEMMA FillOne ==
  ASSUME Inv, Fill, LastBlockNum' = BlockNumber,
         NEW e \in SlotData, NEW large \in BOOLEAN, NEW l \in BOOLEAN,
         Filled(e), LargeBlock' = large, LargeBlock => large,
         large => l, e.large => l, l => large \/ e.large,
         data' = [data EXCEPT ![BlockNumber] = LargeFrom(e, l)],
         e.large = data[BlockNumber].large,
         BlockStart' = BlockStart + e.header + e.blockSize,
         pc' = IF \/ DataSize - BlockStart' < TooSmallToProcess
                  \/ e.last
                  \/ BlockNumber' \notin Slots
               THEN "add" ELSE "fill",
         BlockNumber' = BlockNumber + 1, Done' = Done
  PROVE  Inv'
<1>0. /\ archive' = archive /\ n' = n /\ avail' = avail /\ end' = end /\ lost' = lost
      /\ origin' = origin /\ DataSize' = DataSize /\ NoDataLeft' = NoDataLeft
      /\ tasks' = tasks /\ block' = block /\ tables' = tables /\ over' = over
      /\ applied' = applied
  BY DEF Fill, source
<1>1. /\ Types /\ AtFill /\ pc = "fill" /\ n >= 1 /\ BlockNumber \in Slots
      /\ (lost => avail < Total(File)) /\ BlockStart \in 0 .. DataSize - 1
      /\ \A k \in Slots : data[k].large => LargeBlock
  BY DEF Inv, Fill, Types, TypeOK
<1>2. /\ archive \in Archives /\ n \in 1 .. Len(archive) /\ BlockNumber \in Nat
      /\ origin \in Nat /\ data \in [Slots -> SlotData] /\ DataSize \in Nat
      /\ BlockStart \in Nat /\ avail \in Nat /\ DataSize <= UNP_READ_SIZE_MT
      /\ BlockNumber < Cardinality(Slots) /\ Cardinality(Slots) \in Nat
  BY <1>1, Always, SlotNumbers
<1> DEFINE f == LargeFrom(e, l)
<1>3. /\ f \in SlotData /\ f.large = l /\ f.base = e.base /\ f.addr = e.addr
      /\ f.blockSize = e.blockSize /\ f.blockStart = e.blockStart /\ f.last = e.last
      /\ f.incomplete = e.incomplete /\ f.id = e.id
  BY LargeFields
<1>4. /\ Held(archive, n, origin, DataSize, NoDataLeft, e) /\ Fresh(archive, e)
      /\ BlockStart + e.header + e.blockSize = e.base + e.blockStart + e.blockSize
      /\ e.base + e.addr <= DataSize
      /\ BlockNumber = 0 => AppliedFrom(e)
      /\ BlockNumber > 0 => ~IsRest(e) /\ e.id[2] = data[BlockNumber - 1].id[2] + 1
  BY DEF Filled
<1>5. /\ Held(archive, n, origin, DataSize, NoDataLeft, f) /\ Fresh(archive, f)
      /\ From(archive, origin, f) = From(archive, origin, e)
      /\ IsRest(f) <=> IsRest(e)
  BY <1>4, LargeSame
<1> HIDE DEF f
<1>6. /\ data' \in [Slots -> SlotData] /\ data'[BlockNumber] = f
      /\ \A k \in Slots : k # BlockNumber => data'[k] = data[k]
  BY <1>1, <1>2, <1>3 DEF f
<1>7. /\ e.header \in Nat /\ e.blockSize \in Nat /\ e.base \in Nat /\ e.addr \in Nat
      /\ e.blockStart \in Nat /\ e.last \in BOOLEAN /\ e.large \in BOOLEAN
  BY SlotTypes
<1>8. f.incomplete = FALSE
  BY <1>3, <1>4 DEF Fresh
<1>9. BlockStart' \in Nat /\ BlockStart' = f.base + f.blockStart + f.blockSize
  BY <1>2, <1>3, <1>4, <1>7
<1>10. pc' \in {"add", "fill"}
  OBVIOUS
<1>11. pc' = "fill" => /\ BlockStart' + TooSmallToProcess <= DataSize
                       /\ f.last = FALSE /\ BlockNumber' \in Slots
  <2> SUFFICES ASSUME pc' = "fill"
               PROVE  /\ BlockStart' + TooSmallToProcess <= DataSize
                      /\ f.last = FALSE /\ BlockNumber' \in Slots
    OBVIOUS
  <2>1. /\ ~(DataSize - BlockStart' < TooSmallToProcess)
        /\ ~e.last /\ BlockNumber' \in Slots
    OBVIOUS
  <2>2. BlockStart' + TooSmallToProcess <= DataSize
    BY <1>2, <1>9, <2>1, Sizes
  <2>3. f.last = FALSE
    BY <1>3, <1>7, <2>1
  <2> QED BY <2>1, <2>2, <2>3
<1>12. \A k \in Slots : data'[k].large => LargeBlock'
  <2>1. f.large => LargeBlock'
    BY <1>1, <1>3
  <2> QED BY <1>1, <1>6, <2>1
<1>13. TypeOK'
  <2>1. BlockNumber' \in 0 .. Cardinality(Slots) /\ LastBlockNum' \in Slots
    BY <1>1, <1>2
  <2>2. DataSize' \in 0 .. UNP_READ_SIZE_MT
    BY <1>0, <1>2, Sizes
  <2>3. n' \in 0 .. Len(archive')
    BY <1>0, <1>1, Always
  <2>4. /\ archive' \in Archives /\ lost' \in BOOLEAN /\ LargeBlock' \in BOOLEAN
        /\ NoDataLeft' \in BOOLEAN /\ origin' + DataSize' <= avail'
        /\ Done' \in BOOLEAN /\ over' \in BOOLEAN /\ Cardinality(tasks') <= MaxUserThreads
    BY <1>0, <1>1, Always
  <2>5. \A k \in Slots : data'[k].base + data'[k].addr <= UNP_READ_SIZE_MT + Reserve
    <3>1. f.base + f.addr <= UNP_READ_SIZE_MT + Reserve
      BY <1>2, <1>3, <1>4, <1>7, Sizes
    <3> QED BY <1>1, <1>6, <3>1, Always
  <2>6. pc' = "fill" => BlockStart' \in 0 .. DataSize' - 1
    BY <1>0, <1>2, <1>9, <1>11, Sizes
  <2> QED BY <1>10, <2>1, <2>2, <2>3, <2>4, <2>5, <2>6 DEF TypeOK
<1>14. Types'
  BY <1>0, <1>1, <1>6, <1>9, <1>13, Always DEF Types, File
<1>15. BlockNumber = 0 \/ /\ BlockNumber > 0 /\ Blocks /\ LargeLast /\ AppliedFrom(data[0])
                          /\ \A k \in 0 .. BlockNumber - 1 : IsFresh(k)
                          /\ data[BlockNumber - 1].last = FALSE
                          /\ BlockStart = data[BlockNumber - 1].base
                                            + data[BlockNumber - 1].blockStart
                                            + data[BlockNumber - 1].blockSize
                          /\ BlockStart + TooSmallToProcess <= DataSize
  BY <1>1, <1>2 DEF AtFill
<1>16. /\ \A k \in 0 .. BlockNumber - 1 : k \in Slots /\ data'[k] = data[k]
       /\ \A k \in 0 .. BlockNumber :
            k \in Slots /\ (k \in 0 .. BlockNumber - 1 \/ k = BlockNumber)
  BY <1>2, <1>6, SlotNumbers
<1>17. Blocks'
  <2>1. \A k \in 0 .. BlockNumber' - 1 :
          Held(archive', n', origin', DataSize', NoDataLeft', data'[k])
    <3> SUFFICES ASSUME NEW k \in 0 .. BlockNumber
                 PROVE  Held(archive, n, origin, DataSize, NoDataLeft, data'[k])
      BY <1>0, <1>2
    <3>1. CASE k = BlockNumber
      BY <1>5, <1>6, <3>1
    <3>2. CASE k \in 0 .. BlockNumber - 1
      <4>1. BlockNumber > 0
        BY <1>2, <3>2
      <4>2. Held(archive, n, origin, DataSize, NoDataLeft, data[k])
        BY <1>15, <3>2, <4>1 DEF Blocks
      <4> QED BY <1>16, <3>2, <4>2
    <3> QED BY <1>16, <3>1, <3>2
  <2>2. \A k \in 1 .. BlockNumber' - 1 : Follows(DataSize', data'[k - 1], data'[k])
    <3> SUFFICES ASSUME NEW k \in 1 .. BlockNumber
                 PROVE  Follows(DataSize, data'[k - 1], data'[k])
      BY <1>0, <1>2
    <3>0. BlockNumber > 0 /\ k \in Nat /\ k - 1 \in 0 .. BlockNumber - 1
      BY <1>2
    <3>1. CASE k = BlockNumber
      <4>1. data'[k - 1] = data[k - 1] /\ data'[k] = f
        BY <1>6, <1>16, <3>0, <3>1
      <4>2. /\ data[k - 1].last = FALSE
            /\ data[k - 1].base + data[k - 1].blockStart + data[k - 1].blockSize
                 + TooSmallToProcess <= DataSize
            /\ f.id[2] = data[k - 1].id[2] + 1
            /\ ~IsRest(f)
        BY <1>3, <1>4, <1>5, <1>15, <3>0, <3>1
      <4> QED BY <4>1, <4>2 DEF Follows
    <3>2. CASE k # BlockNumber
      <4>1. k \in 0 .. BlockNumber - 1 /\ k \in 1 .. BlockNumber - 1
        BY <1>2, <3>0, <3>2
      <4>2. Follows(DataSize, data[k - 1], data[k])
        BY <1>15, <3>0, <4>1 DEF Blocks
      <4> QED BY <1>16, <3>0, <4>1, <4>2
    <3> QED BY <3>1, <3>2
  <2> QED BY <2>1, <2>2 DEF Blocks
<1>18. LargeLast'
  <2> SUFFICES ASSUME NEW k \in Slots, NEW m \in Slots, k < m, m < BlockNumber',
                      data'[k].large
               PROVE  data'[m].large
    BY DEF LargeLast
  <2>1. k \in Nat /\ m \in Nat /\ k \in 0 .. BlockNumber - 1 /\ m <= BlockNumber
        /\ BlockNumber > 0
    BY <1>2, SlotNumbers
  <2>2. data'[k] = data[k] /\ data[k].large
    BY <1>16, <2>1
  <2>3. CASE m = BlockNumber
    <3>1. f.large
      BY <1>1, <1>3, <2>2
    <3> QED BY <1>6, <2>3, <3>1
  <2>4. CASE m # BlockNumber
    <3>1. m < BlockNumber /\ m \in 0 .. BlockNumber - 1
      BY <1>2, <2>1, <2>4
    <3>2. data[m].large
      BY <1>15, <2>1, <2>2, <3>1 DEF LargeLast
    <3> QED BY <1>16, <3>1, <3>2
  <2> QED BY <2>3, <2>4
<1>19. AppliedFrom(data[0])'
  <2>1. CASE BlockNumber = 0
    <3>1. AppliedTo(archive, applied, n, From(archive, origin, f))
      BY <1>4, <1>5, <2>1 DEF AppliedFrom
    <3> QED BY <1>0, <1>6, <2>1, <3>1 DEF AppliedFrom
  <2>2. CASE BlockNumber # 0
    <3>1. data'[0] = data[0]
      BY <1>2, <1>16, <2>2
    <3> QED BY <1>0, <1>15, <2>2, <3>1 DEF AppliedFrom
  <2> QED BY <2>1, <2>2
<1>20. \A k \in 0 .. BlockNumber' - 1 : IsFresh(k)'
  <2> SUFFICES ASSUME NEW k \in 0 .. BlockNumber PROVE Fresh(archive, data'[k])
    BY <1>0, <1>2 DEF IsFresh
  <2>1. CASE k = BlockNumber
    BY <1>5, <1>6, <2>1
  <2>2. CASE k \in 0 .. BlockNumber - 1
    <3>1. BlockNumber > 0
      BY <1>2, <2>2
    <3>2. Fresh(archive, data[k])
      BY <1>15, <2>2, <3>1 DEF IsFresh
    <3> QED BY <1>16, <2>2, <3>2
  <2> QED BY <1>16, <2>1, <2>2
<1>21. Uncut(Slots)'
  <2> SUFFICES ASSUME NEW k \in Slots PROVE data'[k].incomplete = FALSE
    BY DEF Uncut
  <2>1. CASE k = BlockNumber
    BY <1>6, <1>8, <2>1
  <2>2. CASE k # BlockNumber
    <3>1. data[k].incomplete = FALSE
      <4>1. CASE BlockNumber = 0
        BY <1>1, <2>2, <4>1 DEF AtFill, Uncut
      <4>2. CASE BlockNumber > 0
        BY <1>1, <4>2 DEF AtFill, Uncut
      <4>3. BlockNumber = 0 \/ BlockNumber > 0
        BY <1>2
      <4> QED BY <4>1, <4>2, <4>3
    <3> QED BY <1>6, <2>2, <3>1
  <2> QED BY <2>1, <2>2
<1>22. AllRead' /\ Done' = FALSE /\ DataSize' > 0 /\ BlockNumber' > 0 /\ BlockNumber' # 0
  BY <1>0, <1>1, <1>2 DEF AtFill, AllRead
<1>23. BlockNumber' - 1 = BlockNumber /\ data'[BlockNumber' - 1] = f
  BY <1>2, <1>6
<1>24. pc' = "fill" => AtFill'
  <2> SUFFICES ASSUME pc' = "fill" PROVE AtFill'
    OBVIOUS
  <2>1. \E d \in {data'[BlockNumber' - 1]} :
            /\ BlockStart' = d.base + d.blockStart + d.blockSize
            /\ BlockStart' + TooSmallToProcess <= DataSize'
            /\ d.last = FALSE
    BY <1>0, <1>9, <1>11, <1>23
  <2>2. BlockStart' + TooSmallToProcess <= DataSize'
    BY <1>0, <1>11
  <2> QED BY <1>11, <1>17, <1>18, <1>19, <1>20, <1>21, <1>22, <2>1, <2>2 DEF AtFill
<1>25. pc' = "add" => AtAdd'
  <2>1. \E d \in {data'[BlockNumber' - 1]} : BlockStart' = d.base + d.blockStart + d.blockSize
    BY <1>9, <1>23
  <2>2. InRound'
    BY <1>17, <1>18, <1>22, <1>23, <2>1 DEF InRound
  <2> QED BY <1>19, <1>20, <1>21, <1>22, <2>2 DEF AtAdd
<1> QED BY <1>10, <1>12, <1>14, <1>24, <1>25 DEF Inv

(* Filling a slot keeps the invariant.                                     *)
LEMMA FillStep ==
  ASSUME Inv, Fill
  PROVE  Inv'
  BY FillCases, FillNothing, FillOne

-----------------------------------------------------------------------------
(* The tasks.                                                              *)

(* A multiple of M has the remainder 0, and the next one is M further.     *)
LEMMA MultipleOf ==
  ASSUME NEW M \in Nat, M > 0
  PROVE  /\ \A q \in Nat : M * q \in Nat /\ (M * q) % M = 0
         /\ \A q, r \in Nat : q < r => M * q + M <= M * r
         /\ \A k \in Nat : /\ k \div M \in Nat /\ M * (k \div M) <= k
                           /\ k < M * (k \div M) + M
                           /\ k % M = 0 => k = M * (k \div M)
<1>1. ASSUME NEW k \in Nat
      PROVE  /\ k \div M \in Nat /\ k = M * (k \div M) + (k % M) /\ k % M \in 0 .. M - 1
             /\ M * (k \div M) \in Nat
  <2> DEFINE q == k \div M
             r == k % M
  <2>1. q \in Int /\ r \in 0 .. M - 1 /\ k = M * q + r
    OBVIOUS
  <2> HIDE DEF q, r
  <2>2. q < 0 => M * q <= -M
    BY <2>1
  <2>3. q >= 0
    BY <2>1, <2>2
  <2>4. M * q \in Nat
    BY <2>1, <2>3
  <2> QED BY <2>1, <2>3, <2>4 DEF q, r
<1>2. ASSUME NEW q \in Nat, NEW r \in Nat, q < r PROVE M * q + M <= M * r
  <2>1. r - q \in Nat /\ r - q >= 1
    BY <1>2
  <2>2. M * (r - q) >= M
    BY <2>1
  <2>3. M * r = M * q + M * (r - q)
    OBVIOUS
  <2> QED BY <2>2, <2>3
<1>3. ASSUME NEW q \in Nat PROVE M * q \in Nat /\ (M * q) % M = 0
  <2> DEFINE x == M * q
             d == x \div M
             r == x % M
  <2>1. x \in Nat
    OBVIOUS
  <2>2. d \in Nat /\ x = M * d + r /\ r \in 0 .. M - 1 /\ M * d \in Nat
    <3> HIDE DEF x
    <3> QED BY <1>1, <2>1
  <2>3. x = M * q
    OBVIOUS
  <2> HIDE DEF x, d, r
  <2>4. ~(d < q)
    <3> SUFFICES ASSUME d < q PROVE FALSE
      OBVIOUS
    <3>1. M * d + M <= M * q
      BY <1>2, <2>2
    <3> QED BY <2>1, <2>2, <2>3, <3>1
  <2>5. ~(q < d)
    <3> SUFFICES ASSUME q < d PROVE FALSE
      OBVIOUS
    <3>1. M * q + M <= M * d
      BY <1>2, <2>2
    <3> QED BY <2>1, <2>2, <2>3, <3>1
  <2>6. d = q
    BY <2>2, <2>4, <2>5
  <2> QED BY <2>1, <2>2, <2>3, <2>6 DEF x, r
<1>4. ASSUME NEW k \in Nat
      PROVE  /\ k \div M \in Nat /\ M * (k \div M) <= k /\ k < M * (k \div M) + M
             /\ k % M = 0 => k = M * (k \div M)
  <2> DEFINE q == k \div M
             r == k % M
  <2>1. q \in Nat /\ k = M * q + r /\ r \in 0 .. M - 1 /\ M * q \in Nat
    BY <1>1
  <2> HIDE DEF q, r
  <2>2. M * q <= k /\ k < M * q + M /\ (r = 0 => k = M * q)
    BY <2>1
  <2> QED BY <2>1, <2>2 DEF q, r
<1> QED BY <1>2, <1>3, <1>4

(* N blocks divided among the threads, M to a task.                        *)
Divided(N, M) ==
  {<<first, IF first + M <= N THEN first + M - 1 ELSE N - 1>> :
     first \in {k \in 0 .. N - 1 : k % M = 0}}
EndOf(N, M, first) == IF first + M <= N THEN first + M - 1 ELSE N - 1

(* The tasks are the pairs <<M * q, EndOf(N, M, M * q)>>.                  *)
LEMMA DividedMembers ==
  ASSUME NEW N \in Nat, NEW M \in Nat, M > 0
  PROVE  /\ \A t \in Divided(N, M) :
              \E q \in Nat : /\ t = <<M * q, EndOf(N, M, M * q)>> /\ M * q < N /\ M * q \in Nat
                             /\ EndOf(N, M, M * q) \in Nat
                             /\ M * q <= EndOf(N, M, M * q) /\ EndOf(N, M, M * q) < N
                             /\ EndOf(N, M, M * q) < M * q + M
         /\ \A q \in Nat : M * q < N => <<M * q, EndOf(N, M, M * q)>> \in Divided(N, M)
<1>1. \A first \in 0 .. N - 1 :
        /\ EndOf(N, M, first) \in Nat /\ first <= EndOf(N, M, first)
        /\ EndOf(N, M, first) < N /\ EndOf(N, M, first) < first + M
  BY DEF EndOf
<1>2. ASSUME NEW t \in Divided(N, M)
      PROVE  \E q \in Nat : /\ t = <<M * q, EndOf(N, M, M * q)>> /\ M * q < N /\ M * q \in Nat
                            /\ EndOf(N, M, M * q) \in Nat
                            /\ M * q <= EndOf(N, M, M * q) /\ EndOf(N, M, M * q) < N
                            /\ EndOf(N, M, M * q) < M * q + M
  <2>1. PICK first \in 0 .. N - 1 : first % M = 0 /\ t = <<first, EndOf(N, M, first)>>
    BY DEF Divided, EndOf
  <2>2. first \in Nat /\ first < N
    BY <2>1
  <2>3. first \div M \in Nat /\ first = M * (first \div M)
    BY <2>1, <2>2, MultipleOf
  <2> DEFINE q == first \div M
  <2>4. q \in Nat /\ first = M * q
    BY <2>3
  <2> HIDE DEF q
  <2> QED BY <1>1, <2>1, <2>2, <2>4
<1>3. ASSUME NEW q \in Nat, M * q < N
      PROVE  <<M * q, EndOf(N, M, M * q)>> \in Divided(N, M)
  <2>1. M * q \in Nat /\ (M * q) % M = 0
    BY MultipleOf
  <2> DEFINE first == M * q
  <2>2. first \in 0 .. N - 1 /\ first % M = 0
    BY <1>3, <2>1
  <2> HIDE DEF first
  <2>3. <<first, EndOf(N, M, first)>> \in Divided(N, M)
    BY <2>2 DEF Divided, EndOf
  <2> QED BY <2>3 DEF first
<1> QED BY <1>2, <1>3

(* The tasks do not overlap, every block has one, and there are no more    *)
(* than threads.                                                           *)
LEMMA DividedFacts ==
  ASSUME NEW N \in Nat, NEW M \in Nat, M > 0, NEW U \in Nat, N <= U * M
  PROVE  /\ Divided(N, M) \subseteq Nat \X Nat
         /\ IsFiniteSet(Divided(N, M)) /\ Cardinality(Divided(N, M)) <= U
         /\ \A t \in Divided(N, M) : t[1] <= t[2] /\ t[2] < N
         /\ \A t, u \in Divided(N, M) : t = u \/ t[2] < u[1] \/ u[2] < t[1]
         /\ \A k \in 0 .. N - 1 : \E t \in Divided(N, M) : t[1] <= k /\ k <= t[2]
<1> DEFINE T == Divided(N, M)
<1>1. T \subseteq Nat \X Nat /\ \A t \in T : t[1] <= t[2] /\ t[2] < N
  BY DividedMembers
<1>2. ASSUME NEW t \in T, NEW u \in T PROVE t = u \/ t[2] < u[1] \/ u[2] < t[1]
  <2>1. PICK q \in Nat : /\ t = <<M * q, EndOf(N, M, M * q)>> /\ M * q \in Nat
                         /\ EndOf(N, M, M * q) \in Nat /\ EndOf(N, M, M * q) < M * q + M
    BY DividedMembers
  <2>2. PICK r \in Nat : /\ u = <<M * r, EndOf(N, M, M * r)>> /\ M * r \in Nat
                         /\ EndOf(N, M, M * r) \in Nat /\ EndOf(N, M, M * r) < M * r + M
    BY DividedMembers
  <2>3. (q < r => M * q + M <= M * r) /\ (r < q => M * r + M <= M * q)
    BY MultipleOf
  <2>4. CASE q = r
    BY <2>1, <2>2, <2>4
  <2>5. CASE q < r
    <3>1. EndOf(N, M, M * q) < M * r
      BY <2>1, <2>2, <2>3, <2>5
    <3> QED BY <2>1, <2>2, <3>1
  <2>6. CASE r < q
    <3>1. EndOf(N, M, M * r) < M * q
      BY <2>1, <2>2, <2>3, <2>6
    <3> QED BY <2>1, <2>2, <3>1
  <2> QED BY <2>4, <2>5, <2>6
<1>3. ASSUME NEW k \in 0 .. N - 1 PROVE \E t \in T : t[1] <= k /\ k <= t[2]
  <2>1. k \in Nat /\ k < N
    OBVIOUS
  <2>2. /\ k \div M \in Nat /\ M * (k \div M) <= k /\ k < M * (k \div M) + M
        /\ M * (k \div M) \in Nat
    BY <2>1, MultipleOf
  <2> DEFINE q == k \div M
             first == M * q
  <2>3. q \in Nat /\ first \in Nat /\ first <= k /\ k < first + M /\ first < N
    BY <2>1, <2>2
  <2>4. <<first, EndOf(N, M, first)>> \in T
    <3> HIDE DEF q
    <3> QED BY <2>3, DividedMembers
  <2> HIDE DEF first, T
  <2>5. k <= EndOf(N, M, first)
    BY <2>1, <2>3 DEF EndOf
  <2> QED BY <2>3, <2>4, <2>5
<1>4. IsFiniteSet(T) /\ Cardinality(T) <= U
  <2> DEFINE S == {q \in 0 .. U - 1 : M * q < N}
             g == [q \in S |-> <<M * q, EndOf(N, M, M * q)>>]
  <2>1. g \in [S -> T]
    <3>1. \A q \in S : <<M * q, EndOf(N, M, M * q)>> \in T
      <4> SUFFICES ASSUME NEW q \in S PROVE <<M * q, EndOf(N, M, M * q)>> \in T
        OBVIOUS
      <4>1. q \in Nat /\ M * q < N
        OBVIOUS
      <4> QED BY <4>1, DividedMembers
    <3> HIDE DEF S, T
    <3> QED BY <3>1
  <2>2. \A t \in T : \E q \in S : g[q] = t
    <3> SUFFICES ASSUME NEW t \in T PROVE \E q \in S : g[q] = t
      OBVIOUS
    <3>1. PICK q \in Nat : t = <<M * q, EndOf(N, M, M * q)>> /\ M * q < N
      BY DividedMembers
    <3>2. q < U
      <4> SUFFICES ASSUME U <= q PROVE FALSE
        BY <3>1
      <4>1. M * U <= M * q
        <5>1. U < q => M * U + M <= M * q
          BY MultipleOf
        <5>2. M * U \in Nat /\ M * q \in Nat
          BY MultipleOf
        <5> QED BY <5>1, <5>2
      <4>2. M * U = U * M /\ M * U \in Nat /\ M * q \in Nat
        BY MultipleOf
      <4> QED BY <3>1, <4>1, <4>2
    <3>3. q \in S
      BY <3>1, <3>2
    <3> QED BY <3>1, <3>3
  <2>3. IsFiniteSet(0 .. U - 1) /\ Cardinality(0 .. U - 1) = U
    <3> DEFINE top == U - 1
    <3>1. top \in Int /\ (0 > top <=> U = 0) /\ top - 0 + 1 = U
      OBVIOUS
    <3> HIDE DEF top
    <3>2. IsFiniteSet(0 .. top) /\ Cardinality(0 .. top) = IF 0 > top THEN 0 ELSE top - 0 + 1
      BY <3>1, FS_Interval
    <3> QED BY <3>1, <3>2 DEF top
  <2>4. IsFiniteSet(S) /\ Cardinality(S) <= U
    <3>1. S \subseteq 0 .. U - 1
      OBVIOUS
    <3> HIDE DEF S
    <3> QED BY <2>3, <3>1, FS_Subset
  <2>5. g \in Surjection(S, T)
    <3> HIDE DEF S, T, g
    <3> QED BY <2>1, <2>2 DEF Surjection
  <2>6. IsFiniteSet(T) /\ Cardinality(T) <= Cardinality(S)
    <3> HIDE DEF S, T, g
    <3> QED BY <2>4, <2>5, FS_Surjection
  <2>7. Cardinality(T) \in Nat /\ Cardinality(S) \in Nat
    BY <2>4, <2>6, FS_CardinalityType
  <2> QED BY <2>4, <2>6, <2>7
<1> QED BY <1>1, <1>2, <1>3, <1>4

(* The large blocks come last, and the others are shared out.              *)
LEMMA NormalFirst ==
  ASSUME BlockNumber \in Nat, BlockNumber <= Cardinality(Slots), LargeLast
  PROVE  /\ BlockNumberMT \in Nat /\ BlockNumberMT <= BlockNumber
         /\ \A k \in 0 .. BlockNumber - 1 : k < BlockNumberMT <=> ~data[k].large
<1> DEFINE L == {k \in 0 .. BlockNumber : k < BlockNumber => data[k].large}
<1>1. L \in SUBSET Nat /\ BlockNumber \in L
  OBVIOUS
<1>2. PICK m \in L : \A j \in L : m <= j
  <2> HIDE DEF L
  <2> QED BY <1>1, HasLeast
<1>3. m \in Nat /\ m <= BlockNumber
  OBVIOUS
<1>4. ASSUME NEW k \in 0 .. BlockNumber - 1 PROVE k < m <=> ~data[k].large
  <2>1. k \in Nat /\ k < BlockNumber /\ k \in Slots
    BY SlotNumbers
  <2>2. CASE k < m
    <3>1. k \notin L
      BY <1>2, <1>3, <2>1, <2>2
    <3> QED BY <2>1, <2>2, <3>1
  <2>3. CASE ~(k < m)
    <3>1. m < BlockNumber /\ data[m].large /\ m \in Slots
      BY <1>3, <2>1, <2>3, SlotNumbers
    <3>2. CASE k = m
      BY <2>3, <3>1, <3>2
    <3>3. CASE k # m
      <4>1. m < k
        BY <1>3, <2>1, <2>3, <3>3
      <4>2. data[k].large
        BY <2>1, <3>1, <4>1 DEF LargeLast
      <4> QED BY <2>3, <4>2
    <3> QED BY <3>2, <3>3
  <2> QED BY <2>2, <2>3
<1>5. {k \in 0 .. BlockNumber - 1 : ~data[k].large} = 0 .. m - 1
  BY <1>3, <1>4
<1>6. Cardinality(0 .. m - 1) = m
  <2> DEFINE top == m - 1
  <2>1. top \in Int /\ (0 > top <=> m = 0) /\ top - 0 + 1 = m
    BY <1>3
  <2> HIDE DEF top
  <2>2. Cardinality(0 .. top) = IF 0 > top THEN 0 ELSE top - 0 + 1
    BY <2>1, FS_Interval
  <2> QED BY <2>1, <2>2 DEF top
<1>7. BlockNumberMT = m
  BY <1>5, <1>6 DEF BlockNumberMT
<1> QED BY <1>3, <1>4, <1>7

(* Rounding up, no block is left without a thread.                         *)
LEMMA EnoughThreads ==
  ASSUME NEW N \in Nat, NEW U \in Nat, U > 0
  PROVE  /\ (N + U - 1) \div U \in Nat /\ N <= U * ((N + U - 1) \div U)
         /\ N > 0 => (N + U - 1) \div U > 0
<1> DEFINE x == N + U - 1
<1>1. x \in Nat
  OBVIOUS
<1>2. x \div U \in Nat /\ x < U * (x \div U) + U
  <2> HIDE DEF x
  <2> QED BY <1>1, MultipleOf
<1> DEFINE M == x \div U
<1>3. M \in Nat /\ x < U * M + U /\ x = N + U - 1
  BY <1>2
<1>4. (N + U - 1) \div U = M
  OBVIOUS
<1> HIDE DEF M, x
<1>5. U * M \in Nat
  BY <1>3
<1>6. N <= U * M
  BY <1>3, <1>5
<1>7. N > 0 => M > 0
  BY <1>3, <1>6
<1> QED BY <1>3, <1>4, <1>6, <1>7

(* The tasks of a round: the normal blocks, each in one task, one task at  *)
(* most for a thread (AddTasks).                                           *)
LEMMA TasksFacts ==
  ASSUME BlockNumber \in Nat, BlockNumber <= Cardinality(Slots), LargeLast, AddTasks
  PROVE  /\ tasks' \subseteq Nat \X Nat
         /\ IsFiniteSet(tasks') /\ Cardinality(tasks') <= MaxUserThreads
         /\ \A t \in tasks' : /\ t[1] <= t[2] /\ t[2] < BlockNumber
                              /\ \A k \in t[1] .. t[2] : ~data[k].large
         /\ \A t, u \in tasks' : t = u \/ t[2] < u[1] \/ u[2] < t[1]
         /\ \A k \in 0 .. BlockNumber - 1 :
              ~data[k].large => \E t \in tasks' : t[1] <= k /\ k <= t[2]
<1> DEFINE N == BlockNumberMT
           M == MaxBlockPerThread
           U == MaxUserThreads
<1>1. /\ N \in Nat /\ N <= BlockNumber
      /\ \A k \in 0 .. BlockNumber - 1 : k < N <=> ~data[k].large
  BY NormalFirst
<1>2. U \in Nat /\ U > 0
  BY Sizes
<1>3. M \in Nat /\ N <= U * M /\ (N > 0 => M > 0)
  <2>1. M = (N + U - 1) \div U
    BY DEF MaxBlockPerThread
  <2> HIDE DEF N, M, U
  <2> QED BY <1>1, <1>2, <2>1, EnoughThreads
<1>4. tasks' = Divided(N, M)
  BY DEF AddTasks, Divided
<1> HIDE DEF N, M, U
<1>5. CASE N = 0
  <2>1. 0 .. N - 1 = {}
    BY <1>5
  <2>2. tasks' = {}
    BY <1>4, <2>1 DEF Divided
  <2>3. IsFiniteSet({}) /\ Cardinality({}) = 0
    BY FS_EmptySet
  <2>4. \A k \in 0 .. BlockNumber - 1 : data[k].large
    BY <1>1, <1>5
  <2>5. Cardinality(tasks') <= MaxUserThreads
    BY <1>2, <2>2, <2>3 DEF U
  <2> QED BY <2>2, <2>3, <2>4, <2>5
<1>6. CASE N # 0
  <2>1. M > 0
    BY <1>1, <1>3, <1>6
  <2>2. /\ tasks' \subseteq Nat \X Nat /\ IsFiniteSet(tasks') /\ Cardinality(tasks') <= U
        /\ \A t \in tasks' : t[1] <= t[2] /\ t[2] < N
        /\ \A t, u \in tasks' : t = u \/ t[2] < u[1] \/ u[2] < t[1]
        /\ \A k \in 0 .. N - 1 : \E t \in tasks' : t[1] <= k /\ k <= t[2]
    BY <1>1, <1>2, <1>3, <1>4, <2>1, DividedFacts
  <2>3. ASSUME NEW t \in tasks'
        PROVE  /\ t[2] < BlockNumber
               /\ \A k \in t[1] .. t[2] : ~data[k].large
    <3>1. t[1] \in Nat /\ t[2] \in Nat /\ t[2] < N
      BY <2>2
    <3>2. \A k \in t[1] .. t[2] : k \in 0 .. BlockNumber - 1 /\ k < N
      BY <1>1, <3>1
    <3> QED BY <1>1, <3>1, <3>2
  <2>4. ASSUME NEW k \in 0 .. BlockNumber - 1, ~data[k].large
        PROVE  \E t \in tasks' : t[1] <= k /\ k <= t[2]
    <3>1. k < N
      BY <1>1, <2>4
    <3>2. k \in 0 .. N - 1
      BY <1>1, <3>1
    <3> QED BY <2>2, <3>2
  <2> QED BY <2>2, <2>3, <2>4 DEF U
<1> QED BY <1>5, <1>6

(* When the tasks are made every normal block is pending; a round without  *)
(* blocks ends a file that is not whole.                                   *)
LEMMA AddTasksStep ==
  ASSUME Inv, AddTasks
  PROVE  Inv'
<1>0. /\ pc = "add" /\ block' = 0
      /\ pc' = IF BlockNumber > 0 THEN "decode" ELSE IF Done THEN "finish" ELSE "read"
      /\ archive' = archive /\ n' = n /\ avail' = avail /\ end' = end /\ lost' = lost
      /\ origin' = origin /\ DataSize' = DataSize /\ BlockStart' = BlockStart
      /\ BlockNumber' = BlockNumber /\ NoDataLeft' = NoDataLeft /\ LargeBlock' = LargeBlock
      /\ LastBlockNum' = LastBlockNum /\ Done' = Done /\ data' = data /\ tables' = tables
      /\ over' = over /\ applied' = applied
  BY DEF AddTasks, source, buffer, round
<1>1. /\ Types /\ AtAdd /\ n >= 1 /\ (lost => avail < Total(File))
      /\ \A k \in Slots : data[k].large => LargeBlock
  BY <1>0 DEF Inv, Types
<1>2. /\ archive \in Archives /\ n \in 1 .. Len(archive) /\ BlockNumber \in Nat
      /\ origin \in Nat /\ BlockStart \in Nat /\ BlockNumber <= Cardinality(Slots)
      /\ DataSize \in Nat /\ data \in [Slots -> SlotData]
  BY <1>1, Always
<1>3. BlockNumber = 0 => Done /\ ~Whole /\ AppliedTo(archive, applied, n, origin + BlockStart)
  BY <1>1 DEF AtAdd
<1>4. BlockNumber # 0 => /\ InRound /\ AppliedFrom(data[0]) /\ Uncut(Slots)
                         /\ \A k \in 0 .. BlockNumber - 1 : IsFresh(k)
  BY <1>1 DEF AtAdd
<1>5. pc' = IF BlockNumber = 0 THEN "finish" ELSE "decode"
  BY <1>0, <1>2, <1>3
<1>6. /\ tasks' \subseteq Nat \X Nat
      /\ IsFiniteSet(tasks') /\ Cardinality(tasks') <= MaxUserThreads
      /\ BlockNumber # 0 =>
           /\ \A t \in tasks' : /\ t[1] <= t[2] /\ t[2] < BlockNumber
                                /\ \A k \in t[1] .. t[2] : ~data[k].large
           /\ \A t, u \in tasks' : t = u \/ t[2] < u[1] \/ u[2] < t[1]
           /\ \A k \in 0 .. BlockNumber - 1 :
                ~data[k].large => \E t \in tasks' : t[1] <= k /\ k <= t[2]
  <2>1. LargeLast
    <3>1. CASE BlockNumber = 0
      BY <1>2, <3>1, SlotNumbers DEF LargeLast
    <3>2. CASE BlockNumber # 0
      BY <1>4, <3>2 DEF InRound
    <3> QED BY <3>1, <3>2
  <2> QED BY <1>2, <2>1, TasksFacts
<1>7. TypeOK'
  <2>1. /\ BlockNumber' \in 0 .. Cardinality(Slots) /\ LastBlockNum' \in Slots
        /\ NoDataLeft' \in BOOLEAN
    BY <1>0, <1>1, <1>2, Always, SlotNumbers
  <2>2. DataSize' \in 0 .. UNP_READ_SIZE_MT /\ n' \in 0 .. Len(archive')
    BY <1>0, <1>1, Always, Sizes
  <2>3. /\ archive' \in Archives /\ lost' \in BOOLEAN /\ LargeBlock' \in BOOLEAN
        /\ origin' + DataSize' <= avail' /\ Done' \in BOOLEAN /\ over' \in BOOLEAN
    BY <1>0, <1>1, Always
  <2>4. \A k \in Slots : data'[k].base + data'[k].addr <= UNP_READ_SIZE_MT + Reserve
    BY <1>0, <1>1, Always
  <2> QED BY <1>5, <1>6, <2>1, <2>2, <2>3, <2>4 DEF TypeOK
<1>8. Types'
  BY <1>0, <1>1, <1>6, <1>7, Always DEF Types, File
<1>9. pc' = "finish" => AtFinish'
  <2> SUFFICES ASSUME pc' = "finish" PROVE AtFinish'
    OBVIOUS
  <2>1. BlockNumber = 0
    BY <1>5
  <2>2. AppliedInOrder'
    <3>1. origin + BlockStart \in Nat
      BY <1>2
    <3>2. AppliedTo(archive', applied', n', origin + BlockStart)
      BY <1>0, <1>3, <2>1
    <3> QED BY <1>0, <1>2, <3>1, <3>2, InOrderNext
  <2>3. ~Whole'
    BY <1>0, <1>3, <2>1 DEF Whole, File
  <2> QED BY <2>2, <2>3 DEF AtFinish
<1>10. pc' = "decode" => AtDecode'
  <2> SUFFICES ASSUME pc' = "decode" PROVE AtDecode'
    OBVIOUS
  <2>1. BlockNumber # 0
    BY <1>5
  <2>2. InRound' /\ AppliedFrom(data[0])'
    <3>1. Blocks' /\ LargeLast' /\ AllRead' /\ (Done' => ~Whole') /\ AppliedFrom(data[0])'
      BY <1>0, <1>4, <2>1
         DEF InRound, Blocks, LargeLast, AllRead, Whole, File, AppliedFrom
    <3> QED BY <1>0, <1>4, <2>1, <3>1 DEF InRound
  <2>3. ASSUME NEW k \in 0 .. BlockNumber - 1
        PROVE  IF Pending(k)' \/ data'[k].large THEN IsFresh(k)' ELSE IsReady(k)'
    <3>1. Pending(k)' \/ data'[k].large
      BY <1>0, <1>6, <2>1 DEF Pending
    <3>2. IsFresh(k)'
      BY <1>0, <1>4, <2>1 DEF IsFresh
    <3> QED BY <3>1, <3>2
  <2>4. Uncut({k \in Slots : k >= BlockNumber})'
    BY <1>0, <1>4, <2>1 DEF Uncut
  <2>5. /\ \A t \in tasks' : /\ t[1] <= t[2] /\ t[2] < BlockNumber'
                             /\ \A k \in t[1] .. t[2] : ~data'[k].large
        /\ \A t, u \in tasks' : t = u \/ t[2] < u[1] \/ u[2] < t[1]
    BY <1>0, <1>6, <2>1
  <2>6. \A k \in 0 .. BlockNumber' - 1 :
          IF Pending(k)' \/ data'[k].large THEN IsFresh(k)' ELSE IsReady(k)'
    BY <1>0, <2>3
  <2> QED BY <1>0, <2>2, <2>4, <2>5, <2>6 DEF AtDecode
<1>11. \A k \in Slots : data'[k].large => LargeBlock'
  BY <1>0, <1>1
<1> QED BY <1>5, <1>8, <1>9, <1>10, <1>11 DEF Inv

-----------------------------------------------------------------------------
(* A thread decodes a block.                                               *)

(* What is left of the tasks: the block that was taken is not pending any  *)
(* more, and every other one is as it was.                                 *)
LEMMA TaskTaken ==
  ASSUME tasks \subseteq Nat \X Nat, IsFiniteSet(tasks), NEW task \in tasks,
         task[1] <= task[2],
         \A t, u \in tasks : t = u \/ t[2] < u[1] \/ u[2] < t[1],
         tasks' = (tasks \ {task}) \cup
           (IF task[1] = task[2] THEN {} ELSE {<<task[1] + 1, task[2]>>})
  PROVE  /\ tasks' \subseteq Nat \X Nat
         /\ IsFiniteSet(tasks') /\ Cardinality(tasks') <= Cardinality(tasks)
         /\ \A t \in tasks' : t \in tasks \/ /\ t[1] = task[1] + 1 /\ t[2] = task[2]
                                             /\ t[1] <= t[2]
         /\ \A t, u \in tasks' : t = u \/ t[2] < u[1] \/ u[2] < t[1]
         /\ \A k \in Nat : Pending(k)' <=> Pending(k) /\ k # task[1]
<1> DEFINE p == task[1]
           q == task[2]
           next == <<p + 1, q>>
           T == tasks \ {task}
           R == IF p = q THEN {} ELSE {next}
<1>1. p \in Nat /\ q \in Nat /\ p <= q /\ tasks' = T \cup R /\ task = <<p, q>>
  OBVIOUS
<1>2. \A t \in tasks : t[1] \in Nat /\ t[2] \in Nat
  OBVIOUS
<1>3. next[1] = p + 1 /\ next[2] = q /\ next \in Nat \X Nat
  BY <1>1
<1>4. \A t \in T : t \in tasks /\ (t[2] < p \/ q < t[1])
  OBVIOUS
<1>5. IsFiniteSet(T) /\ Cardinality(T) = Cardinality(tasks) - 1
      /\ Cardinality(tasks) \in Nat /\ Cardinality(T) \in Nat
  BY FS_RemoveElement, FS_CardinalityType
<1>6. R = {} \/ (R = {next} /\ p + 1 <= q)
  BY <1>1
<1> HIDE DEF T, R, next
<1>7. IsFiniteSet(tasks') /\ Cardinality(tasks') <= Cardinality(tasks)
  <2> DEFINE c == Cardinality(tasks)
  <2>1. CASE R = {}
    <3>1. tasks' = T
      BY <1>1, <2>1
    <3>2. Cardinality(T) <= c
      <4> HIDE DEF c
      <4>1. Cardinality(T) = c - 1 /\ c \in Nat
        BY <1>5 DEF c
      <4> QED BY <4>1
    <3> QED BY <1>5, <3>1, <3>2, Zenon
  <2>2. CASE R # {}
    <3>1. tasks' = T \cup {next}
      BY <1>1, <1>6, <2>2
    <3>2. /\ IsFiniteSet(T \cup {next})
          /\ Cardinality(T \cup {next}) =
               IF next \in T THEN Cardinality(T) ELSE Cardinality(T) + 1
      BY <1>5, FS_AddElement
    <3>3. Cardinality(T \cup {next}) <= c
      <4> HIDE DEF c
      <4>1. Cardinality(T) = c - 1 /\ c \in Nat
        BY <1>5 DEF c
      <4> QED BY <3>2, <4>1
    <3> QED BY <3>1, <3>2, <3>3, Zenon
  <2> QED BY <2>1, <2>2
<1>8. \A t \in tasks' : t \in T \/ (t = next /\ p + 1 <= q /\ R = {next})
  BY <1>1, <1>6
<1>9. tasks' \subseteq Nat \X Nat
  BY <1>3, <1>4, <1>8
<1>10. \A t \in tasks' : t \in tasks \/ (t[1] = p + 1 /\ t[2] = q /\ t[1] <= t[2])
  BY <1>3, <1>4, <1>8
<1>11. ASSUME NEW t \in tasks', NEW u \in tasks' PROVE t = u \/ t[2] < u[1] \/ u[2] < t[1]
  <2>1. CASE t \in T /\ u \in T
    BY <1>4, <2>1
  <2>2. CASE t = next /\ u \in T
    BY <1>1, <1>2, <1>3, <1>4, <2>2
  <2>3. CASE t \in T /\ u = next
    BY <1>1, <1>2, <1>3, <1>4, <2>3
  <2> QED BY <1>8, <2>1, <2>2, <2>3
<1>12. ASSUME NEW k \in Nat PROVE Pending(k)' <=> Pending(k) /\ k # p
  <2>1. ASSUME Pending(k)' PROVE Pending(k) /\ k # p
    <3>1. PICK t \in tasks' : t[1] <= k /\ k <= t[2]
      BY <2>1 DEF Pending
    <3>2. CASE t \in T
      <4>1. k # p
        BY <1>1, <1>2, <1>4, <3>1, <3>2
      <4> QED BY <1>4, <3>1, <3>2, <4>1 DEF Pending
    <3>3. CASE t = next
      <4>1. p + 1 <= k /\ k <= q
        BY <1>3, <3>1, <3>3
      <4>2. task[1] <= k /\ k <= task[2] /\ k # p
        BY <1>1, <4>1
      <4> QED BY <4>2 DEF Pending
    <3> QED BY <1>8, <3>2, <3>3
  <2>2. ASSUME Pending(k), k # p PROVE Pending(k)'
    <3>1. PICK t \in tasks : t[1] <= k /\ k <= t[2]
      BY <2>2 DEF Pending
    <3>2. CASE t = task
      <4>1. p <= k /\ k <= q
        BY <3>1, <3>2
      <4>2. p + 1 <= k /\ k <= q /\ p # q
        BY <1>1, <2>2, <4>1
      <4>3. next \in tasks'
        BY <1>1, <4>2 DEF R
      <4> QED BY <1>3, <4>2, <4>3 DEF Pending
    <3>3. CASE t # task
      <4>1. t \in tasks'
        BY <1>1, <3>3 DEF T
      <4> QED BY <3>1, <4>1 DEF Pending
    <3> QED BY <3>2, <3>3
  <2> QED BY <2>1, <2>2
<1> QED BY <1>7, <1>9, <1>10, <1>11, <1>12

(* A round goes on as long as its slots hold the same blocks.              *)
LEMMA SameRound ==
  ASSUME InRound, data \in [Slots -> SlotData], BlockNumber \in Nat,
         BlockNumber <= Cardinality(Slots),
         archive' = archive, n' = n, avail' = avail, origin' = origin, over' = over,
         DataSize' = DataSize, BlockStart' = BlockStart, NoDataLeft' = NoDataLeft,
         BlockNumber' = BlockNumber, LastBlockNum' = LastBlockNum, Done' = Done,
         \A k \in Slots : Same(data[k], data'[k])
  PROVE  InRound' /\ (Whole' <=> Whole)
<1>1. \A k \in 0 .. BlockNumber - 1 : k \in Slots /\ Same(data[k], data'[k])
  BY SlotNumbers
<1>2. BlockNumber - 1 \in Slots
  BY SlotNumbers DEF InRound
<1>3. Blocks'
  <2>1. \A k \in 0 .. BlockNumber - 1 :
          Held(archive, n, origin, DataSize, NoDataLeft, data'[k])
    BY <1>1, SameHeld DEF InRound, Blocks
  <2>2. ASSUME NEW k \in 1 .. BlockNumber - 1
        PROVE  Follows(DataSize, data'[k - 1], data'[k])
    <3>1. k \in 0 .. BlockNumber - 1 /\ k - 1 \in 0 .. BlockNumber - 1
      OBVIOUS
    <3>2. Same(data[k], data'[k]) /\ Same(data[k - 1], data'[k - 1])
      BY <1>1, <3>1
    <3>3. Follows(DataSize, data[k - 1], data[k])
      BY DEF InRound, Blocks
    <3> QED BY <3>2, <3>3, SameHeld
  <2> QED BY <2>1, <2>2 DEF Blocks
<1>4. LargeLast'
  <2>1. \A k \in Slots : data'[k].large = data[k].large
    BY DEF Same
  <2> QED BY <2>1 DEF InRound, LargeLast
<1>5. Whole' <=> Whole
  BY DEF Whole, File
<1>6. AllRead'
  BY DEF InRound, AllRead
<1>7. \E d \in {data'[BlockNumber' - 1]} : BlockStart' = d.base + d.blockStart + d.blockSize
  BY <1>2 DEF InRound, Same
<1> QED BY <1>3, <1>4, <1>5, <1>6, <1>7 DEF InRound

(* A thread that decodes a block makes that slot ready and leaves the      *)
(* others alone.                                                           *)
LEMMA DecodeStep ==
  ASSUME Inv, NEW task \in tasks, Decode(task)
  PROVE  Inv'
<1>0. /\ pc = "decode" /\ pc' = pc
      /\ tasks' = (tasks \ {task}) \cup
           (IF task[1] = task[2] THEN {} ELSE {<<task[1] + 1, task[2]>>})
      /\ \E e \in Decoded(data[task[1]]) : data' = [data EXCEPT ![task[1]] = e]
      /\ archive' = archive /\ n' = n /\ avail' = avail /\ end' = end /\ lost' = lost
      /\ origin' = origin /\ DataSize' = DataSize /\ BlockStart' = BlockStart
      /\ BlockNumber' = BlockNumber /\ NoDataLeft' = NoDataLeft /\ LargeBlock' = LargeBlock
      /\ LastBlockNum' = LastBlockNum /\ Done' = Done /\ tables' = tables
      /\ over' = over /\ applied' = applied /\ block' = block
  BY DEF Decode, source, buffer, round
<1>1. /\ Types /\ AtDecode /\ n >= 1 /\ (lost => avail < Total(File))
      /\ \A k \in Slots : data[k].large => LargeBlock
  BY <1>0 DEF Inv, Types
<1>2. /\ archive \in Archives /\ n \in 1 .. Len(archive) /\ BlockNumber \in Nat
      /\ origin \in Nat /\ BlockStart \in Nat /\ BlockNumber <= Cardinality(Slots)
      /\ DataSize \in Nat /\ data \in [Slots -> SlotData] /\ avail \in Nat
      /\ DataSize <= UNP_READ_SIZE_MT /\ NoDataLeft \in BOOLEAN
      /\ tasks \subseteq Nat \X Nat /\ IsFiniteSet(tasks)
      /\ Cardinality(tasks) <= MaxUserThreads /\ Cardinality(tasks) \in Nat
  BY <1>1, Always, FS_CardinalityType
<1>3. /\ InRound /\ AppliedFrom(data[0]) /\ block = 0
      /\ \A k \in 0 .. BlockNumber - 1 :
           IF Pending(k) \/ data[k].large THEN IsFresh(k) ELSE IsReady(k)
      /\ Uncut({k \in Slots : k >= BlockNumber})
      /\ \A t \in tasks : /\ t[1] <= t[2] /\ t[2] < BlockNumber
                          /\ \A k \in t[1] .. t[2] : ~data[k].large
      /\ \A t, u \in tasks : t = u \/ t[2] < u[1] \/ u[2] < t[1]
  BY <1>1 DEF AtDecode
<1>4. /\ tasks' \subseteq Nat \X Nat
      /\ IsFiniteSet(tasks') /\ Cardinality(tasks') <= Cardinality(tasks)
      /\ \A t \in tasks' : t \in tasks \/ /\ t[1] = task[1] + 1 /\ t[2] = task[2]
                                          /\ t[1] <= t[2]
      /\ \A t, u \in tasks' : t = u \/ t[2] < u[1] \/ u[2] < t[1]
      /\ \A k \in Nat : Pending(k)' <=> Pending(k) /\ k # task[1]
  BY <1>0, <1>2, <1>3, TaskTaken
<1> DEFINE p == task[1]
<1>5. /\ p \in Nat /\ task[2] \in Nat /\ p <= task[2] /\ task[2] < BlockNumber
      /\ p \in 0 .. BlockNumber - 1 /\ p \in Slots /\ ~data[p].large /\ Pending(p)
  <2>1. p \in Nat /\ task[2] \in Nat /\ p <= task[2] /\ task[2] < BlockNumber
    BY <1>2, <1>3
  <2>2. p \in 0 .. BlockNumber - 1 /\ p \in task[1] .. task[2]
    BY <1>2, <2>1
  <2> QED BY <1>2, <1>3, <2>1, <2>2, SlotNumbers DEF Pending
<1>6. PICK e \in Decoded(data[p]) : data' = [data EXCEPT ![p] = e]
  BY <1>0
<1> HIDE DEF p
<1>7. /\ e \in SlotData /\ Same(data[p], e)
      /\ Ready(archive, origin, DataSize, NoDataLeft, Whole, e)
      /\ e.base + e.addr <= UNP_READ_SIZE_MT + Reserve
  <2>1. Fresh(archive, data[p])
    BY <1>3, <1>5 DEF IsFresh
  <2>2. Held(archive, n, origin, DataSize, NoDataLeft, data[p])
    BY <1>3, <1>5 DEF InRound, Blocks
  <2>3. AllRead /\ DataSize > 0
    BY <1>3 DEF InRound
  <2>4. data[p] \in SlotData
    BY <1>2, <1>5
  <2> QED BY <1>2, <2>1, <2>2, <2>3, <2>4, DecodedIsReady
<1>8. /\ data' \in [Slots -> SlotData] /\ data'[p] = e
      /\ \A k \in Slots : k # p => data'[k] = data[k]
  BY <1>2, <1>5, <1>6, <1>7
<1>9. \A k \in Slots : Same(data[k], data'[k])
  <2> SUFFICES ASSUME NEW k \in Slots PROVE Same(data[k], data'[k])
    OBVIOUS
  <2>1. CASE k = p
    BY <1>7, <1>8, <2>1
  <2>2. CASE k # p
    BY <1>8, <2>2 DEF Same
  <2> QED BY <2>1, <2>2
<1>10. InRound' /\ (Whole' <=> Whole)
  BY <1>0, <1>2, <1>3, <1>9, SameRound
<1>11. TypeOK'
  <2>1. /\ BlockNumber' \in 0 .. Cardinality(Slots) /\ LastBlockNum' \in Slots
        /\ NoDataLeft' \in BOOLEAN
    BY <1>0, <1>1, <1>2, Always, SlotNumbers
  <2>2. DataSize' \in 0 .. UNP_READ_SIZE_MT /\ n' \in 0 .. Len(archive')
    BY <1>0, <1>1, Always, Sizes
  <2>3. /\ archive' \in Archives /\ lost' \in BOOLEAN /\ LargeBlock' \in BOOLEAN
        /\ origin' + DataSize' <= avail' /\ Done' \in BOOLEAN /\ over' \in BOOLEAN
    BY <1>0, <1>1, Always
  <2>4. \A k \in Slots : data'[k].base + data'[k].addr <= UNP_READ_SIZE_MT + Reserve
    BY <1>1, <1>7, <1>8, Always
  <2>5. Cardinality(tasks') <= MaxUserThreads
    <3>1. Cardinality(tasks') \in Nat
      BY <1>4, FS_CardinalityType
    <3> QED BY <1>2, <1>4, <3>1, Sizes
  <2> QED BY <1>0, <2>1, <2>2, <2>3, <2>4, <2>5 DEF TypeOK
<1>12. Types'
  BY <1>0, <1>1, <1>4, <1>8, <1>11, Always DEF Types, File
<1>13. AtDecode'
  <2>1. AppliedFrom(data[0])'
    <3>1. From(archive, origin, data'[0]) = From(archive, origin, data[0])
      BY <1>9, SameHeld, SlotNumbers
    <3> QED BY <1>0, <1>3, <3>1 DEF AppliedFrom
  <2>2. ASSUME NEW k \in 0 .. BlockNumber - 1
        PROVE  IF Pending(k)' \/ data'[k].large THEN IsFresh(k)' ELSE IsReady(k)'
    <3>1. k \in Nat /\ k \in Slots
      BY <1>2, SlotNumbers
    <3>2. CASE k = p
      <4>1. ~Pending(k)'
        BY <1>4, <3>1, <3>2 DEF p
      <4>2. ~data'[k].large
        BY <1>5, <1>7, <1>8, <3>2 DEF Same
      <4>3. Ready(archive', origin', DataSize', NoDataLeft', Whole, data'[k])
        BY <1>0, <1>7, <1>8, <3>2
      <4>4. IsReady(k)'
        BY <1>10, <4>3 DEF IsReady, Ready
      <4> QED BY <4>1, <4>2, <4>4
    <3>3. CASE k # p
      <4>1. Pending(k)' <=> Pending(k)
        BY <1>4, <3>1, <3>3 DEF p
      <4>2. data'[k] = data[k]
        BY <1>8, <3>1, <3>3
      <4>3. IF Pending(k) \/ data[k].large THEN IsFresh(k) ELSE IsReady(k)
        BY <1>3
      <4>4. IsFresh(k)' <=> IsFresh(k)
        BY <1>0, <4>2 DEF IsFresh
      <4>5. IsReady(k)' <=> IsReady(k)
        BY <1>0, <1>10, <4>2 DEF IsReady, Ready
      <4> QED BY <4>1, <4>2, <4>3, <4>4, <4>5
    <3> QED BY <3>2, <3>3
  <2>3. \A k \in 0 .. BlockNumber' - 1 :
          IF Pending(k)' \/ data'[k].large THEN IsFresh(k)' ELSE IsReady(k)'
    BY <1>0, <2>2
  <2>4. Uncut({k \in Slots : k >= BlockNumber})'
    <3>1. \A k \in Slots : k >= BlockNumber => k # p
      BY <1>2, <1>5, SlotNumbers
    <3> QED BY <1>0, <1>3, <1>8, <3>1 DEF Uncut
  <2>5. ASSUME NEW t \in tasks'
        PROVE  /\ t[1] <= t[2] /\ t[2] < BlockNumber'
               /\ \A k \in t[1] .. t[2] : ~data'[k].large
    <3>1. t[1] \in Nat /\ t[2] \in Nat /\ t[1] <= t[2] /\ t[2] < BlockNumber
      BY <1>3, <1>4, <1>5 DEF p
    <3>2. \A k \in t[1] .. t[2] : ~data[k].large
      <4>1. CASE t \in tasks
        BY <1>3, <4>1
      <4>2. CASE t \notin tasks
        <5>1. \A k \in t[1] .. t[2] : k \in task[1] .. task[2]
          BY <1>4, <1>5, <3>1, <4>2 DEF p
        <5> QED BY <1>3, <5>1
      <4> QED BY <4>1, <4>2
    <3>3. ASSUME NEW k \in t[1] .. t[2] PROVE ~data'[k].large
      <4>1. k \in Slots
        BY <1>2, <3>1, SlotNumbers
      <4>2. data'[k].large = data[k].large
        BY <1>9, <4>1 DEF Same
      <4> QED BY <3>2, <4>2
    <3> QED BY <1>0, <3>1, <3>3
  <2>6. \A t, u \in tasks' : t = u \/ t[2] < u[1] \/ u[2] < t[1]
    BY <1>4
  <2> QED BY <1>0, <1>3, <1>10, <2>1, <2>3, <2>4, <2>5, <2>6 DEF AtDecode
<1>14. \A k \in Slots : data'[k].large => LargeBlock'
  BY <1>0, <1>1, <1>9 DEF Same
<1> QED BY <1>0, <1>12, <1>13, <1>14 DEF Inv

(* When no task is left, every normal block is ready.                      *)
LEMMA WaitDoneStep ==
  ASSUME Inv, WaitDone
  PROVE  Inv'
<1>0. /\ pc = "decode" /\ pc' = "process" /\ tasks = {} /\ tasks' = tasks
      /\ data' = data /\ archive' = archive /\ n' = n /\ avail' = avail /\ end' = end
      /\ lost' = lost
      /\ origin' = origin /\ DataSize' = DataSize /\ BlockStart' = BlockStart
      /\ BlockNumber' = BlockNumber /\ NoDataLeft' = NoDataLeft /\ LargeBlock' = LargeBlock
      /\ LastBlockNum' = LastBlockNum /\ Done' = Done /\ tables' = tables
      /\ over' = over /\ applied' = applied /\ block' = block
  BY DEF WaitDone, source, buffer, round
<1>1. /\ Types /\ AtDecode /\ n >= 1 /\ (lost => avail < Total(File))
      /\ \A k \in Slots : data[k].large => LargeBlock
  BY <1>0 DEF Inv, Types
<1>2. /\ BlockNumber \in Nat /\ BlockNumber <= Cardinality(Slots)
      /\ data \in [Slots -> SlotData]
  BY <1>1, Always
<1>3. /\ InRound /\ AppliedFrom(data[0]) /\ block = 0
      /\ \A k \in 0 .. BlockNumber - 1 :
           IF Pending(k) \/ data[k].large THEN IsFresh(k) ELSE IsReady(k)
      /\ Uncut({k \in Slots : k >= BlockNumber})
  BY <1>1 DEF AtDecode
<1>4. InRound' /\ (Whole' <=> Whole)
  <2>1. \A k \in Slots : Same(data[k], data'[k])
    BY <1>0 DEF Same
  <2> QED BY <1>0, <1>2, <1>3, <2>1, SameRound
<1>5. TypeOK'
  <2>1. /\ BlockNumber' \in 0 .. Cardinality(Slots) /\ LastBlockNum' \in Slots
        /\ NoDataLeft' \in BOOLEAN
    BY <1>0, <1>1, <1>2, Always, SlotNumbers
  <2>2. DataSize' \in 0 .. UNP_READ_SIZE_MT /\ n' \in 0 .. Len(archive')
    BY <1>0, <1>1, Always, Sizes
  <2>3. /\ archive' \in Archives /\ lost' \in BOOLEAN /\ LargeBlock' \in BOOLEAN
        /\ origin' + DataSize' <= avail' /\ Done' \in BOOLEAN /\ over' \in BOOLEAN
    BY <1>0, <1>1, Always
  <2>4. /\ \A k \in Slots : data'[k].base + data'[k].addr <= UNP_READ_SIZE_MT + Reserve
        /\ Cardinality(tasks') <= MaxUserThreads
    BY <1>0, <1>1, Always
  <2> QED BY <1>0, <2>1, <2>2, <2>3, <2>4 DEF TypeOK
<1>6. Types'
  BY <1>0, <1>1, <1>5, Always DEF Types, File
<1>7. AtProcess'
  <2>1. AppliedFrom(data[block])' /\ block' < BlockNumber' /\ BlockNumber > 0
    BY <1>0, <1>3 DEF AppliedFrom, InRound
  <2>2. ASSUME NEW k \in 0 .. BlockNumber - 1
        PROVE  IF data'[k].large THEN IsFresh(k)' ELSE IsReady(k)'
    <3>1. ~Pending(k)
      BY <1>0 DEF Pending
    <3>2. IF data[k].large THEN IsFresh(k) ELSE IsReady(k)
      BY <1>3, <3>1
    <3>3. /\ IsFresh(k)' <=> IsFresh(k)
          /\ IsReady(k)' <=> IsReady(k)
      BY <1>0, <1>4 DEF IsFresh, IsReady, Ready
    <3> QED BY <1>0, <3>2, <3>3
  <2>3. \A k \in block' .. BlockNumber' - 1 :
          IF data'[k].large THEN IsFresh(k)' ELSE IsReady(k)'
    BY <1>0, <1>3, <2>2
  <2>4. Uncut({k \in Slots : k >= BlockNumber \/ k < block})'
    <3>1. \A k \in Slots : ~(k < block)
      BY <1>3, SlotNumbers
    <3> QED BY <1>0, <1>3, <3>1 DEF Uncut
  <2> QED BY <1>4, <2>1, <2>3, <2>4 DEF AtProcess
<1>8. \A k \in Slots : data'[k].large => LargeBlock'
  BY <1>0, <1>1
<1> QED BY <1>0, <1>6, <1>7, <1>8 DEF Inv

-----------------------------------------------------------------------------
(* A block is applied.                                                     *)

(* The window is a sequence of pieces.                                     *)
LEMMA JoinedType ==
  ASSUME NEW s \in Seq(Pieces), NEW piece \in Pieces
  PROVE  Joined(s, piece) \in Seq(Pieces)
<1> DEFINE m == Len(s)
           longer == [s EXCEPT ![m].to = piece.to]
<1>1. m > 0 => longer \in Seq(Pieces)
  <2> SUFFICES ASSUME m > 0 PROVE longer \in Seq(Pieces)
    OBVIOUS
  <2>0. m \in Nat /\ m \in 1 .. Len(s)
    OBVIOUS
  <2>1. s[m] \in Pieces /\ piece.to \in Nat
    <3>1. s[m] \in Pieces
      BY <2>0
    <3>2. piece.to \in Nat
      BY DEF Pieces
    <3> QED BY <3>1, <3>2
  <2>2. [s[m] EXCEPT !.to = piece.to] \in Pieces
    BY <2>1 DEF Pieces
  <2> QED BY <2>0, <2>1, <2>2
<1>2. Append(s, piece) \in Seq(Pieces)
  OBVIOUS
<1> QED BY <1>1, <1>2 DEF Joined

(* What is known of the slot that is applied next.                         *)
Took(d) ==
  /\ d \in SlotData /\ Same(data[block], d)
  /\ Held(archive, n, origin, DataSize, NoDataLeft, d)
  /\ Ready(archive, origin, DataSize, NoDataLeft, Whole, d)
  /\ d.base + d.addr <= UNP_READ_SIZE_MT + Reserve
  /\ AppliedFrom(d)

(* The slot that is applied is ready, a large one after the owner has      *)
(* decoded it.                                                             *)
LEMMA ProcessTakes ==
  ASSUME Inv, pc = "process",
         NEW d \in IF data[block].large THEN Decoded(data[block]) ELSE {data[block]}
  PROVE  Took(d)
<1>1. /\ Types /\ AtProcess /\ n >= 1
  BY DEF Inv, Types
<1>2. /\ archive \in Archives /\ n \in 1 .. Len(archive) /\ BlockNumber \in Nat
      /\ origin \in Nat /\ BlockNumber <= Cardinality(Slots) /\ block \in Nat
      /\ DataSize \in Nat /\ data \in [Slots -> SlotData] /\ avail \in Nat
      /\ DataSize <= UNP_READ_SIZE_MT /\ NoDataLeft \in BOOLEAN
  BY <1>1, Always
<1>3. InRound /\ AppliedFrom(data[block]) /\ block < BlockNumber
  BY <1>1 DEF AtProcess
<1>4. block \in 0 .. BlockNumber - 1 /\ block \in block .. BlockNumber - 1 /\ block \in Slots
  BY <1>2, <1>3, SlotNumbers
<1>5. IF data[block].large THEN IsFresh(block) ELSE IsReady(block)
  BY <1>1, <1>4 DEF AtProcess
<1>6. Held(archive, n, origin, DataSize, NoDataLeft, data[block]) /\ data[block] \in SlotData
  BY <1>2, <1>3, <1>4 DEF InRound, Blocks
<1>7. CASE data[block].large
  <2>1. Fresh(archive, data[block]) /\ d \in Decoded(data[block])
    BY <1>5, <1>7 DEF IsFresh
  <2>2. AllRead /\ DataSize > 0
    BY <1>3 DEF InRound
  <2>3. /\ d \in SlotData /\ Same(data[block], d)
        /\ Ready(archive, origin, DataSize, NoDataLeft, Whole, d)
        /\ d.base + d.addr <= UNP_READ_SIZE_MT + Reserve
    BY <1>2, <1>6, <2>1, <2>2, DecodedIsReady
  <2>4. /\ Held(archive, n, origin, DataSize, NoDataLeft, d)
        /\ From(archive, origin, d) = From(archive, origin, data[block])
    BY <1>6, <2>3, SameHeld
  <2> QED BY <1>3, <2>3, <2>4 DEF Took, AppliedFrom
<1>8. CASE ~data[block].large
  <2>1. d = data[block]
    BY <1>8
  <2>2. Ready(archive, origin, DataSize, NoDataLeft, Whole, d)
    BY <1>5, <1>8, <2>1 DEF IsReady
  <2>3. Same(data[block], d)
    BY <2>1 DEF Same
  <2>4. d.base + d.addr <= UNP_READ_SIZE_MT + Reserve
    BY <1>1, <1>4, <2>1, Always
  <2> QED BY <1>3, <1>6, <2>1, <2>2, <2>3, <2>4 DEF Took
<1> QED BY <1>7, <1>8

(* The block it holds, and how far it was applied before.                  *)
LEMMA TookPlace ==
  ASSUME Types, n >= 1, NEW d, Took(d)
  PROVE  /\ d.id[2] \in 1 .. Len(File) /\ d.id = <<n, d.id[2]>>
         /\ d.last <=> d.id[2] = Len(File)
         /\ BodyStart(archive, d.id) \in Nat /\ BodyEnd(archive, d.id) \in Nat
         /\ From(archive, origin, d) \in Nat /\ Total(File) \in Nat
         /\ BodyStart(archive, d.id) <= From(archive, origin, d)
         /\ BodyEnd(archive, d.id) <= Total(File)
         /\ d.last => BodyEnd(archive, d.id) = Total(File)
         /\ BodyEnd(archive, d.id) = Start(File, d.id[2] + 1)
         /\ origin + d.base + d.blockStart + d.blockSize = BodyEnd(archive, d.id)
         /\ AppliedTo(archive, applied, n, From(archive, origin, d))
         /\ ~IsRest(d) => From(archive, origin, d) = BodyStart(archive, d.id)
<1>1. /\ archive \in Archives /\ n \in 1 .. Len(archive) /\ origin \in Nat
  BY Always
<1>2. /\ Holds(archive, n, origin, d) /\ d \in SlotData /\ d.id \in Nat \X Nat
  BY SlotTypes DEF Took, Held
<1>3. /\ d.id[2] \in 1 .. Len(archive[n]) /\ d.id[1] = n
      /\ d.last = archive[n][d.id[2]].last
      /\ origin + d.base + d.blockStart + d.blockSize = BodyEnd(archive, d.id)
      /\ IsRest(d) => BodyStart(archive, d.id) <= origin
  BY <1>2 DEF Holds
<1>4. d.id = <<n, d.id[2]>>
  BY <1>2, <1>3
<1> DEFINE i == d.id[2]
<1>5. i \in 1 .. Len(archive[n]) /\ d.id = <<n, i>>
  BY <1>3, <1>4
<1> HIDE DEF i
<1>6. /\ BodyStart(archive, <<n, i>>) \in Nat /\ BodyEnd(archive, <<n, i>>) \in Nat
      /\ Total(archive[n]) \in Nat
      /\ BodyEnd(archive, <<n, i>>) = Start(archive[n], i + 1)
      /\ BodyEnd(archive, <<n, i>>) <= Total(archive[n])
      /\ i = Len(archive[n]) => BodyEnd(archive, <<n, i>>) = Total(archive[n])
  BY <1>1, <1>5, Places
<1>7. archive[n][i].last <=> i = Len(archive[n])
  BY <1>1, <1>5, BlockFacts
<1>8. d.last <=> i = Len(archive[n])
  BY <1>3, <1>7 DEF i
<1>9. /\ From(archive, origin, d) = IF IsRest(d) THEN origin ELSE BodyStart(archive, d.id)
      /\ From(archive, origin, d) \in Nat
      /\ BodyStart(archive, d.id) <= From(archive, origin, d)
  BY <1>1, <1>3, <1>5, <1>6 DEF From
<1>10. AppliedTo(archive, applied, n, From(archive, origin, d))
  BY DEF Took, AppliedFrom
<1> QED BY <1>3, <1>4, <1>5, <1>6, <1>8, <1>9, <1>10 DEF File, i

(* What was decoded is the next thing to apply.                            *)
LEMMA TookPiece ==
  ASSUME Types, n >= 1, NEW d, Took(d), ~d.damaged
  PROVE  /\ Joined(applied, d.decoded) \in Seq(Pieces)
         /\ AppliedTo(archive, Joined(applied, d.decoded), n, origin + d.base + d.addr)
         /\ origin + d.base + d.addr \in Nat
         /\ BodyStart(archive, d.id) <= origin + d.base + d.addr
         /\ origin + d.base + d.addr <= BodyEnd(archive, d.id)
         /\ d.incomplete <=> origin + d.base + d.addr < BodyEnd(archive, d.id)
         /\ ~d.incomplete => /\ d.addr = d.blockStart + d.blockSize
                             /\ origin + d.base + d.addr = BodyEnd(archive, d.id)
         /\ d.incomplete => DataSize <= d.base + d.addr + Reserve
         /\ NoDataLeft \/ d.base + d.addr < DataSize
         /\ d.tableRead = TRUE /\ d.tables = TablesOf(archive, d.id)
<1>1. /\ archive \in Archives /\ n \in 1 .. Len(archive) /\ origin \in Nat
      /\ applied \in Seq(Pieces)
  BY Always
<1>2. /\ d.id[2] \in 1 .. Len(File) /\ d.id = <<n, d.id[2]>>
      /\ BodyStart(archive, d.id) \in Nat /\ BodyEnd(archive, d.id) \in Nat
      /\ From(archive, origin, d) \in Nat
      /\ BodyStart(archive, d.id) <= From(archive, origin, d)
      /\ origin + d.base + d.blockStart + d.blockSize = BodyEnd(archive, d.id)
      /\ AppliedTo(archive, applied, n, From(archive, origin, d))
  BY TookPlace
<1>3. /\ d \in SlotData /\ d.base \in Nat /\ d.addr \in Nat /\ d.blockStart \in Nat
      /\ d.blockSize \in Nat /\ d.decoded \in Pieces /\ d.tableRead \in BOOLEAN
      /\ d.incomplete \in BOOLEAN
  BY SlotTypes DEF Took
<1>4. /\ d.decoded = [id |-> d.id, from |-> From(archive, origin, d),
                      to |-> origin + d.base + d.addr, tables |-> TablesOf(archive, d.id)]
      /\ d.tableRead /\ d.tables = TablesOf(archive, d.id)
      /\ From(archive, origin, d) <= origin + d.base + d.addr
      /\ d.addr <= d.blockStart + d.blockSize
      /\ d.incomplete = (d.addr < d.blockStart + d.blockSize)
      /\ d.incomplete => DataSize <= d.base + d.addr + Reserve
      /\ NoDataLeft \/ d.base + d.addr < DataSize
  BY DEF Took, Ready
<1> DEFINE i == d.id[2]
           p == From(archive, origin, d)
           q == origin + d.base + d.addr
<1>5. /\ p \in Nat /\ q \in Nat /\ p <= q /\ q <= BodyEnd(archive, d.id)
      /\ (q < BodyEnd(archive, d.id) <=> d.addr < d.blockStart + d.blockSize)
  <2>1. p \in Nat /\ q \in Nat /\ p <= q
    BY <1>1, <1>2, <1>3, <1>4
  <2> DEFINE stop == BodyEnd(archive, d.id)
  <2>2. /\ stop \in Nat /\ origin + d.base + d.blockStart + d.blockSize = stop
        /\ d.addr <= d.blockStart + d.blockSize
    BY <1>2, <1>4
  <2> HIDE DEF stop
  <2>3. q <= stop /\ (q < stop <=> d.addr < d.blockStart + d.blockSize)
    BY <1>1, <1>3, <2>2
  <2> QED BY <2>1, <2>3 DEF stop
<1>6. AppliedTo(archive, Joined(applied, d.decoded), n, q)
  <2>1. i \in 1 .. Len(archive[n]) /\ d.id = <<n, i>>
    BY <1>2 DEF File
  <2>2. d.decoded = [id |-> d.id, from |-> p, to |-> q, tables |-> TablesOf(archive, d.id)]
    BY <1>4
  <2>3. BodyStart(archive, d.id) <= p /\ AppliedTo(archive, applied, n, p)
    BY <1>2
  <2> HIDE DEF i, p, q
  <2> DEFINE id == <<n, i>>
  <2>4. /\ d.decoded = [id |-> id, from |-> p, to |-> q, tables |-> TablesOf(archive, id)]
        /\ BodyStart(archive, id) <= p /\ q <= BodyEnd(archive, id)
    BY <1>5, <2>1, <2>2, <2>3
  <2> QED BY <1>1, <1>3, <1>5, <2>1, <2>3, <2>4, ApplyNext
<1>7. Joined(applied, d.decoded) \in Seq(Pieces)
  BY <1>1, <1>3, JoinedType
<1>8. d.incomplete <=> d.addr < d.blockStart + d.blockSize
  BY <1>4
<1>9. ~d.incomplete => d.addr = d.blockStart + d.blockSize
  BY <1>3, <1>4, <1>8
<1>10. BodyStart(archive, d.id) <= q
  BY <1>2, <1>5
<1>11. ~d.incomplete => q = BodyEnd(archive, d.id)
  <2> DEFINE stop == BodyEnd(archive, d.id)
  <2>1. /\ stop \in Nat /\ origin + d.base + d.blockStart + d.blockSize = stop
    BY <1>2
  <2> HIDE DEF stop
  <2>2. ~d.incomplete => q = stop
    BY <1>1, <1>3, <1>9, <2>1
  <2> QED BY <2>2 DEF stop
<1>12. d.tableRead = TRUE
  BY <1>3, <1>4
<1> QED BY <1>4, <1>5, <1>6, <1>7, <1>8, <1>9, <1>10, <1>11, <1>12

(* A slot behind another holds the next block, and the one before is not   *)
(* the last of the file and has enough data behind it.                     *)
LEMMA TookNext ==
  ASSUME Types, InRound, n >= 1, NEW d, Took(d), block + 1 < BlockNumber
  PROVE  /\ block + 1 \in Slots /\ ~d.last
         /\ d.base + d.blockStart + d.blockSize + TooSmallToProcess <= DataSize
         /\ data[block + 1].id[2] = d.id[2] + 1 /\ data[block + 1].id[1] = n
         /\ ~IsRest(data[block + 1])
         /\ data[block + 1].id[2] \in 1 .. Len(File)
         /\ data[block + 1].id \in Nat \X Nat
<1>1. /\ block \in Nat /\ BlockNumber \in Nat /\ BlockNumber <= Cardinality(Slots)
      /\ data \in [Slots -> SlotData]
  BY Always
<1>2. /\ block + 1 \in 1 .. BlockNumber - 1 /\ block + 1 \in 0 .. BlockNumber - 1
      /\ block + 1 \in Slots /\ (block + 1) - 1 = block
  BY <1>1, SlotNumbers
<1>3. Follows(DataSize, data[block], data[block + 1])
  BY <1>2 DEF InRound, Blocks
<1>4. Held(archive, n, origin, DataSize, NoDataLeft, data[block + 1])
  BY <1>2 DEF InRound, Blocks
<1>5. Follows(DataSize, d, data[block + 1])
  BY <1>3, SameHeld DEF Took
<1>6. data[block + 1].id \in Nat \X Nat
  BY <1>1, <1>2, SlotTypes
<1> QED BY <1>2, <1>4, <1>5, <1>6 DEF Follows, Held, Holds, File

Processing(d, fits) ==
  /\ pc = "process"
  /\ archive' = archive /\ n' = n /\ avail' = avail /\ end' = end /\ lost' = lost
  /\ BlockNumber' = BlockNumber /\ NoDataLeft' = NoDataLeft /\ LargeBlock' = LargeBlock
  /\ LastBlockNum' = LastBlockNum /\ tasks' = tasks /\ tables' = tables
  /\ over' = (over \/ ~fits)
  /\ applied' = IF d.large /\ d.damaged THEN applied ELSE Joined(applied, d.decoded)

(* What every way to go on has in common.                                  *)
LEMMA ProcessBasics ==
  ASSUME Inv, NEW d, NEW fits \in BOOLEAN, Took(d), Processing(d, fits)
  PROVE  /\ Types /\ AtProcess /\ InRound /\ n >= 1 /\ (lost => avail < Total(File))
         /\ archive \in Archives /\ n \in 1 .. Len(archive) /\ BlockNumber \in Nat
         /\ origin \in Nat /\ BlockNumber <= Cardinality(Slots) /\ block \in Nat
         /\ Cardinality(Slots) \in Nat
         /\ DataSize \in Nat /\ data \in [Slots -> SlotData] /\ avail \in Nat
         /\ origin + DataSize <= avail /\ over \in BOOLEAN /\ Done \in BOOLEAN
         /\ BlockStart \in Nat
         /\ block < BlockNumber /\ block \in Slots /\ d \in SlotData
         /\ \A k \in Slots : data[k].large => LargeBlock
         /\ d.large => LargeBlock
         /\ Uncut({k \in Slots : k >= BlockNumber \/ k < block})
         /\ Done => ~Whole
         /\ applied' \in Seq(Pieces) /\ over' \in BOOLEAN
         /\ fits = TRUE => over' = over
         /\ ~fits => over' = TRUE
<1>1. /\ Types /\ AtProcess /\ n >= 1 /\ (lost => avail < Total(File))
      /\ \A k \in Slots : data[k].large => LargeBlock
  BY DEF Inv, Types, Processing
<1>2. /\ archive \in Archives /\ n \in 1 .. Len(archive) /\ BlockNumber \in Nat
      /\ origin \in Nat /\ BlockNumber <= Cardinality(Slots) /\ block \in Nat
      /\ DataSize \in Nat /\ data \in [Slots -> SlotData] /\ avail \in Nat
      /\ origin + DataSize <= avail /\ over \in BOOLEAN /\ Done \in BOOLEAN
      /\ BlockStart \in Nat /\ applied \in Seq(Pieces)
      /\ Cardinality(Slots) \in Nat
  BY <1>1, Always, SlotNumbers
<1>3. /\ InRound /\ block < BlockNumber
      /\ Uncut({k \in Slots : k >= BlockNumber \/ k < block})
  BY <1>1 DEF AtProcess
<1>4. block \in Slots
  BY <1>2, <1>3, SlotNumbers
<1>5. d \in SlotData /\ d.large = data[block].large /\ d.decoded \in Pieces
  BY SlotTypes DEF Took, Same
<1>6. Done => ~Whole
  BY <1>3 DEF InRound
<1>7. applied' \in Seq(Pieces)
  BY <1>2, <1>5, JoinedType DEF Processing
<1>8. over' \in BOOLEAN /\ (fits = TRUE => over' = over) /\ (~fits => over' = TRUE)
  <2>1. over' = (over \/ ~fits)
    BY DEF Processing
  <2> QED BY <1>2, <2>1, Zenon
<1> QED BY <1>1, <1>2, <1>3, <1>4, <1>5, <1>6, <1>7, <1>8

(* Whichever way ProcessDecoded goes on, the variables keep their types.   *)
LEMMA ProcessTypes ==
  ASSUME Inv, NEW d, NEW fits \in BOOLEAN, Took(d), Processing(d, fits),
         data' \in [Slots -> SlotData],
         \A k \in Slots : data'[k].base + data'[k].addr <= UNP_READ_SIZE_MT + Reserve,
         Done' \in BOOLEAN, block' \in Nat, BlockStart' \in Nat, origin' \in Nat,
         DataSize' \in Nat, DataSize' <= DataSize, origin' + DataSize' <= avail,
         pc' = "read" => Request' > 0 /\ BlockStart' = 0,
         pc' \in {"read", "process", "more", "finish"}
  PROVE  Types'
<1>0. /\ archive' = archive /\ n' = n /\ avail' = avail /\ end' = end /\ lost' = lost
      /\ BlockNumber' = BlockNumber /\ NoDataLeft' = NoDataLeft /\ LargeBlock' = LargeBlock
      /\ LastBlockNum' = LastBlockNum /\ tasks' = tasks /\ tables' = tables
  BY DEF Processing
<1>1. /\ Types /\ n >= 1 /\ (lost => avail < Total(File)) /\ applied' \in Seq(Pieces)
      /\ over' \in BOOLEAN
  BY ProcessBasics
<1>2. TypeOK'
  <2>1. /\ BlockNumber' \in 0 .. Cardinality(Slots) /\ LastBlockNum' \in Slots
        /\ NoDataLeft' \in BOOLEAN
    BY <1>0, <1>1, Always, SlotNumbers
  <2>2. DataSize' \in 0 .. UNP_READ_SIZE_MT /\ n' \in 0 .. Len(archive')
    <3>1. DataSize \in Nat /\ DataSize <= UNP_READ_SIZE_MT /\ UNP_READ_SIZE_MT \in Nat
      BY <1>1, Always, Sizes
    <3>2. DataSize' \in 0 .. UNP_READ_SIZE_MT
      BY <3>1
    <3>3. n' \in 0 .. Len(archive')
      BY <1>0, <1>1, Always
    <3> QED BY <3>2, <3>3
  <2>3. /\ archive' \in Archives /\ lost' \in BOOLEAN /\ LargeBlock' \in BOOLEAN
        /\ origin' + DataSize' <= avail' /\ Cardinality(tasks') <= MaxUserThreads
    BY <1>0, <1>1, Always
  <2>4. pc' # "fill" /\ pc' \in {"call", "read", "fill", "add", "decode", "process", "more",
                                 "finish", "end"}
    OBVIOUS
  <2> QED BY <1>1, <2>1, <2>2, <2>3, <2>4 DEF TypeOK
<1> QED BY <1>0, <1>1, <1>2, Always DEF Types, File

(* The file ends here.                                                     *)
LEMMA ProcessStop ==
  ASSUME Inv, NEW d, NEW fits \in BOOLEAN, Took(d), Processing(d, fits),
         Done' = TRUE, data' = [data EXCEPT ![block] = d], pc' = "finish",
         origin' = origin, DataSize' = DataSize, BlockStart' = BlockStart, block' = block,
         \/ ~fits \/ d.damaged
         \/ d.incomplete /\ DataSize <= d.base + d.addr
         \/ fits /\ ~d.damaged /\ ~d.incomplete /\ d.last
  PROVE  Inv'
<1>1. /\ Types /\ AtProcess /\ InRound /\ n >= 1
      /\ archive \in Archives /\ n \in 1 .. Len(archive) /\ BlockNumber \in Nat
      /\ origin \in Nat /\ block \in Nat
      /\ DataSize \in Nat /\ data \in [Slots -> SlotData] /\ avail \in Nat
      /\ origin + DataSize <= avail
      /\ block < BlockNumber /\ block \in Slots /\ d \in SlotData
      /\ \A k \in Slots : data[k].large => LargeBlock
      /\ d.large => LargeBlock
      /\ Done => ~Whole
      /\ applied' \in Seq(Pieces) /\ BlockStart \in Nat
      /\ fits = TRUE => over' = over
      /\ ~fits => over' = TRUE
  BY ProcessBasics
<1>2. /\ data' \in [Slots -> SlotData] /\ data'[block] = d
      /\ \A k \in Slots : k # block => data'[k] = data[k]
  BY <1>1
<1>3. /\ archive' = archive /\ n' = n /\ avail' = avail
      /\ LastBlockNum' = LastBlockNum /\ LargeBlock' = LargeBlock
      /\ applied' = IF d.large /\ d.damaged THEN applied ELSE Joined(applied, d.decoded)
  BY DEF Processing
<1>4. Types'
  <2>1. \A k \in Slots : data'[k].base + data'[k].addr <= UNP_READ_SIZE_MT + Reserve
    BY <1>1, <1>2, Always DEF Took
  <2> QED BY <1>1, <1>2, <2>1, ProcessTypes
<1>5. Whole' => Whole /\ fits
  <2>1. Whole' => ~over' /\ avail = Total(archive[n]) /\ Faultless(archive, n)
    BY <1>3 DEF Whole, File
  <2>2. ~over' => fits /\ ~over
    BY <1>1
  <2> QED BY <2>1, <2>2 DEF Whole, File
<1>6. ASSUME d.damaged PROVE AtFinish'
  <2>1. ~Whole' /\ ~IsRest(d)
    BY <1>5, <1>6 DEF Took, Ready
  <2>2. /\ d.id[2] \in 1 .. Len(archive[n]) /\ d.id = <<n, d.id[2]>>
        /\ AppliedTo(archive, applied, n, BodyStart(archive, d.id))
        /\ BodyStart(archive, d.id) \in Nat
    BY <1>1, <2>1, TookPlace DEF File
  <2>3. CASE d.large
    <3>1. applied' = applied
      BY <1>3, <1>6, <2>3
    <3>2. AppliedInOrder'
      BY <1>1, <1>3, <2>2, <3>1, InOrderNext
    <3> QED BY <2>1, <3>2 DEF AtFinish
  <2>4. CASE ~d.large
    <3>1. applied' = Joined(applied, d.decoded)
      BY <1>3, <2>4
    <3> DEFINE i == d.id[2]
    <3>2. /\ i \in 1 .. Len(archive[n])
          /\ AppliedTo(archive, applied, n, BodyStart(archive, <<n, i>>))
      BY <2>2
    <3>3. applied \in Seq(Pieces) /\ d.decoded \in Pieces
      BY <1>1, Always, SlotTypes
    <3> HIDE DEF i
    <3>4. \A k \in 1 .. Len(applied') - 1 : InOrder(archive, applied', n, k)
      BY <1>1, <3>1, <3>2, <3>3, StaleInOrder
    <3>5. Damaged'
      BY <1>1, <1>2, <1>6 DEF Damaged
    <3>6. AppliedInOrder'
      BY <1>3, <3>4, <3>5 DEF AppliedInOrder, InOrder, PriorIn
    <3> QED BY <2>1, <3>6 DEF AtFinish
  <2> QED BY <2>3, <2>4
<1>7. ASSUME ~d.damaged PROVE AtFinish'
  <2> DEFINE q == origin + d.base + d.addr
  <2>1. /\ AppliedTo(archive, Joined(applied, d.decoded), n, q) /\ q \in Nat
        /\ q <= BodyEnd(archive, d.id)
        /\ d.incomplete => q < BodyEnd(archive, d.id)
        /\ ~d.incomplete => q = BodyEnd(archive, d.id)
        /\ NoDataLeft \/ d.base + d.addr < DataSize
        /\ d.tables = TablesOf(archive, d.id)
    BY <1>1, <1>7, TookPiece
  <2>2. /\ d.id[2] \in 1 .. Len(archive[n]) /\ d.id = <<n, d.id[2]>>
        /\ d.last <=> d.id[2] = Len(archive[n])
        /\ BodyEnd(archive, d.id) \in Nat /\ BodyEnd(archive, d.id) <= Total(File)
        /\ Total(File) \in Nat
        /\ d.last => BodyEnd(archive, d.id) = Total(File)
    BY <1>1, TookPlace DEF File
  <2>3. d.base \in Nat /\ d.addr \in Nat
    BY <1>1, SlotTypes
  <2>4. AppliedTo(archive', applied', n', q)
    BY <1>3, <1>7, <2>1
  <2>5. AppliedInOrder'
    <3> HIDE DEF q
    <3> QED BY <1>1, <1>3, <2>1, <2>4, InOrderNext
  <2>6. d.incomplete /\ DataSize <= d.base + d.addr => ~Whole
    <3> SUFFICES ASSUME d.incomplete, DataSize <= d.base + d.addr PROVE ~Whole
      OBVIOUS
    <3>1. NoDataLeft
      BY <1>1, <2>1, <2>3
    <3>2. origin + DataSize = avail
      BY <1>1, <3>1 DEF InRound, AllRead
    <3>3. avail <= q
      BY <1>1, <2>3, <3>2
    <3> HIDE DEF q
    <3>4. avail < Total(File)
      <4> DEFINE stop == BodyEnd(archive, d.id)
                 total == Total(File)
      <4>1. stop \in Nat /\ total \in Nat /\ stop <= total /\ q < stop
        BY <2>1, <2>2
      <4> HIDE DEF stop, total
      <4>2. avail < total
        BY <1>1, <2>1, <3>3, <4>1
      <4> QED BY <4>2 DEF total
    <3> QED BY <1>1, <2>2, <3>4 DEF Whole
  <2>7. ASSUME Whole'
        PROVE  /\ AppliedTo(archive, applied', n, Total(File))
               /\ data'[LastBlockNum].tables = TablesOf(archive, <<n + 1, 0>>)
    <3>1. Whole /\ fits /\ ~d.incomplete /\ d.last
      BY <1>5, <1>7, <2>6, <2>7
    <3>2. AppliedTo(archive, applied', n, Total(File))
      <4>1. q = Total(File)
        BY <2>1, <2>2, <3>1
      <4> QED BY <1>3, <2>4, <4>1
    <3>3. LastBlockNum = BlockNumber - 1
      BY <1>1, <3>1 DEF InRound
    <3>4. ~(block + 1 < BlockNumber)
      BY <1>1, <3>1, TookNext
    <3>5. block = BlockNumber - 1
      BY <1>1, <3>4
    <3>6. data'[LastBlockNum].tables = TablesOf(archive, d.id)
      BY <1>2, <2>1, <3>3, <3>5
    <3>7. TablesOf(archive, d.id) = TablesOf(archive, <<n + 1, 0>>)
      <4>1. d.id = <<n, Len(archive[n])>>
        BY <2>2, <3>1
      <4> QED BY <1>1, <4>1, LastTables
    <3> QED BY <3>2, <3>6, <3>7
  <2>8. Total(File)' = Total(File)
    BY <1>3 DEF File
  <2> QED BY <1>3, <2>5, <2>7, <2>8 DEF AtFinish
<1>8. AtFinish'
  BY <1>6, <1>7
<1>9. \A k \in Slots : data'[k].large => LargeBlock'
  BY <1>1, <1>2, <1>3
<1> QED BY <1>4, <1>8, <1>9 DEF Inv

(* The rest of a block: its header is gone and its size is what is left.   *)
MovedTo(d, piece) == [Rest(d) EXCEPT !.decoded = piece]
Left(d) == [Rest(d) EXCEPT !.incomplete = FALSE]
IsRestSize(d, size) == size \in Nat /\ size = d.blockSize - (d.addr - d.blockStart)
RestOf(d, e, size) ==
  /\ e.base = 0 /\ e.addr = 0 /\ e.header = 0 /\ e.blockStart = 0 /\ e.blockSize = size
  /\ e.table = d.table /\ e.last = d.last /\ e.good = d.good
  /\ e.headerRead = d.headerRead /\ e.tableRead = d.tableRead /\ e.tables = d.tables
  /\ e.damaged = d.damaged /\ e.incomplete = d.incomplete /\ e.id = d.id

(* What MoveRest leaves in the first slot.                                 *)
LEMMA RestFields ==
  ASSUME NEW d \in SlotData, NEW piece \in Pieces, NEW size, IsRestSize(d, size)
  PROVE  /\ MovedTo(d, piece) \in SlotData /\ RestOf(d, MovedTo(d, piece), size)
         /\ MovedTo(d, piece).base = 0 /\ MovedTo(d, piece).addr = 0
         /\ MovedTo(d, piece).large = d.large
         /\ Left(d) \in SlotData /\ Left(d).incomplete = FALSE /\ Left(d).large = d.large
         /\ Left(d).base = 0 /\ Left(d).addr = 0
<1>1. size \in Nat
  BY DEF IsRestSize
<1> DEFINE r == [d EXCEPT !.blockSize = size, !.header = 0, !.blockStart = 0, !.base = 0,
                          !.addr = 0]
<1>2. Rest(d) = r
  BY DEF Rest, IsRestSize
<1>4. /\ r \in SlotData /\ r.base = 0 /\ r.addr = 0 /\ r.header = 0 /\ r.blockStart = 0
      /\ r.blockSize = size /\ r.table = d.table /\ r.last = d.last /\ r.good = d.good
      /\ r.headerRead = d.headerRead /\ r.tableRead = d.tableRead /\ r.tables = d.tables
      /\ r.damaged = d.damaged /\ r.large = d.large /\ r.incomplete = d.incomplete
      /\ r.id = d.id
  BY <1>1 DEF SlotData
<1> HIDE DEF r
<1> DEFINE e == [r EXCEPT !.decoded = piece]
           l == [r EXCEPT !.incomplete = FALSE]
<1>5. /\ e \in SlotData /\ e.base = r.base /\ e.addr = r.addr /\ e.header = r.header
      /\ e.blockStart = r.blockStart
      /\ e.blockSize = r.blockSize /\ e.table = r.table /\ e.last = r.last /\ e.good = r.good
      /\ e.headerRead = r.headerRead /\ e.tableRead = r.tableRead /\ e.tables = r.tables
      /\ e.damaged = r.damaged /\ e.large = r.large /\ e.incomplete = r.incomplete
      /\ e.id = r.id
  BY <1>4 DEF SlotData
<1>6. /\ l \in SlotData /\ l.incomplete = FALSE /\ l.large = r.large /\ l.base = r.base
      /\ l.addr = r.addr
  BY <1>4 DEF SlotData
<1>7. MovedTo(d, piece) = e /\ Left(d) = l
  BY <1>2 DEF MovedTo, Left
<1> HIDE DEF e, l
<1>8. RestOf(d, e, size)
  BY <1>4, <1>5 DEF RestOf
<1> QED BY <1>4, <1>5, <1>6, <1>7, <1>8

(* At its new place it is the same block, to be gone on with.              *)
LEMMA RestWaits ==
  ASSUME Inv, NEW d, NEW fits \in BOOLEAN, Took(d), Processing(d, fits), ~d.damaged,
         d.incomplete, NEW e \in SlotData, NEW piece \in Pieces, e = MovedTo(d, piece)
  PROVE  /\ Holds(archive, n, origin + d.base + d.addr, e) /\ IsRest(e)
         /\ Fresh(archive, [e EXCEPT !.incomplete = FALSE])
         /\ e.incomplete = TRUE
<1>1. /\ Types /\ n >= 1 /\ archive \in Archives /\ n \in 1 .. Len(archive)
      /\ origin \in Nat /\ d \in SlotData
  BY ProcessBasics
<1>2. /\ d.base \in Nat /\ d.addr \in Nat /\ d.blockStart \in Nat /\ d.blockSize \in Nat
      /\ d.incomplete \in BOOLEAN /\ d.damaged \in BOOLEAN /\ d.headerRead \in BOOLEAN
  BY <1>1, SlotTypes
<1>3. /\ BodyStart(archive, d.id) <= origin + d.base + d.addr
      /\ origin + d.base + d.addr < BodyEnd(archive, d.id)
      /\ d.tableRead = TRUE /\ d.tables = TablesOf(archive, d.id)
  BY <1>1, TookPiece
<1>4. d.addr <= d.blockStart + d.blockSize
  BY DEF Took, Ready
<1> DEFINE size == d.blockSize - (d.addr - d.blockStart)
<1>11. size \in Nat
  BY <1>2, <1>4
<1>12. size = d.blockSize - (d.addr - d.blockStart)
  OBVIOUS
<1>13. IsRestSize(d, size)
  BY <1>11 DEF IsRestSize
<1> HIDE DEF size
<1>5. /\ e.base = 0 /\ e.addr = 0 /\ e.header = 0 /\ e.blockStart = 0
      /\ e.blockSize = size
      /\ e.table = d.table /\ e.last = d.last /\ e.good = d.good
      /\ e.headerRead = d.headerRead /\ e.tableRead = d.tableRead /\ e.tables = d.tables
      /\ e.damaged = d.damaged /\ e.incomplete = d.incomplete /\ e.id = d.id
  <2>1. RestOf(d, e, size)
    BY <1>1, <1>13, RestFields
  <2> QED BY <2>1 DEF RestOf
<1>6. /\ d.headerRead /\ d.id[1] = n /\ d.id[2] \in 1 .. Len(archive[n])
      /\ d.last = archive[n][d.id[2]].last /\ d.good = archive[n][d.id[2]].good
      /\ d.table = archive[n][d.id[2]].table
      /\ origin + d.base + d.blockStart + d.blockSize = BodyEnd(archive, d.id)
  BY DEF Took, Held, Holds
<1>7. IsRest(e)
  BY <1>5 DEF IsRest
<1>8. Holds(archive, n, origin + d.base + d.addr, e)
  <2> DEFINE q == origin + d.base + d.addr
  <2>1. q + e.base + e.blockStart + e.blockSize = BodyEnd(archive, e.id)
    <3> DEFINE stop == BodyEnd(archive, d.id)
    <3>1. origin + d.base + d.blockStart + d.blockSize = stop
      BY <1>6
    <3> HIDE DEF stop
    <3>2. q + e.base + e.blockStart + e.blockSize = stop
      BY <1>1, <1>2, <1>5, <1>12, <3>1
    <3> QED BY <1>5, <3>2 DEF stop
  <2>2. BodyStart(archive, e.id) <= q /\ q < BodyEnd(archive, e.id)
    BY <1>3, <1>5
  <2> HIDE DEF q
  <2>3. Holds(archive, n, q, e)
    BY <1>5, <1>6, <1>7, <2>1, <2>2 DEF Holds
  <2> QED BY <2>3 DEF q
<1>9. Fresh(archive, [e EXCEPT !.incomplete = FALSE])
  <2> DEFINE f == [e EXCEPT !.incomplete = FALSE]
  <2>1. /\ f.damaged = e.damaged /\ f.incomplete = FALSE /\ f.addr = e.addr
        /\ f.blockStart = e.blockStart /\ f.tableRead = e.tableRead /\ f.table = e.table
        /\ f.tables = e.tables /\ f.id = e.id
    BY DEF SlotData
  <2> HIDE DEF f
  <2>2. d.damaged = FALSE
    BY <1>2
  <2>3. IsRest(f) = TRUE
    BY <1>5, <2>1 DEF IsRest
  <2>4. f.tableRead = IsRest(f)
    BY <1>3, <1>5, <2>1, <2>3
  <2>5. f.damaged = FALSE /\ f.addr = f.blockStart /\ f.tables = TablesOf(archive, f.id)
    BY <1>3, <1>5, <2>1, <2>2
  <2>6. Fresh(archive, f)
    BY <2>1, <2>4, <2>5 DEF Fresh
  <2> QED BY <2>6 DEF f
<1>10. e.incomplete = TRUE
  BY <1>2, <1>5
<1> QED BY <1>7, <1>8, <1>9, <1>10

(* The rest of an incomplete block is moved to the beginning of the        *)
(* buffer: it was the last block of its round, and the next read goes on   *)
(* with it.                                                                *)
LEMMA ProcessMove ==
  ASSUME Inv, NEW d, NEW fits \in BOOLEAN, Took(d), Processing(d, fits),
         ~d.damaged, d.incomplete, ~(DataSize <= d.base + d.addr), fits = TRUE,
         origin' = origin + (d.base + d.addr), DataSize' = DataSize - (d.base + d.addr),
         BlockStart' = 0, Done' = Done, block' = block,
         data' = [k \in Slots |->
           CASE k = 0 -> MovedTo(d, IF block = 0 THEN d.decoded ELSE data[0].decoded)
             [] k = block /\ k # 0 -> Left(d)
             [] OTHER -> data[k]],
         pc' = IF Done THEN "finish" ELSE "read"
  PROVE  Inv'
<1>1. /\ Types /\ AtProcess /\ InRound /\ n >= 1
      /\ archive \in Archives /\ n \in 1 .. Len(archive) /\ BlockNumber \in Nat
      /\ origin \in Nat /\ block \in Nat
      /\ DataSize \in Nat /\ data \in [Slots -> SlotData] /\ avail \in Nat
      /\ origin + DataSize <= avail /\ Done \in BOOLEAN
      /\ block < BlockNumber /\ block \in Slots /\ d \in SlotData
      /\ \A k \in Slots : data[k].large => LargeBlock
      /\ d.large => LargeBlock
      /\ Uncut({k \in Slots : k >= BlockNumber \/ k < block})
      /\ Done => ~Whole
      /\ over' = over
  BY ProcessBasics
<1>2. /\ archive' = archive /\ n' = n /\ avail' = avail /\ LargeBlock' = LargeBlock
      /\ applied' = Joined(applied, d.decoded)
  BY DEF Processing
<1>3. /\ d.base \in Nat /\ d.addr \in Nat /\ d.blockStart \in Nat /\ d.blockSize \in Nat
      /\ d.decoded \in Pieces /\ data[0].decoded \in Pieces
  BY <1>1, SlotTypes, SlotNumbers
<1>4. d.addr <= d.blockStart + d.blockSize
  BY DEF Took, Ready
<1> DEFINE piece == IF block = 0 THEN d.decoded ELSE data[0].decoded
           e == MovedTo(d, piece)
           q == origin + d.base + d.addr
<1>5. piece \in Pieces
  BY <1>3
<1>6. /\ e \in SlotData /\ e.base = 0 /\ e.addr = 0 /\ e.large = d.large
      /\ Left(d) \in SlotData /\ Left(d).incomplete = FALSE /\ Left(d).large = d.large
      /\ Left(d).base = 0 /\ Left(d).addr = 0
  <2> DEFINE size == d.blockSize - (d.addr - d.blockStart)
  <2>1. size \in Nat
    BY <1>3, <1>4
  <2>2. IsRestSize(d, size)
    BY <2>1 DEF IsRestSize
  <2> HIDE DEF piece, size
  <2> QED BY <1>1, <1>5, <2>2, RestFields
<1>7. Holds(archive, n, q, e) /\ IsRest(e) /\ Fresh(archive, [e EXCEPT !.incomplete = FALSE])
      /\ e.incomplete = TRUE
  <2> HIDE DEF piece
  <2> QED BY <1>5, <1>6, RestWaits
<1>8. \A k \in Slots : data'[k] = IF k = 0 THEN e ELSE IF k = block THEN Left(d) ELSE data[k]
  OBVIOUS
<1> HIDE DEF e, piece
<1>9. data' \in [Slots -> SlotData] /\ data'[0] = e
  <2>1. \A k \in Slots : data'[k] \in SlotData
    BY <1>1, <1>6, <1>8
  <2>2. data' = [k \in Slots |-> data'[k]]
    OBVIOUS
  <2>3. data'[0] = e
    BY <1>8, SlotNumbers
  <2> QED BY <2>1, <2>2, <2>3
<1>10. /\ AppliedTo(archive, applied', n, q) /\ q \in Nat /\ q = origin'
       /\ DataSize <= d.base + d.addr + Reserve
  <2>1. /\ AppliedTo(archive, Joined(applied, d.decoded), n, q) /\ q \in Nat
        /\ DataSize <= d.base + d.addr + Reserve
    BY <1>1, TookPiece
  <2>2. q = origin'
    BY <1>1, <1>3
  <2> QED BY <1>2, <2>1, <2>2
<1>11. /\ DataSize' \in Nat /\ DataSize' <= Reserve /\ DataSize' <= DataSize
       /\ origin' + DataSize' = origin + DataSize
  <2> DEFINE pos == d.base + d.addr
  <2>1. pos \in Nat /\ pos < DataSize
    BY <1>1, <1>3
  <2>2. /\ origin' = origin + pos /\ DataSize' = DataSize - pos
        /\ DataSize <= pos + Reserve
    BY <1>10
  <2> HIDE DEF pos
  <2> QED BY <1>1, <2>1, <2>2, Sizes
<1>12. block + 1 = BlockNumber
  <2> SUFFICES ASSUME block + 1 < BlockNumber PROVE FALSE
    BY <1>1
  <2>1. d.base + d.blockStart + d.blockSize + TooSmallToProcess <= DataSize
    BY <1>1, TookNext
  <2>2. d.addr # d.blockStart + d.blockSize
    <3>1. d.incomplete = (d.addr < d.blockStart + d.blockSize)
      BY DEF Took, Ready
    <3>2. d.addr < d.blockStart + d.blockSize
      BY <3>1
    <3> QED BY <1>3, <3>2
  <2>3. d.addr < d.blockStart + d.blockSize
    BY <1>3, <1>4, <2>2
  <2>4. DataSize <= d.base + d.addr + Reserve /\ DataSize \in Nat
    BY <1>1, <1>10
  <2> QED BY <1>3, <2>1, <2>3, <2>4, Sizes
<1>13. pc' \in {"finish", "read"} /\ (pc' = "finish" <=> Done) /\ (pc' = "read" <=> ~Done)
  OBVIOUS
<1>14. Types'
  <2>1. \A k \in Slots : data'[k].base + data'[k].addr <= UNP_READ_SIZE_MT + Reserve
    <3>1. 0 + 0 <= UNP_READ_SIZE_MT + Reserve
      BY Sizes
    <3> QED BY <1>1, <1>6, <1>8, <3>1, Always
  <2>2. Request' > 0
    <3>1. DataSize' <= TooSmallToProcess
      BY <1>11, Sizes
    <3>2. ((UNP_READ_SIZE_MT - DataSize') \div Align) * Align > 0
      BY <1>11, <3>1, RoomToRead
    <3> QED BY <3>2 DEF Request
  <2> HIDE DEF q
  <2>3. /\ block' \in Nat /\ BlockStart' \in Nat /\ origin' \in Nat /\ Done' \in BOOLEAN
        /\ origin' + DataSize' <= avail
    BY <1>1, <1>10, <1>11
  <2>4. pc' = "read" => Request' > 0 /\ BlockStart' = 0
    BY <2>2
  <2>5. pc' \in {"read", "process", "more", "finish"}
    BY <1>13
  <2> QED BY <1>9, <1>11, <2>1, <2>3, <2>4, <2>5, ProcessTypes
<1>15. pc' = "finish" => AtFinish'
  <2> SUFFICES ASSUME pc' = "finish" PROVE AtFinish'
    OBVIOUS
  <2>1. ~Whole
    BY <1>1, <1>13
  <2>2. ~Whole'
    BY <1>1, <1>2, <2>1 DEF Whole, File
  <2>3. AppliedInOrder'
    <3> HIDE DEF q
    <3> QED BY <1>1, <1>2, <1>10, InOrderNext
  <2> QED BY <2>2, <2>3 DEF AtFinish
<1>16. pc' = "read" => AtRead'
  <2> SUFFICES ASSUME pc' = "read" PROVE AtRead'
    OBVIOUS
  <2>1. Done' = FALSE
    BY <1>1, <1>13
  <2>2. RestAtStart(data[0])'
    <3> HIDE DEF q
    <3> QED BY <1>2, <1>7, <1>9, <1>10 DEF RestAtStart
  <2>3. Waiting'
    BY <1>7, <1>9, <2>2 DEF Waiting
  <2>4. Uncut(Slots \ {0})'
    <3> SUFFICES ASSUME NEW k \in Slots \ {0} PROVE data'[k].incomplete = FALSE
      BY DEF Uncut
    <3>1. CASE k = block
      BY <1>6, <1>8, <3>1
    <3>2. CASE k # block
      <4>1. k \in Nat /\ (k >= BlockNumber \/ k < block)
        BY <1>1, <1>12, <3>2, SlotNumbers
      <4>2. data[k].incomplete = FALSE
        BY <1>1, <4>1 DEF Uncut
      <4> QED BY <1>8, <3>2, <4>2
    <3> QED BY <3>1, <3>2
  <2> QED BY <2>1, <2>3, <2>4 DEF AtRead
<1>17. \A k \in Slots : data'[k].large => LargeBlock'
  BY <1>1, <1>2, <1>6, <1>8
<1> QED BY <1>13, <1>14, <1>15, <1>16, <1>17 DEF Inv

(* The next slot, or the end of the round.                                 *)
LEMMA ProcessNext ==
  ASSUME Inv, NEW d, NEW fits \in BOOLEAN, Took(d), Processing(d, fits),
         ~d.damaged, ~d.incomplete, ~d.last, fits = TRUE,
         origin' = origin, DataSize' = DataSize, BlockStart' = BlockStart, Done' = Done,
         block' = block + 1, data' = [data EXCEPT ![block] = d],
         pc' = IF block' < BlockNumber THEN "process" ELSE "more"
  PROVE  Inv'
<1>1. /\ Types /\ AtProcess /\ InRound /\ n >= 1
      /\ archive \in Archives /\ n \in 1 .. Len(archive) /\ BlockNumber \in Nat
      /\ origin \in Nat /\ block \in Nat /\ BlockNumber <= Cardinality(Slots)
      /\ DataSize \in Nat /\ data \in [Slots -> SlotData] /\ avail \in Nat
      /\ origin + DataSize <= avail /\ Done \in BOOLEAN /\ BlockStart \in Nat
      /\ block < BlockNumber /\ block \in Slots /\ d \in SlotData
      /\ \A k \in Slots : data[k].large => LargeBlock
      /\ d.large => LargeBlock
      /\ Uncut({k \in Slots : k >= BlockNumber \/ k < block})
      /\ Done => ~Whole
      /\ over' = over
  BY ProcessBasics
<1>2. /\ archive' = archive /\ n' = n /\ avail' = avail /\ LargeBlock' = LargeBlock
      /\ BlockNumber' = BlockNumber /\ NoDataLeft' = NoDataLeft
      /\ LastBlockNum' = LastBlockNum
      /\ applied' = Joined(applied, d.decoded)
  BY DEF Processing
<1>3. /\ data' \in [Slots -> SlotData] /\ data'[block] = d
      /\ \A k \in Slots : k # block => data'[k] = data[k]
  BY <1>1
<1>4. \A k \in Slots : Same(data[k], data'[k])
  <2> SUFFICES ASSUME NEW k \in Slots PROVE Same(data[k], data'[k])
    OBVIOUS
  <2>1. CASE k = block
    BY <1>3, <2>1 DEF Took
  <2>2. CASE k # block
    BY <1>3, <2>2 DEF Same
  <2> QED BY <2>1, <2>2
<1>5. InRound' /\ (Whole' <=> Whole)
  BY <1>1, <1>2, <1>4, SameRound
<1> DEFINE i == d.id[2]
<1>6. /\ i \in 1 .. Len(File) /\ d.id = <<n, i>> /\ i # Len(File)
      /\ BodyEnd(archive, d.id) = Start(File, i + 1)
      /\ Len(File) \in Nat
  BY <1>1, TookPlace, FileFacts DEF File
<1>7. /\ AppliedTo(archive, applied', n, Start(File, i + 1))
      /\ d.addr = d.blockStart + d.blockSize
      /\ origin + d.base + d.addr = Start(File, i + 1)
      /\ NoDataLeft \/ d.base + d.addr < DataSize
  <2>1. /\ AppliedTo(archive, Joined(applied, d.decoded), n, origin + d.base + d.addr)
        /\ d.addr = d.blockStart + d.blockSize
        /\ origin + d.base + d.addr = BodyEnd(archive, d.id)
        /\ NoDataLeft \/ d.base + d.addr < DataSize
    BY <1>1, TookPiece
  <2> QED BY <1>2, <1>6, <2>1
<1>8. /\ d.base \in Nat /\ d.addr \in Nat /\ d.blockStart \in Nat /\ d.blockSize \in Nat
      /\ d.incomplete = FALSE
  BY <1>1, SlotTypes
<1> HIDE DEF i
<1>9. pc' \in {"process", "more"} /\ (pc' = "process" <=> block + 1 < BlockNumber)
  OBVIOUS
<1>10. Types'
  <2>1. \A k \in Slots : data'[k].base + data'[k].addr <= UNP_READ_SIZE_MT + Reserve
    BY <1>1, <1>3, Always DEF Took
  <2>2. /\ block' \in Nat /\ BlockStart' \in Nat /\ origin' \in Nat /\ Done' \in BOOLEAN
        /\ DataSize' \in Nat /\ DataSize' <= DataSize /\ origin' + DataSize' <= avail
    BY <1>1
  <2>3. pc' # "read" /\ pc' \in {"read", "process", "more", "finish"}
    BY <1>9
  <2> QED BY <1>3, <2>1, <2>2, <2>3, ProcessTypes
<1>11. ASSUME block + 1 < BlockNumber PROVE AtProcess'
  <2> DEFINE next == data[block + 1]
  <2>1. /\ block + 1 \in Slots /\ next.id[2] = i + 1 /\ next.id[1] = n
        /\ ~IsRest(next) /\ next.id[2] \in 1 .. Len(File) /\ next.id \in Nat \X Nat
    BY <1>1, <1>11, TookNext DEF i
  <2>2. data'[block + 1] = next
    BY <1>1, <1>3, <2>1
  <2> HIDE DEF next
  <2>3. AppliedFrom(data[block])'
    <3>1. AppliedTo(archive, applied', n, BodyStart(archive, <<n, i + 1>>))
      BY <1>1, <1>7, <2>1, PassHeader DEF File
    <3>2. next.id = <<n, i + 1>>
      BY <2>1
    <3>3. From(archive, origin, next) = BodyStart(archive, <<n, i + 1>>)
      BY <2>1, <3>2 DEF From
    <3>4. data'[block'] = next
      BY <2>2
    <3> QED BY <1>2, <3>1, <3>3, <3>4 DEF AppliedFrom
  <2>4. ASSUME NEW k \in block + 1 .. BlockNumber - 1
        PROVE  IF data'[k].large THEN IsFresh(k)' ELSE IsReady(k)'
    <3>1. k \in block .. BlockNumber - 1 /\ k \in Slots /\ k # block
      BY <1>1, SlotNumbers
    <3>2. IF data[k].large THEN IsFresh(k) ELSE IsReady(k)
      BY <1>1, <3>1 DEF AtProcess
    <3>3. data'[k] = data[k]
      BY <1>3, <3>1
    <3>4. /\ IsFresh(k)' <=> IsFresh(k)
          /\ IsReady(k)' <=> IsReady(k)
      BY <1>2, <1>5, <3>3 DEF IsFresh, IsReady, Ready
    <3> QED BY <3>2, <3>3, <3>4
  <2>5. \A k \in block' .. BlockNumber' - 1 :
          IF data'[k].large THEN IsFresh(k)' ELSE IsReady(k)'
    BY <1>2, <2>4
  <2>6. Uncut({k \in Slots : k >= BlockNumber \/ k < block})'
    <3>1. ASSUME NEW k \in Slots, k >= BlockNumber \/ k < block + 1
          PROVE  data'[k].incomplete = FALSE
      <4>1. CASE k = block
        BY <1>3, <1>8, <4>1
      <4>2. CASE k # block
        <5>1. k >= BlockNumber \/ k < block
          BY <1>1, <3>1, <4>2, SlotNumbers
        <5> QED BY <1>1, <1>3, <4>2, <5>1 DEF Uncut
      <4> QED BY <4>1, <4>2
    <3> QED BY <1>2, <3>1 DEF Uncut
  <2> QED BY <1>2, <1>5, <1>11, <2>3, <2>5, <2>6 DEF AtProcess
<1>12. ASSUME ~(block + 1 < BlockNumber) PROVE AtMore'
  <2>1. block = BlockNumber - 1
    BY <1>1, <1>12
  <2>2. BlockStart = d.base + d.blockStart + d.blockSize
    BY <1>1, <2>1 DEF InRound, Took, Same
  <2>3. BlockStart = d.base + d.addr
    BY <1>7, <1>8, <2>2
  <2>4. origin + BlockStart = Start(File, i + 1)
    BY <1>1, <1>7, <1>8, <2>3
  <2>5. i + 1 \in 2 .. Len(File)
    BY <1>6
  <2>6. NextAt(i + 1)'
    <3>1. AppliedTo(archive, applied', n, origin + BlockStart)
      BY <1>7, <2>4
    <3>2. i + 1 # 1
      BY <2>5
    <3> QED BY <1>2, <2>4, <3>1, <3>2 DEF NextAt, File
  <2>7. \E j \in 2 .. Len(File)' : NextAt(j)'
    BY <1>2, <2>5, <2>6 DEF File
  <2>8. Uncut(Slots)'
    <3> SUFFICES ASSUME NEW k \in Slots PROVE data'[k].incomplete = FALSE
      BY DEF Uncut
    <3>1. CASE k = block
      BY <1>3, <1>8, <3>1
    <3>2. CASE k # block
      <4>1. k >= BlockNumber \/ k < block
        BY <1>1, <2>1, <3>2, SlotNumbers
      <4> QED BY <1>1, <1>3, <3>2, <4>1 DEF Uncut
    <3> QED BY <3>1, <3>2
  <2>9. AllRead' /\ (Done' => ~Whole')
    BY <1>5 DEF InRound
  <2>10. NoDataLeft' \/ BlockStart' < DataSize'
    BY <1>2, <1>7, <2>3
  <2> QED BY <2>7, <2>8, <2>9, <2>10 DEF AtMore
<1>13. \A k \in Slots : data'[k].large => LargeBlock'
  BY <1>1, <1>2, <1>3
<1> QED BY <1>9, <1>10, <1>11, <1>12, <1>13 DEF Inv

(* Applying a block keeps the invariant.                                   *)
LEMMA ProcessStep ==
  ASSUME Inv, NEW fits \in BOOLEAN, Process(fits)
  PROVE  Inv'
<1>1. PICK d \in IF data[block].large THEN Decoded(data[block]) ELSE {data[block]} :
        /\ IF d.large /\ d.damaged THEN UNCHANGED applied ELSE Apply(d.decoded)
        /\ \/ /\ ~fits \/ d.damaged
              /\ Stop(d)
           \/ /\ fits /\ ~d.damaged
              /\ IF d.incomplete
                   THEN IF DataSize <= d.base + d.addr THEN Stop(d) ELSE MoveRest(d)
                   ELSE IF d.last THEN Stop(d) ELSE NextBlock(d)
  BY DEF Process
<1>2. /\ pc = "process"
      /\ archive' = archive /\ n' = n /\ avail' = avail /\ end' = end /\ lost' = lost
      /\ BlockNumber' = BlockNumber /\ NoDataLeft' = NoDataLeft /\ LargeBlock' = LargeBlock
      /\ LastBlockNum' = LastBlockNum /\ tasks' = tasks /\ tables' = tables
      /\ over' = (over \/ ~fits)
  BY DEF Process, source, round
<1>3. Took(d)
  BY <1>1, <1>2, ProcessTakes
<1>4. applied' = IF d.large /\ d.damaged THEN applied ELSE Joined(applied, d.decoded)
  BY <1>1 DEF Apply
<1>5. Processing(d, fits)
  BY <1>2, <1>4 DEF Processing
<1>6. CASE Stop(d) /\ (\/ ~fits \/ d.damaged
                       \/ d.incomplete /\ DataSize <= d.base + d.addr
                       \/ fits /\ ~d.damaged /\ ~d.incomplete /\ d.last)
  <2>1. /\ Done' = TRUE /\ data' = [data EXCEPT ![block] = d] /\ pc' = "finish"
        /\ origin' = origin /\ DataSize' = DataSize /\ BlockStart' = BlockStart
        /\ block' = block
    BY <1>6 DEF Stop, buffer
  <2> QED BY <1>3, <1>5, <1>6, <2>1, ProcessStop
<1>7. CASE MoveRest(d) /\ fits /\ ~d.damaged /\ d.incomplete /\ ~(DataSize <= d.base + d.addr)
  <2>1. /\ origin' = origin + (d.base + d.addr) /\ DataSize' = DataSize - (d.base + d.addr)
        /\ BlockStart' = 0 /\ Done' = Done /\ block' = block
        /\ pc' = IF Done THEN "finish" ELSE "read"
    BY <1>7 DEF MoveRest
  <2>2. data' = [k \in Slots |->
           CASE k = 0 -> MovedTo(d, IF block = 0 THEN d.decoded ELSE data[0].decoded)
             [] k = block /\ k # 0 -> Left(d)
             [] OTHER -> data[k]]
    <3>1. [Rest(d) EXCEPT !.decoded = IF block = 0 THEN @ ELSE data[0].decoded]
            = MovedTo(d, IF block = 0 THEN d.decoded ELSE data[0].decoded)
      <4>1. Rest(d).decoded = d.decoded
        <5>1. d \in SlotData
          BY <1>3 DEF Took
        <5> DEFINE size == d.blockSize - (d.addr - d.blockStart)
        <5>2. Rest(d) = [d EXCEPT !.blockSize = size, !.header = 0, !.blockStart = 0,
                                  !.base = 0, !.addr = 0]
          BY DEF Rest
        <5> HIDE DEF size
        <5> QED BY <5>1, <5>2 DEF SlotData
      <4> QED BY <4>1 DEF MovedTo
    <3>2. [Rest(d) EXCEPT !.incomplete = FALSE] = Left(d)
      BY DEF Left
    <3> QED BY <1>7, <3>1, <3>2 DEF MoveRest
  <2>3. fits = TRUE
    BY <1>7
  <2> QED BY <1>3, <1>5, <1>7, <2>1, <2>2, <2>3, ProcessMove
<1>8. CASE NextBlock(d) /\ fits /\ ~d.damaged /\ ~d.incomplete /\ ~d.last
  <2>1. /\ origin' = origin /\ DataSize' = DataSize /\ BlockStart' = BlockStart
        /\ Done' = Done /\ block' = block + 1 /\ data' = [data EXCEPT ![block] = d]
        /\ pc' = IF block' < BlockNumber THEN "process" ELSE "more"
    BY <1>8 DEF NextBlock, buffer
  <2>2. fits = TRUE
    BY <1>8
  <2> QED BY <1>3, <1>5, <1>8, <2>1, <2>2, ProcessNext
<1> QED BY <1>1, <1>6, <1>7, <1>8

-----------------------------------------------------------------------------
(* The end of a round and of a file.                                       *)

(* After a round the buffer goes on with the block that follows, or the    *)
(* file is cut off.                                                        *)
LEMMA MoreDataStep ==
  ASSUME Inv, MoreData
  PROVE  Inv'
<1> DEFINE left == DataSize - BlockStart
<1>0. /\ pc = "more" /\ Done' = (Done \/ left < 0)
      /\ IF ~Done' /\ left < TooSmallToProcess
           THEN origin' = origin + BlockStart /\ DataSize' = left /\ BlockStart' = 0
           ELSE origin' = origin /\ DataSize' = DataSize /\ BlockStart' = BlockStart
      /\ pc' = IF Done' THEN "finish" ELSE IF left < TooSmallToProcess THEN "read" ELSE "fill"
      /\ BlockNumber' = 0
      /\ archive' = archive /\ n' = n /\ avail' = avail /\ end' = end /\ lost' = lost
      /\ NoDataLeft' = NoDataLeft /\ LargeBlock' = LargeBlock
      /\ LastBlockNum' = LastBlockNum /\ data' = data /\ tasks' = tasks /\ block' = block
      /\ tables' = tables /\ over' = over /\ applied' = applied
  BY DEF MoreData, source, buffer
<1>1. /\ Types /\ AtMore /\ n >= 1 /\ (lost => avail < Total(File))
      /\ \A k \in Slots : data[k].large => LargeBlock
  BY <1>0 DEF Inv, Types
<1>2. /\ archive \in Archives /\ n \in 1 .. Len(archive) /\ avail \in Nat
      /\ origin \in Nat /\ BlockStart \in Nat /\ DataSize \in Nat /\ Done \in BOOLEAN
      /\ data \in [Slots -> SlotData] /\ origin + DataSize <= avail
      /\ DataSize <= UNP_READ_SIZE_MT
  BY <1>1, Always
<1>3. /\ AllRead /\ Uncut(Slots) /\ (Done => ~Whole)
      /\ NoDataLeft \/ BlockStart < DataSize
  BY <1>1 DEF AtMore
<1>4. PICK j \in 2 .. Len(File) : NextAt(j)
  BY <1>1 DEF AtMore
<1>5. Len(File) \in Nat
  BY <1>2, FileFacts DEF File
<1>6. /\ j \in 1 .. Len(File) /\ j # 1
      /\ AppliedTo(archive, applied, n, origin + BlockStart)
      /\ origin + BlockStart = Start(File, j)
      /\ origin + BlockStart < Total(File) /\ Total(File) \in Nat
      /\ origin + BlockStart \in Nat
  BY <1>2, <1>4, <1>5, NextFacts DEF NextAt
<1>7. Done' \in BOOLEAN /\ (Done' => Done \/ left < 0) /\ (~Done' => ~Done /\ ~(left < 0))
  <2>1. Done' = (Done \/ left < 0)
    BY <1>0
  <2> HIDE DEF left
  <2> QED BY <2>1, Zenon
<1>8. left < 0 => ~Whole
  <2> SUFFICES ASSUME left < 0 PROVE ~Whole
    OBVIOUS
  <2>1. DataSize < BlockStart
    BY <1>2
  <2>2. NoDataLeft
    BY <1>2, <1>3, <2>1
  <2>3. origin + DataSize = avail
    BY <1>3, <2>2 DEF AllRead
  <2>4. avail < Total(File)
    BY <1>2, <1>6, <2>1, <2>3
  <2> QED BY <1>2, <1>6, <2>4 DEF Whole
<1>9. left \in Int
  BY <1>2
<1>10. pc' \in {"finish", "read", "fill"} /\ (pc' = "finish" <=> Done')
       /\ (pc' = "read" => ~Done' /\ left < TooSmallToProcess)
       /\ (pc' = "fill" => ~Done' /\ ~(left < TooSmallToProcess))
  BY <1>0
<1>11. /\ origin' \in Nat /\ DataSize' \in Nat /\ BlockStart' \in Nat
       /\ origin' + DataSize' = origin + DataSize /\ DataSize' <= DataSize
       /\ origin' + BlockStart' = origin + BlockStart
  <2>1. CASE ~Done' /\ left < TooSmallToProcess
    <3>1. origin' = origin + BlockStart /\ DataSize' = left /\ BlockStart' = 0
      BY <1>0, <2>1
    <3>2. ~(left < 0)
      BY <1>7, <2>1
    <3> QED BY <1>2, <3>1, <3>2
  <2>2. CASE ~(~Done' /\ left < TooSmallToProcess)
    <3>1. origin' = origin /\ DataSize' = DataSize /\ BlockStart' = BlockStart
      BY <1>0, <2>2
    <3> QED BY <1>2, <3>1
  <2> QED BY <2>1, <2>2
<1>12. TypeOK'
  <2>1. /\ BlockNumber' \in 0 .. Cardinality(Slots) /\ LastBlockNum' \in Slots
        /\ NoDataLeft' \in BOOLEAN
    BY <1>0, <1>1, Always, SlotNumbers
  <2>2. DataSize' \in 0 .. UNP_READ_SIZE_MT
    BY <1>2, <1>11, Sizes
  <2>3. n' \in 0 .. Len(archive')
    BY <1>0, <1>1, Always
  <2>4. /\ archive' \in Archives /\ lost' \in BOOLEAN /\ LargeBlock' \in BOOLEAN
        /\ over' \in BOOLEAN /\ Cardinality(tasks') <= MaxUserThreads
        /\ \A k \in Slots : data'[k].base + data'[k].addr <= UNP_READ_SIZE_MT + Reserve
    BY <1>0, <1>1, Always
  <2>5. origin' + DataSize' <= avail'
    BY <1>0, <1>2, <1>11
  <2>6. pc' = "read" => Request' > 0 /\ BlockStart' = 0
    <3> SUFFICES ASSUME pc' = "read" PROVE Request' > 0 /\ BlockStart' = 0
      OBVIOUS
    <3>1. DataSize' = left /\ BlockStart' = 0 /\ left < TooSmallToProcess
      BY <1>0, <1>10
    <3>2. DataSize' <= TooSmallToProcess
      BY <1>9, <3>1, Sizes
    <3>3. ((UNP_READ_SIZE_MT - DataSize') \div Align) * Align > 0
      BY <1>11, <3>2, RoomToRead
    <3> QED BY <3>1, <3>3 DEF Request
  <2>7. pc' = "fill" => BlockStart' \in 0 .. DataSize' - 1
    <3> SUFFICES ASSUME pc' = "fill" PROVE BlockStart' \in 0 .. DataSize' - 1
      OBVIOUS
    <3>1. DataSize' = DataSize /\ BlockStart' = BlockStart /\ ~(left < TooSmallToProcess)
      BY <1>0, <1>10
    <3>2. BlockStart < DataSize
      BY <1>2, <3>1, Sizes
    <3> QED BY <1>2, <3>1, <3>2
  <2>8. pc' \in {"call", "read", "fill", "add", "decode", "process", "more", "finish", "end"}
    BY <1>10
  <2> QED BY <1>7, <2>1, <2>2, <2>3, <2>4, <2>5, <2>6, <2>7, <2>8 DEF TypeOK
<1>13. Types'
  BY <1>0, <1>1, <1>11, <1>12, Always DEF Types, File
<1>14. Waiting' /\ Uncut(Slots \ {0})' /\ Uncut(Slots)'
  <2>1. Uncut(Slots)' /\ Uncut(Slots \ {0})'
    BY <1>0, <1>3 DEF Uncut
  <2>2. data'[0].incomplete = FALSE
    BY <2>1, SlotNumbers DEF Uncut
  <2>3. NextAt(j)'
    <3>1. /\ AppliedTo(archive', applied', n', origin' + BlockStart')
          /\ origin' + BlockStart' = Start(archive'[n'], j)
      BY <1>0, <1>6, <1>11 DEF File
    <3> QED BY <1>6, <3>1 DEF NextAt, File
  <2>4. j \in 1 .. Len(File)'
    BY <1>0, <1>6 DEF File
  <2> QED BY <2>1, <2>2, <2>3, <2>4 DEF Waiting
<1>15. pc' = "finish" => AtFinish'
  <2> SUFFICES ASSUME pc' = "finish" PROVE AtFinish'
    OBVIOUS
  <2>1. ~Whole
    BY <1>3, <1>7, <1>8, <1>10
  <2>2. ~Whole'
    BY <1>0, <2>1 DEF Whole, File
  <2>3. AppliedInOrder'
    <3>1. AppliedTo(archive', applied', n', origin + BlockStart)
      BY <1>0, <1>6
    <3> QED BY <1>0, <1>2, <1>6, <3>1, InOrderNext
  <2> QED BY <2>2, <2>3 DEF AtFinish
<1>16. pc' = "read" => AtRead'
  BY <1>7, <1>10, <1>14 DEF AtRead
<1>17. pc' = "fill" => AtFill'
  <2> SUFFICES ASSUME pc' = "fill" PROVE AtFill'
    OBVIOUS
  <2>1. /\ DataSize' = DataSize /\ BlockStart' = BlockStart /\ origin' = origin
        /\ ~(left < TooSmallToProcess)
    BY <1>0, <1>10
  <2>2. BlockStart' + TooSmallToProcess <= DataSize'
    BY <1>2, <2>1, Sizes
  <2>3. Done' = FALSE /\ AllRead' /\ BlockNumber' \in Slots /\ ~(BlockNumber' > 0)
    BY <1>0, <1>3, <1>7, <1>10, <2>1, SlotNumbers DEF AllRead
  <2> QED BY <1>14, <2>2, <2>3 DEF AtFill
<1>18. \A k \in Slots : data'[k].large => LargeBlock'
  BY <1>0, <1>1
<1> QED BY <1>10, <1>13, <1>15, <1>16, <1>17, <1>18 DEF Inv

(* The next file begins where a whole one has ended, with its tables.      *)
LEMMA FinishStep ==
  ASSUME Inv, Finish
  PROVE  Inv'
<1>0. /\ pc = "finish" /\ tables' = data[LastBlockNum].tables
      /\ pc' = IF n < Len(archive) /\ Whole THEN "call" ELSE "end"
      /\ archive' = archive /\ n' = n /\ avail' = avail /\ end' = end /\ lost' = lost
      /\ origin' = origin /\ DataSize' = DataSize /\ BlockStart' = BlockStart
      /\ BlockNumber' = BlockNumber /\ NoDataLeft' = NoDataLeft /\ LargeBlock' = LargeBlock
      /\ LastBlockNum' = LastBlockNum /\ Done' = Done /\ data' = data /\ tasks' = tasks
      /\ block' = block /\ over' = over /\ applied' = applied
  BY DEF Finish, source, buffer, round
<1>1. /\ Types /\ AtFinish /\ n >= 1 /\ (lost => avail < Total(File))
      /\ \A k \in Slots : data[k].large => LargeBlock
  BY <1>0 DEF Inv, Types
<1>2. /\ archive \in Archives /\ n \in 1 .. Len(archive)
      /\ data \in [Slots -> SlotData] /\ LastBlockNum \in Slots
  BY <1>1, Always
<1>3. tables' \in Nat \X Nat
  BY <1>0, <1>2, SlotTypes
<1>4. pc' \in {"call", "end"} /\ (pc' = "call" => Whole)
  BY <1>0
<1>5. TypeOK'
  <2>1. /\ BlockNumber' \in 0 .. Cardinality(Slots) /\ LastBlockNum' \in Slots
        /\ NoDataLeft' \in BOOLEAN
    BY <1>0, <1>1, Always, SlotNumbers
  <2>2. DataSize' \in 0 .. UNP_READ_SIZE_MT /\ n' \in 0 .. Len(archive')
    BY <1>0, <1>1, Always, Sizes
  <2>3. /\ archive' \in Archives /\ lost' \in BOOLEAN /\ LargeBlock' \in BOOLEAN
        /\ origin' + DataSize' <= avail' /\ Done' \in BOOLEAN /\ over' \in BOOLEAN
        /\ Cardinality(tasks') <= MaxUserThreads
        /\ \A k \in Slots : data'[k].base + data'[k].addr <= UNP_READ_SIZE_MT + Reserve
    BY <1>0, <1>1, Always
  <2> QED BY <1>4, <2>1, <2>2, <2>3 DEF TypeOK
<1>6. Types'
  BY <1>0, <1>1, <1>3, <1>5, Always DEF Types, File
<1>7. Whole => /\ AppliedTo(archive, applied, n, Total(File))
               /\ data[LastBlockNum].tables = TablesOf(archive, <<n + 1, 0>>)
  BY <1>1 DEF AtFinish
<1>8. pc' = "call" => AtCall'
  <2> SUFFICES ASSUME pc' = "call" PROVE AtCall'
    OBVIOUS
  <2>1. /\ AppliedTo(archive, applied, n, Total(archive[n]))
        /\ tables' = TablesOf(archive, <<n + 1, 0>>)
    BY <1>0, <1>4, <1>7 DEF File
  <2>2. AppliedTo(archive, applied, n + 1, 0)
    BY <1>2, <2>1, PassFile
  <2> QED BY <1>0, <2>1, <2>2 DEF AtCall, File
<1>9. pc' = "end" => AtEnd'
  <2> SUFFICES ASSUME pc' = "end" PROVE AtEnd'
    OBVIOUS
  <2>1. Damaged' <=> Damaged
    BY <1>0 DEF Damaged
  <2>2. AppliedInOrder'
    BY <1>0, <1>1, <2>1 DEF AtFinish, AppliedInOrder
  <2>3. (Whole' <=> Whole) /\ Total(File)' = Total(File)
    BY <1>0 DEF Whole, File
  <2>4. Whole' => AppliedTo(archive', applied', n', Total(File)')
    BY <1>0, <1>7, <2>3
  <2> QED BY <2>2, <2>4 DEF AtEnd
<1>10. \A k \in Slots : data'[k].large => LargeBlock'
  BY <1>0, <1>1
<1> QED BY <1>4, <1>6, <1>8, <1>9, <1>10 DEF Inv

(* The invariant is about the variables in vars.                           *)
LEMMA StutterStep ==
  ASSUME Inv, UNCHANGED vars
  PROVE  Inv'
<1>1. /\ archive' = archive /\ n' = n /\ avail' = avail /\ end' = end /\ lost' = lost
      /\ origin' = origin /\ DataSize' = DataSize /\ BlockStart' = BlockStart
      /\ BlockNumber' = BlockNumber /\ NoDataLeft' = NoDataLeft /\ LargeBlock' = LargeBlock
      /\ LastBlockNum' = LastBlockNum /\ Done' = Done /\ data' = data /\ tasks' = tasks
      /\ block' = block /\ tables' = tables /\ over' = over /\ applied' = applied /\ pc' = pc
  BY DEF vars, source, buffer, round
<1>2. TypeOK' <=> TypeOK
  BY <1>1 DEF TypeOK, Request
<1>3. Types' <=> Types
  BY <1>1, <1>2 DEF Types, File
<1>4. (Whole' <=> Whole) /\ (AllRead' <=> AllRead) /\ (LargeLast' <=> LargeLast)
  BY <1>1 DEF Whole, AllRead, LargeLast, File
<1>5. /\ Blocks' <=> Blocks
      /\ \A k : IsFresh(k)' <=> IsFresh(k)
      /\ \A k : IsReady(k)' <=> IsReady(k)
      /\ \A k : Pending(k)' <=> Pending(k)
      /\ \A S : Uncut(S)' <=> Uncut(S)
  BY <1>1, <1>4 DEF Blocks, IsFresh, IsReady, Ready, Pending, Uncut
<1>6. /\ \A d : AppliedFrom(d)' <=> AppliedFrom(d)
      /\ \A j : NextAt(j)' <=> NextAt(j)
      /\ \A d : RestAtStart(d)' <=> RestAtStart(d)
  BY <1>1 DEF AppliedFrom, NextAt, RestAtStart, File
<1>7. Waiting' <=> Waiting
  BY <1>1, <1>6 DEF Waiting, File
<1>8. InRound' <=> InRound
  BY <1>1, <1>4, <1>5 DEF InRound
<1>9. AppliedInOrder' <=> AppliedInOrder
  BY <1>1 DEF AppliedInOrder, Damaged
<1>10. (AtCall' <=> AtCall) /\ (AtRead' <=> AtRead)
  BY <1>1, <1>5, <1>7 DEF AtCall, AtRead, File
<1>11. AtFill' <=> AtFill
  BY <1>1, <1>4, <1>5, <1>6, <1>7 DEF AtFill
<1>12. AtAdd' <=> AtAdd
  BY <1>1, <1>4, <1>5, <1>6, <1>8 DEF AtAdd
<1>13. AtDecode' <=> AtDecode
  BY <1>1, <1>5, <1>6, <1>8 DEF AtDecode
<1>14. AtProcess' <=> AtProcess
  BY <1>1, <1>5, <1>6, <1>8 DEF AtProcess
<1>15. AtMore' <=> AtMore
  BY <1>1, <1>4, <1>5, <1>6 DEF AtMore, File
<1>16. (AtFinish' <=> AtFinish) /\ (AtEnd' <=> AtEnd)
  BY <1>1, <1>4, <1>9 DEF AtFinish, AtEnd, File
<1> QED BY <1>1, <1>3, <1>10, <1>11, <1>12, <1>13, <1>14, <1>15, <1>16 DEF Inv

-----------------------------------------------------------------------------
(* The theorems.                                                           *)

(* Inv holds in every state: at each step of Unpack5MT the slots, the      *)
(* buffer and the tasks fit what has been applied so far.                  *)
THEOREM Invariance == Spec => []Inv
<1>1. Init => Inv
  BY InitInv
<1>2. Inv /\ [Next]_vars => Inv'
  <2> SUFFICES ASSUME Inv, [Next]_vars PROVE Inv'
    OBVIOUS
  <2>1. CASE Call
    BY <2>1, CallStep
  <2>2. CASE Read
    BY <2>2, ReadStep
  <2>3. CASE Fill
    BY <2>3, FillStep
  <2>4. CASE AddTasks
    BY <2>4, AddTasksStep
  <2>5. CASE \E task \in tasks : Decode(task)
    BY <2>5, DecodeStep
  <2>6. CASE WaitDone
    BY <2>6, WaitDoneStep
  <2>7. CASE \E fits \in BOOLEAN : Process(fits)
    BY <2>7, ProcessStep
  <2>8. CASE MoreData
    BY <2>8, MoreDataStep
  <2>9. CASE Finish
    BY <2>9, FinishStep
  <2>10. CASE UNCHANGED vars
    BY <2>10, StutterStep
  <2> QED BY <2>1, <2>2, <2>3, <2>4, <2>5, <2>6, <2>7, <2>8, <2>9, <2>10 DEF Next
<1> QED BY <1>1, <1>2, PTL DEF Spec

(* No block is taken from behind the data, no item reads more than the     *)
(* reserve behind it, every read has room and the tasks fit UTDArray, for  *)
(* any size of the buffer, any number of threads and any archive           *)
(* (Unpack5MT).                                                            *)
THEOREM TypeCorrect == Spec => []TypeOK
<1>1. Inv => TypeOK
  BY DEF Inv, Types
<1> QED BY <1>1, Invariance, PTL

(* Between two actions the window has everything up to some position.      *)
LEMMA SlotStart ==
  ASSUME Types, n >= 1, NEW d, Held(archive, n, origin, DataSize, NoDataLeft, d),
         d \in SlotData
  PROVE  From(archive, origin, d) \in Nat
<1>1. archive \in Archives /\ n \in 1 .. Len(archive) /\ origin \in Nat
  BY Always
<1>2. d.id \in Nat \X Nat
  BY SlotTypes
<1>3. d.id[1] = n /\ d.id[2] \in 1 .. Len(archive[n])
  BY DEF Held, Holds
<1> DEFINE i == d.id[2]
<1>4. i \in 1 .. Len(archive[n]) /\ d.id = <<n, i>>
  BY <1>2, <1>3
<1> HIDE DEF i
<1>5. BodyStart(archive, d.id) \in Nat
  BY <1>1, <1>4, Places
<1> QED BY <1>1, <1>5 DEF From

(* In a round the file is applied up to where the first slot goes on.      *)
LEMMA RoundStart ==
  ASSUME Types, n >= 1, InRound \/ (BlockNumber > 0 /\ Blocks),
         NEW k \in 0 .. BlockNumber - 1, AppliedFrom(data[k])
  PROVE  \E pos \in Nat : AppliedTo(archive, applied, n, pos)
<1>1. /\ k \in Slots /\ data[k] \in SlotData
  BY Always, SlotNumbers
<1>2. Held(archive, n, origin, DataSize, NoDataLeft, data[k])
  BY DEF InRound, Blocks
<1>3. From(archive, origin, data[k]) \in Nat
  BY <1>1, <1>2, SlotStart
<1> QED BY <1>3 DEF AppliedFrom

(* Before the first file nothing was applied.                              *)
LEMMA NothingBefore ==
  ASSUME NEW a \in Archives, NEW s, AppliedTo(a, s, 1, 0)
  PROVE  Len(s) = 0
<1>1. Passed(a, 1, 0) = {}
  <2> SUFFICES ASSUME NEW o \in Passed(a, 1, 0) PROVE FALSE
    OBVIOUS
  <2>1. o \in All(a) /\ (o[1] < 1 \/ (o[1] = 1 /\ BodyStart(a, o) < 0))
    BY DEF Passed
  <2>2. o[1] \in 1 .. Len(a) /\ o[2] \in 1 .. Len(a[o[1]]) /\ o = <<o[1], o[2]>>
    BY <2>1, IdPlace
  <2> DEFINE m == o[1]
             i == o[2]
  <2>3. m \in 1 .. Len(a) /\ i \in 1 .. Len(a[m]) /\ o = <<m, i>>
    BY <2>2
  <2> HIDE DEF m, i
  <2>4. BodyStart(a, o) \in Nat
    BY <2>3, Places
  <2>5. Len(a) \in Nat
    BY FileFacts, <2>3
  <2> QED BY <2>1, <2>3, <2>4 DEF m
<1> QED BY <1>1, FS_EmptySet DEF AppliedTo

(* As long as a file is being unpacked, all of it up to some position was  *)
(* applied.                                                                *)
LEMMA SomewhereApplied ==
  ASSUME Inv, n >= 1, pc \notin {"finish", "end"}
  PROVE  \E pos \in Nat : AppliedTo(archive, applied, n, pos)
<1>1. Types
  BY DEF Inv
<1>2. /\ archive \in Archives /\ n \in 1 .. Len(archive) /\ origin \in Nat
      /\ BlockStart \in Nat /\ BlockNumber \in Nat /\ block \in Nat
      /\ origin + BlockStart \in Nat
  BY <1>1, Always
<1>3. CASE pc = "call"
  <2>0. n > 0
    BY <1>2
  <2>1. AppliedTo(archive, applied, n, Total(archive[n]))
    BY <1>3, <2>0 DEF Inv, AtCall, File
  <2>2. Total(archive[n]) \in Nat
    <3>1. 1 \in 1 .. Len(archive[n])
      BY <1>2, FileFacts
    <3> QED BY <1>2, <3>1, Places
  <2> QED BY <2>1, <2>2
<1>4. ASSUME Waiting PROVE \E pos \in Nat : AppliedTo(archive, applied, n, pos)
  BY <1>1, <1>2, <1>4, WaitingFacts
<1>5. CASE pc = "read"
  BY <1>4, <1>5 DEF Inv, AtRead
<1>6. CASE pc = "fill"
  <2>1. CASE BlockNumber = 0
    BY <1>4, <1>6, <2>1 DEF Inv, AtFill
  <2>2. CASE BlockNumber # 0
    <3>1. BlockNumber > 0 /\ 0 \in 0 .. BlockNumber - 1
      BY <1>2, <2>2
    <3>2. Blocks /\ AppliedFrom(data[0])
      BY <1>6, <3>1 DEF Inv, AtFill
    <3> QED BY <1>1, <3>1, <3>2, RoundStart
  <2> QED BY <2>1, <2>2
<1>7. CASE pc = "add"
  <2>1. CASE BlockNumber = 0
    BY <1>2, <1>7, <2>1 DEF Inv, AtAdd
  <2>2. CASE BlockNumber # 0
    <3>1. 0 \in 0 .. BlockNumber - 1
      BY <1>2, <2>2
    <3>2. InRound /\ AppliedFrom(data[0])
      BY <1>7, <2>2 DEF Inv, AtAdd
    <3> QED BY <1>1, <3>1, <3>2, RoundStart
  <2> QED BY <2>1, <2>2
<1>8. CASE pc = "decode"
  <2>1. InRound /\ AppliedFrom(data[0])
    BY <1>8 DEF Inv, AtDecode
  <2>2. 0 \in 0 .. BlockNumber - 1
    BY <1>2, <2>1 DEF InRound
  <2> QED BY <1>1, <2>1, <2>2, RoundStart
<1>9. CASE pc = "process"
  <2>1. InRound /\ AppliedFrom(data[block]) /\ block < BlockNumber
    BY <1>9 DEF Inv, AtProcess
  <2>2. block \in 0 .. BlockNumber - 1
    BY <1>2, <2>1
  <2> QED BY <1>1, <2>1, <2>2, RoundStart
<1>10. CASE pc = "more"
  <2>1. PICK j \in 2 .. Len(File) : NextAt(j)
    BY <1>10 DEF Inv, AtMore
  <2> QED BY <1>2, <2>1 DEF NextAt
<1> QED BY <1>1, <1>3, <1>5, <1>6, <1>7, <1>8, <1>9, <1>10 DEF Types, TypeOK

(* The window gets the data of every block once, in the order of the       *)
(* blocks, with the right tables, in whatever order the threads decode     *)
(* them and wherever reads and rounds cut them (ProcessDecoded in          *)
(* Unpack5MT).                                                             *)
THEOREM InOrderAlways == Spec => []AppliedInOrder
<1>1. Inv => AppliedInOrder
  <2> SUFFICES ASSUME Inv PROVE AppliedInOrder
    OBVIOUS
  <2>1. CASE pc \in {"finish", "end"}
    BY <2>1 DEF Inv, AtFinish, AtEnd
  <2>2. CASE pc \notin {"finish", "end"} /\ n >= 1
    <3>1. PICK pos \in Nat : AppliedTo(archive, applied, n, pos)
      BY <2>2, SomewhereApplied
    <3>2. archive \in Archives /\ n \in 1 .. Len(archive) /\ Len(applied) \in Nat
      BY <2>2, Always DEF Inv
    <3>3. \A k \in 1 .. Len(applied) : InOrder(archive, applied, n, k)
      BY <3>1, <3>2, AppliedToInOrder
    <3>4. ~Damaged
      BY <2>2 DEF Damaged
    <3> QED BY <3>3, <3>4 DEF AppliedInOrder, InOrder, PriorIn
  <2>3. CASE pc \notin {"finish", "end"} /\ ~(n >= 1)
    <3>1. archive \in Archives /\ n = 0 /\ pc = "call"
      BY <2>3, Always DEF Inv, Types
    <3>2. AppliedTo(archive, applied, n + 1, 0)
      BY <3>1 DEF Inv, AtCall
    <3>3. Len(applied) = 0
      BY <3>1, <3>2, NothingBefore
    <3>4. ~Damaged
      BY <3>1 DEF Damaged
    <3> QED BY <3>3, <3>4 DEF AppliedInOrder
  <2> QED BY <2>1, <2>2, <2>3
<1> QED BY <1>1, Invariance, PTL

(* A file that is all there and without fault is unpacked to its last      *)
(* byte.                                                                   *)
THEOREM WholeFilesUnpacked == Spec => []WholeFileIsUnpacked
<1>1. Inv => WholeFileIsUnpacked
  <2> SUFFICES ASSUME Inv, pc \in {"call", "end"}, n > 0, Whole
               PROVE  /\ Len(applied) = Cardinality(Ids(archive, n))
                      /\ applied # <<>> =>
                           applied[Len(applied)] = PieceOf(archive, applied[Len(applied)].id)
    BY DEF WholeFileIsUnpacked
  <2>1. AppliedTo(archive, applied, n, Total(archive[n]))
    BY DEF Inv, AtCall, AtEnd, File
  <2>2. archive \in Archives /\ n \in 1 .. Len(archive) /\ applied \in Seq(Pieces)
    BY Always DEF Inv
  <2>3. /\ Len(applied) = Cardinality(Ids(archive, n))
        /\ \A k \in 1 .. Len(applied) : applied[k] = PieceOf(archive, applied[k].id)
    BY <2>1, <2>2, AppliedWhole
  <2>4. applied # <<>> => Len(applied) \in 1 .. Len(applied)
    BY <2>2
  <2> QED BY <2>3, <2>4
<1> QED BY <1>1, Invariance, PTL
=============================================================================
