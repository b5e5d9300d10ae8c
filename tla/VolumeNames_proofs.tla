-------------------------- MODULE VolumeNames_proofs --------------------------
(***************************************************************************)
(* That MergeArchive goes through a set of volumes in order, for every     *)
(* first name and every number of volumes, and what nth_part, first_part   *)
(* and all_parts of the wrapper are good for.                              *)
(*                                                                         *)
(* The invariant is that the open volume is one of the set.  The work is   *)
(* in the lemmas about names: what volume i is called (VolumeIsNew,        *)
(* VolumeIsLettered, VolumeIsNum), that no two are called the same         *)
(* (OneVolume), and what the two schemes make of each name (NextNewName,   *)
(* NextOldName).                                                           *)
(***************************************************************************)
EXTENDS VolumeNames, TLAPS

(* A name by its parts.                                                    *)
Ending(style, letter, number, width, before) ==
  [style |-> style, letter |-> letter, number |-> number, width |-> width,
   before |-> before]

(* Its parts are what it was made of, and the same name has the same parts.*)
LEMMA Parts ==
  ASSUME NEW s, NEW c, NEW n, NEW w, NEW b
  PROVE  /\ Ending(s, c, n, w, b).style = s /\ Ending(s, c, n, w, b).letter = c
         /\ Ending(s, c, n, w, b).number = n /\ Ending(s, c, n, w, b).width = w
         /\ Ending(s, c, n, w, b).before = b
  BY DEF Ending

-----------------------------------------------------------------------------
(* Powers of ten and numbers of digits.                                    *)

(* A power of ten, under a name that no prover computes with.              *)
Ten(w) == 10 ^ w

(* The powers of ten there are names for.                                  *)
LEMMA Tens ==
  /\ Ten(0) = 1 /\ Ten(1) = 10 /\ Ten(2) = 100 /\ Ten(3) = 1000 /\ Ten(4) = 10000
  /\ Ten(5) = 100000 /\ Ten(6) = 1000000 /\ Ten(7) = 10000000
  /\ Ten(8) = 100000000 /\ Ten(9) = 1000000000
<1>1. /\ 10 ^ 0 = 1 /\ 10 ^ 1 = 10 /\ 10 ^ 2 = 100 /\ 10 ^ 3 = 1000 /\ 10 ^ 4 = 10000
      /\ 10 ^ 5 = 100000 /\ 10 ^ 6 = 1000000 /\ 10 ^ 7 = 10000000
      /\ 10 ^ 8 = 100000000 /\ 10 ^ 9 = 1000000000
  OBVIOUS
<1> QED BY <1>1 DEF Ten

(* They grow.                                                              *)
LEMMA TensGrow ==
  /\ \A w \in 0 .. 9 : Ten(w) \in Nat /\ Ten(w) > 0
  /\ \A v, w \in 0 .. 9 : v < w => Ten(v) < Ten(w)
  BY Tens

(* The numbers of volumes.                                                 *)
Numbers == 1 .. 10 ^ 9 - 1

(* They are numbers.                                                       *)
LEMMA NumberType ==
  /\ \A n \in Numbers : n \in Nat /\ n > 0 /\ n < Ten(9)
  /\ \A n \in Nat : n > 0 /\ n < Ten(9) => n \in Numbers
<1>1. Ten(9) \in Nat
  BY TensGrow
<1>2. Numbers = 1 .. Ten(9) - 1
  BY DEF Numbers, Ten
<1> QED BY <1>1, <1>2

(* Digits gives the least width a number fits.                             *)
LEMMA DigitsFit ==
  ASSUME NEW n \in Numbers
  PROVE  /\ Digits(n) \in 1 .. 9 /\ n < Ten(Digits(n))
         /\ \A w \in 1 .. 9 : n < Ten(w) => Digits(n) <= w
<1> DEFINE W == {w \in 1 .. 9 : n < Ten(w)}
<1>1. n \in Nat /\ n < Ten(9)
  BY NumberType
<1>2. 9 \in W
  BY <1>1
<1>3. \E w \in W : \A v \in W : w <= v
  <2> DEFINE least(w) == w \in W /\ \A v \in 1 .. 9 : v < w => v \notin W
  <2> HIDE DEF W
  <2>1. W \subseteq 1 .. 9
    BY DEF W
  <2>2. \/ least(1) \/ least(2) \/ least(3) \/ least(4) \/ least(5)
        \/ least(6) \/ least(7) \/ least(8) \/ least(9)
    BY <1>2, <2>1
  <2>3. PICK w \in 1 .. 9 : least(w)
    BY <2>2
  <2>4. \A v \in W : w <= v
    BY <2>1, <2>3
  <2> QED BY <2>3, <2>4
<1>4. Digits(n) = CHOOSE w \in W : \A v \in W : w <= v
  BY DEF Digits, Min, Ten
<1> QED BY <1>3, <1>4

(* A larger number has no fewer digits; 1 has one.                         *)
LEMMA DigitsGrow ==
  /\ \A m, n \in Numbers : m <= n => Digits(m) <= Digits(n)
  /\ Digits(1) = 1
<1>1. ASSUME NEW m \in Numbers, NEW n \in Numbers, m <= n PROVE Digits(m) <= Digits(n)
  <2>1. Digits(n) \in 1 .. 9 /\ n < Ten(Digits(n))
    BY DigitsFit
  <2>a. Ten(Digits(n)) \in Nat
    <3>1. Digits(n) \in 0 .. 9
      BY <2>1
    <3> QED BY <3>1, TensGrow
  <2>2. m < Ten(Digits(n))
    <3>1. m \in Nat /\ n \in Nat
      BY NumberType
    <3> QED BY <1>1, <2>1, <2>a, <3>1
  <2> QED BY <2>1, <2>2, DigitsFit
<1>2. 1 \in Numbers /\ 1 < Ten(1)
  BY Tens DEF Numbers
<1>3. Digits(1) \in 1 .. 9 /\ Digits(1) <= 1
  BY <1>2, DigitsFit
<1> QED BY <1>1, <1>3

(* The larger of two widths.                                               *)
LEMMA MaxOfTwo ==
  ASSUME NEW a \in Nat, NEW b \in Nat
  PROVE  Max({a, b}) = IF a >= b THEN a ELSE b
<1> DEFINE S == {a, b}
           m == IF a >= b THEN a ELSE b
<1>1. m \in S /\ \A y \in S : m >= y
  OBVIOUS
<1>2. \A x \in S : (\A y \in S : x >= y) => x = m
  OBVIOUS
<1>3. Max(S) \in S /\ \A y \in S : Max(S) >= y
  <2> HIDE DEF S, m
  <2> QED BY <1>1 DEF Max
<1> QED BY <1>2, <1>3

(* The width of number n in a set whose first number has width w.          *)
Wide(w, n) == Max({w, Digits(n)})

(* It is enough, and at least w; it does not change when a smaller number  *)
(* was renumbered before; it is w when the number fits.                    *)
LEMMA WideFits ==
  ASSUME NEW w \in 1 .. 9, NEW n \in Numbers
  PROVE  /\ Wide(w, n) \in 1 .. 9 /\ Wide(w, n) >= w
         /\ n < Ten(Wide(w, n))
         /\ \A m \in Numbers : m <= n => Wide(Wide(w, m), n) = Wide(w, n)
         /\ Digits(n) <= w => Wide(w, n) = w
<1>1. Digits(n) \in 1 .. 9 /\ n < Ten(Digits(n)) /\ n \in Nat
  BY DigitsFit, NumberType
<1>2. Wide(w, n) = IF w >= Digits(n) THEN w ELSE Digits(n)
  <2>1. w \in Nat /\ Digits(n) \in Nat
    BY <1>1
  <2> QED BY <2>1, MaxOfTwo DEF Wide
<1>3. n < Ten(Wide(w, n))
  <2>1. CASE w > Digits(n)
    <3>1. Ten(Digits(n)) < Ten(w) /\ Ten(w) \in Nat /\ Ten(Digits(n)) \in Nat
      <4>1. Digits(n) \in 0 .. 9 /\ w \in 0 .. 9
        BY <1>1
      <4> QED BY <2>1, <4>1, TensGrow
    <3>2. Wide(w, n) = w
      BY <1>1, <1>2, <2>1
    <3>3. n < Ten(w)
      BY <1>1, <3>1
    <3> QED BY <3>2, <3>3
  <2>2. CASE ~(w > Digits(n))
    <3>1. Wide(w, n) = Digits(n)
      BY <1>1, <1>2, <2>2
    <3> QED BY <1>1, <3>1
  <2> QED BY <2>1, <2>2
<1>4. ASSUME NEW m \in Numbers, m <= n PROVE Wide(Wide(w, m), n) = Wide(w, n)
  <2>1. Digits(m) \in 1 .. 9 /\ Digits(m) <= Digits(n)
    BY <1>4, DigitsFit, DigitsGrow
  <2>2. Wide(w, m) = IF w >= Digits(m) THEN w ELSE Digits(m)
    BY <2>1, MaxOfTwo DEF Wide
  <2>3. Wide(w, m) \in Nat
    BY <2>1, <2>2
  <2>4. Wide(Wide(w, m), n) = IF Wide(w, m) >= Digits(n) THEN Wide(w, m) ELSE Digits(n)
    BY <1>1, <2>3, MaxOfTwo DEF Wide
  <2> QED BY <1>1, <1>2, <2>1, <2>2, <2>4
<1> QED BY <1>1, <1>2, <1>3, <1>4

(* A carry of two digits.                                                  *)
LEMMA Carry ==
  /\ \A k \in Nat :
       /\ k \div 100 \in Nat /\ k % 100 \in 0 .. 99
       /\ IF (k % 100) + 1 = 100
            THEN (k + 1) \div 100 = k \div 100 + 1 /\ (k + 1) % 100 = 0
            ELSE (k + 1) \div 100 = k \div 100 /\ (k + 1) % 100 = (k % 100) + 1
  /\ \A k, l \in Nat : k \div 100 = l \div 100 /\ k % 100 = l % 100 => k = l
  OBVIOUS

-----------------------------------------------------------------------------
(* What the volumes are called.                                            *)

(* What Init says, and no step changes.                                    *)
Setup ==
  /\ <<first, size>> \in Sets /\ oldNames \in BOOLEAN /\ oldNumbering \in BOOLEAN
  /\ first.style = "rar" => oldNames
  /\ first.style = "part" \/ (first.style = "num" /\ first.width # 3) => ~oldNames
  /\ oldNumbering => oldNames

(* What a first name is like.                                              *)
LEMMA FirstIs ==
  ASSUME Setup
  PROVE  /\ size \in Numbers
         /\ first.style \in {"rar", "part", "num"}
         /\ first.style = "rar" => first = Ending("rar", 0, 0, 0, Plain)
         /\ first.style # "rar" =>
              /\ first = Ending(first.style, 0, 1, first.width, first.before)
              /\ first.width \in 1 .. 9
         /\ first.style = "part" => first.before = Plain
         /\ oldNames => first.style = "rar" \/ (first.style = "num" /\ first.width = 3)
<1>1. first \in FirstNames /\ size \in Numbers
  BY SetsAssumption DEF Setup, Numbers, SetsAssumption
<1>2. CASE first = Rar
  BY <1>1, <1>2 DEF Rar, NoName, Plain, Ending
<1>3. ASSUME NEW w \in 1 .. 9, first = Part(1, w)
      PROVE  /\ first.style = "part" /\ first.width = w /\ first.before = Plain
             /\ first = Ending("part", 0, 1, w, Plain)
  BY <1>3 DEF Part, Ending
<1>4. CASE first \in [style : {"num"}, letter : {0}, number : {1}, width : 1 .. 9,
                      before : [number : Nat, width : 0 .. 9]]
  BY <1>1, <1>4 DEF Ending, Setup
<1>5. CASE \E w \in 1 .. 9 : first = Part(1, w)
  BY <1>1, <1>3, <1>5 DEF Setup
<1> QED BY <1>1, <1>2, <1>4, <1>5 DEF FirstNames

(* The same ending with another number.                                    *)
LEMMA Renumbered ==
  ASSUME NEW s, NEW c, NEW n, NEW w, NEW b, NEW k
  PROVE  Renumber(Ending(s, c, n, w, b), k) = Ending(s, c, k, Wide(w, k), b)
<1> DEFINE m == Ending(s, c, n, w, b)
<1>1. m.width = w
  BY DEF Ending
<1>2. Renumber(m, k) = [m EXCEPT !.number = k, !.width = Wide(w, k)]
  <2> HIDE DEF m
  <2> QED BY <1>1 DEF Renumber, Wide
<1>3. m = [style |-> s, letter |-> c, number |-> n, width |-> w, before |-> b]
  BY DEF Ending
<1>4. Renumber(m, k) = Ending(s, c, k, Wide(w, k), b)
  <2> HIDE DEF m
  <2> QED BY <1>2, <1>3 DEF Ending
<1> QED BY <1>4

(* New names: the number of the volume, as wide as it must be.             *)
LEMMA VolumeIsNew ==
  ASSUME Setup, ~oldNames, NEW i \in Numbers
  PROVE  /\ first.style \in {"part", "num"} /\ first.width \in 1 .. 9
         /\ Volume(i) = Ending(first.style, 0, i, Wide(first.width, i), first.before)
<1>1. /\ first = Ending(first.style, 0, 1, first.width, first.before)
      /\ first.width \in 1 .. 9 /\ first.style \in {"part", "num"}
  BY FirstIs DEF Setup
<1>2. Renumber(first, i) = Ending(first.style, 0, i, Wide(first.width, i), first.before)
  BY <1>1, Renumbered
<1>3. CASE i = 1
  <2>1. Wide(first.width, 1) = first.width
    <3>1. 1 \in Numbers /\ Digits(1) <= first.width
      BY <1>1, <1>3, DigitsGrow
    <3> QED BY <1>1, <3>1, WideFits
  <2> QED BY <1>1, <1>3, <2>1 DEF Volume, Ten
<1>4. CASE i # 1
  <2>1. i > 1
    BY <1>4, NumberType
  <2> QED BY <1>1, <1>2, <1>4, <2>1 DEF Volume, Ten
<1> QED BY <1>1, <1>3, <1>4

(* Old names that begin with .001: three digits, then a letter and two.    *)
LEMMA VolumeIsNum ==
  ASSUME Setup, oldNames, first.style = "num", NEW i \in Nat, i > 0
  PROVE  /\ i < 1000 => Volume(i) = Ending("num", 0, i, 3, first.before)
         /\ i >= 1000 => Volume(i) = Ending("letter", LetterA + (i - 1000) \div 100,
                                            (i - 1000) % 100, 2, first.before)
<1>1. /\ first = Ending("num", 0, 1, 3, first.before) /\ first.width = 3
  BY FirstIs
<1>2. Ten(3) = 1000
  BY Tens
<1>3. CASE i < 1000
  <2>1. i \in Numbers /\ Digits(i) <= 3
    <3>1. Ten(3) < Ten(9) /\ Ten(3) \in Nat /\ Ten(9) \in Nat
      BY TensGrow
    <3>2. i < Ten(3) /\ i < Ten(9)
      BY <1>2, <1>3, <3>1
    <3>3. i \in Numbers
      BY <3>2, NumberType
    <3> QED BY <3>2, <3>3, DigitsFit
  <2>2. Wide(3, i) = 3
    BY <2>1, WideFits
  <2>3. Renumber(first, i) = Ending("num", 0, i, 3, first.before)
    BY <1>1, <2>2, Renumbered
  <2> QED BY <1>1, <1>2, <1>3, <2>3 DEF Volume, Ten
<1>4. CASE i >= 1000
  <2>1. Volume(i) = [Lettered(LetterA + (i - 1000) \div 100, (i - 1000) % 100)
                       EXCEPT !.before = first.before]
    BY <1>1, <1>2, <1>4 DEF Volume, Ten
  <2> QED BY <1>4, <2>1 DEF Lettered, Ending
<1> QED BY <1>3, <1>4

(* Old names that begin with .rar: .r00 is the second.                     *)
LEMMA VolumeIsLettered ==
  ASSUME Setup, oldNames, first.style = "rar", NEW i \in Nat, i > 0
  PROVE  /\ i = 1 => Volume(i) = Ending("rar", 0, 0, 0, Plain)
         /\ i > 1 => Volume(i) = Ending("letter", LetterR + (i - 2) \div 100,
                                        (i - 2) % 100, 2, Plain)
<1>1. first = Ending("rar", 0, 0, 0, Plain)
  BY FirstIs
<1>2. CASE i = 1
  BY <1>1, <1>2 DEF Volume, Ten
<1>3. CASE i > 1
  BY <1>3 DEF Volume, Lettered, Ending
<1> QED BY <1>2, <1>3

(* No two volumes have the same name.                                      *)
LEMMA OneVolume ==
  ASSUME Setup, NEW i \in Nat, NEW j \in Nat, i > 0, j > 0,
         oldNames \/ (i \in Numbers /\ j \in Numbers), Volume(i) = Volume(j)
  PROVE  i = j
<1>1. CASE ~oldNames
  BY <1>1, VolumeIsNew DEF Ending
<1>2. CASE oldNames /\ first.style = "num"
  <2>1. CASE i >= 1000 /\ j >= 1000
    <3>1. i - 1000 \in Nat /\ j - 1000 \in Nat
      BY <2>1
    <3>2. /\ LetterA + (i - 1000) \div 100 = LetterA + (j - 1000) \div 100
          /\ (i - 1000) % 100 = (j - 1000) % 100
      BY <1>2, <2>1, VolumeIsNum DEF Ending
    <3>3. (i - 1000) \div 100 = (j - 1000) \div 100
      BY <3>1, <3>2, Carry DEF LetterA
    <3>4. i - 1000 = j - 1000
      BY <3>1, <3>2, <3>3, Carry
    <3> QED BY <3>4
  <2>2. CASE i < 1000 \/ j < 1000
    BY <1>2, <2>2, VolumeIsNum DEF Ending
  <2> QED BY <2>1, <2>2
<1>3. CASE oldNames /\ first.style = "rar"
  <2>1. CASE i > 1 /\ j > 1
    <3>1. i - 2 \in Nat /\ j - 2 \in Nat
      BY <2>1
    <3>2. /\ LetterR + (i - 2) \div 100 = LetterR + (j - 2) \div 100
          /\ (i - 2) % 100 = (j - 2) % 100
      BY <1>3, <2>1, VolumeIsLettered DEF Ending
    <3>3. (i - 2) \div 100 = (j - 2) \div 100
      BY <3>1, <3>2, Carry DEF LetterR
    <3>4. i - 2 = j - 2
      BY <3>1, <3>2, <3>3, Carry
    <3> QED BY <3>4
  <2>2. CASE i = 1 \/ j = 1
    BY <1>3, <2>2, VolumeIsLettered DEF Ending
  <2> QED BY <2>1, <2>2
<1> QED BY <1>1, <1>2, <1>3, FirstIs

-----------------------------------------------------------------------------
(* What follows a name.                                                    *)

(* The new scheme counts on.                                               *)
LEMMA NextNewName ==
  ASSUME NEW s, NEW c, NEW n, NEW w, NEW b
  PROVE  NextNew(Ending(s, c, n, w, b)) =
           IF s \in {"part", "num", "letter"}
             THEN Ending(s, c, n + 1, Wide(w, n + 1), b) ELSE NoName
<1>1. Ending(s, c, n, w, b).style = s /\ Ending(s, c, n, w, b).number = n
  BY DEF Ending
<1> QED BY <1>1, Renumbered DEF NextNew

(* The old scheme, for each ending there is.                               *)
LEMMA NextOldName ==
  ASSUME NEW s, NEW c, NEW n \in Nat, NEW w \in Nat, NEW b
  PROVE  /\ s = "rar" \/ (s = "num" /\ w = 1) =>
              NextOld(Ending(s, c, n, w, b)) = Ending("letter", LetterR, 0, 2, Plain)
         /\ s = "part" => NextOld(Ending(s, c, n, w, b)) = NoName
         /\ s = "num" /\ w = 2 =>
              NextOld(Ending(s, c, n, w, b)) = Ending("num", c, 100 * (n \div 10), 3, b)
<1> DEFINE m == Ending(s, c, n, w, b)
<1>1. m = [style |-> s, letter |-> c, number |-> n, width |-> w, before |-> b]
  BY DEF Ending
<1>2. m.style = s /\ m.number = n /\ m.width = w
  BY <1>1
<1> HIDE DEF m
<1>3. CASE s = "rar" \/ (s = "num" /\ w = 1)
  BY <1>2, <1>3 DEF NextOld, Lettered, Ending, m
<1>4. CASE s = "part"
  BY <1>2, <1>4 DEF NextOld, m
<1>5. CASE s = "num" /\ w = 2
  <2>1. NextOld(m) = [m EXCEPT !.number = 100 * (n \div 10), !.width = 3]
    BY <1>2, <1>5 DEF NextOld
  <2>2. NextOld(m) = Ending("num", c, 100 * (n \div 10), 3, b)
    BY <1>1, <1>5, <2>1 DEF Ending
  <2> QED BY <1>5, <2>2 DEF m
<1> QED BY <1>3, <1>4, <1>5 DEF m

(* Three digits and more of them carry into a letter.                      *)
LEMMA NextOldNum ==
  ASSUME NEW c, NEW n \in Nat, NEW w \in Nat, NEW b, w > 2
  PROVE  NextOld(Ending("num", c, n, w, b)) =
           IF n + 1 = Ten(w) THEN Ending("letter", LetterA, 0, w - 1, b)
                             ELSE Ending("num", c, n + 1, w, b)
<1> DEFINE m == Ending("num", c, n, w, b)
<1>1. m = [style |-> "num", letter |-> c, number |-> n, width |-> w, before |-> b]
  BY DEF Ending
<1>2. m.style = "num" /\ m.letter = c /\ m.number = n /\ m.width = w
  BY <1>1
<1> HIDE DEF m
<1>3. ASSUME n + 1 = Ten(w) PROVE NextOld(m) = Ending("letter", LetterA, 0, w - 1, b)
  <2>1. NextOld(m) = [m EXCEPT !.style = "letter", !.letter = LetterA, !.number = 0,
                               !.width = w - 1]
    BY <1>2, <1>3 DEF NextOld, Ten
  <2> QED BY <1>1, <2>1 DEF Ending
<1>4. ASSUME n + 1 # Ten(w) PROVE NextOld(m) = Ending("num", c, n + 1, w, b)
  <2>1. NextOld(m) = [m EXCEPT !.number = n + 1]
    BY <1>2, <1>4 DEF NextOld, Ten
  <2> QED BY <1>1, <2>1 DEF Ending
<1>5. NextOld(m) = IF n + 1 = Ten(w) THEN Ending("letter", LetterA, 0, w - 1, b)
                                    ELSE Ending("num", c, n + 1, w, b)
  BY <1>3, <1>4
<1> QED BY <1>5 DEF m

(* Behind a letter they carry into the next letter.                        *)
LEMMA NextOldLetter ==
  ASSUME NEW c \in Nat, NEW n \in Nat, NEW w \in Nat, NEW b
  PROVE  NextOld(Ending("letter", c, n, w, b)) =
           IF n + 1 = Ten(w) THEN Ending("letter", c + 1, 0, w, b)
                             ELSE Ending("letter", c, n + 1, w, b)
<1> DEFINE m == Ending("letter", c, n, w, b)
<1>1. m = [style |-> "letter", letter |-> c, number |-> n, width |-> w, before |-> b]
  BY DEF Ending
<1>2. m.style = "letter" /\ m.letter = c /\ m.number = n /\ m.width = w
  BY <1>1
<1> HIDE DEF m
<1>3. ASSUME n + 1 = Ten(w) PROVE NextOld(m) = Ending("letter", c + 1, 0, w, b)
  <2>1. NextOld(m) = [m EXCEPT !.letter = c + 1, !.number = 0]
    BY <1>2, <1>3 DEF NextOld, Ten
  <2> QED BY <1>1, <2>1 DEF Ending
<1>4. ASSUME n + 1 # Ten(w) PROVE NextOld(m) = Ending("letter", c, n + 1, w, b)
  <2>1. NextOld(m) = [m EXCEPT !.number = n + 1]
    BY <1>2, <1>4 DEF NextOld, Ten
  <2> QED BY <1>1, <2>1 DEF Ending
<1>5. NextOld(m) = IF n + 1 = Ten(w) THEN Ending("letter", c + 1, 0, w, b)
                                    ELSE Ending("letter", c, n + 1, w, b)
  BY <1>3, <1>4
<1> QED BY <1>5 DEF m

(* So the letters and numbers of volumes are counted on.                   *)
LEMMA LettersGoOn ==
  ASSUME NEW c \in Nat, NEW k \in Nat, NEW b
  PROVE  NextOld(Ending("letter", c + k \div 100, k % 100, 2, b))
           = Ending("letter", c + (k + 1) \div 100, (k + 1) % 100, 2, b)
<1> DEFINE q == k \div 100
           r == k % 100
<1>1. /\ q \in Nat /\ r \in Nat
      /\ IF r + 1 = 100
           THEN (k + 1) \div 100 = q + 1 /\ (k + 1) % 100 = 0
           ELSE (k + 1) \div 100 = q /\ (k + 1) % 100 = r + 1
  BY Carry
<1> HIDE DEF q, r
<1> DEFINE d == c + q
<1>2. d \in Nat /\ d + 1 = c + (q + 1)
  BY <1>1
<1> HIDE DEF d
<1>3. NextOld(Ending("letter", d, r, 2, b)) =
        IF r + 1 = Ten(2) THEN Ending("letter", d + 1, 0, 2, b)
                          ELSE Ending("letter", d, r + 1, 2, b)
  <2>1. d \in Nat /\ r \in Nat
    BY <1>1, <1>2
  <2> QED BY <2>1, NextOldLetter
<1>4. NextOld(Ending("letter", c + q, r, 2, b))
        = Ending("letter", c + (k + 1) \div 100, (k + 1) % 100, 2, b)
  BY <1>1, <1>2, <1>3, Tens DEF d
<1> QED BY <1>4 DEF q, r

(* In a set named by the old scheme, the old scheme gives the next volume. *)
LEMMA OldGoesOn ==
  ASSUME Setup, oldNames, NEW i \in Nat, i > 0
  PROVE  NextOld(Volume(i)) = Volume(i + 1)
<1>1. Ten(3) = 1000 /\ Ten(2) = 100
  BY Tens
<1>2. CASE first.style = "num"
  <2>1. CASE i < 1000
    <3>1. Volume(i) = Ending("num", 0, i, 3, first.before)
      BY <1>2, <2>1, VolumeIsNum
    <3>2. NextOld(Volume(i)) = IF i + 1 = 1000 THEN Ending("letter", LetterA, 0, 2, first.before)
                               ELSE Ending("num", 0, i + 1, 3, first.before)
      <4>1. NextOld(Volume(i)) = IF i + 1 = Ten(3)
                                   THEN Ending("letter", LetterA, 0, 3 - 1, first.before)
                                   ELSE Ending("num", 0, i + 1, 3, first.before)
        BY <3>1, NextOldNum
      <4> QED BY <1>1, <4>1
    <3>3. i + 1 < 1000 => Volume(i + 1) = Ending("num", 0, i + 1, 3, first.before)
      BY <1>2, VolumeIsNum
    <3>4. i + 1 = 1000 => Volume(i + 1) = Ending("letter", LetterA, 0, 2, first.before)
      <4>1. Volume(1000) = Ending("letter", LetterA + (1000 - 1000) \div 100,
                                  (1000 - 1000) % 100, 2, first.before)
        BY <1>2, VolumeIsNum
      <4>2. LetterA + (1000 - 1000) \div 100 = LetterA /\ (1000 - 1000) % 100 = 0
        BY DEF LetterA
      <4> QED BY <4>1, <4>2
    <3> QED BY <2>1, <3>2, <3>3, <3>4
  <2>2. CASE i >= 1000
    <3> DEFINE k == i - 1000
    <3>1. k \in Nat /\ (i + 1) - 1000 = k + 1 /\ i + 1 >= 1000 /\ i + 1 \in Nat
      BY <2>2
    <3>2. Volume(i) = Ending("letter", LetterA + k \div 100, k % 100, 2, first.before)
      BY <1>2, <2>2, VolumeIsNum
    <3>3. Volume(i + 1)
            = Ending("letter", LetterA + (k + 1) \div 100, (k + 1) % 100, 2, first.before)
      BY <1>2, <3>1, VolumeIsNum
    <3>4. LetterA \in Nat
      BY DEF LetterA
    <3> HIDE DEF k
    <3> QED BY <3>1, <3>2, <3>3, <3>4, LettersGoOn
  <2> QED BY <2>1, <2>2
<1>3. CASE first.style = "rar"
  <2>1. CASE i = 1
    <3>1. Volume(i) = Ending("rar", 0, 0, 0, Plain)
      BY <1>3, <2>1, VolumeIsLettered
    <3>2. Volume(2) = Ending("letter", LetterR + (2 - 2) \div 100, (2 - 2) % 100, 2, Plain)
      BY <1>3, VolumeIsLettered
    <3>3. LetterR + (2 - 2) \div 100 = LetterR /\ (2 - 2) % 100 = 0
      BY DEF LetterR
    <3> QED BY <2>1, <3>1, <3>2, <3>3, NextOldName
  <2>2. CASE i > 1
    <3> DEFINE k == i - 2
    <3>1. k \in Nat /\ (i + 1) - 2 = k + 1 /\ i + 1 > 1 /\ i + 1 \in Nat
      BY <2>2
    <3>2. Volume(i) = Ending("letter", LetterR + k \div 100, k % 100, 2, Plain)
      BY <1>3, <2>2, VolumeIsLettered
    <3>3. Volume(i + 1)
            = Ending("letter", LetterR + (k + 1) \div 100, (k + 1) % 100, 2, Plain)
      BY <1>3, <3>1, VolumeIsLettered
    <3>4. LetterR \in Nat
      BY DEF LetterR
    <3> HIDE DEF k
    <3> QED BY <3>1, <3>2, <3>3, <3>4, LettersGoOn
  <2> QED BY <2>1, <2>2
<1> QED BY <1>2, <1>3, FirstIs

(* The volumes there are have numbers.                                     *)
LEMMA InRange ==
  ASSUME Setup
  PROVE  /\ size \in Nat /\ size > 0
         /\ \A j \in 1 .. size : j \in Numbers /\ j \in Nat /\ j > 0
<1>1. size \in Nat /\ size > 0 /\ size < Ten(9) /\ Ten(9) \in Nat
  BY FirstIs, NumberType, TensGrow
<1>2. \A j \in 1 .. size : j \in Nat /\ j > 0 /\ j < Ten(9)
  BY <1>1
<1> QED BY <1>1, <1>2, NumberType

(* The new scheme counts on behind a letter only as far as two digits go.  *)
LEMMA NewLettersGoOn ==
  ASSUME NEW c \in Nat, NEW k \in Nat, NEW l \in Nat, NEW b, NEW m, NEW next,
         m = Ending("letter", c + k \div 100, k % 100, 2, b),
         next = Ending("letter", c + l \div 100, l % 100, 2, b),
         NextNew(m) = next
  PROVE  l = k + 1
<1> DEFINE q == k \div 100
           r == k % 100
           t == l \div 100
           u == l % 100
<1>1. /\ q \in Nat /\ r \in 0 .. 99 /\ t \in Nat /\ u \in 0 .. 99
      /\ k = 100 * q + r /\ l = 100 * t + u
  OBVIOUS
<1>2. m = Ending("letter", c + q, r, 2, b) /\ next = Ending("letter", c + t, u, 2, b)
  OBVIOUS
<1> HIDE DEF q, r, t, u
<1>3. next = Ending("letter", c + q, r + 1, Wide(2, r + 1), b)
  <2>1. NextNew(Ending("letter", c + q, r, 2, b))
          = Ending("letter", c + q, r + 1, Wide(2, r + 1), b)
    BY NextNewName
  <2> QED BY <1>2, <2>1
<1>4. next.letter = c + q /\ next.number = r + 1
  BY <1>3, Parts
<1>5. next.letter = c + t /\ next.number = u
  BY <1>2, Parts
<1> QED BY <1>1, <1>4, <1>5

(* Where the new scheme finds a volume under an old name, it is the next.  *)
LEMMA NewGoesOn ==
  ASSUME Setup, oldNames, NEW i \in 1 .. size, InSet(NextNew(Volume(i)))
  PROVE  NextNew(Volume(i)) = Volume(i + 1)
<1>1. PICK j \in 1 .. size : NextNew(Volume(i)) = Volume(j)
  BY DEF InSet
<1>2. i \in Nat /\ i > 0 /\ j \in Nat /\ j > 0
  BY InRange
<1>4. CASE first.style = "num"
  <2>1. CASE i < 1000
    <3>1. Volume(i) = Ending("num", 0, i, 3, first.before)
      BY <1>2, <1>4, <2>1, VolumeIsNum
    <3>2. NextNew(Volume(i)) = Ending("num", 0, i + 1, Wide(3, i + 1), first.before)
      BY <3>1, NextNewName
    <3>3. CASE j < 1000
      <4>1. Volume(j) = Ending("num", 0, j, 3, first.before)
        BY <1>2, <1>4, <3>3, VolumeIsNum
      <4>2. j = i + 1
        <5>1. Volume(j).number = i + 1
          BY <1>1, <3>2, Parts
        <5>2. Volume(j).number = j
          BY <4>1, Parts
        <5> QED BY <5>1, <5>2
      <4> QED BY <1>1, <4>2
    <3>4. CASE j >= 1000
      <4>1. Volume(j).style = "letter"
        BY <1>2, <1>4, <3>4, VolumeIsNum DEF Ending
      <4> QED BY <1>1, <3>2, <4>1 DEF Ending
    <3> QED BY <1>2, <3>3, <3>4
  <2>2. CASE i >= 1000
    <3>1. Volume(i) = Ending("letter", LetterA + (i - 1000) \div 100, (i - 1000) % 100,
                             2, first.before)
      BY <1>2, <1>4, <2>2, VolumeIsNum
    <3>2. CASE j >= 1000
      <4>1. Volume(j) = Ending("letter", LetterA + (j - 1000) \div 100,
                               (j - 1000) % 100, 2, first.before)
        BY <1>2, <1>4, <3>2, VolumeIsNum
      <4>2. i - 1000 \in Nat /\ j - 1000 \in Nat /\ LetterA \in Nat
        BY <1>2, <2>2, <3>2 DEF LetterA
      <4>3. j - 1000 = (i - 1000) + 1
        <5> DEFINE k == i - 1000
                   l == j - 1000
        <5>1. /\ Volume(i) = Ending("letter", LetterA + k \div 100, k % 100, 2, first.before)
              /\ Volume(j) = Ending("letter", LetterA + l \div 100, l % 100, 2, first.before)
              /\ k \in Nat /\ l \in Nat
          BY <3>1, <4>1, <4>2
        <5> HIDE DEF k, l
        <5>2. l = k + 1
          BY <1>1, <4>2, <5>1, NewLettersGoOn
        <5> QED BY <5>2 DEF k, l
      <4>4. j = i + 1
        BY <1>2, <4>3
      <4> QED BY <1>1, <4>4
    <3>3. CASE j < 1000
      <4>1. Volume(j).style = "num"
        BY <1>2, <1>4, <3>3, VolumeIsNum DEF Ending
      <4>2. NextNew(Volume(i)).style = "letter"
        BY <3>1, NextNewName, Parts
      <4> QED BY <1>1, <4>1, <4>2
    <3> QED BY <1>2, <3>2, <3>3
  <2> QED BY <1>2, <2>1, <2>2
<1>5. CASE first.style = "rar"
  <2>1. Volume(j).style \in {"rar", "letter"}
    BY <1>2, <1>5, VolumeIsLettered DEF Ending
  <2>2. i # 1
    <3>1. NextNew(Ending("rar", 0, 0, 0, Plain)).style = "none"
      BY NextNewName DEF NoName
    <3> QED BY <1>1, <1>2, <1>5, <2>1, <3>1, VolumeIsLettered
  <2>3. Volume(i) = Ending("letter", LetterR + (i - 2) \div 100, (i - 2) % 100, 2, Plain)
    BY <1>2, <1>5, <2>2, VolumeIsLettered
  <2>4. j # 1
    <3>1. NextNew(Volume(i)).style = "letter"
      BY <2>3, NextNewName, Parts
    <3>2. Volume(1).style = "rar"
      BY <1>5, VolumeIsLettered DEF Ending
    <3> QED BY <1>1, <3>1, <3>2
  <2>5. Volume(j) = Ending("letter", LetterR + (j - 2) \div 100, (j - 2) % 100, 2, Plain)
    BY <1>2, <1>5, <2>4, VolumeIsLettered
  <2>6. i - 2 \in Nat /\ j - 2 \in Nat /\ LetterR \in Nat
    BY <1>2, <2>2, <2>4 DEF LetterR
  <2>7. j - 2 = (i - 2) + 1
    <3> DEFINE k == i - 2
               l == j - 2
    <3>1. /\ Volume(i) = Ending("letter", LetterR + k \div 100, k % 100, 2, Plain)
          /\ Volume(j) = Ending("letter", LetterR + l \div 100, l % 100, 2, Plain)
          /\ k \in Nat /\ l \in Nat
      BY <2>3, <2>5, <2>6
    <3> HIDE DEF k, l
    <3>2. l = k + 1
      BY <1>1, <2>6, <3>1, NewLettersGoOn
    <3> QED BY <3>2 DEF k, l
  <2>8. j = i + 1
    BY <1>2, <2>7
  <2> QED BY <1>1, <2>8
<1> QED BY <1>4, <1>5, FirstIs

(* New names: the new scheme gives the next volume, and behind the last    *)
(* one neither scheme gives a volume of the set.                           *)
LEMMA NewNames ==
  ASSUME Setup, ~oldNames, NEW i \in 1 .. size
  PROVE  /\ i < size => NextNew(Volume(i)) = Volume(i + 1)
         /\ i = size => ~InSet(NextNew(Volume(i))) /\ ~InSet(NextOld(Volume(i)))
<1> DEFINE s == first.style
           b == first.before
           w == Wide(first.width, i)
<1>1. i \in Numbers /\ i \in Nat /\ i > 0 /\ size \in Nat
  BY InRange
<1>2. /\ s \in {"part", "num"} /\ first.width \in 1 .. 9
      /\ Volume(i) = Ending(s, 0, i, w, b)
  BY <1>1, VolumeIsNew
<1>3. w \in 1 .. 9 /\ i < Ten(w)
  BY <1>1, <1>2, WideFits
<1>4. \A j \in 1 .. size : Volume(j).style = s /\ Volume(j).number = j /\ j \in Nat
  BY InRange, VolumeIsNew DEF Ending
<1>5. NextNew(Volume(i)) = Ending(s, 0, i + 1, Wide(w, i + 1), b)
  <2> HIDE DEF s, b, w
  <2> QED BY <1>2, NextNewName
<1>6. ASSUME i < size PROVE NextNew(Volume(i)) = Volume(i + 1)
  <2>1. i + 1 \in 1 .. size /\ i <= i + 1
    BY <1>1, <1>6
  <2>2. i + 1 \in Numbers
    BY <2>1, InRange
  <2>3. Wide(w, i + 1) = Wide(first.width, i + 1)
    BY <1>1, <1>2, <2>1, <2>2, WideFits
  <2>4. Volume(i + 1) = Ending(s, 0, i + 1, Wide(first.width, i + 1), b)
    BY <2>2, VolumeIsNew
  <2> QED BY <1>5, <2>3, <2>4
<1>7. ASSUME i = size PROVE ~InSet(NextNew(Volume(i)))
  <2>1. NextNew(Volume(i)).number = i + 1
    BY <1>5 DEF Ending
  <2> QED BY <1>1, <1>4, <1>7, <2>1 DEF InSet
<1>8. ASSUME i = size, InSet(NextOld(Volume(i))) PROVE FALSE
  <2>1. PICK j \in 1 .. size : NextOld(Volume(i)) = Volume(j)
    BY <1>8 DEF InSet
  <2>2. NextOld(Volume(i)).style = s /\ NextOld(Volume(i)).number = j
    BY <1>4, <2>1
  <2>3. CASE s = "part"
    <3>1. NextOld(Volume(i)).style = "none"
      BY <1>1, <1>2, <1>3, <2>3, NextOldName DEF NoName
    <3> QED BY <1>2, <2>2, <3>1
  <2>4. CASE s = "num" /\ w = 1
    <3>1. NextOld(Volume(i)).style = "letter"
      <4>1. Volume(i) = Ending("num", 0, i, w, b) /\ w \in Nat
        BY <1>2, <1>3, <2>4
      <4> HIDE DEF w, b, s
      <4>2. NextOld(Volume(i)) = Ending("letter", LetterR, 0, 2, Plain)
        BY <1>1, <2>4, <4>1, NextOldName
      <4> QED BY <4>2, Parts
    <3> QED BY <2>2, <2>4, <3>1
  <2>5. CASE s = "num" /\ w = 2
    <3>1. NextOld(Volume(i)).number = 100 * (i \div 10)
      <4>1. Volume(i) = Ending("num", 0, i, w, b) /\ w \in Nat
        BY <1>2, <1>3, <2>5
      <4> HIDE DEF w, b, s
      <4>2. NextOld(Volume(i)) = Ending("num", 0, 100 * (i \div 10), 3, b)
        BY <1>1, <2>5, <4>1, NextOldName
      <4> QED BY <4>2, Parts
    <3>2. j = 100 * (i \div 10) /\ i < 100 /\ j \in 1 .. i
      BY <1>3, <1>8, <2>2, <2>5, <3>1, Tens
    <3> QED BY <1>1, <3>2
  <2>6. CASE s = "num" /\ w > 2
    <3>1. \/ NextOld(Volume(i)).style = "letter"
          \/ NextOld(Volume(i)).number = i + 1
      <4>1. Volume(i) = Ending("num", 0, i, w, b) /\ w \in Nat
        BY <1>2, <1>3, <2>6
      <4> HIDE DEF w, b, s
      <4>2. NextOld(Volume(i)) = IF i + 1 = Ten(w) THEN Ending("letter", LetterA, 0, w - 1, b)
                                                  ELSE Ending("num", 0, i + 1, w, b)
        BY <1>1, <2>6, <4>1, NextOldNum
      <4> QED BY <4>2, Parts
    <3> QED BY <1>1, <1>8, <2>2, <2>6, <3>1
  <2> QED BY <1>2, <1>3, <2>3, <2>4, <2>5, <2>6
<1> QED BY <1>6, <1>7, <1>8

(* MergeArchive tries two names.  The first of them that is a volume of    *)
(* the set is the next volume, and there is one unless this is the last.   *)
Tries(old) == NextVolumeName(name, old)
LEMMA Onward ==
  ASSUME Setup, NEW i \in 1 .. size, name = Volume(i)
  PROVE  /\ InSet(Tries(oldNumbering)) =>
              i < size /\ Tries(oldNumbering) = Volume(i + 1)
         /\ InSet(Tries(TRUE)) /\ ~InSet(Tries(oldNumbering)) =>
              i < size /\ Tries(TRUE) = Volume(i + 1)
         /\ i < size => InSet(Tries(oldNumbering)) \/ InSet(Tries(TRUE))
<1>1. i \in Nat /\ i > 0 /\ size \in Nat /\ i <= size
  BY InRange
<1>2. Tries(TRUE) = NextOld(Volume(i))
  BY DEF Tries, NextVolumeName
<1>3. i < size => InSet(Volume(i + 1))
  BY <1>1 DEF InSet
<1>4. CASE ~oldNames
  <2>1. Tries(oldNumbering) = NextNew(Volume(i))
    BY <1>4 DEF Tries, NextVolumeName, Setup
  <2>2. /\ i < size => NextNew(Volume(i)) = Volume(i + 1)
        /\ i = size => ~InSet(NextNew(Volume(i))) /\ ~InSet(NextOld(Volume(i)))
    BY <1>4, NewNames
  <2>3. CASE i < size
    BY <1>2, <1>3, <2>1, <2>2, <2>3
  <2>4. CASE i = size
    <3>1. ~InSet(Tries(oldNumbering)) /\ ~InSet(Tries(TRUE))
      BY <1>2, <2>1, <2>2, <2>4
    <3>2. ~(i < size)
      BY <1>1, <2>4
    <3> QED BY <3>1, <3>2
  <2>5. i < size \/ i = size
    BY <1>1
  <2> QED BY <2>3, <2>4, <2>5
<1>5. CASE oldNames
  <2>1. NextOld(Volume(i)) = Volume(i + 1)
    BY <1>1, <1>5, OldGoesOn
  <2>2. InSet(NextNew(Volume(i))) => NextNew(Volume(i)) = Volume(i + 1)
    BY <1>5, NewGoesOn
  <2>3. InSet(Volume(i + 1)) => i < size
    <3>1. ASSUME NEW j \in 1 .. size, Volume(i + 1) = Volume(j) PROVE i < size
      <4>1. i + 1 \in Nat /\ i + 1 > 0 /\ j \in Nat /\ j > 0
        BY <1>1, InRange
      <4>2. i + 1 = j
        BY <1>5, <3>1, <4>1, OneVolume
      <4> QED BY <1>1, <4>2
    <3> QED BY <3>1 DEF InSet
  <2>4. Tries(oldNumbering) \in {NextOld(Volume(i)), NextNew(Volume(i))}
    BY DEF Tries, NextVolumeName
  <2> QED BY <1>2, <1>3, <2>1, <2>2, <2>3, <2>4
<1> QED BY <1>4, <1>5

-----------------------------------------------------------------------------
(* The walk through the volumes.                                           *)

(* The open volume is one of the set.                                      *)
Inv == Setup /\ \E i \in 1 .. size : name = Volume(i)

(* The first one is.                                                       *)
LEMMA InvInit == Init => Inv
<1> SUFFICES ASSUME Init PROVE Inv
  OBVIOUS
<1>1. Setup
  <2>1. <<first, size>> \in Sets
    <3>1. PICK s \in Sets : first = s[1] /\ size = s[2]
      BY DEF Init
    <3>2. s \in FirstNames \X Numbers
      BY SetsAssumption DEF SetsAssumption, Numbers
    <3> HIDE DEF Numbers
    <3>3. s = <<s[1], s[2]>>
      BY <3>2
    <3> QED BY <3>1, <3>3
  <2> QED BY <2>1 DEF Init, Setup
<1>2. 1 \in 1 .. size
  BY <1>1, InRange
<1>3. Volume(1) = first
  BY DEF Volume, Ten
<1>4. name = first
  BY DEF Init
<1> QED BY <1>1, <1>2, <1>3, <1>4 DEF Inv

(* Volumes keep their names.                                               *)
LEMMA SameNames ==
  ASSUME UNCHANGED <<first, oldNames>>
  PROVE  \A i : Volume(i)' = Volume(i)
  BY DEF Volume

(* MergeArchive goes from a volume to the next one.                        *)
LEMMA InvMerge ==
  ASSUME Inv, MergeArchive
  PROVE  /\ \E i \in 1 .. size - 1 : name = Volume(i) /\ name' = Volume(i + 1)
         /\ Inv'
<1>1. PICK i \in 1 .. size : name = Volume(i)
  BY DEF Inv
<1>2. Setup
  BY DEF Inv
<1>3. /\ i < size /\ name' = Volume(i + 1)
      /\ UNCHANGED <<first, size, oldNames, oldNumbering>>
  BY <1>1, <1>2, Onward DEF MergeArchive, Tries
<1>4. i \in 1 .. size - 1 /\ i + 1 \in 1 .. size
  BY <1>2, <1>3, InRange
<1>5. Setup'
  BY <1>2, <1>3 DEF Setup
<1>6. name' = Volume(i + 1)' /\ i + 1 \in 1 .. size'
  BY <1>3, <1>4, SameNames
<1>7. Inv'
  BY <1>5, <1>6 DEF Inv
<1> QED BY <1>1, <1>3, <1>4, <1>7

(* Nothing else happens.                                                   *)
LEMMA InvStep == Inv /\ [MergeArchive]_vars => Inv'
<1> SUFFICES ASSUME Inv, [MergeArchive]_vars PROVE Inv'
  OBVIOUS
<1>1. CASE MergeArchive
  BY <1>1, InvMerge
<1>2. CASE UNCHANGED vars
  <2>1. Setup' /\ size' = size /\ name' = name /\ UNCHANGED <<first, oldNames>>
    BY <1>2 DEF vars, Setup, Inv
  <2> QED BY <2>1, SameNames DEF Inv
<1> QED BY <1>1, <1>2

(* The archive that is open is a volume of the set, whatever numbering its *)
(* header announces: DllVolChange and MergeArchive never leave the set.    *)
THEOREM Invariance == Spec => []Inv
<1>1. Init => Inv
  BY InvInit
<1>2. Inv /\ [MergeArchive]_vars => Inv'
  BY InvStep
<1> QED BY <1>1, <1>2, PTL DEF Spec

(* MergeArchive passes the volumes in the order of the set, for every first*)
(* name and every number of volumes: it skips none where a digit or a      *)
(* letter is carried, and none when the set was renamed.                   *)
THEOREM NoneSkipped == Spec => NoVolumeSkipped
<1> DEFINE A == \E i \in 1 .. size - 1 : name = Volume(i) /\ name' = Volume(i + 1)
<1>1. Inv /\ [MergeArchive]_vars => [A]_name
  <2> SUFFICES ASSUME Inv, [MergeArchive]_vars PROVE [A]_name
    OBVIOUS
  <2>1. CASE MergeArchive
    BY <2>1, InvMerge
  <2>2. CASE UNCHANGED vars
    BY <2>2 DEF vars
  <2> QED BY <2>1, <2>2
<1> QED BY <1>1, Invariance, PTL DEF Spec, NoVolumeSkipped

(* As long as the last volume is not open, one of the two names MergeArchive*)
(* tries is there: it never asks for a volume that is not missing.         *)
NeverStuck ==
  name # Volume(size) =>
    InSet(NextVolumeName(name, oldNumbering)) \/ InSet(NextVolumeName(name, TRUE))
THEOREM Found == Spec => []NeverStuck
<1>1. Inv => NeverStuck
  <2> SUFFICES ASSUME Inv, name # Volume(size) PROVE InSet(Tries(oldNumbering)) \/ InSet(Tries(TRUE))
    BY DEF NeverStuck, Tries
  <2>1. PICK i \in 1 .. size : name = Volume(i)
    BY DEF Inv
  <2>2. Setup
    BY DEF Inv
  <2>3. i < size
    BY <2>1, <2>2, InRange
  <2> QED BY <2>1, <2>2, <2>3, Onward
<1> QED BY <1>1, Invariance, PTL

-----------------------------------------------------------------------------
(* What the open volume is called.                                         *)

(* A name is well formed as long as there are letters: its number fits the *)
(* digits it is written with and its letter is one.  The hypothesis is     *)
(* about the sets; behind .z99 the letter would not be one any more.       *)
THEOREM Typed == ASSUME LettersSuffice PROVE Spec => []TypeOK
<1>1. ASSUME Inv PROVE TypeOK
  <2>1. Setup
    BY <1>1 DEF Inv
  <2>2. PICK i \in 1 .. size : name = Volume(i)
    BY <1>1 DEF Inv
  <2>3. i \in Numbers /\ i \in Nat /\ i > 0 /\ size \in Nat /\ i <= size
    BY <2>1, InRange
  <2>4. ASSUME NEW s \in {"part", "num"}, NEW n \in Nat, NEW w \in 1 .. 9, NEW b,
               n < Ten(w), name = Ending(s, 0, n, w, b)
        PROVE  TypeOK
    <3>1. name.style = s /\ name.letter = 0 /\ name.number = n /\ name.width = w
      BY <2>4, Parts
    <3>2. Ten(w) \in Nat
      <4>1. w \in 0 .. 9
        OBVIOUS
      <4> QED BY <4>1, TensGrow
    <3>3. n \in 0 .. Ten(w) - 1
      BY <2>4, <3>2
    <3>4. name.number \in 0 .. 10 ^ name.width - 1
      BY <3>1, <3>3 DEF Ten
    <3> QED BY <2>1, <3>1, <3>4 DEF TypeOK, Setup
  <2>5. ASSUME NEW c \in 1 .. 26, NEW n \in 0 .. 99, NEW b,
               name = Ending("letter", c, n, 2, b)
        PROVE  TypeOK
    <3>1. name.style = "letter" /\ name.letter = c /\ name.number = n /\ name.width = 2
      BY <2>5, Parts
    <3>2. n \in 0 .. Ten(2) - 1
      BY Tens
    <3>3. name.number \in 0 .. 10 ^ name.width - 1
      BY <3>1, <3>2 DEF Ten
    <3> QED BY <2>1, <3>1, <3>3 DEF TypeOK, Setup
  <2>6. CASE ~oldNames
    <3>1. /\ first.style \in {"part", "num"} /\ first.width \in 1 .. 9
          /\ name = Ending(first.style, 0, i, Wide(first.width, i), first.before)
      BY <2>1, <2>2, <2>3, <2>6, VolumeIsNew
    <3>2. Wide(first.width, i) \in 1 .. 9 /\ i < Ten(Wide(first.width, i))
      BY <2>3, <3>1, WideFits
    <3> QED BY <2>3, <2>4, <3>1, <3>2
  <2>7. CASE oldNames /\ first.style = "num"
    <3>1. first.width = 3
      BY <2>1, <2>7, FirstIs
    <3>2. size <= 3599
      BY <2>1, <2>7, <3>1 DEF Setup, LettersSuffice
    <3>3. CASE i < 1000
      <4>1. name = Ending("num", 0, i, 3, first.before)
        BY <2>1, <2>2, <2>3, <2>7, <3>3, VolumeIsNum
      <4>2. i < Ten(3) /\ 3 \in 1 .. 9 /\ "num" \in {"part", "num"}
        BY <3>3, Tens
      <4> QED BY <2>3, <2>4, <4>1, <4>2
    <3>4. CASE i >= 1000
      <4>1. name = Ending("letter", LetterA + (i - 1000) \div 100, (i - 1000) % 100, 2,
                          first.before)
        BY <2>1, <2>2, <2>3, <2>7, <3>4, VolumeIsNum
      <4>2. LetterA + (i - 1000) \div 100 \in 1 .. 26 /\ (i - 1000) % 100 \in 0 .. 99
        BY <2>3, <3>2, <3>4 DEF LetterA
      <4> QED BY <2>5, <4>1, <4>2
    <3> QED BY <2>3, <3>3, <3>4
  <2>8. CASE oldNames /\ first.style = "rar"
    <3>1. size <= 901
      BY <2>1, <2>8 DEF Setup, LettersSuffice
    <3>2. CASE i = 1
      <4>1. name = Ending("rar", 0, 0, 0, Plain)
        BY <2>1, <2>2, <2>3, <2>8, <3>2, VolumeIsLettered
      <4>2. name.style = "rar" /\ name.number = 0 /\ name.width = 0
        BY <4>1, Parts
      <4>3. 0 \in 0 .. Ten(0) - 1
        BY Tens
      <4>4. name.number \in 0 .. 10 ^ name.width - 1
        BY <4>2, <4>3 DEF Ten
      <4> QED BY <2>1, <4>2, <4>4 DEF TypeOK, Setup
    <3>3. CASE i > 1
      <4>1. name = Ending("letter", LetterR + (i - 2) \div 100, (i - 2) % 100, 2, Plain)
        BY <2>1, <2>2, <2>3, <2>8, <3>3, VolumeIsLettered
      <4>2. LetterR + (i - 2) \div 100 \in 1 .. 26 /\ (i - 2) % 100 \in 0 .. 99
        BY <2>3, <3>1, <3>3 DEF LetterR
      <4> QED BY <2>5, <4>1, <4>2
    <3> QED BY <2>3, <3>2, <3>3
  <2> QED BY <2>1, <2>6, <2>7, <2>8, FirstIs
<1>2. Inv => TypeOK
  BY <1>1
<1> QED BY <1>2, Invariance, PTL

(* Archive::nth_part and first_part are inverse to the numbering: from the *)
(* first name, nth_part gives the name of the open volume, and first_part  *)
(* of that leads back where the width is the same.                         *)
THEOREM NthPartIsTheVolume == Spec => []NthPartAgrees
<1>1. Inv => NthPartAgrees
  <2> SUFFICES ASSUME Inv, ~oldNames, ~Repeats(first), ~Repeats(name)
               PROVE  /\ NthPart(first, name.number) = name
                      /\ name.width = first.width => FirstPart(name) = first
    BY DEF NthPartAgrees
  <2> DEFINE s == first.style
             b == first.before
             v == first.width
  <2>1. Setup
    BY DEF Inv
  <2>2. PICK i \in 1 .. size : name = Volume(i)
    BY DEF Inv
  <2>3. i \in Numbers
    BY <2>1, InRange
  <2>4. /\ s \in {"part", "num"} /\ v \in 1 .. 9
        /\ name = Ending(s, 0, i, Wide(v, i), b) /\ first = Ending(s, 0, 1, v, b)
    BY <2>1, <2>2, <2>3, VolumeIsNew, FirstIs
  <2>5. IsMultipart(first) /\ IsMultipart(name)
    <3>1. name.style = s
      BY <2>4, Parts
    <3> QED BY <2>4, <3>1 DEF IsMultipart
  <2> HIDE DEF s, b, v
  <2>6. name.number = i /\ name.width = Wide(v, i) /\ first.width = v
    BY <2>4, Parts
  <2>7. NthPart(first, i) = Renumber(first, i) /\ NthPart(name, 1) = Renumber(name, 1)
    BY <2>5 DEF NthPart
  <2>8. NthPart(first, i) = name
    BY <2>4, <2>7, Renumbered
  <2>9. ASSUME name.width = first.width PROVE FirstPart(name) = first
    <3>1. Wide(v, 1) = v
      <4>1. 1 \in Numbers /\ Digits(1) <= v
        <5>1. 1 < Ten(9)
          BY Tens
        <5> QED BY <2>4, <5>1, DigitsGrow, NumberType
      <4> QED BY <2>4, <4>1, WideFits
    <3>2. Renumber(name, 1) = Ending(s, 0, 1, Wide(v, 1), b)
      BY <2>4, <2>6, <2>9, Renumbered
    <3> QED BY <2>4, <2>5, <2>7, <3>1, <3>2 DEF FirstPart
  <2> QED BY <2>6, <2>8, <2>9
<1> QED BY <1>1, Invariance, PTL

(* The glob made of a name matches it with any number of the same width.   *)
LEMMA GlobIgnoresNumber ==
  ASSUME NEW s \in {"part", "num"}, NEW n, NEW k, NEW w, NEW b, NEW m, NEW other,
         m = Ending(s, 0, n, w, b), other = Ending(s, 0, k, w, b)
  PROVE  GlobMatches(m, other)
<1>1. IsMultipart(m)
  BY Parts DEF IsMultipart
<1>2. ASSUME NEW x, NEW l, NEW p, x = Ending(s, 0, l, w, b)
      PROVE  [x EXCEPT !.number = 0, !.before = p] = Ending(s, 0, 0, w, p)
  <2> DEFINE r == [x EXCEPT !.number = 0]
  <2>1. r = [style |-> s, letter |-> 0, number |-> 0, width |-> w, before |-> b]
    BY <1>2 DEF Ending
  <2> HIDE DEF r
  <2>2. [r EXCEPT !.before = p] = Ending(s, 0, 0, w, p)
    BY <2>1 DEF Ending
  <2>3. [x EXCEPT !.number = 0, !.before = p] = [r EXCEPT !.before = p]
    BY Zenon DEF r
  <2> QED BY <2>2, <2>3, Zenon
<1>3. [m EXCEPT !.number = 0, !.before = Plain] = Ending(s, 0, 0, w, Plain)
  BY <1>2, Zenon
<1>4. [other EXCEPT !.number = 0, !.before = Plain] = Ending(s, 0, 0, w, Plain)
  BY <1>2, Zenon
<1> QED BY <1>1, <1>3, <1>4, Zenon DEF GlobMatches

(* The glob that all_parts makes of the open volume matches every volume of*)
(* the set when the last number needs no more digits than the first has.   *)
THEOREM GlobMatchesAll == Spec => []GlobCoversAll
<1>1. Inv => GlobCoversAll
  <2> SUFFICES ASSUME Inv, ~oldNames, Digits(size) <= first.width, NEW j \in 1 .. size
               PROVE  GlobMatches(name, Volume(j))
    BY DEF GlobCoversAll
  <2>1. Setup
    BY DEF Inv
  <2>2. PICK i \in 1 .. size : name = Volume(i)
    BY DEF Inv
  <2>3. ASSUME NEW k \in 1 .. size
        PROVE  /\ first.style \in {"part", "num"}
               /\ Volume(k) = Ending(first.style, 0, k, first.width, first.before)
    <3>1. k \in Numbers /\ k <= size /\ size \in Numbers
      BY <2>1, InRange, FirstIs
    <3>2. /\ first.style \in {"part", "num"} /\ first.width \in 1 .. 9
          /\ Volume(k) = Ending(first.style, 0, k, Wide(first.width, k), first.before)
      BY <2>1, <3>1, VolumeIsNew
    <3>3. Digits(k) \in 1 .. 9 /\ Digits(size) \in 1 .. 9 /\ Digits(k) <= Digits(size)
      BY <3>1, DigitsFit, DigitsGrow
    <3>4. Digits(k) <= first.width
      BY <3>2, <3>3
    <3>5. Wide(first.width, k) = first.width
      BY <3>1, <3>2, <3>4, WideFits
    <3> QED BY <3>2, <3>5
  <2> QED BY <2>2, <2>3, GlobIgnoresNumber
<1> QED BY <1>1, Invariance, PTL
=============================================================================
