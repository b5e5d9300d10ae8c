---------------------------- MODULE VolumeNames ----------------------------
(***************************************************************************)
(* The names of the volumes of a set: how MergeArchive gets from one to    *)
(* the next with NextVolumeName, and what Archive::nth_part, first_part    *)
(* and all_parts of the wrapper make of such a name.                       *)
(*                                                                         *)
(* A name is a stem and one of four endings:                               *)
(*    part  .part07.rar       letter  .r07 .s07       num  .007            *)
(*    rar   .rar                                                           *)
(* with a number that is written with a certain width, and possibly an     *)
(* ending of the same kind before it (name.12.1), which matters because    *)
(* the wrapper looks at two endings.  The letters of endings are counted:  *)
(* r is 18.                                                                *)
(***************************************************************************)
EXTENDS Integers, FiniteSetsExt

CONSTANT
  Sets          \* pairs: the name of the first volume, and how many there are

Plain == [number |-> 0, width |-> 0]
NoName == [style |-> "none", letter |-> 0, number |-> 0, width |-> 0, before |-> Plain]

Part(n, w) == [style |-> "part", letter |-> 0, number |-> n, width |-> w, before |-> Plain]
Num(n, w) == [Part(n, w) EXCEPT !.style = "num"]
Rar == [NoName EXCEPT !.style = "rar"]
Lettered(c, n) ==
  [style |-> "letter", letter |-> c, number |-> n, width |-> 2, before |-> Plain]

LetterA == 1
LetterR == 18

(* The first of several volumes is .rar or has the number 1, written with  *)
(* one digit or with leading zeros; a name may have digits before that.    *)
FirstNames ==
  {Rar} \cup {Part(1, w) : w \in 1 .. 9}
    \cup [style : {"num"}, letter : {0}, number : {1}, width : 1 .. 9,
          before : [number : Nat, width : 0 .. 9]]

ASSUME SetsAssumption == Sets \subseteq FirstNames \X (1 .. 10 ^ 9 - 1)

(* The letters suffice: .rar is followed by 900 names up to .z99, and .999 *)
(* by 2600.  Behind .z99 the code goes on with the character after z.      *)
LettersSuffice ==
  \A s \in Sets :
    /\ s[1].style = "rar" => s[2] <= 901
    /\ s[1].style = "num" /\ s[1].width = 3 => s[2] <= 3599

(* The digits it takes to write n.                                         *)
Digits(n) == Min({w \in 1 .. 9 : n < 10 ^ w})

(* Mutant: a number never gets a digit more.                               *)
Renumber_SameWidth(m, n) == [m EXCEPT !.number = n]

(* The same ending with another number, padded to the width it had.        *)
Renumber(m, n) ==
  [m EXCEPT !.number = n, !.width = Max({m.width, Digits(n)})]

-----------------------------------------------------------------------------
(* NextVolumeName                                                          *)

(* New numbering: the rightmost number counts on, and gets a digit more    *)
(* when it has to.  A name without a number becomes something else that    *)
(* is not in the set.                                                      *)
NextNew(m) ==
  CASE m.style \in {"part", "num", "letter"} -> Renumber(m, m.number + 1)
    [] OTHER -> NoName

(* Mutant: .rar is followed by .r01.                                       *)
NextOld_FromOne(m) ==
  CASE m.style = "rar" -> Lettered(LetterR, 1)
    [] m.style = "letter" -> [m EXCEPT !.number = (@ + 1) % 100]
    [] m.style = "num" -> Renumber(m, m.number + 1)
    [] OTHER -> NoName

(* Old numbering: .rar, .r00 to .r99, .s00 and so on; .999 goes to .a00.   *)
(* .part7.rar becomes .part7.r00, which is in no set.                      *)
NextOld(m) ==
  CASE m.style = "rar" \/ (m.style = "num" /\ m.width = 1) -> Lettered(LetterR, 0)
    [] m.style = "letter" /\ m.number + 1 = 10 ^ m.width ->
         [m EXCEPT !.letter = @ + 1, !.number = 0]
    [] m.style = "letter" /\ m.number + 1 # 10 ^ m.width -> [m EXCEPT !.number = @ + 1]
    [] m.style = "num" /\ m.width = 2 ->
         [m EXCEPT !.number = 100 * (@ \div 10), !.width = 3]
    [] m.style = "num" /\ m.width > 2 /\ m.number + 1 = 10 ^ m.width ->
         [m EXCEPT !.style = "letter", !.letter = LetterA, !.number = 0, !.width = @ - 1]
    [] m.style = "num" /\ m.width > 2 /\ m.number + 1 # 10 ^ m.width ->
         [m EXCEPT !.number = @ + 1]
    [] OTHER -> NoName

NextVolumeName(m, old) == IF old THEN NextOld(m) ELSE NextNew(m)

-----------------------------------------------------------------------------
(* The names the wrapper derives, without looking at the disk.             *)

(* get_rar_extension and the regular expression of multipart_extension:    *)
(* .rar alone, and letters other than r, are no parts of a set.            *)
IsMultipart(m) ==
  m.style \in {"part", "num"} \/ (m.style = "letter" /\ m.letter = LetterR)

(* str::replace replaces every occurrence of .number in the two endings,   *)
(* so that of name.12.1 too, where 12 begins with 1.                       *)
Repeats(m) ==
  /\ m.style = "num" /\ m.before.width >= m.width
  /\ m.before.number \div 10 ^ (m.before.width - m.width) = m.number

Replaced(m, r) ==
  LET rest == m.before.width - m.width
  IN  [number |-> r.number * 10 ^ rest + (m.before.number % 10 ^ rest),
       width |-> r.width + rest]

(* Mutant: the number is not padded.                                       *)
NthPart_Unpadded(m, n) ==
  IF IsMultipart(m) THEN [m EXCEPT !.number = n, !.width = Digits(n)] ELSE NoName

(* Archive::nth_part; NoName stands for None.                              *)
NthPart(m, n) ==
  LET r == Renumber(m, n)
  IN  IF ~IsMultipart(m) THEN NoName
      ELSE IF Repeats(m) THEN [r EXCEPT !.before = Replaced(m, r)]
      ELSE r

(* Archive::first_part.                                                    *)
FirstPart(m) == IF IsMultipart(m) THEN NthPart(m, 1) ELSE m

(* Mutant: a question mark for every digit of the number, as if nothing    *)
(* were padded.                                                            *)
GlobMatches_Unpadded(m, other) ==
  IF IsMultipart(m)
    THEN [other EXCEPT !.number = 0, !.before = Plain]
           = [m EXCEPT !.number = 0, !.width = Digits(m.number), !.before = Plain]
    ELSE other = m

(* Archive::all_parts: the glob made of m, with a question mark for every  *)
(* digit, matches other.                                                   *)
GlobMatches(m, other) ==
  IF IsMultipart(m)
    THEN [other EXCEPT !.number = 0, !.before = Plain]
           = [m EXCEPT !.number = 0, !.before = Plain]
    ELSE other = m

-----------------------------------------------------------------------------
VARIABLES
  first,        \* the name of the first volume
  size,         \* how many volumes there are
  oldNames,     \* the set is named by the old scheme
  oldNumbering, \* !Arc.NewNumbering, from the main header
  name          \* Arc.FileName: the volume that is open

vars == <<first, size, oldNames, oldNumbering, name>>

(* The name of volume i, as RAR or the user has named it.                  *)
Volume(i) ==
  LET full == 10 ^ first.width
  IN  CASE i = 1 -> first
        [] i > 1 /\ ~oldNames -> Renumber(first, i)
        [] i > 1 /\ oldNames /\ first.style = "rar" ->
             Lettered(LetterR + (i - 2) \div 100, (i - 2) % 100)
        [] i > 1 /\ oldNames /\ first.style = "num" /\ i < full -> Renumber(first, i)
        [] i > 1 /\ oldNames /\ first.style = "num" /\ i >= full ->
             [Lettered(LetterA + (i - full) \div 100, (i - full) % 100)
                EXCEPT !.before = first.before]

InSet(m) == \E i \in 1 .. size : m = Volume(i)

(* .rar can only be followed by .r00, .part1.rar only by .part2.rar.  Users*)
(* rename volumes of the new numbering to names of the old scheme.         *)
Init ==
  /\ \E s \in Sets : first = s[1] /\ size = s[2]
  /\ oldNames \in BOOLEAN /\ oldNumbering \in BOOLEAN
  /\ first.style = "rar" => oldNames
  /\ first.style = "part" \/ (first.style = "num" /\ first.width # 3) => ~oldNames
  /\ oldNumbering => oldNames
  /\ name = first

(* Mutant: only the name of the numbering is tried.                        *)
MergeArchive_OneName ==
  /\ InSet(NextVolumeName(name, oldNumbering))
  /\ name' = NextVolumeName(name, oldNumbering)
  /\ UNCHANGED <<first, size, oldNames, oldNumbering>>

(* The next volume is opened under the name of its own numbering, or else  *)
(* under that of the old one.                                              *)
MergeArchive ==
  /\ \/ /\ InSet(NextVolumeName(name, oldNumbering))
        /\ name' = NextVolumeName(name, oldNumbering)
     \/ /\ ~InSet(NextVolumeName(name, oldNumbering))
        /\ InSet(NextVolumeName(name, TRUE))
        /\ name' = NextVolumeName(name, TRUE)
  /\ UNCHANGED <<first, size, oldNames, oldNumbering>>

Spec == Init /\ [][MergeArchive]_vars /\ WF_vars(MergeArchive)

-----------------------------------------------------------------------------
(* A number fits the digits it is written with.                            *)
TypeOK ==
  /\ <<first, size>> \in Sets /\ oldNames \in BOOLEAN /\ oldNumbering \in BOOLEAN
  /\ name.style \in {"part", "letter", "num", "rar"}
  /\ name.style \in {"part", "num"} => name.letter = 0
  /\ name.style = "letter" => name.letter \in 1 .. 26
  /\ name.number \in 0 .. 10 ^ name.width - 1

(* The walk skips no volume: it passes them in the order of the set, also  *)
(* where a digit or a letter is carried, and also when the names are not   *)
(* those of the numbering.                                                 *)
NoVolumeSkipped ==
  [][\E i \in 1 .. size - 1 : name = Volume(i) /\ name' = Volume(i + 1)]_name

(* The walk reaches the last volume.                                       *)
AllVolumesRead == <>(name = Volume(size))

(* For names that are numbered from 1 and repeat no ending, nth_part is the*)
(* inverse of the numbering: from the first name it gives every name of the*)
(* set, and first_part leads back, as long as the width is the same.       *)
NthPartAgrees ==
  ~oldNames /\ ~Repeats(first) /\ ~Repeats(name) =>
    /\ NthPart(first, name.number) = name
    /\ name.width = first.width => FirstPart(name) = first

(* all_parts: "a glob string covering all parts of the multipart           *)
(* collection", from whichever part it is made, as long as all numbers have*)
(* as many digits and none of the names ends in letters.                   *)
GlobCoversAll ==
  ~oldNames /\ Digits(size) <= first.width =>
    \A i \in 1 .. size : GlobMatches(name, Volume(i))
=============================================================================
