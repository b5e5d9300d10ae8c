-------------------------- MODULE OpenArchive_listing --------------------------
(***************************************************************************)
(* What the entries a handle returns have to do with the headers that are  *)
(* in the volumes: damage is not passed over in silence, nothing follows   *)
(* an error, and a listing shows what the set contains, in order, and all  *)
(* of it when it ends.  The last three are about sets as RAR lays them out *)
(* (EndIsEnd, SplitIsLast, VolumesLeadOn).                                 *)
(***************************************************************************)
EXTENDS OpenArchive_proofs, FiniteSetTheorems

(* The header a call works on is the one the position is behind.           *)
AtFile ==
  /\ at = "data" /\ cur <= Len(Blocks)
  /\ fileHead = Blocks[cur] /\ fileHead.type = "file"
AtEnd ==
  /\ at = "data"
  /\ \/ cur <= Len(Blocks) /\ Blocks[cur].type = "endarc" /\ header = Blocks[cur]
     \/ header = NoBlock /\ (cur <= Len(Blocks) => Blocks[cur].type \in {"file", "corrupt"})
LinkInv ==
  /\ pc \in {"found", "process"} \/ (pc = "idle" /\ cursor = "file") => AtFile
  /\ pc = "noheader" => AtEnd
  /\ pc = "services" => ~Listing
  /\ pc = "process" /\ call = "next" => ~Continuation

(* Only the first block of the opened volume can be ahead unread; all that *)
(* was read is sound, or the handle remembers that it was not.             *)
Read(i) ==
  i < cur \/ (i = cur /\ (at # "start" \/ pc \in {"unpack", "services"}))
SoundInv ==
  broken \/ \A i \in 1 .. Len(Blocks) : Read(i) => Blocks[i].sound

(* After an error no header can be reached that is listed or leads on.     *)
Stuck ==
  /\ at # "start"
  /\ \/ Astray
     \/ \A j \in 1 .. Len(Blocks) : j > cur => Blocks[j].type \notin {"file", "endarc"}
StuckInv ==
  /\ cursor = "dropped" => pc = "idle"
  /\ failed /\ cursor # "dropped" =>
       /\ Listing /\ cursor = "header" /\ pc \in {"idle", "search", "noheader"}
       /\ Stuck
       /\ pc = "noheader" => header = NoBlock

(* What a listing has returned: all it should show up to the position.     *)
Here == <<vol, cur>>
UpToHere == {p \in ToShow : Precedes(p, Here) \/ p = Here}
Counted == at = "next" \/ (at = "data" /\ cursor = "file")
Done == {p \in ToShow : Precedes(p, Here) \/ (p = Here /\ Counted)}
LinedUp(D) ==
  /\ Len(yielded) = Cardinality(D)
  /\ \A k \in 1 .. Len(yielded) : \E p \in D :
       Cardinality(UpTo(p)) = k /\ yielded[k] = Entry(HeaderAt(p))
WalkInv ==
  Listing => \E D \in SUBSET ToShow :
               /\ LinedUp(D)
               /\ (cursor = "dropped" /\ failed) \/ D = Done

(* What has been passed without an error or an end.                        *)
Clear ==
  /\ \A j \in 1 .. Len(Blocks) : j < cur \/ (j = cur /\ at = "next") =>
       Blocks[j].type \notin {"endarc", "corrupt"} /\ ~LeadsOn(Blocks[j])
  /\ pc \in {"idle", "search"} /\ cursor = "header" => at # "data"
  /\ pc = "noheader" /\ header = NoBlock => cur > Len(Blocks) \/ broken

(* What is left after the end: nothing to list, nowhere to go.             *)
Ended ==
  /\ vol = Len(archive) /\ at # "start"
  /\ \A j \in 1 .. Len(Blocks) : j >= cur => Blocks[j].type # "file"
  /\ \A j \in 1 .. Len(Blocks) : j > cur => Blocks[j].type # "endarc"
EndInv ==
  /\ damaged => failed
  /\ Listing /\ ~failed =>
       IF result.kind = "None" THEN Ended ELSE cursor # "dropped" => Clear

(* What the scan at the opening has found out about the first file.        *)
OpensReadable ==
  info = "First" =>
    \A i \in 1 .. Len(archive[opened]) :
      /\ archive[opened][i].type = "file"
      /\ \A j \in 1 .. i - 1 : archive[opened][j].type = "other"
      => ~archive[opened][i].before

(* Before the first entry no file was passed, but for the continuations    *)
(* that List mode leaves out.                                              *)
NoFilePassed ==
  /\ \A j \in 1 .. Len(Blocks) : j < cur \/ (j = cur /\ at = "next") =>
       Blocks[j].type \in {"other", "endarc"}
  /\ vol > opened =>
       \A j \in 1 .. Len(archive[vol - 1]) : archive[vol - 1][j].type # "file"
FirstInv ==
  /\ OpensReadable
  /\ pc \in {"unpack", "services"} \/ cursor = "file" => yielded # <<>>
  /\ yielded = <<>> /\ mode # "List" /\ ~failed => NoFilePassed
  /\ FirstIsReadable

-----------------------------------------------------------------------------
(* The position is on a block of the open volume or just after the last.   *)
LEMMA Position ==
  ASSUME TypeOK
  PROVE  /\ archive[vol] \in Seq(Block) /\ Len(archive[vol]) \in Nat
         /\ vol \in 1 .. Len(archive) /\ cur \in 1 .. Len(archive[vol]) + 1
         /\ Ahead \in cur .. cur + 1 /\ Ahead \in 1 .. Len(archive[vol]) + 1
<1>1. FixedOK /\ PlaceOK
  BY Parts
<1>2. vol \in 1 .. Len(archive)
  BY <1>1 DEF FixedOK, PlaceOK
<1>3. archive[vol] \in Seq(Block) /\ Len(archive[vol]) \in Nat
  BY <1>1, <1>2, Volumes
<1>4. cur \in 1 .. Len(archive[vol]) + 1
  BY <1>1 DEF PlaceOK, Blocks
<1>5. Ahead \in cur .. cur + 1 /\ Ahead \in 1 .. Len(archive[vol]) + 1
  BY <1>3, <1>4 DEF Ahead, Blocks
<1> QED BY <1>2, <1>3, <1>4, <1>5

(* The position and the header a call works on stay together.              *)
LEMMA LinkNext == TypeOK /\ Inv /\ LinkInv /\ [Next]_vars => LinkInv'
<1> SUFFICES ASSUME TypeOK, Inv, LinkInv, [Next]_vars PROVE LinkInv'
  OBVIOUS
<1>a. CursorInv
  BY DEF Inv
<1>b. /\ archive[vol] \in Seq(Block) /\ Len(archive[vol]) \in Nat
      /\ cur \in 1 .. Len(archive[vol]) + 1 /\ Ahead \in 1 .. Len(archive[vol]) + 1
  BY Position
<1> USE DEF fixed, place, wrapper, history
<1>0. ASSUME pc' \notin {"found", "process", "noheader"},
             pc' = "idle" => cursor' # "file",
             pc' = "services" => ~Listing'
      PROVE  LinkInv'
  BY <1>0 DEF LinkInv
<1>1. CASE Search
  <2>1. cursor = "header" /\ UNCHANGED <<archive, cursor>>
    BY <1>1, <1>a DEF Search, CursorInv, InHeader
  <2>2. ASSUME NEW bad \in BOOLEAN, ReadsNothing(bad), pc' = "noheader" PROVE LinkInv'
    BY <1>b, <2>1, <2>2 DEF ReadsNothing, LinkInv, AtEnd, Blocks, Astray
  <2>3. ASSUME NEW b, ReadsBlock(b), at' = IF b.type = "other" THEN "next" ELSE "data",
               pc' = CASE b.type = "file" -> "found"
                       [] b.type = "endarc" -> "noheader"
                       [] OTHER -> "search"
        PROVE  LinkInv'
    BY <1>b, <2>1, <2>3 DEF ReadsBlock, LinkInv, AtEnd, AtFile, Blocks
  <2> QED BY <1>1, <2>2, <2>3 DEF Search
<1>2. CASE SearchOn
  BY <1>0, <1>2 DEF SearchOn
<1>3. CASE SearchMisses \/ SearchEnds \/ PassContinuation
  BY <1>0, <1>3, <1>a
     DEF SearchMisses, SearchEnds, PassContinuation, Fail, EndOfIteration, CursorInv,
         InHeader
<1>4. CASE Found
  <2>1. /\ AtFile /\ cursor = "header" /\ ~Continuation
        /\ UNCHANGED <<archive, mode, place>>
    BY <1>4, <1>a DEF Found, LinkInv, CursorInv, InHeader
  <2>2. AtFile' /\ ~Continuation'
    BY <2>1 DEF AtFile, Blocks, Continuation
  <2>3. pc' \in {"process", "idle"}
    BY <1>4 DEF Found, HeaderFound, Fail
  <2> QED BY <2>2, <2>3 DEF LinkInv
<1>5. CASE SkipFile \/ ProcessReturns
  BY <1>0, <1>5, <1>a
     DEF SkipFile, ProcessReturns, Processed, Fail, CursorInv, InProcess
<1>6. CASE \/ Unpack \/ UnpackOn \/ PassService \/ BatchReturns
           \/ \E code \in {"Success", "BadData"} : UnpackEnds(code)
           \/ \E msg \in Messages : BatchTells(msg)
  BY <1>0, <1>6, <1>a
     DEF Unpack, UnpackOn, UnpackEnds, PassService, BatchTells, BatchReturns, Seeking,
         Listing, CursorInv, LinkInv
<1>7. ASSUME NEW c \in {"skip", "read", "test", "extract", "extract_to"}, Process(c)
      PROVE  LinkInv'
  <2>1. AtFile /\ pc' = "process" /\ call' # "next" /\ UNCHANGED <<archive, place>>
    BY <1>7 DEF Process, LinkInv
  <2>2. AtFile'
    BY <2>1 DEF AtFile, Blocks
  <2> QED BY <2>1, <2>2 DEF LinkInv
<1>8. CASE ReadHeader \/ NextItem \/ NextWhenDamaged
  BY <1>0, <1>8 DEF ReadHeader, NextItem, NextWhenDamaged, BeginRead
<1>9. CASE ForceHeal \/ UNCHANGED vars
  <2>1. UNCHANGED <<archive, mode, place, pc, call, cursor>>
    BY <1>9 DEF ForceHeal, vars
  <2> QED BY <2>1 DEF LinkInv, AtFile, AtEnd, Blocks, Listing, Continuation
<1>10. ASSUME NEW c, ExtractAll(c) PROVE LinkInv'
  BY <1>0, <1>10 DEF ExtractAll
<1> QED
  BY <1>1, <1>2, <1>3, <1>4, <1>5, <1>6, <1>7, <1>8, <1>9, <1>10
     DEF Next, Library, Caller

(* Where a merge leads: every block it passes, in a set with a split file, *)
(* is of no interest to a listing; all it has read is sound if not broken. *)
LEMMA Landed ==
  ASSUME TypeOK, MergeFinds, UNCHANGED archive
  PROVE  /\ vol' = vol + 1 /\ vol + 1 \in 1 .. Len(archive) /\ at' = "start"
         /\ Len(Blocks') \in Nat /\ cur' \in 1 .. Len(Blocks') + 1
         /\ broken' = \E j \in 1 .. cur' : j <= Len(Blocks') /\ ~Blocks'[j].sound
         /\ \A j \in 1 .. Len(Blocks') : j < cur' =>
              Blocks'[j].type \notin {"file", "endarc", "corrupt"}
<1> DEFINE next == archive[vol + 1]
           split == header.type = "file" /\ header.after
           i == Landing(next, split)
           stops == {k \in 1 .. Len(next) :
                       split => next[k].type \in {"file", "endarc", "corrupt"}}
           S == stops \cup {Len(next) + 1}
<1>1. /\ vol + 1 \in 1 .. Len(archive)
      /\ next \in Seq(Block) /\ Len(next) \in Nat
  <2>1. FixedOK /\ PlaceOK
    BY Parts
  <2>2. vol + 1 \in 1 .. Len(archive)
    BY <2>1 DEF MergeFinds, FixedOK, PlaceOK
  <2> QED BY <2>1, <2>2, Volumes
<1>2. /\ vol' = vol + 1 /\ cur' = i /\ at' = "start"
      /\ broken' = \E j \in 1 .. i : j <= Len(next) /\ ~next[j].sound
  BY DEF MergeFinds
<1>3. Blocks' = next
  BY <1>2 DEF Blocks
<1>4. i \in 1 .. Len(next) + 1
  BY <1>1, LandingInVolume
<1>5. \A j \in S : i <= j
  <2>1. S \subseteq 1 .. Len(next) + 1 /\ S # {} /\ S \in SUBSET Nat
    BY <1>1
  <2>2. \E k \in S : \A j \in S : k <= j
    <3> HIDE DEF S
    <3> QED BY <2>1, HasLeast
  <2>3. i = CHOOSE k \in S : \A j \in S : k <= j
    BY DEF Landing
  <2> HIDE DEF S, i
  <2> QED BY <2>2, <2>3
<1>6. \A j \in 1 .. Len(next) : j < i =>
        next[j].type \notin {"file", "endarc", "corrupt"}
  <2> SUFFICES ASSUME NEW j \in 1 .. Len(next), j < i,
                      next[j].type \in {"file", "endarc", "corrupt"}
               PROVE  FALSE
    OBVIOUS
  <2>1. j \in S
    OBVIOUS
  <2> HIDE DEF i, S
  <2> QED BY <1>1, <1>4, <1>5, <2>1
<1> HIDE DEF i, next
<1> QED BY <1>1, <1>2, <1>3, <1>4, <1>6

(* What was read was sound, or broken says that it was not.                *)
LEMMA SoundNext ==
  TypeOK /\ Inv /\ LinkInv /\ SoundInv /\ [Next]_vars => SoundInv'
<1> SUFFICES ASSUME TypeOK, Inv, LinkInv, SoundInv, [Next]_vars PROVE SoundInv'
  OBVIOUS
<1>a. CursorInv
  BY DEF Inv
<1>b. /\ archive[vol] \in Seq(Block) /\ Len(archive[vol]) \in Nat
      /\ cur \in 1 .. Len(archive[vol]) + 1
      /\ Ahead \in cur .. cur + 1 /\ Ahead \in 1 .. Len(archive[vol]) + 1
  BY Position
<1> USE DEF fixed, place, wrapper, history
<1>0. ASSUME UNCHANGED <<archive, vol, cur, broken>>,
             at = "start" /\ at' # "start" => pc \in {"unpack", "services"},
             pc' \in {"unpack", "services"} =>
               pc \in {"unpack", "services"} \/ at # "start"
      PROVE  SoundInv'
  BY <1>0 DEF SoundInv, Read, Blocks
<1>c. \A i \in 1 .. Len(Blocks) : i < Ahead => Read(i)
  BY <1>b DEF Ahead, Blocks, Read
<1>1. ASSUME NEW bad \in BOOLEAN, ReadsNothing(bad), UNCHANGED archive
      PROVE  SoundInv'
  <2> SUFFICES ASSUME ~broken' PROVE \A i \in 1 .. Len(Blocks') : Read(i)' => Blocks'[i].sound
    BY DEF SoundInv
  <2>1. ~broken /\ ~bad /\ UNCHANGED vol /\ at' = "data"
    BY <1>1 DEF ReadsNothing
  <2>2. \A i \in 1 .. Len(Blocks) : Read(i) => Blocks[i].sound
    BY <2>1 DEF SoundInv
  <2>3. CASE Astray
    <3>1. at = "data" /\ UNCHANGED <<cur, Blocks>>
      BY <1>1, <2>1, <2>3 DEF ReadsNothing, Astray, Blocks
    <3> QED BY <2>1, <2>2, <3>1 DEF Read
  <2>4. CASE ~Astray
    <3>1. Ahead > Len(Blocks) /\ cur' = Ahead /\ UNCHANGED Blocks
      BY <1>1, <2>1, <2>4 DEF ReadsNothing, Blocks
    <3> QED BY <1>b, <1>c, <2>2, <3>1 DEF Blocks
  <2> QED BY <2>3, <2>4
<1>2. ASSUME NEW b, ReadsBlock(b), UNCHANGED archive PROVE SoundInv'
  <2> SUFFICES ASSUME ~broken' PROVE \A i \in 1 .. Len(Blocks') : Read(i)' => Blocks'[i].sound
    BY DEF SoundInv
  <2>1. ~broken /\ b.sound /\ b = Blocks[Ahead] /\ cur' = Ahead /\ UNCHANGED Blocks
    BY <1>2 DEF ReadsBlock, Blocks
  <2>2. \A i \in 1 .. Len(Blocks) : i < Ahead => Blocks[i].sound
    BY <1>c, <2>1 DEF SoundInv
  <2> QED BY <1>b, <2>1, <2>2 DEF Read, Blocks
<1>3. ASSUME MergeFinds, UNCHANGED archive PROVE SoundInv'
  <2> SUFFICES ASSUME ~broken' PROVE \A i \in 1 .. Len(Blocks') : Read(i)' => Blocks'[i].sound
    BY DEF SoundInv
  <2>1. /\ vol' = vol + 1 /\ cur' \in Nat
        /\ \A j \in 1 .. cur' : j <= Len(Blocks') => Blocks'[j].sound
    BY <1>3, Landed DEF MergeFinds, Blocks
  <2> QED BY <2>1 DEF Read
<1>4. CASE Search
  BY <1>1, <1>2, <1>4 DEF Search
<1>5. CASE SearchOn
  BY <1>3, <1>5 DEF SearchOn
<1>6. CASE PassContinuation \/ SkipFile
  <2>1. AtFile /\ UNCHANGED archive /\ pc' \notin {"unpack", "services"}
    BY <1>6 DEF PassContinuation, SkipFile, LinkInv, Processed, Fail
  <2>2. SeekToNext \/ MergeFinds \/ UNCHANGED place
    BY <1>6 DEF PassContinuation, SkipFile, MergeMisses
  <2> QED BY <1>0, <1>3, <2>1, <2>2 DEF AtFile, SeekToNext
<1>7. CASE Unpack
  BY <1>0, <1>7 DEF Unpack, SeekToNext, LinkInv, AtFile
<1>8. CASE UnpackOn
  <2>1. CASE MergeFinds /\ UNCHANGED archive
    BY <1>3, <2>1
  <2>2. CASE ~MergeFinds
    BY <1>0, <1>8, <2>2 DEF UnpackOn
  <2> QED BY <1>8, <2>1, <2>2 DEF UnpackOn
<1>9. ASSUME NEW code, UnpackEnds(code) PROVE SoundInv'
  BY <1>0, <1>9 DEF UnpackEnds, SeekToNext
<1>10. CASE PassService
  BY <1>2, <1>10 DEF PassService
<1>11. CASE ProcessReturns
  <2>1. CASE Ahead <= Len(Blocks) /\ Blocks[Ahead].type # "corrupt"
    BY <1>2, <1>11, <2>1 DEF ProcessReturns
  <2>2. CASE ~(Ahead <= Len(Blocks) /\ Blocks[Ahead].type # "corrupt")
    <3>1. /\ cur' = Ahead /\ at' = "start" /\ UNCHANGED Blocks
          /\ broken' = (broken \/ Ahead <= Len(Blocks))
          /\ pc' = "idle"
      BY <1>11, <2>2 DEF ProcessReturns, Processed, Fail, Blocks
    <3> SUFFICES ASSUME ~broken'
                 PROVE  \A i \in 1 .. Len(Blocks') : Read(i)' => Blocks'[i].sound
      BY DEF SoundInv
    <3>2. \A i \in 1 .. Len(Blocks) : i < Ahead => Blocks[i].sound
      BY <1>c, <3>1 DEF SoundInv
    <3> QED BY <1>b, <3>1, <3>2 DEF Read, Blocks
  <2> QED BY <2>1, <2>2
<1>12. CASE \/ SearchMisses \/ SearchEnds \/ Found \/ BatchReturns
            \/ \E msg \in Messages : BatchTells(msg)
  <2>1. UNCHANGED <<archive, place>> /\ pc' \notin {"unpack", "services"}
    BY <1>12
       DEF SearchMisses, SearchEnds, Found, HeaderFound, BatchReturns, BatchTells, Fail,
           EndOfIteration, MergeMisses
  <2> QED BY <1>0, <2>1
<1>13. CASE Caller
  <2>1. UNCHANGED <<archive, place>> /\ pc' \notin {"unpack", "services"}
    BY <1>13
       DEF Caller, ReadHeader, NextItem, BeginRead, NextWhenDamaged, ForceHeal, Process,
           ExtractAll
  <2> QED BY <1>0, <2>1
<1>14. CASE UNCHANGED vars
  BY <1>0, <1>14 DEF vars
<1> QED
  BY <1>4, <1>5, <1>6, <1>7, <1>8, <1>9, <1>10, <1>11, <1>12, <1>13, <1>14
     DEF Next, Library

Base == TypeOK /\ Inv /\ LinkInv

(* The types, the invariant about calls and the link between position and  *)
(* header hold in every reachable state.                                   *)
THEOREM BaseHolds == Spec => []Base
<1>1. Init => LinkInv
  BY DEF Init, LinkInv
<1>2. TypeOK /\ Inv /\ LinkInv /\ [Next]_vars => LinkInv'
  BY LinkNext
<1>3. Base <=> TypeOK /\ Inv /\ LinkInv
  BY DEF Base
<1> QED BY TypeCorrect, Invariance, <1>1, <1>2, <1>3, PTL DEF Spec

(* read_header and next: the end of an archive is reported only when every *)
(* header read in the last volume was sound.                               *)
THEOREM DamageReported == Spec => DamageIsReported
<1>1. Init => SoundInv
  BY DEF Init, SoundInv, Read
<1>2. Base /\ SoundInv /\ [Next]_vars => SoundInv'
  BY SoundNext DEF Base
<1>3. ASSUME Base, SoundInv, [Next]_vars, pc # "idle", pc' = "idle",
             result'.kind = "None"
      PROVE  \A i \in 1 .. Len(Blocks) : i <= cur => Blocks[i].sound
  <2>1. SearchEnds /\ ~broken
    <3>1. CASE SearchEnds
      BY <1>3, <3>1 DEF SearchEnds, Fail, Result
    <3>2. CASE SearchMisses \/ PassContinuation \/ Found
      BY <1>3, <3>2
         DEF SearchMisses, PassContinuation, Found, HeaderFound, Fail, Result
    <3>3. CASE SkipFile \/ ProcessReturns
      BY <1>3, <3>3 DEF SkipFile, ProcessReturns, Processed, Fail, Result
    <3>4. CASE BatchReturns
      BY <1>3, <3>4 DEF BatchReturns, Result
    <3>5. CASE \/ Search \/ SearchOn \/ Unpack \/ UnpackOn \/ PassService
               \/ \E code \in {"Success", "BadData"} : UnpackEnds(code)
               \/ \E msg \in Messages : BatchTells(msg)
      BY <1>3, <3>5
         DEF Search, SearchOn, Unpack, UnpackOn, UnpackEnds, PassService, BatchTells
    <3>6. CASE Caller \/ UNCHANGED vars
      BY <1>3, <3>6
         DEF Caller, ReadHeader, NextItem, BeginRead, NextWhenDamaged, ForceHeal,
             Process, ExtractAll, vars
    <3> QED BY <1>3, <3>1, <3>2, <3>3, <3>4, <3>5, <3>6 DEF Next, Library
  <2>2. at = "data"
    BY <1>3, <2>1 DEF SearchEnds, Base, LinkInv, AtEnd
  <2>3. TypeOK
    BY <1>3 DEF Base
  <2>4. cur \in Nat
    BY <2>3, Position
  <2> QED BY <1>3, <2>1, <2>2, <2>4 DEF SoundInv, Read
<1>4. Base /\ SoundInv /\ [Next]_vars =>
        [pc # "idle" /\ pc' = "idle" /\ result'.kind = "None" =>
           \A i \in 1 .. Len(Blocks) : i <= cur => Blocks[i].sound]_vars
  BY <1>3
<1> QED BY BaseHolds, <1>1, <1>2, <1>4, PTL DEF Spec, DamageIsReported

-----------------------------------------------------------------------------
(* The hypotheses on the layout, for the volume that is open.              *)
LEMMA OpenVolume ==
  ASSUME TypeOK, NEW i \in 1 .. Len(Blocks), NEW j \in 1 .. Len(Blocks), i < j
  PROVE  /\ EndIsEnd /\ Blocks[i].type = "endarc" =>
              Blocks[j].type \notin {"file", "endarc"}
         /\ SplitIsLast /\ Blocks[i].type = "file" /\ Blocks[i].after =>
              Blocks[j].type # "file"
<1>1. archive \in Archives /\ vol \in 1 .. Len(archive)
  BY Position DEF TypeOK
<1> QED BY <1>1 DEF EndIsEnd, SplitIsLast, Blocks

(* A read from behind the header of a file goes astray.                    *)
LEMMA FileIsStuck == AtFile => Stuck
  BY DEF AtFile, Stuck, Astray

(* Behind an end record there is no file to be found.                      *)
LEMMA EndIsStuck == TypeOK /\ EndIsEnd /\ AtEnd => Stuck
<1> SUFFICES ASSUME TypeOK, EndIsEnd, AtEnd PROVE Stuck
  OBVIOUS
<1>1. CASE cur <= Len(Blocks) /\ Blocks[cur].type = "endarc"
  <2>1. cur \in 1 .. Len(Blocks)
    BY <1>1, Position DEF Blocks
  <2> QED BY <1>1, <2>1, OpenVolume DEF AtEnd, Stuck
<1>2. CASE header = NoBlock /\ (cur <= Len(Blocks) => Blocks[cur].type \in {"file", "corrupt"})
  <2>1. Len(Blocks) \in Nat /\ cur \in Nat
    BY Position DEF Blocks
  <2> QED BY <1>2, <2>1 DEF AtEnd, Stuck, Astray
<1> QED BY <1>1, <1>2 DEF AtEnd

(* A read that is stuck finds nothing, or a block of no interest.          *)
LEMMA StuckReads ==
  ASSUME TypeOK, Stuck, Search
  PROVE  /\ Stuck' /\ pc' \in {"search", "noheader"}
         /\ pc' = "noheader" => header' = NoBlock
<1>b. /\ archive[vol] \in Seq(Block) /\ Len(archive[vol]) \in Nat
      /\ cur \in 1 .. Len(archive[vol]) + 1
      /\ Ahead \in cur .. cur + 1 /\ Ahead \in 1 .. Len(archive[vol]) + 1
  BY Position
<1>1. UNCHANGED archive
  BY DEF Search, fixed
<1>2. ASSUME NEW bad, ReadsNothing(bad), pc' = "noheader"
      PROVE  Stuck' /\ header' = NoBlock
  <2>1. UNCHANGED Blocks /\ at' = "data" /\ header' = NoBlock
    BY <1>1, <1>2 DEF ReadsNothing, Blocks
  <2>2. CASE Astray
    BY <1>2, <2>1, <2>2 DEF ReadsNothing, Stuck, Astray
  <2>3. CASE ~Astray
    <3>1. cur' = Ahead
      BY <1>2, <2>3 DEF ReadsNothing
    <3> QED BY <1>b, <2>1, <2>3, <3>1 DEF Stuck, Blocks
  <2> QED BY <2>2, <2>3
<1>3. ASSUME NEW b, ReadsBlock(b), at' = IF b.type = "other" THEN "next" ELSE "data",
             pc' = CASE b.type = "file" -> "found"
                     [] b.type = "endarc" -> "noheader"
                     [] OTHER -> "search"
      PROVE  Stuck' /\ pc' = "search"
  <2>1. ~Astray /\ Ahead <= Len(Blocks) /\ b = Blocks[Ahead] /\ cur' = Ahead
        /\ UNCHANGED Blocks
    BY <1>1, <1>3 DEF ReadsBlock, Blocks
  <2>2. Ahead > cur
    BY <1>b, <2>1 DEF Ahead, Stuck, Blocks
  <2>3. b.type \notin {"file", "endarc"}
    BY <1>b, <2>1, <2>2 DEF Stuck, Blocks
  <2> QED BY <1>b, <1>3, <2>1, <2>2, <2>3 DEF Stuck, Blocks
<1> QED BY <1>2, <1>3 DEF Search

(* An error is never followed by anything but the end.                     *)
LEMMA StuckNext ==
  ASSUME EndIsEnd
  PROVE  Base /\ StuckInv /\ [Next]_vars => StuckInv'
<1> SUFFICES ASSUME Base, StuckInv, [Next]_vars PROVE StuckInv'
  OBVIOUS
<1>a. TypeOK /\ CursorInv /\ NextLists /\ LinkInv
  BY DEF Base, Inv
<1> USE DEF fixed, wrapper, history
<1>0. ASSUME ~failed' \/ cursor' = "dropped", cursor' = "dropped" => pc' = "idle"
      PROVE  StuckInv'
  BY <1>0 DEF StuckInv
<1>1. ASSUME NEW code, NEW when, Fail(code, when), Stuck, UNCHANGED <<archive, mode, place>>,
             call = "next" => cursor = "header"
      PROVE  StuckInv'
  <2>1. CASE call = "next"
    BY <1>1, <1>a, <2>1
       DEF Fail, StuckInv, Stuck, Astray, Blocks, place, NextLists, Listing
  <2>2. CASE call # "next"
    BY <1>1, <2>2, <1>0 DEF Fail
  <2> QED BY <2>1, <2>2
<1>2. CASE failed /\ cursor # "dropped"
  <2>1. Listing /\ cursor = "header" /\ pc \in {"idle", "search", "noheader"} /\ Stuck
        /\ (pc = "noheader" => header = NoBlock)
    BY <1>2 DEF StuckInv
  <2>2. CASE Search
    BY <1>a, <2>1, <2>2, StuckReads DEF Search, StuckInv, Listing
  <2>3. CASE SearchOn \/ SearchMisses
    BY <2>1, <2>3 DEF SearchOn, SearchMisses, Promised, NoBlock
  <2>4. CASE SearchEnds
    <3>1. pc' = "idle" /\ cursor' \in {cursor, "dropped"} /\ UNCHANGED <<archive, mode, place>>
      BY <2>4 DEF SearchEnds, EndOfIteration, Fail
    <3> QED BY <2>1, <3>1 DEF StuckInv, Stuck, Astray, Blocks, place, Listing
  <2>5. CASE PassContinuation \/ Found \/ SkipFile \/ Unpack \/ UnpackOn
             \/ (\E code \in {"Success", "BadData"} : UnpackEnds(code))
             \/ PassService \/ ProcessReturns \/ BatchReturns
             \/ (\E msg \in Messages : BatchTells(msg))
    BY <2>1, <2>5
       DEF PassContinuation, Found, SkipFile, Unpack, UnpackOn, UnpackEnds, PassService,
           ProcessReturns, BatchReturns, BatchTells
  <2>6. CASE Caller \/ UNCHANGED vars
    <3>1. /\ UNCHANGED <<archive, mode, place, failed, cursor>>
          /\ pc' \in {pc, "search"} /\ (pc' = pc \/ pc = "idle")
      BY <2>1, <2>6
         DEF Caller, ReadHeader, NextItem, BeginRead, NextWhenDamaged, ForceHeal, Process,
             ExtractAll, vars
    <3> QED BY <2>1, <3>1 DEF StuckInv, Stuck, Astray, Blocks, place, Listing
  <2> QED BY <2>2, <2>3, <2>4, <2>5, <2>6 DEF Next, Library
<1>3. CASE cursor = "dropped"
  <2>1. pc = "idle"
    BY <1>3 DEF StuckInv
  <2>2. UNCHANGED <<pc, cursor>>
    BY <1>3, <2>1
       DEF Next, Library, Search, SearchOn, SearchMisses, SearchEnds, PassContinuation,
           Found, SkipFile, Unpack, UnpackOn, UnpackEnds, PassService, ProcessReturns,
           BatchTells, BatchReturns, Caller, ReadHeader, NextItem, BeginRead,
           NextWhenDamaged, ForceHeal, Process, ExtractAll, vars
  <2> QED BY <1>3, <2>1, <2>2 DEF StuckInv
<1>4. CASE ~failed /\ cursor # "dropped"
  <2>1. CASE SearchMisses \/ SearchEnds
    <3>1. Stuck /\ cursor = "header"
      BY <1>a, <2>1, EndIsStuck DEF SearchMisses, SearchEnds, LinkInv, CursorInv, InHeader
    <3>2. UNCHANGED <<archive, mode, place>>
      BY <2>1 DEF SearchMisses, SearchEnds, MergeMisses
    <3>3. \/ \E code, when : Fail(code, when)
          \/ pc' = "idle" /\ failed' = failed
      BY <2>1 DEF SearchMisses, SearchEnds, EndOfIteration
    <3> QED BY <1>0, <1>1, <1>4, <3>1, <3>2, <3>3
  <2>2. CASE PassContinuation \/ Found \/ SkipFile
    <3>1. Stuck /\ (call = "next" => cursor = "header")
      BY <1>a, <2>2, FileIsStuck
         DEF PassContinuation, Found, SkipFile, LinkInv, CursorInv, InHeader, InProcess
    <3>2. ASSUME NEW code, NEW when, Fail(code, when) PROVE UNCHANGED <<archive, mode, place>>
      BY <2>2, <3>2
         DEF PassContinuation, Found, SkipFile, HeaderFound, Processed, MergeMisses, Fail,
             Result
    <3>3. \/ \E code, when : Fail(code, when)
          \/ failed' = failed /\ cursor' # "dropped"
      BY <1>4, <2>2 DEF PassContinuation, Found, SkipFile, HeaderFound, Processed
    <3> QED BY <1>0, <1>1, <1>4, <3>1, <3>2, <3>3
  <2>3. CASE ProcessReturns
    <3>1. call # "next"
      BY <1>a, <2>3 DEF ProcessReturns, LinkInv, NextLists
    <3>2. \/ cursor' = "dropped" /\ pc' = "idle"
          \/ failed' = failed /\ cursor' # "dropped"
      BY <2>3, <3>1 DEF ProcessReturns, Processed, Fail
    <3> QED BY <1>0, <1>4, <3>2
  <2>4. CASE BatchReturns
    BY <1>0, <2>4 DEF BatchReturns
  <2>5. CASE Search \/ SearchOn \/ Unpack \/ UnpackOn \/ PassService
             \/ (\E code \in {"Success", "BadData"} : UnpackEnds(code))
             \/ (\E msg \in Messages : BatchTells(msg))
    BY <1>0, <1>4, <2>5
       DEF Search, SearchOn, Unpack, UnpackOn, UnpackEnds, PassService, BatchTells
  <2>6. CASE Caller \/ UNCHANGED vars
    <3>1. UNCHANGED <<failed, cursor>>
      BY <2>6
         DEF Caller, ReadHeader, NextItem, BeginRead, NextWhenDamaged, ForceHeal, Process,
             ExtractAll, vars
    <3> QED BY <1>0, <1>4, <3>1
  <2> QED BY <2>1, <2>2, <2>3, <2>4, <2>5, <2>6 DEF Next, Library
<1> QED BY <1>2, <1>3, <1>4

(* Iterator::next and force_heal: a healed iterator yields nothing more.   *)
THEOREM AfterFailure ==
  ASSUME EndIsEnd
  PROVE  Spec => NothingAfterFailure
<1>1. Init => StuckInv
  BY DEF Init, StuckInv
<1>2. Base /\ StuckInv /\ [Next]_vars => StuckInv'
  BY StuckNext
<1>3. ASSUME Base, StuckInv, [Next]_vars, failed PROVE yielded' = yielded
  <2>1. pc \in {"idle", "search", "noheader"}
    BY <1>3 DEF StuckInv
  <2> QED
    BY <1>3, <2>1
       DEF Next, Library, Search, SearchOn, SearchMisses, SearchEnds, PassContinuation,
           Found, SkipFile, Unpack, UnpackOn, UnpackEnds, PassService, ProcessReturns,
           BatchTells, BatchReturns, Caller, ReadHeader, NextItem, BeginRead,
           NextWhenDamaged, ForceHeal, Process, ExtractAll, Fail, EndOfIteration, history,
           vars
<1>4. Base /\ StuckInv /\ [Next]_vars => [failed => yielded' = yielded]_vars
  BY <1>3
<1> QED BY BaseHolds, <1>1, <1>2, <1>4, PTL DEF Spec, NothingAfterFailure

-----------------------------------------------------------------------------
(* The headers a listing should show, and their order.                     *)
LEMMA ShownPlaces ==
  \A p : p \in ToShow <=>
    \E v \in opened .. Len(archive) : \E i \in 1 .. Len(archive[v]) :
      p = <<v, i>> /\ Shown(archive[v][i])
  BY DEF ToShow, HeaderAt

(* A place in the set is a volume and a block of it.                       *)
LEMMA PlaceType ==
  ASSUME TypeOK, NEW p \in ToShow
  PROVE  /\ p = <<p[1], p[2]>> /\ p[1] \in opened .. Len(archive)
         /\ p[1] \in Nat /\ p[2] \in Nat /\ p[2] \in 1 .. Len(archive[p[1]])
         /\ archive[p[1]][p[2]].type = "file"
<1>1. FixedOK /\ opened \in Nat /\ Len(archive) \in Nat
  <2>1. FixedOK
    BY Parts
  <2> QED BY <2>1, Volumes DEF FixedOK
<1>2. PICK v \in opened .. Len(archive) : \E i \in 1 .. Len(archive[v]) :
        p = <<v, i>> /\ Shown(archive[v][i])
  BY ShownPlaces
<1>3. v \in Nat /\ v \in 1 .. Len(archive)
  BY <1>1 DEF FixedOK
<1>4. Len(archive[v]) \in Nat
  BY <1>1, <1>3, Volumes
<1> QED BY <1>1, <1>2, <1>3, <1>4 DEF Shown

(* A set has finitely many headers to show.                                *)
LEMMA ToShowFinite == TypeOK => IsFiniteSet(ToShow)
<1> SUFFICES ASSUME TypeOK PROVE IsFiniteSet(ToShow)
  OBVIOUS
<1> DEFINE V == opened .. Len(archive)
           Of(v) == {v} \X {i \in 1 .. Len(archive[v]) : Shown(HeaderAt(<<v, i>>))}
           F == [v \in V |-> Of(v)]
           T == {F[v] : v \in V}
<1>1. FixedOK /\ opened \in Int /\ Len(archive) \in Int
  <2>1. FixedOK
    BY Parts
  <2> QED BY <2>1, Volumes DEF FixedOK
<1>2. IsFiniteSet(V)
  BY <1>1, FS_Interval
<1>3. F \in Surjection(V, T)
  BY DEF Surjection
<1>4. IsFiniteSet(T)
  BY <1>2, <1>3, FS_Surjection
<1>5. ASSUME NEW v \in V PROVE IsFiniteSet(Of(v))
  <2>1. Len(archive[v]) \in Int
    BY <1>1, Volumes DEF FixedOK
  <2>2. IsFiniteSet(1 .. Len(archive[v]))
    BY <2>1, FS_Interval
  <2>3. IsFiniteSet({i \in 1 .. Len(archive[v]) : Shown(HeaderAt(<<v, i>>))})
    BY <2>2, FS_Subset
  <2>4. IsFiniteSet({v})
    BY FS_Singleton
  <2> QED BY <2>3, <2>4, FS_Product
<1>6. ToShow = UNION T
  BY DEF ToShow
<1>7. \A U \in T : IsFiniteSet(U)
  BY <1>5
<1> QED BY <1>4, <1>6, <1>7, FS_UNION

(* Two headers do not have the same number.                                *)
LEMMA OneEach ==
  ASSUME TypeOK, NEW p \in ToShow, NEW q \in ToShow,
         Cardinality(UpTo(p)) = Cardinality(UpTo(q))
  PROVE  p = q
<1>1. ASSUME NEW r \in ToShow, NEW s \in ToShow, Precedes(r, s),
             Cardinality(UpTo(r)) = Cardinality(UpTo(s))
      PROVE  FALSE
  <2>1. UpTo(r) \subseteq UpTo(s)
    <3> SUFFICES ASSUME NEW t \in ToShow, ~Precedes(r, t), Precedes(s, t) PROVE FALSE
      BY DEF UpTo
    <3> QED BY <1>1, PlaceType DEF Precedes
  <2>2. IsFiniteSet(UpTo(s))
    BY ToShowFinite, FS_Subset DEF UpTo
  <2>3. UpTo(r) = UpTo(s)
    BY <1>1, <2>1, <2>2, FS_Subset
  <2>4. s \in UpTo(s)
    BY PlaceType DEF UpTo, Precedes
  <2>5. s \notin UpTo(r)
    BY <1>1 DEF UpTo
  <2> QED BY <2>3, <2>4, <2>5
<1>2. Precedes(p, q) \/ Precedes(q, p) \/ p = q
  <2>1. /\ p = <<p[1], p[2]>> /\ p[1] \in Nat /\ p[2] \in Nat
        /\ q = <<q[1], q[2]>> /\ q[1] \in Nat /\ q[2] \in Nat
    BY PlaceType
  <2> QED BY <2>1 DEF Precedes
<1> QED BY <1>1, <1>2

(* What is lined up is what is expected.                                   *)
LEMMA AsExpected ==
  ASSUME TypeOK, NEW D \in SUBSET ToShow, LinedUp(D)
  PROVE  /\ Len(yielded) <= Len(Expected)
         /\ \A i \in 1 .. Len(yielded) : yielded[i] = Expected[i]
         /\ D = ToShow => yielded = Expected
<1> DEFINE n == Cardinality(ToShow)
<1>1. IsFiniteSet(ToShow) /\ n \in Nat
  BY ToShowFinite, FS_CardinalityType
<1>2. Len(yielded) \in Nat /\ Len(yielded) <= n
  BY <1>1, FS_Subset, FS_CardinalityType DEF LinedUp
<1>3. Len(Expected) = n /\ DOMAIN Expected = 1 .. n
  <2>1. DOMAIN Expected = 1 .. n
    BY DEF Expected
  <2> QED BY <1>1, <2>1 DEF Expected
<1>4. ASSUME NEW i \in 1 .. Len(yielded) PROVE yielded[i] = Expected[i]
  <2>1. PICK p \in D : Cardinality(UpTo(p)) = i /\ yielded[i] = Entry(HeaderAt(p))
    BY DEF LinedUp
  <2>2. (CHOOSE q \in ToShow : Cardinality(UpTo(q)) = i) = p
    BY <2>1, OneEach
  <2>3. i \in 1 .. n
    BY <1>1, <1>2
  <2> QED BY <2>1, <2>2, <2>3 DEF Expected
<1>5. ASSUME D = ToShow PROVE yielded = Expected
  <2>1. yielded \in Seq(Entries)
    BY DEF TypeOK
  <2>2. Len(yielded) = n
    BY <1>5 DEF LinedUp
  <2>3. yielded = [i \in 1 .. n |-> yielded[i]]
    BY <2>1, <2>2
  <2>4. Expected = [i \in 1 .. n |-> Expected[i]]
    BY DEF Expected
  <2> HIDE DEF n
  <2> QED BY <1>4, <2>2, <2>3, <2>4
<1> QED BY <1>2, <1>3, <1>4, <1>5

-----------------------------------------------------------------------------
(* How the position moves past headers.                                    *)

(* Whether a block is to be shown does not change.                         *)
LEMMA SameToShow ==
  ASSUME UNCHANGED <<archive, mode, opened>>
  PROVE  /\ ToShow' = ToShow
         /\ \A p : HeaderAt(p)' = HeaderAt(p) /\ UpTo(p)' = UpTo(p)
<1>1. \A p : HeaderAt(p)' = HeaderAt(p)
  BY DEF HeaderAt
<1>2. ToShow' = ToShow
  BY DEF ToShow, HeaderAt, Shown
<1> QED BY <1>1, <1>2 DEF UpTo, Precedes

(* What has been listed stays so when nothing is added.                    *)
LEMMA LineStays ==
  ASSUME UNCHANGED <<archive, mode, opened, yielded>>, NEW D, LinedUp(D)
  PROVE  LinedUp(D)'
<1>1. \A p : HeaderAt(p)' = HeaderAt(p) /\ UpTo(p)' = UpTo(p)
  BY SameToShow
<1> QED BY <1>1 DEF LinedUp, Entry

(* The next header is added.                                               *)
LEMMA LineGrows ==
  ASSUME TypeOK, UNCHANGED <<archive, mode, opened>>,
         NEW D \in SUBSET ToShow, LinedUp(D), NEW p \in ToShow, p \notin D,
         UpTo(p) = D \cup {p},
         yielded' = Append(yielded, Entry(HeaderAt(p)))
  PROVE  LinedUp(D \cup {p})'
<1>1. IsFiniteSet(D) /\ Cardinality(D) \in Nat
  BY ToShowFinite, FS_Subset, FS_CardinalityType
<1>2. Cardinality(D \cup {p}) = Cardinality(D) + 1
  BY <1>1, FS_AddElement
<1>3. yielded \in Seq(Entries) /\ Len(yielded) = Cardinality(D)
  BY DEF TypeOK, LinedUp
<1>4. /\ Len(yielded') = Len(yielded) + 1
      /\ \A k \in 1 .. Len(yielded) : yielded'[k] = yielded[k]
      /\ yielded'[Len(yielded) + 1] = Entry(HeaderAt(p))
  BY <1>3
<1>5. \A q : HeaderAt(q)' = HeaderAt(q) /\ UpTo(q)' = UpTo(q)
  BY SameToShow
<1>6. ASSUME NEW k \in 1 .. Len(yielded')
      PROVE  \E q \in D \cup {p} :
               Cardinality(UpTo(q)') = k /\ yielded'[k] = Entry(HeaderAt(q)')
  <2>1. CASE k \in 1 .. Len(yielded)
    BY <1>4, <1>5, <2>1 DEF LinedUp
  <2>2. CASE k = Len(yielded) + 1
    BY <1>2, <1>3, <1>4, <1>5, <2>2
  <2> QED BY <1>1, <1>3, <1>4, <2>1, <2>2
<1> QED BY <1>2, <1>3, <1>4, <1>6 DEF LinedUp, Entry

(* In front of a header that is to be shown and was not counted, what is   *)
(* done is all that precedes it.                                           *)
LEMMA NextInLine ==
  ASSUME TypeOK, Here \in ToShow, ~Counted
  PROVE  Here \notin Done /\ UpTo(Here) = Done \cup {Here} /\ UpToHere = Done \cup {Here}
<1>1. \A p \in ToShow : ~Precedes(Here, p) <=> Precedes(p, Here) \/ p = Here
  BY PlaceType DEF Precedes
<1>2. ~Precedes(Here, Here)
  BY PlaceType DEF Precedes
<1> QED BY <1>1, <1>2 DEF UpTo, Done, UpToHere

(* A read moves over nothing that should have been shown.                  *)
LEMMA ReadKeepsDone ==
  ASSUME TypeOK, UNCHANGED fixed, cursor = "header", UNCHANGED cursor,
         \/ \E bad \in BOOLEAN : ReadsNothing(bad)
         \/ \E b : /\ ReadsBlock(b) /\ b.type \in {"file", "other", "endarc"}
                   /\ at' = IF b.type = "other" THEN "next" ELSE "data"
  PROVE  Done' = Done
<1>a. at \in {"start", "data", "next"}
  BY Parts DEF PlaceOK
<1>b. /\ archive[vol] \in Seq(Block) /\ Len(archive[vol]) \in Nat
      /\ vol \in Nat /\ cur \in 1 .. Len(archive[vol]) + 1
      /\ Ahead \in cur .. cur + 1
  BY Position
<1>1. ToShow' = ToShow /\ UNCHANGED vol
  BY SameToShow DEF fixed, ReadsNothing, ReadsBlock
<1>2. CASE Astray /\ cur' = cur /\ at' = "data"
  BY <1>1, <1>2 DEF Astray, Done, Counted, Here, Precedes
<1>3. CASE /\ ~Astray /\ cur' = Ahead
           /\ \/ at' = "data"
              \/ Ahead <= Len(Blocks) /\ Blocks[Ahead].type = "other"
  <2>1. ASSUME NEW p \in ToShow PROVE p \in Done' <=> p \in Done
    <3>1. /\ p = <<p[1], p[2]>> /\ p[1] \in Nat /\ p[2] \in Nat
          /\ p[2] \in 1 .. Len(archive[p[1]])
          /\ archive[p[1]][p[2]].type = "file"
      BY PlaceType
    <3>2. p \in Done <=> Precedes(p, Here) \/ (p = Here /\ at = "next")
      BY DEF Done, Counted
    <3>3. p \in Done' <=> Precedes(p, Here')
      <4>1. p # Here' \/ ~Counted'
        BY <1>1, <1>3, <3>1 DEF Counted, Here, Blocks
      <4> QED BY <1>1, <4>1 DEF Done, Precedes
    <3>4. Ahead = cur \/ (Ahead = cur + 1 /\ at # "start" /\ cur <= Len(archive[vol]))
      BY <1>b DEF Ahead, Blocks
    <3>5. CASE Ahead = cur
      <4>1. Here' = Here
        BY <1>1, <1>3, <3>5 DEF Here
      <4>2. ~(p = Here /\ at = "next")
        BY <1>b, <3>1, <3>5 DEF Here, Ahead, Blocks
      <4> QED BY <3>2, <3>3, <4>1, <4>2
    <3>6. CASE Ahead = cur + 1 /\ at # "start" /\ cur <= Len(archive[vol])
      <4>1. p = Here => at = "next"
        BY <1>a, <1>b, <1>3, <3>1, <3>6 DEF Here, Astray, Blocks
      <4>2. Precedes(p, Here') <=> Precedes(p, Here) \/ p = Here
        BY <1>1, <1>3, <1>b, <3>1, <3>6 DEF Here, Precedes
      <4> QED BY <3>2, <3>3, <4>1, <4>2
    <3> QED BY <3>4, <3>5, <3>6
  <2> QED BY <1>1, <2>1 DEF Done
<1>4. ASSUME NEW bad \in BOOLEAN, ReadsNothing(bad) PROVE Done' = Done
  BY <1>2, <1>3, <1>4 DEF ReadsNothing
<1>5. ASSUME NEW b, ReadsBlock(b), b.type \in {"file", "other", "endarc"},
             at' = IF b.type = "other" THEN "next" ELSE "data"
      PROVE  Done' = Done
  BY <1>3, <1>5 DEF ReadsBlock
<1> QED BY <1>4, <1>5

(* The position leaves a file or an end record: what follows in the volume *)
(* is not to be shown if the next one is opened.                           *)
LEMMA LeaveDone ==
  ASSUME EndIsEnd, SplitIsLast, TypeOK, UNCHANGED fixed,
         at = "data", cur <= Len(Blocks),
         \/ SeekToNext
         \/ /\ MergeFinds
            /\ \/ Blocks[cur].type = "endarc"
               \/ Blocks[cur].type = "file" /\ Blocks[cur].after
  PROVE  Done' = UpToHere
<1>b. /\ Len(archive[vol]) \in Nat /\ vol \in Nat /\ cur \in Nat /\ cur \in 1 .. Len(Blocks)
  BY Position DEF Blocks
<1>1. ToShow' = ToShow
  BY SameToShow DEF fixed
<1>2. CASE SeekToNext
  BY <1>1, <1>2 DEF SeekToNext, Done, UpToHere, Counted, Here, Precedes
<1>3. CASE MergeFinds /\ ~SeekToNext
  <2>1. /\ vol' = vol + 1 /\ at' = "start" /\ cur' \in Nat
        /\ \A j \in 1 .. Len(Blocks') : j < cur' => Blocks'[j].type # "file"
    BY <1>3, Landed DEF fixed
  <2>2. Blocks' = archive[vol + 1]
    BY <2>1 DEF Blocks, fixed
  <2>3. \A j \in 1 .. Len(Blocks) : cur < j => Blocks[j].type # "file"
    BY <1>3, <1>b, OpenVolume
  <2>4. ASSUME NEW p \in ToShow PROVE p \in Done' <=> p \in UpToHere
    <3>1. /\ p = <<p[1], p[2]>> /\ p[1] \in Nat /\ p[2] \in Nat
          /\ p[2] \in 1 .. Len(archive[p[1]])
          /\ archive[p[1]][p[2]].type = "file"
      BY PlaceType
    <3>2. p \in Done' <=> p[1] < vol + 1 \/ (p[1] = vol + 1 /\ p[2] < cur')
      BY <1>1, <2>1 DEF Done, Counted, Here, Precedes
    <3>3. ~(p[1] = vol + 1 /\ p[2] < cur')
      BY <2>1, <2>2, <3>1
    <3>4. p \in UpToHere <=> p[1] < vol \/ (p[1] = vol /\ p[2] <= cur)
      BY <1>b, <3>1 DEF UpToHere, Here, Precedes
    <3>5. p[1] = vol => p[2] <= cur
      BY <1>b, <2>3, <3>1 DEF Blocks
    <3> QED BY <1>b, <3>1, <3>2, <3>3, <3>4, <3>5
  <2> QED BY <1>1, <2>4 DEF Done, UpToHere
<1> QED BY <1>2, <1>3

-----------------------------------------------------------------------------
(* A listing shows the headers of the set, one by one.                     *)

(* What is done depends on the position and the set alone.                 *)
LEMMA DoneStays ==
  ASSUME UNCHANGED <<archive, mode, opened, place>>,
         cursor' = cursor \/ (cursor # "file" /\ cursor' # "file")
  PROVE  Done' = Done
<1>1. ToShow' = ToShow
  BY SameToShow
<1> QED BY <1>1 DEF Done, Counted, Here, Precedes, place

(* A file that is no entry of its own, or a block that is no file.         *)
LEMMA NothingToShow ==
  ASSUME Here \notin ToShow \/ Counted
  PROVE  UpToHere = Done
  BY DEF UpToHere, Done

(* A file is to be shown unless it continues one that was.                 *)
LEMMA FileToShow ==
  ASSUME TypeOK, AtFile
  PROVE  /\ Here \in ToShow <=> ~Continuation
         /\ HeaderAt(Here) = fileHead
<1>1. vol \in opened .. Len(archive) /\ cur \in 1 .. Len(archive[vol])
  <2>1. PlaceOK /\ FixedOK
    BY Parts
  <2>2. cur \in 1 .. Len(archive[vol])
    BY Position DEF AtFile, Blocks
  <2> QED BY <2>1, <2>2, Volumes DEF PlaceOK, FixedOK
<1>2. HeaderAt(Here) = fileHead
  BY DEF HeaderAt, Here, AtFile, Blocks
<1>3. Here \in ToShow <=> Shown(fileHead)
  BY <1>1, ShownPlaces DEF Here, AtFile, Blocks
<1> QED BY <1>2, <1>3 DEF Shown, Continuation, AtFile

(* The volume set, what was opened and the mode never change.              *)
LEMMA FixedStays == [Next]_vars => UNCHANGED fixed
<1> SUFFICES ASSUME [Next]_vars PROVE UNCHANGED fixed
  OBVIOUS
<1>1. CASE Library
  BY <1>1
     DEF Library, Search, SearchOn, SearchMisses, SearchEnds, PassContinuation, Found,
         SkipFile, Unpack, UnpackOn, UnpackEnds, PassService, ProcessReturns, BatchTells,
         BatchReturns
<1>2. CASE Caller
  BY <1>2
     DEF Caller, ReadHeader, NextItem, BeginRead, NextWhenDamaged, ForceHeal, Process,
         ExtractAll
<1> QED BY <1>1, <1>2 DEF Next, vars

(* In a listing nothing is unpacked, so these are all the steps there are. *)
LEMMA ListingSteps ==
  ASSUME Base, Listing, [Next]_vars
  PROVE  \/ Search \/ SearchOn \/ SearchMisses \/ SearchEnds \/ PassContinuation
         \/ Found \/ SkipFile
         \/ /\ UNCHANGED <<fixed, place, cursor, yielded, failed>>
            /\ \/ pc' = pc
               \/ pc = "idle" /\ cursor = "header" /\ pc' = "search"
               \/ pc' = "process"
            /\ UNCHANGED <<damaged, result>> \/ damaged
<1>a. CursorInv /\ LinkInv
  BY DEF Base, Inv
<1>1. CASE Unpack \/ UnpackOn \/ (\E code \in {"Success", "BadData"} : UnpackEnds(code))
           \/ PassService \/ ProcessReturns \/ BatchReturns
           \/ (\E msg \in Messages : BatchTells(msg))
  BY <1>a, <1>1
     DEF Unpack, Seeking, UnpackOn, UnpackEnds, PassService, ProcessReturns, BatchReturns,
         BatchTells, CursorInv, LinkInv
<1>2. CASE Caller
  BY <1>a, <1>2
     DEF Caller, ReadHeader, NextItem, BeginRead, NextWhenDamaged, ForceHeal, Process,
         ExtractAll, wrapper, history, LinkInv
<1>3. CASE UNCHANGED vars
  BY <1>3 DEF vars, wrapper, history
<1> QED BY <1>1, <1>2, <1>3 DEF Next, Library

(* Every step of a listing keeps what it has shown in line.                *)
LEMMA WalkNext ==
  ASSUME EndIsEnd, SplitIsLast
  PROVE  Base /\ StuckInv /\ WalkInv /\ [Next]_vars => WalkInv'
<1> SUFFICES ASSUME Base, StuckInv, WalkInv, [Next]_vars, Listing PROVE WalkInv'
  BY FixedStays DEF WalkInv, Listing, fixed
<1>a. TypeOK /\ CursorInv /\ NextLists /\ LinkInv
  BY DEF Base, Inv
<1> PICK D \in SUBSET ToShow :
      LinedUp(D) /\ ((cursor = "dropped" /\ failed) \/ D = Done)
  BY DEF WalkInv
<1> USE DEF fixed
<1>0. ASSUME UNCHANGED <<fixed, yielded>>, (cursor' = "dropped" /\ failed') \/ Done' = D
      PROVE  WalkInv'
  <2>1. LinedUp(D)' /\ ToShow' = ToShow
    BY <1>0, LineStays, SameToShow
  <2> QED BY <1>0, <2>1 DEF WalkInv
<1>1. ASSUME UNCHANGED fixed, Here \in ToShow, ~Counted, D = Done, HeaderAt(Here) = fileHead,
             yielded' = Append(yielded, Entry(fileHead)), Done' = UpToHere
      PROVE  WalkInv'
  <2>1. Here \notin D /\ UpTo(Here) = D \cup {Here} /\ Done' = D \cup {Here}
    BY <1>a, <1>1, NextInLine
  <2>2. \A p : p \in ToShow /\ p \notin D /\ UpTo(p) = D \cup {p}
               /\ yielded' = Append(yielded, Entry(HeaderAt(p)))
               => LinedUp(D \cup {p})'
    BY <1>a, <1>1, LineGrows
  <2>3. \A p : p = Here => (LinedUp(D \cup {p})' => \E E \in SUBSET ToShow : LinedUp(E)' /\ E = Done')
    BY <1>1, <2>1
  <2> QED BY <1>1, <2>1, <2>2, <2>3, SameToShow DEF WalkInv
<1>2. ASSUME UNCHANGED <<fixed, place>>, NEW code, NEW when, Fail(code, when), cursor # "file"
      PROVE  WalkInv'
  <2>1. UNCHANGED <<yielded>> /\ cursor' \in {cursor, "dropped"} /\ failed'
    BY <1>2 DEF Fail
  <2>2. CASE cursor' = "dropped"
    BY <1>0, <1>2, <2>1, <2>2
  <2>3. CASE cursor' # "dropped"
    <3>1. D = Done /\ Done' = Done
      BY <1>2, <2>1, <2>3, DoneStays
    <3> QED BY <1>0, <1>2, <2>1, <3>1
  <2> QED BY <2>2, <2>3
<1>3. CASE cursor = "dropped"
  <2>1. pc = "idle"
    BY <1>3 DEF StuckInv
  <2>2. UNCHANGED vars
    BY <1>3, <2>1
       DEF Next, Library, Search, SearchOn, SearchMisses, SearchEnds, PassContinuation,
           Found, SkipFile, Unpack, UnpackOn, UnpackEnds, PassService, ProcessReturns,
           BatchTells, BatchReturns, Caller, ReadHeader, NextItem, BeginRead,
           NextWhenDamaged, ForceHeal, Process, ExtractAll, vars
  <2>3. Done' = Done
    <3>1. UNCHANGED <<archive, mode, opened, place, cursor>>
      BY <2>2 DEF vars, wrapper
    <3> QED BY <3>1, DoneStays
  <2> QED BY <1>0, <1>3, <2>2, <2>3 DEF vars, history, wrapper
<1>4. ASSUME cursor # "dropped", Search PROVE WalkInv'
  <2>1. cursor = "header" /\ UNCHANGED <<fixed, cursor, yielded>> /\ D = Done
    BY <1>a, <1>4 DEF Search, CursorInv, InHeader, wrapper, history
  <2>2. Done' = Done
    <3>1. ASSUME NEW b \in {Blocks[i] : i \in 1 .. Len(Blocks)}, ReadsBlock(b)
          PROVE  b.type \in {"file", "other", "endarc"}
      <4>1. archive[vol] \in Seq(Block)
        BY <1>a, Position
      <4>2. b \in Block
        BY <4>1 DEF Blocks
      <4> QED BY <3>1, <4>2 DEF Block, BlockTypes, ReadsBlock
    <3>2. CASE \E bad \in BOOLEAN : ReadsNothing(bad)
      BY <1>a, <2>1, <3>2, ReadKeepsDone
    <3>3. CASE \E b \in {Blocks[i] : i \in 1 .. Len(Blocks)} :
                 ReadsBlock(b) /\ at' = IF b.type = "other" THEN "next" ELSE "data"
      BY <1>a, <2>1, <3>1, <3>3, ReadKeepsDone
    <3> QED BY <1>4, <3>2, <3>3 DEF Search
  <2> QED BY <1>0, <2>1, <2>2
<1>5. ASSUME cursor # "dropped", SearchOn PROVE WalkInv'
  <2>1. UNCHANGED <<fixed, yielded>> /\ D = Done /\ MergeFinds
    BY <1>5 DEF SearchOn, history
  <2>2. at = "data" /\ cur <= Len(Blocks) /\ Blocks[cur].type = "endarc"
    BY <1>a, <1>5 DEF SearchOn, LinkInv, AtEnd, Promised, NoBlock
  <2>3. Done' = UpToHere
    BY <1>a, <2>1, <2>2, LeaveDone
  <2>4. Here \notin ToShow
    BY <1>a, <2>2, PlaceType DEF Here, Blocks
  <2> QED BY <1>0, <2>1, <2>3, <2>4, NothingToShow
<1>6. ASSUME cursor # "dropped", SearchMisses \/ SearchEnds PROVE WalkInv'
  <2>1. cursor = "header" /\ UNCHANGED <<fixed, place>> /\ D = Done
    BY <1>a, <1>6 DEF SearchMisses, SearchEnds, MergeMisses, CursorInv, InHeader
  <2>2. CASE \E code, when : Fail(code, when)
    BY <1>2, <2>1, <2>2
  <2>3. CASE EndOfIteration
    <3>1. cursor' # "file" /\ UNCHANGED yielded
      BY <2>1, <2>3 DEF EndOfIteration, history
    <3> QED BY <1>0, <2>1, <3>1, DoneStays
  <2> QED BY <1>6, <2>2, <2>3 DEF SearchMisses, SearchEnds
<1>7. ASSUME cursor # "dropped", PassContinuation PROVE WalkInv'
  <2>1. cursor = "header" /\ AtFile /\ Continuation /\ UNCHANGED fixed /\ D = Done
    BY <1>a, <1>7 DEF PassContinuation, LinkInv, CursorInv, InHeader
  <2>2. CASE UNCHANGED yielded /\ IF fileHead.after THEN MergeFinds ELSE SeekToNext
    <3>1. Done' = UpToHere
      BY <1>a, <2>1, <2>2, LeaveDone DEF AtFile
    <3>2. UpToHere = Done
      BY <1>a, <2>1, FileToShow, NothingToShow
    <3> QED BY <1>0, <2>1, <2>2, <3>1, <3>2
  <2>3. CASE MergeMisses /\ Fail("EOpen", "Read")
    BY <1>2, <2>1, <2>3 DEF MergeMisses
  <2> QED BY <1>7, <2>2, <2>3 DEF PassContinuation, history
<1>8. ASSUME cursor # "dropped", Found PROVE WalkInv'
  <2>1. cursor = "header" /\ AtFile /\ ~Continuation /\ UNCHANGED <<fixed, place>> /\ D = Done
    BY <1>a, <1>8 DEF Found, LinkInv, CursorInv, InHeader
  <2>2. CASE HeaderFound /\ call = "next"
    BY <1>0, <2>1, <2>2, DoneStays DEF HeaderFound, wrapper, history
  <2>3. CASE HeaderFound /\ call # "next"
    <3>1. cursor' = "file" /\ at = "data" /\ yielded' = Append(yielded, Entry(fileHead))
      BY <2>1, <2>3 DEF HeaderFound, AtFile
    <3>2. ~Counted
      BY <2>1, <3>1 DEF Counted
    <3>3. Done' = UpToHere
      BY <2>1, <3>1, SameToShow DEF Done, UpToHere, Counted, Here, Precedes, place
    <3> QED BY <1>1, <1>a, <2>1, <3>1, <3>2, <3>3, FileToShow
  <2>4. CASE Fail(dllError, "Read")
    BY <1>2, <2>1, <2>4
  <2> QED BY <1>8, <2>2, <2>3, <2>4 DEF Found
<1>9. ASSUME cursor # "dropped", SkipFile PROVE WalkInv'
  <2>1. AtFile /\ UNCHANGED fixed /\ D = Done
        /\ cursor = IF call = "next" THEN "header" ELSE "file"
    BY <1>a, <1>9 DEF SkipFile, LinkInv, CursorInv, InProcess
  <2>2. CASE Processed /\ IF fileHead.after THEN MergeFinds ELSE SeekToNext
    <3>1. Done' = UpToHere
      BY <1>a, <2>1, <2>2, LeaveDone DEF AtFile
    <3>2. CASE call = "next"
      <4>1. ~Continuation /\ ~Counted /\ yielded' = Append(yielded, Entry(fileHead))
        BY <1>a, <1>9, <2>1, <2>2, <3>2 DEF SkipFile, LinkInv, Counted, AtFile, Processed
      <4> QED BY <1>1, <1>a, <2>1, <3>1, <4>1, FileToShow
    <3>3. CASE call # "next"
      <4>1. Counted /\ UNCHANGED yielded
        BY <2>1, <2>2, <3>3 DEF Counted, AtFile, Processed
      <4> QED BY <1>0, <2>1, <3>1, <4>1, NothingToShow
    <3> QED BY <3>2, <3>3
  <2>3. CASE MergeMisses /\ Fail("EOpen", "Process")
    <3>1. CASE call = "next"
      BY <1>2, <2>1, <2>3, <3>1 DEF MergeMisses
    <3>2. CASE call # "next"
      BY <1>0, <2>1, <2>3, <3>2 DEF Fail
    <3> QED BY <3>1, <3>2
  <2> QED BY <1>9, <2>2, <2>3 DEF SkipFile
<1>10. ASSUME cursor # "dropped", UNCHANGED <<fixed, place, cursor, yielded>>
       PROVE  WalkInv'
  BY <1>0, <1>10, DoneStays
<1> QED BY <1>3, <1>4, <1>5, <1>6, <1>7, <1>8, <1>9, <1>10, ListingSteps

(* Both invariants together, for any set laid out so.                      *)
LEMMA InStep ==
  ASSUME EndIsEnd, SplitIsLast
  PROVE  Spec => [](StuckInv /\ WalkInv)
<1>1. Init => StuckInv /\ WalkInv
  <2> SUFFICES ASSUME Init PROVE StuckInv /\ WalkInv
    OBVIOUS
  <2>1. TypeOK
    BY InitTypes
  <2>2. Done = {}
    <3> SUFFICES ASSUME NEW p \in ToShow PROVE ~Precedes(p, Here) /\ ~Counted
      BY DEF Done
    <3>1. p[1] \in opened .. Len(archive) /\ p[1] \in Nat /\ p[2] \in 1 .. Len(archive[p[1]])
      BY <2>1, PlaceType
    <3>2. opened \in Nat /\ vol = opened /\ cur = 1 /\ at = "start"
      BY <2>1, Position DEF Init
    <3> QED BY <3>1, <3>2 DEF Precedes, Here, Counted
  <2>3. LinedUp({})
    BY FS_EmptySet DEF LinedUp, Init
  <2> QED BY <2>2, <2>3 DEF Init, StuckInv, WalkInv
<1>2. Base /\ StuckInv /\ [Next]_vars => StuckInv'
  BY StuckNext
<1>3. Base /\ StuckInv /\ WalkInv /\ [Next]_vars => WalkInv'
  BY WalkNext
<1> QED BY BaseHolds, <1>1, <1>2, <1>3, PTL DEF Spec

(* read_header and skip, next: any listing of a set laid out by RAR shows  *)
(* its headers in order, each with its own flags, none twice.              *)
THEOREM ListedInOrder ==
  ASSUME EndIsEnd, SplitIsLast
  PROVE  Spec => []YieldedInOrder
<1>1. Base /\ WalkInv => YieldedInOrder
  BY AsExpected DEF Base, WalkInv, YieldedInOrder
<1> QED BY BaseHolds, InStep, <1>1, PTL

-----------------------------------------------------------------------------
(* The end of a listing is the end of the set.                             *)
LEMMA EndNext ==
  ASSUME EndIsEnd, VolumesLeadOn
  PROVE  Base /\ StuckInv /\ EndInv /\ [Next]_vars => EndInv'
<1> SUFFICES ASSUME Base, StuckInv, EndInv, [Next]_vars PROVE EndInv'
  OBVIOUS
<1>a. TypeOK /\ CursorInv /\ NextLists /\ LinkInv
  BY DEF Base, Inv
<1>b. /\ archive[vol] \in Seq(Block) /\ Len(archive[vol]) \in Nat
      /\ vol \in 1 .. Len(archive) /\ Len(archive) \in Nat
      /\ cur \in 1 .. Len(archive[vol]) + 1
      /\ Ahead \in cur .. cur + 1 /\ Ahead \in 1 .. Len(archive[vol]) + 1
      /\ at \in {"start", "data", "next"}
  BY <1>a, Position, Parts, Volumes DEF PlaceOK
<1> USE DEF fixed
<1>0. damaged' => failed'
  BY DEF EndInv, Next, Library, Search, SearchOn, SearchMisses, SearchEnds,
         PassContinuation, Found, HeaderFound, SkipFile, Processed, Unpack, UnpackOn,
         UnpackEnds, PassService, ProcessReturns, BatchTells, BatchReturns, Caller,
         ReadHeader, NextItem, BeginRead, NextWhenDamaged, ForceHeal, Process, ExtractAll,
         Fail, EndOfIteration, wrapper, history, vars
<1> SUFFICES ASSUME Listing, ~failed, ~failed'
             PROVE  IF result'.kind = "None" THEN Ended' ELSE cursor' # "dropped" => Clear'
  <2>1. UNCHANGED mode
    BY FixedStays
  <2>2. failed => failed'
    BY DEF Next, Library, Search, SearchOn, SearchMisses, SearchEnds,
         PassContinuation, Found, HeaderFound, SkipFile, Processed, Unpack, UnpackOn,
         UnpackEnds, PassService, ProcessReturns, BatchTells, BatchReturns, Caller,
         ReadHeader, NextItem, BeginRead, NextWhenDamaged, ForceHeal, Process, ExtractAll,
         Fail, EndOfIteration, wrapper, history, vars
  <2> QED BY <1>0, <2>1, <2>2 DEF EndInv, Listing
<1>c. ~damaged
  BY DEF EndInv
<1>d. ~Fail("EOpen", "Read") /\ ~Fail("EOpen", "Process") /\ ~Fail("BadData", "Read")
      /\ ~Fail(dllError, "Read")
  BY DEF Fail
<1>1. CASE result.kind = "None"
  <2>1. Ended
    BY <1>1 DEF EndInv
  <2>2. CASE Search
    <3>1. ASSUME NEW bad \in BOOLEAN, ReadsNothing(bad) PROVE Ended'
      BY <1>b, <2>1, <2>2, <3>1 DEF Search, ReadsNothing, Ended, Blocks
    <3>2. ASSUME NEW b, ReadsBlock(b), at' = IF b.type = "other" THEN "next" ELSE "data"
          PROVE  Ended'
      BY <1>b, <2>1, <2>2, <3>2 DEF Search, ReadsBlock, Ended, Blocks
    <3>3. UNCHANGED result
      BY <2>2 DEF Search, wrapper
    <3> QED BY <1>1, <2>2, <3>1, <3>2, <3>3 DEF Search
  <2>3. CASE SearchOn \/ SearchMisses
    <3>1. ~MergeFinds
      <4>1. present \in 1 .. Len(archive)
        BY <1>a, Parts DEF FixedOK
      <4>2. ~(vol < present)
        BY <1>b, <2>1, <4>1 DEF Ended
      <4> QED BY <4>2 DEF MergeFinds
    <3> QED BY <1>d, <2>3, <3>1 DEF SearchOn, SearchMisses
  <2>4. CASE SearchEnds
    BY <1>d, <2>1, <2>4 DEF SearchEnds, EndOfIteration, Ended, Blocks, Result, place
  <2>5. CASE PassContinuation \/ Found \/ SkipFile
    <3>1. AtFile
      BY <1>a, <2>5 DEF PassContinuation, Found, SkipFile, LinkInv
    <3> QED BY <1>b, <2>1, <3>1 DEF Ended, AtFile, Blocks
  <2>6. CASE UNCHANGED <<fixed, place, result>>
    BY <1>1, <2>1, <2>6 DEF Ended, Blocks, place
  <2> QED BY <1>c, <2>2, <2>3, <2>4, <2>5, <2>6, ListingSteps
<1>2. CASE result.kind # "None" /\ cursor = "dropped"
  <2>1. pc = "idle"
    BY <1>2 DEF StuckInv
  <2>2. UNCHANGED vars
    BY <1>2, <2>1
       DEF Next, Library, Search, SearchOn, SearchMisses, SearchEnds, PassContinuation,
           Found, SkipFile, Unpack, UnpackOn, UnpackEnds, PassService, ProcessReturns,
           BatchTells, BatchReturns, Caller, ReadHeader, NextItem, BeginRead,
           NextWhenDamaged, ForceHeal, Process, ExtractAll, vars
  <2> QED BY <1>2, <2>2 DEF vars, wrapper
<1>3. CASE result.kind # "None" /\ cursor # "dropped"
  <2>1. Clear
    BY <1>3 DEF EndInv
  <2>2. CASE Search
    <3>1. cursor = "header" /\ ~Astray /\ UNCHANGED <<archive, cursor, result>>
      BY <1>a, <2>1, <2>2 DEF Search, CursorInv, InHeader, Clear, Astray, wrapper
    <3>2. \A j \in 1 .. Len(Blocks) : j < Ahead =>
            Blocks[j].type \notin {"endarc", "corrupt"} /\ ~LeadsOn(Blocks[j])
      <4>1. at # "data"
        BY <1>a, <2>1, <2>2 DEF Search, CursorInv, InHeader, Clear
      <4> QED BY <1>b, <2>1, <4>1 DEF Clear, Ahead, Blocks
    <3>3. ASSUME NEW bad \in BOOLEAN, ReadsNothing(bad), pc' = "noheader" PROVE Clear'
      <4>1. /\ cur' = Ahead /\ at' = "data" /\ UNCHANGED Blocks
            /\ Ahead > Len(Blocks) \/ bad
        BY <3>1, <3>3 DEF ReadsNothing, Blocks
      <4>2. cur' > Len(Blocks) \/ broken'
        BY <3>3, <4>1 DEF ReadsNothing
      <4>3. \A j \in 1 .. Len(Blocks') : j < cur' =>
              Blocks'[j].type \notin {"endarc", "corrupt"} /\ ~LeadsOn(Blocks'[j])
        BY <3>2, <4>1
      <4> QED BY <3>3, <4>1, <4>2, <4>3 DEF Clear, LeadsOn
    <3>4. ASSUME NEW b \in {Blocks[i] : i \in 1 .. Len(Blocks)}, ReadsBlock(b),
                 at' = IF b.type = "other" THEN "next" ELSE "data",
                 pc' = CASE b.type = "file" -> "found"
                         [] b.type = "endarc" -> "noheader"
                         [] OTHER -> "search"
          PROVE  Clear'
      <4>1. /\ cur' = Ahead /\ UNCHANGED Blocks /\ b = Blocks[Ahead] /\ header' = b
            /\ b.type \in {"file", "other", "endarc"}
        <5>1. b \in Block
          BY <1>b DEF Blocks
        <5> QED BY <3>1, <3>4, <5>1 DEF ReadsBlock, Blocks, Block, BlockTypes
      <4>2. \A j \in 1 .. Len(Blocks') : j < cur' \/ (j = cur' /\ at' = "next") =>
              Blocks'[j].type \notin {"endarc", "corrupt"} /\ ~LeadsOn(Blocks'[j])
        BY <3>2, <3>4, <4>1 DEF LeadsOn
      <4>3. pc' \in {"idle", "search"} => at' # "data"
        BY <3>4, <4>1
      <4>4. pc' = "noheader" => header' # NoBlock
        BY <3>4, <4>1 DEF NoBlock
      <4> QED BY <4>2, <4>3, <4>4 DEF Clear, LeadsOn
    <3> QED BY <1>3, <2>2, <3>1, <3>3, <3>4 DEF Search
  <2>a. ASSUME MergeFinds, pc' # "noheader" PROVE Clear'
    <3>1. UNCHANGED archive
      BY FixedStays
    <3>2. /\ at' = "start" /\ cur' \in Nat
          /\ \A j \in 1 .. Len(Blocks') : j < cur' =>
               Blocks'[j].type \notin {"file", "endarc", "corrupt"}
      BY <1>a, <2>a, <3>1, Landed
    <3> QED BY <2>a, <3>2 DEF Clear, LeadsOn
  <2>b. ASSUME SeekToNext, AtFile, ~fileHead.after, pc' # "noheader" PROVE Clear'
    <3>1. UNCHANGED <<Blocks, cur>> /\ at' = "next" /\ ~LeadsOn(Blocks[cur])
          /\ Blocks[cur].type = "file"
      BY <2>b, FixedStays DEF SeekToNext, Blocks, AtFile, LeadsOn
    <3> QED BY <1>b, <2>1, <2>b, <3>1 DEF Clear, LeadsOn, Blocks
  <2>3. CASE SearchOn
    BY <1>3, <2>3, <2>a DEF SearchOn, wrapper
  <2>4. CASE SearchMisses
    BY <1>d, <2>4 DEF SearchMisses
  <2>5. CASE SearchEnds
    <3>1. ~broken /\ EndOfIteration /\ AtEnd /\ ~Promised /\ UNCHANGED <<archive, place>>
      BY <1>a, <1>d, <2>5 DEF SearchEnds, LinkInv
    <3>2. Ended
      <4>1. CASE cur <= Len(Blocks)
        <5>1. Blocks[cur].type = "endarc" /\ ~Blocks[cur].next /\ cur \in 1 .. Len(Blocks)
          BY <1>b, <2>1, <2>5, <3>1, <4>1
             DEF AtEnd, Clear, Promised, SearchEnds, Blocks
        <5>2. vol = Len(archive)
          <6>1. archive \in Archives
            BY <1>a DEF TypeOK
          <6>2. vol \in 1 .. Len(archive) - 1 => Blocks[cur].next
            BY <5>1, <6>1 DEF VolumesLeadOn, Blocks
          <6> QED BY <1>b, <5>1, <6>2
        <5>3. \A j \in 1 .. Len(Blocks) : j > cur => Blocks[j].type \notin {"file", "endarc"}
          BY <1>a, <5>1, OpenVolume
        <5> QED BY <1>b, <3>1, <5>1, <5>2, <5>3 DEF Ended, AtEnd, Blocks
      <4>2. CASE cur > Len(Blocks)
        <5>1. archive \in Archives
          BY <1>a DEF TypeOK
        <5>2. vol \in 1 .. Len(archive) - 1 =>
                \E i \in 1 .. Len(Blocks) : LeadsOn(Blocks[i])
          BY <5>1 DEF VolumesLeadOn, Blocks
        <5>3. \A i \in 1 .. Len(Blocks) : ~LeadsOn(Blocks[i])
          BY <1>b, <2>1, <4>2 DEF Clear, Blocks
        <5> QED BY <1>b, <3>1, <4>2, <5>2, <5>3 DEF Ended, AtEnd, Blocks
      <4> QED BY <1>b, <4>1, <4>2 DEF Blocks
    <3> QED BY <3>1, <3>2 DEF EndOfIteration, Ended, Blocks, Result, place
  <2>6. CASE PassContinuation
    BY <1>a, <1>3, <1>d, <2>6, <2>a, <2>b DEF PassContinuation, LinkInv, wrapper
  <2>7. CASE Found
    <3>1. UNCHANGED <<archive, place>> /\ HeaderFound /\ cursor = "header"
      BY <1>a, <1>d, <2>7 DEF Found, CursorInv, InHeader
    <3>2. pc' = "process" \/ (cursor' = "file" /\ pc' = "idle")
      BY <3>1 DEF HeaderFound
    <3>3. result'.kind # "None"
      BY <1>3, <3>1 DEF HeaderFound, Result, wrapper
    <3> QED BY <2>1, <3>1, <3>2, <3>3 DEF Clear, Blocks, place, LeadsOn
  <2>8. CASE SkipFile
    <3>1. AtFile /\ Processed /\ IF fileHead.after THEN MergeFinds ELSE SeekToNext
      BY <1>a, <1>d, <2>8 DEF SkipFile, LinkInv
    <3>2. result'.kind # "None" /\ pc' = "idle"
      BY <3>1 DEF Processed, Result
    <3> QED BY <2>a, <2>b, <3>1, <3>2
  <2>9. CASE /\ UNCHANGED <<fixed, place, cursor, result>>
             /\ \/ pc' = pc
                \/ pc = "idle" /\ cursor = "header" /\ pc' = "search"
                \/ pc' = "process"
    BY <1>3, <2>1, <2>9 DEF Clear, Blocks, place, LeadsOn
  <2> QED
    BY <1>c, <2>2, <2>3, <2>4, <2>5, <2>6, <2>7, <2>8, <2>9, ListingSteps
<1> QED BY <1>1, <1>2, <1>3

(* Nothing is left to show after the end.                                  *)
LEMMA EndedIsDone == TypeOK /\ Ended => Done = ToShow
<1> SUFFICES ASSUME TypeOK, Ended, NEW p \in ToShow PROVE Precedes(p, Here)
  BY DEF Done
<1>1. /\ p[1] \in opened .. Len(archive) /\ p[1] \in Nat
      /\ p[2] \in 1 .. Len(archive[p[1]]) /\ p[2] \in Nat
      /\ archive[p[1]][p[2]].type = "file"
  BY PlaceType
<1>2. vol = Len(archive) /\ vol \in Nat /\ cur \in Nat
  BY Position DEF Ended
<1>3. p[1] = vol => p[2] < cur
  BY <1>1, <1>2 DEF Ended, Blocks
<1>4. opened \in Nat
  BY Parts, <1>2 DEF FixedOK
<1> QED BY <1>1, <1>2, <1>3, <1>4 DEF Precedes, Here

(* The end of read_header or next, reached without an error, is the end of *)
(* the set: nothing missing or unreadable was taken for it.                *)
THEOREM EndIsAll ==
  ASSUME EndIsEnd, SplitIsLast, VolumesLeadOn
  PROVE  Spec => []EndMeansAll
<1>1. Init => EndInv
  <2> SUFFICES ASSUME Init PROVE EndInv
    OBVIOUS
  <2>1. Len(Blocks) \in Nat
    BY InitTypes, Position DEF Blocks
  <2> QED BY <2>1 DEF Init, EndInv, Clear, Result
<1>2. Base /\ StuckInv /\ EndInv /\ [Next]_vars => EndInv'
  BY EndNext
<1>3. Base /\ WalkInv /\ EndInv => EndMeansAll
  <2> SUFFICES ASSUME Base, WalkInv, EndInv, Listing, ~failed, result.kind = "None"
               PROVE  yielded = Expected
    BY DEF EndMeansAll
  <2>1. TypeOK /\ Done = ToShow
    BY EndedIsDone DEF Base, EndInv
  <2>2. LinedUp(ToShow)
    BY <2>1 DEF WalkInv
  <2> QED BY <2>1, <2>2, AsExpected
<1> QED BY BaseHolds, InStep, <1>1, <1>2, <1>3, PTL DEF Spec

-----------------------------------------------------------------------------
(* The first volume can be read from its start.                            *)

(* What the scan of the opening looks at, up to the first file.            *)
LEMMA ScanSees ==
  ASSUME NEW blocks \in Seq(Block), NEW flag, NEW i \in 1 .. Len(blocks),
         blocks[i].type = "file", \A j \in 1 .. i - 1 : blocks[j].type = "other"
  PROVE  IsFirstVolume(blocks, flag) = ~blocks[i].before
<1> DEFINE read == {k \in 1 .. Len(blocks) : \A j \in 1 .. k - 1 : blocks[j].type = "other"}
           seen == {k \in read : blocks[k].type \in {"other", "file"}}
<1>1. i \in Nat /\ i \in Int /\ 1 \in Int /\ Len(blocks) \in Nat /\ ~(1 > i)
  OBVIOUS
<1>2. \A k \in 1 .. Len(blocks) : k \in seen <=> k <= i
  <2>1. ASSUME NEW k \in 1 .. Len(blocks), k <= i PROVE k \in seen
    BY <1>1, <2>1
  <2>2. ASSUME NEW k \in 1 .. Len(blocks), k > i PROVE k \notin seen
    BY <1>1, <2>2
  <2> QED BY <1>1, <2>1, <2>2
<1>3. seen = 1 .. i
  BY <1>1, <1>2
<1>4. Cardinality(seen) = i /\ seen # {}
  <2>1. Cardinality(1 .. i) = i - 1 + 1
    BY <1>1, FS_Interval
  <2>2. i - 1 + 1 = i /\ 1 \in 1 .. i
    BY <1>1
  <2> HIDE DEF seen
  <2> QED BY <1>3, <2>1, <2>2
<1> HIDE DEF seen
<1>5. IsFirstVolume(blocks, flag) =
        IF seen = {} THEN flag ELSE ~blocks[Cardinality(seen)].before
  BY DEF IsFirstVolume, seen
<1> QED BY <1>4, <1>5

(* A handle that was just opened has passed no file.                       *)
LEMMA InitFirst == RestFollows /\ Init => FirstInv
<1> SUFFICES ASSUME RestFollows, Init PROVE FirstInv
  OBVIOUS
<1>a. TypeOK
  BY InitTypes
<1>b. archive \in Archives /\ opened \in 1 .. Len(archive) /\ archive[opened] \in Seq(Block)
  <2>1. FixedOK /\ vol = opened
    BY <1>a, Parts DEF Init
  <2> QED BY <1>a, <2>1, Position DEF FixedOK
<1>1. OpensReadable
  <2> SUFFICES ASSUME info = "First", NEW i \in 1 .. Len(archive[opened]),
                      archive[opened][i].type = "file",
                      \A j \in 1 .. i - 1 : archive[opened][j].type = "other",
                      archive[opened][i].before
               PROVE  FALSE
    BY DEF OpensReadable
  <2>1. PICK f \in Formats : info = VolumeInfo(archive, opened, f)
    BY DEF Init
  <2>2. opened > 1
    BY <1>b DEF RestFollows
  <2>3. IsFirstVolume(archive[opened], f # "unnumbered" /\ opened = 1) = FALSE
    BY <1>b, ScanSees
  <2> QED BY <2>1, <2>2, <2>3 DEF VolumeInfo
<1>2. NoFilePassed
  <2>1. Len(Blocks) \in Nat /\ vol \in Nat
    BY <1>a, Position DEF Blocks
  <2> QED BY <2>1 DEF Init, NoFilePassed
<1> QED BY <1>1, <1>2 DEF Init, FirstInv, FirstIsReadable

(* A file that becomes the first entry is not the rest of one.             *)
LEMMA FirstEntry ==
  ASSUME EndIsEnd, RestFollows, TypeOK, AtFile, ~Continuation, OpensReadable, info = "First",
         mode # "List" => NoFilePassed
  PROVE  ~fileHead.before
<1>b. /\ archive \in Archives /\ vol \in 1 .. Len(archive) /\ vol \in opened .. Len(archive)
      /\ cur \in 1 .. Len(Blocks) /\ Len(Blocks) \in Nat /\ opened \in Nat
  <2>1. FixedOK /\ PlaceOK
    BY Parts
  <2>2. cur \in 1 .. Len(Blocks) /\ Len(Blocks) \in Nat /\ vol \in 1 .. Len(archive)
    BY Position DEF AtFile, Blocks
  <2> QED BY <2>1, <2>2, Volumes DEF FixedOK, PlaceOK
<1>1. CASE mode = "List"
  BY <1>1 DEF Continuation
<1>2. CASE mode # "List" /\ vol = opened
  <2>1. ASSUME NEW j \in 1 .. cur - 1 PROVE Blocks[j].type = "other"
    <3>1. j \in 1 .. Len(Blocks) /\ j < cur
      BY <1>b
    <3>2. Blocks[j].type \in {"other", "endarc"}
      BY <1>2, <3>1 DEF NoFilePassed
    <3>3. Blocks[j].type # "endarc"
      BY <1>b, <3>1, OpenVolume DEF AtFile
    <3> QED BY <3>2, <3>3
  <2> QED BY <1>b, <1>2, <2>1 DEF OpensReadable, AtFile, Blocks
<1>3. CASE mode # "List" /\ vol # opened
  <2>1. \A j \in 1 .. Len(archive[vol - 1]) : archive[vol - 1][j].type # "file"
    BY <1>b, <1>3 DEF NoFilePassed
  <2> QED BY <1>b, <2>1 DEF RestFollows, AtFile, Blocks
<1> QED BY <1>1, <1>2, <1>3

(* A read passes no file.                                                  *)
LEMMA ReadPassesNoFile ==
  ASSUME TypeOK, NoFilePassed, Search
  PROVE  NoFilePassed'
<1>b. /\ archive[vol] \in Seq(Block) /\ Len(archive[vol]) \in Nat
      /\ cur \in 1 .. Len(archive[vol]) + 1
      /\ Ahead \in cur .. cur + 1 /\ at \in {"start", "data", "next"}
  BY Position, Parts DEF PlaceOK
<1>1. UNCHANGED <<archive, opened>>
  BY DEF Search, fixed
<1>2. CASE Astray /\ UNCHANGED <<vol, cur, at>>
  BY <1>1, <1>2 DEF NoFilePassed, Blocks
<1>3. CASE /\ ~Astray /\ UNCHANGED vol /\ cur' = Ahead
           /\ at' = "data" \/ (Ahead <= Len(Blocks) /\ Blocks[Ahead].type = "other")
  <2>1. UNCHANGED Blocks
    BY <1>1, <1>3 DEF Blocks
  <2>2. ASSUME NEW j \in 1 .. Len(Blocks), j < Ahead
        PROVE  Blocks[j].type \in {"other", "endarc"}
    <3>1. CASE j < cur \/ (j = cur /\ at = "next")
      BY <3>1 DEF NoFilePassed
    <3>2. CASE j = cur /\ at = "data"
      <4>1. Blocks[cur] \in Block /\ Blocks[cur].type \notin {"file", "corrupt"}
        BY <1>b, <1>3, <3>2 DEF Astray, Blocks
      <4> QED BY <3>2, <4>1 DEF Block, BlockTypes
    <3> QED BY <1>b, <2>2, <3>1, <3>2 DEF Ahead, Blocks
  <2> QED BY <1>1, <1>3, <2>1, <2>2 DEF NoFilePassed
<1>4. ASSUME NEW bad \in BOOLEAN, ReadsNothing(bad) PROVE NoFilePassed'
  BY <1>2, <1>3, <1>4 DEF ReadsNothing, Astray
<1>5. ASSUME NEW b, ReadsBlock(b), at' = IF b.type = "other" THEN "next" ELSE "data"
      PROVE  NoFilePassed'
  BY <1>3, <1>5 DEF ReadsBlock
<1> QED BY <1>4, <1>5 DEF Search

(* A volume that is left by its end record has no file at all.             *)
LEMMA LeavePassesNoFile ==
  ASSUME EndIsEnd, TypeOK, NoFilePassed, UNCHANGED fixed, MergeFinds, AtEnd, Promised
  PROVE  NoFilePassed'
<1>1. /\ vol' = vol + 1 /\ vol \in Nat /\ at' = "start" /\ cur' \in Nat
      /\ \A j \in 1 .. Len(Blocks') : j < cur' =>
           Blocks'[j].type \notin {"file", "endarc", "corrupt"}
  BY Landed, Position DEF fixed
<1>2. \A j \in 1 .. Len(Blocks') : Blocks'[j] \in Block
  BY Landed, Volumes, Parts DEF Blocks, fixed
<1>3. cur \in 1 .. Len(Blocks) /\ Blocks[cur].type = "endarc" /\ cur <= Len(Blocks)
  BY Position DEF AtEnd, Promised, NoBlock, Blocks
<1>4. \A j \in 1 .. Len(Blocks) : j > cur => Blocks[j].type # "file"
  BY <1>3, OpenVolume
<1>5. \A j \in 1 .. Len(Blocks) : Blocks[j].type # "file"
  BY <1>3, <1>4 DEF NoFilePassed
<1>6. archive'[vol' - 1] = Blocks
  BY <1>1 DEF fixed, Blocks
<1> QED BY <1>1, <1>2, <1>5, <1>6 DEF NoFilePassed, Block, BlockTypes

(* No step passes a file before the first entry.                           *)
LEMMA FirstNext ==
  ASSUME EndIsEnd, RestFollows
  PROVE  Base /\ StuckInv /\ FirstInv /\ [Next]_vars => FirstInv'
<1> SUFFICES ASSUME Base, StuckInv, FirstInv, [Next]_vars PROVE FirstInv'
  OBVIOUS
<1>a. TypeOK /\ CursorInv /\ NextLists /\ LinkInv
  BY DEF Base, Inv
<1>b. yielded \in Seq(Entries)
  BY <1>a DEF TypeOK
<1>c. UNCHANGED fixed
  BY FixedStays
<1>d. OpensReadable' /\ UNCHANGED <<info, mode, opened>>
  BY <1>c DEF FirstInv, OpensReadable, fixed
(* A step that adds no entry.                                              *)
<1>1. ASSUME UNCHANGED yielded,
             pc' \in {"unpack", "services"} \/ cursor' = "file" => yielded # <<>>,
             yielded = <<>> /\ mode # "List" /\ ~failed /\ ~failed' => NoFilePassed',
             failed => failed'
      PROVE  FirstInv'
  BY <1>1, <1>d DEF FirstInv, FirstIsReadable
(* A step that adds one.                                                   *)
<1>2. ASSUME yielded' = Append(yielded, Entry(fileHead)), AtFile, ~Continuation, ~failed
      PROVE  FirstInv'
  <2>1. yielded' # <<>> /\ (yielded # <<>> => yielded'[1] = yielded[1])
        /\ (yielded = <<>> => yielded'[1] = Entry(fileHead))
    BY <1>b, <1>2
  <2>2. info = "First" /\ yielded = <<>> => ~fileHead.before
    BY <1>a, <1>2, FirstEntry DEF FirstInv
  <2>3. FirstIsReadable'
    BY <1>d, <2>1, <2>2 DEF FirstInv, FirstIsReadable, Entry
  <2> QED BY <1>d, <2>1, <2>3 DEF FirstInv
<1>3. CASE Search
  <2>1. UNCHANGED <<yielded, failed, cursor>> /\ pc' \notin {"unpack", "services"}
    BY <1>3 DEF Search, wrapper, history
  <2> QED BY <1>1, <1>3, <1>a, <2>1, ReadPassesNoFile DEF FirstInv
<1>4. CASE SearchOn
  <2>1. UNCHANGED <<yielded, failed, cursor>> /\ pc' \notin {"unpack", "services"}
        /\ AtEnd /\ MergeFinds /\ Promised
    BY <1>4, <1>a DEF SearchOn, wrapper, history, LinkInv
  <2> QED BY <1>1, <1>a, <1>c, <2>1, LeavePassesNoFile DEF FirstInv
<1>5. CASE PassContinuation
  <2>1. mode = "List" /\ UNCHANGED yielded /\ pc' \notin {"unpack", "services"}
        /\ cursor' \in {cursor, "dropped"} /\ (failed => failed')
    BY <1>5 DEF PassContinuation, Continuation, Fail, wrapper, history
  <2> QED BY <1>1, <2>1 DEF FirstInv
<1>6. CASE Found
  <2>1. AtFile /\ ~Continuation /\ ~failed /\ UNCHANGED place
    BY <1>6, <1>a DEF Found, LinkInv, StuckInv, CursorInv, InHeader
  <2>2. CASE call # "next" /\ HeaderFound
    BY <1>2, <2>1, <2>2 DEF HeaderFound
  <2>3. CASE ~(call # "next" /\ HeaderFound)
    <3>1. UNCHANGED yielded /\ pc' \notin {"unpack", "services"}
          /\ cursor' \in {cursor, "dropped"}
      BY <1>6, <2>3 DEF Found, HeaderFound, Fail, wrapper, history
    <3>2. NoFilePassed => NoFilePassed'
      BY <1>c, <2>1 DEF NoFilePassed, Blocks, place, fixed
    <3> QED BY <1>1, <2>1, <3>1, <3>2 DEF FirstInv
  <2> QED BY <2>2, <2>3
<1>7. CASE SkipFile
  <2>1. AtFile /\ ~failed /\ pc' = "idle"
        /\ cursor = IF call = "next" THEN "header" ELSE "file"
    BY <1>7, <1>a
       DEF SkipFile, Processed, Fail, LinkInv, StuckInv, CursorInv, InProcess
  <2>2. CASE Processed /\ call = "next"
    BY <1>2, <1>7, <1>a, <2>1, <2>2 DEF SkipFile, Processed, LinkInv
  <2>3. CASE Processed /\ call # "next"
    BY <1>1, <2>1, <2>3 DEF Processed, FirstInv
  <2>4. CASE Fail("EOpen", "Process")
    BY <1>1, <2>1, <2>4 DEF Fail, FirstInv
  <2> QED BY <1>7, <2>2, <2>3, <2>4 DEF SkipFile
<1>8. CASE \/ Unpack \/ UnpackOn \/ PassService \/ ProcessReturns
           \/ \E code \in {"Success", "BadData"} : UnpackEnds(code)
  <2>1. yielded # <<>> /\ call # "next"
    <3>1. CASE Unpack
      <4>1. call # "next" /\ cursor = "file"
        BY <1>a, <3>1 DEF Unpack, Seeking, NextLists, CursorInv, InProcess
      <4> QED BY <4>1 DEF FirstInv
    <3>2. CASE pc \in {"unpack", "services"}
      BY <1>a, <3>2 DEF FirstInv, LinkInv, CursorInv, NextLists
    <3> QED BY <1>8, <3>1, <3>2 DEF UnpackOn, UnpackEnds, PassService, ProcessReturns
  <2>2. UNCHANGED yielded /\ (failed => failed')
    BY <1>8, <2>1
       DEF Unpack, UnpackOn, UnpackEnds, PassService, ProcessReturns, Processed, Fail,
           history
  <2> QED BY <1>1, <2>1, <2>2
<1>9. CASE UNCHANGED <<place, yielded, failed>> /\ pc' \notin {"unpack", "services"}
           /\ cursor' \in {cursor, "dropped", "header"}
  <2>1. NoFilePassed => NoFilePassed'
    BY <1>9, <1>c DEF NoFilePassed, Blocks, place, fixed
  <2> QED BY <1>1, <1>9, <2>1 DEF FirstInv
<1>10. CASE SearchMisses \/ SearchEnds
  <2>1. UNCHANGED <<place, yielded>> /\ pc' = "idle" /\ cursor' \in {cursor, "dropped"}
        /\ (failed' = failed \/ failed')
    BY <1>10 DEF SearchMisses, SearchEnds, MergeMisses, Fail, EndOfIteration, history
  <2>2. CASE failed' = failed
    BY <1>9, <2>1, <2>2
  <2>3. CASE failed'
    BY <1>1, <2>1, <2>3 DEF FirstInv
  <2> QED BY <2>1, <2>2, <2>3
<1>11. CASE BatchReturns \/ (\E msg \in Messages : BatchTells(msg)) \/ Caller
  BY <1>9, <1>11
     DEF BatchReturns, BatchTells, Caller, ReadHeader, NextItem, BeginRead,
         NextWhenDamaged, ForceHeal, Process, ExtractAll, wrapper, history
<1>12. CASE UNCHANGED vars
  <2>1. UNCHANGED <<place, yielded, failed, pc, cursor>>
    BY <1>12 DEF vars, wrapper, history
  <2>2. NoFilePassed => NoFilePassed'
    BY <2>1, <1>c DEF NoFilePassed, Blocks, place, fixed
  <2> QED BY <1>1, <2>1, <2>2 DEF FirstInv
<1> QED
  BY <1>3, <1>4, <1>5, <1>6, <1>7, <1>8, <1>10, <1>11, <1>12 DEF Next, Library

(* A volume that volume_info calls the first begins with an entry that is  *)
(* not the rest of a file.                                                 *)
THEOREM FirstReadable ==
  ASSUME EndIsEnd, RestFollows
  PROVE  Spec => []FirstIsReadable
<1>1. Init => StuckInv /\ FirstInv
  BY InitFirst DEF Init, StuckInv
<1>2. Base /\ StuckInv /\ [Next]_vars => StuckInv'
  BY StuckNext
<1>3. Base /\ StuckInv /\ FirstInv /\ [Next]_vars => FirstInv'
  BY FirstNext
<1>4. FirstInv => FirstIsReadable
  BY DEF FirstInv
<1> QED BY BaseHolds, <1>1, <1>2, <1>3, <1>4, PTL DEF Spec
=============================================================================
