------------------------- MODULE OpenArchive_proofs -------------------------
(***************************************************************************)
(* Proofs about OpenArchive, for any volume sets, modes and number of      *)
(* heals: who is called back, what a fresh handle hands to a batch, that a *)
(* truncated file is no success, and the types.                            *)
(***************************************************************************)
EXTENDS OpenArchive, WellFoundedInduction, TLAPS

InHeader == {"search", "noheader", "found"}
InProcess == {"process", "unpack", "services"}

(* The iterator exists in the listing modes only.                          *)
NextLists == call = "next" => Listing

(* The cursor stays as the caller left it until the call ends.             *)
CursorInv ==
  /\ pc \in InHeader => cursor = "header"
  /\ pc \in InProcess => cursor = IF call = "next" THEN "header" ELSE "file"
  /\ pc \in {"unpack", "batch"} => ~Listing

(* A handle on which no entry was processed has been read from at most     *)
(* once, and neither has a destination nor, in front of a header, a        *)
(* callback.                                                               *)
FreshInv ==
  /\ pc \in InProcess /\ ~Listing => passed # {}
  /\ passed = {} /\ ~Listing =>
       /\ destName = FALSE
       /\ pc = "idle" /\ cursor = "header" => slot = "none"
       /\ pc = "batch" => slot \in {"none", "extract_all_with_callback"}

(* A file that was truncated leaves EOpen behind, and then an error and no *)
(* handle.                                                                 *)
PartInv ==
  /\ cursor = "file" => result.when = "Read"
  /\ Listing => effect = "none"
  /\ effect = "part" =>
       \/ pc = "services" /\ dllError = "EOpen"
       \/ pc = "idle" /\ cursor = "dropped" /\ result.kind = "Err"

Inv ==
  NextLists /\ CursorInv /\ CallbackIsLive /\ FreshInv /\ FreshHandleIsClean /\ PartInv

-----------------------------------------------------------------------------
(* The first state: a handle that was just opened.                         *)
LEMMA InitInv == Init => Inv
  BY DEF Init, Inv, NextLists, CursorInv, CallbackIsLive, FreshInv, FreshHandleIsClean,
         PartInv, InHeader, InProcess, Listing, Result

(* A step that leaves all variables as they are.                           *)
LEMMA StutterInv == Inv /\ UNCHANGED vars => Inv'
  BY DEF vars, fixed, place, library, wrapper, history, Inv, NextLists, CursorInv,
         CallbackIsLive, FreshInv, FreshHandleIsClean, PartInv, InHeader, InProcess,
         Listing, Operation

(* What the library does while it looks for a header.                      *)
LEMMA HeaderKeeps ==
  ASSUME Inv,
         \/ Search
         \/ SearchOn
         \/ SearchMisses
         \/ SearchEnds
         \/ PassContinuation
         \/ Found
  PROVE  Inv'
<1> USE DEF Inv, NextLists, CursorInv, CallbackIsLive, FreshInv, FreshHandleIsClean,
            PartInv, InHeader, InProcess, Listing, Operation, Result, fixed, library,
            wrapper, history
<1>1. CASE Search
  BY <1>1 DEF Search
<1>2. CASE SearchOn
  BY <1>2 DEF SearchOn
<1>3. CASE SearchMisses
  BY <1>3 DEF SearchMisses, Fail, MergeMisses
<1>4. CASE SearchEnds
  BY <1>4 DEF SearchEnds, Fail, EndOfIteration
<1>5. CASE PassContinuation
  BY <1>5 DEF PassContinuation, Fail, MergeMisses
<1>6. CASE Found
  <2>1. CASE HeaderFound
    <3>1. CASE call = "next"
      BY <1>6, <2>1, <3>1 DEF Found, HeaderFound
    <3>2. CASE call # "next"
      <4>1. /\ pc = "found" /\ pc' = "idle" /\ cursor' = "file"
            /\ result' = Result("Some", "Success", "Read")
            /\ UNCHANGED <<mode, destName, call, passed, effect, told>>
        BY <1>6, <2>1, <3>2 DEF Found, HeaderFound
      <4>2. PartInv' /\ NextLists' /\ CursorInv' /\ CallbackIsLive'
        BY <3>2, <4>1
      <4>3. FreshInv' /\ FreshHandleIsClean'
        BY <4>1
      <4> QED BY <4>2, <4>3
    <3> QED BY <3>1, <3>2
  <2>2. CASE Fail(dllError, "Read") /\ UNCHANGED slot
    BY <1>6, <2>2 DEF Found, Fail
  <2> QED BY <1>6, <2>1, <2>2 DEF Found
<1> HIDE DEF Inv
<1> QED BY <1>1, <1>2, <1>3, <1>4, <1>5, <1>6

(* What the library does with a file.                                      *)
LEMMA ProcessKeeps ==
  ASSUME Inv,
         \/ SkipFile
         \/ Unpack
         \/ UnpackOn
         \/ \E code \in {"Success", "BadData"} : UnpackEnds(code)
         \/ PassService
         \/ ProcessReturns
  PROVE  Inv'
<1> USE DEF Inv, NextLists, CursorInv, CallbackIsLive, FreshInv, FreshHandleIsClean,
            PartInv, InHeader, InProcess, Listing, Operation, Result, fixed, library,
            wrapper, history
<1>1. CASE SkipFile
  BY <1>1 DEF SkipFile, Processed, Fail, MergeMisses, Seeking
<1>2. CASE Unpack
  BY <1>2 DEF Unpack, Seeking
<1>3. CASE UnpackOn
  BY <1>3 DEF UnpackOn
<1>4. ASSUME NEW code \in {"Success", "BadData"}, UnpackEnds(code) PROVE Inv'
  BY <1>4 DEF UnpackEnds
<1>5. CASE PassService
  BY <1>5 DEF PassService
<1>6. CASE ProcessReturns
  <2>1. CASE Processed /\ dllError = "Success"
    BY <1>6, <2>1 DEF ProcessReturns, Processed
  <2>2. CASE Fail(dllError, "Process")
    BY <1>6, <2>2 DEF ProcessReturns, Fail
  <2> QED BY <1>6, <2>1, <2>2 DEF ProcessReturns
<1> HIDE DEF Inv
<1> QED BY <1>1, <1>2, <1>3, <1>4, <1>5, <1>6

(* What the library does in a batch.                                       *)
LEMMA BatchKeeps ==
  ASSUME Inv,
         \/ \E msg \in Messages : BatchTells(msg)
         \/ BatchReturns
  PROVE  Inv'
<1> USE DEF Inv, NextLists, CursorInv, CallbackIsLive, FreshInv, FreshHandleIsClean,
            PartInv, InHeader, InProcess, Listing, Operation, Result, fixed, library,
            wrapper, history
<1>1. ASSUME NEW msg \in Messages, BatchTells(msg) PROVE Inv'
  BY <1>1 DEF BatchTells, Stores
<1>2. CASE BatchReturns
  BY <1>2 DEF BatchReturns
<1> HIDE DEF Inv
<1> QED BY <1>1, <1>2

(* What the caller does.                                                   *)
LEMMA CallerKeeps ==
  ASSUME Inv,
         \/ ReadHeader
         \/ NextItem
         \/ NextWhenDamaged
         \/ ForceHeal
         \/ \E c \in {"skip", "read", "test", "extract", "extract_to"} : Process(c)
         \/ \E c \in {"extract_all", "extract_all_with_callback"} : ExtractAll(c)
  PROVE  Inv'
<1> USE DEF Inv, NextLists, CursorInv, CallbackIsLive, FreshInv, FreshHandleIsClean,
            PartInv, InHeader, InProcess, Listing, Operation, Result, fixed, library,
            wrapper, history
<1>1. CASE ReadHeader
  BY <1>1 DEF ReadHeader, BeginRead
<1>2. CASE NextItem
  BY <1>2 DEF NextItem, BeginRead
<1>3. CASE NextWhenDamaged
  BY <1>3 DEF NextWhenDamaged
<1>4. CASE ForceHeal
  BY <1>4 DEF ForceHeal
<1>5. ASSUME NEW c \in {"skip", "read", "test", "extract", "extract_to"}, Process(c)
      PROVE  Inv'
  BY <1>5 DEF Process
<1>6. ASSUME NEW c \in {"extract_all", "extract_all_with_callback"}, ExtractAll(c)
      PROVE  Inv'
  BY <1>6 DEF ExtractAll
<1> HIDE DEF Inv
<1> QED BY <1>1, <1>2, <1>3, <1>4, <1>5, <1>6

(* Inv is inductive and holds in every reachable state.                    *)
THEOREM Invariance == Spec => []Inv
<1>1. ASSUME Inv, [Next]_vars PROVE Inv'
  <2>1. CASE Library
    BY <1>1, <2>1, HeaderKeeps, ProcessKeeps, BatchKeeps DEF Library
  <2>2. CASE Caller
    BY <1>1, <2>2, CallerKeeps DEF Caller
  <2>3. CASE UNCHANGED vars
    BY <1>1, <2>3, StutterInv
  <2> QED BY <1>1, <2>1, <2>2, <2>3 DEF Next
<1> QED BY InitInv, <1>1, PTL DEF Spec

(* read_header, skip, read, extract and extract_all_with_callback: while a *)
(* call runs, the library calls back with what this call has installed.    *)
THEOREM CallbacksLive == Spec => []CallbackIsLive
<1>1. Inv => CallbackIsLive
  BY DEF Inv
<1> QED BY Invariance, <1>1, PTL

(* extract_all on a handle that has processed nothing fills the directory, *)
(* and neither batch stores through the user data of an earlier call.      *)
THEOREM FreshClean == Spec => []FreshHandleIsClean
<1>1. Inv => FreshHandleIsClean
  BY DEF Inv
<1> QED BY Invariance, <1>1, PTL

(* read, test and extract: a file whose end is in a missing volume is no   *)
(* success, for volume sets of any length.                                 *)
THEOREM Truncation == Spec => []TruncationIsReported
<1>1. Inv => TruncationIsReported
  <2> SUFFICES ASSUME NextLists, CursorInv, PartInv, result.kind = "Some",
                      result.when = "Process", effect = "part"
               PROVE  FALSE
    BY DEF Inv, TruncationIsReported
  <2>1. pc = "services" /\ ~Listing
    BY DEF PartInv
  <2>2. cursor = "file"
    BY <2>1 DEF CursorInv, NextLists, InProcess
  <2>3. result.when = "Read"
    BY <2>2 DEF PartInv
  <2> QED BY <2>3
<1> QED BY Invariance, <1>1, PTL

-----------------------------------------------------------------------------
(* Types.  What never changes, the place in the volume set, and the rest.  *)
FixedOK ==
  /\ archive \in Archives /\ present \in 1 .. Len(archive) /\ opened \in 1 .. present
  /\ info \in {"None", "First", "Subsequent"} /\ mode \in Modes /\ solid \in BOOLEAN
PlaceOK ==
  /\ vol \in opened .. present /\ cur \in 1 .. Len(Blocks) + 1
  /\ at \in {"start", "data", "next"}
  /\ header \in Block \cup {NoBlock} /\ fileHead \in Block \cup {NoBlock}
  /\ broken \in BOOLEAN
FlagsOK ==
  /\ firstFile \in BOOLEAN /\ destName \in BOOLEAN
  /\ damaged \in BOOLEAN /\ failed \in BOOLEAN
StateOK ==
  /\ dllError \in {"Success", "EOpen", "BadData"}
  /\ pc \in {"idle", "search", "noheader", "found", "process", "unpack", "services",
            "batch"}
  /\ cursor \in {"header", "file", "dropped"}
  /\ heals \in 0 .. MaxHeals
  /\ result.kind \in {"none", "Some", "None", "Err", "Batch"}
  /\ effect \in {"none", "all", "part", "nothing", "directory", "one file"}
OwnersOK == slot \in Owners /\ told \in Owners
HistoryOK == yielded \in Seq(Entries) /\ passed \subseteq Nat

(* The types of a handle, in groups that the steps share.                  *)
LEMMA Parts == TypeOK <=> FixedOK /\ PlaceOK /\ FlagsOK /\ StateOK /\ OwnersOK /\ HistoryOK
  BY DEF TypeOK, FixedOK, PlaceOK, FlagsOK, StateOK, OwnersOK, HistoryOK

(* What is to be shown of a step, which never changes the fixed part.      *)
LEMMA PartsKept ==
  ASSUME TypeOK, UNCHANGED fixed, PlaceOK', FlagsOK', StateOK', OwnersOK', HistoryOK'
  PROVE  TypeOK'
<1>1. FixedOK'
  BY Parts DEF FixedOK, fixed
<1> QED BY <1>1 DEF TypeOK, FixedOK, PlaceOK, FlagsOK, StateOK, OwnersOK, HistoryOK

(* A set of positions has a first one.                                     *)
LEMMA HasLeast ==
  ASSUME NEW S \in SUBSET Nat, S # {}
  PROVE  \E i \in S : \A j \in S : i <= j
<1>1. PICK i \in S : \A j \in S : ~ (<<j, i>> \in OpToRel(<, Nat))
  BY NatLessThanWellFounded, WFMin
<1>2. \A j \in S : ~ (j < i)
  BY <1>1 DEF OpToRel
<1> QED BY <1>2

(* A merge lands on a block of the next volume, or after the last.         *)
LEMMA LandingInVolume ==
  ASSUME NEW blocks \in Seq(Block), NEW split
  PROVE  Landing(blocks, split) \in 1 .. Len(blocks) + 1
<1> DEFINE stops == {i \in 1 .. Len(blocks) :
                       split => blocks[i].type \in {"file", "endarc", "corrupt"}}
           S == stops \cup {Len(blocks) + 1}
<1>1. S \subseteq 1 .. Len(blocks) + 1 /\ S # {} /\ S \in SUBSET Nat
  OBVIOUS
<1>2. \E i \in S : \A j \in S : i <= j
  <2> HIDE DEF S
  <2> QED BY <1>1, HasLeast
<1>3. Landing(blocks, split) = CHOOSE i \in S : \A j \in S : i <= j
  BY DEF Landing
<1>4. Landing(blocks, split) \in S
  <2> HIDE DEF S
  <2> QED BY <1>2, <1>3
<1> QED BY <1>1, <1>4

(* All volumes are sequences of blocks, the one that is open among them.   *)
LEMMA Volumes ==
  ASSUME FixedOK
  PROVE  /\ Len(archive) \in Nat
         /\ \A v \in 1 .. Len(archive) :
              archive[v] \in Seq(Block) /\ Len(archive[v]) \in Nat
  BY ArchiveAssumption DEF FixedOK

(* The operations on the place keep its type.                              *)
LEMMA PlaceMoves ==
  ASSUME FixedOK, PlaceOK, UNCHANGED fixed,
         \/ \E bad \in BOOLEAN : ReadsNothing(bad)
         \/ at' \in {"start", "data", "next"} /\ \E b : ReadsBlock(b)
         \/ SeekToNext
         \/ MergeFinds
         \/ /\ cur' = Ahead /\ at' = "start" /\ header' = NoBlock
            /\ broken' \in BOOLEAN /\ UNCHANGED <<vol, fileHead>>
         \/ UNCHANGED place
  PROVE  PlaceOK'
<1> USE DEF FixedOK, PlaceOK, Blocks, fixed
<1>a. /\ vol \in 1 .. Len(archive)
      /\ archive[vol] \in Seq(Block) /\ Len(archive[vol]) \in Nat
  BY Volumes
<1>b. Ahead \in 1 .. Len(archive[vol]) + 1
  BY <1>a DEF Ahead
<1>1. ASSUME NEW bad \in BOOLEAN, ReadsNothing(bad) PROVE PlaceOK'
  BY <1>1, <1>a, <1>b DEF ReadsNothing
<1>2. ASSUME NEW b, ReadsBlock(b), at' \in {"start", "data", "next"} PROVE PlaceOK'
  <2>1. b \in Block /\ cur' \in 1 .. Len(archive[vol]) + 1
    BY <1>2, <1>a, <1>b DEF ReadsBlock
  <2> QED BY <1>2, <1>a, <2>1 DEF ReadsBlock
<1>3. CASE SeekToNext
  BY <1>3 DEF SeekToNext
<1>4. CASE MergeFinds
  <2> DEFINE next == archive[vol + 1]
             split == header.type = "file" /\ header.after
             i == Landing(next, split)
  <2>1. vol + 1 \in opened .. present /\ next \in Seq(Block) /\ Len(next) \in Nat
    BY <1>4, <1>a, Volumes DEF MergeFinds
  <2>2. i \in 1 .. Len(next) + 1
    BY <2>1, LandingInVolume
  <2>3. /\ vol' = vol + 1 /\ cur' = i /\ at' = "start"
        /\ header' = IF i > Len(next) \/ next[i].type = "corrupt" THEN NoBlock
                     ELSE next[i]
        /\ fileHead' = IF header'.type = "file" THEN header' ELSE fileHead
        /\ broken' = \E j \in 1 .. i : j <= Len(next) /\ ~next[j].sound
    BY <1>4 DEF MergeFinds
  <2>4. header' \in Block \cup {NoBlock}
    <3> HIDE DEF i
    <3> QED BY <2>1, <2>2, <2>3
  <2>5. broken' \in BOOLEAN
    BY <2>3
  <2> HIDE DEF i
  <2> QED BY <2>1, <2>2, <2>3, <2>4, <2>5
<1>5. CASE UNCHANGED place
  BY <1>5 DEF place
<1>6. CASE /\ cur' = Ahead /\ at' = "start" /\ header' = NoBlock
           /\ broken' \in BOOLEAN /\ UNCHANGED <<vol, fileHead>>
  BY <1>6, <1>a, <1>b
<1> HIDE DEF FixedOK, PlaceOK, Blocks, fixed
<1> QED BY <1>1, <1>2, <1>3, <1>4, <1>5, <1>6

(* A handle that was just opened has the types.                            *)
LEMMA InitTypes == Init => TypeOK
<1> SUFFICES ASSUME Init PROVE TypeOK
  OBVIOUS
<1>0. archive # <<>> /\ archive \in Seq(Seq(Block)) /\ Len(archive) \in Nat \ {0}
  BY ArchiveAssumption DEF Init
<1>1. FixedOK
  BY <1>0 DEF Init, FixedOK, VolumeInfo
<1>2. PlaceOK
  <2>1. opened \in 1 .. present /\ present \in 1 .. Len(archive) /\ vol = opened /\ cur = 1
    BY <1>1 DEF Init, FixedOK
  <2>2. vol \in opened .. present /\ Len(Blocks) \in Nat
    BY <1>0, <1>1, <2>1, Volumes DEF Blocks
  <2>3. cur \in 1 .. Len(Blocks) + 1
    BY <2>1, <2>2
  <2> QED BY <2>2, <2>3 DEF Init, PlaceOK
<1>3. FlagsOK
  BY DEF Init, FlagsOK
<1>4. StateOK
  BY ArchiveAssumption DEF Init, StateOK, Result
<1>5. OwnersOK /\ HistoryOK
  BY DEF Init, OwnersOK, Owners, HistoryOK
<1> QED BY <1>1, <1>2, <1>3, <1>4, <1>5, Parts

(* The entry that is added to a listing has an id.                         *)
LEMMA EntryType == PlaceOK => Entry(fileHead) \in Entries /\ fileHead.id \in Nat
<1>1. ASSUME fileHead \in Block
      PROVE  Entry(fileHead) \in Entries /\ fileHead.id \in Nat
  BY <1>1 DEF Block, Entry, Entries
<1>2. ASSUME fileHead = NoBlock
      PROVE  Entry(fileHead) \in Entries /\ fileHead.id \in Nat
  BY <1>2 DEF NoBlock, Entry, Entries
<1> QED BY <1>1, <1>2 DEF PlaceOK

(* The ways a call can end keep the types of what they assign.             *)
LEMMA EndTypes ==
  ASSUME TypeOK,
         \/ \E code, when : Fail(code, when)
         \/ EndOfIteration \/ HeaderFound \/ Processed
  PROVE  /\ pc' \in {"idle", "process"} /\ cursor' \in {"header", "file", "dropped"}
         /\ result'.kind \in {"none", "Some", "None", "Err", "Batch"}
         /\ UNCHANGED <<heals, effect>>
         /\ HistoryOK'
<1>a. /\ cursor \in {"header", "file", "dropped"}
      /\ result.kind \in {"none", "Some", "None", "Err", "Batch"}
      /\ HistoryOK
      /\ Entry(fileHead) \in Entries
  BY Parts, EntryType DEF StateOK
<1> USE DEF wrapper, history, Result
<1>1. ASSUME NEW code, NEW when, Fail(code, when)
      PROVE  /\ pc' = "idle" /\ cursor' \in {"dropped", cursor} /\ result'.kind = "Err"
             /\ UNCHANGED <<heals, effect, yielded, passed>>
  BY <1>1 DEF Fail
<1>2. ASSUME EndOfIteration
      PROVE  /\ pc' = "idle" /\ cursor' \in {"dropped", cursor} /\ result'.kind = "None"
             /\ UNCHANGED <<heals, effect, yielded, passed>>
  BY <1>2 DEF EndOfIteration
<1>3. ASSUME HeaderFound
      PROVE  /\ pc' \in {"idle", "process"} /\ cursor' \in {"file", cursor}
             /\ result'.kind \in {"Some", result.kind}
             /\ yielded' \in {yielded, Append(yielded, Entry(fileHead))}
             /\ UNCHANGED <<heals, effect, passed>>
  <2>1. CASE call = "next"
    BY <1>3, <2>1 DEF HeaderFound
  <2>2. CASE call # "next"
    BY <1>3, <2>2 DEF HeaderFound
  <2> QED BY <2>1, <2>2
<1>4. ASSUME Processed
      PROVE  /\ pc' = "idle" /\ cursor' \in {"header", cursor} /\ result'.kind = "Some"
             /\ yielded' \in {yielded, Append(yielded, Entry(fileHead))}
             /\ UNCHANGED <<heals, effect, passed>>
  <2>1. CASE call = "next"
    BY <1>4, <2>1 DEF Processed
  <2>2. CASE call # "next"
    BY <1>4, <2>2 DEF Processed
  <2> QED BY <2>1, <2>2
<1>5. pc' \in {"idle", "process"} /\ UNCHANGED <<heals, effect>>
  BY <1>1, <1>2, <1>3, <1>4
<1>6. cursor' \in {"header", "file", "dropped"}
  BY <1>a, <1>1, <1>2, <1>3, <1>4
<1>7. result'.kind \in {"none", "Some", "None", "Err", "Batch"}
  BY <1>a, <1>1, <1>2, <1>3, <1>4
<1>8. passed' = passed /\ yielded' \in {yielded, Append(yielded, Entry(fileHead))}
  BY <1>1, <1>2, <1>3, <1>4
<1>9. HistoryOK'
  BY <1>a, <1>8 DEF HistoryOK
<1> QED BY <1>5, <1>6, <1>7, <1>9

(* The types while a header is looked for.                                 *)
LEMMA HeaderTypes ==
  ASSUME TypeOK,
         \/ Search
         \/ SearchOn
         \/ SearchMisses
         \/ SearchEnds
         \/ PassContinuation
         \/ Found
  PROVE  TypeOK'
<1>a. FixedOK /\ PlaceOK /\ FlagsOK /\ StateOK /\ OwnersOK /\ HistoryOK
  BY Parts
<1> USE DEF library, wrapper, history
<1>1. CASE Search
  <2>1. UNCHANGED fixed
    BY <1>1 DEF Search
  <2>2. PlaceOK'
    BY <1>a, <1>1, <2>1, PlaceMoves DEF Search
  <2>3. FlagsOK'
    BY <1>a, <1>1 DEF FlagsOK, Search
  <2>4. StateOK'
    BY <1>a, <1>1 DEF StateOK, Result, Search
  <2>5. OwnersOK'
    BY <1>a, <1>1 DEF OwnersOK, Search
  <2>6. HistoryOK'
    BY <1>a, <1>1, EntryType DEF HistoryOK, Search
  <2> QED BY <2>1, <2>2, <2>3, <2>4, <2>5, <2>6, PartsKept
<1>2. CASE SearchOn
  <2>1. UNCHANGED fixed
    BY <1>2 DEF SearchOn
  <2>2. PlaceOK'
    BY <1>a, <1>2, <2>1, PlaceMoves DEF SearchOn
  <2>3. FlagsOK'
    BY <1>a, <1>2 DEF FlagsOK, SearchOn
  <2>4. StateOK'
    BY <1>a, <1>2 DEF StateOK, Result, SearchOn
  <2>5. OwnersOK'
    BY <1>a, <1>2 DEF OwnersOK, SearchOn
  <2>6. HistoryOK'
    BY <1>a, <1>2, EntryType DEF HistoryOK, SearchOn
  <2> QED BY <2>1, <2>2, <2>3, <2>4, <2>5, <2>6, PartsKept
<1>3. CASE SearchMisses
  <2>1. UNCHANGED fixed
    BY <1>3 DEF SearchMisses
  <2>2. PlaceOK'
    BY <1>a, <1>3, <2>1, PlaceMoves DEF SearchMisses, MergeMisses
  <2>3. FlagsOK'
    BY <1>a, <1>3 DEF FlagsOK, SearchMisses, Fail, MergeMisses
  <2>4. StateOK'
    BY <1>a, <1>3, EndTypes DEF StateOK, SearchMisses, MergeMisses
  <2>5. OwnersOK'
    BY <1>a, <1>3 DEF OwnersOK, SearchMisses, Fail, MergeMisses
  <2>6. HistoryOK'
    BY <1>a, <1>3, EndTypes DEF HistoryOK, SearchMisses, MergeMisses
  <2> QED BY <2>1, <2>2, <2>3, <2>4, <2>5, <2>6, PartsKept
<1>4. CASE SearchEnds
  <2>1. UNCHANGED fixed
    BY <1>4 DEF SearchEnds
  <2>2. PlaceOK'
    BY <1>a, <1>4, <2>1, PlaceMoves DEF SearchEnds
  <2>3. FlagsOK'
    BY <1>a, <1>4 DEF FlagsOK, SearchEnds, Fail, EndOfIteration
  <2>4. StateOK'
    BY <1>a, <1>4, EndTypes DEF StateOK, SearchEnds
  <2>5. OwnersOK'
    BY <1>a, <1>4 DEF OwnersOK, SearchEnds, Fail, EndOfIteration
  <2>6. HistoryOK'
    BY <1>a, <1>4, EndTypes DEF HistoryOK, SearchEnds
  <2> QED BY <2>1, <2>2, <2>3, <2>4, <2>5, <2>6, PartsKept
<1>5. CASE PassContinuation
  <2>1. UNCHANGED fixed
    BY <1>5 DEF PassContinuation
  <2>2. PlaceOK'
    BY <1>a, <1>5, <2>1, PlaceMoves DEF PassContinuation, MergeMisses
  <2>3. FlagsOK'
    BY <1>a, <1>5 DEF FlagsOK, PassContinuation, Fail, MergeMisses
  <2>4. StateOK'
    BY <1>a, <1>5, EndTypes DEF StateOK, PassContinuation, MergeMisses
  <2>5. OwnersOK'
    BY <1>a, <1>5 DEF OwnersOK, PassContinuation, Fail, MergeMisses
  <2>6. HistoryOK'
    BY <1>a, <1>5, EndTypes DEF HistoryOK, PassContinuation, MergeMisses
  <2> QED BY <2>1, <2>2, <2>3, <2>4, <2>5, <2>6, PartsKept
<1>6. CASE Found
  <2>1. UNCHANGED fixed
    BY <1>6 DEF Found
  <2>2. PlaceOK'
    BY <1>a, <1>6, <2>1, PlaceMoves DEF Found
  <2>3. FlagsOK'
    BY <1>a, <1>6 DEF FlagsOK, Found, HeaderFound, Fail
  <2>4. StateOK'
    BY <1>a, <1>6, EndTypes DEF StateOK, Found
  <2>5. OwnersOK'
    BY <1>a, <1>6 DEF OwnersOK, Owners, Found, HeaderFound, Fail
  <2>6. HistoryOK'
    BY <1>a, <1>6, EndTypes DEF HistoryOK, Found
  <2> QED BY <2>1, <2>2, <2>3, <2>4, <2>5, <2>6, PartsKept
<1> QED BY <1>1, <1>2, <1>3, <1>4, <1>5, <1>6

(* The types while a file is processed.                                    *)
LEMMA ProcessTypes ==
  ASSUME TypeOK,
         \/ SkipFile
         \/ Unpack
         \/ UnpackOn
         \/ \E code \in {"Success", "BadData"} : UnpackEnds(code)
         \/ PassService
         \/ ProcessReturns
  PROVE  TypeOK'
<1>a. FixedOK /\ PlaceOK /\ FlagsOK /\ StateOK /\ OwnersOK /\ HistoryOK
  BY Parts
<1> USE DEF library, wrapper, history
<1>1. CASE SkipFile
  <2>1. UNCHANGED fixed
    BY <1>1 DEF SkipFile
  <2>2. PlaceOK'
    BY <1>a, <1>1, <2>1, PlaceMoves DEF SkipFile, MergeMisses
  <2>3. FlagsOK'
    BY <1>a, <1>1 DEF FlagsOK, SkipFile, Processed, Fail, MergeMisses
  <2>4. StateOK'
    BY <1>a, <1>1, EndTypes DEF StateOK, SkipFile, MergeMisses
  <2>5. OwnersOK'
    BY <1>a, <1>1 DEF OwnersOK, SkipFile, Processed, Fail, MergeMisses
  <2>6. HistoryOK'
    BY <1>a, <1>1, EndTypes DEF HistoryOK, SkipFile, MergeMisses
  <2> QED BY <2>1, <2>2, <2>3, <2>4, <2>5, <2>6, PartsKept
<1>2. CASE Unpack
  <2>1. UNCHANGED fixed
    BY <1>2 DEF Unpack
  <2>2. PlaceOK'
    BY <1>a, <1>2, <2>1, PlaceMoves DEF Unpack
  <2>3. FlagsOK'
    <3>1. destName' = (call \in {"extract", "extract_to"})
      BY <1>2 DEF Unpack
    <3>2. destName' \in BOOLEAN
      <4>1. (call \in {"extract", "extract_to"}) \in BOOLEAN
        OBVIOUS
      <4> QED BY <3>1, <4>1
    <3>3. firstFile' \in BOOLEAN
      BY <1>2 DEF Unpack
    <3>4. UNCHANGED <<damaged, failed>>
      BY <1>2 DEF Unpack
    <3> QED BY <1>a, <3>2, <3>3, <3>4 DEF FlagsOK
  <2>4. StateOK'
    BY <1>a, <1>2 DEF StateOK, Result, Unpack
  <2>5. OwnersOK'
    BY <1>a, <1>2 DEF OwnersOK, Unpack
  <2>6. HistoryOK'
    BY <1>a, <1>2, EntryType DEF HistoryOK, Unpack
  <2> QED BY <2>1, <2>2, <2>3, <2>4, <2>5, <2>6, PartsKept
<1>3. CASE UnpackOn
  <2>1. UNCHANGED fixed
    BY <1>3 DEF UnpackOn
  <2>2. PlaceOK'
    BY <1>a, <1>3, <2>1, PlaceMoves DEF UnpackOn, SeekToNext
  <2>3. FlagsOK'
    BY <1>a, <1>3 DEF FlagsOK, UnpackOn
  <2>4. StateOK'
    BY <1>a, <1>3 DEF StateOK, Result, UnpackOn
  <2>5. OwnersOK'
    BY <1>a, <1>3 DEF OwnersOK, UnpackOn
  <2>6. HistoryOK'
    BY <1>a, <1>3, EntryType DEF HistoryOK, UnpackOn
  <2> QED BY <2>1, <2>2, <2>3, <2>4, <2>5, <2>6, PartsKept
<1>4. ASSUME NEW code \in {"Success", "BadData"}, UnpackEnds(code)
      PROVE  TypeOK'
  <2>1. UNCHANGED fixed
    BY <1>4 DEF UnpackEnds
  <2>2. PlaceOK'
    BY <1>a, <1>4, <2>1, PlaceMoves DEF UnpackEnds
  <2>3. FlagsOK'
    BY <1>a, <1>4 DEF FlagsOK, UnpackEnds
  <2>4. StateOK'
    BY <1>a, <1>4 DEF StateOK, Result, UnpackEnds
  <2>5. OwnersOK'
    BY <1>a, <1>4 DEF OwnersOK, UnpackEnds
  <2>6. HistoryOK'
    BY <1>a, <1>4, EntryType DEF HistoryOK, UnpackEnds
  <2> QED BY <2>1, <2>2, <2>3, <2>4, <2>5, <2>6, PartsKept
<1>5. CASE PassService
  <2>1. UNCHANGED fixed
    BY <1>5 DEF PassService
  <2>2. PlaceOK'
    BY <1>a, <1>5, <2>1, PlaceMoves DEF PassService
  <2>3. FlagsOK'
    BY <1>a, <1>5 DEF FlagsOK, PassService
  <2>4. StateOK'
    BY <1>a, <1>5 DEF StateOK, Result, PassService
  <2>5. OwnersOK'
    BY <1>a, <1>5 DEF OwnersOK, PassService
  <2>6. HistoryOK'
    BY <1>a, <1>5, EntryType DEF HistoryOK, PassService
  <2> QED BY <2>1, <2>2, <2>3, <2>4, <2>5, <2>6, PartsKept
<1>6. CASE ProcessReturns
  <2>1. UNCHANGED fixed
    BY <1>6 DEF ProcessReturns
  <2>2. PlaceOK'
    BY <1>a, <1>6, <2>1, PlaceMoves DEF ProcessReturns
  <2>3. FlagsOK'
    BY <1>a, <1>6 DEF FlagsOK, ProcessReturns, Processed, Fail
  <2>4. StateOK'
    BY <1>a, <1>6, EndTypes DEF StateOK, ProcessReturns
  <2>5. OwnersOK'
    BY <1>a, <1>6 DEF OwnersOK, ProcessReturns, Processed, Fail
  <2>6. HistoryOK'
    BY <1>a, <1>6, EndTypes DEF HistoryOK, ProcessReturns
  <2> QED BY <2>1, <2>2, <2>3, <2>4, <2>5, <2>6, PartsKept
<1> QED BY <1>1, <1>2, <1>3, <1>4, <1>5, <1>6

(* The types in a batch.                                                   *)
LEMMA BatchTypes ==
  ASSUME TypeOK,
         \/ \E msg \in Messages : BatchTells(msg)
         \/ BatchReturns
  PROVE  TypeOK'
<1>a. FixedOK /\ PlaceOK /\ FlagsOK /\ StateOK /\ OwnersOK /\ HistoryOK
  BY Parts
<1> USE DEF library, wrapper, history
<1>1. ASSUME NEW msg \in Messages, BatchTells(msg)
      PROVE  TypeOK'
  <2>1. UNCHANGED fixed
    BY <1>1 DEF BatchTells
  <2>2. PlaceOK'
    BY <1>a, <1>1, <2>1, PlaceMoves DEF BatchTells
  <2>3. FlagsOK'
    BY <1>a, <1>1 DEF FlagsOK, BatchTells
  <2>4. StateOK'
    BY <1>a, <1>1 DEF StateOK, Result, BatchTells
  <2>5. OwnersOK'
    BY <1>a, <1>1 DEF OwnersOK, BatchTells
  <2>6. HistoryOK'
    BY <1>a, <1>1, EntryType DEF HistoryOK, BatchTells
  <2> QED BY <2>1, <2>2, <2>3, <2>4, <2>5, <2>6, PartsKept
<1>2. CASE BatchReturns
  <2>1. UNCHANGED fixed
    BY <1>2 DEF BatchReturns
  <2>2. PlaceOK'
    BY <1>a, <1>2, <2>1, PlaceMoves DEF BatchReturns
  <2>3. FlagsOK'
    BY <1>a, <1>2 DEF FlagsOK, BatchReturns
  <2>4. StateOK'
    BY <1>a, <1>2 DEF StateOK, Result, BatchReturns
  <2>5. OwnersOK'
    BY <1>a, <1>2 DEF OwnersOK, BatchReturns
  <2>6. HistoryOK'
    BY <1>a, <1>2, EntryType DEF HistoryOK, BatchReturns
  <2> QED BY <2>1, <2>2, <2>3, <2>4, <2>5, <2>6, PartsKept
<1> QED BY <1>1, <1>2

(* The types when the caller acts.                                         *)
LEMMA CallerTypes ==
  ASSUME TypeOK,
         \/ ReadHeader
         \/ NextItem
         \/ NextWhenDamaged
         \/ ForceHeal
         \/ \E c \in {"skip", "read", "test", "extract", "extract_to"} : Process(c)
         \/ \E c \in {"extract_all", "extract_all_with_callback"} : ExtractAll(c)
  PROVE  TypeOK'
<1>a. FixedOK /\ PlaceOK /\ FlagsOK /\ StateOK /\ OwnersOK /\ HistoryOK
  BY Parts
<1> USE DEF library, wrapper, history
<1>1. CASE ReadHeader
  <2>1. UNCHANGED fixed
    BY <1>1 DEF ReadHeader, BeginRead
  <2>2. PlaceOK'
    BY <1>a, <1>1, <2>1, PlaceMoves DEF ReadHeader, BeginRead
  <2>3. FlagsOK'
    BY <1>a, <1>1 DEF FlagsOK, ReadHeader, BeginRead
  <2>4. StateOK'
    BY <1>a, <1>1 DEF StateOK, Result, ReadHeader, BeginRead
  <2>5. OwnersOK'
    BY <1>a, <1>1 DEF OwnersOK, Owners, ReadHeader, BeginRead
  <2>6. HistoryOK'
    BY <1>a, <1>1, EntryType DEF HistoryOK, ReadHeader, BeginRead
  <2> QED BY <2>1, <2>2, <2>3, <2>4, <2>5, <2>6, PartsKept
<1>2. CASE NextItem
  <2>1. UNCHANGED fixed
    BY <1>2 DEF NextItem, BeginRead
  <2>2. PlaceOK'
    BY <1>a, <1>2, <2>1, PlaceMoves DEF NextItem, BeginRead
  <2>3. FlagsOK'
    BY <1>a, <1>2 DEF FlagsOK, NextItem, BeginRead
  <2>4. StateOK'
    BY <1>a, <1>2 DEF StateOK, Result, NextItem, BeginRead
  <2>5. OwnersOK'
    BY <1>a, <1>2 DEF OwnersOK, Owners, NextItem, BeginRead
  <2>6. HistoryOK'
    BY <1>a, <1>2, EntryType DEF HistoryOK, NextItem, BeginRead
  <2> QED BY <2>1, <2>2, <2>3, <2>4, <2>5, <2>6, PartsKept
<1>3. CASE NextWhenDamaged
  <2>1. UNCHANGED fixed
    BY <1>3 DEF NextWhenDamaged
  <2>2. PlaceOK'
    BY <1>a, <1>3, <2>1, PlaceMoves DEF NextWhenDamaged
  <2>3. FlagsOK'
    BY <1>a, <1>3 DEF FlagsOK, NextWhenDamaged
  <2>4. StateOK'
    BY <1>a, <1>3 DEF StateOK, Result, NextWhenDamaged
  <2>5. OwnersOK'
    BY <1>a, <1>3 DEF OwnersOK, NextWhenDamaged
  <2>6. HistoryOK'
    BY <1>a, <1>3, EntryType DEF HistoryOK, NextWhenDamaged
  <2> QED BY <2>1, <2>2, <2>3, <2>4, <2>5, <2>6, PartsKept
<1>4. CASE ForceHeal
  <2>1. UNCHANGED fixed
    BY <1>4 DEF ForceHeal
  <2>2. PlaceOK'
    BY <1>a, <1>4, <2>1, PlaceMoves DEF ForceHeal
  <2>3. FlagsOK'
    BY <1>a, <1>4 DEF FlagsOK, ForceHeal
  <2>4. StateOK'
    <3>1. heals \in 0 .. MaxHeals /\ MaxHeals \in Nat
      BY <1>a, ArchiveAssumption DEF StateOK
    <3>2. heals < MaxHeals /\ heals' = heals + 1
      BY <1>4 DEF ForceHeal
    <3>3. heals' \in 0 .. MaxHeals
      BY <3>1, <3>2
    <3>4. UNCHANGED <<dllError, pc, cursor, result, effect>>
      BY <1>4 DEF ForceHeal
    <3> QED BY <1>a, <3>3, <3>4 DEF StateOK
  <2>5. OwnersOK'
    BY <1>a, <1>4 DEF OwnersOK, ForceHeal
  <2>6. HistoryOK'
    BY <1>a, <1>4, EntryType DEF HistoryOK, ForceHeal
  <2> QED BY <2>1, <2>2, <2>3, <2>4, <2>5, <2>6, PartsKept
<1>5. ASSUME NEW c \in {"skip", "read", "test", "extract", "extract_to"}, Process(c)
      PROVE  TypeOK'
  <2>1. UNCHANGED fixed
    BY <1>5 DEF Process
  <2>2. PlaceOK'
    BY <1>a, <1>5, <2>1, PlaceMoves DEF Process
  <2>3. FlagsOK'
    BY <1>a, <1>5 DEF FlagsOK, Process
  <2>4. StateOK'
    BY <1>a, <1>5 DEF StateOK, Result, Process
  <2>5. OwnersOK'
    BY <1>a, <1>5 DEF OwnersOK, Owners, Process
  <2>6. HistoryOK'
    BY <1>a, <1>5, EntryType DEF HistoryOK, Process
  <2> QED BY <2>1, <2>2, <2>3, <2>4, <2>5, <2>6, PartsKept
<1>6. ASSUME NEW c \in {"extract_all", "extract_all_with_callback"}, ExtractAll(c)
      PROVE  TypeOK'
  <2>1. UNCHANGED fixed
    BY <1>6 DEF ExtractAll
  <2>2. PlaceOK'
    BY <1>a, <1>6, <2>1, PlaceMoves DEF ExtractAll
  <2>3. FlagsOK'
    BY <1>a, <1>6 DEF FlagsOK, ExtractAll
  <2>4. StateOK'
    BY <1>a, <1>6 DEF StateOK, Result, ExtractAll
  <2>5. OwnersOK'
    BY <1>a, <1>6 DEF OwnersOK, Owners, ExtractAll
  <2>6. HistoryOK'
    BY <1>a, <1>6, EntryType DEF HistoryOK, ExtractAll
  <2> QED BY <2>1, <2>2, <2>3, <2>4, <2>5, <2>6, PartsKept
<1> QED BY <1>1, <1>2, <1>3, <1>4, <1>5, <1>6

(* Every variable of a handle keeps its type, for any volume sets.         *)
THEOREM TypeCorrect == Spec => []TypeOK
<1>1. ASSUME TypeOK, [Next]_vars PROVE TypeOK'
  <2>1. CASE Library
    BY <1>1, <2>1, HeaderTypes, ProcessTypes, BatchTypes DEF Library
  <2>2. CASE Caller
    BY <1>1, <2>2, CallerTypes DEF Caller
  <2>3. CASE UNCHANGED vars
    <3> USE <2>3 DEF vars, fixed, place, library, wrapper, history
    <3>a. FixedOK /\ PlaceOK /\ FlagsOK /\ StateOK /\ OwnersOK /\ HistoryOK
      BY <1>1, Parts
    <3>1. PlaceOK'
      BY <3>a, PlaceMoves
    <3>2. FlagsOK'
      BY <3>a DEF FlagsOK
    <3>3. StateOK'
      BY <3>a DEF StateOK
    <3>4. OwnersOK' /\ HistoryOK'
      BY <3>a DEF OwnersOK, HistoryOK
    <3> QED BY <1>1, <3>1, <3>2, <3>3, <3>4, PartsKept
  <2> QED BY <1>1, <2>1, <2>2, <2>3 DEF Next
<1> QED BY InitTypes, <1>1, PTL DEF Spec
=============================================================================
