---------------------------- MODULE OpenArchive ----------------------------
(***************************************************************************)
(* One OpenArchive handle, from the open to the drop: the typestate cursor *)
(* of the Rust wrapper, its iterator with the damaged flag, the callback   *)
(* each call installs and what it stores, the entries and the VolumeInfo   *)
(* the caller is given, and below them RARReadHeaderEx and RARProcessFile  *)
(* walking the blocks of a volume set, of which any volume may be opened.  *)
(*                                                                         *)
(* A volume is a sequence of blocks.  A file that is split over volumes    *)
(* has a block in each of them with the same id; ids count the files in    *)
(* archive order.  sound: the checksum of the header is right.  A header   *)
(* that is not sound is used nevertheless, unless it makes no sense at all *)
(* ("corrupt").  The packed data itself is not modelled.                   *)
(***************************************************************************)
EXTENDS Integers, Sequences, FiniteSets

CONSTANTS
  Archives,     \* volume sets: sequences of sequences of blocks
  Modes,        \* open modes the caller may choose
  MaxHeals      \* bound: calls of force_heal

(* What the open learns from the main header: nothing of volumes (RAR 2),  *)
(* the number of the volume, the same with all other headers encrypted     *)
(* (RAR 3), or nothing because that header is encrypted too (RAR 5).       *)
Formats == {"unnumbered", "numbered", "encrypted", "hidden"}

BlockTypes == {"file", "other", "endarc", "corrupt"}
Block ==
  [type : BlockTypes, id : Nat, before : BOOLEAN, after : BOOLEAN, next : BOOLEAN,
   sound : BOOLEAN]

ASSUME ArchiveAssumption ==
  /\ Archives \subseteq Seq(Seq(Block))
  /\ \A a \in Archives : a # <<>>
  /\ Modes \subseteq {"List", "ListSplit", "Process"}
  /\ MaxHeals \in Nat

VARIABLES
  archive,      \* the volume set
  present,      \* how many of its volumes are on the disk
  opened,       \* the volume the caller opened
  info,         \* VolumeInfo, kept in OpenArchive::flags
  mode,         \* the OpenMode type parameter, OpenMode of the DataSet
  solid,        \* Arc.Solid
  vol,          \* the volume that is open
  cur,          \* index of the block at Arc.CurBlockPos
  at,           \* file position: its start, just after its header, its end
  header,       \* Arc.GetHeaderType() and its fields
  fileHead,     \* Arc.FileHead
  broken,       \* Arc.BrokenHeader
  firstFile,    \* CmdExtract::FirstFile
  destName,     \* Cmd->DllDestName is set
  dllError,     \* Cmd->DllError
  slot,         \* the call whose callback and user data are installed
  pc,           \* position inside the library, "idle" outside
  call,         \* the method that is running, or ran last
  cursor,       \* the Cursor type parameter, "dropped" at the end
  damaged,      \* OpenArchive::damaged
  heals,        \* calls of force_heal so far
  result,       \* what the last call returned
  yielded,      \* history: the entries returned so far
  failed,       \* history: some call has returned an error
  passed,       \* history: ids of the entries the caller has disposed of
  effect,       \* history: what the last call delivered, or where it wrote
  told          \* history: the user data a batch last stored something in

place == <<vol, cur, at, header, fileHead, broken>>
fixed == <<archive, present, opened, info, mode, solid>>
library == <<firstFile, destName, dllError>>
wrapper == <<cursor, damaged, heals, result>>
history == <<yielded, failed, passed, effect, told>>
vars == <<fixed, place, library, slot, pc, call, wrapper, history>>

NoBlock ==
  [type |-> "unknown", id |-> 0, before |-> FALSE, after |-> FALSE, next |-> FALSE,
   sound |-> TRUE]

Result(kind, code, when) == [kind |-> kind, code |-> code, when |-> when]
Listing == mode \in {"List", "ListSplit"}

(* From<HeaderDataEx> for FileHeader.                                      *)
Entry(h) == [id |-> h.id, before |-> h.before, after |-> h.after]

(* Mutant: the scan ends at a service block too.                           *)
IsFirstVolume_Hasty(blocks, flag) ==
  IF blocks # <<>> /\ blocks[1].type \in {"other", "file"} THEN ~blocks[1].before
  ELSE flag

(* Archive::FirstVolume after the scan of IsArchive: the last of the       *)
(* service blocks and the first file decides, where there are any.         *)
IsFirstVolume(blocks, flag) ==
  LET read == {i \in 1 .. Len(blocks) :
                 \A j \in 1 .. i - 1 : blocks[j].type = "other"}
      seen == {i \in read : blocks[i].type \in {"other", "file"}}
  IN IF seen = {} THEN flag ELSE ~blocks[Cardinality(seen)].before

(* The flags RAROpenArchiveEx returns, as OpenArchive::volume_info reads   *)
(* them, for volume v of set a.                                            *)
VolumeInfo(a, v, format) ==
  LET flag == format # "unnumbered" /\ v = 1
      first == IF format = "encrypted" THEN flag ELSE IsFirstVolume(a[v], flag)
  IN CASE Len(a) = 1 \/ format = "hidden" -> "None"
       [] OTHER -> IF first THEN "First" ELSE "Subsequent"

Init ==
  /\ archive \in Archives /\ present \in 1 .. Len(archive)
  /\ opened \in 1 .. present
  /\ info \in {VolumeInfo(archive, opened, f) : f \in Formats}
  /\ mode \in Modes /\ solid \in BOOLEAN
  /\ vol = opened /\ cur = 1 /\ at = "start"
  /\ header = NoBlock /\ fileHead = NoBlock
  /\ broken = FALSE /\ firstFile = TRUE /\ destName = FALSE
  /\ dllError = "Success" /\ slot = "none"
  /\ pc = "idle" /\ call = "open"
  /\ cursor = "header" /\ damaged = FALSE /\ heals = 0
  /\ result = Result("none", "Success", "Open")
  /\ yielded = <<>> /\ failed = FALSE /\ passed = {} /\ effect = "none"
  /\ told = "none"

-----------------------------------------------------------------------------
(* Archive::ReadHeader and the position it leaves.                         *)

Blocks == archive[vol]

(* The block the next read will see.                                       *)
Ahead ==
  IF at = "start" \/ cur > Len(Blocks) THEN cur ELSE cur + 1

(* The read begins inside packed data, or inside a header that was damaged *)
(* and whose size is therefore not known.                                  *)
Astray ==
  /\ at = "data" /\ cur <= Len(Blocks)
  /\ Blocks[cur].type \in {"file", "corrupt"}

(* Mutant: a failed read moves on all the same.                            *)
ReadsNothing_Advances(bad) ==
  /\ \/ Astray
     \/ Ahead > Len(Blocks) /\ ~bad
     \/ Ahead <= Len(Blocks) /\ Blocks[Ahead].type = "corrupt" /\ bad
  /\ header' = NoBlock
  /\ broken' = (broken \/ bad)
  /\ cur' = IF Astray THEN cur ELSE Ahead + 1
  /\ at' = "data"
  /\ UNCHANGED <<vol, fileHead>>

(* Mutant: the block whose header cannot be read is passed.                *)
ReadsNothing_Passes(bad) ==
  /\ \/ Astray
     \/ Ahead > Len(Blocks) /\ ~bad
     \/ Ahead <= Len(Blocks) /\ Blocks[Ahead].type = "corrupt" /\ bad
  /\ header' = NoBlock
  /\ broken' = (broken \/ bad)
  /\ cur' = IF Astray THEN cur ELSE Ahead
  /\ at' = "next"
  /\ UNCHANGED <<vol, fileHead>>

(* Nothing can be read: the end of the volume, or a header whose checksum  *)
(* is wrong.                                                               *)
ReadsNothing(bad) ==
  /\ \/ Astray
     \/ Ahead > Len(Blocks) /\ ~bad
     \/ Ahead <= Len(Blocks) /\ Blocks[Ahead].type = "corrupt" /\ bad
  /\ header' = NoBlock
  /\ broken' = (broken \/ bad)
  /\ cur' = IF Astray THEN cur ELSE Ahead
  /\ at' = "data"
  /\ UNCHANGED <<vol, fileHead>>

ReadsBlock(b) ==
  /\ ~Astray /\ Ahead <= Len(Blocks)
  /\ b = Blocks[Ahead] /\ b.type # "corrupt"
  /\ header' = b
  /\ fileHead' = IF b.type = "file" THEN b ELSE fileHead
  /\ cur' = Ahead
  /\ broken' = (broken \/ ~b.sound)
  /\ UNCHANGED vol

SeekToNext ==
  /\ at' = "next"
  /\ UNCHANGED <<vol, cur, header, fileHead, broken>>

(* MergeArchive, and the Seek(CurBlockPos) its callers here add: the next  *)
(* volume is open, at its first block or, when a file is split, at its     *)
(* first file.                                                             *)
Landing(blocks, split) ==
  LET stops == {i \in 1 .. Len(blocks) :
                  split => blocks[i].type \in {"file", "endarc", "corrupt"}}
  IN CHOOSE i \in stops \cup {Len(blocks) + 1} :
       \A j \in stops \cup {Len(blocks) + 1} : i <= j

(* Mutant: the name of the next volume is that of this one.                *)
MergeFinds_Again ==
  /\ vol < present
  /\ cur' = 1 /\ at' = "start"
  /\ header' = NoBlock
  /\ broken' = FALSE
  /\ UNCHANGED <<vol, fileHead>>

MergeFinds ==
  /\ vol < present
  /\ LET next == archive[vol + 1]
         split == header.type = "file" /\ header.after
         i == Landing(next, split)
     IN /\ vol' = vol + 1
        /\ cur' = i /\ at' = "start"
        /\ header' = IF i > Len(next) \/ next[i].type = "corrupt" THEN NoBlock
                     ELSE next[i]
        /\ fileHead' = IF header'.type = "file" THEN header' ELSE fileHead
        /\ broken' = \E j \in 1 .. i : j <= Len(next) /\ ~next[j].sound

(* The callback answers RAR_VOL_ASK with -1, and MergeArchive opens the    *)
(* old volume again where it was.                                          *)
MergeMisses ==
  /\ vol = present
  /\ dllError' = "EOpen"
  /\ UNCHANGED place

-----------------------------------------------------------------------------
(* What the caller can do.                                                 *)

(* read_header: the free function first points the callback to its own     *)
(* user data.                                                              *)
BeginRead(c) ==
  /\ pc = "idle" /\ cursor = "header"
  /\ call' = c
  /\ slot' = "read_header"
  /\ pc' = "search"
  /\ UNCHANGED <<fixed, place, library, wrapper, history>>

ReadHeader == BeginRead("read_header")

(* Iterator::next.                                                         *)
NextItem == Listing /\ ~damaged /\ BeginRead("next")

NextWhenDamaged ==
  /\ pc = "idle" /\ cursor = "header" /\ Listing
  /\ damaged
  /\ call' = "next"
  /\ result' = Result("None", "Success", "Read")
  /\ UNCHANGED <<fixed, place, library, slot, pc, cursor, damaged, heals, history>>

ForceHeal ==
  /\ pc = "idle" /\ cursor # "dropped" /\ damaged
  /\ heals < MaxHeals
  /\ heals' = heals + 1
  /\ damaged' = FALSE
  /\ UNCHANGED <<fixed, place, library, slot, pc, call, cursor, result, history>>

(* skip in every mode; read, test, extract and its variants in Process.    *)
Process(c) ==
  /\ pc = "idle" /\ cursor = "file"
  /\ c = "skip" \/ ~Listing
  /\ call' = c
  /\ slot' = c
  /\ pc' = "process"
  /\ passed' = passed \cup {fileHead.id}
  /\ UNCHANGED <<fixed, place, library, wrapper, yielded, failed, effect, told>>

(* Mutant: the batch methods exist for every cursor.                       *)
ExtractAll_AnyCursor(c) ==
  /\ pc = "idle" /\ cursor \in {"header", "file"} /\ ~Listing
  /\ call' = c
  /\ slot' = IF c = "extract_all" THEN slot ELSE c
  /\ dllError' = "Success"
  /\ effect' = IF destName THEN "one file" ELSE "directory"
  /\ pc' = "batch"
  /\ UNCHANGED <<fixed, place, firstFile, destName, wrapper, yielded, failed, passed,
                 told>>

(* What RARExtractAllW does with the archive is the subject of             *)
(* BatchExtract; here it is where it writes and whom it calls back.  It    *)
(* writes where Cmd->DllDestName says when that is set, and extract_all    *)
(* installs no callback of its own.                                        *)
ExtractAll(c) ==
  /\ pc = "idle" /\ cursor = "header" /\ ~Listing
  /\ call' = c
  /\ slot' = IF c = "extract_all" THEN slot ELSE c
  /\ dllError' = "Success"
  /\ effect' = IF destName THEN "one file" ELSE "directory"
  /\ pc' = "batch"
  /\ UNCHANGED <<fixed, place, firstFile, destName, wrapper, yielded, failed, passed,
                 told>>

-----------------------------------------------------------------------------
(* How a call ends.  Methods that take self drop the handle on the way out *)
(* unless they return a new OpenArchive; the iterator keeps it.            *)

Fail(code, when) ==
  /\ pc' = "idle"
  /\ result' = Result("Err", code, when)
  /\ failed' = TRUE
  /\ IF call = "next" THEN damaged' = TRUE /\ UNCHANGED cursor
                      ELSE cursor' = "dropped" /\ UNCHANGED damaged
  /\ UNCHANGED <<heals, yielded, passed, effect, told>>

EndOfIteration ==
  /\ pc' = "idle"
  /\ result' = Result("None", "Success", "Read")
  /\ cursor' = IF call = "next" THEN cursor ELSE "dropped"
  /\ UNCHANGED <<damaged, heals, history>>

(* Mutant: the callback still points to the user data of read_header.      *)
HeaderFound_KeepsSlot ==
  IF call = "next"
    THEN /\ pc' = "process"
         /\ UNCHANGED <<slot, wrapper, history>>
    ELSE /\ pc' = "idle"
         /\ cursor' = "file"
         /\ result' = Result("Some", "Success", "Read")
         /\ yielded' = Append(yielded, Entry(fileHead))
         /\ UNCHANGED <<slot, damaged, heals, failed, passed, effect, told>>

(* The entry of the iterator is returned only after it was skipped too.    *)
HeaderFound ==
  IF call = "next"
    THEN /\ pc' = "process"
         /\ slot' = "skip"
         /\ UNCHANGED <<wrapper, history>>
    ELSE /\ pc' = "idle"
         /\ cursor' = "file"
         /\ result' = Result("Some", "Success", "Read")
         /\ yielded' = Append(yielded, Entry(fileHead))
         /\ UNCHANGED <<slot, damaged, heals, failed, passed, effect, told>>

Processed ==
  /\ pc' = "idle"
  /\ result' = Result("Some", "Success", "Process")
  /\ IF call = "next"
       THEN yielded' = Append(yielded, Entry(fileHead)) /\ UNCHANGED cursor
       ELSE cursor' = "header" /\ UNCHANGED yielded
  /\ UNCHANGED <<damaged, heals, failed, passed, effect, told>>

-----------------------------------------------------------------------------
(* RARReadHeaderEx.                                                        *)

(* SearchBlock(HEAD_FILE): one header.                                     *)
Search ==
  /\ pc = "search"
  /\ \/ \E bad \in BOOLEAN : ReadsNothing(bad) /\ pc' = "noheader"
     \/ \E b \in {Blocks[i] : i \in 1 .. Len(Blocks)} :
          /\ ReadsBlock(b)
          /\ at' = IF b.type = "other" THEN "next" ELSE "data"
          /\ pc' = CASE b.type = "file" -> "found"
                     [] b.type = "endarc" -> "noheader"
                     [] OTHER -> "search"
  /\ UNCHANGED <<fixed, library, slot, call, wrapper, history>>

(* Mutant: the flag of the end record is ignored.                          *)
Promised_Never == FALSE

Promised == header.type = "endarc" /\ header.next

SearchOn ==
  /\ pc = "noheader" /\ Promised
  /\ MergeFinds
  /\ pc' = "search"
  /\ UNCHANGED <<fixed, library, slot, call, wrapper, history>>

SearchMisses ==
  /\ pc = "noheader" /\ Promised
  /\ MergeMisses
  /\ Fail("EOpen", "Read")
  /\ UNCHANGED <<fixed, firstFile, destName, slot, call>>

(* Mutant: a damaged header is forgotten at the end.                       *)
SearchEnds_Forgets ==
  /\ pc = "noheader" /\ ~Promised
  /\ EndOfIteration
  /\ UNCHANGED <<fixed, place, library, slot, call>>

SearchEnds ==
  /\ pc = "noheader" /\ ~Promised
  /\ IF broken THEN Fail("BadData", "Read") ELSE EndOfIteration
  /\ UNCHANGED <<fixed, place, library, slot, call>>

(* Mutant: the rest of a split file is an entry of its own.                *)
Continuation_Never == FALSE

(* The rest of a split file is no entry of its own in List mode: it is     *)
(* passed with RARProcessFile(RAR_SKIP) and the search goes on.            *)
Continuation == mode = "List" /\ fileHead.before

PassContinuation ==
  /\ pc = "found" /\ Continuation
  /\ \/ /\ IF fileHead.after THEN MergeFinds ELSE SeekToNext
        /\ dllError' = "Success"
        /\ pc' = "search"
        /\ UNCHANGED <<wrapper, history>>
     \/ fileHead.after /\ MergeMisses /\ Fail("EOpen", "Read")
  /\ UNCHANGED <<fixed, firstFile, destName, slot, call>>

(* The header is returned, with the error the handle remembers.            *)
Found ==
  /\ pc = "found" /\ ~Continuation
  /\ IF dllError = "Success" THEN HeaderFound
                             ELSE Fail(dllError, "Read") /\ UNCHANGED slot
  /\ UNCHANGED <<fixed, place, library, call>>

-----------------------------------------------------------------------------
(* ProcessFile.                                                            *)

Operation == IF call = "next" THEN "skip" ELSE call
Seeking == Listing \/ (Operation = "skip" /\ ~solid)

SkipFile ==
  /\ pc = "process" /\ Seeking
  /\ \/ /\ IF fileHead.after THEN MergeFinds ELSE SeekToNext
        /\ dllError' = "Success"
        /\ Processed
     \/ fileHead.after /\ MergeMisses /\ Fail("EOpen", "Process")
  /\ UNCHANGED <<fixed, firstFile, destName, slot, call>>

(* On Linux the wrapper turns every extraction into one with a DestName.   *)
Unpack ==
  /\ pc = "process" /\ ~Seeking
  /\ destName' = (call \in {"extract", "extract_to"})
  /\ firstFile' = FALSE
  /\ IF fileHead.before
       THEN /\ dllError' = IF firstFile THEN "BadData" ELSE "Success"
            /\ SeekToNext
            /\ effect' = "nothing" /\ pc' = "services"
       ELSE /\ dllError' = "Success"
            /\ effect' = "all" /\ pc' = "unpack"
            /\ UNCHANGED place
  /\ UNCHANGED <<fixed, slot, call, wrapper, yielded, failed, passed, told>>

(* Mutant: the missing volume is not recorded.                             *)
UnpackOn_Silent ==
  /\ pc = "unpack" /\ fileHead.after
  /\ \/ MergeFinds /\ at' = "start" /\ UNCHANGED <<pc, dllError, effect>>
     \/ /\ vol = present
        /\ at' = "next" /\ UNCHANGED <<dllError, vol, cur, header, fileHead, broken>>
        /\ effect' = "part" /\ pc' = "services"
  /\ UNCHANGED <<fixed, firstFile, destName, slot, call, wrapper, yielded, failed,
                 passed, told>>

(* UnpRead asks for the next volume as long as the file goes on.           *)
UnpackOn ==
  /\ pc = "unpack" /\ fileHead.after
  /\ \/ MergeFinds /\ at' = "start" /\ UNCHANGED <<pc, dllError, effect>>
     \/ /\ vol = present
        /\ dllError' = "EOpen"
        /\ at' = "next" /\ UNCHANGED <<vol, cur, header, fileHead, broken>>
        /\ effect' = "part" /\ pc' = "services"
  /\ UNCHANGED <<fixed, firstFile, destName, slot, call, wrapper, yielded, failed,
                 passed, told>>

(* The data ends: it is complete, or it fails in one of the ways that      *)
(* ExtractCurrentFile reports.                                             *)
UnpackEnds(code) ==
  /\ pc = "unpack" /\ ~fileHead.after
  /\ dllError' = code
  /\ SeekToNext
  /\ pc' = "services"
  /\ UNCHANGED <<fixed, firstFile, destName, slot, call, wrapper, history>>

(* Service blocks belong to the file before them and are passed; then the  *)
(* position goes back to the block that was read last.                     *)
PassService ==
  /\ pc = "services"
  /\ \E b \in {Blocks[i] : i \in 1 .. Len(Blocks)} : b.type = "other" /\ ReadsBlock(b)
  /\ at' = "next"
  /\ UNCHANGED <<fixed, library, slot, pc, call, wrapper, history>>

ProcessReturns ==
  /\ pc = "services"
  /\ ~Astray
  /\ IF Ahead <= Len(Blocks) /\ Blocks[Ahead].type # "corrupt"
       THEN /\ Blocks[Ahead].type # "other"
            /\ ReadsBlock(Blocks[Ahead])
            /\ at' = "start"
       ELSE /\ header' = NoBlock
            /\ broken' = (broken \/ Ahead <= Len(Blocks))
            /\ cur' = Ahead /\ at' = "start"
            /\ UNCHANGED <<vol, fileHead>>
  /\ IF dllError = "Success" THEN Processed ELSE Fail(dllError, "Process")
  /\ UNCHANGED <<fixed, library, slot, call>>

-----------------------------------------------------------------------------
(* RARExtractAllW as the callback slot sees it.                            *)

Messages == {"file", "data", "volume"}

(* Internal::callback stores the name of a volume, and data for read;      *)
(* extract_callback keeps the size of a file and passes events on.         *)
Stores(owner, msg) ==
  CASE owner = "none" -> FALSE
    [] owner = "extract_all_with_callback" -> msg = "file"
    [] OTHER -> msg = "volume" \/ (msg = "data" /\ owner = "read")

FilesLeft ==
  \E v \in vol .. present : \E i \in 1 .. Len(archive[v]) :
    archive[v][i].type = "file" /\ (v = vol => i >= Ahead)

BatchTells(msg) ==
  /\ pc = "batch"
  /\ IF msg = "volume" THEN vol < Len(archive) ELSE FilesLeft
  /\ told' = IF Stores(slot, msg) THEN slot ELSE told
  /\ UNCHANGED <<fixed, place, library, slot, pc, call, wrapper, yielded, failed,
                 passed, effect>>

BatchReturns ==
  /\ pc = "batch"
  /\ pc' = "idle" /\ cursor' = "dropped"
  /\ result' = Result("Batch", "Success", "Process")
  /\ UNCHANGED <<fixed, place, library, slot, call, damaged, heals, history>>

-----------------------------------------------------------------------------
Library ==
  \/ Search \/ SearchOn \/ SearchMisses \/ SearchEnds
  \/ PassContinuation \/ Found
  \/ SkipFile \/ Unpack \/ UnpackOn
  \/ \E code \in {"Success", "BadData"} : UnpackEnds(code)
  \/ PassService \/ ProcessReturns
  \/ \E msg \in Messages : BatchTells(msg)
  \/ BatchReturns

Caller ==
  \/ ReadHeader
  \/ NextItem
  \/ NextWhenDamaged
  \/ ForceHeal
  \/ \E c \in {"skip", "read", "test", "extract", "extract_to"} : Process(c)
  \/ \E c \in {"extract_all", "extract_all_with_callback"} : ExtractAll(c)

Next == Library \/ Caller

(* The library runs on the caller's thread; what the caller does next is   *)
(* up to it.                                                               *)
Spec == Init /\ [][Next]_vars /\ WF_vars(Library)

-----------------------------------------------------------------------------
(* Properties.                                                             *)

(* How RAR lays out a set.  Nothing that is listed or leads on follows an  *)
(* end record; a file that goes on in the next volume is the last one of   *)
(* its own; every volume but the last leads on to the next; the rest of a  *)
(* file comes in the volume after one in which a file was split.           *)
EndIsEnd ==
  \A a \in Archives : \A v \in 1 .. Len(a) : \A i, j \in 1 .. Len(a[v]) :
    a[v][i].type = "endarc" /\ i < j => a[v][j].type \notin {"file", "endarc"}
SplitIsLast ==
  \A a \in Archives : \A v \in 1 .. Len(a) : \A i, j \in 1 .. Len(a[v]) :
    a[v][i].type = "file" /\ a[v][i].after /\ i < j => a[v][j].type # "file"
LeadsOn(b) == (b.type = "endarc" /\ b.next) \/ (b.type = "file" /\ b.after)
VolumesLeadOn ==
  \A a \in Archives : \A v \in 1 .. Len(a) - 1 :
    /\ \E i \in 1 .. Len(a[v]) : LeadsOn(a[v][i])
    /\ \A i \in 1 .. Len(a[v]) : a[v][i].type = "endarc" => a[v][i].next

RestFollows ==
  \A a \in Archives : \A v \in 1 .. Len(a) : \A i \in 1 .. Len(a[v]) :
    a[v][i].type = "file" /\ a[v][i].before =>
      v > 1 /\ \E j \in 1 .. Len(a[v - 1]) : a[v - 1][j].type = "file" /\ a[v - 1][j].after

(* Every variable has its type.                                            *)
Entries == [id : Nat, before : BOOLEAN, after : BOOLEAN]
Owners ==
  {"none", "read_header", "skip", "read", "test", "extract", "extract_to",
   "extract_all_with_callback"}
TypeOK ==
  /\ archive \in Archives /\ present \in 1 .. Len(archive) /\ opened \in 1 .. present
  /\ info \in {"None", "First", "Subsequent"} /\ mode \in Modes
  /\ {solid, broken, firstFile, destName, damaged, failed} \subseteq BOOLEAN
  /\ vol \in opened .. present /\ cur \in 1 .. Len(Blocks) + 1
  /\ at \in {"start", "data", "next"}
  /\ header \in Block \cup {NoBlock} /\ fileHead \in Block \cup {NoBlock}
  /\ dllError \in {"Success", "EOpen", "BadData"}
  /\ slot \in Owners /\ told \in Owners
  /\ pc \in {"idle", "search", "noheader", "found", "process", "unpack", "services",
            "batch"}
  /\ cursor \in {"header", "file", "dropped"}
  /\ heals \in 0 .. MaxHeals
  /\ result.kind \in {"none", "Some", "None", "Err", "Batch"}
  /\ yielded \in Seq(Entries) /\ passed \subseteq Nat
  /\ effect \in {"none", "all", "part", "nothing", "directory", "one file"}

(* What a listing should show from the opened volume on: every file once   *)
(* in List mode, every part of every file in ListSplit mode.               *)
Shown(b) == b.type = "file" /\ (mode = "List" => ~b.before)
HeaderAt(p) == archive[p[1]][p[2]]
ToShow ==
  UNION {{v} \X {i \in 1 .. Len(archive[v]) : Shown(HeaderAt(<<v, i>>))} :
           v \in opened .. Len(archive)}

Precedes(p, q) == p[1] < q[1] \/ (p[1] = q[1] /\ p[2] < q[2])
UpTo(q) == {p \in ToShow : ~Precedes(q, p)}
Expected ==
  [k \in 1 .. Cardinality(ToShow) |->
     Entry(HeaderAt(CHOOSE p \in ToShow : Cardinality(UpTo(p)) = k))]

(* A listing over a volume set repeats nothing, omits nothing, keeps the   *)
(* order and gives each entry the flags of its own header, with the        *)
(* iterator or with read_header and skip, whatever errors come between.    *)
(* So no entry of List mode is the rest of a file, which the footnote to   *)
(* is_split_before calls an unproven claim.                                *)
YieldedInOrder ==
  Listing => /\ Len(yielded) <= Len(Expected)
             /\ \A i \in 1 .. Len(yielded) : yielded[i] = Expected[i]

(* A listing that ends without an error has shown everything: a missing    *)
(* volume or a header that cannot be read is never taken for the end.      *)
EndMeansAll ==
  Listing /\ ~failed /\ result.kind = "None" => yielded = Expected

(* A volume that is called the first can be read from its start: its first *)
(* entry is not the rest of a file.  The scan in IsArchive goes on past a  *)
(* service block for this.                                                 *)
FirstIsReadable == info = "First" /\ yielded # <<>> => ~yielded[1].before

(* The end is not reported in a volume in which a header was damaged, not  *)
(* even to a caller who heals the iterator after the error.                *)
DamageIsReported ==
  [][pc # "idle" /\ pc' = "idle" /\ result'.kind = "None" =>
       \A i \in 1 .. Len(Blocks) : i <= cur => Blocks[i].sound]_vars

(* While the library runs for a call that has a callback, the callback and *)
(* its user data are those of this very call, never an earlier one's.      *)
CallbackIsLive ==
  /\ pc \in {"search", "noheader", "found"} => slot = "read_header"
  /\ pc \in {"process", "unpack", "services"} => slot = Operation
  /\ pc = "batch" /\ call = "extract_all_with_callback" => slot = call

(* extract_all, which takes no callback, calls none.                       *)
ExtractAllTellsNobody == call = "extract_all" => told = "none"

(* The cursor types keep a batch on a handle that has processed nothing    *)
(* free of what earlier calls leave behind: it fills the directory and     *)
(* stores in no user data but its own.                                     *)
FreshHandleIsClean ==
  passed = {} => told \in {"none", "extract_all_with_callback"} /\ effect # "one file"

(* After an error the iterator yields no entry: healing recovers nothing,  *)
(* because the position or the error is lost.                              *)
NothingAfterFailure ==
  [][failed => yielded' = yielded]_vars

(* Every call returns: the walk over volumes and headers ends.             *)
CallsReturn == (pc # "idle") ~> (pc = "idle")

(* A file whose end is in a missing volume is never delivered as a success,*)
(* whoever asks for it, and whatever blocks follow in this volume.         *)
TruncationIsReported ==
  result.kind = "Some" /\ result.when = "Process" => effect # "part"
=============================================================================
