---------------------------- MODULE BatchExtract ----------------------------
(***************************************************************************)
(* One call of OpenArchive::extract_all or extract_all_with_callback: the  *)
(* loop of RARExtractAllW over the headers of the archive, the stages of   *)
(* CmdExtract::ExtractCurrentFile for one header, the merge of the next    *)
(* volume, the trampoline extract_callback with its CallbackData, and the  *)
(* value the Rust method returns.                                          *)
(*                                                                         *)
(* The archive is a stream of headers nobody knows in advance: every read  *)
(* returns any header an archive may hold.  File data, names and paths are *)
(* abstracted to what changes the control flow.                            *)
(***************************************************************************)
EXTENDS Naturals

CONSTANTS
  FileHeaders,   \* the file headers an archive may hold
  MaxBlocks,     \* bound: headers read in one call
  MaxVolumes,    \* bound: volumes merged in one call
  DictLimit,     \* Cmd->WinSizeLimit when the archive is opened
  Losses         \* how the next volume may fail to open

Encryption == {"plain", "mine", "other", "unverified"}

(***************************************************************************)
(* named: the name decodes to something (read_filename is Some); size: the *)
(* unpacked size; dict: the dictionary needed; kind: file data, directory, *)
(* symbolic or hard link, file copy; before and after: the file is split   *)
(* over volumes; known: the format version is supported; enc: not          *)
(* encrypted, encrypted with the password in use, with another one the     *)
(* header can tell, or with another one it cannot tell.                    *)
(***************************************************************************)
FileHeader ==
  [named: BOOLEAN, size: Nat, dict: Nat, kind: {"data", "dir", "link", "copy"},
   before: BOOLEAN, after: BOOLEAN, known: BOOLEAN, enc: Encryption]

ASSUME BatchAssumption ==
  /\ FileHeaders \subseteq FileHeader
  /\ MaxBlocks \in Nat
  /\ MaxVolumes \in Nat
  /\ DictLimit \in Nat
  /\ Losses \subseteq {"absent", "directory"}

BlankHeader ==
  [named |-> FALSE, size |-> 0, dict |-> 0, kind |-> "data", before |-> FALSE,
   after |-> FALSE, known |-> TRUE, enc |-> "plain"]

(* The codes the library can return here, as Code in error.rs names them.  *)
Success == "Success"
ThrownCodes == {"ERead", "EWrite", "BadArchive", "NoMemory"}
FileCodes ==
  {"BadData", "UnknownFormat", "MissingPassword", "BadPassword", "ECreate",
   "LargeDict", "EOpen", "EReference"}
Codes == {Success} \cup FileCodes \cup ThrownCodes

(* What can go wrong.  The library records nothing for the last three: the *)
(* rest of a file whose beginning was not extracted, a link or destination *)
(* it refuses, and a directory that bears the name of the next volume.     *)
Recorded ==
  {"misplaced", "version", "password", "dict", "create", "reference",
   "volume", "checksum"}
Troubles == Recorded \cup {"orphan", "link", "blocked"}

VARIABLES
  pc,            \* position in the loop
  solid,         \* Arc.Solid
  encHeaders,    \* Arc.Encrypted: headers are encrypted too
  password,      \* Cmd->Password: never set, set, or erased while set
  listening,     \* Cmd->Callback is extract_callback; otherwise NULL
  blocks,        \* headers read so far
  volumes,       \* volumes merged so far
  block,         \* Arc.GetHeaderType()
  file,          \* Arc.FileHead
  current,       \* IsFileHeader, CurrentFileName, CurrentFileSize
  firstFile,     \* CmdExtract::FirstFile
  unpVolume,     \* ComprDataIO::UnpVolume
  target,        \* where unpacked data goes (ExtrFile, SkipSolid)
  success,       \* what ExtractCurrentFile returns
  winLimit,      \* Cmd->WinSizeLimit
  dllError,      \* Cmd->DllError
  ret,           \* what RARExtractAllW returned
  cancelled,     \* CallbackData::cancelled
  pendingSize,   \* CallbackData::pending_size
  event,         \* the last ExtractEvent, with the closure's answer
  status,        \* what the Rust method returned, "none" while it runs
  stop,          \* history: why the walk over the headers ended
  trouble,       \* history: what went wrong with the current file
  troubles,      \* history: everything that went wrong
  owed           \* history: data the unpacker of a solid archive has not had

reading == <<blocks, volumes, block, file, current, stop>>
staging == <<firstFile, unpVolume, target, success, winLimit>>
wrapper == <<cancelled, pendingSize, event>>
history == <<trouble, troubles>>
fixed == <<solid, encHeaders, listening>>
steady == <<fixed, owed>>
vars == <<pc, steady, password, reading, staging, dllError, ret, wrapper,
          status, history>>

Event(kind, size, code, go) ==
  [kind |-> kind, size |-> size, code |-> code, go |-> go]

NoEvent == Event("None", 0, Success, TRUE)

NoFile == [here |-> FALSE, named |-> FALSE, size |-> 0]

Suffer(t) ==
  /\ trouble' = trouble \cup {t}
  /\ troubles' = troubles \cup {t}

(* Encrypted headers can be read only while the password is set.           *)
Readable == encHeaders => password = "set"

(***************************************************************************)
(* An exception unwinds to RARExtractAllW: bad_alloc becomes NoMemory, a   *)
(* RAR_EXIT the error recorded earlier or else its own code.               *)
(***************************************************************************)
Throw(code) ==
  /\ ret' = IF code # "NoMemory" /\ dllError' # Success THEN dllError' ELSE code
  /\ pc' = "return"

Init ==
  /\ pc = "read"
  /\ solid \in BOOLEAN /\ encHeaders \in BOOLEAN /\ listening \in BOOLEAN
  /\ password \in {"none", "set"}
  /\ blocks = 0 /\ volumes = 0
  /\ block = "unknown" /\ file = BlankHeader /\ current = NoFile
  /\ firstFile = TRUE /\ unpVolume = FALSE
  /\ target = "nowhere" /\ success = FALSE
  /\ winLimit = DictLimit
  /\ dllError = Success /\ ret = "none"
  /\ cancelled = FALSE /\ pendingSize = 0 /\ event = NoEvent
  /\ status = "none" /\ stop = "none"
  /\ trouble = {} /\ troubles = {} /\ owed = {}

-----------------------------------------------------------------------------
(* Archive::ReadHeader, called at the top of the loop.                     *)

ReadFileHeader(h) ==
  /\ pc = "read" /\ blocks < MaxBlocks /\ Readable
  /\ blocks' = blocks + 1
  /\ block' = "file" /\ file' = h
  /\ current' = [here |-> TRUE, named |-> h.named, size |-> h.size]
  /\ pc' = "start"
  /\ UNCHANGED <<steady, password, volumes, stop, staging, dllError, ret,
                 wrapper, status, history>>

ReadOtherHeader(type) ==
  /\ pc = "read" /\ blocks < MaxBlocks /\ Readable
  /\ blocks' = blocks + 1
  /\ block' = type /\ current' = NoFile
  /\ pc' = "extract"
  /\ UNCHANGED <<steady, password, volumes, file, stop, staging, dllError, ret,
                 wrapper, status, history>>

(* Nothing is read: the file ends, the header is corrupt, or it does not   *)
(* decrypt and FailedHeaderDecryption is set.                              *)
ReadNothing(why) ==
  /\ pc = "read"
  /\ why = "broken" => Readable
  /\ why = "locked" => encHeaders /\ Readable
  /\ block' = "unknown" /\ current' = NoFile
  /\ stop' = why
  /\ pc' = "extract"
  /\ UNCHANGED <<steady, password, blocks, volumes, file, staging, dllError, ret,
                 wrapper, status, history>>

ReadThrows(code) ==
  /\ pc = "read"
  /\ IF code = "MissingPassword" THEN ~Readable /\ dllError' = code
                                 ELSE dllError' = dllError
  /\ current' = NoFile
  /\ Throw(code)
  /\ UNCHANGED <<steady, password, blocks, volumes, block, file, stop, staging,
                 wrapper, status, history>>

-----------------------------------------------------------------------------
(* UCM_EXTRACTFILE and the trampoline's arm for it.                        *)

(* Mutant: the size is not kept for the Ok event.                          *)
StartFile_LosesSize(go) ==
  /\ pc = "start"
  /\ listening /\ current.named
  /\ event' = Event("Start", current.size, Success, go)
  /\ cancelled' = ~go
  /\ ret' = IF go THEN ret ELSE Success
  /\ pc' = IF go THEN "extract" ELSE "return"
  /\ UNCHANGED <<steady, password, reading, staging, dllError, pendingSize, status,
                 history>>

StartFile(go) ==
  /\ pc = "start"
  /\ listening /\ current.named
  /\ pendingSize' = current.size
  /\ event' = Event("Start", current.size, Success, go)
  /\ cancelled' = ~go
  /\ ret' = IF go THEN ret ELSE Success
  /\ pc' = IF go THEN "extract" ELSE "return"
  /\ UNCHANGED <<steady, password, reading, staging, dllError, status, history>>

StartQuietly ==
  /\ pc = "start"
  /\ ~(listening /\ current.named)
  /\ pendingSize' = IF listening THEN current.size ELSE pendingSize
  /\ pc' = "extract"
  /\ UNCHANGED <<steady, password, reading, staging, dllError, ret, cancelled,
                 event, status, history>>

-----------------------------------------------------------------------------
(* ExtractCurrentFile on anything but a file header.                       *)

Finish(ok) == success' = ok /\ pc' = "report"

SkipBlock ==
  /\ pc = "extract" /\ block = "other"
  /\ Finish(TRUE)
  /\ UNCHANGED <<steady, password, reading, firstFile, unpVolume, target, winLimit,
                 dllError, ret, wrapper, status, history>>

(* Mutant: the end of the archive is a success, too.                       *)
EndOfArchive_GoesOn ==
  /\ pc = "extract"
  /\ block = "endarc" \/ (block = "unknown" /\ ~unpVolume)
  /\ stop' = IF block = "endarc" THEN "end" ELSE stop
  /\ Finish(TRUE)
  /\ UNCHANGED <<steady, password, blocks, volumes, block, file, current, firstFile,
                 unpVolume, target, winLimit, dllError, ret, wrapper, status,
                 history>>

EndOfArchive ==
  /\ pc = "extract"
  /\ block = "endarc" \/ (block = "unknown" /\ ~unpVolume)
  /\ stop' = IF block = "endarc" THEN "end" ELSE stop
  /\ Finish(FALSE)
  /\ UNCHANGED <<steady, password, blocks, volumes, block, file, current, firstFile,
                 unpVolume, target, winLimit, dllError, ret, wrapper, status,
                 history>>

(* MergeArchive between two files: after an end record that promises more, *)
(* or when an old volume simply ends and its last file was not complete.   *)
AtVolumeEnd ==
  /\ pc = "extract"
  /\ block = "nextvol" \/ (block = "unknown" /\ unpVolume)

(* The end record is handled; the loop reads the new volume's headers.     *)
FollowVolume ==
  /\ AtVolumeEnd /\ block = "nextvol"
  /\ volumes < MaxVolumes /\ Readable
  /\ volumes' = volumes + 1
  /\ unpVolume' = FALSE
  /\ Finish(TRUE)
  /\ UNCHANGED <<steady, password, blocks, block, file, current, stop, firstFile,
                 target, winLimit, dllError, ret, wrapper, status, history>>

(* ExtractCurrentFile goes on with the first header of the new volume,     *)
(* which the loop never saw: no event announces a file found here.  Type   *)
(* "other" includes a header that cannot be read.                          *)
JumpVolume(type, h) ==
  /\ AtVolumeEnd /\ block = "unknown"
  /\ volumes < MaxVolumes /\ blocks < MaxBlocks /\ Readable
  /\ volumes' = volumes + 1 /\ blocks' = blocks + 1
  /\ block' = type
  /\ file' = IF type = "file" THEN h ELSE file
  /\ unpVolume' = file'.after
  /\ stop' = "none"
  /\ UNCHANGED <<pc, steady, password, current, firstFile, target, success, winLimit,
                 dllError, ret, wrapper, status, history>>

(* MergeArchive cannot open the next volume.  Both trampolines answer      *)
(* RAR_VOL_ASK with -1 and no callback at all means abort, so DllVolChange *)
(* records EOpen; a directory of that name never gets as far.              *)
LoseVolume(how) ==
  /\ dllError' = IF how = "absent" THEN "EOpen" ELSE dllError
  /\ Suffer(IF how = "absent" THEN "volume" ELSE "blocked")

MissVolume(how) ==
  /\ AtVolumeEnd
  /\ LoseVolume(how)
  /\ Finish(FALSE)
  /\ UNCHANGED <<steady, password, reading, firstFile, unpVolume, target, winLimit,
                 ret, wrapper, status>>

(* It opens, but is no RAR volume, or not one with the same encryption of  *)
(* headers, or its headers need a password that is gone.                   *)
BadVolume(code) ==
  /\ AtVolumeEnd \/ (pc = "unpack" /\ file.kind = "data" /\ unpVolume)
  /\ IF code = "MissingPassword" THEN ~Readable /\ dllError' = code
                                 ELSE dllError' = dllError
  /\ Throw(code)
  /\ UNCHANGED <<steady, password, reading, staging, wrapper, status, history>>

-----------------------------------------------------------------------------
(* ExtractCurrentFile on a file header: is this file wanted at all?        *)

(* In a solid archive data that begins here is owed to the unpacker.       *)
TakeFile ==
  /\ pc = "extract" /\ block = "file"
  /\ firstFile' = FALSE
  /\ unpVolume' = file.after
  /\ owed' = IF solid /\ file.kind = "data" /\ ~file.before
               THEN owed \cup {blocks} ELSE owed

(* Extraction began in the middle of a set, or of a file.                  *)
Misplaced == firstFile /\ file.before
Orphan == ~firstFile /\ file.before

SkipMisplaced ==
  /\ TakeFile
  /\ Misplaced /\ ~solid
  /\ dllError' = "BadData"
  /\ trouble' = {"misplaced"} /\ troubles' = troubles \cup {"misplaced"}
  /\ Finish(TRUE)
  /\ UNCHANGED <<fixed, password, reading, target, winLimit, ret, wrapper, status>>

(* The rest of a file that begins elsewhere is recorded as bad data if it  *)
(* is the first; a solid archive then still checks its dictionary.         *)
Beginning ==
  IF Misplaced THEN {"misplaced"} ELSE IF Orphan THEN {"orphan"} ELSE {}

RejectVersion ==
  /\ TakeFile
  /\ Misplaced => solid
  /\ ~file.known
  /\ dllError' = "UnknownFormat"
  /\ trouble' = Beginning \cup {"version"} /\ troubles' = troubles \cup trouble'
  /\ Finish(~solid)
  /\ UNCHANGED <<fixed, password, reading, target, winLimit, ret, wrapper, status>>

(* Mutant: every file starts with a clean error, as in RARProcessFile.     *)
Admit_ClearsError ==
  /\ TakeFile
  /\ Misplaced => solid
  /\ file.known
  /\ target' = IF file.before THEN "nowhere" ELSE "disk"
  /\ dllError' = IF Misplaced THEN "BadData" ELSE Success
  /\ trouble' = Beginning /\ troubles' = troubles \cup Beginning
  /\ pc' = "decrypt"
  /\ UNCHANGED <<fixed, password, reading, success, winLimit, ret, wrapper, status>>

Admit ==
  /\ TakeFile
  /\ Misplaced => solid
  /\ file.known
  /\ target' = IF file.before THEN "nowhere" ELSE "disk"
  /\ dllError' = IF Misplaced THEN "BadData" ELSE dllError
  /\ trouble' = Beginning /\ troubles' = troubles \cup Beginning
  /\ pc' = "decrypt"
  /\ UNCHANGED <<fixed, password, reading, success, winLimit, ret, wrapper, status>>

-----------------------------------------------------------------------------
(* The password of an encrypted file.  A callback of this library never    *)
(* supplies one, so ExtrDllGetPassword only tells whether it is set.       *)

PasswordFits ==
  /\ pc = "decrypt"
  /\ file.enc = "plain" \/ (password = "set" /\ file.enc # "other")
  /\ pc' = "open"
  /\ UNCHANGED <<steady, password, reading, staging, dllError, ret, wrapper, status,
                 history>>

PasswordMissing ==
  /\ pc = "decrypt"
  /\ file.enc # "plain" /\ password # "set"
  /\ dllError' = "MissingPassword"
  /\ Suffer("password")
  /\ Finish(FALSE)
  /\ UNCHANGED <<steady, password, reading, firstFile, unpVolume, target, winLimit,
                 ret, wrapper, status>>

(* The header can tell that the password is wrong.  GlobalPassword is      *)
(* false, because RAROpenArchiveEx computed it before RARSetPassword was   *)
(* called, so the password is erased.                                      *)
PasswordWrong ==
  /\ pc = "decrypt"
  /\ file.enc = "other" /\ password = "set"
  /\ password' = "cleaned"
  /\ dllError' = IF dllError = "EOpen" THEN dllError ELSE "BadPassword"
  /\ target' = "nowhere"
  /\ Suffer("password")
  /\ pc' = "open"
  /\ UNCHANGED <<steady, reading, firstFile, unpVolume, success, winLimit, ret,
                 wrapper, status>>

-----------------------------------------------------------------------------
(* Opening the destination.                                                *)

(* LinksToDirs: a link stands in the destination path and cannot be made a *)
(* directory again.                                                        *)
RefuseTarget ==
  /\ pc = "open" /\ target = "disk"
  /\ target' = "nowhere"
  /\ Suffer("link")
  /\ UNCHANGED <<pc, steady, password, reading, firstFile, unpVolume, success,
                 winLimit, dllError, ret, wrapper, status>>

Directory(made) ==
  /\ pc = "open" /\ file.kind = "dir"
  /\ IF made \/ target # "disk"
       THEN UNCHANGED <<dllError, history>>
       ELSE dllError' = "ECreate" /\ Suffer("create")
  /\ Finish(TRUE)
  /\ UNCHANGED <<steady, password, reading, firstFile, unpVolume, target, winLimit,
                 ret, wrapper, status>>

(* Mutant: the file is passed over in a solid archive as well.             *)
PassOver_Solid ==
  /\ pc = "open" /\ target = "nowhere" /\ file.kind # "dir"
  /\ Finish(TRUE)
  /\ UNCHANGED <<steady, password, reading, firstFile, unpVolume, target, winLimit,
                 dllError, ret, wrapper, status, history>>

(* Without a destination a file is passed over, unless later files of a    *)
(* solid archive need its data in the dictionary.                          *)
PassOver ==
  /\ pc = "open" /\ target = "nowhere" /\ file.kind # "dir" /\ ~solid
  /\ Finish(TRUE)
  /\ UNCHANGED <<steady, password, reading, firstFile, unpVolume, target, winLimit,
                 dllError, ret, wrapper, status, history>>

SkipInMemory ==
  /\ pc = "open" /\ target = "nowhere" /\ file.kind # "dir" /\ solid
  /\ target' = "memory"
  /\ UNCHANGED <<pc, steady, password, reading, firstFile, unpVolume, success,
                 winLimit, dllError, ret, wrapper, status, history>>

(* CheckWinLimit and uiDictLimit: one question per new largest dictionary. *)
Unpacked ==
  /\ pc = "open"
  /\ \/ target = "memory" /\ file.kind # "dir"
     \/ target = "disk" /\ file.kind \in {"data", "copy"}

PermitDict ==
  /\ Unpacked /\ file.dict > winLimit /\ listening
  /\ event' = Event("LargeDict", file.dict, Success, TRUE)
  /\ winLimit' = file.dict
  /\ UNCHANGED <<pc, steady, password, reading, firstFile, unpVolume, target, success,
                 dllError, ret, cancelled, pendingSize, status, history>>

RefuseDict ==
  /\ Unpacked /\ file.dict > winLimit
  /\ event' = IF listening THEN Event("LargeDict", file.dict, Success, FALSE)
              ELSE event
  /\ dllError' = "LargeDict"
  /\ Suffer("dict")
  /\ Finish(FALSE)
  /\ UNCHANGED <<steady, password, reading, firstFile, unpVolume, target, winLimit,
                 ret, cancelled, pendingSize, status>>

(* Data of a file that began in an earlier volume is not unpacked, and a   *)
(* link in memory is not made.                                             *)
EnterMemory ==
  /\ Unpacked /\ target = "memory" /\ file.dict <= winLimit
  /\ success' = TRUE
  /\ pc' = IF file.kind = "data" /\ ~file.before THEN "unpack" ELSE "verify"
  /\ UNCHANGED <<steady, password, reading, firstFile, unpVolume, target, winLimit,
                 dllError, ret, wrapper, status, history>>

(* Mutant: unpacking goes on although nothing could be created.            *)
CreateFile_GoesOn(outcome) ==
  /\ Unpacked /\ target = "disk" /\ file.dict <= winLimit
  /\ IF outcome = "ok" THEN UNCHANGED <<dllError, history>>
                       ELSE dllError' = "ECreate" /\ Suffer("create")
  /\ target' = IF outcome = "failed" THEN "nowhere" ELSE target
  /\ pc' = "unpack" /\ success' = TRUE
  /\ UNCHANGED <<steady, password, reading, firstFile, unpVolume, winLimit, ret,
                 wrapper, status>>

(* Mutant: the error is recorded before the outcome is known.              *)
CreateFile_Hasty(outcome) ==
  /\ Unpacked /\ target = "disk" /\ file.dict <= winLimit
  /\ dllError' = "ECreate"
  /\ IF outcome = "ok" THEN UNCHANGED history ELSE Suffer("create")
  /\ IF outcome = "failed" THEN target' = "nowhere" /\ UNCHANGED <<pc, success>>
                           ELSE pc' = "unpack" /\ success' = TRUE /\ UNCHANGED target
  /\ UNCHANGED <<steady, password, reading, firstFile, unpVolume, winLimit, ret,
                 wrapper, status>>

(* ExtrCreateFile.  A name the system cannot use is corrected and tried    *)
(* again; the error recorded for the first attempt stays.                  *)
CreateFile(outcome) ==
  /\ Unpacked /\ target = "disk" /\ file.dict <= winLimit
  /\ IF outcome = "ok" THEN UNCHANGED <<dllError, history>>
                       ELSE dllError' = "ECreate" /\ Suffer("create")
  /\ IF outcome = "failed" THEN target' = "nowhere" /\ UNCHANGED <<pc, success>>
                           ELSE pc' = "unpack" /\ success' = TRUE /\ UNCHANGED target
  /\ UNCHANGED <<steady, password, reading, firstFile, unpVolume, winLimit, ret,
                 wrapper, status>>

OpenLink ==
  /\ pc = "open" /\ target = "disk" /\ file.kind = "link"
  /\ pc' = "unpack" /\ success' = TRUE
  /\ UNCHANGED <<steady, password, reading, firstFile, unpVolume, target, winLimit,
                 dllError, ret, wrapper, status, history>>

-----------------------------------------------------------------------------
(* Unpacking.                                                              *)

(* ExtractSymlink, ExtractHardlink, ExtractFileCopy.  Only the copy leaves *)
(* an error behind.                                                        *)
MakeLink(made) ==
  /\ pc = "unpack" /\ file.kind \in {"link", "copy"}
  /\ pc' = IF made THEN "verify" ELSE "report"
  /\ IF made THEN UNCHANGED <<dllError, history>>
     ELSE IF file.kind = "copy"
       THEN dllError' = "EReference" /\ Suffer("reference")
       ELSE Suffer("link") /\ UNCHANGED dllError
  /\ UNCHANGED <<steady, password, reading, staging, ret, wrapper, status>>

Unpacking == pc = "unpack" /\ file.kind = "data"

UnpackDone ==
  /\ Unpacking
  /\ owed' = owed \ {blocks}
  /\ pc' = "verify"
  /\ UNCHANGED <<fixed, password, reading, staging, dllError, ret, wrapper, status,
                 history>>

(* UnpRead has used up this volume and MergeArchive opened the next: the   *)
(* header of the continuation replaces the one of the beginning.           *)
MergeInFile(more) ==
  /\ Unpacking /\ unpVolume
  /\ volumes < MaxVolumes /\ Readable
  /\ volumes' = volumes + 1
  /\ file' = [file EXCEPT !.before = TRUE, !.after = more]
  /\ unpVolume' = more
  /\ UNCHANGED <<pc, steady, password, blocks, block, current, stop, firstFile, target,
                 success, winLimit, dllError, ret, wrapper, status, history>>

MissInFile(how) ==
  /\ Unpacking /\ unpVolume
  /\ LoseVolume(how)
  /\ success' = FALSE /\ pc' = "verify"
  /\ UNCHANGED <<steady, password, reading, firstFile, unpVolume, target, winLimit,
                 ret, wrapper, status>>

(* A link's target is read, too; a copy is read and written.               *)
UnpackThrows(code) ==
  /\ pc = "unpack"
  /\ file.kind = "link" => code # "EWrite"
  /\ dllError' = dllError
  /\ Throw(code)
  /\ UNCHANGED <<steady, password, reading, staging, wrapper, status, history>>

(* Mutant: the checksum error replaces whatever was recorded before.       *)
Verify_Overwrites(valid) ==
  /\ pc = "verify"
  /\ valid => ~file.after /\ file.enc # "unverified"
  /\ IF valid \/ target = "memory" THEN UNCHANGED <<dllError, history>>
     ELSE dllError' = "BadData" /\ Suffer("checksum")
  /\ pc' = "report"
  /\ UNCHANGED <<steady, password, reading, staging, ret, wrapper, status>>

(* The checksum of what was written; in memory there is none.  It cannot   *)
(* match when the end of the file or the right password was missing.       *)
Verify(valid) ==
  /\ pc = "verify"
  /\ valid => ~file.after /\ file.enc # "unverified"
  /\ IF valid \/ target = "memory" THEN UNCHANGED <<dllError, history>>
     ELSE /\ dllError' = IF dllError \in {"EOpen", "BadPassword"} THEN dllError
                        ELSE "BadData"
          /\ Suffer("checksum")
  /\ pc' = "report"
  /\ UNCHANGED <<steady, password, reading, staging, ret, wrapper, status>>

-----------------------------------------------------------------------------
(* The rest of the loop: UCM_EXTRACTFILE_OK, UCM_EXTRACTFILE_ERR and the   *)
(* trampoline's arms for them.                                             *)

Heard == listening /\ current.here /\ current.named

(* Mutant: the refusal of an Ok or Err event is not noted.                 *)
Deliver_Forgets(e) ==
  /\ event' = e
  /\ UNCHANGED <<cancelled, pendingSize>>

Deliver(e) ==
  /\ event' = e
  /\ cancelled' = ~e.go
  /\ UNCHANGED pendingSize

(* The end of the loop's body: go on after success, return otherwise.      *)
Continue(go) ==
  /\ pc' = IF success /\ go THEN "read" ELSE "return"
  /\ ret' = IF ~go THEN Success ELSE IF success THEN ret ELSE dllError
  /\ UNCHANGED <<steady, password, reading, staging, dllError, status, history>>

ReportOk(go) ==
  /\ pc = "report" /\ Heard /\ success
  /\ Deliver(Event("Ok", pendingSize, Success, go))
  /\ Continue(go)

ReportErr(go) ==
  /\ pc = "report" /\ Heard /\ ~success
  /\ Deliver(Event("Err", 0, dllError, go))
  /\ Continue(go)

ReportQuietly ==
  /\ pc = "report" /\ ~Heard
  /\ UNCHANGED wrapper
  /\ Continue(TRUE)

(* The match at the end of extract_all_with_callback; extract_all has no   *)
(* closure and so never finds it cancelled.                                *)
Return ==
  /\ pc = "return"
  /\ status' = IF ret # Success THEN "Err"
               ELSE IF cancelled THEN "Cancelled" ELSE "Completed"
  /\ pc' = "done"
  /\ UNCHANGED <<steady, password, reading, staging, dllError, ret, wrapper, history>>

-----------------------------------------------------------------------------
Reading ==
  \/ \E h \in FileHeaders : ReadFileHeader(h)
  \/ \E type \in {"other", "endarc", "nextvol"} : ReadOtherHeader(type)
  \/ \E why \in {"eof", "broken", "locked"} : ReadNothing(why)
  \/ \E code \in {"ERead", "NoMemory", "MissingPassword"} : ReadThrows(code)
  \/ \E go \in BOOLEAN : StartFile(go)
  \/ StartQuietly

Skipping ==
  \/ SkipBlock
  \/ EndOfArchive
  \/ FollowVolume
  \/ \E type \in {"file", "other", "endarc", "nextvol"}, h \in FileHeaders :
       JumpVolume(type, h)
  \/ \E how \in Losses : MissVolume(how)
  \/ \E code \in {"ERead", "BadArchive", "MissingPassword"} : BadVolume(code)

Preparing ==
  \/ SkipMisplaced
  \/ RejectVersion
  \/ Admit
  \/ PasswordFits
  \/ PasswordMissing
  \/ PasswordWrong

Opening ==
  \/ RefuseTarget
  \/ \E made \in BOOLEAN : Directory(made)
  \/ PassOver
  \/ SkipInMemory
  \/ PermitDict
  \/ RefuseDict
  \/ EnterMemory
  \/ \E outcome \in {"ok", "failed", "renamed"} : CreateFile(outcome)
  \/ OpenLink

Unpack ==
  \/ \E made \in BOOLEAN : MakeLink(made)
  \/ UnpackDone
  \/ \E more \in BOOLEAN : MergeInFile(more)
  \/ \E how \in Losses : MissInFile(how)
  \/ \E code \in {"ERead", "EWrite", "NoMemory"} : UnpackThrows(code)
  \/ \E valid \in BOOLEAN : Verify(valid)

Reporting ==
  \/ \E go \in BOOLEAN : ReportOk(go) \/ ReportErr(go)
  \/ ReportQuietly
  \/ Return

Next == Reading \/ Skipping \/ Preparing \/ Opening \/ Unpack \/ Reporting

(* One thread runs the call from beginning to end, and the closure returns.*)
Spec == Init /\ [][Next]_vars /\ WF_vars(Next)

-----------------------------------------------------------------------------
(* Properties.                                                             *)

(* Every variable has its type, and a file that is being unpacked has      *)
(* somewhere to go.                                                        *)
TypeOK ==
  /\ pc \in {"read", "start", "extract", "decrypt", "open", "unpack", "verify",
             "report", "return", "done"}
  /\ {solid, encHeaders, listening, firstFile, unpVolume, success, cancelled}
       \subseteq BOOLEAN
  /\ password \in {"none", "set", "cleaned"}
  /\ blocks \in 0 .. MaxBlocks /\ volumes \in 0 .. MaxVolumes
  /\ block \in {"unknown", "file", "other", "endarc", "nextvol"}
  /\ file \in FileHeader
  /\ current \in [here : BOOLEAN, named : BOOLEAN, size : Nat]
  /\ target \in {"nowhere", "disk", "memory"}
  /\ winLimit \in Nat /\ pendingSize \in Nat
  /\ dllError \in Codes /\ ret \in Codes \cup {"none"}
  /\ event \in [kind : {"None", "Start", "Ok", "Err", "LargeDict"}, size : Nat,
                code : Codes, go : BOOLEAN]
  /\ status \in {"none", "Completed", "Cancelled", "Err"}
  /\ stop \in {"none", "eof", "broken", "locked", "end"}
  /\ trouble \subseteq Troubles /\ troubles \subseteq Troubles
  /\ owed \subseteq 0 .. MaxBlocks
  /\ pc = "unpack" => target # "nowhere"

(* The call never says Completed after it has recorded a failure, however  *)
(* many files went well in between.                                        *)
NoRecordedTroubleIsLost ==
  status = "Completed" => troubles \cap Recorded = {}

(* Cancelled is the answer exactly when the last event was a Start, an Ok  *)
(* or an Err that the closure refused: the documentation of ExtractStatus. *)
Refused == event.kind \in {"Start", "Ok", "Err"} /\ ~event.go
CancelledIffRefused ==
  pc = "done" => (status = "Cancelled" <=> Refused)

(* A refused dictionary is no cancellation: the call fails with LargeDict, *)
(* unless the closure goes on to refuse the Err event as well.             *)
DictRefusalFails ==
  pc = "done" /\ "dict" \in troubles =>
    \/ status = "Err" /\ ret = "LargeDict"
    \/ Refused /\ event.kind = "Err" /\ event.code = "LargeDict"

(* The error the call returns, if nothing was thrown, is the code of       *)
(* something that went wrong; a late success cannot have replaced it.      *)
CodeOf(t) ==
  CASE t = "misplaced" -> "BadData"
    [] t = "checksum" -> "BadData"
    [] t = "version" -> "UnknownFormat"
    [] t = "dict" -> "LargeDict"
    [] t = "create" -> "ECreate"
    [] t = "reference" -> "EReference"
    [] t = "volume" -> "EOpen"
    [] OTHER -> "BadPassword"
ErrorIsAccountedFor ==
  status = "Err" =>
    \/ ret \in ThrownCodes
    \/ ret = "MissingPassword" /\ password # "set"
    \/ \E t \in troubles \cap Recorded : ret = CodeOf(t)

(* An Err event names a cause, and it is the cause the call then returns,  *)
(* unless a directory has the name of a volume, which records nothing.     *)
ErrEventCarriesCause ==
  event.kind = "Err" /\ "blocked" \notin troubles =>
    /\ event.code # Success
    /\ status = "Err" => ret = event.code

(* A file of a solid archive needs the dictionary of those before it: when *)
(* it enters the unpacker, the unpacker has had the data of every file     *)
(* that began earlier in this call, even if it could not be written.  The  *)
(* rest of a file that began before the call never enters the unpacker     *)
(* (extract.cpp:900) and is not owed.                                      *)
SolidStreamIntact ==
  solid /\ Unpacking => owed = {blocks}

(* The checksum failures that follow from a wrong password do not hide it. *)
BadPasswordNotMasked ==
  [][dllError = "BadPassword" => dllError' # "BadData"]_vars

(* A missing volume ends the call with EOpen, even though the checksum of  *)
(* the truncated file fails afterwards; only a refused Err can hide it.    *)
MissingVolumeFails ==
  pc = "done" /\ "volume" \in troubles =>
    (status = "Err" /\ ret = "EOpen") \/ Refused

(* The call returns: no archive, closure or missing volume holds it.       *)
Termination == <>(pc = "done")

(* What open_archive.rs says of ExtractEvent::Ok: "File extraction         *)
(* completed successfully."                                                *)
OkMeansExtracted ==
  [][event' # event /\ event'.kind = "Ok" => trouble = {}]_vars

(* What open_archive.rs says of ExtractStatus::Completed: "Extraction ran  *)
(* to the end of the archive."                                             *)
CompletedMeansExhausted ==
  status = "Completed" => stop \in {"end", "eof"}

-----------------------------------------------------------------------------
(* The caller sees what ExtractEvents promises.                            *)

Inside ==
  /\ Heard /\ ~cancelled /\ event.kind # "Err"
  /\ pc \in {"extract", "decrypt", "open", "unpack", "verify", "report", "return"}

Promise == INSTANCE ExtractEvents WITH
  Sizes <- {h.size : h \in FileHeaders},
  Dicts <- {h.dict : h \in FileHeaders},
  Limit <- DictLimit,
  Causes <- FileCodes,
  phase <- IF cancelled THEN "cancelled"
           ELSE IF event.kind = "Err" THEN "failed"
           ELSE IF Inside THEN "inside" ELSE "between",
  announced <- IF Inside THEN current.size ELSE 0,
  bad <- dllError # Success,
  allowed <- winLimit

KeepsPromise == Promise!Spec
=============================================================================
