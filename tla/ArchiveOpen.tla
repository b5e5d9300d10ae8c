---------------------------- MODULE ArchiveOpen ----------------------------
(***************************************************************************)
(* Threads that open archives with handles of their own: RAROpenArchiveEx, *)
(* the Rust wrapper around it (OpenArchive::new, open, break_open), the    *)
(* drop of a handle, and what all handles share, the exit code of the      *)
(* global ErrHandler.                                                      *)
(*                                                                         *)
(* SetErrorCode looks at the exit code and then writes it, with no lock:   *)
(* it is two steps.  While a handle is open its thread may record codes of *)
(* its own at any time; that is all of its work that is modelled here.     *)
(* A thread has one handle at a time.                                      *)
(***************************************************************************)
EXTENDS Integers

CONSTANTS
  Threads,      \* threads that open archives
  UseCodes      \* exit codes that work on an open archive may record

Exits ==
  {"SUCCESS", "WARNING", "FATAL", "CRC", "WRITE", "OPEN", "MEMORY", "CREATE",
   "BADPWD", "READ"}

ASSUME UseCodesAssumption == UseCodes \subseteq Exits \ {"SUCCESS"}

(* What is found at the path: nothing; a file whose first read fails, such *)
(* as a directory; no RAR archive (no signature, a later format); an       *)
(* archive with a damaged or missing main header; a sound one; one where   *)
(* seeking fails; one that needs more memory than there is.                *)
Files ==
  {"missing", "unreadable", "foreign", "broken", "sound", "unseekable", "huge"}

DllCodes ==
  {"Success", "ERead", "BadData", "EWrite", "EOpen", "ECreate", "NoMemory",
   "BadPassword", "BadArchive", "Unknown"}

Stages ==
  {"idle", "opening", "recording", "rejected", "accepted", "thrown", "returned",
   "open", "closing", "deleting", "panicked"}

VARIABLES
  exitCode,     \* ErrHandler.ExitCode
  pc,           \* where each thread is
  file,         \* what is at the path it opens
  method,       \* "open" or "break_open"
  recorder,     \* SetErrorCode: its parameter, what it has read, where it returns to
  data,         \* the number of DataSets the thread has to account for
  openResult,   \* r->OpenResult as a Code
  outcome,      \* what the caller got: "none", "Ok" or "Err"
  noted,        \* the error break_open has left for the caller
  disturbed     \* history: another thread has written exitCode since the open began

request == <<file, method>>
answer == <<openResult, outcome, noted>>
vars == <<exitCode, pc, request, recorder, data, answer, disturbed>>

Blank == [code |-> "SUCCESS", seen |-> "SUCCESS", next |-> "idle"]

Init ==
  /\ exitCode = "SUCCESS"
  /\ pc = [t \in Threads |-> "idle"]
  /\ file = [t \in Threads |-> "missing"]
  /\ method = [t \in Threads |-> "open"]
  /\ recorder = [t \in Threads |-> Blank]
  /\ data = [t \in Threads |-> 0]
  /\ openResult = [t \in Threads |-> "Success"]
  /\ outcome = [t \in Threads |-> "none"]
  /\ noted = [t \in Threads |-> "Success"]
  /\ disturbed = [t \in Threads |-> FALSE]

-----------------------------------------------------------------------------
(* ErrorHandler                                                            *)

(* What SetErrorCode writes after it has read old.                         *)
Merged(old, new) ==
  CASE new = "WARNING" -> IF old = "SUCCESS" THEN new ELSE old
    [] new = "CRC" -> IF old \in {"BADPWD", "OPEN"} THEN old ELSE new
    [] new = "FATAL" -> IF old \in {"SUCCESS", "WARNING"} THEN new ELSE old
    [] OTHER -> new

Goto(t, stage) == pc' = [pc EXCEPT ![t] = stage]

(* t has written the exit code.                                            *)
Disturb(t) == disturbed' = [u \in Threads |-> u # t \/ disturbed[u]]

(* SetErrorCode(new), after which the thread goes on at stage.             *)
Record(t, new, stage) ==
  /\ recorder' = [recorder EXCEPT ![t] = [code |-> new, seen |-> exitCode, next |-> stage]]
  /\ Goto(t, "recording")
  /\ UNCHANGED <<exitCode, disturbed>>

Store(t) ==
  /\ pc[t] = "recording"
  /\ exitCode' = Merged(recorder[t].seen, recorder[t].code)
  /\ Goto(t, recorder[t].next)
  /\ recorder' = [recorder EXCEPT ![t] = Blank]
  /\ Disturb(t)
  /\ UNCHANGED <<request, data, answer>>

RarErrorToDll(exit) ==
  CASE exit \in {"FATAL", "READ"} -> "ERead"
    [] exit = "CRC" -> "BadData"
    [] exit = "WRITE" -> "EWrite"
    [] exit = "OPEN" -> "EOpen"
    [] exit = "CREATE" -> "ECreate"
    [] exit = "MEMORY" -> "NoMemory"
    [] exit = "BADPWD" -> "BadPassword"
    [] exit = "SUCCESS" -> "Success"
    [] OTHER -> "Unknown"

-----------------------------------------------------------------------------
(* RAROpenArchiveEx                                                        *)

(* Mutant: the exit code of earlier work is kept.                          *)
Clean_Forgotten == UNCHANGED exitCode

Clean == exitCode' = "SUCCESS"

(* ErrHandler.Clean() and new DataSet, once the wrapper has been called.   *)
Open(t) ==
  /\ pc[t] = "idle"
  /\ Clean
  /\ disturbed' = [u \in Threads |-> u # t]
  /\ data' = [data EXCEPT ![t] = @ + 1]
  /\ \E f \in Files : file' = [file EXCEPT ![t] = f]
  /\ \E m \in {"open", "break_open"} : method' = [method EXCEPT ![t] = m]
  /\ openResult' = [openResult EXCEPT ![t] = "Success"]
  /\ outcome' = [outcome EXCEPT ![t] = "none"]
  /\ noted' = [noted EXCEPT ![t] = "Success"]
  /\ Goto(t, "opening")
  /\ UNCHANGED recorder

Reply(t, result) ==
  /\ openResult' = [openResult EXCEPT ![t] = result]
  /\ Goto(t, "returned")
  /\ UNCHANGED <<exitCode, request, recorder, outcome, noted, disturbed>>

Delete(t) == data' = [data EXCEPT ![t] = @ - 1]

(* Arc.Open fails, or an allocation does: no handle is returned.           *)
NoFile(t) ==
  /\ pc[t] = "opening" /\ file[t] = "missing"
  /\ Delete(t) /\ Reply(t, "EOpen")

NoMemory(t) ==
  /\ pc[t] = "opening" /\ file[t] = "huge"
  /\ Delete(t) /\ Reply(t, "NoMemory")

(* IsArchive(true) is false: the signature is missing, or could not be     *)
(* read.  A failing read records READ and returns no data, with no         *)
(* exception, because the library is built SILENT.                         *)
NoArchive(t) ==
  /\ pc[t] = "opening" /\ file[t] = "foreign"
  /\ Goto(t, "rejected")
  /\ UNCHANGED <<exitCode, request, recorder, data, answer, disturbed>>

ReadFails(t) ==
  /\ pc[t] = "opening" /\ file[t] = "unreadable"
  /\ Record(t, "READ", "rejected")
  /\ UNCHANGED <<request, data, answer>>

(* SeekError records FATAL and throws it.                                  *)
SeekFails(t) ==
  /\ pc[t] = "opening" /\ file[t] = "unseekable"
  /\ Record(t, "FATAL", "thrown")
  /\ UNCHANGED <<request, data, answer>>

Catch(t) ==
  /\ pc[t] = "thrown"
  /\ Delete(t) /\ Reply(t, RarErrorToDll("FATAL"))

(* IsArchive(true) is true, and stays so when the main header has a wrong  *)
(* checksum, is cut short or cannot be read.                               *)
FindHeader(t) ==
  /\ pc[t] = "opening" /\ file[t] = "sound"
  /\ Goto(t, "accepted")
  /\ UNCHANGED <<exitCode, request, recorder, data, answer, disturbed>>

FindBroken(t) ==
  /\ pc[t] = "opening" /\ file[t] = "broken"
  /\ \E c \in {"CRC", "WARNING", "READ"} : Record(t, c, "accepted")
  /\ UNCHANGED <<request, data, answer>>

Accept(t) ==
  /\ pc[t] = "accepted"
  /\ Reply(t, "Success") /\ UNCHANGED data

(* Mutant: SUCCESS and WARNING are not told apart from errors.             *)
Verdict_Direct(exit) == RarErrorToDll(exit)

Verdict(exit) ==
  IF exit \in {"SUCCESS", "WARNING"} THEN "BadArchive" ELSE RarErrorToDll(exit)

(* The error is taken from the exit code of the process; the handle is     *)
(* returned all the same.  DllError is 0, for nobody is asked for a        *)
(* password while an archive is opened without a callback.                 *)
Reject(t) ==
  /\ pc[t] = "rejected"
  /\ Reply(t, Verdict(exitCode)) /\ UNCHANGED data

-----------------------------------------------------------------------------
(* OpenArchive::new, Archive::open and Archive::break_open.  The handle is *)
(* not null as long as its DataSet exists.                                 *)

Tell(t, result) ==
  /\ outcome' = [outcome EXCEPT ![t] = result]
  /\ UNCHANGED <<exitCode, request, recorder, openResult, disturbed>>

NullHandle(t) ==
  /\ pc[t] = "returned" /\ data[t] = 0
  /\ Goto(t, "idle") /\ Tell(t, "Err")
  /\ UNCHANGED <<data, noted>>

Wrapped(t) == pc[t] = "returned" /\ data[t] = 1

(* A password with a nul byte: CString::new(pw).unwrap() panics while      *)
(* nothing owns the handle, which is never closed.  That thread opens      *)
(* nothing any more.                                                       *)
Panic(t) ==
  /\ Wrapped(t)
  /\ Goto(t, "panicked") /\ Tell(t, "none")
  /\ UNCHANGED <<data, noted>>

Deliver(t) ==
  /\ Wrapped(t) /\ openResult[t] = "Success"
  /\ Goto(t, "open") /\ Tell(t, "Ok")
  /\ UNCHANGED <<data, noted>>

Recover(t) ==
  /\ Wrapped(t) /\ openResult[t] # "Success" /\ method[t] = "break_open"
  /\ noted' = [noted EXCEPT ![t] = openResult[t]]
  /\ Goto(t, "open") /\ Tell(t, "Ok")
  /\ UNCHANGED data

(* Mutant: a handle that comes with an error is forgotten.                 *)
Discard_Leaks(t) ==
  /\ Wrapped(t) /\ openResult[t] # "Success" /\ method[t] = "open"
  /\ Goto(t, "idle") /\ Tell(t, "Err")
  /\ UNCHANGED <<data, noted>>

(* Mutant: the handle is closed by hand and then dropped.                  *)
Discard_Twice(t) ==
  /\ Wrapped(t) /\ openResult[t] # "Success" /\ method[t] = "open"
  /\ Delete(t) /\ Goto(t, "closing") /\ Tell(t, "Err")
  /\ UNCHANGED noted

(* Without break_open nobody wants the archive: its Handle is dropped.     *)
Discard(t) ==
  /\ Wrapped(t) /\ openResult[t] # "Success" /\ method[t] = "open"
  /\ Goto(t, "closing") /\ Tell(t, "Err")
  /\ UNCHANGED <<data, noted>>

-----------------------------------------------------------------------------
(* An open handle, and its end in RARCloseArchive.                         *)

Use(t) ==
  /\ pc[t] = "open"
  /\ \E c \in UseCodes : Record(t, c, "open")
  /\ UNCHANGED <<request, data, answer>>

Drop(t) ==
  /\ pc[t] = "open"
  /\ Goto(t, "closing")
  /\ UNCHANGED <<exitCode, request, recorder, data, answer, disturbed>>

(* The result of an open that succeeded is of no interest any more.        *)
Close(t) ==
  /\ pc[t] \in {"closing", "deleting"}
  /\ Delete(t) /\ Goto(t, "idle")
  /\ IF outcome[t] = "Ok"
       THEN /\ file' = [file EXCEPT ![t] = "missing"]
            /\ method' = [method EXCEPT ![t] = "open"]
            /\ openResult' = [openResult EXCEPT ![t] = "Success"]
            /\ outcome' = [outcome EXCEPT ![t] = "none"]
            /\ noted' = [noted EXCEPT ![t] = "Success"]
       ELSE UNCHANGED <<request, answer>>
  /\ UNCHANGED <<exitCode, recorder, disturbed>>

(* fclose fails: CloseError records FATAL and does not throw.              *)
CloseFails(t) ==
  /\ pc[t] = "closing"
  /\ Record(t, "FATAL", "deleting")
  /\ UNCHANGED <<request, data, answer>>

-----------------------------------------------------------------------------
ThreadStep(t) ==
  \/ Open(t) \/ NoFile(t) \/ NoMemory(t) \/ NoArchive(t) \/ ReadFails(t)
  \/ SeekFails(t) \/ Catch(t) \/ FindHeader(t) \/ FindBroken(t) \/ Accept(t)
  \/ Reject(t) \/ Store(t)
  \/ NullHandle(t) \/ Panic(t) \/ Deliver(t) \/ Recover(t) \/ Discard(t)
  \/ Use(t) \/ Drop(t) \/ Close(t) \/ CloseFails(t)

Next == \E t \in Threads : ThreadStep(t)

Spec == Init /\ [][Next]_vars

-----------------------------------------------------------------------------
(* The values the variables take.                                          *)
TypeOK ==
  /\ exitCode \in Exits
  /\ pc \in [Threads -> Stages]
  /\ file \in [Threads -> Files]
  /\ method \in [Threads -> {"open", "break_open"}]
  /\ recorder \in
       [Threads ->
          [code : Exits, seen : Exits,
           next : {"idle", "rejected", "accepted", "thrown", "open", "deleting"}]]
  /\ data \in [Threads -> {0, 1}]
  /\ openResult \in [Threads -> DllCodes]
  /\ outcome \in [Threads -> {"none", "Ok", "Err"}]
  /\ noted \in [Threads -> DllCodes]
  /\ disturbed \in [Threads -> BOOLEAN]

(* A file that cannot be opened is never reported as a success, whatever   *)
(* other threads write to the exit code the result is taken from: a        *)
(* success would hand out a working OpenArchive over something that is no  *)
(* archive.  A file that can be opened is never reported as an error.      *)
FailureIsNotSuccess ==
  \A t \in Threads :
    pc[t] \in {"returned", "open"} =>
      (openResult[t] = "Success" <=> file[t] \in {"sound", "broken"})

(* What the caller may expect of a file.                                   *)
OwnResult(f) ==
  CASE f = "missing" -> "EOpen"
    [] f = "foreign" -> "BadArchive"
    [] f = "huge" -> "NoMemory"
    [] f \in {"unreadable", "unseekable"} -> "ERead"
    [] f \in {"sound", "broken"} -> "Success"

(* The error of a failed open is that of its own file, not one that was    *)
(* recorded for another handle, before or meanwhile.                       *)
OpenErrorIsOwn ==
  \A t \in Threads :
    pc[t] \in {"returned", "open"} => openResult[t] = OwnResult(file[t])

(* It is, as long as no other thread has written the exit code since the   *)
(* open began: what the process did before is wiped out.                   *)
UndisturbedErrorIsOwn ==
  \A t \in Threads :
    pc[t] = "returned" /\ ~disturbed[t] => openResult[t] = OwnResult(file[t])

(* Every DataSet has one owner until it is deleted once: the library while *)
(* it opens, the wrapper until the Handle is dropped.  When the caller is  *)
(* left without an OpenArchive, by an error or by the drop, none remains,  *)
(* save for the one that the panic over a password leaves behind.          *)
HandlesAreOwned ==
  \A t \in Threads :
    /\ pc[t] = "idle" => data[t] = 0
    /\ pc[t] \notin {"idle", "returned"} => data[t] = 1

(* The caller of break_open gets every archive that has a handle, and the  *)
(* error is noted exactly when there was one and the archive was recovered;*)
(* open never hands out an archive together with an error.                 *)
RecoveryIsNoted ==
  \A t \in Threads :
    /\ pc[t] = "open" => noted[t] = openResult[t]
    /\ outcome[t] = "Err" => noted[t] = "Success"
    /\ pc[t] = "open" /\ method[t] = "open" => openResult[t] = "Success"
    /\ outcome[t] = "Err" /\ method[t] = "break_open" => data[t] = 0
=============================================================================
