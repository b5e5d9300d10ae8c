--------------------------- MODULE ExtractEvents ---------------------------
(***************************************************************************)
(* What OpenArchive::extract_all_with_callback promises its caller, seen   *)
(* only through what the caller sees: the ExtractEvents handed to its      *)
(* closure, the closure's answers, and the value the call returns.         *)
(*                                                                         *)
(* The file being announced is the only thing the specification remembers  *)
(* about the archive.  bad stands for "the library has recorded an error": *)
(* it never goes away again, and it decides what the call may return.      *)
(***************************************************************************)
EXTENDS Naturals

CONSTANTS
  Sizes,      \* unpacked sizes of files
  Dicts,      \* dictionary sizes of files
  Limit,      \* largest dictionary that needs no question
  Causes      \* error codes an ExtractEvent::Err may carry

Success == "Success"

VARIABLES
  phase,      \* where the caller is in the sequence of events
  announced,  \* size given with the open Start event, 0 outside a file
  bad,        \* an error has been recorded
  allowed,    \* largest dictionary permitted so far
  event,      \* the last event delivered, with the closure's answer
  status      \* what the call returned, "none" while it runs

vars == <<phase, announced, bad, allowed, event, status>>

Phases == {"between", "inside", "failed", "cancelled"}

Event(kind, size, code, go) ==
  [kind |-> kind, size |-> size, code |-> code, go |-> go]

NoEvent == Event("None", 0, Success, TRUE)

TypeOK ==
  /\ phase \in Phases
  /\ announced \in Sizes \cup {0}
  /\ bad \in BOOLEAN
  /\ allowed \in Dicts \cup {Limit}
  /\ event.kind \in {"None", "Start", "Ok", "Err", "LargeDict"}
  /\ event.go \in BOOLEAN
  /\ status \in {"none", "Completed", "Cancelled", "Err"}

Init ==
  /\ phase = "between"
  /\ announced = 0
  /\ bad = FALSE
  /\ allowed = Limit
  /\ event = NoEvent
  /\ status = "none"

(* Start opens a file; refusing it abandons the archive.                   *)
Start(size, go) ==
  /\ status = "none"
  /\ phase = "between"
  /\ phase' = IF go THEN "inside" ELSE "cancelled"
  /\ announced' = IF go THEN size ELSE 0
  /\ event' = Event("Start", size, Success, go)
  /\ UNCHANGED <<bad, allowed, status>>

(* Ok closes the file that Start opened, and repeats its size.             *)
Ok(go) ==
  /\ status = "none"
  /\ phase = "inside"
  /\ phase' = IF go THEN "between" ELSE "cancelled"
  /\ announced' = 0
  /\ event' = Event("Ok", announced, Success, go)
  /\ UNCHANGED <<bad, allowed, status>>

(* Err closes it too, names the error if one is recorded, and nothing      *)
(* follows but the return.                                                 *)
Err(code, go) ==
  /\ status = "none"
  /\ phase = "inside"
  /\ bad <=> code # Success
  /\ phase' = IF go THEN "failed" ELSE "cancelled"
  /\ announced' = 0
  /\ event' = Event("Err", 0, code, go)
  /\ UNCHANGED <<bad, allowed, status>>

(* LargeDict asks about a dictionary larger than any permitted before; a   *)
(* refusal is an error and not a cancellation.  A file whose name cannot   *)
(* be shown has no Start, so the question can also come between two files. *)
LargeDict(dict, go) ==
  /\ status = "none"
  /\ phase \in {"between", "inside"}
  /\ dict > allowed
  /\ event' = Event("LargeDict", dict, Success, go)
  /\ bad' = (bad \/ ~go)
  /\ allowed' = IF go THEN dict ELSE allowed
  /\ UNCHANGED <<phase, announced, status>>

(* The library records an error of its own.                                *)
Fail ==
  /\ status = "none"
  /\ phase \in {"between", "inside"}
  /\ bad' = TRUE
  /\ UNCHANGED <<phase, announced, allowed, event, status>>

(* The call returns.  Cancelled exactly after a refusal; Completed only    *)
(* outside a file and with no error recorded.                              *)
Return(s) ==
  /\ status = "none"
  /\ s \in CASE phase = "cancelled" -> {"Cancelled"}
             [] phase \in {"between", "failed"} /\ ~bad -> {"Completed", "Err"}
             [] OTHER -> {"Err"}
  /\ status' = s
  /\ phase' = IF phase = "inside" THEN "between" ELSE phase
  /\ announced' = 0
  /\ UNCHANGED <<bad, allowed, event>>

Next ==
  \/ \E size \in Sizes, go \in BOOLEAN : Start(size, go)
  \/ \E go \in BOOLEAN : Ok(go)
  \/ \E code \in Causes \cup {Success}, go \in BOOLEAN : Err(code, go)
  \/ \E dict \in Dicts, go \in BOOLEAN : LargeDict(dict, go)
  \/ Fail
  \/ \E s \in {"Completed", "Cancelled", "Err"} : Return(s)

Spec == Init /\ [][Next]_vars
=============================================================================
