------------------------- MODULE ArchiveOpen_proofs -------------------------
(***************************************************************************)
(* Proofs about ArchiveOpen, for any threads that work on any archives.    *)
(***************************************************************************)
EXTENDS ArchiveOpen, TLAPS

(* Where a thread is, or will be when it has recorded an exit code.        *)
Heading(t) == IF pc[t] = "recording" THEN recorder[t].next ELSE pc[t]

(* Which files lead where.                                                 *)
Journey(t) ==
  /\ Heading(t) = "accepted" => file[t] \in {"sound", "broken"}
  /\ Heading(t) = "rejected" => file[t] \in {"foreign", "unreadable"}
  /\ Heading(t) = "thrown" => file[t] = "unseekable"
  /\ Heading(t) \in {"returned", "open"} =>
       (openResult[t] = "Success" <=> file[t] \in {"sound", "broken"})

(* How many DataSets there are at each stage.                              *)
Owned(t) ==
  /\ Heading(t) = "idle" => pc[t] = "idle" /\ data[t] = 0
  /\ Heading(t) \notin {"idle", "returned"} => data[t] = 1
  /\ Heading(t) = "returned" /\ openResult[t] = "Success" => data[t] = 1

(* What the caller has been told at each stage.                            *)
Noting(t) ==
  /\ Heading(t) \in {"opening", "accepted", "rejected", "thrown", "returned"} =>
       outcome[t] = "none" /\ noted[t] = "Success"
  /\ Heading(t) = "open" =>
       /\ outcome[t] = "Ok" /\ noted[t] = openResult[t]
       /\ method[t] = "open" => openResult[t] = "Success"
  /\ outcome[t] = "Err" =>
       /\ Heading(t) \in {"idle", "closing", "deleting"} /\ noted[t] = "Success"
       /\ Heading(t) # "idle" => method[t] = "open"

Inv == TypeOK /\ \A t \in Threads : Journey(t) /\ Owned(t) /\ Noting(t)

-----------------------------------------------------------------------------
(* The verdict on a file that is no archive is never a success.            *)
LEMMA Verdicts ==
  ASSUME NEW exit \in Exits
  PROVE  Verdict(exit) \in DllCodes \ {"Success"}
BY DEF Verdict, RarErrorToDll, Exits, DllCodes

(* SetErrorCode writes one of the codes it has seen.                       *)
LEMMA Merges ==
  ASSUME NEW old \in Exits, NEW new \in Exits
  PROVE  Merged(old, new) \in Exits
BY DEF Merged

(* The invariant holds when every thread is idle.                          *)
LEMMA InitInv == Init => Inv
BY DEF Init, Inv, TypeOK, Journey, Owned, Noting, Heading, Blank, Exits, Stages, Files, DllCodes

(* Every step of any thread preserves the invariant.                       *)
LEMMA StepInv == Inv /\ [Next]_vars => Inv'
<1> SUFFICES ASSUME Inv, [Next]_vars PROVE Inv'
  OBVIOUS
<1> USE DEF Inv, TypeOK, Stages, Files, Exits, DllCodes, Blank, request, answer
<1>0. CASE UNCHANGED vars
  BY <1>0 DEF vars, Journey, Owned, Noting, Heading
<1> SUFFICES ASSUME NEW t \in Threads, ThreadStep(t) PROVE Inv'
  BY <1>0 DEF Next
<1>1. CASE Open(t)
  <2>1. TypeOK'
    BY <1>1 DEF Open, Clean, Goto, Owned, Heading
  <2>2. \A u \in Threads : Journey(u)' /\ Owned(u)' /\ Noting(u)'
    BY <1>1 DEF Open, Clean, Goto, Journey, Owned, Noting, Heading
  <2> QED BY <2>1, <2>2 DEF Inv
<1>2. CASE NoFile(t)
  <2>1. TypeOK'
    BY <1>2 DEF NoFile, Delete, Reply, Goto, Owned, Heading
  <2>2. \A u \in Threads : Journey(u)' /\ Owned(u)' /\ Noting(u)'
    BY <1>2 DEF NoFile, Delete, Reply, Goto, Journey, Owned, Noting, Heading
  <2> QED BY <2>1, <2>2 DEF Inv
<1>3. CASE NoMemory(t)
  <2>1. TypeOK'
    BY <1>3 DEF NoMemory, Delete, Reply, Goto, Owned, Heading
  <2>2. \A u \in Threads : Journey(u)' /\ Owned(u)' /\ Noting(u)'
    BY <1>3 DEF NoMemory, Delete, Reply, Goto, Journey, Owned, Noting, Heading
  <2> QED BY <2>1, <2>2 DEF Inv
<1>4. CASE NoArchive(t)
  <2>1. TypeOK'
    BY <1>4 DEF NoArchive, Goto
  <2>2. \A u \in Threads : Journey(u)' /\ Owned(u)' /\ Noting(u)'
    BY <1>4 DEF NoArchive, Goto, Journey, Owned, Noting, Heading
  <2> QED BY <2>1, <2>2 DEF Inv
<1>5. CASE ReadFails(t)
  <2>1. TypeOK'
    BY <1>5 DEF ReadFails, Record, Goto
  <2>2. \A u \in Threads : Journey(u)' /\ Owned(u)' /\ Noting(u)'
    BY <1>5 DEF ReadFails, Record, Goto, Journey, Owned, Noting, Heading
  <2> QED BY <2>1, <2>2 DEF Inv
<1>6. CASE SeekFails(t)
  <2>1. TypeOK'
    BY <1>6 DEF SeekFails, Record, Goto
  <2>2. \A u \in Threads : Journey(u)' /\ Owned(u)' /\ Noting(u)'
    BY <1>6 DEF SeekFails, Record, Goto, Journey, Owned, Noting, Heading
  <2> QED BY <2>1, <2>2 DEF Inv
<1>7. CASE Catch(t)
  <2>1. TypeOK'
    BY <1>7 DEF Catch, Delete, Reply, Goto, RarErrorToDll, Owned, Heading
  <2>2. \A u \in Threads : Journey(u)' /\ Owned(u)' /\ Noting(u)'
    BY <1>7 DEF Catch, Delete, Reply, Goto, RarErrorToDll, Journey, Owned, Noting, Heading
  <2> QED BY <2>1, <2>2 DEF Inv
<1>8. CASE FindHeader(t)
  <2>1. TypeOK'
    BY <1>8 DEF FindHeader, Goto
  <2>2. \A u \in Threads : Journey(u)' /\ Owned(u)' /\ Noting(u)'
    BY <1>8 DEF FindHeader, Goto, Journey, Owned, Noting, Heading
  <2> QED BY <2>1, <2>2 DEF Inv
<1>9. CASE FindBroken(t)
  <2>1. TypeOK'
    BY <1>9 DEF FindBroken, Record, Goto
  <2>2. \A u \in Threads : Journey(u)' /\ Owned(u)' /\ Noting(u)'
    BY <1>9 DEF FindBroken, Record, Goto, Journey, Owned, Noting, Heading
  <2> QED BY <2>1, <2>2 DEF Inv
<1>10. CASE Accept(t)
  <2>1. TypeOK'
    BY <1>10 DEF Accept, Reply, Goto
  <2>2. \A u \in Threads : Journey(u)' /\ Owned(u)' /\ Noting(u)'
    BY <1>10 DEF Accept, Reply, Goto, Journey, Owned, Noting, Heading
  <2> QED BY <2>1, <2>2 DEF Inv
<1>11. CASE Reject(t)
  <2>1. TypeOK'
    BY <1>11, Verdicts DEF Reject, Reply, Goto
  <2>2. \A u \in Threads : Journey(u)' /\ Owned(u)' /\ Noting(u)'
    BY <1>11, Verdicts DEF Reject, Reply, Goto, Journey, Owned, Noting, Heading
  <2> QED BY <2>1, <2>2 DEF Inv
<1>12. CASE Store(t)
  <2>1. TypeOK'
    BY <1>12, Merges DEF Store, Disturb, Goto
  <2>2. \A u \in Threads : Journey(u)' /\ Owned(u)' /\ Noting(u)'
    BY <1>12, Merges DEF Store, Disturb, Goto, Journey, Owned, Noting, Heading
  <2> QED BY <2>1, <2>2 DEF Inv
<1>13. CASE NullHandle(t)
  <2>1. TypeOK'
    BY <1>13 DEF NullHandle, Goto, Tell
  <2>2. \A u \in Threads : Journey(u)' /\ Owned(u)' /\ Noting(u)'
    BY <1>13 DEF NullHandle, Goto, Tell, Journey, Owned, Noting, Heading
  <2> QED BY <2>1, <2>2 DEF Inv
<1>14. CASE Panic(t)
  <2>1. TypeOK'
    BY <1>14 DEF Panic, Wrapped, Goto, Tell
  <2>2. \A u \in Threads : Journey(u)' /\ Owned(u)' /\ Noting(u)'
    BY <1>14 DEF Panic, Wrapped, Goto, Tell, Journey, Owned, Noting, Heading
  <2> QED BY <2>1, <2>2 DEF Inv
<1>15. CASE Deliver(t)
  <2>1. TypeOK'
    BY <1>15 DEF Deliver, Wrapped, Goto, Tell
  <2>2. \A u \in Threads : Journey(u)' /\ Owned(u)' /\ Noting(u)'
    BY <1>15 DEF Deliver, Wrapped, Goto, Tell, Journey, Owned, Noting, Heading
  <2> QED BY <2>1, <2>2 DEF Inv
<1>16. CASE Recover(t)
  <2>1. TypeOK'
    BY <1>16 DEF Recover, Wrapped, Goto, Tell
  <2>2. \A u \in Threads : Journey(u)' /\ Owned(u)' /\ Noting(u)'
    BY <1>16 DEF Recover, Wrapped, Goto, Tell, Journey, Owned, Noting, Heading
  <2> QED BY <2>1, <2>2 DEF Inv
<1>17. CASE Discard(t)
  <2>1. TypeOK'
    BY <1>17 DEF Discard, Wrapped, Goto, Tell
  <2>2. \A u \in Threads : Journey(u)' /\ Owned(u)' /\ Noting(u)'
    BY <1>17 DEF Discard, Wrapped, Goto, Tell, Journey, Owned, Noting, Heading
  <2> QED BY <2>1, <2>2 DEF Inv
<1>18. CASE Use(t)
  <2>1. TypeOK'
    BY <1>18, UseCodesAssumption DEF Use, Record, Goto
  <2>2. \A u \in Threads : Journey(u)' /\ Owned(u)' /\ Noting(u)'
    BY <1>18, UseCodesAssumption DEF Use, Record, Goto, Journey, Owned, Noting, Heading
  <2> QED BY <2>1, <2>2 DEF Inv
<1>19. CASE Drop(t)
  <2>1. TypeOK'
    BY <1>19 DEF Drop, Goto
  <2>2. \A u \in Threads : Journey(u)' /\ Owned(u)' /\ Noting(u)'
    BY <1>19 DEF Drop, Goto, Journey, Owned, Noting, Heading
  <2> QED BY <2>1, <2>2 DEF Inv
<1>20. CASE Close(t)
  <2>1. TypeOK'
    <3>1. data[t] = 1
      BY <1>20 DEF Close, Owned, Heading
    <3>2. data' \in [Threads -> {0, 1}]
      BY <1>20, <3>1 DEF Close, Delete
    <3>3. CASE outcome[t] = "Ok"
      <4>1. /\ exitCode' \in Exits /\ pc' \in [Threads -> Stages]
            /\ file' \in [Threads -> Files] /\ recorder' = recorder
        BY <1>20, <3>3 DEF Close, Goto
      <4>2. /\ method' \in [Threads -> {"open", "break_open"}]
            /\ openResult' \in [Threads -> DllCodes]
        BY <1>20, <3>3 DEF Close
      <4>3. /\ outcome' \in [Threads -> {"none", "Ok", "Err"}]
            /\ noted' \in [Threads -> DllCodes]
        BY <1>20, <3>3 DEF Close
      <4>4. disturbed' = disturbed
        BY <1>20 DEF Close
      <4> QED BY <3>2, <4>1, <4>2, <4>3, <4>4
    <3>4. CASE outcome[t] # "Ok"
      BY <1>20, <3>2, <3>4 DEF Close, Goto
    <3> QED BY <3>3, <3>4
  <2>2. \A u \in Threads : Journey(u)' /\ Owned(u)' /\ Noting(u)'
    BY <1>20 DEF Close, Delete, Goto, Journey, Owned, Noting, Heading
  <2> QED BY <2>1, <2>2 DEF Inv
<1>21. CASE CloseFails(t)
  <2>1. TypeOK'
    BY <1>21 DEF CloseFails, Record, Goto
  <2>2. \A u \in Threads : Journey(u)' /\ Owned(u)' /\ Noting(u)'
    BY <1>21 DEF CloseFails, Record, Goto, Journey, Owned, Noting, Heading
  <2> QED BY <2>1, <2>2 DEF Inv
<1> QED BY <1>1, <1>2, <1>3, <1>4, <1>5, <1>6, <1>7, <1>8, <1>9, <1>10, <1>11,
       <1>12, <1>13, <1>14, <1>15, <1>16, <1>17, <1>18, <1>19, <1>20, <1>21
       DEF ThreadStep

(* Inv holds in every state: the handles, errors and notes of any number of*)
(* threads that open archives at will.                                     *)
THEOREM Invariance == Spec => []Inv
<1> QED BY InitInv, StepInv, PTL DEF Spec

(* Every variable stays in its type; no DataSet is deleted twice.          *)
THEOREM OpenTypeCorrect == Spec => []TypeOK
<1>1. Inv => TypeOK
  BY DEF Inv
<1> QED BY <1>1, Invariance, PTL

(* RAROpenArchiveEx never reports success for a file that is no archive,   *)
(* nor an error for one that is, whatever other threads record.            *)
THEOREM FailureStaysFailure == Spec => []FailureIsNotSuccess
<1>1. Inv => FailureIsNotSuccess
  BY DEF Inv, Journey, Heading, FailureIsNotSuccess
<1> QED BY <1>1, Invariance, PTL

(* No handle is lost or closed twice on any path but that of the panic.    *)
THEOREM HandlesStayOwned == Spec => []HandlesAreOwned
<1>1. Inv => HandlesAreOwned
  BY DEF Inv, TypeOK, Owned, Heading, HandlesAreOwned
<1> QED BY <1>1, Invariance, PTL

(* break_open notes an error exactly when it recovers from one.            *)
THEOREM RecoveryStaysNoted == Spec => []RecoveryIsNoted
<1>1. Inv => RecoveryIsNoted
  BY DEF Inv, TypeOK, Owned, Noting, Heading, RecoveryIsNoted
<1> QED BY <1>1, Invariance, PTL

-----------------------------------------------------------------------------
(* A program with one thread: nothing comes between the beginning of an    *)
(* open and the look at the exit code.                                     *)

(* What the exit code is while t opens an archive and no other thread has  *)
(* written it.                                                             *)
Alone(t) ==
  /\ pc[t] = "opening" => exitCode = "SUCCESS"
  /\ pc[t] = "rejected" =>
       exitCode = IF file[t] = "foreign" THEN "SUCCESS" ELSE "READ"
  /\ pc[t] = "recording" /\ recorder[t].next = "rejected" =>
       recorder[t].code = "READ" /\ file[t] = "unreadable"
  /\ Heading(t) = "returned" => openResult[t] = OwnResult(file[t])

Own == \A t \in Threads : ~disturbed[t] => Alone(t)

(* Before any open there is no verdict to be wrong about.                  *)
LEMMA InitOwn == Init => Own
BY DEF Init, Own, Alone, Heading

(* A step of t itself.                                                     *)
LEMMA StepOwnSelf ==
  ASSUME NEW t \in Threads, Inv, ~disturbed[t] => Alone(t), ThreadStep(t)
  PROVE  ~disturbed'[t] => Alone(t)'
<1> USE DEF Inv, TypeOK, Stages, Files, Blank, request, answer, Alone, Heading
<1>1. CASE Open(t)
  BY <1>1 DEF Open, Clean, Goto
<1>2. CASE NoFile(t)
  BY <1>2 DEF NoFile, Delete, Reply, Goto, OwnResult, Journey
<1>3. CASE NoMemory(t)
  BY <1>3 DEF NoMemory, Delete, Reply, Goto, OwnResult, Journey
<1>4. CASE NoArchive(t)
  BY <1>4 DEF NoArchive, Goto
<1>5. CASE ReadFails(t)
  BY <1>5 DEF ReadFails, Record, Goto
<1>6. CASE SeekFails(t)
  BY <1>6 DEF SeekFails, Record, Goto
<1>7. CASE Catch(t)
  BY <1>7 DEF Catch, Delete, Reply, Goto, RarErrorToDll, OwnResult, Journey
<1>8. CASE FindHeader(t)
  BY <1>8 DEF FindHeader, Goto
<1>9. CASE FindBroken(t)
  BY <1>9 DEF FindBroken, Record, Goto
<1>10. CASE Accept(t)
  BY <1>10 DEF Accept, Reply, Goto, OwnResult, Journey
<1>11. CASE Reject(t)
  BY <1>11 DEF Reject, Reply, Goto, OwnResult, Journey, Verdict, RarErrorToDll
<1>12. CASE Store(t)
  BY <1>12 DEF Store, Disturb, Goto, Merged, Journey
<1>13. CASE NullHandle(t)
  BY <1>13 DEF NullHandle, Goto, Tell
<1>14. CASE Panic(t)
  BY <1>14 DEF Panic, Wrapped, Goto, Tell
<1>15. CASE Deliver(t)
  BY <1>15 DEF Deliver, Wrapped, Goto, Tell
<1>16. CASE Recover(t)
  BY <1>16 DEF Recover, Wrapped, Goto, Tell
<1>17. CASE Discard(t)
  BY <1>17 DEF Discard, Wrapped, Goto, Tell
<1>18. CASE Use(t)
  BY <1>18 DEF Use, Record, Goto
<1>19. CASE Drop(t)
  BY <1>19 DEF Drop, Goto
<1>20. CASE Close(t)
  BY <1>20 DEF Close, Delete, Goto
<1>21. CASE CloseFails(t)
  BY <1>21 DEF CloseFails, Record, Goto
<1> QED BY <1>1, <1>2, <1>3, <1>4, <1>5, <1>6, <1>7, <1>8, <1>9, <1>10, <1>11,
       <1>12, <1>13, <1>14, <1>15, <1>16, <1>17, <1>18, <1>19, <1>20, <1>21
       DEF ThreadStep

(* A step of another thread either writes the exit code or leaves it and   *)
(* all of t alone.                                                         *)
LEMMA StepOwnOther ==
  ASSUME NEW t \in Threads, NEW u \in Threads, u # t, Inv, ThreadStep(u),
         ~disturbed[t] => Alone(t)
  PROVE  ~disturbed'[t] => Alone(t)'
<1> DEFINE Left == /\ exitCode' = exitCode /\ disturbed' = disturbed
                   /\ pc'[t] = pc[t] /\ recorder'[t] = recorder[t]
                   /\ file'[t] = file[t] /\ openResult'[t] = openResult[t]
<1> SUFFICES disturbed'[t] \/ Left
  BY DEF Alone, Heading
<1> USE DEF Inv, TypeOK, request, answer, Goto
<1>1. CASE Open(u)
  BY <1>1 DEF Open, Clean
<1>2. CASE NoFile(u)
  BY <1>2 DEF NoFile, Delete, Reply
<1>3. CASE NoMemory(u)
  BY <1>3 DEF NoMemory, Delete, Reply
<1>4. CASE NoArchive(u)
  BY <1>4 DEF NoArchive
<1>5. CASE ReadFails(u)
  BY <1>5 DEF ReadFails, Record
<1>6. CASE SeekFails(u)
  BY <1>6 DEF SeekFails, Record
<1>7. CASE Catch(u)
  BY <1>7 DEF Catch, Delete, Reply
<1>8. CASE FindHeader(u)
  BY <1>8 DEF FindHeader
<1>9. CASE FindBroken(u)
  BY <1>9 DEF FindBroken, Record
<1>10. CASE Accept(u)
  BY <1>10 DEF Accept, Reply
<1>11. CASE Reject(u)
  BY <1>11 DEF Reject, Reply
<1>12. CASE Store(u)
  BY <1>12 DEF Store, Disturb
<1>13. CASE NullHandle(u)
  BY <1>13 DEF NullHandle, Tell
<1>14. CASE Panic(u)
  BY <1>14 DEF Panic, Wrapped, Tell
<1>15. CASE Deliver(u)
  BY <1>15 DEF Deliver, Wrapped, Tell
<1>16. CASE Recover(u)
  BY <1>16 DEF Recover, Wrapped, Tell
<1>17. CASE Discard(u)
  BY <1>17 DEF Discard, Wrapped, Tell
<1>18. CASE Use(u)
  BY <1>18 DEF Use, Record
<1>19. CASE Drop(u)
  BY <1>19 DEF Drop
<1>20. CASE Close(u)
  BY <1>20 DEF Close, Delete
<1>21. CASE CloseFails(u)
  BY <1>21 DEF CloseFails, Record
<1> QED BY <1>1, <1>2, <1>3, <1>4, <1>5, <1>6, <1>7, <1>8, <1>9, <1>10, <1>11,
       <1>12, <1>13, <1>14, <1>15, <1>16, <1>17, <1>18, <1>19, <1>20, <1>21
       DEF ThreadStep

(* Whatever other threads did before an open began, and as long as they    *)
(* leave the exit code alone, its error is that of the file it is about.   *)
THEOREM OwnErrorUndisturbed == Spec => []UndisturbedErrorIsOwn
<1>1. Inv /\ Own /\ [Next]_vars => Own'
  <2> SUFFICES ASSUME Inv, Own, [Next]_vars, NEW t \in Threads
               PROVE  ~disturbed'[t] => Alone(t)'
    BY DEF Own
  <2>1. CASE UNCHANGED vars
    BY <2>1 DEF vars, request, answer, Own, Alone, Heading
  <2>2. ASSUME NEW u \in Threads, ThreadStep(u) PROVE ~disturbed'[t] => Alone(t)'
    BY <2>2, StepOwnSelf, StepOwnOther DEF Own
  <2> QED BY <2>1, <2>2 DEF Next
<1>2. Inv /\ Own => UndisturbedErrorIsOwn
  BY DEF Own, Alone, Heading, UndisturbedErrorIsOwn
<1> QED BY <1>1, <1>2, InitInv, StepInv, InitOwn, PTL DEF Spec
=============================================================================
