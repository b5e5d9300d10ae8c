------------------------ MODULE BatchExtract_proofs ------------------------
(***************************************************************************)
(* Proofs about BatchExtract, for every set of file headers and every      *)
(* value of the bounds.                                                    *)
(***************************************************************************)
EXTENDS BatchExtract, TLAPS

(* While the loop runs nothing has been decided.                           *)
Over == pc \in {"return", "done"}
Undecided ==
  /\ ~Over => ret = "none" /\ ~cancelled
  /\ Over => ret # "none"
  /\ pc # "done" => status = "none"

(* The result is what the match at the end makes of ret and cancelled.     *)
Decided ==
  pc = "done" => status = IF ret # Success THEN "Err"
                          ELSE IF cancelled THEN "Cancelled" ELSE "Completed"

(* A refusal is noted, and the library then returns Success.               *)
RefusalReturns ==
  /\ cancelled <=> Refused
  /\ cancelled => ret = Success

(* The error code remembers every failure it should, and decides what is   *)
(* returned unless something was thrown or refused.                        *)
TroubleHasCode == troubles \cap Recorded # {} => dllError # Success
SuccessIsClean == ret = Success => cancelled \/ dllError = Success

(* The last error is the code of something that went wrong.                *)
Explained ==
  \/ dllError = Success
  \/ (dllError = "MissingPassword" /\ password # "set")
  \/ \E t \in troubles \cap Recorded : dllError = CodeOf(t)
Returned == ret \in ThrownCodes \cup {"none", Success} \/ ret = dllError

(* After a refused dictionary, or a missing volume, nothing but the report *)
(* follows.                                                                *)
DictStops ==
  "dict" \in troubles =>
    /\ dllError = "LargeDict"
    /\ (pc = "report" /\ ~success) \/ Over
    /\ Over => \/ ret = "LargeDict"
               \/ event.kind = "Err" /\ event.code = dllError /\ Refused
VolumeStops ==
  "volume" \in troubles =>
    /\ dllError = "EOpen"
    /\ (pc \in {"verify", "report"} /\ ~success) \/ Over
    /\ Over => ret = "EOpen" \/ Refused

(* In a solid archive only the file at hand may be owed, from the moment   *)
(* it is taken until it is unpacked, and without success nothing follows.  *)
Owed(S) == solid => owed = S
OnlyThisOwed ==
  /\ pc \in {"decrypt", "open"} /\ target = "disk" => ~file.before
  /\ pc \in {"read", "start", "extract"} => Owed({})
  /\ pc \in {"verify", "report"} /\ success => Owed({})
  /\ pc \in {"decrypt", "open"} =>
       Owed(IF file.kind = "data" /\ ~file.before THEN {blocks} ELSE {})
  /\ pc = "unpack" => Owed(IF file.kind = "data" THEN {blocks} ELSE {})

(* The first file is over once its password is asked for.                  *)
FirstIsOver ==
  /\ pc \in {"decrypt", "open", "unpack", "verify"} => ~firstFile
  /\ dllError = "BadPassword" => ~firstFile

(* A file the loop has announced fails only with an error code.            *)
AnnouncedIsFile == pc \in {"start", "extract"} /\ current.here => block = "file"
FailureHasCode ==
  /\ pc = "unpack" => success
  /\ pc \in {"verify", "report"} /\ ~success /\ current.here => dllError # Success
ErrHasCode ==
  event.kind = "Err" =>
    /\ Over
    /\ event.code # Success /\ event.code = dllError
    /\ ret \in {Success, dllError}

(* The histories name known troubles only.                                 *)
HistoryOK == trouble \subseteq Troubles /\ troubles \subseteq Troubles

(* The recorded troubles are troubles.                                     *)
LEMMA HistoryNext == HistoryOK /\ [Next]_vars => HistoryOK'
<1> SUFFICES ASSUME HistoryOK, [Next]_vars PROVE HistoryOK'
  OBVIOUS
<1>1. ASSUME NEW t \in Troubles, Suffer(t) PROVE HistoryOK'
  BY <1>1 DEF HistoryOK, Suffer
<1>2. ASSUME NEW S \in SUBSET Troubles, trouble' = S, troubles' = troubles \cup S
      PROVE  HistoryOK'
  BY <1>2 DEF HistoryOK
<1>3. ASSUME UNCHANGED history PROVE HistoryOK'
  BY <1>3 DEF HistoryOK, history
<1> USE DEF Troubles, Recorded
<1>4. ASSUME NEW how \in Losses, MissVolume(how) PROVE HistoryOK'
  BY <1>4, <1>1, <1>3, BatchAssumption DEF MissVolume, AtVolumeEnd, LoseVolume,
     Finish
<1>5. CASE SkipMisplaced
  BY <1>5, <1>2 DEF SkipMisplaced, TakeFile, Misplaced, Finish
<1>6. CASE RejectVersion
  BY <1>6, <1>2 DEF RejectVersion, TakeFile, Misplaced, Orphan, Beginning, Finish
<1>7. CASE Admit
  BY <1>7, <1>2 DEF Admit, TakeFile, Misplaced, Orphan, Beginning
<1>8. CASE PasswordMissing
  BY <1>8, <1>1, <1>3 DEF PasswordMissing, Finish
<1>9. CASE PasswordWrong
  BY <1>9, <1>1, <1>3 DEF PasswordWrong
<1>10. CASE RefuseTarget
  BY <1>10, <1>1, <1>3 DEF RefuseTarget
<1>11. ASSUME NEW made \in BOOLEAN, Directory(made) PROVE HistoryOK'
  BY <1>11, <1>1, <1>3, BatchAssumption DEF Directory, Finish
<1>12. CASE RefuseDict
  BY <1>12, <1>1, <1>3 DEF RefuseDict, Unpacked, Event, Finish
<1>13. ASSUME NEW outcome \in {"ok", "failed", "renamed"}, CreateFile(outcome)
      PROVE  HistoryOK'
  BY <1>13, <1>1, <1>3, BatchAssumption DEF CreateFile, Unpacked
<1>14. ASSUME NEW made \in BOOLEAN, MakeLink(made) PROVE HistoryOK'
  BY <1>14, <1>1, <1>3, BatchAssumption DEF MakeLink
<1>15. ASSUME NEW how \in Losses, MissInFile(how) PROVE HistoryOK'
  BY <1>15, <1>1, <1>3, BatchAssumption DEF MissInFile, Unpacking, LoseVolume
<1>16. ASSUME NEW valid \in BOOLEAN, Verify(valid) PROVE HistoryOK'
  BY <1>16, <1>1, <1>3, BatchAssumption DEF Verify
<1>17. CASE Reading
  BY <1>3, <1>17 DEF Reading, ReadFileHeader, ReadOtherHeader, ReadNothing,
     ReadThrows, StartFile, StartQuietly
<1>18. CASE Skipping
  BY <1>3, <1>4, <1>18 DEF Skipping, SkipBlock, EndOfArchive, FollowVolume,
     JumpVolume, BadVolume
<1>19. CASE Preparing
  BY <1>3, <1>5, <1>6, <1>7, <1>8, <1>9, <1>19 DEF Preparing, PasswordFits
<1>20. CASE Opening
  BY <1>3, <1>10, <1>11, <1>12, <1>13, <1>20 DEF Opening, PassOver, SkipInMemory,
     PermitDict, EnterMemory, OpenLink
<1>21. CASE Unpack
  BY <1>3, <1>14, <1>15, <1>16, <1>21 DEF Unpack, UnpackDone, MergeInFile,
     UnpackThrows
<1>22. CASE Reporting
  BY <1>3, <1>22 DEF Reporting, ReportOk, ReportErr, ReportQuietly, Return, Continue
<1>23. CASE UNCHANGED vars
  BY <1>3, <1>23 DEF vars
<1> QED
  BY <1>17, <1>18, <1>19, <1>20, <1>21, <1>22, <1>23 DEF Next

(* Flags that become constants.                                            *)
LEMMA FinishTypes ==
  ASSUME NEW ok \in BOOLEAN, Finish(ok) PROVE success' \in BOOLEAN /\ pc' = "report"
  BY Zenon DEF Finish

(* A header that was read keeps the types of the stream.                   *)
LEMMA TakeTypes ==
  ASSUME TypeOK, TakeFile PROVE firstFile' \in BOOLEAN /\ unpVolume' \in BOOLEAN
<1>1. firstFile' \in BOOLEAN
  BY Zenon DEF TakeFile
<1>2. unpVolume' \in BOOLEAN
  BY DEF TypeOK, TakeFile, FileHeader
<1> QED
  BY <1>1, <1>2

(* Only headers that were read are owed.                                   *)
LEMMA OwedTypes == TypeOK /\ [Next]_vars => owed' \subseteq 0 .. MaxBlocks
<1> SUFFICES ASSUME TypeOK, [Next]_vars PROVE owed' \subseteq 0 .. MaxBlocks
  OBVIOUS
<1>0. owed \subseteq 0 .. MaxBlocks /\ blocks \in 0 .. MaxBlocks
  BY DEF TypeOK
<1>1. CASE UNCHANGED owed
  BY <1>0, <1>1
<1>2. CASE owed' = owed \cup {blocks}
  BY <1>0, <1>2
<1>3. CASE owed' = owed \ {blocks}
  BY <1>0, <1>3
<1>4. CASE Reading
  BY <1>1, <1>4 DEF Reading, ReadFileHeader, ReadOtherHeader, ReadNothing,
     ReadThrows, StartFile, StartQuietly, steady
<1>5. CASE Skipping
  BY <1>1, <1>5 DEF Skipping, SkipBlock, EndOfArchive, FollowVolume, JumpVolume,
     MissVolume, BadVolume, steady
<1>6. CASE Preparing
  BY <1>1, <1>2, <1>6 DEF Preparing, SkipMisplaced, RejectVersion, Admit, TakeFile,
     PasswordFits, PasswordMissing, PasswordWrong, steady
<1>7. CASE Opening
  BY <1>1, <1>7 DEF Opening, RefuseTarget, Directory, PassOver, SkipInMemory,
     PermitDict, RefuseDict, EnterMemory, CreateFile, OpenLink, steady
<1>8. CASE Unpack
  BY <1>1, <1>3, <1>8 DEF Unpack, MakeLink, UnpackDone, MergeInFile, MissInFile,
     UnpackThrows, Verify, steady
<1>9. CASE Reporting
  BY <1>1, <1>9 DEF Reporting, ReportOk, ReportErr, ReportQuietly, Continue, Return,
     steady
<1>10. CASE UNCHANGED vars
  BY <1>1, <1>10 DEF vars, steady
<1> QED
  BY <1>4, <1>5, <1>6, <1>7, <1>8, <1>9, <1>10 DEF Next

(* Every step of the extraction keeps the types.                           *)
LEMMA TypeNext == TypeOK /\ [Next]_vars => TypeOK'
<1> SUFFICES ASSUME TypeOK, [Next]_vars PROVE TypeOK'
  OBVIOUS
<1> DEFINE H == /\ trouble' \subseteq Troubles /\ troubles' \subseteq Troubles
                /\ owed' \subseteq 0 .. MaxBlocks
<1>0. H
  BY HistoryNext, OwedTypes DEF HistoryOK, TypeOK
<1> USE BatchAssumption, <1>0 DEF TypeOK, fixed, steady, reading, staging, wrapper,
        Codes, Success, FileCodes, ThrownCodes, FileHeader, Encryption
<1>1. ASSUME NEW h \in FileHeaders, ReadFileHeader(h) PROVE TypeOK'
  BY <1>1 DEF ReadFileHeader, NoFile
<1>2. ASSUME NEW type \in {"other", "endarc", "nextvol"}, ReadOtherHeader(type)
      PROVE  TypeOK'
  BY <1>2 DEF ReadOtherHeader, NoFile
<1>3. ASSUME NEW why \in {"eof", "broken", "locked"}, ReadNothing(why) PROVE TypeOK'
  BY <1>3 DEF ReadNothing, NoFile
<1>4. ASSUME NEW code \in {"ERead", "NoMemory", "MissingPassword"},
             ReadThrows(code)
      PROVE  TypeOK'
  BY <1>4 DEF ReadThrows, Throw, NoFile
<1>5. ASSUME NEW go \in BOOLEAN, StartFile(go) PROVE TypeOK'
  BY <1>5 DEF StartFile, Event
<1>6. CASE StartQuietly
  BY <1>6 DEF StartQuietly
<1>7. CASE SkipBlock
  BY <1>7 DEF SkipBlock, Finish
<1>8. CASE EndOfArchive
  <2>1. success' \in BOOLEAN /\ pc' = "report"
    BY <1>8, FinishTypes DEF EndOfArchive
  <2> QED
    BY <1>8, <2>1 DEF EndOfArchive
<1>9. CASE FollowVolume
  <2>1. success' \in BOOLEAN /\ pc' = "report"
    BY <1>9, FinishTypes DEF FollowVolume, AtVolumeEnd
  <2>2. unpVolume' \in BOOLEAN
    BY <1>9, Zenon DEF FollowVolume
  <2> QED
    BY <1>9, <2>1, <2>2 DEF FollowVolume, AtVolumeEnd
<1>10. ASSUME NEW type \in {"file", "other", "endarc", "nextvol"}, NEW h \in
             FileHeaders, JumpVolume(type, h)
      PROVE  TypeOK'
  BY <1>10 DEF JumpVolume, AtVolumeEnd
<1>11. ASSUME NEW how \in Losses, MissVolume(how) PROVE TypeOK'
  <2>1. success' \in BOOLEAN /\ pc' = "report"
    BY <1>11, FinishTypes DEF MissVolume, AtVolumeEnd, LoseVolume
  <2> QED
    BY <1>11, <2>1 DEF MissVolume, AtVolumeEnd, LoseVolume
<1>12. ASSUME NEW code \in {"ERead", "BadArchive", "MissingPassword"},
             BadVolume(code)
      PROVE  TypeOK'
  BY <1>12 DEF BadVolume, AtVolumeEnd, Throw
<1>13. CASE SkipMisplaced
  <2>1. success' \in BOOLEAN /\ pc' = "report"
    BY <1>13, FinishTypes DEF SkipMisplaced, Misplaced
  <2>2. firstFile' \in BOOLEAN /\ unpVolume' \in BOOLEAN
    BY <1>13, TakeTypes DEF SkipMisplaced, Misplaced
  <2> QED
    BY <1>13, <2>1, <2>2 DEF SkipMisplaced, Misplaced
<1>14. CASE RejectVersion
  <2>1. success' \in BOOLEAN /\ pc' = "report"
    BY <1>14, FinishTypes DEF RejectVersion, Misplaced, Orphan, Beginning
  <2>2. firstFile' \in BOOLEAN /\ unpVolume' \in BOOLEAN
    BY <1>14, TakeTypes DEF RejectVersion, Misplaced, Orphan, Beginning
  <2> QED
    BY <1>14, <2>1, <2>2 DEF RejectVersion, Misplaced, Orphan, Beginning
<1>15. CASE Admit
  <2>1. firstFile' \in BOOLEAN /\ unpVolume' \in BOOLEAN
    BY <1>15, TakeTypes DEF Admit, Misplaced, Orphan, Beginning
  <2> QED
    BY <1>15, <2>1 DEF Admit, Misplaced, Orphan, Beginning
<1>16. CASE PasswordFits
  BY <1>16 DEF PasswordFits
<1>17. CASE PasswordMissing
  <2>1. success' \in BOOLEAN /\ pc' = "report"
    BY <1>17, FinishTypes DEF PasswordMissing
  <2> QED
    BY <1>17, <2>1 DEF PasswordMissing
<1>18. CASE PasswordWrong
  BY <1>18 DEF PasswordWrong
<1>19. CASE RefuseTarget
  BY <1>19 DEF RefuseTarget
<1>20. ASSUME NEW made \in BOOLEAN, Directory(made) PROVE TypeOK'
  BY <1>20 DEF Directory, Finish
<1>21. CASE PassOver
  BY <1>21 DEF PassOver, Finish
<1>22. CASE SkipInMemory
  BY <1>22 DEF SkipInMemory
<1>23. CASE PermitDict
  BY <1>23 DEF PermitDict, Unpacked, Event
<1>24. CASE RefuseDict
  <2>1. success' \in BOOLEAN /\ pc' = "report"
    BY <1>24, FinishTypes DEF RefuseDict, Unpacked, Event
  <2> QED
    BY <1>24, <2>1 DEF RefuseDict, Unpacked, Event
<1>25. CASE EnterMemory
  BY <1>25 DEF EnterMemory, Unpacked
<1>26. ASSUME NEW outcome \in {"ok", "failed", "renamed"}, CreateFile(outcome)
      PROVE  TypeOK'
  <2>1. success' \in BOOLEAN
    BY <1>26, Zenon DEF CreateFile
  <2>2. dllError' \in Codes
    BY <1>26 DEF CreateFile
  <2>3. pc' \in {"open", "unpack"} /\ target' \in {"nowhere", "disk"}
    BY <1>26 DEF CreateFile, Unpacked
  <2>4. pc' = "unpack" => target' # "nowhere"
    BY <1>26 DEF CreateFile, Unpacked
  <2> QED
    BY <1>26, <2>1, <2>2, <2>3, <2>4 DEF CreateFile, Unpacked
<1>27. CASE OpenLink
  BY <1>27 DEF OpenLink
<1>28. ASSUME NEW made \in BOOLEAN, MakeLink(made) PROVE TypeOK'
  BY <1>28 DEF MakeLink
<1>29. CASE UnpackDone
  BY <1>29 DEF UnpackDone, Unpacking
<1>30. ASSUME NEW more \in BOOLEAN, MergeInFile(more) PROVE TypeOK'
  <2> DEFINE begun == [file EXCEPT !.before = TRUE]
  <2>1. begun \in FileHeader
    OBVIOUS
  <2>2. file' = [begun EXCEPT !.after = more]
    BY <1>30 DEF MergeInFile
  <2> HIDE DEF begun
  <2>3. file' \in FileHeader
    BY <2>1, <2>2
  <2> QED
    BY <1>30, <2>3 DEF MergeInFile, Unpacking
<1>31. ASSUME NEW how \in Losses, MissInFile(how) PROVE TypeOK'
  <2>1. success' \in BOOLEAN
    BY <1>31, Zenon DEF MissInFile
  <2> QED
    BY <1>31, <2>1 DEF MissInFile, Unpacking, LoseVolume
<1>32. ASSUME NEW code \in {"ERead", "EWrite", "NoMemory"}, UnpackThrows(code)
      PROVE  TypeOK'
  BY <1>32 DEF UnpackThrows, Throw, Unpacking
<1>33. ASSUME NEW valid \in BOOLEAN, Verify(valid) PROVE TypeOK'
  BY <1>33 DEF Verify
<1>34. ASSUME NEW go \in BOOLEAN, ReportOk(go) PROVE TypeOK'
  BY <1>34 DEF ReportOk, Deliver, Continue, Event, Heard
<1>35. ASSUME NEW go \in BOOLEAN, ReportErr(go) PROVE TypeOK'
  BY <1>35 DEF ReportErr, Deliver, Continue, Event, Heard
<1>36. CASE ReportQuietly
  BY <1>36 DEF ReportQuietly, Continue, Heard
<1>37. CASE Return
  BY <1>37 DEF Return
<1>38. CASE UNCHANGED vars
  BY <1>38 DEF vars
<1> QED
  BY <1>1, <1>2, <1>3, <1>4, <1>5, <1>6, <1>7, <1>8, <1>9, <1>10, <1>11, <1>12,
     <1>13, <1>14, <1>15, <1>16, <1>17, <1>18, <1>19, <1>20, <1>21, <1>22, <1>23,
     <1>24, <1>25, <1>26, <1>27, <1>28, <1>29, <1>30, <1>31, <1>32, <1>33, <1>34,
     <1>35, <1>36, <1>37, <1>38
  DEF Next, Reading, Skipping, Preparing, Opening, Unpack, Reporting

Outcome == Undecided /\ Decided /\ RefusalReturns

(* What was answered and returned agrees with the stage.                   *)
LEMMA OutcomeNext == TypeOK /\ Outcome /\ [Next]_vars => Outcome'
<1> SUFFICES ASSUME TypeOK, Outcome, [Next]_vars PROVE Outcome'
  OBVIOUS
<1> USE BatchAssumption DEF TypeOK, Outcome, Undecided, Over, Decided,
   RefusalReturns, Refused, Success, Codes, FileCodes, ThrownCodes, fixed, steady,
   reading, staging, wrapper, history
<1>1. ASSUME NEW h \in FileHeaders, ReadFileHeader(h) PROVE Outcome'
  BY <1>1 DEF ReadFileHeader
<1>2. ASSUME NEW type \in {"other", "endarc", "nextvol"}, ReadOtherHeader(type)
   PROVE Outcome'
  BY <1>2 DEF ReadOtherHeader
<1>3. ASSUME NEW why \in {"eof", "broken", "locked"}, ReadNothing(why) PROVE
   Outcome'
  BY <1>3 DEF ReadNothing
<1>4. ASSUME NEW code \in {"ERead", "NoMemory", "MissingPassword"},
   ReadThrows(code) PROVE Outcome'
  BY <1>4 DEF ReadThrows, Throw
<1>5. ASSUME NEW go \in BOOLEAN, StartFile(go) PROVE Outcome'
  BY <1>5 DEF StartFile, Event
<1>6. CASE StartQuietly
  BY <1>6 DEF StartQuietly
<1>7. CASE SkipBlock
  BY <1>7 DEF SkipBlock, Finish
<1>8. CASE EndOfArchive
  BY <1>8 DEF EndOfArchive, Finish
<1>9. CASE FollowVolume
  BY <1>9 DEF FollowVolume, AtVolumeEnd, Finish
<1>10. ASSUME NEW type \in {"file", "other", "endarc", "nextvol"}, NEW h \in
   FileHeaders, JumpVolume(type, h) PROVE Outcome'
  BY <1>10 DEF JumpVolume, AtVolumeEnd
<1>11. ASSUME NEW how \in Losses, MissVolume(how) PROVE Outcome'
  BY <1>11 DEF MissVolume, AtVolumeEnd, LoseVolume, Suffer, Finish
<1>12. ASSUME NEW code \in {"ERead", "BadArchive", "MissingPassword"},
   BadVolume(code) PROVE Outcome'
  BY <1>12 DEF BadVolume, AtVolumeEnd, Throw
<1>13. CASE SkipMisplaced
  BY <1>13 DEF SkipMisplaced, TakeFile, Misplaced, Finish
<1>14. CASE RejectVersion
  BY <1>14 DEF RejectVersion, TakeFile, Misplaced, Orphan, Beginning, Finish
<1>15. CASE Admit
  BY <1>15 DEF Admit, TakeFile, Misplaced, Orphan, Beginning
<1>16. CASE PasswordFits
  BY <1>16 DEF PasswordFits
<1>17. CASE PasswordMissing
  BY <1>17 DEF PasswordMissing, Suffer, Finish
<1>18. CASE PasswordWrong
  BY <1>18 DEF PasswordWrong, Suffer
<1>19. CASE RefuseTarget
  BY <1>19 DEF RefuseTarget, Suffer
<1>20. ASSUME NEW made \in BOOLEAN, Directory(made) PROVE Outcome'
  BY <1>20 DEF Directory, Suffer, Finish
<1>21. CASE PassOver
  BY <1>21 DEF PassOver, Finish
<1>22. CASE SkipInMemory
  BY <1>22 DEF SkipInMemory
<1>23. CASE PermitDict
  BY <1>23 DEF PermitDict, Unpacked, Event
<1>24. CASE RefuseDict
  BY <1>24 DEF RefuseDict, Unpacked, Event, Suffer, Finish
<1>25. CASE EnterMemory
  BY <1>25 DEF EnterMemory, Unpacked
<1>26. ASSUME NEW outcome \in {"ok", "failed", "renamed"}, CreateFile(outcome)
   PROVE Outcome'
  BY <1>26 DEF CreateFile, Unpacked, Suffer
<1>27. CASE OpenLink
  BY <1>27 DEF OpenLink
<1>28. ASSUME NEW made \in BOOLEAN, MakeLink(made) PROVE Outcome'
  BY <1>28 DEF MakeLink, Suffer
<1>29. CASE UnpackDone
  BY <1>29 DEF UnpackDone, Unpacking
<1>30. ASSUME NEW more \in BOOLEAN, MergeInFile(more) PROVE Outcome'
  BY <1>30 DEF MergeInFile, Unpacking, Readable
<1>31. ASSUME NEW how \in Losses, MissInFile(how) PROVE Outcome'
  BY <1>31 DEF MissInFile, Unpacking, LoseVolume, Suffer
<1>32. ASSUME NEW code \in {"ERead", "EWrite", "NoMemory"}, UnpackThrows(code)
   PROVE Outcome'
  BY <1>32 DEF UnpackThrows, Throw, Unpacking
<1>33. ASSUME NEW valid \in BOOLEAN, Verify(valid) PROVE Outcome'
  BY <1>33 DEF Verify, Suffer
<1>34. ASSUME NEW go \in BOOLEAN, ReportOk(go) PROVE Outcome'
  BY <1>34 DEF ReportOk, Deliver, Continue, Event, Heard
<1>35. ASSUME NEW go \in BOOLEAN, ReportErr(go) PROVE Outcome'
  BY <1>35 DEF ReportErr, Deliver, Continue, Event, Heard
<1>36. CASE ReportQuietly
  BY <1>36 DEF ReportQuietly, Continue, Heard
<1>37. CASE Return
  BY <1>37 DEF Return
<1>38. CASE UNCHANGED vars
  BY <1>38 DEF vars
<1> QED
  BY <1>1, <1>2, <1>3, <1>4, <1>5, <1>6, <1>7, <1>8, <1>9, <1>10, <1>11, <1>12,
     <1>13, <1>14, <1>15, <1>16, <1>17, <1>18, <1>19, <1>20, <1>21, <1>22,
     <1>23, <1>24, <1>25, <1>26, <1>27, <1>28, <1>29, <1>30, <1>31, <1>32,
     <1>33, <1>34, <1>35, <1>36, <1>37, <1>38 DEF Next, Reading, Skipping,
     Preparing, Opening, Unpack, Reporting

NothingLost == TroubleHasCode /\ SuccessIsClean

(* No step clears or overwrites a recorded failure.                        *)
LEMMA NothingLostNext == TypeOK /\ Outcome /\ NothingLost /\ [Next]_vars => NothingLost'
<1> SUFFICES ASSUME TypeOK, Outcome, NothingLost, [Next]_vars PROVE NothingLost'
  OBVIOUS
<1> USE DEF TypeOK, Outcome, NothingLost, TroubleHasCode, SuccessIsClean,
   Undecided, Over, Recorded, Success, fixed, steady, reading, staging, wrapper, history
<1>1. ASSUME UNCHANGED <<troubles, dllError, ret, cancelled>> PROVE NothingLost'
  BY <1>1
<1>2. ASSUME NEW code \in {"ERead", "NoMemory", "MissingPassword"},
   ReadThrows(code) PROVE NothingLost'
  BY <1>2 DEF ReadThrows, Throw
<1>3. ASSUME NEW go \in BOOLEAN, StartFile(go) PROVE NothingLost'
  BY <1>3 DEF StartFile, Event
<1>4. ASSUME NEW how \in Losses, MissVolume(how) PROVE NothingLost'
  BY <1>4 DEF MissVolume, AtVolumeEnd, LoseVolume, Suffer, Finish
<1>5. ASSUME NEW code \in {"ERead", "BadArchive", "MissingPassword"},
   BadVolume(code) PROVE NothingLost'
  BY <1>5 DEF BadVolume, AtVolumeEnd, Throw
<1>6. CASE SkipMisplaced
  BY <1>6 DEF SkipMisplaced, TakeFile, Misplaced, Finish
<1>7. CASE RejectVersion
  BY <1>7 DEF RejectVersion, TakeFile, Misplaced, Orphan, Beginning, Finish
<1>8. CASE Admit
  BY <1>8 DEF Admit, TakeFile, Misplaced, Orphan, Beginning
<1>9. CASE PasswordMissing
  BY <1>9 DEF PasswordMissing, Suffer, Finish
<1>10. CASE PasswordWrong
  BY <1>10 DEF PasswordWrong, Suffer
<1>11. CASE RefuseTarget
  BY <1>11 DEF RefuseTarget, Suffer
<1>12. ASSUME NEW made \in BOOLEAN, Directory(made) PROVE NothingLost'
  BY <1>12 DEF Directory, Suffer, Finish
<1>13. CASE RefuseDict
  BY <1>13 DEF RefuseDict, Unpacked, Event, Suffer, Finish
<1>14. ASSUME NEW outcome \in {"ok", "failed", "renamed"}, CreateFile(outcome)
   PROVE NothingLost'
  BY <1>14 DEF CreateFile, Unpacked, Suffer
<1>15. ASSUME NEW made \in BOOLEAN, MakeLink(made) PROVE NothingLost'
  BY <1>15 DEF MakeLink, Suffer
<1>16. ASSUME NEW how \in Losses, MissInFile(how) PROVE NothingLost'
  BY <1>16 DEF MissInFile, Unpacking, LoseVolume, Suffer
<1>17. ASSUME NEW code \in {"ERead", "EWrite", "NoMemory"}, UnpackThrows(code)
   PROVE NothingLost'
  BY <1>17 DEF UnpackThrows, Throw, Unpacking
<1>18. ASSUME NEW valid \in BOOLEAN, Verify(valid) PROVE NothingLost'
  BY <1>18 DEF Verify, Suffer
<1>19. ASSUME NEW go \in BOOLEAN, ReportOk(go) PROVE NothingLost'
  BY <1>19 DEF ReportOk, Deliver, Continue, Event, Heard
<1>20. ASSUME NEW go \in BOOLEAN, ReportErr(go) PROVE NothingLost'
  BY <1>20 DEF ReportErr, Deliver, Continue, Event, Heard
<1>21. CASE ReportQuietly
  BY <1>21 DEF ReportQuietly, Continue, Heard
<1>22. CASE UNCHANGED vars
  BY <1>22 DEF vars
<1>23. CASE Reading
  BY <1>1, <1>2, <1>3, <1>23 DEF Reading, ReadFileHeader, ReadOtherHeader,
     ReadNothing, StartQuietly
<1>24. CASE Skipping
  BY <1>1, <1>4, <1>5, <1>24 DEF Skipping, SkipBlock, EndOfArchive,
     FollowVolume, JumpVolume, Finish
<1>25. CASE Preparing
  BY <1>1, <1>6, <1>7, <1>8, <1>9, <1>10, <1>25 DEF Preparing, PasswordFits
<1>26. CASE Opening
  BY <1>1, <1>11, <1>12, <1>13, <1>14, <1>26 DEF Opening, PassOver,
     SkipInMemory, PermitDict, EnterMemory, OpenLink, Finish
<1>27. CASE Unpack
  BY <1>1, <1>15, <1>16, <1>17, <1>18, <1>27 DEF Unpack, UnpackDone, MergeInFile
<1>28. CASE Reporting
  BY <1>1, <1>19, <1>20, <1>21, <1>28 DEF Reporting, Return
<1> QED
  BY <1>22, <1>23, <1>24, <1>25, <1>26, <1>27, <1>28 DEF Next

(* What returns is the last error, unless something was thrown.            *)
LEMMA ReturnedNext == TypeOK /\ Outcome /\ Returned /\ [Next]_vars => Returned'
<1> SUFFICES ASSUME TypeOK, Outcome, Returned, [Next]_vars PROVE Returned'
  OBVIOUS
<1> USE DEF TypeOK, Outcome, Returned, Undecided, Over, Success, ThrownCodes,
   fixed, steady, reading, staging, wrapper, history
<1>1. ASSUME UNCHANGED <<dllError, ret>> PROVE Returned'
  BY <1>1
<1>2. ASSUME NEW code \in {"ERead", "NoMemory", "MissingPassword"},
   ReadThrows(code) PROVE Returned'
  BY <1>2 DEF ReadThrows, Throw
<1>3. ASSUME NEW go \in BOOLEAN, StartFile(go) PROVE Returned'
  BY <1>3 DEF StartFile, Event
<1>4. ASSUME NEW how \in Losses, MissVolume(how) PROVE Returned'
  BY <1>4 DEF MissVolume, AtVolumeEnd, LoseVolume, Suffer, Finish
<1>5. ASSUME NEW code \in {"ERead", "BadArchive", "MissingPassword"},
   BadVolume(code) PROVE Returned'
  BY <1>5 DEF BadVolume, AtVolumeEnd, Throw
<1>6. CASE SkipMisplaced
  BY <1>6 DEF SkipMisplaced, TakeFile, Misplaced, Finish
<1>7. CASE RejectVersion
  BY <1>7 DEF RejectVersion, TakeFile, Misplaced, Orphan, Beginning, Finish
<1>8. CASE Admit
  BY <1>8 DEF Admit, TakeFile, Misplaced, Orphan, Beginning
<1>9. CASE PasswordMissing
  BY <1>9 DEF PasswordMissing, Suffer, Finish
<1>10. CASE PasswordWrong
  BY <1>10 DEF PasswordWrong, Suffer
<1>11. ASSUME NEW made \in BOOLEAN, Directory(made) PROVE Returned'
  BY <1>11 DEF Directory, Suffer, Finish
<1>12. CASE RefuseDict
  BY <1>12 DEF RefuseDict, Unpacked, Event, Suffer, Finish
<1>13. ASSUME NEW outcome \in {"ok", "failed", "renamed"}, CreateFile(outcome)
   PROVE Returned'
  BY <1>13 DEF CreateFile, Unpacked, Suffer
<1>14. ASSUME NEW made \in BOOLEAN, MakeLink(made) PROVE Returned'
  BY <1>14 DEF MakeLink, Suffer
<1>15. ASSUME NEW how \in Losses, MissInFile(how) PROVE Returned'
  BY <1>15 DEF MissInFile, Unpacking, LoseVolume, Suffer
<1>16. ASSUME NEW code \in {"ERead", "EWrite", "NoMemory"}, UnpackThrows(code)
   PROVE Returned'
  BY <1>16 DEF UnpackThrows, Throw, Unpacking
<1>17. ASSUME NEW valid \in BOOLEAN, Verify(valid) PROVE Returned'
  BY <1>17 DEF Verify, Suffer
<1>18. ASSUME NEW go \in BOOLEAN, ReportOk(go) PROVE Returned'
  BY <1>18 DEF ReportOk, Deliver, Continue, Event, Heard
<1>19. ASSUME NEW go \in BOOLEAN, ReportErr(go) PROVE Returned'
  BY <1>19 DEF ReportErr, Deliver, Continue, Event, Heard
<1>20. CASE ReportQuietly
  BY <1>20 DEF ReportQuietly, Continue, Heard
<1>21. CASE UNCHANGED vars
  BY <1>21 DEF vars
<1>22. CASE Reading
  BY <1>1, <1>2, <1>3, <1>22 DEF Reading, ReadFileHeader, ReadOtherHeader,
     ReadNothing, StartQuietly
<1>23. CASE Skipping
  BY <1>1, <1>4, <1>5, <1>23 DEF Skipping, SkipBlock, EndOfArchive,
     FollowVolume, JumpVolume, Finish
<1>24. CASE Preparing
  BY <1>1, <1>6, <1>7, <1>8, <1>9, <1>10, <1>24 DEF Preparing, PasswordFits
<1>25. CASE Opening
  BY <1>1, <1>11, <1>12, <1>13, <1>25 DEF Opening, RefuseTarget, PassOver,
     SkipInMemory, PermitDict, EnterMemory, OpenLink, Finish, Suffer
<1>26. CASE Unpack
  BY <1>1, <1>14, <1>15, <1>16, <1>17, <1>26 DEF Unpack, UnpackDone, MergeInFile
<1>27. CASE Reporting
  BY <1>1, <1>18, <1>19, <1>20, <1>27 DEF Reporting, Return
<1> QED
  BY <1>21, <1>22, <1>23, <1>24, <1>25, <1>26, <1>27 DEF Next

(* An error stays explained while it stays, and a new one is explained by  *)
(* the trouble that is recorded with it.                                   *)
LEMMA ExplainedStays ==
  ASSUME Explained, dllError' = dllError, troubles \subseteq troubles',
         password' = password \/ password' # "set"
  PROVE  Explained'
  BY DEF Explained

(* A trouble that has just happened explains its code.                     *)
LEMMA TroubleExplains ==
  ASSUME NEW t \in Recorded, t \in troubles', dllError' = CodeOf(t)
  PROVE  Explained'
  BY DEF Explained

(* A trouble that has a code has an error code.                            *)
LEMMA CodesOfTroubles ==
  /\ CodeOf("misplaced") = "BadData" /\ CodeOf("checksum") = "BadData"
  /\ CodeOf("version") = "UnknownFormat" /\ CodeOf("dict") = "LargeDict"
  /\ CodeOf("create") = "ECreate" /\ CodeOf("reference") = "EReference"
  /\ CodeOf("volume") = "EOpen" /\ CodeOf("password") = "BadPassword"
  BY DEF CodeOf

(* Every value DllError takes has its trouble.                             *)
LEMMA ExplainedNext == TypeOK /\ Explained /\ [Next]_vars => Explained'
<1> SUFFICES ASSUME TypeOK, Explained, [Next]_vars PROVE Explained'
  OBVIOUS
<1> USE DEF fixed, steady, reading, staging, history
<1>1. ASSUME UNCHANGED <<troubles, dllError, password>> PROVE Explained'
  BY <1>1, ExplainedStays
<1>2. ASSUME NEW t, Suffer(t), UNCHANGED <<dllError, password>> PROVE Explained'
  BY <1>2, ExplainedStays DEF Suffer
<1>3. ASSUME NEW t \in Recorded, Suffer(t), dllError' = CodeOf(t) PROVE Explained'
  BY <1>3, TroubleExplains DEF Suffer
<1>4. ASSUME dllError' = "MissingPassword", password' # "set" PROVE Explained'
  BY <1>4 DEF Explained
<1>5. {"misplaced", "version", "password", "dict", "create", "reference",
       "volume", "checksum"} = Recorded
  BY DEF Recorded
<1>6. ASSUME NEW how \in Losses, LoseVolume(how), password' = password
      PROVE  Explained'
  BY <1>2, <1>3, <1>5, <1>6, CodesOfTroubles DEF LoseVolume
<1>7. ASSUME NEW code, ReadThrows(code) PROVE Explained'
  BY <1>1, <1>4, <1>7 DEF ReadThrows, Readable
<1>8. ASSUME NEW code, BadVolume(code) PROVE Explained'
  BY <1>1, <1>4, <1>8 DEF BadVolume, Readable
<1>9. CASE SkipMisplaced
  BY <1>5, <1>9, TroubleExplains, CodesOfTroubles DEF SkipMisplaced
<1>10. CASE RejectVersion
  BY <1>5, <1>10, TroubleExplains, CodesOfTroubles DEF RejectVersion
<1>11. CASE Admit
  <2>1. CASE Misplaced
    BY <1>5, <1>11, <2>1, TroubleExplains, CodesOfTroubles DEF Admit, Beginning
  <2>2. CASE ~Misplaced
    BY <1>11, <2>2, ExplainedStays DEF Admit
  <2> QED
    BY <2>1, <2>2
<1>12. CASE PasswordMissing
  BY <1>4, <1>12 DEF PasswordMissing
<1>13. CASE PasswordWrong
  <2>1. password' # "set" /\ Suffer("password")
    BY <1>13 DEF PasswordWrong
  <2>2. CASE dllError' = dllError
    BY <2>1, <2>2, ExplainedStays DEF Suffer
  <2>3. CASE dllError' = "BadPassword"
    BY <1>3, <1>5, <2>1, <2>3, CodesOfTroubles
  <2> QED
    BY <1>13, <2>2, <2>3 DEF PasswordWrong
<1>14. CASE RefuseTarget
  BY <1>2, <1>14 DEF RefuseTarget
<1>15. ASSUME NEW made, Directory(made) PROVE Explained'
  BY <1>1, <1>3, <1>5, <1>15, CodesOfTroubles DEF Directory
<1>16. CASE RefuseDict
  BY <1>3, <1>5, <1>16, CodesOfTroubles DEF RefuseDict
<1>17. ASSUME NEW outcome, CreateFile(outcome) PROVE Explained'
  BY <1>1, <1>3, <1>5, <1>17, CodesOfTroubles DEF CreateFile
<1>18. ASSUME NEW made, MakeLink(made) PROVE Explained'
  BY <1>1, <1>2, <1>3, <1>5, <1>18, CodesOfTroubles DEF MakeLink
<1>19. ASSUME NEW valid, Verify(valid) PROVE Explained'
  <2>1. CASE UNCHANGED <<dllError, history>>
    BY <1>1, <1>19, <2>1 DEF Verify
  <2>2. CASE Suffer("checksum") /\ dllError' = dllError
    BY <1>2, <1>19, <2>2 DEF Verify
  <2>3. CASE Suffer("checksum") /\ dllError' = "BadData"
    BY <1>3, <1>5, <2>3, CodesOfTroubles
  <2> QED
    BY <1>19, <2>1, <2>2, <2>3 DEF Verify
<1>20. CASE Reading
  BY <1>1, <1>7, <1>20 DEF Reading, ReadFileHeader, ReadOtherHeader, ReadNothing,
     StartFile, StartQuietly
<1>21. CASE Skipping
  BY <1>1, <1>6, <1>8, <1>21 DEF Skipping, SkipBlock, EndOfArchive, FollowVolume,
     JumpVolume, MissVolume
<1>22. CASE Preparing
  BY <1>1, <1>9, <1>10, <1>11, <1>12, <1>13, <1>22 DEF Preparing, PasswordFits
<1>23. CASE Opening
  BY <1>1, <1>14, <1>15, <1>16, <1>17, <1>23 DEF Opening, PassOver, SkipInMemory,
     PermitDict, EnterMemory, OpenLink
<1>24. CASE Unpack
  BY <1>1, <1>6, <1>18, <1>19, <1>24 DEF Unpack, UnpackDone, MergeInFile,
     MissInFile, UnpackThrows
<1>25. CASE Reporting
  BY <1>1, <1>25 DEF Reporting, ReportOk, ReportErr, ReportQuietly, Continue, Return
<1>26. CASE UNCHANGED vars
  BY <1>1, <1>26 DEF vars
<1> QED
  BY <1>20, <1>21, <1>22, <1>23, <1>24, <1>25, <1>26 DEF Next

(* Neither trouble lets another file be read.                              *)
Stops == DictStops /\ VolumeStops

(* What stops a file leaves it without success.                            *)
LEMMA StopsNext == TypeOK /\ Outcome /\ Stops /\ [Next]_vars => Stops'
<1> SUFFICES ASSUME TypeOK, Outcome, Stops, [Next]_vars PROVE Stops'
  OBVIOUS
<1> USE DEF fixed, steady, reading, staging, history
<1> DEFINE Early == pc \notin {"verify", "report", "return", "done"}
<1>1. ASSUME Early, troubles' \subseteq troubles PROVE Stops'
  BY <1>1 DEF Stops, DictStops, VolumeStops, Over
<1>2. ASSUME Early, NEW t, t \notin {"dict", "volume"}, troubles' \subseteq
   troubles \cup {t}
      PROVE  Stops'
  BY <1>2 DEF Stops, DictStops, VolumeStops, Over
<1>3. ASSUME Early, Suffer("volume"), dllError' = "EOpen", success' = FALSE,
             pc' \in {"verify", "report"}
      PROVE  Stops'
  BY <1>3 DEF Stops, DictStops, VolumeStops, Over, Suffer
<1>4. ASSUME Early, NEW how \in Losses, LoseVolume(how), success' = FALSE,
             pc' \in {"verify", "report"}
      PROVE  Stops'
  BY <1>2, <1>3, <1>4 DEF LoseVolume, Suffer
<1>5. CASE Reading
  BY <1>1, <1>5 DEF Reading, ReadFileHeader, ReadOtherHeader, ReadNothing,
     ReadThrows,
     StartFile, StartQuietly
<1>6. CASE Skipping
  <2>1. ASSUME NEW how \in Losses, MissVolume(how) PROVE Stops'
    BY <1>4, <2>1 DEF MissVolume, AtVolumeEnd, Finish
  <2>2. ASSUME NEW code, BadVolume(code) PROVE Stops'
    BY <1>1, <2>2 DEF BadVolume, AtVolumeEnd
  <2> QED
    BY <1>1, <1>6, <2>1, <2>2 DEF Skipping, SkipBlock, EndOfArchive, FollowVolume,
       JumpVolume, AtVolumeEnd
<1>7. CASE Preparing
  <2>1. CASE SkipMisplaced
    BY <1>2, <2>1 DEF SkipMisplaced, TakeFile
  <2>2. ASSUME pc = "extract", troubles' = troubles \cup Beginning PROVE Stops'
    BY <1>1, <1>2, <2>2 DEF Beginning
  <2>3. CASE RejectVersion
    BY <2>3 DEF RejectVersion, TakeFile, Beginning, Stops, DictStops, VolumeStops,
       Over
  <2>4. CASE Admit
    BY <2>2, <2>4 DEF Admit, TakeFile
  <2>5. CASE PasswordMissing
    BY <1>2, <2>5 DEF PasswordMissing, Suffer
  <2>6. CASE PasswordWrong
    BY <1>2, <2>6 DEF PasswordWrong, Suffer
  <2>7. CASE PasswordFits
    BY <1>1, <2>7 DEF PasswordFits
  <2> QED
    BY <1>7, <2>1, <2>3, <2>4, <2>5, <2>6, <2>7 DEF Preparing
<1>8. CASE Opening
  <2>1. CASE RefuseTarget
    BY <1>2, <2>1 DEF RefuseTarget, Suffer
  <2>2. ASSUME NEW made, Directory(made) PROVE Stops'
    BY <1>1, <1>2, <2>2 DEF Directory, Suffer
  <2>3. CASE RefuseDict
    BY <2>3 DEF RefuseDict, Unpacked, Suffer, Finish, Stops, DictStops,
       VolumeStops, Over
  <2>4. ASSUME NEW outcome, CreateFile(outcome) PROVE Stops'
    BY <1>1, <1>2, <2>4 DEF CreateFile, Unpacked, Suffer
  <2> QED
    BY <1>1, <1>8, <2>1, <2>2, <2>3, <2>4 DEF Opening, PassOver, SkipInMemory,
       PermitDict, EnterMemory, OpenLink, Unpacked
<1>9. CASE Unpack
  <2>1. ASSUME NEW made, MakeLink(made) PROVE Stops'
    BY <1>1, <1>2, <2>1 DEF MakeLink, Suffer
  <2>2. ASSUME NEW how \in Losses, MissInFile(how) PROVE Stops'
    BY <1>4, <2>2 DEF MissInFile, Unpacking
  <2>3. ASSUME NEW valid, Verify(valid) PROVE Stops'
    <3>1. pc = "verify" /\ pc' = "report" /\ success' = success
      BY <2>3 DEF Verify
    <3>2. "dict" \notin troubles /\ (("volume" \in troubles) => (dllError = "EOpen" /\ ~success))
      BY <3>1 DEF Stops, DictStops, VolumeStops, Over
    <3>3. troubles' \subseteq troubles \cup {"checksum"}
          /\ (dllError = "EOpen" => dllError' = dllError)
      BY <2>3 DEF Verify, Suffer
    <3> QED
      BY <3>1, <3>2, <3>3 DEF Stops, DictStops, VolumeStops, Over
  <2> QED
    BY <1>1, <1>9, <2>1, <2>2, <2>3 DEF Unpack, UnpackDone, MergeInFile,
       UnpackThrows,
       Unpacking
<1>10. CASE Reporting
  <2> USE DEF Stops, DictStops, VolumeStops, Over, Outcome, Undecided, Continue, Success,
          Refused, Event
  <2>1. ASSUME NEW go \in BOOLEAN, ReportOk(go) PROVE Stops'
    BY <2>1 DEF ReportOk, Deliver
  <2>2. ASSUME NEW go \in BOOLEAN, ReportErr(go) PROVE Stops'
    BY <2>2 DEF ReportErr, Deliver
  <2>3. CASE ReportQuietly
    BY <2>3 DEF ReportQuietly, wrapper
  <2>4. CASE Return
    BY <2>4 DEF Return, wrapper
  <2> QED
    BY <1>10, <2>1, <2>2, <2>3, <2>4 DEF Reporting
<1>11. CASE UNCHANGED vars
  BY <1>11 DEF vars, wrapper, Stops, DictStops, VolumeStops, Over, Refused
<1> QED
  BY <1>5, <1>6, <1>7, <1>8, <1>9, <1>10, <1>11 DEF Next

(* What is taken is paid before the next header is read.                   *)
LEMMA OwedNext == OnlyThisOwed /\ [Next]_vars => OnlyThisOwed'
<1> SUFFICES ASSUME OnlyThisOwed, [Next]_vars PROVE OnlyThisOwed'
  OBVIOUS
<1> USE DEF OnlyThisOwed, Owed, fixed, steady, reading, staging
<1>1. ASSUME pc \in {"read", "start", "extract"}, UNCHANGED <<solid, owed>>,
             pc' \notin {"decrypt", "open", "unpack"}
      PROVE  OnlyThisOwed'
  BY <1>1
<1>2. ASSUME pc' \in {"return", "done"} PROVE OnlyThisOwed'
  BY <1>2
<1>3. CASE Reading
  <2>1. ASSUME NEW code, ReadThrows(code) PROVE OnlyThisOwed'
    BY <1>2, <2>1 DEF ReadThrows, Throw
  <2>2. ASSUME NEW go, StartFile(go) PROVE OnlyThisOwed'
    BY <1>1, <2>2 DEF StartFile
  <2> QED
    BY <1>1, <1>3, <2>1, <2>2 DEF Reading, ReadFileHeader, ReadOtherHeader,
       ReadNothing, StartQuietly
<1>4. CASE Skipping
  <2>1. ASSUME NEW type, NEW h, JumpVolume(type, h) PROVE OnlyThisOwed'
    BY <1>1, <2>1 DEF JumpVolume, AtVolumeEnd
  <2>2. ASSUME NEW how, MissVolume(how) PROVE OnlyThisOwed'
    BY <1>1, <2>2 DEF MissVolume, AtVolumeEnd, Finish
  <2>3. ASSUME NEW code, BadVolume(code) PROVE OnlyThisOwed'
    BY <1>2, <2>3 DEF BadVolume, Throw
  <2> QED
    BY <1>1, <1>4, <2>1, <2>2, <2>3 DEF Skipping, SkipBlock, EndOfArchive,
       FollowVolume, AtVolumeEnd, Finish
<1>5. CASE Preparing
  <2>1. CASE SkipMisplaced
    BY <2>1 DEF SkipMisplaced, TakeFile, Finish
  <2>2. CASE RejectVersion
    BY <2>2 DEF RejectVersion, TakeFile, Finish
  <2>3. CASE Admit
    BY <2>3 DEF Admit, TakeFile
  <2>4. CASE PasswordFits
    BY <2>4 DEF PasswordFits
  <2>5. CASE PasswordMissing
    BY <2>5 DEF PasswordMissing, Finish
  <2>6. CASE PasswordWrong
    BY <2>6 DEF PasswordWrong
  <2> QED
    BY <1>5, <2>1, <2>2, <2>3, <2>4, <2>5, <2>6 DEF Preparing
<1>6. CASE Opening
  <2>1. CASE RefuseTarget
    BY <2>1 DEF RefuseTarget
  <2>2. ASSUME NEW made, Directory(made) PROVE OnlyThisOwed'
    BY <2>2 DEF Directory, Finish
  <2>3. CASE PassOver
    BY <2>3 DEF PassOver, Finish
  <2>4. CASE SkipInMemory
    BY <2>4 DEF SkipInMemory
  <2>5. CASE PermitDict
    BY <2>5 DEF PermitDict, Unpacked
  <2>6. CASE RefuseDict
    BY <2>6 DEF RefuseDict, Unpacked, Finish
  <2>7. CASE EnterMemory
    BY <2>7 DEF EnterMemory, Unpacked
  <2>8. ASSUME NEW outcome, CreateFile(outcome) PROVE OnlyThisOwed'
    BY <2>8 DEF CreateFile, Unpacked
  <2>9. CASE OpenLink
    BY <2>9 DEF OpenLink
  <2> QED
    BY <1>6, <2>1, <2>2, <2>3, <2>4, <2>5, <2>6, <2>7, <2>8, <2>9 DEF Opening
<1>7. CASE Unpack
  <2>1. ASSUME NEW made, MakeLink(made) PROVE OnlyThisOwed'
    BY <2>1 DEF MakeLink
  <2>2. CASE UnpackDone
    BY <2>2 DEF UnpackDone, Unpacking
  <2>3. ASSUME NEW more, MergeInFile(more) PROVE OnlyThisOwed'
    <3>1. file'.kind = file.kind
      BY <2>3 DEF MergeInFile
    <3> QED
      BY <2>3, <3>1 DEF MergeInFile, Unpacking
  <2>4. ASSUME NEW how, MissInFile(how) PROVE OnlyThisOwed'
    BY <2>4 DEF MissInFile, Unpacking
  <2>5. ASSUME NEW code, UnpackThrows(code) PROVE OnlyThisOwed'
    BY <1>2, <2>5 DEF UnpackThrows, Throw
  <2>6. ASSUME NEW valid, Verify(valid) PROVE OnlyThisOwed'
    BY <2>6 DEF Verify
  <2> QED
    BY <1>7, <2>1, <2>2, <2>3, <2>4, <2>5, <2>6 DEF Unpack
<1>8. CASE Reporting
  <2>1. ASSUME NEW go, pc = "report", Continue(go) PROVE OnlyThisOwed'
    BY <2>1 DEF Continue
  <2> QED
    BY <1>2, <1>8, <2>1 DEF Reporting, ReportOk, ReportErr, ReportQuietly, Return
<1>9. CASE UNCHANGED vars
  BY <1>9 DEF vars
<1> QED
  BY <1>3, <1>4, <1>5, <1>6, <1>7, <1>8, <1>9 DEF Next

(* FirstFile is over before a password is asked for.                       *)
LEMMA FirstIsOverNext == FirstIsOver /\ [Next]_vars => FirstIsOver'
<1> SUFFICES ASSUME FirstIsOver, [Next]_vars PROVE FirstIsOver'
  OBVIOUS
<1> USE DEF FirstIsOver, fixed, steady, reading, staging
<1>0. ASSUME ~firstFile, UNCHANGED firstFile PROVE FirstIsOver'
  BY <1>0
<1>1. CASE Reading
  <2>1. ASSUME NEW code, ReadThrows(code) PROVE FirstIsOver'
    BY <2>1 DEF ReadThrows, Throw
  <2> QED
    BY <1>1, <2>1 DEF Reading, ReadFileHeader, ReadOtherHeader, ReadNothing,
       StartFile,
       StartQuietly
<1>2. CASE Skipping
  <2>1. ASSUME NEW code, BadVolume(code) PROVE FirstIsOver'
    BY <2>1 DEF BadVolume, Throw
  <2>2. ASSUME NEW how, MissVolume(how) PROVE FirstIsOver'
    BY <2>2 DEF MissVolume, LoseVolume, Finish
  <2>3. ASSUME NEW type, NEW h, JumpVolume(type, h) PROVE FirstIsOver'
    BY <2>3 DEF JumpVolume, AtVolumeEnd
  <2> QED
    BY <1>2, <2>1, <2>2, <2>3 DEF Skipping, SkipBlock, EndOfArchive, FollowVolume,
       Finish
<1>3. CASE Preparing
  <2>1. ASSUME TakeFile PROVE FirstIsOver'
    BY <2>1 DEF TakeFile
  <2>2. CASE PasswordWrong
    BY <2>2 DEF PasswordWrong
  <2>3. CASE PasswordMissing
    BY <2>3 DEF PasswordMissing, Finish
  <2> QED
    BY <1>3, <1>0, <2>1, <2>2, <2>3 DEF Preparing, SkipMisplaced, RejectVersion,
       Admit,
       PasswordFits
<1>4. CASE Opening
  BY <1>0, <1>4 DEF Opening, RefuseTarget, Directory, PassOver, SkipInMemory,
     PermitDict,
     RefuseDict, EnterMemory, CreateFile, OpenLink, Unpacked
<1>5. CASE Unpack
  BY <1>0, <1>5 DEF Unpack, MakeLink, UnpackDone, MergeInFile, MissInFile,
     UnpackThrows, Unpacking, Verify
<1>6. CASE Reporting
  BY <1>6 DEF Reporting, ReportOk, ReportErr, ReportQuietly, Continue, Return
<1>7. CASE UNCHANGED vars
  BY <1>7 DEF vars
<1> QED
  BY <1>1, <1>2, <1>3, <1>4, <1>5, <1>6, <1>7 DEF Next

(* Only three actions record a checksum or a misplaced file.               *)
LEMMA NoMask ==
  FirstIsOver /\ [Next]_vars /\ dllError = "BadPassword" => dllError' # "BadData"
<1> SUFFICES ASSUME FirstIsOver, [Next]_vars, dllError = "BadPassword"
             PROVE  dllError' # "BadData"
  OBVIOUS
<1> USE DEF FirstIsOver
<1>1. CASE Reading
  BY <1>1 DEF Reading, ReadFileHeader, ReadOtherHeader, ReadNothing, ReadThrows,
     StartFile, StartQuietly
<1>2. CASE Skipping
  BY <1>2 DEF Skipping, SkipBlock, EndOfArchive, FollowVolume, JumpVolume,
     MissVolume, LoseVolume, BadVolume
<1>3. CASE Preparing
  BY <1>3 DEF Preparing, SkipMisplaced, RejectVersion, Admit, Misplaced,
     PasswordFits,
     PasswordMissing, PasswordWrong
<1>4. CASE Opening
  BY <1>4 DEF Opening, RefuseTarget, Directory, PassOver, SkipInMemory, PermitDict,
     RefuseDict, EnterMemory, CreateFile, OpenLink, staging
<1>5. CASE Unpack
  BY <1>5 DEF Unpack, MakeLink, UnpackDone, MergeInFile, MissInFile, LoseVolume,
     UnpackThrows, Verify
<1>6. CASE Reporting
  BY <1>6 DEF Reporting, ReportOk, ReportErr, ReportQuietly, Continue, Return
<1>7. CASE UNCHANGED vars
  BY <1>7 DEF vars
<1> QED
  BY <1>1, <1>2, <1>3, <1>4, <1>5, <1>6, <1>7 DEF Next

(* A failure that is to be announced has a code, as long as no directory   *)
(* was in the way of a volume.                                             *)
Coded == AnnouncedIsFile /\ FailureHasCode /\ ErrHasCode

(* A failure without a code is a directory in the way.                     *)
LEMMA CodedNext ==
  TypeOK /\ Coded /\ [Next]_vars /\ "blocked" \notin troubles' => Coded'
<1> SUFFICES ASSUME TypeOK, Coded, [Next]_vars, "blocked" \notin troubles'
             PROVE  Coded'
  OBVIOUS
<1> USE DEF fixed, steady, reading, staging, wrapper
<1>1. ASSUME ~Over, pc' \in {"read", "decrypt", "open"}, UNCHANGED event
      PROVE  Coded'
  BY <1>1 DEF Coded, AnnouncedIsFile, FailureHasCode, ErrHasCode, Over
<1>2. ASSUME ~Over, pc' \in {"start", "extract", "return", "done"}, UNCHANGED event,
             current'.here => block' = "file"
      PROVE  Coded'
  BY <1>2 DEF Coded, AnnouncedIsFile, FailureHasCode, ErrHasCode, Over
<1>3. ASSUME ~Over, pc' \in {"unpack", "verify", "report"}, UNCHANGED event,
             \/ success'
             \/ pc' # "unpack" /\ (dllError' # Success \/ ~current'.here)
      PROVE  Coded'
  BY <1>3 DEF Coded, AnnouncedIsFile, FailureHasCode, ErrHasCode, Over
<1>4. ASSUME pc \in {"start", "extract"} PROVE current.here => block = "file"
  BY <1>4 DEF Coded, AnnouncedIsFile
<1>5. ASSUME pc = "unpack" PROVE success
  BY <1>5 DEF Coded, FailureHasCode
<1>6. CASE Reading
  <2>1. ASSUME NEW h, ReadFileHeader(h) PROVE Coded'
    BY <1>2, <2>1 DEF ReadFileHeader, Over
  <2>2. ASSUME pc = "read", current' = NoFile, pc' \in {"extract", "return"},
               UNCHANGED event
        PROVE  Coded'
    BY <1>2, <2>2 DEF NoFile, Over
  <2>3. ASSUME NEW go \in BOOLEAN, StartFile(go) PROVE Coded'
    BY <1>4, <2>3 DEF StartFile, Event, Coded, AnnouncedIsFile, FailureHasCode,
       ErrHasCode, Over
  <2>4. CASE StartQuietly
    BY <1>2, <1>4, <2>4 DEF StartQuietly, Over
  <2> QED
    BY <1>6, <2>1, <2>2, <2>3, <2>4 DEF Reading, ReadOtherHeader, ReadNothing,
       ReadThrows, Throw
<1>7. CASE Skipping
  <2>1. ASSUME pc = "extract", block # "file" PROVE ~current.here
    BY <1>4, <2>1
  <2>2. ASSUME pc = "extract", block # "file", pc' = "report", UNCHANGED <<event, current>>
        PROVE  Coded'
    BY <1>3, <2>1, <2>2 DEF Over
  <2>3. ASSUME NEW type, NEW h, JumpVolume(type, h) PROVE Coded'
    BY <1>2, <2>1, <2>3 DEF JumpVolume, AtVolumeEnd, Over
  <2>4. ASSUME NEW how, MissVolume(how) PROVE Coded'
    BY <2>2, <2>4 DEF MissVolume, AtVolumeEnd, Finish
  <2>5. ASSUME NEW code, BadVolume(code) PROVE Coded'
    <3>1. pc' = "return" /\ ~Over /\ UNCHANGED event
      BY <2>5 DEF BadVolume, AtVolumeEnd, Throw, Over
    <3> QED
      BY <3>1 DEF Coded, AnnouncedIsFile, FailureHasCode, ErrHasCode, Over
  <2> QED
    BY <1>7, <2>2, <2>3, <2>4, <2>5 DEF Skipping, SkipBlock, EndOfArchive,
       FollowVolume,
       AtVolumeEnd, Finish
<1>8. CASE Preparing
  <2>1. CASE SkipMisplaced
    BY <1>3, <2>1 DEF SkipMisplaced, TakeFile, Finish, Over
  <2>2. CASE RejectVersion
    BY <1>3, <2>2 DEF RejectVersion, TakeFile, Finish, Over, Success
  <2>3. CASE PasswordMissing
    BY <1>3, <2>3 DEF PasswordMissing, Finish, Over, Success
  <2> QED
    BY <1>1, <1>8, <2>1, <2>2, <2>3 DEF Preparing, Admit, TakeFile, PasswordFits,
       PasswordWrong, Over
<1>9. CASE Opening
  <2>1. ASSUME NEW made, Directory(made) PROVE Coded'
    BY <1>3, <2>1 DEF Directory, Finish, Over
  <2>2. CASE PassOver
    BY <1>3, <2>2 DEF PassOver, Finish, Over
  <2>3. CASE PermitDict
    BY <2>3 DEF PermitDict, Unpacked, Event, Coded, AnnouncedIsFile, FailureHasCode,
       ErrHasCode
  <2>4. CASE RefuseDict
    BY <2>4 DEF RefuseDict, Unpacked, Event, Finish, Success, Coded,
       AnnouncedIsFile,
       FailureHasCode, ErrHasCode, Over
  <2>5. CASE EnterMemory
    BY <1>3, <2>5 DEF EnterMemory, Unpacked, Over
  <2>6. ASSUME NEW outcome, CreateFile(outcome) PROVE Coded'
    <3>1. CASE outcome = "failed"
      BY <1>1, <2>6, <3>1 DEF CreateFile, Unpacked, Over
    <3>2. CASE outcome # "failed"
      BY <1>3, <2>6, <3>2 DEF CreateFile, Unpacked, Over
    <3> QED
      BY <3>1, <3>2
  <2>7. CASE OpenLink
    BY <1>3, <2>7 DEF OpenLink, Over
  <2> QED
    BY <1>1, <1>9, <2>1, <2>2, <2>3, <2>4, <2>5, <2>6, <2>7 DEF Opening,
       RefuseTarget,
       SkipInMemory, Over
<1>10. CASE Unpack
  <2>1. ASSUME NEW made, MakeLink(made) PROVE Coded'
    BY <1>3, <1>5, <2>1 DEF MakeLink, Over
  <2>2. CASE UnpackDone
    BY <1>3, <1>5, <2>2 DEF UnpackDone, Unpacking, Over
  <2>3. ASSUME NEW more, MergeInFile(more) PROVE Coded'
    BY <1>3, <1>5, <2>3 DEF MergeInFile, Unpacking, Over
  <2>4. ASSUME NEW how, MissInFile(how) PROVE Coded'
    BY <1>3, <2>4 DEF MissInFile, LoseVolume, Suffer, Unpacking, Over, Success
  <2>5. ASSUME NEW code, UnpackThrows(code) PROVE Coded'
    <3>1. pc' = "return" /\ ~Over /\ UNCHANGED event
      BY <2>5 DEF UnpackThrows, Unpacking, Throw, Over
    <3> QED
      BY <3>1 DEF Coded, AnnouncedIsFile, FailureHasCode, ErrHasCode, Over
  <2>6. ASSUME NEW valid, Verify(valid) PROVE Coded'
    <3>1. dllError' # dllError => dllError' # Success
      BY <2>6 DEF Verify, Success
    <3>2. success \/ dllError # Success \/ ~current.here
      BY <2>6 DEF Verify, Coded, FailureHasCode
    <3> QED
      BY <1>3, <2>6, <3>1, <3>2 DEF Verify, Over
  <2> QED
    BY <1>10, <2>1, <2>2, <2>3, <2>4, <2>5, <2>6 DEF Unpack
<1>11. CASE Reporting
  <2> USE DEF Coded, AnnouncedIsFile, FailureHasCode, ErrHasCode, Over, Continue, Event
  <2>1. ASSUME NEW go \in BOOLEAN, ReportOk(go) PROVE Coded'
    BY <2>1 DEF ReportOk, Deliver
  <2>2. ASSUME NEW go \in BOOLEAN, ReportErr(go) PROVE Coded'
    BY <2>2 DEF ReportErr, Deliver, Heard
  <2>3. CASE ReportQuietly
    BY <2>3 DEF ReportQuietly
  <2>4. CASE Return
    BY <2>4 DEF Return
  <2> QED
    BY <1>11, <2>1, <2>2, <2>3, <2>4 DEF Reporting
<1>12. CASE UNCHANGED vars
  BY <1>12 DEF vars, Coded, AnnouncedIsFile, FailureHasCode, ErrHasCode, Over
<1> QED
  BY <1>6, <1>7, <1>8, <1>9, <1>10, <1>11, <1>12 DEF Next

(* What went wrong in a call is not forgotten before it returns.           *)
LEMMA TroublesGrow == [Next]_vars => troubles \subseteq troubles'
<1> SUFFICES ASSUME [Next]_vars PROVE troubles \subseteq troubles'
  OBVIOUS
<1> USE DEF history
<1>1. CASE Reading
  BY <1>1 DEF Reading, ReadFileHeader, ReadOtherHeader, ReadNothing, ReadThrows,
     StartFile, StartQuietly
<1>2. CASE Skipping
  BY <1>2 DEF Skipping, SkipBlock, EndOfArchive, FollowVolume, JumpVolume,
     MissVolume, LoseVolume, BadVolume, Suffer
<1>3. CASE Preparing
  BY <1>3 DEF Preparing, SkipMisplaced, RejectVersion, Admit, PasswordFits,
     PasswordMissing, PasswordWrong, Suffer
<1>4. CASE Opening
  BY <1>4 DEF Opening, RefuseTarget, Directory, PassOver, SkipInMemory, PermitDict,
     RefuseDict, EnterMemory, CreateFile, OpenLink, Suffer
<1>5. CASE Unpack
  BY <1>5 DEF Unpack, MakeLink, UnpackDone, MergeInFile, MissInFile, LoseVolume,
     UnpackThrows, Verify, Suffer
<1>6. CASE Reporting
  BY <1>6 DEF Reporting, ReportOk, ReportErr, ReportQuietly, Continue, Return
<1>7. CASE UNCHANGED vars
  BY <1>7 DEF vars
<1> QED
  BY <1>1, <1>2, <1>3, <1>4, <1>5, <1>6, <1>7 DEF Next

Cause == "blocked" \in troubles \/ Coded

(* So the call that fails so has met a directory.                          *)
LEMMA CauseNext == TypeOK /\ Cause /\ [Next]_vars => Cause'
<1> SUFFICES ASSUME TypeOK, Cause, [Next]_vars, "blocked" \notin troubles'
             PROVE  Coded'
  BY DEF Cause
<1>1. "blocked" \notin troubles
  BY TroublesGrow
<1> QED
  BY <1>1, CodedNext DEF Cause

-----------------------------------------------------------------------------
(* The invariant from which every theorem follows.                         *)
Inv ==
  /\ TypeOK
  /\ Outcome
  /\ NothingLost
  /\ Explained /\ Returned
  /\ Stops
  /\ OnlyThisOwed
  /\ FirstIsOver

(* The invariant holds when the call begins.                               *)
LEMMA InitInv == Init => Inv
<1> SUFFICES ASSUME Init PROVE Inv
  OBVIOUS
<1> USE BatchAssumption DEF Init
<1>1. TypeOK
  <2>1. file \in FileHeader
    BY DEF BlankHeader, FileHeader, Encryption
  <2>2. event \in [kind : {"None", "Start", "Ok", "Err", "LargeDict"}, size : Nat,
                   code : Codes, go : BOOLEAN]
    BY DEF NoEvent, Event, Codes
  <2>3. firstFile \in BOOLEAN /\ unpVolume \in BOOLEAN /\ success \in BOOLEAN
        /\ cancelled \in BOOLEAN
    BY Zenon
  <2>4. current \in [here : BOOLEAN, named : BOOLEAN, size : Nat]
    BY DEF NoFile
  <2> QED
    BY <2>1, <2>2, <2>3, <2>4 DEF TypeOK, Codes
<1>2. Outcome
  BY DEF Outcome, Undecided, Decided, RefusalReturns, Refused, Over, NoEvent, Event
<1>3. NothingLost
  BY DEF NothingLost, TroubleHasCode, SuccessIsClean, Success
<1>4. Explained /\ Returned
  BY DEF Explained, Returned
<1>5. Stops
  BY DEF Stops, DictStops, VolumeStops
<1>6. OnlyThisOwed
  BY DEF OnlyThisOwed, Owed
<1>7. FirstIsOver
  BY DEF FirstIsOver, Success
<1> QED
  BY <1>1, <1>2, <1>3, <1>4, <1>5, <1>6, <1>7 DEF Inv

(* The parts are preserved one after another.                              *)
LEMMA NextInv == Inv /\ [Next]_vars => Inv'
  BY TypeNext, OutcomeNext, NothingLostNext, ExplainedNext, ReturnedNext, StopsNext,
     OwedNext, FirstIsOverNext DEF Inv

(* What every reachable state satisfies.                                   *)
THEOREM Invariance == Spec => []Inv
  BY InitInv, NextInv, PTL DEF Spec

(* Every variable keeps its type through the whole call.                   *)
THEOREM TypeCorrect == Spec => []TypeOK
<1>1. Inv => TypeOK
  BY DEF Inv
<1> QED
  BY Invariance, <1>1, PTL

(* extract_all_with_callback never reports Completed after a failure for   *)
(* which the library recorded an error code.                               *)
THEOREM FailuresSurvive == Spec => []NoRecordedTroubleIsLost
<1>1. Inv => NoRecordedTroubleIsLost
  <2> SUFFICES ASSUME Inv, status = "Completed" PROVE troubles \cap Recorded = {}
    BY DEF NoRecordedTroubleIsLost
  <2>1. pc = "done"
    BY DEF Inv, Outcome, Undecided
  <2>2. ret = Success /\ ~cancelled
    BY <2>1 DEF Inv, Outcome, Decided
  <2> QED
    BY <2>2 DEF Inv, NothingLost, TroubleHasCode, SuccessIsClean
<1> QED
  BY Invariance, <1>1, PTL

(* It returns Cancelled exactly when the closure refused the last Start,   *)
(* Ok or Err event.                                                        *)
THEOREM CancelledMeansRefused == Spec => []CancelledIffRefused
<1>1. Inv => CancelledIffRefused
  BY DEF Inv, Outcome, Decided, RefusalReturns, CancelledIffRefused
<1> QED
  BY Invariance, <1>1, PTL

(* An error that was not thrown is the code of something that went wrong.  *)
THEOREM ErrorsHaveCauses == Spec => []ErrorIsAccountedFor
<1>1. Inv => ErrorIsAccountedFor
  <2> SUFFICES ASSUME Inv, status = "Err", ret \notin ThrownCodes
               PROVE  \/ ret = "MissingPassword" /\ password # "set"
                      \/ \E t \in troubles \cap Recorded : ret = CodeOf(t)
    BY DEF ErrorIsAccountedFor
  <2>1. pc = "done"
    BY DEF Inv, Outcome, Undecided
  <2>2. ret # Success
    BY <2>1 DEF Inv, Outcome, Decided
  <2>3. ret = dllError
    BY <2>1, <2>2 DEF Inv, Returned, Outcome, Undecided, Over
  <2> QED
    BY <2>2, <2>3 DEF Inv, Explained
<1> QED
  BY Invariance, <1>1, PTL

(* A dictionary the closure refuses is an error of the call, never success *)
(* and never a cancellation of its own.                                    *)
THEOREM RefusedDictFails == Spec => []DictRefusalFails
<1>1. Inv => DictRefusalFails
  BY DEF Inv, Outcome, Decided, RefusalReturns, Stops, DictStops, Over, Success,
     DictRefusalFails
<1> QED
  BY Invariance, <1>1, PTL

(* A volume that cannot be opened ends the call with EOpen.                *)
THEOREM LostVolumeFails == Spec => []MissingVolumeFails
<1>1. Inv => MissingVolumeFails
  BY DEF Inv, Outcome, Decided, Stops, VolumeStops, Over, Success,
     MissingVolumeFails
<1> QED
  BY Invariance, <1>1, PTL

(* In a solid archive no file enters the unpacker while the data of an     *)
(* earlier one, of those that began in this call, has not gone through it. *)
THEOREM SolidDataUnpacked == Spec => []SolidStreamIntact
<1>1. Inv => SolidStreamIntact
  BY DEF Inv, OnlyThisOwed, Owed, SolidStreamIntact, Unpacking
<1> QED
  BY Invariance, <1>1, PTL

(* A wrong password, once recorded, is not replaced by the checksum error  *)
(* it causes.                                                              *)
THEOREM BadPasswordStays == Spec => BadPasswordNotMasked
<1>1. Inv /\ [Next]_vars => [dllError = "BadPassword" => dllError' # "BadData"]_vars
  BY NoMask DEF Inv
<1> QED
  BY Invariance, <1>1, PTL DEF Spec, BadPasswordNotMasked

(* An Err event carries an error code, and the call returns that code,     *)
(* unless a directory was in the way of a volume.                          *)
THEOREM ErrEventsHaveCodes == Spec => []ErrEventCarriesCause
<1>1. Init => Cause
  BY DEF Init, Cause, Coded, AnnouncedIsFile, FailureHasCode, ErrHasCode, NoFile,
     NoEvent, Event
<1>2. Inv /\ Cause /\ [Next]_vars => Cause'
  BY CauseNext DEF Inv
<1>3. Inv /\ Cause => ErrEventCarriesCause
  <2> SUFFICES ASSUME Inv, Cause, event.kind = "Err", "blocked" \notin troubles
               PROVE  event.code # Success /\ (status = "Err" => ret = event.code)
    BY DEF ErrEventCarriesCause
  <2>1. event.code # Success /\ event.code = dllError /\ ret \in {Success, dllError}
    BY DEF Cause, Coded, ErrHasCode
  <2>2. status = "Err" => ret # Success
    BY DEF Inv, Outcome, Undecided, Decided, Success
  <2> QED
    BY <2>1, <2>2
<1> QED
  BY Invariance, <1>1, <1>2, <1>3, PTL DEF Spec

-----------------------------------------------------------------------------
(***************************************************************************)
(* BatchExtract implements ExtractEvents: whatever the archive holds and   *)
(* whatever the closure answers, the caller sees events and a result that  *)
(* the specification of the caller's view allows.                          *)
(***************************************************************************)

Sizes == {h.size : h \in FileHeaders}
Dicts == {h.dict : h \in FileHeaders}

(* From the Start of a file to its Ok or Err.                              *)
Midway == {"extract", "decrypt", "open", "unpack", "verify", "report"}

(* The dictionary a question is about is the one of a file in the archive. *)
DictFromFile ==
  /\ block = "file" => file.dict \in Dicts
  /\ pc \in Midway \ {"extract", "report"} => block = "file"

(* The size the Ok event will repeat is the one the Start event gave, and  *)
(* it is the size of a file in the archive.                                *)
SizeFromFile ==
  /\ current.here => current.size \in Sizes
  /\ pc = "start" => current.here
  /\ Heard /\ pc \in Midway => pendingSize = current.size

(* Nothing but the return follows an Err event; only the codes of the file *)
(* loop are recorded, so an Err event never carries one that is thrown.    *)
ErrIsLast == event.kind = "Err" => Over
CodeFromFile == dllError \in FileCodes \cup {Success}

(* A call that returns in the middle of an announced file was thrown out.  *)
ThrownOut == Inside /\ Over => ret # Success

Told == DictFromFile /\ SizeFromFile /\ ErrIsLast /\ CodeFromFile /\ ThrownOut

(* The files a call works on come from the archive, also those it meets in *)
(* a volume that it merges in between.                                     *)
LEMMA DictFromFileNext == TypeOK /\ DictFromFile /\ [Next]_vars => DictFromFile'
<1> SUFFICES ASSUME TypeOK, DictFromFile, [Next]_vars PROVE DictFromFile'
  OBVIOUS
<1> USE DEF DictFromFile, Midway, fixed, steady, reading, staging
<1>1. ASSUME UNCHANGED <<block, file>>,
             pc' \in {"decrypt", "open", "unpack", "verify"} =>
               block = "file" \/ pc \in {"decrypt", "open", "unpack", "verify"}
      PROVE  DictFromFile'
  BY <1>1
<1>2. CASE Reading
  <2>1. ASSUME NEW h \in FileHeaders, ReadFileHeader(h) PROVE DictFromFile'
    BY <2>1 DEF ReadFileHeader, Dicts
  <2>2. ASSUME NEW type \in {"other", "endarc", "nextvol"}, ReadOtherHeader(type)
        PROVE  DictFromFile'
    BY <2>2 DEF ReadOtherHeader
  <2>3. ASSUME NEW why, ReadNothing(why) PROVE DictFromFile'
    BY <2>3 DEF ReadNothing
  <2>4. ASSUME NEW code, ReadThrows(code) PROVE DictFromFile'
    BY <1>1, <2>4 DEF ReadThrows, Throw
  <2>5. ASSUME NEW go, StartFile(go) PROVE DictFromFile'
    BY <1>1, <2>5 DEF StartFile
  <2>6. CASE StartQuietly
    BY <1>1, <2>6 DEF StartQuietly
  <2> QED
    BY <1>2, <2>1, <2>2, <2>3, <2>4, <2>5, <2>6 DEF Reading
<1>3. CASE Skipping
  <2>1. ASSUME NEW type, NEW h \in FileHeaders, JumpVolume(type, h)
        PROVE  DictFromFile'
    BY <2>1 DEF JumpVolume, AtVolumeEnd, Dicts
  <2>2. ASSUME NEW how, MissVolume(how) PROVE DictFromFile'
    BY <1>1, <2>2 DEF MissVolume, Finish
  <2>3. ASSUME NEW code, BadVolume(code) PROVE DictFromFile'
    BY <1>1, <2>3 DEF BadVolume, Throw
  <2> QED
    BY <1>1, <1>3, <2>1, <2>2, <2>3 DEF Skipping, SkipBlock, EndOfArchive,
       FollowVolume, Finish
<1>4. CASE Preparing
  BY <1>1, <1>4 DEF Preparing, SkipMisplaced, RejectVersion, Admit, TakeFile,
     PasswordFits, PasswordMissing, PasswordWrong, Finish
<1>5. CASE Opening
  BY <1>1, <1>5 DEF Opening, RefuseTarget, Directory, PassOver, SkipInMemory,
     PermitDict, RefuseDict, EnterMemory, CreateFile, OpenLink, Unpacked, Finish
<1>6. CASE Unpack
  <2>1. ASSUME NEW more, MergeInFile(more) PROVE DictFromFile'
    <3>1. file'.dict = file.dict
      BY <2>1 DEF MergeInFile, TypeOK, FileHeader
    <3> QED
      BY <2>1, <3>1 DEF MergeInFile
  <2> QED
    BY <1>1, <1>6, <2>1 DEF Unpack, MakeLink, UnpackDone, MissInFile, UnpackThrows,
       Throw, Unpacking, Verify
<1>7. CASE Reporting
  BY <1>1, <1>7 DEF Reporting, ReportOk, ReportErr, ReportQuietly, Continue, Return
<1>8. CASE UNCHANGED vars
  BY <1>1, <1>8 DEF vars
<1> QED
  BY <1>2, <1>3, <1>4, <1>5, <1>6, <1>7, <1>8 DEF Next

(* Between the Start of a file and its Ok or Err most steps tell the       *)
(* caller nothing: they may record an error code, or be thrown out.        *)
Silent ==
  /\ pc \in Midway /\ pc' \in Midway \cup {"return"}
  /\ UNCHANGED <<listening, current, winLimit, wrapper, status>>
  /\ dllError' \in {dllError} \cup FileCodes
  /\ pc' = "return" => ret' # Success

(* An exception is no event.                                               *)
LEMMA ThrowIsSilent ==
  ASSUME NEW code, Throw(code), code # Success, dllError' \in {dllError} \cup FileCodes
  PROVE  pc' = "return" /\ ret' # Success
  BY DEF Throw

(* Neither is any stage between two messages.                              *)
LEMMA WorkIsSilent ==
  ASSUME TypeOK, Skipping \/ Preparing \/ Opening \/ Unpack, ~PermitDict, ~RefuseDict
  PROVE  Silent
<1> USE DEF Silent, Midway, FileCodes, fixed, steady, reading, staging, wrapper
<1>1. CASE Skipping
  <2>1. ASSUME NEW type, NEW h, JumpVolume(type, h) PROVE Silent
    BY <2>1 DEF JumpVolume, AtVolumeEnd
  <2>2. ASSUME NEW how, MissVolume(how) PROVE Silent
    BY <2>2 DEF MissVolume, AtVolumeEnd, LoseVolume, Finish
  <2>3. ASSUME NEW code \in {"ERead", "BadArchive", "MissingPassword"},
               BadVolume(code)
        PROVE  Silent
    BY <2>3, ThrowIsSilent DEF BadVolume, AtVolumeEnd, Success
  <2> QED
    BY <1>1, <2>1, <2>2, <2>3 DEF Skipping, SkipBlock, EndOfArchive, FollowVolume,
       AtVolumeEnd, Finish
<1>2. CASE Preparing
  BY <1>2 DEF Preparing, SkipMisplaced, RejectVersion, Admit, TakeFile,
     PasswordFits, PasswordMissing, PasswordWrong, Finish
<1>3. CASE Opening
  <2>1. ASSUME NEW made, Directory(made) PROVE Silent
    BY <2>1 DEF Directory, Finish
  <2>2. ASSUME NEW outcome, CreateFile(outcome) PROVE Silent
    BY <2>2 DEF CreateFile, Unpacked
  <2> QED
    BY <1>3, <2>1, <2>2 DEF Opening, RefuseTarget, PassOver, SkipInMemory,
       EnterMemory, OpenLink, Unpacked, Finish
<1>4. CASE Unpack
  <2>1. ASSUME NEW made, MakeLink(made) PROVE Silent
    BY <2>1 DEF MakeLink
  <2>2. ASSUME NEW how, MissInFile(how) PROVE Silent
    BY <2>2 DEF MissInFile, Unpacking, LoseVolume
  <2>3. ASSUME NEW code \in {"ERead", "EWrite", "NoMemory"}, UnpackThrows(code)
        PROVE  Silent
    BY <2>3, ThrowIsSilent DEF UnpackThrows, Unpacking, Success
  <2>4. ASSUME NEW valid, Verify(valid) PROVE Silent
    BY <2>4 DEF Verify
  <2> QED
    BY <1>4, <2>1, <2>2, <2>3, <2>4 DEF Unpack, UnpackDone, MergeInFile, Unpacking
<1> QED
  BY <1>1, <1>2, <1>3, <1>4

(* What the caller was told stays true to the loop.                        *)
LEMMA ToldNext ==
  TypeOK /\ Outcome /\ NothingLost /\ Told /\ [Next]_vars => Told'
<1> SUFFICES ASSUME TypeOK, Outcome, NothingLost, Told, [Next]_vars PROVE Told'
  OBVIOUS
<1>0. DictFromFile'
  BY DictFromFileNext DEF Told
<1> DEFINE Rest == SizeFromFile /\ ErrIsLast /\ CodeFromFile /\ ThrownOut
<1>a. Rest
  BY DEF Told
<1>b. SUFFICES Rest'
  BY <1>0 DEF Told
<1> HIDE DEF Rest
<1> USE DEF Rest, SizeFromFile, ErrIsLast, CodeFromFile, ThrownOut, Over, Heard,
   Midway, Inside, fixed, steady, reading, staging, wrapper
<1>1. ASSUME Silent PROVE Rest'
  BY <1>1, <1>a DEF Silent
<1>2. CASE Reading
  <2>1. ASSUME NEW h \in FileHeaders, ReadFileHeader(h) PROVE Rest'
    BY <1>a, <2>1 DEF ReadFileHeader, Sizes
  <2>2. ASSUME NEW type, ReadOtherHeader(type) PROVE Rest'
    BY <1>a, <2>2 DEF ReadOtherHeader, NoFile
  <2>3. ASSUME NEW why, ReadNothing(why) PROVE Rest'
    BY <1>a, <2>3 DEF ReadNothing, NoFile
  <2>4. ASSUME NEW code, ReadThrows(code) PROVE Rest'
    BY <1>a, <2>4 DEF ReadThrows, Throw, NoFile, FileCodes
  <2>5. ASSUME NEW go \in BOOLEAN, StartFile(go) PROVE Rest'
    BY <1>a, <2>5 DEF StartFile, Event
  <2>6. CASE StartQuietly
    BY <1>a, <2>6 DEF StartQuietly
  <2> QED
    BY <1>2, <2>1, <2>2, <2>3, <2>4, <2>5, <2>6 DEF Reading
<1>3. CASE PermitDict
  BY <1>a, <1>3 DEF PermitDict, Unpacked, Event
<1>4. CASE RefuseDict
  BY <1>a, <1>4 DEF RefuseDict, Unpacked, Event, Finish, FileCodes
<1>5. CASE Reporting
  <2>1. ASSUME NEW go \in BOOLEAN, ReportOk(go) PROVE Rest'
    BY <1>a, <2>1 DEF ReportOk, Deliver, Continue, Event
  <2>2. ASSUME NEW go \in BOOLEAN, ReportErr(go) PROVE Rest'
    BY <1>a, <2>2 DEF ReportErr, Deliver, Continue, Event
  <2>3. CASE ReportQuietly
    BY <1>a, <2>3 DEF ReportQuietly, Continue
  <2>4. CASE Return
    BY <1>a, <2>4 DEF Return
  <2> QED
    BY <1>5, <2>1, <2>2, <2>3, <2>4 DEF Reporting
<1>6. CASE UNCHANGED vars
  BY <1>a, <1>6 DEF vars
<1> QED
  BY <1>1, <1>2, <1>3, <1>4, <1>5, <1>6, WorkIsSilent DEF Next

(* Nothing was told when the call begins.                                  *)
LEMMA ToldInit == Init => Told
  BY DEF Init, Told, DictFromFile, SizeFromFile, Midway, Heard, Inside, ErrIsLast,
     CodeFromFile, ThrownOut, Over, NoFile, NoEvent, Event

-----------------------------------------------------------------------------
(* A silent step is none at all for the caller, or the recording of an     *)
(* error.                                                                  *)
LEMMA SilentIsFail ==
  ASSUME TypeOK, Outcome, Told, Silent
  PROVE  [Promise!Next]_Promise!vars
<1> USE DEF Silent, Midway
<1>1. status = "none" /\ ~cancelled /\ event.kind # "Err"
  BY DEF Told, ErrIsLast, Over, Outcome, Undecided
<1>2. Inside' = Inside
  BY <1>1 DEF Inside, Heard, wrapper
<1>3. UNCHANGED <<winLimit, event, status, cancelled, current>>
  BY DEF wrapper
<1>4. CASE dllError' = dllError
  BY <1>2, <1>3, <1>4 DEF Promise!vars
<1>5. CASE dllError' \in FileCodes
  <2>1. dllError' # Success
    BY <1>5 DEF FileCodes, Success
  <2>2. Promise!Fail
    BY <1>1, <1>2, <1>3, <2>1 DEF Promise!Fail
  <2> QED
    BY <2>2 DEF Promise!Next
<1> QED
  BY <1>4, <1>5

(* The steps the caller takes part in.                                     *)
LEMMA StartIsStart ==
  ASSUME TypeOK, Outcome, Told, NEW go \in BOOLEAN, StartFile(go)
  PROVE  Promise!Start(current.size, go) /\ current.size \in Sizes
<1> USE DEF StartFile, fixed, steady, reading, staging
<1>1. status = "none" /\ ~cancelled /\ event.kind # "Err" /\ ~Inside
  BY DEF Told, ErrIsLast, Over, Outcome, Undecided, Inside
<1>2. current.here /\ current.size \in Sizes
  BY DEF Told, SizeFromFile
<1>3. UNCHANGED <<winLimit, status, dllError, current>>
  OBVIOUS
<1>4. event' = Promise!Event("Start", current.size, Promise!Success, go)
  BY DEF Event, Promise!Event, Success, Promise!Success
<1>5. cancelled' = ~go /\ event'.kind = "Start"
  BY <1>4 DEF Promise!Event
<1>6. CASE go
  <2>1. Inside'
    BY <1>1, <1>2, <1>5, <1>6 DEF Inside, Heard
  <2> QED
    BY <1>1, <1>2, <1>3, <1>4, <1>5, <1>6, <2>1 DEF Promise!Start
<1>7. CASE ~go
  <2>1. ~Inside'
    BY <1>5, <1>7 DEF Inside
  <2> QED
    BY <1>1, <1>2, <1>3, <1>4, <1>5, <1>7, <2>1 DEF Promise!Start
<1> QED
  BY <1>6, <1>7

(* A question about a dictionary leaves the caller where it was.           *)
LEMMA QuestionIsLargeDict ==
  ASSUME TypeOK, Outcome, Told, NEW go \in BOOLEAN,
         pc = "open", pc' \in {"open", "report"}, file.dict > winLimit,
         event' = Event("LargeDict", file.dict, Success, go),
         winLimit' = IF go THEN file.dict ELSE winLimit,
         IF go THEN dllError' = dllError ELSE dllError' = "LargeDict",
         UNCHANGED <<listening, current, cancelled, status>>
  PROVE  Promise!LargeDict(file.dict, go) /\ file.dict \in Dicts
<1>1. status = "none" /\ ~cancelled /\ event.kind # "Err"
  BY DEF Told, ErrIsLast, Over, Outcome, Undecided
<1>2. file.dict \in Dicts
  BY DEF Told, DictFromFile, Midway
<1>3. event' = Promise!Event("LargeDict", file.dict, Promise!Success, go)
  BY DEF Event, Promise!Event, Success, Promise!Success
<1>4. event'.kind # "Err"
  BY <1>3 DEF Promise!Event
<1>5. Inside' = Inside
  BY <1>1, <1>4 DEF Inside, Heard
<1>6. (dllError' # Success) = (dllError # Success \/ ~go)
  BY DEF Success
<1> QED
  BY <1>1, <1>2, <1>3, <1>4, <1>5, <1>6 DEF Promise!LargeDict

(* The message after a file that went well is an Ok.                       *)
LEMMA OkIsOk ==
  ASSUME TypeOK, Outcome, Told, NEW go \in BOOLEAN, ReportOk(go)
  PROVE  Promise!Ok(go)
<1> USE DEF ReportOk, Deliver, Continue, fixed, steady, reading, staging
<1>1. status = "none" /\ ~cancelled /\ event.kind # "Err"
  BY DEF Told, ErrIsLast, Over, Outcome, Undecided
<1>2. Inside /\ pendingSize = current.size
  BY <1>1 DEF Told, SizeFromFile, Midway, Inside
<1>3. UNCHANGED <<winLimit, status, dllError, current>>
  OBVIOUS
<1>4. event' = Promise!Event("Ok", current.size, Promise!Success, go)
  BY <1>2 DEF Event, Promise!Event, Success, Promise!Success
<1>5. cancelled' = ~go /\ event'.kind = "Ok"
  BY DEF Event
<1>6. ~Inside'
  BY <1>5 DEF Inside
<1> QED
  BY <1>1, <1>2, <1>3, <1>4, <1>5, <1>6 DEF Promise!Ok

(* The message after a file that failed is an Err.                         *)
LEMMA ErrIsErr ==
  ASSUME TypeOK, Outcome, Told, NEW go \in BOOLEAN, ReportErr(go)
  PROVE  Promise!Err(dllError, go) /\ dllError \in FileCodes \cup {Promise!Success}
<1> USE DEF ReportErr, Deliver, Continue, fixed, steady, reading, staging
<1>1. status = "none" /\ ~cancelled /\ event.kind # "Err"
  BY DEF Told, ErrIsLast, Over, Outcome, Undecided
<1>2. Inside
  BY <1>1 DEF Inside
<1>3. UNCHANGED <<winLimit, status, dllError, current>>
  OBVIOUS
<1>4. event' = Promise!Event("Err", 0, dllError, go)
  BY DEF Event, Promise!Event
<1>5. cancelled' = ~go /\ event'.kind = "Err"
  BY DEF Event
<1>6. ~Inside'
  BY <1>5 DEF Inside
<1>7. dllError \in FileCodes \cup {Promise!Success}
  BY DEF Told, CodeFromFile, Success, Promise!Success
<1>8. (dllError # Success) <=> (dllError # Promise!Success)
  BY DEF Success, Promise!Success
<1> QED
  BY <1>1, <1>2, <1>3, <1>4, <1>5, <1>6, <1>7, <1>8 DEF Promise!Err

(* The value returned follows from the events.                             *)
LEMMA ReturnIsReturn ==
  ASSUME TypeOK, Outcome, NothingLost, Told, Return
  PROVE  Promise!Return(status') /\ status' \in {"Completed", "Cancelled", "Err"}
<1> USE DEF Return, fixed, steady, reading, staging, wrapper
<1>1. status = "none"
  BY DEF Outcome, Undecided
<1>2. ~Inside'
  BY DEF Inside
<1>3. cancelled => ret = Success
  BY DEF Outcome, RefusalReturns
<1>4. Inside => ret # Success
  BY DEF Told, ThrownOut, Over
<1>5. dllError # Success => cancelled \/ ret # Success
  BY DEF NothingLost, SuccessIsClean
<1>6. UNCHANGED <<winLimit, dllError, event, cancelled>>
  OBVIOUS
<1>7. CASE cancelled
  BY <1>1, <1>2, <1>3, <1>6, <1>7 DEF Promise!Return, Inside
<1>8. CASE ~cancelled /\ event.kind = "Err"
  BY <1>1, <1>2, <1>5, <1>6, <1>8 DEF Promise!Return, Inside
<1>9. CASE ~cancelled /\ event.kind # "Err" /\ Inside
  BY <1>1, <1>2, <1>4, <1>6, <1>9 DEF Promise!Return
<1>10. CASE ~cancelled /\ event.kind # "Err" /\ ~Inside
  BY <1>1, <1>2, <1>5, <1>6, <1>10 DEF Promise!Return
<1> QED
  BY <1>7, <1>8, <1>9, <1>10

-----------------------------------------------------------------------------
(* The initial states map to initial states.                               *)
LEMMA InitImplements == Init => Promise!Init
  BY DEF Init, Promise!Init, Inside, Heard, NoFile, NoEvent, Event,
     Promise!NoEvent, Promise!Event, Success, Promise!Success

(* Every step of the call is a step of the promise, or invisible.          *)
LEMMA NextImplements ==
  TypeOK /\ Outcome /\ NothingLost /\ Told /\ [Next]_vars
    => [Promise!Next]_Promise!vars
<1> SUFFICES ASSUME TypeOK, Outcome, NothingLost, Told, [Next]_vars
             PROVE  [Promise!Next]_Promise!vars
  OBVIOUS
<1>1. ASSUME pc \in {"read", "start", "report"}, UNCHANGED <<winLimit, wrapper, status>>,
             dllError' = dllError, ~Inside, ~Inside'
      PROVE  UNCHANGED Promise!vars
  BY <1>1 DEF Promise!vars, wrapper
<1>2. ASSUME pc \notin Midway \cup {"return"} PROVE ~Inside
  BY <1>2 DEF Inside, Midway
<1>3. CASE Reading
  <2> USE DEF fixed, steady, reading, staging, wrapper
  <2>1. ASSUME pc = "read", current' = NoFile, UNCHANGED <<winLimit, wrapper, status>>,
               dllError' \in {dllError, "MissingPassword"}
        PROVE  [Promise!Next]_Promise!vars
    <3>1. ~Inside /\ ~Inside'
      BY <1>2, <2>1 DEF Midway, Inside, Heard, NoFile
    <3>2. CASE dllError' = dllError
      BY <1>1, <2>1, <3>1, <3>2
    <3>3. CASE dllError' = "MissingPassword"
      <4>1. status = "none" /\ ~cancelled /\ event.kind # "Err"
        BY <2>1 DEF Told, ErrIsLast, Over, Outcome, Undecided
      <4>2. dllError' # Success
        BY <3>3 DEF Success
      <4> QED
        BY <2>1, <3>1, <4>1, <4>2 DEF Promise!Next, Promise!Fail
    <3> QED
      BY <2>1, <3>2, <3>3
  <2>2. ASSUME NEW h \in FileHeaders, ReadFileHeader(h)
        PROVE  [Promise!Next]_Promise!vars
    <3>1. ~Inside /\ ~Inside'
      BY <2>2 DEF ReadFileHeader, Inside
    <3> QED
      BY <1>1, <2>2, <3>1 DEF ReadFileHeader
  <2>3. ASSUME NEW type, ReadOtherHeader(type) PROVE [Promise!Next]_Promise!vars
    BY <2>1, <2>3 DEF ReadOtherHeader
  <2>4. ASSUME NEW why, ReadNothing(why) PROVE [Promise!Next]_Promise!vars
    BY <2>1, <2>4 DEF ReadNothing
  <2>5. ASSUME NEW code, ReadThrows(code) PROVE [Promise!Next]_Promise!vars
    BY <2>1, <2>5 DEF ReadThrows, Throw
  <2>6. ASSUME NEW go \in BOOLEAN, StartFile(go) PROVE [Promise!Next]_Promise!vars
    BY <2>6, StartIsStart DEF Promise!Next, Sizes
  <2>7. CASE StartQuietly
    <3>1. ~Inside /\ ~Inside'
      BY <2>7, <1>2 DEF StartQuietly, Midway, Inside, Heard
    <3> QED
      BY <2>7, <3>1 DEF StartQuietly, Promise!vars
  <2> QED
    BY <1>3, <2>2, <2>3, <2>4, <2>5, <2>6, <2>7 DEF Reading
<1>4. CASE PermitDict
  <2>1. Promise!LargeDict(file.dict, TRUE) /\ file.dict \in Dicts
    BY <1>4, QuestionIsLargeDict DEF PermitDict, Unpacked, fixed, steady, reading
  <2> QED
    BY <2>1 DEF Promise!Next, Dicts
<1>5. CASE RefuseDict
  <2> USE DEF RefuseDict, Unpacked, Finish, fixed, steady, reading
  <2>1. CASE listening
    <3>1. Promise!LargeDict(file.dict, FALSE) /\ file.dict \in Dicts
      BY <1>5, <2>1, QuestionIsLargeDict
    <3> QED
      BY <3>1 DEF Promise!Next, Dicts
  <2>2. CASE ~listening
    <3>1. Silent
      BY <1>5, <2>2 DEF Silent, Midway, FileCodes, wrapper
    <3> QED
      BY <3>1, SilentIsFail
  <2> QED
    BY <2>1, <2>2
<1>6. CASE (Skipping \/ Preparing \/ Opening \/ Unpack) /\ ~PermitDict /\ ~RefuseDict
  BY <1>6, WorkIsSilent, SilentIsFail
<1>7. CASE Reporting
  <2>1. ASSUME NEW go \in BOOLEAN, ReportOk(go) PROVE [Promise!Next]_Promise!vars
    BY <2>1, OkIsOk DEF Promise!Next
  <2>2. ASSUME NEW go \in BOOLEAN, ReportErr(go) PROVE [Promise!Next]_Promise!vars
    BY <2>2, ErrIsErr DEF Promise!Next
  <2>3. CASE ReportQuietly
    <3>1. ~Inside /\ ~Inside'
      BY <2>3 DEF ReportQuietly, Continue, fixed, steady, reading, Inside, Heard
    <3> QED
      BY <1>1, <2>3, <3>1 DEF ReportQuietly, Continue, staging
  <2>4. CASE Return
    BY <2>4, ReturnIsReturn DEF Promise!Next
  <2> QED
    BY <1>7, <2>1, <2>2, <2>3, <2>4 DEF Reporting
<1>8. CASE UNCHANGED vars
  <2>1. UNCHANGED Inside
    BY <1>8 DEF vars, fixed, steady, reading, wrapper, Inside, Heard
  <2> QED
    BY <1>8, <2>1 DEF vars, reading, wrapper, staging, Promise!vars
<1> QED
  BY <1>3, <1>4, <1>5, <1>6, <1>7, <1>8 DEF Next

(* A call of extract_all_with_callback keeps the promise ExtractEvents     *)
(* makes to its caller: each Start is closed by one Ok or Err with its     *)
(* size or with an error, LargeDict asks only about a dictionary larger    *)
(* than any permitted before, Err and a refusal end the events, and the    *)
(* result agrees with them.                                                *)
THEOREM CallerSeesPromise == Spec => KeepsPromise
<1>1. Init => Told
  BY ToldInit
<1>2. Inv => TypeOK /\ Outcome /\ NothingLost
  BY DEF Inv
<1> QED
  BY <1>1, <1>2, Invariance, ToldNext, InitImplements, NextImplements, PTL
  DEF Spec, KeepsPromise, Promise!Spec
=============================================================================
