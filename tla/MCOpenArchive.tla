--------------------------- MODULE MCOpenArchive ---------------------------
(***************************************************************************)
(* Volume sets for OpenArchive: single volumes, files split over two and   *)
(* three volumes, the old format without end records, damaged headers.     *)
(***************************************************************************)
EXTENDS OpenArchive

B(type, id) ==
  [type |-> type, id |-> id, before |-> FALSE, after |-> FALSE, next |-> FALSE,
   sound |-> TRUE]
F(id) == B("file", id)
Starts(id) == [F(id) EXCEPT !.after = TRUE]
Ends(id) == [F(id) EXCEPT !.before = TRUE]
Passes(id) == [F(id) EXCEPT !.before = TRUE, !.after = TRUE]
Service == B("other", 0)
Last == B("endarc", 0)
More == [B("endarc", 0) EXCEPT !.next = TRUE]
Unsound(b) == [b EXCEPT !.sound = FALSE]
Corrupt == Unsound(B("corrupt", 0))

Single == <<<<Service, F(1), Service, F(2), Last>>>>
Empty == <<<<Service, Last>>>>
NoEnd == <<<<F(1), F(2)>>>>
Split2 == <<<<F(1), Starts(2), More>>, <<Service, Ends(2), Service, F(3), Last>>>>
Split3 == <<<<Starts(1), More>>, <<Passes(1), More>>, <<Ends(1), F(2), Last>>>>
Whole2 == <<<<F(1), Service, More>>, <<F(2), Last>>>>
Old2 == <<<<F(1), Starts(2)>>, <<Ends(2), F(3)>>>>

Sound == {Single, Empty, NoEnd, Split2, Split3, Whole2, Old2}

Damaged ==
  {<<<<F(1), Unsound(F(2)), F(3), Last>>>>,
   <<<<F(1), Corrupt, F(2), Last>>>>,
   <<<<F(1), Unsound(Starts(2)), More>>, <<Ends(2), F(3), Last>>>>,
   <<<<Starts(1), More>>, <<Unsound(Service), Ends(1), F(2), Last>>>>,
   <<<<F(1), More>>, <<Corrupt, F(2), Last>>>>,
   <<<<F(1), More>>, <<Unsound(F(2)), F(3), Last>>>>}

AllArchives == Sound \cup Damaged

(* They are laid out as the proofs about listings suppose.                 *)
ASSUME LaidOut == EndIsEnd /\ SplitIsLast /\ VolumesLeadOn /\ RestFollows
=============================================================================
