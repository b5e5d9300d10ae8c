--------------------------- MODULE MCBatchExtract ---------------------------
(***************************************************************************)
(* Small archives for BatchExtract: a handful of headers, each of which    *)
(* takes another way through ExtractCurrentFile.                           *)
(***************************************************************************)
EXTENDS BatchExtract

Plain ==
  [named |-> TRUE, size |-> 1, dict |-> 1, kind |-> "data", before |-> FALSE,
   after |-> FALSE, known |-> TRUE, enc |-> "plain"]

SplitHeaders ==
  {[Plain EXCEPT !.after = TRUE],
   [Plain EXCEPT !.before = TRUE, !.size = 2],
   [Plain EXCEPT !.after = TRUE, !.enc = "mine", !.size = 2]}

LargeHeaders ==
  {[Plain EXCEPT !.dict = 2], [Plain EXCEPT !.dict = 3, !.size = 2]}

KindHeaders ==
  {[Plain EXCEPT !.kind = "dir", !.size = 0], [Plain EXCEPT !.kind = "link"],
   [Plain EXCEPT !.kind = "copy", !.size = 2]}

LockedHeaders ==
  {[Plain EXCEPT !.enc = "mine"], [Plain EXCEPT !.enc = "other", !.size = 2],
   [Plain EXCEPT !.enc = "unverified"]}

OddHeaders ==
  {[Plain EXCEPT !.named = FALSE, !.size = 2], [Plain EXCEPT !.known = FALSE]}

AllHeaders ==
  {Plain} \cup SplitHeaders \cup LargeHeaders \cup KindHeaders
    \cup LockedHeaders \cup OddHeaders
=============================================================================
