---------------------------- MODULE MCUnpack5MT ----------------------------
(***************************************************************************)
(* Files for Unpack5MT, of blocks that are small, longer than the buffer,  *)
(* too large for the threads, empty, or damaged, for a buffer of 12 bytes. *)
(***************************************************************************)
EXTENDS Unpack5MT

Of(table, body) ==
  [header |-> 1, table |-> table, body |-> body, last |-> FALSE, sound |-> TRUE,
   good |-> TRUE]
EndsFile(b) == [b EXCEPT !.last = TRUE]

(* All blocks but the last do not have the flag.                           *)
FileOf(blocks) == [blocks EXCEPT ![Len(blocks)] = EndsFile(@)]

Small == Of(1, 1)
Middle == Of(1, 4)
Long == Of(1, 14)
Large == Of(1, 20)
Bare == Of(0, 3)
Empty == Of(0, 0)

Files ==
  {FileOf(<<Small>>), FileOf(<<Small, Small, Small, Small, Small, Small>>),
   FileOf(<<Middle, Small, Long, Small>>), FileOf(<<Small, Small, Large, Small>>),
   FileOf(<<Long, Middle, Middle>>)}

Faulty ==
  {FileOf(<<Small, [Middle EXCEPT !.sound = FALSE], Small>>),
   FileOf(<<Middle, Small, Small, [Middle EXCEPT !.good = FALSE], Small>>)}

SecondFiles ==
  {FileOf(<<Bare, Small>>), FileOf(<<Empty>>), FileOf(<<Small, Middle>>)}

AllArchives ==
  {<<f>> : f \in Files \cup Faulty} \cup {<<f, g>> : f \in Files, g \in SecondFiles}
=============================================================================
