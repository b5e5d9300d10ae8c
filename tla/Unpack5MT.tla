----------------------------- MODULE Unpack5MT -----------------------------
(***************************************************************************)
(* Unpack::Unpack5MT: the packed data of a file is read into one buffer,   *)
(* cut into its Huffman blocks, decoded by the threads of the pool and     *)
(* applied to the window in order.  A block that goes beyond the buffer is *)
(* decoded as far as it is there, and the rest is moved to the beginning.  *)
(* One file after another is unpacked, each going on with the tables the   *)
(* one before has left, as in a solid archive.                             *)
(*                                                                         *)
(* Positions count bytes.  What a block decodes to is not modelled, only   *)
(* from where to where it was decoded and with whose Huffman tables.       *)
(***************************************************************************)
EXTENDS Integers, Sequences, FiniteSetsExt

CONSTANTS
  Archives,           \* sequences of files, which are sequences of blocks
  UNP_READ_SIZE_MT,   \* size of the buffer
  Align,              \* reads are multiples of it, 16
  Reserve,            \* an item takes no more bytes, 16
  TooSmallToProcess,  \* a header and its tables fit in
  LargeBlockSize,
  MaxUserThreads

UNP_BLOCKS_PER_THREAD == 2
Slots == 0 .. MaxUserThreads * UNP_BLOCKS_PER_THREAD - 1

(* table: how many bytes the Huffman tables take, 0 if there are none; they*)
(* are part of BlockSize.  sound: the checksum of the header is right.     *)
(* good: the tables can be read.                                           *)
Block ==
  [header : Nat \ {0}, table : Nat, body : Nat, last : BOOLEAN, sound : BOOLEAN,
   good : BOOLEAN]

(* What the threads rely on: a header and its tables take less than 1024   *)
(* bytes, and only the first block of a file may be without tables of its  *)
(* own.                                                                    *)
ASSUME UnpackAssumption ==
  /\ Archives \subseteq Seq(Seq(Block) \ {<<>>})
  /\ \A a \in Archives : \A n \in 1 .. Len(a) : \A i \in 1 .. Len(a[n]) :
       /\ a[n][i].header + a[n][i].table < TooSmallToProcess
       /\ a[n][i].table = 0 => i = 1 /\ n > 1
       /\ a[n][i].last <=> i = Len(a[n])
  /\ Align \in Nat \ {0} /\ Reserve \in Nat \ {0}
  /\ LargeBlockSize \in Nat /\ MaxUserThreads \in 1 .. 8
  /\ UNP_READ_SIZE_MT \in Nat
  /\ TooSmallToProcess \in Reserve .. UNP_READ_SIZE_MT - 2 * Align

VARIABLES
  archive,      \* the packed data of the files
  n,            \* the file that is being unpacked
  avail,        \* how much of it there is
  end,          \* where a volume ends in it, one at most; 0: nowhere
  lost,         \* the rest is in a volume that is missing
  origin,       \* position in the file of the first byte of ReadBufMT
  DataSize,     \* bytes in ReadBufMT
  BlockStart,   \* where in ReadBufMT the next block begins
  BlockNumber,  \* blocks in this round
  NoDataLeft,   \* ReadSize==0
  LargeBlock,   \* a block was too large for the threads
  Done,
  data,         \* UnpThreadData
  LastBlockNum,
  tasks,        \* what the pool still has to do: first and last slot
  block,        \* the slot that is applied next
  tables,       \* Unpack::BlockTables: the block they were in
  over,         \* history: the file has produced more than its size
  applied,      \* history: what was applied to the window
  pc

source == <<archive, n, avail, end, lost>>
buffer == <<origin, DataSize, BlockStart>>
round == <<BlockNumber, NoDataLeft, LargeBlock, LastBlockNum>>
vars == <<source, buffer, round, Done, data, tasks, block, tables, over, applied, pc>>

File == archive[n]
Size(b) == b.header + b.table + b.body

(* Where block i begins in file f; that of Len(f) + 1 is the file's size.  *)
Start(f, i) ==
  LET start[j \in 1 .. Len(f) + 1] ==
        IF j = 1 THEN 0 ELSE start[j - 1] + Size(f[j - 1])
  IN  start[i]
Total(f) == Start(f, Len(f) + 1)

NoId == <<0, 0>>
Nothing == [id |-> NoId, from |-> 0, to |-> 0, tables |-> NoId]

(* UnpackThreadData: base is Inp.InBuf, addr Inp.InAddr.  id is the block  *)
(* it holds, decoded what was decoded last.                                *)
Blank ==
  [base |-> 0, addr |-> 0, dataSize |-> 0, header |-> 0, table |-> 0, blockSize |-> 0,
   blockStart |-> 0, last |-> FALSE, good |-> TRUE, headerRead |-> FALSE,
   tableRead |-> FALSE, tables |-> NoId, damaged |-> FALSE, large |-> FALSE,
   incomplete |-> FALSE, id |-> NoId, decoded |-> Nothing]

Init ==
  /\ archive \in Archives /\ n = 0 /\ avail = 0 /\ end = 0 /\ lost = FALSE
  /\ origin = 0 /\ DataSize = 0 /\ BlockStart = 0
  /\ BlockNumber = 0 /\ NoDataLeft = FALSE /\ LargeBlock = FALSE /\ LastBlockNum = 0
  /\ Done = FALSE
  /\ data = [k \in Slots |-> Blank]
  /\ tasks = {} /\ block = 0 /\ tables = NoId
  /\ over = FALSE /\ applied = <<>>
  /\ pc = "call"

-----------------------------------------------------------------------------
(* The call, and the reading of data.                                      *)

(* Any part of the data may be in a volume that is missing, or cut off.    *)
Call ==
  /\ pc = "call" /\ n < Len(archive)
  /\ n' = n + 1
  /\ avail' \in 0 .. Total(archive[n']) /\ lost' \in BOOLEAN
  /\ lost' => avail' < Total(archive[n'])
  /\ end' \in 0 .. Max({avail' - 1, 0})
  /\ origin' = 0 /\ DataSize' = 0 /\ BlockStart' = 0
  /\ data' = [k \in Slots |-> [data[k] EXCEPT
       !.large = FALSE, !.incomplete = FALSE,
       !.tables = IF k = 0 THEN tables ELSE @]]
  /\ LargeBlock' = FALSE /\ LastBlockNum' = 0 /\ Done' = FALSE
  /\ pc' = "read"
  /\ UNCHANGED <<archive, BlockNumber, NoDataLeft, tasks, block, tables, over, applied>>

(* UnpRead: as much as was asked for or the volume has, nothing at the end *)
(* of the file, -1 if the next volume is missing.                          *)
Position == origin + DataSize
Request == ((UNP_READ_SIZE_MT - DataSize) \div Align) * Align
UnpRead ==
  IF Request = 0 THEN 0
  ELSE IF Position = avail THEN IF lost THEN -1 ELSE 0
  ELSE Min({Request} \cup {e - Position : e \in {e \in {end, avail} : e > Position}})

(* Mutant: a small rest is kept for the next read also when no data is left. *)
Read_Waits ==
  /\ pc = "read"
  /\ DataSize' = DataSize + Max({UnpRead, 0})
  /\ NoDataLeft' = (UnpRead = 0)
  /\ BlockNumber' = 0
  /\ pc' = CASE UnpRead < 0 \/ DataSize' = 0 -> "finish"
             [] DataSize' \in 1 .. TooSmallToProcess - 1 -> "read"
             [] OTHER -> "fill"
  /\ UNCHANGED <<source, origin, BlockStart, LargeBlock, LastBlockNum, Done, data, tasks,
                 block, tables, over, applied>>

Read ==
  /\ pc = "read"
  /\ DataSize' = DataSize + Max({UnpRead, 0})
  /\ NoDataLeft' = (UnpRead = 0)
  /\ BlockNumber' = 0
  /\ pc' = CASE UnpRead < 0 \/ DataSize' = 0 -> "finish"
             [] UnpRead > 0 /\ DataSize' < TooSmallToProcess -> "read"
             [] OTHER -> "fill"
  /\ UNCHANGED <<source, origin, BlockStart, LargeBlock, LastBlockNum, Done, data, tasks,
                 block, tables, over, applied>>

-----------------------------------------------------------------------------
(* The headers of the blocks in the buffer.                                *)

(* Mutant: a block that goes on is begun again.                            *)
Prepared_Afresh(d) ==
  [d EXCEPT !.base = BlockStart, !.addr = 0, !.dataSize = DataSize - BlockStart,
            !.damaged = FALSE, !.headerRead = FALSE, !.tableRead = FALSE,
            !.incomplete = FALSE]

Prepared(d) ==
  IF d.incomplete
    THEN [d EXCEPT !.dataSize = DataSize, !.incomplete = FALSE]
    ELSE [d EXCEPT !.base = BlockStart, !.addr = 0, !.dataSize = DataSize - BlockStart,
                   !.damaged = FALSE, !.headerRead = FALSE, !.tableRead = FALSE]

(* The blocks whose header ReadBlockHeader accepts at this position; bytes *)
(* that are not there, or are no header, have no right checksum.           *)
HeadersAt(d) ==
  {i \in 1 .. Len(File) :
     /\ Start(File, i) = origin + d.base
     /\ File[i].sound
     /\ File[i].header <= d.dataSize}

WithHeader(d, i) ==
  [d EXCEPT !.headerRead = TRUE, !.addr = File[i].header, !.header = File[i].header,
            !.blockStart = File[i].header, !.table = File[i].table,
            !.blockSize = File[i].table + File[i].body, !.last = File[i].last,
            !.good = File[i].good, !.id = <<n, i>>]

(* One round of the inner loop: the next slot takes the next block.        *)
Fill ==
  /\ pc = "fill" /\ BlockNumber \in Slots
  /\ LastBlockNum' = BlockNumber
  /\ \E d \in {Prepared(data[BlockNumber])} :
       \/ /\ ~d.headerRead /\ HeadersAt(d) = {}
          /\ data' = [data EXCEPT ![BlockNumber] = [d EXCEPT !.headerRead = TRUE]]
          /\ Done' = TRUE
          /\ pc' = "add"
          /\ UNCHANGED <<BlockStart, BlockNumber, LargeBlock>>
       \/ \E e \in IF d.headerRead THEN {d} ELSE {WithHeader(d, i) : i \in HeadersAt(d)} :
            /\ LargeBlock' = (LargeBlock \/ e.blockSize > LargeBlockSize)
            /\ data' = [data EXCEPT ![BlockNumber] =
                          [e EXCEPT !.large = LargeBlock' \/ @]]
            /\ BlockStart' = BlockStart + e.header + e.blockSize
            /\ BlockNumber' = BlockNumber + 1
            /\ pc' = IF \/ DataSize - BlockStart' < TooSmallToProcess
                        \/ e.last
                        \/ BlockNumber' \notin Slots
                     THEN "add" ELSE "fill"
            /\ UNCHANGED Done
  /\ UNCHANGED <<source, origin, DataSize, NoDataLeft, tasks, block, tables, over,
                 applied>>

-----------------------------------------------------------------------------
(* Decoding.                                                               *)

BlockNumberMT == Cardinality({k \in 0 .. BlockNumber - 1 : ~data[k].large})

(* Mutant: the blocks are divided rounding down.                           *)
MaxBlockPerThread_Floor ==
  IF BlockNumberMT < MaxUserThreads THEN 1 ELSE BlockNumberMT \div MaxUserThreads

MaxBlockPerThread == (BlockNumberMT + MaxUserThreads - 1) \div MaxUserThreads

(* The normal blocks come before the large ones and are divided among the  *)
(* threads.                                                                *)
AddTasks ==
  /\ pc = "add"
  /\ tasks' = {<<first, IF first + MaxBlockPerThread <= BlockNumberMT
                          THEN first + MaxBlockPerThread - 1 ELSE BlockNumberMT - 1>> :
                 first \in {k \in 0 .. BlockNumberMT - 1 : k % MaxBlockPerThread = 0}}
  /\ block' = 0
  /\ pc' = IF BlockNumber > 0 THEN "decode" ELSE IF Done THEN "finish" ELSE "read"
  /\ UNCHANGED <<source, buffer, round, Done, data, tables, over, applied>>

WithTables(d) ==
  IF d.tableRead \/ d.table = 0
    THEN [d EXCEPT !.tableRead = TRUE]
    ELSE [d EXCEPT !.tableRead = TRUE, !.addr = @ + d.table, !.tables = d.id]

(* Where decoding may stop: at the end of the block, or at the first item  *)
(* that begins in the reserve or, when no data is left, behind the data.   *)
Stops(d) ==
  LET limit == IF NoDataLeft THEN d.dataSize ELSE d.dataSize - Reserve
      border == d.blockStart + d.blockSize
  IN {p \in d.addr .. border :
        /\ p < border => p >= limit
        /\ p = d.addr \/ \E q \in d.addr .. p - 1 : q < limit /\ p - q <= Reserve}

(* UnpackDecode.  A damaged block keeps what its slot has decoded before.  *)
Decoded(d) ==
  IF ~d.tableRead /\ d.table > 0 /\ (~d.good \/ d.addr + d.table > d.dataSize)
    THEN {[d EXCEPT !.tableRead = TRUE, !.damaged = TRUE]}
    ELSE LET e == WithTables(d)
             border == e.blockStart + e.blockSize
             from == origin + e.base + e.addr
         IN  IF e.addr > border THEN {[e EXCEPT !.damaged = TRUE]}
             ELSE {[e EXCEPT !.addr = p, !.incomplete = p < border,
                      !.decoded = [id |-> e.id, from |-> from,
                                   to |-> origin + e.base + p, tables |-> e.tables]] :
                     p \in Stops(e)}

(* A thread decodes the next block of a task.                              *)
Decode(task) ==
  /\ pc = "decode" /\ task \in tasks
  /\ \E d \in Decoded(data[task[1]]) : data' = [data EXCEPT ![task[1]] = d]
  /\ tasks' = (tasks \ {task}) \cup
       (IF task[1] = task[2] THEN {} ELSE {<<task[1] + 1, task[2]>>})
  /\ UNCHANGED <<source, buffer, round, Done, block, tables, over, applied, pc>>

WaitDone ==
  /\ pc = "decode" /\ tasks = {}
  /\ pc' = "process"
  /\ UNCHANGED <<source, buffer, round, Done, data, tasks, block, tables, over, applied>>

-----------------------------------------------------------------------------
(* Applying what was decoded, in the order of the blocks.                  *)

(* Two pieces that follow each other are one.                              *)
Joined(pieces, piece) ==
  LET m == Len(pieces) IN
  IF piece.from = piece.to THEN pieces
  ELSE IF /\ m > 0
          /\ pieces[m].id = piece.id /\ pieces[m].tables = piece.tables
          /\ pieces[m].to = piece.from
    THEN [pieces EXCEPT ![m].to = piece.to]
    ELSE Append(pieces, piece)
Apply(piece) == applied' = Joined(applied, piece)

(* Mutant: the decoded size is not taken off the block.                    *)
Rest_Whole(d) ==
  [d EXCEPT !.header = 0, !.blockStart = 0, !.base = 0, !.addr = 0]

(* What is left of an incomplete block, at the beginning of the buffer.    *)
Rest(d) ==
  [d EXCEPT !.blockSize = @ - (d.addr - d.blockStart),
            !.header = 0, !.blockStart = 0, !.base = 0, !.addr = 0]

(* The last block of the file, or a fault, or data that ends in the block. *)
Stop(d) ==
  /\ Done' = TRUE
  /\ data' = [data EXCEPT ![block] = d]
  /\ pc' = "finish"
  /\ UNCHANGED <<buffer, block>>

MoveRest(d) ==
  LET pos == d.base + d.addr IN
  /\ origin' = origin + pos
  /\ DataSize' = DataSize - pos
  /\ BlockStart' = 0
  /\ data' = [k \in Slots |->
       CASE k = 0 -> [Rest(d) EXCEPT !.decoded = IF block = 0 THEN @ ELSE data[0].decoded]
         [] k = block /\ k # 0 -> [Rest(d) EXCEPT !.incomplete = FALSE]
         [] OTHER -> data[k]]
  /\ pc' = IF Done THEN "finish" ELSE "read"
  /\ UNCHANGED <<Done, block>>

NextBlock(d) ==
  /\ data' = [data EXCEPT ![block] = d]
  /\ block' = block + 1
  /\ pc' = IF block' < BlockNumber THEN "process" ELSE "more"
  /\ UNCHANGED <<buffer, Done>>

Process(fits) ==
  /\ pc = "process" /\ block < BlockNumber
  /\ \E d \in IF data[block].large THEN Decoded(data[block]) ELSE {data[block]} :
       /\ IF d.large /\ d.damaged THEN UNCHANGED applied ELSE Apply(d.decoded)
       /\ \/ /\ ~fits \/ d.damaged
             /\ Stop(d)
          \/ /\ fits /\ ~d.damaged
             /\ IF d.incomplete
                  THEN IF DataSize <= d.base + d.addr THEN Stop(d) ELSE MoveRest(d)
                  ELSE IF d.last THEN Stop(d) ELSE NextBlock(d)
  /\ over' = (over \/ ~fits)
  /\ UNCHANGED <<source, round, tasks, tables>>

(* The blocks of the round are applied: what is left in the buffer is      *)
(* enough for another round, or is moved to its beginning.                 *)
MoreData ==
  /\ pc = "more"
  /\ LET left == DataSize - BlockStart IN
     /\ Done' = (Done \/ left < 0)
     /\ IF ~Done' /\ left < TooSmallToProcess
          THEN origin' = origin + BlockStart /\ DataSize' = left /\ BlockStart' = 0
          ELSE UNCHANGED buffer
     /\ pc' = IF Done' THEN "finish" ELSE IF left < TooSmallToProcess THEN "read" ELSE "fill"
  /\ BlockNumber' = 0
  /\ UNCHANGED <<source, NoDataLeft, LargeBlock, LastBlockNum, data, tasks, block,
                 tables, over, applied>>

(* The file is unpacked.  After a fault nothing is said of the files that  *)
(* follow, and they are not modelled.                                      *)
Faultless(a, m) ==
  \A i \in 1 .. Len(a[m]) : a[m][i].sound /\ a[m][i].good
Whole == ~over /\ avail = Total(File) /\ Faultless(archive, n)

Finish ==
  /\ pc = "finish"
  /\ tables' = data[LastBlockNum].tables
  /\ pc' = IF n < Len(archive) /\ Whole THEN "call" ELSE "end"
  /\ UNCHANGED <<source, buffer, round, Done, data, tasks, block, over, applied>>

Next ==
  \/ Call
  \/ Read
  \/ Fill
  \/ AddTasks
  \/ \E task \in tasks : Decode(task)
  \/ WaitDone
  \/ \E fits \in BOOLEAN : Process(fits)
  \/ MoreData
  \/ Finish

(* The owner and the threads of the pool run; ForkJoin says that the pool  *)
(* lets them.                                                              *)
Spec == Init /\ [][Next]_vars /\ WF_vars(Next)

-----------------------------------------------------------------------------
(* Properties.                                                             *)

(* Every variable has its type; no block is taken from behind the data, no *)
(* item reads more than the reserve behind it, every read has room, and    *)
(* the tasks fit UTDArray.                                                 *)
TypeOK ==
  /\ archive \in Archives /\ n \in 0 .. Len(archive)
  /\ lost \in BOOLEAN /\ NoDataLeft \in BOOLEAN /\ LargeBlock \in BOOLEAN
  /\ Done \in BOOLEAN /\ over \in BOOLEAN
  /\ DataSize \in 0 .. UNP_READ_SIZE_MT
  /\ pc = "read" => Request > 0 /\ BlockStart = 0
  /\ pc = "fill" => BlockStart \in 0 .. DataSize - 1
  /\ origin + DataSize <= avail
  /\ BlockNumber \in 0 .. Cardinality(Slots) /\ LastBlockNum \in Slots
  /\ \A k \in Slots : data[k].base + data[k].addr <= UNP_READ_SIZE_MT + Reserve
  /\ Cardinality(tasks) <= MaxUserThreads
  /\ pc \in {"call", "read", "fill", "add", "decode", "process", "more", "finish", "end"}

(* The blocks with data, in the order of the archive, up to this file.     *)
Ids(a, m) == UNION {{f} \X {i \in 1 .. Len(a[f]) : a[f][i].body > 0} : f \in 1 .. m}
Before(id, other) == id[1] < other[1] \/ (id[1] = other[1] /\ id[2] < other[2])

(* Whose tables a block is to be decoded with: the last that were given    *)
(* before it or in it.                                                     *)
Tables(a) ==
  UNION {{f} \X {i \in 1 .. Len(a[f]) : a[f][i].table > 0} : f \in 1 .. Len(a)}
TablesOf(a, id) ==
  CHOOSE t \in Tables(a) :
    ~Before(id, t) /\ \A o \in Tables(a) : Before(t, o) => Before(id, o)

PieceOf(a, id) ==
  LET f == a[id[1]] IN
  [id |-> id, from |-> Start(f, id[2]) + f[id[2]].header + f[id[2]].table,
   to |-> Start(f, id[2] + 1), tables |-> TablesOf(a, id)]

(* A damaged block ends the file, but what its slot had decoded before is  *)
(* applied once more.                                                      *)
Damaged == pc \in {"finish", "end"} /\ \E k \in Slots : data[k].damaged

(* What Unpack5 does with one thread: the window gets the data of every    *)
(* block once, in the order of the blocks, none left out, decoded with the *)
(* right tables, wherever the reads and the buffer cut the blocks.         *)
AppliedInOrder ==
    \A k \in 1 .. IF Damaged THEN Len(applied) - 1 ELSE Len(applied) :
      LET id == applied[k].id IN
      /\ id \in Ids(archive, n)
      /\ Cardinality({o \in Ids(archive, n) : Before(o, id)}) = k - 1
      /\ applied[k] = IF k < Len(applied) THEN PieceOf(archive, id)
                      ELSE [PieceOf(archive, id) EXCEPT !.to = applied[k].to]

(* A file that is whole is unpacked to its last byte.                      *)
WholeFileIsUnpacked ==
  pc \in {"call", "end"} /\ n > 0 /\ Whole =>
    /\ Len(applied) = Cardinality(Ids(archive, n))
    /\ applied # <<>> => applied[Len(applied)] = PieceOf(archive, applied[Len(applied)].id)

(* The loop ends, also for a file that is cut off or damaged.              *)
Unpacked == <>(pc = "end")
=============================================================================
