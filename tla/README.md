# unrar.rs: models and proofs

`unrar` is a Rust wrapper (`src/src/`) around the UnRAR C++ library, which is
vendored under `src/unrar_sys/vendor/unrar/` and patched here: the batch
extraction `RARExtractAllW` and the callback messages `UCM_EXTRACTFILE*` and
`UCM_LARGEDICT` are this repository's own. This directory holds TLA+ models of
the parts whose behaviour depends on order, on failure or on what the caller
does between two calls, the TLC configurations that check them, and proofs
checked by TLAPS.

## 1. The system

| Component | State it keeps | Operations | Interaction |
|---|---|---|---|
| `OpenArchive<M, C>` (`open_archive.rs`) | handle, flags, cursor as a type parameter, `damaged`, the header entry | `read_header`, `next`, `force_heal`, `skip`, `read`, `test`, `extract`, `extract_to`, `extract_all`, `extract_all_with_callback` | calls `RARReadHeaderEx`, `RARProcessFileW`, `RARExtractAllW`; installs a callback and user data before each |
| trampolines (`Internal::callback`, `extract_callback`) | `UserData`, `CallbackData { cancelled, pending_size }` on the caller's stack | answer `UCM_*` messages | run inside library calls, call the user's closure |
| `DataSet` (`dll.cpp`) | `Cmd` (password, `DllError`, `DllDestName`, callback), `Arc`, `Extract`, `OpenMode` | open, read header, process, extract all, set callback, set password, close | owned by one handle |
| `CmdExtract` (`extract.cpp`) | `FirstFile`, `Password`, data in and out (`UnpVolume`) | `ExtractCurrentFile` | reads headers, merges volumes, unpacks, creates files |
| `Archive` (`archive.cpp`, `arcread.cpp`) | position, current header, `FileHead`, `BrokenHeader`, `FailedHeaderDecryption`, `Solid`, `Encrypted` | `ReadHeader`, `SearchBlock`, `SeekToNext` | used by everything above |
| volumes (`volume.cpp`) | the name of the volume that is open | `MergeArchive`, `DllVolChange` | replaces the archive's file; asks the callback |
| thread pool (`threadpool.cpp`) | queue, counters, conditions | `AddTask`, `WaitDone`, destructor | used by the RAR5 decoder and BLAKE2sp |
| RAR5 decoder with threads (`unpack50mt.cpp`) | read buffer, one `UnpackThreadData` per slot, Huffman tables of the last block | `Unpack5MT`, `UnpackDecode`, `ProcessDecoded`, `UnpackLargeBlock` | reads through `UnpRead`, gives tasks to the pool, fills the window |
| error handler (`errhnd.cpp`) | exit code of the process, error count | `SetErrorCode`, `Exit`, `Throw` | one global object for all handles |
| locale (`locale.rs`, `unicode.cpp`) | a `OnceLock`; `LC_CTYPE` of the process | `ensure_initialized`, the conversions of names and passwords | `setlocale`, which the host program calls too |
| archive names (`archive.rs`, `pathfn.cpp`) | none | `is_multipart`, `nth_part`, `NextVolumeName` | pure |
| decompression, cryptography, checksums, file system, console | data | | leaves |

`PROJECT.json` lists all of them with their status.

Where the behaviour is hard:

* **one failure among many files**: a batch goes on after most failures, so the
  one error code (`Cmd->DllError`) has to survive many later successes, and must
  not be replaced by an error that is only its consequence;
* **the protocol between library, trampoline and closure**: six kinds of message,
  each with its own meaning of the answer, two flags that carry information from
  one message to the next;
* **a set of volumes**: a file goes on in the next volume, which may be missing,
  whose first header replaces that of the file, and which may be entered from
  three different places;
* **errors that are remembered** (`BrokenHeader`, `DllError`, `damaged`) and
  looked at much later, or not at all;
* **state that outlives its call** (`DllDestName`, the callback slot, the erased
  password, the Huffman tables a file leaves to the next);
* **data cut at any place**: by the end of a volume, by the end of the read buffer,
  by the end of a file that was truncated, while other blocks of the same buffer are
  decoded by other threads;
* **processes and threads**: only the pool, the global error handler and the
  locale are shared; a handle is not `Sync` and its calls run on one thread.

## 2. Modules

| Module | Models | Kind |
|---|---|---|
| `ExtractEvents` | what `extract_all_with_callback` promises its caller | abstract specification |
| `BatchExtract` | one call of `extract_all` or `extract_all_with_callback` down to `ExtractCurrentFile` | detailed specification |
| `MCBatchExtract` | headers for TLC | instance |
| `BatchExtract_proofs` | inductive invariants, theorems, and that `BatchExtract` implements `ExtractEvents` | proofs |
| `OpenArchive` | a handle from the open to the drop, over concrete volume sets | detailed specification |
| `MCOpenArchive` | volume sets for TLC | instance |
| `OpenArchive_proofs` | inductive invariants and theorems about calls | proofs |
| `OpenArchive_listing` | inductive invariants and theorems about listings and damage | proofs |
| `ForkJoin` | what a thread pool promises its owner | abstract specification |
| `ThreadPool` | `ThreadPool` on Unix: the owner, the workers, the locks between them | detailed specification |
| `ThreadPool_proofs` | inductive invariants, theorems, and that `ThreadPool` implements `ForkJoin` | proofs |
| `ArchiveOpen` | threads that open, use and drop archives over the one error handler | detailed specification |
| `ArchiveOpen_proofs` | inductive invariants and theorems | proofs |
| `VolumeNames` | the names of a volume set, for the library and for `archive.rs` | detailed specification |
| `MCVolumeNames` | first volumes and sizes for TLC | instance |
| `VolumeNames_proofs` | inductive invariant and theorems | proofs |
| `Unpack5MT` | reading, decoding by threads and applying the blocks of RAR5 files | detailed specification |
| `MCUnpack5MT` | files for TLC | instance |
| `Unpack5MT_proofs` | inductive invariant and theorems | proofs |
| `LocaleInit` | the one-time initialisation of `LC_CTYPE` among threads and a host, and the encodings that follow | detailed specification |
| `LocaleInit_proofs` | inductive invariant and theorems | proofs |

### BatchExtract

The archive is a stream of headers that is not known in advance: each read
returns any of `FileHeaders`, another block, an end record or nothing. `pc` is
the stage of the loop:

| `pc` | code |
|---|---|
| `read` | `Arc.ReadHeader()` at the top of the loop, `dll.cpp:532` |
| `start` | `UCM_EXTRACTFILE` and its arm in `extract_callback` |
| `extract` | `ExtractCurrentFile` up to the decision whether the file is wanted; the three ways into the next volume |
| `decrypt` | `ExtrGetPassword`, `ExtrDllGetPassword`, `CheckPassword` |
| `open` | destination, links, dictionary limit, `ExtrCreateFile` |
| `unpack` | `UnstoreFile`/`DoUnpack` with `UnpRead` and its merges; links and copies |
| `verify` | comparison of the checksums, `extract.cpp:950-990` |
| `report` | `UCM_EXTRACTFILE_OK`/`_ERR` and their arms |
| `return`, `done` | the `match` at the end of the Rust method |

`target` says where data goes: to the disk, through the unpacker to nowhere
(`SkipSolid`, "memory"), or nowhere at all. `Cmd->DllError`, `WinSizeLimit`,
`FirstFile`, `UnpVolume`, `CallbackData::cancelled` and `pending_size` are
variables of their own. `trouble`, `troubles`, `stop` and `owed` are history variables:
they record what went wrong, why the walk ended, and which files of a solid archive began
in this call and have not been through the unpacker; no guard reads them.

Data is abstracted to what changes the control flow. A file header is a record
of the fields that are branched on; the password is "never set, set, erased",
and a header says whether that password fits, does not fit, or cannot tell.
An exception unwinds to `RARExtractAllW` in one step (`Throw`), because nothing
between the `throw` and the `catch` changes modelled state.

Assumptions about the archive: the continuation of a file differs from its
beginning only in its split flags; `Arc.Solid` is what it will be once the main
header has been read. The call starts on a handle that has just been opened
(what a used handle hands to a batch is in `OpenArchive`).

### ExtractEvents

The contract seen from outside: Start opens a file, Ok closes it and repeats its
size, Err closes it and ends the call, LargeDict asks only about a dictionary
that is larger than any permitted before, and the returned value follows from the
answers. `BatchExtract` implements it under the mapping at the end of that
module: the phase is computed from `cancelled`, the last event and `pc`, `bad` is
`dllError # Success`, `allowed` is the `WinSizeLimit`. One weakness of the code is part
of the contract: an Err event may carry no error code, and only then may a call that
has delivered an Err return Completed. `MergeArchive` fails like this, without
recording anything, when a directory has the name of the next volume.

### OpenArchive

Here the volume set is a concrete sequence of blocks, because the properties
compare a listing with what the set contains. `cur` and `at` are the position of
the archive file relative to the block at `CurBlockPos`: at its start, just after
its header, or at its end. This distinction matters, since a retry after an error
reads from wherever the last call stopped. The typestate cursor is the variable
`cursor`; methods that take `self` set it to `dropped` when they fail, the
iterator keeps its handle and sets `damaged`.

The library side follows `RARReadHeaderEx` (search, merge after an end record,
List-mode continuation, error on a broken header) and `ProcessFile` (seek, merge,
unpack, service blocks). Unpacking ends with success or a failed checksum;
reading faults of the operating
system are left out, the opening with a recovered handle is in `ArchiveOpen`, and the
names of volumes are in `VolumeNames`. Volume sets are
laid out as RAR writes them, possibly with damaged headers and with the last
volumes missing, and any volume of a set may be the one that is opened. What "as RAR
writes them" means is stated by four definitions the theorems about listings name as
hypotheses: `EndIsEnd` (no header follows an end record), `SplitIsLast` (a file that goes
on in the next volume is the last of its own), `VolumesLeadOn` (every volume but the last
says that another follows), `RestFollows` (the rest of a file is in the volume after its
beginning). `MCOpenArchive` has TLC check them for its sets (`LaidOut`). `Expected`, the
listing a set should give, takes each header to the place that its rank in the set
(`UpTo`) gives it.

`info` is the `VolumeInfo` the wrapper keeps of the opening: `IsFirstVolume` is the scan
of `IsArchive` over the headers up to the first file, for each of the four `Formats`
that let it know more or less. `slot` is the callback the library holds, named by the
call that installed it. A batch extraction (`ExtractAll`) is here what it finds on the
handle: `extract_all` leaves `slot` alone, `extract_all_with_callback` sets it, both
leave `destName` alone; `BatchTells` is a message that reaches whoever is in the slot,
and `told` the user data it was stored in, if any (`Stores`).

### ThreadPool and ForkJoin

`Unpack` and the BLAKE2sp hash of the library give their blocks to a `ThreadPool`
(`RAR_SMP` is defined by `build.rs`). `pc` is the position of the one thread that
owns the pool, `at[w]` that of worker `w`; a step ends at each operation on a mutex
or a condition variable, and at each access to shared data that another thread
might interleave with. A mutex is the thread that holds it. A thread that waits on a
condition is at `asleep`; it gave up the mutex in the same step (`Sleep`,
`OwnerSleeps`), as POSIX demands, and needs it again after a wake-up.
`pthread_cond_signal` wakes the owner because nobody else waits there. Wake-ups
without a reason are possible at any time but limited in number.

`countMutex`, `activeMutex` and `section` are `QueuedTasksCntMutex`,
`AnyActiveMutex` and `CritSection`; `count`, `active`, `created` are
`QueuedTasksCnt`, `ActiveThreads`, `ThreadsCreatedCount`. A task is its number in the
order of `AddTask`; the only thing to know about it is how often it has run. `AddTask`
reads, waits (`back = "store"` is the call of `WaitDone` in it) and stores in three
steps. The destructor is `WaitDone("close")`, then `Close`, and shares `Release`,
`UnlockCount` and `Broadcast` with `WaitDone`, differing in how many tasks it
releases. `CreateFails` is a `pthread_create` that fails: the exception leaves
`AddTask`, and the pool stays usable.

`ForkJoin` says what is promised: a task runs once, while the owner waits, and
the wait returns when none is left.

### ArchiveOpen

Each thread opens one archive after another. `pc[t]` goes from `opening` through the
verdict of `IsArchive(true)` (`accepted`, `rejected`, `thrown`) to `returned`, where
`OpenArchive::new` looks at the handle and the result, and then to `open` or
`closing`. `file[t]` is what the path leads to, one value for each way through
`RAROpenArchiveEx`. `exitCode` is the only thing threads share. `SetErrorCode` reads
and then writes it without a lock: `Record` reads, `Store` writes, and other threads
may step in between; `recorder[t]` holds what was read and where the call returns to.
`data[t]` counts the `DataSet`s the thread must account for.

What a thread does with an open archive is `Use`: it records any of `UseCodes`. What
those calls return is the business of `BatchExtract` and `OpenArchive`, and does not
depend on the exit code, as `dll.cpp:340` says. `noted` is the error
`Archive::break_open` leaves in the variable of its caller, which is taken to be empty
when the call begins.

### VolumeNames

A name is a record of the kind of its ending, the letter, the number, the width the
number is written with, and an ending of the same kind before it. Carries are
arithmetic on number and width: `.part9` gets a second digit, `.r99` goes to `.s00`,
`.999` to `.a00`. `MergeArchive` is the walk of the library from one volume to the
next, with its second attempt under the old scheme; `Volume(i)` is the name that RAR
gives to volume `i`, and is the reference both `NextVolumeName` and the functions of
`archive.rs` are compared with. `Sets` are first volumes with the number of volumes:
`.rar`, or a name with the number 1 in one to nine digits (`SetsAssumption`). The letters
of the old scheme do not suffice for every size; `LettersSuffice` says for which they do.

### Unpack5MT

A file is a sequence of blocks, of which only the sizes of the header, of the Huffman
tables and of the body are kept, and whether header and tables are sound. Positions
count bytes. `pc` is the place in the two nested loops:

| `pc` | code |
|---|---|
| `call` | `DoUnpack` calls `Unpack5MT` for the next file of a solid archive |
| `read` | `UnpRead` and the test for `TooSmallToProcess`, lines 84-100 |
| `fill` | one round of the loop over the slots, lines 105-169 |
| `add` | the division of the blocks among tasks, lines 171-198 |
| `decode` | threads inside `UnpackDecode`, until `WaitDone` |
| `process` | `ProcessDecoded` or `UnpackLargeBlock` for slot `block`, lines 206-255 |
| `more` | what is left in the buffer, lines 257-279 |
| `finish` | `BlockHeader` and `BlockTables` are saved, lines 282-287 |

`data[k]` is `UnpThreadData[k]`: `base` and `addr` are `Inp.InBuf` and `Inp.InAddr`, and
the fields keep what earlier rounds left in them, because the code does. What a thread
has decoded is a piece: which block, from where to where in the file, with whose
tables. `applied` is the history of the pieces the window got; two pieces of one block
that meet are joined. A thread may stop anywhere the code lets it: at the end of the
block, or at the first item that begins in the last 16 bytes of the data (`Stops`).
`Decode` is one step for a block, since a task touches nothing but its own slot;
that the pool runs every task once before `WaitDone` returns is `ForkJoin`.

`Call` chooses where the data ends, whether the rest is in a volume that cannot be
opened, and where one volume ends in it. The last bytes of a volume make a short
read, the next read comes from the next volume. That the output has become larger
than the file should be (`fits`) may be found at any block. After a fault the model
ends: what a solid archive unpacks to afterwards is unspecified. Tables that the end of the
data cuts off are taken for damaged ones; the code, which reads what lies behind the data
there, may also read tables from that and then finds nothing to decode with them. A filter
is never refused: `AddFilter` always returns true and an external buffer never runs out
(`unpack50.cpp:194`, `216-238`), so the `break` after it in `UnpackLargeBlock` is not taken.

`UnpackAssumption` says what the threads rely on. Only the first block of a file is taken
to lack tables of its own. A later block without them would be decoded with whatever its
slot was used for last; the code has no way to find the right ones, so RAR cannot write
such blocks. And a header with its tables is shorter than `TooSmallToProcess`, which is
"guaranteed" to fit them (`unpack50mt.cpp:86`): a header has at most 5 bytes and 430 code
lengths take about 800, out of 1024.

### LocaleInit

`build` is what `cfg` attributes and `build.rs` decide: the target, the two features,
and what is installed on the machine. `pc[t]` is where a thread is: it opens an archive
(which reads a password), enters a batch extraction through `ensure_initialized`
(`ensure`), perhaps runs `init` (`query`, `environ`, `recheck`, `ladder`: one step for
each call of `setlocale`), and writes names (`convert`). `once` is the `OnceLock`. The
host program calls `setlocale` at any moment (`HostSets`). A name or a password is
what encoding it was converted with; `chosen` and `meddled` remember what the host had
chosen when `init` began, and whether it has called `setlocale` since.

## 3. Runs

| Run | Question | Size |
|---|---|---|
| `batch` | what a batch returns, over every archive of three headers and two volumes, both ways a volume may be lost, every answer of the closure; that it implements `ExtractEvents`, and that it returns | 2.3 M states |
| `handle` | listing, processing and batch extraction of 13 volume sets in three modes, opened at any volume, with any number of volumes missing | 43 k |
| `unpack` | one or two files out of eleven shapes, the data and one volume ending at any byte, the tasks in any order | 1.0 M |
| `locale` | two threads that extract twice, a host that sets the locale twice, three targets, four features, 16 machines | 416 k |
| `pool` | every interleaving of an owner with two workers: data races, lost wake-ups, `ForkJoin` | 31 k |
| `open` | two threads open, use and drop archives: what holds of results, handles and noted errors although the exit code is shared | 796 k |
| `names` | the walk through 25 sets of up to 1010 volumes, under both numberings; `nth_part` and `all_parts` against it | 5.8 k |

and five runs that TLC refutes, see section 6.

**Bounds.** `MaxBlocks = 3` headers per call: the interactions between files pass
through `DllError`, the password, `FirstFile`, `WinSizeLimit` and the closure's
answers. The shortest archives that distinguish all of them have two files (a
failure and a success; a wrong password and a second encrypted file; two
dictionaries). The third header leaves room for an end record or a continuation.
`MaxVolumes = 1` merge makes two volumes; a merge leaves behind only `UnpVolume`
and `FirstFile`, so a second merge starts from states the first one reaches.
`DictLimit = 1` with dictionaries 1, 2 and 3 gives one that needs no question and
two that are asked about in either order. The 14 headers of `MCBatchExtract` take
every branch of `ExtractCurrentFile`.

In `OpenArchive` three volumes are needed for a file that has a part with both
split flags; `MaxHeals = 2` lets the iterator fail, be healed, fail again and be
healed again.

In `ThreadPool` two slots and a request for three threads show the limit on the
threads and give two workers, who compete for every lock; three tasks fill the queue
once, so that `AddTask` waits by itself, and wrap the ring around; one wake-up
without a reason is one more than the code needs to be wrong about.

In `ArchiveOpen` two threads suffice for a write of one between the read and the
write, or the record and the verdict, of the other; a third could only repeat what the
second does. `open` lets work on an archive record four codes, one for each rule of
`SetErrorCode`.

In `VolumeNames` sets of three volumes stay within one width, sets of 250 carry into
a second and third digit and from `.r99` over `.s99` to `.t`, and the set of 1010 whose first
volume is `.001` passes `.999`, to `.a00` or `.1000`.

In `Unpack5MT` the buffer is 12 bytes instead of 4 MB, reads are multiples of 2 instead
of 16, an item takes at most 2 bytes instead of 16, a header and its tables at most 4
instead of 1024. The proportions that matter remain: a buffer holds several small
blocks, one block may fill it and go on over several reads, and six blocks are more
than the four slots of two threads. Two files are one more than the tables that go from
one to the next need. One end of a volume per file makes one short read; a second would
find the loop in the state a first one has left it in.

In `LocaleInit` two threads are the one that runs `init` and one that waits for it or
comes late; two calls of the host allow one before and one during `init`. The candidates
of the ladder differ only in their order, so four sets of installed ones take each way
through it: none, the first, one on the way, the last.

**Deadlock** is not checked in these runs: a batch ends in `done`, a handle
that was dropped or a pool that was destroyed has no steps, a thread that has
panicked has none either, a walk ends with the last volume, a decoder with the last
file, and threads stop when they have opened `MaxOpens` archives.

**Fairness.** `WF_vars(Next)` in `BatchExtract` and `WF_vars(Library)` in
`OpenArchive`: one thread executes the call, every system call and every closure
is assumed to return, and nothing inside waits for another thread. The caller is
under no obligation: `Library` excludes its actions. In `ThreadPool` every thread
has weak fairness of its own (the scheduler runs it, tasks end); the owner outside the
pool is under no obligation, and neither are wake-ups without a reason. `VolumeNames`
assumes that the caller goes on to the next volume as long as there is one; `ArchiveOpen`
states no liveness and no fairness. `Unpack5MT` has `WF_vars(Next)`: the owner and the
threads of the pool run, and closing the loop is up to the code. In `LocaleInit` each
thread that has entered a batch extraction has weak fairness, since `setlocale` returns;
opening another archive and the host are under no obligation. In the pool weak fairness
is enough although mutexes are contended: a worker that goes around its loop takes a
task or falls asleep, so nobody can hold a thread off for ever.

**Action coverage.** The passing runs fire every action. Each property has a
mutant of a modelled action, written next to it in the module (`..._Forgets`,
`..._Solid`, ...), which violates it under the run's own configuration.

## 4. Properties

`BatchExtract`

* `NoRecordedTroubleIsLost`: Completed is never returned after a recorded failure.
* `ErrorIsAccountedFor`: the error returned is the code of something that happened.
* `CancelledIffRefused`: what the closure's answers decide.
* `SolidStreamIntact`: in a solid archive a file enters the unpacker only after it has had
  the data of every file that began earlier in this call, written or not. Data of a file
  that began before the call is jumped over (`extract.cpp:900`, `EnterMemory`), so nothing
  is said of the dictionary of a call that begins in the middle of a solid set.
* `MissingVolumeFails`, `BadPasswordNotMasked`: a checksum error that follows from
  a missing volume or a wrong password does not hide it.
* `KeepsPromise`: refinement of `ExtractEvents`. `Termination`.
* Proved, and not repeated in a run: `DictRefusalFails` (a refused dictionary fails the
  call), `ErrEventCarriesCause` (an Err event carries the code the call then returns,
  unless a directory was in the way of a volume).

`OpenArchive`

* `YieldedInOrder`, `EndMeansAll`: a listing is complete, ordered, free of
  repetitions, and an end without an error is the end.
* `DamageIsReported`, `NothingAfterFailure`: what errors mean, and what `force_heal` can
  and cannot do.
* `FirstIsReadable`: a volume that `VolumeInfo` calls the first begins with a whole entry.
* `TruncationIsReported`: nothing that ends in a missing volume is delivered as a success.
* `CallbackIsLive`: the library never calls back into user data of another call, as long
  as the call has user data of its own. `ExtractAllTellsNobody` is the same for
  `extract_all`, which has none, and does not hold (section 6).
* `FreshHandleIsClean`: the cursor types keep both remainders of earlier calls, the
  destination name and the callback that stores, from a batch on a handle on which no
  entry was processed. With the batch methods on every cursor it would fail. Once an entry
  was extracted, a batch does write to that entry's destination, see section 6.
* `CallsReturn`.

`ThreadPool`

* `TypeOK` with the bounds of the counters: the queue is not overrun.
* `NoDataRace`: the comments on `AddTask` and `WaitDone` claim that no lock is
  needed; no worker is active where the owner relies on that.
* `KeepsPromise`: refinement of `ForkJoin`, each task exactly once and none left.
* `CallsReturn`: no lost wake-up, no deadlock, and the destructor ends all threads.

`ArchiveOpen`

* `FailureIsNotSuccess`: a failed open never looks like a success, whatever other
  threads write to the code the result is taken from, and the reverse.
* `HandlesAreOwned`: every `DataSet` is deleted once, on every path, except for the
  one left behind by the panic over a password with a nul byte.
* Proved, and not repeated in a run: `RecoveryIsNoted` (`break_open` notes an error
  exactly when it hands out an archive that has one).
* `UndisturbedErrorIsOwn`: the error of an open is that of its own file as long as no
  other thread writes the exit code meanwhile (`disturbed` records that). What was
  recorded before has no influence. Without the condition it fails, see section 6.

`VolumeNames`

* `NoVolumeSkipped`: none is passed over or read again.
  `AllVolumesRead`: the last one is reached, also by names of the other scheme.
* `NthPartAgrees`: for names that are numbered from 1, `nth_part` gives each volume
  and `first_part` leads back. `GlobCoversAll`: for names of the new scheme whose number
  is as wide as that of the last volume, the pattern of `all_parts` matches every volume.
  The names these do not hold for are in section 6.

`Unpack5MT`

* `TypeOK` with the claims that no block begins behind the data, no item is read from
  more than the reserve behind it, every read has room, and the tasks fit `UTDArray`.
* `AppliedInOrder`: the window gets what one thread would have given it: the data of every
  block once, in order, without gaps, each block with the right tables, whatever cut it.
  The last piece is excepted after damage, see section 6.
* `WholeFileIsUnpacked`: a file without faults is unpacked to its last byte.
* `Unpacked`: the loop ends, also for a file that is cut off or damaged.

`LocaleInit`

* `NamesFollowTable`: names are written in the encoding that the table in `lib.rs` gives
  for target, features, host and environment, unless the host interferes during `init`.
* `HostLocaleKept`: `init` changes a locale only when it is C. A host that calls
  `setlocale` between the query and the change loses its choice; that is the exception.
* `BatchesProceed`: every batch gets past the initialisation, also those that wait.
* Proved, and not repeated in a run: `InitRunsAlone`.

## 5. Proofs

`BatchExtract_proofs` proves for every set of file headers, every bound and every
dictionary limit what `batch` checks on an instance. The argument is one inductive
invariant `Inv`, a conjunction of parts that are proved one after another, each from
`TypeOK` and the parts before it:

| Part | Why it is needed |
|---|---|
| `TypeOK` | `pc = "unpack" => target # "nowhere"` is part of it and is inductive only with the types |
| `Outcome` (`Undecided`, `Decided`, `RefusalReturns`) | ties `status`, `ret`, `cancelled` and the last event to `pc` |
| `NothingLost` (`TroubleHasCode`, `SuccessIsClean`) | `NoRecordedTroubleIsLost` speaks of the end; these say why `DllError` still knows then |
| `Explained`, `Returned` | every value `DllError` takes has its trouble in the history |
| `Stops` (`DictStops`, `VolumeStops`) | after these troubles only `verify` and `report` follow, with `success` false |
| `OnlyThisOwed` | what is owed at each stage: nothing but the file at hand, from `TakeFile` to `UnpackDone`; a file that fails in between ends the call. `SolidStreamIntact` is its line for `unpack` |
| `FirstIsOver` | `DllError` is overwritten by "misplaced" only for the first file, before any password was asked for |
| `Cause` (`Coded`) | a call that fails without a code has met a directory in place of a volume |

Each lemma `...Next` shows that one part is preserved, with a step per action or,
where many actions leave the variables of a part alone, one step for all of these
and one for each of the others. `InitInv` and `NextInv` combine them, and the
theorems follow with PTL. The only assumption is `BatchAssumption`, which states
the types of the constants; TLC evaluates it in every run.

`BatchExtract_proofs` also proves `Spec => Promise!Spec` (`CallerSeesPromise`). Most steps
of `BatchExtract` are internal to a file (`Silent`: the caller hears nothing, an error
code may change, an exception may end the call) and map to a stutter or to the choice of
the result; the others map to the event of the same name. What `Inv` does not say and the
mapping needs is `Told`:

| Part | Why it is needed |
|---|---|
| `DictFromFile` | a LargeDict event names the dictionary of a file of the archive, also of one met in a volume that was merged in between |
| `SizeFromFile` | the size an Ok event repeats, kept in `pending_size`, is the one its Start gave |
| `ErrIsLast` | nothing follows an Err event but the return |
| `CodeFromFile` | an Err event never carries a code that only an exception has |
| `ThrownOut` | a call that ends between Start and Ok or Err has an error to return |

`ThreadPool_proofs` proves `TypeOK`, `NoDataRace` and `KeepsPromise` for every number of
slots, threads and tasks. The first two come from one inductive invariant:

| Part | Why it is needed |
|---|---|
| `Counted` | while tasks are released, `ActiveThreads` is `QueuedTasksCnt` plus the number of workers that are busy; otherwise nothing is counted and every worker is idle. This is why the owner needs no lock, and why `--ActiveThreads` and `QueuedTasksCnt--` stay above zero |
| `Closed` | after `Closing` is set, workers only go to their end |
| `Exclusive` | which places can only be reached with a mutex |
| `LastSignals` | `AnyActive` is false only when no task is active and nobody is about to report |
| `HasSlot` | `AddTask` stores only into a free slot, also after waiting |

`OneMoreBusy` and `OneFewerBusy` bring cardinalities into the argument: a worker that
takes a task moves one from the count to the busy workers. The only assumption is
`PoolAssumption` (a pool has at least one slot).

That the pool implements `ForkJoin` (`EachTaskRunsOnce`) needs the contents of the ring,
which the invariant above leaves open:

| Part of `Kept` | Why it is needed |
|---|---|
| `RingOK` | the slots from `QueueBottom` to `QueueTop`, around the end of the array, hold the last tasks added, in order |
| `TasksOK` | what is in the ring has not run; what has left it has run once, or exactly one worker is about to run it, also between its copy of the slot and the move of `QueueBottom` |
| `Occupied` | a released pool has tasks, a destroyed one has none |

A step of a worker maps to the task running or to a stutter, the owner's steps to adding
a task, to waiting, and, when the last task has reported, to the return of the wait.

`ArchiveOpen_proofs` proves what `open` checks for any number of threads and any
`UseCodes` (`UseCodesAssumption`: they are errors). The inductive invariant speaks of
one thread at a time, and of the shared code only its type: what another thread
may write there is arbitrary.

| Part | Why it is needed |
|---|---|
| `TypeOK` | the range of `exitCode`, from which every verdict is shown to be an error |
| `Journey` | which files can be at which stage, and where a recorded code leads (`Heading`: the stage a thread is at or will return to) |
| `Owned` | the number of `DataSet`s at each stage |
| `Noting` | the relation of result, method, outcome and note at each stage |

`OwnErrorUndisturbed` needs one more part, `Own`: while nobody disturbs thread `t`, the
exit code at its verdict is the one this open has recorded, or SUCCESS since `Clean`.
Its preservation is proved apart for a step of `t` (`StepOwnSelf`) and for one of
another thread, which either disturbs `t` or leaves all it depends on (`StepOwnOther`).

`OpenArchive_proofs` proves `TypeOK`, `CallbackIsLive`, `FreshHandleIsClean` and
`TruncationIsReported` for volume sets of any length and content, all modes and any
number of heals, from `ArchiveAssumption`. What the library reads plays no part in the
last three, which follow from an invariant `Inv` that does not even need the types:

| Part | Why it is needed |
|---|---|
| `NextLists` | only a listing has an iterator, so a call of it never unpacks |
| `CursorInv` | the cursor keeps its value until the call ends, so a call that consumes the handle cannot leave it in front of the next header |
| `FreshInv` | without a processed entry neither a destination nor, in front of a header, a callback is left behind |
| `PartInv` | a truncated file leaves `EOpen` behind until the call has failed and dropped the handle |

`TypeCorrect` rests on `PlaceMoves` (every way of moving in a volume set ends on a block
or just after the last) and `LandingInVolume` (so does a merge, by the least element of a
set of positions).

`OpenArchive_listing` proves the claims that relate what a handle returns to what the
volumes contain, for sets of any length:

| Theorem | Invariant | Hypotheses |
|---|---|---|
| `DamageReported` | `SoundInv`: every header read in this volume is sound, or `BrokenHeader` remembers that one was not | |
| `AfterFailure` (`NothingAfterFailure`) | `StuckInv`: after an error of the iterator no file and no end record lies ahead of the position | `EndIsEnd` |
| `ListedInOrder` (`YieldedInOrder`) | `WalkInv`: the entries returned are those to show up to the position, each at its rank | `EndIsEnd`, `SplitIsLast` |
| `EndIsAll` (`EndMeansAll`) | `EndInv`: what was passed without an error led nowhere else; at the end nothing is left ahead | these and `VolumesLeadOn` |
| `FirstReadable` (`FirstIsReadable`) | `FirstInv`: the scan at the opening looked at the first file, and no other was passed before the first entry | `EndIsEnd`, `RestFollows` |

All of them rest on `LinkInv`: between two calls, and inside one, the header in memory is
the one the position is just behind. The hypotheses exclude sets RAR does not
write: a file behind an end record, which a healed iterator would find, or behind a split
one, which a merge would pass. `WalkInv` counts with cardinalities: `LineGrows` adds one
entry when the next header to show is passed (`NextInLine`), and `AsExpected` turns the
ranks into the sequence `Expected`.

`LocaleInit_proofs` proves every safety property for any number of threads, calls of the
host, environments and installed locales, from `LocaleAssumption`:

| Part | Why it is needed |
|---|---|
| `TypeOK` | the candidates end, the encodings are known ones |
| `CellInv` | `once` names the thread that is inside `init`, and no thread has passed it before |
| `StepInv` (`Knows`) | what the thread inside `init` knows of `LC_CTYPE` at each step, unless the host has interfered |
| `TableInv`, `NamesFollowTable` | what `LC_CTYPE` is once the cell is filled, and that names were written under it |

`Unpack5MT_proofs` proves every safety property of the decoder (`TypeCorrect`,
`InOrderAlways`, `WholeFilesUnpacked`) for archives of any number of files and blocks, any
sizes of buffer, alignment, reserve and large blocks that fit each other, and one to eight
threads, from `UnpackAssumption`. The inductive invariant `Inv` consists of the types, a
line about large blocks, and a part for each place of the loop (`AtCall`, `AtRead`,
`AtFill`, `AtAdd`, `AtDecode`, `AtProcess`, `AtMore`, `AtFinish`, `AtEnd`). These say
three things with the same predicates:

| Predicate | What it says |
|---|---|
| `Holds`, `Held`, `Follows` | a slot in use holds a block of this file, all of it or its rest, at the place of the buffer where it is; the next slot holds the next block |
| `Fresh`, `Ready`, `Pending` | which slots are still to be decoded, which are decoded as far as their data goes, and which tasks are not done: between `AddTask` and `WaitDone` the slot of a small block is fresh exactly if its task is pending, in whatever order tasks finish |
| `AppliedTo(a, s, m, pos)` | the window has the data of all blocks up to position `pos` of file `m`, one piece for each block, the last one perhaps begun |

The proof first finds out where blocks are (`StartNext`, `Places`: the recursive function
`Start` exists for a file of any length, by the least length for which it would not), then
what `AppliedTo` becomes when a header or a piece is passed (`PassHeader`, `PassFile`,
`ApplyNext`), and which tables a block is decoded with (`OwnTables`, `SameTables`,
`FirstTables`, `LastTables`: of itself, or of the last block of the file before). Each
action then takes the part of its place to the part of the next; the tasks cover every
small block of a round once and are no more than the threads (`DividedFacts`,
`TasksFacts`), and large blocks come after the small ones (`NormalFirst`). The piece a
slot with damaged tables applies again is the one exception `AppliedInOrder` makes
(`StaleInOrder`). TLC checked `Inv` on the instance of `unpack` and on four other settings
of the constants before it was proved.

`VolumeNames_proofs` proves every safety property of the names for all sets that
`SetsAssumption` allows, whatever scheme they are named by and whatever numbering their
headers announce. The invariant is `Setup` (what no step changes) and that `name` is
`Volume(i)` for some `i` of the set; the work is to show that a step takes it to
`Volume(i + 1)`:

| Lemmas | What they say |
|---|---|
| `Tens`, `DigitsFit`, `DigitsGrow`, `WideFits` | powers of ten and widths: a number fits its digits, a larger one has no fewer, and widening on the way from volume to volume comes to the same width as widening at once |
| `VolumeIsNew`, `VolumeIsNum`, `VolumeIsLettered` | what volume `i` is called in each scheme; `OneVolume`: no two are called the same |
| `NextNewName`, `NextOldName`, `NextOldNum`, `NextOldLetter` | what each scheme makes of each ending, carries included |
| `OldGoesOn` | among old names the old scheme gives the next volume |
| `NewGoesOn` | among old names the new scheme, if its guess happens to be there, gives the same |
| `NewNames` | among new names the new scheme gives the next volume, and behind the last neither scheme gives a volume that is there |
| `Onward` | so the first of the two names tried that is there is the next volume, and one of them is there unless the last volume is open |

`NoneSkipped` is `Onward` for every step. `Found` is its last part, the safety half of
`AllVolumesRead`: the walk stops nowhere but at the end. `Typed` (`TypeOK`) has
the hypothesis `LettersSuffice`, since behind `.z99` the code goes on with the character
after z; the others hold beyond that. TLC evaluates `SetsAssumption` and `LettersSuffice`
for the sets of `names`.

Model-checked only: `Termination`, `CallsReturn`, `AllVolumesRead`, `BatchesProceed` and
`Unpacked`, since liveness is outside the prover's reach. Every safety property of the
passing runs is proved.

## 6. Where code and documentation differ

Each of these is a run that TLC refutes; the counterexample is what the code does.

| Run | What the documentation says | What the code does |
|---|---|---|
| `batch_ok` | `Ok`: "File extraction completed successfully." | also sent after a checksum error, a file that cannot be created, a file passed over (the call itself still fails if an error was recorded) |
| `batch_exhausted` | `Completed`: the extraction "ran to the end of the archive" | also after a header that is corrupt or does not decrypt |
| `handle_callback` | the callback is NULL "if you do not want to define the callback function" (`RARSetCallback.md:40`), and `extract_all` has none | in a set of volumes the library calls the trampoline of the `read_header` before `extract_all`, which stores the name of the volume in a stack frame that is gone |
| `open_together` | the exit code is avoided, since parallel operations affect it (`dll.cpp:340`) | `RAROpenArchiveEx` takes the error of a failed open from it (`dll.cpp:84`): it may be another thread's, or lost |
| `locale_password` | everything but batch extraction is "locale-immune" or writes nothing (`locale.rs:39-41`) | `RARSetPassword` converts the password under the `LC_CTYPE` of the moment: another key before the first batch than after it |

Smaller ones follow directly from single definitions and have no run:

* the answer to an Err event is ignored and the call ends, though `open_archive.rs:437`
  calls it "continue with other files", and
  `docs/2026-04-15_batch-extraction-performance-optimization.md:191` "continue with
  remaining files" (`Continue`); an Err event for a directory in the place of a volume
  carries Success, and the call then returns Completed (`LoseVolume`);
* `extract_all` "Extracts all files from the archive to the specified directory"
  (`open_archive.rs:353`), but after `extract` or `extract_to` on the same handle it writes
  every file to the name that entry was given, since `RARExtractAllW` does not clear
  `DllDestName` (`ExtractAll`, `destName`);
* `MissingPassword` is also returned after the library has erased a password that was
  given (`PasswordMissing`);
* `read` returns Ok and no data for the rest of a file whose beginning was skipped, and
  `skip` in Process mode makes that rest the next entry (`Unpack`, `SkipFile`);
* `VolumeInfo` is First also for a later volume whose first file begins in it, and None for
  a volume of a set whose main header is encrypted (`VolumeInfo`);
* `open` accepts an archive with a damaged main header without a word, for which
  `break_open` is documented (`FindBroken`);
* `first_part` turns `.r00` into `.r01` and `.part10.rar` into `.part01.rar`; `nth_part(2)`
  of `movie.12.1` is `movie.22.2` (`NthPart`, `Repeats`); `all_parts` of `.part1.rar` does
  not match `.part10.rar`, and that of `.r00` neither `.rar` nor `.s00` (`GlobMatches`);
* a block whose tables are damaged ends the file, but what its slot had decoded in an
  earlier round is applied to the window once more before that is noticed (`Decoded`,
  `Process`).

## 7. Not modelled

* Decompression, cryptography, checksums: computation on data with no protocol.
* Path sanitising, links on disk, the file layer: only whether they succeed.
* Command line, console, recovery volumes: not reachable through this crate.
* FFI declarations and the build script: no behaviour, but for the encoding of names,
  which is in `LocaleInit`. The examples.
* `std::length_error`, which `RARExtractAllW` does not catch: what an exception
  does that crosses the foreign function boundary is not defined by this code.
* The Windows branch of the thread pool; a task that throws inside a worker (nothing
  catches it, the process ends).

## 8. Plan

1. *Done*: `ExtractEvents`, `BatchExtract`, `OpenArchive`, the proofs above.
2. *Done*: `ForkJoin`, `ThreadPool`, its proofs.
3. *Done*: `ArchiveOpen` (two handles on two threads over `ErrHandler`, and
   `OpenArchive::new` with `break_open`), its proofs.
4. *Done*: `VolumeNames`.
5. *Done*: `LocaleInit` (`OnceLock` around `setlocale`, with a host), its proofs.
6. *Done*: batch extractions on a used handle and `VolumeInfo`, in `OpenArchive`.
7. *Done*: `Unpack5MT`.
8. *Done*: the safety part of `OpenArchive` that speaks of calls rather than of contents,
   and its types.
9. *Done*: both refinements; listings and damage in `OpenArchive`; `Unpack5MT`.
10. *Done*: the proofs about `VolumeNames`.
11. The two hazards no property covers (`PROJECT.json`): a file met right after a merge
   inside `ExtractCurrentFile`, and a main header that is damaged without an error.
