----------------------------- MODULE LocaleInit -----------------------------
(***************************************************************************)
(* The character encoding of names and passwords: which one the library    *)
(* was built for, what LC_CTYPE is while it converts, and the one-time     *)
(* initialisation of LC_CTYPE by the first batch extraction, with threads  *)
(* that open and extract archives and a host program that calls setlocale  *)
(* whenever it likes.                                                      *)
(*                                                                         *)
(* Names and passwords are taken to hold characters outside ASCII; what is *)
(* kept of a conversion is the encoding it used.  "mangled" is what the C  *)
(* locale makes of them: a run of underscores, or of private characters.   *)
(***************************************************************************)
EXTENDS Naturals

CONSTANTS
  Threads,
  Targets,       \* platforms the crate is built for
  Environments,  \* what LANG and LC_* may name
  Provisions,    \* which of the fallback locales may be installed
  MaxHost,       \* bound: calls of setlocale by the host
  MaxOpens       \* bound: archives one thread opens

Locales == {"C", "legacy", "utf8"}

(* C.UTF-8, C.utf8, en_US.UTF-8, en_US.utf8, in this order.                *)
Ladder == 1 .. 4

ASSUME LocaleAssumption ==
  /\ Targets \subseteq {"unix", "apple", "windows"}
  /\ Environments \subseteq Locales \cup {"missing"}
  /\ Provisions \subseteq SUBSET Ladder
  /\ MaxHost \in Nat /\ MaxOpens \in Nat
  /\ {"new", "done"} \cap Threads = {}

VARIABLES
  target,      \* the platform
  utf8,        \* cargo feature linux-batch-extract-utf8
  setlocale,   \* cargo feature linux-batch-extract-setlocale
  env,         \* what setlocale(LC_CTYPE, "") selects, or "missing"
  installed,   \* fallback locales that are installed
  lcCtype,     \* LC_CTYPE of the process
  once,        \* INIT: "new", the thread that runs init, or "done"
  rung,        \* the candidate init tries next
  pc,          \* what each thread does
  opens,       \* archives each thread has opened
  hostCalls,   \* calls of setlocale by the host
  chosen,      \* history: the locale the process had when init began
  meddled,     \* history: the host has called setlocale since
  written,     \* history: encodings of the names batches have written
  decoded      \* history: encodings passwords were read in

build == <<target, utf8, setlocale, env, installed>>
history == <<chosen, meddled, written, decoded>>
vars == <<build, lcCtype, once, rung, pc, opens, hostCalls, history>>

Stages == {"idle", "opened", "ensure", "query", "environ", "recheck", "ladder",
           "batch", "convert"}

(* #[cfg(...)] mod imp: everywhere else ensure_initialized does nothing.   *)
Initialises == setlocale /\ target = "unix"

(* UNRAR_NG_FORCE_UTF8, and the _APPLE branch.                             *)
AlwaysUtf8 == target = "apple" \/ (utf8 /\ target = "unix")

Encodings == Locales \cup {"mangled", "codepage"}

(* WideToChar and CharToWide under locale l.                               *)
Encoding(l) ==
  CASE target = "windows" -> "codepage"
    [] AlwaysUtf8 -> "utf8"
    [] OTHER -> IF l = "C" THEN "mangled" ELSE l

Init ==
  /\ target \in Targets /\ utf8 \in BOOLEAN /\ setlocale \in BOOLEAN
  /\ env \in Environments /\ installed \in Provisions
  /\ lcCtype = "C" /\ once = "new" /\ rung = 1
  /\ pc = [t \in Threads |-> "idle"] /\ opens = [t \in Threads |-> 0]
  /\ hostCalls = 0
  /\ chosen = "C" /\ meddled = FALSE /\ written = {} /\ decoded = {}

Goto(t, stage) == pc' = [pc EXCEPT ![t] = stage]

-----------------------------------------------------------------------------
(* One thread: open an archive, extract it.                                *)

(* OpenArchive::new hands the password to RARSetPassword.                  *)
Open(t) ==
  /\ pc[t] = "idle" /\ opens[t] < MaxOpens
  /\ opens' = [opens EXCEPT ![t] = @ + 1]
  /\ decoded' = decoded \cup {Encoding(lcCtype)}
  /\ Goto(t, "opened")
  /\ UNCHANGED <<build, lcCtype, once, rung, hostCalls, chosen, meddled, written>>

(* extract_all and extract_all_with_callback begin alike.                  *)
ExtractAll(t) ==
  /\ pc[t] = "opened"
  /\ Goto(t, IF Initialises THEN "ensure" ELSE "batch")
  /\ UNCHANGED <<build, lcCtype, once, rung, opens, hostCalls, history>>

(* OnceLock::get_or_init: the first caller runs init, those that come      *)
(* while it runs wait, all others pass.                                    *)
RunInit(t) ==
  /\ pc[t] = "ensure" /\ once = "new"
  /\ once' = t
  /\ chosen' = lcCtype
  /\ Goto(t, "query")
  /\ UNCHANGED <<build, lcCtype, rung, opens, hostCalls, meddled, written, decoded>>

PassInit(t) ==
  /\ pc[t] = "ensure" /\ once = "done"
  /\ Goto(t, "batch")
  /\ UNCHANGED <<build, lcCtype, once, rung, opens, hostCalls, history>>

(* A name on its way to the disk: the conversion reads LC_CTYPE.           *)
BeginName(t) ==
  /\ pc[t] = "batch"
  /\ Goto(t, "convert")
  /\ UNCHANGED <<build, lcCtype, once, rung, opens, hostCalls, history>>

EndName(t) ==
  /\ pc[t] = "convert"
  /\ written' = written \cup {Encoding(lcCtype)}
  /\ Goto(t, "idle")
  /\ UNCHANGED <<build, lcCtype, once, rung, opens, hostCalls, chosen, meddled, decoded>>

-----------------------------------------------------------------------------
(* init.                                                                   *)

Settled(t) == once' = "done" /\ Goto(t, "batch")

(* Mutant: init does not look whether the host has chosen a locale.        *)
Query_Blind(t) ==
  /\ pc[t] = "query"
  /\ Goto(t, "environ") /\ UNCHANGED once
  /\ UNCHANGED <<build, lcCtype, rung, opens, hostCalls, history>>

(* Step 1: a locale other than C is the host's choice.                     *)
Query(t) ==
  /\ pc[t] = "query"
  /\ IF lcCtype # "C" THEN Settled(t) ELSE Goto(t, "environ") /\ UNCHANGED once
  /\ UNCHANGED <<build, lcCtype, rung, opens, hostCalls, history>>

(* Step 2: setlocale(LC_CTYPE, "") fails when the locale is not installed. *)
Environ(t) ==
  /\ pc[t] = "environ"
  /\ lcCtype' = IF env = "missing" THEN lcCtype ELSE env
  /\ Goto(t, IF env = "missing" THEN "ladder" ELSE "recheck")
  /\ UNCHANGED <<build, once, rung, opens, hostCalls, history>>

(* Mutant: the environment is taken to have named a useful locale.         *)
Recheck_Trusting(t) ==
  /\ pc[t] = "recheck"
  /\ Settled(t)
  /\ UNCHANGED <<build, lcCtype, rung, opens, hostCalls, history>>

Recheck(t) ==
  /\ pc[t] = "recheck"
  /\ IF lcCtype # "C" THEN Settled(t) ELSE Goto(t, "ladder") /\ UNCHANGED once
  /\ UNCHANGED <<build, lcCtype, rung, opens, hostCalls, history>>

(* Mutant: one candidate more than there are.                              *)
TryCandidate_TooFar(t) ==
  /\ pc[t] = "ladder" /\ rung \in Ladder \cup {5}
  /\ IF rung \in installed
       THEN lcCtype' = "utf8" /\ Settled(t) /\ UNCHANGED rung
       ELSE rung' = rung + 1 /\ UNCHANGED <<lcCtype, once, pc>>
  /\ UNCHANGED <<build, opens, hostCalls, history>>

(* Step 3: the first candidate that is installed.                          *)
TryCandidate(t) ==
  /\ pc[t] = "ladder" /\ rung \in Ladder
  /\ IF rung \in installed
       THEN lcCtype' = "utf8" /\ Settled(t) /\ UNCHANGED rung
       ELSE rung' = rung + 1 /\ UNCHANGED <<lcCtype, once, pc>>
  /\ UNCHANGED <<build, opens, hostCalls, history>>

(* Mutant: init that finds nothing never fills the cell.                   *)
GiveUp_Unfilled(t) ==
  /\ pc[t] = "ladder" /\ rung \notin Ladder
  /\ Goto(t, "batch")
  /\ UNCHANGED <<build, lcCtype, once, rung, opens, hostCalls, history>>

GiveUp(t) ==
  /\ pc[t] = "ladder" /\ rung \notin Ladder
  /\ Settled(t)
  /\ UNCHANGED <<build, lcCtype, rung, opens, hostCalls, history>>

-----------------------------------------------------------------------------
(* The host program calls setlocale in a thread of its own.                *)
HostSets(l) ==
  /\ hostCalls < MaxHost
  /\ hostCalls' = hostCalls + 1
  /\ lcCtype' = l
  /\ meddled' = (meddled \/ once # "new")
  /\ UNCHANGED <<build, once, rung, pc, opens, chosen, written, decoded>>

Batch(t) ==
  \/ ExtractAll(t) \/ RunInit(t) \/ PassInit(t)
  \/ Query(t) \/ Environ(t) \/ Recheck(t) \/ TryCandidate(t) \/ GiveUp(t)
  \/ BeginName(t) \/ EndName(t)

Next ==
  \/ \E t \in Threads : Open(t) \/ Batch(t)
  \/ \E l \in Locales : HostSets(l)

(* A thread that has begun to extract runs on; setlocale returns.          *)
Spec == Init /\ [][Next]_vars /\ \A t \in Threads : WF_vars(Batch(t))

-----------------------------------------------------------------------------
(* Properties.                                                             *)

(* Every variable has its type.                                            *)
TypeOK ==
  /\ target \in Targets /\ utf8 \in BOOLEAN /\ setlocale \in BOOLEAN
  /\ env \in Environments /\ installed \in Provisions
  /\ lcCtype \in Locales
  /\ once \in {"new", "done"} \cup Threads
  /\ rung \in 1 .. 5
  /\ pc \in [Threads -> Stages] /\ opens \in [Threads -> 0 .. MaxOpens]
  /\ hostCalls \in 0 .. MaxHost
  /\ chosen \in Locales /\ meddled \in BOOLEAN
  /\ written \subseteq Encodings /\ decoded \subseteq Encodings

(* The safety comment on init: setlocale must not run beside another call. *)
(* Whatever the number of threads, init runs in one of them at a time, and *)
(* none converts the name of a file meanwhile.                             *)
InitRunsAlone ==
  \A t \in Threads : pc[t] \in {"query", "environ", "recheck", "ladder"} =>
    /\ once = t
    /\ \A u \in Threads \ {t} : pc[u] \in {"idle", "opened", "ensure"}

(* lib.rs: the crate "never calls setlocale" without the feature; init     *)
(* intervenes only when LC_CTYPE is C.  A locale the host has set before   *)
(* init began stays; one it sets meanwhile may be lost.                    *)
HostLocaleKept ==
  [][lcCtype' # lcCtype /\ hostCalls' = hostCalls =>
       Initialises /\ (lcCtype = "C" \/ meddled)]_vars

(* The table in lib.rs: with the default feature, and on Apple, names are  *)
(* UTF-8 whatever the locale; with the setlocale feature they follow the   *)
(* host's choice, then the environment, then the fallback, and only a      *)
(* system without any of them mangles names.                               *)
Settling ==
  IF chosen # "C" THEN chosen
  ELSE IF env \in {"legacy", "utf8"} THEN env
  ELSE IF installed # {} THEN "utf8" ELSE "C"
NamesFollowTable ==
  AlwaysUtf8 \/ target = "windows" \/ (Initialises /\ ~meddled) =>
    written \subseteq {Encoding(Settling)}

(* Every batch gets past the initialisation, also the ones that wait for   *)
(* another thread's.                                                       *)
BatchesProceed ==
  \A t \in Threads : pc[t] = "opened" ~> pc[t] = "idle"

(* What locale.rs says of everything but batch extractions: they are       *)
(* locale-immune or write nothing.  So a password would be read alike      *)
(* before and after the first batch.                                       *)
PasswordsReadAlike ==
  hostCalls = 0 => \A a, b \in decoded : a = b
=============================================================================
