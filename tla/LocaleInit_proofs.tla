------------------------- MODULE LocaleInit_proofs -------------------------
(***************************************************************************)
(* Proofs about LocaleInit, for any threads, any platforms and any calls   *)
(* of setlocale by the host.                                               *)
(***************************************************************************)
EXTENDS LocaleInit, TLAPS

USE DEF Locales, Ladder

ThreadStep(t) ==
  \/ Open(t) \/ ExtractAll(t) \/ RunInit(t) \/ PassInit(t) \/ Query(t) \/ Environ(t)
  \/ Recheck(t) \/ TryCandidate(t) \/ GiveUp(t) \/ BeginName(t) \/ EndName(t)

(* The case distinction all proofs below begin with.                       *)
LEMMA NextCases ==
  ASSUME [Next]_vars
  PROVE \/ \E t \in Threads : ThreadStep(t)
        \/ \E l \in Locales : HostSets(l)
        \/ UNCHANGED vars
BY DEF Next, Batch, ThreadStep

(* A conversion yields one of these.                                       *)
LEMMA EncodingType ==
  ASSUME lcCtype \in Locales
  PROVE Encoding(lcCtype) \in Encodings
BY DEF Encoding, Encodings

(* The values of the cell are no threads.                                  *)
LEMMA NotAThread ==
  ASSUME NEW t \in Threads PROVE t # "new" /\ t # "done"
BY LocaleAssumption DEF LocaleAssumption

(* The types of the constants.                                             *)
LEMMA BoundType ==
  /\ MaxHost \in Nat /\ MaxOpens \in Nat /\ \A p \in Provisions : p \subseteq Ladder
  /\ Environments \subseteq Locales \cup {"missing"}
BY LocaleAssumption DEF LocaleAssumption

-----------------------------------------------------------------------------
(* Type correctness.                                                       *)

(* Every step keeps the types.                                             *)
LEMMA TypeStep == ASSUME TypeOK, [Next]_vars PROVE TypeOK'
<1> USE DEF TypeOK, Stages, build, history
<1>1. ASSUME NEW t \in Threads, ThreadStep(t) PROVE TypeOK'
  <2> USE <1>1 DEF Goto, Settled
  <2>1. CASE Open(t)
    <3>1. decoded' \subseteq Encodings BY <2>1, EncodingType DEF Open
    <3>2. opens' \in [Threads -> 0 .. MaxOpens] BY <2>1, BoundType DEF Open
    <3> QED BY <2>1, <3>1, <3>2 DEF Open
  <2>2. CASE ExtractAll(t) BY <2>2 DEF ExtractAll
  <2>3. CASE RunInit(t) BY <2>3 DEF RunInit
  <2>4. CASE PassInit(t) BY <2>4 DEF PassInit
  <2>5. CASE Query(t) BY <2>5 DEF Query
  <2>6. CASE Environ(t) BY <2>6, BoundType DEF Environ
  <2>7. CASE Recheck(t) BY <2>7 DEF Recheck
  <2>8. CASE TryCandidate(t) BY <2>8 DEF TryCandidate
  <2>9. CASE GiveUp(t) BY <2>9 DEF GiveUp
  <2>10. CASE BeginName(t) BY <2>10 DEF BeginName
  <2>11. CASE EndName(t)
    <3>1. written' \subseteq Encodings BY <2>11, EncodingType DEF EndName
    <3> QED BY <2>11, <3>1 DEF EndName
  <2> QED BY <2>1, <2>2, <2>3, <2>4, <2>5, <2>6, <2>7, <2>8, <2>9, <2>10, <2>11
          DEF ThreadStep
<1>2. ASSUME NEW l \in Locales, HostSets(l) PROVE TypeOK' BY <1>2, BoundType DEF HostSets
<1>3. CASE UNCHANGED vars BY <1>3 DEF vars
<1> QED BY <1>1, <1>2, <1>3, NextCases

(* Every variable keeps its type, whatever threads and host do.            *)
THEOREM TypeCorrect == Spec => []TypeOK
<1>1. Init => TypeOK
  <2> SUFFICES ASSUME Init PROVE TypeOK OBVIOUS
  <2>1. opens \in [Threads -> 0 .. MaxOpens] /\ hostCalls \in 0 .. MaxHost
    BY BoundType DEF Init
  <2>2. pc \in [Threads -> Stages] BY DEF Init, Stages
  <2>3. written \subseteq Encodings /\ decoded \subseteq Encodings BY DEF Init
  <2>4. rung \in 1 .. 5 /\ lcCtype \in Locales /\ chosen \in Locales BY DEF Init
  <2> QED BY <2>1, <2>2, <2>3, <2>4, Zenon DEF Init, TypeOK
<1> QED BY <1>1, TypeStep, PTL DEF Spec

-----------------------------------------------------------------------------
(* Who initialises.                                                        *)

Within == {"query", "environ", "recheck", "ladder"}
Before == {"idle", "opened", "ensure"}

(* The cell names the thread that is inside init, and until it is filled   *)
(* no other thread has got beyond it.                                      *)
CellInv ==
  \A t \in Threads :
    /\ pc[t] \in Within \cup {"ensure"} => Initialises
    /\ pc[t] \in Within <=> once = t
    /\ Initialises /\ once # "done" /\ once # t => pc[t] \in Before

(* One thread is inside init, and the others wait for it.                  *)
LEMMA CellStep == ASSUME TypeOK, CellInv, [Next]_vars PROVE CellInv'
<1> USE DEF CellInv, TypeOK, Stages, Within, Before
<1>1. ASSUME NEW t \in Threads, ThreadStep(t) PROVE CellInv'
  <2> SUFFICES ASSUME NEW u \in Threads
               PROVE /\ pc'[u] \in Within \cup {"ensure"} => Initialises'
                     /\ pc'[u] \in Within <=> once' = u
                     /\ Initialises' /\ once' # "done" /\ once' # u => pc'[u] \in Before
    OBVIOUS
  <2> USE <1>1 DEF Goto, Settled
  <2>0. Initialises' = Initialises
    BY DEF ThreadStep, Open, ExtractAll, RunInit, PassInit, Query, Environ, Recheck,
           TryCandidate, GiveUp, BeginName, EndName, build, Initialises
  <2>1. CASE Open(t) BY <2>0, <2>1 DEF Open
  <2>2. CASE ExtractAll(t) BY <2>0, <2>2 DEF ExtractAll
  <2>3. CASE RunInit(t) BY <2>0, <2>3, NotAThread DEF RunInit
  <2>4. CASE PassInit(t) BY <2>0, <2>4 DEF PassInit
  <2>5. CASE Query(t) BY <2>0, <2>5, NotAThread DEF Query
  <2>6. CASE Environ(t) BY <2>0, <2>6 DEF Environ
  <2>7. CASE Recheck(t) BY <2>0, <2>7, NotAThread DEF Recheck
  <2>8. CASE TryCandidate(t) BY <2>0, <2>8, NotAThread DEF TryCandidate
  <2>9. CASE GiveUp(t) BY <2>0, <2>9, NotAThread DEF GiveUp
  <2>10. CASE BeginName(t) BY <2>0, <2>10 DEF BeginName
  <2>11. CASE EndName(t) BY <2>0, <2>11 DEF EndName
  <2> QED BY <2>1, <2>2, <2>3, <2>4, <2>5, <2>6, <2>7, <2>8, <2>9, <2>10, <2>11
          DEF ThreadStep
<1>2. ASSUME NEW l \in Locales, HostSets(l) PROVE CellInv'
  BY <1>2 DEF HostSets, build, Initialises
<1>3. CASE UNCHANGED vars BY <1>3 DEF vars, build, Initialises
<1> QED BY <1>1, <1>2, <1>3, NextCases

(* However many threads begin their first batch at once, one of them runs  *)
(* init, and no other converts a name until it is through.                 *)
THEOREM InitAlone == Spec => []InitRunsAlone
<1>1. Init => CellInv BY NotAThread DEF Init, CellInv, Within, Before
<1>2. TypeOK /\ CellInv => InitRunsAlone
  <2> SUFFICES ASSUME TypeOK, CellInv, NEW t \in Threads,
                      pc[t] \in {"query", "environ", "recheck", "ladder"}
               PROVE /\ once = t
                     /\ \A u \in Threads \ {t} : pc[u] \in {"idle", "opened", "ensure"}
    BY DEF InitRunsAlone
  <2>1. once = t /\ Initialises BY DEF CellInv, Within
  <2>2. once # "done" BY <2>1, NotAThread
  <2> QED BY <2>1, <2>2 DEF CellInv, Before
<1> QED BY <1>1, <1>2, CellStep, TypeCorrect, PTL DEF Spec

-----------------------------------------------------------------------------
(* Whose locale it is.                                                     *)

(* What init knows at each of its steps, as long as the host keeps still.  *)
Knows(t) ==
  /\ pc[t] = "query" => lcCtype = chosen
  /\ pc[t] = "environ" => chosen = "C" /\ lcCtype = "C"
  /\ pc[t] = "recheck" => chosen = "C" /\ lcCtype = env
  /\ pc[t] \in {"query", "environ", "recheck"} => rung = 1
  /\ pc[t] = "ladder" =>
       /\ chosen = "C" /\ lcCtype = "C" /\ env \in {"C", "missing"}
       /\ \A i \in Ladder : i < rung => i \notin installed

StepInv == ~meddled => \A t \in Threads : Knows(t)

(* Once the cell is filled LC_CTYPE is what the table promises.            *)
TableInv ==
  /\ Initialises /\ once # "done" => written = {}
  /\ Initialises /\ once = "done" /\ ~meddled => lcCtype = Settling
  /\ once = "new" => ~meddled /\ rung = 1

NamesInv == StepInv /\ TableInv /\ NamesFollowTable

(* Names are written under the locale that init has left.                  *)
LEMMA NamesStep == ASSUME TypeOK, CellInv, NamesInv, [Next]_vars PROVE NamesInv'
<1> USE DEF Within, Before
<1>1. ASSUME NEW t \in Threads, ThreadStep(t) PROVE NamesInv'
  <2> USE <1>1 DEF Goto, Settled, build
  <2>0. /\ UNCHANGED <<target, utf8, setlocale, env, installed, meddled>>
        /\ Initialises' = Initialises /\ AlwaysUtf8' = AlwaysUtf8
    BY DEF ThreadStep, Open, ExtractAll, RunInit, PassInit, Query, Environ, Recheck,
           TryCandidate, GiveUp, BeginName, EndName, Initialises, AlwaysUtf8, history
  <2>p. pc \in [Threads -> Stages] BY DEF TypeOK
  <2>a. ASSUME chosen' = chosen
        PROVE Settling' = Settling /\ Encoding(Settling)' = Encoding(Settling)
    <3>1. Settling' = Settling BY <2>0, <2>a DEF Settling
    <3> QED BY <2>0, <3>1 DEF Encoding
  <2>c. ASSUME UNCHANGED <<lcCtype, once, rung, chosen, written>>,
               \A u \in Threads : pc'[u] \in Within => pc'[u] = pc[u]
        PROVE NamesInv'
    <3>1. StepInv' BY <2>0, <2>c DEF NamesInv, StepInv, Knows
    <3>2. TableInv' BY <2>0, <2>a, <2>c DEF NamesInv, TableInv
    <3>3. NamesFollowTable' BY <2>0, <2>a, <2>c DEF NamesInv, NamesFollowTable
    <3> QED BY <3>1, <3>2, <3>3 DEF NamesInv
  (* Inside init: what holds of the thread, and what a step of it keeps.   *)
  <2>d. ASSUME pc[t] \in Within
        PROVE /\ once = t /\ once # "done" /\ once # "new" /\ Initialises
              /\ written = {}
              /\ ~meddled => Knows(t)
              /\ \A u \in Threads \ {t} : pc[u] \in Before
    BY <2>d, NotAThread DEF CellInv, NamesInv, TableInv, StepInv
  <2>e. ASSUME pc[t] \in Within, UNCHANGED <<written, chosen, once>>,
               \A u \in Threads \ {t} : pc'[u] = pc[u], ~meddled => Knows(t)'
        PROVE NamesInv'
    <3>1. ASSUME NEW u \in Threads, ~meddled PROVE Knows(u)'
      <4>1. CASE u = t BY <2>e, <3>1, <4>1
      <4>2. CASE u # t BY <2>d, <2>e, <4>2 DEF Knows
      <4> QED BY <4>1, <4>2
    <3>2. StepInv' BY <2>0, <3>1 DEF StepInv
    <3>3. TableInv' BY <2>0, <2>d, <2>e DEF TableInv
    <3>4. NamesFollowTable' BY <2>d, <2>e DEF NamesFollowTable
    <3> QED BY <3>2, <3>3, <3>4 DEF NamesInv
  <2>f. ASSUME pc[t] \in Within, UNCHANGED <<written, chosen>>,
               \A u \in Threads \ {t} : pc'[u] = pc[u],
               pc'[t] = "batch", once' = "done", ~meddled => lcCtype' = Settling
        PROVE NamesInv'
    <3>1. \A u \in Threads : Knows(u)' BY <2>d, <2>f DEF Knows
    <3>2. StepInv' BY <3>1 DEF StepInv
    <3>3. TableInv' BY <2>0, <2>a, <2>f DEF TableInv
    <3>4. NamesFollowTable' BY <2>d, <2>f DEF NamesFollowTable
    <3> QED BY <3>2, <3>3, <3>4 DEF NamesInv
  <2>1. CASE Open(t) BY <2>1, <2>c, <2>p DEF Open
  <2>2. CASE ExtractAll(t) BY <2>2, <2>c, <2>p DEF ExtractAll, history
  <2>3. CASE RunInit(t)
    <3>1. Initialises /\ once = "new" BY <2>3 DEF RunInit, CellInv
    <3>2. written' = {} /\ once' # "done" /\ once' # "new"
      BY <2>3, <3>1, NotAThread DEF RunInit, NamesInv, TableInv
    <3>3. TableInv' BY <3>2 DEF TableInv
    <3>4. NamesFollowTable' BY <3>2 DEF NamesFollowTable
    <3>5. StepInv'
      <4> SUFFICES ASSUME NEW u \in Threads, pc'[u] \in Within
                   PROVE pc'[u] = "query" /\ lcCtype' = chosen' /\ rung' = 1
        BY DEF StepInv, Knows
      <4>1. u = t BY <2>3, <2>p, <3>1, NotAThread DEF RunInit, CellInv
      <4> QED BY <2>3, <2>p, <3>1, <4>1 DEF RunInit, NamesInv, TableInv
    <3> QED BY <3>3, <3>4, <3>5 DEF NamesInv
  <2>4. CASE PassInit(t) BY <2>4, <2>c, <2>p DEF PassInit, history
  <2>5. CASE Query(t)
    <3>1. /\ UNCHANGED <<written, chosen, lcCtype, rung>> /\ pc[t] = "query"
          /\ \A u \in Threads \ {t} : pc'[u] = pc[u]
      BY <2>5, <2>p DEF Query, history
    <3>2. ~meddled => chosen = lcCtype /\ rung = 1 BY <2>d, <3>1 DEF Knows
    <3>3. CASE lcCtype # "C"
      <4>1. once' = "done" /\ pc'[t] = "batch" BY <2>5, <2>p, <3>3 DEF Query
      <4>2. ~meddled => lcCtype = Settling BY <3>2, <3>3 DEF Settling
      <4> QED BY <2>f, <3>1, <4>1, <4>2
    <3>4. CASE lcCtype = "C"
      <4>1. once' = once /\ pc'[t] = "environ" BY <2>5, <2>p, <3>4 DEF Query
      <4>2. ~meddled => Knows(t)' BY <3>1, <3>2, <3>4, <4>1 DEF Knows
      <4> QED BY <2>e, <3>1, <4>1, <4>2
    <3> QED BY <3>3, <3>4
  <2>6. CASE Environ(t)
    <3>1. /\ UNCHANGED <<written, chosen, once, rung>> /\ pc[t] = "environ"
          /\ \A u \in Threads \ {t} : pc'[u] = pc[u]
      BY <2>6, <2>p DEF Environ, history
    <3>2. ~meddled => chosen = "C" /\ lcCtype = "C" /\ rung = 1
      BY <2>d, <3>1 DEF Knows
    <3>3. ~meddled => Knows(t)'
      <4>1. CASE env = "missing"
        <5>1. pc'[t] = "ladder" /\ lcCtype' = lcCtype
          BY <2>6, <2>p, <4>1 DEF Environ
        <5> QED BY <2>0, <3>1, <3>2, <4>1, <5>1 DEF Knows
      <4>2. CASE env # "missing"
        <5>1. pc'[t] = "recheck" /\ lcCtype' = env BY <2>6, <2>p, <4>2 DEF Environ
        <5> QED BY <2>0, <3>1, <3>2, <5>1 DEF Knows
      <4> QED BY <4>1, <4>2
    <3> QED BY <2>e, <3>1, <3>3
  <2>7. CASE Recheck(t)
    <3>1. /\ UNCHANGED <<written, chosen, lcCtype, rung>> /\ pc[t] = "recheck"
          /\ \A u \in Threads \ {t} : pc'[u] = pc[u]
      BY <2>7, <2>p DEF Recheck, history
    <3>2. ~meddled => chosen = "C" /\ lcCtype = env /\ rung = 1
      BY <2>d, <3>1 DEF Knows
    <3>3. CASE lcCtype # "C"
      <4>1. once' = "done" /\ pc'[t] = "batch" BY <2>7, <2>p, <3>3 DEF Recheck
      <4>2. lcCtype \in {"legacy", "utf8"} BY <3>3 DEF TypeOK
      <4>3. ~meddled => lcCtype = Settling BY <3>2, <4>2 DEF Settling
      <4> QED BY <2>f, <3>1, <4>1, <4>3
    <3>4. CASE lcCtype = "C"
      <4>1. once' = once /\ pc'[t] = "ladder" BY <2>7, <2>p, <3>4 DEF Recheck
      <4>2. ~meddled => Knows(t)' BY <2>0, <3>1, <3>2, <3>4, <4>1 DEF Knows
      <4> QED BY <2>e, <3>1, <4>1, <4>2
    <3> QED BY <3>3, <3>4
  <2>8. CASE TryCandidate(t)
    <3>1. /\ UNCHANGED <<written, chosen>> /\ pc[t] = "ladder" /\ rung \in Ladder
          /\ \A u \in Threads \ {t} : pc'[u] = pc[u]
      BY <2>8, <2>p DEF TryCandidate, history
    <3>2. ~meddled => /\ chosen = "C" /\ lcCtype = "C" /\ env \in {"C", "missing"}
                      /\ \A i \in Ladder : i < rung => i \notin installed
      BY <2>d, <3>1 DEF Knows
    <3>3. CASE rung \in installed
      <4>1. lcCtype' = "utf8" /\ once' = "done" /\ pc'[t] = "batch"
        BY <2>8, <2>p, <3>3 DEF TryCandidate
      <4>2. ~meddled => lcCtype' = Settling BY <3>2, <3>3, <4>1 DEF Settling
      <4> QED BY <2>f, <3>1, <4>1, <4>2
    <3>4. CASE rung \notin installed
      <4>1. rung' = rung + 1 /\ UNCHANGED <<lcCtype, once, pc>>
        BY <2>8, <3>4 DEF TryCandidate
      <4>2. ~meddled => \A i \in Ladder : i < rung' => i \notin installed
        BY <3>1, <3>2, <3>4, <4>1
      <4>3. ~meddled => Knows(t)' BY <2>0, <3>1, <3>2, <4>1, <4>2 DEF Knows
      <4> QED BY <2>e, <3>1, <4>1, <4>3
    <3> QED BY <3>3, <3>4
  <2>9. CASE GiveUp(t)
    <3>1. /\ UNCHANGED <<written, chosen, lcCtype>> /\ pc[t] = "ladder"
          /\ \A u \in Threads \ {t} : pc'[u] = pc[u]
          /\ once' = "done" /\ pc'[t] = "batch"
      BY <2>9, <2>p DEF GiveUp, history
    <3>2. ~meddled => /\ chosen = "C" /\ lcCtype = "C" /\ env \in {"C", "missing"}
                      /\ \A i \in Ladder : i < rung => i \notin installed
      BY <2>d, <3>1 DEF Knows
    <3>3. rung = 5 BY <2>9 DEF GiveUp, TypeOK
    <3>4. ~meddled => installed = {} BY <3>2, <3>3, BoundType DEF TypeOK
    <3>5. ~meddled => lcCtype = Settling BY <3>2, <3>4 DEF Settling
    <3> QED BY <2>f, <3>1, <3>5
  <2>10. CASE BeginName(t) BY <2>10, <2>c, <2>p DEF BeginName, history
  <2>11. CASE EndName(t)
    <3>1. UNCHANGED <<lcCtype, once, rung, chosen>> BY <2>11 DEF EndName
    <3>2. written' = written \cup {Encoding(lcCtype)} BY <2>11 DEF EndName
    <3>3. \A u \in Threads : pc'[u] \in Within => pc'[u] = pc[u]
      BY <2>11, <2>p DEF EndName
    <3>4. pc[t] = "convert" BY <2>11 DEF EndName
    <3>5. Initialises => once = "done"
      BY <3>4 DEF CellInv
    <3>6. StepInv' BY <2>0, <3>1, <3>3 DEF NamesInv, StepInv, Knows
    <3>7. TableInv' BY <2>0, <2>a, <3>1, <3>5 DEF NamesInv, TableInv
    <3>8. NamesFollowTable'
      <4>1. CASE AlwaysUtf8 \/ target = "windows" \/ (Initialises /\ ~meddled)
        <5>1. Encoding(lcCtype) = Encoding(Settling)
          <6>1. CASE AlwaysUtf8 BY <6>1 DEF Encoding, AlwaysUtf8
          <6>2. CASE target = "windows" BY <6>2 DEF Encoding, AlwaysUtf8
          <6>3. CASE Initialises /\ ~meddled BY <3>5, <6>3 DEF NamesInv, TableInv
          <6> QED BY <4>1, <6>1, <6>2, <6>3
        <5>2. written \subseteq {Encoding(Settling)}
          BY <4>1 DEF NamesInv, NamesFollowTable
        <5>3. written' \subseteq {Encoding(Settling)'} BY <2>a, <3>1, <3>2, <5>1, <5>2
        <5> QED BY <5>3 DEF NamesFollowTable
      <4>2. CASE ~(AlwaysUtf8 \/ target = "windows" \/ (Initialises /\ ~meddled))
        BY <2>0, <4>2 DEF NamesFollowTable
      <4> QED BY <4>1, <4>2
    <3> QED BY <3>6, <3>7, <3>8 DEF NamesInv
  <2> QED BY <2>1, <2>2, <2>3, <2>4, <2>5, <2>6, <2>7, <2>8, <2>9, <2>10, <2>11
          DEF ThreadStep
<1>2. ASSUME NEW l \in Locales, HostSets(l) PROVE NamesInv'
  <2>1. /\ UNCHANGED <<target, utf8, setlocale, env, installed, once, rung, pc>>
        /\ UNCHANGED <<chosen, written>>
        /\ meddled' = (meddled \/ once # "new")
    BY <1>2 DEF HostSets, build
  <2>2. Settling' = Settling BY <2>1 DEF Settling
  <2>3. Initialises' = Initialises /\ AlwaysUtf8' = AlwaysUtf8
    BY <2>1 DEF Initialises, AlwaysUtf8
  <2>4. Encoding(Settling)' = Encoding(Settling) BY <2>1, <2>2, <2>3 DEF Encoding
  <2>5. ~meddled' => ~meddled /\ once = "new" BY <2>1
  <2>6. StepInv'
    <3> SUFFICES ASSUME ~meddled', NEW u \in Threads PROVE pc'[u] \notin Within
      BY DEF StepInv, Knows
    <3> QED BY <2>1, <2>5, NotAThread DEF CellInv
  <2>7. TableInv' BY <2>1, <2>3, <2>5 DEF NamesInv, TableInv
  <2>8. NamesFollowTable' BY <2>1, <2>3, <2>4, <2>5 DEF NamesInv, NamesFollowTable
  <2> QED BY <2>6, <2>7, <2>8 DEF NamesInv
<1>3. CASE UNCHANGED vars
  <2>1. Settling' = Settling /\ Initialises' = Initialises /\ AlwaysUtf8' = AlwaysUtf8
    BY <1>3 DEF vars, build, history, Settling, Initialises, AlwaysUtf8
  <2>2. Encoding(Settling)' = Encoding(Settling)
    BY <1>3, <2>1 DEF vars, build, Encoding
  <2>3. StepInv' BY <1>3 DEF vars, build, history, NamesInv, StepInv, Knows
  <2>4. TableInv' BY <1>3, <2>1 DEF vars, history, NamesInv, TableInv
  <2>5. NamesFollowTable'
    BY <1>3, <2>1, <2>2 DEF vars, build, history, NamesInv, NamesFollowTable
  <2> QED BY <2>3, <2>4, <2>5 DEF NamesInv
<1> QED BY <1>1, <1>2, <1>3, NextCases

(* In every build in which names do not depend on the locale, or in which  *)
(* the host leaves it alone once init has begun, all names are written in  *)
(* the one encoding the table of lib.rs gives for the environment.         *)
THEOREM NamesAsSettling == Spec => []NamesFollowTable
<1>1. Init => CellInv BY NotAThread DEF Init, CellInv, Within, Before
<1>2. Init => NamesInv
  BY DEF Init, NamesInv, StepInv, Knows, TableInv, NamesFollowTable
<1>3. NamesInv => NamesFollowTable BY DEF NamesInv
<1> QED BY <1>1, <1>2, <1>3, CellStep, NamesStep, TypeCorrect, PTL DEF Spec

(* The library changes LC_CTYPE only in the build that asks for it, and    *)
(* never replaces a locale the host had chosen before the first batch.     *)
THEOREM HostKept == Spec => HostLocaleKept
<1> DEFINE Kept ==
      lcCtype' # lcCtype /\ hostCalls' = hostCalls =>
        Initialises /\ (lcCtype = "C" \/ meddled)
<1>1. Init => CellInv BY NotAThread DEF Init, CellInv, Within, Before
<1>2. Init => NamesInv
  BY DEF Init, NamesInv, StepInv, Knows, TableInv, NamesFollowTable
<1>3. ASSUME TypeOK, CellInv, NamesInv, [Next]_vars PROVE Kept
  <2>1. ASSUME NEW t \in Threads, ThreadStep(t) PROVE Kept
    <3>1. lcCtype' # lcCtype => pc[t] \in {"environ", "ladder"}
      BY <2>1 DEF ThreadStep, Open, ExtractAll, RunInit, PassInit, Query, Environ,
         Recheck, TryCandidate, GiveUp, BeginName, EndName
    <3>2. pc[t] \in {"environ", "ladder"} => Initialises BY <1>3 DEF CellInv, Within
    <3>3. pc[t] \in {"environ", "ladder"} => lcCtype = "C" \/ meddled
      BY <1>3 DEF NamesInv, StepInv, Knows
    <3> QED BY <3>1, <3>2, <3>3
  <2>2. ASSUME NEW l \in Locales, HostSets(l) PROVE Kept
    BY <1>3, <2>2 DEF HostSets, TypeOK
  <2>3. CASE UNCHANGED vars BY <2>3 DEF vars
  <2> QED BY <1>3, <2>1, <2>2, <2>3, NextCases
<1> QED BY <1>1, <1>2, <1>3, CellStep, NamesStep, TypeCorrect, PTL DEF Spec, HostLocaleKept
=============================================================================
