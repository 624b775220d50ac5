------------------------------ MODULE UpdateProofs ------------------------------
(***************************************************************************)
(* Proofs about module UpdateChecker, for any number of threads, any       *)
(* installed version, any releases and any interval.                       *)
(***************************************************************************)
EXTENDS UpdateChecker, FiniteSetTheorems, TLAPS

-----------------------------------------------------------------------------
(* What the invariants rest on: the mutex is held by the thread that       *)
(* checks, nothing of a process is left when it has ended, and as long as  *)
(* nobody has asked all threads are quiet and all results worth telling.   *)

MutexHeld == \A w \in Worker : worker[w].pc = "check" <=> checkMutex = w

NothingLeft == ~running => messages = <<>> /\ \A w \in Worker : worker[w] = None

QuietUnlessAsked ==
    ~asked =>
        /\ \A w \in Worker : worker[w].pc # "none" => worker[w].quiet
        /\ \A i \in 1..Len(messages) : messages[i] = "FOUND"

IInv == TypeOK /\ MutexHeld /\ NothingLeft /\ QuietUnlessAsked /\ UnaskedOnlyFound

Doing == [quiet : BOOLEAN, pc : {"none", "start", "check"}]

(* The part of the constants' assumptions that the type needs.             *)
LEMMA ConstantFacts == Interval \in Nat /\ Nobody \notin Worker
BY UpdateAssumption

LEMMA NoneFacts ==
    /\ None.pc = "none" /\ ~None.quiet
    /\ None \in Doing
BY DEF None, Doing

LEMMA InitOK == Init => IInv
<1> SUFFICES ASSUME Init PROVE IInv
  OBVIOUS
<1>1. TypeOK
  <2>1. worker \in [Worker -> Doing]
    BY NoneFacts DEF Init
  <2>2. lastUpdateCheck \in 0 .. now /\ now \in Nat
    BY ConstantFacts DEF Init
  <2>3. messages \in Seq(Result)
    BY DEF Init
  <2> QED
    BY <2>1, <2>2, <2>3, Zenon DEF Init, TypeOK, Doing
<1>2. MutexHeld /\ NothingLeft
  BY NoneFacts, ConstantFacts DEF Init, MutexHeld, NothingLeft
<1>3. QuietUnlessAsked /\ UnaskedOnlyFound
  BY NoneFacts DEF Init, QuietUnlessAsked, UnaskedOnlyFound
<1> QED
  BY <1>1, <1>2, <1>3 DEF IInv

-----------------------------------------------------------------------------
(* Each action keeps it.                                                   *)

LEMMA TryLockKeeps ==
    ASSUME IInv, NEW w \in Worker, TryLock(w)
    PROVE  IInv'
<1> USE DEF IInv
<1>1. worker[w].pc = "start" /\ running
  BY NoneFacts DEF TryLock, NothingLeft
<1>2. TypeOK'
  <2>1. worker' \in [Worker -> Doing]
    BY NoneFacts DEF TypeOK, TryLock, Doing
  <2> QED
    BY <2>1 DEF TypeOK, TryLock, Doing
<1>3. MutexHeld'
  BY NoneFacts, ConstantFacts, <1>1 DEF TypeOK, MutexHeld, TryLock
<1>4. QuietUnlessAsked'
  <2> SUFFICES ASSUME ~asked', NEW v \in Worker, worker'[v].pc # "none" PROVE worker'[v].quiet
    BY DEF QuietUnlessAsked, TryLock
  <2>1. CASE v = w
    BY <1>1, <2>1, NoneFacts DEF TypeOK, QuietUnlessAsked, TryLock
  <2>2. CASE v # w
    BY <2>2 DEF TypeOK, QuietUnlessAsked, TryLock
  <2> QED
    BY <2>1, <2>2
<1> QED
  BY <1>1, <1>2, <1>3, <1>4 DEF NothingLeft, UnaskedOnlyFound, TryLock

LEMMA ResultsAreResults == CheckResult \subseteq Result
BY DEF CheckResult, Result

LEMMA CheckWorkerKeeps ==
    ASSUME IInv, NEW w \in Worker, CheckWorker(w)
    PROVE  IInv'
<1> USE DEF IInv
<1>1. PICK result \in Result :
        /\ ShowResult(result, worker[w].quiet)
        /\ answered' = IF worker[w].quiet /\ result # "CHECK_ERROR" THEN now ELSE answered
  BY ResultsAreResults DEF CheckWorker
<1>2. worker[w].pc = "check" /\ running
  BY NoneFacts DEF CheckWorker, NothingLeft
<1>3. /\ messages' \in Seq(Result)
      /\ messages' = messages \/ messages' = Append(messages, result)
  BY <1>1 DEF ShowResult, TypeOK
<1>4. TypeOK'
  <2>1. worker' \in [Worker -> Doing]
    BY NoneFacts DEF TypeOK, CheckWorker, Doing
  <2>2. answered' \in Nat \cup {Never}
    BY <1>1 DEF TypeOK
  <2> QED
    BY <1>3, <2>1, <2>2, Zenon DEF TypeOK, CheckWorker, Doing
<1>5. MutexHeld'
  BY NoneFacts, ConstantFacts, <1>2 DEF TypeOK, MutexHeld, CheckWorker
<1>6. NothingLeft'
  BY <1>2 DEF NothingLeft, CheckWorker
<1>7. QuietUnlessAsked'
  <2> SUFFICES ASSUME ~asked' PROVE QuietUnlessAsked'
    BY DEF QuietUnlessAsked
  <2>1. ~asked /\ worker[w].quiet
    BY <1>2 DEF CheckWorker, QuietUnlessAsked
  <2>2. \A v \in Worker : worker'[v].pc # "none" => worker'[v].quiet
    BY <2>1, NoneFacts DEF CheckWorker, QuietUnlessAsked, TypeOK
  <2>3. \A i \in 1..Len(messages') : messages'[i] = "FOUND"
    BY <1>1, <2>1 DEF QuietUnlessAsked, ShowResult, TypeOK
  <2> QED
    BY <2>2, <2>3 DEF QuietUnlessAsked
<1> QED
  BY <1>4, <1>5, <1>6, <1>7 DEF UnaskedOnlyFound, CheckWorker

LEMMA CheckUpdatesKeepsWorkers ==
    ASSUME TypeOK, MutexHeld, NEW w \in Worker, NEW quiet \in BOOLEAN, CheckUpdates(w, quiet),
           UNCHANGED checkMutex
    PROVE  /\ worker' \in [Worker -> Doing]
           /\ MutexHeld'
           /\ \A v \in Worker : v # w => worker'[v] = worker[v]
           /\ worker'[w] = [quiet |-> quiet, pc |-> "start"]
BY NoneFacts DEF TypeOK, MutexHeld, CheckUpdates, Doing

LEMMA StartKeeps ==
    ASSUME IInv, Start
    PROVE  IInv'
<1> USE DEF IInv
<1>1. messages = <<>> /\ messages' = <<>> /\ \A w \in Worker : worker[w] = None
  BY DEF Start, NothingLeft
<1>2. CASE UNCHANGED worker
  <2>1. TypeOK' /\ MutexHeld'
    BY <1>1, <1>2 DEF Start, TypeOK, MutexHeld
  <2>2. QuietUnlessAsked'
    BY <1>1, <1>2, NoneFacts DEF QuietUnlessAsked
  <2> QED
    BY <2>1, <2>2 DEF Start, NothingLeft, UnaskedOnlyFound
<1>3. CASE \E w \in Worker : CheckUpdates(w, TRUE)
  <2>1. PICK w \in Worker : CheckUpdates(w, TRUE)
    BY <1>3
  <2>2. /\ worker' \in [Worker -> Doing]
        /\ MutexHeld'
        /\ \A v \in Worker : v # w => worker'[v] = worker[v]
        /\ worker'[w] = [quiet |-> TRUE, pc |-> "start"]
    BY <2>1, CheckUpdatesKeepsWorkers DEF Start
  <2>3. TypeOK'
    BY <2>2 DEF Start, TypeOK, Doing
  <2>4. QuietUnlessAsked'
    BY <1>1, <2>2, NoneFacts DEF QuietUnlessAsked
  <2> QED
    BY <2>2, <2>3, <2>4 DEF Start, NothingLeft, UnaskedOnlyFound
<1> QED
  BY <1>2, <1>3 DEF Start

LEMMA CheckFromMenuKeeps ==
    ASSUME IInv, CheckFromMenu
    PROVE  IInv'
<1> USE DEF IInv
<1>1. PICK w \in Worker : CheckUpdates(w, FALSE)
  BY DEF CheckFromMenu
<1>2. /\ worker' \in [Worker -> Doing]
      /\ MutexHeld'
  BY <1>1, CheckUpdatesKeepsWorkers DEF CheckFromMenu
<1> QED
  BY <1>2 DEF CheckFromMenu, TypeOK, Doing, NothingLeft, QuietUnlessAsked, UnaskedOnlyFound

LEMMA OnUpdateCheckFinishKeeps ==
    ASSUME IInv, OnUpdateCheckFinish
    PROVE  IInv'
<1> USE DEF IInv
<1>1. /\ messages' \in Seq(Result) /\ shown' \in Result
      /\ Len(messages') = Len(messages) - 1
      /\ shown' = messages[1]
      /\ \A i \in 1..Len(messages') : messages'[i] = messages[i + 1]
  BY DEF OnUpdateCheckFinish, TypeOK
<1>2. TypeOK'
  BY <1>1 DEF OnUpdateCheckFinish, TypeOK
<1>3. QuietUnlessAsked' /\ UnaskedOnlyFound'
  <2>1. Len(messages) \in Nat /\ Len(messages) >= 1
    BY DEF OnUpdateCheckFinish, TypeOK
  <2> QED
    BY <1>1, <2>1 DEF OnUpdateCheckFinish, QuietUnlessAsked, UnaskedOnlyFound
<1> QED
  BY <1>2, <1>3 DEF OnUpdateCheckFinish, MutexHeld, NothingLeft

LEMMA ExitKeeps ==
    ASSUME IInv, Exit
    PROVE  IInv'
<1> USE DEF IInv, Exit
<1>1. TypeOK'
  <2>1. worker' \in [Worker -> Doing]
    BY NoneFacts
  <2>2. messages' \in Seq(Result)
    OBVIOUS
  <2> QED
    BY <2>1, <2>2, Zenon DEF TypeOK, Doing
<1>2. MutexHeld' /\ NothingLeft'
  BY NoneFacts, ConstantFacts DEF MutexHeld, NothingLeft
<1>3. QuietUnlessAsked' /\ UnaskedOnlyFound'
  BY NoneFacts DEF QuietUnlessAsked, UnaskedOnlyFound
<1> QED
  BY <1>1, <1>2, <1>3

(* The user flips the setting, a release is published, time passes.        *)
LEMMA OthersKeep ==
    ASSUME IInv, ToggleCheckOnStart \/ Clock \/ (\E tag \in Tag : Publish(tag)) \/ UNCHANGED vars
    PROVE  IInv'
<1> USE DEF IInv
<1>1. CASE ToggleCheckOnStart
  BY <1>1 DEF TypeOK, MutexHeld, NothingLeft, QuietUnlessAsked, UnaskedOnlyFound, ToggleCheckOnStart
<1>2. CASE Clock
  BY <1>2 DEF TypeOK, MutexHeld, NothingLeft, QuietUnlessAsked, UnaskedOnlyFound, Clock
<1>3. CASE \E tag \in Tag : Publish(tag)
  BY <1>3 DEF TypeOK, MutexHeld, NothingLeft, QuietUnlessAsked, UnaskedOnlyFound, Publish
<1>4. CASE UNCHANGED vars
  BY <1>4 DEF TypeOK, MutexHeld, NothingLeft, QuietUnlessAsked, UnaskedOnlyFound, vars
<1> QED
  BY <1>1, <1>2, <1>3, <1>4

LEMMA StepOK == IInv /\ [Next]_vars => IInv'
BY TryLockKeeps, CheckWorkerKeeps, StartKeeps, CheckFromMenuKeeps, OnUpdateCheckFinishKeeps,
   ExitKeeps, OthersKeep DEF Next

LEMMA Invariant == Spec => []IInv
<1>1. IInv /\ [Next]_vars => IInv'
  BY StepOK
<1> QED
  BY InitOK, <1>1, PTL DEF Spec

-----------------------------------------------------------------------------
(* The type of the state of UpdateChecker, for all constants.              *)
THEOREM TypeCorrect == Spec => []TypeOK
<1>1. IInv => TypeOK
  BY DEF IInv
<1> QED
  BY Invariant, <1>1, PTL

(* checkMutex_ and try_lock in checkWorker: one check at a time reaches    *)
(* the network, with any number of threads.                                *)
THEOREM OneCheckEverAtATime == Spec => []OneCheckAtATime
<1>1. IInv => OneCheckAtATime
  <2> SUFFICES ASSUME IInv PROVE OneCheckAtATime
    OBVIOUS
  <2>1. CASE checkMutex = Nobody
    <3>1. {w \in Worker : worker[w].pc = "check"} = {}
      BY <2>1, ConstantFacts DEF IInv, MutexHeld
    <3> QED
      BY <2>1, <3>1, FS_EmptySet DEF OneCheckAtATime
  <2>2. CASE checkMutex # Nobody
    <3>1. {w \in Worker : worker[w].pc = "check"} = {checkMutex}
      BY <2>2 DEF IInv, MutexHeld, TypeOK
    <3> QED
      BY <2>2, <3>1, FS_Singleton DEF OneCheckAtATime
  <2> QED
    BY <2>1, <2>2
<1> QED
  BY Invariant, <1>1, PTL

(* showResult and onUpdateCheckFinish: without being asked, the program    *)
(* brings up nothing but a newer release.                                  *)
THEOREM UnaskedEverOnlyFound == Spec => []UnaskedOnlyFound
<1>1. IInv => UnaskedOnlyFound
  BY DEF IInv
<1> QED
  BY Invariant, <1>1, PTL

-----------------------------------------------------------------------------
(* The comparison of versions, for numbers of any size.                    *)

Parts == {<<>>} \cup [1 .. 3 -> Nat] \cup [1 .. 4 -> Nat]

LEMMA VersionFacts ==
    /\ Installed.parts \in [1 .. 4 -> Nat] /\ Installed.suffix \in BOOLEAN
    /\ \A tag \in Tag : tag.parts \in Parts /\ tag.suffix \in BOOLEAN
    /\ MaxNumber \in Nat
BY UpdateAssumption DEF Parts

LEMMA RankFacts ==
    ASSUME NEW version, version.parts \in Parts
    PROVE  /\ Rank(version)[5] = IF version.suffix THEN 0 ELSE 1
           /\ \A i \in 1 .. 4 :
                Rank(version)[i] = IF i \in DOMAIN version.parts THEN version.parts[i] + 1 ELSE 0
           /\ \A i \in 1 .. 5 : Rank(version)[i] \in Nat
<1>1. \A i \in DOMAIN version.parts : version.parts[i] \in Nat
  BY DEF Parts
<1>2. \A i \in 1 .. 5 :
        Rank(version)[i] = IF i = 5 THEN (IF version.suffix THEN 0 ELSE 1)
                           ELSE IF i \in DOMAIN version.parts THEN version.parts[i] + 1 ELSE 0
  BY DEF Rank
<1> QED
  BY <1>1, <1>2

(* A set of places that is not empty has a first one.                      *)
LEMMA FirstPlace ==
    ASSUME NEW S \in SUBSET (1 .. 4), S # {}
    PROVE  \E i \in S : \A j \in S : i <= j
<1>1. CASE 1 \in S
  BY <1>1
<1>2. CASE 1 \notin S /\ 2 \in S
  BY <1>2
<1>3. CASE 1 \notin S /\ 2 \notin S /\ 3 \in S
  BY <1>3
<1>4. CASE 1 \notin S /\ 2 \notin S /\ 3 \notin S
  <2>1. \A i \in S : i = 4
    BY <1>4
  <2>2. PICK i \in S : TRUE
    OBVIOUS
  <2>3. \A j \in S : i <= j
    BY <2>1
  <2> QED
    BY <2>3
<1> QED
  BY <1>1, <1>2, <1>3, <1>4

LEMMA ComparedRight ==
    ASSUME NEW tag \in Tag
    PROVE  /\ isNewerVersion(Installed, tag) = 1 => Newer(tag)
           /\ isNewerVersion(Installed, tag) = 0 => ~Newer(tag)
<1> DEFINE old == Installed.parts
           new == tag.parts
           both == DOMAIN old \cap DOMAIN new
           decides == {i \in both : \/ old[i] # new[i]
                                    \/ {old[i], new[i]} \cap 0 .. MaxNumber = {}}
           first == CHOOSE i \in decides : \A j \in decides : i <= j
           answer == isNewerVersion(Installed, tag)
<1>1. /\ old \in [1 .. 4 -> Nat] /\ new \in Parts
      /\ Installed.suffix \in BOOLEAN /\ tag.suffix \in BOOLEAN
      /\ both \in {{}, 1 .. 3, 1 .. 4}
  BY VersionFacts DEF Parts
<1>7. \A i \in 1 .. 5 : Rank(tag)[i] \in Nat /\ Rank(Installed)[i] \in Nat
  BY <1>1, RankFacts DEF Parts
<1>2. answer =
        CASE both = {} -> -1
          [] decides # {} ->
                IF {old[first], new[first]} \subseteq 0 .. MaxNumber
                THEN IF old[first] < new[first] THEN 1 ELSE 0
                ELSE -1
          [] decides = {} /\ both = 1 .. 3 -> IF 4 \in DOMAIN old THEN 0 ELSE 1
          [] decides = {} /\ both = 1 .. 4 -> IF Installed.suffix /\ ~tag.suffix THEN 1 ELSE 0
  BY Zenon DEF isNewerVersion
<1>3. Newer(tag) <=>
        \E i \in 1 .. 5 :
          /\ Rank(tag)[i] > Rank(Installed)[i]
          /\ \A j \in 1 .. i - 1 : Rank(tag)[j] = Rank(Installed)[j]
  BY DEF Newer
<1>4. CASE both = {}
  <2>1. decides = {}
    BY <1>4
  <2>2. 1 \in 1 .. 3 /\ 1 \in 1 .. 4
    OBVIOUS
  <2> HIDE DEF both, decides, first, answer
  <2>3. both # 1 .. 3 /\ both # 1 .. 4
    BY <1>4, <2>2
  <2>4. answer = -1
    BY <1>2, <1>4, <2>1, <2>3
  <2> QED
    BY <2>4 DEF answer
<1>5. CASE both # {} /\ decides # {}
  <2>1. first \in decides /\ \A j \in decides : first <= j
    <3>1. \E i \in decides : \A j \in decides : i <= j
      BY <1>1, <1>5, FirstPlace
    <3> QED
      BY <3>1
  <2> HIDE DEF first
  <2>2. answer \in {0, 1} =>
          /\ {old[first], new[first]} \subseteq 0 .. MaxNumber
          /\ answer = 1 <=> old[first] < new[first]
    BY <1>2, <1>5
  <2>3. /\ first \in 1 .. 4
        /\ Rank(tag)[first] = new[first] + 1 /\ Rank(Installed)[first] = old[first] + 1
        /\ old[first] \in Nat /\ new[first] \in Nat
    <3>1. first \in DOMAIN old /\ first \in DOMAIN new /\ first \in 1 .. 4
      BY <1>1, <2>1
    <3>2. old[first] \in Nat /\ new[first] \in Nat
      BY <1>1, <3>1 DEF Parts
    <3>3. Installed.parts \in Parts /\ tag.parts \in Parts
      BY <1>1 DEF Parts
    <3>4. Rank(tag)[first] = new[first] + 1 /\ Rank(Installed)[first] = old[first] + 1
      BY <3>1, <3>3, RankFacts
    <3> QED
      BY <3>1, <3>2, <3>4
  <2>4. \A j \in 1 .. first - 1 : Rank(tag)[j] = Rank(Installed)[j]
    <3> SUFFICES ASSUME NEW j \in 1 .. first - 1 PROVE Rank(tag)[j] = Rank(Installed)[j]
      OBVIOUS
    <3>1. j \in 1 .. 4 /\ j \notin decides
      BY <2>1, <2>3
    <3>2. j \in DOMAIN old /\ j \in DOMAIN new
      BY <1>1, <2>1, <2>3, <3>1
    <3>3. old[j] = new[j]
      BY <3>1, <3>2
    <3> QED
      BY <1>1, <3>1, <3>2, <3>3, RankFacts DEF Parts
  <2>5. answer \in {0, 1} => old[first] # new[first]
    BY <2>1, <2>2
  <2>6. answer = 1 => Newer(tag)
    BY <1>3, <2>2, <2>3, <2>4
  <2>7. answer = 0 => ~Newer(tag)
    <3> SUFFICES ASSUME answer = 0,
                        NEW i \in 1 .. 5, Rank(tag)[i] > Rank(Installed)[i],
                        \A j \in 1 .. i - 1 : Rank(tag)[j] = Rank(Installed)[j]
                 PROVE  FALSE
      BY <1>3
    <3>1. Rank(Installed)[first] > Rank(tag)[first]
      BY <2>2, <2>3, <2>5
    <3>2. CASE i <= first
      <4>1. i = first \/ i \in 1 .. first - 1
        BY <2>3, <3>2
      <4> QED
        BY <1>7, <2>3, <2>4, <3>1, <4>1
    <3>3. CASE i > first
      <4>1. first \in 1 .. i - 1
        BY <2>3, <3>3
      <4> QED
        BY <1>7, <2>3, <3>1, <4>1
    <3> QED
      BY <2>3, <3>2, <3>3
  <2> QED
    BY <2>6, <2>7
<1>6. CASE both # {} /\ decides = {}
  <2>1. \A i \in both : old[i] = new[i]
    BY <1>6
  <2>2. \A i \in both : i \in 1 .. 4 /\ Rank(tag)[i] = Rank(Installed)[i]
    BY <1>1, <2>1, RankFacts DEF Parts
  <2>3. CASE both = 1 .. 3
    <3>1. both # 1 .. 4 /\ 4 \in DOMAIN old /\ 4 \notin DOMAIN new
      <4>1. 4 \notin 1 .. 3 /\ 4 \in 1 .. 4
        OBVIOUS
      <4> QED
        BY <1>1, <2>3, <4>1
    <3>2. answer = 0
      BY <1>2, <1>6, <2>3, <3>1
    <3>3. Rank(tag)[4] = 0 /\ Rank(Installed)[4] = old[4] + 1 /\ old[4] \in Nat
      <4>1. Installed.parts \in Parts /\ tag.parts \in Parts
        BY <1>1 DEF Parts
      <4> QED
        BY <1>1, <3>1, <4>1, RankFacts
    <3>4. ~Newer(tag)
      <4> SUFFICES ASSUME NEW i \in 1 .. 5, Rank(tag)[i] > Rank(Installed)[i],
                          \A j \in 1 .. i - 1 : Rank(tag)[j] = Rank(Installed)[j]
                   PROVE  FALSE
        BY <1>3
      <4>1. CASE i \in 1 .. 3
        BY <1>7, <2>2, <2>3, <4>1
      <4>2. CASE i = 4
        BY <3>3, <4>2
      <4>3. CASE i = 5
        <5>1. 4 \in 1 .. i - 1
          BY <4>3
        <5> QED
          BY <3>3, <5>1
      <4> QED
        BY <4>1, <4>2, <4>3
    <3> QED
      BY <3>2, <3>4
  <2>4. CASE both = 1 .. 4
    <3>1. both # 1 .. 3
      <4>1. 4 \notin 1 .. 3 /\ 4 \in 1 .. 4
        OBVIOUS
      <4> QED
        BY <2>4, <4>1
    <3>2. answer = IF Installed.suffix /\ ~tag.suffix THEN 1 ELSE 0
      BY <1>2, <1>6, <2>4, <3>1
    <3>3. /\ Rank(tag)[5] = IF tag.suffix THEN 0 ELSE 1
          /\ Rank(Installed)[5] = IF Installed.suffix THEN 0 ELSE 1
      <4>1. Installed.parts \in Parts /\ tag.parts \in Parts
        BY <1>1 DEF Parts
      <4> QED
        BY <4>1, RankFacts
    <3>4. answer = 1 => Newer(tag)
      <4> SUFFICES ASSUME answer = 1 PROVE Newer(tag)
        OBVIOUS
      <4>1. Rank(tag)[5] > Rank(Installed)[5]
        BY <1>1, <3>2, <3>3
      <4>2. \A j \in 1 .. 5 - 1 : Rank(tag)[j] = Rank(Installed)[j]
        BY <2>2, <2>4
      <4> QED
        BY <1>3, <4>1, <4>2
    <3>5. answer = 0 => ~Newer(tag)
      <4> SUFFICES ASSUME answer = 0, NEW i \in 1 .. 5, Rank(tag)[i] > Rank(Installed)[i]
                   PROVE  FALSE
        BY <1>3
      <4>1. CASE i \in 1 .. 4
        BY <1>7, <2>2, <2>4, <4>1
      <4>2. CASE i = 5
        BY <1>1, <3>2, <3>3, <4>2
      <4> QED
        BY <4>1, <4>2
    <3> QED
      BY <3>4, <3>5
  <2> QED
    BY <1>1, <1>6, <2>3, <2>4
<1> QED
  BY <1>4, <1>5, <1>6

(* checkWorker and Util::isNewerVersion: what is told of the latest        *)
(* release is true, for all version numbers.                               *)
THEOREM FoundEverMeansNewer == Spec => FoundMeansNewer
<1> DEFINE Told(w) ==
        worker[w].pc = "check" /\ worker'[w] = None /\ Len(messages') > Len(messages) =>
           (messages'[Len(messages')] = "FOUND" => Newer(release))
             /\ (messages'[Len(messages')] = "NOT_FOUND" => ~Newer(release))
<1>1. ASSUME IInv, [Next]_vars, NEW w \in Worker, worker[w].pc = "check",
             Len(messages') > Len(messages)
      PROVE  \E v \in Worker : CheckWorker(v)
  <2>1. Len(messages) \in Nat /\ messages \in Seq(Result)
    BY <1>1 DEF IInv, TypeOK
  <2>2. messages' # messages /\ messages' # <<>>
    BY <1>1, <2>1
  <2>3. ~OnUpdateCheckFinish
    BY <1>1, <2>1 DEF OnUpdateCheckFinish
  <2> QED
    BY <1>1, <2>2, <2>3 DEF Next, vars, TryLock, Start, CheckFromMenu, ToggleCheckOnStart, Exit,
       Publish, Clock
<1>2. ASSUME IInv, NEW v \in Worker, CheckWorker(v), Len(messages') > Len(messages)
      PROVE  /\ messages'[Len(messages')] = "FOUND" => Newer(release)
             /\ messages'[Len(messages')] = "NOT_FOUND" => ~Newer(release)
  <2>1. PICK result \in CheckResult : ShowResult(result, worker[v].quiet)
    BY <1>2 DEF CheckWorker
  <2>2. messages'[Len(messages')] = result
    <3>1. messages \in Seq(Result) /\ result \in Result
      BY <1>2, ResultsAreResults DEF IInv, TypeOK
    <3>2. messages' = Append(messages, result)
      BY <1>2, <2>1 DEF ShowResult
    <3> QED
      BY <3>1, <3>2
  <2>3. release \in Tag
    BY <1>2 DEF IInv, TypeOK
  <2>4. /\ result = "FOUND" => isNewerVersion(Installed, release) = 1
        /\ result = "NOT_FOUND" => isNewerVersion(Installed, release) = 0
    BY DEF CheckResult, getVersion, getLatestRelease, parseReleaseTag
  <2> QED
    BY <2>2, <2>3, <2>4, ComparedRight
<1>3. IInv /\ [Next]_vars => \A w \in Worker : Told(w)
  BY <1>1, <1>2
<1>4. (\A w \in Worker : Told(w)) => [\A w \in Worker : Told(w)]_vars
  OBVIOUS
<1> QED
  BY Invariant, <1>3, <1>4, PTL DEF Spec, FoundMeansNewer
=============================================================================
