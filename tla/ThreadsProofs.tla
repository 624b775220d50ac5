------------------------------ MODULE ThreadsProofs ------------------------------
(***************************************************************************)
(* Proofs about module NotifyThreads, for every set of phones and whether  *)
(* or not the system may suspend.                                          *)
(***************************************************************************)
EXTENDS NotifyThreads, SequenceTheorems, TLAPS

Full == <<"Pipe", "Server", "App">>
Short == <<"Server", "App">>
Calls == {<<>>, <<"App">>, Short, Full}

-----------------------------------------------------------------------------
(* What the properties rest on.                                            *)

Inside(t) == pc[t] \in {"snapshot", "notify", "unlock"}

(* The mutex is held exactly by a thread inside an operation.              *)
MutexHeld == \A t \in Thread : mutex = t <=> Inside(t)

(* The pipe's listener is in the list from its creation to its detaching.  *)
ListFollowsPipe ==
    /\ list = IF pipe /\ pc["io"] # "destroy" THEN Full ELSE Short
    /\ pc["io"] \in {"destroy", "greet"} => pipe
    /\ pc["io"] = "create" => ~pipe

NothingLeftToCall == \A t \in Thread : pc[t] # "notify" => todo[t] = <<>>

(* Only between its change and the snapshot does clients_ differ from      *)
(* clientInfos_, and until it has been called a listener from clients_.    *)
SnapshotTaken == infos = clients \/ \E t \in Thread : pc[t] = "snapshot"

Told(l, before) ==
    \/ view[l] = clients
    \/ \E t \in Thread : pc[t] = "snapshot"
    \/ \E t \in Thread : pc[t] = "notify" /\ todo[t] \in before

AllTold == Told("App", {<<"App">>, Short, Full}) /\ Told("Server", {Short, Full})

(* Without suspend the window's thread stays out of the registry, and a    *)
(* pipe is told everything from its greeting on.                           *)
PipeTold ==
    ~suspends =>
        /\ pc["ui"] \in {"pump", "peak"}
        /\ pc["io"] = "greet" => greeting = clients
        /\ pipe => \/ view["Pipe"] = clients
                   \/ pc["io"] \in {"snapshot", "destroy", "greet"}
                   \/ pc["io"] = "notify" /\ todo["io"] = Full

IInv ==
    /\ TypeOK
    /\ MutexHeld
    /\ ListFollowsPipe
    /\ NothingLeftToCall
    /\ SnapshotTaken
    /\ AllTold
    /\ PipeTold

LEMMA Lists ==
    /\ Tail(Full) = Short /\ Head(Full) = "Pipe"
    /\ Tail(Short) = <<"App">> /\ Head(Short) = "Server"
    /\ Tail(<<"App">>) = <<>> /\ Head(<<"App">>) = "App"
    /\ <<"Pipe">> \o Short = Full
    /\ Full # Short /\ Full # <<>> /\ Short # <<>> /\ <<"App">> # <<>>
    /\ <<"App">> # Short /\ <<"App">> # Full
<1>1. /\ Tail(Full) = Short /\ Head(Full) = "Pipe"
      /\ Tail(Short) = <<"App">> /\ Head(Short) = "Server"
      /\ Tail(<<"App">>) = <<>> /\ Head(<<"App">>) = "App"
  BY DEF Full, Short
<1>2. <<"Pipe">> \o Short = Full
  <2>1. <<"Pipe">> \in Seq(Listener) /\ Short \in Seq(Listener) /\ Full \in Seq(Listener)
    BY DEF Full, Short, Listener
  <2>2. Len(<<"Pipe">>) = 1 /\ Len(Short) = 2 /\ Len(Full) = 3
    BY DEF Full, Short
  <2>3. /\ <<"Pipe">> \o Short \in Seq(Listener)
        /\ Len(<<"Pipe">> \o Short) = 3
        /\ \A i \in 1..3 : (<<"Pipe">> \o Short)[i] = IF i <= 1 THEN <<"Pipe">>[i] ELSE Short[i - 1]
    <3>1. /\ <<"Pipe">> \o Short \in Seq(Listener)
          /\ Len(<<"Pipe">> \o Short) = Len(<<"Pipe">>) + Len(Short)
          /\ \A i \in 1 .. Len(<<"Pipe">>) + Len(Short) :
               (<<"Pipe">> \o Short)[i] =
                  IF i <= Len(<<"Pipe">>) THEN <<"Pipe">>[i] ELSE Short[i - Len(<<"Pipe">>)]
      BY <2>1, ConcatProperties, Zenon
    <3> QED
      BY <2>2, <3>1
  <2>4. \A i \in 1..3 : (<<"Pipe">> \o Short)[i] = Full[i]
    BY <2>3 DEF Full, Short
  <2> QED
    BY <2>1, <2>2, <2>3, <2>4, SeqEqual
<1>3. Len(Full) = 3 /\ Len(Short) = 2 /\ Len(<<"App">>) = 1 /\ Len(<<>>) = 0
  BY DEF Full, Short
<1> QED
  BY <1>1, <1>2, <1>3

LEMMA WithoutPipe ==
    ASSUME NEW i \in 1..Len(Full), Full[i] = "Pipe"
    PROVE  SubSeq(Full, 1, i - 1) \o SubSeq(Full, i + 1, Len(Full)) = Short
<1>1. Len(Full) = 3 /\ i = 1
  BY DEF Full
<1>2. SubSeq(Full, 1, 0) = <<>> /\ SubSeq(Full, 2, 3) = Short
  <2>1. Full \in Seq(Listener) /\ Short \in Seq(Listener) /\ Len(Short) = 2
    BY DEF Full, Short, Listener
  <2>2. SubSeq(Full, 1, 0) = <<>>
    BY <1>1, <2>1, SubSeqEmpty
  <2>3. /\ SubSeq(Full, 2, 3) \in Seq(Listener)
        /\ Len(SubSeq(Full, 2, 3)) = 2
        /\ \A j \in 1..2 : SubSeq(Full, 2, 3)[j] = Full[j + 1]
    <3>1. \A j \in 2..3 : Full[j] \in Listener
      BY DEF Full, Listener
    <3> QED
      BY <3>1, SubSeqProperties
  <2>4. \A j \in 1..2 : SubSeq(Full, 2, 3)[j] = Short[j]
    BY <2>3 DEF Full, Short
  <2> QED
    BY <2>1, <2>2, <2>3, <2>4, SeqEqual
<1>3. <<>> \o Short = Short
  BY DEF Short
<1> QED
  BY <1>1, <1>2, <1>3

-----------------------------------------------------------------------------
LEMMA InitOK == Init => IInv
<1> SUFFICES ASSUME Init PROVE IInv
  OBVIOUS
<1>1. TypeOK
  BY ThreadsAssumption DEF Init, TypeOK, Rest, Thread, IoLabel, UiLabel
<1>2. MutexHeld
  BY ThreadsAssumption DEF Init, MutexHeld, Inside, Rest, Thread
<1>3. ListFollowsPipe /\ NothingLeftToCall /\ SnapshotTaken
  BY DEF Init, ListFollowsPipe, NothingLeftToCall, SnapshotTaken, Rest, Thread, Short
<1>4. AllTold /\ PipeTold
  BY DEF Init, AllTold, Told, PipeTold, Rest, Thread, Listener
<1> QED
  BY <1>1, <1>2, <1>3, <1>4 DEF IInv

(* A thread takes the mutex and changes the registry.                      *)
LEMMA LockKeeps ==
    ASSUME IInv, NEW t \in Thread, Lock(t)
    PROVE  IInv'
<1> USE DEF IInv, Thread
<1>1. clients' \subseteq Address
  BY DEF Lock, TypeOK
<1>2. \A u \in Thread : ~Inside(u)
  BY ThreadsAssumption DEF Lock, MutexHeld
<1>3. /\ pc' = [pc EXCEPT ![t] = IF clients' = clients THEN "unlock" ELSE "snapshot"]
      /\ pc'[t] = IF clients' = clients THEN "unlock" ELSE "snapshot"
      /\ \A u \in Thread : u # t => pc'[u] = pc[u]
      /\ pc[t] = "lock" /\ mutex' = t
  BY DEF Lock, Goto, TypeOK
<1>4. TypeOK'
  BY <1>1, <1>3 DEF Lock, TypeOK, IoLabel, UiLabel
<1>5. MutexHeld'
  BY <1>2, <1>3 DEF MutexHeld, Inside
<1>6. ListFollowsPipe' /\ NothingLeftToCall'
  BY <1>3 DEF Lock, ListFollowsPipe, NothingLeftToCall
<1>7. SnapshotTaken'
  BY <1>2, <1>3 DEF Lock, SnapshotTaken, Inside
<1>8. AllTold'
  BY <1>2, <1>3 DEF Lock, AllTold, Told, Inside
<1>9. PipeTold'
  BY <1>2, <1>3 DEF Lock, PipeTold, Inside
<1> QED
  BY <1>4, <1>5, <1>6, <1>7, <1>8, <1>9

(* The other thread is not inside while this one is.                       *)
LEMMA OneInside ==
    ASSUME IInv, NEW t \in Thread, Inside(t), NEW u \in Thread, u # t
    PROVE  ~Inside(u)
BY DEF IInv, MutexHeld

LEMMA UpdateInfosKeeps ==
    ASSUME IInv, NEW t \in Thread, UpdateInfos(t)
    PROVE  IInv'
<1> USE DEF IInv, Thread
<1>1. /\ pc'[t] = "notify" /\ pc[t] = "snapshot"
      /\ pc' \in [Thread -> IoLabel \cup UiLabel]
      /\ \A u \in Thread : u # t => pc'[u] = pc[u]
  BY DEF UpdateInfos, Goto, TypeOK, IoLabel, UiLabel
<1>2. /\ todo'[t] = list
      /\ todo' \in [Thread -> Calls]
      /\ \A u \in Thread : u # t => todo'[u] = todo[u]
  BY DEF UpdateInfos, TypeOK, Calls, Full, Short
<1>3. \A u \in Thread : u # t => pc[u] \notin {"snapshot", "notify"}
  BY <1>1, OneInside DEF Inside
<1>4. TypeOK'
  BY <1>1, <1>2 DEF UpdateInfos, TypeOK, IoLabel, UiLabel, Calls, Full, Short
<1>5. MutexHeld'
  BY <1>1 DEF UpdateInfos, MutexHeld, Inside
<1>6. ListFollowsPipe' /\ NothingLeftToCall' /\ SnapshotTaken'
  BY <1>1, <1>2 DEF UpdateInfos, ListFollowsPipe, NothingLeftToCall, SnapshotTaken
<1>7. AllTold'
  BY <1>1, <1>2 DEF UpdateInfos, AllTold, Told, ListFollowsPipe
<1>8. PipeTold'
  BY <1>1, <1>2 DEF UpdateInfos, PipeTold, ListFollowsPipe
<1> QED
  BY <1>4, <1>5, <1>6, <1>7, <1>8

LEMMA NotifyKeeps ==
    ASSUME IInv, NEW t \in Thread, Notify(t)
    PROVE  IInv'
<1> USE DEF IInv, Thread
<1>1. pc' = pc /\ pc[t] = "notify" /\ todo[t] \in {<<"App">>, Short, Full}
  BY DEF Notify, TypeOK, Full, Short
<1>2. /\ todo'[t] = Tail(todo[t])
      /\ \A u \in Thread : u # t => todo'[u] = todo[u]
      /\ todo' \in [Thread -> Calls]
  BY <1>1, Lists DEF Notify, TypeOK, Calls, Full, Short
<1>3. /\ view' = [view EXCEPT ![Head(todo[t])] = infos]
      /\ Head(todo[t]) \in Listener
      /\ view' \in [Listener -> SUBSET Address]
  BY <1>1, Lists DEF Notify, TypeOK, Listener
<1>4. infos = clients /\ \A u \in Thread : u # t => pc[u] \notin {"snapshot", "notify"}
  BY <1>1, OneInside DEF SnapshotTaken, Inside
<1>5. TypeOK'
  BY <1>1, <1>2, <1>3 DEF Notify, TypeOK, Calls, Full, Short
<1>6. MutexHeld' /\ ListFollowsPipe' /\ NothingLeftToCall' /\ SnapshotTaken'
  BY <1>1, <1>2 DEF Notify, MutexHeld, Inside, ListFollowsPipe, NothingLeftToCall, SnapshotTaken
<1>7. CASE todo[t] = Full
  <2>1. todo'[t] = Short /\ \A l \in {"App", "Server"} : view'[l] = view[l]
    BY <1>2, <1>3, <1>7, Lists DEF TypeOK, Listener
  <2>2. view'["Pipe"] = infos
    BY <1>3, <1>7, Lists DEF TypeOK, Listener
  <2>3. AllTold'
    BY <1>1, <2>1 DEF AllTold, Told
  <2>4. PipeTold'
    BY <1>1, <1>4, <2>2 DEF Notify, PipeTold
  <2> QED
    BY <1>5, <1>6, <2>3, <2>4
<1>8. CASE todo[t] = Short
  <2>1. /\ todo'[t] = <<"App">> /\ view'["Server"] = infos
        /\ \A l \in {"App", "Pipe"} : view'[l] = view[l]
    BY <1>2, <1>3, <1>8, Lists DEF TypeOK, Listener
  <2>2. AllTold'
    BY <1>1, <1>4, <2>1 DEF Notify, AllTold, Told
  <2>3. PipeTold'
    BY <1>1, <1>8, <2>1, Lists DEF Notify, PipeTold
  <2> QED
    BY <1>5, <1>6, <2>2, <2>3
<1>9. CASE todo[t] = <<"App">>
  <2>1. /\ todo'[t] = <<>> /\ view'["App"] = infos
        /\ \A l \in {"Server", "Pipe"} : view'[l] = view[l]
    BY <1>2, <1>3, <1>9, Lists DEF TypeOK, Listener
  <2>2. AllTold'
    BY <1>1, <1>4, <1>9, <2>1, Lists DEF Notify, AllTold, Told
  <2>3. PipeTold'
    BY <1>1, <1>9, <2>1, Lists DEF Notify, PipeTold
  <2> QED
    BY <1>5, <1>6, <2>2, <2>3
<1> QED
  BY <1>1, <1>7, <1>8, <1>9

LEMMA UnlockKeeps ==
    ASSUME IInv, NEW t \in Thread, Unlock(t)
    PROVE  IInv'
<1> USE DEF IInv, Thread
<1>1. /\ Inside(t) /\ todo[t] = <<>>
      /\ pc'[t] = Rest(t)
      /\ pc' \in [Thread -> IoLabel \cup UiLabel]
      /\ \A u \in Thread : u # t => pc'[u] = pc[u]
  BY DEF Unlock, Goto, Rest, TypeOK, IoLabel, UiLabel, Inside, NothingLeftToCall
<1>2. \A u \in Thread : u # t => ~Inside(u)
  BY <1>1, OneInside
<1>3. pc[t] # "snapshot" /\ infos = clients
  BY <1>2 DEF Unlock, SnapshotTaken, Inside
<1>4. TypeOK'
  BY <1>1 DEF Unlock, TypeOK, IoLabel, UiLabel, Rest
<1>5. MutexHeld'
  BY <1>1, <1>2, ThreadsAssumption DEF Unlock, MutexHeld, Inside, Rest
<1>6. ListFollowsPipe' /\ NothingLeftToCall' /\ SnapshotTaken'
  BY <1>1, <1>3 DEF Unlock, ListFollowsPipe, NothingLeftToCall, SnapshotTaken, Rest, Inside
<1>7. AllTold'
  <2>1. view["App"] = clients /\ view["Server"] = clients
    BY <1>1, <1>2, <1>3, Lists DEF AllTold, Told, Inside
  <2> QED
    BY <2>1 DEF Unlock, AllTold, Told
<1>8. PipeTold'
  BY <1>1, <1>3, Lists DEF Unlock, PipeTold, Rest, Inside
<1> QED
  BY <1>4, <1>5, <1>6, <1>7, <1>8

-----------------------------------------------------------------------------
(* Steps that change only what a thread is doing, from one label outside   *)
(* the registry to another.                                                *)
LEMMA OutsideKeeps ==
    ASSUME IInv, NEW t \in Thread, NEW label, Goto(t, label),
           label \in IF t = "io" THEN {"idle", "lock", "send", "create"} ELSE {"pump", "lock", "peak"},
           pc[t] \in IF t = "io" THEN {"idle", "send", "create"} ELSE {"pump", "peak"},
           label = "create" => ~pipe,
           label = "lock" /\ t = "ui" => suspends,
           UNCHANGED <<suspends, mutex, clients, infos, list, todo, view, pipe, greeting>>
    PROVE  IInv'
<1> USE DEF IInv, Thread
<1>1. /\ pc'[t] = label /\ ~Inside(t) /\ ~Inside(t)'
      /\ pc' \in [Thread -> IoLabel \cup UiLabel]
      /\ \A u \in Thread : u # t => pc'[u] = pc[u]
  BY DEF Goto, TypeOK, IoLabel, UiLabel, Inside
<1>2. TypeOK'
  BY <1>1 DEF TypeOK, IoLabel, UiLabel
<1>3. MutexHeld' /\ NothingLeftToCall' /\ SnapshotTaken'
  BY <1>1 DEF MutexHeld, Inside, NothingLeftToCall, SnapshotTaken
<1>4. ListFollowsPipe'
  BY <1>1 DEF ListFollowsPipe
<1>5. AllTold'
  BY <1>1 DEF AllTold, Told, Inside
<1>6. PipeTold'
  BY <1>1 DEF PipeTold, ListFollowsPipe
<1> QED
  BY <1>2, <1>3, <1>4, <1>5, <1>6

(* The steps of a change of device.                                        *)
LEMMA DeviceKeeps ==
    ASSUME IInv, NEW label \in IoLabel, Goto("io", label),
           ~Inside("io"), label \notin {"snapshot", "notify", "unlock"},
           UNCHANGED <<suspends, mutex, clients, infos, todo, view["App"], view["Server"]>>,
           view' \in [Listener -> SUBSET Address], pipe' \in BOOLEAN, greeting' \subseteq Address,
           list' = IF pipe' /\ label # "destroy" THEN Full ELSE Short,
           label \in {"destroy", "greet"} => pipe',
           label = "create" => ~pipe',
           ~suspends /\ label = "greet" => greeting' = clients,
           ~suspends /\ pipe' => view'["Pipe"] = clients \/ label \in {"destroy", "greet"}
    PROVE  IInv'
<1> USE DEF IInv, Thread
<1>1. /\ pc'["io"] = label /\ pc'["ui"] = pc["ui"]
      /\ pc' \in [Thread -> IoLabel \cup UiLabel]
  BY DEF Goto, TypeOK
<1>2. TypeOK'
  BY <1>1 DEF TypeOK, Full, Short
<1>3. MutexHeld' /\ NothingLeftToCall' /\ SnapshotTaken'
  BY <1>1 DEF MutexHeld, Inside, NothingLeftToCall, SnapshotTaken
<1>4. ListFollowsPipe'
  BY <1>1 DEF ListFollowsPipe
<1>5. AllTold'
  BY <1>1 DEF AllTold, Told, Inside
<1>6. PipeTold'
  BY <1>1 DEF PipeTold
<1> QED
  BY <1>2, <1>3, <1>4, <1>5, <1>6

LEMMA StopCaptureDetachKeeps ==
    ASSUME IInv, StopCaptureDetach
    PROVE  IInv'
<1>1. list' = Short
  BY WithoutPipe DEF StopCaptureDetach, IInv, ListFollowsPipe
<1> QED
  BY <1>1, DeviceKeeps DEF StopCaptureDetach, IInv, TypeOK, IoLabel, Inside

LEMMA StopCaptureDestroyKeeps ==
    ASSUME IInv, StopCaptureDestroy
    PROVE  IInv'
<1>1. list' = Short
  BY DEF StopCaptureDestroy, IInv, ListFollowsPipe
<1>2. \E label \in {"create", "idle"} : Goto("io", label)
  BY DEF StopCaptureDestroy, Goto
<1> QED
  BY <1>1, <1>2, DeviceKeeps DEF StopCaptureDestroy, IInv, TypeOK, IoLabel, Inside

LEMMA AddListenerKeeps ==
    ASSUME IInv, AddListener
    PROVE  IInv'
<1>1. list' = Full
  BY Lists DEF AddListener, IInv, ListFollowsPipe
<1>2. /\ view' \in [Listener -> SUBSET Address]
      /\ UNCHANGED <<view["App"], view["Server"]>>
  BY DEF AddListener, IInv, TypeOK, Listener
<1>3. ~suspends => greeting' = clients
  BY DEF AddListener, IInv, SnapshotTaken, PipeTold, Thread
<1> QED
  BY <1>1, <1>2, <1>3, DeviceKeeps DEF AddListener, IInv, TypeOK, IoLabel, Inside

LEMMA GreetKeeps ==
    ASSUME IInv, Greet
    PROVE  IInv'
<1>1. list' = Full /\ pipe
  BY DEF Greet, IInv, ListFollowsPipe
<1>2. /\ view' \in [Listener -> SUBSET Address]
      /\ UNCHANGED <<view["App"], view["Server"]>>
      /\ view'["Pipe"] = greeting
  BY DEF Greet, IInv, TypeOK, Listener
<1>3. ~suspends => view'["Pipe"] = clients
  BY <1>2 DEF Greet, IInv, PipeTold
<1> QED
  BY <1>1, <1>2, <1>3, DeviceKeeps DEF Greet, IInv, TypeOK, IoLabel, Inside

LEMMA StepOK == IInv /\ [Next]_vars => IInv'
<1> SUFFICES ASSUME IInv, [Next]_vars PROVE IInv'
  OBVIOUS
<1> USE DEF Thread
<1>1. ASSUME NEW t \in Thread, Operation(t) PROVE IInv'
  BY <1>1, LockKeeps, UpdateInfosKeeps, NotifyKeeps, UnlockKeeps DEF Operation
<1>2. CASE Handler \/ Send \/ SendDone
  BY <1>2, OutsideKeeps DEF Handler, Send, SendDone
<1>3. CASE ChangeDevice \/ CreateFails
  BY <1>3, OutsideKeeps DEF ChangeDevice, CreateFails, IInv, TypeOK
<1>4. CASE StopCaptureDetach
  BY <1>4, StopCaptureDetachKeeps
<1>5. CASE StopCaptureDestroy \/ AddListener \/ Greet
  BY <1>5, StopCaptureDestroyKeeps, AddListenerKeeps, GreetKeeps
<1>6. CASE Suspend \/ PeakMeter \/ PeakMeterDone
  BY <1>6, OutsideKeeps DEF Suspend, PeakMeter, PeakMeterDone
<1>7. CASE UNCHANGED vars
  BY <1>7 DEF vars, IInv, TypeOK, MutexHeld, Inside, ListFollowsPipe, NothingLeftToCall,
     SnapshotTaken, AllTold, Told, PipeTold
<1> QED
  BY <1>1, <1>2, <1>3, <1>4, <1>5, <1>6, <1>7 DEF Next, IoDevice

LEMMA Invariant == Spec => []IInv
<1>1. IInv /\ [Next]_vars => IInv'
  BY StepOK
<1> QED
  BY InitOK, <1>1, PTL DEF Spec

-----------------------------------------------------------------------------
(* The type of the state of NotifyThreads, for all constants: the list of  *)
(* listeners never holds one twice.                                        *)
THEOREM TypeCorrect == Spec => []TypeOK
<1>1. IInv => TypeOK
  BY DEF IInv
<1> QED
  BY Invariant, <1>1, PTL

(* Clients::updateAndNotify under clientsMutex_: with the mutex free, the  *)
(* window's list and the sender's cache are what the registry holds, and   *)
(* without suspend so are the encoders of the pipe.                        *)
THEOREM LastCallAlwaysWins == Spec => []LastCallWins
<1>1. IInv => LastCallWins
  <2> SUFFICES ASSUME IInv, mutex = Nobody
               PROVE  /\ view["Server"] = clients /\ view["App"] = clients
                      /\ ~suspends /\ pc["io"] = "idle" /\ pipe => view["Pipe"] = clients
    BY DEF LastCallWins
  <2>1. \A t \in Thread : ~Inside(t)
    BY ThreadsAssumption DEF IInv, MutexHeld, Thread
  <2>2. view["Server"] = clients /\ view["App"] = clients
    BY <2>1 DEF IInv, AllTold, Told, Inside
  <2>3. ~suspends /\ pc["io"] = "idle" /\ pipe => view["Pipe"] = clients
    BY DEF IInv, PipeTold
  <2> QED
    BY <2>2, <2>3
<1> QED
  BY Invariant, <1>1, PTL

=============================================================================
