----------------------------- MODULE NotifyThreads -----------------------------
(***************************************************************************)
(* The two threads of the program around the registry of phones.           *)
(*                                                                         *)
(* The io thread runs every network handler and every timer, and changes   *)
(* the capture device.  The window's thread pumps messages, reads the peak *)
(* level from the capture pipe and, when the system suspends, empties the  *)
(* registry.  An operation of the registry holds clientsMutex_ while it    *)
(* calls the listeners; the window's listener sends messages to the        *)
(* window, and SendMessage from another thread returns only after the      *)
(* window's thread has taken the message, in its message loop.  The list   *)
(* of listeners and the first call of a new listener are not under the     *)
(* mutex.                                                                  *)
(***************************************************************************)
EXTENDS Naturals, Sequences

CONSTANTS
    Address,   \* the addresses of phones
    Suspends,  \* whether the system may suspend: TRUE, FALSE, or either
    Nobody     \* no thread holds the mutex

ASSUME ThreadsAssumption ==
    /\ Suspends \subseteq BOOLEAN
    /\ Nobody \notin {"io", "ui"}

Thread == {"io", "ui"}

Listener == {"App", "Server", "Pipe"}

VARIABLES
    suspends, \* whether the system may suspend; it does not change
    mutex,    \* the thread that holds clientsMutex_, or Nobody
    clients,  \* clients_; the compressions are left out
    infos,    \* clientInfos_
    list,     \* clientsListeners_, the front first
    todo,     \* what is left of the list a thread is going through
    view,     \* what each listener was last called with
    pipe,     \* capturePipe_ exists
    greeting, \* the snapshot a new listener is about to be called with
    pc        \* what each thread is doing

vars == <<suspends, mutex, clients, infos, list, todo, view, pipe, greeting, pc>>

Goto(t, label) == pc' = [pc EXCEPT ![t] = label]

Rest(t) == IF t = "io" THEN "idle" ELSE "pump"

-----------------------------------------------------------------------------
(* An operation of the registry, by either thread.                         *)

(* The mutex is taken and clients_ changed: by the io thread for one phone *)
(* that comes or goes, by the window's thread for all of them.             *)
Lock(t) ==
    /\ pc[t] = "lock"
    /\ mutex = Nobody
    /\ mutex' = t
    /\ clients' \in IF t = "ui" THEN {{}}
                    ELSE {clients \cup {a} : a \in Address} \cup {clients \ {a} : a \in Address}
    /\ Goto(t, IF clients' = clients THEN "unlock" ELSE "snapshot")
    /\ UNCHANGED <<suspends, infos, list, todo, view, pipe, greeting>>

(* updateInfos, and notifyListeners starts at the front of the list.       *)
UpdateInfos(t) ==
    /\ pc[t] = "snapshot"
    /\ infos' = clients
    /\ todo' = [todo EXCEPT ![t] = list]
    /\ Goto(t, "notify")
    /\ UNCHANGED <<suspends, mutex, clients, list, view, pipe, greeting>>

(* Faulty variants, here and below, are named for their slip: each one    *)
(* stands for a bug that a property must tell from the code.               *)
NotifyOutsideLock(t) ==
    /\ pc[t] = "notify"
    /\ todo[t] # <<>>
    /\ t = "io" /\ Head(todo[t]) = "App" => pc["ui"] = "pump"
    /\ view' = [view EXCEPT ![Head(todo[t])] = infos]
    /\ todo' = [todo EXCEPT ![t] = Tail(@)]
    /\ mutex' = IF mutex = t THEN Nobody ELSE mutex
    /\ UNCHANGED <<suspends, clients, infos, list, pipe, greeting, pc>>

(* One listener is called.  The window's list of phones is reached by      *)
(* SendMessage: at once from its own thread, and from the io thread when   *)
(* the window's thread pumps messages.                                     *)
Notify(t) ==
    /\ pc[t] = "notify"
    /\ todo[t] # <<>>
    /\ t = "io" /\ Head(todo[t]) = "App" => pc["ui"] = "pump"
    /\ view' = [view EXCEPT ![Head(todo[t])] = infos]
    /\ todo' = [todo EXCEPT ![t] = Tail(@)]
    /\ UNCHANGED <<suspends, mutex, clients, infos, list, pipe, greeting, pc>>

UnlockUnlessNoChange(t) ==
    /\ \/ pc[t] = "notify" /\ todo[t] = <<>>
       \/ pc[t] = "unlock"
    /\ mutex' = IF pc[t] = "unlock" THEN mutex ELSE Nobody
    /\ Goto(t, Rest(t))
    /\ UNCHANGED <<suspends, clients, infos, list, todo, view, pipe, greeting>>

(* The operation returns, early if there was nothing to change, and with   *)
(* the lock's scope the mutex is released.                                 *)
Unlock(t) ==
    /\ \/ pc[t] = "notify" /\ todo[t] = <<>>
       \/ pc[t] = "unlock"
    /\ mutex' = Nobody
    /\ Goto(t, Rest(t))
    /\ UNCHANGED <<suspends, clients, infos, list, todo, view, pipe, greeting>>

-----------------------------------------------------------------------------
(* The io thread.                                                          *)

(* A datagram or the maintenance timer leads to an operation of the        *)
(* registry.                                                               *)
Handler ==
    /\ pc["io"] = "idle"
    /\ Goto("io", "lock")
    /\ UNCHANGED <<suspends, mutex, clients, infos, list, todo, view, pipe, greeting>>

(* A frame or a keep-alive is sent, going through the server's cache and   *)
(* the pipe's encoders.                                                    *)
Send ==
    /\ pc["io"] = "idle"
    /\ Goto("io", "send")
    /\ UNCHANGED <<suspends, mutex, clients, infos, list, todo, view, pipe, greeting>>

SendDone ==
    /\ pc["io"] = "send"
    /\ Goto("io", "idle")
    /\ UNCHANGED <<suspends, mutex, clients, infos, list, todo, view, pipe, greeting>>

StopCaptureDetachNothing ==
    /\ pc["io"] = "idle"
    /\ pipe
    /\ Goto("io", "destroy")
    /\ UNCHANGED <<suspends, mutex, clients, infos, list, todo, view, pipe, greeting>>

(* stopCapture takes the pipe's listener, which must be in the list once,  *)
(* out of it ...                                                           *)
StopCaptureDetach ==
    /\ pc["io"] = "idle"
    /\ pipe
    /\ \E i \in 1..Len(list) :
         list[i] = "Pipe" /\ list' = SubSeq(list, 1, i - 1) \o SubSeq(list, i + 1, Len(list))
    /\ Goto("io", "destroy")
    /\ UNCHANGED <<suspends, mutex, clients, infos, todo, view, pipe, greeting>>

(* ... and destroys the pipe, for another device or for an audio error.    *)
StopCaptureDestroy ==
    /\ pc["io"] = "destroy"
    /\ pipe' = FALSE
    /\ pc' \in {[pc EXCEPT !["io"] = "create"], [pc EXCEPT !["io"] = "idle"]}
    /\ UNCHANGED <<suspends, mutex, clients, infos, list, todo, view, greeting>>

(* changeCaptureDevice without a pipe goes straight on.                    *)
ChangeDevice ==
    /\ pc["io"] = "idle"
    /\ ~pipe
    /\ Goto("io", "create")
    /\ UNCHANGED <<suspends, mutex, clients, infos, list, todo, view, pipe, greeting>>

AddListenerUngreeted ==
    /\ pc["io"] = "create"
    /\ pipe' = TRUE
    /\ list' = <<"Pipe">> \o list
    /\ greeting' = {}
    /\ view' = [view EXCEPT !["Pipe"] = {}]
    /\ Goto("io", "greet")
    /\ UNCHANGED <<suspends, mutex, clients, infos, todo>>

(* A new pipe, without encoders, is put at the front of the list; the      *)
(* argument of its first call is copied.                                   *)
AddListener ==
    /\ pc["io"] = "create"
    /\ pipe' = TRUE
    /\ list' = <<"Pipe">> \o list
    /\ greeting' = infos
    /\ view' = [view EXCEPT !["Pipe"] = {}]
    /\ Goto("io", "greet")
    /\ UNCHANGED <<suspends, mutex, clients, infos, todo>>

(* The constructor of the pipe fails.                                      *)
CreateFails ==
    /\ pc["io"] = "create"
    /\ Goto("io", "idle")
    /\ UNCHANGED <<suspends, mutex, clients, infos, list, todo, view, pipe, greeting>>

Greet ==
    /\ pc["io"] = "greet"
    /\ view' = [view EXCEPT !["Pipe"] = greeting]
    /\ greeting' = {}
    /\ Goto("io", "idle")
    /\ UNCHANGED <<suspends, mutex, clients, infos, list, todo, pipe>>

-----------------------------------------------------------------------------
(* The window's thread.                                                    *)

(* WM_POWERBROADCAST: removeAll is called from the message loop, which     *)
(* takes no message until the call returns.                                *)
Suspend ==
    /\ suspends
    /\ pc["ui"] = "pump"
    /\ Goto("ui", "lock")
    /\ UNCHANGED <<suspends, mutex, clients, infos, list, todo, view, pipe, greeting>>

(* The peak meter's timer found a pipe, and reads from it.                 *)
PeakMeter ==
    /\ pc["ui"] = "pump"
    /\ pipe
    /\ Goto("ui", "peak")
    /\ UNCHANGED <<suspends, mutex, clients, infos, list, todo, view, pipe, greeting>>

PeakMeterDone ==
    /\ pc["ui"] = "peak"
    /\ Goto("ui", "pump")
    /\ UNCHANGED <<suspends, mutex, clients, infos, list, todo, view, pipe, greeting>>

-----------------------------------------------------------------------------
Init ==
    /\ suspends \in Suspends
    /\ mutex = Nobody
    /\ clients = {}
    /\ infos = {}
    /\ list = <<"Server", "App">>
    /\ todo = [t \in Thread |-> <<>>]
    /\ view = [l \in Listener |-> {}]
    /\ pipe = FALSE
    /\ greeting = {}
    /\ pc = [t \in Thread |-> Rest(t)]

Operation(t) == Lock(t) \/ UpdateInfos(t) \/ Notify(t) \/ Unlock(t)

IoDevice == StopCaptureDestroy \/ AddListener \/ CreateFails \/ Greet

Next ==
    \/ \E t \in Thread : Operation(t)
    \/ Handler
    \/ Send
    \/ SendDone
    \/ StopCaptureDetach
    \/ ChangeDevice
    \/ IoDevice
    \/ Suspend
    \/ PeakMeter
    \/ PeakMeterDone

(* A thread that can go on with what it has begun does.  The io thread's   *)
(* SendMessage waits for the message loop, which other messages keep       *)
(* leaving and coming back to: hence the strong fairness of that call.     *)
Fairness ==
    /\ \A t \in Thread : WF_vars(Lock(t) \/ UpdateInfos(t) \/ Unlock(t)) /\ SF_vars(Notify(t))
    /\ WF_vars(IoDevice)
    /\ WF_vars(SendDone)
    /\ WF_vars(PeakMeterDone)

Spec == Init /\ [][Next]_vars

FairSpec == Spec /\ Fairness

-----------------------------------------------------------------------------
(* Properties.                                                             *)

IoLabel == {"idle", "lock", "snapshot", "notify", "unlock", "send", "destroy", "create", "greet"}
UiLabel == {"pump", "lock", "snapshot", "notify", "unlock", "peak"}

(* The type of the state; the list holds no listener twice.                *)
TypeOK ==
    /\ suspends \in BOOLEAN
    /\ mutex \in Thread \cup {Nobody}
    /\ clients \subseteq Address
    /\ infos \subseteq Address
    /\ list \in {<<"Server", "App">>, <<"Pipe", "Server", "App">>}
    /\ todo \in [Thread -> {<<>>, <<"App">>, <<"Server", "App">>, <<"Pipe", "Server", "App">>}]
    /\ view \in [Listener -> SUBSET Address]
    /\ pipe \in BOOLEAN
    /\ greeting \subseteq Address
    /\ pc \in [Thread -> IoLabel \cup UiLabel] /\ pc["io"] \in IoLabel /\ pc["ui"] \in UiLabel

(* Whenever no operation is under way, the sender and the window show what *)
(* the registry holds, whichever thread made the last change and however   *)
(* the calls of the two threads interleaved; and, without suspend, so does *)
(* a pipe, which is new to the list with each change of device.            *)
LastCallWins ==
    mutex = Nobody =>
        /\ view["Server"] = clients
        /\ view["App"] = clients
        /\ ~suspends /\ pc["io"] = "idle" /\ pipe => view["Pipe"] = clients

(* Without suspend, the window's thread and the io thread never hold each  *)
(* other up: every operation begun comes to its end.                       *)
OperationsEnd ==
    ~suspends => \A t \in Thread : []<>(pc[t] = Rest(t))

(* On suspend the list of phones is emptied, so that nothing is left over  *)
(* for the resume: once the handler has begun it gets to empty it.         *)
SuspendEmpties ==
    pc["ui"] = "lock" ~> clients = {}

(* The documentation: datagrams and call-backs run on one thread, and the  *)
(* list of listeners needs no lock.  So what a thread goes through stays   *)
(* as it is: the list while the listeners are called, and the cache and    *)
(* the encoders, which the call-backs replace, while the io thread sends.  *)
StableWhileUsed ==
    [][/\ \A t \in Thread : pc[t] = "notify" /\ todo[t] # <<>> => UNCHANGED list
       /\ pc["io"] = "send" => UNCHANGED <<view["Server"], view["Pipe"]>>]_vars

=============================================================================
