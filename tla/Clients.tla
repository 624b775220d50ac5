------------------------------- MODULE Clients -------------------------------
(***************************************************************************)
(* The registry of connected phones: class Clients (Clients.cpp).          *)
(*                                                                         *)
(* The registry maps the address of a phone to the compression it asked    *)
(* for and to the time of its last contact.  Every change of membership or *)
(* of a compression rebuilds the snapshot clientInfos_ and hands it to     *)
(* each registered listener while clientsMutex_ is held, so an operation   *)
(* is one step here; module NotifyThreads takes the lock and the callbacks *)
(* apart.                                                                  *)
(***************************************************************************)
EXTENDS Naturals

CONSTANTS
    Address,    \* the addresses phones may have
    Format,     \* the values of Audio::Compression
    NoClient,   \* clients_ has no entry for the address
    Timeout     \* timeoutSeconds_, in ticks of the clock

ASSUME ClientsAssumption ==
    /\ NoClient \notin Format
    /\ Timeout \in Nat

VARIABLES
    clients,      \* clients_: the compression of each connected phone
    silence,      \* now - lastContact() of each connected phone
    clientInfos,  \* clientInfos_: the snapshot given to listeners
    listeners,    \* clientsListeners_
    view          \* what each listener was last called with

clientsVars == <<clients, silence, clientInfos, listeners, view>>

(* The components that subscribe: the window's list of phones, the audio  *)
(* sender and the capture pipe.                                            *)
Listener == {"App", "Server", "Pipe"}

ClientInfo == [address : Address, compression : Format]

Members == {a \in Address : clients[a] # NoClient}

InfosOf(registry) == {i \in ClientInfo : registry[i.address] = i.compression}

-----------------------------------------------------------------------------
(* Notification.                                                           *)

UpdateAndNotify ==
    /\ clientInfos' = InfosOf(clients')
    /\ view' = [l \in Listener |-> IF l \in listeners THEN clientInfos' ELSE view[l]]

(* A new listener is called at once with the current snapshot.  The        *)
(* program registers no listener twice.                                    *)
AddClientsListener(l) ==
    /\ l \notin listeners
    /\ listeners' = listeners \cup {l}
    /\ view' = [view EXCEPT ![l] = clientInfos]
    /\ UNCHANGED <<clients, silence, clientInfos>>

RemoveClientsListener(l) ==
    /\ listeners' = listeners \ {l}
    /\ UNCHANGED <<clients, silence, clientInfos, view>>

-----------------------------------------------------------------------------
(* Operations of the registry.                                             *)

(* Registers a phone, or refreshes the contact of a known one; listeners   *)
(* hear of it unless the phone is known with this very compression.        *)
Add(a, c) ==
    /\ clients' = [clients EXCEPT ![a] = c]
    /\ silence' = [silence EXCEPT ![a] = 0]
    /\ IF clients[a] = c THEN UNCHANGED <<clientInfos, view>> ELSE UpdateAndNotify
    /\ UNCHANGED listeners

(* Faulty variants, here and below, are named for their slip: each one    *)
(* stands for a bug that a property must tell from the code.               *)
SetCompressionSilent(a, c) ==
    /\ clients' = IF clients[a] = NoClient THEN clients ELSE [clients EXCEPT ![a] = c]
    /\ UNCHANGED <<silence, clientInfos, view, listeners>>

(* Changes the compression of a known phone; it is not a contact.          *)
SetCompression(a, c) ==
    /\ IF clients[a] \in {NoClient, c}
       THEN UNCHANGED <<clients, clientInfos, view>>
       ELSE /\ clients' = [clients EXCEPT ![a] = c]
            /\ UpdateAndNotify
    /\ UNCHANGED <<silence, listeners>>

(* A contact; the address of a phone that is not connected is ignored.     *)
Keep(a) ==
    /\ silence' = IF clients[a] = NoClient THEN silence ELSE [silence EXCEPT ![a] = 0]
    /\ UNCHANGED <<clients, clientInfos, listeners, view>>

(* Takes the phones of S out of the registry, telling the listeners if     *)
(* there was anyone to take out: the common part of remove, removeAll and  *)
(* maintain.                                                               *)
Erase(S) ==
    /\ clients' = [a \in Address |-> IF a \in S THEN NoClient ELSE clients[a]]
    /\ silence' = [a \in Address |-> IF a \in S THEN 0 ELSE silence[a]]
    /\ IF S \cap Members = {} THEN UNCHANGED <<clientInfos, view>> ELSE UpdateAndNotify
    /\ UNCHANGED listeners

Remove(a) == Erase({a})

RemoveAll == Erase(Members)

ExpiredEarly == {a \in Members : silence[a] >= Timeout}

ExpiredLate == {a \in Members : silence[a] > Timeout + 1}

(* The phones not heard from for strictly longer than the timeout.         *)
Expired == {a \in Members : silence[a] > Timeout}

MaintainRefreshing ==
    /\ clients' = [a \in Address |-> IF a \in Expired THEN NoClient ELSE clients[a]]
    /\ silence' = [a \in Address |-> 0]
    /\ IF Expired = {} THEN UNCHANGED <<clientInfos, view>> ELSE UpdateAndNotify
    /\ UNCHANGED listeners

Maintain == Erase(Expired)

(* The clock: silence grows until a contact, and is not told apart beyond  *)
(* max.                                                                    *)
SilenceGrows(max) ==
    /\ silence' = [a \in Address |->
                     IF a \in Members /\ silence[a] < max THEN silence[a] + 1 ELSE silence[a]]
    /\ UNCHANGED <<clients, clientInfos, listeners, view>>

(* A new Clients object, before anyone listens.                            *)
NoClients ==
    /\ clients = [a \in Address |-> NoClient]
    /\ silence = [a \in Address |-> 0]
    /\ clientInfos = {}
    /\ listeners = {"App", "Server"}
    /\ view = [l \in Listener |-> {}]

(* The object dies with the process, and the next process makes a new one. *)
ForgetClients ==
    /\ clients' = [a \in Address |-> NoClient]
    /\ silence' = [a \in Address |-> 0]
    /\ clientInfos' = {}
    /\ listeners' = {"App", "Server"}
    /\ view' = [l \in Listener |-> {}]

ClientsTypeOK ==
    /\ clients \in [Address -> Format \cup {NoClient}]
    /\ silence \in [Address -> Nat]
    /\ clientInfos \subseteq ClientInfo
    /\ listeners \subseteq Listener
    /\ view \in [Listener -> SUBSET ClientInfo]

=============================================================================
