-------------------------------- MODULE Server --------------------------------
(***************************************************************************)
(* The UDP server (Server.cpp) on top of the registry of phones, with the  *)
(* phones, the network between them and the server, the capture pipe as    *)
(* far as it subscribes to the registry, and the life of the process.      *)
(*                                                                         *)
(* All handlers run on the io thread, one after the other, so a handler is *)
(* one step.  The one call from another thread is Suspend, the window's    *)
(* handler of WM_POWERBROADCAST, which is atomic for the registry because  *)
(* of its mutex (NotifyThreads looks inside).                              *)
(***************************************************************************)
EXTENDS Clients, FiniteSets

CONSTANTS
    BadFormat,         \* a network compression value the server does not know
    PasswordRequired,  \* password_ is not empty
    Period,            \* the maintenance interval, in ticks
    Slack,             \* how late the io thread may run a due timer, in ticks
    MaxInFlight        \* bound: datagrams in the network at a time

ASSUME ServerAssumption ==
    /\ BadFormat \notin Format
    /\ PasswordRequired \in BOOLEAN
    /\ Period \in Nat \ {0}
    /\ Slack \in Nat

VARIABLES
    online,       \* phones switched on and in use
    net,          \* datagrams on their way to the server
    sent,         \* datagrams handed to socketSend_ in the last step
    sinceArmed,   \* ticks since startMaintenanceTimer
    up            \* the process is running

serverVars == <<online, net, sent, sinceArmed, up>>
vars == <<clients, silence, clientInfos, listeners, view,
          online, net, sent, sinceArmed, up>>

Request ==
    [kind : {"Connect"}, from : Address, format : Format \cup {BadFormat}, password : BOOLEAN]
      \cup [kind : {"SetFormat"}, from : Address, format : Format \cup {BadFormat}]
      \cup [kind : {"Disconnect", "ClientKeepAlive", "Keystroke", "Unreadable"}, from : Address]

Control == [to : Address, kind : {"AckConnect", "AckSetFormat", "ServerKeepAlive", "Disconnect"}]
AudioData == [to : Address, kind : {"AudioData"}, format : Format]

(* Silence beyond this is not told apart.                                  *)
MaxSilence == Timeout + Period + Slack + 1

-----------------------------------------------------------------------------
(* What the listeners make of the snapshot they were last called with.     *)

(* clientsCache_, rebuilt whole by Server::onClientsUpdate.  (sendAudio    *)
(* may add an empty list for a compression, which no one can tell from a   *)
(* missing one.)                                                           *)
clientsCache(c) == {a \in Address : [address |-> a, compression |-> c] \in view["Server"]}

Cached == UNION {clientsCache(c) : c \in Format}

(* The compressions the capture pipe has an encoder for.                   *)
encoders ==
    IF "Pipe" \in listeners THEN {i.compression : i \in view["Pipe"]} ELSE {}

-----------------------------------------------------------------------------
(* Faulty variants.                                                        *)

ProcessConnectUnchecked(p) ==
    /\ p.kind = "Connect"
    /\ Add(p.from, p.format)
    /\ sent' = {[to |-> p.from, kind |-> "AckConnect"]}

ProcessConnectAckFirst(p) ==
    /\ p.kind = "Connect"
    /\ IF p.format \in Format /\ (PasswordRequired => p.password)
       THEN Add(p.from, p.format)
       ELSE UNCHANGED clientsVars
    /\ sent' = {[to |-> p.from, kind |-> "AckConnect"]}

ProcessKeepAliveAdds(p) ==
    /\ p.kind = "ClientKeepAlive"
    /\ \E c \in Format :
         Add(p.from, IF clients[p.from] = NoClient THEN c ELSE clients[p.from])
    /\ sent' = {}

KeepalivePacketsUnlessAudio ==
    {[to |-> a, kind |-> "ServerKeepAlive"] : a \in {b \in Cached : encoders = {}}}

DisconnectPacketsToListeningOnly ==
    {[to |-> a, kind |-> "Disconnect"] : a \in UNION {clientsCache(c) : c \in encoders}}

-----------------------------------------------------------------------------
(* The handlers of datagrams, dispatched by Server::receive.               *)

ProcessConnect(p) ==
    /\ p.kind = "Connect"
    /\ IF p.format \in Format /\ (PasswordRequired => p.password)
       THEN /\ Add(p.from, p.format)
            /\ sent' = {[to |-> p.from, kind |-> "AckConnect"]}
       ELSE /\ sent' = {}
            /\ UNCHANGED clientsVars

ProcessDisconnect(p) ==
    /\ p.kind = "Disconnect"
    /\ Remove(p.from)
    /\ sent' = {}

(* Acknowledged whether or not the sender is connected.                    *)
ProcessSetFormat(p) ==
    /\ p.kind = "SetFormat"
    /\ IF p.format \in Format
       THEN /\ SetCompression(p.from, p.format)
            /\ sent' = {[to |-> p.from, kind |-> "AckSetFormat"]}
       ELSE /\ sent' = {}
            /\ UNCHANGED clientsVars

ProcessKeepAlive(p) ==
    /\ p.kind = "ClientKeepAlive"
    /\ Keep(p.from)
    /\ sent' = {}

(* A keystroke is replayed on the desktop, an unreadable datagram dropped: *)
(* neither touches the state of the server.                                *)
ProcessOther(p) ==
    /\ p.kind \in {"Keystroke", "Unreadable"}
    /\ sent' = {}
    /\ UNCHANGED clientsVars

(* A datagram arrives; the network may deliver it again later.             *)
Receive(p) ==
    /\ up
    /\ p \in net
    /\ \/ ProcessConnect(p)
       \/ ProcessDisconnect(p)
       \/ ProcessSetFormat(p)
       \/ ProcessKeepAlive(p)
       \/ ProcessOther(p)
    /\ net' \in {net, net \ {p}}
    /\ UNCHANGED <<online, sinceArmed, up>>

-----------------------------------------------------------------------------
(* What the server does on its own.                                        *)

KeepalivePackets == {[to |-> a, kind |-> "ServerKeepAlive"] : a \in Cached}

DisconnectPackets == {[to |-> a, kind |-> "Disconnect"] : a \in Cached}

(* One encoded frame goes to the phones of every compression that has an   *)
(* encoder.                                                                *)
FramePackets ==
    {m \in AudioData : m.format \in encoders /\ m.to \in clientsCache(m.format)}

(* The maintenance timer: keep-alive to everyone in the cache, then the    *)
(* timeouts, then the timer is started again.                              *)
MaintainHandler ==
    /\ up
    /\ sinceArmed >= Period
    /\ sent' = KeepalivePackets
    /\ Maintain
    /\ sinceArmed' = 0
    /\ UNCHANGED <<online, net, up>>

SendFrame ==
    /\ up
    /\ encoders # {}
    /\ sent' = FramePackets
    /\ UNCHANGED <<clientsVars, online, net, sinceArmed, up>>

(* changeCaptureDevice made a pipe and added its listener.                 *)
AttachPipe ==
    /\ up
    /\ AddClientsListener("Pipe")
    /\ sent' = {}
    /\ UNCHANGED <<online, net, sinceArmed, up>>

(* stopCapture, before a change of device or after an audio error.         *)
DetachPipe ==
    /\ up
    /\ "Pipe" \in listeners
    /\ RemoveClientsListener("Pipe")
    /\ sent' = {}
    /\ UNCHANGED <<online, net, sinceArmed, up>>

Suspend ==
    /\ up
    /\ RemoveAll
    /\ sent' = {}
    /\ UNCHANGED <<online, net, sinceArmed, up>>

-----------------------------------------------------------------------------
(* The life of the process.                                                *)

ProcessEnds ==
    /\ up
    /\ up' = FALSE
    /\ ForgetClients
    /\ sinceArmed' = 0
    /\ UNCHANGED <<online, net>>

(* The window was closed: every phone is told before the loop stops.       *)
Shutdown == sent' = DisconnectPackets /\ ProcessEnds

(* std::exit: a failed send (handleSend), an error in receive, or a        *)
(* shutdown whose blocking sends fail on the way.                          *)
Exit ==
    /\ sent' \in SUBSET DisconnectPackets
    /\ ProcessEnds

Start ==
    /\ ~up
    /\ up' = TRUE
    /\ sent' = {}
    /\ UNCHANGED <<clientsVars, online, net, sinceArmed>>

-----------------------------------------------------------------------------
(* The phones and the network.                                             *)

PhoneOn(a) ==
    /\ a \notin online
    /\ online' = online \cup {a}
    /\ sent' = {}
    /\ UNCHANGED <<clientsVars, net, sinceArmed, up>>

PhoneOff(a) ==
    /\ a \in online
    /\ online' = online \ {a}
    /\ sent' = {}
    /\ UNCHANGED <<clientsVars, net, sinceArmed, up>>

PhoneSend(p) ==
    /\ p.from \in online
    /\ p \notin net
    /\ Cardinality(net) < MaxInFlight
    /\ net' = net \cup {p}
    /\ sent' = {}
    /\ UNCHANGED <<clientsVars, online, sinceArmed, up>>

Lose(p) ==
    /\ p \in net
    /\ net' = net \ {p}
    /\ sent' = {}
    /\ UNCHANGED <<clientsVars, online, sinceArmed, up>>

(* Time passes; a due timer is not left waiting for more than Slack.       *)
Tick ==
    /\ up
    /\ sinceArmed < Period + Slack
    /\ sinceArmed' = sinceArmed + 1
    /\ SilenceGrows(MaxSilence)
    /\ sent' = {}
    /\ UNCHANGED <<online, net, up>>

-----------------------------------------------------------------------------
Init ==
    /\ NoClients
    /\ online = {}
    /\ net = {}
    /\ sent = {}
    /\ sinceArmed = 0
    /\ up = TRUE

Next ==
    \/ \E p \in Request : Receive(p) \/ PhoneSend(p) \/ Lose(p)
    \/ \E a \in Address : PhoneOn(a) \/ PhoneOff(a)
    \/ MaintainHandler
    \/ SendFrame
    \/ AttachPipe
    \/ DetachPipe
    \/ Suspend
    \/ Shutdown
    \/ Exit
    \/ Start
    \/ Tick

(* The clock goes on, the io thread runs a due timer, and no datagram      *)
(* stays in the network for ever.  Nothing is assumed of the phones.       *)
Fairness ==
    /\ WF_vars(Tick)
    /\ WF_vars(MaintainHandler)
    /\ \A p \in Request : WF_vars(Lose(p))

Spec == Init /\ [][Next]_vars

FairSpec == Spec /\ Fairness

-----------------------------------------------------------------------------
(* Properties.                                                             *)

(* Who was sent a frame in the last step, and in which compression.        *)
Delivered == {<<m.to, m.format>> : m \in {n \in sent : n.kind = "AudioData"}}

(* Who was sent a keep-alive in the last step.                             *)
Reassured == {m.to : m \in {n \in sent : n.kind = "ServerKeepAlive"}}

(* The datagrams under way that the server would act upon.                 *)
Accepted ==
    {p \in net : p.kind \in {"Connect", "SetFormat"} =>
                   /\ p.format \in Format
                   /\ p.kind = "Connect" /\ PasswordRequired => p.password}

Promise ==
    INSTANCE Session WITH session <- clients, requests <- Accepted,
                          delivered <- Delivered, reassured <- Reassured

(* The server keeps the promise of Session: a frame reaches every phone    *)
(* that is connected in the compression it last asked for, and no one      *)
(* else; keep-alives reach them all; phones come and change only by their  *)
(* own requests; and they go by their own request, or when they were       *)
(* silent for longer than the timeout, or all at once.                     *)
KeepsPromise == Promise!SessionSpec

(* The type of the state.                                                  *)
TypeOK ==
    /\ ClientsTypeOK
    /\ online \subseteq Address
    /\ net \subseteq Request
    /\ sent \subseteq Control \cup AudioData
    /\ sinceArmed \in 0 .. Period + Slack
    /\ up \in BOOLEAN

(* Between handlers the server's cache, the pipe's encoders and the list   *)
(* in the window agree with the registry, although each is only updated    *)
(* when the registry calls back, and the pipe comes and goes.              *)
ListenersAgree ==
    \A l \in listeners : view[l] = InfosOf(clients)

(* A phone that fell silent is out of the registry at the latest one       *)
(* maintenance interval, plus the delay of the timer, after its timeout.   *)
StaleClientsExpire ==
    \A a \in Members : silence[a] <= Timeout + Period + Slack

(* An acknowledged connect means that the phone is registered.             *)
AckedIsRegistered ==
    \A a \in Address : [to |-> a, kind |-> "AckConnect"] \in sent => a \in Members

(* A phone that was dropped, for whatever reason, is only served again     *)
(* after a Connect of its own that passes the checks: keep-alives and      *)
(* format changes do not bring it back.                                    *)
OnlyConnectAdmits ==
    [][\A a \in Address :
         clients[a] = NoClient /\ clients'[a] # NoClient =>
           \E p \in net :
             /\ p.kind = "Connect"
             /\ p.from = a
             /\ p.format = clients'[a]
             /\ PasswordRequired => p.password]_vars

(* An orderly shutdown tells every connected phone.                        *)
FarewellReachesAll ==
    [][Shutdown => {m.to : m \in sent'} = Members]_vars

(* A phone that is switched off for good is forgotten for good, even if    *)
(* copies of its earlier datagrams are still delivered.                    *)
SilentPhoneForgotten ==
    \A a \in Address : <>[](a \notin online) => <>[](clients[a] = NoClient)

(* A connected phone keeps hearing from the server for as long as it is    *)
(* connected, also when no audio is sent.                                  *)
MembersHearFromServer ==
    \A a \in Address : []<>(\/ clients[a] = NoClient
                            \/ \E m \in sent : m.to = a /\ m.kind = "ServerKeepAlive")

=============================================================================
