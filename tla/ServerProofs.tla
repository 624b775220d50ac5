------------------------------ MODULE ServerProofs ------------------------------
(***************************************************************************)
(* Proofs about module Server, for every set of phones and compressions,   *)
(* every timeout, maintenance interval and delay of the timer.             *)
(***************************************************************************)
EXTENDS Server, TLAPS

USE ClientsAssumption

-----------------------------------------------------------------------------
(* The registry by itself: its operations keep the snapshot and what every *)
(* listener was told in step with clients_.                                *)

RegistryOK ==
    /\ ClientsTypeOK
    /\ {"App", "Server"} \subseteq listeners
    /\ clientInfos = InfosOf(clients)
    /\ ListenersAgree

LEMMA NotifyKeepsRegistry ==
    ASSUME RegistryOK,
           clients' \in [Address -> Format \cup {NoClient}],
           silence' \in [Address -> Nat],
           UNCHANGED listeners,
           UpdateAndNotify
    PROVE  RegistryOK'
<1>1. InfosOf(clients') \subseteq ClientInfo
  BY DEF InfosOf
<1>2. ClientsTypeOK'
  BY <1>1 DEF RegistryOK, ClientsTypeOK, UpdateAndNotify
<1>3. ListenersAgree'
  BY DEF RegistryOK, ClientsTypeOK, ListenersAgree, UpdateAndNotify, InfosOf
<1> QED
  BY <1>2, <1>3 DEF RegistryOK, UpdateAndNotify, InfosOf

LEMMA QuietKeepsRegistry ==
    ASSUME RegistryOK,
           silence' \in [Address -> Nat],
           UNCHANGED <<clients, clientInfos, listeners, view>>
    PROVE  RegistryOK'
BY DEF RegistryOK, ClientsTypeOK, ListenersAgree, InfosOf

LEMMA AddKeepsRegistry ==
    ASSUME RegistryOK, NEW a \in Address, NEW c \in Format, Add(a, c)
    PROVE  RegistryOK'
<1>1. clients' \in [Address -> Format \cup {NoClient}]
  BY DEF RegistryOK, ClientsTypeOK, Add
<1>2. silence' \in [Address -> Nat]
  BY DEF RegistryOK, ClientsTypeOK, Add
<1>3. CASE clients[a] = c
  <2>1. clients' = clients
    BY <1>3 DEF RegistryOK, ClientsTypeOK, Add
  <2> QED
    BY <1>2, <1>3, <2>1, QuietKeepsRegistry DEF Add
<1>4. CASE clients[a] # c
  BY <1>1, <1>2, <1>4, NotifyKeepsRegistry DEF Add
<1> QED
  BY <1>3, <1>4

LEMMA SetCompressionKeepsRegistry ==
    ASSUME RegistryOK, NEW a \in Address, NEW c \in Format, SetCompression(a, c)
    PROVE  RegistryOK'
<1>1. clients' \in [Address -> Format \cup {NoClient}]
  BY DEF RegistryOK, ClientsTypeOK, SetCompression
<1>2. silence' \in [Address -> Nat]
  BY DEF RegistryOK, ClientsTypeOK, SetCompression
<1>3. CASE clients[a] \in {NoClient, c}
  BY <1>2, <1>3, QuietKeepsRegistry DEF SetCompression
<1>4. CASE clients[a] \notin {NoClient, c}
  BY <1>1, <1>2, <1>4, NotifyKeepsRegistry DEF SetCompression
<1> QED
  BY <1>3, <1>4

LEMMA KeepKeepsRegistry ==
    ASSUME RegistryOK, NEW a \in Address, Keep(a)
    PROVE  RegistryOK'
<1>1. silence' \in [Address -> Nat]
  BY DEF RegistryOK, ClientsTypeOK, Keep
<1> QED
  BY <1>1, QuietKeepsRegistry DEF Keep

LEMMA EraseKeepsRegistry ==
    ASSUME RegistryOK, NEW S, Erase(S)
    PROVE  RegistryOK'
<1>1. clients' \in [Address -> Format \cup {NoClient}]
  BY DEF RegistryOK, ClientsTypeOK, Erase
<1>2. silence' \in [Address -> Nat]
  BY DEF RegistryOK, ClientsTypeOK, Erase
<1>3. CASE S \cap Members = {}
  <2>1. clients' = clients
    BY <1>3 DEF RegistryOK, ClientsTypeOK, Erase, Members
  <2> QED
    BY <1>2, <1>3, <2>1, QuietKeepsRegistry DEF Erase
<1>4. CASE S \cap Members # {}
  BY <1>1, <1>2, <1>4, NotifyKeepsRegistry DEF Erase
<1> QED
  BY <1>3, <1>4

LEMMA ListenerKeepsRegistry ==
    ASSUME RegistryOK,
           AddClientsListener("Pipe") \/ RemoveClientsListener("Pipe")
    PROVE  RegistryOK'
<1>1. CASE AddClientsListener("Pipe")
  BY <1>1 DEF RegistryOK, ClientsTypeOK, ListenersAgree, AddClientsListener, InfosOf, Listener
<1>2. CASE RemoveClientsListener("Pipe")
  BY <1>2 DEF RegistryOK, ClientsTypeOK, ListenersAgree, RemoveClientsListener, InfosOf, Listener
<1> QED
  BY <1>1, <1>2

-----------------------------------------------------------------------------
(* The server: every step is an operation of the registry, or leaves the   *)
(* registry alone, or ends the process and with it the registry.           *)

LEMMA RequestFrom == ASSUME NEW p \in Request PROVE p.from \in Address
BY DEF Request

LEMMA CachedAreAddresses == Cached \subseteq Address
BY DEF Cached, clientsCache

LEMMA FreshRegistry == NoClients => RegistryOK
BY DEF NoClients, RegistryOK, ClientsTypeOK, ListenersAgree, InfosOf, ClientInfo, Listener

LEMMA ForgottenRegistry == ForgetClients => RegistryOK'
BY DEF ForgetClients, RegistryOK, ClientsTypeOK, ListenersAgree, InfosOf, ClientInfo, Listener

LEMMA SameRegistry ==
    ASSUME RegistryOK, UNCHANGED clientsVars
    PROVE  RegistryOK'
BY DEF clientsVars, RegistryOK, ClientsTypeOK, ListenersAgree, InfosOf

LEMMA ReceiveKeepsRegistry ==
    ASSUME RegistryOK, NEW p \in Request, Receive(p)
    PROVE  RegistryOK'
<1> p.from \in Address
  BY RequestFrom
<1>1. CASE ProcessConnect(p)
  BY <1>1, AddKeepsRegistry, SameRegistry DEF ProcessConnect
<1>2. CASE ProcessDisconnect(p)
  BY <1>2, EraseKeepsRegistry DEF ProcessDisconnect, Remove
<1>3. CASE ProcessSetFormat(p)
  BY <1>3, SetCompressionKeepsRegistry, SameRegistry DEF ProcessSetFormat
<1>4. CASE ProcessKeepAlive(p)
  BY <1>4, KeepKeepsRegistry DEF ProcessKeepAlive
<1>5. CASE ProcessOther(p)
  BY <1>5, SameRegistry DEF ProcessOther
<1> QED
  BY <1>1, <1>2, <1>3, <1>4, <1>5 DEF Receive

LEMMA RegistryStep ==
    ASSUME RegistryOK, [Next]_vars
    PROVE  RegistryOK'
<1>1. CASE \E p \in Request : Receive(p)
  BY <1>1, ReceiveKeepsRegistry
<1>2. CASE \E p \in Request : PhoneSend(p) \/ Lose(p)
  BY <1>2, SameRegistry DEF PhoneSend, Lose
<1>3. CASE \E a \in Address : PhoneOn(a) \/ PhoneOff(a)
  BY <1>3, SameRegistry DEF PhoneOn, PhoneOff
<1>4. CASE MaintainHandler
  BY <1>4, EraseKeepsRegistry DEF MaintainHandler, Maintain
<1>5. CASE SendFrame \/ Start
  BY <1>5, SameRegistry DEF SendFrame, Start
<1>6. CASE AttachPipe \/ DetachPipe
  BY <1>6, ListenerKeepsRegistry DEF AttachPipe, DetachPipe
<1>7. CASE Suspend
  BY <1>7, EraseKeepsRegistry DEF Suspend, RemoveAll
<1>8. CASE Shutdown \/ Exit
  BY <1>8, ForgottenRegistry DEF Shutdown, Exit, ProcessEnds
<1>9. CASE Tick
  <2>1. silence' \in [Address -> Nat]
    BY <1>9, ServerAssumption DEF Tick, SilenceGrows, RegistryOK, ClientsTypeOK
  <2> QED
    BY <1>9, <2>1, QuietKeepsRegistry DEF Tick, SilenceGrows
<1>10. CASE UNCHANGED vars
  BY <1>10, SameRegistry DEF vars, clientsVars
<1> QED
  BY <1>1, <1>2, <1>3, <1>4, <1>5, <1>6, <1>7, <1>8, <1>9, <1>10 DEF Next

-----------------------------------------------------------------------------
(* Every registered listener knows the current phones and compressions.    *)

(* The window's list, the sender's cache and the pipe's encoders agree     *)
(* with the registry after every handler.                                  *)
THEOREM ListenersAlwaysAgree == Spec => []ListenersAgree
<1>1. Init => RegistryOK
  BY FreshRegistry DEF Init
<1>2. RegistryOK /\ [Next]_vars => RegistryOK'
  BY RegistryStep
<1>3. RegistryOK => ListenersAgree
  BY DEF RegistryOK
<1> QED
  BY <1>1, <1>2, <1>3, PTL DEF Spec

-----------------------------------------------------------------------------
(* The type of the whole state.                                            *)

LEMMA SentByReceive ==
    ASSUME NEW p \in Request, Receive(p)
    PROVE  sent' \subseteq Control
<1> p.from \in Address
  BY RequestFrom
<1> QED
  BY DEF Receive, ProcessConnect, ProcessDisconnect, ProcessSetFormat, ProcessKeepAlive,
         ProcessOther, Control

LEMMA TypeStep ==
    ASSUME TypeOK, RegistryOK, [Next]_vars
    PROVE  TypeOK'
<1> USE ServerAssumption
<1>0. ClientsTypeOK'
  BY RegistryStep DEF RegistryOK
<1>1. ASSUME NEW p \in Request, Receive(p)
      PROVE  TypeOK'
  BY <1>0, <1>1, SentByReceive DEF Receive, TypeOK
<1>2. ASSUME NEW p \in Request, PhoneSend(p) \/ Lose(p)
      PROVE  TypeOK'
  BY <1>0, <1>2 DEF PhoneSend, Lose, TypeOK
<1>3. ASSUME NEW a \in Address, PhoneOn(a) \/ PhoneOff(a)
      PROVE  TypeOK'
  BY <1>0, <1>3 DEF PhoneOn, PhoneOff, TypeOK
<1>4. CASE MaintainHandler
  <2>1. KeepalivePackets \subseteq Control
    BY CachedAreAddresses DEF KeepalivePackets, Control
  <2> QED
    BY <1>0, <1>4, <2>1 DEF MaintainHandler, TypeOK
<1>5. CASE SendFrame
  BY <1>0, <1>5 DEF SendFrame, FramePackets, TypeOK
<1>6. CASE AttachPipe \/ DetachPipe \/ Suspend \/ Start
  BY <1>0, <1>6 DEF AttachPipe, DetachPipe, Suspend, Start, TypeOK
<1>7. CASE Shutdown \/ Exit
  <2>1. DisconnectPackets \subseteq Control
    BY CachedAreAddresses DEF DisconnectPackets, Control
  <2>2. sent' \subseteq DisconnectPackets
    BY <1>7 DEF Shutdown, Exit
  <2>3. sinceArmed' = 0 /\ up' = FALSE /\ UNCHANGED <<online, net>>
    BY <1>7 DEF Shutdown, Exit, ProcessEnds
  <2>4. sent' \subseteq Control
    BY <2>1, <2>2
  <2>5. sinceArmed' \in 0 .. Period + Slack
    BY <2>3
  <2> QED
    BY <1>0, <2>3, <2>4, <2>5 DEF TypeOK
<1>8. CASE Tick
  BY <1>0, <1>8 DEF Tick, TypeOK
<1>9. CASE UNCHANGED vars
  BY <1>0, <1>9 DEF vars, TypeOK
<1> QED
  BY <1>1, <1>2, <1>3, <1>4, <1>5, <1>6, <1>7, <1>8, <1>9 DEF Next

(* Every reachable state has the type that the model declares.             *)
THEOREM TypeCorrect == Spec => []TypeOK
<1>1. Init => TypeOK /\ RegistryOK
  BY FreshRegistry, ServerAssumption DEF Init, TypeOK, RegistryOK
<1>2. TypeOK /\ RegistryOK /\ [Next]_vars => (TypeOK /\ RegistryOK)'
  BY TypeStep, RegistryStep
<1> QED
  BY <1>1, <1>2, PTL DEF Spec

-----------------------------------------------------------------------------
(* Timeouts.  What keeps the bound is that the silence of any phone has    *)
(* grown no further beyond the timeout than the timer has been running.    *)

Timely == \A a \in Address : silence[a] <= Timeout + sinceArmed

(* Every operation but the clock and the maintenance leaves each silence   *)
(* as it was, or cuts it to 0.                                             *)
LEMMA NoSilenceGrows ==
    ASSUME TypeOK,
           Timely,
           sinceArmed' = sinceArmed,
           silence' \in [Address -> Nat],
           \A a \in Address : silence'[a] \in {0, silence[a]}
    PROVE  Timely'
<1> SUFFICES ASSUME NEW a \in Address
             PROVE  silence'[a] <= Timeout + sinceArmed
  BY DEF Timely
<1>1. silence[a] <= Timeout + sinceArmed /\ silence[a] \in Nat
  BY DEF Timely, TypeOK, ClientsTypeOK
<1>2. sinceArmed \in Nat
  BY ServerAssumption DEF TypeOK
<1> QED
  BY <1>1, <1>2

LEMMA ReceiveSilence ==
    ASSUME TypeOK, NEW p \in Request, Receive(p)
    PROVE  \A a \in Address : silence'[a] \in {0, silence[a]}
<1> p.from \in Address
  BY RequestFrom
<1> USE DEF TypeOK, ClientsTypeOK, clientsVars
<1>1. CASE ProcessConnect(p)
  BY <1>1 DEF ProcessConnect, Add
<1>2. CASE ProcessDisconnect(p)
  BY <1>2 DEF ProcessDisconnect, Remove, Erase
<1>3. CASE ProcessSetFormat(p)
  BY <1>3 DEF ProcessSetFormat, SetCompression
<1>4. CASE ProcessKeepAlive(p)
  BY <1>4 DEF ProcessKeepAlive, Keep
<1>5. CASE ProcessOther(p)
  BY <1>5 DEF ProcessOther
<1> QED
  BY <1>1, <1>2, <1>3, <1>4, <1>5 DEF Receive

(* Only a connected phone is timed.                                        *)
AbsentNotTimed == \A a \in Address : clients[a] = NoClient => silence[a] = 0

LEMMA AbsentStep ==
    ASSUME TypeOK, AbsentNotTimed, [Next]_vars
    PROVE  AbsentNotTimed'
<1> USE DEF AbsentNotTimed, TypeOK, ClientsTypeOK, clientsVars
<1>1. ASSUME NEW p \in Request, Receive(p)
      PROVE  AbsentNotTimed'
  <2> p.from \in Address
    BY RequestFrom
  <2>1. CASE ProcessConnect(p)
    BY <2>1 DEF ProcessConnect, Add
  <2>2. CASE ProcessDisconnect(p)
    BY <2>2 DEF ProcessDisconnect, Remove, Erase
  <2>3. CASE ProcessSetFormat(p)
    BY <2>3 DEF ProcessSetFormat, SetCompression
  <2>4. CASE ProcessKeepAlive(p)
    BY <2>4 DEF ProcessKeepAlive, Keep
  <2>5. CASE ProcessOther(p)
    BY <2>5 DEF ProcessOther
  <2> QED
    BY <1>1, <2>1, <2>2, <2>3, <2>4, <2>5 DEF Receive
<1>2. CASE \/ \E p \in Request : PhoneSend(p) \/ Lose(p)
           \/ \E a \in Address : PhoneOn(a) \/ PhoneOff(a)
           \/ SendFrame \/ AttachPipe \/ DetachPipe \/ Start \/ UNCHANGED vars
  BY <1>2 DEF PhoneSend, Lose, PhoneOn, PhoneOff, SendFrame, AttachPipe, DetachPipe, Start,
              AddClientsListener, RemoveClientsListener, vars
<1>3. CASE Suspend
  BY <1>3 DEF Suspend, RemoveAll, Erase
<1>4. CASE MaintainHandler
  BY <1>4 DEF MaintainHandler, Maintain, Erase
<1>5. CASE Shutdown \/ Exit
  BY <1>5 DEF Shutdown, Exit, ProcessEnds, ForgetClients
<1>6. CASE Tick
  BY <1>6 DEF Tick, SilenceGrows, Members
<1> QED
  BY <1>1, <1>2, <1>3, <1>4, <1>5, <1>6 DEF Next

LEMMA TimelyStep ==
    ASSUME TypeOK, RegistryOK, Timely, AbsentNotTimed, [Next]_vars
    PROVE  Timely'
<1> USE ServerAssumption
<1>0. silence' \in [Address -> Nat]
  BY TypeStep DEF TypeOK, ClientsTypeOK
<1>1. ASSUME NEW p \in Request, Receive(p)
      PROVE  Timely'
  BY <1>0, <1>1, ReceiveSilence, NoSilenceGrows DEF Receive
<1>2. CASE \/ \E p \in Request : PhoneSend(p) \/ Lose(p)
           \/ \E a \in Address : PhoneOn(a) \/ PhoneOff(a)
           \/ SendFrame \/ AttachPipe \/ DetachPipe \/ Start \/ UNCHANGED vars
  <2>1. silence' = silence /\ sinceArmed' = sinceArmed
    BY <1>2 DEF PhoneSend, Lose, PhoneOn, PhoneOff, SendFrame, AttachPipe, DetachPipe, Start,
                AddClientsListener, RemoveClientsListener, vars, clientsVars
  <2> QED
    BY <1>0, <2>1, NoSilenceGrows
<1>3. CASE Suspend
  BY <1>0, <1>3, NoSilenceGrows DEF Suspend, RemoveAll, Erase
<1>4. CASE MaintainHandler
  <2> SUFFICES ASSUME NEW a \in Address
               PROVE  silence'[a] <= Timeout
    BY <1>4 DEF Timely, MaintainHandler
  <2>1. CASE a \in Expired
    BY <1>4, <2>1 DEF MaintainHandler, Maintain, Erase
  <2>2. CASE a \notin Expired
    <3>1. silence'[a] = silence[a]
      BY <1>4, <2>2 DEF MaintainHandler, Maintain, Erase
    <3>2. clients[a] = NoClient \/ ~(silence[a] > Timeout)
      BY <2>2 DEF Expired, Members
    <3> QED
      BY <3>1, <3>2 DEF AbsentNotTimed, TypeOK, ClientsTypeOK
  <2> QED
    BY <2>1, <2>2
<1>5. CASE Shutdown \/ Exit
  <2>1. silence' = [a \in Address |-> 0] /\ sinceArmed' = 0
    BY <1>5 DEF Shutdown, Exit, ProcessEnds, ForgetClients
  <2> QED
    BY <2>1 DEF Timely
<1>6. CASE Tick
  <2> SUFFICES ASSUME NEW a \in Address
               PROVE  silence'[a] <= Timeout + sinceArmed'
    BY DEF Timely
  <2>1. silence'[a] \in {silence[a], silence[a] + 1}
    BY <1>6 DEF Tick, SilenceGrows, TypeOK, ClientsTypeOK
  <2>2. sinceArmed' = sinceArmed + 1 /\ sinceArmed \in Nat /\ silence[a] \in Nat
    BY <1>6 DEF Tick, TypeOK, ClientsTypeOK
  <2>3. silence[a] <= Timeout + sinceArmed
    BY DEF Timely
  <2> QED
    BY <2>1, <2>2, <2>3
<1> QED
  BY <1>1, <1>2, <1>3, <1>4, <1>5, <1>6 DEF Next

(* The invariant behind the theorems about timeouts and about Session.     *)
ServerInv ==
    /\ TypeOK
    /\ RegistryOK
    /\ AbsentNotTimed
    /\ Timely

LEMMA ServerInvariant == Spec => []ServerInv
<1>1. Init => ServerInv
  <2> SUFFICES ASSUME Init PROVE ServerInv
    OBVIOUS
  <2>1. TypeOK /\ RegistryOK
    BY FreshRegistry, ServerAssumption DEF Init, TypeOK, RegistryOK
  <2>2. AbsentNotTimed /\ Timely
    BY DEF Init, NoClients, AbsentNotTimed, Timely
  <2> QED
    BY <2>1, <2>2 DEF ServerInv
<1>2. ServerInv /\ [Next]_vars => ServerInv'
  BY TypeStep, RegistryStep, AbsentStep, TimelyStep DEF ServerInv
<1> QED
  BY <1>1, <1>2, PTL DEF Spec

(* A silent phone is out at the latest one maintenance interval and the    *)
(* delay of its timer after the timeout.                                   *)
THEOREM StaleClientsAlwaysExpire == Spec => []StaleClientsExpire
<1>1. ServerInv => StaleClientsExpire
  <2> SUFFICES ASSUME ServerInv, NEW a \in Members
               PROVE  silence[a] <= Timeout + Period + Slack
    BY DEF StaleClientsExpire
  <2>1. silence[a] \in Nat /\ silence[a] <= Timeout + sinceArmed
    BY DEF ServerInv, TypeOK, ClientsTypeOK, Timely, Members
  <2>2. sinceArmed \in Nat /\ sinceArmed <= Period + Slack
    BY ServerAssumption DEF ServerInv, TypeOK
  <2> QED
    BY <2>1, <2>2, ServerAssumption
<1> QED
  BY <1>1, ServerInvariant, PTL

-----------------------------------------------------------------------------
(* Acknowledgements.                                                       *)

LEMMA AckedStep ==
    ASSUME TypeOK, AckedIsRegistered, [Next]_vars
    PROVE  AckedIsRegistered'
<1>1. ASSUME NEW p \in Request, Receive(p)
      PROVE  AckedIsRegistered'
  <2> p.from \in Address
    BY RequestFrom
  <2>1. CASE ProcessConnect(p)
    <3>1. CASE p.format \in Format /\ (PasswordRequired => p.password)
      <4>1. clients'[p.from] = p.format /\ sent' = {[to |-> p.from, kind |-> "AckConnect"]}
        BY <2>1, <3>1 DEF ProcessConnect, Add, TypeOK, ClientsTypeOK
      <4> QED
        BY <3>1, <4>1 DEF AckedIsRegistered, Members
    <3>2. CASE ~(p.format \in Format /\ (PasswordRequired => p.password))
      BY <2>1, <3>2 DEF ProcessConnect, AckedIsRegistered
    <3> QED
      BY <3>1, <3>2
  <2>2. CASE ~ProcessConnect(p)
    BY <1>1, <2>2 DEF Receive, ProcessDisconnect, ProcessSetFormat, ProcessKeepAlive,
                      ProcessOther, AckedIsRegistered
  <2> QED
    BY <2>1, <2>2
<1>2. CASE \/ \E p \in Request : PhoneSend(p) \/ Lose(p)
           \/ \E a \in Address : PhoneOn(a) \/ PhoneOff(a)
           \/ AttachPipe \/ DetachPipe \/ Suspend \/ Start \/ Tick
  <2>1. sent' = {}
    BY <1>2 DEF PhoneSend, Lose, PhoneOn, PhoneOff, AttachPipe, DetachPipe, Suspend, Start, Tick
  <2> QED
    BY <2>1 DEF AckedIsRegistered
<1>3. CASE MaintainHandler
  BY <1>3 DEF MaintainHandler, KeepalivePackets, AckedIsRegistered
<1>4. CASE SendFrame
  BY <1>4 DEF SendFrame, FramePackets, AudioData, AckedIsRegistered
<1>5. CASE Shutdown \/ Exit
  BY <1>5 DEF Shutdown, Exit, DisconnectPackets, AckedIsRegistered
<1>6. CASE UNCHANGED vars
  BY <1>6 DEF vars, AckedIsRegistered, Members
<1> QED
  BY <1>1, <1>2, <1>3, <1>4, <1>5, <1>6 DEF Next

(* A connect is acknowledged only to a phone that is registered.           *)
THEOREM AckedAlwaysRegistered == Spec => []AckedIsRegistered
<1>1. Init => AckedIsRegistered
  BY DEF Init, AckedIsRegistered
<1>2. ServerInv /\ AckedIsRegistered /\ [Next]_vars => AckedIsRegistered'
  BY AckedStep DEF ServerInv
<1> QED
  BY <1>1, <1>2, ServerInvariant, PTL DEF Spec

-----------------------------------------------------------------------------
(* The server keeps the promise of Session.                                *)

(* Datagrams that are neither audio nor keep-alives.                       *)
Aside(S) == \A m \in S : m.kind \in {"AckConnect", "AckSetFormat", "Disconnect"}

LEMMA NothingHeard ==
    ASSUME Aside(sent')
    PROVE  Delivered' = {} /\ Reassured' = {}
BY DEF Aside, Delivered, Reassured

(* What the sender goes through is who is connected.                       *)
LEMMA CachedAreMembers ==
    ASSUME ServerInv
    PROVE  Cached = Members
<1>1. view["Server"] = InfosOf(clients)
  BY DEF ServerInv, RegistryOK, ListenersAgree
<1>2. ASSUME NEW a \in Address, NEW c \in Format
      PROVE  a \in clientsCache(c) <=> clients[a] = c
  BY <1>1 DEF clientsCache, InfosOf, ClientInfo
<1>3. \A a \in Members : clients[a] \in Format
  BY DEF Members, ServerInv, TypeOK, ClientsTypeOK
<1>4. Cached \subseteq Members
  BY <1>2, CachedAreAddresses DEF Cached, Members
<1>5. Members \subseteq Cached
  BY <1>2, <1>3 DEF Cached, Members
<1> QED
  BY <1>4, <1>5

(* Keep-alives reach everyone who is connected.                            *)
LEMMA KeepaliveReachesMembers ==
    ASSUME ServerInv, sent' = KeepalivePackets
    PROVE  Delivered' = {} /\ Reassured' = Members
<1>1. sent' = {[to |-> a, kind |-> "ServerKeepAlive"] : a \in Members}
  BY CachedAreMembers DEF KeepalivePackets
<1>2. \A m \in sent' : m.kind = "ServerKeepAlive" /\ m.to \in Members
  BY <1>1
<1>3. Delivered' = {}
  BY <1>2 DEF Delivered
<1>4. Reassured' \subseteq Members
  BY <1>2 DEF Reassured
<1>5. ASSUME NEW a \in Members
      PROVE  a \in Reassured'
  <2> DEFINE m == [to |-> a, kind |-> "ServerKeepAlive"]
  <2>1. m \in sent' /\ m.kind = "ServerKeepAlive" /\ m.to = a
    BY <1>1
  <2> QED
    BY <2>1 DEF Reassured
<1> QED
  BY <1>3, <1>4, <1>5

LEMMA FrameReachesMembers ==
    ASSUME ServerInv, SendFrame
    PROVE  Delivered' = {<<a, clients[a]>> : a \in Members} /\ Reassured' = {}
<1>1. "Pipe" \in listeners
  BY DEF SendFrame, encoders
<1>2. view["Server"] = InfosOf(clients) /\ view["Pipe"] = InfosOf(clients)
  BY <1>1 DEF ServerInv, RegistryOK, ListenersAgree
<1>3. ASSUME NEW m \in FramePackets
      PROVE  m.to \in Members /\ clients[m.to] = m.format
  BY <1>2, <1>3 DEF FramePackets, AudioData, clientsCache, InfosOf, Members, ClientInfo
<1>4. ASSUME NEW a \in Members
      PROVE  [to |-> a, kind |-> "AudioData", format |-> clients[a]] \in FramePackets
  <2>1. a \in Address /\ clients[a] \in Format
    BY DEF Members, ServerInv, TypeOK, ClientsTypeOK
  <2>2. [address |-> a, compression |-> clients[a]] \in InfosOf(clients)
    BY <2>1 DEF InfosOf, ClientInfo
  <2>3. clients[a] \in encoders
    BY <1>1, <1>2, <2>2 DEF encoders
  <2>4. a \in clientsCache(clients[a])
    BY <1>2, <2>1, <2>2 DEF clientsCache
  <2> QED
    BY <2>1, <2>3, <2>4 DEF FramePackets, AudioData
<1>5. Delivered' = {<<m.to, m.format>> : m \in FramePackets}
  BY DEF SendFrame, Delivered, FramePackets, AudioData
<1>6. Reassured' = {}
  BY DEF SendFrame, Reassured, FramePackets, AudioData
<1> QED
  <2>1. ASSUME NEW x \in Delivered'
        PROVE  x \in {<<a, clients[a]>> : a \in Members}
    BY <1>3, <1>5, <2>1
  <2>2. ASSUME NEW a \in Members
        PROVE  <<a, clients[a]>> \in Delivered'
    <3> DEFINE m == [to |-> a, kind |-> "AudioData", format |-> clients[a]]
    <3>1. m \in FramePackets /\ m.to = a /\ m.format = clients[a]
      BY <1>4
    <3> QED
      BY <1>5, <3>1
  <2> QED
    BY <1>6, <2>1, <2>2

LEMMA ReceiveKeepsPromise ==
    ASSUME ServerInv, NEW p \in Request, Receive(p)
    PROVE  Promise!SessionNext
<1> p.from \in Address
  BY RequestFrom
<1> USE DEF Promise!SessionNext
<1>0. Promise!Quiet
  <2>1. Aside(sent')
    BY DEF Receive, ProcessConnect, ProcessDisconnect, ProcessSetFormat, ProcessKeepAlive,
           ProcessOther, Aside
  <2> QED
    BY <2>1, NothingHeard DEF Promise!Quiet
<1> HIDE DEF Promise!Quiet
<1> p \in net
  BY DEF Receive
<1>1. ASSUME clients' = clients, silence' = silence
      PROVE  Promise!SessionNext
  <2>1. Promise!Time
    BY <1>0, <1>1 DEF Promise!Time, ServerInv, TypeOK, ClientsTypeOK
  <2> QED
    BY <2>1
<1>2. CASE ProcessConnect(p)
  <2>1. CASE p.format \in Format /\ (PasswordRequired => p.password)
    <3>1. p \in Promise!Asked(p.from, "Connect")
      BY <1>2, <2>1 DEF ProcessConnect, Accepted, Promise!Asked
    <3>2. Promise!Join(p.from)
      BY <1>0, <1>2, <2>1, <3>1 DEF ProcessConnect, Add, Promise!Join
    <3> QED
      BY <3>2
  <2>2. CASE ~(p.format \in Format /\ (PasswordRequired => p.password))
    BY <1>1, <1>2, <2>2 DEF ProcessConnect, clientsVars
  <2> QED
    BY <2>1, <2>2
<1>3. CASE ProcessDisconnect(p)
  <2>1. p \in Promise!Asked(p.from, "Disconnect")
    BY <1>3 DEF ProcessDisconnect, Accepted, Promise!Asked
  <2>2. Promise!Leave(p.from)
    BY <1>0, <1>3, <2>1 DEF ProcessDisconnect, Remove, Erase, Promise!Leave, Promise!Out
  <2> QED
    BY <2>2
<1>4. CASE ProcessSetFormat(p)
  <2>1. CASE p.format \in Format /\ clients[p.from] \notin {NoClient, p.format}
    <3>1. p \in Promise!Asked(p.from, "SetFormat")
      BY <1>4, <2>1 DEF ProcessSetFormat, Accepted, Promise!Asked
    <3>2. Promise!Reformat(p.from)
      BY <1>0, <1>4, <2>1, <3>1 DEF ProcessSetFormat, SetCompression, Promise!Reformat,
                                    Promise!Participants
    <3> QED
      BY <3>2
  <2>2. CASE ~(p.format \in Format /\ clients[p.from] \notin {NoClient, p.format})
    BY <1>1, <1>4, <2>2 DEF ProcessSetFormat, SetCompression, clientsVars
  <2> QED
    BY <2>1, <2>2
<1>5. CASE ProcessKeepAlive(p)
  <2>1. CASE clients[p.from] = NoClient
    BY <1>1, <1>5, <2>1 DEF ProcessKeepAlive, Keep
  <2>2. CASE clients[p.from] # NoClient
    <3>1. p \in Promise!Asked(p.from, "ClientKeepAlive")
      BY <1>5 DEF ProcessKeepAlive, Accepted, Promise!Asked
    <3>2. Promise!Contact(p.from)
      BY <1>0, <1>5, <2>2, <3>1 DEF ProcessKeepAlive, Keep, Promise!Contact
    <3> QED
      BY <3>2
  <2> QED
    BY <2>1, <2>2
<1>6. CASE ProcessOther(p)
  BY <1>1, <1>6 DEF ProcessOther, clientsVars
<1> QED
  BY <1>2, <1>3, <1>4, <1>5, <1>6 DEF Receive

LEMMA PromiseStep ==
    ASSUME ServerInv, [Next]_vars
    PROVE  [Promise!SessionNext]_(Promise!sessionVars)
<1> USE DEF Promise!SessionNext
<1>1. ASSUME NEW p \in Request, Receive(p)
      PROVE  Promise!SessionNext
  BY <1>1, ReceiveKeepsPromise
<1>2. CASE \/ \E p \in Request : PhoneSend(p) \/ Lose(p)
           \/ \E a \in Address : PhoneOn(a) \/ PhoneOff(a)
           \/ AttachPipe \/ DetachPipe \/ Start
  <2>1. sent' = {} /\ clients' = clients /\ silence' = silence
    BY <1>2 DEF PhoneSend, Lose, PhoneOn, PhoneOff, AttachPipe, DetachPipe, Start,
                AddClientsListener, RemoveClientsListener, clientsVars
  <2>2. Promise!Time
    BY <2>1, NothingHeard DEF Aside, Promise!Quiet, Promise!Time, ServerInv, TypeOK, ClientsTypeOK
  <2> QED
    BY <2>2
<1>3. CASE MaintainHandler
  <2>1. Delivered' = {} /\ Reassured' = Members
    BY <1>3, KeepaliveReachesMembers DEF MaintainHandler
  <2>2. Promise!Maintain
    BY <1>3, <2>1 DEF MaintainHandler, Maintain, Erase, Expired, Members, Promise!Maintain,
                      Promise!Overdue, Promise!Out, Promise!Participants
  <2> QED
    BY <2>2
<1>4. CASE SendFrame
  <2>1. Promise!Broadcast
    BY <1>4, FrameReachesMembers DEF SendFrame, clientsVars, Members, Promise!Broadcast,
                                     Promise!Participants
  <2> QED
    BY <2>1
<1>5. CASE Suspend
  <2>1. Promise!Quiet
    BY <1>5, NothingHeard DEF Suspend, Aside, Promise!Quiet
  <2>2. Promise!Close
    BY <1>5, <2>1 DEF Suspend, RemoveAll, Erase, Members, Promise!Close, Promise!Out,
                      Promise!Participants
  <2> QED
    BY <2>2
<1>6. CASE Shutdown \/ Exit
  <2>1. Aside(sent')
    BY <1>6 DEF Shutdown, Exit, DisconnectPackets, Aside
  <2>2. Promise!Quiet
    BY <2>1, NothingHeard DEF Promise!Quiet
  <2>3. /\ clients' = [a \in Address |-> NoClient]
        /\ silence' = [a \in Address |-> 0]
    BY <1>6 DEF Shutdown, Exit, ProcessEnds, ForgetClients
  <2>4. Promise!Close
    BY <2>2, <2>3 DEF ServerInv, TypeOK, ClientsTypeOK, AbsentNotTimed, Promise!Close,
                      Promise!Out, Promise!Participants
  <2> QED
    BY <2>4
<1>7. CASE Tick
  <2>1. Promise!Quiet
    BY <1>7, NothingHeard DEF Tick, Aside, Promise!Quiet
  <2>2. Promise!Time
    BY <1>7, <2>1 DEF Tick, SilenceGrows, ServerInv, TypeOK, ClientsTypeOK, Promise!Time
  <2> QED
    BY <2>2
<1>8. CASE UNCHANGED vars
  <2>1. UNCHANGED Promise!sessionVars
    BY <1>8 DEF vars, Promise!sessionVars, Delivered, Reassured
  <2> QED
    BY <2>1
<1> QED
  BY <1>1, <1>2, <1>3, <1>4, <1>5, <1>6, <1>7, <1>8 DEF Next

(* The server implements Session: frames reach everyone connected and only *)
(* them, each in its own compression, and no one is put out early.         *)
THEOREM ServerKeepsPromise == Spec => KeepsPromise
<1>1. Init => Promise!SessionInit
  BY DEF Init, NoClients, Promise!SessionInit, Delivered, Reassured
<1>2. ServerInv /\ [Next]_vars => [Promise!SessionNext]_(Promise!sessionVars)
  BY PromiseStep
<1> QED
  BY <1>1, <1>2, ServerInvariant, PTL DEF Spec, KeepsPromise, Promise!SessionSpec

-----------------------------------------------------------------------------
(* Coming in, and the end.                                                 *)

(* A phone that was dropped is served again only after its own Connect.    *)
THEOREM OnlyConnectEverAdmits == Spec => OnlyConnectAdmits
<1> DEFINE Admitted(a) == clients[a] = NoClient /\ clients'[a] # NoClient
           Asked(a) == \E p \in net : /\ p.kind = "Connect"
                                      /\ p.from = a
                                      /\ p.format = clients'[a]
                                      /\ PasswordRequired => p.password
<1>1. ASSUME ServerInv, [Next]_vars, NEW a \in Address, Admitted(a)
      PROVE  Asked(a)
  <2> USE DEF ServerInv, TypeOK, ClientsTypeOK
  <2>1. ASSUME NEW p \in Request, Receive(p)
        PROVE  Asked(a)
    <3> p.from \in Address /\ p \in net
      BY <2>1, RequestFrom DEF Receive
    <3>1. CASE ProcessConnect(p)
      <4>1. p.format \in Format /\ (PasswordRequired => p.password) /\ Add(p.from, p.format)
        BY <1>1, <3>1 DEF ProcessConnect, clientsVars
      <4>2. p.from = a /\ p.format = clients'[a]
        BY <1>1, <4>1 DEF Add
      <4> QED
        BY <3>1, <4>1, <4>2 DEF ProcessConnect
    <3>2. CASE ~ProcessConnect(p)
      BY <1>1, <2>1, <3>2 DEF Receive, ProcessDisconnect, Remove, Erase, ProcessSetFormat,
                              SetCompression, ProcessKeepAlive, Keep, ProcessOther, clientsVars
    <3> QED
      BY <3>1, <3>2
  <2>2. CASE ~\E p \in Request : Receive(p)
    BY <1>1, <2>2 DEF Next, vars, clientsVars, PhoneSend, Lose, PhoneOn, PhoneOff,
         MaintainHandler, Maintain, SendFrame, AttachPipe, AddClientsListener, DetachPipe,
         RemoveClientsListener, Suspend, RemoveAll, Erase, Shutdown, Exit, ProcessEnds,
         ForgetClients, Start, Tick, SilenceGrows
  <2> QED
    BY <2>1, <2>2
<1>2. ServerInv /\ [Next]_vars => [\A a \in Address : Admitted(a) => Asked(a)]_vars
  BY <1>1
<1> QED
  BY <1>2, ServerInvariant, PTL DEF Spec, OnlyConnectAdmits

(* An orderly shutdown sends a Disconnect to every connected phone.        *)
THEOREM FarewellAlwaysReachesAll == Spec => FarewellReachesAll
<1>1. ASSUME ServerInv
      PROVE  Cached = Members
  BY <1>1, CachedAreMembers
<1>2. ASSUME ServerInv, Shutdown
      PROVE  {m.to : m \in sent'} = Members
  <2>1. sent' = {[to |-> a, kind |-> "Disconnect"] : a \in Members}
    BY <1>1, <1>2 DEF Shutdown, DisconnectPackets
  <2>2. ASSUME NEW a \in Members
        PROVE  a \in {m.to : m \in sent'}
    <3>1. [to |-> a, kind |-> "Disconnect"].to = a
      OBVIOUS
    <3> QED
      BY <2>1, <3>1
  <2>3. ASSUME NEW a \in {m.to : m \in sent'}
        PROVE  a \in Members
    BY <2>1
  <2> QED
    BY <2>2, <2>3
<1>3. ServerInv /\ [Next]_vars => [Shutdown => {m.to : m \in sent'} = Members]_vars
  BY <1>2
<1> QED
  BY <1>3, ServerInvariant, PTL DEF Spec, FarewellReachesAll

=============================================================================
