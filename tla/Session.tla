-------------------------------- MODULE Session --------------------------------
(***************************************************************************)
(* What the server promises its phones, without registry, snapshots,       *)
(* listeners, caches, encoders, checks of datagrams or timers: who takes   *)
(* part, in which compression, who is given a frame of audio, and who is   *)
(* told that the server is there.  It is for the phones to come, to leave  *)
(* and to change; the server puts no one out but the overdue, or everyone. *)
(***************************************************************************)
EXTENDS Naturals

CONSTANTS Address, Format, NoClient, Timeout

VARIABLES
    requests,   \* acceptable requests under way, which are for others to make
    session,    \* the compression of each participant, or NoClient
    silence,    \* how long each participant has been silent
    delivered,  \* who was sent a frame in the last step, and how encoded
    reassured   \* who was sent a keep-alive in the last step

sessionVars == <<session, silence, delivered, reassured>>

Participants == {a \in Address : session[a] # NoClient}

Overdue == {a \in Participants : silence[a] > Timeout}

Asked(a, kind) == {r \in requests : r.kind = kind /\ r.from = a}

Quiet == delivered' = {} /\ reassured' = {}

Out(S) ==
    /\ session' = [a \in Address |-> IF a \in S THEN NoClient ELSE session[a]]
    /\ silence' = [a \in Address |-> IF a \in S THEN 0 ELSE silence[a]]

(* A phone comes in, or comes in again with another compression.           *)
Join(a) ==
    /\ \E r \in Asked(a, "Connect") : session' = [session EXCEPT ![a] = r.format]
    /\ silence' = [silence EXCEPT ![a] = 0]
    /\ Quiet

(* A participant changes its compression; no one else can.                 *)
Reformat(a) ==
    /\ a \in Participants
    /\ \E r \in Asked(a, "SetFormat") : session' = [session EXCEPT ![a] = r.format]
    /\ Quiet
    /\ UNCHANGED silence

Contact(a) ==
    /\ Asked(a, "ClientKeepAlive") # {}
    /\ silence' = [silence EXCEPT ![a] = 0]
    /\ Quiet
    /\ UNCHANGED session

Leave(a) ==
    /\ Asked(a, "Disconnect") # {}
    /\ Out({a})
    /\ Quiet

(* All participants are told that the server is there, and those who were  *)
(* silent for longer than the timeout are put out, all of them and no one  *)
(* else.                                                                   *)
Maintain ==
    /\ Out(Overdue)
    /\ delivered' = {}
    /\ reassured' = Participants

(* Suspend, shutdown and exit end the session of everyone.                 *)
Close ==
    /\ Out(Participants)
    /\ Quiet

(* A frame goes to every participant, to each in its own compression, and  *)
(* to no one else.                                                         *)
Broadcast ==
    /\ delivered' = {<<a, session[a]>> : a \in Participants}
    /\ reassured' = {}
    /\ UNCHANGED <<session, silence>>

(* Silence grows, and anything else the participants do not see.           *)
Time ==
    /\ silence' \in [Address -> Nat]
    /\ \A a \in Address : silence'[a] \in {silence[a], silence[a] + 1}
    /\ Quiet
    /\ UNCHANGED session

SessionInit ==
    /\ session = [a \in Address |-> NoClient]
    /\ silence = [a \in Address |-> 0]
    /\ delivered = {}
    /\ reassured = {}

SessionNext ==
    \/ \E a \in Address : Join(a) \/ Reformat(a) \/ Contact(a) \/ Leave(a)
    \/ Maintain
    \/ Close
    \/ Broadcast
    \/ Time

SessionSpec == SessionInit /\ [][SessionNext]_sessionVars

=============================================================================
