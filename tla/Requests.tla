------------------------------- MODULE Requests -------------------------------
(***************************************************************************)
(* What one phone can count on when it asks the server for something: the  *)
(* requests are records here, as they are in Server, and a request that    *)
(* does not belong to the protocol changes nothing.  Module Wire reads the *)
(* same requests from the bytes of datagrams and implements this module.   *)
(***************************************************************************)
EXTENDS Naturals, Sequences

CONSTANTS
    Request,       \* the requests, records
    Password,      \* what the server may ask for as password
    Known,         \* the compressions the server knows
    NotRegistered, \* the phone is not registered
    NoAck,         \* no acknowledgement yet
    Version,       \* the version of the protocol
    Longest        \* the longest password that arrives as it was typed

VARIABLES
    password, \* the server's password, empty if it asks for none
    request,  \* the last request
    format,   \* the compression the phone is registered with, or NotRegistered
    ack,      \* the acknowledgement of the last request as the phone reads it, or NoAck
    pressed,  \* the keystroke of the last request as Windows sees it, or NoAck
    logged    \* the keystroke as the window's log has it, or NoAck

vars == <<password, request, format, ack, pressed, logged>>

NoKeys == pressed' = NoAck /\ logged' = NoAck

(* A longer password arrives cut.                                          *)
Arrives(typed) == SubSeq(typed, 1, IF Len(typed) < Longest THEN Len(typed) ELSE Longest)

(* A Connect of the first version of the protocol has no password field,   *)
(* and is as good as none; later versions add to the second.               *)
Connects(r) ==
    /\ r.kind = "Connect" /\ r.version >= Version
    /\ r.compression \in Known
    /\ password # <<>> => Arrives(r.password) = password

Connect(r) ==
    /\ Connects(r)
    /\ format' = r.compression
    /\ ack' = [id |-> r.id, version |-> Version]
    /\ NoKeys

SetsFormat(r) == r.kind = "SetFormat" /\ r.compression \in Known

(* A SetFormat is acknowledged whether or not the phone is registered.     *)
SetFormat(r) ==
    /\ SetsFormat(r)
    /\ format' = IF format = NotRegistered THEN NotRegistered ELSE r.compression
    /\ ack' = [id |-> r.id, version |-> 0]
    /\ NoKeys

Disconnect(r) ==
    /\ r.kind = "Disconnect"
    /\ format' = NotRegistered
    /\ ack' = NoAck
    /\ NoKeys

(* The key goes down while exactly the modifiers asked for are down; it    *)
(* does not where another program blocks the input.  It is in the log      *)
(* either way.                                                             *)
Keystroke(r) ==
    /\ r.kind = "Keystroke"
    /\ logged' = [key |-> r.key, mods |-> r.mods]
    /\ pressed' \in {NoAck, logged'}
    /\ ack' = NoAck
    /\ UNCHANGED format

(* What is no request of the protocol, or one that is refused, changes     *)
(* nothing and is not answered.                                            *)
Ignored(r) ==
    /\ ~Connects(r) /\ ~SetsFormat(r) /\ r.kind \notin {"Disconnect", "Keystroke"}
    /\ ack' = NoAck
    /\ NoKeys
    /\ UNCHANGED format

Init ==
    /\ password \in Password
    /\ request = NoAck
    /\ format = NotRegistered
    /\ ack = NoAck
    /\ pressed = NoAck
    /\ logged = NoAck

Next ==
    \E r \in Request :
        /\ request' = r
        /\ UNCHANGED password
        /\ Connect(r) \/ SetFormat(r) \/ Disconnect(r) \/ Keystroke(r) \/ Ignored(r)

Spec == Init /\ [][Next]_vars

=============================================================================
