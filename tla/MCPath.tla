-------------------------------- MODULE MCPath --------------------------------
(* Small instances of Path for TLC.                                        *)
EXTENDS Path

ConnectOf(version, id, compression, typed) ==
    [kind |-> "Connect", version |-> version, id |-> id, compression |-> compression,
     password |-> typed]

(* Passwords: none, one that fits its field of three bytes, one of four    *)
(* characters that does not, and one with a character that is not ASCII.   *)
SomePasswords == {<<>>, <<97, 98>>, <<97, 98, 99>>, <<97, 98, 200>>}

(* A phone of each version, compressions that are known and one that is    *)
(* not, passwords that fit, are cut and are wrong, keystrokes of two keys  *)
(* that share a scan code, Home and 7 of the number pad, without and with  *)
(* modifiers, and datagrams of other programs.                             *)
SomeRequests ==
    {ConnectOf(1, 258, 0, <<97, 98>>), ConnectOf(2, 770, 0, <<97, 98>>),
     ConnectOf(2, 258, 6, <<97, 98>>),
     ConnectOf(3, 513, 1, <<97, 98, 99>>)}
    \cup {[kind |-> "SetFormat", id |-> 770, compression |-> c] : c \in {1, 7}}
    \cup {[kind |-> "Disconnect"], [kind |-> "KeepAlive"],
          [kind |-> "Keystroke", key |-> 36, mods |-> {}],
          [kind |-> "Keystroke", key |-> 103, mods |-> {91, 18}],
          [kind |-> "Stray", bytes |-> <<165>>],
          [kind |-> "Stray", bytes |-> <<165, 112, 1, 0, 12, 2, 1, 2, 0, 97, 98, 0>>]}

(* The scan codes of those keys.                                           *)
SomeScanCodes == [vk \in {36, 103} |-> 71]
=============================================================================
