------------------------------ MODULE Keystrokes ------------------------------
(***************************************************************************)
(* Keystroke: what a keystroke of a phone does to the keyboard, and the    *)
(* line by which the window's log names it.                                *)
(***************************************************************************)
EXTENDS Naturals, Sequences, SequencesExt

CONSTANTS
    ScanCode,    \* the scan codes of the virtual keys that have one, a function
    UnknownKey   \* the name of a key that Windows has no name for

(* Win, Ctrl, Shift and Alt: their bits and their virtual keys.            *)
ModKey == <<1, 2, 4, 8>>
ModKeyVk == <<91, 17, 16, 18>>

(* The modifiers of the bit field.                                         *)
Mods(bits) == {ModKeyVk[i] : i \in {j \in 1..4 : (bits \div ModKey[j]) % 2 = 1}}

-----------------------------------------------------------------------------
(* Emulation.                                                              *)

Down(vk) == [vk |-> vk, up |-> FALSE, extended |-> FALSE]
Up(vk) == [vk |-> vk, up |-> TRUE, extended |-> FALSE]
Extended(event) == [event EXCEPT !.extended = TRUE]

(* A faulty variant, named for its slip.                                   *)
EventsUnreleased(key, order) ==
    [i \in 1..Len(order) |-> Down(order[i])]
        \o <<Extended(Down(key)), Extended(Up(key))>>
        \o [i \in 1..Len(order) |-> Up(order[1])]

(* The modifiers go down in the order in which the set lists them, then    *)
(* the key goes down and up, then the modifiers up the other way round.    *)
Events(key, order) ==
    [i \in 1..Len(order) |-> Down(order[i])]
        \o <<Extended(Down(key)), Extended(Up(key))>>
        \o [i \in 1..Len(order) |-> Up(order[Len(order) + 1 - i])]

(* The keys that are down after the first n events.                        *)
HeldAfter(events, n) ==
    {events[i].vk : i \in {j \in 1..n :
        ~events[j].up /\ ~\E k \in j + 1..n : events[k].vk = events[j].vk /\ events[k].up}}

(* What emulate may insert: SendInput takes all events or, where another   *)
(* program blocks it, none.                                                *)
Emulated(key, mods) == {<<>>} \cup {Events(key, order) : order \in SetToSeqs(mods)}

-----------------------------------------------------------------------------
(* The log.  A name is a tuple that begins with where it comes from.       *)

(* Keys of browsers, volume, media, start, sleep, print and pause, whose   *)
(* names are in the code.                                                  *)
NamedKeys == 166..183 \cup {95, 44, 19}

(* Keys that share their scan code with another one: right Ctrl and Alt,   *)
(* the keys between letters and digits, Num Lock, Cancel, Divide, Windows  *)
(* and Apps.                                                               *)
ExtendedKeys == {163, 165, 45, 46, 36, 35, 33, 34, 37, 38, 39, 40, 144, 3, 111, 91, 92, 93}

(* Windows names the other keys by scan code and extended flag.            *)
getVkCodeDescription(vk) ==
    CASE vk \in NamedKeys -> <<"code", vk>>
      [] vk \notin NamedKeys /\ vk \in DOMAIN ScanCode ->
            <<"windows", ScanCode[vk], vk \in ExtendedKeys>>
      [] OTHER -> <<UnknownKey>>

(* The modifiers in a fixed order, then the key.                           *)
toString(key, mods) ==
    LET Name(vk) == IF vk \in mods THEN <<<<"modifier", vk>>>> ELSE <<>>
    IN  Append(Name(91) \o Name(17) \o Name(16) \o Name(18), getVkCodeDescription(key))
=============================================================================
