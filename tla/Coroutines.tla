------------------------------ MODULE Coroutines ------------------------------
(***************************************************************************)
(* The two coroutines of a capture pipe, suspension by suspension: that of *)
(* AudioCapture, which waits for its timer and yields packets, and that of *)
(* CapturePipe, which awaits them.  A coroutine runs when it is resumed,   *)
(* on the stack of whoever resumes it; its frame keeps one point to go on  *)
(* from.  The pipe resumes the capture in the middle of its own run, and   *)
(* the next yield then enters the pipe a second time at the point where it *)
(* last waited.  CapturePipe has the contents, sizes and devices; here it  *)
(* is who runs, who waits, and who has which packet.                       *)
(***************************************************************************)
EXTENDS Naturals, Sequences, SequencesExt, FiniteSets

CONSTANT MaxBurst \* bound: packets waiting at a tick

ASSUME CoroutinesAssumption == MaxBurst \in Nat \ {0}

VARIABLES
    stack,    \* the activations on the io thread's stack, the innermost last
    point,    \* where the frame of each coroutine is to be resumed
    pcmAudio, \* the promise of the capture holds audio
    awaiting, \* awaiting_coroutine_ is set
    armed,    \* the timer is running
    expired,  \* it has expired and its handler is in the queue
    orphan,   \* the handler of a timer that is gone is in the queue
    piece,    \* what the capture has yielded and not been resumed from
    heard,    \* how often that was processed
    yields,   \* packets in this tick
    failed,   \* an error has left the coroutines
    crashed   \* the process has ended

promiseVars == <<pcmAudio, awaiting>>
timerVars == <<armed, expired, orphan>>
pieceVars == <<piece, heard, yields>>
coVars == <<stack, point, promiseVars, timerVars, pieceVars, failed, crashed>>

Activation(who, at) == [who |-> who, at |-> at]

Running(who, at) == stack # <<>> /\ Last(stack) = Activation(who, at)

Continue(who, at) == stack' = Front(stack) \o <<Activation(who, at)>>

Idle == stack = <<>> /\ ~failed /\ ~crashed

-----------------------------------------------------------------------------
(* The capture.                                                            *)

(* co_await timer: the frame is left there, whoever resumed it goes on.    *)
AwaitTimer ==
    /\ point' = [point EXCEPT !.capture = "timer"]
    /\ armed' = TRUE
    /\ stack' = Front(stack)

(* co_yield: the promise takes the audio, and the coroutine that waits for *)
(* it runs in the place of the capture.                                    *)
Yield(audio) ==
    /\ pcmAudio' = TRUE
    /\ point' = [point EXCEPT !.capture = "yield"]
    /\ IF awaiting THEN Continue("pipe", "resume") ELSE stack' = Front(stack)
    /\ piece' = audio
    /\ heard' = 0

(* The stream is started, and the capture runs up to its timer.            *)
CaptureBegins ==
    /\ Running("capture", "begin")
    /\ AwaitTimer
    /\ UNCHANGED <<promiseVars, expired, orphan, pieceVars, failed, crashed>>

(* A packet is waiting and is yielded, or after a while without any a      *)
(* piece of silence, or there is nothing more to yield in this tick.       *)
NextPacket ==
    /\ Running("capture", "next")
    /\ \/ yields < MaxBurst /\ Yield("packet") /\ yields' = yields + 1 /\ UNCHANGED armed
       \/ yields = 0 /\ Yield("silence") /\ UNCHANGED <<yields, armed>>
       \/ AwaitTimer /\ yields' = 0 /\ UNCHANGED <<pcmAudio, piece, heard>>
    /\ UNCHANGED <<awaiting, expired, orphan, failed, crashed>>

(* Resumed after a yield: a packet is given back to the device, which is   *)
(* asked for the next; after silence the timer is awaited again.           *)
AfterYield ==
    /\ Running("capture", "yielded")
    /\ IF piece = "packet" THEN Continue("capture", "next") /\ UNCHANGED <<point, armed>>
                           ELSE AwaitTimer
    /\ piece' = "none" /\ heard' = 0
    /\ UNCHANGED <<promiseVars, expired, orphan, yields, failed, crashed>>

-----------------------------------------------------------------------------
(* The pipe.                                                               *)

(* process starts with the call of capture, which runs at once.            *)
PipeBegins ==
    /\ Running("pipe", "begin")
    /\ stack' = Front(stack) \o <<Activation("pipe", "calling"), Activation("capture", "begin")>>
    /\ UNCHANGED <<point, promiseVars, timerVars, pieceVars, failed, crashed>>

(* co_await audioCapture: without audio the frame is left there.           *)
AwaitAudio ==
    /\ Running("pipe", "calling")
    /\ IF pcmAudio THEN Continue("pipe", "resume") /\ UNCHANGED <<point, awaiting>>
       ELSE /\ point' = [point EXCEPT !.pipe = "audio"]
            /\ awaiting' = TRUE
            /\ stack' = Front(stack)
    /\ UNCHANGED <<pcmAudio, timerVars, pieceVars, failed, crashed>>

(* Faulty variants, here and below, are named for their slip.              *)
ResumeKeepsAudio ==
    /\ Running("pipe", "resume")
    /\ heard' = heard + 1
    /\ Continue("pipe", "call")
    /\ UNCHANGED <<pcmAudio, point, awaiting, timerVars, piece, yields, failed, crashed>>

(* await_resume takes the audio out of the promise, and it is processed.   *)
ResumeWithAudio ==
    /\ Running("pipe", "resume")
    /\ pcmAudio' = FALSE
    /\ heard' = heard + 1
    /\ Continue("pipe", "call")
    /\ UNCHANGED <<point, awaiting, timerVars, piece, yields, failed, crashed>>

CallNobody ==
    /\ Running("pipe", "call")
    /\ Continue("pipe", "calling")
    /\ UNCHANGED <<point, promiseVars, timerVars, pieceVars, failed, crashed>>

(* audioCapture.h_(): the capture is resumed from where its frame is.      *)
CallCapture ==
    /\ Running("pipe", "call")
    /\ stack' = Front(stack)
         \o <<Activation("pipe", "calling"),
              Activation("capture", IF point.capture = "yield" THEN "yielded" ELSE "next")>>
    /\ UNCHANGED <<point, promiseVars, timerVars, pieceVars, failed, crashed>>

-----------------------------------------------------------------------------
(* Timer, beginning and end.                                               *)

Expire ==
    /\ armed /\ ~crashed
    /\ armed' = FALSE
    /\ expired' = TRUE
    /\ UNCHANGED <<stack, point, promiseVars, orphan, pieceVars, failed, crashed>>

(* The handler of the timer: it resumes the capture if that is there.      *)
ResumeCapture ==
    /\ Idle /\ expired
    /\ expired' = FALSE
    /\ stack' = <<Activation("capture", "next")>>
    /\ UNCHANGED <<point, promiseVars, armed, orphan, pieceVars, failed, crashed>>

ResumeNobody ==
    /\ Idle /\ orphan
    /\ orphan' = FALSE
    /\ UNCHANGED <<stack, point, promiseVars, armed, expired, pieceVars, failed, crashed>>

(* CapturePipe::start                                                      *)
BeginPipe ==
    /\ Idle
    /\ stack' = <<Activation("pipe", "begin")>>
    /\ UNCHANGED <<point, promiseVars, timerVars, pieceVars, failed, crashed>>

(* The timer goes with its frame; a handler of its own that still comes    *)
(* knows that by the flag destroyed_, or by its error code.                *)
LoseTimer ==
    /\ armed' = FALSE
    /\ expired' = FALSE
    /\ orphan' = (orphan \/ armed \/ expired)

(* Whatever fails, a call of the device or an encoder, leaves every        *)
(* activation on the stack with the exception.  Each one of the pipe's     *)
(* destroys the frame of the capture; twice is undefined.                  *)
Throw ==
    /\ \/ \E at \in {"begin", "next"} : Running("capture", at)
       \/ Running("capture", "yielded") /\ piece = "packet"
       \/ Running("pipe", "resume")
    /\ LET times == Cardinality({i \in DOMAIN stack : stack[i].who = "pipe"})
       IN  crashed' \in IF times > 1 THEN BOOLEAN ELSE {FALSE}
    /\ stack' = <<>>
    /\ failed' = TRUE
    /\ LoseTimer
    /\ UNCHANGED <<point, promiseVars, pieceVars>>

NoPipe == [capture |-> "gone", pipe |-> "gone"]

(* CapturePipe::stop, also after an error: the frames are destroyed.       *)
DestroyPipe ==
    /\ stack = <<>> /\ ~crashed
    /\ point' = NoPipe
    /\ pcmAudio' = FALSE /\ awaiting' = FALSE
    /\ piece' = "none" /\ heard' = 0 /\ yields' = 0
    /\ failed' = FALSE
    /\ LoseTimer
    /\ UNCHANGED <<stack, crashed>>

CoInit ==
    /\ stack = <<>>
    /\ point = NoPipe
    /\ pcmAudio = FALSE /\ awaiting = FALSE
    /\ armed = FALSE /\ expired = FALSE /\ orphan = FALSE
    /\ piece = "none" /\ heard = 0 /\ yields = 0
    /\ failed = FALSE /\ crashed = FALSE

(* The running activation goes on.                                         *)
CoStep ==
    \/ CaptureBegins \/ NextPacket \/ AfterYield
    \/ PipeBegins \/ AwaitAudio \/ ResumeWithAudio \/ CallCapture

-----------------------------------------------------------------------------
(* Properties.                                                             *)

(* What the capture yields is processed once, however often the pipe is    *)
(* entered in one tick: while the capture still holds the packet, and      *)
(* before it is resumed to give it back.                                   *)
EachPacketOnce ==
    Running("pipe", "call") \/ Running("capture", "yielded") => piece # "none" /\ heard = 1

(* Between two handlers the coroutines of a pipe wait, the capture for a   *)
(* timer that is running or has a handler in the queue, the pipe for       *)
(* audio of which there is none; without a pipe nothing is left of them.   *)
WaitBetweenHandlers ==
    Idle =>
        \/ /\ point = [capture |-> "timer", pipe |-> "audio"]
           /\ armed # expired
           /\ awaiting /\ ~pcmAudio /\ piece = "none" /\ yields = 0
        \/ point = NoPipe /\ ~armed /\ ~expired

=============================================================================
