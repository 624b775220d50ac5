----------------------------- MODULE ProgramProofs -----------------------------
(***************************************************************************)
(* Proofs about module Program, for any phones and any number of packets   *)
(* at a tick, and so for any depth of re-entry: first about the coroutines, *)
(* then about the registry, which keeps what ThreadsProofs shows of it     *)
(* while coroutines run on the io thread, fail, and end the process.       *)
(***************************************************************************)
EXTENDS Program, ThreadsProofs

-----------------------------------------------------------------------------
(* The stack: below the innermost activation there are only activations of *)
(* the pipe that have resumed the capture.                                 *)

Act == [who : {"capture", "pipe"},
        at : {"begin", "calling", "resume", "call", "next", "yielded"}]

Calling == Activation("pipe", "calling")

Nested(s) == s \in Seq(Act) /\ \A i \in 1..Len(s) - 1 : s[i] = Calling

LEMMA ActivationTyped ==
    /\ \A w \in {"capture", "pipe"} :
         \A a \in {"begin", "calling", "resume", "call", "next", "yielded"} : Activation(w, a) \in Act
    /\ Calling \in Act
BY DEF Activation, Calling, Act

LEMMA ActivationInjective ==
    ASSUME NEW w, NEW a, NEW v, NEW b, Activation(w, a) = Activation(v, b)
    PROVE  w = v /\ a = b
<1>1. Activation(w, a).who = Activation(v, b).who /\ Activation(w, a).at = Activation(v, b).at
  OBVIOUS
<1> QED
  BY <1>1 DEF Activation

LEMMA FrontOf ==
    ASSUME NEW s \in Seq(Act), s # <<>>
    PROVE  /\ Len(s) \in Nat /\ Len(s) >= 1
           /\ Front(s) \in Seq(Act) /\ Len(Front(s)) = Len(s) - 1
           /\ \A i \in 1..Len(s) - 1 : Front(s)[i] = s[i]
<1>1. Len(s) \in Nat /\ Len(s) >= 1
  OBVIOUS
<1> DEFINE n == Len(s) - 1
<1>2. n \in Nat /\ \A i \in 1..n : s[i] \in Act
  BY <1>1
<1>3. Front(s) = SubSeq(s, 1, n)
  BY DEF Front
<1> HIDE DEF n
<1>4. /\ SubSeq(s, 1, n) \in Seq(Act) /\ Len(SubSeq(s, 1, n)) = n
      /\ \A i \in 1..n : SubSeq(s, 1, n)[i] = s[i]
  BY <1>2
<1> QED
  BY <1>1, <1>3, <1>4 DEF n

LEMMA Popped ==
    ASSUME NEW s, Nested(s), s # <<>>
    PROVE  /\ Nested(Front(s)) /\ Len(Front(s)) = Len(s) - 1
           /\ Front(s) = <<>> \/ (Front(s) # <<>> /\ Last(Front(s)) = Calling)
<1>1. s \in Seq(Act) /\ \A i \in 1..Len(s) - 1 : s[i] = Calling
  BY DEF Nested
<1>2. /\ Len(s) \in Nat /\ Len(s) >= 1
      /\ Front(s) \in Seq(Act) /\ Len(Front(s)) = Len(s) - 1
      /\ \A i \in 1..Len(s) - 1 : Front(s)[i] = s[i]
  BY <1>1, FrontOf
<1>3. \A i \in 1..Len(s) - 1 : Front(s)[i] = Calling
  BY <1>1, <1>2
<1>4. Nested(Front(s))
  BY <1>2, <1>3 DEF Nested
<1>5. ASSUME Front(s) # <<>> PROVE Last(Front(s)) = Calling
  <2>1. Len(s) - 1 \in 1..Len(s) - 1
    BY <1>2, <1>5
  <2> QED
    BY <1>2, <1>3, <2>1 DEF Last
<1> QED
  BY <1>2, <1>4, <1>5

LEMMA Replaced ==
    ASSUME NEW s, Nested(s), s # <<>>, NEW x \in Act
    PROVE  LET t == Front(s) \o <<x>>
           IN  Nested(t) /\ t # <<>> /\ Last(t) = x /\ Len(t) = Len(s)
<1> DEFINE t == Front(s) \o <<x>>
<1>1. s \in Seq(Act) /\ \A i \in 1..Len(s) - 1 : s[i] = Calling
  BY DEF Nested
<1>2. /\ Len(s) \in Nat /\ Len(s) >= 1
      /\ Front(s) \in Seq(Act) /\ Len(Front(s)) = Len(s) - 1
      /\ \A i \in 1..Len(s) - 1 : Front(s)[i] = s[i]
  BY <1>1, FrontOf
<1>3. <<x>> \in Seq(Act) /\ Len(<<x>>) = 1 /\ <<x>>[1] = x
  OBVIOUS
<1>4. /\ t \in Seq(Act) /\ Len(t) = Len(Front(s)) + Len(<<x>>)
      /\ \A i \in 1..Len(Front(s)) + Len(<<x>>) :
           t[i] = IF i <= Len(Front(s)) THEN Front(s)[i] ELSE <<x>>[i - Len(Front(s))]
  BY <1>2, <1>3, ConcatProperties, Zenon
<1>5. /\ Len(t) = Len(s)
      /\ \A i \in 1..Len(s) - 1 : t[i] = Front(s)[i]
      /\ t[Len(s)] = x
  <2> HIDE DEF t
  <2>1. Len(t) = Len(s)
    BY <1>2, <1>3, <1>4
  <2>2. \A i \in 1..Len(s) : t[i] = IF i <= Len(s) - 1 THEN Front(s)[i] ELSE <<x>>[i - (Len(s) - 1)]
    BY <1>2, <1>3, <1>4
  <2>3. Len(s) - (Len(s) - 1) = 1 /\ Len(s) \in 1..Len(s) /\ ~(Len(s) <= Len(s) - 1)
    BY <1>2
  <2>4. t[Len(s)] = x
    BY <1>3, <2>2, <2>3
  <2>5. \A i \in 1..Len(s) - 1 : t[i] = Front(s)[i]
    BY <1>2, <2>2
  <2> QED
    BY <2>1, <2>4, <2>5
<1> HIDE DEF t
<1>6. Nested(t)
  BY <1>1, <1>2, <1>4, <1>5 DEF Nested
<1>7. t # <<>> /\ Last(t) = x
  BY <1>2, <1>4, <1>5 DEF Last
<1> QED
  BY <1>5, <1>6, <1>7 DEF t

LEMMA Pushed ==
    ASSUME NEW s, Nested(s), s # <<>>, NEW x \in Act
    PROVE  LET t == Front(s) \o <<Calling, x>>
           IN  Nested(t) /\ t # <<>> /\ Last(t) = x /\ Len(t) = Len(s) + 1
<1> DEFINE two == <<Calling, x>>
           t == Front(s) \o two
           n == Len(s)
<1>1. s \in Seq(Act) /\ \A i \in 1..n - 1 : s[i] = Calling
  BY DEF Nested
<1>2. /\ n \in Nat /\ n >= 1
      /\ Front(s) \in Seq(Act) /\ Len(Front(s)) = n - 1
      /\ \A i \in 1..n - 1 : Front(s)[i] = s[i]
  BY <1>1, FrontOf
<1>3. two \in Seq(Act) /\ Len(two) = 2 /\ two[1] = Calling /\ two[2] = x
  BY ActivationTyped
<1> HIDE DEF two, n
<1>4. /\ t \in Seq(Act) /\ Len(t) = Len(Front(s)) + Len(two)
      /\ \A i \in 1..Len(Front(s)) + Len(two) :
           t[i] = IF i <= Len(Front(s)) THEN Front(s)[i] ELSE two[i - Len(Front(s))]
  BY <1>2, <1>3, ConcatProperties, Zenon
<1> HIDE DEF t
<1>5. Len(t) = n + 1
  BY <1>2, <1>3, <1>4
<1>6. \A i \in 1..n + 1 : t[i] = IF i <= n - 1 THEN Front(s)[i] ELSE two[i - (n - 1)]
  BY <1>2, <1>3, <1>4
<1>7. t[n] = Calling
  <2>1. n - (n - 1) = 1 /\ n \in 1..n + 1 /\ ~(n <= n - 1)
    BY <1>2
  <2> QED
    BY <1>3, <1>6, <2>1
<1>8. t[n + 1] = x
  <2>1. (n + 1) - (n - 1) = 2 /\ n + 1 \in 1..n + 1 /\ ~(n + 1 <= n - 1)
    BY <1>2
  <2> QED
    BY <1>3, <1>6, <2>1
<1>9. \A i \in 1..n : t[i] = Calling
  BY <1>1, <1>2, <1>6, <1>7
<1>10. Nested(t)
  BY <1>2, <1>4, <1>5, <1>9 DEF Nested
<1>11. t # <<>> /\ Last(t) = x
  BY <1>2, <1>4, <1>5, <1>8 DEF Last
<1> QED
  BY <1>5, <1>10, <1>11 DEF t, two, n

LEMMA Alone ==
    ASSUME NEW x \in Act
    PROVE  Nested(<<x>>) /\ <<x>> # <<>> /\ Last(<<x>>) = x /\ Len(<<x>>) = 1
<1>1. <<x>> \in Seq(Act) /\ Len(<<x>>) = 1 /\ <<x>>[1] = x
  OBVIOUS
<1> QED
  BY <1>1 DEF Nested, Last

-----------------------------------------------------------------------------
(* What the properties rest on: what holds of the coroutines' frames and   *)
(* of their promise, by the activation that runs.                          *)

TimerOff == armed = FALSE /\ expired = FALSE

(* The capture waits for its timer.                                        *)
AtTimer ==
    /\ (armed = TRUE /\ expired = FALSE) \/ (armed = FALSE /\ expired = TRUE)
    /\ pcmAudio = FALSE /\ piece = "none" /\ yields = 0

(* There is no pipe, or its coroutine is about to begin.                   *)
Fresh ==
    /\ TimerOff
    /\ point = NoPipe
    /\ awaiting = FALSE /\ pcmAudio = FALSE /\ piece = "none" /\ yields = 0

(* The capture has come to its timer for the first time, and the pipe has  *)
(* not come to wait for audio.                                             *)
FirstWait == AtTimer /\ point = [capture |-> "timer", pipe |-> "gone"] /\ awaiting = FALSE

Waiting == AtTimer /\ point = [capture |-> "timer", pipe |-> "audio"] /\ awaiting = TRUE

(* The capture looks for a packet.                                         *)
Asking ==
    /\ TimerOff
    /\ point \in {[capture |-> "timer", pipe |-> "audio"], [capture |-> "yield", pipe |-> "audio"]}
    /\ awaiting = TRUE /\ pcmAudio = FALSE /\ piece = "none"

(* The capture has yielded; silence comes before any packet of a tick.     *)
Holding ==
    /\ TimerOff
    /\ point = [capture |-> "yield", pipe |-> "audio"]
    /\ awaiting = TRUE
    /\ piece \in {"packet", "silence"}
    /\ piece = "silence" => yields = 0

StackInv ==
    /\ Nested(stack)
    /\ stack # <<>> => failed = FALSE /\ crashed = FALSE
    /\ Running("pipe", "begin") => Fresh /\ Len(stack) = 1
    /\ Running("capture", "begin") => Fresh /\ Len(stack) = 2
    /\ Running("pipe", "calling") => (FirstWait /\ Len(stack) = 1) \/ Waiting
    /\ Running("pipe", "resume") => Holding /\ pcmAudio = TRUE /\ heard = 0
    /\ Running("pipe", "call") => Holding /\ pcmAudio = FALSE /\ heard = 1
    /\ Running("capture", "yielded") => Holding /\ pcmAudio = FALSE /\ heard = 1
    /\ Running("capture", "next") => Asking
    /\ Idle => Fresh \/ Waiting

(* Where there is no pipe or one is being made, nothing of an earlier one  *)
(* is left.                                                                *)
MakingInv ==
    /\ DOMAIN pc = Thread
    /\ pc["io"] = "greet" => pipe = TRUE
    /\ pipe \in BOOLEAN
    /\ ~crashed /\ (pipe = FALSE \/ pc["io"] \in {"create", "greet"}) => Fresh /\ stack = <<>>

CoInv == StackInv /\ MakingInv

LEMMA CoInvImplies == StackInv => EachPacketOnce /\ WaitBetweenHandlers
<1> SUFFICES ASSUME StackInv PROVE EachPacketOnce /\ WaitBetweenHandlers
  OBVIOUS
<1>1. EachPacketOnce
  BY DEF EachPacketOnce, StackInv, Holding
<1>2. ASSUME Idle PROVE WaitBetweenHandlers
  <2>1. Fresh \/ Waiting
    BY <1>2 DEF StackInv
  <2>2. CASE Fresh
    BY <2>2 DEF Fresh, TimerOff, WaitBetweenHandlers
  <2>3. CASE Waiting
    BY <2>3 DEF Waiting, AtTimer, WaitBetweenHandlers
  <2> QED
    BY <2>1, <2>2, <2>3
<1> QED
  BY <1>1, <1>2 DEF WaitBetweenHandlers

(* The activation on top is one only.                                      *)
LEMMA OnTop ==
    ASSUME NEW s, NEW w, NEW a, s # <<>>, Last(s) = Activation(w, a)
    PROVE  \A v, b : (s # <<>> /\ Last(s) = Activation(v, b)) => v = w /\ b = a
BY ActivationInjective

-----------------------------------------------------------------------------
(* One step of the coroutines.                                             *)

LEMMA CaptureBeginsKeeps ==
    ASSUME StackInv, CaptureBegins
    PROVE  StackInv'
<1>1. Nested(stack) /\ stack # <<>> /\ Fresh /\ Len(stack) = 2 /\ failed = FALSE /\ crashed = FALSE
  BY DEF CaptureBegins, StackInv, Running
<1>2. stack' = Front(stack) /\ failed' = FALSE /\ crashed' = FALSE
  BY <1>1 DEF CaptureBegins, AwaitTimer
<1>3. /\ Nested(stack') /\ Len(stack') = 1 /\ stack' # <<>>
      /\ Last(stack') = Activation("pipe", "calling")
  <2>1. Nested(Front(stack)) /\ Len(Front(stack)) = 1
        /\ (Front(stack) = <<>> \/ (Front(stack) # <<>> /\ Last(Front(stack)) = Calling))
    <3>1. Nested(Front(stack)) /\ Len(Front(stack)) = Len(stack) - 1
          /\ (Front(stack) = <<>> \/ (Front(stack) # <<>> /\ Last(Front(stack)) = Calling))
      BY <1>1, Popped
    <3> QED
      BY <1>1, <3>1
  <2>2. Front(stack) # <<>>
    BY <2>1
  <2> QED
    BY <1>2, <2>1, <2>2 DEF Calling
<1>4. FirstWait'
  BY <1>1 DEF CaptureBegins, AwaitTimer, Fresh, TimerOff, FirstWait, AtTimer, NoPipe, promiseVars, pieceVars
<1>5. \A v, b : (stack' # <<>> /\ Last(stack') = Activation(v, b)) => v = "pipe" /\ b = "calling"
  BY <1>3, OnTop
<1> QED
  BY <1>2, <1>3, <1>4, <1>5 DEF StackInv, Running, Idle

LEMMA NextPacketKeeps ==
    ASSUME StackInv, NextPacket
    PROVE  StackInv'
<1>1. Nested(stack) /\ stack # <<>> /\ Asking /\ failed = FALSE /\ crashed = FALSE
  BY DEF NextPacket, StackInv, Running
<1>2. failed' = FALSE /\ crashed' = FALSE /\ awaiting' = awaiting /\ expired' = expired
  BY <1>1 DEF NextPacket
<1>3. ASSUME NEW audio \in {"packet", "silence"}, Yield(audio), armed' = armed,
             audio = "silence" => yields' = 0
      PROVE  StackInv'
  <2>1. stack' = Front(stack) \o <<Activation("pipe", "resume")>>
    BY <1>1, <1>3 DEF Yield, Continue, Asking
  <2>2. Nested(stack') /\ stack' # <<>> /\ Last(stack') = Activation("pipe", "resume")
    BY <1>1, <2>1, Replaced, ActivationTyped
  <2>3. Holding' /\ pcmAudio' = TRUE /\ heard' = 0
    BY <1>1, <1>2, <1>3 DEF Yield, Asking, Holding, TimerOff
  <2>4. \A v, b : (stack' # <<>> /\ Last(stack') = Activation(v, b)) => v = "pipe" /\ b = "resume"
    BY <2>2, OnTop
  <2> QED
    BY <1>2, <2>2, <2>3, <2>4 DEF StackInv, Running, Idle
<1>4. ASSUME AwaitTimer, yields' = 0, UNCHANGED <<pcmAudio, piece, heard>> PROVE StackInv'
  <2>1. /\ stack' = Front(stack) /\ Nested(stack')
        /\ stack' = <<>> \/ (stack' # <<>> /\ Last(stack') = Activation("pipe", "calling"))
    BY <1>1, <1>4, Popped DEF AwaitTimer, Calling
  <2>2. Waiting'
    BY <1>1, <1>2, <1>4 DEF AwaitTimer, Asking, Waiting, AtTimer, TimerOff
  <2>3. \A v, b : (stack' # <<>> /\ Last(stack') = Activation(v, b)) => v = "pipe" /\ b = "calling"
    BY <2>1, OnTop
  <2> QED
    BY <1>2, <2>1, <2>2, <2>3 DEF StackInv, Running, Idle
<1>5. CASE yields < MaxBurst /\ Yield("packet") /\ yields' = yields + 1 /\ UNCHANGED armed
  BY <1>3, <1>5
<1>6. CASE yields = 0 /\ Yield("silence") /\ UNCHANGED <<yields, armed>>
  BY <1>3, <1>6
<1> QED
  BY <1>4, <1>5, <1>6 DEF NextPacket

LEMMA AfterYieldKeeps ==
    ASSUME StackInv, AfterYield
    PROVE  StackInv'
<1>1. /\ Nested(stack) /\ stack # <<>> /\ failed = FALSE /\ crashed = FALSE
      /\ Holding /\ pcmAudio = FALSE
  BY DEF AfterYield, StackInv, Running
<1>2. /\ failed' = FALSE /\ crashed' = FALSE /\ awaiting' = awaiting /\ pcmAudio' = pcmAudio
      /\ expired' = expired /\ yields' = yields /\ piece' = "none"
  BY <1>1 DEF AfterYield, promiseVars
<1>3. CASE piece = "packet"
  <2>1. /\ stack' = Front(stack) \o <<Activation("capture", "next")>>
        /\ point' = point /\ armed' = armed
    BY <1>3 DEF AfterYield, Continue
  <2>2. Nested(stack') /\ stack' # <<>> /\ Last(stack') = Activation("capture", "next")
    BY <1>1, <2>1, Replaced, ActivationTyped
  <2>3. Asking'
    BY <1>1, <1>2, <2>1 DEF Holding, Asking, TimerOff
  <2>4. \A v, b : (stack' # <<>> /\ Last(stack') = Activation(v, b)) => v = "capture" /\ b = "next"
    BY <2>2, OnTop
  <2> QED
    BY <1>2, <2>2, <2>3, <2>4 DEF StackInv, Running, Idle
<1>4. CASE piece # "packet"
  <2>1. AwaitTimer
    BY <1>4 DEF AfterYield
  <2>2. /\ stack' = Front(stack) /\ Nested(stack')
        /\ stack' = <<>> \/ (stack' # <<>> /\ Last(stack') = Activation("pipe", "calling"))
    BY <1>1, <2>1, Popped DEF AwaitTimer, Calling
  <2>3. Waiting'
    BY <1>1, <1>2, <1>4, <2>1 DEF AwaitTimer, Holding, Waiting, AtTimer, TimerOff
  <2>4. \A v, b : (stack' # <<>> /\ Last(stack') = Activation(v, b)) => v = "pipe" /\ b = "calling"
    BY <2>2, OnTop
  <2> QED
    BY <1>2, <2>2, <2>3, <2>4 DEF StackInv, Running, Idle
<1> QED
  BY <1>3, <1>4

LEMMA PipeBeginsKeeps ==
    ASSUME StackInv, PipeBegins
    PROVE  StackInv'
<1>1. Nested(stack) /\ stack # <<>> /\ Fresh /\ Len(stack) = 1 /\ failed = FALSE /\ crashed = FALSE
  BY DEF PipeBegins, StackInv, Running
<1>2. stack' = Front(stack) \o <<Calling, Activation("capture", "begin")>>
  BY DEF PipeBegins, Calling
<1>3. Nested(stack') /\ stack' # <<>> /\ Last(stack') = Activation("capture", "begin") /\ Len(stack') = 2
  <2>1. /\ Nested(stack') /\ stack' # <<>> /\ Last(stack') = Activation("capture", "begin")
        /\ Len(stack') = Len(stack) + 1
    BY <1>1, <1>2, Pushed, ActivationTyped
  <2> QED
    BY <1>1, <2>1
<1>4. Fresh' /\ failed' = FALSE /\ crashed' = FALSE
  BY <1>1 DEF PipeBegins, Fresh, TimerOff, NoPipe, promiseVars, timerVars, pieceVars
<1>5. \A v, b : (stack' # <<>> /\ Last(stack') = Activation(v, b)) => v = "capture" /\ b = "begin"
  BY <1>3, OnTop
<1> QED
  BY <1>3, <1>4, <1>5 DEF StackInv, Running, Idle

LEMMA AwaitAudioKeeps ==
    ASSUME StackInv, AwaitAudio
    PROVE  StackInv'
<1>1. /\ Nested(stack) /\ stack # <<>> /\ failed = FALSE /\ crashed = FALSE
      /\ FirstWait \/ Waiting
  BY DEF AwaitAudio, StackInv, Running
<1>2. pcmAudio = FALSE
  BY <1>1 DEF FirstWait, Waiting, AtTimer
<1>3. /\ point' = [point EXCEPT !.pipe = "audio"] /\ awaiting' = TRUE /\ stack' = Front(stack)
      /\ UNCHANGED <<pcmAudio, timerVars, pieceVars, failed, crashed>>
  BY <1>2 DEF AwaitAudio
<1>4. Waiting'
  BY <1>1, <1>3 DEF FirstWait, Waiting, AtTimer, timerVars, pieceVars
<1>5. /\ Nested(stack')
      /\ FirstWait /\ Len(stack) = 1 => stack' = <<>>
      /\ stack' = <<>> \/ (stack' # <<>> /\ Last(stack') = Activation("pipe", "calling"))
  <2>1. Nested(Front(stack)) /\ Len(Front(stack)) = Len(stack) - 1
        /\ (Front(stack) = <<>> \/ (Front(stack) # <<>> /\ Last(Front(stack)) = Calling))
    BY <1>1, Popped
  <2>2. Len(stack) = 1 => Front(stack) = <<>>
    BY <2>1 DEF Nested
  <2> QED
    BY <1>3, <2>1, <2>2 DEF Calling
<1>6. \A v, b : (stack' # <<>> /\ Last(stack') = Activation(v, b)) => v = "pipe" /\ b = "calling"
  BY <1>5, OnTop
<1> QED
  BY <1>1, <1>3, <1>4, <1>5, <1>6 DEF StackInv, Running, Idle

LEMMA ResumeWithAudioKeeps ==
    ASSUME StackInv, ResumeWithAudio
    PROVE  StackInv'
<1>1. Nested(stack) /\ stack # <<>> /\ failed = FALSE /\ crashed = FALSE /\ Holding /\ heard = 0
  BY DEF ResumeWithAudio, StackInv, Running
<1>2. stack' = Front(stack) \o <<Activation("pipe", "call")>>
  BY DEF ResumeWithAudio, Continue
<1>3. Nested(stack') /\ stack' # <<>> /\ Last(stack') = Activation("pipe", "call")
  BY <1>1, <1>2, Replaced, ActivationTyped
<1>4. Holding' /\ pcmAudio' = FALSE /\ heard' = 1 /\ failed' = FALSE /\ crashed' = FALSE
  BY <1>1 DEF ResumeWithAudio, Holding, TimerOff, timerVars
<1>5. \A v, b : (stack' # <<>> /\ Last(stack') = Activation(v, b)) => v = "pipe" /\ b = "call"
  BY <1>3, OnTop
<1> QED
  BY <1>3, <1>4, <1>5 DEF StackInv, Running, Idle

LEMMA CallCaptureKeeps ==
    ASSUME StackInv, CallCapture
    PROVE  StackInv'
<1>1. /\ Nested(stack) /\ stack # <<>> /\ failed = FALSE /\ crashed = FALSE
      /\ Holding /\ pcmAudio = FALSE /\ heard = 1
  BY DEF CallCapture, StackInv, Running
<1>2. stack' = Front(stack) \o <<Calling, Activation("capture", "yielded")>>
  BY <1>1 DEF CallCapture, Calling, Holding
<1>3. Nested(stack') /\ stack' # <<>> /\ Last(stack') = Activation("capture", "yielded")
  BY <1>1, <1>2, Pushed, ActivationTyped
<1>4. Holding' /\ pcmAudio' = FALSE /\ heard' = 1 /\ failed' = FALSE /\ crashed' = FALSE
  BY <1>1 DEF CallCapture, Holding, TimerOff, promiseVars, timerVars, pieceVars
<1>5. \A v, b : (stack' # <<>> /\ Last(stack') = Activation(v, b)) => v = "capture" /\ b = "yielded"
  BY <1>3, OnTop
<1> QED
  BY <1>3, <1>4, <1>5 DEF StackInv, Running, Idle

-----------------------------------------------------------------------------
(* The beginning of a pipe and of a tick, the timer, and the end.          *)

LEMMA BeginPipeKeeps ==
    ASSUME StackInv, Fresh, BeginPipe
    PROVE  StackInv'
<1>1. stack' = <<Activation("pipe", "begin")>>
  BY DEF BeginPipe
<1>2. /\ Nested(stack') /\ stack' # <<>> /\ Last(stack') = Activation("pipe", "begin")
      /\ Len(stack') = 1
  BY <1>1, Alone, ActivationTyped
<1>3. Fresh' /\ failed' = failed /\ crashed' = crashed
  BY DEF BeginPipe, Fresh, TimerOff, NoPipe, promiseVars, timerVars, pieceVars
<1>4. \A v, b : (stack' # <<>> /\ Last(stack') = Activation(v, b)) => v = "pipe" /\ b = "begin"
  BY <1>2, OnTop
<1>5. ~failed /\ ~crashed
  BY DEF BeginPipe, Idle
<1> QED
  BY <1>2, <1>3, <1>4, <1>5 DEF StackInv, Running, Idle

LEMMA ResumeCaptureKeeps ==
    ASSUME StackInv, ResumeCapture
    PROVE  StackInv'
<1>1. ~failed /\ ~crashed /\ expired /\ (Fresh \/ Waiting)
  BY DEF ResumeCapture, StackInv, Idle
<1>2. Waiting
  BY <1>1 DEF Fresh, TimerOff
<1>3. stack' = <<Activation("capture", "next")>>
  BY DEF ResumeCapture
<1>4. Nested(stack') /\ stack' # <<>> /\ Last(stack') = Activation("capture", "next")
  BY <1>3, Alone, ActivationTyped
<1>5. Asking' /\ failed' = failed /\ crashed' = crashed
  BY <1>1, <1>2 DEF ResumeCapture, Waiting, AtTimer, Asking, TimerOff, promiseVars, pieceVars
<1>6. \A v, b : (stack' # <<>> /\ Last(stack') = Activation(v, b)) => v = "capture" /\ b = "next"
  BY <1>4, OnTop
<1> QED
  BY <1>1, <1>4, <1>5, <1>6 DEF StackInv, Running, Idle

(* The timer expires at any time; a handler of a timer that is gone does   *)
(* nothing.                                                                *)
LEMMA TimerKeeps ==
    ASSUME StackInv, Expire \/ ResumeNobody
    PROVE  StackInv' /\ (Fresh => Fresh')
<1>1. CASE Expire
  <2>1. armed /\ armed' = FALSE /\ expired' = TRUE
    BY <1>1 DEF Expire
  <2>2. UNCHANGED <<stack, point, pcmAudio, awaiting, piece, heard, yields, failed, crashed>>
    BY <1>1 DEF Expire, promiseVars, pieceVars
  <2>3. ~TimerOff
    BY <2>1 DEF TimerOff
  <2>4. ~Fresh /\ ~Holding /\ ~Asking
    BY <2>3 DEF Fresh, Holding, Asking
  <2>5. (FirstWait => FirstWait') /\ (Waiting => Waiting')
    BY <2>1, <2>2 DEF FirstWait, Waiting, AtTimer
  <2> QED
    BY <2>2, <2>4, <2>5 DEF StackInv, Running, Idle
<1>2. CASE ResumeNobody
  <2>1. UNCHANGED <<stack, point, pcmAudio, awaiting, armed, expired, piece, heard, yields, failed, crashed>>
    BY <1>2 DEF ResumeNobody, promiseVars, pieceVars
  <2> QED
    BY <2>1 DEF StackInv, Running, Idle, Fresh, FirstWait, Waiting, AtTimer, Holding, Asking, TimerOff
<1> QED
  BY <1>1, <1>2

LEMMA EmptyNested == Nested(<<>>)
<1>1. <<>> \in Seq(Act) /\ Len(<<>>) = 0
  OBVIOUS
<1> QED
  BY <1>1 DEF Nested

LEMMA ThrowKeeps ==
    ASSUME StackInv, Throw
    PROVE  StackInv' /\ stack # <<>>
<1>1. stack' = <<>> /\ failed' = TRUE /\ stack # <<>>
  BY DEF Throw, Running
<1> QED
  BY <1>1, EmptyNested DEF StackInv, Running, Idle

LEMMA DestroyPipeKeeps ==
    ASSUME DestroyPipe
    PROVE  StackInv' /\ Fresh' /\ stack' = <<>>
<1>1. stack' = <<>> /\ Fresh'
  BY DEF DestroyPipe, Fresh, TimerOff, LoseTimer, NoPipe
<1> QED
  BY <1>1, EmptyNested DEF StackInv, Running, Idle

LEMMA NothingKeeps ==
    ASSUME StackInv, UNCHANGED coVars
    PROVE  StackInv' /\ (Fresh => Fresh')
<1>1. UNCHANGED <<stack, point, pcmAudio, awaiting, armed, expired, piece, heard, yields, failed, crashed>>
  BY DEF coVars, promiseVars, timerVars, pieceVars
<1> QED
  BY <1>1 DEF StackInv, Running, Idle, Fresh, FirstWait, Waiting, AtTimer, Holding, Asking, TimerOff

LEMMA CoStepKeeps ==
    ASSUME StackInv, CoStep
    PROVE  StackInv' /\ stack # <<>> /\ crashed' = crashed
<1>1. StackInv'
  BY CaptureBeginsKeeps, NextPacketKeeps, AfterYieldKeeps, PipeBeginsKeeps, AwaitAudioKeeps,
     ResumeWithAudioKeeps, CallCaptureKeeps DEF CoStep
<1>2. stack # <<>> /\ crashed' = crashed
  BY DEF CoStep, CaptureBegins, NextPacket, AfterYield, PipeBegins, AwaitAudio, ResumeWithAudio,
         CallCapture, Running
<1> QED
  BY <1>1, <1>2

-----------------------------------------------------------------------------
(* One step of the program.                                                *)

(* Where the coroutines are left alone, the pipe and what the io thread is *)
(* at are all that matters.                                                *)
LEMMA OthersKeep ==
    ASSUME CoInv, UNCHANGED coVars, DOMAIN pc' = Thread,
           pipe' = pipe, pc'["io"] \in {"create", "greet"} => pc'["io"] = pc["io"]
    PROVE  CoInv'
<1>1. StackInv' /\ (Fresh => Fresh')
  BY NothingKeeps DEF CoInv
<1>2. crashed' = crashed /\ stack' = stack
  BY DEF coVars
<1> QED
  BY <1>1, <1>2 DEF CoInv, MakingInv

LEMMA PcGoes ==
    ASSUME DOMAIN pc = Thread, NEW t \in Thread, NEW label, Goto(t, label)
    PROVE  /\ DOMAIN pc' = Thread
           /\ pc'[t] = label
           /\ \A u \in Thread : u # t => pc'[u] = pc[u]
BY DEF Goto

LEMMA ListenersKeep ==
    ASSUME CoInv, Listeners
    PROVE  CoInv'
<1>1. DOMAIN pc = Thread /\ UNCHANGED coVars
  BY DEF CoInv, MakingInv, Listeners
<1>2. PICK t \in Thread : Operation(t)
  BY DEF Listeners
<1>3. pipe' = pipe
  BY <1>2 DEF Operation, Lock, UpdateInfos, Notify, Unlock
<1>4. pc' = pc \/ \E label \in {"snapshot", "unlock", "notify", "idle", "pump"} : Goto(t, label)
  BY <1>2 DEF Operation, Lock, UpdateInfos, Notify, Unlock, Rest
<1>5. /\ DOMAIN pc' = Thread
      /\ pc'["io"] \in {"create", "greet"} => pc'["io"] = pc["io"]
  <2>1. CASE pc' = pc
    BY <1>1, <2>1
  <2>2. ASSUME NEW label \in {"snapshot", "unlock", "notify", "idle", "pump"}, Goto(t, label)
        PROVE  <1>5!1 /\ <1>5!2
    <3>1. /\ DOMAIN pc' = Thread /\ pc'[t] = label
          /\ \A u \in Thread : u # t => pc'[u] = pc[u]
      BY <1>1, <2>2, PcGoes
    <3> QED
      BY <3>1 DEF Thread
  <2> QED
    BY <1>4, <2>1, <2>2
<1> QED
  BY <1>1, <1>3, <1>5, OthersKeep

LEMMA ElsewhereKeeps ==
    ASSUME CoInv, UNCHANGED coVars, pipe' = pipe,
           \/ pc' = pc
           \/ \E label \in {"idle", "lock", "send", "destroy"} : Goto("io", label)
           \/ \E label \in {"lock", "peak", "pump"} : Goto("ui", label)
    PROVE  CoInv'
<1>1. DOMAIN pc = Thread /\ "io" \in Thread /\ "ui" \in Thread /\ "io" # "ui"
  BY DEF CoInv, MakingInv, Thread
<1>2. CASE pc' = pc
  BY <1>1, <1>2, OthersKeep
<1>3. ASSUME NEW label \in {"idle", "lock", "send", "destroy"}, Goto("io", label) PROVE CoInv'
  <2>1. DOMAIN pc' = Thread /\ pc'["io"] = label
    BY <1>1, <1>3, PcGoes
  <2> QED
    BY <2>1, OthersKeep
<1>4. ASSUME NEW label \in {"lock", "peak", "pump"}, Goto("ui", label) PROVE CoInv'
  <2>1. DOMAIN pc' = Thread /\ pc'["io"] = pc["io"]
    BY <1>1, <1>4, PcGoes
  <2> QED
    BY <2>1, OthersKeep
<1> QED
  BY <1>2, <1>3, <1>4

LEMMA TickKeeps ==
    ASSUME CoInv, TickBegins \/ TickGoesOn \/ TickFails \/ Timer
    PROVE  CoInv'
<1>1. StackInv /\ MakingInv /\ "io" \in Thread
  BY DEF CoInv, Thread
<1>2. CASE TickBegins
  <2>1. StackInv'
    BY <1>1, <1>2, ResumeCaptureKeeps DEF TickBegins
  <2>2. ~crashed /\ ~Fresh
    BY <1>2 DEF TickBegins, ResumeCapture, Idle, Fresh, TimerOff
  <2>3. pipe = TRUE
    BY <1>1, <2>2 DEF MakingInv
  <2>4. pipe' = pipe /\ Goto("io", "send")
    BY <1>2 DEF TickBegins, Send
  <2>5. DOMAIN pc' = Thread /\ pc'["io"] = "send"
    BY <1>1, <2>4, PcGoes DEF MakingInv
  <2> QED
    BY <2>1, <2>3, <2>4, <2>5 DEF CoInv, MakingInv
<1>3. CASE TickGoesOn
  <2>1. StackInv' /\ stack # <<>> /\ crashed' = crashed
    BY <1>1, <1>3, CoStepKeeps DEF TickGoesOn
  <2>2. pipe' = pipe /\ pc' = pc
    BY <1>3 DEF TickGoesOn, vars
  <2> QED
    BY <1>1, <2>1, <2>2 DEF CoInv, MakingInv
<1>4. CASE TickFails
  <2>1. StackInv' /\ stack # <<>>
    BY <1>1, <1>4, ThrowKeeps DEF TickFails
  <2>2. crashed = FALSE
    BY <1>1, <2>1 DEF StackInv
  <2>3. pipe = TRUE /\ pipe' = pipe
    BY <1>1, <1>4, <2>1, <2>2 DEF MakingInv, TickFails
  <2>4. DOMAIN pc' = Thread /\ pc'["io"] = "idle"
    <3>1. CASE pc' = [t \in Thread |-> Rest(t)]
      BY <1>1, <3>1 DEF Rest
    <3>2. CASE Goto("io", "idle")
      BY <1>1, <3>2, PcGoes DEF MakingInv
    <3> QED
      BY <1>4, <3>1, <3>2 DEF TickFails
  <2> QED
    BY <2>1, <2>3, <2>4 DEF CoInv, MakingInv
<1>5. CASE Timer
  <2>1. StackInv' /\ (Fresh => Fresh')
    BY <1>1, <1>5, TimerKeeps DEF Timer
  <2>2. stack' = stack /\ crashed' = crashed /\ pipe' = pipe /\ pc' = pc
    BY <1>5 DEF Timer, Expire, ResumeNobody, vars
  <2> QED
    BY <1>1, <2>1, <2>2 DEF CoInv, MakingInv
<1> QED
  BY <1>2, <1>3, <1>4, <1>5

LEMMA ChangesKeep ==
    ASSUME CoInv, ChangeCaptureDevice \/ DropPipe \/ StopCapture \/ MakePipe \/ StartPipe
    PROVE  CoInv'
<1>1. StackInv /\ MakingInv /\ "io" \in Thread /\ DOMAIN pc = Thread
  BY DEF CoInv, MakingInv, Thread
<1>2. CASE ChangeCaptureDevice /\ ChangeDevice
  <2>1. ~crashed /\ pipe = FALSE
    BY <1>1, <1>2 DEF ChangeCaptureDevice, ChangeDevice, Idle, MakingInv
  <2>2. Fresh /\ stack = <<>>
    BY <1>1, <2>1 DEF MakingInv
  <2>3. UNCHANGED coVars /\ pipe' = pipe /\ Goto("io", "create")
    BY <1>2 DEF ChangeCaptureDevice, ChangeDevice
  <2>4. StackInv' /\ Fresh' /\ stack' = <<>>
    BY <1>1, <2>2, <2>3, NothingKeeps DEF coVars
  <2>5. DOMAIN pc' = Thread /\ pc'["io"] = "create"
    BY <1>1, <2>3, PcGoes
  <2> QED
    BY <1>1, <2>3, <2>4, <2>5 DEF CoInv, MakingInv
<1>3. CASE (ChangeCaptureDevice \/ DropPipe) /\ StopCaptureDetach
  <2>1. UNCHANGED coVars /\ pipe' = pipe /\ Goto("io", "destroy")
    BY <1>3 DEF ChangeCaptureDevice, DropPipe, StopCaptureDetach
  <2> QED
    BY <2>1, ElsewhereKeeps
<1>4. CASE ChangeCaptureDevice /\ UNCHANGED vars
  <2>1. UNCHANGED coVars /\ pipe' = pipe /\ pc' = pc
    BY <1>4 DEF ChangeCaptureDevice, vars
  <2> QED
    BY <2>1, ElsewhereKeeps
<1>5. CASE StopCapture
  <2>1. StackInv' /\ Fresh' /\ stack' = <<>>
    BY <1>5, DestroyPipeKeeps DEF StopCapture
  <2>2. pipe' = FALSE /\ DOMAIN pc' = Thread /\ pc'["io"] \in {"create", "idle"}
    BY <1>1, <1>5 DEF StopCapture, StopCaptureDestroy
  <2> QED
    BY <2>1, <2>2 DEF CoInv, MakingInv
<1>6. CASE MakePipe /\ AddListener
  <2>1. UNCHANGED coVars /\ pipe' = TRUE /\ pc["io"] = "create" /\ Goto("io", "greet")
    BY <1>6 DEF MakePipe, AddListener
  <2>2. StackInv' /\ (Fresh => Fresh') /\ stack' = stack /\ crashed' = crashed
    BY <1>1, <2>1, NothingKeeps DEF coVars
  <2>3. DOMAIN pc' = Thread
    BY <1>1, <2>1, PcGoes
  <2> QED
    BY <1>1, <2>1, <2>2, <2>3 DEF CoInv, MakingInv
<1>7. CASE MakePipe /\ CreateFails
  <2>1. UNCHANGED coVars /\ pipe' = pipe /\ Goto("io", "idle")
    BY <1>7 DEF MakePipe, CreateFails
  <2> QED
    BY <2>1, ElsewhereKeeps
<1>8. CASE StartPipe
  <2>1. pc["io"] = "greet" /\ ~crashed /\ pipe' = pipe /\ Goto("io", "idle")
    BY <1>8 DEF StartPipe, Greet, BeginPipe, Idle
  <2>2. Fresh /\ pipe = TRUE
    BY <1>1, <2>1 DEF MakingInv
  <2>3. StackInv'
    BY <1>1, <1>8, <2>2, BeginPipeKeeps DEF StartPipe
  <2>4. DOMAIN pc' = Thread /\ pc'["io"] = "idle"
    BY <1>1, <2>1, PcGoes
  <2> QED
    BY <2>1, <2>2, <2>3, <2>4 DEF CoInv, MakingInv
<1> QED
  BY <1>2, <1>3, <1>4, <1>5, <1>6, <1>7, <1>8 DEF ChangeCaptureDevice, DropPipe, MakePipe

LEMMA ProgramKeeps == CoInv /\ [ProgramNext]_programVars => CoInv'
<1> SUFFICES ASSUME CoInv, [ProgramNext]_programVars PROVE CoInv'
  OBVIOUS
<1>1. CASE Network
  <2>1. UNCHANGED coVars /\ pipe' = pipe
    BY <1>1 DEF Network, Handler, Send, SendDone
  <2>2. \E label \in {"idle", "lock", "send", "destroy"} : Goto("io", label)
    BY <1>1 DEF Network, Handler, Send, SendDone
  <2> QED
    BY <2>1, <2>2, ElsewhereKeeps
<1>2. CASE SelectDevice \/ StopPeakMeter
  <2>1. UNCHANGED coVars /\ pipe' = pipe /\ pc' = pc
    BY <1>2 DEF SelectDevice, StopPeakMeter, vars
  <2> QED
    BY <2>1, ElsewhereKeeps
<1>3. CASE WindowSuspends \/ UpdatePeakMeter \/ ShowPeak
  <2>1. UNCHANGED coVars /\ pipe' = pipe
    BY <1>3 DEF WindowSuspends, UpdatePeakMeter, ShowPeak, Suspend, PeakMeter, PeakMeterDone
  <2>2. \E label \in {"lock", "peak", "pump"} : Goto("ui", label)
    BY <1>3 DEF WindowSuspends, UpdatePeakMeter, ShowPeak, Suspend, PeakMeter, PeakMeterDone
  <2> QED
    BY <2>1, <2>2, ElsewhereKeeps
<1>4. CASE UNCHANGED programVars
  <2>1. UNCHANGED coVars /\ pipe' = pipe /\ pc' = pc
    BY <1>4 DEF programVars, vars
  <2> QED
    BY <2>1, ElsewhereKeeps
<1> QED
  BY <1>1, <1>2, <1>3, <1>4, TickKeeps, ChangesKeep, ListenersKeep DEF ProgramNext

LEMMA ProgramBegins == ProgramInit => CoInv
<1> SUFFICES ASSUME ProgramInit PROVE CoInv
  OBVIOUS
<1>1. stack = <<>> /\ Fresh
  BY DEF ProgramInit, CoInit, Fresh, TimerOff
<1>2. pipe = FALSE /\ DOMAIN pc = Thread /\ pc["io"] = "idle"
  BY DEF ProgramInit, Init, Rest, Thread
<1> QED
  BY <1>1, <1>2, EmptyNested DEF CoInv, StackInv, MakingInv, Running, Idle

(* However many packets wait at a tick, and so however deep the pipe is    *)
(* entered again: what the capture yields is processed once, before the    *)
(* packet is given back to the device.                                     *)
THEOREM EachPacketAlwaysOnce == ProgramSpec => []EachPacketOnce
<1>1. CoInv => EachPacketOnce
  BY CoInvImplies DEF CoInv
<1> QED
  BY <1>1, ProgramBegins, ProgramKeeps, PTL DEF ProgramSpec

(* Between two handlers both coroutines wait for what will resume them, or *)
(* there is no pipe and nothing is left of one.                            *)
THEOREM AlwaysWaitBetweenHandlers == ProgramSpec => []WaitBetweenHandlers
<1>1. CoInv => WaitBetweenHandlers
  BY CoInvImplies DEF CoInv
<1> QED
  BY <1>1, ProgramBegins, ProgramKeeps, PTL DEF ProgramSpec

-----------------------------------------------------------------------------
(* The registry.  As long as the process has not ended, a step of the      *)
(* program is one of NotifyThreads or of no concern to the registry, but   *)
(* for an error in a tick.                                                 *)

(* While there are activations on its stack the io thread is in no         *)
(* operation of the registry; when the process has ended, no thread is.    *)
AtRest ==
    /\ stack # <<>> => pc["io"] \in {"idle", "send"}
    /\ crashed => \A t \in Thread : pc[t] = Rest(t)

RegistryInv ==
    /\ AtRest
    /\ ~crashed => IInv
    /\ crashed => TypeOK /\ LastCallWins

LEMMA IInvImplies == IInv => TypeOK /\ LastCallWins
<1> SUFFICES ASSUME IInv, mutex = Nobody
             PROVE  /\ view["Server"] = clients /\ view["App"] = clients
                    /\ ~suspends /\ pc["io"] = "idle" /\ pipe => view["Pipe"] = clients
  BY DEF LastCallWins, IInv
<1>1. \A t \in Thread : ~Inside(t)
  BY ThreadsAssumption DEF IInv, MutexHeld, Thread
<1>2. view["Server"] = clients /\ view["App"] = clients
  BY <1>1 DEF IInv, AllTold, Told, Inside
<1> QED
  BY <1>2 DEF IInv, PipeTold

(* The registry keeps its invariant in a step of its own.                  *)
LEMMA RegistrySteps ==
    ASSUME IInv, [Next]_vars, UNCHANGED crashed, ~crashed, AtRest'
    PROVE  RegistryInv'
<1>1. IInv'
  BY StepOK
<1> QED
  BY <1>1 DEF RegistryInv

(* What is left when the process has ended.                                *)
LEMMA NothingGoesOn ==
    ASSUME RegistryInv, UNCHANGED <<vars, stack, crashed>>
    PROVE  RegistryInv'
<1>1. AtRest' /\ (TypeOK /\ LastCallWins => TypeOK' /\ LastCallWins')
  BY DEF RegistryInv, AtRest, Rest, vars, TypeOK, LastCallWins
<1>2. IInv => IInv'
  BY StepOK
<1> QED
  BY <1>1, <1>2 DEF RegistryInv

(* An error in a tick: the io thread goes on with the next handler, or the *)
(* process ends with all its threads.                                      *)
LEMMA FailingKeeps ==
    ASSUME StackInv, RegistryInv, TickFails
    PROVE  RegistryInv'
<1>1. /\ stack # <<>> /\ stack' = <<>> /\ ~crashed
      /\ UNCHANGED <<suspends, mutex, clients, infos, list, todo, view, pipe, greeting>>
  BY DEF TickFails, Throw, Running, StackInv
<1>2. pc["io"] \in {"idle", "send"} /\ IInv /\ TypeOK /\ LastCallWins
  BY <1>1, IInvImplies DEF RegistryInv, AtRest
<1>3. CASE crashed'
  <2>1. pc' = [t \in Thread |-> Rest(t)]
    BY <1>3 DEF TickFails
  <2>2. TypeOK'
    BY <1>1, <1>2, <2>1 DEF TypeOK, Rest, Thread, IoLabel, UiLabel
  <2>3. ~suspends /\ pipe => view["Pipe"] = clients
    BY <1>2 DEF IInv, PipeTold
  <2>4. LastCallWins'
    BY <1>1, <1>2, <2>3 DEF LastCallWins
  <2>5. AtRest'
    BY <1>1, <2>1 DEF AtRest, Rest
  <2> QED
    BY <1>3, <2>2, <2>4, <2>5 DEF RegistryInv
<1>4. CASE ~crashed'
  <2>1. Goto("io", "idle")
    BY <1>4 DEF TickFails
  <2>2. IInv'
    BY <1>1, <1>2, <2>1, OutsideKeeps DEF Thread
  <2>3. AtRest'
    BY <1>1, <1>4 DEF AtRest
  <2> QED
    BY <1>4, <2>2, <2>3 DEF RegistryInv
<1> QED
  BY <1>3, <1>4

LEMMA RegistryKeeps ==
    ASSUME StackInv, RegistryInv, [ProgramNext]_programVars
    PROVE  RegistryInv'
<1>1. TypeOK /\ AtRest /\ DOMAIN pc = Thread /\ "io" \in Thread /\ (stack # <<>> => ~crashed)
  BY IInvImplies DEF RegistryInv, TypeOK, Thread, StackInv
<1>2. CASE UNCHANGED programVars
  BY <1>2, NothingGoesOn DEF programVars, coVars
<1>3. CASE TickFails
  BY <1>3, FailingKeeps
<1>4. CASE TickGoesOn
  <2>1. UNCHANGED vars /\ stack # <<>> /\ crashed' = crashed
    BY <1>4, CoStepKeeps DEF TickGoesOn
  <2>2. AtRest'
    BY <1>1, <2>1 DEF AtRest, vars
  <2> QED
    BY <1>1, <2>1, <2>2, RegistrySteps DEF RegistryInv
<1>5. CASE TickBegins
  <2>1. ~crashed /\ crashed' = crashed /\ Send
    BY <1>5 DEF TickBegins, ResumeCapture, Idle
  <2>2. AtRest'
    BY <1>1, <2>1 DEF AtRest, Send, Goto
  <2> QED
    BY <2>1, <2>2, RegistrySteps DEF RegistryInv, Next
<1>6. CASE StartPipe
  <2>1. ~crashed /\ crashed' = crashed /\ Greet
    BY <1>6 DEF StartPipe, BeginPipe, Idle
  <2>2. AtRest'
    BY <1>1, <2>1 DEF AtRest, Greet, Goto
  <2> QED
    BY <2>1, <2>2, RegistrySteps DEF RegistryInv, Next, IoDevice
<1>7. CASE StopCapture
  <2>1. ~crashed /\ crashed' = crashed /\ StopCaptureDestroy /\ stack' = <<>>
    BY <1>7 DEF StopCapture, DestroyPipe
  <2>2. AtRest'
    BY <2>1 DEF AtRest
  <2> QED
    BY <2>1, <2>2, RegistrySteps DEF RegistryInv, Next, IoDevice
<1>8. CASE Timer \/ SelectDevice \/ StopPeakMeter
  <2>1. UNCHANGED vars /\ stack' = stack /\ crashed' = crashed
    BY <1>8 DEF Timer, Expire, ResumeNobody, SelectDevice, StopPeakMeter, coVars
  <2> QED
    BY <2>1, NothingGoesOn
<1>9. CASE Network \/ ChangeCaptureDevice \/ DropPipe \/ MakePipe
  <2>1. ~crashed /\ stack = <<>>
    <3>1. CASE crashed
      BY <1>1, <1>9, <3>1 DEF Network, ChangeCaptureDevice, DropPipe, MakePipe, AddListener,
         CreateFails, SendDone, Idle, AtRest, Rest
    <3>2. CASE stack # <<>>
      BY <1>1, <1>9, <3>2 DEF Network, ChangeCaptureDevice, DropPipe, MakePipe, AddListener,
         CreateFails, Idle, AtRest
    <3> QED
      BY <3>1, <3>2
  <2>2. [Next]_vars /\ crashed' = crashed /\ stack' = stack
    BY <1>9 DEF Network, ChangeCaptureDevice, DropPipe, MakePipe, Next, IoDevice, coVars
  <2>3. AtRest'
    BY <2>1, <2>2 DEF AtRest
  <2> QED
    BY <2>1, <2>2, <2>3, RegistrySteps DEF RegistryInv
<1>10. CASE Listeners \/ WindowSuspends \/ UpdatePeakMeter \/ ShowPeak
  <2>1. ~crashed /\ [Next]_vars /\ crashed' = crashed /\ stack' = stack
    BY <1>10 DEF Listeners, WindowSuspends, UpdatePeakMeter, ShowPeak, Next, coVars
  <2>2. AtRest'
    <3>1. ASSUME stack # <<>> PROVE pc'["io"] = pc["io"]
      <4>1. pc["io"] \in {"idle", "send"}
        BY <1>1, <3>1 DEF AtRest
      <4> QED
        BY <1>1, <1>10, <4>1 DEF Listeners, Operation, Lock, UpdateInfos, Notify, Unlock,
           WindowSuspends, UpdatePeakMeter, ShowPeak, Suspend, PeakMeter, PeakMeterDone, Goto, Thread
    <3> QED
      BY <1>1, <2>1, <3>1 DEF AtRest
  <2> QED
    BY <2>1, <2>2, RegistrySteps DEF RegistryInv
<1> QED
  BY <1>2, <1>3, <1>4, <1>5, <1>6, <1>7, <1>8, <1>9, <1>10 DEF ProgramNext

LEMMA RegistryHolds == ProgramSpec => [](CoInv /\ RegistryInv)
<1>1. ProgramInit => RegistryInv
  <2> SUFFICES ASSUME ProgramInit PROVE RegistryInv
    OBVIOUS
  <2>1. IInv
    BY InitOK DEF ProgramInit
  <2>2. AtRest
    BY DEF ProgramInit, CoInit, AtRest
  <2>3. ~crashed
    BY DEF ProgramInit, CoInit
  <2> QED
    BY <2>1, <2>2, <2>3 DEF RegistryInv
<1>2. CoInv /\ RegistryInv /\ [ProgramNext]_programVars => (CoInv /\ RegistryInv)'
  BY ProgramKeeps, RegistryKeeps DEF CoInv
<1> QED
  BY <1>1, <1>2, ProgramBegins, PTL DEF ProgramSpec

(* The type of the registry's state in the whole program: the list of      *)
(* listeners never holds one twice, through every change of device and     *)
(* every error.                                                            *)
THEOREM ProgramTypeCorrect == ProgramSpec => []TypeOK
<1>1. RegistryInv => TypeOK
  BY IInvImplies DEF RegistryInv
<1> QED
  BY <1>1, RegistryHolds, PTL

(* With ticks, errors and changes of device between the calls, whenever    *)
(* clientsMutex_ is free the sender's cache and the window's list are what *)
(* the registry holds.                                                     *)
THEOREM ProgramLastCallWins == ProgramSpec => []LastCallWins
<1>1. RegistryInv => LastCallWins
  BY IInvImplies DEF RegistryInv
<1> QED
  BY <1>1, RegistryHolds, PTL

=============================================================================
